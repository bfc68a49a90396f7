SPECIFICATION Spec
CONSTANTS
  p1 = p1
  p2 = p2
  Player <- Players
  Creator = p1
  Layouts <- SmallMaps
  Width = 4
  Height = 3
  FUEL = 3
  AMMO = 1
  RESPAWN = 0
  DOOR_TIME = 1
  GLASS_DOOR_TIME = 0
  OPEN_TIME = 1
  SLOW_FREQ = 1
  KNOCKED_TIME = 2
  HUMAN_MAX_HEALTH = 250
  ATTACK_CD = 1
  LAY_TIME = 1
  MaxTick = 7
  MaxActs = 3
CHECK_DEADLOCK FALSE
INVARIANTS
  WellPlaced
  SumsAreCurrent
  ShapeFollowsState
  ForcesQueued
  MindsSound
  WallsMatch
PROPERTIES
  OneStepPerTick
