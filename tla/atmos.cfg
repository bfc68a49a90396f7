\* Two cabins, a door and space beyond it, for two ticks with two steps by people.
CONSTANTS
  Width = 8
  Height = 8
  GroupSize = 4
  Machine = {1, 2, 3, 4, 5, 6, 7, 8, 9}
  KindOf <- MCKindOf
  DirOf <- MCDirOf
  CellOf <- MCCellOf
  PumpPressure = 38000
  None = None
  Layouts <- MCLayouts
  Rooms <- MCRooms
  Movers <- MCMovers
  People <- MCPeople
  Welders <- MCWelders
  MaxTick = 2
  MaxActs = 3
SPECIFICATION Spec
INVARIANTS CellsSound FlowsBalance PipesMutual
PROPERTIES GasConserved
CHECK_DEADLOCK FALSE
