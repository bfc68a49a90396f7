SPECIFICATION ClientSpec
CONSTANTS
  mob = mob
  thing = thing
  Axes <- Line
  TileSize = 12
  Ids <- Visible
  Me = mob
  MaxLevel = 2
  Contents <- InView
  MaxFrames = 3
  MaxMail = 1
INVARIANTS ChatInOrder ClickHitsTop
PROPERTIES CameraOnMob ClosesDown
CHECK_DEADLOCK FALSE
