SPECIFICATION Spec
CONSTANTS
  a = a
  b = b
  again = again
  ann = ann
  bob = bob
  Clients <- Connections
  Logins <- Players
  LoginOf <- PlayerOf
  None = None
  NoMap = NoMap
  HashEvery = 2
  Plasma = 1
  MaxTicks = 2
  MaxActs = 1
  MaxFaults = 1
INVARIANTS WorldsAgree HashesOfTick PlayersKnown
PROPERTIES EveryonePlays
CHECK_DEADLOCK FALSE
