SPECIFICATION Spec
CONSTANTS
  c1 = c1  c2 = c2  c3 = c3  c4 = c4
  admin = admin  user = user  guest = guest  guest2 = guest2
  Conn = {c1, c2, c3}
  Login = {admin, user}
  Admin = {admin}
  Guest = {}
  Version = {v1}
  HashValue = {h1}
  None = None
  PlayerQueueLength = 2
  RegistryQueueLength = 1
  StartHashCheckEvery = 9
  SendConnCountEvery = 9
  MaxID = 3
  MaxTick = 1
  MaxMessages = 1
  LoginOf <- ReloginLogins
SYMMETRY AdminConnections
INVARIANTS SystemAfterTick InboxOwnership SameHistory
CHECK_DEADLOCK FALSE
