SPECIFICATION Spec
CONSTANTS
  c1 = c1  c2 = c2  c3 = c3  c4 = c4
  admin = admin  user = user  guest = guest  guest2 = guest2
  Conn = {c1, c2, c3, c4}
  Login = {admin, user, guest, guest2}
  Admin = {admin, user}
  Guest = {guest, guest2}
  Version = {v1}
  HashValue = {h1}
  None = None
  PlayerQueueLength = 1
  RegistryQueueLength = 1
  StartHashCheckEvery = 9
  SendConnCountEvery = 9
  MaxID = 3
  MaxTick = 1
  MaxMessages = 0
  LoginOf <- RestartLogins
INVARIANT MasterIsMember
CHECK_DEADLOCK FALSE
