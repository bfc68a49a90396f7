SPECIFICATION Spec
CONSTANTS
  c1 = c1  c2 = c2  c3 = c3  c4 = c4
  admin = admin  user = user  guest = guest  guest2 = guest2
  Conn = {c1, c2, c3}
  Login = {admin, user, guest}
  Admin = {admin, user}
  Guest = {guest}
  Version = {v1}
  HashValue = {h1}
  None = None
  PlayerQueueLength = 9
  RegistryQueueLength = 1
  StartHashCheckEvery = 9
  SendConnCountEvery = 2
  MaxID = 3
  MaxTick = 2
  MaxMessages = 0
  LoginOf <- OrderlyLogins
INVARIANTS GameSound NoOrphanInbox ClientsHaveMob
PROPERTIES SessionRefined
CHECK_DEADLOCK FALSE
