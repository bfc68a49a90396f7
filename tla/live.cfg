SPECIFICATION FairSpec
CONSTANTS
  c1 = c1  c2 = c2  c3 = c3  c4 = c4
  admin = admin  user = user  guest = guest  guest2 = guest2
  Conn = {c1, c2}
  Login = {admin, user}
  Admin = {admin}
  Guest = {}
  Version = {v1}
  HashValue = {h1, h2}
  None = None
  PlayerQueueLength = 1
  RegistryQueueLength = 1
  StartHashCheckEvery = 2
  SendConnCountEvery = 9
  MaxID = 3
  MaxTick = 3
  MaxMessages = 0
  LoginOf <- PairLogins
PROPERTIES HandlerEnds JoinResolves ClosedEnds DroppedOnEvidence
CHECK_DEADLOCK FALSE
