SPECIFICATION Spec
CONSTANTS
  Ids <- OneId
  Delays = {0}
  MaxSeq = 2
  MaxCalls = 2
  Threads = {client, server}
  Pumps = {client, server}
  ServerPumps = {server}
  Listeners = {l1}
  ServerListeners = {}
  ListensTo <- ListenToOneId
  Waiters = {w1}
  DestroyDuringPump = FALSE
CHECK_DEADLOCK FALSE
PROPERTY CallbackReachesItsListeners
