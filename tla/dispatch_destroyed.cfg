SPECIFICATION Spec
CONSTANTS
  Ids <- OneId
  Delays = {0}
  MaxSeq = 3
  MaxCalls = 2
  Threads = {game}
  Pumps = {game}
  ServerPumps = {}
  Listeners = {l1}
  ServerListeners = {}
  ListensTo <- ListenToOneId
  Waiters = {w1}
  DestroyDuringPump = TRUE
CHECK_DEADLOCK FALSE
INVARIANT NoUseAfterFree
