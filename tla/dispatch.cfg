SPECIFICATION FairSpec
CONSTANTS
  Ids <- OneId
  Delays = {0}
  MaxSeq = 3
  MaxCalls = 2
  Threads = {game}
  Pumps = {game}
  ServerPumps = {}
  Listeners = {l1}
  ServerListeners = {}
  ListensTo <- ListenToOneId
  Waiters = {w1}
  DestroyDuringPump = FALSE
CHECK_DEADLOCK FALSE
INVARIANTS TypeOK EveryCallOnce NoUseAfterFree NoStrandedWaiter
PROPERTIES InsertionOrder ImplementsAsyncCalls QueuedCallCompletes
