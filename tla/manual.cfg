SPECIFICATION FairSpec
CONSTANTS
  Ids <- OneId
  Delays = {0, 1}
  MaxSeq = 3
  MaxCalls = 2
  MaxNow = 2
CHECK_DEADLOCK FALSE
INVARIANTS TypeOK EveryCallOnce BufferStable CompletionFetchable
PROPERTIES PollNeverFails CallbacksInOrder ImplementsAsyncCalls QueuesDrain
