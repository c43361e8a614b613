SPECIFICATION FairStreamSpec
CONSTANTS
  QueueSize = 1
  PageSize = 2
  PublishLimit = 2
  Batches <- OneOrTwo
  MaxLast = 5
  MaxLosses = 3
CHECK_DEADLOCK FALSE
INVARIANTS
  Consecutive
PROPERTIES
  DeliversInOrder
  EndedSessionIsClosed
  CatchesUp
