CONSTANTS
  Workers = {w1, w2, w3}
  Capacity = 2
  MaxTasks = 5
SPECIFICATION Spec
INVARIANTS
  TypeOK
  NothingIsLost
  NoSendOnClosed
PROPERTIES
  FailureIsReported
  CleanRunReturns
  SmallImageReturns
CHECK_DEADLOCK FALSE
