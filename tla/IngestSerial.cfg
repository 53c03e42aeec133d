SPECIFICATION Spec
CONSTANTS
  t1 = t1
  t2 = t2
  b1 = b1
  b2 = b2
  Thread = {t1}
  Box = {b1}
  LastDay = 2
  BatchSize = 2
  MayAskToday = FALSE
  RetryStatus = {"failed"}
  HasWorker = TRUE
  Limit <- LimitSerial
INVARIANTS TypeOK CheckpointSound CoveredPastIsStored DoneIsCovered
\* Every event is bounded, so the system stops.
CHECK_DEADLOCK FALSE
