SPECIFICATION Spec
CONSTANTS
  t1 = t1
  t2 = t2
  b1 = b1
  b2 = b2
  Thread = {t1}
  Box = {b1}
  LastDay = 0
  BatchSize = 1
  MayAskToday = TRUE
  RetryStatus = {"failed"}
  HasWorker = FALSE
  Limit <- LimitNone
INVARIANTS CoveredIsStored
\* Every event is bounded, so the system stops.
CHECK_DEADLOCK FALSE
