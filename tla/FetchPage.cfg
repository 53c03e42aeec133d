SPECIFICATION PageSpec
CONSTANTS
  t1 = t1
  t2 = t2
  b1 = b1
  p1 = p1
  Thread = {t1, t2}
  Box = {b1}
  LastDay = 3
  BatchSize = 2
  MayAskToday = FALSE
  RetryStatus = {"failed"}
  HasWorker = FALSE
  Limit <- MCLimit
  Tab = {p1}
  Ask <- MCAsk
  Recent = 1
  MaxLost = 1
INVARIANTS OneFetchAtATime DoneIsStored
PROPERTY WatchEnds
\* Every event is bounded, so the system stops.
CHECK_DEADLOCK FALSE
