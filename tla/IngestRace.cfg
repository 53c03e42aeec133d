SPECIFICATION Spec
CONSTANTS
  t1 = t1
  t2 = t2
  b1 = b1
  b2 = b2
  Thread = {t1, t2}
  Box = {b1}
  LastDay = 2
  BatchSize = 2
  MayAskToday = FALSE
  RetryStatus = {"failed"}
  HasWorker = TRUE
  Limit <- LimitRace
INVARIANTS NoOrphanRunning JobHeldOnce CoveredPastIsStored RowsHaveAccount
PROPERTY JobLifecycle
SYMMETRY MCSymmetry
\* Every event is bounded, so the system stops.
CHECK_DEADLOCK FALSE
