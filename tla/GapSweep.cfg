SPECIFICATION Spec
CONSTANTS
  Instant <- MCInstant
  MaxSegments = 3
INVARIANTS GapsExact GapsApart
\* compute_gaps returns.
CHECK_DEADLOCK FALSE
