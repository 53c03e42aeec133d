SPECIFICATION Spec
CONSTANTS
  w1 = w1
  w2 = w2
  k1 = k1
  k2 = k2
  Writer = {w1, w2}
  Key = {k1, k2}
  Instant <- MCInstant
  MaxCalls = 4
INVARIANTS NeverOverclaims Tidy
PROPERTY ImplementsAbstract
SYMMETRY MCSymmetry
\* The calls are bounded, so the writers stop.
CHECK_DEADLOCK FALSE
