SPECIFICATION Spec
CONSTANTS
  e1 = e1
  e2 = e2
  c1 = c1
  c2 = c2
  c3 = c3
  Email = {e1}
  Client = {c1, c2, c3}
INVARIANTS StampsMatchStatus FlaggedHasAlert OffersHold
PROPERTIES DecisionKept FollowsLifecycle
SYMMETRY MCSymmetry
