SPECIFICATION Spec
CONSTANTS
  Zone <- MCZone
  LocalDay = {0, 1, 2}
  Instant <- MCInstant
INVARIANTS FoundWhenWindowReaches DaysAreLocal FetchedIsCounted
\* A search ends.
CHECK_DEADLOCK FALSE
