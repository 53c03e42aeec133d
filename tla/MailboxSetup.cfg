SPECIFICATION Spec
CONSTANTS
  s1 = s1
  blank = blank
  Session = {s1}
  Email <- MCEmail
  Password = {"p", "q"}
  Lower <- MCLower
  Blank = blank
  HastyClicks = FALSE
  MaxSecrets = 3
  Limit <- LimitKept
INVARIANTS SavedWasTested StoredReadable TokenStable
