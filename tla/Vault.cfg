SPECIFICATION FairSpec
CONSTANTS
  t1 = t1
  t2 = t2
  x = x
  y = y
  Thread = {t1, t2}
  Account = {1}
  Content = {x, y}
  Message <- MCMessage
  BatchSize = 1
  Limit <- LimitPass
INVARIANTS StoredHasFile EndedPassIsComplete ScoreIsOfItsEmail
PROPERTY PassEnds
