SPECIFICATION FairSpec
CONSTANTS
  t1 = t1
  t2 = t2
  o1 = o1
  o2 = o2
  s1 = s1
  Trainers = {t1}
  Operators = {o1}
  Scorers = {s1}
  Initial = 2
  MaxSecond = 4
  MaxDeaths = 0
  Absolute = FALSE
  None = None
  Latest = Latest
  Dangling = Dangling
PROPERTY RollbackRecovers
