SPECIFICATION FairSpec
CONSTANTS
  t1 = t1
  t2 = t2
  o1 = o1
  o2 = o2
  s1 = s1
  Trainers = {t1, t2}
  Operators = {o1, o2}
  Scorers = {s1}
  Initial = 2
  MaxSecond = 4
  MaxDeaths = 1
  Absolute = TRUE
  None = None
  Latest = Latest
  Dangling = Dangling
INVARIANT TypeOK
INVARIANT LinkKept
INVARIANT DefaultGoesBack
 
