SPECIFICATION FairSpec
CONSTANTS
  s1 = s1
  s2 = s2
  Shards = {s1, s2}
  Reliable = {s1}
  Length = 2
  BatchSize = 2
  Malformed <- MalformedFew
  DlqWaits = 1
  MaxSecond = 1
INVARIANT TypeOK
INVARIANT LossesAccounted
PROPERTY ShardDrains
CHECK_DEADLOCK FALSE
