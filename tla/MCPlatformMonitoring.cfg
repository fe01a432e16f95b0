SPECIFICATION FairSpec
CONSTANTS
  v1 = v1
  c1 = c1
  c2 = c2
  Versions = {v1}
  Clerks = {c1, c2}
  MaxOps = 2
  NoFile = NoFile
  Empty = Empty
  Mixed = Mixed
  Jumps = {20}
  MaxTime = 20
  MaxEvents = 1
INVARIANT TypeOK
INVARIANT OutageIsCritical
PROPERTY SilenceIsReported
