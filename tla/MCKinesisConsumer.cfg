SPECIFICATION FairSpec
CONSTANTS
  d1 = d1
  d2 = d2
  k1 = k1
  k2 = k2
  Deployers = {d1, d2}
  Buckets <- S3Buckets
  MaxCuts = 1
  Consumers = {k1}
  Shards = 2
  Length <- Records
  BatchSize = 2
  Interval = 1
  Malformed <- OneMalformed
  MaxStarts = 1
INVARIANT TypeOK
INVARIANT HalfBuiltIfCutShort
INVARIANT NothingDropped
PROPERTY BatchIsFlushed
