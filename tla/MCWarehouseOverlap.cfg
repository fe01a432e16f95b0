SPECIFICATION FairSpec
CONSTANTS
  fraud = fraud
  risk = risk
  churn = churn
  r1 = r1
  r2 = r2
  r3 = r3
  Tables = {fraud}
  LoadOrder <- FraudOnly
  FullLoad = {}
  Gated = {fraud}
  Rec = {1, 2}
  EventTime <- TwoTimes
  GroupOf <- OneGroup
  BadRec = {2}
  Keyless = {}
  NullScore = {}
  Extracts <- AnyOfTwo
  MaxErrors = 1
  Runs = {r1, r2}
  Retries = 1
  Overlap = TRUE
INVARIANT TypeOK
INVARIANT GoldRowsSound
INVARIANT QualityGate
INVARIANT RowsAccounted
PROPERTY RunsEnd
