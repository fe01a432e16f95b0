SPECIFICATION Spec
CONSTANTS
  fraud = fraud
  risk = risk
  churn = churn
  r1 = r1
  r2 = r2
  r3 = r3
  Tables = {risk}
  LoadOrder <- RiskOnly
  FullLoad = {risk}
  Gated = {}
  Rec = {1, 2, 3, 4}
  EventTime <- FourTimes
  GroupOf <- FourGroups
  BadRec = {}
  Keyless = {4}
  NullScore = {2, 3}
  Extracts <- FourExtracts
  MaxErrors = 1
  Runs = {r1, r2, r3}
  Retries = 1
  Overlap = FALSE
INVARIANT NoRecordHandedTwice
INVARIANT RowsProcessedExact
INVARIANT RowsAccounted
INVARIANT FullLoadExact
PROPERTY FullLoadKeepsKeys
