SPECIFICATION Spec
CONSTANTS
  fraud = fraud
  risk = risk
  churn = churn
  r1 = r1
  r2 = r2
  r3 = r3
  Tables = {churn, risk}
  LoadOrder <- RiskThenChurn
  FullLoad = {risk}
  Gated = {churn}
  Rec = {1, 2}
  EventTime <- TwoTimes
  GroupOf <- TwoGroups
  BadRec = {}
  Keyless = {}
  NullScore = {1}
  Extracts <- OneOfTwo
  MaxErrors = 1
  Runs = {r1, r2}
  Retries = 0
  Overlap = FALSE
INVARIANT SynapseCaughtUp
