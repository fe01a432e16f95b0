-------------------------- MODULE MCWarehouseRefresh --------------------------
(* Small instances of WarehouseRefresh for TLC.                            *)
EXTENDS WarehouseRefresh

CONSTANTS fraud, risk, churn,  \* two gated incremental tables, and between
                               \* them an ungated one that is fully loaded
          r1, r2, r3           \* DAG runs

FraudOnly == <<fraud>>
RiskOnly == <<risk>>
RiskThenChurn == <<risk, churn>>

\* Two Silver rows of one key, one after the other, in files with any of them.
TwoTimes  == [x \in {1, 2} |-> x]
OneGroup == [x \in {1, 2} |-> "h1"]
AnyOfTwo == SUBSET {1, 2}

\* Files with one of two rows, of two keys.
TwoGroups == [x \in {1, 2} |-> IF x = 1 THEN "h1" ELSE "h2"]
OneOfTwo == {{1}, {2}}

\* Four rows: the last three happened together, two under different keys and
\* one under none.
FourTimes == [x \in {1, 2, 3, 4} |-> IF x = 1 THEN 1 ELSE 2]
FourGroups == [x \in {1, 2, 3, 4} |-> IF x = 3 THEN "h2" ELSE "h1"]
FourExtracts == {{1}, {3}, {1, 2, 3, 4}}

=============================================================================
