--------------------------- MODULE MCDimensionScd2 ---------------------------
(* A small instance of DimensionScd2 for TLC.                              *)
EXTENDS DimensionScd2

CONSTANTS a, b   \* two accounts

\* Balances in cents: neighbours count as the same, 1 and 3 do not.
Cents == 1 .. 3
MoreThanACent == {<<u, v>> \in Cents \X Cents : u + 1 < v \/ v + 1 < u}

\* Extracts of one or two rows, the second perhaps of the same account.
UpToTwoRows == UNION {[1 .. n -> [id : {a, b}, val : Cents]] : n \in 1 .. 2}

=============================================================================
