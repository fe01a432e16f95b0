--------------------------- MODULE MCModelRollout ---------------------------
(* Small instances of ModelRollout for TLC.                                *)
EXTENDS ModelRollout

CONSTANTS t1, t2, o1, o2, s1

=============================================================================
