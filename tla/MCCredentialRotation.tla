------------------------ MODULE MCCredentialRotation ------------------------
(* Small instances of CredentialRotation for TLC.                          *)
EXTENDS CredentialRotation, TLC

CONSTANTS r1, r2, cron, hand, s1, s2

\* Processes and secrets of one kind are interchangeable; no property is temporal.
Symmetry ==
  Permutations({r1, r2}) \cup Permutations({cron, hand}) \cup Permutations({s1, s2})

=============================================================================
