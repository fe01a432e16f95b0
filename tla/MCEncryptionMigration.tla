------------------------ MODULE MCEncryptionMigration ------------------------
(* Small instances of EncryptionMigration for TLC.                         *)
EXTENDS EncryptionMigration, TLC

CONSTANTS f1, f2, r1, r2

=============================================================================
