SPECIFICATION FairSpec
CONSTANTS
  f1 = f1
  f2 = f2
  r1 = r1
  r2 = r2
  Files = {f1, f2}
  NoFile = NoFile
  Runs = {r1, r2}
  MaxFailures = 1
  MaxToggles = 1
  MaxRollbacks = 1
INVARIANT TypeOK
INVARIANT EncryptedOnce
INVARIANT CompletedIsReadable
PROPERTY MigrationCompletes
\* A checkpoint that a failure left torn stops the migration.
CHECK_DEADLOCK FALSE
