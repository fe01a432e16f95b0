------------------------- MODULE EncryptionMigration -------------------------
(***************************************************************************)
(* migrate_layer for one layer and dataset of Bronze or Silver: every      *)
(* parquet file of the input directory that the checkpoint does not name   *)
(* is read, its PII fields are encrypted, and the result is written under  *)
(* its name in the output directory and recorded in the checkpoint file.   *)
(* An operator runs it again until it is through, perhaps in two windows,  *)
(* and may take a file back with rollback_file.                            *)
(*                                                                         *)
(* log_event needs a third argument that neither call of migrate_layer     *)
(* gives it.  The first call raises inside the try block, the second in    *)
(* its handler: a run ends after the first file it works on, migrated or   *)
(* not.  The checkpoint is what makes the next run go on from there.       *)
(***************************************************************************)
EXTENDS Naturals

CONSTANTS
  Files,        \* the parquet files of the input directory
  NoFile,       \* the value of a file name that is not set
  Runs,         \* the processes that run migrate_layer
  MaxFailures,  \* bound: crashes, and exceptions of reads and writes
  MaxToggles,   \* bound: edits of encryption_enabled
  MaxRollbacks  \* bound: calls of rollback_file

ASSUME MigrationAssumption ==
  /\ NoFile \notin Files
  /\ MaxFailures \in Nat /\ MaxToggles \in Nat /\ MaxRollbacks \in Nat

VARIABLES
  input,      \* the files of the input directory
  output,     \* the files of the output directory
  checkpoint, \* the checkpoint file of the layer and dataset; shared: two runs
              \* had it open at once
  enabled,    \* encryption_enabled[layer] in the configuration file
  run,        \* the runs of migrate_layer
  undo,       \* the call of rollback_file
  spoilt,     \* files that two writers had open at once; history: and those
              \* an overlapped run or a rollback failed to write
  left        \* failures, toggles and rollbacks still to come

vars == <<input, output, checkpoint, enabled, run, undo, spoilt, left>>

\* What the PII columns of a file hold: plain values, values encrypted once or
\* twice; nothing that can be read (torn); or there is no such file.
Frame == {"plain", "enc", "twice"}
Content == Frame \cup {"torn", "none"}

Run == [pc : {"idle", "next", "close", "save", "saved"},
        done : SUBSET Files,       \* checkpoint, in memory
        file : Files \cup {NoFile},
        df : Frame,                \* encrypted_df
        enabled : BOOLEAN,         \* the configuration, read at start
        alone : BOOLEAN]           \* history: nothing ran beside it so far

IdleRun == [pc |-> "idle", done |-> {}, file |-> NoFile, df |-> "plain",
            enabled |-> FALSE, alone |-> TRUE]

Undo == [pc : {"idle", "open", "close"}, file : Files \cup {NoFile}, df : Frame]

IdleUndo == [pc |-> "idle", file |-> NoFile, df |-> "plain"]

\* The defect of encrypt_field without its look at the prefix.
EncryptFieldAgain(v) == IF v = "plain" THEN "enc" ELSE "twice"

\* A value with the prefix ENC: is left as it is.
EncryptField(v) == IF v = "plain" THEN "enc" ELSE v

\* The defect of decrypt_field that returns None for a value without prefix.
DecryptFieldNone(v) == CASE v = "enc" -> "plain"
                         [] v = "twice" -> "enc"
                         [] OTHER -> "none"

\* A value without the prefix is left as it is.
DecryptField(v) == CASE v = "enc" -> "plain"
                     [] v = "twice" -> "enc"
                     [] OTHER -> v

\* A layer whose encryption is off is copied.
EncryptDataframe(v, on) == IF on THEN EncryptField(v) ELSE v

\* Who has a file of the output directory open.
Writers(f) == {r \in Runs : run[r].pc = "close" /\ run[r].file = f}
Undoing(f) == undo.pc = "close" /\ undo.file = f
SpoiltByOpening(f) == IF Writers(f) # {} \/ Undoing(f)
                      THEN spoilt \cup {f} ELSE spoilt \ {f}

Active == {r \in Runs : run[r].pc # "idle"}

\* The runs as they are once something starts beside them.
NotAlone == [r \in Runs |-> IF r \in Active THEN [run[r] EXCEPT !.alone = FALSE]
                            ELSE run[r]]

Readable(f) == output[f] \in Frame

-----------------------------------------------------------------------------
(* migrate_layer                                                           *)

\* _load_checkpoint raises when the file is torn: such a start does nothing.
StartRun(r) ==
  /\ run[r].pc = "idle"
  /\ ~checkpoint.torn
  /\ LET solo == Active = {} /\ undo.pc = "idle" IN
     run' = [NotAlone EXCEPT
               ![r] = [IdleRun EXCEPT !.pc = "next", !.done = checkpoint.done,
                                      !.enabled = enabled, !.alone = solo]]
  /\ UNCHANGED <<input, output, checkpoint, enabled, undo, spoilt, left>>

\* Files that are completed are skipped.  to_parquet truncates the output file,
\* then writes it; of two writers that have it open together either one's frame
\* stays, or neither's.
OpenOutput(r) ==
  /\ run[r].pc = "next"
  /\ \E f \in Files \ run[r].done :
       /\ run' = [run EXCEPT ![r].pc = "close", ![r].file = f,
                             ![r].df = EncryptDataframe(input[f], run[r].enabled)]
       /\ output' = [output EXCEPT ![f] = "torn"]
       /\ spoilt' = SpoiltByOpening(f)
  /\ UNCHANGED <<input, checkpoint, enabled, undo, left>>

CloseOutput(r) ==
  /\ run[r].pc = "close"
  /\ \/ output' = [output EXCEPT ![run[r].file] = run[r].df]
     \/ run[r].file \in spoilt /\ output' = [output EXCEPT ![run[r].file] = "torn"]
  /\ run' = [run EXCEPT ![r].pc = "save"]
  /\ UNCHANGED <<input, checkpoint, enabled, undo, spoilt, left>>

\* The defect of recording a file before its writer has closed it.
OpenCheckpointEarly(r) ==
  /\ run[r].pc \in {"close", "save"}
  /\ checkpoint' = [checkpoint EXCEPT !.torn = TRUE]
  /\ run' = [run EXCEPT ![r].pc = "saved", ![r].done = @ \cup {run[r].file}]
  /\ UNCHANGED <<input, output, enabled, undo, spoilt, left>>

\* checkpoint[file_name] = 'completed'; _save_checkpoint truncates the file.
OpenCheckpoint(r) ==
  /\ run[r].pc = "save"
  /\ checkpoint' = [checkpoint EXCEPT !.torn = TRUE,
                       !.shared = \E q \in Runs : run[q].pc = "saved"]
  /\ run' = [run EXCEPT ![r].pc = "saved", ![r].done = @ \cup {run[r].file}]
  /\ UNCHANGED <<input, output, enabled, undo, spoilt, left>>

\* The defect of a checkpoint that holds the newest file alone.
NewCheckpointOfOne(r) == [checkpoint EXCEPT !.torn = FALSE, !.done = {run[r].file}]

NewCheckpoint(r) == [checkpoint EXCEPT !.torn = FALSE, !.done = run[r].done]

\* The file is written; log_event raises, and its handler does.
CloseCheckpoint(r) ==
  /\ run[r].pc = "saved"
  /\ \/ checkpoint' = NewCheckpoint(r)
     \/ checkpoint.shared /\ checkpoint' = [checkpoint EXCEPT !.torn = TRUE]
  /\ run' = [run EXCEPT ![r] = IdleRun]
  /\ UNCHANGED <<input, output, enabled, undo, spoilt, left>>

\* Every file was skipped.
FinishRun(r) ==
  /\ run[r].pc = "next" /\ Files \subseteq run[r].done
  /\ run' = [run EXCEPT ![r] = IdleRun]
  /\ UNCHANGED <<input, output, checkpoint, enabled, undo, spoilt, left>>

\* The process dies, or a read or write raises: the handler raises, too.
FailRun(r) ==
  /\ run[r].pc # "idle" /\ left.failures > 0
  /\ run' = [run EXCEPT ![r] = IdleRun]
  /\ spoilt' = IF run[r].pc = "close" /\ ~run[r].alone
               THEN spoilt \cup {run[r].file} ELSE spoilt
  /\ left' = [left EXCEPT !.failures = @ - 1]
  /\ UNCHANGED <<input, output, checkpoint, enabled, undo>>

-----------------------------------------------------------------------------
(* rollback_file, of a file onto itself                                    *)

StartRollback(f) ==
  /\ undo.pc = "idle" /\ left.rollbacks > 0
  /\ Readable(f)
  /\ undo' = [pc |-> "open", file |-> f, df |-> DecryptField(output[f])]
  /\ run' = NotAlone
  /\ left' = [left EXCEPT !.rollbacks = @ - 1]
  /\ UNCHANGED <<input, output, checkpoint, enabled, spoilt>>

OpenRollback ==
  /\ undo.pc = "open"
  /\ output' = [output EXCEPT ![undo.file] = "torn"]
  /\ undo' = [undo EXCEPT !.pc = "close"]
  /\ spoilt' = SpoiltByOpening(undo.file)
  /\ UNCHANGED <<input, checkpoint, enabled, run, left>>

CloseRollback ==
  /\ undo.pc = "close"
  /\ \/ output' = [output EXCEPT ![undo.file] = undo.df]
     \/ undo.file \in spoilt /\ output' = [output EXCEPT ![undo.file] = "torn"]
  /\ undo' = IdleUndo
  /\ UNCHANGED <<input, checkpoint, enabled, run, spoilt, left>>

FailRollback ==
  /\ undo.pc # "idle" /\ left.failures > 0
  /\ spoilt' = IF undo.pc = "close" THEN spoilt \cup {undo.file} ELSE spoilt
  /\ undo' = IdleUndo
  /\ left' = [left EXCEPT !.failures = @ - 1]
  /\ UNCHANGED <<input, output, checkpoint, enabled, run>>

-----------------------------------------------------------------------------

\* An operator edits encryption_config.yaml.
Toggle ==
  /\ left.toggles > 0
  /\ enabled' = ~enabled
  /\ left' = [left EXCEPT !.toggles = @ - 1]
  /\ UNCHANGED <<input, output, checkpoint, run, undo, spoilt>>

\* The input files are plain, or a pipeline has encrypted them already.
Init ==
  /\ input \in [Files -> {"plain", "enc"}]
  /\ output = [f \in Files |-> "none"]
  /\ checkpoint = [torn |-> FALSE, done |-> {}, shared |-> FALSE]
  /\ enabled \in BOOLEAN
  /\ run = [r \in Runs |-> IdleRun]
  /\ undo = IdleUndo
  /\ spoilt = {}
  /\ left = [failures |-> MaxFailures, toggles |-> MaxToggles,
             rollbacks |-> MaxRollbacks]

RunStep(r) ==
  \/ OpenOutput(r) \/ CloseOutput(r)
  \/ OpenCheckpoint(r) \/ CloseCheckpoint(r)
  \/ FinishRun(r)

Next ==
  \/ \E r \in Runs : StartRun(r) \/ RunStep(r) \/ FailRun(r)
  \/ \E f \in Files : StartRollback(f)
  \/ OpenRollback \/ CloseRollback \/ FailRollback
  \/ Toggle

Spec == Init /\ [][Next]_vars

\* A process that runs goes on, and the operator starts the migration again as
\* long as the checkpoint lacks a file: that is what it is kept for.
Resume(r) == checkpoint.done # Files /\ StartRun(r)

FairSpec == Spec /\ \A r \in Runs : WF_vars(RunStep(r)) /\ WF_vars(Resume(r))

-----------------------------------------------------------------------------
(* Properties                                                              *)

TypeOK ==
  /\ input \in [Files -> {"plain", "enc"}]
  /\ output \in [Files -> Content]
  /\ checkpoint \in [torn : BOOLEAN, done : SUBSET Files, shared : BOOLEAN]
  /\ enabled \in BOOLEAN
  /\ run \in [Runs -> Run]
  /\ undo \in Undo
  /\ spoilt \subseteq Files
  /\ left \in [failures : 0 .. MaxFailures, toggles : 0 .. MaxToggles,
               rollbacks : 0 .. MaxRollbacks]

\* However often a file is migrated, from plain or encrypted input, by runs
\* that overlap, fail and start again, no value is encrypted twice: one
\* decrypt_field gives the value back.
EncryptedOnce ==
  /\ \A f \in Files : output[f] # "twice"
  /\ \A r \in Runs : run[r].df # "twice"
  /\ undo.df # "twice"

\* A file the checkpoint calls completed, so that no later run looks at it
\* again, can be read, however the run that migrated it or one before ended.
\* Only two runs at once or a rollback can undo that.
CompletedIsReadable ==
  \A f \in checkpoint.done :
    \/ Readable(f)
    \/ f \in spoilt
    \/ \E r \in Writers(f) : ~run[r].alone
    \/ Undoing(f)

\* Although every run ends after one file and two runs overwrite each other's
\* checkpoint, the migration gets through; only a checkpoint that a failure
\* left torn stops it.
MigrationCompletes == <>(checkpoint.done = Files \/ [](checkpoint.torn))

=============================================================================
