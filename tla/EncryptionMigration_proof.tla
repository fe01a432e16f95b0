---------------------- MODULE EncryptionMigration_proof ----------------------
(* What a migration keeps, for any files, runs, failures, edits of the     *)
(* configuration and rollbacks.                                            *)
EXTENDS EncryptionMigration, TLAPS

\* What OpenOutput, CloseOutput and OpenCheckpoint make of a run, and that they
\* leave it one.
Opened(x, f, v) == [x EXCEPT !.pc = "close", !.file = f, !.df = v]
Closed(x) == [x EXCEPT !.pc = "save"]
Recorded(x, f) == [x EXCEPT !.pc = "saved", !.done = @ \cup {f}]

LEMMA RunOpens ==
  ASSUME NEW x \in Run, NEW f \in Files, NEW v \in Frame
  PROVE  Opened(x, f, v) \in Run /\ Opened(x, f, v).pc = "close" /\ Opened(x, f, v).file = f
         /\ Opened(x, f, v).df = v /\ Opened(x, f, v).done = x.done /\ Opened(x, f, v).alone = x.alone
<1>1. PICK p, S, g, w, e, a : x = [pc |-> p, done |-> S, file |-> g, df |-> w,
                                    enabled |-> e, alone |-> a]
  BY DEF Run
<1> QED
  BY <1>1 DEF Run, Opened

LEMMA RunCloses ==
  ASSUME NEW x \in Run
  PROVE  Closed(x) \in Run /\ Closed(x).pc = "save" /\ Closed(x).file = x.file
         /\ Closed(x).df = x.df /\ Closed(x).done = x.done /\ Closed(x).alone = x.alone
<1>1. PICK p, S, g, w, e, a : x = [pc |-> p, done |-> S, file |-> g, df |-> w,
                                    enabled |-> e, alone |-> a]
  BY DEF Run
<1> QED
  BY <1>1 DEF Run, Closed

LEMMA RunRecords ==
  ASSUME NEW x \in Run, NEW f \in Files
  PROVE  Recorded(x, f) \in Run /\ Recorded(x, f).pc = "saved" /\ Recorded(x, f).file = x.file
         /\ Recorded(x, f).df = x.df /\ Recorded(x, f).done = x.done \cup {f} /\ Recorded(x, f).alone = x.alone
<1>1. PICK p, S, g, w, e, a : x = [pc |-> p, done |-> S, file |-> g, df |-> w,
                                    enabled |-> e, alone |-> a]
  BY DEF Run
<1> QED
  BY <1>1 DEF Run, Recorded

\* A run that is no longer alone has the fields it had, bar alone.
LEMMA NotAloneRuns ==
  ASSUME run \in [Runs -> Run]
  PROVE  /\ NotAlone \in [Runs -> Run]
         /\ \A q \in Runs :
              /\ NotAlone[q].pc = run[q].pc /\ NotAlone[q].done = run[q].done
              /\ NotAlone[q].file = run[q].file /\ NotAlone[q].df = run[q].df
              /\ NotAlone[q].enabled = run[q].enabled
              /\ q \in Active => ~NotAlone[q].alone
<1>1. ASSUME NEW q \in Runs
      PROVE  LET a == [run[q] EXCEPT !.alone = FALSE] IN
             /\ a \in Run /\ a.pc = run[q].pc /\ a.done = run[q].done
             /\ a.file = run[q].file /\ a.df = run[q].df
             /\ a.enabled = run[q].enabled /\ ~a.alone
  <2>1. run[q] \in Run
    OBVIOUS
  <2> QED
    BY <2>1 DEF Run
<1>2. ASSUME NEW q \in Runs
      PROVE  NotAlone[q] = IF q \in Active THEN [run[q] EXCEPT !.alone = FALSE]
                           ELSE run[q]
  BY DEF NotAlone
<1>3. NotAlone = [q \in Runs |-> NotAlone[q]]
  BY DEF NotAlone
<1>4. \A q \in Runs : NotAlone[q] \in Run
  BY <1>1, <1>2
<1> QED
  BY <1>1, <1>2, <1>3, <1>4

\* The state of the migration keeps its types, and no frame in it, in memory or
\* in a file, is encrypted twice: encrypt_field leaves what it encrypted.
\* A process that writes has a file.
HasFile ==
  /\ \A r \in Runs : run[r].pc \in {"close", "save", "saved"} => run[r].file \in Files
  /\ undo.pc # "idle" => undo.file \in Files

RunsOK ==
  /\ run \in [Runs -> Run]
  /\ \A r \in Runs :
       /\ run[r].df # "twice"
       /\ run[r].pc \in {"close", "save", "saved"} => run[r].file \in Files

\* The inductive invariant of single encryption.
OnceInv == TypeOK /\ HasFile /\ EncryptedOnce

\* OnceInv is inductive.
LEMMA OnceCorrect == Spec => []OnceInv
<1>1. Init => OnceInv
  BY MigrationAssumption DEF Init, OnceInv, TypeOK, HasFile, EncryptedOnce, Run, IdleRun,
     Undo, IdleUndo, Content, Frame
<1>2. OnceInv /\ [Next]_vars => OnceInv'
  <2> SUFFICES ASSUME OnceInv, [Next]_vars PROVE OnceInv'
    OBVIOUS
  <2> USE MigrationAssumption DEF OnceInv, TypeOK, HasFile, EncryptedOnce, RunsOK, Run,
          IdleRun, Undo, IdleUndo, Content, Frame
  <2>1. ASSUME NEW r \in Runs, StartRun(r) PROVE OnceInv'
    <3>1. NotAlone \in [Runs -> Run]
      BY NotAloneRuns
    <3>2. \A q \in Runs : NotAlone[q].df = run[q].df /\ NotAlone[q].pc = run[q].pc
                          /\ NotAlone[q].file = run[q].file
      BY NotAloneRuns
    <3> DEFINE new == [IdleRun EXCEPT !.pc = "next", !.done = checkpoint.done,
                         !.enabled = enabled, !.alone = (Active = {} /\ undo.pc = "idle")]
    <3>3. new \in Run /\ new.df # "twice" /\ new.pc = "next"
      OBVIOUS
    <3>4. run' = [NotAlone EXCEPT ![r] = new]
      BY <2>1 DEF StartRun
    <3> HIDE DEF new
    <3>5. RunsOK'
      BY <3>1, <3>2, <3>3, <3>4
    <3> QED
      BY <2>1, <3>5 DEF StartRun
  <2>2. ASSUME NEW r \in Runs, OpenOutput(r) PROVE OnceInv'
    <3>1. PICK f \in Files \ run[r].done :
            /\ run' = [run EXCEPT ![r].pc = "close", ![r].file = f,
                         ![r].df = EncryptDataframe(input[f], run[r].enabled)]
            /\ output' = [output EXCEPT ![f] = "torn"]
            /\ spoilt' = SpoiltByOpening(f)
      BY <2>2 DEF OpenOutput
    <3>2. EncryptDataframe(input[f], run[r].enabled) \in {"plain", "enc"}
      BY DEF EncryptDataframe, EncryptField
    <3>3. spoilt' \subseteq Files
      BY <3>1 DEF SpoiltByOpening
    <3> DEFINE v == EncryptDataframe(input[f], run[r].enabled)
    <3>4. run' = [run EXCEPT ![r] = Opened(run[r], f, v)]
      BY <3>1 DEF Opened
    <3>5. v \in Frame /\ v # "twice" /\ run[r] \in Run /\ f \in Files
      BY <3>1, <3>2
    <3> HIDE DEF v
    <3>6. RunsOK'
      BY <3>4, <3>5, RunOpens
    <3> QED
      BY <2>2, <3>1, <3>3, <3>6 DEF OpenOutput
  <2>3. ASSUME NEW r \in Runs, CloseOutput(r) PROVE OnceInv'
    <3>1. run[r].file \in Files /\ run[r].df \in Frame \ {"twice"}
      BY <2>3 DEF CloseOutput
    <3>2. output' \in [Files -> Content] /\ \A f \in Files : output'[f] # "twice"
      BY <2>3, <3>1 DEF CloseOutput
    <3>3. run' = [run EXCEPT ![r] = Closed(run[r])]
      BY <2>3 DEF CloseOutput, Closed
    <3>5. RunsOK'
      BY <3>1, <3>3, RunCloses
    <3> QED
      BY <2>3, <3>2, <3>5 DEF CloseOutput
  <2>4. ASSUME NEW r \in Runs, OpenCheckpoint(r) PROVE OnceInv'
    <3>1. run[r].file \in Files
      BY <2>4 DEF OpenCheckpoint
    <3>2. run' = [run EXCEPT ![r] = Recorded(run[r], run[r].file)]
      BY <2>4 DEF OpenCheckpoint, Recorded
    <3>4. RunsOK'
      BY <3>1, <3>2, RunRecords
    <3> QED
      BY <2>4, <3>4 DEF OpenCheckpoint
  <2>5. ASSUME NEW r \in Runs, CloseCheckpoint(r) PROVE OnceInv'
    <3>1. checkpoint' \in [torn : BOOLEAN, done : SUBSET Files, shared : BOOLEAN]
      BY <2>5 DEF CloseCheckpoint, NewCheckpoint
    <3>2. RunsOK'
      BY <2>5 DEF CloseCheckpoint
    <3> QED
      BY <2>5, <3>1, <3>2 DEF CloseCheckpoint
  <2>6. ASSUME NEW r \in Runs, FinishRun(r) PROVE OnceInv'
    BY <2>6 DEF FinishRun
  <2>7. ASSUME NEW r \in Runs, FailRun(r) PROVE OnceInv'
    BY <2>7 DEF FailRun
  <2>8. ASSUME NEW f \in Files, StartRollback(f) PROVE OnceInv'
    <3>1. /\ NotAlone \in [Runs -> Run]
          /\ \A q \in Runs : /\ NotAlone[q].df = run[q].df
                             /\ NotAlone[q].pc = run[q].pc
                             /\ NotAlone[q].file = run[q].file
      BY NotAloneRuns
    <3>2. DecryptField(output[f]) \in {"plain", "enc"}
      BY <2>8 DEF StartRollback, Readable, DecryptField
    <3> QED
      BY <2>8, <3>1, <3>2 DEF StartRollback
  <2>9. CASE OpenRollback
    BY <2>9 DEF OpenRollback, SpoiltByOpening
  <2>10. CASE CloseRollback
    BY <2>10 DEF CloseRollback
  <2>11. CASE FailRollback
    BY <2>11 DEF FailRollback
  <2>12. CASE Toggle
    BY <2>12 DEF Toggle
  <2>13. CASE UNCHANGED vars
    BY <2>13 DEF vars
  <2> QED
    BY <2>1, <2>2, <2>3, <2>4, <2>5, <2>6, <2>7, <2>8, <2>9, <2>10, <2>11, <2>12,
       <2>13 DEF Next, RunStep
<1> QED
  BY <1>1, <1>2, PTL DEF Spec

-----------------------------------------------------------------------------
(* What is completed can be read                                           *)

\* The file can be read, or it is somebody else's fault.
Settled(f) ==
  \/ Readable(f)
  \/ f \in spoilt
  \/ \E r \in Writers(f) : ~run[r].alone
  \/ Undoing(f)

\* A run that has been alone works on what neither its own nor the stored
\* checkpoint names.
AloneInv ==
  \A r \in Active : run[r].alone =>
    /\ Active = {r} /\ undo.pc = "idle"
    /\ checkpoint.done \subseteq run[r].done
    /\ run[r].pc = "close" => run[r].file \notin run[r].done

\* What a copy of the checkpoint names, or is about to.
Named(f) ==
  \/ f \in checkpoint.done
  \/ \E r \in Active : f \in run[r].done
  \/ \E r \in Runs : run[r].pc = "save" /\ run[r].file = f

\* All that any copy of the checkpoint names.
SettledInv == \A f \in Files : Named(f) => Settled(f)

LEMMA AloneStep == OnceInv /\ AloneInv /\ [Next]_vars => AloneInv'
<1> SUFFICES ASSUME OnceInv, AloneInv, [Next]_vars PROVE AloneInv'
  OBVIOUS
<1>0. TypeOK /\ HasFile
  BY DEF OnceInv
<1>1. ASSUME NEW r \in Runs, StartRun(r) PROVE AloneInv'
  <2> DEFINE new == [IdleRun EXCEPT !.pc = "next", !.done = checkpoint.done,
                       !.enabled = enabled, !.alone = (Active = {} /\ undo.pc = "idle")]
  <2>1. /\ new.pc = "next" /\ new.done = checkpoint.done
        /\ new.alone = (Active = {} /\ undo.pc = "idle")
    BY DEF IdleRun
  <2>2. run' = [NotAlone EXCEPT ![r] = new]
    BY <1>1 DEF StartRun
  <2> HIDE DEF new
  <2>3. run'[r] = new /\ \A q \in Runs \ {r} : run'[q] = NotAlone[q]
    BY <1>0, <2>2, NotAloneRuns DEF TypeOK
  <2>4. Active' = Active \cup {r}
    BY <1>0, <2>1, <2>3, NotAloneRuns DEF TypeOK, Active
  <2>5. \A q \in Active \ {r} : ~run'[q].alone
    BY <1>0, <2>3, NotAloneRuns DEF TypeOK, Active
  <2>6. checkpoint' = checkpoint /\ undo' = undo
    BY <1>1 DEF StartRun
  <2> QED
    BY <2>1, <2>3, <2>4, <2>5, <2>6 DEF AloneInv
<1>2. ASSUME NEW r \in Runs, OpenOutput(r) PROVE AloneInv'
  <2>1. PICK f \in Files \ run[r].done :
          run' = [run EXCEPT ![r].pc = "close", ![r].file = f,
                    ![r].df = EncryptDataframe(input[f], run[r].enabled)]
    BY <1>2 DEF OpenOutput
  <2> DEFINE v == EncryptDataframe(input[f], run[r].enabled)
  <2>2. v \in Frame /\ run[r] \in Run /\ f \in Files
    BY <1>0 DEF TypeOK, EncryptDataframe, EncryptField, Frame
  <2>3. run' = [run EXCEPT ![r] = Opened(run[r], f, v)]
    BY <2>1 DEF Opened
  <2> HIDE DEF v
  <2>4. /\ run'[r].pc = "close" /\ run'[r].file = f /\ run'[r].done = run[r].done
        /\ run'[r].alone = run[r].alone
        /\ \A q \in Runs \ {r} : run'[q] = run[q]
    BY <1>0, <2>2, <2>3, RunOpens DEF TypeOK
  <2>5. run[r].pc = "next" /\ checkpoint' = checkpoint /\ undo' = undo
    BY <1>2 DEF OpenOutput
  <2>6. Active' = Active /\ r \in Active
    BY <2>4, <2>5 DEF Active
  <2>7. ASSUME NEW q \in Active', run'[q].alone
        PROVE  /\ Active' = {q} /\ undo'.pc = "idle"
               /\ checkpoint'.done \subseteq run'[q].done
               /\ run'[q].file \notin run'[q].done
    <3>1. q \in Active /\ run[q].alone
      BY <2>4, <2>6, <2>7 DEF Active
    <3>2. Active = {q} /\ undo.pc = "idle" /\ checkpoint.done \subseteq run[q].done
      BY <3>1 DEF AloneInv
    <3>3. q = r
      BY <2>6, <3>2
    <3> QED
      BY <2>1, <2>4, <2>5, <2>6, <3>2, <3>3
  <2> QED
    BY <2>7 DEF AloneInv
<1>3. ASSUME NEW r \in Runs, CloseOutput(r) PROVE AloneInv'
  <2>1. run' = [run EXCEPT ![r] = Closed(run[r])]
    BY <1>3 DEF CloseOutput, Closed
  <2>2. /\ run'[r].pc = "save" /\ run'[r].done = run[r].done
        /\ run'[r].alone = run[r].alone
        /\ \A q \in Runs \ {r} : run'[q] = run[q]
    BY <1>0, <2>1, RunCloses DEF TypeOK
  <2>3. run[r].pc = "close" /\ checkpoint' = checkpoint /\ undo' = undo
    BY <1>3 DEF CloseOutput
  <2>4. Active' = Active
    BY <2>2, <2>3 DEF Active
  <2> QED
    BY <2>2, <2>3, <2>4 DEF AloneInv, Active
<1>4. ASSUME NEW r \in Runs, OpenCheckpoint(r) PROVE AloneInv'
  <2>1. run[r].file \in Files /\ run[r].pc = "save" /\ undo' = undo
    BY <1>0, <1>4 DEF OpenCheckpoint, HasFile
  <2>2. run' = [run EXCEPT ![r] = Recorded(run[r], run[r].file)]
    BY <1>4 DEF OpenCheckpoint, Recorded
  <2>3. /\ run'[r].pc = "saved" /\ run'[r].done = run[r].done \cup {run[r].file}
        /\ run'[r].alone = run[r].alone
        /\ \A q \in Runs \ {r} : run'[q] = run[q]
    BY <1>0, <2>1, <2>2, RunRecords DEF TypeOK
  <2>4. checkpoint'.done = checkpoint.done
    BY <1>0, <1>4 DEF OpenCheckpoint, TypeOK
  <2>5. Active' = Active /\ r \in Active
    BY <2>1, <2>3 DEF Active
  <2>6. ASSUME NEW q \in Active', run'[q].alone
        PROVE  /\ Active' = {q} /\ undo'.pc = "idle"
               /\ checkpoint'.done \subseteq run'[q].done
               /\ run'[q].pc # "close"
    <3>1. q \in Active /\ run[q].alone
      BY <2>3, <2>5, <2>6 DEF Active
    <3>2. Active = {q} /\ undo.pc = "idle" /\ checkpoint.done \subseteq run[q].done
      BY <3>1 DEF AloneInv
    <3>3. q = r
      BY <2>5, <3>2
    <3> QED
      BY <2>1, <2>3, <2>4, <2>5, <3>2, <3>3
  <2> QED
    BY <2>6 DEF AloneInv
<1>5. ASSUME NEW r \in Runs, run' = [run EXCEPT ![r] = IdleRun],
             run[r].pc # "idle", undo' = undo,
             CloseCheckpoint(r) \/ checkpoint' = checkpoint
      PROVE  AloneInv'
  <2>1. /\ run'[r].pc = "idle" /\ \A q \in Runs \ {r} : run'[q] = run[q]
    BY <1>0, <1>5 DEF TypeOK, IdleRun
  <2>2. Active' = Active \ {r} /\ r \in Active
    BY <1>5, <2>1 DEF Active
  <2>3. \A q \in Active' : ~run'[q].alone
    BY <2>1, <2>2 DEF AloneInv, Active
  <2> QED
    BY <2>3 DEF AloneInv
<1>6. ASSUME NEW r \in Runs, CloseCheckpoint(r) PROVE AloneInv'
  BY <1>5, <1>6 DEF CloseCheckpoint
<1>7. ASSUME NEW r \in Runs, FinishRun(r) PROVE AloneInv'
  BY <1>5, <1>7 DEF FinishRun
<1>8. ASSUME NEW r \in Runs, FailRun(r) PROVE AloneInv'
  BY <1>5, <1>8 DEF FailRun
<1>9. ASSUME NEW f \in Files, StartRollback(f) PROVE AloneInv'
  <2>1. run' = NotAlone
    BY <1>9 DEF StartRollback
  <2>2. Active' = Active /\ \A q \in Active : ~run'[q].alone
    BY <1>0, <2>1, NotAloneRuns DEF TypeOK, Active
  <2> QED
    BY <2>2 DEF AloneInv
<1>10. CASE OpenRollback \/ CloseRollback \/ FailRollback
  <2>1. /\ undo.pc # "idle" /\ run' = run /\ checkpoint' = checkpoint
    BY <1>10 DEF OpenRollback, CloseRollback, FailRollback
  <2>2. \A r \in Active : ~run[r].alone
    BY <2>1 DEF AloneInv
  <2> QED
    BY <2>1, <2>2 DEF AloneInv, Active
<1>11. CASE Toggle \/ UNCHANGED vars
  BY <1>11 DEF Toggle, vars, AloneInv, Active
<1> QED
  BY <1>1, <1>2, <1>3, <1>4, <1>6, <1>7, <1>8, <1>9, <1>10, <1>11 DEF Next, RunStep


LEMMA SettledStep == OnceInv /\ AloneInv /\ SettledInv /\ [Next]_vars => SettledInv'
<1> SUFFICES ASSUME OnceInv, AloneInv, SettledInv, [Next]_vars,
                    NEW f \in Files, Named(f)'
             PROVE  Settled(f)'
  BY DEF SettledInv
<1>0. TypeOK /\ HasFile
  BY DEF OnceInv
<1>1. ASSUME NEW r \in Runs, StartRun(r) PROVE Settled(f)'
  <2> DEFINE new == [IdleRun EXCEPT !.pc = "next", !.done = checkpoint.done,
                       !.enabled = enabled, !.alone = (Active = {} /\ undo.pc = "idle")]
  <2>1. new.pc = "next" /\ new.done = checkpoint.done
    BY DEF IdleRun
  <2>2. run' = [NotAlone EXCEPT ![r] = new]
    BY <1>1 DEF StartRun
  <2> HIDE DEF new
  <2>3. run'[r] = new /\ \A q \in Runs \ {r} : run'[q] = NotAlone[q]
    BY <1>0, <2>2, NotAloneRuns DEF TypeOK
  <2>4. run[r].pc = "idle" /\ UNCHANGED <<output, checkpoint, undo, spoilt>>
    BY <1>1 DEF StartRun
  <2>5. \A q \in Runs \ {r} : /\ run'[q].pc = run[q].pc /\ run'[q].file = run[q].file
                              /\ run'[q].done = run[q].done
                              /\ q \in Active => ~run'[q].alone
    BY <1>0, <2>3, NotAloneRuns DEF TypeOK
  <2>6. Named(f)
    BY <2>1, <2>3, <2>4, <2>5 DEF Named, Active
  <2>7. Settled(f)
    BY <2>6 DEF SettledInv
  <2>8. \A q \in Writers(f) : q \in Writers(f)' /\ ~run'[q].alone
    BY <2>4, <2>5 DEF Writers, Active
  <2> QED
    BY <2>4, <2>7, <2>8 DEF Settled, Readable, Undoing
<1>2. ASSUME NEW r \in Runs, OpenOutput(r) PROVE Settled(f)'
  <2>1. PICK g \in Files \ run[r].done :
          /\ run' = [run EXCEPT ![r].pc = "close", ![r].file = g,
                       ![r].df = EncryptDataframe(input[g], run[r].enabled)]
          /\ output' = [output EXCEPT ![g] = "torn"]
          /\ spoilt' = SpoiltByOpening(g)
    BY <1>2 DEF OpenOutput
  <2> DEFINE v == EncryptDataframe(input[g], run[r].enabled)
  <2>2. v \in Frame /\ run[r] \in Run /\ g \in Files
    BY <1>0 DEF TypeOK, EncryptDataframe, EncryptField, Frame
  <2>3. run' = [run EXCEPT ![r] = Opened(run[r], g, v)]
    BY <2>1 DEF Opened
  <2> HIDE DEF v
  <2>4. /\ run'[r].pc = "close" /\ run'[r].file = g /\ run'[r].done = run[r].done
        /\ run'[r].alone = run[r].alone
        /\ \A q \in Runs \ {r} : run'[q] = run[q]
    BY <1>0, <2>2, <2>3, RunOpens DEF TypeOK
  <2>5. run[r].pc = "next" /\ checkpoint' = checkpoint /\ undo' = undo
    BY <1>2 DEF OpenOutput
  <2>6. Named(f)
    BY <2>4, <2>5 DEF Named, Active
  <2>7. CASE f # g
    <3>1. Settled(f)
      BY <2>6 DEF SettledInv
    <3>2. output'[f] = output[f] /\ (f \in spoilt => f \in spoilt')
      BY <1>0, <2>1, <2>7 DEF TypeOK, SpoiltByOpening
    <3>3. \A q \in Writers(f) : q \in Writers(f)' /\ run'[q] = run[q]
      BY <2>4, <2>5 DEF Writers
    <3> QED
      BY <2>5, <3>1, <3>2, <3>3 DEF Settled, Readable, Undoing
  <2>8. CASE f = g
    <3>1. ~run[r].alone
      <4> SUFFICES ASSUME run[r].alone PROVE FALSE
        OBVIOUS
      <4>1. Active = {r} /\ checkpoint.done \subseteq run[r].done
        BY <2>5 DEF AloneInv, Active
      <4>2. \A q \in Runs : run[q].pc # "save"
        BY <2>5, <4>1 DEF Active
      <4> QED
        BY <2>1, <2>6, <2>8, <4>1, <4>2 DEF Named
    <3> QED
      BY <2>4, <2>8, <3>1 DEF Settled, Writers
  <2> QED
    BY <2>7, <2>8
<1>3. ASSUME NEW r \in Runs, CloseOutput(r) PROVE Settled(f)'
  <2>1. run' = [run EXCEPT ![r] = Closed(run[r])]
    BY <1>3 DEF CloseOutput, Closed
  <2>2. /\ run'[r].pc = "save" /\ run'[r].done = run[r].done
        /\ run'[r].file = run[r].file
        /\ \A q \in Runs \ {r} : run'[q] = run[q]
    BY <1>0, <2>1, RunCloses DEF TypeOK
  <2>3. /\ run[r].pc = "close" /\ run[r] \in Run /\ run[r].df \in Frame
        /\ checkpoint' = checkpoint /\ undo' = undo /\ spoilt' = spoilt
    BY <1>0, <1>3 DEF CloseOutput, TypeOK, Run
  <2>4. CASE f = run[r].file
    BY <1>0, <1>3, <2>3, <2>4 DEF CloseOutput, TypeOK, Settled, Readable
  <2>5. CASE f # run[r].file
    <3>1. Named(f)
      BY <2>2, <2>3, <2>5 DEF Named, Active
    <3>2. Settled(f)
      BY <3>1 DEF SettledInv
    <3>3. output'[f] = output[f]
      BY <1>0, <1>3, <2>5 DEF CloseOutput, TypeOK
    <3>4. \A q \in Writers(f) : q \in Writers(f)' /\ run'[q] = run[q]
      BY <2>2, <2>5 DEF Writers
    <3> QED
      BY <2>3, <3>2, <3>3, <3>4 DEF Settled, Readable, Undoing
  <2> QED
    BY <2>4, <2>5
<1>4. ASSUME NEW r \in Runs, OpenCheckpoint(r) PROVE Settled(f)'
  <2>1. /\ run[r].file \in Files /\ run[r].pc = "save"
        /\ UNCHANGED <<output, undo, spoilt>>
    BY <1>0, <1>4 DEF OpenCheckpoint, HasFile
  <2>2. run' = [run EXCEPT ![r] = Recorded(run[r], run[r].file)]
    BY <1>4 DEF OpenCheckpoint, Recorded
  <2>3. /\ run'[r].pc = "saved" /\ run'[r].done = run[r].done \cup {run[r].file}
        /\ \A q \in Runs \ {r} : run'[q] = run[q]
    BY <1>0, <2>1, <2>2, RunRecords DEF TypeOK
  <2>4. checkpoint'.done = checkpoint.done
    BY <1>0, <1>4 DEF OpenCheckpoint, TypeOK
  <2>5. Named(f)
    BY <2>1, <2>3, <2>4 DEF Named, Active
  <2>6. Settled(f)
    BY <2>5 DEF SettledInv
  <2>7. \A q \in Writers(f) : q \in Writers(f)' /\ run'[q] = run[q]
    BY <2>1, <2>3 DEF Writers
  <2> QED
    BY <2>1, <2>6, <2>7 DEF Settled, Readable, Undoing
<1>5. ASSUME NEW r \in Runs, CloseCheckpoint(r) \/ FinishRun(r) \/ FailRun(r)
      PROVE  Settled(f)'
  <2>1. /\ run' = [run EXCEPT ![r] = IdleRun] /\ run[r].pc # "idle"
        /\ UNCHANGED <<output, undo>>
    BY <1>5 DEF CloseCheckpoint, FinishRun, FailRun
  <2>2. /\ run'[r].pc = "idle" /\ \A q \in Runs \ {r} : run'[q] = run[q]
    BY <1>0, <2>1 DEF TypeOK, IdleRun
  <2>3. f \in checkpoint'.done => f \in checkpoint.done \/ f \in run[r].done
    BY <1>0, <1>5 DEF CloseCheckpoint, FinishRun, FailRun, NewCheckpoint, TypeOK
  <2>4. Named(f)
    BY <2>1, <2>2, <2>3 DEF Named, Active
  <2>5. Settled(f)
    BY <2>4 DEF SettledInv
  <2>6. f \in spoilt => f \in spoilt'
    BY <1>5 DEF CloseCheckpoint, FinishRun, FailRun
  <2>7. r \in Writers(f) /\ ~run[r].alone => f \in spoilt'
    BY <1>5 DEF CloseCheckpoint, FinishRun, FailRun, Writers
  <2>8. \A q \in Writers(f) \ {r} : q \in Writers(f)' /\ run'[q] = run[q]
    BY <2>2 DEF Writers
  <2> QED
    BY <2>1, <2>5, <2>6, <2>7, <2>8 DEF Settled, Readable, Undoing
<1>6. ASSUME NEW g \in Files, StartRollback(g) PROVE Settled(f)'
  <2>1. /\ run' = NotAlone /\ undo.pc = "idle"
        /\ UNCHANGED <<output, checkpoint, spoilt>>
    BY <1>6 DEF StartRollback
  <2>2. \A q \in Runs : /\ run'[q].pc = run[q].pc /\ run'[q].file = run[q].file
                        /\ run'[q].done = run[q].done
                        /\ q \in Active => ~run'[q].alone
    BY <1>0, <2>1, NotAloneRuns DEF TypeOK
  <2>3. Named(f)
    BY <2>1, <2>2 DEF Named, Active
  <2>4. Settled(f)
    BY <2>3 DEF SettledInv
  <2>5. \A q \in Writers(f) : q \in Writers(f)' /\ ~run'[q].alone
    BY <2>2 DEF Writers, Active
  <2> QED
    BY <2>1, <2>4, <2>5 DEF Settled, Readable, Undoing
<1>7. CASE OpenRollback \/ CloseRollback \/ FailRollback
  <2>1. /\ run' = run /\ checkpoint' = checkpoint /\ undo.pc # "idle"
        /\ undo.file \in Files /\ undo.df \in Frame
    BY <1>0, <1>7 DEF OpenRollback, CloseRollback, FailRollback, HasFile, TypeOK, Undo
  <2>2. Named(f)
    BY <2>1 DEF Named, Active
  <2>3. Settled(f)
    BY <2>2 DEF SettledInv
  <2>4. \A q \in Writers(f) : q \in Writers(f)' /\ run'[q] = run[q]
    BY <2>1 DEF Writers
  <2>5. CASE OpenRollback
    <3>1. undo'.pc = "close" /\ undo'.file = undo.file
      BY <1>0, <2>5 DEF OpenRollback, TypeOK, Undo
    <3>2. f # undo.file => output'[f] = output[f] /\ (f \in spoilt => f \in spoilt')
      BY <1>0, <2>1, <2>5 DEF OpenRollback, TypeOK, SpoiltByOpening
    <3> QED
      BY <2>3, <2>4, <3>1, <3>2 DEF Settled, Readable, Undoing
  <2>6. CASE CloseRollback
    <3>1. f = undo.file => output'[f] \in Frame \/ f \in spoilt'
      BY <1>0, <2>1, <2>6 DEF CloseRollback, TypeOK
    <3>2. f # undo.file => output'[f] = output[f]
      BY <1>0, <2>1, <2>6 DEF CloseRollback, TypeOK
    <3>3. spoilt' = spoilt
      BY <2>6 DEF CloseRollback
    <3> QED
      BY <2>3, <2>4, <3>1, <3>2, <3>3 DEF Settled, Readable, Undoing
  <2>7. CASE FailRollback
    BY <2>3, <2>4, <2>7 DEF FailRollback, Settled, Readable, Undoing
  <2> QED
    BY <1>7, <2>5, <2>6, <2>7
<1>8. CASE Toggle \/ UNCHANGED vars
  <2>1. UNCHANGED <<output, checkpoint, run, undo, spoilt>>
    BY <1>8 DEF Toggle, vars
  <2> QED
    BY <2>1 DEF SettledInv, Named, Settled, Readable, Undoing, Writers, Active
<1> QED
  BY <1>1, <1>2, <1>3, <1>4, <1>5, <1>6, <1>7, <1>8 DEF Next, RunStep

-----------------------------------------------------------------------------
(* The theorems                                                            *)

\* The state of a migration keeps its types.
THEOREM MigrationTypes == Spec => []TypeOK
  BY OnceCorrect, PTL DEF OnceInv

\* No value is ever encrypted twice, whatever files are migrated how often:
\* the prefix that encrypt_field looks for is always there.
THEOREM NeverTwice == Spec => []EncryptedOnce
  BY OnceCorrect, PTL DEF OnceInv

\* A file that the checkpoint calls completed can be read, unless two runs or a
\* rollback wrote it together: migrate_layer records a file after it closed it,
\* and a run that is alone opens no file that a checkpoint names.
THEOREM CompletedReadable == Spec => []CompletedIsReadable
<1>1. Init => AloneInv /\ SettledInv
  BY DEF Init, AloneInv, SettledInv, Named, Active, IdleRun
<1>2. SettledInv /\ OnceInv => CompletedIsReadable
  BY DEF SettledInv, OnceInv, TypeOK, CompletedIsReadable, Named, Settled
<1> QED
  BY <1>1, <1>2, OnceCorrect, AloneStep, SettledStep, PTL DEF Spec

=============================================================================
