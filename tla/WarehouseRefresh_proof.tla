----------------------- MODULE WarehouseRefresh_proof ------------------------
(* The warehouse_refresh DAG, for any tables, rows, keys, runs and retries:   *)
(* what holds however runs overlap, crash and are retried, and what holds     *)
(* when a run starts only after the last one has ended.                       *)
EXTENDS WarehouseRefresh, FiniteSetTheorems, TLAPS

-----------------------------------------------------------------------------
(* Types                                                                   *)

\* Every task instance a step builds is one.
LEMMA XformBuilt ==
  ASSUME NEW task \in Xform
  PROVE  XformAfterFailure(task) \in Xform
BY RunAssumption DEF XformAfterFailure, NewXform, Xform, XformActive, XformEnded

LEMMA LoadBuilt ==
  ASSUME NEW task \in Load
  PROVE  LoadAfterFailure(task) \in Load
BY RunAssumption DEF LoadAfterFailure, NewLoad, Load, LoadActive, LoadEnded

\* Updating one task instance keeps xform a table of task instances.
LEMMA XformUpdated ==
  ASSUME TypeOK, NEW r \in Runs, NEW t \in Tables, NEW task \in Xform,
         SetXform(r, t, task)
  PROVE  xform' \in [Runs -> [Tables -> Xform]]
BY DEF TypeOK, SetXform

\* aggregate_* yields rows.
LEMMA AggregateType ==
  ASSUME NEW S \in SUBSET Rec, NEW n \in Nat
  PROVE  Aggregate(S, n) \in SUBSET Row
BY DEF Aggregate, Row, Groups

LEMMA MergeType ==
  ASSUME NEW A \in SUBSET Row, NEW B \in SUBSET Row
  PROVE  MergeGold(A, B) \in SUBSET Row
BY DEF MergeGold

LEMMA LatestTimeType ==
  ASSUME NEW S \in SUBSET Rec
  PROVE  LatestTime(S) \subseteq Nat
BY RecAssumption DEF LatestTime

\* The rows of aggregates are Silver rows, and so is what a task holds.
LEMMA RecsType ==
  ASSUME NEW rows \in SUBSET Row
  PROVE  RecsOf(rows) \subseteq Rec
BY DEF RecsOf, Row

LEMMA InHandType ==
  ASSUME NEW task \in Xform
  PROVE  InHand(task) \subseteq Rec
<1>1. task.rows \in SUBSET Row /\ task.new \subseteq Rec
  BY DEF Xform
<1> QED
  BY <1>1, RecsType DEF InHand

LEMMA SupersededType ==
  ASSUME NEW A \in SUBSET Row, NEW B
  PROVE  Superseded(A, B) \subseteq Rec
BY RecsType DEF Superseded

\* Losing Silver rows keeps lost a table of Silver rows.
LEMMA LoseType ==
  ASSUME TypeOK, NEW t \in Tables, NEW S \in SUBSET Rec, Lose(t, S)
  PROVE  lost' \in [Tables -> SUBSET Rec]
BY DEF TypeOK, Lose

LEMMA StaleType ==
  ASSUME TypeOK, NEW r \in Runs, NEW t \in Tables, OthersStale(r, t)
  PROVE  stale' \subseteq Runs \X Tables
BY DEF TypeOK, OthersStale

LEMMA TypeInit == Init => TypeOK
<1> SUFFICES ASSUME Init PROVE TypeOK
  OBVIOUS
<1>0. SilverOf("absent", {}) \in SilverFile
  BY DEF SilverOf, SilverFile
<1>1. NoFile \in File
  BY DEF NoFile, File
<1>2. NewXform(1) \in Xform /\ NewLoad(1) \in Load
  BY DEF NewXform, Xform, NewLoad, Load
<1> QED
  BY <1>0, <1>1, <1>2 DEF Init, TypeOK

\* A failed attempt leaves the types alone.
LEMMA FailXformType ==
  ASSUME TypeOK, NEW r \in Runs, NEW t \in Tables, FailXform(r, t)
  PROVE  TypeOK'
<1>1. xform[r][t] \in Xform
  BY DEF TypeOK
<1>2. xform' \in [Runs -> [Tables -> Xform]]
  BY <1>1, XformBuilt, XformUpdated DEF FailXform
<1>3. lost' \in [Tables -> SUBSET Rec]
  BY <1>1, InHandType, LoseType DEF FailXform
<1> QED
  BY <1>2, <1>3 DEF TypeOK, FailXform, cdcVars, loadVars

LEMMA FailLoadType ==
  ASSUME TypeOK, NEW r \in Runs, FailLoad(r)
  PROVE  TypeOK'
<1>1. LoadAfterFailure(load[r]) \in Load
  BY LoadBuilt DEF TypeOK
<1> QED
  BY <1>1 DEF TypeOK, FailLoad, cdcVars, lossVars

LEMMA XformStepType ==
  ASSUME TypeOK, NEW r \in Runs, NEW t \in Tables, XformStep(r, t)
  PROVE  TypeOK'
<1>0. xform[r][t] \in Xform
  BY DEF TypeOK
<1>1. CASE ReadSilver(r, t)
  <2>1. [xform[r][t] EXCEPT !.pc = "read", !.snap = silver[t].recs] \in Xform
    BY <1>0 DEF TypeOK, Xform, XformActive, SilverFile
  <2>2. xform' \in [Runs -> [Tables -> Xform]]
    BY <1>1, <2>1, XformUpdated DEF ReadSilver
  <2> QED
    BY <1>1, <2>2 DEF TypeOK, ReadSilver, cdcVars, loadVars, lossVars
<1>2. CASE FilterNewRecords(r, t)
  <2> DEFINE new  == NewRecords(xform[r][t].snap, watermark[t])
             task == [xform[r][t] EXCEPT
                        !.pc = IF new = {} THEN "success" ELSE "filtered",
                        !.snap = {}, !.new = new]
  <2>1. new \in SUBSET Rec
    BY <1>0 DEF NewRecords, Xform
  <2>2. task \in Xform
    BY <1>0, <2>1 DEF Xform, XformActive, XformEnded
  <2>3. xform' \in [Runs -> [Tables -> Xform]]
    BY <1>2, <2>2, XformUpdated DEF FilterNewRecords
  <2> QED
    BY <1>2, <2>3 DEF TypeOK, FilterNewRecords, cdcVars, loadVars, lossVars
<1>3. CASE UpdateProcessed(r, t)
  <2> DEFINE new == xform[r][t].new
  <2>1. new \in SUBSET Rec /\ IsFiniteSet(new)
    BY <1>0, RecAssumption, FS_Subset DEF Xform
  <2>2. Cardinality(new) \in Nat
    BY <2>1, FS_CardinalityType
  <2>3. watermark' \in [Tables -> Nat]
    BY <1>3, <2>1, LatestTimeType DEF UpdateProcessed, TypeOK
  <2>4. /\ rowsProcessed' \in [Tables -> Nat] /\ handed' \in [Tables -> SUBSET Rec]
        /\ lost' \in [Tables -> SUBSET Rec]
    BY <1>3, <2>1, <2>2 DEF UpdateProcessed, TypeOK
  <2>5. [xform[r][t] EXCEPT !.pc = "claimed"] \in Xform
    BY <1>0 DEF Xform, XformActive
  <2>6. xform' \in [Runs -> [Tables -> Xform]]
    BY <1>3, <2>5, XformUpdated DEF UpdateProcessed
  <2> QED
    BY <1>3, <2>3, <2>4, <2>6 DEF TypeOK, UpdateProcessed, loadVars
<1>4. CASE ValidateRaises(r, t)
  BY <1>4, FailXformType DEF ValidateRaises
<1>5. CASE ValidateAndAggregate(r, t)
  <2> DEFINE task == [xform[r][t] EXCEPT !.pc = "aggregated", !.new = {},
                        !.rows = Aggregate(xform[r][t].new, clock[t] + 1)]
  <2>1. clock[t] + 1 \in Nat /\ xform[r][t].new \in SUBSET Rec
    BY <1>0 DEF TypeOK, Xform
  <2>2. Aggregate(xform[r][t].new, clock[t] + 1) \in SUBSET Row
    BY <2>1, AggregateType
  <2>3. task \in Xform
    BY <1>0, <2>2 DEF Xform, XformActive
  <2>4. xform' \in [Runs -> [Tables -> Xform]]
    BY <1>5, <2>3, XformUpdated DEF ValidateAndAggregate
  <2>5. clock' \in [Tables -> Nat]
    BY <1>5, <2>1 DEF TypeOK, ValidateAndAggregate
  <2>6. lost' \in [Tables -> SUBSET Rec]
    BY <1>5, <2>1, LoseType DEF ValidateAndAggregate
  <2> QED
    BY <1>5, <2>4, <2>5, <2>6 DEF TypeOK, ValidateAndAggregate, cdcVars, loadVars
<1>6. CASE ReadGoldRaises(r, t)
  BY <1>6, FailXformType DEF ReadGoldRaises
<1>7. CASE ReadGoldAndMerge(r, t)
  <2> DEFINE agg  == xform[r][t].rows
             rows == IF goldFile[t].kind = "absent" THEN agg
                     ELSE MergeGold(goldFile[t].rows, agg)
  <2>1. agg \in SUBSET Row /\ goldFile[t].rows \in SUBSET Row
    BY <1>0 DEF TypeOK, Xform, File
  <2>2. rows \in SUBSET Row
    BY <2>1, MergeType
  <2>3. [xform[r][t] EXCEPT !.pc = "merged", !.rows = rows] \in Xform
    BY <1>0, <2>2 DEF Xform, XformActive
  <2>4. xform' \in [Runs -> [Tables -> Xform]]
    BY <1>7, <2>3, XformUpdated DEF ReadGoldAndMerge
  <2>5. lost' \in [Tables -> SUBSET Rec]
    BY <1>7, <2>1, SupersededType, LoseType DEF ReadGoldAndMerge
  <2> QED
    BY <1>7, <2>4, <2>5 DEF TypeOK, ReadGoldAndMerge, cdcVars, loadVars
<1>8. CASE OpenGold(r, t)
  <2>1. [kind |-> "torn", rows |-> {}, sole |-> Writing(t) = {}] \in File
    BY DEF File
  <2>2. goldFile' \in [Tables -> File]
    BY <1>8, <2>1 DEF TypeOK, OpenGold
  <2>3. [xform[r][t] EXCEPT !.pc = "writing"] \in Xform
    BY <1>0 DEF Xform, XformActive
  <2>4. xform' \in [Runs -> [Tables -> Xform]]
    BY <1>8, <2>3, XformUpdated DEF OpenGold
  <2>5. goldFile[t].rows \in SUBSET Row
    BY DEF TypeOK, File
  <2>6. lost' \in [Tables -> SUBSET Rec] /\ stale' \subseteq Runs \X Tables
    BY <1>8, <2>5, SupersededType, RecsType, LoseType, StaleType
    DEF OpenGold, OnlyInGold, InGold
  <2> QED
    BY <1>8, <2>2, <2>4, <2>6 DEF TypeOK, OpenGold, cdcVars, loadVars
<1>9. CASE CloseGold(r, t)
  <2>1. goldFile[t] \in File /\ xform[r][t].rows \in SUBSET Row
    BY <1>0 DEF TypeOK, Xform
  <2>2. goldFile' \in [Tables -> File]
    <3>1. [goldFile[t] EXCEPT !.kind = "ok", !.rows = xform[r][t].rows] \in File
      BY <2>1 DEF File
    <3>2. [goldFile[t] EXCEPT !.kind = "torn", !.rows = {}] \in File
      BY <2>1 DEF File
    <3>3. \E f \in File : goldFile' = [goldFile EXCEPT ![t] = f]
      BY <1>9, <3>1, <3>2 DEF CloseGold
    <3> QED
      BY <3>3 DEF TypeOK
  <2>3. [xform[r][t] EXCEPT !.pc = "written", !.rows = {}] \in Xform
    BY <1>0 DEF Xform, XformActive
  <2>4. xform' \in [Runs -> [Tables -> Xform]]
    BY <1>9, <2>3, XformUpdated DEF CloseGold
  <2>5. InGold(t) \subseteq Rec /\ InHand(xform[r][t]) \subseteq Rec
    BY <1>0, <2>1, RecsType, InHandType DEF InGold, File
  <2>6. lost' \in [Tables -> SUBSET Rec]
    BY <1>9, <2>5, LoseType DEF CloseGold, OnlyInGold
  <2>7. stale' \subseteq Runs \X Tables
    BY <1>9, StaleType DEF CloseGold
  <2> QED
    BY <1>9, <2>2, <2>4, <2>6, <2>7 DEF TypeOK, CloseGold, cdcVars, loadVars
<1>10. CASE XformSucceeds(r, t)
  <2>1. [xform[r][t] EXCEPT !.pc = "success"] \in Xform
    BY <1>0 DEF Xform, XformEnded
  <2>2. xform' \in [Runs -> [Tables -> Xform]]
    BY <1>10, <2>1, XformUpdated DEF XformSucceeds
  <2> QED
    BY <1>10, <2>2 DEF TypeOK, XformSucceeds, cdcVars, loadVars, lossVars
<1>11. CASE ReadSilverRaises(r, t)
  BY <1>11, FailXformType DEF ReadSilverRaises
<1> QED
  BY <1>1, <1>2, <1>3, <1>4, <1>5, <1>6, <1>7, <1>8, <1>9, <1>10, <1>11 DEF XformStep

LEMMA LoadStepType ==
  ASSUME TypeOK, NEW r \in Runs, LoadStep(r)
  PROVE  TypeOK'
<1>0. load[r] \in Load
  BY DEF TypeOK
<1>1. CASE UpstreamFailed(r)
  <2>1. load' \in [Runs -> Load]
    BY <1>1, <1>0 DEF TypeOK, UpstreamFailed, Load, LoadEnded
  <2> QED
    BY <1>1, <2>1 DEF TypeOK, UpstreamFailed, cdcVars, lossVars
<1>2. CASE CreatePartitions(r)
  <2>1. [load[r] EXCEPT !.pc = "upload"] \in Load
    BY <1>0 DEF Load, LoadActive
  <2> QED
    BY <1>2, <2>1 DEF TypeOK, CreatePartitions, cdcVars, lossVars
<1>3. CASE UploadRaises(r)
  BY <1>3, FailLoadType DEF UploadRaises
<1>4. CASE UploadToBlob(r)
  <2> DEFINE t == Current(r)
  <2>1. [load[r] EXCEPT !.pc = "copy"] \in Load
    BY <1>0 DEF Load, LoadActive
  <2>2. blob' \in [Tables -> File]
    BY <1>4 DEF TypeOK, UploadToBlob, File
  <2> QED
    BY <1>4, <2>1, <2>2 DEF TypeOK, UploadToBlob, cdcVars, lossVars
<1>5. CASE CopyRaises(r)
  BY <1>5, FailLoadType DEF CopyRaises
<1>6. CASE CopyInto(r)
  <2> DEFINE t   == Current(r)
             new == [row : blob[t].rows \ Refused(blob[t].rows), by : {<<r, load[r].try>>}]
  <2>1. load' \in [Runs -> Load]
    <3>1. load[r].idx + 1 \in Nat /\ {"loaded", "upload"} \subseteq LoadActive
      BY <1>0 DEF Load, LoadActive
    <3>2. \A n \in Nat : \A pc \in LoadActive :
            [load[r] EXCEPT !.idx = n, !.pc = pc] \in Load
      BY <1>0 DEF Load
    <3>3. \E n \in Nat : \E pc \in LoadActive :
            load' = [load EXCEPT ![r] = [load[r] EXCEPT !.idx = n, !.pc = pc]]
      BY <1>6, <3>1 DEF CopyInto
    <3>4. \E task \in Load : load' = [load EXCEPT ![r] = task]
      BY <3>2, <3>3
    <3> QED
      BY <3>4 DEF TypeOK
  <2>2. CASE t \in Tables
    <3>1. blob[t].rows \in SUBSET Row /\ load[r].try \in Nat
      BY <1>0, <2>2 DEF TypeOK, File, Load
    <3>2. new \in SUBSET SynapseRow
      BY <3>1 DEF SynapseRow
    <3>3. KeptRows(t) \in SUBSET SynapseRow
      BY <2>2 DEF KeptRows, TypeOK
    <3> QED
      BY <1>6, <2>1, <3>2, <3>3 DEF TypeOK, CopyInto, cdcVars, lossVars
  <2>3. CASE t \notin Tables
    BY <1>6, <2>1, <2>3 DEF TypeOK, CopyInto, cdcVars, lossVars
  <2> QED
    BY <2>2, <2>3
<1>7. CASE LoadSucceeds(r)
  <2>1. load' \in [Runs -> Load]
    BY <1>7, <1>0 DEF TypeOK, LoadSucceeds, Load, LoadEnded
  <2> QED
    BY <1>7, <2>1 DEF TypeOK, LoadSucceeds, cdcVars, lossVars
<1> QED
  BY <1>1, <1>2, <1>3, <1>4, <1>5, <1>6, <1>7 DEF LoadStep

LEMMA TypeStep == TypeOK /\ [Next]_vars => TypeOK'
<1> SUFFICES ASSUME TypeOK, [Next]_vars PROVE TypeOK'
  OBVIOUS
<1>1. ASSUME NEW t \in Tables, OpenSilver(t) \/ CloseSilver(t)
      PROVE  TypeOK'
  <2>1. \E f \in SilverFile : silver' = [silver EXCEPT ![t] = f]
    <3>1. /\ SilverOf("torn", {}) \in SilverFile /\ SilverOf("untimed", {}) \in SilverFile
          /\ \A S \in Extracts : SilverOf("ok", S) \in SilverFile
      BY RecAssumption DEF SilverOf, SilverFile
    <3> QED
      BY <1>1, <3>1 DEF OpenSilver, CloseSilver
  <2>2. silver' \in [Tables -> SilverFile]
    BY <2>1 DEF TypeOK
  <2>3. UNCHANGED <<cdcVars, clock, goldFile, loadVars, started, xform, lossVars>>
    BY <1>1 DEF OpenSilver, CloseSilver
  <2> QED
    BY <2>2, <2>3 DEF TypeOK, cdcVars, loadVars, lossVars
<1>2. ASSUME NEW r \in Runs, StartRun(r)
      PROVE  TypeOK'
  BY <1>2 DEF TypeOK, StartRun, cdcVars, loadVars, lossVars
<1>3. ASSUME NEW r \in Runs, RunStep(r)
      PROVE  TypeOK'
  BY <1>3, LoadStepType, XformStepType DEF RunStep
<1>4. ASSUME NEW r \in Runs, LoadCrashes(r)
      PROVE  TypeOK'
  BY <1>4, FailLoadType DEF LoadCrashes
<1>5. ASSUME NEW r \in Runs, NEW t \in Tables, XformCrashes(r, t)
      PROVE  TypeOK'
  BY <1>5, FailXformType DEF XformCrashes
<1>6. CASE UNCHANGED vars
  BY <1>6 DEF TypeOK, vars
<1> QED
  BY <1>1, <1>2, <1>3, <1>4, <1>5, <1>6 DEF Next

\* Every variable keeps its type: the state the transforms, the control table,
\* the files and Synapse can be in, whatever runs overlap and whatever fails.
THEOREM TypeCorrect == Spec => []TypeOK
BY TypeInit, TypeStep, PTL DEF Spec

-----------------------------------------------------------------------------
(* One run at a time: the CDC cursor                                       *)

\* No two runs are active together, and a run that has not been triggered has
\* not done anything.
OneRun ==
  /\ \A q, r \in Runs : Active(q) /\ Active(r) => q = r
  /\ \A r \in Runs \ started, t \in Tables : xform[r][t].pc = "none"

\* Everything handed out is at or before the watermark, and what a task has
\* filtered but not yet claimed is after it.
CursorInv ==
  /\ \A t \in Tables : \A x \in handed[t] : EventTime[x] <= watermark[t]
  /\ \A r \in Runs, t \in Tables :
       xform[r][t].pc = "filtered" =>
         \A x \in xform[r][t].new : EventTime[x] > watermark[t]

\* The inductive invariant of the cursor.
CdcInv == TypeOK /\ OneRun /\ CursorInv /\ RowsProcessedExact

\* What every action of a transform task has in common.
LEMMA XformEffect ==
  ASSUME TypeOK, NEW r \in Runs, NEW t \in Tables,
         XformStep(r, t) \/ XformCrashes(r, t)
  PROVE  /\ r \in started
         /\ xform[r][t].pc \notin XformEnded
         /\ \E task : SetXform(r, t, task)
         /\ UNCHANGED <<started, load>>
<1>1. CASE XformCrashes(r, t) \/ ReadSilverRaises(r, t)
  BY <1>1 DEF XformCrashes, ReadSilverRaises, FailXform, XformAt, XformActive,
              XformEnded, loadVars
<1>2. CASE ReadSilver(r, t) \/ FilterNewRecords(r, t) \/ UpdateProcessed(r, t)
  BY <1>2 DEF ReadSilver, FilterNewRecords, UpdateProcessed, XformAt,
              XformEnded, loadVars
<1>3. CASE \/ ValidateRaises(r, t) \/ ValidateAndAggregate(r, t)
           \/ ReadGoldRaises(r, t) \/ ReadGoldAndMerge(r, t)
  BY <1>3 DEF ValidateRaises, ValidateAndAggregate, ReadGoldRaises,
              ReadGoldAndMerge, FailXform, XformAt, XformEnded, loadVars
<1>4. CASE OpenGold(r, t) \/ CloseGold(r, t) \/ XformSucceeds(r, t)
  BY <1>4 DEF OpenGold, CloseGold, XformSucceeds, XformAt, XformEnded, loadVars
<1> QED
  BY <1>1, <1>2, <1>3, <1>4 DEF XformStep

\* What every action of a load task has in common.
LEMMA LoadEffect ==
  ASSUME TypeOK, NEW r \in Runs, LoadStep(r) \/ LoadCrashes(r)
  PROVE  /\ load[r].pc \notin LoadEnded
         /\ \E task : load' = [load EXCEPT ![r] = task]
         /\ UNCHANGED <<silver, cdcVars, clock, goldFile, started, xform, lossVars>>
<1>1. CASE LoadCrashes(r) \/ UploadRaises(r) \/ CopyRaises(r)
  BY <1>1 DEF LoadCrashes, UploadRaises, CopyRaises, FailLoad, LoadAt,
              LoadActive, LoadEnded
<1>2. CASE UpstreamFailed(r) \/ CreatePartitions(r) \/ LoadSucceeds(r)
  BY <1>2 DEF UpstreamFailed, CreatePartitions, LoadSucceeds, LoadAt, LoadEnded
<1>3. CASE UploadToBlob(r)
  BY <1>3 DEF UploadToBlob, LoadAt, LoadEnded
<1>4. CASE CopyInto(r)
  <2>1. \E task : load' = [load EXCEPT ![r] = task]
    BY <1>4 DEF CopyInto
  <2> QED
    BY <1>4, <2>1 DEF CopyInto, LoadAt, LoadEnded
<1> QED
  BY <1>1, <1>2, <1>3, <1>4 DEF LoadStep

LEMMA XformElsewhere ==
  ASSUME TypeOK, NEW r \in Runs, NEW t \in Tables, NEW task,
         SetXform(r, t, task)
  PROVE  /\ xform'[r][t] = task
         /\ \A q \in Runs, u \in Tables :
              q # r \/ u # t => xform'[q][u] = xform[q][u]
BY DEF TypeOK, SetXform

\* A task action leaves every finished run finished and belongs to an active one.
LEMMA TaskStepsKeepOneRun ==
  ASSUME TypeOK, OneRun, NEW r \in Runs, NEW t \in Tables,
         XformStep(r, t) \/ XformCrashes(r, t)
  PROVE  Active(r) /\ OneRun'
<1>1. /\ r \in started /\ xform[r][t].pc \notin XformEnded
      /\ started' = started /\ load' = load
  BY XformEffect
<1>2. PICK task : SetXform(r, t, task)
  BY XformEffect
<1>3. Active(r)
  BY <1>1 DEF Active, Finished
<1>4. \A q \in Runs : Active(q)' => Active(q)
  <2> SUFFICES ASSUME NEW q \in Runs, Active(q)' PROVE Active(q)
    OBVIOUS
  <2>1. CASE q = r
    BY <1>3, <2>1
  <2>2. CASE q # r
    BY <1>1, <1>2, <2>2, XformElsewhere DEF Active, Finished
  <2> QED
    BY <2>1, <2>2
<1>5. \A q \in Runs \ started, u \in Tables : xform'[q][u].pc = "none"
  BY <1>1, <1>2, XformElsewhere DEF OneRun
<1> QED
  BY <1>1, <1>3, <1>4, <1>5 DEF OneRun

LEMMA LoadStepsKeepOneRun ==
  ASSUME TypeOK, OneRun, NEW r \in Runs, LoadStep(r) \/ LoadCrashes(r)
  PROVE  OneRun'
<1>1. load[r].pc \notin LoadEnded /\ started' = started /\ xform' = xform
  BY LoadEffect
<1>2. PICK task : load' = [load EXCEPT ![r] = task]
  BY LoadEffect
<1>3. \A q \in Runs : Active(q)' => Active(q)
  <2> SUFFICES ASSUME NEW q \in Runs, Active(q)' PROVE Active(q)
    OBVIOUS
  <2>1. CASE q = r
    BY <1>1, <2>1 DEF Active, Finished
  <2>2. CASE q # r
    BY <1>1, <1>2, <2>2 DEF Active, Finished, TypeOK
  <2> QED
    BY <2>1, <2>2
<1> QED
  BY <1>1, <1>3 DEF OneRun

\* The actions of a task other than the two of filter_new_records neither touch
\* the control table nor leave the task about to claim.
LEMMA OtherStepsKeepCursor ==
  ASSUME TypeOK, NEW r \in Runs, NEW t \in Tables,
         XformStep(r, t) \/ XformCrashes(r, t),
         ~FilterNewRecords(r, t), ~UpdateProcessed(r, t)
  PROVE  /\ UNCHANGED cdcVars
         /\ xform'[r][t].pc # "filtered"
<1>0. xform[r][t] \in Xform
  BY DEF TypeOK
<1>1. CASE \/ XformCrashes(r, t) \/ ReadSilverRaises(r, t)
           \/ ValidateRaises(r, t) \/ ReadGoldRaises(r, t)
  <2>1. FailXform(r, t)
    BY <1>1 DEF XformCrashes, ReadSilverRaises, ValidateRaises, ReadGoldRaises
  <2>2. XformAfterFailure(xform[r][t]).pc # "filtered"
    BY DEF XformAfterFailure, NewXform
  <2> QED
    BY <2>1, <2>2, XformElsewhere DEF FailXform
<1>2. CASE ReadSilver(r, t)
  <2> DEFINE task == [xform[r][t] EXCEPT !.pc = "read", !.snap = silver[t].recs]
  <2>1. SetXform(r, t, task) /\ UNCHANGED cdcVars
    BY <1>2 DEF ReadSilver
  <2>2. task.pc = "read"
    BY <1>0 DEF Xform
  <2> HIDE DEF task
  <2> QED
    BY <2>1, <2>2, XformElsewhere
<1>3. CASE ValidateAndAggregate(r, t)
  <2> DEFINE task == [xform[r][t] EXCEPT !.pc = "aggregated", !.new = {},
                       !.rows = Aggregate(xform[r][t].new, clock[t] + 1)]
  <2>1. SetXform(r, t, task) /\ UNCHANGED cdcVars
    BY <1>3 DEF ValidateAndAggregate
  <2>2. task.pc = "aggregated"
    BY <1>0 DEF Xform
  <2> HIDE DEF task
  <2> QED
    BY <2>1, <2>2, XformElsewhere
<1>4. CASE ReadGoldAndMerge(r, t)
  <2> DEFINE task == [xform[r][t] EXCEPT !.pc = "merged", !.rows =
                       IF goldFile[t].kind = "absent" THEN xform[r][t].rows
                       ELSE MergeGold(goldFile[t].rows, xform[r][t].rows)]
  <2>1. SetXform(r, t, task) /\ UNCHANGED cdcVars
    BY <1>4 DEF ReadGoldAndMerge
  <2>2. task.pc = "merged"
    BY <1>0 DEF Xform
  <2> HIDE DEF task
  <2> QED
    BY <2>1, <2>2, XformElsewhere
<1>5. CASE OpenGold(r, t)
  <2> DEFINE task == [xform[r][t] EXCEPT !.pc = "writing"]
  <2>1. SetXform(r, t, task) /\ UNCHANGED cdcVars
    BY <1>5 DEF OpenGold
  <2>2. task.pc = "writing"
    BY <1>0 DEF Xform
  <2> HIDE DEF task
  <2> QED
    BY <2>1, <2>2, XformElsewhere
<1>6. CASE CloseGold(r, t)
  <2> DEFINE task == [xform[r][t] EXCEPT !.pc = "written", !.rows = {}]
  <2>1. SetXform(r, t, task) /\ UNCHANGED cdcVars
    BY <1>6 DEF CloseGold
  <2>2. task.pc = "written"
    BY <1>0 DEF Xform
  <2> HIDE DEF task
  <2> QED
    BY <2>1, <2>2, XformElsewhere
<1>7. CASE XformSucceeds(r, t)
  <2> DEFINE task == [xform[r][t] EXCEPT !.pc = "success"]
  <2>1. SetXform(r, t, task) /\ UNCHANGED cdcVars
    BY <1>7 DEF XformSucceeds
  <2>2. task.pc = "success"
    BY <1>0 DEF Xform
  <2> HIDE DEF task
  <2> QED
    BY <2>1, <2>2, XformElsewhere
<1> QED
  BY <1>1, <1>2, <1>3, <1>4, <1>5, <1>6, <1>7 DEF XformStep

LEMMA FilterKeepsCursor ==
  ASSUME CdcInv, NEW r \in Runs, NEW t \in Tables, FilterNewRecords(r, t)
  PROVE  CursorInv' /\ RowsProcessedExact'
<1> DEFINE new  == NewRecords(xform[r][t].snap, watermark[t])
           task == [xform[r][t] EXCEPT
                      !.pc = IF new = {} THEN "success" ELSE "filtered",
                      !.snap = {}, !.new = new]
<1>1. xform'[r][t] = task /\ UNCHANGED cdcVars
  BY XformElsewhere DEF CdcInv, FilterNewRecords
<1>2. task.new = new
  BY DEF CdcInv, TypeOK, Xform
<1>3. \A x \in new : EventTime[x] > watermark[t]
  BY DEF NewRecords
<1>4. ASSUME NEW q \in Runs, NEW u \in Tables, xform'[q][u].pc = "filtered"
      PROVE  \A x \in xform'[q][u].new : EventTime[x] > watermark[u]
  <2>1. CASE q = r /\ u = t
    BY <1>1, <1>2, <1>3, <2>1
  <2>2. CASE q # r \/ u # t
    <3>1. xform'[q][u] = xform[q][u]
      BY <2>2, XformElsewhere DEF CdcInv, FilterNewRecords
    <3> QED
      BY <1>4, <3>1 DEF CdcInv, CursorInv
  <2> QED
    BY <2>1, <2>2
<1> QED
  BY <1>1, <1>4 DEF CdcInv, CursorInv, RowsProcessedExact, cdcVars

\* The claim moves the watermark to the latest row of the batch, which lies
\* after all that was handed out; the batch is disjoint from it.
LEMMA ClaimKeepsCursor ==
  ASSUME CdcInv, NEW r \in Runs, NEW t \in Tables, UpdateProcessed(r, t)
  PROVE  CursorInv' /\ RowsProcessedExact'
<1> DEFINE new == xform[r][t].new
<1>0. /\ xform[r][t] \in Xform /\ xform[r][t].pc = "filtered"
      /\ watermark \in [Tables -> Nat] /\ handed \in [Tables -> SUBSET Rec]
      /\ rowsProcessed \in [Tables -> Nat]
  BY DEF CdcInv, TypeOK, UpdateProcessed, XformAt
<1>1. new \in SUBSET Rec /\ \A x \in new : EventTime[x] > watermark[t]
  BY <1>0 DEF CdcInv, CursorInv, Xform
<1>2. PICK ts \in LatestTime(new) : watermark' = [watermark EXCEPT ![t] = ts]
  BY DEF UpdateProcessed
<1>3. /\ ts \in Nat /\ ts > watermark[t]
      /\ \A x \in new : EventTime[x] <= ts
  BY <1>1, LatestTimeType DEF LatestTime
<1>4. /\ watermark'[t] = ts
      /\ \A u \in Tables \ {t} : watermark'[u] = watermark[u]
  BY <1>0, <1>2
<1>5. /\ handed'[t] = handed[t] \cup new
      /\ rowsProcessed'[t] = rowsProcessed[t] + Cardinality(new)
      /\ \A u \in Tables \ {t} : /\ handed'[u] = handed[u]
                                 /\ rowsProcessed'[u] = rowsProcessed[u]
  BY <1>0 DEF UpdateProcessed
<1>6. ASSUME NEW u \in Tables, NEW x \in handed'[u]
      PROVE  EventTime[x] <= watermark'[u]
  <2>1. CASE u # t
    BY <1>4, <1>5, <1>6, <2>1 DEF CdcInv, CursorInv
  <2>2. CASE u = t /\ x \in new
    BY <1>3, <1>4, <2>2
  <2>3. CASE u = t /\ x \in handed[t]
    <3>1. EventTime[x] <= watermark[t] /\ EventTime[x] \in Nat
      BY <1>0, <2>3, RecAssumption DEF CdcInv, CursorInv
    <3> QED
      BY <1>0, <1>3, <1>4, <2>3, <3>1
  <2> QED
    BY <1>5, <1>6, <2>1, <2>2, <2>3
<1>7. ASSUME NEW q \in Runs, NEW u \in Tables, xform'[q][u].pc = "filtered"
      PROVE  \A x \in xform'[q][u].new : EventTime[x] > watermark'[u]
  <2>1. Active(r)
    BY TaskStepsKeepOneRun DEF CdcInv, XformStep
  <2>2. PICK task : SetXform(r, t, task) /\ task = [xform[r][t] EXCEPT !.pc = "claimed"]
    BY DEF UpdateProcessed
  <2>3. ~(q = r /\ u = t)
    BY <1>0, <1>7, <2>2, XformElsewhere DEF CdcInv, Xform
  <2>4. xform'[q][u] = xform[q][u]
    BY <2>2, <2>3, XformElsewhere DEF CdcInv
  <2>5. Active(q)
    BY <1>7, <2>4 DEF CdcInv, OneRun, Active, Finished, XformEnded
  <2>6. u # t
    BY <2>1, <2>3, <2>5 DEF CdcInv, OneRun
  <2> QED
    BY <1>4, <1>7, <2>4, <2>6 DEF CdcInv, CursorInv
<1>8. rowsProcessed'[t] = Cardinality(handed'[t])
  <2>1. IsFiniteSet(new) /\ IsFiniteSet(handed[t])
    BY <1>0, <1>1, RecAssumption, FS_Subset
  <2>2. handed[t] \cap new = {}
    <3> SUFFICES ASSUME NEW x \in Rec, x \in handed[t], x \in new PROVE FALSE
      BY <1>1
    <3>1. EventTime[x] <= watermark[t] /\ EventTime[x] > watermark[t]
      BY <1>1 DEF CdcInv, CursorInv
    <3> QED
      BY <1>0, <3>1, RecAssumption
  <2>3. /\ Cardinality(handed[t] \cup new)
             = Cardinality(handed[t]) + Cardinality(new) - Cardinality({})
        /\ Cardinality(handed[t]) \in Nat /\ Cardinality(new) \in Nat
    BY <2>1, <2>2, FS_Union, FS_CardinalityType
  <2>4. Cardinality({}) = 0
    BY FS_EmptySet
  <2> QED
    BY <1>5, <2>3, <2>4 DEF CdcInv, RowsProcessedExact
<1>9. \A u \in Tables : rowsProcessed'[u] = Cardinality(handed'[u])
  BY <1>5, <1>8 DEF CdcInv, RowsProcessedExact
<1>10. CursorInv'
  BY <1>6, <1>7 DEF CursorInv
<1>11. RowsProcessedExact'
  BY <1>9 DEF RowsProcessedExact
<1> QED
  BY <1>10, <1>11

LEMMA CdcInit == Init => CdcInv
<1> SUFFICES ASSUME Init PROVE CdcInv
  OBVIOUS
<1>1. \A r \in Runs, t \in Tables : xform[r][t].pc = "none"
  BY DEF Init, NewXform
<1>2. OneRun
  BY <1>1 DEF Init, OneRun, Active
<1>3. CursorInv
  BY <1>1 DEF Init, CursorInv
<1>4. RowsProcessedExact
  BY FS_EmptySet DEF Init, RowsProcessedExact
<1> QED
  BY <1>2, <1>3, <1>4, TypeInit DEF CdcInv

\* One run at a time: a step keeps the invariant.
LEMMA CdcStep ==
  ASSUME Overlap = FALSE, CdcInv, [Next]_vars
  PROVE  CdcInv'
<1> DEFINE Goal == OneRun' /\ CursorInv' /\ RowsProcessedExact'
<1>0. TypeOK' /\ TypeOK
  BY TypeStep DEF CdcInv
<1>1. ASSUME NEW t \in Tables, OpenSilver(t) \/ CloseSilver(t) PROVE Goal
  <2>1. UNCHANGED <<cdcVars, started, xform, load>>
    BY <1>1 DEF OpenSilver, CloseSilver, loadVars
  <2> QED
    BY <1>0, <2>1 DEF CdcInv, OneRun, Active, Finished, CursorInv,
                      RowsProcessedExact, cdcVars, TypeOK
<1>2. ASSUME NEW r \in Runs, StartRun(r) PROVE Goal
  <2>1. /\ UNCHANGED <<cdcVars, xform, load>> /\ started' = started \cup {r}
        /\ \A q \in Runs : ~Active(q)
    BY <1>2 DEF StartRun, loadVars
  <2>2. \A q \in Runs : Active(q)' => q = r
    BY <2>1 DEF Active, Finished
  <2>3. OneRun'
    BY <2>1, <2>2 DEF CdcInv, OneRun
  <2> QED
    BY <1>0, <2>1, <2>3 DEF CdcInv, CursorInv, RowsProcessedExact, cdcVars, TypeOK
<1>3. ASSUME NEW r \in Runs, LoadStep(r) \/ LoadCrashes(r) PROVE Goal
  <2>1. UNCHANGED <<cdcVars, xform>>
    BY <1>0, <1>3, LoadEffect
  <2>2. OneRun'
    BY <1>0, <1>3, LoadStepsKeepOneRun DEF CdcInv
  <2> QED
    BY <1>0, <2>1, <2>2 DEF CdcInv, CursorInv, RowsProcessedExact, cdcVars, TypeOK
<1>4. ASSUME NEW r \in Runs, NEW t \in Tables,
             XformStep(r, t) \/ XformCrashes(r, t)
      PROVE  Goal
  <2>1. OneRun'
    BY <1>0, <1>4, TaskStepsKeepOneRun DEF CdcInv
  <2>2. CASE FilterNewRecords(r, t)
    BY <2>1, <2>2, FilterKeepsCursor
  <2>3. CASE UpdateProcessed(r, t)
    BY <2>1, <2>3, ClaimKeepsCursor
  <2>4. CASE ~FilterNewRecords(r, t) /\ ~UpdateProcessed(r, t)
    <3>1. UNCHANGED cdcVars /\ xform'[r][t].pc # "filtered"
      BY <1>0, <1>4, <2>4, OtherStepsKeepCursor
    <3>2. PICK task : SetXform(r, t, task)
      BY <1>0, <1>4, XformEffect
    <3>3. \A q \in Runs, u \in Tables :
            q # r \/ u # t => xform'[q][u] = xform[q][u]
      BY <1>0, <3>2, XformElsewhere
    <3>4. CursorInv'
      BY <3>1, <3>3 DEF CdcInv, CursorInv, cdcVars
    <3>5. RowsProcessedExact'
      BY <3>1 DEF CdcInv, RowsProcessedExact, cdcVars
    <3> QED
      BY <2>1, <3>4, <3>5
  <2> QED
    BY <2>2, <2>3, <2>4
<1>5. ASSUME UNCHANGED vars PROVE Goal
  BY <1>0, <1>5 DEF vars, CdcInv, OneRun, Active, Finished, CursorInv,
                    RowsProcessedExact, TypeOK
<1> QED
  BY <1>0, <1>1, <1>2, <1>3, <1>4, <1>5 DEF Next, RunStep, CdcInv

LEMMA CdcAlways ==
  ASSUME Overlap = FALSE
  PROVE  Spec => []CdcInv
<1>1. Init => CdcInv
  BY CdcInit
<1>2. CdcInv /\ [Next]_vars => CdcInv'
  BY CdcStep
<1> QED
  BY <1>1, <1>2, PTL DEF Spec

\* One run at a time: filter_new_records returns a Silver row at most once,
\* whatever crashes, retries and late rows do (cdc_tracker.filter_new_records).
THEOREM AtMostOnce ==
  ASSUME Overlap = FALSE
  PROVE  Spec => []NoRecordHandedTwice
<1>1. CdcInv => NoRecordHandedTwice
  <2> SUFFICES ASSUME CdcInv, NEW r \in Runs, NEW t \in Tables,
                      xform[r][t].pc = "filtered",
                      NEW x \in xform[r][t].new, x \in handed[t]
               PROVE  FALSE
    BY DEF NoRecordHandedTwice
  <2>1. x \in Rec /\ watermark[t] \in Nat
    BY DEF CdcInv, TypeOK, Xform
  <2>2. EventTime[x] > watermark[t] /\ EventTime[x] <= watermark[t]
    BY DEF CdcInv, CursorInv
  <2> QED
    BY <2>1, <2>2, RecAssumption
<1> QED
  BY <1>1, CdcAlways, PTL

\* One run at a time: cdc_control.rows_processed is the number of distinct rows
\* handed out (the += of update_processed never counts one twice).
THEOREM RowCountExact ==
  ASSUME Overlap = FALSE
  PROVE  Spec => []RowsProcessedExact
<1>1. CdcInv => RowsProcessedExact
  BY DEF CdcInv
<1> QED
  BY <1>1, CdcAlways, PTL

-----------------------------------------------------------------------------
(* Runs that overlap: what rows are made of                                *)

\* A Gold row of table t is made of rows of its key that were handed out and
\* passed the gate.
Sound(t, w) ==
  /\ w.recs # {}
  /\ w.recs \subseteq {x \in handed[t] : GroupOf[x] = w.group}
  /\ t \in Gated => w.recs \cap BadRec = {}

SoundRows(t, rows) == \A w \in rows : Sound(t, w)

SoundTask(t, task) ==
  /\ task.pc = "claimed" => task.new \subseteq handed[t]
  /\ SoundRows(t, task.rows)

\* Everything that will reach a Gold row, a blob or Synapse is sound already
\* where it is now, in a file or in the memory of a task.
SoundInv ==
  /\ \A t \in Tables : /\ SoundRows(t, goldFile[t].rows)
                       /\ SoundRows(t, blob[t].rows)
                       /\ SoundRows(t, Loaded(t))
  /\ \A r \in Runs, t \in Tables : SoundTask(t, xform[r][t])

LEMMA SoundInit == Init => SoundInv
BY DEF Init, SoundInv, SoundRows, SoundTask, NoFile, NewXform, Loaded

LEMMA AggregateSound ==
  ASSUME NEW t \in Tables, NEW S \in SUBSET handed[t], NEW n \in Nat,
         ~Rejects(t, S)
  PROVE  SoundRows(t, Aggregate(S, n))
BY DEF SoundRows, Sound, Aggregate, Rejects

\* Replacing one sound task by another keeps all of them sound.
LEMMA PutSoundTask ==
  ASSUME TypeOK, SoundInv, NEW r \in Runs, NEW t \in Tables, NEW task,
         SetXform(r, t, task), SoundTask(t, task), handed' = handed
  PROVE  \A q \in Runs, u \in Tables : SoundTask(u, xform[q][u])'
<1> SUFFICES ASSUME NEW q \in Runs, NEW u \in Tables
             PROVE  SoundTask(u, xform[q][u])'
  OBVIOUS
<1>1. CASE q = r /\ u = t
  BY <1>1, XformElsewhere DEF SoundTask, SoundRows, Sound
<1>2. CASE q # r \/ u # t
  <2>1. xform'[q][u] = xform[q][u]
    BY <1>2, XformElsewhere
  <2> QED
    BY <2>1 DEF SoundInv, SoundTask, SoundRows, Sound
<1> QED
  BY <1>1, <1>2

\* What has been handed out stays handed out, and what is sound stays so.
LEMMA SoundGrows ==
  ASSUME \A u \in Tables : handed[u] \subseteq handed'[u]
  PROVE  \A u \in Tables : \A w : Sound(u, w) => Sound(u, w)'
BY DEF Sound

\* A task step that leaves the Gold file and the control table alone.
LEMMA TaskStepSound ==
  ASSUME TypeOK, SoundInv, NEW r \in Runs, NEW t \in Tables, NEW task,
         SetXform(r, t, task), SoundTask(t, task),
         UNCHANGED <<handed, goldFile, blob, table>>
  PROVE  SoundInv'
<1>1. \A q \in Runs, u \in Tables : SoundTask(u, xform[q][u])'
  BY PutSoundTask
<1>2. \A u \in Tables : /\ SoundRows(u, goldFile[u].rows)'
                        /\ SoundRows(u, blob[u].rows)'
                        /\ SoundRows(u, Loaded(u))'
  BY DEF SoundInv, SoundRows, Sound, Loaded
<1> QED
  BY <1>1, <1>2 DEF SoundInv

LEMMA FailXformSound ==
  ASSUME TypeOK, SoundInv, NEW r \in Runs, NEW t \in Tables, FailXform(r, t)
  PROVE  SoundInv'
<1> DEFINE task == XformAfterFailure(xform[r][t])
<1>1. SoundTask(t, task)
  BY DEF XformAfterFailure, NewXform, SoundTask, SoundRows
<1>2. SetXform(r, t, task) /\ UNCHANGED <<handed, goldFile, blob, table>>
  BY DEF FailXform, cdcVars, loadVars
<1> QED
  BY <1>1, <1>2, TaskStepSound

LEMMA XformStepSound ==
  ASSUME TypeOK, SoundInv, NEW r \in Runs, NEW t \in Tables, XformStep(r, t)
  PROVE  SoundInv'
<1>0. /\ xform[r][t] \in Xform /\ SoundTask(t, xform[r][t])
      /\ goldFile[t] \in File /\ SoundRows(t, goldFile[t].rows)
  BY DEF TypeOK, SoundInv
<1>1. CASE ReadSilver(r, t)
  <2> DEFINE task == [xform[r][t] EXCEPT !.pc = "read", !.snap = silver[t].recs]
  <2>1. SoundTask(t, task)
    BY <1>0 DEF SoundTask, Xform
  <2>2. SetXform(r, t, task) /\ UNCHANGED <<handed, goldFile, blob, table>>
    BY <1>1 DEF ReadSilver, cdcVars, loadVars
  <2> HIDE DEF task
  <2> QED
    BY <2>1, <2>2, TaskStepSound
<1>2. CASE FilterNewRecords(r, t)
  <2> DEFINE new  == NewRecords(xform[r][t].snap, watermark[t])
             task == [xform[r][t] EXCEPT
                        !.pc = IF new = {} THEN "success" ELSE "filtered",
                        !.snap = {}, !.new = new]
  <2>1. SoundTask(t, task)
    BY <1>0 DEF SoundTask, Xform, NewRecords
  <2>2. SetXform(r, t, task) /\ UNCHANGED <<handed, goldFile, blob, table>>
    BY <1>2 DEF FilterNewRecords, cdcVars, loadVars
  <2> HIDE DEF task
  <2> QED
    BY <2>1, <2>2, TaskStepSound
<1>3. CASE UpdateProcessed(r, t)
  <2> DEFINE task == [xform[r][t] EXCEPT !.pc = "claimed"]
  <2>1. /\ SetXform(r, t, task) /\ UNCHANGED <<goldFile, blob, table>>
        /\ handed' = [handed EXCEPT ![t] = @ \cup xform[r][t].new]
    BY <1>3 DEF UpdateProcessed, loadVars
  <2>2. /\ xform[r][t].new \subseteq handed'[t]
        /\ \A u \in Tables : handed[u] \subseteq handed'[u]
    BY <2>1 DEF TypeOK
  <2>3. \A u \in Tables : \A w : Sound(u, w) => Sound(u, w)'
    BY <2>2, SoundGrows
  <2>4. task.new = xform[r][t].new /\ task.rows = xform[r][t].rows
    BY <1>0 DEF Xform
  <2> HIDE DEF task
  <2>5. ASSUME NEW q \in Runs, NEW u \in Tables
        PROVE  SoundTask(u, xform[q][u])'
    <3>1. CASE q = r /\ u = t
      <4>1. xform'[r][t] = task
        BY <2>1, XformElsewhere
      <4> QED
        BY <1>0, <2>2, <2>3, <2>4, <3>1, <4>1 DEF SoundTask, SoundRows
    <3>2. CASE q # r \/ u # t
      <4>1. xform'[q][u] = xform[q][u] /\ SoundTask(u, xform[q][u])
        BY <2>1, <3>2, XformElsewhere DEF SoundInv
      <4> QED
        BY <2>2, <2>3, <4>1 DEF SoundTask, SoundRows
    <3> QED
      BY <3>1, <3>2
  <2>6. \A u \in Tables : /\ SoundRows(u, goldFile[u].rows)'
                          /\ SoundRows(u, blob[u].rows)'
                          /\ SoundRows(u, Loaded(u))'
    BY <2>1, <2>3 DEF SoundInv, SoundRows, Loaded
  <2> QED
    BY <2>5, <2>6 DEF SoundInv
<1>4. CASE ReadSilverRaises(r, t) \/ ValidateRaises(r, t)
  BY <1>4, FailXformSound DEF ReadSilverRaises, ValidateRaises
<1>5. CASE ValidateAndAggregate(r, t)
  <2> DEFINE agg  == Aggregate(xform[r][t].new, clock[t] + 1)
             task == [xform[r][t] EXCEPT !.pc = "aggregated", !.new = {},
                                         !.rows = agg]
  <2>1. /\ xform[r][t].new \in SUBSET handed[t] /\ clock[t] + 1 \in Nat
        /\ ~Rejects(t, xform[r][t].new)
    BY <1>0, <1>5 DEF SoundTask, TypeOK, ValidateAndAggregate, XformAt
  <2>2. SoundRows(t, agg)
    BY <2>1, AggregateSound
  <2>3. SetXform(r, t, task) /\ UNCHANGED <<handed, goldFile, blob, table>>
    BY <1>5 DEF ValidateAndAggregate, cdcVars, loadVars
  <2> HIDE DEF agg
  <2>4. SoundTask(t, task)
    BY <1>0, <2>2 DEF SoundTask, Xform
  <2> HIDE DEF task
  <2> QED
    BY <2>3, <2>4, TaskStepSound
<1>6. CASE ReadGoldRaises(r, t)
  BY <1>6, FailXformSound DEF ReadGoldRaises
<1>7. CASE ReadGoldAndMerge(r, t)
  <2> DEFINE agg  == xform[r][t].rows
             rows == IF goldFile[t].kind = "absent" THEN agg
                     ELSE MergeGold(goldFile[t].rows, agg)
             task == [xform[r][t] EXCEPT !.pc = "merged", !.rows = rows]
  <2>1. SoundRows(t, rows)
    BY <1>0 DEF SoundTask, SoundRows, MergeGold
  <2>2. SetXform(r, t, task) /\ UNCHANGED <<handed, goldFile, blob, table>>
    BY <1>7 DEF ReadGoldAndMerge, cdcVars, loadVars
  <2> HIDE DEF rows
  <2>3. SoundTask(t, task)
    BY <1>0, <2>1 DEF SoundTask, Xform
  <2> HIDE DEF task
  <2> QED
    BY <2>2, <2>3, TaskStepSound
<1>8. CASE OpenGold(r, t) \/ CloseGold(r, t)
  <2>1. PICK task : SetXform(r, t, task) /\ SoundTask(t, task)
    <3> DEFINE opened == [xform[r][t] EXCEPT !.pc = "writing"]
               closed == [xform[r][t] EXCEPT !.pc = "written", !.rows = {}]
    <3>1. SoundTask(t, opened) /\ SoundTask(t, closed)
      BY <1>0 DEF SoundTask, SoundRows, Xform
    <3>2. SetXform(r, t, opened) \/ SetXform(r, t, closed)
      BY <1>8 DEF OpenGold, CloseGold
    <3> HIDE DEF opened, closed
    <3> QED
      BY <3>1, <3>2
  <2>2. /\ UNCHANGED <<handed, blob, table>>
        /\ \E f : /\ goldFile' = [goldFile EXCEPT ![t] = f]
                  /\ f.rows \in {{}, xform[r][t].rows}
    <3>1. CASE OpenGold(r, t)
      <4> DEFINE f == [kind |-> "torn", rows |-> {}, sole |-> Writing(t) = {}]
      <4>1. /\ UNCHANGED <<handed, blob, table>>
            /\ goldFile' = [goldFile EXCEPT ![t] = f]
        BY <3>1 DEF OpenGold, cdcVars, loadVars
      <4>2. f.rows = {}
        OBVIOUS
      <4> HIDE DEF f
      <4> QED
        BY <4>1, <4>2
    <3>2. CASE CloseGold(r, t)
      <4>1. [goldFile[t] EXCEPT !.kind = "ok", !.rows = xform[r][t].rows].rows
              = xform[r][t].rows
        BY <1>0 DEF File
      <4>2. [goldFile[t] EXCEPT !.kind = "torn", !.rows = {}].rows = {}
        BY <1>0 DEF File
      <4>3. \/ goldFile' = [goldFile EXCEPT ![t] =
                   [goldFile[t] EXCEPT !.kind = "ok", !.rows = xform[r][t].rows]]
            \/ goldFile' = [goldFile EXCEPT ![t] =
                   [goldFile[t] EXCEPT !.kind = "torn", !.rows = {}]]
        BY <3>2 DEF CloseGold
      <4>4. UNCHANGED <<handed, blob, table>>
        BY <3>2 DEF CloseGold, cdcVars, loadVars
      <4> QED
        BY <4>1, <4>2, <4>3, <4>4
    <3> QED
      BY <1>8, <3>1, <3>2
  <2>3. \A u \in Tables : SoundRows(u, goldFile'[u].rows)
    <3>1. PICK f : /\ goldFile' = [goldFile EXCEPT ![t] = f]
                   /\ f.rows \in {{}, xform[r][t].rows}
      BY <2>2
    <3>2. goldFile'[t] = f /\ \A u \in Tables \ {t} : goldFile'[u] = goldFile[u]
      BY <3>1 DEF TypeOK
    <3>3. SoundRows(t, f.rows)
      BY <1>0, <3>1 DEF SoundTask, SoundRows
    <3> QED
      BY <3>2, <3>3 DEF SoundInv
  <2>4. \A u \in Tables : /\ SoundRows(u, goldFile[u].rows)'
                          /\ SoundRows(u, blob[u].rows)'
                          /\ SoundRows(u, Loaded(u))'
    BY <2>2, <2>3 DEF SoundInv, SoundRows, Sound, Loaded
  <2>6. \A q \in Runs, u \in Tables : SoundTask(u, xform[q][u])'
    BY <2>1, <2>2, PutSoundTask
  <2> QED
    BY <2>4, <2>6 DEF SoundInv
<1>9. CASE XformSucceeds(r, t)
  <2> DEFINE task == [xform[r][t] EXCEPT !.pc = "success"]
  <2>1. SoundTask(t, task)
    BY <1>0 DEF SoundTask, Xform
  <2>2. SetXform(r, t, task) /\ UNCHANGED <<handed, goldFile, blob, table>>
    BY <1>9 DEF XformSucceeds, cdcVars, loadVars
  <2> HIDE DEF task
  <2> QED
    BY <2>1, <2>2, TaskStepSound
<1> QED
  BY <1>1, <1>2, <1>3, <1>4, <1>5, <1>6, <1>7, <1>8, <1>9 DEF XformStep

LEMMA LoadStepSound ==
  ASSUME TypeOK, SoundInv, NEW r \in Runs, LoadStep(r) \/ LoadCrashes(r)
  PROVE  SoundInv'
<1> DEFINE t == Current(r)
<1>1. UNCHANGED <<handed, goldFile, xform>>
  BY LoadEffect DEF cdcVars
<1>2. \A q \in Runs, u \in Tables : SoundTask(u, xform[q][u])'
  BY <1>1 DEF SoundInv, SoundTask, SoundRows, Sound
<1>3. \A u \in Tables : SoundRows(u, goldFile[u].rows)'
  BY <1>1 DEF SoundInv, SoundRows, Sound
<1>5. ASSUME NEW u \in Tables
      PROVE  SoundRows(u, blob'[u].rows) /\ SoundRows(u, Loaded(u)')
  <2>0. SoundRows(u, blob[u].rows) /\ SoundRows(u, Loaded(u))
        /\ SoundRows(u, goldFile[u].rows)
    BY DEF SoundInv
  <2>1. CASE UploadToBlob(r)
    <3>1. table' = table
      BY <2>1 DEF UploadToBlob
    <3>2. CASE u = t
      <4>1. blob'[u] = [goldFile[u] EXCEPT !.sole = TRUE]
        BY <2>1, <3>2 DEF UploadToBlob, TypeOK
      <4>2. goldFile[u] \in File
        BY DEF TypeOK
      <4>3. [goldFile[u] EXCEPT !.sole = TRUE].rows = goldFile[u].rows
        BY <4>2 DEF File
      <4> QED
        BY <2>0, <3>1, <4>1, <4>3 DEF Loaded
    <3>3. CASE u # t
      BY <2>0, <2>1, <3>1, <3>3 DEF UploadToBlob, TypeOK, Loaded
    <3> QED
      BY <3>2, <3>3
  <2>2. CASE CopyInto(r)
    <3> DEFINE copied == [row : blob[t].rows \ Refused(blob[t].rows),
                           by : {<<r, load[r].try>>}]
    <3>1. blob' = blob /\ table' = [table EXCEPT ![t] = KeptRows(t) \cup copied]
      BY <2>2 DEF CopyInto
    <3>2. CASE u = t
      <4>1. table'[u] \subseteq table[u] \cup copied
        BY <3>1, <3>2 DEF TypeOK, KeptRows
      <4>2. \A s \in copied : s.row \in blob[u].rows
        BY <3>2
      <4> QED
        BY <2>0, <3>1, <4>1, <4>2 DEF SoundRows, Loaded
    <3>3. CASE u # t
      BY <2>0, <3>1, <3>3 DEF TypeOK, Loaded
    <3> QED
      BY <3>2, <3>3
  <2>3. CASE ~UploadToBlob(r) /\ ~CopyInto(r)
    <3>1. UNCHANGED <<blob, table>>
      BY <2>3 DEF LoadStep, LoadCrashes, UploadRaises, CopyRaises, FailLoad,
                  UpstreamFailed, CreatePartitions, LoadSucceeds
    <3> QED
      BY <2>0, <3>1 DEF Loaded
  <2> QED
    BY <2>1, <2>2, <2>3
<1>6. \A u \in Tables : SoundRows(u, blob[u].rows)' /\ SoundRows(u, Loaded(u))'
  BY <1>1, <1>5 DEF SoundRows, Sound
<1> QED
  BY <1>2, <1>3, <1>6 DEF SoundInv

LEMMA SoundStep == TypeOK /\ SoundInv /\ [Next]_vars => SoundInv'
<1> SUFFICES ASSUME TypeOK, SoundInv, [Next]_vars PROVE SoundInv'
  OBVIOUS
<1>1. CASE UNCHANGED <<handed, goldFile, blob, table, xform>>
  BY <1>1 DEF SoundInv, SoundTask, SoundRows, Sound, Loaded
<1>2. ASSUME NEW t \in Tables, OpenSilver(t) \/ CloseSilver(t) PROVE SoundInv'
  BY <1>1, <1>2 DEF OpenSilver, CloseSilver, cdcVars, loadVars
<1>3. ASSUME NEW r \in Runs, StartRun(r) PROVE SoundInv'
  BY <1>1, <1>3 DEF StartRun, cdcVars, loadVars
<1>4. ASSUME NEW r \in Runs, RunStep(r) \/ LoadCrashes(r) PROVE SoundInv'
  BY <1>4, XformStepSound, LoadStepSound DEF RunStep
<1>5. ASSUME NEW r \in Runs, NEW t \in Tables, XformCrashes(r, t)
      PROVE  SoundInv'
  BY <1>5, FailXformSound DEF XformCrashes
<1>6. ASSUME UNCHANGED vars PROVE SoundInv'
  BY <1>1, <1>6 DEF vars
<1> QED
  BY <1>2, <1>3, <1>4, <1>5, <1>6 DEF Next

LEMMA SoundAlways == Spec => [](TypeOK /\ SoundInv)
BY TypeInit, TypeStep, SoundInit, SoundStep, PTL DEF Spec

\* However runs overlap and tasks are retried, no row validate_silver_data
\* rejects is part of an aggregate in the Gold file, the blob or Synapse.
THEOREM GateHolds == Spec => []QualityGate
<1>1. SoundInv => QualityGate
  BY TablesAssumption DEF SoundInv, SoundRows, Sound, QualityGate
<1> QED
  BY <1>1, SoundAlways, PTL

-----------------------------------------------------------------------------
(* Runs that overlap: one row per key                                      *)

\* One row per key wherever rows are, and stamps that cannot collide: rows just
\* aggregated carry a stamp no other row has, until they are merged.
UniqueTask(t, task) ==
  /\ OnePerGroup(task.rows)
  /\ \A w \in task.rows : w.stamp <= clock[t]

FreshTask(r, t) ==
  xform[r][t].pc = "aggregated" =>
    \A v \in xform[r][t].rows :
      /\ \A w \in xform[r][t].rows : v.stamp = w.stamp
      /\ \A w \in goldFile[t].rows : v.stamp # w.stamp
      /\ \A q \in Runs \ {r} : \A w \in xform[q][t].rows : v.stamp # w.stamp

UniqueFile(t) ==
  /\ OnePerGroup(goldFile[t].rows)
  /\ \A w \in goldFile[t].rows : w.stamp <= clock[t]

\* The inductive invariant of stamps.
UniqueInv ==
  /\ \A t \in Tables : UniqueFile(t) /\ OnePerGroup(blob[t].rows)
  /\ \A r \in Runs, t \in Tables : UniqueTask(t, xform[r][t]) /\ FreshTask(r, t)
  /\ FullLoadExact

LEMMA UniqueInit == Init => UniqueInv
<1> SUFFICES ASSUME Init PROVE UniqueInv
  OBVIOUS
<1>1. \A r \in Runs, t \in Tables : /\ xform[r][t].rows = {}
                                   /\ xform[r][t].pc = "none"
  BY DEF Init, NewXform
<1>2. \A t \in Tables : /\ goldFile[t].rows = {} /\ blob[t].rows = {}
                        /\ table[t] = {}
  BY DEF Init, NoFile
<1> QED
  BY <1>1, <1>2, TablesAssumption DEF UniqueInv, UniqueFile, UniqueTask,
     FreshTask, OnePerGroup, FullLoadExact

LEMMA AggregateUnique ==
  ASSUME NEW S \in SUBSET Rec, NEW n \in Nat
  PROVE  /\ OnePerGroup(Aggregate(S, n))
         /\ \A w \in Aggregate(S, n) : w.stamp = n
BY DEF OnePerGroup, Aggregate

\* drop_duplicates after the sort leaves one row per key: the two sides have one
\* each, and no stamp of one side occurs on the other.
LEMMA MergeUnique ==
  ASSUME NEW A \in SUBSET Row, NEW B \in SUBSET Row,
         OnePerGroup(A), OnePerGroup(B),
         \A v \in A, w \in B : v.stamp # w.stamp
  PROVE  OnePerGroup(MergeGold(A, B))
<1> SUFFICES ASSUME NEW v \in MergeGold(A, B), NEW w \in MergeGold(A, B),
                    v.group = w.group
             PROVE  v = w
  BY DEF OnePerGroup
<1>1. v \in A \cup B /\ w \in A \cup B /\ v.stamp \in Nat /\ w.stamp \in Nat
  BY DEF MergeGold, Row
<1>2. v.stamp <= w.stamp /\ w.stamp <= v.stamp
  BY DEF MergeGold
<1>3. v.stamp = w.stamp
  BY <1>1, <1>2
<1> QED
  BY <1>1, <1>3 DEF OnePerGroup

\* What a step of task (r, t) may do to rows: move them between the task and the
\* Gold file of t, or make rows with a new stamp.
RowsMoved(r, t, task) ==
  /\ SetXform(r, t, task)
  /\ OnePerGroup(task.rows)
  /\ \A w \in task.rows :
       \/ w \in goldFile[t].rows \cup xform[r][t].rows
       \/ w.stamp = clock[t] + 1 /\ clock'[t] = clock[t] + 1
  /\ task.pc = "aggregated" =>
       /\ \A w \in task.rows : w.stamp = clock[t] + 1
       /\ goldFile' = goldFile
  /\ clock'[t] >= clock[t]
  /\ \A u \in Tables \ {t} : clock'[u] = clock[u] /\ goldFile'[u] = goldFile[u]
  /\ \/ goldFile'[t].rows = goldFile[t].rows
     \/ goldFile'[t].rows = {}
     \/ goldFile'[t].rows = xform[r][t].rows
  /\ UNCHANGED <<blob, table>>

LEMMA RowsMovedUnique ==
  ASSUME TypeOK, TypeOK', UniqueInv, NEW r \in Runs, NEW t \in Tables, NEW task,
         RowsMoved(r, t, task)
  PROVE  UniqueInv'
<1>0. /\ clock[t] \in Nat /\ clock'[t] \in Nat /\ clock'[t] >= clock[t]
      /\ goldFile[t].rows \in SUBSET Row
      /\ \A q \in Runs : xform[q][t].rows \in SUBSET Row
      /\ \A w \in Row : w.stamp \in Nat
  BY DEF TypeOK, File, Xform, Row, RowsMoved
<1>1. /\ xform'[r][t] = task
      /\ \A q \in Runs, u \in Tables : q # r \/ u # t => xform'[q][u] = xform[q][u]
  BY XformElsewhere DEF RowsMoved
<1>2. /\ UniqueTask(t, xform[r][t]) /\ UniqueFile(t)
  BY DEF UniqueInv
<1>3. /\ task.rows \in SUBSET Row
      /\ goldFile'[t].rows \subseteq goldFile[t].rows \cup xform[r][t].rows
  BY <1>1 DEF TypeOK, Xform, RowsMoved
<1>4. ASSUME NEW u \in Tables PROVE UniqueFile(u)'
  <2>1. CASE u # t
    BY <2>1 DEF UniqueInv, UniqueFile, RowsMoved
  <2>2. CASE u = t
    <3>1. OnePerGroup(goldFile'[t].rows)
      BY <1>2 DEF UniqueTask, UniqueFile, RowsMoved, OnePerGroup
    <3>2. \A w \in goldFile'[t].rows : w.stamp <= clock'[t]
      BY <1>0, <1>2, <1>3 DEF UniqueTask, UniqueFile
    <3> QED
      BY <2>2, <3>1, <3>2 DEF UniqueFile
  <2> QED
    BY <2>1, <2>2
<1>5. ASSUME NEW q \in Runs, NEW u \in Tables
      PROVE  UniqueTask(u, xform[q][u])'
  <2>1. CASE q = r /\ u = t
    <3>1. \A w \in task.rows : w.stamp <= clock'[t]
      BY <1>0, <1>2, <1>3 DEF UniqueTask, UniqueFile, RowsMoved
    <3> QED
      BY <1>1, <2>1, <3>1 DEF UniqueTask, RowsMoved
  <2>2. CASE q # r /\ u = t
    <3>1. xform'[q][t] = xform[q][t] /\ UniqueTask(t, xform[q][t])
      BY <1>1, <2>2 DEF UniqueInv
    <3> QED
      BY <1>0, <2>2, <3>1 DEF UniqueTask
  <2>3. CASE u # t
    BY <1>1, <2>3 DEF UniqueInv, UniqueTask, RowsMoved
  <2> QED
    BY <2>1, <2>2, <2>3
<1>6. ASSUME NEW q \in Runs, NEW u \in Tables
      PROVE  FreshTask(q, u)'
  <2>1. CASE u # t
    BY <1>1, <2>1 DEF UniqueInv, FreshTask, RowsMoved
  <2>2. CASE u = t /\ q = r
    <3> SUFFICES ASSUME task.pc = "aggregated", NEW v \in task.rows
                 PROVE  /\ \A w \in task.rows : v.stamp = w.stamp
                        /\ \A w \in goldFile'[t].rows : v.stamp # w.stamp
                        /\ \A p \in Runs \ {r} :
                             \A w \in xform'[p][t].rows : v.stamp # w.stamp
      BY <1>1, <2>2 DEF FreshTask
    <3>1. /\ v.stamp = clock[t] + 1
          /\ \A w \in task.rows : v.stamp = w.stamp
          /\ goldFile' = goldFile
      BY DEF RowsMoved
    <3>2. \A w \in goldFile[t].rows : v.stamp # w.stamp
      BY <1>0, <1>2, <3>1 DEF UniqueFile
    <3>3. ASSUME NEW p \in Runs \ {r}, NEW w \in xform'[p][t].rows
          PROVE  v.stamp # w.stamp
      <4>1. w \in xform[p][t].rows /\ w.stamp <= clock[t]
        BY <1>1, <3>3 DEF UniqueInv, UniqueTask
      <4> QED
        BY <1>0, <3>1, <4>1
    <3> QED
      BY <3>1, <3>2, <3>3
  <2>3. CASE u = t /\ q # r
    <3> SUFFICES ASSUME xform[q][t].pc = "aggregated", NEW v \in xform[q][t].rows
                 PROVE  /\ \A w \in xform[q][t].rows : v.stamp = w.stamp
                        /\ \A w \in goldFile'[t].rows : v.stamp # w.stamp
                        /\ \A p \in Runs \ {q} :
                             \A w \in xform'[p][t].rows : v.stamp # w.stamp
      BY <1>1, <2>3 DEF FreshTask
    <3>1. /\ \A w \in xform[q][t].rows : v.stamp = w.stamp
          /\ \A w \in goldFile[t].rows : v.stamp # w.stamp
          /\ \A p \in Runs \ {q} : \A w \in xform[p][t].rows : v.stamp # w.stamp
      BY <2>3 DEF UniqueInv, FreshTask
    <3>2. v.stamp <= clock[t] /\ v.stamp \in Nat
      BY <1>0, <2>3 DEF UniqueInv, UniqueTask
    <3>3. \A w \in goldFile'[t].rows : v.stamp # w.stamp
      BY <1>3, <2>3, <3>1
    <3>4. ASSUME NEW p \in Runs \ {q}, NEW w \in xform'[p][t].rows
          PROVE  v.stamp # w.stamp
      <4>1. CASE p # r
        BY <1>1, <3>1, <3>4, <4>1
      <4>2. CASE p = r
        <5>1. w \in task.rows
          BY <1>1, <3>4, <4>2
        <5>2. \/ w \in goldFile[t].rows \cup xform[r][t].rows
              \/ w.stamp = clock[t] + 1
          BY <5>1 DEF RowsMoved
        <5> QED
          BY <1>0, <2>3, <3>1, <3>2, <5>2
      <4> QED
        BY <4>1, <4>2
    <3> QED
      BY <3>1, <3>3, <3>4
  <2> QED
    BY <2>1, <2>2, <2>3
<1>7. FullLoadExact' /\ \A u \in Tables : OnePerGroup(blob[u].rows)'
  BY DEF UniqueInv, RowsMoved, FullLoadExact, OnePerGroup
<1> QED
  BY <1>4, <1>5, <1>6, <1>7 DEF UniqueInv

\* A step that neither makes rows nor touches the Gold file.
LEMMA KeepRowsUnique ==
  ASSUME TypeOK, TypeOK', UniqueInv, NEW r \in Runs, NEW t \in Tables, NEW task,
         SetXform(r, t, task), task.rows \in {{}, xform[r][t].rows},
         task.pc # "aggregated", UNCHANGED <<clock, goldFile, blob, table>>
  PROVE  UniqueInv'
<1>1. OnePerGroup(task.rows)
  BY DEF UniqueInv, UniqueTask, OnePerGroup
<1>2. clock' = clock /\ clock[t] \in Nat
  BY DEF TypeOK
<1>3. RowsMoved(r, t, task)
  BY <1>1, <1>2 DEF RowsMoved
<1> QED
  BY <1>3, RowsMovedUnique

LEMMA FailXformUnique ==
  ASSUME TypeOK, TypeOK', UniqueInv, NEW r \in Runs, NEW t \in Tables,
         FailXform(r, t)
  PROVE  UniqueInv'
<1> DEFINE task == XformAfterFailure(xform[r][t])
<1>1. task.rows = {} /\ task.pc # "aggregated"
  BY DEF XformAfterFailure, NewXform
<1>2. SetXform(r, t, task) /\ UNCHANGED <<clock, goldFile, blob, table>>
  BY DEF FailXform, cdcVars, loadVars
<1> QED
  BY <1>1, <1>2, KeepRowsUnique

LEMMA XformStepUnique ==
  ASSUME TypeOK, TypeOK', UniqueInv, NEW r \in Runs, NEW t \in Tables,
         XformStep(r, t)
  PROVE  UniqueInv'
<1>0. /\ xform[r][t] \in Xform /\ goldFile[t] \in File /\ clock[t] \in Nat
      /\ UniqueTask(t, xform[r][t]) /\ UniqueFile(t) /\ FreshTask(r, t)
  BY DEF TypeOK, UniqueInv
<1>1. CASE \/ ReadSilver(r, t) \/ FilterNewRecords(r, t)
           \/ UpdateProcessed(r, t) \/ XformSucceeds(r, t)
  <2> DEFINE read     == [xform[r][t] EXCEPT !.pc = "read", !.snap = silver[t].recs]
             new      == NewRecords(xform[r][t].snap, watermark[t])
             filtered == [xform[r][t] EXCEPT
                            !.pc = IF new = {} THEN "success" ELSE "filtered",
                            !.snap = {}, !.new = new]
             claimed  == [xform[r][t] EXCEPT !.pc = "claimed"]
             ended    == [xform[r][t] EXCEPT !.pc = "success"]
  <2>1. /\ read.rows = xform[r][t].rows /\ read.pc # "aggregated"
        /\ claimed.rows = xform[r][t].rows /\ claimed.pc # "aggregated"
        /\ ended.rows = xform[r][t].rows /\ ended.pc # "aggregated"
    BY <1>0 DEF Xform
  <2>2. filtered.rows = xform[r][t].rows /\ filtered.pc # "aggregated"
    BY <1>0 DEF Xform
  <2>3. /\ \/ SetXform(r, t, read) \/ SetXform(r, t, filtered)
           \/ SetXform(r, t, claimed) \/ SetXform(r, t, ended)
        /\ UNCHANGED <<clock, goldFile, blob, table>>
    BY <1>1 DEF ReadSilver, FilterNewRecords, UpdateProcessed, XformSucceeds,
                loadVars
  <2> HIDE DEF read, filtered, claimed, ended
  <2> QED
    BY <2>1, <2>2, <2>3, KeepRowsUnique
<1>2. CASE ReadSilverRaises(r, t) \/ ValidateRaises(r, t) \/ ReadGoldRaises(r, t)
  BY <1>2, FailXformUnique DEF ReadSilverRaises, ValidateRaises, ReadGoldRaises
<1>3. CASE ValidateAndAggregate(r, t)
  <2> DEFINE agg  == Aggregate(xform[r][t].new, clock[t] + 1)
             task == [xform[r][t] EXCEPT !.pc = "aggregated", !.new = {},
                                         !.rows = agg]
  <2>1. xform[r][t].new \in SUBSET Rec /\ clock[t] + 1 \in Nat
    BY <1>0 DEF Xform
  <2>2. OnePerGroup(agg) /\ \A w \in agg : w.stamp = clock[t] + 1
    BY <2>1, AggregateUnique
  <2>3. /\ SetXform(r, t, task) /\ UNCHANGED <<goldFile, blob, table>>
        /\ clock' = [clock EXCEPT ![t] = @ + 1]
    BY <1>3 DEF ValidateAndAggregate, loadVars
  <2>4. clock'[t] = clock[t] + 1 /\ \A u \in Tables \ {t} : clock'[u] = clock[u]
    BY <2>3 DEF TypeOK
  <2> HIDE DEF agg
  <2>5. task.rows = agg
    BY <1>0 DEF Xform
  <2> HIDE DEF task
  <2>6. RowsMoved(r, t, task)
    BY <1>0, <2>2, <2>3, <2>4, <2>5 DEF RowsMoved
  <2> QED
    BY <2>6, RowsMovedUnique
<1>4. CASE ReadGoldAndMerge(r, t)
  <2> DEFINE agg  == xform[r][t].rows
             rows == IF goldFile[t].kind = "absent" THEN agg
                     ELSE MergeGold(goldFile[t].rows, agg)
             task == [xform[r][t] EXCEPT !.pc = "merged", !.rows = rows]
  <2>1. /\ SetXform(r, t, task) /\ UNCHANGED <<clock, goldFile, blob, table>>
        /\ xform[r][t].pc = "aggregated"
    BY <1>4 DEF ReadGoldAndMerge, XformAt, loadVars
  <2>2. agg \in SUBSET Row /\ goldFile[t].rows \in SUBSET Row
    BY <1>0 DEF Xform, File
  <2>3. OnePerGroup(agg) /\ OnePerGroup(goldFile[t].rows)
        /\ \A v \in goldFile[t].rows, w \in agg : v.stamp # w.stamp
    BY <1>0, <2>1 DEF UniqueTask, UniqueFile, FreshTask
  <2>4. OnePerGroup(rows)
    BY <2>2, <2>3, MergeUnique
  <2>5. rows \subseteq goldFile[t].rows \cup agg
    BY DEF MergeGold
  <2> HIDE DEF rows
  <2>6. task.rows = rows /\ task.pc = "merged"
    BY <1>0 DEF Xform
  <2> HIDE DEF task
  <2>7. clock' = clock /\ goldFile' = goldFile
    BY <2>1
  <2>8. RowsMoved(r, t, task)
    BY <1>0, <2>1, <2>4, <2>5, <2>6, <2>7 DEF RowsMoved
  <2> QED
    BY <2>8, RowsMovedUnique
<1>5. CASE OpenGold(r, t)
  <2> DEFINE task == [xform[r][t] EXCEPT !.pc = "writing"]
             f    == [kind |-> "torn", rows |-> {}, sole |-> Writing(t) = {}]
  <2>1. /\ SetXform(r, t, task) /\ UNCHANGED <<clock, blob, table>>
        /\ goldFile' = [goldFile EXCEPT ![t] = f]
    BY <1>5 DEF OpenGold, loadVars
  <2>2. f.rows = {}
    OBVIOUS
  <2>3. task.rows = xform[r][t].rows /\ task.pc = "writing"
    BY <1>0 DEF Xform
  <2> HIDE DEF task, f
  <2>4. /\ goldFile'[t].rows = {} /\ clock' = clock
        /\ \A u \in Tables \ {t} : goldFile'[u] = goldFile[u]
    BY <2>1, <2>2 DEF TypeOK
  <2>5. RowsMoved(r, t, task)
    BY <1>0, <2>1, <2>3, <2>4 DEF RowsMoved, UniqueTask
  <2> QED
    BY <2>5, RowsMovedUnique
<1>6. CASE CloseGold(r, t)
  <2> DEFINE task == [xform[r][t] EXCEPT !.pc = "written", !.rows = {}]
             good == [goldFile[t] EXCEPT !.kind = "ok", !.rows = xform[r][t].rows]
             mix  == [goldFile[t] EXCEPT !.kind = "torn", !.rows = {}]
  <2>1. /\ SetXform(r, t, task) /\ UNCHANGED <<clock, blob, table>>
        /\ \/ goldFile' = [goldFile EXCEPT ![t] = good]
           \/ goldFile' = [goldFile EXCEPT ![t] = mix]
    BY <1>6 DEF CloseGold, loadVars
  <2>2. good.rows = xform[r][t].rows /\ mix.rows = {}
    BY <1>0 DEF File
  <2>3. task.rows = {} /\ task.pc = "written"
    BY <1>0 DEF Xform
  <2> HIDE DEF task, good, mix
  <2>4. /\ goldFile'[t].rows \in {{}, xform[r][t].rows} /\ clock' = clock
        /\ \A u \in Tables \ {t} : goldFile'[u] = goldFile[u]
    BY <2>1, <2>2 DEF TypeOK
  <2>5. RowsMoved(r, t, task)
    BY <1>0, <2>1, <2>3, <2>4 DEF RowsMoved, OnePerGroup
  <2> QED
    BY <2>5, RowsMovedUnique
<1> QED
  BY <1>1, <1>2, <1>3, <1>4, <1>5, <1>6 DEF XformStep

LEMMA LoadStepUnique ==
  ASSUME TypeOK, UniqueInv, NEW r \in Runs, LoadStep(r) \/ LoadCrashes(r)
  PROVE  UniqueInv'
<1> DEFINE t == Current(r)
<1>1. UNCHANGED <<clock, goldFile, xform>>
  BY LoadEffect
<1>2. /\ \A u \in Tables : UniqueFile(u)'
      /\ \A q \in Runs, u \in Tables : UniqueTask(u, xform[q][u])' /\ FreshTask(q, u)'
  BY <1>1 DEF UniqueInv, UniqueFile, UniqueTask, FreshTask
<1>3. \A u \in Tables : OnePerGroup(goldFile[u].rows) /\ OnePerGroup(blob[u].rows)
  BY DEF UniqueInv, UniqueFile
<1>4. CASE UploadToBlob(r)
  <2>1. /\ table' = table
        /\ blob' = [blob EXCEPT ![t] = [goldFile[t] EXCEPT !.sole = TRUE]]
    BY <1>4 DEF UploadToBlob
  <2>2. ASSUME NEW u \in Tables PROVE OnePerGroup(blob'[u].rows)
    <3>1. CASE u = t
      <4>1. goldFile[u] \in File /\ blob'[u] = [goldFile[u] EXCEPT !.sole = TRUE]
        BY <2>1, <3>1 DEF TypeOK
      <4>2. [goldFile[u] EXCEPT !.sole = TRUE].rows = goldFile[u].rows
        BY <4>1 DEF File
      <4> QED
        BY <1>3, <4>1, <4>2
    <3>2. CASE u # t
      BY <1>3, <2>1, <3>2 DEF TypeOK
    <3> QED
      BY <3>1, <3>2
  <2>3. FullLoadExact'
    BY <2>1 DEF UniqueInv, FullLoadExact
  <2> QED
    BY <1>2, <2>2, <2>3 DEF UniqueInv, OnePerGroup
<1>5. CASE CopyInto(r)
  <2> DEFINE copied == [row : blob[t].rows \ Refused(blob[t].rows),
                           by : {<<r, load[r].try>>}]
  <2>1. blob' = blob /\ table' = [table EXCEPT ![t] = KeptRows(t) \cup copied]
    BY <1>5 DEF CopyInto
  <2>2. ASSUME NEW u \in FullLoad, NEW s1 \in table'[u], NEW s2 \in table'[u],
               s1.row.group = s2.row.group
        PROVE  s1 = s2
    <3>0. u \in Tables
      BY TablesAssumption
    <3>1. CASE u = t
      <4>1. s1 \in copied /\ s2 \in copied
        BY <2>1, <2>2, <3>0, <3>1 DEF TypeOK, KeptRows
      <4>2. s1.row = s2.row
        BY <1>3, <2>2, <3>0, <3>1, <4>1 DEF OnePerGroup
      <4> QED
        BY <4>1, <4>2
    <3>2. CASE u # t
      BY <2>1, <2>2, <3>0, <3>2 DEF TypeOK, UniqueInv, FullLoadExact
    <3> QED
      BY <3>1, <3>2
  <2>3. FullLoadExact'
    BY <2>2 DEF FullLoadExact
  <2> QED
    BY <1>2, <1>3, <2>1, <2>3 DEF UniqueInv, OnePerGroup
<1>6. CASE ~UploadToBlob(r) /\ ~CopyInto(r)
  <2>1. UNCHANGED <<blob, table>>
    BY <1>6 DEF LoadStep, LoadCrashes, UploadRaises, CopyRaises, FailLoad,
                UpstreamFailed, CreatePartitions, LoadSucceeds
  <2> QED
    BY <1>2, <1>3, <2>1 DEF UniqueInv, OnePerGroup, FullLoadExact
<1> QED
  BY <1>4, <1>5, <1>6

LEMMA UniqueStep == TypeOK /\ UniqueInv /\ [Next]_vars => UniqueInv'
<1> SUFFICES ASSUME TypeOK, UniqueInv, [Next]_vars PROVE UniqueInv'
  OBVIOUS
<1>0. TypeOK'
  BY TypeStep
<1>1. CASE UNCHANGED <<goldFile, blob, table, xform, clock>>
  BY <1>1 DEF UniqueInv, UniqueFile, UniqueTask, FreshTask, OnePerGroup,
              FullLoadExact
<1>2. ASSUME NEW t \in Tables, OpenSilver(t) \/ CloseSilver(t)
      PROVE  UniqueInv'
  BY <1>1, <1>2 DEF OpenSilver, CloseSilver, loadVars
<1>3. ASSUME NEW r \in Runs, StartRun(r) PROVE UniqueInv'
  BY <1>1, <1>3 DEF StartRun, loadVars
<1>4. ASSUME NEW r \in Runs, RunStep(r) \/ LoadCrashes(r) PROVE UniqueInv'
  BY <1>0, <1>4, XformStepUnique, LoadStepUnique DEF RunStep
<1>5. ASSUME NEW r \in Runs, NEW t \in Tables, XformCrashes(r, t)
      PROVE  UniqueInv'
  BY <1>0, <1>5, FailXformUnique DEF XformCrashes
<1>6. ASSUME UNCHANGED vars PROVE UniqueInv'
  BY <1>1, <1>6 DEF vars
<1> QED
  BY <1>2, <1>3, <1>4, <1>5, <1>6 DEF Next

LEMMA UniqueAlways == Spec => [](TypeOK /\ UniqueInv)
BY TypeInit, TypeStep, UniqueInit, UniqueStep, PTL DEF Spec

\* However runs overlap and attempts die, a Gold file has at most one row per
\* key, made of rows of that key that filter_new_records handed out.
THEOREM GoldSound == Spec => []GoldRowsSound
<1>1. SoundInv /\ UniqueInv => GoldRowsSound
  BY DEF SoundInv, SoundRows, Sound, UniqueInv, UniqueFile, GoldRowsSound
<1> QED
  BY <1>1, SoundAlways, UniqueAlways, PTL

\* A full load never leaves two rows of one key in its Synapse table, with
\* retried and overlapping loads (synapse_loader.load_table's TRUNCATE + COPY).
THEOREM FullLoadIsExact == Spec => []FullLoadExact
<1>1. UniqueInv => FullLoadExact
  BY DEF UniqueInv
<1> QED
  BY <1>1, UniqueAlways, PTL

-----------------------------------------------------------------------------
(* Runs that overlap: what has been claimed can be accounted for           *)

\* Of every row of the Gold file rows has the row itself or a newer one of its
\* key.
Covers(rows, t) ==
  \A w \in goldFile[t].rows :
    w \in rows \/ \E v \in rows : v.group = w.group /\ v.stamp > w.stamp

\* A task has no rows before it aggregates, and has what the file has when it
\* is about to write, unless the file has changed since it read it.
TaskReady(r, t) ==
  /\ xform[r][t].pc \in {"none", "read", "filtered", "claimed"} =>
       xform[r][t].rows = {}
  /\ xform[r][t].pc = "merged" /\ <<r, t>> \notin stale =>
       Covers(xform[r][t].rows, t)

\* A task that has the Gold file to itself while it writes.
WriterReady(r, t) ==
  xform[r][t].pc = "writing" /\ goldFile[t].sole =>
    /\ goldFile[t].rows = {}
    /\ \A q \in Runs \ {r} : xform[q][t].pc # "writing"

\* What the steps that write the Gold file rely on.
FilesInv ==
  /\ \A t \in Tables : goldFile[t].kind # "ok" => goldFile[t].rows = {}
  /\ \A r \in Runs, t \in Tables : TaskReady(r, t) /\ WriterReady(r, t)

\* The inductive invariant of the accounts.
AccountInv == TypeOK /\ UniqueInv /\ FilesInv /\ RowsAccounted

LEMMA AccountInit == Init => FilesInv /\ RowsAccounted
<1> SUFFICES ASSUME Init PROVE FilesInv /\ RowsAccounted
  OBVIOUS
<1>1. \A r \in Runs, t \in Tables : xform[r][t].pc = "none" /\ xform[r][t].rows = {}
  BY DEF Init, NewXform
<1>2. \A t \in Tables : goldFile[t].rows = {} /\ handed[t] = {}
  BY DEF Init, NoFile
<1> QED
  BY <1>1, <1>2 DEF FilesInv, TaskReady, WriterReady, RowsAccounted

\* drop_duplicates drops a row only for a newer one of its key that stays.
LEMMA MergeCovers ==
  ASSUME NEW A \in SUBSET Row, NEW B \in SUBSET Row, OnePerGroup(A), OnePerGroup(B),
         NEW w \in A \cup B, w \notin MergeGold(A, B)
  PROVE  \E v \in MergeGold(A, B) : v.group = w.group /\ v.stamp > w.stamp
<1>1. \A v \in A \cup B : v.stamp \in Nat
  BY DEF Row
<1>2. PICK v \in A \cup B : v.group = w.group /\ v.stamp > w.stamp
  BY <1>1 DEF MergeGold
<1>3. \A u \in A \cup B : u.group = w.group => u = v \/ u = w
  BY <1>1, <1>2 DEF OnePerGroup
<1>4. \A u \in A \cup B : u.group = v.group => u.stamp <= v.stamp
  BY <1>1, <1>2, <1>3
<1>5. v \in MergeGold(A, B)
  BY <1>4 DEF MergeGold
<1> QED
  BY <1>2, <1>5

\* Every row that has a key is in the aggregate of its key.
LEMMA AggregateHas ==
  ASSUME NEW S \in SUBSET Rec, NEW n, NEW x \in S, x \notin Keyless
  PROVE  x \in RecsOf(Aggregate(S, n))
<1> DEFINE row(g) == [group |-> g, recs |-> {y \in S \ Keyless : GroupOf[y] = g},
                      stamp |-> n]
<1>1. row(GroupOf[x]) \in Aggregate(S, n) /\ x \in row(GroupOf[x]).recs
  BY DEF Aggregate
<1> QED
  BY <1>1 DEF RecsOf

\* A task step that leaves the Gold file alone.
LEMMA FilesStay ==
  ASSUME TypeOK, FilesInv, NEW r \in Runs, NEW t \in Tables, NEW task,
         SetXform(r, t, task), goldFile' = goldFile, stale \ {<<r, t>>} \subseteq stale',
         task.pc # "writing", task.pc = "merged" => Covers(task.rows, t),
         task.pc \in {"none", "read", "filtered", "claimed"} => task.rows = {}
  PROVE  FilesInv'
<1>1. /\ xform'[r][t] = task
      /\ \A q \in Runs, u \in Tables : q # r \/ u # t => xform'[q][u] = xform[q][u]
  BY XformElsewhere
<1>2. ASSUME NEW q \in Runs, NEW u \in Tables
      PROVE  TaskReady(q, u)' /\ WriterReady(q, u)'
  <2>1. CASE q = r /\ u = t
    BY <1>1, <2>1 DEF TaskReady, WriterReady, Covers
  <2>2. CASE q # r \/ u # t
    <3>1. /\ xform'[q][u] = xform[q][u] /\ TaskReady(q, u) /\ WriterReady(q, u)
          /\ <<q, u>> # <<r, t>>
      BY <1>1, <2>2 DEF FilesInv
    <3>2. TaskReady(q, u)'
      BY <3>1 DEF TaskReady, Covers
    <3>3. WriterReady(q, u)'
      BY <1>1, <3>1 DEF WriterReady
    <3> QED
      BY <3>2, <3>3
  <2> QED
    BY <2>1, <2>2
<1> QED
  BY <1>2 DEF FilesInv

\* A task step that writes the Gold file: no other task about to write has read
\* what it holds now.
LEMMA FilesWritten ==
  ASSUME TypeOK, FilesInv, NEW r \in Runs, NEW t \in Tables, NEW task, NEW f,
         SetXform(r, t, task), goldFile' = [goldFile EXCEPT ![t] = f],
         OthersStale(r, t), f.kind # "ok" => f.rows = {},
         task.pc \in {"writing", "written"},
         task.pc = "writing" => f.rows = {} /\ f.sole = (Writing(t) = {}),
         task.pc = "written" => xform[r][t].pc = "writing" /\ f.sole = goldFile[t].sole
  PROVE  FilesInv'
<1>1. /\ xform'[r][t] = task
      /\ \A q \in Runs, u \in Tables : q # r \/ u # t => xform'[q][u] = xform[q][u]
  BY XformElsewhere
<1>2. goldFile'[t] = f /\ \A u \in Tables \ {t} : goldFile'[u] = goldFile[u]
  BY DEF TypeOK
<1>3. ASSUME NEW q \in Runs, NEW u \in Tables
      PROVE  TaskReady(q, u)' /\ WriterReady(q, u)'
  <2>0. TaskReady(q, u) /\ WriterReady(q, u)
    BY DEF FilesInv
  <2>1. CASE u # t
    <3>1. /\ goldFile'[u] = goldFile[u] /\ \A p \in Runs : xform'[p][u] = xform[p][u]
          /\ <<q, u>> \in stale => <<q, u>> \in stale'
          /\ <<q, u>> \in stale' => <<q, u>> \in stale
      BY <1>1, <1>2, <2>1 DEF OthersStale
    <3>2. TaskReady(q, u)'
      BY <2>0, <3>1 DEF TaskReady, Covers
    <3>3. WriterReady(q, u)'
      BY <2>0, <3>1 DEF WriterReady
    <3> QED
      BY <3>2, <3>3
  <2>2. CASE u = t /\ q = r
    <3>1. TaskReady(q, u)'
      BY <1>1, <2>2 DEF TaskReady
    <3>2. task.pc = "writing" /\ f.sole => \A p \in Runs \ {r} : xform[p][t].pc # "writing"
      BY DEF Writing
    <3>3. WriterReady(q, u)'
      BY <1>1, <1>2, <2>2, <3>2 DEF WriterReady
    <3> QED
      BY <3>1, <3>3
  <2>3. CASE u = t /\ q # r
    <3>1. xform'[q][t] = xform[q][t]
      BY <1>1, <2>3
    <3>2. xform[q][t].pc = "merged" => <<q, t>> \in stale'
      BY <2>3 DEF OthersStale
    <3>3. TaskReady(q, u)'
      BY <2>0, <2>3, <3>1, <3>2 DEF TaskReady
    <3>4. xform[q][t].pc = "writing" => ~f.sole
      <4>1. CASE task.pc = "writing"
        BY <4>1 DEF Writing
      <4>2. CASE task.pc = "written"
        BY <2>0, <2>3, <4>2 DEF WriterReady
      <4> QED
        BY <4>1, <4>2
    <3>5. WriterReady(q, u)'
      BY <1>2, <2>3, <3>1, <3>4 DEF WriterReady
    <3> QED
      BY <3>3, <3>5
  <2> QED
    BY <2>1, <2>2, <2>3
<1>4. \A u \in Tables : goldFile'[u].kind # "ok" => goldFile'[u].rows = {}
  BY <1>2 DEF FilesInv
<1> QED
  BY <1>3, <1>4 DEF FilesInv

\* The rows of a table that a task, the Gold file or the losses have.
Holding(rows, task, losses) == RecsOf(rows) \cup InHand(task) \cup losses

\* A task step moves rows of its own table only.
LEMMA AccountStays ==
  ASSUME TypeOK, RowsAccounted, NEW r \in Runs, NEW t \in Tables, NEW task,
         SetXform(r, t, task),
         \A u \in Tables \ {t} : /\ handed'[u] = handed[u] /\ lost'[u] = lost[u]
                                 /\ goldFile'[u] = goldFile[u],
         \A x \in handed'[t] :
           \/ x \in Holding(goldFile'[t].rows, task, lost'[t])
           \/ x \in handed[t] \ Holding(goldFile[t].rows, xform[r][t], lost[t])
  PROVE  RowsAccounted'
<1>1. /\ xform'[r][t] = task
      /\ \A q \in Runs, u \in Tables : q # r \/ u # t => xform'[q][u] = xform[q][u]
  BY XformElsewhere
<1>2. ASSUME NEW u \in Tables, NEW x \in handed'[u]
      PROVE  \/ x \in RecsOf(goldFile'[u].rows)
             \/ \E q \in Runs : x \in InHand(xform'[q][u])
             \/ x \in lost'[u]
  <2>1. CASE u # t
    <3>1. /\ x \in handed[u] /\ lost'[u] = lost[u] /\ goldFile'[u] = goldFile[u]
          /\ \A q \in Runs : xform'[q][u] = xform[q][u]
      BY <1>1, <1>2, <2>1
    <3> QED
      BY <3>1 DEF RowsAccounted, InGold
  <2>2. CASE u = t /\ x \in Holding(goldFile'[t].rows, task, lost'[t])
    BY <1>1, <2>2 DEF Holding
  <2>3. CASE u = t /\ x \in handed[t] \ Holding(goldFile[t].rows, xform[r][t], lost[t])
    <3>1. PICK q \in Runs : x \in InHand(xform[q][t])
      BY <2>3 DEF RowsAccounted, InGold, Holding
    <3>2. q # r
      BY <2>3, <3>1 DEF Holding
    <3> QED
      BY <1>1, <2>3, <3>1, <3>2
  <2> QED
    BY <1>2, <2>1, <2>2, <2>3
<1> QED
  BY <1>2 DEF RowsAccounted, InGold

\* A failed attempt lets go of what it had.
LEMMA FailXformAccount ==
  ASSUME AccountInv, NEW r \in Runs, NEW t \in Tables, FailXform(r, t)
  PROVE  FilesInv' /\ RowsAccounted'
<1> DEFINE task == XformAfterFailure(xform[r][t])
<1>0. TypeOK /\ FilesInv /\ RowsAccounted
  BY DEF AccountInv
<1>1. task.pc \in {"none", "failed"} /\ task.rows = {}
  BY DEF XformAfterFailure, NewXform
<1>2. /\ SetXform(r, t, task) /\ goldFile' = goldFile /\ handed' = handed
      /\ stale' = stale \ {<<r, t>>}
      /\ lost' = [lost EXCEPT ![t] = @ \cup (InHand(xform[r][t]) \ InGold(t))]
  BY DEF FailXform, cdcVars, Lose
<1> HIDE DEF task
<1>3. FilesInv'
  BY <1>0, <1>1, <1>2, FilesStay
<1>4. /\ lost'[t] = lost[t] \cup (InHand(xform[r][t]) \ RecsOf(goldFile[t].rows))
      /\ \A u \in Tables \ {t} : lost'[u] = lost[u]
  BY <1>0, <1>2 DEF TypeOK, InGold
<1>5. RowsAccounted'
  BY <1>0, <1>2, <1>4, AccountStays DEF Holding
<1> QED
  BY <1>3, <1>5

LEMMA MergeAccount ==
  ASSUME AccountInv, NEW r \in Runs, NEW t \in Tables, ReadGoldAndMerge(r, t)
  PROVE  FilesInv' /\ RowsAccounted'
<1> DEFINE agg  == xform[r][t].rows
           gold == goldFile[t].rows
           rows == IF goldFile[t].kind = "absent" THEN agg ELSE MergeGold(gold, agg)
           task == [xform[r][t] EXCEPT !.pc = "merged", !.rows = rows]
<1>0. /\ TypeOK /\ FilesInv /\ RowsAccounted /\ xform[r][t] \in Xform
      /\ agg \in SUBSET Row /\ gold \in SUBSET Row
  BY DEF AccountInv, TypeOK, Xform, File
<1>u. /\ OnePerGroup(gold) /\ OnePerGroup(agg)
      /\ goldFile[t].kind = "absent" => gold = {}
  BY <1>0 DEF AccountInv, UniqueInv, UniqueFile, UniqueTask, FilesInv
<1>1. /\ SetXform(r, t, task) /\ goldFile' = goldFile /\ handed' = handed
      /\ xform[r][t].pc = "aggregated" /\ stale' = stale \ {<<r, t>>}
      /\ lost' = [lost EXCEPT ![t] = @ \cup Superseded(agg, gold)]
  BY DEF ReadGoldAndMerge, XformAt, cdcVars, Lose
<1>2. ASSUME NEW w \in gold \cup agg, w \notin rows
      PROVE  \E v \in rows : v.group = w.group /\ v.stamp > w.stamp
  BY <1>0, <1>u, <1>2, MergeCovers
<1>3. rows \subseteq gold \cup agg
  BY DEF MergeGold
<1> HIDE DEF rows
<1>4. task.pc = "merged" /\ task.rows = rows
  BY <1>0 DEF Xform
<1> HIDE DEF task
<1>5. FilesInv'
  <2>1. Covers(task.rows, t)
    BY <1>2, <1>4 DEF Covers
  <2> QED
    BY <1>0, <1>1, <1>4, <2>1, FilesStay
<1>6. ASSUME NEW x \in RecsOf(agg)
      PROVE  x \in RecsOf(rows) \cup Superseded(agg, gold)
  <2>1. PICK w \in agg : x \in w.recs
    BY <1>6 DEF RecsOf
  <2>2. CASE w \in rows
    BY <2>1, <2>2 DEF RecsOf
  <2>3. CASE w \notin rows
    <3>1. PICK v \in rows : v.group = w.group /\ v.stamp > w.stamp
      BY <1>2, <2>1, <2>3
    <3>2. v \in gold
      BY <1>u, <1>3, <2>1, <2>3, <3>1 DEF OnePerGroup
    <3>3. w \in {u \in agg : \E z \in gold : u.group = z.group /\ z.stamp > u.stamp}
      BY <2>1, <3>1, <3>2
    <3> QED
      BY <2>1, <3>1, <3>2 DEF Superseded, RecsOf
  <2> QED
    BY <2>2, <2>3
<1>7. /\ InHand(xform[r][t]) = RecsOf(agg) /\ InHand(task) = RecsOf(rows)
  BY <1>1, <1>4 DEF InHand
<1>8. /\ lost'[t] = lost[t] \cup Superseded(agg, gold)
      /\ \A u \in Tables \ {t} : lost'[u] = lost[u]
  BY <1>0, <1>1 DEF TypeOK
<1>9. RowsAccounted'
  BY <1>0, <1>1, <1>6, <1>7, <1>8, AccountStays DEF Holding
<1> QED
  BY <1>5, <1>9

\* Opening the file for writing empties it: what it held is in the task, has
\* been superseded, or is counted as lost because the task's copy is stale.
LEMMA OpenGoldAccount ==
  ASSUME AccountInv, NEW r \in Runs, NEW t \in Tables, OpenGold(r, t)
  PROVE  FilesInv' /\ RowsAccounted'
<1> DEFINE task == [xform[r][t] EXCEPT !.pc = "writing"]
           f    == [kind |-> "torn", rows |-> {}, sole |-> Writing(t) = {}]
           gold == goldFile[t].rows
           gone == Superseded(gold, xform[r][t].rows)
                     \cup {x \in OnlyInGold(r, t) : <<r, t>> \in stale}
<1>0. /\ TypeOK /\ FilesInv /\ RowsAccounted /\ xform[r][t] \in Xform
      /\ TaskReady(r, t)
  BY DEF AccountInv, TypeOK, FilesInv
<1>1. /\ SetXform(r, t, task) /\ goldFile' = [goldFile EXCEPT ![t] = f]
      /\ handed' = handed /\ xform[r][t].pc = "merged" /\ OthersStale(r, t)
      /\ lost' = [lost EXCEPT ![t] = @ \cup gone]
  BY DEF OpenGold, XformAt, cdcVars, Lose
<1>2. task.pc = "writing" /\ task.rows = xform[r][t].rows
  BY <1>0 DEF Xform
<1>3. f.kind = "torn" /\ f.rows = {} /\ f.sole = (Writing(t) = {})
  OBVIOUS
<1>4. ASSUME NEW x \in RecsOf(gold)
      PROVE  x \in RecsOf(xform[r][t].rows) \cup gone
  <2>1. PICK w \in gold : x \in w.recs
    BY <1>4 DEF RecsOf
  <2>2. CASE <<r, t>> \in stale
    BY <1>4, <2>2 DEF OnlyInGold, InGold
  <2>3. CASE <<r, t>> \notin stale
    <3>1. \/ w \in xform[r][t].rows
          \/ \E v \in xform[r][t].rows : v.group = w.group /\ v.stamp > w.stamp
      BY <1>0, <1>1, <2>1, <2>3 DEF TaskReady, Covers
    <3> QED
      BY <2>1, <3>1 DEF RecsOf, Superseded
  <2> QED
    BY <2>2, <2>3
<1> HIDE DEF task, f, gone
<1>5. FilesInv'
  BY <1>0, <1>1, <1>2, <1>3, FilesWritten
<1>6. InHand(xform[r][t]) = RecsOf(xform[r][t].rows) /\ InHand(task) = RecsOf(xform[r][t].rows)
  BY <1>1, <1>2 DEF InHand
<1>7. /\ lost'[t] = lost[t] \cup gone /\ goldFile'[t] = f
      /\ \A u \in Tables \ {t} : lost'[u] = lost[u] /\ goldFile'[u] = goldFile[u]
  BY <1>0, <1>1 DEF TypeOK
<1>8. RowsAccounted'
  BY <1>0, <1>1, <1>4, <1>6, <1>7, AccountStays DEF Holding
<1> QED
  BY <1>5, <1>8

\* A writer that has the file to itself leaves what it had merged; of two that
\* had it open together what does not survive is counted as lost.
LEMMA CloseGoldAccount ==
  ASSUME AccountInv, NEW r \in Runs, NEW t \in Tables, CloseGold(r, t)
  PROVE  FilesInv' /\ RowsAccounted'
<1> DEFINE task == [xform[r][t] EXCEPT !.pc = "written", !.rows = {}]
           good == [goldFile[t] EXCEPT !.kind = "ok", !.rows = xform[r][t].rows]
           mix  == [goldFile[t] EXCEPT !.kind = "torn", !.rows = {}]
           gone == {x \in OnlyInGold(r, t) : ~goldFile[t].sole}
           all  == InGold(t) \cup InHand(xform[r][t])
<1>0. /\ TypeOK /\ FilesInv /\ RowsAccounted /\ xform[r][t] \in Xform
      /\ goldFile[t] \in File /\ WriterReady(r, t)
  BY DEF AccountInv, TypeOK, FilesInv
<1>1. /\ SetXform(r, t, task) /\ handed' = handed /\ OthersStale(r, t)
      /\ xform[r][t].pc = "writing"
      /\ \/ /\ goldFile' = [goldFile EXCEPT ![t] = good]
            /\ lost' = [lost EXCEPT ![t] = @ \cup gone]
         \/ /\ goldFile' = [goldFile EXCEPT ![t] = mix]
            /\ lost' = [lost EXCEPT ![t] = @ \cup all]
  BY DEF CloseGold, XformAt, cdcVars, Lose
<1>2. task.pc = "written" /\ task.rows = {}
  BY <1>0 DEF Xform
<1>3. /\ good.kind = "ok" /\ good.rows = xform[r][t].rows /\ good.sole = goldFile[t].sole
      /\ mix.kind = "torn" /\ mix.rows = {} /\ mix.sole = goldFile[t].sole
  BY <1>0 DEF File
<1>4. /\ InHand(xform[r][t]) = RecsOf(xform[r][t].rows) /\ InGold(t) = RecsOf(goldFile[t].rows)
  BY <1>1 DEF InHand, InGold
<1>5. RecsOf(goldFile[t].rows) \subseteq RecsOf(xform[r][t].rows) \cup gone
  <2>1. CASE goldFile[t].sole
    BY <1>0, <1>1, <2>1 DEF WriterReady, RecsOf
  <2>2. CASE ~goldFile[t].sole
    BY <2>2 DEF OnlyInGold, InGold
  <2> QED
    BY <2>1, <2>2
<1> HIDE DEF task, good, mix, gone, all
<1>6. FilesInv'
  BY <1>0, <1>1, <1>2, <1>3, FilesWritten
<1>7. CASE goldFile' = [goldFile EXCEPT ![t] = good] /\ lost' = [lost EXCEPT ![t] = @ \cup gone]
  <2>1. /\ lost'[t] = lost[t] \cup gone /\ goldFile'[t] = good
        /\ \A u \in Tables \ {t} : lost'[u] = lost[u] /\ goldFile'[u] = goldFile[u]
    BY <1>0, <1>7 DEF TypeOK
  <2>2. RowsAccounted'
    BY <1>0, <1>1, <1>3, <1>4, <1>5, <2>1, AccountStays DEF Holding
  <2> QED
    BY <1>6, <2>2
<1>8. CASE goldFile' = [goldFile EXCEPT ![t] = mix] /\ lost' = [lost EXCEPT ![t] = @ \cup all]
  <2>1. /\ lost'[t] = lost[t] \cup all
        /\ \A u \in Tables \ {t} : lost'[u] = lost[u] /\ goldFile'[u] = goldFile[u]
    BY <1>0, <1>8 DEF TypeOK
  <2>2. all = RecsOf(goldFile[t].rows) \cup InHand(xform[r][t])
    BY <1>4 DEF all
  <2>3. RowsAccounted'
    BY <1>0, <1>1, <2>1, <2>2, AccountStays DEF Holding
  <2> QED
    BY <1>6, <2>3
<1> QED
  BY <1>1, <1>7, <1>8

LEMMA XformStepAccount ==
  ASSUME AccountInv, NEW r \in Runs, NEW t \in Tables, XformStep(r, t)
  PROVE  FilesInv' /\ RowsAccounted'
<1>0. /\ TypeOK /\ FilesInv /\ RowsAccounted /\ xform[r][t] \in Xform /\ TaskReady(r, t)
      /\ xform[r][t].new \in SUBSET Rec
  BY DEF AccountInv, TypeOK, FilesInv, Xform
<1>1. CASE ReadSilver(r, t) \/ FilterNewRecords(r, t) \/ XformSucceeds(r, t)
  <2> DEFINE new      == NewRecords(xform[r][t].snap, watermark[t])
             read     == [xform[r][t] EXCEPT !.pc = "read", !.snap = silver[t].recs]
             filtered == [xform[r][t] EXCEPT
                            !.pc = IF new = {} THEN "success" ELSE "filtered",
                            !.snap = {}, !.new = new]
             ended    == [xform[r][t] EXCEPT !.pc = "success"]
  <2>1. PICK task : /\ SetXform(r, t, task)
                    /\ UNCHANGED <<goldFile, handed, lost, stale>>
                    /\ \/ task \in {read, filtered} /\ xform[r][t].pc \in {"none", "read"}
                       \/ task = ended /\ xform[r][t].pc = "written"
    BY <1>1 DEF ReadSilver, FilterNewRecords, XformSucceeds, XformAt, cdcVars, lossVars
  <2>2. /\ read.pc = "read" /\ read.rows = xform[r][t].rows
        /\ filtered.pc \in {"success", "filtered"} /\ filtered.rows = xform[r][t].rows
        /\ ended.pc = "success" /\ ended.rows = xform[r][t].rows
    BY <1>0 DEF Xform
  <2> HIDE DEF read, filtered, ended
  <2>3. /\ task.rows = xform[r][t].rows /\ task.pc \in {"read", "filtered", "success"}
        /\ task.pc \in {"read", "filtered"} => task.rows = {}
    BY <1>0, <2>1, <2>2 DEF TaskReady
  <2>4. FilesInv'
    BY <1>0, <2>1, <2>3, FilesStay
  <2>5. InHand(task) = InHand(xform[r][t])
    BY <2>1, <2>3 DEF InHand
  <2>6. RowsAccounted'
    BY <1>0, <2>1, <2>5, AccountStays DEF Holding
  <2> QED
    BY <2>4, <2>6
<1>2. CASE UpdateProcessed(r, t)
  <2> DEFINE new  == xform[r][t].new
             task == [xform[r][t] EXCEPT !.pc = "claimed"]
  <2>1. /\ SetXform(r, t, task) /\ goldFile' = goldFile /\ stale' = stale
        /\ handed' = [handed EXCEPT ![t] = @ \cup new]
        /\ lost' = [lost EXCEPT ![t] = @ \ new]
        /\ xform[r][t].pc = "filtered"
    BY <1>2 DEF UpdateProcessed, XformAt
  <2>2. task.pc = "claimed" /\ task.rows = xform[r][t].rows /\ task.new = new
    BY <1>0 DEF Xform
  <2>3. xform[r][t].rows = {}
    BY <1>0, <2>1 DEF TaskReady
  <2> HIDE DEF task
  <2>4. FilesInv'
    BY <1>0, <2>1, <2>2, <2>3, FilesStay
  <2>5. new \subseteq InHand(task) /\ InHand(xform[r][t]) = {}
    BY <2>1, <2>2, <2>3 DEF InHand, RecsOf
  <2>6. /\ handed'[t] = handed[t] \cup new /\ lost'[t] = lost[t] \ new
        /\ \A u \in Tables \ {t} : handed'[u] = handed[u] /\ lost'[u] = lost[u]
    BY <1>0, <2>1 DEF TypeOK
  <2>7. RowsAccounted'
    BY <1>0, <2>1, <2>5, <2>6, AccountStays DEF Holding
  <2> QED
    BY <2>4, <2>7
<1>3. CASE ReadSilverRaises(r, t) \/ ValidateRaises(r, t) \/ ReadGoldRaises(r, t)
  BY <1>3, FailXformAccount DEF ReadSilverRaises, ValidateRaises, ReadGoldRaises
<1>4. CASE ValidateAndAggregate(r, t)
  <2> DEFINE new  == xform[r][t].new
             agg  == Aggregate(new, clock[t] + 1)
             task == [xform[r][t] EXCEPT !.pc = "aggregated", !.new = {}, !.rows = agg]
  <2>1. /\ SetXform(r, t, task) /\ goldFile' = goldFile /\ handed' = handed
        /\ stale' = stale /\ lost' = [lost EXCEPT ![t] = @ \cup (new \cap Keyless)]
        /\ xform[r][t].pc = "claimed"
    BY <1>4 DEF ValidateAndAggregate, XformAt, cdcVars, Lose
  <2>2. \A x \in new \ Keyless : x \in RecsOf(agg)
    BY <1>0, AggregateHas
  <2>3. xform[r][t].rows = {}
    BY <1>0, <2>1 DEF TaskReady
  <2> HIDE DEF agg
  <2>4. task.pc = "aggregated" /\ task.rows = agg
    BY <1>0 DEF Xform
  <2> HIDE DEF task
  <2>5. FilesInv'
    BY <1>0, <2>1, <2>4, FilesStay
  <2>6. InHand(xform[r][t]) = new /\ RecsOf(agg) \subseteq InHand(task)
    BY <2>1, <2>3, <2>4 DEF InHand, RecsOf
  <2>7. /\ lost'[t] = lost[t] \cup (new \cap Keyless)
        /\ \A u \in Tables \ {t} : lost'[u] = lost[u]
    BY <1>0, <2>1 DEF TypeOK
  <2>8. RowsAccounted'
    BY <1>0, <2>1, <2>2, <2>6, <2>7, AccountStays DEF Holding
  <2> QED
    BY <2>5, <2>8
<1>5. CASE ReadGoldAndMerge(r, t) \/ OpenGold(r, t) \/ CloseGold(r, t)
  BY <1>5, MergeAccount, OpenGoldAccount, CloseGoldAccount
<1> QED
  BY <1>1, <1>2, <1>3, <1>4, <1>5 DEF XformStep

LEMMA AccountStep == AccountInv /\ [Next]_vars => AccountInv'
<1> SUFFICES ASSUME AccountInv, [Next]_vars PROVE AccountInv'
  OBVIOUS
<1>0. TypeOK' /\ UniqueInv' /\ TypeOK
  BY TypeStep, UniqueStep DEF AccountInv
<1> DEFINE Goal == FilesInv' /\ RowsAccounted'
<1>1. ASSUME UNCHANGED <<goldFile, handed, xform, lossVars>> PROVE Goal
  BY <1>1 DEF AccountInv, FilesInv, TaskReady, WriterReady, Covers, RowsAccounted, InGold,
     lossVars
<1>2. ASSUME NEW t \in Tables, OpenSilver(t) \/ CloseSilver(t) PROVE Goal
  BY <1>1, <1>2 DEF OpenSilver, CloseSilver, cdcVars
<1>3. ASSUME NEW r \in Runs, StartRun(r) PROVE Goal
  BY <1>1, <1>3 DEF StartRun, cdcVars
<1>4. ASSUME NEW r \in Runs, LoadStep(r) \/ LoadCrashes(r) PROVE Goal
  BY <1>0, <1>1, <1>4, LoadEffect DEF cdcVars
<1>5. ASSUME NEW r \in Runs, NEW t \in Tables, XformStep(r, t) PROVE Goal
  BY <1>5, XformStepAccount
<1>6. ASSUME NEW r \in Runs, NEW t \in Tables, XformCrashes(r, t) PROVE Goal
  BY <1>6, FailXformAccount DEF XformCrashes
<1>7. ASSUME UNCHANGED vars PROVE Goal
  BY <1>1, <1>7 DEF vars, lossVars
<1>8. Goal
  BY <1>2, <1>3, <1>4, <1>5, <1>6, <1>7 DEF Next, RunStep
<1> QED
  BY <1>0, <1>8 DEF AccountInv

\* However runs overlap, crash and are retried: a row the CDC cursor has passed
\* is in the Gold file or in hand, or one of the named losses has happened to it
\* since it was last handed out (FailXform, the null keys of Aggregate, a newer
\* aggregate of its key, a stale copy written over the file, two writers at once).
THEOREM RowsAreAccounted == Spec => []RowsAccounted
<1>1. Init => AccountInv
  BY TypeInit, UniqueInit, AccountInit DEF AccountInv
<1>2. AccountInv => RowsAccounted
  BY DEF AccountInv
<1> QED
  BY <1>1, <1>2, AccountStep, PTL DEF Spec

-----------------------------------------------------------------------------
(* One run at a time: Synapse has what the Gold files have                 *)

\* While a run is active no other has a transform under way.
LEMMA OthersRest ==
  ASSUME OneRun, NEW r \in Runs, Active(r), NEW q \in Runs, NEW u \in Tables,
         xform[q][u].pc \in XformActive
  PROVE  q = r
<1>1. q \in started
  BY DEF OneRun, XformActive
<1>2. Active(q)
  BY <1>1 DEF Active, Finished, XformActive, XformEnded
<1> QED
  BY <1>2 DEF OneRun

\* The Synapse table has what its Gold file has, but for refused rows, and not
\* too many were refused.
CaughtUp(t) ==
  /\ Cardinality(Refused(goldFile[t].rows)) <= MaxErrors
  /\ goldFile[t].rows \ Refused(goldFile[t].rows) \subseteq Loaded(t)

\* A load that is under way has the transforms of its run behind it, and the
\* tables before idx loaded.
LoadReady(r) ==
  /\ load[r].pc # "none" => r \in started
  /\ load[r].idx \in 1 .. Len(LoadOrder) + 1
  /\ load[r].pc = "none" => load[r].idx = 1
  /\ load[r].pc \in {"upload", "copy"} => load[r].idx \in 1 .. Len(LoadOrder)
  /\ load[r].pc \in LoadActive =>
       /\ UpstreamDone(r)
       /\ \A i \in 1 .. load[r].idx - 1 : CaughtUp(LoadOrder[i])
  /\ load[r].pc = "copy" => /\ blob[Current(r)].rows = goldFile[Current(r)].rows
                            /\ blob[Current(r)].kind = goldFile[Current(r)].kind
  /\ load[r].pc = "loaded" => load[r].idx = Len(LoadOrder) + 1

\* Every load.
LoadInv == \A r \in Runs : LoadReady(r)

LEMMA OrderType ==
  /\ Len(LoadOrder) \in Nat \ {0}
  /\ \A i \in 1 .. Len(LoadOrder) : LoadOrder[i] \in Tables
<1>1. LoadOrder \in Seq(Tables) /\ LoadOrder # <<>>
  BY TablesAssumption
<1> QED
  BY <1>1

LEMMA LoadInit == Init => LoadInv
<1> SUFFICES ASSUME Init, NEW r \in Runs
             PROVE  LoadReady(r)
  BY DEF LoadInv
<1>1. load[r].pc = "none" /\ load[r].idx = 1
  BY DEF Init, NewLoad
<1> QED
  BY <1>1, OrderType DEF LoadReady, LoadActive

\* While a load is under way no transform runs, and no other load.
LEMMA LoadAlone ==
  ASSUME OneRun, NEW r \in Runs, LoadReady(r), load[r].pc \in LoadActive
  PROVE  /\ Active(r)
         /\ \A q \in Runs, t \in Tables : xform[q][t].pc \notin XformActive
         /\ \A q \in Runs : Active(q) => q = r
<1>1. Active(r)
  BY DEF LoadReady, Active, Finished, LoadActive, LoadEnded
<1>2. \A t \in Tables : xform[r][t].pc = "success"
  BY DEF LoadReady, UpstreamDone
<1>3. ASSUME NEW q \in Runs, NEW t \in Tables
      PROVE  xform[q][t].pc \notin XformActive
  BY <1>1, <1>2, OthersRest DEF XformActive
<1> QED
  BY <1>1, <1>3 DEF OneRun

\* A load that is not under way promises nothing of the tables.
LEMMA LoadRests ==
  ASSUME LoadInv, NEW q \in Runs, load[q].pc \notin LoadActive, load'[q] = load[q],
         started \subseteq started'
  PROVE  LoadReady(q)'
BY DEF LoadInv, LoadReady, LoadActive

\* A transform task only steps while no load is under way.
LEMMA XformStepReady ==
  ASSUME TypeOK, OneRun, LoadInv, NEW r \in Runs, NEW t \in Tables,
         XformStep(r, t) \/ XformCrashes(r, t)
  PROVE  LoadInv'
<1>1. /\ UNCHANGED <<started, load>> /\ xform[r][t].pc \notin XformEnded
      /\ Active(r)
  BY XformEffect, TaskStepsKeepOneRun
<1>2. ASSUME NEW q \in Runs
      PROVE  load[q].pc \notin LoadActive
  <2>1. ASSUME load[q].pc \in LoadActive
        PROVE  FALSE
    <3>1. r = q
      BY <1>1, <2>1, LoadAlone DEF LoadInv
    <3>2. xform[r][t].pc = "success"
      BY <2>1, <3>1 DEF LoadInv, LoadReady, UpstreamDone
    <3> QED
      BY <1>1, <3>2 DEF XformEnded
  <2> QED
    BY <2>1
<1>3. \A q \in Runs : LoadReady(q)'
  BY <1>1, <1>2, LoadRests
<1> QED
  BY <1>3 DEF LoadInv

LEMMA FailLoadReady ==
  ASSUME TypeOK, LoadInv, NEW r \in Runs, r \in started, FailLoad(r)
  PROVE  LoadReady(r)'
<1>1. load'[r] = LoadAfterFailure(load[r]) /\ started' = started
  BY DEF FailLoad, TypeOK
<1>2. load'[r].pc \in {"none", "failed"} /\ load'[r].idx = 1
  BY <1>1 DEF LoadAfterFailure, NewLoad
<1> QED
  BY <1>1, <1>2, OrderType DEF LoadReady, LoadActive

\* The COPY of a table adds all of its blob that is not refused, and takes nothing
\* from another one.
LEMMA CopyReady ==
  ASSUME TypeOK, LoadInv, NEW r \in Runs, CopyInto(r)
  PROVE  LoadReady(r)'
<1> DEFINE t    == Current(r)
           n    == load[r].idx
           good == blob[t].rows \ Refused(blob[t].rows)
           rows == [row : good, by : {<<r, load[r].try>>}]
           next == IF n = Len(LoadOrder) THEN "loaded" ELSE "upload"
<1>1. /\ r \in started /\ load[r].pc = "copy" /\ load[r] \in Load /\ LoadReady(r)
      /\ table' = [table EXCEPT ![t] = KeptRows(t) \cup rows]
      /\ load' = [load EXCEPT ![r] = [load[r] EXCEPT !.idx = n + 1, !.pc = next]]
      /\ UNCHANGED <<goldFile, blob, started, xform>>
      /\ Cardinality(Refused(blob[t].rows)) <= MaxErrors
  BY DEF CopyInto, LoadAt, TypeOK, LoadInv
<1>2. /\ n \in 1 .. Len(LoadOrder) /\ n \in Nat /\ t \in Tables /\ UpstreamDone(r)
      /\ blob[t].rows = goldFile[t].rows
      /\ \A i \in 1 .. n - 1 : CaughtUp(LoadOrder[i])
  BY <1>1, OrderType DEF LoadReady, LoadActive, Current
<1>3. load'[r].idx = n + 1 /\ load'[r].pc = next
  BY <1>1 DEF TypeOK, Load
<1>4. rows \subseteq table'[t] /\ \A u \in Tables \ {t} : table'[u] = table[u]
  BY <1>1, <1>2 DEF TypeOK
<1>5. \A w \in good : \E s \in table'[t] : s.row = w
  <2>1. \A w \in good : [row |-> w, by |-> <<r, load[r].try>>] \in rows
    OBVIOUS
  <2> HIDE DEF rows
  <2> QED
    BY <1>4, <2>1
<1>6. ASSUME NEW i \in 1 .. n
      PROVE  CaughtUp(LoadOrder[i])'
  <2>1. CASE LoadOrder[i] = t
    <3>1. goldFile'[LoadOrder[i]].rows = blob[t].rows
      BY <1>1, <1>2, <2>1
    <3>2. \A w \in good : \E s \in table'[LoadOrder[i]] : s.row = w
      BY <1>5, <2>1
    <3>3. good \subseteq Loaded(LoadOrder[i])'
      BY <3>2 DEF Loaded
    <3> QED
      BY <1>1, <3>1, <3>3 DEF CaughtUp
  <2>2. CASE LoadOrder[i] # t
    <3>1. LoadOrder[i] \in Tables /\ i \in 1 .. n - 1
      BY <1>2, <2>2, OrderType DEF Current
    <3>2. Loaded(LoadOrder[i])' = Loaded(LoadOrder[i])
      BY <1>4, <2>2, <3>1 DEF Loaded
    <3> QED
      BY <1>1, <1>2, <3>1, <3>2 DEF CaughtUp
  <2> QED
    BY <2>1, <2>2
<1>7. UpstreamDone(r)'
  BY <1>1, <1>2 DEF UpstreamDone
<1>8. /\ n + 1 \in 1 .. Len(LoadOrder) + 1 /\ (n + 1) - 1 = n
      /\ next = "upload" => n + 1 \in 1 .. Len(LoadOrder)
      /\ next = "loaded" => n + 1 = Len(LoadOrder) + 1
      /\ next \in {"upload", "loaded"}
  BY <1>2, OrderType
<1> HIDE DEF n, next, rows, good
<1> QED
  BY <1>1, <1>3, <1>6, <1>7, <1>8 DEF LoadReady

LEMMA LoadStepReady ==
  ASSUME TypeOK, OneRun, LoadInv, NEW r \in Runs, LoadStep(r) \/ LoadCrashes(r)
  PROVE  LoadInv'
<1>1. /\ load[r].pc \notin LoadEnded /\ UNCHANGED <<goldFile, started, xform>>
      /\ load[r] \in Load /\ LoadReady(r) /\ r \in started
  BY LoadEffect DEF TypeOK, LoadInv, LoadStep, LoadCrashes, UpstreamFailed, CreatePartitions,
     UploadRaises, UploadToBlob, CopyRaises, CopyInto, LoadSucceeds, LoadAt
<1>2. PICK task : load' = [load EXCEPT ![r] = task]
  BY LoadEffect
<1>3. ASSUME NEW q \in Runs, q # r
      PROVE  LoadReady(q)'
  <2>1. load'[q] = load[q]
    BY <1>2, <1>3 DEF TypeOK
  <2>2. Active(r)
    BY <1>1 DEF Active, Finished
  <2>3. load[q].pc \notin LoadActive
    BY <1>3, <2>2, LoadAlone DEF LoadInv
  <2> QED
    BY <1>1, <2>1, <2>3, LoadRests
<1>4. CASE LoadCrashes(r) \/ UploadRaises(r) \/ CopyRaises(r)
  <2>1. FailLoad(r)
    BY <1>4 DEF LoadCrashes, UploadRaises, CopyRaises
  <2> QED
    BY <1>1, <1>3, <2>1, FailLoadReady DEF LoadInv
<1>5. CASE UpstreamFailed(r) \/ LoadSucceeds(r)
  <2>1. load'[r].idx = load[r].idx /\ load'[r].pc \in {"upstream_failed", "success"}
    BY <1>1, <1>5 DEF UpstreamFailed, LoadSucceeds, TypeOK, Load
  <2>2. LoadReady(r)'
    BY <1>1, <2>1 DEF LoadReady, LoadActive
  <2> QED
    BY <1>3, <2>2 DEF LoadInv
<1>6. CASE CreatePartitions(r)
  <2>1. /\ load[r].pc = "none" /\ load'[r].idx = load[r].idx /\ load'[r].pc = "upload"
        /\ UpstreamDone(r)
    BY <1>1, <1>6 DEF CreatePartitions, LoadAt, TypeOK, Load
  <2>2. load'[r].idx = 1 /\ UpstreamDone(r)'
    BY <1>1, <2>1 DEF LoadReady, UpstreamDone
  <2>3. LoadReady(r)'
    BY <1>1, <2>1, <2>2, OrderType DEF LoadReady
  <2> QED
    BY <1>3, <2>3 DEF LoadInv
<1>7. CASE UploadToBlob(r)
  <2> DEFINE t == Current(r)
  <2>1. /\ load[r].pc = "upload" /\ load'[r].idx = load[r].idx /\ load'[r].pc = "copy"
        /\ blob' = [blob EXCEPT ![t] = [goldFile[t] EXCEPT !.sole = TRUE]] /\ table' = table
    BY <1>1, <1>7 DEF UploadToBlob, LoadAt, TypeOK, Load
  <2>2. t \in Tables /\ Current(r)' = t
    BY <1>1, <2>1, OrderType DEF Current, LoadReady
  <2>3. blob'[t].rows = goldFile[t].rows /\ blob'[t].kind = goldFile[t].kind
    BY <2>1, <2>2 DEF TypeOK, File
  <2>4. /\ UpstreamDone(r)'
        /\ \A i \in 1 .. load'[r].idx - 1 : CaughtUp(LoadOrder[i])'
    BY <1>1, <2>1 DEF LoadReady, LoadActive, UpstreamDone, CaughtUp, Loaded
  <2>5. LoadReady(r)'
    BY <1>1, <2>1, <2>2, <2>3, <2>4 DEF LoadReady
  <2> QED
    BY <1>3, <2>5 DEF LoadInv
<1>8. CASE CopyInto(r)
  BY <1>3, <1>8, CopyReady DEF LoadInv
<1> QED
  BY <1>4, <1>5, <1>6, <1>7, <1>8 DEF LoadStep

LEMMA LoadNext == CdcInv /\ LoadInv /\ [Next]_vars => LoadInv'
<1> SUFFICES ASSUME CdcInv, LoadInv, [Next]_vars PROVE LoadInv'
  OBVIOUS
<1>0. TypeOK /\ OneRun
  BY DEF CdcInv
<1>1. CASE UNCHANGED <<goldFile, blob, table, load, xform>> /\ started \subseteq started'
  <2>1. \A t : Loaded(t)' = Loaded(t)
    BY <1>1 DEF Loaded
  <2> QED
    BY <1>1, <2>1 DEF LoadInv, LoadReady, UpstreamDone, CaughtUp, Current
<1>2. CASE \/ \E t \in Tables : OpenSilver(t) \/ CloseSilver(t)
           \/ \E r \in Runs : StartRun(r)
  BY <1>1, <1>2 DEF OpenSilver, CloseSilver, StartRun, cdcVars, loadVars
<1>3. ASSUME NEW r \in Runs, RunStep(r) \/ LoadCrashes(r)
      PROVE  LoadInv'
  BY <1>0, <1>3, LoadStepReady, XformStepReady DEF RunStep
<1>4. ASSUME NEW r \in Runs, NEW t \in Tables, XformCrashes(r, t)
      PROVE  LoadInv'
  BY <1>0, <1>4, XformStepReady
<1>5. CASE UNCHANGED vars
  BY <1>1, <1>5 DEF vars
<1> QED
  BY <1>2, <1>3, <1>4, <1>5 DEF Next

LEMMA LoadAlways ==
  ASSUME Overlap = FALSE
  PROVE  Spec => [](CdcInv /\ LoadInv)
BY CdcInit, CdcStep, LoadInit, LoadNext, PTL DEF Spec

\* One run at a time: when a load_to_synapse task is past its last table, each
\* table has refused at most MAXERRORS rows of its Gold file and Synapse has all
\* the others, whatever failed on the way.
THEOREM LoadsCatchUp ==
  ASSUME Overlap = FALSE
  PROVE  Spec => []SynapseCaughtUp
<1>1. LoadInv => SynapseCaughtUp
  <2> SUFFICES ASSUME LoadInv, NEW r \in Runs, load[r].pc = "loaded",
                      NEW i \in 1 .. Len(LoadOrder)
               PROVE  CaughtUp(LoadOrder[i])
    BY DEF SynapseCaughtUp, CaughtUp
  <2>1. i \in 1 .. load[r].idx - 1
    BY OrderType DEF LoadInv, LoadReady
  <2> QED
    BY <2>1 DEF LoadInv, LoadReady, LoadActive
<1> QED
  BY <1>1, LoadAlways, PTL

-----------------------------------------------------------------------------
(* One run at a time: a full load keeps the keys of its table              *)

HasKey(rows, g) == \E w \in rows : w.group = g

\* A key in the table of a full load is in the Gold file too, unless the file is
\* torn, and in every copy of it that is about to replace it.
KeyKept(t, g) ==
  /\ goldFile[t].kind # "absent"
  /\ goldFile[t].kind = "ok" => HasKey(goldFile[t].rows, g)
  /\ \A r \in Runs :
       xform[r][t].pc \in {"merged", "writing"} => HasKey(xform[r][t].rows, g)

KeyInv == \A t \in FullLoad : \A s \in table[t] : KeyKept(t, s.row.group)

LEMMA KeyInit == Init => KeyInv
BY TablesAssumption DEF Init, KeyInv

\* The file has at least the keys after a step that it had before, in itself
\* and in the tasks that are about to replace it.
LEMMA KeyStays ==
  ASSUME TypeOK, NEW r \in Runs, NEW t \in Tables, NEW g, NEW task,
         SetXform(r, t, task), KeyKept(t, g),
         goldFile'[t].kind # "absent",
         goldFile'[t].kind = "ok" => HasKey(goldFile'[t].rows, g),
         task.pc \in {"merged", "writing"} => HasKey(task.rows, g)
  PROVE  KeyKept(t, g)'
<1>1. /\ xform'[r][t] = task
      /\ \A q \in Runs \ {r} : xform'[q][t] = xform[q][t]
  BY XformElsewhere
<1> QED
  BY <1>1 DEF KeyKept, HasKey

LEMMA XformStepKey ==
  ASSUME TypeOK, UniqueInv, NEW r \in Runs, NEW t \in Tables, NEW g,
         XformStep(r, t) \/ XformCrashes(r, t), KeyKept(t, g)
  PROVE  KeyKept(t, g)'
<1>0. /\ xform[r][t] \in Xform /\ goldFile[t] \in File
      /\ goldFile[t].rows \in SUBSET Row /\ xform[r][t].rows \in SUBSET Row
  BY DEF TypeOK, Xform, File
<1>1. CASE ReadGoldAndMerge(r, t)
  <2> DEFINE agg  == xform[r][t].rows
             gold == goldFile[t].rows
             rows == IF goldFile[t].kind = "absent" THEN agg ELSE MergeGold(gold, agg)
             task == [xform[r][t] EXCEPT !.pc = "merged", !.rows = rows]
  <2>1. SetXform(r, t, task) /\ goldFile' = goldFile /\ goldFile[t].kind # "torn"
    BY <1>1 DEF ReadGoldAndMerge
  <2>2. OnePerGroup(gold) /\ OnePerGroup(agg)
    BY DEF UniqueInv, UniqueFile, UniqueTask
  <2>3. goldFile[t].kind = "ok" /\ HasKey(gold, g)
    BY <1>0, <2>1 DEF KeyKept, File
  <2>4. PICK w \in gold : w.group = g
    BY <2>3 DEF HasKey
  <2>5. w \in rows \/ \E v \in rows : v.group = w.group
    BY <1>0, <2>2, <2>3, <2>4, MergeCovers
  <2> HIDE DEF rows
  <2>6. task.rows = rows
    BY <1>0 DEF Xform
  <2>7. HasKey(task.rows, g)
    BY <2>4, <2>5, <2>6 DEF HasKey
  <2> HIDE DEF task
  <2> QED
    BY <2>1, <2>3, <2>7, KeyStays
<1>2. CASE OpenGold(r, t)
  <2> DEFINE task == [xform[r][t] EXCEPT !.pc = "writing"]
  <2>1. SetXform(r, t, task) /\ xform[r][t].pc = "merged"
    BY <1>2 DEF OpenGold, XformAt
  <2>2. goldFile'[t].kind = "torn"
    BY <1>2 DEF OpenGold, TypeOK
  <2>3. task.rows = xform[r][t].rows
    BY <1>0 DEF Xform
  <2> HIDE DEF task
  <2> QED
    BY <2>1, <2>2, <2>3, KeyStays DEF KeyKept
<1>3. CASE CloseGold(r, t)
  <2> DEFINE task == [xform[r][t] EXCEPT !.pc = "written", !.rows = {}]
             good == [goldFile[t] EXCEPT !.kind = "ok", !.rows = xform[r][t].rows]
             mix  == [goldFile[t] EXCEPT !.kind = "torn", !.rows = {}]
  <2>1. /\ SetXform(r, t, task) /\ xform[r][t].pc = "writing"
        /\ \/ goldFile' = [goldFile EXCEPT ![t] = good]
           \/ goldFile' = [goldFile EXCEPT ![t] = mix]
    BY <1>3 DEF CloseGold, XformAt
  <2>2. good.kind = "ok" /\ good.rows = xform[r][t].rows /\ mix.kind = "torn"
    BY <1>0 DEF File
  <2>3. task.pc = "written"
    BY <1>0 DEF Xform
  <2> HIDE DEF task, good, mix
  <2>4. goldFile'[t] = good \/ goldFile'[t] = mix
    BY <2>1 DEF TypeOK
  <2>5. HasKey(good.rows, g)
    BY <2>1, <2>2 DEF KeyKept
  <2> QED
    BY <2>1, <2>2, <2>3, <2>4, <2>5, KeyStays
<1>4. CASE ~ReadGoldAndMerge(r, t) /\ ~OpenGold(r, t) /\ ~CloseGold(r, t)
  <2>1. PICK task : SetXform(r, t, task)
    BY <1>4, XformEffect
  <2>2. goldFile' = goldFile
    BY <1>4 DEF XformStep, XformCrashes, ReadSilverRaises, ReadSilver, FilterNewRecords,
       UpdateProcessed, ValidateRaises, ValidateAndAggregate, ReadGoldRaises,
       XformSucceeds, FailXform
  <2>3. task.pc \notin {"merged", "writing"}
    <3>0. xform'[r][t] = task
      BY <2>1, XformElsewhere
    <3>1. CASE FailXform(r, t)
      <4>1. XformAfterFailure(xform[r][t]).pc \in {"none", "failed"}
        BY DEF XformAfterFailure, NewXform
      <4> QED
        BY <3>0, <3>1, <4>1, XformElsewhere DEF FailXform
    <3>2. CASE ~FailXform(r, t)
      <4>1. \E pc \in {"read", "success", "filtered", "claimed", "aggregated"} :
              task.pc = pc
        <5>1. CASE ReadSilver(r, t)
          <6> DEFINE built == [xform[r][t] EXCEPT !.pc = "read", !.snap = silver[t].recs]
          <6>1. SetXform(r, t, built)
            BY <5>1 DEF ReadSilver
          <6>2. built.pc = "read"
            BY <1>0 DEF Xform
          <6> HIDE DEF built
          <6> QED
            BY <3>0, <6>1, <6>2, XformElsewhere
        <5>2. CASE FilterNewRecords(r, t)
          <6> DEFINE built == [xform[r][t] EXCEPT
                             !.pc = IF NewRecords(xform[r][t].snap, watermark[t]) = {}
                                    THEN "success" ELSE "filtered",
                             !.snap = {},
                             !.new = NewRecords(xform[r][t].snap, watermark[t])]
          <6>1. SetXform(r, t, built)
            BY <5>2 DEF FilterNewRecords
          <6>2. built.pc \in {"success", "filtered"}
            BY <1>0 DEF Xform
          <6> HIDE DEF built
          <6> QED
            BY <3>0, <6>1, <6>2, XformElsewhere
        <5>3. CASE UpdateProcessed(r, t)
          BY <1>0, <3>0, <5>3, XformElsewhere DEF UpdateProcessed, Xform
        <5>4. CASE ValidateAndAggregate(r, t)
          <6> DEFINE built == [xform[r][t] EXCEPT
                             !.pc = "aggregated", !.new = {},
                             !.rows = Aggregate(xform[r][t].new, clock[t] + 1)]
          <6>1. SetXform(r, t, built)
            BY <5>4 DEF ValidateAndAggregate
          <6>2. built.pc = "aggregated"
            BY <1>0 DEF Xform
          <6> HIDE DEF built
          <6> QED
            BY <3>0, <6>1, <6>2, XformElsewhere
        <5>5. CASE XformSucceeds(r, t)
          BY <1>0, <3>0, <5>5, XformElsewhere DEF XformSucceeds, Xform
        <5> QED
          BY <1>4, <3>2, <5>1, <5>2, <5>3, <5>4, <5>5
          DEF XformStep, XformCrashes, ReadSilverRaises, ValidateRaises, ReadGoldRaises
      <4> QED
        BY <4>1
    <3> QED
      BY <3>1, <3>2
  <2> QED
    BY <2>1, <2>2, <2>3, KeyStays DEF KeyKept
<1> QED
  BY <1>1, <1>2, <1>3, <1>4

\* The COPY of a full load replaces the table by the rows of the Gold file that
\* are not refused.
LEMMA CopyKeepsKeys ==
  ASSUME TypeOK, LoadInv, KeyInv, NEW r \in Runs, CopyInto(r),
         NEW t \in FullLoad, t = Current(r)
  PROVE  /\ \A s \in table'[t] : s.row \in goldFile[t].rows
         /\ goldFile[t].kind = "ok"
         /\ \A s \in table[t] :
              \/ \E u \in table'[t] : u.row.group = s.row.group
              \/ \E w \in Refused(blob[t].rows) : w.group = s.row.group
<1> DEFINE good   == blob[t].rows \ Refused(blob[t].rows)
           copied == [row : good, by : {<<r, load[r].try>>}]
<1>1. /\ t \in Tables /\ load[r].pc = "copy" /\ blob[t].kind = "ok"
      /\ table' = [table EXCEPT ![t] = KeptRows(t) \cup copied]
  BY TablesAssumption DEF CopyInto, LoadAt
<1>2. blob[t].rows = goldFile[t].rows /\ goldFile[t].kind = "ok"
  BY <1>1 DEF LoadInv, LoadReady
<1>3. table'[t] = copied
  BY <1>1 DEF KeptRows, TypeOK
<1>4. \A w \in good : [row |-> w, by |-> <<r, load[r].try>>] \in copied
  OBVIOUS
<1>5. \A s \in copied : s.row \in good
  OBVIOUS
<1>6. ASSUME NEW s \in table[t]
      PROVE  \/ \E u \in table'[t] : u.row.group = s.row.group
             \/ \E w \in Refused(blob[t].rows) : w.group = s.row.group
  <2>1. PICK w \in blob[t].rows : w.group = s.row.group
    BY <1>2 DEF KeyInv, KeyKept, HasKey
  <2>2. CASE w \in good
    <3> DEFINE u == [row |-> w, by |-> <<r, load[r].try>>]
    <3>1. u \in table'[t]
      BY <1>3, <1>4, <2>2
    <3>2. u.row.group = s.row.group
      BY <2>1
    <3> HIDE DEF u
    <3> QED
      BY <3>1, <3>2
  <2>3. CASE w \notin good
    BY <2>1, <2>3
  <2> QED
    BY <2>2, <2>3
<1>7. \A s \in table'[t] : s.row \in goldFile[t].rows
  BY <1>2, <1>3, <1>5
<1> QED
  BY <1>2, <1>6, <1>7

\* One run at a time: a step keeps the keys where they were, and only the COPY of
\* a full load takes rows out of its table.
LEMMA KeyStep ==
  ASSUME CdcInv, LoadInv, UniqueInv, KeyInv, [Next]_vars
  PROVE  /\ KeyInv'
         /\ \A t \in FullLoad : \A s \in table[t] :
              \/ \E u \in table'[t] : u.row.group = s.row.group
              \/ \E w \in Refused(blob[t].rows) : w.group = s.row.group
<1> DEFINE Kept == \A t \in FullLoad : \A s \in table[t] :
                     \/ \E u \in table'[t] : u.row.group = s.row.group
                     \/ \E w \in Refused(blob[t].rows) : w.group = s.row.group
<1>0. TypeOK /\ OneRun /\ FullLoad \subseteq Tables
  BY TablesAssumption DEF CdcInv
<1>1. ASSUME UNCHANGED <<goldFile, xform, table>> PROVE KeyInv' /\ Kept
  BY <1>1 DEF KeyInv, KeyKept
<1>2. ASSUME NEW t \in Tables, OpenSilver(t) \/ CloseSilver(t) PROVE KeyInv' /\ Kept
  BY <1>1, <1>2 DEF OpenSilver, CloseSilver, loadVars
<1>3. ASSUME NEW r \in Runs, StartRun(r) PROVE KeyInv' /\ Kept
  BY <1>1, <1>3 DEF StartRun, loadVars
<1>4. ASSUME NEW r \in Runs, LoadStep(r) \/ LoadCrashes(r) PROVE KeyInv' /\ Kept
  <2>1. UNCHANGED <<goldFile, xform>>
    BY <1>0, <1>4, LoadEffect
  <2>2. CASE CopyInto(r)
    <3>1. \A u \in FullLoad : u # Current(r) => table'[u] = table[u]
      BY <1>0, <2>2 DEF CopyInto, TypeOK
    <3>2. LoadReady(r) /\ load[r].pc \in LoadActive
      BY <2>2 DEF LoadInv, CopyInto, LoadAt, LoadActive
    <3>3. \A q \in Runs, u \in Tables : xform[q][u].pc \notin XformActive
      BY <1>0, <3>2, LoadAlone
    <3>4. ASSUME NEW u \in FullLoad, NEW s \in table'[u] PROVE KeyKept(u, s.row.group)'
      <4>1. CASE u = Current(r)
        <5>1. s.row \in goldFile[u].rows /\ goldFile[u].kind = "ok"
          BY <1>0, <2>2, <3>4, <4>1, CopyKeepsKeys
        <5> QED
          BY <1>0, <2>1, <3>3, <5>1 DEF KeyKept, HasKey, XformActive
      <4>2. CASE u # Current(r)
        BY <2>1, <3>1, <3>4, <4>2 DEF KeyInv, KeyKept
      <4> QED
        BY <4>1, <4>2
    <3>5. ASSUME NEW u \in FullLoad, NEW s \in table[u]
          PROVE  \/ \E v \in table'[u] : v.row.group = s.row.group
                 \/ \E w \in Refused(blob[u].rows) : w.group = s.row.group
      <4>1. CASE u = Current(r)
        BY <1>0, <2>2, <3>5, <4>1, CopyKeepsKeys
      <4>2. CASE u # Current(r)
        BY <3>1, <4>2
      <4> QED
        BY <4>1, <4>2
    <3> QED
      BY <3>4, <3>5 DEF KeyInv
  <2>3. CASE ~CopyInto(r)
    <3>1. table' = table
      BY <1>4, <2>3 DEF LoadStep, LoadCrashes, UploadRaises, CopyRaises, FailLoad,
                        UpstreamFailed, CreatePartitions, UploadToBlob, LoadSucceeds
    <3> QED
      BY <1>1, <2>1, <3>1
  <2> QED
    BY <2>2, <2>3
<1>5. ASSUME NEW r \in Runs, NEW t \in Tables, XformStep(r, t) \/ XformCrashes(r, t)
      PROVE  KeyInv' /\ Kept
  <2>1. table' = table
    BY <1>5 DEF XformStep, XformCrashes, ReadSilverRaises, ReadSilver, FilterNewRecords,
       UpdateProcessed, ValidateRaises, ValidateAndAggregate, ReadGoldRaises,
       ReadGoldAndMerge, OpenGold, CloseGold, XformSucceeds, FailXform, loadVars
  <2>2. PICK task : SetXform(r, t, task)
    BY <1>0, <1>5, XformEffect
  <2>3. ASSUME NEW u \in FullLoad, NEW s \in table[u] PROVE KeyKept(u, s.row.group)'
    <3>1. KeyKept(u, s.row.group) /\ u \in Tables
      BY <1>0 DEF KeyInv
    <3>2. CASE u = t
      BY <1>0, <1>5, <3>1, <3>2, XformStepKey
    <3>3. CASE u # t
      <4>1. \A q \in Runs : xform'[q][u] = xform[q][u]
        BY <1>0, <2>2, <3>1, <3>3, XformElsewhere
      <4>2. goldFile'[u] = goldFile[u]
        BY <1>0, <1>5, <3>1, <3>3 DEF XformStep, XformCrashes, ReadSilverRaises, ReadSilver,
           FilterNewRecords, UpdateProcessed, ValidateRaises, ValidateAndAggregate,
           ReadGoldRaises, ReadGoldAndMerge, OpenGold, CloseGold, XformSucceeds,
           FailXform, TypeOK
      <4> QED
        BY <3>1, <4>1, <4>2 DEF KeyKept
    <3> QED
      BY <3>2, <3>3
  <2> QED
    BY <2>1, <2>3 DEF KeyInv
<1>6. ASSUME UNCHANGED vars PROVE KeyInv' /\ Kept
  BY <1>1, <1>6 DEF vars
<1> QED
  BY <1>2, <1>3, <1>4, <1>5, <1>6 DEF Next, RunStep

\* One run at a time: neither a COPY that fails after the TRUNCATE nor a transform
\* that dies over the Gold file takes a key out of the table of a full load, unless
\* the table refuses the newest aggregate of the key.
THEOREM FullLoadsKeepKeys ==
  ASSUME Overlap = FALSE
  PROVE  Spec => FullLoadKeepsKeys
<1>1. CdcInv /\ LoadInv /\ UniqueInv /\ KeyInv /\ [Next]_vars => KeyInv'
  BY KeyStep
<1>2. CdcInv /\ LoadInv /\ UniqueInv /\ KeyInv /\ [Next]_vars
        => [\A t \in FullLoad : \A s \in table[t] :
              \/ \E u \in table'[t] : u.row.group = s.row.group
              \/ \E w \in Refused(blob[t].rows) : w.group = s.row.group]_table
  BY KeyStep
<1> QED
  BY KeyInit, LoadAlways, UniqueAlways, <1>1, <1>2, PTL DEF Spec, FullLoadKeepsKeys

=============================================================================
