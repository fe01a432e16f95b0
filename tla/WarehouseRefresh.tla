-------------------------- MODULE WarehouseRefresh --------------------------
(***************************************************************************)
(* The warehouse_refresh DAG: for every Gold table one transform task      *)
(* (Silver -> CDC filter -> validation -> aggregation -> Gold parquet),    *)
(* then one load_to_synapse task that copies every Gold file into its      *)
(* Synapse table.  Airflow re-runs a failed task from its first line, and  *)
(* nothing in the DAG keeps two runs from being active together.           *)
(*                                                                         *)
(* A Silver row is a member of Rec; of its columns the model keeps the     *)
(* event time, the group-by key (or that it is null), whether its score is *)
(* null and whether validate_silver_data rejects its values.  A Gold row   *)
(* is the set of Silver rows it aggregates, its key and the updated_at     *)
(* stamp of the aggregation that made it: every metric column is a         *)
(* function of that set.  A Synapse row is a Gold row tagged with the COPY *)
(* statement that inserted it, so that two COPYs of one Gold row are two   *)
(* rows.                                                                   *)
(***************************************************************************)
EXTENDS Naturals, FiniteSets, Sequences

CONSTANTS
  Tables,     \* the Gold tables
  LoadOrder,  \* the order in which load_to_synapse loads them, a sequence
  FullLoad,   \* tables loaded with load_type='full'
  Gated,      \* tables whose validate_silver_data raises on a bad value
  Rec,        \* Silver rows
  EventTime,  \* Rec -> Nat \ {0}, the event_time column
  GroupOf,    \* Rec -> the group-by key: hour, (day, band) or (week, segment)
  BadRec,     \* Silver rows with a value the table's check rejects
  Keyless,    \* Silver rows whose group-by column is null (risk_band)
  NullScore,  \* Silver rows whose averaged column is null
  Extracts,   \* the sets of rows an upstream writer may put into a file
  MaxErrors,  \* the COPY option MAXERRORS
  Runs,       \* DAG runs
  Retries,    \* default_args['retries']
  Overlap     \* whether a DAG run may start while another is active

ASSUME TablesAssumption ==
  /\ LoadOrder \in Seq(Tables) \ {<<>>}
  /\ FullLoad \subseteq Tables
  /\ Gated \subseteq Tables

ASSUME RecAssumption ==
  /\ IsFiniteSet(Rec)
  /\ EventTime \in [Rec -> Nat \ {0}]
  /\ DOMAIN GroupOf = Rec
  /\ BadRec \subseteq Rec
  /\ Keyless \subseteq Rec
  /\ NullScore \subseteq Rec
  /\ Extracts \subseteq SUBSET Rec

ASSUME RunAssumption ==
  /\ Retries \in Nat
  /\ MaxErrors \in Nat
  /\ Overlap \in BOOLEAN

VARIABLES
  silver,         \* per table, the Silver parquet file
  watermark,      \* per table, cdc_control.last_processed_timestamp (0: no row)
  rowsProcessed,  \* per table, cdc_control.rows_processed
  clock,          \* per table, source of the updated_at stamps
  goldFile,       \* per table, the local Gold parquet file
  blob,           \* per table, the copy of it in Azure blob storage
  table,          \* per table, the rows of the Synapse table
  started,        \* the DAG runs that have been triggered
  xform,          \* per run and table, the transform task instance
  load,           \* per run, the load_to_synapse task instance
  handed,         \* history: per table, the rows filter_new_records returned
  lost,           \* history: per table, those of them a step has let go
  stale           \* history: the tasks whose copy of the Gold file is not
                  \* what the file holds any more

vars == <<silver, watermark, rowsProcessed, clock, goldFile, blob, table,
          started, xform, load, handed, lost, stale>>

cdcVars  == <<watermark, rowsProcessed, handed>>
loadVars == <<blob, table, load>>
lossVars == <<lost, stale>>

-----------------------------------------------------------------------------
(* Data                                                                    *)

Groups == {GroupOf[x] : x \in Rec}

Row == [group : Groups, recs : SUBSET Rec, stamp : Nat]

\* A Silver file: missing, truncated by a writer that is at work or died,
\* readable, or readable but without the event_time column.
SilverFile == [kind : {"absent", "torn", "untimed", "ok"}, recs : SUBSET Rec]

SilverOf(kind, S) == [kind |-> kind, recs |-> S]

\* A parquet file: missing, readable, or truncated by a writer that is at
\* work or died.  sole: whoever opened it last was its only writer.
File == [kind : {"absent", "ok", "torn"}, rows : SUBSET Row, sole : BOOLEAN]

NoFile == [kind |-> "absent", rows |-> {}, sole |-> TRUE]

\* by: the attempt of a run's load whose COPY inserted the row.
SynapseRow == [row : Row, by : Runs \X Nat]

XformActive == {"read", "filtered", "claimed", "aggregated", "merged",
                "writing", "written"}
XformEnded  == {"success", "failed"}

\* try counts the attempts from 1; the other fields are local variables of
\* the attempt: df as read, df as filtered, gold_df.
Xform == [pc : {"none"} \cup XformActive \cup XformEnded, try : Nat,
          snap : SUBSET Rec, new : SUBSET Rec, rows : SUBSET Row]

LoadActive == {"upload", "copy", "loaded"}
LoadEnded  == {"success", "failed", "upstream_failed"}

\* idx is the position in LoadOrder of the table being loaded.
Load == [pc : {"none"} \cup LoadActive \cup LoadEnded, try : Nat, idx : Nat]

NewXform(n) == [pc |-> "none", try |-> n, snap |-> {}, new |-> {}, rows |-> {}]
NewLoad(n)  == [pc |-> "none", try |-> n, idx |-> 1]

-----------------------------------------------------------------------------
(* Pure steps of the transforms                                            *)

\* The defect of a filter that keeps the boundary rows (>= last_ts).
NewRecordsInclusive(S, lastTs) == {x \in S : EventTime[x] >= lastTs}

\* filter_new_records: strictly later than the watermark read.
NewRecords(S, lastTs) == {x \in S : EventTime[x] > lastTs}

\* new_df[time_col].max(), as the set that holds it.
LatestTime(S) ==
  {EventTime[x] : x \in {y \in S : \A z \in S : EventTime[z] <= EventTime[y]}}

\* The defect of a gate that only stops a batch with no good row in it.
RejectsAllBad(t, S) == t \in Gated /\ S # {} /\ S \subseteq BadRec

\* validate_silver_data raises.  The credit risk check computes
\* ~(number of valid bands), which is never positive, so it never does.
Rejects(t, S) == t \in Gated /\ S \cap BadRec # {}

\* groupby(key).agg(...) with updated_at = now; groupby leaves out the rows
\* whose key is null.
Aggregate(S, stamp) ==
  {[group |-> g, recs |-> {x \in S \ Keyless : GroupOf[x] = g}, stamp |-> stamp] :
     g \in {GroupOf[x] : x \in S \ Keyless}}

\* The defects of a merge without drop_duplicates, and of one that writes
\* the new aggregate alone.
MergeGoldKeepAll(existing, agg) == existing \cup agg
MergeGoldForget(existing, agg) == agg

\* The defect of drop_duplicates(keep=False).
MergeGoldKeepNone(existing, agg) ==
  {w \in existing \cup agg :
     \A v \in existing \cup agg : v.group = w.group => v = w}

\* concat, sort by updated_at descending, drop_duplicates(key, keep='first').
MergeGold(existing, agg) ==
  {w \in existing \cup agg :
     \A v \in existing \cup agg : v.group = w.group => v.stamp <= w.stamp}

\* The mean of null scores is null, and the column it goes to is NOT NULL.
Refused(rows) == {w \in rows : w.recs \subseteq NullScore}

-----------------------------------------------------------------------------
(* Accounting for the rows behind the watermark (history only)             *)

RecsOf(rows) == UNION {w.recs : w \in rows}

InGold(t) == RecsOf(goldFile[t].rows)

\* What an attempt holds of the rows it or an earlier attempt has claimed.
InHand(task) ==
  RecsOf(task.rows) \cup {x \in task.new : task.pc = "claimed"}

\* drop_duplicates gives up an aggregate for a newer one of its key.
Superseded(rows, by) ==
  RecsOf({w \in rows : \E v \in by : v.group = w.group /\ v.stamp > w.stamp})

Lose(t, S) == lost' = [lost EXCEPT ![t] = @ \cup S]

-----------------------------------------------------------------------------
(* Airflow                                                                 *)

Finished(r) ==
  /\ \A t \in Tables : xform[r][t].pc \in XformEnded
  /\ load[r].pc \in LoadEnded

Active(r) == r \in started /\ ~Finished(r)

\* The defects of a retry that does not use up an attempt, and of one that
\* counts the attempts down.
XformAfterFailureUncounted(task) == NewXform(task.try)
XformAfterFailureDown(task) == NewXform(task.try - 1)

\* The task instance after its attempt raised or its worker died: a fresh
\* attempt while retries are left, otherwise failed.
XformAfterFailure(task) ==
  IF task.try <= Retries THEN NewXform(task.try + 1)
  ELSE [NewXform(task.try) EXCEPT !.pc = "failed"]

LoadAfterFailure(task) ==
  IF task.try <= Retries THEN NewLoad(task.try + 1)
  ELSE [NewLoad(task.try) EXCEPT !.pc = "failed"]

SetXform(r, t, task) == xform' = [xform EXCEPT ![r][t] = task]

XformAt(r, t, pc) == r \in started /\ xform[r][t].pc = pc

\* What the attempt held is gone, but for what the Gold file has of it.
FailXform(r, t) ==
  /\ SetXform(r, t, XformAfterFailure(xform[r][t]))
  /\ Lose(t, InHand(xform[r][t]) \ InGold(t))
  /\ stale' = stale \ {<<r, t>>}
  /\ UNCHANGED <<silver, cdcVars, clock, goldFile, loadVars, started>>

\* The schedule (or an operator) triggers a DAG run.
StartRun(r) ==
  /\ r \notin started
  /\ Overlap \/ \A q \in Runs : ~Active(q)
  /\ started' = started \cup {r}
  /\ UNCHANGED <<silver, cdcVars, clock, goldFile, loadVars, xform, lossVars>>

-----------------------------------------------------------------------------
(* The transform task                                                      *)

\* A writer of the Silver file (to_parquet of a batch scorer, or whatever
\* else feeds the table) truncates it first.
OpenSilver(t) ==
  /\ silver[t].kind # "torn"
  /\ silver' = [silver EXCEPT ![t] = SilverOf("torn", {})]
  /\ UNCHANGED <<cdcVars, clock, goldFile, loadVars, started, xform, lossVars>>

\* It replaces the whole content: by some extract of the rows, whatever was
\* there before, or by rows that have no event_time, as the scorers write.
CloseSilver(t) ==
  /\ silver[t].kind = "torn"
  /\ \E f \in {SilverOf("untimed", {})} \cup {SilverOf("ok", S) : S \in Extracts} :
       silver' = [silver EXCEPT ![t] = f]
  /\ UNCHANGED <<cdcVars, clock, goldFile, loadVars, started, xform, lossVars>>

\* read_parquet of a missing or truncated file raises, and filter_new_records
\* does on rows that have no event_time, before it has written anything.
ReadSilverRaises(r, t) ==
  /\ XformAt(r, t, "none")
  /\ silver[t].kind # "ok"
  /\ FailXform(r, t)

ReadSilver(r, t) ==
  /\ XformAt(r, t, "none")
  /\ silver[t].kind = "ok"
  /\ SetXform(r, t, [xform[r][t] EXCEPT !.pc = "read", !.snap = silver[t].recs])
  /\ UNCHANGED <<silver, cdcVars, clock, goldFile, loadVars, started, lossVars>>

\* filter_new_records up to the filter: reads the control table and keeps
\* the later rows; with none left the transform returns normally.
FilterNewRecords(r, t) ==
  LET new == NewRecords(xform[r][t].snap, watermark[t]) IN
  /\ XformAt(r, t, "read")
  /\ SetXform(r, t, [xform[r][t] EXCEPT
                       !.pc = IF new = {} THEN "success" ELSE "filtered",
                       !.snap = {}, !.new = new])
  /\ UNCHANGED <<silver, cdcVars, clock, goldFile, loadVars, started, lossVars>>

\* update_processed: the MERGE stores the batch's largest event time
\* whatever the control row holds by now, and adds the batch's size.
UpdateProcessed(r, t) ==
  LET new == xform[r][t].new IN
  /\ XformAt(r, t, "filtered")
  /\ \E ts \in LatestTime(new) : watermark' = [watermark EXCEPT ![t] = ts]
  /\ rowsProcessed' = [rowsProcessed EXCEPT ![t] = @ + Cardinality(new)]
  /\ handed' = [handed EXCEPT ![t] = @ \cup new]
  /\ lost' = [lost EXCEPT ![t] = @ \ new]
  /\ SetXform(r, t, [xform[r][t] EXCEPT !.pc = "claimed"])
  /\ UNCHANGED <<silver, clock, goldFile, loadVars, started, stale>>

ValidateRaises(r, t) ==
  /\ XformAt(r, t, "claimed")
  /\ Rejects(t, xform[r][t].new)
  /\ FailXform(r, t)

ValidateAndAggregate(r, t) ==
  LET new == xform[r][t].new IN
  /\ XformAt(r, t, "claimed")
  /\ ~Rejects(t, new)
  /\ clock' = [clock EXCEPT ![t] = @ + 1]
  /\ SetXform(r, t, [xform[r][t] EXCEPT !.pc = "aggregated", !.new = {},
                       !.rows = Aggregate(new, clock[t] + 1)])
  /\ Lose(t, new \cap Keyless)
  /\ UNCHANGED <<silver, cdcVars, goldFile, loadVars, started, stale>>

\* read_parquet of a truncated Gold file raises.
ReadGoldRaises(r, t) ==
  /\ XformAt(r, t, "aggregated")
  /\ goldFile[t].kind = "torn"
  /\ FailXform(r, t)

ReadGoldAndMerge(r, t) ==
  LET agg == xform[r][t].rows IN
  /\ XformAt(r, t, "aggregated")
  /\ goldFile[t].kind # "torn"
  /\ SetXform(r, t, [xform[r][t] EXCEPT !.pc = "merged",
                       !.rows = IF goldFile[t].kind = "absent" THEN agg
                                ELSE MergeGold(goldFile[t].rows, agg)])
  /\ Lose(t, Superseded(agg, goldFile[t].rows))
  /\ stale' = stale \ {<<r, t>>}
  /\ UNCHANGED <<silver, cdcVars, clock, goldFile, loadVars, started>>

Writing(t) == {r \in Runs : xform[r][t].pc = "writing"}

\* The file changes under every other task that has read it to merge.
OthersStale(r, t) ==
  stale' = (stale \ {<<r, t>>})
             \cup {<<q, t>> : q \in {p \in Runs \ {r} : xform[p][t].pc = "merged"}}

\* What only the file has is lost when a writer replaces it by its copy.
OnlyInGold(r, t) == InGold(t) \ RecsOf(xform[r][t].rows)

\* to_parquet truncates the file before it writes.
OpenGold(r, t) ==
  /\ XformAt(r, t, "merged")
  /\ goldFile' = [goldFile EXCEPT
                    ![t] = [kind |-> "torn", rows |-> {},
                            sole |-> Writing(t) = {}]]
  /\ SetXform(r, t, [xform[r][t] EXCEPT !.pc = "writing"])
  /\ Lose(t, Superseded(goldFile[t].rows, xform[r][t].rows)
               \cup {x \in OnlyInGold(r, t) : <<r, t>> \in stale})
  /\ OthersStale(r, t)
  /\ UNCHANGED <<silver, cdcVars, clock, loadVars, started>>

\* The footer is written and the file closed.  Two writers that had the
\* file open together leave either one's content or an unreadable mix.
CloseGold(r, t) ==
  /\ XformAt(r, t, "writing")
  /\ \/ /\ goldFile' = [goldFile EXCEPT ![t].kind = "ok",
                                        ![t].rows = xform[r][t].rows]
        /\ Lose(t, {x \in OnlyInGold(r, t) : ~goldFile[t].sole})
     \/ /\ ~goldFile[t].sole
        /\ goldFile' = [goldFile EXCEPT ![t].kind = "torn", ![t].rows = {}]
        /\ Lose(t, InGold(t) \cup InHand(xform[r][t]))
  /\ SetXform(r, t, [xform[r][t] EXCEPT !.pc = "written", !.rows = {}])
  /\ OthersStale(r, t)
  /\ UNCHANGED <<silver, cdcVars, clock, loadVars, started>>

XformSucceeds(r, t) ==
  /\ XformAt(r, t, "written")
  /\ SetXform(r, t, [xform[r][t] EXCEPT !.pc = "success"])
  /\ UNCHANGED <<silver, cdcVars, clock, goldFile, loadVars, started, lossVars>>

\* The worker dies, or a read, a connection or a statement raises.
XformCrashes(r, t) ==
  /\ r \in started
  /\ xform[r][t].pc \in XformActive
  /\ FailXform(r, t)

-----------------------------------------------------------------------------
(* The load_to_synapse task                                                *)

LoadAt(r, pc) == r \in started /\ load[r].pc = pc

Current(r) == LoadOrder[load[r].idx]

FailLoad(r) ==
  /\ load' = [load EXCEPT ![r] = LoadAfterFailure(load[r])]
  /\ UNCHANGED <<silver, cdcVars, clock, goldFile, blob, table, started,
                 xform, lossVars>>

\* The default trigger rule: a failed upstream task fails the load unrun.
UpstreamFailed(r) ==
  /\ LoadAt(r, "none")
  /\ \E t \in Tables : xform[r][t].pc = "failed"
  /\ load' = [load EXCEPT ![r].pc = "upstream_failed"]
  /\ UNCHANGED <<silver, cdcVars, clock, goldFile, blob, table, started,
                 xform, lossVars>>

\* The defect of a DAG that waits for one transform only.
UpstreamDoneOne(r) == \E t \in Tables : xform[r][t].pc = "success"

\* [fraud_transform, credit_transform, churn_transform] >> synapse_load.
UpstreamDone(r) == \A t \in Tables : xform[r][t].pc = "success"

\* The task starts: create_partitions for every table (no row changes).
CreatePartitions(r) ==
  /\ LoadAt(r, "none")
  /\ UpstreamDone(r)
  /\ load' = [load EXCEPT ![r].pc = "upload"]
  /\ UNCHANGED <<silver, cdcVars, clock, goldFile, blob, table, started,
                 xform, lossVars>>

\* open() of a Gold file that no transform has written yet raises.
UploadRaises(r) ==
  /\ LoadAt(r, "upload")
  /\ goldFile[Current(r)].kind = "absent"
  /\ FailLoad(r)

\* _upload_to_blob: the bytes of the local file, whatever they are.
UploadToBlob(r) ==
  /\ LoadAt(r, "upload")
  /\ goldFile[Current(r)].kind # "absent"
  /\ blob' = [blob EXCEPT ![Current(r)] = [goldFile[Current(r)] EXCEPT
                                              !.sole = TRUE]]
  /\ load' = [load EXCEPT ![r].pc = "copy"]
  /\ UNCHANGED <<silver, cdcVars, clock, goldFile, table, started, xform,
                 lossVars>>

\* The defect of a TRUNCATE that is committed by itself.
CopyRaisesTruncated(r) ==
  LET t == Current(r) IN
  /\ LoadAt(r, "copy")
  /\ blob[t].kind # "ok" \/ Cardinality(Refused(blob[t].rows)) > MaxErrors
  /\ load' = [load EXCEPT ![r] = LoadAfterFailure(load[r])]
  /\ table' = [table EXCEPT ![t] = IF t \in FullLoad THEN {} ELSE @]
  /\ UNCHANGED <<silver, cdcVars, clock, goldFile, blob, started, xform,
                 lossVars>>

\* COPY INTO raises for an unreadable parquet blob and for more refused rows
\* than MAXERRORS; the TRUNCATE before it rolls back.
CopyRaises(r) ==
  /\ LoadAt(r, "copy")
  /\ \/ blob[Current(r)].kind # "ok"
     \/ Cardinality(Refused(blob[Current(r)].rows)) > MaxErrors
  /\ FailLoad(r)

\* The defect of a full load without its TRUNCATE.
KeptRowsAlways(t) == table[t]

\* The rows of the table a COPY adds to.
KeptRows(t) == IF t \in FullLoad THEN {} ELSE table[t]

\* One transaction: TRUNCATE for a full load, COPY INTO of the whole blob but
\* for the rows the table refuses, commit.  Then on to the next table.
CopyInto(r) ==
  LET t == Current(r) IN
  /\ LoadAt(r, "copy")
  /\ blob[t].kind = "ok"
  /\ Cardinality(Refused(blob[t].rows)) <= MaxErrors
  /\ table' = [table EXCEPT
                 ![t] = KeptRows(t)
                        \cup [row : blob[t].rows \ Refused(blob[t].rows),
                              by : {<<r, load[r].try>>}]]
  /\ load' = [load EXCEPT
                ![r].idx = @ + 1,
                ![r].pc = IF load[r].idx = Len(LoadOrder) THEN "loaded"
                          ELSE "upload"]
  /\ UNCHANGED <<silver, cdcVars, clock, goldFile, blob, started, xform,
                 lossVars>>

LoadSucceeds(r) ==
  /\ LoadAt(r, "loaded")
  /\ load' = [load EXCEPT ![r].pc = "success"]
  /\ UNCHANGED <<silver, cdcVars, clock, goldFile, blob, table, started,
                 xform, lossVars>>

\* The worker dies or a call raises, also after the last commit.
LoadCrashes(r) ==
  /\ r \in started
  /\ load[r].pc \in LoadActive
  /\ FailLoad(r)

-----------------------------------------------------------------------------
(* Specification                                                           *)

Init ==
  /\ silver = [t \in Tables |-> SilverOf("absent", {})]
  /\ watermark = [t \in Tables |-> 0]
  /\ rowsProcessed = [t \in Tables |-> 0]
  /\ clock = [t \in Tables |-> 0]
  /\ goldFile = [t \in Tables |-> NoFile]
  /\ blob = [t \in Tables |-> NoFile]
  /\ table = [t \in Tables |-> {}]
  /\ started = {}
  /\ xform = [r \in Runs |-> [t \in Tables |-> NewXform(1)]]
  /\ load = [r \in Runs |-> NewLoad(1)]
  /\ handed = [t \in Tables |-> {}]
  /\ lost = [t \in Tables |-> {}]
  /\ stale = {}

\* What the attempt of a transform does next when its worker stays up.
XformStep(r, t) ==
  \/ ReadSilverRaises(r, t)
  \/ ReadSilver(r, t)
  \/ FilterNewRecords(r, t)
  \/ UpdateProcessed(r, t)
  \/ ValidateRaises(r, t)
  \/ ValidateAndAggregate(r, t)
  \/ ReadGoldRaises(r, t)
  \/ ReadGoldAndMerge(r, t)
  \/ OpenGold(r, t)
  \/ CloseGold(r, t)
  \/ XformSucceeds(r, t)

LoadStep(r) ==
  \/ UpstreamFailed(r)
  \/ CreatePartitions(r)
  \/ UploadRaises(r)
  \/ UploadToBlob(r)
  \/ CopyRaises(r)
  \/ CopyInto(r)
  \/ LoadSucceeds(r)

RunStep(r) == LoadStep(r) \/ \E t \in Tables : XformStep(r, t)

Next ==
  \/ \E t \in Tables : OpenSilver(t) \/ CloseSilver(t)
  \/ \E r \in Runs : StartRun(r) \/ RunStep(r) \/ LoadCrashes(r)
  \/ \E r \in Runs, t \in Tables : XformCrashes(r, t)

\* Airflow's scheduler keeps running some task of a run it has started.
\* Nothing makes it start runs, and nothing makes a Silver file be written.
Fairness == \A r \in Runs : WF_vars(RunStep(r))

Spec == Init /\ [][Next]_vars

FairSpec == Spec /\ Fairness

-----------------------------------------------------------------------------
(* Properties                                                              *)

TypeOK ==
  /\ silver \in [Tables -> SilverFile]
  /\ watermark \in [Tables -> Nat]
  /\ rowsProcessed \in [Tables -> Nat]
  /\ clock \in [Tables -> Nat]
  /\ goldFile \in [Tables -> File]
  /\ blob \in [Tables -> File]
  /\ table \in [Tables -> SUBSET SynapseRow]
  /\ started \subseteq Runs
  /\ xform \in [Runs -> [Tables -> Xform]]
  /\ load \in [Runs -> Load]
  /\ handed \in [Tables -> SUBSET Rec]
  /\ lost \in [Tables -> SUBSET Rec]
  /\ stale \subseteq Runs \X Tables

\* A set of rows with at most one row per group-by key.
OnePerGroup(rows) == \A v, w \in rows : v.group = w.group => v = w

\* The Synapse rows of a table, without their tags.
Loaded(t) == {s.row : s \in table[t]}

\* However runs overlap and attempts die, a readable Gold file has one row
\* per key, and a row aggregates rows of that key that filter_new_records has
\* handed out, although the Silver file it read may have been replaced since
\* (the transforms' concat / sort / drop_duplicates over a file other runs
\* rewrite).
GoldRowsSound ==
  \A t \in Tables :
    /\ OnePerGroup(goldFile[t].rows)
    /\ \A w \in goldFile[t].rows :
         w.recs # {} /\ w.recs \subseteq {x \in handed[t] : GroupOf[x] = w.group}

\* The quality gate: no row that validate_silver_data rejects is ever part of
\* an aggregate in the Gold file, its blob or the Synapse table, although
\* validation comes after the watermark has moved and every step is retried.
QualityGate ==
  \A t \in Gated :
    \A w \in goldFile[t].rows \cup blob[t].rows \cup Loaded(t) :
      w.recs \cap BadRec = {}

\* Every row behind the watermark, however runs overlap, is accounted for: an
\* attempt holds it, a Gold row aggregates it, or since it was last handed out
\* one of these has happened to it: its key was null, a newer aggregate of its
\* key replaced the one it was in, the attempt that held it failed, or a task
\* wrote the Gold file from a copy that was not the file's content any more,
\* or together with another.
RowsAccounted ==
  \A t \in Tables : \A x \in handed[t] :
    \/ x \in InGold(t)
    \/ \E r \in Runs : x \in InHand(xform[r][t])
    \/ x \in lost[t]

\* A full load leaves one row per key in its Synapse table at every moment,
\* with retried and overlapping loads (TRUNCATE and COPY in one transaction).
FullLoadExact ==
  \A t \in FullLoad : \A s1, s2 \in table[t] :
    s1.row.group = s2.row.group => s1 = s2

\* Every DAG run that starts ends, whatever fails on the way: retries run out.
RunsEnd == \A r \in Runs : r \in started ~> Finished(r)

\* With one run at a time, filter_new_records returns a Silver row at most
\* once, across retries, crashes and late rows: CDC is at-most-once.
NoRecordHandedTwice ==
  \A r \in Runs, t \in Tables :
    xform[r][t].pc = "filtered" => xform[r][t].new \cap handed[t] = {}

\* With one run at a time, the control row counts exactly the rows handed out.
RowsProcessedExact ==
  \A t \in Tables : rowsProcessed[t] = Cardinality(handed[t])

\* With one run at a time, when a load is past its last table each table has
\* refused at most MAXERRORS rows of its Gold file, and Synapse has all others.
SynapseCaughtUp ==
  \A r \in Runs :
    load[r].pc = "loaded" =>
      \A i \in 1 .. Len(LoadOrder) :
        LET rows == goldFile[LoadOrder[i]].rows IN
        /\ Cardinality(Refused(rows)) <= MaxErrors
        /\ rows \ Refused(rows) \subseteq Loaded(LoadOrder[i])

\* With one run at a time, a full load takes a key out of its Synapse table
\* only if the newest aggregate of the key is refused: neither a COPY that
\* fails after the TRUNCATE nor a transform that dies over the Gold file
\* leaves the table without it.
FullLoadKeepsKeys ==
  [][\A t \in FullLoad : \A s \in table[t] :
       \/ \E u \in table'[t] : u.row.group = s.row.group
       \/ \E w \in Refused(blob[t].rows) : w.group = s.row.group]_table

-----------------------------------------------------------------------------
(* A claim of the documentation that the code does not keep                *)

\* README.md:104, "Idempotent pipelines: Safe to re-run without duplicates":
\* no Synapse table ever holds two rows with one key.
NoDuplicateRows ==
  \A t \in Tables : \A s1, s2 \in table[t] :
    s1.row.group = s2.row.group => s1 = s2

=============================================================================
