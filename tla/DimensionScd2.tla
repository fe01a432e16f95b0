---------------------------- MODULE DimensionScd2 ----------------------------
(***************************************************************************)
(* apply_scd_type2 of dim_customer and dim_account: for every row of the   *)
(* extract the load looks up the current version, closes it when a tracked *)
(* attribute has changed and inserts the new one; one commit ends the load *)
(* and a failure before it rolls everything back.  The scripts are run by  *)
(* hand, one load of a dimension at a time.                                *)
(*                                                                         *)
(* The two scripts differ in their attributes: segment and risk profile    *)
(* that differ when they are unequal, or status and balance, where two     *)
(* balances within a cent of each other count as the same.                 *)
(***************************************************************************)
EXTENDS Naturals, Sequences

CONSTANTS
  Ids,       \* the members of the dimension: customers or accounts
  Value,     \* their tracked attributes
  Differs,   \* the pairs <<recorded, new>> that count as a change
  Extracts,  \* the extracts a load may be given, sequences of rows
  None,      \* the answer for a member that is not known
  MaxTime    \* bound: loads that start

ASSUME DimensionAssumption ==
  /\ Differs \subseteq Value \X Value
  /\ \A v \in Value : <<v, v>> \notin Differs
  /\ Extracts \subseteq Seq([id : Ids, val : Value])
  /\ None \notin Value
  /\ MaxTime \in Nat

VARIABLES
  dim,      \* the committed versions
  lastKey,  \* the last value of the IDENTITY column
  clock,    \* the instant of the last load that started
  job       \* the load that runs

vars == <<dim, lastKey, clock, job>>

Time == 1 .. MaxTime

\* to = 0: valid_to is NULL.
Version == [key : Nat, id : Ids, val : Value, from : Time, to : 0 .. MaxTime,
            current : BOOLEAN]

\* df, at: the extract and the row of it; now: computed once per load;
\* view: the versions as the load's own transaction sees them.
Job == [pc : {"idle", "select", "close", "insert"}, df : Extracts \cup {<<>>},
        at : Nat, now : 0 .. MaxTime, view : SUBSET Version]

Idle == [pc |-> "idle", df |-> <<>>, at |-> 0, now |-> 0, view |-> {}]

Row == job.df[job.at]

RowsLeft == job.at <= Len(job.df)

\* SELECT ... WHERE customer_id = ? AND is_current = 1.
CurrentVersions(id) == {v \in job.view : v.id = id /\ v.current}

\* The defects of a closing UPDATE that leaves is_current, and of one that
\* ends the version one instant after its successor begins.
CloseVersionOpen(v) == [v EXCEPT !.to = job.now]
CloseVersionLate(v) == [v EXCEPT !.current = FALSE, !.to = job.now + 1]

\* UPDATE ... SET is_current = 0, valid_to = now WHERE customer_key = ?.
CloseVersion(v) == [v EXCEPT !.current = FALSE, !.to = job.now]

\* The defect of a new version that is dated back to the first instant.
NewVersionFromOne == [key |-> lastKey + 1, id |-> Row.id, val |-> Row.val,
                      from |-> 1, to |-> 0, current |-> TRUE]

NewVersion == [key |-> lastKey + 1, id |-> Row.id, val |-> Row.val,
               from |-> job.now, to |-> 0, current |-> TRUE]

-----------------------------------------------------------------------------
(* A load                                                                  *)

Start(df) ==
  /\ job.pc = "idle"
  /\ clock < MaxTime
  /\ clock' = clock + 1
  /\ job' = [pc |-> "select", df |-> df, at |-> 1, now |-> clock + 1, view |-> dim]
  /\ UNCHANGED <<dim, lastKey>>

\* The member is new.
SelectNothing ==
  /\ job.pc = "select" /\ RowsLeft
  /\ CurrentVersions(Row.id) = {}
  /\ job' = [job EXCEPT !.pc = "insert"]
  /\ UNCHANGED <<dim, lastKey, clock>>

\* Nothing tracked has changed: on to the next row.
SelectSame ==
  /\ job.pc = "select" /\ RowsLeft
  /\ \E v \in CurrentVersions(Row.id) : <<v.val, Row.val>> \notin Differs
  /\ job' = [job EXCEPT !.at = @ + 1]
  /\ UNCHANGED <<dim, lastKey, clock>>

SelectChanged ==
  /\ job.pc = "select" /\ RowsLeft
  /\ \E v \in CurrentVersions(Row.id) : <<v.val, Row.val>> \in Differs
  /\ job' = [job EXCEPT !.pc = "close"]
  /\ UNCHANGED <<dim, lastKey, clock>>

Close ==
  /\ job.pc = "close"
  /\ \E v \in CurrentVersions(Row.id) :
       /\ <<v.val, Row.val>> \in Differs
       /\ job' = [job EXCEPT !.pc = "insert",
                             !.view = (@ \ {v}) \cup {CloseVersion(v)}]
  /\ UNCHANGED <<dim, lastKey, clock>>

Insert ==
  /\ job.pc = "insert"
  /\ job' = [job EXCEPT !.pc = "select", !.at = @ + 1,
                        !.view = @ \cup {NewVersion}]
  /\ lastKey' = lastKey + 1
  /\ UNCHANGED <<dim, clock>>

Commit ==
  /\ job.pc = "select" /\ ~RowsLeft
  /\ dim' = job.view
  /\ job' = Idle
  /\ UNCHANGED <<lastKey, clock>>

\* A statement or the connection fails, or the process dies: the transaction
\* is rolled back.  The IDENTITY values it drew are gone.
Fail ==
  /\ job.pc # "idle"
  /\ job' = Idle
  /\ UNCHANGED <<dim, lastKey, clock>>

Init == dim = {} /\ lastKey = 0 /\ clock = 0 /\ job = Idle

Next ==
  \/ \E df \in Extracts : Start(df)
  \/ SelectNothing \/ SelectSame \/ SelectChanged
  \/ Close \/ Insert \/ Commit \/ Fail

Spec == Init /\ [][Next]_vars

-----------------------------------------------------------------------------
(* Properties                                                              *)

TypeOK ==
  /\ dim \subseteq Version
  /\ lastKey \in Nat
  /\ clock \in 0 .. MaxTime
  /\ job \in Job

\* The committed versions of a member tile the time since it was first seen:
\* they do not overlap, the open one is the current one and there is just one,
\* and where one ends another begins, also when the extract has the member
\* several times or a load fails between the closing UPDATE and the INSERT.
VersionsTile ==
  \A v \in dim :
    /\ v.current <=> v.to = 0
    /\ \E w \in dim : w.id = v.id /\ w.current
    /\ v.to # 0 => \E w \in dim : w.id = v.id /\ w.key > v.key /\ w.from = v.to
    /\ \A w \in dim \ {v} :
         w.id = v.id => \/ v.to # 0 /\ v.to <= w.from
                        \/ w.to # 0 /\ w.to <= v.from

\* What a reader gets for an instant: WHERE valid_from <= t < valid_to.
AsOf(t, id) ==
  LET valid == {v \in dim : v.id = id /\ v.from <= t /\ (v.to = 0 \/ t < v.to)}
  IN IF valid = {} THEN None ELSE (CHOOSE v \in valid : TRUE).val

\* The refinement mapping.
Answer == [t \in Time |-> [id \in Ids |-> AsOf(t, id)]]

Timeline == INSTANCE DimensionTimeline WITH answer <- Answer

\* The tables implement the timeline: a load settles the members it lists, as
\* of its own instant, and no answer about an earlier instant ever changes.
ImplementsTimeline == Timeline!Spec

=============================================================================
