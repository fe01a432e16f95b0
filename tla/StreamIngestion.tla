--------------------------- MODULE StreamIngestion ---------------------------
(***************************************************************************)
(* The Lambda path from Kinesis to the Bronze bucket.  The event source    *)
(* mapping invokes lambda_handler with a batch of one shard at a time and, *)
(* when the invocation fails, again with the same batch until the records  *)
(* expire.  The handler parses record by record, sends what does not parse *)
(* to the DLQ bucket and writes the rest as one Bronze object, whose key   *)
(* names the wall-clock second: invocations of different shards, or two in *)
(* a row of one shard, that write in the same second use the same key.     *)
(***************************************************************************)
EXTENDS Naturals, FiniteSets

CONSTANTS
  Shards,     \* the shards of the stream, one invocation at a time each
  Length,     \* bound: records that arrive on a shard
  BatchSize,  \* the mapping's BatchSize
  Malformed,  \* records parse_kinesis_record raises on
  DlqWaits,   \* unanswered DLQ puts that fit into the function's Timeout
  MaxSecond,  \* bound: seconds of wall-clock time
  Reliable    \* shards whose invocations do not fail for ever

\* A record is its shard and its sequence number.
Rec == Shards \X (1 .. Length)

ASSUME StreamAssumption ==
  /\ Length \in Nat /\ BatchSize \in Nat \ {0} /\ MaxSecond \in Nat
  /\ DlqWaits \in Nat
  /\ Malformed \subseteq Rec /\ Reliable \subseteq Shards

VARIABLES
  arrived,  \* per shard, how many records have been put on it
  mapped,   \* whether the event source mapping exists
  cursor,   \* per shard, the last record the mapping has finished with
  batch,    \* per shard, the last record of its current batch
  inv,      \* per shard, the handler's invocation
  second,   \* the wall clock, as far as strftime('%Y%m%d_%H%M%S') shows it
  bronze,   \* per second, the Bronze object with that key ({}: no object)
  dlq,      \* the records in the DLQ bucket
  lost      \* history: per cause, the records that cause took away

vars == <<arrived, mapped, cursor, batch, inv, second, bronze, dlq, lost>>

Seconds == 0 .. MaxSecond

Causes == {"skipped", "expired", "overwritten", "undelivered"}

\* at: the record being parsed; parsed: parsed_records; waited: the DLQ puts
\* that have run through all their timeouts and retries in this invocation.
Invocation == [pc : {"idle", "handler", "returned"}, at : Nat,
               parsed : SUBSET Rec, waited : Nat]

Idle == [pc |-> "idle", at |-> 0, parsed |-> {}, waited |-> 0]

Lose(cause, recs) == lost' = [lost EXCEPT ![cause] = @ \cup recs]

-----------------------------------------------------------------------------
(* Kinesis and the event source mapping                                    *)

Arrive(s) ==
  /\ arrived[s] < Length
  /\ arrived' = [arrived EXCEPT ![s] = @ + 1]
  /\ UNCHANGED <<mapped, cursor, batch, inv, second, bronze, dlq, lost>>

\* StartingPosition='LATEST': what arrived before is never delivered.
CreateEventSourceMapping ==
  /\ ~mapped
  /\ mapped' = TRUE
  /\ cursor' = arrived
  /\ batch' = arrived
  /\ Lose("skipped", {x \in Rec : x[2] <= arrived[x[1]]})
  /\ UNCHANGED <<arrived, inv, second, bronze, dlq>>

\* An invocation with the batch that failed before, or with a new one.
Invoke(s) ==
  /\ mapped
  /\ inv[s].pc = "idle"
  /\ \E last \in 1 .. arrived[s] :
       /\ IF cursor[s] < batch[s] THEN last = batch[s]
          ELSE cursor[s] < last /\ last <= cursor[s] + BatchSize
       /\ batch' = [batch EXCEPT ![s] = last]
  /\ inv' = [inv EXCEPT ![s] = [pc |-> "handler", at |-> cursor[s] + 1,
                                parsed |-> {}, waited |-> 0]]
  /\ UNCHANGED <<arrived, mapped, cursor, second, bronze, dlq, lost>>

\* The handler returned: the mapping moves past the batch.
Acknowledge(s) ==
  /\ inv[s].pc = "returned"
  /\ cursor' = [cursor EXCEPT ![s] = batch[s]]
  /\ inv' = [inv EXCEPT ![s] = Idle]
  /\ UNCHANGED <<arrived, mapped, batch, second, bronze, dlq, lost>>

\* The 60 s limit, an out-of-memory kill, or a result the mapping never gets.
\* It is all that is left for an invocation that has waited as long as it can.
InvocationDies(s) ==
  /\ inv[s].pc # "idle"
  /\ inv' = [inv EXCEPT ![s] = Idle]
  /\ UNCHANGED <<arrived, mapped, cursor, batch, second, bronze, dlq, lost>>

\* RetentionPeriodHours have passed for the oldest record of the shard.
Expire(s) ==
  /\ mapped
  /\ inv[s].pc = "idle"
  /\ cursor[s] < arrived[s]
  /\ cursor' = [cursor EXCEPT ![s] = @ + 1]
  /\ Lose("expired", {<<s, cursor[s] + 1>>})
  /\ UNCHANGED <<arrived, mapped, batch, inv, second, bronze, dlq>>

Tick ==
  /\ second < MaxSecond
  /\ second' = second + 1
  /\ UNCHANGED <<arrived, mapped, cursor, batch, inv, bronze, dlq, lost>>

-----------------------------------------------------------------------------
(* lambda_handler                                                          *)

Parsing(s) == inv[s].pc = "handler" /\ inv[s].at <= batch[s]

AtWrite(s) == inv[s].pc = "handler" /\ inv[s].at > batch[s]

\* The defect of a loop that starts one record early.
CurrentEarly(s) == <<s, inv[s].at - 1>>

Current(s) == <<s, inv[s].at>>

ParseRecord(s) ==
  /\ Parsing(s)
  /\ Current(s) \notin Malformed
  /\ inv' = [inv EXCEPT ![s].at = @ + 1, ![s].parsed = @ \cup {Current(s)}]
  /\ UNCHANGED <<arrived, mapped, cursor, batch, second, bronze, dlq, lost>>

WriteToDlq(s) ==
  /\ Parsing(s)
  /\ Current(s) \in Malformed
  /\ inv' = [inv EXCEPT ![s].at = @ + 1]
  /\ dlq' = dlq \cup {Current(s)}
  /\ UNCHANGED <<arrived, mapped, cursor, batch, second, bronze, lost>>

\* The defect of a handler that lets the DLQ's exception out.
DlqFailsRaised(s) ==
  /\ Parsing(s)
  /\ Current(s) \in Malformed
  /\ inv' = [inv EXCEPT ![s] = Idle]
  /\ UNCHANGED <<arrived, mapped, cursor, batch, second, bronze, dlq, lost>>

\* write_to_dlq raises, at once or after a wait for every attempt (5 s to
\* connect, 10 s to read, two retries); the inner except swallows it and the
\* loop goes on.
DlqFails(s) ==
  /\ Parsing(s)
  /\ Current(s) \in Malformed
  /\ \E wait \in {0, 1} :
       /\ inv[s].waited + wait <= DlqWaits
       /\ inv' = [inv EXCEPT ![s].at = @ + 1, ![s].waited = @ + wait]
  /\ Lose("undelivered", {Current(s)} \ dlq)
  /\ UNCHANGED <<arrived, mapped, cursor, batch, second, bronze, dlq>>

\* What the PUT stores: one object, under the key of the current second.
Stored(s) == inv[s].parsed

PutObject(s) ==
  /\ bronze' = [bronze EXCEPT ![second] = Stored(s)]
  /\ Lose("overwritten", bronze[second] \ Stored(s))

WriteToS3(s) ==
  /\ AtWrite(s)
  /\ inv[s].parsed # {}
  /\ PutObject(s)
  /\ inv' = [inv EXCEPT ![s].pc = "returned"]
  /\ UNCHANGED <<arrived, mapped, cursor, batch, second, dlq>>

NothingToWrite(s) ==
  /\ AtWrite(s)
  /\ inv[s].parsed = {}
  /\ inv' = [inv EXCEPT ![s].pc = "returned"]
  /\ UNCHANGED <<arrived, mapped, cursor, batch, second, bronze, dlq, lost>>

\* The defect of a handler that reports a failed write and returns.
WriteToS3Swallowed(s) ==
  /\ AtWrite(s)
  /\ inv[s].parsed # {}
  /\ inv' = [inv EXCEPT ![s].pc = "returned"]
  /\ UNCHANGED <<arrived, mapped, cursor, batch, second, bronze, dlq, lost>>

\* put_object raises, whether or not S3 stored the object, and so does the
\* handler: the invocation has failed.
WriteToS3Raises(s) ==
  /\ AtWrite(s)
  /\ inv[s].parsed # {}
  /\ PutObject(s) \/ UNCHANGED <<bronze, lost>>
  /\ inv' = [inv EXCEPT ![s] = Idle]
  /\ UNCHANGED <<arrived, mapped, cursor, batch, second, dlq>>

-----------------------------------------------------------------------------
(* Specification                                                           *)

Init ==
  /\ arrived = [s \in Shards |-> 0]
  /\ mapped = FALSE
  /\ cursor = [s \in Shards |-> 0]
  /\ batch = [s \in Shards |-> 0]
  /\ inv = [s \in Shards |-> Idle]
  /\ second = 0
  /\ bronze = [k \in Seconds |-> {}]
  /\ dlq = {}
  /\ lost = [c \in Causes |-> {}]

CallDlq(s) == WriteToDlq(s) \/ DlqFails(s)

HandleRecord(s) == ParseRecord(s) \/ CallDlq(s)

\* A put to a DLQ bucket that does not answer is over only while there is time
\* left to wait for it.
HandleInTime(s) == ParseRecord(s) \/ (inv[s].waited < DlqWaits /\ CallDlq(s))

FinishBatch(s) == WriteToS3(s) \/ NothingToWrite(s)

Next ==
  \/ CreateEventSourceMapping
  \/ Tick
  \/ \E s \in Shards :
       \/ Arrive(s)
       \/ Invoke(s)
       \/ HandleRecord(s)
       \/ FinishBatch(s)
       \/ WriteToS3Raises(s)
       \/ Acknowledge(s)
       \/ InvocationDies(s)
       \/ Expire(s)

Spec == Init /\ [][Next]_vars

\* The mapping keeps invoking.  A step of the handler that is tried for ever
\* gets done some time: for a reliable shard, Lambda, the Bronze bucket and the
\* mapping are not down for ever.  Nothing is assumed of the DLQ bucket: a put
\* is over, one way or another, only while there is time to wait for it.
\* Nothing is assumed of the other shards either, nor of time passing.
Fairness ==
  \A s \in Reliable :
    /\ WF_vars(Invoke(s))
    /\ \A n \in 1 .. Length :
         SF_vars(inv[s].at = n /\ HandleInTime(s))
    /\ SF_vars(FinishBatch(s))
    /\ SF_vars(Acknowledge(s))

FairSpec == Spec /\ Fairness

-----------------------------------------------------------------------------
(* Properties                                                              *)

TypeOK ==
  /\ arrived \in [Shards -> 0 .. Length]
  /\ mapped \in BOOLEAN
  /\ cursor \in [Shards -> 0 .. Length]
  /\ batch \in [Shards -> 0 .. Length]
  /\ inv \in [Shards -> Invocation]
  /\ second \in Seconds
  /\ bronze \in [Seconds -> SUBSET Rec]
  /\ dlq \subseteq Rec
  /\ lost \in [Causes -> SUBSET Rec]

InBronze == UNION {bronze[k] : k \in Seconds}

\* The records the mapping has moved past.
Passed == {x \in Rec : x[2] <= cursor[x[1]]}

\* A record the mapping has moved past is in Bronze when it parses and in the
\* DLQ when it does not, unless it arrived before the mapping, expired, its
\* object was overwritten or its DLQ write failed: retries, timeouts and lost
\* answers of lambda_handler lose nothing else.
LossesAccounted ==
  /\ Passed \ Malformed \subseteq
       InBronze \cup lost["skipped"] \cup lost["expired"] \cup lost["overwritten"]
  /\ Passed \cap Malformed \subseteq
       dlq \cup lost["skipped"] \cup lost["expired"] \cup lost["undelivered"]

\* No batch of the shard has more malformed records than the invocation can
\* wait for the DLQ bucket.
FewMalformed(s) ==
  \A k \in 0 .. Length :
    Cardinality({x \in Malformed : x[1] = s /\ k < x[2] /\ x[2] <= k + BatchSize})
      <= DlqWaits

\* Every record that arrives on a shard that does not fail for ever is passed,
\* without waiting for it to expire.
Drains(s) ==
  \A n \in 1 .. Length : mapped /\ arrived[s] >= n ~> cursor[s] >= n

\* Malformed records do not hold up their shard, even when the DLQ bucket never
\* answers, as long as a batch has no more of them than the Timeout leaves time
\* to wait for; and no shard holds up another, also one whose batches fail for
\* ever (lambda_handler.py:114-120, one invocation per shard).
ShardDrains == \A s \in Reliable : FewMalformed(s) => Drains(s)

=============================================================================
