--------------------------- MODULE KinesisConsumer ---------------------------
(***************************************************************************)
(* kinesis_consumer.py on the infrastructure StreamDeployment creates: one *)
(* loop over the shards that reads, batches in memory and writes a Bronze  *)
(* object, named after the second, when the batch is large or old enough.  *)
(* current is what that second's object holds, stored what earlier ones    *)
(* hold: a second object of the same second replaces the first.            *)
(***************************************************************************)
EXTENDS StreamDeployment

CONSTANTS
  Consumers,  \* processes that run consume()
  Shards,     \* how many shards the stream has
  Length,     \* bound: per shard, how many records arrive on it
  BatchSize,  \* BATCH_SIZE, also the Limit of a read
  Interval,   \* BATCH_INTERVAL_SEC
  Malformed,  \* records parse_record raises on
  MaxStarts   \* bound: consumers started

Rec == UNION {{<<s, n>> : n \in 1 .. Length[s]} : s \in 1 .. Shards}

ASSUME ConsumerAssumption ==
  /\ Shards \in Nat \ {0} /\ Length \in [1 .. Shards -> Nat]
  /\ BatchSize \in Nat \ {0} /\ Interval \in Nat
  /\ Malformed \subseteq Rec /\ MaxStarts \in Nat

VARIABLES
  arrived,  \* per shard, how many records have been put on it
  closed,   \* the shards that were split or merged: they end
  con,      \* per process, its KinesisConsumer and where consume() is
  current,  \* the Bronze object of the second it is
  stored,   \* the records in Bronze objects of earlier seconds
  replaced, \* history: records of an object that another one replaced
  starts    \* consumers started so far

conVars == <<arrived, closed, con, current, stored, replaced, starts>>
vars == <<deployVars, conVars>>

\* at: the shard; pos: the last record read of it; waited: time since last_flush.
Off == [pc |-> "off", at |-> 1, pos |-> 0, batch |-> << >>, waited |-> 0, got |-> {}]

Held(c) == {con[c].batch[i] : i \in DOMAIN con[c].batch}

Bronze == Buckets[1]

-----------------------------------------------------------------------------
\* list_shards on a stream that is not there, or being created, raises.
ListShards(c) ==
  /\ con[c].pc = "off"
  /\ stream = "active"
  /\ starts < MaxStarts
  /\ starts' = starts + 1
  /\ con' = [con EXCEPT ![c] = [Off EXCEPT !.pc = "shard"]]
  /\ UNCHANGED <<deployVars, arrived, closed, current, stored, replaced>>

\* ShardIteratorType 'LATEST': what has arrived before is not read.
GetShardIterator(c) ==
  /\ con[c].pc = "shard"
  /\ con' = [con EXCEPT ![c].pc = "read", ![c].pos = arrived[con[c].at]]
  /\ UNCHANGED <<deployVars, arrived, closed, current, stored, replaced, starts>>

\* The defect of a consumer that does not look at the clock.
ShouldFlushFull(batch, waited) == Len(batch) >= BatchSize

ShouldFlush(batch, waited) == Len(batch) >= BatchSize \/ waited >= Interval

\* The loop goes on with the shard, or, when the iterator is None, with the
\* next one; after the last shard consume() returns with what it still holds.
After(c, pos) ==
  IF ~(con[c].at \in closed /\ pos = arrived[con[c].at]) THEN [pc |-> "read", at |-> con[c].at]
  ELSE IF con[c].at < Shards THEN [pc |-> "shard", at |-> con[c].at + 1]
  ELSE [pc |-> "off", at |-> 1]

\* read_records, then parse_record of each; a record that does not parse ends
\* the consumer: json.dumps in write_to_dlq raises on its bytes.
ReadRecords(c) ==
  /\ con[c].pc = "read"
  /\ \E n \in 0 .. BatchSize :
       /\ con[c].pos + n <= arrived[con[c].at]
       /\ LET recs == [i \in 1 .. n |-> <<con[c].at, con[c].pos + i>>]
              new == {recs[i] : i \in 1 .. n}
              batch == con[c].batch \o recs
              next == After(c, con[c].pos + n)
              flush == ShouldFlush(batch, con[c].waited) /\ batch # << >> IN
          con' = [con EXCEPT ![c] =
            IF new \cap Malformed # {} \/ (~flush /\ next.pc = "off") THEN Off
            ELSE [con[c] EXCEPT !.pc = IF flush THEN "flush" ELSE next.pc,
                                !.at = IF flush THEN con[c].at ELSE next.at,
                                !.pos = con[c].pos + n, !.batch = batch,
                                !.got = con[c].got \cup new]]
  /\ UNCHANGED <<deployVars, arrived, closed, current, stored, replaced, starts>>

\* put_object with the key of this second, whatever that key held.
Put(c) ==
  /\ Bronze \in buckets
  /\ current' = Held(c)
  /\ replaced' = replaced \cup (current \ Held(c))

FlushBatch(c) ==
  /\ con[c].pc = "flush"
  /\ Put(c)
  /\ LET next == After(c, con[c].pos) IN
     con' = [con EXCEPT ![c] =
       IF next.pc = "off" THEN Off
       ELSE [@ EXCEPT !.pc = next.pc, !.at = next.at, !.batch = << >>, !.waited = 0]]
  /\ UNCHANGED <<deployVars, arrived, closed, stored, starts>>

\* The defect of a flush that swallows the error of put_object.
FlushSwallowed(c) ==
  /\ con[c].pc = "flush"
  /\ con' = [con EXCEPT ![c] = [@ EXCEPT !.pc = "read", !.batch = << >>, !.waited = 0]]
  /\ UNCHANGED <<deployVars, arrived, closed, current, stored, replaced, starts>>

\* put_object raises, with the object written or not, and ends the consumer.
FlushFails(c) ==
  /\ con[c].pc = "flush"
  /\ con' = [con EXCEPT ![c] = Off]
  /\ Put(c) \/ UNCHANGED <<current, replaced>>
  /\ UNCHANGED <<deployVars, arrived, closed, stored, starts>>

\* get_records raises (throttled, expired iterator), or the process is killed.
ConsumerDies(c) ==
  /\ con[c].pc \in {"shard", "read"}
  /\ con' = [con EXCEPT ![c] = Off]
  /\ UNCHANGED <<deployVars, arrived, closed, current, stored, replaced, starts>>

Consume(c) == GetShardIterator(c) \/ ReadRecords(c) \/ FlushBatch(c) \/ FlushFails(c)

-----------------------------------------------------------------------------
Arrive ==
  /\ stream = "active"
  /\ \E s \in (1 .. Shards) \ closed :
       arrived[s] < Length[s] /\ arrived' = [arrived EXCEPT ![s] = @ + 1]
  /\ UNCHANGED <<deployVars, closed, con, current, stored, replaced, starts>>

CloseShard ==
  /\ stream = "active"
  /\ \E s \in (1 .. Shards) \ closed : closed' = closed \cup {s}
  /\ UNCHANGED <<deployVars, arrived, con, current, stored, replaced, starts>>

\* The next second: its key is free.
Tick ==
  /\ stored' = stored \cup current
  /\ current' = {}
  /\ con' = [c \in Consumers |->
       IF con[c].pc # "off" /\ con[c].waited < Interval THEN [con[c] EXCEPT !.waited = @ + 1]
       ELSE con[c]]
  /\ UNCHANGED <<deployVars, arrived, closed, replaced, starts>>

-----------------------------------------------------------------------------
Init ==
  /\ DeployInit
  /\ arrived = [s \in 1 .. Shards |-> 0] /\ closed = {}
  /\ con = [c \in Consumers |-> Off]
  /\ current = {} /\ stored = {} /\ replaced = {} /\ starts = 0

Next ==
  \/ DeployNext /\ UNCHANGED conVars
  \/ \E c \in Consumers : ListShards(c) \/ Consume(c) \/ ConsumerDies(c)
  \/ Arrive \/ CloseShard \/ Tick

Spec == Init /\ [][Next]_vars

\* consume() polls for ever, and time passes.
FairSpec == Spec /\ WF_vars(Tick) /\ \A c \in Consumers : WF_vars(Consume(c))

-----------------------------------------------------------------------------
(* Properties                                                              *)

TypeOK ==
  /\ DeployTypeOK
  /\ arrived \in [1 .. Shards -> Nat] /\ (\A s \in 1 .. Shards : arrived[s] <= Length[s]) /\ closed \subseteq 1 .. Shards
  /\ \A c \in Consumers :
       /\ con[c].pc \in {"off", "shard", "read", "flush"}
       /\ con[c].at \in 1 .. Shards /\ con[c].pos \in Nat
       /\ con[c].waited \in 0 .. Interval /\ con[c].got \subseteq Rec
  /\ UNION {current, stored, replaced} \subseteq Rec
  /\ starts \in 0 .. MaxStarts

\* Until it ends, a consumer has the bucket it writes to, whatever runs of the
\* deployment were cut short (deploy_infrastructure.py:166-167 makes the buckets
\* before the stream), and it holds, or has written, all it has read, except for
\* what an object of the same second replaced (kinesis_consumer.py:65, 100-105).
NothingDropped ==
  \A c \in Consumers :
    con[c].pc # "off" =>
      /\ Bronze \in buckets
      /\ con[c].got \subseteq Held(c) \cup current \cup stored \cup replaced

\* A record does not wait in memory for ever on a stream that has fallen silent
\* (kinesis_consumer.py:95-98): the batch is written, or its consumer ends.
BatchIsFlushed ==
  \A c \in Consumers : con[c].batch # << >> ~> con[c].batch = << >>

=============================================================================
