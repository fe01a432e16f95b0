------------------------ MODULE StreamIngestion_proof ------------------------
(* What the Lambda path may lose, for any number of shards, records and      *)
(* seconds, any batch size and any malformed records.                        *)
EXTENDS StreamIngestion, TLAPS

\* The handler is inside its batch, and nothing runs before the mapping exists.
Bounds ==
  /\ ~mapped => \A s \in Shards : inv[s].pc = "idle"
  /\ \A s \in Shards :
       inv[s].pc = "handler" =>
         cursor[s] < batch[s] /\ cursor[s] < inv[s].at /\ inv[s].at <= batch[s] + 1

LEMMA StreamTypeInit == Init => TypeOK /\ Bounds
<1> SUFFICES ASSUME Init PROVE TypeOK /\ Bounds
  OBVIOUS
<1>1. Idle \in Invocation /\ Idle.pc = "idle"
  BY DEF Idle, Invocation
<1>2. \A s \in Shards : inv[s] \in Invocation /\ inv[s].pc = "idle"
  BY <1>1 DEF Init
<1>3. inv \in [Shards -> Invocation]
  BY <1>1 DEF Init
<1>4. 0 \in 0 .. Length /\ 0 \in Seconds
  BY StreamAssumption DEF Seconds
<1>5. TypeOK
  BY <1>3, <1>4 DEF Init, TypeOK
<1> QED
  BY <1>2, <1>5 DEF Bounds

LEMMA PutType ==
  ASSUME TypeOK, NEW s \in Shards, PutObject(s)
  PROVE  bronze' \in [Seconds -> SUBSET Rec] /\ lost' \in [Causes -> SUBSET Rec]
<1>1. Stored(s) \in SUBSET Rec /\ bronze[second] \in SUBSET Rec
  BY DEF TypeOK, Stored, Invocation
<1> QED
  BY <1>1 DEF TypeOK, PutObject, Lose

\* What one invocation's step does to inv, for any new value of it.
LEMMA InvocationStep ==
  ASSUME TypeOK, Bounds, NEW s \in Shards, NEW i \in Invocation,
         inv' = [inv EXCEPT ![s] = i], mapped,
         UNCHANGED <<arrived, mapped, cursor, second>>,
         batch' \in [Shards -> 0 .. Length],
         \A q \in Shards \ {s} : batch'[q] = batch[q],
         i.pc = "handler" =>
           cursor[s] < batch'[s] /\ cursor[s] < i.at /\ i.at <= batch'[s] + 1,
         bronze' \in [Seconds -> SUBSET Rec], dlq' \in SUBSET Rec,
         lost' \in [Causes -> SUBSET Rec]
  PROVE  TypeOK' /\ Bounds'
<1>1. TypeOK'
  BY DEF TypeOK
<1>2. inv'[s] = i /\ \A q \in Shards \ {s} : inv'[q] = inv[q]
  BY DEF TypeOK
<1>3. ASSUME NEW q \in Shards, inv'[q].pc = "handler"
      PROVE  /\ cursor'[q] < batch'[q] /\ cursor'[q] < inv'[q].at
             /\ inv'[q].at <= batch'[q] + 1
  <2>1. CASE q = s
    BY <1>2, <1>3, <2>1
  <2>2. CASE q # s
    BY <1>2, <1>3, <2>2 DEF Bounds
  <2> QED
    BY <2>1, <2>2
<1> QED
  BY <1>1, <1>3 DEF Bounds

LEMMA StreamTypeStep == TypeOK /\ Bounds /\ [Next]_vars => TypeOK' /\ Bounds'
<1> SUFFICES ASSUME TypeOK, Bounds, [Next]_vars PROVE TypeOK' /\ Bounds'
  OBVIOUS
<1>0. /\ Idle \in Invocation /\ Idle.pc = "idle"
      /\ Length \in Nat /\ MaxSecond \in Nat
      /\ \A s \in Shards : inv[s].pc # "idle" => mapped
  BY StreamAssumption DEF Idle, Invocation, Bounds
<1>1. CASE CreateEventSourceMapping
  <2>1. {x \in Rec : x[2] <= arrived[x[1]]} \in SUBSET Rec
    OBVIOUS
  <2>2. lost' \in [Causes -> SUBSET Rec]
    BY <1>1, <2>1 DEF TypeOK, CreateEventSourceMapping, Lose
  <2> QED
    BY <1>1, <2>2 DEF TypeOK, Bounds, CreateEventSourceMapping
<1>2. CASE Tick
  BY <1>0, <1>2 DEF TypeOK, Bounds, Tick, Seconds
<1>3. ASSUME NEW s \in Shards, Arrive(s) PROVE TypeOK' /\ Bounds'
  BY <1>0, <1>3 DEF TypeOK, Bounds, Arrive
<1>4. ASSUME NEW s \in Shards, Invoke(s) PROVE TypeOK' /\ Bounds'
  <2> DEFINE i == [pc |-> "handler", at |-> cursor[s] + 1, parsed |-> {}, waited |-> 0]
  <2>1. cursor[s] \in Nat /\ batch[s] \in Nat /\ arrived[s] \in 0 .. Length
    BY <1>0 DEF TypeOK
  <2>2. i \in Invocation /\ i.at = cursor[s] + 1
    BY <2>1 DEF Invocation
  <2>3. PICK last \in 1 .. arrived[s] :
          /\ cursor[s] < last
          /\ batch' = [batch EXCEPT ![s] = last]
    BY <1>4, <2>1 DEF Invoke
  <2>4. last \in 0 .. Length
    BY <1>0, <2>1
  <2>5. /\ batch' \in [Shards -> 0 .. Length] /\ batch'[s] = last
        /\ \A q \in Shards \ {s} : batch'[q] = batch[q]
    BY <2>3, <2>4 DEF TypeOK
  <2>6. /\ inv' = [inv EXCEPT ![s] = i] /\ mapped
        /\ UNCHANGED <<arrived, mapped, cursor, second, bronze, dlq, lost>>
    BY <1>4 DEF Invoke
  <2> HIDE DEF i
  <2>7. bronze' \in [Seconds -> SUBSET Rec] /\ dlq' \in SUBSET Rec
        /\ lost' \in [Causes -> SUBSET Rec]
    BY <2>6 DEF TypeOK
  <2>8. cursor[s] < batch'[s] /\ cursor[s] < i.at /\ i.at <= batch'[s] + 1
    BY <2>1, <2>2, <2>3, <2>4, <2>5
  <2> QED
    BY <2>2, <2>5, <2>6, <2>7, <2>8, InvocationStep
<1>5. ASSUME NEW s \in Shards, Acknowledge(s) PROVE TypeOK' /\ Bounds'
  <2>1. inv'[s] = Idle /\ \A q \in Shards \ {s} : inv'[q] = inv[q]
    BY <1>5 DEF TypeOK, Acknowledge
  <2>2. \A q \in Shards \ {s} : cursor'[q] = cursor[q]
    BY <1>5 DEF TypeOK, Acknowledge
  <2>3. TypeOK'
    BY <1>0, <1>5 DEF TypeOK, Acknowledge
  <2>4. \A q \in Shards : inv'[q].pc = "handler" => q # s
    BY <1>0, <2>1
  <2>5. mapped /\ mapped' = mapped /\ batch' = batch
    BY <1>0, <1>5 DEF Acknowledge
  <2> QED
    BY <2>1, <2>2, <2>3, <2>4, <2>5 DEF Bounds
<1>6. ASSUME NEW s \in Shards, InvocationDies(s) PROVE TypeOK' /\ Bounds'
  <2>1. /\ inv' = [inv EXCEPT ![s] = Idle] /\ mapped
        /\ UNCHANGED <<arrived, mapped, cursor, batch, second, bronze, dlq, lost>>
    BY <1>0, <1>6 DEF InvocationDies
  <2>2. /\ batch' \in [Shards -> 0 .. Length] /\ bronze' \in [Seconds -> SUBSET Rec]
        /\ dlq' \in SUBSET Rec /\ lost' \in [Causes -> SUBSET Rec]
    BY <2>1 DEF TypeOK
  <2> QED
    BY <1>0, <2>1, <2>2, InvocationStep
<1>7. ASSUME NEW s \in Shards, Expire(s) PROVE TypeOK' /\ Bounds'
  <2>1. cursor[s] + 1 \in 1 .. Length /\ cursor[s] + 1 \in 0 .. Length
    BY <1>0, <1>7 DEF TypeOK, Expire
  <2>2. <<s, cursor[s] + 1>> \in Rec
    BY <2>1 DEF Rec
  <2>3. TypeOK'
    BY <1>7, <2>1, <2>2 DEF TypeOK, Expire, Lose
  <2>4. \A q \in Shards \ {s} : cursor'[q] = cursor[q]
    BY <1>7 DEF TypeOK, Expire
  <2>5. inv[s].pc = "idle" /\ UNCHANGED <<inv, mapped, batch>>
    BY <1>7 DEF Expire
  <2> QED
    BY <2>3, <2>4, <2>5 DEF Bounds
<1>8. ASSUME NEW s \in Shards, HandleRecord(s) PROVE TypeOK' /\ Bounds'
  <2>1. /\ inv[s] \in Invocation /\ inv[s].pc = "handler" /\ inv[s].at <= batch[s]
        /\ cursor[s] < inv[s].at /\ cursor[s] < batch[s]
        /\ cursor[s] \in Nat /\ batch[s] \in 0 .. Length /\ mapped
    BY <1>0, <1>8 DEF TypeOK, Bounds, HandleRecord, CallDlq, ParseRecord, WriteToDlq,
                      DlqFails, Parsing
  <2>2. /\ inv[s].at \in 1 .. Length /\ inv[s].parsed \in SUBSET Rec
        /\ inv[s].waited \in Nat
    BY <1>0, <2>1 DEF Invocation
  <2>3. Current(s) \in Rec
    BY <2>2 DEF Current, Rec
  <2>4. PICK i \in Invocation :
          inv' = [inv EXCEPT ![s] = i] /\ i.at = inv[s].at + 1
    <3>1. CASE ParseRecord(s)
      <4> DEFINE more == inv[s].parsed \cup {Current(s)}
                 keep == [inv[s] EXCEPT !.at = inv[s].at + 1, !.parsed = more]
      <4>1. more \in SUBSET Rec /\ inv[s].at + 1 \in Nat
        BY <2>2, <2>3
      <4>2. inv' = [inv EXCEPT ![s] = keep]
        BY <3>1 DEF ParseRecord
      <4> HIDE DEF more
      <4>3. keep \in Invocation /\ keep.at = inv[s].at + 1
        BY <2>1, <4>1 DEF Invocation
      <4> QED
        BY <4>2, <4>3
    <3>2. CASE WriteToDlq(s)
      <4> DEFINE skip == [inv[s] EXCEPT !.at = inv[s].at + 1]
      <4>1. inv' = [inv EXCEPT ![s] = skip]
        BY <3>2 DEF WriteToDlq
      <4>2. skip \in Invocation /\ skip.at = inv[s].at + 1
        BY <2>1, <2>2 DEF Invocation
      <4> QED
        BY <4>1, <4>2
    <3>3. CASE DlqFails(s)
      <4>1. PICK w \in {0, 1} :
              inv' = [inv EXCEPT ![s] = [inv[s] EXCEPT !.at = inv[s].at + 1,
                                                      !.waited = inv[s].waited + w]]
        BY <3>3 DEF DlqFails
      <4> DEFINE skip == [inv[s] EXCEPT !.at = inv[s].at + 1,
                                        !.waited = inv[s].waited + w]
      <4>2. skip \in Invocation /\ skip.at = inv[s].at + 1
        <5>1. inv[s].at + 1 \in Nat /\ inv[s].waited + w \in Nat
          BY <2>2
        <5> QED
          BY <2>1, <5>1 DEF Invocation
      <4> QED
        BY <4>1, <4>2
    <3> QED
      BY <1>8, <3>1, <3>2, <3>3 DEF HandleRecord, CallDlq
  <2>5. UNCHANGED <<arrived, mapped, cursor, batch, second, bronze>>
    BY <1>8 DEF HandleRecord, CallDlq, ParseRecord, WriteToDlq, DlqFails
  <2>6. dlq' \in SUBSET Rec /\ lost' \in [Causes -> SUBSET Rec]
    BY <1>8, <2>3 DEF TypeOK, HandleRecord, CallDlq, ParseRecord, WriteToDlq, DlqFails, Lose
  <2>7. /\ batch' \in [Shards -> 0 .. Length] /\ bronze' \in [Seconds -> SUBSET Rec]
        /\ batch' = batch
    BY <2>5 DEF TypeOK
  <2>8. cursor[s] < i.at /\ i.at <= batch[s] + 1
    BY <2>1, <2>2, <2>4
  <2> QED
    BY <2>1, <2>4, <2>5, <2>6, <2>7, <2>8, InvocationStep
<1>9. ASSUME NEW s \in Shards, FinishBatch(s) \/ WriteToS3Raises(s)
      PROVE  TypeOK' /\ Bounds'
  <2> DEFINE back == [inv[s] EXCEPT !.pc = "returned"]
  <2>1. inv[s] \in Invocation /\ mapped
    BY <1>0, <1>9 DEF TypeOK, FinishBatch, WriteToS3, NothingToWrite,
                      WriteToS3Raises, AtWrite
  <2>2. back \in Invocation /\ back.pc = "returned"
    BY <2>1 DEF Invocation
  <2>3. /\ inv' = [inv EXCEPT ![s] = back] \/ inv' = [inv EXCEPT ![s] = Idle]
        /\ UNCHANGED <<arrived, mapped, cursor, batch, second, dlq>>
        /\ PutObject(s) \/ UNCHANGED <<bronze, lost>>
    BY <1>9 DEF FinishBatch, WriteToS3, NothingToWrite, WriteToS3Raises
  <2> HIDE DEF back
  <2>4. bronze' \in [Seconds -> SUBSET Rec] /\ lost' \in [Causes -> SUBSET Rec]
    BY <2>3, PutType DEF TypeOK
  <2>5. /\ batch' \in [Shards -> 0 .. Length] /\ batch' = batch /\ dlq' \in SUBSET Rec
    BY <2>3 DEF TypeOK
  <2> QED
    BY <1>0, <2>1, <2>2, <2>3, <2>4, <2>5, InvocationStep
<1>10. CASE UNCHANGED vars
  BY <1>10 DEF TypeOK, Bounds, vars
<1> QED
  BY <1>1, <1>2, <1>3, <1>4, <1>5, <1>6, <1>7, <1>8, <1>9, <1>10 DEF Next

\* Every variable keeps its type: a batch lies on its shard, an invocation in
\* its batch, and what is stored or lost is made of records that exist.
THEOREM StreamTypeCorrect == Spec => []TypeOK
BY StreamTypeInit, StreamTypeStep, PTL DEF Spec

\* Where a record that the mapping has moved past must be.
Kept(x) ==
  IF x \in Malformed
  THEN x \in dlq \cup lost["skipped"] \cup lost["expired"] \cup lost["undelivered"]
  ELSE x \in InBronze \cup lost["skipped"] \cup lost["expired"] \cup lost["overwritten"]

\* The handler holds every well-formed record of its batch up to the one it is
\* at, and has seen to every malformed one.
HandlerInv(s) ==
  inv[s].pc = "handler" =>
    \A x \in Rec : x[1] = s /\ cursor[s] < x[2] /\ x[2] < inv[s].at =>
      IF x \in Malformed THEN Kept(x) ELSE x \in inv[s].parsed

\* Once the handler has returned, its whole batch is kept.
ReturnedInv(s) ==
  inv[s].pc = "returned" =>
    \A x \in Rec : x[1] = s /\ cursor[s] < x[2] /\ x[2] <= batch[s] => Kept(x)

PassedKept == \A x \in Rec : x[2] <= cursor[x[1]] => Kept(x)

\* The inductive invariant of the accounting.
LossInv == /\ TypeOK /\ Bounds
           /\ PassedKept
           /\ \A s \in Shards : HandlerInv(s) /\ ReturnedInv(s)

LEMMA RecFields ==
  ASSUME NEW x \in Rec
  PROVE  x[1] \in Shards /\ x[2] \in 1 .. Length /\ x = <<x[1], x[2]>>
BY DEF Rec

LEMMA LoseGrows ==
  ASSUME TypeOK, NEW c \in Causes, NEW R \in SUBSET Rec, Lose(c, R)
  PROVE  /\ \A d \in Causes : lost[d] \subseteq lost'[d]
         /\ R \subseteq lost'[c]
BY DEF TypeOK, Lose

\* A PUT keeps what Bronze held, or says that it was overwritten.
LEMMA PutKeeps ==
  ASSUME TypeOK, NEW s \in Shards, PutObject(s)
  PROVE  /\ InBronze \subseteq InBronze' \cup lost'["overwritten"]
         /\ inv[s].parsed \subseteq InBronze'
         /\ \A d \in Causes : lost[d] \subseteq lost'[d]
<1>1. /\ second \in Seconds /\ bronze[second] \ Stored(s) \in SUBSET Rec
      /\ "overwritten" \in Causes
  BY DEF TypeOK, Causes
<1>2. /\ \A d \in Causes : lost[d] \subseteq lost'[d]
      /\ bronze[second] \ Stored(s) \subseteq lost'["overwritten"]
  BY <1>1, LoseGrows DEF PutObject
<1>3. /\ bronze'[second] = inv[s].parsed
      /\ \A k \in Seconds \ {second} : bronze'[k] = bronze[k]
  BY <1>1 DEF TypeOK, PutObject, Stored
<1>4. inv[s].parsed \subseteq InBronze'
  BY <1>1, <1>3 DEF InBronze
<1>5. ASSUME NEW x \in InBronze PROVE x \in InBronze' \cup lost'["overwritten"]
  <2>1. PICK k \in Seconds : x \in bronze[k]
    BY <1>5 DEF InBronze
  <2>2. CASE k = second
    BY <1>2, <1>4, <2>1, <2>2 DEF Stored
  <2>3. CASE k # second
    BY <1>3, <2>1, <2>3 DEF InBronze
  <2> QED
    BY <2>2, <2>3
<1> QED
  BY <1>2, <1>4, <1>5

\* Nothing kept is ever lost without a cause.
LEMMA StepKeeps ==
  ASSUME TypeOK, Bounds, [Next]_vars
  PROVE  \A x : Kept(x) => Kept(x)'
<1> SUFFICES /\ dlq \subseteq dlq' /\ \A d \in Causes : lost[d] \subseteq lost'[d]
             /\ InBronze \subseteq InBronze' \cup lost'["overwritten"]
  BY DEF Kept, Causes
<1>1. CASE UNCHANGED <<bronze, dlq, lost>>
  BY <1>1 DEF InBronze
<1>2. CASE CreateEventSourceMapping
  <2>1. "skipped" \in Causes /\ {x \in Rec : x[2] <= arrived[x[1]]} \in SUBSET Rec
    BY DEF Causes
  <2> QED
    BY <1>2, <2>1, LoseGrows DEF CreateEventSourceMapping, InBronze
<1>3. ASSUME NEW s \in Shards, Expire(s)
      PROVE  /\ dlq \subseteq dlq' /\ \A d \in Causes : lost[d] \subseteq lost'[d]
             /\ InBronze \subseteq InBronze' \cup lost'["overwritten"]
  <2>1. "expired" \in Causes /\ <<s, cursor[s] + 1>> \in Rec
    BY <1>3, StreamAssumption DEF Causes, Expire, Rec, TypeOK
  <2> QED
    BY <1>3, <2>1, LoseGrows DEF Expire, InBronze
<1>4. ASSUME NEW s \in Shards, DlqFails(s)
      PROVE  /\ dlq \subseteq dlq' /\ \A d \in Causes : lost[d] \subseteq lost'[d]
             /\ InBronze \subseteq InBronze' \cup lost'["overwritten"]
  <2>1. "undelivered" \in Causes /\ {Current(s)} \ dlq \in SUBSET Rec
    BY <1>4, StreamAssumption DEF Causes, DlqFails
  <2> QED
    BY <1>4, <2>1, LoseGrows DEF DlqFails, InBronze
<1>5. ASSUME NEW s \in Shards, WriteToDlq(s)
      PROVE  /\ dlq \subseteq dlq' /\ \A d \in Causes : lost[d] \subseteq lost'[d]
             /\ InBronze \subseteq InBronze' \cup lost'["overwritten"]
  BY <1>5 DEF WriteToDlq, InBronze
<1>6. ASSUME NEW s \in Shards, WriteToS3(s) \/ WriteToS3Raises(s)
      PROVE  /\ dlq \subseteq dlq' /\ \A d \in Causes : lost[d] \subseteq lost'[d]
             /\ InBronze \subseteq InBronze' \cup lost'["overwritten"]
  <2>1. dlq' = dlq /\ (PutObject(s) \/ UNCHANGED <<bronze, lost>>)
    BY <1>6 DEF WriteToS3, WriteToS3Raises
  <2> QED
    BY <2>1, PutKeeps DEF InBronze
<1>7. ASSUME NEW s \in Shards,
             \/ Arrive(s) \/ Invoke(s) \/ ParseRecord(s) \/ NothingToWrite(s)
             \/ Acknowledge(s) \/ InvocationDies(s)
      PROVE  UNCHANGED <<bronze, dlq, lost>>
  BY <1>7 DEF Arrive, Invoke, ParseRecord, NothingToWrite, Acknowledge, InvocationDies
<1>8. CASE Tick \/ UNCHANGED vars
  BY <1>1, <1>8 DEF Tick, vars
<1> QED
  BY <1>1, <1>2, <1>3, <1>4, <1>5, <1>6, <1>7, <1>8
  DEF Next, HandleRecord, CallDlq, FinishBatch

\* A step that does not move the cursor of q nor touch its invocation.
LEMMA OtherShard ==
  ASSUME LossInv, [Next]_vars, NEW q \in Shards,
         cursor'[q] = cursor[q], batch'[q] = batch[q], inv'[q] = inv[q]
  PROVE  HandlerInv(q)' /\ ReturnedInv(q)'
<1>1. \A x : Kept(x) => Kept(x)'
  BY StepKeeps DEF LossInv
<1> QED
  BY <1>1 DEF LossInv, HandlerInv, ReturnedInv

LEMMA SameCursor ==
  ASSUME LossInv, [Next]_vars, cursor' = cursor
  PROVE  PassedKept'
<1>1. \A x : Kept(x) => Kept(x)'
  BY StepKeeps DEF LossInv
<1> QED
  BY <1>1 DEF LossInv, PassedKept

LEMMA LossInit == Init => LossInv
<1> SUFFICES ASSUME Init PROVE LossInv
  OBVIOUS
<1>1. \A s \in Shards : inv[s].pc = "idle" /\ cursor[s] = 0
  BY DEF Init, Idle
<1>2. PassedKept
  BY <1>1, RecFields DEF PassedKept
<1> QED
  BY <1>1, <1>2, StreamTypeInit DEF LossInv, HandlerInv, ReturnedInv

\* The step of an invocation: only shard s matters.
LEMMA HandlerStepLoss ==
  ASSUME LossInv, [Next]_vars, NEW s \in Shards,
         HandleRecord(s) \/ FinishBatch(s) \/ WriteToS3Raises(s)
  PROVE  LossInv'
<1>0. TypeOK /\ Bounds /\ TypeOK' /\ Bounds' /\ HandlerInv(s)
  BY StreamTypeStep DEF LossInv
<1>1. \A x : Kept(x) => Kept(x)'
  BY StepKeeps DEF LossInv
<1>2. UNCHANGED <<cursor, batch>> /\ \A q \in Shards \ {s} : inv'[q] = inv[q]
  BY <1>0 DEF HandleRecord, CallDlq, ParseRecord, WriteToDlq, DlqFails, FinishBatch,
              WriteToS3, NothingToWrite, WriteToS3Raises, TypeOK
<1>3. PassedKept' /\ \A q \in Shards \ {s} : HandlerInv(q)' /\ ReturnedInv(q)'
  BY <1>2, OtherShard, SameCursor
<1>4. /\ inv[s] \in Invocation /\ inv[s].pc = "handler"
      /\ inv[s].at \in Nat /\ cursor[s] \in Nat /\ batch[s] \in Nat
      /\ cursor[s] < inv[s].at /\ inv[s].at <= batch[s] + 1
  BY <1>0 DEF HandleRecord, CallDlq, ParseRecord, WriteToDlq, DlqFails, FinishBatch, Parsing,
              WriteToS3, NothingToWrite, WriteToS3Raises, AtWrite, TypeOK, Bounds,
              Invocation
<1>5. CASE HandleRecord(s)
  <2>0. PICK cur : cur = Current(s)
    OBVIOUS
  <2>1. /\ inv'[s].pc = "handler" /\ inv'[s].at = inv[s].at + 1
        /\ inv[s].parsed \subseteq inv'[s].parsed
        /\ cur \in Malformed => Kept(cur)'
        /\ cur \notin Malformed => cur \in inv'[s].parsed
    <3>1. CASE ParseRecord(s)
      <4> DEFINE more == inv[s].parsed \cup {cur}
                 i    == [inv[s] EXCEPT !.at = inv[s].at + 1, !.parsed = more]
      <4>1. inv' = [inv EXCEPT ![s] = i] /\ cur \notin Malformed
        BY <2>0, <3>1 DEF ParseRecord
      <4>2. i.pc = "handler" /\ i.at = inv[s].at + 1 /\ i.parsed = more
        BY <1>4 DEF Invocation
      <4> HIDE DEF i
      <4>3. inv'[s] = i
        BY <1>0, <4>1 DEF TypeOK
      <4> QED
        BY <4>1, <4>2, <4>3
    <3>2. CASE WriteToDlq(s) \/ DlqFails(s)
      <4>1. cur \in Malformed
        BY <2>0, <3>2 DEF WriteToDlq, DlqFails
      <4>2. PICK i : /\ inv' = [inv EXCEPT ![s] = i]
                     /\ i.pc = "handler" /\ i.at = inv[s].at + 1
                     /\ i.parsed = inv[s].parsed
        <5>1. CASE WriteToDlq(s)
          <6> DEFINE skip == [inv[s] EXCEPT !.at = inv[s].at + 1]
          <6>1. inv' = [inv EXCEPT ![s] = skip]
            BY <5>1 DEF WriteToDlq
          <6>2. /\ skip.pc = "handler" /\ skip.at = inv[s].at + 1
                /\ skip.parsed = inv[s].parsed
            BY <1>4 DEF Invocation
          <6> QED
            BY <6>1, <6>2
        <5>2. CASE DlqFails(s)
          <6>1. PICK w \in {0, 1} :
                  inv' = [inv EXCEPT ![s] = [inv[s] EXCEPT !.at = inv[s].at + 1,
                                                          !.waited = inv[s].waited + w]]
            BY <5>2 DEF DlqFails
          <6> DEFINE skip == [inv[s] EXCEPT !.at = inv[s].at + 1,
                                            !.waited = inv[s].waited + w]
          <6>2. /\ skip.pc = "handler" /\ skip.at = inv[s].at + 1
                /\ skip.parsed = inv[s].parsed
            BY <1>4 DEF Invocation
          <6> QED
            BY <6>1, <6>2
        <5> QED
          BY <3>2, <5>1, <5>2
      <4>3. inv'[s] = i
        BY <1>0, <4>2 DEF TypeOK
      <4>4. cur \in dlq' \cup lost'["undelivered"]
        <5>1. CASE WriteToDlq(s)
          BY <2>0, <5>1 DEF WriteToDlq
        <5>2. CASE DlqFails(s)
          <6>1. {cur} \ dlq \in SUBSET Rec /\ "undelivered" \in Causes
            BY <4>1, StreamAssumption DEF Causes
          <6>2. {cur} \ dlq \subseteq lost'["undelivered"] /\ dlq' = dlq
            BY <1>0, <2>0, <5>2, <6>1, LoseGrows DEF DlqFails
          <6> QED
            BY <6>2
        <5> QED
          BY <3>2, <5>1, <5>2
      <4> QED
        BY <4>1, <4>2, <4>3, <4>4 DEF Kept
    <3> QED
      BY <1>5, <3>1, <3>2 DEF HandleRecord, CallDlq
  <2>2. ASSUME NEW x \in Rec, x[1] = s, cursor'[s] < x[2], x[2] < inv'[s].at
        PROVE  IF x \in Malformed THEN Kept(x)' ELSE x \in inv'[s].parsed
    <3>1. CASE x[2] = inv[s].at
      BY <2>0, <2>1, <2>2, <3>1, RecFields DEF Current
    <3>2. CASE x[2] # inv[s].at
      <4>1. x[2] < inv[s].at /\ cursor[s] < x[2]
        BY <1>2, <1>4, <2>1, <2>2, <3>2, RecFields
      <4>2. IF x \in Malformed THEN Kept(x) ELSE x \in inv[s].parsed
        BY <1>0, <1>4, <2>2, <4>1 DEF HandlerInv
      <4> QED
        BY <1>1, <2>1, <4>2
    <3> QED
      BY <3>1, <3>2
  <2>3. HandlerInv(s)' /\ ReturnedInv(s)'
    BY <2>1, <2>2 DEF HandlerInv, ReturnedInv
  <2> QED
    BY <1>0, <1>3, <2>3 DEF LossInv
<1>6. CASE FinishBatch(s)
  <2>1. /\ inv[s].at > batch[s]
        /\ inv' = [inv EXCEPT ![s] = [inv[s] EXCEPT !.pc = "returned"]]
    BY <1>6 DEF FinishBatch, WriteToS3, NothingToWrite, AtWrite
  <2>2. inv'[s].pc = "returned"
    <3> DEFINE i == [inv[s] EXCEPT !.pc = "returned"]
    <3>1. i.pc = "returned"
      BY <1>4 DEF Invocation
    <3> HIDE DEF i
    <3> QED
      BY <1>0, <2>1, <3>1 DEF TypeOK, i
  <2>3. inv[s].parsed \subseteq InBronze'
    <3>1. CASE WriteToS3(s)
      BY <1>0, <3>1, PutKeeps DEF WriteToS3
    <3>2. CASE NothingToWrite(s)
      BY <3>2 DEF NothingToWrite
    <3> QED
      BY <1>6, <3>1, <3>2 DEF FinishBatch
  <2>4. ASSUME NEW x \in Rec, x[1] = s, cursor'[s] < x[2], x[2] <= batch'[s]
        PROVE  Kept(x)'
    <3>1. cursor[s] < x[2] /\ x[2] < inv[s].at
      BY <1>2, <1>4, <2>1, <2>4, RecFields
    <3>2. IF x \in Malformed THEN Kept(x) ELSE x \in inv[s].parsed
      BY <1>0, <1>4, <2>4, <3>1 DEF HandlerInv
    <3>3. CASE x \in Malformed
      BY <1>1, <3>2, <3>3
    <3>4. CASE x \notin Malformed
      BY <2>3, <3>2, <3>4 DEF Kept
    <3> QED
      BY <3>3, <3>4
  <2>5. HandlerInv(s)' /\ ReturnedInv(s)'
    BY <2>2, <2>4 DEF HandlerInv, ReturnedInv
  <2> QED
    BY <1>0, <1>3, <2>5 DEF LossInv
<1>7. CASE WriteToS3Raises(s)
  <2>1. inv'[s].pc = "idle"
    BY <1>0, <1>7 DEF WriteToS3Raises, TypeOK, Idle
  <2>2. HandlerInv(s)' /\ ReturnedInv(s)'
    BY <2>1 DEF HandlerInv, ReturnedInv
  <2> QED
    BY <1>0, <1>3, <2>2 DEF LossInv
<1> QED
  BY <1>5, <1>6, <1>7

LEMMA LossStep == LossInv /\ [Next]_vars => LossInv'
<1> SUFFICES ASSUME LossInv, [Next]_vars PROVE LossInv'
  OBVIOUS
<1>0. TypeOK /\ Bounds /\ TypeOK' /\ Bounds'
  BY StreamTypeStep DEF LossInv
<1>1. \A x : Kept(x) => Kept(x)'
  BY <1>0, StepKeeps
<1>2. CASE UNCHANGED <<cursor, batch, inv>>
  <2>1. \A q \in Shards : HandlerInv(q)' /\ ReturnedInv(q)'
    BY <1>2, OtherShard
  <2> QED
    BY <1>0, <1>2, <2>1, SameCursor DEF LossInv
<1>3. CASE CreateEventSourceMapping
  <2>1. \A q \in Shards : inv'[q].pc = "idle"
    BY <1>0, <1>3 DEF CreateEventSourceMapping, Bounds
  <2>2. {x \in Rec : x[2] <= cursor'[x[1]]} \subseteq lost'["skipped"]
    <3>1. "skipped" \in Causes /\ {x \in Rec : x[2] <= arrived[x[1]]} \in SUBSET Rec
      BY DEF Causes
    <3> QED
      BY <1>0, <1>3, <3>1, LoseGrows DEF CreateEventSourceMapping
  <2>3. PassedKept'
    BY <2>2 DEF PassedKept, Kept
  <2> QED
    BY <1>0, <2>1, <2>3 DEF LossInv, HandlerInv, ReturnedInv
<1>4. ASSUME NEW s \in Shards, Invoke(s) PROVE LossInv'
  <2> DEFINE i == [pc |-> "handler", at |-> cursor[s] + 1, parsed |-> {}, waited |-> 0]
  <2>1. /\ cursor' = cursor /\ cursor[s] \in Nat /\ inv'[s] = i
        /\ \A q \in Shards \ {s} : batch'[q] = batch[q] /\ inv'[q] = inv[q]
    BY <1>0, <1>4 DEF TypeOK, Invoke
  <2>2. i.pc = "handler" /\ i.at = cursor[s] + 1
    OBVIOUS
  <2> HIDE DEF i
  <2>3. \A x \in Rec : ~(cursor[s] < x[2] /\ x[2] < cursor[s] + 1)
    BY <2>1, RecFields
  <2>4. HandlerInv(s)' /\ ReturnedInv(s)'
    BY <2>1, <2>2, <2>3 DEF HandlerInv, ReturnedInv
  <2>5. \A q \in Shards \ {s} : HandlerInv(q)' /\ ReturnedInv(q)'
    BY <2>1, OtherShard
  <2> QED
    BY <1>0, <2>1, <2>4, <2>5, SameCursor DEF LossInv
<1>5. ASSUME NEW s \in Shards, Acknowledge(s) PROVE LossInv'
  <2>1. /\ cursor'[s] = batch[s] /\ batch' = batch /\ inv'[s].pc = "idle"
        /\ \A q \in Shards \ {s} : cursor'[q] = cursor[q] /\ inv'[q] = inv[q]
        /\ cursor[s] \in Nat /\ batch[s] \in Nat
    BY <1>0, <1>5 DEF TypeOK, Acknowledge, Idle
  <2>2. ASSUME NEW x \in Rec, x[2] <= cursor'[x[1]] PROVE Kept(x)'
    <3>1. CASE x[1] = s /\ cursor[s] < x[2]
      <4>1. Kept(x)
        BY <1>5, <2>1, <2>2, <3>1 DEF LossInv, ReturnedInv, Acknowledge
      <4> QED
        BY <1>1, <4>1
    <3>2. CASE ~(x[1] = s /\ cursor[s] < x[2])
      <4>1. x[2] <= cursor[x[1]]
        BY <2>1, <2>2, <3>2, RecFields
      <4> QED
        BY <1>1, <4>1 DEF LossInv, PassedKept
    <3> QED
      BY <3>1, <3>2
  <2>3. HandlerInv(s)' /\ ReturnedInv(s)'
    BY <2>1 DEF HandlerInv, ReturnedInv
  <2>4. \A q \in Shards \ {s} : HandlerInv(q)' /\ ReturnedInv(q)'
    BY <2>1, OtherShard
  <2> QED
    BY <1>0, <2>2, <2>3, <2>4 DEF LossInv, PassedKept
<1>6. ASSUME NEW s \in Shards, InvocationDies(s) PROVE LossInv'
  <2>1. /\ UNCHANGED <<cursor, batch>> /\ inv'[s].pc = "idle"
        /\ \A q \in Shards \ {s} : inv'[q] = inv[q]
    BY <1>0, <1>6 DEF TypeOK, InvocationDies, Idle
  <2>2. HandlerInv(s)' /\ ReturnedInv(s)'
    BY <2>1 DEF HandlerInv, ReturnedInv
  <2>3. \A q \in Shards \ {s} : HandlerInv(q)' /\ ReturnedInv(q)'
    BY <2>1, OtherShard
  <2> QED
    BY <1>0, <2>1, <2>2, <2>3, SameCursor DEF LossInv
<1>7. ASSUME NEW s \in Shards, Expire(s) PROVE LossInv'
  <2>1. /\ cursor'[s] = cursor[s] + 1 /\ cursor[s] \in Nat
        /\ UNCHANGED <<batch, inv>> /\ inv[s].pc = "idle"
        /\ \A q \in Shards \ {s} : cursor'[q] = cursor[q]
    BY <1>0, <1>7 DEF TypeOK, Expire
  <2>2. <<s, cursor[s] + 1>> \in lost'["expired"]
    <3>1. "expired" \in Causes /\ {<<s, cursor[s] + 1>>} \in SUBSET Rec
      BY <1>0, <1>7, StreamAssumption DEF Causes, Expire, Rec, TypeOK
    <3> QED
      BY <1>0, <1>7, <3>1, LoseGrows DEF Expire
  <2>3. ASSUME NEW x \in Rec, x[2] <= cursor'[x[1]] PROVE Kept(x)'
    <3>1. CASE x = <<s, cursor[s] + 1>>
      BY <2>2, <3>1 DEF Kept
    <3>2. CASE x # <<s, cursor[s] + 1>>
      <4>1. x[2] <= cursor[x[1]]
        BY <2>1, <2>3, <3>2, RecFields
      <4> QED
        BY <1>1, <4>1 DEF LossInv, PassedKept
    <3> QED
      BY <3>1, <3>2
  <2>4. HandlerInv(s)' /\ ReturnedInv(s)'
    BY <2>1 DEF HandlerInv, ReturnedInv
  <2>5. \A q \in Shards \ {s} : HandlerInv(q)' /\ ReturnedInv(q)'
    BY <2>1, OtherShard
  <2> QED
    BY <1>0, <2>3, <2>4, <2>5 DEF LossInv, PassedKept
<1>8. ASSUME NEW s \in Shards,
             HandleRecord(s) \/ FinishBatch(s) \/ WriteToS3Raises(s)
      PROVE  LossInv'
  BY <1>8, HandlerStepLoss
<1>9. ASSUME NEW s \in Shards, Arrive(s) PROVE LossInv'
  BY <1>2, <1>9 DEF Arrive
<1>10. CASE Tick \/ UNCHANGED vars
  BY <1>2, <1>10 DEF Tick, vars
<1> QED
  BY <1>3, <1>4, <1>5, <1>6, <1>7, <1>8, <1>9, <1>10 DEF Next

\* Whatever fails, times out or is retried, a record the event source mapping has
\* moved past is in Bronze or the DLQ, or was lost to one of four causes:
\* skipped by LATEST, expired, its object overwritten, or its DLQ write failed.
THEOREM LossesAreAccounted == Spec => []LossesAccounted
<1>1. LossInv => LossesAccounted
  BY DEF LossInv, PassedKept, Kept, LossesAccounted, Passed
<1> QED
  BY <1>1, LossInit, LossStep, PTL DEF Spec

=============================================================================
