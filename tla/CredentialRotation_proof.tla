---------------------- MODULE CredentialRotation_proof ----------------------
(* Key rotation never leaves the user without a key and no secret outlives *)
(* the threshold plus a period, for any number of processes and secrets,   *)
(* any limits and failures.                                                *)
EXTENDS CredentialRotation, TLAPS

\* What a rotation listed is older than the newest key, and what it has still
\* to delete is older than the key it created.
RotatorInv ==
  \A r \in Rotators :
    /\ rotator[r].pc = "listed" => rotator[r].listed \subseteq 1 .. newest
    /\ rotator[r].pc = "deleting" =>
         \A k \in ToDelete(r) : k \in Nat /\ k < rotator[r].new /\ rotator[r].new <= newest

\* The fields of a rotation, without the bounds of the model.
Rotation == [pc : {"idle", "listed", "deleting"}, listed : SUBSET Nat, new : Nat]
RotatorType == rotator \in [Rotators -> Rotation]

\* The newest key is never deleted: that is what makes NeverKeyless inductive.
KeyInv ==
  /\ newest \in Nat /\ keys \subseteq 1 .. newest /\ newest \in keys
  /\ RotatorType /\ RotatorInv

\* What CreateKey and DeleteKey make of a rotation.
Created(x, k) == [x EXCEPT !.pc = "deleting", !.new = k]
Delisted(x, k) == [x EXCEPT !.listed = @ \ {k}]

LEMMA RotationFields ==
  ASSUME NEW x \in Rotation, NEW k \in Nat
  PROVE  /\ Created(x, k) \in Rotation /\ Created(x, k).pc = "deleting"
         /\ Created(x, k).listed = x.listed /\ Created(x, k).new = k
         /\ Delisted(x, k) \in Rotation /\ Delisted(x, k).pc = x.pc
         /\ Delisted(x, k).listed = x.listed \ {k} /\ Delisted(x, k).new = x.new
<1>1. PICK p \in {"idle", "listed", "deleting"}, S \in SUBSET Nat, n \in Nat :
        x = [pc |-> p, listed |-> S, new |-> n]
  BY DEF Rotation
<1> QED
  BY <1>1 DEF Created, Delisted, Rotation

LEMMA KeyInit == Init => KeyInv
BY DEF Init, KeyInv, RotatorType, Rotation, RotatorInv, NotRotating

\* list_access_keys returns keys that are not newer than the newest.
LEMMA ListKeysStep ==
  ASSUME KeyInv, NEW r \in Rotators, ListKeys(r)
  PROVE  KeyInv'
<1>1. RotatorType'
  BY DEF KeyInv, RotatorType, Rotation, ListKeys
<1>2. ASSUME NEW q \in Rotators, rotator'[q].pc = "listed"
      PROVE  rotator'[q].listed \subseteq 1 .. newest'
  BY <1>2 DEF KeyInv, RotatorType, RotatorInv, ListKeys
<1>3. ASSUME NEW q \in Rotators, rotator'[q].pc = "deleting"
      PROVE  rotator'[q] = rotator[q]
  BY <1>3 DEF KeyInv, RotatorType, ListKeys
<1>4. RotatorInv'
  BY <1>2, <1>3 DEF KeyInv, RotatorType, RotatorInv, ListKeys, ToDelete
<1> QED
  BY <1>1, <1>4 DEF KeyInv, ListKeys

\* create_access_key makes a key newer than everything any rotation has listed;
\* at the limit it raises, and the rotation ends.
LEMMA CreateKeyStep ==
  ASSUME KeyInv, NEW r \in Rotators, CreateKey(r)
  PROVE  KeyInv'
<1>1. CASE Cardinality(keys) < KeyLimit
  <2>1. newest' = newest + 1 /\ keys' = keys \cup {newest + 1}
    BY <1>1 DEF CreateKey
  <2>2. newest' \in Nat /\ keys' \subseteq 1 .. newest' /\ newest' \in keys'
    BY <2>1 DEF KeyInv
  <2> DEFINE x == Created(rotator[r], newest + 1)
  <2>3. rotator' = [rotator EXCEPT ![r] = x]
    BY <1>1, <2>1 DEF CreateKey, Created
  <2>7. x \in Rotation /\ x.pc = "deleting" /\ x.listed = rotator[r].listed /\ x.new = newest + 1
    <3>1. rotator[r] \in Rotation /\ newest + 1 \in Nat
      BY DEF KeyInv, RotatorType
    <3> QED
      BY <3>1, RotationFields
  <2> HIDE DEF x
  <2>4. RotatorType'
    BY <2>3, <2>7 DEF KeyInv, RotatorType
  <2>5. ASSUME NEW q \in Rotators, rotator'[q].pc = "listed"
        PROVE  rotator'[q].listed \subseteq 1 .. newest'
    BY <2>1, <2>3, <2>7, <2>5 DEF KeyInv, RotatorType, RotatorInv
  <2>6. ASSUME NEW q \in Rotators, rotator'[q].pc = "deleting", NEW k \in ToDelete(q)'
        PROVE  k \in Nat /\ k < rotator'[q].new /\ rotator'[q].new <= newest'
    <3>1. CASE q = r
      <4>1. rotator'[r].new = newest + 1 /\ rotator'[r].listed = rotator[r].listed
        BY <2>3, <2>7 DEF KeyInv, RotatorType
      <4>2. k \in 1 .. newest
        BY <4>1, <3>1, <2>6 DEF KeyInv, RotatorInv, CreateKey, ToDelete
      <4> QED
        BY <4>1, <4>2, <3>1, <2>1 DEF KeyInv
    <3>2. CASE q # r
      <4>1. rotator'[q] = rotator[q]
        BY <3>2, <2>3 DEF KeyInv, RotatorType
      <4>2. k \in Nat /\ k < rotator[q].new /\ rotator[q].new <= newest
        BY <4>1, <2>6 DEF KeyInv, RotatorInv, ToDelete
      <4>3. rotator[q].new \in Nat
        BY DEF KeyInv, RotatorType, Rotation
      <4> QED
        BY <4>1, <4>2, <4>3, <2>1 DEF KeyInv
    <3> QED
      BY <3>1, <3>2
  <2> QED
    BY <2>2, <2>4, <2>5, <2>6 DEF KeyInv, RotatorInv
<1>2. CASE ~(Cardinality(keys) < KeyLimit)
  <2>1. UNCHANGED <<keys, newest>> /\ rotator' = [rotator EXCEPT ![r] = NotRotating]
    BY <1>2 DEF CreateKey
  <2> QED
    BY <2>1 DEF KeyInv, RotatorType, Rotation, RotatorInv, NotRotating, ToDelete
<1> QED
  BY <1>1, <1>2

\* delete_access_key takes a key older than the one this rotation created, so
\* never the newest.
LEMMA DeleteKeyStep ==
  ASSUME KeyInv, NEW r \in Rotators, DeleteKey(r)
  PROVE  KeyInv'
<1>1. PICK k \in ToDelete(r) :
        /\ keys' = keys \ {k}
        /\ rotator' = IF k \in keys THEN [rotator EXCEPT ![r].listed = @ \ {k}]
                      ELSE [rotator EXCEPT ![r] = NotRotating]
  BY DEF DeleteKey
<1>2. rotator[r].pc = "deleting" /\ newest' = newest
  BY DEF DeleteKey
<1>3. k \in Nat /\ k < rotator[r].new /\ rotator[r].new <= newest
  BY <1>2, <1>1 DEF KeyInv, RotatorInv
<1>4. rotator[r].new \in Nat
  BY DEF KeyInv, RotatorType, Rotation
<1>5. k # newest
  BY <1>3, <1>4 DEF KeyInv
<1>6. newest' \in Nat /\ keys' \subseteq 1 .. newest' /\ newest' \in keys'
  BY <1>1, <1>2, <1>5 DEF KeyInv
<1>7. CASE k \in keys
  <2> DEFINE x == Delisted(rotator[r], k)
  <2>1. rotator' = [rotator EXCEPT ![r] = x]
    BY <1>1, <1>7 DEF Delisted
  <2>7. x \in Rotation /\ x.pc = rotator[r].pc /\ x.listed \subseteq rotator[r].listed
        /\ x.new = rotator[r].new
    <3>1. rotator[r] \in Rotation
      BY DEF KeyInv, RotatorType
    <3>2. k \in Nat
      BY <1>3
    <3>3. /\ x \in Rotation /\ x.pc = rotator[r].pc
          /\ x.listed = rotator[r].listed \ {k} /\ x.new = rotator[r].new
      BY <3>1, <3>2, RotationFields
    <3> QED
      BY <3>3
  <2> HIDE DEF x
  <2>2. RotatorType'
    BY <2>1, <2>7 DEF KeyInv, RotatorType
  <2>3. ASSUME NEW q \in Rotators
        PROVE  /\ rotator'[q].pc = rotator[q].pc /\ rotator'[q].new = rotator[q].new
               /\ rotator'[q].listed \subseteq rotator[q].listed
    BY <2>1, <2>7 DEF KeyInv, RotatorType
  <2>4. RotatorInv'
    BY <2>3, <1>2 DEF KeyInv, RotatorInv, ToDelete
  <2> QED
    BY <1>6, <2>2, <2>4 DEF KeyInv
<1>8. CASE k \notin keys
  <2>1. rotator' = [rotator EXCEPT ![r] = NotRotating]
    BY <1>1, <1>8
  <2>2. RotatorType' /\ RotatorInv'
    BY <2>1, <1>2 DEF KeyInv, RotatorType, Rotation, RotatorInv, NotRotating, ToDelete
  <2> QED
    BY <1>6, <2>2 DEF KeyInv
<1> QED
  BY <1>7, <1>8

\* A rotation that ends, by its report or by a kill, holds nothing to delete.
LEMMA RotatorEndsStep ==
  ASSUME KeyInv, NEW r \in Rotators, ReportRaises(r) \/ RotatorDies(r)
  PROVE  KeyInv'
<1>1. rotator' = [rotator EXCEPT ![r] = NotRotating] /\ UNCHANGED <<keys, newest>>
  BY DEF ReportRaises, RotatorDies
<1> QED
  BY <1>1 DEF KeyInv, RotatorType, Rotation, RotatorInv, NotRotating, ToDelete

\* No other action touches the keys.
LEMMA KeysUntouched ==
  ASSUME KeyInv, UNCHANGED <<keys, newest, rotator>>
  PROVE  KeyInv'
BY DEF KeyInv, RotatorType, RotatorInv, ToDelete

LEMMA KeyNext == KeyInv /\ [Next]_vars => KeyInv'
<1> SUFFICES ASSUME KeyInv, [Next]_vars
             PROVE  KeyInv'
  OBVIOUS
<1>1. ASSUME NEW r \in Rotators, RotateAll(r)
      PROVE  KeyInv'
  BY <1>1, ListKeysStep, CreateKeyStep, DeleteKeyStep, RotatorEndsStep DEF RotateAll
<1>2. CASE RotateGcpKeys
  BY <1>2, KeysUntouched DEF RotateGcpKeys
<1>3. ASSUME NEW r \in Runners, RotateSecrets(r)
      PROVE  KeyInv'
  BY <1>3, KeysUntouched
     DEF RotateSecrets, StartRun, FinishRun, RunDies, CheckAge, UpdateSecret, TagSecret,
         SecretFails, keyVars
<1>4. CASE \E s \in Secrets : EditSecret(s)
  BY <1>4, KeysUntouched DEF EditSecret, keyVars
<1>5. CASE MissRun \/ NextDay
  BY <1>5, KeysUntouched DEF MissRun, NextDay, keyVars
<1>6. CASE UNCHANGED vars
  BY <1>6, KeysUntouched DEF vars, keyVars
<1> QED
  BY <1>1, <1>2, <1>3, <1>4, <1>5, <1>6 DEF Next

\* The user has an access key at every moment, however many rotations run at
\* once and wherever they are killed (key_rotation.py:34-40).
THEOREM AlwaysAKey == Spec => []NeverKeyless
<1>1. KeyInv => NeverKeyless
  BY DEF KeyInv, NeverKeyless
<1> QED
  BY KeyInit, KeyNext, <1>1, PTL DEF Spec

-----------------------------------------------------------------------------
(* Secrets                                                                 *)

Step == {"check", "update", "tag"}
Run == [pc : {"idle", "next"}, todo : SUBSET (Secrets \X Step)]

\* The part of TypeOK that is about the secrets.
SecretTypes ==
  /\ day \in 0 .. MaxDay /\ ranOn \in 0 .. MaxDay
  /\ value \in [Secrets -> 0 .. day] /\ changed \in [Secrets -> 0 .. day]
  /\ excused \subseteq Secrets
  /\ runner \in [Runners -> Run]

\* A run is started or missed on every multiple of Period, and the next one is
\* due at most Period days after it.
Calendar ==
  /\ \E q \in Nat : ranOn = q * Period
  /\ ranOn <= day /\ day <= ranOn + Period

\* A run that is over has nothing to do; a secret is tagged on the day its value
\* was written.
Underway ==
  /\ \A r \in Runners : runner[r].pc = "idle" => runner[r].todo = {}
  /\ \A r \in Runners, s \in Secrets : <<s, "tag">> \in runner[r].todo => value[s] = day

\* Some run still has to look at the secret or to overwrite it.
Pending(s) ==
  \E r \in Runners : <<s, "check">> \in runner[r].todo \/ <<s, "update">> \in runner[r].todo

\* The secret was not due at the last run, or that run is today and has not come
\* to it yet.
Rotated(s) ==
  /\ changed[s] = value[s]
  /\ \/ ranOn <= value[s] + RotationDays
     \/ ranOn = day /\ Pending(s) /\ day <= value[s] + RotationDays + Period

\* SecretAgeBounded says nothing of where the runs are, so it is not inductive.
SecretInv ==
  SecretTypes /\ Calendar /\ Underway /\ \A s \in Secrets \ excused : Rotated(s)

LEMMA SecretInit == Init => SecretInv
<1> SUFFICES ASSUME Init
             PROVE  SecretInv
  OBVIOUS
<1>1. SecretTypes
  BY RotationAssumption DEF Init, SecretTypes, Run, NotRunning
<1>2. Calendar
  <2>1. ranOn = 0 * Period /\ day = 1 /\ Period >= 1
    BY RotationAssumption DEF Init
  <2> QED
    BY <2>1, RotationAssumption DEF Calendar
<1>3. Underway /\ \A s \in Secrets : Rotated(s)
  BY RotationAssumption DEF Init, Underway, Rotated, NotRunning
<1> QED
  BY <1>1, <1>2, <1>3 DEF SecretInv

\* The day a run is due is Period days after the last one.
LEMMA DueAfterPeriod ==
  ASSUME SecretInv, day % Period = 0
  PROVE  day = ranOn \/ day = ranOn + Period
<1>1. PICK q \in Nat : ranOn = q * Period
  BY DEF SecretInv, Calendar
<1>2. ranOn \in Nat /\ day \in Nat /\ ranOn <= day /\ day <= ranOn + Period /\ Period \in Nat
  BY RotationAssumption DEF SecretInv, SecretTypes, Calendar
<1>3. ASSUME day - ranOn < Period
      PROVE  day = ranOn
  <2> DEFINE j == day - ranOn
  <2>1. j \in Nat /\ j < Period /\ day = q * Period + j
    BY <1>1, <1>2, <1>3
  <2> HIDE DEF j
  <2>2. (q * Period + j) % Period = j
    BY <2>1, <1>2
  <2>3. j = 0
    BY <2>1, <2>2
  <2> QED
    BY <2>1, <2>3, <1>1, <1>2
<1> QED
  BY <1>2, <1>3

LEMMA NextMultiple ==
  ASSUME SecretInv
  PROVE  (\E q \in Nat : ranOn + Period = q * Period) /\ (ranOn + Period) % Period = 0
<1>1. PICK q \in Nat : ranOn = q * Period
  BY DEF SecretInv, Calendar
<1>2. Period \in Nat /\ Period > 0 /\ ranOn \in Nat
  BY RotationAssumption DEF SecretInv, SecretTypes
<1>3. ranOn + Period = (q + 1) * Period
  BY <1>1, <1>2
<1>4. \A n, k \in Nat : n = k * Period => n % Period = 0
  BY <1>2
<1>5. ranOn + Period \in Nat /\ q + 1 \in Nat
  BY <1>2
<1> QED
  BY <1>3, <1>4, <1>5

\* What a step of the loop does to the runs.
LEMMA ProceedFields ==
  ASSUME SecretTypes, NEW r \in Runners, NEW s \in Secrets, NEW step \in Step,
         NEW next \in SUBSET Step, Proceed(r, s, step, next)
  PROVE  /\ runner' \in [Runners -> Run]
         /\ runner'[r].pc = runner[r].pc
         /\ runner'[r].todo = (runner[r].todo \ {<<s, step>>}) \cup {<<s, n>> : n \in next}
         /\ \A q \in Runners : q # r => runner'[q] = runner[q]
<1> DEFINE todo == (runner[r].todo \ {<<s, step>>}) \cup {<<s, n>> : n \in next}
<1>1. runner[r] \in Run
  BY DEF SecretTypes
<1>2. PICK p \in {"idle", "next"}, T \in SUBSET (Secrets \X Step) :
        runner[r] = [pc |-> p, todo |-> T]
  BY <1>1 DEF Run
<1>3. todo \in SUBSET (Secrets \X Step)
  BY <1>2
<1>4. runner' = [runner EXCEPT ![r].todo = todo]
  BY DEF Proceed
<1> HIDE DEF todo
<1>5. runner' = [runner EXCEPT ![r] = [pc |-> p, todo |-> todo]]
  <2>1. runner' = [runner EXCEPT ![r] = [runner[r] EXCEPT !.todo = todo]]
    BY <1>4
  <2>2. [runner[r] EXCEPT !.todo = todo] = [pc |-> p, todo |-> todo]
    BY <1>2
  <2> QED
    BY <2>1, <2>2
<1>6. [pc |-> p, todo |-> todo] \in Run
  BY <1>3 DEF Run
<1> QED
  BY <1>2, <1>5, <1>6 DEF SecretTypes, todo

\* A run that has something to do is not over.
LEMMA AtWork ==
  ASSUME Underway, NEW r \in Runners, NEW s, NEW step, At(r, s, step)
  PROVE  runner[r].pc # "idle" /\ <<s, step>> \in runner[r].todo
BY DEF Underway, At

\* A secret stays rotated while the runs and the calendar leave it alone.
LEMMA StaysRotated ==
  ASSUME SecretInv, NEW s \in Secrets, Rotated(s), UNCHANGED <<day, ranOn>>,
         value'[s] = value[s], changed'[s] = changed[s], Pending(s) => Pending(s)'
  PROVE  Rotated(s)'
BY DEF Rotated

LEMMA StartRunStep ==
  ASSUME SecretInv, NEW r \in Runners, StartRun(r)
  PROVE  SecretInv'
<1> DEFINE new == [pc |-> "next", todo |-> {<<s, "check">> : s \in Secrets}]
<1>1. new \in Run /\ new.pc = "next" /\ new.todo = {<<s, "check">> : s \in Secrets}
  BY DEF Run, Step
<1>2. /\ runner' = [runner EXCEPT ![r] = new] /\ runner[r].pc = "idle"
      /\ ranOn' = (IF Due THEN day ELSE ranOn) /\ UNCHANGED <<day, value, changed, excused>>
  BY DEF StartRun
<1> HIDE DEF new
<1>3. SecretTypes'
  BY <1>1, <1>2 DEF SecretInv, SecretTypes
<1>4. /\ runner'[r] = new /\ \A q \in Runners : q # r => runner'[q] = runner[q]
  BY <1>2 DEF SecretInv, SecretTypes
<1>5. Underway'
  BY <1>1, <1>2, <1>4 DEF SecretInv, Underway
<1>6. \A s \in Secrets : Pending(s)'
  BY <1>1, <1>4 DEF Pending
<1>7. CASE Due
  <2>1. day = ranOn + Period /\ ranOn' = day
    BY <1>2, <1>7, DueAfterPeriod DEF Due
  <2>2. Calendar'
    BY <1>2, <2>1, NextMultiple, RotationAssumption DEF SecretInv, SecretTypes, Calendar
  <2>3. ASSUME NEW s \in Secrets \ excused
        PROVE  Rotated(s)'
    <3>1. Rotated(s) /\ ranOn # day
      BY <1>7 DEF SecretInv, Due
    <3>2. changed[s] = value[s] /\ ranOn <= value[s] + RotationDays
      BY <3>1 DEF Rotated
    <3>3. value[s] \in Nat /\ ranOn \in Nat
      BY DEF SecretInv, SecretTypes
    <3> QED
      BY <3>2, <3>3, <1>2, <1>6, <2>1, RotationAssumption DEF Rotated
  <2> QED
    BY <1>2, <1>3, <1>5, <2>2, <2>3 DEF SecretInv
<1>8. CASE ~Due
  <2>1. ranOn' = ranOn
    BY <1>2, <1>8
  <2> QED
    BY <1>2, <1>3, <1>5, <1>6, <2>1, StaysRotated DEF SecretInv, Calendar
<1> QED
  BY <1>7, <1>8

\* A secret that is left alone was last changed at most ROTATION_DAYS ago.
LEMMA CheckAgeStep ==
  ASSUME SecretInv, NEW r \in Runners, NEW s \in Secrets, CheckAge(r, s)
  PROVE  SecretInv'
<1>0. PICK days_old \in {day - changed[s], day - changed[s] - 1} :
        Proceed(r, s, "check", IF days_old >= RotationDays THEN {"update"} ELSE {})
  BY DEF CheckAge
<1> DEFINE next == IF days_old >= RotationDays THEN {"update"} ELSE {}
<1>1. next \in SUBSET Step /\ "check" \in Step
  BY DEF Step
<1>2. At(r, s, "check") /\ UNCHANGED <<day, value, changed, excused, ranOn>>
  BY DEF CheckAge
<1>3. Proceed(r, s, "check", next)
  BY <1>0
<1> HIDE DEF next
<1>4. /\ runner' \in [Runners -> Run] /\ runner'[r].pc = runner[r].pc
      /\ runner'[r].todo = (runner[r].todo \ {<<s, "check">>}) \cup {<<s, n>> : n \in next}
      /\ \A q \in Runners : q # r => runner'[q] = runner[q]
  BY <1>1, <1>3, ProceedFields DEF SecretInv
<1>5. runner[r].pc # "idle"
  BY <1>2, AtWork DEF SecretInv
<1>6. "tag" \notin next
  BY DEF next
<1>7. Underway'
  BY <1>2, <1>4, <1>5, <1>6 DEF SecretInv, Underway
<1>8. ASSUME NEW u \in Secrets \ excused
      PROVE  Rotated(u)'
  <2>1. Rotated(u)
    BY DEF SecretInv
  <2>2. CASE u # s \/ "update" \in next
    <3>1. Pending(u) => Pending(u)'
      BY <1>4, <2>2 DEF Pending
    <3> QED
      BY <1>2, <2>1, <3>1, StaysRotated
  <2>3. CASE u = s /\ "update" \notin next
    <3>1. day - changed[s] <= RotationDays
      <4>1. ~(days_old >= RotationDays)
        BY <2>3 DEF next
      <4>2. day \in Nat /\ changed[s] \in Nat /\ RotationDays \in Nat
        BY RotationAssumption DEF SecretInv, SecretTypes
      <4> QED
        BY <1>0, <4>1, <4>2
    <3>2. /\ changed[s] = value[s] /\ ranOn <= day
          /\ value[s] \in Nat /\ ranOn \in Nat /\ day \in Nat
      BY <2>1, <2>3 DEF SecretInv, SecretTypes, Calendar, Rotated
    <3>3. ranOn <= value[s] + RotationDays
      BY <3>1, <3>2, RotationAssumption
    <3> QED
      BY <1>2, <2>3, <3>2, <3>3 DEF Rotated
  <2> QED
    BY <2>2, <2>3
<1> QED
  BY <1>2, <1>4, <1>7, <1>8 DEF SecretInv, SecretTypes, Calendar

LEMMA UpdateSecretStep ==
  ASSUME SecretInv, NEW r \in Runners, NEW s \in Secrets, UpdateSecret(r, s)
  PROVE  SecretInv'
<1>1. /\ At(r, s, "update") /\ Proceed(r, s, "update", {"tag"})
      /\ value' = [value EXCEPT ![s] = day] /\ changed' = [changed EXCEPT ![s] = day]
      /\ excused' = excused \ {s} /\ UNCHANGED <<day, ranOn>>
  BY DEF UpdateSecret
<1>2. /\ runner' \in [Runners -> Run] /\ runner'[r].pc = runner[r].pc
      /\ runner'[r].todo = (runner[r].todo \ {<<s, "update">>}) \cup {<<s, n>> : n \in {"tag"}}
      /\ \A q \in Runners : q # r => runner'[q] = runner[q]
  BY <1>1, ProceedFields DEF SecretInv, Step
<1>3. /\ day \in 0 .. day /\ value' \in [Secrets -> 0 .. day'] /\ changed' \in [Secrets -> 0 .. day']
      /\ value'[s] = day /\ changed'[s] = day
      /\ \A u \in Secrets : u # s => value'[u] = value[u] /\ changed'[u] = changed[u]
  BY <1>1 DEF SecretInv, SecretTypes
<1>4. runner[r].pc # "idle"
  BY <1>1, AtWork DEF SecretInv
<1>5. Underway'
  BY <1>1, <1>2, <1>3, <1>4 DEF SecretInv, Underway
<1>6. ASSUME NEW u \in Secrets \ excused'
      PROVE  Rotated(u)'
  <2>1. CASE u = s
    BY <2>1, <1>1, <1>3, RotationAssumption DEF Rotated, SecretInv, SecretTypes, Calendar
  <2>2. CASE u # s
    <3>1. Rotated(u)
      BY <1>1, <2>2 DEF SecretInv
    <3>2. Pending(u) => Pending(u)'
      BY <1>2, <2>2 DEF Pending
    <3> QED
      BY <1>1, <1>3, <2>2, <3>1, <3>2, StaysRotated
  <2> QED
    BY <2>1, <2>2
<1> QED
  BY <1>1, <1>2, <1>3, <1>5, <1>6 DEF SecretInv, SecretTypes, Calendar

\* The date a tag leaves is the one the value has already.
LEMMA TagSecretStep ==
  ASSUME SecretInv, NEW r \in Runners, NEW s \in Secrets, TagSecret(r, s)
  PROVE  SecretInv'
<1>1. /\ At(r, s, "tag") /\ Proceed(r, s, "tag", {})
      /\ changed' = [changed EXCEPT ![s] = day]
      /\ UNCHANGED <<day, value, excused, ranOn>>
  BY DEF TagSecret
<1>2. /\ runner' \in [Runners -> Run] /\ runner'[r].pc = runner[r].pc
      /\ runner'[r].todo = (runner[r].todo \ {<<s, "tag">>}) \cup {<<s, n>> : n \in {}}
      /\ \A q \in Runners : q # r => runner'[q] = runner[q]
  BY <1>1, ProceedFields DEF SecretInv, Step
<1>3. runner[r].pc # "idle" /\ value[s] = day
  BY <1>1, AtWork DEF SecretInv, Underway
<1>4. /\ changed' \in [Secrets -> 0 .. day'] /\ changed'[s] = value[s]
      /\ \A u \in Secrets : u # s => changed'[u] = changed[u]
  BY <1>1, <1>3 DEF SecretInv, SecretTypes
<1>5. Underway'
  BY <1>1, <1>2, <1>3 DEF SecretInv, Underway
<1>6. ASSUME NEW u \in Secrets \ excused
      PROVE  Rotated(u)'
  <2>1. Rotated(u)
    BY DEF SecretInv
  <2>2. changed'[u] = changed[u]
    BY <1>4, <2>1 DEF Rotated
  <2>3. Pending(u) => Pending(u)'
    BY <1>2 DEF Pending
  <2> QED
    BY <1>1, <2>1, <2>2, <2>3, StaysRotated
<1> QED
  BY <1>1, <1>2, <1>4, <1>5, <1>6 DEF SecretInv, SecretTypes, Calendar

\* A secret that could not be looked at or overwritten is excused.
LEMMA SecretFailsStep ==
  ASSUME SecretInv, NEW r \in Runners, NEW s \in Secrets, SecretFails(r, s)
  PROVE  SecretInv'
<1>1. PICK step \in Step :
        /\ At(r, s, step) /\ Proceed(r, s, step, {})
        /\ excused' = IF step = "tag" THEN excused ELSE excused \cup {s}
        /\ UNCHANGED <<day, value, changed, ranOn>>
  BY DEF SecretFails, Step
<1>2. /\ runner' \in [Runners -> Run] /\ runner'[r].pc = runner[r].pc
      /\ runner'[r].todo = (runner[r].todo \ {<<s, step>>}) \cup {<<s, n>> : n \in {}}
      /\ \A q \in Runners : q # r => runner'[q] = runner[q]
  BY <1>1, ProceedFields DEF SecretInv, Step
<1>3. runner[r].pc # "idle"
  BY <1>1, AtWork DEF SecretInv
<1>4. Underway'
  BY <1>1, <1>2, <1>3 DEF SecretInv, Underway
<1>5. ASSUME NEW u \in Secrets \ excused'
      PROVE  Rotated(u)'
  <2>1. Rotated(u) /\ (step = "tag" \/ u # s)
    BY <1>1 DEF SecretInv
  <2>2. Pending(u) => Pending(u)'
    BY <1>2, <2>1 DEF Pending
  <2> QED
    BY <1>1, <2>1, <2>2, StaysRotated
<1> QED
  BY <1>1, <1>2, <1>4, <1>5 DEF SecretInv, SecretTypes, Calendar

\* A run that ends, done or killed, leaves nothing pending but the excused.
LEMMA RunEndsStep ==
  ASSUME SecretInv, NEW r \in Runners, FinishRun(r) \/ RunDies(r)
  PROVE  SecretInv'
<1>1. /\ runner' = [runner EXCEPT ![r] = NotRunning]
      /\ UNCHANGED <<day, value, changed, ranOn>>
      /\ excused \subseteq excused' /\ excused' \subseteq Secrets
      /\ \A s \in Secrets \ excused' :
           <<s, "check">> \notin runner[r].todo /\ <<s, "update">> \notin runner[r].todo
  BY DEF FinishRun, RunDies, SecretInv, SecretTypes
<1>2. NotRunning \in Run /\ NotRunning.todo = {}
  BY DEF Run, NotRunning
<1>3. /\ runner' \in [Runners -> Run] /\ runner'[r] = NotRunning
      /\ \A q \in Runners : q # r => runner'[q] = runner[q]
  BY <1>1, <1>2 DEF SecretInv, SecretTypes
<1>4. Underway'
  BY <1>1, <1>2, <1>3 DEF SecretInv, Underway
<1>5. ASSUME NEW s \in Secrets \ excused'
      PROVE  Rotated(s)'
  <2>1. Rotated(s)
    BY <1>1 DEF SecretInv
  <2>2. Pending(s) => Pending(s)'
    BY <1>1, <1>3 DEF Pending
  <2> QED
    BY <1>1, <2>1, <2>2, StaysRotated
<1> QED
  BY <1>1, <1>3, <1>4, <1>5 DEF SecretInv, SecretTypes, Calendar

LEMMA EditSecretStep ==
  ASSUME SecretInv, NEW s \in Secrets, EditSecret(s)
  PROVE  SecretInv'
<1>1. /\ changed' = [changed EXCEPT ![s] = day] /\ excused' = excused \cup {s}
      /\ UNCHANGED <<day, value, ranOn, runner>>
  BY DEF EditSecret
<1>2. changed' \in [Secrets -> 0 .. day'] /\ excused' \subseteq Secrets
  BY <1>1 DEF SecretInv, SecretTypes
<1>3. ASSUME NEW u \in Secrets \ excused'
      PROVE  Rotated(u)'
  <2>1. Rotated(u) /\ u # s
    BY <1>1 DEF SecretInv
  <2>2. changed'[u] = changed[u] /\ (Pending(u) => Pending(u)')
    BY <1>1, <2>1 DEF SecretInv, SecretTypes, Pending
  <2> QED
    BY <1>1, <2>1, <2>2, StaysRotated
<1> QED
  BY <1>1, <1>2, <1>3 DEF SecretInv, SecretTypes, Calendar, Underway

\* A run that is missed excuses every secret.
LEMMA MissRunStep ==
  ASSUME SecretInv, MissRun
  PROVE  SecretInv'
<1>1. Due /\ ranOn' = day /\ excused' = Secrets /\ UNCHANGED <<day, value, changed, runner>>
  BY DEF MissRun
<1>2. day = ranOn + Period
  BY <1>1, DueAfterPeriod DEF Due
<1>3. Calendar'
  BY <1>1, <1>2, NextMultiple, RotationAssumption DEF SecretInv, SecretTypes, Calendar
<1> QED
  BY <1>1, <1>3 DEF SecretInv, SecretTypes, Underway

\* No day ends before the run that is due on it, nor while a run is under way.
LEMMA NextDayStep ==
  ASSUME SecretInv, NextDay
  PROVE  SecretInv'
<1>1. /\ day < MaxDay /\ ~Due /\ day' = day + 1
      /\ UNCHANGED <<value, changed, excused, ranOn, runner>>
      /\ \A r \in Runners : runner[r].todo = {}
  BY DEF NextDay, SecretInv, Underway
<1>2. day # ranOn + Period
  <2>1. day % Period = 0 => ranOn = day
    BY <1>1 DEF Due
  <2>2. ranOn # ranOn + Period
    BY RotationAssumption DEF SecretInv, SecretTypes
  <2> QED
    BY <2>1, <2>2, NextMultiple
<1>3. Calendar'
  BY <1>1, <1>2, RotationAssumption DEF SecretInv, SecretTypes, Calendar
<1>4. SecretTypes'
  <2>1. /\ day' \in 0 .. MaxDay /\ 0 .. day \subseteq 0 .. day'
        /\ value \in [Secrets -> 0 .. day] /\ changed \in [Secrets -> 0 .. day]
    BY <1>1, RotationAssumption DEF SecretInv, SecretTypes
  <2>2. value \in [Secrets -> 0 .. day'] /\ changed \in [Secrets -> 0 .. day']
    BY <2>1
  <2> QED
    BY <1>1, <2>1, <2>2 DEF SecretInv, SecretTypes
<1>5. Underway'
  BY <1>1 DEF SecretInv, Underway
<1>6. ASSUME NEW s \in Secrets \ excused
      PROVE  Rotated(s)'
  <2>1. Rotated(s) /\ ~Pending(s)
    BY <1>1 DEF SecretInv, Pending
  <2> QED
    BY <1>1, <2>1 DEF Rotated
<1> QED
  BY <1>1, <1>3, <1>4, <1>5, <1>6 DEF SecretInv

LEMMA SecretsUntouched ==
  ASSUME SecretInv, UNCHANGED secretVars
  PROVE  SecretInv'
BY DEF SecretInv, SecretTypes, Calendar, Underway, Rotated, Pending, secretVars

LEMMA SecretNext == SecretInv /\ [Next]_vars => SecretInv'
<1> SUFFICES ASSUME SecretInv, [Next]_vars
             PROVE  SecretInv'
  OBVIOUS
<1>1. CASE RotateGcpKeys \/ UNCHANGED vars
  BY <1>1, SecretsUntouched DEF RotateGcpKeys, vars
<1>2. ASSUME NEW r \in Rotators, RotateAll(r)
      PROVE  SecretInv'
  BY <1>2, SecretsUntouched
     DEF RotateAll, ListKeys, CreateKey, DeleteKey, ReportRaises, RotatorDies
<1>3. ASSUME NEW r \in Runners, RotateSecrets(r)
      PROVE  SecretInv'
  BY <1>3, StartRunStep, RunEndsStep, CheckAgeStep, UpdateSecretStep, TagSecretStep,
     SecretFailsStep DEF RotateSecrets
<1>4. CASE (\E s \in Secrets : EditSecret(s)) \/ MissRun \/ NextDay
  BY <1>4, EditSecretStep, MissRunStep, NextDayStep
<1> QED
  BY <1>1, <1>2, <1>3, <1>4 DEF Next

\* A secret that nothing interfered with is never older than the threshold plus
\* the days between two runs, whatever the other secrets' failures, however many
\* runs overlap, for any threshold and period (rotate_secrets.py:26-66, 98).
THEOREM SecretsRotateInTime == Spec => []SecretAgeBounded
<1>1. SecretInv => SecretAgeBounded
  <2> SUFFICES ASSUME SecretInv, NEW s \in Secrets \ excused
               PROVE  day - value[s] <= RotationDays + Period
    BY DEF SecretAgeBounded
  <2>1. Rotated(s) /\ value[s] \in Nat /\ day \in Nat /\ ranOn \in Nat /\ day <= ranOn + Period
    BY DEF SecretInv, SecretTypes, Calendar
  <2> QED
    BY <2>1, RotationAssumption DEF Rotated
<1> QED
  BY SecretInit, SecretNext, <1>1, PTL DEF Spec

-----------------------------------------------------------------------------
(* Types                                                                   *)

\* The part of TypeOK that is about the keys.
KeyTypes ==
  /\ keys \subseteq Key /\ newest \in Key /\ gcp \in 0 .. GcpLimit
  /\ rotator \in [Rotators ->
       [pc : {"idle", "listed", "deleting"}, listed : SUBSET Key, new : {0} \cup Key]]

LEMMA KeyTypesInit == Init => KeyTypes
BY RotationAssumption DEF Init, KeyTypes, Key, NotRotating

LEMMA KeyTypesNext == KeyTypes /\ [Next]_vars => KeyTypes'
<1> SUFFICES ASSUME KeyTypes, [Next]_vars
             PROVE  KeyTypes'
  OBVIOUS
<1>1. CASE RotateGcpKeys
  BY <1>1, RotationAssumption DEF RotateGcpKeys, KeyTypes
<1>2. ASSUME NEW r \in Rotators, ListKeys(r) \/ ReportRaises(r) \/ RotatorDies(r)
      PROVE  KeyTypes'
  BY <1>2 DEF ListKeys, ReportRaises, RotatorDies, KeyTypes, NotRotating
<1>3. ASSUME NEW r \in Rotators, CreateKey(r)
      PROVE  KeyTypes'
  <2>1. newest + 1 \in Key \/ ~(newest < MaxKey)
    BY RotationAssumption DEF KeyTypes, Key
  <2> QED
    BY <1>3, <2>1 DEF CreateKey, KeyTypes, NotRotating
<1>4. ASSUME NEW r \in Rotators, DeleteKey(r)
      PROVE  KeyTypes'
  BY <1>4 DEF DeleteKey, KeyTypes, NotRotating
<1>5. CASE UNCHANGED keyVars
  BY <1>5 DEF keyVars, KeyTypes
<1>6. ASSUME NEW r \in Runners, RotateSecrets(r)
      PROVE  UNCHANGED keyVars
  BY <1>6 DEF RotateSecrets, StartRun, FinishRun, RunDies, CheckAge, UpdateSecret, TagSecret,
              SecretFails
<1>7. (\E s \in Secrets : EditSecret(s)) \/ MissRun \/ NextDay \/ UNCHANGED vars
        => UNCHANGED keyVars
  BY DEF EditSecret, MissRun, NextDay, vars
<1> QED
  BY <1>1, <1>2, <1>3, <1>4, <1>5, <1>6, <1>7 DEF Next, RotateAll

\* The types of both rotation jobs.
THEOREM RotationTypes == Spec => []TypeOK
<1>1. KeyTypes /\ SecretInv => TypeOK
  BY DEF KeyTypes, SecretInv, SecretTypes, Run, Step, TypeOK
<1> QED
  BY KeyTypesInit, KeyTypesNext, SecretInit, SecretNext, <1>1, PTL DEF Spec

=============================================================================
