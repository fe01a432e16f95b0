-------------------------- MODULE CredentialRotation --------------------------
(***************************************************************************)
(* The two rotation jobs.  key_rotation.py replaces the access keys of one *)
(* IAM user: it lists them, creates one, then deletes those it listed, and *)
(* raises when it reports the result.  rotate_secrets.py runs every week   *)
(* and overwrites each secret that was last changed ROTATION_DAYS ago or   *)
(* earlier.  Either can be started by hand while another run is under way. *)
(***************************************************************************)
EXTENDS Naturals, FiniteSets

CONSTANTS
  Rotators,      \* processes that run key_rotation.py
  KeyLimit,      \* access keys IAM allows a user to have
  MaxKey,        \* bound: keys ever created
  GcpLimit,      \* keys GCP allows a service account to have
  Runners,       \* processes that run rotate_secrets.py
  Secrets,       \* the secrets with one of the prefixes
  RotationDays,  \* ROTATION_DAYS
  Period,        \* days between two runs of the cron entry
  MaxDay         \* bound: the last day

ASSUME RotationAssumption ==
  /\ KeyLimit \in Nat \ {0} /\ MaxKey \in Nat \ {0} /\ GcpLimit \in Nat \ {0}
  /\ RotationDays \in Nat \ {0} /\ Period \in Nat \ {0} /\ MaxDay \in Nat \ {0}

VARIABLES
  keys,     \* the user's access keys, numbered in the order of their creation
  newest,   \* the number of the last key created
  gcp,      \* how many keys the service account has
  rotator,  \* per process, its run of rotate_aws_keys()
  day,      \* the calendar
  value,    \* per secret, the day its value was written
  changed,  \* per secret, its LastChangedDate
  excused,  \* history: secrets a failure or an edit kept from being rotated
  ranOn,    \* history: the last day a run was due and started, or was missed
  runner    \* per process, its run of rotate_secrets.main()

keyVars == <<keys, newest, gcp, rotator>>
secretVars == <<day, value, changed, excused, ranOn, runner>>
vars == <<keyVars, secretVars>>

Key == 1 .. MaxKey

NotRotating == [pc |-> "idle", listed |-> {}, new |-> 0]
NotRunning == [pc |-> "idle", todo |-> {}]

-----------------------------------------------------------------------------
(* key_rotation.py                                                         *)

ListKeys(r) ==
  /\ rotator[r].pc = "idle"
  /\ rotator' = [rotator EXCEPT ![r] = [pc |-> "listed", listed |-> keys, new |-> 0]]
  /\ UNCHANGED <<keys, newest, gcp, secretVars>>

\* LimitExceeded is caught; the report in the except block raises.
CreateKey(r) ==
  /\ rotator[r].pc = "listed"
  /\ newest < MaxKey
  /\ IF Cardinality(keys) < KeyLimit
     THEN /\ newest' = newest + 1
          /\ keys' = keys \cup {newest'}
          /\ rotator' = [rotator EXCEPT ![r].pc = "deleting", ![r].new = newest']
     ELSE /\ rotator' = [rotator EXCEPT ![r] = NotRotating]
          /\ UNCHANGED <<keys, newest>>
  /\ UNCHANGED <<gcp, secretVars>>

\* The defect of a loop over the keys that are there when it deletes.
ToDeleteNow(r) == keys \ {rotator[r].new}

\* The keys the loop still has to delete.
ToDelete(r) == rotator[r].listed \ {rotator[r].new}

\* NoSuchEntity, for a key another run has deleted, ends the run.
DeleteKey(r) ==
  /\ rotator[r].pc = "deleting"
  /\ \E k \in ToDelete(r) :
       /\ keys' = keys \ {k}
       /\ rotator' = IF k \in keys THEN [rotator EXCEPT ![r].listed = @ \ {k}]
                     ELSE [rotator EXCEPT ![r] = NotRotating]
  /\ UNCHANGED <<newest, gcp, secretVars>>

\* datetime.UTC is no attribute of the class datetime: the report raises, once
\* in the try block and once more in the except block.
ReportRaises(r) ==
  /\ rotator[r].pc = "deleting"
  /\ ToDelete(r) = {}
  /\ rotator' = [rotator EXCEPT ![r] = NotRotating]
  /\ UNCHANGED <<keys, newest, gcp, secretVars>>

\* The process is killed, or an API call fails, which ends it as well.
RotatorDies(r) ==
  /\ rotator[r].pc # "idle"
  /\ rotator' = [rotator EXCEPT ![r] = NotRotating]
  /\ UNCHANGED <<keys, newest, gcp, secretVars>>

\* --cloud gcp: one more key, none deleted, then the report raises.
RotateGcpKeys ==
  /\ gcp < GcpLimit
  /\ gcp' = gcp + 1
  /\ UNCHANGED <<keys, newest, rotator, secretVars>>

\* rotate_all() ends in the report of rotate_aws_keys(): it is that call alone.
RotateAll(r) ==
  \/ ListKeys(r) \/ CreateKey(r) \/ DeleteKey(r) \/ ReportRaises(r) \/ RotatorDies(r)

-----------------------------------------------------------------------------
(* rotate_secrets.py                                                       *)

Due == day % Period = 0 /\ ranOn # day

\* list_secrets_by_prefix, for each prefix.
StartRun(r) ==
  /\ runner[r].pc = "idle"
  /\ runner' = [runner EXCEPT ![r] = [pc |-> "next", todo |-> {<<s, "check">> : s \in Secrets}]]
  /\ ranOn' = IF Due THEN day ELSE ranOn
  /\ UNCHANGED <<keyVars, day, value, changed, excused>>

\* The secret the loop is at: it goes on until the secret is done with.
At(r, s, step) ==
  /\ <<s, step>> \in runner[r].todo
  /\ step = "check" => \A x \in runner[r].todo : x[2] = "check"

\* One step of rotate_secret for s is done; next is {} when it was the last.
Proceed(r, s, step, next) ==
  runner' = [runner EXCEPT ![r].todo = (@ \ {<<s, step>>}) \cup {<<s, n>> : n \in next}]

\* describe_secret, and days_old >= ROTATION_DAYS: timedelta.days counts whole
\* periods of 24 hours, one less than the calendar's days when the change was at
\* a later time of its day than this check is.
CheckAge(r, s) ==
  /\ At(r, s, "check")
  /\ \E days_old \in {day - changed[s], day - changed[s] - 1} :
       Proceed(r, s, "check", IF days_old >= RotationDays THEN {"update"} ELSE {})
  /\ UNCHANGED <<keyVars, day, value, changed, excused, ranOn>>

\* update_secret overwrites the value; nobody is told the new one.
UpdateSecret(r, s) ==
  /\ At(r, s, "update")
  /\ Proceed(r, s, "update", {"tag"})
  /\ value' = [value EXCEPT ![s] = day]
  /\ changed' = [changed EXCEPT ![s] = day]
  /\ excused' = excused \ {s}
  /\ UNCHANGED <<keyVars, day, ranOn>>

\* The defect of a date in a time zone that is ahead.
TagTomorrow(r, s) ==
  /\ At(r, s, "tag")
  /\ Proceed(r, s, "tag", {})
  /\ changed' = [changed EXCEPT ![s] = day + 1]
  /\ UNCHANGED <<keyVars, day, value, excused, ranOn>>

TagSecret(r, s) ==
  /\ At(r, s, "tag")
  /\ Proceed(r, s, "tag", {})
  /\ changed' = [changed EXCEPT ![s] = day]
  /\ UNCHANGED <<keyVars, day, value, excused, ranOn>>

\* The defect of a loop that the exception of one secret ends.
RunEndsOnError(r, s) ==
  \E step \in {"check", "update", "tag"} :
    /\ At(r, s, step)
    /\ runner' = [runner EXCEPT ![r] = NotRunning]
    /\ excused' = IF step = "tag" THEN excused ELSE excused \cup {s}
    /\ UNCHANGED <<keyVars, day, value, changed, ranOn>>

\* An exception of any of the three calls is caught: the loop takes the next one.
SecretFails(r, s) ==
  \E step \in {"check", "update", "tag"} :
    /\ At(r, s, step)
    /\ Proceed(r, s, step, {})
    /\ excused' = IF step = "tag" THEN excused ELSE excused \cup {s}
    /\ UNCHANGED <<keyVars, day, value, changed, ranOn>>

FinishRun(r) ==
  /\ runner[r].pc = "next" /\ runner[r].todo = {}
  /\ runner' = [runner EXCEPT ![r] = NotRunning]
  /\ UNCHANGED <<keyVars, day, value, changed, excused, ranOn>>

\* list_secrets raises, or the process is killed.
RunDies(r) ==
  /\ runner[r].pc = "next"
  /\ runner' = [runner EXCEPT ![r] = NotRunning]
  /\ excused' = excused \cup {s \in Secrets : \E x \in runner[r].todo : x[1] = s /\ x[2] # "tag"}
  /\ UNCHANGED <<keyVars, day, value, changed, ranOn>>

RotateSecrets(r) ==
  \/ StartRun(r) \/ FinishRun(r) \/ RunDies(r)
  \/ \E s \in Secrets :
       CheckAge(r, s) \/ UpdateSecret(r, s) \/ TagSecret(r, s) \/ SecretFails(r, s)

-----------------------------------------------------------------------------
(* The environment                                                         *)

\* A change of tags, description or policy is a change to Secrets Manager.
EditSecret(s) ==
  /\ changed[s] # day
  /\ changed' = [changed EXCEPT ![s] = day]
  /\ excused' = excused \cup {s}
  /\ UNCHANGED <<keyVars, day, value, ranOn, runner>>

\* The host of the cron entry was down.
MissRun ==
  /\ Due
  /\ ranOn' = day
  /\ excused' = Secrets
  /\ UNCHANGED <<keyVars, day, value, changed, runner>>

\* A run takes less than a day.
NextDay ==
  /\ day < MaxDay
  /\ ~Due
  /\ \A r \in Runners : runner[r].pc = "idle"
  /\ day' = day + 1
  /\ UNCHANGED <<keyVars, value, changed, excused, ranOn, runner>>

-----------------------------------------------------------------------------
Init ==
  /\ keys = {1} /\ newest = 1 /\ gcp = 0
  /\ rotator = [r \in Rotators |-> NotRotating]
  /\ day = 1 /\ ranOn = 0
  /\ value = [s \in Secrets |-> 1]
  /\ changed = value
  /\ excused = {}
  /\ runner = [r \in Runners |-> NotRunning]

Next ==
  \/ RotateGcpKeys
  \/ \E r \in Rotators : RotateAll(r)
  \/ \E r \in Runners : RotateSecrets(r)
  \/ \E s \in Secrets : EditSecret(s)
  \/ MissRun
  \/ NextDay

Spec == Init /\ [][Next]_vars

-----------------------------------------------------------------------------
(* Properties                                                              *)

TypeOK ==
  /\ keys \subseteq Key /\ newest \in Key /\ gcp \in 0 .. GcpLimit
  /\ rotator \in [Rotators ->
       [pc : {"idle", "listed", "deleting"}, listed : SUBSET Key, new : {0} \cup Key]]
  /\ day \in 0 .. MaxDay /\ ranOn \in 0 .. MaxDay
  /\ value \in [Secrets -> 0 .. day] /\ changed \in [Secrets -> 0 .. day]
  /\ excused \subseteq Secrets
  /\ runner \in [Runners ->
       [pc : {"idle", "next"}, todo : SUBSET (Secrets \X {"check", "update", "tag"})]]

\* However many rotations run at once and wherever one is killed, the user is
\* never without an access key (key_rotation.py:34-40 deletes after it created,
\* and only what it listed before).
NeverKeyless == keys # {}

\* A secret no failure and no edit interfered with is never older than the
\* threshold plus the days between two runs (rotate_secrets.py:26-66, 98): a
\* secret that cannot be rotated does not keep the others from it.  It does get
\* that old: a check may see it one day younger and leave it for the next run.
SecretAgeBounded ==
  \A s \in Secrets \ excused : day - value[s] <= RotationDays + Period

=============================================================================
