----------------------------- MODULE ModelRollout -----------------------------
(***************************************************************************)
(* From a training run to the model a scorer holds.  A training run saves  *)
(* its model in a directory of the registry named after the second it was  *)
(* started in.  The scorers load <model>_latest/model.joblib, and the only *)
(* code that makes or moves that link is the rollback script, which        *)
(* removes it and makes it again.                                          *)
(***************************************************************************)
EXTENDS Naturals, FiniteSets

CONSTANTS
  Trainers,       \* training processes, each runs once
  Operators,      \* people or jobs that run model_rollback.py, again and again
  Scorers,        \* processes that load the model: FraudScorer, score_batch
  Initial,        \* the versions 1 .. Initial exist before the model starts
  MaxSecond,      \* bound: the last second a training run may start in
  MaxDeaths,      \* bound: processes that are killed
  Absolute,       \* whether MODEL_REGISTRY is an absolute path, as in README.md:225,
                  \* or a relative one, as by default and for a value s3://...
  None,           \* no link
  Latest,         \* the name <model>_latest
  Dangling        \* a link whose path does not exist

\* A version sorts by the second in its name, and after <model>_latest.
Version == 1 .. MaxSecond

ASSUME RolloutAssumption ==
  /\ Initial \in Nat /\ MaxSecond \in Nat /\ Initial < MaxSecond
  /\ MaxDeaths \in Nat /\ Absolute \in BOOLEAN
  /\ Cardinality({None, Latest, Dangling}) = 3
  /\ {None, Latest, Dangling} \cap Version = {}
  /\ None \notin {"default", "explicit"}

VARIABLES
  second,  \* the clock, as far as strftime('%Y%m%d%H%M%S') shows it
  dirs,    \* per version, how far its directory is
  link,    \* what <model>_latest points at
  setBy,   \* history: who made the link that is there
  linked,  \* history: the link has been there
  cut,     \* history: a rollback was killed between unlink and symlink_to
  train,   \* per trainer, its process
  roll,    \* per operator, the run of rollback()
  loaded,  \* per scorer, the version it holds
  deaths   \* processes killed so far

vars == <<second, dirs, link, setBy, linked, cut, train, roll, loaded, deaths>>

Loadable == {"model", "complete"}
Stage == {"absent", "torn"} \cup Loadable

Trainer == [pc : {"new", "training", "dumping", "artifacts", "done"}, version : {0} \cup Version]
Rollback == [pc : {"idle", "listed", "unlink", "symlink"},
             target : {None, Latest} \cup Version, by : {"default", "explicit"}]

Idle == [pc |-> "idle", target |-> None, by |-> "default"]

-----------------------------------------------------------------------------
(* The training scripts                                                    *)

\* The defect of a version named after the second that follows.
PickNextVersion(t) ==
  /\ train[t].pc = "new"
  /\ train' = [train EXCEPT ![t] = [pc |-> "training", version |-> second + 1]]
  /\ UNCHANGED <<second, dirs, link, setBy, linked, cut, roll, loaded, deaths>>

\* MODEL_VERSION is computed when the module is imported.
PickVersion(t) ==
  /\ train[t].pc = "new"
  /\ train' = [train EXCEPT ![t] = [pc |-> "training", version |-> second]]
  /\ UNCHANGED <<second, dirs, link, setBy, linked, cut, roll, loaded, deaths>>

\* mkdir(exist_ok=True), then joblib.dump opens (and empties) model.joblib.
OpenModel(t) ==
  /\ train[t].pc = "training"
  /\ train' = [train EXCEPT ![t].pc = "dumping"]
  /\ dirs' = [dirs EXCEPT ![train[t].version] = "torn"]
  /\ UNCHANGED <<second, link, setBy, linked, cut, roll, loaded, deaths>>

\* Two dumps into one file leave the last one or a mixture nothing can load.
CloseModel(t) ==
  /\ train[t].pc = "dumping"
  /\ train' = [train EXCEPT ![t].pc = "artifacts"]
  /\ \E file \in {"model", "torn"} :
       /\ file = "model" \/ dirs[train[t].version] # "torn"
       /\ dirs' = [dirs EXCEPT ![train[t].version] = file]
  /\ UNCHANGED <<second, link, setBy, linked, cut, roll, loaded, deaths>>

\* metrics.json, feature_schema.txt and the fingerprint; the link stays as it is.
WriteArtifacts(t) ==
  /\ train[t].pc = "artifacts"
  /\ train' = [train EXCEPT ![t].pc = "done"]
  /\ dirs' = [dirs EXCEPT ![train[t].version] = IF @ \in Loadable THEN "complete" ELSE @]
  /\ UNCHANGED <<second, link, setBy, linked, cut, roll, loaded, deaths>>

TrainAndSave(t) == PickVersion(t) \/ OpenModel(t) \/ CloseModel(t) \/ WriteArtifacts(t)

-----------------------------------------------------------------------------
(* model_rollback.py                                                       *)

\* Path.exists() follows the link: FALSE if its path does not exist or is a loop.
LinkExists == link \in Version

\* The names glob finds that are directories, the link among them.
ListVersions ==
  {v \in Version : dirs[v] # "absent"} \cup (IF LinkExists THEN {Latest} ELSE {})

After(names, n) == {v \in names \ {Latest} : n = Latest \/ v > n}

\* The defect of a script that takes the last name of the list.
OldestListed(names) == CHOOSE n \in names : Cardinality(After(names, n)) = Cardinality(names) - 1

\* versions[1] of the names in reverse order.
PreviousVersion(names) == CHOOSE n \in names : Cardinality(After(names, n)) = 1

\* No --version was given; with fewer than two names the run ends in an error.
ListDefault(o) ==
  /\ roll[o].pc = "idle"
  /\ Cardinality(ListVersions) >= 2
  /\ roll' = [roll EXCEPT ![o] =
       [pc |-> "listed", target |-> PreviousVersion(ListVersions), by |-> "default"]]
  /\ UNCHANGED <<second, dirs, link, setBy, linked, cut, train, loaded, deaths>>

\* --version names a directory that exists; any other name ends the run.
ListExplicit(o) ==
  /\ roll[o].pc = "idle"
  /\ \E v \in ListVersions \ {Latest} :
       roll' = [roll EXCEPT ![o] = [pc |-> "listed", target |-> v, by |-> "explicit"]]
  /\ UNCHANGED <<second, dirs, link, setBy, linked, cut, train, loaded, deaths>>


\* target_path.exists(), then link_path.exists().
CheckPaths(o) ==
  /\ roll[o].pc = "listed"
  /\ roll' = [roll EXCEPT ![o] =
       IF roll[o].target = Latest /\ ~LinkExists THEN Idle
       ELSE [@ EXCEPT !.pc = IF LinkExists THEN "unlink" ELSE "symlink"]]
  /\ UNCHANGED <<second, dirs, link, setBy, linked, cut, train, loaded, deaths>>

\* Path.unlink() raises, and ends the run, when another run has removed the link.
Unlink(o) ==
  /\ roll[o].pc = "unlink"
  /\ IF link = None
     THEN roll' = [roll EXCEPT ![o] = Idle]
     ELSE roll' = [roll EXCEPT ![o].pc = "symlink"]
  /\ link' = None
  /\ setBy' = None
  /\ UNCHANGED <<second, dirs, linked, cut, train, loaded, deaths>>

\* The path stored in the link: a relative one is looked up from the registry.
TargetPath(v) == IF Absolute THEN v ELSE Dangling

\* The defect of a script that removes the link when symlink_to raises.
SymlinkOrClean(o) ==
  /\ roll[o].pc = "symlink"
  /\ roll' = [roll EXCEPT ![o] = Idle]
  /\ link' = IF link = None THEN TargetPath(roll[o].target) ELSE None
  /\ setBy' = IF link = None THEN roll[o].by ELSE None
  /\ linked' = TRUE
  /\ cut' = FALSE
  /\ UNCHANGED <<second, dirs, train, loaded, deaths>>

\* Path.symlink_to() raises when the name is taken, by a dangling link too.
Symlink(o) ==
  /\ roll[o].pc = "symlink"
  /\ roll' = [roll EXCEPT ![o] = Idle]
  /\ IF link = None
     THEN /\ link' = TargetPath(roll[o].target)
          /\ setBy' = roll[o].by
          /\ linked' = TRUE
          /\ cut' = FALSE
     ELSE UNCHANGED <<link, setBy, linked, cut>>
  /\ UNCHANGED <<second, dirs, train, loaded, deaths>>

RollbackRun(o) == ListDefault(o) \/ CheckPaths(o) \/ Unlink(o) \/ Symlink(o)

-----------------------------------------------------------------------------
(* The processes that load the model                                       *)

\* joblib.load raises, and the process ends, on no file or half a file.
LoadModel(s) ==
  /\ loaded[s] = 0
  /\ LinkExists
  /\ dirs[link] \in Loadable
  /\ loaded' = [loaded EXCEPT ![s] = link]
  /\ UNCHANGED <<second, dirs, link, setBy, linked, cut, train, roll, deaths>>

\* score_batch writes its output and exits; a FraudScorer holds the model until
\* its process is deployed anew or crashes.  Either way the next one loads again.
ScorerEnds(s) ==
  /\ loaded[s] # 0
  /\ loaded' = [loaded EXCEPT ![s] = 0]
  /\ UNCHANGED <<second, dirs, link, setBy, linked, cut, train, roll, deaths>>

-----------------------------------------------------------------------------
(* The environment                                                         *)

Tick ==
  /\ second < MaxSecond
  /\ second' = second + 1
  /\ UNCHANGED <<dirs, link, setBy, linked, cut, train, roll, loaded, deaths>>

TrainerDies(t) ==
  /\ deaths < MaxDeaths
  /\ train[t].pc \in {"training", "dumping", "artifacts"}
  /\ deaths' = deaths + 1
  /\ train' = [train EXCEPT ![t].pc = "done"]
  /\ UNCHANGED <<second, dirs, link, setBy, linked, cut, roll, loaded>>

RollbackDies(o) ==
  /\ deaths < MaxDeaths
  /\ roll[o].pc # "idle"
  /\ deaths' = deaths + 1
  /\ cut' = (cut \/ (roll[o].pc = "symlink" /\ link = None))
  /\ roll' = [roll EXCEPT ![o] = Idle]
  /\ UNCHANGED <<second, dirs, link, setBy, linked, train, loaded>>

-----------------------------------------------------------------------------
\* The link is made by hand, for the newest version, or not there yet.
Init ==
  /\ second = Initial + 1
  /\ dirs = [v \in Version |-> IF v <= Initial THEN "complete" ELSE "absent"]
  /\ link \in {None} \cup {v \in Version : v = Initial}
  /\ setBy = None
  /\ linked = (link # None)
  /\ cut = FALSE
  /\ train = [t \in Trainers |-> [pc |-> "new", version |-> 0]]
  /\ roll = [o \in Operators |-> Idle]
  /\ loaded = [s \in Scorers |-> 0]
  /\ deaths = 0

Next ==
  \/ Tick
  \/ \E t \in Trainers : TrainAndSave(t) \/ TrainerDies(t)
  \/ \E o \in Operators : RollbackRun(o) \/ ListExplicit(o) \/ RollbackDies(o)
  \/ \E s \in Scorers : LoadModel(s) \/ ScorerEnds(s)

Spec == Init /\ [][Next]_vars

\* A started training run goes on, an operator repeats the default rollback and
\* a scorer that cannot load is started again; a window between unlink and
\* symlink_to is short, so that one of its attempts falls outside of it.
Fairness ==
  /\ \A t \in Trainers : WF_vars(OpenModel(t) \/ CloseModel(t) \/ WriteArtifacts(t))
  /\ \A o \in Operators : WF_vars(RollbackRun(o))
  /\ \A s \in Scorers : SF_vars(LoadModel(s))

FairSpec == Spec /\ Fairness

-----------------------------------------------------------------------------
(* Properties                                                              *)

TypeOK ==
  /\ second \in Version
  /\ dirs \in [Version -> Stage]
  /\ link \in {None, Latest, Dangling} \cup Version
  /\ setBy \in {None, "default", "explicit"}
  /\ linked \in BOOLEAN /\ cut \in BOOLEAN
  /\ train \in [Trainers -> Trainer]
  /\ roll \in [Operators -> Rollback]
  /\ loaded \in [Scorers -> {0} \cup Version]
  /\ deaths \in 0 .. MaxDeaths

\* However many rollbacks run at once (model_rollback.py:61-65, one process'
\* exists() answered before another's unlink()), a link that was there once is
\* missing only while one of them is about to make it, or after one was killed
\* just there.
LinkKept ==
  (linked /\ link = None) => cut \/ \E o \in Operators : roll[o].pc = "symlink"

\* A rollback without --version (model_rollback.py:45-52) never leaves the
\* link on the newest version or on itself, whatever training added and other
\* rollbacks moved since it made its list.
DefaultGoesBack ==
  (setBy = "default" /\ link # Dangling) =>
    link \in Version /\ \E v \in Version : dirs[v] # "absent" /\ v > link

\* If the default rollback is repeated and every version on disk is complete from
\* some time on, each scorer that is restarted gets a model again.
Recovers ==
  <>[](\A v \in Version : dirs[v] \in {"absent", "complete"})
    => \A s \in Scorers : []<>(loaded[s] # 0)


-----------------------------------------------------------------------------
(* A claim of the documentation that the code does not keep                *)

\* README.md:85, "Rollback capability (<5min recovery)", wherever the registry
\* is.  With the default of model_rollback.py:11 the link holds a path that is
\* looked up from the registry itself, so that it leads nowhere.
RollbackRecovers == Recovers

=============================================================================
