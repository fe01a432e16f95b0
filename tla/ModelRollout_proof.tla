-------------------------- MODULE ModelRollout_proof --------------------------
(* What rollbacks do to the link, for any number of training runs,         *)
(* operators, scorers, versions and kills.                                 *)
EXTENDS ModelRollout, FiniteSetTheorems, WellFoundedInduction, TLAPS

-----------------------------------------------------------------------------
(* The list of versions                                                    *)

\* The three names are different, and none is a version.
LEMMA NamesDiffer ==
  /\ None # Latest /\ None # Dangling /\ Latest # Dangling
  /\ None \notin Version /\ Latest \notin Version /\ Dangling \notin Version
<1>1. ASSUME NEW a, NEW b, NEW S, S = {a, b}
      PROVE  IsFiniteSet(S) /\ Cardinality(S) # 3
  <2>1. IsFiniteSet({b}) /\ Cardinality({b}) = 1
    BY FS_Singleton
  <2>2. {b} \cup {a} = S
    BY <1>1
  <2> QED
    BY <2>1, <2>2, FS_AddElement
<1>2. Cardinality({None, Latest, Dangling}) = 3
  BY RolloutAssumption
<1>3. None # Latest
  <2>1. None = Latest => {None, Latest, Dangling} = {Latest, Dangling}
    OBVIOUS
  <2> QED
    BY <2>1, <1>1, <1>2
<1>4. None # Dangling
  <2>1. None = Dangling => {None, Latest, Dangling} = {Latest, Dangling}
    OBVIOUS
  <2> QED
    BY <2>1, <1>1, <1>2
<1>5. Latest # Dangling
  <2>1. Latest = Dangling => {None, Latest, Dangling} = {None, Dangling}
    OBVIOUS
  <2> QED
    BY <2>1, <1>1, <1>2
<1> QED
  BY <1>3, <1>4, <1>5, RolloutAssumption

\* A nonempty set of versions has a newest one.
LEMMA Newest ==
  ASSUME NEW S \in SUBSET Version, S # {}
  PROVE  \E m \in S : \A n \in S : n <= m
<1> DEFINE N == MaxSecond
           T == {k \in Nat : N - k \in S}
<1>7. N \in Nat /\ S \subseteq 1 .. N
  BY RolloutAssumption DEF Version
<1> HIDE DEF N
<1>1. T \subseteq Nat
  OBVIOUS
<1>2. T # {}
  <2>1. PICK m \in S : TRUE
    OBVIOUS
  <2>2. m \in 1 .. N /\ N - m \in Nat /\ N - (N - m) = m
    BY <1>7
  <2> QED
    BY <2>1, <2>2
<1>3. PICK t \in T : \A u \in T : ~(<<u, t>> \in OpToRel(<, Nat))
  <2> HIDE DEF T
  <2> QED
    BY <1>1, <1>2, NatLessThanWellFounded, WFMin, Zenon
<1>4. ASSUME NEW u \in Nat, NEW v \in Nat, u < v
      PROVE  <<u, v>> \in OpToRel(<, Nat)
  <2> HIDE DEF T
  <2> QED
    BY <1>4, Zenon DEF OpToRel
<1>5. N - t \in S /\ t \in Nat
  OBVIOUS
<1>6. ASSUME NEW n \in S
      PROVE  n <= N - t
  <2>1. n \in 1 .. N /\ N - n \in Nat /\ N - (N - n) = n
    BY <1>7
  <2>2. N - n \in T
    BY <2>1
  <2>3. ~(N - n < t)
    BY <2>1, <2>2, <1>3, <1>4, <1>5
  <2> QED
    BY <2>1, <2>3, <1>5, <1>7
<1> QED
  BY <1>5, <1>6

\* versions[1] exists when there are two names or more, and one name is before it.
LEMMA PreviousVersionExists ==
  ASSUME Cardinality(ListVersions) >= 2
  PROVE  /\ PreviousVersion(ListVersions) \in ListVersions
         /\ Cardinality(After(ListVersions, PreviousVersion(ListVersions))) = 1
<1> DEFINE names == ListVersions
           A == names \ {Latest}
<1>1. A \in SUBSET Version
  BY DEF ListVersions
<1>2. A \subseteq names /\ names \subseteq A \cup {Latest} /\ Latest \notin A
  OBVIOUS
<1>3. Cardinality({}) = 0 /\ \A x : Cardinality({x}) = 1
  BY FS_EmptySet, FS_Singleton
<1>4. names # {} /\ \A x : names # {x}
  <2> HIDE DEF names
  <2>1. names = {} => ~(Cardinality(names) >= 2)
    BY <1>3
  <2>2. \A x : names = {x} => ~(Cardinality(names) >= 2)
    BY <1>3
  <2> QED
    BY <2>1, <2>2 DEF names
<1>5. \E n \in names : Cardinality(After(names, n)) = 1
  <2> HIDE DEF names
  <2>1. A # {}
    BY <1>2, <1>4
  <2>2. PICK m \in A : \A n \in A : n <= m
    BY <1>1, <2>1, Newest
  <2>3. Cardinality({m}) = 1
    BY FS_Singleton
  <2>4. CASE A \ {m} # {}
    <3>1. A \ {m} \in SUBSET Version
      BY <1>1
    <3>2. PICK n \in A \ {m} : \A k \in A \ {m} : k <= n
      BY <3>1, <2>4, Newest
    <3>3. n \in Nat /\ m \in Nat /\ m > n /\ n # Latest
      BY <3>2, <2>2, <1>1, <1>2, RolloutAssumption DEF Version
    <3>4. ASSUME NEW v \in A
          PROVE  (n = Latest \/ v > n) <=> v = m
      <4>1. v \in Nat
        BY <1>1, RolloutAssumption DEF Version
      <4> QED
        BY <4>1, <3>2, <3>3
    <3>5. After(names, n) = {m}
      BY <3>4, <2>2 DEF After
    <3> QED
      BY <3>5, <2>3, <3>2, <1>2
  <2>5. CASE A \ {m} = {}
    <3>1. A = {m}
      BY <2>5, <2>2
    <3>2. Latest \in names
      BY <3>1, <1>2, <1>4
    <3>3. After(names, Latest) = {m}
      BY <3>1 DEF After
    <3> QED
      BY <3>2, <3>3, <2>3
  <2> QED
    BY <2>4, <2>5
<1> QED
  BY <1>5 DEF PreviousVersion

\* With two versions on disk, versions[1] is a version, and there is a newer one.
LEMMA PreviousIsOlder ==
  ASSUME Cardinality(ListVersions) >= 2,
         NEW a \in Version, NEW b \in Version, a # b, dirs[a] # "absent", dirs[b] # "absent"
  PROVE  /\ PreviousVersion(ListVersions) \in Version
         /\ \E v \in Version : dirs[v] # "absent" /\ v > PreviousVersion(ListVersions)
<1> DEFINE p == PreviousVersion(ListVersions)
           later == After(ListVersions, p)
<1>1. p \in ListVersions /\ Cardinality(later) = 1
  BY PreviousVersionExists
<1>2. later \subseteq Version
  BY DEF After, ListVersions
<1>3. IsFiniteSet(later)
  <2>1. IsFiniteSet(Version)
    BY FS_Interval, RolloutAssumption DEF Version
  <2> QED
    BY <2>1, <1>2, FS_Subset
<1>4. PICK x : later = {x}
  <2> HIDE DEF later
  <2> QED
    BY <1>1, <1>3, FS_Singleton
<1>5. x \in Version /\ dirs[x] # "absent" /\ (p = Latest \/ x > p)
  BY <1>4, NamesDiffer DEF After, ListVersions
<1>6. p # Latest
  <2>1. p = Latest => a \in later /\ b \in later
    BY NamesDiffer DEF After, ListVersions
  <2> HIDE DEF later
  <2> QED
    BY <2>1, <1>4
<1>7. p \in Version
  BY <1>1, <1>6 DEF ListVersions
<1> QED
  BY <1>5, <1>6, <1>7

-----------------------------------------------------------------------------
(* The runs of the script and the link                                     *)

\* What a step of the script makes of its run.
Moved(x, p) == [x EXCEPT !.pc = p]

LEMMA RunMoves ==
  ASSUME NEW x \in Rollback, NEW p \in {"idle", "listed", "unlink", "symlink"}
  PROVE  Moved(x, p) \in Rollback /\ Moved(x, p).pc = p
         /\ Moved(x, p).target = x.target /\ Moved(x, p).by = x.by
<1>1. PICK q, t, b : x = [pc |-> q, target |-> t, by |-> b]
  BY DEF Rollback
<1> QED
  BY <1>1 DEF Rollback, Moved

\* The directories only ever get further: none disappears.
DirsInv == dirs \in [Version -> Stage]

LinkType ==
  /\ link \in {None, Latest, Dangling} \cup Version
  /\ setBy \in {None, "default", "explicit"}
  /\ linked \in BOOLEAN /\ cut \in BOOLEAN
  /\ roll \in [Operators -> Rollback]

\* A run that has made its list has a target.
TargetInv == \A o \in Operators : roll[o].pc # "idle" => roll[o].target # None

\* LinkKept is inductive as soon as the link is never made to no target.
LinkInv == DirsInv /\ LinkType /\ TargetInv /\ LinkKept

\* What the steps of training, which leave the link alone, do to directories.
LEMMA TrainingStep ==
  ASSUME DirsInv, NEW t \in Trainers, TrainAndSave(t)
  PROVE  /\ DirsInv' /\ UNCHANGED <<link, setBy, linked, cut, roll>>
         /\ \A v \in Version : dirs[v] # "absent" => dirs'[v] # "absent"
<1>1. CASE PickVersion(t)
  BY <1>1 DEF PickVersion, DirsInv
<1>2. CASE OpenModel(t)
  BY <1>2 DEF OpenModel, DirsInv, Stage
<1>3. CASE CloseModel(t)
  <2>1. PICK file \in {"model", "torn"} : dirs' = [dirs EXCEPT ![train[t].version] = file]
    BY <1>3 DEF CloseModel
  <2> QED
    BY <1>3, <2>1 DEF CloseModel, DirsInv, Stage, Loadable
<1>4. CASE WriteArtifacts(t)
  <2> DEFINE v == train[t].version
  <2>1. \/ dirs' = [dirs EXCEPT ![v] = "complete"]
        \/ dirs' = [dirs EXCEPT ![v] = dirs[v]]
    BY <1>4, Zenon DEF WriteArtifacts
  <2> HIDE DEF v
  <2>2. dirs' = [dirs EXCEPT ![v] = dirs[v]] => dirs' = dirs
    BY DEF DirsInv
  <2>3. UNCHANGED <<link, setBy, linked, cut, roll>>
    BY <1>4 DEF WriteArtifacts
  <2> QED
    BY <2>1, <2>2, <2>3 DEF DirsInv, Stage, Loadable
<1> QED
  BY <1>1, <1>2, <1>3, <1>4 DEF TrainAndSave

LEMMA LinkInit == Init => LinkInv
<1> SUFFICES ASSUME Init
             PROVE  LinkInv
  OBVIOUS
<1>1. DirsInv
  BY DEF Init, DirsInv, Stage, Loadable
<1>2. LinkType /\ TargetInv
  BY DEF Init, LinkType, TargetInv, Idle, Rollback
<1>3. LinkKept
  BY DEF Init, LinkKept
<1> QED
  BY <1>1, <1>2, <1>3 DEF LinkInv

\* Making the list: both ways to choose a target give one.
LEMMA ListStep ==
  ASSUME LinkInv, NEW o \in Operators, ListDefault(o) \/ ListExplicit(o)
  PROVE  LinkInv'
<1>1. PICK x \in Rollback : /\ x.pc = "listed" /\ x.target # None
                            /\ roll' = [roll EXCEPT ![o] = x]
  <2>1. ASSUME NEW v \in ListVersions, NEW b \in {"default", "explicit"}
        PROVE  LET y == [pc |-> "listed", target |-> v, by |-> b]
               IN  y \in Rollback /\ y.pc = "listed" /\ y.target # None
    BY NamesDiffer DEF Rollback, ListVersions
  <2>2. CASE ListDefault(o)
    BY <2>1, <2>2, PreviousVersionExists DEF ListDefault
  <2>3. CASE ListExplicit(o)
    BY <2>1, <2>3 DEF ListExplicit
  <2> QED
    BY <2>2, <2>3
<1>2. roll[o].pc = "idle" /\ UNCHANGED <<dirs, link, setBy, linked, cut>>
  BY DEF ListDefault, ListExplicit
<1>3. LinkType' /\ TargetInv'
  BY <1>1, <1>2 DEF LinkInv, LinkType, TargetInv
<1>4. LinkKept'
  BY <1>1, <1>2 DEF LinkInv, LinkType, LinkKept
<1> QED
  BY <1>2, <1>3, <1>4 DEF LinkInv, DirsInv

\* The check of the paths ends the run or chooses its next step.
LEMMA CheckStep ==
  ASSUME LinkInv, NEW o \in Operators, CheckPaths(o)
  PROVE  LinkInv'
<1>1. roll[o].pc = "listed" /\ UNCHANGED <<dirs, link, setBy, linked, cut>>
  BY DEF CheckPaths
<1>2. \/ roll' = [roll EXCEPT ![o] = Idle]
      \/ roll' = [roll EXCEPT ![o] = Moved(roll[o], "unlink")]
      \/ roll' = [roll EXCEPT ![o] = Moved(roll[o], "symlink")]
  BY DEF CheckPaths, Moved
<1>3. PICK x \in Rollback : /\ x.pc # "idle" => x.target # None
                            /\ roll' = [roll EXCEPT ![o] = x]
  <2>1. Idle \in Rollback /\ Idle.pc = "idle"
    BY DEF Idle, Rollback
  <2>2. roll[o] \in Rollback /\ roll[o].target # None
    BY <1>1 DEF LinkInv, LinkType, TargetInv
  <2> QED
    BY <1>2, <2>1, <2>2, RunMoves
<1>4. LinkType' /\ TargetInv'
  BY <1>1, <1>3 DEF LinkInv, LinkType, TargetInv
<1>5. LinkKept'
  BY <1>1, <1>3 DEF LinkInv, LinkType, LinkKept
<1> QED
  BY <1>1, <1>4, <1>5 DEF LinkInv, DirsInv

\* unlink() removes the link for a run that is about to make it.
LEMMA UnlinkStep ==
  ASSUME LinkInv, NEW o \in Operators, Unlink(o)
  PROVE  LinkInv'
<1>1. /\ roll[o].pc = "unlink" /\ link' = None /\ setBy' = None
      /\ UNCHANGED <<dirs, linked, cut>>
  BY DEF Unlink
<1>2. roll[o] \in Rollback /\ roll[o].target # None
  BY <1>1 DEF LinkInv, LinkType, TargetInv
<1>3. CASE link = None
  <2>1. roll' = [roll EXCEPT ![o] = Idle]
    BY <1>3 DEF Unlink
  <2>2. LinkType' /\ TargetInv'
    BY <1>1, <2>1 DEF LinkInv, LinkType, TargetInv, Idle, Rollback
  <2>3. LinkKept'
    BY <1>1, <1>3, <2>1 DEF LinkInv, LinkType, LinkKept
  <2> QED
    BY <1>1, <2>2, <2>3 DEF LinkInv, DirsInv
<1>4. CASE link # None
  <2> DEFINE x == Moved(roll[o], "symlink")
  <2>1. roll' = [roll EXCEPT ![o] = x]
    BY <1>4 DEF Unlink, Moved
  <2>2. x \in Rollback /\ x.pc = "symlink" /\ x.target # None
    BY <1>2, RunMoves
  <2> HIDE DEF x
  <2>3. LinkType' /\ TargetInv'
    BY <1>1, <2>1, <2>2 DEF LinkInv, LinkType, TargetInv
  <2>4. LinkKept'
    BY <1>1, <2>1, <2>2 DEF LinkInv, LinkType, LinkKept
  <2> QED
    BY <1>1, <2>3, <2>4 DEF LinkInv, DirsInv
<1> QED
  BY <1>3, <1>4

\* symlink_to() makes the link, or finds one and raises.
LEMMA SymlinkStep ==
  ASSUME LinkInv, NEW o \in Operators, Symlink(o)
  PROVE  LinkInv'
<1>1. /\ roll[o].pc = "symlink" /\ UNCHANGED dirs
      /\ roll' = [roll EXCEPT ![o] = Idle]
  BY DEF Symlink
<1>2. roll[o] \in Rollback /\ roll[o].target # None
  BY <1>1 DEF LinkInv, LinkType, TargetInv
<1>3. TargetInv' /\ (roll \in [Operators -> Rollback])'
  BY <1>1 DEF LinkInv, LinkType, TargetInv, Idle, Rollback
<1>4. link' # None
  <2>1. CASE link = None
    <3>1. link' = TargetPath(roll[o].target)
      BY <2>1 DEF Symlink
    <3> QED
      BY <3>1, <1>2, NamesDiffer DEF TargetPath
  <2>2. CASE link # None
    BY <2>2 DEF Symlink
  <2> QED
    BY <2>1, <2>2
<1>5. LinkType'
  <2>1. CASE link = None
    <3>1. /\ link' = TargetPath(roll[o].target) /\ setBy' = roll[o].by
          /\ linked' = TRUE /\ cut' = FALSE
      BY <2>1 DEF Symlink
    <3>2. roll[o].target \in {None, Latest} \cup Version /\ roll[o].by \in {"default", "explicit"}
      BY <1>2 DEF Rollback
    <3> QED
      BY <3>1, <3>2, <1>3 DEF LinkType, TargetPath
  <2>2. CASE link # None
    <3>1. UNCHANGED <<link, setBy, linked, cut>>
      BY <2>2 DEF Symlink
    <3> QED
      BY <3>1, <1>3 DEF LinkInv, LinkType
  <2> QED
    BY <2>1, <2>2
<1>6. LinkKept'
  BY <1>4 DEF LinkKept
<1> QED
  BY <1>1, <1>3, <1>5, <1>6 DEF LinkInv, DirsInv

\* A kill between unlink() and symlink_to() is the one that takes the link.
LEMMA RollbackDiesStep ==
  ASSUME LinkInv, NEW o \in Operators, RollbackDies(o)
  PROVE  LinkInv'
<1>1. /\ UNCHANGED <<dirs, link, setBy, linked>>
      /\ cut' = (cut \/ (roll[o].pc = "symlink" /\ link = None))
      /\ roll' = [roll EXCEPT ![o] = Idle]
  BY DEF RollbackDies
<1>2. LinkType' /\ TargetInv'
  BY <1>1 DEF LinkInv, LinkType, TargetInv, Idle, Rollback
<1>3. LinkKept'
  BY <1>1 DEF LinkInv, LinkType, LinkKept
<1> QED
  BY <1>1, <1>2, <1>3 DEF LinkInv, DirsInv

\* Training leaves the link alone, and so does everything else.
LEMMA LinkUntouched ==
  ASSUME LinkInv, DirsInv', UNCHANGED <<link, setBy, linked, cut, roll>>
  PROVE  LinkInv'
BY DEF LinkInv, LinkType, TargetInv, LinkKept

LEMMA LinkNext == LinkInv /\ [Next]_vars => LinkInv'
<1> SUFFICES ASSUME LinkInv, [Next]_vars
             PROVE  LinkInv'
  OBVIOUS
<1>1. ASSUME NEW t \in Trainers, TrainAndSave(t)
      PROVE  LinkInv'
  BY <1>1, TrainingStep, LinkUntouched DEF LinkInv
<1>2. ASSUME NEW o \in Operators, RollbackRun(o) \/ ListExplicit(o) \/ RollbackDies(o)
      PROVE  LinkInv'
  BY <1>2, ListStep, CheckStep, UnlinkStep, SymlinkStep, RollbackDiesStep DEF RollbackRun
<1>3. CASE Tick \/ \E t \in Trainers : TrainerDies(t)
  BY <1>3, LinkUntouched DEF Tick, TrainerDies, LinkInv, DirsInv
<1>4. CASE \E s \in Scorers : LoadModel(s) \/ ScorerEnds(s)
  BY <1>4, LinkUntouched DEF LoadModel, ScorerEnds, LinkInv, DirsInv
<1>5. CASE UNCHANGED vars
  BY <1>5, LinkUntouched DEF vars, LinkInv, DirsInv
<1> QED
  BY <1>1, <1>2, <1>3, <1>4, <1>5 DEF Next

\* A link that has been there is missing only while a rollback is about to make
\* it, or after one was killed just there (model_rollback.py:61-65).
THEOREM LinkIsKept == Spec => []LinkKept
<1>1. LinkInv => LinkKept
  BY DEF LinkInv
<1> QED
  BY LinkInit, LinkNext, <1>1, PTL DEF Spec

-----------------------------------------------------------------------------
(* Where a default rollback goes                                           *)

\* The versions that were there at first stay.
InitialKept == \A v \in 1 .. Initial : dirs[v] # "absent"

\* A target that was chosen by default is a version, and a newer one exists.
OlderTarget ==
  \A o \in Operators :
    roll[o].pc # "idle" /\ roll[o].by = "default" =>
      /\ roll[o].target \in Version
      /\ \E v \in Version : dirs[v] # "absent" /\ v > roll[o].target

\* DefaultGoesBack speaks of the link alone: where it comes from is OlderTarget.
BackInv == LinkInv /\ InitialKept /\ OlderTarget /\ DefaultGoesBack

LEMMA BackInit == Init => BackInv
<1> SUFFICES ASSUME Init
             PROVE  BackInv
  OBVIOUS
<1>1. InitialKept
  BY RolloutAssumption DEF Init, InitialKept, Version
<1>2. OlderTarget
  BY DEF Init, OlderTarget, Idle
<1>3. DefaultGoesBack
  BY RolloutAssumption DEF Init, DefaultGoesBack
<1> QED
  BY <1>1, <1>2, <1>3, LinkInit DEF BackInv

\* With two versions on disk, the default target is one of them, and older.
LEMMA DefaultTarget ==
  ASSUME Initial >= 2, InitialKept, Cardinality(ListVersions) >= 2
  PROVE  /\ PreviousVersion(ListVersions) \in Version
         /\ \E v \in Version : dirs[v] # "absent" /\ v > PreviousVersion(ListVersions)
<1>1. /\ 1 \in Version /\ 2 \in Version
      /\ dirs[1] # "absent" /\ dirs[2] # "absent"
  BY RolloutAssumption DEF InitialKept, Version
<1> QED
  BY <1>1, PreviousIsOlder

\* Steps that leave the link and who made it as they are.
LEMMA LinkStays ==
  ASSUME DefaultGoesBack, UNCHANGED <<link, setBy>>,
         \A v \in Version : dirs[v] # "absent" => dirs'[v] # "absent"
  PROVE  DefaultGoesBack'
BY DEF DefaultGoesBack

\* Steps of a run that keep its target and choice, or end it.
LEMMA TargetsStay ==
  ASSUME OlderTarget, NEW o \in Operators, roll[o].pc # "idle",
         \A v \in Version : dirs[v] # "absent" => dirs'[v] # "absent",
         \A q \in Operators \ {o} : roll'[q] = roll[q],
         roll'[o].pc = "idle" \/ (roll'[o].target = roll[o].target /\ roll'[o].by = roll[o].by)
  PROVE  OlderTarget'
BY DEF OlderTarget

LEMMA BackTraining ==
  ASSUME BackInv, LinkInv', UNCHANGED <<link, setBy, roll>>,
         \A v \in Version : dirs[v] # "absent" => dirs'[v] # "absent"
  PROVE  BackInv'
<1>1. InitialKept'
  BY RolloutAssumption DEF BackInv, InitialKept, Version
<1>2. OlderTarget'
  BY DEF BackInv, OlderTarget
<1> QED
  BY <1>1, <1>2, LinkStays DEF BackInv

LEMMA BackList ==
  ASSUME Initial >= 2, BackInv, LinkInv', NEW o \in Operators, ListDefault(o) \/ ListExplicit(o)
  PROVE  BackInv'
<1>1. UNCHANGED <<dirs, link, setBy>>
  BY DEF ListDefault, ListExplicit
<1>2. roll \in [Operators -> Rollback]
  BY DEF BackInv, LinkInv, LinkType
<1>3. ASSUME NEW q \in Operators, roll'[q].pc # "idle", roll'[q].by = "default"
      PROVE  /\ roll'[q].target \in Version
             /\ \E v \in Version : dirs[v] # "absent" /\ v > roll'[q].target
  <2>1. CASE q # o
    <3>1. roll'[q] = roll[q]
      BY <1>2, <2>1 DEF ListDefault, ListExplicit
    <3> QED
      BY <3>1, <1>3 DEF BackInv, OlderTarget
  <2>2. CASE q = o /\ ListDefault(o)
    <3>1. roll'[o].target = PreviousVersion(ListVersions) /\ Cardinality(ListVersions) >= 2
      BY <1>2, <2>2 DEF ListDefault
    <3> QED
      BY <3>1, <2>2, DefaultTarget DEF BackInv
  <2>3. CASE q = o /\ ListExplicit(o)
    <3>1. roll'[o].by = "explicit"
      BY <1>2, <2>3 DEF ListExplicit
    <3> QED
      BY <3>1, <2>3, <1>3
  <2> QED
    BY <2>1, <2>2, <2>3
<1>4. OlderTarget'
  BY <1>1, <1>3 DEF OlderTarget
<1> QED
  BY <1>1, <1>4, LinkStays DEF BackInv, InitialKept

LEMMA BackScript ==
  ASSUME BackInv, LinkInv', NEW o \in Operators,
         CheckPaths(o) \/ Unlink(o) \/ Symlink(o) \/ RollbackDies(o)
  PROVE  BackInv'
<1>1. roll \in [Operators -> Rollback] /\ roll[o] \in Rollback
  BY DEF BackInv, LinkInv, LinkType
<1>2. UNCHANGED dirs /\ roll[o].pc # "idle"
  BY DEF CheckPaths, Unlink, Symlink, RollbackDies
<1>3. \/ roll' = [roll EXCEPT ![o] = Idle]
      \/ \E p \in {"unlink", "symlink"} : roll' = [roll EXCEPT ![o] = Moved(roll[o], p)]
  BY DEF CheckPaths, Unlink, Symlink, RollbackDies, Moved
<1>4. OlderTarget'
  <2>1. \A q \in Operators \ {o} : roll'[q] = roll[q]
    BY <1>1, <1>3
  <2>2. roll'[o].pc = "idle" \/ (roll'[o].target = roll[o].target /\ roll'[o].by = roll[o].by)
    <3>1. CASE roll' = [roll EXCEPT ![o] = Idle]
      BY <1>1, <3>1 DEF Idle
    <3>2. ASSUME NEW p \in {"unlink", "symlink"}, roll' = [roll EXCEPT ![o] = Moved(roll[o], p)]
          PROVE  roll'[o].target = roll[o].target /\ roll'[o].by = roll[o].by
      <4>1. roll'[o] = Moved(roll[o], p)
        BY <1>1, <3>2
      <4> QED
        BY <4>1, <1>1, RunMoves
    <3> QED
      BY <1>3, <3>1, <3>2
  <2> QED
    BY <2>1, <2>2, <1>2, TargetsStay DEF BackInv
<1>5. DefaultGoesBack'
  <2>1. CASE UNCHANGED <<link, setBy>>
    BY <2>1, <1>2, LinkStays DEF BackInv
  <2>2. CASE Unlink(o)
    <3>1. setBy' = None
      BY <2>2 DEF Unlink
    <3> QED
      BY <3>1, RolloutAssumption DEF DefaultGoesBack
  <2>3. CASE Symlink(o) /\ link = None
    <3>1. link' = TargetPath(roll[o].target) /\ setBy' = roll[o].by
      BY <2>3 DEF Symlink
    <3>2. ASSUME setBy' = "default", link' # Dangling
          PROVE  link' \in Version /\ \E v \in Version : dirs'[v] # "absent" /\ v > link'
      <4>1. link' = roll[o].target
        BY <3>1, <3>2 DEF TargetPath
      <4> QED
        BY <4>1, <3>1, <3>2, <1>2 DEF BackInv, OlderTarget
    <3> QED
      BY <3>2 DEF DefaultGoesBack
  <2> QED
    BY <2>1, <2>2, <2>3 DEF CheckPaths, Symlink, RollbackDies
<1> QED
  BY <1>2, <1>4, <1>5 DEF BackInv, InitialKept

LEMMA BackNext ==
  ASSUME Initial >= 2
  PROVE  BackInv /\ [Next]_vars => BackInv'
<1> SUFFICES ASSUME BackInv, [Next]_vars
             PROVE  BackInv'
  OBVIOUS
<1>1. LinkInv'
  BY LinkNext DEF BackInv
<1>2. ASSUME NEW t \in Trainers, TrainAndSave(t)
      PROVE  BackInv'
  BY <1>1, <1>2, TrainingStep, BackTraining DEF BackInv, LinkInv
<1>3. ASSUME NEW o \in Operators, RollbackRun(o) \/ ListExplicit(o) \/ RollbackDies(o)
      PROVE  BackInv'
  BY <1>1, <1>3, BackList, BackScript DEF RollbackRun
<1>4. CASE UNCHANGED <<dirs, link, setBy, roll>>
  BY <1>1, <1>4, BackTraining
<1>5. CASE Tick \/ \E t \in Trainers : TrainerDies(t)
  BY <1>4, <1>5 DEF Tick, TrainerDies
<1>6. CASE \E s \in Scorers : LoadModel(s) \/ ScorerEnds(s)
  BY <1>4, <1>6 DEF LoadModel, ScorerEnds
<1>7. CASE UNCHANGED vars
  BY <1>4, <1>7 DEF vars
<1> QED
  BY <1>2, <1>3, <1>5, <1>6, <1>7 DEF Next

\* If two versions were there at first, a rollback without --version never
\* leaves the link on the newest version or on itself (model_rollback.py:45-52).
\* With one version and the link, the second name of the list is the link.
THEOREM DefaultRollsBack ==
  ASSUME Initial >= 2
  PROVE  Spec => []DefaultGoesBack
<1>1. BackInv => DefaultGoesBack
  BY DEF BackInv
<1>2. BackInv /\ [Next]_vars => BackInv'
  BY BackNext
<1> QED
  BY BackInit, <1>1, <1>2, PTL DEF Spec

-----------------------------------------------------------------------------
(* Types                                                                   *)

\* The part of TypeOK that LinkInv does not state.
ProcessTypes ==
  /\ second \in Version
  /\ train \in [Trainers -> Trainer]
  /\ loaded \in [Scorers -> {0} \cup Version]
  /\ deaths \in 0 .. MaxDeaths

LEMMA TrainerMoves ==
  ASSUME NEW x \in Trainer, NEW p \in {"training", "dumping", "artifacts", "done"}
  PROVE  [x EXCEPT !.pc = p] \in Trainer
BY DEF Trainer

LEMMA ProcessInit == Init => ProcessTypes
BY RolloutAssumption DEF Init, ProcessTypes, Version, Trainer

\* A scorer loads what the link points at, and only a version can be loaded.
LEMMA ProcessNext == ProcessTypes /\ [Next]_vars => ProcessTypes'
<1> SUFFICES ASSUME ProcessTypes, [Next]_vars
             PROVE  ProcessTypes'
  OBVIOUS
<1>1. ASSUME NEW t \in Trainers, TrainAndSave(t)
      PROVE  ProcessTypes'
  <2>1. train[t] \in Trainer
    BY DEF ProcessTypes
  <2>2. PICK x \in Trainer : train' = [train EXCEPT ![t] = x]
    <3>1. CASE PickVersion(t)
      <4>1. [pc |-> "training", version |-> second] \in Trainer
        BY DEF ProcessTypes, Trainer
      <4> QED
        BY <3>1, <4>1 DEF PickVersion
    <3>2. CASE OpenModel(t) \/ CloseModel(t) \/ WriteArtifacts(t)
      <4>1. \E p \in {"dumping", "artifacts", "done"} :
              train' = [train EXCEPT ![t] = [train[t] EXCEPT !.pc = p]]
        BY <3>2 DEF OpenModel, CloseModel, WriteArtifacts
      <4> QED
        BY <2>1, <4>1, TrainerMoves
    <3> QED
      BY <1>1, <3>1, <3>2 DEF TrainAndSave
  <2>3. UNCHANGED <<second, loaded, deaths>>
    BY <1>1 DEF TrainAndSave, PickVersion, OpenModel, CloseModel, WriteArtifacts
  <2> QED
    BY <2>2, <2>3 DEF ProcessTypes
<1>2. ASSUME NEW t \in Trainers, TrainerDies(t)
      PROVE  ProcessTypes'
  <2>1. train[t] \in Trainer /\ train' = [train EXCEPT ![t] = [train[t] EXCEPT !.pc = "done"]]
    BY <1>2 DEF ProcessTypes, TrainerDies
  <2>2. [train[t] EXCEPT !.pc = "done"] \in Trainer
    BY <2>1, TrainerMoves
  <2>3. deaths' \in 0 .. MaxDeaths /\ UNCHANGED <<second, loaded>>
    BY <1>2, RolloutAssumption DEF ProcessTypes, TrainerDies
  <2> QED
    BY <2>1, <2>2, <2>3 DEF ProcessTypes
<1>3. ASSUME NEW o \in Operators, RollbackDies(o)
      PROVE  ProcessTypes'
  BY <1>3, RolloutAssumption DEF ProcessTypes, RollbackDies
<1>4. ASSUME NEW s \in Scorers, LoadModel(s) \/ ScorerEnds(s)
      PROVE  ProcessTypes'
  BY <1>4 DEF LoadModel, ScorerEnds, LinkExists, ProcessTypes
<1>5. CASE Tick
  BY <1>5, RolloutAssumption DEF Tick, ProcessTypes, Version
<1>6. CASE UNCHANGED <<second, train, loaded, deaths>>
  BY <1>6 DEF ProcessTypes
<1>7. ASSUME NEW o \in Operators, RollbackRun(o) \/ ListExplicit(o)
      PROVE  UNCHANGED <<second, train, loaded, deaths>>
  BY <1>7 DEF RollbackRun, ListDefault, ListExplicit, CheckPaths, Unlink, Symlink
<1> QED
  BY <1>1, <1>2, <1>3, <1>4, <1>5, <1>6, <1>7 DEF Next, vars

\* The types of training, the script, the link and the scorers.
THEOREM RolloutTypes == Spec => []TypeOK
<1>1. LinkInv /\ ProcessTypes => TypeOK
  BY DEF LinkInv, DirsInv, LinkType, ProcessTypes, TypeOK
<1> QED
  BY LinkInit, LinkNext, ProcessInit, ProcessNext, <1>1, PTL DEF Spec

=============================================================================
