------------------------ MODULE DimensionScd2_proof ------------------------
(* The versions of a member tile its time, and the tables implement the     *)
(* timeline, for any attributes, extracts and failures.                     *)
EXTENDS DimensionScd2, SequenceTheorems, TLAPS

\* The member that is between its closing UPDATE and its INSERT.
Open == IF job.pc = "insert" THEN {Row.id} ELSE {}

\* Nothing is dated after instant n, nothing ends before it begins, and the
\* IDENTITY column, at k, numbers the versions.
Dated(V, n, k) ==
  /\ \A v \in V : /\ v.from <= n /\ v.to <= n /\ v.key <= k
                  /\ v.to # 0 => v.from <= v.to
                  /\ v.current <=> v.to = 0
  /\ \A v, w \in V : v.key = w.key => v = w

\* v ends before w begins.
Apart(v, w) == v.to # 0 /\ v.to <= w.from

\* No two versions of a member overlap.
Disjoint(V) ==
  \A v, w \in V : v.id = w.id /\ v # w => Apart(v, w) \/ Apart(w, v)

\* Where a version ends another begins, or is about to be inserted.
Followed(V, open, n) ==
  \A v \in V : v.to # 0 =>
    \/ \E w \in V : w.id = v.id /\ w.key > v.key /\ w.from = v.to
    \/ v.id \in open /\ v.to = n

\* The members but those in open have a current version, those have none.
Present(V, open) ==
  \A v \in V : IF v.id \in open THEN ~v.current ELSE \E w \in V : w.id = v.id /\ w.current

\* VersionsTile of any set of versions, with members open in it.
Tiled(V, open, n, k) ==
  Dated(V, n, k) /\ Disjoint(V) /\ Followed(V, open, n) /\ Present(V, open)

\* The attributes that are current, and those that are valid at instant t:
\* sets of at most one element.
Now(V, id) == {v.val : v \in {u \in V : u.id = id /\ u.current}}
ValidAt(V, t, id) == {v \in V : v.id = id /\ v.from <= t /\ (v.to = 0 \/ t < v.to)}
Answers(V, t, id) == {v.val : v \in ValidAt(V, t, id)}

\* The rows of a member that a load at row n is through with.
Done(df, n, id) == {i \in 1 .. n - 1 : df[i].id = id}

\* What these rows have made of a member whose attributes were old: Settled,
\* for the part of the extract the load is through with.
SettledSoFar(df, n, id, old, new) ==
  /\ new = old \/ \E i \in Done(df, n, id) : new = {df[i].val}
  /\ (\A i \in Done(df, n, id), x \in old : <<x, df[i].val>> \notin Differs) /\ old # {}
       => new = old
  /\ Done(df, n, id) # {} => new # {}
  /\ \A i \in Done(df, n, id) :
       (\A j \in Done(df, n, id) : j <= i)
         => \A x \in new : <<x, df[i].val>> \notin Differs

\* A member is only closed for a row that differs from what was committed, or
\* after one that did.
Reason(df, n, id, old) ==
  \A x \in old : \E i \in 1 .. n : df[i].id = id /\ <<x, df[i].val>> \in Differs

\* A load under way: its transaction's own view against the committed rows.
Loading ==
  /\ job.now = clock /\ clock # 0
  /\ job.df \in Extracts /\ job.at \in 1 .. Len(job.df) + 1
  /\ job.pc # "select" => RowsLeft
  /\ Tiled(job.view, Open, clock, lastKey)
  /\ \A t \in 1 .. clock - 1, id \in Ids : Answers(job.view, t, id) = Answers(dim, t, id)
  /\ \A id \in Ids \ Open :
       SettledSoFar(job.df, job.at, id, Now(dim, id), Now(job.view, id))
  /\ job.pc = "insert" => Reason(job.df, job.at, Row.id, Now(dim, Row.id))

\* The inductive invariant.
DimInv ==
  /\ TypeOK
  /\ Tiled(dim, {}, clock, lastKey)
  /\ job.pc # "idle" => Loading

-----------------------------------------------------------------------------
(* Records                                                                 *)

\* What the actions make of the job's record.
Goes(x, p) == [x EXCEPT !.pc = p]
Skips(x) == [x EXCEPT !.at = @ + 1]
Updates(x, p, V) == [x EXCEPT !.pc = p, !.view = V]
Inserts(x, p, V) == [x EXCEPT !.pc = p, !.at = @ + 1, !.view = V]

\* x is the record of these fields.
IsJob(x, p, df, n, t, V) ==
  x \in Job /\ x.pc = p /\ x.df = df /\ x.at = n /\ x.now = t /\ x.view = V

LEMMA JobFields ==
  ASSUME NEW x \in Job, NEW p \in {"idle", "select", "close", "insert"},
         NEW V \in SUBSET Version
  PROVE  /\ IsJob(Goes(x, p), p, x.df, x.at, x.now, x.view)
         /\ IsJob(Skips(x), x.pc, x.df, x.at + 1, x.now, x.view)
         /\ IsJob(Updates(x, p, V), p, x.df, x.at, x.now, V)
         /\ IsJob(Inserts(x, p, V), p, x.df, x.at + 1, x.now, V)
<1>1. PICK q \in {"idle", "select", "close", "insert"}, df \in Extracts \cup {<<>>},
           n \in Nat, t \in 0 .. MaxTime, W \in SUBSET Version :
        x = [pc |-> q, df |-> df, at |-> n, now |-> t, view |-> W]
  BY DEF Job
<1>2. IsJob(Goes(x, p), p, df, n, t, W)
  BY <1>1 DEF Goes, IsJob, Job
<1>3. IsJob(Skips(x), q, df, n + 1, t, W)
  BY <1>1 DEF Skips, IsJob, Job
<1>4. IsJob(Updates(x, p, V), p, df, n, t, V)
  BY <1>1 DEF Updates, IsJob, Job
<1>5. IsJob(Inserts(x, p, V), p, df, n + 1, t, V)
  <2>1. Inserts(x, p, V) = Skips(Updates(x, p, V))
    BY <1>1 DEF Inserts, Skips, Updates
  <2>2. IsJob(Skips(Updates(x, p, V)), p, df, n + 1, t, V)
    BY <1>4 DEF Skips, IsJob, Job
  <2> QED
    BY <2>1, <2>2
<1> QED
  BY <1>1, <1>2, <1>3, <1>4, <1>5

LEMMA CloseFields ==
  ASSUME NEW v \in Version, job.now \in 0 .. MaxTime
  PROVE  LET c == CloseVersion(v) IN
         /\ c \in Version
         /\ c.key = v.key /\ c.id = v.id /\ c.val = v.val /\ c.from = v.from
         /\ c.to = job.now /\ ~c.current
BY DEF Version, CloseVersion

\* A row of the extract, in a load that is under way.
LEMMA RowType ==
  ASSUME DimInv, job.pc # "idle", RowsLeft
  PROVE  Row \in [id : Ids, val : Value] /\ job.at \in 1 .. Len(job.df)
<1>1. job.df \in Extracts /\ job.at \in 1 .. Len(job.df) + 1 /\ job.at <= Len(job.df)
  BY DEF DimInv, Loading, RowsLeft
<1>2. job.df \in Seq([id : Ids, val : Value])
  BY <1>1, DimensionAssumption
<1>3. Len(job.df) \in Nat /\ job.at \in 1 .. Len(job.df)
  BY <1>1, <1>2
<1>4. job.df[job.at] \in [id : Ids, val : Value]
  BY <1>2, <1>3, ElementOfSeq
<1> QED
  BY <1>3, <1>4 DEF Row

-----------------------------------------------------------------------------
(* Sets of versions                                                        *)

LEMMA VersionNumbers ==
  ASSUME NEW v \in Version
  PROVE  v.key \in Nat /\ v.from \in Nat /\ v.to \in Nat /\ v.from # 0 /\ v.id \in Ids
         /\ v.val \in Value /\ v.current \in BOOLEAN
BY DimensionAssumption DEF Version, Time

\* A member has at most one current version, and one valid version at a time.
LEMMA AtMostOne ==
  ASSUME NEW V \in SUBSET Version, NEW n \in Nat, NEW k \in Nat,
         Dated(V, n, k), Disjoint(V), NEW v \in V, NEW w \in V, v.id = w.id
  PROVE  /\ v.current /\ w.current => v = w
         /\ \A t \in Nat : v \in ValidAt(V, t, v.id) /\ w \in ValidAt(V, t, v.id) => v = w
<1>1. v.from \in Nat /\ w.from \in Nat /\ v.to \in Nat /\ w.to \in Nat
  BY VersionNumbers
<1>2. v # w => Apart(v, w) \/ Apart(w, v)
  BY DEF Disjoint
<1>3. (v.current <=> v.to = 0) /\ (w.current <=> w.to = 0)
  BY DEF Dated
<1>4. v.current /\ w.current => v = w
  BY <1>2, <1>3 DEF Apart
<1>5. ASSUME NEW t \in Nat, v \in ValidAt(V, t, v.id), w \in ValidAt(V, t, v.id)
      PROVE  v = w
  BY <1>1, <1>2, <1>5 DEF Apart, ValidAt
<1> QED
  BY <1>4, <1>5

\* At instant n and later the valid version is the current one.
LEMMA ValidIsCurrent ==
  ASSUME NEW V \in SUBSET Version, NEW n \in Nat, NEW k \in Nat, Dated(V, n, k),
         NEW t \in Nat, n <= t, NEW id
  PROVE  ValidAt(V, t, id) = {v \in V : v.id = id /\ v.current}
<1>1. ASSUME NEW v \in V
      PROVE  v.from <= t /\ (v.to = 0 \/ t < v.to <=> v.current)
  <2>1. v.from \in Nat /\ v.to \in Nat
    BY VersionNumbers
  <2> QED
    BY <2>1 DEF Dated
<1> QED
  BY <1>1 DEF ValidAt

\* The version c is v, closed at instant n.
ClosedAt(v, c, n) ==
  /\ c \in Version /\ c.key = v.key /\ c.id = v.id /\ c.val = v.val /\ c.from = v.from
  /\ c.to = n /\ ~c.current

\* The UPDATE opens a gap for its member and touches nothing else.
LEMMA CloseTiled ==
  ASSUME NEW V \in SUBSET Version, NEW n \in Nat \ {0}, NEW k \in Nat, Tiled(V, {}, n, k),
         NEW v \in V, v.current, NEW c \in Version, ClosedAt(v, c, n)
  PROVE  Tiled((V \ {v}) \cup {c}, {v.id}, n, k)
<1> DEFINE W == (V \ {v}) \cup {c}
<1>0. /\ \A x \in V \cup {c} : x.key \in Nat /\ x.from \in Nat /\ x.to \in Nat
      /\ v.to = 0
  BY VersionNumbers DEF Tiled, Dated
<1>1. Dated(W, n, k)
  BY <1>0 DEF Tiled, Dated, ClosedAt
<1>2. Disjoint(W)
  <2>1. ASSUME NEW w \in V, w # v, w.id = v.id
        PROVE  Apart(w, c)
    BY <1>0, <2>1 DEF Tiled, Disjoint, Apart, ClosedAt
  <2> QED
    BY <2>1 DEF Tiled, Disjoint, ClosedAt
<1>3. Followed(W, {v.id}, n)
  BY DEF Tiled, Followed, ClosedAt
<1>4. Present(W, {v.id})
  <2>1. ASSUME NEW x \in V, x # v, x.id = v.id
        PROVE  ~x.current
    BY <2>1, AtMostOne DEF Tiled
  <2>2. ASSUME NEW x \in V, x.id # v.id
        PROVE  \E w \in W : w.id = x.id /\ w.current
    BY <2>2 DEF Tiled, Present
  <2> QED
    BY <2>1, <2>2 DEF Present, ClosedAt
<1> QED
  BY <1>1, <1>2, <1>3, <1>4 DEF Tiled

LEMMA CloseAnswers ==
  ASSUME NEW V \in SUBSET Version, NEW n \in Nat \ {0}, NEW k \in Nat, Tiled(V, {}, n, k),
         NEW v \in V, v.current, NEW c \in Version, ClosedAt(v, c, n),
         NEW t \in 1 .. n - 1, NEW id \in Ids
  PROVE  Answers((V \ {v}) \cup {c}, t, id) = Answers(V, t, id)
<1> DEFINE W == (V \ {v}) \cup {c}
<1>1. v.to = 0
  BY DEF Tiled, Dated
<1>2. c \in ValidAt(W, t, id) <=> v \in ValidAt(V, t, id)
  BY <1>1 DEF ValidAt, ClosedAt
<1>3. \A x \in V \ {v} : x \in ValidAt(W, t, id) <=> x \in ValidAt(V, t, id)
  BY DEF ValidAt
<1>4. c.val = v.val
  BY DEF ClosedAt
<1>5. ValidAt(W, t, id) \subseteq W /\ ValidAt(V, t, id) \subseteq V
  BY DEF ValidAt
<1>6. \A y : y \in Answers(W, t, id) <=> y \in Answers(V, t, id)
  BY <1>2, <1>3, <1>4, <1>5 DEF Answers
<1> QED
  BY <1>6

LEMMA CloseNow ==
  ASSUME NEW V, NEW v \in V, NEW n, NEW c, ClosedAt(v, c, n), NEW id \in Ids, id # v.id
  PROVE  Now((V \ {v}) \cup {c}, id) = Now(V, id)
BY DEF Now, ClosedAt

\* The version u begins at instant n and has the next key.
OpensAt(u, n, k) ==
  u \in Version /\ u.key = k + 1 /\ u.from = n /\ u.to = 0 /\ u.current

\* The INSERT fills the gap.
LEMMA InsertTiled ==
  ASSUME NEW V \in SUBSET Version, NEW n \in Nat \ {0}, NEW k \in Nat, NEW u \in Version,
         OpensAt(u, n, k), Tiled(V, {u.id}, n, k)
  PROVE  Tiled(V \cup {u}, {}, n, k + 1)
<1> DEFINE W == V \cup {u}
<1>0. \A x \in W : x.key \in Nat /\ x.from \in Nat /\ x.to \in Nat
  BY VersionNumbers
<1>1. Dated(W, n, k + 1)
  BY <1>0 DEF Tiled, Dated, OpensAt
<1>2. Disjoint(W)
  <2>1. ASSUME NEW w \in V, w.id = u.id
        PROVE  Apart(w, u)
    <3>1. ~w.current
      BY <2>1 DEF Tiled, Present
    <3> QED
      BY <3>1 DEF Tiled, Dated, Apart, OpensAt
  <2> QED
    BY <2>1 DEF Tiled, Disjoint
<1>3. Followed(W, {}, n)
  <2>1. ASSUME NEW x \in V, x.to # 0
        PROVE  \E w \in W : w.id = x.id /\ w.key > x.key /\ w.from = x.to
    <3>1. x.key <= k
      BY DEF Tiled, Dated
    <3>2. CASE x.id = u.id /\ x.to = n
      BY <1>0, <3>1, <3>2 DEF OpensAt
    <3>3. CASE ~(x.id = u.id /\ x.to = n)
      BY <2>1, <3>3 DEF Tiled, Followed
    <3> QED
      BY <3>2, <3>3
  <2> QED
    BY <2>1 DEF Followed, OpensAt
<1>4. Present(W, {})
  BY DEF Tiled, Present, OpensAt
<1> QED
  BY <1>1, <1>2, <1>3, <1>4 DEF Tiled

LEMMA InsertAnswers ==
  ASSUME NEW V \in SUBSET Version, NEW n \in Nat \ {0}, NEW k \in Nat, NEW u \in Version,
         OpensAt(u, n, k), NEW t \in 1 .. n - 1, NEW id \in Ids
  PROVE  Answers(V \cup {u}, t, id) = Answers(V, t, id)
<1>1. ValidAt(V \cup {u}, t, id) = ValidAt(V, t, id)
  BY DEF ValidAt, OpensAt
<1> QED
  BY <1>1 DEF Answers

LEMMA InsertNow ==
  ASSUME NEW V, NEW u, u.current, Present(V, {u.id}), NEW id \in Ids
  PROVE  /\ id = u.id => Now(V \cup {u}, id) = {u.val}
         /\ id # u.id => Now(V \cup {u}, id) = Now(V, id)
<1>1. \A w \in V : w.id = u.id => ~w.current
  BY DEF Present
<1> QED
  BY <1>1 DEF Now

-----------------------------------------------------------------------------
(* Rows of the extract                                                     *)

\* A row of another member.
LEMMA SettledSkip ==
  ASSUME NEW df, NEW n \in Nat, NEW id, NEW old, NEW new,
         SettledSoFar(df, n, id, old, new), df[n].id # id
  PROVE  SettledSoFar(df, n + 1, id, old, new)
<1>1. Done(df, n + 1, id) = Done(df, n, id)
  BY DEF Done
<1> QED
  BY <1>1 DEF SettledSoFar

\* A row that does not differ from what is current.
LEMMA SettledSame ==
  ASSUME NEW df, NEW n \in Nat \ {0}, NEW id, NEW old, NEW new,
         SettledSoFar(df, n, id, old, new), df[n].id = id,
         new # {}, \A x \in new : <<x, df[n].val>> \notin Differs
  PROVE  SettledSoFar(df, n + 1, id, old, new)
<1>1. Done(df, n + 1, id) = Done(df, n, id) \cup {n}
  BY DEF Done
<1>2. \A i \in Done(df, n, id) : i \in Nat /\ i < n
  BY DEF Done
<1> QED
  BY <1>1, <1>2 DEF SettledSoFar

\* A row that was inserted.
LEMMA SettledInsert ==
  ASSUME NEW df, NEW n \in Nat \ {0}, NEW id, NEW old,
         df[n].id = id, df[n].val \in Value, Reason(df, n, id, old)
  PROVE  SettledSoFar(df, n + 1, id, old, {df[n].val})
<1>1. \A i : i \in Done(df, n + 1, id) <=> i \in 1 .. n /\ df[i].id = id
  BY DEF Done
<1>2. \A i \in Done(df, n + 1, id) : i \in Nat /\ i <= n
  BY <1>1
<1>3. <<df[n].val, df[n].val>> \notin Differs
  BY DimensionAssumption
<1>4. old # {} => \E i \in Done(df, n + 1, id), x \in old : <<x, df[i].val>> \in Differs
  BY <1>1 DEF Reason
<1>5. n \in Done(df, n + 1, id)
  BY <1>1
<1>6. ASSUME NEW i \in Done(df, n + 1, id), \A j \in Done(df, n + 1, id) : j <= i
      PROVE  i = n
  BY <1>2, <1>5, <1>6
<1> QED
  BY <1>3, <1>4, <1>5, <1>6 DEF SettledSoFar

\* A member without a current version was unknown when the load began.
LEMMA NothingIsReason ==
  ASSUME NEW df, NEW n, NEW id, NEW old, SettledSoFar(df, n, id, old, {})
  PROVE  Reason(df, n, id, old)
BY DEF SettledSoFar, Reason

LEMMA DifferenceIsReason ==
  ASSUME NEW df, NEW n \in Nat \ {0}, NEW id, NEW old, NEW new,
         SettledSoFar(df, n, id, old, new), df[n].id = id,
         \A x, z \in old : x = z,
         NEW y \in new, <<y, df[n].val>> \in Differs
  PROVE  Reason(df, n, id, old)
<1> SUFFICES ASSUME NEW x \in old,
                    \A i \in 1 .. n : df[i].id = id => <<x, df[i].val>> \notin Differs
             PROVE  FALSE
  BY DEF Reason
<1>1. \A i \in Done(df, n, id), z \in old : <<z, df[i].val>> \notin Differs
  BY DEF Done
<1>2. new = old
  BY <1>1 DEF SettledSoFar
<1>3. y = x
  BY <1>2
<1> QED
  BY <1>3

-----------------------------------------------------------------------------
(* The steps of a load keep the invariant                                  *)

LEMMA DimInit == Init => DimInv
<1> SUFFICES ASSUME Init
             PROVE  DimInv
  OBVIOUS
<1>1. TypeOK
  BY DimensionAssumption DEF Init, TypeOK, Idle, Job
<1>2. Tiled(dim, {}, clock, lastKey)
  BY DEF Init, Tiled, Dated, Disjoint, Followed, Present
<1> QED
  BY <1>1, <1>2 DEF Init, Idle, DimInv

\* Later instants and keys are beyond the dates and keys of a set of versions.
LEMMA TiledLater ==
  ASSUME NEW V \in SUBSET Version, NEW n \in Nat, NEW k \in Nat, Tiled(V, {}, n, k),
         NEW m \in Nat, NEW j \in Nat, n <= m, k <= j
  PROVE  Tiled(V, {}, m, j)
<1>1. Dated(V, m, j)
  BY VersionNumbers DEF Tiled, Dated
<1> QED
  BY <1>1 DEF Tiled, Followed

LEMMA StartStep ==
  ASSUME DimInv, NEW df \in Extracts, Start(df)
  PROVE  DimInv'
<1>1. /\ job' = [pc |-> "select", df |-> df, at |-> 1, now |-> clock + 1, view |-> dim]
      /\ clock' = clock + 1 /\ clock + 1 \in 1 .. MaxTime /\ clock \in Nat
      /\ UNCHANGED <<dim, lastKey>>
  BY DimensionAssumption DEF Start, DimInv, TypeOK
<1>2. /\ job'.pc = "select" /\ job'.df = df /\ job'.at = 1 /\ job'.now = clock + 1
      /\ job'.view = dim
  BY <1>1
<1>3. TypeOK'
  BY <1>1 DEF DimInv, TypeOK, Job
<1>4. Tiled(dim, {}, clock + 1, lastKey)
  BY <1>1, TiledLater DEF DimInv, TypeOK
<1>5. df \in Seq([id : Ids, val : Value])
  BY DimensionAssumption
<1>6. job'.at \in 1 .. Len(df) + 1
  BY <1>2, <1>5
<1>7. \A id \in Ids : SettledSoFar(df, 1, id, Now(dim, id), Now(dim, id))
  BY DEF SettledSoFar, Done
<1>8. Open' = {}
  BY <1>2 DEF Open
<1>9. Loading'
  BY <1>1, <1>2, <1>4, <1>6, <1>7, <1>8 DEF Loading
<1> QED
  BY <1>1, <1>3, <1>4, <1>9 DEF DimInv

LEMMA SelectNothingStep ==
  ASSUME DimInv, SelectNothing
  PROVE  DimInv'
<1>1. /\ job' = Goes(job, "insert") /\ UNCHANGED <<dim, lastKey, clock>>
      /\ job.pc = "select" /\ RowsLeft /\ CurrentVersions(Row.id) = {}
  BY DEF SelectNothing, Goes
<1>2. IsJob(job', "insert", job.df, job.at, job.now, job.view)
  BY <1>1, JobFields DEF DimInv, TypeOK, Job
<1>3. Open = {} /\ Row' = Row /\ Open' = {Row.id} /\ RowsLeft'
  BY <1>1, <1>2 DEF Open, Row, RowsLeft, IsJob
<1>4. Row.id \in Ids /\ Loading /\ job.at \in Nat
  BY <1>1, RowType DEF DimInv
<1>5. \A v \in job.view : v.id # Row.id
  BY <1>1, <1>3, <1>4 DEF Loading, Tiled, Present, CurrentVersions
<1>6. Tiled(job.view, {Row.id}, clock, lastKey)
  BY <1>3, <1>4, <1>5 DEF Loading, Tiled, Followed, Present
<1>7. Now(job.view, Row.id) = {}
  BY <1>5 DEF Now
<1>8. Reason(job.df, job.at, Row.id, Now(dim, Row.id))
  BY <1>3, <1>4, <1>7, NothingIsReason DEF Loading
<1>9. Loading'
  BY <1>1, <1>2, <1>3, <1>4, <1>6, <1>8 DEF Loading, IsJob
<1> QED
  BY <1>1, <1>2, <1>9 DEF DimInv, TypeOK, IsJob

LEMMA SelectSameStep ==
  ASSUME DimInv, SelectSame
  PROVE  DimInv'
<1>1. /\ job' = Skips(job) /\ UNCHANGED <<dim, lastKey, clock>>
      /\ job.pc = "select" /\ RowsLeft
      /\ \E v \in CurrentVersions(Row.id) : <<v.val, Row.val>> \notin Differs
  BY DEF SelectSame, Skips
<1>2. IsJob(job', "select", job.df, job.at + 1, job.now, job.view)
  BY <1>1, JobFields DEF DimInv, TypeOK, Job
<1>3. Open = {} /\ Open' = {}
  BY <1>1, <1>2 DEF Open, IsJob
<1>4. /\ Row.id \in Ids /\ Loading /\ job.at \in 1 .. Len(job.df)
      /\ job.view \in SUBSET Version /\ clock \in Nat /\ lastKey \in Nat
  BY <1>1, RowType DEF DimInv, TypeOK, Job
<1>5. PICK v \in job.view : v.id = Row.id /\ v.current /\ <<v.val, Row.val>> \notin Differs
  BY <1>1 DEF CurrentVersions
<1>6. \A w \in job.view : w.id = Row.id /\ w.current => w = v
  BY <1>4, <1>5, AtMostOne DEF Loading, Tiled
<1>7. Now(job.view, Row.id) = {v.val}
  BY <1>5, <1>6 DEF Now
<1>8. ASSUME NEW id \in Ids
      PROVE  SettledSoFar(job.df, job.at + 1, id, Now(dim, id), Now(job.view, id))
  <2>1. SettledSoFar(job.df, job.at, id, Now(dim, id), Now(job.view, id))
    BY <1>3, <1>4 DEF Loading
  <2>2. CASE id = Row.id
    <3>1. job.df[job.at].id = id /\ job.df[job.at].val = Row.val /\ job.at \in Nat \ {0}
      BY <1>4, <2>2 DEF Row
    <3>2. /\ Now(job.view, id) # {}
          /\ \A x \in Now(job.view, id) : <<x, job.df[job.at].val>> \notin Differs
      BY <1>5, <1>7, <2>2, <3>1
    <3> QED
      BY <2>1, <3>1, <3>2, SettledSame
  <2>3. CASE id # Row.id
    BY <1>4, <2>1, <2>3, SettledSkip DEF Row
  <2> QED
    BY <2>2, <2>3
<1>9. job.at + 1 \in 1 .. Len(job.df) + 1
  BY <1>4
<1>10. Loading'
  BY <1>1, <1>2, <1>3, <1>4, <1>8, <1>9 DEF Loading, IsJob
<1> QED
  BY <1>1, <1>2, <1>10 DEF DimInv, TypeOK, IsJob

LEMMA SelectChangedStep ==
  ASSUME DimInv, SelectChanged
  PROVE  DimInv'
<1>1. /\ job' = Goes(job, "close") /\ UNCHANGED <<dim, lastKey, clock>>
      /\ job.pc = "select" /\ RowsLeft
  BY DEF SelectChanged, Goes
<1>2. IsJob(job', "close", job.df, job.at, job.now, job.view)
  BY <1>1, JobFields DEF DimInv, TypeOK, Job
<1>3. Open = {} /\ Open' = {} /\ RowsLeft' /\ Loading
  BY <1>1, <1>2 DEF Open, RowsLeft, IsJob, DimInv
<1>4. Loading'
  BY <1>1, <1>2, <1>3 DEF Loading, IsJob
<1> QED
  BY <1>1, <1>2, <1>4 DEF DimInv, TypeOK, IsJob

LEMMA CloseStep ==
  ASSUME DimInv, Close
  PROVE  DimInv'
<1>1. PICK v \in CurrentVersions(Row.id) :
        /\ <<v.val, Row.val>> \in Differs
        /\ job' = Updates(job, "insert", (job.view \ {v}) \cup {CloseVersion(v)})
  BY DEF Close, Updates
<1>2. UNCHANGED <<dim, lastKey, clock>> /\ job.pc = "close"
  BY DEF Close
<1>3. RowsLeft /\ Loading /\ Open = {}
  BY <1>2 DEF DimInv, Loading, Open
<1>4. /\ Row.id \in Ids /\ job.at \in 1 .. Len(job.df) /\ job.now \in 0 .. MaxTime
      /\ job.view \in SUBSET Version /\ dim \in SUBSET Version
      /\ clock \in Nat \ {0} /\ lastKey \in Nat
  BY <1>2, <1>3, RowType DEF DimInv, TypeOK, Job, Loading
<1> DEFINE c == CloseVersion(v)
           W == (job.view \ {v}) \cup {c}
<1>5. v \in job.view /\ v \in Version /\ v.id = Row.id /\ v.current
  BY <1>1, <1>4 DEF CurrentVersions
<1>6. c \in Version /\ ClosedAt(v, c, clock)
  BY <1>3, <1>4, <1>5, CloseFields DEF ClosedAt, Loading
<1> HIDE DEF c
<1>7. W \in SUBSET Version
  BY <1>4, <1>6
<1>8. IsJob(job', "insert", job.df, job.at, job.now, W)
  BY <1>1, <1>7, JobFields DEF DimInv, TypeOK, c
<1>9. Row' = Row /\ Open' = {Row.id} /\ RowsLeft'
  BY <1>3, <1>8 DEF Open, Row, RowsLeft, IsJob
<1>10. Tiled(job.view, {}, clock, lastKey)
  BY <1>3 DEF Loading
<1>11. Tiled(W, {Row.id}, clock, lastKey)
  BY <1>4, <1>5, <1>6, <1>10, CloseTiled
<1>12. ASSUME NEW t \in 1 .. clock - 1, NEW id \in Ids
       PROVE  Answers(W, t, id) = Answers(dim, t, id)
  <2>1. Answers(W, t, id) = Answers(job.view, t, id)
    BY <1>4, <1>5, <1>6, <1>10, CloseAnswers
  <2> QED
    BY <1>3, <2>1 DEF Loading
<1>13. ASSUME NEW id \in Ids \ {Row.id}
       PROVE  SettledSoFar(job.df, job.at, id, Now(dim, id), Now(W, id))
  <2>1. Now(W, id) = Now(job.view, id)
    BY <1>5, <1>6, CloseNow
  <2> QED
    BY <1>3, <2>1 DEF Loading
<1>14. Reason(job.df, job.at, Row.id, Now(dim, Row.id))
  <2>1. \A x, z \in Now(dim, Row.id) : x = z
    BY <1>4, AtMostOne DEF DimInv, Tiled, Now
  <2>2. v.val \in Now(job.view, Row.id)
    BY <1>5 DEF Now
  <2>3. SettledSoFar(job.df, job.at, Row.id, Now(dim, Row.id), Now(job.view, Row.id))
    BY <1>3, <1>4 DEF Loading
  <2>4. /\ job.df[job.at].id = Row.id /\ job.at \in Nat \ {0}
        /\ <<v.val, job.df[job.at].val>> \in Differs
    BY <1>1, <1>4 DEF Row
  <2> QED
    BY <2>1, <2>2, <2>3, <2>4, DifferenceIsReason
<1> HIDE DEF W
<1>15. Loading'
  BY <1>2, <1>3, <1>8, <1>9, <1>11, <1>12, <1>13, <1>14 DEF Loading, IsJob
<1> QED
  BY <1>2, <1>8, <1>15 DEF DimInv, TypeOK, IsJob

LEMMA NewVersionFields ==
  ASSUME DimInv, job.pc = "insert"
  PROVE  /\ NewVersion \in Version /\ OpensAt(NewVersion, clock, lastKey)
         /\ NewVersion.id = Row.id /\ NewVersion.val = Row.val
<1>1. Loading /\ RowsLeft
  BY DEF DimInv, Loading
<1>2. Row.id \in Ids /\ Row.val \in Value
  BY <1>1, RowType
<1>3. clock \in 1 .. MaxTime /\ lastKey + 1 \in Nat /\ job.now = clock /\ 0 \in 0 .. MaxTime
  BY <1>1, DimensionAssumption DEF DimInv, TypeOK, Loading
<1> QED
  BY <1>2, <1>3 DEF NewVersion, OpensAt, Version, Time

LEMMA InsertStep ==
  ASSUME DimInv, Insert
  PROVE  DimInv'
<1>1. /\ job.pc = "insert" /\ job' = Inserts(job, "select", job.view \cup {NewVersion})
      /\ lastKey' = lastKey + 1 /\ UNCHANGED <<dim, clock>>
  BY DEF Insert, Inserts
<1>2. PICK u \in Version :
        u = NewVersion /\ OpensAt(u, clock, lastKey) /\ u.id = Row.id /\ u.val = Row.val
  BY <1>1, NewVersionFields
<1>3. RowsLeft /\ Loading /\ Open = {Row.id}
  BY <1>1 DEF DimInv, Loading, Open
<1>4. /\ Row.id \in Ids /\ Row.val \in Value /\ job.at \in 1 .. Len(job.df)
      /\ job.view \in SUBSET Version /\ dim \in SUBSET Version /\ job \in Job
      /\ clock \in Nat \ {0} /\ lastKey \in Nat
  BY <1>1, <1>3, RowType DEF DimInv, TypeOK, Job, Loading
<1>5. PICK W \in SUBSET Version : W = job.view \cup {u}
  BY <1>4
<1>6. IsJob(job', "select", job.df, job.at + 1, job.now, W)
  BY <1>1, <1>2, <1>4, <1>5, JobFields
<1>7. Open' = {}
  BY <1>6 DEF Open, IsJob
<1>8. Tiled(job.view, {u.id}, clock, lastKey)
  BY <1>2, <1>3 DEF Loading
<1>9. Tiled(W, {}, clock, lastKey + 1)
  BY <1>2, <1>4, <1>5, <1>8, InsertTiled
<1>10. ASSUME NEW t \in 1 .. clock - 1, NEW id \in Ids
       PROVE  Answers(W, t, id) = Answers(dim, t, id)
  <2>1. Answers(W, t, id) = Answers(job.view, t, id)
    BY <1>2, <1>4, <1>5, InsertAnswers
  <2> QED
    BY <1>3, <2>1 DEF Loading
<1>11. ASSUME NEW id \in Ids
       PROVE  SettledSoFar(job.df, job.at + 1, id, Now(dim, id), Now(W, id))
  <2>1. /\ id = u.id => Now(W, id) = {u.val}
        /\ id # u.id => Now(W, id) = Now(job.view, id)
    <3>1. Present(job.view, {u.id}) /\ u.current
      BY <1>2, <1>8 DEF Tiled, OpensAt
    <3>2. /\ id = u.id => Now(job.view \cup {u}, id) = {u.val}
          /\ id # u.id => Now(job.view \cup {u}, id) = Now(job.view, id)
      BY <3>1, InsertNow
    <3> QED
      BY <1>5, <3>2
  <2>2. CASE id = Row.id
    <3>1. Reason(job.df, job.at, id, Now(dim, id))
      BY <1>1, <1>3, <2>2 DEF Loading
    <3>2. /\ Now(W, id) = {job.df[job.at].val} /\ job.df[job.at].id = id
          /\ job.df[job.at].val \in Value /\ job.at \in Nat \ {0}
      BY <1>2, <1>4, <2>1, <2>2 DEF Row
    <3>3. SettledSoFar(job.df, job.at + 1, id, Now(dim, id), {job.df[job.at].val})
      BY <3>1, <3>2, SettledInsert
    <3> QED
      BY <3>2, <3>3
  <2>3. CASE id # Row.id
    <3>1. SettledSoFar(job.df, job.at, id, Now(dim, id), Now(job.view, id))
      BY <1>3, <2>3 DEF Loading
    <3> QED
      BY <1>2, <1>4, <2>1, <2>3, <3>1, SettledSkip DEF Row
  <2> QED
    BY <2>2, <2>3
<1>12. job.at + 1 \in 1 .. Len(job.df) + 1
  BY <1>4
<1>13. Loading'
  BY <1>1, <1>3, <1>6, <1>7, <1>9, <1>10, <1>11, <1>12 DEF Loading, IsJob
<1>14. Tiled(dim, {}, clock, lastKey + 1)
  BY <1>4, TiledLater DEF DimInv
<1> QED
  BY <1>1, <1>4, <1>6, <1>13, <1>14 DEF DimInv, TypeOK, IsJob

\* The IDENTITY column keeps the keys a failed load has drawn.
LEMMA CommitStep ==
  ASSUME DimInv, Commit
  PROVE  DimInv'
<1>1. /\ job.pc = "select" /\ dim' = job.view /\ job' = Idle
      /\ UNCHANGED <<lastKey, clock>>
  BY DEF Commit
<1>2. Tiled(job.view, {}, clock, lastKey) /\ job.view \in SUBSET Version
  BY <1>1 DEF DimInv, Loading, Open, TypeOK, Job
<1>3. Idle \in Job /\ Idle.pc = "idle"
  BY DimensionAssumption DEF Idle, Job
<1> QED
  BY <1>1, <1>2, <1>3 DEF DimInv, TypeOK

LEMMA FailStep ==
  ASSUME DimInv, Fail
  PROVE  DimInv'
<1>1. job' = Idle /\ UNCHANGED <<dim, lastKey, clock>>
  BY DEF Fail
<1>2. Idle \in Job /\ Idle.pc = "idle"
  BY DimensionAssumption DEF Idle, Job
<1> QED
  BY <1>1, <1>2 DEF DimInv, TypeOK

LEMMA DimNext == DimInv /\ [Next]_vars => DimInv'
<1> SUFFICES ASSUME DimInv, [Next]_vars
             PROVE  DimInv'
  OBVIOUS
<1>1. CASE UNCHANGED vars
  BY <1>1 DEF vars, DimInv, TypeOK, Loading, Open, Row, RowsLeft
<1> QED
  BY <1>1, StartStep, SelectNothingStep, SelectSameStep, SelectChangedStep, CloseStep,
     InsertStep, CommitStep, FailStep DEF Next

LEMMA DimAlways == Spec => []DimInv
BY DimInit, DimNext, PTL DEF Spec

\* The dimension, its keys and the load's record are well-formed, whatever the
\* extracts are and wherever a load fails.
THEOREM DimensionTypes == Spec => []TypeOK
<1>1. DimInv => TypeOK
  BY DEF DimInv
<1> QED
  BY <1>1, DimAlways, PTL

\* The committed versions of a member tile its time: none overlap, each but the
\* current one is followed by another (populate_dim_customer.py:33-85).
THEOREM VersionsAlwaysTile == Spec => []VersionsTile
<1>1. DimInv => VersionsTile
  BY DEF DimInv, Tiled, Dated, Disjoint, Followed, Present, Apart, VersionsTile
<1> QED
  BY <1>1, DimAlways, PTL

-----------------------------------------------------------------------------
(* The refinement                                                          *)

\* AsOf, for a set of versions that need not be committed.
Reply(V, t, id) ==
  IF ValidAt(V, t, id) = {} THEN None ELSE (CHOOSE v \in ValidAt(V, t, id) : TRUE).val

\* A reply and the set of answers it was taken from.
Told(answers, reply) ==
  \/ answers = {} /\ reply = None
  \/ answers = {reply} /\ reply \in Value

LEMMA ToldOnce ==
  ASSUME NEW answers, NEW r, NEW s, Told(answers, r), Told(answers, s)
  PROVE  r = s
<1>1. CASE answers = {}
  BY <1>1 DEF Told
<1>2. CASE answers # {}
  <2>1. answers = {r} /\ answers = {s}
    BY <1>2 DEF Told
  <2>2. r \in {s}
    BY <2>1
  <2> QED
    BY <2>2
<1> QED
  BY <1>1, <1>2

LEMMA AsOfReply ==
  ASSUME NEW t, NEW id
  PROVE  AsOf(t, id) = Reply(dim, t, id)
BY DEF AsOf, Reply, ValidAt

\* What a reader gets is the one element of Answers, or None.
LEMMA ReplyIsAnswer ==
  ASSUME NEW V \in SUBSET Version, NEW n \in Nat, NEW k \in Nat,
         Dated(V, n, k), Disjoint(V), NEW t \in Nat, NEW id \in Ids
  PROVE  Told(Answers(V, t, id), Reply(V, t, id))
<1>1. CASE ValidAt(V, t, id) = {}
  BY <1>1 DEF Answers, Reply, Told
<1>2. CASE ValidAt(V, t, id) # {}
  <2>1. PICK v \in ValidAt(V, t, id) : Reply(V, t, id) = v.val
    BY <1>2 DEF Reply
  <2>2. v \in V /\ v.id = id
    BY DEF ValidAt
  <2>3. ASSUME NEW w \in ValidAt(V, t, id)
        PROVE  w = v
    <3>1. w \in V /\ w.id = id
      BY DEF ValidAt
    <3> QED
      BY <2>2, <3>1, AtMostOne
  <2>4. Answers(V, t, id) = {v.val}
    BY <2>3 DEF Answers
  <2>5. v.val \in Value
    BY <2>2, VersionNumbers
  <2> QED
    BY <2>1, <2>4, <2>5 DEF Told
<1> QED
  BY <1>1, <1>2

LEMMA AnswersNow ==
  ASSUME NEW V \in SUBSET Version, NEW n \in Nat, NEW k \in Nat, Dated(V, n, k),
         NEW t \in Nat, n <= t, NEW id
  PROVE  Answers(V, t, id) = Now(V, id)
BY ValidIsCurrent DEF Answers, Now

LEMMA RefineInit == Init => Timeline!Init
<1> SUFFICES ASSUME Init
             PROVE  Timeline!Init
  OBVIOUS
<1>1. ASSUME NEW t \in Time, NEW id \in Ids
      PROVE  AsOf(t, id) = None
  BY DEF Init, AsOf
<1> QED
  BY <1>1 DEF Timeline!Init, Timeline!Time, Answer, Time

\* What SettledSoFar says of the whole extract is what the timeline promises.
LEMMA SettledInTheEnd ==
  ASSUME NEW df \in Seq([id : Ids, val : Value]), NEW id \in Ids, NEW old, NEW new,
         NEW olds, NEW news, SettledSoFar(df, Len(df) + 1, id, olds, news),
         Told(olds, old), Told(news, new)
  PROVE  Timeline!Settled(df, id, old, new)
<1> DEFINE rows == Timeline!RowsOf(df, id)
<1>1. Done(df, Len(df) + 1, id) = rows
  BY DEF Done, Timeline!RowsOf
<1>2. \A i \in rows : df[i].val \in Value
  <2>1. ASSUME NEW i \in rows
        PROVE  df[i] \in [id : Ids, val : Value]
    BY ElementOfSeq DEF Timeline!RowsOf
  <2> QED
    BY <2>1
<1> HIDE DEF rows
<1>3. CASE rows = {}
  <2>1. news = olds
    BY <1>1, <1>3 DEF SettledSoFar
  <2>2. new = old
    BY <2>1, ToldOnce
  <2> QED
    BY <1>3, <2>2 DEF Timeline!Settled, rows
<1>4. CASE rows # {}
  <2>1. news = {new} /\ new \in Value
    BY <1>1, <1>4 DEF SettledSoFar, Told
  <2>2. new = old \/ \E i \in rows : new = df[i].val
    <3>1. news = olds \/ \E i \in rows : news = {df[i].val}
      BY <1>1 DEF SettledSoFar
    <3>2. CASE news = olds
      BY <3>2, ToldOnce
    <3>3. ASSUME NEW i \in rows, news = {df[i].val}
          PROVE  new = df[i].val
      <4>1. new \in {df[i].val}
        BY <2>1, <3>3
      <4> QED
        BY <4>1
    <3> QED
      BY <3>1, <3>2, <3>3
  <2>3. ASSUME old \in Value, \A i \in rows : <<old, df[i].val>> \notin Differs
        PROVE  new = old
    <3>1. olds = {old}
      BY <2>3, DimensionAssumption DEF Told
    <3>2. news = olds
      BY <1>1, <2>3, <3>1 DEF SettledSoFar
    <3> QED
      BY <3>2, ToldOnce
  <2>4. ASSUME NEW i \in rows, \A j \in rows : j <= i
        PROVE  new \in Value /\ <<new, df[i].val>> \notin Differs
    BY <1>1, <2>1, <2>4 DEF SettledSoFar
  <2> QED
    BY <1>4, <2>2, <2>3, <2>4 DEF Timeline!Settled, rows
<1> QED
  BY <1>3, <1>4

\* The commit of a load is a Load of the timeline at the load's instant.
LEMMA CommitLoads ==
  ASSUME DimInv, Commit
  PROVE  Timeline!Load(clock, job.df)
<1>1. /\ job.pc = "select" /\ ~RowsLeft /\ dim' = job.view
      /\ Loading /\ Open = {}
  BY DEF Commit, DimInv, Open
<1>2. /\ dim \in SUBSET Version /\ job.view \in SUBSET Version
      /\ clock \in Time /\ clock \in Nat /\ lastKey \in Nat /\ MaxTime \in Nat
  BY <1>1, DimensionAssumption DEF DimInv, TypeOK, Job, Loading, Time
<1>3. /\ Dated(dim, clock, lastKey) /\ Disjoint(dim)
      /\ Dated(job.view, clock, lastKey) /\ Disjoint(job.view)
  BY <1>1 DEF DimInv, Loading, Tiled
<1>4. job.df \in Seq([id : Ids, val : Value]) /\ job.at = Len(job.df) + 1
  <2>1. job.df \in Seq([id : Ids, val : Value])
    BY <1>1, DimensionAssumption DEF Loading
  <2>2. Len(job.df) \in Nat
    BY <2>1
  <2> QED
    BY <1>1, <2>1, <2>2 DEF Loading, RowsLeft
<1> DEFINE old(t, id) == Reply(dim, t, id)
           new(t, id) == Reply(job.view, t, id)
<1>5. \A t \in Time, id \in Ids : Answer[t][id] = old(t, id) /\ Answer'[t][id] = new(t, id)
  <2>1. ASSUME NEW t \in Time, NEW id \in Ids
        PROVE  AsOf(t, id)' = new(t, id)
    BY <1>1 DEF AsOf, Reply, ValidAt
  <2> QED
    BY <2>1, AsOfReply DEF Answer
<1>6. ASSUME NEW t \in Time, NEW id \in Ids
      PROVE  Told(Answers(dim, t, id), old(t, id)) /\ Told(Answers(job.view, t, id), new(t, id))
  <2>1. t \in Nat
    BY DEF Time
  <2> QED
    BY <1>2, <1>3, <2>1, ReplyIsAnswer
<1>7. ASSUME NEW t \in clock .. MaxTime, NEW id \in Ids
      PROVE  /\ t \in Time
             /\ Answers(dim, t, id) = Now(dim, id) /\ Answers(job.view, t, id) = Now(job.view, id)
  <2>1. t \in Nat /\ clock <= t /\ t \in Time
    BY <1>2 DEF Time
  <2> QED
    BY <1>2, <1>3, <2>1, AnswersNow
<1> HIDE DEF old, new
<1>8. ASSUME NEW t \in clock .. MaxTime, NEW id \in Ids
      PROVE  old(t, id) = old(clock, id) /\ new(t, id) = new(clock, id)
  <2>1. clock \in clock .. MaxTime /\ clock \in Time /\ t \in Time
    BY <1>2, <1>7 DEF Time
  <2>2. /\ Told(Now(dim, id), old(t, id)) /\ Told(Now(job.view, id), new(t, id))
        /\ Told(Now(dim, id), old(clock, id)) /\ Told(Now(job.view, id), new(clock, id))
    BY <1>6, <1>7, <2>1
  <2> QED
    BY <2>2, ToldOnce
<1>9. ASSUME NEW t \in 1 .. clock - 1, NEW id \in Ids
      PROVE  t \in Time /\ old(t, id) = new(t, id)
  <2>1. t \in Time
    BY <1>2 DEF Time
  <2>2. Answers(job.view, t, id) = Answers(dim, t, id)
    BY <1>1 DEF Loading
  <2> QED
    BY <1>6, <2>1, <2>2, ToldOnce
<1>10. ASSUME NEW id \in Ids
       PROVE  Timeline!Settled(job.df, id, old(clock, id), new(clock, id))
  <2>1. SettledSoFar(job.df, Len(job.df) + 1, id, Now(dim, id), Now(job.view, id))
    BY <1>1, <1>4 DEF Loading
  <2>2. clock \in clock .. MaxTime
    BY <1>2 DEF Time
  <2>3. Told(Now(dim, id), old(clock, id)) /\ Told(Now(job.view, id), new(clock, id))
    BY <1>6, <1>7, <2>2
  <2> QED
    BY <1>4, <2>1, <2>3, SettledInTheEnd
<1>11. \A t \in Time : Answer[t] = [id \in Ids |-> old(t, id)] /\ Answer'[t] = [id \in Ids |-> new(t, id)]
  <2>1. \A t \in Time : /\ Answer[t] = [id \in Ids |-> Answer[t][id]]
                        /\ Answer'[t] = [id \in Ids |-> Answer'[t][id]]
    BY DEF Answer
  <2> QED
    BY <1>5, <2>1
<1>12. \A t \in clock .. MaxTime : Answer[t] = Answer[clock] /\ Answer'[t] = Answer'[clock]
  <2>1. ASSUME NEW t \in clock .. MaxTime
        PROVE  Answer[t] = Answer[clock] /\ Answer'[t] = Answer'[clock]
    <3>1. t \in Time /\ clock \in Time
      BY <1>2 DEF Time
    <3>2. /\ [id \in Ids |-> old(t, id)] = [id \in Ids |-> old(clock, id)]
          /\ [id \in Ids |-> new(t, id)] = [id \in Ids |-> new(clock, id)]
      BY <1>8
    <3> QED
      BY <1>11, <3>1, <3>2
  <2> QED
    BY <2>1
<1>13. \A t \in 1 .. clock - 1 : Answer'[t] = Answer[t]
  <2>1. ASSUME NEW t \in 1 .. clock - 1
        PROVE  Answer'[t] = Answer[t]
    <3>1. t \in Time
      BY <1>2 DEF Time
    <3>2. [id \in Ids |-> new(t, id)] = [id \in Ids |-> old(t, id)]
      BY <1>9
    <3> QED
      BY <1>11, <3>1, <3>2
  <2> QED
    BY <2>1
<1>14. Answer' \in [Time -> [Ids -> Value \cup {None}]]
  <2>1. ASSUME NEW t \in Time
        PROVE  Answer'[t] \in [Ids -> Value \cup {None}]
    BY <1>6, <1>11 DEF Told
  <2>2. Answer' = [t \in Time |-> Answer'[t]]
    BY DEF Answer
  <2> QED
    BY <2>1, <2>2
<1>15. \A id \in Ids : Timeline!Settled(job.df, id, Answer[clock][id], Answer'[clock][id])
  BY <1>2, <1>5, <1>10
<1> QED
  BY <1>12, <1>13, <1>14, <1>15 DEF Timeline!Load, Timeline!Time, Time

\* Only a commit changes what readers see.
LEMMA RefineNext == DimInv /\ [Next]_vars => [Timeline!Next]_Answer
<1> SUFFICES ASSUME DimInv, [Next]_vars
             PROVE  Timeline!Next \/ Answer' = Answer
  OBVIOUS
<1>1. CASE Commit
  <2>1. clock \in Time /\ job.df \in Extracts
    BY <1>1, DimensionAssumption DEF Commit, DimInv, TypeOK, Loading, Time
  <2> QED
    BY <2>1, <1>1, CommitLoads DEF Timeline!Next, Timeline!Time, Time
<1>2. CASE ~Commit
  <2>1. dim' = dim
    BY <1>2 DEF Next, vars, Start, SelectNothing, SelectSame, SelectChanged, Close, Insert, Fail
  <2>2. \A t \in Time, id \in Ids : AsOf(t, id)' = AsOf(t, id)
    BY <2>1 DEF AsOf
  <2> QED
    BY <2>2 DEF Answer
<1> QED
  BY <1>1, <1>2

\* The tables implement the timeline: a load settles the members it lists as of
\* its own instant, for every extract, and no answer about an earlier instant
\* changes, wherever a load fails (populate_dim_customer.py:33-85,
\* populate_dim_account.py).
THEOREM TimelineImplemented == Spec => ImplementsTimeline
BY RefineInit, RefineNext, DimAlways, PTL DEF Spec, ImplementsTimeline, Timeline!Spec

=============================================================================
