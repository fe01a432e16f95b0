-------------------------- MODULE DimensionTimeline --------------------------
(***************************************************************************)
(* What a slowly changing dimension of type 2 promises its readers: asked  *)
(* for an instant, it answers with the attributes every member had then.   *)
(* A load at an instant settles the answers from that instant on and never *)
(* touches an earlier one.  How versions are stored is left open.          *)
(***************************************************************************)
EXTENDS Naturals, Sequences

CONSTANTS
  Ids,       \* the members: customers or accounts
  Value,     \* their tracked attributes
  Differs,   \* the pairs <<recorded, new>> that count as a change
  Extracts,  \* the extracts a load may be given
  None,      \* the answer for a member that is not known
  MaxTime    \* bound: instants

Time == 1 .. MaxTime

VARIABLE answer   \* per instant and member, the attributes then

\* The positions of the extract that are about a member.
RowsOf(df, id) == {i \in 1 .. Len(df) : df[i].id = id}

\* The answer for a member after a load: one of its rows or what it was, the
\* latter when no row differs from it (a load that is run again changes
\* nothing), and never out of date with its last row.
Settled(df, id, old, new) ==
  LET rows == RowsOf(df, id) IN
  IF rows = {} THEN new = old
  ELSE /\ new = old \/ \E i \in rows : new = df[i].val
       /\ old \in Value /\ (\A i \in rows : <<old, df[i].val>> \notin Differs)
            => new = old
       /\ \A i \in rows :
            (\A j \in rows : j <= i)
              => new \in Value /\ <<new, df[i].val>> \notin Differs

Init == answer = [t \in Time |-> [id \in Ids |-> None]]

Load(t, df) ==
  /\ \A u \in t .. MaxTime : answer[u] = answer[t]
  /\ answer' \in [Time -> [Ids -> Value \cup {None}]]
  /\ \A u \in 1 .. t - 1 : answer'[u] = answer[u]
  /\ \A u \in t .. MaxTime : answer'[u] = answer'[t]
  /\ \A id \in Ids : Settled(df, id, answer[t][id], answer'[t][id])

Next == \E t \in Time, df \in Extracts : Load(t, df)

Spec == Init /\ [][Next]_answer

=============================================================================
