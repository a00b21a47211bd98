----------------------------- MODULE QueryProps -----------------------------
(***************************************************************************)
(* What the index scan, the joins and the cursors of string lists do.      *)
(***************************************************************************)
EXTENDS Query

Keys == {InnerProj(t) : t \in ToSet(inner)} \cup {OuterProj(t) : t \in ToSet(outer)}

\* Of the first n inner rows those with the key.
Where(n, key) == Ascending({i \in 1 .. n : InnerProj(inner[i]) = key})
WithKey(n, key) == [x \in DOMAIN Where(n, key) |-> inner[Where(n, key)[x]]]

Found(key) ==
  LET l == index_lookup(Schema, ind, key) IN IF l = NULL THEN <<>> ELSE fifo[l]

\* While the index is being built it groups the rows read so far: under each key
\* are the rows with that key, in the order of the scan, whichever buckets and
\* inner tables the keys share (db_operations_light.c:128).
IndexGroups ==
  opened = [j \in Join |-> 0] => \A key \in Keys : Found(key) = WithKey(scan - 1, key)

\* The rows that outer row o and inner row t make.
Joined(o, t) == o \o Rest(t)

\* The outer row at p makes r with an inner row of the same join values.
Makes(p, r) ==
  \E i \in DOMAIN inner :
    InnerProj(inner[i]) = OuterProj(outer[p]) /\ r = Joined(outer[p], inner[i])

\* A row that comes out of a join is an outer row with an inner row of the same
\* join values, and the outer rows come in the order of their scan.
JoinMatches ==
  \A j \in Join : \A m, n \in DOMAIN res[j] : m <= n =>
    \E p, q \in DOMAIN outer : p <= q /\ Makes(p, res[j][m]) /\ Makes(q, res[j][n])

\* No row comes out of a join twice after it was opened, not even if it was open
\* before, or if another join takes rows from the same fifos at the same time.
NoRowTwice == \A j \in Join : \A m, n \in DOMAIN res[j] : res[j][m] = res[j][n] => m = n

\* What the comment at db_operations_light.c:200-203 promises: the outer row at p
\* merged with the inner rows of its join values, for one outer row after the other.
AllOf(p) ==
  LET rows == WithKey(Len(inner), OuterProj(outer[p]))
  IN  [x \in DOMAIN rows |-> Joined(outer[p], rows[x])]
WholeJoin == FlattenSeq([p \in DOMAIN outer |-> AllOf(p)])

\* The join was opened for the first time and has come to its end, and no other
\* join has used the index.
Finished(j) ==
  /\ opened[j] = 1 /\ env[j] = Closed
  /\ \A k \in Join \ {j} : opened[k] = 0

\* The comment holds if the join values of the outer rows differ, as they do in
\* the tables of db_testing.c:95: then the join yields every pair, in order.
JoinOfDistinct ==
  (\A p, q \in DOMAIN outer : OuterProj(outer[p]) = OuterProj(outer[q]) => p = q) =>
    \A j \in Join : Finished(j) => res[j] = WholeJoin

\* The comment as it stands: a join has every pair.  The code takes the inner rows
\* out of the index for the first outer row of their join values, so that a second
\* one with the same values gets nothing.
JoinIsComplete ==
  \A j \in Join : Finished(j) => \A p \in DOMAIN outer : ToSet(AllOf(p)) \subseteq ToSet(res[j])

\* A cursor on a string list stays on its pair while the list grows.
CursorKeepsItsPair ==
  [][OnList /\ mc' = mc /\ Valid(ind, mc) =>
       /\ Valid(ind', mc)
       /\ stringlist_get_pair(ind', mc).key = stringlist_get_pair(ind, mc).key]_vars
=============================================================================
