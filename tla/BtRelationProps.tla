--------------------------- MODULE BtRelationProps ---------------------------
(***************************************************************************)
(* What makes the B+tree of relation_mem.c correct.                        *)
(***************************************************************************)
EXTENDS RelationClients

CONSTANT END

ASSUME EndAssumption == END \notin Key /\ END # NULL /\ NULL \notin Key

\* The positions of the records and their keys.
Positions == {a \in [node : Used(heap), idx : 0 .. FANOUT] :
                heap[a.node].isLeaf /\ a.idx \in InUse(heap[a.node])}

Order(a) == KeyAt(heap[a.node], a.idx)
Present == {Order(a) : a \in Positions}

Pointers(n) == IF heap[n].isLeaf THEN {} ELSE -1 .. numKeys(heap[n]) - 1

\* Path p goes through node n.
Through(p, n) == \E l \in 1 .. Len(p) : p[l].node = n

\* The keys of a node ascend, and the search for each comes through the node.
Ordered ==
  \A n \in Used(heap) :
    /\ \A i \in 1 .. numKeys(heap[n]) - 1 : KeyAt(heap[n], i - 1) < KeyAt(heap[n], i)
    /\ \A i \in InUse(heap[n]) :
         Through(moveToKey(heap, root, KeyAt(heap[n], i), <<>>), n)

\* The least number of keys in node n, as in ASSERT_NODE_INVARIANT.
LeastKeys(n) ==
  IF n # root THEN FANOUT \div 2 ELSE IF heap[n].isLeaf THEN 0 ELSE 1

\* Every search, for a key that is there or not, ends in a leaf at level `depth`; and
\* nodes are at least half full.
Balanced ==
  /\ \A k \in Key : LET p == moveToKey(heap, root, k, <<>>)
                    IN  Len(p) = depth + 1 /\ currNode(heap, p).isLeaf
  /\ \A n \in Used(heap) : numKeys(heap[n]) \in LeastKeys(n) .. FANOUT

\* The path to the end of the last leaf.
toEnd == Down(heap, root, [n \in Used(heap) |-> lastpointer(heap[n])], <<>>)

\* FirstLeaf and LastLeaf, which end the iterations, mark the first and the last leaf
\* and no other node.
LeafMarks ==
  \A n \in Used(heap) :
    /\ heap[n].FirstLeaf <=> n = Last(moveToFirst(heap, root, <<>>)).node
    /\ heap[n].LastLeaf <=> n = Last(toEnd).node

\* No node is lost or shared: each but the root is one child of one node.
Parents(n) == {q \in Used(heap) \X (-1 .. FANOUT) :
                 q[2] \in Pointers(q[1]) /\ Child(heap[q[1]], q[2]) = n}

OneParent ==
  /\ root \in Used(heap)
  /\ \A n \in Used(heap) : Cardinality(Parents(n)) = IF n = root THEN 0 ELSE 1

\* numRecords, which is counted wherever an insertion ends (in a leaf, in an
\* inner node, in a new root), is the number of records.
CountExact == numRecords = Cardinality(Positions)

\* The tree is well formed after any sequence of puts and moves, until it is deleted:
\* a put may split a leaf, inner nodes and the root, and moves pointers and marks.
WellFormed ==
  op # "RL_DeleteRelation" =>
    Ordered /\ Balanced /\ LeafMarks /\ OneParent /\ CountExact

\* The cursor of a relation with one cursor is a path of the tree: each index
\* is that of the next node, the last is at an entry of a leaf or past the last.
CursorOnPath ==
  \A c \in Cursor : path[c] # NULL =>
    /\ path[c] # Lost
    /\ path[c][1].node = root /\ Len(path[c]) = depth + 1
    /\ currNode(heap, path[c]).isLeaf
    /\ entryIndex(path[c]) \in 0 .. numKeys(currNode(heap, path[c]))
    /\ \A l \in 1 .. Len(path[c]) - 1 :
         /\ path[c][l].idx \in Pointers(path[c][l].node)
         /\ path[c][l + 1].node = Child(heap[path[c][l].node], path[c][l].idx)

\* RL_DeleteRelation() frees every node but the root, which nothing points to
\* any more: no subtree is left out.
DeletedAll ==
  op = "RL_DeleteRelation" => Used(heap) = {root}

\* relationtests.c:94 and 184: after a put, one step back is the record put,
\* whatever was split on the way.
PutThenPrevious ==
  [][\A c \in Cursor, k \in Key, r \in Record : RL_PutRecord(c, k, r) =>
       LET p == AfterPrev(heap', path'[c])
           n == currNode(heap', p)
       IN  KeyAt(n, entryIndex(p)) = k /\ Child(n, entryIndex(p)) = r]_vars

-----------------------------------------------------------------------------
(* The sorted map.                                                         *)

Map ==
  LET leaves == {n \in Used(heap) : heap[n].isLeaf}
      all == UNION {Range(heap[n].entries) : n \in leaves}
  IN  [k \in Key |-> IF \E e \in all : e.key = k
                     THEN (CHOOSE e \in all : e.key = k).ptr
                     ELSE NULL]

\* The key at which a cursor stands: the end of a leaf is the start of the next.
Pos(c) ==
  IF path[c] = NULL THEN NULL
  ELSE LET q == IF isValid(heap, path[c]) THEN Settle(heap, path[c]) ELSE path[c]
       IN  IF isValid(heap, q) THEN Order(Last(q)) ELSE END

Sorted == INSTANCE Departures WITH map <- Map, pos <- [c \in Cursor |-> Pos(c)]

\* A call is that of the map with the same arguments, not with any.
SameArguments ==
  [][\A c \in Cursor, k \in Key :
       /\ op' = "RL_PutRecord" =>
            \A r \in Record : RL_PutRecord(c, k, r) => Sorted!PutRecord(c, k, r)
       /\ op' = "RL_MoveToKey" => (RL_MoveToKey(c, k) => Sorted!MoveToKey(c, k))
       /\ op' = "Imake_cursor" => (Imake_cursor(c, k) => Sorted!MakeCursor(c, k))
       /\ op' \in {"RLAPP_RangeQuery", "abort"} =>
            \A u \in Key : RLAPP_RangeQuery(c, k, u) =>
                             Sorted!RangeQuery(c, k, u) \/ Sorted!RangeAborts(c, k, u)]_vars

\* The relation with one cursor does not keep all that its headers promise, but the
\* calls of Departures are the only ones that do not: every other put, get and move does
\* and answers what the sorted map of relation.h does, whatever the tree looks like, and
\* so do the walks of the index and of the range query.
SortedMapButDepartures ==
  /\ Sorted!Init
  /\ [][Sorted!Next \/ \E c \in Cursor : Sorted!RelationDeparts(c) \/ Sorted!ClientDeparts(c)]_(Sorted!vars)
  /\ SameArguments

\* It is while the step back is taken in trees of at most two levels: with three it is
\* not the predecessor, see moveToLast().
ShallowSteps == op' \in {"RL_MoveToPreviousNotFirst", "Iprev_cursor"} => depth < 2

-----------------------------------------------------------------------------
(* What relation.h says.                                                   *)

\* relation.h:86: the previous record is the one with the next smaller key.
PreviousIsPredecessor ==
  [][\A c \in Cursor : RL_MoveToPreviousNotFirst(c) =>
       Pos(c)' = Sorted!PrevKey(Pos(c))]_vars

\* relation.h:57: a key that exists is updated, not put a second time.
KeysUnique == Cardinality(Present) = Cardinality(Positions)
=============================================================================
