------------------------- MODULE VerifRelationProps -------------------------
(***************************************************************************)
(* What makes the B+tree of verif/btrees/relation_mem.c correct.           *)
(***************************************************************************)
EXTENDS VerifRelation

CONSTANTS END,     \* where an invalid cursor stands,
          Handle   \* and what the sorted map knows the cursor by

ASSUME EndAssumption == END \notin Key /\ END # NULL /\ NULL \notin Key

-----------------------------------------------------------------------------
(* The tree.                                                               *)

Leaves == {n \in Used(heap) : heap[n].isLeaf}

Pointers(n) == IF heap[n].isLeaf THEN {} ELSE -1 .. numKeys(heap[n]) - 1

\* Path c goes through node n.
Through(c, n) == \E l \in 1 .. Len(c) : c[l].node = n

\* The least number of keys in node n, as in ASSERT_NODE_INVARIANT.
LeastKeys(n) ==
  IF n # root THEN FANOUT \div 2 ELSE IF heap[n].isLeaf THEN 0 ELSE 1

\* The keys of a node ascend, and the search for each comes through the node.
Ordered ==
  \A n \in Used(heap) :
    /\ \A i \in 1 .. numKeys(heap[n]) - 1 :
         heap[n].entries[i].key < heap[n].entries[i + 1].key
    /\ \A i \in 1 .. numKeys(heap[n]) :
         Through(moveToKey(heap, root, heap[n].entries[i].key, <<>>), n)

\* Every search, for a key that is there or not, ends in a leaf at level `depth`; and
\* nodes are at least half full.
Balanced ==
  /\ \A k \in Key : LET c == moveToKey(heap, root, k, <<>>)
                    IN  Len(c) = depth + 1 /\ currNode(heap, c).isLeaf
  /\ \A n \in Used(heap) : numKeys(heap[n]) \in LeastKeys(n) .. FANOUT

\* First and Last mark the first and the last spine.
SpinesMarked ==
  \A n \in Used(heap) :
    /\ heap[n].First <=> Through(moveToFirst(heap, root, <<>>), n)
    /\ heap[n].Last <=> Through(moveToLast(heap, root, <<>>), n)

\* No node is lost or shared: each but the root is one child of one node.
Parents(n) == {p \in Used(heap) \X (-1 .. FANOUT) :
                 p[2] \in Pointers(p[1]) /\ Child(heap[p[1]], p[2]) = n}

OneParent ==
  /\ root \in Used(heap)
  /\ \A n \in Used(heap) : Cardinality(Parents(n)) = IF n = root THEN 0 ELSE 1

\* The count, which is kept wherever an insertion ends, is that of the records.
CountExact ==
  numRecords = Cardinality({p \in Leaves \X (1 .. FANOUT) : p[2] <= numKeys(heap[p[1]])})

\* After any sequence of puts the tree is a B+tree: a put may split a leaf, inner nodes
\* and the root, and moves pointers and marks between them.
WellFormed == Ordered /\ Balanced /\ SpinesMarked /\ OneParent /\ CountExact

\* The cursor is complete, as the proofs call it: a path from the root to a leaf,
\* each index that of the next node, the last within the leaf or at its end.
CursorComplete ==
  cursor # NULL =>
    /\ cursor[1].node = root /\ Len(cursor) = depth + 1
    /\ currNode(heap, cursor).isLeaf
    /\ entryIndex(cursor) \in 0 .. numKeys(currNode(heap, cursor))
    /\ \A l \in 1 .. depth :
         /\ cursor[l].idx \in Pointers(cursor[l].node)
         /\ cursor[l + 1].node = Child(heap[cursor[l].node], cursor[l].idx)

-----------------------------------------------------------------------------
(* The sorted map.                                                         *)

Records(h) == UNION {Range(h[n].entries) : n \in {m \in Used(h) : h[m].isLeaf}}

Map == [k \in Key |-> IF \E e \in Records(heap) : e.key = k
                      THEN (CHOOSE e \in Records(heap) : e.key = k).ptr
                      ELSE NULL]

\* The key at which the cursor stands.
Pos ==
  IF cursor = NULL THEN NULL
  ELSE LET at == Settle(heap, cursor)
       IN  IF isValid(heap, at) THEN KeyAt(currNode(heap, at), entryIndex(at)) ELSE END

Cursors == {Handle}
Sorted == INSTANCE Departures WITH Cursor <- Cursors, map <- Map, pos <- [c \in Cursors |-> Pos]

\* A call is that of the map with the same arguments, not with any.
SameArguments ==
  [][\A k \in Key :
       /\ op' = "RL_PutRecord" =>
            \A r \in Record : RL_PutRecord(k, r) => Sorted!PutRecord(Handle, k, r)
       /\ op' = "RL_MoveToKey" => (RL_MoveToKey(k) => Sorted!MoveToKey(Handle, k))]_vars

\* The relation is the sorted map of verif/btrees/relation.h but for three calls that do
\* not keep what it says, RelationDeparts: a new cursor, a step back to the first record,
\* and a deletion. Every other is that of the map, a step back in trees of any height too.
SortedMapButDepartures ==
  /\ Sorted!Init
  /\ [][Sorted!Next \/ Sorted!RelationDeparts(Handle)]_(Sorted!vars)
  /\ SameArguments
=============================================================================
