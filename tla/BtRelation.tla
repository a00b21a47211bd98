------------------------------ MODULE BtRelation ------------------------------
(***************************************************************************)
(* The B+tree of relation_mem.c and its cursors.                           *)
(*                                                                         *)
(* A cursor is the path from the root to a leaf: the arrays ancestors and  *)
(* ancestorsIdx up to `level`.  A put repairs the path of the cursor it    *)
(* goes through and of no other ("Todo: notify cursors on update"), so the *)
(* paths of the others go stale.  A cursor that follows a stale index to   *)
(* an entry that is not in use is Lost: what the code reads there is what  *)
(* was left in the array, or nothing, and the model stops.                 *)
(***************************************************************************)
EXTENDS BtNode

CONSTANTS Cursor,    \* cursors of the relation
          Ops        \* bound: the operations that the clients call

VARIABLES
  heap,        \* heap[n]: the node at address n, or NULL
  root,
  numRecords,
  depth,
  path,        \* path[c]: the cursor c, a sequence of [node, idx]; NULL: none
  op,          \* the last operation,
  ret          \* and what it returned

tree == <<heap, root, numRecords, depth>>
vars == <<tree, path, op, ret>>

Lost == <<>>

\* NULL is no path either.
ASSUME PathAssumption == NULL \notin Seq([node : Node, idx : Int])

TypeOK ==
  /\ heap \in [Node -> BtNodes \cup {NULL}]
  /\ root \in Node
  /\ numRecords \in Nat /\ depth \in Nat
  /\ path \in [Cursor -> Seq([node : Node, idx : -1 .. FANOUT]) \cup {NULL}]

Used(h) == {n \in Node : h[n] # NULL}

\* malloc(): addresses are interchangeable.
Fresh(h) == CHOOSE n \in Node : h[n] = NULL

Init ==
  /\ root = CHOOSE n \in Node : TRUE
  /\ heap = [n \in Node |-> IF n = root THEN createNewNode(TRUE, TRUE, TRUE) ELSE NULL]
  /\ numRecords = 0
  /\ depth = 0
  /\ path = [c \in Cursor |-> NULL]
  /\ op = "RL_NewRelation"
  /\ ret = TRUE

-----------------------------------------------------------------------------
(* Cursors as values.                                                      *)

currNode(h, p) == h[Last(p).node]
entryIndex(p) == Last(p).idx

isValid(h, p) == ~(entryIndex(p) = numKeys(currNode(h, p)) /\ currNode(h, p).LastLeaf)
isFirst(h, p) == entryIndex(p) = 0 /\ currNode(h, p).FirstLeaf

At(n, i) == [node |-> n, idx |-> i]

\* The path that goes on from `above` to n and down to a leaf, with index idx[m]
\* at each node m on its way: the functions that walk down call themselves so.
Down(h, n, idx, above) ==
  LET walk[m \in Used(h)] ==
        IF h[m].isLeaf THEN <<At(m, idx[m])>>
        ELSE <<At(m, idx[m])>> \o walk[Child(h[m], idx[m])]
  IN  above \o walk[n]

moveToKey(h, n, key, above) ==
  Down(h, n, [m \in Used(h) |-> IF h[m].isLeaf THEN findRecordIndex(h[m], key)
                                ELSE findChildIndex(h[m], key)], above)

moveToFirst(h, n, above) ==
  Down(h, n, [m \in Used(h) |-> firstpointer(h[m])], above)

\* The last child is left by its first pointer: the recursive call is moveToFirst.
moveToLast(h, n, above) ==
  LET i == lastpointer(h[n])
  IN  IF h[n].isLeaf THEN Append(above, At(n, i))
      ELSE moveToFirst(h, Child(h[n], i), Append(above, At(n, i)))

\* Up to the lowest level of p that is in `stops`, or to the root.
Ascend(p, stops) == SubSeq(p, 1, Max(stops \cup {1}))

\* Up to a node that is sure to be above `key`.
AscendToParent(h, p, key) ==
  Ascend(p, {l \in 2 .. Len(p) :
    LET n == h[p[l].node]
    IN  IF n.isLeaf
        THEN \/ KeyAt(n, 0) <= key /\ key <= KeyAt(n, numKeys(n) - 1)
             \/ KeyAt(n, 0) <= key /\ n.LastLeaf
             \/ key <= KeyAt(n, numKeys(n) - 1) /\ n.FirstLeaf
        ELSE isNodeParent(n, key)})

goToKey(h, p, key) ==
  LET q == AscendToParent(h, p, key)
  IN  moveToKey(h, Last(q).node, key, Front(q))

\* The position by d next to the last of p, on its level.
Shift(p, d) == [p EXCEPT ![Len(p)].idx = @ + d]

\* moveToNext() and moveToPrev() on a relation that is not empty.  Index -1 of
\* entries is where the pointer ptr0 lies in the struct.
moveToNext(h, p) ==
  IF ~isValid(h, p) THEN p
  ELSE LET q == Shift(Ascend(p, {l \in 2 .. Len(p) : p[l].idx # lastpointer(h[p[l].node])}), 1)
           n == currNode(h, q)
       IN  CASE n.isLeaf -> q
             [] ~n.isLeaf /\ entryIndex(q) \in InUse(n) ->
                  moveToFirst(h, Child(n, entryIndex(q)), q)
             [] OTHER -> Lost

moveToPrev(h, p) ==
  IF isFirst(h, p) THEN p
  ELSE LET q == Shift(Ascend(p, {l \in 2 .. Len(p) : p[l].idx # firstpointer(h[p[l].node])}), -1)
           n == currNode(h, q)
       IN  CASE n.isLeaf -> q
             [] ~n.isLeaf /\ entryIndex(q) \in {-1} \cup InUse(n) ->
                  moveToLast(h, Child(n, entryIndex(q)), q)
             [] OTHER -> Lost

\* From the end of a leaf to the same position at the start of the next.
Settle(h, p) == IF entryIndex(p) = numKeys(currNode(h, p)) THEN moveToNext(h, p) ELSE p

\* RL_MoveToNext() and RL_MoveToPrevious() on a relation that is not empty.
AfterNext(h, p) ==
  LET q == Settle(h, p) IN IF q = Lost THEN Lost ELSE moveToNext(h, q)

AfterPrev(h, p) ==
  LET q == IF entryIndex(p) = 0 THEN moveToPrev(h, p) ELSE p
  IN  IF q = Lost THEN Lost ELSE moveToPrev(h, q)

-----------------------------------------------------------------------------
(* putEntry().  A state s is [heap, root, depth, count, path].             *)

Split(h, n, e, new) == [h EXCEPT ![n] = splitLeft(h[n], e), ![new] = splitRight(h[n], e)]

\* Mutant: the cursor is not moved to the inserted key.
Repair_Not(h, p, key) == p

\* Mutant: the cursor goes on one level too deep.
Repair_Below(h, p, key) ==
  IF currNode(h, p).isLeaf THEN p ELSE moveToKey(h, Last(p).node, key, p)

\* After an insertion into an inner node the cursor is moved to the inserted key.
Repair(h, p, key) ==
  IF currNode(h, p).isLeaf THEN p ELSE moveToKey(h, Last(p).node, key, Front(p))

\* The cursor is at a record with the key of e.
Found(h, p, e) ==
  /\ currNode(h, p).isLeaf
  /\ entryIndex(p) \in InUse(currNode(h, p))
  /\ KeyAt(currNode(h, p), entryIndex(p)) = e.key

\* The level at which the recursion ends: the deepest with room for an entry, or 0
\* if the root is split too.
Level(h, p, e) ==
  IF Found(h, p, e) THEN Len(p)
  ELSE Max({0} \cup {l \in 1 .. Len(p) : numKeys(h[p[l].node]) < FANOUT})

\* The recursive calls: on each level below, the node of the path is split, and an
\* entry for the new node is to be put one level above.
Splits(h, p, e) ==
  LET state[i \in Nat] ==
        IF i = 0 THEN [heap |-> h, path |-> p, e |-> e]
        ELSE LET t == state[i - 1]
                 a == Last(t.path).node
                 new == Fresh(t.heap)
             IN  [heap |-> Split(t.heap, a, t.e, new), path |-> Front(t.path),
                  e |-> splitUp(t.heap[a], t.e, new)]
  IN  state[Len(p) - Level(h, p, e)]

newRoot(s, e) == [createNewNode(FALSE, FALSE, FALSE) EXCEPT !.ptr0 = s.root, !.entries = <<e>>]

putEntry(s, e, key) ==
  LET t == Splits(s.heap, s.path, e)
      u == [s EXCEPT !.heap = t.heap, !.path = t.path]
      a == Last(t.path)
      n == t.heap[a.node]
      at == IF n.isLeaf THEN a.idx ELSE a.idx + 1
      new == Fresh(t.heap)
      h == [t.heap EXCEPT ![new] = newRoot(s, t.e)]
      g == [t.heap EXCEPT ![a.node] = insertEntry(n, at, t.e)]
  IN  CASE t.path = <<>> ->
             [heap |-> h, root |-> new, depth |-> s.depth + 1, count |-> s.count + 1,
              path |-> moveToKey(h, new, key, <<>>)]
        [] t.path # <<>> /\ Found(t.heap, t.path, t.e) ->
             [u EXCEPT !.heap[a.node].entries[a.idx + 1].ptr = t.e.ptr]
        [] t.path # <<>> /\ ~Found(t.heap, t.path, t.e) /\ at \in 0 .. numKeys(n) ->
             [u EXCEPT !.heap = g, !.count = @ + 1, !.path = Repair(g, @, key)]
        [] OTHER -> [u EXCEPT !.path = Lost]

-----------------------------------------------------------------------------
(* The operations.                                                         *)

\* Clients call operation o while the process runs, the relation exists and no
\* cursor is lost.
Calls(o) ==
  /\ o \in Ops
  /\ op \notin {"RL_DeleteRelation", "abort"}
  /\ \A d \in Cursor : path[d] # Lost

\* Operation o is called through the cursor c.
Uses(o, c) == Calls(o) /\ path[c] # NULL

Returns(o, v) == op' = o /\ ret' = v
Moves(c, p) == path' = [path EXCEPT ![c] = p] /\ UNCHANGED tree

RL_NewCursor(c) ==
  /\ Calls("RL_NewCursor")
  /\ path[c] = NULL
  /\ Returns("RL_NewCursor", TRUE)
  /\ Moves(c, moveToFirst(heap, root, <<>>))

RL_FreeCursor(c) ==
  /\ Uses("RL_FreeCursor", c)
  /\ Returns("RL_FreeCursor", TRUE)
  /\ Moves(c, NULL)

\* Bound: there is memory for a split of every node on the path and a new root
\* (createNewNode() and splitnode() assert that there is).
Room == Cardinality(Node \ Used(heap)) >= depth + 2

RL_PutRecord(c, key, record) ==
  /\ Room
  /\ Uses("RL_PutRecord", c)
  /\ Returns("RL_PutRecord", TRUE)
  /\ LET s == putEntry([heap |-> heap, root |-> root, depth |-> depth,
                        count |-> numRecords, path |-> goToKey(heap, path[c], key)],
                       [key |-> key, ptr |-> record], key)
     IN  /\ heap' = s.heap
         /\ root' = s.root
         /\ depth' = s.depth
         /\ numRecords' = s.count
         /\ path' = [path EXCEPT ![c] =
                       IF s.path = Lost THEN Lost ELSE AfterNext(s.heap, s.path)]

\* The answer comes from RL_GetKey(), which may move the cursor.
RL_MoveToKey(c, key) ==
  /\ Uses("RL_MoveToKey", c)
  /\ LET p == goToKey(heap, path[c], key)
         q == IF isValid(heap, p) THEN Settle(heap, p) ELSE p
         n == currNode(heap, q)
     IN  /\ Moves(c, q)
         /\ Returns("RL_MoveToKey", /\ q # Lost /\ isValid(heap, p)
                                    /\ entryIndex(q) \in InUse(n)
                                    /\ KeyAt(n, entryIndex(q)) = key)

\* RL_GetRecord() and RL_GetKey() assert that the cursor is valid.
GetEntry(o, c, field) ==
  /\ Uses(o, c)
  /\ isValid(heap, path[c])
  /\ LET q == Settle(heap, path[c])
         n == currNode(heap, q)
         known == q # Lost /\ entryIndex(q) \in InUse(n)
     IN  /\ Moves(c, IF known THEN q ELSE Lost)
         /\ Returns(o, IF known THEN n.entries[entryIndex(q) + 1][field] ELSE NULL)

RL_GetRecord(c) == GetEntry("RL_GetRecord", c, "ptr")
RL_GetKey(c) == GetEntry("RL_GetKey", c, "key")

RL_MoveToFirst(c) ==
  /\ Uses("RL_MoveToFirst", c)
  /\ LET p == moveToFirst(heap, root, <<>>)
     IN  Moves(c, p) /\ Returns("RL_MoveToFirst", isValid(heap, p))

RL_MoveToNextValid(c) ==
  /\ Uses("RL_MoveToNextValid", c)
  /\ LET p == IF numRecords = 0 THEN path[c] ELSE AfterNext(heap, path[c])
     IN  Moves(c, p) /\ Returns("RL_MoveToNextValid", p # Lost /\ isValid(heap, p))

RL_MoveToPreviousNotFirst(c) ==
  /\ Uses("RL_MoveToPreviousNotFirst", c)
  /\ LET p == IF numRecords = 0 THEN path[c] ELSE AfterPrev(heap, path[c])
     IN  /\ Moves(c, p)
         /\ Returns("RL_MoveToPreviousNotFirst", p # Lost /\ ~isFirst(heap, p))

\* The body that deletes is commented out.
RL_DeleteRecord(c, key) ==
  /\ Uses("RL_DeleteRecord", c)
  /\ Returns("RL_DeleteRecord", FALSE)
  /\ UNCHANGED <<tree, path>>

RL_IsEmpty(c) ==
  /\ Uses("RL_IsEmpty", c)
  /\ Returns("RL_IsEmpty", numKeys(heap[root]) = 0)
  /\ UNCHANGED <<tree, path>>

RL_CursorIsValid(c) ==
  /\ Uses("RL_CursorIsValid", c)
  /\ Returns("RL_CursorIsValid", isValid(heap, path[c]))
  /\ UNCHANGED <<tree, path>>

RL_NumRecords(c) ==
  /\ Uses("RL_NumRecords", c)
  /\ Returns("RL_NumRecords", numRecords)
  /\ UNCHANGED <<tree, path>>

Children(n) == {n.ptr0} \cup {e.ptr : e \in Range(n.entries)}

\* The nodes that handleDeleteBtree(n) frees: all below n, not n itself.
\* Mutant: ptr0 is not visited.
handleDeleteBtree_SkipsPtr0(h, n) ==
  LET freed[m \in Used(h)] ==
        IF h[m].isLeaf THEN {}
        ELSE UNION {{k} \cup freed[k] : k \in Children(h[m]) \ {h[m].ptr0}}
  IN  freed[n]

handleDeleteBtree(h, n) ==
  LET freed[m \in Used(h)] ==
        IF h[m].isLeaf THEN {} ELSE UNION {{k} \cup freed[k] : k \in Children(h[m])}
  IN  freed[n]

\* The root and the Relation itself are not freed ("TODO: do this later").
RL_DeleteRelation ==
  /\ Calls("RL_DeleteRelation")
  /\ \A c \in Cursor : path[c] = NULL
  /\ Returns("RL_DeleteRelation", TRUE)
  /\ LET freed == handleDeleteBtree(heap, root)
     IN  heap' = [n \in Node |-> IF n \in freed THEN NULL ELSE heap[n]]
  /\ UNCHANGED <<root, numRecords, depth, path>>

\* Nothing is called after the relation is deleted or an assertion has failed.
Ended == op \in {"RL_DeleteRelation", "abort"} /\ UNCHANGED vars

Next ==
  \/ RL_DeleteRelation
  \/ Ended
  \/ \E c \in Cursor :
       \/ RL_NewCursor(c)
       \/ RL_FreeCursor(c)
       \/ \E k \in Key, r \in Record : RL_PutRecord(c, k, r)
       \/ \E k \in Key : RL_MoveToKey(c, k)
       \/ RL_GetRecord(c)
       \/ RL_GetKey(c)
       \/ RL_MoveToFirst(c)
       \/ RL_MoveToNextValid(c)
       \/ RL_MoveToPreviousNotFirst(c)
       \/ \E k \in Key : RL_DeleteRecord(c, k)
       \/ RL_IsEmpty(c)
       \/ RL_CursorIsValid(c)
       \/ RL_NumRecords(c)

Spec == Init /\ [][Next]_vars
=============================================================================
