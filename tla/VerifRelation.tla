---------------------------- MODULE VerifRelation ----------------------------
(***************************************************************************)
(* The B+tree of verif/btrees/relation_mem.c, the version that the Coq     *)
(* proofs are about, used through one cursor.  It differs from that of     *)
(* BtRelation where the proofs made it differ: First and Last mark whole   *)
(* spines of the tree and not only leaves, isNodeParent() judges leaves as *)
(* well as inner nodes, the empty relation is no special case of a step,   *)
(* and moveToLast() goes to the last.                                      *)
(***************************************************************************)
EXTENDS Integers, SequencesExt

CONSTANTS FANOUT, MIDDLE, Key, Record, Node, NULL

ASSUME FanoutAssumption ==
  FANOUT \in Nat /\ FANOUT >= 2 /\ MIDDLE = (FANOUT + 1) \div 2
ASSUME KeysAssumption == Key \subseteq Nat /\ Key # {}
ASSUME NodesAssumption == IsFiniteSet(Node) /\ Node # {}

VARIABLES heap,          \* heap[n]: the node at n, or NULL
          root, numRecords, depth,
          cursor,        \* <<[node, idx], ...>> from level 0 to `level`, or NULL
          op, ret        \* the last operation and what it returned

relation == <<heap, root, numRecords, depth>>
vars == <<relation, cursor, op, ret>>

Entry == [key : Key, ptr : Record \cup Node]
BtNode == [isLeaf : BOOLEAN, First : BOOLEAN, Last : BOOLEAN,
           ptr0 : Node \cup {NULL}, entries : Seq(Entry)]

\* What is no address, no record and no node, and no path of a cursor.
ASSUME NullAssumption == NULL \notin Node /\ NULL \notin Record /\ NULL \notin BtNode
ASSUME PathAssumption == NULL \notin Seq([node : Node, idx : Int])

createNewNode(isLeaf, first, last) ==
  [isLeaf |-> isLeaf, First |-> first, Last |-> last, ptr0 |-> NULL, entries |-> <<>>]

Used(h) == {n \in Node : h[n] # NULL}
Fresh(h) == CHOOSE n \in Node : h[n] = NULL

Init ==
  /\ root = CHOOSE n \in Node : TRUE
  /\ heap = [n \in Node |-> IF n = root THEN createNewNode(TRUE, TRUE, TRUE) ELSE NULL]
  /\ numRecords = 0 /\ depth = 0
  /\ cursor = NULL
  /\ op = "RL_NewRelation" /\ ret = TRUE

-----------------------------------------------------------------------------
(* Nodes.  Entries are numbered from 0; the pointer at index -1 is ptr0.   *)

numKeys(n) == Len(n.entries)
KeyAt(n, i) == n.entries[i + 1].key
Child(n, i) == IF i = -1 THEN n.ptr0 ELSE n.entries[i + 1].ptr

\* Keys are in order: the loops count how many come before.
findChildIndex(n, key) ==
  Cardinality({i \in 1 .. numKeys(n) : n.entries[i].key <= key}) - 1

findRecordIndex(n, key) == Cardinality({i \in 1 .. numKeys(n) : n.entries[i].key < key})

\* Is `key` surely below n?
isNodeParent(n, key) ==
  IF n.isLeaf
  THEN \/ numKeys(n) = 0
       \/ /\ key >= KeyAt(n, 0) \/ n.First
          /\ key <= KeyAt(n, numKeys(n) - 1) \/ n.Last
  ELSE findChildIndex(n, key) \notin {-1, numKeys(n) - 1}

lastpointer(n) == IF n.isLeaf THEN numKeys(n) ELSE numKeys(n) - 1
firstpointer(n) == IF n.isLeaf THEN 0 ELSE -1

\* splitnode(): the node keeps MIDDLE of allEntries; the first of the others
\* goes up, and from an inner node it is taken out.
splitnode(h, a, e, new) ==
  LET n == h[a]
      all == InsertAt(n.entries, findRecordIndex(n, e.key) + 1, e)
      right == SubSeq(all, MIDDLE + 1, FANOUT + 1)
      moved == [createNewNode(n.isLeaf, FALSE, n.Last) EXCEPT
                  !.ptr0 = IF n.isLeaf THEN NULL ELSE Head(right).ptr,
                  !.entries = IF n.isLeaf THEN right ELSE Tail(right)]
  IN  [heap |-> [h EXCEPT ![a].Last = FALSE, ![a].entries = SubSeq(all, 1, MIDDLE),
                          ![new] = moved],
       up |-> [key |-> Head(right).key, ptr |-> new]]

-----------------------------------------------------------------------------
(* Cursors.                                                                *)

currNode(h, c) == h[Last(c).node]
entryIndex(c) == Last(c).idx
At(n, i) == [node |-> n, idx |-> i]

isValid(h, c) == ~(entryIndex(c) = numKeys(currNode(h, c)) /\ currNode(h, c).Last)
isFirst(h, c) == entryIndex(c) = 0 /\ currNode(h, c).First

\* The path that goes on from `above` to n and down to a leaf, with index idx[m] at
\* each node m on its way.
Down(h, n, idx, above) ==
  LET path[m \in Used(h)] ==
        IF h[m].isLeaf THEN <<At(m, idx[m])>>
        ELSE <<At(m, idx[m])>> \o path[Child(h[m], idx[m])]
  IN  above \o path[n]

moveToKey(h, n, key, above) ==
  Down(h, n, [m \in Used(h) |-> IF h[m].isLeaf THEN findRecordIndex(h[m], key)
                                ELSE findChildIndex(h[m], key)], above)

moveToFirst(h, n, above) ==
  Down(h, n, [m \in Used(h) |-> firstpointer(h[m])], above)

\* Mutant: the last child is left by its first pointer, as in the original.
moveToLast_First(h, n, above) ==
  IF h[n].isLeaf THEN Append(above, At(n, numKeys(h[n])))
  ELSE moveToFirst(h, Child(h[n], numKeys(h[n]) - 1), Append(above, At(n, numKeys(h[n]) - 1)))

moveToLast(h, n, above) ==
  Down(h, n, [m \in Used(h) |-> lastpointer(h[m])], above)

\* Up to the deepest level in `stops`, or to the root.
Ascend(c, stops) == SubSeq(c, 1, Max(stops \cup {1}))

AscendToParent(h, c, key) ==
  Ascend(c, {l \in 2 .. Len(c) : isNodeParent(h[c[l].node], key)})

goToKey(h, c, key) ==
  LET a == AscendToParent(h, c, key) IN moveToKey(h, Last(a).node, key, Front(a))

\* Mutant: the whole of an inner node counts as its last pointer.
moveToNext_Short(h, c) ==
  IF ~isValid(h, c) THEN c
  ELSE LET a == Ascend(c, {l \in 2 .. Len(c) : c[l].idx < numKeys(h[c[l].node]) - 1})
           i == entryIndex(a) + 1
           at == Append(Front(a), At(Last(a).node, i))
       IN  IF currNode(h, a).isLeaf \/ i = numKeys(currNode(h, a)) THEN at
           ELSE moveToFirst(h, Child(currNode(h, a), i), at)

moveToNext(h, c) ==
  IF ~isValid(h, c) THEN c
  ELSE LET a == Ascend(c, {l \in 2 .. Len(c) : c[l].idx # lastpointer(h[c[l].node])})
           i == entryIndex(a) + 1
           at == Append(Front(a), At(Last(a).node, i))
       IN  IF currNode(h, a).isLeaf THEN at ELSE moveToFirst(h, Child(currNode(h, a), i), at)

moveToPrev(h, c) ==
  IF isFirst(h, c) THEN c
  ELSE LET a == Ascend(c, {l \in 2 .. Len(c) : c[l].idx # firstpointer(h[c[l].node])})
           i == entryIndex(a) - 1
           at == Append(Front(a), At(Last(a).node, i))
       IN  IF currNode(h, a).isLeaf THEN at ELSE moveToLast(h, Child(currNode(h, a), i), at)

\* The end of a leaf is the same position as the start of the next.
Settle(h, c) == IF entryIndex(c) = numKeys(currNode(h, c)) THEN moveToNext(h, c) ELSE c

AfterNext(h, c) == moveToNext(h, Settle(h, c))
AfterPrev(h, c) == moveToPrev(h, IF entryIndex(c) = 0 THEN moveToPrev(h, c) ELSE c)

-----------------------------------------------------------------------------
(* putEntry().  A state s is [heap, root, depth, count, cursor].           *)

\* Mutant: the new root is marked as an inner one.
newRoot_Unmarked(s, e) ==
  [createNewNode(FALSE, FALSE, FALSE) EXCEPT !.ptr0 = s.root, !.entries = <<e>>]

newRoot(s, e) == [createNewNode(FALSE, TRUE, TRUE) EXCEPT !.ptr0 = s.root, !.entries = <<e>>]

\* Entry e is inserted at index i of the node of a, which has room for it.
Inserted(s, a, i, e, key) ==
  LET h == [s.heap EXCEPT ![a.node].entries = InsertAt(@, i + 1, e)]
  IN  [s EXCEPT !.heap = h, !.count = @ + 1,
                !.cursor = IF h[a.node].isLeaf THEN @
                           ELSE moveToKey(h, a.node, key, Front(@))]

\* The cursor is at a record with the key of e.
Found(h, c, e) ==
  /\ currNode(h, c).isLeaf
  /\ entryIndex(c) < numKeys(currNode(h, c))
  /\ KeyAt(currNode(h, c), entryIndex(c)) = e.key

\* The level at which the recursion of putEntry() ends: the deepest with room
\* for an entry, or 0 if the root is split too.
Level(h, c, e) ==
  IF Found(h, c, e) THEN Len(c)
  ELSE Max({0} \cup {l \in 1 .. Len(c) : numKeys(h[c[l].node]) < FANOUT})

\* The recursive calls: on each level below, the node of the cursor is split, and
\* an entry for the new node is to be put one level above.
Splits(h, c, e) ==
  LET state[i \in Nat] ==
        IF i = 0 THEN [heap |-> h, cursor |-> c, e |-> e]
        ELSE LET t == state[i - 1]
                 split == splitnode(t.heap, Last(t.cursor).node, t.e, Fresh(t.heap))
             IN  [heap |-> split.heap, cursor |-> Front(t.cursor), e |-> split.up]
  IN  state[Len(c) - Level(h, c, e)]

putEntry(s, e, key) ==
  LET t == Splits(s.heap, s.cursor, e)
      u == [s EXCEPT !.heap = t.heap, !.cursor = t.cursor]
      new == Fresh(t.heap)
      h == [t.heap EXCEPT ![new] = newRoot(s, t.e)]
      a == Last(t.cursor)
  IN  CASE t.cursor = <<>> ->
             [heap |-> h, root |-> new, depth |-> s.depth + 1, count |-> s.count + 1,
              cursor |-> moveToKey(h, new, key, <<>>)]
        [] t.cursor # <<>> /\ Found(t.heap, t.cursor, t.e) ->
             [u EXCEPT !.heap[a.node].entries[a.idx + 1].ptr = t.e.ptr]
        [] OTHER ->
             Inserted(u, a, IF t.heap[a.node].isLeaf THEN a.idx ELSE a.idx + 1, t.e, key)

-----------------------------------------------------------------------------
(* The operations.                                                         *)

\* Operation o is called with the cursor, or without while there is none.
Calls(o, v) ==
  /\ op # "RL_DeleteRelation"
  /\ op' = o /\ ret' = v

Uses(o, v) == cursor # NULL /\ Calls(o, v)
Moves(c) == cursor' = c /\ UNCHANGED relation
Asks(o, v) == Uses(o, v) /\ UNCHANGED <<relation, cursor>>

RL_NewCursor ==
  /\ cursor = NULL
  /\ Calls("RL_NewCursor", TRUE)
  /\ Moves(moveToFirst(heap, root, <<>>))

RL_FreeCursor == Uses("RL_FreeCursor", TRUE) /\ Moves(NULL)

\* Bound: there is memory for a split of every node on the path and a new root
\* (surely_malloc() exits if there is none).
Room == Cardinality(Node \ Used(heap)) >= depth + 2

RL_PutRecord(key, record) ==
  /\ Room
  /\ Uses("RL_PutRecord", TRUE)
  /\ LET s == putEntry([heap |-> heap, root |-> root, depth |-> depth,
                        count |-> numRecords, cursor |-> goToKey(heap, cursor, key)],
                       [key |-> key, ptr |-> record], key)
     IN  /\ heap' = s.heap /\ root' = s.root /\ depth' = s.depth
         /\ numRecords' = s.count
         /\ cursor' = AfterNext(s.heap, s.cursor)

\* The answer comes from RL_GetKey(), which may move the cursor.
RL_MoveToKey(key) ==
  /\ cursor # NULL
  /\ LET c == goToKey(heap, cursor, key)
         at == Settle(heap, c)
     IN  IF isValid(heap, c)
         THEN /\ Uses("RL_MoveToKey", KeyAt(currNode(heap, at), entryIndex(at)) = key)
              /\ Moves(at)
         ELSE Uses("RL_MoveToKey", FALSE) /\ Moves(c)

\* RL_GetRecord() and RL_GetKey() assert that the cursor is valid.
GetEntry(o, field) ==
  /\ cursor # NULL /\ isValid(heap, cursor)
  /\ LET at == Settle(heap, cursor)
     IN  /\ Uses(o, currNode(heap, at).entries[entryIndex(at) + 1][field])
         /\ Moves(at)

RL_GetRecord == GetEntry("RL_GetRecord", "ptr")
RL_GetKey == GetEntry("RL_GetKey", "key")

RL_MoveToFirst ==
  LET c == moveToFirst(heap, root, <<>>)
  IN  Uses("RL_MoveToFirst", isValid(heap, c)) /\ Moves(c)

RL_MoveToNextValid ==
  /\ cursor # NULL
  /\ LET c == AfterNext(heap, cursor)
     IN  Uses("RL_MoveToNextValid", isValid(heap, c)) /\ Moves(c)

RL_MoveToPreviousNotFirst ==
  /\ cursor # NULL
  /\ LET c == AfterPrev(heap, cursor)
     IN  Uses("RL_MoveToPreviousNotFirst", ~isFirst(heap, c)) /\ Moves(c)

\* The body is commented out.
RL_DeleteRecord == Asks("RL_DeleteRecord", FALSE)

RL_IsEmpty == Asks("RL_IsEmpty", numKeys(heap[root]) = 0)
RL_CursorIsValid == cursor # NULL /\ Asks("RL_CursorIsValid", isValid(heap, cursor))
RL_NumRecords == Asks("RL_NumRecords", numRecords)

\* The body of handleDeleteBtree() is commented out too: nothing is freed.
RL_DeleteRelation ==
  /\ cursor = NULL
  /\ Calls("RL_DeleteRelation", TRUE)
  /\ UNCHANGED <<relation, cursor>>

Ended == op = "RL_DeleteRelation" /\ UNCHANGED vars

Next ==
  \/ RL_NewCursor \/ RL_FreeCursor
  \/ \E key \in Key, record \in Record : RL_PutRecord(key, record)
  \/ \E key \in Key : RL_MoveToKey(key)
  \/ RL_GetRecord \/ RL_GetKey
  \/ RL_MoveToFirst \/ RL_MoveToNextValid \/ RL_MoveToPreviousNotFirst
  \/ RL_DeleteRecord \/ RL_IsEmpty \/ RL_CursorIsValid \/ RL_NumRecords
  \/ RL_DeleteRelation
  \/ Ended

Spec == Init /\ [][Next]_vars
=============================================================================
