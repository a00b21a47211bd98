--------------------------- MODULE BtRelationProof ---------------------------
(***************************************************************************)
(* Proofs about the B+tree of relation_mem.c and its cursor, by comparison *)
(* with the verified B+tree: the two keep the same nodes and take the same *)
(* steps, but for the marks of the inner nodes, which the original has not *)
(* and which the tree determines, for the step back into a subtree of two  *)
(* levels or more, and for the deletion.                                   *)
(***************************************************************************)
EXTENDS BtRelationProps, FiniteSetTheorems, FunctionTheorems, SequenceTheorems, TLAPS

\* The only cursor, if there is one cursor.
OneCursor == \E c : Cursor = {c}
handle == CHOOSE c \in Cursor : TRUE

\* The tree with root r, with the marks of the verified one: First on the path to the
\* first record, Last on the path to the end.
PathToFirst(h, r) == moveToFirst(h, r, <<>>)
PathToEnd(h, r) == Down(h, r, [m \in Used(h) |-> lastpointer(h[m])], <<>>)

Mark(h, r) ==
  [n \in Node |->
     IF h[n] = NULL THEN NULL
     ELSE [isLeaf |-> h[n].isLeaf, First |-> Through(PathToFirst(h, r), n),
           Last |-> Through(PathToEnd(h, r), n), ptr0 |-> h[n].ptr0, entries |-> h[n].entries]]

V == INSTANCE VerifRelationProof
       WITH MIDDLE <- middle, Handle <- handle, heap <- Mark(heap, root), cursor <- path[handle]

\* NULL is no node of the verified tree either.
ASSUME MarkedAssumption == NULL \notin V!BtNode

-----------------------------------------------------------------------------
(* The operators of the library are the same in both.                      *)

LEMMA SameLibrary ==
  /\ \A S : V!IsFiniteSet(S) <=> IsFiniteSet(S)
  /\ \A S : V!Cardinality(S) = Cardinality(S)
  /\ \A S : V!Max(S) = Max(S)
  /\ \A s : V!Last(s) = Last(s) /\ V!Front(s) = Front(s)
  /\ \A s, i, e : V!InsertAt(s, i, e) = InsertAt(s, i, e)
  /\ \A f : V!Range(f) = Range(f)
<1>1. \A S : V!IsFiniteSet(S) <=> IsFiniteSet(S)
  BY DEF V!IsFiniteSet, IsFiniteSet
<1>2. \A S : V!Cardinality(S) = Cardinality(S)
  BY <1>1 DEF V!Cardinality, Cardinality
<1>3. \A S : V!Max(S) = Max(S)
  BY DEF V!Max, Max
<1>4. \A s : V!Last(s) = Last(s) /\ V!Front(s) = Front(s)
  BY DEF V!Last, Last, V!Front, Front
<1>5. \A s, i, e : V!InsertAt(s, i, e) = InsertAt(s, i, e)
  BY DEF V!InsertAt, InsertAt
<1>6. \A f : V!Range(f) = Range(f)
  BY DEF V!Range, Range
<1> QED
  BY <1>1, <1>2, <1>3, <1>4, <1>5, <1>6

LEMMA VA ==
  /\ V!FanoutAssumption /\ V!KeysAssumption /\ V!NodesAssumption
  /\ V!NullAssumption /\ V!PathAssumption /\ V!EndAssumption
BY FanoutAssumption, KeysAssumption, NodesAssumption, NullAssumption, PathAssumption,
   EndAssumption, MarkedAssumption, SameLibrary
   DEF V!FanoutAssumption, V!KeysAssumption, V!NodesAssumption, V!NullAssumption,
       V!PathAssumption, V!EndAssumption, middle

-----------------------------------------------------------------------------
(* Twins: a node of each tree.                                             *)

SameNode(x, y) ==
  /\ x \in BtNodes /\ y \in V!BtNode
  /\ y.isLeaf = x.isLeaf /\ y.ptr0 = x.ptr0 /\ y.entries = x.entries
  /\ x.FirstLeaf <=> x.isLeaf /\ y.First
  /\ x.LastLeaf <=> x.isLeaf /\ y.Last

LEMMA NodeTwins ==
  ASSUME NEW x, NEW y, SameNode(x, y)
  PROVE  /\ V!numKeys(y) = numKeys(x) /\ numKeys(x) \in Nat
         /\ V!lastpointer(y) = lastpointer(x) /\ V!firstpointer(y) = firstpointer(x)
         /\ \A i : V!Child(y, i) = Child(x, i) /\ V!KeyAt(y, i) = KeyAt(x, i)
         /\ x.entries \in Seq(Entry)
         /\ \A i \in InUse(x) : KeyAt(x, i) = x.entries[i + 1].key /\ KeyAt(x, i) \in Nat
<1>1. V!Entry = Entry /\ y.entries \in Seq(Entry) /\ y.entries = x.entries
  BY DEF SameNode, V!BtNode, V!Entry, Entry
<1>2. \A e \in Entry : e.key \in Nat
  BY KeysAssumption DEF Entry
<1>a. x.entries \in Seq(Entry)
  BY <1>1
<1>3. /\ Len(x.entries) \in Nat
      /\ \A i \in 1 .. Len(x.entries) : x.entries[i] \in Entry
  <2> DEFINE s == x.entries
  <2>1. s \in Seq(Entry)
    BY <1>a
  <2> HIDE DEF s
  <2>2. Len(s) \in Nat /\ \A i \in 1 .. Len(s) : s[i] \in Entry
    BY <2>1
  <2> QED
    BY <2>2 DEF s
<1>4. Len(x.entries) \in Nat
  BY <1>3
<1>5. \A i \in InUse(x) : i + 1 \in 1 .. Len(x.entries)
  BY <1>4 DEF InUse, numKeys
<1>6. \A i \in InUse(x) : KeyAt(x, i) = x.entries[i + 1].key /\ KeyAt(x, i) \in Nat
  BY <1>2, <1>3, <1>5 DEF KeyAt
<1>7. V!numKeys(y) = numKeys(x) /\ numKeys(x) \in Nat
  BY <1>1, <1>4 DEF numKeys, V!numKeys
<1> QED
  BY <1>1, <1>6, <1>7
     DEF SameNode, lastpointer, V!lastpointer, firstpointer, V!firstpointer, Child, V!Child,
         KeyAt, V!KeyAt

LEMMA FirstIs ==
  ASSUME NEW S \in SUBSET Int, NEW i \in S, \A j \in S : i <= j
  PROVE  First(S) = i
<1>1. First(S) \in S /\ \A j \in S : First(S) <= j
  BY DEF First
<1>2. First(S) \in Int /\ i \in Int /\ First(S) <= i /\ i <= First(S)
  BY <1>1
<1> QED
  BY <1>2

\* The searches of the two find the same index: what one counts the other looks for.
LEMMA RecordTwins ==
  ASSUME NEW x, NEW y, SameNode(x, y), V!Ascending(y), NEW k \in Key
  PROVE  findRecordIndex(x, k) = V!findRecordIndex(y, k)
<1> DEFINE f == V!findRecordIndex(y, k)
           S == {i \in InUse(x) : k <= KeyAt(x, i)} \cup {numKeys(x)}
<1>1. y \in V!BtNode /\ k \in Nat
  BY KeysAssumption DEF SameNode
<1>2. /\ f \in 0 .. V!numKeys(y)
      /\ \A i \in 1 .. V!numKeys(y) : y.entries[i].key < k <=> i <= f
  BY VA, V!RecordIndex, <1>1
<1> HIDE DEF f
<1>3. /\ V!numKeys(y) = numKeys(x) /\ numKeys(x) \in Nat /\ y.entries = x.entries
      /\ \A i \in InUse(x) : KeyAt(x, i) = x.entries[i + 1].key /\ KeyAt(x, i) \in Nat
  BY NodeTwins DEF SameNode
<1>4. \A i \in InUse(x) : i \in 0 .. numKeys(x) - 1 /\ i + 1 \in 1 .. V!numKeys(y)
  BY <1>3 DEF InUse
<1>5. \A i \in InUse(x) : k <= KeyAt(x, i) <=> f <= i
  BY <1>1, <1>2, <1>3, <1>4
<1>6. S \in SUBSET Int
  BY <1>3, <1>4
<1>7. f \in S
  BY <1>2, <1>3, <1>5 DEF InUse
<1>8. \A j \in S : f <= j
  BY <1>2, <1>3, <1>5
<1> HIDE DEF S
<1>9. First(S) = f
  BY <1>6, <1>7, <1>8, FirstIs
<1> QED
  BY <1>9 DEF S, f, findRecordIndex

LEMMA ChildTwins ==
  ASSUME NEW x, NEW y, SameNode(x, y), V!Ascending(y), numKeys(x) >= 1, NEW k \in Key
  PROVE  findChildIndex(x, k) = V!findChildIndex(y, k)
<1> DEFINE f == V!findChildIndex(y, k)
           S == {i \in InUse(x) : \/ i = numKeys(x) - 1
                                  \/ KeyAt(x, i) <= k /\ k < KeyAt(x, i + 1)}
<1>1. y \in V!BtNode /\ k \in Nat
  BY KeysAssumption DEF SameNode
<1>2. /\ f \in -1 .. V!numKeys(y) - 1
      /\ \A i \in 1 .. V!numKeys(y) : y.entries[i].key <= k <=> i <= f + 1
  BY VA, V!ChildIndex, <1>1
<1> HIDE DEF f
<1>3. /\ V!numKeys(y) = numKeys(x) /\ numKeys(x) \in Nat /\ y.entries = x.entries
      /\ \A i \in InUse(x) : KeyAt(x, i) = x.entries[i + 1].key /\ KeyAt(x, i) \in Nat
  BY NodeTwins DEF SameNode
<1>4. \A i \in InUse(x) : i \in 0 .. numKeys(x) - 1 /\ i + 1 \in 1 .. V!numKeys(y)
  BY <1>3 DEF InUse
<1>5. \A i \in InUse(x) : KeyAt(x, i) <= k <=> i <= f
  BY <1>2, <1>3, <1>4
<1>6. 0 \in InUse(x)
  BY <1>3 DEF InUse
<1>7. CASE k < KeyAt(x, 0)
  <2>1. f = -1
    BY <1>1, <1>2, <1>3, <1>5, <1>6, <1>7
  <2> QED
    BY <1>7, <2>1 DEF findChildIndex, f
<1>8. CASE ~(k < KeyAt(x, 0))
  <2>1. f \in InUse(x)
    BY <1>1, <1>2, <1>3, <1>5, <1>6, <1>8 DEF InUse
  <2>2. \A i \in InUse(x) : i # numKeys(x) - 1 => i + 1 \in InUse(x)
    BY <1>3 DEF InUse
  <2>3. S \in SUBSET Int
    BY <1>4
  <2>4. f \in S
    BY <1>1, <1>3, <1>4, <1>5, <2>1, <2>2
  <2>5. ASSUME NEW j \in S PROVE f <= j
    <3>1. j \in InUse(x) /\ j \in Int /\ f \in Int /\ j \in 0 .. numKeys(x) - 1
      BY <1>2, <1>3, <1>4
    <3>2. CASE j = numKeys(x) - 1
      BY <1>2, <1>3, <3>2
    <3>3. CASE j # numKeys(x) - 1
      <4>1. j + 1 \in InUse(x) /\ k < KeyAt(x, j + 1)
        BY <2>2, <3>1, <3>3
      <4>2. ~(j + 1 <= f)
        BY <1>1, <1>3, <1>5, <4>1
      <4> QED
        BY <3>1, <4>2
    <3> QED
      BY <3>2, <3>3
  <2> HIDE DEF S
  <2>6. First(S) = f
    BY <2>3, <2>4, <2>5, FirstIs
  <2> QED
    BY <1>8, <2>6 DEF S, f, findChildIndex
<1> QED
  BY <1>7, <1>8
-----------------------------------------------------------------------------
(* Twins: two trees.                                                       *)

Same(h, g) ==
  /\ h \in [Node -> BtNodes \cup {NULL}] /\ g \in [Node -> V!BtNode \cup {NULL}]
  /\ \A n \in Node : IF h[n] = NULL THEN g[n] = NULL ELSE SameNode(h[n], g[n])

Twin(h, g, r, dep, lev, rng) ==
  V!Tree(g, r, dep, lev, rng, NULL) /\ V!RootOK(g, r) /\ Same(h, g)

LEMMA TwinNodes ==
  ASSUME NEW h, NEW g, Same(h, g)
  PROVE  /\ Used(h) = V!Used(g) /\ Used(h) \subseteq Node
         /\ \A n \in Used(h) : SameNode(h[n], g[n]) /\ h[n] \in BtNodes /\ g[n] \in V!BtNode
         /\ V!Fresh(g) = Fresh(h)
<1>1. \A n \in Node : h[n] # NULL <=> g[n] # NULL
  BY VA DEF Same, SameNode, V!NullAssumption
<1>2. Used(h) = V!Used(g) /\ Used(h) \subseteq Node
  BY <1>1 DEF Used, V!Used
<1>3. \A n \in Used(h) : SameNode(h[n], g[n]) /\ h[n] \in BtNodes /\ g[n] \in V!BtNode
  BY DEF Same, SameNode, Used
<1>4. V!Fresh(g) = Fresh(h)
  <2>1. \A n \in Node : h[n] = NULL <=> g[n] = NULL
    BY <1>1
  <2> QED
    BY <2>1 DEF Fresh, V!Fresh
<1> QED
  BY <1>2, <1>3, <1>4

LEMMA TreeNodes ==
  ASSUME NEW h, NEW g, NEW r, NEW dep, NEW lev, NEW rng, Twin(h, g, r, dep, lev, rng)
  PROVE  \A n \in Used(h) :
           /\ V!Ascending(g[n]) /\ h[n].isLeaf = g[n].isLeaf
           /\ n # r \/ ~h[n].isLeaf => numKeys(h[n]) >= 1
           /\ h[n].FirstLeaf <=> h[n].isLeaf /\ g[n].First
           /\ h[n].LastLeaf <=> h[n].isLeaf /\ g[n].Last
           /\ h[n].isLeaf \in BOOLEAN /\ n \in V!Used(g)
<1> SUFFICES ASSUME NEW n \in Used(h)
             PROVE  /\ V!Ascending(g[n]) /\ h[n].isLeaf = g[n].isLeaf
                    /\ n # r \/ ~h[n].isLeaf => numKeys(h[n]) >= 1
                    /\ h[n].FirstLeaf <=> h[n].isLeaf /\ g[n].First
                    /\ h[n].LastLeaf <=> h[n].isLeaf /\ g[n].Last
                    /\ h[n].isLeaf \in BOOLEAN /\ n \in V!Used(g)
  OBVIOUS
<1>1. V!Tree(g, r, dep, lev, rng, NULL) /\ V!RootOK(g, r) /\ Same(h, g)
  BY DEF Twin
<1>2. n \in V!Used(g) /\ SameNode(h[n], g[n]) /\ h[n] \in BtNodes
  BY <1>1, TwinNodes
<1>3. V!Ascending(g[n])
  BY <1>1, <1>2 DEF V!Tree, V!Nodes, V!NodeOK
<1>4. n # r => V!numKeys(g[n]) >= 1
  BY VA, V!RangeNonempty, <1>1, <1>2
<1>5. V!numKeys(g[n]) = numKeys(h[n])
  BY <1>2, NodeTwins
<1>6. h[n].isLeaf = g[n].isLeaf /\ h[n].isLeaf \in BOOLEAN
  BY <1>2 DEF SameNode, BtNodes
<1>7. ~h[n].isLeaf /\ n = r => V!numKeys(g[n]) >= 1
  BY <1>1, <1>6 DEF V!RootOK
<1> QED
  BY <1>2, <1>3, <1>4, <1>5, <1>6, <1>7 DEF SameNode

LEMMA DownTwins ==
  ASSUME NEW h, NEW g, Same(h, g)
  PROVE  \A n, idx, above : Down(h, n, idx, above) = V!Down(g, n, idx, above)
<1> SUFFICES ASSUME NEW n, NEW idx, NEW above
             PROVE  Down(h, n, idx, above) = V!Down(g, n, idx, above)
  OBVIOUS
<1> DEFINE F(w) == [m \in Used(h) |-> IF h[m].isLeaf THEN <<At(m, idx[m])>>
                                      ELSE <<At(m, idx[m])>> \o w[Child(h[m], idx[m])]]
           G(w) == [m \in V!Used(g) |-> IF g[m].isLeaf THEN <<V!At(m, idx[m])>>
                                        ELSE <<V!At(m, idx[m])>> \o w[V!Child(g[m], idx[m])]]
<1>1. V!Used(g) = Used(h)
  BY TwinNodes
<1>2. \A m \in Used(h) : h[m].isLeaf = g[m].isLeaf /\ V!Child(g[m], idx[m]) = Child(h[m], idx[m])
                         /\ V!At(m, idx[m]) = At(m, idx[m])
  BY TwinNodes, NodeTwins DEF SameNode, At, V!At
<1>3. ASSUME NEW w PROVE F(w) = G(w)
  BY <1>1, <1>2, Zenon
<1>4. Down(h, n, idx, above) = above \o (CHOOSE w : w = F(w))[n]
  BY DEF Down
<1>5. V!Down(g, n, idx, above) = above \o (CHOOSE w : w = G(w))[n]
  BY DEF V!Down
<1> HIDE DEF F, G
<1>6. (CHOOSE w : w = F(w)) = (CHOOSE w : w = G(w))
  BY <1>3, Zenon
<1> QED
  BY <1>4, <1>5, <1>6

KeyIndex(h, key) ==
  [m \in Used(h) |-> IF h[m].isLeaf THEN findRecordIndex(h[m], key)
                     ELSE findChildIndex(h[m], key)]
FirstIndex(h) == [m \in Used(h) |-> firstpointer(h[m])]
LastIndex(h) == [m \in Used(h) |-> lastpointer(h[m])]

LEMMA MovesDown ==
  ASSUME NEW h, NEW n, NEW above
  PROVE  /\ \A key : moveToKey(h, n, key, above) = Down(h, n, KeyIndex(h, key), above)
         /\ moveToFirst(h, n, above) = Down(h, n, FirstIndex(h), above)
BY DEF moveToKey, moveToFirst, KeyIndex, FirstIndex

\* The walks down are the same, but for that to the last.
LEMMA MoveTwins ==
  ASSUME NEW h, NEW g, NEW r, NEW dep, NEW lev, NEW rng, Twin(h, g, r, dep, lev, rng),
         NEW n, NEW above
  PROVE  /\ \A key \in Key : moveToKey(h, n, key, above) = V!moveToKey(g, n, key, above)
         /\ moveToFirst(h, n, above) = V!moveToFirst(g, n, above)
         /\ Down(h, n, LastIndex(h), above) = V!moveToLast(g, n, above)
<1>1. Same(h, g) /\ V!Used(g) = Used(h)
  BY TwinNodes DEF Twin
<1>2. ASSUME NEW m \in Used(h)
      PROVE  /\ SameNode(h[m], g[m]) /\ V!Ascending(g[m]) /\ h[m].isLeaf = g[m].isLeaf
             /\ ~h[m].isLeaf => numKeys(h[m]) >= 1
  BY <1>1, TwinNodes, TreeNodes
<1>3. \A m \in Used(h) : h[m].isLeaf = g[m].isLeaf
  BY <1>2
<1>4. ASSUME NEW key \in Key PROVE KeyIndex(h, key) = V!KeyIndex(g, key)
  <2>1. ASSUME NEW m \in Used(h)
        PROVE  /\ h[m].isLeaf => findRecordIndex(h[m], key) = V!findRecordIndex(g[m], key)
               /\ ~h[m].isLeaf => findChildIndex(h[m], key) = V!findChildIndex(g[m], key)
    BY <1>2, RecordTwins, ChildTwins
  <2> QED
    BY <1>1, <1>3, <2>1, Zenon DEF KeyIndex, V!KeyIndex
<1>5. FirstIndex(h) = V!FirstIndex(g) /\ LastIndex(h) = V!LastIndex(g)
  <2>1. ASSUME NEW m \in Used(h)
        PROVE  /\ firstpointer(h[m]) = V!firstpointer(g[m])
               /\ lastpointer(h[m]) = V!lastpointer(g[m])
    BY <1>2, NodeTwins
  <2>2. FirstIndex(h) = V!FirstIndex(g)
    BY <1>1, <2>1, Zenon DEF FirstIndex, V!FirstIndex
  <2>3. LastIndex(h) = V!LastIndex(g)
    BY <1>1, <2>1, Zenon DEF LastIndex, V!LastIndex
  <2> QED
    BY <2>2, <2>3
<1>6. \A key : V!moveToKey(g, n, key, above) = V!Down(g, n, V!KeyIndex(g, key), above)
  BY VA, V!MovesDown
<1>7. /\ V!moveToFirst(g, n, above) = V!Down(g, n, V!FirstIndex(g), above)
      /\ V!moveToLast(g, n, above) = V!Down(g, n, V!LastIndex(g), above)
  BY VA, V!MovesDown
<1>8. \A idx : Down(h, n, idx, above) = V!Down(g, n, idx, above)
  BY <1>1, DownTwins
<1> QED
  BY <1>4, <1>5, <1>6, <1>7, <1>8, MovesDown

-----------------------------------------------------------------------------
(* Twins: the cursor.                                                      *)

\* What is at the stops of a path.
LEMMA SearchTwins ==
  ASSUME NEW h, NEW g, NEW r, NEW dep, NEW lev, NEW rng, Twin(h, g, r, dep, lev, rng),
         NEW n, NEW above, NEW key \in Key
  PROVE  moveToKey(h, n, key, above) = V!moveToKey(g, n, key, above)
<1>1. \A k \in Key : moveToKey(h, n, k, above) = V!moveToKey(g, n, k, above)
  BY MoveTwins
<1> QED
  BY <1>1

LEMMA StopTwins ==
  ASSUME NEW h, NEW g, NEW r, NEW dep, NEW lev, NEW rng, Twin(h, g, r, dep, lev, rng),
         NEW c, V!Complete(g, r, dep, c)
  PROVE  /\ dep \in Nat /\ c \in Seq(V!Stop) /\ Len(c) = dep + 1 /\ c[1].node = r
         /\ c # <<>> /\ Last(c) = c[dep + 1]
         /\ \A l \in 1 .. dep + 1 :
              /\ c[l].node \in Used(h) /\ c[l].idx \in Int
              /\ SameNode(h[c[l].node], g[c[l].node])
              /\ h[c[l].node].isLeaf <=> l = dep + 1
              /\ l # dep + 1 => c[l].idx \in -1 .. numKeys(h[c[l].node]) - 1
              /\ firstpointer(h[c[l].node]) = V!firstpointer(g[c[l].node])
              /\ lastpointer(h[c[l].node]) = V!lastpointer(g[c[l].node])
         /\ c[dep + 1].idx \in 0 .. numKeys(h[c[dep + 1].node])
         /\ currNode(h, c) = h[c[dep + 1].node] /\ entryIndex(c) = c[dep + 1].idx
         /\ isValid(h, c) <=> V!isValid(g, c)
         /\ isFirst(h, c) <=> V!isFirst(g, c)
         /\ numKeys(currNode(h, c)) = V!numKeys(V!currNode(g, c))
         /\ entryIndex(c) = V!entryIndex(c)
<1>1. V!Tree(g, r, dep, lev, rng, NULL) /\ Same(h, g)
  BY DEF Twin
<1>2. /\ dep \in Nat /\ c \in Seq(V!Stop) /\ Len(c) = dep + 1 /\ c[1].node = r
      /\ V!Last(c) = c[dep + 1] /\ c # <<>>
      /\ \A l \in 1 .. dep + 1 : /\ c[l].node \in V!Used(g) /\ c[l].idx \in Int
                                 /\ g[c[l].node].isLeaf <=> l = dep + 1
  BY VA, V!CompleteFacts, <1>1
<1>3. Last(c) = c[dep + 1]
  BY <1>2, SameLibrary
<1>4. ASSUME NEW l \in 1 .. dep + 1
      PROVE  /\ c[l].node \in Used(h) /\ SameNode(h[c[l].node], g[c[l].node])
             /\ h[c[l].node].isLeaf = g[c[l].node].isLeaf
             /\ h[c[l].node].LastLeaf <=> h[c[l].node].isLeaf /\ g[c[l].node].Last
             /\ h[c[l].node].FirstLeaf <=> h[c[l].node].isLeaf /\ g[c[l].node].First
  <2>1. c[l].node \in Used(h)
    BY <1>1, <1>2, TwinNodes
  <2> QED
    BY <1>1, <2>1, TwinNodes, TreeNodes
<1>5. ASSUME NEW l \in 1 .. dep + 1
      PROVE  /\ firstpointer(h[c[l].node]) = V!firstpointer(g[c[l].node])
             /\ lastpointer(h[c[l].node]) = V!lastpointer(g[c[l].node])
             /\ V!numKeys(g[c[l].node]) = numKeys(h[c[l].node])
  BY <1>4, NodeTwins
<1>6. ASSUME NEW l \in 1 .. dep + 1, l # dep + 1
      PROVE  c[l].idx \in -1 .. numKeys(h[c[l].node]) - 1
  <2>1. l \in 1 .. dep
    BY <1>2, <1>6
  <2>2. c[l].idx \in V!Index(g[c[l].node])
    BY <2>1 DEF V!Complete, V!Hop
  <2> QED
    BY <1>5, <2>2 DEF V!Index
<1>7. dep + 1 \in 1 .. dep + 1
  BY <1>2
<1>8. c[dep + 1].idx \in 0 .. numKeys(h[c[dep + 1].node])
  BY <1>5, <1>7 DEF V!Complete
<1>9. h[c[dep + 1].node].isLeaf
  BY <1>2, <1>4, <1>7
<1>10. isValid(h, c) <=> V!isValid(g, c)
  BY <1>2, <1>3, <1>4, <1>5, <1>7, <1>9
     DEF isValid, V!isValid, entryIndex, V!entryIndex, currNode, V!currNode
<1>11. isFirst(h, c) <=> V!isFirst(g, c)
  BY <1>2, <1>3, <1>4, <1>7, <1>9
     DEF isFirst, V!isFirst, entryIndex, V!entryIndex, currNode, V!currNode
<1>12. /\ currNode(h, c) = h[c[dep + 1].node] /\ entryIndex(c) = c[dep + 1].idx
       /\ numKeys(currNode(h, c)) = V!numKeys(V!currNode(g, c))
       /\ entryIndex(c) = V!entryIndex(c)
  BY <1>2, <1>3, <1>5, <1>7 DEF currNode, V!currNode, entryIndex, V!entryIndex
<1> QED
  BY <1>2, <1>3, <1>4, <1>5, <1>6, <1>8, <1>10, <1>11, <1>12

\* The deepest stop of some that all below are not.
LEMMA AscendIs ==
  ASSUME NEW n \in Nat, NEW c \in Seq(V!Stop), Len(c) = n, NEW stops \in SUBSET (2 .. n),
         NEW l \in 1 .. n, l = 1 \/ l \in stops, \A x \in l + 1 .. n : x \notin stops
  PROVE  Ascend(c, stops) = SubSeq(c, 1, l)
<1> DEFINE S == stops \cup {1}
<1>1. S \in SUBSET (0 .. n) /\ l \in S
  OBVIOUS
<1> HIDE DEF S
<1>2. V!Max(S) \in S /\ \A x \in S : x <= V!Max(S)
  BY VA, V!MaxIs, <1>1
<1>3. V!Max(S) = Max(S)
  BY SameLibrary
<1>4. Max(S) \in S /\ l <= Max(S) /\ Max(S) \in 0 .. n
  BY <1>1, <1>2, <1>3
<1>5. ~(l < Max(S))
  <2>1. \A x \in S : x = 1 \/ x \in stops
    BY DEF S
  <2> QED
    BY <1>4, <2>1
<1>6. Max(S) = l
  BY <1>4, <1>5
<1> QED
  BY <1>6 DEF Ascend, S

LEMMA ShiftIs ==
  ASSUME NEW c \in Seq(V!Stop), NEW l \in 1 .. Len(c), NEW d \in Int
  PROVE  Shift(SubSeq(c, 1, l), d) = V!Turned(c, l, c[l].idx + d)
<1> DEFINE p == SubSeq(c, 1, l)
           q == Shift(p, d)
           t == V!Turned(c, l, c[l].idx + d)
<1>1. l \in 0 .. Len(c) /\ l \in Nat /\ l \in 1 .. l
  BY LenProperties
<1>2. p \in Seq(V!Stop) /\ Len(p) = l /\ \A x \in 1 .. l : p[x] = c[x]
  BY VA, V!Prefix, <1>1
<1>3. /\ c[l] \in V!Stop /\ c[l].idx + d \in Int
      /\ \A x \in 1 .. l : c[x] \in V!Stop
  <2>1. \A x \in 1 .. l : x \in 1 .. Len(c)
    BY <1>1
  <2>2. \A x \in 1 .. l : c[x] \in V!Stop
    BY <2>1, ElementOfSeq
  <2>3. l \in 1 .. l
    BY <1>1
  <2>4. c[l] \in V!Stop
    BY <2>2, <2>3
  <2>5. c[l].idx + d \in Int
    BY <2>4 DEF V!Stop
  <2> QED
    BY <2>2, <2>4, <2>5
<1>4. /\ t \in Seq(V!Stop) /\ Len(t) = l /\ \A x \in 1 .. l - 1 : t[x] = c[x]
      /\ t[l].node = c[l].node /\ t[l].idx = c[l].idx + d
  BY VA, V!TurnedIs, <1>3
<1> HIDE DEF p, t
<1>5. q = [p EXCEPT ![l] = [c[l] EXCEPT !.idx = c[l].idx + d]]
  BY <1>1, <1>2 DEF Shift
<1> DEFINE s == [c[l] EXCEPT !.idx = c[l].idx + d]
<1>6. s = [node |-> c[l].node, idx |-> c[l].idx + d] /\ s \in V!Stop
  BY <1>3 DEF V!Stop
<1>7. t[l] \in V!Stop
  BY <1>1, <1>4, ElementOfSeq
<1>8. t[l] = s
  BY <1>4, <1>6, <1>7 DEF V!Stop
<1> HIDE DEF s, q
<1>9. q = [p EXCEPT ![l] = s]
  BY <1>5 DEF s
<1>10. q \in Seq(V!Stop) /\ Len(q) = l /\ \A x \in 1 .. l : q[x] = IF x = l THEN s ELSE c[x]
  BY <1>1, <1>2, <1>6, <1>9, ExceptSeq
<1>11. \A x \in 1 .. l : q[x] = t[x]
  BY <1>1, <1>4, <1>8, <1>10
<1>12. q = t
  BY <1>4, <1>10, <1>11, SeqEqual
<1> QED
  BY <1>12 DEF q, p, t

\* Where a path turns: the deepest stop that is not at its last (first) pointer.
LEMMA TurnIs ==
  ASSUME NEW c \in Seq(V!Stop), NEW l \in 1 .. Len(c), NEW stops \in SUBSET (2 .. Len(c)),
         l = 1 \/ l \in stops, \A x \in l + 1 .. Len(c) : x \notin stops, NEW d \in Int
  PROVE  Shift(Ascend(c, stops), d) = V!Turned(c, l, c[l].idx + d)
<1> DEFINE n == Len(c)
<1>1. n \in Nat /\ l \in 1 .. n /\ stops \in SUBSET (2 .. n) /\ \A x \in l + 1 .. n : x \notin stops
  OBVIOUS
<1> HIDE DEF n
<1>2. Ascend(c, stops) = SubSeq(c, 1, l)
  BY <1>1, AscendIs DEF n
<1> QED
  BY <1>2, ShiftIs

\* The last stop of the path that has turned.
LEMMA TurnedStop ==
  ASSUME NEW c \in Seq(V!Stop), NEW l \in 1 .. Len(c), NEW i \in Int
  PROVE  /\ Last(V!Turned(c, l, i)).node = c[l].node /\ entryIndex(V!Turned(c, l, i)) = i
         /\ \A h : currNode(h, V!Turned(c, l, i)) = h[c[l].node]
<1> DEFINE t == V!Turned(c, l, i)
<1>1. Len(t) = l /\ t[l].node = c[l].node /\ t[l].idx = i
  BY VA, V!TurnedIs
<1> HIDE DEF t
<1>2. Last(t) = t[l]
  BY <1>1 DEF Last
<1> QED
  BY <1>1, <1>2 DEF t, entryIndex, currNode

LEMMA NextTwins ==
  ASSUME NEW h, NEW g, NEW r, NEW dep, NEW lev, NEW rng, Twin(h, g, r, dep, lev, rng),
         NEW c, V!Complete(g, r, dep, c)
  PROVE  moveToNext(h, c) = V!moveToNext(g, c)
<1>1. CASE ~isValid(h, c)
  <2>1. ~V!isValid(g, c)
    BY <1>1, StopTwins
  <2> QED
    BY <1>1, <2>1 DEF moveToNext, V!moveToNext
<1>2. CASE isValid(h, c)
  <2>1. V!Tree(g, r, dep, lev, rng, NULL) /\ V!isValid(g, c)
    BY <1>2, StopTwins DEF Twin
  <2>2. PICK l : V!TurnsRight(g, dep, c, l, V!moveToNext(g, c))
    BY VA, V!NextTurns, <2>1
  <2>3. /\ dep \in Nat /\ c \in Seq(V!Stop) /\ Len(c) = dep + 1
        /\ \A x \in 1 .. dep + 1 :
             /\ c[x].idx \in Int /\ SameNode(h[c[x].node], g[c[x].node])
             /\ h[c[x].node].isLeaf <=> x = dep + 1
             /\ x # dep + 1 => c[x].idx \in -1 .. numKeys(h[c[x].node]) - 1
             /\ lastpointer(h[c[x].node]) = V!lastpointer(g[c[x].node])
    BY StopTwins
  <2> DEFINE nd == h[c[l].node]
             i == c[l].idx + 1
             q == V!Turned(c, l, i)
             stops == {x \in 2 .. Len(c) : c[x].idx # lastpointer(h[c[x].node])}
  <2>4. /\ l \in 1 .. dep + 1 /\ c[l].idx # lastpointer(nd)
        /\ \A x \in l + 1 .. dep + 1 : c[x].idx = lastpointer(h[c[x].node])
        /\ V!moveToNext(g, c) = IF l = dep + 1 THEN q
                                ELSE V!moveToFirst(g, V!Child(g[c[l].node], i), q)
    <3>1. /\ l \in 1 .. dep + 1 /\ c[l].idx # V!lastpointer(g[c[l].node])
          /\ \A x \in l + 1 .. dep + 1 : c[x].idx = V!lastpointer(g[c[x].node])
          /\ V!moveToNext(g, c) = IF l = dep + 1 THEN q
                                  ELSE V!moveToFirst(g, V!Child(g[c[l].node], i), q)
      BY <2>2 DEF V!TurnsRight
    <3>2. \A x \in l + 1 .. dep + 1 : x \in 1 .. dep + 1
      BY <2>3, <3>1
    <3> QED
      BY <2>3, <3>1, <3>2
  <2>5. c[l].idx \in Int /\ (nd.isLeaf <=> l = dep + 1) /\ SameNode(nd, g[c[l].node])
    BY <2>3, <2>4
  <2>6. q = Shift(Ascend(c, stops), 1)
    <3>1. /\ stops \in SUBSET (2 .. Len(c)) /\ l \in 1 .. Len(c)
          /\ l = 1 \/ l \in stops
      BY <2>3, <2>4
    <3>2. \A x \in l + 1 .. Len(c) : x \notin stops
      BY <2>3, <2>4
    <3>3. c \in Seq(V!Stop)
      BY <2>3
    <3>4. 1 \in Int
      OBVIOUS
    <3> HIDE DEF stops, q, nd, i
    <3>5. Shift(Ascend(c, stops), 1) = V!Turned(c, l, c[l].idx + 1)
      BY <3>1, <3>2, <3>3, <3>4, TurnIs
    <3> QED
      BY <3>5 DEF q, i
  <2>7. currNode(h, q) = nd /\ entryIndex(q) = i
    <3>1. l \in 1 .. Len(c) /\ i \in Int
      BY <2>3, <2>4, <2>5
    <3>2. c \in Seq(V!Stop)
      BY <2>3
    <3> HIDE DEF i
    <3> QED
      BY <3>1, <3>2, TurnedStop
  <2>8. ~nd.isLeaf => /\ i \in InUse(nd)
                      /\ moveToFirst(h, Child(nd, i), q) =
                           V!moveToFirst(g, V!Child(g[c[l].node], i), q)
    <3>1. SUFFICES ASSUME ~nd.isLeaf
                   PROVE  /\ i \in InUse(nd)
                          /\ moveToFirst(h, Child(nd, i), q) =
                               V!moveToFirst(g, V!Child(g[c[l].node], i), q)
      OBVIOUS
    <3>2. lastpointer(nd) = numKeys(nd) - 1 /\ numKeys(nd) \in Nat
      BY <2>5, <3>1, NodeTwins DEF lastpointer
    <3>3. c[l].idx \in -1 .. numKeys(nd) - 1
      BY <2>3, <2>4, <2>5, <3>1
    <3>4. i \in InUse(nd)
      BY <2>4, <3>2, <3>3 DEF InUse
    <3>5. Child(nd, i) = V!Child(g[c[l].node], i)
      BY <2>5, NodeTwins
    <3> HIDE DEF nd, i, q
    <3> QED
      BY <3>4, <3>5, MoveTwins
  <2> HIDE DEF nd, i, q
  <2>9. moveToNext(h, c) = IF nd.isLeaf THEN q ELSE moveToFirst(h, Child(nd, i), q)
    <3>1. moveToNext(h, c) =
            CASE nd.isLeaf -> q
              [] ~nd.isLeaf /\ i \in InUse(nd) -> moveToFirst(h, Child(nd, i), q)
              [] OTHER -> Lost
      BY <1>2, <2>6, <2>7 DEF moveToNext
    <3> QED
      BY <2>8, <3>1
  <2> QED
    BY <2>4, <2>5, <2>8, <2>9
<1> QED
  BY <1>1, <1>2

LEMMA LeadsOn ==
  ASSUME NEW h, NEW g, NEW r, NEW dep, NEW lev, NEW rng, Twin(h, g, r, dep, lev, rng),
         NEW above, NEW n, V!LeadsTo(g, r, above, n), ~h[n].isLeaf,
         NEW i \in -1 .. numKeys(h[n]) - 1
  PROVE  V!LeadsTo(g, r, Append(above, At(n, i)), Child(h[n], i))
<1> DEFINE a == Append(above, At(n, i))
           k == Child(h[n], i)
           z == Len(above)
<1>1. V!Tree(g, r, dep, lev, rng, NULL) /\ Same(h, g) /\ V!Used(g) = Used(h)
  BY TwinNodes DEF Twin
<1>2. /\ above \in Seq(V!Stop) /\ n \in Used(h)
      /\ IF Len(above) = 0 THEN n = r ELSE above[1].node = r
      /\ \A l \in 1 .. Len(above) :
           /\ above[l].node \in V!Inner(g) /\ above[l].idx \in V!Index(g[above[l].node])
           /\ V!Child(g[above[l].node], above[l].idx) = IF l = Len(above) THEN n ELSE above[l + 1].node
  BY <1>1 DEF V!LeadsTo
<1>3. SameNode(h[n], g[n]) /\ n \in Node
  BY <1>1, <1>2, TwinNodes
<1>4. n \in V!Inner(g)
  BY <1>1, <1>2, <1>3 DEF SameNode, V!Inner
<1>5. i \in V!Index(g[n]) /\ V!Child(g[n], i) = k
  BY <1>3, NodeTwins DEF V!Index
<1>6. k \in V!Used(g)
  BY <1>1, <1>4, <1>5 DEF V!Tree, V!Kids, V!KidOK
<1>7. i \in Int /\ At(n, i) \in V!Stop /\ At(n, i).node = n /\ At(n, i).idx = i
  BY <1>3 DEF V!Stop, At
<1>8. z \in Nat /\ above \in Seq(V!Stop)
  BY <1>2, LenProperties
<1>9. /\ a \in Seq(V!Stop) /\ Len(a) = z + 1 /\ a[z + 1] = At(n, i)
      /\ \A l \in 1 .. z : a[l] = above[l]
  <2> DEFINE e == At(n, i)
  <2>1. e \in V!Stop /\ above \in Seq(V!Stop)
    BY <1>7, <1>8
  <2> HIDE DEF e
  <2>2. /\ Append(above, e) \in Seq(V!Stop) /\ Len(Append(above, e)) = Len(above) + 1
        /\ \A l \in 1 .. Len(above) : Append(above, e)[l] = above[l]
        /\ Append(above, e)[Len(above) + 1] = e
    BY <2>1, AppendProperties
  <2> QED
    BY <2>2 DEF e
<1> HIDE DEF a, k, z
<1>10. a[1].node = r
  <2>1. CASE z = 0
    BY <1>2, <1>7, <1>9, <2>1 DEF z
  <2>2. CASE z # 0
    <3>1. 1 \in 1 .. z
      BY <1>8, <2>2
    <3> QED
      BY <1>2, <1>9, <2>2, <3>1 DEF z
  <2> QED
    BY <2>1, <2>2
<1>11. ASSUME NEW l \in 1 .. z + 1
       PROVE  /\ a[l].node \in V!Inner(g) /\ a[l].idx \in V!Index(g[a[l].node])
              /\ V!Child(g[a[l].node], a[l].idx) = IF l = z + 1 THEN k ELSE a[l + 1].node
  <2>1. CASE l = z + 1
    BY <1>4, <1>5, <1>7, <1>9, <2>1
  <2>2. CASE l # z + 1
    <3>1. l \in 1 .. z /\ (l # z => l + 1 \in 1 .. z) /\ (l = z => l + 1 = z + 1)
      BY <1>8, <2>2
    <3>2. /\ above[l].node \in V!Inner(g) /\ above[l].idx \in V!Index(g[above[l].node])
          /\ V!Child(g[above[l].node], above[l].idx) = IF l = z THEN n ELSE above[l + 1].node
      BY <1>2, <3>1 DEF z
    <3>3. a[l] = above[l] /\ a[l + 1].node = IF l = z THEN n ELSE above[l + 1].node
      BY <1>7, <1>9, <3>1
    <3> QED
      BY <2>2, <3>2, <3>3
  <2> QED
    BY <2>1, <2>2
<1>12. V!LeadsTo(g, r, a, k)
  BY <1>6, <1>8, <1>9, <1>10, <1>11 DEF V!LeadsTo
<1> QED
  BY <1>12 DEF a, k

\* The walk to the last goes to a leaf; to the end of the last if there is one level.
LEMMA LastTwins ==
  ASSUME NEW h, NEW g, NEW r, NEW dep, NEW lev, NEW rng, Twin(h, g, r, dep, lev, rng),
         NEW above, NEW n, V!LeadsTo(g, r, above, n)
  PROVE  /\ V!Complete(g, r, dep, moveToLast(h, n, above))
         /\ Len(above) = dep => moveToLast(h, n, above) = V!moveToLast(g, n, above)
<1>1. /\ V!Tree(g, r, dep, lev, rng, NULL) /\ Same(h, g) /\ V!Used(g) = Used(h)
      /\ above \in Seq(V!Stop) /\ n \in Used(h)
  BY TwinNodes DEF Twin, V!LeadsTo
<1>2. V!IndexOK(g, V!FirstIndex(g)) /\ V!IndexOK(g, V!LastIndex(g))
  BY VA, V!IndexesOK, <1>1
<1>3. /\ SameNode(h[n], g[n]) /\ (h[n].isLeaf <=> g[n].isLeaf) /\ n \in Node /\ n \in V!Used(g)
      /\ (~h[n].isLeaf => numKeys(h[n]) >= 1) /\ numKeys(h[n]) \in Nat
      /\ lastpointer(h[n]) = V!lastpointer(g[n]) /\ dep \in Nat
  <2>1. SameNode(h[n], g[n]) /\ n \in Node /\ n \in V!Used(g)
    BY <1>1, TwinNodes
  <2>2. (h[n].isLeaf <=> g[n].isLeaf) /\ (~h[n].isLeaf => numKeys(h[n]) >= 1)
    BY <1>1, TreeNodes
  <2>3. dep \in Nat
    BY <1>1 DEF V!Tree, V!Shape
  <2> QED
    BY <2>1, <2>2, <2>3, NodeTwins
<1> DEFINE d == V!moveToLast(g, n, above)
           i == lastpointer(h[n])
<1>4. V!Complete(g, r, dep, d) /\ V!GoesOn(d, above, n, V!LastIndex(g))
  <2>1. d = V!Down(g, n, V!LastIndex(g), above)
    BY VA, V!MovesDown
  <2> QED
    BY VA, V!DownComplete, <1>1, <1>2, <2>1
<1> HIDE DEF d
<1>5. /\ Len(above) < Len(d) /\ \A l \in 1 .. Len(above) : d[l] = above[l]
      /\ d[Len(above) + 1].node = n
      /\ \A l \in Len(above) + 1 .. Len(d) : d[l].idx = V!LastIndex(g)[d[l].node]
  BY <1>4 DEF V!GoesOn
<1>6. /\ d \in Seq(V!Stop) /\ Len(d) = dep + 1
      /\ \A l \in 1 .. dep + 1 : g[d[l].node].isLeaf <=> l = dep + 1
  BY VA, V!CompleteFacts, <1>1, <1>4
<1>7. Len(above) \in Nat /\ Len(above) + 1 \in 1 .. dep + 1
  BY <1>1, <1>3, <1>5, <1>6
<1>8. h[n].isLeaf <=> Len(above) = dep
  BY <1>3, <1>5, <1>6, <1>7
<1>9. CASE h[n].isLeaf
  <2> DEFINE a == Append(above, At(n, i))
  <2>1. i \in Int /\ At(n, i) \in V!Stop
    <3>1. i \in Int
      BY <1>3 DEF lastpointer
    <3> QED
      BY <1>3, <3>1 DEF V!Stop, At
  <2>2. d[dep + 1] = At(n, i)
    <3>1. dep + 1 \in 1 .. Len(d) /\ dep + 1 \in Len(above) + 1 .. Len(d)
      BY <1>3, <1>6, <1>8, <1>9
    <3>2. d[dep + 1].node = n /\ d[dep + 1].idx = V!LastIndex(g)[n] /\ d[dep + 1] \in V!Stop
      BY <1>5, <1>6, <1>8, <1>9, <3>1, ElementOfSeq
    <3>3. V!LastIndex(g)[n] = V!lastpointer(g[n])
      BY <1>3 DEF V!LastIndex
    <3> QED
      BY <1>3, <3>2, <3>3 DEF V!Stop, At
  <2>3. /\ a \in Seq(V!Stop) /\ Len(a) = dep + 1 /\ a[dep + 1] = At(n, i)
        /\ \A l \in 1 .. dep : a[l] = above[l]
    <3>1. above \in Seq(V!Stop) /\ Len(above) = dep
      BY <1>1, <1>8, <1>9
    <3> QED
      BY <2>1, <3>1, AppendProperties
  <2> HIDE DEF a
  <2>4. \A l \in 1 .. dep + 1 : a[l] = d[l]
    <3> SUFFICES ASSUME NEW l \in 1 .. dep + 1 PROVE a[l] = d[l]
      OBVIOUS
    <3>1. CASE l = dep + 1
      BY <2>2, <2>3, <3>1
    <3>2. CASE l # dep + 1
      <4>1. l \in 1 .. dep
        BY <1>3, <3>2
      <4> QED
        BY <1>5, <1>8, <1>9, <2>3, <4>1
    <3> QED
      BY <3>1, <3>2
  <2>5. a = d
    BY <1>6, <2>3, <2>4, SeqEqual
  <2>6. moveToLast(h, n, above) = a
    BY <1>9 DEF moveToLast, a
  <2> QED
    BY <1>4, <2>5, <2>6 DEF d
<1>10. CASE ~h[n].isLeaf
  <2> DEFINE a == Append(above, At(n, i))
             k == Child(h[n], i)
  <2>1. i \in -1 .. numKeys(h[n]) - 1
    BY <1>3, <1>10 DEF lastpointer
  <2>2. V!LeadsTo(g, r, a, k)
    BY <1>10, <2>1, LeadsOn
  <2>3. moveToLast(h, n, above) = moveToFirst(h, k, a)
    BY <1>10 DEF moveToLast
  <2> HIDE DEF a, k
  <2>4. moveToFirst(h, k, a) = V!Down(g, k, V!FirstIndex(g), a)
    <3>1. moveToFirst(h, k, a) = V!moveToFirst(g, k, a)
      BY MoveTwins
    <3> QED
      BY VA, V!MovesDown, <3>1
  <2>5. V!Complete(g, r, dep, V!Down(g, k, V!FirstIndex(g), a))
    BY VA, V!DownComplete, <1>1, <1>2, <2>2
  <2> QED
    BY <1>8, <1>10, <2>3, <2>4, <2>5
<1> QED
  BY <1>9, <1>10

\* A step back: the same in a leaf and in a tree of at most two levels.
LEMMA PrevTwins ==
  ASSUME NEW h, NEW g, NEW r, NEW dep, NEW lev, NEW rng, Twin(h, g, r, dep, lev, rng),
         NEW c, V!Complete(g, r, dep, c)
  PROVE  /\ V!Complete(g, r, dep, moveToPrev(h, c))
         /\ dep < 2 \/ entryIndex(c) # 0 => moveToPrev(h, c) = V!moveToPrev(g, c)
<1>1. CASE isFirst(h, c)
  <2>1. V!isFirst(g, c)
    BY <1>1, StopTwins
  <2> QED
    BY <1>1, <2>1 DEF moveToPrev, V!moveToPrev
<1>2. CASE ~isFirst(h, c)
  <2>1. V!Tree(g, r, dep, lev, rng, NULL) /\ ~V!isFirst(g, c)
    BY <1>2, StopTwins DEF Twin
  <2>2. PICK l : V!TurnsLeft(g, dep, c, l, V!moveToPrev(g, c))
    BY VA, V!PrevTurns, <2>1
  <2>3. /\ dep \in Nat /\ c \in Seq(V!Stop) /\ Len(c) = dep + 1
        /\ \A x \in 1 .. dep + 1 :
             /\ c[x].idx \in Int /\ SameNode(h[c[x].node], g[c[x].node])
             /\ h[c[x].node].isLeaf <=> x = dep + 1
             /\ x # dep + 1 => c[x].idx \in -1 .. numKeys(h[c[x].node]) - 1
             /\ firstpointer(h[c[x].node]) = V!firstpointer(g[c[x].node])
        /\ c[dep + 1].idx \in 0 .. numKeys(h[c[dep + 1].node])
        /\ entryIndex(c) = c[dep + 1].idx
    BY StopTwins
  <2> DEFINE nd == h[c[l].node]
             i == c[l].idx - 1
             q == V!Turned(c, l, i)
             k == V!Child(g[c[l].node], i)
             stops == {x \in 2 .. Len(c) : c[x].idx # firstpointer(h[c[x].node])}
  <2>4. /\ l \in 1 .. dep + 1 /\ c[l].idx # firstpointer(nd)
        /\ \A x \in l + 1 .. dep + 1 : c[x].idx = firstpointer(h[c[x].node])
        /\ V!moveToPrev(g, c) = IF l = dep + 1 THEN q ELSE V!moveToLast(g, k, q)
    <3>1. /\ l \in 1 .. dep + 1 /\ c[l].idx # V!firstpointer(g[c[l].node])
          /\ \A x \in l + 1 .. dep + 1 : c[x].idx = V!firstpointer(g[c[x].node])
          /\ V!moveToPrev(g, c) = IF l = dep + 1 THEN q ELSE V!moveToLast(g, k, q)
      BY <2>2 DEF V!TurnsLeft
    <3>2. \A x \in l + 1 .. dep + 1 : x \in 1 .. dep + 1
      BY <2>3, <3>1
    <3> QED
      BY <2>3, <3>1, <3>2
  <2>5. c[l].idx \in Int /\ (nd.isLeaf <=> l = dep + 1) /\ SameNode(nd, g[c[l].node])
    BY <2>3, <2>4
  <2>6. q = Shift(Ascend(c, stops), -1)
    <3>1. /\ stops \in SUBSET (2 .. Len(c)) /\ l \in 1 .. Len(c)
          /\ l = 1 \/ l \in stops
      BY <2>3, <2>4
    <3>2. \A x \in l + 1 .. Len(c) : x \notin stops
      BY <2>3, <2>4
    <3> HIDE DEF stops, q
    <3> DEFINE e == -1
    <3>3. e \in Int /\ c[l].idx + e = c[l].idx - 1
      BY <2>5
    <3> HIDE DEF e
    <3>4. Shift(Ascend(c, stops), e) = V!Turned(c, l, c[l].idx + e)
      BY <2>3, <3>1, <3>2, <3>3, TurnIs
    <3> QED
      BY <3>3, <3>4 DEF q, e
  <2>7. currNode(h, q) = nd /\ entryIndex(q) = i
    <3>1. l \in 1 .. Len(c) /\ i \in Int
      BY <2>3, <2>4, <2>5
    <3> HIDE DEF i
    <3> QED
      BY <2>3, <3>1, TurnedStop
  <2>8. ASSUME ~nd.isLeaf
        PROVE  /\ i \in {-1} \cup InUse(nd) /\ Child(nd, i) = k
               /\ V!Complete(g, r, dep, moveToLast(h, k, q))
               /\ dep < 2 => moveToLast(h, k, q) = V!moveToLast(g, k, q)
    <3>1. firstpointer(nd) = -1 /\ numKeys(nd) \in Nat /\ Child(nd, i) = k
          /\ V!numKeys(g[c[l].node]) = numKeys(nd)
      BY <2>5, <2>8, NodeTwins DEF firstpointer
    <3>2. c[l].idx \in -1 .. numKeys(nd) - 1
      BY <2>3, <2>4, <2>5, <2>8
    <3>3. i \in {-1} \cup InUse(nd) /\ i \in V!Index(g[c[l].node])
      BY <2>4, <3>1, <3>2 DEF InUse, V!Index
    <3>4. l \in 1 .. dep /\ (dep < 2 => l = dep) /\ i \in Int /\ l \in 1 .. Len(c)
      BY <2>3, <2>4, <2>5, <2>8
    <3>5. V!LeadsTo(g, r, q, k)
      BY VA, V!TurnLeads, <2>1, <3>3, <3>4
    <3>6. Len(q) = l
      BY VA, V!TurnedIs, <2>3, <3>4
    <3> HIDE DEF nd, i, q, k
    <3>7. /\ V!Complete(g, r, dep, moveToLast(h, k, q))
          /\ Len(q) = dep => moveToLast(h, k, q) = V!moveToLast(g, k, q)
      BY <3>5, LastTwins
    <3> QED
      BY <3>1, <3>3, <3>4, <3>6, <3>7
  <2>9. nd.isLeaf => V!Complete(g, r, dep, q)
    <3>1. V!Complete(g, r, dep, V!moveToPrev(g, c))
      BY VA, V!MovesComplete, <2>1
    <3> QED
      BY <2>4, <2>5, <3>1
  <2>10. entryIndex(c) # 0 => nd.isLeaf
    <3>1. SUFFICES ASSUME ~nd.isLeaf PROVE entryIndex(c) = 0
      OBVIOUS
    <3>2. dep + 1 \in l + 1 .. dep + 1 /\ dep + 1 \in 1 .. dep + 1
      BY <2>3, <2>4, <2>5, <3>1
    <3>3. firstpointer(h[c[dep + 1].node]) = 0
      BY <2>3, <3>2 DEF firstpointer
    <3> QED
      BY <2>3, <2>4, <3>2, <3>3
  <2>11. moveToPrev(h, c) =
           CASE nd.isLeaf -> q
             [] ~nd.isLeaf /\ i \in {-1} \cup InUse(nd) -> moveToLast(h, Child(nd, i), q)
             [] OTHER -> Lost
    <3> HIDE DEF nd, i, q
    <3> QED
      BY <1>2, <2>6, <2>7 DEF moveToPrev
  <2> HIDE DEF nd, i, q, k
  <2>12. moveToPrev(h, c) = IF nd.isLeaf THEN q ELSE moveToLast(h, k, q)
    BY <2>8, <2>11
  <2> QED
    BY <2>4, <2>5, <2>8, <2>9, <2>10, <2>12
<1> QED
  BY <1>1, <1>2

\* The steps of the operations.
LEMMA StepTwins ==
  ASSUME NEW h, NEW g, NEW r, NEW dep, NEW lev, NEW rng, Twin(h, g, r, dep, lev, rng),
         NEW c, V!Complete(g, r, dep, c)
  PROVE  /\ Settle(h, c) = V!Settle(g, c) /\ V!Complete(g, r, dep, V!Settle(g, c))
         /\ AfterNext(h, c) = V!AfterNext(g, c) /\ V!Complete(g, r, dep, V!AfterNext(g, c))
         /\ V!Complete(g, r, dep, AfterPrev(h, c))
         /\ dep < 2 => AfterPrev(h, c) = V!AfterPrev(g, c)
<1>1. V!Tree(g, r, dep, lev, rng, NULL)
  BY DEF Twin
<1>2. V!Complete(g, r, dep, V!Settle(g, c)) /\ V!Complete(g, r, dep, V!AfterNext(g, c))
  BY VA, V!AfterComplete, <1>1
<1>3. moveToNext(h, c) = V!moveToNext(g, c)
  BY NextTwins
<1>4. /\ numKeys(currNode(h, c)) = V!numKeys(V!currNode(g, c))
      /\ entryIndex(c) = V!entryIndex(c)
  BY StopTwins
<1>5. Settle(h, c) = V!Settle(g, c)
  BY <1>3, <1>4 DEF Settle, V!Settle
<1>6. \A d : V!Complete(g, r, dep, d) => d # Lost
  BY StopTwins DEF Lost
<1>7. AfterNext(h, c) = V!AfterNext(g, c)
  <2>1. moveToNext(h, V!Settle(g, c)) = V!moveToNext(g, V!Settle(g, c))
    BY <1>2, NextTwins
  <2> QED
    BY <1>2, <1>5, <1>6, <2>1 DEF AfterNext, V!AfterNext
<1> DEFINE d == IF entryIndex(c) = 0 THEN moveToPrev(h, c) ELSE c
<1>8. /\ V!Complete(g, r, dep, d)
      /\ dep < 2 => d = IF V!entryIndex(c) = 0 THEN V!moveToPrev(g, c) ELSE c
  BY <1>4, PrevTwins
<1> HIDE DEF d
<1>9. AfterPrev(h, c) = moveToPrev(h, d)
  BY <1>6, <1>8 DEF AfterPrev, d
<1>10. /\ V!Complete(g, r, dep, moveToPrev(h, d))
       /\ dep < 2 => moveToPrev(h, d) = V!moveToPrev(g, d)
  BY <1>8, PrevTwins
<1>11. dep < 2 => AfterPrev(h, c) = V!AfterPrev(g, c)
  BY <1>8, <1>9, <1>10 DEF V!AfterPrev
<1> QED
  BY <1>2, <1>5, <1>7, <1>9, <1>10, <1>11

\* Is the key below a node that is not the root?  The two ask in other words.
JudgedAbove(n, key) ==
  IF n.isLeaf
  THEN \/ KeyAt(n, 0) <= key /\ key <= KeyAt(n, numKeys(n) - 1)
       \/ KeyAt(n, 0) <= key /\ n.LastLeaf
       \/ key <= KeyAt(n, numKeys(n) - 1) /\ n.FirstLeaf
  ELSE isNodeParent(n, key)

LEMMA ParentTwins ==
  ASSUME NEW x, NEW y, SameNode(x, y), V!Ascending(y), numKeys(x) >= 1, NEW key \in Key
  PROVE  JudgedAbove(x, key) <=> V!isNodeParent(y, key)
<1> DEFINE z == numKeys(x) - 1
<1>1. /\ V!numKeys(y) = numKeys(x) /\ numKeys(x) \in Nat
      /\ \A i : V!KeyAt(y, i) = KeyAt(x, i)
      /\ \A i \in InUse(x) : KeyAt(x, i) = x.entries[i + 1].key /\ KeyAt(x, i) \in Nat
  BY NodeTwins
<1>2. /\ x.isLeaf \in BOOLEAN /\ y.isLeaf = x.isLeaf /\ x.FirstLeaf \in BOOLEAN
      /\ x.LastLeaf \in BOOLEAN /\ y.First \in BOOLEAN /\ y.Last \in BOOLEAN
      /\ (x.FirstLeaf <=> x.isLeaf /\ y.First) /\ (x.LastLeaf <=> x.isLeaf /\ y.Last)
      /\ y.entries = x.entries
  BY DEF SameNode, BtNodes, V!BtNode
<1>3. key \in Nat
  BY KeysAssumption
<1>4. 0 \in InUse(x) /\ z \in InUse(x)
  BY <1>1 DEF InUse
<1>5. KeyAt(x, 0) \in Nat /\ KeyAt(x, z) \in Nat /\ KeyAt(x, 0) <= KeyAt(x, z)
  <2>1. CASE z = 0
    BY <1>1, <1>4, <2>1
  <2>2. CASE z # 0
    <3>1. 1 \in 1 .. V!numKeys(y) /\ z + 1 \in 1 .. V!numKeys(y) /\ 1 < z + 1
      BY <1>1, <2>2
    <3>2. y.entries[1].key < y.entries[z + 1].key
      BY <3>1 DEF V!Ascending
    <3>3. KeyAt(x, 0) = x.entries[1].key /\ KeyAt(x, z) = x.entries[z + 1].key
      BY DEF KeyAt
    <3> HIDE DEF z
    <3> QED
      BY <1>1, <1>2, <1>4, <3>2, <3>3
  <2> QED
    BY <2>1, <2>2
<1>6. CASE x.isLeaf
  <2>1. V!isNodeParent(y, key) <=> /\ key >= KeyAt(x, 0) \/ y.First
                                   /\ key <= KeyAt(x, z) \/ y.Last
    BY <1>1, <1>2, <1>6 DEF V!isNodeParent
  <2>2. JudgedAbove(x, key) <=> \/ KeyAt(x, 0) <= key /\ key <= KeyAt(x, z)
                                \/ KeyAt(x, 0) <= key /\ x.LastLeaf
                                \/ key <= KeyAt(x, z) /\ x.FirstLeaf
    BY <1>6 DEF JudgedAbove
  <2> HIDE DEF z
  <2>3. (key >= KeyAt(x, 0) <=> KeyAt(x, 0) <= key) /\ (KeyAt(x, 0) <= key \/ key <= KeyAt(x, z))
    BY <1>3, <1>5
  <2> QED
    BY <1>2, <1>6, <2>1, <2>2, <2>3
<1>7. CASE ~x.isLeaf
  <2>1. findChildIndex(x, key) = V!findChildIndex(y, key)
    BY ChildTwins
  <2> QED
    BY <1>1, <1>2, <1>7, <2>1 DEF JudgedAbove, V!isNodeParent, isNodeParent
<1> QED
  BY <1>6, <1>7

LEMMA GoToTwins ==
  ASSUME NEW h, NEW g, NEW r, NEW dep, NEW lev, NEW rng, Twin(h, g, r, dep, lev, rng),
         NEW c, V!Complete(g, r, dep, c), NEW key \in Key
  PROVE  /\ goToKey(h, c, key) = V!goToKey(g, c, key)
         /\ V!SearchPath(g, r, dep, rng, V!goToKey(g, c, key), key)
<1>1. V!Tree(g, r, dep, lev, rng, NULL)
  BY DEF Twin
<1>2. V!SearchPath(g, r, dep, rng, V!goToKey(g, c, key), key)
  BY VA, V!GoToKeyIs, <1>1
<1>3. /\ dep \in Nat /\ Len(c) = dep + 1 /\ c[1].node = r
      /\ \A l \in 1 .. dep + 1 : c[l].node \in Used(h) /\ SameNode(h[c[l].node], g[c[l].node])
  BY StopTwins
<1>4. \A x, y \in 1 .. dep + 1 : x # y => c[x].node # c[y].node
  BY VA, V!NoRepeat, <1>1
<1>5. ASSUME NEW l \in 2 .. Len(c)
      PROVE  JudgedAbove(h[c[l].node], key) <=> V!isNodeParent(g[c[l].node], key)
  <2>1. l \in 1 .. dep + 1 /\ 1 \in 1 .. dep + 1 /\ l # 1
    BY <1>3
  <2>2. c[l].node \in Used(h) /\ SameNode(h[c[l].node], g[c[l].node]) /\ c[l].node # r
    BY <1>3, <1>4, <2>1
  <2>3. V!Ascending(g[c[l].node]) /\ numKeys(h[c[l].node]) >= 1
    BY <2>2, TreeNodes
  <2> QED
    BY <2>2, <2>3, ParentTwins
<1> DEFINE S == {l \in 2 .. Len(c) : JudgedAbove(h[c[l].node], key)}
           T == {l \in 2 .. Len(c) : V!isNodeParent(g[c[l].node], key)}
           a == Ascend(c, S)
<1>6. S = T
  BY <1>5
<1>7. AscendToParent(h, c, key) = a
  BY DEF AscendToParent, JudgedAbove
<1>8. V!AscendToParent(g, c, key) = V!Ascend(c, T)
  BY DEF V!AscendToParent
<1> HIDE DEF S, T
<1>9. V!Ascend(c, T) = a
  BY <1>6, SameLibrary DEF Ascend, V!Ascend
<1> HIDE DEF a
<1>10. /\ V!Last(a) = Last(a) /\ V!Front(a) = Front(a)
       /\ moveToKey(h, Last(a).node, key, Front(a)) = V!moveToKey(g, Last(a).node, key, Front(a))
  <2>1. V!Last(a) = Last(a) /\ V!Front(a) = Front(a)
    BY SameLibrary
  <2> DEFINE n == Last(a).node
             above == Front(a)
  <2> HIDE DEF n, above
  <2>2. \A k \in Key : moveToKey(h, n, k, above) = V!moveToKey(g, n, k, above)
    BY MoveTwins
  <2>3. moveToKey(h, n, key, above) = V!moveToKey(g, n, key, above)
    BY <2>2
  <2> QED
    BY <2>1, <2>3 DEF n, above
<1>11. goToKey(h, c, key) = moveToKey(h, Last(a).node, key, Front(a))
  BY <1>7 DEF goToKey
<1>12. V!goToKey(g, c, key) = V!moveToKey(g, V!Last(a).node, key, V!Front(a))
  BY <1>8, <1>9 DEF V!goToKey
<1> QED
  BY <1>2, <1>10, <1>11, <1>12

-----------------------------------------------------------------------------
(* Twins: an insertion and a split.                                        *)

LEMMA NodeTwin ==
  ASSUME NEW x \in BtNodes, NEW y \in V!BtNode, y.isLeaf = x.isLeaf, y.ptr0 = x.ptr0,
         y.entries = x.entries, x.FirstLeaf <=> x.isLeaf /\ y.First,
         x.LastLeaf <=> x.isLeaf /\ y.Last
  PROVE  SameNode(x, y)
BY DEF SameNode

\* The node with all its entries and that to be put.
\* Node v has the entries of node x and e.
WithEntry(x, v, e) ==
  /\ allEntries(x, e) = v.entries /\ v.isLeaf = x.isLeaf /\ v.ptr0 = x.ptr0
  /\ x.FirstLeaf <=> x.isLeaf /\ v.First
  /\ x.LastLeaf <=> x.isLeaf /\ v.Last

LEMMA AllTwins ==
  ASSUME NEW x, NEW y, SameNode(x, y), V!Ascending(y), NEW e, e.key \in Key
  PROVE  WithEntry(x, V!Put(y, e), e)
<1>1. V!findRecordIndex(y, e.key) = findRecordIndex(x, e.key)
  BY RecordTwins
<1>2. /\ x \in BtNodes /\ y \in V!BtNode
      /\ y.isLeaf = x.isLeaf /\ y.ptr0 = x.ptr0 /\ y.entries = x.entries
      /\ x.FirstLeaf <=> x.isLeaf /\ y.First
      /\ x.LastLeaf <=> x.isLeaf /\ y.Last
  BY DEF SameNode
<1> DEFINE all == InsertAt(x.entries, findRecordIndex(x, e.key) + 1, e)
<1>3. V!Put(y, e) = [y EXCEPT !.entries = all]
  BY <1>1, <1>2, SameLibrary DEF V!Put
<1>4. allEntries(x, e) = all
  BY DEF allEntries
<1> HIDE DEF all
<1>6. /\ V!Put(y, e).entries = all /\ V!Put(y, e).isLeaf = y.isLeaf
      /\ V!Put(y, e).ptr0 = y.ptr0 /\ V!Put(y, e).First = y.First /\ V!Put(y, e).Last = y.Last
  BY <1>2, <1>3 DEF V!BtNode
<1> QED
  BY <1>2, <1>4, <1>6 DEF WithEntry

LEMMA InsertTwins ==
  ASSUME NEW x, NEW y, SameNode(x, y), V!Ascending(y), NEW e, e.key \in Key,
         V!Put(y, e) \in V!BtNode
  PROVE  SameNode(insertEntry(x, findRecordIndex(x, e.key), e), V!Put(y, e))
<1> DEFINE v == V!Put(y, e)
           w == insertEntry(x, findRecordIndex(x, e.key), e)
<1>1. /\ w = [x EXCEPT !.entries = v.entries] /\ v.isLeaf = x.isLeaf /\ v.ptr0 = x.ptr0
      /\ x.FirstLeaf <=> x.isLeaf /\ v.First
      /\ x.LastLeaf <=> x.isLeaf /\ v.Last
      /\ x \in BtNodes /\ v \in V!BtNode
  <2>1. x \in BtNodes
    BY DEF SameNode
  <2>2. WithEntry(x, v, e)
    BY AllTwins
  <2>3. w = [x EXCEPT !.entries = allEntries(x, e)]
    BY DEF insertEntry, allEntries
  <2>4. v \in V!BtNode
    OBVIOUS
  <2> HIDE DEF v, w
  <2> QED
    BY <2>1, <2>2, <2>3, <2>4 DEF WithEntry
<1>2. v.entries \in Seq(Entry)
  <2>1. \A n \in V!BtNode : n.entries \in Seq(Entry)
    BY DEF V!BtNode, V!Entry, Entry
  <2> QED
    BY <1>1, <2>1
<1> HIDE DEF v, w
<1>3. w \in BtNodes
  BY <1>1, <1>2 DEF BtNodes
<1>4. /\ w.isLeaf = x.isLeaf /\ w.ptr0 = x.ptr0 /\ w.entries = v.entries
      /\ w.FirstLeaf = x.FirstLeaf /\ w.LastLeaf = x.LastLeaf
  BY <1>1 DEF BtNodes
<1> QED
  BY <1>1, <1>3, <1>4, NodeTwin DEF v, w

LEMMA HalfTwins ==
  ASSUME NEW x, NEW y, SameNode(x, y), V!Ascending(y), NEW e, e.key \in Key,
         V!Overfull(V!Put(y, e))
  PROVE  /\ SameNode(splitLeft(x, e), V!LeftHalf(V!Put(y, e)))
         /\ SameNode(splitRight(x, e), V!RightHalf(V!Put(y, e)))
         /\ \A q : splitUp(x, e, q) = [key |-> V!Sep(V!Put(y, e)), ptr |-> q]
<1> DEFINE v == V!Put(y, e)
           all == allEntries(x, e)
           a == splitLeft(x, e)
           b == splitRight(x, e)
           left == V!LeftHalf(v)
           right == V!RightHalf(v)
<1>1. /\ all = v.entries /\ v.isLeaf = x.isLeaf /\ v.ptr0 = x.ptr0
      /\ x.FirstLeaf <=> x.isLeaf /\ v.First
      /\ x.LastLeaf <=> x.isLeaf /\ v.Last
      /\ x \in BtNodes
  <2>1. x \in BtNodes
    BY DEF SameNode
  <2>2. WithEntry(x, v, e)
    BY AllTwins
  <2> HIDE DEF v
  <2> QED
    BY <2>1, <2>2 DEF WithEntry
<1>2. /\ v \in V!BtNode /\ V!numKeys(v) = FANOUT + 1 /\ Len(v.entries) = FANOUT + 1
      /\ v.entries \in Seq(Entry) /\ v.isLeaf \in BOOLEAN
      /\ ~v.isLeaf => v.entries[middle + 1].ptr \in Node
  BY DEF V!Overfull, V!numKeys, V!BtNode, V!Entry, Entry
<1>3. /\ middle \in 1 .. FANOUT /\ V!Skip(v) \in 1 .. FANOUT
      /\ left \in V!BtNode /\ left.isLeaf = v.isLeaf /\ left.First = v.First
      /\ left.Last = FALSE /\ left.ptr0 = v.ptr0
      /\ right \in V!BtNode /\ right.isLeaf = v.isLeaf
      /\ right.First = FALSE /\ right.Last = v.Last
      /\ ~v.isLeaf => right.ptr0 = v.entries[middle + 1].ptr
      /\ V!numKeys(right) = FANOUT + 1 - V!Skip(v)
      /\ \A i \in 1 .. FANOUT + 1 - V!Skip(v) : right.entries[i] = v.entries[i + V!Skip(v)]
  BY VA, V!HalfFacts
<1>4. left.entries = SubSeq(v.entries, 1, middle) /\ left.entries \in Seq(Entry)
  <2>1. left.entries = SubSeq(v.entries, 1, middle)
    BY <1>2 DEF V!LeftHalf, V!BtNode
  <2>2. left.entries \in Seq(Entry)
    BY <1>3 DEF V!BtNode, V!Entry, Entry
  <2> QED
    BY <2>1, <2>2
<1>5. right.entries \in Seq(Entry) /\ Len(right.entries) = FANOUT + 1 - V!Skip(v)
      /\ right.ptr0 \in Node \cup {NULL} /\ (v.isLeaf => right.ptr0 = NULL)
  <2>1. right.entries \in Seq(Entry) /\ Len(right.entries) = FANOUT + 1 - V!Skip(v)
        /\ right.ptr0 \in Node \cup {NULL}
    BY <1>3 DEF V!BtNode, V!Entry, Entry, V!numKeys
  <2>2. v.isLeaf => right.ptr0 = NULL
    BY DEF V!RightHalf, V!createNewNode
  <2> QED
    BY <2>1, <2>2
<1>6. \A q : splitUp(x, e, q) = [key |-> V!Sep(v), ptr |-> q]
  BY <1>1 DEF splitUp, V!Sep
<1>7. a = [x EXCEPT !.LastLeaf = FALSE, !.entries = left.entries]
  BY <1>1, <1>4 DEF splitLeft
<1> DEFINE from == IF x.isLeaf THEN middle + 1 ELSE middle + 2
           rest == SubSeq(all, from, FANOUT + 1)
<1>8. b = [isLeaf |-> x.isLeaf, FirstLeaf |-> FALSE, LastLeaf |-> x.LastLeaf,
           ptr0 |-> right.ptr0, entries |-> rest]
  <2> DEFINE p0 == IF x.isLeaf THEN NULL ELSE all[middle + 1].ptr
  <2>1. p0 = right.ptr0
    BY <1>1, <1>3, <1>5
  <2>2. b = [createNewNode(x.isLeaf, FALSE, x.LastLeaf) EXCEPT !.ptr0 = p0, !.entries = rest]
    BY DEF splitRight
  <2> HIDE DEF p0, b, rest, right
  <2> QED
    BY <2>1, <2>2 DEF createNewNode
<1>9. rest = right.entries
  <2> DEFINE z == V!Skip(v)
             t == FANOUT + 1
             s == v.entries
  <2>1. from = z + 1 /\ z \in 1 .. FANOUT /\ from \in Int /\ t \in Int /\ t - from + 1 = t - z
        /\ from <= t /\ \A i \in Int : from + i - 1 = i + z
    BY <1>1, <1>3, FanoutAssumption DEF V!Skip
  <2>2. rest = SubSeq(s, from, t) /\ s \in Seq(Entry) /\ Len(s) = t
    BY <1>1, <1>2
  <2>0. t - z = FANOUT + 1 - z
    BY <2>1, FanoutAssumption
  <2>3. \A i \in 1 .. t - z : right.entries[i] = s[i + z]
    BY <1>3, <2>0
  <2>4. right.entries \in Seq(Entry) /\ Len(right.entries) = t - z
    BY <1>5, <2>0
  <2> HIDE DEF z, t, s, from, rest, right
  <2>5. \A i \in from .. t : s[i] \in Entry
    <3>1. \A i \in from .. t : i \in 1 .. Len(s)
      BY <2>1, <2>2, FanoutAssumption
    <3> QED
      BY <2>2, <3>1, ElementOfSeq
  <2>6. /\ SubSeq(s, from, t) \in Seq(Entry)
        /\ Len(SubSeq(s, from, t)) = IF from <= t THEN t - from + 1 ELSE 0
        /\ \A i \in 1 .. t - from + 1 : SubSeq(s, from, t)[i] = s[from + i - 1]
    BY <2>1, <2>5, SubSeqProperties
  <2>7. \A i \in 1 .. t - z : rest[i] = right.entries[i]
    BY <2>1, <2>2, <2>3, <2>6
  <2>8. rest \in Seq(Entry) /\ Len(rest) = t - z
    BY <2>1, <2>2, <2>6
  <2> QED
    BY <2>4, <2>7, <2>8, SeqEqual
<1> HIDE DEF v, all, a, b, left, right, rest, from
<1>10. SameNode(a, left)
  <2>1. a \in BtNodes
    BY <1>1, <1>4, <1>7 DEF BtNodes
  <2>2. /\ a.isLeaf = x.isLeaf /\ a.ptr0 = x.ptr0 /\ a.entries = left.entries
        /\ a.FirstLeaf = x.FirstLeaf /\ a.LastLeaf = FALSE
    BY <1>1, <1>7 DEF BtNodes
  <2> QED
    BY <1>1, <1>3, <2>1, <2>2, NodeTwin
<1>11. SameNode(b, right)
  <2>1. x.isLeaf \in BOOLEAN /\ x.LastLeaf \in BOOLEAN
    BY <1>1 DEF BtNodes
  <2>2. b \in BtNodes
    BY <1>5, <1>8, <1>9, <2>1 DEF BtNodes
  <2>3. /\ b.isLeaf = x.isLeaf /\ b.ptr0 = right.ptr0 /\ b.entries = right.entries
        /\ b.FirstLeaf = FALSE /\ b.LastLeaf = x.LastLeaf
    BY <1>8, <1>9
  <2> QED
    BY <1>1, <1>3, <2>2, <2>3, NodeTwin
<1> QED
  BY <1>6, <1>10, <1>11 DEF v, a, b, left, right

LEMMA SameChanged ==
  ASSUME NEW h, NEW g, Same(h, g), NEW n \in Node, NEW x, NEW y, SameNode(x, y)
  PROVE  Same([h EXCEPT ![n] = x], [g EXCEPT ![n] = y])
<1>1. x \in BtNodes /\ y \in V!BtNode /\ x # NULL
  BY NullAssumption DEF SameNode
<1>2. /\ h \in [Node -> BtNodes \cup {NULL}] /\ g \in [Node -> V!BtNode \cup {NULL}]
      /\ \A m \in Node : IF h[m] = NULL THEN g[m] = NULL ELSE SameNode(h[m], g[m])
  BY DEF Same
<1> DEFINE a == [h EXCEPT ![n] = x]
           b == [g EXCEPT ![n] = y]
<1>3. a \in [Node -> BtNodes \cup {NULL}] /\ b \in [Node -> V!BtNode \cup {NULL}]
  BY <1>1, <1>2
<1>4. \A m \in Node : /\ a[m] = IF m = n THEN x ELSE h[m]
                      /\ b[m] = IF m = n THEN y ELSE g[m]
  BY <1>2
<1> HIDE DEF a, b
<1>5. \A m \in Node : IF a[m] = NULL THEN b[m] = NULL ELSE SameNode(a[m], b[m])
  BY <1>1, <1>2, <1>4
<1> QED
  BY <1>3, <1>5 DEF Same, a, b

-----------------------------------------------------------------------------
(* Twins: the recursion of putEntry(), a function as that of the verified. *)

PutOne(t) ==
  LET a == Last(t.path).node
      new == Fresh(t.heap)
  IN  [heap |-> Split(t.heap, a, t.e, new), path |-> Front(t.path),
       e |-> splitUp(t.heap[a], t.e, new)]

PutStates(h, p, e, state) ==
  /\ state[0] = [heap |-> h, path |-> p, e |-> e]
  /\ \A i \in Nat : state[i + 1] = PutOne(state[i])
  /\ Splits(h, p, e) = state[Len(p) - Level(h, p, e)]

LEMMA PutsStep ==
  ASSUME NEW h, NEW p, NEW e
  PROVE  \E state : PutStates(h, p, e, state)
<1> DEFINE z == [heap |-> h, path |-> p, e |-> e]
           Go(t) == PutOne(t)
           UpTo(g, m) == g[0] = z /\ \A i \in 0 .. m : i # 0 => g[i] = Go(g[i - 1])
           Is(f) == f = [i \in Nat |-> IF i = 0 THEN z ELSE Go(f[i - 1])]
<1>1. Splits(h, p, e) = (CHOOSE f : Is(f))[Len(p) - Level(h, p, e)]
  BY DEF Splits, PutOne
<1> HIDE DEF Go, z
<1>2. ASSUME NEW l \in Nat, NEW m \in Nat, l <= m, NEW g, NEW k, UpTo(g, l), UpTo(k, m)
      PROVE  g[l] = k[l]
  <2> DEFINE T == {i \in 0 .. l : g[i] # k[i]}
  <2>1. SUFFICES ASSUME T # {} PROVE FALSE
    OBVIOUS
  <2>2. T \in SUBSET Nat
    OBVIOUS
  <2>3. PICK j \in T : \A i \in T : j <= i
    BY VA, <2>1, <2>2, V!LeastNat
  <2>4. j \in Nat /\ j # 0 /\ j <= l /\ j <= m
    BY <1>2, <2>3
  <2>5. j - 1 \in 0 .. l /\ j - 1 \notin T
    BY <2>3, <2>4
  <2> QED
    BY <1>2, <2>3, <2>4, <2>5
<1>3. \A m \in Nat : \E g : UpTo(g, m)
  <2> DEFINE T == {m \in Nat : ~\E g : UpTo(g, m)}
  <2>1. SUFFICES ASSUME T # {} PROVE FALSE
    OBVIOUS
  <2>2. PICK m \in T : \A i \in T : m <= i
    BY VA, <2>1, V!LeastNat
  <2>3. m # 0
    <3>1. UpTo([i \in {0} |-> z], 0)
      OBVIOUS
    <3> QED
      BY <2>2, <3>1
  <2>4. m \in Nat /\ m - 1 \in Nat /\ m - 1 \notin T
    BY <2>2, <2>3
  <2>5. PICK g : UpTo(g, m - 1)
    BY <2>4
  <2> DEFINE k == [i \in 0 .. m |-> IF i = m THEN Go(g[m - 1]) ELSE g[i]]
  <2>6. UpTo(k, m)
    <3>1. k[0] = z
      BY <2>3, <2>4, <2>5
    <3>2. ASSUME NEW i \in 0 .. m, i # 0
          PROVE  k[i] = Go(k[i - 1])
      <4>1. i - 1 \in 0 .. m /\ i - 1 # m /\ k[i - 1] = g[i - 1]
        BY <2>4, <3>2
      <4>2. CASE i = m
        BY <4>1, <4>2
      <4>3. CASE i # m
        <5>1. i \in 0 .. m - 1 /\ k[i] = g[i]
          BY <2>4, <4>3
        <5> QED
          BY <2>5, <3>2, <4>1, <5>1
      <4> QED
        BY <4>2, <4>3
    <3> QED
      BY <3>1, <3>2
  <2> QED
    BY <2>2, <2>6
<1> DEFINE G(m) == CHOOSE g : UpTo(g, m)
           f == [d \in Nat |-> G(d)[d]]
<1>4. \A m \in Nat : UpTo(G(m), m)
  BY <1>3
<1> HIDE DEF G
<1>5. f[0] = z
  BY <1>4
<1>6. ASSUME NEW d \in Nat, d # 0 PROVE f[d] = Go(f[d - 1])
  <2>1. d - 1 \in Nat /\ d \in 0 .. d /\ d - 1 <= d
    BY <1>6
  <2>2. G(d)[d] = Go(G(d)[d - 1])
    BY <1>4, <1>6, <2>1
  <2>3. UpTo(G(d), d) /\ UpTo(G(d - 1), d - 1)
    BY <1>4, <2>1
  <2>4. G(d - 1)[d - 1] = G(d)[d - 1]
    BY <1>2, <2>1, <2>3
  <2> QED
    BY <2>1, <2>2, <2>4
<1>7. Is(f)
  BY <1>5, <1>6
<1> HIDE DEF f
<1> DEFINE state == CHOOSE f1 : Is(f1)
<1>8. Is(state)
  BY <1>7
<1> HIDE DEF state, Is
<1>9. \A i \in Nat : state[i] = IF i = 0 THEN z ELSE Go(state[i - 1])
  <2> DEFINE g == state
  <2>1. g = [i \in Nat |-> IF i = 0 THEN z ELSE Go(g[i - 1])]
    BY <1>8 DEF Is
  <2> HIDE DEF g
  <2>2. \A i \in Nat : g[i] = IF i = 0 THEN z ELSE Go(g[i - 1])
    BY <2>1
  <2> QED
    BY <2>2 DEF g
<1>10. \A i \in Nat : i + 1 \in Nat /\ i + 1 # 0 /\ i + 1 - 1 = i
  OBVIOUS
<1>11. state[0] = z /\ \A i \in Nat : state[i + 1] = Go(state[i])
  BY <1>9, <1>10
<1>12. Splits(h, p, e) = state[Len(p) - Level(h, p, e)]
  BY <1>1 DEF state
<1>13. PutStates(h, p, e, state)
  BY <1>11, <1>12 DEF PutStates, Go, z
<1> QED
  BY <1>13

SameState(t, u) == Same(t.heap, u.heap) /\ t.path = u.cursor /\ t.e = u.e

LEMMA SplitTwins ==
  ASSUME NEW g, NEW r, NEW dep, NEW lev0, NEW rng0, V!Tree(g, r, dep, lev0, rng0, NULL),
         NEW c, V!Complete(g, r, dep, c), NEW e,
         NEW l \in 1 .. dep + 1, V!numKeys(g[c[l].node]) = FANOUT,
         NEW u, NEW lev, NEW rng, V!Pending(g, r, dep, c, e, u, l, lev, rng),
         NEW t, SameState(t, u)
  PROVE  SameState(PutOne(t), V!SplitOne(u))
<1> DEFINE n == c[l].node
           W == V!Filled(u.heap, n, u.e)
           q == V!Fresh(u.heap)
           x == t.heap[n]
           split == V!splitnode(u.heap, n, u.e, q)
<1>1. /\ n \in V!Used(W) /\ n \in V!Used(g) /\ W[n] = V!Put(g[n], u.e) /\ W[n] \in V!BtNode
      /\ V!numKeys(W[n]) = FANOUT + 1 /\ u.heap[n] = g[n]
      /\ V!Last(u.cursor) = c[l] /\ u.cursor # <<>>
      /\ u.heap \in [Node -> V!BtNode \cup {NULL}]
  <2>1. V!PathAbove(g, r, c, u, l, n, W)
    BY VA, V!PendingPath
  <2> QED
    BY <2>1 DEF V!PathAbove
<1>2. /\ V!Tree(W, r, dep, lev, rng, n) /\ u.e \in V!Entry /\ n \in V!Used(u.heap)
      /\ V!FreeFor(u.heap, l + 1)
  BY DEF V!Pending, V!Whole, V!FitsAt, V!Reaches
<1>3. V!Ascending(g[n]) /\ u.e.key \in Key
  BY <1>1, <1>2 DEF V!Tree, V!Nodes, V!NodeOK, V!Entry
<1>4. q \in Node /\ q \notin V!Used(u.heap)
  <2>1. l \in Nat
    BY VA, V!CompleteFacts
  <2> HIDE DEF W
  <2> QED
    BY VA, V!FreshIs, <1>2, <2>1
<1>5. V!Overfull(W[n])
  <2>1. ASSUME ~W[n].isLeaf PROVE W[n].entries[middle + 1].ptr \in Node
    <3>1. n \in V!Inner(W) /\ middle \in V!Index(W[n])
      <4>1. middle \in 0 .. FANOUT
        BY FanoutAssumption DEF middle
      <4> QED
        BY <1>1, <2>1, <4>1, FanoutAssumption DEF V!Inner, V!Index
    <3>2. V!Child(W[n], middle) \in V!Used(W)
      BY <1>2, <3>1 DEF V!Tree, V!Kids, V!KidOK
    <3>3. V!Child(W[n], middle) = W[n].entries[middle + 1].ptr
      BY FanoutAssumption DEF V!Child, middle
    <3> QED
      BY <3>2, <3>3 DEF V!Used
  <2> QED
    BY <1>1, <2>1 DEF V!Overfull
<1> HIDE DEF W
<1>6. /\ split.heap = V!Halved(u.heap, W, n, q) /\ split.up = V!UpEntry(W, n, q)
  <2>1. V!Overfull(V!Put(u.heap[n], u.e))
    BY <1>1, <1>5
  <2> QED
    BY VA, V!SplitnodeIs, <1>1, <1>2, <1>4, <2>1 DEF W
<1>7. Same(t.heap, u.heap) /\ t.path = u.cursor /\ t.e = u.e
  BY DEF SameState
<1>8. SameNode(x, g[n]) /\ Fresh(t.heap) = q /\ n \in Node
  BY <1>1, <1>2, <1>7, TwinNodes
<1>9. /\ SameNode(splitLeft(x, t.e), V!LeftHalf(W[n]))
      /\ SameNode(splitRight(x, t.e), V!RightHalf(W[n]))
      /\ splitUp(x, t.e, q) = [key |-> V!Sep(W[n]), ptr |-> q]
  BY <1>1, <1>3, <1>5, <1>7, <1>8, HalfTwins
<1>10. Last(t.path).node = n /\ V!Last(u.cursor).node = n /\ Front(t.path) = V!Front(u.cursor)
  BY <1>1, <1>7, SameLibrary
<1> HIDE DEF n, q, x
<1>11. /\ PutOne(t).heap = [t.heap EXCEPT ![n] = splitLeft(x, t.e), ![q] = splitRight(x, t.e)]
       /\ PutOne(t).path = Front(t.path) /\ PutOne(t).e = splitUp(x, t.e, q)
  BY <1>8, <1>10 DEF PutOne, Split, x
<1>12. /\ V!SplitOne(u).heap = [u.heap EXCEPT ![n] = V!LeftHalf(W[n]), ![q] = V!RightHalf(W[n])]
       /\ V!SplitOne(u).cursor = V!Front(u.cursor)
       /\ V!SplitOne(u).e = [key |-> V!Sep(W[n]), ptr |-> q]
  BY <1>6, <1>10 DEF V!SplitOne, V!Halved, V!UpEntry, q
<1>13. Same([t.heap EXCEPT ![n] = splitLeft(x, t.e)], [u.heap EXCEPT ![n] = V!LeftHalf(W[n])])
  BY <1>7, <1>8, <1>9, SameChanged
<1>14. Same([[t.heap EXCEPT ![n] = splitLeft(x, t.e)] EXCEPT ![q] = splitRight(x, t.e)],
            [[u.heap EXCEPT ![n] = V!LeftHalf(W[n])] EXCEPT ![q] = V!RightHalf(W[n])])
  BY <1>4, <1>9, <1>13, SameChanged
<1>15. Same(PutOne(t).heap, V!SplitOne(u).heap)
  BY <1>11, <1>12, <1>14
<1> QED
  BY <1>9, <1>10, <1>11, <1>12, <1>15 DEF SameState

LEMMA LevelTwins ==
  ASSUME NEW h, NEW g, NEW r, NEW dep, NEW lev, NEW rng, Twin(h, g, r, dep, lev, rng),
         NEW c, V!Complete(g, r, dep, c), NEW e
  PROVE  /\ Found(h, c, e) <=> V!Found(g, c, e)
         /\ Level(h, c, e) = V!Level(g, c, e)
<1>1. /\ dep \in Nat /\ Len(c) = dep + 1
      /\ \A l \in 1 .. dep + 1 : SameNode(h[c[l].node], g[c[l].node])
      /\ c[dep + 1].idx \in 0 .. numKeys(h[c[dep + 1].node])
      /\ currNode(h, c) = h[c[dep + 1].node] /\ entryIndex(c) = c[dep + 1].idx
      /\ Last(c) = c[dep + 1]
  BY StopTwins
<1> DEFINE x == h[c[dep + 1].node]
           y == g[c[dep + 1].node]
           i == c[dep + 1].idx
<1>2. SameNode(x, y)
  BY <1>1
<1>3. V!numKeys(y) = numKeys(x) /\ V!KeyAt(y, i) = KeyAt(x, i) /\ numKeys(x) \in Nat
      /\ y.isLeaf = x.isLeaf
  <2>1. y.isLeaf = x.isLeaf
    BY <1>2 DEF SameNode
  <2> HIDE DEF x, y, i
  <2> QED
    BY <1>2, <2>1, NodeTwins
<1>4. V!currNode(g, c) = y /\ V!entryIndex(c) = i
  BY <1>1, SameLibrary DEF V!currNode, V!entryIndex
<1>5. Found(h, c, e) <=> V!Found(g, c, e)
  <2>1. i \in InUse(x) <=> i < numKeys(x)
    BY <1>1, <1>3 DEF InUse
  <2> QED
    BY <1>1, <1>3, <1>4, <2>1 DEF Found, V!Found
<1> DEFINE S == {l \in 1 .. Len(c) : numKeys(h[c[l].node]) < FANOUT}
           T == {l \in 1 .. Len(c) : V!numKeys(g[c[l].node]) < FANOUT}
<1>6. S = T
  <2>1. \A l \in 1 .. dep + 1 : V!numKeys(g[c[l].node]) = numKeys(h[c[l].node])
    BY <1>1, NodeTwins
  <2> QED
    BY <1>1, <2>1
<1>7. Level(h, c, e) = IF Found(h, c, e) THEN Len(c) ELSE Max({0} \cup S)
  BY DEF Level
<1>8. V!Level(g, c, e) = IF V!Found(g, c, e) THEN Len(c) ELSE V!Max({0} \cup T)
  BY DEF V!Level
<1> HIDE DEF S, T
<1> QED
  BY <1>5, <1>6, <1>7, <1>8, SameLibrary

\* As far as the splits go, the two are in the same state.
LEMMA StateTwins ==
  ASSUME NEW h, NEW g, NEW r, NEW dep, NEW lev, NEW rng, Twin(h, g, r, dep, lev, rng),
         NEW c, NEW e, V!CanPut(g, r, dep, lev, rng, c, e), ~V!Found(g, c, e),
         NEW state, V!SplitStates(g, c, e, state), NEW puts, PutStates(h, c, e, puts)
  PROVE  \A i \in 0 .. dep + 1 - V!Level(g, c, e) : SameState(puts[i], state[i])
<1> DEFINE N == V!Level(g, c, e)
           T == {i \in 0 .. dep + 1 - N : ~SameState(puts[i], state[i])}
<1>1. V!Tree(g, r, dep, lev, rng, NULL) /\ V!Complete(g, r, dep, c) /\ Same(h, g)
  <2>1. V!Tree(g, r, dep, lev, rng, NULL) /\ V!Complete(g, r, dep, c)
    BY DEF V!CanPut, V!SearchPath
  <2>2. Same(h, g)
    BY DEF Twin
  <2> QED
    BY <2>1, <2>2
<1>2. dep \in Nat /\ Len(c) = dep + 1
  BY <1>1, StopTwins
<1>3. N \in 0 .. dep + 1 /\ \A l \in N + 1 .. dep + 1 : V!numKeys(g[c[l].node]) = FANOUT
  BY VA, V!LevelIs
<1> HIDE DEF N
<1>4. SUFFICES ASSUME T # {} PROVE FALSE
  BY DEF N
<1>5. T \in SUBSET Nat
  BY <1>2, <1>3
<1>6. PICK j \in T : \A i \in T : j <= i
  <2> HIDE DEF T
  <2> QED
    BY VA, <1>4, <1>5, V!LeastNat
<1>7. j # 0
  <2>1. SameState(puts[0], state[0])
    BY <1>1 DEF PutStates, V!SplitStates, SameState
  <2> QED
    BY <1>6, <2>1
<1> DEFINE i == j - 1
<1>8. /\ i \in Nat /\ j = i + 1 /\ i \in 0 .. dep /\ i <= dep + 1 - N /\ i \notin T
      /\ i \in 0 .. dep + 1 - N /\ dep + 1 - i \in N + 1 .. dep + 1
      /\ dep + 1 - i \in 1 .. dep + 1
  BY <1>2, <1>3, <1>5, <1>6, <1>7
<1>9. SameState(puts[i], state[i])
  BY <1>8
<1> DEFINE l == dep + 1 - i
<1>10. PICK lv, rg : V!Pending(g, r, dep, c, e, state[i], l, lv, rg)
  <2>1. i \in 0 .. dep /\ i <= dep + 1 - V!Level(g, c, e)
    BY <1>8 DEF N
  <2> HIDE DEF i
  <2> QED
    BY VA, V!PendingAt, <2>1
<1>11. l \in 1 .. dep + 1 /\ V!numKeys(g[c[l].node]) = FANOUT
  BY <1>3, <1>8
<1> HIDE DEF l, i, T
<1>12. SameState(PutOne(puts[i]), V!SplitOne(state[i]))
  BY <1>1, <1>9, <1>10, <1>11, SplitTwins
<1>13. SameState(puts[i + 1], state[i + 1])
  BY <1>8, <1>12 DEF PutStates, V!SplitStates
<1> QED
  BY <1>6, <1>8, <1>13 DEF T

-----------------------------------------------------------------------------
(* Twins: putEntry().                                                      *)

PutState(h, r, dep, cnt, p) ==
  [heap |-> h, root |-> r, depth |-> dep, count |-> cnt, path |-> p]

\* State s of the one and state v of the other.
PutTwin(s, v) ==
  /\ Same(s.heap, v.heap) /\ s.root = v.root /\ s.depth = v.depth
  /\ s.count = v.count /\ s.path = v.cursor

LEMMA RecordChanged ==
  ASSUME NEW x, NEW y, SameNode(x, y), NEW i \in InUse(x), NEW r \in Record
  PROVE  SameNode([x EXCEPT !.entries[i + 1].ptr = r], [y EXCEPT !.entries[i + 1].ptr = r])
<1> DEFINE s == x.entries
           d == [s[i + 1] EXCEPT !.ptr = r]
           E == [s EXCEPT ![i + 1] = d]
           a == [x EXCEPT !.entries[i + 1].ptr = r]
           b == [y EXCEPT !.entries[i + 1].ptr = r]
<1>1. /\ x \in BtNodes /\ y \in V!BtNode
      /\ y.isLeaf = x.isLeaf /\ y.ptr0 = x.ptr0 /\ y.entries = s
      /\ x.FirstLeaf <=> x.isLeaf /\ y.First
      /\ x.LastLeaf <=> x.isLeaf /\ y.Last
  BY DEF SameNode
<1>2. s \in Seq(Entry) /\ i + 1 \in 1 .. Len(s) /\ V!Entry = Entry
  <2>1. s \in Seq(Entry) /\ numKeys(x) \in Nat
    BY NodeTwins
  <2>2. i + 1 \in 1 .. numKeys(x)
    BY <2>1 DEF InUse
  <2> QED
    BY <2>1, <2>2 DEF numKeys, V!Entry, Entry
<1>3. a = [x EXCEPT !.entries = E] /\ b = [y EXCEPT !.entries = E]
  BY <1>1
<1>4. E \in Seq(Entry)
  <2> HIDE DEF s
  <2>1. s[i + 1] \in Entry
    BY <1>2, ElementOfSeq
  <2>2. d \in Entry
    BY <2>1 DEF Entry
  <2> HIDE DEF d
  <2> QED
    BY <1>2, <2>2, ExceptSeq
<1> HIDE DEF E, a, b, s
<1>5. a \in BtNodes /\ b \in V!BtNode
  BY <1>1, <1>2, <1>3, <1>4 DEF BtNodes, V!BtNode
<1>6. /\ a.isLeaf = x.isLeaf /\ a.ptr0 = x.ptr0 /\ a.entries = E
      /\ a.FirstLeaf = x.FirstLeaf /\ a.LastLeaf = x.LastLeaf
  BY <1>1, <1>3 DEF BtNodes
<1>7. /\ b.isLeaf = y.isLeaf /\ b.ptr0 = y.ptr0 /\ b.entries = E
      /\ b.First = y.First /\ b.Last = y.Last
  BY <1>1, <1>3 DEF V!BtNode
<1> QED
  BY <1>1, <1>5, <1>6, <1>7, NodeTwin DEF a, b

\* The three ends of putEntry().
Ends(s, h, r, dep, cnt, p) ==
  s.heap = h /\ s.root = r /\ s.depth = dep /\ s.count = cnt /\ s.path = p

VerifiedEnds(v, h, r, dep, cnt, p) ==
  v.heap = h /\ v.root = r /\ v.depth = dep /\ v.count = cnt /\ v.cursor = p

PutEnd(h, r, dep, cnt, c, e, key, t) ==
  LET S == PutState(h, r, dep, cnt, c)
      s == putEntry(S, e, key)
      a == Last(t.path)
      n == t.heap[a.node]
      i == IF n.isLeaf THEN a.idx ELSE a.idx + 1
      new == Fresh(t.heap)
      f == [t.heap EXCEPT ![new] = newRoot(S, t.e)]
      g == [t.heap EXCEPT ![a.node] = insertEntry(n, i, t.e)]
  IN  /\ t.path = <<>> =>
           Ends(s, f, new, dep + 1, cnt + 1, moveToKey(f, new, key, <<>>))
      /\ t.path # <<>> /\ Found(t.heap, t.path, t.e) =>
           Ends(s, [t.heap EXCEPT ![a.node].entries[a.idx + 1].ptr = t.e.ptr],
                r, dep, cnt, t.path)
      /\ t.path # <<>> /\ ~Found(t.heap, t.path, t.e) /\ i \in 0 .. numKeys(n) =>
           Ends(s, g, r, dep, cnt + 1, Repair(g, t.path, key))

LEMMA PutEnds ==
  ASSUME NEW h, NEW r, NEW dep, NEW cnt, NEW c, NEW e, NEW key, NEW t, t = Splits(h, c, e)
  PROVE  PutEnd(h, r, dep, cnt, c, e, key, t)
<1> DEFINE S == PutState(h, r, dep, cnt, c)
           u == [S EXCEPT !.heap = t.heap, !.path = t.path]
           a == Last(t.path)
           n == t.heap[a.node]
           i == IF n.isLeaf THEN a.idx ELSE a.idx + 1
           new == Fresh(t.heap)
           f == [t.heap EXCEPT ![new] = newRoot(S, t.e)]
           g == [t.heap EXCEPT ![a.node] = insertEntry(n, i, t.e)]
           A == [heap |-> f, root |-> new, depth |-> S.depth + 1, count |-> S.count + 1,
                 path |-> moveToKey(f, new, key, <<>>)]
           B == [u EXCEPT !.heap[a.node].entries[a.idx + 1].ptr = t.e.ptr]
           C == [u EXCEPT !.heap = g, !.count = @ + 1, !.path = Repair(g, @, key)]
           D == [u EXCEPT !.path = Lost]
           empty == t.path = <<>>
           found == Found(t.heap, t.path, t.e)
           fits == i \in 0 .. numKeys(n)
           s == putEntry(S, e, key)
<1>1. /\ S.heap = h /\ S.path = c /\ S.root = r /\ S.depth = dep /\ S.count = cnt
      /\ u \in [heap : {t.heap}, root : {r}, depth : {dep}, count : {cnt}, path : {t.path}]
  BY DEF PutState
<1>2. s = CASE empty -> A
            [] ~empty /\ found -> B
            [] ~empty /\ ~found /\ fits -> C
            [] OTHER -> D
  <2>1. Splits(S.heap, S.path, e) = t
    BY <1>1
  <2> HIDE DEF S
  <2> QED
    BY <2>1 DEF putEntry
<1> HIDE DEF S, u, a, n, i, f, g, new, empty, found, fits, s
<1>3. Ends(A, f, new, dep + 1, cnt + 1, moveToKey(f, new, key, <<>>))
  BY <1>1 DEF Ends
<1>4. Ends(B, [t.heap EXCEPT ![a.node].entries[a.idx + 1].ptr = t.e.ptr], r, dep, cnt, t.path)
  BY <1>1 DEF Ends
<1>5. Ends(C, g, r, dep, cnt + 1, Repair(g, t.path, key))
  BY <1>1 DEF Ends
<1> HIDE DEF A, B, C, D
<1>6. /\ empty => s = A
      /\ ~empty /\ found => s = B
      /\ ~empty /\ ~found /\ fits => s = C
  BY <1>2
<1> DEFINE EA == Ends(s, f, new, dep + 1, cnt + 1, moveToKey(f, new, key, <<>>))
           EB == Ends(s, [t.heap EXCEPT ![a.node].entries[a.idx + 1].ptr = t.e.ptr],
                      r, dep, cnt, t.path)
           EC == Ends(s, g, r, dep, cnt + 1, Repair(g, t.path, key))
<1>7. (empty => EA) /\ (~empty /\ found => EB) /\ (~empty /\ ~found /\ fits => EC)
  BY <1>3, <1>4, <1>5, <1>6, Zenon
<1> QED
  BY <1>7, Zenon DEF PutEnd, EA, EB, EC, S, a, n, i, f, g, new, empty, found, fits, s

VerifiedPutEnd(h, r, dep, cnt, c, e, key, t) ==
  LET S == V!PutState(h, r, dep, cnt, c)
      v == V!putEntry(S, e, key)
      a == V!Last(t.cursor)
      i == IF t.heap[a.node].isLeaf THEN a.idx ELSE a.idx + 1
      new == V!Fresh(t.heap)
      f == [t.heap EXCEPT ![new] = V!newRoot(S, t.e)]
      g == [t.heap EXCEPT ![a.node].entries = InsertAt(@, i + 1, t.e)]
  IN  /\ t.cursor = <<>> =>
           VerifiedEnds(v, f, new, dep + 1, cnt + 1, V!moveToKey(f, new, key, <<>>))
      /\ t.cursor # <<>> /\ V!Found(t.heap, t.cursor, t.e) =>
           VerifiedEnds(v, [t.heap EXCEPT ![a.node].entries[a.idx + 1].ptr = t.e.ptr],
                        r, dep, cnt, t.cursor)
      /\ t.cursor # <<>> /\ ~V!Found(t.heap, t.cursor, t.e) =>
           VerifiedEnds(v, g, r, dep, cnt + 1,
                        IF g[a.node].isLeaf THEN t.cursor
                        ELSE V!moveToKey(g, a.node, key, Front(t.cursor)))

LEMMA VerifiedPutEnds ==
  ASSUME NEW h, NEW r, NEW dep, NEW cnt, NEW c, NEW e, NEW key, NEW t, t = V!Splits(h, c, e)
  PROVE  VerifiedPutEnd(h, r, dep, cnt, c, e, key, t)
<1> DEFINE S == V!PutState(h, r, dep, cnt, c)
           u == [S EXCEPT !.heap = t.heap, !.cursor = t.cursor]
           a == V!Last(t.cursor)
           i == IF t.heap[a.node].isLeaf THEN a.idx ELSE a.idx + 1
           new == V!Fresh(t.heap)
           f == [t.heap EXCEPT ![new] = V!newRoot(S, t.e)]
           g == [t.heap EXCEPT ![a.node].entries = InsertAt(@, i + 1, t.e)]
           q == IF g[a.node].isLeaf THEN t.cursor ELSE V!moveToKey(g, a.node, key, Front(t.cursor))
           A == [heap |-> f, root |-> new, depth |-> S.depth + 1, count |-> S.count + 1,
                 cursor |-> V!moveToKey(f, new, key, <<>>)]
           B == [u EXCEPT !.heap[a.node].entries[a.idx + 1].ptr = t.e.ptr]
           C == V!Inserted(u, a, i, t.e, key)
           empty == t.cursor = <<>>
           found == V!Found(t.heap, t.cursor, t.e)
           v == V!putEntry(S, e, key)
<1>1. /\ S.heap = h /\ S.cursor = c /\ S.root = r /\ S.depth = dep /\ S.count = cnt
      /\ u \in [heap : {t.heap}, root : {r}, depth : {dep}, count : {cnt}, cursor : {t.cursor}]
  BY DEF V!PutState
<1>2. v = CASE empty -> A [] ~empty /\ found -> B [] OTHER -> C
  <2>1. V!Splits(S.heap, S.cursor, e) = t
    BY <1>1
  <2> HIDE DEF S
  <2> QED
    BY <2>1 DEF V!putEntry
<1>a. \A s, x, y : V!InsertAt(s, x, y) = InsertAt(s, x, y)
  BY SameLibrary
<1>b. \A s : V!Front(s) = Front(s)
  BY SameLibrary
<1> HIDE DEF S, u, a, i, f, new, empty, found, v
<1>3. VerifiedEnds(A, f, new, dep + 1, cnt + 1, V!moveToKey(f, new, key, <<>>))
  BY <1>1 DEF VerifiedEnds
<1>4. VerifiedEnds(B, [t.heap EXCEPT ![a.node].entries[a.idx + 1].ptr = t.e.ptr],
                   r, dep, cnt, t.cursor)
  BY <1>1 DEF VerifiedEnds
<1>5. VerifiedEnds(C, g, r, dep, cnt + 1, q)
  <2>1. [u.heap EXCEPT ![a.node].entries = V!InsertAt(@, i + 1, t.e)] = g
    BY <1>1, <1>a
  <2> HIDE DEF g
  <2>2. C = [u EXCEPT !.heap = g, !.count = u.count + 1,
                      !.cursor = IF g[a.node].isLeaf THEN u.cursor
                                 ELSE V!moveToKey(g, a.node, key, V!Front(u.cursor))]
    BY <2>1 DEF V!Inserted
  <2>3. u.cursor = t.cursor
    BY <1>1
  <2> HIDE DEF C
  <2>4. C = [u EXCEPT !.heap = g, !.count = u.count + 1, !.cursor = q]
    BY <1>b, <2>2, <2>3
  <2> HIDE DEF q
  <2> QED
    BY <1>1, <2>4 DEF VerifiedEnds
<1> HIDE DEF A, B, C, q, g
<1>6. /\ empty => v = A
      /\ ~empty /\ found => v = B
      /\ ~empty /\ ~found => v = C
  BY <1>2
<1> DEFINE EA == VerifiedEnds(v, f, new, dep + 1, cnt + 1, V!moveToKey(f, new, key, <<>>))
           EB == VerifiedEnds(v, [t.heap EXCEPT ![a.node].entries[a.idx + 1].ptr = t.e.ptr],
                              r, dep, cnt, t.cursor)
           EC == VerifiedEnds(v, g, r, dep, cnt + 1, q)
<1>7. (empty => EA) /\ (~empty /\ found => EB) /\ (~empty /\ ~found => EC)
  BY <1>3, <1>4, <1>5, <1>6, Zenon
<1> QED
  BY <1>7, Zenon DEF VerifiedPutEnd, EA, EB, EC, S, a, i, f, new, empty, found, v, g, q

LEMMA PutFoundTwins ==
  ASSUME NEW h, NEW g, NEW r, NEW dep, NEW lev, NEW rng, Twin(h, g, r, dep, lev, rng),
         NEW c, NEW e, V!CanPut(g, r, dep, lev, rng, c, e), V!Found(g, c, e), NEW cnt
  PROVE  PutTwin(putEntry(PutState(h, r, dep, cnt, c), e, e.key),
                 V!putEntry(V!PutState(g, r, dep, cnt, c), e, e.key))
<1> DEFINE n == c[dep + 1].node
           i == c[dep + 1].idx
           x == [h[n] EXCEPT !.entries[i + 1].ptr = e.ptr]
           y == [g[n] EXCEPT !.entries[i + 1].ptr = e.ptr]
           S == PutState(h, r, dep, cnt, c)
           VS == V!PutState(g, r, dep, cnt, c)
           s == putEntry(S, e, e.key)
           v == V!putEntry(VS, e, e.key)
<1>1. Same(h, g) /\ V!Complete(g, r, dep, c) /\ e.ptr \in Record
  BY DEF V!CanPut, V!SearchPath, Twin
<1>2. Found(h, c, e) /\ Level(h, c, e) = Len(c) /\ V!Level(g, c, e) = Len(c)
  <2>1. Found(h, c, e) /\ Level(h, c, e) = V!Level(g, c, e)
    BY <1>1, LevelTwins
  <2> QED
    BY <2>1 DEF Level
<1>3. /\ dep \in Nat /\ Len(c) = dep + 1 /\ c # <<>> /\ Last(c) = c[dep + 1]
      /\ n \in Used(h) /\ SameNode(h[n], g[n])
      /\ currNode(h, c) = h[n] /\ entryIndex(c) = i
  <2>1. /\ dep \in Nat /\ Len(c) = dep + 1 /\ c # <<>> /\ Last(c) = c[dep + 1]
        /\ \A l \in 1 .. dep + 1 : c[l].node \in Used(h) /\ SameNode(h[c[l].node], g[c[l].node])
        /\ currNode(h, c) = h[n] /\ entryIndex(c) = i
    BY <1>1, StopTwins
  <2>2. dep + 1 \in 1 .. dep + 1
    BY <2>1
  <2> QED
    BY <2>1, <2>2
<1>4. i \in InUse(h[n]) /\ V!Last(c) = c[dep + 1] /\ n \in Node
  BY <1>2, <1>3, SameLibrary DEF Found, Used
<1>5. SameNode(x, y)
  <2> HIDE DEF n, i
  <2> QED
    BY <1>1, <1>3, <1>4, RecordChanged
<1>6. Splits(h, c, e) = [heap |-> h, path |-> c, e |-> e]
  <2>1. PICK puts : PutStates(h, c, e, puts)
    BY PutsStep
  <2>2. Len(c) - Level(h, c, e) = 0
    BY <1>2, <1>3
  <2> QED
    BY <2>1, <2>2 DEF PutStates
<1>7. V!Splits(g, c, e) = [heap |-> g, cursor |-> c, e |-> e]
  <2>1. PICK state : V!SplitStates(g, c, e, state)
    BY VA, V!SplitsStep
  <2>2. Len(c) - V!Level(g, c, e) = 0
    BY <1>2, <1>3
  <2> QED
    BY <2>1, <2>2 DEF V!SplitStates
<1>8. Ends(s, [h EXCEPT ![n].entries[i + 1].ptr = e.ptr], r, dep, cnt, c)
  <2> DEFINE t == [heap |-> h, path |-> c, e |-> e]
  <2>1. t.heap = h /\ t.path = c /\ t.e = e /\ t = Splits(h, c, e)
    BY <1>6
  <2> HIDE DEF t
  <2>2. Found(t.heap, t.path, t.e) /\ t.path # <<>>
    BY <1>2, <1>3, <2>1
  <2>3. Ends(putEntry(PutState(h, r, dep, cnt, c), e, e.key),
             [t.heap EXCEPT ![Last(t.path).node].entries[Last(t.path).idx + 1].ptr = t.e.ptr],
             r, dep, cnt, t.path)
    <3>1. PutEnd(h, r, dep, cnt, c, e, e.key, t)
      BY <2>1, PutEnds
    <3> QED
      BY <2>2, <3>1 DEF PutEnd
  <2>4. Last(t.path).node = n /\ Last(t.path).idx = i
    BY <1>3, <2>1
  <2> HIDE DEF n, i
  <2> QED
    BY <2>1, <2>3, <2>4
<1>9. VerifiedEnds(v, [g EXCEPT ![n].entries[i + 1].ptr = e.ptr], r, dep, cnt, c)
  <2> DEFINE t == [heap |-> g, cursor |-> c, e |-> e]
  <2>1. t.heap = g /\ t.cursor = c /\ t.e = e /\ t = V!Splits(g, c, e)
    BY <1>7
  <2> HIDE DEF t
  <2>2. V!Found(t.heap, t.cursor, t.e) /\ t.cursor # <<>>
    BY <1>2, <1>3, <2>1
  <2>3. VerifiedEnds(V!putEntry(V!PutState(g, r, dep, cnt, c), e, e.key),
             [t.heap EXCEPT ![V!Last(t.cursor).node].entries[V!Last(t.cursor).idx + 1].ptr = t.e.ptr],
             r, dep, cnt, t.cursor)
    <3>1. VerifiedPutEnd(g, r, dep, cnt, c, e, e.key, t)
      BY <2>1, VerifiedPutEnds
    <3> QED
      BY <2>2, <3>1 DEF VerifiedPutEnd
  <2>4. V!Last(t.cursor).node = n /\ V!Last(t.cursor).idx = i
    BY <1>3, <1>4, <2>1
  <2> HIDE DEF n, i
  <2> QED
    BY <2>1, <2>3, <2>4
<1>10. /\ [h EXCEPT ![n].entries[i + 1].ptr = e.ptr] = [h EXCEPT ![n] = x]
       /\ [g EXCEPT ![n].entries[i + 1].ptr = e.ptr] = [g EXCEPT ![n] = y]
  <2> HIDE DEF n, i
  <2> QED
    OBVIOUS
<1> HIDE DEF s, v, x, y, n
<1>11. Same([h EXCEPT ![n] = x], [g EXCEPT ![n] = y])
  BY <1>1, <1>4, <1>5, SameChanged
<1> QED
  BY <1>8, <1>9, <1>10, <1>11 DEF PutTwin, Ends, VerifiedEnds, s, v

\* The node at which the recursion ends takes an entry.
LEMMA PutRoomTwins ==
  ASSUME NEW h, NEW g, NEW r, NEW dep, NEW lev, NEW rng, Twin(h, g, r, dep, lev, rng),
         NEW c, NEW e, V!CanPut(g, r, dep, lev, rng, c, e), ~V!Found(g, c, e),
         V!Level(g, c, e) # 0, NEW cnt
  PROVE  PutTwin(putEntry(PutState(h, r, dep, cnt, c), e, e.key),
                 V!putEntry(V!PutState(g, r, dep, cnt, c), e, e.key))
<1> DEFINE L == V!Level(g, c, e)
           n == c[L].node
           s == putEntry(PutState(h, r, dep, cnt, c), e, e.key)
           v == V!putEntry(V!PutState(g, r, dep, cnt, c), e, e.key)
<1>1. /\ V!Tree(g, r, dep, lev, rng, NULL) /\ V!Complete(g, r, dep, c) /\ Same(h, g)
      /\ e.key \in Key
  BY DEF V!CanPut, V!SearchPath, Twin
<1>2. dep \in Nat /\ Len(c) = dep + 1
  BY <1>1, StopTwins
<1>3. L \in 1 .. dep + 1
  <2>1. V!Level(g, c, e) \in 0 .. dep + 1
    BY VA, V!LevelIs
  <2> QED
    BY <1>2, <2>1
<1>4. PICK state : V!SplitStates(g, c, e, state)
  BY VA, V!SplitsStep
<1>5. PICK puts : PutStates(h, c, e, puts)
  BY PutsStep
<1> DEFINE N == dep + 1 - L
           t == puts[N]
           u == state[N]
<1>6. N \in 0 .. dep /\ N \in 0 .. dep + 1 - V!Level(g, c, e) /\ N <= dep + 1 - V!Level(g, c, e)
      /\ dep + 1 - N = L
  BY <1>2, <1>3
<1>7. t = Splits(h, c, e) /\ u = V!Splits(g, c, e)
  <2>1. Level(h, c, e) = L
    BY <1>1, LevelTwins
  <2>2. Len(c) - L = N
    BY <1>2, <1>3
  <2> QED
    BY <1>4, <1>5, <2>1, <2>2 DEF V!SplitStates, PutStates
<1>8. SameState(t, u)
  <2> HIDE DEF N
  <2> QED
    BY <1>4, <1>5, <1>6, StateTwins
<1>9. PICK lv, rg : V!Pending(g, r, dep, c, e, u, L, lv, rg)
  <2>1. \E lv, rg : V!Pending(g, r, dep, c, e, state[N], dep + 1 - N, lv, rg)
    <3> HIDE DEF N
    <3> QED
      BY VA, <1>4, <1>6, V!PendingAt
  <2> QED
    BY <1>6, <2>1
<1>10. PICK lw, rw : V!PutDone(g, cnt, e, v, lw, rw)
  BY VA, V!PutRoom
<1> HIDE DEF t, u, L, N, s, v
<1> DEFINE x == t.heap[n]
           y == u.heap[n]
           W == V!Filled(u.heap, n, u.e)
           f == V!findRecordIndex(g[n], u.e.key)
           a == Last(t.path)
           b == V!Last(u.cursor)
<1>11. /\ n \in V!Used(g) /\ W[n] = V!Put(g[n], u.e) /\ W[n] \in V!BtNode
       /\ W[n].isLeaf = g[n].isLeaf
       /\ f = V!findChildIndex(g[n], u.e.key) + 1
       /\ y = g[n] /\ u.heap \in [Node -> V!BtNode \cup {NULL}]
       /\ b = c[L] /\ u.cursor # <<>>
  <2>1. V!PathAbove(g, r, c, u, L, n, W)
    <3> HIDE DEF W
    <3>1. V!PathAbove(g, r, c, u, L, c[L].node, V!Filled(u.heap, c[L].node, u.e))
      BY VA, <1>1, <1>3, <1>9, V!PendingPath
    <3> QED
      BY <3>1 DEF W
  <2> HIDE DEF W, n
  <2> QED
    BY <2>1 DEF V!PathAbove
<1>12. /\ u.e \in V!Entry /\ V!NewKey(g[n], u.e.key)
       /\ c[L].idx = IF g[n].isLeaf THEN f ELSE V!findChildIndex(g[n], u.e.key)
  <2>1. V!FitsAt(u.heap[c[L].node], u.e, c[L].idx)
    BY <1>9 DEF V!Pending
  <2> QED
    BY <1>11, <2>1 DEF V!FitsAt
<1>13. /\ Same(t.heap, u.heap) /\ t.path = u.cursor /\ t.e = u.e /\ a = c[L]
       /\ n \in Node
  BY <1>8, <1>11, SameLibrary DEF SameState, V!Used
<1>14. g[n] \in V!BtNode /\ V!Ascending(g[n]) /\ V!numKeys(g[n]) \in Nat
  <2>1. g[n] \in V!BtNode /\ V!Ascending(g[n])
    BY VA, <1>1, <1>11, V!UsedNodes DEF V!Tree, V!Nodes, V!NodeOK
  <2> QED
    BY VA, <2>1, V!NodeFacts
<1>15. SameNode(x, y)
  <2>1. n \in Used(t.heap)
    <3>1. y # NULL
      BY VA, <1>11, <1>14 DEF V!NullAssumption
    <3> QED
      BY <1>13, <3>1 DEF Same, Used
  <2> QED
    BY <1>13, <2>1, TwinNodes
<1> HIDE DEF n
<1>16. /\ findRecordIndex(x, t.e.key) = f /\ f \in 0 .. numKeys(x) /\ V!numKeys(y) = numKeys(x)
       /\ t.e.key \in Key /\ x.isLeaf = g[n].isLeaf
  <2>1. t.e.key \in Key
    BY <1>12, <1>13 DEF V!Entry
  <2>2. findRecordIndex(x, t.e.key) = f
    BY <1>11, <1>13, <1>14, <1>15, <2>1, RecordTwins
  <2>3. V!numKeys(y) = numKeys(x)
    BY <1>15, NodeTwins
  <2>4. f \in 0 .. V!numKeys(g[n])
    <3>1. u.e.key \in Key
      BY <1>13, <2>1
    <3> QED
      BY VA, <1>14, <3>1, V!RecordIndex
  <2> QED
    BY <1>11, <1>15, <2>1, <2>2, <2>3, <2>4 DEF SameNode
<1>17. (IF x.isLeaf THEN a.idx ELSE a.idx + 1) = f /\ a.node = n /\ b.node = n
  BY <1>11, <1>12, <1>13, <1>16 DEF n
<1>18. ~V!Found(u.heap, u.cursor, u.e) /\ ~Found(t.heap, t.path, t.e)
  <2> DEFINE z == u.e.key
  <2>1. ~(y.isLeaf /\ f < V!numKeys(y) /\ V!KeyAt(y, f) = z)
    <3>1. V!KeyAt(y, f) = g[n].entries[f + 1].key
      BY <1>11 DEF V!KeyAt
    <3>2. f < V!numKeys(y) => f + 1 \in 1 .. V!numKeys(g[n])
      <4> HIDE DEF f, y
      <4> QED
        BY <1>11, <1>14, <1>15, <1>16, NodeTwins
    <3> QED
      BY <1>11, <1>12, <3>1, <3>2 DEF V!NewKey
  <2>2. y.isLeaf => a.idx = f /\ b.idx = f
    BY <1>11, <1>12, <1>13
  <2>3. /\ V!currNode(u.heap, u.cursor) = y /\ V!entryIndex(u.cursor) = b.idx
        /\ currNode(t.heap, t.path) = x /\ entryIndex(t.path) = a.idx
    BY <1>17 DEF V!currNode, V!entryIndex, currNode, entryIndex
  <2>4. x.isLeaf = y.isLeaf /\ \A i : V!KeyAt(y, i) = KeyAt(x, i)
    <3>1. \A i : V!KeyAt(y, i) = KeyAt(x, i)
      BY <1>15, NodeTwins
    <3> QED
      BY <1>15, <3>1 DEF SameNode
  <2>5. V!numKeys(y) = numKeys(x) /\ numKeys(x) \in Nat
    BY <1>15, NodeTwins
  <2> HIDE DEF f, x, y, a, b
  <2>6. f \in InUse(x) => f < numKeys(x)
    BY <2>5 DEF InUse
  <2> QED
    BY <1>13, <2>1, <2>2, <2>3, <2>4, <2>5, <2>6 DEF V!Found, Found
<1> DEFINE H == [t.heap EXCEPT ![n] = insertEntry(x, f, t.e)]
           q == IF W[n].isLeaf THEN u.cursor ELSE V!moveToKey(W, n, e.key, Front(u.cursor))
<1>19. Ends(s, H, r, dep, cnt + 1, Repair(H, t.path, e.key))
  <2>1. PutEnd(h, r, dep, cnt, c, e, e.key, t)
    BY <1>7, PutEnds
  <2>2. t.path # <<>>
    BY <1>11, <1>13
  <2> DEFINE i == IF x.isLeaf THEN a.idx ELSE a.idx + 1
             F == [t.heap EXCEPT ![a.node] = insertEntry(x, i, t.e)]
  <2>3. x = t.heap[a.node]
    BY <1>17
  <2>4. i \in 0 .. numKeys(x) => Ends(s, F, r, dep, cnt + 1, Repair(F, t.path, e.key))
    BY <1>18, <2>1, <2>2, <2>3 DEF PutEnd, s
  <2>5. i = f /\ F = H
    BY <1>17
  <2> HIDE DEF i, F, H, f, x
  <2> QED
    BY <1>16, <2>4, <2>5
<1>20. VerifiedEnds(v, W, r, dep, cnt + 1, q)
  <2>1. VerifiedPutEnd(g, r, dep, cnt, c, e, e.key, u)
    BY <1>7, VerifiedPutEnds
  <2> DEFINE i == IF u.heap[b.node].isLeaf THEN b.idx ELSE b.idx + 1
             F == [u.heap EXCEPT ![b.node].entries = InsertAt(@, i + 1, u.e)]
             p == IF F[b.node].isLeaf THEN u.cursor
                  ELSE V!moveToKey(F, b.node, e.key, Front(u.cursor))
  <2>2. VerifiedEnds(v, F, r, dep, cnt + 1, p)
    BY <1>11, <1>18, <2>1 DEF VerifiedPutEnd, v
  <2>3. i = f
    BY <1>11, <1>12, <1>17
  <2>4. F = W
    <3>1. W = [u.heap EXCEPT ![n] = [y EXCEPT !.entries = InsertAt(@, f + 1, u.e)]]
      BY <1>11, SameLibrary DEF V!Filled, V!Put
    <3> HIDE DEF f, i, W
    <3> QED
      BY <1>17, <2>3, <3>1
  <2> HIDE DEF F, i, W
  <2>5. p = q
    BY <1>17, <2>4
  <2> HIDE DEF p, q
  <2> QED
    BY <2>2, <2>4, <2>5
<1>21. Same(H, W)
  <2>1. SameNode(insertEntry(x, f, t.e), V!Put(y, u.e))
    <3>1. V!Put(y, t.e) \in V!BtNode /\ V!Ascending(y)
      BY <1>11, <1>13, <1>14
    <3> HIDE DEF x, y, f
    <3> QED
      BY <1>13, <1>15, <1>16, <3>1, InsertTwins
  <2>2. W = [u.heap EXCEPT ![n] = V!Put(y, u.e)]
    BY DEF V!Filled
  <2> HIDE DEF x, y, f
  <2> QED
    BY <1>13, <2>1, <2>2, SameChanged
<1> HIDE DEF H, W, q, x, y, f
<1>22. Twin(H, W, r, dep, lw, rw)
  BY <1>10, <1>20, <1>21 DEF V!PutDone, VerifiedEnds, Twin
<1>23. Repair(H, t.path, e.key) = q
  <2>1. n \in Used(H)
    <3>1. W[n] # NULL
      BY VA, <1>11 DEF V!NullAssumption
    <3> QED
      BY <1>13, <1>21, <3>1 DEF Same, Used
  <2>2. H[n].isLeaf = W[n].isLeaf
    BY <1>21, <2>1, TwinNodes DEF SameNode
  <2>3. moveToKey(H, n, e.key, Front(t.path)) = V!moveToKey(W, n, e.key, Front(t.path))
    <3> DEFINE p == Front(t.path)
    <3> HIDE DEF p
    <3>1. moveToKey(H, n, e.key, p) = V!moveToKey(W, n, e.key, p)
      BY <1>1, <1>22, SearchTwins
    <3> QED
      BY <3>1 DEF p
  <2>4. currNode(H, t.path) = H[n] /\ Last(t.path).node = n
    BY <1>17 DEF currNode
  <2> QED
    BY <1>13, <2>2, <2>3, <2>4 DEF Repair, q
<1> QED
  BY <1>19, <1>20, <1>21, <1>23 DEF PutTwin, Ends, VerifiedEnds, s, v

LEMMA NewRootTwins ==
  ASSUME NEW s, NEW v, s.root = v.root, NEW e, V!newRoot(v, e) \in V!BtNode
  PROVE  SameNode(newRoot(s, e), V!newRoot(v, e))
<1> DEFINE x == newRoot(s, e)
           y == V!newRoot(v, e)
           one == <<e>>
           p == v.root
<1>1. /\ y.isLeaf = FALSE /\ y.First = TRUE /\ y.Last = TRUE /\ y.ptr0 = p /\ y.entries = one
  <2> DEFINE no == <<>>
             f == FALSE
             d == TRUE
             w == [isLeaf |-> f, First |-> d, Last |-> d, ptr0 |-> NULL, entries |-> no]
  <2>1. y = [[w EXCEPT !.ptr0 = p] EXCEPT !.entries = one]
    BY DEF V!newRoot, V!createNewNode
  <2> HIDE DEF one, p, no, f, d, y
  <2>2. [w EXCEPT !.ptr0 = p] = [isLeaf |-> f, First |-> d, Last |-> d, ptr0 |-> p, entries |-> no]
    OBVIOUS
  <2>3. y.isLeaf = f /\ y.First = d /\ y.Last = d /\ y.ptr0 = p /\ y.entries = one
    BY <2>1, <2>2
  <2> QED
    BY <2>3 DEF f, d
<1>2. x = [isLeaf |-> FALSE, FirstLeaf |-> FALSE, LastLeaf |-> FALSE, ptr0 |-> p, entries |-> one]
  <2> DEFINE no == <<>>
             f == FALSE
             w == [isLeaf |-> f, FirstLeaf |-> f, LastLeaf |-> f, ptr0 |-> NULL, entries |-> no]
  <2>1. x = [[w EXCEPT !.ptr0 = p] EXCEPT !.entries = one]
    BY DEF newRoot, createNewNode
  <2> HIDE DEF one, p, no, f, x
  <2>2. [w EXCEPT !.ptr0 = p] =
          [isLeaf |-> f, FirstLeaf |-> f, LastLeaf |-> f, ptr0 |-> p, entries |-> no]
    OBVIOUS
  <2>3. x = [isLeaf |-> f, FirstLeaf |-> f, LastLeaf |-> f, ptr0 |-> p, entries |-> one]
    BY <2>1, <2>2
  <2> QED
    BY <2>3 DEF f
<1> HIDE DEF one, p, y, x
<1>3. /\ x.isLeaf = FALSE /\ x.FirstLeaf = FALSE /\ x.LastLeaf = FALSE /\ x.ptr0 = p
      /\ x.entries = one
  BY <1>2
<1>4. y \in V!BtNode
  BY DEF y
<1>5. p \in Node \cup {NULL} /\ one \in Seq(Entry)
  BY <1>1, <1>4 DEF V!BtNode, V!Entry, Entry
<1>6. x \in BtNodes
  BY <1>2, <1>5 DEF BtNodes
<1>7. SameNode(x, y)
  BY <1>1, <1>3, <1>4, <1>6, NodeTwin
<1> QED
  BY <1>7 DEF x, y

\* The root is split too, and a new one comes over the halves.
LEMMA PutRootTwins ==
  ASSUME NEW h, NEW g, NEW r, NEW dep, NEW lev, NEW rng, Twin(h, g, r, dep, lev, rng),
         NEW c, NEW e, V!CanPut(g, r, dep, lev, rng, c, e), ~V!Found(g, c, e),
         V!Level(g, c, e) = 0, NEW cnt
  PROVE  PutTwin(putEntry(PutState(h, r, dep, cnt, c), e, e.key),
                 V!putEntry(V!PutState(g, r, dep, cnt, c), e, e.key))
<1> DEFINE S == PutState(h, r, dep, cnt, c)
           VS == V!PutState(g, r, dep, cnt, c)
           s == putEntry(S, e, e.key)
           v == V!putEntry(VS, e, e.key)
<1>1. /\ V!Tree(g, r, dep, lev, rng, NULL) /\ V!Complete(g, r, dep, c) /\ Same(h, g)
      /\ e.key \in Key
  BY DEF V!CanPut, V!SearchPath, Twin
<1>2. dep \in Nat /\ Len(c) = dep + 1
  BY <1>1, StopTwins
<1>3. PICK state : V!SplitStates(g, c, e, state)
  BY VA, V!SplitsStep
<1>4. PICK puts : PutStates(h, c, e, puts)
  BY PutsStep
<1> DEFINE t == puts[dep + 1]
           u == state[dep + 1]
<1>5. t = Splits(h, c, e) /\ u = V!Splits(g, c, e)
  <2>1. Level(h, c, e) = 0
    BY <1>1, LevelTwins
  <2>2. Len(c) - 0 = dep + 1
    BY <1>2
  <2> QED
    BY <1>3, <1>4, <2>1, <2>2 DEF V!SplitStates, PutStates
<1>6. SameState(t, u)
  <2>1. dep + 1 \in 0 .. dep + 1 - V!Level(g, c, e)
    BY <1>2
  <2> QED
    BY <1>3, <1>4, <2>1, StateTwins
<1>7. u.cursor = <<>>
  <2> DEFINE w == state[dep]
  <2>1. \E lv, rg : V!Pending(g, r, dep, c, e, w, 1, lv, rg)
    <3>1. dep \in 0 .. dep /\ dep <= dep + 1 - V!Level(g, c, e) /\ dep + 1 - dep = 1
      BY <1>2
    <3>2. \E lv, rg : V!Pending(g, r, dep, c, e, state[dep], dep + 1 - dep, lv, rg)
      BY VA, <1>3, <3>1, V!PendingAt
    <3> QED
      BY <3>1, <3>2
  <2>2. u = V!SplitOne(w)
    BY <1>2, <1>3 DEF V!SplitStates
  <2> HIDE DEF w, u
  <2>3. V!Front(w.cursor) = SubSeq(c, 1, 1 - 1)
    <3>1. PICK lv, rg : V!Pending(g, r, dep, c, e, w, 1, lv, rg)
      BY <2>1
    <3>2. 1 \in 1 .. dep + 1
      BY <1>2
    <3>3. V!PathAbove(g, r, c, w, 1, c[1].node, V!Filled(w.heap, c[1].node, w.e))
      BY VA, <1>1, <3>1, <3>2, V!PendingPath
    <3> QED
      BY <3>3 DEF V!PathAbove
  <2>4. SubSeq(c, 1, 1 - 1) = <<>>
    BY <1>1, StopTwins
  <2>5. u.cursor = V!Front(w.cursor)
    BY <2>2 DEF V!SplitOne
  <2> QED
    BY <2>3, <2>4, <2>5
<1>8. PICK lw, rw : V!PutDone(g, cnt, e, v, lw, rw)
  BY VA, V!PutRoot
<1> HIDE DEF t, u, S, VS, s, v
<1> DEFINE new == Fresh(t.heap)
           F == [t.heap EXCEPT ![new] = newRoot(S, t.e)]
           G == [u.heap EXCEPT ![new] = V!newRoot(VS, u.e)]
<1>9. Same(t.heap, u.heap) /\ t.path = <<>> /\ t.e = u.e /\ V!Fresh(u.heap) = new
  BY <1>6, <1>7, TwinNodes DEF SameState
<1>10. Ends(s, F, new, dep + 1, cnt + 1, moveToKey(F, new, e.key, <<>>))
  <2>1. PutEnd(h, r, dep, cnt, c, e, e.key, t)
    BY <1>5, PutEnds
  <2> QED
    BY <1>9, <2>1 DEF PutEnd, s, S
<1>11. VerifiedEnds(v, G, new, dep + 1, cnt + 1, V!moveToKey(G, new, e.key, <<>>))
  <2>1. VerifiedPutEnd(g, r, dep, cnt, c, e, e.key, u)
    BY <1>5, VerifiedPutEnds
  <2> DEFINE vnew == V!Fresh(u.heap)
             K == [u.heap EXCEPT ![vnew] = V!newRoot(VS, u.e)]
  <2>2. VerifiedEnds(v, K, vnew, dep + 1, cnt + 1, V!moveToKey(K, vnew, e.key, <<>>))
    BY <1>7, <2>1 DEF VerifiedPutEnd, v, VS
  <2>3. vnew = new /\ K = G
    BY <1>9
  <2> HIDE DEF vnew, K, G, new
  <2> QED
    BY <2>2, <2>3
<1> HIDE DEF new
<1>12. V!Tree(G, new, dep + 1, lw, rw, NULL) /\ V!RootOK(G, new)
  <2> HIDE DEF G
  <2> QED
    BY <1>8, <1>11 DEF V!PutDone, VerifiedEnds
<1>13. new \in Node /\ G[new] = V!newRoot(VS, u.e) /\ G[new] \in V!BtNode
  <2>1. new \in V!Used(G)
    <3> HIDE DEF G
    <3> QED
      BY <1>12 DEF V!Tree, V!Shape
  <2>2. new \in Node /\ G[new] \in V!BtNode
    <3> HIDE DEF G
    <3> QED
      BY VA, <1>12, <2>1, V!UsedNodes DEF V!Tree
  <2>3. G[new] = V!newRoot(VS, u.e)
    BY <1>9, <2>2 DEF Same
  <2> QED
    BY <2>2, <2>3
<1>14. Same(F, G)
  <2>1. S.root = VS.root
    BY DEF S, VS, PutState, V!PutState
  <2>2. SameNode(newRoot(S, t.e), V!newRoot(VS, t.e))
    <3>1. V!newRoot(VS, t.e) \in V!BtNode
      BY <1>9, <1>13
    <3> QED
      BY <2>1, <3>1, NewRootTwins
  <2>3. SameNode(newRoot(S, t.e), V!newRoot(VS, u.e))
    BY <1>9, <2>2
  <2> QED
    BY <1>9, <1>13, <2>3, SameChanged
<1> HIDE DEF F, G
<1>15. Twin(F, G, new, dep + 1, lw, rw)
  BY <1>12, <1>14 DEF Twin
<1>16. moveToKey(F, new, e.key, <<>>) = V!moveToKey(G, new, e.key, <<>>)
  <2> DEFINE p == <<>>
             d == dep + 1
  <2> HIDE DEF p, d
  <2>1. Twin(F, G, new, d, lw, rw)
    BY <1>15 DEF d
  <2>2. moveToKey(F, new, e.key, p) = V!moveToKey(G, new, e.key, p)
    BY <1>1, <2>1, SearchTwins
  <2> QED
    BY <2>2 DEF p
<1> QED
  BY <1>10, <1>11, <1>14, <1>16 DEF PutTwin, Ends, VerifiedEnds, s, v, S, VS

\* However far up the splits go, the two make twins of twins.
LEMMA PutTwins ==
  ASSUME NEW h, NEW g, NEW r, NEW dep, NEW lev, NEW rng, Twin(h, g, r, dep, lev, rng),
         NEW c, NEW e, V!CanPut(g, r, dep, lev, rng, c, e), NEW cnt
  PROVE  LET s == putEntry(PutState(h, r, dep, cnt, c), e, e.key)
             v == V!putEntry(V!PutState(g, r, dep, cnt, c), e, e.key)
         IN  /\ PutTwin(s, v)
             /\ \E lv, rg : /\ V!PutDone(g, cnt, e, v, lv, rg)
                            /\ Twin(s.heap, v.heap, s.root, s.depth, lv, rg)
<1> DEFINE s == putEntry(PutState(h, r, dep, cnt, c), e, e.key)
           v == V!putEntry(V!PutState(g, r, dep, cnt, c), e, e.key)
<1>1. PutTwin(s, v)
  BY PutFoundTwins, PutRoomTwins, PutRootTwins
<1>2. PICK lv, rg : V!PutDone(g, cnt, e, v, lv, rg)
  BY VA, V!PutEntryIs
<1> HIDE DEF s, v
<1>3. Twin(s.heap, v.heap, s.root, s.depth, lv, rg)
  BY <1>1, <1>2 DEF PutTwin, V!PutDone, Twin
<1> QED
  BY <1>1, <1>2, <1>3 DEF s, v

-----------------------------------------------------------------------------
(* The marks that the original leaves out.                                 *)

LEMMA MarkIs ==
  ASSUME NEW h, NEW g, NEW r, NEW dep, NEW lev, NEW rng, Twin(h, g, r, dep, lev, rng)
  PROVE  Mark(h, r) = g
<1>1. Same(h, g) /\ V!Tree(g, r, dep, lev, rng, NULL)
  BY DEF Twin
<1> DEFINE p == PathToFirst(h, r)
           q == PathToEnd(h, r)
<1>2. p = V!moveToFirst(g, r, <<>>) /\ q = V!moveToLast(g, r, <<>>)
  <2> DEFINE no == <<>>
  <2>1. p = moveToFirst(h, r, no) /\ q = Down(h, r, LastIndex(h), no)
    BY DEF PathToFirst, PathToEnd, LastIndex
  <2> HIDE DEF no, p, q
  <2>2. p = V!moveToFirst(g, r, no) /\ q = V!moveToLast(g, r, no)
    BY <2>1, MoveTwins
  <2> QED
    BY <2>2 DEF no
<1> HIDE DEF p, q
<1> DEFINE m(n) == [isLeaf |-> h[n].isLeaf, First |-> Through(p, n), Last |-> Through(q, n),
                    ptr0 |-> h[n].ptr0, entries |-> h[n].entries]
<1>3. Mark(h, r) = [n \in Node |-> IF h[n] = NULL THEN NULL ELSE m(n)]
  BY DEF Mark, p, q
<1>4. \A n : /\ V!Through(V!moveToFirst(g, r, <<>>), n) <=> Through(p, n)
             /\ V!Through(V!moveToLast(g, r, <<>>), n) <=> Through(q, n)
  BY <1>2 DEF V!Through, Through
<1>5. ASSUME NEW n \in Node, h[n] # NULL PROVE m(n) = g[n]
  <2>1. SameNode(h[n], g[n]) /\ n \in V!Used(g)
    BY <1>1, <1>5, TwinNodes DEF Used
  <2>2. (g[n].First <=> Through(p, n)) /\ (g[n].Last <=> Through(q, n))
    BY VA, <1>1, <1>4, <2>1, V!SpineMarks
  <2> DEFINE x == m(n)
             y == g[n]
             f == Through(p, n)
             e == Through(q, n)
  <2>3. f \in BOOLEAN /\ e \in BOOLEAN
    BY DEF Through
  <2>4. /\ y \in V!BtNode /\ y.isLeaf = h[n].isLeaf /\ y.ptr0 = h[n].ptr0
        /\ y.entries = h[n].entries
    BY <2>1 DEF SameNode
  <2>5. y.First = f /\ y.Last = e
    <3>1. y.First \in BOOLEAN /\ y.Last \in BOOLEAN
      BY <2>4 DEF V!BtNode
    <3>2. (y.First <=> f) /\ (y.Last <=> e)
      BY <2>2
    <3> HIDE DEF f, e, y
    <3> QED
      BY <2>3, <3>1, <3>2
  <2> HIDE DEF f, e, y
  <2>6. x = [isLeaf |-> y.isLeaf, First |-> f, Last |-> e, ptr0 |-> y.ptr0, entries |-> y.entries]
    BY <2>4 DEF f, e
  <2> HIDE DEF x
  <2>7. x = y
    BY <2>4, <2>5, <2>6 DEF V!BtNode
  <2> QED
    BY <2>7 DEF x, y
<1>6. ASSUME NEW n \in Node, h[n] = NULL PROVE g[n] = NULL
  BY <1>1, <1>6 DEF Same
<1> HIDE DEF m
<1>7. g = [n \in Node |-> g[n]]
  BY <1>1 DEF Same
<1>8. \A n \in Node : (IF h[n] = NULL THEN NULL ELSE m(n)) = g[n]
  BY <1>5, <1>6
<1> QED
  BY <1>3, <1>7, <1>8, Zenon

LEMMA LeafTwins ==
  ASSUME NEW r \in Node, NEW h,
         h = [n \in Node |-> IF n = r THEN createNewNode(TRUE, TRUE, TRUE) ELSE NULL]
  PROVE  Same(h, V!OneLeaf(r))
<1> DEFINE x == createNewNode(TRUE, TRUE, TRUE)
           y == V!createNewNode(TRUE, TRUE, TRUE)
           g == V!OneLeaf(r)
<1>1. /\ x \in BtNodes /\ y \in V!BtNode /\ x.isLeaf /\ x.FirstLeaf /\ x.LastLeaf
      /\ y.isLeaf = x.isLeaf /\ y.First /\ y.Last /\ y.ptr0 = x.ptr0 /\ y.entries = x.entries
  <2>1. <<>> \in Seq(Entry)
    OBVIOUS
  <2> QED
    BY <2>1 DEF createNewNode, V!createNewNode, BtNodes, V!BtNode, V!Entry, Entry
<1>2. h = [n \in Node |-> IF n = r THEN x ELSE NULL] /\ g = [n \in Node |-> IF n = r THEN y ELSE NULL]
  BY DEF V!OneLeaf
<1> HIDE DEF x, y, g
<1>3. SameNode(x, y)
  BY <1>1, NodeTwin
<1>4. \A n \in Node : (n = r => h[n] = x /\ g[n] = y) /\ (n # r => h[n] = NULL /\ g[n] = NULL)
  BY <1>2
<1>5. x # NULL
  BY <1>1, NullAssumption
<1>6. h \in [Node -> BtNodes \cup {NULL}] /\ g \in [Node -> V!BtNode \cup {NULL}]
  BY <1>1, <1>2
<1> QED
  BY <1>3, <1>4, <1>5, <1>6 DEF Same, g

-----------------------------------------------------------------------------
(* The inductive invariant.                                                *)

marked == Mark(heap, root)

\* The path of a cursor, if there is one.
PathOK(p) == p # NULL => V!Complete(marked, root, depth, p)

\* With its marks the tree is one, it has the records that are counted, and the path of
\* the cursor leads to a leaf.
Live(lev, rng) ==
  /\ Twin(heap, marked, root, depth, lev, rng)
  /\ V!Counted(marked, numRecords)
  /\ \A c \in Cursor : PathOK(path[c])

\* The relation is deleted.
Gone ==
  /\ heap \in [Node -> BtNodes \cup {NULL}] /\ root \in Node /\ Used(heap) = {root}
  /\ numRecords \in Nat /\ depth \in Nat
  /\ \A c \in Cursor : path[c] = NULL

IInv ==
  /\ DOMAIN path = Cursor /\ path = [c \in Cursor |-> path[c]]
  /\ IF op = "RL_DeleteRelation" THEN Gone ELSE \E lev, rng : Live(lev, rng)

LEMMA StartsLive == ASSUME Init PROVE IInv
<1>1. /\ root \in Node /\ depth = 0 /\ numRecords = 0 /\ path = [c \in Cursor |-> NULL]
      /\ heap = [n \in Node |-> IF n = root THEN createNewNode(TRUE, TRUE, TRUE) ELSE NULL]
      /\ op # "RL_DeleteRelation"
  BY NodesAssumption DEF Init
<1> DEFINE g == V!OneLeaf(root)
<1>2. PICK lev, rng : V!Tree(g, root, 0, lev, rng, NULL) /\ V!RootOK(g, root) /\ V!Counted(g, 0)
  BY VA, <1>1, V!EmptyTree
<1>3. Same(heap, g)
  BY <1>1, LeafTwins
<1> HIDE DEF g
<1>4. Twin(heap, g, root, depth, lev, rng)
  BY <1>1, <1>2, <1>3 DEF Twin
<1>5. marked = g
  BY <1>4, MarkIs DEF marked
<1>6. \A c \in Cursor : PathOK(path[c])
  BY <1>1 DEF PathOK
<1>7. Live(lev, rng)
  BY <1>1, <1>2, <1>4, <1>5, <1>6 DEF Live
<1> QED
  BY <1>1, <1>7 DEF IInv

\* A step of cursor c that leaves the tree.
LEMMA MovesLive ==
  ASSUME OneCursor, IInv, op # "RL_DeleteRelation", op' # "RL_DeleteRelation",
         NEW c \in Cursor, NEW p, Moves(c, p), PathOK(p)
  PROVE  IInv'
<1>1. /\ heap' = heap /\ root' = root /\ numRecords' = numRecords /\ depth' = depth
      /\ path' = [path EXCEPT ![c] = p]
  BY DEF Moves, tree
<1>2. PICK lev, rng : Live(lev, rng)
  BY DEF IInv
<1>3. marked' = marked
  BY <1>1 DEF marked
<1>4. path = [d \in Cursor |-> path[d]] /\ \A d \in Cursor : d = c
  BY DEF IInv, OneCursor
<1>5. path'[c] = p /\ path' = [d \in Cursor |-> path'[d]] /\ DOMAIN path' = Cursor
  BY <1>1, <1>4
<1>6. \A d \in Cursor : PathOK(path[d])'
  BY <1>1, <1>3, <1>4, <1>5 DEF PathOK
<1>7. Live(lev, rng)'
  BY <1>1, <1>2, <1>3, <1>6 DEF Live
<1> QED
  BY <1>5, <1>7 DEF IInv

\* A step that leaves the tree and the paths.
LEMMA RestsLive ==
  ASSUME IInv, UNCHANGED <<tree, path>>, op # "RL_DeleteRelation", op' # "RL_DeleteRelation"
  PROVE  IInv'
<1>1. /\ heap' = heap /\ root' = root /\ numRecords' = numRecords /\ depth' = depth
      /\ path' = path
  BY DEF tree
<1>2. PICK lev, rng : Live(lev, rng)
  BY DEF IInv
<1>3. Live(lev, rng)'
  BY <1>1, <1>2 DEF Live, marked, PathOK
<1> QED
  BY <1>1, <1>3 DEF IInv

\* Where the moves lead from a path.
LEMMA PathMoves ==
  ASSUME NEW lev, NEW rng, Live(lev, rng), NEW p, V!Complete(marked, root, depth, p)
  PROVE  /\ PathOK(Settle(heap, p)) /\ PathOK(AfterNext(heap, p)) /\ PathOK(AfterPrev(heap, p))
         /\ \A key \in Key : PathOK(goToKey(heap, p, key))
         /\ Settle(heap, p) # Lost /\ AfterNext(heap, p) # Lost /\ AfterPrev(heap, p) # Lost
         /\ p # Lost
<1>1. Twin(heap, marked, root, depth, lev, rng)
  BY DEF Live
<1>2. /\ V!Complete(marked, root, depth, Settle(heap, p))
      /\ V!Complete(marked, root, depth, AfterNext(heap, p))
      /\ V!Complete(marked, root, depth, AfterPrev(heap, p))
  BY <1>1, StepTwins
<1>3. \A key \in Key : V!Complete(marked, root, depth, goToKey(heap, p, key))
  BY <1>1, GoToTwins DEF V!SearchPath
<1>4. \A q : V!Complete(marked, root, depth, q) => q # Lost
  BY <1>1, StopTwins DEF Lost
<1> QED
  BY <1>2, <1>3, <1>4 DEF PathOK

LEMMA FirstPath ==
  ASSUME NEW lev, NEW rng, Live(lev, rng)
  PROVE  /\ V!Complete(marked, root, depth, moveToFirst(heap, root, <<>>))
         /\ moveToFirst(heap, root, <<>>) = V!moveToFirst(marked, root, <<>>)
<1>1. Twin(heap, marked, root, depth, lev, rng)
  BY DEF Live
<1>2. V!Tree(marked, root, depth, lev, rng, NULL)
  BY <1>1 DEF Twin
<1> DEFINE no == <<>>
<1>3. V!LeadsTo(marked, root, no, root)
  BY <1>2 DEF V!Tree, V!Shape, V!LeadsTo
<1>4. V!IndexOK(marked, V!FirstIndex(marked))
  BY VA, <1>2, V!IndexesOK
<1> HIDE DEF no
<1>5. V!Complete(marked, root, depth, V!Down(marked, root, V!FirstIndex(marked), no))
  BY VA, <1>2, <1>3, <1>4, V!DownComplete
<1>6. moveToFirst(heap, root, no) = V!moveToFirst(marked, root, no)
  BY <1>1, MoveTwins
<1>7. V!moveToFirst(marked, root, no) = V!Down(marked, root, V!FirstIndex(marked), no)
  BY VA, V!MovesDown
<1> QED
  BY <1>5, <1>6, <1>7 DEF no

-----------------------------------------------------------------------------
(* The walks of the clients.                                               *)

\* One more step of Ilast_cursor(), and of the range query.
Onward(k, x) ==
  IF k.collects
  THEN IF \/ ~isValid(k.heap, Last(x))
          \/ currNode(k.heap, Last(x)).entries[entryIndex(Last(x)) + 1].key > k.upper
       THEN x ELSE Append(x, Settle(k.heap, AfterNext(k.heap, Last(x))))
  ELSE IF isValid(k.heap, x) THEN AfterNext(k.heap, x) ELSE x

Iterates(k, z, state) == state[0] = z /\ \A i \in Nat : state[i + 1] = Onward(k, state[i])

LEMMA OnwardStep ==
  ASSUME NEW way, NEW z
  PROVE  Iterates(way, z, CHOOSE f : f = [i \in Nat |-> IF i = 0 THEN z ELSE Onward(way, f[i - 1])])
<1> DEFINE Go(t) == Onward(way, t)
           UpTo(g, m) == g[0] = z /\ \A i \in 0 .. m : i # 0 => g[i] = Go(g[i - 1])
           Is(f) == f = [i \in Nat |-> IF i = 0 THEN z ELSE Go(f[i - 1])]
<1>1. (CHOOSE f : f = [i \in Nat |-> IF i = 0 THEN z ELSE Onward(way, f[i - 1])]) = CHOOSE f : Is(f)
  OBVIOUS
<1> HIDE DEF Go
<1>2. ASSUME NEW l \in Nat, NEW m \in Nat, l <= m, NEW g, NEW k, UpTo(g, l), UpTo(k, m)
      PROVE  g[l] = k[l]
  <2> DEFINE T == {i \in 0 .. l : g[i] # k[i]}
  <2>1. SUFFICES ASSUME T # {} PROVE FALSE
    OBVIOUS
  <2>2. T \in SUBSET Nat
    OBVIOUS
  <2>3. PICK j \in T : \A i \in T : j <= i
    BY VA, <2>1, <2>2, V!LeastNat
  <2>4. j \in Nat /\ j # 0 /\ j <= l /\ j <= m
    BY <1>2, <2>3
  <2>5. j - 1 \in 0 .. l /\ j - 1 \notin T
    BY <2>3, <2>4
  <2> QED
    BY <1>2, <2>3, <2>4, <2>5
<1>3. \A m \in Nat : \E g : UpTo(g, m)
  <2> DEFINE T == {m \in Nat : ~\E g : UpTo(g, m)}
  <2>1. SUFFICES ASSUME T # {} PROVE FALSE
    OBVIOUS
  <2>2. PICK m \in T : \A i \in T : m <= i
    BY VA, <2>1, V!LeastNat
  <2>3. m # 0
    <3>1. UpTo([i \in {0} |-> z], 0)
      OBVIOUS
    <3> QED
      BY <2>2, <3>1
  <2>4. m \in Nat /\ m - 1 \in Nat /\ m - 1 \notin T
    BY <2>2, <2>3
  <2>5. PICK g : UpTo(g, m - 1)
    BY <2>4
  <2> DEFINE k == [i \in 0 .. m |-> IF i = m THEN Go(g[m - 1]) ELSE g[i]]
  <2>6. UpTo(k, m)
    <3>1. k[0] = z
      BY <2>3, <2>4, <2>5
    <3>2. ASSUME NEW i \in 0 .. m, i # 0
          PROVE  k[i] = Go(k[i - 1])
      <4>1. i - 1 \in 0 .. m /\ i - 1 # m /\ k[i - 1] = g[i - 1]
        BY <2>4, <3>2
      <4>2. CASE i = m
        BY <4>1, <4>2
      <4>3. CASE i # m
        <5>1. i \in 0 .. m - 1 /\ k[i] = g[i]
          BY <2>4, <4>3
        <5> QED
          BY <2>5, <3>2, <4>1, <5>1
      <4> QED
        BY <4>2, <4>3
    <3> QED
      BY <3>1, <3>2
  <2> QED
    BY <2>2, <2>6
<1> DEFINE G(m) == CHOOSE g : UpTo(g, m)
           f == [d \in Nat |-> G(d)[d]]
<1>4. \A m \in Nat : UpTo(G(m), m)
  BY <1>3
<1> HIDE DEF G
<1>5. f[0] = z
  BY <1>4
<1>6. ASSUME NEW d \in Nat, d # 0 PROVE f[d] = Go(f[d - 1])
  <2>1. d - 1 \in Nat /\ d \in 0 .. d /\ d - 1 <= d
    BY <1>6
  <2>2. G(d)[d] = Go(G(d)[d - 1])
    BY <1>4, <1>6, <2>1
  <2>3. UpTo(G(d), d) /\ UpTo(G(d - 1), d - 1)
    BY <1>4, <2>1
  <2>4. G(d - 1)[d - 1] = G(d)[d - 1]
    BY <1>2, <2>1, <2>3
  <2> QED
    BY <2>1, <2>2, <2>4
<1>7. Is(f)
  BY <1>5, <1>6
<1> HIDE DEF f
<1> DEFINE state == CHOOSE f1 : Is(f1)
<1>8. Is(state)
  BY <1>7
<1> HIDE DEF state, Is
<1>9. \A i \in Nat : state[i] = IF i = 0 THEN z ELSE Go(state[i - 1])
  <2> DEFINE g == state
  <2>1. g = [i \in Nat |-> IF i = 0 THEN z ELSE Go(g[i - 1])]
    BY <1>8 DEF Is
  <2> HIDE DEF g
  <2>2. \A i \in Nat : g[i] = IF i = 0 THEN z ELSE Go(g[i - 1])
    BY <2>1
  <2> QED
    BY <2>2 DEF g
<1>10. \A i \in Nat : i + 1 \in Nat /\ i + 1 # 0 /\ i + 1 - 1 = i
  OBVIOUS
<1>11. state[0] = z /\ \A i \in Nat : state[i + 1] = Go(state[i])
  BY <1>9, <1>10
<1> QED
  BY <1>1, <1>11 DEF Iterates, Go, state

LEMMA ToEndIs ==
  ASSUME NEW h, NEW p
  PROVE  \E state : /\ Iterates([collects |-> FALSE, heap |-> h], AfterNext(h, p), state)
                    /\ ToEnd(h, p) = state[numRecords]
<1> DEFINE k == [collects |-> FALSE, heap |-> h]
           z == AfterNext(h, p)
           Go(x) == IF isValid(h, x) THEN AfterNext(h, x) ELSE x
           F(w) == [i \in Nat |-> IF i = 0 THEN z ELSE Go(w[i - 1])]
           G(w) == [i \in Nat |-> IF i = 0 THEN z ELSE Onward(k, w[i - 1])]
           state == CHOOSE w : w = G(w)
<1>1. ToEnd(h, p) = (CHOOSE w : w = F(w))[numRecords]
  BY DEF ToEnd
<1>2. \A x : Onward(k, x) = Go(x)
  BY DEF Onward
<1>3. Iterates(k, z, state)
  BY OnwardStep
<1> HIDE DEF k, z, Go
<1>4. ASSUME NEW w PROVE F(w) = G(w)
  BY <1>2, Zenon
<1> HIDE DEF F, G
<1>5. (CHOOSE w : w = F(w)) = (CHOOSE w : w = G(w))
  BY <1>4, Zenon
<1> HIDE DEF state
<1>6. ToEnd(h, p) = state[numRecords]
  BY <1>1, <1>5 DEF state
<1> QED
  BY <1>3, <1>6 DEF k, z

LEMMA CollectIs ==
  ASSUME NEW h, NEW p, NEW upper
  PROVE  \E state :
           /\ Iterates([collects |-> TRUE, heap |-> h, upper |-> upper], <<Settle(h, p)>>, state)
           /\ LET entry(q) == currNode(h, q).entries[entryIndex(q) + 1]
                  stop == state[ArrayRoom]
              IN  Collect(h, p, upper) =
                    [ok |-> isValid(h, p) /\ (~isValid(h, Last(stop)) \/ entry(Last(stop)).key > upper),
                     path |-> Last(stop),
                     records |-> [i \in 1 .. Len(stop) - 1 |-> entry(stop[i]).ptr]]
<1> DEFINE k == [collects |-> TRUE, heap |-> h, upper |-> upper]
           z == <<Settle(h, p)>>
           entry(q) == currNode(h, q).entries[entryIndex(q) + 1]
           past(q) == ~isValid(h, q) \/ entry(q).key > upper
           Go(w) == IF past(Last(w)) THEN w ELSE Append(w, Settle(h, AfterNext(h, Last(w))))
           F(w) == [i \in Nat |-> IF i = 0 THEN z ELSE Go(w[i - 1])]
           G(w) == [i \in Nat |-> IF i = 0 THEN z ELSE Onward(k, w[i - 1])]
           state == CHOOSE w : w = G(w)
           Out(stop) == [ok |-> isValid(h, p) /\ past(Last(stop)), path |-> Last(stop),
                         records |-> [i \in 1 .. Len(stop) - 1 |-> entry(stop[i]).ptr]]
<1>1. Collect(h, p, upper) = Out((CHOOSE w : w = F(w))[ArrayRoom])
  BY DEF Collect
<1>2. \A x : Onward(k, x) = Go(x)
  BY DEF Onward
<1>3. Iterates(k, z, state)
  BY OnwardStep
<1> HIDE DEF k, z, Go
<1>4. ASSUME NEW w PROVE F(w) = G(w)
  BY <1>2, Zenon
<1> HIDE DEF F, G
<1>5. (CHOOSE w : w = F(w)) = (CHOOSE w : w = G(w))
  BY <1>4, Zenon
<1> HIDE DEF state, Out
<1>6. Collect(h, p, upper) = Out(state[ArrayRoom])
  BY <1>1, <1>5 DEF state
<1> QED
  BY <1>3, <1>6 DEF k, z, Out

\* A path, wherever one of the walks is.
LEMMA ToEndPath ==
  ASSUME NEW lev, NEW rng, Live(lev, rng), NEW p, V!Complete(marked, root, depth, p)
  PROVE  V!Complete(marked, root, depth, ToEnd(heap, p))
<1> DEFINE k == [collects |-> FALSE, heap |-> heap]
           ok(q) == V!Complete(marked, root, depth, q)
<1>1. \A q : ok(q) => ok(AfterNext(heap, q))
  BY StepTwins DEF Live
<1>2. PICK state : Iterates(k, AfterNext(heap, p), state) /\ ToEnd(heap, p) = state[numRecords]
  BY ToEndIs
<1>3. \A x : Onward(k, x) = IF isValid(heap, x) THEN AfterNext(heap, x) ELSE x
  BY DEF Onward
<1> HIDE DEF k
<1>4. state[0] = AfterNext(heap, p) /\ \A i \in Nat : state[i + 1] = Onward(k, state[i])
  BY <1>2 DEF Iterates
<1> DEFINE T == {i \in Nat : ~ok(state[i])}
<1>5. ok(p)
  OBVIOUS
<1> HIDE DEF ok
<1>6. T = {}
  <2>1. SUFFICES ASSUME T # {} PROVE FALSE
    OBVIOUS
  <2>2. PICK i \in T : \A j \in T : i <= j
    BY VA, <2>1, V!LeastNat
  <2>3. i # 0
    BY <1>1, <1>4, <1>5, <2>2
  <2>4. i - 1 \in Nat /\ i - 1 \notin T /\ i - 1 + 1 = i
    BY <2>2, <2>3
  <2> DEFINE x == i - 1
  <2>5. state[i] = Onward(k, state[x]) /\ ok(state[x])
    BY <1>4, <2>4
  <2> HIDE DEF x
  <2>6. ok(state[i])
    BY <1>1, <1>3, <2>5
  <2> QED
    BY <2>2, <2>6
<1>7. numRecords \in Nat
  BY FS_CardinalityType, SameLibrary DEF Live, V!Counted
<1> QED
  BY <1>2, <1>6, <1>7 DEF ok

LEMMA CollectPath ==
  ASSUME NEW lev, NEW rng, Live(lev, rng), NEW p, V!Complete(marked, root, depth, p), NEW upper
  PROVE  V!Complete(marked, root, depth, Collect(heap, p, upper).path)
<1> DEFINE k == [collects |-> TRUE, heap |-> heap, upper |-> upper]
           Paths == {q \in Seq(V!Stop) : V!Complete(marked, root, depth, q)}
           z == <<Settle(heap, p)>>
<1>1. \A q \in Paths : Settle(heap, q) \in Paths /\ AfterNext(heap, q) \in Paths
  BY StepTwins DEF Live, V!Complete
<1>2. p \in Paths
  BY DEF V!Complete
<1>3. PICK state : /\ Iterates(k, z, state)
                   /\ Collect(heap, p, upper).path = Last(state[ArrayRoom])
  BY CollectIs
<1>4. \A x : Onward(k, x) = x \/ Onward(k, x) = Append(x, Settle(heap, AfterNext(heap, Last(x))))
  BY DEF Onward
<1> HIDE DEF k
<1>5. state[0] = z /\ \A i \in Nat : state[i + 1] = Onward(k, state[i])
  BY <1>3 DEF Iterates
<1> DEFINE ok(w) == w \in Seq(Paths) /\ w # <<>>
<1>6. ok(z)
  BY <1>1, <1>2
<1>7. ASSUME NEW w, ok(w) PROVE Last(w) \in Paths /\ ok(Onward(k, w))
  <2> HIDE DEF Paths
  <2>1. Len(w) \in 1 .. Len(w)
    BY <1>7
  <2>2. Last(w) \in Paths
    BY <1>7, <2>1, ElementOfSeq DEF Last
  <2> DEFINE q == Settle(heap, AfterNext(heap, Last(w)))
  <2>3. q \in Paths
    BY <1>1, <2>2
  <2> HIDE DEF q
  <2>4. ok(Append(w, q))
    BY <1>7, <2>3
  <2> QED
    BY <1>4, <1>7, <2>2, <2>4 DEF q
<1> HIDE DEF z, ok
<1>8. ok(state[0]) /\ \A i \in Nat : ok(state[i]) => ok(state[i + 1])
  BY <1>5, <1>6, <1>7
<1>9. ok(state[4])
  <2>1. ok(state[0 + 1])
    BY <1>8
  <2>2. ok(state[1 + 1])
    BY <1>8, <2>1
  <2>3. ok(state[2 + 1])
    BY <1>8, <2>2
  <2> QED
    BY <1>8, <2>3
<1>10. ArrayRoom = 4
  BY DEF ArrayRoom
<1> QED
  BY <1>3, <1>7, <1>9, <1>10

\* A valid cursor that is settled is at an entry in use.
LEMMA SettledAt ==
  ASSUME NEW lev, NEW rng, Live(lev, rng), NEW p, V!Complete(marked, root, depth, p),
         isValid(heap, p)
  PROVE  /\ V!AtEntry(marked, V!Left(marked, rng, depth, p), V!Settle(marked, p))
         /\ entryIndex(Settle(heap, p)) \in InUse(currNode(heap, Settle(heap, p)))
<1>1. Twin(heap, marked, root, depth, lev, rng) /\ V!Tree(marked, root, depth, lev, rng, NULL)
  BY DEF Live, Twin
<1>2. V!isValid(marked, p)
  BY <1>1, StopTwins
<1> DEFINE q == V!Settle(marked, p)
<1>3. Settle(heap, p) = q /\ V!Complete(marked, root, depth, q)
  BY <1>1, StepTwins
<1>4. V!AtEntry(marked, V!Left(marked, rng, depth, p), q)
  BY VA, <1>1, <1>2, V!ValidIs, V!SettleIs
<1> HIDE DEF q
<1>5. /\ Last(q) = q[depth + 1] /\ depth \in Nat /\ q[depth + 1].idx \in Int
      /\ SameNode(heap[q[depth + 1].node], marked[q[depth + 1].node])
  <2>1. depth \in Nat /\ Last(q) = q[depth + 1]
    BY <1>1, <1>3, StopTwins
  <2>2. depth + 1 \in 1 .. depth + 1
    BY <2>1
  <2> QED
    BY <1>1, <1>3, <2>1, <2>2, StopTwins
<1> DEFINE x == heap[q[depth + 1].node]
           y == marked[q[depth + 1].node]
           i == q[depth + 1].idx
<1>6. V!currNode(marked, q) = y /\ V!entryIndex(q) = i /\ currNode(heap, q) = x /\ entryIndex(q) = i
  BY <1>5, SameLibrary DEF V!currNode, V!entryIndex, currNode, entryIndex
<1>7. V!numKeys(y) = numKeys(x) /\ numKeys(x) \in Nat
  BY <1>5, NodeTwins
<1>8. i + 1 \in 1 .. V!numKeys(y)
  BY <1>4, <1>6 DEF V!AtEntry
<1> HIDE DEF x, y
<1>9. i \in InUse(x)
  BY <1>5, <1>7, <1>8 DEF InUse
<1> QED
  BY <1>3, <1>4, <1>6, <1>9 DEF q

-----------------------------------------------------------------------------
(* The steps.                                                              *)

Entering(key, record) == [key |-> key, ptr |-> record]

\* RL_PutRecord(): s is the state after putEntry(), v that of the verified tree.
PutResult(c, key, record, s, v, lev, rng) ==
  /\ heap' = s.heap /\ root' = s.root /\ depth' = s.depth /\ numRecords' = s.count
  /\ path' = [path EXCEPT ![c] = AfterNext(s.heap, s.path)]
  /\ Twin(s.heap, v.heap, s.root, s.depth, lev, rng) /\ PutTwin(s, v)
  /\ V!PutDone(marked, numRecords, Entering(key, record), v, lev, rng)
  /\ Mark(s.heap, s.root) = v.heap

LEMMA PutIs ==
  ASSUME NEW lev, NEW rng, Live(lev, rng), NEW c \in Cursor, NEW key \in Key,
         NEW record \in Record, RL_PutRecord(c, key, record)
  PROVE  \E s, v, lv, rg : PutResult(c, key, record, s, v, lv, rg)
<1> DEFINE q == goToKey(heap, path[c], key)
           e == Entering(key, record)
           s == putEntry(PutState(heap, root, depth, numRecords, q), e, e.key)
           v == V!putEntry(V!PutState(marked, root, depth, numRecords, q), e, e.key)
<1>1. /\ Twin(heap, marked, root, depth, lev, rng) /\ V!Tree(marked, root, depth, lev, rng, NULL)
      /\ V!RootOK(marked, root) /\ Used(heap) = V!Used(marked)
  BY TwinNodes DEF Live, Twin
<1>2. V!Complete(marked, root, depth, path[c])
  BY DEF Live, PathOK, RL_PutRecord, Uses
<1>3. e.key = key /\ e \in [key : Key, ptr : Record]
  BY DEF Entering
<1>4. /\ heap' = s.heap /\ root' = s.root /\ depth' = s.depth /\ numRecords' = s.count
      /\ path' = [path EXCEPT ![c] = IF s.path = Lost THEN Lost ELSE AfterNext(s.heap, s.path)]
  BY <1>3 DEF RL_PutRecord, PutState, Entering
<1>5. V!FreeFor(marked, depth + 2)
  <2>1. depth + 2 \in Nat
    BY <1>1, <1>2, StopTwins
  <2>2. Cardinality(Node \ V!Used(marked)) >= depth + 2
    BY <1>1 DEF RL_PutRecord, Room
  <2> DEFINE n == depth + 2
             S == Node \ V!Used(marked)
  <2> HIDE DEF n
  <2>3. V!Cardinality(S) >= n
    BY <2>2, SameLibrary DEF n
  <2>4. V!FreeFor(marked, n)
    BY VA, <2>1, <2>3, V!FreeIs DEF n
  <2> QED
    BY <2>4 DEF n
<1>6. V!SearchPath(marked, root, depth, rng, q, key)
  BY <1>1, <1>2, GoToTwins
<1> HIDE DEF s, v, e, q
<1>7. V!CanPut(marked, root, depth, lev, rng, q, e)
  BY <1>1, <1>3, <1>5, <1>6 DEF V!CanPut
<1>8. PICK lv, rg : /\ PutTwin(s, v) /\ V!PutDone(marked, numRecords, e, v, lv, rg)
                    /\ Twin(s.heap, v.heap, s.root, s.depth, lv, rg)
  BY <1>1, <1>7, PutTwins DEF s, v
<1>9. s.path # Lost
  <2>1. s.path = v.cursor /\ s.root = v.root /\ s.depth = v.depth
    BY <1>8 DEF PutTwin
  <2>2. V!Complete(v.heap, s.root, s.depth, s.path)
    BY <1>8, <2>1 DEF V!PutDone, V!SearchPath
  <2> QED
    BY <1>8, <2>2, StopTwins DEF Lost
<1>10. Mark(s.heap, s.root) = v.heap
  BY <1>8, MarkIs
<1>11. PutResult(c, key, record, s, v, lv, rg)
  BY <1>4, <1>8, <1>9, <1>10 DEF PutResult, e
<1> QED
  BY <1>11

LEMMA PutLive ==
  ASSUME OneCursor, IInv, op # "RL_DeleteRelation", NEW c \in Cursor, NEW key \in Key,
         NEW record \in Record, RL_PutRecord(c, key, record)
  PROVE  IInv'
<1>1. PICK lev, rng : Live(lev, rng)
  BY DEF IInv
<1>2. PICK s, v, lv, rg : PutResult(c, key, record, s, v, lv, rg)
  BY <1>1, PutIs
<1> DEFINE e == Entering(key, record)
<1>3. /\ heap' = s.heap /\ root' = s.root /\ depth' = s.depth /\ numRecords' = s.count
      /\ path' = [path EXCEPT ![c] = AfterNext(s.heap, s.path)]
      /\ Twin(s.heap, v.heap, s.root, s.depth, lv, rg) /\ marked' = v.heap
      /\ s.count = v.count /\ s.path = v.cursor /\ s.root = v.root /\ s.depth = v.depth
      /\ V!PutDone(marked, numRecords, e, v, lv, rg)
  BY <1>2 DEF PutResult, PutTwin, marked
<1> HIDE DEF e
<1>4. /\ V!Complete(v.heap, s.root, s.depth, s.path)
      /\ V!Records(v.heap) = {x \in V!Records(marked) : x.key # e.key} \cup {e}
      /\ s.count = IF \E x \in V!Records(marked) : x.key = e.key THEN numRecords ELSE numRecords + 1
  BY <1>3 DEF V!PutDone, V!SearchPath
<1>5. V!Complete(v.heap, s.root, s.depth, AfterNext(s.heap, s.path))
  BY <1>3, <1>4, StepTwins
<1>6. V!Counted(v.heap, s.count)
  BY VA, <1>1, <1>4, V!CountPut DEF Live
<1>7. path = [d \in Cursor |-> path[d]] /\ \A d \in Cursor : d = c
  BY DEF IInv, OneCursor
<1>8. path'[c] = AfterNext(s.heap, s.path) /\ path' = [d \in Cursor |-> path'[d]] /\ DOMAIN path' = Cursor
  BY <1>3, <1>7
<1>9. \A d \in Cursor : PathOK(path[d])'
  BY <1>3, <1>5, <1>7, <1>8 DEF PathOK
<1>10. Live(lv, rg)'
  BY <1>3, <1>6, <1>9 DEF Live
<1>11. op' # "RL_DeleteRelation"
  BY DEF RL_PutRecord, Returns
<1> QED
  BY <1>8, <1>10, <1>11 DEF IInv
\* The operations that leave the tree, and that are called while there is one.
LEMMA CursorLive ==
  ASSUME OneCursor, IInv, op # "RL_DeleteRelation", NEW c \in Cursor,
         \/ RL_NewCursor(c) \/ RL_FreeCursor(c) \/ RL_MoveToFirst(c)
         \/ RL_MoveToNextValid(c) \/ RL_MoveToPreviousNotFirst(c)
         \/ RL_GetRecord(c) \/ RL_GetKey(c) \/ \E k \in Key : RL_MoveToKey(c, k)
  PROVE  IInv'
<1>1. PICK lev, rng : Live(lev, rng)
  BY DEF IInv
<1>2. path[c] # NULL => V!Complete(marked, root, depth, path[c])
  BY <1>1 DEF Live, PathOK
<1>3. ASSUME NEW p, Moves(c, p), PathOK(p), op' # "RL_DeleteRelation" PROVE IInv'
  BY <1>3, MovesLive
<1>4. CASE RL_NewCursor(c) \/ RL_MoveToFirst(c)
  <2> DEFINE p == moveToFirst(heap, root, <<>>)
  <2>1. Moves(c, p) /\ op' # "RL_DeleteRelation"
    BY <1>4 DEF RL_NewCursor, RL_MoveToFirst, Returns
  <2>2. V!Complete(marked, root, depth, p)
    BY <1>1, FirstPath
  <2> HIDE DEF p
  <2> QED
    BY <1>3, <2>1, <2>2 DEF PathOK
<1>5. CASE RL_FreeCursor(c)
  <2>1. Moves(c, NULL) /\ op' # "RL_DeleteRelation" /\ PathOK(NULL)
    BY <1>5 DEF RL_FreeCursor, Returns, PathOK
  <2> QED
    BY <1>3, <2>1
<1>6. CASE RL_MoveToNextValid(c) \/ RL_MoveToPreviousNotFirst(c)
  <2>1. PICK p : /\ Moves(c, p) /\ op' # "RL_DeleteRelation" /\ path[c] # NULL
                 /\ p \in {path[c], AfterNext(heap, path[c]), AfterPrev(heap, path[c])}
    BY <1>6 DEF RL_MoveToNextValid, RL_MoveToPreviousNotFirst, Returns, Uses
  <2>2. PathOK(p)
    BY <1>1, <1>2, <2>1, PathMoves DEF PathOK
  <2> QED
    BY <1>3, <2>1, <2>2
<1>7. CASE RL_GetRecord(c) \/ RL_GetKey(c)
  <2> DEFINE q == Settle(heap, path[c])
             known == q # Lost /\ entryIndex(q) \in InUse(currNode(heap, q))
             p == IF known THEN q ELSE Lost
  <2>1. Moves(c, p) /\ op' # "RL_DeleteRelation" /\ path[c] # NULL /\ isValid(heap, path[c])
    BY <1>7 DEF RL_GetRecord, RL_GetKey, GetEntry, Returns, Uses
  <2>2. known /\ PathOK(q)
    BY <1>1, <1>2, <2>1, SettledAt, PathMoves
  <2> HIDE DEF q, known
  <2>3. p = q
    BY <2>2
  <2> HIDE DEF p
  <2> QED
    BY <1>3, <2>1, <2>2, <2>3
<1>8. CASE \E k \in Key : RL_MoveToKey(c, k)
  <2>1. PICK k \in Key : RL_MoveToKey(c, k)
    BY <1>8
  <2> DEFINE p == goToKey(heap, path[c], k)
  <2>2. PICK q : /\ Moves(c, q) /\ op' # "RL_DeleteRelation" /\ path[c] # NULL
                 /\ q = p \/ q = Settle(heap, p)
    BY <2>1 DEF RL_MoveToKey, Returns, Uses
  <2>3. V!Complete(marked, root, depth, p)
    BY <1>1, <1>2, <2>2, GoToTwins DEF Live, V!SearchPath
  <2> HIDE DEF p
  <2>4. PathOK(q)
    BY <1>1, <2>2, <2>3, PathMoves DEF PathOK
  <2> QED
    BY <1>3, <2>2, <2>4
<1> QED
  BY <1>4, <1>5, <1>6, <1>7, <1>8

LEMMA AskLive ==
  ASSUME OneCursor, IInv, op # "RL_DeleteRelation", NEW c \in Cursor,
         \/ \E k \in Key : RL_DeleteRecord(c, k)
         \/ RL_IsEmpty(c) \/ RL_CursorIsValid(c) \/ RL_NumRecords(c)
  PROVE  IInv'
<1>1. UNCHANGED <<tree, path>> /\ op' # "RL_DeleteRelation"
  BY DEF RL_DeleteRecord, RL_IsEmpty, RL_CursorIsValid, RL_NumRecords, Returns
<1> QED
  BY <1>1, RestsLive

LEMMA ClientLive ==
  ASSUME OneCursor, IInv, op # "RL_DeleteRelation", ClientNext
  PROVE  IInv'
<1>1. PICK lev, rng : Live(lev, rng)
  BY DEF IInv
<1>2. \A c \in Cursor : path[c] # NULL => V!Complete(marked, root, depth, path[c])
  BY <1>1 DEF Live, PathOK
<1>3. ASSUME NEW c \in Cursor, NEW p, Moves(c, p), PathOK(p), op' # "RL_DeleteRelation" PROVE IInv'
  BY <1>3, MovesLive
<1>4. V!Complete(marked, root, depth, moveToFirst(heap, root, <<>>))
  BY <1>1, FirstPath
<1>5. ASSUME NEW c \in Cursor, NEW key \in Key, Imake_cursor(c, key) PROVE IInv'
  <2> DEFINE z == moveToFirst(heap, root, <<>>)
             q == Settle(heap, goToKey(heap, z, key))
  <2>1. PICK p : Moves(c, p) /\ p \in {q, NULL} /\ op' # "RL_DeleteRelation"
    BY <1>5 DEF Imake_cursor, Returns
  <2> HIDE DEF z
  <2>2. V!Complete(marked, root, depth, z)
    BY <1>4 DEF z
  <2>3. V!Complete(marked, root, depth, goToKey(heap, z, key))
    BY <1>1, <2>2, GoToTwins DEF Live, V!SearchPath
  <2>4. PathOK(q)
    BY <1>1, <2>3, PathMoves
  <2>5. PathOK(NULL)
    BY DEF PathOK
  <2> HIDE DEF q
  <2> QED
    BY <1>3, <2>1, <2>4, <2>5
<1>6. ASSUME NEW c \in Cursor, Ilast_cursor(c) PROVE IInv'
  <2> DEFINE q == ToEnd(heap, path[c])
  <2>1. Moves(c, AfterPrev(heap, q)) /\ op' # "RL_DeleteRelation" /\ path[c] # NULL
    BY <1>6 DEF Ilast_cursor, Returns, Uses
  <2>2. V!Complete(marked, root, depth, q)
    BY <1>1, <1>2, <2>1, ToEndPath
  <2> HIDE DEF q
  <2>3. PathOK(AfterPrev(heap, q))
    BY <1>1, <2>2, PathMoves
  <2> QED
    BY <1>3, <2>1, <2>3
<1>7. ASSUME NEW c \in Cursor, Ifirst_cursor(c) PROVE IInv'
  <2> DEFINE p == moveToFirst(heap, root, <<>>)
  <2>1. Moves(c, p) /\ op' # "RL_DeleteRelation"
    BY <1>7 DEF Ifirst_cursor, Returns
  <2> HIDE DEF p
  <2> QED
    BY <1>3, <1>4, <2>1 DEF PathOK, p
<1>8. ASSUME NEW c \in Cursor,
             Inext_cursor(c) \/ Iprev_cursor(c) \/ Iget_key(c) \/ Iget_value(c)
      PROVE  IInv'
  <2>1. PICK p : /\ Moves(c, p) /\ op' # "RL_DeleteRelation" /\ path[c] # NULL
                 /\ p \in {path[c], AfterNext(heap, path[c]), AfterPrev(heap, path[c]),
                           Settle(heap, path[c])}
    BY <1>8 DEF Inext_cursor, Iprev_cursor, Iget_key, Iget_value, Returns, Uses
  <2>2. PathOK(p)
    BY <1>1, <1>2, <2>1, PathMoves DEF PathOK
  <2> QED
    BY <1>3, <2>1, <2>2
<1>9. ASSUME NEW c \in Cursor, NEW lower \in Key, NEW upper \in Key,
             RLAPP_RangeQuery(c, lower, upper)
      PROVE  IInv'
  <2> DEFINE q == goToKey(heap, path[c], lower)
  <2>1. Moves(c, Collect(heap, q, upper).path) /\ op' # "RL_DeleteRelation" /\ path[c] # NULL
    BY <1>9 DEF RLAPP_RangeQuery, Returns, Uses
  <2>2. V!Complete(marked, root, depth, q)
    BY <1>1, <1>2, <2>1, GoToTwins DEF Live, V!SearchPath
  <2> HIDE DEF q
  <2>3. PathOK(Collect(heap, q, upper).path)
    BY <1>1, <2>2, CollectPath DEF PathOK
  <2> QED
    BY <1>3, <2>1, <2>3
<1> QED
  BY <1>5, <1>6, <1>7, <1>8, <1>9 DEF ClientNext
-----------------------------------------------------------------------------
(* The deletion.                                                           *)

\* The nodes that handleDeleteBtree() calls itself for.
Kin(h, m) == IF h[m].isLeaf THEN {} ELSE Children(h[m])

LEMMA KinIs ==
  ASSUME NEW h, NEW g, NEW r, NEW dep, NEW lev, NEW rng, Twin(h, g, r, dep, lev, rng)
  PROVE  /\ r \in Used(h) /\ lev[r] = dep /\ dep \in Nat
         /\ \A m \in Used(h) :
              /\ Kin(h, m) \subseteq Used(h) /\ lev[m] \in Nat /\ lev[m] <= dep
              /\ \A k \in Kin(h, m) : lev[k] = lev[m] - 1
         /\ \A n \in Used(h) \ {r} : \E m \in Used(h) : n \in Kin(h, m)
<1>1. V!Tree(g, r, dep, lev, rng, NULL) /\ Same(h, g) /\ V!Used(g) = Used(h) /\ Used(h) \subseteq Node
  BY TwinNodes DEF Twin
<1>2. /\ r \in Used(h) /\ lev[r] = dep /\ dep \in Nat /\ lev \in [Node -> Nat]
      /\ \A n \in Used(h) \ {r} :
           lev[n] < dep /\ \E m \in V!Inner(g) : \E i \in V!Index(g[m]) : V!Child(g[m], i) = n
      /\ \A m \in V!Inner(g) : \A i \in V!Index(g[m]) :
           V!Child(g[m], i) \in Used(h) /\ lev[V!Child(g[m], i)] = lev[m] - 1
  BY <1>1 DEF V!Tree, V!Shape, V!Reached, V!Kids, V!KidOK
<1>3. ASSUME NEW m \in Used(h), ~h[m].isLeaf
      PROVE  \A k : k \in Kin(h, m) <=> \E i \in V!Index(g[m]) : V!Child(g[m], i) = k
  <2> DEFINE x == h[m]
             y == g[m]
             s == x.entries
  <2>1. SameNode(x, y)
    BY <1>1, TwinNodes
  <2>2. V!numKeys(y) = Len(s) /\ Len(s) \in Nat /\ \A i : V!Child(y, i) = Child(x, i)
    BY <2>1, NodeTwins DEF numKeys
  <2>3. s \in Seq(Entry)
    BY <2>1, NodeTwins
  <2>4. Kin(h, m) = {x.ptr0} \cup {e.ptr : e \in Range(s)}
    BY <1>3 DEF Kin, Children
  <2>5. \A i : V!Child(y, i) = IF i = -1 THEN x.ptr0 ELSE s[i + 1].ptr
    BY <2>2 DEF Child
  <2>6. V!Index(y) = -1 .. Len(s) - 1
    BY <2>2 DEF V!Index
  <2>7. Range(s) = {s[i] : i \in 1 .. Len(s)}
    BY <2>3 DEF Range
  <2> HIDE DEF x, y, s
  <2>8. ASSUME NEW k PROVE k \in Kin(h, m) <=> k = x.ptr0 \/ \E i \in 1 .. Len(s) : s[i].ptr = k
    BY <2>4, <2>7
  <2>9. ASSUME NEW k, NEW i \in 1 .. Len(s), s[i].ptr = k
        PROVE  \E j \in V!Index(y) : V!Child(y, j) = k
    <3>1. i - 1 \in V!Index(y) /\ i - 1 # -1 /\ i - 1 + 1 = i
      BY <2>2, <2>6
    <3>2. V!Child(y, i - 1) = k
      BY <2>5, <2>9, <3>1
    <3> QED
      BY <3>1, <3>2
  <2>10. ASSUME NEW j \in V!Index(y)
         PROVE  V!Child(y, j) = x.ptr0 \/ \E i \in 1 .. Len(s) : s[i].ptr = V!Child(y, j)
    <3>1. j # -1 => j + 1 \in 1 .. Len(s)
      BY <2>2, <2>6
    <3> QED
      BY <2>5, <3>1
  <2>11. -1 \in V!Index(y) /\ V!Child(y, -1) = x.ptr0
    BY <2>2, <2>5, <2>6
  <2> QED
    BY <2>8, <2>9, <2>10, <2>11 DEF y
<1>4. \A m \in Used(h) : m \in V!Inner(g) <=> ~h[m].isLeaf
  BY <1>1, TreeNodes DEF V!Inner
<1>5. ASSUME NEW m \in Used(h)
      PROVE  /\ Kin(h, m) \subseteq Used(h) /\ lev[m] \in Nat /\ lev[m] <= dep
             /\ \A k \in Kin(h, m) : lev[k] = lev[m] - 1
  <2>1. lev[m] \in Nat /\ lev[m] <= dep
    BY <1>1, <1>2
  <2>2. h[m].isLeaf => Kin(h, m) = {}
    BY DEF Kin
  <2> QED
    BY <1>2, <1>3, <1>4, <2>1, <2>2
<1>6. V!Inner(g) \subseteq Used(h)
  BY <1>1 DEF V!Inner
<1>7. \A n \in Used(h) \ {r} : \E m \in Used(h) : n \in Kin(h, m)
  BY <1>2, <1>3, <1>4, <1>6
<1> QED
  BY <1>2, <1>5, <1>7

\* The recursion of handleDeleteBtree() defines a function.
LEMMA FreedIs ==
  ASSUME NEW h, \A m \in Used(h) : Kin(h, m) \subseteq Used(h)
  PROVE  \E f : \A m \in Used(h) :
           /\ handleDeleteBtree(h, m) = f[m]
           /\ \A n : n \in f[m] <=> \E k \in Kin(h, m) : n = k \/ n \in f[k]
<1> DEFINE All(f, m) == UNION {{k} \cup f[k] : k \in Kin(h, m)}
           Is(f) == f = [m \in Used(h) |-> All(f, m)]
           Closed(S) == \A n \in S : Kin(h, n) \subseteq S
           Below(m) == {n \in Used(h) : \A S \in SUBSET Used(h) :
                          Closed(S) /\ Kin(h, m) \subseteq S => n \in S}
           b == [m \in Used(h) |-> Below(m)]
<1>1. ASSUME NEW m \in Used(h) PROVE Below(m) = All(b, m)
  <2>1. \A k \in Kin(h, m) : k \in Used(h) /\ b[k] = Below(k)
    OBVIOUS
  <2> HIDE DEF b
  <2>2. \A n : n \in All(b, m) <=> \E k \in Kin(h, m) : n = k \/ n \in Below(k)
    BY <2>1
  <2> HIDE DEF All
  <2>3. ASSUME NEW n, n \in All(b, m) PROVE n \in Below(m)
    <3>1. PICK k \in Kin(h, m) : n = k \/ n \in Below(k)
      BY <2>2, <2>3
    <3>2. ASSUME NEW S \in SUBSET Used(h), Closed(S), Kin(h, m) \subseteq S PROVE n \in S
      BY <3>1, <3>2
    <3> QED
      BY <2>1, <3>1, <3>2
  <2>4. All(b, m) \in SUBSET Used(h) /\ Kin(h, m) \subseteq All(b, m)
    BY <2>2, <2>3
  <2>5. ASSUME NEW n \in All(b, m), NEW x \in Kin(h, n) PROVE x \in All(b, m)
    <3>1. PICK k \in Kin(h, m) : n = k \/ n \in Below(k)
      BY <2>2
    <3>2. k \in Used(h) /\ n \in Used(h) /\ x \in Used(h)
      BY <2>4
    <3>3. ASSUME NEW S \in SUBSET Used(h), Closed(S), Kin(h, k) \subseteq S PROVE x \in S
      BY <3>1, <3>3
    <3>4. x \in Below(k)
      BY <3>2, <3>3
    <3> QED
      BY <2>2, <3>1, <3>4
  <2>6. Closed(All(b, m))
    BY <2>5
  <2>7. \A n \in Below(m) : n \in All(b, m)
    BY <2>4, <2>6
  <2> HIDE DEF Below
  <2> QED
    BY <2>3, <2>7
<1>2. Is(b)
  <2> HIDE DEF Below, All
  <2>1. \A m \in Used(h) : Below(m) = All(b, m)
    BY <1>1
  <2> DEFINE c == b
  <2>2. b = [m \in Used(h) |-> Below(m)] /\ c = b
    OBVIOUS
  <2> HIDE DEF b
  <2> QED
    BY <2>1, <2>2, Zenon
<1> HIDE DEF b
<1> DEFINE F(f) == [m \in Used(h) |-> IF h[m].isLeaf THEN {}
                                      ELSE UNION {{k} \cup f[k] : k \in Children(h[m])}]
           G(f) == [m \in Used(h) |-> All(f, m)]
<1>3. ASSUME NEW f PROVE F(f) = G(f)
  <2>1. \A m \in Used(h) : (IF h[m].isLeaf THEN {} ELSE UNION {{k} \cup f[k] : k \in Children(h[m])})
                           = All(f, m)
    BY DEF Kin
  <2> HIDE DEF All
  <2> QED
    BY <2>1, Zenon
<1> DEFINE freed == CHOOSE f : f = G(f)
<1>4. \A m : handleDeleteBtree(h, m) = (CHOOSE f : f = F(f))[m]
  BY DEF handleDeleteBtree
<1>5. \E f : f = G(f)
  BY <1>2
<1> HIDE DEF F, G
<1>6. (CHOOSE f : f = F(f)) = freed
  BY <1>3, Zenon
<1>7. freed = G(freed)
  BY <1>5
<1> HIDE DEF freed
<1>8. \A m \in Used(h) : freed[m] = All(freed, m)
  <2> HIDE DEF All
  <2> DEFINE c == freed
  <2>1. c = [m \in Used(h) |-> All(freed, m)]
    BY <1>7 DEF G
  <2> HIDE DEF c
  <2>2. \A m \in Used(h) : c[m] = All(freed, m)
    BY <2>1
  <2> QED
    BY <2>2 DEF c
<1>9. \A m \in Used(h) : \A n : n \in freed[m] <=> \E k \in Kin(h, m) : n = k \/ n \in freed[k]
  BY <1>8
<1> QED
  BY <1>4, <1>6, <1>9

\* All nodes below the root are freed, and the root is not.
LEMMA DeletesAll ==
  ASSUME NEW h, NEW g, NEW r, NEW dep, NEW lev, NEW rng, Twin(h, g, r, dep, lev, rng)
  PROVE  handleDeleteBtree(h, r) = Used(h) \ {r}
<1>1. /\ r \in Used(h) /\ lev[r] = dep /\ dep \in Nat
      /\ \A m \in Used(h) :
           /\ Kin(h, m) \subseteq Used(h) /\ lev[m] \in Nat /\ lev[m] <= dep
           /\ \A k \in Kin(h, m) : lev[k] = lev[m] - 1
      /\ \A n \in Used(h) \ {r} : \E m \in Used(h) : n \in Kin(h, m)
  BY KinIs
<1>2. PICK f : \A m \in Used(h) :
        /\ handleDeleteBtree(h, m) = f[m]
        /\ \A n : n \in f[m] <=> \E k \in Kin(h, m) : n = k \/ n \in f[k]
  BY <1>1, FreedIs
<1> DEFINE Below(m) == \A n \in f[m] : n \in Used(h) /\ lev[n] < lev[m] /\ Kin(h, n) \subseteq f[m]
           T == {v \in Nat : \E m \in Used(h) : lev[m] = v /\ ~Below(m)}
<1>3. T = {}
  <2>1. SUFFICES ASSUME T # {} PROVE FALSE
    OBVIOUS
  <2>2. PICK v \in T : \A x \in T : v <= x
    BY VA, <2>1, V!LeastNat
  <2>3. PICK m \in Used(h) : lev[m] = v /\ ~Below(m)
    BY <2>2
  <2>4. ASSUME NEW k \in Kin(h, m) PROVE k \in Used(h) /\ lev[k] < lev[m] /\ Below(k)
    <3>1. k \in Used(h) /\ lev[k] = v - 1 /\ lev[k] \in Nat
      BY <1>1, <2>3
    <3>2. lev[k] \notin T
      BY <2>2, <3>1
    <3> QED
      BY <2>3, <3>1, <3>2
  <2>5. ASSUME NEW n \in f[m]
        PROVE  n \in Used(h) /\ lev[n] < lev[m] /\ Kin(h, n) \subseteq f[m]
    <3>1. PICK k \in Kin(h, m) : n = k \/ n \in f[k]
      BY <1>2
    <3>2. k \in Used(h) /\ lev[k] < lev[m] /\ Below(k)
      BY <2>4
    <3>3. f[k] \subseteq f[m] /\ Kin(h, k) \subseteq f[k]
      BY <1>2, <3>1, <3>2
    <3>4. CASE n = k
      BY <3>2, <3>3, <3>4
    <3>5. CASE n \in f[k]
      <4>1. n \in Used(h) /\ lev[n] < lev[k] /\ Kin(h, n) \subseteq f[k]
        BY <3>2, <3>5
      <4>2. lev[n] \in Nat /\ lev[k] \in Nat /\ lev[m] \in Nat
        BY <1>1, <3>2, <4>1
      <4> QED
        BY <3>2, <3>3, <4>1, <4>2
    <3> QED
      BY <3>1, <3>4, <3>5
  <2> QED
    BY <2>3, <2>5
<1>4. Below(r) /\ Kin(h, r) \subseteq f[r]
  BY <1>1, <1>2, <1>3
<1> DEFINE U == {v \in Nat : \E n \in Used(h) \ {r} : n \notin f[r] /\ v = dep - lev[n]}
<1>5. U = {}
  <2>1. SUFFICES ASSUME U # {} PROVE FALSE
    OBVIOUS
  <2>2. PICK v \in U : \A x \in U : v <= x
    BY VA, <2>1, V!LeastNat
  <2>3. PICK n \in Used(h) \ {r} : n \notin f[r] /\ v = dep - lev[n]
    BY <2>2
  <2>4. PICK m \in Used(h) : n \in Kin(h, m)
    BY <1>1, <2>3
  <2>5. lev[n] = lev[m] - 1 /\ lev[m] \in Nat /\ lev[n] \in Nat /\ lev[m] <= dep
    BY <1>1, <2>3, <2>4
  <2>6. m # r /\ m \notin f[r]
    BY <1>4, <2>3, <2>4
  <2>7. dep - lev[m] \in U /\ dep - lev[m] < v
    BY <1>1, <2>3, <2>5, <2>6
  <2> QED
    BY <1>1, <2>2, <2>3, <2>5, <2>7
<1>6. \A n \in Used(h) \ {r} : n \in f[r]
  <2>1. ASSUME NEW n \in Used(h) \ {r}, n \notin f[r] PROVE dep - lev[n] \in U
    BY <1>1, <2>1
  <2> QED
    BY <1>5, <2>1
<1>7. r \notin f[r]
  BY <1>1, <1>4
<1>8. f[r] = Used(h) \ {r}
  BY <1>4, <1>6, <1>7
<1> QED
  BY <1>1, <1>2, <1>8

LEMMA DeleteGone ==
  ASSUME IInv, op # "RL_DeleteRelation", RL_DeleteRelation
  PROVE  IInv'
<1>1. PICK lev, rng : Live(lev, rng)
  BY DEF IInv
<1>2. Twin(heap, marked, root, depth, lev, rng) /\ V!Counted(marked, numRecords)
  BY <1>1 DEF Live
<1>3. root \in Used(heap) /\ depth \in Nat
  BY <1>2, KinIs
<1>4. handleDeleteBtree(heap, root) = Used(heap) \ {root}
  BY <1>2, DeletesAll
<1>5. /\ heap' = [n \in Node |-> IF n \in Used(heap) \ {root} THEN NULL ELSE heap[n]]
      /\ root' = root /\ numRecords' = numRecords /\ depth' = depth /\ path' = path
      /\ op' = "RL_DeleteRelation" /\ \A c \in Cursor : path[c] = NULL
  BY <1>4 DEF RL_DeleteRelation, Returns
<1>6. heap \in [Node -> BtNodes \cup {NULL}]
  BY <1>2 DEF Twin, Same
<1>7. heap' \in [Node -> BtNodes \cup {NULL}] /\ Used(heap)' = {root}
  BY <1>3, <1>5, <1>6 DEF Used
<1>8. numRecords \in Nat
  BY <1>2, FS_CardinalityType, SameLibrary DEF V!Counted
<1>9. root \in Node
  BY <1>3 DEF Used
<1>10. Gone'
  BY <1>3, <1>5, <1>7, <1>8, <1>9 DEF Gone
<1> QED
  BY <1>5, <1>10 DEF IInv

\* Every step but the last is taken before the relation is deleted.
LEMMA CallsBefore ==
  ASSUME Next \/ ClientNext, ~Ended
  PROVE  op # "RL_DeleteRelation"
<1>1. ASSUME ClientNext PROVE op # "RL_DeleteRelation"
  BY <1>1 DEF ClientNext, Imake_cursor, Ilast_cursor, Ifirst_cursor, Inext_cursor,
     Iprev_cursor, Iget_key, Iget_value, RLAPP_RangeQuery, Uses, Calls
<1>2. ASSUME Next PROVE \E o : Calls(o)
  <2>1. RL_DeleteRelation => Calls("RL_DeleteRelation")
    BY DEF RL_DeleteRelation
  <2>2. ASSUME NEW c \in Cursor
        PROVE  /\ RL_NewCursor(c) \/ RL_FreeCursor(c) => \E o : Calls(o)
               /\ RL_MoveToFirst(c) \/ RL_MoveToNextValid(c) => \E o : Calls(o)
               /\ RL_MoveToPreviousNotFirst(c) => \E o : Calls(o)
               /\ RL_IsEmpty(c) \/ RL_CursorIsValid(c) \/ RL_NumRecords(c) => \E o : Calls(o)
    BY DEF RL_NewCursor, RL_FreeCursor, RL_MoveToFirst, RL_MoveToNextValid,
       RL_MoveToPreviousNotFirst, RL_IsEmpty, RL_CursorIsValid, RL_NumRecords, Uses
  <2>3. ASSUME NEW c \in Cursor
        PROVE  RL_GetRecord(c) \/ RL_GetKey(c) => \E o : Calls(o)
    BY DEF RL_GetRecord, RL_GetKey, GetEntry, Uses
  <2>4. ASSUME NEW c \in Cursor, NEW k \in Key
        PROVE  /\ RL_MoveToKey(c, k) \/ RL_DeleteRecord(c, k) => \E o : Calls(o)
               /\ \A r \in Record : RL_PutRecord(c, k, r) => \E o : Calls(o)
    BY DEF RL_MoveToKey, RL_DeleteRecord, RL_PutRecord, Uses
  <2> QED
    BY <1>2, <2>1, <2>2, <2>3, <2>4 DEF Next
<1>3. \A o : Calls(o) => op # "RL_DeleteRelation"
  BY DEF Calls
<1> QED
  BY <1>1, <1>2, <1>3

\* Every step keeps the invariant.
LEMMA StaysLive ==
  ASSUME OneCursor, IInv, [Next \/ ClientNext]_vars
  PROVE  IInv'
<1>1. CASE Ended \/ UNCHANGED vars
  <2>1. /\ heap' = heap /\ root' = root /\ numRecords' = numRecords /\ depth' = depth
        /\ path' = path /\ op' = op
    BY <1>1 DEF Ended, vars, tree
  <2>2. CASE op = "RL_DeleteRelation"
    BY <2>1, <2>2 DEF IInv, Gone
  <2>3. CASE op # "RL_DeleteRelation"
    BY <2>1, <2>3, RestsLive DEF tree
  <2> QED
    BY <2>2, <2>3
<1>2. CASE ~(Ended \/ UNCHANGED vars)
  <2>1. Next \/ ClientNext
    BY <1>2
  <2>2. op # "RL_DeleteRelation"
    BY <1>2, <2>1, CallsBefore
  <2>3. CASE ClientNext
    BY <2>2, <2>3, ClientLive
  <2>4. CASE RL_DeleteRelation
    BY <2>2, <2>4, DeleteGone
  <2>5. ASSUME NEW c \in Cursor, NEW k \in Key, NEW r \in Record, RL_PutRecord(c, k, r)
        PROVE  IInv'
    BY <2>2, <2>5, PutLive
  <2>6. ASSUME NEW c \in Cursor,
               \/ RL_NewCursor(c) \/ RL_FreeCursor(c) \/ RL_MoveToFirst(c)
               \/ RL_MoveToNextValid(c) \/ RL_MoveToPreviousNotFirst(c)
               \/ RL_GetRecord(c) \/ RL_GetKey(c) \/ \E k \in Key : RL_MoveToKey(c, k)
        PROVE  IInv'
    BY <2>2, <2>6, CursorLive
  <2>7. ASSUME NEW c \in Cursor,
               \/ \E k \in Key : RL_DeleteRecord(c, k)
               \/ RL_IsEmpty(c) \/ RL_CursorIsValid(c) \/ RL_NumRecords(c)
        PROVE  IInv'
    BY <2>2, <2>7, AskLive
  <2> QED
    BY <1>2, <2>1, <2>3, <2>4, <2>5, <2>6, <2>7 DEF Next
<1> QED
  BY <1>1, <1>2
-----------------------------------------------------------------------------
(* The tree is well formed.                                                *)

LEMMA VerifiedInv ==
  ASSUME OneCursor, NEW lev, NEW rng, Live(lev, rng)
  PROVE  V!TreeInv(lev, rng)
<1>1. handle \in Cursor
  BY DEF OneCursor, handle
<1>2. /\ V!Tree(marked, root, depth, lev, rng, NULL) /\ V!RootOK(marked, root)
      /\ V!Counted(marked, numRecords)
      /\ path[handle] # NULL => V!Complete(marked, root, depth, path[handle])
  BY <1>1 DEF Live, Twin, PathOK
<1> QED
  BY <1>2 DEF V!TreeInv, marked

LEMMA KeysOrdered ==
  ASSUME OneCursor, NEW lev, NEW rng, Live(lev, rng)
  PROVE  Ordered
<1>1. Twin(heap, marked, root, depth, lev, rng) /\ Same(heap, marked)
  BY DEF Live, Twin
<1>2. V!Ordered
  BY VA, VerifiedInv, V!KeysInOrder
<1>3. \A n \in Used(heap) :
        /\ \A i \in 1 .. V!numKeys(marked[n]) - 1 :
             marked[n].entries[i].key < marked[n].entries[i + 1].key
        /\ \A i \in 1 .. V!numKeys(marked[n]) :
             V!Through(V!moveToKey(marked, root, marked[n].entries[i].key, <<>>), n)
  BY <1>1, <1>2, TwinNodes DEF V!Ordered, marked
<1> SUFFICES ASSUME NEW n \in Used(heap)
             PROVE  /\ \A i \in 1 .. numKeys(heap[n]) - 1 : KeyAt(heap[n], i - 1) < KeyAt(heap[n], i)
                    /\ \A i \in InUse(heap[n]) :
                         Through(moveToKey(heap, root, KeyAt(heap[n], i), <<>>), n)
  BY DEF Ordered
<1> DEFINE x == heap[n]
           y == marked[n]
<1>4. SameNode(x, y)
  BY <1>1, TwinNodes
<1>5. /\ V!numKeys(y) = numKeys(x) /\ numKeys(x) \in Nat /\ x.entries \in Seq(Entry)
      /\ y.entries = x.entries
  BY <1>4, NodeTwins DEF SameNode
<1>6. /\ \A i \in 1 .. V!numKeys(y) - 1 : y.entries[i].key < y.entries[i + 1].key
      /\ \A i \in 1 .. V!numKeys(y) : V!Through(V!moveToKey(marked, root, y.entries[i].key, <<>>), n)
  BY <1>3
<1> HIDE DEF x, y
<1>7. ASSUME NEW i \in 1 .. numKeys(x) - 1 PROVE KeyAt(x, i - 1) < KeyAt(x, i)
  <2>1. x.entries[i].key < x.entries[i + 1].key
    BY <1>5, <1>6
  <2>2. i - 1 + 1 = i
    BY <1>5
  <2> QED
    BY <2>1, <2>2 DEF KeyAt
<1>8. ASSUME NEW i \in InUse(x)
      PROVE  Through(moveToKey(heap, root, KeyAt(x, i), <<>>), n)
  <2> DEFINE j == i + 1
             k == KeyAt(x, i)
             s == x.entries
             no == <<>>
  <2>1. j \in 1 .. V!numKeys(y) /\ j \in 1 .. Len(s) /\ k = s[j].key
    BY <1>5 DEF InUse, KeyAt, numKeys
  <2>2. s \in Seq(Entry)
    BY <1>5
  <2> HIDE DEF j, s, k
  <2>3. s[j] \in Entry
    BY <2>1, <2>2, ElementOfSeq
  <2>4. k \in Key
    BY <2>1, <2>3 DEF Entry
  <2> HIDE DEF no
  <2>5. moveToKey(heap, root, k, no) = V!moveToKey(marked, root, k, no)
    BY <1>1, <2>4, SearchTwins
  <2>6. V!Through(V!moveToKey(marked, root, k, no), n)
    BY <1>5, <1>6, <2>1 DEF s, no
  <2>7. Through(moveToKey(heap, root, k, no), n)
    BY <2>5, <2>6 DEF V!Through, Through
  <2> QED
    BY <2>7 DEF k, no
<1> QED
  BY <1>7, <1>8 DEF x

LEMMA TreeBalanced ==
  ASSUME OneCursor, NEW lev, NEW rng, Live(lev, rng)
  PROVE  Balanced
<1>1. Twin(heap, marked, root, depth, lev, rng) /\ Same(heap, marked)
  BY DEF Live, Twin
<1>2. V!Tree(marked, root, depth, lev, rng, NULL)
  BY <1>1 DEF Twin
<1>3. V!Balanced
  BY VA, VerifiedInv, V!SameDepth
<1>4. ASSUME NEW k \in Key
      PROVE  LET p == moveToKey(heap, root, k, <<>>)
             IN  Len(p) = depth + 1 /\ currNode(heap, p).isLeaf
  <2> DEFINE no == <<>>
             p == moveToKey(heap, root, k, no)
  <2>1. V!LeadsTo(marked, root, no, root)
    BY <1>2 DEF V!Tree, V!Shape, V!LeadsTo
  <2>2. rng[root] = Key
    BY <1>2 DEF V!Tree, V!Shape
  <2> HIDE DEF no
  <2>3. V!SearchPath(marked, root, depth, rng, V!moveToKey(marked, root, k, no), k)
    BY VA, <1>2, <2>1, <2>2, V!MoveToKeyIs
  <2>4. p = V!moveToKey(marked, root, k, no)
    BY <1>1, SearchTwins
  <2> HIDE DEF p
  <2>5. V!Complete(marked, root, depth, p)
    BY <2>3, <2>4 DEF V!SearchPath
  <2>6. /\ Len(p) = depth + 1 /\ Last(p) = p[depth + 1] /\ depth \in Nat
        /\ \A l \in 1 .. depth + 1 : heap[p[l].node].isLeaf <=> l = depth + 1
    BY <1>1, <2>5, StopTwins
  <2>7. depth + 1 \in 1 .. depth + 1
    BY <2>6
  <2>8. currNode(heap, p).isLeaf
    BY <2>6, <2>7 DEF currNode
  <2> QED
    BY <2>6, <2>8 DEF p, no
<1>5. ASSUME NEW n \in Used(heap) PROVE numKeys(heap[n]) \in LeastKeys(n) .. FANOUT
  <2>1. n \in V!Used(marked) /\ SameNode(heap[n], marked[n])
    BY <1>1, TwinNodes
  <2>2. V!numKeys(marked[n]) \in V!LeastKeys(n) .. FANOUT
    BY <1>3, <2>1 DEF V!Balanced, marked
  <2>3. V!numKeys(marked[n]) = numKeys(heap[n]) /\ marked[n].isLeaf = heap[n].isLeaf
    BY <2>1, NodeTwins DEF SameNode
  <2>4. V!LeastKeys(n) = LeastKeys(n)
    BY <2>3 DEF V!LeastKeys, LeastKeys, marked
  <2> QED
    BY <2>2, <2>3, <2>4
<1> QED
  BY <1>4, <1>5 DEF Balanced

\* The leaf of a path is the one that it goes through.
LEMMA LeafThrough ==
  ASSUME NEW lev, NEW rng, Live(lev, rng), NEW p, V!Complete(marked, root, depth, p),
         NEW n \in Used(heap)
  PROVE  V!Through(p, n) /\ heap[n].isLeaf <=> n = Last(p).node
<1>1. Twin(heap, marked, root, depth, lev, rng)
  BY DEF Live
<1>2. /\ depth \in Nat /\ Len(p) = depth + 1 /\ Last(p) = p[depth + 1]
      /\ \A l \in 1 .. depth + 1 : heap[p[l].node].isLeaf <=> l = depth + 1
  BY <1>1, StopTwins
<1>3. depth + 1 \in 1 .. depth + 1
  BY <1>2
<1> QED
  BY <1>2, <1>3 DEF V!Through

LEMMA LeavesMarked ==
  ASSUME OneCursor, NEW lev, NEW rng, Live(lev, rng)
  PROVE  LeafMarks
<1>1. /\ Twin(heap, marked, root, depth, lev, rng) /\ Same(heap, marked)
      /\ V!Tree(marked, root, depth, lev, rng, NULL) /\ Used(heap) = V!Used(marked)
  BY TwinNodes DEF Live, Twin
<1> DEFINE no == <<>>
           p == moveToFirst(heap, root, no)
           q == Down(heap, root, LastIndex(heap), no)
<1>2. toEnd = q
  BY DEF toEnd, LastIndex
<1>3. V!LeadsTo(marked, root, no, root)
  BY <1>1 DEF V!Tree, V!Shape, V!LeadsTo
<1>4. V!IndexOK(marked, V!LastIndex(marked))
  BY VA, <1>1, V!IndexesOK
<1>5. \A n \in Used(heap) : /\ marked[n].First <=> V!Through(V!moveToFirst(marked, root, no), n)
                            /\ marked[n].Last <=> V!Through(V!moveToLast(marked, root, no), n)
  BY VA, <1>1, V!SpineMarks
<1>6. V!Complete(marked, root, depth, p) /\ p = V!moveToFirst(marked, root, no)
  BY FirstPath
<1> HIDE DEF no
<1>7. q = V!moveToLast(marked, root, no)
  BY <1>1, MoveTwins
<1>8. V!moveToLast(marked, root, no) = V!Down(marked, root, V!LastIndex(marked), no)
  BY VA, V!MovesDown
<1>9. V!Complete(marked, root, depth, V!Down(marked, root, V!LastIndex(marked), no))
  BY VA, <1>1, <1>3, <1>4, V!DownComplete
<1> HIDE DEF p, q
<1>10. V!Complete(marked, root, depth, q)
  BY <1>7, <1>8, <1>9
<1>11. ASSUME NEW n \in Used(heap)
       PROVE  (heap[n].FirstLeaf <=> n = Last(p).node) /\ (heap[n].LastLeaf <=> n = Last(q).node)
  <2>1. /\ heap[n].FirstLeaf <=> heap[n].isLeaf /\ marked[n].First
        /\ heap[n].LastLeaf <=> heap[n].isLeaf /\ marked[n].Last
    BY <1>1, TreeNodes
  <2>2. (marked[n].First <=> V!Through(p, n)) /\ (marked[n].Last <=> V!Through(q, n))
    BY <1>5, <1>6, <1>7
  <2>3. /\ V!Through(p, n) /\ heap[n].isLeaf <=> n = Last(p).node
        /\ V!Through(q, n) /\ heap[n].isLeaf <=> n = Last(q).node
    BY <1>6, <1>10, LeafThrough
  <2> QED
    BY <2>1, <2>2, <2>3
<1> QED
  BY <1>2, <1>11 DEF LeafMarks, p, no

LEMMA ParentsSingle ==
  ASSUME OneCursor, NEW lev, NEW rng, Live(lev, rng)
  PROVE  OneParent
<1>1. Same(heap, marked) /\ V!Used(marked) = Used(heap)
  BY TwinNodes DEF Live, Twin
<1>2. V!OneParent
  BY VA, VerifiedInv, V!SingleParent
<1>3. ASSUME NEW n PROVE V!Parents(n) = Parents(n)
  <2>1. ASSUME NEW m \in Used(heap), NEW i
        PROVE  V!Pointers(m) = Pointers(m) /\ V!Child(marked[m], i) = Child(heap[m], i)
    <3>1. SameNode(heap[m], marked[m])
      BY <1>1, TwinNodes
    <3>2. /\ V!numKeys(marked[m]) = numKeys(heap[m]) /\ V!Child(marked[m], i) = Child(heap[m], i)
      BY <3>1, NodeTwins
    <3>3. marked[m].isLeaf = heap[m].isLeaf
      BY <3>1 DEF SameNode
    <3> QED
      BY <3>2, <3>3 DEF V!Pointers, Pointers, marked
  <2>2. V!Parents(n) = {q \in V!Used(marked) \X (-1 .. FANOUT) :
                          q[2] \in V!Pointers(q[1]) /\ V!Child(marked[q[1]], q[2]) = n}
    BY DEF V!Parents, marked
  <2>3. \A q \in Used(heap) \X (-1 .. FANOUT) : q[1] \in Used(heap)
    OBVIOUS
  <2> QED
    BY <1>1, <2>1, <2>2, <2>3 DEF Parents
<1>4. /\ root \in V!Used(marked)
      /\ \A n \in V!Used(marked) : V!Cardinality(V!Parents(n)) = IF n = root THEN 0 ELSE 1
  BY <1>2 DEF V!OneParent, marked
<1>5. \A n \in Used(heap) : Cardinality(Parents(n)) = IF n = root THEN 0 ELSE 1
  BY <1>1, <1>3, <1>4, SameLibrary
<1> QED
  BY <1>1, <1>4, <1>5 DEF OneParent

LEMMA CountsPositions ==
  ASSUME OneCursor, NEW lev, NEW rng, Live(lev, rng)
  PROVE  CountExact
<1> DEFINE S == {p \in V!Leaves \X (1 .. FANOUT) : p[2] <= V!numKeys(marked[p[1]])}
           f == [p \in S |-> [node |-> p[1], idx |-> p[2] - 1]]
<1>1. Same(heap, marked) /\ V!Used(marked) = Used(heap) /\ Used(heap) \subseteq Node
  BY TwinNodes DEF Live, Twin
<1>2. numRecords = Cardinality(S)
  <2>1. V!CountExact
    BY VA, VerifiedInv, V!CountsRecords
  <2>2. numRecords = V!Cardinality(S)
    BY <2>1 DEF V!CountExact, marked
  <2> HIDE DEF S
  <2> QED
    BY <2>2, SameLibrary
<1>3. ASSUME NEW n \in Used(heap)
      PROVE  /\ n \in V!Leaves <=> heap[n].isLeaf
             /\ V!numKeys(marked[n]) = numKeys(heap[n]) /\ numKeys(heap[n]) \in Nat
  <2>1. SameNode(heap[n], marked[n])
    BY <1>1, TwinNodes
  <2>2. marked[n].isLeaf = heap[n].isLeaf
    BY <2>1 DEF SameNode
  <2>3. n \in V!Leaves <=> marked[n].isLeaf
    BY <1>1 DEF V!Leaves, marked
  <2> QED
    BY <2>1, <2>2, <2>3, NodeTwins
<1>4. V!Leaves \subseteq Used(heap)
  BY <1>1 DEF V!Leaves, marked
<1>5. IsFiniteSet(S)
  <2>1. IsFiniteSet(V!Leaves)
    BY <1>1, <1>4, NodesAssumption, FS_Subset
  <2>2. IsFiniteSet(1 .. FANOUT)
    BY FanoutAssumption, FS_Interval
  <2>3. IsFiniteSet(V!Leaves \X (1 .. FANOUT))
    BY <2>1, <2>2, FS_Product
  <2> QED
    BY <2>3, FS_Subset
<1>6. \A n, i : <<n, i>> \in S <=>
                  n \in Used(heap) /\ heap[n].isLeaf /\ i \in 1 .. FANOUT /\ i <= numKeys(heap[n])
  BY <1>3, <1>4
<1>7. \A p \in S : p = <<p[1], p[2]>>
  OBVIOUS
<1>8. \A n, i : [node |-> n, idx |-> i] \in Positions <=>
                  /\ n \in Used(heap) /\ heap[n].isLeaf /\ i \in 0 .. FANOUT
                  /\ i \in InUse(heap[n])
  BY DEF Positions
<1>9. \A a \in Positions : a = [node |-> a.node, idx |-> a.idx]
  BY DEF Positions
<1> HIDE DEF S
<1>a. \A p \in S : f[p].node = p[1] /\ f[p].idx = p[2] - 1
  OBVIOUS
<1>10. ASSUME NEW p \in S PROVE f[p] \in Positions
  <2> DEFINE n == p[1]
             i == p[2]
  <2>1. n \in Used(heap) /\ heap[n].isLeaf /\ i \in 1 .. FANOUT /\ i <= numKeys(heap[n])
    BY <1>6, <1>7
  <2>2. f[p] = [node |-> n, idx |-> i - 1]
    OBVIOUS
  <2> HIDE DEF n, i
  <2>3. i - 1 \in 0 .. FANOUT /\ i - 1 \in InUse(heap[n])
    BY <1>3, <2>1, FanoutAssumption DEF InUse
  <2> QED
    BY <1>8, <2>1, <2>2, <2>3
<1>11. ASSUME NEW p \in S, NEW q \in S, f[p] = f[q] PROVE p = q
  <2>1. f[p].node = p[1] /\ f[q].node = q[1] /\ f[p].idx = p[2] - 1 /\ f[q].idx = q[2] - 1
    OBVIOUS
  <2>2. p[2] \in 1 .. FANOUT /\ q[2] \in 1 .. FANOUT
    BY <1>6, <1>7
  <2> HIDE DEF f
  <2>3. p[1] = q[1] /\ p[2] = q[2]
    <3> DEFINE i == p[2]
               j == q[2]
    <3>1. i - 1 = j - 1 /\ i \in Int /\ j \in Int
      BY <1>11, <2>1, <2>2, FanoutAssumption
    <3>2. i = j
      BY <3>1
    <3> QED
      BY <1>11, <2>1, <3>2
  <2> QED
    BY <1>7, <2>3
<1>12. ASSUME NEW a \in Positions PROVE \E p \in S : f[p] = a
  <2> DEFINE n == a.node
             i == a.idx
  <2>1. a = [node |-> n, idx |-> i]
    BY <1>9
  <2>2. n \in Used(heap) /\ heap[n].isLeaf /\ i \in 0 .. FANOUT /\ i \in InUse(heap[n])
    BY <1>8, <2>1
  <2> HIDE DEF n, i
  <2>3. numKeys(heap[n]) <= FANOUT
    <3>1. Balanced
      BY TreeBalanced
    <3>2. numKeys(heap[n]) \in LeastKeys(n) .. FANOUT
      BY <2>2, <3>1 DEF Balanced
    <3> QED
      BY <3>2
  <2>4. i + 1 \in 1 .. FANOUT /\ i + 1 <= numKeys(heap[n]) /\ i + 1 - 1 = i
    BY <1>3, <2>2, <2>3, FanoutAssumption DEF InUse
  <2>5. <<n, i + 1>> \in S
    BY <1>6, <2>2, <2>4
  <2> DEFINE q == <<n, i + 1>>
  <2>6. q \in S /\ q[1] = n /\ q[2] = i + 1
    BY <2>5
  <2> HIDE DEF q, f
  <2>7. f[q].node = n /\ f[q].idx = i
    <3>1. f[q].node = q[1] /\ f[q].idx = q[2] - 1
      BY <1>a, <2>6
    <3>2. q[2] - 1 = i
      BY <2>2, <2>6, FanoutAssumption
    <3> QED
      BY <2>6, <3>1, <3>2
  <2>8. f[q] = [node |-> n, idx |-> i]
    BY <1>9, <1>10, <2>6, <2>7
  <2> QED
    BY <2>1, <2>6, <2>8
<1>13. f \in [S -> Positions]
  BY <1>10
<1> HIDE DEF f
<1>14. f \in Bijection(S, Positions)
  BY <1>11, <1>12, <1>13, Fun_IsBij
<1>15. ExistsBijection(S, Positions)
  BY <1>14 DEF ExistsBijection
<1>16. Cardinality(Positions) = Cardinality(S)
  BY <1>5, <1>15, FS_Bijection
<1> QED
  BY <1>2, <1>16 DEF CountExact
LEMMA TypesOK == ASSUME IInv PROVE TypeOK
<1>1. CASE op = "RL_DeleteRelation"
  <2>1. Gone /\ path = [c \in Cursor |-> path[c]]
    BY <1>1 DEF IInv
  <2> QED
    BY <2>1 DEF Gone, TypeOK
<1>2. CASE op # "RL_DeleteRelation"
  <2>1. PICK lev, rng : Live(lev, rng)
    BY <1>2 DEF IInv
  <2>2. /\ Twin(heap, marked, root, depth, lev, rng) /\ Same(heap, marked)
        /\ V!Tree(marked, root, depth, lev, rng, NULL) /\ Used(heap) = V!Used(marked)
        /\ Used(heap) \subseteq Node
    BY <2>1, TwinNodes DEF Live, Twin
  <2>3. heap \in [Node -> BtNodes \cup {NULL}] /\ root \in Node /\ depth \in Nat
    BY <2>2 DEF Same, V!Tree, V!Shape
  <2>4. numRecords \in Nat
    BY <2>1, FS_CardinalityType, SameLibrary DEF Live, V!Counted
  <2> DEFINE StopType == [node : Node, idx : -1 .. FANOUT]
  <2>5. ASSUME NEW p, V!Complete(marked, root, depth, p) PROVE p \in Seq(StopType)
    <3>1. /\ p \in Seq(V!Stop) /\ Len(p) = depth + 1
          /\ \A l \in 1 .. depth + 1 :
               /\ p[l].node \in Used(heap) /\ p[l].idx \in Int
               /\ heap[p[l].node].isLeaf <=> l = depth + 1
               /\ l # depth + 1 => p[l].idx \in -1 .. numKeys(heap[p[l].node]) - 1
               /\ SameNode(heap[p[l].node], marked[p[l].node])
      BY <2>2, <2>5, StopTwins
    <3>2. p[depth + 1].idx \in 0 .. V!numKeys(marked[p[depth + 1].node])
      BY <2>5 DEF V!Complete
    <3>3. ASSUME NEW n \in Used(heap)
          PROVE  V!numKeys(marked[n]) = numKeys(heap[n]) /\ numKeys(heap[n]) \in 0 .. FANOUT
      <4>1. V!numKeys(marked[n]) = numKeys(heap[n]) /\ numKeys(heap[n]) \in Nat
        BY <2>2, TwinNodes, NodeTwins
      <4>2. V!numKeys(marked[n]) <= FANOUT
        <5>1. n # NULL
          BY VA, <2>2, V!UsedNodes DEF V!Tree
        <5> QED
          BY <2>2, <5>1 DEF V!Tree, V!Sizes, V!SizeOK
      <4> QED
        BY <4>1, <4>2, FanoutAssumption
    <3>4. ASSUME NEW l \in 1 .. depth + 1 PROVE p[l] \in StopType
      <4> DEFINE a == p[l]
      <4>1. a \in V!Stop
        BY <3>1
      <4>2. a.node \in Node /\ a.idx \in -1 .. FANOUT
        BY <2>2, <3>1, <3>2, <3>3, FanoutAssumption
      <4> HIDE DEF a
      <4>3. a = [node |-> a.node, idx |-> a.idx]
        BY <4>1 DEF V!Stop
      <4> QED
        BY <4>2, <4>3 DEF a
    <3> DEFINE s == p
    <3>5. s = [l \in 1 .. depth + 1 |-> s[l]]
      BY <3>1
    <3> HIDE DEF StopType, s
    <3>6. \A l \in 1 .. depth + 1 : s[l] \in StopType
      BY <3>4 DEF s
    <3>7. s \in [1 .. depth + 1 -> StopType] /\ depth + 1 \in Nat
      BY <2>3, <3>5, <3>6
    <3>8. s \in Seq(StopType)
      BY <3>7
    <3> QED
      BY <3>8 DEF s
  <2> HIDE DEF StopType
  <2>6. \A c \in Cursor : path[c] \in Seq(StopType) \cup {NULL}
    BY <2>1, <2>5 DEF Live, PathOK
  <2>7. path \in [Cursor -> Seq(StopType) \cup {NULL}]
    <3>1. path = [c \in Cursor |-> path[c]]
      BY DEF IInv
    <3> QED
      BY <2>6, <3>1
  <2> QED
    BY <2>3, <2>4, <2>7 DEF TypeOK, StopType
<1> QED
  BY <1>1, <1>2

LEMMA OnPath == ASSUME IInv PROVE CursorOnPath
<1> SUFFICES ASSUME NEW c \in Cursor, path[c] # NULL
             PROVE  /\ path[c] # Lost
                    /\ path[c][1].node = root /\ Len(path[c]) = depth + 1
                    /\ currNode(heap, path[c]).isLeaf
                    /\ entryIndex(path[c]) \in 0 .. numKeys(currNode(heap, path[c]))
                    /\ \A l \in 1 .. Len(path[c]) - 1 :
                         /\ path[c][l].idx \in Pointers(path[c][l].node)
                         /\ path[c][l + 1].node = Child(heap[path[c][l].node], path[c][l].idx)
  BY DEF CursorOnPath
<1>1. op # "RL_DeleteRelation"
  BY DEF IInv, Gone
<1>2. PICK lev, rng : Live(lev, rng)
  BY <1>1 DEF IInv
<1> DEFINE p == path[c]
<1>3. V!Complete(marked, root, depth, p) /\ Twin(heap, marked, root, depth, lev, rng)
  BY <1>2 DEF Live, PathOK
<1> HIDE DEF p
<1>4. /\ depth \in Nat /\ Len(p) = depth + 1 /\ p[1].node = root /\ p # <<>>
      /\ Last(p) = p[depth + 1]
      /\ \A l \in 1 .. depth + 1 :
           /\ p[l].node \in Used(heap) /\ p[l].idx \in Int
           /\ SameNode(heap[p[l].node], marked[p[l].node])
           /\ heap[p[l].node].isLeaf <=> l = depth + 1
           /\ l # depth + 1 => p[l].idx \in -1 .. numKeys(heap[p[l].node]) - 1
  BY <1>3, StopTwins
<1>5. depth + 1 \in 1 .. depth + 1
  BY <1>4
<1>6. currNode(heap, p) = heap[p[depth + 1].node] /\ entryIndex(p) = p[depth + 1].idx
  BY <1>4 DEF currNode, entryIndex
<1>7. p[depth + 1].idx \in 0 .. V!numKeys(marked[p[depth + 1].node])
  BY <1>3 DEF V!Complete
<1>8. V!numKeys(marked[p[depth + 1].node]) = numKeys(heap[p[depth + 1].node])
  BY <1>4, <1>5, NodeTwins
<1>9. ASSUME NEW l \in 1 .. Len(p) - 1
      PROVE  /\ p[l].idx \in Pointers(p[l].node)
             /\ p[l + 1].node = Child(heap[p[l].node], p[l].idx)
  <2>1. l \in 1 .. depth + 1 /\ l # depth + 1 /\ l \in 1 .. depth
    BY <1>4
  <2>2. p[l + 1].node = V!Child(marked[p[l].node], p[l].idx)
    BY <1>3, <2>1 DEF V!Complete, V!Hop
  <2>3. SameNode(heap[p[l].node], marked[p[l].node])
    BY <1>4, <2>1
  <2>4. V!Child(marked[p[l].node], p[l].idx) = Child(heap[p[l].node], p[l].idx)
    BY <2>3, NodeTwins
  <2>5. p[l].idx \in Pointers(p[l].node)
    BY <1>4, <2>1 DEF Pointers
  <2> QED
    BY <2>2, <2>4, <2>5
<1>10. currNode(heap, p).isLeaf /\ entryIndex(p) \in 0 .. numKeys(currNode(heap, p))
  BY <1>4, <1>5, <1>6, <1>7, <1>8
<1> QED
  BY <1>4, <1>9, <1>10 DEF p, Lost

\* From the place of a record, a step on and a step back lead to the record.
LEMMA StepBack ==
  ASSUME NEW h, NEW g, NEW r, NEW dep, NEW lev, NEW rng, Twin(h, g, r, dep, lev, rng),
         NEW e, e.key \in Key, NEW q, V!SearchPath(g, r, dep, rng, q, e.key),
         e \in V!Records(g), \A x \in V!Records(g) : x.key = e.key => x = e
  PROVE  LET p == AfterPrev(h, AfterNext(h, q))
             n == currNode(h, p)
         IN  KeyAt(n, entryIndex(p)) = e.key /\ Child(n, entryIndex(p)) = e.ptr
<1>1. V!Tree(g, r, dep, lev, rng, NULL) /\ V!Complete(g, r, dep, q)
  BY DEF Twin, V!SearchPath
<1> DEFINE f == q[dep + 1].idx
           a == q[dep + 1].node
           x == h[a]
           y == g[a]
           A == V!Left(g, rng, dep, q)
<1>2. /\ dep \in Nat /\ Last(q) = q[dep + 1] /\ a \in Used(h) /\ SameNode(x, y)
      /\ f \in 0 .. V!numKeys(y)
  <2>1. dep \in Nat
    BY <1>1, StopTwins
  <2>2. dep + 1 \in 1 .. dep + 1
    BY <2>1
  <2>3. f \in 0 .. V!numKeys(y)
    BY <1>1 DEF V!Complete
  <2> QED
    BY <1>1, <2>1, <2>2, <2>3, StopTwins
<1>3. V!numKeys(y) = numKeys(x) /\ numKeys(x) \in Nat /\ x.entries = y.entries
  BY <1>2, NodeTwins DEF SameNode
<1>4. A = {j \in V!Present(g) : e.key <= j}
  BY VA, <1>1, V!MovedIs
<1>5. e.key \in V!Present(g) /\ e.key \in Nat
  BY KeysAssumption DEF V!Present
<1>6. e.key \in A
  BY <1>4, <1>5
<1>7. V!AtEntry(g, A, V!Settle(g, q)) /\ V!isValid(g, q)
  BY VA, <1>1, <1>6, V!SettleIs, V!ValidIs
<1>8. f < V!numKeys(y)
  <2>1. A = V!Rest(g, rng, q[dep + 1])
    BY DEF V!Left
  <2>2. e.key \in rng[a]
    BY DEF V!SearchPath
  <2>3. \E z \in f + 1 .. V!numKeys(y) : y.entries[z].key = e.key
    BY <1>6, <2>1, <2>2 DEF V!Rest
  <2> HIDE DEF f, y
  <2> QED
    BY <1>2, <1>3, <2>3
<1>9. V!AtEntry(g, A, q)
  BY VA, <1>1, <1>8, V!AtEntryIs
<1>10. V!entryIndex(q) = f /\ V!currNode(g, q) = y
  BY <1>2, SameLibrary DEF V!entryIndex, V!currNode
<1>11. V!IsLeast(V!KeyAt(y, f), A) /\ y.entries[f + 1] \in V!Records(g)
  BY <1>9, <1>10 DEF V!AtEntry
<1> HIDE DEF f, a, x, y, A
<1>12. V!KeyAt(y, f) = y.entries[f + 1].key
  BY DEF V!KeyAt
<1>13. y.entries[f + 1] = e
  <2>1. y.entries[f + 1].key \in A /\ y.entries[f + 1].key <= e.key
    BY <1>6, <1>11, <1>12 DEF V!IsLeast
  <2>2. e.key <= y.entries[f + 1].key /\ y.entries[f + 1].key \in V!Present(g)
    BY <1>4, <2>1
  <2>3. V!Present(g) \subseteq Nat
    BY VA, <1>1, V!LeftKeys, KeysAssumption
  <2>4. y.entries[f + 1].key = e.key
    BY <1>5, <2>1, <2>2, <2>3
  <2> QED
    BY <1>11, <2>4
<1> DEFINE d == V!moveToNext(g, q)
           p == V!moveToPrev(g, d)
<1>14. /\ AfterNext(h, q) = d /\ V!Complete(g, r, dep, d)
       /\ d[dep + 1].node = a /\ d[dep + 1].idx = f + 1
  <2>1. V!Settle(g, q) = q
    BY <1>2, <1>3, <1>8, <1>10 DEF V!Settle
  <2>2. V!AfterNext(g, q) = d
    BY <2>1 DEF V!AfterNext
  <2>3. AfterNext(h, q) = V!AfterNext(g, q) /\ V!Complete(g, r, dep, V!AfterNext(g, q))
    BY <1>1, StepTwins
  <2> HIDE DEF d
  <2>4. d[dep + 1].node = a /\ d[dep + 1].idx = f + 1
    BY VA, <1>1, <1>7, <1>8, V!NextIs DEF d, f, a, y
  <2> QED
    BY <2>2, <2>3, <2>4
<1> HIDE DEF d
<1>15. Last(d) = d[dep + 1] /\ d # Lost
  BY <1>14, StopTwins DEF Lost
<1>16. f + 1 # 0 /\ f \in Nat
  BY <1>2, <1>3
<1>17. entryIndex(d) = f + 1 /\ V!entryIndex(d) = f + 1
  BY <1>14, <1>15, SameLibrary DEF entryIndex, V!entryIndex
<1>18. moveToPrev(h, d) = p /\ V!Complete(g, r, dep, p)
  BY VA, <1>1, <1>14, <1>16, <1>17, PrevTwins, V!MovesComplete
<1>19. ~V!isFirst(g, d)
  BY <1>16, <1>17 DEF V!isFirst
<1>20. p[dep + 1].node = a /\ f + 1 = p[dep + 1].idx + 1
  <2> DEFINE w == p
  <2>1. d[dep + 1].idx # 0 => w[dep + 1].node = d[dep + 1].node /\ d[dep + 1].idx = w[dep + 1].idx + 1
    BY VA, <1>1, <1>14, <1>19, V!PrevIs
  <2> HIDE DEF w
  <2> QED
    BY <1>14, <1>16, <2>1 DEF w
<1>21. AfterPrev(h, d) = p
  BY <1>15, <1>16, <1>17, <1>18 DEF AfterPrev
<1> HIDE DEF p
<1>22. Last(p) = p[dep + 1] /\ p[dep + 1].idx = f
  <2>1. dep + 1 \in 1 .. dep + 1
    BY <1>2
  <2>2. Last(p) = p[dep + 1] /\ p[dep + 1].idx \in Int
    BY <1>18, <2>1, StopTwins
  <2> QED
    BY <1>16, <1>20, <2>2
<1>23. currNode(h, p) = x /\ entryIndex(p) = f
  BY <1>20, <1>22 DEF currNode, entryIndex, x
<1>24. KeyAt(x, f) = e.key /\ Child(x, f) = e.ptr
  <2>1. f # -1
    BY <1>16
  <2> QED
    BY <1>3, <1>13, <2>1 DEF KeyAt, Child
<1> QED
  BY <1>14, <1>21, <1>23, <1>24

LEMMA PutsBefore ==
  ASSUME IInv, op # "RL_DeleteRelation", NEW c \in Cursor, NEW key \in Key,
         NEW record \in Record, RL_PutRecord(c, key, record)
  PROVE  LET p == AfterPrev(heap', path'[c])
             n == currNode(heap', p)
         IN  KeyAt(n, entryIndex(p)) = key /\ Child(n, entryIndex(p)) = record
<1>1. PICK lev, rng : Live(lev, rng)
  BY DEF IInv
<1>2. PICK s, v, lv, rg : PutResult(c, key, record, s, v, lv, rg)
  BY <1>1, PutIs
<1> DEFINE e == Entering(key, record)
<1>3. e.key = key /\ e.ptr = record
  BY DEF Entering
<1>4. /\ heap' = s.heap /\ path' = [path EXCEPT ![c] = AfterNext(s.heap, s.path)]
      /\ Twin(s.heap, v.heap, s.root, s.depth, lv, rg)
      /\ s.path = v.cursor /\ s.root = v.root /\ s.depth = v.depth
      /\ V!PutDone(marked, numRecords, e, v, lv, rg)
  BY <1>2 DEF PutResult, PutTwin
<1> HIDE DEF e
<1>5. /\ V!SearchPath(v.heap, s.root, s.depth, rg, s.path, e.key)
      /\ V!Records(v.heap) = {x \in V!Records(marked) : x.key # e.key} \cup {e}
  BY <1>4 DEF V!PutDone
<1>6. e \in V!Records(v.heap) /\ \A x \in V!Records(v.heap) : x.key = e.key => x = e
  BY <1>5
<1>7. path'[c] = AfterNext(s.heap, s.path)
  <2>1. path = [d \in Cursor |-> path[d]]
    BY DEF IInv
  <2> QED
    BY <1>4, <2>1
<1> DEFINE p == AfterPrev(s.heap, AfterNext(s.heap, s.path))
           n == currNode(s.heap, p)
<1>8. KeyAt(n, entryIndex(p)) = e.key /\ Child(n, entryIndex(p)) = e.ptr
  BY <1>3, <1>4, <1>5, <1>6, StepBack
<1> QED
  BY <1>3, <1>4, <1>7, <1>8

-----------------------------------------------------------------------------
(* Theorems.                                                               *)

\* The relation with its clients, for one cursor (with two, the one that is not moved by
\* a put is stale).
FullSpec == Init /\ [][Next \/ ClientNext]_vars

\* The tree with its marks is a verified tree as long as the relation is there.
THEOREM StaysTwin == OneCursor /\ FullSpec => []IInv
<1>1. Init => IInv
  BY StartsLive
<1> SUFFICES ASSUME OneCursor PROVE FullSpec => []IInv
  OBVIOUS
<1>2. IInv /\ [Next \/ ClientNext]_vars => IInv'
  BY StaysLive
<1> QED
  BY <1>1, <1>2, PTL DEF FullSpec

\* After any sequence of calls of the operations and of the clients, every variable has
\* its type: in particular, no path leads out of the memory.
THEOREM Typed == OneCursor /\ FullSpec => []TypeOK
<1>1. IInv => TypeOK
  BY TypesOK
<1> QED
  BY <1>1, StaysTwin, PTL

\* The tree is well formed until it is deleted: the keys are in order, all leaves are at
\* one depth and all nodes half full, the first and the last leaf, and no others, are
\* marked, no node is shared or lost, and the count is right.
THEOREM StaysWellFormed == OneCursor /\ FullSpec => []WellFormed
<1> SUFFICES ASSUME OneCursor PROVE FullSpec => []WellFormed
  OBVIOUS
<1>1. IInv => WellFormed
  <2> SUFFICES ASSUME IInv, op # "RL_DeleteRelation"
               PROVE  Ordered /\ Balanced /\ LeafMarks /\ OneParent /\ CountExact
    BY DEF WellFormed
  <2>1. PICK lev, rng : Live(lev, rng)
    BY DEF IInv
  <2> QED
    BY <2>1, KeysOrdered, TreeBalanced, LeavesMarked, ParentsSingle, CountsPositions
<1> QED
  BY <1>1, StaysTwin, PTL

\* Whatever a put splits, the cursor stays a path from the root to a leaf.
THEOREM StaysOnPath == OneCursor /\ FullSpec => []CursorOnPath
<1>1. IInv => CursorOnPath
  BY OnPath
<1> QED
  BY <1>1, StaysTwin, PTL

\* RL_DeleteRelation() frees all nodes but the root.
THEOREM FreesAll == OneCursor /\ FullSpec => []DeletedAll
<1>1. IInv => DeletedAll
  BY DEF IInv, Gone, DeletedAll
<1> QED
  BY <1>1, StaysTwin, PTL

\* After a put, one step back is the record put, in a tree of any height.
THEOREM PutsPrevious == OneCursor /\ FullSpec => PutThenPrevious
<1> DEFINE Back == \A c \in Cursor, k \in Key, r \in Record : RL_PutRecord(c, k, r) =>
                     LET p == AfterPrev(heap', path'[c])
                         n == currNode(heap', p)
                     IN  KeyAt(n, entryIndex(p)) = k /\ Child(n, entryIndex(p)) = r
<1>1. IInv => Back
  <2>1. ASSUME NEW c \in Cursor, NEW k \in Key, NEW r \in Record, RL_PutRecord(c, k, r)
        PROVE  op # "RL_DeleteRelation"
    BY <2>1 DEF RL_PutRecord, Uses, Calls
  <2> QED
    BY <2>1, PutsBefore
<1>2. PutThenPrevious <=> [][Back]_vars
  BY DEF PutThenPrevious
<1> HIDE DEF Back
<1>3. IInv => [Back]_vars
  BY <1>1
<1>4. OneCursor /\ FullSpec => [][Back]_vars
  BY <1>3, StaysTwin, PTL
<1> QED
  BY <1>2, <1>4

-----------------------------------------------------------------------------
(* The sorted map.                                                         *)

\* The key at which path p stands.
PosIn(h, p) ==
  IF p = NULL THEN NULL
  ELSE LET q == IF isValid(h, p) THEN Settle(h, p) ELSE p
       IN  IF isValid(h, q) THEN KeyAt(h[Last(q).node], Last(q).idx) ELSE END

MapIn(h) ==
  LET leaves == {n \in Used(h) : h[n].isLeaf}
      all == UNION {Range(h[n].entries) : n \in leaves}
  IN  [k \in Key |-> IF \E e \in all : e.key = k
                     THEN (CHOOSE e \in all : e.key = k).ptr
                     ELSE NULL]

LEMMA StateIs ==
  /\ \A c : Pos(c) = PosIn(heap, path[c])
  /\ \A c : Pos(c)' = PosIn(heap', path'[c])
  /\ Map = MapIn(heap) /\ Map' = MapIn(heap')
<1>1. \A c : Pos(c) = PosIn(heap, path[c])
  BY DEF Pos, PosIn, Order
<1>2. \A c : Pos(c)' = PosIn(heap', path'[c])
  BY DEF Pos, PosIn, Order
<1>3. Map = MapIn(heap) /\ Map' = MapIn(heap')
  BY DEF Map, MapIn
<1> QED
  BY <1>1, <1>2, <1>3

\* Both trees have the same records, and a path stands at the same key in both.
LEMMA MapTwins ==
  ASSUME NEW h, NEW g, NEW r, NEW dep, NEW lev, NEW rng, Twin(h, g, r, dep, lev, rng)
  PROVE  MapIn(h) = V!MapOf(g)
<1> DEFINE all == UNION {Range(h[n].entries) : n \in {m \in Used(h) : h[m].isLeaf}}
           rec == V!Records(g)
<1>1. Used(h) = V!Used(g) /\ \A n \in Used(h) : SameNode(h[n], g[n])
  BY TwinNodes DEF Twin
<1>2. \A n \in Used(h) : h[n].isLeaf = g[n].isLeaf /\ h[n].entries = g[n].entries
  BY <1>1 DEF SameNode
<1>3. ASSUME NEW e PROVE e \in all <=> e \in rec
  <2>1. e \in all <=> \E n \in Used(h) : h[n].isLeaf /\ e \in Range(h[n].entries)
    OBVIOUS
  <2>2. e \in rec <=> \E n \in V!Used(g) : g[n].isLeaf /\ e \in V!Range(g[n].entries)
    BY DEF V!Records
  <2> QED
    BY <1>1, <1>2, <2>1, <2>2, SameLibrary
<1>4. all = rec
  BY <1>3
<1>5. MapIn(h) = [k \in Key |-> IF \E e \in all : e.key = k
                                THEN (CHOOSE e \in all : e.key = k).ptr ELSE NULL]
  BY DEF MapIn
<1>6. V!MapOf(g) = [k \in Key |-> IF \E e \in rec : e.key = k
                                  THEN (CHOOSE e \in rec : e.key = k).ptr ELSE NULL]
  BY DEF V!MapOf
<1> HIDE DEF all, rec
<1> QED
  BY <1>4, <1>5, <1>6

LEMMA PosTwins ==
  ASSUME NEW h, NEW g, NEW r, NEW dep, NEW lev, NEW rng, Twin(h, g, r, dep, lev, rng),
         NEW p, V!Complete(g, r, dep, p)
  PROVE  /\ PosIn(h, p) = V!PosOf(g, p)
         /\ ~isValid(h, p) => Settle(h, p) = p
<1> DEFINE q == Settle(h, p)
<1>1. q = V!Settle(g, p) /\ V!Complete(g, r, dep, q)
  BY StepTwins
<1>2. ASSUME ~isValid(h, p) PROVE q = p
  BY <1>2 DEF Settle, moveToNext
<1>3. p # NULL
  BY StopTwins, PathAssumption DEF V!Stop
<1>4. PosIn(h, p) = IF isValid(h, q) THEN KeyAt(h[Last(q).node], Last(q).idx) ELSE END
  BY <1>2, <1>3 DEF PosIn
<1>5. V!PosOf(g, p) = LET at == V!Settle(g, p)
                      IN  IF V!isValid(g, at) THEN V!KeyAt(V!currNode(g, at), V!entryIndex(at)) ELSE END
  BY <1>3 DEF V!PosOf
<1> HIDE DEF q
<1>6. V!PosOf(g, p) = IF V!isValid(g, q) THEN V!KeyAt(V!currNode(g, q), V!entryIndex(q)) ELSE END
  BY <1>1, <1>5
<1>7. isValid(h, q) <=> V!isValid(g, q)
  BY <1>1, StopTwins
<1>8. KeyAt(h[Last(q).node], Last(q).idx) = V!KeyAt(V!currNode(g, q), V!entryIndex(q))
  <2>1. Last(q) = q[dep + 1] /\ dep + 1 \in 1 .. dep + 1
    BY <1>1, StopTwins
  <2>2. SameNode(h[Last(q).node], g[Last(q).node])
    BY <1>1, <2>1, StopTwins
  <2>3. V!currNode(g, q) = g[Last(q).node] /\ V!entryIndex(q) = Last(q).idx
    BY SameLibrary DEF V!currNode, V!entryIndex
  <2> QED
    BY <2>2, <2>3, NodeTwins
<1> QED
  BY <1>2, <1>4, <1>6, <1>7, <1>8 DEF q

\* The operators of the sorted map are the same for the two.
LEMMA SortedTwins ==
  ASSUME OneCursor, NEW lev, NEW rng, Live(lev, rng)
  PROVE  /\ Map = V!MapOf(marked) /\ Map \in [Key -> Record \cup {NULL}]
         /\ Sorted!Present = V!Present(marked) /\ V!Sorted!Present = V!Present(marked)
         /\ Sorted!Present \in SUBSET Key
         /\ \A S : Sorted!Least(S) = V!Sorted!Least(S)
         /\ \A S, none : Sorted!Greatest(S, none) = V!Sorted!Greatest(S, none)
         /\ \A k : Sorted!NextKey(k) = V!Sorted!NextKey(k)
         /\ \A k : Sorted!Before(k) = V!Sorted!Before(k)
         /\ \A k : Sorted!PrevKey(k) = V!Sorted!PrevKey(k)
<1>1. Twin(heap, marked, root, depth, lev, rng) /\ V!Tree(marked, root, depth, lev, rng, NULL)
  BY DEF Live, Twin
<1>2. V!TreeInv(lev, rng)
  BY VerifiedInv
<1>3. V!Sorted!Present = V!Present(marked)
  BY VA, <1>2, V!SortedPresent DEF marked
<1>4. Map = V!MapOf(marked)
  BY <1>1, MapTwins, StateIs
<1>5. V!Map = V!MapOf(marked)
  BY VA, V!StateIs DEF marked
<1>6. V!MapOf(marked) \in [Key -> Record \cup {NULL}]
  BY VA, <1>1, V!MapIs
<1>7. V!Present(marked) \in SUBSET Key
  BY VA, <1>1, V!RecordFacts
<1>8. Sorted!Present = V!Sorted!Present
  <2>1. Sorted!Present = {k \in Key : Map[k] # NULL}
    BY DEF Sorted!Present
  <2>2. V!Sorted!Present = {k \in Key : V!Map[k] # NULL}
    BY DEF V!Sorted!Present
  <2> QED
    BY <1>4, <1>5, <2>1, <2>2
<1>9. \A S : Sorted!Least(S) = V!Sorted!Least(S)
  BY DEF Sorted!Least, V!Sorted!Least
<1>10. \A S, none : Sorted!Greatest(S, none) = V!Sorted!Greatest(S, none)
  BY DEF Sorted!Greatest, V!Sorted!Greatest
<1>11. \A k : Sorted!NextKey(k) = V!Sorted!NextKey(k)
  BY <1>8, <1>9 DEF Sorted!NextKey, V!Sorted!NextKey
<1>12. \A k : Sorted!Before(k) = V!Sorted!Before(k)
  BY <1>8 DEF Sorted!Before, V!Sorted!Before
<1>13. \A k : Sorted!PrevKey(k) = V!Sorted!PrevKey(k)
  BY <1>10, <1>12 DEF Sorted!PrevKey, V!Sorted!PrevKey
<1> QED
  BY <1>3, <1>4, <1>6, <1>7, <1>8, <1>9, <1>10, <1>11, <1>12, <1>13

\* Where a path stands, and whether it is valid.
LEMMA Stands ==
  ASSUME OneCursor, NEW lev, NEW rng, Live(lev, rng), NEW p, V!Complete(marked, root, depth, p)
  PROVE  /\ p # NULL /\ PosIn(heap, p) # NULL
         /\ PosIn(heap, p) = Sorted!Least(V!Left(marked, rng, depth, p))
         /\ V!Left(marked, rng, depth, p) \subseteq Sorted!Present
         /\ isValid(heap, p) <=> PosIn(heap, p) # END
         /\ isValid(heap, p) <=> V!Left(marked, rng, depth, p) # {}
         /\ isFirst(heap, p) <=> V!Left(marked, rng, depth, p) = Sorted!Present
         /\ PosIn(heap, Settle(heap, p)) = PosIn(heap, p)
         /\ V!Complete(marked, root, depth, Settle(heap, p))
<1> DEFINE A == V!Left(marked, rng, depth, p)
           q == Settle(heap, p)
<1>1. Twin(heap, marked, root, depth, lev, rng) /\ V!Tree(marked, root, depth, lev, rng, NULL)
  BY DEF Live, Twin
<1>2. PosIn(heap, p) = V!PosOf(marked, p)
  BY <1>1, PosTwins
<1>3. /\ p # NULL /\ V!PosOf(marked, p) # NULL /\ V!PosOf(marked, p) = V!Sorted!Least(A)
      /\ V!PosOf(marked, p) = END <=> A = {}
  BY VA, <1>1, V!PosIs
<1>4. A \subseteq V!Present(marked)
  BY VA, <1>1, V!LeftKeys
<1>5. V!isValid(marked, p) <=> A # {}
  BY VA, <1>1, V!ValidIs
<1>6. V!isFirst(marked, p) <=> A = V!Present(marked)
  BY VA, <1>1, V!AfterPrevIs
<1>7. (isValid(heap, p) <=> V!isValid(marked, p)) /\ (isFirst(heap, p) <=> V!isFirst(marked, p))
  BY <1>1, StopTwins
<1>8. q = V!Settle(marked, p) /\ V!Complete(marked, root, depth, q)
  BY <1>1, StepTwins
<1>9. V!Left(marked, rng, depth, V!Settle(marked, p)) = A
  BY VA, <1>1, V!SettleIs
<1> HIDE DEF q
<1>10. V!PosOf(marked, q) = V!Sorted!Least(V!Left(marked, rng, depth, q))
  BY VA, <1>1, <1>8, V!PosIs
<1>11. PosIn(heap, q) = V!PosOf(marked, q)
  BY <1>1, <1>8, PosTwins
<1> HIDE DEF A
<1>12. PosIn(heap, q) = PosIn(heap, p)
  BY <1>2, <1>3, <1>8, <1>9, <1>10, <1>11
<1>13. Sorted!Present = V!Present(marked) /\ Sorted!Least(A) = V!Sorted!Least(A)
  BY SortedTwins
<1> QED
  BY <1>2, <1>3, <1>4, <1>5, <1>6, <1>7, <1>8, <1>12, <1>13 DEF A, q

\* A step forward is one to the next key, and a step back in a tree of two levels, or from
\* the end, is one to the key before.
LEMMA StepsSorted ==
  ASSUME OneCursor, NEW lev, NEW rng, Live(lev, rng), NEW p, V!Complete(marked, root, depth, p)
  PROVE  /\ V!Complete(marked, root, depth, AfterNext(heap, p))
         /\ PosIn(heap, AfterNext(heap, p)) = Sorted!NextKey(PosIn(heap, p))
         /\ V!Complete(marked, root, depth, AfterPrev(heap, p))
         /\ depth < 2 \/ ~isValid(heap, p) =>
              /\ PosIn(heap, AfterPrev(heap, p)) = Sorted!PrevKey(PosIn(heap, p))
              /\ isFirst(heap, AfterPrev(heap, p)) <=>
                   PosIn(heap, AfterPrev(heap, p)) = Sorted!Least(Sorted!Present)
              /\ Sorted!Before(PosIn(heap, p)) = {} => isFirst(heap, AfterPrev(heap, p))
<1> DEFINE n == AfterNext(heap, p)
           b == AfterPrev(heap, p)
<1>1. Twin(heap, marked, root, depth, lev, rng) /\ V!Tree(marked, root, depth, lev, rng, NULL)
  BY DEF Live, Twin
<1>2. V!TreeInv(lev, rng)
  BY VerifiedInv
<1>3. /\ n = V!AfterNext(marked, p) /\ V!Complete(marked, root, depth, n)
      /\ V!Complete(marked, root, depth, b)
      /\ depth < 2 => b = V!AfterPrev(marked, p)
  BY <1>1, StepTwins
<1>4. /\ PosIn(heap, p) = V!PosOf(marked, p) /\ PosIn(heap, n) = V!PosOf(marked, n)
      /\ PosIn(heap, b) = V!PosOf(marked, b)
  <2> HIDE DEF n, b
  <2> QED
    BY <1>1, <1>3, PosTwins
<1>5. V!PosOf(marked, V!AfterNext(marked, p)) = V!Sorted!NextKey(V!PosOf(marked, p))
  BY VA, <1>2, V!SortedNext DEF marked
<1>6. /\ V!PosOf(marked, V!AfterPrev(marked, p)) = V!Sorted!PrevKey(V!PosOf(marked, p))
      /\ V!isFirst(marked, V!AfterPrev(marked, p)) <=>
           V!PosOf(marked, V!AfterPrev(marked, p)) = V!Sorted!Least(V!Sorted!Present)
      /\ V!Sorted!Before(V!PosOf(marked, p)) = {} <=> V!isFirst(marked, p)
      /\ V!isFirst(marked, p) => V!isFirst(marked, V!AfterPrev(marked, p))
  BY VA, <1>2, V!SortedPrev DEF marked
<1>7. ASSUME ~isValid(heap, p), ~(depth < 2) PROVE b = V!AfterPrev(marked, p)
  <2> DEFINE z == p[depth + 1].node
             i == p[depth + 1].idx
  <2>1. /\ depth \in Nat /\ Len(p) = depth + 1 /\ p[1].node = root
        /\ entryIndex(p) = i /\ currNode(heap, p) = heap[z]
        /\ V!entryIndex(p) = entryIndex(p) /\ z \in Used(heap)
    BY <1>1, StopTwins
  <2>2. \A x, y \in 1 .. depth + 1 : x # y => p[x].node # p[y].node
    BY VA, <1>1, V!NoRepeat
  <2>3. z # root
    BY <1>7, <2>1, <2>2
  <2>4. numKeys(heap[z]) >= 1
    BY <1>1, <2>1, <2>3, TreeNodes
  <2>5. i = numKeys(heap[z])
    BY <1>7, <2>1 DEF isValid
  <2>6. i # 0
    BY <2>4, <2>5
  <2>7. moveToPrev(heap, p) = V!moveToPrev(marked, p)
    BY <1>1, <2>1, <2>6, PrevTwins
  <2>8. b = moveToPrev(heap, p)
    <3>1. p # Lost
      BY <2>1 DEF Lost
    <3> QED
      BY <2>1, <2>6, <3>1 DEF AfterPrev
  <2>9. V!AfterPrev(marked, p) = V!moveToPrev(marked, p)
    BY <2>1, <2>6 DEF V!AfterPrev
  <2> QED
    BY <2>7, <2>8, <2>9
<1>8. isFirst(heap, b) <=> V!isFirst(marked, b)
  <2> HIDE DEF b
  <2> QED
    BY <1>1, <1>3, StopTwins
<1>9. /\ \A k : Sorted!NextKey(k) = V!Sorted!NextKey(k) /\ Sorted!PrevKey(k) = V!Sorted!PrevKey(k)
      /\ \A k : Sorted!Before(k) = V!Sorted!Before(k)
      /\ Sorted!Least(Sorted!Present) = V!Sorted!Least(V!Sorted!Present)
  BY SortedTwins
<1> HIDE DEF n, b
<1> QED
  BY <1>3, <1>4, <1>5, <1>6, <1>7, <1>8, <1>9 DEF n, b

\* A cursor of the map for the cursor of the tree.
LEMMA HasCursor ==
  ASSUME OneCursor, NEW lev, NEW rng, Live(lev, rng), NEW c \in Cursor
  PROVE  /\ Sorted!Exists(c) <=> path[c] # NULL
         /\ [d \in Cursor |-> Pos(d)][c] = PosIn(heap, path[c])
         /\ path[c] # NULL => V!Complete(marked, root, depth, path[c])
<1>1. path[c] # NULL => V!Complete(marked, root, depth, path[c])
  BY DEF Live, PathOK
<1>2. [d \in Cursor |-> Pos(d)][c] = PosIn(heap, path[c])
  BY StateIs
<1>3. PosIn(heap, path[c]) # NULL <=> path[c] # NULL
  <2>1. path[c] = NULL => PosIn(heap, path[c]) = NULL
    BY DEF PosIn
  <2>2. path[c] # NULL => PosIn(heap, path[c]) # NULL
    BY <1>1, Stands
  <2> QED
    BY <2>1, <2>2
<1>4. Sorted!Exists(c) <=> [d \in Cursor |-> Pos(d)][c] # NULL
  BY DEF Sorted!Exists
<1> QED
  BY <1>1, <1>2, <1>3, <1>4

\* Where a cursor moves to and the tree stays.
LEMMA MovesSorted ==
  ASSUME OneCursor, IInv, NEW c \in Cursor, NEW p, Moves(c, p)
  PROVE  /\ Sorted!Moves(c, PosIn(heap, p))
         /\ PosIn(heap, p) = PosIn(heap, path[c]) =>
              UNCHANGED <<Map, [d \in Cursor |-> Pos(d)]>>
<1>1. heap' = heap /\ path' = [path EXCEPT ![c] = p]
  BY DEF Moves, tree
<1>2. DOMAIN path = Cursor /\ \A d \in Cursor : d = c
  BY DEF IInv, OneCursor
<1>3. path'[c] = p
  BY <1>1, <1>2
<1>4. /\ Map' = Map /\ Pos(c)' = PosIn(heap, p) /\ Pos(c) = PosIn(heap, path[c])
  <2>1. Map' = Map
    BY <1>1, StateIs
  <2>2. Pos(c)' = PosIn(heap', path'[c])
    BY StateIs
  <2> QED
    BY <1>1, <1>3, <2>1, <2>2, StateIs
<1> DEFINE k == PosIn(heap, p)
<1>5. [d \in Cursor |-> Pos(d)]' = [[d \in Cursor |-> Pos(d)] EXCEPT ![c] = k]
  <2>1. \A d \in Cursor : Pos(d)' = IF d = c THEN k ELSE Pos(d)
    BY <1>2, <1>4
  <2> HIDE DEF k
  <2> QED
    BY <2>1
<1>6. Sorted!Moves(c, k)
  <2> HIDE DEF k
  <2> QED
    BY <1>4, <1>5 DEF Sorted!Moves
<1>7. ASSUME k = PosIn(heap, path[c]) PROVE [d \in Cursor |-> Pos(d)]' = [d \in Cursor |-> Pos(d)]
  <2>1. \A d \in Cursor : Pos(d)' = Pos(d)
    BY <1>2, <1>4, <1>7
  <2> QED
    BY <2>1
<1> QED
  BY <1>4, <1>6, <1>7

\* The first position.
LEMMA FirstStands ==
  ASSUME OneCursor, NEW lev, NEW rng, Live(lev, rng)
  PROVE  LET p == moveToFirst(heap, root, <<>>) IN
         /\ V!Complete(marked, root, depth, p)
         /\ PosIn(heap, p) = Sorted!Least(Sorted!Present)
         /\ isValid(heap, p) = (Sorted!Present # {})
<1> DEFINE p == moveToFirst(heap, root, <<>>)
<1>1. V!Tree(marked, root, depth, lev, rng, NULL)
  BY DEF Live, Twin
<1>2. V!Complete(marked, root, depth, p) /\ p = V!moveToFirst(marked, root, <<>>)
  BY FirstPath
<1>3. V!Left(marked, rng, depth, V!moveToFirst(marked, root, <<>>)) = V!Present(marked)
  BY VA, <1>1, V!MovedIs
<1> HIDE DEF p
<1>4. V!Left(marked, rng, depth, p) = Sorted!Present
  BY <1>2, <1>3, SortedTwins
<1>5. /\ PosIn(heap, p) = Sorted!Least(Sorted!Present)
      /\ isValid(heap, p) <=> Sorted!Present # {}
  BY <1>2, <1>4, Stands
<1>6. isValid(heap, p) = (Sorted!Present # {})
  BY <1>5 DEF isValid
<1> QED
  BY <1>2, <1>5, <1>6 DEF p

LEMMA SortedMade ==
  ASSUME OneCursor, IInv, NEW lev, NEW rng, Live(lev, rng), NEW c \in Cursor
  PROVE  /\ RL_NewCursor(c) => Sorted!NewCursor(c) \/ Sorted!NewCursorAtFirst(c)
         /\ RL_FreeCursor(c) => Sorted!FreeCursor(c)
         /\ RL_MoveToFirst(c) \/ Ifirst_cursor(c) => Sorted!MoveToFirst(c)
<1> DEFINE p == moveToFirst(heap, root, <<>>)
<1>1. Sorted!Exists(c) <=> path[c] # NULL
  BY HasCursor
<1>2. PosIn(heap, p) = Sorted!Least(Sorted!Present) /\ isValid(heap, p) = (Sorted!Present # {})
  BY FirstStands
<1>3. ASSUME RL_NewCursor(c) PROVE Sorted!NewCursor(c) \/ Sorted!NewCursorAtFirst(c)
  <2>1. Moves(c, p) /\ op' = "RL_NewCursor" /\ ret' = TRUE /\ path[c] = NULL
    BY <1>3 DEF RL_NewCursor, Returns
  <2> HIDE DEF p
  <2>2. Sorted!Moves(c, Sorted!Least(Sorted!Present))
    BY <1>2, <2>1, MovesSorted
  <2>3. Sorted!Present = {} => Sorted!Least(Sorted!Present) = END
    BY DEF Sorted!Least
  <2> QED
    BY <1>1, <2>1, <2>2, <2>3 DEF Sorted!NewCursor, Sorted!NewCursorAtFirst, Sorted!Returns
<1>4. ASSUME RL_FreeCursor(c) PROVE Sorted!FreeCursor(c)
  <2>1. Moves(c, NULL) /\ op' = "RL_FreeCursor" /\ ret' = TRUE /\ path[c] # NULL
    BY <1>4 DEF RL_FreeCursor, Returns, Uses
  <2>2. PosIn(heap, NULL) = NULL
    BY DEF PosIn
  <2>3. Sorted!Moves(c, NULL)
    BY <2>1, <2>2, MovesSorted
  <2> QED
    BY <1>1, <2>1, <2>3 DEF Sorted!FreeCursor, Sorted!Returns
<1>5. ASSUME RL_MoveToFirst(c) \/ Ifirst_cursor(c) PROVE Sorted!MoveToFirst(c)
  <2>1. /\ Moves(c, p) /\ path[c] # NULL /\ ret' = isValid(heap, p)
        /\ op' \in {"RL_MoveToFirst", "Ifirst_cursor"}
    BY <1>5 DEF RL_MoveToFirst, Ifirst_cursor, Returns, Uses
  <2> HIDE DEF p
  <2>2. Sorted!Moves(c, Sorted!Least(Sorted!Present))
    BY <1>2, <2>1, MovesSorted
  <2> QED
    BY <1>1, <1>2, <2>1, <2>2 DEF Sorted!MoveToFirst, Sorted!Returns
<1> QED
  BY <1>3, <1>4, <1>5

\* Nowhere to go in a relation without records.
LEMMA EmptyStands ==
  ASSUME OneCursor, NEW lev, NEW rng, Live(lev, rng), NEW p, V!Complete(marked, root, depth, p)
  PROVE  /\ numRecords = 0 <=> Sorted!Present = {}
         /\ Sorted!Present = {} =>
              /\ PosIn(heap, p) = END /\ isFirst(heap, p) /\ Sorted!Least(Sorted!Present) = END
              /\ Sorted!NextKey(END) = END /\ Sorted!PrevKey(END) = END /\ Sorted!Before(END) = {}
         /\ numRecords \in Nat /\ numRecords = Cardinality(Sorted!Present)
         /\ IsFiniteSet(Sorted!Present)
<1> DEFINE P == V!Present(marked)
<1>1. V!IsFiniteSet(P) /\ numRecords = V!Cardinality(P)
  BY DEF Live, V!Counted
<1>2. IsFiniteSet(P) /\ numRecords = Cardinality(P)
  BY <1>1, SameLibrary
<1>3. Sorted!Present = P
  BY SortedTwins
<1> HIDE DEF P
<1>4. (numRecords = 0 <=> P = {}) /\ numRecords \in Nat
  BY <1>2, FS_EmptySet, FS_CardinalityType
<1>5. ASSUME Sorted!Present = {}
      PROVE  /\ PosIn(heap, p) = END /\ isFirst(heap, p) /\ Sorted!Least(Sorted!Present) = END
             /\ Sorted!NextKey(END) = END /\ Sorted!PrevKey(END) = END /\ Sorted!Before(END) = {}
  <2>1. V!Left(marked, rng, depth, p) = {}
    BY <1>5, Stands
  <2>2. /\ PosIn(heap, p) = Sorted!Least(V!Left(marked, rng, depth, p))
        /\ isFirst(heap, p) <=> V!Left(marked, rng, depth, p) = Sorted!Present
    BY Stands
  <2>3. Sorted!Least({}) = END
    BY DEF Sorted!Least
  <2>4. Sorted!Greatest({}, END) = END
    BY DEF Sorted!Greatest
  <2>5. Sorted!NextKey(END) = END
    BY DEF Sorted!NextKey
  <2>6. Sorted!Before(END) = {}
    BY <1>5 DEF Sorted!Before
  <2>7. Sorted!PrevKey(END) = END
    BY <2>4, <2>6 DEF Sorted!PrevKey
  <2> QED
    BY <1>5, <2>1, <2>2, <2>3, <2>5, <2>6, <2>7
<1> QED
  BY <1>2, <1>3, <1>4, <1>5

LEMMA SortedForth ==
  ASSUME OneCursor, IInv, NEW lev, NEW rng, Live(lev, rng), NEW c \in Cursor,
         RL_MoveToNextValid(c) \/ Inext_cursor(c)
  PROVE  Sorted!MoveToNext(c)
<1> DEFINE p == path[c]
           q == IF numRecords = 0 THEN p ELSE AfterNext(heap, p)
           k == PosIn(heap, p)
<1>1. path[c] # NULL /\ Moves(c, q)
  BY DEF RL_MoveToNextValid, Inext_cursor, Uses
<1>2. \/ op' = "RL_MoveToNextValid" /\ ret' = (q # Lost /\ isValid(heap, q))
      \/ op' = "Inext_cursor" /\ ret' = TRUE
  BY DEF RL_MoveToNextValid, Inext_cursor, Returns
<1>3. /\ V!Complete(marked, root, depth, p) /\ Sorted!Exists(c)
      /\ [d \in Cursor |-> Pos(d)][c] = k
  BY <1>1, HasCursor
<1> HIDE DEF p, k
<1>4. V!Complete(marked, root, depth, q) /\ PosIn(heap, q) = Sorted!NextKey(k)
  <2>1. CASE numRecords = 0
    BY <1>3, <2>1, EmptyStands DEF k
  <2>2. CASE numRecords # 0
    BY <1>3, <2>2, StepsSorted DEF k
  <2> QED
    BY <2>1, <2>2
<1> HIDE DEF q
<1>5. isValid(heap, q) = (Sorted!NextKey(k) # END)
  <2>1. isValid(heap, q) <=> Sorted!NextKey(k) # END
    BY <1>4, Stands
  <2> QED
    BY <2>1 DEF isValid
<1>6. q # Lost
  BY <1>4, PathMoves
<1>7. Sorted!Moves(c, Sorted!NextKey(k))
  BY <1>1, <1>4, MovesSorted
<1>8. \/ op' = "RL_MoveToNextValid" /\ ret' = (Sorted!NextKey(k) # END)
      \/ op' = "Inext_cursor" /\ ret' = TRUE
  BY <1>2, <1>5, <1>6
<1> QED
  BY <1>3, <1>7, <1>8 DEF Sorted!MoveToNext, Sorted!Returns

LEMMA SortedBack ==
  ASSUME OneCursor, IInv, NEW lev, NEW rng, Live(lev, rng), NEW c \in Cursor,
         RL_MoveToPreviousNotFirst(c) \/ Iprev_cursor(c), depth < 2
  PROVE  Sorted!MoveToPrevious(c) \/ Sorted!PreviousIsFirst(c)
<1> DEFINE p == path[c]
           q == IF numRecords = 0 THEN p ELSE AfterPrev(heap, p)
           k == PosIn(heap, p)
<1>1. path[c] # NULL /\ Moves(c, q)
  BY DEF RL_MoveToPreviousNotFirst, Iprev_cursor, Uses
<1>2. \/ op' = "RL_MoveToPreviousNotFirst" /\ ret' = (q # Lost /\ ~isFirst(heap, q))
      \/ op' = "Iprev_cursor" /\ ret' = TRUE
  BY DEF RL_MoveToPreviousNotFirst, Iprev_cursor, Returns
<1>3. /\ V!Complete(marked, root, depth, p) /\ Sorted!Exists(c)
      /\ [d \in Cursor |-> Pos(d)][c] = k
  BY <1>1, HasCursor
<1> HIDE DEF p, k
<1>4. /\ V!Complete(marked, root, depth, q) /\ PosIn(heap, q) = Sorted!PrevKey(k)
      /\ isFirst(heap, q) <=> Sorted!PrevKey(k) = Sorted!Least(Sorted!Present)
      /\ Sorted!Before(k) = {} => isFirst(heap, q)
  <2>1. CASE numRecords = 0
    BY <1>3, <2>1, EmptyStands DEF k
  <2>2. CASE numRecords # 0
    BY <1>3, <2>2, StepsSorted DEF k
  <2> QED
    BY <2>1, <2>2
<1> HIDE DEF q
<1>5. q # Lost
  BY <1>4, PathMoves
<1>6. Sorted!Moves(c, Sorted!PrevKey(k))
  BY <1>1, <1>4, MovesSorted
<1>7. CASE op' = "Iprev_cursor" /\ ret' = TRUE
  BY <1>3, <1>6, <1>7 DEF Sorted!MoveToPrevious, Sorted!Returns
<1>8. CASE op' = "RL_MoveToPreviousNotFirst" /\ ret' = (q # Lost /\ ~isFirst(heap, q))
  <2>1. CASE Sorted!Before(k) # {} /\ isFirst(heap, q)
    <3>1. ret' = FALSE /\ Sorted!PrevKey(k) = Sorted!Least(Sorted!Present)
      BY <1>4, <1>8, <2>1
    <3> QED
      BY <1>3, <1>6, <1>8, <2>1, <3>1 DEF Sorted!PreviousIsFirst, Sorted!Returns
  <2>2. CASE ~(Sorted!Before(k) # {} /\ isFirst(heap, q))
    <3>1. (q # Lost /\ ~isFirst(heap, q)) = (Sorted!Before(k) # {})
      BY <1>4, <1>5, <2>2 DEF isFirst
    <3> QED
      BY <1>3, <1>6, <1>8, <3>1 DEF Sorted!MoveToPrevious, Sorted!Returns
  <2> QED
    BY <2>1, <2>2
<1> QED
  BY <1>2, <1>7, <1>8

\* A step forward leaves the keys but the least.
LEMMA StepsOn ==
  ASSUME NEW lev, NEW rng, Live(lev, rng), NEW p, V!Complete(marked, root, depth, p)
  PROVE  /\ V!Complete(marked, root, depth, AfterNext(heap, p))
         /\ V!Left(marked, rng, depth, p) = {} => V!Left(marked, rng, depth, AfterNext(heap, p)) = {}
         /\ V!Left(marked, rng, depth, p) # {} =>
              \E k : /\ V!IsLeast(k, V!Left(marked, rng, depth, p))
                     /\ V!Left(marked, rng, depth, AfterNext(heap, p)) = V!Left(marked, rng, depth, p) \ {k}
<1>1. Twin(heap, marked, root, depth, lev, rng) /\ V!Tree(marked, root, depth, lev, rng, NULL)
  BY DEF Live, Twin
<1>2. AfterNext(heap, p) = V!AfterNext(marked, p) /\ V!Complete(marked, root, depth, AfterNext(heap, p))
  BY <1>1, StepTwins
<1>3. /\ V!Left(marked, rng, depth, p) = {} => V!Left(marked, rng, depth, V!AfterNext(marked, p)) = {}
      /\ V!Left(marked, rng, depth, p) # {} =>
              \E k : /\ V!IsLeast(k, V!Left(marked, rng, depth, p))
                     /\ V!Left(marked, rng, depth, V!AfterNext(marked, p)) = V!Left(marked, rng, depth, p) \ {k}
  BY VA, <1>1, V!AfterNextIs
<1> QED
  BY <1>2, <1>3

\* numRecords steps after the first there is nothing left.
LEMMA ToEndStands ==
  ASSUME OneCursor, NEW lev, NEW rng, Live(lev, rng), NEW p, V!Complete(marked, root, depth, p)
  PROVE  ~isValid(heap, ToEnd(heap, p))
<1> DEFINE k == [collects |-> FALSE, heap |-> heap]
           A(q) == V!Left(marked, rng, depth, q)
           complete(q) == V!Complete(marked, root, depth, q)
           P == Sorted!Present
<1>1. PICK state : Iterates(k, AfterNext(heap, p), state) /\ ToEnd(heap, p) = state[numRecords]
  BY ToEndIs
<1>2. \A x : Onward(k, x) = IF isValid(heap, x) THEN AfterNext(heap, x) ELSE x
  BY DEF Onward
<1> HIDE DEF k
<1>3. state[0] = AfterNext(heap, p) /\ \A i \in Nat : state[i + 1] = Onward(k, state[i])
  BY <1>1 DEF Iterates
<1>4. IsFiniteSet(P) /\ numRecords = Cardinality(P) /\ numRecords \in Nat
  BY EmptyStands
<1>5. ASSUME NEW q, complete(q)
      PROVE  /\ complete(AfterNext(heap, q))
             /\ isValid(heap, q) <=> A(q) # {}
             /\ IsFiniteSet(A(q)) /\ Cardinality(A(q)) \in Nat /\ Cardinality(A(q)) <= numRecords
             /\ A(q) = {} => A(AfterNext(heap, q)) = {}
             /\ A(q) # {} => Cardinality(A(AfterNext(heap, q))) = Cardinality(A(q)) - 1
  <2>1. A(q) \subseteq P /\ (isValid(heap, q) <=> A(q) # {})
    BY <1>5, Stands
  <2>2. /\ complete(AfterNext(heap, q))
        /\ A(q) = {} => A(AfterNext(heap, q)) = {}
        /\ A(q) # {} => \E x : V!IsLeast(x, A(q)) /\ A(AfterNext(heap, q)) = A(q) \ {x}
    BY <1>5, StepsOn
  <2> HIDE DEF A, P
  <2>3. IsFiniteSet(A(q)) /\ Cardinality(A(q)) <= numRecords
    BY <1>4, <2>1, FS_Subset
  <2>4. ASSUME A(q) # {} PROVE Cardinality(A(AfterNext(heap, q))) = Cardinality(A(q)) - 1
    <3>1. PICK x : V!IsLeast(x, A(q)) /\ A(AfterNext(heap, q)) = A(q) \ {x}
      BY <2>2, <2>4
    <3>2. x \in A(q)
      BY <3>1 DEF V!IsLeast
    <3> QED
      BY <2>3, <3>1, <3>2, FS_RemoveElement
  <2> QED
    BY <2>1, <2>2, <2>3, <2>4, FS_CardinalityType
<1>6. complete(p)
  OBVIOUS
<1> HIDE DEF A, complete, P
<1> DEFINE ok(i) == /\ complete(state[i])
                    /\ A(state[i]) # {} => Cardinality(A(state[i])) + 1 + i <= numRecords
           T == {i \in Nat : ~ok(i)}
<1>7. ok(0)
  <2> DEFINE q == AfterNext(heap, p)
  <2>1. /\ complete(q)
        /\ A(p) = {} => A(q) = {}
        /\ A(p) # {} => Cardinality(A(q)) = Cardinality(A(p)) - 1
        /\ Cardinality(A(p)) \in Nat /\ Cardinality(A(p)) <= numRecords
    BY <1>5, <1>6
  <2>2. state[0] = q
    BY <1>3
  <2> HIDE DEF q
  <2> QED
    BY <1>4, <2>1, <2>2
<1>8. ASSUME NEW i \in Nat, ok(i) PROVE ok(i + 1)
  <2> DEFINE x == state[i]
             q == AfterNext(heap, x)
  <2>1. /\ complete(q)
        /\ isValid(heap, x) <=> A(x) # {}
        /\ Cardinality(A(x)) \in Nat
        /\ A(x) # {} => Cardinality(A(q)) = Cardinality(A(x)) - 1
    BY <1>5, <1>8
  <2>2. state[i + 1] = IF isValid(heap, x) THEN q ELSE x
    BY <1>2, <1>3
  <2>3. complete(x) /\ (A(x) # {} => Cardinality(A(x)) + 1 + i <= numRecords)
    BY <1>8
  <2> HIDE DEF x, q, ok
  <2>4. CASE isValid(heap, x)
    <3>1. state[i + 1] = q /\ A(x) # {} /\ Cardinality(A(x)) + 1 + i <= numRecords
      BY <2>1, <2>2, <2>3, <2>4
    <3>2. Cardinality(A(q)) + 1 + (i + 1) <= numRecords
      BY <1>4, <2>1, <3>1
    <3> QED
      BY <2>1, <3>1, <3>2 DEF ok
  <2>5. CASE ~isValid(heap, x)
    BY <2>1, <2>2, <2>3, <2>5 DEF ok
  <2> QED
    BY <2>4, <2>5
<1> HIDE DEF ok
<1>9. T = {}
  <2>1. SUFFICES ASSUME T # {} PROVE FALSE
    OBVIOUS
  <2>2. PICK i \in T : \A j \in T : i <= j
    BY VA, <2>1, V!LeastNat
  <2>3. i # 0
    BY <1>7, <2>2
  <2>4. i - 1 \in Nat /\ i - 1 \notin T /\ i - 1 + 1 = i
    BY <2>2, <2>3
  <2> QED
    BY <1>8, <2>2, <2>4
<1>10. ok(numRecords)
  BY <1>4, <1>9
<1> DEFINE z == state[numRecords]
<1>11. complete(z) /\ (A(z) # {} => Cardinality(A(z)) + 1 + numRecords <= numRecords)
  BY <1>10 DEF ok
<1> HIDE DEF z
<1>12. Cardinality(A(z)) \in Nat /\ (isValid(heap, z) <=> A(z) # {})
  BY <1>5, <1>11
<1>13. ~isValid(heap, z)
  BY <1>4, <1>11, <1>12
<1> QED
  BY <1>1, <1>13 DEF z

LEMMA SortedLast ==
  ASSUME OneCursor, IInv, NEW lev, NEW rng, Live(lev, rng), NEW c \in Cursor, Ilast_cursor(c)
  PROVE  Sorted!MoveToLast(c)
<1> DEFINE p == ToEnd(heap, path[c])
           q == AfterPrev(heap, p)
<1>1. path[c] # NULL /\ Moves(c, q) /\ op' = "Ilast_cursor" /\ ret' = TRUE
  BY DEF Ilast_cursor, Uses, Returns
<1>2. V!Complete(marked, root, depth, path[c]) /\ Sorted!Exists(c)
  BY <1>1, HasCursor
<1>3. V!Complete(marked, root, depth, p)
  BY <1>2, ToEndPath
<1>4. ~isValid(heap, p)
  BY <1>2, ToEndStands
<1> HIDE DEF p
<1>5. PosIn(heap, p) = END
  BY <1>3, <1>4, Stands
<1>6. PosIn(heap, q) = Sorted!PrevKey(END)
  BY <1>3, <1>4, <1>5, StepsSorted
<1>7. Sorted!PrevKey(END) = Sorted!Greatest(Sorted!Present, END)
  <2>1. Sorted!Before(END) = Sorted!Present
    BY DEF Sorted!Before
  <2> QED
    BY <2>1 DEF Sorted!PrevKey
<1> HIDE DEF q
<1>8. Sorted!Moves(c, Sorted!Greatest(Sorted!Present, END))
  BY <1>1, <1>6, <1>7, MovesSorted
<1> QED
  BY <1>1, <1>2, <1>8 DEF Sorted!MoveToLast, Sorted!Returns

\* A valid cursor that is settled is at the record of the key at which it stands.
LEMMA EntryStands ==
  ASSUME OneCursor, NEW lev, NEW rng, Live(lev, rng), NEW p, V!Complete(marked, root, depth, p),
         isValid(heap, p)
  PROVE  LET q == Settle(heap, p)
             n == currNode(heap, q)
             e == n.entries[entryIndex(q) + 1]
         IN  /\ entryIndex(q) \in InUse(n) /\ KeyAt(n, entryIndex(q)) = e.key
             /\ e.key = PosIn(heap, p) /\ e.key \in Key /\ e.ptr = Map[e.key] /\ e.ptr \in Record
             /\ V!IsLeast(e.key, V!Left(marked, rng, depth, p))
<1> DEFINE q == Settle(heap, p)
           n == currNode(heap, q)
           i == entryIndex(q)
           e == n.entries[i + 1]
           A == V!Left(marked, rng, depth, p)
<1>1. Twin(heap, marked, root, depth, lev, rng) /\ V!Tree(marked, root, depth, lev, rng, NULL)
  BY DEF Live, Twin
<1>2. V!AtEntry(marked, A, q) /\ i \in InUse(n) /\ V!Complete(marked, root, depth, q)
  BY <1>1, SettledAt, StepTwins
<1>3. PosIn(heap, p) = Sorted!Least(A) /\ A \subseteq Sorted!Present
  BY Stands
<1>4. Sorted!Present \in SUBSET Key /\ Sorted!Least(A) = V!Sorted!Least(A) /\ Map = V!MapOf(marked)
  BY SortedTwins
<1> HIDE DEF q, A
<1> DEFINE y == V!currNode(marked, q)
<1>5. SameNode(n, y) /\ V!entryIndex(q) = i
  <2>1. /\ depth \in Nat /\ currNode(heap, q) = heap[q[depth + 1].node] /\ Last(q) = q[depth + 1]
        /\ entryIndex(q) = V!entryIndex(q)
    BY <1>1, <1>2, StopTwins
  <2>2. depth + 1 \in 1 .. depth + 1
    BY <2>1
  <2>3. SameNode(heap[q[depth + 1].node], marked[q[depth + 1].node])
    BY <1>1, <1>2, <2>2, StopTwins
  <2>4. V!currNode(marked, q) = marked[q[depth + 1].node]
    BY <2>1, SameLibrary DEF V!currNode
  <2> QED
    BY <2>1, <2>3, <2>4
<1>6. KeyAt(n, i) = e.key /\ V!KeyAt(y, i) = KeyAt(n, i) /\ y.entries = n.entries
  BY <1>2, <1>5, NodeTwins DEF SameNode
<1>7. V!IsLeast(e.key, A) /\ e \in V!Records(marked)
  BY <1>2, <1>5, <1>6 DEF V!AtEntry
<1> HIDE DEF n, i, y
<1>8. e.key \in Key /\ e.ptr \in Record
  BY VA, <1>1, <1>7, V!RecordFacts
<1>9. e.ptr = Map[e.key]
  BY VA, <1>1, <1>4, <1>7, V!MapIs
<1>10. e.key = PosIn(heap, p)
  <2> DEFINE k == e.key
  <2>1. V!IsLeast(k, A) /\ A \in SUBSET Key
    BY <1>3, <1>4, <1>7
  <2> HIDE DEF k
  <2>2. V!Sorted!Least(A) = k
    BY VA, <2>1, V!LeastIs
  <2> QED
    BY <1>3, <1>4, <2>2 DEF k
<1> QED
  BY <1>2, <1>6, <1>7, <1>8, <1>9, <1>10 DEF q, n, i, A

\* A search for a key ends before the keys from that one on.
LEMMA SearchStands ==
  ASSUME OneCursor, NEW lev, NEW rng, Live(lev, rng), NEW p, V!Complete(marked, root, depth, p),
         NEW key \in Key
  PROVE  /\ V!Complete(marked, root, depth, goToKey(heap, p, key))
         /\ V!Left(marked, rng, depth, goToKey(heap, p, key)) = {j \in Sorted!Present : j >= key}
<1> DEFINE c == goToKey(heap, p, key)
           P == Sorted!Present
<1>1. Twin(heap, marked, root, depth, lev, rng) /\ V!Tree(marked, root, depth, lev, rng, NULL)
  BY DEF Live, Twin
<1>2. V!SearchPath(marked, root, depth, rng, c, key)
  BY <1>1, GoToTwins
<1>3. P = V!Present(marked) /\ P \in SUBSET Key
  BY SortedTwins
<1> HIDE DEF c, P
<1>4. /\ V!Complete(marked, root, depth, c)
      /\ V!Left(marked, rng, depth, c) = {j \in V!Present(marked) : key <= j}
  BY VA, <1>1, <1>2, V!MovedIs
<1>5. {j \in P : key <= j} = {j \in P : j >= key}
  <2>1. \A j \in P : j \in Nat
    BY <1>3, KeysAssumption
  <2>2. key \in Nat
    BY KeysAssumption
  <2>3. \A j \in P : key <= j <=> j >= key
    BY <2>1, <2>2
  <2> QED
    BY <2>3
<1> QED
  BY <1>3, <1>4, <1>5 DEF c, P

\* RL_MoveToKey() and Imake_cursor() stand at the key or the next.
LEMMA FoundStands ==
  ASSUME OneCursor, NEW lev, NEW rng, Live(lev, rng), NEW p, V!Complete(marked, root, depth, p),
         NEW key \in Key
  PROVE  LET c == goToKey(heap, p, key)
             q == Settle(heap, c)
         IN  /\ PosIn(heap, c) = Sorted!Least({j \in Sorted!Present : j >= key})
             /\ PosIn(heap, q) = PosIn(heap, c) /\ q # Lost
             /\ isValid(heap, c) =>
                  /\ entryIndex(q) \in InUse(currNode(heap, q))
                  /\ KeyAt(currNode(heap, q), entryIndex(q)) = PosIn(heap, c)
             /\ key \in Sorted!Present <=>
                  isValid(heap, c) /\ KeyAt(currNode(heap, q), entryIndex(q)) = key
<1> DEFINE c == goToKey(heap, p, key)
           q == Settle(heap, c)
           k == KeyAt(currNode(heap, q), entryIndex(q))
           P == Sorted!Present
           A == {j \in P : j >= key}
<1>1. V!Complete(marked, root, depth, c) /\ V!Left(marked, rng, depth, c) = A
  BY SearchStands
<1> HIDE DEF c, A
<1>2. /\ PosIn(heap, c) = Sorted!Least(A) /\ PosIn(heap, q) = PosIn(heap, c)
      /\ isValid(heap, c) <=> A # {}
  BY <1>1, Stands
<1>3. q # Lost
  BY <1>1, PathMoves
<1>4. ASSUME isValid(heap, c)
      PROVE  /\ entryIndex(q) \in InUse(currNode(heap, q)) /\ k = PosIn(heap, c)
             /\ V!IsLeast(k, A)
  BY <1>1, <1>4, EntryStands
<1>5. P \in SUBSET Key
  BY SortedTwins
<1> HIDE DEF q, P, k
<1>6. key \in P <=> isValid(heap, c) /\ k = key
  <2>1. key \in Nat /\ \A j \in P : j \in Nat
    BY <1>5, KeysAssumption
  <2>2. key \in P => key \in A
    BY <2>1 DEF A
  <2>3. ASSUME key \in P PROVE isValid(heap, c) /\ k = key
    <3>1. isValid(heap, c)
      BY <1>2, <2>2, <2>3
    <3>2. k \in P /\ k >= key /\ k <= key
      BY <1>4, <2>2, <2>3, <3>1 DEF V!IsLeast, A
    <3> QED
      BY <2>1, <3>1, <3>2
  <2>4. ASSUME isValid(heap, c), k = key PROVE key \in P
    BY <1>4, <2>4 DEF V!IsLeast, A
  <2> QED
    BY <2>3, <2>4
<1> QED
  BY <1>2, <1>3, <1>4, <1>6 DEF c, q, k, A, P

LEMMA SortedSearch ==
  ASSUME OneCursor, IInv, NEW lev, NEW rng, Live(lev, rng), NEW c \in Cursor, NEW key \in Key
  PROVE  /\ RL_MoveToKey(c, key) => Sorted!MoveToKey(c, key)
         /\ Imake_cursor(c, key) => Sorted!MakeCursor(c, key)
<1> DEFINE P == Sorted!Present
           A == {j \in P : j >= key}
<1>1. ASSUME RL_MoveToKey(c, key) PROVE Sorted!MoveToKey(c, key)
  <2> DEFINE p == goToKey(heap, path[c], key)
             s == Settle(heap, p)
             q == IF isValid(heap, p) THEN s ELSE p
             n == currNode(heap, q)
             i == entryIndex(q)
  <2>1. /\ Moves(c, q) /\ path[c] # NULL /\ op' = "RL_MoveToKey"
        /\ ret' = (q # Lost /\ isValid(heap, p) /\ i \in InUse(n) /\ KeyAt(n, i) = key)
    BY <1>1 DEF RL_MoveToKey, Uses, Returns
  <2>2. V!Complete(marked, root, depth, path[c]) /\ Sorted!Exists(c)
    BY <2>1, HasCursor
  <2>3. /\ PosIn(heap, p) = Sorted!Least(A) /\ PosIn(heap, s) = PosIn(heap, p) /\ s # Lost
        /\ isValid(heap, p) => entryIndex(s) \in InUse(currNode(heap, s))
        /\ key \in P <=> isValid(heap, p) /\ KeyAt(currNode(heap, s), entryIndex(s)) = key
    BY <2>2, FoundStands
  <2> HIDE DEF p, s, A, P
  <2>4. PosIn(heap, q) = Sorted!Least(A)
    BY <2>3
  <2>5. (q # Lost /\ isValid(heap, p) /\ i \in InUse(n) /\ KeyAt(n, i) = key) <=> key \in P
    BY <2>3
  <2> HIDE DEF q, i, n
  <2>6. ret' = (key \in P)
    BY <2>1, <2>5
  <2>7. Sorted!Moves(c, Sorted!Least(A))
    BY <2>1, <2>4, MovesSorted
  <2> QED
    BY <2>1, <2>2, <2>6, <2>7 DEF Sorted!MoveToKey, Sorted!Returns, A, P
<1>2. ASSUME Imake_cursor(c, key) PROVE Sorted!MakeCursor(c, key)
  <2> DEFINE z == moveToFirst(heap, root, <<>>)
             p == goToKey(heap, z, key)
             s == Settle(heap, p)
             k == KeyAt(currNode(heap, s), entryIndex(s))
             found == isValid(heap, p) /\ k = key
             q == IF found THEN s ELSE NULL
  <2>1. Moves(c, q) /\ path[c] = NULL /\ op' = "Imake_cursor" /\ ret' = found
    BY <1>2 DEF Imake_cursor, Returns
  <2>2. ~Sorted!Exists(c)
    BY <2>1, HasCursor
  <2>3. V!Complete(marked, root, depth, z)
    BY FirstPath
  <2> HIDE DEF z
  <2>4. /\ PosIn(heap, s) = PosIn(heap, p)
        /\ isValid(heap, p) => k = PosIn(heap, p)
        /\ key \in P <=> isValid(heap, p) /\ k = key
    BY <2>3, FoundStands
  <2> HIDE DEF p, s, k, P
  <2>5. PosIn(heap, NULL) = NULL
    BY DEF PosIn
  <2>6. PosIn(heap, q) = IF key \in P THEN key ELSE NULL
    BY <2>4, <2>5
  <2>7. ret' = (key \in P)
    BY <2>1, <2>4
  <2> DEFINE to == IF key \in P THEN key ELSE NULL
  <2> HIDE DEF q
  <2>8. Sorted!Moves(c, to)
    BY <2>1, <2>6, MovesSorted
  <2> QED
    BY <2>1, <2>2, <2>7, <2>8 DEF Sorted!MakeCursor, Sorted!Returns, P
<1> QED
  BY <1>1, <1>2

\* A cursor that is asked for its record settles and stands where it stood.
LEMMA SettlesSorted ==
  ASSUME OneCursor, IInv, NEW lev, NEW rng, Live(lev, rng), NEW c \in Cursor,
         path[c] # NULL, isValid(heap, path[c]), Moves(c, Settle(heap, path[c]))
  PROVE  LET q == Settle(heap, path[c])
             n == currNode(heap, q)
             e == n.entries[entryIndex(q) + 1]
             k == [d \in Cursor |-> Pos(d)][c]
         IN  /\ Sorted!Exists(c) /\ k # END /\ UNCHANGED <<Map, [d \in Cursor |-> Pos(d)]>>
             /\ entryIndex(q) \in InUse(n) /\ q # Lost
             /\ KeyAt(n, entryIndex(q)) = e.key /\ e.key = k /\ e.ptr = Map[k] /\ e.ptr \in Record
<1> DEFINE p == path[c]
           q == Settle(heap, p)
           n == currNode(heap, q)
           i == entryIndex(q)
           e == n.entries[i + 1]
           k == [d \in Cursor |-> Pos(d)][c]
<1>1. V!Complete(marked, root, depth, p) /\ Sorted!Exists(c) /\ k = PosIn(heap, p)
  BY HasCursor
<1>2. PosIn(heap, q) = PosIn(heap, p) /\ k # END
  BY <1>1, Stands
<1>3. UNCHANGED <<Map, [d \in Cursor |-> Pos(d)]>>
  BY <1>2, MovesSorted
<1>4. /\ i \in InUse(n) /\ KeyAt(n, i) = e.key
      /\ e.key = PosIn(heap, p) /\ e.ptr = Map[e.key] /\ e.ptr \in Record
  BY <1>1, EntryStands
<1>5. q # Lost
  BY <1>1, PathMoves
<1> QED
  BY <1>1, <1>2, <1>3, <1>4, <1>5

LEMMA SortedGet ==
  ASSUME OneCursor, IInv, NEW lev, NEW rng, Live(lev, rng), NEW c \in Cursor
  PROVE  /\ RL_GetRecord(c) => Sorted!GetRecord(c)
         /\ RL_GetKey(c) => Sorted!GetKey(c)
         /\ Iget_key(c) \/ Iget_value(c) => Sorted!GetEntry(c) \/ Sorted!KeyZeroDenied(c)
<1> DEFINE q == Settle(heap, path[c])
           n == currNode(heap, q)
           i == entryIndex(q)
           e == n.entries[i + 1]
           k == [d \in Cursor |-> Pos(d)][c]
           Stays == UNCHANGED <<Map, [d \in Cursor |-> Pos(d)]>>
           known == q # Lost /\ i \in InUse(n)
           Good == /\ Sorted!Exists(c) /\ k # END /\ Stays /\ i \in InUse(n) /\ q # Lost
                   /\ KeyAt(n, i) = e.key /\ e.key = k /\ e.ptr = Map[k] /\ e.ptr \in Record
<1>1. ASSUME path[c] # NULL, isValid(heap, path[c]), Moves(c, q) PROVE Good
  BY <1>1, SettlesSorted
<1>2. ASSUME path[c] # NULL, isValid(heap, path[c]) PROVE known
  <2>1. V!Complete(marked, root, depth, path[c])
    BY <1>2, HasCursor
  <2> QED
    BY <1>2, <2>1, EntryStands, PathMoves
<1>3. ASSUME NEW o, NEW f, GetEntry(o, c, f)
      PROVE  Good /\ op' = o /\ ret' = e[f]
  <2>1. /\ path[c] # NULL /\ isValid(heap, path[c]) /\ op' = o
        /\ Moves(c, IF known THEN q ELSE Lost)
        /\ ret' = IF known THEN e[f] ELSE NULL
    BY <1>3 DEF GetEntry, Uses, Returns
  <2>2. known
    BY <1>2, <2>1
  <2> HIDE DEF known, q, e, Good
  <2> QED
    BY <1>1, <2>1, <2>2
<1>4. ASSUME Iget_key(c) \/ Iget_value(c)
      PROVE  /\ Good
             /\ \/ op' = "Iget_key" /\ ret' = (KeyAt(n, i) # 0)
                \/ op' = "Iget_value" /\ ret' = (e.ptr # NULL)
  <2>1. /\ path[c] # NULL /\ isValid(heap, path[c]) /\ Moves(c, q)
        /\ \/ op' = "Iget_key" /\ ret' = (KeyAt(n, i) # 0)
           \/ op' = "Iget_value" /\ ret' = (e.ptr # NULL)
    BY <1>4 DEF Iget_key, Iget_value, Uses, Returns
  <2> HIDE DEF q, e, i, n, Good
  <2> QED
    BY <1>1, <2>1
<1> HIDE DEF q, n, i, e
<1>5. ASSUME RL_GetRecord(c) PROVE Sorted!GetRecord(c)
  <2>1. GetEntry("RL_GetRecord", c, "ptr")
    BY <1>5 DEF RL_GetRecord
  <2>2. Good /\ op' = "RL_GetRecord" /\ ret' = e.ptr
    BY <1>3, <2>1
  <2> QED
    BY <2>2 DEF Sorted!GetRecord, Sorted!Returns
<1>6. ASSUME RL_GetKey(c) PROVE Sorted!GetKey(c)
  <2>1. GetEntry("RL_GetKey", c, "key")
    BY <1>6 DEF RL_GetKey
  <2>2. Good /\ op' = "RL_GetKey" /\ ret' = e.key
    BY <1>3, <2>1
  <2> QED
    BY <2>2 DEF Sorted!GetKey, Sorted!Returns
<1>7. ASSUME Iget_key(c) \/ Iget_value(c) PROVE Sorted!GetEntry(c) \/ Sorted!KeyZeroDenied(c)
  <2>1. /\ Good
        /\ \/ op' = "Iget_key" /\ ret' = (KeyAt(n, i) # 0)
           \/ op' = "Iget_value" /\ ret' = (e.ptr # NULL)
    BY <1>4, <1>7
  <2>2. e.ptr # NULL
    BY <2>1, NullAssumption
  <2>3. (op' = "Iget_key" /\ ret' = (k # 0)) \/ (op' = "Iget_value" /\ ret' = TRUE)
    BY <2>1, <2>2
  <2> QED
    BY <2>1, <2>3 DEF Sorted!GetEntry, Sorted!KeyZeroDenied, Sorted!Returns
<1> QED
  BY <1>5, <1>6, <1>7

LEMMA EmptyRoot ==
  ASSUME OneCursor, NEW lev, NEW rng, Live(lev, rng)
  PROVE  numKeys(heap[root]) = 0 <=> Sorted!Present = {}
<1> DEFINE P == V!Present(marked)
<1>1. /\ Twin(heap, marked, root, depth, lev, rng) /\ V!Tree(marked, root, depth, lev, rng, NULL)
      /\ V!RootOK(marked, root)
  BY DEF Live, Twin
<1>2. Sorted!Present = P
  BY SortedTwins
<1>3. root \in Used(heap) /\ rng[root] = Key /\ root \in V!Used(marked)
  BY <1>1, TreeNodes, TwinNodes DEF V!Tree, V!Shape, Twin
<1>4. /\ \A n \in Used(heap) : /\ n \in V!Used(marked) /\ V!numKeys(marked[n]) = numKeys(heap[n])
                               /\ numKeys(heap[n]) \in Nat /\ heap[n].isLeaf = marked[n].isLeaf
                               /\ n # root \/ ~heap[n].isLeaf => numKeys(heap[n]) >= 1
  <2>1. ASSUME NEW n \in Used(heap)
        PROVE  /\ n \in V!Used(marked) /\ V!numKeys(marked[n]) = numKeys(heap[n])
               /\ numKeys(heap[n]) \in Nat /\ heap[n].isLeaf = marked[n].isLeaf
    BY <1>1, TwinNodes, NodeTwins, TreeNodes DEF Twin, SameNode
  <2> QED
    BY <1>1, <2>1, TreeNodes
<1>5. ASSUME NEW n \in Used(heap), heap[n].isLeaf
      PROVE  /\ numKeys(heap[n]) >= 1 => P # {}
             /\ \A k \in P : k \in rng[n] => numKeys(heap[n]) >= 1
  <2>1. /\ \A i \in 1 .. V!numKeys(marked[n]) : marked[n].entries[i].key \in P
        /\ \A k \in P : k \in rng[n] =>
             \E i \in 1 .. V!numKeys(marked[n]) : marked[n].entries[i].key = k
    BY VA, <1>1, <1>4, <1>5, V!LeafKeys
  <2> DEFINE m == numKeys(heap[n])
  <2>2. m \in Nat /\ V!numKeys(marked[n]) = m
    BY <1>4
  <2> HIDE DEF m, P
  <2>3. m >= 1 => 1 \in 1 .. m
    BY <2>2
  <2>4. ASSUME NEW k \in P, k \in rng[n] PROVE m >= 1
    <3>1. PICK i \in 1 .. m : marked[n].entries[i].key = k
      BY <2>1, <2>2, <2>4
    <3> QED
      BY <2>2, <3>1
  <2> QED
    BY <2>1, <2>2, <2>3, <2>4 DEF m
<1>6. P \subseteq Key
  BY <1>2, SortedTwins
<1>7. CASE heap[root].isLeaf
  <2>1. numKeys(heap[root]) \in Nat
    BY <1>3, <1>4
  <2>2. numKeys(heap[root]) >= 1 => P # {}
    BY <1>3, <1>5, <1>7
  <2>3. P # {} => numKeys(heap[root]) >= 1
    BY <1>3, <1>5, <1>6, <1>7
  <2> QED
    BY <1>2, <2>1, <2>2, <2>3
<1>8. CASE ~heap[root].isLeaf
  <2> DEFINE p == moveToFirst(heap, root, <<>>)
             n == p[depth + 1].node
  <2>1. V!Complete(marked, root, depth, p)
    BY FirstPath
  <2> HIDE DEF p
  <2>2. depth \in Nat
    BY <1>1, <2>1, StopTwins
  <2>3. depth + 1 \in 1 .. depth + 1
    BY <2>2
  <2>4. n \in Used(heap) /\ heap[n].isLeaf
    BY <1>1, <2>1, <2>3, StopTwins
  <2>5. n # root
    BY <1>8, <2>4
  <2> HIDE DEF n
  <2>6. numKeys(heap[n]) >= 1
    BY <1>4, <2>4, <2>5
  <2>7. P # {}
    BY <1>5, <2>4, <2>6
  <2>8. numKeys(heap[root]) >= 1 /\ numKeys(heap[root]) \in Nat
    BY <1>3, <1>4, <1>8
  <2> QED
    BY <1>2, <2>7, <2>8
<1> QED
  BY <1>7, <1>8

\* Where nothing moves.
LEMMA RestsSorted ==
  ASSUME heap' = heap, path' = path
  PROVE  UNCHANGED <<Map, [d \in Cursor |-> Pos(d)]>>
<1>1. Map' = Map /\ \A d \in Cursor : Pos(d)' = Pos(d)
  BY StateIs
<1> QED
  BY <1>1

LEMMA SortedAsk ==
  ASSUME OneCursor, IInv, NEW lev, NEW rng, Live(lev, rng), NEW c \in Cursor
  PROVE  /\ \A k \in Key : RL_DeleteRecord(c, k) => Sorted!NothingDeleted(c)
         /\ RL_IsEmpty(c) \/ RL_CursorIsValid(c) \/ RL_NumRecords(c) => Sorted!Count(c)
<1> DEFINE p == path[c]
           Stays == UNCHANGED <<Map, [d \in Cursor |-> Pos(d)]>>
           k == [d \in Cursor |-> Pos(d)][c]
<1>1. ASSUME p # NULL, UNCHANGED <<tree, path>>
      PROVE  Sorted!Exists(c) /\ Stays /\ V!Complete(marked, root, depth, p) /\ k = PosIn(heap, p)
  BY <1>1, HasCursor, RestsSorted DEF tree
<1> HIDE DEF Stays, k
<1>2. ASSUME NEW x \in Key, RL_DeleteRecord(c, x) PROVE Sorted!NothingDeleted(c)
  <2>1. p # NULL /\ UNCHANGED <<tree, path>> /\ op' = "RL_DeleteRecord" /\ ret' = FALSE
    BY <1>2 DEF RL_DeleteRecord, Uses, Returns
  <2> QED
    BY <1>1, <2>1 DEF Sorted!NothingDeleted, Sorted!Returns, Stays
<1>3. ASSUME RL_IsEmpty(c) PROVE Sorted!Count(c)
  <2>1. p # NULL /\ UNCHANGED <<tree, path>> /\ op' = "RL_IsEmpty" /\ ret' = (numKeys(heap[root]) = 0)
    BY <1>3 DEF RL_IsEmpty, Uses, Returns
  <2>2. ret' = (Sorted!Present = {})
    BY <2>1, EmptyRoot
  <2> QED
    BY <1>1, <2>1, <2>2 DEF Sorted!Count, Sorted!Returns, Stays
<1>4. ASSUME RL_CursorIsValid(c) PROVE Sorted!Count(c)
  <2>1. p # NULL /\ UNCHANGED <<tree, path>> /\ op' = "RL_CursorIsValid" /\ ret' = isValid(heap, p)
    BY <1>4 DEF RL_CursorIsValid, Uses, Returns
  <2>2. isValid(heap, p) <=> k # END
    BY <1>1, <2>1, Stands
  <2>3. isValid(heap, p) = (k # END)
    BY <2>2 DEF isValid
  <2> QED
    BY <1>1, <2>1, <2>3 DEF Sorted!Count, Sorted!Returns, Stays, k
<1>5. ASSUME RL_NumRecords(c) PROVE Sorted!Count(c)
  <2>1. p # NULL /\ UNCHANGED <<tree, path>> /\ op' = "RL_NumRecords" /\ ret' = numRecords
    BY <1>5 DEF RL_NumRecords, Uses, Returns
  <2>2. numRecords = Cardinality(Sorted!Present)
    BY <1>1, <2>1, EmptyStands
  <2>3. Sorted!Cardinality(Sorted!Present) = Cardinality(Sorted!Present)
    BY DEF Sorted!Cardinality, Cardinality
  <2> QED
    BY <1>1, <2>1, <2>2, <2>3 DEF Sorted!Count, Sorted!Returns, Stays
<1> QED
  BY <1>2, <1>3, <1>4, <1>5

LEMMA SortedPut ==
  ASSUME OneCursor, IInv, NEW lev, NEW rng, Live(lev, rng), NEW c \in Cursor, NEW key \in Key,
         NEW record \in Record, RL_PutRecord(c, key, record)
  PROVE  Sorted!PutRecord(c, key, record)
<1> DEFINE e == Entering(key, record)
           P == V!Present(marked)
           N == {j \in P : j > key}
<1>1. PICK s, v, lv, rg : PutResult(c, key, record, s, v, lv, rg)
  BY PutIs
<1>2. /\ heap' = s.heap /\ path' = [path EXCEPT ![c] = AfterNext(s.heap, s.path)]
      /\ Twin(s.heap, v.heap, s.root, s.depth, lv, rg) /\ s.path = v.cursor
      /\ s.root = v.root /\ s.depth = v.depth
      /\ V!PutDone(marked, numRecords, e, v, lv, rg)
  BY <1>1 DEF PutResult, PutTwin
<1>3. op' = "RL_PutRecord" /\ ret' = TRUE /\ path[c] # NULL
  BY DEF RL_PutRecord, Uses, Returns
<1>4. V!Tree(marked, root, depth, lev, rng, NULL) /\ Sorted!Exists(c) /\ DOMAIN path = Cursor
  BY <1>3, HasCursor DEF Live, Twin, IInv
<1>5. e.key = key /\ e.ptr = record
  BY DEF Entering
<1> HIDE DEF e
<1> DEFINE h == v.heap
           r == v.root
           dep == v.depth
           w == v.cursor
           g == s.heap
<1>6. /\ V!Tree(h, r, dep, lv, rg, NULL) /\ V!SearchPath(h, r, dep, rg, w, key)
      /\ V!Records(h) = {x \in V!Records(marked) : x.key # e.key} \cup {e}
      /\ Twin(g, h, r, dep, lv, rg)
  BY <1>2, <1>5 DEF V!PutDone
<1>7. heap' = g /\ path' = [path EXCEPT ![c] = AfterNext(g, w)]
  BY <1>2
<1> HIDE DEF h, r, dep, w, g
<1>8. V!MapOf(h) = [V!MapOf(marked) EXCEPT ![key] = record] /\ V!Present(h) = P \cup {key}
  BY VA, <1>4, <1>5, <1>6, V!MapPut
<1>9. V!Complete(h, r, dep, w) /\ V!Left(h, rg, dep, w) = {j \in V!Present(h) : key <= j}
  BY VA, <1>6, V!MovedIs
<1>10. P \in SUBSET Key /\ V!Present(h) \in SUBSET Key
  BY VA, <1>4, <1>6, V!RecordFacts
<1> DEFINE d == AfterNext(g, w)
           A == V!Left(h, rg, dep, w)
<1>11. d = V!AfterNext(h, w) /\ V!Complete(h, r, dep, d)
  BY <1>6, <1>9, StepTwins
<1>12. V!IsLeast(key, A) /\ A \in SUBSET Key /\ key \in Nat
  <2>1. key \in A /\ key \in Nat
    BY <1>8, <1>9, KeysAssumption
  <2> QED
    BY <1>9, <1>10, <2>1 DEF V!IsLeast
<1>13. V!Left(h, rg, dep, d) = A \ {key}
  <2>1. /\ A = {} => V!Left(h, rg, dep, V!AfterNext(h, w)) = {}
        /\ A # {} => \E k : /\ V!IsLeast(k, A)
                            /\ V!Left(h, rg, dep, V!AfterNext(h, w)) = A \ {k}
    BY VA, <1>6, <1>9, V!AfterNextIs
  <2> HIDE DEF A, d
  <2>2. A # {}
    BY <1>12 DEF V!IsLeast
  <2>3. PICK k : V!IsLeast(k, A) /\ V!Left(h, rg, dep, d) = A \ {k}
    BY <1>11, <2>1, <2>2
  <2>4. k \in Nat /\ k <= key /\ key <= k
    BY <1>12, <2>3, KeysAssumption DEF V!IsLeast
  <2>5. k = key
    BY <1>12, <2>4
  <2> QED
    BY <2>3, <2>5
<1>14. A \ {key} = N
  <2>1. ASSUME NEW j PROVE j \in A \ {key} <=> j \in N
    <3>1. j \in A <=> j \in P \cup {key} /\ key <= j
      BY <1>8, <1>9
    <3>2. j \in P => j \in Nat
      BY <1>10, KeysAssumption
    <3> HIDE DEF A, P
    <3> QED
      BY <1>12, <3>1, <3>2
  <2> QED
    BY <2>1
<1> HIDE DEF d, A, N, P
<1>15. V!PosOf(h, d) = V!Sorted!Least(N)
  <2>1. V!PosOf(h, d) = V!Sorted!Least(V!Left(h, rg, dep, d))
    BY VA, <1>6, <1>11, V!PosIs
  <2> QED
    BY <1>13, <1>14, <2>1
<1>16. PosIn(g, d) = V!PosOf(h, d)
  BY <1>6, <1>11, PosTwins
<1>17. Sorted!NextKey(key) = V!Sorted!Least(N)
  <2>1. key # END
    BY EndAssumption
  <2>2. Sorted!Present = P /\ Sorted!Least(N) = V!Sorted!Least(N)
    BY SortedTwins DEF P
  <2> QED
    BY <2>1, <2>2 DEF Sorted!NextKey, N
<1>18. Pos(c)' = Sorted!NextKey(key)
  <2>1. path'[c] = d
    BY <1>4, <1>7 DEF d
  <2>2. Pos(c)' = PosIn(heap', path'[c])
    BY StateIs
  <2> QED
    BY <1>7, <1>15, <1>16, <1>17, <2>1, <2>2
<1>19. Map' = [Map EXCEPT ![key] = record]
  <2>1. Map' = MapIn(g)
    BY <1>7, StateIs
  <2>2. MapIn(g) = V!MapOf(h)
    BY <1>6, MapTwins
  <2>3. Map = V!MapOf(marked)
    BY SortedTwins
  <2> QED
    BY <1>8, <2>1, <2>2, <2>3
<1> DEFINE k == Sorted!NextKey(key)
<1>20. [x \in Cursor |-> Pos(x)]' = [[x \in Cursor |-> Pos(x)] EXCEPT ![c] = k]
  <2>1. \A x \in Cursor : x = c
    BY DEF OneCursor
  <2>2. \A x \in Cursor : Pos(x)' = IF x = c THEN k ELSE Pos(x)
    BY <1>18, <2>1
  <2> HIDE DEF k
  <2> QED
    BY <2>2
<1> QED
  BY <1>3, <1>4, <1>19, <1>20 DEF Sorted!PutRecord, Sorted!Returns

\* The map of a relation that is deleted is a map, with nothing promised of it.
LEMMA SortedDelete ==
  ASSUME OneCursor, IInv, op # "RL_DeleteRelation", RL_DeleteRelation
  PROVE  Sorted!DeleteRelation
<1>1. /\ op' = "RL_DeleteRelation" /\ ret' = TRUE /\ path' = path
      /\ \A c \in Cursor : path[c] = NULL
  BY DEF RL_DeleteRelation, Returns
<1>2. \A c \in Cursor : Pos(c) = NULL /\ Pos(c)' = NULL
  BY <1>1, StateIs DEF PosIn
<1>3. [c \in Cursor |-> Pos(c)]' = [c \in Cursor |-> Pos(c)]
  BY <1>2
<1>4. \A c \in Cursor : ~Sorted!Exists(c)
  BY <1>2 DEF Sorted!Exists
<1>5. PICK lev, rng : Live(lev, rng)
  BY DEF IInv
<1>6. ASSUME NEW n \in Used(heap), heap[n].isLeaf, NEW x \in Range(heap[n].entries)
      PROVE  x.ptr \in Record
  <2>1. Twin(heap, marked, root, depth, lev, rng) /\ V!Tree(marked, root, depth, lev, rng, NULL)
    BY <1>5 DEF Live, Twin
  <2>2. n \in V!Used(marked) /\ SameNode(heap[n], marked[n])
    BY <2>1, TwinNodes DEF Twin
  <2>3. marked[n].isLeaf /\ x \in V!Range(marked[n].entries)
    BY <1>6, <2>2, SameLibrary DEF SameNode
  <2>4. x \in V!Records(marked)
    BY <2>2, <2>3 DEF V!Records
  <2> QED
    BY VA, <2>1, <2>4, V!RecordFacts
<1>7. \A n \in Used(heap') : n \in Used(heap) /\ heap'[n] = heap[n]
  BY DEF RL_DeleteRelation, Used
<1>8. Map' \in [Key -> Record \cup {NULL}]
  <2> DEFINE all == UNION {Range(heap'[n].entries) : n \in {m \in Used(heap') : heap'[m].isLeaf}}
  <2>1. ASSUME NEW x \in all PROVE x.ptr \in Record
    <3>1. PICK n \in Used(heap') : heap'[n].isLeaf /\ x \in Range(heap'[n].entries)
      OBVIOUS
    <3> QED
      BY <1>6, <1>7, <3>1
  <2>2. Map' = [k \in Key |-> IF \E x \in all : x.key = k
                              THEN (CHOOSE x \in all : x.key = k).ptr ELSE NULL]
    BY StateIs DEF MapIn
  <2> HIDE DEF all
  <2>3. \A k \in Key : (\E x \in all : x.key = k) => (CHOOSE x \in all : x.key = k) \in all
    OBVIOUS
  <2> QED
    BY <2>1, <2>2, <2>3
<1> QED
  BY <1>1, <1>3, <1>4, <1>8 DEF Sorted!DeleteRelation, Sorted!Returns

-----------------------------------------------------------------------------
(* The range query.                                                        *)

\* The record at a settled path, and what is known of such a path.
Read(h, q) == currNode(h, q).entries[entryIndex(q) + 1]

Reads(rng, q) ==
  LET A == V!Left(marked, rng, depth, q)
  IN  /\ V!Complete(marked, root, depth, q) /\ A \subseteq Sorted!Present
      /\ PosIn(heap, q) = Sorted!Least(A)
      /\ isValid(heap, q) <=> A # {}
      /\ isValid(heap, q) => /\ Read(heap, q).key \in Key /\ Read(heap, q).ptr = Map[Read(heap, q).key]
                             /\ V!IsLeast(Read(heap, q).key, A)

LEMMA ReadsHere ==
  ASSUME OneCursor, NEW lev, NEW rng, Live(lev, rng), NEW p, V!Complete(marked, root, depth, p)
  PROVE  /\ Reads(rng, Settle(heap, p))
         /\ V!Left(marked, rng, depth, Settle(heap, p)) = V!Left(marked, rng, depth, p)
<1> DEFINE q == Settle(heap, p)
           A == V!Left(marked, rng, depth, p)
           B == V!Left(marked, rng, depth, q)
<1>1. Twin(heap, marked, root, depth, lev, rng) /\ V!Tree(marked, root, depth, lev, rng, NULL)
  BY DEF Live, Twin
<1>2. q = V!Settle(marked, p) /\ V!Complete(marked, root, depth, q)
  BY <1>1, StepTwins
<1>3. V!Left(marked, rng, depth, V!Settle(marked, p)) = A
  BY VA, <1>1, V!SettleIs
<1>4. isValid(heap, p) <=> A # {}
  BY Stands
<1>5. isValid(heap, p) =>
        /\ Read(heap, q).key \in Key /\ Read(heap, q).ptr = Map[Read(heap, q).key]
        /\ V!IsLeast(Read(heap, q).key, A)
  BY EntryStands DEF Read
<1> HIDE DEF q
<1>6. B \subseteq Sorted!Present /\ PosIn(heap, q) = Sorted!Least(B) /\ (isValid(heap, q) <=> B # {})
  BY <1>2, Stands
<1>7. B = A
  BY <1>2, <1>3
<1> HIDE DEF A, B
<1> QED
  BY <1>2, <1>4, <1>5, <1>6, <1>7 DEF Reads, q, A, B

\* The i least keys of the set A, which are in the range, are before path q.
Passed(rng, A, upper, q, i) ==
  LET L == V!Left(marked, rng, depth, q)
  IN  /\ Reads(rng, q) /\ L \subseteq A
      /\ IsFiniteSet(A \ L) /\ Cardinality(A \ L) = i
      /\ \A x \in A \ L : x <= upper /\ \A y \in L : x < y

\* The paths w from which keys of the set A are read, one after the other.
Walks(rng, A, upper, w) ==
  /\ w \in Seq(Seq(V!Stop)) /\ Len(w) >= 1
  /\ \A j \in 1 .. Len(w) : Passed(rng, A, upper, w[j], j - 1)
  /\ \A j \in 1 .. Len(w) - 1 : isValid(heap, w[j]) /\ Read(heap, w[j]).key <= upper

Past(upper, q) == ~isValid(heap, q) \/ Read(heap, q).key > upper

LEMMA WalksFirst ==
  ASSUME OneCursor, NEW lev, NEW rng, Live(lev, rng), NEW p, V!Complete(marked, root, depth, p),
         NEW upper
  PROVE  Walks(rng, V!Left(marked, rng, depth, p), upper, <<Settle(heap, p)>>)
<1> DEFINE q == Settle(heap, p)
           A == V!Left(marked, rng, depth, p)
           L == V!Left(marked, rng, depth, q)
<1>1. Reads(rng, q) /\ L = A
  BY ReadsHere
<1>2. q \in Seq(V!Stop)
  BY <1>1 DEF Reads, V!Complete
<1> HIDE DEF q, A
<1> DEFINE w == <<q>>
<1>3. w \in Seq(Seq(V!Stop)) /\ Len(w) = 1 /\ w[1] = q
  BY <1>2
<1> HIDE DEF w
<1>4. A \ L = {} /\ Cardinality({}) = 0 /\ IsFiniteSet({})
  BY <1>1, FS_EmptySet
<1>5. Passed(rng, A, upper, q, 0)
  BY <1>1, <1>4 DEF Passed
<1>6. \A j \in 1 .. Len(w) : w[j] = q /\ j - 1 = 0
  BY <1>3
<1>7. \A j \in 1 .. Len(w) : Passed(rng, A, upper, w[j], j - 1)
  BY <1>5, <1>6
<1>8. 1 .. Len(w) - 1 = {}
  BY <1>3
<1>9. Walks(rng, A, upper, w)
  BY <1>3, <1>7, <1>8 DEF Walks
<1> QED
  BY <1>9 DEF A, q, w

LEMMA WalksOn ==
  ASSUME OneCursor, NEW lev, NEW rng, Live(lev, rng), NEW A, A \in SUBSET Key, NEW upper \in Key,
         NEW w, Walks(rng, A, upper, w), ~Past(upper, Last(w))
  PROVE  LET v == Append(w, Settle(heap, AfterNext(heap, Last(w))))
         IN  Walks(rng, A, upper, v) /\ Len(v) = Len(w) + 1
<1> DEFINE n == Len(w)
           p == w[n]
           q == Settle(heap, AfterNext(heap, p))
           v == Append(w, q)
           left(x) == V!Left(marked, rng, depth, x)
           k == Read(heap, p).key
<1>1. /\ n \in Nat /\ n >= 1 /\ n \in 1 .. n /\ Last(w) = p /\ w \in Seq(Seq(V!Stop))
      /\ Len(v) = n + 1
  BY DEF Walks, Last
<1>2. /\ Reads(rng, p) /\ left(p) \subseteq A
      /\ IsFiniteSet(A \ left(p)) /\ Cardinality(A \ left(p)) = n - 1
      /\ \A x \in A \ left(p) : x <= upper /\ \A y \in left(p) : x < y
  <2>1. Passed(rng, A, upper, p, n - 1)
    BY <1>1 DEF Walks
  <2> QED
    BY <2>1 DEF Passed
<1>3. isValid(heap, p) /\ ~(k > upper)
  BY <1>1 DEF Past
<1>4. k \in Key /\ V!IsLeast(k, left(p)) /\ V!Complete(marked, root, depth, p) /\ left(p) # {}
  BY <1>2, <1>3 DEF Reads
<1>5. k \in left(p) /\ k \in Nat /\ upper \in Nat /\ k <= upper
  <2> HIDE DEF k, p
  <2>1. k \in Nat /\ upper \in Nat
    BY <1>4, KeysAssumption
  <2> QED
    BY <1>3, <1>4, <2>1 DEF V!IsLeast
<1>6. /\ V!Complete(marked, root, depth, AfterNext(heap, p))
      /\ \E x : V!IsLeast(x, left(p)) /\ left(AfterNext(heap, p)) = left(p) \ {x}
  BY <1>4, StepsOn
<1>7. left(AfterNext(heap, p)) = left(p) \ {k}
  <2>1. PICK x : V!IsLeast(x, left(p)) /\ left(AfterNext(heap, p)) = left(p) \ {x}
    BY <1>6
  <2>2. x \in Nat /\ x <= k /\ k <= x
    BY <1>2, <1>4, <2>1, KeysAssumption DEF V!IsLeast
  <2>3. x = k
    BY <1>5, <2>2
  <2> QED
    BY <2>1, <2>3
<1>8. Reads(rng, q) /\ left(q) = left(p) \ {k}
  BY <1>6, <1>7, ReadsHere
<1>9. q \in Seq(V!Stop)
  BY <1>8 DEF Reads, V!Complete
<1> HIDE DEF q, k
<1>10. v \in Seq(Seq(V!Stop)) /\ v[n + 1] = q /\ \A j \in 1 .. n : v[j] = w[j]
  BY <1>1, <1>9
<1> HIDE DEF v, left, n, p
<1>11. A \ left(q) = (A \ left(p)) \cup {k} /\ k \notin A \ left(p)
  BY <1>2, <1>5, <1>8
<1>12. IsFiniteSet(A \ left(q)) /\ Cardinality(A \ left(q)) = n + 1 - 1
  <2> DEFINE R == A \ left(p)
  <2>1. IsFiniteSet(R) /\ Cardinality(R) = n - 1
    BY <1>2
  <2>2. A \ left(q) = R \cup {k} /\ k \notin R
    BY <1>11
  <2> HIDE DEF R
  <2>3. IsFiniteSet(R \cup {k}) /\ Cardinality(R \cup {k}) = Cardinality(R) + 1
    BY <2>1, <2>2, FS_AddElement
  <2>4. n - 1 + 1 = n + 1 - 1
    BY <1>1
  <2> QED
    BY <2>1, <2>2, <2>3, <2>4
<1>13. ASSUME NEW x \in A \ left(q) PROVE x <= upper /\ \A y \in left(q) : x < y
  <2>1. CASE x = k
    <3>1. ASSUME NEW y \in left(q) PROVE x < y
      <4>1. y \in left(p) /\ y # k /\ k <= y /\ y \in Nat
        BY <1>2, <1>4, <1>8, KeysAssumption DEF V!IsLeast
      <4> QED
        BY <1>5, <2>1, <4>1
    <3> QED
      BY <1>5, <2>1, <3>1
  <2>2. CASE x # k
    <3>1. x \in A \ left(p)
      BY <1>11, <2>2
    <3> QED
      BY <1>2, <1>8, <3>1
  <2> QED
    BY <2>1, <2>2
<1>14. \A j \in 1 .. Len(v) : j = n + 1 \/ j \in 1 .. n
  BY <1>1
<1>15. ASSUME NEW j \in 1 .. Len(v) PROVE Passed(rng, A, upper, v[j], j - 1)
  <2>1. CASE j = n + 1
    <3>1. v[j] = q /\ j - 1 = n + 1 - 1
      BY <1>1, <1>10, <2>1
    <3>2. Passed(rng, A, upper, q, n + 1 - 1)
      BY <1>2, <1>8, <1>12, <1>13 DEF Passed, left
    <3> QED
      BY <3>1, <3>2
  <2>2. CASE j \in 1 .. n
    BY <1>10, <2>2 DEF Walks, n
  <2> QED
    BY <1>14, <2>1, <2>2
<1>16. ASSUME NEW j \in 1 .. Len(v) - 1
       PROVE  isValid(heap, v[j]) /\ Read(heap, v[j]).key <= upper
  <2>1. j \in 1 .. n
    BY <1>1
  <2>2. CASE j = n
    BY <1>3, <1>5, <1>10, <2>1, <2>2 DEF k, p
  <2>3. CASE j # n
    <3>1. j \in 1 .. n - 1
      BY <1>1, <2>1, <2>3
    <3> QED
      BY <1>10, <2>1, <3>1 DEF Walks, n
  <2> QED
    BY <2>2, <2>3
<1>17. Walks(rng, A, upper, v)
  BY <1>1, <1>10, <1>15, <1>16 DEF Walks
<1> QED
  BY <1>1, <1>17 DEF v, q, n

\* How many numbers of a set are up to k, for k in a finite set another for each.
Rank(W, k) == Cardinality({j \in W : j <= k})

LEMMA RanksDiffer ==
  ASSUME NEW W, IsFiniteSet(W), W \in SUBSET Nat, NEW x \in W, NEW y \in W,
         Rank(W, x) = Rank(W, y)
  PROVE  x = y
<1> DEFINE To(k) == {j \in W : j <= k}
<1>1. ASSUME NEW a \in W, NEW b \in W, a < b, Cardinality(To(a)) = Cardinality(To(b)) PROVE FALSE
  <2>1. a \in Nat /\ b \in Nat
    OBVIOUS
  <2>2. ASSUME NEW j \in To(a) PROVE j \in To(b)
    <3>1. j \in W /\ j \in Nat /\ j <= a
      OBVIOUS
    <3> QED
      BY <1>1, <2>1, <3>1
  <2>3. b \in To(b) /\ b \notin To(a)
    <3>1. b <= b /\ ~(b <= a)
      BY <1>1, <2>1
    <3> QED
      BY <3>1
  <2>4. IsFiniteSet(To(b))
    <3>1. To(b) \in SUBSET W
      OBVIOUS
    <3> QED
      BY <3>1, FS_Subset
  <2>5. Cardinality(To(a)) = Cardinality(To(b))
    BY <1>1
  <2> HIDE DEF To
  <2>6. To(a) \in SUBSET To(b)
    BY <2>2
  <2>7. To(b) = To(a)
    BY <2>4, <2>5, <2>6, FS_Subset
  <2> QED
    BY <2>3, <2>7
<1>2. Cardinality(To(x)) = Cardinality(To(y)) /\ x \in Nat /\ y \in Nat
  BY DEF Rank
<1> HIDE DEF To
<1>3. ~(x < y) /\ ~(y < x)
  BY <1>1, <1>2
<1> QED
  BY <1>2, <1>3

\* Where the reading ends, and what has been read.
WalkEnds(A, upper, w) ==
  LET W == {k \in A : k <= upper}
  IN  /\ Past(upper, Last(w)) <=> ~(Cardinality(W) > 4)
      /\ Past(upper, Last(w)) =>
           /\ PosIn(heap, Last(w)) = Sorted!Least(A \ W) /\ Len(w) - 1 = Cardinality(W)
           /\ \A i \in 1 .. Len(w) - 1 :
                Read(heap, w[i]).ptr = Map[CHOOSE k \in W : Rank(W, k) = i]

LEMMA WalksEnd ==
  ASSUME OneCursor, NEW lev, NEW rng, Live(lev, rng), NEW A, A \in SUBSET Sorted!Present,
         NEW upper \in Key, NEW w, Walks(rng, A, upper, w), Len(w) <= 5,
         Past(upper, Last(w)) \/ Len(w) = 5
  PROVE  WalkEnds(A, upper, w)
<1> DEFINE n == Len(w)
           p == w[n]
           left(x) == V!Left(marked, rng, depth, x)
           W == {k \in A : k <= upper}
           R == A \ left(p)
<1>1. n \in Nat /\ n >= 1 /\ n \in 1 .. n /\ Last(w) = p
  BY DEF Walks, Last
<1>2. Sorted!Present \in SUBSET Key /\ IsFiniteSet(Sorted!Present)
  <2>1. V!Complete(marked, root, depth, moveToFirst(heap, root, <<>>))
    BY FirstPath
  <2> QED
    BY <2>1, SortedTwins, EmptyStands
<1>3. A \in SUBSET Nat /\ IsFiniteSet(A) /\ upper \in Nat
  <2>1. A \in SUBSET Nat /\ upper \in Nat
    BY <1>2, KeysAssumption
  <2> QED
    BY <1>2, <2>1, FS_Subset
<1>4. W \in SUBSET A /\ IsFiniteSet(W) /\ W \in SUBSET Nat /\ Cardinality(W) \in Nat
  <2>1. W \in SUBSET A
    OBVIOUS
  <2>2. IsFiniteSet(W)
    BY <1>3, <2>1, FS_Subset
  <2> QED
    BY <1>3, <2>1, <2>2, FS_CardinalityType
<1>5. /\ Reads(rng, p) /\ left(p) \subseteq A
      /\ IsFiniteSet(R) /\ Cardinality(R) = n - 1 /\ \A x \in R : x <= upper
  <2>1. Passed(rng, A, upper, p, n - 1)
    BY <1>1 DEF Walks
  <2> QED
    BY <2>1 DEF Passed
<1>6. R \subseteq W
  BY <1>5
<1> DEFINE k0 == Read(heap, p).key
<1>7. /\ PosIn(heap, p) = Sorted!Least(left(p))
      /\ isValid(heap, p) <=> left(p) # {}
      /\ isValid(heap, p) => k0 \in left(p) /\ \A y \in left(p) : k0 <= y
  BY <1>5 DEF Reads, V!IsLeast
<1>8. Past(upper, p) <=> ~isValid(heap, p) \/ k0 > upper
  BY DEF Past
<1> HIDE DEF k0, p, n
<1>9. ASSUME Past(upper, p)
      PROVE  W = R /\ A \ W = left(p)
  <2>1. ASSUME NEW y \in left(p) PROVE y \notin W
    <3>1. k0 > upper /\ k0 <= y /\ k0 \in Nat /\ y \in Nat
      BY <1>3, <1>5, <1>7, <1>8, <1>9, <2>1
    <3> QED
      BY <1>3, <3>1
  <2>2. W = R
    BY <1>4, <1>6, <2>1
  <2> HIDE DEF W
  <2> QED
    BY <1>5, <2>2
<1>10. ASSUME ~Past(upper, p)
       PROVE  Cardinality(W) > 4
  <2>1. k0 \in left(p) /\ k0 \in Nat /\ k0 <= upper
    <3> HIDE DEF left
    <3>1. k0 \in left(p) /\ ~(k0 > upper)
      BY <1>7, <1>8, <1>10
    <3>2. k0 \in Nat
      BY <1>3, <1>5, <3>1
    <3> QED
      BY <1>3, <3>1, <3>2
  <2>2. k0 \in W /\ k0 \notin R
    BY <1>5, <2>1
  <2> HIDE DEF W, R
  <2>3. R \cup {k0} \in SUBSET W
    BY <1>6, <2>2
  <2>4. Cardinality(R \cup {k0}) = Cardinality(R) + 1
    BY <1>5, <2>2, FS_AddElement
  <2>5. Cardinality(R \cup {k0}) <= Cardinality(W)
    BY <1>4, <2>3, FS_Subset
  <2>6. n = 5
    BY <1>1, <1>10 DEF n
  <2> QED
    BY <1>4, <1>5, <2>4, <2>5, <2>6
<1>11. ASSUME NEW i \in 1 .. n - 1
       PROVE  Read(heap, w[i]).ptr = Map[CHOOSE k \in W : Rank(W, k) = i]
  <2> DEFINE q == w[i]
             k1 == Read(heap, q).key
             S == A \ left(q)
  <2>1. i \in 1 .. Len(w) /\ i \in 1 .. Len(w) - 1 /\ i \in Nat
    BY <1>1 DEF n
  <2>2. Passed(rng, A, upper, q, i - 1) /\ isValid(heap, q) /\ k1 <= upper
    BY <2>1 DEF Walks
  <2>3. /\ Reads(rng, q) /\ left(q) \subseteq A /\ IsFiniteSet(S) /\ Cardinality(S) = i - 1
        /\ \A x \in S : x <= upper /\ \A y \in left(q) : x < y
    BY <2>2 DEF Passed
  <2>4. /\ k1 \in left(q) /\ \A y \in left(q) : k1 <= y
        /\ Read(heap, q).ptr = Map[k1]
    BY <2>2, <2>3 DEF Reads, V!IsLeast
  <2> HIDE DEF q, k1
  <2>5. k1 \in W /\ k1 \notin S /\ k1 \in Nat
    BY <1>3, <2>2, <2>3, <2>4
  <2>6. {j \in W : j <= k1} = S \cup {k1}
    <3>1. ASSUME NEW j \in W, j <= k1 PROVE j \in S \cup {k1}
      <4>1. j \in Nat /\ j \in A
        BY <1>4, <3>1
      <4>2. j \in left(q) => j = k1
        BY <2>4, <2>5, <3>1, <4>1
      <4> QED
        BY <4>1, <4>2
    <3>2. ASSUME NEW j \in S PROVE j \in W /\ j <= k1
      <4>1. j \in A /\ j <= upper /\ j < k1 /\ j \in Nat
        BY <1>3, <2>3, <2>4, <3>2
      <4> QED
        BY <2>5, <4>1
    <3>3. k1 <= k1
      BY <2>5
    <3> HIDE DEF S, W
    <3> QED
      BY <2>5, <3>1, <3>2, <3>3
  <2>7. Rank(W, k1) = i
    <3>1. Cardinality(S \cup {k1}) = Cardinality(S) + 1
      BY <2>3, <2>5, FS_AddElement
    <3>2. Cardinality(S) + 1 = i
      BY <2>1, <2>3
    <3> HIDE DEF S, W
    <3> QED
      BY <2>6, <3>1, <3>2 DEF Rank
  <2> HIDE DEF W
  <2>8. ASSUME NEW k \in W, Rank(W, k) = i PROVE k = k1
    BY <1>4, <2>5, <2>7, <2>8, RanksDiffer
  <2>9. (CHOOSE k \in W : Rank(W, k) = i) = k1
    BY <2>5, <2>7, <2>8
  <2> QED
    BY <2>4, <2>9 DEF q
<1> HIDE DEF R
<1>12. Past(upper, p) <=> ~(Cardinality(W) > 4)
  <2>1. ASSUME Past(upper, p) PROVE ~(Cardinality(W) > 4)
    <3>1. Cardinality(W) = n - 1 /\ n <= 5
      BY <1>5, <1>9, <2>1 DEF n
    <3> QED
      BY <1>1, <3>1
  <2> QED
    BY <1>10, <2>1
<1>13. ASSUME Past(upper, p)
       PROVE  PosIn(heap, p) = Sorted!Least(A \ W) /\ n - 1 = Cardinality(W)
  <2>1. A \ W = left(p) /\ W = R
    BY <1>9, <1>13
  <2> HIDE DEF W
  <2> QED
    BY <1>5, <1>7, <2>1
<1> HIDE DEF left
<1> QED
  BY <1>1, <1>11, <1>12, <1>13 DEF WalkEnds, n, W

\* What the loop of the range query collects from path p on.
Collected(h, p, upper, w) ==
  /\ Collect(h, p, upper).ok = (isValid(h, p) /\ Past(upper, Last(w)))
  /\ Collect(h, p, upper).path = Last(w)
  /\ Collect(h, p, upper).records = [i \in 1 .. Len(w) - 1 |-> Read(h, w[i]).ptr]

LEMMA CollectStands ==
  ASSUME OneCursor, NEW lev, NEW rng, Live(lev, rng), NEW p, V!Complete(marked, root, depth, p),
         NEW upper \in Key
  PROVE  \E w : /\ Collected(heap, p, upper, w)
                /\ WalkEnds(V!Left(marked, rng, depth, p), upper, w)
<1> DEFINE k == [collects |-> TRUE, heap |-> heap, upper |-> upper]
           z == <<Settle(heap, p)>>
           A == V!Left(marked, rng, depth, p)
<1>1. PICK state :
        /\ Iterates(k, z, state)
        /\ LET entry(q) == currNode(heap, q).entries[entryIndex(q) + 1]
               stop == state[ArrayRoom]
           IN  Collect(heap, p, upper) =
                 [ok |-> isValid(heap, p) /\ (~isValid(heap, Last(stop)) \/ entry(Last(stop)).key > upper),
                  path |-> Last(stop),
                  records |-> [i \in 1 .. Len(stop) - 1 |-> entry(stop[i]).ptr]]
  BY CollectIs
<1> DEFINE w == state[ArrayRoom]
<1>2. Collected(heap, p, upper, w)
  BY <1>1 DEF Collected, Read, Past
<1>3. \A x : Onward(k, x) = IF Past(upper, Last(x)) THEN x
                            ELSE Append(x, Settle(heap, AfterNext(heap, Last(x))))
  BY DEF Onward, Past, Read
<1>4. Walks(rng, A, upper, z) /\ Len(z) = 1
  BY WalksFirst
<1>5. A \in SUBSET Sorted!Present
  BY Stands
<1>6. A \in SUBSET Key
  BY <1>5, SortedTwins
<1> HIDE DEF k, z, A
<1>7. state[0] = z /\ \A i \in Nat : state[i + 1] = Onward(k, state[i])
  BY <1>1 DEF Iterates
<1> DEFINE ok(i) == /\ Walks(rng, A, upper, state[i]) /\ Len(state[i]) <= i + 1
                    /\ Past(upper, Last(state[i])) \/ Len(state[i]) = i + 1
<1>8. ok(0)
  <2> DEFINE x == state[0]
  <2>1. x = z
    BY <1>7
  <2>2. Walks(rng, A, upper, x) /\ Len(x) = 0 + 1
    BY <1>4, <2>1
  <2> HIDE DEF x
  <2>3. Len(x) <= 0 + 1
    BY <2>2
  <2> QED
    BY <2>2, <2>3 DEF x
<1>9. ASSUME NEW i \in Nat, ok(i) PROVE ok(i + 1)
  <2> DEFINE x == state[i]
             y == Append(x, Settle(heap, AfterNext(heap, Last(x))))
  <2>1. state[i + 1] = IF Past(upper, Last(x)) THEN x ELSE y
    BY <1>3, <1>7
  <2>2. Walks(rng, A, upper, x) /\ Len(x) <= i + 1 /\ (Past(upper, Last(x)) \/ Len(x) = i + 1)
    BY <1>9
  <2>3. Len(x) \in Nat
    BY <2>2 DEF Walks
  <2>4. CASE Past(upper, Last(x))
    <3>1. state[i + 1] = x
      BY <2>1, <2>4
    <3> HIDE DEF x
    <3> QED
      BY <2>2, <2>3, <2>4, <3>1
  <2>5. CASE ~Past(upper, Last(x))
    <3>1. Walks(rng, A, upper, y) /\ Len(y) = Len(x) + 1
      BY <1>6, <2>2, <2>5, WalksOn
    <3>2. state[i + 1] = y
      BY <2>1, <2>5
    <3> HIDE DEF x, y
    <3> QED
      BY <2>2, <2>5, <3>1, <3>2
  <2> QED
    BY <2>4, <2>5
<1> HIDE DEF ok
<1>10. ok(4)
  <2>1. ok(0 + 1)
    BY <1>8, <1>9
  <2>2. ok(1 + 1)
    BY <1>9, <2>1
  <2>3. ok(2 + 1)
    BY <1>9, <2>2
  <2>4. ok(3 + 1)
    BY <1>9, <2>3
  <2> QED
    BY <2>4
<1>11. Walks(rng, A, upper, w) /\ Len(w) <= 5 /\ (Past(upper, Last(w)) \/ Len(w) = 5)
  <2>1. ArrayRoom = 4
    BY DEF ArrayRoom
  <2> QED
    BY <1>10, <2>1 DEF ok
<1> HIDE DEF w
<1>12. WalkEnds(A, upper, w)
  BY <1>5, <1>11, WalksEnd
<1> QED
  BY <1>2, <1>12 DEF A

LEMMA SortedRange ==
  ASSUME OneCursor, IInv, NEW lev, NEW rng, Live(lev, rng), NEW c \in Cursor,
         NEW lower \in Key, NEW upper \in Key, RLAPP_RangeQuery(c, lower, upper)
  PROVE  Sorted!RangeQuery(c, lower, upper) \/ Sorted!RangeAborts(c, lower, upper)
<1> DEFINE above == {k \in Sorted!Present : k >= lower}
           within == {k \in above : k <= upper}
           ith(i) == CHOOSE k \in within : Sorted!Cardinality({j \in within : j <= k}) = i
           fails == above = {} \/ Sorted!Cardinality(within) > 4
           found == [i \in 1 .. Sorted!Cardinality(within) |-> Map[ith(i)]]
           pos == [d \in Cursor |-> Pos(d)]
           z == goToKey(heap, path[c], lower)
           end == Collect(heap, z, upper)
<1>1. /\ path[c] # NULL /\ isValid(heap, path[c]) /\ Moves(c, end.path)
      /\ IF end.ok THEN op' = "RLAPP_RangeQuery" /\ ret' = end.records
                   ELSE op' = "abort" /\ ret' = NULL
  BY DEF RLAPP_RangeQuery, Uses, Returns
<1>2. /\ V!Complete(marked, root, depth, path[c]) /\ Sorted!Exists(c)
      /\ pos[c] = PosIn(heap, path[c])
  BY <1>1, HasCursor
<1>3. pos[c] # END
  BY <1>1, <1>2, Stands
<1>4. V!Complete(marked, root, depth, z) /\ V!Left(marked, rng, depth, z) = above
  BY <1>2, SearchStands
<1> HIDE DEF z, above, pos
<1>5. isValid(heap, z) <=> above # {}
  BY <1>4, Stands
<1>6. PICK w : Collected(heap, z, upper, w) /\ WalkEnds(above, upper, w)
  BY <1>4, CollectStands
<1> DEFINE p == Last(w)
           past == Past(upper, p)
<1>7. /\ end.ok = (isValid(heap, z) /\ past) /\ end.path = p
      /\ end.records = [i \in 1 .. Len(w) - 1 |-> Read(heap, w[i]).ptr]
  BY <1>6 DEF Collected
<1> HIDE DEF end
<1>8. Sorted!Cardinality(within) = Cardinality(within)
  BY DEF Sorted!Cardinality, Cardinality
<1>9. \A i : ith(i) = (CHOOSE k \in within : Rank(within, k) = i)
  BY DEF Rank, Sorted!Cardinality, Cardinality
<1>10. /\ past <=> ~(Cardinality(within) > 4)
       /\ past => /\ PosIn(heap, p) = Sorted!Least(above \ within) /\ Len(w) - 1 = Cardinality(within)
                  /\ \A i \in 1 .. Len(w) - 1 :
                       Read(heap, w[i]).ptr = Map[CHOOSE k \in within : Rank(within, k) = i]
  BY <1>6 DEF WalkEnds
<1> HIDE DEF p, past, within, ith
<1>11. end.ok <=> ~fails
  BY <1>5, <1>7, <1>8, <1>10
<1>12. past => end.records = found
  <2>1. ASSUME past PROVE end.records = found
    <3>1. \A i \in 1 .. Len(w) - 1 : Read(heap, w[i]).ptr = Map[ith(i)]
      BY <1>9, <1>10, <2>1
    <3>2. found = [i \in 1 .. Len(w) - 1 |-> Map[ith(i)]]
      BY <1>8, <1>10, <2>1
    <3> QED
      BY <1>7, <3>1, <3>2
  <2> QED
    BY <2>1
<1>13. end.ok => past
  BY <1>7
<1> HIDE DEF fails, found
<1>14. \/ op' = "abort" /\ fails /\ ret' = NULL
       \/ op' = "RLAPP_RangeQuery" /\ ~fails /\ ret' = found
  BY <1>1, <1>11, <1>12, <1>13
<1>15. pos' = [pos EXCEPT ![c] = PosIn(heap, p)] /\ UNCHANGED Map
  BY <1>1, <1>7, MovesSorted DEF Sorted!Moves, pos
<1>16. CASE op' = "abort" /\ fails /\ ret' = NULL
  <2>1. \A d \in Cursor \ {c} : pos'[d] = pos[d]
    BY DEF OneCursor
  <2> QED
    BY <1>2, <1>3, <1>15, <1>16, <2>1
       DEF Sorted!RangeAborts, Sorted!Returns, fails, within, above, pos
<1>17. CASE op' = "RLAPP_RangeQuery" /\ ~fails /\ ret' = found
  <2>1. Sorted!Moves(c, Sorted!Least(above \ within))
    <3>1. pos' = [pos EXCEPT ![c] = Sorted!Least(above \ within)]
      BY <1>1, <1>10, <1>13, <1>15, <1>17
    <3> QED
      BY <1>15, <3>1 DEF Sorted!Moves, pos
  <2> QED
    BY <1>2, <1>3, <1>17, <2>1
       DEF Sorted!RangeQuery, Sorted!Returns, found, ith, within, above, pos
<1> QED
  BY <1>14, <1>16, <1>17

LEMMA SortedInit == ASSUME OneCursor, Init PROVE Sorted!Init
<1>1. PICK lev, rng : Live(lev, rng)
  BY StartsLive DEF IInv, Init
<1>2. V!Tree(marked, root, depth, lev, rng, NULL) /\ numRecords = 0
  BY <1>1 DEF Live, Twin, Init
<1>3. Sorted!Present = {}
  <2>1. V!Complete(marked, root, depth, moveToFirst(heap, root, <<>>))
    BY <1>1, FirstPath
  <2> QED
    BY <1>1, <1>2, <2>1, EmptyStands
<1>4. Map \in [Key -> Record \cup {NULL}]
  BY <1>1, SortedTwins
<1>5. Map = [k \in Key |-> NULL]
  <2>1. Sorted!Present = {k \in Key : Map[k] # NULL}
    BY DEF Sorted!Present
  <2> QED
    BY <1>3, <1>4, <2>1
<1>6. [c \in Cursor |-> Pos(c)] = [c \in Cursor |-> NULL]
  BY DEF Init, Pos
<1> QED
  BY <1>5, <1>6 DEF Init, Sorted!Init

\* Every call is one of the map.
LEMMA SortedCalls ==
  ASSUME OneCursor, IInv, ShallowSteps, op # "RL_DeleteRelation", NEW c \in Cursor
  PROVE  /\ RL_NewCursor(c) => Sorted!NewCursor(c) \/ Sorted!NewCursorAtFirst(c)
         /\ RL_FreeCursor(c) => Sorted!FreeCursor(c)
         /\ \A k \in Key, r \in Record : RL_PutRecord(c, k, r) => Sorted!PutRecord(c, k, r)
         /\ \A k \in Key : RL_MoveToKey(c, k) => Sorted!MoveToKey(c, k)
         /\ RL_GetRecord(c) => Sorted!GetRecord(c)
         /\ RL_GetKey(c) => Sorted!GetKey(c)
         /\ RL_MoveToFirst(c) \/ Ifirst_cursor(c) => Sorted!MoveToFirst(c)
         /\ RL_MoveToNextValid(c) \/ Inext_cursor(c) => Sorted!MoveToNext(c)
         /\ RL_MoveToPreviousNotFirst(c) \/ Iprev_cursor(c) =>
              Sorted!MoveToPrevious(c) \/ Sorted!PreviousIsFirst(c)
         /\ \A k \in Key : RL_DeleteRecord(c, k) => Sorted!NothingDeleted(c)
         /\ RL_IsEmpty(c) \/ RL_CursorIsValid(c) \/ RL_NumRecords(c) => Sorted!Count(c)
         /\ \A k \in Key : Imake_cursor(c, k) => Sorted!MakeCursor(c, k)
         /\ Ilast_cursor(c) => Sorted!MoveToLast(c)
         /\ Iget_key(c) \/ Iget_value(c) => Sorted!GetEntry(c) \/ Sorted!KeyZeroDenied(c)
         /\ \A lower, upper \in Key :
              RLAPP_RangeQuery(c, lower, upper) =>
                Sorted!RangeQuery(c, lower, upper) \/ Sorted!RangeAborts(c, lower, upper)
<1>1. PICK lev, rng : Live(lev, rng)
  BY DEF IInv
<1>2. ASSUME RL_MoveToPreviousNotFirst(c) \/ Iprev_cursor(c)
      PROVE  Sorted!MoveToPrevious(c) \/ Sorted!PreviousIsFirst(c)
  <2>1. depth < 2
    BY <1>2 DEF ShallowSteps, RL_MoveToPreviousNotFirst, Iprev_cursor, Returns
  <2> QED
    BY <1>1, <1>2, <2>1, SortedBack
<1>3. /\ RL_NewCursor(c) => Sorted!NewCursor(c) \/ Sorted!NewCursorAtFirst(c)
      /\ RL_FreeCursor(c) => Sorted!FreeCursor(c)
      /\ RL_MoveToFirst(c) \/ Ifirst_cursor(c) => Sorted!MoveToFirst(c)
  BY <1>1, SortedMade
<1>4. \A k \in Key, r \in Record : RL_PutRecord(c, k, r) => Sorted!PutRecord(c, k, r)
  BY <1>1, SortedPut
<1>5. \A k \in Key : /\ RL_MoveToKey(c, k) => Sorted!MoveToKey(c, k)
                     /\ Imake_cursor(c, k) => Sorted!MakeCursor(c, k)
  BY <1>1, SortedSearch
<1>6. /\ RL_GetRecord(c) => Sorted!GetRecord(c)
      /\ RL_GetKey(c) => Sorted!GetKey(c)
      /\ Iget_key(c) \/ Iget_value(c) => Sorted!GetEntry(c) \/ Sorted!KeyZeroDenied(c)
  BY <1>1, SortedGet
<1>7. RL_MoveToNextValid(c) \/ Inext_cursor(c) => Sorted!MoveToNext(c)
  BY <1>1, SortedForth
<1>8. /\ \A k \in Key : RL_DeleteRecord(c, k) => Sorted!NothingDeleted(c)
      /\ RL_IsEmpty(c) \/ RL_CursorIsValid(c) \/ RL_NumRecords(c) => Sorted!Count(c)
  BY <1>1, SortedAsk
<1>9. Ilast_cursor(c) => Sorted!MoveToLast(c)
  BY <1>1, SortedLast
<1>10. \A lower, upper \in Key :
         RLAPP_RangeQuery(c, lower, upper) =>
           Sorted!RangeQuery(c, lower, upper) \/ Sorted!RangeAborts(c, lower, upper)
  BY <1>1, SortedRange
<1> QED
  BY <1>2, <1>3, <1>4, <1>5, <1>6, <1>7, <1>8, <1>9, <1>10

\* A step of the sorted map, or a call that departs from it.
SortedOrDeparts ==
  Sorted!Next \/ \E c \in Cursor : Sorted!RelationDeparts(c) \/ Sorted!ClientDeparts(c)

LEMMA SortedStep ==
  ASSUME OneCursor, IInv, [(Next \/ ClientNext) /\ ShallowSteps]_vars
  PROVE  [SortedOrDeparts]_(Sorted!vars)
<1>1. CASE Ended \/ UNCHANGED vars
  <2>1. heap' = heap /\ path' = path /\ op' = op /\ ret' = ret
    BY <1>1 DEF Ended, vars, tree
  <2>2. UNCHANGED <<Map, [c \in Cursor |-> Pos(c)]>>
    BY <2>1, RestsSorted
  <2>3. UNCHANGED Sorted!vars
    BY <2>1, <2>2 DEF Sorted!vars
  <2> QED
    BY <2>3
<1>2. CASE ~(Ended \/ UNCHANGED vars)
  <2>1. (Next \/ ClientNext) /\ ShallowSteps
    BY <1>2
  <2>2. op # "RL_DeleteRelation"
    BY <1>2, <2>1, CallsBefore
  <2>3. CASE RL_DeleteRelation
    <3>1. Sorted!DeleteRelation
      BY <2>2, <2>3, SortedDelete
    <3> QED
      BY <3>1 DEF SortedOrDeparts, Sorted!Next
  <2>4. CASE ClientNext
    <3>1. PICK c \in Cursor :
            \/ \E key \in Key : Imake_cursor(c, key)
            \/ Ilast_cursor(c)
            \/ Ifirst_cursor(c) \/ Inext_cursor(c) \/ Iprev_cursor(c)
            \/ Iget_key(c) \/ Iget_value(c)
            \/ \E lower, upper \in Key : RLAPP_RangeQuery(c, lower, upper)
      BY <2>4 DEF ClientNext
    <3>2. \/ \E k \in Key : Sorted!MakeCursor(c, k)
          \/ Sorted!MoveToLast(c)
          \/ Sorted!MoveToFirst(c) \/ Sorted!MoveToNext(c) \/ Sorted!MoveToPrevious(c)
          \/ Sorted!PreviousIsFirst(c)
          \/ Sorted!GetEntry(c) \/ Sorted!KeyZeroDenied(c)
          \/ \E lower, upper \in Key :
               Sorted!RangeQuery(c, lower, upper) \/ Sorted!RangeAborts(c, lower, upper)
      BY <2>1, <2>2, <3>1, SortedCalls
    <3>3. CASE Sorted!PreviousIsFirst(c) \/ Sorted!KeyZeroDenied(c)
               \/ \E lower, upper \in Key : Sorted!RangeAborts(c, lower, upper)
      BY <3>3 DEF SortedOrDeparts, Sorted!RelationDeparts, Sorted!ClientDeparts
    <3> QED
      BY <3>2, <3>3 DEF SortedOrDeparts, Sorted!Next
  <2>5. CASE \E c \in Cursor :
               \/ RL_NewCursor(c)
               \/ RL_FreeCursor(c)
               \/ \E k \in Key, r \in Record : RL_PutRecord(c, k, r)
               \/ \E k \in Key : RL_MoveToKey(c, k)
               \/ RL_GetRecord(c)
               \/ RL_GetKey(c)
               \/ RL_MoveToFirst(c)
               \/ RL_MoveToNextValid(c)
               \/ RL_MoveToPreviousNotFirst(c)
               \/ \E k \in Key : RL_DeleteRecord(c, k)
               \/ RL_IsEmpty(c)
               \/ RL_CursorIsValid(c)
               \/ RL_NumRecords(c)
    <3>1. PICK c \in Cursor :
               \/ RL_NewCursor(c)
               \/ RL_FreeCursor(c)
               \/ \E k \in Key, r \in Record : RL_PutRecord(c, k, r)
               \/ \E k \in Key : RL_MoveToKey(c, k)
               \/ RL_GetRecord(c)
               \/ RL_GetKey(c)
               \/ RL_MoveToFirst(c)
               \/ RL_MoveToNextValid(c)
               \/ RL_MoveToPreviousNotFirst(c)
               \/ \E k \in Key : RL_DeleteRecord(c, k)
               \/ RL_IsEmpty(c)
               \/ RL_CursorIsValid(c)
               \/ RL_NumRecords(c)
      BY <2>5
    <3>2. \/ Sorted!NewCursor(c) \/ Sorted!NewCursorAtFirst(c) \/ Sorted!FreeCursor(c)
          \/ \E k \in Key, r \in Record : Sorted!PutRecord(c, k, r)
          \/ \E k \in Key : Sorted!MoveToKey(c, k)
          \/ Sorted!GetRecord(c) \/ Sorted!GetKey(c)
          \/ Sorted!MoveToFirst(c) \/ Sorted!MoveToNext(c)
          \/ Sorted!MoveToPrevious(c) \/ Sorted!PreviousIsFirst(c)
          \/ Sorted!NothingDeleted(c) \/ Sorted!Count(c)
      BY <2>1, <2>2, <3>1, SortedCalls
    <3>3. CASE Sorted!NewCursorAtFirst(c) \/ Sorted!PreviousIsFirst(c) \/ Sorted!NothingDeleted(c)
      BY <3>3 DEF SortedOrDeparts, Sorted!RelationDeparts
    <3> QED
      BY <3>2, <3>3 DEF SortedOrDeparts, Sorted!Next
  <2> QED
    BY <1>2, <2>1, <2>3, <2>4, <2>5 DEF Next
<1> QED
  BY <1>1, <1>2

\* While steps back are taken in a tree of at most two levels.
ShallowSpec == Init /\ [][(Next \/ ClientNext) /\ ShallowSteps]_vars

\* Every call of the relation with one cursor, of the index and of the range query, whatever
\* the tree looks like, changes the map, moves the cursor and answers as that of the sorted
\* map of relation.h with the same arguments, or is one of Departures: a new cursor, a step
\* back to the first record, a deletion, a range that the query does not survive, key 0.
THEOREM IsSortedMapButDepartures == OneCursor /\ ShallowSpec => SortedMapButDepartures
<1> SUFFICES ASSUME OneCursor PROVE ShallowSpec => SortedMapButDepartures
  OBVIOUS
<1>1. Init => IInv
  BY StartsLive
<1>2. IInv /\ [(Next \/ ClientNext) /\ ShallowSteps]_vars => IInv'
  <2>1. [(Next \/ ClientNext) /\ ShallowSteps]_vars => [Next \/ ClientNext]_vars
    OBVIOUS
  <2> QED
    BY <2>1, StaysLive
<1>3. ShallowSpec => []IInv
  BY <1>1, <1>2, PTL DEF ShallowSpec
<1>4. Init => Sorted!Init
  BY SortedInit
<1>5. IInv /\ [(Next \/ ClientNext) /\ ShallowSteps]_vars => [SortedOrDeparts]_(Sorted!vars)
  BY SortedStep
<1>6. ShallowSpec => Sorted!Init /\ [][SortedOrDeparts]_(Sorted!vars)
  BY <1>3, <1>4, <1>5, PTL DEF ShallowSpec
<1> DEFINE Called == \A c \in Cursor, k \in Key :
             /\ op' = "RL_PutRecord" =>
                  \A r \in Record : RL_PutRecord(c, k, r) => Sorted!PutRecord(c, k, r)
             /\ op' = "RL_MoveToKey" => (RL_MoveToKey(c, k) => Sorted!MoveToKey(c, k))
             /\ op' = "Imake_cursor" => (Imake_cursor(c, k) => Sorted!MakeCursor(c, k))
             /\ op' \in {"RLAPP_RangeQuery", "abort"} =>
                  \A u \in Key : RLAPP_RangeQuery(c, k, u) =>
                                   Sorted!RangeQuery(c, k, u) \/ Sorted!RangeAborts(c, k, u)
<1>7. IInv /\ [(Next \/ ClientNext) /\ ShallowSteps]_vars => [Called]_vars
  <2>1. ASSUME IInv, (Next \/ ClientNext) /\ ShallowSteps, ~Ended PROVE Called
    <3>1. op # "RL_DeleteRelation"
      BY <2>1, CallsBefore
    <3> QED
      BY <2>1, <3>1, SortedCalls
  <2>2. Ended => UNCHANGED vars
    BY DEF Ended
  <2> QED
    BY <2>1, <2>2
<1>8. SameArguments <=> [][Called]_vars
  BY DEF SameArguments
<1> HIDE DEF Called
<1>9. ShallowSpec => [][Called]_vars
  BY <1>3, <1>7, PTL DEF ShallowSpec
<1> QED
  BY <1>6, <1>8, <1>9 DEF SortedMapButDepartures, SortedOrDeparts
=============================================================================
