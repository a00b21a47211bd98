------------------------------- MODULE BtNode -------------------------------
(***************************************************************************)
(* The nodes of the B+tree of relation_mem.c and the operations inside one *)
(* node: the two searches, the insertion of an entry and the split.        *)
(*                                                                         *)
(* entries is the part of the array that is in use, numKeys its length.    *)
(* Indexes are those of the code, from 0; index -1 stands for ptr0.        *)
(***************************************************************************)
EXTENDS Integers, SequencesExt

CONSTANTS FANOUT,    \* the most entries of a node (15 in util.h)
          Key,       \* the keys,
          Record,    \* the records
          Node,      \* and the addresses of nodes
          NULL

ASSUME FanoutAssumption == FANOUT \in Nat /\ FANOUT >= 2
ASSUME KeysAssumption == Key \subseteq Nat /\ Key # {}
ASSUME NodesAssumption == IsFiniteSet(Node) /\ Node # {}

Entry == [key : Key, ptr : Record \cup Node]

BtNodes == [isLeaf : BOOLEAN, FirstLeaf : BOOLEAN, LastLeaf : BOOLEAN,
            ptr0 : Node \cup {NULL}, entries : Seq(Entry)]

\* What is no address, no record and no node.
ASSUME NullAssumption == NULL \notin Node /\ NULL \notin Record /\ NULL \notin BtNodes

createNewNode(isLeaf, first, last) ==
  [isLeaf |-> isLeaf, FirstLeaf |-> first, LastLeaf |-> last,
   ptr0 |-> NULL, entries |-> <<>>]

numKeys(n) == Len(n.entries)
KeyAt(n, i) == n.entries[i + 1].key
Child(n, i) == IF i = -1 THEN n.ptr0 ELSE n.entries[i + 1].ptr

InUse(n) == 0 .. numKeys(n) - 1

\* The least of a set of indexes.
First(S) == CHOOSE i \in S : \A j \in S : i <= j

\* The index of the last entry whose key is at most `key`, or -1.
findChildIndex(n, key) ==
  IF key < KeyAt(n, 0) THEN -1
  ELSE First({i \in InUse(n) :
                \/ i = numKeys(n) - 1
                \/ KeyAt(n, i) <= key /\ key < KeyAt(n, i + 1)})

\* The index of the first entry whose key is at least `key`, or numKeys.
findRecordIndex(n, key) ==
  First({i \in InUse(n) : key <= KeyAt(n, i)} \cup {numKeys(n)})

lastpointer(n) == IF n.isLeaf THEN numKeys(n) ELSE numKeys(n) - 1
firstpointer(n) == IF n.isLeaf THEN 0 ELSE -1

\* Is the child for `key` surely below n?
isNodeParent(n, key) == findChildIndex(n, key) \notin {-1, numKeys(n) - 1}

\* Entries from i on move up by one and e takes their place.
insertEntry(n, i, e) == [n EXCEPT !.entries = InsertAt(@, i + 1, e)]

\* splitnode(): allEntries, the node that stays, the new node, and the entry
\* that goes up to the parent.
middle == (FANOUT + 1) \div 2

allEntries(n, e) == InsertAt(n.entries, findRecordIndex(n, e.key) + 1, e)

splitLeft(n, e) ==
  [n EXCEPT !.LastLeaf = FALSE, !.entries = SubSeq(allEntries(n, e), 1, middle)]

\* Mutant: the middle entry of an inner node is copied instead of moved up.
splitRight_Copies(n, e) ==
  LET up == allEntries(n, e)[middle + 1]
  IN  [createNewNode(n.isLeaf, FALSE, n.LastLeaf) EXCEPT
         !.ptr0 = IF n.isLeaf THEN NULL ELSE up.ptr,
         !.entries = SubSeq(allEntries(n, e), middle + 1, FANOUT + 1)]

\* Mutant: the middle entry's pointer becomes ptr0 of a leaf as well.
splitRight_LeafPtr0(n, e) ==
  LET up == allEntries(n, e)[middle + 1]
  IN  [createNewNode(n.isLeaf, FALSE, n.LastLeaf) EXCEPT
         !.ptr0 = up.ptr,
         !.entries = SubSeq(allEntries(n, e),
                            IF n.isLeaf THEN middle + 1 ELSE middle + 2, FANOUT + 1)]

splitRight(n, e) ==
  LET up == allEntries(n, e)[middle + 1]
  IN  [createNewNode(n.isLeaf, FALSE, n.LastLeaf) EXCEPT
         !.ptr0 = IF n.isLeaf THEN NULL ELSE up.ptr,
         !.entries = SubSeq(allEntries(n, e),
                            IF n.isLeaf THEN middle + 1 ELSE middle + 2, FANOUT + 1)]

splitUp(n, e, new) == [key |-> allEntries(n, e)[middle + 1].key, ptr |-> new]
=============================================================================
