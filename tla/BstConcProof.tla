----------------------------- MODULE BstConcProof -----------------------------
(***************************************************************************)
(* Proofs about the concurrent tree for any sets of threads, keys, values  *)
(* and addresses and any number of calls: memory safety and locking, and   *)
(* linearizability.                                                        *)
(***************************************************************************)
EXTENDS BstConcProps, TLAPS

\* Where a thread is decides which of its locals are set.
Locals(t) ==
  /\ IF pc[t] = "idle" THEN tgt[t] = NULL ELSE call[t] \in Calls /\ tgt[t] \in Node
  /\ IF pc[t] \in {"next", "unlock_old", "unlock_lp"}
     THEN old[t] \in Node ELSE old[t] = NULL
  /\ IF pc[t] \in {"right", "push", "left", "splice"}
     THEN tgq[t] \in Node ELSE tgq[t] = NULL
  /\ IF pc[t] \in {"left", "splice"} THEN tgl[t] \in Node ELSE tgl[t] = NULL

\* Two locals whose locks are held at once are different nodes.
Distinct(t) ==
  /\ pc[t] \in {"unlock_old", "unlock_lp"} => old[t] # tgt[t]
  /\ pc[t] \in {"push", "left", "splice"} => tgq[t] # tgt[t]
  /\ pc[t] = "splice" => tgl[t] # tgt[t] /\ tgl[t] # tgq[t]

\* What a thread has read from a node it holds is still there.
Reads(t) ==
  /\ pc[t] = "root" => tgt[t] = root
  /\ pc[t] \in {"next", "unlock_old"} =>
       /\ heap[old[t]] # NULL
       /\ tgt[t] = ChildFor(heap[old[t]], call[t].key)
  /\ pc[t] \in {"right", "push", "left", "splice", "unlock_lp"} => heap[tgt[t]] # NULL
  /\ pc[t] \in {"right", "push", "left", "splice"} => tgq[t] = heap[tgt[t]].right
  /\ pc[t] \in {"left", "splice"} => tgl[t] = heap[tgt[t]].left /\ heap[tgq[t]] = NULL

\* The links of the tree: a child has one parent, and the root none.
Links ==
  /\ root \in live
  /\ \A n \in Node \ live : heap[n] = NULL /\ owner[n] = NULL
  /\ \A n \in Node : heap[n] # NULL =>
       /\ heap[n].left \in live /\ heap[n].left # root
       /\ heap[n].right \in live /\ heap[n].right # root
       /\ heap[n].left # heap[n].right
  /\ \A m, n \in Node : m # n /\ heap[m] # NULL /\ heap[n] # NULL =>
       /\ heap[m].left # heap[n].left /\ heap[m].left # heap[n].right
       /\ heap[m].right # heap[n].left /\ heap[m].right # heap[n].right

IInv ==
  /\ TypeOK
  /\ LockDiscipline
  /\ \A t \in Thread : Locals(t) /\ Distinct(t) /\ Reads(t)
  /\ \A t \in Thread : Pointers(t) \subseteq live
  /\ Links

USE NullAssumption, NodeAssumption

LEMMA InitIInv == Init => IInv
<1> SUFFICES ASSUME Init PROVE IInv
  OBVIOUS
<1>1. TypeOK
  <2>1. left \in [Thread -> 0 .. MaxCalls]
    <3>1. MaxCalls \in 0 .. MaxCalls
      BY CallsAssumption
    <3> QED
      BY <3>1 DEF Init
  <2> QED
    BY <2>1 DEF Init, TypeOK, PC
<1>2. LockDiscipline
  BY DEF Init, LockDiscipline, Holds
<1>3. \A t \in Thread : Locals(t) /\ Distinct(t) /\ Reads(t)
  BY DEF Init, Locals, Distinct, Reads
<1>4. \A t \in Thread : Pointers(t) \subseteq live
  BY DEF Init, Pointers
<1>5. Links
  BY DEF Init, Links
<1> QED
  BY <1>1, <1>2, <1>3, <1>4, <1>5 DEF IInv

\* When delete() splices, no other thread points to the two tree_t it frees: it
\* would hold the one, or wait for it and hold its parent.
LEMMA SpliceAlone ==
  ASSUME IInv, NEW t \in Thread, Splice(t), NEW u \in Thread, u # t
  PROVE  tgq[t] \notin Pointers(u) /\ tgl[t] \notin Pointers(u)
<1> USE DEF IInv, TypeOK, Locals
<1> DEFINE a == tgt[t]
           b == tgq[t]
           c == tgl[t]
<1>1. /\ a \in Node /\ b \in Node /\ c \in Node
      /\ heap[a] \in Tree
      /\ heap[a].right = b /\ heap[a].left = c
      /\ owner[a] = t /\ owner[b] = t /\ owner[c] = t
  BY DEF Splice, Goto, Reads, LockDiscipline, Holds
<1>2. b # root /\ c # root
  BY <1>1 DEF Links
<1> HIDE DEF a, b, c
<1>3. a \notin Holds(u) /\ b \notin Holds(u) /\ c \notin Holds(u)
  BY <1>1 DEF LockDiscipline
<1>4. \A n \in Node : heap[n] # NULL /\ n # a =>
        heap[n].left \notin {b, c} /\ heap[n].right \notin {b, c}
  BY <1>1 DEF Links
<1>5. ASSUME old[u] \in {b, c} PROVE FALSE
  BY <1>1, <1>3, <1>5 DEF Holds
<1>6. ASSUME tgt[u] \in {b, c} PROVE FALSE
  <2>1. pc[u] \in {"root", "next"}
    BY <1>1, <1>3, <1>6 DEF Holds, PC
  <2>2. pc[u] = "next"
    BY <1>2, <1>6, <2>1 DEF Reads
  <2> QED
    BY <1>3, <1>4, <1>6, <2>2 DEF Holds, Reads, ChildFor
<1>7. ASSUME tgq[u] \in {b, c} PROVE FALSE
  BY <1>1, <1>3, <1>4, <1>7 DEF Holds, Reads
<1>8. ASSUME tgl[u] \in {b, c} PROVE FALSE
  BY <1>1, <1>3, <1>4, <1>8 DEF Holds, Reads
<1> QED
  BY <1>5, <1>6, <1>7, <1>8 DEF Pointers, b, c

LEMMA StepIInv == ASSUME IInv, NEW t \in Thread, Step(t) PROVE IInv'
<1> USE DEF IInv, TypeOK, Locals, Goto, Acquire, Release, locals, AtEmpty, AtKey, PC
<1>1. CASE AcquireRoot(t)
  <2>1. TypeOK'
    BY <1>1 DEF AcquireRoot, Reads, ChildFor, Tree, Calls, Leaf, turn_left, Links
  <2>2. LockDiscipline'
    BY <1>1 DEF AcquireRoot, LockDiscipline, Holds, Distinct, Reads
  <2>3. \A u \in Thread : (Locals(u) /\ Distinct(u) /\ Reads(u))'
    BY <1>1 DEF AcquireRoot, LockDiscipline, Holds, Distinct, Reads, Tree, turn_left
  <2>4. \A u \in Thread : (Pointers(u) \subseteq live)'
    BY <1>1 DEF AcquireRoot, Pointers, Links, ChildFor, turn_left
  <2>5. Links'
    BY <1>1 DEF AcquireRoot, Links, Pointers, turn_left, Leaf, LockDiscipline, Holds
  <2> QED
    BY <2>1, <2>2, <2>3, <2>4, <2>5
<1>2. CASE Descend(t)
  <2>1. TypeOK'
    BY <1>2 DEF Descend, Reads, ChildFor, Tree, Calls, Leaf, turn_left, Links
  <2>2. LockDiscipline'
    BY <1>2 DEF Descend, LockDiscipline, Holds, Distinct, Reads
  <2>3. \A u \in Thread : (Locals(u) /\ Distinct(u) /\ Reads(u))'
    <3>1. ChildFor(heap[tgt[t]], call[t].key) \in Node
      BY <1>2 DEF Descend, ChildFor, Tree
    <3>2. ASSUME NEW u \in Thread PROVE Locals(u)'
      BY <1>2, <3>1 DEF Descend
    <3>3. ASSUME NEW u \in Thread PROVE Distinct(u)'
      BY <1>2 DEF Descend, Distinct
    <3>4. ASSUME NEW u \in Thread PROVE Reads(u)'
      BY <1>2 DEF Descend, Reads
    <3> QED
      BY <3>2, <3>3, <3>4
  <2>4. \A u \in Thread : (Pointers(u) \subseteq live)'
    BY <1>2 DEF Descend, Pointers, Links, ChildFor, turn_left
  <2>5. Links'
    BY <1>2 DEF Descend, Links, Pointers, turn_left, Leaf, LockDiscipline, Holds
  <2> QED
    BY <2>1, <2>2, <2>3, <2>4, <2>5
<1>3. CASE AcquireNext(t)
  <2>1. TypeOK'
    BY <1>3 DEF AcquireNext, Reads, ChildFor, Tree, Calls, Leaf, turn_left, Links
  <2>2. LockDiscipline'
    BY <1>3 DEF AcquireNext, LockDiscipline, Holds, Distinct, Reads
  <2>3. \A u \in Thread : (Locals(u) /\ Distinct(u) /\ Reads(u))'
    BY <1>3 DEF AcquireNext, LockDiscipline, Holds, Distinct, Reads, Tree, turn_left
  <2>4. \A u \in Thread : (Pointers(u) \subseteq live)'
    BY <1>3 DEF AcquireNext, Pointers, Links, ChildFor, turn_left
  <2>5. Links'
    BY <1>3 DEF AcquireNext, Links, Pointers, turn_left, Leaf, LockDiscipline, Holds
  <2> QED
    BY <2>1, <2>2, <2>3, <2>4, <2>5
<1>4. CASE ReleaseOld(t)
  <2>1. TypeOK'
    BY <1>4 DEF ReleaseOld, Reads, ChildFor, Tree, Calls, Leaf, turn_left, Links
  <2>2. LockDiscipline'
    BY <1>4 DEF ReleaseOld, LockDiscipline, Holds, Distinct, Reads
  <2>3. \A u \in Thread : (Locals(u) /\ Distinct(u) /\ Reads(u))'
    BY <1>4 DEF ReleaseOld, LockDiscipline, Holds, Distinct, Reads, Tree, turn_left
  <2>4. \A u \in Thread : (Pointers(u) \subseteq live)'
    BY <1>4 DEF ReleaseOld, Pointers, Links, ChildFor, turn_left
  <2>5. Links'
    BY <1>4 DEF ReleaseOld, Links, Pointers, turn_left, Leaf, LockDiscipline, Holds
  <2> QED
    BY <2>1, <2>2, <2>3, <2>4, <2>5
<1>5. CASE Return(t)
  <2>1. TypeOK'
    BY <1>5 DEF Return, Reads, ChildFor, Tree, Calls, Leaf, turn_left, Links
  <2>2. LockDiscipline'
    BY <1>5 DEF Return, LockDiscipline, Holds, Distinct, Reads
  <2>3. \A u \in Thread : (Locals(u) /\ Distinct(u) /\ Reads(u))'
    BY <1>5 DEF Return, LockDiscipline, Holds, Distinct, Reads, Tree, turn_left
  <2>4. \A u \in Thread : (Pointers(u) \subseteq live)'
    BY <1>5 DEF Return, Pointers, Links, ChildFor, turn_left
  <2>5. Links'
    BY <1>5 DEF Return, Links, Pointers, turn_left, Leaf, LockDiscipline, Holds
  <2> QED
    BY <2>1, <2>2, <2>3, <2>4, <2>5
<1>6. CASE InsertLeaf(t)
  <2>1. TypeOK'
    <3>1. ASSUME NEW p1 \in Node, NEW p2 \in Node PROVE Leaf(call[t], p1, p2) \in Tree
      BY <1>6 DEF InsertLeaf, Leaf, Calls, Tree
    <3>2. heap' \in [Node -> Tree \cup {NULL}]
      BY <1>6, <3>1 DEF InsertLeaf
    <3> QED
      BY <1>6, <3>2 DEF InsertLeaf
  <2>2. LockDiscipline'
    BY <1>6 DEF InsertLeaf, LockDiscipline, Holds, Distinct, Reads
  <2>3. \A u \in Thread : (Locals(u) /\ Distinct(u) /\ Reads(u))'
    <3>1. ASSUME NEW u \in Thread PROVE Locals(u)' /\ Distinct(u)'
      BY <1>6 DEF InsertLeaf, Distinct
    <3>2. ASSUME NEW u \in Thread, u # t PROVE Reads(u)'
      <4>1. \A n \in Node : n \in Holds(u) => n # tgt[t] /\ n \in live
        BY <1>6, <3>2 DEF InsertLeaf, LockDiscipline, Holds, Links
      <4>2. \A n \in Node : n \in Holds(u) => heap'[n] = heap[n]
        BY <1>6, <4>1 DEF InsertLeaf
      <4> QED
        BY <1>6, <3>2, <4>2 DEF InsertLeaf, Reads, Holds
    <3>3. Reads(t)'
      BY <1>6 DEF InsertLeaf, Reads
    <3> QED
      BY <3>1, <3>2, <3>3
  <2>4. \A u \in Thread : (Pointers(u) \subseteq live)'
    BY <1>6 DEF InsertLeaf, Pointers, Links, ChildFor, turn_left
  <2>5. Links'
    <3> DEFINE a == tgt[t]
    <3>1. PICK p1 \in Node \ live, p2 \in Node \ live :
            /\ p1 # p2
            /\ live' = live \cup {p1, p2}
            /\ heap' = [heap EXCEPT ![p1] = NULL, ![p2] = NULL, ![a] = Leaf(call[t], p1, p2)]
      BY <1>6 DEF InsertLeaf
    <3>2. /\ a \in Node /\ a \in live /\ heap[a] = NULL
          /\ owner' = owner
      BY <1>6 DEF InsertLeaf, Pointers
    <3>3. /\ heap'[a].left = p1 /\ heap'[a].right = p2
          /\ \A n \in Node \ {a} : heap'[n] = heap[n]
      BY <3>1, <3>2 DEF Links, Leaf
    <3>4. p1 # root /\ p2 # root
      BY DEF Links
    <3>5. \A n \in Node : heap[n] # NULL =>
            heap[n].left \notin {p1, p2} /\ heap[n].right \notin {p1, p2}
      BY DEF Links
    <3> HIDE DEF a
    <3>6. \A n \in Node \ live' : heap'[n] = NULL /\ owner'[n] = NULL
      BY <3>1, <3>2, <3>3 DEF Links
    <3>7. \A n \in Node : heap'[n] # NULL =>
            /\ heap'[n].left \in live' /\ heap'[n].left # root
            /\ heap'[n].right \in live' /\ heap'[n].right # root
            /\ heap'[n].left # heap'[n].right
      BY <3>1, <3>2, <3>3, <3>4 DEF Links
    <3>8. \A m, n \in Node : m # n /\ heap'[m] # NULL /\ heap'[n] # NULL =>
            /\ heap'[m].left # heap'[n].left /\ heap'[m].left # heap'[n].right
            /\ heap'[m].right # heap'[n].left /\ heap'[m].right # heap'[n].right
      BY <3>1, <3>2, <3>3, <3>5 DEF Links
    <3> QED
      BY <3>1, <3>6, <3>7, <3>8 DEF Links
  <2> QED
    BY <2>1, <2>2, <2>3, <2>4, <2>5
<1>7. CASE MallocFails(t)
  <2>1. TypeOK'
    BY <1>7 DEF MallocFails, Reads, ChildFor, Tree, Calls, Leaf, turn_left, Links
  <2>2. LockDiscipline'
    BY <1>7 DEF MallocFails, LockDiscipline, Holds, Distinct, Reads
  <2>3. \A u \in Thread : (Locals(u) /\ Distinct(u) /\ Reads(u))'
    BY <1>7 DEF MallocFails, LockDiscipline, Holds, Distinct, Reads, Tree, turn_left
  <2>4. \A u \in Thread : (Pointers(u) \subseteq live)'
    BY <1>7 DEF MallocFails, Pointers, Links, ChildFor, turn_left
  <2>5. Links'
    BY <1>7 DEF MallocFails, Links, Pointers, turn_left, Leaf, LockDiscipline, Holds
  <2> QED
    BY <2>1, <2>2, <2>3, <2>4, <2>5
<1>8. CASE Update(t)
  <2>1. TypeOK'
    BY <1>8 DEF Update, Reads, ChildFor, Tree, Calls, Leaf, turn_left, Links
  <2>2. LockDiscipline'
    BY <1>8 DEF Update, LockDiscipline, Holds, Distinct, Reads
  <2>3. \A u \in Thread : (Locals(u) /\ Distinct(u) /\ Reads(u))'
    BY <1>8 DEF Update, LockDiscipline, Holds, Distinct, Reads, Tree, turn_left
  <2>4. \A u \in Thread : (Pointers(u) \subseteq live)'
    BY <1>8 DEF Update, Pointers, Links, ChildFor, turn_left
  <2>5. Links'
    BY <1>8 DEF Update, Links, Pointers, turn_left, Leaf, LockDiscipline, Holds
  <2> QED
    BY <2>1, <2>2, <2>3, <2>4, <2>5
<1>9. CASE LookupHit(t)
  <2>1. TypeOK'
    BY <1>9 DEF LookupHit, Reads, ChildFor, Tree, Calls, Leaf, turn_left, Links
  <2>2. LockDiscipline'
    BY <1>9 DEF LookupHit, LockDiscipline, Holds, Distinct, Reads
  <2>3. \A u \in Thread : (Locals(u) /\ Distinct(u) /\ Reads(u))'
    BY <1>9 DEF LookupHit, LockDiscipline, Holds, Distinct, Reads, Tree, turn_left
  <2>4. \A u \in Thread : (Pointers(u) \subseteq live)'
    BY <1>9 DEF LookupHit, Pointers, Links, ChildFor, turn_left
  <2>5. Links'
    BY <1>9 DEF LookupHit, Links, Pointers, turn_left, Leaf, LockDiscipline, Holds
  <2> QED
    BY <2>1, <2>2, <2>3, <2>4, <2>5
<1>10. CASE LookupMiss(t)
  <2>1. TypeOK'
    BY <1>10 DEF LookupMiss, Reads, ChildFor, Tree, Calls, Leaf, turn_left, Links
  <2>2. LockDiscipline'
    BY <1>10 DEF LookupMiss, LockDiscipline, Holds, Distinct, Reads
  <2>3. \A u \in Thread : (Locals(u) /\ Distinct(u) /\ Reads(u))'
    BY <1>10 DEF LookupMiss, LockDiscipline, Holds, Distinct, Reads, Tree, turn_left
  <2>4. \A u \in Thread : (Pointers(u) \subseteq live)'
    BY <1>10 DEF LookupMiss, Pointers, Links, ChildFor, turn_left
  <2>5. Links'
    BY <1>10 DEF LookupMiss, Links, Pointers, turn_left, Leaf, LockDiscipline, Holds
  <2> QED
    BY <2>1, <2>2, <2>3, <2>4, <2>5
<1>11. CASE DeleteAbsent(t)
  <2>1. TypeOK'
    BY <1>11 DEF DeleteAbsent, Reads, ChildFor, Tree, Calls, Leaf, turn_left, Links
  <2>2. LockDiscipline'
    BY <1>11 DEF DeleteAbsent, LockDiscipline, Holds, Distinct, Reads
  <2>3. \A u \in Thread : (Locals(u) /\ Distinct(u) /\ Reads(u))'
    BY <1>11 DEF DeleteAbsent, LockDiscipline, Holds, Distinct, Reads, Tree, turn_left
  <2>4. \A u \in Thread : (Pointers(u) \subseteq live)'
    BY <1>11 DEF DeleteAbsent, Pointers, Links, ChildFor, turn_left
  <2>5. Links'
    BY <1>11 DEF DeleteAbsent, Links, Pointers, turn_left, Leaf, LockDiscipline, Holds
  <2> QED
    BY <2>1, <2>2, <2>3, <2>4, <2>5
<1>12. CASE DeleteFound(t)
  <2>1. TypeOK'
    BY <1>12 DEF DeleteFound, Reads, ChildFor, Tree, Calls, Leaf, turn_left, Links
  <2>2. LockDiscipline'
    BY <1>12 DEF DeleteFound, LockDiscipline, Holds, Distinct, Reads
  <2>3. \A u \in Thread : (Locals(u) /\ Distinct(u) /\ Reads(u))'
    BY <1>12 DEF DeleteFound, LockDiscipline, Holds, Distinct, Reads, Tree, turn_left
  <2>4. \A u \in Thread : (Pointers(u) \subseteq live)'
    BY <1>12 DEF DeleteFound, Pointers, Links, ChildFor, turn_left
  <2>5. Links'
    BY <1>12 DEF DeleteFound, Links, Pointers, turn_left, Leaf, LockDiscipline, Holds
  <2> QED
    BY <2>1, <2>2, <2>3, <2>4, <2>5
<1>13. CASE AcquireRight(t)
  <2>1. TypeOK'
    BY <1>13 DEF AcquireRight, Reads, ChildFor, Tree, Calls, Leaf, turn_left, Links
  <2>2. LockDiscipline'
    BY <1>13 DEF AcquireRight, LockDiscipline, Holds, Distinct, Reads
  <2>3. \A u \in Thread : (Locals(u) /\ Distinct(u) /\ Reads(u))'
    BY <1>13 DEF AcquireRight, LockDiscipline, Holds, Distinct, Reads, Tree, turn_left
  <2>4. \A u \in Thread : (Pointers(u) \subseteq live)'
    BY <1>13 DEF AcquireRight, Pointers, Links, ChildFor, turn_left
  <2>5. Links'
    BY <1>13 DEF AcquireRight, Links, Pointers, turn_left, Leaf, LockDiscipline, Holds
  <2> QED
    BY <2>1, <2>2, <2>3, <2>4, <2>5
<1>14. CASE Rotate(t)
  <2> DEFINE a == tgt[t]
             b == tgq[t]
  <2>a. /\ a \in Node /\ b \in Node /\ a # b
        /\ heap[a] \in Tree /\ heap[b] \in Tree
        /\ heap[a].right = b
    BY <1>14 DEF Rotate, Reads, Distinct
  <2>b. /\ owner[a] = t /\ owner[b] = t
        /\ a \in live /\ b \in live
    BY <1>14, <2>a DEF Rotate, LockDiscipline, Holds, Pointers
  <2>c. /\ heap' \in [Node -> Tree \cup {NULL}]
        /\ heap'[a] = [heap[b] EXCEPT !.left = b]
        /\ heap'[b] = [heap[a] EXCEPT !.right = heap[b].left]
        /\ \A n \in Node \ {a, b} : heap'[n] = heap[n]
    BY <1>14, <2>a DEF Rotate, turn_left, Tree
  <2>d. /\ heap'[a] \in Tree /\ heap'[b] \in Tree
        /\ heap'[a].left = b /\ heap'[a].right = heap[b].right
        /\ heap'[b].left = heap[a].left /\ heap'[b].right = heap[b].left
    BY <2>a, <2>c DEF Tree
  <2>e. /\ pc[t] = "push" /\ pc' = [pc EXCEPT ![t] = "unlock_lp"]
        /\ tgt' = [tgt EXCEPT ![t] = b]
        /\ old' = [old EXCEPT ![t] = a]
        /\ tgq' = [tgq EXCEPT ![t] = NULL]
        /\ UNCHANGED <<live, owner, exited, call, left, tgl, ret>>
    BY <1>14, <2>d DEF Rotate
  <2> HIDE DEF a, b
  <2>1. TypeOK'
    BY <2>a, <2>c, <2>e
  <2>2. LockDiscipline'
    BY <2>a, <2>b, <2>e DEF LockDiscipline, Holds, a, b
  <2>3. \A u \in Thread : (Locals(u) /\ Distinct(u) /\ Reads(u))'
    <3>1. ASSUME NEW u \in Thread, u # t PROVE Reads(u)'
      <4>1. \A n \in Node : n \in Holds(u) => heap'[n] = heap[n]
        BY <2>b, <2>c, <3>1 DEF LockDiscipline
      <4> QED
        BY <2>e, <3>1, <4>1 DEF Reads, Holds
    <3>2. Reads(t)'
      BY <2>a, <2>d, <2>e DEF Reads
    <3> QED
      BY <2>a, <2>e, <3>1, <3>2 DEF Distinct
  <2>4. \A u \in Thread : (Pointers(u) \subseteq live)'
    BY <2>b, <2>e DEF Pointers
  <2>5. Links'
    <3>a. /\ heap[a].left # heap[b].left /\ heap[a].left # heap[b].right
          /\ b # heap[b].left /\ b # heap[b].right
      BY <2>a DEF Links
    <3>1. ASSUME NEW n \in Node, heap'[n] # NULL
          PROVE  /\ heap'[n].left \in live /\ heap'[n].left # root
                 /\ heap'[n].right \in live /\ heap'[n].right # root
                 /\ heap'[n].left # heap'[n].right
      <4>1. CASE n \in {a, b}
        BY <2>a, <2>d, <3>a, <4>1 DEF Links
      <4>2. CASE n \notin {a, b}
        BY <2>c, <3>1, <4>2 DEF Links
      <4> QED
        BY <4>1, <4>2
    <3>2. \A m, n \in Node : m # n /\ heap'[m] # NULL /\ heap'[n] # NULL =>
            /\ heap'[m].left # heap'[n].left /\ heap'[m].left # heap'[n].right
            /\ heap'[m].right # heap'[n].left /\ heap'[m].right # heap'[n].right
      <4>1. ASSUME NEW n \in Node \ {a, b}, heap[n] # NULL
            PROVE  /\ heap[n].left \notin {heap[a].left, b, heap[b].left, heap[b].right}
                   /\ heap[n].right \notin {heap[a].left, b, heap[b].left, heap[b].right}
        BY <2>a, <4>1 DEF Links
      <4>2. /\ heap[a].left # b /\ heap[b].left # heap[b].right
        BY <2>a DEF Links
      <4>3. ASSUME NEW m \in {a, b}, NEW n \in {a, b}, m # n
            PROVE  /\ heap'[m].left # heap'[n].left /\ heap'[m].left # heap'[n].right
                   /\ heap'[m].right # heap'[n].left /\ heap'[m].right # heap'[n].right
        BY <2>d, <3>a, <4>2, <4>3
      <4>4. ASSUME NEW m \in {a, b}
            PROVE  {heap'[m].left, heap'[m].right}
                     \subseteq {heap[a].left, b, heap[b].left, heap[b].right}
        BY <2>d
      <4>5. ASSUME NEW m \in Node \ {a, b}, NEW n \in Node \ {a, b}, m # n,
                   heap[m] # NULL, heap[n] # NULL
            PROVE  /\ heap[m].left # heap[n].left /\ heap[m].left # heap[n].right
                   /\ heap[m].right # heap[n].left /\ heap[m].right # heap[n].right
        BY <4>5 DEF Links
      <4> QED
        BY <2>c, <4>1, <4>3, <4>4, <4>5
    <3> QED
      BY <2>b, <2>c, <2>e, <3>1, <3>2 DEF Links
  <2> QED
    BY <2>1, <2>2, <2>3, <2>4, <2>5
<1>15. CASE ReleaseLp(t)
  <2>1. TypeOK'
    BY <1>15 DEF ReleaseLp, Reads, ChildFor, Tree, Calls, Leaf, turn_left, Links
  <2>2. LockDiscipline'
    BY <1>15 DEF ReleaseLp, LockDiscipline, Holds, Distinct, Reads
  <2>3. \A u \in Thread : (Locals(u) /\ Distinct(u) /\ Reads(u))'
    BY <1>15 DEF ReleaseLp, LockDiscipline, Holds, Distinct, Reads, Tree, turn_left
  <2>4. \A u \in Thread : (Pointers(u) \subseteq live)'
    BY <1>15 DEF ReleaseLp, Pointers, Links, Reads
  <2>5. Links'
    BY <1>15 DEF ReleaseLp, Links, Pointers, turn_left, Leaf, LockDiscipline, Holds
  <2> QED
    BY <2>1, <2>2, <2>3, <2>4, <2>5
<1>16. CASE ReadLeft(t)
  <2>1. TypeOK'
    BY <1>16 DEF ReadLeft, Reads, ChildFor, Tree, Calls, Leaf, turn_left, Links
  <2>2. LockDiscipline'
    BY <1>16 DEF ReadLeft, LockDiscipline, Holds, Distinct, Reads
  <2>3. \A u \in Thread : (Locals(u) /\ Distinct(u) /\ Reads(u))'
    BY <1>16 DEF ReadLeft, LockDiscipline, Holds, Distinct, Reads, Tree, turn_left
  <2>4. \A u \in Thread : (Pointers(u) \subseteq live)'
    BY <1>16 DEF ReadLeft, Pointers, Links, Reads
  <2>5. Links'
    BY <1>16 DEF ReadLeft, Links, Pointers, turn_left, Leaf, LockDiscipline, Holds
  <2> QED
    BY <2>1, <2>2, <2>3, <2>4, <2>5
<1>17. CASE AcquireLeft(t)
  <2>1. TypeOK'
    BY <1>17 DEF AcquireLeft, Reads, ChildFor, Tree, Calls, Leaf, turn_left, Links
  <2>2. LockDiscipline'
    BY <1>17 DEF AcquireLeft, LockDiscipline, Holds, Distinct, Reads
  <2>3. \A u \in Thread : (Locals(u) /\ Distinct(u) /\ Reads(u))'
    BY <1>17 DEF AcquireLeft, LockDiscipline, Holds, Distinct, Reads, Tree, turn_left
  <2>4. \A u \in Thread : (Pointers(u) \subseteq live)'
    BY <1>17 DEF AcquireLeft, Pointers, Links, ChildFor, turn_left
  <2>5. Links'
    BY <1>17 DEF AcquireLeft, Links, Pointers, turn_left, Leaf, LockDiscipline, Holds
  <2> QED
    BY <2>1, <2>2, <2>3, <2>4, <2>5
<1>18. CASE Splice(t)
  <2> DEFINE a == tgt[t]
             b == tgq[t]
             c == tgl[t]
  <2>a. /\ a \in Node /\ b \in Node /\ c \in Node
        /\ a # b /\ a # c /\ b # c
        /\ heap[a] \in Tree /\ heap[b] = NULL
        /\ heap[a].right = b /\ heap[a].left = c
    BY <1>18 DEF Splice, Reads, Distinct
  <2>b. /\ owner[a] = t /\ owner[b] = t /\ owner[c] = t
        /\ a \in live /\ b \in live /\ c \in live
        /\ b # root /\ c # root
    BY <1>18, <2>a DEF Splice, LockDiscipline, Holds, Pointers, Links
  <2>c. /\ heap' \in [Node -> Tree \cup {NULL}]
        /\ heap'[a] = heap[c] /\ heap'[b] = NULL /\ heap'[c] = NULL
        /\ \A n \in Node \ {a, b, c} : heap'[n] = heap[n]
    BY <1>18, <2>a DEF Splice
  <2>d. /\ pc[t] = "splice" /\ pc' = [pc EXCEPT ![t] = "return"]
        /\ live' = live \ {b, c}
        /\ owner' = [owner EXCEPT ![b] = NULL, ![c] = NULL]
        /\ tgq' = [tgq EXCEPT ![t] = NULL]
        /\ tgl' = [tgl EXCEPT ![t] = NULL]
        /\ UNCHANGED <<exited, call, left, tgt, old, ret>>
    BY <1>18 DEF Splice
  <2> HIDE DEF a, b, c
  <2>1. TypeOK'
    BY <2>a, <2>c, <2>d
  <2>2. LockDiscipline'
    BY <2>a, <2>b, <2>d DEF LockDiscipline, Holds, a, b, c
  <2>3. \A u \in Thread : (Locals(u) /\ Distinct(u) /\ Reads(u))'
    <3>1. ASSUME NEW u \in Thread, u # t PROVE Reads(u)'
      <4>1. \A n \in Node : n \in Holds(u) => heap'[n] = heap[n]
        BY <2>b, <2>c, <3>1 DEF LockDiscipline
      <4> QED
        BY <2>d, <3>1, <4>1 DEF Reads, Holds
    <3>2. Reads(t)'
      BY <2>d DEF Reads
    <3> QED
      BY <2>d, <3>1, <3>2 DEF Distinct
  <2>4. \A u \in Thread : (Pointers(u) \subseteq live)'
    <3>1. ASSUME NEW u \in Thread, u # t PROVE b \notin Pointers(u) /\ c \notin Pointers(u)
      BY <1>18, <3>1, SpliceAlone DEF b, c
    <3>2. ASSUME NEW u \in Thread, u # t PROVE (Pointers(u) \subseteq live)'
      BY <2>d, <3>1, <3>2 DEF Pointers
    <3>3. (Pointers(t) \subseteq live)'
      BY <2>a, <2>b, <2>d DEF Pointers, a, b, c
    <3> QED
      BY <3>2, <3>3
  <2>5. Links'
    <3>a. \A n \in Node : heap[n] # NULL /\ n # a =>
             heap[n].left \notin {b, c} /\ heap[n].right \notin {b, c}
      BY <2>a DEF Links
    <3>b. ASSUME heap[c] # NULL
          PROVE  \A n \in Node : heap[n] # NULL /\ n # c =>
             /\ heap[c].left # heap[n].left /\ heap[c].left # heap[n].right
             /\ heap[c].right # heap[n].left /\ heap[c].right # heap[n].right
      BY <2>a, <3>b DEF Links
    <3>1. ASSUME NEW n \in Node, heap'[n] # NULL
          PROVE  /\ heap'[n].left \in live' /\ heap'[n].left # root
                 /\ heap'[n].right \in live' /\ heap'[n].right # root
                 /\ heap'[n].left # heap'[n].right
      <4>1. CASE n = a
        BY <2>a, <2>c, <2>d, <3>a, <3>1, <4>1 DEF Links
      <4>2. CASE n # a
        BY <2>c, <2>d, <3>a, <3>1, <4>2 DEF Links
      <4> QED
        BY <4>1, <4>2
    <3>2. \A m, n \in Node : m # n /\ heap'[m] # NULL /\ heap'[n] # NULL =>
            /\ heap'[m].left # heap'[n].left /\ heap'[m].left # heap'[n].right
            /\ heap'[m].right # heap'[n].left /\ heap'[m].right # heap'[n].right
      BY <2>a, <2>c, <3>b DEF Links
    <3> QED
      BY <2>a, <2>b, <2>c, <2>d, <3>1, <3>2 DEF Links
  <2> QED
    BY <2>1, <2>2, <2>3, <2>4, <2>5
<1> QED
  BY <1>1, <1>2, <1>3, <1>4, <1>5, <1>6, <1>7, <1>8, <1>9, <1>10, <1>11, <1>12, <1>13, <1>14, <1>15, <1>16, <1>17, <1>18 DEF Step
LEMMA InvokeIInv ==
  ASSUME IInv, NEW t \in Thread, NEW c \in Calls, Invoke(t, c) PROVE IInv'
<1> USE DEF IInv, TypeOK, Locals, Goto, PC, Invoke
<1>1. TypeOK'
  BY CallsAssumption
<1>2. LockDiscipline'
  BY DEF LockDiscipline, Holds
<1>3. \A u \in Thread : (Locals(u) /\ Distinct(u) /\ Reads(u))'
  BY DEF Distinct, Reads
<1>4. \A u \in Thread : (Pointers(u) \subseteq live)'
  BY DEF Pointers, Links
<1>5. Links'
  BY DEF Links
<1> QED
  BY <1>1, <1>2, <1>3, <1>4, <1>5

LEMMA NextIInv == IInv /\ [Next]_vars => IInv'
<1> SUFFICES ASSUME IInv, [Next]_vars PROVE IInv'
  OBVIOUS
<1>1. CASE \E t \in Thread : (\E c \in Calls : Invoke(t, c)) \/ Step(t)
  BY <1>1, InvokeIInv, StepIInv
<1>2. CASE UNCHANGED vars
  BY <1>2 DEF vars, IInv, TypeOK, LockDiscipline, Holds, Locals, Distinct, Reads,
    Pointers, Links
<1> QED
  BY <1>1, <1>2 DEF Next, Terminated

LEMMA Inductive == Spec => []IInv
  BY InitIInv, NextIInv, PTL DEF Spec

-----------------------------------------------------------------------------
\* Every variable keeps its type.
THEOREM TypeCorrect == Spec => []TypeOK
<1>1. IInv => TypeOK
  BY DEF IInv
<1> QED
  BY <1>1, Inductive, PTL

\* No lock is released that its thread does not hold, and none is left locked.
THEOREM LocksHeld == Spec => []LockDiscipline
<1>1. IInv => LockDiscipline
  BY DEF IInv
<1> QED
  BY <1>1, Inductive, PTL

\* What delete() frees no other thread points to or waits for.
THEOREM MemorySafe == Spec => []NoUseAfterFree
<1>1. IInv => NoUseAfterFree
  BY DEF IInv, NoUseAfterFree, Links, TypeOK
<1> QED
  BY <1>1, Inductive, PTL

\* While a thread waits for a child's lock the child stays where it was.
THEOREM ChildrenStable == Spec => []ChildStable
<1>1. IInv => ChildStable
  BY DEF IInv, ChildStable, Reads
<1> QED
  BY <1>1, Inductive, PTL

\* A step of t changes or frees only nodes that t holds.
LEMMA StepWrites ==
  ASSUME IInv, NEW t \in Thread, Step(t), NEW n \in live,
         heap'[n] # heap[n] \/ n \notin live'
  PROVE  /\ owner[n] = t
         /\ pc'[t] # pc[t]
         /\ n \notin live' => \A u \in Thread \ {t} : n \notin Pointers(u)
<1> USE DEF IInv, TypeOK, Locals, Goto, LockDiscipline, Holds
<1>1. CASE InsertLeaf(t)
  BY <1>1 DEF InsertLeaf
<1>2. CASE Update(t)
  BY <1>2 DEF Update
<1>3. CASE Rotate(t)
  BY <1>3 DEF Rotate, turn_left
<1>4. CASE Splice(t)
  <2>1. owner[n] = t /\ pc'[t] # pc[t]
    BY <1>4 DEF Splice
  <2>2. n \notin live' => n \in {tgq[t], tgl[t]}
    BY <1>4 DEF Splice
  <2> QED
    BY <1>4, <2>1, <2>2, SpliceAlone
<1>5. CASE UNCHANGED <<heap, live>>
  BY <1>5
<1> QED
  BY <1>1, <1>2, <1>3, <1>4, <1>5 DEF Step, AcquireRoot, Descend, AcquireNext, ReleaseOld,
    Return, MallocFails, LookupHit, LookupMiss, DeleteAbsent, DeleteFound, AcquireRight,
    ReleaseLp, ReadLeft, AcquireLeft

\* Only the holder of its lock changes or frees a tree_t.
THEOREM WritesUnderLock == Spec => WriteUnderLock
<1> DEFINE W == \A n \in live :
                  heap'[n] # heap[n] \/ n \notin live' =>
                    \E t \in Thread :
                      /\ owner[n] = t
                      /\ pc'[t] # pc[t]
                      /\ n \notin live' => \A u \in Thread \ {t} : n \notin Pointers(u)
<1>1. IInv /\ [Next]_vars => [W]_vars
  <2> SUFFICES ASSUME IInv, Next PROVE W \/ UNCHANGED <<heap, live>>
    BY DEF vars
  <2>1. CASE \E t \in Thread : Step(t)
    BY <2>1, StepWrites
  <2>2. CASE \E t \in Thread : \E c \in Calls : Invoke(t, c)
    BY <2>2 DEF Invoke
  <2> QED
    BY <2>1, <2>2 DEF Next, Terminated, vars
<1> QED
  BY <1>1, Inductive, PTL DEF Spec, WriteUnderLock

-----------------------------------------------------------------------------
\* No proper subset of the allocated nodes holds the root and is closed.
Connected == \A S \in SUBSET live : root \in S /\ Closed(S) => S = live

\* insert() hangs two fresh leaves under a node that was a leaf.
LEMMA InsertConnected ==
  ASSUME IInv, Connected, NEW t \in Thread, InsertLeaf(t) PROVE Connected'
<1> DEFINE a == tgt[t]
<1>1. /\ a \in live /\ a \in Node /\ heap[a] = NULL /\ heap \in [Node -> Tree \cup {NULL}]
  BY DEF InsertLeaf, Goto, AtEmpty, IInv, Locals, Pointers, TypeOK
<1>2. PICK p1, p2 \in Node \ live :
        /\ live' = live \cup {p1, p2}
        /\ heap' = [heap EXCEPT ![p1] = NULL, ![p2] = NULL, ![a] = Leaf(call[t], p1, p2)]
  BY DEF InsertLeaf
<1> HIDE DEF a
<1>3. heap'[a] = Leaf(call[t], p1, p2)
  BY <1>1, <1>2
<1>4. heap'[a] # NULL /\ heap'[a].left = p1 /\ heap'[a].right = p2
  <2>1. call[t] \in Calls
    BY DEF InsertLeaf, Goto, IInv, Locals
  <2>2. heap' [a] \in Tree
    BY <1>2, <1>3, <2>1 DEF InsertLeaf, AtEmpty, Leaf, Calls, Tree
  <2> QED
    BY <1>3, <2>2 DEF Leaf
<1>5. \A n \in live : n # a => heap'[n] = heap[n]
  BY <1>1, <1>2 DEF IInv, TypeOK
<1>6. ASSUME NEW S \in SUBSET live', root \in S, Closed(S)' PROVE S = live'
  <2>1. Closed(S \cap live)
    BY <1>1, <1>5, <1>6 DEF Closed, IInv, Links, TypeOK
  <2>2. S \cap live = live
    BY <1>6, <2>1 DEF Connected, IInv, Links
  <2>3. p1 \in S /\ p2 \in S
    BY <1>1, <1>4, <1>6, <2>2 DEF Closed
  <2> QED
    BY <1>2, <1>6, <2>2, <2>3
<1> QED
  BY <1>6 DEF Connected

\* turn_left keeps every node under the one it held before.
LEMMA RotateConnected ==
  ASSUME IInv, Connected, NEW t \in Thread, Rotate(t) PROVE Connected'
<1> DEFINE a == tgt[t]
           b == tgq[t]
<1>1. /\ a \in live /\ b \in live /\ a # b
      /\ heap \in [Node -> Tree \cup {NULL}] /\ live \subseteq Node
      /\ heap[a] \in Tree /\ heap[b] \in Tree
      /\ heap[a].right = b
  BY DEF Rotate, Goto, Reads, Distinct, IInv, Locals, Pointers, TypeOK
<1>2. heap' = turn_left(heap, a, b) /\ live' = live
  BY DEF Rotate
<1> HIDE DEF a, b
<1>3. /\ heap'[a] = [heap[b] EXCEPT !.left = b]
      /\ heap'[b] = [heap[a] EXCEPT !.right = heap[b].left]
      /\ \A n \in Node \ {a, b} : heap'[n] = heap[n]
  BY <1>1, <1>2 DEF turn_left
<1>4. /\ heap'[a] \in Tree /\ heap'[b] \in Tree
      /\ heap'[a].left = b /\ heap'[a].right = heap[b].right
      /\ heap'[b].left = heap[a].left /\ heap'[b].right = heap[b].left
  BY <1>1, <1>3 DEF Tree
<1>5. b # root /\ \A n \in live : heap[n] # NULL /\ n # a =>
        heap[n].left # b /\ heap[n].right # b
  BY <1>1 DEF IInv, Links
<1>6. ASSUME NEW S \in SUBSET live, root \in S, Closed(S)' PROVE S = live
  <2>1. CASE a \in S
    <3>1. b \in S /\ {heap[a].left, heap[b].left, heap[b].right} \subseteq S
      BY <1>4, <1>6, <2>1 DEF Closed
    <3>2. Closed(S)
      BY <1>1, <1>3, <1>6, <3>1 DEF Closed
    <3> QED
      BY <1>6, <3>2 DEF Connected
  <2>2. CASE a \notin S
    <3>1. Closed(S \ {b})
      BY <1>1, <1>3, <1>5, <1>6, <2>2 DEF Closed
    <3>2. S \ {b} = live
      BY <1>5, <1>6, <3>1 DEF Connected
    <3> QED
      BY <1>1, <2>2, <3>2
  <2> QED
    BY <2>1, <2>2
<1> QED
  BY <1>2, <1>6 DEF Connected

\* The splice hangs the grandchildren under the node that it empties.
LEMMA SpliceConnected ==
  ASSUME IInv, Connected, NEW t \in Thread, Splice(t) PROVE Connected'
<1> DEFINE a == tgt[t]
           b == tgq[t]
           c == tgl[t]
<1>1. /\ a \in live /\ b \in live /\ c \in live
      /\ heap \in [Node -> Tree \cup {NULL}] /\ live \subseteq Node
      /\ a # b /\ a # c /\ b # c
      /\ heap[a] \in Tree /\ heap[b] = NULL
      /\ heap[a].right = b /\ heap[a].left = c
  BY DEF Splice, Goto, Reads, Distinct, IInv, Locals, Pointers, TypeOK
<1>2. /\ heap' = [heap EXCEPT ![a] = heap[c], ![c] = NULL]
      /\ live' = live \ {b, c}
  BY DEF Splice
<1> HIDE DEF a, b, c
<1>3. /\ heap'[a] = heap[c]
      /\ \A n \in Node \ {a, c} : heap'[n] = heap[n]
  BY <1>1, <1>2
<1>4. ASSUME NEW S \in SUBSET live', root \in S, Closed(S)' PROVE S = live'
  <2>1. CASE a \in S
    <3>1. Closed(S \cup {b, c})
      BY <1>1, <1>2, <1>3, <1>4, <2>1 DEF Closed
    <3>2. S \cup {b, c} = live
      BY <1>1, <1>2, <1>4, <3>1 DEF Connected
    <3> QED
      BY <1>2, <1>4, <3>2
  <2>2. CASE a \notin S
    <3>1. Closed(S)
      BY <1>1, <1>2, <1>3, <1>4, <2>2 DEF Closed
    <3>2. S = live
      BY <1>2, <1>4, <3>1 DEF Connected
    <3> QED
      BY <1>1, <2>2, <3>2
  <2> QED
    BY <2>1, <2>2
<1> QED
  BY <1>4 DEF Connected

LEMMA NextConnected == IInv /\ Connected /\ [Next]_vars => Connected'
<1> SUFFICES ASSUME IInv, Connected, [Next]_vars PROVE Connected'
  OBVIOUS
<1>1. ASSUME NEW t \in Thread, Step(t) PROVE Connected'
  <2>1. CASE InsertLeaf(t)
    BY <2>1, InsertConnected
  <2>2. CASE Rotate(t)
    BY <2>2, RotateConnected
  <2>3. CASE Splice(t)
    BY <2>3, SpliceConnected
  <2>4. CASE Update(t)
    <3>1. live' = live /\ live \subseteq Node
      BY <2>4 DEF Update, IInv, TypeOK
    <3>2. \A n \in live : /\ heap'[n] = NULL <=> heap[n] = NULL
                          /\ heap[n] # NULL => /\ heap'[n].left = heap[n].left
                                               /\ heap'[n].right = heap[n].right
      <4>1. tgt[t] \in Node /\ heap[tgt[t]] \in Tree /\ call[t].val \in Value
        BY <2>4 DEF Update, Goto, AtKey, IInv, Locals, TypeOK, Calls
      <4>2. heap' = [heap EXCEPT ![tgt[t]].value = call[t].val]
        BY <2>4 DEF Update
      <4>3. heap'[tgt[t]] \in Tree
        BY <4>1, <4>2 DEF IInv, TypeOK, Tree
      <4> QED
        BY <3>1, <4>1, <4>2, <4>3 DEF IInv, TypeOK, Tree
    <3> QED
      BY <3>1, <3>2 DEF Connected, Closed
  <2>5. CASE UNCHANGED <<heap, live>>
    BY <2>5 DEF Connected, Closed
  <2> QED
    BY <1>1, <2>1, <2>2, <2>3, <2>4, <2>5 DEF Step, AcquireRoot, Descend, AcquireNext,
      ReleaseOld, Return, MallocFails, LookupHit, LookupMiss, DeleteAbsent, DeleteFound,
      AcquireRight, ReleaseLp, ReadLeft, AcquireLeft
<1>2. ASSUME NEW t \in Thread, NEW c \in Calls, Invoke(t, c) PROVE Connected'
  BY <1>2 DEF Invoke, Connected, Closed
<1>3. CASE UNCHANGED vars
  BY <1>3 DEF vars, Connected, Closed
<1> QED
  BY <1>1, <1>2, <1>3 DEF Next, Terminated

\* Every allocated tree_t can be reached from the root by one path only: the
\* links are a tree, whatever rotations and splices the threads interleave.
THEOREM NothingLeaks == Spec => []NoLostSubtree
<1>1. Init => Connected
  BY DEF Init, Connected
<1>2. IInv /\ Connected => NoLostSubtree
  BY DEF IInv, Links, TypeOK, Connected, Closed, NoLostSubtree
<1> QED
  BY <1>1, <1>2, Inductive, NextConnected, PTL DEF Spec

-----------------------------------------------------------------------------
(* Linearizability.                                                        *)

\* lo[n] and hi[n] enclose the keys that a search brings to n.
Bounded(lo, hi) ==
  /\ lo \in [Node -> Int] /\ hi \in [Node -> Int]
  /\ lo[root] = INT_MIN - 1 /\ hi[root] = INT_MAX + 1
  /\ \A n \in live : lo[n] < hi[n]
  /\ \A n \in live : heap[n] # NULL =>
       /\ lo[n] < heap[n].key /\ heap[n].key < hi[n]
       /\ lo[heap[n].left] = lo[n] /\ hi[heap[n].left] = heap[n].key
       /\ lo[heap[n].right] = heap[n].key /\ hi[heap[n].right] = hi[n]

\* An empty tree_t stands for its range, another for its key: no two for the same.
Disjoint(lo, hi) ==
  \A m, n \in live : m # n =>
    /\ heap[m] = NULL /\ heap[n] = NULL => hi[m] <= lo[n] \/ hi[n] <= lo[m]
    /\ heap[m] = NULL /\ heap[n] # NULL =>
         heap[n].key <= lo[m] \/ hi[m] <= heap[n].key
    /\ heap[m] # NULL /\ heap[n] # NULL => heap[m].key # heap[n].key

\* A thread is at a tree_t whose range has the key of its call.
InRange(lo, hi) ==
  \A t \in Thread : pc[t] # "idle" =>
    lo[tgt[t]] < call[t].key /\ call[t].key < hi[tgt[t]]

RangesOK(lo, hi) == Bounded(lo, hi) /\ Disjoint(lo, hi) /\ InRange(lo, hi)

Ranges == \E lo, hi : RangesOK(lo, hi)

\* pushdown_left() carries the record that delete() has found.
Doomed ==
  \A t \in Thread : pc[t] \in {"right", "push", "unlock_lp", "left", "splice"} =>
    call[t].fn = "delete" /\ heap[tgt[t]].key = call[t].key

LinInv == IInv /\ Ranges /\ Doomed

USE KeyAssumption, NullAssumption, NodeAssumption

LEMMA KeyInt == \A x \in Key : x \in Int /\ INT_MIN <= x /\ x <= INT_MAX
  OBVIOUS

LEMMA KeysInt ==
  /\ \A p \in Tree : p.key \in Key /\ p.key \in Int
  /\ \A c \in Calls : c.key \in Key /\ c.key \in Int
<1>1. \A p \in Tree : p.key \in Key
  BY DEF Tree
<1>2. \A c \in Calls : c.key \in Key
  BY DEF Calls
<1> QED
  BY <1>1, <1>2, KeyInt

LEMMA InitLin == Init => Ranges /\ Doomed
<1> SUFFICES ASSUME Init PROVE Ranges /\ Doomed
  OBVIOUS
<1> DEFINE lo == [n \in Node |-> INT_MIN - 1]
           hi == [n \in Node |-> INT_MAX + 1]
<1>1. RangesOK(lo, hi)
  <2>1. Bounded(lo, hi)
    BY DEF Init, Bounded
  <2>2. Disjoint(lo, hi) /\ InRange(lo, hi)
    BY DEF Init, Disjoint, InRange
  <2> QED
    BY <2>1, <2>2 DEF RangesOK
<1>2. Ranges
  <2> HIDE DEF lo, hi
  <2> QED
    BY <1>1 DEF Ranges
<1> QED
  BY <1>2 DEF Init, Doomed

\* A step of t leaves the other threads where they are.
LEMMA OthersStay ==
  ASSUME IInv, NEW t \in Thread, Step(t), NEW u \in Thread, u # t
  PROVE  pc'[u] = pc[u] /\ call'[u] = call[u] /\ tgt'[u] = tgt[u]
<1> USE DEF IInv, TypeOK, Goto, locals
<1>1. CASE Return(t)
  BY <1>1 DEF Return
<1>2. CASE Descend(t)
  BY <1>2 DEF Descend
<1>3. CASE Rotate(t)
  BY <1>3 DEF Rotate
<1> QED
  BY <1>1, <1>2, <1>3 DEF Step, AcquireRoot, AcquireNext, ReleaseOld, InsertLeaf,
    MallocFails, Update, LookupHit, LookupMiss, DeleteAbsent, DeleteFound, AcquireRight,
    ReleaseLp, ReadLeft, AcquireLeft, Splice

LEMMA StepDoomed == ASSUME LinInv, NEW t \in Thread, Step(t) PROVE Doomed'
<1> USE DEF LinInv, IInv, TypeOK, Locals, Goto, Doomed
<1>1. ASSUME NEW u \in Thread, u # t,
             pc[u] \in {"right", "push", "unlock_lp", "left", "splice"}
      PROVE  heap'[tgt[u]] = heap[tgt[u]]
  <2>1. tgt[u] \in live /\ owner[tgt[u]] = u /\ owner[tgt[u]] # t
    BY <1>1 DEF Pointers, LockDiscipline, Holds
  <2> QED
    BY <2>1, StepWrites
<1>2. pc'[t] \in {"right", "push", "unlock_lp", "left", "splice"} =>
         call'[t].fn = "delete" /\ heap'[tgt'[t]].key = call'[t].key
  <2>1. CASE Rotate(t)
    <3>1. /\ heap' = turn_left(heap, tgt[t], tgq[t])
          /\ tgt[t] \in Node /\ tgq[t] \in Node /\ tgt[t] # tgq[t]
          /\ heap[tgt[t]] \in Tree /\ heap[tgq[t]] \in Tree
      BY <2>1 DEF Rotate, Distinct, Reads
    <3>2. heap'[tgt[t]].left = tgq[t] /\ heap'[tgq[t]].key = heap[tgt[t]].key
      BY <3>1 DEF turn_left, Tree
    <3> QED
      BY <2>1, <3>1, <3>2 DEF Rotate
  <2>2. CASE ~Rotate(t)
    BY <2>2 DEF Step, AcquireRoot, Descend, AcquireNext, ReleaseOld,
      Return, InsertLeaf, MallocFails, Update, LookupHit, LookupMiss, DeleteAbsent,
      DeleteFound, AcquireRight, ReleaseLp, ReadLeft, AcquireLeft, Splice, locals, AtKey
  <2> QED
    BY <2>1, <2>2
<1> QED
  BY <1>1, <1>2, OthersStay

\* A step that leaves the heap alone keeps the ranges; only a descent moves a
\* thread, to the child whose range has its key.
LEMMA QuietRanges ==
  ASSUME LinInv, NEW t \in Thread, Step(t), ~Rotate(t), UNCHANGED <<heap, live>>
  PROVE  Ranges'
<1> USE DEF LinInv, IInv, TypeOK, Locals, Goto
<1>1. PICK lo, hi : RangesOK(lo, hi)
  BY DEF Ranges
<1>2. Bounded(lo, hi)' /\ Disjoint(lo, hi)'
  BY <1>1 DEF RangesOK, Bounded, Disjoint
<1>3. InRange(lo, hi)'
  <2>1. ASSUME pc'[t] # "idle"
        PROVE  lo[tgt'[t]] < call'[t].key /\ call'[t].key < hi[tgt'[t]]
    <3>1. CASE Descend(t)
      <4> DEFINE n == tgt[t]
      <4>1. /\ n \in live /\ heap[n] \in Tree /\ call[t].key \in Int
            /\ call' = call /\ heap[n].key # call[t].key
            /\ tgt'[t] = ChildFor(heap[n], call[t].key)
        BY <3>1, KeysInt DEF Descend, Pointers
      <4>2. lo[n] < call[t].key /\ call[t].key < hi[n]
        BY <1>1, <3>1 DEF RangesOK, InRange, Descend
      <4>3. heap[n].key \in Int
        BY <4>1, KeysInt
      <4>4. /\ lo[heap[n].left] = lo[n] /\ hi[heap[n].left] = heap[n].key
            /\ lo[heap[n].right] = heap[n].key /\ hi[heap[n].right] = hi[n]
        BY <1>1, <4>1, NullAssumption DEF RangesOK, Bounded
      <4> HIDE DEF n
      <4>5. CASE call[t].key < heap[n].key
        BY <4>1, <4>2, <4>4, <4>5 DEF ChildFor
      <4>6. CASE ~(call[t].key < heap[n].key)
        <5>1. heap[n].key < call[t].key
          BY <4>1, <4>3, <4>6
        <5> QED
          BY <4>1, <4>2, <4>4, <4>6, <5>1 DEF ChildFor
      <4> QED
        BY <4>5, <4>6
    <3>2. CASE ~Descend(t) /\ ~Return(t)
      <4>1. tgt'[t] = tgt[t] /\ call'[t] = call[t] /\ pc[t] # "idle"
        BY <3>2 DEF Step, AcquireRoot, AcquireNext, ReleaseOld, InsertLeaf,
          MallocFails, Update, LookupHit, LookupMiss, DeleteAbsent, DeleteFound,
          AcquireRight, ReleaseLp, ReadLeft, AcquireLeft, Splice, locals
      <4> QED
        BY <1>1, <4>1 DEF RangesOK, InRange
    <3>3. CASE Return(t)
      BY <2>1, <3>3 DEF Return
    <3> QED
      BY <3>1, <3>2, <3>3
  <2> QED
    BY <1>1, <2>1, OthersStay DEF RangesOK, InRange
<1> QED
  BY <1>2, <1>3 DEF RangesOK, Ranges

\* A new value does not concern the ranges.
LEMMA UpdateRanges ==
  ASSUME LinInv, NEW t \in Thread, Update(t) PROVE Ranges'
<1> USE DEF LinInv, IInv, TypeOK, Locals, Goto
<1>1. PICK lo, hi : RangesOK(lo, hi)
  BY DEF Ranges
<1>2. \A n \in Node :
        /\ heap'[n] = NULL <=> heap[n] = NULL
        /\ heap'[n] # NULL => /\ heap'[n].key = heap[n].key
                              /\ heap'[n].left = heap[n].left
                              /\ heap'[n].right = heap[n].right
  <2>1. tgt[t] \in Node /\ heap[tgt[t]] \in Tree /\ call[t].val \in Value
    BY DEF Update, AtKey, Calls
  <2>2. heap'[tgt[t]] = [heap[tgt[t]] EXCEPT !.value = call[t].val]
    BY <2>1 DEF Update
  <2>3. heap'[tgt[t]] \in Tree
    BY <2>1, <2>2 DEF Tree
  <2>4. \A n \in Node \ {tgt[t]} : heap'[n] = heap[n]
    BY <2>1 DEF Update
  <2> QED
    BY <2>1, <2>2, <2>3, <2>4 DEF Tree
<1>3. live' = live
  BY DEF Update
<1>a. Bounded(lo, hi)'
  BY <1>1, <1>2, <1>3 DEF RangesOK, Bounded
<1>b. Disjoint(lo, hi)'
  BY <1>1, <1>2, <1>3 DEF RangesOK, Disjoint
<1>4. InRange(lo, hi)'
  BY <1>1 DEF RangesOK, InRange, Update, locals
<1> QED
  BY <1>a, <1>b, <1>4 DEF RangesOK, Ranges

\* A new leaf splits the range of the empty tree_t at its key.
LEMMA InsertRanges ==
  ASSUME LinInv, NEW t \in Thread, InsertLeaf(t) PROVE Ranges'
<1> USE DEF LinInv, IInv, TypeOK, Locals, Goto
<1>1. PICK lo, hi : RangesOK(lo, hi)
  BY DEF Ranges
<1> DEFINE a == tgt[t]
           x == call[t].key
<1>2. PICK p1 \in Node \ live, p2 \in Node \ live :
        /\ p1 # p2
        /\ live' = live \cup {p1, p2}
        /\ heap' = [heap EXCEPT ![p1] = NULL, ![p2] = NULL, ![a] = Leaf(call[t], p1, p2)]
  BY DEF InsertLeaf
<1>3. /\ a \in Node /\ a \in live /\ heap[a] = NULL /\ x \in Int
      /\ lo[a] < x /\ x < hi[a]
      /\ UNCHANGED <<call, tgt>>
      /\ \A u \in Thread : pc'[u] # "idle" => pc[u] # "idle"
  BY <1>1, KeysInt DEF InsertLeaf, Pointers, AtEmpty, RangesOK, InRange, locals
<1>4. /\ heap'[a] # NULL /\ heap'[a].key = x
      /\ heap'[a].left = p1 /\ heap'[a].right = p2
      /\ heap'[p1] = NULL /\ heap'[p2] = NULL
      /\ \A n \in live \ {a} : heap'[n] = heap[n]
  <2>1. Leaf(call[t], p1, p2) \in Tree
    BY DEF InsertLeaf, AtEmpty, Leaf, Calls, Tree
  <2> QED
    BY <1>2, <1>3, <2>1 DEF Leaf
<1>5. root \in live /\ p1 # root /\ p2 # root
  BY DEF Links
<1>6. \A n \in live : heap[n] # NULL =>
        heap[n].left \in live /\ heap[n].right \in live /\ heap[n].key \in Int
  BY KeysInt DEF Links
<1> HIDE DEF a, x
<1>7. PICK lo1 \in [Node -> Int], hi1 \in [Node -> Int] :
        /\ lo1[p1] = lo[a] /\ hi1[p1] = x /\ lo1[p2] = x /\ hi1[p2] = hi[a]
        /\ \A n \in live : lo1[n] = lo[n] /\ hi1[n] = hi[n]
  <2>1. lo \in [Node -> Int] /\ hi \in [Node -> Int]
    BY <1>1 DEF RangesOK, Bounded
  <2> HIDE DEF LinInv, IInv, TypeOK
  <2>2. a \in Node /\ x \in Int /\ lo[a] \in Int /\ hi[a] \in Int
    BY <1>3, <2>1
  <2> DEFINE lo1 == [lo EXCEPT ![p1] = lo[a], ![p2] = x]
             hi1 == [hi EXCEPT ![p1] = x, ![p2] = hi[a]]
  <2>3. lo1 \in [Node -> Int] /\ hi1 \in [Node -> Int]
    BY <2>1, <2>2
  <2>4. lo1[p1] = lo[a] /\ hi1[p1] = x /\ lo1[p2] = x /\ hi1[p2] = hi[a]
    BY <1>2, <2>1, <2>2
  <2>5. \A n \in live : n \in Node /\ n # p1 /\ n # p2
    BY <1>2 DEF LinInv, IInv, TypeOK
  <2>6. \A n \in live : lo1[n] = lo[n] /\ hi1[n] = hi[n]
    BY <2>1, <2>2, <2>5
  <2> HIDE DEF lo1, hi1
  <2> QED
    BY <2>3, <2>4, <2>6
<1>8. Bounded(lo1, hi1)'
  <2>1. \A n \in live' : n \in live \/ n = p1 \/ n = p2
    BY <1>2
  <2>2. lo1[root] = INT_MIN - 1 /\ hi1[root] = INT_MAX + 1
    BY <1>1, <1>5, <1>7 DEF RangesOK, Bounded
  <2>3. \A n \in live' : lo1[n] < hi1[n]
    BY <1>1, <1>3, <1>7, <2>1 DEF RangesOK, Bounded
  <2>4. ASSUME NEW n \in live', heap'[n] # NULL
        PROVE  /\ lo1[n] < heap'[n].key /\ heap'[n].key < hi1[n]
               /\ lo1[heap'[n].left] = lo1[n] /\ hi1[heap'[n].left] = heap'[n].key
               /\ lo1[heap'[n].right] = heap'[n].key /\ hi1[heap'[n].right] = hi1[n]
    <3>1. CASE n = a
      BY <1>3, <1>4, <1>7, <3>1
    <3>2. CASE n # a
      <4>1. n \in live /\ heap'[n] = heap[n]
        BY <1>4, <2>1, <2>4, <3>2
      <4> QED
        BY <1>1, <1>6, <1>7, <2>4, <4>1 DEF RangesOK, Bounded
    <3> QED
      BY <3>1, <3>2
  <2> QED
    BY <1>7, <2>2, <2>3, <2>4 DEF Bounded
<1>9. Disjoint(lo1, hi1)'
  <2>1. ASSUME NEW m \in live, NEW n \in {p1, p2}
        PROVE  /\ heap'[m] = NULL => hi1[m] <= lo1[n] \/ hi1[n] <= lo1[m]
               /\ heap'[m] # NULL => heap'[m].key <= lo1[n] \/ hi1[n] <= heap'[m].key
    <3>1. CASE m = a
      BY <1>3, <1>4, <1>7, <2>1, <3>1
    <3>2. CASE m # a
      BY <1>1, <1>3, <1>4, <1>6, <1>7, <2>1, <3>2 DEF RangesOK, Disjoint
    <3> QED
      BY <3>1, <3>2
  <2>2. hi1[p1] <= lo1[p2]
    BY <1>3, <1>7
  <2>3. ASSUME NEW m \in live, NEW n \in live, m # n
        PROVE  /\ heap'[m] = NULL /\ heap'[n] = NULL => hi1[m] <= lo1[n] \/ hi1[n] <= lo1[m]
               /\ heap'[m] = NULL /\ heap'[n] # NULL =>
                    heap'[n].key <= lo1[m] \/ hi1[m] <= heap'[n].key
               /\ heap'[m] # NULL /\ heap'[n] # NULL => heap'[m].key # heap'[n].key
    BY <1>1, <1>3, <1>4, <1>6, <1>7, <2>3 DEF RangesOK, Disjoint
  <2> QED
    <3>1. \A n \in live' : n \in live \/ n = p1 \/ n = p2
      BY <1>2
    <3> QED
      BY <1>4, <2>1, <2>2, <2>3, <3>1 DEF Disjoint
<1>10. InRange(lo1, hi1)'
  <2>1. \A u \in Thread : pc[u] # "idle" => tgt[u] \in live
    BY DEF Pointers
  <2> QED
    BY <1>1, <1>3, <1>7, <2>1 DEF RangesOK, InRange
<1> QED
  BY <1>8, <1>9, <1>10 DEF RangesOK, Ranges

\* A rotation exchanges the keys of a and b, and only b changes its range: its
\* lower half goes under a, up to the key that moved to a.
LEMMA RotateRanges ==
  ASSUME LinInv, NEW t \in Thread, Rotate(t) PROVE Ranges'
<1> USE DEF LinInv, IInv, TypeOK, Locals, Goto
<1>1. PICK lo, hi : RangesOK(lo, hi)
  BY DEF Ranges
<1> DEFINE a == tgt[t]
           b == tgq[t]
<1>2. PICK p \in Tree, q \in Tree : p = heap[a] /\ q = heap[b]
  BY DEF Rotate, Reads
<1>3. /\ a \in live /\ b \in live /\ a # b /\ b # root
      /\ heap[a] = p /\ heap[b] = q /\ p.right = b
      /\ p.key \in Int /\ q.key \in Int
      /\ live' = live
  BY <1>2, KeysInt DEF Rotate, Reads, Distinct, Pointers, Links
<1>4. /\ heap'[a] # NULL /\ heap'[b] # NULL
      /\ heap'[a].key = q.key /\ heap'[a].left = b /\ heap'[a].right = q.right
      /\ heap'[b].key = p.key /\ heap'[b].left = p.left /\ heap'[b].right = q.left
      /\ \A n \in live \ {a, b} : heap'[n] = heap[n]
  <2>1. /\ heap'[a] = [q EXCEPT !.left = b]
        /\ heap'[b] = [p EXCEPT !.right = q.left]
        /\ \A n \in live \ {a, b} : heap'[n] = heap[n]
    BY <1>2, <1>3 DEF Rotate, turn_left
  <2> QED
    BY <1>3, <2>1 DEF Tree
<1>5. \A n \in live : heap[n] # NULL =>
        /\ heap[n].left \in live /\ heap[n].right \in live /\ heap[n].key \in Int
        /\ n # a => heap[n].left # b /\ heap[n].right # b
  BY <1>2, <1>3, KeysInt DEF Links
<1>6. p.left # b
  BY <1>3 DEF Links
<1>7. \A u \in Thread \ {t} : tgt[u] # b
  <2>1. /\ \A u \in Thread \ {t} : a \notin Holds(u) /\ b \notin Holds(u)
    BY <1>3 DEF Rotate, LockDiscipline, Holds
  <2> QED
    BY <1>3, <1>5, <2>1 DEF Holds, Reads, ChildFor, PC, Pointers
<1>8. lo[a] < p.key /\ p.key < q.key /\ q.key < hi[a]
  BY <1>1, <1>2, <1>3 DEF RangesOK, Bounded
<1>9. /\ tgt'[t] = b /\ call' = call /\ call[t].key = p.key
      /\ \A u \in Thread \ {t} : tgt'[u] = tgt[u] /\ pc'[u] = pc[u]
  BY <1>2, <1>4 DEF Rotate, Doomed
<1> HIDE DEF a, b
<1>10. PICK lo1 \in [Node -> Int], hi1 \in [Node -> Int] :
        /\ lo1[b] = lo[a] /\ hi1[b] = q.key
        /\ \A n \in live \ {b} : lo1[n] = lo[n] /\ hi1[n] = hi[n]
  <2>1. lo \in [Node -> Int] /\ hi \in [Node -> Int]
    BY <1>1 DEF RangesOK, Bounded
  <2> /\ [lo EXCEPT ![b] = lo[a]] \in [Node -> Int]
      /\ [hi EXCEPT ![b] = q.key] \in [Node -> Int]
    BY <1>3, <2>1
  <2> WITNESS [lo EXCEPT ![b] = lo[a]] \in [Node -> Int],
              [hi EXCEPT ![b] = q.key] \in [Node -> Int]
  <2> QED
    BY <1>3, <2>1
<1>11. Bounded(lo1, hi1)'
  <2>1. lo1[root] = INT_MIN - 1 /\ hi1[root] = INT_MAX + 1
    BY <1>1, <1>3, <1>10 DEF RangesOK, Bounded, Links
  <2>2. \A n \in live : lo1[n] < hi1[n]
    BY <1>1, <1>3, <1>8, <1>10 DEF RangesOK, Bounded
  <2>3. ASSUME NEW n \in live, heap'[n] # NULL
        PROVE  /\ lo1[n] < heap'[n].key /\ heap'[n].key < hi1[n]
               /\ lo1[heap'[n].left] = lo1[n] /\ hi1[heap'[n].left] = heap'[n].key
               /\ lo1[heap'[n].right] = heap'[n].key /\ hi1[heap'[n].right] = hi1[n]
    <3>1. CASE n = a
      BY <1>1, <1>3, <1>4, <1>5, <1>8, <1>10, <3>1 DEF RangesOK, Bounded
    <3>2. CASE n = b
      BY <1>1, <1>3, <1>4, <1>5, <1>6, <1>8, <1>10, <3>2 DEF RangesOK, Bounded
    <3>3. CASE n # a /\ n # b
      BY <1>1, <1>4, <1>5, <1>10, <2>3, <3>3 DEF RangesOK, Bounded
    <3> QED
      BY <3>1, <3>2, <3>3
  <2> QED
    BY <1>3, <2>1, <2>2, <2>3 DEF Bounded
<1>12. Disjoint(lo1, hi1)'
  BY <1>1, <1>3, <1>4, <1>10 DEF RangesOK, Disjoint
<1>13. InRange(lo1, hi1)'
  <2>1. \A u \in Thread : pc[u] # "idle" => tgt[u] \in live
    BY DEF Pointers
  <2> QED
    BY <1>1, <1>3, <1>7, <1>8, <1>9, <1>10, <2>1 DEF RangesOK, InRange
<1> QED
  BY <1>11, <1>12, <1>13 DEF RangesOK, Ranges

\* A splice puts the record of c in place of the doomed one.  The nodes whose
\* range ended at the doomed key (c and its rightmost descendants) take over
\* that key and the range of b.
LEMMA SpliceRanges ==
  ASSUME LinInv, NEW t \in Thread, Splice(t) PROVE Ranges'
<1> USE DEF LinInv, IInv, TypeOK, Locals, Goto
<1>1. PICK lo, hi : RangesOK(lo, hi)
  BY DEF Ranges
<1> DEFINE a == tgt[t]
           b == tgq[t]
           c == tgl[t]
<1>2. PICK p \in Tree : p = heap[a]
  BY DEF Splice, Reads
<1>3. /\ a \in live /\ b \in live /\ c \in live
      /\ a # b /\ a # c /\ b # c /\ b # root /\ c # root
      /\ heap[a] = p /\ heap[b] = NULL /\ p.right = b /\ p.left = c
      /\ p.key \in Int
  BY <1>2, KeysInt DEF Splice, Reads, Distinct, Pointers, Links
<1>4. /\ live' = live \ {b, c}
      /\ heap'[a] = heap[c]
      /\ \A n \in live \ {a, b, c} : heap'[n] = heap[n]
  BY <1>3 DEF Splice
<1>5. \A n \in live : heap[n] # NULL =>
        /\ heap[n].left \in live /\ heap[n].right \in live /\ heap[n].key \in Int
        /\ heap[n].left # root /\ heap[n].right # root
        /\ n # a => heap[n].left \notin {b, c} /\ heap[n].right \notin {b, c}
  BY <1>2, <1>3, KeysInt DEF Links
<1>6. \A u \in Thread \ {t} : tgt[u] # b /\ tgt[u] # c
  BY <1>3, SpliceAlone DEF Pointers
<1>7. /\ tgt' = tgt /\ call' = call
      /\ \A u \in Thread : pc'[u] # "idle" => pc[u] # "idle"
      /\ \A u \in Thread : pc[u] # "idle" => call[u].key \in Int /\ tgt[u] \in live
  BY KeysInt DEF Splice, Pointers
<1> HIDE DEF a, b, c
<1>8. /\ lo \in [Node -> Int] /\ hi \in [Node -> Int]
      /\ lo[a] < p.key /\ p.key < hi[a]
      /\ lo[c] = lo[a] /\ hi[c] = p.key
      /\ lo[b] = p.key /\ hi[b] = hi[a]
  BY <1>1, <1>2, <1>3 DEF RangesOK, Bounded
<1>9. PICK hi1 \in [Node -> Int] :
        \A n \in Node : hi1[n] = IF hi[n] = p.key THEN hi[a] ELSE hi[n]
  <2> [n \in Node |-> IF hi[n] = p.key THEN hi[a] ELSE hi[n]] \in [Node -> Int]
    BY <1>3, <1>8
  <2> WITNESS [n \in Node |-> IF hi[n] = p.key THEN hi[a] ELSE hi[n]] \in [Node -> Int]
  <2> QED
    OBVIOUS
<1>10. Bounded(lo, hi1)'
  <2>1. lo[root] = INT_MIN - 1 /\ hi1[root] = INT_MAX + 1
    <3>1. p.key # INT_MAX + 1
      BY KeysInt, KeyInt
    <3> QED
      BY <1>1, <1>9, <3>1 DEF RangesOK, Bounded
  <2>2. \A n \in live : lo[n] < hi1[n]
    BY <1>1, <1>3, <1>8, <1>9 DEF RangesOK, Bounded
  <2>3. ASSUME NEW n \in live', heap'[n] # NULL
        PROVE  /\ lo[n] < heap'[n].key /\ heap'[n].key < hi1[n]
               /\ lo[heap'[n].left] = lo[n] /\ hi1[heap'[n].left] = heap'[n].key
               /\ lo[heap'[n].right] = heap'[n].key /\ hi1[heap'[n].right] = hi1[n]
    <3>1. CASE n = a
      <4>1. /\ heap[c] # NULL /\ heap'[n] = heap[c]
            /\ lo[c] < heap[c].key /\ heap[c].key < hi[c]
            /\ lo[heap[c].left] = lo[c] /\ hi[heap[c].left] = heap[c].key
            /\ lo[heap[c].right] = heap[c].key /\ hi[heap[c].right] = hi[c]
        BY <1>1, <1>3, <1>4, <2>3, <3>1 DEF RangesOK, Bounded
      <4>2. hi1[heap[c].left] = heap[c].key /\ hi1[heap[c].right] = hi[a] /\ hi1[a] = hi[a]
        BY <1>3, <1>5, <1>8, <1>9, <4>1
      <4> QED
        BY <1>3, <1>5, <1>8, <3>1, <4>1, <4>2
    <3>2. CASE n # a
      <4>1. /\ n \in live /\ heap'[n] = heap[n] /\ heap[n] # NULL
            /\ heap[n].key # p.key
        BY <1>1, <1>2, <1>3, <1>4, <2>3, <3>2 DEF RangesOK, Disjoint
      <4>2. /\ lo[n] < heap[n].key /\ heap[n].key < hi[n]
            /\ lo[heap[n].left] = lo[n] /\ hi[heap[n].left] = heap[n].key
            /\ lo[heap[n].right] = heap[n].key /\ hi[heap[n].right] = hi[n]
        BY <1>1, <4>1 DEF RangesOK, Bounded
      <4> QED
        BY <1>3, <1>5, <1>8, <1>9, <4>1, <4>2
    <3> QED
      BY <3>1, <3>2
  <2> QED
    BY <1>4, <1>8, <1>9, <2>1, <2>2, <2>3 DEF Bounded
<1>11. Disjoint(lo, hi1)'
  <2>1. ASSUME NEW m \in live \ {b, c}, NEW n \in live \ {b, c}, m # n
        PROVE  /\ heap'[m] = NULL /\ heap'[n] = NULL => hi1[m] <= lo[n] \/ hi1[n] <= lo[m]
               /\ heap'[m] = NULL /\ heap'[n] # NULL =>
                    heap'[n].key <= lo[m] \/ hi1[m] <= heap'[n].key
               /\ heap'[m] # NULL /\ heap'[n] # NULL => heap'[m].key # heap'[n].key
    <3>1. ASSUME NEW i \in live \ {a, b}, NEW j \in live \ {a, b}, i # j
          PROVE  /\ heap[i] = NULL /\ heap[j] = NULL => hi1[i] <= lo[j] \/ hi1[j] <= lo[i]
                 /\ heap[i] = NULL /\ heap[j] # NULL =>
                      heap[j].key <= lo[i] \/ hi1[i] <= heap[j].key
                 /\ heap[i] # NULL /\ heap[j] # NULL => heap[i].key # heap[j].key
      <4>1. lo[i] \in Int /\ hi[i] \in Int /\ lo[j] \in Int /\ hi[j] \in Int
        BY <1>8
      <4>2. lo[i] < hi[i] /\ lo[j] < hi[j]
        BY <1>1 DEF RangesOK, Bounded
      <4>3. CASE heap[i] = NULL /\ heap[j] = NULL
        <5>1. hi[i] <= lo[j] \/ hi[j] <= lo[i]
          BY <1>1, <3>1, <4>3 DEF RangesOK, Disjoint
        <5>2. hi[i] <= p.key \/ hi[a] <= lo[i]
          BY <1>1, <1>3, <1>8, <3>1, <4>3 DEF RangesOK, Disjoint
        <5>3. hi[j] <= p.key \/ hi[a] <= lo[j]
          BY <1>1, <1>3, <1>8, <3>1, <4>3 DEF RangesOK, Disjoint
        <5> QED
          BY <1>3, <1>8, <1>9, <4>1, <4>2, <4>3, <5>1, <5>2, <5>3
      <4>4. CASE heap[i] = NULL /\ heap[j] # NULL
        <5>1. heap[j].key <= lo[i] \/ hi[i] <= heap[j].key
          BY <1>1, <3>1, <4>4 DEF RangesOK, Disjoint
        <5>2. heap[j].key # p.key /\ (heap[j].key <= p.key \/ hi[a] <= heap[j].key)
          BY <1>1, <1>2, <1>3, <1>8, <3>1, <4>4 DEF RangesOK, Disjoint
        <5>3. heap[j].key \in Int /\ p.key \in Int /\ hi[a] \in Int
          BY <1>3, <1>5, <1>8, <4>4
        <5>4. hi1[i] = IF hi[i] = p.key THEN hi[a] ELSE hi[i]
          BY <1>9
        <5>5. heap[j].key <= lo[i] \/ hi1[i] <= heap[j].key
          <6> DEFINE k == heap[j].key
          <6> HIDE DEF k
          <6> QED
            BY <4>1, <4>2, <5>1, <5>2, <5>3, <5>4 DEF k
        <5> QED
          BY <4>4, <5>5
      <4>5. heap[i] # NULL /\ heap[j] # NULL => heap[i].key # heap[j].key
        BY <1>1, <3>1 DEF RangesOK, Disjoint
      <4> QED
        BY <4>3, <4>4, <4>5
    <3> DEFINE Was(n1) == IF n1 = a THEN c ELSE n1
    <3>2. ASSUME NEW i \in live \ {b, c}
          PROVE  /\ Was(i) \in live \ {a, b}
                 /\ heap'[i] = heap[Was(i)] /\ lo[i] = lo[Was(i)] /\ hi1[i] = hi1[Was(i)]
      BY <1>3, <1>4, <1>8, <1>9
    <3>3. Was(m) # Was(n)
      BY <1>3, <2>1
    <3> HIDE DEF Was
    <3>4. /\ heap[Was(m)] = NULL /\ heap[Was(n)] = NULL =>
               hi1[Was(m)] <= lo[Was(n)] \/ hi1[Was(n)] <= lo[Was(m)]
          /\ heap[Was(m)] = NULL /\ heap[Was(n)] # NULL =>
               heap[Was(n)].key <= lo[Was(m)] \/ hi1[Was(m)] <= heap[Was(n)].key
          /\ heap[Was(m)] # NULL /\ heap[Was(n)] # NULL => heap[Was(m)].key # heap[Was(n)].key
      BY <3>1, <3>2, <3>3
    <3> QED
      BY <3>2, <3>4
  <2> QED
    BY <1>4, <2>1 DEF Disjoint
<1>12. InRange(lo, hi1)'
  BY <1>1, <1>3, <1>7, <1>8, <1>9 DEF RangesOK, InRange
<1> QED
  BY <1>10, <1>11, <1>12 DEF RangesOK, Ranges

LEMMA StepLin == ASSUME LinInv, NEW t \in Thread, Step(t) PROVE LinInv'
<1>1. IInv'
  BY StepIInv DEF LinInv
<1>2. Doomed'
  BY StepDoomed
<1>3. Ranges'
  <2>1. CASE Update(t) \/ InsertLeaf(t) \/ Rotate(t) \/ Splice(t)
    BY <2>1, UpdateRanges, InsertRanges, RotateRanges, SpliceRanges
  <2>2. CASE ~(Update(t) \/ InsertLeaf(t) \/ Rotate(t) \/ Splice(t))
    <3>1. UNCHANGED <<heap, live>>
      BY <2>2 DEF Step, AcquireRoot, Descend, AcquireNext, ReleaseOld, Return, MallocFails,
        LookupHit, LookupMiss, DeleteAbsent, DeleteFound, AcquireRight, ReleaseLp, ReadLeft,
        AcquireLeft
    <3> QED
      BY <2>2, <3>1, QuietRanges
  <2> QED
    BY <2>1, <2>2
<1> QED
  BY <1>1, <1>2, <1>3 DEF LinInv

LEMMA InvokeLin ==
  ASSUME LinInv, NEW t \in Thread, NEW c \in Calls, Invoke(t, c) PROVE LinInv'
<1>1. IInv'
  BY InvokeIInv DEF LinInv
<1>2. Doomed'
  BY DEF LinInv, IInv, TypeOK, Doomed, Invoke, Goto
<1>3. Ranges'
  <2>1. PICK lo, hi : RangesOK(lo, hi)
    BY DEF LinInv, Ranges
  <2>2. lo[root] < c.key /\ c.key < hi[root]
    BY <2>1, KeysInt, KeyInt DEF RangesOK, Bounded
  <2>3. RangesOK(lo, hi)'
    BY <2>1, <2>2 DEF RangesOK, Bounded, Disjoint, InRange, LinInv, IInv, TypeOK, Invoke, Goto
  <2> QED
    BY <2>3 DEF Ranges
<1> QED
  BY <1>1, <1>2, <1>3 DEF LinInv

LEMMA NextLin == LinInv /\ [Next]_vars => LinInv'
<1> SUFFICES ASSUME LinInv, [Next]_vars PROVE LinInv'
  OBVIOUS
<1>1. CASE \E t \in Thread : (\E c \in Calls : Invoke(t, c)) \/ Step(t)
  BY <1>1, StepLin, InvokeLin
<1>2. CASE UNCHANGED vars
  <2>1. IInv'
    BY <1>2, NextIInv DEF LinInv
  <2>2. Ranges' /\ Doomed'
    BY <1>2 DEF LinInv, Ranges, RangesOK, Bounded, Disjoint, InRange, Doomed, vars
  <2> QED
    BY <2>1, <2>2 DEF LinInv
<1> QED
  BY <1>1, <1>2 DEF Next, Terminated

\* Whatever the threads do meanwhile, the tree stays a search tree: the ranges of its
\* empty places and its keys are disjoint, every thread is where a search for its key
\* leads, and a delete holds the record of its key until it has spliced it out.
THEOREM StaysSearchTree == Spec => []LinInv
<1>1. Init => LinInv
  BY InitIInv, InitLin DEF LinInv
<1> QED
  BY <1>1, NextLin, PTL DEF Spec

-----------------------------------------------------------------------------
(* The refinement.                                                         *)

\* Some record of the tree holds value v for key k.
Holder(k, v) ==
  \E n \in live : heap[n] # NULL /\ heap[n].key = k /\ heap[n].value = v

LEMMA HolderContents ==
  LinInv => /\ Contents \in [Key -> Value \cup {NULL}]
            /\ \A k \in Key, v \in Value : Holder(k, v) <=> Contents[k] = v
<1> SUFFICES ASSUME LinInv
             PROVE  \A k \in Key :
                      /\ Contents[k] \in Value \cup {NULL}
                      /\ \A v \in Value : Holder(k, v) <=> Contents[k] = v
  BY DEF Contents
<1> SUFFICES ASSUME NEW k \in Key
             PROVE  /\ Contents[k] \in Value \cup {NULL}
                    /\ \A v \in Value : Holder(k, v) <=> Contents[k] = v
  OBVIOUS
<1> DEFINE at == {n \in live : heap[n] # NULL /\ heap[n].key = k}
           n0 == CHOOSE n \in at : TRUE
<1>1. Contents[k] = IF at = {} THEN NULL ELSE heap[n0].value
  BY DEF Contents
<1>2. \A m, n \in at : m = n
  BY DEF LinInv, Ranges, RangesOK, Disjoint
<1>3. \A n \in at : heap[n].value \in Value
  BY DEF LinInv, IInv, TypeOK, Tree
<1>4. CASE at = {}
  BY <1>1, <1>4 DEF Holder
<1>5. CASE at # {}
  <2>1. n0 \in at
    BY <1>5
  <2>2. \A v \in Value : Holder(k, v) <=> \E n \in at : heap[n].value = v
    BY DEF Holder
  <2> HIDE DEF n0, at
  <2> QED
    BY <1>1, <1>2, <1>3, <1>5, <2>1, <2>2
<1> QED
  BY <1>4, <1>5

\* The map of a tree is the only one with the tree's records.
LEMMA ContentsUnique ==
  LinInv => \A M \in [Key -> Value \cup {NULL}] :
              (\A k \in Key, v \in Value : Holder(k, v) <=> M[k] = v) => Contents = M
<1> SUFFICES ASSUME LinInv, NEW M \in [Key -> Value \cup {NULL}],
                    \A k \in Key, v \in Value : Holder(k, v) <=> M[k] = v
             PROVE  Contents = M
  OBVIOUS
<1>1. /\ Contents \in [Key -> Value \cup {NULL}]
      /\ \A k \in Key, v \in Value : Contents[k] = v <=> M[k] = v
  BY HolderContents
<1>2. \A k \in Key : Contents[k] = M[k]
  BY <1>1
<1>3. Contents = [k \in Key |-> Contents[k]] /\ M = [k \in Key |-> M[k]]
  BY <1>1
<1> QED
  BY <1>2, <1>3

\* An empty tree_t at the end of a search means that the key is nowhere.
LEMMA Absent ==
  ASSUME LinInv, NEW t \in Thread, pc[t] = "loop", heap[tgt[t]] = NULL
  PROVE  /\ \A v \in Value : ~Holder(call[t].key, v)
         /\ Contents[call[t].key] = NULL
<1>1. PICK lo, hi : RangesOK(lo, hi)
  BY DEF LinInv, Ranges
<1>2. tgt[t] \in live /\ call[t].key \in Int
  BY KeysInt DEF LinInv, IInv, Locals, Pointers
<1>3. lo[tgt[t]] < call[t].key /\ call[t].key < hi[tgt[t]]
  BY <1>1 DEF RangesOK, InRange
<1>4. \A n \in live : heap[n] # NULL =>
        /\ heap[n].key \in Int
        /\ heap[n].key <= lo[tgt[t]] \/ hi[tgt[t]] <= heap[n].key
  BY <1>1, <1>2, KeysInt DEF RangesOK, Disjoint, LinInv, IInv, TypeOK
<1>5. lo[tgt[t]] \in Int /\ hi[tgt[t]] \in Int
  BY <1>1, <1>2 DEF RangesOK, Bounded, LinInv, IInv, TypeOK
<1>6. \A v \in Value : ~Holder(call[t].key, v)
  BY <1>2, <1>3, <1>4, <1>5 DEF Holder
<1>7. call[t].key \in Key
  BY KeysInt DEF LinInv, IInv, Locals
<1>8. Contents[call[t].key] \in Value \cup {NULL}
  BY <1>7, HolderContents
<1>9. \A v \in Value : Contents[call[t].key] # v
  BY <1>6, <1>7, HolderContents
<1> QED
  BY <1>6, <1>8, <1>9

LEMMA NextContents ==
  LinInv' => (\A M \in [Key -> Value \cup {NULL}] :
                (\A k \in Key, v \in Value : Holder(k, v) <=> M[k] = v) => Contents = M)'
  BY ContentsUnique, PTL

PhaseOf(p) == IF p = "idle" THEN "idle" ELSE IF p = "return" THEN "done" ELSE "called"

LEMMA PhaseStep ==
  ASSUME pc \in [Thread -> PC], NEW t \in Thread, NEW to \in PC,
         pc' = [pc EXCEPT ![t] = to]
  PROVE  /\ Phase[t] = PhaseOf(pc[t])
         /\ Phase' = [Phase EXCEPT ![t] = PhaseOf(to)]
         /\ PhaseOf(pc[t]) = PhaseOf(to) => Phase' = Phase
<1>1. Phase = [u \in Thread |-> PhaseOf(pc[u])]
  BY DEF Phase, PhaseOf
<1>2. Phase' = [u \in Thread |-> PhaseOf(pc'[u])]
  BY DEF Phase, PhaseOf
<1> QED
  BY <1>1, <1>2

LEMMA InitRefines == Init => Map!Init
<1> SUFFICES ASSUME Init PROVE Map!Init
  OBVIOUS
<1>1. Contents = [k \in Key |-> NULL]
  BY DEF Init, Contents
<1>2. Phase = [t \in Thread |-> "idle"]
  BY DEF Init, Phase
<1> QED
  BY <1>1, <1>2 DEF Init, Map!Init

LEMMA InvokeRefines ==
  ASSUME LinInv, NEW t \in Thread, NEW c \in Calls, Invoke(t, c) PROVE Map!Invoke(t)
<1> USE DEF LinInv, IInv, TypeOK, Invoke, Goto, Locals
<1>1. Phase[t] = "idle" /\ Phase' = [Phase EXCEPT ![t] = "called"]
  BY PhaseStep DEF PhaseOf, PC
<1>2. Contents' = Contents
  BY DEF Contents
<1> QED
  BY <1>1, <1>2 DEF Map!Invoke, Map!Calls, Calls

\* The steps between the linearization points change nothing of the map.
LEMMA QuietRefines ==
  ASSUME LinInv, NEW t \in Thread,
         \/ AcquireRoot(t) \/ Descend(t) \/ AcquireNext(t) \/ ReleaseOld(t)
         \/ MallocFails(t) \/ DeleteFound(t) \/ AcquireRight(t) \/ ReleaseLp(t)
         \/ ReadLeft(t) \/ AcquireLeft(t)
  PROVE  UNCHANGED Map!vars
<1> USE DEF LinInv, IInv, TypeOK, Goto
<1>1. UNCHANGED <<heap, live, call, ret>>
  BY DEF AcquireRoot, Descend, AcquireNext, ReleaseOld, MallocFails, DeleteFound,
    AcquireRight, ReleaseLp, ReadLeft, AcquireLeft
<1>2. Phase' = Phase
  <2>1. CASE MallocFails(t)
    BY <2>1 DEF MallocFails, Phase
  <2>2. CASE ~MallocFails(t)
    <3>1. PICK to \in PC \ {"idle", "return"} :
            pc' = [pc EXCEPT ![t] = to] /\ pc[t] \notin {"idle", "return"}
      BY <2>2 DEF AcquireRoot, Descend, AcquireNext, ReleaseOld, DeleteFound,
        AcquireRight, ReleaseLp, ReadLeft, AcquireLeft, PC
    <3> QED
      BY <3>1, PhaseStep DEF PhaseOf
  <2> QED
    BY <2>1, <2>2
<1>3. Contents' = Contents
  BY <1>1 DEF Contents
<1> QED
  BY <1>1, <1>2, <1>3 DEF Map!vars

\* A rotation moves two records and keeps the map.
LEMMA RotateRefines ==
  ASSUME LinInv, LinInv', NEW t \in Thread, Rotate(t) PROVE UNCHANGED Map!vars
<1> USE DEF LinInv, IInv, TypeOK, Goto, Locals
<1> DEFINE a == tgt[t]
           b == tgq[t]
<1>1. PICK p \in Tree, q \in Tree :
        /\ p = heap[a] /\ q = heap[b]
        /\ a \in live /\ b \in live /\ a # b
        /\ heap'[a] = [q EXCEPT !.left = b]
        /\ heap'[b] = [p EXCEPT !.right = q.left]
        /\ \A n \in live \ {a, b} : heap'[n] = heap[n]
        /\ UNCHANGED <<live, call, ret>>
  <2>1. PICK p \in Tree, q \in Tree : p = heap[a] /\ q = heap[b]
    BY DEF Rotate, Reads
  <2>2. /\ a \in live /\ b \in live /\ a # b
        /\ UNCHANGED <<live, call, ret>>
    BY DEF Rotate, Distinct, Pointers
  <2>3. /\ heap'[a] = [q EXCEPT !.left = b]
        /\ heap'[b] = [p EXCEPT !.right = q.left]
        /\ \A n \in live \ {a, b} : heap'[n] = heap[n]
    BY <2>1, <2>2 DEF Rotate, turn_left
  <2> QED
    BY <2>1, <2>2, <2>3
<1> HIDE DEF a, b
<1>2. /\ heap'[a].key = q.key /\ heap'[a].value = q.value /\ heap'[a] # NULL
      /\ heap'[b].key = p.key /\ heap'[b].value = p.value /\ heap'[b] # NULL
  <2>a. a \in Node /\ b \in Node
    BY <1>1
  <2> HIDE DEF LinInv, IInv, TypeOK
  <2>1. heap'[a] = [q EXCEPT !.left = b] /\ heap'[b] = [p EXCEPT !.right = q.left]
    BY <1>1
  <2>2. /\ heap'[a].key = q.key /\ heap'[a].value = q.value
        /\ heap'[b].key = p.key /\ heap'[b].value = p.value
    BY <2>1 DEF Tree
  <2>3. heap'[a] \in Tree /\ heap'[b] \in Tree
    BY <2>1, <2>a DEF Tree
  <2> QED
    BY <2>2, <2>3, NullAssumption
<1>3. ASSUME NEW k \in Key, NEW v \in Value PROVE Holder(k, v)' <=> Contents[k] = v
  <2>1. Holder(k, v)' <=> Holder(k, v)
    <3> DEFINE Swap(n) == IF n = a THEN b ELSE IF n = b THEN a ELSE n
    <3>1. \A n \in live :
            /\ Swap(n) \in live /\ Swap(Swap(n)) = n
            /\ heap'[n] = NULL <=> heap[Swap(n)] = NULL
            /\ heap'[n] # NULL => /\ heap'[n].key = heap[Swap(n)].key
                                  /\ heap'[n].value = heap[Swap(n)].value
      <4> HIDE DEF LinInv, IInv, TypeOK
      <4> QED
        BY <1>1, <1>2
    <3> HIDE DEF Swap, LinInv, IInv, TypeOK
    <3>2. ASSUME Holder(k, v)' PROVE Holder(k, v)
      BY <1>1, <3>1, <3>2 DEF Holder
    <3>3. ASSUME Holder(k, v) PROVE Holder(k, v)'
      BY <1>1, <3>1, <3>3 DEF Holder
    <3> QED
      BY <3>2, <3>3
  <2> QED
    BY <2>1, HolderContents
<1>4. Contents' = Contents
  BY <1>3, HolderContents, NextContents
<1>5. Phase' = Phase
  BY PhaseStep DEF Rotate, PhaseOf, PC
<1> QED
  BY <1>1, <1>4, <1>5 DEF Map!vars

\* An insert takes effect when it links the new record...
LEMMA InsertRefines ==
  ASSUME LinInv, LinInv', NEW t \in Thread, InsertLeaf(t) PROVE Map!Apply(t)
<1> USE DEF LinInv, IInv, TypeOK, Goto, Locals
<1> DEFINE a == tgt[t]
           x == call[t].key
           w == call[t].val
<1>1. PICK p1 \in Node \ live, p2 \in Node \ live :
        /\ p1 # p2
        /\ live' = live \cup {p1, p2}
        /\ heap' = [heap EXCEPT ![p1] = NULL, ![p2] = NULL, ![a] = Leaf(call[t], p1, p2)]
  BY DEF InsertLeaf
<1>2. /\ a \in Node /\ a \in live /\ heap[a] = NULL
      /\ call[t].fn = "insert" /\ x \in Key /\ w \in Value
      /\ pc[t] = "loop" /\ pc' = [pc EXCEPT ![t] = "return"]
      /\ UNCHANGED <<call, ret>>
  BY DEF InsertLeaf, Pointers, AtEmpty, Calls
<1>3. /\ heap'[a] # NULL /\ heap'[a].key = x /\ heap'[a].value = w
      /\ heap'[p1] = NULL /\ heap'[p2] = NULL
      /\ \A n \in live \ {a} : heap'[n] = heap[n]
  <2>1. Leaf(call[t], p1, p2) \in Tree
    BY <1>2 DEF Leaf, Tree
  <2> QED
    BY <1>1, <1>2, <2>1 DEF Leaf
<1>4. \A v \in Value : ~Holder(x, v)
  BY <1>2, Absent
<1> HIDE DEF a, x, w
<1>5. ASSUME NEW k \in Key, NEW v \in Value
      PROVE  Holder(k, v)' <=> [Contents EXCEPT ![x] = w][k] = v
  <2>1. CASE k = x
    <3>1. Holder(k, v)' <=> v = w
      BY <1>1, <1>2, <1>3, <1>4, <2>1 DEF Holder, Tree
    <3> QED
      BY <1>2, <2>1, <3>1, HolderContents
  <2>2. CASE k # x
    <3>1. Holder(k, v)' <=> Holder(k, v)
      BY <1>1, <1>2, <1>3, <2>2 DEF Holder
    <3> QED
      BY <1>2, <2>2, <3>1, HolderContents
  <2> QED
    BY <2>1, <2>2
<1>6. [Contents EXCEPT ![x] = w] \in [Key -> Value \cup {NULL}]
  BY <1>2, HolderContents
<1>7. Contents' = [Contents EXCEPT ![x] = w]
  BY <1>5, <1>6, NextContents
<1>8. Phase[t] = "called" /\ Phase' = [Phase EXCEPT ![t] = "done"]
  BY <1>2, PhaseStep DEF PhaseOf, PC
<1> QED
  BY <1>2, <1>7, <1>8 DEF Map!Apply, Map!Insert, x, w

\* ... or overwrites the value of the key.
LEMMA UpdateRefines ==
  ASSUME LinInv, LinInv', NEW t \in Thread, Update(t) PROVE Map!Apply(t)
<1> USE DEF LinInv, IInv, TypeOK, Goto, Locals
<1> DEFINE a == tgt[t]
           x == call[t].key
           w == call[t].val
<1>1. PICK p \in Tree :
        /\ heap[a] = p /\ p.key = x
        /\ heap' = [heap EXCEPT ![a].value = w]
        /\ a \in Node /\ a \in live
        /\ call[t].fn = "insert" /\ x \in Key /\ w \in Value
        /\ pc[t] = "loop" /\ pc' = [pc EXCEPT ![t] = "return"]
        /\ UNCHANGED <<live, call, ret>>
  BY DEF Update, Pointers, AtKey, Calls
<1>2. /\ heap'[a] # NULL /\ heap'[a].key = x /\ heap'[a].value = w
      /\ \A n \in live \ {a} : heap'[n] = heap[n]
  <2>1. heap'[a] = [p EXCEPT !.value = w] /\ heap'[a] \in Tree
    BY <1>1 DEF Tree
  <2> QED
    BY <1>1, <2>1 DEF Tree
<1>3. \A n \in live \ {a} : heap[n] # NULL => heap[n].key # x
  BY <1>1 DEF Ranges, RangesOK, Disjoint
<1> HIDE DEF a, x, w
<1>5. ASSUME NEW k \in Key, NEW v \in Value
      PROVE  Holder(k, v)' <=> [Contents EXCEPT ![x] = w][k] = v
  <2>1. CASE k = x
    <3>1. Holder(k, v)' <=> v = w
      BY <1>1, <1>2, <1>3, <2>1 DEF Holder
    <3> QED
      BY <1>1, <2>1, <3>1, HolderContents
  <2>2. CASE k # x
    <3>1. Holder(k, v)' <=> Holder(k, v)
      BY <1>1, <1>2, <2>2 DEF Holder
    <3> QED
      BY <1>1, <2>2, <3>1, HolderContents
  <2> QED
    BY <2>1, <2>2
<1>6. [Contents EXCEPT ![x] = w] \in [Key -> Value \cup {NULL}]
  BY <1>1, HolderContents
<1>7. Contents' = [Contents EXCEPT ![x] = w]
  BY <1>5, <1>6, NextContents
<1>8. Phase[t] = "called" /\ Phase' = [Phase EXCEPT ![t] = "done"]
  BY <1>1, PhaseStep DEF PhaseOf, PC
<1> QED
  BY <1>1, <1>7, <1>8 DEF Map!Apply, Map!Insert, x, w

\* A lookup takes effect when it reads the value, or finds no record.
LEMMA LookupRefines ==
  ASSUME LinInv, NEW t \in Thread, LookupHit(t) \/ LookupMiss(t) PROVE Map!Apply(t)
<1> USE DEF LinInv, IInv, TypeOK, Goto, Locals
<1>1. /\ pc[t] = "loop" /\ pc' = [pc EXCEPT ![t] = "return"]
      /\ call[t].fn = "lookup" /\ call[t].key \in Key
      /\ UNCHANGED <<heap, live, call>>
  BY DEF LookupHit, LookupMiss, AtKey, AtEmpty, Calls
<1>2. Contents' = Contents
  BY <1>1 DEF Contents
<1>3. ret' = [ret EXCEPT ![t] = Contents[call[t].key]]
  <2>1. CASE LookupHit(t)
    <3>1. /\ tgt[t] \in live /\ heap[tgt[t]] \in Tree /\ heap[tgt[t]].key = call[t].key
          /\ ret' = [ret EXCEPT ![t] = heap[tgt[t]].value]
      BY <2>1 DEF LookupHit, AtKey, Pointers
    <3>2. heap[tgt[t]].value \in Value
      BY <3>1 DEF Tree
    <3>3. Holder(call[t].key, heap[tgt[t]].value)
      BY <3>1 DEF Holder
    <3> QED
      BY <1>1, <3>1, <3>2, <3>3, HolderContents
  <2>2. CASE LookupMiss(t)
    <3>1. Contents[call[t].key] = NULL
      BY <1>1, <2>2, Absent DEF LookupMiss, AtEmpty
    <3> QED
      BY <2>2, <3>1 DEF LookupMiss
  <2> QED
    BY <2>1, <2>2
<1>4. Phase[t] = "called" /\ Phase' = [Phase EXCEPT ![t] = "done"]
  BY <1>1, PhaseStep DEF PhaseOf, PC
<1> QED
  BY <1>1, <1>2, <1>3, <1>4 DEF Map!Apply, Map!Lookup

\* A delete takes effect when it finds no record...
LEMMA AbsentRefines ==
  ASSUME LinInv, NEW t \in Thread, DeleteAbsent(t) PROVE Map!Apply(t)
<1> USE DEF LinInv, IInv, TypeOK, Goto, Locals
<1>1. /\ pc[t] = "loop" /\ pc' = [pc EXCEPT ![t] = "return"]
      /\ heap[tgt[t]] = NULL
      /\ call[t].fn = "delete" /\ call[t].key \in Key
      /\ UNCHANGED <<heap, live, call, ret>>
  BY DEF DeleteAbsent, AtEmpty, Calls
<1>2. Contents' = Contents
  BY <1>1 DEF Contents
<1>3. Contents[call[t].key] = NULL
  BY <1>1, Absent
<1>4. [Contents EXCEPT ![call[t].key] = NULL] = Contents
  BY <1>1, <1>3, HolderContents
<1>5. Phase[t] = "called" /\ Phase' = [Phase EXCEPT ![t] = "done"]
  BY <1>1, PhaseStep DEF PhaseOf, PC
<1> QED
  BY <1>1, <1>2, <1>4, <1>5 DEF Map!Apply, Map!Delete

\* ... or splices the record out.
LEMMA SpliceRefines ==
  ASSUME LinInv, LinInv', NEW t \in Thread, Splice(t) PROVE Map!Apply(t)
<1> USE DEF LinInv, IInv, TypeOK, Goto, Locals
<1> DEFINE a == tgt[t]
           b == tgq[t]
           c == tgl[t]
           x == call[t].key
<1>1. /\ a \in live /\ b \in live /\ c \in live
      /\ a # b /\ a # c /\ b # c
      /\ heap[a] # NULL /\ heap[a].key = x /\ heap[b] = NULL
      /\ call[t].fn = "delete" /\ x \in Key
      /\ pc[t] = "splice" /\ pc' = [pc EXCEPT ![t] = "return"]
      /\ UNCHANGED <<call, ret>>
  BY DEF Splice, Reads, Distinct, Pointers, Doomed, Calls
<1>2. /\ live' = live \ {b, c}
      /\ heap'[a] = heap[c]
      /\ \A n \in live \ {a, b, c} : heap'[n] = heap[n]
  BY <1>1 DEF Splice
<1>3. \A n \in live \ {a} : heap[n] # NULL => heap[n].key # x
  BY <1>1 DEF Ranges, RangesOK, Disjoint
<1> HIDE DEF a, b, c, x
<1>4. ASSUME NEW k \in Key, NEW v \in Value
      PROVE  Holder(k, v)' <=> [Contents EXCEPT ![x] = NULL][k] = v
  <2>1. CASE k = x
    <3>1. ~Holder(k, v)'
      BY <1>1, <1>2, <1>3, <2>1 DEF Holder
    <3> QED
      BY <1>1, <2>1, <3>1, HolderContents
  <2>2. CASE k # x
    <3>1. Holder(k, v)' => Holder(k, v)
      BY <1>1, <1>2, <2>2 DEF Holder
    <3>2. Holder(k, v) => Holder(k, v)'
      <4> SUFFICES ASSUME NEW n \in live, heap[n] # NULL, heap[n].key = k, heap[n].value = v
                   PROVE  Holder(k, v)'
        BY DEF Holder
      <4>1. n # a /\ n # b
        BY <1>1, <2>2
      <4>2. CASE n = c
        BY <1>1, <1>2, <4>2 DEF Holder
      <4>3. CASE n # c
        BY <1>1, <1>2, <4>1, <4>3 DEF Holder
      <4> QED
        BY <4>2, <4>3
    <3> QED
      BY <1>1, <2>2, <3>1, <3>2, HolderContents
  <2> QED
    BY <2>1, <2>2
<1> HIDE DEF LinInv, IInv, TypeOK
<1>5. [Contents EXCEPT ![x] = NULL] \in [Key -> Value \cup {NULL}]
  BY <1>1, HolderContents
<1>6. Contents' = [Contents EXCEPT ![x] = NULL]
  BY <1>4, <1>5, NextContents
<1>7. Phase[t] = "called" /\ Phase' = [Phase EXCEPT ![t] = "done"]
  BY <1>1, PhaseStep DEF PhaseOf, PC, LinInv, IInv, TypeOK
<1> QED
  BY <1>1, <1>6, <1>7 DEF Map!Apply, Map!Delete, x

LEMMA ReturnRefines ==
  ASSUME LinInv, NEW t \in Thread, Return(t) PROVE Map!Return(t)
<1> USE DEF LinInv, IInv, TypeOK, Goto, Return
<1>1. Phase[t] = "done" /\ Phase' = [Phase EXCEPT ![t] = "idle"]
  BY PhaseStep DEF PhaseOf, PC
<1>2. Contents' = Contents
  BY DEF Contents
<1> QED
  BY <1>1, <1>2 DEF Map!Return

\* Each step of the tree is a step of the map or none.
LEMMA NextRefines == LinInv /\ LinInv' /\ [Next]_vars => [Map!Next]_(Map!vars)
<1> SUFFICES ASSUME LinInv, LinInv', [Next]_vars PROVE Map!Next \/ UNCHANGED Map!vars
  OBVIOUS
<1>1. ASSUME NEW t \in Thread, NEW c \in Calls, Invoke(t, c) PROVE Map!Next
  BY <1>1, InvokeRefines DEF Map!Next
<1>2. ASSUME NEW t \in Thread, Step(t) PROVE Map!Next \/ UNCHANGED Map!vars
  <2>1. CASE Return(t)
    BY <2>1, ReturnRefines DEF Map!Next
  <2>2. CASE \/ InsertLeaf(t) \/ Update(t) \/ LookupHit(t) \/ LookupMiss(t)
             \/ DeleteAbsent(t) \/ Splice(t)
    <3>1. Map!Apply(t)
      BY <2>2, InsertRefines, UpdateRefines, LookupRefines, AbsentRefines, SpliceRefines
    <3> QED
      BY <3>1 DEF Map!Next
  <2>3. CASE Rotate(t)
    BY <2>3, RotateRefines
  <2> QED
    BY <1>2, <2>1, <2>2, <2>3, QuietRefines DEF Step
<1>3. CASE UNCHANGED vars
  <2>1. Contents' = Contents /\ Phase' = Phase
    BY <1>3 DEF vars, Contents, Phase
  <2> QED
    BY <1>3, <2>1 DEF vars, Map!vars
<1> QED
  BY <1>1, <1>2, <1>3 DEF Next, Terminated

\* The concurrent tree implements the atomic map.
THEOREM TreeIsLinearizable == Spec => Linearizable
  BY InitRefines, StaysSearchTree, NextRefines, PTL DEF Spec, Linearizable, Map!Spec
=============================================================================
