---------------------------- MODULE BstConcProps ----------------------------
(***************************************************************************)
(* What makes the concurrent tree of concurrency/bst_conc.c correct.       *)
(***************************************************************************)
EXTENDS BstConc

-----------------------------------------------------------------------------
(* Locks and memory.                                                       *)

\* The nodes whose lock thread t holds, according to where it is.
Holds(t) ==
  (IF pc[t] \in {"loop", "unlock_old", "return", "right", "push", "unlock_lp",
                 "left", "splice"} THEN {tgt[t]} ELSE {})
  \cup (IF pc[t] \in {"next", "unlock_old", "unlock_lp"} THEN {old[t]} ELSE {})
  \cup (IF pc[t] \in {"push", "left", "splice"} THEN {tgq[t]} ELSE {})
  \cup (IF pc[t] = "splice" THEN {tgl[t]} ELSE {})

\* The nodes that the locals of t point to, waited for ones included.
Pointers(t) == {tgt[t], old[t], tgq[t], tgl[t]} \ {NULL}

\* Every lock is held by the one thread that counts on it and by no other: no
\* release2 of bst_conc.c unlocks a mutex of another thread or an unlocked one,
\* and no call returns with a lock still held.
LockDiscipline == \A n \in Node, t \in Thread : owner[n] = t <=> n \in Holds(t)

\* No thread points to, holds or waits for a tree_t that has been freed, and no
\* allocated tree_t has a freed child (pushdown_left frees two tree_t and their
\* locks while other threads descend).
NoUseAfterFree ==
  /\ \A t \in Thread : Pointers(t) \subseteq live
  /\ \A n \in live : heap[n] # NULL => {heap[n].left, heap[n].right} \subseteq live

\* A thread that waits for the lock of a child still has the parent locked and
\* the child is still that child: no rotation or splice moved it meanwhile.
ChildStable ==
  \A t \in Thread :
    /\ pc[t] \in {"next", "unlock_old"} =>
         tgt[t] = ChildFor(heap[old[t]], call[t].key)
    /\ pc[t] \in {"right", "push", "left", "splice"} => tgq[t] = heap[tgt[t]].right
    /\ pc[t] \in {"left", "splice"} => tgl[t] = heap[tgt[t]].left

\* A tree_t changes or is freed only by a step of the thread that holds its
\* lock, and when it is freed no other thread has a pointer to it.
WriteUnderLock ==
  [][\A n \in live :
       heap'[n] # heap[n] \/ n \notin live' =>
         \E t \in Thread :
           /\ owner[n] = t
           /\ pc'[t] # pc[t]
           /\ n \notin live' => \A u \in Thread \ {t} : n \notin Pointers(u)]_vars

-----------------------------------------------------------------------------
(* The tree.                                                               *)

\* A set of nodes that holds the children of each of its nodes.
Closed(S) == \A n \in S : heap[n] # NULL => {heap[n].left, heap[n].right} \subseteq S

\* Every allocated tree_t is in the tree: no smaller set holds the root and the
\* children of what it holds (nothing leaks, no subtree is lost by turn_left or
\* by the splice); and each has one parent (no sharing, no cycle).
NoLostSubtree ==
  /\ root \in live /\ Closed(live)
  /\ \A S \in SUBSET live : root \in S /\ Closed(S) => S = live
  /\ \A m, n \in live :
       heap[m] # NULL /\ heap[n] # NULL =>
         /\ heap[m].left # heap[n].right
         /\ m # n => heap[m].left # heap[n].left /\ heap[m].right # heap[n].right

-----------------------------------------------------------------------------
(* The map.                                                                *)

\* The map the tree stands for.
Contents ==
  [k \in Key |->
     LET at == {n \in live : heap[n] # NULL /\ heap[n].key = k}
     IN  IF at = {} THEN NULL ELSE heap[CHOOSE n \in at : TRUE].value]

Phase ==
  [t \in Thread |-> CASE pc[t] = "idle"   -> "idle"
                      [] pc[t] = "return" -> "done"
                      [] OTHER            -> "called"]

Map == INSTANCE AtomicMap WITH map <- Contents, phase <- Phase

\* Each call takes effect at one instant: an insert when it links its record or
\* overwrites the value, a lookup when it reads, a delete when it splices.
\* In between, no rotation changes what the map contains.
Linearizable == Map!Spec

\* Every call returns, unless memory runs out: no deadlock, no endless descent
\* and no endless pushdown.
EveryCallReturns ==
  \A t \in Thread : pc[t] # "idle" ~> pc[t] = "idle" \/ exited
=============================================================================
