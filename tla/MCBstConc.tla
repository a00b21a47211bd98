------------------------------ MODULE MCBstConc ------------------------------
(* An instance of the concurrent tree for TLC.                             *)
EXTENDS BstConcProof, SequencesExt

CONSTANTS InitKeys,   \* keys that the initial trees may hold
          MaxNode

MCNode == 0 .. MaxNode
MCRoot == 0

Symmetry == Permutations(Thread) \cup Permutations(Value)

RECURSIVE Find(_, _, _)
Find(h, n, x) == IF h[n] = NULL THEN n ELSE Find(h, ChildFor(h[n], x), x)

\* The tree after one thread has inserted the keys of ks in turn, nodes
\* numbered in the order of allocation: what main() does before it spawns.
InsertAll(ks, v) ==
  LET Put(h, i) ==
        [h EXCEPT ![Find(h, 0, ks[i])] =
           [key |-> ks[i], value |-> v, left |-> 2*i - 1, right |-> 2*i]]
  IN  FoldLeft(Put, [n \in MCNode |-> NULL], [i \in 1 .. Len(ks) |-> i])

Orders == UNION {SetToSeqs(S) : S \in SUBSET InitKeys}

Setup == {[heap |-> InsertAll(ks, v), live |-> 0 .. 2*Len(ks)] :
            ks \in Orders, v \in {CHOOSE v \in Value : TRUE}}

MCInit ==
  /\ \E s \in Setup : heap = s.heap /\ live = s.live
  /\ owner = [n \in Node |-> NULL]
  /\ exited = FALSE
  /\ pc = [t \in Thread |-> "idle"]
  /\ call = [t \in Thread |-> NULL]
  /\ left = [t \in Thread |-> MaxCalls]
  /\ tgt = [t \in Thread |-> NULL]
  /\ old = [t \in Thread |-> NULL]
  /\ tgq = [t \in Thread |-> NULL]
  /\ tgl = [t \in Thread |-> NULL]
  /\ ret = [t \in Thread |-> NULL]

MCSpec == MCInit /\ [][Next]_vars
MCFairSpec == MCSpec /\ \A t \in Thread : WF_vars(Step(t))

\* malloc() takes the lowest free addresses: addresses are interchangeable.
LowestFirst ==
  live' \subseteq live \/ \A n \in live' \ live, m \in Node \ live' : n < m

\* The bounds of the keys that the search leads to each node, computed from the
\* root: the witness of Ranges.
RECURSIVE Bounds(_, _, _, _)
Bounds(n, lo, hi, b) ==
  LET b1 == [b EXCEPT ![n] = <<lo, hi>>]
      p == heap[n]
  IN  IF p = NULL THEN b1
      ELSE Bounds(p.right, p.key, hi, Bounds(p.left, lo, p.key, b1))

\* The inductive invariant of the linearizability proof: who holds which lock,
\* the shape of the tree, disjoint ranges, and each thread within the range of
\* its key.
InductiveHere ==
  LET b == Bounds(root, INT_MIN - 1, INT_MAX + 1, [n \in Node |-> <<0, 0>>])
  IN  IInv /\ Doomed /\ RangesOK([n \in Node |-> b[n][1]], [n \in Node |-> b[n][2]])

=============================================================================
