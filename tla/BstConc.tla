------------------------------- MODULE BstConc -------------------------------
(***************************************************************************)
(* The concurrent binary search tree of concurrency/bst_conc.c: insert,    *)
(* lookup and delete by hand-over-hand locking, delete by rotating the     *)
(* doomed node down to the left until its right subtree is empty.          *)
(*                                                                         *)
(* A Node is a tree_t: a lock and a pointer t to a `tree` record, which is *)
(* inlined (turn_left swaps two t pointers: it swaps two records here).    *)
(* An action runs from one lock operation to the next.  What a thread does *)
(* in between touches only nodes whose lock it holds (LockDiscipline).     *)
(***************************************************************************)
EXTENDS Integers, FiniteSets

CONSTANTS Thread,     \* threads that call insert, lookup and delete
          Key,        \* the keys,
          INT_MIN, INT_MAX,    \* C ints, and the least and greatest of these
          Value,      \* the values (void * other than NULL)
          Node,       \* the tree_t addresses malloc() may return
          root,       \* the tree_t that the treebox points to
          NULL,
          MaxCalls    \* bound: calls each thread makes

Tree == [key : Key, value : Value, left : Node, right : Node]
Calls == [fn : {"insert"}, key : Key, val : Value]
         \cup [fn : {"lookup", "delete"}, key : Key, val : {NULL}]

ASSUME KeyAssumption ==
  /\ INT_MIN \in Int /\ INT_MAX \in Int /\ INT_MIN <= INT_MAX
  /\ Key \subseteq INT_MIN .. INT_MAX
ASSUME NodeAssumption == root \in Node
ASSUME NullAssumption == NULL \notin Thread \cup Node \cup Value \cup Tree \cup Calls
ASSUME CallsAssumption == MaxCalls \in Nat

VARIABLES
  heap,     \* heap[n]: *(n->t), the record [key, value, left, right], or NULL
  live,     \* the tree_t (and their locks) that are allocated
  owner,    \* owner[n]: the thread that holds n->lock, or NULL
  exited,   \* surely_malloc() has called exit(1)
  pc,       \* pc[t]: the lock operation or the test that thread t is at
  call,     \* call[t]: the call in progress, or NULL
  left,     \* left[t]: calls that t may still make
  tgt,      \* local tgt (tgp in pushdown_left)
  old,      \* the node of the local l_old (of lp in pushdown_left), or NULL
  tgq,      \* local tgq of pushdown_left, or NULL
  tgl,      \* local tgl of pushdown_left, or NULL
  ret       \* the value that lookup() is about to return

locals == <<tgt, old, tgq, tgl>>
vars == <<heap, live, owner, exited, pc, call, left, tgt, old, tgq, tgl, ret>>

PC == {"idle", "root", "loop", "next", "unlock_old", "return",
       "right", "push", "unlock_lp", "left", "splice"}

TypeOK ==
  /\ heap \in [Node -> Tree \cup {NULL}]
  /\ live \in SUBSET Node
  /\ owner \in [Node -> Thread \cup {NULL}]
  /\ exited \in BOOLEAN
  /\ pc \in [Thread -> PC]
  /\ call \in [Thread -> Calls \cup {NULL}]
  /\ left \in [Thread -> 0 .. MaxCalls]
  /\ tgt \in [Thread -> Node \cup {NULL}]
  /\ old \in [Thread -> Node \cup {NULL}]
  /\ tgq \in [Thread -> Node \cup {NULL}]
  /\ tgl \in [Thread -> Node \cup {NULL}]
  /\ ret \in [Thread -> Value \cup {NULL}]

\* treebox_new(): one tree_t without a tree, its lock released.
Init ==
  /\ heap = [n \in Node |-> NULL]
  /\ live = {root}
  /\ owner = [n \in Node |-> NULL]
  /\ exited = FALSE
  /\ pc = [t \in Thread |-> "idle"]
  /\ call = [t \in Thread |-> NULL]
  /\ left = [t \in Thread |-> MaxCalls]
  /\ tgt = [t \in Thread |-> NULL]
  /\ old = [t \in Thread |-> NULL]
  /\ tgq = [t \in Thread |-> NULL]
  /\ tgl = [t \in Thread |-> NULL]
  /\ ret = [t \in Thread |-> NULL]

Goto(t, from, to) ==
  /\ ~exited
  /\ pc[t] = from
  /\ pc' = [pc EXCEPT ![t] = to]

\* pthread_mutex_lock(): blocks while the lock is held.
Acquire(t, n) ==
  /\ owner[n] = NULL
  /\ owner' = [owner EXCEPT ![n] = t]

Release(n) == owner' = [owner EXCEPT ![n] = NULL]

-----------------------------------------------------------------------------
(* The descent, common to insert, lookup and delete.                       *)

\* The client of thread t makes call c: tgt = *t; l = tgt->lock.
Invoke(t, c) ==
  /\ left[t] > 0
  /\ Goto(t, "idle", "root")
  /\ call' = [call EXCEPT ![t] = c]
  /\ left' = [left EXCEPT ![t] = @ - 1]
  /\ tgt' = [tgt EXCEPT ![t] = root]
  /\ UNCHANGED <<heap, live, owner, exited, old, tgq, tgl, ret>>

AcquireRoot(t) ==
  /\ Goto(t, "root", "loop")
  /\ Acquire(t, tgt[t])
  /\ UNCHANGED <<heap, live, exited, call, left, locals, ret>>

\* The subtree of the record p in which key x belongs.
ChildFor(p, x) == IF x < p.key THEN p.left ELSE p.right

\* Mutant: tgt is not advanced.
Descend_Stuck(t) ==
  /\ Goto(t, "loop", "loop")
  /\ heap[tgt[t]] # NULL
  /\ heap[tgt[t]].key # call[t].key
  /\ UNCHANGED <<heap, live, owner, exited, call, left, locals, ret>>

\* Mutant: the parent is unlocked before the child is locked.
Descend_EarlyUnlock(t) ==
  /\ Goto(t, "loop", "root")
  /\ heap[tgt[t]] # NULL
  /\ heap[tgt[t]].key # call[t].key
  /\ Release(tgt[t])
  /\ tgt' = [tgt EXCEPT ![t] = ChildFor(heap[tgt[t]], call[t].key)]
  /\ UNCHANGED <<heap, live, exited, call, left, old, tgq, tgl, ret>>

\* l_old = l; tgt = p->left or p->right; l = tgt->lock.
Descend(t) ==
  /\ Goto(t, "loop", "next")
  /\ heap[tgt[t]] # NULL
  /\ heap[tgt[t]].key # call[t].key
  /\ old' = [old EXCEPT ![t] = tgt[t]]
  /\ tgt' = [tgt EXCEPT ![t] = ChildFor(heap[tgt[t]], call[t].key)]
  /\ UNCHANGED <<heap, live, owner, exited, call, left, tgq, tgl, ret>>

AcquireNext(t) ==
  /\ Goto(t, "next", "unlock_old")
  /\ Acquire(t, tgt[t])
  /\ UNCHANGED <<heap, live, exited, call, left, locals, ret>>

\* Mutant: release2(l) for release2(l_old).
ReleaseOld_New(t) ==
  /\ Goto(t, "unlock_old", "loop")
  /\ Release(tgt[t])
  /\ old' = [old EXCEPT ![t] = NULL]
  /\ UNCHANGED <<heap, live, exited, call, left, tgt, tgq, tgl, ret>>

ReleaseOld(t) ==
  /\ Goto(t, "unlock_old", "loop")
  /\ Release(old[t])
  /\ old' = [old EXCEPT ![t] = NULL]
  /\ UNCHANGED <<heap, live, exited, call, left, tgt, tgq, tgl, ret>>

\* The last release2 of a call, and its return.
Return(t) ==
  /\ Goto(t, "return", "idle")
  /\ Release(tgt[t])
  /\ tgt' = [tgt EXCEPT ![t] = NULL]
  /\ call' = [call EXCEPT ![t] = NULL]
  /\ ret' = [ret EXCEPT ![t] = NULL]
  /\ UNCHANGED <<heap, live, exited, left, old, tgq, tgl>>

-----------------------------------------------------------------------------
(* The ends of insert and lookup.                                          *)

\* The loop of fn stands on an empty tree_t, or on the record of its key.
AtEmpty(t, fn) == call[t].fn = fn /\ heap[tgt[t]] = NULL

AtKey(t, fn) ==
  /\ call[t].fn = fn
  /\ heap[tgt[t]] # NULL
  /\ heap[tgt[t]].key = call[t].key

\* Mutant: p->right is not set.
Leaf_NoRight(c, p1, p2) == [key |-> c.key, value |-> c.val, left |-> p1, right |-> NULL]

Leaf(c, p1, p2) == [key |-> c.key, value |-> c.val, left |-> p1, right |-> p2]

\* p == NULL: two fresh empty children (their locks made and released before
\* anyone can see them), then tgt->t = p.
InsertLeaf(t) ==
  /\ Goto(t, "loop", "return")
  /\ AtEmpty(t, "insert")
  /\ \E p1, p2 \in Node \ live :
       /\ p1 # p2
       /\ live' = live \cup {p1, p2}
       /\ heap' = [heap EXCEPT ![p1] = NULL, ![p2] = NULL,
                               ![tgt[t]] = Leaf(call[t], p1, p2)]
  /\ UNCHANGED <<owner, exited, call, left, locals, ret>>

\* surely_malloc(): no memory for the two children, the process exits.
MallocFails(t) ==
  /\ ~exited
  /\ pc[t] = "loop" /\ AtEmpty(t, "insert")
  /\ \A p1, p2 \in Node \ live : p1 = p2
  /\ exited' = TRUE
  /\ UNCHANGED <<heap, live, owner, pc, call, left, locals, ret>>

\* Mutant: the old value stays.
Update_Keeps(t) ==
  /\ Goto(t, "loop", "return")
  /\ AtKey(t, "insert")
  /\ UNCHANGED <<heap, live, owner, exited, call, left, locals, ret>>

\* p->value = value.
Update(t) ==
  /\ Goto(t, "loop", "return")
  /\ AtKey(t, "insert")
  /\ heap' = [heap EXCEPT ![tgt[t]].value = call[t].val]
  /\ UNCHANGED <<live, owner, exited, call, left, locals, ret>>

LookupHit(t) ==
  /\ Goto(t, "loop", "return")
  /\ AtKey(t, "lookup")
  /\ ret' = [ret EXCEPT ![t] = heap[tgt[t]].value]
  /\ UNCHANGED <<heap, live, owner, exited, call, left, locals>>

LookupMiss(t) ==
  /\ Goto(t, "loop", "return")
  /\ AtEmpty(t, "lookup")
  /\ ret' = [ret EXCEPT ![t] = NULL]
  /\ UNCHANGED <<heap, live, owner, exited, call, left, locals>>

-----------------------------------------------------------------------------
(* delete and pushdown_left.                                               *)

DeleteAbsent(t) ==
  /\ Goto(t, "loop", "return")
  /\ AtEmpty(t, "delete")
  /\ UNCHANGED <<heap, live, owner, exited, call, left, locals, ret>>

\* pushdown_left(tgt): tgq = p->right; lq = tgq->lock.
DeleteFound(t) ==
  /\ Goto(t, "loop", "right")
  /\ AtKey(t, "delete")
  /\ tgq' = [tgq EXCEPT ![t] = heap[tgt[t]].right]
  /\ UNCHANGED <<heap, live, owner, exited, call, left, tgt, old, tgl, ret>>

\* Mutant: lq is not acquired.
AcquireRight_Unlocked(t) ==
  /\ Goto(t, "right", "push")
  /\ UNCHANGED <<heap, live, owner, exited, call, left, locals, ret>>

AcquireRight(t) ==
  /\ Goto(t, "right", "push")
  /\ Acquire(t, tgq[t])
  /\ UNCHANGED <<heap, live, exited, call, left, locals, ret>>

\* Mutant: l->right = mid is left out.
turn_left_LosesMid(h, a, b) ==
  [h EXCEPT ![a] = [h[b] EXCEPT !.left = b], ![b] = h[a]]

\* The record of b comes up into a, the record of a goes down into b.
turn_left(h, a, b) ==
  [h EXCEPT ![a] = [h[b] EXCEPT !.left = b],
            ![b] = [h[a] EXCEPT !.right = h[b].left]]

\* q != NULL: turn_left(tgp, tgq); tgp = q->left.  Its lock is lq, held.
Rotate(t) ==
  /\ Goto(t, "push", "unlock_lp")
  /\ heap[tgq[t]] # NULL
  /\ heap' = turn_left(heap, tgt[t], tgq[t])
  /\ tgt' = [tgt EXCEPT ![t] = heap'[tgt[t]].left]
  /\ old' = [old EXCEPT ![t] = tgt[t]]
  /\ tgq' = [tgq EXCEPT ![t] = NULL]
  /\ UNCHANGED <<live, owner, exited, call, left, tgl, ret>>

\* release2(lp), and the head of the loop again.
ReleaseLp(t) ==
  /\ Goto(t, "unlock_lp", "right")
  /\ Release(old[t])
  /\ old' = [old EXCEPT ![t] = NULL]
  /\ tgq' = [tgq EXCEPT ![t] = heap[tgt[t]].right]
  /\ UNCHANGED <<heap, live, exited, call, left, tgt, tgl, ret>>

\* q == NULL: tgl = p->left.
ReadLeft(t) ==
  /\ Goto(t, "push", "left")
  /\ heap[tgq[t]] = NULL
  /\ tgl' = [tgl EXCEPT ![t] = heap[tgt[t]].left]
  /\ UNCHANGED <<heap, live, owner, exited, call, left, tgt, old, tgq, ret>>

\* Mutant: tgl->lock is not acquired.
AcquireLeft_Unlocked(t) ==
  /\ Goto(t, "left", "splice")
  /\ UNCHANGED <<heap, live, owner, exited, call, left, locals, ret>>

AcquireLeft(t) ==
  /\ Goto(t, "left", "splice")
  /\ Acquire(t, tgl[t])
  /\ UNCHANGED <<heap, live, exited, call, left, locals, ret>>

\* Mutant: tgp->t = tgq->t, and the left subtree is gone.
Splice_TakesRight(t) ==
  /\ Goto(t, "splice", "return")
  /\ heap' = [heap EXCEPT ![tgt[t]] = heap[tgq[t]],
                          ![tgl[t]] = NULL]
  /\ live' = live \ {tgq[t], tgl[t]}
  /\ owner' = [owner EXCEPT ![tgq[t]] = NULL, ![tgl[t]] = NULL]
  /\ tgq' = [tgq EXCEPT ![t] = NULL]
  /\ tgl' = [tgl EXCEPT ![t] = NULL]
  /\ UNCHANGED <<exited, call, left, tgt, old, ret>>

\* tgp->t = tgl->t; tgq and tgl are freed with their locks.
Splice(t) ==
  /\ Goto(t, "splice", "return")
  /\ heap' = [heap EXCEPT ![tgt[t]] = heap[tgl[t]],
                          ![tgl[t]] = NULL]
  /\ live' = live \ {tgq[t], tgl[t]}
  /\ owner' = [owner EXCEPT ![tgq[t]] = NULL, ![tgl[t]] = NULL]
  /\ tgq' = [tgq EXCEPT ![t] = NULL]
  /\ tgl' = [tgl EXCEPT ![t] = NULL]
  /\ UNCHANGED <<exited, call, left, tgt, old, ret>>

-----------------------------------------------------------------------------
Step(t) ==
  \/ AcquireRoot(t)
  \/ Descend(t)
  \/ AcquireNext(t)
  \/ ReleaseOld(t)
  \/ Return(t)
  \/ InsertLeaf(t)
  \/ MallocFails(t)
  \/ Update(t)
  \/ LookupHit(t)
  \/ LookupMiss(t)
  \/ DeleteAbsent(t)
  \/ DeleteFound(t)
  \/ AcquireRight(t)
  \/ Rotate(t)
  \/ ReleaseLp(t)
  \/ ReadLeft(t)
  \/ AcquireLeft(t)
  \/ Splice(t)

\* The process has exited, or every thread has made all its calls.
Terminated ==
  /\ exited \/ \A t \in Thread : pc[t] = "idle" /\ left[t] = 0
  /\ UNCHANGED vars

Next ==
  \/ \E t \in Thread : (\E c \in Calls : Invoke(t, c)) \/ Step(t)
  \/ Terminated

Spec == Init /\ [][Next]_vars

\* The scheduler runs every thread that can run; a client need not call.
FairSpec == Spec /\ \A t \in Thread : WF_vars(Step(t))
=============================================================================
