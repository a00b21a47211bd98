------------------------------- MODULE BstMain -------------------------------
(***************************************************************************)
(* The program of concurrency/bst_conc.c: main() fills a tree, spawns      *)
(* thread_func(), inserts key 1 while the thread does, joins through       *)
(* thread_lock, which the thread releases for it, and frees the tree.      *)
(* The tree itself is BstConc, with the two threads Main and Worker.       *)
(***************************************************************************)
EXTENDS BstConcProps, Sequences

CONSTANTS Main, Worker,
          three, one, four, ONE, ONE_FROM_THREAD    \* the strings inserted

ASSUME MainAssumption ==
  /\ Main # Worker /\ {Main, Worker} = Thread
  /\ {1, 3, 4} \subseteq Key
  /\ {three, one, four, ONE, ONE_FROM_THREAD} \subseteq Value
  /\ MaxCalls >= 4

VARIABLES
  at,           \* at[t]: the statement of main() or thread_func() t is at
  thread_lock,  \* the owner of thread_lock, NULL when free, or "none"
  frames        \* the stack of tree_free(), the innermost call first

mvars == <<vars, at, thread_lock, frames>>

\* An activation of tree_free(tgp): its locals and the statement it is at.
Frame(n) == [tgp |-> n, pa |-> NULL, pb |-> NULL, stmt |-> "acquire"]

InsertCall(x, v) == [fn |-> "insert", key |-> x, val |-> v]

MTypeOK ==
  /\ TypeOK
  /\ at \in [Thread -> {"unborn", "three", "one", "four", "makelock", "spawn", 
                       "insert", "join", "free", "done", "release", "exit"}]
  /\ thread_lock \in Thread \cup {NULL, "none"}
  /\ frames \in Seq([tgp : Node, pa : Node \cup {NULL}, pb : Node \cup {NULL},
                     stmt : {"acquire", "left", "right", "free"}])

MInit ==
  /\ Init
  /\ at = [t \in Thread |-> IF t = Main THEN "three" ELSE "unborn"]
  /\ thread_lock = "none"
  /\ frames = <<>>

\* Statement `from` of t is a call of insert(): it starts, and t goes to `to`.
CallInsert(t, from, x, v, to) ==
  /\ at[t] = from
  /\ Invoke(t, InsertCall(x, v))
  /\ at' = [at EXCEPT ![t] = to]
  /\ UNCHANGED <<thread_lock, frames>>

Goes(t, from, to) ==
  /\ ~exited
  /\ at[t] = from /\ pc[t] = "idle"
  /\ at' = [at EXCEPT ![t] = to]

\* insert(tb,3,"three"); insert(tb,1,"one"); insert(tb,4,"four").
Fill ==
  \/ CallInsert(Main, "three", 3, three, "one")
  \/ CallInsert(Main, "one", 1, one, "four")
  \/ CallInsert(Main, "four", 4, four, "makelock")

\* makelock() initialises the mutex and locks it.
MakeLock ==
  /\ Goes(Main, "makelock", "spawn")
  /\ thread_lock' = Main
  /\ UNCHANGED <<vars, frames>>

Spawn ==
  /\ ~exited
  /\ at[Main] = "spawn"
  /\ at' = [at EXCEPT ![Main] = "insert", ![Worker] = "insert"]
  /\ UNCHANGED <<vars, thread_lock, frames>>

MainInsert == CallInsert(Main, "insert", 1, ONE, "join")
WorkerInsert == CallInsert(Worker, "insert", 1, ONE_FROM_THREAD, "release")

\* thread_func(): release2(l), the lock that main() made and locked.
WorkerRelease ==
  /\ Goes(Worker, "release", "exit")
  /\ thread_lock' = NULL
  /\ UNCHANGED <<vars, frames>>

\* Mutant: no acquire(t_lock) before the tree is freed.
Join_NoWait ==
  /\ Goes(Main, "join", "free")
  /\ thread_lock' = "none"
  /\ frames' = <<Frame(root)>>
  /\ UNCHANGED vars

\* acquire(t_lock); freelock2(t_lock); treebox_free(tb).
Join ==
  /\ Goes(Main, "join", "free")
  /\ thread_lock = NULL
  /\ thread_lock' = "none"
  /\ frames' = <<Frame(root)>>
  /\ UNCHANGED vars

-----------------------------------------------------------------------------
(* tree_free(), the activation on top of the stack.                        *)

Top(stmt) == ~exited /\ frames # <<>> /\ Head(frames).stmt = stmt

BstUnchanged == UNCHANGED <<exited, pc, call, left, locals, ret>>

\* acquire(l); p = tgp->t; and free(p) once its children are saved.
FreeAcquire ==
  /\ Top("acquire")
  /\ LET n == Head(frames).tgp
         p == heap[n]
     IN  /\ Acquire(Main, n)
         /\ frames' = <<IF p = NULL
                        THEN [Head(frames) EXCEPT !.stmt = "free"]
                        ELSE [tgp |-> n, pa |-> p.left, pb |-> p.right,
                              stmt |-> "left"]>> \o Tail(frames)
         /\ heap' = [heap EXCEPT ![n] = NULL]
  /\ UNCHANGED <<live, at, thread_lock>> /\ BstUnchanged

\* tree_free(pa), then tree_free(pb), each with l still held.
Recurse(stmt, child, next) ==
  /\ Top(stmt)
  /\ frames' = <<Frame(child), [Head(frames) EXCEPT !.stmt = next]>> \o Tail(frames)
  /\ UNCHANGED <<vars, at, thread_lock>>

\* Mutant: no tree_free(pa).
FreeLeft_Skip ==
  /\ Top("left")
  /\ frames' = <<[Head(frames) EXCEPT !.stmt = "right"]>> \o Tail(frames)
  /\ UNCHANGED <<vars, at, thread_lock>>

FreeLeft == Recurse("left", Head(frames).pa, "right")
FreeRight == Recurse("right", Head(frames).pb, "free")

\* freelock2(l); free(l); free(tgp); return.
FreeNode ==
  /\ Top("free")
  /\ LET n == Head(frames).tgp
     IN  /\ live' = live \ {n}
         /\ owner' = [owner EXCEPT ![n] = NULL]
  /\ frames' = Tail(frames)
  /\ UNCHANGED <<heap, at, thread_lock>> /\ BstUnchanged

\* free(b); return 0.
MainReturn ==
  /\ frames = <<>>
  /\ Goes(Main, "free", "done")
  /\ UNCHANGED <<vars, thread_lock, frames>>

-----------------------------------------------------------------------------
MainStep ==
  \/ Fill
  \/ MakeLock
  \/ Spawn
  \/ MainInsert
  \/ Join
  \/ FreeAcquire
  \/ FreeLeft
  \/ FreeRight
  \/ FreeNode
  \/ MainReturn

InTree(t) == Step(t) /\ UNCHANGED <<at, thread_lock, frames>>

MTerminated ==
  /\ exited \/ at[Main] = "done"
  /\ UNCHANGED mvars

MNext ==
  \/ \E t \in Thread : InTree(t)
  \/ MainStep
  \/ WorkerInsert
  \/ WorkerRelease
  \/ MTerminated

MSpec ==
  /\ MInit /\ [][MNext]_mvars
  /\ WF_mvars(InTree(Main) \/ MainStep)
  /\ WF_mvars(InTree(Worker) \/ WorkerInsert \/ WorkerRelease)

-----------------------------------------------------------------------------
\* tree_free() takes its locks without a fight and frees nothing that another
\* thread can still reach: when main() frees the tree, the worker has left it.
FreeAlone ==
  frames # <<>> =>
    /\ \A t \in Thread : pc[t] = "idle"
    /\ \A n \in Node : owner[n] # Worker
    /\ Head(frames).stmt = "acquire" => owner[Head(frames).tgp] = NULL

\* At the join both inserts of key 1 have happened, in one order or the other,
\* and nothing else of the tree has changed.
JoinedContents ==
  at[Main] = "free" /\ frames = <<Frame(root)>> /\ owner[root] = NULL =>
    Contents \in {[k \in Key |-> CASE k = 1 -> v
                                   [] k = 3 -> three
                                   [] k = 4 -> four
                                   [] OTHER -> NULL] : v \in {ONE, ONE_FROM_THREAD}}

\* treebox_free() frees every tree_t that the program allocated.
AllFreed == at[Main] = "done" => live = {}

\* The program ends: the join does not wait for a lock that nobody releases,
\* and tree_free() comes to an end.
MainEnds == <>(at[Main] = "done" \/ exited)
=============================================================================
