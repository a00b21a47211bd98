----------------------------- MODULE BstMainProof -----------------------------
(***************************************************************************)
(* Proofs about the program of concurrency/bst_conc.c, for any memory: the *)
(* join is a join, and tree_free() runs alone and frees everything.        *)
(***************************************************************************)
EXTENDS BstMain, BstConcProof

-----------------------------------------------------------------------------
(* Until the join.                                                         *)

\* Thread t is in no call, or its call has taken effect.
Done(t) == pc[t] \in {"idle", "return"}

\* Where the two threads are, and who has thread_lock.
Places ==
  /\ at[Main] \in {"three", "one", "four", "makelock", "spawn", "insert", "join",
                  "free", "done"}
  /\ IF at[Main] \in {"three", "one", "four", "makelock", "spawn"}
     THEN at[Worker] = "unborn" ELSE at[Worker] \in {"insert", "release", "exit"}
  /\ at[Main] \in {"free", "done"} => at[Worker] = "exit"
  /\ at[Main] \in {"three", "spawn", "insert", "free", "done"} => pc[Main] = "idle"
  /\ at[Worker] \in {"unborn", "insert", "exit"} => pc[Worker] = "idle"
  /\ at[Main] \in {"spawn", "insert", "join"} /\ at[Worker] # "exit" => thread_lock = Main

\* The calls the threads are in.
MainCall ==
  CASE at[Main] = "one"      -> InsertCall(3, three)
    [] at[Main] = "four"     -> InsertCall(1, one)
    [] at[Main] = "makelock" -> InsertCall(4, four)
    [] OTHER                 -> InsertCall(1, ONE)

Called ==
  /\ pc[Main] # "idle" => call[Main] = MainCall
  /\ pc[Worker] # "idle" => call[Worker] = InsertCall(1, ONE_FROM_THREAD)

\* Main is at or before the insert that precedes statement s.
Before(s, earlier) == at[Main] \in earlier \/ (at[Main] = s /\ ~Done(Main))

\* What the tree contains, by how far the threads have got.
Progress ==
  /\ \A k \in Key \ {1, 3, 4} : Contents[k] = NULL
  /\ Contents[3] = IF Before("one", {"three"}) THEN NULL ELSE three
  /\ Contents[4] = IF Before("makelock", {"three", "one", "four"}) THEN NULL ELSE four
  /\ IF Before("four", {"three", "one"}) THEN Contents[1] = NULL
     ELSE Contents[1] \in {one, ONE, ONE_FROM_THREAD}
  /\ at[Main] = "join" /\ Done(Main) => Contents[1] \in {ONE, ONE_FROM_THREAD}
  /\ at[Worker] \in {"release", "exit"} /\ Done(Worker) =>
       Contents[1] \in {ONE, ONE_FROM_THREAD}

Growing == LinInv /\ Connected /\ Called /\ Progress /\ frames = <<>>

-----------------------------------------------------------------------------
(* After the join.                                                         *)

Joined == {[k \in Key |-> CASE k = 1 -> v
                            [] k = 3 -> three
                            [] k = 4 -> four
                            [] OTHER -> NULL] : v \in {ONE, ONE_FROM_THREAD}}

\* The subtrees that an activation of tree_free() has yet to free, and all that it
\* is to free.
Subs(f) == IF f.stmt = "left" THEN {f.pa, f.pb}
           ELSE IF f.stmt = "right" THEN {f.pb} ELSE {}
Roots(f) == {f.tgp} \cup Subs(f)
Pending == UNION {Roots(frames[i]) : i \in DOMAIN frames}

\* An activation that is under way has its node locked and emptied.
FramesOK ==
  \A i \in DOMAIN frames :
    /\ frames[i].tgp \notin Subs(frames[i])
    /\ frames[i].stmt = "left" => frames[i].pa # frames[i].pb
    /\ frames[i].stmt # "acquire" => heap[frames[i].tgp] = NULL
    /\ i # 1 => frames[i].stmt \in {"right", "free"}

\* No two activations are to free the same.
FramesApart ==
  \A i, j \in DOMAIN frames : i # j => Roots(frames[i]) \cap Roots(frames[j]) = {}

Locked(n) == \E i \in DOMAIN frames : frames[i].tgp = n /\ frames[i].stmt # "acquire"
LocksOK == \A n \in Node : owner[n] = IF Locked(n) THEN Main ELSE NULL

\* What is left are trees: a child has one parent, the roots of the trees none.
ForestOK ==
  /\ \A n \in Node : heap[n] # NULL =>
       /\ n \in live
       /\ heap[n].left \in live \ Pending /\ heap[n].right \in live \ Pending
       /\ heap[n].left # heap[n].right
  /\ \A m, n \in Node : m # n /\ heap[m] # NULL /\ heap[n] # NULL =>
       /\ heap[m].left # heap[n].left /\ heap[m].left # heap[n].right
       /\ heap[m].right # heap[n].left /\ heap[m].right # heap[n].right

\* tree_free() will come to everything that is left.
AllPending ==
  /\ Pending \subseteq live
  /\ \A S \in SUBSET live : Pending \subseteq S /\ Closed(S) => S = live

Freeing ==
  /\ FramesOK /\ FramesApart /\ LocksOK /\ ForestOK /\ AllPending
  /\ frames = <<Frame(root)>> => Contents \in Joined

MInv ==
  /\ MTypeOK /\ Places
  /\ at[Main] \notin {"free", "done"} => Growing
  /\ at[Main] = "free" => Freeing
  /\ at[Main] = "done" => frames = <<>> /\ live = {}

-----------------------------------------------------------------------------
(* Steps until the join.                                                   *)

USE NullAssumption, NodeAssumption

LEMMA TheThreads ==
  /\ Main \in Thread /\ Worker \in Thread /\ Main # Worker
  /\ \A t \in Thread : t = Main \/ t = Worker
BY MainAssumption

LEMMA TheCalls ==
  /\ 1 \in Key /\ 3 \in Key /\ 4 \in Key
  /\ InsertCall(3, three) \in Calls /\ InsertCall(1, one) \in Calls
  /\ InsertCall(4, four) \in Calls /\ InsertCall(1, ONE) \in Calls
  /\ InsertCall(1, ONE_FROM_THREAD) \in Calls
  /\ MainCall \in Calls
<1>1. {three, one, four, ONE, ONE_FROM_THREAD} \subseteq Value /\ {1, 3, 4} \subseteq Key
  BY MainAssumption
<1>2. \A x \in Key, v \in Value : InsertCall(x, v) \in Calls
  BY DEF InsertCall, Calls
<1> QED
  BY <1>1, <1>2 DEF MainCall

\* In the tree only calls of insert() are made: each changes the contents once,
\* when it comes to its end.
LEMMA InsertContents ==
  ASSUME LinInv, LinInv', NEW t \in Thread, Step(t), call[t].fn = "insert"
  PROVE  /\ pc'[t] # "idle" => call'[t] = call[t]
         /\ \/ /\ ~Done(t) /\ Done(t)'
               /\ Contents' = [Contents EXCEPT ![call[t].key] = call[t].val]
            \/ /\ Contents' = Contents /\ (Done(t)' <=> Done(t))
<1> USE DEF LinInv, IInv, TypeOK, Goto, Done
<1>1. CASE InsertLeaf(t) \/ Update(t)
  <2>1. Map!Apply(t)
    BY <1>1, InsertRefines, UpdateRefines
  <2>2. Contents' = [Contents EXCEPT ![call[t].key] = call[t].val]
    BY <2>1 DEF Map!Apply, Map!Insert, Map!Lookup, Map!Delete
  <2> QED
    BY <1>1, <2>2 DEF InsertLeaf, Update
<1>2. CASE Return(t)
  <2>1. Contents' = Contents
    BY <1>2 DEF Return, Contents
  <2> QED
    BY <1>2, <2>1 DEF Return
<1>3. CASE \/ AcquireRoot(t) \/ Descend(t) \/ AcquireNext(t) \/ ReleaseOld(t)
           \/ MallocFails(t)
  <2>1. UNCHANGED <<heap, live, call>>
    BY <1>3 DEF AcquireRoot, Descend, AcquireNext, ReleaseOld, MallocFails
  <2>2. Contents' = Contents
    BY <2>1 DEF Contents
  <2>3. Done(t)' <=> Done(t)
    <3>1. CASE MallocFails(t)
      BY <3>1 DEF MallocFails
    <3>2. CASE ~MallocFails(t)
      BY <1>3, <3>2 DEF AcquireRoot, Descend, AcquireNext, ReleaseOld
    <3> QED
      BY <3>1, <3>2
  <2> QED
    BY <2>1, <2>2, <2>3
<1>4. ~(LookupHit(t) \/ LookupMiss(t) \/ DeleteAbsent(t) \/ DeleteFound(t))
  <2>1. /\ ~AtKey(t, "lookup") /\ ~AtKey(t, "delete")
        /\ ~AtEmpty(t, "lookup") /\ ~AtEmpty(t, "delete")
    BY DEF AtKey, AtEmpty
  <2> QED
    BY <2>1 DEF LookupHit, LookupMiss, DeleteAbsent, DeleteFound
<1>5. ~(AcquireRight(t) \/ Rotate(t) \/ ReleaseLp(t) \/ ReadLeft(t) \/ AcquireLeft(t)
        \/ Splice(t))
  <2>1. pc[t] \notin {"right", "push", "unlock_lp", "left", "splice"}
    BY DEF Doomed
  <2> QED
    BY <2>1 DEF AcquireRight, Rotate, ReleaseLp, ReadLeft, AcquireLeft, Splice
<1> QED
  BY <1>1, <1>2, <1>3, <1>4, <1>5 DEF Step

\* A step in the tree; until the join only.
LEMMA InTreeStep ==
  ASSUME MInv, NEW t \in Thread, InTree(t)
  PROVE  MInv'
<1>1. /\ Step(t) /\ UNCHANGED <<at, thread_lock, frames>> /\ pc[t] # "idle"
  BY DEF InTree, Step, AcquireRoot, Descend, AcquireNext, ReleaseOld, Return, InsertLeaf,
    MallocFails, Update, LookupHit, LookupMiss, DeleteAbsent, DeleteFound, AcquireRight,
    Rotate, ReleaseLp, ReadLeft, AcquireLeft, Splice, Goto
<1>2. at[Main] \notin {"free", "done"}
  BY <1>1, TheThreads DEF MInv, Places
<1>3. Growing
  BY <1>2 DEF MInv
<1>4. LinInv'
  BY <1>1, <1>3, StepLin DEF Growing
<1>5. Connected'
  <2>1. [Next]_vars
    BY <1>1 DEF Next
  <2> QED
    BY <1>3, <2>1, NextConnected DEF Growing, LinInv
<1>6. /\ call[t] \in Calls /\ call[t].fn = "insert"
      /\ call[t] = IF t = Main THEN MainCall ELSE InsertCall(1, ONE_FROM_THREAD)
  BY <1>1, <1>3, TheThreads, TheCalls DEF Growing, Called, InsertCall, MainCall
<1>7. /\ pc'[t] # "idle" => call'[t] = call[t]
      /\ \/ /\ ~Done(t) /\ Done(t)'
            /\ Contents' = [Contents EXCEPT ![call[t].key] = call[t].val]
         \/ /\ Contents' = Contents /\ (Done(t)' <=> Done(t))
  BY <1>1, <1>3, <1>4, <1>6, InsertContents DEF Growing
<1>8. \A u \in Thread : u # t => pc'[u] = pc[u] /\ call'[u] = call[u]
  BY <1>1, <1>3, OthersStay DEF Growing, LinInv
<1>9. Called'
  BY <1>1, <1>3, <1>6, <1>7, <1>8, TheThreads DEF Growing, Called, MainCall
<1>10. Progress'
  <2>1. \A u \in Thread : u # t => (Done(u)' <=> Done(u))
    BY <1>8 DEF Done
  <2>2. Progress
    BY <1>3 DEF Growing
  <2>3. CASE Contents' = Contents /\ (Done(t)' <=> Done(t))
    BY <1>1, <2>1, <2>2, <2>3, TheThreads DEF Progress, Before
  <2>4. CASE /\ ~Done(t) /\ Done(t)'
             /\ Contents' = [Contents EXCEPT ![call[t].key] = call[t].val]
    <3>1. Contents \in [Key -> Value \cup {NULL}]
      BY <1>3, HolderContents DEF Growing
    <3>2. CASE t = Worker
      <4>1. call[t].key = 1 /\ call[t].val = ONE_FROM_THREAD
        BY <1>6, <3>2, TheThreads DEF InsertCall
      <4>2. /\ Contents'[1] = ONE_FROM_THREAD
            /\ \A k \in Key : k # 1 => Contents'[k] = Contents[k]
        BY <2>4, <3>1, <4>1, TheCalls
      <4>3. /\ Done(Main)' <=> Done(Main)
            /\ at[Main] \notin {"three", "one", "four", "makelock", "spawn"}
        BY <1>1, <2>1, <3>2, TheThreads DEF MInv, Places
      <4> QED
        BY <1>1, <2>2, <4>2, <4>3, TheCalls DEF Progress, Before
    <3>3. CASE t = Main
      <4>1. call[t] = MainCall /\ (Done(Worker)' <=> Done(Worker))
        BY <1>6, <2>1, <3>3, TheThreads
      <4>2. at[Main] \in {"one", "four", "makelock", "join"}
        BY <1>1, <1>2, <3>3 DEF MInv, Places
      <4>3. CASE at[Main] = "one"
        <5>1. call[t].key = 3 /\ call[t].val = three
          BY <4>1, <4>3 DEF InsertCall, MainCall
        <5>2. /\ Contents'[3] = three
              /\ \A k \in Key : k # 3 => Contents'[k] = Contents[k]
          BY <2>4, <3>1, <5>1, TheCalls
        <5> QED
          BY <1>1, <2>2, <2>4, <3>3, <4>1, <4>3, <5>2, TheCalls
          DEF Progress, Before, MInv, Places
      <4>4. CASE at[Main] = "four"
        <5>1. call[t].key = 1 /\ call[t].val = one
          BY <4>1, <4>4 DEF InsertCall, MainCall
        <5>2. /\ Contents'[1] = one
              /\ \A k \in Key : k # 1 => Contents'[k] = Contents[k]
          BY <2>4, <3>1, <5>1, TheCalls
        <5> QED
          BY <1>1, <2>2, <2>4, <3>3, <4>1, <4>4, <5>2, TheCalls
          DEF Progress, Before, MInv, Places
      <4>5. CASE at[Main] = "makelock"
        <5>1. call[t].key = 4 /\ call[t].val = four
          BY <4>1, <4>5 DEF InsertCall, MainCall
        <5>2. /\ Contents'[4] = four
              /\ \A k \in Key : k # 4 => Contents'[k] = Contents[k]
          BY <2>4, <3>1, <5>1, TheCalls
        <5> QED
          BY <1>1, <2>2, <2>4, <3>3, <4>1, <4>5, <5>2, TheCalls
          DEF Progress, Before, MInv, Places
      <4>6. CASE at[Main] = "join"
        <5>1. call[t].key = 1 /\ call[t].val = ONE
          BY <4>1, <4>6 DEF InsertCall, MainCall
        <5>2. /\ Contents'[1] = ONE
              /\ \A k \in Key : k # 1 => Contents'[k] = Contents[k]
          BY <2>4, <3>1, <5>1, TheCalls
        <5> QED
          BY <1>1, <2>2, <2>4, <3>3, <4>1, <4>6, <5>2, TheCalls
          DEF Progress, Before, MInv, Places
      <4> QED
        BY <4>2, <4>3, <4>4, <4>5, <4>6
    <3> QED
      BY <3>2, <3>3, TheThreads
  <2> QED
    BY <1>7, <2>3, <2>4
<1>11. Places'
  BY <1>1, <1>8, TheThreads DEF MInv, Places
<1>12. MTypeOK'
  <2>1. TypeOK'
    BY <1>4 DEF LinInv, IInv
  <2> QED
    BY <1>1, <2>1 DEF MInv, MTypeOK
<1> QED
  BY <1>1, <1>2, <1>3, <1>4, <1>5, <1>9, <1>10, <1>11, <1>12 DEF MInv, Growing

\* The start of a call of insert().
LEMMA CallFacts ==
  ASSUME Growing, NEW t \in Thread, NEW c \in Calls, Invoke(t, c)
  PROVE  /\ LinInv' /\ Connected' /\ TypeOK'
         /\ Contents' = Contents
         /\ pc[t] = "idle" /\ pc'[t] = "root" /\ call'[t] = c
         /\ \A u \in Thread : u # t => pc'[u] = pc[u] /\ call'[u] = call[u]
<1> USE DEF Growing
<1>1. LinInv'
  BY InvokeLin
<1>2. Connected'
  <2>1. [Next]_vars
    BY DEF Next
  <2> QED
    BY <2>1, NextConnected DEF LinInv
<1>3. Contents' = Contents
  BY DEF Invoke, Contents
<1>4. /\ pc[t] = "idle" /\ pc'[t] = "root" /\ call'[t] = c
      /\ \A u \in Thread : u # t => pc'[u] = pc[u] /\ call'[u] = call[u]
  BY DEF Invoke, Goto, LinInv, IInv, TypeOK
<1> QED
  BY <1>1, <1>2, <1>3, <1>4 DEF LinInv, IInv

\* What a call of main() needs to be right, statement by statement.
LEMMA MainCallStep ==
  ASSUME MInv, Fill \/ MainInsert
  PROVE  MInv'
<1>1. PICK x \in Key, v \in Value, from \in {"three", "one", "four", "insert"},
           to \in {"one", "four", "makelock", "join"} :
        /\ CallInsert(Main, from, x, v, to)
        /\ \/ from = "three" /\ to = "one" /\ x = 3 /\ v = three
           \/ from = "one" /\ to = "four" /\ x = 1 /\ v = one
           \/ from = "four" /\ to = "makelock" /\ x = 4 /\ v = four
           \/ from = "insert" /\ to = "join" /\ x = 1 /\ v = ONE
  BY MainAssumption DEF Fill, MainInsert
<1> DEFINE c == InsertCall(x, v)
<1>2. c \in Calls /\ Main \in Thread
  BY <1>1, TheThreads DEF InsertCall, Calls
<1>3. /\ at[Main] = from /\ Invoke(Main, c) /\ at' = [at EXCEPT ![Main] = to]
      /\ UNCHANGED <<thread_lock, frames>>
  BY <1>1 DEF CallInsert
<1>4. at[Main] \notin {"free", "done"} /\ Growing
  BY <1>1, <1>3 DEF MInv
<1>5. /\ LinInv' /\ Connected' /\ TypeOK'
      /\ Contents' = Contents
      /\ pc[Main] = "idle" /\ pc'[Main] = "root" /\ call'[Main] = c
      /\ pc'[Worker] = pc[Worker] /\ call'[Worker] = call[Worker]
  BY <1>2, <1>3, <1>4, CallFacts, TheThreads
<1>6. at'[Main] = to /\ at'[Worker] = at[Worker]
  BY <1>2, <1>3, TheThreads DEF MInv, MTypeOK
<1>7. MTypeOK'
  BY <1>1, <1>3, <1>5 DEF MInv, MTypeOK
<1>8. Places'
  BY <1>1, <1>3, <1>5, <1>6 DEF MInv, Places
<1>9. Called'
  <2>1. MainCall' = c
    BY <1>1, <1>6 DEF MainCall
  <2> QED
    BY <1>4, <1>5, <2>1 DEF Growing, Called
<1>10. Progress'
  <2>1. ~Done(Main)' /\ Done(Main) /\ (Done(Worker)' <=> Done(Worker))
    BY <1>5 DEF Done
  <2> QED
    BY <1>1, <1>3, <1>4, <1>5, <1>6, <2>1 DEF Growing, Progress, Before
<1> QED
  BY <1>1, <1>3, <1>4, <1>5, <1>6, <1>7, <1>8, <1>9, <1>10 DEF MInv, Growing

LEMMA WorkerCallStep ==
  ASSUME MInv, WorkerInsert
  PROVE  MInv'
<1> DEFINE c == InsertCall(1, ONE_FROM_THREAD)
<1>1. /\ at[Worker] = "insert" /\ Invoke(Worker, c)
      /\ at' = [at EXCEPT ![Worker] = "release"]
      /\ UNCHANGED <<thread_lock, frames>>
  BY DEF WorkerInsert, CallInsert
<1>2. at[Main] \notin {"free", "done"} /\ Growing
  BY <1>1 DEF MInv, Places
<1>3. /\ LinInv' /\ Connected' /\ TypeOK'
      /\ Contents' = Contents
      /\ pc[Worker] = "idle" /\ pc'[Worker] = "root" /\ call'[Worker] = c
      /\ pc'[Main] = pc[Main] /\ call'[Main] = call[Main]
  BY <1>1, <1>2, CallFacts, TheThreads, TheCalls
<1>4. at'[Worker] = "release" /\ at'[Main] = at[Main]
  BY <1>1, TheThreads DEF MInv, MTypeOK
<1>5. MTypeOK'
  BY <1>1, <1>3 DEF MInv, MTypeOK
<1>6. Places'
  BY <1>1, <1>3, <1>4 DEF MInv, Places
<1>7. Called'
  BY <1>2, <1>3, <1>4 DEF Growing, Called, MainCall
<1>8. Progress'
  <2>1. ~Done(Worker)' /\ (Done(Main)' <=> Done(Main))
    BY <1>3 DEF Done
  <2> QED
    BY <1>1, <1>2, <1>3, <1>4, <2>1 DEF Growing, Progress, Before
<1> QED
  BY <1>1, <1>2, <1>3, <1>4, <1>5, <1>6, <1>7, <1>8 DEF MInv, Growing

\* The steps that make, take and give back thread_lock.
LEMMA LockStep ==
  ASSUME MInv, MakeLock \/ Spawn \/ WorkerRelease
  PROVE  MInv'
<1>1. /\ UNCHANGED <<vars, frames>> /\ at[Main] \notin {"free", "done"} /\ Growing
  BY DEF MakeLock, Spawn, WorkerRelease, Goes, MInv, Places
<1>2. LinInv' /\ Connected' /\ TypeOK' /\ Contents' = Contents
  <2>1. LinInv'
    BY <1>1, NextLin DEF Growing
  <2>2. Connected'
    BY <1>1 DEF Growing, Connected, Closed, vars
  <2> QED
    BY <1>1, <2>1, <2>2 DEF LinInv, IInv, Contents, vars
<1>3. \A t \in Thread : pc'[t] = pc[t] /\ call'[t] = call[t] /\ (Done(t)' <=> Done(t))
  BY <1>1 DEF vars, Done
<1>4. CASE MakeLock
  <2>1. /\ at[Main] = "makelock" /\ pc[Main] = "idle" /\ thread_lock' = Main
        /\ at'[Main] = "spawn" /\ at'[Worker] = at[Worker]
        /\ at' = [at EXCEPT ![Main] = "spawn"]
    BY <1>4, TheThreads DEF MakeLock, Goes, MInv, MTypeOK
  <2>2. MTypeOK' /\ Places'
    BY <1>1, <1>2, <1>3, <2>1, TheThreads DEF MInv, MTypeOK, Places
  <2>3. Called' /\ Progress'
    BY <1>1, <1>2, <1>3, <2>1, TheThreads
    DEF Growing, Called, Progress, Before, Done, MainCall, MInv, Places
  <2> QED
    BY <1>1, <1>2, <2>1, <2>2, <2>3 DEF MInv, Growing
<1>5. CASE Spawn
  <2>1. /\ at[Main] = "spawn" /\ thread_lock' = thread_lock
        /\ at'[Main] = "insert" /\ at'[Worker] = "insert"
        /\ at' = [at EXCEPT ![Main] = "insert", ![Worker] = "insert"]
    BY <1>5, TheThreads DEF Spawn, MInv, MTypeOK
  <2>2. MTypeOK' /\ Places'
    BY <1>1, <1>2, <1>3, <2>1, TheThreads DEF MInv, MTypeOK, Places
  <2>3. Called' /\ Progress'
    BY <1>1, <1>2, <1>3, <2>1, TheThreads
    DEF Growing, Called, Progress, Before, Done, MainCall, MInv, Places
  <2> QED
    BY <1>1, <1>2, <2>1, <2>2, <2>3 DEF MInv, Growing
<1>6. CASE WorkerRelease
  <2>1. /\ at[Worker] = "release" /\ pc[Worker] = "idle" /\ thread_lock' = NULL
        /\ at'[Worker] = "exit" /\ at'[Main] = at[Main]
        /\ at' = [at EXCEPT ![Worker] = "exit"]
    BY <1>6, TheThreads DEF WorkerRelease, Goes, MInv, MTypeOK
  <2>2. MTypeOK' /\ Places'
    BY <1>1, <1>2, <1>3, <2>1, TheThreads DEF MInv, MTypeOK, Places
  <2>3. Called' /\ Progress'
    BY <1>1, <1>2, <1>3, <2>1, TheThreads
    DEF Growing, Called, Progress, Before, Done, MainCall, MInv, Places
  <2> QED
    BY <1>1, <1>2, <2>1, <2>2, <2>3 DEF MInv, Growing
<1> QED
  BY <1>4, <1>5, <1>6

-----------------------------------------------------------------------------
(* Steps from the join on.                                                 *)

\* At the join the worker has left the tree, which holds the four inserts' values,
\* and nobody holds a lock of it.
LEMMA JoinStep ==
  ASSUME MInv, Join
  PROVE  MInv'
<1>1. /\ at[Main] = "join" /\ pc[Main] = "idle" /\ thread_lock = NULL
      /\ frames' = <<Frame(root)>> /\ thread_lock' = "none"
      /\ at'[Main] = "free" /\ at'[Worker] = at[Worker]
      /\ at' = [at EXCEPT ![Main] = "free"]
      /\ UNCHANGED vars
  BY TheThreads DEF Join, Goes, MInv, MTypeOK
<1>2. at[Worker] = "exit" /\ pc[Worker] = "idle"
  BY <1>1, TheThreads DEF MInv, Places
<1>3. Growing
  BY <1>1 DEF MInv
<1>4. \A t \in Thread : pc[t] = "idle" /\ Done(t)
  BY <1>1, <1>2, TheThreads DEF Done
<1>5. DOMAIN frames' = {1} /\ frames'[1] = Frame(root)
  BY <1>1
<1>6. Pending' = {root}
  BY <1>5 DEF Pending, Roots, Subs, Frame
<1>7. FramesOK' /\ FramesApart'
  BY <1>5 DEF FramesOK, FramesApart, Frame, Subs
<1>8. LocksOK'
  <2>1. \A n \in Node : owner[n] = NULL
    <3>1. \A t \in Thread : Holds(t) = {}
      BY <1>4 DEF Holds
    <3>2. owner \in [Node -> Thread \cup {NULL}] /\ LockDiscipline
      BY <1>3 DEF Growing, LinInv, IInv, TypeOK
    <3> QED
      BY <3>1, <3>2 DEF LockDiscipline
  <2>2. \A n \in Node : ~Locked(n)'
    BY <1>5 DEF Locked, Frame
  <2> QED
    BY <1>1, <2>1, <2>2 DEF LocksOK, vars
<1>9. ForestOK'
  BY <1>1, <1>3, <1>6 DEF ForestOK, Growing, LinInv, IInv, TypeOK, Links, vars
<1>10. AllPending'
  BY <1>1, <1>3, <1>6 DEF AllPending, Growing, LinInv, IInv, Links, Connected, Closed, vars
<1>11. Contents' \in Joined
  <2>1. Contents' = Contents
    BY <1>1 DEF Contents, vars
  <2>2. Contents \in [Key -> Value \cup {NULL}]
    BY <1>3, HolderContents DEF Growing
  <2>3. /\ \A k \in Key \ {1, 3, 4} : Contents[k] = NULL
        /\ Contents[3] = three /\ Contents[4] = four
        /\ Contents[1] \in {ONE, ONE_FROM_THREAD}
    BY <1>1, <1>3, <1>4, TheThreads DEF Growing, Progress, Before
  <2>4. PICK v \in {ONE, ONE_FROM_THREAD} : Contents[1] = v
    BY <2>3
  <2>5. Contents = [k \in Key |-> CASE k = 1 -> v
                                    [] k = 3 -> three
                                    [] k = 4 -> four
                                    [] OTHER -> NULL]
    BY <2>2, <2>3, <2>4
  <2> QED
    BY <2>1, <2>5 DEF Joined
<1>12. Freeing'
  BY <1>7, <1>8, <1>9, <1>10, <1>11 DEF Freeing
<1>13. Places'
  BY <1>1, <1>2 DEF MInv, Places, vars
<1>14. MTypeOK'
  <2>1. frames' \in Seq([tgp : Node, pa : Node \cup {NULL}, pb : Node \cup {NULL},
                         stmt : {"acquire", "left", "right", "free"}])
    BY <1>1 DEF Frame
  <2> QED
    BY <1>1, <2>1 DEF MInv, MTypeOK, TypeOK, vars
<1> QED
  BY <1>1, <1>12, <1>13, <1>14 DEF MInv

\* The stack: another activation on top, one more, one less.
LEMMA Stack ==
  ASSUME NEW F, NEW s \in Seq(F), s # <<>>, NEW x \in F, NEW y \in F
  PROVE  /\ Len(s) \in Nat /\ Len(s) >= 1 /\ DOMAIN s = 1 .. Len(s)
         /\ Head(s) = s[1] /\ \A i \in DOMAIN s : s[i] \in F
         /\ <<x>> \o Tail(s) \in Seq(F) /\ DOMAIN (<<x>> \o Tail(s)) = DOMAIN s
         /\ (<<x>> \o Tail(s))[1] = x
         /\ \A i \in DOMAIN s : i # 1 => (<<x>> \o Tail(s))[i] = s[i]
         /\ <<x, y>> \o Tail(s) \in Seq(F)
         /\ DOMAIN (<<x, y>> \o Tail(s)) = 1 .. Len(s) + 1
         /\ (<<x, y>> \o Tail(s))[1] = x /\ (<<x, y>> \o Tail(s))[2] = y
         /\ \A i \in DOMAIN s : i # 1 => (<<x, y>> \o Tail(s))[i + 1] = s[i]
         /\ Tail(s) \in Seq(F) /\ DOMAIN Tail(s) = 1 .. Len(s) - 1
         /\ \A i \in DOMAIN s : i # 1 => Tail(s)[i - 1] = s[i]
<1>1. /\ Len(s) \in Nat /\ Len(s) >= 1 /\ DOMAIN s = 1 .. Len(s)
      /\ Head(s) = s[1] /\ \A i \in DOMAIN s : s[i] \in F
  OBVIOUS
<1>2. /\ Tail(s) \in Seq(F) /\ Len(Tail(s)) = Len(s) - 1
      /\ DOMAIN Tail(s) = 1 .. Len(s) - 1
      /\ \A i \in 1 .. Len(s) - 1 : Tail(s)[i] = s[i + 1]
  BY <1>1
<1> DEFINE T == Tail(s)
<1> HIDE DEF T
<1>3. /\ <<x>> \o T \in Seq(F) /\ Len(<<x>> \o T) = 1 + Len(T)
      /\ (<<x>> \o T)[1] = x
      /\ \A i \in 1 .. Len(T) : (<<x>> \o T)[i + 1] = T[i]
  <2>1. T \in Seq(F) /\ <<x>> \in Seq(F) /\ Len(<<x>>) = 1 /\ <<x>>[1] = x
    BY <1>2 DEF T
  <2> QED
    BY <2>1
<1>4. /\ <<x, y>> \o T \in Seq(F) /\ Len(<<x, y>> \o T) = 2 + Len(T)
      /\ (<<x, y>> \o T)[1] = x /\ (<<x, y>> \o T)[2] = y
      /\ \A i \in 1 .. Len(T) : (<<x, y>> \o T)[i + 2] = T[i]
  <2>1. T \in Seq(F) /\ <<x, y>> \in Seq(F) /\ Len(<<x, y>>) = 2 /\ <<x, y>>[1] = x
        /\ <<x, y>>[2] = y
    BY <1>2 DEF T
  <2> QED
    BY <2>1
<1>5. ASSUME NEW i \in DOMAIN s, i # 1
      PROVE  i - 1 \in 1 .. Len(s) - 1 /\ (i - 1) + 1 = i /\ (i - 1) + 2 = i + 1
  BY <1>1, <1>5
<1>6. Len(T) = Len(s) - 1 /\ \A i \in 1 .. Len(s) - 1 : T[i] = s[i + 1]
  BY <1>2 DEF T
<1>7. ASSUME NEW i \in DOMAIN s, i # 1
      PROVE  (<<x>> \o T)[i] = s[i] /\ (<<x, y>> \o T)[i + 1] = s[i] /\ T[i - 1] = s[i]
  BY <1>3, <1>4, <1>5, <1>6, <1>7
<1>8. DOMAIN (<<x>> \o T) = DOMAIN s /\ DOMAIN (<<x, y>> \o T) = 1 .. Len(s) + 1
  <2>1. \A q \in Seq(F) : DOMAIN q = 1 .. Len(q)
    OBVIOUS
  <2>2. 1 + Len(T) = Len(s) /\ 2 + Len(T) = Len(s) + 1
    BY <1>1, <1>6
  <2>3. DOMAIN (<<x>> \o T) = 1 .. Len(s) /\ DOMAIN (<<x, y>> \o T) = 1 .. Len(s) + 1
    BY <1>3, <1>4, <2>1, <2>2, Zenon
  <2> QED
    BY <1>1, <2>3
<1> QED
  BY <1>1, <1>2, <1>3, <1>4, <1>7, <1>8 DEF T

Frames == [tgp : Node, pa : Node \cup {NULL}, pb : Node \cup {NULL},
           stmt : {"acquire", "left", "right", "free"}]

\* What the activations below the top are to free.
Rest == UNION {Roots(frames[i]) : i \in DOMAIN frames \ {1}}

\* While tree_free() runs, the program is at that call, and both threads are out of
\* the tree.
LEMMA OnStack ==
  ASSUME MInv, frames # <<>>
  PROVE  /\ at[Main] = "free" /\ Freeing /\ TypeOK
         /\ \A t \in Thread : pc[t] = "idle"
         /\ frames \in Seq(Frames) /\ 1 \in DOMAIN frames
         /\ Head(frames) = frames[1] /\ \A i \in DOMAIN frames : frames[i] \in Frames
         /\ Pending = Roots(frames[1]) \cup Rest /\ Roots(frames[1]) \cap Rest = {}
         /\ Roots(frames[1]) \subseteq live /\ frames[1].tgp \in Node
<1>1. at[Main] = "free" /\ Freeing /\ TypeOK /\ frames \in Seq(Frames)
  BY DEF MInv, Growing, MTypeOK, Frames
<1>2. \A t \in Thread : pc[t] = "idle"
  BY <1>1, TheThreads DEF MInv, Places
<1>3. /\ 1 \in DOMAIN frames /\ Head(frames) = frames[1]
      /\ \A i \in DOMAIN frames : frames[i] \in Frames
  BY <1>1, Stack
<1>4. Pending = Roots(frames[1]) \cup Rest
  BY <1>3 DEF Pending, Rest
<1>5. Roots(frames[1]) \cap Rest = {}
  BY <1>1, <1>3 DEF Freeing, FramesApart, Rest
<1>6. Roots(frames[1]) \subseteq live
  BY <1>1, <1>4 DEF Freeing, AllPending
<1> QED
  BY <1>1, <1>2, <1>3, <1>4, <1>5, <1>6 DEF Frames

\* A step of tree_free() keeps main() at the call.
LEMMA StillFreeing ==
  ASSUME MInv, at[Main] = "free", UNCHANGED <<at, pc, thread_lock>>,
         TypeOK', frames' \in Seq(Frames), Freeing'
  PROVE  MInv'
<1>1. Places'
  BY DEF MInv, Places
<1>2. MTypeOK'
  BY DEF MInv, MTypeOK, Frames
<1> QED
  BY <1>1, <1>2 DEF MInv

LEMMA FreeAcquireStep ==
  ASSUME MInv, FreeAcquire
  PROVE  MInv'
<1> PICK f \in Frames, n \in Node, p \in Tree \cup {NULL} :
      f = frames[1] /\ n = f.tgp /\ p = heap[n]
  BY OnStack DEF FreeAcquire, Top, Frames, TypeOK
<1> DEFINE g == IF p = NULL THEN [f EXCEPT !.stmt = "free"]
                ELSE [tgp |-> n, pa |-> p.left, pb |-> p.right, stmt |-> "left"]
<1>1. /\ frames # <<>> /\ f.stmt = "acquire"
      /\ frames' = <<g>> \o Tail(frames)
  BY OnStack DEF FreeAcquire, Top
<1>2. /\ at[Main] = "free" /\ Freeing /\ TypeOK
      /\ frames \in Seq(Frames) /\ 1 \in DOMAIN frames
      /\ \A i \in DOMAIN frames : frames[i] \in Frames
      /\ Pending = {n} \cup Rest /\ n \notin Rest
      /\ n \in live
  BY <1>1, OnStack DEF Roots, Subs
<1>3. /\ UNCHANGED <<live, at, thread_lock>> /\ BstUnchanged
      /\ heap'[n] = NULL /\ \A m \in Node : m # n => heap'[m] = heap[m]
      /\ owner'[n] = Main /\ \A m \in Node : m # n => owner'[m] = owner[m]
  BY <1>1, <1>2, OnStack DEF FreeAcquire, Acquire, TypeOK
<1>4. TypeOK'
  BY <1>1, <1>2, OnStack, TheThreads
  DEF FreeAcquire, Acquire, TypeOK, BstUnchanged, locals
<1>5. /\ g.tgp = n /\ g.stmt \in {"left", "free"} /\ g \in Frames
      /\ Roots(g) = IF p = NULL THEN {n} ELSE {n, p.left, p.right}
      /\ Subs(g) = IF p = NULL THEN {} ELSE {p.left, p.right}
      /\ p # NULL => g.pa = p.left /\ g.pb = p.right
      /\ p = NULL => g.stmt = "free"
  BY <1>2 DEF Frames, Roots, Subs, Tree
<1> HIDE DEF g
<1>6. /\ frames' \in Seq(Frames) /\ DOMAIN frames' = DOMAIN frames
      /\ frames'[1] = g /\ \A i \in DOMAIN frames : i # 1 => frames'[i] = frames[i]
  BY <1>1, <1>2, <1>5, Stack
<1>7. Pending' = Roots(g) \cup Rest
  BY <1>2, <1>6 DEF Pending, Rest, Roots, Subs
<1>8. p # NULL => /\ p.left \in live \ Pending /\ p.right \in live \ Pending
                  /\ p.left # p.right
  BY <1>2 DEF Freeing, ForestOK
<1>9. frames' # <<Frame(root)>>
  BY <1>5, <1>6 DEF Frame
<1>10. FramesOK'
  <2>1. g.tgp \notin Subs(g) /\ (g.stmt = "left" => g.pa # g.pb) /\ heap'[g.tgp] = NULL
    BY <1>2, <1>3, <1>5, <1>8
  <2>2. ASSUME NEW i \in DOMAIN frames, i # 1
        PROVE  /\ frames[i].tgp \notin Subs(frames[i])
               /\ frames[i].stmt \in {"right", "free"}
               /\ heap'[frames[i].tgp] = NULL
    <3>1. heap[frames[i].tgp] = NULL /\ frames[i].tgp \in Node
      BY <1>2, <2>2 DEF Freeing, FramesOK, Frames
    <3> QED
      BY <1>2, <1>3, <2>2, <3>1 DEF Freeing, FramesOK
  <2> QED
    BY <1>2, <1>6, <2>1, <2>2 DEF FramesOK, Subs
<1>11. FramesApart'
  <2>1. Roots(g) \cap Rest = {}
    BY <1>2, <1>5, <1>8
  <2>2. \A i \in DOMAIN frames : i # 1 => Roots(frames[i]) \subseteq Rest
    BY DEF Rest
  <2>3. \A i, j \in DOMAIN frames : i # j => Roots(frames'[i]) \cap Roots(frames'[j]) = {}
    BY <1>2, <1>6, <2>1, <2>2 DEF Freeing, FramesApart
  <2> QED
    BY <1>6, <2>3 DEF FramesApart, Roots, Subs
<1>12. LocksOK'
  <2>1. \E i \in DOMAIN frames' : frames'[i].tgp = n /\ frames'[i].stmt # "acquire"
    BY <1>2, <1>5, <1>6
  <2>2. ASSUME NEW m \in Node, m # n
        PROVE  (\E i \in DOMAIN frames' : frames'[i].tgp = m /\ frames'[i].stmt # "acquire")
                 <=> (\E i \in DOMAIN frames : frames[i].tgp = m /\ frames[i].stmt # "acquire")
    <3>1. ASSUME NEW i \in DOMAIN frames
          PROVE  /\ i # 1 => frames'[i] = frames[i]
                 /\ ~(frames[1].tgp = m /\ frames[1].stmt # "acquire")
                 /\ ~(frames'[1].tgp = m /\ frames'[1].stmt # "acquire")
      BY <1>1, <1>5, <1>6, <2>2
    <3> QED
      BY <1>6, <3>1
  <2>3. owner'[n] = IF Locked(n)' THEN Main ELSE NULL
    BY <1>3, <2>1 DEF Locked
  <2>4. \A m \in Node : m # n => owner'[m] = IF Locked(m)' THEN Main ELSE NULL
    BY <1>2, <1>3, <2>2 DEF Freeing, LocksOK, Locked
  <2> QED
    BY <1>2, <2>3, <2>4 DEF LocksOK
<1>13. ForestOK'
  BY <1>2, <1>3, <1>5, <1>7, <1>8 DEF Freeing, ForestOK
<1>14. AllPending'
  <2>1. Pending' \subseteq live'
    BY <1>2, <1>3, <1>5, <1>7, <1>8 DEF Freeing, AllPending
  <2>2. ASSUME NEW S \in SUBSET live', Pending' \subseteq S, Closed(S)'
        PROVE  S = live'
    <3>1. Pending \subseteq S
      BY <1>2, <1>5, <1>7, <2>2
    <3>2. Closed(S)
      <4>1. ASSUME NEW m \in S, heap[m] # NULL
            PROVE  heap[m].left \in S /\ heap[m].right \in S
        <5>1. CASE m = n
          BY <1>5, <1>7, <2>2, <4>1, <5>1
        <5>2. CASE m # n
          BY <1>2, <1>3, <2>2, <4>1, <5>2 DEF Closed, TypeOK
        <5> QED
          BY <5>1, <5>2
      <4> QED
        BY <4>1 DEF Closed
    <3> QED
      BY <1>2, <1>3, <2>2, <3>1, <3>2 DEF Freeing, AllPending
  <2> QED
    BY <2>1, <2>2 DEF AllPending
<1>15. Freeing'
  BY <1>9, <1>10, <1>11, <1>12, <1>13, <1>14 DEF Freeing
<1> QED
  BY <1>2, <1>3, <1>4, <1>6, <1>15, StillFreeing DEF BstUnchanged

\* tree_free() of a child, called with the lock of the node still held.
LEMMA RecurseStep ==
  ASSUME MInv, FreeLeft \/ FreeRight
  PROVE  MInv'
<1>1. frames # <<>>
  BY DEF FreeLeft, FreeRight, Recurse, Top
<1>2. /\ at[Main] = "free" /\ Freeing /\ TypeOK
      /\ frames \in Seq(Frames) /\ 1 \in DOMAIN frames
      /\ Head(frames) = frames[1] /\ \A i \in DOMAIN frames : frames[i] \in Frames
      /\ Pending = Roots(frames[1]) \cup Rest /\ Roots(frames[1]) \cap Rest = {}
      /\ Roots(frames[1]) \subseteq live
  BY <1>1, OnStack
<1> PICK f \in Frames : f = frames[1]
  BY <1>2
<1>3. PICK c \in Node, next \in {"right", "free"} :
        /\ UNCHANGED <<vars, at, thread_lock>>
        /\ frames' = <<Frame(c), [f EXCEPT !.stmt = next]>> \o Tail(frames)
        /\ \/ f.stmt = "left" /\ c = f.pa /\ next = "right"
           \/ f.stmt = "right" /\ c = f.pb /\ next = "free"
  <2>1. CASE FreeLeft
    <3>1. f.pa \in Node /\ f.stmt = "left"
      BY <1>2, <2>1 DEF FreeLeft, Recurse, Top, Roots, Subs, TypeOK
    <3> QED
      BY <1>2, <2>1, <3>1 DEF FreeLeft, Recurse
  <2>2. CASE FreeRight
    <3>1. f.pb \in Node /\ f.stmt = "right"
      BY <1>2, <2>2 DEF FreeRight, Recurse, Top, Roots, Subs, TypeOK
    <3> QED
      BY <1>2, <2>2, <3>1 DEF FreeRight, Recurse
  <2> QED
    BY <2>1, <2>2
<1> DEFINE g == Frame(c)
           h == [f EXCEPT !.stmt = next]
<1>4. /\ f.tgp \notin Subs(f) /\ (f.stmt = "left" => f.pa # f.pb)
      /\ heap[f.tgp] = NULL
  BY <1>2, <1>3 DEF Freeing, FramesOK
<1>5. /\ g \in Frames /\ g.tgp = c /\ g.stmt = "acquire" /\ Roots(g) = {c} /\ Subs(g) = {}
      /\ h \in Frames /\ h.tgp = f.tgp /\ h.stmt = next
      /\ Roots(g) \cup Roots(h) = Roots(f) /\ Roots(g) \cap Roots(h) = {}
      /\ Subs(h) \subseteq Subs(f)
  BY <1>3, <1>4 DEF Frames, Frame, Roots, Subs
<1> HIDE DEF g, h
<1>6. /\ frames' \in Seq(Frames) /\ DOMAIN frames' = 1 .. Len(frames) + 1
      /\ frames'[1] = g /\ frames'[2] = h
      /\ \A i \in DOMAIN frames : i # 1 => frames'[i + 1] = frames[i]
      /\ Len(frames) \in Nat /\ Len(frames) >= 1 /\ DOMAIN frames = 1 .. Len(frames)
  <2>1. frames' = <<g, h>> \o Tail(frames)
    BY <1>3 DEF g, h
  <2> QED
    BY <1>1, <1>2, <1>5, <2>1, Stack
<1>7. \A j \in DOMAIN frames' : \/ j = 1 \/ j = 2
        \/ /\ j - 1 \in DOMAIN frames /\ j - 1 # 1 /\ frames'[j] = frames[j - 1]
  <2>1. ASSUME NEW j \in DOMAIN frames', j # 1, j # 2
        PROVE  j - 1 \in DOMAIN frames /\ j - 1 # 1 /\ (j - 1) + 1 = j
    BY <1>6, <2>1
  <2> QED
    BY <1>6, <2>1
<1>8. 1 \in DOMAIN frames' /\ 2 \in DOMAIN frames'
      /\ \A i \in DOMAIN frames : i # 1 => i + 1 \in DOMAIN frames'
  BY <1>6
<1>9. Pending' = Pending
  <2>1. UNION {Roots(frames'[j]) : j \in DOMAIN frames'} = Roots(f) \cup Rest
    <3>1. Roots(f) \cup Rest \subseteq UNION {Roots(frames'[j]) : j \in DOMAIN frames'}
      BY <1>5, <1>6, <1>8 DEF Rest
    <3>2. \A j \in DOMAIN frames' : Roots(frames'[j]) \subseteq Roots(f) \cup Rest
      BY <1>5, <1>6, <1>7 DEF Rest
    <3> QED
      BY <3>1, <3>2
  <2> QED
    BY <1>2, <2>1 DEF Pending, Roots, Subs
<1>10. UNCHANGED <<heap, live, owner, at, thread_lock, pc>> /\ TypeOK'
  BY <1>2, <1>3 DEF vars, TypeOK
<1>11. FramesOK'
  <2>1. ASSUME NEW j \in DOMAIN frames'
        PROVE  /\ frames'[j].tgp \notin Subs(frames'[j])
               /\ frames'[j].stmt = "left" => frames'[j].pa # frames'[j].pb
               /\ frames'[j].stmt # "acquire" => heap[frames'[j].tgp] = NULL
               /\ j # 1 => frames'[j].stmt \in {"right", "free"}
    <3>1. CASE j \in {1, 2}
      BY <1>3, <1>4, <1>5, <1>6, <3>1
    <3>2. CASE j \notin {1, 2}
      BY <1>2, <1>7, <3>2 DEF Freeing, FramesOK
    <3> QED
      BY <3>1, <3>2
  <2> QED
    BY <1>10, <2>1 DEF FramesOK, Subs
<1>12. FramesApart'
  <2>1. \A i \in DOMAIN frames : i # 1 => Roots(frames[i]) \cap Roots(f) = {}
    BY <1>2 DEF Rest
  <2>2. ASSUME NEW i \in DOMAIN frames', NEW j \in DOMAIN frames', i # j
        PROVE  Roots(frames'[i]) \cap Roots(frames'[j]) = {}
    <3>1. CASE i \in {1, 2} /\ j \in {1, 2}
      BY <1>5, <1>6, <2>2, <3>1
    <3>2. CASE i \in {1, 2} /\ j \notin {1, 2}
      BY <1>5, <1>6, <1>7, <2>1, <3>2
    <3>3. CASE i \notin {1, 2} /\ j \in {1, 2}
      BY <1>5, <1>6, <1>7, <2>1, <3>3
    <3>4. CASE i \notin {1, 2} /\ j \notin {1, 2}
      <4>1. i \in Int /\ j \in Int /\ i - 1 # j - 1
        BY <1>6, <2>2
      <4> QED
        BY <1>2, <1>7, <2>2, <3>4, <4>1 DEF Freeing, FramesApart
    <3> QED
      BY <3>1, <3>2, <3>3, <3>4
  <2> QED
    BY <2>2 DEF FramesApart, Roots, Subs
<1>13. LocksOK'
  <2>1. /\ frames[1].stmt # "acquire" /\ frames[1].tgp = f.tgp /\ 1 \in DOMAIN frames
        /\ frames'[1].stmt = "acquire"
        /\ frames'[2].stmt # "acquire" /\ frames'[2].tgp = f.tgp
    BY <1>2, <1>3, <1>5, <1>6
  <2>2. ASSUME NEW m \in Node
        PROVE  (\E j \in DOMAIN frames' : frames'[j].tgp = m /\ frames'[j].stmt # "acquire")
                 <=> (\E i \in DOMAIN frames : frames[i].tgp = m /\ frames[i].stmt # "acquire")
    <3>1. ASSUME NEW j \in DOMAIN frames',
                 frames'[j].tgp = m /\ frames'[j].stmt # "acquire"
          PROVE  \E i \in DOMAIN frames : frames[i].tgp = m /\ frames[i].stmt # "acquire"
      <4>1. CASE j \in {1, 2}
        BY <2>1, <3>1, <4>1
      <4>2. CASE j \notin {1, 2}
        BY <1>7, <3>1, <4>2
      <4> QED
        BY <4>1, <4>2
    <3>2. ASSUME NEW i \in DOMAIN frames, frames[i].tgp = m /\ frames[i].stmt # "acquire"
          PROVE  \E j \in DOMAIN frames' : frames'[j].tgp = m /\ frames'[j].stmt # "acquire"
      <4>1. CASE i = 1
        BY <1>8, <2>1, <3>2, <4>1
      <4>2. CASE i # 1
        BY <1>6, <1>8, <3>2, <4>2
      <4> QED
        BY <4>1, <4>2
    <3> QED
      BY <3>1, <3>2
  <2> QED
    BY <1>2, <1>10, <2>2 DEF Freeing, LocksOK, Locked
<1>14. ForestOK' /\ AllPending'
  BY <1>2, <1>9, <1>10 DEF Freeing, ForestOK, AllPending, Closed
<1>15. frames' # <<Frame(root)>>
  <2>1. DOMAIN <<Frame(root)>> = {1}
    OBVIOUS
  <2> QED
    BY <1>8, <2>1
<1>16. Freeing'
  BY <1>11, <1>12, <1>13, <1>14, <1>15 DEF Freeing
<1> QED
  BY <1>2, <1>6, <1>10, <1>16, StillFreeing

\* The end of an activation: its node has no child left and nobody else points to it.
LEMMA FreeNodeStep ==
  ASSUME MInv, FreeNode
  PROVE  MInv'
<1>1. frames # <<>>
  BY DEF FreeNode, Top
<1>2. /\ at[Main] = "free" /\ Freeing /\ TypeOK
      /\ frames \in Seq(Frames) /\ 1 \in DOMAIN frames
      /\ Head(frames) = frames[1] /\ \A i \in DOMAIN frames : frames[i] \in Frames
      /\ Pending = Roots(frames[1]) \cup Rest /\ Roots(frames[1]) \cap Rest = {}
      /\ Roots(frames[1]) \subseteq live /\ frames[1].tgp \in Node
  BY <1>1, OnStack
<1> PICK n \in Node : n = frames[1].tgp
  BY <1>2
<1>3. /\ frames[1].stmt = "free" /\ frames' = Tail(frames)
      /\ UNCHANGED <<heap, at, thread_lock>> /\ BstUnchanged
      /\ live' = live \ {n} /\ owner'[n] = NULL
      /\ \A m \in Node : m # n => owner'[m] = owner[m]
  BY <1>2 DEF FreeNode, Top, TypeOK
<1>4. TypeOK'
  BY <1>2 DEF FreeNode, TypeOK, BstUnchanged, locals
<1>5. Roots(frames[1]) = {n} /\ heap[n] = NULL /\ n \in live
  <2>1. Roots(frames[1]) = {n}
    BY <1>3 DEF Roots, Subs
  <2> QED
    BY <1>2, <1>3, <2>1 DEF Freeing, FramesOK
<1>6. /\ frames' \in Seq(Frames)
      /\ \A j \in DOMAIN frames' : /\ j + 1 \in DOMAIN frames /\ j + 1 # 1 /\ j \in Int
                                   /\ frames'[j] = frames[j + 1]
      /\ \A i \in DOMAIN frames : i # 1 => i - 1 \in DOMAIN frames' /\ frames'[i - 1] = frames[i]
  <2>1. /\ Tail(frames) \in Seq(Frames) /\ DOMAIN Tail(frames) = 1 .. Len(frames) - 1
        /\ \A i \in DOMAIN frames : i # 1 => Tail(frames)[i - 1] = frames[i]
        /\ Len(frames) \in Nat /\ DOMAIN frames = 1 .. Len(frames)
    BY <1>1, <1>2, Stack
  <2> DEFINE T == Tail(frames)
  <2> HIDE DEF T
  <2>2. /\ T \in Seq(Frames) /\ DOMAIN T = 1 .. Len(frames) - 1
        /\ \A i \in DOMAIN frames : i # 1 => T[i - 1] = frames[i]
        /\ frames' = T
    BY <1>3, <2>1 DEF T
  <2>3. ASSUME NEW j \in DOMAIN T
        PROVE  /\ j + 1 \in DOMAIN frames /\ j + 1 # 1 /\ (j + 1) - 1 = j /\ j \in Int
    BY <2>1, <2>2
  <2>4. ASSUME NEW i \in DOMAIN frames, i # 1
        PROVE  i - 1 \in DOMAIN T
    BY <2>1, <2>2, <2>4
  <2>5. \A j \in DOMAIN T : T[j] = frames[j + 1]
    BY <2>2, <2>3
  <2> QED
    BY <2>2, <2>3, <2>4, <2>5
<1>7. Pending' = Rest /\ Pending' = Pending \ {n}
  <2>1. UNION {Roots(frames'[j]) : j \in DOMAIN frames'} = Rest
    <3>1. UNION {Roots(frames'[j]) : j \in DOMAIN frames'} \subseteq Rest
      BY <1>6 DEF Rest
    <3>2. \A i \in DOMAIN frames \ {1} :
            Roots(frames[i]) \subseteq UNION {Roots(frames'[j]) : j \in DOMAIN frames'}
      BY <1>6
    <3>3. Rest \subseteq UNION {Roots(frames'[j]) : j \in DOMAIN frames'}
      BY <3>2 DEF Rest
    <3> QED
      BY <3>1, <3>3
  <2>2. Pending' = UNION {Roots(frames'[j]) : j \in DOMAIN frames'}
    BY DEF Pending, Roots, Subs
  <2> QED
    BY <1>2, <1>5, <2>1, <2>2
<1>8. FramesOK'
  <2>1. ASSUME NEW j \in DOMAIN frames'
        PROVE  /\ frames'[j].tgp \notin Subs(frames'[j])
               /\ frames'[j].stmt = "left" => frames'[j].pa # frames'[j].pb
               /\ frames'[j].stmt # "acquire" => heap[frames'[j].tgp] = NULL
               /\ frames'[j].stmt \in {"right", "free"}
    BY <1>2, <1>6 DEF Freeing, FramesOK
  <2> QED
    BY <1>3, <2>1 DEF FramesOK, Subs
<1>9. FramesApart'
  <2>1. ASSUME NEW i \in DOMAIN frames', NEW j \in DOMAIN frames', i # j
        PROVE  Roots(frames'[i]) \cap Roots(frames'[j]) = {}
    <3>1. PICK a, b \in DOMAIN frames : a = i + 1 /\ b = j + 1
      BY <1>6
    <3>2. frames'[i] = frames[a] /\ frames'[j] = frames[b] /\ a # b
      BY <1>6, <2>1, <3>1
    <3> QED
      BY <1>2, <3>2 DEF Freeing, FramesApart
  <2> QED
    BY <2>1 DEF FramesApart, Roots, Subs
<1>10. LocksOK'
  <2>1. \A i \in DOMAIN frames : i # 1 => n # frames[i].tgp
    BY <1>2, <1>5 DEF Rest, Roots
  <2>2. ASSUME NEW m \in Node, m # n
        PROVE  (\E j \in DOMAIN frames' : frames'[j].tgp = m /\ frames'[j].stmt # "acquire")
                 <=> (\E i \in DOMAIN frames : frames[i].tgp = m /\ frames[i].stmt # "acquire")
    <3>1. ASSUME NEW j \in DOMAIN frames',
                 frames'[j].tgp = m /\ frames'[j].stmt # "acquire"
          PROVE  \E i \in DOMAIN frames : frames[i].tgp = m /\ frames[i].stmt # "acquire"
      BY <1>6, <3>1
    <3>2. ASSUME NEW i \in DOMAIN frames, frames[i].tgp = m /\ frames[i].stmt # "acquire"
          PROVE  \E j \in DOMAIN frames' : frames'[j].tgp = m /\ frames'[j].stmt # "acquire"
      BY <1>6, <2>2, <3>2
    <3> QED
      BY <3>1, <3>2
  <2>3. ~\E j \in DOMAIN frames' : frames'[j].tgp = n /\ frames'[j].stmt # "acquire"
    BY <1>6, <2>1
  <2>4. owner'[n] = IF Locked(n)' THEN Main ELSE NULL
    BY <1>3, <2>3 DEF Locked
  <2>5. \A m \in Node : m # n => owner'[m] = IF Locked(m)' THEN Main ELSE NULL
    BY <1>2, <1>3, <2>2 DEF Freeing, LocksOK, Locked
  <2> QED
    BY <2>4, <2>5 DEF LocksOK
<1>11. ForestOK'
  BY <1>2, <1>3, <1>5, <1>7 DEF Freeing, ForestOK
<1>12. AllPending'
  <2>1. Pending' \subseteq live'
    BY <1>2, <1>3, <1>7 DEF Freeing, AllPending
  <2>2. ASSUME NEW S \in SUBSET live', Pending' \subseteq S, Closed(S)'
        PROVE  S = live'
    <3> DEFINE R == S \cup {n}
    <3>1. R \in SUBSET live /\ Pending \subseteq R
      BY <1>3, <1>5, <1>7, <2>2
    <3>2. Closed(R)
      BY <1>3, <1>5, <2>2 DEF Closed
    <3>3. R = live
      BY <1>2, <3>1, <3>2 DEF Freeing, AllPending
    <3> QED
      BY <1>3, <2>2, <3>3
  <2> QED
    BY <2>1, <2>2 DEF AllPending
<1>13. frames' # <<Frame(root)>>
  <2>1. \A j \in DOMAIN frames' : frames'[j].stmt # "acquire"
    BY <1>2, <1>6 DEF Freeing, FramesOK
  <2>2. 1 \in DOMAIN <<Frame(root)>> /\ <<Frame(root)>>[1].stmt = "acquire"
    BY DEF Frame
  <2> QED
    BY <2>1, <2>2
<1>14. Freeing'
  BY <1>8, <1>9, <1>10, <1>11, <1>12, <1>13 DEF Freeing
<1> QED
  BY <1>2, <1>3, <1>4, <1>6, <1>14, StillFreeing DEF BstUnchanged

\* When the first activation has returned, nothing is left.
LEMMA MainReturnStep ==
  ASSUME MInv, MainReturn
  PROVE  MInv'
<1>1. /\ at[Main] = "free" /\ frames = <<>> /\ at' = [at EXCEPT ![Main] = "done"]
      /\ at'[Main] = "done" /\ at'[Worker] = at[Worker]
      /\ UNCHANGED <<vars, thread_lock, frames>>
  BY TheThreads DEF MainReturn, Goes, MInv, MTypeOK
<1>2. live = {}
  <2>1. Pending = {}
    BY <1>1 DEF Pending
  <2>2. Closed({})
    BY DEF Closed
  <2> QED
    BY <1>1, <2>1, <2>2 DEF MInv, Freeing, AllPending
<1>3. MTypeOK'
  BY <1>1 DEF MInv, MTypeOK, TypeOK, vars
<1>4. Places'
  BY <1>1, TheThreads DEF MInv, Places, vars
<1> QED
  BY <1>1, <1>2, <1>3, <1>4 DEF MInv, vars

-----------------------------------------------------------------------------
(* The theorems.                                                           *)

LEMMA InitMInv == MInit => MInv
<1> SUFFICES ASSUME MInit PROVE MInv
  OBVIOUS
<1>1. LinInv /\ Init
  BY InitIInv, InitLin DEF MInit, LinInv
<1>2. /\ at[Main] = "three" /\ at[Worker] = "unborn" /\ thread_lock = "none" /\ frames = <<>>
      /\ \A t \in Thread : pc[t] = "idle" /\ Done(t)
      /\ at \in [Thread -> {"three", "unborn"}]
  BY TheThreads DEF MInit, Init, Done
<1>3. Connected
  BY <1>1 DEF Init, Connected
<1>4. MTypeOK
  BY <1>1, <1>2 DEF MTypeOK, LinInv, IInv
<1>5. Places
  BY <1>2, TheThreads DEF Places
<1>6. Called
  BY <1>2, TheThreads DEF Called
<1>7. Progress
  <2>1. \A k \in Key : Contents[k] = NULL
    BY <1>1 DEF Init, Contents
  <2> QED
    BY <1>2, <2>1, TheCalls DEF Progress, Before
<1> QED
  BY <1>1, <1>2, <1>3, <1>4, <1>5, <1>6, <1>7 DEF MInv, Growing

LEMMA NextMInv == MInv /\ [MNext]_mvars => MInv'
<1> SUFFICES ASSUME MInv, [MNext]_mvars PROVE MInv'
  OBVIOUS
<1>1. CASE \E t \in Thread : InTree(t)
  BY <1>1, InTreeStep
<1>2. CASE Fill \/ MainInsert
  BY <1>2, MainCallStep
<1>3. CASE MakeLock \/ Spawn \/ WorkerRelease
  BY <1>3, LockStep
<1>4. CASE WorkerInsert
  BY <1>4, WorkerCallStep
<1>5. CASE Join
  BY <1>5, JoinStep
<1>6. CASE FreeAcquire
  BY <1>6, FreeAcquireStep
<1>7. CASE FreeLeft \/ FreeRight
  BY <1>7, RecurseStep
<1>8. CASE FreeNode
  BY <1>8, FreeNodeStep
<1>9. CASE MainReturn
  BY <1>9, MainReturnStep
<1>10. CASE UNCHANGED mvars
  <2>1. /\ UNCHANGED vars /\ UNCHANGED <<at, thread_lock, frames>>
        /\ heap' = heap /\ live' = live /\ owner' = owner /\ pc' = pc /\ call' = call
    BY <1>10 DEF mvars, vars
  <2>2. MTypeOK' /\ Places'
    BY <2>1 DEF MInv, MTypeOK, TypeOK, vars, Places
  <2>3. Contents' = Contents
    BY <2>1 DEF Contents
  <2>4. Growing => Growing'
    <3> SUFFICES ASSUME Growing PROVE Growing'
      OBVIOUS
    <3>1. LinInv'
      BY <2>1, NextLin DEF Growing
    <3>2. Connected'
      BY <2>1 DEF Growing, Connected, Closed
    <3>3. Called' /\ Progress'
      BY <2>1, <2>3 DEF Growing, Called, MainCall, Progress, Before, Done
    <3> QED
      BY <2>1, <3>1, <3>2, <3>3 DEF Growing
  <2>5. Freeing => Freeing'
    <3>1. FramesOK' <=> FramesOK
      BY <2>1 DEF FramesOK
    <3>2. (FramesApart' <=> FramesApart) /\ Pending' = Pending
      BY <2>1 DEF FramesApart, Pending
    <3>3. LocksOK' <=> LocksOK
      BY <2>1 DEF LocksOK, Locked
    <3>4. ForestOK' <=> ForestOK
      BY <2>1, <3>2 DEF ForestOK
    <3>5. AllPending' <=> AllPending
      BY <2>1, <3>2 DEF AllPending, Closed
    <3> QED
      BY <2>1, <2>3, <3>1, <3>2, <3>3, <3>4, <3>5 DEF Freeing
  <2> QED
    BY <2>1, <2>2, <2>4, <2>5 DEF MInv
<1> QED
  BY <1>1, <1>2, <1>3, <1>4, <1>5, <1>6, <1>7, <1>8, <1>9, <1>10
  DEF MNext, MainStep, MTerminated

LEMMA MInductive == MSpec => []MInv
BY InitMInv, NextMInv, PTL DEF MSpec

\* The program keeps to its states: main() and thread_func() are where their
\* statements are, thread_lock has one owner, and each activation of tree_free() has
\* a tree_t to free.
THEOREM MainTypeCorrect == MSpec => []MTypeOK
<1>1. MInv => MTypeOK
  BY DEF MInv
<1> QED
  BY <1>1, MInductive, PTL

\* The join through thread_lock is a join: while tree_free() walks the tree, without
\* a lock that would stop it, the worker has left the tree for good.
THEOREM JoinIsJoin == MSpec => []FreeAlone
<1>1. ASSUME MInv, frames # <<>>
      PROVE  /\ \A t \in Thread : pc[t] = "idle"
             /\ \A n \in Node : owner[n] # Worker
             /\ Head(frames).stmt = "acquire" => owner[Head(frames).tgp] = NULL
  <2>1. /\ Freeing /\ \A t \in Thread : pc[t] = "idle"
        /\ 1 \in DOMAIN frames /\ Head(frames) = frames[1] /\ frames[1].tgp \in Node
    BY <1>1, OnStack
  <2>2. \A n \in Node : owner[n] # Worker
    BY <2>1, TheThreads DEF Freeing, LocksOK
  <2>3. ASSUME frames[1].stmt = "acquire"
        PROVE  ~Locked(frames[1].tgp)
    <3>1. ASSUME NEW i \in DOMAIN frames, i # 1
          PROVE  frames[i].tgp # frames[1].tgp
      BY <2>1, <3>1 DEF Freeing, FramesApart, Roots
    <3> QED
      BY <2>3, <3>1 DEF Locked
  <2> QED
    BY <2>1, <2>2, <2>3 DEF Freeing, LocksOK
<1>2. MInv => FreeAlone
  BY <1>1 DEF FreeAlone
<1> QED
  BY <1>2, MInductive, PTL

\* At the join the tree holds what both threads inserted and nothing else: of the two
\* inserts of key 1, which race, either may have come last.
THEOREM BothInserted == MSpec => []JoinedContents
<1>1. ASSUME MInv, at[Main] = "free", frames = <<Frame(root)>>
      PROVE  Contents \in Joined
  BY <1>1 DEF MInv, Freeing
<1>2. MInv => JoinedContents
  BY <1>1 DEF JoinedContents, Joined
<1> QED
  BY <1>2, MInductive, PTL

\* treebox_free() frees every tree_t that the inserts of either thread allocated.
THEOREM NoneLeft == MSpec => []AllFreed
<1>1. MInv => AllFreed
  BY DEF MInv, AllFreed
<1> QED
  BY <1>1, MInductive, PTL
=============================================================================
