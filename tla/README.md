# DeepSpecDB in TLA+

DeepSpecDB is a collection of C components for an in-memory database: B+trees
with cursors, a key-value store that is a trie of such B+trees, a binned
`malloc`, the hash tables, tuple indexes and iterators of a small query engine,
and a concurrent binary search tree. Most of it is accompanied by Coq proofs of
functional correctness (`verif/`, `model/`); those are about sequential code and
about fixed versions of it. This directory holds TLA+ specifications translated
from the C sources, the TLC configurations that check them on small instances,
and TLAPS proofs of their main properties.

    tlc -workers 4 -config BstConc.cfg MCBstConc       # one run
    tlapm MallocProof.tla                              # one module's proofs

`PROJECT.json` lists the components, runs, theorems, hazards, and the source
lines of every definition.

## 1. Inventory

| component | source | state | operations | talks to | status |
|---|---|---|---|---|---|
| concurrent search tree | `concurrency/bst_conc.c`, `threads.c` | nodes `tree_t` = lock + pointer to a record | `insert`, `lookup`, `delete`, `pushdown_left`, `turn_left` | pthread mutexes, `malloc` | modelled, proved |
| its demo program | `bst_conc.c` `main` | two threads, `thread_lock`, the stack of `tree_free` | `main`, `thread_func`, `tree_free` | the tree | modelled, proved |
| allocator | `memmgr/malloc.c`, `mmap0.c` | `bin[8]`, free lists threaded through the blocks, a size word before each block | `malloc`, `free`, `fill_bin` | `mmap`, `munmap` | modelled, proved |
| B+tree relation | `relation_mem.c` | tree of nodes with up to 15 entries; cursors = a path of nodes and entry indexes | put, get, move to key / first / next / previous, delete (a stub) | called by `index_int`, `kvstore`, `relapps` | modelled, proved |
| integer index, range query | `index_int.c`, `relapps.c` | none of their own; an array of records | make and move cursors, `RLAPP_RangeQuery` | a cursor of the relation | modelled, proved |
| B+tree relation as verified | `verif/btrees/relation_mem.c` | as above | the same, with the corrections the Coq proofs called for | | modelled, proved |
| key-value store | `kvstore.c`, `bordernode.c` | trie of B+trees, one per 8-byte slice; border nodes hold 8 prefix slots and a suffix slot or a link | `KV_Put`, `KV_Get` | the relation, through one cursor per tree | modelled, proved |
| string index | `index_string.c` | a port of that trie with stacks of cursors | put, `make_cursor`, `strict_first_cursor` | an index for slices | partly: the file is unfinished |
| hash tables, string lists | `inthash.c`, `stringlist.c` | 10 buckets of lists; a list with cursors | insert, lookup, iterate | the tuple index | modelled, proved |
| tuple index | `index.c`, `*_schema.c` | one index level per column, chosen by a schema | lookup, insert | hash tables, string lists | modelled, proved |
| query iterators | `db_operations_light.c`, `queue2.c` | iterators over tables and indexes, a FIFO of matching rows | scan, index scan, index join, materialize | the index | modelled, proved |
| byte helpers, string bag, permuter | `util.c`, `stringbag.c`, `permuter.c` | byte arrays, 4-bit packed permutation | slices, comparison; assign, get | the tries (slices); nobody | partly |
| first-order tuple index | `tuplekey/fo_index.c` | one value per level | lookup, insert | | not modelled |
| rewritten query engine | `db_util.c`, `db_seq_scan.c`, `db_index_join.c` | | | | not modelled |
| clients and tests | `*tests.c`, `*client.c`, `btreecomplexity.c` | none of their own | | all | read for the calls and the expected results |
| Coq development | `model/`, `verif/`, `papers/` | | | | not a program |

(The B+tree, trie and string sources are in `src/btrees and tries (Adewale)/`,
the query engine in `src/low level algos (Pablo)/`. `verifiable.c` is the store in
one file, and `tuplekey/` repeats the files of the tuple index; neither is mapped
a second time.)

**What is hard, and what makes it correct.**

* *Concurrent tree.* Hand-over-hand locking with a `delete` that rotates the
  doomed record down through the tree in many critical sections, while other
  threads descend past it. Correct: locks are released by their owner, nothing
  freed is touched, no subtree is lost, a descent never strays from the path of
  its key, every call takes effect at one instant, every call returns.
* *B+tree.* One recursive insertion splits nodes upwards and repairs the
  inserting cursor's path as it goes; every other cursor keeps its old path.
  Correct: a get returns the last value put; iteration visits every key once, in
  order; a put through one cursor leaves it at the new record.
* *Tries.* Which slot of which border node holds a key depends on its length
  and on the other keys with the same slice; conflicts push keys one layer down.
  Correct: they are maps, and the first cursor is at the least key; a cursor of the
  port holds one entry only, so that longer keys have none.
* *Allocator.* Size arithmetic at bin borders; links in the free blocks, in the
  memory that clients write to. Correct: blocks handed out are apart, aligned,
  large enough and inside a mapped region; a freed block can be handed out again.
* *Query engine.* Iterators that take rows out of queues which the index owns;
  cursors on a list that grows. Correct: the index groups the rows by their join
  values; every pair of matching rows comes out once. The second half does not hold.

There is one process with threads, no persistence, and no messages, so crash
recovery and message loss do not arise; `exit(1)` on a failed allocation is
modelled in the tree, a failing `mmap` in the allocator.

## 2. Structure

| modules | what they are |
|---|---|
| `AtomicMap`, `SortedMap`, `Allocator` | abstract specifications: a map with atomic operations, a sorted map with cursors, a memory allocator |
| `Departures` | the calls of the relation and its clients that do not keep what `SortedMap` says |
| `BstConc`, `BstMain` | the concurrent tree; the program around it |
| `BtNode`, `BtRelation`, `RelationClients` | nodes, the B+tree with cursors, its clients |
| `VerifRelation` | the verified B+tree |
| `BorderNode`, `KVStore`; `IndexString`; `Tries` | the store; the string index; the two side by side |
| `Malloc` | the allocator |
| `Tables`, `Query` | lists, hash tables and tuple index; scan and joins |
| `*Props` | the properties and refinement mappings of a component |
| `*Proof` | its theorems |
| `VerifRelationTree` | lemmas on B+trees, insertions and splits, for `VerifRelationProof` |
| `MC*`, `*.cfg` | instances for TLC |

Every component with a promise to its callers has an abstract specification and a run
that checks the refinement: `BstConc` and `KVStore` implement `AtomicMap`, the store but for
one case; `BtRelation` and `VerifRelation` implement `SortedMap` but for the calls named in
`Departures`; `Malloc` implements `Allocator`.
Components that use another one use what was shown of it: the tries keep a map
from slices to border nodes where the code keeps a B+tree with one cursor,
because `rel_map` shows that this is what the B+tree is; a scan of a table is the
sequence of its rows in the order of the primary key for the same reason.

The functions of the C code that call themselves are written as recursive functions,
or with the step they end at, in every module but those of the port of the trie: the
prover cannot reason about recursive operators.

## 3. The concurrent tree

**Modules.** `BstConc` is the tree. A `tree_t` is a `Node`; `heap[n]` is the
record `*(n->t)` or `NULL`; `owner[n]` is its mutex; `live` is the set of
allocated `tree_t`. Threads have a program counter at each lock operation, the
locals `tgt`, `old` (the node of `l_old`, or of `lp`), `tgq`, `tgl`, the call in
progress and its return value. One action runs from a lock operation to the
next, which is sound because everything a thread reads or writes in between
belongs to nodes it has locked; that is what `LockDiscipline`, `ChildStable` and
`WriteUnderLock` check rather than assume.

| action | code |
|---|---|
| `Invoke`, `AcquireRoot` | head of `insert`, `lookup`, `delete` |
| `Descend`, `AcquireNext`, `ReleaseOld` | the `while` loop: read the child pointer, lock the child, unlock the parent |
| `InsertLeaf`, `Update`, `MallocFails` | the two ends of `insert`, and `surely_malloc`'s `exit(1)` |
| `LookupHit`, `LookupMiss` | the two ends of `lookup` |
| `DeleteAbsent`, `DeleteFound` | the two ends of `delete`'s search |
| `AcquireRight`, `Rotate`, `ReleaseLp` | the loop of `pushdown_left` |
| `ReadLeft`, `AcquireLeft`, `Splice` | its exit: hang up the left subtree, free two `tree_t` and their locks |
| `Return` | the last `release2` |

`MCBstConc` starts TLC from every tree that inserting the `InitKeys` in some
order builds. `BstConcProps` states the properties. `AtomicMap` is what the tree
promises: a map whose operations take effect at one instant between call and
return; `Linearizable` says `BstConc` implements it, with the map read off the
live nodes. The instants are: linking the new record or overwriting the value;
reading the value or the empty node; the splice, or the empty node of a delete
that finds nothing. Rotations, whoever they interleave with, change nothing.

`BstMain` composes the tree with `main()` and `thread_func()`: insert three
keys, spawn, both threads insert key 1, join through `thread_lock`, and
`tree_free` with its stack made explicit. Here `Release` and `Acquire` of
`thread_lock` are used as a join: the worker unlocks a mutex that main locked.
What pthreads says about that, and about destroying a locked mutex
(`freelock2`), is outside the code and the model.

**Runs.**

| run | instance | question |
|---|---|---|
| `bst_safety` | 3 threads, one call each, every tree of the keys 1 to 3, 7 nodes | lock discipline, no use after free, no lost subtree, stable children, writes under lock, and the invariant of the proof with computed ranges: search order, search paths |
| `bst_linearizable` | 2 threads, two calls each, memory for two records | implements `AtomicMap`; every call returns or the process exits |
| `bst_main` | the program as written | the join, `tree_free`, termination |

*Bounds.* Three threads are enough for a deleter, a thread below it and a thread
that waits behind it; two calls each let memory be freed and used again. Three
keys give every shape a rotation distinguishes (a right child with and without a
left subtree, a pushdown of two rounds). In `bst_linearizable` the tree starts
with any of the keys 2 and 3, and with both of them memory is full: an insert of
key 1 then exits unless a delete has come first. Node addresses are interchangeable, so
`LowestFirst` lets `malloc` take the lowest free ones. `MaxCalls` bounds the
calls of a thread; the proofs are for any number.

*Fairness.* Weak fairness of each thread: the scheduler runs every thread that
can run. A mutex that is free again and again may still be denied to one waiter
for ever; pthread mutexes promise no more, so `EveryCallReturns` is checked for
bounded numbers of calls (then others run out of calls), not as starvation
freedom. No fairness is put on `Invoke` in the tree; in `BstMain` the program
order is the client.

**Proofs.** `BstConcProof` proves, for any threads, keys, values, nodes and
number of calls, an inductive invariant `IInv`: the types, `LockDiscipline`,
`NoUseAfterFree`, `ChildStable`, which locals are set at which program counter,
and that no two live nodes share a child and none has the root as a child. The
last is what makes the rest inductive: without it a rotation might move the
child that another thread waits for. From it follow `TypeCorrect`, `LocksHeld`,
`MemorySafe`, `ChildrenStable`, `WritesUnderLock`. `NothingLeaks` is
`Spec => []NoLostSubtree`. Reachability is said without recursion there: a set of
nodes is `Closed` if it holds the children of its members, and no closed set that
has the root is smaller than `live`. A step that adds or removes nodes preserves
that because a closed set after the step, with the removed nodes put back, is one
before it.

It also proves `TreeIsLinearizable`: `Spec => Linearizable`. "The tree
is ordered" is usually said by recursion; here it is said locally, by
the existence of two functions `lo`, `hi` from nodes to integers (`Ranges`):
a child's range is the part of its parent's on its side of the key; ranges of
empty nodes and keys of full ones are pairwise disjoint; every thread is at a
node whose range contains its key. That (`LinInv`, theorem `StaysSearchTree`) is
inductive: each heap step gives the
new witness explicitly, and `Rotate` is the interesting case. A lookup that ends
at an empty node then knows that no live node holds its key.

`BstMainProof` proves the program around the tree, for any memory, by an invariant
`MInv` in two halves. Until the join it is the invariant of the tree,
since every step of the program is one of `BstConc` or leaves the tree alone, with
what each thread has put so far (`Progress`) and who has `thread_lock` (`Places`).
After it, it is about the stack of `tree_free()`: no two activations are to free
the same subtree, what is left is a forest that hangs from the subtrees still to be
freed, and a closed set that holds those is all that is left (`Freeing`). From it
follow `MainTypeCorrect`; `JoinIsJoin`, while `tree_free()` runs the worker is in no call
and will make none; `BothInserted`, after the join the tree has the three keys, with the value of
one of the two inserts that race for key 1; and `NoneLeft`, at the end nothing is
allocated.

The assumptions are those of `BstConc` and `BstMain`: keys are C ints, `NULL` is none
of the other values, the root is a node, the two threads are the worker and main.

*Only model-checked:* liveness (`EveryCallReturns`, `MainEnds`). The run of
`InductiveHere` checks `LinInv` with the ranges computed down the tree in place
of "there are `lo` and `hi`".

*Not modelled:* the condition variables of `threads.c` (not used by the tree),
printing, weak memory (all shared accesses are under locks).

## 4. The B+tree relation and its clients

**Modules.** `BtNode` is a node: `ptr0`, the sequence `entries` of key and
child or record, and the marks `isLeaf`, `FirstLeaf`, `LastLeaf`; its operators
are the searches within a node and the two halves of `splitnode`. `BtRelation`
is the tree and its cursors: `heap`, `root`, `numRecords`, `depth`, and
`path[c]`, the arrays `ancestors` and `ancestorsIdx` of cursor `c` as one
sequence of node and index. The functions that walk (`moveToKey`,
`AscendToParent`, `moveToNext`, `putEntry`, ...) are operators on a heap and a
path with the names they have in the code, and each `RL_` operation is an action;
the relation is sequential, so an operation is atomic. `op` and `ret` record the
last call and its answer. So that it can be reasoned about, the model has no
recursive operator: the functions that walk down are `Down`, a recursive function on
nodes that follows one index at each; those that walk up go to the deepest stop that meets
their condition (`Ascend`); and of `putEntry`, `Level` is where its recursion ends and
`Splits` what the calls below that level make of the heap. `VerifRelation` is written
the same way, which is what makes the two comparable.

`RelationClients` adds the functions of `index_int.c` that make, move and read a
cursor, and `RLAPP_RangeQuery` with the array it fills. The others of
`index_int.c` only rename an operation of the relation.

`SortedMap` is what `relation.h` and `relapps.h` promise, and follows no code: a map
and, for each cursor, the key it stands at. Neither version keeps all of it.
`Departures` has one action for each kind of call that does not, with the line of the
header, the case in which it happens and what is done instead:

| departure | header | what the code does |
|---|---|---|
| `NewCursorAtFirst` | `relation.h:38`: on creation the cursor is invalid | it is at the first record, if there is one |
| `PreviousIsFirst` | `relation.h:89`: True if there is a previous record | there is one, the first; the cursor goes there, and the answer is False |
| `NothingDeleted` | `relation.h:72`: the record is deleted, the cursor invalid | a stub; False |
| `RangeAborts` | `relapps.h:22`: the records, or NULL if there are none | an assertion fails if no key is at or above the lower bound; a fifth record is written past the end of the array, which grows once and is never said to have grown. `abort` stands for any outcome |
| `KeyZeroDenied` | `relation.h:26`: a key is any unsigned long | `Iget_key` answers at key 0 that there is none |

The first three are in the verified version too, whose header says the same
(`verif/btrees/relation.h`, lines 46, 97 and 80); the last two are of the clients.
In `BtRelationProps` the refinement reads the map off the leaves and a cursor's key off
its path, where the end of a leaf counts as the start of the next. `SortedMapButDepartures`
says that every call is one of `SortedMap` or one of these, in the case given, and
that it is that call with the same arguments, not just with some. Without any one of
the five, the run finds the call that is missing, so the list has none too many; that
the property holds says that there is no sixth. It is not a claim that the headers
are kept.

`VerifRelation` is the version in `verif/btrees`, through one cursor: `First` and
`Last` mark whole spines, `isNodeParent` judges leaves and inner nodes, steps on
an empty relation are no special case, and `moveToLast` goes to the last.
`VerifRelationProps` has its properties. Its one cursor is called `Handle` in the
refinement, because a constant of the specification is what another module can
instantiate.

The constant `Ops` says which operations the clients of a run call. A path that
leads to an entry which is not in use makes the cursor `Lost`: the code would
read what was left in the array, so the model ends there. That needs a second
cursor; `CursorOnPath` shows that one cursor alone is never lost. `moveToPrev`
may take `entries[-1].ptr`; outside the bounds of the array, it is the word before the
first entry, and that is `ptr0`, which the struct declares just before.

**Runs.**

| run | instance | question |
|---|---|---|
| `rel_map` | one cursor, fan-out 2, 5 keys, 2 records, every operation and client | implements `SortedMap` but for the five departures; balance, search, leaf marks and count (`WellFormed`); the cursor is a path; a step back after a put is the record put; deletion of the relation frees all but the root |
| `verif_map` | one cursor, fan-out 2, 6 keys | the verified version implements `SortedMap` but for the first three departures; its tree and cursor are well formed |
| `rel_previous` (violated) | fan-out 2, 6 keys | the step back goes to the predecessor |
| `rel_two_puts` (violated) | two cursors that put and move to keys | a key is in the relation once |

*Bounds.* The code's fan-out is 15. Fan-out 2 with 5 or 6 keys, which arrive in
every order, splits the root as a leaf and as an inner node, which gives three
levels, first, last and middle leaves, and new entries on both sides of a split. The keys
of `rel_map` are 0 to 4, because `index_int.c` treats key 0 in its own way.
`ShallowSteps` leaves the step back out of trees of three levels in `rel_map`
and `IsSortedMapButDepartures`, where it is wrong (below); `rel_previous` and `verif_map` have it there.
What a call does depends on the tree and the cursor, not on the call before it, so
`MCNext` does not repeat it after calls that leave them alike: every call is taken
after those of `AfterMove`, and after the others the cursor is only freed or made.
No step is lost: the calls of `AfterMove` alone bring the tree and the cursor to all
the 1529 states that all calls together bring them to before the deletion, and the
18156 states of the run are those without this bound. In
`verif_map` the record of one key varies (`OneVaries`): an update anywhere else is
the same step with the same tree. In both versions `Room` lets a put start only with
enough free nodes for a split on every level and a new root, since the code exits
when it is out of memory; 11 nodes are always enough for 5 keys, 14 for 6.

**What the runs show.** With one cursor, the relation is the sorted map, but for the
five departures and for `RL_MoveToPrevious`, which is wrong in trees of three levels:
`moveToLast` calls `moveToFirst` for the last child, so it lands on the first leaf of that
subtree. The verified version steps back correctly at any height. A second
cursor is not told of splits: its path starts at what was the root, so it finds
only half of the keys, and a put through it may insert a key twice. `kvstore.c` and
`index_int.c` keep one cursor per tree, which is what the first result covers.

Which side of a departure is to be changed is for the authors to say. `relationtests.c:516`
counts on the False at the first record, against the header; the deletion is commented
out. `RangeAborts` and `KeyZeroDenied` look like mistakes of the code; the hazards list
them.

Where no header says anything the models follow the code: `Imake_cursor` leaks the
cursor when the key is missing; `Inext_cursor` and `Iprev_cursor` answer with the
cursor wherever it is.

*Not modelled:* printing, failed allocations, the callback of
`RL_DeleteRelation`, the commented-out deletion.

**What is proved.** `VerifRelationProof` shows for every fan-out of two or more, every set of
keys and records and any number of nodes that the verified tree stays a B+tree
(`StaysWellFormed`), the cursor a complete path in it (`StaysComplete`), and the
relation the sorted map but for the three departures (`IsSortedMapButDepartures`).
It assumes that the keys are numbers, that the nodes are finitely many, that
`MIDDLE` is half of `FANOUT + 1`, and that `NULL` and `END` are none of the values
they stand beside (`NULL` is no path of a cursor either). `WellFormed` speaks of what
searches find, which is not inductive. `IInv` says it locally, with two witnesses:
`lev`, the height of a node above the leaves, and `rng`, the keys that belong below
it. In `Tree(h, r, dep, lev, rng, big)` the children of a node are one level down and
share out its range at its keys (`Kids`, `Apart`), every node is reached from its
parent (`Reached`), the keys of a node ascend within its range, its marks say whether
no keys come before, or after, those of its range (`Nodes`), and it is half full and
no more than full (`Sizes`). Node `big` may hold one entry too many: within a put, the
tree is well formed as if the entry on its way up were already there (`Pending`).
`SplitTree` shows that a split of such a node leaves its parent the only one that may
be too big, `Grow` the same of the root, and `LevelIs` that the splits end at a node
with room; `PutEntryIs` puts this together. The recursions that remain, down a path
and up through the splits, are on numbers that the witnesses bound, and are proved by
the least counterexample (`LeastNat`). That the fields stay right through all this is
the part a test hardly reaches: it takes a tree of three levels to see a split below a
split.

`IsSortedMapButDepartures` rests on what is left in front of the cursor. `Left` is the set of
keys from the stop at the leaf on, in that leaf and in all leaves after it, and the
cursor's key is the least of them, or `END` if there is none; the end of a leaf and
the start of the next so are the same place, as they are in the refinement. For
that, neighbouring leaves must leave no key between them: `NextTo` says so of their
ranges, and `TurnNextTo` derives it from the entry in the node where their paths
part, which is the upper bound of the one subtree and the lower bound of the other
(`SpineParts`). It follows that `moveToNext` takes the least key from those left
(`AfterNextIs`), that `moveToPrev` adds the greatest of the others (`AfterPrevIs`),
and that a search leaves the keys from the one looked for on (`RestSearched`), for
paths that go up as many levels as they need; `rel_previous` shows that the older
version fails just here. `MapPut` says that a put, however it splits, changes the
map at its key and nowhere else, `SortedPut` that the cursor is at that key
afterwards. Each operation then is that of the map with the same arguments and the
same answer, or one of the departures (`SortedStep`, `SortedCalls`).

`BtRelationProof` is about the older version, with one cursor (`OneCursor`; with two,
`rel_two_puts` shows that it does not hold) and all calls of operations and clients in
any order (`FullSpec`). It proves the four invariants of `rel_map`,
`PutThenPrevious` and, with `ShallowSteps`, `SortedMapButDepartures`. The proof is a comparison. `Mark` takes a heap of the older
version and gives each node the marks of the verified one: `First` if the path
to the first record goes through it, `Last` if the path to the end does. The invariant
`IInv` says that, until the relation is deleted, the marked heap satisfies the
invariant of the verified tree, and that the marks of the leaves are right
(`SameNode`: a leaf is marked as its twin is, an inner node not at all). Then every
function finds what its counterpart finds (the lemmas named `...Twins`): the older
`findRecordIndex` looks for the index that the other counts up to, another test of
a leaf sends the cursor up to the same node (`ParentTwins`), the older `moveToNext` may fail at the end of a path, but not while the
tree says that there is a next entry. An insertion puts marks in three places, at the
leaf, at each split and at the root; `MarkIs` shows that whatever the older version
writes there, the paths of the new tree give the marks that the verified version
writes (`PutTwins`). Only `moveToLast` has no counterpart; `LeadsOn` shows that
even where it is wrong it leads to a leaf, so the cursor stays a path, and
`StepTwins` that it is right whenever it is called for a leaf. A step back
after a put (`StepBack`) does not leave the leaf.
The deletion is a recursion over all subtrees (`Kin`); since every node has one
parent, it frees each node once, and all but the root (`FreedIs`).

`IsSortedMapButDepartures` is the refinement, for every call of the relation, of the index
and of the range query. A path of the one tree stands at the same key as in the other
(`PosTwins`) and the records are the same (`MapTwins`), so that the keys still to come
(`Left`) say where each call leads. What the clients add is loops. `ToEndStands`: each step of
`Ilast_cursor` takes one key off `Left`, so after `numRecords` steps nothing is
left. `Walks` is the invariant of the loop of the range query: before its i-th path
are the i - 1 least keys of the range, each read once; `WalksEnd` compares the number of
paths with that of the keys in the range, for the answer and for the abort.
`ShallowSpec` has the steps back only in trees of at most two levels, the
exception that `rel_previous` shows; everything else is free.

## 5. The tries

**Modules.** `BorderNode` has strings (sequences of `Char`), slices of `L`
characters padded with 0, and the border node with its operations. `KVStore` is
`KV_Put` and `KV_Get`. `node[n]` is a trie node: the map from slices to border
nodes that its B+tree is. The abstraction is justified by `rel_map` and `IsSortedMapButDepartures`:
each tree has one cursor, and only `RL_MoveToKey`, `RL_GetRecord` and `RL_PutRecord` are
called; none of the departures is among their calls.

One action is one round of the loop of `KV_Put`, with a name for each of the
cases its comments number; `KV_Get` is one action for each level of its
recursion. `key` is the key object the caller has passed, whose `str` and `len` the loop
advances; `sndKey` is the key taken out of a border node to be put again below. `pc`
is "again" after case 1.0, which forgets to set `putCompleted`: the loop goes
round once more and overwrites the value with itself.

| action | case | action | case |
|---|---|---|---|
| `PutPair` | 0.0.0 | `UpdateSuffix` | 1.1.1.0 |
| `PushDown` | 0.0.1 | `SplitSuffix` | 1.1.1.1 |
| `PutApart` | 0.1 | `FollowLink` | link, line 322 |
| `PutNewSlice` | 1.0 | `PutSuffix` | nothing, line 329 |
| `PutPrefix` | 1.1.0 | `PutAborts` | an assertion of `bordernode.c` |

`IndexString` is `index_string.c`, which ports the trie to an index for slices
and recursive values and is unfinished: put, `create_pair`, the border node,
`make_cursor` and `strict_first_cursor`, with cursors as stacks. The model takes from
the file what is there, and no more:

* `push_cursor` multiplies a capacity of 0, so that each push takes an array for one
  entry. The second writes past its end, and the cursor is then `Overrun`, of
  which nothing is said. Only keys whose layer is the first have cursors.
* `BN_CompareSuffix` is declared and has no body: `make_cursor` may be told either.
* `Sempty` sets neither root nor size. The trie of the model starts from an
  `Iempty()`, as the layers below do: that is an assumption on whoever calls `put`.
* The indexes for slices are those of `index_int.c`: `Iget_key` answers that key 0 is none,
  so `put` takes a border node for a slice of zero bytes for absent and replaces it.
  In one point they are what `index_string.c` assumes and not what `index_int.c` does:
  each call has the index besides the cursor, and a cursor made for an absent key can be
  put at.

`Tries` runs the two tries side by side, one put in each, on the same keys.

`KVStoreProps` says that the store implements `AtomicMap` with one client
(`ImplementsMap`), in every step but case 0.0.0, about which `kv_lost` is. The
map of the refinement is the trie's, with `sndKey` counted as present while it is
on its way. A put takes effect in the round that stores the value. `CountsNewKeys` says
that `numKeys` counts it there if the key is new, and nowhere else. `PortIsMap`
says of the border nodes of the port that each key finds the value last put under
it, if none of its slices is zero. `FirstIsLeast` says that the first cursor is one that
`make_cursor` makes for the least key in the order of strings, unless it is overrun.

**Runs.**

| run | keys | question |
|---|---|---|
| `kv_map` | 6 keys of 0 to 5 characters with case 0.0.0 and the empty key, 2 values, in the store and in the port | every step of the store but case 0.0.0 is one of `AtomicMap`, `numKeys` counts new keys, only the empty key fails an assertion, the trie keeps its shape, the proof's invariant holds, every call returns or aborts; the port is a map and its first cursor is at the least key |
| `kv_lost` (violated) | 6 keys with case 0.0.0 | a put leaves the other keys alone |

*Bounds.* `L` is 2 for 8, with two characters, one of them 0 so that padding
matters. Five characters are three layers, so a conflict is pushed down through
a layer that both keys share (0.0.1) before they part.

*Fairness.* Weak fairness of the one thread, in `kv_map`: the scheduler runs it.

**What the runs show.** Case 0.0.0 stores `sndValue` under `key` instead of
`sndKey`, so a put may remove another key and give its value to the new one;
without that case the store is a map. The port corrects it, on the same keys. A put that goes down
a layer changes the key object of its caller, which the tests look up and free
afterwards. The empty key, which `KV_NewKey` makes and `KV_Put` accepts, fails
the assertion of `BN_SetPrefixValue`; in the port its slice is zero, so that each put of
it replaces the border node, and `strict_first_cursor`, which counts lengths from 1, skips
it and finds nothing if it is alone in the first border node.

**Proofs.** `KVStoreProof` proves, for any characters, slices and keys,
`TypeCorrect` and `NeverAborts`: no key but the empty one makes an assertion of
`bordernode.c` fail. The inductive invariant `IInv` adds to the types that a border
node has either a suffix, not empty, and a value, or a link to an existing
node, or nothing (`suffixLink` is used for both, and the code tells them apart
by the suffix alone); and that what is still to be put or looked up is never
empty. It rests on two lemmas about strings (`RestOK`, `NextKeySliceOK`), one for
each operation of a border node, and one for a step of the trie (`PutRecordOK`,
`NewNodeOK`). The assumptions are those of `BorderNode` and `KVStore`: there is a
character 0, a slice has at least one character, `NULL` is none of the other
values. `Invariant` is `Spec => []IInv`.

The second half of the module proves `StoreIsMap`, `Spec => ImplementsMap`; `CountsKeys`,
`Spec => CountsNewKeys`; and `WellShaped`, the shape of the trie. They need no hypothesis
on the keys: in case 0.0.0 they say what the shape and the count are, though not what
the map is. `StoreIsAtomicMap` leaves the exception out, for keys that are
`KeysApart`: where two keys share their first slices, and the next one too, both go on
after it. That says that case 0.0.0 does not arise, and no more.

Each trie node stands for the keys that come to it, and the code keeps no trace of
which they are. The invariant `PInv` therefore says that there are two functions on trie
nodes: `dep`, how many slices down a node is, and `rep`, one key whose slices
lead there. `Placed` says that these agree with links, with
suffixes and with each other; `Where` says where the current call is, and that
`sndKey` is the rest of a key that belongs in the subtree of the current node. A
step that makes a node extends both functions. The lookup that the refinement
mapping reads the map with is a recursive function (`LayersOf`), and there is a
lemma that it exists and satisfies its equation (`LayersStep`). From there on the
proof is about one key at a time: a key's lookup stops at one
node (`StopsSomewhere`, `FindIs`), a write there changes what is found for that
key and no other (`ValueSet`, `WrittenOK`), and a suffix that is moved down is still
found (`GrownOK`, `MovingIs`). One lemma for each action says what it does to the
map, and `MapsStep` that it is a step of `AtomicMap` or a stutter.

Termination and the port, whose put and cursors are recursive, are model-checked
only.

*Not modelled:* failed allocations (`newKVNode` is not checked at line 309),
leaked key objects; `KV_Delete`, `KV_GetRange` and `KV_DeleteKVStore`, which are
declared but have no body. Of `index_string.c`: `normalize_cursor`, which passes
its arguments in the wrong order and is called by nothing; `Smake_cursor`, whose
result is an empty cursor, since `make_cursor` works on a copy; `Sput`, `Sfirst_cursor`,
`Snext_cursor` and others, which are declared without a body.

## 6. The allocator

**Modules.** `Malloc` is `malloc()` and `free()`. Every pointer in the code is a
multiple of `WORD`, so addresses count words; sizes are in bytes, as in the code.
There is one memory `mem`: the size word before each block, the link in the first
word of a free block, and what clients write. `bin[b]` heads the list of bin `b`,
`mapped[p]` is the length of the mapping at `p`, and `held[p]`, the only state
that the code does not have, is the size a client asked for at `p`.

| action | code |
|---|---|
| `malloc_small`, `malloc_refill` | a block off the list of its bin; an empty bin is filled first (`fill_bin`) |
| `malloc_large`, `free_large` | a mapping for one block; `munmap` |
| `malloc_fails` | `mmap0` returns NULL |
| `free_small` | the block goes to the front of its bin's list |
| `Write` | a client fills its block |

`mmap0` is external: it returns any place in `Base` that is free, or fails. New
mappings are zeroes. `Allocator` is what `malloc.h` promises: a block is aligned,
all of it is in memory, it shares no word with the blocks that are held, and its
contents stay until it is freed. `MallocProps` has the invariant and the
refinement.

**Run.** `malloc`: words of 2 bytes, two bins (blocks of 2 and of 6 bytes), two
places for mappings of 9 words, cut into four blocks or two, or used for one large
block; requests on both sides of each border between bins.

*Bounds.* The two bins compete for the two mappings and either can have both, so
a bin is refilled while blocks of an earlier refill are in use. `Prompt`: a
client fills its block as soon as it has it, so that stale links in used blocks do
not tell states apart; links are overwritten in any case.

**What is shown.** Under the assumption on clients (they write to their own
blocks only and free a block once; `test.c:39-42` frees one twice), sizes and
links stay where the code looks for them and the promise is kept. `NothingLost`
adds that every free block is on the list of its bin, which is what the comment at
`malloc.c:50-52` is about. With `ALIGN` above 2 a block of `bin2size(b)` bytes
would be taken for one of bin `b+1` and claim 3 of `testclaim` fails; hence
`ALIGN = 2` in `SizeAssumption`, as in the code. `Request` holds sizes for which
`nbytes+WASTE+WORD` does not wrap around.

**Proofs.** `MallocProof` proves, for `WORD` 2, 4 or 8, any number of bins, size
of mappings, memory and requests:

* `Claims`, the four claims of `malloc.c:115-122`, which `testclaim()` was
  written to print for 122 sizes;
* `BlocksFound`, `Spec => []IInv`. `IInv` says that mappings are apart, that
  each is cut up for one bin with the size of that bin before every block or is
  one large block in use (`MapsInUse`), that held blocks are large enough
  (`HeldFits`), and that the lists run through free blocks of their bin with no two
  links to one block (`ListsApart`). `MapsInUse` is what makes it inductive:
  `free()` knows the bin of a block only from the word before it, which must
  survive all writes of clients, refills and unmappings elsewhere;
* `NoneLost`, `Spec => []NothingLost`. The list of a bin is said without recursion:
  the free blocks of the bin hold the first and with each the next one (`OnList`), and no
  smaller set does (`AllLinked`). A refill is the hard step: the chain it makes has to
  reach each block of the new mapping;
* `KeepsPromise`, `Spec => ImplementsAllocator`: by `HeldApart`, which follows from
  `IInv`, and one lemma for handing a block out and one for taking it back.

*Not modelled:* sizes that wrap around; clients that break the rules; `main.c`
and `test.c`.

## 7. The query engine

**Modules.** `Tables` has the string list with its cursors, the integer hash
table of 10 buckets, and the tuple index over them: where the code pairs schemas
and keys to the right, a schema is the sequence of the schemas of its columns here
and a key a sequence of values, and `index_lookup` and `index_insert` go down along
both. A table is a value; the code's cells are reached through one pointer only. `Query` is
`db_operations_light.c`: `index_scan` puts the rows of the inner relation into
fifos by the values of their join columns, one row per step, and
`index_join_init`, `_next` and `_close` are the calls of a client, such as
`materialize`, on an iterator `env[j]`. `fifo` is the fifos by address: the index
holds addresses, and all joins on one index share them. `mc` is a client's cursor on
the string list of the first column.

**Runs.** `query`, and `query_lost` on the same instance: the tables of `db_testing.c` with a second join column, three
rows each with every combination of two values in each join column, a repeated
primary key, and empty tables; two joins on the one index, each opened twice,
their calls in any order.

*Bounds.* The integers 1 and 11 share a bucket of the hash table. Three outer rows are
enough for two with the same join values and one between. The cursor `mc` moves while
the index is built only, since the list does not change afterwards. Deadlock is not
checked: scans end, and the client stops.

**What is shown.** While it is built, the index groups the rows as the comment at
`db_operations_light.c:128` says (`IndexGroups`), and cursors on its string list
keep their place as it grows (`CursorKeepsItsPair`). The rows that come out match and
are in the order of the outer scan (`JoinMatches`), and none comes out twice after its join
was opened, whether it is opened for the second time or shares the fifos with an open one
(`NoRowTwice`).

The comment at lines 200-203 describes an iterator that gives the merged tuples of all
matching pairs. `JoinIsComplete` says that of a join that has the index to itself, and
the run `query_lost` refutes it: the join takes the inner rows out of the fifos of the
index, so that a second outer row with the same join values gets none. It does hold
if the join values of the outer rows differ, as in `db_testing.c`; then the join
is the whole one, in order (`JoinOfDistinct`). A join that is opened again, or shares the
index, finds what is left; nothing in the repository says that it should find more or
less, so beyond `JoinMatches` and `NoRowTwice` nothing is claimed of it.

**Proofs.** `QueryProof` proves the five properties for any columns, join columns,
tables, number of joins and of times they are opened. Assumed of the constants is
what the code asks for: names of columns differ, the columns to join on are
there, as many and of the same domains on both sides (`index_join` asserts the first
and wants the second checked), the primary key is one integer (`index_data` exits
otherwise), rows have values of their columns' domains, and `NULL` is no address.

* The index is a map: after `index_insert`, `index_lookup` finds the new value
  under its key and what it found before under every other one (`InsertLooksUp`),
  though keys share buckets, first columns and inner tables. It is proved from the list of cells
  (`ListInsert`) to tables (`TableInsert`) to columns, one at a time
  (`InsertSteps`).
* `IInv` is the inductive invariant. `OwnFifos` says that keys have fifos of their
  own with rows of that key, each once; without it a row taken for one key might be
  missing from another. `Environments` says that an open join is at its first
  call, or at an outer row with the fifo for it. `TakesAll` says what the only open join has
  made so far and will still make of its outer row is `Made`, a list computed from the
  relations alone, and that fifos of keys it has not seen are whole; when outer rows
  differ, that list is the whole join. `Once` and
  `InOrder` say the same of single rows for joins that share the index.
* `index_join_next` is the hard step: it moves over any number of outer rows that
  find nothing, which must add nothing to `Made` (`Skips`), and takes a row out of
  a fifo of the index that other joins may be at (`RowTaken`).

The properties are invariants of the run. `IInv` follows them closely and was
checked by TLC on the same instance.

*Not modelled:* printing, the copying of attribute words (a concatenation), and a call
of `next` before `init` (`db_testing.c:193`).

## 8. What is not modelled

* `stringbag.c` and `permuter.c`: used by nothing but a test client; of `util.c`,
  what only test programs call.
* `tuplekey/fo_index.c`: no insert of a new key returns. Below the last column
  `index_insert` calls `index_new`, which asserts 0 for the end of a schema, so
  there are no states to check.
* `db_util.c`, `db_seq_scan.c`, `db_index_join.c`: a rewrite in progress. The scan
  hands the iterator's environment to `get_pair` in place of the cursor, and the
  join does not compile; what they do is not defined.
* Test programs and command-line clients: they keep no state. Their calls and
  expected results were used to choose the actions and the properties.
* The Coq development, which is not a program.
* Everywhere: printing, failing allocations except where said, weak memory (all
  shared accesses of the concurrent tree are under locks).

## 9. Proved and model-checked

| module | theorems, for all values of the constants | by |
|---|---|---|
| `BstConcProof` | types, lock discipline, memory safety, stable children, writes under lock; no lost subtree | inductive invariant `IInv`; with it, `Connected` |
| | search order and search paths; the tree implements `AtomicMap` | `LinInv`: `IInv` and a witness for `Ranges` |
| `BstMainProof` | the join, the contents after it, `tree_free()` frees everything | inductive invariant `MInv` |
| `KVStoreProof` | types, no failed assertion | inductive invariant `IInv` |
| | the shape of the trie; `numKeys` counts new keys; but for case 0.0.0, and for `KeysApart` without exception, the store implements `AtomicMap` | `PInv`: `IInv` and a witness for `Placed` |
| `VerifRelationTree`, `VerifRelationProof` | the B+tree stays well formed and the cursor a complete path in it; but for three departures it implements `SortedMap` | inductive invariant `IInv`, with witnesses for height and range of each node; with it, `Left` |
| `BtRelationProof` | for one cursor: types, the B+tree stays well formed, the cursor a path in it; a step back after a put; deletion frees all but the root; but for the five departures and steps back in high trees, it and its clients implement `SortedMap` | `IInv`: a verified tree, once the marks are put in; with it, `Walks` |
| `QueryProof` | the index groups the rows; joins match, in order; no row comes out twice; a join of outer rows that differ is whole; a cursor keeps its pair | inductive invariant `IInv` |
| `MallocProof` | size claims, blocks found, no block lost, the allocator implements `Allocator` | inductive invariant `IInv`; with it, `Linked` |

Each `IInv` (with computed ranges, `InductiveHere`, for the binary tree) is an
invariant of a run as well, but those of the query engine (section 7) and of the
B+tree: TLC cannot look for the witnesses of the latter, and `verif_map` checks what
follows from it, `WellFormed`, `CursorComplete` and `SortedMapButDepartures`. Only model-checked are:

* liveness: `EveryCallReturns` of tree and store, `MainEnds`;
* what several cursors of a relation do;
* the port of the trie (`PortIsMap`, `FirstIsLeast`): `put` and the cursors recurse over layers, and the
  prover cannot reason about recursive operators.

The four violated runs are findings: they quote a header or a comment, and TLC's
counterexample is a sequence of legal calls. That the headers are not kept in the cases
of `Departures` is no run of its own: it is said there, line by line.
