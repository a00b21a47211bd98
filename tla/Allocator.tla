------------------------------ MODULE Allocator ------------------------------
(***************************************************************************)
(* What malloc.h promises: a block that is handed out is aligned, shares   *)
(* no word with the blocks that are held, and keeps its contents until it  *)
(* is freed.  Addresses count words of WORD bytes.                         *)
(***************************************************************************)
EXTENDS Integers

CONSTANTS WORD, ALIGN,
          Addr,      \* the addresses of words
          Request,   \* the sizes, in bytes, that clients ask for
          Word       \* what clients fill their blocks with

VARIABLES held,      \* held[p]: the size asked for at p, or NONE
          mem        \* mem[a]: the word at address a

NONE == -1

\* How many words x bytes take, and the words of a block of n bytes at p.
Words(x) == (x + WORD - 1) \div WORD
Block(p, n) == {a \in Addr : p <= a /\ a < p + Words(n)}

Owned == {a \in Addr : \E p \in Addr : held[p] # NONE /\ a \in Block(p, held[p])}

Init ==
  /\ held = [p \in Addr |-> NONE]
  /\ mem \in [Addr -> Nat]

\* Whatever else the step does to memory.
Keeps(S) == mem' \in [Addr -> Nat] /\ \A a \in S : mem'[a] = mem[a]

\* A block of n bytes, the whole of it usable and none of it in use.
Malloc(p, n) ==
  /\ held[p] = NONE
  /\ held' = [held EXCEPT ![p] = n]
  /\ p % ALIGN = 0
  /\ \A a \in p .. p + Words(n) - 1 : a \in Addr
  /\ \A q \in Addr : held[q] # NONE => \A a \in Block(p, n) : a \notin Block(q, held[q])
  /\ Keeps(Owned)

Free(p) ==
  /\ held[p] # NONE
  /\ held' = [held EXCEPT ![p] = NONE]
  /\ Keeps(Owned')

\* The client writes to the block it holds, and nothing else changes.
Write(p, w) ==
  /\ held[p] # NONE
  /\ UNCHANGED held
  /\ mem' = [a \in Addr |-> IF a \in Block(p, held[p]) THEN w ELSE mem[a]]

Next ==
  \/ \E p \in Addr, n \in Request : Malloc(p, n)
  \/ \E p \in Addr : Free(p)
  \/ \E p \in Addr, w \in Word : Write(p, w)

Spec == Init /\ [][Next]_<<held, mem>>
=============================================================================
