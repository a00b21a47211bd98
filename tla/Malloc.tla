------------------------------- MODULE Malloc -------------------------------
(***************************************************************************)
(* The binned allocator of memmgr/malloc.c.                                *)
(*                                                                         *)
(* Every pointer in the code is a multiple of WORD, so addresses count     *)
(* words; sizes are in bytes, as in the code.  A block at p has its size   *)
(* in the word before and, while it is free, the link to the next free     *)
(* block in its first word: lists, sizes and the clients' data are all in  *)
(* the one memory mem.                                                     *)
(***************************************************************************)
EXTENDS Integers

CONSTANTS WORD,       \* sizeof(size_t)
          ALIGN, BINS, BIGBLOCK,
          Addr,       \* addresses of words
          Base,       \* the addresses at which mmap() may put a mapping
          Request,    \* the sizes that clients ask for
          Word        \* what clients fill their blocks with

VARIABLES mem,        \* mem[a]: the word at address a
          bin,        \* bin[b]: the first free block of bin b, or NULL
          mapped,     \* mapped[p]: the length in words of the mapping at p, or 0
          held        \* held[p]: the size that a client has asked for and got at p

vars == <<mem, bin, mapped, held>>

NULL == 0
NONE == -1
Bin == 0 .. BINS - 1

\* max data size for blocks in bin b
bin2size(b) == ((b + 1)*ALIGN - 1)*WORD

\* Mutant: sizes are rounded down.
size2bin_Down(s) == IF s > bin2size(BINS - 1) THEN -1 ELSE s \div (WORD*ALIGN)

\* bin index for blocks of size s
size2bin(s) ==
  IF s > bin2size(BINS - 1) THEN -1
  ELSE (s + (WORD*(ALIGN - 1) - 1)) \div (WORD*ALIGN)

\* What testclaim() goes through the small sizes for (its assertion is commented
\* out): claims 1 to 4 above it, for size s and its bin.
testclaim(s) ==
  s <= bin2size(BINS - 1) =>
    /\ s <= bin2size(size2bin(s))
    /\ size2bin(s) \in Bin
    /\ size2bin(bin2size(size2bin(s))) = size2bin(s)
    /\ (bin2size(size2bin(s)) + WORD) % (WORD*ALIGN) = 0

WASTE == WORD*ALIGN - WORD
Small(s) == s <= bin2size(BINS - 1)
Words(x) == (x + WORD - 1) \div WORD

\* With more words to a block than two, a block of bin2size(b) bytes would be
\* taken for one of bin b + 1.  WORD is 4 or 8; model checking takes 2.
ASSUME SizeAssumption ==
  /\ WORD \in {2, 4, 8}
  /\ ALIGN = 2
  /\ BINS \in Nat \ {0}
  /\ BIGBLOCK \in Nat /\ BIGBLOCK >= WASTE + bin2size(BINS - 1) + WORD

\* mmap() returns whole pages.  Requests are those for which nbytes + WASTE + WORD
\* does not wrap around in size_t.
ASSUME AddrAssumption ==
  /\ Addr \subseteq Nat \ {0}
  /\ \A p \in Base : p \in Nat /\ p % ALIGN = 0
  /\ Request \subseteq Nat /\ Word \subseteq Nat

TypeOK ==
  /\ mem \in [Addr -> Nat]
  /\ bin \in [Bin -> Addr \cup {NULL}]
  /\ mapped \in [Base -> Nat]
  /\ held \in [Addr -> Request \cup {NONE}]

Init ==
  /\ mem = [a \in Addr |-> 0]
  /\ bin = [b \in Bin |-> NULL]
  /\ mapped = [p \in Base |-> 0]
  /\ held = [p \in Addr |-> NONE]

\* mmap0(NULL, len, ...) returns p: a new mapping of zeroes.
mmap0(p, len) ==
  /\ mapped[p] = 0
  /\ \A a \in p .. p + Words(len) - 1 : a \in Addr
  /\ \A q \in Base : \/ mapped[q] = 0
                     \/ q + mapped[q] <= p
                     \/ p + Words(len) <= q
  /\ mapped' = [mapped EXCEPT ![p] = Words(len)]

-----------------------------------------------------------------------------
(* Small blocks.                                                           *)

\* Mutant: the size word is left out of the sum.
Stride_NoSize(b) == Words(bin2size(b))

\* From one block to the next.
Stride(b) == Words(bin2size(b) + WORD)
Nblocks(b) == (BIGBLOCK - WASTE) \div (bin2size(b) + WORD)

\* The blocks that the mapping at p is cut into: the addresses of their links.
Links(p, b) == {p + ALIGN + j*Stride(b) : j \in 0 .. Nblocks(b) - 1}

\* Mutant: the links point to the size words, as the code once did.
fill_bin_NoWord(p, b) ==
  LET L == Links(p, b)
  IN  [a \in Addr |-> IF a + 1 \in L THEN bin2size(b)
                      ELSE IF a \in L
                           THEN IF a + Stride(b) \in L THEN a + Stride(b) - 1 ELSE NULL
                           ELSE mem[a]]

\* Memory after fill_bin(b) with mapping p: sizes, and each link to the next.
fill_bin(p, b) ==
  LET L == Links(p, b)
  IN  [a \in Addr |-> IF a + 1 \in L THEN bin2size(b)
                      ELSE IF a \in L
                           THEN IF a + Stride(b) \in L THEN a + Stride(b) ELSE NULL
                           ELSE mem[a]]

malloc_small(n) ==
  LET b == size2bin(n)
      p == bin[b]
  IN  /\ Small(n) /\ p # NULL
      /\ bin' = [bin EXCEPT ![b] = mem[p]]
      /\ held' = [held EXCEPT ![p] = n]
      /\ UNCHANGED <<mem, mapped>>

\* The bin is empty and is filled first; its first block is p.
malloc_refill(n, base) ==
  LET b == size2bin(n)
      p == base + ALIGN
  IN  /\ Small(n) /\ bin[b] = NULL
      /\ mmap0(base, BIGBLOCK)
      /\ mem' = fill_bin(base, b)
      /\ bin' = [bin EXCEPT ![b] = mem'[p]]
      /\ held' = [held EXCEPT ![p] = n]

free_small(p) ==
  LET s == mem[p - 1]
      b == size2bin(s)
  IN  /\ held[p] # NONE /\ Small(s)
      /\ mem' = [mem EXCEPT ![p] = bin[b]]
      /\ bin' = [bin EXCEPT ![b] = p]
      /\ held' = [held EXCEPT ![p] = NONE]
      /\ UNCHANGED mapped

-----------------------------------------------------------------------------
(* Large blocks.                                                           *)

malloc_large(n, base) ==
  /\ ~Small(n)
  /\ mmap0(base, n + WASTE + WORD)
  /\ mem' = [mem EXCEPT ![base + ALIGN - 1] = n]
  /\ held' = [held EXCEPT ![base + ALIGN] = n]
  /\ UNCHANGED bin

\* munmap(): what is mapped there next is zeroes again.
free_large(p) ==
  LET s == mem[p - 1]
      base == p - ALIGN
      gone == base .. base + Words(s + WASTE + WORD) - 1
  IN  /\ held[p] # NONE /\ ~Small(s)
      /\ mapped' = [mapped EXCEPT ![base] = 0]
      /\ mem' = [a \in Addr |-> IF a \in gone THEN 0 ELSE mem[a]]
      /\ held' = [held EXCEPT ![p] = NONE]
      /\ UNCHANGED bin

-----------------------------------------------------------------------------

\* mmap0() fails: malloc() returns NULL and nothing has changed.
malloc_fails(n) ==
  /\ Small(n) => bin[size2bin(n)] = NULL
  /\ UNCHANGED vars

\* The client writes to its block, the whole of it.
Write(p, w) ==
  /\ held[p] # NONE
  /\ mem' = [a \in Addr |-> IF p <= a /\ a < p + Words(held[p]) THEN w ELSE mem[a]]
  /\ UNCHANGED <<bin, mapped, held>>

Next ==
  \/ \E n \in Request :
       \/ malloc_small(n)
       \/ malloc_fails(n)
       \/ \E base \in Base : malloc_refill(n, base) \/ malloc_large(n, base)
  \/ \E p \in Addr :
       \/ free_small(p)
       \/ free_large(p)
       \/ \E w \in Word : Write(p, w)

Spec == Init /\ [][Next]_vars
=============================================================================
