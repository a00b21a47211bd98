------------------------------ MODULE MallocProps ------------------------------
(***************************************************************************)
(* What must hold of the allocator.  The code keeps no table of its        *)
(* blocks: which bin a mapping was cut up for, and which of its blocks are *)
(* free, can only be read off the sizes that are stored in the memory that *)
(* clients write to as well.                                               *)
(***************************************************************************)
EXTENDS Malloc, FiniteSets

Maps == {p \in Base : mapped[p] # 0}

\* The size stored in the first block of a mapping tells what it is for.
Header(p) == mem[p + ALIGN - 1]
Pages(b) == {p \in Maps : Header(p) = bin2size(b)}

Cut(b) == UNION {Links(p, b) : p \in Pages(b)}
Free(b) == {a \in Cut(b) : held[a] = NONE}
Large(a) == a - ALIGN \in Maps /\ ~Small(mem[a - 1])

\* Mappings lie in memory, apart from each other.
MapsApart ==
  /\ \A p \in Maps : \A a \in p .. p + mapped[p] - 1 : a \in Addr
  /\ \A p, q \in Maps : p = q \/ p + mapped[p] <= q \/ q + mapped[q] <= p

\* A mapping is cut up for a bin, every block with its size before it, or is
\* one large block that a client holds, just as long as free() will unmap.
MapsInUse ==
  \A p \in Maps :
     \/ \E b \in Bin :
          /\ p \in Pages(b) /\ mapped[p] = Words(BIGBLOCK)
          /\ \A a \in Links(p, b) : mem[a - 1] = bin2size(b)
     \/ /\ Header(p) \in Request /\ ~Small(Header(p))
        /\ mapped[p] = Words(Header(p) + WASTE + WORD)
        /\ held[p + ALIGN] = Header(p)

\* A client has a block, and it is as large as the client asked for.
HeldFits ==
  \A a \in Addr : held[a] # NONE =>
     \/ \E b \in Bin : a \in Cut(b) /\ held[a] <= bin2size(b)
     \/ Large(a) /\ held[a] = mem[a - 1]

\* The lists run through free blocks of their own bin only, and no two links
\* lead to the same block.
ListsApart ==
  \A b \in Bin :
    LET F == Free(b)
    IN  /\ bin[b] \in F \cup {NULL}
        /\ \A a \in F :
             /\ mem[a] \in F \cup {NULL}
             /\ mem[a] = NULL \/ mem[a] # bin[b]
             /\ \A c \in F : mem[a] = mem[c] => a = c \/ mem[a] = NULL

\* The inductive invariant: malloc() and free() find every block where its size and
\* its link say it is.  It takes clients that write to their own blocks only, and
\* free them once (test.c:39-42 frees one twice).
IInv == TypeOK /\ MapsApart /\ MapsInUse /\ HeldFits /\ ListsApart

-----------------------------------------------------------------------------
\* A set with the first block of list b and, for each block in it, the next one.
OnList(b, S) ==
  /\ bin[b] \in S \cup {NULL}
  /\ \A a \in S : mem[a] \in S \cup {NULL}

\* No block is missing from list b: a smaller set does not hold all that the list
\* leads to.
AllLinked(b) == \A S \in SUBSET Free(b) : OnList(b, S) => S = Free(b)

\* Every free block is on the list of its bin: none is lost, whatever the order
\* of allocations, frees and refills.  (fill_bin links the blocks of a new
\* mapping; malloc.c:50-52 notes that its links were wrong for a long time.)
NothingLost == \A b \in Bin : OnList(b, Free(b)) /\ AllLinked(b)

-----------------------------------------------------------------------------
\* malloc.h's promise: blocks are aligned and shared with nobody, and what a
\* client has written stays until it frees the block.
Promise == INSTANCE Allocator
ImplementsAllocator == Promise!Spec
=============================================================================
