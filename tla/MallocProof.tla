----------------------------- MODULE MallocProof -----------------------------
(***************************************************************************)
(* For any number of bins, any size of mappings and any addresses at which *)
(* they may be put: the size arithmetic is right (the claims of            *)
(* malloc.c:115-122), malloc() and free() find each block as they left it, *)
(* and the blocks that clients hold are aligned, apart and keep their      *)
(* contents.                                                               *)
(***************************************************************************)
EXTENDS MallocProps, WellFoundedInduction, TLAPS

-----------------------------------------------------------------------------
(* Sizes.                                                                  *)

LEMMA BinSize ==
  ASSUME NEW b \in Nat
  PROVE  /\ bin2size(b) = (2*b + 1) * WORD
         /\ bin2size(b) \in Nat
         /\ Words(bin2size(b)) = 2*b + 1
         /\ Stride(b) = 2*b + 2
         /\ WASTE = WORD
<1>1. CASE WORD = 2 BY <1>1, SizeAssumption DEF bin2size, Words, Stride, WASTE
<1>2. CASE WORD = 4 BY <1>2, SizeAssumption DEF bin2size, Words, Stride, WASTE
<1>3. CASE WORD = 8 BY <1>3, SizeAssumption DEF bin2size, Words, Stride, WASTE
<1> QED BY <1>1, <1>2, <1>3, SizeAssumption

LEMMA WordsOf ==
  ASSUME NEW x \in Nat
  PROVE  /\ Words(x) \in Nat
         /\ x > 0 => Words(x) > 0
         /\ Words(x + WASTE + WORD) = Words(x) + 2
         /\ \A y \in Nat : x <= y => Words(x) <= Words(y)
<1>1. CASE WORD = 2 BY <1>1, SizeAssumption DEF Words, WASTE
<1>2. CASE WORD = 4 BY <1>2, SizeAssumption DEF Words, WASTE
<1>3. CASE WORD = 8 BY <1>3, SizeAssumption DEF Words, WASTE
<1> QED BY <1>1, <1>2, <1>3, SizeAssumption

\* A small size is in a bin, and fits into the blocks of that bin.
LEMMA SmallSize ==
  ASSUME NEW s \in Nat, Small(s)
  PROVE  /\ size2bin(s) \in Bin
         /\ s <= bin2size(size2bin(s))
<1> DEFINE b == size2bin(s)
<1>0. BINS \in Nat /\ BINS > 0 /\ BINS - 1 \in Nat
  BY SizeAssumption
<1>1. /\ bin2size(BINS - 1) = (2*(BINS - 1) + 1) * WORD
      /\ bin2size(BINS - 1) \in Nat
      /\ s <= bin2size(BINS - 1)
  BY <1>0, BinSize DEF Small
<1>2. b = (s + (WORD*(ALIGN - 1) - 1)) \div (WORD*ALIGN)
  BY <1>1 DEF size2bin
<1> HIDE DEF b
<1>3. b \in 0 .. BINS - 1 /\ s <= (2*b + 1) * WORD
  <2>1. CASE WORD = 2 BY <2>1, <1>0, <1>1, <1>2, SizeAssumption
  <2>2. CASE WORD = 4 BY <2>2, <1>0, <1>1, <1>2, SizeAssumption
  <2>3. CASE WORD = 8 BY <2>3, <1>0, <1>1, <1>2, SizeAssumption
  <2> QED BY <2>1, <2>2, <2>3, SizeAssumption
<1>4. bin2size(b) = (2*b + 1) * WORD
  BY <1>0, <1>3, BinSize
<1> QED BY <1>3, <1>4 DEF Bin, b

\* The size of a bin's blocks tells the bin, which is how free() finds it.
LEMMA BinOfSize ==
  ASSUME NEW b \in Bin
  PROVE  /\ b \in Nat
         /\ Small(bin2size(b))
         /\ size2bin(bin2size(b)) = b
<1>0. b \in Nat /\ BINS - 1 \in Nat /\ b <= BINS - 1
  BY SizeAssumption DEF Bin
<1>1. /\ bin2size(b) = (2*b + 1) * WORD
      /\ bin2size(BINS - 1) = (2*(BINS - 1) + 1) * WORD
  BY <1>0, BinSize
<1>2. CASE WORD = 2 BY <1>2, <1>0, <1>1, SizeAssumption DEF Small, size2bin
<1>3. CASE WORD = 4 BY <1>3, <1>0, <1>1, SizeAssumption DEF Small, size2bin
<1>4. CASE WORD = 8 BY <1>4, <1>0, <1>1, SizeAssumption DEF Small, size2bin
<1> QED BY <1>0, <1>2, <1>3, <1>4, SizeAssumption

\* malloc.c:115-122: the four claims about the sizes of bins, for every size, not
\* for the 122 that testclaim() prints.
THEOREM Claims == \A s \in Nat : testclaim(s)
<1> SUFFICES ASSUME NEW s \in Nat, Small(s)
             PROVE  /\ s <= bin2size(size2bin(s))
                    /\ size2bin(s) \in Bin
                    /\ size2bin(bin2size(size2bin(s))) = size2bin(s)
                    /\ (bin2size(size2bin(s)) + WORD) % (WORD*ALIGN) = 0
  BY DEF testclaim, Small
<1>1. size2bin(s) \in Bin /\ s <= bin2size(size2bin(s))
  BY SmallSize
<1>2. PICK b \in Bin : b = size2bin(s)
  BY <1>1
<1>3. b \in Nat /\ bin2size(b) = (2*b + 1) * WORD
  BY BinOfSize, BinSize
<1>4. (bin2size(b) + WORD) % (WORD*ALIGN) = 0
  <2>1. CASE WORD = 2 BY <2>1, <1>3, SizeAssumption
  <2>2. CASE WORD = 4 BY <2>2, <1>3, SizeAssumption
  <2>3. CASE WORD = 8 BY <2>3, <1>3, SizeAssumption
  <2> QED BY <2>1, <2>2, <2>3, SizeAssumption
<1> QED BY <1>1, <1>2, <1>4, BinOfSize

-----------------------------------------------------------------------------
(* The blocks of a mapping.                                                *)

LEMMA Division ==
  ASSUME NEW x \in Nat, NEW d \in Nat, d > 0
  PROVE  x \div d \in Nat /\ (x \div d) * d <= x /\ (x >= d => x \div d >= 1)
OBVIOUS

\* The blocks and the word before the first are as many as the mapping has, or fewer.
LEMMA BlocksFit ==
  ASSUME NEW b \in Bin
  PROVE  /\ Nblocks(b) \in Nat /\ Nblocks(b) >= 1
         /\ Nblocks(b) * (2*b + 2) + 1 <= Words(BIGBLOCK)
<1> DEFINE N == Nblocks(b)
<1> DEFINE D == (2*b + 2) * WORD
<1>0. /\ b \in Nat /\ BINS - 1 \in Nat /\ b <= BINS - 1
      /\ WORD \in Nat /\ BIGBLOCK \in Nat
  BY SizeAssumption DEF Bin
<1>1. /\ bin2size(b) + WORD = D
      /\ bin2size(BINS - 1) = (2*(BINS - 1) + 1) * WORD
      /\ WASTE = WORD
  BY <1>0, BinSize, SizeAssumption
<1>2. BIGBLOCK >= WORD + (2*(BINS - 1) + 1) * WORD + WORD
  BY <1>1, SizeAssumption
<1>3. BIGBLOCK - WORD \in Nat /\ D \in Nat /\ D > 0 /\ BIGBLOCK - WORD >= D
  <2>1. CASE WORD = 2 BY <2>1, <1>0, <1>2
  <2>2. CASE WORD = 4 BY <2>2, <1>0, <1>2
  <2>3. CASE WORD = 8 BY <2>3, <1>0, <1>2
  <2> QED BY <2>1, <2>2, <2>3, SizeAssumption
<1>4. N = (BIGBLOCK - WORD) \div D
  BY <1>1 DEF Nblocks
<1>5. PICK M \in Int : M = N * (2*b + 2)
  BY <1>0, <1>3, <1>4, Division
<1>6. N \in Nat /\ N >= 1 /\ N * D <= BIGBLOCK - WORD
  BY <1>3, <1>4, Division
<1>7. N * D = M * WORD
  BY <1>0, <1>5, <1>6
<1>8. M + 1 <= Words(BIGBLOCK)
  <2>1. CASE WORD = 2 BY <2>1, <1>0, <1>5, <1>6, <1>7 DEF Words
  <2>2. CASE WORD = 4 BY <2>2, <1>0, <1>5, <1>6, <1>7 DEF Words
  <2>3. CASE WORD = 8 BY <2>3, <1>0, <1>5, <1>6, <1>7 DEF Words
  <2> QED BY <2>1, <2>2, <2>3, SizeAssumption
<1> QED BY <1>5, <1>6, <1>8

\* A block, its size word included, lies in its mapping; its link is aligned.
LEMMA BlockInside ==
  ASSUME NEW b \in Bin, NEW p \in Base, NEW a \in Links(p, b)
  PROVE  /\ a \in Nat /\ p + 2 <= a
         /\ a + 2*b + 1 <= p + Words(BIGBLOCK)
         /\ a % 2 = 0
<1>0. b \in Nat /\ p \in Nat /\ p % 2 = 0 /\ ALIGN = 2 /\ Stride(b) = 2*b + 2
  BY AddrAssumption, SizeAssumption, BinOfSize, BinSize
<1>1. PICK j \in 0 .. Nblocks(b) - 1 : a = p + 2 + j * (2*b + 2)
  BY <1>0 DEF Links
<1>2. Nblocks(b) \in Nat /\ Nblocks(b) * (2*b + 2) + 1 <= Words(BIGBLOCK)
  BY BlocksFit
<1>3. Words(BIGBLOCK) \in Nat
  BY WordsOf, SizeAssumption
<1>4. j \in Nat /\ j + 1 <= Nblocks(b)
  BY <1>1, <1>2
<1>5. (j + 1) * (2*b + 2) <= Nblocks(b) * (2*b + 2)
  BY <1>0, <1>2, <1>4
<1>6. PICK m \in Nat : m = j * (b + 1)
  BY <1>0, <1>4
<1>7. a = p + 2 + 2*m /\ (j + 1) * (2*b + 2) = 2*m + 2*b + 2
  BY <1>0, <1>1, <1>4, <1>6
<1>8. a + 2*b + 1 <= p + Words(BIGBLOCK)
  <2>1. 2*m + 2*b + 3 <= Words(BIGBLOCK)
    BY <1>0, <1>2, <1>3, <1>5, <1>6, <1>7, <1>4
  <2> QED BY <2>1, <1>0, <1>3, <1>6, <1>7
<1> QED BY <1>0, <1>6, <1>7, <1>8

\* Two blocks of a mapping do not overlap.
LEMMA BlocksOfMapping ==
  ASSUME NEW b \in Bin, NEW p \in Base,
         NEW a \in Links(p, b), NEW c \in Links(p, b)
  PROVE  a = c \/ a + 2*b + 2 <= c \/ c + 2*b + 2 <= a
<1>0. b \in Nat /\ p \in Nat /\ ALIGN = 2 /\ Stride(b) = 2*b + 2 /\ Nblocks(b) \in Nat
  BY AddrAssumption, SizeAssumption, BinOfSize, BinSize, BlocksFit
<1>1. PICK i \in 0 .. Nblocks(b) - 1 : a = p + 2 + i * (2*b + 2)
  BY <1>0 DEF Links
<1>2. PICK j \in 0 .. Nblocks(b) - 1 : c = p + 2 + j * (2*b + 2)
  BY <1>0 DEF Links
<1>3. \A m, n \in Nat : m < n => m * (2*b + 2) + 2*b + 2 <= n * (2*b + 2)
  BY <1>0
<1>4. PICK x \in Nat, y \in Nat : x = i * (2*b + 2) /\ y = j * (2*b + 2)
  BY <1>0, <1>1, <1>2
<1>5. x = y \/ x + 2*b + 2 <= y \/ y + 2*b + 2 <= x
  BY <1>0, <1>1, <1>2, <1>3, <1>4
<1>6. a = p + 2 + x /\ c = p + 2 + y
  BY <1>1, <1>2, <1>4
<1> QED BY <1>0, <1>4, <1>5, <1>6

LEMMA FirstBlock ==
  ASSUME NEW b \in Bin, NEW p \in Base
  PROVE  p + 2 \in Links(p, b)
<1>1. b \in Nat /\ p \in Nat /\ ALIGN = 2 /\ Nblocks(b) \in Nat /\ Nblocks(b) >= 1
  BY AddrAssumption, SizeAssumption, BinOfSize, BlocksFit
<1> DEFINE link(j) == p + ALIGN + j*Stride(b)
<1>2. link(0) = p + 2 /\ 0 \in 0 .. Nblocks(b) - 1
  <2>1. Stride(b) \in Nat
    <3>1. Stride(b) = 2 * b + 2
      BY <1>1, BinSize, Zenon
    <3>2. 2 * b + 2 \in Nat
      BY <1>1
    <3> QED
      BY <3>1, <3>2, Zenon
  <2>2. 0 * Stride(b) = 0
    BY <2>1
  <2>3. 0 \in 0 .. Nblocks(b) - 1
    BY <1>1
  <2> QED BY <1>1, <2>2, <2>3
<1>3. Links(p, b) = {link(j) : j \in 0 .. Nblocks(b) - 1}
  BY DEF Links
<1> HIDE DEF link
<1> QED BY <1>2, <1>3

-----------------------------------------------------------------------------
(* What the inductive invariant says of blocks and mappings.               *)

LEMMA MapFacts ==
  ASSUME TypeOK, NEW p \in Maps
  PROVE  p \in Base /\ p \in Nat /\ p % 2 = 0 /\ mapped[p] \in Nat /\ mapped[p] > 0
BY AddrAssumption, SizeAssumption DEF Maps, TypeOK

\* A mapping that is cut up is so for one bin.
LEMMA PageFacts ==
  ASSUME IInv, NEW b \in Bin, NEW p \in Pages(b)
  PROVE  /\ p \in Maps /\ Header(p) = bin2size(b) /\ Small(Header(p))
         /\ mapped[p] = Words(BIGBLOCK)
         /\ \A a \in Links(p, b) : mem[a - 1] = bin2size(b)
<1>1. p \in Maps /\ Header(p) = bin2size(b) /\ Small(Header(p))
  BY BinOfSize DEF Pages
<1>2. PICK c \in Bin : /\ p \in Pages(c) /\ mapped[p] = Words(BIGBLOCK)
                       /\ \A a \in Links(p, c) : mem[a - 1] = bin2size(c)
  BY <1>1 DEF IInv, MapsInUse
<1>3. b = c
  BY <1>1, <1>2, BinOfSize DEF Pages
<1> QED BY <1>1, <1>2, <1>3

LEMMA LargeFacts ==
  ASSUME IInv, NEW p \in Maps, ~Small(Header(p))
  PROVE  /\ Header(p) \in Nat /\ Header(p) > 0
         /\ held[p + 2] = Header(p)
         /\ mapped[p] = Words(Header(p)) + 2
<1>1. ~ \E b \in Bin : p \in Pages(b)
  BY PageFacts
<1>2. /\ mapped[p] = Words(Header(p) + WASTE + WORD) /\ held[p + 2] = Header(p)
      /\ Header(p) \in Nat
  BY <1>1, SizeAssumption, AddrAssumption DEF IInv, MapsInUse
<1>3. bin2size(BINS - 1) \in Nat
  BY BinSize, SizeAssumption
<1> QED BY <1>2, <1>3, WordsOf DEF Small

\* Blocks in bins do not overlap, whichever mappings they are in.
LEMMA CutApart ==
  ASSUME IInv,
         NEW b \in Bin, NEW p \in Pages(b), NEW a \in Links(p, b),
         NEW c \in Bin, NEW q \in Pages(c), NEW d \in Links(q, c)
  PROVE  \/ a = d /\ b = c /\ p = q
         \/ a + 2*b + 2 <= d
         \/ d + 2*c + 2 <= a
<1>0. b \in Nat /\ c \in Nat /\ p \in Base /\ q \in Base /\ p \in Nat /\ q \in Nat
  BY BinOfSize, PageFacts, MapFacts DEF IInv
<1>1. a \in Nat /\ p + 2 <= a /\ a + 2*b + 1 <= p + Words(BIGBLOCK)
  BY <1>0, BlockInside
<1>2. d \in Nat /\ q + 2 <= d /\ d + 2*c + 1 <= q + Words(BIGBLOCK)
  BY <1>0, BlockInside
<1>3. CASE p = q
  <2>1. b = c
    BY <1>3, PageFacts, BinOfSize
  <2> QED BY <1>0, <1>3, <2>1, BlocksOfMapping
<1>4. CASE p # q
  <2>1. /\ mapped[p] = Words(BIGBLOCK) /\ mapped[q] = Words(BIGBLOCK)
        /\ p \in Maps /\ q \in Maps
    BY PageFacts
  <2>2. p + Words(BIGBLOCK) <= q \/ q + Words(BIGBLOCK) <= p
    BY <1>4, <2>1 DEF IInv, MapsApart
  <2>3. Words(BIGBLOCK) \in Nat
    BY WordsOf, SizeAssumption
  <2> QED BY <1>0, <1>1, <1>2, <2>2, <2>3
<1> QED BY <1>3, <1>4

\* Whose block p is: one of bin b in mapping q, with that bin's size before it.
InBin(p, q, b) ==
  /\ b \in Bin /\ q \in Pages(b) /\ p \in Links(q, b)
  /\ mem[p - 1] = bin2size(b)
  /\ held[p] <= bin2size(b)

\* Or the large block that a mapping was made for.
IsLarge(p, q) ==
  /\ q \in Maps /\ ~Small(Header(q))
  /\ p = q + 2 /\ mem[p - 1] = Header(q) /\ held[p] = Header(q)
  /\ mapped[q] = Words(held[p]) + 2

LEMMA HeldPlace ==
  ASSUME IInv, NEW p \in Addr, held[p] # NONE
  PROVE  (\E q \in Base, b \in Bin : InBin(p, q, b)) \/ (\E q \in Base : IsLarge(p, q))
<1>1. CASE \E b \in Bin : p \in Cut(b) /\ held[p] <= bin2size(b)
  <2>1. PICK b \in Bin : p \in Cut(b) /\ held[p] <= bin2size(b)
    BY <1>1
  <2>2. PICK q \in Pages(b) : p \in Links(q, b)
    BY <2>1 DEF Cut
  <2>3. mem[p - 1] = bin2size(b) /\ q \in Base
    BY <2>2, PageFacts DEF Maps
  <2> QED BY <2>1, <2>2, <2>3 DEF InBin
<1>2. CASE Large(p) /\ held[p] = mem[p - 1]
  <2>1. p - 2 \in Maps /\ ~Small(mem[p - 1])
    BY <1>2, SizeAssumption DEF Large
  <2>2. p \in Nat /\ p - 2 \in Nat /\ p - 2 \in Base
    BY <2>1, MapFacts, AddrAssumption DEF IInv
  <2>3. Header(p - 2) = mem[p - 1]
    BY <2>2, SizeAssumption DEF Header
  <2>4. /\ held[(p - 2) + 2] = Header(p - 2)
        /\ mapped[p - 2] = Words(Header(p - 2)) + 2
    BY <2>1, <2>3, LargeFacts
  <2>5. p = (p - 2) + 2
    BY <2>2
  <2>6. IsLarge(p, p - 2)
    BY <1>2, <2>1, <2>3, <2>4, <2>5 DEF IsLarge
  <2> QED BY <2>2, <2>6
<1> QED BY <1>1, <1>2 DEF IInv, HeldFits

LEMMA HeldFacts ==
  ASSUME IInv, NEW p \in Addr, held[p] # NONE
  PROVE  /\ p \in Nat /\ p > 0 /\ held[p] \in Nat /\ Words(held[p]) \in Nat
         /\ held[p] \in Request
<1>1. held[p] \in Request
  BY DEF IInv, TypeOK
<1>2. p \in Nat /\ p > 0 /\ held[p] \in Nat
  <2>1. Addr \subseteq Nat \ {0} /\ Request \subseteq Nat
    BY AddrAssumption
  <2>2. p \in Nat /\ p # 0
    BY <2>1
  <2>3. held[p] \in Nat
    BY <2>1, <1>1
  <2> QED BY <2>2, <2>3
<1> QED BY <1>1, <1>2, WordsOf

\* The block that a client holds lies in its mapping.
LEMMA HeldInside ==
  ASSUME IInv, NEW p \in Addr, held[p] # NONE, NEW q \in Base,
         IsLarge(p, q) \/ \E b \in Bin : InBin(p, q, b)
  PROVE  /\ q \in Maps /\ q + 2 <= p /\ p + Words(held[p]) <= q + mapped[q]
         /\ p < q + mapped[q] /\ p % 2 = 0
<1>1. p \in Nat /\ held[p] \in Nat /\ Words(held[p]) \in Nat
  BY HeldFacts
<1>2. CASE IsLarge(p, q)
  <2>1. q \in Nat /\ q % 2 = 0
    BY <1>2, MapFacts DEF IsLarge, IInv
  <2>2. Words(held[p]) > 0
    BY <1>2, LargeFacts, WordsOf DEF IsLarge
  <2> QED BY <1>1, <1>2, <2>1, <2>2 DEF IsLarge
<1>3. ASSUME NEW b \in Bin, InBin(p, q, b)
      PROVE  /\ q \in Maps /\ q + 2 <= p /\ p + Words(held[p]) <= q + mapped[q]
             /\ p < q + mapped[q] /\ p % 2 = 0
  <2>1. /\ q + 2 <= p /\ p + 2*b + 1 <= q + Words(BIGBLOCK) /\ p % 2 = 0
        /\ b \in Nat /\ q \in Maps /\ mapped[q] = Words(BIGBLOCK) /\ q \in Nat
    BY <1>3, BlockInside, BinOfSize, PageFacts, MapFacts DEF InBin, IInv
  <2>2. Words(held[p]) <= 2*b + 1
    <3>1. /\ bin2size(b) \in Nat /\ Words(bin2size(b)) = 2*b + 1
          /\ held[p] <= bin2size(b)
      BY <1>3, <2>1, BinSize DEF InBin
    <3> QED BY <1>1, <3>1, WordsOf
  <2>3. Words(BIGBLOCK) \in Nat
    BY WordsOf, SizeAssumption
  <2> QED BY <1>1, <2>1, <2>2, <2>3
<1> QED BY <1>2, <1>3

\* A block that is held keeps clear of all other blocks in bins, and of their sizes.
LEMMA HeldClear ==
  ASSUME IInv, NEW p \in Addr, held[p] # NONE,
         NEW b \in Bin, NEW q \in Pages(b), NEW a \in Links(q, b)
  PROVE  \/ a = p
         \/ a + 2*b + 2 <= p
         \/ p + Words(held[p]) < a /\ p + 1 < a
<1>0. p \in Nat /\ held[p] \in Nat /\ Words(held[p]) \in Nat
  BY HeldFacts
<1>1. /\ b \in Nat /\ q \in Maps /\ q \in Base /\ q \in Nat
      /\ mapped[q] = Words(BIGBLOCK) /\ Small(Header(q))
  BY BinOfSize, PageFacts, MapFacts DEF IInv
<1>2. a \in Nat /\ q + 2 <= a /\ a + 2*b + 1 <= q + Words(BIGBLOCK)
  BY <1>1, BlockInside
<1>3. ASSUME NEW r \in Base, NEW c \in Bin, InBin(p, r, c)
      PROVE  a = p \/ a + 2*b + 2 <= p \/ (p + Words(held[p]) < a /\ p + 1 < a)
  <2>1. a = p \/ a + 2*b + 2 <= p \/ p + 2*c + 2 <= a
    BY <1>3, CutApart DEF InBin
  <2>2. c \in Nat /\ Words(held[p]) <= 2*c + 1
    <3>1. /\ c \in Nat /\ bin2size(c) \in Nat /\ Words(bin2size(c)) = 2*c + 1
          /\ held[p] <= bin2size(c)
      BY <1>3, BinOfSize, BinSize DEF InBin
    <3> QED BY <1>0, <3>1, WordsOf
  <2> QED BY <1>0, <1>1, <1>2, <2>1, <2>2
<1>4. ASSUME NEW r \in Base, IsLarge(p, r)
      PROVE  a + 2*b + 2 <= p \/ (p + Words(held[p]) < a /\ p + 1 < a)
  <2>1. r # q /\ r \in Nat /\ r \in Maps /\ mapped[r] \in Nat
    BY <1>1, <1>4, MapFacts DEF IsLarge, IInv
  <2>2. q + mapped[q] <= r \/ r + mapped[r] <= q
    BY <1>1, <2>1 DEF IInv, MapsApart
  <2>3. Words(BIGBLOCK) \in Nat
    BY WordsOf, SizeAssumption
  <2> QED BY <1>0, <1>1, <1>2, <1>4, <2>1, <2>2, <2>3 DEF IsLarge
<1> QED BY <1>3, <1>4, HeldPlace

\* It keeps clear of the size of a large block.
LEMMA HeldClearLarge ==
  ASSUME IInv, NEW p \in Addr, held[p] # NONE,
         NEW q \in Maps, ~Small(Header(q))
  PROVE  q + 1 < p \/ (p + Words(held[p]) <= q /\ p < q)
<1>0. p \in Nat /\ Words(held[p]) \in Nat /\ q \in Nat /\ mapped[q] \in Nat
  BY HeldFacts, MapFacts DEF IInv
<1>1. PICK r \in Base : IsLarge(p, r) \/ \E b \in Bin : InBin(p, r, b)
  BY HeldPlace
<1>2. /\ r \in Maps /\ r + 2 <= p /\ p + Words(held[p]) <= r + mapped[r]
      /\ p < r + mapped[r] /\ r \in Nat /\ mapped[r] \in Nat
  BY <1>1, HeldInside, MapFacts DEF IInv
<1>3. r = q \/ r + mapped[r] <= q \/ q + mapped[q] <= r
  BY <1>2 DEF IInv, MapsApart
<1>4. mapped[q] > 2
  BY LargeFacts, WordsOf
<1> QED
  BY <1>0, <1>2, <1>3, <1>4

-----------------------------------------------------------------------------
(* Steps that map nothing and leave all sizes where they are.              *)

SizesKept ==
  /\ mapped' = mapped
  /\ \A q \in Maps : mem'[q + 1] = mem[q + 1]
  /\ \A b \in Bin : \A q \in Pages(b) : \A a \in Links(q, b) : mem'[a - 1] = mem[a - 1]

LEMMA MapsKept ==
  ASSUME IInv, SizesKept
  PROVE  /\ Maps' = Maps /\ MapsApart'
         /\ \A q \in Maps : Header(q)' = Header(q)
         /\ \A b \in Bin : Pages(b)' = Pages(b) /\ Cut(b)' = Cut(b)
<1>1. Maps' = Maps
  BY DEF SizesKept, Maps
<1>2. \A q \in Maps : Header(q) = mem[q + 1] /\ Header(q)' = mem'[q + 1]
  BY MapFacts, SizeAssumption DEF Header, IInv
<1>3. \A q \in Maps : Header(q)' = Header(q)
  BY <1>2 DEF SizesKept
<1>4. ASSUME NEW b \in Bin PROVE Pages(b)' = Pages(b)
  BY <1>1, <1>3 DEF Pages
<1>5. ASSUME NEW b \in Bin PROVE Cut(b)' = Cut(b)
  BY <1>4 DEF Cut
<1>6. MapsApart'
  BY <1>1 DEF SizesKept, MapsApart, IInv
<1> QED BY <1>1, <1>3, <1>4, <1>5, <1>6

LEMMA UseKept ==
  ASSUME IInv, SizesKept,
         \A q \in Maps : ~Small(Header(q)) => held'[q + 2] = held[q + 2]
  PROVE  MapsInUse'
<1>1. /\ Maps' = Maps
      /\ \A q \in Maps : Header(q)' = Header(q)
      /\ \A b \in Bin : Pages(b)' = Pages(b)
  BY MapsKept
<1> SUFFICES ASSUME NEW p \in Maps
    PROVE  \/ \E b \in Bin :
                /\ p \in Pages(b) /\ mapped'[p] = Words(BIGBLOCK)
                /\ \A a \in Links(p, b) : mem'[a - 1] = bin2size(b)
           \/ /\ Header(p) \in Request /\ ~Small(Header(p))
              /\ mapped'[p] = Words(Header(p) + WASTE + WORD)
              /\ held'[p + 2] = Header(p)
  BY <1>1, SizeAssumption DEF MapsInUse
<1>2. CASE \E b \in Bin : p \in Pages(b)
  <2>1. PICK b \in Bin : p \in Pages(b)
    BY <1>2
  <2>2. /\ mapped[p] = Words(BIGBLOCK)
        /\ \A a \in Links(p, b) : mem[a - 1] = bin2size(b)
    BY <2>1, PageFacts
  <2> QED BY <2>1, <2>2 DEF SizesKept
<1>3. CASE ~ \E b \in Bin : p \in Pages(b)
  BY <1>3, SizeAssumption DEF IInv, MapsInUse, SizesKept
<1> QED BY <1>2, <1>3

\* What HeldFits says of one block.
Fits(a) ==
  \/ \E b \in Bin : a \in Cut(b) /\ held[a] <= bin2size(b)
  \/ Large(a) /\ held[a] = mem[a - 1]

LEMMA FitsKept ==
  ASSUME IInv, SizesKept, NEW a \in Addr, held[a] # NONE, held'[a] = held[a]
  PROVE  Fits(a)'
<1>1. /\ Maps' = Maps
      /\ \A b \in Bin : Cut(b)' = Cut(b)
  BY MapsKept
<1>2. Fits(a)
  BY DEF IInv, HeldFits, Fits
<1>3. CASE \E b \in Bin : a \in Cut(b) /\ held[a] <= bin2size(b)
  BY <1>1, <1>3 DEF Fits
<1>4. CASE Large(a) /\ held[a] = mem[a - 1]
  <2>1. a - 2 \in Maps /\ ~Small(mem[a - 1])
    BY <1>4, SizeAssumption DEF Large
  <2>2. (a - 2) + 1 = a - 1
    BY AddrAssumption
  <2>3. mem'[a - 1] = mem[a - 1]
    BY <2>1, <2>2 DEF SizesKept
  <2>4. Large(a)'
    BY <1>1, <2>1, <2>3, SizeAssumption DEF Large
  <2> QED BY <1>4, <2>3, <2>4 DEF Fits
<1> QED BY <1>2, <1>3, <1>4 DEF Fits

-----------------------------------------------------------------------------
(* Small blocks.                                                           *)

LEMMA CutFacts ==
  ASSUME IInv, NEW b \in Bin, NEW a \in Cut(b)
  PROVE  /\ a \in Nat /\ a % 2 = 0 /\ a # NULL /\ a \in Addr
         /\ mem[a - 1] = bin2size(b)
         /\ \E q \in Pages(b) : a \in Links(q, b)
         /\ \A c \in Bin : a \in Cut(c) => c = b
<1>1. PICK q \in Pages(b) : a \in Links(q, b)
  BY DEF Cut
<1>2. /\ q \in Maps /\ q \in Base /\ q \in Nat /\ b \in Nat
      /\ mapped[q] = Words(BIGBLOCK)
  BY <1>1, PageFacts, MapFacts, BinOfSize DEF IInv
<1>3. /\ a \in Nat /\ a % 2 = 0 /\ q + 2 <= a
      /\ a + 2*b + 1 <= q + Words(BIGBLOCK)
  BY <1>1, <1>2, BlockInside
<1>4. a \in q .. q + mapped[q] - 1
  <2>1. Words(BIGBLOCK) \in Nat
    BY WordsOf, SizeAssumption
  <2>2. q <= a /\ a <= q + Words(BIGBLOCK) - 1
    BY <1>2, <1>3, <2>1
  <2> QED BY <1>2, <1>3, <2>1, <2>2
<1>5. a \in Addr
  BY <1>2, <1>4 DEF IInv, MapsApart
<1>6. ASSUME NEW c \in Bin, a \in Cut(c) PROVE c = b
  <2>1. PICK r \in Pages(c) : a \in Links(r, c)
    BY <1>6 DEF Cut
  <2>2. c \in Nat
    BY BinOfSize
  <2> QED BY <1>1, <1>2, <1>3, <2>1, <2>2, CutApart
<1>7. mem[a - 1] = bin2size(b)
  BY <1>1, PageFacts
<1> QED BY <1>1, <1>2, <1>3, <1>5, <1>6, <1>7 DEF NULL

LEMMA SizeAddr ==
  ASSUME IInv
  PROVE  /\ \A q \in Maps : q + 1 \in Addr /\ (~Small(Header(q)) => q + 2 \in Addr)
         /\ \A b \in Bin : \A q \in Pages(b) : \A a \in Links(q, b) : a - 1 \in Addr
<1>1. ASSUME NEW b \in Bin, NEW q \in Pages(b), NEW a \in Links(q, b)
      PROVE  a - 1 \in Addr
  <2>1. /\ q \in Maps /\ q \in Base /\ q \in Nat /\ b \in Nat
        /\ mapped[q] = Words(BIGBLOCK) /\ Words(BIGBLOCK) \in Nat
    BY PageFacts, MapFacts, BinOfSize, WordsOf, SizeAssumption DEF IInv
  <2>2. /\ a \in Nat /\ q + 2 <= a
        /\ a + 2*b + 1 <= q + Words(BIGBLOCK)
    BY <2>1, BlockInside
  <2>3. a - 1 \in q .. q + mapped[q] - 1
    BY <2>1, <2>2
  <2> QED BY <2>1, <2>3 DEF IInv, MapsApart
<1>2. ASSUME NEW q \in Maps PROVE q + 1 \in Addr /\ (~Small(Header(q)) => q + 2 \in Addr)
  <2>1. q \in Nat /\ q \in Base
    BY MapFacts DEF IInv
  <2>2. CASE ~Small(Header(q))
    <3>1. mapped[q] \in Nat /\ mapped[q] > 2
      BY <2>2, LargeFacts, MapFacts, WordsOf DEF IInv
    <3>2. q + 1 \in q .. q + mapped[q] - 1 /\ q + 2 \in q .. q + mapped[q] - 1
      BY <2>1, <3>1
    <3> QED BY <3>2 DEF IInv, MapsApart
  <2>3. ASSUME NEW b \in Bin, q \in Pages(b) PROVE q + 1 \in Addr /\ Small(Header(q))
    <3>1. q + 2 \in Links(q, b) /\ (q + 2) - 1 = q + 1
      BY <2>1, FirstBlock
    <3> QED BY <3>1, <2>3, <1>1, PageFacts
  <2> QED BY <2>2, <2>3 DEF IInv, MapsInUse
<1> QED BY <1>1, <1>2

\* No block of a bin begins where a large block does.
LEMMA CutNotLarge ==
  ASSUME IInv, NEW b \in Bin, NEW a \in Cut(b), NEW q \in Maps, ~Small(Header(q))
  PROVE  a # q + 2
<1> SUFFICES ASSUME a = q + 2 PROVE FALSE
  OBVIOUS
<1>1. q \in Nat
  BY MapFacts DEF IInv
<1>2. a - 1 = q + 1 /\ Header(q) = mem[q + 1]
  BY <1>1, SizeAssumption DEF Header
<1>3. mem[a - 1] = bin2size(b)
  BY CutFacts
<1> QED BY <1>2, <1>3, BinOfSize

\* The step leaves the list of bin c alone.
SameList(c) ==
  /\ bin'[c] = bin[c] /\ Free(c)' = Free(c)
  /\ \A a \in Free(c) : mem'[a] = mem[a]

LEMMA SmallStep ==
  ASSUME IInv, NEW n \in Request, malloc_small(n)
  PROVE  /\ IInv'
         /\ \E b \in Bin :
              /\ bin[b] \in Free(b) /\ Free(b)' = Free(b) \ {bin[b]}
              /\ bin'[b] = mem[bin[b]] /\ \A a \in Free(b) : mem'[a] = mem[a]
              /\ \A c \in Bin : c # b => SameList(c)
<1> DEFINE b == size2bin(n)
           p == bin[b]
<1>1. /\ n \in Nat /\ Small(n) /\ p # NULL
      /\ bin' = [bin EXCEPT ![b] = mem[p]]
      /\ held' = [held EXCEPT ![p] = n]
      /\ mem' = mem /\ mapped' = mapped
  BY AddrAssumption DEF malloc_small
<1>2. b \in Bin /\ n <= bin2size(b)
  BY <1>1, SmallSize
<1> HIDE DEF b
<1>3. p \in Free(b) /\ p \in Cut(b) /\ held[p] = NONE /\ p \in Addr
  BY <1>1, <1>2, CutFacts DEF IInv, ListsApart, Free
<1>4. held \in [Addr -> Request \cup {NONE}] /\ bin \in [Bin -> Addr \cup {NULL}]
  BY DEF IInv, TypeOK
<1>5. mem[p] \in Free(b) \cup {NULL} /\ mem[p] # p
  BY <1>1, <1>2, <1>3 DEF IInv, ListsApart
<1>6. SizesKept
  BY <1>1 DEF SizesKept
<1>7. /\ held'[p] = n /\ n # NONE
      /\ \A a \in Addr : a # p => held'[a] = held[a]
  BY <1>1, <1>3, <1>4 DEF NONE
<1>8. /\ bin'[b] = mem[p]
      /\ \A c \in Bin : c # b => bin'[c] = bin[c]
  BY <1>1, <1>2, <1>4
<1>9. \A c \in Bin : Cut(c)' = Cut(c) /\ \A a \in Cut(c) : a \in Addr
  BY <1>6, MapsKept, CutFacts
<1>10. TypeOK'
  BY <1>1, <1>2, <1>3, <1>4, <1>5, CutFacts DEF IInv, TypeOK, Free
<1>11. MapsApart'
  BY <1>6, MapsKept
<1>12. MapsInUse'
  <2>1. ASSUME NEW q \in Maps, ~Small(Header(q)) PROVE held'[q + 2] = held[q + 2]
    BY <1>1, <1>2, <1>3, <1>7, <2>1, CutNotLarge, SizeAddr
  <2> QED BY <1>6, <2>1, UseKept
<1>13. HeldFits'
  <2>1. ASSUME NEW a \in Addr, held'[a] # NONE PROVE Fits(a)'
    <3>1. CASE a = p
      BY <3>1, <1>2, <1>3, <1>7, <1>9 DEF Fits
    <3>2. CASE a # p
      BY <3>2, <1>6, <1>7, <2>1, FitsKept
    <3> QED BY <3>1, <3>2
  <2> QED BY <2>1 DEF HeldFits, Fits
<1>14. Free(b)' = Free(b) \ {p}
  BY <1>2, <1>3, <1>7, <1>9 DEF Free
<1>15. \A c \in Bin : c # b => Free(c)' = Free(c)
  BY <1>2, <1>3, <1>7, <1>9, CutFacts DEF Free
<1>16. ListsApart'
  <2>3. ASSUME NEW c \in Bin
        PROVE  /\ bin'[c] \in Free(c)' \cup {NULL}
               /\ \A a \in Free(c)' :
                    /\ mem'[a] \in Free(c)' \cup {NULL}
                    /\ mem'[a] = NULL \/ mem'[a] # bin'[c]
                    /\ \A d \in Free(c)' : mem'[a] = mem'[d] => a = d \/ mem'[a] = NULL
    <3>0. /\ bin[c] \in Free(c) \cup {NULL}
          /\ \A a \in Free(c) :
                /\ mem[a] \in Free(c) \cup {NULL}
                /\ mem[a] = NULL \/ mem[a] # bin[c]
                /\ \A d \in Free(c) : mem[a] = mem[d] => a = d \/ mem[a] = NULL
      BY DEF IInv, ListsApart
    <3>1. CASE c = b
      BY <3>0, <3>1, <1>1, <1>3, <1>5, <1>8, <1>14
    <3>2. CASE c # b
      BY <3>0, <3>2, <1>1, <1>8, <1>15
    <3> QED BY <3>1, <3>2
  <2> QED BY <2>3 DEF ListsApart
<1>17. \A c \in Bin : c # b => SameList(c)
  BY <1>1, <1>8, <1>15 DEF SameList
<1> QED BY <1>1, <1>2, <1>3, <1>8, <1>10, <1>11, <1>12, <1>13, <1>14, <1>16, <1>17 DEF IInv

LEMMA FreeSmallStep ==
  ASSUME IInv, NEW p \in Addr, free_small(p)
  PROVE  /\ IInv'
         /\ p # NULL
         /\ \E b \in Bin :
              /\ p \notin Free(b) /\ Free(b)' = Free(b) \cup {p}
              /\ bin'[b] = p /\ mem'[p] = bin[b] /\ \A a \in Free(b) : mem'[a] = mem[a]
              /\ \A c \in Bin : c # b => SameList(c)
<1>1. /\ held[p] # NONE /\ Small(mem[p - 1]) /\ mapped' = mapped
      /\ mem' = [mem EXCEPT ![p] = bin[size2bin(mem[p - 1])]]
      /\ bin' = [bin EXCEPT ![size2bin(mem[p - 1])] = p]
      /\ held' = [held EXCEPT ![p] = NONE]
  BY DEF free_small
<1>2. PICK q \in Base, b \in Bin : InBin(p, q, b)
  <2>1. ASSUME NEW q \in Base, IsLarge(p, q) PROVE FALSE
    BY <1>1, <2>1 DEF IsLarge
  <2> QED BY <1>1, <2>1, HeldPlace
<1>3. size2bin(mem[p - 1]) = b /\ p \in Cut(b) /\ p # NULL /\ p \notin Free(b) /\ p % 2 = 0
  BY <1>1, <1>2, BinOfSize, CutFacts DEF InBin, Cut, Free
<1>4. /\ mem \in [Addr -> Nat] /\ held \in [Addr -> Request \cup {NONE}]
      /\ bin \in [Bin -> Addr \cup {NULL}]
  BY DEF IInv, TypeOK
<1>5. /\ mem'[p] = bin[b] /\ held'[p] = NONE
      /\ \A a \in Addr : a # p => mem'[a] = mem[a] /\ held'[a] = held[a]
  BY <1>1, <1>3, <1>4
<1>6. /\ bin'[b] = p
      /\ \A c \in Bin : c # b => bin'[c] = bin[c]
  BY <1>1, <1>3, <1>4
<1>7. SizesKept
  <2>1. ASSUME NEW r \in Maps PROVE mem'[r + 1] = mem[r + 1]
    BY <1>3, <1>5, MapFacts, SizeAddr DEF IInv
  <2>2. ASSUME NEW c \in Bin, NEW r \in Pages(c), NEW a \in Links(r, c)
        PROVE  mem'[a - 1] = mem[a - 1]
    <3>1. a % 2 = 0 /\ a \in Nat /\ a - 1 \in Addr
      BY PageFacts, BlockInside, SizeAddr DEF Maps
    <3> QED BY <3>1, <1>3, <1>5
  <2> QED BY <1>1, <2>1, <2>2 DEF SizesKept
<1>8. \A c \in Bin : Cut(c)' = Cut(c) /\ \A a \in Cut(c) : a \in Addr
  BY <1>7, MapsKept, CutFacts
<1>9. TypeOK'
  <2>1. bin[b] \in Nat
    <3>1. b \in Bin
      BY <1>2 DEF InBin
    <3>2. \A a \in Addr : a \in Nat
      BY AddrAssumption
    <3>3. bin[b] \in Addr \cup {NULL}
      BY <1>4, <3>1
    <3>4. CASE bin[b] = NULL
      BY <3>4 DEF NULL
    <3>5. CASE bin[b] # NULL
      BY <3>2, <3>3, <3>5
    <3> QED BY <3>4, <3>5
  <2> QED BY <1>1, <1>3, <1>4, <2>1 DEF IInv, TypeOK
<1>10. MapsApart'
  BY <1>7, MapsKept
<1>11. MapsInUse'
  <2>1. ASSUME NEW r \in Maps, ~Small(Header(r)) PROVE held'[r + 2] = held[r + 2]
    BY <1>3, <1>5, <2>1, CutNotLarge, SizeAddr
  <2> QED BY <1>7, <2>1, UseKept
<1>12. HeldFits'
  <2>1. ASSUME NEW a \in Addr, held'[a] # NONE PROVE Fits(a)'
    BY <1>5, <1>7, <2>1, FitsKept
  <2> QED BY <2>1 DEF HeldFits, Fits
<1>13. Free(b)' = Free(b) \cup {p} /\ \A a \in Free(b) : mem'[a] = mem[a]
  BY <1>3, <1>5, <1>8 DEF Free
<1>14. \A c \in Bin : c # b => Free(c)' = Free(c) /\ p \notin Free(c)
  BY <1>3, <1>5, <1>8, CutFacts DEF Free
<1>15. ASSUME NEW c \in Bin, c # b PROVE SameList(c)
  <2>1. \A a \in Free(c) : mem'[a] = mem[a]
    BY <1>15, <1>5, <1>8, <1>14 DEF Free
  <2> QED BY <2>1, <1>6, <1>14, <1>15 DEF SameList
<1>16. ListsApart'
  <2>3. ASSUME NEW c \in Bin
        PROVE  /\ bin'[c] \in Free(c)' \cup {NULL}
               /\ \A a \in Free(c)' :
                    /\ mem'[a] \in Free(c)' \cup {NULL}
                    /\ mem'[a] = NULL \/ mem'[a] # bin'[c]
                    /\ \A d \in Free(c)' : mem'[a] = mem'[d] => a = d \/ mem'[a] = NULL
    <3>0. /\ bin[c] \in Free(c) \cup {NULL}
          /\ \A a \in Free(c) :
                /\ mem[a] \in Free(c) \cup {NULL}
                /\ mem[a] = NULL \/ mem[a] # bin[c]
                /\ \A d \in Free(c) : mem[a] = mem[d] => a = d \/ mem[a] = NULL
      BY DEF IInv, ListsApart
    <3>1. CASE c = b
      BY <3>0, <3>1, <1>3, <1>5, <1>6, <1>13
    <3>2. CASE c # b
      BY <3>0, <3>2, <1>15 DEF SameList
    <3> QED BY <3>1, <3>2
  <2> QED BY <2>3 DEF ListsApart
<1>17. b \in Bin
  BY <1>2 DEF InBin
<1> QED BY <1>3, <1>5, <1>6, <1>9, <1>10, <1>11, <1>12, <1>13, <1>15, <1>16, <1>17 DEF IInv

-----------------------------------------------------------------------------
(* What clients write.                                                     *)

LEMMA WriteStep ==
  ASSUME IInv, NEW p \in Addr, NEW w \in Word, Write(p, w)
  PROVE  IInv' /\ \A c \in Bin : SameList(c)
<1>1. /\ held[p] # NONE /\ held' = held /\ bin' = bin /\ mapped' = mapped
      /\ mem' = [a \in Addr |-> IF p <= a /\ a < p + Words(held[p]) THEN w ELSE mem[a]]
  BY DEF Write
<1>2. p \in Nat /\ Words(held[p]) \in Nat
  BY <1>1, HeldFacts
<1>3. \A a \in Addr : a < p \/ a >= p + Words(held[p]) => mem'[a] = mem[a]
  BY <1>1, <1>2, AddrAssumption
<1>4. SizesKept
  <2>1. ASSUME NEW q \in Maps PROVE mem'[q + 1] = mem[q + 1]
    <3>1. q \in Nat /\ q + 1 \in Addr
      BY MapFacts, SizeAddr DEF IInv
    <3>2. CASE ~Small(Header(q))
      BY <1>1, <1>2, <1>3, <3>1, <3>2, HeldClearLarge
    <3>3. CASE \E b \in Bin : q \in Pages(b)
      <4>1. PICK b \in Bin : q \in Pages(b)
        BY <3>3
      <4>2. q + 2 \in Links(q, b) /\ b \in Nat
        BY BinOfSize, FirstBlock DEF Maps
      <4>3. \/ q + 2 = p \/ q + 2 + 2*b + 2 <= p
            \/ p + Words(held[p]) < q + 2
        BY <1>1, <4>1, <4>2, HeldClear
      <4> QED BY <1>2, <1>3, <3>1, <4>2, <4>3
    <3> QED BY <3>2, <3>3 DEF IInv, MapsInUse
  <2>2. ASSUME NEW c \in Bin, NEW r \in Pages(c), NEW a \in Links(r, c)
        PROVE  mem'[a - 1] = mem[a - 1]
    <3>1. a \in Nat /\ a - 1 \in Addr /\ c \in Nat
      BY PageFacts, BlockInside, SizeAddr, BinOfSize DEF Maps
    <3>2. \/ a = p \/ a + 2*c + 2 <= p
          \/ p + Words(held[p]) < a
      BY <1>1, HeldClear
    <3> QED BY <1>2, <1>3, <3>1, <3>2
  <2> QED BY <1>1, <2>1, <2>2 DEF SizesKept
<1>5. ASSUME NEW b \in Bin, NEW a \in Free(b) PROVE mem'[a] = mem[a]
  <2>1. PICK q \in Pages(b) : a \in Links(q, b)
    BY CutFacts DEF Free
  <2>2. a \in Nat /\ a \in Addr /\ a # p /\ b \in Nat
    BY <1>1, CutFacts, BinOfSize DEF Free
  <2>3. a + 2*b + 2 <= p \/ p + Words(held[p]) < a
    BY <1>1, <2>1, <2>2, HeldClear
  <2> QED BY <1>2, <1>3, <2>2, <2>3
<1>6. TypeOK'
  BY <1>1, AddrAssumption DEF IInv, TypeOK
<1>7. MapsApart' /\ MapsInUse'
  BY <1>1, <1>4, MapsKept, UseKept
<1>8. HeldFits'
  <2>1. ASSUME NEW a \in Addr, held'[a] # NONE PROVE Fits(a)'
    BY <1>1, <1>4, <2>1, FitsKept
  <2> QED BY <2>1 DEF HeldFits, Fits
<1>9. \A c \in Bin : SameList(c)
  <2>1. \A c \in Bin : Free(c)' = Free(c)
    BY <1>1, <1>4, MapsKept DEF Free
  <2> QED BY <1>1, <1>5, <2>1 DEF SameList
<1>10. ListsApart'
  BY <1>9 DEF IInv, ListsApart, SameList
<1> QED BY <1>6, <1>7, <1>8, <1>9, <1>10 DEF IInv

-----------------------------------------------------------------------------
(* Steps that map or unmap something.                                      *)

LEMMA MapLength ==
  ASSUME IInv, NEW q \in Maps
  PROVE  mapped[q] > 2
<1>1. CASE ~Small(Header(q))
  BY <1>1, LargeFacts, WordsOf
<1>2. ASSUME NEW b \in Bin, q \in Pages(b) PROVE mapped[q] > 2
  <2>1. /\ mapped[q] = Words(BIGBLOCK) /\ q \in Base /\ q \in Nat /\ b \in Nat
        /\ mapped[q] \in Nat
    BY <1>2, PageFacts, MapFacts, BinOfSize DEF IInv
  <2>2. q + 2 + 2*b + 1 <= q + Words(BIGBLOCK)
    BY <2>1, FirstBlock, BlockInside
  <2> QED BY <2>1, <2>2
<1> QED BY <1>1, <1>2 DEF IInv, MapsInUse

\* What MapsInUse says of one mapping.
InUse(p) ==
  \/ \E b \in Bin :
       /\ p \in Pages(b) /\ mapped[p] = Words(BIGBLOCK)
       /\ \A a \in Links(p, b) : mem[a - 1] = bin2size(b)
  \/ /\ Header(p) \in Request /\ ~Small(Header(p))
     /\ mapped[p] = Words(Header(p) + WASTE + WORD)
     /\ held[p + ALIGN] = Header(p)

\* The step leaves the mapping at q and all that is in it as it was.
Untouched(q) ==
  /\ mapped'[q] = mapped[q]
  /\ \A a \in q .. q + mapped[q] - 1 : mem'[a] = mem[a] /\ held'[a] = held[a]

LEMMA MapUntouched ==
  ASSUME IInv, NEW q \in Maps, Untouched(q)
  PROVE  /\ q \in Maps' /\ Header(q)' = Header(q)
         /\ InUse(q)'
         /\ \A b \in Bin : /\ q \in Pages(b)' <=> q \in Pages(b)
                           /\ q \in Pages(b) => \A a \in Links(q, b) :
                                mem'[a] = mem[a] /\ held'[a] = held[a]
         /\ \A a \in Addr : /\ held[a] # NONE
                            /\ IsLarge(a, q) \/ \E b \in Bin : InBin(a, q, b)
                            => Fits(a)'
<1>0. /\ q \in Base /\ q \in Nat /\ q % 2 = 0 /\ mapped[q] \in Nat /\ mapped[q] > 2
      /\ ALIGN = 2
  BY MapFacts, MapLength, SizeAssumption DEF IInv
<1>1. q \in Maps'
  BY <1>0 DEF Maps, Untouched
<1>2. /\ Header(q) = mem[q + 1] /\ Header(q)' = mem'[q + 1]
      /\ mem'[q + 1] = mem[q + 1] /\ held'[q + 2] = held[q + 2]
  BY <1>0 DEF Header, Untouched
<1>3. ASSUME NEW b \in Bin PROVE q \in Pages(b)' <=> q \in Pages(b)
  BY <1>1, <1>2 DEF Pages
<1>4. ASSUME NEW b \in Bin, q \in Pages(b), NEW a \in Links(q, b)
      PROVE  /\ mem'[a - 1] = mem[a - 1] /\ mem'[a] = mem[a] /\ held'[a] = held[a]
             /\ mem[a - 1] = bin2size(b)
  <2>1. /\ a \in Nat /\ b \in Nat /\ q + 2 <= a
        /\ a + 2*b + 1 <= q + mapped[q]
    BY <1>0, <1>4, BinOfSize, BlockInside, PageFacts
  <2>2. a - 1 \in q .. q + mapped[q] - 1 /\ a \in q .. q + mapped[q] - 1
    BY <2>1, <1>0
  <2> QED BY <1>4, <2>2, PageFacts DEF Untouched
<1>5. InUse(q)'
  <2>1. CASE \E b \in Bin : q \in Pages(b)
    <3>1. PICK b \in Bin : q \in Pages(b)
      BY <2>1
    <3>2. mapped'[q] = Words(BIGBLOCK)
      BY <3>1, PageFacts DEF Untouched
    <3>3. \A a \in Links(q, b) : mem'[a - 1] = bin2size(b)
      BY <3>1, <1>4
    <3> QED BY <3>1, <3>2, <3>3, <1>3 DEF InUse
  <2>2. CASE ~ \E b \in Bin : q \in Pages(b)
    <3>1. /\ Header(q) \in Request /\ ~Small(Header(q))
          /\ mapped[q] = Words(Header(q) + WASTE + WORD)
          /\ held[q + ALIGN] = Header(q)
      BY <2>2 DEF IInv, MapsInUse
    <3>2. held'[q + ALIGN] = held[q + ALIGN] /\ mapped'[q] = mapped[q]
      BY <1>0, <1>2 DEF Untouched
    <3> QED BY <3>1, <3>2, <1>2 DEF InUse
  <2> QED BY <2>1, <2>2
<1>6. ASSUME NEW a \in Addr, held[a] # NONE, NEW b \in Bin, InBin(a, q, b)
      PROVE  Fits(a)'
  <2>1. a \in Links(q, b) /\ q \in Pages(b)' /\ held'[a] = held[a]
    BY <1>3, <1>4, <1>6 DEF InBin
  <2>2. a \in Cut(b)'
    BY <2>1 DEF Cut
  <2> QED BY <2>1, <2>2, <1>6 DEF Fits, InBin
<1>7. ASSUME NEW a \in Addr, held[a] # NONE, IsLarge(a, q)
      PROVE  Fits(a)'
  <2>1. a = q + 2 /\ a - 1 = q + 1 /\ a - ALIGN = q
    BY <1>0, <1>7 DEF IsLarge
  <2>2. mem'[a - 1] = mem[a - 1] /\ held'[a] = held[a] /\ mem[a - 1] = held[a]
    BY <1>2, <1>7, <2>1 DEF IsLarge
  <2>3. Large(a)'
    BY <1>1, <1>2, <1>7, <2>1 DEF Large, IsLarge
  <2> QED BY <2>2, <2>3 DEF Fits
<1> QED BY <1>1, <1>2, <1>3, <1>4, <1>5, <1>6, <1>7

\* A new mapping is apart from those there are, and nothing in it is held.
LEMMA NewMapping ==
  ASSUME IInv, NEW base \in Base, NEW len \in Nat, len > 0, mmap0(base, len)
  PROVE  /\ base \in Nat /\ base % 2 = 0 /\ base \notin Maps
         /\ mapped'[base] = Words(len) /\ Words(len) \in Nat /\ Words(len) > 0
         /\ mapped' \in [Base -> Nat]
         /\ Maps' = Maps \cup {base} /\ MapsApart'
         /\ \A a \in base .. base + Words(len) - 1 : a \in Addr /\ held[a] = NONE
         /\ \A q \in Maps : /\ mapped'[q] = mapped[q]
                            /\ q + mapped[q] <= base \/ base + Words(len) <= q
<1>1. base \in Nat /\ base % 2 = 0 /\ Words(len) \in Nat /\ Words(len) > 0
  BY AddrAssumption, SizeAssumption, WordsOf
<1>2. /\ mapped[base] = 0
      /\ \A a \in base .. base + Words(len) - 1 : a \in Addr
      /\ \A q \in Maps : q + mapped[q] <= base \/ base + Words(len) <= q
      /\ mapped' = [mapped EXCEPT ![base] = Words(len)]
  BY DEF mmap0, Maps
<1>3. mapped \in [Base -> Nat] /\ base \notin Maps
  BY <1>2 DEF IInv, TypeOK, Maps
<1>4. /\ mapped'[base] = Words(len) /\ mapped' \in [Base -> Nat]
      /\ \A q \in Base : q # base => mapped'[q] = mapped[q]
  BY <1>1, <1>2, <1>3
<1>5. Maps' = Maps \cup {base}
  <2>1. mapped'[base] # 0
    BY <1>1, <1>4
  <2>2. Maps' = {q \in Base : mapped'[q] # 0}
    BY DEF Maps
  <2> QED BY <1>4, <2>1, <2>2 DEF Maps
<1>6. \A q \in Maps : mapped'[q] = mapped[q]
  BY <1>3, <1>4 DEF Maps
<1>7. MapsApart'
  <2>1. ASSUME NEW p \in Maps' PROVE \A a \in p .. p + mapped'[p] - 1 : a \in Addr
    BY <1>2, <1>4, <1>5, <1>6 DEF IInv, MapsApart
  <2>2. ASSUME NEW p \in Maps', NEW q \in Maps'
        PROVE p = q \/ p + mapped'[p] <= q \/ q + mapped'[q] <= p
    BY <1>2, <1>4, <1>5, <1>6 DEF IInv, MapsApart
  <2> QED BY <2>1, <2>2 DEF MapsApart
<1>8. ASSUME NEW a \in base .. base + Words(len) - 1 PROVE held[a] = NONE
  <2> SUFFICES ASSUME held[a] # NONE PROVE FALSE
    OBVIOUS
  <2>1. a \in Addr
    BY <1>2
  <2>2. PICK q \in Base : IsLarge(a, q) \/ \E b \in Bin : InBin(a, q, b)
    BY <2>1, HeldPlace
  <2>3. q \in Maps /\ q + 2 <= a /\ a < q + mapped[q]
    BY <2>1, <2>2, HeldInside
  <2>4. q \in Nat /\ mapped[q] \in Nat
    BY <2>3, MapFacts DEF IInv
  <2> QED BY <1>1, <1>2, <2>3, <2>4
<1> QED BY <1>1, <1>2, <1>3, <1>4, <1>5, <1>6, <1>7, <1>8

LEMMA LargeStep ==
  ASSUME IInv, NEW n \in Request, NEW base \in Base, malloc_large(n, base)
  PROVE  IInv' /\ \A c \in Bin : SameList(c)
<1> DEFINE W == Words(n + WASTE + WORD)
           p == base + 2
<1>1. /\ n \in Nat /\ ~Small(n) /\ mmap0(base, n + WASTE + WORD) /\ ALIGN = 2
      /\ mem' = [mem EXCEPT ![base + 1] = n]
      /\ held' = [held EXCEPT ![p] = n]
      /\ bin' = bin
  BY AddrAssumption, SizeAssumption DEF malloc_large
<1>2. n > 0 /\ Words(n) > 0 /\ W = Words(n) + 2 /\ Words(n) \in Nat
      /\ n + WASTE + WORD \in Nat /\ n + WASTE + WORD > 0
  <2>1. n > 0
    BY <1>1, BinSize, SizeAssumption DEF Small
  <2>2. WASTE \in Nat /\ WORD \in Nat
    BY SizeAssumption DEF WASTE
  <2> QED BY <1>1, <2>1, <2>2, WordsOf
<1> HIDE DEF W
<1>3. /\ base \in Nat /\ base % 2 = 0 /\ base \notin Maps
      /\ mapped'[base] = W /\ W \in Nat
      /\ mapped' \in [Base -> Nat]
      /\ Maps' = Maps \cup {base} /\ MapsApart'
      /\ \A a \in base .. base + W - 1 : a \in Addr /\ held[a] = NONE
      /\ \A q \in Maps : /\ mapped'[q] = mapped[q]
                         /\ q + mapped[q] <= base \/ base + W <= q
  BY <1>1, <1>2, NewMapping DEF W
<1>4. base + 1 \in Addr /\ p \in Addr /\ held[p] = NONE /\ p \in Nat
  BY <1>2, <1>3
<1>5. mem \in [Addr -> Nat] /\ held \in [Addr -> Request \cup {NONE}]
  BY DEF IInv, TypeOK
<1>6. /\ mem'[base + 1] = n /\ held'[p] = n
      /\ \A a \in Addr : /\ a # base + 1 => mem'[a] = mem[a]
                         /\ a # p => held'[a] = held[a]
  BY <1>1, <1>4, <1>5
<1>7. ASSUME NEW q \in Maps PROVE Untouched(q)
  <2>1. q \in Nat /\ mapped[q] \in Nat
    BY MapFacts DEF IInv
  <2>2. \A a \in q .. q + mapped[q] - 1 : a \in Addr /\ a # base + 1 /\ a # p
    <3>1. \A a \in q .. q + mapped[q] - 1 : a \in Addr
      BY DEF IInv, MapsApart
    <3> QED BY <3>1, <2>1, <1>2, <1>3
  <2> QED BY <1>3, <1>6, <2>2 DEF Untouched
<1>8. Header(base)' = n
  BY <1>1, <1>3, <1>6 DEF Header
<1>9. ASSUME NEW c \in Bin PROVE Pages(c)' = Pages(c)
  <2>1. base \notin Pages(c)'
    BY <1>1, <1>8, BinOfSize DEF Pages
  <2>2. \A q \in Maps : q \in Pages(c)' <=> q \in Pages(c)
    BY <1>7, MapUntouched
  <2> QED BY <1>3, <2>1, <2>2 DEF Pages
<1>10. ASSUME NEW c \in Bin, NEW a \in Cut(c)
       PROVE  mem'[a] = mem[a] /\ held'[a] = held[a]
  <2>1. PICK q \in Pages(c) : a \in Links(q, c)
    BY DEF Cut
  <2> QED BY <1>7, <2>1, MapUntouched DEF Pages
<1>11. TypeOK'
  BY <1>1, <1>3, <1>4, <1>5 DEF IInv, TypeOK
<1>12. MapsInUse'
  <2>1. \A q \in Maps : InUse(q)'
    BY <1>7, MapUntouched
  <2>2. InUse(base)'
    BY <1>1, <1>3, <1>6, <1>8 DEF InUse, W
  <2> QED BY <1>3, <2>1, <2>2 DEF MapsInUse, InUse
<1>13. HeldFits'
  <2>1. ASSUME NEW a \in Addr, held'[a] # NONE PROVE Fits(a)'
    <3>1. CASE a = p
      <4>1. a - ALIGN = base /\ a - 1 = base + 1
        BY <1>1, <1>3, <3>1
      <4> QED BY <1>1, <1>3, <1>6, <3>1, <4>1 DEF Fits, Large
    <3>2. CASE a # p
      <4>1. held[a] # NONE
        BY <1>6, <2>1, <3>2
      <4>2. PICK q \in Base : IsLarge(a, q) \/ \E b \in Bin : InBin(a, q, b)
        BY <4>1, HeldPlace
      <4>3. q \in Maps
        BY <4>1, <4>2, HeldInside
      <4> QED BY <1>7, <4>1, <4>2, <4>3, MapUntouched
    <3> QED BY <3>1, <3>2
  <2> QED BY <2>1 DEF HeldFits, Fits
<1>14. \A c \in Bin : SameList(c)
  <2>1. ASSUME NEW c \in Bin PROVE Free(c)' = Free(c)
    <3>1. Cut(c)' = Cut(c)
      BY <1>9 DEF Cut
    <3> QED BY <3>1, <1>10 DEF Free
  <2>2. \A c \in Bin : \A a \in Free(c) : mem'[a] = mem[a]
    BY <1>10 DEF Free
  <2> QED BY <1>1, <2>1, <2>2 DEF SameList
<1>15. ListsApart'
  BY <1>14 DEF IInv, ListsApart, SameList
<1> QED BY <1>3, <1>11, <1>12, <1>13, <1>14, <1>15 DEF IInv

LEMMA FreeLargeStep ==
  ASSUME IInv, NEW p \in Addr, free_large(p)
  PROVE  IInv' /\ \A c \in Bin : SameList(c)
<1>1. /\ held[p] # NONE /\ ~Small(mem[p - 1]) /\ bin' = bin /\ ALIGN = 2
      /\ mapped' = [mapped EXCEPT ![p - 2] = 0]
      /\ held' = [held EXCEPT ![p] = NONE]
      /\ mem' = [a \in Addr |->
                   IF a \in p - 2 .. p - 2 + Words(mem[p - 1] + WASTE + WORD) - 1
                   THEN 0 ELSE mem[a]]
  BY SizeAssumption DEF free_large
<1>2. PICK base \in Base : IsLarge(p, base)
  <2>1. ASSUME NEW q \in Base, NEW b \in Bin, InBin(p, q, b) PROVE FALSE
    BY <1>1, <2>1, BinOfSize DEF InBin
  <2> QED BY <1>1, <2>1, HeldPlace
<1>3. /\ base \in Maps /\ base \in Nat /\ p = base + 2 /\ p - 2 = base
      /\ ~Small(Header(base)) /\ mem[p - 1] = Header(base)
      /\ held[p] = Header(base)
      /\ mapped[base] = Words(mem[p - 1] + WASTE + WORD)
      /\ mapped[base] \in Nat
  <2>1. base \in Maps /\ base \in Nat /\ p = base + 2 /\ mapped[base] \in Nat
    BY <1>2, MapFacts DEF IsLarge, IInv
  <2>2. Header(base) \in Nat /\ mapped[base] = Words(Header(base)) + 2
    BY <1>2, LargeFacts DEF IsLarge
  <2>3. mapped[base] = Words(Header(base) + WASTE + WORD)
    BY <2>2, WordsOf
  <2> QED BY <1>2, <2>1, <2>3 DEF IsLarge
<1>4. /\ mem \in [Addr -> Nat] /\ held \in [Addr -> Request \cup {NONE}]
      /\ mapped \in [Base -> Nat]
  BY DEF IInv, TypeOK
<1>5. /\ mapped'[base] = 0 /\ held'[p] = NONE
      /\ \A q \in Base : q # base => mapped'[q] = mapped[q]
      /\ \A a \in Addr : a # p => held'[a] = held[a]
      /\ \A a \in Addr : a \notin base .. base + mapped[base] - 1 => mem'[a] = mem[a]
  BY <1>1, <1>3, <1>4
<1>6. Maps' = Maps \ {base}
  <2>1. Maps' = {q \in Base : mapped'[q] # 0}
    BY DEF Maps
  <2> QED BY <2>1, <1>5 DEF Maps
<1>7. ASSUME NEW q \in Maps, q # base PROVE Untouched(q)
  <2>1. q \in Base /\ q \in Nat /\ mapped[q] \in Nat
    BY MapFacts DEF IInv
  <2>2. q + mapped[q] <= base \/ base + mapped[base] <= q
    BY <1>3, <1>7 DEF IInv, MapsApart
  <2>3. mapped[base] > 2
    BY <1>3, MapLength
  <2>4. \A a \in q .. q + mapped[q] - 1 :
          a \in Addr /\ a # p /\ a \notin base .. base + mapped[base] - 1
    <3>1. \A a \in q .. q + mapped[q] - 1 : a \in Addr
      BY DEF IInv, MapsApart
    <3> QED BY <3>1, <1>3, <2>1, <2>2, <2>3
  <2> QED BY <1>5, <1>7, <2>1, <2>4 DEF Untouched
<1>8. \A c \in Bin : base \notin Pages(c)
  BY <1>3, PageFacts
<1>9. ASSUME NEW c \in Bin PROVE Pages(c)' = Pages(c)
  <2>1. \A q \in Maps : q # base => (q \in Pages(c)' <=> q \in Pages(c))
    BY <1>7, MapUntouched
  <2> QED BY <1>6, <1>8, <2>1 DEF Pages
<1>10. ASSUME NEW c \in Bin, NEW a \in Cut(c)
       PROVE  mem'[a] = mem[a] /\ held'[a] = held[a]
  <2>1. PICK q \in Pages(c) : a \in Links(q, c)
    BY DEF Cut
  <2>2. q \in Maps /\ q # base
    BY <1>8 DEF Pages
  <2> QED BY <1>7, <2>1, <2>2, MapUntouched
<1>11. TypeOK'
  BY <1>1, <1>3, <1>4 DEF IInv, TypeOK
<1>12. MapsApart'
  <2>1. \A q \in Maps' : q \in Maps /\ mapped'[q] = mapped[q]
    BY <1>5, <1>6 DEF Maps
  <2> QED BY <2>1 DEF IInv, MapsApart
<1>13. MapsInUse'
  <2>1. \A q \in Maps' : InUse(q)'
    BY <1>6, <1>7, MapUntouched
  <2> QED BY <2>1 DEF MapsInUse, InUse
<1>14. HeldFits'
  <2>1. ASSUME NEW a \in Addr, held'[a] # NONE PROVE Fits(a)'
    <3>1. a # p /\ held[a] # NONE
      BY <1>5, <2>1
    <3>2. PICK q \in Base : IsLarge(a, q) \/ \E b \in Bin : InBin(a, q, b)
      BY <3>1, HeldPlace
    <3>3. q \in Maps
      BY <3>1, <3>2, HeldInside
    <3>4. q # base
      BY <1>3, <1>8, <3>1, <3>2 DEF IsLarge, InBin
    <3> QED BY <1>7, <3>1, <3>2, <3>3, <3>4, MapUntouched
  <2> QED BY <2>1 DEF HeldFits, Fits
<1>15. \A c \in Bin : SameList(c)
  <2>1. ASSUME NEW c \in Bin PROVE Free(c)' = Free(c)
    <3>1. Cut(c)' = Cut(c)
      BY <1>9 DEF Cut
    <3> QED BY <3>1, <1>10 DEF Free
  <2>2. \A c \in Bin : \A a \in Free(c) : mem'[a] = mem[a]
    BY <1>10 DEF Free
  <2> QED BY <1>1, <2>1, <2>2 DEF SameList
<1>16. ListsApart'
  BY <1>15 DEF IInv, ListsApart, SameList
<1> QED BY <1>11, <1>12, <1>13, <1>14, <1>15, <1>16 DEF IInv

\* fill_bin() writes the mapping only, a size before each block, and chains the blocks.
LEMMA Chain ==
  ASSUME IInv, NEW b \in Bin, NEW base \in Base,
         \A a \in base .. base + Words(BIGBLOCK) - 1 : a \in Addr,
         NEW m, m = fill_bin(base, b)
  PROVE  /\ m \in [Addr -> Nat]
         /\ \A a \in Addr : a \notin base .. base + Words(BIGBLOCK) - 1 => m[a] = mem[a]
         /\ \A a \in Links(base, b) :
              /\ a \in base .. base + Words(BIGBLOCK) - 1 /\ a \in Addr
              /\ m[a - 1] = bin2size(b)
              /\ m[a] = NULL \/ (m[a] \in Links(base, b) /\ m[a] = a + Stride(b))
              /\ a + Stride(b) \in Links(base, b) => m[a] = a + Stride(b)
<1> DEFINE L == Links(base, b)
<1>0. /\ base \in Nat /\ b \in Nat /\ Words(BIGBLOCK) \in Nat
      /\ Stride(b) = 2*b + 2 /\ bin2size(b) \in Nat
  BY AddrAssumption, BinOfSize, BinSize, WordsOf, SizeAssumption
<1>1. \A a \in L : /\ a \in Nat /\ base + 2 <= a /\ a % 2 = 0
                   /\ a + 2*b + 1 <= base + Words(BIGBLOCK)
  BY BlockInside
<1> HIDE DEF L
<1>2. m = [a \in Addr |-> IF a + 1 \in L THEN bin2size(b)
                          ELSE IF a \in L
                               THEN IF a + Stride(b) \in L THEN a + Stride(b) ELSE NULL
                               ELSE mem[a]]
  BY DEF fill_bin, L
<1>3. \A a \in L : /\ a \in base .. base + Words(BIGBLOCK) - 1
                   /\ a - 1 \in base .. base + Words(BIGBLOCK) - 1
  BY <1>0, <1>1
<1>4. \A a \in L : a \in Addr /\ a - 1 \in Addr
  BY <1>3
<1>5. m \in [Addr -> Nat]
  <2>1. \A a \in Addr : mem[a] \in Nat
    BY DEF IInv, TypeOK
  <2>2. \A a \in Addr : a + Stride(b) \in L => a + Stride(b) \in Nat
    BY <1>1
  <2>3. NULL \in Nat
    BY DEF NULL
  <2> QED BY <1>0, <1>2, <2>1, <2>2, <2>3
<1>6. ASSUME NEW a \in Addr, a \notin base .. base + Words(BIGBLOCK) - 1
      PROVE  m[a] = mem[a]
  <2>1. a \in Nat /\ (a + 1) - 1 = a
    BY AddrAssumption
  <2>2. a \notin L /\ a + 1 \notin L
    BY <1>3, <1>6, <2>1
  <2> QED BY <1>2, <2>2
<1>7. ASSUME NEW a \in L
      PROVE  /\ m[a - 1] = bin2size(b)
             /\ m[a] = NULL \/ (m[a] \in L /\ m[a] = a + Stride(b))
             /\ a + Stride(b) \in L => m[a] = a + Stride(b)
  <2>1. a \in Nat /\ (a - 1) + 1 = a /\ a % 2 = 0
    BY <1>1
  <2>2. m[a - 1] = bin2size(b)
    BY <1>2, <1>4, <2>1
  <2>3. a + 1 \notin L
    BY <1>1, <2>1
  <2> QED BY <1>2, <1>4, <2>2, <2>3
<1> QED BY <1>3, <1>4, <1>5, <1>6, <1>7 DEF L

LEMMA LeastNat ==
  ASSUME NEW T \in SUBSET Nat, T # {}
  PROVE  \E j \in T : \A i \in T : j <= i
<1> DEFINE R == {ss \in Nat \X Nat : ss[1] < ss[2]}
<1>1. IsWellFoundedOn(R, Nat)
  BY NatLessThanWellFounded DEF OpToRel
<1>2. ASSUME NEW i \in Nat, NEW j \in Nat, ~(<<i, j>> \in R) PROVE j <= i
  <2>1. ~(i < j)
    BY <1>2
  <2> QED BY <2>1
<1> HIDE DEF R
<1>3. PICK j \in T : \A i \in T : ~(<<i, j>> \in R)
  BY <1>1, WFMin
<1>4. \A i \in T : j <= i
  BY <1>2, <1>3
<1> QED BY <1>4

\* From the first of the new blocks the links lead to all the others: else there
\* would be a first one that they do not lead to, and one before it.
LEMMA ChainLinked ==
  ASSUME NEW b \in Bin, NEW base \in Nat, NEW m, NEW S,
         \A a \in Links(base, b) : a + Stride(b) \in Links(base, b) => m[a] = a + Stride(b),
         m[base + 2] \in S \cup {NULL}, \A a \in S : m[a] \in S \cup {NULL}
  PROVE  Links(base, b) \ {base + 2} \subseteq S
<1> DEFINE N == Nblocks(b)
           K == Stride(b)
           blk(j) == base + 2 + j * K
           T == {j \in 0 .. N - 1 : j # 0 /\ blk(j) \notin S}
<1>1. /\ K \in Nat /\ K > 0 /\ N \in Nat
      /\ Links(base, b) = {blk(j) : j \in 0 .. N - 1}
  <2>1. b \in Nat /\ Stride(b) = 2*b + 2
    BY BinOfSize, BinSize
  <2>2. K \in Nat /\ K > 0
    BY <2>1
  <2>3. N \in Nat
    BY BlocksFit
  <2>4. Links(base, b) = {blk(j) : j \in 0 .. N - 1}
    BY SizeAssumption DEF Links
  <2> QED BY <2>2, <2>3, <2>4
<1> HIDE DEF N, K
<1>2. T = {}
  <2> SUFFICES ASSUME T # {} PROVE FALSE
    OBVIOUS
  <2>1. T \in SUBSET Nat
    BY <1>1
  <2> HIDE DEF T
  <2>2. PICK j \in T : \A i \in T : j <= i
    BY <2>1, LeastNat
  <2> USE DEF T
  <2>3. /\ j \in Nat /\ j # 0 /\ j - 1 \in 0 .. N - 1 /\ j \in 0 .. N - 1
        /\ blk(j) \notin S
    BY <1>1
  <2>4. j - 1 \notin T
    BY <2>2, <2>3
  <2>5. blk(j) = blk(j - 1) + K /\ blk(j) \in Nat /\ blk(j) # NULL
    BY <1>1, <2>3 DEF NULL
  <2>6. m[blk(j - 1)] = blk(j)
    BY <1>1, <2>3, <2>5 DEF K
  <2>7. CASE j - 1 = 0
    BY <1>1, <2>3, <2>5, <2>6, <2>7
  <2>8. CASE j - 1 # 0
    BY <2>3, <2>4, <2>5, <2>6, <2>8
  <2> QED BY <2>7, <2>8
<1>3. ASSUME NEW a \in Links(base, b), a # base + 2 PROVE a \in S
  <2>1. PICK j \in 0 .. N - 1 : a = blk(j)
    BY <1>1
  <2>2. j # 0
    BY <1>1, <1>3, <2>1
  <2> QED BY <1>2, <2>1, <2>2
<1> QED BY <1>3

LEMMA RefillStep ==
  ASSUME IInv, NEW n \in Request, NEW base \in Base, malloc_refill(n, base)
  PROVE  /\ IInv'
         /\ \E b \in Bin :
              /\ bin[b] = NULL /\ bin'[b] = mem'[base + 2]
              /\ Free(b)' = Free(b) \cup (Links(base, b) \ {base + 2})
              /\ \A a \in Links(base, b) :
                   a + Stride(b) \in Links(base, b) => mem'[a] = a + Stride(b)
              /\ \A c \in Bin : c # b => SameList(c)
<1> DEFINE b == size2bin(n)
           p == base + 2
           L == Links(base, b)
           W == Words(BIGBLOCK)
<1>1. /\ n \in Nat /\ Small(n) /\ bin[b] = NULL /\ ALIGN = 2
      /\ mmap0(base, BIGBLOCK)
      /\ mem' = fill_bin(base, b)
      /\ bin' = [bin EXCEPT ![b] = mem'[p]]
      /\ held' = [held EXCEPT ![p] = n]
  BY AddrAssumption, SizeAssumption DEF malloc_refill
<1>2. b \in Bin /\ b \in Nat /\ n <= bin2size(b) /\ Small(bin2size(b))
  BY <1>1, SmallSize, BinOfSize
<1> HIDE DEF b
<1>3. BIGBLOCK \in Nat /\ BIGBLOCK > 0
  <2>1. WASTE \in Nat /\ bin2size(BINS - 1) \in Nat /\ WORD \in Nat /\ WORD > 0
    BY BinSize, SizeAssumption
  <2> QED BY <2>1, SizeAssumption
<1>4. /\ base \in Nat /\ base % 2 = 0 /\ base \notin Maps
      /\ mapped'[base] = W /\ W \in Nat
      /\ mapped' \in [Base -> Nat]
      /\ Maps' = Maps \cup {base} /\ MapsApart'
      /\ \A a \in base .. base + W - 1 : a \in Addr /\ held[a] = NONE
      /\ \A q \in Maps : /\ mapped'[q] = mapped[q]
                         /\ q + mapped[q] <= base \/ base + W <= q
  BY <1>1, <1>3, NewMapping
<1> HIDE DEF W
<1>5. /\ mem' \in [Addr -> Nat]
      /\ \A a \in Addr : a \notin base .. base + W - 1 => mem'[a] = mem[a]
      /\ \A a \in L :
           /\ a \in base .. base + W - 1 /\ a \in Addr
           /\ mem'[a - 1] = bin2size(b)
           /\ mem'[a] = NULL \/ (mem'[a] \in L /\ mem'[a] = a + Stride(b))
           /\ a + Stride(b) \in L => mem'[a] = a + Stride(b)
  <2>1. \A a \in base .. base + Words(BIGBLOCK) - 1 : a \in Addr
    BY <1>4 DEF W
  <2>2. mem' = fill_bin(base, b) /\ b \in Bin
    BY <1>1, <1>2
  <2> QED BY <2>1, <2>2, Chain DEF W
<1>6. p \in L /\ p - 1 = base + 1
  BY <1>2, <1>4, FirstBlock
<1>7. /\ held \in [Addr -> Request \cup {NONE}]
      /\ bin \in [Bin -> Addr \cup {NULL}]
      /\ Stride(b) \in Nat /\ Stride(b) > 0
      /\ \A a \in L : a \in Nat /\ a # NULL
  <2>1. \A a \in L : a \in Nat /\ a >= 2
    BY <1>2, <1>4, BlockInside
  <2> QED BY <1>2, <2>1, BinSize DEF IInv, TypeOK, NULL
<1> HIDE DEF L
<1>8. /\ held'[p] = n
      /\ \A a \in Addr : a # p => held'[a] = held[a]
      /\ bin'[b] = mem'[p]
      /\ \A c \in Bin : c # b => bin'[c] = bin[c]
  BY <1>1, <1>2, <1>5, <1>6, <1>7
<1>9. ASSUME NEW q \in Maps PROVE Untouched(q)
  <2>1. q \in Nat /\ mapped[q] \in Nat
    BY MapFacts DEF IInv
  <2>2. \A a \in q .. q + mapped[q] - 1 : a \in Addr /\ a \notin base .. base + W - 1
    <3>1. \A a \in q .. q + mapped[q] - 1 : a \in Addr
      BY DEF IInv, MapsApart
    <3> QED BY <3>1, <2>1, <1>4
  <2>3. \A a \in q .. q + mapped[q] - 1 : a # p
    BY <2>2, <1>5, <1>6
  <2> QED BY <1>4, <1>5, <1>8, <2>2, <2>3 DEF Untouched
<1>10. Header(base)' = bin2size(b)
  BY <1>1, <1>4, <1>5, <1>6 DEF Header
<1>11. Pages(b)' = Pages(b) \cup {base} /\ Cut(b)' = Cut(b) \cup L
  <2>1. \A q \in Maps : q \in Pages(b)' <=> q \in Pages(b)
    BY <1>2, <1>9, MapUntouched
  <2>2. base \in Pages(b)'
    BY <1>4, <1>10 DEF Pages
  <2>3. Pages(b)' = Pages(b) \cup {base}
    BY <1>4, <2>1, <2>2 DEF Pages
  <2> QED BY <2>3 DEF Cut, L
<1>12. ASSUME NEW c \in Bin, c # b PROVE Pages(c)' = Pages(c) /\ Cut(c)' = Cut(c)
  <2>1. \A q \in Maps : q \in Pages(c)' <=> q \in Pages(c)
    BY <1>9, MapUntouched
  <2>2. base \notin Pages(c)'
    BY <1>2, <1>10, <1>12, BinOfSize DEF Pages
  <2>3. Pages(c)' = Pages(c)
    BY <1>4, <2>1, <2>2 DEF Pages
  <2> QED BY <2>3 DEF Cut
<1>13. ASSUME NEW c \in Bin, NEW a \in Cut(c)
       PROVE  mem'[a] = mem[a] /\ held'[a] = held[a] /\ a \notin L
  <2>1. PICK q \in Pages(c) : a \in Links(q, c)
    BY DEF Cut
  <2>2. q \in Maps /\ q \in Base /\ q \in Nat /\ mapped[q] = W /\ c \in Nat
    BY <2>1, PageFacts, MapFacts, BinOfSize DEF IInv, W
  <2>3. a \in Nat /\ q + 2 <= a /\ a + 2*c + 1 <= q + W
    BY <2>1, <2>2, BlockInside DEF W
  <2>4. a \notin base .. base + W - 1
    BY <1>4, <2>2, <2>3
  <2> QED BY <1>5, <1>9, <2>1, <2>2, <2>4, MapUntouched
<1>14. TypeOK'
  <2>1. mem'[p] \in Addr \cup {NULL}
    BY <1>5, <1>6
  <2> QED BY <1>1, <1>2, <1>4, <1>5, <1>7, <2>1 DEF IInv, TypeOK
<1>15. MapsInUse'
  <2>1. \A q \in Maps : InUse(q)'
    BY <1>9, MapUntouched
  <2>2. InUse(base)'
    BY <1>2, <1>4, <1>5, <1>11 DEF InUse, L, W
  <2> QED BY <1>4, <2>1, <2>2 DEF MapsInUse, InUse
<1>16. HeldFits'
  <2>1. ASSUME NEW a \in Addr, held'[a] # NONE PROVE Fits(a)'
    <3>1. CASE a = p
      BY <1>2, <1>6, <1>8, <1>11, <3>1 DEF Fits
    <3>2. CASE a # p
      <4>1. held[a] # NONE
        BY <1>8, <2>1, <3>2
      <4>2. PICK q \in Base : IsLarge(a, q) \/ \E c \in Bin : InBin(a, q, c)
        BY <4>1, HeldPlace
      <4>3. q \in Maps
        BY <4>1, <4>2, HeldInside
      <4> QED BY <1>9, <4>1, <4>2, <4>3, MapUntouched
    <3> QED BY <3>1, <3>2
  <2> QED BY <2>1 DEF HeldFits, Fits
<1>17. Free(b)' = Free(b) \cup (L \ {p})
  BY <1>1, <1>4, <1>5, <1>6, <1>8, <1>11, <1>13, <1>2 DEF Free, NONE
<1>18. ASSUME NEW c \in Bin, c # b PROVE SameList(c)
  <2>1. Free(c)' = Free(c)
    BY <1>18, <1>12, <1>13 DEF Free
  <2>2. \A a \in Free(c) : mem'[a] = mem[a]
    BY <1>13 DEF Free
  <2> QED BY <1>8, <1>18, <2>1, <2>2 DEF SameList
<1>19. ListsApart'
  <2>3. \A c \in Bin : \A a \in Free(c) : mem'[a] = mem[a] /\ a \notin L
    BY <1>13 DEF Free
  <2>4. ASSUME NEW c \in Bin
        PROVE  /\ bin'[c] \in Free(c)' \cup {NULL}
               /\ \A a \in Free(c)' :
                    /\ mem'[a] \in Free(c)' \cup {NULL}
                    /\ mem'[a] = NULL \/ mem'[a] # bin'[c]
                    /\ \A d \in Free(c)' : mem'[a] = mem'[d] => a = d \/ mem'[a] = NULL
    <3>0. /\ bin[c] \in Free(c) \cup {NULL}
          /\ \A a \in Free(c) :
                /\ mem[a] \in Free(c) \cup {NULL}
                /\ mem[a] = NULL \/ mem[a] # bin[c]
                /\ \A d \in Free(c) : mem[a] = mem[d] => a = d \/ mem[a] = NULL
      BY DEF IInv, ListsApart
    <3>1. CASE c = b
      <4>1. \A a \in L : mem'[a] = NULL \/ (mem'[a] \in L \ {p} /\ mem'[a] = a + Stride(b))
        <5> SUFFICES ASSUME NEW a \in L, mem'[a] # NULL
                     PROVE  mem'[a] \in L \ {p} /\ mem'[a] = a + Stride(b)
          OBVIOUS
        <5>1. mem'[a] \in L /\ mem'[a] = a + Stride(b)
          BY <1>5
        <5>2. p <= a /\ a \in Nat /\ p \in Nat
          BY <1>2, <1>4, <1>7, BlockInside DEF L
        <5> QED BY <5>1, <5>2, <1>7
      <4>2. \A a, d \in L : mem'[a] = mem'[d] => a = d \/ mem'[a] = NULL
        BY <4>1, <1>7
      <4>3. bin'[b] = NULL \/ bin'[b] \in L \ {p}
        BY <4>1, <1>6, <1>8
      <4>4. \A a \in L \ {p} : mem'[a] = NULL \/ mem'[a] # bin'[b]
        BY <4>2, <1>6, <1>8
      <4>5. \A a \in Free(b) : /\ mem'[a] = NULL \/ mem'[a] \in Free(b)
                              /\ \A d \in Free(b) : mem'[a] = mem'[d] => a = d \/ mem'[a] = NULL
        BY <3>0, <3>1, <2>3
      <4>6. \A a \in Free(b) : a \notin L
        BY <2>3, <1>2
      <4> QED BY <3>1, <1>17, <4>1, <4>2, <4>3, <4>4, <4>5, <4>6
    <3>2. CASE c # b
      BY <3>0, <3>2, <1>18 DEF SameList
    <3> QED BY <3>1, <3>2
  <2> QED BY <2>4 DEF ListsApart
<1>20. IInv'
  BY <1>4, <1>14, <1>15, <1>16, <1>19 DEF IInv
<1> QED BY <1>1, <1>2, <1>5, <1>8, <1>17, <1>18, <1>20 DEF L

-----------------------------------------------------------------------------
(* The theorems.                                                           *)

LEMMA InitOK == Init => IInv
<1> SUFFICES ASSUME Init PROVE IInv
  OBVIOUS
<1>1. /\ mem = [a \in Addr |-> 0] /\ bin = [b \in Bin |-> NULL]
      /\ mapped = [p \in Base |-> 0] /\ held = [p \in Addr |-> NONE]
  BY DEF Init
<1>2. Maps = {} /\ \A b \in Bin : Pages(b) = {} /\ Cut(b) = {} /\ Free(b) = {}
  BY <1>1 DEF Maps, Pages, Cut, Free
<1>3. TypeOK
  BY <1>1 DEF TypeOK
<1>4. MapsApart /\ MapsInUse /\ HeldFits
  BY <1>1, <1>2 DEF MapsApart, MapsInUse, HeldFits
<1>5. ListsApart
  BY <1>1, <1>2 DEF ListsApart
<1> QED BY <1>3, <1>4, <1>5 DEF IInv

LEMMA StepOK == IInv /\ [Next]_vars => IInv'
<1> SUFFICES ASSUME IInv, [Next]_vars PROVE IInv'
  OBVIOUS
<1>1. CASE UNCHANGED vars
  BY <1>1 DEF vars, IInv, TypeOK, MapsApart, MapsInUse, HeldFits, ListsApart, Maps,
    Header, Pages, Cut, Free, Large
<1>2. ASSUME NEW n \in Request, malloc_small(n) PROVE IInv'
  BY <1>2, SmallStep
<1>3. ASSUME NEW n \in Request, malloc_fails(n) PROVE IInv'
  BY <1>1, <1>3 DEF malloc_fails
<1>4. ASSUME NEW n \in Request, NEW base \in Base, malloc_refill(n, base) PROVE IInv'
  BY <1>4, RefillStep
<1>5. ASSUME NEW n \in Request, NEW base \in Base, malloc_large(n, base) PROVE IInv'
  BY <1>5, LargeStep
<1>6. ASSUME NEW p \in Addr, free_small(p) PROVE IInv'
  BY <1>6, FreeSmallStep
<1>7. ASSUME NEW p \in Addr, free_large(p) PROVE IInv'
  BY <1>7, FreeLargeStep
<1>8. ASSUME NEW p \in Addr, NEW w \in Word, Write(p, w) PROVE IInv'
  BY <1>8, WriteStep
<1> QED BY <1>1, <1>2, <1>3, <1>4, <1>5, <1>6, <1>7, <1>8 DEF Next

\* malloc() and free() keep the inductive invariant, whatever the order in which
\* blocks are taken, filled and freed: sizes and links stay where the code expects
\* them.
THEOREM BlocksFound == Spec => []IInv
BY InitOK, StepOK, PTL DEF Spec

-----------------------------------------------------------------------------
(* No free block is lost.                                                  *)

Linked == \A b \in Bin : AllLinked(b)

\* A bin that a step leaves alone.
LEMMA SameLinked ==
  ASSUME Linked, NEW c \in Bin, SameList(c)
  PROVE  AllLinked(c)'
<1> SUFFICES ASSUME NEW S \in SUBSET Free(c)', OnList(c, S)' PROVE S = Free(c)'
  BY DEF AllLinked
<1>1. S \in SUBSET Free(c) /\ Free(c)' = Free(c)
  BY DEF SameList
<1>2. OnList(c, S)
  BY <1>1 DEF OnList, SameList
<1> QED BY <1>1, <1>2 DEF Linked, AllLinked

\* The first block of a list goes.
LEMMA PopLinked ==
  ASSUME IInv, Linked, NEW n \in Request, malloc_small(n)
  PROVE  Linked'
<1>1. PICK b \in Bin :
        /\ bin[b] \in Free(b) /\ Free(b)' = Free(b) \ {bin[b]}
        /\ bin'[b] = mem[bin[b]] /\ \A a \in Free(b) : mem'[a] = mem[a]
        /\ \A c \in Bin : c # b => SameList(c)
  BY SmallStep
<1>2. ASSUME NEW S \in SUBSET Free(b)', OnList(b, S)' PROVE S = Free(b)'
  <2>1. OnList(b, S \cup {bin[b]})
    BY <1>1, <1>2 DEF OnList
  <2>2. S \cup {bin[b]} = Free(b)
    BY <1>1, <1>2, <2>1 DEF Linked, AllLinked
  <2> QED BY <1>1, <1>2, <2>2
<1> QED BY <1>1, <1>2, SameLinked DEF Linked, AllLinked

\* A block is put in front of a list.
LEMMA PushLinked ==
  ASSUME IInv, Linked, NEW p \in Addr, free_small(p)
  PROVE  Linked'
<1>1. PICK b \in Bin :
        /\ p \notin Free(b) /\ Free(b)' = Free(b) \cup {p}
        /\ bin'[b] = p /\ mem'[p] = bin[b] /\ \A a \in Free(b) : mem'[a] = mem[a]
        /\ \A c \in Bin : c # b => SameList(c)
  BY FreeSmallStep
<1>2. p # NULL
  BY FreeSmallStep
<1>3. bin[b] \in Free(b) \cup {NULL} /\ \A a \in Free(b) : mem[a] \in Free(b) \cup {NULL}
  BY DEF IInv, ListsApart
<1>4. ASSUME NEW S \in SUBSET Free(b)', OnList(b, S)' PROVE S = Free(b)'
  <2>1. p \in S
    BY <1>1, <1>2, <1>4 DEF OnList
  <2>2. OnList(b, S \ {p})
    BY <1>1, <1>3, <1>4, <2>1 DEF OnList
  <2>3. S \ {p} = Free(b)
    BY <1>1, <1>4, <2>2 DEF Linked, AllLinked
  <2> QED BY <1>1, <2>1, <2>3
<1> QED BY <1>1, <1>4, SameLinked DEF Linked, AllLinked

\* An empty list, of a bin without free blocks, gets the blocks of a new mapping
\* but for the first.
LEMMA RefillLinked ==
  ASSUME IInv, Linked, NEW n \in Request, NEW base \in Base, malloc_refill(n, base)
  PROVE  Linked'
<1>1. PICK b \in Bin :
        /\ bin[b] = NULL /\ bin'[b] = mem'[base + 2]
        /\ Free(b)' = Free(b) \cup (Links(base, b) \ {base + 2})
        /\ \A a \in Links(base, b) :
             a + Stride(b) \in Links(base, b) => mem'[a] = a + Stride(b)
        /\ \A c \in Bin : c # b => SameList(c)
  BY RefillStep
<1>2. Free(b) = {}
  <2>1. OnList(b, {})
    BY <1>1 DEF OnList
  <2> QED BY <2>1 DEF Linked, AllLinked
<1>3. ASSUME NEW S \in SUBSET Free(b)', OnList(b, S)' PROVE S = Free(b)'
  <2>1. base \in Nat
    BY AddrAssumption
  <2>2. Links(base, b) \ {base + 2} \subseteq S
    BY <1>1, <1>3, <2>1, ChainLinked DEF OnList
  <2> QED BY <1>1, <1>2, <1>3, <2>2
<1> QED BY <1>1, <1>3, SameLinked DEF Linked, AllLinked

LEMMA NextLinked == IInv /\ Linked /\ [Next]_vars => Linked'
<1> SUFFICES ASSUME IInv, Linked, [Next]_vars PROVE Linked'
  OBVIOUS
<1>1. ASSUME UNCHANGED vars, NEW c \in Bin PROVE SameList(c)
  <2>1. Pages(c)' = Pages(c)
    BY <1>1 DEF vars, Pages, Maps, Header
  <2>2. Free(c)' = Free(c)
    BY <1>1, <2>1 DEF vars, Free, Cut
  <2> QED BY <1>1, <2>2 DEF vars, SameList
<1>2. ASSUME \A c \in Bin : SameList(c) PROVE Linked'
  BY <1>2, SameLinked DEF Linked
<1>3. ASSUME NEW n \in Request, NEW base \in Base, malloc_large(n, base) PROVE Linked'
  BY <1>2, <1>3, LargeStep
<1>4. ASSUME NEW p \in Addr, free_large(p) PROVE Linked'
  BY <1>2, <1>4, FreeLargeStep
<1>5. ASSUME NEW p \in Addr, NEW w \in Word, Write(p, w) PROVE Linked'
  BY <1>2, <1>5, WriteStep
<1>6. CASE UNCHANGED vars
  BY <1>1, <1>2, <1>6
<1> QED BY <1>3, <1>4, <1>5, <1>6, PopLinked, PushLinked, RefillLinked
  DEF Next, malloc_fails

\* In whatever order clients take, fill and free blocks, the list of a bin holds
\* each of its free blocks.
THEOREM NoneLost == Spec => []NothingLost
<1>1. Init => Linked
  BY DEF Init, Linked, AllLinked, Free, Cut, Pages, Maps
<1>2. IInv /\ Linked => NothingLost
  BY DEF IInv, ListsApart, Linked, NothingLost, OnList
<1> QED BY <1>1, <1>2, InitOK, StepOK, NextLinked, PTL DEF Spec

-----------------------------------------------------------------------------
(* The allocator keeps the promise of malloc.h.                            *)

\* The blocks that are held are aligned, in memory, and share no word.
BlocksApart ==
  /\ \A p \in Addr : held[p] # NONE =>
       /\ p % 2 = 0
       /\ \A a \in p .. p + Words(held[p]) - 1 : a \in Addr
  /\ \A p, q \in Addr : held[p] # NONE /\ held[q] # NONE /\ p # q =>
       \A a \in Addr : ~(p <= a /\ a < p + Words(held[p]) /\ q <= a /\ a < q + Words(held[q]))

LEMMA HeldApart == IInv => BlocksApart
<1> SUFFICES ASSUME IInv PROVE BlocksApart
  OBVIOUS
<1>1. ASSUME NEW p \in Addr, held[p] # NONE
      PROVE  /\ p % 2 = 0
             /\ \A a \in p .. p + Words(held[p]) - 1 : a \in Addr
  <2>1. PICK q \in Base : IsLarge(p, q) \/ \E b \in Bin : InBin(p, q, b)
    BY <1>1, HeldPlace
  <2>2. /\ q \in Maps /\ q + 2 <= p /\ p + Words(held[p]) <= q + mapped[q]
        /\ p % 2 = 0
    BY <1>1, <2>1, HeldInside
  <2>3. /\ q \in Nat /\ mapped[q] \in Nat /\ p \in Nat /\ Words(held[p]) \in Nat
    BY <1>1, <2>2, MapFacts, HeldFacts DEF IInv
  <2>4. \A a \in p .. p + Words(held[p]) - 1 : a \in q .. q + mapped[q] - 1
    BY <2>2, <2>3
  <2> QED BY <2>2, <2>4 DEF IInv, MapsApart
<1>2. ASSUME NEW p \in Addr, NEW q \in Addr, held[p] # NONE, held[q] # NONE, p # q,
             NEW r \in Base, NEW b \in Bin, InBin(q, r, b)
      PROVE  p + Words(held[p]) <= q \/ q + Words(held[q]) <= p
  <2>1. /\ p \in Nat /\ Words(held[p]) \in Nat /\ q \in Nat /\ Words(held[q]) \in Nat
        /\ held[q] \in Nat
    BY <1>2, HeldFacts
  <2>2. q + 2*b + 2 <= p \/ p + Words(held[p]) < q
    BY <1>2, HeldClear DEF InBin
  <2>3. Words(held[q]) <= 2*b + 1 /\ b \in Nat
    <3>1. /\ b \in Nat /\ bin2size(b) \in Nat /\ Words(bin2size(b)) = 2*b + 1
          /\ held[q] <= bin2size(b)
      BY <1>2, BinOfSize, BinSize DEF InBin
    <3> QED BY <2>1, <3>1, WordsOf
  <2> QED BY <2>1, <2>2, <2>3
<1>3. ASSUME NEW p \in Addr, NEW q \in Addr, held[p] # NONE, held[q] # NONE, p # q,
             NEW r \in Base, NEW s \in Base, IsLarge(p, r), IsLarge(q, s)
      PROVE  p + Words(held[p]) <= q \/ q + Words(held[q]) <= p
  <2>1. /\ p \in Nat /\ Words(held[p]) \in Nat /\ q \in Nat /\ Words(held[q]) \in Nat
        /\ r \in Nat /\ mapped[r] \in Nat /\ s \in Nat /\ mapped[s] \in Nat
    BY <1>3, HeldFacts, MapFacts DEF IInv, IsLarge
  <2>2. r # s /\ r \in Maps /\ s \in Maps
    BY <1>3 DEF IsLarge
  <2>3. r + mapped[r] <= s \/ s + mapped[s] <= r
    BY <2>2 DEF IInv, MapsApart
  <2> QED BY <1>3, <2>1, <2>3 DEF IsLarge
<1>4. ASSUME NEW p \in Addr, NEW q \in Addr, held[p] # NONE, held[q] # NONE, p # q
      PROVE  p + Words(held[p]) <= q \/ q + Words(held[q]) <= p
  <2>1. PICK r \in Base : IsLarge(p, r) \/ \E b \in Bin : InBin(p, r, b)
    BY <1>4, HeldPlace
  <2>2. PICK s \in Base : IsLarge(q, s) \/ \E b \in Bin : InBin(q, s, b)
    BY <1>4, HeldPlace
  <2> QED BY <1>2, <1>3, <1>4, <2>1, <2>2
<1>5. ASSUME NEW p \in Addr, NEW q \in Addr, held[p] # NONE, held[q] # NONE, p # q,
             NEW a \in Addr
      PROVE  ~(p <= a /\ a < p + Words(held[p]) /\ q <= a /\ a < q + Words(held[q]))
  <2>1. /\ p \in Nat /\ Words(held[p]) \in Nat /\ q \in Nat /\ Words(held[q]) \in Nat
    BY <1>5, HeldFacts
  <2>2. a \in Nat
    BY AddrAssumption
  <2> QED BY <1>4, <1>5, <2>1, <2>2
<1> QED BY <1>1, <1>5 DEF BlocksApart

\* A step that hands out block p, of n bytes, and leaves the words of others alone.
LEMMA HandsOut ==
  ASSUME BlocksApart', NEW p \in Addr, NEW n \in Request, held[p] = NONE,
         held \in [Addr -> Request \cup {NONE}],
         held' = [held EXCEPT ![p] = n],
         mem' \in [Addr -> Nat],
         \A q \in Addr : held[q] # NONE =>
           \A a \in Addr : q <= a /\ a < q + Words(held[q]) => mem'[a] = mem[a]
  PROVE  Promise!Malloc(p, n)
<1>1. /\ n \in Nat /\ n # NONE /\ held'[p] = n /\ ALIGN = 2
      /\ \A q \in Addr : q # p => held'[q] = held[q]
  BY AddrAssumption, SizeAssumption DEF NONE
<1>2. Promise!NONE = NONE /\ \A x : Promise!Words(x) = Words(x)
  BY DEF Promise!NONE, NONE, Promise!Words, Words
<1>3. \A q, x : Promise!Block(q, x) = {a \in Addr : q <= a /\ a < q + Words(x)}
  BY <1>2 DEF Promise!Block
<1>4. p % ALIGN = 0 /\ \A a \in p .. p + Words(n) - 1 : a \in Addr
  BY <1>1 DEF BlocksApart
<1>5. ASSUME NEW q \in Addr, held[q] # NONE, NEW a \in Promise!Block(p, n)
      PROVE  a \notin Promise!Block(q, held[q])
  <2>1. q # p /\ held'[q] = held[q] /\ held'[p] # NONE
    BY <1>1, <1>5
  <2> QED BY <1>1, <1>3, <1>5, <2>1 DEF BlocksApart
<1>6. Promise!Keeps(Promise!Owned)
  BY <1>2, <1>3 DEF Promise!Keeps, Promise!Owned
<1> QED BY <1>2, <1>4, <1>5, <1>6 DEF Promise!Malloc

\* A step that takes back block p and leaves the words of others alone.
LEMMA TakesBack ==
  ASSUME NEW p \in Addr, held[p] # NONE,
         held \in [Addr -> Request \cup {NONE}],
         held' = [held EXCEPT ![p] = NONE],
         mem' \in [Addr -> Nat],
         \A q \in Addr : q # p /\ held[q] # NONE =>
           \A a \in Addr : q <= a /\ a < q + Words(held[q]) => mem'[a] = mem[a]
  PROVE  Promise!Free(p)
<1>1. /\ held'[p] = NONE
      /\ \A q \in Addr : q # p => held'[q] = held[q]
  OBVIOUS
<1>2. Promise!NONE = NONE /\ \A x : Promise!Words(x) = Words(x)
  BY DEF Promise!NONE, NONE, Promise!Words, Words
<1>3. \A q, x : Promise!Block(q, x) = {a \in Addr : q <= a /\ a < q + Words(x)}
  BY <1>2 DEF Promise!Block
<1>4. Promise!Owned' = {a \in Addr : \E q \in Addr :
                           held'[q] # NONE /\ q <= a /\ a < q + Words(held'[q])}
  BY <1>2, <1>3 DEF Promise!Owned
<1>5. \A a \in Promise!Owned' : mem'[a] = mem[a]
  BY <1>1, <1>4
<1>6. Promise!Keeps(Promise!Owned')
  BY <1>5 DEF Promise!Keeps
<1> QED BY <1>2, <1>6 DEF Promise!Free

\* Words of a block that is held lie in a mapping that was there before.
LEMMA HeldInMap ==
  ASSUME IInv, NEW q \in Addr, held[q] # NONE, NEW a \in Addr,
         q <= a, a < q + Words(held[q])
  PROVE  \E r \in Maps : /\ a \in r .. r + mapped[r] - 1
                         /\ IsLarge(q, r) \/ \E b \in Bin : InBin(q, r, b)
<1>1. PICK r \in Base : IsLarge(q, r) \/ \E b \in Bin : InBin(q, r, b)
  BY HeldPlace
<1>2. /\ r \in Maps /\ r + 2 <= q /\ q + Words(held[q]) <= r + mapped[r]
  BY <1>1, HeldInside
<1>3. r \in Nat /\ mapped[r] \in Nat /\ q \in Nat /\ Words(held[q]) \in Nat /\ a \in Nat
  BY <1>2, MapFacts, HeldFacts, AddrAssumption DEF IInv
<1> QED BY <1>1, <1>2, <1>3

LEMMA StepKeepsPromise ==
  ASSUME IInv, IInv', [Next]_vars
  PROVE  [Promise!Next]_<<held, mem>>
<1>1. BlocksApart /\ BlocksApart'
  <2>1. BlocksApart BY HeldApart
  <2>2. (IInv => BlocksApart)' BY HeldApart, PTL
  <2> QED BY <2>1, <2>2
<1>2. /\ held \in [Addr -> Request \cup {NONE}]
      /\ mem \in [Addr -> Nat] /\ mem' \in [Addr -> Nat]
  BY DEF IInv, TypeOK
<1>3. CASE UNCHANGED vars
  BY <1>3 DEF vars
<1>4. ASSUME NEW n \in Request, malloc_small(n)
      PROVE  \E p \in Addr : Promise!Malloc(p, n)
  <2>1. n \in Nat /\ size2bin(n) \in Bin
    BY <1>4, AddrAssumption, SmallSize DEF malloc_small
  <2>2. PICK p : p = bin[size2bin(n)]
    OBVIOUS
  <2>3. p # NULL /\ held' = [held EXCEPT ![p] = n] /\ mem' = mem
    BY <1>4, <2>2 DEF malloc_small
  <2>4. p \in Addr /\ held[p] = NONE
    BY <2>1, <2>2, <2>3, CutFacts DEF IInv, ListsApart, Free
  <2> QED BY <1>1, <1>2, <2>3, <2>4, HandsOut
<1>5. ASSUME NEW n \in Request, NEW base \in Base, malloc_refill(n, base)
      PROVE  \E p \in Addr : Promise!Malloc(p, n)
  <2>1. /\ n \in Nat /\ size2bin(n) \in Bin /\ mmap0(base, BIGBLOCK) /\ ALIGN = 2
        /\ mem' = fill_bin(base, size2bin(n))
        /\ held' = [held EXCEPT ![base + 2] = n]
    BY <1>5, AddrAssumption, SizeAssumption, SmallSize DEF malloc_refill
  <2>2. BIGBLOCK \in Nat /\ BIGBLOCK > 0
    <3>1. WASTE \in Nat /\ bin2size(BINS - 1) \in Nat /\ WORD \in Nat /\ WORD > 0
      BY BinSize, SizeAssumption
    <3> QED BY <3>1, SizeAssumption
  <2>3. /\ base \in Nat /\ Words(BIGBLOCK) \in Nat
        /\ \A a \in base .. base + Words(BIGBLOCK) - 1 : a \in Addr /\ held[a] = NONE
        /\ \A r \in Maps : r + mapped[r] <= base \/ base + Words(BIGBLOCK) <= r
    BY <2>1, <2>2, NewMapping
  <2>4. /\ \A a \in Addr : a \notin base .. base + Words(BIGBLOCK) - 1 => mem'[a] = mem[a]
        /\ base + 2 \in base .. base + Words(BIGBLOCK) - 1
    BY <2>1, <2>3, Chain, FirstBlock
  <2>5. ASSUME NEW q \in Addr, held[q] # NONE, NEW a \in Addr,
               q <= a, a < q + Words(held[q])
        PROVE  mem'[a] = mem[a]
    <3>1. PICK r \in Maps : a \in r .. r + mapped[r] - 1
      BY <2>5, HeldInMap
    <3>2. r \in Nat /\ mapped[r] \in Nat
      BY MapFacts DEF IInv
    <3> QED BY <2>3, <2>4, <3>1, <3>2
  <2> QED BY <1>1, <1>2, <2>1, <2>3, <2>4, <2>5, HandsOut
<1>6. ASSUME NEW n \in Request, NEW base \in Base, malloc_large(n, base)
      PROVE  \E p \in Addr : Promise!Malloc(p, n)
  <2>1. /\ n \in Nat /\ ~Small(n) /\ mmap0(base, n + WASTE + WORD) /\ ALIGN = 2
        /\ mem' = [mem EXCEPT ![base + 1] = n]
        /\ held' = [held EXCEPT ![base + 2] = n]
    BY <1>6, AddrAssumption, SizeAssumption DEF malloc_large
  <2>2. /\ n + WASTE + WORD \in Nat /\ n + WASTE + WORD > 0
        /\ Words(n) \in Nat /\ Words(n) > 0 /\ Words(n + WASTE + WORD) = Words(n) + 2
    <3>1. n > 0
      BY <2>1, BinSize, SizeAssumption DEF Small
    <3>2. WASTE \in Nat /\ WORD \in Nat
      BY SizeAssumption DEF WASTE
    <3> QED BY <2>1, <3>1, <3>2, WordsOf
  <2>3. /\ base \in Nat
        /\ \A a \in base .. base + Words(n) + 1 : a \in Addr /\ held[a] = NONE
        /\ \A r \in Maps : r + mapped[r] <= base \/ base + Words(n) + 2 <= r
    <3>1. /\ base \in Nat
          /\ \A a \in base .. base + Words(n + WASTE + WORD) - 1 : a \in Addr /\ held[a] = NONE
          /\ \A r \in Maps : r + mapped[r] <= base \/ base + Words(n + WASTE + WORD) <= r
      BY <2>1, <2>2, NewMapping
    <3> QED BY <3>1, <2>2
  <2>4. base + 2 \in Addr /\ held[base + 2] = NONE
    BY <2>2, <2>3
  <2>5. ASSUME NEW q \in Addr, held[q] # NONE, NEW a \in Addr,
               q <= a, a < q + Words(held[q])
        PROVE  mem'[a] = mem[a]
    <3>1. PICK r \in Maps : a \in r .. r + mapped[r] - 1
      BY <2>5, HeldInMap
    <3>2. r \in Nat /\ mapped[r] \in Nat
      BY MapFacts DEF IInv
    <3>3. a # base + 1
      BY <2>2, <2>3, <3>1, <3>2
    <3> QED BY <1>2, <2>1, <3>3
  <2> QED BY <1>1, <1>2, <2>1, <2>4, <2>5, HandsOut
<1>7. ASSUME NEW p \in Addr, free_small(p) PROVE Promise!Free(p)
  <2>1. /\ held[p] # NONE /\ Small(mem[p - 1])
        /\ mem' = [mem EXCEPT ![p] = bin[size2bin(mem[p - 1])]]
        /\ held' = [held EXCEPT ![p] = NONE]
    BY <1>7 DEF free_small
  <2>2. PICK r \in Base, b \in Bin : InBin(p, r, b)
    <3>1. ASSUME NEW r \in Base, IsLarge(p, r) PROVE FALSE
      BY <2>1, <3>1 DEF IsLarge
    <3> QED BY <2>1, <3>1, HeldPlace
  <2>3. ASSUME NEW q \in Addr, q # p, held[q] # NONE, NEW a \in Addr,
               q <= a, a < q + Words(held[q])
        PROVE  mem'[a] = mem[a]
    <3>1. p + 2*b + 2 <= q \/ q + Words(held[q]) < p
      BY <2>2, <2>3, HeldClear DEF InBin
    <3>2. /\ p \in Nat /\ q \in Nat /\ Words(held[q]) \in Nat /\ a \in Nat /\ b \in Nat
      BY <2>1, <2>2, <2>3, HeldFacts, BinOfSize, AddrAssumption
    <3>3. a # p
      BY <2>3, <3>1, <3>2
    <3> QED BY <1>2, <2>1, <3>3
  <2> QED BY <1>2, <2>1, <2>3, TakesBack
<1>8. ASSUME NEW p \in Addr, free_large(p) PROVE Promise!Free(p)
  <2>1. /\ held[p] # NONE /\ ~Small(mem[p - 1])
        /\ held' = [held EXCEPT ![p] = NONE]
        /\ mem' = [a \in Addr |->
                     IF a \in p - 2 .. p - 2 + Words(mem[p - 1] + WASTE + WORD) - 1
                     THEN 0 ELSE mem[a]]
    BY <1>8, SizeAssumption DEF free_large
  <2>2. PICK base \in Base : IsLarge(p, base)
    <3>1. ASSUME NEW q \in Base, NEW b \in Bin, InBin(p, q, b) PROVE FALSE
      BY <2>1, <3>1, BinOfSize DEF InBin
    <3> QED BY <2>1, <3>1, HeldPlace
  <2>3. /\ base \in Maps /\ base \in Nat /\ p = base + 2 /\ p - 2 = base
        /\ ~Small(Header(base)) /\ mapped[base] \in Nat
        /\ mapped[base] = Words(mem[p - 1] + WASTE + WORD)
    <3>1. base \in Maps /\ base \in Nat /\ p = base + 2 /\ mapped[base] \in Nat
      BY <2>2, MapFacts DEF IsLarge, IInv
    <3>2. Header(base) \in Nat /\ mapped[base] = Words(Header(base)) + 2
      BY <2>2, LargeFacts DEF IsLarge
    <3>3. mapped[base] = Words(Header(base) + WASTE + WORD)
      BY <3>2, WordsOf
    <3> QED BY <2>2, <3>1, <3>3 DEF IsLarge
  <2>4. ASSUME NEW q \in Addr, q # p, held[q] # NONE, NEW a \in Addr,
               q <= a, a < q + Words(held[q])
        PROVE  mem'[a] = mem[a]
    <3>1. PICK r \in Maps : /\ a \in r .. r + mapped[r] - 1
                            /\ IsLarge(q, r) \/ \E b \in Bin : InBin(q, r, b)
      BY <2>4, HeldInMap
    <3>2. r # base
      BY <2>3, <2>4, <3>1, PageFacts DEF IsLarge, InBin
    <3>3. r \in Nat /\ mapped[r] \in Nat
      BY MapFacts DEF IInv
    <3>4. r + mapped[r] <= base \/ base + mapped[base] <= r
      BY <2>3, <3>2 DEF IInv, MapsApart
    <3> QED BY <2>1, <2>3, <3>1, <3>3, <3>4
  <2> QED BY <1>2, <2>1, <2>4, TakesBack
<1>9. ASSUME NEW p \in Addr, NEW w \in Word, Write(p, w) PROVE Promise!Write(p, w)
  <2>1. Promise!NONE = NONE /\ \A x : Promise!Words(x) = Words(x)
    BY DEF Promise!NONE, NONE, Promise!Words, Words
  <2>2. Promise!Block(p, held[p]) = {a \in Addr : p <= a /\ a < p + Words(held[p])}
    BY <2>1 DEF Promise!Block
  <2> QED BY <1>9, <2>1, <2>2 DEF Write, Promise!Write
<1>10. ASSUME NEW n \in Request, malloc_fails(n) PROVE UNCHANGED vars
  BY <1>10 DEF malloc_fails
<1> QED BY <1>3, <1>4, <1>5, <1>6, <1>7, <1>8, <1>9, <1>10 DEF Next, Promise!Next, vars

\* The blocks that malloc() hands out are aligned, as large as they were asked for,
\* and shared with nobody, and what a client has written there stays until it frees
\* the block: for every number of bins, size of mappings and order of calls.
THEOREM KeepsPromise == Spec => ImplementsAllocator
<1>1. Init => Promise!Init
  BY DEF Init, Promise!Init, Promise!NONE, NONE
<1>2. IInv /\ IInv' /\ [Next]_vars => [Promise!Next]_<<held, mem>>
  BY StepKeepsPromise
<1> QED BY <1>1, <1>2, BlocksFound, PTL DEF Spec, ImplementsAllocator, Promise!Spec
=============================================================================
