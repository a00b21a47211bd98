-------------------------- MODULE VerifRelationTree --------------------------
(***************************************************************************)
(* The B+trees of verif/btrees/relation_mem.c, and what an insertion and a *)
(* split make of one.                                                      *)
(***************************************************************************)
EXTENDS VerifRelationProps, WellFoundedInduction, FiniteSetTheorems, SequenceTheorems, TLAPS

USE FanoutAssumption, KeysAssumption

-----------------------------------------------------------------------------
(* One node.                                                               *)

LEMMA LeastNat ==
  ASSUME NEW T \in SUBSET Nat, T # {}
  PROVE  \E j \in T : \A i \in T : j <= i
<1> DEFINE R == {ss \in Nat \X Nat : ss[1] < ss[2]}
<1>1. IsWellFoundedOn(R, Nat)
  BY NatLessThanWellFounded DEF OpToRel
<1>2. ASSUME NEW i \in Nat, NEW j \in Nat, ~(<<i, j>> \in R) PROVE j <= i
  <2>1. ~(i < j)
    BY <1>2
  <2> QED BY <2>1
<1> HIDE DEF R
<1>3. PICK j \in T : \A i \in T : ~(<<i, j>> \in R)
  BY <1>1, WFMin
<1>4. \A i \in T : j <= i
  BY <1>2, <1>3
<1> QED BY <1>4

LEMMA NodeFacts ==
  ASSUME NEW nd \in BtNode
  PROVE  /\ numKeys(nd) \in Nat /\ numKeys(nd) = Len(nd.entries)
         /\ nd.entries \in Seq(Entry)
         /\ \A i \in 1 .. numKeys(nd) :
              /\ nd.entries[i] \in Entry
              /\ nd.entries[i].key \in Key /\ nd.entries[i].key \in Nat
<1>1. nd.entries \in Seq(Entry)
  BY DEF BtNode
<1>2. Len(nd.entries) \in Nat /\ \A i \in 1 .. Len(nd.entries) : nd.entries[i] \in Entry
  BY <1>1
<1>3. \A e \in Entry : e.key \in Key
  BY DEF Entry
<1> QED
  BY <1>1, <1>2, <1>3 DEF numKeys

\* The keys of a node are in order.
Ascending(nd) ==
  \A i, j \in 1 .. numKeys(nd) : i < j => nd.entries[i].key < nd.entries[j].key

\* A set of indexes without gaps is counted by its greatest.
LEMMA CountUpTo ==
  ASSUME NEW n \in Nat, NEW S \in SUBSET (1 .. n),
         \A i \in S, j \in 1 .. n : j < i => j \in S
  PROVE  Cardinality(S) \in 0 .. n /\ \A i \in 1 .. n : i \in S <=> i <= Cardinality(S)
<1> DEFINE T == {i \in Nat : i # 0 /\ i \notin S}
<1>1. n + 1 \in T
  OBVIOUS
<1>2. PICK m \in T : \A i \in T : m <= i
  <2>1. T \in SUBSET Nat /\ T # {}
    BY <1>1
  <2> QED
    BY <2>1, LeastNat
<1>3. m \in Nat \ {0} /\ m <= n + 1 /\ m \notin S
  BY <1>1, <1>2
<1>4. S = 1 .. m - 1
  <2>1. ASSUME NEW i \in 1 .. m - 1 PROVE i \in S
    BY <1>2, <1>3
  <2>2. ASSUME NEW i \in S PROVE i \in 1 .. m - 1
    BY <1>3
  <2> QED
    BY <2>1, <2>2
<1>5. Cardinality(S) = m - 1
  <2>1. Cardinality(1 .. m - 1) = IF 1 > m - 1 THEN 0 ELSE m - 1 - 1 + 1
    BY <1>3, FS_Interval
  <2> QED
    BY <1>3, <1>4, <2>1
<1> QED
  BY <1>3, <1>4, <1>5

LEMMA ChildIndex ==
  ASSUME NEW nd \in BtNode, Ascending(nd), NEW k \in Key
  PROVE  /\ findChildIndex(nd, k) \in -1 .. numKeys(nd) - 1
         /\ \A i \in 1 .. numKeys(nd) :
              nd.entries[i].key <= k <=> i <= findChildIndex(nd, k) + 1
<1> DEFINE n == numKeys(nd)
           S == {i \in 1 .. n : nd.entries[i].key <= k}
<1>1. n \in Nat /\ k \in Nat /\ \A i \in 1 .. n : nd.entries[i].key \in Nat
  BY NodeFacts
<1>2. ASSUME NEW i \in S, NEW j \in 1 .. n, j < i PROVE j \in S
  <2>1. nd.entries[j].key < nd.entries[i].key
    <3>1. i \in 1 .. numKeys(nd) /\ j \in 1 .. numKeys(nd)
      OBVIOUS
    <3> QED
      BY <1>2, <3>1 DEF Ascending
  <2> QED
    BY <1>1, <2>1
<1>3. Cardinality(S) \in 0 .. n /\ \A i \in 1 .. n : i \in S <=> i <= Cardinality(S)
  <2> HIDE DEF n
  <2> QED
    BY <1>1, <1>2, CountUpTo
<1> HIDE DEF S
<1>4. findChildIndex(nd, k) = Cardinality(S) - 1
  BY DEF findChildIndex, S
<1>5. \A i \in 1 .. n : i \in S <=> nd.entries[i].key <= k
  BY DEF S
<1>6. Cardinality(S) = findChildIndex(nd, k) + 1 /\ findChildIndex(nd, k) \in -1 .. n - 1
  BY <1>1, <1>3, <1>4
<1> QED
  BY <1>3, <1>5, <1>6

LEMMA RecordIndex ==
  ASSUME NEW nd \in BtNode, Ascending(nd), NEW k \in Key
  PROVE  /\ findRecordIndex(nd, k) \in 0 .. numKeys(nd)
         /\ \A i \in 1 .. numKeys(nd) :
              nd.entries[i].key < k <=> i <= findRecordIndex(nd, k)
<1> DEFINE n == numKeys(nd)
           S == {i \in 1 .. n : nd.entries[i].key < k}
<1>1. n \in Nat /\ k \in Nat /\ \A i \in 1 .. n : nd.entries[i].key \in Nat
  BY NodeFacts
<1>2. ASSUME NEW i \in S, NEW j \in 1 .. n, j < i PROVE j \in S
  <2>1. nd.entries[j].key < nd.entries[i].key
    <3>1. i \in 1 .. numKeys(nd) /\ j \in 1 .. numKeys(nd)
      OBVIOUS
    <3> QED
      BY <1>2, <3>1 DEF Ascending
  <2> QED
    BY <1>1, <2>1
<1>3. Cardinality(S) \in 0 .. n /\ \A i \in 1 .. n : i \in S <=> i <= Cardinality(S)
  <2> HIDE DEF n
  <2> QED
    BY <1>1, <1>2, CountUpTo
<1>4. findRecordIndex(nd, k) = Cardinality(S)
  BY DEF findRecordIndex
<1> QED
  BY <1>1, <1>3, <1>4

\* The keys that belong under the child at index i.
Within(nd, i, k) ==
  /\ i # -1 => nd.entries[i + 1].key <= k
  /\ i # numKeys(nd) - 1 => k < nd.entries[i + 2].key

LEMMA WithinIs ==
  ASSUME NEW nd \in BtNode, Ascending(nd), NEW k \in Key, NEW i \in -1 .. numKeys(nd) - 1
  PROVE  Within(nd, i, k) <=> i = findChildIndex(nd, k)
<1>1. /\ numKeys(nd) \in Nat /\ k \in Nat
      /\ \A j \in 1 .. numKeys(nd) : nd.entries[j].key \in Nat
  BY NodeFacts
<1> DEFINE f == findChildIndex(nd, k)
<1>2. /\ f \in -1 .. numKeys(nd) - 1
      /\ \A j \in 1 .. numKeys(nd) : nd.entries[j].key <= k <=> j <= f + 1
  BY ChildIndex
<1> HIDE DEF f
<1>3. i \in Int /\ (i # -1 => i + 1 \in 1 .. numKeys(nd))
      /\ (i # numKeys(nd) - 1 => i + 2 \in 1 .. numKeys(nd))
  BY <1>1
<1>4. ASSUME Within(nd, i, k) PROVE i = f
  <2>1. i <= f
    BY <1>1, <1>2, <1>3, <1>4 DEF Within
  <2>2. f <= i
    BY <1>1, <1>2, <1>3, <1>4 DEF Within
  <2> QED
    BY <1>2, <1>3, <2>1, <2>2
<1>5. ASSUME i = f PROVE Within(nd, i, k)
  BY <1>1, <1>2, <1>3, <1>5 DEF Within
<1> QED
  BY <1>4, <1>5 DEF f

LEMMA InsertFacts ==
  ASSUME NEW S, NEW s \in Seq(S), NEW i \in 1 .. Len(s) + 1, NEW e \in S
  PROVE  /\ InsertAt(s, i, e) \in Seq(S) /\ Len(InsertAt(s, i, e)) = Len(s) + 1
         /\ \A j \in 1 .. Len(s) + 1 :
              InsertAt(s, i, e)[j] = IF j < i THEN s[j] ELSE IF j = i THEN e ELSE s[j - 1]
<1> DEFINE a == SubSeq(s, 1, i - 1)
           b == SubSeq(s, i, Len(s))
<1>1. Len(s) \in Nat /\ \A j \in 1 .. Len(s) : s[j] \in S
  OBVIOUS
<1>2. a \in Seq(S) /\ Len(a) = i - 1 /\ \A j \in 1 .. i - 1 : a[j] = s[j]
  <2>1. \A j \in 1 .. i - 1 : s[j] \in S
    BY <1>1
  <2>2. /\ a \in Seq(S) /\ Len(a) = IF 1 <= i - 1 THEN i - 1 - 1 + 1 ELSE 0
        /\ \A j \in 1 .. i - 1 - 1 + 1 : a[j] = s[1 + j - 1]
    BY <1>1, <2>1, SubSeqProperties
  <2> QED
    BY <1>1, <2>2
<1>3. b \in Seq(S) /\ Len(b) = Len(s) - i + 1 /\ \A j \in 1 .. Len(s) - i + 1 : b[j] = s[i + j - 1]
  <2>1. \A j \in i .. Len(s) : s[j] \in S
    BY <1>1
  <2>2. /\ b \in Seq(S) /\ Len(b) = IF i <= Len(s) THEN Len(s) - i + 1 ELSE 0
        /\ \A j \in 1 .. Len(s) - i + 1 : b[j] = s[i + j - 1]
    BY <1>1, <2>1, SubSeqProperties
  <2> QED
    BY <1>1, <2>2
<1>4. <<e>> \in Seq(S) /\ Len(<<e>>) = 1 /\ <<e>>[1] = e
  OBVIOUS
<1> HIDE DEF a, b
<1>5. /\ a \o <<e>> \in Seq(S) /\ Len(a \o <<e>>) = i
      /\ \A j \in 1 .. i : (a \o <<e>>)[j] = IF j < i THEN s[j] ELSE e
  <2>1. /\ a \o <<e>> \in Seq(S) /\ Len(a \o <<e>>) = i - 1 + 1
        /\ \A j \in 1 .. i - 1 + 1 : (a \o <<e>>)[j] = IF j <= i - 1 THEN a[j] ELSE <<e>>[j - (i - 1)]
    BY <1>2, <1>4, ConcatProperties
  <2> QED
    BY <1>1, <1>2, <2>1
<1>6. InsertAt(s, i, e) = (a \o <<e>>) \o b
  BY DEF InsertAt, a, b
<1> DEFINE c == a \o <<e>>
<1>c. c \in Seq(S) /\ Len(c) = i
  BY <1>5
<1> HIDE DEF c
<1>7. /\ c \o b \in Seq(S) /\ Len(c \o b) = i + (Len(s) - i + 1)
      /\ \A j \in 1 .. i + (Len(s) - i + 1) : (c \o b)[j] = IF j <= i THEN c[j] ELSE b[j - i]
  <2>1. /\ c \o b \in Seq(S) /\ Len(c \o b) = Len(c) + Len(b)
        /\ \A j \in 1 .. Len(c) + Len(b) : (c \o b)[j] = IF j <= Len(c) THEN c[j] ELSE b[j - Len(c)]
    BY <1>3, <1>c, ConcatProperties
  <2> QED
    BY <1>3, <1>c, <2>1
<1>8. ASSUME NEW j \in 1 .. Len(s) + 1
      PROVE  (c \o b)[j] = IF j < i THEN s[j] ELSE IF j = i THEN e ELSE s[j - 1]
  <2>1. (c \o b)[j] = IF j <= i THEN c[j] ELSE b[j - i]
    BY <1>1, <1>7
  <2>2. CASE j <= i
    BY <1>1, <1>5, <2>1, <2>2 DEF c
  <2>3. CASE ~(j <= i)
    <3>1. j - i \in 1 .. Len(s) - i + 1 /\ i + (j - i) - 1 = j - 1
      BY <1>1, <2>3
    <3> QED
      BY <1>1, <1>3, <2>1, <2>3, <3>1
  <2> QED
    BY <2>2, <2>3
<1> QED
  BY <1>1, <1>6, <1>7, <1>8 DEF c

-----------------------------------------------------------------------------
(* The keys whose search comes to a node are its range.                    *)

Convex(R) == \A i, j \in R, k \in Key : i <= k /\ k <= j => k \in R
Lowest(R) == \A j \in R, k \in Key : k <= j => k \in R
Highest(R) == \A j \in R, k \in Key : j <= k => k \in R

\* A node at level v whose range is R.
NodeOK(nd, v, R) ==
  /\ Ascending(nd)
  /\ nd.isLeaf <=> v = 0
  /\ \A i \in 1 .. numKeys(nd) :
       nd.entries[i].key \in R /\ (nd.isLeaf => nd.entries[i].ptr \in Record)
  /\ Convex(R) /\ (nd.First <=> Lowest(R)) /\ (nd.Last <=> Highest(R))


\* The indexes of its children.
Index(nd) == -1 .. numKeys(nd) - 1

-----------------------------------------------------------------------------
(* A node with one more entry.                                             *)

Put(nd, e) == [nd EXCEPT !.entries = InsertAt(@, findRecordIndex(nd, e.key) + 1, e)]

NewKey(nd, key) == \A i \in 1 .. numKeys(nd) : nd.entries[i].key # key

LEMMA PutFacts ==
  ASSUME NEW nd \in BtNode, Ascending(nd), NEW e \in Entry, NewKey(nd, e.key)
  PROVE  /\ Put(nd, e) \in BtNode /\ numKeys(Put(nd, e)) = numKeys(nd) + 1
         /\ Put(nd, e).isLeaf = nd.isLeaf /\ Put(nd, e).ptr0 = nd.ptr0
         /\ Put(nd, e).First = nd.First /\ Put(nd, e).Last = nd.Last
         /\ findRecordIndex(nd, e.key) = findChildIndex(nd, e.key) + 1
         /\ \A j \in 1 .. numKeys(nd) + 1 :
              Put(nd, e).entries[j] =
                IF j <= findRecordIndex(nd, e.key) THEN nd.entries[j]
                ELSE IF j = findRecordIndex(nd, e.key) + 1 THEN e ELSE nd.entries[j - 1]
         /\ Ascending(Put(nd, e))
<1> DEFINE n == numKeys(nd)
           f == findRecordIndex(nd, e.key)
           g == findChildIndex(nd, e.key)
           p == Put(nd, e)
<1>1. /\ n \in Nat /\ nd.entries \in Seq(Entry) /\ n = Len(nd.entries)
      /\ \A i \in 1 .. n : nd.entries[i].key \in Nat
  BY NodeFacts
<1>2. e.key \in Key /\ e.key \in Nat
  BY DEF Entry
<1>3. f \in 0 .. n /\ \A i \in 1 .. n : nd.entries[i].key < e.key <=> i <= f
  BY <1>2, RecordIndex
<1>4. g \in -1 .. n - 1 /\ \A i \in 1 .. n : nd.entries[i].key <= e.key <=> i <= g + 1
  BY <1>2, ChildIndex
<1>5. \A i \in 1 .. n : nd.entries[i].key # e.key
  BY DEF NewKey
<1>6. /\ InsertAt(nd.entries, f + 1, e) \in Seq(Entry)
      /\ Len(InsertAt(nd.entries, f + 1, e)) = n + 1
      /\ \A j \in 1 .. n + 1 :
           InsertAt(nd.entries, f + 1, e)[j] =
             IF j < f + 1 THEN nd.entries[j] ELSE IF j = f + 1 THEN e ELSE nd.entries[j - 1]
  <2>1. f + 1 \in 1 .. Len(nd.entries) + 1
    BY <1>1, <1>3
  <2> HIDE DEF f, n
  <2>2. nd.entries \in Seq(Entry) /\ e \in Entry
    BY <1>1
  <2>3. /\ InsertAt(nd.entries, f + 1, e) \in Seq(Entry)
        /\ Len(InsertAt(nd.entries, f + 1, e)) = Len(nd.entries) + 1
        /\ \A j \in 1 .. Len(nd.entries) + 1 :
             InsertAt(nd.entries, f + 1, e)[j] =
               IF j < f + 1 THEN nd.entries[j] ELSE IF j = f + 1 THEN e ELSE nd.entries[j - 1]
    <3> DEFINE s == nd.entries
               i == f + 1
    <3>1. s \in Seq(Entry) /\ i \in 1 .. Len(s) + 1 /\ e \in Entry
      BY <2>1, <2>2
    <3> HIDE DEF s, i
    <3>2. /\ InsertAt(s, i, e) \in Seq(Entry) /\ Len(InsertAt(s, i, e)) = Len(s) + 1
          /\ \A j \in 1 .. Len(s) + 1 :
               InsertAt(s, i, e)[j] = IF j < i THEN s[j] ELSE IF j = i THEN e ELSE s[j - 1]
      BY <3>1, InsertFacts
    <3> QED
      BY <3>2 DEF s, i
  <2> QED
    BY <1>1, <2>3
<1>7. p = [nd EXCEPT !.entries = InsertAt(nd.entries, f + 1, e)]
  BY DEF Put
<1>8. /\ p.entries = InsertAt(nd.entries, f + 1, e)
      /\ p.isLeaf = nd.isLeaf /\ p.ptr0 = nd.ptr0 /\ p.First = nd.First /\ p.Last = nd.Last
      /\ p \in BtNode
  <2> DEFINE s == InsertAt(nd.entries, f + 1, e)
  <2>1. s \in Seq(Entry)
    BY <1>6
  <2>2. p = [nd EXCEPT !.entries = s]
    BY <1>7
  <2> HIDE DEF s, p
  <2>3. p.entries = s /\ p \in BtNode
    BY <2>1, <2>2 DEF BtNode
  <2>4. p.isLeaf = nd.isLeaf /\ p.ptr0 = nd.ptr0 /\ p.First = nd.First /\ p.Last = nd.Last
    BY <2>2 DEF BtNode
  <2> QED
    BY <2>3, <2>4 DEF s
<1>9. p \in BtNode
  BY <1>8
<1>10. numKeys(p) = n + 1
  BY <1>6, <1>8 DEF numKeys
<1> HIDE DEF p, f, g, n
<1>11. f = g + 1
  <2>1. \A i \in 1 .. n : i <= f <=> i <= g + 1
    BY <1>1, <1>2, <1>3, <1>4, <1>5
  <2>2. f \in 0 .. n /\ g + 1 \in 0 .. n
    BY <1>1, <1>3, <1>4
  <2>3. ~(f < g + 1) /\ ~(g + 1 < f)
    BY <1>1, <2>1, <2>2
  <2> QED
    BY <1>1, <2>2, <2>3
<1>12. \A j \in 1 .. n + 1 :
         p.entries[j] = IF j <= f THEN nd.entries[j]
                        ELSE IF j = f + 1 THEN e ELSE nd.entries[j - 1]
  BY <1>1, <1>3, <1>6, <1>8
<1>13. Ascending(p)
  <2> SUFFICES ASSUME NEW i \in 1 .. n + 1, NEW j \in 1 .. n + 1, i < j
               PROVE  p.entries[i].key < p.entries[j].key
    BY <1>10 DEF Ascending
  <2>1. \A a, b \in 1 .. n : a < b => nd.entries[a].key < nd.entries[b].key
    BY DEF Ascending, n
  <2>a. f \in Nat /\ f <= n
    BY <1>1, <1>3
  <2>2. CASE j <= f
    <3>1. i <= f /\ i \in 1 .. n /\ j \in 1 .. n
      BY <1>1, <2>a, <2>2
    <3>2. p.entries[i] = nd.entries[i] /\ p.entries[j] = nd.entries[j]
      BY <1>12, <2>2, <3>1
    <3> QED
      BY <2>1, <3>1, <3>2
  <2>3. CASE j = f + 1
    <3>1. i <= f /\ i \in 1 .. n
      BY <1>1, <2>a, <2>3
    <3>2. p.entries[i] = nd.entries[i] /\ p.entries[j] = e
      BY <1>12, <2>a, <2>3, <3>1
    <3> QED
      BY <1>3, <3>1, <3>2
  <2>4. CASE j > f + 1
    <3>1. p.entries[j] = nd.entries[j - 1] /\ j - 1 \in 1 .. n /\ j - 1 > f
      BY <1>1, <1>3, <1>12, <2>4
    <3>2. CASE i <= f
      <4>1. i \in 1 .. n /\ i < j - 1 /\ p.entries[i] = nd.entries[i]
        BY <1>1, <1>12, <2>a, <3>1, <3>2
      <4> QED
        BY <2>1, <3>1, <4>1
    <3>3. CASE i = f + 1
      <4>1. p.entries[i] = e
        BY <1>1, <1>3, <1>12, <3>3
      <4>2. ~(nd.entries[j - 1].key < e.key) /\ nd.entries[j - 1].key # e.key
        BY <1>3, <1>5, <3>1
      <4>3. nd.entries[j - 1].key \in Nat
        BY <1>1, <3>1
      <4> QED
        BY <1>2, <3>1, <4>1, <4>2, <4>3
    <3>4. CASE i > f + 1
      <4>1. p.entries[i] = nd.entries[i - 1] /\ i - 1 \in 1 .. n /\ i - 1 < j - 1
        BY <1>1, <1>3, <1>12, <3>4
      <4> QED
        BY <2>1, <3>1, <4>1
    <3> QED
      BY <1>3, <3>2, <3>3, <3>4
  <2> QED
    BY <1>3, <2>2, <2>3, <2>4
<1> QED
  BY <1>8, <1>9, <1>10, <1>11, <1>12, <1>13 DEF p, f, g, n

LEMMA PutOK ==
  ASSUME NEW nd \in BtNode, NEW e \in Entry, NewKey(nd, e.key),
         NEW v, NEW R \in SUBSET Key, NodeOK(nd, v, R),
         e.key \in R, nd.isLeaf => e.ptr \in Record
  PROVE  NodeOK(Put(nd, e), v, R)
<1> DEFINE n == numKeys(nd)
           f == findRecordIndex(nd, e.key)
           p == Put(nd, e)
<1>1. Ascending(nd)
  BY DEF NodeOK
<1>2. /\ numKeys(p) = n + 1 /\ p.isLeaf = nd.isLeaf /\ p.First = nd.First /\ p.Last = nd.Last
      /\ \A j \in 1 .. n + 1 : p.entries[j] = IF j <= f THEN nd.entries[j]
                               ELSE IF j = f + 1 THEN e ELSE nd.entries[j - 1]
      /\ Ascending(p)
  BY <1>1, PutFacts
<1>3. e.key \in Key /\ n \in Nat
  BY NodeFacts DEF Entry
<1>4. f \in 0 .. n
  BY <1>1, <1>3, RecordIndex
<1>5. \A j \in 1 .. n : nd.entries[j].key \in R /\ (nd.isLeaf => nd.entries[j].ptr \in Record)
  BY DEF NodeOK
<1> HIDE DEF n, f, p
<1>6. ASSUME NEW j \in 1 .. n + 1
      PROVE  p.entries[j].key \in R /\ (p.isLeaf => p.entries[j].ptr \in Record)
  <2>1. CASE j <= f
    <3>1. j \in 1 .. n /\ p.entries[j] = nd.entries[j]
      BY <1>2, <1>3, <1>4, <2>1
    <3> QED
      BY <1>2, <1>5, <3>1
  <2>2. CASE j = f + 1
    <3>1. p.entries[j] = e
      BY <1>2, <1>4, <2>2
    <3> QED
      BY <1>2, <3>1
  <2>3. CASE j > f + 1
    <3>1. j - 1 \in 1 .. n /\ p.entries[j] = nd.entries[j - 1]
      BY <1>2, <1>3, <1>4, <2>3
    <3> QED
      BY <1>2, <1>5, <3>1
  <2> QED
    BY <1>3, <1>4, <2>1, <2>2, <2>3
<1>7. NodeOK(p, v, R)
  BY <1>2, <1>6 DEF NodeOK
<1> QED
  BY <1>7 DEF p

\* The children of a node, with a new one for entry e beside that of its key.
LEMMA PutKids ==
  ASSUME NEW nd \in BtNode, Ascending(nd), NEW e \in Entry, NewKey(nd, e.key),
         NEW i \in Index(Put(nd, e))
  PROVE  LET j == findChildIndex(nd, e.key) IN
         /\ j \in Index(nd) /\ (i < j + 1 => i \in Index(nd)) /\ (i > j + 1 => i - 1 \in Index(nd))
         /\ Child(Put(nd, e), i) = IF i <= j THEN Child(nd, i)
                                   ELSE IF i = j + 1 THEN e.ptr ELSE Child(nd, i - 1)
         /\ \A k \in Key :
              Within(Put(nd, e), i, k) <=>
                IF i < j THEN Within(nd, i, k)
                ELSE IF i = j THEN Within(nd, j, k) /\ k < e.key
                ELSE IF i = j + 1 THEN Within(nd, j, k) /\ e.key <= k
                ELSE Within(nd, i - 1, k)
<1> DEFINE n == numKeys(nd)
           j == findChildIndex(nd, e.key)
           p == Put(nd, e)
<1>1. n \in Nat /\ \A a \in 1 .. n : nd.entries[a].key \in Nat
  BY NodeFacts
<1>2. e.key \in Key /\ e.key \in Nat
  BY DEF Entry
<1>3. /\ numKeys(p) = n + 1 /\ p.ptr0 = nd.ptr0 /\ findRecordIndex(nd, e.key) = j + 1
      /\ \A a \in 1 .. n + 1 :
           p.entries[a] = IF a <= findRecordIndex(nd, e.key) THEN nd.entries[a]
                          ELSE IF a = findRecordIndex(nd, e.key) + 1 THEN e ELSE nd.entries[a - 1]
  BY PutFacts
<1>4. \A a \in 1 .. n + 1 :
        p.entries[a] = IF a <= j + 1 THEN nd.entries[a]
                       ELSE IF a = j + 2 THEN e ELSE nd.entries[a - 1]
  <2>1. j + 1 + 1 = j + 2
    BY <1>2, ChildIndex
  <2> QED BY <1>3, <2>1
<1>5. j \in -1 .. n - 1 /\ \A a \in 1 .. n : nd.entries[a].key <= e.key <=> a <= j + 1
  BY <1>2, ChildIndex
<1>6. \A a, b \in 1 .. n : a < b => nd.entries[a].key < nd.entries[b].key
  BY DEF Ascending
<1>7. i \in -1 .. n
  BY <1>1, <1>3 DEF Index
<1> HIDE DEF n, p, j
<1>8. j \in Index(nd) /\ (i < j + 1 => i \in Index(nd)) /\ (i > j + 1 => i - 1 \in Index(nd))
  BY <1>1, <1>5, <1>7 DEF Index, n
<1>9. Child(p, i) = IF i <= j THEN Child(nd, i)
                    ELSE IF i = j + 1 THEN e.ptr ELSE Child(nd, i - 1)
  <2>1. CASE i = -1
    BY <1>3, <1>5, <2>1 DEF Child
  <2>2. CASE i # -1
    <3>1. i + 1 \in 1 .. n + 1 /\ i - 1 # -1 - 1 /\ i \in Int
      BY <1>1, <1>7, <2>2
    <3>2. Child(p, i) = p.entries[i + 1].ptr /\ Child(nd, i) = nd.entries[i + 1].ptr
      BY <2>2 DEF Child
    <3>3. i > j + 1 => Child(nd, i - 1) = nd.entries[i].ptr
      BY <1>5, <3>1 DEF Child
    <3> QED
      BY <1>4, <1>5, <3>1, <3>2, <3>3
  <2> QED
    BY <2>1, <2>2
<1>10. ASSUME NEW k \in Key
       PROVE  Within(p, i, k) <=>
                IF i < j THEN Within(nd, i, k)
                ELSE IF i = j THEN Within(nd, j, k) /\ k < e.key
                ELSE IF i = j + 1 THEN Within(nd, j, k) /\ e.key <= k
                ELSE Within(nd, i - 1, k)
  <2>1. k \in Nat
    OBVIOUS
  <2>2. Within(p, i, k) <=> /\ i # -1 => p.entries[i + 1].key <= k
                            /\ i # n => k < p.entries[i + 2].key
    BY <1>1, <1>3, <1>7 DEF Within
  <2>3. CASE i < j
    <3>1. /\ i # -1 => p.entries[i + 1] = nd.entries[i + 1]
          /\ i # n /\ i # n - 1 /\ p.entries[i + 2] = nd.entries[i + 2]
      BY <1>1, <1>4, <1>5, <1>7, <2>3
    <3>2. Within(nd, i, k) <=> /\ i # -1 => nd.entries[i + 1].key <= k
                               /\ i # n - 1 => k < nd.entries[i + 2].key
      BY DEF Within, n
    <3> QED
      BY <2>2, <2>3, <3>1, <3>2
  <2>4. CASE i = j
    <3>1. /\ i # -1 => p.entries[i + 1] = nd.entries[i + 1]
          /\ i # n /\ p.entries[i + 2] = e
      BY <1>1, <1>4, <1>5, <1>7, <2>4
    <3>2. Within(nd, j, k) <=> /\ j # -1 => nd.entries[j + 1].key <= k
                               /\ j # n - 1 => k < nd.entries[j + 2].key
      BY DEF Within, n
    <3>3. j # n - 1 => e.key < nd.entries[j + 2].key /\ nd.entries[j + 2].key \in Nat
      <4>1. j # n - 1 => j + 2 \in 1 .. n /\ ~(nd.entries[j + 2].key <= e.key)
        BY <1>1, <1>5
      <4> QED
        BY <1>1, <1>2, <4>1
    <3>4. Within(p, i, k) <=> (j # -1 => nd.entries[j + 1].key <= k) /\ k < e.key
      BY <2>2, <2>4, <3>1
    <3>5. k < e.key => (j # n - 1 => k < nd.entries[j + 2].key)
      BY <1>2, <2>1, <3>3
    <3>6. Within(p, i, k) <=> Within(nd, j, k) /\ k < e.key
      BY <3>2, <3>4, <3>5
    <3>7. ~(i < j)
      BY <1>5, <2>4
    <3> QED
      BY <2>4, <3>6, <3>7
  <2>5. CASE i = j + 1
    <3>1. /\ i # -1 /\ p.entries[i + 1] = e /\ j \in Int
          /\ i # n => p.entries[i + 2] = nd.entries[j + 2] /\ j + 2 \in 1 .. n
      BY <1>1, <1>4, <1>5, <1>7, <2>5
    <3>2. Within(nd, j, k) <=> /\ j # -1 => nd.entries[j + 1].key <= k
                               /\ j # n - 1 => k < nd.entries[j + 2].key
      BY DEF Within, n
    <3>3. j # -1 => j + 1 \in 1 .. n /\ nd.entries[j + 1].key <= e.key
      BY <1>1, <1>5
    <3> QED
      BY <1>1, <1>2, <2>1, <2>2, <2>5, <3>1, <3>2, <3>3
  <2>6. CASE i > j + 1
    <3>1. /\ i # -1 /\ i - 1 # -1 /\ i \in 1 .. n /\ p.entries[i + 1] = nd.entries[i]
          /\ i # n => p.entries[i + 2] = nd.entries[i + 1]
      BY <1>1, <1>4, <1>5, <1>7, <2>6
    <3>2. i - 1 + 1 = i /\ i - 1 + 2 = i + 1
      BY <1>7
    <3>3. Within(nd, i - 1, k) <=> /\ i - 1 # -1 => nd.entries[i].key <= k
                                   /\ i - 1 # n - 1 => k < nd.entries[i + 1].key
      BY <3>2 DEF Within, n
    <3> QED
      BY <1>1, <1>5, <2>2, <2>6, <3>1, <3>3
  <2> QED
    BY <1>5, <1>7, <2>3, <2>4, <2>5, <2>6
<1> QED
  BY <1>8, <1>9, <1>10 DEF p, j

-----------------------------------------------------------------------------
(* The two halves of a node with an entry too many.                        *)

Right(v) == SubSeq(v.entries, MIDDLE + 1, FANOUT + 1)
LeftHalf(v) == [v EXCEPT !.Last = FALSE, !.entries = SubSeq(@, 1, MIDDLE)]
RightHalf(v) ==
  [createNewNode(v.isLeaf, FALSE, v.Last) EXCEPT
     !.ptr0 = IF v.isLeaf THEN NULL ELSE Head(Right(v)).ptr,
     !.entries = IF v.isLeaf THEN Right(v) ELSE Tail(Right(v))]

\* The key between the halves, and the number of entries left of the right half.
Sep(v) == v.entries[MIDDLE + 1].key
Skip(v) == IF v.isLeaf THEN MIDDLE ELSE MIDDLE + 1

Overfull(v) ==
  /\ v \in BtNode /\ numKeys(v) = FANOUT + 1
  /\ ~v.isLeaf => v.entries[MIDDLE + 1].ptr \in Node

LEMMA HalfFacts ==
  ASSUME NEW v, Overfull(v)
  PROVE  /\ MIDDLE \in 1 .. FANOUT /\ Skip(v) \in 1 .. FANOUT
         /\ LeftHalf(v) \in BtNode /\ LeftHalf(v).isLeaf = v.isLeaf
         /\ LeftHalf(v).First = v.First /\ LeftHalf(v).Last = FALSE
         /\ LeftHalf(v).ptr0 = v.ptr0 /\ numKeys(LeftHalf(v)) = MIDDLE
         /\ \A i \in 1 .. MIDDLE : LeftHalf(v).entries[i] = v.entries[i]
         /\ RightHalf(v) \in BtNode /\ RightHalf(v).isLeaf = v.isLeaf
         /\ RightHalf(v).First = FALSE /\ RightHalf(v).Last = v.Last
         /\ ~v.isLeaf => RightHalf(v).ptr0 = v.entries[MIDDLE + 1].ptr
         /\ numKeys(RightHalf(v)) = FANOUT + 1 - Skip(v)
         /\ \A i \in 1 .. FANOUT + 1 - Skip(v) :
              RightHalf(v).entries[i] = v.entries[i + Skip(v)]
<1> DEFINE s == v.entries
<1>1. /\ s \in Seq(Entry) /\ Len(s) = FANOUT + 1
      /\ v.isLeaf \in BOOLEAN /\ v.First \in BOOLEAN /\ v.Last \in BOOLEAN
  BY DEF Overfull, numKeys, BtNode
<1>2. MIDDLE \in 1 .. FANOUT /\ Skip(v) \in 1 .. FANOUT
  BY DEF Skip
<1>3. /\ SubSeq(s, 1, MIDDLE) \in Seq(Entry) /\ Len(SubSeq(s, 1, MIDDLE)) = MIDDLE
      /\ \A i \in 1 .. MIDDLE : SubSeq(s, 1, MIDDLE)[i] = s[i]
  <2>1. \A i \in 1 .. MIDDLE : s[i] \in Entry
    BY <1>1, <1>2
  <2> HIDE DEF s
  <2>2. /\ SubSeq(s, 1, MIDDLE) \in Seq(Entry)
        /\ Len(SubSeq(s, 1, MIDDLE)) = IF 1 <= MIDDLE THEN MIDDLE - 1 + 1 ELSE 0
        /\ \A i \in 1 .. MIDDLE - 1 + 1 : SubSeq(s, 1, MIDDLE)[i] = s[1 + i - 1]
    BY <1>2, <2>1, SubSeqProperties
  <2> QED
    BY <1>2, <2>2
<1>4. /\ Right(v) \in Seq(Entry) /\ Len(Right(v)) = FANOUT + 1 - MIDDLE
      /\ \A i \in 1 .. FANOUT + 1 - MIDDLE : Right(v)[i] = s[i + MIDDLE]
  <2>1. \A i \in MIDDLE + 1 .. FANOUT + 1 : s[i] \in Entry
    BY <1>1, <1>2
  <2>2. Right(v) = SubSeq(s, MIDDLE + 1, FANOUT + 1)
    BY DEF Right
  <2> HIDE DEF s
  <2> DEFINE m == MIDDLE + 1
             n == FANOUT + 1
  <2>3. m \in Int /\ n \in Int /\ m <= n
    BY <1>2
  <2>4. \A i \in m .. n : s[i] \in Entry
    BY <2>1
  <2> HIDE DEF m, n
  <2>5. /\ SubSeq(s, m, n) \in Seq(Entry)
        /\ Len(SubSeq(s, m, n)) = IF m <= n THEN n - m + 1 ELSE 0
        /\ \A i \in 1 .. n - m + 1 : SubSeq(s, m, n)[i] = s[m + i - 1]
    BY <2>3, <2>4, SubSeqProperties
  <2>6. n - m + 1 = FANOUT + 1 - MIDDLE /\ \A i \in Int : m + i - 1 = i + MIDDLE
    BY <1>2 DEF m, n
  <2>7. Right(v) = SubSeq(s, m, n)
    BY <2>2 DEF m, n
  <2> QED
    BY <2>3, <2>5, <2>6, <2>7
<1>5. Right(v) # <<>>
  BY <1>2, <1>4
<1>6. /\ Head(Right(v)) = s[MIDDLE + 1] /\ Tail(Right(v)) \in Seq(Entry)
      /\ Len(Tail(Right(v))) = FANOUT - MIDDLE
      /\ \A i \in 1 .. FANOUT - MIDDLE : Tail(Right(v))[i] = s[i + MIDDLE + 1]
  <2>1. /\ Tail(Right(v)) \in Seq(Entry) /\ Len(Tail(Right(v))) = Len(Right(v)) - 1
        /\ \A i \in 1 .. Len(Tail(Right(v))) : Tail(Right(v))[i] = Right(v)[i + 1]
    BY <1>4, <1>5, HeadTailProperties
  <2>2. Head(Right(v)) = Right(v)[1]
    BY <1>4, <1>5
  <2>3. Right(v)[1] = s[MIDDLE + 1]
    BY <1>2, <1>4
  <2>4. \A i \in 1 .. FANOUT - MIDDLE : Right(v)[i + 1] = s[i + MIDDLE + 1]
    BY <1>2, <1>4
  <2> QED
    BY <1>2, <1>4, <2>1, <2>2, <2>3, <2>4
<1> DEFINE left == SubSeq(s, 1, MIDDLE)
           first == IF v.isLeaf THEN NULL ELSE Head(Right(v)).ptr
           right == IF v.isLeaf THEN Right(v) ELSE Tail(Right(v))
<1>7. /\ right \in Seq(Entry) /\ Len(right) = FANOUT + 1 - Skip(v)
      /\ \A i \in 1 .. FANOUT + 1 - Skip(v) : right[i] = s[i + Skip(v)]
  <2>1. CASE v.isLeaf
    BY <1>4, <2>1 DEF Skip
  <2>2. CASE ~v.isLeaf
    <3>1. Skip(v) = MIDDLE + 1 /\ FANOUT + 1 - Skip(v) = FANOUT - MIDDLE
          /\ \A i \in Int : i + Skip(v) = i + MIDDLE + 1
      BY <1>2, <2>2 DEF Skip
    <3>2. right = Tail(Right(v))
      BY <2>2
    <3>3. right \in Seq(Entry) /\ Len(right) = FANOUT + 1 - Skip(v)
      BY <1>6, <3>1, <3>2
    <3>4. ASSUME NEW i \in 1 .. FANOUT + 1 - Skip(v) PROVE right[i] = s[i + Skip(v)]
      <4>1. i \in 1 .. FANOUT - MIDDLE /\ i + Skip(v) = i + MIDDLE + 1
        BY <3>1
      <4>2. Tail(Right(v))[i] = s[i + MIDDLE + 1]
        BY <1>6, <4>1
      <4> QED
        BY <3>2, <4>1, <4>2
    <3> QED
      BY <3>3, <3>4
  <2> QED
    BY <2>1, <2>2
<1>8. first \in Node \cup {NULL} /\ (~v.isLeaf => first = v.entries[MIDDLE + 1].ptr)
  BY <1>6 DEF Overfull
<1>9. LeftHalf(v) = [v EXCEPT !.Last = FALSE, !.entries = left]
  BY DEF LeftHalf
<1>10. RightHalf(v) = [isLeaf |-> v.isLeaf, First |-> FALSE, Last |-> v.Last, ptr0 |-> first,
                       entries |-> right]
  <2>1. RightHalf(v) = [createNewNode(v.isLeaf, FALSE, v.Last) EXCEPT
                          !.ptr0 = first, !.entries = right]
    BY DEF RightHalf
  <2> HIDE DEF first, right
  <2> QED
    BY <2>1 DEF createNewNode
<1>11. v \in BtNode
  BY DEF Overfull
<1> HIDE DEF left, right, first
<1>12. /\ LeftHalf(v) \in BtNode /\ LeftHalf(v).isLeaf = v.isLeaf
       /\ LeftHalf(v).First = v.First /\ LeftHalf(v).Last = FALSE
       /\ LeftHalf(v).ptr0 = v.ptr0 /\ LeftHalf(v).entries = left
  <2>1. left \in Seq(Entry)
    BY <1>3 DEF left
  <2> QED
    BY <1>9, <1>11, <2>1 DEF BtNode
<1>13. /\ RightHalf(v) \in BtNode /\ RightHalf(v).isLeaf = v.isLeaf
       /\ RightHalf(v).First = FALSE /\ RightHalf(v).Last = v.Last
       /\ RightHalf(v).ptr0 = first /\ RightHalf(v).entries = right
  BY <1>1, <1>7, <1>8, <1>10 DEF BtNode
<1>14. /\ numKeys(LeftHalf(v)) = MIDDLE
       /\ \A i \in 1 .. MIDDLE : LeftHalf(v).entries[i] = v.entries[i]
  BY <1>3, <1>12 DEF left, numKeys
<1>15. /\ numKeys(RightHalf(v)) = FANOUT + 1 - Skip(v)
       /\ \A i \in 1 .. FANOUT + 1 - Skip(v) : RightHalf(v).entries[i] = v.entries[i + Skip(v)]
  BY <1>7, <1>13 DEF numKeys
<1> QED
  BY <1>2, <1>8, <1>12, <1>13, <1>14, <1>15

Below(R, s) == {k \in R : k < s}
Above(R, s) == {k \in R : s <= k}

LEMMA HalvesOK ==
  ASSUME NEW v, Overfull(v), NEW lv, NEW R \in SUBSET Key, NodeOK(v, lv, R)
  PROVE  /\ NodeOK(LeftHalf(v), lv, Below(R, Sep(v)))
         /\ NodeOK(RightHalf(v), lv, Above(R, Sep(v)))
         /\ Sep(v) \in R /\ Sep(v) \in Nat
         /\ v.entries[1].key \in R /\ v.entries[1].key \in Nat /\ v.entries[1].key < Sep(v)
<1> DEFINE s == Sep(v)
           j == v.entries[1].key
           L == LeftHalf(v)
           T == RightHalf(v)
<1>1. v \in BtNode /\ numKeys(v) = FANOUT + 1
  BY DEF Overfull
<1>2. /\ MIDDLE \in 1 .. FANOUT /\ Skip(v) \in 1 .. FANOUT
      /\ L \in BtNode /\ L.isLeaf = v.isLeaf /\ L.First = v.First /\ L.Last = FALSE
      /\ numKeys(L) = MIDDLE /\ \A i \in 1 .. MIDDLE : L.entries[i] = v.entries[i]
      /\ T \in BtNode /\ T.isLeaf = v.isLeaf /\ T.First = FALSE /\ T.Last = v.Last
      /\ numKeys(T) = FANOUT + 1 - Skip(v)
      /\ \A i \in 1 .. FANOUT + 1 - Skip(v) : T.entries[i] = v.entries[i + Skip(v)]
  BY HalfFacts
<1>3. \A i \in 1 .. FANOUT + 1 : v.entries[i].key \in Key /\ v.entries[i].key \in Nat
  BY <1>1, NodeFacts
<1>4. \A a, b \in 1 .. FANOUT + 1 : a < b => v.entries[a].key < v.entries[b].key
  BY <1>1 DEF NodeOK, Ascending
<1>5. \A i \in 1 .. FANOUT + 1 :
        v.entries[i].key \in R /\ (v.isLeaf => v.entries[i].ptr \in Record)
  BY <1>1 DEF NodeOK
<1>6. /\ v.isLeaf <=> lv = 0
      /\ Convex(R) /\ (v.First <=> Lowest(R)) /\ (v.Last <=> Highest(R))
  BY DEF NodeOK
<1>7. /\ 1 \in 1 .. FANOUT + 1 /\ MIDDLE + 1 \in 1 .. FANOUT + 1 /\ 1 < MIDDLE + 1
      /\ s = v.entries[MIDDLE + 1].key
  BY <1>2 DEF Sep
<1> HIDE DEF s, j, L, T
<1>8. s \in R /\ s \in Nat /\ s \in Key /\ j \in R /\ j \in Nat /\ j \in Key /\ j < s
  BY <1>3, <1>4, <1>5, <1>7 DEF j
<1>9. R \subseteq Nat /\ R \subseteq Key
  OBVIOUS
<1>10. NodeOK(L, lv, Below(R, s))
  <2>1. Ascending(L)
    <3> SUFFICES ASSUME NEW a \in 1 .. MIDDLE, NEW b \in 1 .. MIDDLE, a < b
                 PROVE  L.entries[a].key < L.entries[b].key
      BY <1>2 DEF Ascending
    <3>1. a \in 1 .. FANOUT + 1 /\ b \in 1 .. FANOUT + 1
      BY <1>2
    <3> QED
      BY <1>2, <1>4, <3>1
  <2>2. \A i \in 1 .. numKeys(L) :
          L.entries[i].key \in Below(R, s) /\ (L.isLeaf => L.entries[i].ptr \in Record)
    <3> SUFFICES ASSUME NEW i \in 1 .. MIDDLE
                 PROVE  L.entries[i].key \in Below(R, s) /\ (L.isLeaf => L.entries[i].ptr \in Record)
      BY <1>2
    <3>1. i \in 1 .. FANOUT + 1 /\ i < MIDDLE + 1
      BY <1>2
    <3>2. v.entries[i].key < s
      BY <1>4, <1>7, <3>1
    <3> QED
      BY <1>2, <1>5, <3>1, <3>2 DEF Below
  <2>3. Convex(Below(R, s))
    <3> SUFFICES ASSUME NEW a \in Below(R, s), NEW b \in Below(R, s), NEW k \in Key, a <= k, k <= b
                 PROVE  k \in Below(R, s)
      BY DEF Convex
    <3>1. a \in R /\ b \in R /\ b < s /\ k \in Nat /\ b \in Nat
      BY <1>9 DEF Below
    <3>2. k \in R
      BY <1>6, <3>1 DEF Convex
    <3> QED
      BY <1>8, <3>1, <3>2 DEF Below
  <2>4. L.First <=> Lowest(Below(R, s))
    <3>1. ASSUME Lowest(R) PROVE Lowest(Below(R, s))
      <4> SUFFICES ASSUME NEW b \in Below(R, s), NEW k \in Key, k <= b PROVE k \in Below(R, s)
        BY DEF Lowest
      <4>1. b \in R /\ b < s /\ k \in Nat /\ b \in Nat
        BY <1>9 DEF Below
      <4>2. k \in R
        BY <3>1, <4>1 DEF Lowest
      <4> QED
        BY <1>8, <4>1, <4>2 DEF Below
    <3>2. ASSUME Lowest(Below(R, s)) PROVE Lowest(R)
      <4> SUFFICES ASSUME NEW b \in R, NEW k \in Key, k <= b PROVE k \in R
        BY DEF Lowest
      <4>1. j \in Below(R, s) /\ k \in Nat
        BY <1>8 DEF Below
      <4>2. CASE k <= j
        BY <3>2, <4>1, <4>2 DEF Lowest, Below
      <4>3. CASE ~(k <= j)
        <5>1. j <= k
          BY <1>8, <4>1, <4>3
        <5> QED
          BY <1>6, <1>8, <5>1 DEF Convex
      <4> QED
        BY <4>2, <4>3
    <3> QED
      BY <1>2, <1>6, <3>1, <3>2
  <2>5. ~Highest(Below(R, s))
    <3>1. j \in Below(R, s) /\ s \notin Below(R, s) /\ j <= s
      BY <1>8 DEF Below
    <3> QED
      BY <1>8, <3>1 DEF Highest
  <2> QED
    BY <1>2, <1>6, <2>1, <2>2, <2>3, <2>4, <2>5 DEF NodeOK
<1>11. NodeOK(T, lv, Above(R, s))
  <2> DEFINE m == FANOUT + 1 - Skip(v)
  <2>0. m \in Nat /\ \A i \in 1 .. m : i + Skip(v) \in MIDDLE + 1 .. FANOUT + 1
    BY <1>2 DEF Skip
  <2>a. \A i \in MIDDLE + 1 .. FANOUT + 1 : i \in 1 .. FANOUT + 1
    BY <1>2
  <2>b. numKeys(T) = m /\ \A i \in 1 .. m : T.entries[i] = v.entries[i + Skip(v)]
    BY <1>2
  <2> HIDE DEF m
  <2>1. Ascending(T)
    <3> SUFFICES ASSUME NEW a \in 1 .. m, NEW b \in 1 .. m, a < b
                 PROVE  T.entries[a].key < T.entries[b].key
      BY <2>b DEF Ascending
    <3>1. a + Skip(v) \in 1 .. FANOUT + 1 /\ b + Skip(v) \in 1 .. FANOUT + 1
      BY <2>0, <2>a
    <3>2. a + Skip(v) < b + Skip(v)
      BY <1>2
    <3> QED
      BY <2>b, <1>4, <3>1, <3>2
  <2>2. \A i \in 1 .. numKeys(T) :
          T.entries[i].key \in Above(R, s) /\ (T.isLeaf => T.entries[i].ptr \in Record)
    <3> SUFFICES ASSUME NEW i \in 1 .. m
                 PROVE  T.entries[i].key \in Above(R, s) /\ (T.isLeaf => T.entries[i].ptr \in Record)
      BY <2>b
    <3>1. i + Skip(v) \in MIDDLE + 1 .. FANOUT + 1 /\ i + Skip(v) \in 1 .. FANOUT + 1
      BY <2>0, <2>a
    <3>2. s <= v.entries[i + Skip(v)].key
      <4>1. CASE i + Skip(v) = MIDDLE + 1
        BY <1>7, <1>8, <4>1
      <4>2. CASE MIDDLE + 1 < i + Skip(v)
        <5>1. s < v.entries[i + Skip(v)].key
          BY <1>4, <1>7, <3>1, <4>2
        <5> QED
          BY <1>3, <1>8, <3>1, <5>1
      <4> QED
        BY <1>2, <3>1, <4>1, <4>2
    <3> QED
      BY <1>2, <2>b, <1>5, <3>1, <3>2 DEF Above
  <2>3. Convex(Above(R, s))
    <3> SUFFICES ASSUME NEW a \in Above(R, s), NEW b \in Above(R, s), NEW k \in Key, a <= k, k <= b
                 PROVE  k \in Above(R, s)
      BY DEF Convex
    <3>1. a \in R /\ b \in R /\ s <= a /\ k \in Nat /\ a \in Nat
      BY <1>9 DEF Above
    <3>2. k \in R
      BY <1>6, <3>1 DEF Convex
    <3> QED
      BY <1>8, <3>1, <3>2 DEF Above
  <2>4. T.Last <=> Highest(Above(R, s))
    <3>1. ASSUME Highest(R) PROVE Highest(Above(R, s))
      <4> SUFFICES ASSUME NEW b \in Above(R, s), NEW k \in Key, b <= k PROVE k \in Above(R, s)
        BY DEF Highest
      <4>1. b \in R /\ s <= b /\ k \in Nat /\ b \in Nat
        BY <1>9 DEF Above
      <4>2. k \in R
        BY <3>1, <4>1 DEF Highest
      <4> QED
        BY <1>8, <4>1, <4>2 DEF Above
    <3>2. ASSUME Highest(Above(R, s)) PROVE Highest(R)
      <4> SUFFICES ASSUME NEW b \in R, NEW k \in Key, b <= k PROVE k \in R
        BY DEF Highest
      <4>1. s \in Above(R, s) /\ k \in Nat
        BY <1>8 DEF Above
      <4>2. CASE s <= k
        BY <3>2, <4>1, <4>2 DEF Highest, Above
      <4>3. CASE ~(s <= k)
        <5>1. k <= s
          BY <1>8, <4>1, <4>3
        <5> QED
          BY <1>6, <1>8, <5>1 DEF Convex
      <4> QED
        BY <4>2, <4>3
    <3> QED
      BY <1>2, <1>6, <3>1, <3>2
  <2>5. ~Lowest(Above(R, s))
    <3>1. s \in Above(R, s) /\ j \notin Above(R, s) /\ j <= s
      BY <1>8 DEF Above
    <3> QED
      BY <1>8, <3>1 DEF Lowest
  <2> QED
    BY <1>2, <1>6, <2>1, <2>2, <2>3, <2>4, <2>5 DEF NodeOK
<1> QED
  BY <1>8, <1>10, <1>11 DEF s, j, L, T

LEMMA HalfKids ==
  ASSUME NEW v, Overfull(v), ~v.isLeaf, Ascending(v)
  PROVE  /\ \A i \in Index(LeftHalf(v)) :
              /\ i \in Index(v) /\ Child(LeftHalf(v), i) = Child(v, i)
              /\ \A k \in Key : Within(v, i, k) <=> Within(LeftHalf(v), i, k) /\ k < Sep(v)
         /\ \A i \in Index(RightHalf(v)) :
              /\ i + MIDDLE + 1 \in Index(v)
              /\ Child(RightHalf(v), i) = Child(v, i + MIDDLE + 1)
              /\ \A k \in Key : Within(v, i + MIDDLE + 1, k) <=>
                                Within(RightHalf(v), i, k) /\ Sep(v) <= k
         /\ \A i \in Index(v) : i \in Index(LeftHalf(v)) \/ i - MIDDLE - 1 \in Index(RightHalf(v))
<1> DEFINE s == Sep(v)
           L == LeftHalf(v)
           T == RightHalf(v)
           E == v.entries
<1>1. v \in BtNode /\ numKeys(v) = FANOUT + 1
  BY DEF Overfull
<1>2. /\ MIDDLE \in 1 .. FANOUT - 1
      /\ L.ptr0 = v.ptr0 /\ numKeys(L) = MIDDLE /\ \A i \in 1 .. MIDDLE : L.entries[i] = E[i]
      /\ T.ptr0 = E[MIDDLE + 1].ptr /\ numKeys(T) = FANOUT - MIDDLE
      /\ \A i \in 1 .. FANOUT - MIDDLE : T.entries[i] = E[i + MIDDLE + 1]
  <2>1. Skip(v) = MIDDLE + 1 /\ FANOUT + 1 - Skip(v) = FANOUT - MIDDLE
        /\ \A i \in Int : i + Skip(v) = i + MIDDLE + 1
    BY DEF Skip
  <2>2. /\ L.ptr0 = v.ptr0 /\ numKeys(L) = MIDDLE
        /\ \A i \in 1 .. MIDDLE : L.entries[i] = v.entries[i]
        /\ T.ptr0 = v.entries[MIDDLE + 1].ptr /\ numKeys(T) = FANOUT + 1 - Skip(v)
        /\ \A i \in 1 .. FANOUT + 1 - Skip(v) : T.entries[i] = v.entries[i + Skip(v)]
    BY HalfFacts
  <2>3. MIDDLE \in 1 .. FANOUT - 1
    OBVIOUS
  <2> HIDE DEF L, T, E
  <2>4. ASSUME NEW i \in 1 .. FANOUT - MIDDLE PROVE T.entries[i] = E[i + MIDDLE + 1]
    <3>1. i \in 1 .. FANOUT + 1 - Skip(v) /\ i + Skip(v) = i + MIDDLE + 1
      BY <2>1
    <3> QED
      BY <2>2, <3>1 DEF E
  <2>5. numKeys(T) = FANOUT - MIDDLE
    BY <2>1, <2>2
  <2> QED
    BY <2>2, <2>3, <2>4, <2>5 DEF E
<1>3. \A i \in 1 .. FANOUT + 1 : E[i].key \in Nat
  BY <1>1, NodeFacts
<1>4. \A a, b \in 1 .. FANOUT + 1 : a < b => E[a].key < E[b].key
  BY <1>1 DEF Ascending
<1>5. s = E[MIDDLE + 1].key /\ MIDDLE + 1 \in 1 .. FANOUT + 1
  BY <1>2 DEF Sep
<1> HIDE DEF s, L, T, E
<1>6. ASSUME NEW i \in Int, NEW k \in Nat
      PROVE  Within(v, i, k) <=> /\ i # -1 => E[i + 1].key <= k
                                 /\ i # FANOUT => k < E[i + 2].key
  <2>1. numKeys(v) - 1 = FANOUT
    BY <1>1
  <2>2. Within(v, i, k) <=> /\ i # -1 => E[i + 1].key <= k
                            /\ i # numKeys(v) - 1 => k < E[i + 2].key
    BY DEF Within, E
  <2> QED
    BY <2>1, <2>2
<1>7. ASSUME NEW i \in Index(L)
      PROVE  /\ i \in Index(v) /\ Child(L, i) = Child(v, i)
             /\ \A k \in Key : Within(v, i, k) <=> Within(L, i, k) /\ k < s
  <2>1. i \in -1 .. MIDDLE - 1
    BY <1>2, <1>7 DEF Index
  <2>2. i \in Index(v)
    BY <1>1, <1>2, <2>1 DEF Index
  <2>3. Child(L, i) = Child(v, i)
    BY <1>2, <2>1 DEF Child, E
  <2>4. ASSUME NEW k \in Key PROVE Within(v, i, k) <=> Within(L, i, k) /\ k < s
    <3>1. Within(L, i, k) <=> /\ i # -1 => L.entries[i + 1].key <= k
                              /\ i # MIDDLE - 1 => k < L.entries[i + 2].key
      BY <1>2 DEF Within
    <3>2. /\ i # -1 => L.entries[i + 1] = E[i + 1]
          /\ i # MIDDLE - 1 => L.entries[i + 2] = E[i + 2]
      BY <1>2, <2>1
    <3>3. i # FANOUT /\ k \in Nat /\ i \in Int
      BY <1>2, <2>1
    <3>a. Within(v, i, k) <=> (i # -1 => E[i + 1].key <= k) /\ k < E[i + 2].key
      BY <1>6, <3>3
    <3>b. Within(L, i, k) <=> /\ i # -1 => E[i + 1].key <= k
                              /\ i # MIDDLE - 1 => k < E[i + 2].key
      BY <3>1, <3>2
    <3>4. CASE i = MIDDLE - 1
      <4>1. E[i + 2].key = s
        <5>1. i + 2 = MIDDLE + 1
          BY <1>2, <3>4
        <5> QED
          BY <1>5, <5>1
      <4> QED
        BY <3>a, <3>b, <3>4, <4>1
    <3>5. CASE i # MIDDLE - 1
      <4>1. i + 2 \in 1 .. FANOUT + 1 /\ i + 2 < MIDDLE + 1
        BY <1>2, <2>1, <3>5
      <4>2. E[i + 2].key < s /\ E[i + 2].key \in Nat /\ s \in Nat
        BY <1>3, <1>4, <1>5, <4>1
      <4>3. k < E[i + 2].key => k < s
        BY <3>3, <4>2
      <4> QED
        BY <3>a, <3>b, <3>5, <4>3
    <3> QED
      BY <3>4, <3>5
  <2> QED
    BY <2>2, <2>3, <2>4
<1>8. ASSUME NEW i \in Index(T)
      PROVE  /\ i + MIDDLE + 1 \in Index(v) /\ Child(T, i) = Child(v, i + MIDDLE + 1)
             /\ \A k \in Key : Within(v, i + MIDDLE + 1, k) <=> Within(T, i, k) /\ s <= k
  <2>1. i \in -1 .. FANOUT - MIDDLE - 1
    BY <1>2, <1>8 DEF Index
  <2>2. i + MIDDLE + 1 \in Index(v)
    BY <1>1, <1>2, <2>1 DEF Index
  <2>3. Child(T, i) = Child(v, i + MIDDLE + 1)
    <3>1. Child(v, i + MIDDLE + 1) = E[i + MIDDLE + 1 + 1].ptr
      BY <1>2, <2>1 DEF Child, E
    <3>2. CASE i = -1
      <4>1. i + MIDDLE + 1 + 1 = MIDDLE + 1
        BY <1>2, <3>2
      <4> QED
        BY <1>2, <3>1, <3>2, <4>1 DEF Child
    <3>3. CASE i # -1
      <4>1. i + 1 \in 1 .. FANOUT - MIDDLE /\ i + 1 + MIDDLE + 1 = i + MIDDLE + 1 + 1
        BY <1>2, <2>1, <3>3
      <4>2. T.entries[i + 1] = E[i + MIDDLE + 1 + 1]
        BY <1>2, <4>1
      <4> QED
        BY <3>1, <3>3, <4>2 DEF Child
    <3> QED
      BY <3>2, <3>3
  <2>4. ASSUME NEW k \in Key
        PROVE  Within(v, i + MIDDLE + 1, k) <=> Within(T, i, k) /\ s <= k
    <3>1. Within(T, i, k) <=> /\ i # -1 => T.entries[i + 1].key <= k
                              /\ i # FANOUT - MIDDLE - 1 => k < T.entries[i + 2].key
      BY <1>2 DEF Within
    <3>2. /\ i # -1 => T.entries[i + 1] = E[i + MIDDLE + 2]
          /\ i # FANOUT - MIDDLE - 1 => T.entries[i + 2] = E[i + MIDDLE + 3]
      <4>1. i # -1 => i + 1 \in 1 .. FANOUT - MIDDLE /\ i + 1 + MIDDLE + 1 = i + MIDDLE + 2
        BY <1>2, <2>1
      <4>2. i # FANOUT - MIDDLE - 1 => i + 2 \in 1 .. FANOUT - MIDDLE
                                       /\ i + 2 + MIDDLE + 1 = i + MIDDLE + 3
        BY <1>2, <2>1
      <4>3. i # -1 => T.entries[i + 1] = E[i + MIDDLE + 2]
        BY <1>2, <4>1
      <4> QED
        BY <1>2, <4>2, <4>3
    <3>3. /\ i + MIDDLE + 1 # -1 /\ k \in Nat /\ i + MIDDLE + 1 \in Int
          /\ i + MIDDLE + 1 + 1 = i + MIDDLE + 2 /\ i + MIDDLE + 1 + 2 = i + MIDDLE + 3
          /\ i + MIDDLE + 1 # FANOUT <=> i # FANOUT - MIDDLE - 1
      BY <1>2, <2>1
    <3>4. Within(v, i + MIDDLE + 1, k) <=> /\ E[i + MIDDLE + 2].key <= k
                                           /\ i # FANOUT - MIDDLE - 1 => k < E[i + MIDDLE + 3].key
      <4>1. Within(v, i + MIDDLE + 1, k) <=>
              /\ i + MIDDLE + 1 # -1 => E[i + MIDDLE + 1 + 1].key <= k
              /\ i + MIDDLE + 1 # FANOUT => k < E[i + MIDDLE + 1 + 2].key
        BY <1>6, <3>3
      <4> QED
        BY <3>3, <4>1
    <3>a. Within(T, i, k) <=> /\ i # -1 => E[i + MIDDLE + 2].key <= k
                              /\ i # FANOUT - MIDDLE - 1 => k < E[i + MIDDLE + 3].key
      BY <3>1, <3>2
    <3>5. CASE i = -1
      <4>1. E[i + MIDDLE + 2].key = s
        <5>1. i + MIDDLE + 2 = MIDDLE + 1
          BY <1>2, <3>5
        <5> QED
          BY <1>5, <5>1
      <4> QED
        BY <3>a, <3>4, <3>5, <4>1
    <3>6. CASE i # -1
      <4>1. i + MIDDLE + 2 \in 1 .. FANOUT + 1 /\ MIDDLE + 1 < i + MIDDLE + 2
        BY <1>2, <2>1, <3>6
      <4>2. s < E[i + MIDDLE + 2].key /\ E[i + MIDDLE + 2].key \in Nat /\ s \in Nat
        BY <1>3, <1>4, <1>5, <4>1
      <4>3. E[i + MIDDLE + 2].key <= k => s <= k
        BY <3>3, <4>2
      <4> QED
        BY <3>a, <3>4, <3>6, <4>3
    <3> QED
      BY <3>5, <3>6
  <2> QED
    BY <2>2, <2>3, <2>4
<1>9. ASSUME NEW i \in Index(v) PROVE i \in Index(L) \/ i - MIDDLE - 1 \in Index(T)
  BY <1>1, <1>2 DEF Index
<1> QED
  BY <1>7, <1>8, <1>9 DEF s, L, T

-----------------------------------------------------------------------------
(* Trees.  rng[n] is the range of node n, lev[n] its height above the      *)
(* leaves.                                                                 *)

Inner(h) == {n \in Used(h) : ~h[n].isLeaf}

\* The child of n at index i.
KidOK(h, lev, rng, n, i) ==
  /\ Child(h[n], i) \in Used(h) /\ lev[Child(h[n], i)] = lev[n] - 1
  /\ rng[Child(h[n], i)] = {k \in rng[n] : Within(h[n], i, k)}

\* Nodes but the root are half full, and node `big` may have an entry too many.
SizeOK(h, r, n, big) ==
  /\ numKeys(h[n]) <= FANOUT \/ (n = big /\ numKeys(h[n]) = FANOUT + 1)
  /\ n # r => numKeys(h[n]) >= FANOUT \div 2

Shape(h, r, dep, lev, rng) ==
  /\ h \in [Node -> BtNode \cup {NULL}] /\ dep \in Nat
  /\ lev \in [Node -> Nat] /\ rng \in [Node -> SUBSET Key]
  /\ r \in Used(h) /\ lev[r] = dep /\ rng[r] = Key

Nodes(h, lev, rng) == \A n \in Used(h) : NodeOK(h[n], lev[n], rng[n])
Sizes(h, r, big) == \A n \in Used(h) : SizeOK(h, r, n, big)
Kids(h, lev, rng) == \A n \in Inner(h) : \A i \in Index(h[n]) : KidOK(h, lev, rng, n, i)

\* Nodes of one level share no key.
Apart(h, lev, rng) ==
  \A m, n \in Used(h) : \A k \in Key :
    lev[m] = lev[n] /\ k \in rng[m] /\ k \in rng[n] => m = n

Reached(h, r, dep, lev) ==
  \A n \in Used(h) \ {r} :
    lev[n] < dep /\ \E m \in Inner(h) : \E i \in Index(h[m]) : Child(h[m], i) = n

Tree(h, r, dep, lev, rng, big) ==
  /\ Shape(h, r, dep, lev, rng) /\ Nodes(h, lev, rng) /\ Sizes(h, r, big)
  /\ Kids(h, lev, rng) /\ Apart(h, lev, rng) /\ Reached(h, r, dep, lev)

LEMMA UsedNodes ==
  ASSUME NEW h, NEW r, NEW dep, NEW lev, NEW rng, Shape(h, r, dep, lev, rng)
  PROVE  \A n \in Used(h) : n \in Node /\ n # NULL /\ h[n] \in BtNode
                            /\ lev[n] \in Nat /\ rng[n] \in SUBSET Key
BY NullAssumption DEF Shape, Used

\* Every node has a key in its range.
LEMMA RangeNonempty ==
  ASSUME NEW h, NEW r, NEW dep, NEW lev, NEW rng, NEW big, Tree(h, r, dep, lev, rng, big),
         NEW n \in Used(h)
  PROVE  /\ rng[n] # {} /\ rng[n] \subseteq Key
         /\ n # r => numKeys(h[n]) >= 1
<1>1. h[n] \in BtNode /\ rng[n] \subseteq Key
  BY UsedNodes DEF Tree
<1>2. numKeys(h[n]) \in Nat /\ NodeOK(h[n], lev[n], rng[n]) /\ SizeOK(h, r, n, big)
  BY <1>1, NodeFacts DEF Tree, Nodes, Sizes
<1>3. FANOUT \div 2 >= 1 /\ FANOUT \div 2 \in Nat
  OBVIOUS
<1>4. CASE n = r
  BY <1>1, <1>4 DEF Tree, Shape
<1>5. CASE n # r
  <2>1. numKeys(h[n]) >= 1
    BY <1>2, <1>3, <1>5 DEF SizeOK
  <2>2. h[n].entries[1].key \in rng[n]
    BY <1>2, <2>1 DEF NodeOK
  <2> QED
    BY <1>1, <2>1, <2>2
<1> QED
  BY <1>4, <1>5

\* A node has one parent, and one index there.
LEMMA SameParent ==
  ASSUME NEW h, NEW r, NEW dep, NEW lev, NEW rng, NEW big, Tree(h, r, dep, lev, rng, big),
         NEW m \in Inner(h), NEW i \in Index(h[m]), NEW n \in Inner(h), NEW j \in Index(h[n]),
         Child(h[m], i) = Child(h[n], j)
  PROVE  m = n /\ i = j
<1> DEFINE c == Child(h[m], i)
<1>1. KidOK(h, lev, rng, m, i) /\ KidOK(h, lev, rng, n, j)
  BY DEF Tree, Kids
<1>2. c \in Used(h) /\ lev[c] = lev[m] - 1 /\ lev[c] = lev[n] - 1
  BY <1>1 DEF KidOK
<1>3. m \in Used(h) /\ n \in Used(h)
  BY DEF Inner
<1>4. lev[m] \in Nat /\ lev[n] \in Nat /\ h[n] \in BtNode
  BY <1>3, UsedNodes DEF Tree
<1>5. PICK k : k \in rng[c] /\ k \in Key
  BY <1>2, RangeNonempty
<1>6. /\ k \in rng[m] /\ Within(h[m], i, k)
      /\ k \in rng[n] /\ Within(h[n], j, k)
  BY <1>1, <1>5 DEF KidOK
<1>7. m = n
  <2>1. lev[m] = lev[n]
    BY <1>2, <1>4
  <2> QED
    BY <1>3, <1>5, <1>6, <2>1 DEF Tree, Apart
<1>8. Ascending(h[n])
  BY <1>3 DEF Tree, Nodes, NodeOK
<1>9. \A x \in Index(h[n]) : Within(h[n], x, k) <=> x = findChildIndex(h[n], k)
  BY <1>4, <1>5, <1>8, WithinIs DEF Index
<1> QED
  BY <1>6, <1>7, <1>9

-----------------------------------------------------------------------------
(* The records of a leaf change.                                           *)

LEMMA LeafChange ==
  ASSUME NEW h, NEW r, NEW dep, NEW lev, NEW rng, Tree(h, r, dep, lev, rng, NULL),
         NEW n \in Used(h), h[n].isLeaf, NEW nd \in BtNode, nd.isLeaf,
         NodeOK(nd, lev[n], rng[n]), NEW big,
         numKeys(nd) <= FANOUT \/ (big = n /\ numKeys(nd) = FANOUT + 1),
         n # r => numKeys(nd) >= FANOUT \div 2
  PROVE  Tree([h EXCEPT ![n] = nd], r, dep, lev, rng, big)
<1> DEFINE g == [h EXCEPT ![n] = nd]
<1>0. /\ Shape(h, r, dep, lev, rng) /\ Nodes(h, lev, rng) /\ Sizes(h, r, NULL)
      /\ Kids(h, lev, rng) /\ Apart(h, lev, rng) /\ Reached(h, r, dep, lev)
  BY DEF Tree
<1>1. /\ h \in [Node -> BtNode \cup {NULL}] /\ n \in Node /\ nd # NULL
      /\ \A m \in Used(h) : m \in Node /\ m # NULL
  BY <1>0, UsedNodes, NullAssumption DEF Shape
<1>2. /\ g[n] = nd /\ \A m \in Node : m # n => g[m] = h[m]
      /\ g \in [Node -> BtNode \cup {NULL}]
  BY <1>1
<1> HIDE DEF g
<1>3. Used(g) = Used(h)
  BY <1>1, <1>2 DEF Used
<1>4. Shape(g, r, dep, lev, rng)
  BY <1>0, <1>2, <1>3 DEF Shape
<1>5. Nodes(g, lev, rng)
  BY <1>0, <1>1, <1>2, <1>3 DEF Nodes
<1>6. Sizes(g, r, big)
  <2> SUFFICES ASSUME NEW m \in Used(g) PROVE SizeOK(g, r, m, big)
    BY DEF Sizes
  <2>1. CASE m = n
    BY <1>2, <2>1 DEF SizeOK
  <2>2. CASE m # n
    <3>1. m # NULL /\ g[m] = h[m] /\ SizeOK(h, r, m, NULL)
      BY <1>0, <1>1, <1>2, <1>3, <2>2 DEF Sizes
    <3> QED
      BY <3>1 DEF SizeOK
  <2> QED
    BY <2>1, <2>2
<1>7. Inner(g) = Inner(h) /\ \A m \in Inner(h) : g[m] = h[m]
  BY <1>1, <1>2, <1>3 DEF Inner
<1>8. Kids(g, lev, rng)
  BY <1>0, <1>3, <1>7 DEF Kids, KidOK
<1>9. Apart(g, lev, rng)
  BY <1>0, <1>3 DEF Apart
<1>10. Reached(g, r, dep, lev)
  BY <1>0, <1>3, <1>7 DEF Reached
<1> QED
  BY <1>4, <1>5, <1>6, <1>8, <1>9, <1>10 DEF Tree, g

-----------------------------------------------------------------------------
(* A new root over the old one.                                            *)

\* Before its first entry.
EmptyRoot(r) == [isLeaf |-> FALSE, First |-> TRUE, Last |-> TRUE, ptr0 |-> r, entries |-> <<>>]

LEMMA Grow ==
  ASSUME NEW h, NEW r, NEW dep, NEW lev, NEW rng, Tree(h, r, dep, lev, rng, r),
         numKeys(h[r]) = FANOUT + 1, NEW z \in Node, z \notin Used(h)
  PROVE  Tree([h EXCEPT ![z] = EmptyRoot(r)], z, dep + 1,
              [lev EXCEPT ![z] = dep + 1], [rng EXCEPT ![z] = Key], r)
<1> DEFINE g == [h EXCEPT ![z] = EmptyRoot(r)]
           lv == [lev EXCEPT ![z] = dep + 1]
           rg == [rng EXCEPT ![z] = Key]
           x == EmptyRoot(r)
<1>0. /\ Shape(h, r, dep, lev, rng) /\ Nodes(h, lev, rng) /\ Sizes(h, r, r)
      /\ Kids(h, lev, rng) /\ Apart(h, lev, rng) /\ Reached(h, r, dep, lev)
  BY DEF Tree
<1>1. /\ h \in [Node -> BtNode \cup {NULL}] /\ lev \in [Node -> Nat] /\ dep \in Nat
      /\ rng \in [Node -> SUBSET Key] /\ r \in Used(h) /\ lev[r] = dep /\ rng[r] = Key
  BY <1>0 DEF Shape
<1>2. \A m \in Used(h) : m \in Node /\ m # z /\ h[m] \in BtNode /\ lev[m] \in Nat
  BY <1>0, UsedNodes
<1>3. /\ x \in BtNode /\ x # NULL /\ ~x.isLeaf /\ x.First /\ x.Last /\ x.ptr0 = r
      /\ numKeys(x) = 0 /\ x.entries = <<>>
  <2>1. x = [isLeaf |-> FALSE, First |-> TRUE, Last |-> TRUE, ptr0 |-> r, entries |-> <<>>]
    BY DEF EmptyRoot
  <2>2. <<>> \in Seq(Entry) /\ Len(<<>>) = 0 /\ r \in Node
    BY <1>1, <1>2
  <2> HIDE DEF x
  <2>3. x \in BtNode
    BY <2>1, <2>2 DEF BtNode
  <2>4. x # NULL
    BY <2>3, NullAssumption
  <2> QED
    BY <2>1, <2>2, <2>3, <2>4 DEF numKeys
<1>4. /\ g[z] = x /\ \A m \in Node : m # z => g[m] = h[m]
      /\ g \in [Node -> BtNode \cup {NULL}]
  BY <1>1, <1>3
<1>5. /\ lv[z] = dep + 1 /\ \A m \in Node : m # z => lv[m] = lev[m]
      /\ lv \in [Node -> Nat]
  BY <1>1
<1>6. /\ rg[z] = Key /\ \A m \in Node : m # z => rg[m] = rng[m]
      /\ rg \in [Node -> SUBSET Key]
  BY <1>1
<1> HIDE DEF g, lv, rg, x
<1>7. Used(g) = Used(h) \cup {z}
  BY <1>3, <1>4 DEF Used
<1>8. \A m \in Used(h) : m \in Node /\ m # z /\ g[m] = h[m] /\ lv[m] = lev[m] /\ rg[m] = rng[m]
  BY <1>2, <1>4, <1>5, <1>6
<1>9. Shape(g, z, dep + 1, lv, rg)
  BY <1>1, <1>4, <1>5, <1>6, <1>7 DEF Shape
<1>10. Nodes(g, lv, rg)
  <2>1. NodeOK(x, dep + 1, Key)
    <3>1. ~(dep + 1 = 0)
      BY <1>1
    <3>2. Ascending(x) /\ \A i \in 1 .. numKeys(x) : FALSE
      BY <1>3 DEF Ascending
    <3>3. Convex(Key) /\ Lowest(Key) /\ Highest(Key)
      BY DEF Convex, Lowest, Highest
    <3> QED
      BY <1>3, <3>1, <3>2, <3>3 DEF NodeOK
  <2> QED
    BY <1>0, <1>4, <1>5, <1>6, <1>7, <1>8, <2>1 DEF Nodes
<1>11. Sizes(g, z, r)
  <2> SUFFICES ASSUME NEW m \in Used(g) PROVE SizeOK(g, z, m, r)
    BY DEF Sizes
  <2>1. CASE m = z
    BY <1>3, <1>4, <2>1 DEF SizeOK
  <2>2. CASE m # z
    <3>1. m \in Used(h) /\ g[m] = h[m] /\ SizeOK(h, r, m, r)
      BY <1>0, <1>7, <1>8, <2>2 DEF Sizes
    <3>2. FANOUT + 1 >= FANOUT \div 2
      OBVIOUS
    <3> QED
      BY <2>2, <3>1, <3>2 DEF SizeOK
  <2> QED
    BY <2>1, <2>2
<1>12. Inner(g) = Inner(h) \cup {z} /\ \A m \in Inner(h) : m \in Used(h)
  BY <1>3, <1>4, <1>7, <1>8 DEF Inner
<1>13. Index(x) = {-1} /\ Child(x, -1) = r
  BY <1>3 DEF Index, Child
<1>14. Kids(g, lv, rg)
  <2>1. KidOK(g, lv, rg, z, -1)
    <3>1. \A k : Within(x, -1, k)
      BY <1>3 DEF Within
    <3>2. rg[r] = Key /\ lv[r] = dep /\ r \in Used(g)
      BY <1>1, <1>7, <1>8
    <3>4. Key = {k \in Key : Within(x, -1, k)}
      BY <3>1
    <3>5. lv[z] = dep + 1 /\ rg[z] = Key /\ g[z] = x /\ Child(x, -1) = r
      BY <1>4, <1>5, <1>6, <1>13
    <3>6. Child(g[z], -1) = r
      BY <3>5
    <3>7. rg[r] = {k \in rg[z] : Within(g[z], -1, k)}
      BY <3>2, <3>4, <3>5
    <3>8. lv[r] = lv[z] - 1
      BY <1>1, <3>2, <3>5
    <3> QED
      BY <3>2, <3>6, <3>7, <3>8 DEF KidOK
  <2>2. ASSUME NEW m \in Inner(h), NEW i \in Index(h[m]) PROVE KidOK(g, lv, rg, m, i)
    <3>1. KidOK(h, lev, rng, m, i)
      BY <1>0 DEF Kids
    <3>2. m \in Used(h) /\ Child(h[m], i) \in Used(h)
      BY <1>12, <3>1 DEF KidOK
    <3> QED
      BY <1>7, <1>8, <3>1, <3>2 DEF KidOK
  <2> QED
    BY <1>4, <1>8, <1>12, <1>13, <2>1, <2>2 DEF Kids
<1>15. \A m \in Used(h) : lev[m] <= dep
  BY <1>0, <1>1, <1>2 DEF Reached
<1>16. Apart(g, lv, rg)
  <2> SUFFICES ASSUME NEW m \in Used(g), NEW n \in Used(g), NEW k \in Key,
                      lv[m] = lv[n], k \in rg[m], k \in rg[n]
               PROVE  m = n
    BY DEF Apart
  <2>1. \A a \in Used(h) : lv[a] # dep + 1
    BY <1>1, <1>2, <1>8, <1>15
  <2>2. CASE m = z \/ n = z
    BY <1>5, <1>7, <2>1, <2>2
  <2>3. CASE m # z /\ n # z
    BY <1>0, <1>7, <1>8, <2>3 DEF Apart
  <2> QED
    BY <2>2, <2>3
<1>17. Reached(g, z, dep + 1, lv)
  <2> SUFFICES ASSUME NEW n \in Used(h)
               PROVE  /\ lv[n] < dep + 1
                      /\ \E m \in Inner(g) : \E i \in Index(g[m]) : Child(g[m], i) = n
    BY <1>7 DEF Reached
  <2>1. lv[n] < dep + 1
    BY <1>1, <1>2, <1>8, <1>15
  <2>2. CASE n = r
    BY <1>4, <1>12, <1>13, <2>1, <2>2
  <2>3. CASE n # r
    <3>1. PICK m \in Inner(h) : \E i \in Index(h[m]) : Child(h[m], i) = n
      BY <1>0, <2>3 DEF Reached
    <3>2. m \in Inner(g) /\ g[m] = h[m]
      BY <1>8, <1>12
    <3> QED
      BY <2>1, <3>1, <3>2
  <2> QED
    BY <2>2, <2>3
<1> QED
  BY <1>9, <1>10, <1>11, <1>14, <1>16, <1>17 DEF Tree, g, lv, rg

-----------------------------------------------------------------------------
(* A split.  Node a, the child of p at index j, has an entry too many: its *)
(* right half goes to q, and an entry for q goes into p.                   *)

UpEntry(h, a, q) == [key |-> Sep(h[a]), ptr |-> q]

SplitHeap(h, p, a, q) ==
  [h EXCEPT ![a] = LeftHalf(h[a]), ![q] = RightHalf(h[a]), ![p] = Put(h[p], UpEntry(h, a, q))]
SplitLev(lev, a, q) == [lev EXCEPT ![q] = lev[a]]
SplitRng(h, rng, a, q) ==
  [rng EXCEPT ![a] = Below(rng[a], Sep(h[a])), ![q] = Above(rng[a], Sep(h[a]))]

CanSplit(h, r, dep, lev, rng, p, a, j, q) ==
  /\ Tree(h, r, dep, lev, rng, a) /\ numKeys(h[a]) = FANOUT + 1
  /\ p \in Inner(h) /\ j \in Index(h[p]) /\ Child(h[p], j) = a
  /\ q \in Node /\ q \notin Used(h)

LEMMA SplitFacts ==
  ASSUME NEW h, NEW r, NEW dep, NEW lev, NEW rng, NEW p, NEW a, NEW j, NEW q,
         CanSplit(h, r, dep, lev, rng, p, a, j, q)
  PROVE  /\ a \in Used(h) /\ p \in Used(h) /\ a # p /\ a # q /\ p # q /\ a # r
         /\ a \in Node /\ p \in Node /\ q \in Node /\ lev[a] = lev[p] - 1 /\ lev[p] \in Nat
         /\ Overfull(h[a]) /\ NodeOK(h[a], lev[a], rng[a]) /\ rng[a] \in SUBSET Key
         /\ rng[a] = {k \in rng[p] : Within(h[p], j, k)}
         /\ Sep(h[a]) \in rng[a] /\ Sep(h[a]) \in Key
         /\ UpEntry(h, a, q) \in Entry /\ UpEntry(h, a, q).key = Sep(h[a])
         /\ UpEntry(h, a, q).ptr = q
         /\ h[p] \in BtNode /\ NodeOK(h[p], lev[p], rng[p]) /\ rng[p] \in SUBSET Key
         /\ numKeys(h[p]) <= FANOUT /\ ~h[p].isLeaf
         /\ findChildIndex(h[p], Sep(h[a])) = j /\ NewKey(h[p], Sep(h[a]))
         /\ findRecordIndex(h[p], Sep(h[a])) = j + 1
<1> DEFINE s == Sep(h[a])
<1>0. /\ Shape(h, r, dep, lev, rng) /\ Nodes(h, lev, rng) /\ Sizes(h, r, a)
      /\ Kids(h, lev, rng) /\ Apart(h, lev, rng) /\ Reached(h, r, dep, lev)
      /\ p \in Inner(h) /\ j \in Index(h[p]) /\ Child(h[p], j) = a
      /\ q \in Node /\ q \notin Used(h) /\ numKeys(h[a]) = FANOUT + 1
  BY DEF CanSplit, Tree
<1>1. /\ a \in Used(h) /\ lev[a] = lev[p] - 1
      /\ rng[a] = {k \in rng[p] : Within(h[p], j, k)}
  BY <1>0 DEF Kids, KidOK
<1>2. p \in Used(h) /\ ~h[p].isLeaf
  BY <1>0 DEF Inner
<1>3. /\ a \in Node /\ p \in Node /\ lev[a] \in Nat /\ lev[p] \in Nat
      /\ h[a] \in BtNode /\ h[p] \in BtNode
      /\ rng[a] \in SUBSET Key /\ rng[p] \in SUBSET Key
  BY <1>0, <1>1, <1>2, UsedNodes
<1>4. a # p /\ a # q /\ p # q
  BY <1>0, <1>1, <1>2, <1>3
<1>5. a # r
  <2>1. lev[p] <= lev[r] /\ lev[r] \in Nat
    BY <1>0, <1>2, <1>3 DEF Reached, Shape
  <2> QED
    BY <1>1, <1>3, <2>1
<1>6. /\ NodeOK(h[a], lev[a], rng[a]) /\ NodeOK(h[p], lev[p], rng[p])
  BY <1>0, <1>1, <1>2 DEF Nodes
<1>7. Overfull(h[a])
  <2>1. ASSUME ~h[a].isLeaf PROVE h[a].entries[MIDDLE + 1].ptr \in Node
    <3>1. a \in Inner(h) /\ MIDDLE \in Index(h[a])
      BY <1>0, <1>1, <2>1 DEF Inner, Index
    <3>2. Child(h[a], MIDDLE) \in Used(h)
      BY <1>0, <3>1 DEF Kids, KidOK
    <3>3. Child(h[a], MIDDLE) = h[a].entries[MIDDLE + 1].ptr
      BY DEF Child
    <3> QED
      BY <3>2, <3>3 DEF Used
  <2> QED
    BY <1>0, <1>3, <2>1 DEF Overfull
<1> HIDE DEF s
<1>8. /\ s \in rng[a] /\ s \in Nat /\ h[a].entries[1].key \in rng[a]
      /\ h[a].entries[1].key \in Nat /\ h[a].entries[1].key < s
  BY <1>3, <1>6, <1>7, HalvesOK DEF s
<1>9. s \in Key /\ Within(h[p], j, s) /\ Within(h[p], j, h[a].entries[1].key)
  BY <1>1, <1>3, <1>8
<1>10. Ascending(h[p])
  BY <1>6 DEF NodeOK
<1>11. findChildIndex(h[p], s) = j
  BY <1>0, <1>3, <1>9, <1>10, WithinIs DEF Index
<1>12. NewKey(h[p], s)
  <2> SUFFICES ASSUME NEW i \in 1 .. numKeys(h[p]), h[p].entries[i].key = s PROVE FALSE
    BY DEF NewKey
  <2>1. \A x \in 1 .. numKeys(h[p]) : h[p].entries[x].key \in Nat /\ numKeys(h[p]) \in Nat
    BY <1>3, NodeFacts
  <2>2. \A x \in 1 .. numKeys(h[p]) : h[p].entries[x].key <= s <=> x <= j + 1
    BY <1>3, <1>9, <1>10, <1>11, ChildIndex
  <2>3. i <= j + 1 /\ j \in -1 .. numKeys(h[p]) - 1
    BY <1>0, <1>8, <2>2 DEF Index
  <2>4. j # -1 /\ j + 1 \in 1 .. numKeys(h[p])
    BY <2>1, <2>3
  <2>5. h[p].entries[j + 1].key <= h[a].entries[1].key
    BY <1>9, <2>4 DEF Within
  <2>6. i = j + 1 \/ h[p].entries[i].key < h[p].entries[j + 1].key
    BY <1>10, <2>3, <2>4 DEF Ascending
  <2>7. s <= h[p].entries[j + 1].key /\ h[p].entries[j + 1].key \in Nat
    BY <1>8, <2>1, <2>4, <2>6
  <2> QED
    BY <1>8, <2>5, <2>7
<1>13. numKeys(h[p]) <= FANOUT
  BY <1>0, <1>2, <1>4 DEF Sizes, SizeOK
<1>14. /\ UpEntry(h, a, q) \in Entry /\ UpEntry(h, a, q).key = s /\ UpEntry(h, a, q).ptr = q
  BY <1>0, <1>9 DEF UpEntry, Entry, s
<1>15. findRecordIndex(h[p], s) = j + 1
  <2>1. findRecordIndex(h[p], UpEntry(h, a, q).key) = findChildIndex(h[p], UpEntry(h, a, q).key) + 1
    BY <1>3, <1>10, <1>12, <1>14, PutFacts
  <2> QED
    BY <1>11, <1>14, <2>1
<1> QED
  BY <1>0, <1>1, <1>2, <1>3, <1>4, <1>5, <1>6, <1>7, <1>8, <1>9, <1>11, <1>12, <1>13, <1>14, <1>15 DEF s

LEMMA SplitParts ==
  ASSUME NEW h, NEW r, NEW dep, NEW lev, NEW rng, NEW p, NEW a, NEW j, NEW q,
         CanSplit(h, r, dep, lev, rng, p, a, j, q)
  PROVE  LET g == SplitHeap(h, p, a, q)
             lv == SplitLev(lev, a, q)
             rg == SplitRng(h, rng, a, q)
         IN  /\ g \in [Node -> BtNode \cup {NULL}] /\ lv \in [Node -> Nat]
             /\ rg \in [Node -> SUBSET Key]
             /\ g[a] = LeftHalf(h[a]) /\ g[q] = RightHalf(h[a])
             /\ g[p] = Put(h[p], UpEntry(h, a, q))
             /\ \A m \in Node : m \notin {a, p, q} => g[m] = h[m]
             /\ \A m \in Node : m # q => lv[m] = lev[m]
             /\ lv[q] = lev[a]
             /\ \A m \in Node : m \notin {a, q} => rg[m] = rng[m]
             /\ rg[a] = Below(rng[a], Sep(h[a])) /\ rg[q] = Above(rng[a], Sep(h[a]))
             /\ Used(g) = Used(h) \cup {q}
             /\ \A m \in Used(h) : g[m].isLeaf = h[m].isLeaf
             /\ g[q].isLeaf = h[a].isLeaf
<1> DEFINE g == SplitHeap(h, p, a, q)
           lv == SplitLev(lev, a, q)
           rg == SplitRng(h, rng, a, q)
           L == LeftHalf(h[a])
           T == RightHalf(h[a])
           P == Put(h[p], UpEntry(h, a, q))
           lo == Below(rng[a], Sep(h[a]))
           hi == Above(rng[a], Sep(h[a]))
<1>1. /\ a \in Used(h) /\ p \in Used(h) /\ a # p /\ a # q /\ p # q
      /\ a \in Node /\ p \in Node /\ q \in Node /\ lev[a] = lev[p] - 1 /\ lev[p] \in Nat
      /\ Overfull(h[a]) /\ rng[a] \in SUBSET Key
      /\ UpEntry(h, a, q) \in Entry /\ UpEntry(h, a, q).key = Sep(h[a])
      /\ h[p] \in BtNode /\ NodeOK(h[p], lev[p], rng[p]) /\ NewKey(h[p], Sep(h[a]))
  BY SplitFacts
<1>2. /\ h \in [Node -> BtNode \cup {NULL}] /\ lev \in [Node -> Nat]
      /\ rng \in [Node -> SUBSET Key]
  BY DEF CanSplit, Tree, Shape
<1>3. L \in BtNode /\ T \in BtNode /\ L.isLeaf = h[a].isLeaf /\ T.isLeaf = h[a].isLeaf
  BY <1>1, HalfFacts
<1>4. P \in BtNode /\ P.isLeaf = h[p].isLeaf
  <2>1. Ascending(h[p])
    BY <1>1 DEF NodeOK
  <2> QED
    BY <1>1, <2>1, PutFacts
<1>5. lo \in SUBSET Key /\ hi \in SUBSET Key
  BY <1>1 DEF Below, Above
<1>6. g = [h EXCEPT ![a] = L, ![q] = T, ![p] = P]
  BY DEF SplitHeap
<1>7. rg = [rng EXCEPT ![a] = lo, ![q] = hi]
  BY DEF SplitRng
<1>8. lv = [lev EXCEPT ![q] = lev[a]]
  BY DEF SplitLev
<1> HIDE DEF g, lv, rg, L, T, P, lo, hi
<1>9. /\ g \in [Node -> BtNode \cup {NULL}] /\ g[a] = L /\ g[q] = T /\ g[p] = P
      /\ \A m \in Node : m \notin {a, p, q} => g[m] = h[m]
  BY <1>1, <1>2, <1>3, <1>4, <1>6
<1>10. /\ lv \in [Node -> Nat] /\ lv[q] = lev[a] /\ \A m \in Node : m # q => lv[m] = lev[m]
  BY <1>1, <1>2, <1>8
<1>11. /\ rg \in [Node -> SUBSET Key] /\ rg[a] = lo /\ rg[q] = hi
       /\ \A m \in Node : m \notin {a, q} => rg[m] = rng[m]
  BY <1>1, <1>2, <1>5, <1>7
<1>12. Used(g) = Used(h) \cup {q}
  <2>1. L # NULL /\ T # NULL /\ P # NULL
    BY <1>3, <1>4, NullAssumption
  <2>2. ASSUME NEW m \in Node PROVE m \in Used(g) <=> m \in Used(h) \/ m = q
    BY <1>1, <1>9, <2>1 DEF Used
  <2>3. Used(g) \subseteq Node /\ Used(h) \subseteq Node
    BY DEF Used
  <2> QED
    BY <1>1, <2>2, <2>3
<1>13. \A m \in Used(h) : g[m].isLeaf = h[m].isLeaf
  <2>1. \A m \in Used(h) : m \in Node /\ m # q
    BY DEF Used, CanSplit
  <2> QED
    BY <1>3, <1>4, <1>9, <2>1
<1> QED
  BY <1>3, <1>9, <1>10, <1>11, <1>12, <1>13 DEF g, lv, rg, L, T, P, lo, hi

LEMMA SplitKids ==
  ASSUME NEW h, NEW r, NEW dep, NEW lev, NEW rng, NEW p, NEW a, NEW j, NEW q,
         CanSplit(h, r, dep, lev, rng, p, a, j, q)
  PROVE  Kids(SplitHeap(h, p, a, q), SplitLev(lev, a, q), SplitRng(h, rng, a, q))
<1> DEFINE g == SplitHeap(h, p, a, q)
           lv == SplitLev(lev, a, q)
           rg == SplitRng(h, rng, a, q)
           s == Sep(h[a])
           e == UpEntry(h, a, q)
<1>0. /\ Shape(h, r, dep, lev, rng) /\ Nodes(h, lev, rng) /\ Kids(h, lev, rng)
      /\ Apart(h, lev, rng) /\ Tree(h, r, dep, lev, rng, a)
      /\ p \in Inner(h) /\ j \in Index(h[p]) /\ Child(h[p], j) = a
      /\ q \in Node /\ q \notin Used(h)
  BY DEF CanSplit, Tree
<1>1. /\ a \in Used(h) /\ p \in Used(h) /\ a # p /\ a # q /\ p # q
      /\ a \in Node /\ p \in Node /\ q \in Node /\ lev[a] = lev[p] - 1 /\ lev[p] \in Nat
      /\ Overfull(h[a]) /\ NodeOK(h[a], lev[a], rng[a]) /\ rng[a] \in SUBSET Key
      /\ rng[a] = {k \in rng[p] : Within(h[p], j, k)}
      /\ e \in Entry /\ e.key = s /\ e.ptr = q
      /\ h[p] \in BtNode /\ NodeOK(h[p], lev[p], rng[p]) /\ rng[p] \in SUBSET Key
      /\ findChildIndex(h[p], s) = j /\ NewKey(h[p], s)
  BY SplitFacts
<1>2. /\ g[a] = LeftHalf(h[a]) /\ g[q] = RightHalf(h[a]) /\ g[p] = Put(h[p], e)
      /\ \A m \in Node : m \notin {a, p, q} => g[m] = h[m]
      /\ \A m \in Node : m # q => lv[m] = lev[m]
      /\ lv[q] = lev[a]
      /\ \A m \in Node : m \notin {a, q} => rg[m] = rng[m]
      /\ rg[a] = Below(rng[a], s) /\ rg[q] = Above(rng[a], s)
      /\ Used(g) = Used(h) \cup {q}
      /\ \A m \in Used(h) : g[m].isLeaf = h[m].isLeaf
      /\ g[q].isLeaf = h[a].isLeaf
  BY SplitParts
<1> HIDE DEF g, lv, rg, s, e
<1>3. \A m \in Used(h) : m \in Node /\ m # q /\ lev[m] \in Nat /\ rng[m] \in SUBSET Key
  BY <1>0, UsedNodes
\* A child that is not a keeps its place.
<1>4. ASSUME NEW m \in Inner(h), NEW i \in Index(h[m]), Child(h[m], i) # a
      PROVE  LET c == Child(h[m], i) IN
             /\ c \in Used(g) /\ lv[c] = lev[m] - 1
             /\ rg[c] = {k \in rng[m] : Within(h[m], i, k)}
  <2> DEFINE c == Child(h[m], i)
  <2>1. /\ c \in Used(h) /\ lev[c] = lev[m] - 1
        /\ rng[c] = {k \in rng[m] : Within(h[m], i, k)}
    BY <1>0 DEF Kids, KidOK
  <2> HIDE DEF c
  <2>2. c # a
    BY <1>4 DEF c
  <2>3. c \in Node /\ c # q
    BY <1>3, <2>1
  <2>4. lv[c] = lev[c] /\ rg[c] = rng[c] /\ c \in Used(g)
    BY <1>2, <2>1, <2>2, <2>3
  <2> QED
    BY <2>1, <2>4 DEF c
<1>5. ASSUME NEW i \in Index(g[a]), ~h[a].isLeaf PROVE KidOK(g, lv, rg, a, i)
  <2>1. Ascending(h[a])
    BY <1>1 DEF NodeOK
  <2>2. /\ i \in Index(h[a]) /\ Child(g[a], i) = Child(h[a], i)
        /\ \A k \in Key : Within(h[a], i, k) <=> Within(g[a], i, k) /\ k < s
    BY <1>1, <1>2, <1>5, <2>1, HalfKids DEF s
  <2>3. a \in Inner(h)
    BY <1>1, <1>5 DEF Inner
  <2>4. Child(h[a], i) # a
    <3>1. lev[Child(h[a], i)] = lev[a] - 1
      BY <1>0, <2>2, <2>3 DEF Kids, KidOK
    <3> QED
      BY <1>1, <1>3, <3>1
  <2> DEFINE c == Child(h[a], i)
  <2>5. c \in Used(g) /\ lv[c] = lev[a] - 1 /\ rg[c] = {k \in rng[a] : Within(h[a], i, k)}
    BY <1>4, <2>2, <2>3, <2>4
  <2> HIDE DEF c
  <2>6. {k \in rng[a] : Within(h[a], i, k)} = {k \in rg[a] : Within(g[a], i, k)}
    <3>1. ASSUME NEW k PROVE k \in rng[a] /\ Within(h[a], i, k) <=> k \in rg[a] /\ Within(g[a], i, k)
      BY <1>1, <1>2, <2>2 DEF Below
    <3> QED
      BY <3>1
  <2>7. lv[a] = lev[a]
    BY <1>1, <1>2
  <2> QED
    BY <2>2, <2>5, <2>6, <2>7 DEF KidOK, c
<1>6. ASSUME NEW i \in Index(g[q]), ~h[a].isLeaf PROVE KidOK(g, lv, rg, q, i)
  <2>1. Ascending(h[a])
    BY <1>1 DEF NodeOK
  <2> DEFINE x == i + MIDDLE + 1
  <2>2. /\ x \in Index(h[a]) /\ Child(g[q], i) = Child(h[a], x)
        /\ \A k \in Key : Within(h[a], x, k) <=> Within(g[q], i, k) /\ s <= k
    BY <1>1, <1>2, <1>6, <2>1, HalfKids DEF s
  <2> HIDE DEF x
  <2>3. a \in Inner(h)
    BY <1>1, <1>6 DEF Inner
  <2>4. Child(h[a], x) # a
    <3>1. lev[Child(h[a], x)] = lev[a] - 1
      BY <1>0, <2>2, <2>3 DEF Kids, KidOK
    <3> QED
      BY <1>1, <1>3, <3>1
  <2> DEFINE c == Child(h[a], x)
  <2>5. c \in Used(g) /\ lv[c] = lev[a] - 1 /\ rg[c] = {k \in rng[a] : Within(h[a], x, k)}
    BY <1>4, <2>2, <2>3, <2>4
  <2> HIDE DEF c
  <2>6. {k \in rng[a] : Within(h[a], x, k)} = {k \in rg[q] : Within(g[q], i, k)}
    <3>1. ASSUME NEW k PROVE k \in rng[a] /\ Within(h[a], x, k) <=> k \in rg[q] /\ Within(g[q], i, k)
      BY <1>1, <1>2, <2>2 DEF Above
    <3> QED
      BY <3>1
  <2> QED
    BY <1>2, <2>2, <2>5, <2>6 DEF KidOK, c
<1>7. ASSUME NEW i \in Index(g[p]) PROVE KidOK(g, lv, rg, p, i)
  <2>1. Ascending(h[p])
    BY <1>1 DEF NodeOK
  <2>2. /\ j \in Index(h[p]) /\ (i < j + 1 => i \in Index(h[p]))
        /\ (i > j + 1 => i - 1 \in Index(h[p]))
        /\ Child(g[p], i) = IF i <= j THEN Child(h[p], i)
                            ELSE IF i = j + 1 THEN q ELSE Child(h[p], i - 1)
        /\ \A k \in Key :
             Within(g[p], i, k) <=>
               IF i < j THEN Within(h[p], i, k)
               ELSE IF i = j THEN Within(h[p], j, k) /\ k < s
               ELSE IF i = j + 1 THEN Within(h[p], j, k) /\ s <= k
               ELSE Within(h[p], i - 1, k)
    <3>1. NewKey(h[p], e.key)
      BY <1>1
    <3>2. i \in Index(Put(h[p], e))
      BY <1>2, <1>7
    <3> QED
      BY <1>1, <1>2, <2>1, <3>1, <3>2, PutKids
  <2>3. lv[p] = lev[p] /\ rg[p] = rng[p]
    BY <1>1, <1>2
  <2>4. i \in Int /\ j \in Int
    BY <1>0, <1>7 DEF Index
  <2>5. \A x \in Index(h[p]) : x # j => Child(h[p], x) # a
    BY <1>0, SameParent
  <2>6. CASE i < j
    <3>1. i \in Index(h[p]) /\ i # j /\ Child(g[p], i) = Child(h[p], i)
      BY <2>2, <2>4, <2>6
    <3>2. /\ Child(g[p], i) \in Used(g) /\ lv[Child(g[p], i)] = lev[p] - 1
          /\ rg[Child(g[p], i)] = {k \in rng[p] : Within(h[p], i, k)}
      BY <1>0, <1>4, <2>5, <3>1
    <3>3. \A k \in Key : Within(g[p], i, k) <=> Within(h[p], i, k)
      BY <2>2, <2>6
    <3>4. {k \in rng[p] : Within(h[p], i, k)} = {k \in rg[p] : Within(g[p], i, k)}
      BY <1>1, <2>3, <3>3
    <3> QED
      BY <2>3, <3>2, <3>4 DEF KidOK
  <2>7. CASE i = j
    <3>1. Child(g[p], i) = a /\ ~(i < j)
      BY <1>0, <2>2, <2>4, <2>7
    <3>2. \A k \in Key : Within(g[p], i, k) <=> Within(h[p], j, k) /\ k < s
      BY <2>2, <2>7, <3>1
    <3>3. rg[a] = {k \in rg[p] : Within(g[p], i, k)}
      <4>1. ASSUME NEW k PROVE k \in rg[a] <=> k \in rg[p] /\ Within(g[p], i, k)
        BY <1>1, <1>2, <2>3, <3>2 DEF Below
      <4> QED
        BY <4>1
    <3>4. a \in Used(g) /\ lv[a] = lv[p] - 1
      BY <1>1, <1>2
    <3> QED
      BY <3>1, <3>3, <3>4 DEF KidOK
  <2>8. CASE i = j + 1
    <3>1. Child(g[p], i) = q /\ ~(i < j) /\ i # j
      BY <2>2, <2>4, <2>8
    <3>2. \A k \in Key : Within(g[p], i, k) <=> Within(h[p], j, k) /\ s <= k
      BY <2>2, <2>8, <3>1
    <3>3. rg[q] = {k \in rg[p] : Within(g[p], i, k)}
      <4>1. ASSUME NEW k PROVE k \in rg[q] <=> k \in rg[p] /\ Within(g[p], i, k)
        BY <1>1, <1>2, <2>3, <3>2 DEF Above
      <4> QED
        BY <4>1
    <3>4. q \in Used(g) /\ lv[q] = lv[p] - 1
      BY <1>1, <1>2
    <3> QED
      BY <3>1, <3>3, <3>4 DEF KidOK
  <2>9. CASE i > j + 1
    <3>1. i - 1 \in Index(h[p]) /\ i - 1 # j /\ ~(i <= j) /\ i # j + 1 /\ ~(i < j) /\ i # j
      BY <2>2, <2>4, <2>9
    <3>2. Child(g[p], i) = Child(h[p], i - 1)
      BY <2>2, <3>1
    <3>3. /\ Child(g[p], i) \in Used(g) /\ lv[Child(g[p], i)] = lev[p] - 1
          /\ rg[Child(g[p], i)] = {k \in rng[p] : Within(h[p], i - 1, k)}
      BY <1>0, <1>4, <2>5, <3>1, <3>2
    <3>4. \A k \in Key : Within(g[p], i, k) <=> Within(h[p], i - 1, k)
      BY <2>2, <3>1
    <3>5. {k \in rng[p] : Within(h[p], i - 1, k)} = {k \in rg[p] : Within(g[p], i, k)}
      BY <1>1, <2>3, <3>4
    <3> QED
      BY <2>3, <3>3, <3>5 DEF KidOK
  <2> QED
    BY <2>4, <2>6, <2>7, <2>8, <2>9
<1>8. ASSUME NEW m \in Inner(h), m # p, m # a, NEW i \in Index(h[m]) PROVE KidOK(g, lv, rg, m, i)
  <2>1. m \in Node /\ m # q
    BY <1>3 DEF Inner
  <2>2. g[m] = h[m] /\ lv[m] = lev[m] /\ rg[m] = rng[m]
    BY <1>2, <1>8, <2>1
  <2>3. Child(h[m], i) # a
    BY <1>0, <1>8, SameParent
  <2> QED
    BY <1>4, <2>2, <2>3 DEF KidOK
<1>9. \A m \in Inner(g) : m \in Inner(h) \/ (m = q /\ ~h[a].isLeaf)
  BY <1>2 DEF Inner
<1>10. ASSUME NEW m \in Inner(g), NEW i \in Index(g[m]) PROVE KidOK(g, lv, rg, m, i)
  <2>1. CASE m = q
    <3>1. ~h[a].isLeaf
      BY <1>3, <1>9, <2>1 DEF Inner
    <3> QED
      BY <1>6, <2>1, <3>1
  <2>2. CASE m = p
    BY <1>7, <2>2
  <2>3. CASE m = a
    <3>1. ~h[a].isLeaf
      BY <1>1, <1>9, <2>3 DEF Inner
    <3> QED
      BY <1>5, <2>3, <3>1
  <2>4. CASE m \notin {a, p, q}
    <3>1. m \in Inner(h) /\ m \in Node
      BY <1>3, <1>9, <2>4 DEF Inner
    <3>2. g[m] = h[m]
      BY <1>2, <2>4, <3>1
    <3> QED
      BY <1>8, <2>4, <3>1, <3>2
  <2> QED
    BY <2>1, <2>2, <2>3, <2>4
<1> QED
  BY <1>10 DEF Kids, g, lv, rg

LEMMA SplitTree ==
  ASSUME NEW h, NEW r, NEW dep, NEW lev, NEW rng, NEW p, NEW a, NEW j, NEW q,
         CanSplit(h, r, dep, lev, rng, p, a, j, q)
  PROVE  Tree(SplitHeap(h, p, a, q), r, dep, SplitLev(lev, a, q), SplitRng(h, rng, a, q), p)
<1> DEFINE g == SplitHeap(h, p, a, q)
           lv == SplitLev(lev, a, q)
           rg == SplitRng(h, rng, a, q)
           s == Sep(h[a])
           e == UpEntry(h, a, q)
<1>0. /\ Shape(h, r, dep, lev, rng) /\ Nodes(h, lev, rng) /\ Sizes(h, r, a)
      /\ Apart(h, lev, rng) /\ Reached(h, r, dep, lev)
      /\ p \in Inner(h) /\ j \in Index(h[p]) /\ Child(h[p], j) = a
      /\ q \in Node /\ q \notin Used(h)
  BY DEF CanSplit, Tree
<1>1. /\ a \in Used(h) /\ p \in Used(h) /\ a # p /\ a # q /\ p # q /\ a # r
      /\ a \in Node /\ p \in Node /\ q \in Node /\ lev[a] = lev[p] - 1 /\ lev[p] \in Nat
      /\ Overfull(h[a]) /\ NodeOK(h[a], lev[a], rng[a]) /\ rng[a] \in SUBSET Key
      /\ rng[a] = {k \in rng[p] : Within(h[p], j, k)}
      /\ s \in rng[a] /\ s \in Key
      /\ e \in Entry /\ e.key = s /\ e.ptr = q
      /\ h[p] \in BtNode /\ NodeOK(h[p], lev[p], rng[p]) /\ rng[p] \in SUBSET Key
      /\ numKeys(h[p]) <= FANOUT /\ ~h[p].isLeaf
      /\ findChildIndex(h[p], s) = j /\ NewKey(h[p], s)
  BY SplitFacts
<1>2. /\ g \in [Node -> BtNode \cup {NULL}] /\ lv \in [Node -> Nat]
      /\ rg \in [Node -> SUBSET Key]
      /\ g[a] = LeftHalf(h[a]) /\ g[q] = RightHalf(h[a]) /\ g[p] = Put(h[p], e)
      /\ \A m \in Node : m \notin {a, p, q} => g[m] = h[m]
      /\ \A m \in Node : m # q => lv[m] = lev[m]
      /\ lv[q] = lev[a]
      /\ \A m \in Node : m \notin {a, q} => rg[m] = rng[m]
      /\ rg[a] = Below(rng[a], s) /\ rg[q] = Above(rng[a], s)
      /\ Used(g) = Used(h) \cup {q}
      /\ \A m \in Used(h) : g[m].isLeaf = h[m].isLeaf
      /\ g[q].isLeaf = h[a].isLeaf
  BY SplitParts
<1> HIDE DEF g, lv, rg, s, e
<1>3. \A m \in Used(h) : m \in Node /\ m # q /\ lev[m] \in Nat /\ rng[m] \in SUBSET Key
                         /\ h[m] \in BtNode
  BY <1>0, UsedNodes
<1>4. Ascending(h[p])
  BY <1>1 DEF NodeOK
<1>5. NewKey(h[p], e.key)
  BY <1>1
<1>6. numKeys(g[p]) = numKeys(h[p]) + 1 /\ numKeys(h[p]) \in Nat
  BY <1>1, <1>2, <1>4, <1>5, PutFacts, NodeFacts
<1>7. /\ numKeys(g[a]) = MIDDLE /\ numKeys(g[q]) = FANOUT + 1 - Skip(h[a])
      /\ Skip(h[a]) = IF h[a].isLeaf THEN MIDDLE ELSE MIDDLE + 1
  <2>1. /\ numKeys(LeftHalf(h[a])) = MIDDLE
        /\ numKeys(RightHalf(h[a])) = FANOUT + 1 - Skip(h[a])
    BY <1>1, HalfFacts
  <2> QED
    BY <1>2, <2>1 DEF Skip
<1>8. Shape(g, r, dep, lv, rg)
  <2>1. r \in Used(h) /\ r \in Node /\ r # q /\ r # a /\ dep \in Nat
    BY <1>0, <1>1, <1>3 DEF Shape
  <2>2. lv[r] = dep /\ rg[r] = Key
    BY <1>0, <1>2, <2>1 DEF Shape
  <2> QED
    BY <1>2, <2>1, <2>2 DEF Shape
<1>9. Nodes(g, lv, rg)
  <2>1. NodeOK(g[a], lv[a], rg[a]) /\ NodeOK(g[q], lv[q], rg[q])
    <3>1. lv[a] = lev[a] /\ lv[q] = lev[a]
      BY <1>1, <1>2
    <3>2. /\ NodeOK(LeftHalf(h[a]), lev[a], Below(rng[a], Sep(h[a])))
          /\ NodeOK(RightHalf(h[a]), lev[a], Above(rng[a], Sep(h[a])))
      BY <1>1, HalvesOK
    <3> QED
      BY <1>2, <3>1, <3>2 DEF s
  <2>2. NodeOK(g[p], lv[p], rg[p])
    <3>1. lv[p] = lev[p] /\ rg[p] = rng[p]
      BY <1>1, <1>2
    <3>2. e.key \in rng[p]
      BY <1>1
    <3>3. NodeOK(Put(h[p], e), lev[p], rng[p])
      BY <1>1, <1>5, <3>2, PutOK
    <3> QED
      BY <1>2, <3>1, <3>3
  <2>3. ASSUME NEW m \in Used(h), m # a, m # p PROVE NodeOK(g[m], lv[m], rg[m])
    <3>1. g[m] = h[m] /\ lv[m] = lev[m] /\ rg[m] = rng[m]
      BY <1>2, <1>3, <2>3
    <3> QED
      BY <1>0, <3>1 DEF Nodes
  <2> QED
    BY <1>2, <2>1, <2>2, <2>3 DEF Nodes
<1>10. Sizes(g, r, p)
  <2>1. SizeOK(g, r, a, p) /\ SizeOK(g, r, q, p)
    <3>1. /\ MIDDLE <= FANOUT /\ MIDDLE >= FANOUT \div 2
          /\ FANOUT + 1 - Skip(h[a]) <= FANOUT /\ FANOUT + 1 - Skip(h[a]) >= FANOUT \div 2
      BY <1>7
    <3> QED
      BY <1>7, <3>1 DEF SizeOK
  <2>2. SizeOK(g, r, p, p)
    <3>1. SizeOK(h, r, p, a) /\ FANOUT \div 2 \in Nat
      BY <1>0, <1>1 DEF Sizes
    <3> QED
      BY <1>1, <1>6, <3>1 DEF SizeOK
  <2>3. ASSUME NEW m \in Used(h), m # a, m # p PROVE SizeOK(g, r, m, p)
    <3>1. g[m] = h[m] /\ SizeOK(h, r, m, a)
      BY <1>0, <1>2, <1>3, <2>3 DEF Sizes
    <3> QED
      BY <2>3, <3>1 DEF SizeOK
  <2> QED
    BY <1>2, <2>1, <2>2, <2>3 DEF Sizes
<1>11. Kids(g, lv, rg)
  BY SplitKids DEF g, lv, rg
\* The part of a tree that q and a had before.
<1> DEFINE o(m) == IF m = q THEN a ELSE m
<1>12. ASSUME NEW m \in Used(g)
       PROVE  /\ o(m) \in Used(h) /\ lv[m] = lev[o(m)] /\ rg[m] \subseteq rng[o(m)]
  <2>1. CASE m = q
    BY <1>1, <1>2, <2>1 DEF Above
  <2>2. CASE m # q
    <3>1. m \in Used(h) /\ m \in Node /\ lv[m] = lev[m]
      BY <1>2, <1>3, <2>2
    <3>2. rg[m] \subseteq rng[m]
      BY <1>2, <2>2, <3>1 DEF Below
    <3> QED
      BY <2>2, <3>1, <3>2
  <2> QED
    BY <2>1, <2>2
<1>13. Apart(g, lv, rg)
  <2> SUFFICES ASSUME NEW m \in Used(g), NEW n \in Used(g), NEW k \in Key,
                      lv[m] = lv[n], k \in rg[m], k \in rg[n]
               PROVE  m = n
    BY DEF Apart
  <2>1. o(m) = o(n)
    <3>1. o(m) \in Used(h) /\ o(n) \in Used(h) /\ lev[o(m)] = lev[o(n)]
          /\ k \in rng[o(m)] /\ k \in rng[o(n)]
      BY <1>12
    <3> HIDE DEF o
    <3> QED
      BY <1>0, <3>1 DEF Apart
  <2>2. ~(k \in rg[a] /\ k \in rg[q])
    <3>1. k \in Nat /\ s \in Nat
      BY <1>1
    <3> QED
      BY <1>2, <3>1 DEF Below, Above
  <2> QED
    BY <2>1, <2>2
<1>14. Reached(g, r, dep, lv)
  <2> SUFFICES ASSUME NEW n \in Used(g), n # r
               PROVE  lv[n] < dep /\ \E m \in Inner(g) : \E i \in Index(g[m]) : Child(g[m], i) = n
    BY DEF Reached
  <2>1. lv[n] < dep
    <3>1. o(n) \in Used(h) /\ lv[n] = lev[o(n)] /\ o(n) # r
      BY <1>1, <1>12
    <3> HIDE DEF o
    <3> QED
      BY <1>0, <3>1 DEF Reached
  <2>2. p \in Inner(g) /\ \A m \in Inner(h) : m \in Inner(g) /\ m \in Used(h)
    BY <1>0, <1>2 DEF Inner
  <2>3. ASSUME NEW i \in Index(g[p])
        PROVE  Child(g[p], i) = IF i <= j THEN Child(h[p], i)
                                ELSE IF i = j + 1 THEN q ELSE Child(h[p], i - 1)
    <3>1. i \in Index(Put(h[p], e))
      BY <1>2, <2>3
    <3> QED
      BY <1>1, <1>2, <1>4, <1>5, <3>1, PutKids
  <2>4. \A i \in Index(h[p]) : i \in Index(g[p]) /\ i + 1 \in Index(g[p])
    BY <1>6 DEF Index
  <2>5. CASE n = q
    <3>1. j + 1 \in Index(g[p]) /\ j \in Int /\ ~(j + 1 <= j)
      BY <1>0, <2>4 DEF Index
    <3> QED
      BY <2>1, <2>2, <2>3, <2>5, <3>1
  <2>6. CASE n # q
    <3>1. PICK m \in Inner(h) : \E i \in Index(h[m]) : Child(h[m], i) = n
      BY <1>0, <1>2, <2>6 DEF Reached
    <3>2. PICK i \in Index(h[m]) : Child(h[m], i) = n
      BY <3>1
    <3>3. CASE m = p
      <4>1. i \in Int /\ j \in Int /\ i \in Index(g[p]) /\ i + 1 \in Index(g[p])
        BY <1>0, <2>4, <3>3 DEF Index
      <4>2. CASE i <= j
        BY <2>1, <2>2, <2>3, <3>2, <3>3, <4>1, <4>2
      <4>3. CASE ~(i <= j)
        <5>1. ~(i + 1 <= j) /\ i + 1 # j + 1 /\ i + 1 - 1 = i
          BY <4>1, <4>3
        <5>2. Child(g[p], i + 1) = n
          BY <2>3, <3>2, <3>3, <4>1, <5>1
        <5> QED
          BY <2>1, <2>2, <4>1, <5>2
      <4> QED
        BY <4>2, <4>3
    <3>4. CASE m = a
      <4>1. ~h[a].isLeaf /\ Ascending(h[a])
        BY <1>1, <3>4 DEF Inner, NodeOK
      <4>2. a \in Inner(g) /\ q \in Inner(g)
        BY <1>1, <1>2, <4>1 DEF Inner
      <4>3. /\ \A x \in Index(g[a]) : Child(g[a], x) = Child(h[a], x)
            /\ \A x \in Index(g[q]) : Child(g[q], x) = Child(h[a], x + MIDDLE + 1)
            /\ \A x \in Index(h[a]) : x \in Index(g[a]) \/ x - MIDDLE - 1 \in Index(g[q])
        BY <1>1, <1>2, <4>1, HalfKids
      <4>4. CASE i \in Index(g[a])
        BY <2>1, <3>2, <3>4, <4>2, <4>3, <4>4
      <4>5. CASE i - MIDDLE - 1 \in Index(g[q])
        <5>1. i - MIDDLE - 1 + MIDDLE + 1 = i
          BY <3>2 DEF Index
        <5>2. Child(g[q], i - MIDDLE - 1) = Child(h[a], i - MIDDLE - 1 + MIDDLE + 1)
          BY <4>3, <4>5
        <5> QED
          BY <2>1, <3>2, <3>4, <4>2, <4>5, <5>1, <5>2
      <4> QED
        BY <3>2, <3>4, <4>3, <4>4, <4>5
    <3>5. CASE m # p /\ m # a
      <4>1. g[m] = h[m] /\ m \in Inner(g)
        BY <1>2, <1>3, <2>2, <3>5
      <4> QED
        BY <2>1, <3>2, <4>1
    <3> QED
      BY <3>3, <3>4, <3>5
  <2> QED
    BY <2>5, <2>6
<1> QED
  BY <1>8, <1>9, <1>10, <1>11, <1>13, <1>14 DEF Tree, g, lv, rg

-----------------------------------------------------------------------------
(* The records.                                                            *)

RecordOf(nd, e) == nd.isLeaf /\ \E i \in 1 .. numKeys(nd) : e = nd.entries[i]

LEMMA RecordsAre ==
  ASSUME NEW h, \A n \in Used(h) : h[n] \in BtNode
  PROVE  \A e : e \in Records(h) <=> \E n \in Used(h) : RecordOf(h[n], e)
<1>1. ASSUME NEW n \in Used(h), NEW e
      PROVE  e \in Range(h[n].entries) <=> \E i \in 1 .. numKeys(h[n]) : e = h[n].entries[i]
  <2>1. h[n].entries \in Seq(Entry)
    BY DEF BtNode
  <2>2. Range(h[n].entries) = {h[n].entries[i] : i \in 1 .. Len(h[n].entries)}
    BY <2>1, RangeEquality
  <2> QED
    BY <2>2 DEF numKeys
<1>2. ASSUME NEW e PROVE e \in Records(h) <=> \E n \in Used(h) : RecordOf(h[n], e)
  BY <1>1 DEF Records, RecordOf
<1> QED
  BY <1>2

LEMMA SplitRecords ==
  ASSUME NEW h, NEW r, NEW dep, NEW lev, NEW rng, NEW p, NEW a, NEW j, NEW q,
         CanSplit(h, r, dep, lev, rng, p, a, j, q)
  PROVE  Records(SplitHeap(h, p, a, q)) = Records(h)
<1> DEFINE g == SplitHeap(h, p, a, q)
<1>1. /\ a \in Used(h) /\ p \in Used(h) /\ a # p /\ a # q /\ p # q
      /\ Overfull(h[a]) /\ ~h[p].isLeaf
  BY SplitFacts
<1>2. /\ g[a] = LeftHalf(h[a]) /\ g[q] = RightHalf(h[a])
      /\ \A m \in Node : m \notin {a, p, q} => g[m] = h[m]
      /\ Used(g) = Used(h) \cup {q}
      /\ \A m \in Used(h) : g[m].isLeaf = h[m].isLeaf
      /\ g[q].isLeaf = h[a].isLeaf
  BY SplitParts
<1>3. \A n \in Used(h) : h[n] \in BtNode /\ n \in Node /\ n # q
  BY UsedNodes DEF CanSplit, Tree
<1>4. \A n \in Used(g) : g[n] \in BtNode
  BY SplitTree, UsedNodes DEF Tree
<1> HIDE DEF g
<1>5. \A e : e \in Records(h) <=> \E n \in Used(h) : RecordOf(h[n], e)
  BY <1>3, RecordsAre
<1>6. \A e : e \in Records(g) <=> \E n \in Used(g) : RecordOf(g[n], e)
  BY <1>4, RecordsAre
<1>7. ASSUME NEW e PROVE RecordOf(h[a], e) <=> RecordOf(g[a], e) \/ RecordOf(g[q], e)
  <2>1. CASE ~h[a].isLeaf
    BY <1>1, <1>2, <2>1 DEF RecordOf
  <2>2. CASE h[a].isLeaf
    <3>1. /\ MIDDLE \in 1 .. FANOUT /\ numKeys(g[a]) = MIDDLE
          /\ \A i \in 1 .. MIDDLE : g[a].entries[i] = h[a].entries[i]
          /\ numKeys(g[q]) = FANOUT + 1 - Skip(h[a])
          /\ \A i \in 1 .. FANOUT + 1 - Skip(h[a]) : g[q].entries[i] = h[a].entries[i + Skip(h[a])]
      <4>1. /\ MIDDLE \in 1 .. FANOUT /\ numKeys(LeftHalf(h[a])) = MIDDLE
            /\ \A i \in 1 .. MIDDLE : LeftHalf(h[a]).entries[i] = h[a].entries[i]
            /\ numKeys(RightHalf(h[a])) = FANOUT + 1 - Skip(h[a])
            /\ \A i \in 1 .. FANOUT + 1 - Skip(h[a]) :
                 RightHalf(h[a]).entries[i] = h[a].entries[i + Skip(h[a])]
        BY <1>1, HalfFacts
      <4> QED
        BY <1>2, <4>1
    <3>2. Skip(h[a]) = MIDDLE /\ numKeys(h[a]) = FANOUT + 1
      BY <1>1, <2>2 DEF Skip, Overfull
    <3>3. /\ g[a].isLeaf /\ g[q].isLeaf
          /\ numKeys(g[q]) = FANOUT + 1 - MIDDLE
          /\ \A i \in 1 .. FANOUT + 1 - MIDDLE : g[q].entries[i] = h[a].entries[i + MIDDLE]
      BY <1>1, <1>2, <2>2, <3>1, <3>2
    <3>4. ASSUME NEW i \in 1 .. FANOUT + 1, e = h[a].entries[i]
          PROVE  RecordOf(g[a], e) \/ RecordOf(g[q], e)
      <4>1. CASE i <= MIDDLE
        <5>1. i \in 1 .. MIDDLE
          BY <4>1
        <5> QED
          BY <3>1, <3>3, <3>4, <5>1 DEF RecordOf
      <4>2. CASE ~(i <= MIDDLE)
        <5>1. i - MIDDLE \in 1 .. FANOUT + 1 - MIDDLE /\ i - MIDDLE + MIDDLE = i
          BY <3>1, <4>2
        <5>2. g[q].entries[i - MIDDLE] = e
          BY <3>3, <3>4, <5>1
        <5> QED
          BY <3>3, <5>1, <5>2 DEF RecordOf
      <4> QED
        BY <4>1, <4>2
    <3>5. \A i \in 1 .. MIDDLE : i \in 1 .. FANOUT + 1
      BY <3>1
    <3>6. \A i \in 1 .. FANOUT + 1 - MIDDLE : i + MIDDLE \in 1 .. FANOUT + 1
      BY <3>1
    <3>7. RecordOf(g[a], e) => RecordOf(h[a], e)
      BY <2>2, <3>1, <3>2, <3>5 DEF RecordOf
    <3>8. RecordOf(g[q], e) => RecordOf(h[a], e)
      BY <2>2, <3>2, <3>3, <3>6 DEF RecordOf
    <3> QED
      BY <3>2, <3>4, <3>7, <3>8 DEF RecordOf
  <2> QED
    BY <2>1, <2>2
<1>9. ASSUME NEW e PROVE e \in Records(g) <=> e \in Records(h)
  <2>1. ~RecordOf(h[p], e) /\ ~RecordOf(g[p], e)
    BY <1>1, <1>2 DEF RecordOf
  <2>2. \A m \in Used(h) : m # a /\ m # p => g[m] = h[m]
    BY <1>2, <1>3
  <2>3. a \in Used(g) /\ q \in Used(g)
    BY <1>1, <1>2
  <2> QED
    BY <1>1, <1>2, <1>5, <1>6, <1>7, <2>1, <2>2, <2>3
<1> QED
  BY <1>9 DEF g

LEMMA PutRecords ==
  ASSUME NEW h, \A n \in Used(h) : h[n] \in BtNode, NEW n \in Used(h), h[n].isLeaf,
         Ascending(h[n]), NEW e \in Entry, NewKey(h[n], e.key), n \in Node, DOMAIN h = Node
  PROVE  Records([h EXCEPT ![n] = Put(h[n], e)]) = Records(h) \cup {e}
<1> DEFINE p == Put(h[n], e)
           g == [h EXCEPT ![n] = p]
           k == numKeys(h[n])
           f == findRecordIndex(h[n], e.key)
<1>1. /\ p \in BtNode /\ numKeys(p) = k + 1 /\ p.isLeaf
      /\ \A j \in 1 .. k + 1 : p.entries[j] = IF j <= f THEN h[n].entries[j]
                               ELSE IF j = f + 1 THEN e ELSE h[n].entries[j - 1]
  BY PutFacts
<1>2. k \in Nat /\ f \in 0 .. k
  BY NodeFacts, RecordIndex DEF Entry
<1> HIDE DEF p, k, f
<1>3. g[n] = p /\ \A m \in Node : m # n => g[m] = h[m]
  OBVIOUS
<1> HIDE DEF g
<1>4. Used(g) = Used(h) /\ \A m \in Used(h) : m \in Node
  BY <1>1, <1>3, NullAssumption DEF Used
<1>5. \A m \in Used(g) : g[m] \in BtNode
  BY <1>1, <1>3, <1>4
<1>6. \A d : d \in Records(h) <=> \E m \in Used(h) : RecordOf(h[m], d)
  BY RecordsAre
<1>7. \A d : d \in Records(g) <=> \E m \in Used(g) : RecordOf(g[m], d)
  BY <1>5, RecordsAre
<1>8. ASSUME NEW d PROVE RecordOf(p, d) <=> RecordOf(h[n], d) \/ d = e
  <2>1. ASSUME NEW i \in 1 .. k, d = h[n].entries[i] PROVE RecordOf(p, d)
    <3>1. CASE i <= f
      <4>1. i \in 1 .. k + 1 /\ p.entries[i] = d
        BY <1>1, <1>2, <2>1, <3>1
      <4> QED
        BY <1>1, <4>1 DEF RecordOf
    <3>2. CASE ~(i <= f)
      <4>1. i + 1 \in 1 .. k + 1 /\ ~(i + 1 <= f) /\ i + 1 # f + 1 /\ i + 1 - 1 = i
        BY <1>2, <3>2
      <4>2. p.entries[i + 1] = d
        BY <1>1, <2>1, <4>1
      <4> QED
        BY <1>1, <4>1, <4>2 DEF RecordOf
    <3> QED
      BY <3>1, <3>2
  <2>2. RecordOf(p, e)
    <3>1. f + 1 \in 1 .. k + 1 /\ ~(f + 1 <= f)
      BY <1>2
    <3>2. p.entries[f + 1] = e
      BY <1>1, <3>1
    <3> QED
      BY <1>1, <3>1, <3>2 DEF RecordOf
  <2>3. ASSUME NEW i \in 1 .. k + 1, d = p.entries[i] PROVE RecordOf(h[n], d) \/ d = e
    <3>1. CASE i <= f
      <4>1. i \in 1 .. k /\ d = h[n].entries[i]
        BY <1>1, <1>2, <2>3, <3>1
      <4> QED
        BY <4>1 DEF RecordOf, k
    <3>2. CASE i = f + 1
      <4>1. ~(i <= f)
        BY <1>2, <3>2
      <4> QED
        BY <1>1, <2>3, <3>2, <4>1
    <3>3. CASE i > f + 1
      <4>1. i - 1 \in 1 .. k /\ ~(i <= f) /\ i # f + 1
        BY <1>2, <3>3
      <4>2. d = h[n].entries[i - 1]
        BY <1>1, <2>3, <4>1
      <4> QED
        BY <4>1, <4>2 DEF RecordOf, k
    <3> QED
      BY <1>2, <3>1, <3>2, <3>3
  <2>4. RecordOf(p, d) => \E i \in 1 .. k + 1 : d = p.entries[i]
    BY <1>1 DEF RecordOf
  <2>5. RecordOf(h[n], d) => \E i \in 1 .. k : d = h[n].entries[i]
    BY DEF RecordOf, k
  <2> QED
    BY <2>1, <2>2, <2>3, <2>4, <2>5
<1>9. ASSUME NEW d PROVE d \in Records(g) <=> d \in Records(h) \/ d = e
  <2>1. \A m \in Used(h) : m # n => g[m] = h[m]
    BY <1>3, <1>4
  <2> QED
    BY <1>3, <1>4, <1>6, <1>7, <1>8, <2>1
<1>10. Records(g) = Records(h) \cup {e}
  BY <1>9
<1> QED
  BY <1>10 DEF g, p
=============================================================================
