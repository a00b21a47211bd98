----------------------------- MODULE QueryProof -----------------------------
(***************************************************************************)
(* The index of db_operations_light.c is a map of join values to fifos,    *)
(* and the joins on it find what they should, for any columns, tables and  *)
(* number of joins.                                                        *)
(***************************************************************************)
EXTENDS QueryProps, WellFoundedInduction, FiniteSetTheorems, SequenceTheorems, TLAPS

-----------------------------------------------------------------------------
(* Finite sets of numbers in ascending order.                              *)

LEMMA LeastNat ==
  ASSUME NEW T \in SUBSET Nat, T # {}
  PROVE  \E j \in T : \A i \in T : j <= i
<1> DEFINE R == {ss \in Nat \X Nat : ss[1] < ss[2]}
<1>1. IsWellFoundedOn(R, Nat)
  BY NatLessThanWellFounded DEF OpToRel
<1>2. ASSUME NEW i \in Nat, NEW j \in Nat, ~(<<i, j>> \in R) PROVE j <= i
  <2>1. ~(i < j)
    BY <1>2
  <2> QED BY <2>1
<1> HIDE DEF R
<1>3. PICK j \in T : \A i \in T : ~(<<i, j>> \in R)
  BY <1>1, WFMin
<1>4. \A i \in T : j <= i
  BY <1>2, <1>3
<1> QED BY <1>4

\* Sequence s has the numbers of K, each once, in order.
Enumerates(s, K) ==
  /\ s \in Seq(K)
  /\ \A k \in K : \E i \in 1 .. Len(s) : s[i] = k
  /\ \A i, j \in 1 .. Len(s) : i < j => s[i] < s[j]

LEMMA EnumExists ==
  ASSUME NEW K \in SUBSET Nat, IsFiniteSet(K)
  PROVE  \E s : Enumerates(s, K)
<1> DEFINE Bad(n) == \E A \in SUBSET K : Cardinality(A) = n /\ ~\E s : Enumerates(s, A)
           T == {n \in Nat : Bad(n)}
<1>1. SUFFICES ASSUME ~\E s : Enumerates(s, K) PROVE FALSE
  OBVIOUS
<1>2. T # {}
  <2>1. Cardinality(K) \in Nat
    BY FS_CardinalityType
  <2>2. Bad(Cardinality(K))
    BY <1>1
  <2> QED
    BY <2>1, <2>2
<1>3. PICK n \in T : \A m \in T : n <= m
  <2>1. T \in SUBSET Nat
    OBVIOUS
  <2> HIDE DEF T
  <2> QED
    BY <1>2, <2>1, LeastNat
<1>4. PICK A \in SUBSET K : Cardinality(A) = n /\ ~\E s : Enumerates(s, A)
  BY <1>3
<1>5. A # {}
  <2>1. Enumerates(<<>>, {})
    BY DEF Enumerates
  <2> QED
    BY <1>4, <2>1
<1>6. PICK k \in A : \A j \in A : k <= j
  BY <1>4, <1>5, LeastNat
<1>7. IsFiniteSet(A)
  BY FS_Subset
<1>8. n \in Nat /\ Cardinality(A \ {k}) = n - 1 /\ Cardinality(A \ {k}) \in Nat
  BY <1>4, <1>6, <1>7, FS_RemoveElement, FS_CardinalityType
<1>9. PICK s : Enumerates(s, A \ {k})
  <2>1. n - 1 \notin T
    BY <1>3, <1>8
  <2>2. A \ {k} \in SUBSET K
    OBVIOUS
  <2> QED
    BY <1>8, <2>1, <2>2
<1>10. /\ s \in Seq(A) /\ Len(s) \in Nat
       /\ \A i \in 1 .. Len(s) : s[i] \in A /\ s[i] # k
  <2>1. s \in Seq(A \ {k})
    BY <1>9 DEF Enumerates
  <2> QED
    BY <2>1
<1> DEFINE u == <<k>> \o s
<1>11. /\ u \in Seq(A) /\ Len(u) = Len(s) + 1 /\ u[1] = k
       /\ \A i \in 1 .. Len(s) : u[i + 1] = s[i]
       /\ \A i \in 2 .. Len(u) : u[i] = s[i - 1] /\ i - 1 \in 1 .. Len(s)
  BY <1>10
<1> HIDE DEF u
<1>12. \A i, j \in 1 .. Len(u) : i < j => u[i] < u[j]
  <2>1. \A i, j \in 1 .. Len(s) : i < j => s[i] < s[j]
    BY <1>9 DEF Enumerates
  <2>2. TAKE i, j \in 1 .. Len(u)
  <2>3. HAVE i < j
  <2>4. j \in 2 .. Len(u) /\ u[j] = s[j - 1] /\ j - 1 \in 1 .. Len(s) /\ u[j] \in Nat
    <3>1. j \in 2 .. Len(u)
      BY <1>10, <1>11, <2>3
    <3>2. u[j] = s[j - 1] /\ j - 1 \in 1 .. Len(s)
      BY <1>11, <3>1
    <3>3. u[j] \in A
      BY <1>10, <3>2
    <3> QED
      BY <3>1, <3>2, <3>3
  <2>5. CASE i = 1
    BY <1>6, <1>10, <1>11, <2>4, <2>5
  <2>6. CASE i # 1
    <3>1. i \in 2 .. Len(u) /\ u[i] = s[i - 1] /\ i - 1 \in 1 .. Len(s) /\ i - 1 < j - 1
      BY <1>10, <1>11, <2>3, <2>4, <2>6
    <3> QED
      BY <2>1, <2>4, <3>1
  <2> QED
    BY <2>5, <2>6
<1>13. \A a \in A : \E i \in 1 .. Len(u) : u[i] = a
  <2>1. TAKE a \in A
  <2>2. CASE a = k
    BY <1>10, <1>11, <2>2
  <2>3. CASE a # k
    <3>1. PICK i \in 1 .. Len(s) : s[i] = a
      BY <1>9, <2>3 DEF Enumerates
    <3>2. i + 1 \in 1 .. Len(u) /\ u[i + 1] = a
      BY <1>10, <1>11, <3>1
    <3> QED
      BY <3>2
  <2> QED
    BY <2>2, <2>3
<1> QED
  BY <1>4, <1>11, <1>12, <1>13 DEF Enumerates

LEMMA EnumUnique ==
  ASSUME NEW K \in SUBSET Nat, NEW s, Enumerates(s, K), NEW u, Enumerates(u, K)
  PROVE  s = u
<1>1. /\ Len(s) \in Nat /\ Len(u) \in Nat /\ s \in Seq(K) /\ u \in Seq(K)
      /\ \A i \in 1 .. Len(s) : s[i] \in K /\ s[i] \in Nat
      /\ \A i \in 1 .. Len(u) : u[i] \in K /\ u[i] \in Nat
  <2>1. s \in Seq(K) /\ u \in Seq(K)
    BY DEF Enumerates
  <2>2. ASSUME NEW a \in Seq(K)
        PROVE  Len(a) \in Nat /\ \A i \in 1 .. Len(a) : a[i] \in K
    OBVIOUS
  <2>3. \A k \in K : k \in Nat
    OBVIOUS
  <2> QED
    BY <2>1, <2>2, <2>3
<1> DEFINE Differ(i) == ~(i \in 1 .. Len(s) /\ i \in 1 .. Len(u) /\ s[i] = u[i])
           T == {i \in Nat \ {0} : (i \in 1 .. Len(s) \/ i \in 1 .. Len(u)) /\ Differ(i)}
<1>2. T = {}
  <2>1. SUFFICES ASSUME T # {} PROVE FALSE
    OBVIOUS
  <2>2. PICK i \in T : \A j \in T : i <= j
    <3>1. T \in SUBSET Nat
      OBVIOUS
    <3> HIDE DEF T
    <3> QED
      BY <2>1, <3>1, LeastNat
  <2>3. \A j \in 1 .. i - 1 : j \in 1 .. Len(s) /\ j \in 1 .. Len(u) /\ s[j] = u[j]
    BY <1>1, <2>2
  <2>4. ASSUME NEW a, NEW b, Enumerates(a, K), Enumerates(b, K), i \in 1 .. Len(a),
               Len(a) \in Nat, Len(b) \in Nat,
               \A j \in 1 .. Len(a) : a[j] \in K /\ a[j] \in Nat,
               \A j \in 1 .. Len(b) : b[j] \in K /\ b[j] \in Nat,
               \A j \in 1 .. i - 1 : j \in 1 .. Len(a) /\ j \in 1 .. Len(b) /\ a[j] = b[j]
        PROVE  i \in 1 .. Len(b) /\ b[i] <= a[i]
    <3>1. PICK m \in 1 .. Len(b) : b[m] = a[i]
      BY <2>4 DEF Enumerates
    <3>2. ~(m < i)
      <4>1. SUFFICES ASSUME m < i PROVE FALSE
        OBVIOUS
      <4>2. m \in 1 .. i - 1 /\ a[m] = a[i] /\ m \in 1 .. Len(a)
        BY <2>4, <3>1, <4>1
      <4>3. a[m] < a[i]
        BY <2>4, <4>1, <4>2 DEF Enumerates
      <4> QED
        BY <2>4, <4>2, <4>3
    <3>3. i \in 1 .. Len(b) /\ i <= m
      BY <2>4, <3>1, <3>2
    <3>4. i < m => b[i] < b[m]
      BY <2>4, <3>3 DEF Enumerates
    <3> QED
      BY <2>4, <3>1, <3>3, <3>4
  <2>5. i \in 1 .. Len(s) \/ i \in 1 .. Len(u)
    BY <2>2
  <2>6. CASE i \in 1 .. Len(s)
    <3>1. i \in 1 .. Len(u) /\ u[i] <= s[i]
      BY <1>1, <2>3, <2>4, <2>6
    <3>2. s[i] <= u[i]
      BY <1>1, <2>3, <2>4, <2>6, <3>1
    <3> QED
      BY <1>1, <2>2, <2>6, <3>1, <3>2
  <2>7. CASE i \in 1 .. Len(u)
    <3>1. i \in 1 .. Len(s)
      BY <1>1, <2>3, <2>4, <2>7
    <3> QED
      BY <2>6, <3>1
  <2> QED
    BY <2>5, <2>6, <2>7
<1>3. Len(s) = Len(u)
  <2>1. Len(s) > Len(u) => Len(s) \in T
    BY <1>1
  <2>2. Len(u) > Len(s) => Len(u) \in T
    BY <1>1
  <2> QED
    BY <1>1, <1>2, <2>1, <2>2
<1>4. \A i \in 1 .. Len(s) : s[i] = u[i]
  <2>1. TAKE i \in 1 .. Len(s)
  <2>2. i \in Nat \ {0}
    BY <1>1
  <2>3. i \notin T
    BY <1>2
  <2> QED
    BY <2>2, <2>3
<1> QED
  BY <1>1, <1>3, <1>4, SeqEqual

LEMMA AscendingIs ==
  ASSUME NEW K \in SUBSET Nat, IsFiniteSet(K)
  PROVE  /\ Enumerates(Ascending(K), K)
         /\ \A s : Enumerates(s, K) => s = Ascending(K) /\ Len(s) = Cardinality(K)
<1> DEFINE n == Cardinality(K)
           Up(s) == \A i, j \in DOMAIN s : i < j => s[i] < s[j]
<1>1. n \in Nat
  BY FS_CardinalityType
<1>2. ASSUME NEW s, Enumerates(s, K) PROVE s \in [1 .. n -> K] /\ Up(s) /\ Len(s) = n
  <2>1. s \in Seq(K) /\ Len(s) \in Nat /\ DOMAIN s = 1 .. Len(s)
    BY <1>2 DEF Enumerates
  <2>2. s \in [1 .. Len(s) -> K]
    BY <2>1
  <2>3. \A i, j \in 1 .. Len(s) : s[i] = s[j] => i = j
    <3>1. \A i \in 1 .. Len(s) : s[i] \in Nat
      <4>1. \A i \in 1 .. Len(s) : s[i] \in K
        BY <2>1
      <4> QED
        BY <4>1
    <3>2. \A i, j \in 1 .. Len(s) : i < j => s[i] < s[j]
      BY <1>2 DEF Enumerates
    <3>3. \A i, j \in 1 .. Len(s) : i = j \/ i < j \/ j < i
      BY <2>1
    <3> QED
      BY <3>1, <3>2, <3>3
  <2>4. s \in Bijection(1 .. Len(s), K)
    BY <1>2, <2>2, <2>3 DEF Enumerates, Bijection, Injection, IsInjective, Surjection
  <2>5. Len(s) = n
    BY <2>1, <2>4, FS_CountingElements DEF ExistsBijection
  <2>6. Up(s)
    BY <1>2, <2>1 DEF Enumerates
  <2> QED
    BY <2>2, <2>5, <2>6
<1>3. \E s \in [1 .. n -> K] : Up(s)
  BY <1>2, EnumExists
<1> DEFINE a == Ascending(K)
<1>4. a \in [1 .. n -> K] /\ Up(a)
  BY <1>3 DEF Ascending
<1> HIDE DEF a
<1>5. a \in Seq(K) /\ Len(a) = n /\ DOMAIN a = 1 .. n
  BY <1>1, <1>4
<1>6. \A i, j \in 1 .. n : i < j => a[i] < a[j]
  BY <1>4, <1>5
<1>7. a \in Injection(1 .. n, K)
  <2>1. \A i \in 1 .. n : a[i] \in Nat
    BY <1>4
  <2>2. \A i, j \in 1 .. n : i = j \/ i < j \/ j < i
    BY <1>1
  <2>3. \A i, j \in 1 .. n : a[i] = a[j] => i = j
    BY <1>6, <2>1, <2>2
  <2> QED
    BY <1>4, <2>3 DEF Injection, IsInjective
<1>8. a \in Surjection(1 .. n, K)
  <2>1. IsFiniteSet(1 .. n) /\ Cardinality(1 .. n) = n
    BY <1>1, FS_Interval
  <2> QED
    BY <1>7, <2>1, FS_Injection
<1>9. Enumerates(a, K)
  BY <1>5, <1>6, <1>8 DEF Enumerates, Surjection
<1> QED
  BY <1>2, <1>9, EnumUnique DEF a

LEMMA AscendingEmpty == Ascending({}) = <<>>
<1>1. Enumerates(<<>>, {})
  BY DEF Enumerates
<1> QED
  BY <1>1, AscendingIs, FS_EmptySet

\* A number greater than all others comes last.
LEMMA AscendingAdd ==
  ASSUME NEW K \in SUBSET Nat, IsFiniteSet(K), NEW m \in Nat, \A k \in K : k < m
  PROVE  Ascending(K \cup {m}) = Append(Ascending(K), m)
<1> DEFINE s == Ascending(K)
           u == Append(s, m)
<1>1. Enumerates(s, K)
  BY AscendingIs
<1> HIDE DEF s
<1>2. /\ s \in Seq(K) /\ Len(s) \in Nat
      /\ \A i \in 1 .. Len(s) : s[i] \in K
  BY <1>1 DEF Enumerates
<1>3. s \in Seq(K \cup {m})
  BY <1>2
<1>4. /\ u \in Seq(K \cup {m}) /\ Len(u) = Len(s) + 1 /\ u[Len(s) + 1] = m
      /\ \A i \in 1 .. Len(s) : u[i] = s[i]
  BY <1>2, <1>3
<1> HIDE DEF u
<1>5. \A k \in K \cup {m} : \E i \in 1 .. Len(u) : u[i] = k
  <2>1. TAKE k \in K \cup {m}
  <2>2. CASE k \in K
    <3>1. PICK i \in 1 .. Len(s) : s[i] = k
      BY <1>1, <2>2 DEF Enumerates
    <3> QED
      BY <1>2, <1>4, <3>1
  <2>3. CASE k = m
    BY <1>2, <1>4, <2>3
  <2> QED
    BY <2>2, <2>3
<1>6. \A i, j \in 1 .. Len(u) : i < j => u[i] < u[j]
  <2>1. TAKE i, j \in 1 .. Len(u)
  <2>2. HAVE i < j
  <2>3. i \in 1 .. Len(s) /\ u[i] = s[i]
    BY <1>2, <1>4, <2>2
  <2>4. CASE j \in 1 .. Len(s)
    BY <1>1, <1>4, <2>2, <2>3, <2>4 DEF Enumerates
  <2>5. CASE j = Len(s) + 1
    BY <1>2, <1>4, <2>3, <2>5
  <2> QED
    BY <1>2, <1>4, <2>4, <2>5
<1>7. Enumerates(u, K \cup {m})
  BY <1>4, <1>5, <1>6 DEF Enumerates
<1>8. IsFiniteSet(K \cup {m})
  BY FS_AddElement
<1>9. K \cup {m} \in SUBSET Nat
  OBVIOUS
<1> QED
  BY <1>7, <1>8, <1>9, AscendingIs DEF u, s

-----------------------------------------------------------------------------
(* Tables of one column.                                                   *)

LEMMA SeqFacts ==
  ASSUME NEW C, NEW p \in Seq(C)
  PROVE  /\ Len(p) \in Nat /\ DOMAIN p = 1 .. Len(p) /\ p \in [1 .. Len(p) -> C]
         /\ \A i \in 1 .. Len(p) : p[i] \in C
<1>1. Len(p) \in Nat /\ DOMAIN p = 1 .. Len(p) /\ \A i \in 1 .. Len(p) : p[i] \in C
  OBVIOUS
<1>2. p \in [1 .. Len(p) -> C]
  OBVIOUS
<1> QED
  BY <1>1, <1>2

LEMMA ListLookup ==
  ASSUME NEW K, NEW V, NEW p \in Seq([key : K, value : V]), NEW k
  PROVE  lookup(p, k) \in V \cup {NULL}
<1>1. \A i \in Cells(p, k) : p[i].value \in V
  <2>1. \A i \in DOMAIN p : p[i] \in [key : K, value : V]
    BY SeqFacts
  <2> QED
    BY <2>1 DEF Cells
<1> QED
  BY <1>1 DEF lookup

\* List u is p with value v for k, each cell of p at its place.
ListPut(p, u, k, v) ==
  /\ Len(p) <= Len(u) /\ \A i \in 1 .. Len(p) : u[i].key = p[i].key
  /\ lookup(u, k) = v
  /\ \A j : j # k => lookup(u, j) = lookup(p, j)

LEMMA ListInsert ==
  ASSUME NEW K, NEW V, NEW p \in Seq([key : K, value : V]), NEW k \in K, NEW v \in V
  PROVE  /\ stringlist_insert(p, k, v) \in Seq([key : K, value : V])
         /\ ListPut(p, stringlist_insert(p, k, v), k, v)
<1> DEFINE Cell == [key : K, value : V]
           u == stringlist_insert(p, k, v)
<1>1. Len(p) \in Nat /\ DOMAIN p = 1 .. Len(p) /\ \A i \in 1 .. Len(p) : p[i] \in Cell
  BY SeqFacts
<1>2. CASE Cells(p, k) # {}
  <2>1. u = [i \in DOMAIN p |-> IF p[i].key = k THEN [p[i] EXCEPT !.value = v] ELSE p[i]]
    BY <1>2 DEF stringlist_insert
  <2>2. \A i \in 1 .. Len(p) : /\ u[i] \in Cell /\ u[i].key = p[i].key
                               /\ u[i].value = IF p[i].key = k THEN v ELSE p[i].value
    BY <1>1, <2>1
  <2>3. u \in Seq(Cell) /\ Len(u) = Len(p) /\ DOMAIN u = 1 .. Len(p)
    <3>1. u \in [1 .. Len(p) -> Cell]
      BY <1>1, <2>1, <2>2
    <3> QED
      BY <1>1, <3>1
  <2> HIDE DEF u, Cell
  <2>4. \A j : Cells(u, j) = Cells(p, j)
    BY <1>1, <2>2, <2>3 DEF Cells
  <2>5. lookup(u, k) = v
    BY <1>1, <1>2, <2>2, <2>4 DEF lookup, Cells
  <2>6. ASSUME NEW j, j # k PROVE lookup(u, j) = lookup(p, j)
    <3>1. \A i \in Cells(p, j) : u[i].value = p[i].value
      BY <1>1, <2>2, <2>6 DEF Cells
    <3>2. Cells(u, j) = Cells(p, j)
      BY <2>4
    <3> QED
      BY <3>1, <3>2 DEF lookup
  <2> QED
    BY <1>1, <2>2, <2>3, <2>5, <2>6 DEF u, Cell, ListPut
<1>3. CASE Cells(p, k) = {}
  <2> DEFINE c == [key |-> k, value |-> v]
  <2>1. u = Append(p, c) /\ c \in Cell
    BY <1>3 DEF stringlist_insert
  <2>2. /\ u \in Seq(Cell) /\ Len(u) = Len(p) + 1 /\ DOMAIN u = 1 .. Len(p) + 1
        /\ u[Len(p) + 1] = c /\ \A i \in 1 .. Len(p) : u[i] = p[i]
    BY <1>1, <2>1
  <2>3. c.key = k /\ c.value = v
    OBVIOUS
  <2> HIDE DEF u, Cell, c
  <2>4. Cells(u, k) = {Len(p) + 1}
    BY <1>1, <1>3, <2>2, <2>3 DEF Cells
  <2>5. lookup(u, k) = v
    BY <2>2, <2>3, <2>4 DEF lookup
  <2>6. ASSUME NEW j, j # k PROVE lookup(u, j) = lookup(p, j)
    <3>1. Cells(u, j) = Cells(p, j)
      BY <1>1, <2>2, <2>3, <2>6 DEF Cells
    <3>2. \A i \in Cells(p, j) : u[i].value = p[i].value
      BY <1>1, <2>2 DEF Cells
    <3> QED
      BY <3>1, <3>2 DEF lookup
  <2> QED
    BY <1>1, <2>2, <2>5, <2>6 DEF u, Cell, ListPut
<1> QED
  BY <1>2, <1>3

\* The schema of a column, and the keys of one.
Column == {inthash_schema, stringlist_schema}
KeyOf(s) == IF s = inthash_schema THEN Nat ELSE STRING

LEMMA TableLookup ==
  ASSUME NEW s \in Column, NEW V, NEW p \in Table(s, V), NEW k \in KeyOf(s)
  PROVE  schema_lookup(s, p, k) \in V \cup {NULL}
<1>1. CASE s = inthash_schema
  <2>1. k % N \in 0 .. N - 1
    BY <1>1 DEF KeyOf, N
  <2>2. p[k % N] \in Seq([key : Nat, value : V])
    BY <1>1, <2>1 DEF Table
  <2> QED
    BY <1>1, <2>2, ListLookup DEF schema_lookup, inthash_lookup
<1>2. CASE s # inthash_schema
  BY <1>2, ListLookup DEF schema_lookup, stringlist_lookup, Table
<1> QED
  BY <1>1, <1>2

LEMMA TableInsert ==
  ASSUME NEW s \in Column, NEW V, NEW p \in Table(s, V), NEW k \in KeyOf(s), NEW v \in V
  PROVE  LET u == schema_insert(s, p, k, v)
         IN  /\ u \in Table(s, V)
             /\ schema_lookup(s, u, k) = v
             /\ \A j \in KeyOf(s) : j # k => schema_lookup(s, u, j) = schema_lookup(s, p, j)
<1> DEFINE u == schema_insert(s, p, k, v)
<1>1. CASE s = inthash_schema
  <2> DEFINE b == k % N
             q == stringlist_insert(p[b], k, v)
  <2>1. b \in 0 .. N - 1 /\ k \in Nat /\ p \in [0 .. N - 1 -> Seq([key : Nat, value : V])]
    BY <1>1 DEF KeyOf, N, Table
  <2>2. p[b] \in Seq([key : Nat, value : V])
    BY <2>1
  <2>3. /\ q \in Seq([key : Nat, value : V]) /\ lookup(q, k) = v
        /\ \A j : j # k => lookup(q, j) = lookup(p[b], j)
    <3>1. q \in Seq([key : Nat, value : V]) /\ ListPut(p[b], q, k, v)
      BY <2>1, <2>2, ListInsert
    <3> HIDE DEF q, b
    <3> QED
      BY <3>1 DEF ListPut
  <2>4. u = [p EXCEPT ![b] = q]
    BY <1>1 DEF schema_insert, inthash_insert
  <2> HIDE DEF u, q, b
  <2>5. u \in [0 .. N - 1 -> Seq([key : Nat, value : V])]
    BY <2>1, <2>3, <2>4
  <2>6. u[b] = q /\ \A c \in 0 .. N - 1 : c # b => u[c] = p[c]
    BY <2>1, <2>4
  <2>7. schema_lookup(s, u, k) = v
    BY <1>1, <2>3, <2>6 DEF schema_lookup, inthash_lookup, b
  <2>8. ASSUME NEW j \in KeyOf(s), j # k PROVE schema_lookup(s, u, j) = schema_lookup(s, p, j)
    <3>1. j % N \in 0 .. N - 1
      BY <1>1 DEF KeyOf, N
    <3>2. lookup(u[j % N], j) = lookup(p[j % N], j)
      BY <2>3, <2>6, <2>8, <3>1
    <3> QED
      BY <1>1, <3>2 DEF schema_lookup, inthash_lookup
  <2> QED
    BY <1>1, <2>5, <2>7, <2>8 DEF Table, u
<1>2. CASE s # inthash_schema
  <2>1. p \in Seq([key : STRING, value : V]) /\ k \in STRING /\ u = stringlist_insert(p, k, v)
    BY <1>2 DEF Table, KeyOf, schema_insert
  <2>2. /\ u \in Seq([key : STRING, value : V]) /\ lookup(u, k) = v
        /\ \A j : j # k => lookup(u, j) = lookup(p, j)
    <3>1. u \in Seq([key : STRING, value : V]) /\ ListPut(p, u, k, v)
      BY <2>1, ListInsert
    <3> HIDE DEF u
    <3> QED
      BY <3>1 DEF ListPut
  <2> HIDE DEF u
  <2> QED
    BY <1>2, <2>2 DEF Table, schema_lookup, stringlist_lookup, u
<1> QED
  BY <1>1, <1>2

LEMMA TableNew ==
  ASSUME NEW sch, Head(sch) \in Column, NEW V
  PROVE  /\ index_new(sch) \in Table(Head(sch), V)
         /\ \A k \in KeyOf(Head(sch)) : schema_lookup(Head(sch), index_new(sch), k) = NULL
<1>1. \A k : lookup(<<>>, k) = NULL
  BY DEF lookup, Cells
<1>2. CASE Head(sch) = inthash_schema
  <2>1. index_new(sch) = [b \in 0 .. N - 1 |-> <<>>]
    BY <1>2 DEF index_new, inthash_new
  <2>2. \A k \in Nat : k % N \in 0 .. N - 1
    BY DEF N
  <2> QED
    BY <1>1, <1>2, <2>1, <2>2 DEF Table, KeyOf, schema_lookup, inthash_lookup
<1>3. CASE Head(sch) # inthash_schema
  <2>1. index_new(sch) = <<>>
    BY <1>3 DEF index_new, stringlist_new
  <2> QED
    BY <1>1, <1>3, <2>1 DEF Table, schema_lookup, stringlist_lookup
<1> QED
  BY <1>2, <1>3

-----------------------------------------------------------------------------
(* Indexes of several columns.                                             *)

LEMMA CountUp ==
  ASSUME NEW L \in Nat, NEW S, 0 \in S, \A n \in 0 .. L - 1 : n \in S => n + 1 \in S
  PROVE  \A n \in 0 .. L : n \in S
<1>1. SUFFICES ASSUME NEW T, T = {n \in 0 .. L : n \notin S}, T # {} PROVE FALSE
  OBVIOUS
<1>2. PICK n \in T : \A m \in T : n <= m
  BY <1>1, LeastNat
<1>3. n - 1 \in 0 .. L - 1 /\ n - 1 \notin T /\ n - 1 + 1 = n
  BY <1>1, <1>2
<1> QED
  BY <1>1, <1>2, <1>3

LEMMA CountDown ==
  ASSUME NEW L \in Nat, NEW S, L \in S, \A n \in 0 .. L - 1 : n + 1 \in S => n \in S
  PROVE  \A n \in 0 .. L : n \in S
<1> DEFINE T == {d \in 0 .. L : L - d \notin S}
<1>1. SUFFICES ASSUME T # {} PROVE FALSE
  <2>1. ASSUME NEW n \in 0 .. L, n \notin S PROVE L - n \in T
    <3>1. L - n \in 0 .. L /\ L - (L - n) = n
      OBVIOUS
    <3> QED
      BY <2>1, <3>1
  <2> HIDE DEF T
  <2> QED
    BY <2>1
<1>2. PICK d \in T : \A m \in T : d <= m
  <2>1. T \in SUBSET Nat
    OBVIOUS
  <2> HIDE DEF T
  <2> QED
    BY <1>1, <2>1, LeastNat
<1>3. d # 0
  BY <1>1, <1>2
<1>4. d - 1 \in 0 .. L /\ d - 1 \notin T
  BY <1>1, <1>2, <1>3
<1>5. L - (d - 1) \in S /\ L - d \in 0 .. L - 1 /\ L - d + 1 = L - (d - 1)
  BY <1>1, <1>2, <1>3, <1>4
<1> QED
  BY <1>1, <1>2, <1>5

\* The recursions over the columns define functions.
LEMMA IndexesAre ==
  ASSUME NEW sch \in Seq(Column), NEW V
  PROVE  LET T == Indexes(sch, V)
         IN  /\ T[Len(sch)] = V
             /\ \A n \in 0 .. Len(sch) - 1 : T[n] = Table(sch[n + 1], T[n + 1])
<1> DEFINE L == Len(sch)
           Go(g, n) == IF n = L THEN V ELSE Table(sch[n + 1], g[n + 1])
           Is(g, m) == g = [n \in m .. L |-> Go(g, n)]
           S == {m \in 0 .. L : \E g : Is(g, m)}
           T == CHOOSE g : g = [n \in 0 .. L |-> Go(g, n)]
<1>1. L \in Nat
  BY SeqFacts
<1> HIDE DEF L
<1>2. L \in S
  <2> DEFINE g == [n \in L .. L |-> V]
  <2>1. Is(g, L)
    BY <1>1
  <2>2. L \in 0 .. L
    BY <1>1
  <2> HIDE DEF Is, g
  <2> QED
    BY <2>1, <2>2
<1>3. ASSUME NEW n \in 0 .. L - 1, n + 1 \in S PROVE n \in S
  <2>1. PICK g : Is(g, n + 1)
    BY <1>3
  <2> DEFINE h == [x \in n .. L |-> IF x = n THEN Go(g, n) ELSE g[x]]
  <2>2. ASSUME NEW x \in n .. L PROVE h[x] = Go(h, x)
    <3>1. CASE x = n
      <4>1. n + 1 \in n .. L /\ n + 1 # n /\ h[n + 1] = g[n + 1]
        BY <1>1
      <4>2. h[x] = Go(g, n)
        BY <3>1
      <4> HIDE DEF h
      <4> QED
        BY <3>1, <4>1, <4>2
    <3>2. CASE x # n
      <4>1. x \in n + 1 .. L /\ g[x] = Go(g, x) /\ h[x] = g[x]
        BY <1>1, <2>1, <3>2
      <4>2. x # L => x + 1 \in n .. L /\ x + 1 # n
        BY <1>1, <3>2
      <4>3. x # L => h[x + 1] = g[x + 1]
        BY <4>2
      <4> HIDE DEF h
      <4> QED
        BY <4>1, <4>3
    <3> QED
      BY <3>1, <3>2
  <2>3. Is(h, n)
    BY <2>2
  <2>4. n \in 0 .. L
    BY <1>1
  <2> HIDE DEF Is, h
  <2> QED
    BY <2>3, <2>4
<1>4. PICK g : Is(g, 0)
  <2> HIDE DEF S
  <2>1. \A n \in 0 .. L : n \in S
    BY <1>1, <1>2, <1>3, CountDown
  <2>2. 0 \in S
    BY <1>1, <2>1
  <2> QED
    BY <2>2 DEF S
<1>5. g = [n \in 0 .. L |-> Go(g, n)]
  BY <1>4
<1>6. T = [n \in 0 .. L |-> Go(T, n)]
  <2> HIDE DEF Go
  <2> QED
    BY <1>5
<1>7. Indexes(sch, V) = T
  BY DEF Indexes, L
<1> HIDE DEF T
<1>8. \A n \in 0 .. L : T[n] = Go(T, n)
  <2> HIDE DEF Go
  <2> QED
    BY <1>6
<1> QED
  BY <1>1, <1>7, <1>8 DEF L

LEMMA LookupSteps ==
  ASSUME NEW sch \in Seq(Column), NEW i, NEW k
  PROVE  LET f == tuple_lookup_method(sch, i, k)
         IN  /\ f[0] = i
             /\ \A n \in 1 .. Len(sch) :
                  f[n] = IF f[n - 1] = NULL THEN NULL ELSE schema_lookup(sch[n], f[n - 1], k[n])
<1> DEFINE L == Len(sch)
           Go(g, n) == IF n = 0 THEN i
                       ELSE IF g[n - 1] = NULL THEN NULL ELSE schema_lookup(sch[n], g[n - 1], k[n])
           Is(g, m) == g = [n \in 0 .. m |-> Go(g, n)]
           S == {m \in 0 .. L : \E g : Is(g, m)}
           f == CHOOSE g : g = [n \in 0 .. L |-> Go(g, n)]
<1>1. L \in Nat
  BY SeqFacts
<1> HIDE DEF L
<1>2. 0 \in S
  <2> DEFINE g == [n \in 0 .. 0 |-> i]
  <2>1. Is(g, 0)
    OBVIOUS
  <2>2. 0 \in 0 .. L
    BY <1>1
  <2> HIDE DEF Is, g
  <2> QED
    BY <2>1, <2>2
<1>3. ASSUME NEW n \in 0 .. L - 1, n \in S PROVE n + 1 \in S
  <2>1. PICK g : Is(g, n)
    BY <1>3
  <2> DEFINE h == [x \in 0 .. n + 1 |-> IF x = n + 1 THEN Go(g, n + 1) ELSE g[x]]
  <2>2. ASSUME NEW x \in 0 .. n + 1 PROVE h[x] = Go(h, x)
    <3>1. CASE x = n + 1
      <4>1. n + 1 - 1 = n /\ n \in 0 .. n + 1 /\ n # n + 1 /\ n + 1 # 0
        OBVIOUS
      <4>2. h[x] = Go(g, n + 1) /\ h[n] = g[n]
        BY <3>1, <4>1
      <4> HIDE DEF h
      <4> QED
        BY <3>1, <4>1, <4>2
    <3>2. CASE x # n + 1
      <4>1. x \in 0 .. n /\ g[x] = Go(g, x) /\ h[x] = g[x]
        BY <2>1, <3>2
      <4>2. x # 0 => x - 1 \in 0 .. n + 1 /\ x - 1 # n + 1
        BY <3>2
      <4>3. x # 0 => h[x - 1] = g[x - 1]
        BY <4>2
      <4> HIDE DEF h
      <4> QED
        BY <4>1, <4>3
    <3> QED
      BY <3>1, <3>2
  <2>3. Is(h, n + 1)
    BY <2>2
  <2>4. n + 1 \in 0 .. L
    BY <1>1
  <2> HIDE DEF Is, h
  <2> QED
    BY <2>3, <2>4
<1>4. PICK g : Is(g, L)
  <2> HIDE DEF S
  <2>1. \A n \in 0 .. L : n \in S
    BY <1>1, <1>2, <1>3, CountUp
  <2>2. L \in S
    BY <1>1, <2>1
  <2> QED
    BY <2>2 DEF S
<1>5. f = [n \in 0 .. L |-> Go(f, n)]
  <2> HIDE DEF Go
  <2> QED
    BY <1>4
<1>6. tuple_lookup_method(sch, i, k) = f
  BY DEF tuple_lookup_method, L
<1> HIDE DEF f
<1>7. \A n \in 0 .. L : f[n] = Go(f, n)
  <2> HIDE DEF Go
  <2> QED
    BY <1>5
<1>8. 0 \in 0 .. L /\ \A n \in 1 .. L : n \in 0 .. L /\ n # 0
  BY <1>1
<1> QED
  BY <1>6, <1>7, <1>8 DEF L

\* The index that an insertion goes through after n columns.
Through(sch, i, k, n) ==
  LET found == tuple_lookup_method(sch, i, k)
  IN  IF found[n] = NULL THEN tuple_new_method(sch, n) ELSE found[n]

LEMMA InsertSteps ==
  ASSUME NEW sch \in Seq(Column), NEW i, NEW k, NEW v
  PROVE  LET f == tuple_insert_method(sch, i, k, v)
         IN  /\ f[Len(sch)] = v
             /\ \A n \in 0 .. Len(sch) - 1 :
                  f[n] = schema_insert(sch[n + 1], Through(sch, i, k, n), k[n + 1], f[n + 1])
<1> DEFINE L == Len(sch)
           Go(g, n) == IF n = L THEN v
                       ELSE schema_insert(sch[n + 1], Through(sch, i, k, n), k[n + 1], g[n + 1])
           Is(g, m) == g = [n \in m .. L |-> Go(g, n)]
           S == {m \in 0 .. L : \E g : Is(g, m)}
           f == CHOOSE g : g = [n \in 0 .. L |-> Go(g, n)]
<1>1. L \in Nat
  BY SeqFacts
<1> HIDE DEF L
<1>2. L \in S
  <2> DEFINE g == [n \in L .. L |-> v]
  <2>1. Is(g, L)
    BY <1>1
  <2>2. L \in 0 .. L
    BY <1>1
  <2> HIDE DEF Is, g
  <2> QED
    BY <2>1, <2>2
<1>3. ASSUME NEW n \in 0 .. L - 1, n + 1 \in S PROVE n \in S
  <2>1. PICK g : Is(g, n + 1)
    BY <1>3
  <2> DEFINE h == [x \in n .. L |-> IF x = n THEN Go(g, n) ELSE g[x]]
  <2>2. ASSUME NEW x \in n .. L PROVE h[x] = Go(h, x)
    <3>1. CASE x = n
      <4>1. n + 1 \in n .. L /\ n + 1 # n /\ h[n + 1] = g[n + 1]
        BY <1>1
      <4>2. h[x] = Go(g, n)
        BY <3>1
      <4> HIDE DEF h
      <4> QED
        BY <3>1, <4>1, <4>2
    <3>2. CASE x # n
      <4>1. x \in n + 1 .. L /\ g[x] = Go(g, x) /\ h[x] = g[x]
        BY <1>1, <2>1, <3>2
      <4>2. x # L => x + 1 \in n .. L /\ x + 1 # n
        BY <1>1, <3>2
      <4>3. x # L => h[x + 1] = g[x + 1]
        BY <4>2
      <4> HIDE DEF h
      <4> QED
        BY <4>1, <4>3
    <3> QED
      BY <3>1, <3>2
  <2>3. Is(h, n)
    BY <2>2
  <2>4. n \in 0 .. L
    BY <1>1
  <2> HIDE DEF Is, h
  <2> QED
    BY <2>3, <2>4
<1>4. PICK g : Is(g, 0)
  <2> HIDE DEF S
  <2>1. \A n \in 0 .. L : n \in S
    BY <1>1, <1>2, <1>3, CountDown
  <2>2. 0 \in S
    BY <1>1, <2>1
  <2> QED
    BY <2>2 DEF S
<1>5. f = [n \in 0 .. L |-> Go(f, n)]
  <2> HIDE DEF Go
  <2> QED
    BY <1>4
<1>6. tuple_insert_method(sch, i, k, v) = f
  BY DEF tuple_insert_method, L, Through
<1> HIDE DEF f
<1>7. \A n \in 0 .. L : f[n] = Go(f, n)
  <2> HIDE DEF Go
  <2> QED
    BY <1>5
<1>8. L \in 0 .. L /\ \A n \in 0 .. L - 1 : n \in 0 .. L /\ n # L
  BY <1>1
<1> QED
  BY <1>6, <1>7, <1>8 DEF L

-----------------------------------------------------------------------------
(* An index of several columns is a map.                                   *)

IsSchema(sch) == sch \in Seq(Column) /\ Len(sch) > 0
IsKey(sch, k) == \A n \in 1 .. Len(sch) : k[n] \in KeyOf(sch[n])
NoNull(sch, V) == \A n \in 0 .. Len(sch) : NULL \notin Indexes(sch, V)[n]

LEMMA SchemaFacts ==
  ASSUME NEW sch, IsSchema(sch)
  PROVE  /\ Len(sch) \in Nat \ {0} /\ 0 \in 0 .. Len(sch) - 1 /\ Len(sch) \in 0 .. Len(sch)
         /\ \A n \in 1 .. Len(sch) : /\ sch[n] \in Column /\ n - 1 \in 0 .. Len(sch) - 1
                                     /\ n - 1 \in 0 .. Len(sch) /\ n - 1 + 1 = n
         /\ \A n \in 0 .. Len(sch) - 1 : /\ n + 1 \in 1 .. Len(sch) /\ sch[n + 1] \in Column
                                         /\ n + 1 - 1 = n /\ n \in 0 .. Len(sch)
<1>1. sch \in Seq(Column) /\ Len(sch) > 0
  BY DEF IsSchema
<1>2. Len(sch) \in Nat /\ \A n \in 1 .. Len(sch) : sch[n] \in Column
  BY <1>1, SeqFacts
<1> QED
  BY <1>1, <1>2

LEMMA LookupType ==
  ASSUME NEW sch, IsSchema(sch), NEW V, NEW i \in Indexes(sch, V)[0], NEW k, IsKey(sch, k)
  PROVE  \A n \in 0 .. Len(sch) :
           tuple_lookup_method(sch, i, k)[n] \in Indexes(sch, V)[n] \cup {NULL}
<1> DEFINE L == Len(sch)
           T == Indexes(sch, V)
           f == tuple_lookup_method(sch, i, k)
           S == {n \in 0 .. L : f[n] \in T[n] \cup {NULL}}
<1>1. /\ L \in Nat \ {0} /\ 0 \in 0 .. L
      /\ \A n \in 0 .. L - 1 : n + 1 \in 1 .. L /\ sch[n + 1] \in Column /\ n + 1 - 1 = n
  BY SchemaFacts
<1>2. \A n \in 0 .. L - 1 : T[n] = Table(sch[n + 1], T[n + 1])
  BY IndexesAre DEF IsSchema
<1>3. /\ f[0] = i
      /\ \A n \in 1 .. L :
           f[n] = IF f[n - 1] = NULL THEN NULL ELSE schema_lookup(sch[n], f[n - 1], k[n])
  BY LookupSteps DEF IsSchema
<1> HIDE DEF L, T, f
<1>4. 0 \in S
  BY <1>1, <1>3 DEF T
<1>5. ASSUME NEW n \in 0 .. L - 1, n \in S PROVE n + 1 \in S
  <2>1. n + 1 \in 0 .. L /\ n + 1 \in 1 .. L /\ n + 1 - 1 = n
    BY <1>1
  <2>2. f[n + 1] = IF f[n] = NULL THEN NULL ELSE schema_lookup(sch[n + 1], f[n], k[n + 1])
    BY <1>3, <2>1
  <2>3. CASE f[n] = NULL
    BY <2>1, <2>2, <2>3
  <2>4. CASE f[n] # NULL
    <3>1. f[n] \in Table(sch[n + 1], T[n + 1]) /\ k[n + 1] \in KeyOf(sch[n + 1])
      BY <1>2, <1>5, <2>1, <2>4 DEF IsKey, L
    <3>2. f[n + 1] \in T[n + 1] \cup {NULL}
      BY <1>1, <2>2, <2>4, <3>1, TableLookup
    <3> QED
      BY <2>1, <3>2
  <2> QED
    BY <2>3, <2>4
<1> HIDE DEF S
<1>6. \A n \in 0 .. L : n \in S
  BY <1>1, <1>4, <1>5, CountUp
<1> QED
  BY <1>6 DEF S, L, T, f

LEMMA ThroughType ==
  ASSUME NEW sch, IsSchema(sch), NEW V, NEW i \in Indexes(sch, V)[0], NEW k, IsKey(sch, k)
  PROVE  \A n \in 0 .. Len(sch) - 1 :
           /\ Through(sch, i, k, n) \in Indexes(sch, V)[n]
           /\ tuple_lookup_method(sch, i, k)[n] = NULL =>
                \A x \in KeyOf(sch[n + 1]) :
                  schema_lookup(sch[n + 1], Through(sch, i, k, n), x) = NULL
<1> DEFINE L == Len(sch)
           T == Indexes(sch, V)
           f == tuple_lookup_method(sch, i, k)
<1>1. TAKE n \in 0 .. L - 1
<1>2. n + 1 \in 1 .. L /\ sch[n + 1] \in Column /\ n \in 0 .. L /\ L \in Nat
  BY SchemaFacts
<1>3. T[n] = Table(sch[n + 1], T[n + 1])
  BY IndexesAre DEF IsSchema
<1>4. f[n] \in T[n] \cup {NULL}
  BY <1>2, LookupType
<1>5. CASE f[n] # NULL
  BY <1>4, <1>5 DEF Through
<1>6. CASE f[n] = NULL
  <2> DEFINE tail == SubSeq(sch, n + 1, L)
  <2>1. Head(tail) = sch[n + 1]
    <3>1. sch \in Seq(Column) /\ n + 1 \in 1 .. L /\ L \in Nat
      BY <1>2 DEF IsSchema
    <3>2. Len(tail) = L - n /\ tail[1] = sch[n + 1] /\ tail \in Seq(Column) /\ L - n > 0
      BY <3>1
    <3> QED
      BY <3>2
  <2>2. Through(sch, i, k, n) = index_new(tail)
    BY <1>6 DEF Through, tuple_new_method
  <2> HIDE DEF tail
  <2>3. /\ index_new(tail) \in Table(Head(tail), T[n + 1])
        /\ \A x \in KeyOf(Head(tail)) : schema_lookup(Head(tail), index_new(tail), x) = NULL
    BY <1>2, <2>1, TableNew
  <2> QED
    BY <1>3, <2>1, <2>2, <2>3
<1> QED
  BY <1>5, <1>6

LEMMA InsertType ==
  ASSUME NEW sch, IsSchema(sch), NEW V, NEW i \in Indexes(sch, V)[0], NEW k, IsKey(sch, k),
         NEW v \in V
  PROVE  \A n \in 0 .. Len(sch) : tuple_insert_method(sch, i, k, v)[n] \in Indexes(sch, V)[n]
<1> DEFINE L == Len(sch)
           T == Indexes(sch, V)
           f == tuple_insert_method(sch, i, k, v)
           S == {n \in 0 .. L : f[n] \in T[n]}
<1>1. /\ L \in Nat \ {0} /\ L \in 0 .. L
      /\ \A n \in 0 .. L - 1 : n + 1 \in 1 .. L /\ sch[n + 1] \in Column /\ n \in 0 .. L
  BY SchemaFacts
<1>2. T[L] = V /\ \A n \in 0 .. L - 1 : T[n] = Table(sch[n + 1], T[n + 1])
  BY IndexesAre DEF IsSchema
<1>3. /\ f[L] = v
      /\ \A n \in 0 .. L - 1 :
           f[n] = schema_insert(sch[n + 1], Through(sch, i, k, n), k[n + 1], f[n + 1])
  BY InsertSteps DEF IsSchema
<1>4. \A n \in 0 .. L - 1 : Through(sch, i, k, n) \in T[n]
  BY ThroughType
<1> HIDE DEF L, T, f
<1>5. L \in S
  BY <1>1, <1>2, <1>3
<1>6. ASSUME NEW n \in 0 .. L - 1, n + 1 \in S PROVE n \in S
  <2>1. /\ Through(sch, i, k, n) \in Table(sch[n + 1], T[n + 1])
        /\ k[n + 1] \in KeyOf(sch[n + 1]) /\ f[n + 1] \in T[n + 1]
    BY <1>1, <1>2, <1>4, <1>6 DEF IsKey, L
  <2>2. f[n] \in T[n]
    BY <1>1, <1>2, <1>3, <2>1, TableInsert
  <2> QED
    BY <1>1, <2>2
<1> HIDE DEF S
<1>7. \A n \in 0 .. L : n \in S
  BY <1>1, <1>5, <1>6, CountDown
<1> QED
  BY <1>7 DEF S, L, T, f

LEMMA InsertLooksUp ==
  ASSUME NEW sch, IsSchema(sch), NEW V, NoNull(sch, V), NEW i \in Indexes(sch, V)[0],
         NEW k, IsKey(sch, k), NEW v \in V, NEW j, IsKey(sch, j)
  PROVE  LET u == index_insert(sch, i, k, v)
         IN  /\ u \in Indexes(sch, V)[0]
             /\ index_lookup(sch, u, j) = IF \A n \in 1 .. Len(sch) : j[n] = k[n] THEN v
                                          ELSE index_lookup(sch, i, j)
<1> DEFINE L == Len(sch)
           T == Indexes(sch, V)
           b == tuple_insert_method(sch, i, k, v)
           u == index_insert(sch, i, k, v)
           fk == tuple_lookup_method(sch, i, k)
           fj == tuple_lookup_method(sch, i, j)
           gj == tuple_lookup_method(sch, u, j)
           Same(n) == \A m \in 1 .. n : j[m] = k[m]
           S == {n \in 0 .. L : IF Same(n) THEN gj[n] = b[n] /\ fj[n] = fk[n] ELSE gj[n] = fj[n]}
<1>1. /\ L \in Nat \ {0} /\ 0 \in 0 .. L /\ L \in 0 .. L
      /\ \A n \in 0 .. L - 1 : /\ n + 1 \in 1 .. L /\ sch[n + 1] \in Column
                               /\ n + 1 - 1 = n /\ n \in 0 .. L
  BY SchemaFacts
<1>2. T[L] = V /\ \A n \in 0 .. L - 1 : T[n] = Table(sch[n + 1], T[n + 1])
  BY IndexesAre DEF IsSchema
<1>3. /\ b[L] = v
      /\ \A n \in 0 .. L - 1 :
           b[n] = schema_insert(sch[n + 1], Through(sch, i, k, n), k[n + 1], b[n + 1])
  BY InsertSteps DEF IsSchema
<1>4. \A n \in 0 .. L : b[n] \in T[n] /\ b[n] # NULL
  BY InsertType DEF NoNull
<1>5. /\ \A n \in 0 .. L - 1 :
           /\ Through(sch, i, k, n) \in T[n]
           /\ fk[n] = NULL =>
                \A x \in KeyOf(sch[n + 1]) :
                  schema_lookup(sch[n + 1], Through(sch, i, k, n), x) = NULL
           /\ fk[n] # NULL => Through(sch, i, k, n) = fk[n]
  BY ThroughType DEF Through
<1>6. ASSUME NEW x, NEW y
      PROVE  LET f == tuple_lookup_method(sch, x, y)
             IN  /\ f[0] = x
                 /\ \A n \in 1 .. L :
                      f[n] = IF f[n - 1] = NULL THEN NULL ELSE schema_lookup(sch[n], f[n - 1], y[n])
  BY LookupSteps DEF IsSchema
<1>7. /\ gj[0] = u /\ fj[0] = i /\ fk[0] = i /\ u = b[0]
      /\ \A n \in 0 .. L - 1 :
           /\ gj[n + 1] = IF gj[n] = NULL THEN NULL ELSE schema_lookup(sch[n + 1], gj[n], j[n + 1])
           /\ fj[n + 1] = IF fj[n] = NULL THEN NULL ELSE schema_lookup(sch[n + 1], fj[n], j[n + 1])
           /\ fk[n + 1] = IF fk[n] = NULL THEN NULL ELSE schema_lookup(sch[n + 1], fk[n], k[n + 1])
  <2>1. u = b[0]
    BY DEF index_insert
  <2>2. ASSUME NEW x, NEW y, NEW n \in 0 .. L - 1
        PROVE  tuple_lookup_method(sch, x, y)[n + 1] =
                 IF tuple_lookup_method(sch, x, y)[n] = NULL THEN NULL
                 ELSE schema_lookup(sch[n + 1], tuple_lookup_method(sch, x, y)[n], y[n + 1])
    BY <1>1, <1>6
  <2> QED
    BY <1>6, <2>1, <2>2
<1> HIDE DEF L, T, b, u, fk, fj, gj
<1>8. 0 \in S
  BY <1>1, <1>7
<1>9. ASSUME NEW n \in 0 .. L - 1, n \in S PROVE n + 1 \in S
  <2>1. /\ n + 1 \in 0 .. L /\ n \in 0 .. L
        /\ sch[n + 1] \in Column /\ j[n + 1] \in KeyOf(sch[n + 1]) /\ k[n + 1] \in KeyOf(sch[n + 1])
    BY <1>1 DEF IsKey, L
  <2>2. Same(n + 1) <=> Same(n) /\ j[n + 1] = k[n + 1]
    BY <2>1
  <2>3. IF Same(n) THEN gj[n] = b[n] /\ fj[n] = fk[n] ELSE gj[n] = fj[n]
    BY <1>9
  <2> DEFINE p == Through(sch, i, k, n)
  <2>4. /\ p \in Table(sch[n + 1], T[n + 1]) /\ b[n + 1] \in T[n + 1]
        /\ b[n] = schema_insert(sch[n + 1], p, k[n + 1], b[n + 1]) /\ b[n] # NULL
    BY <1>2, <1>3, <1>4, <1>5, <2>1
  <2>5. /\ schema_lookup(sch[n + 1], b[n], k[n + 1]) = b[n + 1]
        /\ \A x \in KeyOf(sch[n + 1]) :
             x # k[n + 1] => schema_lookup(sch[n + 1], b[n], x) = schema_lookup(sch[n + 1], p, x)
    BY <2>1, <2>4, TableInsert
  <2> HIDE DEF p, Same, S
  <2>6. CASE ~Same(n)
    <3>1. gj[n + 1] = fj[n + 1]
      BY <1>7, <2>3, <2>6
    <3> QED
      BY <2>1, <2>2, <2>6, <3>1 DEF S
  <2>7. CASE Same(n) /\ j[n + 1] = k[n + 1]
    <3>1. gj[n + 1] = b[n + 1]
      BY <1>7, <2>3, <2>4, <2>5, <2>7
    <3>2. fj[n + 1] = fk[n + 1]
      BY <1>7, <2>3, <2>7
    <3> QED
      BY <2>1, <2>2, <2>7, <3>1, <3>2 DEF S
  <2>8. CASE Same(n) /\ j[n + 1] # k[n + 1]
    <3>1. gj[n + 1] = schema_lookup(sch[n + 1], p, j[n + 1])
      BY <1>7, <2>1, <2>3, <2>4, <2>5, <2>8
    <3>2. fj[n + 1] = schema_lookup(sch[n + 1], p, j[n + 1])
      BY <1>5, <1>7, <2>1, <2>3, <2>8 DEF p
    <3> QED
      BY <2>1, <2>2, <2>8, <3>1, <3>2 DEF S
  <2> QED
    BY <2>6, <2>7, <2>8
<1> HIDE DEF S
<1>10. \A n \in 0 .. L : n \in S
  BY <1>1, <1>8, <1>9, CountUp
<1>11. IF Same(L) THEN gj[L] = v ELSE gj[L] = fj[L]
  BY <1>1, <1>3, <1>10 DEF S
<1>12. u \in T[0]
  BY <1>1, <1>4, <1>7
<1> QED
  BY <1>11, <1>12 DEF L, T, u, gj, fj, index_lookup

LEMMA NewLooksUp ==
  ASSUME NEW sch, IsSchema(sch), NEW V, NEW j, IsKey(sch, j)
  PROVE  index_new(sch) \in Indexes(sch, V)[0] /\ index_lookup(sch, index_new(sch), j) = NULL
<1> DEFINE L == Len(sch)
           i == index_new(sch)
           f == tuple_lookup_method(sch, i, j)
           S == {n \in 0 .. L : n = 0 \/ f[n] = NULL}
<1>1. /\ L \in Nat \ {0} /\ 0 \in 0 .. L - 1 /\ L \in 0 .. L
      /\ \A n \in 0 .. L - 1 : /\ n + 1 \in 1 .. L /\ sch[n + 1] \in Column
                               /\ n + 1 - 1 = n /\ n + 1 \in 0 .. L
  BY SchemaFacts
<1>2. Head(sch) = sch[1] /\ sch[1] \in Column /\ j[1] \in KeyOf(sch[1])
  <2>1. sch \in Seq(Column) /\ 1 \in 1 .. L
    BY <1>1 DEF IsSchema
  <2>2. Head(sch) = sch[1]
    BY <2>1
  <2> QED
    BY <1>1, <2>1, <2>2 DEF IsKey
<1>3. i \in Table(sch[1], Indexes(sch, V)[1]) /\ schema_lookup(sch[1], i, j[1]) = NULL
  BY <1>2, TableNew
<1>4. Indexes(sch, V)[0] = Table(sch[1], Indexes(sch, V)[1])
  BY <1>1, IndexesAre DEF IsSchema
<1>5. /\ f[0] = i
      /\ \A n \in 1 .. L :
           f[n] = IF f[n - 1] = NULL THEN NULL ELSE schema_lookup(sch[n], f[n - 1], j[n])
  BY LookupSteps DEF IsSchema
<1> HIDE DEF L, i, f
<1>6. 0 \in S
  BY <1>1
<1>7. ASSUME NEW n \in 0 .. L - 1, n \in S PROVE n + 1 \in S
  <2>1. f[n + 1] = IF f[n] = NULL THEN NULL ELSE schema_lookup(sch[n + 1], f[n], j[n + 1])
    BY <1>1, <1>5
  <2>2. CASE f[n] = NULL
    BY <1>1, <2>1, <2>2
  <2>3. CASE n = 0
    <3>1. f[1] = NULL
      BY <1>3, <1>5, <2>1, <2>3
    <3> QED
      BY <1>1, <2>3, <3>1
  <2> QED
    BY <1>7, <2>2, <2>3
<1> HIDE DEF S
<1>8. \A n \in 0 .. L : n \in S
  BY <1>1, <1>6, <1>7, CountUp
<1>9. f[L] = NULL
  BY <1>1, <1>8 DEF S
<1> QED
  BY <1>3, <1>4, <1>9 DEF L, i, f, index_lookup

\* The table of the first column gets a value for the first part of the key.
LEMMA FirstColumnPut ==
  ASSUME NEW sch, IsSchema(sch), NEW V, NEW i \in Indexes(sch, V)[0], i # NULL,
         NEW k, IsKey(sch, k), NEW v \in V
  PROVE  /\ Indexes(sch, V)[0] = Table(sch[1], Indexes(sch, V)[1])
         /\ \E x \in Indexes(sch, V)[1] :
              index_insert(sch, i, k, v) = schema_insert(sch[1], i, k[1], x)
<1> DEFINE L == Len(sch)
           b == tuple_insert_method(sch, i, k, v)
<1>1. 0 \in 0 .. L - 1 /\ 1 \in 0 .. L /\ 0 + 1 = 1
  BY SchemaFacts
<1>2. b[0] = schema_insert(sch[1], Through(sch, i, k, 0), k[1], b[1])
  BY <1>1, InsertSteps DEF IsSchema
<1>3. Through(sch, i, k, 0) = i
  <2>1. tuple_lookup_method(sch, i, k)[0] = i
    BY LookupSteps DEF IsSchema
  <2> QED
    BY <2>1 DEF Through
<1>4. b[1] \in Indexes(sch, V)[1]
  BY <1>1, InsertType
<1>5. Indexes(sch, V)[0] = Table(sch[1], Indexes(sch, V)[1])
  BY <1>1, IndexesAre DEF IsSchema
<1> QED
  BY <1>2, <1>3, <1>4, <1>5 DEF index_insert

-----------------------------------------------------------------------------
(* Rows and keys.                                                          *)

LEMMA OffsetIs ==
  ASSUME NEW attrs \in Seq(Attr), \A c, d \in DOMAIN attrs : attrs[c].id = attrs[d].id => c = d,
         NEW c \in DOMAIN attrs
  PROVE  get_offset(attrs, attrs[c].id) = c - 1
<1>1. {i \in DOMAIN attrs : attrs[i].id = attrs[c].id} = {c}
  OBVIOUS
<1>2. c \in Nat
  OBVIOUS
<1> QED
  BY <1>1, <1>2 DEF get_offset

\* What a row is projected to.
ProjKey(k) == k = [n \in 1 .. Len(Schema) |-> k[n]] /\ IsKey(Schema, k)

LEMMA SchemaIs ==
  /\ IsSchema(Schema) /\ Len(Schema) = Len(InnerJoinAttrs)
  /\ DOMAIN InnerJoinAttrs = 1 .. Len(Schema) /\ DOMAIN OuterJoinAttrs = 1 .. Len(Schema)
  /\ \A n \in 1 .. Len(Schema) :
       /\ KeyOf(Schema[n]) = Dom(InnerJoinAttrs[n].domain)
       /\ KeyOf(Schema[n]) = Dom(OuterJoinAttrs[n].domain)
  /\ (Schema[1] = stringlist_schema <=> OnList)
<1> DEFINE L == Len(InnerJoinAttrs)
<1>1. /\ InnerJoinAttrs \in Seq(Attr) /\ OuterJoinAttrs \in Seq(Attr) /\ L > 0
      /\ Len(OuterJoinAttrs) = L
      /\ \A i \in DOMAIN InnerJoinAttrs : InnerJoinAttrs[i].domain = OuterJoinAttrs[i].domain
  BY AttrAssumption DEF Columns
<1>2. /\ L \in Nat /\ DOMAIN InnerJoinAttrs = 1 .. L /\ DOMAIN OuterJoinAttrs = 1 .. L
      /\ 1 \in 1 .. L /\ Head(InnerJoinAttrs) = InnerJoinAttrs[1]
      /\ \A n \in 1 .. L : InnerJoinAttrs[n] \in Attr
  BY <1>1, SeqFacts
<1>3. \A n \in 1 .. L : InnerJoinAttrs[n].domain \in {"Int", "Str"}
  BY <1>2 DEF Attr
<1>4. /\ Schema = [n \in 1 .. L |-> get_schema_aux(InnerJoinAttrs[n].domain)]
  BY <1>2 DEF Schema, get_schema
<1>5. \A n \in 1 .. L : Schema[n] = get_schema_aux(InnerJoinAttrs[n].domain)
  BY <1>4
<1>6. \A d : get_schema_aux(d) \in Column /\ (get_schema_aux(d) = inthash_schema <=> d = "Int")
  BY DEF get_schema_aux, Column, inthash_schema, stringlist_schema
<1>7. Schema \in Seq(Column) /\ Len(Schema) = L
  BY <1>2, <1>4, <1>6
<1>8. \A n \in 1 .. L : KeyOf(Schema[n]) = Dom(InnerJoinAttrs[n].domain)
  BY <1>5, <1>6 DEF KeyOf, Dom
<1>9. Schema[1] = stringlist_schema <=> OnList
  BY <1>2, <1>3, <1>5 DEF get_schema_aux, inthash_schema, stringlist_schema, OnList
<1> QED
  BY <1>1, <1>2, <1>7, <1>8, <1>9 DEF IsSchema

LEMMA ProjectionIs ==
  ASSUME NEW attrs, NEW join, NEW key, Columns(attrs, join, key),
         DOMAIN join = 1 .. Len(Schema),
         \A n \in 1 .. Len(Schema) : KeyOf(Schema[n]) = Dom(join[n].domain),
         NEW t, IsRow(t, attrs)
  PROVE  ProjKey(get_projection(attrs, t, join))
<1> DEFINE k == get_projection(attrs, t, join)
<1>1. k = [n \in 1 .. Len(Schema) |-> t[get_offset(attrs, join[n].id) + 1]]
  BY DEF get_projection
<1>2. ASSUME NEW n \in 1 .. Len(Schema) PROVE k[n] \in KeyOf(Schema[n])
  <2>1. PICK c \in DOMAIN attrs : attrs[c] = join[n]
    BY DEF Columns
  <2>2. get_offset(attrs, attrs[c].id) = c - 1 /\ c \in Nat
    BY OffsetIs DEF Columns
  <2>3. k[n] = t[c]
    BY <1>1, <2>1, <2>2
  <2>4. t[c] \in Dom(attrs[c].domain)
    BY DEF IsRow
  <2> QED
    BY <2>1, <2>3, <2>4
<1> QED
  BY <1>1, <1>2 DEF ProjKey, IsKey

LEMMA ProjKeys ==
  /\ \A t : IsRow(t, InnerAttrs) => ProjKey(InnerProj(t))
  /\ \A t : IsRow(t, OuterAttrs) => ProjKey(OuterProj(t))
<1>1. /\ Columns(OuterAttrs, OuterJoinAttrs, OuterKey)
      /\ Columns(InnerAttrs, InnerJoinAttrs, InnerKey)
  BY AttrAssumption
<1> QED
  BY <1>1, SchemaIs, ProjectionIs DEF InnerProj, OuterProj

LEMMA KeysEqual ==
  ASSUME NEW j, ProjKey(j), NEW k, ProjKey(k), \A n \in 1 .. Len(Schema) : j[n] = k[n]
  PROVE  j = k
BY DEF ProjKey

-----------------------------------------------------------------------------
(* Rows that come out of a join.                                           *)

LEMMA KeptIs ==
  /\ Kept \in SUBSET Nat /\ IsFiniteSet(Kept) /\ Enumerates(Ascending(Kept), Kept)
  /\ Len(Ascending(Kept)) = Cardinality(Kept) /\ Cardinality(Kept) \in Nat
  /\ \A t : Rest(t) = [n \in 1 .. Cardinality(Kept) |-> t[Ascending(Kept)[n]]]
<1>1. InnerAttrs \in Seq(Attr) /\ \A c, d \in DOMAIN InnerAttrs : InnerAttrs[c].id = InnerAttrs[d].id => c = d
  BY AttrAssumption DEF Columns
<1>2. DOMAIN InnerAttrs = 1 .. Len(InnerAttrs) /\ Len(InnerAttrs) \in Nat
  BY <1>1, SeqFacts
<1>3. \A x \in Kept : x \in 1 .. Len(InnerAttrs) /\ x \in Nat
  BY <1>2 DEF Kept
<1>4. Kept \in SUBSET Nat
  BY <1>3
<1>5. IsFiniteSet(Kept)
  <2> DEFINE I == 1 .. Len(InnerAttrs)
  <2>1. IsFiniteSet(I)
    BY <1>2, FS_Interval
  <2>2. Kept \in SUBSET I
    BY <1>3
  <2> HIDE DEF I
  <2> QED
    BY <2>1, <2>2, FS_Subset
<1> DEFINE a == Ascending(Kept)
<1>6. Enumerates(a, Kept) /\ Len(a) = Cardinality(Kept) /\ Cardinality(Kept) \in Nat
  BY <1>4, <1>5, AscendingIs, FS_CardinalityType
<1>7. \A n \in 1 .. Cardinality(Kept) : a[n] \in Kept
  BY <1>6, SeqFacts DEF Enumerates
<1> HIDE DEF a
<1>8. ASSUME NEW n \in 1 .. Cardinality(Kept)
      PROVE  get_offset(InnerAttrs, InnerAttrs[a[n]].id) + 1 = a[n]
  <2>1. a[n] \in DOMAIN InnerAttrs /\ a[n] \in Nat
    BY <1>2, <1>3, <1>7
  <2> QED
    BY <1>1, <2>1, OffsetIs
<1>9. \A t : Rest(t) = [n \in 1 .. Cardinality(Kept) |-> t[a[n]]]
  BY <1>8 DEF Rest, a
<1> QED
  BY <1>4, <1>5, <1>6, <1>9 DEF a

LEMMA RestTells ==
  ASSUME NEW t, IsRow(t, InnerAttrs), NEW u, IsRow(u, InnerAttrs),
         InnerProj(t) = InnerProj(u), Rest(t) = Rest(u)
  PROVE  t = u
<1>1. /\ InnerAttrs \in Seq(Attr) /\ InnerJoinAttrs \in Seq(Attr)
      /\ \A c, d \in DOMAIN InnerAttrs : InnerAttrs[c].id = InnerAttrs[d].id => c = d
      /\ \A i \in DOMAIN InnerJoinAttrs : \E c \in DOMAIN InnerAttrs : InnerAttrs[c] = InnerJoinAttrs[i]
  BY AttrAssumption DEF Columns
<1>2. ASSUME NEW c \in DOMAIN InnerAttrs PROVE t[c] = u[c]
  <2>1. CASE c \in Kept
    <3> DEFINE a == Ascending(Kept)
    <3>1. PICK n \in 1 .. Cardinality(Kept) : a[n] = c
      BY <2>1, KeptIs DEF Enumerates
    <3>2. Rest(t)[n] = t[a[n]] /\ Rest(u)[n] = u[a[n]]
      BY KeptIs
    <3> QED
      BY <3>1, <3>2
  <2>2. CASE c \notin Kept
    <3> DEFINE at == {i \in DOMAIN InnerJoinAttrs : InnerJoinAttrs[i].id = InnerAttrs[c].id}
    <3>1. at # {}
      BY <2>2 DEF Kept, get_offset
    <3>2. PICK i \in DOMAIN InnerJoinAttrs : InnerJoinAttrs[i].id = InnerAttrs[c].id
      BY <3>1
    <3>3. InnerJoinAttrs[i] = InnerAttrs[c]
      BY <1>1, <3>2
    <3>4. get_offset(InnerAttrs, InnerJoinAttrs[i].id) = c - 1 /\ c \in Nat
      BY <1>1, <3>3, OffsetIs
    <3>5. InnerProj(t)[i] = t[c] /\ InnerProj(u)[i] = u[c]
      BY <3>4 DEF InnerProj, get_projection
    <3> QED
      BY <3>5
  <2> QED
    BY <2>1, <2>2
<1> QED
  BY <1>2 DEF IsRow

LEMMA JoinedTells ==
  ASSUME NEW o, IsRow(o, OuterAttrs), NEW p, IsRow(p, OuterAttrs), NEW t, NEW u,
         Joined(o, t) = Joined(p, u)
  PROVE  o = p /\ Rest(t) = Rest(u)
<1> DEFINE L == Len(OuterAttrs)
           R == Cardinality(Kept)
           S == {o[c] : c \in 1 .. L} \cup {p[c] : c \in 1 .. L}
                  \cup {Rest(t)[n] : n \in 1 .. R} \cup {Rest(u)[n] : n \in 1 .. R}
<1>1. L \in Nat /\ DOMAIN OuterAttrs = 1 .. L
  <2>1. OuterAttrs \in Seq(Attr)
    BY AttrAssumption DEF Columns
  <2> QED
    BY <2>1, SeqFacts
<1>2. o = [c \in 1 .. L |-> o[c]] /\ p = [c \in 1 .. L |-> p[c]]
  BY <1>1 DEF IsRow
<1>3. /\ R \in Nat
      /\ Rest(t) = [n \in 1 .. R |-> Rest(t)[n]] /\ Rest(u) = [n \in 1 .. R |-> Rest(u)[n]]
  BY KeptIs
<1>4. \A c \in 1 .. L : o[c] \in S /\ p[c] \in S
  OBVIOUS
<1>5. \A n \in 1 .. R : Rest(t)[n] \in S /\ Rest(u)[n] \in S
  OBVIOUS
<1> HIDE DEF S, L, R
<1>6. o \in Seq(S) /\ p \in Seq(S) /\ Len(o) = L /\ Len(p) = L
  BY <1>1, <1>2, <1>4
<1>7. Rest(t) \in Seq(S) /\ Rest(u) \in Seq(S) /\ Len(Rest(t)) = R /\ Len(Rest(u)) = R
  <2>1. Rest(t) \in [1 .. R -> S]
    BY <1>3, <1>5
  <2>2. Rest(u) \in [1 .. R -> S]
    BY <1>3, <1>5
  <2>3. ASSUME NEW e \in [1 .. R -> S] PROVE e \in Seq(S) /\ Len(e) = R
    BY <1>3
  <2> QED
    BY <2>1, <2>2, <2>3
<1>8. o \o Rest(t) = p \o Rest(u)
  BY DEF Joined
<1>9. \A c \in 1 .. L : (o \o Rest(t))[c] = o[c] /\ (p \o Rest(u))[c] = p[c]
  BY <1>1, <1>3, <1>6, <1>7
<1>10. \A n \in 1 .. R : (o \o Rest(t))[L + n] = Rest(t)[n] /\ (p \o Rest(u))[L + n] = Rest(u)[n]
  <2>1. ASSUME NEW a \in Seq(S), NEW b \in Seq(S), NEW n \in 1 .. Len(b)
        PROVE  (a \o b)[Len(a) + n] = b[n]
    OBVIOUS
  <2> QED
    BY <1>6, <1>7, <2>1
<1>11. o = p
  BY <1>2, <1>8, <1>9
<1>12. Rest(t) = Rest(u)
  BY <1>3, <1>8, <1>10
<1> QED
  BY <1>11, <1>12

-----------------------------------------------------------------------------
(* Relations.                                                              *)

\* A list of different rows.
Relation(rel, attrs) ==
  /\ IsTable(rel, attrs)
  /\ \A i, j \in DOMAIN rel : rel[i] = rel[j] => i = j

LEMMA TableFacts ==
  ASSUME NEW data, NEW attrs, IsTable(data, attrs)
  PROVE  /\ Len(data) \in Nat /\ DOMAIN data = 1 .. Len(data)
         /\ \A i \in 1 .. Len(data) : IsRow(data[i], attrs)
<1>1. Len(data) \in Nat /\ data = [i \in 1 .. Len(data) |-> data[i]]
  BY DEF IsTable
<1>2. DOMAIN data = 1 .. Len(data)
  BY <1>1
<1> QED
  BY <1>1, <1>2 DEF IsTable

LEMMA IndexDataIs ==
  ASSUME NEW data, NEW attrs, NEW join, NEW key, Columns(attrs, join, key), IsTable(data, attrs)
  PROVE  Relation(index_data(data, key), attrs)
<1> DEFINE L == Len(data)
           K == {data[i][key + 1] : i \in DOMAIN data}
           Is(k, i) == /\ data[i][key + 1] = k
                       /\ \A j \in i + 1 .. Len(data) : data[j][key + 1] # k
           Row(k) == data[CHOOSE i \in DOMAIN data : Is(k, i)]
           a == Ascending(K)
           rel == index_data(data, key)
<1>1. L \in Nat /\ DOMAIN data = 1 .. L /\ \A i \in 1 .. L : IsRow(data[i], attrs)
  BY TableFacts
<1>2. \A i \in 1 .. L : data[i][key + 1] \in Nat
  <2>1. key + 1 \in DOMAIN attrs /\ Dom(attrs[key + 1].domain) = Nat
    BY DEF Columns, Dom
  <2> QED
    BY <1>1, <2>1 DEF IsRow
<1>3. K \in SUBSET Nat
  BY <1>1, <1>2
<1>4. IsFiniteSet(K)
  <2> DEFINE f == [i \in 1 .. L |-> data[i][key + 1]]
  <2>1. f \in Surjection(1 .. L, K)
    BY <1>1 DEF Surjection
  <2>2. ExistsSurjection(1 .. L, K)
    BY <2>1 DEF ExistsSurjection
  <2> HIDE DEF f, K, L
  <2> QED
    BY <1>1, <2>2, FS_NatSurjection
<1>5. Enumerates(a, K)
  BY <1>3, <1>4, AscendingIs
<1>6. rel = [n \in DOMAIN a |-> Row(a[n])]
  BY DEF index_data
<1>7. ASSUME NEW k \in K
      PROVE  (CHOOSE i \in DOMAIN data : Is(k, i)) \in 1 .. L /\ IsRow(Row(k), attrs) /\ Row(k)[key + 1] = k
  <2> DEFINE T == {d \in 0 .. L - 1 : data[L - d][key + 1] = k}
  <2>1. T # {}
    <3>1. PICK i \in 1 .. L : data[i][key + 1] = k
      BY <1>1, <1>7
    <3>2. L - i \in 0 .. L - 1 /\ L - (L - i) = i
      BY <1>1
    <3>3. L - i \in T
      BY <3>1, <3>2
    <3> QED
      BY <3>3
  <2>2. PICK d \in T : \A e \in T : d <= e
    <3>1. T \in SUBSET Nat
      BY <1>1
    <3> HIDE DEF T
    <3> QED
      BY <2>1, <3>1, LeastNat
  <2>3. L - d \in 1 .. L /\ data[L - d][key + 1] = k
    BY <1>1
  <2>4. ASSUME NEW j \in L - d + 1 .. L PROVE data[j][key + 1] # k
    <3>1. L - j \in 0 .. L - 1 /\ L - (L - j) = j /\ ~(d <= L - j)
      BY <1>1, <2>3
    <3>2. L - j \notin T
      BY <2>2, <3>1
    <3> QED
      BY <3>1, <3>2
  <2>5. Is(k, L - d)
    BY <2>3, <2>4
  <2>6. \E i \in DOMAIN data : Is(k, i)
    BY <1>1, <2>3, <2>5
  <2> DEFINE c == CHOOSE i \in DOMAIN data : Is(k, i)
  <2>7. c \in DOMAIN data /\ Is(k, c)
    <3> HIDE DEF Is
    <3> QED
      BY <2>6
  <2> HIDE DEF c
  <2>8. c \in 1 .. L /\ IsRow(data[c], attrs) /\ data[c][key + 1] = k
    BY <1>1, <2>7
  <2> QED
    BY <2>8 DEF c
<1> HIDE DEF Row, rel, K
<1>8. /\ Len(a) \in Nat /\ DOMAIN a = 1 .. Len(a) /\ \A n \in 1 .. Len(a) : a[n] \in K
      /\ \A i, j \in 1 .. Len(a) : i < j => a[i] < a[j]
  BY <1>5, SeqFacts DEF Enumerates
<1> HIDE DEF a
<1>9. rel = [n \in 1 .. Len(a) |-> Row(a[n])]
  BY <1>6, <1>8
<1>10. Len(rel) = Len(a) /\ \A n \in 1 .. Len(a) : rel[n] = Row(a[n])
  BY <1>8, <1>9
<1>11. rel = [n \in 1 .. Len(rel) |-> rel[n]]
  BY <1>9, <1>10
<1>12. DOMAIN rel = 1 .. Len(a)
  BY <1>9
<1>13. \A n \in 1 .. Len(a) : IsRow(rel[n], attrs) /\ rel[n][key + 1] = a[n]
  BY <1>7, <1>8, <1>10
<1>14. \A i, j \in 1 .. Len(a) : a[i] = a[j] => i = j
  <2>1. \A i \in 1 .. Len(a) : a[i] \in Nat
    BY <1>3, <1>8
  <2>2. \A i, j \in 1 .. Len(a) : i = j \/ i < j \/ j < i
    BY <1>8
  <2> QED
    BY <1>8, <2>1, <2>2
<1>15. \A i, j \in 1 .. Len(a) : rel[i] = rel[j] => i = j
  BY <1>13, <1>14
<1> QED
  BY <1>8, <1>10, <1>11, <1>12, <1>13, <1>15 DEF Relation, IsTable, rel

-----------------------------------------------------------------------------
(* The inner rows with a key.                                              *)

LEMMA InnerFacts ==
  ASSUME Relation(inner, InnerAttrs)
  PROVE  /\ Len(inner) \in Nat /\ DOMAIN inner = 1 .. Len(inner)
         /\ ToSet(inner) = {inner[i] : i \in 1 .. Len(inner)}
         /\ \A i \in 1 .. Len(inner) : /\ IsRow(inner[i], InnerAttrs) /\ inner[i] \in ToSet(inner)
                                       /\ InnerProj(inner[i]) \in Keys /\ inner[i] # NULL
         /\ \A i, j \in 1 .. Len(inner) : inner[i] = inner[j] => i = j
<1>1. /\ Len(inner) \in Nat /\ DOMAIN inner = 1 .. Len(inner)
      /\ \A i \in 1 .. Len(inner) : IsRow(inner[i], InnerAttrs)
  BY TableFacts DEF Relation
<1>2. ToSet(inner) = {inner[i] : i \in 1 .. Len(inner)}
  BY <1>1 DEF ToSet
<1>3. \A i \in 1 .. Len(inner) : inner[i] # NULL
  BY <1>1 DEF IsRow
<1> QED
  BY <1>1, <1>2, <1>3 DEF Keys, Relation

LEMMA OuterFacts ==
  ASSUME Relation(outer, OuterAttrs)
  PROVE  /\ Len(outer) \in Nat /\ DOMAIN outer = 1 .. Len(outer)
         /\ ToSet(outer) = {outer[i] : i \in 1 .. Len(outer)}
         /\ \A i \in 1 .. Len(outer) : /\ IsRow(outer[i], OuterAttrs) /\ outer[i] \in ToSet(outer)
                                       /\ OuterProj(outer[i]) \in Keys /\ outer[i] # NULL
         /\ \A i, j \in 1 .. Len(outer) : outer[i] = outer[j] => i = j
<1>1. /\ Len(outer) \in Nat /\ DOMAIN outer = 1 .. Len(outer)
      /\ \A i \in 1 .. Len(outer) : IsRow(outer[i], OuterAttrs)
  BY TableFacts DEF Relation
<1>2. ToSet(outer) = {outer[i] : i \in 1 .. Len(outer)}
  BY <1>1 DEF ToSet
<1>3. \A i \in 1 .. Len(outer) : outer[i] # NULL
  BY <1>1 DEF IsRow
<1> QED
  BY <1>1, <1>2, <1>3 DEF Keys, Relation

LEMMA KeysAre ==
  ASSUME Relation(inner, InnerAttrs), Relation(outer, OuterAttrs)
  PROVE  \A k \in Keys : ProjKey(k)
<1>1. \A t \in ToSet(inner) : IsRow(t, InnerAttrs)
  BY InnerFacts
<1>2. \A t \in ToSet(outer) : IsRow(t, OuterAttrs)
  BY OuterFacts
<1> QED
  BY <1>1, <1>2, ProjKeys DEF Keys

Matches(n, key) == {i \in 1 .. n : InnerProj(inner[i]) = key}

LEMMA WhereIs ==
  ASSUME Relation(inner, InnerAttrs), NEW n \in 0 .. Len(inner), NEW key
  PROVE  /\ Matches(n, key) \in SUBSET Nat /\ IsFiniteSet(Matches(n, key))
         /\ Where(n, key) = Ascending(Matches(n, key))
         /\ Enumerates(Where(n, key), Matches(n, key))
         /\ Len(Where(n, key)) \in Nat /\ DOMAIN Where(n, key) = 1 .. Len(Where(n, key))
         /\ \A x \in 1 .. Len(Where(n, key)) :
              /\ Where(n, key)[x] \in 1 .. n /\ Where(n, key)[x] \in 1 .. Len(inner)
              /\ InnerProj(inner[Where(n, key)[x]]) = key
<1>1. n \in Nat /\ n <= Len(inner) /\ Len(inner) \in Nat
  BY InnerFacts
<1> DEFINE M == Matches(n, key)
           I == 1 .. n
<1>2. \A x \in M : x \in I /\ x \in Nat /\ x \in 1 .. Len(inner) /\ InnerProj(inner[x]) = key
  BY <1>1 DEF Matches
<1>3. IsFiniteSet(I)
  BY <1>1, FS_Interval
<1> HIDE DEF I, M
<1>4. M \in SUBSET Nat /\ M \in SUBSET I
  BY <1>2
<1>5. IsFiniteSet(M)
  BY <1>3, <1>4, FS_Subset
<1>6. Where(n, key) = Ascending(M)
  BY DEF Where, M, Matches
<1>7. Enumerates(Where(n, key), M)
  BY <1>4, <1>5, <1>6, AscendingIs
<1>8. /\ Len(Where(n, key)) \in Nat /\ DOMAIN Where(n, key) = 1 .. Len(Where(n, key))
      /\ \A x \in 1 .. Len(Where(n, key)) : Where(n, key)[x] \in M
  BY <1>7, SeqFacts DEF Enumerates
<1> QED
  BY <1>2, <1>4, <1>5, <1>6, <1>7, <1>8 DEF M, I

LEMMA WithKeyIs ==
  ASSUME Relation(inner, InnerAttrs), NEW n \in 0 .. Len(inner), NEW key
  PROVE  LET W == WithKey(n, key)
         IN  /\ W \in Seq(ToSet(inner)) /\ Len(W) \in Nat /\ DOMAIN W = 1 .. Len(W)
             /\ \A x \in 1 .. Len(W) : W[x] \in ToSet(inner) /\ InnerProj(W[x]) = key
             /\ \A x, y \in 1 .. Len(W) : W[x] = W[y] => x = y
             /\ \A i \in 1 .. n : InnerProj(inner[i]) = key => \E x \in 1 .. Len(W) : W[x] = inner[i]
<1> DEFINE W == WithKey(n, key)
           w == Where(n, key)
<1>1. /\ Len(w) \in Nat /\ DOMAIN w = 1 .. Len(w)
      /\ \A x \in 1 .. Len(w) : w[x] \in 1 .. Len(inner) /\ InnerProj(inner[w[x]]) = key
  BY WhereIs
<1>2. /\ \A i, j \in 1 .. Len(w) : i < j => w[i] < w[j]
      /\ \A i \in Matches(n, key) : \E x \in 1 .. Len(w) : w[x] = i
  BY WhereIs DEF Enumerates
<1>3. W = [x \in 1 .. Len(w) |-> inner[w[x]]]
  BY <1>1 DEF WithKey
<1> HIDE DEF w, W
<1>4. \A i \in 1 .. Len(inner) : inner[i] \in ToSet(inner)
  BY InnerFacts
<1>5. \A x \in 1 .. Len(w) : W[x] = inner[w[x]] /\ W[x] \in ToSet(inner)
  BY <1>1, <1>3, <1>4
<1>6. W \in [1 .. Len(w) -> ToSet(inner)]
  BY <1>3, <1>5
<1>7. W \in Seq(ToSet(inner)) /\ Len(W) = Len(w) /\ DOMAIN W = 1 .. Len(w)
  BY <1>1, <1>6
<1>8. ASSUME NEW x \in 1 .. Len(w), NEW y \in 1 .. Len(w), W[x] = W[y] PROVE x = y
  <2>1. w[x] = w[y]
    BY <1>1, <1>5, <1>8, InnerFacts
  <2>2. w[x] \in 1 .. Len(inner) /\ Len(inner) \in Nat /\ Len(w) \in Nat
    BY <1>1, InnerFacts
  <2>3. ~(w[x] < w[x])
    BY <2>2
  <2>4. x < y \/ y < x \/ x = y
    BY <2>2
  <2> QED
    BY <1>2, <2>1, <2>3, <2>4
<1>9. ASSUME NEW i \in 1 .. n, InnerProj(inner[i]) = key PROVE \E x \in 1 .. Len(w) : W[x] = inner[i]
  <2>1. i \in Matches(n, key)
    BY <1>9 DEF Matches
  <2> QED
    BY <1>2, <1>5, <2>1
<1>10. \A x \in 1 .. Len(w) : InnerProj(W[x]) = key
  BY <1>1, <1>5
<1>11. /\ Len(W) \in Nat /\ DOMAIN W = 1 .. Len(W)
       /\ \A x \in 1 .. Len(W) : W[x] \in ToSet(inner) /\ InnerProj(W[x]) = key
       /\ \A x, y \in 1 .. Len(W) : W[x] = W[y] => x = y
  BY <1>1, <1>5, <1>7, <1>8, <1>10
<1>12. \A i \in 1 .. n : InnerProj(inner[i]) = key => \E x \in 1 .. Len(W) : W[x] = inner[i]
  BY <1>7, <1>9
<1> QED
  BY <1>7, <1>11, <1>12 DEF W

LEMMA WithKeyNone ==
  ASSUME NEW key
  PROVE  WithKey(0, key) = <<>>
<1>1. {i \in 1 .. 0 : InnerProj(inner[i]) = key} = {}
  OBVIOUS
<1>2. Where(0, key) = <<>>
  BY <1>1, AscendingEmpty DEF Where
<1> QED
  BY <1>2 DEF WithKey

LEMMA WithKeyNext ==
  ASSUME Relation(inner, InnerAttrs), NEW n \in 1 .. Len(inner), NEW key
  PROVE  WithKey(n, key) = IF InnerProj(inner[n]) = key THEN Append(WithKey(n - 1, key), inner[n])
                           ELSE WithKey(n - 1, key)
<1>1. n \in Nat /\ n - 1 \in 0 .. Len(inner) /\ n \in 0 .. Len(inner)
  BY InnerFacts
<1>2. CASE InnerProj(inner[n]) # key
  <2>1. Matches(n, key) = Matches(n - 1, key)
    BY <1>1, <1>2 DEF Matches
  <2> QED
    BY <1>2, <2>1 DEF WithKey, Where, Matches
<1>3. CASE InnerProj(inner[n]) = key
  <2> DEFINE M == Matches(n - 1, key)
             v == Where(n - 1, key)
             w == Where(n, key)
  <2>1. Matches(n, key) = M \cup {n}
    BY <1>1, <1>3 DEF Matches
  <2>2. \A k \in M : k < n
    BY <1>1 DEF Matches
  <2>3. M \in SUBSET Nat /\ IsFiniteSet(M) /\ v = Ascending(M) /\ v \in Seq(M) /\ Len(v) \in Nat
    BY <1>1, WhereIs DEF Enumerates
  <2>4. w = Append(v, n)
    <3>1. w = Ascending(M \cup {n})
      BY <1>1, <2>1, WhereIs
    <3> HIDE DEF M, v, w
    <3> QED
      BY <1>1, <2>2, <2>3, <3>1, AscendingAdd
  <2>5. WithKey(n - 1, key) = [x \in DOMAIN v |-> inner[v[x]]]
    BY DEF WithKey
  <2>6. WithKey(n, key) = [x \in DOMAIN w |-> inner[w[x]]]
    BY DEF WithKey
  <2> HIDE DEF M, v, w
  <2>7. /\ DOMAIN v = 1 .. Len(v) /\ DOMAIN w = 1 .. Len(v) + 1 /\ w[Len(v) + 1] = n
        /\ \A x \in 1 .. Len(v) : w[x] = v[x]
    BY <2>3, <2>4
  <2> DEFINE A == WithKey(n - 1, key)
  <2>8. A \in Seq(ToSet(inner)) /\ Len(A) = Len(v)
    <3>1. A \in Seq(ToSet(inner)) /\ DOMAIN A = 1 .. Len(A) /\ Len(A) \in Nat
      BY <1>1, WithKeyIs
    <3>2. DOMAIN A = 1 .. Len(v)
      BY <2>5, <2>7
    <3> QED
      BY <2>3, <3>1, <3>2
  <2> HIDE DEF A
  <2>9. Append(A, inner[n]) = [x \in 1 .. Len(v) + 1 |-> IF x = Len(v) + 1 THEN inner[n] ELSE A[x]]
    BY <2>3, <2>8
  <2>10. ASSUME NEW x \in 1 .. Len(v) + 1
         PROVE  inner[w[x]] = IF x = Len(v) + 1 THEN inner[n] ELSE A[x]
    <3>1. x # Len(v) + 1 => x \in 1 .. Len(v)
      BY <2>3
    <3>2. x \in 1 .. Len(v) => A[x] = inner[v[x]]
      BY <2>5, <2>7 DEF A
    <3> QED
      BY <2>7, <3>1, <3>2
  <2>11. WithKey(n, key) = Append(A, inner[n])
    BY <2>6, <2>7, <2>9, <2>10
  <2> QED
    BY <1>3, <2>11 DEF A
<1> QED
  BY <1>2, <1>3

-----------------------------------------------------------------------------
(* The inductive invariant.                                                *)

Rows == {Joined(outer[p], inner[i]) : p \in 1 .. Len(outer), i \in 1 .. Len(inner)}
Fifos == Seq(ToSet(inner))

\* The fifo of a key, or NULL.
At(key) == index_lookup(Schema, ind, key)

Types ==
  /\ Relation(inner, InnerAttrs) /\ Relation(outer, OuterAttrs)
  /\ scan \in 1 .. Len(inner) + 1
  /\ ind \in Indexes(Schema, Nat)[0]
  /\ fifo \in Seq(Fifos)
  /\ env = [j \in Join |-> env[j]]
  /\ res \in [Join -> Seq(Rows)]
  /\ opened \in [Join -> Nat]

\* Keys have fifos of their own, with rows that have the key, each once.
OwnFifos ==
  /\ \A k \in Keys : At(k) = NULL \/ At(k) \in 1 .. Len(fifo)
  /\ \A k, m \in Keys : At(k) = At(m) /\ At(k) # NULL => k = m
  /\ \A k \in Keys : \A x, y \in 1 .. Len(Found(k)) :
       /\ InnerProj(Found(k)[x]) = k
       /\ Found(k)[x] = Found(k)[y] => x = y

Unused == opened = [j \in Join |-> 0]

\* The index is built before it is used.
BuiltFirst ==
  /\ ~Built => Unused
  /\ \A j \in Join : opened[j] = 0 => env[j] = Closed /\ res[j] = <<>>
  /\ Unused => \A k \in Keys : Found(k) = WithKey(scan - 1, k)

\* Where an open join is: at its first call, or with a row of the outer
\* relation, the one before its cursor, and the fifo for it.
Fresh(e) == e = [Closed EXCEPT !.cursor = 1]
On(e, p) ==
  /\ p \in 1 .. Len(outer) /\ Lookup(p) # NULL
  /\ e = [cursor |-> p + 1, current_inner |-> Lookup(p), current_outer |-> outer[p]]
Environments ==
  \A j \in Join : env[j] = Closed \/ Fresh(env[j]) \/ \E p \in 1 .. Len(outer) : On(env[j], p)

\* The number of outer rows that the join is through with.
Done(j) == IF env[j] = Closed THEN Len(outer) ELSE env[j].cursor - 1

InOrder ==
  \A j \in Join : \A n \in DOMAIN res[j] :
    /\ \E q \in 1 .. Done(j) : Makes(q, res[j][n])
    /\ \A m \in 1 .. n : \E p, q \in 1 .. Len(outer) :
         p <= q /\ Makes(p, res[j][m]) /\ Makes(q, res[j][n])

\* The places where an inner row came out of a join, and whether it is in the index.
Outs(t) ==
  UNION {{j} \X {n \in DOMAIN res[j] :
                   \E o \in ToSet(outer) : OuterProj(o) = InnerProj(t) /\ res[j][n] = Joined(o, t)} :
         j \in Join}
Here(t) == \E x \in 1 .. Len(Found(InnerProj(t))) : Found(InnerProj(t))[x] = t

\* An inner row in the index came out of no join, and none came out twice.
Once ==
  \A t \in ToSet(inner) :
    /\ Here(t) => Outs(t) = {}
    /\ \A x, y \in Outs(t) : x = y

\* What the join still makes of its outer row.
Making(o, rows) == [x \in DOMAIN rows |-> Joined(o, rows[x])]
Pending(j) ==
  IF \E p \in 1 .. Len(outer) : On(env[j], p)
  THEN Making(env[j].current_outer, fifo[env[j].current_inner]) ELSE <<>>

\* What the code makes of the outer row at p: all rows, or none if an earlier outer
\* row has its join values.
RowsOf(p) ==
  IF \E q \in 1 .. p - 1 : OuterProj(outer[q]) = OuterProj(outer[p]) THEN <<>> ELSE AllOf(p)
Made(n) == FlattenSeq([p \in 1 .. n |-> RowsOf(p)])
Seen(n, k) == \E q \in 1 .. n : OuterProj(outer[q]) = k
Alone(j) == opened[j] = 1 /\ \A k \in Join \ {j} : opened[k] = 0

\* A join that has the index to itself has made all rows of the outer rows that
\* it is through with, and has taken nothing else.
TakesAll ==
  \A j \in Join : Alone(j) =>
    /\ res[j] \o Pending(j) = Made(Done(j))
    /\ \A k \in Keys :
         IF Seen(Done(j), k) THEN Found(k) = <<>> \/ \E p \in 1 .. Len(outer) : On(env[j], p) /\ k = OuterProj(outer[p])
         ELSE Found(k) = WithKey(Len(inner), k)

IInv == Types /\ OwnFifos /\ BuiltFirst /\ Environments /\ InOrder /\ Once /\ TakesAll

-----------------------------------------------------------------------------
(* First the facts that hold whatever the step is.                         *)

\* Relations do not change.
LEMMA SameRelations ==
  ASSUME inner' = inner, outer' = outer
  PROVE  /\ Keys' = Keys /\ Rows' = Rows /\ Fifos' = Fifos
         /\ (Relation(inner, InnerAttrs))' <=> Relation(inner, InnerAttrs)
         /\ (Relation(outer, OuterAttrs))' <=> Relation(outer, OuterAttrs)
         /\ \A n, k : WithKey(n, k)' = WithKey(n, k)
         /\ \A p, r : Makes(p, r)' <=> Makes(p, r)
         /\ \A n, k : Seen(n, k)' <=> Seen(n, k)
         /\ \A p : RowsOf(p)' = RowsOf(p)
         /\ \A n : Made(n)' = Made(n)
<1>1. Keys' = Keys
  BY DEF Keys
<1>2. Rows' = Rows /\ Fifos' = Fifos
  BY DEF Rows, Fifos
<1>3. /\ (Relation(inner, InnerAttrs))' <=> Relation(inner, InnerAttrs)
      /\ (Relation(outer, OuterAttrs))' <=> Relation(outer, OuterAttrs)
  OBVIOUS
<1>4. ASSUME NEW n, NEW k PROVE WithKey(n, k)' = WithKey(n, k)
  BY DEF WithKey, Where
<1>5. ASSUME NEW p, NEW r PROVE Makes(p, r)' <=> Makes(p, r)
  BY DEF Makes
<1>6. ASSUME NEW n, NEW k PROVE Seen(n, k)' <=> Seen(n, k)
  BY DEF Seen
<1>7. ASSUME NEW p PROVE RowsOf(p)' = RowsOf(p)
  BY <1>4 DEF RowsOf, AllOf
<1>8. ASSUME NEW n PROVE Made(n)' = Made(n)
  BY <1>7 DEF Made
<1> QED
  BY <1>1, <1>2, <1>3, <1>4, <1>5, <1>6, <1>7, <1>8

LEMMA NoNulls == NULL \notin Nat /\ NoNull(Schema, Nat)
<1>1. ASSUME NEW n \in 0 .. Len(Schema) PROVE NULL \notin Indexes(Schema, Nat)[n]
  <2>1. CASE n = Len(Schema)
    BY <2>1, SchemaIs, IndexesAre, NullAssumption DEF IsSchema
  <2>2. CASE n # Len(Schema)
    <3>1. Len(Schema) \in Nat /\ DOMAIN Schema = 1 .. Len(Schema)
      BY SchemaIs, SeqFacts DEF IsSchema
    <3>2. n + 1 \in 1 .. Len(Schema) /\ n + 1 - 1 = n
      <4> DEFINE L == Len(Schema)
      <4>1. L \in Nat /\ n \in 0 .. L /\ n # L
        BY <2>2, <3>1
      <4> HIDE DEF L
      <4>2. n + 1 \in 1 .. L /\ n + 1 - 1 = n
        BY <4>1
      <4> QED
        BY <4>2 DEF L
    <3> QED
      BY <3>1, <3>2, NullAssumption
  <2> QED
    BY <2>1, <2>2
<1> QED
  BY <1>1, NullAssumption DEF NoNull

LEMMA BuiltIs ==
  ASSUME Types
  PROVE  /\ Len(inner) \in Nat /\ Len(outer) \in Nat
         /\ Built <=> scan = Len(inner) + 1
         /\ ~Built => scan \in 1 .. Len(inner) /\ seq_scan_next(inner, scan) = inner[scan]
<1>1. /\ Len(inner) \in Nat /\ DOMAIN inner = 1 .. Len(inner) /\ scan \in 1 .. Len(inner) + 1
      /\ Len(outer) \in Nat /\ \A i \in 1 .. Len(inner) : inner[i] # NULL
  BY InnerFacts, OuterFacts DEF Types
<1>2. CASE scan = Len(inner) + 1
  BY <1>1, <1>2 DEF Built, seq_scan_next
<1>3. CASE scan \in 1 .. Len(inner)
  BY <1>1, <1>3 DEF Built, seq_scan_next
<1> QED
  BY <1>1, <1>2, <1>3

LEMMA FoundIs ==
  ASSUME Types, OwnFifos, NEW k \in Keys
  PROVE  /\ IsKey(Schema, k) /\ ProjKey(k)
         /\ Found(k) \in Fifos /\ Len(Found(k)) \in Nat /\ DOMAIN Found(k) = 1 .. Len(Found(k))
         /\ \A x \in 1 .. Len(Found(k)) : Found(k)[x] \in ToSet(inner)
         /\ (At(k) = NULL /\ Found(k) = <<>>)
            \/ (At(k) # NULL /\ At(k) \in 1 .. Len(fifo) /\ Found(k) = fifo[At(k)])
         /\ Len(fifo) \in Nat /\ DOMAIN fifo = 1 .. Len(fifo)
<1>1. IsKey(Schema, k) /\ ProjKey(k)
  BY KeysAre DEF Types, ProjKey
<1>2. fifo \in Seq(Fifos)
  BY DEF Types
<1>3. /\ Len(fifo) \in Nat /\ DOMAIN fifo = 1 .. Len(fifo)
      /\ \A i \in 1 .. Len(fifo) : fifo[i] \in Fifos
  BY <1>2, SeqFacts
<1>4. \/ At(k) = NULL /\ Found(k) = <<>>
      \/ At(k) # NULL /\ At(k) \in 1 .. Len(fifo) /\ Found(k) = fifo[At(k)]
  BY DEF OwnFifos, At, Found
<1>5. Found(k) \in Fifos
  <2>1. <<>> \in Fifos
    BY DEF Fifos
  <2> QED
    BY <1>3, <1>4, <2>1
<1>6. Found(k) \in Seq(ToSet(inner))
  BY <1>5 DEF Fifos
<1>7. /\ Len(Found(k)) \in Nat /\ DOMAIN Found(k) = 1 .. Len(Found(k))
      /\ \A x \in 1 .. Len(Found(k)) : Found(k)[x] \in ToSet(inner)
  BY <1>6, SeqFacts
<1> QED
  BY <1>1, <1>3, <1>4, <1>5, <1>7

LEMMA InitInv == Init => IInv
<1> SUFFICES ASSUME Init PROVE IInv
  OBVIOUS
<1>1. Relation(inner, InnerAttrs) /\ Relation(outer, OuterAttrs)
  <2>1. PICK d \in OuterData, c \in InnerData :
          outer = index_data(d, OuterKey) /\ inner = index_data(c, InnerKey)
    BY DEF Init
  <2>2. Relation(index_data(d, OuterKey), OuterAttrs)
    BY IndexDataIs, AttrAssumption, DataAssumption
  <2>3. Relation(index_data(c, InnerKey), InnerAttrs)
    BY IndexDataIs, AttrAssumption, DataAssumption
  <2> QED
    BY <2>1, <2>2, <2>3
<1>2. \A k \in Keys : ProjKey(k)
  BY <1>1, KeysAre
<1>3. ind \in Indexes(Schema, Nat)[0] /\ \A k \in Keys : At(k) = NULL
  <2>1. IsSchema(Schema) /\ ind = index_new(Schema)
    BY SchemaIs DEF Init
  <2>2. Head(Schema) = Schema[1] /\ Schema[1] \in Column
    BY <2>1, SchemaFacts DEF IsSchema
  <2>3. index_new(Schema) \in Indexes(Schema, Nat)[0]
    <3>1. Indexes(Schema, Nat)[0] = Table(Schema[1], Indexes(Schema, Nat)[1])
      <4>1. 0 \in 0 .. Len(Schema) - 1 /\ 0 + 1 = 1
        BY <2>1, SchemaFacts
      <4>2. Schema \in Seq(Column)
        BY <2>1 DEF IsSchema
      <4> QED
        BY <4>1, <4>2, IndexesAre
    <3> QED
      BY <2>2, <3>1, TableNew
  <2>4. ASSUME NEW k \in Keys PROVE index_lookup(Schema, index_new(Schema), k) = NULL
    <3>1. IsKey(Schema, k)
      BY <1>2 DEF ProjKey
    <3> QED
      BY <2>1, <3>1, NewLooksUp
  <2> QED
    BY <2>1, <2>3, <2>4 DEF At
<1>4. \A k \in Keys : Found(k) = <<>>
  BY <1>3 DEF Found, At
<1>5. Types
  <2>1. scan \in 1 .. Len(inner) + 1
    BY <1>1, InnerFacts DEF Init, seq_scan_init
  <2>2. res \in [Join -> Seq(Rows)] /\ opened \in [Join -> Nat] /\ fifo \in Seq(Fifos)
    BY DEF Init, fifo_new
  <2>3. env = [j \in Join |-> env[j]]
    BY DEF Init
  <2> QED
    BY <1>1, <1>3, <2>1, <2>2, <2>3 DEF Types
<1>6. OwnFifos
  BY <1>3, <1>4 DEF OwnFifos
<1>7. \A j \in Join : opened[j] = 0 /\ env[j] = Closed /\ res[j] = <<>>
  BY DEF Init, fifo_new
<1>8. BuiltFirst
  <2>1. scan - 1 = 0
    BY DEF Init, seq_scan_init
  <2>2. \A k \in Keys : Found(k) = WithKey(scan - 1, k)
    BY <1>4, <2>1, WithKeyNone
  <2> QED
    BY <1>7, <2>2 DEF BuiltFirst, Unused, Init
<1>9. Environments /\ InOrder /\ TakesAll
  BY <1>7 DEF Environments, InOrder, TakesAll, Alone
<1>10. Once
  <2>1. \A t : Outs(t) = {}
    BY <1>7 DEF Outs
  <2> QED
    BY <2>1 DEF Once
<1> QED
  BY <1>5, <1>6, <1>8, <1>9, <1>10 DEF IInv

-----------------------------------------------------------------------------
(* The index scan.                                                         *)

\* What a turn of index_scan does to the index and to the fifos.
LEMMA ScanStep ==
  ASSUME Types, OwnFifos, index_scan
  PROVE  /\ scan \in 1 .. Len(inner) /\ InnerProj(inner[scan]) \in Keys
         /\ ind' \in Indexes(Schema, Nat)[0] /\ fifo' \in Seq(Fifos)
         /\ \A k \in Keys :
              /\ At(k)' = NULL \/ At(k)' \in 1 .. Len(fifo')
              /\ Found(k)' = IF k = InnerProj(inner[scan]) THEN Append(Found(k), inner[scan]) ELSE Found(k)
              /\ \A m \in Keys : At(k)' = At(m)' /\ At(k)' # NULL => k = m
<1> DEFINE t == inner[scan]
           K == InnerProj(t)
           l == IF At(K) = NULL THEN Len(fifo) + 1 ELSE At(K)
<1>1. /\ scan \in 1 .. Len(inner) /\ seq_scan_next(inner, scan) = t
      /\ t \in ToSet(inner) /\ K \in Keys
  BY BuiltIs, InnerFacts DEF Types, index_scan
<1>2. /\ Len(fifo) \in Nat /\ DOMAIN fifo = 1 .. Len(fifo) /\ fifo \in Seq(Fifos)
      /\ \A i \in 1 .. Len(fifo) : fifo[i] \in Fifos
  BY SeqFacts DEF Types
<1>3. /\ fifo' = IF At(K) = NULL THEN Append(fifo, fifo_put(fifo_new, t))
                 ELSE [fifo EXCEPT ![l] = fifo_put(@, t)]
      /\ ind' = index_insert(Schema, ind, K, l)
  BY <1>1 DEF index_scan, At
<1> HIDE DEF t, K
<1>4. /\ At(K) = NULL \/ (At(K) # NULL /\ At(K) \in 1 .. Len(fifo))
      /\ \A k \in Keys : (At(k) = NULL \/ At(k) \in 1 .. Len(fifo))
  BY <1>1 DEF OwnFifos
<1>5. l \in Nat /\ l # NULL /\ (\A k \in Keys : k # K => At(k) # l)
  <2>1. l \in Nat
    BY <1>2, <1>4
  <2>2. ASSUME NEW k \in Keys, k # K PROVE At(k) # l
    <3>1. CASE At(K) = NULL
      <4>1. l = Len(fifo) + 1 /\ l \notin 1 .. Len(fifo) /\ l # NULL
        BY <1>2, <2>1, <3>1, NoNulls
      <4> QED
        BY <1>4, <4>1
    <3>2. CASE At(K) # NULL
      BY <1>1, <2>2, <3>2 DEF OwnFifos
    <3> QED
      BY <3>1, <3>2
  <2> QED
    BY <2>1, <2>2, NoNulls
<1> HIDE DEF l
<1>6. ind' \in Indexes(Schema, Nat)[0] /\ \A k \in Keys : At(k)' = IF k = K THEN l ELSE At(k)
  <2>1. ind \in Indexes(Schema, Nat)[0] /\ \A k \in Keys : ProjKey(k)
    BY KeysAre DEF Types
  <2>2. IsSchema(Schema) /\ NoNull(Schema, Nat)
    BY SchemaIs, NoNulls
  <2>3. ASSUME NEW k \in Keys
        PROVE  /\ ind' \in Indexes(Schema, Nat)[0]
               /\ At(k)' = IF k = K THEN l ELSE At(k)
    <3>1. IsKey(Schema, k) /\ IsKey(Schema, K) /\ ProjKey(k) /\ ProjKey(K)
      BY <1>1, <2>1 DEF ProjKey
    <3>2. /\ ind' \in Indexes(Schema, Nat)[0]
          /\ index_lookup(Schema, ind', k) = IF \A n \in 1 .. Len(Schema) : k[n] = K[n] THEN l
                                             ELSE index_lookup(Schema, ind, k)
      BY <1>3, <1>5, <2>1, <2>2, <3>1, InsertLooksUp
    <3>3. (\A n \in 1 .. Len(Schema) : k[n] = K[n]) <=> k = K
      BY <3>1, KeysEqual
    <3> QED
      BY <3>2, <3>3 DEF At
  <2> QED
    BY <1>1, <2>3
<1>7. t \in ToSet(inner) /\ <<t>> \in Fifos /\ \A f \in Fifos : Append(f, t) \in Fifos
  BY <1>1 DEF Fifos
<1>8. /\ fifo' \in Seq(Fifos) /\ Len(fifo') \in Nat /\ Len(fifo') >= Len(fifo)
      /\ l \in 1 .. Len(fifo')
      /\ \A i \in 1 .. Len(fifo) : i # l => fifo'[i] = fifo[i]
      /\ fifo'[l] = IF At(K) = NULL THEN <<t>> ELSE Append(fifo[l], t)
  <2>1. CASE At(K) = NULL
    <3>1. l = Len(fifo) + 1 /\ fifo' = Append(fifo, <<t>>)
      BY <1>3, <2>1 DEF l, fifo_put, fifo_new
    <3>2. fifo' \in Seq(Fifos) /\ Len(fifo') = Len(fifo) + 1
      BY <1>2, <1>7, <3>1
    <3>3. /\ fifo'[l] = <<t>>
          /\ \A i \in 1 .. Len(fifo) : fifo'[i] = fifo[i]
      BY <1>2, <1>7, <3>1
    <3> QED
      BY <1>2, <2>1, <3>1, <3>2, <3>3
  <2>2. CASE At(K) # NULL
    <3>1. l \in 1 .. Len(fifo) /\ fifo' = [fifo EXCEPT ![l] = Append(@, t)]
      BY <1>3, <1>4, <2>2 DEF l, fifo_put
    <3>2. Append(fifo[l], t) \in Fifos
      BY <1>2, <1>7, <3>1
    <3>3. fifo' \in Seq(Fifos) /\ Len(fifo') = Len(fifo)
      BY <1>2, <3>1, <3>2
    <3>4. /\ fifo'[l] = Append(fifo[l], t)
          /\ \A i \in 1 .. Len(fifo) : i # l => fifo'[i] = fifo[i]
      BY <1>2, <3>1
    <3> QED
      BY <1>2, <2>2, <3>1, <3>3, <3>4
  <2> QED
    BY <2>1, <2>2
<1>9. ASSUME NEW k \in Keys
      PROVE  /\ At(k)' = NULL \/ At(k)' \in 1 .. Len(fifo')
             /\ Found(k)' = IF k = K THEN Append(Found(k), t) ELSE Found(k)
  <2>1. Found(k) = IF At(k) = NULL THEN <<>> ELSE fifo[At(k)]
    BY DEF Found, At
  <2>2. Found(k)' = IF At(k)' = NULL THEN <<>> ELSE fifo'[At(k)']
    BY DEF Found, At
  <2>3. CASE k = K
    <3>1. At(k)' = l
      BY <1>6, <2>3
    <3>2. Found(k)' = fifo'[l]
      BY <1>5, <2>2, <3>1
    <3>3. CASE At(k) = NULL
      BY <1>8, <2>1, <2>3, <3>1, <3>2, <3>3
    <3>4. CASE At(k) # NULL
      <4>1. l = At(k)
        BY <2>3, <3>4 DEF l
      <4> QED
        BY <1>8, <2>1, <2>3, <3>1, <3>2, <3>4, <4>1
    <3> QED
      BY <3>3, <3>4
  <2>4. CASE k # K
    <3>1. At(k)' = At(k)
      BY <1>6, <2>4
    <3>2. CASE At(k) = NULL
      BY <2>1, <2>2, <2>4, <3>1, <3>2
    <3>3. CASE At(k) # NULL
      <4>1. At(k) \in 1 .. Len(fifo) /\ At(k) # l
        BY <1>4, <1>5, <2>4, <3>3
      <4>2. fifo'[At(k)] = fifo[At(k)] /\ At(k) \in 1 .. Len(fifo')
        BY <1>2, <1>8, <4>1
      <4> QED
        BY <2>1, <2>2, <2>4, <3>1, <3>3, <4>2
    <3> QED
      BY <3>2, <3>3
  <2> QED
    BY <2>3, <2>4
<1>10. ASSUME NEW k \in Keys, NEW m \in Keys, At(k)' = At(m)', At(k)' # NULL PROVE k = m
  <2>1. At(k)' = (IF k = K THEN l ELSE At(k)) /\ At(m)' = (IF m = K THEN l ELSE At(m))
    BY <1>6
  <2>2. CASE k # K /\ m # K
    BY <1>10, <2>1, <2>2 DEF OwnFifos
  <2>3. CASE k = K /\ m # K
    BY <1>5, <1>10, <2>1, <2>3
  <2>4. CASE k # K /\ m = K
    BY <1>5, <1>10, <2>1, <2>4
  <2> QED
    BY <2>2, <2>3, <2>4
<1> QED
  BY <1>1, <1>6, <1>8, <1>9, <1>10 DEF t, K

LEMMA ScanInv ==
  ASSUME IInv, index_scan
  PROVE  IInv'
<1> USE DEF IInv
<1> DEFINE n == scan
           t == inner[scan]
<1>1. /\ scan' = scan + 1 /\ inner' = inner /\ outer' = outer
      /\ env' = env /\ res' = res /\ opened' = opened
  BY DEF index_scan
<1>2. /\ n \in 1 .. Len(inner) /\ Len(inner) \in Nat /\ n \in Nat /\ n \in 0 .. Len(inner)
      /\ Relation(inner, InnerAttrs)
  BY ScanStep, InnerFacts DEF Types
<1>3. Unused /\ \A j \in Join : opened[j] = 0 /\ env[j] = Closed /\ res[j] = <<>>
  <2>1. Unused
    BY DEF BuiltFirst, index_scan
  <2> QED
    BY <2>1 DEF BuiltFirst, Unused
<1>4. ASSUME NEW k \in Keys PROVE Found(k)' = WithKey(n, k)
  <2>1. Found(k) = WithKey(n - 1, k)
    BY <1>3 DEF BuiltFirst
  <2>2. Found(k)' = IF k = InnerProj(t) THEN Append(Found(k), t) ELSE Found(k)
    BY ScanStep
  <2>3. WithKey(n, k) = IF InnerProj(t) = k THEN Append(WithKey(n - 1, k), t) ELSE WithKey(n - 1, k)
    BY <1>2, WithKeyNext
  <2> HIDE DEF n, t
  <2> QED
    BY <2>1, <2>2, <2>3
<1>5. Keys' = Keys /\ Rows' = Rows /\ Fifos' = Fifos
  BY <1>1, SameRelations
<1>6. Types'
  <2>1. (Relation(inner, InnerAttrs))' /\ (Relation(outer, OuterAttrs))'
    BY <1>1, SameRelations DEF Types
  <2>2. scan' \in 1 .. Len(inner') + 1
    BY <1>1, <1>2
  <2>3. ind' \in Indexes(Schema, Nat)[0] /\ fifo' \in Seq(Fifos')
    BY <1>5, ScanStep
  <2>4. env' = [j \in Join |-> env'[j]] /\ res' \in [Join -> Seq(Rows')] /\ opened' \in [Join -> Nat]
    BY <1>1, <1>5 DEF Types
  <2> QED
    BY <2>1, <2>2, <2>3, <2>4 DEF Types
<1>7. OwnFifos'
  <2>1. \A k \in Keys : /\ At(k)' = NULL \/ At(k)' \in 1 .. Len(fifo')
                        /\ \A m \in Keys : At(k)' = At(m)' /\ At(k)' # NULL => k = m
    BY ScanStep
  <2>2. ASSUME NEW k \in Keys
        PROVE  \A x, y \in 1 .. Len(Found(k)') : /\ InnerProj(Found(k)'[x]) = k
                                                 /\ Found(k)'[x] = Found(k)'[y] => x = y
    BY <1>2, <1>4, WithKeyIs
  <2> QED
    BY <1>5, <2>1, <2>2 DEF OwnFifos
<1>8. Unused'
  BY <1>1, <1>3 DEF Unused
<1>9. BuiltFirst'
  <2>1. ASSUME NEW k \in Keys PROVE Found(k)' = WithKey(scan - 1, k)'
    <3>1. scan' - 1 = n
      BY <1>1, <1>2
    <3>2. WithKey(scan - 1, k)' = WithKey(n, k)
      BY <1>1, <3>1 DEF WithKey, Where
    <3> QED
      BY <1>4, <3>2
  <2>2. \A j \in Join : env'[j] = Closed /\ res'[j] = <<>>
    BY <1>1, <1>3
  <2> QED
    BY <1>5, <1>8, <2>1, <2>2 DEF BuiltFirst
<1>10. Environments' /\ InOrder' /\ TakesAll'
  BY <1>1, <1>3 DEF Environments, InOrder, TakesAll, Alone
<1>11. Once'
  <2>1. \A u : Outs(u)' = {}
    BY <1>1, <1>3 DEF Outs
  <2> QED
    BY <2>1 DEF Once
<1> QED
  BY <1>6, <1>7, <1>9, <1>10, <1>11

-----------------------------------------------------------------------------
(* The call of index_join_next.                                            *)

\* The keys of outer rows.
LEMMA OuterKeyIs ==
  ASSUME Types, OwnFifos, NEW p \in 1 .. Len(outer)
  PROVE  /\ OuterProj(outer[p]) \in Keys /\ Lookup(p) = At(OuterProj(outer[p]))
         /\ outer[p] # NULL /\ IsRow(outer[p], OuterAttrs)
         /\ HasInner(Lookup(p)) <=> Found(OuterProj(outer[p])) # <<>>
         /\ HasInner(Lookup(p)) => Lookup(p) # NULL
<1>1. OuterProj(outer[p]) \in Keys /\ outer[p] # NULL /\ IsRow(outer[p], OuterAttrs)
  BY OuterFacts DEF Types
<1>2. Lookup(p) = At(OuterProj(outer[p]))
  BY DEF Lookup, At
<1>3. Found(OuterProj(outer[p])) = IF Lookup(p) = NULL THEN <<>> ELSE fifo[Lookup(p)]
  BY <1>2 DEF Found, At
<1>4. HasInner(Lookup(p)) <=> Lookup(p) # NULL /\ fifo[Lookup(p)] # <<>>
  BY DEF HasInner, fifo_empty
<1> QED
  BY <1>1, <1>2, <1>3, <1>4

LEMMA EnvironmentIs ==
  ASSUME Types, Environments, NEW j \in Join, env[j] # Closed
  PROVE  LET e == env[j]
         IN  /\ Len(outer) \in Nat /\ e.cursor \in 1 .. Len(outer) + 1
             /\ HasInner(e.current_inner) => \E p \in 1 .. Len(outer) : On(e, p)
             /\ \A p \in 1 .. Len(outer) :
                  On(e, p) => /\ p = e.cursor - 1 /\ e.current_inner = Lookup(p)
                              /\ e.current_outer = outer[p]
<1> DEFINE e == env[j]
<1>1. Len(outer) \in Nat
  BY OuterFacts DEF Types
<1>2. ASSUME NEW p \in 1 .. Len(outer), On(e, p)
      PROVE  /\ p = e.cursor - 1 /\ e.current_inner = Lookup(p) /\ e.current_outer = outer[p]
             /\ e.cursor \in 1 .. Len(outer) + 1
  <2>1. e = [cursor |-> p + 1, current_inner |-> Lookup(p), current_outer |-> outer[p]]
    BY <1>2 DEF On
  <2> HIDE DEF e
  <2> QED
    BY <1>1, <2>1
<1>3. ASSUME Fresh(e) PROVE e.cursor = 1 /\ ~HasInner(e.current_inner)
  <2>1. e.cursor = 1 /\ e.current_inner = NULL
    BY <1>3 DEF Fresh, Closed
  <2> QED
    BY <2>1 DEF HasInner
<1>4. Fresh(e) \/ \E p \in 1 .. Len(outer) : On(e, p)
  BY DEF Environments
<1> HIDE DEF e
<1>5. e.cursor \in 1 .. Len(outer) + 1
  BY <1>1, <1>2, <1>3, <1>4
<1> QED
  BY <1>1, <1>2, <1>3, <1>4, <1>5 DEF e

\* The join goes on to the first outer row that still finds inner rows.
Goes(e, p) ==
  \/ On(e, p)
  \/ /\ p \in e.cursor .. Len(outer) /\ ~HasInner(e.current_inner)
     /\ \A q \in e.cursor .. p - 1 : ~HasInner(Lookup(q))

LEMMA AdvanceIs ==
  ASSUME Types, OwnFifos, Environments, NEW j \in Join, env[j] # Closed
  PROVE  LET e == env[j]
         IN  /\ Advance(e).current_outer # NULL =>
                  \E p \in 1 .. Len(outer) : On(Advance(e), p) /\ HasInner(Lookup(p)) /\ Goes(e, p)
             /\ Advance(e).current_outer = NULL =>
                  /\ ~HasInner(e.current_inner)
                  /\ \A q \in e.cursor .. Len(outer) : ~HasInner(Lookup(q))
<1> DEFINE e == env[j]
           M == Matching(e)
<1>1. /\ Len(outer) \in Nat /\ e.cursor \in 1 .. Len(outer) + 1
      /\ HasInner(e.current_inner) => \E p \in 1 .. Len(outer) : On(e, p)
      /\ \A p \in 1 .. Len(outer) : On(e, p) => e.current_inner = Lookup(p) /\ e.current_outer = outer[p]
  BY EnvironmentIs
<1>2. \A p \in 1 .. Len(outer) : outer[p] # NULL /\ (HasInner(Lookup(p)) => Lookup(p) # NULL)
  BY OuterKeyIs
<1> HIDE DEF e
<1>3. M = {p \in e.cursor .. Len(outer) : HasInner(Lookup(p))}
  BY DEF Matching
<1>4. CASE HasInner(e.current_inner)
  <2>1. PICK p \in 1 .. Len(outer) : On(e, p)
    BY <1>1, <1>4
  <2>2. e.current_outer = outer[p] /\ e.current_inner = Lookup(p)
    BY <1>1, <2>1
  <2>3. Advance(e) = e
    BY <1>4 DEF Advance
  <2>4. Goes(e, p)
    BY <2>1 DEF Goes
  <2>5. On(Advance(e), p) /\ HasInner(Lookup(p)) /\ Advance(e).current_outer # NULL
    BY <1>2, <1>4, <2>1, <2>2, <2>3
  <2> QED
    BY <2>4, <2>5 DEF e
<1>5. CASE ~HasInner(e.current_inner) /\ M # {}
  <2> DEFINE p == CHOOSE q \in M : \A r \in M : q <= r
  <2>1. M \in SUBSET Nat
    BY <1>1, <1>3
  <2>2. p \in M /\ \A r \in M : p <= r
    <3>1. \E q \in M : \A r \in M : q <= r
      BY <1>5, <2>1, LeastNat
    <3> HIDE DEF M
    <3> QED
      BY <3>1
  <2>3. Advance(e) = [cursor |-> p + 1, current_inner |-> Lookup(p), current_outer |-> outer[p]]
    BY <1>5 DEF Advance
  <2> HIDE DEF p
  <2>4. p \in e.cursor .. Len(outer) /\ p \in 1 .. Len(outer) /\ HasInner(Lookup(p))
    BY <1>1, <1>3, <2>2
  <2>5. \A q \in e.cursor .. p - 1 : ~HasInner(Lookup(q))
    <3>1. SUFFICES ASSUME NEW q \in e.cursor .. p - 1, HasInner(Lookup(q)) PROVE FALSE
      OBVIOUS
    <3>2. q \in e.cursor .. Len(outer) /\ ~(p <= q)
      BY <1>1, <2>4
    <3>3. q \in M
      BY <1>3, <3>1, <3>2
    <3> QED
      BY <2>2, <3>2, <3>3
  <2>6. On(Advance(e), p)
    BY <1>2, <2>3, <2>4 DEF On
  <2>7. Goes(e, p)
    BY <1>5, <2>4, <2>5 DEF Goes
  <2>8. Advance(e).current_outer # NULL
    BY <1>2, <2>3, <2>4
  <2> QED
    BY <2>4, <2>6, <2>7, <2>8 DEF e
<1>6. CASE ~HasInner(e.current_inner) /\ M = {}
  <2>1. Advance(e).current_outer = NULL
    BY <1>6 DEF Advance
  <2>2. \A q \in e.cursor .. Len(outer) : ~HasInner(Lookup(q))
    BY <1>3, <1>6
  <2> QED
    BY <1>6, <2>1, <2>2 DEF e
<1> QED
  BY <1>4, <1>5, <1>6

\* What the relations, the index and the fifos alone determine.
LEMMA SameIndex ==
  ASSUME inner' = inner, outer' = outer, ind' = ind, scan' = scan
  PROVE  /\ \A k : At(k)' = At(k)
         /\ \A p : Lookup(p)' = Lookup(p)
         /\ \A e, p : On(e, p)' <=> On(e, p)
         /\ Built' <=> Built
         /\ fifo' = fifo => \A k : Found(k)' = Found(k)
<1>1. ASSUME NEW k PROVE At(k)' = At(k)
  BY DEF At
<1>2. ASSUME NEW p PROVE Lookup(p)' = Lookup(p)
  BY DEF Lookup
<1>3. ASSUME NEW e, NEW p PROVE On(e, p)' <=> On(e, p)
  BY <1>2 DEF On
<1>4. Built' <=> Built
  BY DEF Built, seq_scan_next
<1>5. ASSUME fifo' = fifo, NEW k PROVE Found(k)' = Found(k)
  BY <1>5 DEF Found
<1> QED
  BY <1>1, <1>2, <1>3, <1>4, <1>5

\* The join takes a row for the outer row at p.
Taken(j, p) ==
  LET key == OuterProj(outer[p])
      t == Head(Found(key))
  IN  /\ env[j] # Closed /\ Goes(env[j], p) /\ key \in Keys /\ Lookup(p) = At(key) /\ Lookup(p) # NULL
      /\ Found(key) # <<>> /\ t \in ToSet(inner) /\ InnerProj(t) = key
      /\ On(env'[j], p)
      /\ env' = [env EXCEPT ![j] = env'[j]]
      /\ fifo' \in Seq(Fifos) /\ Len(fifo') = Len(fifo)
      /\ \A k \in Keys : Found(k)' = IF k = key THEN Tail(Found(key)) ELSE Found(k)
      /\ res' = [res EXCEPT ![j] = Append(res[j], Joined(outer[p], t))]

LEMMA RowTaken ==
  ASSUME IInv, NEW j \in Join, index_join_next(j)
  PROVE  \E p \in 1 .. Len(outer) : Taken(j, p)
<1> USE DEF IInv
<1> DEFINE e == env[j]
           a == Advance(env[j])
<1>1. /\ e # Closed /\ a.current_outer # NULL
      /\ env' = [env EXCEPT ![j] = a]
      /\ fifo' = fifo_get(a.current_inner)
      /\ res' = [res EXCEPT ![j] = fifo_put(@, a.current_outer \o Rest(Head(fifo[a.current_inner])))]
      /\ inner' = inner /\ outer' = outer /\ ind' = ind /\ scan' = scan
  BY DEF index_join_next
<1>2. PICK p \in 1 .. Len(outer) : On(a, p) /\ HasInner(Lookup(p)) /\ Goes(e, p)
  BY <1>1, AdvanceIs
<1> DEFINE key == OuterProj(outer[p])
           l == Lookup(p)
           t == Head(Found(key))
<1>3. /\ key \in Keys /\ l = At(key) /\ l # NULL /\ Found(key) # <<>>
  BY <1>2, OuterKeyIs
<1>4. a.current_inner = l /\ a.current_outer = outer[p]
  BY <1>2 DEF On
<1> HIDE DEF a, e
<1>5. /\ Found(key) = fifo[l] /\ l \in 1 .. Len(fifo) /\ DOMAIN fifo = 1 .. Len(fifo)
      /\ Len(fifo) \in Nat /\ Found(key) \in Fifos
  BY <1>3, FoundIs
<1>6. Found(key) \in Seq(ToSet(inner)) /\ Len(Found(key)) \in Nat \ {0} /\ 1 \in 1 .. Len(Found(key))
  <2> DEFINE f == Found(key)
  <2>1. f \in Seq(ToSet(inner)) /\ f # <<>>
    BY <1>3, <1>5 DEF Fifos
  <2> HIDE DEF f
  <2> QED
    BY <2>1 DEF f
<1>7. t = Found(key)[1] /\ t \in ToSet(inner) /\ InnerProj(t) = key
  <2>1. t = Found(key)[1]
    BY <1>6
  <2>2. Found(key)[1] \in ToSet(inner)
    BY <1>3, <1>6, FoundIs
  <2>3. InnerProj(Found(key)[1]) = key
    BY <1>3, <1>6 DEF OwnFifos
  <2> QED
    BY <2>1, <2>2, <2>3
<1>8. /\ fifo' \in Seq(Fifos) /\ Len(fifo') = Len(fifo) /\ fifo'[l] = Tail(fifo[l])
      /\ \A i \in 1 .. Len(fifo) : i # l => fifo'[i] = fifo[i]
  <2>1. fifo' = [fifo EXCEPT ![l] = Tail(@)]
    BY <1>1, <1>4 DEF fifo_get
  <2>2. Tail(fifo[l]) \in Fifos
    BY <1>5, <1>6 DEF Fifos
  <2>3. fifo \in Seq(Fifos)
    BY DEF Types
  <2> HIDE DEF l
  <2> QED
    BY <1>5, <2>1, <2>2, <2>3
<1>9. ASSUME NEW k \in Keys PROVE Found(k)' = IF k = key THEN Tail(Found(key)) ELSE Found(k)
  <2>1. At(k)' = At(k)
    BY <1>1, SameIndex
  <2>2. Found(k)' = IF At(k)' = NULL THEN <<>> ELSE fifo'[At(k)']
    BY DEF Found, At
  <2>3. Found(k) = IF At(k) = NULL THEN <<>> ELSE fifo[At(k)]
    BY DEF Found, At
  <2>4. At(k) = NULL \/ At(k) \in 1 .. Len(fifo)
    BY DEF OwnFifos
  <2>5. k # key /\ At(k) # NULL => At(k) # l
    BY <1>3 DEF OwnFifos
  <2> HIDE DEF l, key
  <2>6. CASE k = key
    <3>1. At(k) = l
      BY <1>3, <2>6
    <3> QED
      BY <1>3, <1>5, <1>8, <2>1, <2>2, <2>6, <3>1
  <2>7. CASE k # key
    BY <1>8, <2>1, <2>2, <2>3, <2>4, <2>5, <2>7
  <2> QED
    BY <2>6, <2>7
<1>10. env'[j] = a /\ env' = [env EXCEPT ![j] = env'[j]]
  <2>1. env = [k \in Join |-> env[k]]
    BY DEF Types
  <2> QED
    BY <1>1, <2>1
<1>11. res' = [res EXCEPT ![j] = Append(res[j], Joined(outer[p], t))]
  <2>1. a.current_outer \o Rest(Head(fifo[a.current_inner])) = Joined(outer[p], t)
    BY <1>4, <1>5 DEF Joined
  <2> QED
    BY <1>1, <2>1 DEF fifo_put
<1> QED
  BY <1>1, <1>2, <1>3, <1>7, <1>8, <1>9, <1>10, <1>11 DEF Taken, e

LEMMA TailIs ==
  ASSUME NEW S, NEW s \in Seq(S), s # <<>>
  PROVE  /\ Len(s) \in Nat \ {0} /\ Head(s) = s[1] /\ Tail(s) \in Seq(S)
         /\ Len(Tail(s)) = Len(s) - 1 /\ DOMAIN Tail(s) = 1 .. Len(s) - 1 /\ DOMAIN s = 1 .. Len(s)
         /\ \A x \in 1 .. Len(s) - 1 : Tail(s)[x] = s[x + 1] /\ x + 1 \in 1 .. Len(s)
         /\ \A x \in 1 .. Len(s) : x = 1 \/ (x - 1 \in 1 .. Len(s) - 1 /\ Tail(s)[x - 1] = s[x])
<1>1. Len(s) \in Nat \ {0} /\ Head(s) = s[1] /\ Tail(s) \in Seq(S) /\ DOMAIN s = 1 .. Len(s)
  OBVIOUS
<1>2. Len(Tail(s)) = Len(s) - 1 /\ DOMAIN Tail(s) = 1 .. Len(s) - 1
  OBVIOUS
<1>3. ASSUME NEW x \in 1 .. Len(s) - 1 PROVE Tail(s)[x] = s[x + 1] /\ x + 1 \in 1 .. Len(s)
  OBVIOUS
<1>4. ASSUME NEW x \in 1 .. Len(s), x # 1
      PROVE  x - 1 \in 1 .. Len(s) - 1 /\ Tail(s)[x - 1] = s[x]
  <2>1. x - 1 \in 1 .. Len(s) - 1 /\ x - 1 + 1 = x
    BY <1>1, <1>4
  <2> QED
    BY <1>3, <2>1
<1> QED
  BY <1>1, <1>2, <1>3, <1>4

\* A join that is open has been opened, on an index that is built.
LEMMA OpenIs ==
  ASSUME IInv, NEW j \in Join, env[j] # Closed \/ opened[j] # 0
  PROVE  Built /\ opened[j] # 0 /\ ~Unused
BY DEF IInv, BuiltFirst, Unused

\* The step in the parts of the state that all joins share.
LEMMA NextShared ==
  ASSUME IInv, NEW j \in Join, index_join_next(j), NEW p \in 1 .. Len(outer), Taken(j, p)
  PROVE  Types' /\ OwnFifos' /\ BuiltFirst' /\ Environments'
<1> USE DEF IInv
<1> DEFINE key == OuterProj(outer[p])
           t == Head(Found(key))
<1>1. /\ inner' = inner /\ outer' = outer /\ ind' = ind /\ scan' = scan /\ opened' = opened
  BY DEF index_join_next
<1>2. /\ env[j] # Closed /\ key \in Keys /\ Found(key) # <<>> /\ t \in ToSet(inner)
      /\ On(env'[j], p) /\ env' = [env EXCEPT ![j] = env'[j]]
      /\ fifo' \in Seq(Fifos) /\ Len(fifo') = Len(fifo)
      /\ \A k \in Keys : Found(k)' = IF k = key THEN Tail(Found(key)) ELSE Found(k)
      /\ res' = [res EXCEPT ![j] = Append(res[j], Joined(outer[p], t))]
  BY DEF Taken
<1>3. Keys' = Keys /\ Rows' = Rows /\ Fifos' = Fifos
  BY <1>1, SameRelations
<1> HIDE DEF key, t
<1>4. Types'
  <2>1. (Relation(inner, InnerAttrs))' /\ (Relation(outer, OuterAttrs))'
    BY <1>1, SameRelations DEF Types
  <2>2. Joined(outer[p], t) \in Rows
    <3>1. PICK i \in 1 .. Len(inner) : t = inner[i]
      BY <1>2, InnerFacts DEF Types
    <3> QED
      BY <3>1 DEF Rows
  <2>3. res' \in [Join -> Seq(Rows)]
    <3>1. Append(res[j], Joined(outer[p], t)) \in Seq(Rows)
      BY <2>2 DEF Types
    <3> QED
      BY <1>2, <3>1 DEF Types
  <2>4. env' = [k \in Join |-> env'[k]]
    <3>1. env = [k \in Join |-> env[k]]
      BY DEF Types
    <3> QED
      BY <1>2, <3>1
  <2> QED
    BY <1>1, <1>2, <1>3, <2>1, <2>3, <2>4 DEF Types
<1>5. OwnFifos'
  <2>1. ASSUME NEW k \in Keys
        PROVE  /\ At(k)' = NULL \/ At(k)' \in 1 .. Len(fifo')
               /\ \A m \in Keys : At(k)' = At(m)' /\ At(k)' # NULL => k = m
    <3>1. \A m : At(m)' = At(m)
      BY <1>1, SameIndex
    <3> QED
      BY <1>2, <3>1 DEF OwnFifos
  <2>2. ASSUME NEW k \in Keys
        PROVE  \A x, y \in 1 .. Len(Found(k)') : /\ InnerProj(Found(k)'[x]) = k
                                                 /\ Found(k)'[x] = Found(k)'[y] => x = y
    <3> DEFINE f == Found(k)
    <3>1. \A x, y \in 1 .. Len(f) : InnerProj(f[x]) = k /\ (f[x] = f[y] => x = y)
      BY DEF OwnFifos
    <3>2. CASE k # key
      BY <1>2, <3>1, <3>2
    <3>3. CASE k = key
      <4>1. Found(k)' = Tail(f) /\ f # <<>>
        BY <1>2, <3>3
      <4>2. f \in Seq(ToSet(inner))
        BY FoundIs DEF Fifos
      <4> HIDE DEF f
      <4>3. /\ Len(f) \in Nat \ {0} /\ Len(Tail(f)) = Len(f) - 1
            /\ \A x \in 1 .. Len(f) - 1 : Tail(f)[x] = f[x + 1] /\ x + 1 \in 1 .. Len(f)
        BY <4>1, <4>2, TailIs
      <4>4. ASSUME NEW x \in 1 .. Len(f) - 1, NEW y \in 1 .. Len(f) - 1
            PROVE  InnerProj(Tail(f)[x]) = k /\ (Tail(f)[x] = Tail(f)[y] => x = y)
        <5>1. InnerProj(f[x + 1]) = k /\ (f[x + 1] = f[y + 1] => x + 1 = y + 1)
          BY <3>1, <4>3
        <5> QED
          BY <4>3, <5>1
      <4> QED
        BY <4>1, <4>3, <4>4
    <3> QED
      BY <3>2, <3>3
  <2> QED
    BY <1>3, <2>1, <2>2 DEF OwnFifos
<1>6. BuiltFirst'
  <2>1. Built /\ opened[j] # 0 /\ ~Unused
    BY <1>2, OpenIs
  <2>2. Built' /\ ~Unused'
    BY <1>1, <2>1, SameIndex DEF Unused
  <2>3. ASSUME NEW k \in Join, opened'[k] = 0 PROVE env'[k] = Closed /\ res'[k] = <<>>
    <3>1. k # j /\ opened[k] = 0
      BY <1>1, <2>1, <2>3
    <3>2. env'[k] = env[k] /\ res'[k] = res[k]
      BY <1>2, <3>1 DEF Types
    <3> QED
      BY <3>1, <3>2 DEF BuiltFirst
  <2> QED
    BY <2>2, <2>3 DEF BuiltFirst
<1>7. Environments'
  <2>1. ASSUME NEW k \in Join, k # j PROVE env'[k] = env[k]
    BY <1>2, <2>1 DEF Types
  <2>2. \A e, q : On(e, q)' <=> On(e, q)
    BY <1>1, SameIndex
  <2>3. ASSUME NEW k \in Join
        PROVE  env'[k] = Closed \/ Fresh(env'[k]) \/ \E q \in 1 .. Len(outer) : On(env'[k], q)
    BY <1>2, <2>1, <2>3 DEF Environments
  <2> QED
    BY <1>1, <2>2, <2>3 DEF Environments, On, Lookup
<1> QED
  BY <1>4, <1>5, <1>6, <1>7

\* A step of one join leaves the others where they are.
LEMMA NextPlace ==
  ASSUME IInv, NEW j \in Join, index_join_next(j), NEW p \in 1 .. Len(outer), Taken(j, p)
  PROVE  /\ Done(j)' = p /\ Done(j) = env[j].cursor - 1 /\ Done(j) \in 0 .. p
         /\ \A k \in Join \ {j} : env'[k] = env[k] /\ res'[k] = res[k] /\ Done(k)' = Done(k)
         /\ res'[j] = Append(res[j], Joined(outer[p], Head(Found(OuterProj(outer[p])))))
<1> USE DEF IInv
<1>1. env[j] # Closed /\ Goes(env[j], p) /\ On(env'[j], p) /\ env' = [env EXCEPT ![j] = env'[j]]
      /\ res' = [res EXCEPT ![j] = Append(res[j], Joined(outer[p], Head(Found(OuterProj(outer[p])))))]
      /\ outer' = outer
  BY DEF Taken, index_join_next
<1>2. res \in [Join -> Seq(Rows)] /\ env = [k \in Join |-> env[k]] /\ Len(outer) \in Nat
  BY OuterFacts DEF Types
<1>3. Done(j)' = p
  <2>1. env'[j].cursor = p + 1 /\ p + 1 # NULL /\ p + 1 - 1 = p
    BY <1>1, <1>2, NoNulls DEF On
  <2>2. env'[j] # Closed
    BY <2>1 DEF Closed, seq_scan
  <2> QED
    BY <2>1, <2>2 DEF Done
<1>4. Done(j) = env[j].cursor - 1 /\ Done(j) \in 0 .. p
  <2>1. env[j].cursor \in 1 .. Len(outer) + 1 /\ (On(env[j], p) => p = env[j].cursor - 1)
    BY <1>1, EnvironmentIs
  <2>2. env[j].cursor - 1 = p \/ env[j].cursor <= p
    BY <1>1, <2>1 DEF Goes
  <2>3. Done(j) = env[j].cursor - 1
    BY <1>1 DEF Done
  <2> QED
    BY <1>2, <2>1, <2>2, <2>3
<1>5. ASSUME NEW k \in Join \ {j} PROVE env'[k] = env[k] /\ res'[k] = res[k] /\ Done(k)' = Done(k)
  <2>1. env'[k] = env[k] /\ res'[k] = res[k]
    BY <1>1, <1>2
  <2> QED
    BY <1>1, <2>1 DEF Done
<1> QED
  BY <1>1, <1>2, <1>3, <1>4, <1>5

LEMMA NextInOrder ==
  ASSUME IInv, NEW j \in Join, index_join_next(j), NEW p \in 1 .. Len(outer), Taken(j, p)
  PROVE  InOrder'
<1> USE DEF IInv
<1> DEFINE t == Head(Found(OuterProj(outer[p])))
           r == Joined(outer[p], t)
           s == res[j]
<1>1. /\ Done(j)' = p /\ Done(j) \in 0 .. p
      /\ \A k \in Join \ {j} : res'[k] = res[k] /\ Done(k)' = Done(k)
      /\ res'[j] = Append(s, r)
  BY NextPlace
<1>2. inner' = inner /\ outer' = outer
  BY DEF index_join_next
<1>3. \A q, x : Makes(q, x)' <=> Makes(q, x)
  BY <1>2, SameRelations
<1>4. Len(outer) \in Nat
  BY OuterFacts DEF Types
<1>5. Makes(p, r)
  <2>1. t \in ToSet(inner) /\ InnerProj(t) = OuterProj(outer[p])
    BY DEF Taken
  <2>2. PICK i \in DOMAIN inner : t = inner[i]
    BY <2>1, InnerFacts DEF Types
  <2> QED
    BY <2>1, <2>2 DEF Makes
<1>6. ASSUME NEW k \in Join \ {j}, NEW n \in DOMAIN res'[k]
      PROVE  /\ \E q \in 1 .. Done(k)' : Makes(q, res'[k][n])
             /\ \A m \in 1 .. n : \E a, b \in 1 .. Len(outer) :
                  a <= b /\ Makes(a, res'[k][m]) /\ Makes(b, res'[k][n])
  BY <1>1, <1>6 DEF InOrder
<1>7. s \in Seq(Rows) /\ Len(s) \in Nat /\ DOMAIN s = 1 .. Len(s)
  BY DEF Types
<1> HIDE DEF r, s
<1>8. /\ DOMAIN Append(s, r) = 1 .. Len(s) + 1 /\ Append(s, r)[Len(s) + 1] = r
      /\ \A n \in 1 .. Len(s) : Append(s, r)[n] = s[n]
  BY <1>7
<1>9. ASSUME NEW n \in DOMAIN Append(s, r)
      PROVE  /\ \E q \in 1 .. p : Makes(q, Append(s, r)[n])
             /\ \A m \in 1 .. n : \E a, b \in 1 .. Len(outer) :
                  a <= b /\ Makes(a, Append(s, r)[m]) /\ Makes(b, Append(s, r)[n])
  <2>1. ASSUME NEW m \in 1 .. Len(s) PROVE \E q \in 1 .. p : Makes(q, s[m])
    <3>1. PICK q \in 1 .. Done(j) : Makes(q, s[m])
      BY <1>7, <2>1 DEF InOrder, s
    <3>2. q \in 1 .. p
      BY <1>1, <1>4, <3>1
    <3> QED
      BY <3>1, <3>2
  <2>2. CASE n \in 1 .. Len(s)
    <3>1. \E q \in 1 .. p : Makes(q, Append(s, r)[n])
      BY <1>8, <2>1, <2>2
    <3>2. ASSUME NEW m \in 1 .. n
          PROVE  \E a, b \in 1 .. Len(outer) :
                   a <= b /\ Makes(a, Append(s, r)[m]) /\ Makes(b, Append(s, r)[n])
      <4>1. m \in 1 .. Len(s)
        BY <1>7, <2>2
      <4>2. \E a, b \in 1 .. Len(outer) : a <= b /\ Makes(a, s[m]) /\ Makes(b, s[n])
        BY <1>7, <2>2 DEF InOrder, s
      <4> QED
        BY <1>8, <2>2, <4>1, <4>2
    <3> QED
      BY <3>1, <3>2
  <2>3. CASE n = Len(s) + 1
    <3>1. Append(s, r)[n] = r /\ p \in 1 .. p
      BY <1>4, <1>8, <2>3
    <3>2. ASSUME NEW m \in 1 .. n
          PROVE  \E a, b \in 1 .. Len(outer) :
                   a <= b /\ Makes(a, Append(s, r)[m]) /\ Makes(b, Append(s, r)[n])
      <4>1. CASE m = n
        <5>1. p <= p
          BY <1>4
        <5> QED
          BY <1>5, <3>1, <4>1, <5>1
      <4>2. CASE m # n
        <5>1. m \in 1 .. Len(s)
          BY <1>7, <2>3, <4>2
        <5>2. PICK q \in 1 .. p : Makes(q, s[m])
          BY <2>1, <5>1
        <5>3. q \in 1 .. Len(outer) /\ q <= p
          BY <1>4
        <5> QED
          BY <1>5, <1>8, <3>1, <5>1, <5>2, <5>3
      <4> QED
        BY <4>1, <4>2
    <3> QED
      BY <1>5, <3>1, <3>2
  <2>4. n \in 1 .. Len(s) \/ n = Len(s) + 1
    BY <1>7, <1>8
  <2> QED
    BY <2>2, <2>3, <2>4
<1>10. ASSUME NEW n \in DOMAIN res'[j]
      PROVE  /\ \E q \in 1 .. Done(j)' : Makes(q, res'[j][n])
             /\ \A m \in 1 .. n : \E a, b \in 1 .. Len(outer) :
                  a <= b /\ Makes(a, res'[j][m]) /\ Makes(b, res'[j][n])
  <2>1. n \in DOMAIN Append(s, r) /\ res'[j] = Append(s, r) /\ Done(j)' = p
    BY <1>1, <1>10
  <2> QED
    BY <1>9, <2>1
<1>11. ASSUME NEW k \in Join, NEW n \in DOMAIN res'[k]
      PROVE  /\ \E q \in 1 .. Done(k)' : Makes(q, res'[k][n])
             /\ \A m \in 1 .. n : \E a, b \in 1 .. Len(outer) :
                  a <= b /\ Makes(a, res'[k][m]) /\ Makes(b, res'[k][n])
  <2>1. CASE k = j
    BY <1>10, <1>11, <2>1
  <2>2. CASE k # j
    BY <1>6, <1>11, <2>2
  <2> QED
    BY <2>1, <2>2
<1> QED
  BY <1>2, <1>3, <1>11 DEF InOrder, Makes

From(r, t) == \E o \in ToSet(outer) : OuterProj(o) = InnerProj(t) /\ r = Joined(o, t)

LEMMA OutsAre ==
  ASSUME NEW t, outer' = outer
  PROVE  /\ \A x : x \in Outs(t) <=> \E k \in Join : \E n \in DOMAIN res[k] : x = <<k, n>> /\ From(res[k][n], t)
         /\ \A x : x \in Outs(t)' <=> \E k \in Join : \E n \in DOMAIN res'[k] : x = <<k, n>> /\ From(res'[k][n], t)
<1>1. ASSUME NEW x
      PROVE  x \in Outs(t) <=> \E k \in Join : \E n \in DOMAIN res[k] : x = <<k, n>> /\ From(res[k][n], t)
  BY DEF Outs, From
<1>2. ASSUME NEW x
      PROVE  x \in Outs(t)' <=> \E k \in Join : \E n \in DOMAIN res'[k] : x = <<k, n>> /\ From(res'[k][n], t)
  BY DEF Outs, From
<1> QED
  BY <1>1, <1>2

\* The row that is made tells which inner row it is made of.
LEMMA FromIs ==
  ASSUME Types, NEW p \in 1 .. Len(outer), NEW h \in ToSet(inner), InnerProj(h) = OuterProj(outer[p]),
         NEW t \in ToSet(inner)
  PROVE  From(Joined(outer[p], h), t) <=> t = h
<1>1. IsRow(outer[p], OuterAttrs) /\ outer[p] \in ToSet(outer)
  BY OuterFacts DEF Types
<1>2. IsRow(t, InnerAttrs) /\ IsRow(h, InnerAttrs)
  BY InnerFacts DEF Types
<1>3. ASSUME t = h PROVE From(Joined(outer[p], h), t)
  BY <1>1, <1>3 DEF From
<1>4. ASSUME From(Joined(outer[p], h), t) PROVE t = h
  <2>1. PICK o \in ToSet(outer) : OuterProj(o) = InnerProj(t) /\ Joined(outer[p], h) = Joined(o, t)
    BY <1>4 DEF From
  <2>2. IsRow(o, OuterAttrs)
    BY <2>1, OuterFacts DEF Types
  <2>3. outer[p] = o /\ Rest(h) = Rest(t)
    BY <1>1, <2>1, <2>2, JoinedTells
  <2>4. InnerProj(h) = InnerProj(t)
    BY <2>1, <2>3
  <2> QED
    BY <1>2, <2>3, <2>4, RestTells
<1> QED
  BY <1>3, <1>4

LEMMA NextOnce ==
  ASSUME IInv, NEW j \in Join, index_join_next(j), NEW p \in 1 .. Len(outer), Taken(j, p)
  PROVE  Once'
<1> USE DEF IInv
<1> DEFINE key == OuterProj(outer[p])
           h == Head(Found(key))
           s == res[j]
           r == Joined(outer[p], h)
<1>1. /\ inner' = inner /\ outer' = outer /\ ind' = ind /\ scan' = scan /\ opened' = opened
  BY DEF index_join_next
<1>2. SUFFICES ASSUME NEW t \in ToSet(inner)
               PROVE  /\ Here(t)' => Outs(t)' = {}
                      /\ \A x, y \in Outs(t)' : x = y
  BY <1>1 DEF Once
<1>3. /\ Here(t) => Outs(t) = {}
      /\ \A x, y \in Outs(t) : x = y
  BY DEF Once
<1>4. /\ key \in Keys /\ Found(key) # <<>> /\ h \in ToSet(inner) /\ InnerProj(h) = key
      /\ \A k \in Keys : Found(k)' = IF k = key THEN Tail(Found(key)) ELSE Found(k)
  BY DEF Taken
<1>5. InnerProj(t) \in Keys
  BY DEF Keys
<1>6. From(r, t) <=> t = h
  BY <1>4, FromIs
<1>7. Here(t)' <=> Here(t) /\ t # h
  <2> DEFINE f == Found(key)
  <2>1. Here(t)' <=> \E x \in 1 .. Len(Found(InnerProj(t))') : Found(InnerProj(t))'[x] = t
    BY DEF Here
  <2>2. CASE InnerProj(t) # key
    BY <1>4, <1>5, <2>1, <2>2 DEF Here
  <2>3. CASE InnerProj(t) = key
    <3>1. f \in Seq(ToSet(inner)) /\ f # <<>>
      BY <1>4, FoundIs DEF Fifos
    <3>2. \A x, y \in 1 .. Len(f) : f[x] = f[y] => x = y
      BY <1>4 DEF OwnFifos
    <3>3. Here(t)' <=> \E x \in 1 .. Len(Tail(f)) : Tail(f)[x] = t
      BY <1>4, <1>5, <2>1, <2>3
    <3>4. Here(t) <=> \E x \in 1 .. Len(f) : f[x] = t
      BY <2>3 DEF Here
    <3> HIDE DEF f
    <3>5. /\ Len(f) \in Nat \ {0} /\ Head(f) = f[1] /\ Len(Tail(f)) = Len(f) - 1
          /\ \A x \in 1 .. Len(f) - 1 : Tail(f)[x] = f[x + 1] /\ x + 1 \in 1 .. Len(f)
          /\ \A x \in 1 .. Len(f) : x = 1 \/ (x - 1 \in 1 .. Len(f) - 1 /\ Tail(f)[x - 1] = f[x])
      BY <3>1, TailIs
    <3>6. ASSUME NEW x \in 1 .. Len(f) - 1, Tail(f)[x] = t PROVE Here(t) /\ t # f[1]
      <4>1. f[x + 1] = t /\ x + 1 \in 1 .. Len(f) /\ x + 1 # 1 /\ 1 \in 1 .. Len(f)
        BY <3>5, <3>6
      <4> QED
        BY <3>2, <3>4, <4>1
    <3>7. ASSUME NEW x \in 1 .. Len(f), f[x] = t, t # f[1]
          PROVE  \E y \in 1 .. Len(f) - 1 : Tail(f)[y] = t
      BY <3>5, <3>7
    <3> QED
      BY <3>3, <3>4, <3>5, <3>6, <3>7 DEF f
  <2> QED
    BY <2>2, <2>3
<1>8. h = t => Here(t)
  <2>1. Found(key) \in Seq(ToSet(inner)) /\ Found(key) # <<>>
    BY <1>4, FoundIs DEF Fifos
  <2>2. Head(Found(key)) = Found(key)[1] /\ 1 \in 1 .. Len(Found(key))
    BY <2>1, TailIs
  <2> QED
    BY <1>4, <2>2 DEF Here
<1>9. ASSUME NEW x PROVE x \in Outs(t)' <=> x \in Outs(t) \/ (t = h /\ x = <<j, Len(s) + 1>>)
  <2>1. /\ \A k \in Join \ {j} : res'[k] = res[k]
        /\ res'[j] = Append(s, r)
    BY NextPlace
  <2>2. s \in Seq(Rows) /\ Len(s) \in Nat /\ DOMAIN s = 1 .. Len(s)
    BY DEF Types
  <2>4. /\ x \in Outs(t) <=> \E k \in Join : \E n \in DOMAIN res[k] : x = <<k, n>> /\ From(res[k][n], t)
        /\ x \in Outs(t)' <=> \E k \in Join : \E n \in DOMAIN res'[k] : x = <<k, n>> /\ From(res'[k][n], t)
    BY <1>1, OutsAre
  <2> HIDE DEF s, r
  <2>5. /\ DOMAIN Append(s, r) = 1 .. Len(s) + 1 /\ Append(s, r)[Len(s) + 1] = r
        /\ \A n \in 1 .. Len(s) : Append(s, r)[n] = s[n] /\ n \in 1 .. Len(s) + 1
        /\ Len(s) + 1 \in 1 .. Len(s) + 1
        /\ \A n \in 1 .. Len(s) + 1 : n \in 1 .. Len(s) \/ n = Len(s) + 1
    BY <2>2
  <2>6. ASSUME x \in Outs(t) PROVE x \in Outs(t)'
    <3>0. PICK k \in Join : \E n \in DOMAIN res[k] : x = <<k, n>> /\ From(res[k][n], t)
      BY <2>4, <2>6
    <3>1. PICK n \in DOMAIN res[k] : x = <<k, n>> /\ From(res[k][n], t)
      BY <3>0
    <3>2. n \in DOMAIN res'[k] /\ res'[k][n] = res[k][n]
      <4>1. CASE k = j
        BY <2>1, <2>2, <2>5, <4>1 DEF s
      <4>2. CASE k # j
        BY <2>1, <4>2
      <4> QED
        BY <4>1, <4>2
    <3> QED
      BY <2>4, <3>1, <3>2
  <2>7. ASSUME t = h, x = <<j, Len(s) + 1>> PROVE x \in Outs(t)'
    <3>1. From(r, t)
      BY <1>6, <2>7 DEF r
    <3>2. Len(s) + 1 \in DOMAIN res'[j] /\ res'[j][Len(s) + 1] = r
      BY <2>1, <2>5
    <3> QED
      BY <2>4, <2>7, <3>1, <3>2
  <2>8. ASSUME x \in Outs(t)' PROVE x \in Outs(t) \/ (t = h /\ x = <<j, Len(s) + 1>>)
    <3>0. PICK k \in Join : \E n \in DOMAIN res'[k] : x = <<k, n>> /\ From(res'[k][n], t)
      BY <2>4, <2>8
    <3>1. PICK n \in DOMAIN res'[k] : x = <<k, n>> /\ From(res'[k][n], t)
      BY <3>0
    <3>2. CASE k # j
      BY <2>1, <2>4, <3>1, <3>2
    <3>3. CASE k = j /\ n \in 1 .. Len(s)
      <4>1. n \in DOMAIN res[k] /\ res'[k][n] = res[k][n]
        BY <2>1, <2>2, <2>5, <3>3 DEF s
      <4> QED
        BY <2>4, <3>1, <4>1
    <3>4. CASE k = j /\ n = Len(s) + 1
      <4>1. From(r, t)
        BY <2>1, <2>5, <3>1, <3>4
      <4> QED
        BY <1>6, <3>1, <3>4, <4>1 DEF r
    <3> QED
      BY <2>1, <2>5, <3>1, <3>2, <3>3, <3>4
  <2> QED
    BY <2>6, <2>7, <2>8 DEF s
<1>10. CASE t = h
  <2>1. Outs(t) = {} /\ ~Here(t)'
    BY <1>3, <1>7, <1>8, <1>10
  <2>2. Outs(t)' = {<<j, Len(s) + 1>>}
    BY <1>9, <1>10, <2>1
  <2> QED
    BY <2>1, <2>2
<1>11. CASE t # h
  <2>1. Outs(t)' = Outs(t)
    BY <1>9, <1>11
  <2> QED
    BY <1>3, <1>7, <1>11, <2>1
<1> QED
  BY <1>10, <1>11

-----------------------------------------------------------------------------
(* Sequences of sequences.                                                 *)

FlatUpTo(s, g) == g = [i \in 1 .. Len(s) |-> IF i = 1 THEN s[i] ELSE g[i - 1] \o s[i]]

\* The recursion of FlattenSeq defines a function.
LEMMA FlattenIs ==
  ASSUME NEW X, NEW s \in Seq(Seq(X)), s # <<>>
  PROVE  \E g : FlatUpTo(s, g) /\ FlattenSeq(s) = g[Len(s)]
<1> DEFINE L == Len(s)
           Go(g, i) == IF i = 1 THEN s[i] ELSE g[i - 1] \o s[i]
           Is(g, m) == g = [i \in 1 .. m |-> Go(g, i)]
           S == {m \in 0 .. L : \E g : Is(g, m)}
           T == CHOOSE g : g = [i \in 1 .. L |-> Go(g, i)]
<1>1. L \in Nat \ {0} /\ DOMAIN s = 1 .. L
  OBVIOUS
<1> HIDE DEF L
<1>2. 0 \in S
  <2> DEFINE g == [i \in 1 .. 0 |-> i]
  <2>1. Is(g, 0)
    OBVIOUS
  <2>2. 0 \in 0 .. L
    BY <1>1
  <2> HIDE DEF Is, g
  <2> QED
    BY <2>1, <2>2
<1>3. ASSUME NEW m \in 0 .. L - 1, m \in S PROVE m + 1 \in S
  <2>1. PICK g : Is(g, m)
    BY <1>3
  <2> DEFINE h == [i \in 1 .. m + 1 |-> Go(g, i)]
  <2>2. ASSUME NEW i \in 1 .. m + 1 PROVE h[i] = Go(h, i)
    <3>1. CASE i = 1
      BY <3>1
    <3>2. CASE i # 1
      <4>1. i - 1 \in 1 .. m /\ i - 1 \in 1 .. m + 1
        BY <1>1, <3>2
      <4>2. g[i - 1] = Go(g, i - 1) /\ h[i - 1] = Go(g, i - 1)
        BY <2>1, <4>1
      <4>3. h[i] = Go(g, i)
        OBVIOUS
      <4> HIDE DEF h
      <4> QED
        BY <3>2, <4>2, <4>3
    <3> QED
      BY <3>1, <3>2
  <2>3. Is(h, m + 1)
    BY <2>2
  <2>4. m + 1 \in 0 .. L
    BY <1>1
  <2> HIDE DEF Is, h
  <2> QED
    BY <2>3, <2>4
<1>4. PICK g : Is(g, L)
  <2> HIDE DEF S
  <2>1. \A n \in 0 .. L : n \in S
    BY <1>1, <1>2, <1>3, CountUp
  <2>2. L \in S
    BY <1>1, <2>1
  <2> QED
    BY <2>2 DEF S
<1>5. g = [i \in 1 .. L |-> Go(g, i)]
  BY <1>4
<1>6. T = [i \in 1 .. L |-> Go(T, i)]
  <2> HIDE DEF Go
  <2> QED
    BY <1>5
<1>7. FlattenSeq(s) = T[L]
  BY <1>1 DEF FlattenSeq, L
<1>8. FlatUpTo(s, T)
  <2> HIDE DEF T
  <2> QED
    BY <1>6 DEF FlatUpTo, L
<1> QED
  BY <1>7, <1>8 DEF L

LEMMA FlattenAdd ==
  ASSUME NEW X, NEW s \in Seq(Seq(X)), NEW e \in Seq(X)
  PROVE  FlattenSeq(Append(s, e)) = FlattenSeq(s) \o e
<1> DEFINE L == Len(s)
           a == Append(s, e)
           Y == Seq(X)
<1>1. L \in Nat /\ DOMAIN s = 1 .. L
  OBVIOUS
<1>2. /\ a \in Seq(Y) /\ a # <<>> /\ Len(a) = L + 1 /\ a[L + 1] = e
      /\ \A i \in 1 .. L : a[i] = s[i]
  <2>1. s \in Seq(Y) /\ e \in Y
    OBVIOUS
  <2> HIDE DEF Y
  <2>2. a \in Seq(Y) /\ Len(a) = L + 1 /\ a[L + 1] = e /\ \A i \in 1 .. L : a[i] = s[i]
    BY <2>1
  <2>3. a # <<>>
    BY <1>1, <2>2
  <2> QED
    BY <2>2, <2>3
<1> HIDE DEF a
<1>3. PICK h : FlatUpTo(a, h) /\ FlattenSeq(a) = h[L + 1]
  BY <1>2, FlattenIs
<1>4. ASSUME NEW i \in 1 .. L + 1 PROVE h[i] = IF i = 1 THEN a[i] ELSE h[i - 1] \o a[i]
  BY <1>2, <1>3 DEF FlatUpTo
<1>5. CASE s = <<>>
  <2>1. L = 0 /\ FlattenSeq(s) = <<>>
    BY <1>5 DEF FlattenSeq
  <2>2. h[L + 1] = e
    BY <1>2, <1>4, <2>1
  <2>3. <<>> \o e = e
    OBVIOUS
  <2> QED
    BY <1>3, <2>1, <2>2, <2>3 DEF a
<1>6. CASE s # <<>>
  <2>1. PICK g : FlatUpTo(s, g) /\ FlattenSeq(s) = g[L]
    BY <1>6, FlattenIs
  <2>2. L # 0
    BY <1>6
  <2> HIDE DEF L
  <2>3. ASSUME NEW i \in 1 .. L PROVE g[i] = IF i = 1 THEN s[i] ELSE g[i - 1] \o s[i]
    BY <2>1 DEF FlatUpTo, L
  <2> DEFINE S == {i \in 0 .. L : i = 0 \/ g[i] = h[i]}
  <2>4. 0 \in S
    BY <1>1
  <2>5. ASSUME NEW i \in 0 .. L - 1, i \in S PROVE i + 1 \in S
    <3>1. i + 1 \in 1 .. L /\ i + 1 \in 1 .. L + 1 /\ i + 1 - 1 = i /\ i + 1 \in 0 .. L
      BY <1>1
    <3>2. /\ g[i + 1] = IF i + 1 = 1 THEN s[i + 1] ELSE g[i] \o s[i + 1]
          /\ h[i + 1] = IF i + 1 = 1 THEN a[i + 1] ELSE h[i] \o a[i + 1]
      BY <1>4, <2>3, <3>1
    <3>3. i + 1 # 1 => g[i] = h[i]
      BY <2>5
    <3>4. a[i + 1] = s[i + 1]
      BY <1>2, <3>1
    <3>5. g[i + 1] = h[i + 1]
      BY <3>2, <3>3, <3>4
    <3> QED
      BY <3>1, <3>5
  <2>6. g[L] = h[L]
    <3> HIDE DEF S
    <3>1. \A i \in 0 .. L : i \in S
      BY <1>1, <2>4, <2>5, CountUp
    <3> QED
      BY <1>1, <2>2, <3>1 DEF S
  <2>7. h[L + 1] = h[L] \o e
    <3>1. PICK m \in 1 .. L + 1 : m = L + 1 /\ m # 1 /\ m - 1 = L
      BY <1>1, <2>2
    <3>2. h[m] = h[m - 1] \o a[m]
      BY <1>4, <3>1
    <3>3. a[L + 1] = e
      BY <1>2 DEF L
    <3> QED
      BY <3>1, <3>2, <3>3
  <2> QED
    BY <1>3, <2>1, <2>6, <2>7 DEF a
<1> QED
  BY <1>5, <1>6

\* The rows that an outer row makes with those of a fifo.
LEMMA MakingIs ==
  ASSUME Types, NEW p \in 1 .. Len(outer), NEW s \in Fifos
  PROVE  /\ Making(outer[p], s) \in Seq(Rows)
         /\ s = <<>> => Making(outer[p], s) = <<>>
         /\ s # <<>> => /\ Joined(outer[p], Head(s)) \in Rows /\ Making(outer[p], Tail(s)) \in Seq(Rows)
                        /\ Making(outer[p], s) = <<Joined(outer[p], Head(s))>> \o Making(outer[p], Tail(s))
<1> DEFINE J(t) == Joined(outer[p], t)
<1>1. \A t \in ToSet(inner) : J(t) \in Rows
  <2>1. ASSUME NEW t \in ToSet(inner) PROVE J(t) \in Rows
    <3>1. PICK i \in 1 .. Len(inner) : t = inner[i]
      BY InnerFacts DEF Types
    <3> QED
      BY <3>1 DEF Rows
  <2> QED
    BY <2>1
<1> HIDE DEF J
<1>2. ASSUME NEW f \in Fifos
      PROVE  /\ Making(outer[p], f) = [x \in 1 .. Len(f) |-> J(f[x])]
             /\ Making(outer[p], f) \in Seq(Rows) /\ Len(f) \in Nat
             /\ Len(Making(outer[p], f)) = Len(f)
  <2>1. /\ Len(f) \in Nat /\ DOMAIN f = 1 .. Len(f)
        /\ \A x \in 1 .. Len(f) : f[x] \in ToSet(inner)
    BY SeqFacts DEF Fifos
  <2>2. Making(outer[p], f) = [x \in 1 .. Len(f) |-> J(f[x])]
    BY <2>1 DEF Making, J
  <2>3. [x \in 1 .. Len(f) |-> J(f[x])] \in [1 .. Len(f) -> Rows]
    BY <1>1, <2>1
  <2> QED
    BY <2>1, <2>2, <2>3
<1>3. ASSUME s = <<>> PROVE Making(outer[p], s) = <<>>
  <2>1. Making(outer[p], s) = [x \in 1 .. Len(s) |-> J(s[x])] /\ Len(s) = 0
    BY <1>2, <1>3
  <2>2. [x \in 1 .. 0 |-> J(s[x])] = <<>>
    OBVIOUS
  <2> QED
    BY <2>1, <2>2
<1>4. ASSUME s # <<>>
      PROVE  /\ J(Head(s)) \in Rows /\ Making(outer[p], Tail(s)) \in Seq(Rows)
             /\ Making(outer[p], s) = <<J(Head(s))>> \o Making(outer[p], Tail(s))
  <2>1. /\ Len(s) \in Nat \ {0} /\ Head(s) = s[1] /\ Tail(s) \in Fifos
        /\ Len(Tail(s)) = Len(s) - 1
        /\ \A x \in 1 .. Len(s) : x = 1 \/ (x - 1 \in 1 .. Len(s) - 1 /\ Tail(s)[x - 1] = s[x])
    BY <1>4, TailIs DEF Fifos
  <2> DEFINE a == Making(outer[p], s)
             b == Making(outer[p], Tail(s))
             c == <<J(Head(s))>>
  <2>2. /\ a = [x \in 1 .. Len(s) |-> J(s[x])]
        /\ b = [x \in 1 .. Len(s) - 1 |-> J(Tail(s)[x])]
        /\ b \in Seq(Rows) /\ Len(b) = Len(s) - 1
    BY <1>2, <2>1
  <2>3. J(Head(s)) \in Rows
    <3>1. s[1] \in ToSet(inner)
      BY <2>1, SeqFacts DEF Fifos
    <3> QED
      BY <1>1, <2>1, <3>1
  <2>4. c \in Seq(Rows) /\ Len(c) = 1 /\ c[1] = J(s[1])
    BY <2>1, <2>3
  <2> HIDE DEF a, b, c
  <2>5. /\ c \o b \in Seq(Rows) /\ Len(c \o b) = Len(s)
        /\ \A i \in 1 .. Len(s) : (c \o b)[i] = IF i <= 1 THEN c[i] ELSE b[i - 1]
    <3>1. /\ c \o b \in Seq(Rows) /\ Len(c \o b) = Len(c) + Len(b)
          /\ \A i \in 1 .. Len(c) + Len(b) : (c \o b)[i] = IF i <= Len(c) THEN c[i] ELSE b[i - Len(c)]
      BY <2>2, <2>4, ConcatProperties
    <3>2. Len(c) = 1 /\ Len(b) = Len(s) - 1 /\ Len(c) + Len(b) = Len(s)
      BY <2>1, <2>2, <2>4
    <3> QED
      BY <3>1, <3>2
  <2>6. ASSUME NEW i \in 1 .. Len(s) PROVE (c \o b)[i] = J(s[i])
    <3>1. CASE i = 1
      BY <2>4, <2>5, <3>1
    <3>2. CASE i # 1
      <4>1. i - 1 \in 1 .. Len(s) - 1 /\ Tail(s)[i - 1] = s[i] /\ ~(i <= 1)
        BY <2>1, <3>2
      <4>2. b[i - 1] = J(Tail(s)[i - 1])
        BY <2>2, <4>1
      <4> QED
        BY <2>5, <4>1, <4>2
    <3> QED
      BY <3>1, <3>2
  <2>7. c \o b = [i \in 1 .. Len(s) |-> (c \o b)[i]]
    <3> DEFINE u == c \o b
    <3>1. u \in Seq(Rows) /\ Len(u) = Len(s)
      BY <2>5
    <3> HIDE DEF u
    <3>2. u = [i \in 1 .. Len(s) |-> u[i]]
      BY <3>1
    <3> QED
      BY <3>2 DEF u
  <2>8. c \o b = a
    BY <2>2, <2>6, <2>7
  <2> QED
    BY <2>2, <2>3, <2>8 DEF a, b, c
<1> QED
  BY <1>2, <1>3, <1>4 DEF J

LEMMA RowsOfIs ==
  ASSUME Types, NEW p \in 1 .. Len(outer)
  PROVE  LET key == OuterProj(outer[p])
         IN  /\ RowsOf(p) \in Seq(Rows) /\ WithKey(Len(inner), key) \in Fifos
             /\ Seen(p - 1, key) => RowsOf(p) = <<>>
             /\ ~Seen(p - 1, key) => RowsOf(p) = Making(outer[p], WithKey(Len(inner), key))
<1> DEFINE key == OuterProj(outer[p])
           W == WithKey(Len(inner), key)
<1>1. W \in Fifos
  <2>1. Len(inner) \in 0 .. Len(inner)
    BY InnerFacts DEF Types
  <2> QED
    BY <2>1, WithKeyIs DEF Fifos, Types
<1>2. Making(outer[p], W) \in Seq(Rows) /\ <<>> \in Seq(Rows)
  <2> HIDE DEF W
  <2>1. Making(outer[p], W) \in Seq(Rows)
    BY <1>1, MakingIs
  <2>2. <<>> \in Seq(Rows)
    OBVIOUS
  <2> QED
    BY <2>1, <2>2
<1>3. RowsOf(p) = IF Seen(p - 1, key) THEN <<>> ELSE Making(outer[p], W)
  BY DEF RowsOf, AllOf, Seen, Making
<1> QED
  BY <1>1, <1>2, <1>3

LEMMA MadeIs ==
  ASSUME Types
  PROVE  /\ Made(0) = <<>>
         /\ \A n \in 1 .. Len(outer) : Made(n) = Made(n - 1) \o RowsOf(n)
         /\ \A n \in 0 .. Len(outer) : Made(n) \in Seq(Rows)
<1> DEFINE F(n) == [p \in 1 .. n |-> RowsOf(p)]
<1>1. Len(outer) \in Nat
  BY OuterFacts DEF Types
<1>2. \A p \in 1 .. Len(outer) : RowsOf(p) \in Seq(Rows)
  BY RowsOfIs
<1>3. ASSUME NEW n \in 0 .. Len(outer)
      PROVE  F(n) \in Seq(Seq(Rows)) /\ Len(F(n)) = n
  <2> DEFINE Y == Seq(Rows)
  <2>1. \A p \in 1 .. n : RowsOf(p) \in Y
    BY <1>1, <1>2
  <2> HIDE DEF Y
  <2>2. F(n) \in [1 .. n -> Y] /\ n \in Nat
    BY <1>1, <2>1
  <2>3. F(n) \in Seq(Y) /\ Len(F(n)) = n
    BY <2>2
  <2> QED
    BY <2>3 DEF Y
<1>4. Made(0) = <<>>
  <2>1. F(0) = <<>>
    OBVIOUS
  <2>2. FlattenSeq(<<>>) = <<>>
    BY DEF FlattenSeq
  <2> QED
    BY <2>1, <2>2 DEF Made
<1>5. ASSUME NEW n \in 1 .. Len(outer) PROVE Made(n) = Made(n - 1) \o RowsOf(n)
  <2>1. n \in 0 .. Len(outer) /\ n - 1 \in 0 .. Len(outer) /\ n - 1 + 1 = n /\ n \in Nat
    BY <1>1
  <2>2. F(n) = Append(F(n - 1), RowsOf(n))
    <3> DEFINE Y == Seq(Rows)
               a == Append(F(n - 1), RowsOf(n))
    <3>1. F(n - 1) \in Seq(Y) /\ Len(F(n - 1)) = n - 1 /\ RowsOf(n) \in Y
      BY <1>2, <1>3, <2>1
    <3>2. \A i \in 1 .. n - 1 : F(n - 1)[i] = RowsOf(i)
      OBVIOUS
    <3> HIDE DEF Y, F
    <3>3. a \in Seq(Y) /\ Len(a) = n /\ a[n] = RowsOf(n) /\ \A i \in 1 .. n - 1 : a[i] = RowsOf(i)
      BY <2>1, <3>1, <3>2
    <3> HIDE DEF a
    <3>4. a = [i \in 1 .. n |-> a[i]]
      BY <3>3
    <3>5. \A i \in 1 .. n : a[i] = RowsOf(i)
      BY <2>1, <3>3
    <3>6. a = F(n)
      BY <3>4, <3>5 DEF F
    <3> QED
      BY <3>6 DEF a
  <2>3. F(n - 1) \in Seq(Seq(Rows)) /\ RowsOf(n) \in Seq(Rows)
    BY <1>2, <1>3, <2>1
  <2> HIDE DEF F
  <2>4. FlattenSeq(F(n)) = FlattenSeq(F(n - 1)) \o RowsOf(n)
    BY <2>2, <2>3, FlattenAdd
  <2> QED
    BY <2>4 DEF Made, F
<1>6. \A n \in 0 .. Len(outer) : Made(n) \in Seq(Rows)
  <2> DEFINE S == {n \in 0 .. Len(outer) : Made(n) \in Seq(Rows)}
  <2>1. 0 \in S
    <3>1. <<>> \in Seq(Rows) /\ 0 \in 0 .. Len(outer)
      BY <1>1
    <3> QED
      BY <1>4, <3>1
  <2>2. ASSUME NEW n \in 0 .. Len(outer) - 1, n \in S PROVE n + 1 \in S
    <3>1. n + 1 \in 1 .. Len(outer) /\ n + 1 \in 0 .. Len(outer) /\ n + 1 - 1 = n
      BY <1>1
    <3>2. Made(n + 1) = Made(n) \o RowsOf(n + 1) /\ RowsOf(n + 1) \in Seq(Rows)
      BY <1>2, <1>5, <3>1
    <3>3. Made(n + 1) \in Seq(Rows)
      <4>1. Made(n) \in Seq(Rows)
        BY <2>2
      <4>2. \A u, v \in Seq(Rows) : u \o v \in Seq(Rows)
        BY ConcatProperties
      <4> QED
        BY <3>2, <4>1, <4>2
    <3> QED
      BY <3>1, <3>3
  <2> HIDE DEF S
  <2>3. \A n \in 0 .. Len(outer) : n \in S
    BY <1>1, <2>1, <2>2, CountUp
  <2> QED
    BY <2>3 DEF S
<1> QED
  BY <1>4, <1>5, <1>6

LEMMA MadeSkips ==
  ASSUME Types, NEW a \in 0 .. Len(outer), NEW b \in a .. Len(outer),
         \A q \in a + 1 .. b : RowsOf(q) = <<>>
  PROVE  Made(b) = Made(a)
<1> DEFINE S == {d \in 0 .. b - a : Made(a + d) = Made(a)}
<1>1. Len(outer) \in Nat /\ b - a \in Nat /\ a \in Nat /\ b \in Nat
  BY OuterFacts DEF Types
<1>2. 0 \in S
  <2>1. a + 0 = a /\ 0 \in 0 .. b - a
    BY <1>1
  <2> QED
    BY <2>1
<1>3. ASSUME NEW d \in 0 .. b - a - 1, d \in S PROVE d + 1 \in S
  <2>1. /\ a + (d + 1) \in 1 .. Len(outer) /\ a + (d + 1) - 1 = a + d /\ a + (d + 1) \in a + 1 .. b
        /\ a + d \in 0 .. Len(outer) /\ d + 1 \in 0 .. b - a
    BY <1>1
  <2> DEFINE m == a + (d + 1)
  <2>2. Made(a + d) = Made(a)
    BY <1>3
  <2>3. m \in 1 .. Len(outer) /\ m - 1 = a + d /\ m \in a + 1 .. b
    BY <2>1
  <2> HIDE DEF m
  <2>4. Made(m) = Made(m - 1) \o RowsOf(m) /\ RowsOf(m) = <<>> /\ Made(a + d) \in Seq(Rows)
    BY <2>1, <2>3, MadeIs
  <2>5. Made(m) = Made(a)
    BY <2>2, <2>3, <2>4
  <2> QED
    BY <2>1, <2>5 DEF m
<1>4. \A d \in 0 .. b - a : d \in S
  <2> DEFINE L == b - a
  <2>1. L \in Nat /\ 0 \in S /\ \A d \in 0 .. L - 1 : d \in S => d + 1 \in S
    BY <1>1, <1>2, <1>3
  <2> HIDE DEF S, L
  <2>2. \A d \in 0 .. L : d \in S
    BY <2>1, CountUp
  <2> QED
    BY <2>2 DEF L
<1>5. b - a \in 0 .. b - a /\ a + (b - a) = b
  BY <1>1
<1>6. b - a \in S
  BY <1>4, <1>5
<1>7. Made(a + (b - a)) = Made(a)
  BY <1>6
<1> QED
  BY <1>5, <1>7

LEMMA PendingIs ==
  ASSUME IInv, NEW j \in Join
  PROVE  /\ \A p \in 1 .. Len(outer) :
              On(env[j], p) => Pending(j) = Making(outer[p], Found(OuterProj(outer[p])))
         /\ env[j] # Closed /\ ~HasInner(env[j].current_inner) => Pending(j) = <<>>
<1> USE DEF IInv
<1>1. ASSUME NEW p \in 1 .. Len(outer), On(env[j], p)
      PROVE  /\ Pending(j) = Making(outer[p], Found(OuterProj(outer[p])))
             /\ env[j].current_inner = Lookup(p)
  <2> DEFINE key == OuterProj(outer[p])
  <2>1. env[j] = [cursor |-> p + 1, current_inner |-> Lookup(p), current_outer |-> outer[p]]
        /\ Lookup(p) # NULL
    BY <1>1 DEF On
  <2>2. env[j].current_outer = outer[p] /\ env[j].current_inner = Lookup(p)
    BY <2>1
  <2>3. Pending(j) = Making(outer[p], fifo[Lookup(p)])
    BY <1>1, <2>2 DEF Pending
  <2>4. key \in Keys /\ Lookup(p) = At(key)
    BY OuterKeyIs
  <2>5. Found(key) = fifo[Lookup(p)]
    BY <2>1, <2>4, FoundIs
  <2> QED
    BY <2>2, <2>3, <2>5
<1>2. ASSUME ~HasInner(env[j].current_inner) PROVE Pending(j) = <<>>
  <2>1. SUFFICES ASSUME NEW p \in 1 .. Len(outer), On(env[j], p) PROVE Pending(j) = <<>>
    BY DEF Pending
  <2> DEFINE key == OuterProj(outer[p])
  <2>2. Found(key) = <<>> /\ key \in Keys
    BY <1>1, <1>2, <2>1, OuterKeyIs
  <2>3. Found(key) \in Fifos
    BY <2>2, FoundIs
  <2> HIDE DEF key
  <2>4. Making(outer[p], Found(key)) = <<>>
    BY <2>2, <2>3, MakingIs
  <2> QED
    BY <1>1, <2>1, <2>4 DEF key
<1> QED
  BY <1>1, <1>2

\* A join that is alone and has nothing pending, at the outer rows that it skips
\* and at the one where it stops.
LEMMA Skips ==
  ASSUME IInv, NEW j \in Join, Alone(j), env[j] # Closed, ~HasInner(env[j].current_inner),
         NEW q \in env[j].cursor .. Len(outer) + 1,
         \A x \in env[j].cursor .. q - 1 : ~HasInner(Lookup(x))
  PROVE  /\ res[j] = Made(q - 1)
         /\ \A k \in Keys : IF Seen(q - 1, k) THEN Found(k) = <<>> ELSE Found(k) = WithKey(Len(inner), k)
<1> USE DEF IInv
<1> DEFINE c == env[j].cursor
<1>1. /\ Len(outer) \in Nat /\ c \in 1 .. Len(outer) + 1
      /\ \A p \in 1 .. Len(outer) : On(env[j], p) => env[j].current_inner = Lookup(p)
  BY EnvironmentIs
<1>2. Done(j) = c - 1
  BY DEF Done
<1>3. /\ res[j] \o Pending(j) = Made(c - 1)
      /\ \A k \in Keys :
           IF Seen(c - 1, k)
           THEN Found(k) = <<>> \/ \E p \in 1 .. Len(outer) : On(env[j], p) /\ k = OuterProj(outer[p])
           ELSE Found(k) = WithKey(Len(inner), k)
  BY <1>2 DEF TakesAll
<1> HIDE DEF c
<1>4. ASSUME NEW k \in Keys, Seen(c - 1, k) PROVE Found(k) = <<>>
  <2>1. SUFFICES ASSUME NEW p \in 1 .. Len(outer), On(env[j], p), k = OuterProj(outer[p])
                 PROVE  Found(k) = <<>>
    BY <1>3, <1>4
  <2>2. ~HasInner(Lookup(p))
    BY <1>1, <2>1
  <2> QED
    BY <2>1, <2>2, OuterKeyIs
<1>5. ASSUME NEW x \in c .. q - 1 PROVE x \in 1 .. Len(outer) /\ Found(OuterProj(outer[x])) = <<>>
  <2>1. x \in 1 .. Len(outer)
    BY <1>1 DEF c
  <2>2. ~HasInner(Lookup(x))
    BY DEF c
  <2> QED
    BY <2>1, <2>2, OuterKeyIs
<1>6. c - 1 \in 0 .. Len(outer) /\ q - 1 \in c - 1 .. Len(outer) /\ q \in Nat /\ c \in Nat /\ q \in c .. Len(outer) + 1
  BY <1>1 DEF c
<1>7. ASSUME NEW k \in Keys
      PROVE  IF Seen(q - 1, k) THEN Found(k) = <<>> ELSE Found(k) = WithKey(Len(inner), k)
  <2>1. CASE Seen(q - 1, k)
    <3>1. PICK x \in 1 .. q - 1 : OuterProj(outer[x]) = k
      BY <2>1 DEF Seen
    <3>2. CASE x \in c .. q - 1
      BY <1>5, <2>1, <3>1, <3>2
    <3>3. CASE x \in 1 .. c - 1
      BY <1>4, <2>1, <3>1, <3>3 DEF Seen
    <3> QED
      BY <1>6, <3>2, <3>3
  <2>2. CASE ~Seen(q - 1, k)
    <3>1. ~Seen(c - 1, k)
      <4>1. \A x \in 1 .. c - 1 : x \in 1 .. q - 1
        BY <1>6
      <4> QED
        BY <2>2, <4>1 DEF Seen
    <3> QED
      BY <1>3, <2>2, <3>1
  <2> QED
    BY <2>1, <2>2
<1>8. ASSUME NEW x \in c - 1 + 1 .. q - 1 PROVE RowsOf(x) = <<>>
  <2> DEFINE key == OuterProj(outer[x])
  <2>1. x \in c .. q - 1 /\ x - 1 >= c - 1 /\ x \in Nat
    BY <1>6
  <2>2. x \in 1 .. Len(outer) /\ Found(key) = <<>>
    BY <1>5, <2>1
  <2>3. key \in Keys
    BY <2>2, OuterKeyIs
  <2>4. CASE Seen(x - 1, key)
    BY <2>2, <2>4, RowsOfIs
  <2>5. CASE ~Seen(x - 1, key)
    <3>1. ~Seen(c - 1, key)
      <4>1. \A y \in 1 .. c - 1 : y \in 1 .. x - 1
        BY <1>6, <2>1
      <4> QED
        BY <2>5, <4>1 DEF Seen
    <3>2. WithKey(Len(inner), key) = <<>>
      BY <1>3, <2>2, <2>3, <3>1
    <3>3. RowsOf(x) = Making(outer[x], WithKey(Len(inner), key)) /\ WithKey(Len(inner), key) \in Fifos
      BY <2>2, <2>5, RowsOfIs
    <3>4. Making(outer[x], WithKey(Len(inner), key)) = <<>>
      <4> DEFINE W == WithKey(Len(inner), key)
      <4>1. W \in Fifos /\ W = <<>>
        BY <3>2, <3>3
      <4> HIDE DEF W
      <4>2. Making(outer[x], W) = <<>>
        BY <2>2, <4>1, MakingIs
      <4> QED
        BY <4>2 DEF W
    <3> QED
      BY <3>3, <3>4
  <2> QED
    BY <2>4, <2>5
<1>9. Made(q - 1) = Made(c - 1)
  <2> DEFINE a == c - 1
             b == q - 1
  <2>1. a \in 0 .. Len(outer) /\ b \in a .. Len(outer) /\ \A x \in a + 1 .. b : RowsOf(x) = <<>>
    BY <1>6, <1>8
  <2> HIDE DEF a, b
  <2>2. Made(b) = Made(a)
    BY <2>1, MadeSkips
  <2> QED
    BY <2>2 DEF a, b
<1>10. res[j] = Made(c - 1)
  <2>1. Pending(j) = <<>>
    BY PendingIs
  <2>2. res[j] \in Seq(Rows)
    BY DEF Types
  <2>3. res[j] \o <<>> = res[j]
    BY <2>2
  <2> QED
    BY <1>3, <2>1, <2>3
<1> QED
  BY <1>7, <1>9, <1>10

LEMMA NextTakes ==
  ASSUME IInv, NEW j \in Join, index_join_next(j), NEW p \in 1 .. Len(outer), Taken(j, p)
  PROVE  TakesAll'
<1> USE DEF IInv
<1> DEFINE key == OuterProj(outer[p])
           f == Found(key)
           s == res[j]
           e == env[j]
           c == e.cursor
<1>1. /\ inner' = inner /\ outer' = outer /\ ind' = ind /\ scan' = scan /\ opened' = opened
  BY DEF index_join_next
<1>2. /\ e # Closed /\ Goes(e, p) /\ key \in Keys /\ Lookup(p) = At(key) /\ Lookup(p) # NULL
      /\ f # <<>> /\ On(env'[j], p)
      /\ \A k \in Keys : Found(k)' = IF k = key THEN Tail(f) ELSE Found(k)
  BY DEF Taken
<1>3. /\ Done(j)' = p /\ Done(j) = c - 1
      /\ res'[j] = Append(s, Joined(outer[p], Head(f)))
  BY NextPlace
<1>4. opened[j] # 0
  BY <1>2, OpenIs
<1>5. SUFFICES ASSUME Alone(j)
               PROVE  /\ res'[j] \o Pending(j)' = Made(p)
                      /\ \A k \in Keys : k # key =>
                           IF Seen(p, k) THEN Found(k) = <<>> ELSE Found(k) = WithKey(Len(inner), k)
  <2>1. SUFFICES ASSUME NEW i \in Join, Alone(i)'
                 PROVE  /\ res'[i] \o Pending(i)' = Made(Done(i)')
                        /\ \A k \in Keys :
                             IF Seen(Done(i)', k)
                             THEN Found(k)' = <<>> \/ \E q \in 1 .. Len(outer) : On(env'[i], q) /\ k = OuterProj(outer[q])
                             ELSE Found(k)' = WithKey(Len(inner), k)
    <3>1. Keys' = Keys
      BY <1>1, SameRelations
    <3>2. ASSUME NEW i \in Join PROVE Made(Done(i))' = Made(Done(i)')
      <4>1. \A q : RowsOf(q)' = RowsOf(q)
        BY <1>1, SameRelations
      <4> QED
        BY <4>1 DEF Made
    <3>3. ASSUME NEW i \in Join, NEW k PROVE Seen(Done(i), k)' <=> Seen(Done(i)', k)
      BY <1>1 DEF Seen
    <3>4. ASSUME NEW i \in Join, NEW q PROVE On(env[i], q)' <=> On(env'[i], q)
      BY <1>1 DEF On, Lookup
    <3>5. ASSUME NEW k PROVE WithKey(Len(inner), k)' = WithKey(Len(inner), k)
      BY <1>1 DEF WithKey, Where
    <3> QED
      BY <1>1, <2>1, <3>1, <3>2, <3>3, <3>4, <3>5 DEF TakesAll
  <2>2. i = j /\ Alone(j)
    BY <1>1, <1>4, <2>1 DEF Alone
  <2>3. /\ res'[j] \o Pending(j)' = Made(p)
        /\ \A k \in Keys : k # key =>
             IF Seen(p, k) THEN Found(k) = <<>> ELSE Found(k) = WithKey(Len(inner), k)
    BY <1>5, <2>2
  <2>4. Seen(p, key)
    <3>1. p \in 1 .. p
      BY OuterFacts DEF Types
    <3> QED
      BY <3>1 DEF Seen
  <2> HIDE DEF key
  <2>5. ASSUME NEW k \in Keys
        PROVE  IF Seen(p, k)
               THEN Found(k)' = <<>> \/ \E q \in 1 .. Len(outer) : On(env'[j], q) /\ k = OuterProj(outer[q])
               ELSE Found(k)' = WithKey(Len(inner), k)
    <3>1. CASE k = key
      BY <1>2, <2>4, <3>1 DEF key
    <3>2. CASE k # key
      BY <1>2, <2>3, <3>2
    <3> QED
      BY <3>1, <3>2
  <2> QED
    BY <1>3, <2>2, <2>3, <2>5
<1>6. f \in Fifos /\ s \in Seq(Rows)
  BY <1>2, FoundIs DEF Types
<1>7. Pending(j)' = Making(outer[p], Tail(f))
  <2>1. env'[j].current_outer = outer[p] /\ env'[j].current_inner = Lookup(p)
    BY <1>2 DEF On
  <2>2. Pending(j)' = Making(outer[p], fifo'[Lookup(p)])
    <3>1. \E q \in 1 .. Len(outer') : On(env[j], q)'
      <4>1. Lookup(p)' = Lookup(p)
        BY <1>1, SameIndex
      <4>2. On(env[j], p)'
        BY <1>1, <1>2, <4>1 DEF On
      <4> QED
        BY <1>1, <4>2
    <3> QED
      BY <2>1, <3>1 DEF Pending, Making
  <2>3. Found(key)' = fifo'[Lookup(p)]
    <3>1. At(key)' = Lookup(p)
      BY <1>1, <1>2 DEF At
    <3>2. Found(key)' = IF At(key)' = NULL THEN <<>> ELSE fifo'[At(key)']
      BY <1>1 DEF Found, At
    <3> QED
      BY <1>2, <3>1, <3>2
  <2>4. Found(key)' = Tail(f)
    <3>1. \A k \in Keys : k = key => Found(k)' = Tail(f)
      BY <1>2
    <3>2. PICK k \in Keys : k = key
      BY <1>2
    <3>3. Found(key)' = Found(k)'
      BY <1>1, <3>2 DEF Found
    <3> QED
      BY <3>1, <3>2, <3>3
  <2> QED
    BY <2>2, <2>3, <2>4
<1>8. /\ s \o Making(outer[p], f) = Made(p)
      /\ \A k \in Keys : k # key =>
           IF Seen(p, k) THEN Found(k) = <<>> ELSE Found(k) = WithKey(Len(inner), k)
  <2>1. CASE On(e, p)
    <3>1. Pending(j) = Making(outer[p], f)
      BY <2>1, PendingIs
    <3>2. p = c - 1
      BY <1>2, <2>1, EnvironmentIs
    <3>3. /\ s \o Pending(j) = Made(p)
          /\ \A k \in Keys :
               IF Seen(p, k)
               THEN Found(k) = <<>> \/ \E q \in 1 .. Len(outer) : On(e, q) /\ k = OuterProj(outer[q])
               ELSE Found(k) = WithKey(Len(inner), k)
      BY <1>3, <1>5, <3>2 DEF TakesAll
    <3>4. \A q \in 1 .. Len(outer) : On(e, q) => q = p
      BY <1>2, <3>2, EnvironmentIs
    <3> HIDE DEF e, f, s, c
    <3> QED
      BY <3>1, <3>3, <3>4
  <2>2. CASE ~On(e, p)
    <3>1. /\ p \in c .. Len(outer) /\ ~HasInner(e.current_inner)
          /\ \A q \in c .. p - 1 : ~HasInner(Lookup(q))
      BY <1>2, <2>2 DEF Goes
    <3>2. p \in c .. Len(outer) + 1 /\ Len(outer) \in Nat /\ c \in 1 .. Len(outer) + 1
      BY <1>2, <3>1, EnvironmentIs
    <3>3. /\ s = Made(p - 1)
          /\ \A k \in Keys : IF Seen(p - 1, k) THEN Found(k) = <<>> ELSE Found(k) = WithKey(Len(inner), k)
      BY <1>2, <1>5, <3>1, <3>2, Skips
    <3>4. ~Seen(p - 1, key) /\ f = WithKey(Len(inner), key)
      BY <1>2, <3>3
    <3>5. RowsOf(p) = Making(outer[p], f)
      BY <3>4, RowsOfIs
    <3>6. Made(p) = Made(p - 1) \o RowsOf(p)
      BY MadeIs
    <3>7. ASSUME NEW k \in Keys, k # key PROVE Seen(p, k) <=> Seen(p - 1, k)
      <4>1. \A q : q \in 1 .. p <=> q \in 1 .. p - 1 \/ q = p
        BY <3>2
      <4> QED
        BY <3>7, <4>1 DEF Seen
    <3> HIDE DEF f, s, key
    <3> QED
      BY <3>3, <3>5, <3>6, <3>7
  <2> QED
    BY <2>1, <2>2
<1>9. res'[j] \o Pending(j)' = s \o Making(outer[p], f)
  <2> DEFINE r == Joined(outer[p], Head(f))
             u == Making(outer[p], Tail(f))
  <2>1. r \in Rows /\ u \in Seq(Rows) /\ Making(outer[p], f) = <<r>> \o u
    BY <1>2, <1>6, MakingIs
  <2>2. res'[j] = Append(s, r) /\ Pending(j)' = u
    BY <1>3, <1>7
  <2> HIDE DEF r, u, s, f
  <2>3. Append(s, r) = s \o <<r>> /\ <<r>> \in Seq(Rows)
    BY <1>6, <2>1, AppendIsConcat
  <2>4. (s \o <<r>>) \o u = s \o (<<r>> \o u)
    BY <1>6, <2>1, <2>3, ConcatAssociative
  <2> QED
    BY <2>1, <2>2, <2>3, <2>4
<1> QED
  BY <1>8, <1>9

LEMMA NextInv ==
  ASSUME IInv, NEW j \in Join, index_join_next(j)
  PROVE  IInv'
<1>1. PICK p \in 1 .. Len(outer) : Taken(j, p)
  BY RowTaken
<1>2. Types' /\ OwnFifos' /\ BuiltFirst' /\ Environments'
  BY <1>1, NextShared
<1>3. InOrder' /\ Once' /\ TakesAll'
  BY <1>1, NextInOrder, NextOnce, NextTakes
<1> QED
  BY <1>2, <1>3 DEF IInv

-----------------------------------------------------------------------------
(* The other steps.                                                        *)

\* A step that touches neither the index nor the fifos.
LEMMA QuietShared ==
  ASSUME IInv, inner' = inner, outer' = outer, ind' = ind, scan' = scan, fifo' = fifo
  PROVE  /\ Keys' = Keys /\ OwnFifos' /\ (Relation(inner, InnerAttrs))' /\ (Relation(outer, OuterAttrs))'
         /\ scan' \in 1 .. Len(inner') + 1 /\ ind' \in Indexes(Schema, Nat)[0]
         /\ fifo' \in Seq(Fifos') /\ Rows' = Rows
<1> USE DEF IInv
<1>1. Keys' = Keys /\ Rows' = Rows /\ Fifos' = Fifos
  BY SameRelations
<1>2. (Relation(inner, InnerAttrs))' /\ (Relation(outer, OuterAttrs))'
  BY SameRelations DEF Types
<1>3. \A k : At(k)' = At(k) /\ Found(k)' = Found(k)
  BY SameIndex
<1>4. OwnFifos'
  BY <1>1, <1>3 DEF OwnFifos
<1> QED
  BY <1>1, <1>2, <1>4 DEF Types

LEMMA CursorInv ==
  ASSUME IInv, inner' = inner, outer' = outer, ind' = ind, scan' = scan, fifo' = fifo,
         env' = env, res' = res, opened' = opened
  PROVE  IInv'
<1> USE DEF IInv
<1>1. Keys' = Keys /\ Rows' = Rows /\ OwnFifos'
  BY QuietShared
<1>2. Types'
  BY QuietShared DEF Types
<1>3. Built' <=> Built
  BY SameIndex
<1>4. Unused' <=> Unused
  BY DEF Unused
<1>5. \A k : Found(k)' = Found(k)
  BY SameIndex
<1>6. BuiltFirst'
  <2>1. ASSUME NEW k PROVE WithKey(scan - 1, k)' = WithKey(scan - 1, k)
    BY DEF WithKey, Where
  <2> QED
    BY <1>1, <1>3, <1>4, <1>5, <2>1 DEF BuiltFirst
<1>7. ASSUME NEW j, NEW p PROVE On(env[j], p)' <=> On(env[j], p)
  BY DEF On, Lookup
<1>8. Environments'
  BY <1>7 DEF Environments, Fresh
<1>9. ASSUME NEW j PROVE Done(j)' = Done(j) /\ Pending(j)' = Pending(j)
  BY <1>7 DEF Done, Pending, Making
<1>10. InOrder'
  BY <1>9 DEF InOrder, Makes
<1>11. Once'
  <2>1. ASSUME NEW t PROVE (Here(t)' <=> Here(t)) /\ Outs(t)' = Outs(t)
    BY <1>5 DEF Here, Outs
  <2> QED
    BY <1>3, <2>1 DEF Once
<1>12. TakesAll'
  <2>1. ASSUME NEW j \in Join PROVE Made(Done(j))' = Made(Done(j))
    <3>1. \A q : RowsOf(q)' = RowsOf(q)
      BY SameRelations
    <3>2. Done(j)' = Done(j)
      BY <1>9
    <3> QED
      BY <3>1, <3>2 DEF Made
  <2>2. ASSUME NEW j \in Join, NEW k PROVE Seen(Done(j), k)' <=> Seen(Done(j), k)
    BY <1>9 DEF Seen
  <2>3. ASSUME NEW k PROVE WithKey(Len(inner), k)' = WithKey(Len(inner), k)
    BY DEF WithKey, Where
  <2>4. ASSUME NEW j \in Join PROVE Alone(j)' <=> Alone(j)
    BY DEF Alone
  <2> QED
    BY <1>1, <1>5, <1>7, <1>9, <2>1, <2>2, <2>3, <2>4 DEF TakesAll
<1> QED
  BY <1>1, <1>2, <1>6, <1>8, <1>10, <1>11, <1>12

LEMMA OpenInv ==
  ASSUME IInv, NEW j \in Join, index_join_init(j)
  PROVE  IInv'
<1> USE DEF IInv
<1> DEFINE e == [Closed EXCEPT !.cursor = seq_scan_init]
<1>1. /\ Built /\ env[j] = Closed
      /\ env' = [env EXCEPT ![j] = e] /\ res' = [res EXCEPT ![j] = <<>>]
      /\ opened' = [opened EXCEPT ![j] = @ + 1]
      /\ inner' = inner /\ outer' = outer /\ ind' = ind /\ scan' = scan /\ fifo' = fifo
  BY DEF index_join_init, fifo_new
<1>2. e.cursor = 1 /\ e.current_inner = NULL /\ e # Closed /\ Fresh(e)
  <2>1. e.cursor = 1 /\ e.current_inner = NULL /\ Fresh(e)
    BY DEF Closed, seq_scan_init, Fresh
  <2>2. Closed.cursor # 1
    BY NoNulls DEF Closed, seq_scan
  <2> QED
    BY <2>1, <2>2
<1> HIDE DEF e
<1>3. /\ env'[j] = e /\ res'[j] = <<>> /\ opened[j] \in Nat /\ opened'[j] = opened[j] + 1
      /\ \A k \in Join \ {j} : env'[k] = env[k] /\ res'[k] = res[k] /\ opened'[k] = opened[k]
  BY <1>1 DEF Types
<1>4. Keys' = Keys /\ Rows' = Rows /\ OwnFifos'
  BY <1>1, QuietShared
<1>5. Types'
  <2>1. env' = [k \in Join |-> env'[k]]
    <3>1. env = [k \in Join |-> env[k]]
      BY DEF Types
    <3> QED
      BY <1>1, <3>1
  <2>2. res' \in [Join -> Seq(Rows')] /\ opened' \in [Join -> Nat]
    <3>1. <<>> \in Seq(Rows)
      OBVIOUS
    <3>2. res \in [Join -> Seq(Rows)] /\ opened \in [Join -> Nat]
      BY DEF Types
    <3> QED
      BY <1>1, <1>4, <3>1, <3>2
  <2> QED
    BY <1>1, <2>1, <2>2, QuietShared DEF Types
<1>6. ~Unused' /\ Built'
  <2>1. opened'[j] # 0
    BY <1>3
  <2> QED
    BY <1>1, <2>1, SameIndex DEF Unused
<1>7. BuiltFirst'
  <2>1. ASSUME NEW k \in Join, opened'[k] = 0 PROVE env'[k] = Closed /\ res'[k] = <<>>
    <3>1. k # j
      BY <1>3, <2>1
    <3> QED
      BY <1>3, <2>1, <3>1 DEF BuiltFirst
  <2> QED
    BY <1>6, <2>1 DEF BuiltFirst
<1>8. \A k \in Join : \A p : On(env[k], p)' <=> On(env'[k], p)
  BY <1>1 DEF On, Lookup
<1>9. \A p : ~On(e, p)
  BY <1>2 DEF On
<1>10. Environments'
  <2>1. ASSUME NEW k \in Join
        PROVE  env'[k] = Closed \/ Fresh(env'[k]) \/ \E p \in 1 .. Len(outer) : On(env'[k], p)
    BY <1>2, <1>3, <2>1 DEF Environments
  <2> QED
    BY <1>1, <1>8, <2>1 DEF Environments, Fresh
<1>11. ASSUME NEW k \in Join \ {j} PROVE Done(k)' = Done(k)
  BY <1>1, <1>3 DEF Done
<1>12. InOrder'
  <2>1. ASSUME NEW k \in Join, NEW n \in DOMAIN res'[k]
        PROVE  /\ \E q \in 1 .. Done(k)' : Makes(q, res'[k][n])
               /\ \A m \in 1 .. n : \E p, q \in 1 .. Len(outer) :
                    p <= q /\ Makes(p, res'[k][m]) /\ Makes(q, res'[k][n])
    <3>1. k # j
      BY <1>3, <2>1
    <3> QED
      BY <1>3, <1>11, <2>1, <3>1 DEF InOrder
  <2>2. inner' = inner /\ outer' = outer
    BY <1>1
  <2> QED
    BY <2>1, <2>2 DEF InOrder, Makes
<1>13. Once'
  <2>1. ASSUME NEW t \in ToSet(inner)
        PROVE  (Here(t)' <=> Here(t)) /\ \A x \in Outs(t)' : x \in Outs(t)
    <3>1. Found(InnerProj(t))' = Found(InnerProj(t))
      BY <1>1, SameIndex
    <3>2. ASSUME NEW x \in Outs(t)' PROVE x \in Outs(t)
      <4>1. PICK k \in Join : \E n \in DOMAIN res'[k] : x = <<k, n>> /\ From(res'[k][n], t)
        BY <1>1, OutsAre
      <4>2. PICK n \in DOMAIN res'[k] : x = <<k, n>> /\ From(res'[k][n], t)
        BY <4>1
      <4>3. k # j
        BY <1>3, <4>2
      <4> QED
        BY <1>1, <1>3, <4>2, <4>3, OutsAre
    <3> QED
      BY <1>1, <3>1, <3>2 DEF Here
  <2> QED
    BY <1>1, <2>1 DEF Once
<1>14. TakesAll'
  <2>1. SUFFICES ASSUME NEW i \in Join, Alone(i)'
                 PROVE  /\ res'[i] \o Pending(i)' = Made(Done(i)')
                        /\ \A k \in Keys : ~Seen(Done(i)', k) /\ Found(k) = WithKey(Len(inner), k)
    <3>1. ASSUME NEW i \in Join PROVE Made(Done(i))' = Made(Done(i)')
      <4>1. \A q : RowsOf(q)' = RowsOf(q)
        BY <1>1, SameRelations
      <4> QED
        BY <4>1 DEF Made
    <3>2. ASSUME NEW i \in Join, NEW k PROVE Seen(Done(i), k)' <=> Seen(Done(i)', k)
      BY <1>1 DEF Seen
    <3>3. ASSUME NEW k PROVE WithKey(Len(inner), k)' = WithKey(Len(inner), k)
      BY <1>1 DEF WithKey, Where
    <3>4. \A k : Found(k)' = Found(k)
      BY <1>1, SameIndex
    <3> QED
      BY <1>1, <1>4, <2>1, <3>1, <3>2, <3>3, <3>4 DEF TakesAll
  <2>2. i = j /\ opened[j] = 0 /\ \A k \in Join \ {j} : opened[k] = 0
    <3>1. opened'[j] # 0
      BY <1>3
    <3>2. i = j
      BY <2>1, <3>1 DEF Alone
    <3>3. opened'[j] = 1 /\ \A k \in Join \ {j} : opened'[k] = 0
      BY <2>1, <3>2 DEF Alone
    <3> QED
      BY <1>3, <3>2, <3>3
  <2>3. Unused
    <3>1. \A k \in Join : opened[k] = 0
      BY <2>2
    <3> QED
      BY <3>1 DEF Unused, Types
  <2>4. scan - 1 = Len(inner)
    BY <1>1, BuiltIs
  <2>5. \A k \in Keys : Found(k) = WithKey(Len(inner), k)
    BY <2>3, <2>4 DEF BuiltFirst
  <2>6. Done(i)' = 0
    BY <1>2, <1>3, <2>2 DEF Done
  <2>7. Pending(i)' = <<>>
    <3>1. \A p : ~On(env[i], p)'
      BY <1>3, <1>8, <1>9, <2>2
    <3> QED
      BY <3>1 DEF Pending
  <2>8. res'[i] \o Pending(i)' = Made(0)
    <3>1. res'[i] = <<>> /\ Made(0) = <<>>
      BY <1>3, <2>2, MadeIs
    <3>2. <<>> \o <<>> = <<>>
      OBVIOUS
    <3> QED
      BY <2>7, <3>1, <3>2
  <2>9. \A k : ~Seen(0, k)
    BY DEF Seen
  <2> QED
    BY <2>5, <2>6, <2>8, <2>9
<1> QED
  BY <1>4, <1>5, <1>7, <1>10, <1>12, <1>13, <1>14

LEMMA CloseInv ==
  ASSUME IInv, NEW j \in Join, index_join_close(j)
  PROVE  IInv'
<1> USE DEF IInv
<1> DEFINE c == env[j].cursor
           L == Len(outer)
<1>1. /\ env[j] # Closed /\ Advance(env[j]).current_outer = NULL
      /\ env' = [env EXCEPT ![j] = [Closed EXCEPT !.cursor = seq_scan_close]]
      /\ inner' = inner /\ outer' = outer /\ ind' = ind /\ scan' = scan /\ fifo' = fifo
      /\ res' = res /\ opened' = opened
  BY DEF index_join_close
<1>2. /\ env'[j] = Closed
      /\ \A k \in Join \ {j} : env'[k] = env[k]
  <2>1. [Closed EXCEPT !.cursor = seq_scan_close] = Closed
    BY DEF Closed, seq_scan, seq_scan_close
  <2>2. env = [k \in Join |-> env[k]]
    BY DEF Types
  <2> QED
    BY <1>1, <2>1, <2>2
<1>3. Keys' = Keys /\ Rows' = Rows /\ OwnFifos'
  BY <1>1, QuietShared
<1>4. Types'
  <2>1. env' = [k \in Join |-> env'[k]]
    <3>1. env = [k \in Join |-> env[k]]
      BY DEF Types
    <3> QED
      BY <1>1, <3>1
  <2> QED
    BY <1>1, <1>3, <2>1, QuietShared DEF Types
<1>5. ~Unused' /\ Built' /\ opened[j] # 0
  BY <1>1, OpenIs, SameIndex DEF Unused
<1>6. BuiltFirst'
  <2>1. ASSUME NEW k \in Join, opened'[k] = 0 PROVE env'[k] = Closed /\ res'[k] = <<>>
    BY <1>1, <1>2, <1>5, <2>1 DEF BuiltFirst
  <2> QED
    BY <1>5, <2>1 DEF BuiltFirst
<1>7. \A k \in Join : \A p : On(env[k], p)' <=> On(env'[k], p)
  BY <1>1 DEF On, Lookup
<1>8. \A p \in 1 .. L : ~On(Closed, p)
  <2>1. SUFFICES ASSUME NEW p \in 1 .. L, On(Closed, p) PROVE FALSE
    OBVIOUS
  <2>2. Closed.cursor = p + 1 /\ p + 1 \in Nat
    BY <2>1, OuterFacts DEF On, Types
  <2>3. Closed.cursor = NULL
    BY DEF Closed, seq_scan
  <2> QED
    BY <2>2, <2>3, NoNulls
<1>9. Environments'
  <2>1. ASSUME NEW k \in Join
        PROVE  env'[k] = Closed \/ Fresh(env'[k]) \/ \E p \in 1 .. Len(outer) : On(env'[k], p)
    BY <1>2, <2>1 DEF Environments
  <2> QED
    BY <1>1, <1>7, <2>1 DEF Environments, Fresh
<1>10. /\ Len(outer) \in Nat /\ c \in 1 .. Len(outer) + 1 /\ Done(j) = c - 1 /\ Done(j)' = Len(outer)
       /\ \A k \in Join \ {j} : Done(k)' = Done(k)
  <2>1. Len(outer) \in Nat /\ c \in 1 .. Len(outer) + 1
    BY <1>1, EnvironmentIs
  <2>2. Done(j) = c - 1 /\ Done(j)' = Len(outer)
    BY <1>1, <1>2 DEF Done
  <2>3. ASSUME NEW k \in Join \ {j} PROVE Done(k)' = Done(k)
    BY <1>1, <1>2 DEF Done
  <2> QED
    BY <2>1, <2>2, <2>3
<1> HIDE DEF c
<1>11. InOrder'
  <2>1. ASSUME NEW k \in Join, NEW n \in DOMAIN res'[k]
        PROVE  /\ \E q \in 1 .. Done(k)' : Makes(q, res'[k][n])
               /\ \A m \in 1 .. n : \E p, q \in 1 .. Len(outer) :
                    p <= q /\ Makes(p, res'[k][m]) /\ Makes(q, res'[k][n])
    <3>1. /\ \E q \in 1 .. Done(k) : Makes(q, res[k][n])
          /\ \A m \in 1 .. n : \E p, q \in 1 .. Len(outer) :
               p <= q /\ Makes(p, res[k][m]) /\ Makes(q, res[k][n])
      BY <1>1, <2>1 DEF InOrder
    <3>2. \A q \in 1 .. Done(k) : q \in 1 .. Done(k)'
      <4>1. CASE k = j
        BY <1>10, <4>1
      <4>2. CASE k # j
        BY <1>10, <4>2
      <4> QED
        BY <4>1, <4>2
    <3> QED
      BY <1>1, <3>1, <3>2
  <2>2. inner' = inner /\ outer' = outer
    BY <1>1
  <2> QED
    BY <2>1, <2>2 DEF InOrder, Makes
<1>12. Once'
  <2>1. ASSUME NEW t PROVE (Here(t)' <=> Here(t)) /\ Outs(t)' = Outs(t)
    <3>1. Found(InnerProj(t))' = Found(InnerProj(t))
      BY <1>1, SameIndex
    <3> QED
      BY <1>1, <3>1 DEF Here, Outs
  <2>2. Built' <=> Built
    BY <1>1, SameIndex
  <2> QED
    BY <1>1, <2>1, <2>2 DEF Once
<1>13. TakesAll'
  <2>1. SUFFICES ASSUME NEW i \in Join, Alone(i)'
                 PROVE  /\ res[i] \o Pending(i)' = Made(Done(i)')
                        /\ \A k \in Keys : IF Seen(Done(i)', k) THEN Found(k) = <<>> ELSE Found(k) = WithKey(Len(inner), k)
    <3>1. ASSUME NEW i \in Join PROVE Made(Done(i))' = Made(Done(i)')
      <4>1. \A q : RowsOf(q)' = RowsOf(q)
        BY <1>1, SameRelations
      <4> QED
        BY <4>1 DEF Made
    <3>2. ASSUME NEW i \in Join, NEW k PROVE Seen(Done(i), k)' <=> Seen(Done(i)', k)
      BY <1>1 DEF Seen
    <3>3. ASSUME NEW k PROVE WithKey(Len(inner), k)' = WithKey(Len(inner), k)
      BY <1>1 DEF WithKey, Where
    <3>4. \A k : Found(k)' = Found(k)
      BY <1>1, SameIndex
    <3> QED
      BY <1>1, <1>3, <2>1, <3>1, <3>2, <3>3, <3>4 DEF TakesAll
  <2>2. i = j /\ Alone(j)
    BY <1>1, <1>5, <2>1 DEF Alone
  <2>3. Pending(j)' = <<>>
    <3>1. \A p \in 1 .. Len(outer') : ~On(env[j], p)'
      BY <1>1, <1>2, <1>7, <1>8
    <3> QED
      BY <3>1 DEF Pending
  <2>4. ~HasInner(env[j].current_inner) /\ \A q \in c .. Len(outer) : ~HasInner(Lookup(q))
    BY <1>1, AdvanceIs DEF c
  <2> DEFINE q == Len(outer) + 1
  <2>5. q \in env[j].cursor .. Len(outer) + 1 /\ q - 1 = Len(outer)
    BY <1>10 DEF c
  <2> HIDE DEF q
  <2>6. \A x \in env[j].cursor .. q - 1 : ~HasInner(Lookup(x))
    BY <2>4, <2>5 DEF c
  <2>7. /\ res[j] = Made(q - 1)
        /\ \A k \in Keys : IF Seen(q - 1, k) THEN Found(k) = <<>> ELSE Found(k) = WithKey(Len(inner), k)
    BY <1>1, <2>2, <2>4, <2>5, <2>6, Skips
  <2>8. res[j] \o <<>> = res[j]
    <3>1. res[j] \in Seq(Rows)
      BY DEF Types
    <3> QED
      BY <3>1
  <2> QED
    BY <1>10, <2>2, <2>3, <2>5, <2>7, <2>8
<1> QED
  BY <1>3, <1>4, <1>6, <1>9, <1>11, <1>12, <1>13

LEMMA StepInv ==
  ASSUME IInv, [Next]_vars
  PROVE  IInv'
<1>1. CASE index_scan
  BY <1>1, ScanInv
<1>2. ASSUME NEW j \in Join, materialize(j) PROVE IInv'
  BY <1>2, OpenInv, NextInv, CloseInv DEF materialize
<1>3. CASE get_cursor \/ move_to_next \/ move_to_first
  BY <1>3, CursorInv DEF get_cursor, move_to_next, move_to_first
<1>4. CASE UNCHANGED vars
  BY <1>4, CursorInv DEF vars
<1> QED
  BY <1>1, <1>2, <1>3, <1>4 DEF Next

-----------------------------------------------------------------------------
(* What is proved.                                                         *)

\* The invariant holds from the start and every step of the index scan, of the
\* joins and of the cursors preserves it.
THEOREM Invariant == Spec => []IInv
<1>1. Init => IInv
  BY InitInv
<1>2. IInv /\ [Next]_vars => IInv'
  BY StepInv
<1> QED
  BY <1>1, <1>2, PTL DEF Spec

\* While index_scan builds the index, the fifo of each key has exactly the rows
\* with that key that were read so far, in the order of the scan.
THEOREM GroupsTheRows == Spec => []IndexGroups
<1>1. IInv => IndexGroups
  BY DEF IInv, BuiltFirst, Unused, IndexGroups
<1> QED
  BY <1>1, Invariant, PTL

\* Every row that index_join_next returns is made of an outer row and an inner
\* row that agree on the join columns, in the order of the outer scan.
THEOREM JoinsMatch == Spec => []JoinMatches
<1>1. IInv => JoinMatches
  <2>1. SUFFICES ASSUME IInv, NEW j \in Join, NEW m \in DOMAIN res[j], NEW n \in DOMAIN res[j], m <= n
                 PROVE  \E p, q \in DOMAIN outer : p <= q /\ Makes(p, res[j][m]) /\ Makes(q, res[j][n])
    BY DEF JoinMatches
  <2>2. DOMAIN outer = 1 .. Len(outer)
    BY OuterFacts DEF IInv, Types
  <2>3. m \in 1 .. n
    <3>1. res[j] \in Seq(Rows)
      BY <2>1 DEF IInv, Types
    <3>2. Len(res[j]) \in Nat /\ DOMAIN res[j] = 1 .. Len(res[j])
      BY <3>1, SeqFacts
    <3> QED
      BY <2>1, <3>2
  <2> QED
    BY <2>1, <2>2, <2>3 DEF IInv, InOrder
<1> QED
  BY <1>1, Invariant, PTL

\* Whatever the joins on one index do, no row comes out of one twice after it was
\* opened: of its outer and its inner row, the inner one was taken out of the index.
THEOREM RowsOnce == Spec => []NoRowTwice
<1>1. IInv => NoRowTwice
  <2>1. SUFFICES ASSUME IInv, NEW j \in Join, NEW m \in DOMAIN res[j], NEW n \in DOMAIN res[j],
                        res[j][m] = res[j][n]
                 PROVE  m = n
    BY DEF NoRowTwice
  <2>2. Len(res[j]) \in Nat /\ DOMAIN res[j] = 1 .. Len(res[j])
    <3>1. res[j] \in Seq(Rows)
      BY <2>1 DEF IInv, Types
    <3> QED
      BY <3>1, SeqFacts
  <2>3. PICK p \in 1 .. Len(outer) : Makes(p, res[j][n])
    <3>1. n \in 1 .. n
      BY <2>2
    <3> QED
      BY <2>1, <3>1 DEF IInv, InOrder
  <2>4. PICK i \in DOMAIN inner : InnerProj(inner[i]) = OuterProj(outer[p]) /\ res[j][n] = Joined(outer[p], inner[i])
    BY <2>3 DEF Makes
  <2> DEFINE t == inner[i]
  <2>5. outer[p] \in ToSet(outer) /\ t \in ToSet(inner)
    BY <2>1, OuterFacts, InnerFacts DEF IInv, Types
  <2>6. <<j, m>> \in Outs(t) /\ <<j, n>> \in Outs(t)
    BY <2>1, <2>4, <2>5 DEF Outs
  <2>7. <<j, m>> = <<j, n>>
    BY <2>1, <2>5, <2>6 DEF IInv, Once
  <2> QED
    BY <2>7
<1> QED
  BY <1>1, Invariant, PTL

\* A join that has the index to itself has, at its end, made the rows of each
\* outer row and no others.
LEMMA FinishedMade ==
  ASSUME IInv, NEW j \in Join, Finished(j)
  PROVE  res[j] = FlattenSeq([p \in DOMAIN outer |-> RowsOf(p)])
<1>1. DOMAIN outer = 1 .. Len(outer) /\ Len(outer) \in Nat
  BY OuterFacts DEF IInv, Types
<1>2. res[j] \o Pending(j) = Made(Len(outer))
  BY DEF IInv, TakesAll, Alone, Done, Finished
<1>3. Pending(j) = <<>>
  <2>1. ASSUME NEW p \in 1 .. Len(outer), On(env[j], p) PROVE FALSE
    <3>1. env[j].cursor = p + 1 /\ p + 1 \in Nat
      BY <1>1, <2>1 DEF On
    <3>2. env[j].cursor = NULL
      BY DEF Closed, seq_scan, Finished
    <3> QED
      BY <3>1, <3>2, NoNulls
  <2> QED
    BY <2>1 DEF Pending
<1>4. res[j] \o <<>> = res[j]
  <2>1. res[j] \in Seq(Rows)
    BY DEF IInv, Types
  <2> QED
    BY <2>1
<1> QED
  BY <1>1, <1>2, <1>3, <1>4 DEF Made

\* If no two outer rows have the same join values, a join that has the index to
\* itself returns what db_operations_light.c:200-203 says: each outer row with all
\* inner rows of its join values, in the order of the two scans.
THEOREM JoinsDistinct == Spec => []JoinOfDistinct
<1>1. IInv => JoinOfDistinct
  <2>1. SUFFICES ASSUME IInv, \A p, q \in DOMAIN outer : OuterProj(outer[p]) = OuterProj(outer[q]) => p = q,
                        NEW j \in Join, Finished(j)
                 PROVE  res[j] = WholeJoin
    BY DEF JoinOfDistinct
  <2>2. DOMAIN outer = 1 .. Len(outer) /\ Len(outer) \in Nat
    BY <2>1, OuterFacts DEF IInv, Types
  <2>3. ASSUME NEW p \in DOMAIN outer PROVE RowsOf(p) = AllOf(p)
    <3>1. ASSUME NEW q \in 1 .. p - 1 PROVE OuterProj(outer[q]) # OuterProj(outer[p])
      <4>1. q \in DOMAIN outer /\ q # p
        BY <2>2
      <4> QED
        BY <2>1, <4>1
    <3> QED
      BY <3>1 DEF RowsOf
  <2>4. [p \in DOMAIN outer |-> RowsOf(p)] = [p \in DOMAIN outer |-> AllOf(p)]
    BY <2>3
  <2>5. res[j] = FlattenSeq([p \in DOMAIN outer |-> RowsOf(p)])
    BY <2>1, FinishedMade
  <2> QED
    BY <2>4, <2>5 DEF WholeJoin
<1> QED
  BY <1>1, Invariant, PTL

\* On a string list the index is one.
LEMMA OnListIs ==
  ASSUME Types, OnList
  PROVE  /\ ind \in Seq([key : STRING, value : Indexes(Schema, Nat)[1]]) /\ ind # NULL
         /\ Len(ind) \in Nat /\ DOMAIN ind = 1 .. Len(ind)
<1>1. IsSchema(Schema) /\ Schema[1] = stringlist_schema /\ stringlist_schema # inthash_schema
  BY SchemaIs DEF stringlist_schema, inthash_schema
<1>2. Indexes(Schema, Nat)[0] = Table(Schema[1], Indexes(Schema, Nat)[1])
  <2>1. 0 \in 0 .. Len(Schema) - 1 /\ 0 + 1 = 1
    BY <1>1, SchemaFacts
  <2>2. Schema \in Seq(Column)
    BY <1>1 DEF IsSchema
  <2> QED
    BY <2>1, <2>2, IndexesAre
<1> DEFINE C == [key : STRING, value : Indexes(Schema, Nat)[1]]
<1>3. Table(Schema[1], Indexes(Schema, Nat)[1]) = Seq(C)
  BY <1>1 DEF Table
<1>4. ind \in Seq(C)
  BY <1>2, <1>3 DEF Types
<1>5. ind # NULL
  <2>1. 0 \in 0 .. Len(Schema)
    BY <1>1, SchemaFacts
  <2> QED
    BY <2>1, NoNulls DEF NoNull, Types
<1> HIDE DEF C
<1>6. Len(ind) \in Nat /\ DOMAIN ind = 1 .. Len(ind)
  BY <1>4, SeqFacts
<1> QED
  BY <1>4, <1>5, <1>6 DEF C

\* The cursor is a number, though at times not one of a pair.
IntCursor == mc \in Int

LEMMA CursorType == Spec => []IntCursor
<1>1. Init => IntCursor
  BY DEF Init, IntCursor
<1>2. IInv /\ IntCursor /\ [Next]_vars => IntCursor'
  <2> SUFFICES ASSUME IInv, mc \in Int, [Next]_vars PROVE mc' \in Int
    BY DEF IntCursor
  <2>1. CASE get_cursor
    <3>1. PICK k : mc' = stringlist_get_cursor(ind, k)
      BY <2>1 DEF get_cursor
    <3>2. DOMAIN ind = 1 .. Len(ind)
      BY <2>1, OnListIs DEF IInv, get_cursor
    <3>3. \A i \in Cells(ind, k) : i \in Int
      BY <3>2 DEF Cells
    <3>4. CASE Cells(ind, k) = {}
      BY <3>1, <3>4 DEF stringlist_get_cursor
    <3>5. CASE Cells(ind, k) # {}
      <4> DEFINE i == CHOOSE i \in Cells(ind, k) : TRUE
      <4>1. i \in Cells(ind, k)
        BY <3>5
      <4>2. mc' = i - 1
        BY <3>1, <3>5 DEF stringlist_get_cursor
      <4> HIDE DEF i
      <4> QED
        BY <3>3, <4>1, <4>2
    <3> QED
      BY <3>4, <3>5
  <2>2. CASE move_to_next
    <3>1. Len(ind) \in Nat
      BY <2>2, OnListIs DEF IInv, move_to_next
    <3>2. mc' = stringlist_move_to_next(ind, mc)
      BY <2>2 DEF move_to_next
    <3>3. mc' = Len(ind) - 1 \/ mc' = mc + 1
      BY <3>2 DEF stringlist_move_to_next, stringlist_cardinality
    <3> QED
      BY <3>1, <3>3
  <2>3. CASE move_to_first
    BY <2>3 DEF move_to_first
  <2>4. CASE index_scan
    BY <2>4 DEF index_scan
  <2>5. ASSUME NEW j \in Join, materialize(j) PROVE mc' = mc
    BY <2>5 DEF materialize, index_join_init, index_join_next, index_join_close
  <2>6. CASE UNCHANGED vars
    BY <2>6 DEF vars
  <2> QED
    BY <2>1, <2>2, <2>3, <2>4, <2>5, <2>6 DEF Next
<1> QED
  BY <1>1, <1>2, Invariant, PTL DEF Spec

\* A cursor on the string list of the first column stays on its pair while rows
\* are added, because the list only grows at its end and a pair that is there
\* keeps its key (stringlist.c, stringlist_insert).
THEOREM KeepsItsPair == Spec => CursorKeepsItsPair
<1>1. IInv /\ IntCursor /\ [Next]_vars =>
        [OnList /\ mc' = mc /\ Valid(ind, mc) =>
           /\ Valid(ind', mc)
           /\ stringlist_get_pair(ind', mc).key = stringlist_get_pair(ind, mc).key]_vars
  <2> SUFFICES ASSUME IInv, mc \in Int, [Next]_vars, OnList, Valid(ind, mc)
               PROVE  /\ Valid(ind', mc)
                      /\ stringlist_get_pair(ind', mc).key = stringlist_get_pair(ind, mc).key
    BY DEF IntCursor
  <2>2. CASE ind' = ind
    BY <2>2
  <2>3. CASE index_scan
    <3> DEFINE t == inner[scan]
               K == InnerProj(t)
               V == Indexes(Schema, Nat)[1]
    <3>1. PICK l \in Nat : ind' = index_insert(Schema, ind, K, l)
      <4>1. /\ seq_scan_next(inner, scan) = t /\ K \in Keys
        BY <2>3, ScanStep, BuiltIs DEF IInv, index_scan
      <4>2. At(K) = NULL \/ At(K) \in Nat
        BY <4>1, FoundIs DEF IInv
      <4>3. Len(fifo) + 1 \in Nat
        BY <4>1, FoundIs DEF IInv
      <4>4. ind' = index_insert(Schema, ind, K, IF At(K) = NULL THEN Len(fifo) + 1 ELSE At(K))
        BY <2>3, <4>1 DEF index_scan, At
      <4> QED
        BY <4>2, <4>3, <4>4
    <3>2. IsSchema(Schema) /\ Schema[1] = stringlist_schema /\ IsKey(Schema, K)
      <4>1. K \in Keys
        BY <2>3, ScanStep DEF IInv
      <4> QED
        BY <4>1, SchemaIs, FoundIs DEF IInv
    <3>3. /\ ind \in Seq([key : STRING, value : V]) /\ ind # NULL
          /\ Len(ind) \in Nat /\ DOMAIN ind = 1 .. Len(ind)
      BY OnListIs DEF IInv
    <3>4. ind \in Indexes(Schema, Nat)[0]
      BY DEF IInv, Types
    <3>5. K[1] \in STRING
      <4>1. 1 \in 1 .. Len(Schema) /\ KeyOf(Schema[1]) = STRING
        BY <3>2, SchemaFacts DEF KeyOf, stringlist_schema, inthash_schema
      <4> QED
        BY <3>2, <4>1 DEF IsKey
    <3> HIDE DEF K, t
    <3>6. PICK x \in V : ind' = schema_insert(Schema[1], ind, K[1], x)
      BY <3>1, <3>2, <3>3, <3>4, FirstColumnPut
    <3>7. ind' = stringlist_insert(ind, K[1], x)
      BY <3>2, <3>6 DEF schema_insert, stringlist_schema, inthash_schema
    <3> HIDE DEF V
    <3>8. ListPut(ind, ind', K[1], x)
      <4>1. ListPut(ind, stringlist_insert(ind, K[1], x), K[1], x)
        BY <3>3, <3>5, <3>6, ListInsert
      <4> QED
        BY <3>7, <4>1
    <3>9. Len(ind') \in Nat /\ Len(ind') >= Len(ind) /\ \A i \in 1 .. Len(ind) : ind'[i].key = ind[i].key
      <4>1. stringlist_insert(ind, K[1], x) \in Seq([key : STRING, value : V])
        BY <3>3, <3>5, <3>6, ListInsert
      <4>2. Len(ind') \in Nat
        BY <3>7, <4>1, SeqFacts
      <4> QED
        BY <3>3, <3>8, <4>2 DEF ListPut
    <3>10. 0 <= mc /\ mc < Len(ind) /\ mc + 1 \in 1 .. Len(ind)
      BY <3>3 DEF Valid, stringlist_cardinality
    <3> QED
      BY <3>3, <3>9, <3>10 DEF Valid, stringlist_cardinality, stringlist_get_pair
  <2>4. ASSUME NEW j \in Join, materialize(j) PROVE ind' = ind
    BY <2>4 DEF materialize, index_join_init, index_join_next, index_join_close
  <2>5. CASE get_cursor \/ move_to_next \/ move_to_first
    BY <2>2, <2>5 DEF get_cursor, move_to_next, move_to_first
  <2>6. CASE UNCHANGED vars
    BY <2>2, <2>6 DEF vars
  <2> QED
    BY <2>2, <2>3, <2>4, <2>5, <2>6 DEF Next
<1> QED
  BY <1>1, Invariant, CursorType, PTL DEF Spec, CursorKeepsItsPair
=============================================================================
