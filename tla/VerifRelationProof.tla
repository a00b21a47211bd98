------------------------- MODULE VerifRelationProof -------------------------
(***************************************************************************)
(* The B+tree of verif/btrees/relation_mem.c stays a B+tree and is a       *)
(* sorted map with a cursor, for any fan-out, keys, records and memory.    *)
(***************************************************************************)
EXTENDS VerifRelationTree, FunctionTheorems

USE FanoutAssumption, KeysAssumption

-----------------------------------------------------------------------------
(* The recursion of Down() defines a function.                             *)

PathOf(h, idx, path) ==
  /\ \A n, above : Down(h, n, idx, above) = above \o path[n]
  /\ \A m \in Used(h) :
       path[m] = IF h[m].isLeaf THEN <<At(m, idx[m])>>
                 ELSE <<At(m, idx[m])>> \o path[Child(h[m], idx[m])]

LEMMA DownPath ==
  ASSUME NEW h, NEW lev, NEW idx, \A m \in Used(h) : lev[m] \in Nat,
         \A m \in Inner(h) : /\ Child(h[m], idx[m]) \in Used(h)
                             /\ lev[Child(h[m], idx[m])] = lev[m] - 1
  PROVE  \E path : PathOf(h, idx, path)
<1> DEFINE Go(f, m) == IF h[m].isLeaf THEN <<At(m, idx[m])>>
                       ELSE <<At(m, idx[m])>> \o f[Child(h[m], idx[m])]
           Is(f) == f = [m \in Used(h) |-> Go(f, m)]
           UpTo(g, v) == \A m \in Used(h) : lev[m] <= v => g[m] = Go(g, m)
           path == CHOOSE f : Is(f)
<1>1. \A n, above : Down(h, n, idx, above) = above \o path[n]
  BY DEF Down
<1>2. ASSUME NEW f, NEW g, NEW m \in Used(h),
             ~h[m].isLeaf => f[Child(h[m], idx[m])] = g[Child(h[m], idx[m])]
      PROVE  Go(f, m) = Go(g, m)
  BY <1>2
<1>3. \A m \in Used(h) : ~h[m].isLeaf => /\ Child(h[m], idx[m]) \in Used(h)
                                         /\ lev[Child(h[m], idx[m])] = lev[m] - 1
  BY DEF Inner
<1> HIDE DEF Go, path
<1>4. ASSUME NEW v \in Nat, NEW f, NEW g, UpTo(f, v), UpTo(g, v)
      PROVE  \A m \in Used(h) : lev[m] <= v => f[m] = g[m]
  <2> DEFINE T == {i \in Nat : i <= v /\ \E m \in Used(h) : lev[m] = i /\ f[m] # g[m]}
  <2>1. SUFFICES ASSUME T # {} PROVE FALSE
    OBVIOUS
  <2>2. PICK i \in T : \A x \in T : i <= x
    BY <2>1, LeastNat
  <2>3. PICK m \in Used(h) : lev[m] = i /\ f[m] # g[m]
    BY <2>2
  <2>4. f[m] = Go(f, m) /\ g[m] = Go(g, m)
    BY <1>4, <2>2, <2>3
  <2> DEFINE c == Child(h[m], idx[m])
  <2>5. ASSUME ~h[m].isLeaf PROVE f[c] = g[c]
    <3>1. c \in Used(h) /\ lev[c] = i - 1 /\ lev[c] \in Nat
      BY <1>3, <2>3, <2>5
    <3>2. lev[c] \notin T /\ lev[c] <= v
      BY <2>2, <3>1
    <3> QED
      BY <3>1, <3>2
  <2> QED
    BY <1>2, <2>3, <2>4, <2>5
<1>5. \A v \in Nat : \E g : UpTo(g, v)
  <2> DEFINE T == {v \in Nat : ~\E g : UpTo(g, v)}
  <2>1. SUFFICES ASSUME T # {} PROVE FALSE
    OBVIOUS
  <2>2. PICK v \in T : \A x \in T : v <= x
    BY <2>1, LeastNat
  <2>3. PICK g : v = 0 \/ UpTo(g, v - 1)
    <3>1. CASE v = 0
      BY <3>1
    <3>2. CASE v # 0
      <4>1. v - 1 \in Nat /\ v - 1 \notin T
        BY <2>2, <3>2
      <4> QED
        BY <4>1
    <3> QED
      BY <3>1, <3>2
  <2> DEFINE f == [m \in Used(h) |-> Go(g, m)]
  <2>4. ASSUME NEW m \in Used(h), lev[m] <= v PROVE f[m] = Go(f, m)
    <3> DEFINE c == Child(h[m], idx[m])
    <3>1. ASSUME ~h[m].isLeaf PROVE g[c] = f[c]
      <4>1. c \in Used(h) /\ lev[c] = lev[m] - 1 /\ lev[c] \in Nat /\ lev[m] \in Nat
        BY <1>3, <3>1
      <4>2. v # 0 /\ lev[c] <= v - 1
        BY <2>2, <2>4, <4>1
      <4> QED
        BY <2>3, <4>1, <4>2
    <3>2. Go(g, m) = Go(f, m)
      <4> HIDE DEF f
      <4> QED
        BY <1>2, <3>1
    <3> QED
      BY <3>2
  <2>5. UpTo(f, v)
    BY <2>4
  <2> QED
    BY <2>2, <2>5
<1> DEFINE G(v) == CHOOSE g : UpTo(g, v)
           f == [m \in Used(h) |-> G(lev[m])[m]]
<1>6. \A v \in Nat : UpTo(G(v), v)
  BY <1>5
<1> HIDE DEF G
<1>7. ASSUME NEW m \in Used(h) PROVE f[m] = Go(f, m)
  <2> DEFINE c == Child(h[m], idx[m])
  <2>1. lev[m] \in Nat /\ f[m] = G(lev[m])[m]
    OBVIOUS
  <2>2. G(lev[m])[m] = Go(G(lev[m]), m)
    BY <1>6, <2>1
  <2>3. ASSUME ~h[m].isLeaf PROVE G(lev[m])[c] = f[c]
    <3>1. c \in Used(h) /\ lev[c] = lev[m] - 1 /\ lev[c] \in Nat
      BY <1>3, <2>3
    <3>2. UpTo(G(lev[m]), lev[m]) /\ UpTo(G(lev[c]), lev[c])
      BY <1>6, <2>1, <3>1
    <3>3. UpTo(G(lev[m]), lev[c])
      BY <2>1, <3>1, <3>2
    <3>4. f[c] = G(lev[c])[c] /\ lev[c] <= lev[c]
      BY <3>1
    <3> HIDE DEF f, UpTo
    <3> QED
      BY <1>4, <3>1, <3>2, <3>3, <3>4
  <2> HIDE DEF f
  <2>4. Go(G(lev[m]), m) = Go(f, m)
    BY <1>2, <2>3
  <2> QED
    BY <2>1, <2>2, <2>4
<1>8. Is(f)
  <2>1. f = [m \in Used(h) |-> f[m]]
    OBVIOUS
  <2> HIDE DEF f
  <2> QED
    BY <1>7, <2>1
<1> HIDE DEF f, Is
<1>9. Is(path)
  BY <1>8 DEF path
<1>10. \A m \in Used(h) : path[m] = Go(path, m)
  <2> DEFINE z == path
  <2>1. z = [m \in Used(h) |-> Go(z, m)]
    BY <1>9 DEF Is
  <2> HIDE DEF z
  <2>2. \A m \in Used(h) : z[m] = Go(z, m)
    BY <2>1
  <2> QED
    BY <2>2 DEF z
<1> QED
  BY <1>1, <1>10 DEF Go, PathOf

-----------------------------------------------------------------------------
(* Paths.                                                                  *)

Stop == [node : Node, idx : Int]

\* Path c goes on from its stop l to the child there.
Hop(h, c, l) ==
  /\ c[l].node \in Inner(h) /\ c[l].idx \in Index(h[c[l].node])
  /\ c[l + 1].node = Child(h[c[l].node], c[l].idx)

IndexOK(h, idx) ==
  \A m \in Used(h) : IF h[m].isLeaf THEN idx[m] \in 0 .. numKeys(h[m])
                     ELSE idx[m] \in Index(h[m])

\* Path d goes from node m down to a leaf, by idx.
Walk(h, lev, idx, m, d) ==
  /\ d \in Seq(Stop) /\ Len(d) = lev[m] + 1 /\ d[1].node = m
  /\ \A l \in 1 .. Len(d) : d[l].node \in Used(h) /\ d[l].idx = idx[d[l].node]
  /\ \A l \in 1 .. Len(d) - 1 : Hop(h, d, l)
  /\ h[d[Len(d)].node].isLeaf

LEMMA WalkIs ==
  ASSUME NEW h, NEW r, NEW dep, NEW lev, NEW rng, NEW big, Tree(h, r, dep, lev, rng, big),
         NEW idx, IndexOK(h, idx)
  PROVE  \E path :
           /\ \A n, above : Down(h, n, idx, above) = above \o path[n]
           /\ \A m \in Used(h) : Walk(h, lev, idx, m, path[m])
<1>0. Shape(h, r, dep, lev, rng) /\ Nodes(h, lev, rng) /\ Kids(h, lev, rng)
  BY DEF Tree
<1>1. \A m \in Used(h) : /\ m \in Node /\ lev[m] \in Nat /\ h[m] \in BtNode
                         /\ h[m].isLeaf <=> lev[m] = 0
  BY <1>0, UsedNodes DEF Nodes, NodeOK
<1>2. \A m \in Used(h) : /\ h[m].isLeaf => idx[m] \in 0 .. numKeys(h[m])
                         /\ ~h[m].isLeaf => idx[m] \in Index(h[m])
  BY DEF IndexOK
<1>3. \A m \in Inner(h) : /\ m \in Used(h) /\ idx[m] \in Index(h[m])
                          /\ Child(h[m], idx[m]) \in Used(h)
                          /\ lev[Child(h[m], idx[m])] = lev[m] - 1
  BY <1>0, <1>2 DEF Kids, KidOK, Inner
<1>p. PICK path : PathOf(h, idx, path)
  <2>1. \A m \in Used(h) : lev[m] \in Nat
    BY <1>1
  <2>2. \A m \in Inner(h) : /\ Child(h[m], idx[m]) \in Used(h)
                            /\ lev[Child(h[m], idx[m])] = lev[m] - 1
    BY <1>3
  <2> QED
    BY <2>1, <2>2, DownPath
<1>4. /\ \A n, above : Down(h, n, idx, above) = above \o path[n]
      /\ \A m \in Used(h) :
           path[m] = IF h[m].isLeaf THEN <<At(m, idx[m])>>
                     ELSE <<At(m, idx[m])>> \o path[Child(h[m], idx[m])]
  BY <1>p DEF PathOf
<1> DEFINE T == {v \in Nat : \E m \in Used(h) : lev[m] = v /\ ~Walk(h, lev, idx, m, path[m])}
<1>5. SUFFICES ASSUME T # {} PROVE FALSE
  BY <1>1, <1>4
<1>6. PICK v \in T : \A x \in T : v <= x
  BY <1>5, LeastNat
<1>7. PICK m \in Used(h) : lev[m] = v /\ ~Walk(h, lev, idx, m, path[m])
  BY <1>6
<1> DEFINE d == path[m]
           s == At(m, idx[m])
           c == Child(h[m], idx[m])
<1>8. s \in Stop /\ s.node = m /\ s.idx = idx[m]
  <2>1. idx[m] \in Int
    BY <1>1, <1>2, NodeFacts DEF Index
  <2> QED
    BY <1>1, <2>1 DEF At, Stop
<1> HIDE DEF s
<1>9. <<s>> \in Seq(Stop) /\ Len(<<s>>) = 1 /\ <<s>>[1] = s
  BY <1>8
<1>10. CASE h[m].isLeaf
  <2>1. d = <<s>> /\ lev[m] = 0
    BY <1>1, <1>4, <1>10 DEF s
  <2>2. Walk(h, lev, idx, m, d)
    <3> HIDE DEF d
    <3>1. /\ d \in Seq(Stop) /\ Len(d) = lev[m] + 1 /\ d[1].node = m
          /\ \A l \in 1 .. Len(d) : d[l] = s
          /\ \A l \in 1 .. Len(d) - 1 : FALSE
          /\ h[d[Len(d)].node].isLeaf
      BY <1>8, <1>9, <1>10, <2>1
    <3> QED
      BY <1>8, <3>1 DEF Walk
  <2> QED
    BY <1>7, <2>2
<1>11. CASE ~h[m].isLeaf
  <2>1. m \in Inner(h) /\ c \in Used(h) /\ lev[c] = v - 1 /\ lev[c] \in Nat /\ v \in Nat
        /\ idx[m] \in Index(h[m])
    BY <1>1, <1>3, <1>7, <1>11 DEF Inner
  <2>2. Walk(h, lev, idx, c, path[c])
    <3>1. lev[c] \notin T
      BY <1>6, <2>1
    <3> QED
      BY <2>1, <3>1
  <2> DEFINE b == path[c]
  <2>3. d = <<s>> \o b
    BY <1>4, <1>11 DEF s
  <2> HIDE DEF c, b, d
  <2>4. /\ b \in Seq(Stop) /\ Len(b) = v /\ b[1].node = c
        /\ \A l \in 1 .. Len(b) : b[l].node \in Used(h) /\ b[l].idx = idx[b[l].node]
        /\ \A l \in 1 .. Len(b) - 1 : Hop(h, b, l)
        /\ h[b[Len(b)].node].isLeaf
    BY <2>1, <2>2 DEF Walk, b
  <2>5. /\ d \in Seq(Stop) /\ Len(d) = v + 1 /\ d[1] = s
        /\ \A l \in 2 .. v + 1 : d[l] = b[l - 1]
    <3>1. /\ <<s>> \o b \in Seq(Stop) /\ Len(<<s>> \o b) = Len(<<s>>) + Len(b)
          /\ \A l \in 1 .. Len(<<s>>) + Len(b) :
               (<<s>> \o b)[l] = IF l <= Len(<<s>>) THEN <<s>>[l] ELSE b[l - Len(<<s>>)]
      BY <1>9, <2>4, ConcatProperties
    <3> QED
      BY <1>9, <2>1, <2>3, <2>4, <3>1
  <2>6. ASSUME NEW l \in 1 .. Len(d) PROVE d[l].node \in Used(h) /\ d[l].idx = idx[d[l].node]
    <3>1. CASE l = 1
      BY <1>8, <2>5, <3>1
    <3>2. CASE l # 1
      <4>1. l \in 2 .. v + 1 /\ l - 1 \in 1 .. Len(b)
        BY <2>1, <2>4, <2>5, <3>2
      <4> QED
        BY <2>4, <2>5, <4>1
    <3> QED
      BY <3>1, <3>2
  <2>7. ASSUME NEW l \in 1 .. Len(d) - 1 PROVE Hop(h, d, l)
    <3>1. CASE l = 1
      <4>1. d[2] = b[1] /\ l + 1 = 2
        BY <2>1, <2>5, <2>7, <3>1
      <4> QED
        BY <1>8, <2>1, <2>4, <2>5, <3>1, <4>1 DEF Hop, c
    <3>2. CASE l # 1
      <4>1. l - 1 \in 1 .. Len(b) - 1 /\ l - 1 + 1 = l
        BY <2>1, <2>4, <2>5, <3>2
      <4>2. d[l] = b[l - 1] /\ d[l + 1] = b[l]
        BY <2>1, <2>5, <2>7, <3>2
      <4> QED
        BY <2>4, <4>1, <4>2 DEF Hop
    <3> QED
      BY <3>1, <3>2
  <2>8. d[Len(d)] = b[Len(b)]
    <3>1. Len(d) \in 2 .. v + 1 /\ Len(d) - 1 = Len(b)
      BY <2>1, <2>4, <2>5
    <3> QED
      BY <2>5, <3>1
  <2>9. Walk(h, lev, idx, m, d)
    BY <1>7, <1>8, <2>4, <2>5, <2>6, <2>7, <2>8 DEF Walk
  <2> QED
    BY <1>7, <2>9 DEF d
<1> QED
  BY <1>10, <1>11

\* The nodes of a path from the root are one level down from each other.
Hops(h, c, n) == \A l \in 1 .. n : Hop(h, c, l)
Levels(h, dep, lev, c, n) ==
  \A l \in 1 .. n + 1 : c[l].node \in Used(h) /\ lev[c[l].node] = dep + 1 - l

LEMMA LevelsAlong ==
  ASSUME NEW h, NEW r, NEW dep, NEW lev, NEW rng, NEW big, Tree(h, r, dep, lev, rng, big),
         NEW n \in Nat, NEW c, c[1].node = r, Hops(h, c, n)
  PROVE  Levels(h, dep, lev, c, n)
<1>0. Shape(h, r, dep, lev, rng) /\ Kids(h, lev, rng)
  BY DEF Tree
<1> DEFINE OK(l) == c[l].node \in Used(h) /\ lev[c[l].node] = dep + 1 - l
           T == {l \in Nat : l \in 1 .. n + 1 /\ ~OK(l)}
<1>1. SUFFICES ASSUME T # {} PROVE FALSE
  BY DEF Levels
<1>2. PICK l \in T : \A x \in T : l <= x
  BY <1>1, LeastNat
<1>3. l # 1
  BY <1>0, <1>2 DEF Shape
<1>4. l - 1 \in 1 .. n /\ l - 1 \in 1 .. n + 1 /\ l - 1 \notin T /\ l - 1 + 1 = l
  BY <1>2, <1>3
<1>5. OK(l - 1) /\ Hop(h, c, l - 1)
  BY <1>4 DEF Hops
<1>6. dep \in Nat /\ lev[c[l - 1].node] = dep + 1 - (l - 1)
  BY <1>0, <1>5 DEF Shape
<1>7. /\ c[l].node \in Used(h) /\ lev[c[l].node] = lev[c[l - 1].node] - 1
  BY <1>0, <1>4, <1>5 DEF Hop, Kids, KidOK
<1>8. OK(l)
  BY <1>2, <1>6, <1>7
<1> QED
  BY <1>2, <1>8

\* As in the proofs of the repository: from the root to a leaf.
Complete(h, r, dep, c) ==
  /\ c \in Seq(Stop) /\ Len(c) = dep + 1 /\ c[1].node = r
  /\ \A l \in 1 .. dep : Hop(h, c, l)
  /\ c[dep + 1].node \in Used(h) /\ h[c[dep + 1].node].isLeaf
  /\ c[dep + 1].idx \in 0 .. numKeys(h[c[dep + 1].node])

\* A path from the root that comes to node n.
LeadsTo(h, r, above, n) ==
  /\ above \in Seq(Stop) /\ n \in Used(h)
  /\ IF Len(above) = 0 THEN n = r ELSE above[1].node = r
  /\ \A l \in 1 .. Len(above) :
       /\ above[l].node \in Inner(h) /\ above[l].idx \in Index(h[above[l].node])
       /\ Child(h[above[l].node], above[l].idx) =
            IF l = Len(above) THEN n ELSE above[l + 1].node

\* Path c is `above` and then goes on by idx from node n.
GoesOn(c, above, n, idx) ==
  /\ Len(above) < Len(c) /\ \A l \in 1 .. Len(above) : c[l] = above[l]
  /\ c[Len(above) + 1].node = n
  /\ \A l \in Len(above) + 1 .. Len(c) : c[l].idx = idx[c[l].node]

LEMMA DownComplete ==
  ASSUME NEW h, NEW r, NEW dep, NEW lev, NEW rng, NEW big, Tree(h, r, dep, lev, rng, big),
         NEW idx, IndexOK(h, idx), NEW above, NEW n, LeadsTo(h, r, above, n)
  PROVE  /\ Complete(h, r, dep, Down(h, n, idx, above))
         /\ GoesOn(Down(h, n, idx, above), above, n, idx)
<1> DEFINE c == Down(h, n, idx, above)
           a == Len(above)
<1>1. PICK path :
        /\ \A m, ab : Down(h, m, idx, ab) = ab \o path[m]
        /\ \A m \in Used(h) : Walk(h, lev, idx, m, path[m])
  BY WalkIs
<1> DEFINE d == path[n]
<1>2. above \in Seq(Stop) /\ n \in Used(h) /\ a \in Nat
  BY DEF LeadsTo
<1>3. c = above \o d /\ Walk(h, lev, idx, n, d)
  BY <1>1, <1>2
<1>4. lev[n] \in Nat /\ dep \in Nat /\ h[n] \in BtNode
  BY <1>2, UsedNodes DEF Tree, Shape
<1> DEFINE v == lev[n]
<1>v. v \in Nat /\ dep \in Nat
  BY <1>4
<1> HIDE DEF c, d, a, v
<1>5. /\ d \in Seq(Stop) /\ Len(d) = v + 1 /\ d[1].node = n
      /\ \A l \in 1 .. Len(d) : d[l].node \in Used(h) /\ d[l].idx = idx[d[l].node]
      /\ \A l \in 1 .. Len(d) - 1 : Hop(h, d, l)
      /\ h[d[Len(d)].node].isLeaf
  BY <1>3 DEF Walk, v
<1>6. /\ c \in Seq(Stop) /\ Len(c) = a + v + 1
      /\ \A l \in 1 .. a : c[l] = above[l]
      /\ \A l \in a + 1 .. a + v + 1 : c[l] = d[l - a]
  <2>1. /\ above \o d \in Seq(Stop) /\ Len(above \o d) = Len(above) + Len(d)
        /\ \A l \in 1 .. Len(above) + Len(d) :
             (above \o d)[l] = IF l <= Len(above) THEN above[l] ELSE d[l - Len(above)]
    BY <1>2, <1>5, ConcatProperties
  <2>2. /\ c \in Seq(Stop) /\ Len(c) = a + (v + 1)
        /\ \A l \in 1 .. a + (v + 1) : c[l] = IF l <= a THEN above[l] ELSE d[l - a]
    BY <1>3, <1>5, <2>1 DEF a
  <2>3. a + (v + 1) = a + v + 1
    BY <1>2, <1>v
  <2>4. \A l \in 1 .. a : l \in 1 .. a + (v + 1) /\ l <= a
    BY <1>2, <1>v
  <2>5. \A l \in a + 1 .. a + v + 1 : l \in 1 .. a + (v + 1) /\ ~(l <= a)
    BY <1>2, <1>v
  <2> QED
    BY <2>2, <2>3, <2>4, <2>5
<1>b. \A l \in a + 1 .. a + v + 1 : c[l] = d[l - a]
  BY <1>6
<1>7. c[a + 1].node = n
  <2>1. c[a + 1] = d[a + 1 - a] /\ a + 1 - a = 1
    BY <1>2, <1>v, <1>6
  <2> QED
    BY <1>5, <2>1
<1>8. c[1].node = r
  <2>1. CASE a = 0
    BY <1>2, <1>7, <2>1 DEF LeadsTo, a
  <2>2. CASE a # 0
    <3>1. 1 \in 1 .. a
      BY <1>2, <2>2
    <3> QED
      BY <1>6, <2>2, <3>1 DEF LeadsTo, a
  <2> QED
    BY <2>1, <2>2
<1>9. ASSUME NEW l \in 1 .. a PROVE Hop(h, c, l)
  <2>1. /\ c[l] = above[l] /\ above[l].node \in Inner(h) /\ above[l].idx \in Index(h[above[l].node])
        /\ Child(h[above[l].node], above[l].idx) = IF l = a THEN n ELSE above[l + 1].node
    BY <1>6 DEF LeadsTo, a
  <2>2. c[l + 1].node = IF l = a THEN n ELSE above[l + 1].node
    BY <1>2, <1>6, <1>7
  <2> QED
    BY <2>1, <2>2 DEF Hop
<1>10. a + v = dep
  <2>1. Hops(h, c, a)
    BY <1>9 DEF Hops
  <2>2. Levels(h, dep, lev, c, a)
    BY <1>2, <1>8, <2>1, LevelsAlong
  <2>3. lev[n] = dep + 1 - (a + 1)
    <3>1. a + 1 \in 1 .. a + 1
      BY <1>2
    <3> QED
      BY <1>7, <2>2, <3>1 DEF Levels
  <2> QED
    BY <1>2, <1>v, <2>3 DEF v
<1>11. ASSUME NEW l \in a + 1 .. dep PROVE Hop(h, c, l)
  <2>1. l - a \in 1 .. Len(d) - 1 /\ l + 1 - a = l - a + 1
    BY <1>2, <1>v, <1>5, <1>10
  <2>2. c[l] = d[l - a] /\ c[l + 1] = d[l - a + 1]
    <3>1. l \in a + 1 .. a + v + 1 /\ l + 1 \in a + 1 .. a + v + 1
      BY <1>2, <1>v, <1>10
    <3> QED
      BY <1>2, <1>v, <1>b, <2>1, <3>1
  <2> QED
    BY <1>5, <2>1, <2>2 DEF Hop
<1>12. \A l \in a + 1 .. Len(c) : c[l].node \in Used(h) /\ c[l].idx = idx[c[l].node]
  <2> SUFFICES ASSUME NEW l \in a + 1 .. Len(c)
               PROVE  c[l].node \in Used(h) /\ c[l].idx = idx[c[l].node]
    OBVIOUS
  <2>1. l \in a + 1 .. a + v + 1
    BY <1>6
  <2>2. l - a \in 1 .. Len(d) /\ c[l] = d[l - a]
    <3>1. Len(d) = v + 1
      BY <1>5
    <3> QED
      BY <1>2, <1>v, <1>6, <2>1, <3>1
  <2> QED
    BY <1>5, <2>2
<1>13. Len(c) = dep + 1 /\ dep + 1 \in a + 1 .. Len(c)
  BY <1>2, <1>v, <1>6, <1>10
<1>14. c[dep + 1] = d[Len(d)]
  <2>1. dep + 1 - a = Len(d) /\ dep + 1 \in a + 1 .. a + v + 1
    <3>1. Len(d) = v + 1
      BY <1>5
    <3> QED
      BY <1>2, <1>v, <1>10, <3>1
  <2> QED
    BY <1>2, <1>v, <1>b, <2>1
<1>15. Complete(h, r, dep, c)
  <2>1. \A l \in 1 .. dep : Hop(h, c, l)
    <3> SUFFICES ASSUME NEW l \in 1 .. dep PROVE Hop(h, c, l)
      OBVIOUS
    <3>1. l \in 1 .. a \/ l \in a + 1 .. dep
      BY <1>2
    <3> QED
      BY <1>9, <1>11, <3>1
  <2>2. c[dep + 1].node \in Used(h) /\ c[dep + 1].idx = idx[c[dep + 1].node]
    BY <1>12, <1>13
  <2>3. h[c[dep + 1].node].isLeaf
    BY <1>5, <1>14
  <2>4. c[dep + 1].idx \in 0 .. numKeys(h[c[dep + 1].node])
    BY <2>2, <2>3 DEF IndexOK
  <2> QED
    BY <1>6, <1>8, <1>13, <2>1, <2>2, <2>3, <2>4 DEF Complete
<1>16. GoesOn(c, above, n, idx)
  <2>1. a < Len(c)
    BY <1>2, <1>v, <1>6
  <2> QED
    BY <1>6, <1>7, <1>12, <2>1 DEF GoesOn, a
<1> QED
  BY <1>15, <1>16 DEF c

-----------------------------------------------------------------------------
(* The keys along a path.                                                  *)

LEMMA CompleteFacts ==
  ASSUME NEW h, NEW r, NEW dep, NEW lev, NEW rng, NEW big, Tree(h, r, dep, lev, rng, big),
         NEW c, Complete(h, r, dep, c)
  PROVE  /\ dep \in Nat /\ c \in Seq(Stop) /\ Len(c) = dep + 1 /\ c[1].node = r
         /\ Hops(h, c, dep) /\ Levels(h, dep, lev, c, dep)
         /\ Last(c) = c[dep + 1] /\ c # <<>>
         /\ \A l \in 1 .. dep + 1 : /\ c[l].node \in Used(h) /\ h[c[l].node] \in BtNode
                                    /\ c[l].idx \in Int
                                    /\ h[c[l].node].isLeaf <=> l = dep + 1
<1>1. /\ dep \in Nat /\ c \in Seq(Stop) /\ Len(c) = dep + 1 /\ c[1].node = r
      /\ h[c[dep + 1].node].isLeaf
  BY DEF Complete, Tree, Shape
<1>2. Hops(h, c, dep)
  BY DEF Complete, Hops
<1>3. Levels(h, dep, lev, c, dep)
  BY <1>1, <1>2, LevelsAlong
<1>4. Last(c) = c[dep + 1] /\ c # <<>>
  BY <1>1 DEF Last
<1>5. ASSUME NEW l \in 1 .. dep + 1
      PROVE  /\ c[l].node \in Used(h) /\ h[c[l].node] \in BtNode /\ c[l].idx \in Int
             /\ h[c[l].node].isLeaf <=> l = dep + 1
  <2>1. c[l].node \in Used(h) /\ c[l] \in Stop
    BY <1>1, <1>3 DEF Levels
  <2>2. h[c[l].node] \in BtNode /\ c[l].idx \in Int
    BY <2>1, UsedNodes DEF Tree, Stop
  <2>3. l # dep + 1 => ~h[c[l].node].isLeaf
    BY <1>1, <1>2 DEF Hops, Hop, Inner
  <2> QED
    BY <1>1, <2>1, <2>2, <2>3
<1> QED
  BY <1>1, <1>2, <1>3, <1>4, <1>5

\* A key in the range of one stop is in those of the stops before, and the path
\* leaves them towards it.
LEMMA KeysUp ==
  ASSUME NEW h, NEW r, NEW dep, NEW lev, NEW rng, NEW big, Tree(h, r, dep, lev, rng, big),
         NEW n \in Nat, NEW c, c[1].node = r, Hops(h, c, n),
         NEW k \in Key, k \in rng[c[n + 1].node]
  PROVE  \A l \in 1 .. n : /\ k \in rng[c[l].node]
                           /\ c[l].idx = findChildIndex(h[c[l].node], k)
<1>0. Shape(h, r, dep, lev, rng) /\ Nodes(h, lev, rng) /\ Kids(h, lev, rng)
  BY DEF Tree
<1> DEFINE T == {i \in Nat : i <= n /\ k \notin rng[c[n + 1 - i].node]}
<1>1. ASSUME NEW l \in 1 .. n, k \in rng[c[l + 1].node]
      PROVE  k \in rng[c[l].node] /\ c[l].idx = findChildIndex(h[c[l].node], k)
  <2> DEFINE m == c[l].node
  <2>1. m \in Inner(h) /\ c[l].idx \in Index(h[m]) /\ c[l + 1].node = Child(h[m], c[l].idx)
    BY DEF Hops, Hop
  <2>2. k \in rng[m] /\ Within(h[m], c[l].idx, k)
    BY <1>0, <1>1, <2>1 DEF Kids, KidOK
  <2>3. m \in Used(h) /\ h[m] \in BtNode /\ Ascending(h[m])
    BY <1>0, <2>1, UsedNodes DEF Inner, Nodes, NodeOK
  <2>4. Within(h[m], c[l].idx, k) <=> c[l].idx = findChildIndex(h[m], k)
    BY <2>1, <2>3, WithinIs DEF Index
  <2> QED
    BY <2>2, <2>4
<1>2. ASSUME T # {} PROVE FALSE
  <2>1. PICK i \in T : \A x \in T : i <= x
    BY <1>2, LeastNat
  <2>2. i # 0
    BY <2>1
  <2>3. i - 1 \in Nat /\ i - 1 <= n /\ i - 1 \notin T /\ n + 1 - i \in 1 .. n
        /\ n + 1 - (i - 1) = n + 1 - i + 1
    BY <2>1, <2>2
  <2>4. k \in rng[c[n + 1 - i + 1].node]
    BY <2>3
  <2> QED
    BY <1>1, <2>1, <2>3, <2>4
<1>3. ASSUME NEW l \in 1 .. n PROVE k \in rng[c[l + 1].node]
  <2>1. n - l \in Nat /\ n - l <= n /\ n + 1 - (n - l) = l + 1
    OBVIOUS
  <2>2. n - l \notin T
    BY <1>2
  <2> QED
    BY <2>1, <2>2
<1> QED
  BY <1>1, <1>3

\* A search keeps the key in range on its way down.
LEMMA KeysDown ==
  ASSUME NEW h, NEW r, NEW dep, NEW lev, NEW rng, NEW big, Tree(h, r, dep, lev, rng, big),
         NEW n \in Nat, NEW c, Hops(h, c, n), NEW k \in Key,
         NEW m \in 1 .. n + 1, k \in rng[c[m].node],
         \A l \in m .. n : c[l].idx = findChildIndex(h[c[l].node], k)
  PROVE  \A l \in m .. n + 1 : k \in rng[c[l].node]
<1>0. Shape(h, r, dep, lev, rng) /\ Nodes(h, lev, rng) /\ Kids(h, lev, rng)
  BY DEF Tree
<1> DEFINE T == {l \in Nat : l \in m .. n + 1 /\ k \notin rng[c[l].node]}
<1>1. SUFFICES ASSUME T # {} PROVE FALSE
  OBVIOUS
<1>2. PICK l \in T : \A x \in T : l <= x
  BY <1>1, LeastNat
<1>3. l - 1 \in m .. n /\ l - 1 \in Nat /\ l - 1 \notin T /\ l - 1 \in 1 .. n
      /\ l - 1 + 1 = l /\ l - 1 \in m .. n + 1
  <2>1. l # m
    BY <1>2
  <2> QED
    BY <1>2, <2>1
<1> DEFINE a == c[l - 1].node
           i == c[l - 1].idx
<1>4. a \in Inner(h) /\ i \in Index(h[a]) /\ c[l].node = Child(h[a], i) /\ k \in rng[a]
      /\ i = findChildIndex(h[a], k)
  <2>1. Hop(h, c, l - 1)
    BY <1>3 DEF Hops
  <2>2. k \in rng[a] /\ i = findChildIndex(h[a], k)
    BY <1>3
  <2> QED
    BY <1>3, <2>1, <2>2 DEF Hop
<1>5. a \in Used(h) /\ h[a] \in BtNode /\ Ascending(h[a])
  BY <1>0, <1>4, UsedNodes DEF Inner, Nodes, NodeOK
<1>6. Within(h[a], i, k)
  <2>1. Within(h[a], i, k) <=> i = findChildIndex(h[a], k)
    BY <1>4, <1>5, WithinIs DEF Index
  <2> QED
    BY <1>4, <2>1
<1>7. k \in rng[c[l].node]
  <2>1. KidOK(h, lev, rng, a, i)
    BY <1>0, <1>4 DEF Kids
  <2>2. k \in rng[Child(h[a], i)]
    BY <1>4, <1>6, <2>1 DEF KidOK
  <2> QED
    BY <1>4, <2>2
<1> QED
  BY <1>2, <1>7

-----------------------------------------------------------------------------
(* The moves of a cursor.                                                  *)

KeyIndex(h, key) ==
  [m \in Used(h) |-> IF h[m].isLeaf THEN findRecordIndex(h[m], key)
                     ELSE findChildIndex(h[m], key)]
FirstIndex(h) == [m \in Used(h) |-> firstpointer(h[m])]
LastIndex(h) == [m \in Used(h) |-> lastpointer(h[m])]

LEMMA MovesDown ==
  ASSUME NEW h, NEW n, NEW key, NEW above
  PROVE  /\ moveToKey(h, n, key, above) = Down(h, n, KeyIndex(h, key), above)
         /\ moveToFirst(h, n, above) = Down(h, n, FirstIndex(h), above)
         /\ moveToLast(h, n, above) = Down(h, n, LastIndex(h), above)
BY DEF moveToKey, moveToFirst, moveToLast, KeyIndex, FirstIndex, LastIndex

LEMMA IndexesOK ==
  ASSUME NEW h, NEW r, NEW dep, NEW lev, NEW rng, NEW big, Tree(h, r, dep, lev, rng, big)
  PROVE  /\ \A key \in Key : IndexOK(h, KeyIndex(h, key))
         /\ IndexOK(h, FirstIndex(h)) /\ IndexOK(h, LastIndex(h))
<1>1. \A m \in Used(h) : h[m] \in BtNode /\ Ascending(h[m]) /\ numKeys(h[m]) \in Nat
  BY UsedNodes, NodeFacts DEF Tree, Nodes, NodeOK
<1>2. ASSUME NEW key \in Key PROVE IndexOK(h, KeyIndex(h, key))
  <2>1. ASSUME NEW m \in Used(h)
        PROVE  /\ findRecordIndex(h[m], key) \in 0 .. numKeys(h[m])
               /\ findChildIndex(h[m], key) \in Index(h[m])
    BY <1>1, RecordIndex, ChildIndex DEF Index
  <2> QED
    BY <2>1 DEF IndexOK, KeyIndex
<1>3. ASSUME NEW m \in Used(h)
      PROVE  /\ h[m].isLeaf => /\ firstpointer(h[m]) = 0 /\ lastpointer(h[m]) = numKeys(h[m])
                               /\ firstpointer(h[m]) \in 0 .. numKeys(h[m])
                               /\ lastpointer(h[m]) \in 0 .. numKeys(h[m])
             /\ ~h[m].isLeaf => /\ firstpointer(h[m]) \in Index(h[m])
                                /\ lastpointer(h[m]) \in Index(h[m])
  BY <1>1 DEF firstpointer, lastpointer, Index
<1> QED
  BY <1>2, <1>3 DEF IndexOK, FirstIndex, LastIndex

\* The part of a path before stop l leads to the node of stop l.
LEMMA PrefixLeads ==
  ASSUME NEW h, NEW r, NEW dep, NEW lev, NEW rng, NEW big, Tree(h, r, dep, lev, rng, big),
         NEW n \in Nat, NEW c \in Seq(Stop), n < Len(c), c[1].node = r, Hops(h, c, n),
         NEW l \in 1 .. n + 1
  PROVE  /\ LeadsTo(h, r, SubSeq(c, 1, l - 1), c[l].node)
         /\ Len(SubSeq(c, 1, l - 1)) = l - 1
         /\ \A x \in 1 .. l - 1 : SubSeq(c, 1, l - 1)[x] = c[x]
<1> DEFINE s == SubSeq(c, 1, l - 1)
<1>1. Len(c) \in Nat /\ l - 1 \in 0 .. Len(c)
  OBVIOUS
<1>2. s \in Seq(Stop) /\ Len(s) = l - 1 /\ \A x \in 1 .. l - 1 : s[x] = c[x]
  <2> DEFINE k == l - 1
  <2>1. k \in Int /\ \A x \in 1 .. k : c[x] \in Stop
    BY <1>1
  <2> HIDE DEF k
  <2>2. /\ SubSeq(c, 1, k) \in Seq(Stop)
        /\ Len(SubSeq(c, 1, k)) = IF 1 <= k THEN k - 1 + 1 ELSE 0
        /\ \A x \in 1 .. k - 1 + 1 : SubSeq(c, 1, k)[x] = c[1 + x - 1]
    BY <2>1, SubSeqProperties
  <2>3. k \in Nat
    BY <1>1 DEF k
  <2>4. /\ SubSeq(c, 1, k) \in Seq(Stop) /\ Len(SubSeq(c, 1, k)) = k
        /\ \A x \in 1 .. k : SubSeq(c, 1, k)[x] = c[x]
    BY <2>2, <2>3
  <2> QED
    BY <2>4 DEF k
<1>3. Levels(h, dep, lev, c, n)
  BY LevelsAlong
<1>4. c[l].node \in Used(h)
  BY <1>3 DEF Levels
<1> HIDE DEF s
<1>5. IF Len(s) = 0 THEN c[l].node = r ELSE s[1].node = r
  <2>1. CASE l = 1
    BY <1>2, <2>1
  <2>2. CASE l # 1
    <3>1. 1 \in 1 .. l - 1 /\ Len(s) # 0
      BY <1>2, <2>2
    <3> QED
      BY <1>2, <3>1
  <2> QED
    BY <2>1, <2>2
<1>6. ASSUME NEW x \in 1 .. Len(s)
      PROVE  /\ s[x].node \in Inner(h) /\ s[x].idx \in Index(h[s[x].node])
             /\ Child(h[s[x].node], s[x].idx) = IF x = Len(s) THEN c[l].node ELSE s[x + 1].node
  <2>1. x \in 1 .. l - 1 /\ x \in 1 .. n /\ s[x] = c[x]
    BY <1>2
  <2>2. Hop(h, c, x)
    BY <2>1 DEF Hops
  <2>3. c[x + 1].node = IF x = Len(s) THEN c[l].node ELSE s[x + 1].node
    <3>1. CASE x = Len(s)
      <4>1. x + 1 = l
        BY <1>2, <3>1
      <4> QED
        BY <3>1, <4>1
    <3>2. CASE x # Len(s)
      <4>1. x + 1 \in 1 .. l - 1
        BY <1>2, <2>1, <3>2
      <4> QED
        BY <1>2, <3>2, <4>1
    <3> QED
      BY <3>1, <3>2
  <2> QED
    BY <2>1, <2>2, <2>3 DEF Hop
<1>7. LeadsTo(h, r, s, c[l].node)
  BY <1>2, <1>4, <1>5, <1>6 DEF LeadsTo
<1> QED
  BY <1>2, <1>7 DEF s

\* The cursor comes to the place of key k.
SearchPath(h, r, dep, rng, c, k) ==
  /\ Complete(h, r, dep, c)
  /\ k \in rng[c[dep + 1].node]
  /\ c[dep + 1].idx = findRecordIndex(h[c[dep + 1].node], k)

LEMMA MoveToKeyIs ==
  ASSUME NEW h, NEW r, NEW dep, NEW lev, NEW rng, NEW big, Tree(h, r, dep, lev, rng, big),
         NEW key \in Key, NEW above, NEW n, LeadsTo(h, r, above, n), key \in rng[n]
  PROVE  SearchPath(h, r, dep, rng, moveToKey(h, n, key, above), key)
<1> DEFINE c == moveToKey(h, n, key, above)
           idx == KeyIndex(h, key)
           a == Len(above)
<1>1. c = Down(h, n, idx, above)
  BY MovesDown
<1>2. IndexOK(h, idx)
  BY IndexesOK
<1> HIDE DEF c, idx
<1>3. Complete(h, r, dep, c) /\ GoesOn(c, above, n, idx)
  BY <1>1, <1>2, DownComplete
<1>4. /\ dep \in Nat /\ Len(c) = dep + 1 /\ Hops(h, c, dep)
      /\ \A l \in 1 .. dep + 1 : c[l].node \in Used(h) /\ (h[c[l].node].isLeaf <=> l = dep + 1)
  BY <1>3, CompleteFacts
<1>5. a \in Nat
  BY DEF LeadsTo
<1> HIDE DEF a
<1>6. a < dep + 1 /\ c[a + 1].node = n /\ \A l \in a + 1 .. dep + 1 : c[l].idx = idx[c[l].node]
  BY <1>3, <1>4 DEF GoesOn, a
<1>7. a + 1 \in 1 .. dep + 1
  BY <1>4, <1>5, <1>6
<1>8. ASSUME NEW l \in a + 1 .. dep PROVE c[l].idx = findChildIndex(h[c[l].node], key)
  <2>1. l \in a + 1 .. dep + 1 /\ l \in 1 .. dep + 1 /\ l # dep + 1
    BY <1>4, <1>5, <1>7
  <2> QED
    BY <1>4, <1>6, <2>1 DEF idx, KeyIndex
<1>9. \A l \in a + 1 .. dep + 1 : key \in rng[c[l].node]
  <2> DEFINE m == a + 1
  <2>1. m \in 1 .. dep + 1 /\ key \in rng[c[m].node]
    BY <1>6, <1>7
  <2>2. \A l \in m .. dep : c[l].idx = findChildIndex(h[c[l].node], key)
    BY <1>8
  <2> HIDE DEF m
  <2>3. \A l \in m .. dep + 1 : key \in rng[c[l].node]
    BY <1>4, <2>1, <2>2, KeysDown
  <2> QED
    BY <2>3 DEF m
<1>10. dep + 1 \in a + 1 .. dep + 1 /\ dep + 1 \in 1 .. dep + 1
  BY <1>4, <1>5, <1>7
<1>11. c[dep + 1].idx = findRecordIndex(h[c[dep + 1].node], key)
  BY <1>4, <1>6, <1>10 DEF idx, KeyIndex
<1> QED
  BY <1>3, <1>9, <1>10, <1>11 DEF SearchPath, c

-----------------------------------------------------------------------------
(* A cursor that goes up.                                                  *)

LEMMA MaxIs ==
  ASSUME NEW n \in Nat, NEW S \in SUBSET (0 .. n), S # {}
  PROVE  Max(S) \in S /\ \A x \in S : x <= Max(S)
<1> DEFINE T == {j \in Nat : \E x \in S : j = n - x}
<1>1. T # {}
  <2>1. PICK x \in S : TRUE
    OBVIOUS
  <2>2. n - x \in T
    BY <2>1
  <2> QED
    BY <2>2
<1>2. PICK j \in T : \A i \in T : j <= i
  BY <1>1, LeastNat
<1>3. PICK m \in S : j = n - m
  BY <1>2
<1>4. \A x \in S : m >= x
  <2> SUFFICES ASSUME NEW x \in S PROVE m >= x
    OBVIOUS
  <2>1. n - x \in T
    OBVIOUS
  <2>2. n - m <= n - x
    BY <1>2, <1>3, <2>1
  <2> QED
    BY <2>2
<1>5. Max(S) \in S /\ \A x \in S : Max(S) >= x
  BY <1>4 DEF Max
<1> DEFINE b == Max(S)
<1> HIDE DEF b
<1>6. b \in S /\ \A x \in S : b >= x
  BY <1>5 DEF b
<1>7. b \in Nat /\ \A x \in S : x \in Nat
  BY <1>6
<1>8. \A x \in S : x <= b
  BY <1>6, <1>7
<1> QED
  BY <1>6, <1>8 DEF b

LEMMA Prefix ==
  ASSUME NEW c \in Seq(Stop), NEW l \in 0 .. Len(c)
  PROVE  /\ SubSeq(c, 1, l) \in Seq(Stop) /\ Len(SubSeq(c, 1, l)) = l
         /\ \A x \in 1 .. l : SubSeq(c, 1, l)[x] = c[x]
<1>1. Len(c) \in Nat /\ l \in Nat /\ l \in Int /\ \A x \in 1 .. l : c[x] \in Stop
  OBVIOUS
<1>2. /\ SubSeq(c, 1, l) \in Seq(Stop)
      /\ Len(SubSeq(c, 1, l)) = IF 1 <= l THEN l - 1 + 1 ELSE 0
      /\ \A x \in 1 .. l - 1 + 1 : SubSeq(c, 1, l)[x] = c[1 + x - 1]
  BY <1>1, SubSeqProperties
<1> QED
  BY <1>1, <1>2

LEMMA PrefixEnds ==
  ASSUME NEW c \in Seq(Stop), NEW l \in 1 .. Len(c)
  PROVE  /\ Last(SubSeq(c, 1, l)) = c[l]
         /\ Front(SubSeq(c, 1, l)) = SubSeq(c, 1, l - 1)
<1> DEFINE s == SubSeq(c, 1, l)
           f == SubSeq(s, 1, l - 1)
           t == SubSeq(c, 1, l - 1)
<1>1. l \in 0 .. Len(c) /\ l - 1 \in 0 .. Len(c)
  OBVIOUS
<1>2. s \in Seq(Stop) /\ Len(s) = l /\ \A x \in 1 .. l : s[x] = c[x]
  BY <1>1, Prefix
<1>3. Last(s) = c[l]
  BY <1>2 DEF Last
<1> HIDE DEF s
<1>4. t \in Seq(Stop) /\ Len(t) = l - 1 /\ \A x \in 1 .. l - 1 : t[x] = c[x]
  BY <1>1, Prefix
<1>5. f \in Seq(Stop) /\ Len(f) = l - 1 /\ \A x \in 1 .. l - 1 : f[x] = s[x]
  <2>1. l - 1 \in 0 .. Len(s)
    BY <1>1, <1>2
  <2> QED
    BY <1>2, <2>1, Prefix
<1>6. f = t
  <2>1. \A x \in 1 .. Len(f) : f[x] = t[x]
    BY <1>1, <1>2, <1>4, <1>5
  <2> HIDE DEF f, t
  <2> QED
    BY <1>4, <1>5, <2>1, SeqEqual
<1>7. Front(s) = t
  BY <1>2, <1>6 DEF Front
<1> QED
  BY <1>3, <1>7 DEF s

\* The stop that Ascend() goes to is l.
AscendsTo(c, stops, l) ==
  /\ l \in 1 .. Len(c) /\ (l = 1 \/ l \in stops) /\ \A m \in stops : m <= l
  /\ Last(Ascend(c, stops)) = c[l] /\ Front(Ascend(c, stops)) = SubSeq(c, 1, l - 1)

LEMMA AscendIs ==
  ASSUME NEW c \in Seq(Stop), c # <<>>, NEW stops \in SUBSET (2 .. Len(c))
  PROVE  \E l : AscendsTo(c, stops, l)
<1> DEFINE S == stops \cup {1}
           l == Max(S)
<1>1. Len(c) \in Nat /\ Len(c) # 0
  BY EmptySeq
<1>2. l \in S /\ \A x \in S : x <= l
  <2>1. S \in SUBSET (0 .. Len(c)) /\ S # {}
    BY <1>1
  <2> HIDE DEF S
  <2> QED
    BY <1>1, <2>1, MaxIs
<1> HIDE DEF l
<1>3. l \in 1 .. Len(c)
  BY <1>1, <1>2
<1>4. Ascend(c, stops) = SubSeq(c, 1, l)
  BY DEF Ascend, l
<1>5. AscendsTo(c, stops, l)
  BY <1>2, <1>3, <1>4, PrefixEnds DEF AscendsTo
<1> QED
  BY <1>5

\* A node that isNodeParent() takes for one that surely has the key below is one.
LEMMA ParentRange ==
  ASSUME NEW h, NEW r, NEW dep, NEW lev, NEW rng, NEW big, Tree(h, r, dep, lev, rng, big),
         NEW n \in Used(h), n # r, NEW key \in Key, isNodeParent(h[n], key)
  PROVE  key \in rng[n]
<1> DEFINE nd == h[n]
           R == rng[n]
           k == numKeys(nd)
           f == findChildIndex(nd, key)
<1>1. /\ nd \in BtNode /\ R \in SUBSET Key /\ NodeOK(nd, lev[n], R)
  BY UsedNodes DEF Tree, Nodes
<1>2. /\ k \in Nat /\ k >= 1 /\ key \in Nat
      /\ \A i \in 1 .. k : nd.entries[i].key \in R /\ nd.entries[i].key \in Nat
  <2>1. k >= 1
    BY RangeNonempty
  <2>2. /\ k \in Nat /\ \A i \in 1 .. k : nd.entries[i].key \in Nat
    BY <1>1, NodeFacts
  <2>3. \A i \in 1 .. k : nd.entries[i].key \in R
    BY <1>1 DEF NodeOK
  <2> QED
    BY <2>1, <2>2, <2>3
<1>3. /\ Convex(R) /\ Ascending(nd)
      /\ (nd.First <=> Lowest(R)) /\ (nd.Last <=> Highest(R))
  BY <1>1 DEF NodeOK
<1> HIDE DEF nd, R, k, f
<1> DEFINE x == nd.entries[1].key
           y == nd.entries[k].key
<1>4. x \in R /\ x \in Nat /\ y \in R /\ y \in Nat
  <2>1. 1 \in 1 .. k /\ k \in 1 .. k
    BY <1>2
  <2> QED
    BY <1>2, <2>1
<1>5. CASE nd.isLeaf
  <2>1. KeyAt(nd, 0) = x /\ KeyAt(nd, numKeys(nd) - 1) = y
    <3>1. numKeys(nd) = k /\ k - 1 + 1 = k /\ 0 + 1 = 1
      BY <1>2 DEF k
    <3> QED
      BY <3>1 DEF KeyAt
  <2>2. (key >= x \/ nd.First) /\ (key <= y \/ nd.Last)
    BY <1>2, <1>5, <2>1 DEF isNodeParent, nd, k
  <2> HIDE DEF x, y
  <2>3. CASE key < x
    <3>1. nd.First /\ key <= x
      BY <1>2, <1>4, <2>2, <2>3
    <3> QED
      <4>1. Lowest(R)
        BY <1>3, <3>1
      <4>2. key \in R
        BY <1>4, <3>1, <4>1 DEF Lowest
      <4> QED
        BY <4>2 DEF R
  <2>4. CASE y < key
    <3>1. nd.Last /\ y <= key
      BY <1>2, <1>4, <2>2, <2>4
    <3> QED
      <4>1. Highest(R)
        BY <1>3, <3>1
      <4>2. key \in R
        BY <1>4, <3>1, <4>1 DEF Highest
      <4> QED
        BY <4>2 DEF R
  <2>5. CASE x <= key /\ key <= y
    BY <1>3, <1>4, <2>5 DEF Convex, R
  <2> QED
    BY <1>2, <1>4, <2>3, <2>4, <2>5
<1>6. CASE ~nd.isLeaf
  <2>1. f \notin {-1, k - 1} /\ f \in -1 .. k - 1
    BY <1>1, <1>3, <1>6, ChildIndex DEF isNodeParent, nd, k, f
  <2>2. Within(nd, f, key)
    BY <1>1, <1>3, <2>1, WithinIs DEF nd, k, f
  <2>3. f + 1 \in 1 .. k /\ f + 2 \in 1 .. k
    BY <1>2, <2>1
  <2>4. nd.entries[f + 1].key <= key /\ key < nd.entries[f + 2].key
    BY <2>1, <2>2 DEF Within, k
  <2>5. /\ nd.entries[f + 1].key \in R /\ nd.entries[f + 2].key \in R
        /\ nd.entries[f + 2].key \in Nat
    BY <1>2, <2>3
  <2>6. key <= nd.entries[f + 2].key
    BY <1>2, <2>4, <2>5
  <2> QED
    BY <1>3, <2>4, <2>5, <2>6 DEF Convex, R
<1> QED
  BY <1>5, <1>6

\* From wherever the cursor is.
LEMMA GoToKeyIs ==
  ASSUME NEW h, NEW r, NEW dep, NEW lev, NEW rng, NEW big, Tree(h, r, dep, lev, rng, big),
         NEW c, Complete(h, r, dep, c), NEW key \in Key
  PROVE  SearchPath(h, r, dep, rng, goToKey(h, c, key), key)
<1> DEFINE stops == {l \in 2 .. Len(c) : isNodeParent(h[c[l].node], key)}
<1>1. /\ dep \in Nat /\ c \in Seq(Stop) /\ Len(c) = dep + 1 /\ c[1].node = r /\ c # <<>>
      /\ Hops(h, c, dep) /\ Levels(h, dep, lev, c, dep)
  BY CompleteFacts
<1>2. PICK l : AscendsTo(c, stops, l)
  <2>1. stops \in SUBSET (2 .. Len(c))
    OBVIOUS
  <2> HIDE DEF stops
  <2> QED
    BY <1>1, <2>1, AscendIs
<1>3. /\ l \in 1 .. dep + 1 /\ (l = 1 \/ l \in stops)
      /\ goToKey(h, c, key) = moveToKey(h, c[l].node, key, SubSeq(c, 1, l - 1))
  BY <1>1, <1>2 DEF AscendsTo, goToKey, AscendToParent
<1>4. LeadsTo(h, r, SubSeq(c, 1, l - 1), c[l].node)
  <2>1. dep < Len(c)
    BY <1>1
  <2> QED
    BY <1>1, <1>3, <2>1, PrefixLeads
<1>5. key \in rng[c[l].node]
  <2>1. CASE l = 1
    BY <1>1, <2>1 DEF Tree, Shape
  <2>2. CASE l # 1
    <3>1. isNodeParent(h[c[l].node], key)
      BY <1>3, <2>2
    <3>2. c[l].node \in Used(h) /\ lev[c[l].node] = dep + 1 - l
      BY <1>1, <1>3 DEF Levels
    <3>3. c[l].node # r
      BY <1>1, <1>3, <2>2, <3>2 DEF Tree, Shape
    <3> QED
      BY <3>1, <3>2, <3>3, ParentRange
  <2> QED
    BY <2>1, <2>2
<1> QED
  BY <1>3, <1>4, <1>5, MoveToKeyIs

-----------------------------------------------------------------------------
(* A step forward and back.                                                *)

LEMMA SpineRanges ==
  ASSUME NEW h, NEW r, NEW dep, NEW lev, NEW rng, NEW big, Tree(h, r, dep, lev, rng, big),
         NEW n \in Nat, NEW c, c[1].node = r, Hops(h, c, n)
  PROVE  /\ (\A l \in 1 .. n : c[l].idx = lastpointer(h[c[l].node])) =>
              \A l \in 1 .. n + 1 : Highest(rng[c[l].node])
         /\ (\A l \in 1 .. n : c[l].idx = firstpointer(h[c[l].node])) =>
              \A l \in 1 .. n + 1 : Lowest(rng[c[l].node])
<1>0. Shape(h, r, dep, lev, rng) /\ Nodes(h, lev, rng) /\ Kids(h, lev, rng) /\ rng[r] = Key
  BY DEF Tree, Shape
<1>1. ASSUME NEW l \in 1 .. n
      PROVE  /\ c[l].idx = lastpointer(h[c[l].node]) /\ Highest(rng[c[l].node]) =>
                  Highest(rng[c[l + 1].node])
             /\ c[l].idx = firstpointer(h[c[l].node]) /\ Lowest(rng[c[l].node]) =>
                  Lowest(rng[c[l + 1].node])
  <2> DEFINE m == c[l].node
             nd == h[m]
             i == c[l].idx
             R == rng[m]
             k == numKeys(nd)
             S == rng[c[l + 1].node]
  <2>1. m \in Inner(h) /\ i \in Index(nd) /\ c[l + 1].node = Child(nd, i)
    BY DEF Hops, Hop
  <2>2. S = {key \in R : Within(nd, i, key)}
    <3>1. KidOK(h, lev, rng, m, i)
      BY <1>0, <2>1 DEF Kids
    <3> QED
      BY <2>1, <3>1 DEF KidOK
  <2>3. nd \in BtNode /\ ~nd.isLeaf /\ R \subseteq Key
    BY <1>0, <2>1, UsedNodes DEF Inner
  <2>4. k \in Nat /\ \A x \in 1 .. k : nd.entries[x].key \in Nat
    BY <2>3, NodeFacts
  <2>5. \A key \in R : key \in Nat /\ key \in Key
    BY <2>3
  <2>6. lastpointer(nd) = k - 1 /\ firstpointer(nd) = -1
    BY <2>3 DEF lastpointer, firstpointer
  <2> HIDE DEF m, nd, i, R, k, S
  <2>7. ASSUME i = k - 1, Highest(R) PROVE Highest(S)
    <3> SUFFICES ASSUME NEW x \in S, NEW y \in Key, x <= y PROVE y \in S
      BY DEF Highest
    <3>1. x \in R /\ Within(nd, i, x) /\ x \in Nat /\ y \in Nat
      BY <2>2, <2>5
    <3>2. y \in R
      BY <2>7, <3>1 DEF Highest
    <3>3. i # -1 => nd.entries[i + 1].key \in Nat /\ nd.entries[i + 1].key <= x
      BY <2>4, <2>7, <3>1 DEF Within
    <3>4. i # -1 => nd.entries[i + 1].key <= y
      BY <3>1, <3>3
    <3>5. Within(nd, i, y)
      BY <2>7, <3>4 DEF Within, k
    <3> QED
      BY <2>2, <3>2, <3>5
  <2>8. ASSUME i = -1, Lowest(R) PROVE Lowest(S)
    <3> SUFFICES ASSUME NEW x \in S, NEW y \in Key, y <= x PROVE y \in S
      BY DEF Lowest
    <3>1. x \in R /\ Within(nd, i, x) /\ x \in Nat /\ y \in Nat
      BY <2>2, <2>5
    <3>2. y \in R
      BY <2>8, <3>1 DEF Lowest
    <3>3. i # k - 1 => nd.entries[i + 2].key \in Nat /\ x < nd.entries[i + 2].key
      <4>1. i # k - 1 => i + 2 \in 1 .. k
        BY <2>4, <2>8
      <4> QED
        BY <2>4, <3>1, <4>1 DEF Within, k
    <3>4. i # k - 1 => y < nd.entries[i + 2].key
      BY <3>1, <3>3
    <3>5. Within(nd, i, y)
      BY <2>8, <3>4 DEF Within, k
    <3> QED
      BY <2>2, <3>2, <3>5
  <2>9. /\ i = lastpointer(nd) /\ Highest(R) => Highest(S)
        /\ i = firstpointer(nd) /\ Lowest(R) => Lowest(S)
    BY <2>6, <2>7, <2>8
  <2> QED
    BY <2>9 DEF i, nd, R, S, m
<1>2. ASSUME \A l \in 1 .. n : c[l].idx = lastpointer(h[c[l].node])
      PROVE  \A l \in 1 .. n + 1 : Highest(rng[c[l].node])
  <2> DEFINE T == {l \in Nat : l \in 1 .. n + 1 /\ ~Highest(rng[c[l].node])}
  <2>1. SUFFICES ASSUME T # {} PROVE FALSE
    OBVIOUS
  <2>2. PICK l \in T : \A x \in T : l <= x
    BY <2>1, LeastNat
  <2>3. l # 1
    <3>1. Highest(rng[c[1].node])
      BY <1>0 DEF Highest
    <3> QED
      BY <2>2, <3>1
  <2>4. l - 1 \in 1 .. n /\ l - 1 \in Nat /\ l - 1 \notin T /\ l - 1 + 1 = l /\ l - 1 \in 1 .. n + 1
    BY <2>2, <2>3
  <2>5. Highest(rng[c[l - 1].node]) /\ c[l - 1].idx = lastpointer(h[c[l - 1].node])
    BY <1>2, <2>4
  <2>6. Highest(rng[c[l - 1 + 1].node])
    BY <1>1, <2>4, <2>5
  <2> QED
    BY <2>2, <2>4, <2>6
<1>3. ASSUME \A l \in 1 .. n : c[l].idx = firstpointer(h[c[l].node])
      PROVE  \A l \in 1 .. n + 1 : Lowest(rng[c[l].node])
  <2> DEFINE T == {l \in Nat : l \in 1 .. n + 1 /\ ~Lowest(rng[c[l].node])}
  <2>1. SUFFICES ASSUME T # {} PROVE FALSE
    OBVIOUS
  <2>2. PICK l \in T : \A x \in T : l <= x
    BY <2>1, LeastNat
  <2>3. l # 1
    <3>1. Lowest(rng[c[1].node])
      BY <1>0 DEF Lowest
    <3> QED
      BY <2>2, <3>1
  <2>4. l - 1 \in 1 .. n /\ l - 1 \in Nat /\ l - 1 \notin T /\ l - 1 + 1 = l /\ l - 1 \in 1 .. n + 1
    BY <2>2, <2>3
  <2>5. Lowest(rng[c[l - 1].node]) /\ c[l - 1].idx = firstpointer(h[c[l - 1].node])
    BY <1>3, <2>4
  <2>6. Lowest(rng[c[l - 1 + 1].node])
    BY <1>1, <2>4, <2>5
  <2> QED
    BY <2>2, <2>4, <2>6
<1> QED
  BY <1>2, <1>3

\* Path c up to stop l, there with index i.
Turned(c, l, i) == Append(SubSeq(c, 1, l - 1), At(c[l].node, i))

LEMMA TurnedIs ==
  ASSUME NEW c \in Seq(Stop), NEW l \in 1 .. Len(c), NEW i \in Int
  PROVE  /\ Turned(c, l, i) \in Seq(Stop) /\ Len(Turned(c, l, i)) = l
         /\ \A x \in 1 .. l - 1 : Turned(c, l, i)[x] = c[x]
         /\ Turned(c, l, i)[l].node = c[l].node /\ Turned(c, l, i)[l].idx = i
<1> DEFINE s == SubSeq(c, 1, l - 1)
           e == At(c[l].node, i)
<1>1. l - 1 \in 0 .. Len(c) /\ l - 1 + 1 = l /\ c[l] \in Stop
  OBVIOUS
<1>2. s \in Seq(Stop) /\ Len(s) = l - 1 /\ \A x \in 1 .. l - 1 : s[x] = c[x]
  BY <1>1, Prefix
<1>3. e \in Stop /\ e.node = c[l].node /\ e.idx = i
  BY <1>1 DEF At, Stop
<1> HIDE DEF s, e
<1>4. /\ Append(s, e) \in Seq(Stop) /\ Len(Append(s, e)) = Len(s) + 1
      /\ \A x \in 1 .. Len(s) : Append(s, e)[x] = s[x] /\ Append(s, e)[Len(s) + 1] = e
  BY <1>2, <1>3, AppendProperties
<1>5. Append(s, e)[l] = e
  BY <1>1, <1>2, <1>3, AppendProperties
<1>6. Turned(c, l, i) = Append(s, e)
  BY DEF Turned, s, e
<1> QED
  BY <1>1, <1>2, <1>3, <1>4, <1>5, <1>6

LEMMA TurnLeads ==
  ASSUME NEW h, NEW r, NEW dep, NEW lev, NEW rng, NEW big, Tree(h, r, dep, lev, rng, big),
         NEW c, Complete(h, r, dep, c),
         NEW l \in 1 .. dep, NEW i \in Index(h[c[l].node])
  PROVE  LeadsTo(h, r, Turned(c, l, i), Child(h[c[l].node], i))
<1> DEFINE t == Turned(c, l, i)
           m == c[l].node
<1>1. /\ dep \in Nat /\ c \in Seq(Stop) /\ Len(c) = dep + 1 /\ c[1].node = r /\ Hops(h, c, dep)
      /\ l \in 1 .. Len(c) /\ m \in Used(h) /\ h[m] \in BtNode
  <2>1. dep \in Nat /\ c \in Seq(Stop) /\ Len(c) = dep + 1 /\ c[1].node = r /\ Hops(h, c, dep)
    BY CompleteFacts
  <2>2. l \in 1 .. dep + 1
    BY <2>1
  <2>3. \A x \in 1 .. dep + 1 : c[x].node \in Used(h) /\ h[c[x].node] \in BtNode
    BY CompleteFacts
  <2> QED
    BY <2>1, <2>2, <2>3
<1>2. m \in Inner(h)
  BY <1>1 DEF Hops, Hop
<1>3. Child(h[m], i) \in Used(h)
  BY <1>2 DEF Tree, Kids, KidOK
<1>4. i \in Int
  BY <1>1, NodeFacts DEF Index
<1>5. /\ t \in Seq(Stop) /\ Len(t) = l /\ \A x \in 1 .. l - 1 : t[x] = c[x]
      /\ t[l].node = m /\ t[l].idx = i
  BY <1>1, <1>4, TurnedIs
<1> HIDE DEF t, m
<1>6. t[1].node = r
  <2>1. CASE l = 1
    BY <1>1, <1>5, <2>1 DEF m
  <2>2. CASE l # 1
    <3>1. 1 \in 1 .. l - 1
      BY <2>2
    <3> QED
      BY <1>1, <1>5, <3>1
  <2> QED
    BY <2>1, <2>2
<1>7. ASSUME NEW x \in 1 .. l
      PROVE  /\ t[x].node \in Inner(h) /\ t[x].idx \in Index(h[t[x].node])
             /\ Child(h[t[x].node], t[x].idx) = IF x = l THEN Child(h[m], i) ELSE t[x + 1].node
  <2>1. CASE x = l
    BY <1>2, <1>5, <2>1 DEF m
  <2>2. CASE x # l
    <3>1. x \in 1 .. l - 1 /\ x \in 1 .. dep
      BY <1>1, <2>2
    <3>2. Hop(h, c, x) /\ t[x] = c[x]
      BY <1>1, <1>5, <3>1 DEF Hops
    <3>3. t[x + 1].node = c[x + 1].node
      <4>1. x + 1 = l \/ x + 1 \in 1 .. l - 1
        BY <3>1
      <4> QED
        BY <1>5, <4>1 DEF m
    <3> QED
      BY <2>2, <3>2, <3>3 DEF Hop
  <2> QED
    BY <2>1, <2>2
<1>8. Len(t) # 0
  BY <1>5
<1> QED
  BY <1>3, <1>5, <1>6, <1>7, <1>8 DEF LeadsTo, t, m

LEMMA TurnLeaf ==
  ASSUME NEW h, NEW r, NEW dep, NEW lev, NEW rng, NEW big, Tree(h, r, dep, lev, rng, big),
         NEW c, Complete(h, r, dep, c), NEW i \in 0 .. numKeys(h[c[dep + 1].node])
  PROVE  Complete(h, r, dep, Turned(c, dep + 1, i))
<1> DEFINE l == dep + 1
           t == Turned(c, l, i)
<1>1. /\ dep \in Nat /\ c \in Seq(Stop) /\ Len(c) = l /\ c[1].node = r /\ Hops(h, c, dep)
      /\ l \in 1 .. Len(c) /\ c[l].node \in Used(h) /\ h[c[l].node] \in BtNode
      /\ h[c[l].node].isLeaf
  <2>1. /\ dep \in Nat /\ c \in Seq(Stop) /\ Len(c) = l /\ c[1].node = r /\ Hops(h, c, dep)
    BY CompleteFacts
  <2>2. l \in 1 .. dep + 1
    BY <2>1
  <2> QED
    BY <2>1, <2>2, CompleteFacts
<1>2. i \in Int
  BY <1>1, NodeFacts
<1> HIDE DEF l, t
<1>3. /\ t \in Seq(Stop) /\ Len(t) = l /\ \A x \in 1 .. l - 1 : t[x] = c[x]
      /\ t[l].node = c[l].node /\ t[l].idx = i
  <2>1. c \in Seq(Stop) /\ l \in 1 .. Len(c) /\ i \in Int
    BY <1>1, <1>2
  <2>2. /\ Turned(c, l, i) \in Seq(Stop) /\ Len(Turned(c, l, i)) = l
        /\ \A x \in 1 .. l - 1 : Turned(c, l, i)[x] = c[x]
        /\ Turned(c, l, i)[l].node = c[l].node /\ Turned(c, l, i)[l].idx = i
    BY <2>1, TurnedIs
  <2> QED
    BY <2>2 DEF t
<1>4. \A x \in 1 .. l : t[x].node = c[x].node
  <2> SUFFICES ASSUME NEW x \in 1 .. l PROVE t[x].node = c[x].node
    OBVIOUS
  <2>1. l \in Nat /\ (x = l \/ x \in 1 .. l - 1)
    BY <1>1
  <2> QED
    BY <1>3, <2>1
<1>5. ASSUME NEW x \in 1 .. dep PROVE Hop(h, t, x)
  <2>1. Hop(h, c, x) /\ x \in 1 .. l - 1 /\ x \in 1 .. l /\ x + 1 \in 1 .. l
    BY <1>1 DEF Hops, l
  <2> QED
    BY <1>3, <1>4, <2>1 DEF Hop
<1>6. t[1].node = r
  BY <1>1, <1>4
<1> QED
  BY <1>1, <1>3, <1>4, <1>5, <1>6 DEF Complete, l, t

\* Path d is that of c up to stop l, there turned by one index to the right (left), and
\* from there the first (last) path down; all stops of c after l are last (first).
TurnsRight(h, dep, c, l, d) ==
  /\ l \in 1 .. dep + 1 /\ c[l].idx # lastpointer(h[c[l].node])
  /\ \A x \in l + 1 .. dep + 1 : c[x].idx = lastpointer(h[c[x].node])
  /\ d = IF l = dep + 1 THEN Turned(c, l, c[l].idx + 1)
         ELSE moveToFirst(h, Child(h[c[l].node], c[l].idx + 1), Turned(c, l, c[l].idx + 1))

TurnsLeft(h, dep, c, l, d) ==
  /\ l \in 1 .. dep + 1 /\ c[l].idx # firstpointer(h[c[l].node])
  /\ \A x \in l + 1 .. dep + 1 : c[x].idx = firstpointer(h[c[x].node])
  /\ d = IF l = dep + 1 THEN Turned(c, l, c[l].idx - 1)
         ELSE moveToLast(h, Child(h[c[l].node], c[l].idx - 1), Turned(c, l, c[l].idx - 1))

LEMMA NextTurns ==
  ASSUME NEW h, NEW r, NEW dep, NEW lev, NEW rng, NEW big, Tree(h, r, dep, lev, rng, big),
         NEW c, Complete(h, r, dep, c), isValid(h, c)
  PROVE  \E l : TurnsRight(h, dep, c, l, moveToNext(h, c))
<1> DEFINE stops == {l \in 2 .. Len(c) : c[l].idx # lastpointer(h[c[l].node])}
<1>1. /\ dep \in Nat /\ c \in Seq(Stop) /\ Len(c) = dep + 1 /\ c[1].node = r /\ c # <<>>
      /\ Hops(h, c, dep) /\ Last(c) = c[dep + 1]
  BY CompleteFacts
<1>2. \A l \in 1 .. dep + 1 : c[l].node \in Used(h) /\ (h[c[l].node].isLeaf <=> l = dep + 1)
  BY CompleteFacts
<1>3. PICK l : AscendsTo(c, stops, l)
  <2>1. stops \in SUBSET (2 .. Len(c))
    OBVIOUS
  <2> HIDE DEF stops
  <2> QED
    BY <1>1, <2>1, AscendIs
<1>4. /\ l \in 1 .. dep + 1 /\ (l = 1 \/ l \in stops) /\ \A m \in stops : m <= l
      /\ Last(Ascend(c, stops)) = c[l] /\ Front(Ascend(c, stops)) = SubSeq(c, 1, l - 1)
  BY <1>1, <1>3 DEF AscendsTo
<1>5. ASSUME NEW x \in l + 1 .. dep + 1 PROVE c[x].idx = lastpointer(h[c[x].node])
  <2>1. x \in 2 .. Len(c) /\ ~(x <= l)
    BY <1>1, <1>4
  <2> QED
    BY <1>4, <2>1
<1>6. c[l].idx # lastpointer(h[c[l].node])
  <2> SUFFICES ASSUME c[l].idx = lastpointer(h[c[l].node]) PROVE FALSE
    OBVIOUS
  <2>1. l = 1
    BY <1>4
  <2>2. \A x \in 1 .. dep + 1 : c[x].idx = lastpointer(h[c[x].node])
    <3> SUFFICES ASSUME NEW x \in 1 .. dep + 1 PROVE c[x].idx = lastpointer(h[c[x].node])
      OBVIOUS
    <3>1. x = l \/ x \in l + 1 .. dep + 1
      BY <1>1, <2>1
    <3> QED
      BY <1>5, <3>1
  <2>3. dep + 1 \in 1 .. dep + 1 /\ \A x \in 1 .. dep : x \in 1 .. dep + 1
    BY <1>1
  <2>4. Highest(rng[c[dep + 1].node])
    <3>1. \A x \in 1 .. dep : c[x].idx = lastpointer(h[c[x].node])
      BY <2>2, <2>3
    <3>2. \A x \in 1 .. dep + 1 : Highest(rng[c[x].node])
      BY <1>1, <3>1, SpineRanges
    <3> QED
      BY <2>3, <3>2
  <2>5. h[c[dep + 1].node].Last
    BY <1>2, <2>3, <2>4 DEF Tree, Nodes, NodeOK
  <2>6. c[dep + 1].idx = numKeys(h[c[dep + 1].node])
    BY <1>2, <2>2, <2>3 DEF lastpointer
  <2> QED
    BY <1>1, <2>5, <2>6 DEF isValid, entryIndex, currNode
<1> DEFINE nd == h[c[l].node]
           i == c[l].idx + 1
           at == Turned(c, l, i)
<1>7. moveToNext(h, c) = IF nd.isLeaf THEN at ELSE moveToFirst(h, Child(nd, i), at)
  <2> DEFINE a == Ascend(c, stops)
  <2>1. a = Ascend(c, {x \in 2 .. Len(c) : c[x].idx # lastpointer(h[c[x].node])})
    OBVIOUS
  <2> HIDE DEF a, stops
  <2>2. /\ currNode(h, a) = nd /\ entryIndex(a) + 1 = i
        /\ Append(Front(a), At(Last(a).node, i)) = at
    BY <1>4 DEF currNode, entryIndex, Turned, a
  <2> HIDE DEF i, at, nd
  <2> QED
    BY <2>1, <2>2 DEF moveToNext
<1>8. nd.isLeaf <=> l = dep + 1
  BY <1>2, <1>4
<1>9. TurnsRight(h, dep, c, l, moveToNext(h, c))
  BY <1>4, <1>5, <1>6, <1>7, <1>8 DEF TurnsRight
<1> QED
  BY <1>9

LEMMA PrevTurns ==
  ASSUME NEW h, NEW r, NEW dep, NEW lev, NEW rng, NEW big, Tree(h, r, dep, lev, rng, big),
         NEW c, Complete(h, r, dep, c), ~isFirst(h, c)
  PROVE  \E l : TurnsLeft(h, dep, c, l, moveToPrev(h, c))
<1> DEFINE stops == {l \in 2 .. Len(c) : c[l].idx # firstpointer(h[c[l].node])}
<1>1. /\ dep \in Nat /\ c \in Seq(Stop) /\ Len(c) = dep + 1 /\ c[1].node = r /\ c # <<>>
      /\ Hops(h, c, dep) /\ Last(c) = c[dep + 1]
  BY CompleteFacts
<1>2. \A l \in 1 .. dep + 1 : c[l].node \in Used(h) /\ (h[c[l].node].isLeaf <=> l = dep + 1)
  BY CompleteFacts
<1>3. PICK l : AscendsTo(c, stops, l)
  <2>1. stops \in SUBSET (2 .. Len(c))
    OBVIOUS
  <2> HIDE DEF stops
  <2> QED
    BY <1>1, <2>1, AscendIs
<1>4. /\ l \in 1 .. dep + 1 /\ (l = 1 \/ l \in stops) /\ \A m \in stops : m <= l
      /\ Last(Ascend(c, stops)) = c[l] /\ Front(Ascend(c, stops)) = SubSeq(c, 1, l - 1)
  BY <1>1, <1>3 DEF AscendsTo
<1>5. ASSUME NEW x \in l + 1 .. dep + 1 PROVE c[x].idx = firstpointer(h[c[x].node])
  <2>1. x \in 2 .. Len(c) /\ ~(x <= l)
    BY <1>1, <1>4
  <2> QED
    BY <1>4, <2>1
<1>6. c[l].idx # firstpointer(h[c[l].node])
  <2> SUFFICES ASSUME c[l].idx = firstpointer(h[c[l].node]) PROVE FALSE
    OBVIOUS
  <2>1. l = 1
    BY <1>4
  <2>2. \A x \in 1 .. dep + 1 : c[x].idx = firstpointer(h[c[x].node])
    <3> SUFFICES ASSUME NEW x \in 1 .. dep + 1 PROVE c[x].idx = firstpointer(h[c[x].node])
      OBVIOUS
    <3>1. x = l \/ x \in l + 1 .. dep + 1
      BY <1>1, <2>1
    <3> QED
      BY <1>5, <3>1
  <2>3. dep + 1 \in 1 .. dep + 1 /\ \A x \in 1 .. dep : x \in 1 .. dep + 1
    BY <1>1
  <2>4. Lowest(rng[c[dep + 1].node])
    <3>1. \A x \in 1 .. dep : c[x].idx = firstpointer(h[c[x].node])
      BY <2>2, <2>3
    <3>2. \A x \in 1 .. dep + 1 : Lowest(rng[c[x].node])
      BY <1>1, <3>1, SpineRanges
    <3> QED
      BY <2>3, <3>2
  <2>5. h[c[dep + 1].node].First
    BY <1>2, <2>3, <2>4 DEF Tree, Nodes, NodeOK
  <2>6. c[dep + 1].idx = 0
    BY <1>2, <2>2, <2>3 DEF firstpointer
  <2> QED
    BY <1>1, <2>5, <2>6 DEF isFirst, entryIndex, currNode
<1> DEFINE nd == h[c[l].node]
           i == c[l].idx - 1
           at == Turned(c, l, i)
<1>7. moveToPrev(h, c) = IF nd.isLeaf THEN at ELSE moveToLast(h, Child(nd, i), at)
  <2> DEFINE a == Ascend(c, stops)
  <2>1. a = Ascend(c, {x \in 2 .. Len(c) : c[x].idx # firstpointer(h[c[x].node])})
    OBVIOUS
  <2> HIDE DEF a, stops
  <2>2. /\ currNode(h, a) = nd /\ entryIndex(a) - 1 = i
        /\ Append(Front(a), At(Last(a).node, i)) = at
    BY <1>4 DEF currNode, entryIndex, Turned, a
  <2> HIDE DEF i, at, nd
  <2> QED
    BY <2>1, <2>2 DEF moveToPrev
<1>8. nd.isLeaf <=> l = dep + 1
  BY <1>2, <1>4
<1>9. TurnsLeft(h, dep, c, l, moveToPrev(h, c))
  BY <1>4, <1>5, <1>6, <1>7, <1>8 DEF TurnsLeft
<1> QED
  BY <1>9

LEMMA MovesComplete ==
  ASSUME NEW h, NEW r, NEW dep, NEW lev, NEW rng, NEW big, Tree(h, r, dep, lev, rng, big),
         NEW c, Complete(h, r, dep, c)
  PROVE  /\ Complete(h, r, dep, moveToNext(h, c)) /\ Complete(h, r, dep, moveToPrev(h, c))
<1>1. /\ dep \in Nat /\ c \in Seq(Stop) /\ Len(c) = dep + 1 /\ Hops(h, c, dep)
      /\ c[dep + 1].idx \in 0 .. numKeys(h[c[dep + 1].node])
  BY CompleteFacts DEF Complete
<1>2. \A l \in 1 .. dep + 1 : /\ c[l].node \in Used(h) /\ h[c[l].node] \in BtNode
                              /\ (h[c[l].node].isLeaf <=> l = dep + 1)
  BY CompleteFacts
<1>3. ASSUME NEW l \in 1 .. dep + 1
      PROVE  LET nd == h[c[l].node] IN
             /\ l = dep + 1 => /\ firstpointer(nd) = 0 /\ lastpointer(nd) = numKeys(nd)
                               /\ c[l].idx \in 0 .. numKeys(nd)
             /\ l # dep + 1 => /\ firstpointer(nd) = -1 /\ lastpointer(nd) = numKeys(nd) - 1
                               /\ c[l].idx \in Index(nd) /\ l \in 1 .. dep
             /\ numKeys(nd) \in Nat
  <2>1. numKeys(h[c[l].node]) \in Nat
    BY <1>2, NodeFacts
  <2>2. ASSUME l # dep + 1 PROVE c[l].idx \in Index(h[c[l].node]) /\ l \in 1 .. dep
    <3>1. l \in 1 .. dep
      BY <1>1, <2>2
    <3> QED
      BY <1>1, <3>1 DEF Hops, Hop
  <2> QED
    BY <1>1, <1>2, <2>1, <2>2 DEF firstpointer, lastpointer
<1>4. IndexOK(h, FirstIndex(h)) /\ IndexOK(h, LastIndex(h))
  BY IndexesOK
<1>5. ASSUME NEW l \in 1 .. dep, NEW i \in Index(h[c[l].node])
      PROVE  /\ Complete(h, r, dep, moveToFirst(h, Child(h[c[l].node], i), Turned(c, l, i)))
             /\ Complete(h, r, dep, moveToLast(h, Child(h[c[l].node], i), Turned(c, l, i)))
  <2>1. LeadsTo(h, r, Turned(c, l, i), Child(h[c[l].node], i))
    BY TurnLeads
  <2> DEFINE t == Turned(c, l, i)
             k == Child(h[c[l].node], i)
  <2>2. LeadsTo(h, r, t, k)
    BY <2>1
  <2> HIDE DEF t, k
  <2>3. Complete(h, r, dep, Down(h, k, FirstIndex(h), t))
    BY <1>4, <2>2, DownComplete
  <2>4. Complete(h, r, dep, Down(h, k, LastIndex(h), t))
    BY <1>4, <2>2, DownComplete
  <2>5. /\ Complete(h, r, dep, moveToFirst(h, k, t)) /\ Complete(h, r, dep, moveToLast(h, k, t))
    BY <2>3, <2>4, MovesDown
  <2> QED
    BY <2>5 DEF t, k
<1>6. Complete(h, r, dep, moveToNext(h, c))
  <2>1. CASE ~isValid(h, c)
    BY <2>1 DEF moveToNext
  <2>2. CASE isValid(h, c)
    <3>1. PICK l : TurnsRight(h, dep, c, l, moveToNext(h, c))
      BY <2>2, NextTurns
    <3> DEFINE i == c[l].idx + 1
    <3>2. /\ l \in 1 .. dep + 1 /\ c[l].idx # lastpointer(h[c[l].node])
          /\ moveToNext(h, c) = IF l = dep + 1 THEN Turned(c, l, i)
               ELSE moveToFirst(h, Child(h[c[l].node], i), Turned(c, l, i))
      BY <3>1 DEF TurnsRight
    <3>3. CASE l = dep + 1
      <4>1. i \in 0 .. numKeys(h[c[dep + 1].node])
        BY <1>3, <3>2, <3>3
      <4> QED
        BY <3>2, <3>3, <4>1, TurnLeaf
    <3>4. CASE l # dep + 1
      <4>1. i \in Index(h[c[l].node]) /\ l \in 1 .. dep
        BY <1>3, <3>2, <3>4 DEF Index
      <4> HIDE DEF i
      <4> QED
        BY <1>5, <3>2, <3>4, <4>1
    <3> QED
      BY <3>3, <3>4
  <2> QED
    BY <2>1, <2>2
<1>7. Complete(h, r, dep, moveToPrev(h, c))
  <2>1. CASE isFirst(h, c)
    BY <2>1 DEF moveToPrev
  <2>2. CASE ~isFirst(h, c)
    <3>1. PICK l : TurnsLeft(h, dep, c, l, moveToPrev(h, c))
      BY <2>2, PrevTurns
    <3> DEFINE i == c[l].idx - 1
    <3>2. /\ l \in 1 .. dep + 1 /\ c[l].idx # firstpointer(h[c[l].node])
          /\ moveToPrev(h, c) = IF l = dep + 1 THEN Turned(c, l, i)
               ELSE moveToLast(h, Child(h[c[l].node], i), Turned(c, l, i))
      BY <3>1 DEF TurnsLeft
    <3>3. CASE l = dep + 1
      <4>1. i \in 0 .. numKeys(h[c[dep + 1].node])
        BY <1>3, <3>2, <3>3
      <4> QED
        BY <3>2, <3>3, <4>1, TurnLeaf
    <3>4. CASE l # dep + 1
      <4>1. i \in Index(h[c[l].node]) /\ l \in 1 .. dep
        BY <1>3, <3>2, <3>4 DEF Index
      <4> HIDE DEF i
      <4> QED
        BY <1>5, <3>2, <3>4, <4>1
    <3> QED
      BY <3>3, <3>4
  <2> QED
    BY <2>1, <2>2
<1> QED
  BY <1>6, <1>7

LEMMA AfterComplete ==
  ASSUME NEW h, NEW r, NEW dep, NEW lev, NEW rng, NEW big, Tree(h, r, dep, lev, rng, big),
         NEW c, Complete(h, r, dep, c)
  PROVE  /\ Complete(h, r, dep, Settle(h, c))
         /\ Complete(h, r, dep, AfterNext(h, c)) /\ Complete(h, r, dep, AfterPrev(h, c))
<1>1. Complete(h, r, dep, Settle(h, c))
  BY MovesComplete DEF Settle
<1>2. Complete(h, r, dep, AfterNext(h, c))
  BY <1>1, MovesComplete DEF AfterNext
<1> DEFINE d == IF entryIndex(c) = 0 THEN moveToPrev(h, c) ELSE c
<1>3. Complete(h, r, dep, d)
  BY MovesComplete
<1> HIDE DEF d
<1>4. Complete(h, r, dep, moveToPrev(h, d))
  BY <1>3, MovesComplete
<1> QED
  BY <1>1, <1>2, <1>4 DEF AfterPrev, d

-----------------------------------------------------------------------------
(* The recursion of Splits() defines a function: there are functions that  *)
(* keep to it up to each step, and two of them agree as far as both go.    *)

SplitOne(t) ==
  LET split == splitnode(t.heap, Last(t.cursor).node, t.e, Fresh(t.heap))
  IN  [heap |-> split.heap, cursor |-> Front(t.cursor), e |-> split.up]

SplitStates(h, c, e, state) ==
  /\ state[0] = [heap |-> h, cursor |-> c, e |-> e]
  /\ \A i \in Nat : state[i + 1] = SplitOne(state[i])
  /\ Splits(h, c, e) = state[Len(c) - Level(h, c, e)]

LEMMA SplitsStep ==
  ASSUME NEW h, NEW c, NEW e
  PROVE  \E state : SplitStates(h, c, e, state)
<1> DEFINE z == [heap |-> h, cursor |-> c, e |-> e]
           Go(t) == SplitOne(t)
           UpTo(g, m) == g[0] = z /\ \A i \in 0 .. m : i # 0 => g[i] = Go(g[i - 1])
           Is(f) == f = [i \in Nat |-> IF i = 0 THEN z ELSE Go(f[i - 1])]
<1>1. Splits(h, c, e) = (CHOOSE f : Is(f))[Len(c) - Level(h, c, e)]
  BY DEF Splits, SplitOne
<1> HIDE DEF Go, z
<1>2. ASSUME NEW l \in Nat, NEW m \in Nat, l <= m, NEW g, NEW k, UpTo(g, l), UpTo(k, m)
      PROVE  g[l] = k[l]
  <2> DEFINE T == {i \in 0 .. l : g[i] # k[i]}
  <2>1. SUFFICES ASSUME T # {} PROVE FALSE
    OBVIOUS
  <2>2. T \in SUBSET Nat
    OBVIOUS
  <2>3. PICK j \in T : \A i \in T : j <= i
    BY <2>1, <2>2, LeastNat
  <2>4. j \in Nat /\ j # 0 /\ j <= l /\ j <= m
    BY <1>2, <2>3
  <2>5. j - 1 \in 0 .. l /\ j - 1 \notin T
    BY <2>3, <2>4
  <2> QED
    BY <1>2, <2>3, <2>4, <2>5
<1>3. \A m \in Nat : \E g : UpTo(g, m)
  <2> DEFINE T == {m \in Nat : ~\E g : UpTo(g, m)}
  <2>1. SUFFICES ASSUME T # {} PROVE FALSE
    OBVIOUS
  <2>2. PICK m \in T : \A i \in T : m <= i
    BY <2>1, LeastNat
  <2>3. m # 0
    <3>1. UpTo([i \in {0} |-> z], 0)
      OBVIOUS
    <3> QED
      BY <2>2, <3>1
  <2>4. m \in Nat /\ m - 1 \in Nat /\ m - 1 \notin T
    BY <2>2, <2>3
  <2>5. PICK g : UpTo(g, m - 1)
    BY <2>4
  <2> DEFINE k == [i \in 0 .. m |-> IF i = m THEN Go(g[m - 1]) ELSE g[i]]
  <2>6. UpTo(k, m)
    <3>1. k[0] = z
      BY <2>3, <2>4, <2>5
    <3>2. ASSUME NEW i \in 0 .. m, i # 0
          PROVE  k[i] = Go(k[i - 1])
      <4>1. i - 1 \in 0 .. m /\ i - 1 # m /\ k[i - 1] = g[i - 1]
        BY <2>4, <3>2
      <4>2. CASE i = m
        BY <4>1, <4>2
      <4>3. CASE i # m
        <5>1. i \in 0 .. m - 1 /\ k[i] = g[i]
          BY <2>4, <4>3
        <5> QED
          BY <2>5, <3>2, <4>1, <5>1
      <4> QED
        BY <4>2, <4>3
    <3> QED
      BY <3>1, <3>2
  <2> QED
    BY <2>2, <2>6
<1> DEFINE G(m) == CHOOSE g : UpTo(g, m)
           f == [d \in Nat |-> G(d)[d]]
<1>4. \A m \in Nat : UpTo(G(m), m)
  BY <1>3
<1> HIDE DEF G
<1>5. f[0] = z
  BY <1>4
<1>6. ASSUME NEW d \in Nat, d # 0 PROVE f[d] = Go(f[d - 1])
  <2>1. d - 1 \in Nat /\ d \in 0 .. d /\ d - 1 <= d
    BY <1>6
  <2>2. G(d)[d] = Go(G(d)[d - 1])
    BY <1>4, <1>6, <2>1
  <2>3. UpTo(G(d), d) /\ UpTo(G(d - 1), d - 1)
    BY <1>4, <2>1
  <2>4. G(d - 1)[d - 1] = G(d)[d - 1]
    BY <1>2, <2>1, <2>3
  <2> QED
    BY <2>1, <2>2, <2>4
<1>7. Is(f)
  BY <1>5, <1>6
<1> HIDE DEF f
<1> DEFINE state == CHOOSE f1 : Is(f1)
<1>8. Is(state)
  BY <1>7
<1> HIDE DEF state, Is
<1>9. \A i \in Nat : state[i] = IF i = 0 THEN z ELSE Go(state[i - 1])
  <2> DEFINE g == state
  <2>1. g = [i \in Nat |-> IF i = 0 THEN z ELSE Go(g[i - 1])]
    BY <1>8 DEF Is
  <2> HIDE DEF g
  <2>2. \A i \in Nat : g[i] = IF i = 0 THEN z ELSE Go(g[i - 1])
    BY <2>1
  <2> QED
    BY <2>2 DEF g
<1>10. \A i \in Nat : i + 1 \in Nat /\ i + 1 # 0 /\ i + 1 - 1 = i
  OBVIOUS
<1>11. state[0] = z /\ \A i \in Nat : state[i + 1] = Go(state[i])
  BY <1>9, <1>10
<1>12. Splits(h, c, e) = state[Len(c) - Level(h, c, e)]
  BY <1>1 DEF state
<1> QED
  BY <1>11, <1>12 DEF SplitStates, Go, z

-----------------------------------------------------------------------------
(* Free memory.                                                            *)

\* There is memory for n nodes.
FreeFor(h, n) == Cardinality(Used(h)) + n <= Cardinality(Node)

LEMMA FreeIs ==
  ASSUME NEW h, NEW n \in Nat
  PROVE  /\ Cardinality(Used(h)) \in Nat /\ Cardinality(Node) \in Nat
         /\ Cardinality(Node \ Used(h)) >= n => FreeFor(h, n)
<1>1. IsFiniteSet(Node) /\ Used(h) \in SUBSET Node
  BY NodesAssumption DEF Used
<1>2. IsFiniteSet(Used(h)) /\ Cardinality(Node) \in Nat
  BY <1>1, FS_Subset, FS_CardinalityType
<1>3. Cardinality(Used(h)) \in Nat
  BY <1>2, FS_CardinalityType
<1>4. Cardinality(Node \ Used(h)) = Cardinality(Node) - Cardinality(Node \cap Used(h))
  BY <1>1, FS_Difference
<1>5. Node \cap Used(h) = Used(h)
  BY <1>1
<1>6. Cardinality(Node \ Used(h)) = Cardinality(Node) - Cardinality(Used(h))
  BY <1>4, <1>5
<1> QED
  BY <1>2, <1>3, <1>6 DEF FreeFor

LEMMA FreshIs ==
  ASSUME NEW h, NEW n \in Nat, FreeFor(h, n + 1)
  PROVE  /\ Fresh(h) \in Node /\ Fresh(h) \notin Used(h)
         /\ \A g, q : q \in Node /\ q \notin Used(h) /\ Used(g) = Used(h) \cup {q} => FreeFor(g, n)
<1>1. Cardinality(Used(h)) \in Nat /\ Cardinality(Node) \in Nat
  BY FreeIs
<1>2. Cardinality(Used(h)) + (n + 1) <= Cardinality(Node)
  BY DEF FreeFor
<1>3. Used(h) # Node
  BY <1>1, <1>2
<1>4. PICK q \in Node : h[q] = NULL
  BY <1>3 DEF Used
<1>5. Fresh(h) \in Node /\ h[Fresh(h)] = NULL
  BY <1>4 DEF Fresh
<1>6. Fresh(h) \notin Used(h)
  BY <1>5 DEF Used
<1>7. IsFiniteSet(Used(h))
  <2>1. Used(h) \in SUBSET Node
    BY DEF Used
  <2> QED
    BY <2>1, NodesAssumption, FS_Subset
<1>8. ASSUME NEW g, NEW x \in Node, x \notin Used(h), Used(g) = Used(h) \cup {x}
      PROVE  FreeFor(g, n)
  <2>1. Cardinality(Used(g)) = Cardinality(Used(h)) + 1
    BY <1>7, <1>8, FS_AddElement
  <2> QED
    BY <1>1, <1>2, <2>1 DEF FreeFor
<1> QED
  BY <1>5, <1>6, <1>8

-----------------------------------------------------------------------------
(* Entries on their way up.                                                *)

\* The heap as if node n took entry e.
Filled(h, n, e) == [h EXCEPT ![n] = Put(h[n], e)]

\* The heap when node a is split, which in V has the entry, with the right half at q.
Halved(h, V, a, q) == [h EXCEPT ![a] = LeftHalf(V[a]), ![q] = RightHalf(V[a])]

LEMMA NodeEq ==
  ASSUME NEW x \in BtNode, NEW y \in BtNode, x.isLeaf = y.isLeaf, x.First = y.First,
         x.Last = y.Last, x.ptr0 = y.ptr0, x.entries = y.entries
  PROVE  x = y
BY DEF BtNode

LEMMA SplitnodeIs ==
  ASSUME NEW h, h \in [Node -> BtNode \cup {NULL}], NEW a \in Used(h), NEW e,
         NEW q \in Node, q \notin Used(h), Overfull(Put(h[a], e))
  PROVE  LET V == Filled(h, a, e) IN
         /\ V[a] = Put(h[a], e) /\ Used(V) = Used(h)
         /\ \A m \in Node : m # a => V[m] = h[m]
         /\ V \in [Node -> BtNode \cup {NULL}]
         /\ splitnode(h, a, e, q).heap = Halved(h, V, a, q)
         /\ splitnode(h, a, e, q).up = UpEntry(V, a, q)
<1> DEFINE V == Filled(h, a, e)
           v == Put(h[a], e)
           nd == h[a]
           all == InsertAt(nd.entries, findRecordIndex(nd, e.key) + 1, e)
           right == SubSeq(all, MIDDLE + 1, FANOUT + 1)
           left == SubSeq(all, 1, MIDDLE)
<1>1. a \in Node /\ h[a] # NULL /\ nd \in BtNode /\ v \in BtNode /\ v # NULL
  BY NullAssumption DEF Used, Overfull
<1>2. /\ V[a] = v /\ \A m \in Node : m # a => V[m] = h[m]
      /\ V \in [Node -> BtNode \cup {NULL}]
  BY <1>1 DEF Filled
<1>3. Used(V) = Used(h)
  BY <1>1, <1>2 DEF Used
<1>4. v = [nd EXCEPT !.entries = all]
  BY DEF Put
<1> HIDE DEF all
<1>5. /\ v.isLeaf = nd.isLeaf /\ v.First = nd.First /\ v.Last = nd.Last /\ v.ptr0 = nd.ptr0
      /\ v.entries = all
  BY <1>1, <1>4 DEF BtNode
<1>6. [[nd EXCEPT !.Last = FALSE] EXCEPT !.entries = left] = LeftHalf(v)
  <2> DEFINE x == [[nd EXCEPT !.Last = FALSE] EXCEPT !.entries = left]
             y == LeftHalf(v)
  <2> HIDE DEF v
  <2>1. /\ y \in BtNode /\ y.isLeaf = v.isLeaf /\ y.First = v.First /\ y.Last = FALSE
        /\ y.ptr0 = v.ptr0
    BY HalfFacts DEF v
  <2>2. y.entries = left
    BY <1>1, <1>5 DEF LeftHalf, BtNode
  <2>3. y.entries \in Seq(Entry)
    BY <2>1, NodeFacts
  <2>4. left \in Seq(Entry)
    BY <2>2, <2>3
  <2> HIDE DEF left, nd, y
  <2>5. /\ x \in BtNode /\ x.isLeaf = nd.isLeaf /\ x.First = nd.First /\ x.Last = FALSE
        /\ x.ptr0 = nd.ptr0 /\ x.entries = left
    BY <1>1, <2>4 DEF BtNode
  <2> HIDE DEF x
  <2>6. x = y
    BY <1>5, <2>1, <2>2, <2>5, NodeEq
  <2> QED
    BY <2>6 DEF x, y
<1>7. Right(v) = right /\ v.isLeaf = nd.isLeaf /\ v.Last = nd.Last /\ v.entries = all
  BY <1>5 DEF Right
<1>8. Head(right).key = Sep(v)
  <2>1. all \in Seq(Entry) /\ Len(all) = FANOUT + 1
    BY <1>7, NodeFacts DEF Overfull
  <2>2. MIDDLE + 1 \in 1 .. Len(all) /\ FANOUT + 1 \in MIDDLE + 1 .. Len(all)
    BY <2>1
  <2>3. Head(right) = all[MIDDLE + 1]
    BY <2>1, <2>2, HeadTailOfSubSeq
  <2> QED
    BY <1>7, <2>3 DEF Sep
<1> DEFINE moved == [createNewNode(nd.isLeaf, FALSE, nd.Last) EXCEPT
                       !.ptr0 = IF nd.isLeaf THEN NULL ELSE Head(right).ptr,
                       !.entries = IF nd.isLeaf THEN right ELSE Tail(right)]
<1>9. moved = RightHalf(v)
  BY <1>7 DEF RightHalf
<1>10. /\ splitnode(h, a, e, q).heap =
            [h EXCEPT ![a].Last = FALSE, ![a].entries = left, ![q] = moved]
       /\ splitnode(h, a, e, q).up = [key |-> Head(right).key, ptr |-> q]
  BY DEF splitnode, all
<1>11. [h EXCEPT ![a].Last = FALSE, ![a].entries = left, ![q] = moved]
         = [h EXCEPT ![a] = LeftHalf(v), ![q] = RightHalf(v)]
  <2>1. [h EXCEPT ![a].Last = FALSE, ![a].entries = left]
          = [h EXCEPT ![a] = [[nd EXCEPT !.Last = FALSE] EXCEPT !.entries = left]]
    <3> HIDE DEF left, right, moved
    <3> QED
      BY <1>1
  <2> HIDE DEF left, moved
  <2>2. [h EXCEPT ![a].Last = FALSE, ![a].entries = left] = [h EXCEPT ![a] = LeftHalf(v)]
    BY <1>6, <2>1
  <2> QED
    BY <1>9, <2>2
<1> QED
  BY <1>2, <1>3, <1>8, <1>10, <1>11 DEF UpEntry, Halved

\* A root that is no leaf has two children or more.
RootOK(h, r) == ~h[r].isLeaf => numKeys(h[r]) >= 1

\* State t of putEntry(), with an entry to be put into the node of stop l of path c: the
\* path is unchanged up to there, and there is memory for what may follow.
Reaches(h, c, t, l) ==
  /\ t.cursor = SubSeq(c, 1, l) /\ t.heap \in [Node -> BtNode \cup {NULL}]
  /\ c[l].node \in Used(t.heap)
  /\ \A x \in 1 .. l : t.heap[c[x].node] = h[c[x].node]
  /\ FreeFor(t.heap, l + 1)

\* The entry belongs at index i of node nd.
FitsAt(nd, e, i) ==
  /\ e \in Entry /\ NewKey(nd, e.key)
  /\ i = IF nd.isLeaf THEN findRecordIndex(nd, e.key) ELSE findChildIndex(nd, e.key)

\* With the entry, if n has room for it, all is well.
Whole(h, r, dep, lev, rng, n, V, e) ==
  /\ Tree(V, r, dep, lev, rng, n) /\ RootOK(V, r)
  /\ e.key \in rng[n] /\ Records(V) = Records(h) \cup {e}

Pending(h, r, dep, c, e, t, l, lev, rng) ==
  /\ Reaches(h, c, t, l) /\ FitsAt(t.heap[c[l].node], t.e, c[l].idx)
  /\ Whole(h, r, dep, lev, rng, c[l].node, Filled(t.heap, c[l].node, t.e), e)

CanPut(h, r, dep, lev, rng, c, e) ==
  /\ Tree(h, r, dep, lev, rng, NULL) /\ RootOK(h, r)
  /\ e \in [key : Key, ptr : Record] /\ SearchPath(h, r, dep, rng, c, e.key)
  /\ FreeFor(h, dep + 2)

LEMMA FoundIs ==
  ASSUME NEW h, NEW r, NEW dep, NEW lev, NEW rng, NEW c, NEW e,
         CanPut(h, r, dep, lev, rng, c, e)
  PROVE  LET nd == h[c[dep + 1].node]
             f == findRecordIndex(nd, e.key)
         IN  /\ Found(h, c, e) <=> f < numKeys(nd) /\ nd.entries[f + 1].key = e.key
             /\ ~Found(h, c, e) => NewKey(nd, e.key)
<1> DEFINE n == c[dep + 1].node
           nd == h[n]
           f == findRecordIndex(nd, e.key)
<1>1. /\ Tree(h, r, dep, lev, rng, NULL) /\ Complete(h, r, dep, c)
      /\ c[dep + 1].idx = f /\ e.key \in Key
  BY DEF CanPut, SearchPath
<1>2. dep \in Nat /\ Last(c) = c[dep + 1]
  BY <1>1, CompleteFacts
<1>3. n \in Used(h) /\ nd.isLeaf
  BY <1>1 DEF Complete
<1>4. nd \in BtNode /\ Ascending(nd)
  BY <1>1, <1>3, UsedNodes DEF Tree, Nodes, NodeOK
<1>5. Found(h, c, e) <=> f < numKeys(nd) /\ nd.entries[f + 1].key = e.key
  BY <1>1, <1>2, <1>3 DEF Found, currNode, entryIndex, KeyAt
<1>6. /\ f \in 0 .. numKeys(nd) /\ numKeys(nd) \in Nat /\ e.key \in Nat
      /\ \A i \in 1 .. numKeys(nd) : nd.entries[i].key < e.key <=> i <= f
      /\ \A i \in 1 .. numKeys(nd) : nd.entries[i].key \in Nat
  BY <1>1, <1>4, RecordIndex, NodeFacts
<1> HIDE DEF f, nd, n
<1>7. ASSUME ~Found(h, c, e), NEW i \in 1 .. numKeys(nd), nd.entries[i].key = e.key PROVE FALSE
  <2>1. ~(i <= f)
    BY <1>6, <1>7
  <2>2. i = f + 1 \/ f + 1 < i
    BY <1>6, <2>1
  <2>3. f + 1 \in 1 .. numKeys(nd) /\ f < numKeys(nd) /\ ~(f + 1 <= f)
    BY <1>6, <2>1
  <2>4. CASE i = f + 1
    BY <1>5, <1>7, <2>3, <2>4
  <2>5. CASE f + 1 < i
    <3>1. nd.entries[f + 1].key < nd.entries[i].key
      BY <1>4, <2>3, <2>5 DEF Ascending
    <3>2. nd.entries[f + 1].key < e.key
      BY <1>7, <3>1
    <3> QED
      BY <1>6, <2>3, <3>2
  <2> QED
    BY <2>2, <2>4, <2>5
<1>8. ~Found(h, c, e) => NewKey(nd, e.key)
  BY <1>7 DEF NewKey
<1> QED
  BY <1>5, <1>8 DEF f, nd, n

LEMMA PendingStart ==
  ASSUME NEW h, NEW r, NEW dep, NEW lev, NEW rng, NEW c, NEW e,
         CanPut(h, r, dep, lev, rng, c, e), ~Found(h, c, e)
  PROVE  Pending(h, r, dep, c, e, [heap |-> h, cursor |-> c, e |-> e], dep + 1, lev, rng)
<1> DEFINE t == [heap |-> h, cursor |-> c, e |-> e]
           n == c[dep + 1].node
           nd == h[n]
           v == Put(nd, e)
           V == Filled(h, n, e)
           k == numKeys(nd)
<1>0. t.heap = h /\ t.cursor = c /\ t.e = e
  OBVIOUS
<1>1. /\ Tree(h, r, dep, lev, rng, NULL) /\ RootOK(h, r) /\ e \in [key : Key, ptr : Record]
      /\ Complete(h, r, dep, c) /\ e.key \in rng[n] /\ FreeFor(h, dep + 2)
      /\ c[dep + 1].idx = findRecordIndex(nd, e.key)
  BY DEF CanPut, SearchPath
<1>2. e \in Entry /\ e.key \in Key /\ e.ptr \in Record
  BY <1>1 DEF Entry
<1>3. /\ dep \in Nat /\ c \in Seq(Stop) /\ Len(c) = dep + 1 /\ n \in Used(h) /\ nd.isLeaf
  BY <1>1, CompleteFacts DEF Complete
<1>4. /\ nd \in BtNode /\ NodeOK(nd, lev[n], rng[n]) /\ rng[n] \in SUBSET Key /\ n \in Node
      /\ Ascending(nd) /\ SizeOK(h, r, n, NULL) /\ h \in [Node -> BtNode \cup {NULL}]
      /\ n # NULL
  <2>1. /\ nd \in BtNode /\ rng[n] \in SUBSET Key /\ n \in Node /\ n # NULL
    BY <1>1, <1>3, UsedNodes DEF Tree
  <2>2. NodeOK(nd, lev[n], rng[n]) /\ SizeOK(h, r, n, NULL)
    BY <1>1, <1>3 DEF Tree, Nodes, Sizes
  <2>3. Ascending(nd)
    BY <2>2 DEF NodeOK
  <2>4. h \in [Node -> BtNode \cup {NULL}]
    BY <1>1 DEF Tree, Shape
  <2> QED
    BY <2>1, <2>2, <2>3, <2>4
<1>5. NewKey(nd, e.key)
  BY FoundIs
<1>6. /\ v \in BtNode /\ numKeys(v) = k + 1 /\ v.isLeaf = nd.isLeaf
  BY <1>2, <1>4, <1>5, PutFacts
<1>7. NodeOK(v, lev[n], rng[n])
  BY <1>1, <1>2, <1>4, <1>5, PutOK
<1>8. k \in Nat /\ k <= FANOUT /\ (n # r => k >= FANOUT \div 2) /\ FANOUT \div 2 \in Int
  BY <1>4, NodeFacts DEF SizeOK
<1> HIDE DEF t, n, nd, v, k, V
<1>9. Tree(V, r, dep, lev, rng, n)
  <2>1. numKeys(v) <= FANOUT \/ (n = n /\ numKeys(v) = FANOUT + 1)
    BY <1>6, <1>8
  <2>2. n # r => numKeys(v) >= FANOUT \div 2
    BY <1>6, <1>8
  <2>3. h[n].isLeaf /\ v.isLeaf
    BY <1>3, <1>6 DEF nd
  <2>4. Tree([h EXCEPT ![n] = v], r, dep, lev, rng, n)
    BY <1>1, <1>3, <1>6, <1>7, <2>1, <2>2, <2>3, LeafChange
  <2> QED
    BY <2>4 DEF V, Filled, v, nd
<1>10. RootOK(V, r)
  <2>1. V[n] = v /\ \A m \in Node : m # n => V[m] = h[m]
    BY <1>4 DEF V, Filled, v, nd
  <2>2. r \in Node
    BY <1>1, UsedNodes DEF Tree, Shape
  <2> QED
    BY <1>1, <1>3, <1>6, <2>1, <2>2 DEF RootOK
<1>11. Records(V) = Records(h) \cup {e}
  <2>1. \A m \in Used(h) : h[m] \in BtNode
    BY <1>1, UsedNodes DEF Tree
  <2>2. DOMAIN h = Node
    BY <1>4
  <2>3. h[n].isLeaf /\ Ascending(h[n]) /\ NewKey(h[n], e.key)
    BY <1>3, <1>4, <1>5 DEF nd
  <2>4. Records([h EXCEPT ![n] = Put(h[n], e)]) = Records(h) \cup {e}
    BY <1>2, <1>3, <1>4, <2>1, <2>2, <2>3, PutRecords
  <2> QED
    BY <2>4 DEF V, Filled
<1>12. Whole(h, r, dep, lev, rng, n, Filled(t.heap, n, t.e), e)
  <2>1. Filled(t.heap, n, t.e) = V
    BY <1>0 DEF V
  <2> QED
    BY <1>1, <1>9, <1>10, <1>11, <2>1 DEF Whole
<1>13. FitsAt(t.heap[n], t.e, c[dep + 1].idx)
  BY <1>0, <1>1, <1>2, <1>3, <1>5 DEF FitsAt, nd
<1>14. Reaches(h, c, t, dep + 1)
  <2>1. SubSeq(c, 1, dep + 1) = c
    BY <1>3, SubSeqFull
  <2>2. dep + 1 + 1 = dep + 2
    BY <1>3
  <2> QED
    BY <1>0, <1>1, <1>3, <1>4, <2>1, <2>2 DEF Reaches, n
<1> QED
  BY <1>12, <1>13, <1>14 DEF Pending, n, t

\* A path does not come to a node twice.
LEMMA NoRepeat ==
  ASSUME NEW h, NEW r, NEW dep, NEW lev, NEW rng, NEW big, Tree(h, r, dep, lev, rng, big),
         NEW c, Complete(h, r, dep, c)
  PROVE  \A x, y \in 1 .. dep + 1 : x # y => c[x].node # c[y].node
<1>1. dep \in Nat /\ Levels(h, dep, lev, c, dep)
  BY CompleteFacts
<1>2. \A x \in 1 .. dep + 1 : lev[c[x].node] = dep + 1 - x
  BY <1>1 DEF Levels
<1> SUFFICES ASSUME NEW x \in 1 .. dep + 1, NEW y \in 1 .. dep + 1, x # y,
                    c[x].node = c[y].node
             PROVE  FALSE
  OBVIOUS
<1>3. dep + 1 - x = dep + 1 - y
  BY <1>2
<1> QED
  BY <1>1, <1>3

\* The node of stop l is split, and an entry for the new one goes up to stop l - 1.
LEMMA SplitStep ==
  ASSUME NEW h, NEW r, NEW dep, NEW lev0, NEW rng0, NEW c, NEW e,
         Tree(h, r, dep, lev0, rng0, NULL), Complete(h, r, dep, c),
         NEW l \in 2 .. dep + 1, numKeys(h[c[l].node]) = FANOUT,
         NEW t, NEW lev, NEW rng, Pending(h, r, dep, c, e, t, l, lev, rng)
  PROVE  \E lv, rg : Pending(h, r, dep, c, e, SplitOne(t), l - 1, lv, rg)
<1> DEFINE g == t.heap
           a == c[l].node
           p == c[l - 1].node
           j == c[l - 1].idx
           V == Filled(g, a, t.e)
           q == Fresh(g)
           W == SplitHeap(V, p, a, q)
           u == SplitOne(t)
           lv == SplitLev(lev, a, q)
           rg == SplitRng(V, rng, a, q)
<1>1. /\ dep \in Nat /\ c \in Seq(Stop) /\ Len(c) = dep + 1 /\ Hops(h, c, dep)
      /\ l - 1 \in 1 .. dep /\ l \in 1 .. dep + 1 /\ l - 1 \in 1 .. dep + 1 /\ l \in Nat
      /\ l - 1 + 1 = l
  <2>1. dep \in Nat /\ c \in Seq(Stop) /\ Len(c) = dep + 1 /\ Hops(h, c, dep)
    BY CompleteFacts
  <2> QED
    BY <2>1
<1>2. p \in Inner(h) /\ j \in Index(h[p]) /\ a = Child(h[p], j)
  BY <1>1 DEF Hops, Hop
<1>3. \A x \in 1 .. l - 1 : c[x].node # a /\ x \in 1 .. dep + 1 /\ x \in 1 .. l
  <2> SUFFICES ASSUME NEW x \in 1 .. l - 1
               PROVE  c[x].node # a /\ x \in 1 .. dep + 1 /\ x \in 1 .. l
    OBVIOUS
  <2>1. x \in 1 .. dep + 1 /\ x \in 1 .. l /\ x # l
    BY <1>1
  <2> QED
    BY <1>1, <2>1, NoRepeat
<1>4. /\ Reaches(h, c, t, l) /\ FitsAt(g[a], t.e, c[l].idx)
      /\ Whole(h, r, dep, lev, rng, a, V, e)
  BY DEF Pending
<1>5. /\ t.cursor = SubSeq(c, 1, l) /\ g \in [Node -> BtNode \cup {NULL}] /\ a \in Used(g)
      /\ \A x \in 1 .. l : g[c[x].node] = h[c[x].node]
      /\ FreeFor(g, l + 1)
  BY <1>4 DEF Reaches
<1>6. /\ Tree(V, r, dep, lev, rng, a) /\ RootOK(V, r) /\ e.key \in rng[a]
      /\ Records(V) = Records(h) \cup {e}
  BY <1>4 DEF Whole
<1> HIDE DEF g, a, p, j, V, q, W, u, lv, rg
<1>7. q \in Node /\ q \notin Used(g) /\ \A k : Used(k) = Used(g) \cup {q} => FreeFor(k, l)
  <2>1. /\ Fresh(g) \in Node /\ Fresh(g) \notin Used(g)
        /\ \A k, x : x \in Node /\ x \notin Used(g) /\ Used(k) = Used(g) \cup {x} => FreeFor(k, l)
    <3>1. l \in Nat /\ FreeFor(g, l + 1)
      BY <1>1, <1>5
    <3> QED
      BY <3>1, FreshIs
  <2> QED
    BY <2>1 DEF q
<1>8. /\ a \in Node /\ p \in Node /\ p # a /\ p \in Used(g) /\ g[a] \in BtNode
      /\ g[p] = h[p] /\ g[a] = h[a]
  <2>1. p # a /\ g[p] = h[p] /\ g[a] = h[a]
    <3>1. l - 1 \in 1 .. l - 1 /\ l - 1 \in 1 .. l /\ l \in 1 .. l
      BY <1>1
    <3> QED
      BY <1>3, <1>5, <3>1 DEF p, a
  <2>2. p \in Node /\ h[p] # NULL
    BY <1>2 DEF Inner, Used
  <2> QED
    BY <1>5, <2>1, <2>2 DEF Used
<1>v. Put(g[a], t.e) \in BtNode /\ numKeys(Put(g[a], t.e)) = FANOUT + 1
  <2>1. t.e \in Entry /\ NewKey(g[a], t.e.key)
    BY <1>4 DEF FitsAt
  <2>2. a \in Used(h)
    BY <1>8, NullAssumption DEF Used
  <2>3. Ascending(g[a])
    BY <1>8, <2>2 DEF Tree, Nodes, NodeOK
  <2>4. numKeys(g[a]) = FANOUT
    BY <1>8 DEF a
  <2> QED
    BY <1>8, <2>1, <2>3, <2>4, PutFacts
<1>9. V[a] = Put(g[a], t.e) /\ V[p] = h[p] /\ Used(V) = Used(g) /\ numKeys(V[a]) = FANOUT + 1
  <2>1. V[a] = Put(g[a], t.e) /\ \A m \in Node : m # a => V[m] = g[m]
    BY <1>5, <1>8 DEF V, Filled
  <2>2. V[a] # NULL
    BY <1>v, <2>1, NullAssumption
  <2> QED
    BY <1>5, <1>8, <1>v, <2>1, <2>2 DEF Used
<1>11. CanSplit(V, r, dep, lev, rng, p, a, j, q)
  <2>1. p \in Inner(V) /\ j \in Index(V[p]) /\ Child(V[p], j) = a
    BY <1>2, <1>8, <1>9 DEF Inner
  <2> QED
    BY <1>6, <1>7, <1>9, <2>1 DEF CanSplit
<1>12. /\ Overfull(V[a]) /\ a # r /\ a # q /\ p # q
       /\ UpEntry(V, a, q) \in Entry /\ UpEntry(V, a, q).key = Sep(V[a])
       /\ findChildIndex(V[p], Sep(V[a])) = j /\ NewKey(V[p], Sep(V[a])) /\ ~V[p].isLeaf
       /\ rng[a] = {k \in rng[p] : Within(V[p], j, k)}
       /\ V[p] \in BtNode /\ Ascending(V[p])
  BY <1>11, SplitFacts DEF NodeOK
<1>13. /\ u.heap = Halved(g, V, a, q)
       /\ u.e = UpEntry(V, a, q) /\ u.cursor = SubSeq(c, 1, l - 1)
  <2>1. Last(t.cursor) = c[l] /\ Front(t.cursor) = SubSeq(c, 1, l - 1)
    BY <1>1, <1>5, PrefixEnds
  <2> DEFINE s == splitnode(g, a, t.e, q)
  <2>2. /\ s.heap = Halved(g, V, a, q)
        /\ s.up = UpEntry(V, a, q)
    <3>1. Overfull(Put(g[a], t.e))
      BY <1>9, <1>12
    <3> QED
      BY <1>5, <1>7, <3>1, SplitnodeIs DEF V
  <2>3. u = [heap |-> s.heap, cursor |-> Front(t.cursor), e |-> s.up]
    <3>1. splitnode(t.heap, Last(t.cursor).node, t.e, Fresh(t.heap)) = s
      BY <2>1 DEF g, a, q
    <3> HIDE DEF s
    <3> QED
      BY <3>1 DEF u, SplitOne
  <2> HIDE DEF s
  <2> QED
    BY <2>1, <2>2, <2>3
<1>14. LeftHalf(V[a]) \in BtNode /\ RightHalf(V[a]) \in BtNode
  BY <1>12, HalfFacts
<1>15. /\ u.heap \in [Node -> BtNode \cup {NULL}] /\ u.heap[a] = LeftHalf(V[a])
       /\ u.heap[q] = RightHalf(V[a]) /\ \A m \in Node : m \notin {a, q} => u.heap[m] = g[m]
  BY <1>5, <1>7, <1>8, <1>12, <1>13, <1>14 DEF Halved
<1>16. Used(u.heap) = Used(g) \cup {q}
  BY <1>5, <1>7, <1>14, <1>15, NullAssumption DEF Used
<1>17. u.heap[p] = V[p] /\ p \in Used(u.heap)
  BY <1>8, <1>9, <1>12, <1>15, <1>16
<1>18. Filled(u.heap, p, u.e) = W
  <2> DEFINE F == Filled(u.heap, p, u.e)
             b == Put(V[p], UpEntry(V, a, q))
  <2>1. F = [u.heap EXCEPT ![p] = b]
    BY <1>13, <1>17 DEF Filled
  <2>2. b \in BtNode
    BY <1>12, PutFacts
  <2> HIDE DEF b
  <2>3. /\ F \in [Node -> BtNode \cup {NULL}] /\ F[p] = b
        /\ \A m \in Node : m # p => F[m] = u.heap[m]
    BY <1>8, <1>15, <2>1, <2>2
  <2>4. /\ W \in [Node -> BtNode \cup {NULL}]
        /\ W[a] = LeftHalf(V[a]) /\ W[q] = RightHalf(V[a]) /\ W[p] = b
        /\ \A m \in Node : m \notin {a, p, q} => W[m] = V[m]
    BY <1>11, SplitParts DEF W, b
  <2>5. \A m \in Node : m # a => V[m] = g[m]
    BY <1>5, <1>8 DEF V, Filled
  <2> HIDE DEF F
  <2>6. \A m \in Node : F[m] = W[m]
    BY <1>12, <1>15, <2>3, <2>4, <2>5
  <2>7. F = W
    BY <2>3, <2>4, <2>6
  <2> QED
    BY <2>7 DEF F
<1>19. Reaches(h, c, u, l - 1)
  <2>1. ASSUME NEW x \in 1 .. l - 1 PROVE u.heap[c[x].node] = h[c[x].node]
    <3>1. g[c[x].node] = h[c[x].node] /\ c[x].node # a /\ c[x].node \in Used(h)
      BY <1>3, <1>5, CompleteFacts
    <3>2. c[x].node \in Used(g)
      BY <3>1 DEF Used
    <3>3. c[x].node # q /\ c[x].node \in Node
      BY <1>7, <3>2 DEF Used
    <3> QED
      BY <1>15, <3>1, <3>3
  <2>2. FreeFor(u.heap, l - 1 + 1)
    BY <1>1, <1>7, <1>16
  <2> QED
    BY <1>13, <1>15, <1>17, <2>1, <2>2 DEF Reaches, p
<1>20. FitsAt(u.heap[p], u.e, j)
  BY <1>12, <1>13, <1>17 DEF FitsAt
<1>21. Whole(h, r, dep, lv, rg, p, W, e)
  <2>1. Tree(W, r, dep, lv, rg, p)
    BY <1>11, SplitTree DEF W, lv, rg
  <2>2. Records(W) = Records(h) \cup {e}
    BY <1>6, <1>11, SplitRecords DEF W
  <2>3. e.key \in rg[p]
    <3>1. rg[p] = rng[p]
      BY <1>8, <1>11, <1>12, SplitParts DEF rg
    <3> QED
      BY <1>6, <1>12, <3>1
  <2>4. RootOK(W, r)
    <3>1. r \in Used(V)
      BY <1>6 DEF Tree, Shape
    <3>2. /\ W[p] = Put(V[p], UpEntry(V, a, q))
          /\ \A m \in Node : m \notin {a, p, q} => W[m] = V[m]
      BY <1>11, SplitParts DEF W
    <3>3. CASE r = p
      <4>1. numKeys(W[p]) = numKeys(V[p]) + 1 /\ numKeys(V[p]) \in Nat
        BY <1>12, <3>2, PutFacts, NodeFacts
      <4> QED
        BY <3>3, <4>1 DEF RootOK
    <3>4. CASE r # p
      <4>1. r # q /\ r \in Node
        BY <1>7, <1>9, <3>1 DEF Used
      <4> QED
        BY <1>6, <1>12, <3>2, <3>4, <4>1 DEF RootOK
    <3> QED
      BY <3>3, <3>4
  <2> QED
    BY <2>1, <2>2, <2>3, <2>4 DEF Whole
<1>22. Pending(h, r, dep, c, e, u, l - 1, lv, rg)
  BY <1>18, <1>19, <1>20, <1>21 DEF Pending, p, j
<1> QED
  BY <1>22 DEF u

\* The recursion ends at the deepest node with room.
LEMMA LevelIs ==
  ASSUME NEW h, NEW r, NEW dep, NEW lev, NEW rng, NEW c, NEW e,
         CanPut(h, r, dep, lev, rng, c, e)
  PROVE  /\ Found(h, c, e) => Level(h, c, e) = dep + 1
         /\ ~Found(h, c, e) =>
              /\ Level(h, c, e) \in 0 .. dep + 1
              /\ Level(h, c, e) # 0 => numKeys(h[c[Level(h, c, e)].node]) < FANOUT
              /\ \A l \in Level(h, c, e) + 1 .. dep + 1 : numKeys(h[c[l].node]) = FANOUT
<1> DEFINE S == {l \in 1 .. Len(c) : numKeys(h[c[l].node]) < FANOUT}
           Z == {0} \cup S
           m == Max(Z)
<1>1. Tree(h, r, dep, lev, rng, NULL) /\ Complete(h, r, dep, c)
  BY DEF CanPut, SearchPath
<1>2. dep \in Nat /\ Len(c) = dep + 1 /\ \A l \in 1 .. dep + 1 : c[l].node \in Used(h)
  BY <1>1, CompleteFacts
<1>3. ASSUME NEW l \in 1 .. dep + 1
      PROVE  numKeys(h[c[l].node]) \in Nat /\ numKeys(h[c[l].node]) <= FANOUT
  <2> DEFINE n == c[l].node
  <2>1. n \in Used(h) /\ n # NULL /\ h[n] \in BtNode /\ SizeOK(h, r, n, NULL)
    BY <1>1, <1>2, UsedNodes DEF Tree, Sizes
  <2> QED
    BY <2>1, NodeFacts DEF SizeOK
<1>4. m \in Z /\ \A x \in Z : x <= m
  <2>1. Z \in SUBSET (0 .. dep + 1) /\ Z # {} /\ dep + 1 \in Nat
    BY <1>2
  <2> HIDE DEF Z
  <2> QED
    BY <2>1, MaxIs
<1> HIDE DEF m
<1>5. /\ m \in 0 .. dep + 1 /\ (m # 0 => numKeys(h[c[m].node]) < FANOUT)
      /\ \A l \in m + 1 .. dep + 1 : numKeys(h[c[l].node]) = FANOUT
  <2>1. m \in 0 .. dep + 1 /\ (m # 0 => numKeys(h[c[m].node]) < FANOUT)
    BY <1>2, <1>4
  <2>2. ASSUME NEW l \in m + 1 .. dep + 1 PROVE numKeys(h[c[l].node]) = FANOUT
    <3>1. l \notin Z /\ l \in 1 .. dep + 1
      BY <1>4, <2>1
    <3>2. ~(numKeys(h[c[l].node]) < FANOUT)
      BY <1>2, <3>1
    <3> QED
      BY <1>3, <3>1, <3>2
  <2> QED
    BY <2>1, <2>2
<1>6. ~Found(h, c, e) => Level(h, c, e) = m
  BY DEF Level, m
<1>7. Found(h, c, e) => Level(h, c, e) = dep + 1
  BY <1>2 DEF Level
<1> QED
  BY <1>5, <1>6, <1>7

\* Each split leaves one entry pending.
LEMMA PendingAt ==
  ASSUME NEW h, NEW r, NEW dep, NEW lev0, NEW rng0, NEW c, NEW e,
         CanPut(h, r, dep, lev0, rng0, c, e), ~Found(h, c, e),
         NEW state, SplitStates(h, c, e, state),
         NEW i \in 0 .. dep, i <= dep + 1 - Level(h, c, e)
  PROVE  \E lev, rng : Pending(h, r, dep, c, e, state[i], dep + 1 - i, lev, rng)
<1> DEFINE P(x) == \E lev, rng : Pending(h, r, dep, c, e, state[x], dep + 1 - x, lev, rng)
           T == {x \in Nat : x <= i /\ ~P(x)}
<1>1. /\ Tree(h, r, dep, lev0, rng0, NULL) /\ Complete(h, r, dep, c)
      /\ dep \in Nat /\ Level(h, c, e) \in 0 .. dep + 1
      /\ \A l \in Level(h, c, e) + 1 .. dep + 1 : numKeys(h[c[l].node]) = FANOUT
  <2>1. Tree(h, r, dep, lev0, rng0, NULL) /\ Complete(h, r, dep, c)
    BY DEF CanPut, SearchPath
  <2>2. dep \in Nat
    BY <2>1, CompleteFacts
  <2> QED
    BY <2>1, <2>2, LevelIs
<1> SUFFICES ASSUME T # {} PROVE FALSE
  OBVIOUS
<1>2. PICK x \in T : \A y \in T : x <= y
  BY LeastNat
<1>3. x # 0
  <2>1. P(0)
    <3>1. state[0] = [heap |-> h, cursor |-> c, e |-> e] /\ dep + 1 - 0 = dep + 1
      BY <1>1 DEF SplitStates
    <3>2. Pending(h, r, dep, c, e, [heap |-> h, cursor |-> c, e |-> e], dep + 1, lev0, rng0)
      BY PendingStart
    <3> QED
      BY <3>1, <3>2
  <2> QED
    BY <1>2, <2>1
<1> DEFINE y == x - 1
           l == dep + 1 - y
<1>4. /\ y \in Nat /\ y + 1 = x /\ y \notin T /\ y <= i /\ l \in 2 .. dep + 1
      /\ l \in Level(h, c, e) + 1 .. dep + 1 /\ l - 1 = dep + 1 - x
  BY <1>1, <1>2, <1>3
<1>5. PICK lev, rng : Pending(h, r, dep, c, e, state[y], l, lev, rng)
  BY <1>4
<1> HIDE DEF y, l
<1>6. numKeys(h[c[l].node]) = FANOUT
  BY <1>1, <1>4
<1>7. \E lv, rg : Pending(h, r, dep, c, e, SplitOne(state[y]), l - 1, lv, rg)
  BY <1>1, <1>4, <1>5, <1>6, SplitStep
<1>8. state[x] = SplitOne(state[y])
  BY <1>4 DEF SplitStates
<1>9. P(x)
  BY <1>4, <1>7, <1>8
<1> QED
  BY <1>2, <1>9

\* A search finds the key if it is there.
LEMMA FoundRecord ==
  ASSUME NEW h, NEW r, NEW dep, NEW lev, NEW rng, NEW c, NEW e,
         CanPut(h, r, dep, lev, rng, c, e)
  PROVE  Found(h, c, e) <=> \E x \in Records(h) : x.key = e.key
<1> DEFINE n == c[dep + 1].node
           nd == h[n]
           f == findRecordIndex(nd, e.key)
<1>1. /\ Tree(h, r, dep, lev, rng, NULL) /\ Complete(h, r, dep, c) /\ e.key \in Key
      /\ e.key \in rng[n]
  BY DEF CanPut, SearchPath
<1>2. n \in Used(h) /\ nd.isLeaf
  BY <1>1 DEF Complete
<1>3. \A m \in Used(h) : h[m] \in BtNode /\ NodeOK(h[m], lev[m], rng[m])
  BY <1>1, UsedNodes DEF Tree, Nodes
<1>4. \A x : x \in Records(h) <=> \E m \in Used(h) : RecordOf(h[m], x)
  BY <1>3, RecordsAre
<1>5. /\ Found(h, c, e) <=> f < numKeys(nd) /\ nd.entries[f + 1].key = e.key
      /\ ~Found(h, c, e) => NewKey(nd, e.key)
  BY FoundIs
<1>6. ASSUME Found(h, c, e) PROVE \E x \in Records(h) : x.key = e.key
  <2>1. f \in 0 .. numKeys(nd) /\ numKeys(nd) \in Nat
    BY <1>1, <1>2, <1>3, RecordIndex, NodeFacts DEF NodeOK
  <2>2. f + 1 \in 1 .. numKeys(nd)
    BY <1>5, <1>6, <2>1
  <2>3. nd.entries[f + 1] \in Records(h)
    BY <1>2, <1>4, <2>2 DEF RecordOf
  <2> QED
    BY <1>5, <1>6, <2>3
<1>7. ASSUME NEW x \in Records(h), x.key = e.key PROVE Found(h, c, e)
  <2>1. PICK m \in Used(h) : RecordOf(h[m], x)
    BY <1>4
  <2>2. h[m].isLeaf /\ \E i \in 1 .. numKeys(h[m]) : x = h[m].entries[i]
    BY <2>1 DEF RecordOf
  <2>3. e.key \in rng[m] /\ lev[m] = 0 /\ lev[n] = 0
    BY <1>2, <1>3, <1>7, <2>2 DEF NodeOK
  <2>4. m = n
    BY <1>1, <1>2, <2>3 DEF Tree, Apart
  <2>5. ~NewKey(nd, e.key)
    BY <1>7, <2>2, <2>4 DEF NewKey
  <2> QED
    BY <1>5, <2>5
<1> QED
  BY <1>6, <1>7

-----------------------------------------------------------------------------
(* What a put makes of the tree.                                           *)

PutDone(h, cnt, e, s, lev, rng) ==
  /\ Tree(s.heap, s.root, s.depth, lev, rng, NULL) /\ RootOK(s.heap, s.root)
  /\ SearchPath(s.heap, s.root, s.depth, rng, s.cursor, e.key)
  /\ Records(s.heap) = {x \in Records(h) : x.key # e.key} \cup {e}
  /\ s.count = IF \E x \in Records(h) : x.key = e.key THEN cnt ELSE cnt + 1

PutState(h, r, dep, cnt, c) ==
  [heap |-> h, root |-> r, depth |-> dep, count |-> cnt, cursor |-> c]

LEMMA Relax ==
  ASSUME NEW h, NEW r, NEW dep, NEW lev, NEW rng, NEW n, Tree(h, r, dep, lev, rng, n),
         numKeys(h[n]) <= FANOUT
  PROVE  Tree(h, r, dep, lev, rng, NULL)
<1>1. Sizes(h, r, n)
  BY DEF Tree
<1>2. Sizes(h, r, NULL)
  BY <1>1 DEF Sizes, SizeOK
<1> QED
  BY <1>2 DEF Tree

LEMMA NewRecords ==
  ASSUME NEW h, NEW r, NEW dep, NEW lev, NEW rng, NEW c, NEW e,
         CanPut(h, r, dep, lev, rng, c, e), ~Found(h, c, e)
  PROVE  /\ {x \in Records(h) : x.key # e.key} = Records(h)
         /\ ~\E x \in Records(h) : x.key = e.key
BY FoundRecord

\* V is the tree as the pending entry leaves it; the path above is as it was.
PathAbove(h, r, c, t, l, n, V) ==
  /\ n \in Used(V) /\ n \in Used(h) /\ V[n] = Put(h[n], t.e) /\ V[n] \in BtNode
  /\ numKeys(V[n]) = numKeys(h[n]) + 1 /\ V[n].isLeaf = h[n].isLeaf
  /\ findRecordIndex(h[n], t.e.key) = findChildIndex(h[n], t.e.key) + 1
  /\ t.heap[n] = h[n] /\ t.heap \in [Node -> BtNode \cup {NULL}]
  /\ Last(t.cursor) = c[l] /\ Front(t.cursor) = SubSeq(c, 1, l - 1)
  /\ t.cursor = SubSeq(c, 1, l) /\ t.cursor # <<>> /\ Hops(V, c, l - 1)
  /\ LeadsTo(V, r, SubSeq(c, 1, l - 1), n)

LEMMA PendingPath ==
  ASSUME NEW h, NEW r, NEW dep, NEW lev0, NEW rng0, NEW c, NEW e,
         Tree(h, r, dep, lev0, rng0, NULL), Complete(h, r, dep, c),
         NEW l \in 1 .. dep + 1, NEW t, NEW lev, NEW rng,
         Pending(h, r, dep, c, e, t, l, lev, rng)
  PROVE  PathAbove(h, r, c, t, l, c[l].node, Filled(t.heap, c[l].node, t.e))
<1> DEFINE n == c[l].node
           V == Filled(t.heap, n, t.e)
<1>1. /\ dep \in Nat /\ c \in Seq(Stop) /\ Len(c) = dep + 1 /\ Hops(h, c, dep) /\ c[1].node = r
      /\ n \in Used(h) /\ h[n] \in BtNode
  <2>1. /\ dep \in Nat /\ c \in Seq(Stop) /\ Len(c) = dep + 1 /\ Hops(h, c, dep) /\ c[1].node = r
    BY CompleteFacts
  <2>2. \A x \in 1 .. dep + 1 : c[x].node \in Used(h) /\ h[c[x].node] \in BtNode
    BY CompleteFacts
  <2> QED
    BY <2>1, <2>2
<1>2. /\ t.cursor = SubSeq(c, 1, l) /\ t.heap \in [Node -> BtNode \cup {NULL}]
      /\ n \in Used(t.heap) /\ \A x \in 1 .. l : t.heap[c[x].node] = h[c[x].node]
  BY DEF Pending, Reaches
<1>3. Last(t.cursor) = c[l] /\ Front(t.cursor) = SubSeq(c, 1, l - 1)
  BY <1>1, <1>2, PrefixEnds
<1>4. t.cursor # <<>>
  <2>1. l \in 0 .. Len(c) /\ l # 0
    BY <1>1
  <2>2. Len(t.cursor) = l
    BY <1>1, <1>2, <2>1, Prefix
  <2> QED
    BY <2>1, <2>2
<1>5. t.heap[n] = h[n]
  BY <1>1, <1>2
<1>6. t.e \in Entry /\ NewKey(h[n], t.e.key) /\ Ascending(h[n])
  <2>1. t.e \in Entry /\ NewKey(h[n], t.e.key)
    BY <1>5 DEF Pending, FitsAt
  <2>2. Ascending(h[n])
    BY <1>1 DEF Tree, Nodes, NodeOK
  <2> QED
    BY <2>1, <2>2
<1>7. n \in Node /\ V[n] = Put(h[n], t.e) /\ \A m \in Node : m # n => V[m] = t.heap[m]
  BY <1>2, <1>5 DEF Filled, Used
<1>8. /\ V[n] \in BtNode /\ numKeys(V[n]) = numKeys(h[n]) + 1 /\ V[n].isLeaf = h[n].isLeaf
      /\ findRecordIndex(h[n], t.e.key) = findChildIndex(h[n], t.e.key) + 1
  BY <1>1, <1>6, <1>7, PutFacts
<1>9. n \in Used(V)
  BY <1>7, <1>8, NullAssumption DEF Used
<1>10. Hops(V, c, l - 1)
  <2> SUFFICES ASSUME NEW x \in 1 .. l - 1 PROVE Hop(V, c, x)
    BY DEF Hops
  <2>1. x \in 1 .. dep /\ x \in 1 .. l /\ x \in 1 .. dep + 1 /\ x # l
    BY <1>1
  <2>2. Hop(h, c, x)
    BY <1>1, <2>1 DEF Hops
  <2>3. c[x].node # n
    BY <2>1, NoRepeat
  <2>4. c[x].node \in Node
    BY <2>2 DEF Hop, Inner, Used
  <2>5. V[c[x].node] = h[c[x].node]
    BY <1>2, <1>7, <2>1, <2>3, <2>4
  <2> QED
    BY <2>2, <2>5 DEF Hop, Inner, Used
<1>11. LeadsTo(V, r, SubSeq(c, 1, l - 1), n)
  <2> HIDE DEF V
  <2> DEFINE k == l - 1
  <2>1. k \in Nat /\ k < Len(c) /\ l \in 1 .. k + 1
    BY <1>1
  <2>2. Tree(V, r, dep, lev, rng, n)
    BY DEF Pending, Whole, V
  <2>3. Hops(V, c, k)
    BY <1>10
  <2> HIDE DEF k
  <2> QED
    BY <1>1, <2>1, <2>2, <2>3, PrefixLeads
<1> QED
  BY <1>1, <1>2, <1>3, <1>4, <1>5, <1>7, <1>8, <1>9, <1>10, <1>11 DEF PathAbove

\* A path stays one when its leaf changes.
LEMMA LeafPath ==
  ASSUME NEW h, NEW r, NEW dep, NEW lev, NEW rng, NEW big, Tree(h, r, dep, lev, rng, big),
         NEW c, Complete(h, r, dep, c), NEW g, \A m \in Node : m # c[dep + 1].node => g[m] = h[m],
         g[c[dep + 1].node] \in BtNode, g[c[dep + 1].node].isLeaf,
         c[dep + 1].idx \in 0 .. numKeys(g[c[dep + 1].node])
  PROVE  Complete(g, r, dep, c)
<1> DEFINE n == c[dep + 1].node
<1>1. /\ c \in Seq(Stop) /\ Len(c) = dep + 1 /\ c[1].node = r
      /\ \A l \in 1 .. dep : Hop(h, c, l)
      /\ n \in Used(h) /\ h[n].isLeaf
  BY DEF Complete
<1>2. ASSUME NEW l \in 1 .. dep PROVE Hop(g, c, l)
  <2>1. Hop(h, c, l)
    BY <1>1
  <2>2. c[l].node \in Inner(h)
    BY <2>1 DEF Hop
  <2>3. c[l].node # n /\ c[l].node \in Node
    BY <1>1, <2>2 DEF Inner, Used
  <2>4. g[c[l].node] = h[c[l].node]
    BY <2>3
  <2>5. c[l].node \in Inner(g)
    BY <2>2, <2>3, <2>4 DEF Inner, Used
  <2> QED
    BY <2>1, <2>4, <2>5 DEF Hop
<1>3. n \in Used(g)
  BY <1>1, NullAssumption DEF Used
<1> QED
  BY <1>1, <1>2, <1>3 DEF Complete

\* The record of a key that is there is replaced.
LEMMA PutFound ==
  ASSUME NEW h, NEW r, NEW dep, NEW lev, NEW rng, NEW c, NEW e,
         CanPut(h, r, dep, lev, rng, c, e), Found(h, c, e), NEW cnt
  PROVE  PutDone(h, cnt, e, putEntry(PutState(h, r, dep, cnt, c), e, e.key), lev, rng)
<1> DEFINE n == c[dep + 1].node
           nd == h[n]
           f == findRecordIndex(nd, e.key)
           x == [nd EXCEPT !.entries = [nd.entries EXCEPT ![f + 1] = e]]
           g == [h EXCEPT ![n] = x]
           s == putEntry(PutState(h, r, dep, cnt, c), e, e.key)
<1>1. /\ Tree(h, r, dep, lev, rng, NULL) /\ RootOK(h, r) /\ Complete(h, r, dep, c)
      /\ e \in [key : Key, ptr : Record] /\ e \in Entry /\ e.key \in Key /\ e.ptr \in Record
      /\ e.key \in rng[n] /\ c[dep + 1].idx = f
  <2>1. /\ Tree(h, r, dep, lev, rng, NULL) /\ RootOK(h, r) /\ Complete(h, r, dep, c)
        /\ e \in [key : Key, ptr : Record] /\ e.key \in rng[n] /\ c[dep + 1].idx = f
    BY DEF CanPut, SearchPath
  <2>2. e \in Entry /\ e.key \in Key /\ e.ptr \in Record
    BY <2>1 DEF Entry
  <2> QED
    BY <2>1, <2>2
<1>2. /\ dep \in Nat /\ c \in Seq(Stop) /\ Len(c) = dep + 1 /\ n \in Used(h) /\ nd.isLeaf
      /\ Last(c) = c[dep + 1] /\ c # <<>>
  <2>1. /\ dep \in Nat /\ c \in Seq(Stop) /\ Len(c) = dep + 1
        /\ Last(c) = c[dep + 1] /\ c # <<>>
    BY <1>1, CompleteFacts
  <2> QED
    BY <1>1, <2>1 DEF Complete
<1>3. \A m \in Used(h) : /\ h[m] \in BtNode /\ NodeOK(h[m], lev[m], rng[m])
                         /\ SizeOK(h, r, m, NULL) /\ m \in Node /\ Ascending(h[m])
  BY <1>1, UsedNodes DEF Tree, Nodes, NodeOK, Sizes
<1>4. h \in [Node -> BtNode \cup {NULL}] /\ r \in Node /\ r \in Used(h)
  BY <1>1, UsedNodes DEF Tree, Shape
<1>5. f < numKeys(nd) /\ nd.entries[f + 1].key = e.key
  BY FoundIs
<1>6. /\ f \in 0 .. numKeys(nd) /\ numKeys(nd) \in Nat /\ f \in Nat
      /\ \A i \in 1 .. numKeys(nd) : nd.entries[i].key < e.key <=> i <= f
  <2>1. nd \in BtNode /\ Ascending(nd)
    BY <1>2, <1>3
  <2> HIDE DEF nd
  <2>2. f \in 0 .. numKeys(nd) /\ numKeys(nd) \in Nat
    BY <1>1, <2>1, RecordIndex, NodeFacts
  <2>3. \A i \in 1 .. numKeys(nd) : nd.entries[i].key < e.key <=> i <= f
    BY <1>1, <2>1, RecordIndex
  <2> QED
    BY <2>2, <2>3
<1>7. f + 1 \in 1 .. numKeys(nd)
  <2> HIDE DEF nd, f
  <2> QED
    BY <1>5, <1>6
<1>8. nd \in BtNode /\ nd.entries \in Seq(Entry) /\ numKeys(nd) = Len(nd.entries)
  BY <1>2, <1>3, NodeFacts
<1> HIDE DEF f, nd, n
<1>9. /\ x \in BtNode /\ x.isLeaf /\ x.First = nd.First /\ x.Last = nd.Last
      /\ numKeys(x) = numKeys(nd)
      /\ \A i \in 1 .. numKeys(nd) : x.entries[i] = IF i = f + 1 THEN e ELSE nd.entries[i]
  <2>1. [nd.entries EXCEPT ![f + 1] = e] \in Seq(Entry)
    BY <1>1, <1>7, <1>8
  <2>2. Len([nd.entries EXCEPT ![f + 1] = e]) = Len(nd.entries)
    BY <1>8
  <2>3. x \in BtNode
    BY <1>8, <2>1 DEF BtNode
  <2>4. /\ x.isLeaf = nd.isLeaf /\ x.First = nd.First /\ x.Last = nd.Last
        /\ x.entries = [nd.entries EXCEPT ![f + 1] = e]
    BY <1>8 DEF BtNode
  <2>5. numKeys(x) = numKeys(nd)
    BY <1>8, <2>2, <2>4 DEF numKeys
  <2>6. \A i \in 1 .. numKeys(nd) : x.entries[i] = IF i = f + 1 THEN e ELSE nd.entries[i]
    BY <1>8, <2>4
  <2> QED
    BY <1>2, <2>3, <2>4, <2>5, <2>6
<1>10. \A i \in 1 .. numKeys(nd) : x.entries[i].key = nd.entries[i].key
  BY <1>5, <1>9
<1> HIDE DEF x
<1>11. NodeOK(x, lev[n], rng[n])
  <2>1. NodeOK(nd, lev[n], rng[n])
    BY <1>2, <1>3 DEF nd
  <2>2. Ascending(x)
    BY <1>9, <1>10, <2>1 DEF NodeOK, Ascending
  <2>3. \A i \in 1 .. numKeys(x) : x.entries[i].key \in rng[n] /\ x.entries[i].ptr \in Record
    BY <1>1, <1>2, <1>9, <1>10, <2>1 DEF NodeOK
  <2> QED
    BY <1>2, <1>9, <2>1, <2>2, <2>3 DEF NodeOK
<1>12. Tree(g, r, dep, lev, rng, NULL)
  <2>1. SizeOK(h, r, n, NULL) /\ NULL # n
    BY <1>2, <1>3, NullAssumption
  <2>2. numKeys(nd) <= FANOUT /\ (n # r => numKeys(nd) >= FANOUT \div 2)
    BY <2>1 DEF SizeOK, nd
  <2> QED
    BY <1>1, <1>2, <1>9, <1>11, <2>2, LeafChange DEF nd
<1>13. g[n] = x /\ (\A m \in Node : m # n => g[m] = h[m]) /\ Used(g) = Used(h)
  <2>1. g[n] = x /\ \A m \in Node : m # n => g[m] = h[m]
    BY <1>2, <1>3, <1>4
  <2>2. x # NULL /\ h[n] # NULL
    BY <1>2, <1>9, NullAssumption DEF Used
  <2> QED
    BY <2>1, <2>2 DEF Used
<1>14. s.heap = g /\ s.root = r /\ s.depth = dep /\ s.count = cnt /\ s.cursor = c
  <2> DEFINE t == [heap |-> h, cursor |-> c, e |-> e]
             S == PutState(h, r, dep, cnt, c)
             u == [S EXCEPT !.heap = h, !.cursor = c]
  <2>1. Splits(h, c, e) = t
    <3>1. PICK state : SplitStates(h, c, e, state)
      BY SplitsStep
    <3>2. Level(h, c, e) = dep + 1
      BY LevelIs
    <3>3. Len(c) - Level(h, c, e) = 0
      BY <1>2, <3>2
    <3> QED
      BY <3>1, <3>3 DEF SplitStates
  <2>2. u = S /\ S.heap = h /\ S.root = r /\ S.depth = dep /\ S.count = cnt /\ S.cursor = c
    <3>1. S.heap = h /\ S.root = r /\ S.depth = dep /\ S.count = cnt /\ S.cursor = c
      BY DEF PutState
    <3>2. [S EXCEPT !.heap = h] = S
      BY DEF PutState
    <3>3. [S EXCEPT !.cursor = c] = S
      BY DEF PutState
    <3> QED
      BY <3>1, <3>2, <3>3
  <2>3. t.heap = h /\ t.cursor = c /\ t.e = e
    OBVIOUS
  <2>4. Found(t.heap, t.cursor, t.e) /\ t.cursor # <<>>
    BY <1>2
  <2>5. Last(t.cursor).node = n /\ Last(t.cursor).idx = f
    BY <1>1, <1>2, <2>3 DEF n, nd, f
  <2> HIDE DEF t, u, S
  <2>6. putEntry(S, e, e.key) = [S EXCEPT !.heap[n].entries[f + 1].ptr = e.ptr]
    BY <2>1, <2>2, <2>3, <2>4, <2>5 DEF putEntry, u
  <2>7. s = [S EXCEPT !.heap[n].entries[f + 1].ptr = e.ptr]
    BY <2>6 DEF S
  <2>8. S \in [heap : {h}, root : {r}, depth : {dep}, count : {cnt}, cursor : {c}]
    BY DEF S, PutState
  <2>9. /\ s.root = r /\ s.depth = dep /\ s.count = cnt /\ s.cursor = c
        /\ s.heap = [h EXCEPT ![n].entries[f + 1].ptr = e.ptr]
    BY <2>2, <2>7, <2>8
  <2>10. [nd.entries[f + 1] EXCEPT !.ptr = e.ptr] = e
    <3>1. nd.entries[f + 1] \in [key : Key, ptr : Record \cup Node]
      <4>1. nd.entries[f + 1] \in Entry
        BY <1>7, <1>8
      <4> QED
        BY <4>1 DEF Entry
    <3> QED
      BY <1>1, <1>5, <3>1
  <2>11. [nd.entries EXCEPT ![f + 1].ptr = e.ptr] = [nd.entries EXCEPT ![f + 1] = e]
    BY <1>7, <1>8, <2>10
  <2>12. [nd EXCEPT !.entries[f + 1].ptr = e.ptr] = x
    BY <1>8, <2>11 DEF x, BtNode
  <2>13. [h EXCEPT ![n].entries[f + 1].ptr = e.ptr] = [h EXCEPT ![n] = x]
    BY <1>2, <1>3, <1>4, <2>12 DEF nd
  <2> QED
    BY <2>9, <2>13
<1> HIDE DEF s, g
<1>15. RootOK(g, r)
  <2>1. CASE r = n
    BY <1>9, <1>13, <2>1 DEF RootOK
  <2>2. CASE r # n
    BY <1>1, <1>4, <1>13, <2>2 DEF RootOK
  <2> QED
    BY <2>1, <2>2
<1>16. SearchPath(g, r, dep, rng, c, e.key)
  <2>1. Complete(g, r, dep, c)
    <3>1. /\ \A m \in Node : m # c[dep + 1].node => g[m] = h[m]
          /\ g[c[dep + 1].node] \in BtNode /\ g[c[dep + 1].node].isLeaf
          /\ c[dep + 1].idx \in 0 .. numKeys(g[c[dep + 1].node])
      BY <1>1, <1>6, <1>9, <1>13 DEF n
    <3> QED
      BY <1>1, <3>1, LeafPath
  <2>2. findRecordIndex(x, e.key) = findRecordIndex(nd, e.key)
    BY <1>9, <1>10 DEF findRecordIndex
  <2>3. c[dep + 1].idx = findRecordIndex(g[n], e.key)
    BY <1>1, <1>13, <2>2 DEF f
  <2> QED
    BY <1>1, <2>1, <2>3 DEF SearchPath, n
<1>17. Records(g) = {y \in Records(h) : y.key # e.key} \cup {e}
  <2>1. \A y : y \in Records(h) <=> \E m \in Used(h) : RecordOf(h[m], y)
    BY <1>3, RecordsAre
  <2>2. \A m \in Used(g) : g[m] \in BtNode
    BY <1>3, <1>9, <1>13
  <2>3. \A y : y \in Records(g) <=> \E m \in Used(h) : RecordOf(g[m], y)
    BY <1>13, <2>2, RecordsAre
  <2>4. ASSUME NEW m \in Used(h), NEW y, RecordOf(h[m], y), y.key = e.key PROVE m = n
    <3>1. e.key \in rng[m] /\ lev[m] = 0 /\ lev[n] = 0
      BY <1>2, <1>3, <2>4 DEF RecordOf, NodeOK, nd
    <3> QED
      BY <1>1, <1>2, <3>1 DEF Tree, Apart
  <2>5. \A y : RecordOf(x, y) <=> (RecordOf(nd, y) /\ y.key # e.key) \/ y = e
    <3>1. \A i \in 1 .. numKeys(nd) : nd.entries[i].key = e.key => i = f + 1
      <4> SUFFICES ASSUME NEW i \in 1 .. numKeys(nd), nd.entries[i].key = e.key, i # f + 1
                   PROVE  FALSE
        OBVIOUS
      <4>1. Ascending(nd)
        BY <1>2, <1>3 DEF nd
      <4>2. nd.entries[i].key < nd.entries[f + 1].key \/ nd.entries[f + 1].key < nd.entries[i].key
        BY <1>6, <1>7, <4>1 DEF Ascending
      <4>3. e.key \in Nat
        BY <1>1
      <4> QED
        BY <1>5, <4>2, <4>3
    <3>2. ASSUME NEW y, RecordOf(x, y) PROVE (RecordOf(nd, y) /\ y.key # e.key) \/ y = e
      <4>1. PICK i \in 1 .. numKeys(nd) : y = x.entries[i]
        BY <1>9, <3>2 DEF RecordOf
      <4>2. CASE i = f + 1
        BY <1>9, <4>1, <4>2
      <4>3. CASE i # f + 1
        <5>1. y = nd.entries[i]
          BY <1>9, <4>1, <4>3
        <5>2. RecordOf(nd, y)
          BY <1>2, <5>1 DEF RecordOf
        <5> QED
          BY <3>1, <4>3, <5>1, <5>2
      <4> QED
        BY <4>2, <4>3
    <3>3. RecordOf(x, e)
      BY <1>7, <1>9 DEF RecordOf
    <3>4. ASSUME NEW y, RecordOf(nd, y), y.key # e.key PROVE RecordOf(x, y)
      <4>1. PICK i \in 1 .. numKeys(nd) : y = nd.entries[i]
        BY <3>4 DEF RecordOf
      <4>2. i # f + 1
        BY <1>5, <3>4, <4>1
      <4>3. y = x.entries[i]
        BY <1>9, <4>1, <4>2
      <4> QED
        BY <1>9, <4>3 DEF RecordOf
    <3> QED
      BY <3>2, <3>3, <3>4
  <2>6. ASSUME NEW y PROVE y \in Records(g) <=> (y \in Records(h) /\ y.key # e.key) \/ y = e
    <3>1. ASSUME y \in Records(g) PROVE (y \in Records(h) /\ y.key # e.key) \/ y = e
      <4>1. PICK m \in Used(h) : RecordOf(g[m], y)
        BY <2>3, <3>1
      <4>2. CASE m = n
        <5>1. (RecordOf(nd, y) /\ y.key # e.key) \/ y = e
          BY <1>13, <2>5, <4>1, <4>2
        <5> QED
          BY <1>2, <2>1, <5>1 DEF nd
      <4>3. CASE m # n
        <5>1. RecordOf(h[m], y)
          BY <1>3, <1>13, <4>1, <4>3
        <5> QED
          BY <2>1, <2>4, <4>3, <5>1
      <4> QED
        BY <4>2, <4>3
    <3>2. e \in Records(g)
      BY <1>2, <1>13, <2>3, <2>5
    <3>3. ASSUME y \in Records(h), y.key # e.key PROVE y \in Records(g)
      <4>1. PICK m \in Used(h) : RecordOf(h[m], y)
        BY <2>1, <3>3
      <4>2. CASE m = n
        <5>1. RecordOf(x, y)
          BY <2>5, <3>3, <4>1, <4>2 DEF nd
        <5> QED
          BY <1>2, <1>13, <2>3, <5>1
      <4>3. CASE m # n
        <5>1. RecordOf(g[m], y)
          BY <1>3, <1>13, <4>1, <4>3
        <5> QED
          BY <2>3, <5>1
      <4> QED
        BY <4>2, <4>3
    <3> QED
      BY <3>1, <3>2, <3>3
  <2> QED
    BY <2>6
<1>18. s.count = IF \E y \in Records(h) : y.key = e.key THEN cnt ELSE cnt + 1
  BY <1>14, FoundRecord
<1> QED
  BY <1>12, <1>14, <1>15, <1>16, <1>17, <1>18 DEF PutDone, s

\* The place of a new entry is that of its key still.
LEMMA SamePlace ==
  ASSUME NEW nd \in BtNode, Ascending(nd), NEW e \in Entry, NewKey(nd, e.key)
  PROVE  findRecordIndex(Put(nd, e), e.key) = findRecordIndex(nd, e.key)
<1> DEFINE f == findRecordIndex(nd, e.key)
           v == Put(nd, e)
           g == findRecordIndex(v, e.key)
           m == numKeys(nd)
<1>1. /\ v \in BtNode /\ numKeys(v) = m + 1 /\ Ascending(v)
      /\ \A j \in 1 .. m + 1 : v.entries[j] = IF j <= f THEN nd.entries[j]
                                ELSE IF j = f + 1 THEN e ELSE nd.entries[j - 1]
  BY PutFacts
<1>2. e.key \in Key /\ e.key \in Nat
  BY DEF Entry
<1>3. f \in 0 .. m /\ \A i \in 1 .. m : nd.entries[i].key < e.key <=> i <= f
  BY <1>2, RecordIndex
<1>4. g \in 0 .. m + 1 /\ \A i \in 1 .. m + 1 : v.entries[i].key < e.key <=> i <= g
  <2> HIDE DEF v, m
  <2> QED
    BY <1>1, <1>2, RecordIndex
<1>5. m \in Nat
  BY NodeFacts
<1> HIDE DEF f, v, g, m
<1>6. f + 1 \in 1 .. m + 1 /\ ~(f + 1 <= f)
  BY <1>3, <1>5
<1>7. ~(f + 1 <= g)
  <2>1. v.entries[f + 1] = e
    BY <1>1, <1>6
  <2> QED
    BY <1>2, <1>4, <1>6, <2>1
<1>8. f # 0 => f <= g
  <2> SUFFICES ASSUME f # 0 PROVE f <= g
    OBVIOUS
  <2>1. f \in 1 .. m /\ f \in 1 .. m + 1 /\ f <= f
    BY <1>3, <1>5
  <2>2. v.entries[f] = nd.entries[f]
    BY <1>1, <2>1
  <2> QED
    BY <1>3, <1>4, <2>1, <2>2
<1>9. f = g
  BY <1>3, <1>4, <1>5, <1>7, <1>8
<1> QED
  BY <1>9 DEF f, g, v

\* The node at which the recursion ends takes an entry.
LEMMA PutRoom ==
  ASSUME NEW h, NEW r, NEW dep, NEW lev0, NEW rng0, NEW c, NEW e,
         CanPut(h, r, dep, lev0, rng0, c, e), ~Found(h, c, e), Level(h, c, e) # 0, NEW cnt
  PROVE  \E lev, rng : PutDone(h, cnt, e, putEntry(PutState(h, r, dep, cnt, c), e, e.key), lev, rng)
<1> DEFINE L == Level(h, c, e)
           n == c[L].node
           k == e.key
           s == putEntry(PutState(h, r, dep, cnt, c), e, e.key)
<1>1. /\ Tree(h, r, dep, lev0, rng0, NULL) /\ Complete(h, r, dep, c) /\ e.key \in Key
      /\ c[dep + 1].idx = findRecordIndex(h[c[dep + 1].node], e.key)
  BY DEF CanPut, SearchPath
<1>2. /\ dep \in Nat /\ c \in Seq(Stop) /\ Len(c) = dep + 1
  BY <1>1, CompleteFacts
<1>3. L \in 1 .. dep + 1 /\ numKeys(h[n]) < FANOUT
  BY <1>2, LevelIs
<1>4. PICK state : SplitStates(h, c, e, state)
  BY SplitsStep
<1> DEFINE N == dep + 1 - L
           t == state[N]
<1>5. N \in 0 .. dep /\ N <= dep + 1 - L /\ dep + 1 - N = L
  BY <1>2, <1>3
<1>6. Splits(h, c, e) = t
  <2>1. Len(c) - L = N
    BY <1>2, <1>3
  <2> QED
    BY <1>4, <2>1 DEF SplitStates
<1> HIDE DEF t
<1>7. PICK lev, rng : Pending(h, r, dep, c, e, t, L, lev, rng)
  <2>1. \E lev, rng : Pending(h, r, dep, c, e, state[N], dep + 1 - N, lev, rng)
    <3> HIDE DEF N
    <3> QED
      BY <1>4, <1>5, PendingAt
  <2> QED
    BY <1>5, <2>1 DEF t
<1> DEFINE V == Filled(t.heap, n, t.e)
           f == findRecordIndex(h[n], t.e.key)
           S == PutState(h, r, dep, cnt, c)
           u == [S EXCEPT !.heap = t.heap, !.cursor = t.cursor]
<1> HIDE DEF L
<1>8. /\ n \in Used(V) /\ n \in Used(h) /\ V[n] = Put(h[n], t.e) /\ V[n] \in BtNode
      /\ numKeys(V[n]) = numKeys(h[n]) + 1 /\ V[n].isLeaf = h[n].isLeaf
      /\ f = findChildIndex(h[n], t.e.key) + 1
      /\ t.heap[n] = h[n] /\ t.heap \in [Node -> BtNode \cup {NULL}]
      /\ Last(t.cursor) = c[L] /\ Front(t.cursor) = SubSeq(c, 1, L - 1)
      /\ t.cursor # <<>> /\ LeadsTo(V, r, SubSeq(c, 1, L - 1), n)
  <2>1. PathAbove(h, r, c, t, L, n, V)
    BY <1>1, <1>3, <1>7, PendingPath
  <2> QED
    BY <2>1 DEF PathAbove
<1>9. /\ t.e \in Entry /\ NewKey(h[n], t.e.key)
      /\ c[L].idx = IF h[n].isLeaf THEN f ELSE findChildIndex(h[n], t.e.key)
  BY <1>7, <1>8 DEF Pending, FitsAt
<1>10. /\ Tree(V, r, dep, lev, rng, n) /\ RootOK(V, r)
       /\ e.key \in rng[n] /\ Records(V) = Records(h) \cup {e}
  BY <1>7 DEF Pending, Whole
<1>11. h[n] \in BtNode /\ Ascending(h[n]) /\ numKeys(h[n]) \in Nat
  BY <1>1, <1>8, UsedNodes, NodeFacts DEF Tree, Nodes, NodeOK
<1>12. f \in 0 .. numKeys(h[n])
  BY <1>9, <1>11, RecordIndex DEF Entry
<1>13. ~Found(t.heap, t.cursor, t.e)
  <2> SUFFICES ASSUME Found(t.heap, t.cursor, t.e) PROVE FALSE
    OBVIOUS
  <2>1. /\ h[n].isLeaf /\ c[L].idx < numKeys(h[n])
        /\ KeyAt(h[n], c[L].idx) = t.e.key
    BY <1>8 DEF Found, currNode, entryIndex
  <2>2. f < numKeys(h[n]) /\ h[n].entries[f + 1].key = t.e.key
    BY <1>9, <2>1 DEF KeyAt
  <2> HIDE DEF f
  <2>3. f + 1 \in 1 .. numKeys(h[n])
    BY <1>11, <1>12, <2>2
  <2> QED
    BY <1>9, <2>2, <2>3 DEF NewKey
<1>14. V = [t.heap EXCEPT ![n].entries = InsertAt(@, f + 1, t.e)]
  BY <1>8 DEF Filled, Put
<1>15. /\ u.heap = t.heap /\ u.root = r /\ u.depth = dep /\ u.count = cnt
       /\ u.cursor = t.cursor
       /\ u \in [heap : {t.heap}, root : {r}, depth : {dep}, count : {cnt}, cursor : {t.cursor}]
  BY DEF PutState
<1>16. /\ S.heap = h /\ S.cursor = c
  BY DEF PutState
<1>17. (IF t.heap[n].isLeaf THEN c[L].idx ELSE c[L].idx + 1) = f
  BY <1>8, <1>9
<1> HIDE DEF S, V, f
<1>18. s = Inserted(u, c[L], f, t.e, e.key)
  <2> HIDE DEF u, n
  <2>1. putEntry(S, e, e.key) = Inserted(u, c[L], f, t.e, e.key)
    BY <1>6, <1>8, <1>13, <1>16, <1>17 DEF putEntry, u, n
  <2> QED
    BY <2>1 DEF S
<1>19. /\ s.heap = V /\ s.root = r /\ s.depth = dep /\ s.count = cnt + 1
       /\ s.cursor = IF V[n].isLeaf THEN t.cursor ELSE moveToKey(V, n, k, SubSeq(c, 1, L - 1))
  <2> HIDE DEF u, s
  <2>1. [u.heap EXCEPT ![c[L].node].entries = InsertAt(@, f + 1, t.e)] = V
    BY <1>14, <1>15
  <2>2. s = [u EXCEPT !.heap = V, !.count = u.count + 1,
                      !.cursor = IF V[n].isLeaf THEN u.cursor
                                 ELSE moveToKey(V, n, k, Front(u.cursor))]
    BY <1>18, <2>1 DEF Inserted
  <2> QED
    BY <1>8, <1>15, <2>2
<1> HIDE DEF s, u
<1>20. Tree(V, r, dep, lev, rng, NULL)
  <2>1. numKeys(V[n]) <= FANOUT
    BY <1>3, <1>8, <1>11
  <2> QED
    BY <1>10, <2>1, Relax
<1>21. SearchPath(V, r, dep, rng, s.cursor, k)
  <2>1. CASE ~h[n].isLeaf
    <3>1. SearchPath(V, r, dep, rng, moveToKey(V, n, k, SubSeq(c, 1, L - 1)), k)
      BY <1>1, <1>8, <1>10, MoveToKeyIs
    <3> QED
      BY <1>8, <1>19, <2>1, <3>1
  <2>2. CASE h[n].isLeaf
    <3>1. L = dep + 1
      <4>1. \A l \in 1 .. dep + 1 : h[c[l].node].isLeaf <=> l = dep + 1
        BY <1>1, CompleteFacts
      <4> QED
        BY <1>3, <2>2, <4>1
    <3>2. N = 0
      BY <1>2, <3>1
    <3>3. t.heap = h /\ t.cursor = c /\ t.e = e
      BY <1>4, <3>2 DEF SplitStates, t
    <3>4. \A m \in Node : m # c[dep + 1].node => V[m] = h[m]
      BY <1>8, <3>1, <3>3 DEF V, Filled
    <3>5. /\ V[c[dep + 1].node] \in BtNode /\ V[c[dep + 1].node].isLeaf
          /\ c[dep + 1].idx \in 0 .. numKeys(V[c[dep + 1].node])
      <4>1. V[n] \in BtNode /\ V[n].isLeaf /\ c[L].idx = f
        BY <1>8, <1>9, <2>2
      <4>2. f \in 0 .. numKeys(V[n])
        BY <1>8, <1>11, <1>12
      <4> QED
        BY <3>1, <4>1, <4>2
    <3>6. Complete(V, r, dep, c)
      BY <1>1, <3>4, <3>5, LeafPath
    <3>7. findRecordIndex(V[n], k) = f
      BY <1>8, <1>9, <1>11, <3>3, SamePlace DEF f
    <3>8. s.cursor = c
      BY <1>8, <1>19, <2>2, <3>3
    <3> QED
      BY <1>9, <1>10, <2>2, <3>1, <3>6, <3>7, <3>8 DEF SearchPath
  <2> QED
    BY <2>1, <2>2
<1>22. /\ {x \in Records(h) : x.key # e.key} = Records(h)
       /\ ~\E x \in Records(h) : x.key = e.key
  BY NewRecords
<1>23. PutDone(h, cnt, e, s, lev, rng)
  BY <1>10, <1>19, <1>20, <1>21, <1>22 DEF PutDone
<1> QED
  BY <1>23 DEF s

\* A new root at z over the old one at r, the right half of which goes to q.
Grown(V, z, r, q) == SplitHeap([V EXCEPT ![z] = EmptyRoot(r)], z, r, q)

GrownOK(h, z, dep, lev, rng) ==
  /\ Tree(h, z, dep + 1, lev, rng, NULL) /\ RootOK(h, z)

LEMMA GrownTree ==
  ASSUME NEW V, NEW r, NEW dep, NEW lev, NEW rng, Tree(V, r, dep, lev, rng, r),
         numKeys(V[r]) = FANOUT + 1, NEW z \in Node, z \notin Used(V),
         NEW q \in Node, q \notin Used(V), z # q
  PROVE  /\ \E lv, rg : GrownOK(Grown(V, z, r, q), z, dep, lv, rg)
         /\ Overfull(V[r]) /\ z # r /\ q # r
         /\ Records(Grown(V, z, r, q)) = Records(V)
         /\ Grown(V, z, r, q)[z] = Put(EmptyRoot(r), UpEntry(V, r, q))
         /\ Grown(V, z, r, q)[r] = LeftHalf(V[r]) /\ Grown(V, z, r, q)[q] = RightHalf(V[r])
         /\ \A m \in Node : m \notin {z, r, q} => Grown(V, z, r, q)[m] = V[m]
         /\ UpEntry(V, r, q) \in Entry
<1> DEFINE G == [V EXCEPT ![z] = EmptyRoot(r)]
           lv == [lev EXCEPT ![z] = dep + 1]
           rg == [rng EXCEPT ![z] = Key]
           H == SplitHeap(G, z, r, q)
           x == EmptyRoot(r)
           up == UpEntry(V, r, q)
<1>1. /\ V \in [Node -> BtNode \cup {NULL}] /\ dep \in Nat /\ r \in Used(V) /\ r \in Node
      /\ \A m \in Used(V) : V[m] \in BtNode
  BY UsedNodes DEF Tree, Shape
<1>2. Tree(G, z, dep + 1, lv, rg, r)
  BY Grow
<1>3. x \in BtNode /\ ~x.isLeaf /\ x.ptr0 = r /\ x.entries = <<>> /\ numKeys(x) = 0
  <2>1. <<>> \in Seq(Entry) /\ Len(<<>>) = 0
    OBVIOUS
  <2> QED
    BY <1>1, <2>1 DEF EmptyRoot, BtNode, numKeys
<1>4. /\ G[z] = x /\ (\A m \in Node : m # z => G[m] = V[m]) /\ Used(G) = Used(V) \cup {z}
      /\ z # r
  <2>1. G[z] = x /\ \A m \in Node : m # z => G[m] = V[m]
    BY <1>1
  <2> QED
    BY <1>1, <1>3, <2>1, NullAssumption DEF Used
<1> HIDE DEF G, lv, rg, x
<1>5. CanSplit(G, z, dep + 1, lv, rg, z, r, -1, q)
  <2>1. numKeys(G[r]) = FANOUT + 1
    BY <1>1, <1>4
  <2>2. z \in Inner(G)
    BY <1>3, <1>4 DEF Inner
  <2>3. -1 \in Index(G[z]) /\ Child(G[z], -1) = r
    BY <1>3, <1>4 DEF Index, Child
  <2>4. q \notin Used(G)
    BY <1>4
  <2> QED
    BY <1>2, <2>1, <2>2, <2>3, <2>4 DEF CanSplit
<1>6. /\ Overfull(G[r]) /\ r # q /\ UpEntry(G, r, q) \in Entry /\ NewKey(x, Sep(G[r]))
      /\ UpEntry(G, r, q).key = Sep(G[r]) /\ Ascending(x)
  BY <1>4, <1>5, SplitFacts DEF NodeOK
<1>7. G[r] = V[r] /\ UpEntry(G, r, q) = up
  BY <1>1, <1>4 DEF UpEntry
<1>8. /\ H[r] = LeftHalf(V[r]) /\ H[q] = RightHalf(V[r]) /\ H[z] = Put(x, up)
      /\ \A m \in Node : m \notin {z, r, q} => H[m] = V[m]
  BY <1>4, <1>5, <1>7, SplitParts
<1>9. numKeys(H[z]) = 1 /\ ~H[z].isLeaf
  <2>1. up \in Entry /\ NewKey(x, up.key)
    BY <1>6, <1>7
  <2>2. numKeys(Put(x, up)) = numKeys(x) + 1 /\ Put(x, up).isLeaf = x.isLeaf
    BY <1>3, <1>6, <2>1, PutFacts
  <2> QED
    BY <1>3, <1>8, <2>2
<1>10. Tree(H, z, dep + 1, SplitLev(lv, r, q), SplitRng(G, rg, r, q), z)
  BY <1>5, SplitTree
<1>11. Tree(H, z, dep + 1, SplitLev(lv, r, q), SplitRng(G, rg, r, q), NULL)
  <2>1. numKeys(H[z]) <= FANOUT
    BY <1>9
  <2> HIDE DEF H
  <2> QED
    BY <1>10, <2>1, Relax
<1>12. Records(H) = Records(V)
  <2>1. Records(H) = Records(G)
    BY <1>5, SplitRecords
  <2>2. \A y : y \in Records(V) <=> \E m \in Used(V) : RecordOf(V[m], y)
    BY <1>1, RecordsAre
  <2>3. \A m \in Used(G) : G[m] \in BtNode
    BY <1>2, UsedNodes DEF Tree
  <2>4. \A y : y \in Records(G) <=> \E m \in Used(G) : RecordOf(G[m], y)
    BY <2>3, RecordsAre
  <2>5. \A y : ~RecordOf(G[z], y)
    BY <1>3, <1>4 DEF RecordOf
  <2>6. \A m \in Used(V) : m # z /\ G[m] = V[m]
    BY <1>4 DEF Used
  <2>7. \A y : y \in Records(G) <=> y \in Records(V)
    BY <1>4, <2>2, <2>4, <2>5, <2>6
  <2> QED
    BY <2>1, <2>7
<1>13. GrownOK(H, z, dep, SplitLev(lv, r, q), SplitRng(G, rg, r, q))
  BY <1>9, <1>11 DEF GrownOK, RootOK
<1>14. Grown(V, z, r, q) = H
  BY DEF Grown, G
<1> HIDE DEF H
<1> QED
  BY <1>4, <1>6, <1>7, <1>8, <1>12, <1>13, <1>14 DEF x

LEMMA NewRootIs ==
  ASSUME NEW r \in Node, NEW up \in Entry, NEW s, s.root = r
  PROVE  newRoot(s, up) = Put(EmptyRoot(r), up)
<1> DEFINE x == EmptyRoot(r)
<1>1. x \in BtNode /\ ~x.isLeaf /\ x.First /\ x.Last /\ x.ptr0 = r /\ x.entries = <<>>
      /\ numKeys(x) = 0
  <2>1. <<>> \in Seq(Entry) /\ Len(<<>>) = 0
    OBVIOUS
  <2> QED
    BY <2>1 DEF EmptyRoot, BtNode, numKeys
<1>2. findRecordIndex(x, up.key) = 0
  <2>1. {i \in 1 .. numKeys(x) : x.entries[i].key < up.key} = {}
    BY <1>1
  <2> QED
    BY <2>1, FS_EmptySet DEF findRecordIndex
<1>3. InsertAt(x.entries, 1, up) = <<up>>
  <2>1. SubSeq(<<>>, 1, 1 - 1) = <<>> /\ SubSeq(<<>>, 1, Len(<<>>)) = <<>>
    OBVIOUS
  <2>2. InsertAt(<<>>, 1, up) = <<>> \o <<up>> \o <<>>
    BY <2>1 DEF InsertAt
  <2>3. <<>> \o <<up>> \o <<>> = <<up>>
    OBVIOUS
  <2> QED
    BY <1>1, <2>2, <2>3
<1>4. Put(x, up) = [x EXCEPT !.entries = <<up>>]
  BY <1>2, <1>3 DEF Put
<1>5. newRoot(s, up) = [x EXCEPT !.entries = <<up>>]
  <2> DEFINE one == <<up>>
             w == createNewNode(FALSE, TRUE, TRUE)
  <2> HIDE DEF one
  <2>1. [w EXCEPT !.ptr0 = r] = x
    <3> DEFINE no == <<>>
               f == FALSE
               y == TRUE
    <3> HIDE DEF no, f, y
    <3>1. [[isLeaf |-> f, First |-> y, Last |-> y, ptr0 |-> NULL, entries |-> no] EXCEPT !.ptr0 = r]
          = [isLeaf |-> f, First |-> y, Last |-> y, ptr0 |-> r, entries |-> no]
      OBVIOUS
    <3> QED
      BY <3>1 DEF EmptyRoot, createNewNode, no, f, y
  <2> HIDE DEF w
  <2>2. newRoot(s, up) = [[w EXCEPT !.ptr0 = r] EXCEPT !.entries = one]
    BY DEF newRoot, w, one
  <2> QED
    BY <2>1, <2>2 DEF one
<1> QED
  BY <1>4, <1>5

\* The root is split too, and a new one comes over the halves.
LEMMA PutRoot ==
  ASSUME NEW h, NEW r, NEW dep, NEW lev0, NEW rng0, NEW c, NEW e,
         CanPut(h, r, dep, lev0, rng0, c, e), ~Found(h, c, e), Level(h, c, e) = 0, NEW cnt
  PROVE  \E lev, rng : PutDone(h, cnt, e, putEntry(PutState(h, r, dep, cnt, c), e, e.key), lev, rng)
<1> DEFINE k == e.key
           s == putEntry(PutState(h, r, dep, cnt, c), e, e.key)
<1>1. /\ Tree(h, r, dep, lev0, rng0, NULL) /\ Complete(h, r, dep, c) /\ k \in Key
  BY DEF CanPut, SearchPath
<1>2. /\ dep \in Nat /\ c \in Seq(Stop) /\ Len(c) = dep + 1 /\ c[1].node = r
  BY <1>1, CompleteFacts
<1>3. numKeys(h[r]) = FANOUT
  <2>1. \A l \in 1 .. dep + 1 : numKeys(h[c[l].node]) = FANOUT
    BY <1>2, LevelIs
  <2> QED
    BY <1>2, <2>1
<1>4. PICK state : SplitStates(h, c, e, state)
  BY SplitsStep
<1> DEFINE t == state[dep]
           w == SplitOne(t)
<1>5. Splits(h, c, e) = w
  BY <1>2, <1>4 DEF SplitStates
<1> HIDE DEF t
<1>6. PICK lev, rng : Pending(h, r, dep, c, e, t, 1, lev, rng)
  <2>1. dep \in 0 .. dep /\ dep <= dep + 1 - Level(h, c, e) /\ dep + 1 - dep = 1
    BY <1>2
  <2>2. \E lev, rng : Pending(h, r, dep, c, e, state[dep], dep + 1 - dep, lev, rng)
    BY <1>4, <2>1, PendingAt
  <2> QED
    BY <2>1, <2>2 DEF t
<1> DEFINE V == Filled(t.heap, r, t.e)
           q == Fresh(t.heap)
           z == Fresh(w.heap)
           up == UpEntry(V, r, q)
           S == PutState(h, r, dep, cnt, c)
           H == [w.heap EXCEPT ![z] = newRoot(S, w.e)]
<1>7. /\ r \in Used(V) /\ V[r] = Put(h[r], t.e) /\ numKeys(V[r]) = FANOUT + 1
      /\ t.heap[r] = h[r] /\ t.heap \in [Node -> BtNode \cup {NULL}]
      /\ Last(t.cursor).node = r /\ Front(t.cursor) = <<>>
  <2>1. PathAbove(h, r, c, t, 1, c[1].node, Filled(t.heap, c[1].node, t.e))
    <3>1. 1 \in 1 .. dep + 1
      BY <1>2
    <3> QED
      BY <1>1, <1>6, <3>1, PendingPath
  <2>2. PathAbove(h, r, c, t, 1, r, V)
    BY <1>2, <2>1
  <2>3. SubSeq(c, 1, 1 - 1) = <<>>
    BY <1>2
  <2> HIDE DEF V, t
  <2> QED
    BY <1>2, <1>3, <2>2, <2>3 DEF PathAbove
<1>8. /\ Tree(V, r, dep, lev, rng, r) /\ Records(V) = Records(h) \cup {e}
      /\ FreeFor(t.heap, 1 + 1) /\ r \in Used(t.heap)
  <2>1. /\ Whole(h, r, dep, lev, rng, c[1].node, Filled(t.heap, c[1].node, t.e), e)
        /\ Reaches(h, c, t, 1)
    BY <1>6 DEF Pending
  <2> QED
    BY <1>2, <2>1 DEF Whole, Reaches
<1> HIDE DEF V, w, q, z, S, s
<1>9. /\ q \in Node /\ q \notin Used(t.heap)
      /\ \A g : Used(g) = Used(t.heap) \cup {q} => FreeFor(g, 0 + 1)
  <2>1. /\ Fresh(t.heap) \in Node /\ Fresh(t.heap) \notin Used(t.heap)
        /\ \A g, x : x \in Node /\ x \notin Used(t.heap) /\ Used(g) = Used(t.heap) \cup {x}
                     => FreeFor(g, 1)
    BY <1>8, FreshIs
  <2> QED
    BY <2>1 DEF q
<1>10. \A m \in Node : m # r => V[m] = t.heap[m]
  BY <1>7 DEF V, Filled
<1>11. Used(V) = Used(t.heap) /\ r \in Node
  BY <1>7, <1>8, <1>10 DEF Used
<1>12. Overfull(V[r])
  <2>1. \E x : x \in Node /\ x \notin Used(V) /\ x # q
    <3> DEFINE g == [t.heap EXCEPT ![q] = t.heap[r]]
    <3>1. Used(g) = Used(t.heap) \cup {q}
      BY <1>7, <1>8, <1>9 DEF Used
    <3> HIDE DEF g
    <3>2. FreeFor(g, 0 + 1)
      BY <1>9, <3>1
    <3>3. Fresh(g) \in Node /\ Fresh(g) \notin Used(g)
      BY <3>2, FreshIs
    <3> QED
      BY <1>11, <3>1, <3>3
  <2>2. PICK x : x \in Node /\ x \notin Used(V) /\ x # q
    BY <2>1
  <2> QED
    BY <1>7, <1>8, <1>9, <1>11, <2>2, GrownTree
<1>13. w.heap = Halved(t.heap, V, r, q) /\ w.e = up /\ w.cursor = <<>>
  <2> DEFINE split == splitnode(t.heap, r, t.e, q)
  <2>1. split.heap = Halved(t.heap, V, r, q) /\ split.up = up
    <3>1. Overfull(Put(t.heap[r], t.e))
      BY <1>7, <1>12
    <3> QED
      BY <1>7, <1>8, <1>9, <3>1, SplitnodeIs DEF V
  <2>2. splitnode(t.heap, Last(t.cursor).node, t.e, Fresh(t.heap)) = split
    BY <1>7 DEF q
  <2> HIDE DEF split
  <2>3. w = [heap |-> split.heap, cursor |-> Front(t.cursor), e |-> split.up]
    BY <2>2 DEF w, SplitOne
  <2> QED
    BY <1>7, <2>1, <2>3
<1>14. LeftHalf(V[r]) \in BtNode /\ RightHalf(V[r]) \in BtNode
  BY <1>12, HalfFacts
<1>15. /\ w.heap[r] = LeftHalf(V[r]) /\ w.heap[q] = RightHalf(V[r])
       /\ \A m \in Node : m \notin {r, q} => w.heap[m] = t.heap[m]
       /\ DOMAIN w.heap = Node
       /\ q # r
  BY <1>7, <1>8, <1>9, <1>11, <1>13 DEF Halved
<1>16. Used(w.heap) = Used(t.heap) \cup {q}
  BY <1>8, <1>9, <1>11, <1>14, <1>15, NullAssumption DEF Used
<1>17. z \in Node /\ z \notin Used(V) /\ z # q
  <2>1. FreeFor(w.heap, 0 + 1)
    BY <1>9, <1>16
  <2>2. Fresh(w.heap) \in Node /\ Fresh(w.heap) \notin Used(w.heap)
    BY <2>1, FreshIs
  <2> QED
    BY <1>11, <1>16, <2>2 DEF z
<1> DEFINE G == Grown(V, z, r, q)
<1>18. /\ \E lv, rg : GrownOK(G, z, dep, lv, rg)
       /\ z # r
       /\ Records(G) = Records(V)
       /\ G[z] = Put(EmptyRoot(r), up)
       /\ G[r] = LeftHalf(V[r]) /\ G[q] = RightHalf(V[r])
       /\ \A m \in Node : m \notin {z, r, q} => G[m] = V[m]
       /\ up \in Entry
  <2>1. q \notin Used(V)
    BY <1>9, <1>11
  <2> QED
    BY <1>7, <1>8, <1>9, <1>17, <2>1, GrownTree
<1>19. PICK lv, rg : GrownOK(G, z, dep, lv, rg)
  BY <1>18
<1>20. Tree(G, z, dep + 1, lv, rg, NULL) /\ RootOK(G, z)
  BY <1>19 DEF GrownOK
<1>21. S.root = r /\ S.depth = dep /\ S.count = cnt /\ S.heap = h /\ S.cursor = c
  BY DEF S, PutState
<1>22. H = G
  <2>1. DOMAIN G = Node /\ G \in [Node -> BtNode \cup {NULL}]
    BY <1>20 DEF Tree, Shape
  <2>2. newRoot(S, w.e) = G[z]
    BY <1>11, <1>13, <1>18, <1>21, NewRootIs
  <2> HIDE DEF G
  <2>3. H[z] = G[z] /\ (\A m \in Node : m # z => H[m] = w.heap[m]) /\ DOMAIN H = Node
    BY <1>15, <1>17, <2>2
  <2>4. \A m \in Node : m # z => w.heap[m] = G[m]
    BY <1>10, <1>15, <1>18
  <2>5. \A m \in Node : H[m] = G[m]
    BY <2>3, <2>4
  <2>6. H = [m \in Node |-> H[m]]
    BY <2>3
  <2> HIDE DEF H
  <2> QED
    BY <2>1, <2>5, <2>6
<1> HIDE DEF G, H
<1>23. s = [heap |-> G, root |-> z, depth |-> dep + 1, count |-> cnt + 1,
            cursor |-> moveToKey(G, z, k, <<>>)]
  <2>1. putEntry(S, e, e.key) =
          [heap |-> H, root |-> z, depth |-> dep + 1, count |-> cnt + 1,
           cursor |-> moveToKey(H, z, k, <<>>)]
    BY <1>5, <1>13, <1>21 DEF putEntry, H, z
  <2> QED
    BY <1>22, <2>1 DEF s, S
<1>24. SearchPath(G, z, dep + 1, rg, moveToKey(G, z, k, <<>>), k)
  <2>1. z \in Used(G) /\ rg[z] = Key
    BY <1>20 DEF Tree, Shape
  <2>2. LeadsTo(G, z, <<>>, z)
    BY <2>1 DEF LeadsTo
  <2> QED
    BY <1>1, <1>20, <2>1, <2>2, MoveToKeyIs
<1>25. /\ {x \in Records(h) : x.key # e.key} = Records(h)
       /\ ~\E x \in Records(h) : x.key = e.key
  BY NewRecords
<1>26. /\ s.heap = G /\ s.root = z /\ s.depth = dep + 1 /\ s.count = cnt + 1
       /\ s.cursor = moveToKey(G, z, k, <<>>)
  BY <1>23
<1>27. PutDone(h, cnt, e, s, lv, rg)
  BY <1>8, <1>18, <1>20, <1>24, <1>25, <1>26 DEF PutDone
<1> QED
  BY <1>27 DEF s

\* However far up the splits go, a put makes of a tree one with that record.
LEMMA PutEntryIs ==
  ASSUME NEW h, NEW r, NEW dep, NEW lev0, NEW rng0, NEW c, NEW e,
         CanPut(h, r, dep, lev0, rng0, c, e), NEW cnt
  PROVE  \E lev, rng : PutDone(h, cnt, e, putEntry(PutState(h, r, dep, cnt, c), e, e.key), lev, rng)
<1>1. CASE Found(h, c, e)
  BY <1>1, PutFound
<1>2. CASE ~Found(h, c, e) /\ Level(h, c, e) # 0
  BY <1>2, PutRoom
<1>3. CASE ~Found(h, c, e) /\ Level(h, c, e) = 0
  BY <1>3, PutRoot
<1> QED
  BY <1>1, <1>2, <1>3

-----------------------------------------------------------------------------
(* The inductive invariant.                                                *)

\* The keys that are there.
Present(h) == {x.key : x \in Records(h)}

Counted(h, n) == IsFiniteSet(Present(h)) /\ n = Cardinality(Present(h))

TreeInv(lev, rng) ==
  /\ Tree(heap, root, depth, lev, rng, NULL) /\ RootOK(heap, root)
  /\ cursor # NULL => Complete(heap, root, depth, cursor)
  /\ Counted(heap, numRecords)

\* There are ranges and levels with which the heap is a tree, the cursor is a path in
\* it, and the count is right.
IInv == \E lev, rng : TreeInv(lev, rng)

LEMMA CountPut ==
  ASSUME NEW h, NEW g, NEW e, NEW cnt, NEW n, Counted(h, cnt),
         Records(g) = {x \in Records(h) : x.key # e.key} \cup {e},
         n = IF \E x \in Records(h) : x.key = e.key THEN cnt ELSE cnt + 1
  PROVE  Counted(g, n)
<1>1. Present(g) = Present(h) \cup {e.key}
  BY DEF Present
<1>2. e.key \in Present(h) <=> \E x \in Records(h) : x.key = e.key
  BY DEF Present
<1>3. IsFiniteSet(Present(h)) /\ cnt = Cardinality(Present(h))
  BY DEF Counted
<1> DEFINE P == Present(h)
           k == e.key
<1>4. /\ IsFiniteSet(P \cup {k})
      /\ Cardinality(P \cup {k}) = IF k \in P THEN Cardinality(P) ELSE Cardinality(P) + 1
  <2> HIDE DEF P, k
  <2> QED
    BY <1>3, FS_AddElement DEF P
<1> QED
  BY <1>1, <1>2, <1>3, <1>4 DEF Counted

\* One empty leaf is a tree.
OneLeaf(r) == [n \in Node |-> IF n = r THEN createNewNode(TRUE, TRUE, TRUE) ELSE NULL]

LEMMA EmptyTree ==
  ASSUME NEW r \in Node
  PROVE  \E lev, rng : /\ Tree(OneLeaf(r), r, 0, lev, rng, NULL) /\ RootOK(OneLeaf(r), r)
                       /\ Counted(OneLeaf(r), 0)
<1> DEFINE h == OneLeaf(r)
           x == createNewNode(TRUE, TRUE, TRUE)
           lev == [n \in Node |-> 0]
           rng == [n \in Node |-> Key]
<1>1. h = [n \in Node |-> IF n = r THEN x ELSE NULL]
  BY DEF OneLeaf
<1>2. x \in BtNode /\ x.isLeaf /\ x.First /\ x.Last /\ numKeys(x) = 0 /\ x.entries = <<>>
  <2>1. <<>> \in Seq(Entry) /\ Len(<<>>) = 0
    OBVIOUS
  <2> QED
    BY <2>1 DEF createNewNode, BtNode, numKeys
<1> HIDE DEF h, x
<1>3. h[r] = x /\ Used(h) = {r} /\ h \in [Node -> BtNode \cup {NULL}]
  <2>1. h[r] = x /\ \A n \in Node : n # r => h[n] = NULL
    BY <1>1
  <2>2. x # NULL
    BY <1>2, NullAssumption
  <2>3. Used(h) = {r}
    BY <2>1, <2>2 DEF Used
  <2> QED
    BY <1>1, <1>2, <2>1, <2>3
<1>4. lev[r] = 0 /\ rng[r] = Key /\ lev \in [Node -> Nat] /\ rng \in [Node -> SUBSET Key]
  OBVIOUS
<1> HIDE DEF lev, rng
<1>5. NodeOK(x, 0, Key)
  BY <1>2 DEF NodeOK, Ascending, Convex, Lowest, Highest
<1>6. SizeOK(h, r, r, NULL)
  BY <1>2, <1>3 DEF SizeOK
<1>7. Inner(h) = {}
  BY <1>2, <1>3 DEF Inner
<1>8. Tree(h, r, 0, lev, rng, NULL)
  BY <1>3, <1>4, <1>5, <1>6, <1>7 DEF Tree, Shape, Nodes, Sizes, Kids, Apart, Reached
<1>9. Counted(h, 0)
  <2>1. \A y : ~RecordOf(x, y)
    BY <1>2 DEF RecordOf
  <2>2. \A y : y \in Records(h) <=> \E n \in Used(h) : RecordOf(h[n], y)
    BY <1>2, <1>3, RecordsAre
  <2>3. Present(h) = {}
    BY <1>3, <2>1, <2>2 DEF Present
  <2> QED
    BY <2>3, FS_EmptySet DEF Counted
<1>10. RootOK(h, r)
  BY <1>2, <1>3 DEF RootOK
<1> QED
  BY <1>8, <1>9, <1>10 DEF h

\* At the start the tree is one empty leaf.
LEMMA InitInv == ASSUME Init PROVE IInv
<1>1. root \in Node /\ depth = 0 /\ cursor = NULL /\ numRecords = 0
      /\ heap = OneLeaf(root)
  BY NodesAssumption DEF Init, OneLeaf
<1>2. PICK lev, rng : Tree(heap, root, 0, lev, rng, NULL) /\ RootOK(heap, root) /\ Counted(heap, 0)
  BY <1>1, EmptyTree
<1>3. TreeInv(lev, rng)
  BY <1>1, <1>2 DEF TreeInv
<1> QED
  BY <1>3 DEF IInv

\* A step that leaves the relation, and the cursor complete or freed.
LEMMA InvKept ==
  ASSUME NEW lev, NEW rng, TreeInv(lev, rng), UNCHANGED relation,
         cursor' = NULL \/ Complete(heap, root, depth, cursor')
  PROVE  IInv'
<1>1. heap' = heap /\ root' = root /\ depth' = depth /\ numRecords' = numRecords
  BY DEF relation
<1>2. TreeInv(lev, rng)'
  BY <1>1 DEF TreeInv
<1> QED
  BY <1>2 DEF IInv

LEMMA FirstComplete ==
  ASSUME NEW lev, NEW rng, TreeInv(lev, rng)
  PROVE  Complete(heap, root, depth, moveToFirst(heap, root, <<>>))
<1>1. Tree(heap, root, depth, lev, rng, NULL)
  BY DEF TreeInv
<1>2. LeadsTo(heap, root, <<>>, root)
  BY <1>1 DEF Tree, Shape, LeadsTo
<1>3. IndexOK(heap, FirstIndex(heap))
  BY <1>1, IndexesOK
<1>4. Complete(heap, root, depth, Down(heap, root, FirstIndex(heap), <<>>))
  BY <1>1, <1>2, <1>3, DownComplete
<1> QED
  BY <1>4, MovesDown

\* What RL_PutRecord() does: s is the state after putEntry().
PutStep(key, record, s, lev, rng) ==
  /\ heap' = s.heap /\ root' = s.root /\ depth' = s.depth /\ numRecords' = s.count
  /\ cursor' = AfterNext(s.heap, s.cursor)
  /\ PutDone(heap, numRecords, [key |-> key, ptr |-> record], s, lev, rng)

LEMMA PutStepIs ==
  ASSUME NEW lev, NEW rng, TreeInv(lev, rng),
         NEW key \in Key, NEW record \in Record, RL_PutRecord(key, record)
  PROVE  \E s, lv, rg : PutStep(key, record, s, lv, rg)
<1> DEFINE c == goToKey(heap, cursor, key)
           e == [key |-> key, ptr |-> record]
           s == putEntry(PutState(heap, root, depth, numRecords, c), e, e.key)
<1>2. /\ Tree(heap, root, depth, lev, rng, NULL) /\ RootOK(heap, root)
      /\ Complete(heap, root, depth, cursor)
  BY DEF TreeInv, RL_PutRecord, Uses
<1>3. e.key = key /\ e \in [key : Key, ptr : Record]
  OBVIOUS
<1>4. /\ heap' = s.heap /\ root' = s.root /\ depth' = s.depth /\ numRecords' = s.count
      /\ cursor' = AfterNext(s.heap, s.cursor)
  BY <1>3 DEF RL_PutRecord, PutState
<1> HIDE DEF s, e, c
<1>5. FreeFor(heap, depth + 2)
  <2>1. depth + 2 \in Nat
    BY <1>2 DEF Tree, Shape
  <2>2. Cardinality(Node \ Used(heap)) >= depth + 2
    BY DEF RL_PutRecord, Room
  <2> DEFINE n == depth + 2
  <2> HIDE DEF n
  <2>3. FreeFor(heap, n)
    BY <2>1, <2>2, FreeIs DEF n
  <2> QED
    BY <2>3 DEF n
<1>6. SearchPath(heap, root, depth, rng, c, key)
  BY <1>2, GoToKeyIs DEF c
<1>7. CanPut(heap, root, depth, lev, rng, c, e)
  BY <1>2, <1>3, <1>5, <1>6 DEF CanPut
<1>8. PICK lv, rg : PutDone(heap, numRecords, e, s, lv, rg)
  BY <1>7, PutEntryIs DEF s
<1>9. PutStep(key, record, s, lv, rg)
  BY <1>4, <1>8 DEF PutStep, e
<1> QED
  BY <1>9

\* A put, with all its splits.
LEMMA PutInv ==
  ASSUME IInv, NEW key \in Key, NEW record \in Record, RL_PutRecord(key, record)
  PROVE  IInv'
<1>1. PICK lev, rng : TreeInv(lev, rng)
  BY DEF IInv
<1>2. PICK s, lv, rg : PutStep(key, record, s, lv, rg)
  BY <1>1, PutStepIs
<1> DEFINE e == [key |-> key, ptr |-> record]
<1>3. /\ heap' = s.heap /\ root' = s.root /\ depth' = s.depth /\ numRecords' = s.count
      /\ cursor' = AfterNext(s.heap, s.cursor) /\ PutDone(heap, numRecords, e, s, lv, rg)
  BY <1>2 DEF PutStep
<1> HIDE DEF e
<1>4. /\ Tree(s.heap, s.root, s.depth, lv, rg, NULL) /\ RootOK(s.heap, s.root)
      /\ Complete(s.heap, s.root, s.depth, s.cursor)
      /\ Records(s.heap) = {x \in Records(heap) : x.key # e.key} \cup {e}
      /\ s.count = IF \E x \in Records(heap) : x.key = e.key THEN numRecords ELSE numRecords + 1
  BY <1>3 DEF PutDone, SearchPath
<1>5. Complete(s.heap, s.root, s.depth, AfterNext(s.heap, s.cursor))
  BY <1>4, AfterComplete
<1>6. Counted(s.heap, s.count)
  BY <1>1, <1>4, CountPut DEF TreeInv
<1>7. TreeInv(lv, rg)'
  BY <1>3, <1>4, <1>5, <1>6 DEF TreeInv
<1> QED
  BY <1>7 DEF IInv

LEMMA NextInv == ASSUME IInv, [Next]_vars PROVE IInv'
<1>1. PICK lev, rng : TreeInv(lev, rng)
  BY DEF IInv
<1>2. Tree(heap, root, depth, lev, rng, NULL)
  BY <1>1 DEF TreeInv
<1>3. cursor # NULL => Complete(heap, root, depth, cursor)
  BY <1>1 DEF TreeInv
<1>4. ASSUME cursor # NULL
      PROVE  /\ Complete(heap, root, depth, Settle(heap, cursor))
             /\ Complete(heap, root, depth, AfterNext(heap, cursor))
             /\ Complete(heap, root, depth, AfterPrev(heap, cursor))
  BY <1>2, <1>3, <1>4, AfterComplete
<1>5. ASSUME UNCHANGED relation, UNCHANGED cursor PROVE IInv'
  BY <1>1, <1>3, <1>5, InvKept
<1>6. CASE RL_NewCursor
  <2>1. UNCHANGED relation /\ cursor' = moveToFirst(heap, root, <<>>)
    BY <1>6 DEF RL_NewCursor, Moves
  <2> QED
    BY <1>1, <2>1, FirstComplete, InvKept
<1>7. CASE RL_FreeCursor
  <2>1. UNCHANGED relation /\ cursor' = NULL
    BY <1>7 DEF RL_FreeCursor, Moves
  <2> QED
    BY <1>1, <2>1, InvKept
<1>8. CASE \E key \in Key, record \in Record : RL_PutRecord(key, record)
  BY <1>8, PutInv
<1>9. ASSUME NEW key \in Key, RL_MoveToKey(key) PROVE IInv'
  <2> DEFINE c == goToKey(heap, cursor, key)
  <2>1. cursor # NULL /\ UNCHANGED relation /\ (cursor' = c \/ cursor' = Settle(heap, c))
    BY <1>9 DEF RL_MoveToKey, Moves
  <2>2. Complete(heap, root, depth, c)
    BY <1>2, <1>3, <2>1, GoToKeyIs DEF SearchPath
  <2> HIDE DEF c
  <2>3. Complete(heap, root, depth, Settle(heap, c))
    BY <1>2, <2>2, AfterComplete
  <2> QED
    BY <1>1, <2>1, <2>2, <2>3, InvKept
<1>10. CASE RL_GetRecord \/ RL_GetKey
  <2>1. cursor # NULL /\ UNCHANGED relation /\ cursor' = Settle(heap, cursor)
    BY <1>10 DEF RL_GetRecord, RL_GetKey, GetEntry, Moves
  <2> QED
    BY <1>1, <1>4, <2>1, InvKept
<1>11. CASE RL_MoveToFirst
  <2>1. UNCHANGED relation /\ cursor' = moveToFirst(heap, root, <<>>)
    BY <1>11 DEF RL_MoveToFirst, Moves
  <2> QED
    BY <1>1, <2>1, FirstComplete, InvKept
<1>12. CASE RL_MoveToNextValid
  <2>1. cursor # NULL /\ UNCHANGED relation /\ cursor' = AfterNext(heap, cursor)
    BY <1>12 DEF RL_MoveToNextValid, Moves
  <2> QED
    BY <1>1, <1>4, <2>1, InvKept
<1>13. CASE RL_MoveToPreviousNotFirst
  <2>1. cursor # NULL /\ UNCHANGED relation /\ cursor' = AfterPrev(heap, cursor)
    BY <1>13 DEF RL_MoveToPreviousNotFirst, Moves
  <2> QED
    BY <1>1, <1>4, <2>1, InvKept
<1>14. CASE RL_DeleteRecord \/ RL_IsEmpty \/ RL_CursorIsValid \/ RL_NumRecords
  <2>1. UNCHANGED relation /\ UNCHANGED cursor
    BY <1>14 DEF RL_DeleteRecord, RL_IsEmpty, RL_CursorIsValid, RL_NumRecords, Asks
  <2> QED
    BY <1>5, <2>1
<1>15. CASE RL_DeleteRelation \/ Ended \/ UNCHANGED vars
  <2>1. UNCHANGED relation /\ UNCHANGED cursor
    BY <1>15 DEF RL_DeleteRelation, Ended, vars
  <2> QED
    BY <1>5, <2>1
<1> QED
  BY <1>6, <1>7, <1>8, <1>9, <1>10, <1>11, <1>12, <1>13, <1>14, <1>15 DEF Next

\* However it is used, there is a B+tree in the heap.
THEOREM Invariant == Spec => []IInv
<1>1. Init => IInv
  BY InitInv
<1>2. IInv /\ [Next]_vars => IInv'
  BY NextInv
<1> QED
  BY <1>1, <1>2, PTL DEF Spec

-----------------------------------------------------------------------------
(* What the invariant says of the tree and of the cursor.                  *)

\* A path to the place of key k comes through each node with k in its range.
LEMMA ComesThrough ==
  ASSUME NEW h, NEW r, NEW dep, NEW lev, NEW rng, NEW big, Tree(h, r, dep, lev, rng, big),
         NEW c, Complete(h, r, dep, c), NEW n \in Used(h),
         NEW l \in 1 .. dep + 1, lev[n] = dep + 1 - l,
         NEW k \in Key, k \in rng[n], k \in rng[c[l].node]
  PROVE  Through(c, n)
<1>1. dep \in Nat /\ Len(c) = dep + 1 /\ Levels(h, dep, lev, c, dep)
  BY CompleteFacts
<1>2. c[l].node \in Used(h) /\ lev[c[l].node] = lev[n]
  BY <1>1 DEF Levels
<1>3. c[l].node = n
  BY <1>2 DEF Tree, Apart
<1> QED
  BY <1>1, <1>3 DEF Through

LEMMA LevelOf ==
  ASSUME NEW h, NEW r, NEW dep, NEW lev, NEW rng, NEW big, Tree(h, r, dep, lev, rng, big),
         NEW n \in Used(h)
  PROVE  /\ dep \in Nat /\ lev[n] \in 0 .. dep
         /\ n # r => lev[n] < dep
         /\ dep + 1 - lev[n] \in 1 .. dep + 1 /\ lev[n] = dep + 1 - (dep + 1 - lev[n])
<1>1. dep \in Nat /\ lev[r] = dep /\ lev[n] \in Nat /\ (n # r => lev[n] < dep)
  BY UsedNodes DEF Tree, Shape, Reached
<1> DEFINE v == lev[n]
<1>2. v \in Nat /\ v <= dep
  BY <1>1
<1> HIDE DEF v
<1>3. v \in 0 .. dep /\ dep + 1 - v \in 1 .. dep + 1 /\ v = dep + 1 - (dep + 1 - v)
  BY <1>1, <1>2
<1> QED
  BY <1>1, <1>3 DEF v

LEMMA CompleteCursor == ASSUME IInv PROVE CursorComplete
<1> SUFFICES ASSUME cursor # NULL PROVE CursorComplete
  BY DEF CursorComplete
<1>1. PICK lev, rng : TreeInv(lev, rng)
  BY DEF IInv
<1>2. Tree(heap, root, depth, lev, rng, NULL) /\ Complete(heap, root, depth, cursor)
  BY <1>1 DEF TreeInv
<1>3. depth \in Nat /\ Len(cursor) = depth + 1 /\ Last(cursor) = cursor[depth + 1]
  BY <1>2, CompleteFacts
<1>4. ASSUME NEW l \in 1 .. depth
      PROVE  /\ cursor[l].idx \in Pointers(cursor[l].node)
             /\ cursor[l + 1].node = Child(heap[cursor[l].node], cursor[l].idx)
  <2>1. Hop(heap, cursor, l)
    BY <1>2 DEF Complete
  <2> QED
    BY <2>1 DEF Hop, Inner, Pointers, Index
<1> QED
  BY <1>2, <1>3, <1>4 DEF CursorComplete, Complete, currNode, entryIndex

LEMMA KeysInOrder ==
  ASSUME NEW lev, NEW rng, TreeInv(lev, rng)
  PROVE  Ordered
<1>1. Tree(heap, root, depth, lev, rng, NULL) /\ root \in Used(heap) /\ rng[root] = Key
  BY DEF TreeInv, Tree, Shape
<1> SUFFICES ASSUME NEW n \in Used(heap)
             PROVE  /\ \A i \in 1 .. numKeys(heap[n]) - 1 :
                         heap[n].entries[i].key < heap[n].entries[i + 1].key
                    /\ \A i \in 1 .. numKeys(heap[n]) :
                         Through(moveToKey(heap, root, heap[n].entries[i].key, <<>>), n)
  BY DEF Ordered
<1>2. NodeOK(heap[n], lev[n], rng[n]) /\ heap[n] \in BtNode /\ numKeys(heap[n]) \in Nat
  BY <1>1, UsedNodes, NodeFacts DEF Tree, Nodes
<1>3. \A i \in 1 .. numKeys(heap[n]) - 1 : heap[n].entries[i].key < heap[n].entries[i + 1].key
  <2> SUFFICES ASSUME NEW i \in 1 .. numKeys(heap[n]) - 1
               PROVE  heap[n].entries[i].key < heap[n].entries[i + 1].key
    OBVIOUS
  <2>1. i \in 1 .. numKeys(heap[n]) /\ i + 1 \in 1 .. numKeys(heap[n]) /\ i < i + 1
    BY <1>2
  <2> QED
    BY <1>2, <2>1 DEF NodeOK, Ascending
<1>4. ASSUME NEW i \in 1 .. numKeys(heap[n])
      PROVE  Through(moveToKey(heap, root, heap[n].entries[i].key, <<>>), n)
  <2> DEFINE k == heap[n].entries[i].key
             c == moveToKey(heap, root, k, <<>>)
             l == depth + 1 - lev[n]
  <2>1. k \in Key /\ k \in rng[n]
    BY <1>2, NodeFacts DEF NodeOK
  <2> HIDE DEF k
  <2>2. LeadsTo(heap, root, <<>>, root)
    BY <1>1 DEF LeadsTo
  <2>3. SearchPath(heap, root, depth, rng, c, k)
    BY <1>1, <2>1, <2>2, MoveToKeyIs
  <2> HIDE DEF c
  <2>4. Complete(heap, root, depth, c) /\ k \in rng[c[depth + 1].node]
    BY <2>3 DEF SearchPath
  <2>5. depth \in Nat /\ c[1].node = root /\ Hops(heap, c, depth)
    BY <1>1, <2>4, CompleteFacts
  <2>6. \A x \in 1 .. depth : k \in rng[c[x].node]
    BY <1>1, <2>1, <2>4, <2>5, KeysUp
  <2>7. depth \in Nat /\ l \in 1 .. depth + 1 /\ lev[n] = depth + 1 - l
    BY <1>1, LevelOf
  <2> HIDE DEF l
  <2>8. k \in rng[c[l].node]
    BY <2>4, <2>6, <2>7
  <2>9. Through(c, n)
    BY <1>1, <2>1, <2>4, <2>7, <2>8, ComesThrough
  <2> QED
    BY <2>9 DEF c, k
<1> QED
  BY <1>3, <1>4

LEMMA SameDepth ==
  ASSUME NEW lev, NEW rng, TreeInv(lev, rng)
  PROVE  Balanced
<1>1. /\ Tree(heap, root, depth, lev, rng, NULL) /\ root \in Used(heap) /\ rng[root] = Key
      /\ RootOK(heap, root)
  BY DEF TreeInv, Tree, Shape
<1>2. ASSUME NEW k \in Key
      PROVE  LET c == moveToKey(heap, root, k, <<>>)
             IN  Len(c) = depth + 1 /\ currNode(heap, c).isLeaf
  <2> DEFINE c == moveToKey(heap, root, k, <<>>)
  <2>1. LeadsTo(heap, root, <<>>, root)
    BY <1>1 DEF LeadsTo
  <2>2. SearchPath(heap, root, depth, rng, c, k)
    BY <1>1, <2>1, MoveToKeyIs
  <2> HIDE DEF c
  <2>3. Complete(heap, root, depth, c)
    BY <2>2 DEF SearchPath
  <2>4. Last(c) = c[depth + 1] /\ Len(c) = depth + 1
    BY <1>1, <2>3, CompleteFacts
  <2>5. Len(c) = depth + 1 /\ currNode(heap, c).isLeaf
    BY <2>3, <2>4 DEF Complete, currNode
  <2> QED
    BY <2>5 DEF c
<1>3. ASSUME NEW n \in Used(heap) PROVE numKeys(heap[n]) \in LeastKeys(n) .. FANOUT
  <2>1. SizeOK(heap, root, n, NULL) /\ n # NULL
    BY <1>1, UsedNodes DEF Tree, Sizes
  <2>2. numKeys(heap[n]) \in Nat
    BY <1>1, UsedNodes, NodeFacts DEF Tree
  <2>3. numKeys(heap[n]) <= FANOUT /\ (n # root => numKeys(heap[n]) >= FANOUT \div 2)
    BY <2>1 DEF SizeOK
  <2>4. FANOUT \div 2 \in Int
    OBVIOUS
  <2>5. LeastKeys(n) \in Int /\ LeastKeys(n) <= numKeys(heap[n])
    BY <1>1, <2>2, <2>3, <2>4 DEF LeastKeys, RootOK
  <2> QED
    BY <2>2, <2>3, <2>5
<1> QED
  BY <1>2, <1>3 DEF Balanced

\* Of the nodes of one level at most one has a range with no key before it, and at
\* most one a range with none after it.
LEMMA OneSpine ==
  ASSUME NEW h, NEW r, NEW dep, NEW lev, NEW rng, NEW big, Tree(h, r, dep, lev, rng, big),
         NEW m \in Used(h), NEW n \in Used(h), lev[m] = lev[n],
         (Lowest(rng[m]) /\ Lowest(rng[n])) \/ (Highest(rng[m]) /\ Highest(rng[n]))
  PROVE  m = n
<1>1. PICK i \in rng[m] : i \in Key /\ i \in Nat
  BY RangeNonempty
<1>2. PICK j \in rng[n] : j \in Key /\ j \in Nat
  BY RangeNonempty
<1>3. \E k \in Key : k \in rng[m] /\ k \in rng[n]
  <2>1. CASE Lowest(rng[m]) /\ Lowest(rng[n])
    BY <1>1, <1>2, <2>1 DEF Lowest
  <2>2. CASE Highest(rng[m]) /\ Highest(rng[n])
    BY <1>1, <1>2, <2>2 DEF Highest
  <2> QED
    BY <2>1, <2>2
<1> QED
  BY <1>3 DEF Tree, Apart

\* A node is marked First if and only if the path to the first record goes through it,
\* and Last if and only if the path to the end does.
LEMMA SpineMarks ==
  ASSUME NEW h, NEW r, NEW dep, NEW lev, NEW rng, NEW big, Tree(h, r, dep, lev, rng, big),
         NEW n \in Used(h)
  PROVE  /\ h[n].First <=> Through(moveToFirst(h, r, <<>>), n)
         /\ h[n].Last <=> Through(moveToLast(h, r, <<>>), n)
<1>1. Tree(h, r, dep, lev, rng, big) /\ r \in Used(h)
  BY DEF Tree, Shape
<1>2. LeadsTo(h, r, <<>>, r)
  BY <1>1 DEF LeadsTo
<1>3. (h[n].First <=> Lowest(rng[n])) /\ (h[n].Last <=> Highest(rng[n]))
  BY <1>1 DEF Tree, Nodes, NodeOK
<1> DEFINE l == dep + 1 - lev[n]
<1>4. dep \in Nat /\ l \in 1 .. dep + 1 /\ lev[n] = dep + 1 - l
  BY <1>1, LevelOf
<1> HIDE DEF l
<1>5. h[n].First <=> Through(moveToFirst(h, r, <<>>), n)
  <2> DEFINE c == Down(h, r, FirstIndex(h), <<>>)
  <2>1. Complete(h, r, dep, c) /\ GoesOn(c, <<>>, r, FirstIndex(h))
    BY <1>1, <1>2, IndexesOK, DownComplete
  <2> HIDE DEF c
  <2>2. Len(c) = dep + 1 /\ c[1].node = r /\ Hops(h, c, dep) /\ Levels(h, dep, lev, c, dep)
    BY <1>1, <2>1, CompleteFacts
  <2>3. \A x \in 1 .. dep : c[x].idx = firstpointer(h[c[x].node])
    <3> SUFFICES ASSUME NEW x \in 1 .. dep PROVE c[x].idx = firstpointer(h[c[x].node])
      OBVIOUS
    <3>1. x \in Len(<<>>) + 1 .. Len(c) /\ x \in 1 .. dep + 1
      BY <1>4, <2>2
    <3>2. c[x].node \in Used(h)
      BY <2>2, <3>1 DEF Levels
    <3> QED
      BY <2>1, <3>1, <3>2 DEF GoesOn, FirstIndex
  <2>4. \A x \in 1 .. dep + 1 : Lowest(rng[c[x].node])
    BY <1>1, <1>4, <2>2, <2>3, SpineRanges
  <2>5. ASSUME Through(c, n) PROVE Lowest(rng[n])
    BY <2>2, <2>4, <2>5 DEF Through
  <2>6. ASSUME Lowest(rng[n]) PROVE Through(c, n)
    <3>1. c[l].node \in Used(h) /\ lev[c[l].node] = lev[n]
      BY <1>4, <2>2 DEF Levels
    <3>2. Lowest(rng[c[l].node])
      BY <1>4, <2>4
    <3>3. c[l].node = n
      BY <1>1, <2>6, <3>1, <3>2, OneSpine
    <3> QED
      BY <1>4, <2>2, <3>3 DEF Through
  <2>7. moveToFirst(h, r, <<>>) = c
    BY MovesDown DEF c
  <2> QED
    BY <1>3, <2>5, <2>6, <2>7
<1>6. h[n].Last <=> Through(moveToLast(h, r, <<>>), n)
  <2> DEFINE c == Down(h, r, LastIndex(h), <<>>)
  <2>1. Complete(h, r, dep, c) /\ GoesOn(c, <<>>, r, LastIndex(h))
    BY <1>1, <1>2, IndexesOK, DownComplete
  <2> HIDE DEF c
  <2>2. Len(c) = dep + 1 /\ c[1].node = r /\ Hops(h, c, dep) /\ Levels(h, dep, lev, c, dep)
    BY <1>1, <2>1, CompleteFacts
  <2>3. \A x \in 1 .. dep : c[x].idx = lastpointer(h[c[x].node])
    <3> SUFFICES ASSUME NEW x \in 1 .. dep PROVE c[x].idx = lastpointer(h[c[x].node])
      OBVIOUS
    <3>1. x \in Len(<<>>) + 1 .. Len(c) /\ x \in 1 .. dep + 1
      BY <1>4, <2>2
    <3>2. c[x].node \in Used(h)
      BY <2>2, <3>1 DEF Levels
    <3> QED
      BY <2>1, <3>1, <3>2 DEF GoesOn, LastIndex
  <2>4. \A x \in 1 .. dep + 1 : Highest(rng[c[x].node])
    BY <1>1, <1>4, <2>2, <2>3, SpineRanges
  <2>5. ASSUME Through(c, n) PROVE Highest(rng[n])
    BY <2>2, <2>4, <2>5 DEF Through
  <2>6. ASSUME Highest(rng[n]) PROVE Through(c, n)
    <3>1. c[l].node \in Used(h) /\ lev[c[l].node] = lev[n]
      BY <1>4, <2>2 DEF Levels
    <3>2. Highest(rng[c[l].node])
      BY <1>4, <2>4
    <3>3. c[l].node = n
      BY <1>1, <2>6, <3>1, <3>2, OneSpine
    <3> QED
      BY <1>4, <2>2, <3>3 DEF Through
  <2>7. moveToLast(h, r, <<>>) = c
    BY MovesDown DEF c
  <2> QED
    BY <1>3, <2>5, <2>6, <2>7
<1> QED
  BY <1>5, <1>6

LEMMA MarkedSpines ==
  ASSUME NEW lev, NEW rng, TreeInv(lev, rng)
  PROVE  SpinesMarked
BY SpineMarks DEF TreeInv, SpinesMarked

LEMMA SingleParent ==
  ASSUME NEW lev, NEW rng, TreeInv(lev, rng)
  PROVE  OneParent
<1>1. /\ Tree(heap, root, depth, lev, rng, NULL) /\ root \in Used(heap) /\ lev[root] = depth
      /\ depth \in Nat
  BY DEF TreeInv, Tree, Shape
<1>2. \A n \in Used(heap) : n \in Node /\ n # NULL /\ heap[n] \in BtNode /\ lev[n] \in Nat
  BY <1>1, UsedNodes DEF Tree
<1>3. ASSUME NEW n, NEW p \in Parents(n)
      PROVE  /\ p[1] \in Inner(heap) /\ p[2] \in Index(heap[p[1]])
             /\ Child(heap[p[1]], p[2]) = n /\ lev[n] = lev[p[1]] - 1
             /\ p \in Used(heap) \X (-1 .. FANOUT)
  <2>1. /\ p \in Used(heap) \X (-1 .. FANOUT)
        /\ p[2] \in Pointers(p[1]) /\ Child(heap[p[1]], p[2]) = n
    BY <1>3 DEF Parents
  <2>2. p[1] \in Inner(heap) /\ p[2] \in Index(heap[p[1]])
    BY <2>1 DEF Pointers, Inner, Index
  <2>3. lev[n] = lev[p[1]] - 1
    BY <1>1, <2>1, <2>2 DEF Tree, Kids, KidOK
  <2> QED
    BY <2>1, <2>2, <2>3
<1>4. Parents(root) = {}
  <2> SUFFICES ASSUME NEW p \in Parents(root) PROVE FALSE
    OBVIOUS
  <2>1. p[1] \in Inner(heap) /\ lev[root] = lev[p[1]] - 1
    BY <1>3
  <2>2. p[1] \in Used(heap)
    BY <2>1 DEF Inner
  <2>3. lev[p[1]] \in 0 .. depth
    BY <1>1, <2>2, LevelOf
  <2> QED
    BY <1>1, <2>1, <2>3
<1>5. ASSUME NEW n \in Used(heap), n # root PROVE \E p : Parents(n) = {p}
  <2>1. PICK m \in Inner(heap) : \E i \in Index(heap[m]) : Child(heap[m], i) = n
    BY <1>1, <1>5 DEF Tree, Reached
  <2>2. PICK i \in Index(heap[m]) : Child(heap[m], i) = n
    BY <2>1
  <2>3. m \in Used(heap) /\ ~heap[m].isLeaf
    BY <2>1 DEF Inner
  <2>4. i \in -1 .. FANOUT
    <3>1. numKeys(heap[m]) <= FANOUT /\ numKeys(heap[m]) \in Nat
      BY <1>1, <1>2, <2>3, NodeFacts DEF Tree, Sizes, SizeOK
    <3>2. i \in -1 .. numKeys(heap[m]) - 1
      BY <2>2 DEF Index
    <3> QED
      BY <3>1, <3>2
  <2>5. <<m, i>> \in Parents(n)
    BY <2>2, <2>3, <2>4 DEF Parents, Pointers, Index
  <2>6. ASSUME NEW p \in Parents(n) PROVE p = <<m, i>>
    <3>1. /\ p[1] \in Inner(heap) /\ p[2] \in Index(heap[p[1]])
          /\ Child(heap[p[1]], p[2]) = n /\ p \in Used(heap) \X (-1 .. FANOUT)
      BY <1>3, <2>6
    <3> DEFINE x == p[1]
               y == p[2]
    <3>2. x = m /\ y = i
      <4> HIDE DEF x, y
      <4>1. /\ x \in Inner(heap) /\ y \in Index(heap[x])
            /\ Child(heap[x], y) = Child(heap[m], i)
        BY <2>2, <3>1 DEF x, y
      <4> QED
        BY <1>1, <2>1, <2>2, <4>1, SameParent
    <3> QED
      BY <3>1, <3>2
  <2>7. Parents(n) = {<<m, i>>}
    BY <2>5, <2>6
  <2> QED
    BY <2>7
<1>6. \A n \in Used(heap) : Cardinality(Parents(n)) = IF n = root THEN 0 ELSE 1
  BY <1>4, <1>5, FS_EmptySet, FS_Singleton
<1> QED
  BY <1>1, <1>6 DEF OneParent

\* Each key that is there is in one place.
LEMMA CountsRecords ==
  ASSUME NEW lev, NEW rng, TreeInv(lev, rng)
  PROVE  CountExact
<1> DEFINE S == {p \in Leaves \X (1 .. FANOUT) : p[2] <= numKeys(heap[p[1]])}
           F == [p \in S |-> heap[p[1]].entries[p[2]].key]
           P == Present(heap)
<1>1. Tree(heap, root, depth, lev, rng, NULL)
  BY DEF TreeInv
<1>2. /\ \A n \in Used(heap) : /\ heap[n] \in BtNode /\ NodeOK(heap[n], lev[n], rng[n]) /\ n # NULL
                               /\ numKeys(heap[n]) \in Nat
      /\ \A n \in Used(heap) : numKeys(heap[n]) <= FANOUT
  <2>1. \A n \in Used(heap) : heap[n] \in BtNode /\ n # NULL
    BY <1>1, UsedNodes DEF Tree
  <2>2. \A n \in Used(heap) : NodeOK(heap[n], lev[n], rng[n]) /\ SizeOK(heap, root, n, NULL)
    BY <1>1 DEF Tree, Nodes, Sizes
  <2> QED
    BY <2>1, <2>2, NodeFacts DEF SizeOK
<1>3. \A y : y \in Records(heap) <=> \E n \in Used(heap) : RecordOf(heap[n], y)
  BY <1>2, RecordsAre
<1>4. ASSUME NEW p \in S
      PROVE  /\ p = <<p[1], p[2]>> /\ p[1] \in Used(heap) /\ heap[p[1]].isLeaf
             /\ p[2] \in 1 .. numKeys(heap[p[1]])
             /\ F[p] \in rng[p[1]] /\ F[p] \in Key /\ lev[p[1]] = 0 /\ F[p] \in P
  <2>1. /\ p = <<p[1], p[2]>> /\ p[1] \in Used(heap) /\ heap[p[1]].isLeaf
        /\ p[2] \in 1 .. FANOUT /\ p[2] <= numKeys(heap[p[1]])
    BY <1>4 DEF Leaves
  <2>2. p[2] \in 1 .. numKeys(heap[p[1]])
    BY <1>2, <2>1
  <2>3. F[p] = heap[p[1]].entries[p[2]].key
    OBVIOUS
  <2>4. F[p] \in rng[p[1]] /\ lev[p[1]] = 0
    BY <1>2, <2>1, <2>2, <2>3 DEF NodeOK
  <2>5. F[p] \in Key
    BY <1>2, <2>1, <2>2, <2>3, NodeFacts
  <2>6. heap[p[1]].entries[p[2]] \in Records(heap)
    BY <1>3, <2>1, <2>2 DEF RecordOf
  <2>7. F[p] \in P
    BY <2>3, <2>6 DEF Present
  <2> QED
    BY <2>1, <2>2, <2>4, <2>5, <2>7
<1>5. F \in [S -> P]
  BY <1>4
<1>6. ASSUME NEW a \in S, NEW b \in S, F[a] = F[b] PROVE a = b
  <2>1. a[1] = b[1]
    <3> HIDE DEF S, F
    <3>1. /\ a[1] \in Used(heap) /\ F[a] \in rng[a[1]] /\ F[a] \in Key /\ lev[a[1]] = 0
          /\ b[1] \in Used(heap) /\ F[b] \in rng[b[1]] /\ lev[b[1]] = 0
      BY <1>4
    <3>2. Apart(heap, lev, rng)
      BY <1>1 DEF Tree
    <3> QED
      BY <1>6, <3>1, <3>2 DEF Apart
  <2>2. a[2] = b[2]
    <3> DEFINE nd == heap[a[1]]
    <3>1. Ascending(nd) /\ numKeys(nd) \in Nat
      BY <1>2, <1>4 DEF NodeOK
    <3>2. a[2] \in 1 .. numKeys(nd) /\ b[2] \in 1 .. numKeys(nd)
      BY <1>4, <2>1
    <3>3. nd.entries[a[2]].key = nd.entries[b[2]].key /\ nd.entries[a[2]].key \in Nat
      <4>1. F[a] = nd.entries[a[2]].key /\ F[b] = nd.entries[b[2]].key
        BY <2>1
      <4>2. F[a] \in Nat
        BY <1>4
      <4> HIDE DEF F, nd
      <4> QED
        BY <1>6, <4>1, <4>2
    <3> HIDE DEF nd
    <3>4. ~(a[2] < b[2]) /\ ~(b[2] < a[2])
      BY <3>1, <3>2, <3>3 DEF Ascending
    <3> QED
      BY <3>1, <3>2, <3>4
  <2> QED
    BY <1>4, <2>1, <2>2
<1>7. ASSUME NEW k \in P PROVE \E p \in S : F[p] = k
  <2>1. PICK x \in Records(heap) : x.key = k
    BY <1>7 DEF Present
  <2>2. PICK n \in Used(heap) : RecordOf(heap[n], x)
    BY <1>3, <2>1
  <2>3. heap[n].isLeaf /\ \E i \in 1 .. numKeys(heap[n]) : x = heap[n].entries[i]
    BY <2>2 DEF RecordOf
  <2>4. PICK i \in 1 .. numKeys(heap[n]) : x = heap[n].entries[i]
    BY <2>3
  <2>5. i \in 1 .. FANOUT /\ i <= numKeys(heap[n])
    BY <1>2
  <2>6. <<n, i>> \in S
    BY <2>3, <2>5 DEF Leaves
  <2>7. F[<<n, i>>] = k
    BY <2>1, <2>4, <2>6
  <2> QED
    BY <2>6, <2>7
<1> HIDE DEF S, F, P
<1>8. F \in Bijection(S, P)
  BY <1>5, <1>6, <1>7, Fun_IsBij
<1>9. ExistsBijection(S, P)
  BY <1>8 DEF ExistsBijection
<1>10. ExistsBijection(P, S)
  BY <1>9, Fun_ExistsBijSymmetric
<1>11. IsFiniteSet(P) /\ numRecords = Cardinality(P)
  BY DEF TreeInv, Counted, P
<1>12. Cardinality(S) = Cardinality(P)
  BY <1>10, <1>11, FS_Bijection
<1> QED
  BY <1>11, <1>12 DEF CountExact, S

-----------------------------------------------------------------------------
(* Neighbouring leaves.                                                    *)

UpperPart(R, S) == R \subseteq S /\ \A j \in R, k \in S : j <= k => k \in R
LowerPart(R, S) == R \subseteq S /\ \A j \in R, k \in S : k <= j => k \in R

\* The ranges of the last children at the end of a path, and of the first.
LEMMA SpineParts ==
  ASSUME NEW h, NEW r, NEW dep, NEW lev, NEW rng, NEW big, Tree(h, r, dep, lev, rng, big),
         NEW n \in Nat, NEW c, Hops(h, c, n), NEW m \in 1 .. n + 1
  PROVE  /\ (\A x \in m .. n : c[x].idx = lastpointer(h[c[x].node])) =>
              UpperPart(rng[c[n + 1].node], rng[c[m].node])
         /\ (\A x \in m .. n : c[x].idx = firstpointer(h[c[x].node])) =>
              LowerPart(rng[c[n + 1].node], rng[c[m].node])
<1> DEFINE R(l) == rng[c[l].node]
<1>0. Shape(h, r, dep, lev, rng) /\ Nodes(h, lev, rng) /\ Kids(h, lev, rng)
  BY DEF Tree
<1>1. ASSUME NEW l \in 1 .. n
      PROVE  /\ c[l].idx = lastpointer(h[c[l].node]) => UpperPart(R(l + 1), R(l))
             /\ c[l].idx = firstpointer(h[c[l].node]) => LowerPart(R(l + 1), R(l))
             /\ R(l) \subseteq Nat
  <2> DEFINE p == c[l].node
             nd == h[p]
             i == c[l].idx
             S == rng[p]
             k == numKeys(nd)
             Q == rng[c[l + 1].node]
  <2>1. p \in Inner(h) /\ i \in Index(nd) /\ c[l + 1].node = Child(nd, i)
    BY DEF Hops, Hop
  <2>2. Q = {key \in S : Within(nd, i, key)}
    <3>1. KidOK(h, lev, rng, p, i)
      BY <1>0, <2>1 DEF Kids
    <3> QED
      BY <2>1, <3>1 DEF KidOK
  <2>3. nd \in BtNode /\ ~nd.isLeaf /\ S \subseteq Key
    BY <1>0, <2>1, UsedNodes DEF Inner
  <2>4. k \in Nat /\ \A x \in 1 .. k : nd.entries[x].key \in Nat
    BY <2>3, NodeFacts
  <2>5. \A key \in S : key \in Nat /\ key \in Key
    BY <2>3
  <2>6. lastpointer(nd) = k - 1 /\ firstpointer(nd) = -1
    BY <2>3 DEF lastpointer, firstpointer
  <2> HIDE DEF p, nd, i, S, k, Q
  <2>7. ASSUME i = k - 1 PROVE UpperPart(Q, S)
    <3> SUFFICES ASSUME NEW x \in Q, NEW y \in S, x <= y PROVE y \in Q
      BY <2>2 DEF UpperPart
    <3>1. x \in S /\ Within(nd, i, x) /\ x \in Nat /\ y \in Nat
      BY <2>2, <2>5
    <3>3. i # -1 => nd.entries[i + 1].key \in Nat /\ nd.entries[i + 1].key <= x
      BY <2>4, <2>7, <3>1 DEF Within
    <3>4. i # -1 => nd.entries[i + 1].key <= y
      BY <3>1, <3>3
    <3>5. Within(nd, i, y)
      BY <2>7, <3>4 DEF Within, k
    <3> QED
      BY <2>2, <3>5
  <2>8. ASSUME i = -1 PROVE LowerPart(Q, S)
    <3> SUFFICES ASSUME NEW x \in Q, NEW y \in S, y <= x PROVE y \in Q
      BY <2>2 DEF LowerPart
    <3>1. x \in S /\ Within(nd, i, x) /\ x \in Nat /\ y \in Nat
      BY <2>2, <2>5
    <3>3. i # k - 1 => nd.entries[i + 2].key \in Nat /\ x < nd.entries[i + 2].key
      <4>1. i # k - 1 => i + 2 \in 1 .. k
        BY <2>4, <2>8
      <4> QED
        BY <2>4, <3>1, <4>1 DEF Within, k
    <3>4. i # k - 1 => y < nd.entries[i + 2].key
      BY <3>1, <3>3
    <3>5. Within(nd, i, y)
      BY <2>8, <3>4 DEF Within, k
    <3> QED
      BY <2>2, <3>5
  <2>9. /\ i = lastpointer(nd) => UpperPart(Q, S)
        /\ i = firstpointer(nd) => LowerPart(Q, S)
        /\ S \subseteq Nat
    BY <2>5, <2>6, <2>7, <2>8
  <2> QED
    BY <2>9 DEF i, nd, p, Q, S
<1> HIDE DEF R
<1>2. ASSUME \A x \in m .. n : c[x].idx = lastpointer(h[c[x].node])
      PROVE  UpperPart(R(n + 1), R(m))
  <2> DEFINE T == {x \in Nat : x \in m .. n + 1 /\ ~UpperPart(R(x), R(m))}
  <2>1. SUFFICES T = {}
    BY DEF T
  <2>2. SUFFICES ASSUME T # {} PROVE FALSE
    OBVIOUS
  <2>3. PICK l \in T : \A x \in T : l <= x
    BY <2>2, LeastNat
  <2>4. l # m
    BY <2>3 DEF UpperPart
  <2>5. /\ l - 1 \in 1 .. n /\ l - 1 \in m .. n /\ l - 1 \in Nat /\ l - 1 \notin T
        /\ l - 1 + 1 = l /\ l - 1 \in m .. n + 1
    BY <2>3, <2>4
  <2>6. UpperPart(R(l - 1), R(m)) /\ UpperPart(R(l - 1 + 1), R(l - 1)) /\ R(l - 1) \subseteq Nat
    BY <1>1, <1>2, <2>5
  <2>7. UpperPart(R(l), R(l - 1))
    BY <2>5, <2>6
  <2>8. UpperPart(R(l), R(m))
    <3>1. R(l) \subseteq R(l - 1) /\ R(l - 1) \subseteq R(m)
      BY <2>6, <2>7 DEF UpperPart
    <3>2. ASSUME NEW j \in R(l), NEW k \in R(m), j <= k PROVE k \in R(l)
      <4>1. j \in R(l - 1)
        BY <3>1
      <4>2. k \in R(l - 1)
        BY <2>6, <3>2, <4>1 DEF UpperPart
      <4> QED
        BY <2>7, <3>2, <4>2 DEF UpperPart
    <3> QED
      BY <3>1, <3>2 DEF UpperPart
  <2> QED
    BY <2>3, <2>8
<1>3. ASSUME \A x \in m .. n : c[x].idx = firstpointer(h[c[x].node])
      PROVE  LowerPart(R(n + 1), R(m))
  <2> DEFINE T == {x \in Nat : x \in m .. n + 1 /\ ~LowerPart(R(x), R(m))}
  <2>1. SUFFICES T = {}
    BY DEF T
  <2>2. SUFFICES ASSUME T # {} PROVE FALSE
    OBVIOUS
  <2>3. PICK l \in T : \A x \in T : l <= x
    BY <2>2, LeastNat
  <2>4. l # m
    BY <2>3 DEF LowerPart
  <2>5. /\ l - 1 \in 1 .. n /\ l - 1 \in m .. n /\ l - 1 \in Nat /\ l - 1 \notin T
        /\ l - 1 + 1 = l /\ l - 1 \in m .. n + 1
    BY <2>3, <2>4
  <2>6. LowerPart(R(l - 1), R(m)) /\ LowerPart(R(l - 1 + 1), R(l - 1)) /\ R(l - 1) \subseteq Nat
    BY <1>1, <1>3, <2>5
  <2>7. LowerPart(R(l), R(l - 1))
    BY <2>5, <2>6
  <2>8. LowerPart(R(l), R(m))
    <3>1. R(l) \subseteq R(l - 1) /\ R(l - 1) \subseteq R(m)
      BY <2>6, <2>7 DEF LowerPart
    <3>2. ASSUME NEW j \in R(l), NEW k \in R(m), k <= j PROVE k \in R(l)
      <4>1. j \in R(l - 1)
        BY <3>1
      <4>2. k \in R(l - 1)
        BY <2>6, <3>2, <4>1 DEF LowerPart
      <4> QED
        BY <2>7, <3>2, <4>2 DEF LowerPart
    <3> QED
      BY <3>1, <3>2 DEF LowerPart
  <2> QED
    BY <2>3, <2>8
<1> QED
  BY <1>2, <1>3 DEF R

\* The keys of Q come right after those of R.
NextTo(R, Q) == \A k \in Key : (\A j \in R : j < k) <=> (k \in Q \/ \A j \in Q : j < k)

LEMMA PartsNextTo ==
  ASSUME NEW S \in SUBSET Key, Convex(S), NEW A, NEW B, NEW nd \in BtNode,
         NEW i \in Int, i \in Index(nd), i + 1 \in Index(nd),
         A = {k \in S : Within(nd, i, k)}, B = {k \in S : Within(nd, i + 1, k)},
         NEW R, NEW Q, UpperPart(R, A), LowerPart(Q, B), R # {}, Q # {}
  PROVE  NextTo(R, Q)
<1> DEFINE n == numKeys(nd)
           s == nd.entries[i + 2].key
<1>1. n \in Nat /\ \A x \in 1 .. n : nd.entries[x].key \in Nat
  BY NodeFacts
<1>2. i + 2 \in 1 .. n /\ s \in Nat /\ i # n - 1 /\ i + 1 # -1 /\ i + 1 + 1 = i + 2
  BY <1>1 DEF Index
<1>3. \A k : /\ k \in A <=> /\ k \in S /\ k < s
                            /\ i # -1 => nd.entries[i + 1].key <= k
             /\ k \in B <=> /\ k \in S /\ s <= k
                            /\ i + 1 # n - 1 => k < nd.entries[i + 3].key
  BY <1>2 DEF Within
<1>4. R \subseteq A /\ Q \subseteq B /\ \A k \in S : k \in Nat /\ k \in Key
  BY DEF UpperPart, LowerPart
<1> DEFINE low == i = -1 \/ i + 1 \in 1 .. n
           up == i + 1 = n - 1 \/ i + 3 \in 1 .. n
<1>5. low /\ up
  BY <1>1, <1>2 DEF Index
<1>6. PICK a \in R, b \in Q : TRUE
  OBVIOUS
<1> HIDE DEF n, s
<1>7. ASSUME NEW j \in R PROVE j \in S /\ j \in Nat /\ j < s
  BY <1>3, <1>4
<1>8. ASSUME NEW j \in Q PROVE j \in S /\ j \in Nat /\ s <= j
  BY <1>3, <1>4
<1>9. ASSUME NEW k \in Key, \A j \in R : j < k, NEW q \in Q, k <= q PROVE k \in Q
  <2>1. k \in Nat /\ a < k
    BY <1>9
  <2>2. a \in S /\ q \in S /\ a \in Nat /\ q \in Nat /\ a <= k
    BY <1>7, <1>8, <2>1
  <2>3. k \in S
    BY <1>9, <2>2 DEF Convex
  <2>4. ASSUME k < s PROVE FALSE
    <3>1. i # -1 => nd.entries[i + 1].key \in Nat /\ nd.entries[i + 1].key <= a
      BY <1>1, <1>3, <1>4, <1>5
    <3>2. k \in A
      BY <1>3, <2>1, <2>2, <2>3, <2>4, <3>1
    <3>3. k \in R
      BY <2>2, <3>2 DEF UpperPart
    <3>4. k < k
      BY <1>9, <3>3
    <3> QED
      BY <2>1, <3>4
  <2>5. s <= k
    BY <1>2, <2>1, <2>4
  <2>6. i + 1 # n - 1 => nd.entries[i + 3].key \in Nat /\ q < nd.entries[i + 3].key
    BY <1>1, <1>3, <1>4, <1>5
  <2>7. k \in B
    BY <1>3, <1>9, <2>1, <2>2, <2>3, <2>5, <2>6
  <2> QED
    BY <1>9, <2>7 DEF LowerPart
<1>10. ASSUME NEW k \in Key, \A j \in R : j < k PROVE k \in Q \/ \A j \in Q : j < k
  BY <1>8, <1>9, <1>10
<1>11. ASSUME NEW k \in Key, k \in Q \/ \A j \in Q : j < k, NEW j \in R PROVE j < k
  <2>1. s <= k /\ k \in Nat
    <3>1. k \in Nat
      OBVIOUS
    <3>2. ASSUME \A x \in Q : x < k PROVE s <= k
      BY <1>2, <1>6, <1>8, <3>1, <3>2
    <3> QED
      BY <1>8, <1>11, <3>1, <3>2
  <2> QED
    BY <1>2, <1>7, <2>1
<1> QED
  BY <1>10, <1>11 DEF NextTo

\* After stop l path c goes to the last child each time, or to the first.
GoesLast(h, c, l, dep) == \A x \in l + 1 .. dep : c[x].idx = lastpointer(h[c[x].node])
GoesFirst(h, c, l, dep) == \A x \in l + 1 .. dep : c[x].idx = firstpointer(h[c[x].node])

\* A path that turns to the next child: c ends at the last of what is before it, d at
\* the first of what is after it.
LEMMA TurnNextTo ==
  ASSUME NEW h, NEW r, NEW dep, NEW lev, NEW rng, NEW big, Tree(h, r, dep, lev, rng, big),
         dep \in Nat, NEW c, NEW d, Hops(h, c, dep), Hops(h, d, dep),
         NEW l \in 1 .. dep, d[l].node = c[l].node, d[l].idx = c[l].idx + 1,
         GoesLast(h, c, l, dep), GoesFirst(h, d, l, dep)
  PROVE  NextTo(rng[c[dep + 1].node], rng[d[dep + 1].node])
<1> DEFINE p == c[l].node
           nd == h[p]
           i == c[l].idx
<1>1. /\ p \in Inner(h) /\ i \in Index(nd) /\ c[l + 1].node = Child(nd, i)
      /\ i + 1 \in Index(nd) /\ d[l + 1].node = Child(nd, i + 1)
  BY DEF Hops, Hop
<1>2. KidOK(h, lev, rng, p, i) /\ KidOK(h, lev, rng, p, i + 1)
  BY <1>1 DEF Tree, Kids
<1>3. /\ rng[c[l + 1].node] = {k \in rng[p] : Within(nd, i, k)}
      /\ rng[d[l + 1].node] = {k \in rng[p] : Within(nd, i + 1, k)}
  BY <1>1, <1>2 DEF KidOK
<1>4. p \in Used(h)
  BY <1>1 DEF Inner
<1>5. nd \in BtNode /\ rng[p] \in SUBSET Key /\ Convex(rng[p])
  BY <1>4, UsedNodes DEF Tree, Nodes, NodeOK
<1>6. /\ UpperPart(rng[c[dep + 1].node], rng[c[l + 1].node])
      /\ LowerPart(rng[d[dep + 1].node], rng[d[l + 1].node])
  <2>1. l + 1 \in 1 .. dep + 1
    OBVIOUS
  <2> QED
    BY <2>1, SpineParts DEF GoesLast, GoesFirst
<1>7. c[dep + 1].node \in Used(h) /\ d[dep + 1].node \in Used(h)
  <2>1. dep \in 1 .. dep
    OBVIOUS
  <2>2. Kids(h, lev, rng)
    BY DEF Tree
  <2>3. Hop(h, c, dep) /\ Hop(h, d, dep)
    BY <2>1 DEF Hops
  <2>4. \A n \in Inner(h) : \A x \in Index(h[n]) : Child(h[n], x) \in Used(h)
    BY <2>2 DEF Kids, KidOK
  <2> QED
    BY <2>3, <2>4 DEF Hop
<1>8. rng[c[dep + 1].node] # {} /\ rng[d[dep + 1].node] # {}
  BY <1>7, RangeNonempty
<1>9. i \in Int
  BY <1>1, <1>5, NodeFacts DEF Index
<1> HIDE DEF p, nd, i
<1> QED
  BY <1>1, <1>3, <1>5, <1>6, <1>8, <1>9, PartsNextTo

-----------------------------------------------------------------------------
(* Records, and the keys from a stop at a leaf on.                         *)

LEMMA RecordFacts ==
  ASSUME NEW h, NEW r, NEW dep, NEW lev, NEW rng, NEW big, Tree(h, r, dep, lev, rng, big)
  PROVE  /\ \A x \in Records(h) : x.key \in Key /\ x.key \in Present(h) /\ x.ptr \in Record
         /\ \A x, y \in Records(h) : x.key = y.key => x = y
         /\ Present(h) \subseteq Key
<1>1. \A n \in Used(h) : h[n] \in BtNode /\ NodeOK(h[n], lev[n], rng[n])
  BY UsedNodes DEF Tree, Nodes
<1>2. \A x : x \in Records(h) <=> \E n \in Used(h) : RecordOf(h[n], x)
  BY <1>1, RecordsAre
<1>3. ASSUME NEW n \in Used(h), NEW x, RecordOf(h[n], x)
      PROVE  /\ x.key \in Key /\ x.ptr \in Record /\ x.key \in rng[n] /\ lev[n] = 0
             /\ \E i \in 1 .. numKeys(h[n]) : x = h[n].entries[i]
  <2>1. PICK i \in 1 .. numKeys(h[n]) : h[n].isLeaf /\ x = h[n].entries[i]
    BY <1>3 DEF RecordOf
  <2>2. x.key \in Key
    BY <1>1, <2>1, NodeFacts
  <2> QED
    BY <1>1, <2>1, <2>2 DEF NodeOK
<1>4. \A x \in Records(h) : x.key \in Key /\ x.key \in Present(h) /\ x.ptr \in Record
  BY <1>2, <1>3 DEF Present
<1>5. ASSUME NEW x \in Records(h), NEW y \in Records(h), x.key = y.key PROVE x = y
  <2>1. PICK n \in Used(h) : RecordOf(h[n], x)
    BY <1>2
  <2>2. PICK m \in Used(h) : RecordOf(h[m], y)
    BY <1>2
  <2>3. /\ x.key \in Key /\ x.key \in rng[n] /\ lev[n] = 0
        /\ x.key \in rng[m] /\ lev[m] = 0
    BY <1>3, <1>5, <2>1, <2>2
  <2>4. n = m
    BY <2>3 DEF Tree, Apart
  <2>5. PICK i \in 1 .. numKeys(h[n]) : x = h[n].entries[i]
    BY <1>3, <2>1
  <2>6. PICK j \in 1 .. numKeys(h[n]) : y = h[n].entries[j]
    BY <1>3, <2>2, <2>4
  <2>7. Ascending(h[n]) /\ numKeys(h[n]) \in Nat
    BY <1>1, NodeFacts DEF NodeOK
  <2>8. ~(i < j) /\ ~(j < i)
    <3>1. x.key \in Nat /\ y.key \in Nat
      BY <1>5, <2>3
    <3> QED
      BY <1>5, <2>5, <2>6, <2>7, <3>1 DEF Ascending
  <2>9. i = j
    BY <2>7, <2>8
  <2> QED
    BY <2>5, <2>6, <2>9
<1> QED
  BY <1>4, <1>5 DEF Present

LEMMA LeafKeys ==
  ASSUME NEW h, NEW r, NEW dep, NEW lev, NEW rng, NEW big, Tree(h, r, dep, lev, rng, big),
         NEW n \in Used(h), h[n].isLeaf
  PROVE  /\ \A i \in 1 .. numKeys(h[n]) :
              /\ h[n].entries[i] \in Records(h) /\ h[n].entries[i].key \in Present(h)
              /\ h[n].entries[i].key \in rng[n]
         /\ \A k \in Present(h) : k \in rng[n] =>
              \E i \in 1 .. numKeys(h[n]) : h[n].entries[i].key = k
<1>1. \A m \in Used(h) : h[m] \in BtNode /\ NodeOK(h[m], lev[m], rng[m])
  BY UsedNodes DEF Tree, Nodes
<1>2. \A x : x \in Records(h) <=> \E m \in Used(h) : RecordOf(h[m], x)
  BY <1>1, RecordsAre
<1>3. ASSUME NEW i \in 1 .. numKeys(h[n])
      PROVE  /\ h[n].entries[i] \in Records(h) /\ h[n].entries[i].key \in Present(h)
             /\ h[n].entries[i].key \in rng[n]
  <2>1. h[n].entries[i] \in Records(h)
    BY <1>2 DEF RecordOf
  <2> QED
    BY <1>1, <2>1 DEF Present, NodeOK
<1>4. ASSUME NEW k \in Present(h), k \in rng[n]
      PROVE  \E i \in 1 .. numKeys(h[n]) : h[n].entries[i].key = k
  <2>1. PICK x \in Records(h) : x.key = k
    BY DEF Present
  <2>2. PICK m \in Used(h) : RecordOf(h[m], x)
    BY <1>2
  <2>3. PICK i \in 1 .. numKeys(h[m]) : h[m].isLeaf /\ x = h[m].entries[i]
    BY <2>2 DEF RecordOf
  <2>4. k \in Key /\ k \in rng[m] /\ lev[m] = 0 /\ lev[n] = 0
    BY <1>1, <2>1, <2>3, RecordFacts DEF NodeOK
  <2>5. m = n
    BY <1>4, <2>4 DEF Tree, Apart
  <2> QED
    BY <2>1, <2>3, <2>5
<1> QED
  BY <1>3, <1>4

\* A stop at a leaf, before one of its entries or at its end.
LeafStop(h, a) ==
  a.node \in Used(h) /\ h[a.node].isLeaf /\ a.idx \in 0 .. numKeys(h[a.node])

\* The keys that are there from stop a on.
Rest(h, rng, a) ==
  {k \in Present(h) :
     IF k \in rng[a.node]
     THEN \E x \in a.idx + 1 .. numKeys(h[a.node]) : h[a.node].entries[x].key = k
     ELSE \A j \in rng[a.node] : j < k}

LEMMA StopFacts ==
  ASSUME NEW h, NEW r, NEW dep, NEW lev, NEW rng, NEW big, Tree(h, r, dep, lev, rng, big),
         NEW a, LeafStop(h, a)
  PROVE  LET nd == h[a.node] IN
         /\ nd \in BtNode /\ Ascending(nd) /\ numKeys(nd) \in Nat /\ a.idx \in Nat
         /\ rng[a.node] \subseteq Key /\ rng[a.node] # {} /\ Convex(rng[a.node])
         /\ (nd.First <=> Lowest(rng[a.node])) /\ (nd.Last <=> Highest(rng[a.node]))
         /\ \A i \in 1 .. numKeys(nd) :
              nd.entries[i].key \in Present(h) /\ nd.entries[i].key \in rng[a.node]
         /\ \A k \in Present(h) : k \in rng[a.node] =>
              \E i \in 1 .. numKeys(nd) : nd.entries[i].key = k
<1>1. a.node \in Used(h) /\ h[a.node].isLeaf /\ a.idx \in 0 .. numKeys(h[a.node])
  BY DEF LeafStop
<1>2. h[a.node] \in BtNode /\ NodeOK(h[a.node], lev[a.node], rng[a.node])
  BY <1>1, UsedNodes DEF Tree, Nodes
<1>3. numKeys(h[a.node]) \in Nat
  BY <1>2, NodeFacts
<1> QED
  BY <1>1, <1>2, <1>3, LeafKeys, RangeNonempty DEF NodeOK

\* What is there after a key that is left is left too.
LEMMA RestUp ==
  ASSUME NEW h, NEW r, NEW dep, NEW lev, NEW rng, NEW big, Tree(h, r, dep, lev, rng, big),
         NEW a, LeafStop(h, a), NEW k \in Rest(h, rng, a), NEW j \in Present(h), k <= j
  PROVE  j \in Rest(h, rng, a)
<1> DEFINE nd == h[a.node]
           R == rng[a.node]
<1>1. /\ Ascending(nd) /\ numKeys(nd) \in Nat /\ a.idx \in Nat
      /\ R \subseteq Key /\ Convex(R) /\ nd \in BtNode
      /\ \A q \in Present(h) : q \in R => \E i \in 1 .. numKeys(nd) : nd.entries[i].key = q
  BY StopFacts
<1>2. Present(h) \subseteq Key /\ k \in Present(h)
  BY RecordFacts DEF Rest
<1>3. k \in Nat /\ j \in Nat
  BY <1>2
<1>4. \A i \in 1 .. numKeys(nd) : nd.entries[i].key \in Nat
  BY <1>1, NodeFacts
<1>5. CASE k \in R /\ j \in R
  <2>1. PICK x \in a.idx + 1 .. numKeys(nd) : nd.entries[x].key = k
    BY <1>5 DEF Rest
  <2>2. PICK i \in 1 .. numKeys(nd) : nd.entries[i].key = j
    BY <1>1, <1>5
  <2>3. ~(i < x)
    BY <1>1, <1>3, <2>1, <2>2 DEF Ascending
  <2>4. i \in a.idx + 1 .. numKeys(nd)
    BY <1>1, <2>3
  <2> QED
    BY <1>5, <2>2, <2>4 DEF Rest
<1>6. CASE j \notin R
  <2>1. ASSUME NEW q \in R PROVE q < j
    <3>1. q \in Nat /\ q \in Key
      BY <1>1
    <3>2. CASE k \in R
      <4>1. ~(j <= q)
        BY <1>1, <1>2, <1>6, <3>2 DEF Convex
      <4> QED
        BY <1>3, <3>1, <4>1
    <3>3. CASE k \notin R
      <4>1. q < k
        BY <3>3 DEF Rest
      <4> QED
        BY <1>3, <3>1, <4>1
    <3> QED
      BY <3>2, <3>3
  <2> QED
    BY <1>6, <2>1 DEF Rest
<1>7. CASE k \notin R /\ j \in R
  <2>1. j < k
    BY <1>7 DEF Rest
  <2> QED
    BY <1>3, <2>1
<1> QED
  BY <1>5, <1>6, <1>7

\* Before an entry: its key is the least of those that are left.
LEMMA RestHere ==
  ASSUME NEW h, NEW r, NEW dep, NEW lev, NEW rng, NEW big, Tree(h, r, dep, lev, rng, big),
         NEW a, LeafStop(h, a), a.idx < numKeys(h[a.node]),
         NEW b, b.node = a.node, b.idx = a.idx + 1
  PROVE  LET k == KeyAt(h[a.node], a.idx) IN
         /\ k \in Rest(h, rng, a) /\ k \notin Rest(h, rng, b)
         /\ \A j \in Rest(h, rng, a) : k <= j
         /\ Rest(h, rng, a) = Rest(h, rng, b) \cup {k}
<1> DEFINE nd == h[a.node]
           R == rng[a.node]
           k == KeyAt(nd, a.idx)
           n == numKeys(nd)
           i == a.idx
           A == Rest(h, rng, a)
           B == Rest(h, rng, b)
<1>1. /\ Ascending(nd) /\ n \in Nat /\ i \in Nat /\ R \subseteq Key /\ nd \in BtNode
      /\ \A x \in 1 .. n : nd.entries[x].key \in Present(h) /\ nd.entries[x].key \in R
  BY StopFacts
<1>2. \A x \in 1 .. n : nd.entries[x].key \in Nat
  BY <1>1, NodeFacts
<1>3. i + 1 \in i + 1 .. n /\ i + 1 \in 1 .. n
  BY <1>1
<1>4. nd.entries[i + 1].key = k /\ k \in Present(h) /\ k \in R /\ k \in Nat
  BY <1>1, <1>2, <1>3 DEF KeyAt
<1>5. k \in A
  BY <1>3, <1>4 DEF Rest
<1>6. \A x \in i + 1 .. n : x # i + 1 => k < nd.entries[x].key
  BY <1>1, <1>3, <1>4 DEF Ascending
<1>7. /\ \A j : j \in A <=> /\ j \in Present(h)
                            /\ IF j \in R THEN \E x \in i + 1 .. n : nd.entries[x].key = j
                               ELSE \A q \in R : q < j
      /\ \A j : j \in B <=> /\ j \in Present(h)
                            /\ IF j \in R THEN \E x \in i + 1 + 1 .. n : nd.entries[x].key = j
                               ELSE \A q \in R : q < j
  BY DEF Rest
<1> HIDE DEF nd, R, k, n, i, A, B
<1>8. k \notin B
  <2>1. \A x \in i + 1 + 1 .. n : x \in i + 1 .. n /\ x # i + 1
    BY <1>1
  <2>2. \A x \in i + 1 + 1 .. n : k < nd.entries[x].key
    BY <1>6, <2>1
  <2>3. \A x \in i + 1 + 1 .. n : k # nd.entries[x].key
    BY <1>4, <2>2
  <2> QED
    BY <1>4, <1>7, <2>3
<1>9. ASSUME NEW j \in A PROVE k <= j
  <2>1. CASE j \in R
    <3>1. PICK x \in i + 1 .. n : nd.entries[x].key = j
      BY <1>7, <2>1
    <3>2. j \in Nat
      BY <1>1, <1>2, <3>1
    <3> QED
      BY <1>4, <1>6, <3>1, <3>2
  <2>2. CASE j \notin R
    <3>1. k < j
      BY <1>4, <1>7, <2>2
    <3>2. j \in Nat
      BY <1>7, RecordFacts
    <3> QED
      BY <1>4, <3>1, <3>2
  <2> QED
    BY <2>1, <2>2
<1>10. ASSUME NEW j PROVE j \in A <=> j \in B \/ j = k
  <2>1. \A x : x \in i + 1 .. n <=> x \in i + 1 + 1 .. n \/ x = i + 1
    BY <1>1, <1>3
  <2>2. (\E x \in i + 1 .. n : nd.entries[x].key = j) <=>
        (\E x \in i + 1 + 1 .. n : nd.entries[x].key = j) \/ k = j
    BY <1>4, <2>1
  <2> QED
    BY <1>4, <1>5, <1>7, <2>2
<1>11. A = B \cup {k}
  BY <1>10
<1> QED
  BY <1>5, <1>8, <1>9, <1>11 DEF A, B, k, nd, i

\* At the end of a leaf, at its start, at the ends of the tree, and at the place of key k.
LEMMA RestAtEnd ==
  ASSUME NEW h, NEW r, NEW dep, NEW lev, NEW rng, NEW big, Tree(h, r, dep, lev, rng, big),
         NEW a, LeafStop(h, a)
  PROVE  /\ a.idx = numKeys(h[a.node]) =>
              Rest(h, rng, a) = {k \in Present(h) : \A j \in rng[a.node] : j < k}
         /\ a.idx = numKeys(h[a.node]) /\ h[a.node].Last => Rest(h, rng, a) = {}
         /\ a.idx = 0 =>
              Rest(h, rng, a) = {k \in Present(h) :
                                   k \in rng[a.node] \/ \A j \in rng[a.node] : j < k}
         /\ a.idx = 0 /\ h[a.node].First => Rest(h, rng, a) = Present(h)
<1> DEFINE nd == h[a.node]
           R == rng[a.node]
           n == numKeys(nd)
           i == a.idx
           A == Rest(h, rng, a)
           P == Present(h)
<1>1. /\ n \in Nat /\ i \in Nat /\ R \subseteq Key /\ R # {}
      /\ (nd.First <=> Lowest(R)) /\ (nd.Last <=> Highest(R))
      /\ \A k \in P : k \in R => \E x \in 1 .. n : nd.entries[x].key = k
      /\ P \subseteq Key
  BY StopFacts, RecordFacts
<1>2. \A j : j \in A <=> /\ j \in P
                         /\ IF j \in R THEN \E x \in i + 1 .. n : nd.entries[x].key = j
                            ELSE \A q \in R : q < j
  BY DEF Rest
<1> HIDE DEF nd, R, n, i, A, P
<1>3. \A j \in R : j \in Nat /\ j \in Key /\ ~(j < j)
  BY <1>1
<1>4. ASSUME i = n PROVE A = {k \in P : \A j \in R : j < k}
  <2>1. i + 1 .. n = {}
    BY <1>1, <1>4
  <2>2. \A j : j \in A <=> j \in P /\ \A q \in R : q < j
    BY <1>2, <1>3, <2>1
  <2> QED
    BY <2>2
<1>5. ASSUME i = n, nd.Last PROVE A = {}
  <2>1. SUFFICES ASSUME NEW k \in A PROVE FALSE
    OBVIOUS
  <2>2. k \in P /\ k \in Key /\ \A j \in R : j < k
    BY <1>1, <1>4, <1>5
  <2>3. PICK j \in R : TRUE
    BY <1>1
  <2>4. j <= k
    BY <1>3, <2>2
  <2>5. k \in R
    BY <1>1, <1>5, <2>2, <2>4 DEF Highest
  <2> QED
    BY <1>3, <2>2, <2>5
<1>6. ASSUME i = 0 PROVE A = {k \in P : k \in R \/ \A j \in R : j < k}
  <2>1. i + 1 .. n = 1 .. n
    BY <1>1, <1>6
  <2>2. \A j \in P : j \in R => \E x \in i + 1 .. n : nd.entries[x].key = j
    BY <1>1, <2>1
  <2> QED
    BY <1>2, <2>2
<1>7. ASSUME i = 0, nd.First PROVE A = P
  <2>1. ASSUME NEW k \in P, k \notin R, NEW j \in R PROVE j < k
    <3>1. k \in Key /\ ~(k <= j)
      BY <1>1, <1>7, <2>1 DEF Lowest
    <3> QED
      BY <1>3, <3>1
  <2> QED
    BY <1>6, <1>7, <2>1
<1> QED
  BY <1>4, <1>5, <1>6, <1>7 DEF nd, R, n, i, A, P

LEMMA RestSearched ==
  ASSUME NEW h, NEW r, NEW dep, NEW lev, NEW rng, NEW big, Tree(h, r, dep, lev, rng, big),
         NEW a, LeafStop(h, a), NEW k \in Key, k \in rng[a.node],
         a.idx = findRecordIndex(h[a.node], k)
  PROVE  Rest(h, rng, a) = {j \in Present(h) : k <= j}
<1> DEFINE nd == h[a.node]
           R == rng[a.node]
           n == numKeys(nd)
           f == findRecordIndex(nd, k)
           P == Present(h)
<1>1. /\ n \in Nat /\ Ascending(nd) /\ nd \in BtNode
      /\ R \subseteq Key /\ Convex(R) /\ P \subseteq Key
      /\ \A j \in P : j \in R => \E x \in 1 .. n : nd.entries[x].key = j
  BY StopFacts, RecordFacts
<1>2. f \in 0 .. n /\ \A x \in 1 .. n : nd.entries[x].key < k <=> x <= f
  BY <1>1, RecordIndex
<1>3. \A x \in 1 .. n : nd.entries[x].key \in Nat
  BY <1>1, NodeFacts
<1>4. ASSUME NEW j \in P, j \in R
      PROVE  (\E x \in f + 1 .. n : nd.entries[x].key = j) <=> k <= j
  <2>0. j \in Nat /\ k \in Nat
    BY <1>1
  <2>1. PICK x \in 1 .. n : nd.entries[x].key = j
    BY <1>1, <1>4
  <2> HIDE DEF f, n
  <2>2. ASSUME NEW y \in f + 1 .. n, nd.entries[y].key = j PROVE k <= j
    <3>1. y \in 1 .. n /\ ~(y <= f)
      BY <1>1, <1>2
    <3> QED
      BY <1>2, <2>0, <2>2, <3>1
  <2>3. ASSUME k <= j PROVE x \in f + 1 .. n
    <3>1. ~(x <= f)
      BY <1>2, <2>0, <2>1, <2>3
    <3> QED
      BY <1>1, <1>2, <3>1
  <2> QED
    BY <2>1, <2>2, <2>3
<1>5. ASSUME NEW j \in P, j \notin R PROVE (\A q \in R : q < j) <=> k <= j
  <2>0. j \in Nat /\ k \in Nat /\ j \in Key
    BY <1>1
  <2>1. ASSUME \A q \in R : q < j PROVE k <= j
    <3>1. k < j
      BY <2>1
    <3> QED
      BY <2>0, <3>1
  <2>2. ASSUME k <= j, NEW q \in R PROVE q < j
    <3>1. q \in Nat
      BY <1>1
    <3>2. ~(j <= q)
      BY <1>1, <1>5, <2>0, <2>2 DEF Convex
    <3> QED
      BY <2>0, <3>1, <3>2
  <2> QED
    BY <2>1, <2>2
<1>6. \A j : j \in Rest(h, rng, a) <=>
                /\ j \in P
                /\ IF j \in R THEN \E x \in f + 1 .. n : nd.entries[x].key = j
                   ELSE \A q \in R : q < j
  BY DEF Rest
<1> HIDE DEF nd, R, n, f, P
<1>7. \A j : j \in Rest(h, rng, a) <=> j \in P /\ k <= j
  BY <1>4, <1>5, <1>6
<1> QED
  BY <1>7 DEF P

\* From a leaf to the next nothing is passed.
LEMMA RestNextTo ==
  ASSUME NEW h, NEW r, NEW dep, NEW lev, NEW rng, NEW big, Tree(h, r, dep, lev, rng, big),
         NEW a, LeafStop(h, a), a.idx = numKeys(h[a.node]),
         NEW b, LeafStop(h, b), b.idx = 0, NextTo(rng[a.node], rng[b.node])
  PROVE  Rest(h, rng, a) = Rest(h, rng, b)
<1>1. Rest(h, rng, a) = {k \in Present(h) : \A j \in rng[a.node] : j < k}
  BY RestAtEnd
<1>2. Rest(h, rng, b) = {k \in Present(h) : k \in rng[b.node] \/ \A j \in rng[b.node] : j < k}
  BY RestAtEnd
<1>3. Present(h) \subseteq Key
  BY RecordFacts
<1> QED
  BY <1>1, <1>2, <1>3 DEF NextTo

-----------------------------------------------------------------------------
(* The moves of a cursor, and the keys that are left.                      *)

LEMMA LastStop ==
  ASSUME NEW h, NEW r, NEW dep, NEW lev, NEW rng, NEW big, Tree(h, r, dep, lev, rng, big),
         NEW c, Complete(h, r, dep, c)
  PROVE  /\ LeafStop(h, c[dep + 1]) /\ dep \in Nat
         /\ Last(c) = c[dep + 1] /\ entryIndex(c) = c[dep + 1].idx
         /\ currNode(h, c) = h[c[dep + 1].node]
         /\ firstpointer(h[c[dep + 1].node]) = 0
         /\ lastpointer(h[c[dep + 1].node]) = numKeys(h[c[dep + 1].node])
         /\ c[dep + 1].idx \in Nat /\ numKeys(h[c[dep + 1].node]) \in Nat
         /\ c[dep + 1].idx <= numKeys(h[c[dep + 1].node])
<1>1. Last(c) = c[dep + 1] /\ dep \in Nat
  BY CompleteFacts
<1>2. LeafStop(h, c[dep + 1])
  BY DEF Complete, LeafStop
<1>3. c[dep + 1].idx \in 0 .. numKeys(h[c[dep + 1].node]) /\ h[c[dep + 1].node].isLeaf
  BY <1>2 DEF LeafStop
<1>4. numKeys(h[c[dep + 1].node]) \in Nat
  BY <1>2, StopFacts
<1> QED
  BY <1>1, <1>2, <1>3, <1>4 DEF entryIndex, currNode, firstpointer, lastpointer

\* Path d follows c to stop l, turns there to index i, and goes on by idx.
TurnsTo(h, r, dep, c, l, i, idx, d) ==
  /\ Complete(h, r, dep, d) /\ d[l].node = c[l].node /\ d[l].idx = i
  /\ \A x \in l + 1 .. dep + 1 : d[x].idx = idx[d[x].node] /\ d[x].node \in Used(h)
  /\ d[dep + 1].node # r

LEMMA TurnGoesOn ==
  ASSUME NEW h, NEW r, NEW dep, NEW lev, NEW rng, NEW big, Tree(h, r, dep, lev, rng, big),
         NEW c, Complete(h, r, dep, c), NEW l \in 1 .. dep, NEW i \in Index(h[c[l].node]),
         NEW idx, IndexOK(h, idx)
  PROVE  TurnsTo(h, r, dep, c, l, i, idx, Down(h, Child(h[c[l].node], i), idx, Turned(c, l, i)))
<1> DEFINE t == Turned(c, l, i)
           k == Child(h[c[l].node], i)
           d == Down(h, k, idx, t)
<1>1. LeadsTo(h, r, t, k)
  BY TurnLeads
<1>2. /\ dep \in Nat /\ c \in Seq(Stop) /\ Len(c) = dep + 1 /\ c[1].node = r
      /\ ~h[c[1].node].isLeaf
  <2>1. /\ dep \in Nat /\ c \in Seq(Stop) /\ Len(c) = dep + 1 /\ c[1].node = r
    BY CompleteFacts
  <2>2. 1 \in 1 .. dep + 1 /\ 1 # dep + 1
    BY <2>1
  <2> QED
    <3>1. \A x \in 1 .. dep + 1 : h[c[x].node].isLeaf <=> x = dep + 1
      BY CompleteFacts
    <3> QED
      BY <2>1, <2>2, <3>1
<1>3. Len(t) = l /\ t[l].node = c[l].node /\ t[l].idx = i
  <2>1. i \in Int
    <3>1. l \in 1 .. dep + 1
      BY <1>2
    <3>2. numKeys(h[c[l].node]) \in Nat
      BY <3>1, CompleteFacts, NodeFacts
    <3> QED
      BY <3>2 DEF Index
  <2>2. l \in 1 .. Len(c)
    BY <1>2
  <2> QED
    BY <1>2, <2>1, <2>2, TurnedIs
<1> HIDE DEF t, k
<1>4. Complete(h, r, dep, d) /\ GoesOn(d, t, k, idx)
  BY <1>1, DownComplete
<1> HIDE DEF d
<1>5. Len(d) = dep + 1 /\ \A x \in 1 .. dep + 1 : d[x].node \in Used(h)
  BY <1>4, CompleteFacts
<1>6. d[l] = t[l] /\ \A x \in l + 1 .. dep + 1 : d[x].idx = idx[d[x].node]
  BY <1>2, <1>3, <1>4, <1>5 DEF GoesOn
<1>7. d[dep + 1].node # r
  BY <1>2, <1>4 DEF Complete
<1>8. \A x \in l + 1 .. dep + 1 : d[x].node \in Used(h)
  BY <1>2, <1>5
<1> QED
  BY <1>3, <1>4, <1>6, <1>7, <1>8 DEF TurnsTo, d, t, k

LEMMA NextIs ==
  ASSUME NEW h, NEW r, NEW dep, NEW lev, NEW rng, NEW big, Tree(h, r, dep, lev, rng, big),
         NEW c, Complete(h, r, dep, c), isValid(h, c), NEW d, d = moveToNext(h, c)
  PROVE  /\ c[dep + 1].idx < numKeys(h[c[dep + 1].node]) =>
              d[dep + 1].node = c[dep + 1].node /\ d[dep + 1].idx = c[dep + 1].idx + 1
         /\ c[dep + 1].idx = numKeys(h[c[dep + 1].node]) =>
              /\ d[dep + 1].idx = 0 /\ d[dep + 1].node # r
              /\ NextTo(rng[c[dep + 1].node], rng[d[dep + 1].node])
<1>1. /\ dep \in Nat /\ lastpointer(h[c[dep + 1].node]) = numKeys(h[c[dep + 1].node])
      /\ c[dep + 1].idx \in Nat /\ numKeys(h[c[dep + 1].node]) \in Nat
  BY LastStop
<1>2. PICK l : TurnsRight(h, dep, c, l, d)
  BY NextTurns
<1>3. /\ l \in 1 .. dep + 1 /\ c[l].idx # lastpointer(h[c[l].node])
      /\ \A x \in l + 1 .. dep + 1 : c[x].idx = lastpointer(h[c[x].node])
      /\ d = IF l = dep + 1 THEN Turned(c, l, c[l].idx + 1)
             ELSE moveToFirst(h, Child(h[c[l].node], c[l].idx + 1), Turned(c, l, c[l].idx + 1))
  BY <1>2 DEF TurnsRight
<1>4. c \in Seq(Stop) /\ Len(c) = dep + 1 /\ Hops(h, c, dep) /\ c[l].idx \in Int
  BY <1>3, CompleteFacts
<1>5. CASE c[dep + 1].idx < numKeys(h[c[dep + 1].node])
  <2>1. l = dep + 1
    <3>1. dep + 1 \notin l + 1 .. dep + 1
      BY <1>1, <1>3, <1>5
    <3> QED
      BY <1>1, <1>3, <3>1
  <2>2. d = Turned(c, l, c[l].idx + 1)
    BY <1>3, <2>1
  <2> DEFINE j == c[l].idx + 1
  <2>3. l \in 1 .. Len(c) /\ j \in Int /\ c \in Seq(Stop)
    BY <1>3, <1>4
  <2> HIDE DEF j
  <2>4. Turned(c, l, j)[l].node = c[l].node /\ Turned(c, l, j)[l].idx = j
    BY <2>3, TurnedIs
  <2>5. d[l].node = c[l].node /\ d[l].idx = j
    BY <2>2, <2>4 DEF j
  <2> QED
    BY <1>1, <1>4, <1>5, <2>1, <2>5 DEF j
<1>6. CASE c[dep + 1].idx = numKeys(h[c[dep + 1].node])
  <2>1. l \in 1 .. dep /\ l # dep + 1
    <3>1. l # dep + 1
      BY <1>1, <1>3, <1>6
    <3> QED
      BY <1>1, <1>3, <3>1
  <2> DEFINE i == c[l].idx + 1
  <2>2. i \in Index(h[c[l].node])
    <3>1. c[l].idx \in Index(h[c[l].node]) /\ c[l].node \in Inner(h)
      BY <1>4, <2>1 DEF Hops, Hop
    <3>2. h[c[l].node] \in BtNode
      BY <1>3, CompleteFacts
    <3>3. lastpointer(h[c[l].node]) = numKeys(h[c[l].node]) - 1
      BY <3>1 DEF Inner, lastpointer
    <3>4. numKeys(h[c[l].node]) \in Nat
      BY <3>2, NodeFacts
    <3> QED
      BY <1>3, <1>4, <3>1, <3>3, <3>4 DEF Index
  <2>3. d = Down(h, Child(h[c[l].node], i), FirstIndex(h), Turned(c, l, i))
    BY <1>3, <2>1, MovesDown
  <2>4. IndexOK(h, FirstIndex(h))
    BY IndexesOK
  <2> HIDE DEF i
  <2>a. TurnsTo(h, r, dep, c, l, i, FirstIndex(h), d)
    <3> DEFINE idx == FirstIndex(h)
    <3> HIDE DEF idx
    <3>1. IndexOK(h, idx)
      BY <2>4 DEF idx
    <3>2. TurnsTo(h, r, dep, c, l, i, idx, Down(h, Child(h[c[l].node], i), idx, Turned(c, l, i)))
      BY <2>1, <2>2, <3>1, TurnGoesOn
    <3> QED
      BY <2>3, <3>2 DEF idx
  <2>5. /\ Complete(h, r, dep, d) /\ d[l].node = c[l].node /\ d[l].idx = i
        /\ \A x \in l + 1 .. dep + 1 : d[x].idx = FirstIndex(h)[d[x].node] /\ d[x].node \in Used(h)
        /\ d[dep + 1].node # r
    BY <2>a DEF TurnsTo
  <2>6. \A x \in l + 1 .. dep + 1 : d[x].idx = firstpointer(h[d[x].node])
    BY <2>5 DEF FirstIndex
  <2>7. Hops(h, d, dep)
    BY <2>5, CompleteFacts
  <2>8. firstpointer(h[d[dep + 1].node]) = 0
    BY <2>5, LastStop
  <2>9. d[dep + 1].idx = 0
    BY <1>1, <2>1, <2>6, <2>8
  <2>10. GoesLast(h, c, l, dep) /\ GoesFirst(h, d, l, dep)
    <3>1. \A x \in l + 1 .. dep : x \in l + 1 .. dep + 1
      BY <1>1, <2>1
    <3> QED
      BY <1>3, <2>6, <3>1 DEF GoesLast, GoesFirst
  <2>11. d[l].idx = c[l].idx + 1
    BY <2>5 DEF i
  <2>12. NextTo(rng[c[dep + 1].node], rng[d[dep + 1].node])
    BY <1>1, <1>4, <2>1, <2>5, <2>7, <2>10, <2>11, TurnNextTo
  <2> QED
    BY <1>1, <1>6, <2>5, <2>9, <2>12
<1> QED
  BY <1>5, <1>6

LEMMA PrevIs ==
  ASSUME NEW h, NEW r, NEW dep, NEW lev, NEW rng, NEW big, Tree(h, r, dep, lev, rng, big),
         NEW c, Complete(h, r, dep, c), ~isFirst(h, c), NEW d, d = moveToPrev(h, c)
  PROVE  /\ c[dep + 1].idx # 0 =>
              d[dep + 1].node = c[dep + 1].node /\ c[dep + 1].idx = d[dep + 1].idx + 1
         /\ c[dep + 1].idx = 0 =>
              /\ d[dep + 1].idx = numKeys(h[d[dep + 1].node]) /\ d[dep + 1].node # r
              /\ NextTo(rng[d[dep + 1].node], rng[c[dep + 1].node])
<1>1. /\ dep \in Nat /\ firstpointer(h[c[dep + 1].node]) = 0
      /\ c[dep + 1].idx \in Nat /\ numKeys(h[c[dep + 1].node]) \in Nat
  BY LastStop
<1>2. PICK l : TurnsLeft(h, dep, c, l, d)
  BY PrevTurns
<1>3. /\ l \in 1 .. dep + 1 /\ c[l].idx # firstpointer(h[c[l].node])
      /\ \A x \in l + 1 .. dep + 1 : c[x].idx = firstpointer(h[c[x].node])
      /\ d = IF l = dep + 1 THEN Turned(c, l, c[l].idx - 1)
             ELSE moveToLast(h, Child(h[c[l].node], c[l].idx - 1), Turned(c, l, c[l].idx - 1))
  BY <1>2 DEF TurnsLeft
<1>4. c \in Seq(Stop) /\ Len(c) = dep + 1 /\ Hops(h, c, dep) /\ c[l].idx \in Int
  BY <1>3, CompleteFacts
<1>5. CASE c[dep + 1].idx # 0
  <2>1. l = dep + 1
    <3>1. dep + 1 \notin l + 1 .. dep + 1
      BY <1>1, <1>3, <1>5
    <3> QED
      BY <1>1, <1>3, <3>1
  <2>2. d = Turned(c, l, c[l].idx - 1)
    BY <1>3, <2>1
  <2> DEFINE j == c[l].idx - 1
  <2>3. l \in 1 .. Len(c) /\ j \in Int /\ c \in Seq(Stop)
    BY <1>3, <1>4
  <2> HIDE DEF j
  <2>4. Turned(c, l, j)[l].node = c[l].node /\ Turned(c, l, j)[l].idx = j
    BY <2>3, TurnedIs
  <2>5. d[l].node = c[l].node /\ d[l].idx = j
    BY <2>2, <2>4 DEF j
  <2> QED
    BY <1>1, <1>4, <1>5, <2>1, <2>5 DEF j
<1>6. CASE c[dep + 1].idx = 0
  <2>1. l \in 1 .. dep /\ l # dep + 1
    <3>1. l # dep + 1
      BY <1>1, <1>3, <1>6
    <3> QED
      BY <1>1, <1>3, <3>1
  <2> DEFINE i == c[l].idx - 1
  <2>2. i \in Index(h[c[l].node])
    <3>1. c[l].idx \in Index(h[c[l].node]) /\ c[l].node \in Inner(h)
      BY <1>4, <2>1 DEF Hops, Hop
    <3>2. h[c[l].node] \in BtNode
      BY <1>3, CompleteFacts
    <3>3. firstpointer(h[c[l].node]) = -1
      BY <3>1 DEF Inner, firstpointer
    <3>4. numKeys(h[c[l].node]) \in Nat
      BY <3>2, NodeFacts
    <3> QED
      BY <1>3, <1>4, <3>1, <3>3, <3>4 DEF Index
  <2>3. d = Down(h, Child(h[c[l].node], i), LastIndex(h), Turned(c, l, i))
    BY <1>3, <2>1, MovesDown
  <2>4. IndexOK(h, LastIndex(h))
    BY IndexesOK
  <2> HIDE DEF i
  <2>a. TurnsTo(h, r, dep, c, l, i, LastIndex(h), d)
    <3> DEFINE idx == LastIndex(h)
    <3> HIDE DEF idx
    <3>1. IndexOK(h, idx)
      BY <2>4 DEF idx
    <3>2. TurnsTo(h, r, dep, c, l, i, idx, Down(h, Child(h[c[l].node], i), idx, Turned(c, l, i)))
      BY <2>1, <2>2, <3>1, TurnGoesOn
    <3> QED
      BY <2>3, <3>2 DEF idx
  <2>5. /\ Complete(h, r, dep, d) /\ d[l].node = c[l].node /\ d[l].idx = i
        /\ \A x \in l + 1 .. dep + 1 : d[x].idx = LastIndex(h)[d[x].node] /\ d[x].node \in Used(h)
        /\ d[dep + 1].node # r
    BY <2>a DEF TurnsTo
  <2>6. \A x \in l + 1 .. dep + 1 : d[x].idx = lastpointer(h[d[x].node])
    BY <2>5 DEF LastIndex
  <2>7. Hops(h, d, dep)
    BY <2>5, CompleteFacts
  <2>8. lastpointer(h[d[dep + 1].node]) = numKeys(h[d[dep + 1].node])
    BY <2>5, LastStop
  <2>9. d[dep + 1].idx = numKeys(h[d[dep + 1].node])
    BY <1>1, <2>1, <2>6, <2>8
  <2>10. GoesFirst(h, c, l, dep) /\ GoesLast(h, d, l, dep)
    <3>1. \A x \in l + 1 .. dep : x \in l + 1 .. dep + 1
      BY <1>1, <2>1
    <3> QED
      BY <1>3, <2>6, <3>1 DEF GoesLast, GoesFirst
  <2>11. c[l].idx = d[l].idx + 1
    BY <1>4, <2>5 DEF i
  <2>12. NextTo(rng[d[dep + 1].node], rng[c[dep + 1].node])
    BY <1>1, <1>4, <2>1, <2>5, <2>7, <2>10, <2>11, TurnNextTo
  <2> QED
    BY <1>1, <1>6, <2>5, <2>9, <2>12
<1> QED
  BY <1>5, <1>6

\* The keys from the cursor on.
Left(h, rng, dep, c) == Rest(h, rng, c[dep + 1])

IsLeast(k, A) == k \in A /\ \A j \in A : k <= j
IsGreatest(k, A) == k \in A /\ \A j \in A : j <= k

\* The cursor is before an entry, with the least key that is left.
AtEntry(h, A, c) ==
  LET nd == currNode(h, c)
  IN  /\ entryIndex(c) + 1 \in 1 .. numKeys(nd) /\ IsLeast(KeyAt(nd, entryIndex(c)), A)
      /\ nd.entries[entryIndex(c) + 1] \in Records(h)

LEMMA AtEntryIs ==
  ASSUME NEW h, NEW r, NEW dep, NEW lev, NEW rng, NEW big, Tree(h, r, dep, lev, rng, big),
         NEW c, Complete(h, r, dep, c), c[dep + 1].idx < numKeys(h[c[dep + 1].node])
  PROVE  /\ AtEntry(h, Left(h, rng, dep, c), c) /\ isValid(h, c)
         /\ Complete(h, r, dep, moveToNext(h, c))
         /\ Left(h, rng, dep, moveToNext(h, c)) =
              Left(h, rng, dep, c) \ {KeyAt(currNode(h, c), entryIndex(c))}
<1> DEFINE a == c[dep + 1]
           d == moveToNext(h, c)
           b == d[dep + 1]
           nd == h[a.node]
           k == KeyAt(nd, a.idx)
<1>1. /\ LeafStop(h, a) /\ dep \in Nat /\ entryIndex(c) = a.idx /\ currNode(h, c) = nd
      /\ a.idx \in Nat /\ numKeys(nd) \in Nat
  BY LastStop
<1>2. isValid(h, c)
  BY <1>1 DEF isValid
<1>3. b.node = a.node /\ b.idx = a.idx + 1
  BY <1>2, NextIs
<1>4. Complete(h, r, dep, d)
  BY MovesComplete
<1> HIDE DEF a, b, d
<1>5. a.idx < numKeys(nd)
  BY DEF a
<1>6. /\ k \in Rest(h, rng, a) /\ k \notin Rest(h, rng, b)
      /\ \A j \in Rest(h, rng, a) : k <= j
      /\ Rest(h, rng, a) = Rest(h, rng, b) \cup {k}
  BY <1>1, <1>3, <1>5, RestHere
<1>7. nd.entries[a.idx + 1] \in Records(h) /\ a.idx + 1 \in 1 .. numKeys(nd)
  <2>1. a.idx + 1 \in 1 .. numKeys(nd)
    BY <1>1, <1>5
  <2>2. a.node \in Used(h) /\ nd.isLeaf
    BY <1>1 DEF LeafStop
  <2> QED
    BY <2>1, <2>2, LeafKeys
<1>8. AtEntry(h, Rest(h, rng, a), c)
  BY <1>1, <1>6, <1>7 DEF AtEntry, IsLeast
<1> QED
  BY <1>1, <1>2, <1>4, <1>6, <1>8 DEF Left, a, b, d

\* The end of a leaf but the last and the start of the next.
LEMMA NextLeaf ==
  ASSUME NEW h, NEW r, NEW dep, NEW lev, NEW rng, NEW big, Tree(h, r, dep, lev, rng, big),
         NEW c, Complete(h, r, dep, c), c[dep + 1].idx = numKeys(h[c[dep + 1].node]),
         isValid(h, c), NEW d, d = moveToNext(h, c)
  PROVE  /\ Complete(h, r, dep, d) /\ d[dep + 1].idx < numKeys(h[d[dep + 1].node])
         /\ Left(h, rng, dep, d) = Left(h, rng, dep, c)
<1>1. Complete(h, r, dep, d)
  BY MovesComplete
<1>2. LeafStop(h, c[dep + 1]) /\ LeafStop(h, d[dep + 1])
  BY <1>1, LastStop
<1>3. /\ d[dep + 1].idx = 0 /\ d[dep + 1].node # r
      /\ NextTo(rng[c[dep + 1].node], rng[d[dep + 1].node])
  BY NextIs
<1>4. numKeys(h[d[dep + 1].node]) >= 1 /\ numKeys(h[d[dep + 1].node]) \in Nat
  <2>1. d[dep + 1].node \in Used(h)
    BY <1>2 DEF LeafStop
  <2> QED
    BY <1>1, <1>3, <2>1, RangeNonempty, LastStop
<1>5. Left(h, rng, dep, c) = Left(h, rng, dep, d)
  BY <1>2, <1>3, RestNextTo DEF Left
<1> QED
  BY <1>1, <1>3, <1>4, <1>5

LEMMA ValidIs ==
  ASSUME NEW h, NEW r, NEW dep, NEW lev, NEW rng, NEW big, Tree(h, r, dep, lev, rng, big),
         NEW c, Complete(h, r, dep, c)
  PROVE  isValid(h, c) <=> Left(h, rng, dep, c) # {}
<1>1. /\ LeafStop(h, c[dep + 1]) /\ entryIndex(c) = c[dep + 1].idx
      /\ currNode(h, c) = h[c[dep + 1].node]
      /\ c[dep + 1].idx \in Nat /\ numKeys(h[c[dep + 1].node]) \in Nat
      /\ c[dep + 1].idx <= numKeys(h[c[dep + 1].node])
  BY LastStop
<1>2. CASE c[dep + 1].idx < numKeys(h[c[dep + 1].node])
  BY <1>2, AtEntryIs DEF AtEntry, IsLeast
<1>3. CASE ~isValid(h, c)
  <2>1. c[dep + 1].idx = numKeys(h[c[dep + 1].node]) /\ h[c[dep + 1].node].Last
    BY <1>1, <1>3 DEF isValid
  <2> QED
    BY <1>1, <1>3, <2>1, RestAtEnd DEF Left
<1>4. CASE isValid(h, c) /\ c[dep + 1].idx = numKeys(h[c[dep + 1].node])
  <2> DEFINE d == moveToNext(h, c)
  <2>1. /\ Complete(h, r, dep, d) /\ d[dep + 1].idx < numKeys(h[d[dep + 1].node])
        /\ Left(h, rng, dep, d) = Left(h, rng, dep, c)
    BY <1>4, NextLeaf
  <2> HIDE DEF d
  <2>2. Left(h, rng, dep, d) # {}
    BY <2>1, AtEntryIs DEF AtEntry, IsLeast
  <2> QED
    BY <1>4, <2>1, <2>2
<1> QED
  BY <1>1, <1>2, <1>3, <1>4

LEMMA SettleIs ==
  ASSUME NEW h, NEW r, NEW dep, NEW lev, NEW rng, NEW big, Tree(h, r, dep, lev, rng, big),
         NEW c, Complete(h, r, dep, c)
  PROVE  LET d == Settle(h, c) IN
         /\ Complete(h, r, dep, d) /\ Left(h, rng, dep, d) = Left(h, rng, dep, c)
         /\ Left(h, rng, dep, c) # {} =>
              AtEntry(h, Left(h, rng, dep, c), d) /\ d[dep + 1].idx < numKeys(h[d[dep + 1].node])
         /\ Left(h, rng, dep, c) = {} => d = c
<1>1. /\ entryIndex(c) = c[dep + 1].idx /\ currNode(h, c) = h[c[dep + 1].node]
      /\ c[dep + 1].idx \in Nat /\ numKeys(h[c[dep + 1].node]) \in Nat
      /\ c[dep + 1].idx <= numKeys(h[c[dep + 1].node])
  BY LastStop
<1>2. isValid(h, c) <=> Left(h, rng, dep, c) # {}
  BY ValidIs
<1> DEFINE d == Settle(h, c)
<1>3. CASE c[dep + 1].idx # numKeys(h[c[dep + 1].node])
  <2>1. d = c
    BY <1>1, <1>3 DEF Settle
  <2>2. c[dep + 1].idx < numKeys(h[c[dep + 1].node])
    BY <1>1, <1>3
  <2>3. AtEntry(h, Left(h, rng, dep, c), c)
    BY <2>2, AtEntryIs
  <2> QED
    BY <2>1, <2>2, <2>3
<1>4. CASE c[dep + 1].idx = numKeys(h[c[dep + 1].node])
  <2>1. d = moveToNext(h, c)
    BY <1>1, <1>4 DEF Settle
  <2>2. CASE ~isValid(h, c)
    <3>1. d = c
      BY <2>1, <2>2 DEF moveToNext
    <3> QED
      BY <1>2, <2>2, <3>1
  <2>3. CASE isValid(h, c)
    <3> HIDE DEF d
    <3>1. /\ Complete(h, r, dep, d) /\ d[dep + 1].idx < numKeys(h[d[dep + 1].node])
          /\ Left(h, rng, dep, d) = Left(h, rng, dep, c)
      BY <1>4, <2>1, <2>3, NextLeaf
    <3>2. AtEntry(h, Left(h, rng, dep, d), d)
      BY <3>1, AtEntryIs
    <3>3. AtEntry(h, Left(h, rng, dep, c), d)
      BY <3>1, <3>2
    <3> QED
      BY <1>2, <2>3, <3>1, <3>3 DEF d
  <2> QED
    BY <2>2, <2>3
<1> QED
  BY <1>3, <1>4

\* AfterNext() passes one key, if there is one.
LEMMA AfterNextIs ==
  ASSUME NEW h, NEW r, NEW dep, NEW lev, NEW rng, NEW big, Tree(h, r, dep, lev, rng, big),
         NEW c, Complete(h, r, dep, c)
  PROVE  /\ Left(h, rng, dep, c) = {} => Left(h, rng, dep, AfterNext(h, c)) = {}
         /\ Left(h, rng, dep, c) # {} =>
              \E k : /\ IsLeast(k, Left(h, rng, dep, c))
                     /\ Left(h, rng, dep, AfterNext(h, c)) = Left(h, rng, dep, c) \ {k}
<1> DEFINE d == Settle(h, c)
           A == Left(h, rng, dep, c)
<1>1. /\ Complete(h, r, dep, d) /\ Left(h, rng, dep, d) = A
      /\ A # {} => AtEntry(h, A, d) /\ d[dep + 1].idx < numKeys(h[d[dep + 1].node])
      /\ A = {} => d = c
  BY SettleIs
<1>2. isValid(h, c) <=> A # {}
  BY ValidIs
<1> HIDE DEF d
<1>3. AfterNext(h, c) = moveToNext(h, d)
  BY DEF AfterNext, d
<1>4. CASE A = {}
  <2>1. moveToNext(h, d) = c
    BY <1>1, <1>2, <1>4 DEF moveToNext
  <2> QED
    BY <1>3, <1>4, <2>1
<1>5. CASE A # {}
  <2> DEFINE k == KeyAt(currNode(h, d), entryIndex(d))
  <2>1. Left(h, rng, dep, moveToNext(h, d)) = A \ {k}
    BY <1>1, <1>5, AtEntryIs
  <2>2. IsLeast(k, A)
    BY <1>1, <1>5 DEF AtEntry
  <2> QED
    BY <1>3, <1>5, <2>1, <2>2
<1> QED
  BY <1>4, <1>5

\* One key more is left, the greatest of those before.
OneMore(h, A, B) == \E k : IsGreatest(k, Present(h) \ A) /\ B = A \cup {k} /\ IsLeast(k, B)

LEMMA BackOne ==
  ASSUME NEW h, NEW r, NEW dep, NEW lev, NEW rng, NEW big, Tree(h, r, dep, lev, rng, big),
         NEW c, Complete(h, r, dep, c), c[dep + 1].idx # 0, NEW d, d = moveToPrev(h, c)
  PROVE  /\ ~isFirst(h, c) /\ Complete(h, r, dep, d)
         /\ OneMore(h, Left(h, rng, dep, c), Left(h, rng, dep, d))
<1> DEFINE a == c[dep + 1]
           b == d[dep + 1]
           nd == h[b.node]
           k == KeyAt(nd, b.idx)
           A == Rest(h, rng, a)
           B == Rest(h, rng, b)
<1>1. entryIndex(c) = a.idx /\ LeafStop(h, a) /\ dep \in Nat
  BY LastStop
<1>2. ~isFirst(h, c)
  BY <1>1 DEF isFirst
<1>3. b.node = a.node /\ a.idx = b.idx + 1
  BY <1>2, PrevIs
<1>4. Complete(h, r, dep, d)
  BY MovesComplete
<1>5. LeafStop(h, b) /\ b.idx \in Nat
  BY <1>4, LastStop
<1>6. b.idx < numKeys(nd)
  <2>1. a.idx \in Nat /\ numKeys(h[a.node]) \in Nat /\ a.idx <= numKeys(h[a.node])
    BY LastStop
  <2> QED
    BY <1>3, <1>5, <2>1
<1> HIDE DEF a, b
<1>7. /\ k \in B /\ k \notin A /\ (\A j \in B : k <= j) /\ B = A \cup {k}
  BY <1>3, <1>5, <1>6, RestHere
<1>8. k \in Present(h) /\ Present(h) \subseteq Nat
  BY <1>7, RecordFacts DEF Rest
<1>9. ASSUME NEW j \in Present(h), j \notin A PROVE j <= k
  <2>1. SUFFICES ASSUME ~(j <= k) PROVE FALSE
    OBVIOUS
  <2>2. k <= j
    BY <1>8, <2>1
  <2>3. j \in B
    BY <1>5, <1>7, <2>2, RestUp
  <2> QED
    BY <1>7, <1>8, <1>9, <2>1, <2>3
<1>10. OneMore(h, A, B)
  <2> HIDE DEF k, A, B
  <2> QED
    BY <1>7, <1>8, <1>9 DEF OneMore, IsGreatest, IsLeast
<1> QED
  BY <1>2, <1>4, <1>10 DEF Left, a, b

LEMMA PrevLeaf ==
  ASSUME NEW h, NEW r, NEW dep, NEW lev, NEW rng, NEW big, Tree(h, r, dep, lev, rng, big),
         NEW c, Complete(h, r, dep, c), c[dep + 1].idx = 0,
         ~isFirst(h, c), NEW d, d = moveToPrev(h, c)
  PROVE  /\ Complete(h, r, dep, d) /\ d[dep + 1].idx # 0
         /\ Left(h, rng, dep, d) = Left(h, rng, dep, c)
<1>1. Complete(h, r, dep, d)
  BY MovesComplete
<1>2. LeafStop(h, c[dep + 1]) /\ LeafStop(h, d[dep + 1])
  BY <1>1, LastStop
<1>3. /\ d[dep + 1].idx = numKeys(h[d[dep + 1].node]) /\ d[dep + 1].node # r
      /\ NextTo(rng[d[dep + 1].node], rng[c[dep + 1].node])
  BY PrevIs
<1>4. numKeys(h[d[dep + 1].node]) >= 1 /\ numKeys(h[d[dep + 1].node]) \in Nat
  <2>1. d[dep + 1].node \in Used(h)
    BY <1>2 DEF LeafStop
  <2> QED
    BY <1>1, <1>3, <2>1, RangeNonempty, LastStop
<1>5. Left(h, rng, dep, c) = Left(h, rng, dep, d)
  BY <1>2, <1>3, RestNextTo DEF Left
<1> QED
  BY <1>1, <1>3, <1>4, <1>5

\* AfterPrev() goes back by one key, if there is one.
LEMMA AfterPrevIs ==
  ASSUME NEW h, NEW r, NEW dep, NEW lev, NEW rng, NEW big, Tree(h, r, dep, lev, rng, big),
         NEW c, Complete(h, r, dep, c)
  PROVE  /\ isFirst(h, c) <=> Left(h, rng, dep, c) = Present(h)
         /\ isFirst(h, c) => Left(h, rng, dep, AfterPrev(h, c)) = Present(h)
         /\ ~isFirst(h, c) => OneMore(h, Left(h, rng, dep, c), Left(h, rng, dep, AfterPrev(h, c)))
<1> DEFINE A == Left(h, rng, dep, c)
           d == IF entryIndex(c) = 0 THEN moveToPrev(h, c) ELSE c
           B == Left(h, rng, dep, moveToPrev(h, d))
<1>1. /\ entryIndex(c) = c[dep + 1].idx /\ currNode(h, c) = h[c[dep + 1].node]
      /\ LeafStop(h, c[dep + 1])
  BY LastStop
<1>2. AfterPrev(h, c) = moveToPrev(h, d)
  BY DEF AfterPrev
<1>3. ASSUME ~isFirst(h, c) PROVE OneMore(h, A, B)
  <2>1. Complete(h, r, dep, d) /\ d[dep + 1].idx # 0 /\ Left(h, rng, dep, d) = A
    <3>1. CASE c[dep + 1].idx = 0
      <4>1. d = moveToPrev(h, c)
        BY <1>1, <3>1
      <4> HIDE DEF d
      <4> QED
        BY <1>3, <3>1, <4>1, PrevLeaf
    <3>2. CASE c[dep + 1].idx # 0
      BY <1>1, <3>2
    <3> QED
      BY <3>1, <3>2
  <2> HIDE DEF d
  <2> QED
    BY <2>1, BackOne
<1>4. ASSUME isFirst(h, c) PROVE A = Present(h) /\ B = Present(h)
  <2>1. c[dep + 1].idx = 0 /\ h[c[dep + 1].node].First
    BY <1>1, <1>4 DEF isFirst
  <2>2. A = Present(h)
    BY <1>1, <2>1, RestAtEnd DEF Left
  <2>3. moveToPrev(h, c) = c
    BY <1>4 DEF moveToPrev
  <2>4. d = c
    BY <2>3
  <2> QED
    BY <2>2, <2>3, <2>4
<1>5. OneMore(h, A, B) => A # Present(h)
  BY DEF OneMore, IsGreatest
<1> HIDE DEF A, B, d
<1>6. B = Left(h, rng, dep, AfterPrev(h, c))
  BY <1>2 DEF B
<1> QED
  BY <1>3, <1>4, <1>5, <1>6 DEF A

\* The first position, and that of key k.
LEMMA MovedIs ==
  ASSUME NEW h, NEW r, NEW dep, NEW lev, NEW rng, NEW big, Tree(h, r, dep, lev, rng, big)
  PROVE  /\ Complete(h, r, dep, moveToFirst(h, r, <<>>))
         /\ Left(h, rng, dep, moveToFirst(h, r, <<>>)) = Present(h)
         /\ \A c, k : k \in Key /\ SearchPath(h, r, dep, rng, c, k) =>
              Complete(h, r, dep, c) /\ Left(h, rng, dep, c) = {j \in Present(h) : k <= j}
<1>1. ASSUME NEW c, NEW k \in Key, SearchPath(h, r, dep, rng, c, k)
      PROVE  Complete(h, r, dep, c) /\ Left(h, rng, dep, c) = {j \in Present(h) : k <= j}
  <2>1. /\ Complete(h, r, dep, c) /\ k \in rng[c[dep + 1].node]
        /\ c[dep + 1].idx = findRecordIndex(h[c[dep + 1].node], k)
    BY <1>1 DEF SearchPath
  <2>2. LeafStop(h, c[dep + 1])
    BY <2>1, LastStop
  <2> QED
    BY <2>1, <2>2, RestSearched DEF Left
<1> DEFINE d == moveToFirst(h, r, <<>>)
           e == <<>>
<1>2. LeadsTo(h, r, e, r) /\ Len(e) = 0
  BY DEF LeadsTo, Tree, Shape
<1> HIDE DEF e
<1>3. Complete(h, r, dep, Down(h, r, FirstIndex(h), e)) /\ GoesOn(Down(h, r, FirstIndex(h), e), e, r, FirstIndex(h))
  BY <1>2, IndexesOK, DownComplete
<1>4. d = Down(h, r, FirstIndex(h), e)
  BY MovesDown DEF e
<1> HIDE DEF d
<1>5. Complete(h, r, dep, d) /\ GoesOn(d, e, r, FirstIndex(h))
  BY <1>3, <1>4
<1>6. /\ Len(d) = dep + 1 /\ dep \in Nat /\ d[1].node = r /\ Hops(h, d, dep)
      /\ \A l \in 1 .. dep + 1 : d[l].node \in Used(h)
  BY <1>5, CompleteFacts
<1>7. \A l \in 1 .. dep + 1 : d[l].idx = FirstIndex(h)[d[l].node]
  BY <1>2, <1>5, <1>6 DEF GoesOn
<1>8. \A l \in 1 .. dep + 1 : d[l].idx = firstpointer(h[d[l].node])
  BY <1>6, <1>7 DEF FirstIndex
<1>9. Lowest(rng[d[dep + 1].node])
  <2>1. \A l \in 1 .. dep : d[l].idx = firstpointer(h[d[l].node])
    BY <1>6, <1>8
  <2>2. \A l \in 1 .. dep + 1 : Lowest(rng[d[l].node])
    BY <1>6, <2>1, SpineRanges
  <2> QED
    BY <1>6, <2>2
<1>10. LeafStop(h, d[dep + 1]) /\ firstpointer(h[d[dep + 1].node]) = 0
  BY <1>5, LastStop
<1>11. d[dep + 1].idx = 0 /\ h[d[dep + 1].node].First
  <2>1. h[d[dep + 1].node].First <=> Lowest(rng[d[dep + 1].node])
    BY <1>10, StopFacts
  <2> QED
    BY <1>6, <1>8, <1>9, <1>10, <2>1
<1>12. Left(h, rng, dep, d) = Present(h)
  BY <1>10, <1>11, RestAtEnd DEF Left
<1> QED
  BY <1>1, <1>5, <1>12 DEF d

-----------------------------------------------------------------------------
(* The sorted map.                                                         *)

PosOf(h, c) ==
  IF c = NULL THEN NULL
  ELSE LET at == Settle(h, c)
       IN  IF isValid(h, at) THEN KeyAt(currNode(h, at), entryIndex(at)) ELSE END

MapOf(h) == [k \in Key |-> IF \E e \in Records(h) : e.key = k
                           THEN (CHOOSE e \in Records(h) : e.key = k).ptr
                           ELSE NULL]

LEMMA StateIs ==
  /\ Pos = PosOf(heap, cursor) /\ Pos' = PosOf(heap', cursor')
  /\ Map = MapOf(heap) /\ Map' = MapOf(heap')
BY DEF Pos, PosOf, Map, MapOf

LEMMA LeastIs ==
  ASSUME NEW A \in SUBSET Key
  PROVE  /\ A = {} => Sorted!Least(A) = END
         /\ A # {} => IsLeast(Sorted!Least(A), A)
         /\ \A k : IsLeast(k, A) => Sorted!Least(A) = k
<1>1. A # {} => \E k \in A : \A j \in A : k <= j
  BY LeastNat
<1>2. A = {} => Sorted!Least(A) = END
  BY DEF Sorted!Least
<1>3. A # {} => IsLeast(Sorted!Least(A), A)
  BY <1>1 DEF Sorted!Least, IsLeast
<1>4. ASSUME NEW k, IsLeast(k, A) PROVE Sorted!Least(A) = k
  <2> DEFINE m == Sorted!Least(A)
  <2>1. IsLeast(m, A)
    BY <1>3, <1>4 DEF IsLeast
  <2> HIDE DEF m
  <2>2. m <= k /\ k <= m /\ m \in Nat /\ k \in Nat
    BY <1>4, <2>1 DEF IsLeast
  <2>3. m = k
    BY <2>2
  <2> QED
    BY <2>3 DEF m
<1> QED
  BY <1>2, <1>3, <1>4

LEMMA GreatestIs ==
  ASSUME NEW A \in SUBSET Key, NEW none
  PROVE  /\ A = {} => Sorted!Greatest(A, none) = none
         /\ \A k : IsGreatest(k, A) => Sorted!Greatest(A, none) = k
<1>1. A = {} => Sorted!Greatest(A, none) = none
  BY DEF Sorted!Greatest
<1>2. ASSUME NEW k, IsGreatest(k, A) PROVE Sorted!Greatest(A, none) = k
  <2> DEFINE m == Sorted!Greatest(A, none)
  <2>1. m \in A /\ \A j \in A : j <= m
    BY <1>2 DEF Sorted!Greatest, IsGreatest
  <2> HIDE DEF m
  <2>2. m <= k /\ k <= m /\ m \in Nat /\ k \in Nat
    BY <1>2, <2>1 DEF IsGreatest
  <2>3. m = k
    BY <2>2
  <2> QED
    BY <2>3 DEF m
<1> QED
  BY <1>1, <1>2

LEMMA LeftKeys ==
  ASSUME NEW h, NEW r, NEW dep, NEW lev, NEW rng, NEW big, Tree(h, r, dep, lev, rng, big), NEW c
  PROVE  Left(h, rng, dep, c) \subseteq Present(h) /\ Left(h, rng, dep, c) \in SUBSET Key
         /\ Present(h) \in SUBSET Key
BY RecordFacts DEF Left, Rest

\* The cursor stands at the least key that is left.
LEMMA PosIs ==
  ASSUME NEW h, NEW r, NEW dep, NEW lev, NEW rng, NEW big, Tree(h, r, dep, lev, rng, big),
         NEW c, Complete(h, r, dep, c)
  PROVE  /\ c # NULL /\ PosOf(h, c) # NULL
         /\ PosOf(h, c) = Sorted!Least(Left(h, rng, dep, c))
         /\ PosOf(h, c) = END <=> Left(h, rng, dep, c) = {}
         /\ Left(h, rng, dep, c) # {} => IsLeast(PosOf(h, c), Left(h, rng, dep, c)) /\ PosOf(h, c) \in Key
<1> DEFINE A == Left(h, rng, dep, c)
           at == Settle(h, c)
<1>1. c # NULL
  BY CompleteFacts, PathAssumption DEF Stop
<1>2. /\ A # {} => AtEntry(h, A, at) /\ at[dep + 1].idx < numKeys(h[at[dep + 1].node])
      /\ A = {} => at = c
      /\ Complete(h, r, dep, at)
  BY SettleIs
<1>3. A \in SUBSET Key
  BY LeftKeys
<1>4. isValid(h, c) <=> A # {}
  BY ValidIs
<1>5. CASE A = {}
  <2>1. PosOf(h, c) = END
    BY <1>1, <1>2, <1>4, <1>5 DEF PosOf
  <2> QED
    BY <1>1, <1>5, <2>1, LeastIs, EndAssumption
<1>6. CASE A # {}
  <2>1. isValid(h, at)
    <3> HIDE DEF at
    <3> QED
      BY <1>2, <1>6, AtEntryIs
  <2>2. PosOf(h, c) = KeyAt(currNode(h, at), entryIndex(at))
    BY <1>1, <2>1 DEF PosOf
  <2>3. IsLeast(PosOf(h, c), A)
    BY <1>2, <1>6, <2>2 DEF AtEntry
  <2>4. PosOf(h, c) \in Key
    BY <1>3, <2>3 DEF IsLeast
  <2> HIDE DEF A
  <2>5. PosOf(h, c) = Sorted!Least(A)
    BY <1>3, <2>3, LeastIs
  <2> QED
    BY <1>1, <1>6, <2>3, <2>4, <2>5, EndAssumption DEF A
<1> QED
  BY <1>5, <1>6

\* The map has the record of each key that is there, and no other.
LEMMA MapIs ==
  ASSUME NEW h, NEW r, NEW dep, NEW lev, NEW rng, NEW big, Tree(h, r, dep, lev, rng, big)
  PROVE  /\ MapOf(h) \in [Key -> Record \cup {NULL}]
         /\ \A x \in Records(h) : MapOf(h)[x.key] = x.ptr
         /\ \A k \in Key : MapOf(h)[k] # NULL <=> k \in Present(h)
<1>1. /\ \A x \in Records(h) : x.key \in Key /\ x.key \in Present(h) /\ x.ptr \in Record
      /\ \A x, y \in Records(h) : x.key = y.key => x = y
  BY RecordFacts
<1>2. ASSUME NEW x \in Records(h) PROVE MapOf(h)[x.key] = x.ptr
  <2>1. x.key \in Key
    BY <1>1
  <2> DEFINE e == CHOOSE y \in Records(h) : y.key = x.key
  <2>2. e \in Records(h) /\ e.key = x.key
    OBVIOUS
  <2>3. e = x
    BY <1>1, <2>2
  <2>4. MapOf(h)[x.key] = e.ptr
    BY <2>1 DEF MapOf
  <2> QED
    BY <2>3, <2>4
<1>3. ASSUME NEW k \in Key
      PROVE  MapOf(h)[k] \in Record \cup {NULL} /\ (MapOf(h)[k] # NULL <=> k \in Present(h))
  <2>1. CASE \E x \in Records(h) : x.key = k
    <3>1. PICK x \in Records(h) : x.key = k
      BY <2>1
    <3>2. MapOf(h)[k] = x.ptr /\ x.ptr \in Record /\ k \in Present(h)
      BY <1>1, <1>2, <3>1
    <3> QED
      BY <3>2, NullAssumption
  <2>2. CASE ~\E x \in Records(h) : x.key = k
    <3>1. MapOf(h)[k] = NULL
      BY <2>2 DEF MapOf
    <3>2. k \notin Present(h)
      BY <2>2 DEF Present
    <3> QED
      BY <3>1, <3>2
  <2> QED
    BY <2>1, <2>2
<1>4. MapOf(h) = [k \in Key |-> MapOf(h)[k]]
  BY DEF MapOf
<1>5. MapOf(h) \in [Key -> Record \cup {NULL}]
  BY <1>3, <1>4
<1> QED
  BY <1>2, <1>3, <1>5

LEMMA SortedPresent ==
  ASSUME NEW lev, NEW rng, TreeInv(lev, rng)
  PROVE  Sorted!Present = Present(heap)
<1>1. Tree(heap, root, depth, lev, rng, NULL)
  BY DEF TreeInv
<1>2. \A k \in Key : MapOf(heap)[k] # NULL <=> k \in Present(heap)
  BY <1>1, MapIs
<1>3. Present(heap) \in SUBSET Key
  BY <1>1, LeftKeys
<1>4. Sorted!Present = {k \in Key : Map[k] # NULL}
  BY DEF Sorted!Present
<1> QED
  BY <1>2, <1>3, <1>4, StateIs

LEMMA LeftUp ==
  ASSUME NEW h, NEW r, NEW dep, NEW lev, NEW rng, NEW big, Tree(h, r, dep, lev, rng, big),
         NEW c, Complete(h, r, dep, c),
         NEW k \in Left(h, rng, dep, c), NEW j \in Present(h), k <= j
  PROVE  j \in Left(h, rng, dep, c)
<1> DEFINE a == c[dep + 1]
<1>1. LeafStop(h, a)
  BY LastStop
<1>2. k \in Rest(h, rng, a)
  BY DEF Left
<1> HIDE DEF a
<1>3. j \in Rest(h, rng, a)
  BY <1>1, <1>2, RestUp
<1> QED
  BY <1>3 DEF Left, a

\* A step forward is one to the next key, and a step back one to the key before.
LEMMA SortedNext ==
  ASSUME NEW lev, NEW rng, TreeInv(lev, rng), NEW c, Complete(heap, root, depth, c)
  PROVE  /\ PosOf(heap, AfterNext(heap, c)) = Sorted!NextKey(PosOf(heap, c))
         /\ isValid(heap, AfterNext(heap, c)) <=> PosOf(heap, AfterNext(heap, c)) # END
<1> DEFINE A == Left(heap, rng, depth, c)
           d == AfterNext(heap, c)
           B == Left(heap, rng, depth, d)
           P == Present(heap)
           p == PosOf(heap, c)
<1>1. Tree(heap, root, depth, lev, rng, NULL)
  BY DEF TreeInv
<1>2. Complete(heap, root, depth, d)
  BY <1>1, AfterComplete
<1>3. A \subseteq P /\ A \in SUBSET Key /\ B \in SUBSET Key /\ P \in SUBSET Key
  BY <1>1, LeftKeys
<1>4. PosOf(heap, d) = Sorted!Least(B) /\ (PosOf(heap, d) = END <=> B = {})
  BY <1>1, <1>2, PosIs
<1>5. isValid(heap, d) <=> B # {}
  BY <1>1, <1>2, ValidIs
<1>6. Sorted!NextKey(p) = IF p = END THEN END ELSE Sorted!Least({j \in P : j > p})
  BY SortedPresent DEF Sorted!NextKey
<1>7. CASE A = {}
  <2>1. p = END
    BY <1>1, <1>7, PosIs
  <2>2. B = {}
    BY <1>1, <1>7, AfterNextIs
  <2> QED
    BY <1>4, <1>5, <1>6, <2>1, <2>2
<1>8. CASE A # {}
  <2>1. PICK k : IsLeast(k, A) /\ B = A \ {k}
    BY <1>1, <1>8, AfterNextIs
  <2>2. p = k /\ p # END
    <3>1. p = Sorted!Least(A) /\ p # END
      BY <1>1, <1>8, PosIs
    <3>2. Sorted!Least(A) = k
      BY <1>3, <2>1, LeastIs
    <3> QED
      BY <3>1, <3>2
  <2>3. ASSUME NEW j PROVE j \in B <=> j \in P /\ j > k
    <3>1. ASSUME j \in B PROVE j \in P /\ j > k
      <4>1. j \in A /\ j # k /\ k \in A /\ k <= j
        BY <2>1, <3>1 DEF IsLeast
      <4>2. j \in Nat /\ k \in Nat
        BY <1>3, <4>1
      <4> QED
        BY <1>3, <4>1, <4>2
    <3>2. ASSUME j \in P, j > k PROVE j \in B
      <4>1. k \in A /\ k \in Nat /\ j \in Nat
        BY <1>3, <2>1, <3>2 DEF IsLeast
      <4>2. k <= j /\ j # k
        BY <3>2, <4>1
      <4>3. j \in A
        BY <1>1, <3>2, <4>1, <4>2, LeftUp
      <4> QED
        BY <2>1, <4>2, <4>3
    <3> QED
      BY <3>1, <3>2
  <2> HIDE DEF A, B, P, p, d
  <2>4. B = {j \in P : j > p}
    BY <2>2, <2>3
  <2> QED
    BY <1>4, <1>5, <1>6, <2>2, <2>4 DEF p, d
<1> QED
  BY <1>7, <1>8

LEMMA SortedPrev ==
  ASSUME NEW lev, NEW rng, TreeInv(lev, rng), NEW c, Complete(heap, root, depth, c)
  PROVE  /\ PosOf(heap, AfterPrev(heap, c)) = Sorted!PrevKey(PosOf(heap, c))
         /\ isFirst(heap, AfterPrev(heap, c)) <=>
              PosOf(heap, AfterPrev(heap, c)) = Sorted!Least(Sorted!Present)
         /\ Sorted!Before(PosOf(heap, c)) = {} <=> isFirst(heap, c)
         /\ isFirst(heap, c) => isFirst(heap, AfterPrev(heap, c))
<1> DEFINE A == Left(heap, rng, depth, c)
           d == AfterPrev(heap, c)
           B == Left(heap, rng, depth, d)
           P == Present(heap)
           p == PosOf(heap, c)
           G == P \ A
<1>1. Tree(heap, root, depth, lev, rng, NULL)
  BY DEF TreeInv
<1>2. Complete(heap, root, depth, d)
  BY <1>1, AfterComplete
<1>3. /\ A \subseteq P /\ A \in SUBSET Key /\ B \subseteq P /\ B \in SUBSET Key
      /\ P \in SUBSET Key /\ G \in SUBSET Key
  BY <1>1, LeftKeys
<1>4. /\ PosOf(heap, d) = Sorted!Least(B) /\ (PosOf(heap, d) = END <=> B = {})
      /\ B # {} => IsLeast(PosOf(heap, d), B)
  BY <1>1, <1>2, PosIs
<1>5. /\ p = Sorted!Least(A) /\ (p = END <=> A = {})
      /\ A # {} => IsLeast(p, A)
  BY <1>1, PosIs
<1>6. Sorted!PrevKey(p) = Sorted!Greatest({k \in P : p = END \/ k < p}, p)
  BY SortedPresent DEF Sorted!PrevKey, Sorted!Before
<1>7. ASSUME NEW k \in P PROVE k \notin A <=> p = END \/ k < p
  <2>1. CASE A = {}
    BY <1>5, <2>1
  <2>2. CASE A # {}
    <3>1. p \in A /\ p \in Nat /\ k \in Nat /\ \A j \in A : p <= j
      BY <1>3, <1>5, <2>2 DEF IsLeast
    <3>2. p <= k => k \in A
      BY <1>1, <3>1, LeftUp
    <3> QED
      BY <1>5, <2>2, <3>1, <3>2
  <2> QED
    BY <2>1, <2>2
<1>8. {k \in P : p = END \/ k < p} = G
  BY <1>7
<1>9. Sorted!PrevKey(p) = Sorted!Greatest(G, p)
  BY <1>6, <1>8
<1>10. PosOf(heap, d) = Sorted!Greatest(G, p)
  <2>1. CASE isFirst(heap, c)
    <3>1. A = P /\ B = P
      BY <1>1, <2>1, AfterPrevIs
    <3>2. Sorted!Greatest(G, p) = p
      BY <1>3, <3>1, GreatestIs
    <3> QED
      BY <1>4, <1>5, <3>1, <3>2
  <2>2. CASE ~isFirst(heap, c)
    <3>1. OneMore(heap, A, B)
      BY <1>1, <2>2, AfterPrevIs
    <3>2. PICK k : IsGreatest(k, G) /\ IsLeast(k, B)
      BY <3>1 DEF OneMore
    <3>3. Sorted!Greatest(G, p) = k
      BY <1>3, <3>2, GreatestIs
    <3>4. Sorted!Least(B) = k
      BY <1>3, <3>2, LeastIs
    <3> QED
      BY <1>4, <3>3, <3>4
  <2> QED
    BY <2>1, <2>2
<1>11. isFirst(heap, d) <=> B = P
  BY <1>1, <1>2, AfterPrevIs
<1>12. B = P <=> PosOf(heap, d) = Sorted!Least(P)
  <2>1. ASSUME PosOf(heap, d) = Sorted!Least(P) PROVE B = P
    <3>1. CASE P = {}
      BY <1>3, <3>1
    <3>2. CASE P # {}
      <4> DEFINE m == Sorted!Least(P)
      <4>1. IsLeast(m, P)
        BY <1>3, <3>2, LeastIs
      <4>2. m \in Key /\ m # END
        BY <1>3, <4>1, EndAssumption DEF IsLeast
      <4>3. m \in B
        BY <1>4, <2>1, <4>2 DEF IsLeast
      <4>4. ASSUME NEW j \in P PROVE j \in B
        <5>1. m <= j
          BY <4>1 DEF IsLeast
        <5> HIDE DEF m
        <5> QED
          BY <1>1, <1>2, <4>3, <5>1, LeftUp
      <4> QED
        BY <1>3, <4>4
    <3> QED
      BY <3>1, <3>2
  <2> QED
    BY <1>4, <2>1
<1>13. Sorted!Present = P
  BY SortedPresent
<1>14. Sorted!Before(p) = {} <=> isFirst(heap, c)
  <2>1. Sorted!Before(p) = G
    BY <1>8, <1>13 DEF Sorted!Before
  <2>2. isFirst(heap, c) <=> A = P
    BY <1>1, AfterPrevIs
  <2> HIDE DEF A, P, p
  <2> QED
    BY <1>3, <2>1, <2>2
<1>15. isFirst(heap, c) => isFirst(heap, d)
  BY <1>1, <1>11, AfterPrevIs
<1> QED
  BY <1>9, <1>10, <1>11, <1>12, <1>13, <1>14, <1>15

-----------------------------------------------------------------------------
(* Each operation is that of the map.                                      *)

LEMMA MovesTo ==
  ASSUME UNCHANGED relation, NEW p, PosOf(heap, cursor') = p
  PROVE  /\ Sorted!Moves(Handle, p)
         /\ p = Pos => UNCHANGED <<Map, [c \in Cursors |-> Pos]>>
<1>1. heap' = heap
  BY DEF relation
<1>2. Pos' = p /\ Map' = Map
  BY <1>1, StateIs
<1> QED
  BY <1>2 DEF Sorted!Moves, Cursors

LEMMA CursorIs ==
  ASSUME NEW lev, NEW rng, TreeInv(lev, rng)
  PROVE  /\ Tree(heap, root, depth, lev, rng, NULL)
         /\ Sorted!Exists(Handle) <=> cursor # NULL
         /\ [c \in Cursors |-> Pos][Handle] = PosOf(heap, cursor)
         /\ cursor # NULL => Complete(heap, root, depth, cursor)
<1>1. Tree(heap, root, depth, lev, rng, NULL) /\ (cursor # NULL => Complete(heap, root, depth, cursor))
  BY DEF TreeInv
<1>2. [c \in Cursors |-> Pos][Handle] = PosOf(heap, cursor)
  BY StateIs DEF Cursors
<1>3. PosOf(heap, cursor) # NULL <=> cursor # NULL
  BY <1>1, PosIs DEF PosOf
<1> QED
  BY <1>1, <1>2, <1>3 DEF Sorted!Exists

LEMMA SortedNew ==
  ASSUME NEW lev, NEW rng, TreeInv(lev, rng), RL_NewCursor
  PROVE  Sorted!NewCursor(Handle) \/ Sorted!NewCursorAtFirst(Handle)
<1> DEFINE c == moveToFirst(heap, root, <<>>)
<1>1. Tree(heap, root, depth, lev, rng, NULL) /\ ~Sorted!Exists(Handle)
  BY CursorIs DEF RL_NewCursor
<1>2. cursor' = c /\ UNCHANGED relation /\ op' = "RL_NewCursor" /\ ret' = TRUE
  BY DEF RL_NewCursor, Moves, Calls
<1>3. Complete(heap, root, depth, c) /\ Left(heap, rng, depth, c) = Present(heap)
  BY <1>1, MovedIs
<1> HIDE DEF c
<1>4. PosOf(heap, c) = Sorted!Least(Sorted!Present)
  BY <1>1, <1>3, PosIs, SortedPresent
<1>5. Sorted!Moves(Handle, Sorted!Least(Sorted!Present))
  BY <1>2, <1>4, MovesTo
<1>6. Sorted!Present = {} => Sorted!Least(Sorted!Present) = END
  BY DEF Sorted!Least
<1> QED
  BY <1>1, <1>2, <1>5, <1>6 DEF Sorted!NewCursor, Sorted!NewCursorAtFirst, Sorted!Returns

LEMMA SortedFree ==
  ASSUME NEW lev, NEW rng, TreeInv(lev, rng), RL_FreeCursor
  PROVE  Sorted!FreeCursor(Handle)
<1>1. Sorted!Exists(Handle)
  BY CursorIs DEF RL_FreeCursor, Uses
<1>2. cursor' = NULL /\ UNCHANGED relation /\ op' = "RL_FreeCursor" /\ ret' = TRUE
  BY DEF RL_FreeCursor, Moves, Calls, Uses
<1>3. PosOf(heap, cursor') = NULL
  BY <1>2 DEF PosOf
<1>4. Sorted!Moves(Handle, NULL)
  BY <1>2, <1>3, MovesTo
<1> QED
  BY <1>1, <1>2, <1>4 DEF Sorted!FreeCursor, Sorted!Returns

LEMMA SortedFirst ==
  ASSUME NEW lev, NEW rng, TreeInv(lev, rng), RL_MoveToFirst
  PROVE  Sorted!MoveToFirst(Handle)
<1> DEFINE c == moveToFirst(heap, root, <<>>)
<1>1. Tree(heap, root, depth, lev, rng, NULL) /\ Sorted!Exists(Handle)
  BY CursorIs DEF RL_MoveToFirst, Uses
<1>2. cursor' = c /\ UNCHANGED relation /\ op' = "RL_MoveToFirst" /\ ret' = isValid(heap, c)
  BY DEF RL_MoveToFirst, Moves, Calls, Uses
<1>3. Complete(heap, root, depth, c) /\ Left(heap, rng, depth, c) = Present(heap)
  BY <1>1, MovedIs
<1> HIDE DEF c
<1>4. PosOf(heap, c) = Sorted!Least(Sorted!Present)
  BY <1>1, <1>3, PosIs, SortedPresent
<1>5. Sorted!Moves(Handle, Sorted!Least(Sorted!Present))
  BY <1>2, <1>4, MovesTo
<1>6. isValid(heap, c) <=> Sorted!Present # {}
  BY <1>1, <1>3, ValidIs, SortedPresent
<1>7. isValid(heap, c) = (Sorted!Present # {})
  BY <1>6 DEF isValid
<1> QED
  BY <1>1, <1>2, <1>5, <1>7 DEF Sorted!MoveToFirst, Sorted!Returns

LEMMA SortedMoveNext ==
  ASSUME NEW lev, NEW rng, TreeInv(lev, rng), RL_MoveToNextValid
  PROVE  Sorted!MoveToNext(Handle)
<1> DEFINE c == AfterNext(heap, cursor)
           p == [x \in Cursors |-> Pos][Handle]
<1>1. /\ Sorted!Exists(Handle) /\ Complete(heap, root, depth, cursor)
      /\ p = PosOf(heap, cursor)
  BY CursorIs DEF RL_MoveToNextValid, Uses
<1>2. /\ cursor' = c /\ UNCHANGED relation
      /\ op' = "RL_MoveToNextValid" /\ ret' = isValid(heap, c)
  BY DEF RL_MoveToNextValid, Moves, Calls, Uses
<1>3. /\ PosOf(heap, c) = Sorted!NextKey(PosOf(heap, cursor))
      /\ isValid(heap, c) <=> PosOf(heap, c) # END
  BY <1>1, SortedNext
<1> HIDE DEF c, p
<1>4. PosOf(heap, cursor') = Sorted!NextKey(p)
  BY <1>1, <1>2, <1>3
<1>5. Sorted!Moves(Handle, Sorted!NextKey(p))
  BY <1>2, <1>4, MovesTo
<1>6. isValid(heap, c) = (Sorted!NextKey(p) # END)
  BY <1>1, <1>3 DEF isValid
<1> QED
  BY <1>1, <1>2, <1>5, <1>6 DEF Sorted!MoveToNext, Sorted!Returns, p

LEMMA SortedMovePrev ==
  ASSUME NEW lev, NEW rng, TreeInv(lev, rng), RL_MoveToPreviousNotFirst
  PROVE  Sorted!MoveToPrevious(Handle) \/ Sorted!PreviousIsFirst(Handle)
<1> DEFINE c == AfterPrev(heap, cursor)
           p == [x \in Cursors |-> Pos][Handle]
<1>1. /\ Sorted!Exists(Handle) /\ Complete(heap, root, depth, cursor)
      /\ p = PosOf(heap, cursor)
  BY CursorIs DEF RL_MoveToPreviousNotFirst, Uses
<1>2. /\ cursor' = c /\ UNCHANGED relation
      /\ op' = "RL_MoveToPreviousNotFirst" /\ ret' = ~isFirst(heap, c)
  BY DEF RL_MoveToPreviousNotFirst, Moves, Calls, Uses
<1>3. /\ PosOf(heap, c) = Sorted!PrevKey(PosOf(heap, cursor))
      /\ isFirst(heap, c) <=> PosOf(heap, c) = Sorted!Least(Sorted!Present)
      /\ Sorted!Before(PosOf(heap, cursor)) = {} => isFirst(heap, c)
  BY <1>1, SortedPrev
<1> HIDE DEF c, p
<1>4. PosOf(heap, cursor') = Sorted!PrevKey(p)
  BY <1>1, <1>2, <1>3
<1>5. Sorted!Moves(Handle, Sorted!PrevKey(p))
  BY <1>2, <1>4, MovesTo
<1>6. CASE Sorted!Before(p) # {} /\ isFirst(heap, c)
  <2>1. ret' = FALSE /\ Sorted!PrevKey(p) = Sorted!Least(Sorted!Present)
    BY <1>1, <1>2, <1>3, <1>6
  <2> QED
    BY <1>1, <1>2, <1>5, <1>6, <2>1 DEF Sorted!PreviousIsFirst, Sorted!Returns, p
<1>7. CASE ~(Sorted!Before(p) # {} /\ isFirst(heap, c))
  <2>1. (~isFirst(heap, c)) = (Sorted!Before(p) # {})
    BY <1>1, <1>3, <1>7 DEF isFirst
  <2> QED
    BY <1>1, <1>2, <1>5, <2>1 DEF Sorted!MoveToPrevious, Sorted!Returns, p
<1> QED
  BY <1>6, <1>7

LEMMA SortedMoveToKey ==
  ASSUME NEW lev, NEW rng, TreeInv(lev, rng), NEW key \in Key, RL_MoveToKey(key)
  PROVE  Sorted!MoveToKey(Handle, key)
<1> DEFINE c == goToKey(heap, cursor, key)
           at == Settle(heap, c)
           P == Present(heap)
           A == {j \in P : j >= key}
           k == KeyAt(currNode(heap, at), entryIndex(at))
<1>1. /\ Tree(heap, root, depth, lev, rng, NULL) /\ Sorted!Exists(Handle)
      /\ Complete(heap, root, depth, cursor)
  BY CursorIs DEF RL_MoveToKey
<1>2. /\ UNCHANGED relation /\ op' = "RL_MoveToKey"
      /\ isValid(heap, c) => cursor' = at /\ ret' = (k = key)
      /\ ~isValid(heap, c) => cursor' = c /\ ret' = FALSE
  BY DEF RL_MoveToKey, Moves, Calls, Uses
<1>3. SearchPath(heap, root, depth, rng, c, key)
  BY <1>1, GoToKeyIs
<1> HIDE DEF c
<1>4. P \in SUBSET Key
  BY <1>1, LeftKeys
<1>5. Complete(heap, root, depth, c) /\ Left(heap, rng, depth, c) = A
  <2>1. Left(heap, rng, depth, c) = {j \in P : key <= j}
    BY <1>1, <1>3, MovedIs
  <2>2. \A j \in P : key <= j <=> j >= key
    BY <1>4
  <2> QED
    BY <1>1, <1>3, <2>1, <2>2, MovedIs
<1>6. /\ Complete(heap, root, depth, at) /\ Left(heap, rng, depth, at) = A
      /\ A # {} => AtEntry(heap, A, at)
  BY <1>1, <1>5, SettleIs
<1>7. isValid(heap, c) <=> A # {}
  BY <1>1, <1>5, ValidIs
<1> HIDE DEF at, A, P
<1>8. PosOf(heap, c) = Sorted!Least(A) /\ PosOf(heap, at) = Sorted!Least(A)
  BY <1>1, <1>5, <1>6, PosIs
<1>9. Sorted!Moves(Handle, Sorted!Least(A))
  <2>1. PosOf(heap, cursor') = Sorted!Least(A)
    BY <1>2, <1>8
  <2> QED
    BY <1>2, <2>1, MovesTo
<1>10. ret' = (key \in P)
  <2>1. CASE A # {}
    <3>1. IsLeast(k, A)
      BY <1>6, <2>1 DEF AtEntry
    <3>2. k \in P /\ k >= key /\ \A j \in A : k <= j
      BY <3>1 DEF IsLeast, A
    <3>3. k \in Nat
      BY <1>4, <3>2
    <3> HIDE DEF k
    <3>4. key \in P => key \in A
      BY DEF A
    <3>5. k = key <=> key \in P
      BY <3>2, <3>3, <3>4
    <3>6. ret' = (k = key)
      BY <1>2, <1>7, <2>1 DEF k
    <3> QED
      BY <3>5, <3>6
  <2>2. CASE A = {}
    <3>1. (key \in P) = FALSE
      <4>1. key >= key
        OBVIOUS
      <4> QED
        BY <2>2, <4>1 DEF A
    <3> QED
      BY <1>2, <1>7, <2>2, <3>1
  <2> QED
    BY <2>1, <2>2
<1>11. Sorted!Present = P
  BY SortedPresent DEF P
<1>12. Sorted!Least({j \in Sorted!Present : j >= key}) = Sorted!Least(A)
  BY <1>11 DEF A
<1> QED
  BY <1>1, <1>2, <1>9, <1>10, <1>11, <1>12 DEF Sorted!MoveToKey, Sorted!Returns

\* The entry at which the cursor is.
LEMMA SortedEntry ==
  ASSUME NEW lev, NEW rng, TreeInv(lev, rng), NEW o, NEW field, GetEntry(o, field)
  PROVE  LET p == [x \in Cursors |-> Pos][Handle] IN
         /\ Sorted!Exists(Handle) /\ p # END
         /\ UNCHANGED <<Map, [c \in Cursors |-> Pos]>> /\ op' = o
         /\ \E e : e.key = p /\ e.ptr = Map[p] /\ ret' = e[field]
<1> DEFINE at == Settle(heap, cursor)
           p == [x \in Cursors |-> Pos][Handle]
           A == Left(heap, rng, depth, cursor)
           e == currNode(heap, at).entries[entryIndex(at) + 1]
<1>1. /\ Tree(heap, root, depth, lev, rng, NULL) /\ Sorted!Exists(Handle)
      /\ Complete(heap, root, depth, cursor) /\ p = PosOf(heap, cursor)
  BY CursorIs DEF GetEntry
<1>2. /\ UNCHANGED relation /\ op' = o /\ cursor' = at /\ isValid(heap, cursor)
      /\ ret' = e[field]
  BY DEF GetEntry, Moves, Calls, Uses
<1>3. /\ Complete(heap, root, depth, at) /\ Left(heap, rng, depth, at) = A
      /\ A # {} => AtEntry(heap, A, at)
  BY <1>1, SettleIs
<1>4. A # {}
  BY <1>1, <1>2, ValidIs
<1>5. A \in SUBSET Key
  BY <1>1, LeftKeys
<1> HIDE DEF at, A, p
<1>6. PosOf(heap, at) = p /\ p # END /\ p = Sorted!Least(A)
  BY <1>1, <1>3, <1>4, PosIs DEF A
<1>7. IsLeast(e.key, A) /\ e \in Records(heap)
  BY <1>3, <1>4 DEF AtEntry, KeyAt
<1>8. e.key = p
  BY <1>5, <1>6, <1>7, LeastIs
<1>9. Map[p] = e.ptr
  BY <1>1, <1>7, <1>8, MapIs, StateIs
<1>10. p = Pos
  BY <1>1, StateIs
<1>11. UNCHANGED <<Map, [c \in Cursors |-> Pos]>>
  <2>1. PosOf(heap, cursor') = p
    BY <1>2, <1>6
  <2> QED
    BY <1>2, <1>10, <2>1, MovesTo
<1> QED
  BY <1>1, <1>2, <1>6, <1>8, <1>9, <1>11 DEF p

LEMMA SortedGet ==
  ASSUME NEW lev, NEW rng, TreeInv(lev, rng)
  PROVE  /\ RL_GetRecord => Sorted!GetRecord(Handle)
         /\ RL_GetKey => Sorted!GetKey(Handle)
<1>1. ASSUME RL_GetRecord PROVE Sorted!GetRecord(Handle)
  <2>1. GetEntry("RL_GetRecord", "ptr")
    BY <1>1 DEF RL_GetRecord
  <2> QED
    BY <2>1, SortedEntry DEF Sorted!GetRecord, Sorted!Returns
<1>2. ASSUME RL_GetKey PROVE Sorted!GetKey(Handle)
  <2>1. GetEntry("RL_GetKey", "key")
    BY <1>2 DEF RL_GetKey
  <2> QED
    BY <2>1, SortedEntry DEF Sorted!GetKey, Sorted!Returns
<1> QED
  BY <1>1, <1>2

LEMMA SortedAsk ==
  ASSUME NEW lev, NEW rng, TreeInv(lev, rng)
  PROVE  /\ RL_DeleteRecord => Sorted!NothingDeleted(Handle)
         /\ RL_IsEmpty \/ RL_CursorIsValid \/ RL_NumRecords => Sorted!Count(Handle)
<1>0. ASSUME NEW o, NEW v, Asks(o, v)
      PROVE  /\ Sorted!Exists(Handle) /\ op' = o /\ ret' = v
             /\ UNCHANGED <<Map, [c \in Cursors |-> Pos]>>
             /\ Complete(heap, root, depth, cursor)
  <2>1. cursor # NULL /\ cursor' = cursor /\ UNCHANGED relation /\ op' = o /\ ret' = v
    BY <1>0 DEF Asks, Uses, Calls
  <2>2. Sorted!Exists(Handle) /\ Complete(heap, root, depth, cursor)
    BY <2>1, CursorIs
  <2>3. PosOf(heap, cursor') = Pos
    BY <2>1, StateIs
  <2> QED
    BY <2>1, <2>2, <2>3, MovesTo
<1>1. Tree(heap, root, depth, lev, rng, NULL) /\ RootOK(heap, root) /\ Counted(heap, numRecords)
  BY DEF TreeInv
<1>2. Sorted!Present = Present(heap)
  BY SortedPresent
<1>3. ASSUME RL_DeleteRecord PROVE Sorted!NothingDeleted(Handle)
  BY <1>0, <1>3 DEF RL_DeleteRecord, Sorted!NothingDeleted, Sorted!Returns
<1>4. ASSUME RL_IsEmpty PROVE Sorted!Count(Handle)
  <2>1. Asks("RL_IsEmpty", numKeys(heap[root]) = 0)
    BY <1>4 DEF RL_IsEmpty
  <2>2. Complete(heap, root, depth, cursor)
    BY <1>0, <2>1
  <2>3. numKeys(heap[root]) = 0 <=> Present(heap) = {}
    <3> DEFINE n == cursor[depth + 1].node
    <3>1. root \in Used(heap) /\ rng[root] = Key
      BY <1>1 DEF Tree, Shape
    <3>2. numKeys(heap[root]) \in Nat
      BY <1>1, <3>1, UsedNodes, NodeFacts DEF Tree
    <3>3. CASE heap[root].isLeaf
      <4>1. /\ \A i \in 1 .. numKeys(heap[root]) : heap[root].entries[i].key \in Present(heap)
            /\ \A k \in Present(heap) : k \in rng[root] =>
                 \E i \in 1 .. numKeys(heap[root]) : heap[root].entries[i].key = k
        BY <1>1, <3>1, <3>3, LeafKeys
      <4>2. ASSUME Present(heap) # {} PROVE numKeys(heap[root]) # 0
        <5>1. PICK k \in Present(heap) : k \in Key
          BY <1>1, <4>2, RecordFacts
        <5>2. 1 .. numKeys(heap[root]) # {}
          BY <3>1, <4>1, <5>1
        <5> QED
          BY <5>2
      <4>3. ASSUME numKeys(heap[root]) # 0 PROVE Present(heap) # {}
        <5>1. 1 \in 1 .. numKeys(heap[root])
          BY <3>2, <4>3
        <5> QED
          BY <4>1, <5>1
      <4> QED
        BY <4>2, <4>3
    <3>4. CASE ~heap[root].isLeaf
      <4>1. numKeys(heap[root]) >= 1
        BY <1>1, <3>4 DEF RootOK
      <4>2. LeafStop(heap, cursor[depth + 1])
        BY <1>1, <2>2, LastStop
      <4> DEFINE s == cursor[depth + 1]
      <4>3. s.node \in Used(heap) /\ heap[s.node].isLeaf /\ s.node # root
        BY <3>4, <4>2 DEF LeafStop
      <4> HIDE DEF s
      <4>4. numKeys(heap[s.node]) >= 1 /\ numKeys(heap[s.node]) \in Nat
        BY <1>1, <4>3, RangeNonempty, UsedNodes, NodeFacts DEF Tree
      <4>5. 1 \in 1 .. numKeys(heap[s.node])
        BY <4>4
      <4>6. heap[s.node].entries[1].key \in Present(heap)
        BY <1>1, <4>3, <4>5, LeafKeys
      <4> QED
        BY <3>2, <4>1, <4>6
    <3> QED
      BY <3>3, <3>4
  <2>4. (numKeys(heap[root]) = 0) = (Present(heap) = {})
    BY <2>3
  <2> QED
    BY <1>0, <1>2, <2>1, <2>4 DEF Sorted!Count, Sorted!Returns
<1>5. ASSUME RL_CursorIsValid PROVE Sorted!Count(Handle)
  <2> DEFINE p == [x \in Cursors |-> Pos][Handle]
  <2>1. Asks("RL_CursorIsValid", isValid(heap, cursor))
    BY <1>5 DEF RL_CursorIsValid
  <2>2. Complete(heap, root, depth, cursor) /\ p = PosOf(heap, cursor)
    BY <1>0, <2>1, CursorIs
  <2>3. isValid(heap, cursor) <=> p # END
    BY <1>1, <2>2, ValidIs, PosIs
  <2> HIDE DEF p
  <2>4. isValid(heap, cursor) = (p # END)
    BY <2>3 DEF isValid
  <2> QED
    BY <1>0, <2>1, <2>4 DEF Sorted!Count, Sorted!Returns, p
<1>6. ASSUME RL_NumRecords PROVE Sorted!Count(Handle)
  <2>1. Asks("RL_NumRecords", numRecords)
    BY <1>6 DEF RL_NumRecords
  <2>2. numRecords = Cardinality(Present(heap))
    BY <1>1 DEF Counted
  <2>3. Sorted!Cardinality(Present(heap)) = Cardinality(Present(heap))
    BY DEF Sorted!Cardinality, Cardinality
  <2> QED
    BY <1>0, <1>2, <2>1, <2>2, <2>3 DEF Sorted!Count, Sorted!Returns
<1> QED
  BY <1>3, <1>4, <1>5, <1>6

LEMMA SortedDelete ==
  ASSUME NEW lev, NEW rng, TreeInv(lev, rng), RL_DeleteRelation
  PROVE  Sorted!DeleteRelation
<1>1. /\ cursor = NULL /\ cursor' = cursor /\ UNCHANGED relation
      /\ op' = "RL_DeleteRelation" /\ ret' = TRUE
  BY DEF RL_DeleteRelation, Calls
<1>2. ~Sorted!Exists(Handle) /\ Tree(heap, root, depth, lev, rng, NULL)
  BY <1>1, CursorIs
<1>3. \A c \in Cursors : ~Sorted!Exists(c)
  BY <1>2 DEF Cursors
<1>4. PosOf(heap, cursor') = Pos
  BY <1>1, StateIs
<1>5. UNCHANGED <<Map, [c \in Cursors |-> Pos]>>
  BY <1>1, <1>4, MovesTo
<1>6. Map \in [Key -> Record \cup {NULL}]
  BY <1>2, MapIs, StateIs
<1> QED
  BY <1>1, <1>3, <1>5, <1>6 DEF Sorted!DeleteRelation, Sorted!Returns

\* In the map a put changes the record of its key.
LEMMA MapPut ==
  ASSUME NEW h, NEW r, NEW dep, NEW lev, NEW rng, NEW big, Tree(h, r, dep, lev, rng, big),
         NEW g, NEW q, NEW dp, NEW lv, NEW rg, NEW bg, Tree(g, q, dp, lv, rg, bg),
         NEW e, Records(g) = {x \in Records(h) : x.key # e.key} \cup {e}
  PROVE  /\ MapOf(g) = [MapOf(h) EXCEPT ![e.key] = e.ptr]
         /\ Present(g) = Present(h) \cup {e.key}
<1>1. /\ MapOf(h) \in [Key -> Record \cup {NULL}] /\ MapOf(g) \in [Key -> Record \cup {NULL}]
      /\ \A x \in Records(h) : MapOf(h)[x.key] = x.ptr
      /\ \A x \in Records(g) : MapOf(g)[x.key] = x.ptr
      /\ \A k \in Key : MapOf(h)[k] # NULL <=> k \in Present(h)
      /\ \A k \in Key : MapOf(g)[k] # NULL <=> k \in Present(g)
  BY MapIs
<1>2. Present(g) = Present(h) \cup {e.key}
  <2>1. ASSUME NEW k PROVE k \in Present(g) <=> k \in Present(h) \/ k = e.key
    BY DEF Present
  <2> QED
    BY <2>1
<1>3. ASSUME NEW k \in Key
      PROVE  MapOf(g)[k] = IF k = e.key THEN e.ptr ELSE MapOf(h)[k]
  <2>1. CASE k = e.key
    BY <1>1, <2>1
  <2>2. CASE k # e.key /\ k \in Present(h)
    <3>1. PICK x \in Records(h) : x.key = k
      BY <2>2 DEF Present
    <3> QED
      BY <1>1, <2>2, <3>1
  <2>3. CASE k # e.key /\ k \notin Present(h)
    <3>1. k \notin Present(g)
      BY <1>2, <2>3
    <3> QED
      BY <1>1, <2>3, <3>1
  <2> QED
    BY <2>1, <2>2, <2>3
<1> QED
  BY <1>1, <1>2, <1>3

LEMMA SortedPut ==
  ASSUME NEW lev, NEW rng, TreeInv(lev, rng),
         NEW key \in Key, NEW record \in Record, RL_PutRecord(key, record)
  PROVE  Sorted!PutRecord(Handle, key, record)
<1> DEFINE e == [key |-> key, ptr |-> record]
           P == Present(heap)
           N == {j \in P : j > key}
<1>1. PICK s, lv, rg : PutStep(key, record, s, lv, rg)
  BY PutStepIs
<1>2. /\ heap' = s.heap /\ cursor' = AfterNext(s.heap, s.cursor)
      /\ PutDone(heap, numRecords, e, s, lv, rg) /\ e.key = key /\ e.ptr = record
  BY <1>1 DEF PutStep
<1>3. /\ op' = "RL_PutRecord" /\ ret' = TRUE /\ Sorted!Exists(Handle)
      /\ Tree(heap, root, depth, lev, rng, NULL)
  BY CursorIs DEF RL_PutRecord, Uses, Calls
<1> HIDE DEF e
<1> DEFINE h == s.heap
           r == s.root
           dep == s.depth
           c == s.cursor
<1>4. /\ Tree(h, r, dep, lv, rg, NULL) /\ SearchPath(h, r, dep, rg, c, key)
      /\ Records(h) = {x \in Records(heap) : x.key # e.key} \cup {e}
  BY <1>2 DEF PutDone
<1> HIDE DEF h, r, dep, c
<1>5. MapOf(h) = [MapOf(heap) EXCEPT ![key] = record] /\ Present(h) = P \cup {key}
  BY <1>2, <1>3, <1>4, MapPut
<1>6. Complete(h, r, dep, c) /\ Left(h, rg, dep, c) = {j \in Present(h) : key <= j}
  BY <1>4, MovedIs
<1>7. P \in SUBSET Key
  BY <1>3, LeftKeys
<1> DEFINE d == AfterNext(h, c)
           A == Left(h, rg, dep, c)
<1>8. IsLeast(key, A) /\ A \in SUBSET Key
  <2>1. key \in A
    BY <1>5, <1>6
  <2> QED
    BY <1>4, <1>6, <2>1, LeftKeys DEF IsLeast
<1>9. Left(h, rg, dep, d) = A \ {key}
  <2>1. PICK k : IsLeast(k, A) /\ Left(h, rg, dep, d) = A \ {k}
    BY <1>4, <1>6, <1>8, AfterNextIs DEF IsLeast
  <2>2. k = key
    <3>1. k \in Nat /\ k <= key /\ key <= k
      BY <1>8, <2>1 DEF IsLeast
    <3> QED
      BY <3>1
  <2> QED
    BY <2>1, <2>2
<1>10. A \ {key} = N
  <2>1. ASSUME NEW j PROVE j \in A \ {key} <=> j \in N
    <3>1. j \in A <=> j \in P \cup {key} /\ key <= j
      BY <1>5, <1>6
    <3>2. j \in P => j \in Nat
      BY <1>7
    <3> HIDE DEF A
    <3> QED
      BY <3>1, <3>2
  <2> QED
    BY <2>1
<1>11. Complete(h, r, dep, d)
  BY <1>4, <1>6, AfterComplete
<1> HIDE DEF d, A
<1>12. PosOf(h, d) = Sorted!Least(N)
  BY <1>4, <1>9, <1>10, <1>11, PosIs
<1>13. Sorted!NextKey(key) = Sorted!Least(N)
  <2>1. key # END
    BY EndAssumption
  <2> QED
    BY <2>1, SortedPresent DEF Sorted!NextKey
<1>14. Pos' = Sorted!NextKey(key)
  BY <1>2, <1>12, <1>13, StateIs DEF d, h, c
<1>15. Map' = [Map EXCEPT ![key] = record]
  BY <1>2, <1>5, StateIs DEF h
<1>16. [x \in Cursors |-> Pos]' = [[x \in Cursors |-> Pos] EXCEPT ![Handle] = Sorted!NextKey(key)]
  BY <1>14 DEF Cursors
<1> QED
  BY <1>3, <1>15, <1>16 DEF Sorted!PutRecord, Sorted!Returns

LEMMA SortedInit == ASSUME Init PROVE Sorted!Init
<1>1. PICK lev, rng : TreeInv(lev, rng)
  BY InitInv DEF IInv
<1>2. Tree(heap, root, depth, lev, rng, NULL) /\ Counted(heap, 0)
  BY <1>1 DEF TreeInv, Init
<1>3. Present(heap) = {}
  BY <1>2, FS_EmptySet DEF Counted
<1>4. /\ MapOf(heap) \in [Key -> Record \cup {NULL}]
      /\ \A k \in Key : MapOf(heap)[k] # NULL <=> k \in Present(heap)
  BY <1>2, MapIs
<1>5. Map = [k \in Key |-> NULL]
  BY <1>3, <1>4, StateIs
<1>6. [c \in Cursors |-> Pos] = [c \in Cursors |-> NULL]
  BY DEF Init, Pos
<1> QED
  BY <1>5, <1>6 DEF Init, Sorted!Init

LEMMA SortedStep ==
  ASSUME IInv, [Next]_vars
  PROVE  [Sorted!Next \/ Sorted!RelationDeparts(Handle)]_(Sorted!vars)
<1>1. PICK lev, rng : TreeInv(lev, rng)
  BY DEF IInv
<1>2. Handle \in Cursors
  BY DEF Cursors
<1>3. ASSUME UNCHANGED vars PROVE UNCHANGED Sorted!vars
  <2>1. heap' = heap /\ cursor' = cursor /\ op' = op /\ ret' = ret
    BY <1>3 DEF vars, relation
  <2>2. Pos' = Pos /\ Map' = Map
    BY <2>1, StateIs
  <2> QED
    BY <2>1, <2>2 DEF Sorted!vars
<1>4. CASE RL_NewCursor \/ RL_FreeCursor
  <2>1. Sorted!NewCursor(Handle) \/ Sorted!NewCursorAtFirst(Handle) \/ Sorted!FreeCursor(Handle)
    BY <1>1, <1>4, SortedNew, SortedFree
  <2> QED
    BY <1>2, <2>1 DEF Sorted!Next, Sorted!RelationDeparts
<1>5. CASE \E key \in Key, record \in Record : RL_PutRecord(key, record)
  <2>1. \E key \in Key, record \in Record : Sorted!PutRecord(Handle, key, record)
    BY <1>1, <1>5, SortedPut
  <2> QED
    BY <1>2, <2>1 DEF Sorted!Next
<1>6. CASE \E key \in Key : RL_MoveToKey(key)
  <2>1. \E key \in Key : Sorted!MoveToKey(Handle, key)
    BY <1>1, <1>6, SortedMoveToKey
  <2> QED
    BY <1>2, <2>1 DEF Sorted!Next
<1>7. CASE RL_GetRecord \/ RL_GetKey
  <2>1. Sorted!GetRecord(Handle) \/ Sorted!GetKey(Handle)
    BY <1>1, <1>7, SortedGet
  <2> QED
    BY <1>2, <2>1 DEF Sorted!Next
<1>8. CASE RL_MoveToFirst \/ RL_MoveToNextValid \/ RL_MoveToPreviousNotFirst
  <2>1. \/ Sorted!MoveToFirst(Handle) \/ Sorted!MoveToNext(Handle)
        \/ Sorted!MoveToPrevious(Handle) \/ Sorted!PreviousIsFirst(Handle)
    BY <1>1, <1>8, SortedFirst, SortedMoveNext, SortedMovePrev
  <2> QED
    BY <1>2, <2>1 DEF Sorted!Next, Sorted!RelationDeparts
<1>9. CASE RL_DeleteRecord \/ RL_IsEmpty \/ RL_CursorIsValid \/ RL_NumRecords
  <2>1. Sorted!NothingDeleted(Handle) \/ Sorted!Count(Handle)
    BY <1>1, <1>9, SortedAsk
  <2> QED
    BY <1>2, <2>1 DEF Sorted!Next, Sorted!RelationDeparts
<1>10. CASE RL_DeleteRelation
  BY <1>1, <1>10, SortedDelete DEF Sorted!Next
<1>11. CASE Ended \/ UNCHANGED vars
  BY <1>3, <1>11 DEF Ended
<1> QED
  BY <1>4, <1>5, <1>6, <1>7, <1>8, <1>9, <1>10, <1>11 DEF Next

LEMMA SortedCalls ==
  ASSUME IInv
  PROVE  \A k \in Key :
           /\ op' = "RL_PutRecord" =>
                \A r \in Record : RL_PutRecord(k, r) => Sorted!PutRecord(Handle, k, r)
           /\ op' = "RL_MoveToKey" => (RL_MoveToKey(k) => Sorted!MoveToKey(Handle, k))
BY SortedPut, SortedMoveToKey DEF IInv

-----------------------------------------------------------------------------
(* Theorems.                                                               *)

\* After any sequence of calls the tree is a B+tree: keys in order, all leaves at one
\* depth, nodes half full, spines marked, each node the child of one other, and the
\* count right, however far up a put had to split.
THEOREM StaysWellFormed == Spec => []WellFormed
<1>1. ASSUME IInv PROVE WellFormed
  <2>1. PICK lev, rng : TreeInv(lev, rng)
    BY <1>1 DEF IInv
  <2> QED
    BY <2>1, KeysInOrder, SameDepth, MarkedSpines, SingleParent, CountsRecords DEF WellFormed
<1> QED
  BY <1>1, Invariant, PTL

\* Whatever splits, the cursor is a path from the root to a leaf of the tree.
THEOREM StaysComplete == Spec => []CursorComplete
<1>1. IInv => CursorComplete
  BY CompleteCursor
<1> QED
  BY <1>1, Invariant, PTL

\* But for the three calls of RelationDeparts the relation is the sorted map of
\* verif/btrees/relation.h: whatever the tree looks like, the cursor stands at a key, steps
\* to the next or the one before, and every call changes and answers what that of the map
\* does; a new cursor, a step back to the first record and a deletion do what the
\* departures say.
THEOREM IsSortedMapButDepartures == Spec => SortedMapButDepartures
<1>1. Init => Sorted!Init
  BY SortedInit
<1>2. IInv /\ [Next]_vars => [Sorted!Next \/ Sorted!RelationDeparts(Handle)]_(Sorted!vars)
  BY SortedStep
<1>3. IInv /\ [Next]_vars =>
        [\A k \in Key :
           /\ op' = "RL_PutRecord" =>
                \A r \in Record : RL_PutRecord(k, r) => Sorted!PutRecord(Handle, k, r)
           /\ op' = "RL_MoveToKey" => (RL_MoveToKey(k) => Sorted!MoveToKey(Handle, k))]_vars
  BY SortedCalls
<1>4. Spec => SameArguments
  BY <1>3, Invariant, PTL DEF Spec, SameArguments
<1>5. Spec => Sorted!Init /\ [][Sorted!Next \/ Sorted!RelationDeparts(Handle)]_(Sorted!vars)
  BY <1>1, <1>2, Invariant, PTL DEF Spec
<1> QED
  BY <1>4, <1>5 DEF SortedMapButDepartures
=============================================================================
