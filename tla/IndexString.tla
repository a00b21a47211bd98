---------------------------- MODULE IndexString ----------------------------
(***************************************************************************)
(* The index for strings of index_string.c, "adapted from original         *)
(* kvstore.c": the same trie, with keys that are put by recursion, and     *)
(* with cursors.  It is unfinished: Sput, Snext_cursor and others are      *)
(* declared only, Sempty sets no root, and a cursor holds one entry.       *)
(*                                                                         *)
(* The indexes for slices are those of index_int.c, maps from slices to    *)
(* border nodes that deny having key 0; in one thing they are as this file *)
(* assumes and not as that one is: each call gets the index besides the    *)
(* cursor, and a cursor made for an absent key can be put at.              *)
(* Every index and border node is reached by one pointer: they are values. *)
(***************************************************************************)
EXTENDS Integers, Sequences

CONSTANTS L,       \* keyslice_length
          Char, Value, NULL,
          Overrun  \* a cursor that was written past the end of its array

VARIABLE root      \* the index under the trie

Slice == [1 .. L -> Char]
Ends(k) == Len(k) <= L
GetNextKeySlice(k) == [i \in 1 .. L |-> IF i <= Len(k) THEN k[i] ELSE 0]
Rest(k) == SubSeq(k, L + 1, Len(k))

-----------------------------------------------------------------------------
(* Indexes for slices: the border node of each slice, or NULL.             *)

Iempty == [s \in Slice |-> NULL]
Iput(index, s, bn) == [index EXCEPT ![s] = bn]

\* A cursor made for slice s is at s: Iget_key() takes key 0 for no key.
Iget_key(index, s) == index[s] # NULL /\ \E i \in 1 .. L : s[i] # 0

\* s comes before t: the order of the slices as numbers.
Less(s, t) == \E i \in 1 .. L : s[i] < t[i] /\ \A j \in 1 .. i - 1 : s[j] = t[j]

Ifirst(index) == CHOOSE s \in Slice : /\ index[s] # NULL
                                      /\ \A t \in Slice : index[t] # NULL => ~Less(t, s)

-----------------------------------------------------------------------------
(* Border nodes.  A length whose flag is not set has the value NULL.       *)

BN_NewBorderNode == [prefix |-> [i \in 0 .. L |-> NULL], suffix |-> NULL, link |-> NULL]
BN_HasSuffix(bn) == bn.suffix # NULL
StrEqual(a, b) == Len(a) = Len(b) /\ \A i \in 1 .. Len(a) : a[i] = b[i]
BN_TestSuffix(bn, k) == IF BN_HasSuffix(bn) THEN StrEqual(Rest(k), bn.suffix) ELSE FALSE
BN_SetPrefixValue(bn, i, v) == [bn EXCEPT !.prefix[i] = v]
BN_GetPrefixValue(bn, i) == bn.prefix[i]
BN_SetSuffixValue(bn, suffix, v) == [bn EXCEPT !.suffix = suffix, !.link = v]
BN_ExportSuffixValue(bn) ==
  [key |-> bn.suffix, val |-> bn.link, left |-> [bn EXCEPT !.suffix = NULL, !.link = NULL]]
BN_SetLink(bn, index) == [bn EXCEPT !.suffix = NULL, !.link = index]
HasLink(bn) == ~BN_HasSuffix(bn) /\ bn.link # NULL

BN_SetValue(bn, k, v) ==
  IF Ends(k) THEN BN_SetPrefixValue(bn, Len(k), v) ELSE BN_SetSuffixValue(bn, Rest(k), v)

-----------------------------------------------------------------------------
(* Putting.                                                                *)

\* Mutant: what kvstore.c does where one of the two keys ends.
RECURSIVE create_pair_FirstKey(_, _, _, _)
create_pair_FirstKey(k1, k2, v1, v2) ==
  LET s1 == GetNextKeySlice(k1)
      s2 == GetNextKeySlice(k2)
      bn1 == BN_SetValue(BN_NewBorderNode, k1, v1)
  IN  CASE s1 = s2 /\ (Ends(k1) \/ Ends(k2)) -> Iput(Iempty, s1, BN_SetValue(bn1, k1, v2))
        [] s1 = s2 /\ ~Ends(k1) /\ ~Ends(k2) ->
             Iput(Iempty, s1,
               BN_SetLink(BN_NewBorderNode, create_pair_FirstKey(Rest(k1), Rest(k2), v1, v2)))
        [] OTHER ->
             Iput(Iput(Iempty, s2, BN_SetValue(BN_NewBorderNode, k2, v2)), s1, bn1)

\* An index with two keys.
RECURSIVE create_pair(_, _, _, _)
create_pair(k1, k2, v1, v2) ==
  LET s1 == GetNextKeySlice(k1)
      s2 == GetNextKeySlice(k2)
      bn1 == BN_SetValue(BN_NewBorderNode, k1, v1)
  IN  CASE s1 = s2 /\ (Ends(k1) \/ Ends(k2)) -> Iput(Iempty, s1, BN_SetValue(bn1, k2, v2))
        [] s1 = s2 /\ ~Ends(k1) /\ ~Ends(k2) ->
             Iput(Iempty, s1,
               BN_SetLink(BN_NewBorderNode, create_pair(Rest(k1), Rest(k2), v1, v2)))
        [] OTHER ->
             Iput(Iput(Iempty, s2, BN_SetValue(BN_NewBorderNode, k2, v2)), s1, bn1)

\* The border node with the key that it holds pushed down, next to the new one.
SplitSuffix(bn, k, v) ==
  LET out == BN_ExportSuffixValue(bn)
  IN  BN_SetLink(out.left, create_pair(Rest(k), out.key, v, out.val))

RECURSIVE put(_, _, _)
put(k, v, index) ==
  LET s == GetNextKeySlice(k)
      bn == index[s]
      found == Iget_key(index, s)
  IN  CASE ~found -> Iput(index, s, BN_SetValue(BN_NewBorderNode, k, v))
        [] found /\ Ends(k) -> Iput(index, s, BN_SetPrefixValue(bn, Len(k), v))
        [] found /\ ~Ends(k) /\ BN_HasSuffix(bn) ->
             IF BN_TestSuffix(bn, k) THEN Iput(index, s, BN_SetSuffixValue(bn, Rest(k), v))
             ELSE Iput(index, s, SplitSuffix(bn, k, v))
        [] found /\ ~Ends(k) /\ ~BN_HasSuffix(bn) ->
             IF HasLink(bn) THEN Iput(index, s, BN_SetLink(bn, put(Rest(k), v, bn.link)))
             ELSE Iput(index, s, BN_SetSuffixValue(bn, Rest(k), v))

-----------------------------------------------------------------------------
(* Cursors: a stack with one entry for each layer: the index, the slice    *)
(* its node_cursor is at and the position in the border node: a length, or *)
(* L + 1 for the suffix or link, or L + 2 for the end.                     *)

Entry(index, s, i) == [node |-> index, slice |-> s, bnode_cursor |-> i]

\* The capacity stays zero, so every push takes a fresh array for one entry: the
\* second is written past its end, and what comes of that is not said.
push_cursor(e, cursor) == IF cursor = <<>> THEN <<e>> ELSE Overrun

\* The cursors that may come out: BN_CompareSuffix() has no body and may say either.
RECURSIVE make_cursor(_, _, _)
make_cursor(k, index, cursor) ==
  LET s == GetNextKeySlice(k)
      bn == index[s]
      found == Iget_key(index, s)
      Push(i) == push_cursor(Entry(index, s, i), cursor)
  IN  CASE ~found -> {cursor}
        [] found /\ Ends(k) -> {Push(Len(k))}
        [] found /\ ~Ends(k) /\ BN_HasSuffix(bn) -> {Push(L + 1), Push(L + 2)}
        [] found /\ ~Ends(k) /\ ~BN_HasSuffix(bn) ->
             IF HasLink(bn) /\ Push(L + 1) # Overrun
             THEN make_cursor(Rest(k), bn.link, Push(L + 1))
             ELSE {Push(L + 2)}

\* Mutant: the lengths are counted from two.
bordernode_next_cursor_Late(i, bn) ==
  LET set == {j \in (i + 1) .. L : bn.prefix[j] # NULL}
  IN  CASE set # {} -> CHOOSE j \in set : \A h \in set : j <= h
        [] set = {} /\ i <= L + 1 /\ (bn.suffix # NULL \/ bn.link # NULL) -> L + 1
        [] OTHER -> L + 2

\* From position i on, the next one that is taken.
bordernode_next_cursor(i, bn) ==
  LET set == {j \in i .. L : bn.prefix[j] # NULL}
  IN  CASE set # {} -> CHOOSE j \in set : \A h \in set : j <= h
        [] set = {} /\ i <= L + 1 /\ (bn.suffix # NULL \/ bn.link # NULL) -> L + 1
        [] OTHER -> L + 2

\* The cursor at the first key, or NULL where the code returns False.
RECURSIVE strict_first_cursor(_, _)
strict_first_cursor(index, cursor) ==
  IF index = Iempty THEN NULL
  ELSE LET s == Ifirst(index)
           bn == index[s]
           i == bordernode_next_cursor(1, bn)
           pushed == push_cursor(Entry(index, s, i), cursor)
       IN  CASE i <= L \/ (i = L + 1 /\ BN_HasSuffix(bn)) -> pushed
             [] i = L + 1 /\ ~BN_HasSuffix(bn) ->
                  IF pushed = Overrun THEN Overrun ELSE strict_first_cursor(bn.link, pushed)
             [] OTHER -> NULL

-----------------------------------------------------------------------------

\* An index as Iempty() makes it: that put() is given one is assumed, because
\* Sempty() leaves the root of a trie unset.
Init == root = Iempty
Put(k, v) == root' = put(k, v, root)
=============================================================================
