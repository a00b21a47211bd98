----------------------------- MODULE BorderNode -----------------------------
(***************************************************************************)
(* Key slices and the border nodes of bordernode.c.  A string is a         *)
(* sequence of Chars.  A border node stands for all keys with one slice:   *)
(* the keys that end in the slice, by their length, and either one longer  *)
(* key, whose rest is `suffix` and whose value is `link`, or a link to the *)
(* next layer, when there is no suffix.                                    *)
(***************************************************************************)
EXTENDS Integers, Sequences

CONSTANTS L,        \* KEY_SLICE_LENGTH: 8 bytes
          Char,     \* the values of a byte; 0 among them
          Value,    \* what clients store
          KVNode,   \* addresses of trie nodes
          NULL

ASSUME SliceAssumption == L \in Nat \ {0} /\ 0 \in Char

Slice == [1 .. L -> Char]
String == Seq(Char)

\* Mutant: only a key shorter than a slice ends in it.
Ends_Shorter(k) == Len(k) < L

\* Key k ends in its next slice.
Ends(k) == Len(k) <= L

\* UTIL_GetNextKeySlice() of the first L bytes: padded with zeroes.
NextKeySlice(k) == [i \in 1 .. L |-> IF i <= Len(k) THEN k[i] ELSE 0]

\* k->str += KEY_SLICE_LENGTH, k->len -= KEY_SLICE_LENGTH
Rest(k) == SubSeq(k, L + 1, Len(k))

Border == [prefix : [1 .. L -> Value \cup {NULL}],
           suffix : String \cup {NULL},
           link : Value \cup KVNode \cup {NULL}]

\* What is no value, no address, no string and no border node.
ASSUME NullAssumption ==
  /\ NULL \notin Value /\ NULL \notin KVNode /\ NULL \notin String
  /\ NULL \notin Border /\ NULL \notin [Slice -> Border \cup {NULL}]

BN_NewBorderNode == [prefix |-> [i \in 1 .. L |-> NULL], suffix |-> NULL, link |-> NULL]

\* These two assert 0 < i <= L.
BN_SetPrefixValue(bn, i, val) == [bn EXCEPT !.prefix[i] = val]
BN_GetPrefixValue(bn, i) == bn.prefix[i]

BN_SetSuffixValue(bn, suffix, val) == [bn EXCEPT !.suffix = suffix, !.link = val]
BN_HasSuffix(bn) == bn.suffix # NULL
BN_TestSuffix(bn, k) == BN_HasSuffix(bn) /\ Rest(k) = bn.suffix
BN_GetSuffixValue(bn, suf) == IF bn.suffix = suf THEN bn.link ELSE NULL

\* The suffix and its value are moved out: to the caller's sndKey and sndValue.
BN_ExportSuffixValue(bn) == [bn EXCEPT !.suffix = NULL, !.link = NULL]

BN_SetLink(bn, n) == [bn EXCEPT !.suffix = NULL, !.link = n]
BN_GetLink(bn) == IF BN_HasSuffix(bn) THEN NULL ELSE bn.link

BN_SetValue(bn, k, val) ==
  IF Ends(k) THEN BN_SetPrefixValue(bn, Len(k), val)
  ELSE BN_SetSuffixValue(bn, Rest(k), val)
=============================================================================
