----------------------------- MODULE MCKVStore -----------------------------
(* Instances of the key-value store for TLC: slices of two characters.     *)
EXTENDS KVStoreProof

CONSTANTS MaxNode

MCNode == 0 .. MaxNode

\* Keys of one to three slices that share none, one or two of them.  Of some pairs one
\* ends in a slice that the other has too: <<1, 0, 1>> and <<1, 0, 1, 0>> (a zero at the
\* end), <<1, 0, 1, 1>> and <<1, 0, 1, 1, 1>> (one more character).
PairKeys == {<<1, 0>>, <<1, 0, 1>>, <<1, 0, 1, 0>>, <<1, 0, 1, 1>>, <<1, 0, 1, 1, 1>>,
             <<1, 0, 1, 1, 0>>}

\* Without one of them, and with the empty key, which aborts.
TrieKeys == (PairKeys \ {<<1, 0, 1, 1>>}) \cup {<<>>}
=============================================================================
