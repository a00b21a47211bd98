------------------------------ MODULE MCBstMain ------------------------------
(* The program of bst_conc.c for TLC: room for its three keys.             *)
EXTENDS BstMain

CONSTANT MaxNode

MCNode == 0 .. MaxNode
MCRoot == 0

\* malloc() takes the lowest free addresses: addresses are interchangeable.
LowestFirst ==
  live' \subseteq live \/ \A n \in live' \ live, m \in Node \ live' : n < m
=============================================================================
