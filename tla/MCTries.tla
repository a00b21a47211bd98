------------------------------ MODULE MCTries ------------------------------
(* The two tries on the same keys.                                         *)
EXTENDS Tries, MCKVStore
=============================================================================
