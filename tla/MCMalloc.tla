------------------------------ MODULE MCMalloc ------------------------------
(* A machine with words of two bytes and two bins, for blocks of 2 and of 6  *)
(* bytes: a mapping is cut into four blocks or into two.                    *)
EXTENDS MallocProps

MCAddr == 1 .. 21
MCBase == {2, 12}

\* Sizes on both sides of each border between bins.
MCRequest == {2, 3, 6, 7}
MCWord == {7}

\* Bound: a client fills a block as soon as it has got it, so that which link was
\* last stored in a block in use does not tell states apart.
Prompt == \A p \in Addr : held[p] # NONE /\ mem[p] \notin MCWord => mem'[p] \in MCWord
MCSpec == Init /\ [][Next /\ Prompt]_vars
=============================================================================
