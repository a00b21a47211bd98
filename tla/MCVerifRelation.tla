--------------------------- MODULE MCVerifRelation ---------------------------
(* An instance of VerifRelation for TLC: keys are numbered, and so are nodes. *)
EXTENDS VerifRelationProps

CONSTANTS MaxKey, MaxNode

MCKey == 1 .. MaxKey
MCNode == 1 .. MaxNode
MCMiddle == (FANOUT + 1) \div 2

\* A bound: only the record of key 2 takes more than one value.
Plain == CHOOSE r \in Record : TRUE
OneVaries == \A k \in Key \ {2} : Map[k] \in {Plain, NULL}

MCSpec == Init /\ [][Next /\ OneVaries']_vars
=============================================================================
