----------------------------- MODULE MCBtRelation -----------------------------
(* An instance of the B+tree for TLC.                                      *)
EXTENDS BtRelationProof

CONSTANTS MaxKey, MaxNode

MCKey == 0 .. MaxKey - 1
MCNode == 1 .. MaxNode

ClientOps == {"Imake_cursor", "Ilast_cursor", "Ifirst_cursor", "Inext_cursor",
              "Iprev_cursor", "Iget_key", "Iget_value", "RLAPP_RangeQuery"}

AllOps == ClientOps \cup
          {"RL_NewCursor", "RL_FreeCursor", "RL_PutRecord", "RL_MoveToKey",
           "RL_GetRecord", "RL_GetKey", "RL_MoveToFirst", "RL_MoveToNextValid",
           "RL_MoveToPreviousNotFirst", "RL_DeleteRecord", "RL_IsEmpty",
           "RL_CursorIsValid", "RL_NumRecords", "RL_DeleteRelation"}

\* Bound: what a call does depends on the tree and the cursor and not on the call before
\* it. Calls are taken after those that bring the tree and the cursor to every state they
\* reach at all; after any other, the cursor is freed, or made if there is none.
AfterMove ==
  op \in {"RL_NewRelation", "RL_NewCursor", "RL_FreeCursor", "RL_PutRecord", "RL_MoveToKey"}

MCNext ==
  \/ AfterMove /\ (Next \/ ClientNext)
  \/ ~AfterMove /\ (Ended \/ \E c \in Cursor : RL_FreeCursor(c) \/ RL_NewCursor(c))

MCSpec == Init /\ [][MCNext /\ ShallowSteps]_vars

\* Two cursors that are moved to keys and put.
TwoPutOps == {"RL_NewCursor", "RL_PutRecord", "RL_MoveToKey"}

Symmetry == Permutations(Record)
=============================================================================
