----------------------------- MODULE Departures -----------------------------
(***************************************************************************)
(* Where relation_mem.c and its clients do not keep what their headers     *)
(* promise.  Each action is a call that SortedMap has no step for: what    *)
(* the code does, and in which case, against the line of the header.       *)
(***************************************************************************)
EXTENDS SortedMap

\* relation.h:38, "On creation, cursor is invalid": it is at the first record, if any.
NewCursorAtFirst(c) ==
  /\ Returns("RL_NewCursor", TRUE)
  /\ ~Exists(c)
  /\ Present # {}
  /\ Moves(c, Least(Present))

\* relation.h:89, "If there is a previous record, return True": there is one, the first,
\* the cursor is moved to it, and the answer is False.
PreviousIsFirst(c) ==
  /\ Returns("RL_MoveToPreviousNotFirst", FALSE)
  /\ Exists(c)
  /\ Before(pos[c]) # {} /\ PrevKey(pos[c]) = Least(Present)
  /\ Moves(c, PrevKey(pos[c]))

\* relation.h:72, "Delete key and its record [...] Cursor is invalid": nothing is done.
NothingDeleted(c) ==
  /\ Returns("RL_DeleteRecord", FALSE)
  /\ Exists(c)
  /\ UNCHANGED <<map, pos>>

RelationDeparts(c) == NewCursorAtFirst(c) \/ PreviousIsFirst(c) \/ NothingDeleted(c)

\* relapps.h:22, an array of the records, or NULL "if there are no keys in the given
\* range": the process fails if no key is at or above the lower bound, or on a fifth
\* record.
RangeAborts(c, lower, upper) ==
  LET above == {k \in Present : k >= lower}
  IN  /\ Returns("abort", NULL)
      /\ Exists(c) /\ pos[c] # END
      /\ above = {} \/ Cardinality({k \in above : k <= upper}) > 4
      /\ \A d \in Cursor \ {c} : pos'[d] = pos[d]
      /\ UNCHANGED map

\* relation.h:26, a key is any unsigned long: Iget_key answers at key 0 that there is none.
KeyZeroDenied(c) ==
  /\ Returns("Iget_key", FALSE)
  /\ Exists(c) /\ pos[c] = 0
  /\ UNCHANGED <<map, pos>>

ClientDeparts(c) ==
  KeyZeroDenied(c) \/ \E lower, upper \in Key : RangeAborts(c, lower, upper)
=============================================================================
