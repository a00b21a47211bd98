--------------------------- MODULE RelationClients ---------------------------
(***************************************************************************)
(* Clients of the relation that walk with a cursor: the integer index of   *)
(* index_int.c and the range query of relapps.c.                           *)
(* Of the index, Imove_cursor is RL_MoveToKey with NULL for False, Iput is *)
(* RL_PutRecord and Ifree_cursor is RL_FreeCursor.                         *)
(***************************************************************************)
EXTENDS BtRelation

\* while(RL_MoveToNextValid(cursor) == True)
ToEnd(h, p) ==
  LET step[i \in Nat] ==
        IF i = 0 THEN AfterNext(h, p)
        ELSE LET q == step[i - 1] IN IF isValid(h, q) THEN AfterNext(h, q) ELSE q
  IN  step[numRecords]

\* A cursor that is not moved to its key is not returned: it is leaked.
Imake_cursor(c, key) ==
  /\ Calls("Imake_cursor")
  /\ path[c] = NULL
  /\ LET p == goToKey(heap, moveToFirst(heap, root, <<>>), key)
         q == Settle(heap, p)
         found == isValid(heap, p) /\ KeyAt(currNode(heap, q), entryIndex(q)) = key
     IN  Moves(c, IF found THEN q ELSE NULL) /\ Returns("Imake_cursor", found)

\* To the end, one step at a time, and one step back.
Ilast_cursor(c) ==
  /\ Uses("Ilast_cursor", c)
  /\ Moves(c, AfterPrev(heap, ToEnd(heap, path[c])))
  /\ Returns("Ilast_cursor", TRUE)

Ifirst_cursor(c) ==
  /\ Uses("Ifirst_cursor", c)
  /\ LET p == moveToFirst(heap, root, <<>>)
     IN  Moves(c, p) /\ Returns("Ifirst_cursor", isValid(heap, p))

\* The index answers with the cursor, wherever it is.
Inext_cursor(c) ==
  /\ Uses("Inext_cursor", c)
  /\ Moves(c, IF numRecords = 0 THEN path[c] ELSE AfterNext(heap, path[c]))
  /\ Returns("Inext_cursor", TRUE)

Iprev_cursor(c) ==
  /\ Uses("Iprev_cursor", c)
  /\ Moves(c, IF numRecords = 0 THEN path[c] ELSE AfterPrev(heap, path[c]))
  /\ Returns("Iprev_cursor", TRUE)

\* The value is an output; the answer is whether there is one.
Iget_value(c) ==
  /\ Uses("Iget_value", c)
  /\ isValid(heap, path[c])
  /\ LET q == Settle(heap, path[c])
     IN  /\ Moves(c, q)
         /\ Returns("Iget_value", currNode(heap, q).entries[entryIndex(q) + 1].ptr # NULL)

\* The key is an output; the answer is whether it is not 0.
Iget_key(c) ==
  /\ Uses("Iget_key", c)
  /\ isValid(heap, path[c])
  /\ LET q == Settle(heap, path[c])
     IN  Moves(c, q) /\ Returns("Iget_key", KeyAt(currNode(heap, q), entryIndex(q)) # 0)

\* The records fit twice the first length: the array grows, arrLength does not.
ArrayRoom == 2 * 2

\* The loop of the range query from cursor p: it ends after the last record, at a key
\* above the range, or when the array is full. RL_GetKey() asserts that the first
\* cursor is valid, and a fifth record is written past the end of the array: whatever
\* happens then, `ok` is FALSE.
Collect(h, p, upper) ==
  LET entry(q) == currNode(h, q).entries[entryIndex(q) + 1]
      past(q) == ~isValid(h, q) \/ entry(q).key > upper
      walk[i \in Nat] ==
        IF i = 0 THEN <<Settle(h, p)>>
        ELSE LET w == walk[i - 1]
             IN  IF past(Last(w)) THEN w ELSE Append(w, Settle(h, AfterNext(h, Last(w))))
      stop == walk[ArrayRoom]
  IN  [ok |-> isValid(h, p) /\ past(Last(stop)), path |-> Last(stop),
       records |-> [i \in 1 .. Len(stop) - 1 |-> entry(stop[i]).ptr]]

\* Mutant: the search for the lower bound is left out.
RLAPP_RangeQuery_FromHere(c, lower, upper) ==
  /\ Uses("RLAPP_RangeQuery", c)
  /\ isValid(heap, path[c])
  /\ LET end == Collect(heap, path[c], upper)
     IN  Moves(c, end.path)
         /\ IF end.ok THEN Returns("RLAPP_RangeQuery", end.records) ELSE Returns("abort", NULL)

\* RL_MoveToKey() returns no negative number, so its answer makes no difference.
RLAPP_RangeQuery(c, lower, upper) ==
  /\ Uses("RLAPP_RangeQuery", c)
  /\ isValid(heap, path[c])
  /\ LET end == Collect(heap, goToKey(heap, path[c], lower), upper)
     IN  Moves(c, end.path)
         /\ IF end.ok THEN Returns("RLAPP_RangeQuery", end.records) ELSE Returns("abort", NULL)

ClientNext ==
  \E c \in Cursor :
    \/ \E key \in Key : Imake_cursor(c, key)
    \/ Ilast_cursor(c)
    \/ Ifirst_cursor(c) \/ Inext_cursor(c) \/ Iprev_cursor(c)
    \/ Iget_key(c) \/ Iget_value(c)
    \/ \E lower, upper \in Key : RLAPP_RangeQuery(c, lower, upper)
=============================================================================
