----------------------------- MODULE SortedMap -----------------------------
(***************************************************************************)
(* What relation.h and relapps.h promise, and nothing else: a map from     *)
(* keys to records in the order of its keys, and cursors that stand at a   *)
(* key or, invalid, after the last.  Where the code does otherwise, see    *)
(* Departures.                                                             *)
(***************************************************************************)
EXTENDS Integers, FiniteSets

CONSTANTS Cursor,     \* the cursors
          Key,        \* the keys, numbers
          Record,     \* the records
          NULL,       \* no record; no cursor
          END         \* where an invalid cursor stands

VARIABLES map,        \* map[k]: the record of key k, or NULL
          pos,        \* pos[c]: the key at which cursor c stands, END, or NULL
          op,         \* the last operation,
          ret         \* and what it returned

vars == <<map, pos, op, ret>>

Present == LET m == map IN {k \in Key : m[k] # NULL}

\* The least of a set of keys, or END; the greatest, or what it is when empty.
Least(S) == IF S = {} THEN END ELSE CHOOSE k \in S : \A j \in S : k <= j
Greatest(S, none) == IF S = {} THEN none ELSE CHOOSE k \in S : \A j \in S : j <= k

NextKey(p) == IF p = END THEN END ELSE Least({k \in Present : k > p})
Before(p) == {k \in Present : p = END \/ k < p}
PrevKey(p) == Greatest(Before(p), p)

Init ==
  /\ map = [k \in Key |-> NULL]
  /\ pos = [c \in Cursor |-> NULL]
  /\ op = "RL_NewRelation"
  /\ ret = TRUE

Exists(c) == pos[c] # NULL

Moves(c, p) == pos' = [pos EXCEPT ![c] = p] /\ UNCHANGED map
Returns(o, v) == op' = o /\ ret' = v

\* "On creation, cursor is invalid."
NewCursor(c) ==
  /\ Returns("RL_NewCursor", TRUE)
  /\ ~Exists(c)
  /\ Moves(c, END)

FreeCursor(c) ==
  /\ Returns("RL_FreeCursor", TRUE)
  /\ Exists(c)
  /\ Moves(c, NULL)

\* "Leave the cursor at next key's position."
PutRecord(c, k, r) ==
  /\ Returns("RL_PutRecord", TRUE)
  /\ Exists(c)
  /\ map' = [map EXCEPT ![k] = r]
  /\ pos' = [pos EXCEPT ![c] = NextKey(k)]

MoveToKey(c, k) ==
  /\ Returns("RL_MoveToKey", k \in Present)
  /\ Exists(c)
  /\ Moves(c, Least({j \in Present : j >= k}))

GetRecord(c) ==
  /\ Returns("RL_GetRecord", map[pos[c]])
  /\ Exists(c) /\ pos[c] # END
  /\ UNCHANGED <<map, pos>>

GetKey(c) ==
  /\ Returns("RL_GetKey", pos[c])
  /\ Exists(c) /\ pos[c] # END
  /\ UNCHANGED <<map, pos>>

MoveToFirst(c) ==
  /\ \E o \in {"RL_MoveToFirst", "Ifirst_cursor"} : Returns(o, Present # {})
  /\ Exists(c)
  /\ Moves(c, Least(Present))

MoveToNext(c) ==
  /\ \/ Returns("RL_MoveToNextValid", NextKey(pos[c]) # END)
     \/ Returns("Inext_cursor", TRUE)
  /\ Exists(c)
  /\ Moves(c, NextKey(pos[c]))

\* "If there is a previous record, return True. If no previous record, return False."
MoveToPrevious(c) ==
  /\ \/ Returns("RL_MoveToPreviousNotFirst", Before(pos[c]) # {})
     \/ Returns("Iprev_cursor", TRUE)
  /\ Exists(c)
  /\ Moves(c, PrevKey(pos[c]))

\* "Delete key and its record from cursor's relation. Cursor is invalid."
DeleteRecord(c, k) ==
  /\ \E done \in BOOLEAN : Returns("RL_DeleteRecord", done)
  /\ Exists(c)
  /\ map' = [map EXCEPT ![k] = NULL]
  /\ pos' = [pos EXCEPT ![c] = END]

Count(c) ==
  /\ \/ Returns("RL_IsEmpty", Present = {})
     \/ Returns("RL_CursorIsValid", pos[c] # END)
     \/ Returns("RL_NumRecords", Cardinality(Present))
  /\ Exists(c)
  /\ UNCHANGED <<map, pos>>

-----------------------------------------------------------------------------
(* The clients of the relation.                                            *)

\* A cursor is made at its key; if the key is absent none is returned.
MakeCursor(c, k) ==
  /\ Returns("Imake_cursor", k \in Present)
  /\ ~Exists(c)
  /\ Moves(c, IF k \in Present THEN k ELSE NULL)

MoveToLast(c) ==
  /\ Returns("Ilast_cursor", TRUE)
  /\ Exists(c)
  /\ Moves(c, Greatest(Present, END))

\* There is a key, and a value.
GetEntry(c) ==
  /\ Returns("Iget_key", TRUE) \/ Returns("Iget_value", TRUE)
  /\ Exists(c) /\ pos[c] # END
  /\ UNCHANGED <<map, pos>>

\* relapps.h:22: "Returns records of keys between lower and upper (inlusive)", NULL and
\* zero if there are none.  Where the cursor is left is not said: at the next key.
RangeQuery(c, lower, upper) ==
  LET above == {k \in Present : k >= lower}
      within == {k \in above : k <= upper}
      ith(i) == CHOOSE k \in within : Cardinality({j \in within : j <= k}) = i
  IN  /\ Returns("RLAPP_RangeQuery", [i \in 1 .. Cardinality(within) |-> map[ith(i)]])
      /\ Exists(c) /\ pos[c] # END
      /\ Moves(c, Least(above \ within))

\* When the relation is gone nothing is promised of its contents.
DeleteRelation ==
  /\ Returns("RL_DeleteRelation", TRUE)
  /\ \A c \in Cursor : ~Exists(c)
  /\ map' \in [Key -> Record \cup {NULL}]
  /\ UNCHANGED pos

Next ==
  \/ DeleteRelation
  \/ \E c \in Cursor :
       \/ NewCursor(c) \/ FreeCursor(c)
       \/ \E k \in Key, r \in Record : PutRecord(c, k, r)
       \/ \E k \in Key : MoveToKey(c, k)
       \/ \E k \in Key : DeleteRecord(c, k)
       \/ GetRecord(c) \/ GetKey(c)
       \/ MoveToFirst(c) \/ MoveToNext(c) \/ MoveToPrevious(c)
       \/ Count(c)
       \/ \E k \in Key : MakeCursor(c, k)
       \/ MoveToLast(c) \/ GetEntry(c)
       \/ \E lower, upper \in Key : RangeQuery(c, lower, upper)

Spec == Init /\ [][Next]_vars
=============================================================================
