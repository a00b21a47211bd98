------------------------------ MODULE MCQuery ------------------------------
(* The relations of db_testing.c with a second join column: outer rows have  *)
(* A (the primary key), B and D, inner rows B, D and C (the primary key).    *)
(* The integers 1 and 11 share a bucket.                                     *)
EXTENDS QueryProps

Col(id, domain) == [id |-> id, domain |-> domain]
MCOuterAttrs == <<Col("A", "Int"), Col("B", "Str"), Col("D", "Int")>>
MCInnerAttrs == <<Col("B", "Str"), Col("D", "Int"), Col("C", "Int")>>
MCJoinAttrs == <<Col("B", "Str"), Col("D", "Int")>>

B == {"one", "two"}
D == {1, 11}

\* Three outer rows; three inner rows, of which the last two may have the same
\* primary key; and empty tables.
MCOuterData ==
  {<<<<1, b1, d1>>, <<0, b2, d2>>, <<2, "one", 1>>>> : b1 \in B, d1 \in D, b2 \in B, d2 \in D}
    \cup {<<>>}
MCInnerData ==
  {<<<<b1, d1, 10>>, <<b2, d2, 12>>, <<b3, d3, c>>>> :
     b1 \in B, d1 \in D, b2 \in B, d2 \in D, b3 \in B, d3 \in D, c \in {12, 13}}
    \cup {<<>>}

\* Bound: the cursor moves while the list grows only.
MCSpec == Init /\ [][Next /\ (Built => mc' = mc)]_vars
=============================================================================
