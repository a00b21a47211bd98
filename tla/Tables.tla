------------------------------- MODULE Tables -------------------------------
(***************************************************************************)
(* The unordered tables of the query engine, inthash.c and stringlist.c,   *)
(* and the indexes on several columns that tuple_schema.c builds of them.  *)
(* A table is a value here: each is reached by one pointer only, and       *)
(* inserting gives the table afterwards.                                   *)
(***************************************************************************)
EXTENDS Integers, Sequences, SequencesExt

CONSTANTS NULL

\* Buckets of an inthash.
N == 10

-----------------------------------------------------------------------------
(* Lists of cells, which hash buckets and string lists are both.           *)

Cells(q, key) == {i \in DOMAIN q : q[i].key = key}

lookup(q, key) ==
  IF Cells(q, key) = {} THEN NULL ELSE q[CHOOSE i \in Cells(q, key) : TRUE].value

\* Mutant: a new cell goes to the front.
stringlist_insert_Front(p, key, value) ==
  IF Cells(p, key) # {}
  THEN [i \in DOMAIN p |-> IF p[i].key = key THEN [p[i] EXCEPT !.value = value] ELSE p[i]]
  ELSE <<[key |-> key, value |-> value]>> \o p

\* The cell of the key gets the value; a new one goes to the end.
stringlist_insert(p, key, value) ==
  IF Cells(p, key) # {}
  THEN [i \in DOMAIN p |-> IF p[i].key = key THEN [p[i] EXCEPT !.value = value] ELSE p[i]]
  ELSE Append(p, [key |-> key, value |-> value])

stringlist_new == <<>>
stringlist_lookup(p, key) == lookup(p, key)

inthash_new == [b \in 0 .. N - 1 |-> <<>>]
inthash_lookup(p, key) == lookup(p[key % N], key)

\* Mutant: every key of a bucket shares one cell.
inthash_insert_Bucket(p, key, value) ==
  [p EXCEPT ![key % N] = <<[key |-> key, value |-> value]>>]

inthash_insert(p, key, value) ==
  [p EXCEPT ![key % N] = stringlist_insert(@, key, value)]

-----------------------------------------------------------------------------
(* Cursors of string lists.                                                *)

stringlist_cardinality(p) == Len(p)

\* A key that is not there gives the first position.
stringlist_get_cursor(p, key) ==
  IF Cells(p, key) = {} THEN 0 ELSE (CHOOSE i \in Cells(p, key) : TRUE) - 1

\* Past the last cell the code returns a pointer it has not set.
Valid(p, cur) == 0 <= cur /\ cur < stringlist_cardinality(p)
stringlist_get_pair(p, cur) == p[cur + 1]

\* One past the end, and from there back to the last cell, or to -1 if there is none.
stringlist_move_to_next(p, cur) ==
  CASE cur + 1 > stringlist_cardinality(p) -> stringlist_cardinality(p) - 1
    [] OTHER -> cur + 1

-----------------------------------------------------------------------------
(* Indexes.  A schema says what an index is made of.  Those of the engine  *)
(* are columns paired to the right, and so are their keys: a schema is the *)
(* sequence of the schemas of its columns here, a key of as many values.   *)

inthash_schema == "inthash"
stringlist_schema == "stringlist"

\* A new index is an empty table for the first column.
index_new(sch) == IF Head(sch) = inthash_schema THEN inthash_new ELSE stringlist_new
tuple_new_method(sch, n) == index_new(SubSeq(sch, n + 1, Len(sch)))

\* The methods of one column.
schema_lookup(s, ind, key) ==
  IF s = inthash_schema THEN inthash_lookup(ind, key) ELSE stringlist_lookup(ind, key)
schema_insert(s, ind, key, val) ==
  IF s = inthash_schema THEN inthash_insert(ind, key, val) ELSE stringlist_insert(ind, key, val)

\* The inner index behind the first n parts of the key, or NULL; behind all
\* of them, the value.
tuple_lookup_method(sch, ind, key) ==
  LET bindex[n \in 0 .. Len(sch)] ==
        IF n = 0 THEN ind
        ELSE IF bindex[n - 1] = NULL THEN NULL
        ELSE schema_lookup(sch[n], bindex[n - 1], key[n])
  IN  bindex

index_lookup(sch, ind, key) == tuple_lookup_method(sch, ind, key)[Len(sch)]

\* The same indexes afterwards, new ones among them.  An inner index is put back
\* under its part of the key: here it is a value, in the code it is changed where it is.
tuple_insert_method(sch, ind, key, val) ==
  LET found == tuple_lookup_method(sch, ind, key)
      bindex[n \in 0 .. Len(sch)] ==
        IF n = Len(sch) THEN val
        ELSE schema_insert(sch[n + 1],
                           IF found[n] = NULL THEN tuple_new_method(sch, n) ELSE found[n],
                           key[n + 1], bindex[n + 1])
  IN  bindex

index_insert(sch, ind, key, val) == tuple_insert_method(sch, ind, key, val)[0]

\* What the indexes are that a lookup in one with these values comes through.
Table(s, V) ==
  IF s = inthash_schema THEN [0 .. N - 1 -> Seq([key : Nat, value : V])]
  ELSE Seq([key : STRING, value : V])

Indexes(sch, Values) ==
  LET index[n \in 0 .. Len(sch)] ==
        IF n = Len(sch) THEN Values ELSE Table(sch[n + 1], index[n + 1])
  IN  index

-----------------------------------------------------------------------------
(* Fifos, as the sequences of their elements.                              *)

fifo_new == <<>>
fifo_put(Q, p) == Append(Q, p)
fifo_empty(Q) == Q = <<>>
=============================================================================
