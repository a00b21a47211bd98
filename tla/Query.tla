-------------------------------- MODULE Query --------------------------------
(***************************************************************************)
(* The query engine of db_operations_light.c: an index scan that puts the  *)
(* rows of the inner relation into fifos by the values of their join       *)
(* columns, and index joins, iterators which a client opens, steps and     *)
(* closes one call at a time.  All joins use the one index: the fifos that *)
(* they take rows from are the index's own.                                *)
(*                                                                         *)
(* A relation is the list of its rows in the order of the primary key,     *)
(* which is what a scan of its B+tree yields (BtRelation models the tree). *)
(***************************************************************************)
EXTENDS Tables, FiniteSets

CONSTANTS OuterAttrs, InnerAttrs,          \* columns: sequences of [id, domain]
          OuterJoinAttrs, InnerJoinAttrs,  \* the columns to join on
          OuterKey, InnerKey,              \* the offsets of the primary keys
          OuterData, InnerData,            \* the tables a client may load: lists of rows
          Join,                            \* join iterators
          Rounds                           \* how often a client opens each

VARIABLES outer, inner,   \* the relations
          scan,           \* the cursor of index_scan's sequential scan of inner
          ind,            \* the index on inner
          fifo,           \* the fifos, by address
          env,            \* env[j]: the environment of join j, with its outer scan's cursor
          res,            \* res[j]: the rows of j since it was opened
          opened,         \* opened[j]: how often j was opened
          mc              \* a cursor on the string list of the index's first column

vars == <<outer, inner, scan, ind, fifo, env, res, opened, mc>>

-----------------------------------------------------------------------------
(* Rows and columns.                                                       *)

\* The position of the column, from 0, or -1.
get_offset(attrs, id) ==
  LET at == {i \in DOMAIN attrs : attrs[i].id = id}
  IN  IF at = {} THEN -1 ELSE (CHOOSE i \in at : \A j \in at : i <= j) - 1

\* The values of the columns of proj, as a key.
get_projection(attrs, t, proj) ==
  [i \in DOMAIN proj |-> t[get_offset(attrs, proj[i].id) + 1]]

get_schema_aux(d) == IF d = "Int" THEN inthash_schema ELSE stringlist_schema
get_schema(attrs) == [i \in DOMAIN attrs |-> get_schema_aux(attrs[i].domain)]

Schema == get_schema(InnerJoinAttrs)

\* The numbers of K in ascending order.
Ascending(K) ==
  CHOOSE s \in [1 .. Cardinality(K) -> K] : \A i, j \in DOMAIN s : i < j => s[i] < s[j]

\* The rows put one after the other under their primary keys: of two with the
\* same key the later one replaces the earlier one.
index_data(data, ofs) ==
  LET Row(k) == data[CHOOSE i \in DOMAIN data :
                       /\ data[i][ofs + 1] = k
                       /\ \A j \in i + 1 .. Len(data) : data[j][ofs + 1] # k]
      keys == Ascending({data[i][ofs + 1] : i \in DOMAIN data})
  IN  [i \in DOMAIN keys |-> Row(keys[i])]

\* The columns of the inner relation that are not join columns, and those of a row.
Kept == {c \in DOMAIN InnerAttrs : get_offset(InnerJoinAttrs, InnerAttrs[c].id) < 0}
Rest(t) ==
  [n \in 1 .. Cardinality(Kept) |-> t[get_offset(InnerAttrs, InnerAttrs[Ascending(Kept)[n]].id) + 1]]

OuterProj(t) == get_projection(OuterAttrs, t, OuterJoinAttrs)
InnerProj(t) == get_projection(InnerAttrs, t, InnerJoinAttrs)

-----------------------------------------------------------------------------
(* Tables that the functions above accept.                                 *)

\* A size_t, or a string.
Dom(d) == IF d = "Int" THEN Nat ELSE STRING
Attr == [id : STRING, domain : {"Int", "Str"}]

\* The columns have names of their own, and the primary key is a number
\* (db_operations_light.c:285); get_offset finds the columns to join on.
Columns(attrs, join, key) ==
  /\ attrs \in Seq(Attr) /\ join \in Seq(Attr)
  /\ \A c, d \in DOMAIN attrs : attrs[c].id = attrs[d].id => c = d
  /\ \A i \in DOMAIN join : \E c \in DOMAIN attrs : attrs[c] = join[i]
  /\ key + 1 \in DOMAIN attrs /\ attrs[key + 1].domain = "Int"

ASSUME AttrAssumption ==
  /\ Columns(OuterAttrs, OuterJoinAttrs, OuterKey)
  /\ Columns(InnerAttrs, InnerJoinAttrs, InnerKey)
  /\ Len(OuterJoinAttrs) = Len(InnerJoinAttrs)      \* asserted by index_join
  /\ Len(InnerJoinAttrs) > 0
  /\ \A i \in DOMAIN InnerJoinAttrs : InnerJoinAttrs[i].domain = OuterJoinAttrs[i].domain

IsRow(t, attrs) ==
  /\ t = [c \in DOMAIN attrs |-> t[c]] /\ t # NULL
  /\ \A c \in DOMAIN attrs : t[c] \in Dom(attrs[c].domain)
IsTable(data, attrs) ==
  /\ Len(data) \in Nat /\ data = [i \in 1 .. Len(data) |-> data[i]]
  /\ \A i \in DOMAIN data : IsRow(data[i], attrs)

ASSUME DataAssumption ==
  /\ \A d \in OuterData : IsTable(d, OuterAttrs)
  /\ \A d \in InnerData : IsTable(d, InnerAttrs)

\* NULL is no address of a fifo and no index, of some columns or of all.
ASSUME NullAssumption ==
  NULL \notin Nat /\ \A n \in DOMAIN Schema : NULL \notin Indexes(Schema, Nat)[n - 1]

-----------------------------------------------------------------------------
(* The sequential scan of a relation.  Its cursor is a position, and NULL  *)
(* before the scan is initialised and after it is closed.                  *)

seq_scan == NULL
seq_scan_init == 1
seq_scan_next(rel, c) == IF c \in DOMAIN rel THEN rel[c] ELSE NULL
seq_scan_close == NULL

-----------------------------------------------------------------------------

Closed == [cursor |-> seq_scan, current_inner |-> NULL, current_outer |-> NULL]

Init ==
  /\ outer \in {index_data(d, OuterKey) : d \in OuterData}
  /\ inner \in {index_data(d, InnerKey) : d \in InnerData}
  /\ scan = seq_scan_init
  /\ ind = index_new(Schema)
  /\ fifo = <<>>
  /\ env = [j \in Join |-> Closed]
  /\ res = [j \in Join |-> fifo_new]
  /\ opened = [j \in Join |-> 0]
  /\ mc = 0

\* The scan of inner is at its end.
Built == seq_scan_next(inner, scan) = NULL

\* One turn of the loop of index_scan: the next row goes to the end of the fifo
\* of its key.
index_scan ==
  /\ ~Built
  /\ LET t == seq_scan_next(inner, scan)
         found == index_lookup(Schema, ind, InnerProj(t))
         l == IF found = NULL THEN Len(fifo) + 1 ELSE found
     IN  /\ fifo' = IF found = NULL THEN Append(fifo, fifo_put(fifo_new, t))
                    ELSE [fifo EXCEPT ![l] = fifo_put(@, t)]
         /\ ind' = index_insert(Schema, ind, InnerProj(t), l)
  /\ scan' = scan + 1
  /\ UNCHANGED <<outer, inner, env, res, opened, mc>>

-----------------------------------------------------------------------------
(* The join iterators, called by materialize() or by a client.             *)

index_join_init(j) ==
  /\ Built
  /\ env[j] = Closed /\ opened[j] < Rounds
  /\ env' = [env EXCEPT ![j] = [Closed EXCEPT !.cursor = seq_scan_init]]
  /\ res' = [res EXCEPT ![j] = fifo_new]
  /\ opened' = [opened EXCEPT ![j] = @ + 1]
  /\ UNCHANGED <<outer, inner, scan, ind, fifo, mc>>

\* The fifo for the outer row at position p.
Lookup(p) == index_lookup(Schema, ind, OuterProj(outer[p]))
HasInner(l) == IF l = NULL THEN FALSE ELSE ~fifo_empty(fifo[l])

\* The outer rows still to come that find an inner row.
Matching(e) == {p \in e.cursor .. Len(outer) : HasInner(Lookup(p))}

\* Mutant: one outer row is tried, not as many as it takes.
Advance_Once(e) ==
  IF HasInner(e.current_inner) \/ e.cursor > Len(outer) THEN e
  ELSE [cursor |-> e.cursor + 1, current_inner |-> Lookup(e.cursor),
        current_outer |-> IF HasInner(Lookup(e.cursor)) THEN outer[e.cursor] ELSE NULL]

\* Mutant: the outer row of the first call is kept.
Advance_FirstOuter(e) ==
  IF HasInner(e.current_inner) \/ Matching(e) = {} THEN [e EXCEPT !.current_outer = NULL]
  ELSE LET p == CHOOSE q \in Matching(e) : \A r \in Matching(e) : q <= r
       IN  [cursor |-> p + 1, current_inner |-> Lookup(p),
            current_outer |-> IF e.current_outer = NULL THEN outer[p] ELSE e.current_outer]

\* The loop of index_join_next: unless there are inner rows left, on to the next
\* outer row that has some, or to the end.
Advance(e) ==
  CASE HasInner(e.current_inner) -> e
    [] ~HasInner(e.current_inner) /\ Matching(e) # {} ->
         LET p == CHOOSE q \in Matching(e) : \A r \in Matching(e) : q <= r
         IN  [cursor |-> p + 1, current_inner |-> Lookup(p), current_outer |-> outer[p]]
    [] OTHER ->
         [cursor |-> Len(outer) + 1,
          current_inner |-> IF e.cursor > Len(outer) THEN e.current_inner ELSE Lookup(Len(outer)),
          current_outer |-> NULL]

\* Mutant: the inner row stays in the fifo, so that the next outer row finds it too.
fifo_get_Keep(l) == [fifo EXCEPT ![l] = IF Len(@) = 1 THEN @ ELSE Tail(@)]

\* The first element is taken out.
fifo_get(l) == [fifo EXCEPT ![l] = Tail(@)]

\* index_join_next returns a row.
index_join_next(j) ==
  /\ env[j] # Closed
  /\ \E e \in {Advance(env[j])} :
       /\ e.current_outer # NULL
       /\ env' = [env EXCEPT ![j] = e]
       /\ fifo' = fifo_get(e.current_inner)
       /\ res' = [res EXCEPT ![j] = fifo_put(@, e.current_outer \o Rest(Head(fifo[e.current_inner])))]
  /\ UNCHANGED <<outer, inner, scan, ind, opened, mc>>

\* index_join_next returns NULL, and the caller closes the iterator.
index_join_close(j) ==
  /\ env[j] # Closed
  /\ Advance(env[j]).current_outer = NULL
  /\ env' = [env EXCEPT ![j] = [Closed EXCEPT !.cursor = seq_scan_close]]
  /\ UNCHANGED <<outer, inner, scan, ind, fifo, res, opened, mc>>

-----------------------------------------------------------------------------
(* A cursor on the first column's string list, while the index grows.      *)

OnList == Head(InnerJoinAttrs).domain = "Str"
FirstColumn(t) == t[get_offset(OuterAttrs, Head(OuterJoinAttrs).id) + 1]

get_cursor ==
  /\ OnList
  /\ \E k \in {FirstColumn(t) : t \in ToSet(outer)} :
       mc' = stringlist_get_cursor(ind, k)
  /\ UNCHANGED <<outer, inner, scan, ind, fifo, env, res, opened>>

move_to_next ==
  /\ OnList
  /\ mc' = stringlist_move_to_next(ind, mc)
  /\ UNCHANGED <<outer, inner, scan, ind, fifo, env, res, opened>>

move_to_first ==
  /\ OnList
  /\ mc' = 0
  /\ UNCHANGED <<outer, inner, scan, ind, fifo, env, res, opened>>

-----------------------------------------------------------------------------

\* The methods of an iterator in the order in which materialize() calls them.
materialize(j) == index_join_init(j) \/ index_join_next(j) \/ index_join_close(j)

Next ==
  \/ index_scan
  \/ \E j \in Join : materialize(j)
  \/ get_cursor
  \/ move_to_next
  \/ move_to_first

Spec == Init /\ [][Next]_vars
=============================================================================
