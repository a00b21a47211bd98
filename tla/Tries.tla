-------------------------------- MODULE Tries --------------------------------
(***************************************************************************)
(* The two tries of the repository, kvstore.c and the port of it in        *)
(* index_string.c, side by side: each put in the one, a call of several    *)
(* steps, is paired with a put in the other, which is one step.            *)
(***************************************************************************)
EXTENDS KVStoreProps

CONSTANT Overrun   \* a cursor of the port that was written past the end of its array

VARIABLES root,    \* the port
          said     \* said[k]: the value last put under k

Port == INSTANCE IndexString

tvars == <<vars, root, said>>

TInit == Init /\ Port!Init /\ said = [k \in Key |-> NULL]

PutBoth(k, v) ==
  /\ KV_Put(k, v)
  /\ Port!Put(k, v)
  /\ said' = [said EXCEPT ![k] = v]

Running == Step /\ UNCHANGED <<root, said>>

StoreOnly ==
  \/ (\E k \in Key : KV_Get(k)) /\ UNCHANGED <<root, said>>
  \/ Running
  \/ Aborted /\ UNCHANGED <<root, said>>

TNext == StoreOnly \/ \E k \in Key, v \in Value : PutBoth(k, v)

TSpec == TInit /\ [][TNext]_tvars

\* The client's thread runs.
TFairSpec == TSpec /\ WF_tvars(Running)

-----------------------------------------------------------------------------

\* What the border nodes of the port on the way of k have for it.
RECURSIVE In(_, _)
In(index, k) ==
  LET bn == index[Port!GetNextKeySlice(k)]
  IN  CASE bn = NULL -> NULL
        [] bn # NULL /\ Ends(k) -> Port!BN_GetPrefixValue(bn, Len(k))
        [] bn # NULL /\ ~Ends(k) /\ Port!HasLink(bn) -> In(bn.link, Rest(k))
        [] OTHER -> IF Port!BN_TestSuffix(bn, k) THEN bn.link ELSE NULL

\* No slice of k is the number 0, which the indexes for slices take for no key.
NoZeroSlice(k) == \A d \in 0 .. Len(k) : L * d < Len(k) => NextKeySlice(After(k, d)) # NextKeySlice(<<>>)

\* The port's put() keeps a map, on keys for which kvstore.c is none: each key has
\* the value last put under it, whichever keys have been pushed down with it or put
\* into its border node.
PortIsMap == \A k \in Key : k # <<>> /\ NoZeroSlice(k) => In(root, k) = said[k]

\* The order of strings.
Before(k, m) ==
  \E i \in 1 .. Len(m) :
    /\ i <= Len(k) => k[i] < m[i]
    /\ i - 1 <= Len(k)
    /\ \A j \in 1 .. i - 1 : k[j] = m[j]

\* strict_first_cursor(), if it does not overrun its array, makes a cursor that
\* make_cursor() makes too for the least of the keys but the empty one, the shortest of
\* those that share a slice first; it finds none if there is none, and if the empty key
\* is alone in its border node, which is then the first.
FirstIsLeast ==
  LET there == {k \in Key \ {<<>>} : said[k] # NULL}
      zero == root[Port!GetNextKeySlice(<<>>)]
      alone == zero # NULL /\ zero = Port!BN_SetPrefixValue(Port!BN_NewBorderNode, 0, zero.prefix[0])
      first == Port!strict_first_cursor(root, <<>>)
  IN  first # Overrun =>
        IF there = {} \/ alone THEN first = NULL
        ELSE first \in Port!make_cursor(CHOOSE k \in there : \A m \in there : ~Before(m, k), root, <<>>)
=============================================================================
