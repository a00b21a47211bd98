---------------------------- MODULE KVStoreProps ----------------------------
(***************************************************************************)
(* What makes the key-value store correct.                                 *)
(***************************************************************************)
EXTENDS KVStore

-----------------------------------------------------------------------------
(* The map that the trie stands for.                                       *)

\* The rest of key k in layer d.
After(k, d) == SubSeq(k, L * d + 1, Len(k))

\* What border node bn of the slice of s has for s, the rest of a key: its value,
\* and the node of the next layer, where it goes on.
ValueIn(bn, s) ==
  IF bn = NULL \/ s = <<>> THEN NULL
  ELSE IF Ends(s) THEN BN_GetPrefixValue(bn, Len(s))
  ELSE IF BN_HasSuffix(bn) THEN BN_GetSuffixValue(bn, Rest(s)) ELSE NULL

NextIn(bn, s) == IF bn = NULL \/ Ends(s) THEN NULL ELSE BN_GetLink(bn)

\* The node of trie nd that key k comes to in each layer, NULL where it comes to none.
LayersOf(nd, k) ==
  LET layer[d \in Nat] ==
        IF d = 0 THEN rootNode
        ELSE LET n == layer[d - 1]
                 s == After(k, d - 1)
             IN  IF n = NULL THEN NULL ELSE NextIn(nd[n][NextKeySlice(s)], s)
  IN  layer

\* The value of key k in trie nd: what the last of these nodes has for it.
Find(nd, k) ==
  LET layer == LayersOf(nd, k)
      last == CHOOSE d \in 0 .. Len(k) : layer[d] # NULL /\ layer[d + 1] = NULL
      s == After(k, last)
  IN  ValueIn(nd[layer[last]][NextKeySlice(s)], s)

\* The whole of the key that KV_Put has taken out and not put back yet.
Moving == SubSeq(call.key, 1, Len(call.key) - Len(key)) \o sndKey

\* The key being moved is on its way: it is in the store all the time.
Map ==
  [k \in Key |->
     IF pc \in {"put", "again"} /\ sndKey # NULL /\ k = Moving THEN sndValue
     ELSE Find(node, k)]

Phase == CASE pc \in {"put", "get", "aborted"} -> "called"
           [] pc \in {"again", "done"} -> "done"
           [] OTHER -> "idle"

Client == {"client"}
Abstract ==
  INSTANCE AtomicMap WITH
    Thread <- Client,
    map <- Map,
    phase <- [t \in Client |-> Phase],
    call <- [t \in Client |-> call],
    ret <- [t \in Client |-> ret]

\* KV_Put never meets case 0.0.0: no two keys that share a whole slice or more
\* have the same next slice where one of them ends.
KeysApart ==
  \A j, k \in Key : \A d \in 1 .. Len(j) :
    /\ j # k
    /\ L * d < Len(j) /\ L * d < Len(k)
    /\ \A i \in 1 .. L * d : j[i] = k[i]
    /\ NextKeySlice(After(j, d)) = NextKeySlice(After(k, d))
    => ~Ends(After(j, d)) /\ ~Ends(After(k, d))

\* Every step is one of the map, case 0.0.0 alone excepted (OthersKept shows what
\* that does): a put changes the value of its key and of no other, however many
\* keys it pushes down, and a get returns the value that its key has.
ImplementsMap == Abstract!Init /\ [][PutPair \/ [Abstract!Next]_(Abstract!vars)]_vars

-----------------------------------------------------------------------------

\* numKeys counts the keys: the step that gives the key of a put its first value
\* counts one, at one of five places, and no other step does, no update and not the
\* further round of the loop.  (What case 0.0.0 loses stays counted.)
CountsNewKeys ==
  [][numKeys' = IF pc = "put" /\ Map[call.key] = NULL /\ Map'[call.key] # NULL
                THEN numKeys + 1 ELSE numKeys]_vars

\* The shape of the trie: the layers are a tree; a key that ends in a slice is
\* as long as its slot says, up to zeroes; a suffix has at least one character.
TrieShape ==
  LET layers == {n \in KVNode : node[n] # NULL}
      Links(n) == {s \in Slice : node[n][s] # NULL /\ BN_GetLink(node[n][s]) # NULL}
  IN  /\ \A n \in layers : \A s \in Links(n) :
           /\ BN_GetLink(node[n][s]) \in layers \ {rootNode}
           /\ \A m \in layers : \A r \in Links(m) :
                BN_GetLink(node[m][r]) = BN_GetLink(node[n][s]) => m = n /\ r = s
      /\ layers = {rootNode} \cup
           UNION {{BN_GetLink(node[n][s]) : s \in Links(n)} : n \in layers}
      /\ \A n \in layers, s \in Slice : node[n][s] # NULL =>
           /\ node[n][s].suffix # <<>>
           /\ \A i \in 1 .. L : node[n][s].prefix[i] # NULL =>
                \A j \in i + 1 .. L : s[j] = 0

\* Every call returns, or the process aborts: KV_Put leaves its loop and KV_Get
\* comes to the end of the key.
EveryCallReturns == pc \in {"put", "again", "get"} ~> pc \in {"done", "aborted"}

-----------------------------------------------------------------------------
(* What kvstore.h says.                                                    *)

\* kvstore.h:71: a put is a put of its key and its value, and of no other.
OthersKept ==
  [][\A k \in Key : call # NULL /\ call.key # k => Map'[k] = Map[k]]_vars

=============================================================================
