------------------------------ MODULE KVStore ------------------------------
(***************************************************************************)
(* The key-value store of kvstore.c: a trie of B+trees.  Each B+tree has   *)
(* one cursor and is used through RL_MoveToKey, RL_GetRecord and           *)
(* RL_PutRecord only, so it is a map from slices to border nodes: that is  *)
(* what the model of the B+tree shows.  One client calls KV_Put and        *)
(* KV_Get; one action is one round of the loop of KV_Put, or one call of   *)
(* getValueOfPartialKey.  Memory does not run out.                         *)
(***************************************************************************)
EXTENDS BorderNode

CONSTANTS Key,      \* keys of the clients: strings
          rootNode

ASSUME KeyAssumption == Key \subseteq String /\ rootNode \in KVNode

VARIABLES
  node,        \* node[n]: the border node of each slice, NULL: no node n
  numKeys,
  pc,
  call,        \* the call in progress, or NULL
  key,         \* the caller's key object, which KV_Put shortens
  sndKey,      \* KV_Put's second key, pushed down together with key, or NULL
  sndValue,
  currNode,
  partialKey,  \* KV_Get's rest of the key
  ret          \* what KV_Get returns

store == <<node, numKeys>>
second == <<sndKey, sndValue>>
vars == <<store, pc, call, key, second, currNode, partialKey, ret>>

Calls == [fn : {"insert"}, key : Key, val : Value]
         \cup [fn : {"lookup"}, key : Key, val : {NULL}]

TypeOK ==
  /\ node \in [KVNode -> [Slice -> Border \cup {NULL}] \cup {NULL}]
  /\ numKeys \in Nat
  /\ pc \in {"idle", "put", "again", "get", "done", "aborted"}
  /\ call \in Calls \cup {NULL}
  /\ key \in String \cup {NULL}
  /\ sndKey \in String \cup {NULL}
  /\ sndValue \in Value \cup {NULL}
  /\ currNode \in KVNode
  /\ partialKey \in String \cup {NULL}
  /\ ret \in Value \cup {NULL}

newKVNode == [s \in Slice |-> NULL]

Init ==
  /\ node = [n \in KVNode |-> IF n = rootNode THEN newKVNode ELSE NULL]
  /\ numKeys = 0
  /\ pc = "idle"
  /\ call = NULL
  /\ key = NULL
  /\ sndKey = NULL /\ sndValue = NULL
  /\ currNode = rootNode
  /\ partialKey = NULL
  /\ ret = NULL

-----------------------------------------------------------------------------
(* KV_Put                                                                  *)

\* The client calls with a key object it has made with KV_NewKey().
KV_Put(k, val) ==
  /\ pc = "idle"
  /\ pc' = "put"
  /\ call' = [fn |-> "insert", key |-> k, val |-> val]
  /\ key' = k
  /\ currNode' = rootNode
  /\ UNCHANGED <<store, second, partialKey, ret>>

value == call.val
nextKeySlice == NextKeySlice(key)
sndKeySlice == NextKeySlice(sndKey)

Putting == pc \in {"put", "again"}

\* BN_SetPrefixValue() asserts that a key it gets is not empty.
Asserts ==
  /\ key # <<>>
  /\ sndKey = <<>> => nextKeySlice = sndKeySlice

Abort ==
  /\ pc' = "aborted"
  /\ UNCHANGED <<store, call, key, second, currNode, partialKey, ret>>

PutAborts == Putting /\ ~Asserts /\ Abort

\* A round of the loop with or without a second key.
Single == Putting /\ Asserts /\ sndKey = NULL
Double == Putting /\ Asserts /\ sndKey # NULL

\* RL_PutRecord(): border node bn for slice s of tree n.
RL_PutRecord(n, s, bn) == node' = [node EXCEPT ![n][s] = bn]

putCompleted == pc' = "done" /\ UNCHANGED <<call, key, second, currNode, partialKey, ret>>

\* Border node bn gets a link to a new node, in which the put goes on.
LinkNew(bn) ==
  \E link \in KVNode :
    /\ node[link] = NULL
    /\ link = CHOOSE n \in KVNode : node[n] = NULL
    /\ node' = [node EXCEPT ![link] = newKVNode,
                            ![currNode][nextKeySlice] = BN_SetLink(bn, link)]
    /\ currNode' = link

\* Case 0.0.0: both keys have the same slice and one ends in it.  The second
\* BN_SetValue() is given `key` once more, in place of sndKey.
PutPair ==
  /\ Double
  /\ nextKeySlice = sndKeySlice
  /\ Ends(key) \/ Ends(sndKey)
  /\ RL_PutRecord(currNode, nextKeySlice,
                  BN_SetValue(BN_SetValue(BN_NewBorderNode, key, value), key, sndValue))
  /\ numKeys' = numKeys + 1
  /\ putCompleted

\* Mutant: the second key is not shortened.
PushDown_One ==
  /\ Double
  /\ nextKeySlice = sndKeySlice
  /\ ~Ends(key) /\ ~Ends(sndKey)
  /\ LinkNew(BN_NewBorderNode)
  /\ key' = Rest(key)
  /\ UNCHANGED <<numKeys, pc, call, sndKey, sndValue, partialKey, ret>>

\* Case 0.0.1: one more layer for both.
PushDown ==
  /\ Double
  /\ nextKeySlice = sndKeySlice
  /\ ~Ends(key) /\ ~Ends(sndKey)
  /\ LinkNew(BN_NewBorderNode)
  /\ key' = Rest(key)
  /\ sndKey' = Rest(sndKey)
  /\ UNCHANGED <<numKeys, pc, call, sndValue, partialKey, ret>>

\* Case 0.1: the slices are different.
PutApart ==
  /\ Double
  /\ nextKeySlice # sndKeySlice
  /\ node' = [node EXCEPT
       ![currNode][nextKeySlice] = BN_SetValue(BN_NewBorderNode, key, value),
       ![currNode][sndKeySlice] = BN_SetValue(BN_NewBorderNode, sndKey, sndValue)]
  /\ numKeys' = numKeys + 1
  /\ putCompleted

\* Case 1.0: a new slice.  putCompleted is not set: the loop goes round again
\* and finds the key.
PutNewSlice ==
  /\ Single
  /\ node[currNode][nextKeySlice] = NULL
  /\ RL_PutRecord(currNode, nextKeySlice, BN_SetValue(BN_NewBorderNode, key, value))
  /\ numKeys' = numKeys + 1
  /\ pc' = "again"
  /\ UNCHANGED <<call, key, second, currNode, partialKey, ret>>

borderNode == node[currNode][nextKeySlice]

\* Case 1.1: there is a border node for the slice.
Found == Single /\ borderNode # NULL

\* Mutant: the loop is not left.
PutPrefix_GoesOn ==
  /\ Found
  /\ Ends(key)
  /\ numKeys' = IF BN_GetPrefixValue(borderNode, Len(key)) = NULL THEN numKeys + 1 ELSE numKeys
  /\ RL_PutRecord(currNode, nextKeySlice, BN_SetPrefixValue(borderNode, Len(key), value))
  /\ UNCHANGED <<pc, call, key, second, currNode, partialKey, ret>>

\* Case 1.1.0: the key ends here.
PutPrefix ==
  /\ Found
  /\ Ends(key)
  /\ numKeys' = IF BN_GetPrefixValue(borderNode, Len(key)) = NULL THEN numKeys + 1 ELSE numKeys
  /\ RL_PutRecord(currNode, nextKeySlice, BN_SetPrefixValue(borderNode, Len(key), value))
  /\ putCompleted

\* Case 1.1.1.0: the border node holds this key.
UpdateSuffix ==
  /\ Found
  /\ ~Ends(key)
  /\ BN_TestSuffix(borderNode, key)
  /\ RL_PutRecord(currNode, nextKeySlice, BN_SetSuffixValue(borderNode, Rest(key), value))
  /\ UNCHANGED numKeys
  /\ putCompleted

\* Mutant: the link is set before the suffix is taken out.
SplitSuffix_LinkFirst ==
  /\ Found
  /\ ~Ends(key)
  /\ BN_HasSuffix(borderNode)
  /\ ~BN_TestSuffix(borderNode, key)
  /\ \E link \in KVNode :
       /\ node[link] = NULL
       /\ node' = [node EXCEPT
            ![currNode][nextKeySlice] = BN_ExportSuffixValue(BN_SetLink(borderNode, link)),
            ![link] = newKVNode]
       /\ currNode' = link
       /\ sndValue' = link
  /\ key' = Rest(key)
  /\ UNCHANGED <<numKeys, pc, call, sndKey, partialKey, ret>>

\* Case 1.1.1.1: the border node holds another key, which is taken out to be put
\* in the next layer with this one.
SplitSuffix ==
  /\ Found
  /\ ~Ends(key)
  /\ BN_HasSuffix(borderNode)
  /\ ~BN_TestSuffix(borderNode, key)
  /\ sndKey' = borderNode.suffix
  /\ sndValue' = borderNode.link
  /\ LinkNew(BN_ExportSuffixValue(borderNode))
  /\ key' = Rest(key)
  /\ UNCHANGED <<numKeys, pc, call, partialKey, ret>>

\* Case 1.1.1 (line 322): a link to the next layer.
FollowLink ==
  /\ Found
  /\ ~Ends(key)
  /\ BN_GetLink(borderNode) # NULL
  /\ key' = Rest(key)
  /\ currNode' = BN_GetLink(borderNode)
  /\ UNCHANGED <<store, pc, call, second, partialKey, ret>>

\* Mutant: the key is not counted.
PutSuffix_NotCounted ==
  /\ Found
  /\ ~Ends(key)
  /\ ~BN_HasSuffix(borderNode) /\ BN_GetLink(borderNode) = NULL
  /\ RL_PutRecord(currNode, nextKeySlice, BN_SetSuffixValue(borderNode, Rest(key), value))
  /\ UNCHANGED numKeys
  /\ putCompleted

\* Case 1.1.2: neither suffix nor link.
PutSuffix ==
  /\ Found
  /\ ~Ends(key)
  /\ ~BN_HasSuffix(borderNode) /\ BN_GetLink(borderNode) = NULL
  /\ RL_PutRecord(currNode, nextKeySlice, BN_SetSuffixValue(borderNode, Rest(key), value))
  /\ numKeys' = numKeys + 1
  /\ putCompleted

-----------------------------------------------------------------------------
(* KV_Get, with its recursion getValueOfPartialKey(currNode, partialKey).  *)

KV_Get(k) ==
  /\ pc = "idle"
  /\ pc' = "get"
  /\ call' = [fn |-> "lookup", key |-> k, val |-> NULL]
  /\ key' = k
  /\ partialKey' = k
  /\ currNode' = rootNode
  /\ UNCHANGED <<store, second, ret>>

gotNode == node[currNode][NextKeySlice(partialKey)]

GetReturns(v) ==
  /\ pc' = "done"
  /\ ret' = v
  /\ UNCHANGED <<store, call, key, second, currNode, partialKey>>

GetAbsent ==
  /\ pc = "get"
  /\ gotNode = NULL
  /\ GetReturns(NULL)

\* BN_GetPrefixValue() asserts that the key is not empty.
GetPrefix ==
  /\ pc = "get"
  /\ gotNode # NULL
  /\ Ends(partialKey)
  /\ IF partialKey = <<>> THEN Abort
     ELSE GetReturns(BN_GetPrefixValue(gotNode, Len(partialKey)))

GetSuffix ==
  /\ pc = "get"
  /\ gotNode # NULL
  /\ ~Ends(partialKey)
  /\ BN_HasSuffix(gotNode)
  /\ GetReturns(BN_GetSuffixValue(gotNode, Rest(partialKey)))

GetLink ==
  /\ pc = "get"
  /\ gotNode # NULL
  /\ ~Ends(partialKey)
  /\ ~BN_HasSuffix(gotNode)
  /\ IF BN_GetLink(gotNode) = NULL THEN GetReturns(NULL)
     ELSE /\ currNode' = BN_GetLink(gotNode)
          /\ partialKey' = Rest(partialKey)
          /\ UNCHANGED <<store, pc, call, key, second, ret>>

-----------------------------------------------------------------------------

\* The call returns: its locals are gone.
Return ==
  /\ pc = "done"
  /\ pc' = "idle"
  /\ call' = NULL /\ key' = NULL
  /\ sndKey' = NULL /\ sndValue' = NULL
  /\ currNode' = rootNode
  /\ partialKey' = NULL /\ ret' = NULL
  /\ UNCHANGED store

Aborted == pc = "aborted" /\ UNCHANGED vars

Step ==
  \/ PutPair \/ PushDown \/ PutApart
  \/ PutNewSlice \/ PutPrefix \/ UpdateSuffix \/ SplitSuffix \/ FollowLink \/ PutSuffix
  \/ PutAborts
  \/ GetAbsent \/ GetPrefix \/ GetSuffix \/ GetLink
  \/ Return

Next ==
  \/ \E k \in Key, v \in Value : KV_Put(k, v)
  \/ \E k \in Key : KV_Get(k)
  \/ Step
  \/ Aborted

Spec == Init /\ [][Next]_vars

\* The client's thread runs.
FairSpec == Spec /\ WF_vars(Step)
-----------------------------------------------------------------------------

\* Every key but the empty one can be put and looked up: no assertion of
\* bordernode.c fails, so what is pushed down never gets empty.
NoAssertFails == pc = "aborted" => call.key = <<>>
=============================================================================
