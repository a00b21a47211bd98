---------------------------- MODULE KVStoreProof ----------------------------
(***************************************************************************)
(* No assertion of bordernode.c fails: what is pushed down a layer is      *)
(* never empty.  And the key-value store is a map and counts its keys, and *)
(* its trie keeps its shape.  All for strings of any characters and slices *)
(* of any length.                                                          *)
(***************************************************************************)
EXTENDS KVStoreProps, SequenceTheorems, WellFoundedInduction, FiniteSetTheorems, TLAPS

-----------------------------------------------------------------------------
(* The inductive invariant.                                                *)

\* A border node holds a suffix with its value, or a link to a node, or neither.
BorderOK(nd, bn) ==
  IF bn.suffix # NULL THEN bn.suffix # <<>> /\ bn.link \in Value
  ELSE bn.link # NULL => bn.link \in KVNode /\ nd[bn.link] # NULL

Tries == [KVNode -> [Slice -> Border \cup {NULL}] \cup {NULL}]

TrieOK(nd) ==
  /\ nd \in Tries
  /\ \A n \in KVNode, s \in Slice :
       nd[n] # NULL /\ nd[n][s] # NULL => BorderOK(nd, nd[n][s])

\* The locals of the call in progress.
LocalsOK ==
  /\ Putting => /\ call \in Calls /\ call.val \in Value
                /\ key \in String
                /\ sndKey # NULL => sndKey \in String /\ sndValue \in Value
  /\ pc = "get" => call \in Calls /\ partialKey \in String
  /\ pc = "idle" => sndKey = NULL
  /\ node[rootNode] # NULL
  /\ node[currNode] # NULL

\* Unless the call is for the empty key, nothing that is to be put or looked up is empty.
NothingEmpty ==
  /\ Putting /\ call.key # <<>> => key # <<>> /\ sndKey # <<>>
  /\ pc = "get" /\ call.key # <<>> => partialKey # <<>>

IInv == TypeOK /\ TrieOK(node) /\ LocalsOK /\ NothingEmpty /\ NoAssertFails

-----------------------------------------------------------------------------
(* Strings, border nodes and tries.                                        *)

LEMMA RestOK ==
  ASSUME NEW k \in String, ~Ends(k)
  PROVE  Rest(k) \in String /\ Rest(k) # <<>>
<1>1. \A i \in L + 1 .. Len(k) : k[i] \in Char
  BY SliceAssumption DEF String
<1>2. /\ Rest(k) \in Seq(Char)
      /\ Len(Rest(k)) = IF L + 1 <= Len(k) THEN Len(k) - (L + 1) + 1 ELSE 0
  BY <1>1, SubSeqProperties, SliceAssumption DEF Rest, String
<1> QED
  BY <1>2, SliceAssumption DEF Ends, String

LEMMA NextKeySliceOK ==
  ASSUME NEW k \in String
  PROVE  NextKeySlice(k) \in Slice
BY SliceAssumption DEF NextKeySlice, Slice, String

LEMMA NewBorderOK ==
  ASSUME NEW nd
  PROVE  BN_NewBorderNode \in Border /\ BorderOK(nd, BN_NewBorderNode)
BY DEF BN_NewBorderNode, Border, BorderOK

LEMMA SetPrefixOK ==
  ASSUME NEW nd, NEW bn \in Border, BorderOK(nd, bn), NEW k \in String,
         Ends(k), k # <<>>, NEW v \in Value
  PROVE  /\ BN_SetPrefixValue(bn, Len(k), v) \in Border
         /\ BorderOK(nd, BN_SetPrefixValue(bn, Len(k), v))
<1>1. Len(k) \in 1 .. L
  BY SliceAssumption DEF Ends, String
<1> QED
  BY <1>1 DEF BN_SetPrefixValue, Border, BorderOK

LEMMA SetSuffixOK ==
  ASSUME NEW nd, NEW bn \in Border, NEW k \in String, ~Ends(k), NEW v \in Value
  PROVE  /\ BN_SetSuffixValue(bn, Rest(k), v) \in Border
         /\ BorderOK(nd, BN_SetSuffixValue(bn, Rest(k), v))
BY RestOK, NullAssumption DEF BN_SetSuffixValue, Border, BorderOK

LEMMA SetValueOK ==
  ASSUME NEW nd, NEW bn \in Border, BorderOK(nd, bn), NEW k \in String,
         k # <<>>, NEW v \in Value
  PROVE  /\ BN_SetValue(bn, k, v) \in Border
         /\ BorderOK(nd, BN_SetValue(bn, k, v))
<1>1. CASE Ends(k)
  BY <1>1, SetPrefixOK DEF BN_SetValue
<1>2. CASE ~Ends(k)
  BY <1>2, SetSuffixOK DEF BN_SetValue
<1> QED
  BY <1>1, <1>2

Put(nd, n, s, bn) == [nd EXCEPT ![n][s] = bn]
Grow(nd, n) == [nd EXCEPT ![n] = newKVNode]

\* RL_PutRecord() into a node of the trie.
LEMMA PutRecordOK ==
  ASSUME NEW nd, TrieOK(nd), NEW n \in KVNode, nd[n] # NULL,
         NEW s \in Slice, NEW bn \in Border, BorderOK(nd, bn)
  PROVE  /\ TrieOK(Put(nd, n, s, bn))
         /\ \A m \in KVNode : nd[m] # NULL => Put(nd, n, s, bn)[m] # NULL
<1> DEFINE nd2 == Put(nd, n, s, bn)
<1>1. nd[n] \in [Slice -> Border \cup {NULL}]
  BY DEF TrieOK, Tries
<1>2. [nd[n] EXCEPT ![s] = bn] \in [Slice -> Border \cup {NULL}]
  BY <1>1
<1>3. nd2 = [nd EXCEPT ![n] = [nd[n] EXCEPT ![s] = bn]]
  BY DEF TrieOK, Tries, Put
<1> HIDE DEF nd2
<1>4. nd2 \in Tries
  BY <1>2, <1>3 DEF TrieOK, Tries
<1>5. nd2[n] = [nd[n] EXCEPT ![s] = bn] /\ \A m \in KVNode \ {n} : nd2[m] = nd[m]
  BY <1>3 DEF TrieOK, Tries
<1>6. \A m \in KVNode : nd[m] # NULL => nd2[m] # NULL
  BY <1>5, <1>2, NullAssumption
<1>7. ASSUME NEW b, BorderOK(nd, b) PROVE BorderOK(nd2, b)
  BY <1>6, <1>7 DEF BorderOK
<1>8. ASSUME NEW m \in KVNode, NEW r \in Slice, nd2[m] # NULL, nd2[m][r] # NULL
      PROVE  BorderOK(nd, nd2[m][r])
  <2>1. CASE m = n /\ r = s
    BY <2>1, <1>5, <1>1
  <2>2. CASE m = n /\ r # s
    <3>1. nd2[m][r] = nd[n][r]
      BY <2>2, <1>5, <1>1
    <3> QED
      BY <3>1, <2>2, <1>8 DEF TrieOK
  <2>3. CASE m # n
    BY <2>3, <1>5, <1>8 DEF TrieOK
  <2> QED
    BY <2>1, <2>2, <2>3
<1>9. TrieOK(nd2)
  BY <1>4, <1>7, <1>8 DEF TrieOK
<1> QED
  BY <1>6, <1>9 DEF nd2

\* A new node of the trie.
LEMMA NewNodeOK ==
  ASSUME NEW nd, TrieOK(nd), NEW n \in KVNode, nd[n] = NULL
  PROVE  /\ TrieOK(Grow(nd, n))
         /\ Grow(nd, n)[n] # NULL
         /\ \A m \in KVNode : nd[m] # NULL => Grow(nd, n)[m] = nd[m]
<1> DEFINE nd2 == Grow(nd, n)
<1>1. newKVNode \in [Slice -> Border \cup {NULL}] /\ \A s \in Slice : newKVNode[s] = NULL
  BY DEF newKVNode
<1>2. newKVNode # NULL
  BY <1>1, NullAssumption
<1>3. nd2 \in Tries /\ nd2[n] = newKVNode /\ \A m \in KVNode \ {n} : nd2[m] = nd[m]
  BY <1>1 DEF TrieOK, Tries, Grow
<1> HIDE DEF nd2
<1>4. ASSUME NEW b, BorderOK(nd, b) PROVE BorderOK(nd2, b)
  BY <1>4, <1>3, <1>2 DEF BorderOK
<1>5. ASSUME NEW m \in KVNode, NEW r \in Slice, nd2[m] # NULL, nd2[m][r] # NULL
      PROVE  BorderOK(nd2, nd2[m][r])
  <2>1. m # n /\ nd2[m] = nd[m]
    BY <1>5, <1>3, <1>1
  <2> QED
    BY <2>1, <1>5, <1>4 DEF TrieOK
<1>6. TrieOK(nd2) /\ nd2[n] # NULL /\ \A m \in KVNode : nd[m] # NULL => nd2[m] = nd[m]
  BY <1>2, <1>3, <1>5 DEF TrieOK
<1> QED
  BY <1>6 DEF nd2

\* A link to a new node in place of what a border node holds.
LEMMA LinkNewOK ==
  ASSUME IInv, Putting, NEW bn \in Border, LinkNew(bn)
  PROVE  /\ TrieOK(node') /\ currNode' \in KVNode
         /\ node'[currNode'] # NULL /\ node'[rootNode] # NULL
<1>1. PICK link \in KVNode :
        /\ node[link] = NULL
        /\ node' = [node EXCEPT ![link] = newKVNode,
                                ![currNode][nextKeySlice] = BN_SetLink(bn, link)]
        /\ currNode' = link
  BY DEF LinkNew
<1> DEFINE nd == Grow(node, link)
<1>2. TrieOK(nd) /\ nd[link] # NULL /\ \A m \in KVNode : node[m] # NULL => nd[m] = node[m]
  BY <1>1, NewNodeOK DEF IInv
<1>3. BN_SetLink(bn, link) \in Border /\ BorderOK(nd, BN_SetLink(bn, link))
  BY <1>2 DEF BN_SetLink, Border, BorderOK
<1>4. currNode \in KVNode /\ nd[currNode] # NULL /\ rootNode \in KVNode /\ nd[rootNode] # NULL
  BY <1>2, KeyAssumption DEF IInv, TypeOK, LocalsOK
<1>5. nextKeySlice \in Slice
  BY NextKeySliceOK DEF nextKeySlice, IInv, LocalsOK
<1>6. node' = Put(nd, currNode, nextKeySlice, BN_SetLink(bn, link))
  BY <1>1 DEF Put, Grow
<1> HIDE DEF nd
<1>7. TrieOK(node') /\ \A m \in KVNode : nd[m] # NULL => node'[m] # NULL
  BY <1>2, <1>3, <1>4, <1>5, <1>6, PutRecordOK
<1> QED
  BY <1>1, <1>2, <1>4, <1>7

-----------------------------------------------------------------------------
(* The steps.                                                              *)

\* The border node of the next slice, of a key that is being put.
LEMMA FoundOK ==
  ASSUME IInv, Found
  PROVE  /\ key \in String /\ call.val \in Value
         /\ nextKeySlice \in Slice
         /\ borderNode \in Border /\ BorderOK(node, borderNode)
<1>1. key \in String /\ call.val \in Value /\ node[currNode] # NULL /\ currNode \in KVNode
  BY DEF Found, Single, IInv, LocalsOK, TypeOK
<1>2. nextKeySlice \in Slice
  BY <1>1, NextKeySliceOK DEF nextKeySlice
<1>3. node[currNode] \in [Slice -> Border \cup {NULL}]
  BY <1>1 DEF IInv, TypeOK
<1> QED
  BY <1>1, <1>2, <1>3 DEF Found, borderNode, IInv, TrieOK

\* RL_PutRecord() in the node the put has come to.
LEMMA StoreOK ==
  ASSUME IInv, Putting, NEW s \in Slice, NEW bn \in Border, BorderOK(node, bn),
         RL_PutRecord(currNode, s, bn)
  PROVE  TrieOK(node') /\ node'[rootNode] # NULL /\ node'[currNode] # NULL
<1>1. node' = Put(node, currNode, s, bn)
  BY DEF RL_PutRecord, Put
<1>2. TrieOK(node) /\ currNode \in KVNode /\ node[currNode] # NULL
      /\ rootNode \in KVNode /\ node[rootNode] # NULL
  BY KeyAssumption DEF IInv, TypeOK, LocalsOK
<1> QED
  BY <1>1, <1>2, PutRecordOK

\* The end of a put.
LEMMA CompletedOK ==
  ASSUME IInv, TrieOK(node'), node'[rootNode] # NULL, node'[currNode] # NULL,
         numKeys' \in Nat, putCompleted
  PROVE  IInv'
<1> USE DEF putCompleted, second
<1>1. TypeOK'
  BY DEF IInv, TypeOK, TrieOK, Tries
<1>2. LocalsOK'
  BY DEF LocalsOK, Putting
<1>3. NothingEmpty' /\ NoAssertFails'
  BY DEF NothingEmpty, NoAssertFails, Putting
<1> QED
  BY <1>1, <1>2, <1>3 DEF IInv

LEMMA PutPairOK == IInv /\ PutPair => IInv'
<1> SUFFICES ASSUME IInv, PutPair PROVE IInv'
  OBVIOUS
<1>1. /\ Putting /\ key \in String \ {<<>>} /\ call.val \in Value /\ sndValue \in Value
      /\ nextKeySlice \in Slice
  BY NextKeySliceOK DEF PutPair, Double, Asserts, IInv, LocalsOK, nextKeySlice
<1> DEFINE bn == BN_SetValue(BN_NewBorderNode, key, value)
<1>2. bn \in Border /\ BorderOK(node, bn)
  BY <1>1, NewBorderOK, SetValueOK DEF value
<1> HIDE DEF bn
<1>3. BN_SetValue(bn, key, sndValue) \in Border /\ BorderOK(node, BN_SetValue(bn, key, sndValue))
  BY <1>1, <1>2, SetValueOK
<1>4. RL_PutRecord(currNode, nextKeySlice, BN_SetValue(bn, key, sndValue))
  BY DEF PutPair, bn
<1>5. TrieOK(node') /\ node'[rootNode] # NULL /\ node'[currNode] # NULL
  BY <1>1, <1>3, <1>4, StoreOK
<1> QED
  BY <1>5, CompletedOK DEF PutPair, IInv, TypeOK

LEMMA PutApartOK == IInv /\ PutApart => IInv'
<1> SUFFICES ASSUME IInv, PutApart PROVE IInv'
  OBVIOUS
<1>1. /\ Putting /\ key \in String \ {<<>>} /\ call.val \in Value
      /\ sndKey \in String \ {<<>>} /\ sndValue \in Value
  BY DEF PutApart, Double, Asserts, IInv, LocalsOK
<1>2. nextKeySlice \in Slice /\ sndKeySlice \in Slice
  BY <1>1, NextKeySliceOK DEF nextKeySlice, sndKeySlice
<1> DEFINE b1 == BN_SetValue(BN_NewBorderNode, key, value)
           b2 == BN_SetValue(BN_NewBorderNode, sndKey, sndValue)
           nd == Put(node, currNode, nextKeySlice, b1)
<1>3. b1 \in Border /\ BorderOK(node, b1)
  BY <1>1, NewBorderOK, SetValueOK DEF value
<1>4. b2 \in Border /\ BorderOK(nd, b2)
  BY <1>1, NewBorderOK, SetValueOK
<1>5. node' = Put(nd, currNode, sndKeySlice, b2)
  BY DEF PutApart, Put
<1> HIDE DEF b1, b2
<1>6. TrieOK(node) /\ currNode \in KVNode /\ node[currNode] # NULL
      /\ rootNode \in KVNode /\ node[rootNode] # NULL
  BY KeyAssumption DEF IInv, TypeOK, LocalsOK
<1>7. TrieOK(nd) /\ nd[currNode] # NULL /\ nd[rootNode] # NULL
  BY <1>2, <1>3, <1>6, PutRecordOK
<1> HIDE DEF nd
<1>8. TrieOK(node') /\ node'[rootNode] # NULL /\ node'[currNode] # NULL
  BY <1>2, <1>4, <1>5, <1>6, <1>7, PutRecordOK
<1> QED
  BY <1>8, CompletedOK DEF PutApart, IInv, TypeOK

LEMMA PushDownOK == IInv /\ PushDown => IInv'
<1> SUFFICES ASSUME IInv, PushDown PROVE IInv'
  OBVIOUS
<1> USE DEF PushDown
<1>1. /\ Putting /\ call \in Calls /\ call.val \in Value /\ key \in String /\ ~Ends(key)
      /\ sndKey \in String /\ sndValue \in Value /\ ~Ends(sndKey)
  BY DEF Double, IInv, LocalsOK
<1>2. BN_NewBorderNode \in Border
  BY NewBorderOK
<1>3. /\ TrieOK(node') /\ currNode' \in KVNode
      /\ node'[currNode'] # NULL /\ node'[rootNode] # NULL
  BY <1>1, <1>2, LinkNewOK
<1>4. key' \in String \ {<<>>} /\ sndKey' \in String \ {<<>>}
  BY <1>1, RestOK
<1>5. TypeOK'
  BY <1>3, <1>4 DEF IInv, TypeOK, TrieOK, Tries
<1>6. LocalsOK'
  BY <1>1, <1>3, <1>4 DEF LocalsOK, Putting
<1>7. NothingEmpty' /\ NoAssertFails'
  BY <1>1, <1>4 DEF NothingEmpty, NoAssertFails, Putting
<1> QED
  BY <1>3, <1>5, <1>6, <1>7 DEF IInv

LEMMA SplitSuffixOK == IInv /\ SplitSuffix => IInv'
<1> SUFFICES ASSUME IInv, SplitSuffix PROVE IInv'
  OBVIOUS
<1> USE DEF SplitSuffix
<1>1. Putting /\ call \in Calls /\ call.val \in Value /\ key \in String /\ ~Ends(key)
  BY DEF Found, Single, IInv, LocalsOK
<1>2. borderNode \in Border /\ BorderOK(node, borderNode)
  BY FoundOK
<1>3. BN_ExportSuffixValue(borderNode) \in Border
  BY <1>2 DEF BN_ExportSuffixValue, Border
<1>4. /\ TrieOK(node') /\ currNode' \in KVNode
      /\ node'[currNode'] # NULL /\ node'[rootNode] # NULL
  BY <1>1, <1>3, LinkNewOK
<1>5. key' \in String \ {<<>>}
  BY <1>1, RestOK
<1>6. sndKey' \in String \ {<<>>} /\ sndValue' \in Value
  BY <1>2 DEF BN_HasSuffix, BorderOK, Border
<1>7. TypeOK'
  BY <1>4, <1>5, <1>6 DEF IInv, TypeOK, TrieOK, Tries
<1>8. LocalsOK'
  BY <1>1, <1>4, <1>5, <1>6 DEF LocalsOK, Putting
<1>9. NothingEmpty' /\ NoAssertFails'
  BY <1>1, <1>5, <1>6 DEF NothingEmpty, NoAssertFails, Putting
<1> QED
  BY <1>4, <1>7, <1>8, <1>9 DEF IInv

LEMMA PutNewSliceOK == IInv /\ PutNewSlice => IInv'
<1> SUFFICES ASSUME IInv, PutNewSlice PROVE IInv'
  OBVIOUS
<1>1. /\ Putting /\ key \in String \ {<<>>} /\ call \in Calls /\ call.val \in Value
      /\ sndKey = NULL /\ nextKeySlice \in Slice
  BY NextKeySliceOK DEF PutNewSlice, Single, Asserts, IInv, LocalsOK, nextKeySlice
<1> DEFINE bn == BN_SetValue(BN_NewBorderNode, key, value)
<1>2. bn \in Border /\ BorderOK(node, bn)
  BY <1>1, NewBorderOK, SetValueOK DEF value
<1>3. RL_PutRecord(currNode, nextKeySlice, bn)
  BY DEF PutNewSlice
<1> HIDE DEF bn
<1>4. TrieOK(node') /\ node'[rootNode] # NULL /\ node'[currNode] # NULL
  BY <1>1, <1>2, <1>3, StoreOK
<1>5. TypeOK'
  BY <1>4 DEF IInv, TypeOK, TrieOK, Tries, PutNewSlice, second
<1>6. LocalsOK'
  BY <1>1, <1>4 DEF LocalsOK, Putting, PutNewSlice, second
<1>7. NothingEmpty' /\ NoAssertFails'
  BY <1>1, NullAssumption DEF NothingEmpty, NoAssertFails, Putting, PutNewSlice, IInv,
                              second, String
<1> QED
  BY <1>4, <1>5, <1>6, <1>7 DEF IInv

LEMMA PutPrefixOK == IInv /\ PutPrefix => IInv'
<1> SUFFICES ASSUME IInv, PutPrefix PROVE IInv'
  OBVIOUS
<1> DEFINE bn == BN_SetPrefixValue(borderNode, Len(key), value)
<1>1. Putting /\ Ends(key) /\ key # <<>> /\ RL_PutRecord(currNode, nextKeySlice, bn)
  BY DEF PutPrefix, Found, Single, Asserts
<1>2. bn \in Border /\ BorderOK(node, bn)
  BY <1>1, FoundOK, SetPrefixOK DEF PutPrefix, value
<1> HIDE DEF bn
<1>3. TrieOK(node') /\ node'[rootNode] # NULL /\ node'[currNode] # NULL
  BY <1>1, <1>2, FoundOK, StoreOK DEF PutPrefix
<1> QED
  BY <1>3, CompletedOK DEF PutPrefix, IInv, TypeOK

LEMMA UpdateSuffixOK == IInv /\ UpdateSuffix => IInv'
<1> SUFFICES ASSUME IInv, UpdateSuffix PROVE IInv'
  OBVIOUS
<1> DEFINE bn == BN_SetSuffixValue(borderNode, Rest(key), value)
<1>1. Putting /\ ~Ends(key) /\ RL_PutRecord(currNode, nextKeySlice, bn)
  BY DEF UpdateSuffix, Found, Single
<1>2. bn \in Border /\ BorderOK(node, bn)
  BY <1>1, FoundOK, SetSuffixOK DEF UpdateSuffix, value
<1> HIDE DEF bn
<1>3. TrieOK(node') /\ node'[rootNode] # NULL /\ node'[currNode] # NULL
  BY <1>1, <1>2, FoundOK, StoreOK DEF UpdateSuffix
<1> QED
  BY <1>3, CompletedOK DEF UpdateSuffix, IInv, TypeOK

LEMMA PutSuffixOK == IInv /\ PutSuffix => IInv'
<1> SUFFICES ASSUME IInv, PutSuffix PROVE IInv'
  OBVIOUS
<1> DEFINE bn == BN_SetSuffixValue(borderNode, Rest(key), value)
<1>1. Putting /\ ~Ends(key) /\ RL_PutRecord(currNode, nextKeySlice, bn)
  BY DEF PutSuffix, Found, Single
<1>2. bn \in Border /\ BorderOK(node, bn)
  BY <1>1, FoundOK, SetSuffixOK DEF PutSuffix, value
<1> HIDE DEF bn
<1>3. TrieOK(node') /\ node'[rootNode] # NULL /\ node'[currNode] # NULL
  BY <1>1, <1>2, FoundOK, StoreOK DEF PutSuffix
<1> QED
  BY <1>3, CompletedOK DEF PutSuffix, IInv, TypeOK

LEMMA FollowLinkOK == IInv /\ FollowLink => IInv'
<1> SUFFICES ASSUME IInv, FollowLink PROVE IInv'
  OBVIOUS
<1> USE DEF FollowLink
<1>1. /\ Putting /\ call \in Calls /\ call.val \in Value /\ key \in String /\ ~Ends(key)
      /\ sndKey = NULL
  BY DEF Found, Single, IInv, LocalsOK
<1>2. currNode' \in KVNode /\ node[currNode'] # NULL
  BY FoundOK DEF BorderOK, BN_GetLink, BN_HasSuffix
<1>3. key' \in String \ {<<>>}
  BY <1>1, RestOK
<1>4. TypeOK' /\ TrieOK(node')
  BY <1>2, <1>3 DEF IInv, TypeOK, store, second
<1>5. LocalsOK'
  BY <1>1, <1>2, <1>3 DEF LocalsOK, Putting, store, second, IInv
<1>6. NothingEmpty' /\ NoAssertFails'
  BY <1>1, <1>3, NullAssumption DEF NothingEmpty, NoAssertFails, Putting, store, second, IInv
<1> QED
  BY <1>4, <1>5, <1>6 DEF IInv

\* Only the empty key makes an assertion fail.
LEMMA AbortOK ==
  ASSUME IInv, Abort, call.key = <<>>
  PROVE  IInv'
<1> USE DEF Abort, store, second
<1>1. TypeOK' /\ TrieOK(node')
  BY DEF IInv, TypeOK
<1>2. LocalsOK'
  BY DEF LocalsOK, Putting, IInv
<1>3. NothingEmpty' /\ NoAssertFails'
  BY DEF NothingEmpty, NoAssertFails, Putting
<1> QED
  BY <1>1, <1>2, <1>3 DEF IInv

LEMMA PutAbortsOK == IInv /\ PutAborts => IInv'
<1> SUFFICES ASSUME IInv, PutAborts PROVE IInv'
  OBVIOUS
<1>1. call.key = <<>>
  BY DEF PutAborts, Asserts, IInv, NothingEmpty
<1> QED
  BY <1>1, AbortOK DEF PutAborts

-----------------------------------------------------------------------------

\* The border node of the next slice, of a key that is looked up.
LEMMA GotOK ==
  ASSUME IInv, pc = "get", gotNode # NULL
  PROVE  /\ partialKey \in String
         /\ gotNode \in Border /\ BorderOK(node, gotNode)
<1>1. partialKey \in String /\ node[currNode] # NULL /\ currNode \in KVNode
  BY DEF IInv, LocalsOK, TypeOK
<1>2. NextKeySlice(partialKey) \in Slice
  BY <1>1, NextKeySliceOK
<1>3. node[currNode] \in [Slice -> Border \cup {NULL}]
  BY <1>1 DEF IInv, TypeOK
<1> QED
  BY <1>1, <1>2, <1>3 DEF gotNode, IInv, TrieOK

LEMMA GetReturnsOK ==
  ASSUME IInv, NEW v \in Value \cup {NULL}, GetReturns(v)
  PROVE  IInv'
<1> USE DEF GetReturns, store, second
<1>1. TypeOK' /\ TrieOK(node')
  BY DEF IInv, TypeOK
<1>2. LocalsOK'
  BY DEF LocalsOK, Putting, IInv
<1>3. NothingEmpty' /\ NoAssertFails'
  BY DEF NothingEmpty, NoAssertFails, Putting
<1> QED
  BY <1>1, <1>2, <1>3 DEF IInv

LEMMA GetOK == IInv /\ (GetAbsent \/ GetPrefix \/ GetSuffix \/ GetLink) => IInv'
<1>1. ASSUME IInv, GetAbsent PROVE IInv'
  BY <1>1, GetReturnsOK DEF GetAbsent
<1>2. ASSUME IInv, GetPrefix PROVE IInv'
  <2>1. CASE partialKey = <<>>
    <3>1. call.key = <<>>
      BY <2>1, <1>2 DEF GetPrefix, IInv, NothingEmpty
    <3> QED
      BY <2>1, <3>1, <1>2, AbortOK DEF GetPrefix
  <2>2. CASE partialKey # <<>>
    <3>1. Len(partialKey) \in 1 .. L /\ gotNode \in Border
      BY <2>2, <1>2, GotOK, SliceAssumption DEF GetPrefix, Ends, String
    <3>2. BN_GetPrefixValue(gotNode, Len(partialKey)) \in Value \cup {NULL}
      BY <3>1 DEF BN_GetPrefixValue, Border
    <3> QED
      BY <2>2, <3>2, <1>2, GetReturnsOK DEF GetPrefix
  <2> QED
    BY <2>1, <2>2
<1>3. ASSUME IInv, GetSuffix PROVE IInv'
  <2>1. BN_GetSuffixValue(gotNode, Rest(partialKey)) \in Value \cup {NULL}
    BY <1>3, GotOK DEF GetSuffix, BN_GetSuffixValue, BN_HasSuffix, BorderOK
  <2> QED
    BY <2>1, <1>3, GetReturnsOK DEF GetSuffix
<1>4. ASSUME IInv, GetLink PROVE IInv'
  <2>1. CASE BN_GetLink(gotNode) = NULL
    BY <2>1, <1>4, GetReturnsOK DEF GetLink
  <2>2. CASE BN_GetLink(gotNode) # NULL
    <3>1. /\ pc = "get" /\ pc' = pc /\ currNode' = BN_GetLink(gotNode)
          /\ partialKey' = Rest(partialKey) /\ ~Ends(partialKey) /\ gotNode # NULL
          /\ UNCHANGED <<node, numKeys, call, key, sndKey, sndValue, ret>>
      BY <2>2, <1>4 DEF GetLink, store, second
    <3>2. currNode' \in KVNode /\ node[currNode'] # NULL
      BY <2>2, <1>4, <3>1, GotOK DEF BorderOK, BN_GetLink, BN_HasSuffix
    <3>3. partialKey' \in String \ {<<>>}
      BY <1>4, <3>1, GotOK, RestOK
    <3>4. TypeOK' /\ TrieOK(node')
      BY <1>4, <3>1, <3>2, <3>3 DEF IInv, TypeOK
    <3>5. LocalsOK' /\ NothingEmpty' /\ NoAssertFails'
      BY <1>4, <3>1, <3>2, <3>3 DEF IInv, LocalsOK, NothingEmpty, NoAssertFails, Putting
    <3> QED
      BY <3>4, <3>5 DEF IInv
  <2> QED
    BY <2>1, <2>2
<1> QED
  BY <1>1, <1>2, <1>3, <1>4

-----------------------------------------------------------------------------

LEMMA InitOK == Init => IInv
<1> SUFFICES ASSUME Init PROVE IInv
  OBVIOUS
<1> USE DEF Init
<1>1. newKVNode \in [Slice -> Border \cup {NULL}] /\ newKVNode # NULL
      /\ \A s \in Slice : newKVNode[s] = NULL
  BY NullAssumption DEF newKVNode
<1>2. TrieOK(node) /\ node[rootNode] # NULL
  BY <1>1, KeyAssumption DEF TrieOK, Tries
<1>3. TypeOK
  BY <1>2, KeyAssumption DEF TypeOK, TrieOK, Tries
<1>4. LocalsOK /\ NothingEmpty /\ NoAssertFails
  BY <1>2 DEF LocalsOK, NothingEmpty, NoAssertFails, Putting
<1> QED
  BY <1>2, <1>3, <1>4 DEF IInv

\* A call, and its return.
LEMMA CallOK ==
  ASSUME IInv, NEW k \in Key, (\E v \in Value : KV_Put(k, v)) \/ KV_Get(k)
  PROVE  IInv'
<1> USE DEF store, second
<1>1. k \in String /\ rootNode \in KVNode
  BY KeyAssumption
<1>2. CASE KV_Get(k)
  <2>1. call' \in Calls
    BY <1>2 DEF KV_Get, Calls
  <2>2. TypeOK' /\ TrieOK(node')
    BY <1>1, <1>2, <2>1 DEF KV_Get, IInv, TypeOK
  <2>3. LocalsOK' /\ NothingEmpty' /\ NoAssertFails'
    BY <1>1, <1>2, <2>1
    DEF KV_Get, IInv, LocalsOK, NothingEmpty, NoAssertFails, Putting
  <2> QED
    BY <2>2, <2>3 DEF IInv
<1>3. ASSUME NEW v \in Value, KV_Put(k, v) PROVE IInv'
  <2>1. call' \in Calls /\ call'.val \in Value
    BY <1>3 DEF KV_Put, Calls
  <2>2. TypeOK' /\ TrieOK(node')
    BY <1>1, <1>3, <2>1 DEF KV_Put, IInv, TypeOK
  <2>3. sndKey' = NULL
    BY <1>3 DEF KV_Put, IInv, LocalsOK
  <2>4. LocalsOK'
    BY <1>1, <1>3, <2>1, <2>3 DEF KV_Put, IInv, LocalsOK, Putting
  <2>5. NULL # <<>>
    BY EmptySeq, NullAssumption DEF String
  <2>6. pc' = "put" /\ key' = k /\ call'.key = k /\ sndKey' # <<>>
    BY <1>3, <2>3, <2>5 DEF KV_Put
  <2>7. NothingEmpty' /\ NoAssertFails'
    BY <1>1, <2>6 DEF NothingEmpty, NoAssertFails, Putting
  <2> QED
    BY <2>2, <2>4, <2>7 DEF IInv
<1> QED
  BY <1>2, <1>3

LEMMA ReturnOK == IInv /\ Return => IInv'
<1> SUFFICES ASSUME IInv, Return PROVE IInv'
  OBVIOUS
<1> USE DEF Return, store
<1>1. TypeOK' /\ TrieOK(node')
  BY KeyAssumption DEF IInv, TypeOK
<1>2. LocalsOK' /\ NothingEmpty' /\ NoAssertFails'
  BY DEF IInv, LocalsOK, NothingEmpty, NoAssertFails, Putting
<1> QED
  BY <1>1, <1>2 DEF IInv

LEMMA StutterOK == IInv /\ UNCHANGED vars => IInv'
BY DEF IInv, TypeOK, TrieOK, Tries, BorderOK, LocalsOK, NothingEmpty, NoAssertFails,
       Putting, vars, store, second

LEMMA NextOK == IInv /\ [Next]_vars => IInv'
<1>1. IInv /\ Step => IInv'
  BY PutPairOK, PushDownOK, PutApartOK, PutNewSliceOK, PutPrefixOK, UpdateSuffixOK,
     SplitSuffixOK, FollowLinkOK, PutSuffixOK, PutAbortsOK, GetOK, ReturnOK DEF Step
<1>2. IInv /\ Aborted => IInv'
  BY StutterOK DEF Aborted
<1> QED
  BY <1>1, <1>2, CallOK, StutterOK DEF Next

\* The inductive invariant: a border node has a suffix with a value or a link to a node
\* of the trie, the locals of a call are set, and nothing that goes down is empty.
THEOREM Invariant == Spec => []IInv
BY InitOK, NextOK, PTL DEF Spec

\* Every variable of the store has its type, whatever the keys are.
THEOREM TypeCorrect == Spec => []TypeOK
<1>1. IInv => TypeOK
  BY DEF IInv
<1> QED
  BY <1>1, Invariant, PTL

\* Keys that are not empty never make an assertion of bordernode.c fail: KV_Put
\* and KV_Get do not push an empty rest of a key down to a next layer.
THEOREM NeverAborts == Spec => []NoAssertFails
<1>1. IInv => NoAssertFails
  BY DEF IInv
<1> QED
  BY <1>1, Invariant, PTL

-----------------------------------------------------------------------------
(* Keys and their rests.                                                   *)

USE SliceAssumption

\* Where layer d begins.
Off(d) == L * d

LEMMA OffFacts ==
  /\ Off(0) = 0
  /\ \A d \in Nat : /\ Off(d) \in Nat /\ d <= Off(d)
                     /\ Off(d + 1) \in Nat /\ Off(d + 1) = Off(d) + L
<1>1. \A d \in Nat : L * (d + 1) = L * d + L /\ L * d \in Nat /\ d <= L * d
  OBVIOUS
<1> QED
  BY <1>1 DEF Off

LEMMA LenNat == \A k \in String : Len(k) \in Nat
BY DEF String

\* Strings j and k are the same up to layer d.
Same(j, k, d) ==
  /\ Off(d) <= Len(j) /\ Off(d) <= Len(k)
  /\ \A i \in 1 .. Off(d) : j[i] = k[i]

LEMMA AfterFacts ==
  ASSUME NEW k \in String, NEW d \in Nat, Off(d) <= Len(k)
  PROVE  /\ After(k, d) \in String /\ Len(After(k, d)) = Len(k) - Off(d)
         /\ \A i \in 1 .. Len(k) - Off(d) : After(k, d)[i] = k[Off(d) + i]
<1> DEFINE o == Off(d)
<1>1. o \in Nat /\ After(k, d) = SubSeq(k, o + 1, Len(k))
  BY OffFacts DEF After, Off
<1> HIDE DEF o
<1>2. k \in Seq(Char) /\ Len(k) \in Nat /\ o <= Len(k)
  BY DEF String, o
<1>3. \A i \in o + 1 .. Len(k) : k[i] \in Char
  BY <1>1, <1>2
<1>4. /\ SubSeq(k, o + 1, Len(k)) \in Seq(Char)
      /\ Len(SubSeq(k, o + 1, Len(k))) =
           IF o + 1 <= Len(k) THEN Len(k) - (o + 1) + 1 ELSE 0
      /\ \A i \in 1 .. Len(k) - (o + 1) + 1 : SubSeq(k, o + 1, Len(k))[i] = k[(o + 1) + i - 1]
  BY <1>1, <1>2, <1>3, SubSeqProperties
<1>5. \A i \in 1 .. Len(k) - o : (o + 1) + i - 1 = o + i
  BY <1>1, <1>2
<1>6. Len(k) - (o + 1) + 1 = Len(k) - o /\ (~(o + 1 <= Len(k)) => Len(k) - o = 0)
  BY <1>1, <1>2
<1> QED
  BY <1>1, <1>4, <1>5, <1>6 DEF String, o

LEMMA StringEq ==
  ASSUME NEW j \in String, NEW k \in String, Len(j) = Len(k),
         \A i \in 1 .. Len(j) : j[i] = k[i]
  PROVE  j = k
BY SeqEqual DEF String

LEMMA AfterZero == \A k \in String : After(k, 0) = k
<1> SUFFICES ASSUME NEW k \in String PROVE After(k, 0) = k
  OBVIOUS
<1>1. /\ After(k, 0) \in String /\ Len(After(k, 0)) = Len(k)
      /\ \A i \in 1 .. Len(k) : After(k, 0)[i] = k[i]
  <2>1. Off(0) = 0 /\ Len(k) \in Nat
    BY OffFacts, LenNat
  <2>2. /\ After(k, 0) \in String /\ Len(After(k, 0)) = Len(k) - Off(0)
        /\ \A i \in 1 .. Len(k) - Off(0) : After(k, 0)[i] = k[Off(0) + i]
    BY <2>1, AfterFacts
  <2> QED
    BY <2>1, <2>2
<1> QED
  BY <1>1, StringEq

LEMMA AfterRest ==
  ASSUME NEW k \in String, NEW d \in Nat, Off(d) <= Len(k), ~Ends(After(k, d))
  PROVE  Rest(After(k, d)) = After(k, d + 1) /\ Off(d + 1) < Len(k)
<1> DEFINE s == After(k, d)
<1>1. /\ s \in String /\ Len(s) = Len(k) - Off(d) /\ Len(k) \in Nat
      /\ \A i \in 1 .. Len(k) - Off(d) : s[i] = k[Off(d) + i]
  BY AfterFacts DEF String
<1>2. Off(d) \in Nat /\ Off(d + 1) = Off(d) + L
  BY OffFacts
<1>3. Off(d + 1) < Len(k)
  BY <1>1, <1>2 DEF Ends
<1>4. Off(1) = L /\ Rest(s) = After(s, 1)
  <2>1. L * 1 = L
    OBVIOUS
  <2> QED
    BY <2>1 DEF Rest, After, Off
<1> HIDE DEF s
<1>5. /\ Rest(s) \in String /\ Len(Rest(s)) = Len(s) - L
      /\ \A i \in 1 .. Len(s) - L : Rest(s)[i] = s[L + i]
  <2>1. L <= Len(s)
    BY <1>1, <1>2, <1>3
  <2> QED
    BY <1>1, <1>4, <2>1, AfterFacts
<1>6. /\ After(k, d + 1) \in String /\ Len(After(k, d + 1)) = Len(k) - Off(d + 1)
      /\ \A i \in 1 .. Len(k) - Off(d + 1) : After(k, d + 1)[i] = k[Off(d + 1) + i]
  BY <1>3, AfterFacts, <1>1, <1>2
<1>7. Len(Rest(s)) = Len(After(k, d + 1))
  BY <1>1, <1>2, <1>5, <1>6
<1>8. ASSUME NEW i \in 1 .. Len(Rest(s))
      PROVE  Rest(s)[i] = After(k, d + 1)[i]
  <2>1. i \in 1 .. Len(s) - L /\ L + i \in 1 .. Len(k) - Off(d)
        /\ i \in 1 .. Len(k) - Off(d + 1) /\ Off(d) + (L + i) = Off(d + 1) + i
    BY <1>1, <1>2, <1>5
  <2> QED
    BY <1>1, <1>5, <1>6, <2>1
<1>9. Rest(s) = After(k, d + 1)
  BY <1>5, <1>6, <1>7, <1>8, StringEq
<1> QED
  BY <1>3, <1>9 DEF s

LEMMA EndsAfter ==
  ASSUME NEW k \in String, NEW d \in Nat, Off(d) <= Len(k)
  PROVE  Ends(After(k, d)) <=> Len(k) <= Off(d + 1)
<1>1. Len(After(k, d)) = Len(k) - Off(d) /\ Len(k) \in Nat
  BY AfterFacts DEF String
<1>2. Off(d) \in Nat /\ Off(d + 1) = Off(d) + L
  BY OffFacts
<1> QED
  BY <1>1, <1>2 DEF Ends

\* The slice of key k in layer d.
SliceAt(k, d) == NextKeySlice(After(k, d))

LEMMA SliceFacts ==
  ASSUME NEW k \in String, NEW d \in Nat, Off(d) <= Len(k)
  PROVE  /\ SliceAt(k, d) \in Slice
         /\ \A i \in 1 .. L : SliceAt(k, d)[i] = IF Off(d) + i <= Len(k) THEN k[Off(d) + i] ELSE 0
<1>1. /\ After(k, d) \in String /\ Len(After(k, d)) = Len(k) - Off(d)
      /\ \A i \in 1 .. Len(k) - Off(d) : After(k, d)[i] = k[Off(d) + i]
  BY AfterFacts
<1>2. SliceAt(k, d) \in Slice
  BY <1>1, NextKeySliceOK DEF SliceAt
<1>3. ASSUME NEW i \in 1 .. L
      PROVE  SliceAt(k, d)[i] = IF Off(d) + i <= Len(k) THEN k[Off(d) + i] ELSE 0
  <2>1. Off(d) \in Nat /\ Len(k) \in Nat
    BY OffFacts, LenNat
  <2>2. SliceAt(k, d)[i] = IF i <= Len(k) - Off(d) THEN After(k, d)[i] ELSE 0
    BY <1>1 DEF SliceAt, NextKeySlice
  <2> QED
    BY <1>1, <2>1, <2>2
<1> QED
  BY <1>2, <1>3

LEMMA SameMore ==
  ASSUME NEW j \in String, NEW k \in String, NEW d \in Nat, Same(j, k, d),
         SliceAt(j, d) = SliceAt(k, d), Off(d + 1) <= Len(j), Off(d + 1) <= Len(k)
  PROVE  Same(j, k, d + 1)
<1>1. Off(d) \in Nat /\ Off(d + 1) = Off(d) + L /\ Len(j) \in Nat /\ Len(k) \in Nat
  BY OffFacts, LenNat
<1>2. ASSUME NEW i \in 1 .. L
      PROVE  j[Off(d) + i] = k[Off(d) + i]
  <2>1. Off(d) + i <= Len(j) /\ Off(d) + i <= Len(k)
    BY <1>1
  <2>2. SliceAt(j, d)[i] = j[Off(d) + i] /\ SliceAt(k, d)[i] = k[Off(d) + i]
    BY <2>1, SliceFacts DEF Same
  <2> QED
    BY <2>2
<1>3. ASSUME NEW i \in 1 .. Off(d + 1)
      PROVE  j[i] = k[i]
  <2>1. CASE i <= Off(d)
    BY <1>1, <2>1 DEF Same
  <2>2. CASE i > Off(d)
    <3>1. i - Off(d) \in 1 .. L /\ Off(d) + (i - Off(d)) = i
      BY <1>1, <2>2
    <3> QED
      BY <1>2, <3>1
  <2> QED
    BY <1>1, <2>1, <2>2
<1> QED
  BY <1>3 DEF Same

LEMMA SameLess ==
  ASSUME NEW j \in String, NEW k \in String, NEW d \in Nat, Same(j, k, d + 1)
  PROVE  Same(j, k, d) /\ SliceAt(j, d) = SliceAt(k, d)
<1>1. Off(d) \in Nat /\ Off(d + 1) = Off(d) + L /\ Len(j) \in Nat /\ Len(k) \in Nat
  BY OffFacts, LenNat
<1>2. Same(j, k, d)
  BY <1>1 DEF Same
<1>3. ASSUME NEW i \in 1 .. L
      PROVE  SliceAt(j, d)[i] = SliceAt(k, d)[i]
  <2>1. Off(d) + i <= Len(j) /\ Off(d) + i <= Len(k) /\ Off(d) + i \in 1 .. Off(d + 1)
    BY <1>1 DEF Same
  <2>2. SliceAt(j, d)[i] = j[Off(d) + i] /\ SliceAt(k, d)[i] = k[Off(d) + i]
    BY <1>2, <2>1, SliceFacts DEF Same
  <2> QED
    BY <2>1, <2>2 DEF Same
<1>4. SliceAt(j, d) \in [1 .. L -> Char] /\ SliceAt(k, d) \in [1 .. L -> Char]
  BY <1>2, SliceFacts DEF Same, Slice
<1> QED
  BY <1>2, <1>3, <1>4

LEMMA SameAll ==
  ASSUME NEW j \in String, NEW k \in String, NEW d \in Nat, Same(j, k, d),
         After(j, d) = After(k, d)
  PROVE  j = k
<1>1. Off(d) \in Nat /\ Len(j) \in Nat /\ Len(k) \in Nat
  BY OffFacts, LenNat
<1>2. /\ Len(After(j, d)) = Len(j) - Off(d)
      /\ \A i \in 1 .. Len(j) - Off(d) : After(j, d)[i] = j[Off(d) + i]
      /\ Len(After(k, d)) = Len(k) - Off(d)
      /\ \A i \in 1 .. Len(k) - Off(d) : After(k, d)[i] = k[Off(d) + i]
  BY AfterFacts DEF Same
<1>3. Len(j) = Len(k)
  BY <1>1, <1>2
<1>4. ASSUME NEW i \in 1 .. Len(j)
      PROVE  j[i] = k[i]
  <2>1. CASE i <= Off(d)
    BY <1>1, <2>1 DEF Same
  <2>2. CASE i > Off(d)
    <3>1. i - Off(d) \in 1 .. Len(j) - Off(d) /\ Off(d) + (i - Off(d)) = i
      BY <1>1, <2>2
    <3> QED
      BY <1>2, <1>3, <3>1
  <2> QED
    BY <1>1, <2>1, <2>2
<1> QED
  BY <1>3, <1>4, StringEq

\* Two strings that end in the same slice at the same place are the same.
LEMMA EndsEq ==
  ASSUME NEW s \in String, NEW t \in String, Ends(s), Len(s) = Len(t),
         NextKeySlice(s) = NextKeySlice(t)
  PROVE  s = t
<1>1. ASSUME NEW i \in 1 .. Len(s)
      PROVE  s[i] = t[i]
  <2>1. i \in 1 .. L /\ i <= Len(s) /\ i <= Len(t)
    BY DEF Ends, String
  <2>2. NextKeySlice(s)[i] = s[i] /\ NextKeySlice(t)[i] = t[i]
    BY <2>1 DEF NextKeySlice
  <2> QED
    BY <2>2
<1> QED
  BY <1>1, StringEq

-----------------------------------------------------------------------------
(* The layers that a key comes to.                                         *)

LEMMA LeastNat ==
  ASSUME NEW T \in SUBSET Nat, T # {}
  PROVE  \E j \in T : \A i \in T : j <= i
<1> DEFINE R == {ss \in Nat \X Nat : ss[1] < ss[2]}
<1>1. IsWellFoundedOn(R, Nat)
  BY NatLessThanWellFounded DEF OpToRel
<1>2. ASSUME NEW i \in Nat, NEW j \in Nat, ~(<<i, j>> \in R) PROVE j <= i
  <2>1. ~(i < j)
    BY <1>2
  <2> QED BY <2>1
<1> HIDE DEF R
<1>3. PICK j \in T : \A i \in T : ~(<<i, j>> \in R)
  BY <1>1, WFMin
<1>4. \A i \in T : j <= i
  BY <1>2, <1>3
<1> QED BY <1>4

\* Where key k goes from node n of layer d.
Onward(nd, k, n, d) ==
  IF n = NULL THEN NULL ELSE NextIn(nd[n][SliceAt(k, d)], After(k, d))

\* The recursion of LayersOf() defines a function: there are functions that keep to it
\* up to each layer, and two of them agree as far as both go.
LEMMA LayersStep ==
  ASSUME NEW nd, NEW k
  PROVE  /\ LayersOf(nd, k)[0] = rootNode
         /\ \A d \in Nat : LayersOf(nd, k)[d + 1] = Onward(nd, k, LayersOf(nd, k)[d], d)
<1> DEFINE Go(n, d) == Onward(nd, k, n, d)
           UpTo(g, m) == /\ g[0] = rootNode
                         /\ \A i \in 0 .. m : i # 0 => g[i] = Go(g[i - 1], i - 1)
           Is(f) == f = [d \in Nat |-> IF d = 0 THEN rootNode ELSE Go(f[d - 1], d - 1)]
<1>1. LayersOf(nd, k) = CHOOSE f : Is(f)
  BY DEF LayersOf, Onward, SliceAt
<1> HIDE DEF Go
<1>2. ASSUME NEW l \in Nat, NEW m \in Nat, l <= m, NEW g, NEW h, UpTo(g, l), UpTo(h, m)
      PROVE  g[l] = h[l]
  <2> DEFINE T == {i \in 0 .. l : g[i] # h[i]}
  <2>1. SUFFICES ASSUME T # {} PROVE FALSE
    OBVIOUS
  <2>2. T \in SUBSET Nat
    OBVIOUS
  <2>3. PICK j \in T : \A i \in T : j <= i
    BY <2>1, <2>2, LeastNat
  <2>4. j \in Nat /\ j # 0 /\ j <= l /\ j <= m
    BY <1>2, <2>3
  <2>5. j - 1 \in 0 .. l /\ j - 1 \notin T
    BY <2>3, <2>4
  <2> QED
    BY <1>2, <2>3, <2>4, <2>5
<1>3. \A m \in Nat : \E g : UpTo(g, m)
  <2> DEFINE T == {m \in Nat : ~\E g : UpTo(g, m)}
  <2>1. SUFFICES ASSUME T # {} PROVE FALSE
    OBVIOUS
  <2>2. PICK m \in T : \A i \in T : m <= i
    BY <2>1, LeastNat
  <2>3. m # 0
    <3>1. UpTo([i \in {0} |-> rootNode], 0)
      OBVIOUS
    <3> QED
      BY <2>2, <3>1
  <2>4. m \in Nat /\ m - 1 \in Nat /\ m - 1 \notin T
    BY <2>2, <2>3
  <2>5. PICK g : UpTo(g, m - 1)
    BY <2>4
  <2> DEFINE h == [i \in 0 .. m |-> IF i = m THEN Go(g[m - 1], m - 1) ELSE g[i]]
  <2>6. UpTo(h, m)
    <3>1. h[0] = rootNode
      BY <2>3, <2>4, <2>5
    <3>2. ASSUME NEW i \in 0 .. m, i # 0
          PROVE  h[i] = Go(h[i - 1], i - 1)
      <4>1. i - 1 \in 0 .. m /\ i - 1 # m /\ h[i - 1] = g[i - 1]
        BY <2>4, <3>2
      <4>2. CASE i = m
        BY <4>1, <4>2
      <4>3. CASE i # m
        <5>1. i \in 0 .. m - 1 /\ h[i] = g[i]
          BY <2>4, <4>3
        <5> QED
          BY <2>5, <3>2, <4>1, <5>1
      <4> QED
        BY <4>2, <4>3
    <3> QED
      BY <3>1, <3>2
  <2> QED
    BY <2>2, <2>6
<1> DEFINE G(m) == CHOOSE g : UpTo(g, m)
           f == [d \in Nat |-> G(d)[d]]
<1>4. \A m \in Nat : UpTo(G(m), m)
  BY <1>3
<1> HIDE DEF G
<1>5. f[0] = rootNode
  BY <1>4
<1>6. ASSUME NEW d \in Nat, d # 0 PROVE f[d] = Go(f[d - 1], d - 1)
  <2>1. d - 1 \in Nat /\ d \in 0 .. d /\ d - 1 <= d
    BY <1>6
  <2>2. G(d)[d] = Go(G(d)[d - 1], d - 1)
    BY <1>4, <1>6, <2>1
  <2>3. UpTo(G(d), d) /\ UpTo(G(d - 1), d - 1)
    BY <1>4, <2>1
  <2> HIDE DEF UpTo
  <2>4. G(d - 1)[d - 1] = G(d)[d - 1]
    <3>1. UpTo(G(d), d - 1)
      BY <2>1, <2>3 DEF UpTo
    <3> QED
      BY <1>2, <2>1, <2>3, <3>1
  <2> QED
    BY <2>1, <2>2, <2>4
<1>7. Is(f)
  BY <1>5, <1>6
<1> HIDE DEF f, Is
<1>8. Is(LayersOf(nd, k))
  BY <1>1, <1>7
<1> DEFINE lay == LayersOf(nd, k)
<1> HIDE DEF lay
<1>9. lay = [d \in Nat |-> IF d = 0 THEN rootNode ELSE Go(lay[d - 1], d - 1)]
  BY <1>8 DEF Is, lay
<1>10. ASSUME NEW d \in Nat PROVE lay[d + 1] = Go(lay[d], d)
  <2>1. d + 1 \in Nat /\ d + 1 # 0 /\ (d + 1) - 1 = d
    OBVIOUS
  <2>2. lay[d + 1] = IF d + 1 = 0 THEN rootNode ELSE Go(lay[(d + 1) - 1], (d + 1) - 1)
    BY <1>9, <2>1
  <2> QED
    BY <2>1, <2>2
<1> QED
  BY <1>9, <1>10 DEF lay, Go

-----------------------------------------------------------------------------
(* The place of each node in the trie: its layer dep[n], and a key rep[n]  *)
(* that comes to it.                                                       *)

LayersIn(nd) == {n \in KVNode : nd[n] # NULL}

LinkIn(nd, n, s) == IF nd[n][s] = NULL THEN NULL ELSE BN_GetLink(nd[n][s])

\* Node m is the next layer of n for the keys with slice s.
Child(dep, rep, n, s, m) ==
  /\ dep[m] = dep[n] + 1
  /\ Same(rep[m], rep[n], dep[n])
  /\ Off(dep[m]) < Len(rep[m])
  /\ SliceAt(rep[m], dep[n]) = s

\* Node n has a suffix for slice s: the rest of a key that comes there.
SuffixKey(dep, rep, n, s, suffix) ==
  \E j \in Key :
    /\ Same(j, rep[n], dep[n]) /\ SliceAt(j, dep[n]) = s
    /\ ~Ends(After(j, dep[n])) /\ After(j, dep[n] + 1) = suffix

Placed(nd, dep, rep) ==
  /\ dep \in [KVNode -> Nat] /\ rep \in [KVNode -> String]
  /\ rootNode \in LayersIn(nd) /\ dep[rootNode] = 0
  /\ \A n \in LayersIn(nd) : Off(dep[n]) <= Len(rep[n])
  /\ \A n \in LayersIn(nd), s \in Slice :
       LinkIn(nd, n, s) # NULL =>
         LinkIn(nd, n, s) \in LayersIn(nd) /\ Child(dep, rep, n, s, LinkIn(nd, n, s))
  /\ \A m \in LayersIn(nd) \ {rootNode} :
       \E n \in LayersIn(nd), s \in Slice : LinkIn(nd, n, s) = m
  /\ \A m, n \in LayersIn(nd) :
       dep[m] = dep[n] /\ Same(rep[m], rep[n], dep[n]) => m = n
  /\ \A n \in LayersIn(nd), s \in Slice :
       nd[n][s] # NULL /\ nd[n][s].suffix # NULL =>
         SuffixKey(dep, rep, n, s, nd[n][s].suffix)

\* Key k comes to node n.
ComesTo(k, dep, rep, n) ==
  Same(k, rep[n], dep[n]) /\ (dep[n] = 0 \/ Off(dep[n]) < Len(k))

\* A key comes to the nodes of its layers,
LEMMA LayerComes ==
  ASSUME NEW nd, NEW dep, NEW rep, Placed(nd, dep, rep), NEW k \in String
  PROVE  \A d \in Nat : LayersOf(nd, k)[d] # NULL =>
           /\ LayersOf(nd, k)[d] \in LayersIn(nd)
           /\ dep[LayersOf(nd, k)[d]] = d
           /\ ComesTo(k, dep, rep, LayersOf(nd, k)[d])
<1> DEFINE lay == LayersOf(nd, k)
           OK(d) == lay[d] # NULL =>
                      /\ lay[d] \in LayersIn(nd) /\ dep[lay[d]] = d
                      /\ ComesTo(k, dep, rep, lay[d])
           T == {d \in Nat : ~OK(d)}
<1>1. lay[0] = rootNode /\ \A d \in Nat : lay[d + 1] = Onward(nd, k, lay[d], d)
  BY LayersStep
<1> HIDE DEF lay
<1>2. SUFFICES ASSUME T # {} PROVE FALSE
  BY DEF lay
<1>3. PICK e \in T : \A i \in T : e <= i
  BY <1>2, LeastNat
<1>4. e # 0
  <2>1. Off(0) = 0 /\ Len(rep[rootNode]) \in Nat /\ Len(k) \in Nat
    BY OffFacts, LenNat, KeyAssumption DEF Placed
  <2>2. Same(k, rep[rootNode], 0)
    BY <2>1 DEF Same
  <2> QED
    BY <1>1, <1>3, <2>2 DEF ComesTo, Placed
<1>5. PICK d \in Nat : e = d + 1
  <2>1. e - 1 \in Nat /\ e = (e - 1) + 1
    BY <1>3, <1>4
  <2> QED
    BY <2>1
<1>6. OK(d)
  BY <1>3, <1>5
<1> DEFINE n == lay[d]
           m == lay[e]
           s == SliceAt(k, d)
<1>7. lay[e] # NULL /\ lay[e] = Onward(nd, k, lay[d], d)
  BY <1>1, <1>3, <1>5
<1>8. n # NULL /\ nd[n][s] # NULL /\ ~Ends(After(k, d)) /\ m = LinkIn(nd, n, s)
  BY <1>7 DEF Onward, NextIn, LinkIn
<1>9. n \in LayersIn(nd) /\ dep[n] = d /\ ComesTo(k, dep, rep, n)
  BY <1>6, <1>8
<1>10. Off(d) <= Len(k) /\ Off(d + 1) < Len(k) /\ s \in Slice /\ Len(k) \in Nat
  BY <1>8, <1>9, AfterRest, SliceFacts, LenNat DEF ComesTo, Same
<1>11. m \in LayersIn(nd) /\ Child(dep, rep, n, s, m)
  BY <1>7, <1>8, <1>9, <1>10 DEF Placed
<1> HIDE DEF m, n, s
<1>12. /\ rep[m] \in String /\ rep[n] \in String /\ dep[m] = d + 1
       /\ Same(rep[m], rep[n], d) /\ Off(d + 1) < Len(rep[m]) /\ SliceAt(rep[m], d) = s
  BY <1>9, <1>11 DEF Child, Placed, LayersIn
<1>13. Same(k, rep[m], d)
  BY <1>9, <1>12 DEF Same, ComesTo
<1>14. Same(k, rep[m], d + 1)
  <2>1. Off(d + 1) <= Len(k) /\ Off(d + 1) <= Len(rep[m])
    <3>1. Off(d + 1) \in Nat /\ Len(k) \in Nat /\ Len(rep[m]) \in Nat
      BY <1>12, OffFacts, LenNat
    <3>2. Off(d + 1) < Len(k) /\ Off(d + 1) < Len(rep[m])
      BY <1>10, <1>12
    <3> QED
      BY <3>1, <3>2
  <2> QED
    BY <1>12, <1>13, <2>1, SameMore DEF s
<1>15. m \in LayersIn(nd) /\ dep[m] = e /\ ComesTo(k, dep, rep, m)
  BY <1>5, <1>10, <1>11, <1>12, <1>14 DEF ComesTo
<1> QED
  BY <1>3, <1>15 DEF m

\* and to no others.
LEMMA ComesLayer ==
  ASSUME NEW nd, NEW dep, NEW rep, Placed(nd, dep, rep), NEW k \in String
  PROVE  \A n \in LayersIn(nd) :
           ComesTo(k, dep, rep, n) => LayersOf(nd, k)[dep[n]] = n
<1> DEFINE lay == LayersOf(nd, k)
           T == {d \in Nat : \E n \in LayersIn(nd) :
                   dep[n] = d /\ ComesTo(k, dep, rep, n) /\ lay[d] # n}
<1>1. lay[0] = rootNode /\ \A d \in Nat : lay[d + 1] = Onward(nd, k, lay[d], d)
  BY LayersStep
<1> HIDE DEF lay
<1>2. SUFFICES ASSUME T # {} PROVE FALSE
  BY DEF lay, Placed, LayersIn
<1>3. PICK e \in T : \A i \in T : e <= i
  BY <1>2, LeastNat
<1>4. PICK n \in LayersIn(nd) : dep[n] = e /\ ComesTo(k, dep, rep, n) /\ lay[e] # n
  BY <1>3
<1>5. n \in KVNode /\ rep[n] \in String /\ Off(dep[n]) <= Len(rep[n]) /\ n # NULL
      /\ rep[rootNode] \in String
  BY NullAssumption, KeyAssumption DEF LayersIn, Placed
<1>6. e # 0
  <2>1. ASSUME e = 0 PROVE FALSE
    <3>1. Same(rep[n], rep[rootNode], 0)
      <4>1. Off(0) = 0 /\ Len(rep[n]) \in Nat /\ Len(rep[rootNode]) \in Nat
        BY <1>5, OffFacts, LenNat
      <4> QED
        BY <4>1 DEF Same
    <3>2. n = rootNode
      BY <1>4, <2>1, <3>1 DEF Placed
    <3> QED
      BY <1>1, <1>4, <2>1, <3>2
  <2> QED
    BY <2>1
<1>7. PICK d \in Nat : e = d + 1
  <2>1. e - 1 \in Nat /\ e = (e - 1) + 1
    BY <1>3, <1>6
  <2> QED
    BY <2>1
<1>8. PICK p \in LayersIn(nd), s \in Slice : LinkIn(nd, p, s) = n
  BY <1>4, <1>6 DEF Placed
<1>9. /\ p \in KVNode /\ dep[p] \in Nat /\ rep[p] \in String
      /\ dep[n] = dep[p] + 1 /\ Same(rep[n], rep[p], dep[p]) /\ SliceAt(rep[n], dep[p]) = s
  BY <1>5, <1>8 DEF Placed, Child, LayersIn
<1>10. dep[p] = d
  BY <1>4, <1>7, <1>9
<1>11. Same(k, rep[n], d) /\ SliceAt(k, d) = s /\ Off(d + 1) < Len(k)
  <2>1. Same(k, rep[n], d + 1) /\ Off(d + 1) < Len(k)
    BY <1>4, <1>6, <1>7 DEF ComesTo
  <2>2. d \in Nat /\ rep[n] \in String
    BY <1>5
  <2>3. Same(k, rep[n], d) /\ SliceAt(k, d) = SliceAt(rep[n], d)
    BY <2>1, <2>2, SameLess
  <2> QED
    BY <1>9, <1>10, <2>1, <2>3
<1>12. Off(d) \in Nat /\ Off(d + 1) \in Nat /\ Len(k) \in Nat /\ Off(d) <= Off(d + 1)
  <2>1. Off(d) \in Nat /\ Off(d + 1) \in Nat /\ Off(d + 1) = Off(d) + L
    BY OffFacts
  <2> QED
    BY <2>1, LenNat
<1>13. ComesTo(k, dep, rep, p)
  BY <1>9, <1>10, <1>11, <1>12 DEF ComesTo, Same
<1>14. lay[d] = p
  <2>1. d \notin T
    BY <1>3, <1>7
  <2> QED
    BY <1>10, <1>13, <2>1
<1>15. ~Ends(After(k, d))
  BY <1>11, <1>12, EndsAfter
<1>16. lay[e] = n
  BY <1>1, <1>5, <1>7, <1>8, <1>9, <1>11, <1>14, <1>15, NullAssumption
  DEF Onward, NextIn, LinkIn
<1> QED
  BY <1>4, <1>16

\* What node n of the trie has for key k.
Slot(nd, dep, n, k) == nd[n][SliceAt(k, dep[n])]

\* Key k goes no further than node n.
StopsAt(nd, dep, rep, n, k) ==
  /\ n \in LayersIn(nd) /\ ComesTo(k, dep, rep, n)
  /\ NextIn(Slot(nd, dep, n, k), After(k, dep[n])) = NULL

\* Every key comes to a stop,
LEMMA StopsSomewhere ==
  ASSUME NEW nd, NEW dep, NEW rep, Placed(nd, dep, rep), NEW k \in String
  PROVE  \E n \in LayersIn(nd) : StopsAt(nd, dep, rep, n, k)
<1> DEFINE lay == LayersOf(nd, k)
           T == {d \in Nat : lay[d + 1] = NULL}
<1>1. lay[0] = rootNode /\ \A d \in Nat : lay[d + 1] = Onward(nd, k, lay[d], d)
  BY LayersStep
<1>2. \A d \in Nat : lay[d] # NULL =>
        lay[d] \in LayersIn(nd) /\ dep[lay[d]] = d /\ ComesTo(k, dep, rep, lay[d])
  BY LayerComes
<1> HIDE DEF lay
<1>3. T # {}
  <2>1. Len(k) \in Nat /\ Len(k) + 1 \in Nat /\ Len(k) + 1 <= Off(Len(k) + 1)
        /\ Off(Len(k) + 1) \in Nat
    BY OffFacts, LenNat
  <2>2. ~(Off(Len(k) + 1) <= Len(k))
    BY <2>1
  <2>3. lay[Len(k) + 1] = NULL
    BY <1>2, <2>1, <2>2 DEF ComesTo, Same
  <2> QED
    BY <2>1, <2>3
<1>4. PICK d \in T : \A i \in T : d <= i
  BY <1>3, LeastNat
<1>5. lay[d] # NULL
  <2>1. CASE d = 0
    BY <1>1, <2>1, NullAssumption, KeyAssumption
  <2>2. CASE d # 0
    <3>1. d - 1 \in Nat /\ d - 1 \notin T /\ (d - 1) + 1 = d
      BY <1>4, <2>2
    <3> QED
      BY <3>1
  <2> QED
    BY <2>1, <2>2
<1>6. Onward(nd, k, lay[d], d) = NULL
  BY <1>1, <1>4
<1>7. StopsAt(nd, dep, rep, lay[d], k)
  BY <1>2, <1>4, <1>5, <1>6 DEF StopsAt, Onward, Slot
<1> QED
  BY <1>7 DEF StopsAt

\* and its value is what the node has for it where it stops.
LEMMA FindIs ==
  ASSUME NEW nd, NEW dep, NEW rep, Placed(nd, dep, rep), NEW k \in String,
         NEW n \in KVNode, StopsAt(nd, dep, rep, n, k)
  PROVE  Find(nd, k) = ValueIn(Slot(nd, dep, n, k), After(k, dep[n]))
<1> DEFINE lay == LayersOf(nd, k)
           OK(d) == lay[d] # NULL /\ lay[d + 1] = NULL
           last == CHOOSE d \in 0 .. Len(k) : OK(d)
<1>1. \A d \in Nat : lay[d + 1] = Onward(nd, k, lay[d], d)
  BY LayersStep
<1>2. \A d \in Nat : lay[d] # NULL =>
        lay[d] \in LayersIn(nd) /\ dep[lay[d]] = d /\ ComesTo(k, dep, rep, lay[d])
  BY LayerComes
<1>3. lay[dep[n]] = n
  BY ComesLayer DEF StopsAt
<1>4. Find(nd, k) = ValueIn(nd[lay[last]][SliceAt(k, last)], After(k, last))
  BY DEF Find, SliceAt
<1> HIDE DEF lay
<1>5. n # NULL /\ dep[n] \in Nat
  BY NullAssumption DEF Placed
<1>6. dep[n] \in 0 .. Len(k)
  <2>1. Off(dep[n]) <= Len(k) /\ dep[n] <= Off(dep[n]) /\ Off(dep[n]) \in Nat /\ Len(k) \in Nat
    BY <1>5, OffFacts, LenNat DEF StopsAt, ComesTo, Same
  <2> QED
    BY <1>5, <2>1
<1>7. OK(dep[n])
  BY <1>1, <1>3, <1>5 DEF StopsAt, Onward, Slot
\* From where a key has stopped it does not go on.
<1>8. ASSUME NEW d \in Nat, OK(d), NEW e \in Nat, OK(e), d < e PROVE FALSE
  <2> DEFINE T == {i \in Nat : i > d /\ lay[i] # NULL}
  <2>1. T # {}
    BY <1>8
  <2>2. PICK i \in T : \A j \in T : i <= j
    BY <2>1, LeastNat
  <2>3. i - 1 \in Nat /\ (i - 1) + 1 = i /\ i - 1 \notin T
    BY <1>8, <2>2
  <2>4. lay[i] = Onward(nd, k, lay[i - 1], i - 1)
    BY <1>1, <2>3
  <2>5. lay[i - 1] # NULL
    BY <2>2, <2>4 DEF Onward
  <2>6. i - 1 = d
    BY <1>8, <2>2, <2>3, <2>5
  <2> QED
    BY <1>8, <2>2, <2>3, <2>6
<1>9. last = dep[n]
  <2>1. last \in 0 .. Len(k) /\ OK(last)
    BY <1>6, <1>7
  <2> HIDE DEF last, OK
  <2>2. last \in Nat
    BY <2>1
  <2>3. ~(last < dep[n]) /\ ~(dep[n] < last)
    BY <1>5, <1>7, <1>8, <2>1, <2>2
  <2> QED
    BY <1>5, <2>2, <2>3
<1> QED
  BY <1>3, <1>4, <1>9 DEF Slot

\* Along a link a key comes to the next layer.
LEMMA Descend ==
  ASSUME NEW nd, NEW dep, NEW rep, Placed(nd, dep, rep), NEW k \in String,
         NEW n \in LayersIn(nd), ComesTo(k, dep, rep, n), ~Ends(After(k, dep[n])),
         LinkIn(nd, n, SliceAt(k, dep[n])) # NULL
  PROVE  LET m == LinkIn(nd, n, SliceAt(k, dep[n]))
         IN  /\ m \in LayersIn(nd) /\ ComesTo(k, dep, rep, m) /\ dep[m] = dep[n] + 1
             /\ Rest(After(k, dep[n])) = After(k, dep[m])
<1> DEFINE lay == LayersOf(nd, k)
           m == LinkIn(nd, n, SliceAt(k, dep[n]))
<1>1. dep[n] \in Nat /\ dep[n] + 1 \in Nat /\ n # NULL /\ Off(dep[n]) <= Len(k)
  BY NullAssumption DEF Placed, LayersIn, ComesTo, Same
<1>2. lay[dep[n]] = n
  BY ComesLayer
<1>3. lay[dep[n] + 1] = Onward(nd, k, lay[dep[n]], dep[n])
  <2>1. \A d \in Nat : lay[d + 1] = Onward(nd, k, lay[d], d)
    BY LayersStep
  <2> HIDE DEF lay
  <2> QED
    BY <1>1, <2>1
<1>4. lay[dep[n] + 1] = m /\ m # NULL
  <2>1. m # NULL /\ nd[n][SliceAt(k, dep[n])] # NULL
        /\ m = BN_GetLink(nd[n][SliceAt(k, dep[n])])
    BY DEF LinkIn
  <2>2. NextIn(nd[n][SliceAt(k, dep[n])], After(k, dep[n])) = m
    BY <2>1 DEF NextIn
  <2>3. Onward(nd, k, n, dep[n]) = m
    BY <1>1, <2>2 DEF Onward
  <2> QED
    BY <1>2, <1>3, <2>1, <2>3
<1>5. lay[dep[n] + 1] # NULL =>
        /\ lay[dep[n] + 1] \in LayersIn(nd) /\ dep[lay[dep[n] + 1]] = dep[n] + 1
        /\ ComesTo(k, dep, rep, lay[dep[n] + 1])
  BY <1>1, LayerComes
<1> HIDE DEF lay, m
<1>6. Rest(After(k, dep[n])) = After(k, dep[n] + 1)
  BY <1>1, AfterRest
<1> QED
  BY <1>4, <1>5, <1>6 DEF m

-----------------------------------------------------------------------------
(* What a put does to the trie.                                            *)

LEMMA PutFacts ==
  ASSUME NEW nd, TrieOK(nd), NEW c \in LayersIn(nd), NEW s \in Slice, NEW bn \in Border
  PROVE  /\ LayersIn(Put(nd, c, s, bn)) = LayersIn(nd)
         /\ Put(nd, c, s, bn)[c][s] = bn
         /\ \A n \in LayersIn(nd), r \in Slice :
              ~(n = c /\ r = s) => Put(nd, c, s, bn)[n][r] = nd[n][r]
<1> DEFINE nd2 == Put(nd, c, s, bn)
<1>1. c \in KVNode /\ nd[c] \in [Slice -> Border \cup {NULL}] /\ nd \in Tries
  BY DEF TrieOK, Tries, LayersIn
<1>2. nd2 = [nd EXCEPT ![c] = [nd[c] EXCEPT ![s] = bn]]
  BY <1>1 DEF Tries, Put
<1> HIDE DEF nd2
<1>3. nd2[c] = [nd[c] EXCEPT ![s] = bn] /\ \A m \in KVNode \ {c} : nd2[m] = nd[m]
  BY <1>1, <1>2 DEF Tries
<1>4. nd2[c][s] = bn /\ \A r \in Slice \ {s} : nd2[c][r] = nd[c][r]
  BY <1>1, <1>3
<1>5. nd2[c] # NULL
  <2>1. [nd[c] EXCEPT ![s] = bn] \in [Slice -> Border \cup {NULL}]
    BY <1>1
  <2> QED
    BY <1>3, <2>1, NullAssumption
<1>6. LayersIn(nd2) = LayersIn(nd)
  BY <1>1, <1>3, <1>5 DEF LayersIn
<1>7. \A n \in LayersIn(nd), r \in Slice : ~(n = c /\ r = s) => nd2[n][r] = nd[n][r]
  BY <1>3, <1>4 DEF LayersIn
<1> QED
  BY <1>4, <1>6, <1>7 DEF nd2

\* A border node that keeps the link, and has the rest of a key for its suffix.
LEMMA PlacePut ==
  ASSUME NEW nd, TrieOK(nd), NEW dep, NEW rep, Placed(nd, dep, rep),
         NEW c \in LayersIn(nd), NEW s \in Slice, NEW bn \in Border,
         BN_GetLink(bn) = LinkIn(nd, c, s),
         bn.suffix # NULL => SuffixKey(dep, rep, c, s, bn.suffix)
  PROVE  Placed(Put(nd, c, s, bn), dep, rep)
<1> DEFINE nd2 == Put(nd, c, s, bn)
<1>1. /\ LayersIn(nd2) = LayersIn(nd) /\ nd2[c][s] = bn
      /\ \A n \in LayersIn(nd), r \in Slice : ~(n = c /\ r = s) => nd2[n][r] = nd[n][r]
  BY PutFacts
<1> HIDE DEF nd2
<1>2. \A n \in LayersIn(nd), r \in Slice : LinkIn(nd2, n, r) = LinkIn(nd, n, r)
  <2>1. LinkIn(nd2, c, s) = LinkIn(nd, c, s)
    BY <1>1, NullAssumption DEF LinkIn
  <2>2. \A n \in LayersIn(nd), r \in Slice :
          ~(n = c /\ r = s) => LinkIn(nd2, n, r) = LinkIn(nd, n, r)
    BY <1>1 DEF LinkIn
  <2> QED
    BY <2>1, <2>2
<1>3. \A n \in LayersIn(nd), r \in Slice :
        nd2[n][r] # NULL /\ nd2[n][r].suffix # NULL =>
          SuffixKey(dep, rep, n, r, nd2[n][r].suffix)
  <2>1. \A n \in LayersIn(nd), r \in Slice :
          nd[n][r] # NULL /\ nd[n][r].suffix # NULL =>
            SuffixKey(dep, rep, n, r, nd[n][r].suffix)
    BY DEF Placed
  <2> QED
    BY <1>1, <2>1
<1>4. Placed(nd2, dep, rep)
  BY <1>1, <1>2, <1>3 DEF Placed
<1> QED
  BY <1>4 DEF nd2

\* A key that stops at a slot that does not change keeps its value.
LEMMA Elsewhere ==
  ASSUME NEW nd, NEW dep, NEW rep, Placed(nd, dep, rep),
         NEW nd2, NEW dep2, NEW rep2, Placed(nd2, dep2, rep2),
         LayersIn(nd) \subseteq LayersIn(nd2),
         \A n \in LayersIn(nd) : dep2[n] = dep[n] /\ rep2[n] = rep[n],
         NEW k \in String, NEW n \in KVNode, StopsAt(nd, dep, rep, n, k),
         Slot(nd2, dep, n, k) = Slot(nd, dep, n, k)
  PROVE  Find(nd2, k) = Find(nd, k)
<1>1. n \in LayersIn(nd) /\ dep2[n] = dep[n] /\ rep2[n] = rep[n]
  BY DEF StopsAt
<1>2. Slot(nd2, dep2, n, k) = Slot(nd, dep, n, k)
  BY <1>1 DEF Slot
<1>3. ComesTo(k, dep2, rep2, n)
  BY <1>1 DEF StopsAt, ComesTo
<1>4. StopsAt(nd2, dep2, rep2, n, k)
  BY <1>1, <1>2, <1>3 DEF StopsAt
<1>5. Find(nd, k) = ValueIn(Slot(nd, dep, n, k), After(k, dep[n]))
  BY FindIs
<1>6. Find(nd2, k) = ValueIn(Slot(nd2, dep2, n, k), After(k, dep2[n]))
  BY <1>4, FindIs
<1> QED
  BY <1>1, <1>2, <1>5, <1>6

\* Two longer strings with the same slice and the same rest are the same.
LEMMA RestEq ==
  ASSUME NEW r \in String, NEW t \in String, ~Ends(r), ~Ends(t),
         NextKeySlice(r) = NextKeySlice(t), Rest(r) = Rest(t)
  PROVE  r = t
<1>1. Off(0) = 0 /\ Off(0 + 1) = L /\ 0 + 1 = 1 /\ Len(r) \in Nat /\ Len(t) \in Nat
  <2>1. Off(0) = 0 /\ Off(0 + 1) = Off(0) + L
    BY OffFacts
  <2> QED
    BY <2>1, LenNat
<1>2. After(r, 0) = r /\ After(t, 0) = t
  BY AfterZero
<1>3. Same(r, t, 0) /\ SliceAt(r, 0) = SliceAt(t, 0)
  BY <1>1, <1>2 DEF Same, SliceAt
<1>4. Rest(r) = After(r, 1) /\ Rest(t) = After(t, 1) /\ L < Len(r) /\ L < Len(t)
  <2>1. Rest(After(r, 0)) = After(r, 0 + 1) /\ Off(0 + 1) < Len(r)
    BY <1>1, <1>2, AfterRest
  <2>2. Rest(After(t, 0)) = After(t, 0 + 1) /\ Off(0 + 1) < Len(t)
    BY <1>1, <1>2, AfterRest
  <2> QED
    BY <1>1, <1>2, <2>1, <2>2
<1>5. Same(r, t, 0 + 1)
  BY <1>1, <1>3, <1>4, SameMore
<1> QED
  BY <1>1, <1>4, <1>5, SameAll

\* A border node that holds no other suffix, and no link where the string is longer.
Takes(bn, t) == Ends(t) \/ (bn.suffix = NULL /\ bn.link = NULL) \/ bn.suffix = Rest(t)

\* BN_SetValue() sets the value of one string of those that share the slice.
LEMMA ValueSet ==
  ASSUME NEW bn \in Border, NEW t \in String, t # <<>>, NEW v \in Value, Takes(bn, t)
  PROVE  LET bn2 == BN_SetValue(bn, t, v)
         IN  /\ bn2 \in Border /\ BN_GetLink(bn2) = BN_GetLink(bn)
             /\ bn2.suffix # NULL => bn2.suffix = bn.suffix \/ (~Ends(t) /\ bn2.suffix = Rest(t))
             /\ NextIn(bn2, t) = NULL
             /\ \A r \in String : NextKeySlice(r) = NextKeySlice(t) =>
                  ValueIn(bn2, r) = IF r = t THEN v ELSE ValueIn(bn, r)
<1> DEFINE bn2 == BN_SetValue(bn, t, v)
<1> SUFFICES /\ bn2 \in Border /\ BN_GetLink(bn2) = BN_GetLink(bn)
             /\ bn2.suffix # NULL => bn2.suffix = bn.suffix \/ (~Ends(t) /\ bn2.suffix = Rest(t))
             /\ NextIn(bn2, t) = NULL
             /\ \A r \in String : NextKeySlice(r) = NextKeySlice(t) =>
                  ValueIn(bn2, r) = IF r = t THEN v ELSE ValueIn(bn, r)
  OBVIOUS
<1>1. CASE Ends(t)
  <2>1. Len(t) \in 1 .. L
    BY <1>1 DEF Ends, String
  <2>2. bn2 = [bn EXCEPT !.prefix = [bn.prefix EXCEPT ![Len(t)] = v]]
    BY <1>1 DEF BN_SetValue, BN_SetPrefixValue, Border
  <2> HIDE DEF bn2
  <2>3. /\ bn2 \in Border /\ bn2.suffix = bn.suffix /\ bn2.link = bn.link
        /\ bn2.prefix[Len(t)] = v
        /\ \A i \in 1 .. L : i # Len(t) => bn2.prefix[i] = bn.prefix[i]
    BY <2>1, <2>2 DEF Border
  <2>4. bn # NULL /\ bn2 # NULL
    BY <2>3, NullAssumption
  <2>5. BN_GetLink(bn2) = BN_GetLink(bn)
    BY <2>3 DEF BN_GetLink, BN_HasSuffix
  <2>6. NextIn(bn2, t) = NULL
    BY <1>1 DEF NextIn
  <2>7. ASSUME NEW r \in String, NextKeySlice(r) = NextKeySlice(t)
        PROVE  ValueIn(bn2, r) = IF r = t THEN v ELSE ValueIn(bn, r)
    <3>1. CASE ~Ends(r)
      BY <1>1, <2>3, <2>4, <3>1 DEF ValueIn, BN_HasSuffix, BN_GetSuffixValue
    <3>2. CASE r = <<>>
      BY <3>2 DEF ValueIn
    <3>3. CASE Ends(r) /\ r # <<>> /\ r # t
      <4>1. Len(r) # Len(t)
        BY <2>7, <3>3, EndsEq
      <4>2. Len(r) \in 1 .. L
        BY <3>3 DEF Ends, String
      <4> QED
        BY <2>3, <2>4, <3>3, <4>1, <4>2 DEF ValueIn, BN_GetPrefixValue
    <3>4. CASE r = t
      BY <1>1, <2>3, <2>4, <3>4 DEF ValueIn, BN_GetPrefixValue
    <3> QED
      BY <3>1, <3>2, <3>3, <3>4
  <2> QED
    BY <2>3, <2>5, <2>6, <2>7
<1>2. CASE ~Ends(t)
  <2>1. Rest(t) \in String /\ Rest(t) # NULL
    BY <1>2, RestOK, NullAssumption
  <2>2. bn2 = [bn EXCEPT !.suffix = Rest(t), !.link = v]
    BY <1>2 DEF BN_SetValue, BN_SetSuffixValue
  <2> HIDE DEF bn2
  <2>3. bn2 \in Border /\ bn2.suffix = Rest(t) /\ bn2.link = v /\ bn2.prefix = bn.prefix
    BY <2>1, <2>2 DEF Border
  <2>4. bn # NULL /\ bn2 # NULL
    BY <2>3, NullAssumption
  <2>5. BN_GetLink(bn2) = NULL /\ BN_GetLink(bn) = NULL
    BY <1>2, <2>1, <2>3 DEF BN_GetLink, BN_HasSuffix, Takes
  <2>6. NextIn(bn2, t) = NULL
    BY <2>5 DEF NextIn
  <2>7. ASSUME NEW r \in String, NextKeySlice(r) = NextKeySlice(t)
        PROVE  ValueIn(bn2, r) = IF r = t THEN v ELSE ValueIn(bn, r)
    <3>1. CASE r = <<>>
      BY <3>1 DEF ValueIn
    <3>2. CASE Ends(r) /\ r # <<>>
      BY <1>2, <2>3, <2>4, <3>2 DEF ValueIn, BN_GetPrefixValue
    <3>3. CASE r = t
      BY <1>2, <2>1, <2>3, <2>4, <3>3 DEF ValueIn, BN_HasSuffix, BN_GetSuffixValue
    <3>4. CASE ~Ends(r) /\ r # t /\ r # <<>>
      <4>1. Rest(r) # Rest(t)
        BY <1>2, <2>7, <3>4, RestEq
      <4>2. ValueIn(bn2, r) = NULL
        BY <2>3, <2>4, <3>4, <4>1 DEF ValueIn, BN_HasSuffix, BN_GetSuffixValue
      <4>3. ValueIn(bn, r) = NULL
        BY <1>2, <3>4, <4>1 DEF ValueIn, BN_HasSuffix, BN_GetSuffixValue, Takes
      <4> QED
        BY <3>4, <4>2, <4>3
    <3> QED
      BY <3>1, <3>2, <3>3, <3>4
  <2> QED
    BY <1>2, <2>3, <2>5, <2>6, <2>7
<1> QED
  BY <1>1, <1>2

\* A key that ends in a slice is as long as its slot says, up to zeroes.
PadOK(s, bn) == \A i \in 1 .. L : bn.prefix[i] # NULL => \A j \in i + 1 .. L : s[j] = 0

Padded(nd) ==
  \A n \in LayersIn(nd), s \in Slice : nd[n][s] # NULL => PadOK(s, nd[n][s])

LEMMA PadSet ==
  ASSUME NEW bn \in Border, NEW t \in String, t # <<>>, NEW v \in Value,
         PadOK(NextKeySlice(t), bn)
  PROVE  PadOK(NextKeySlice(t), BN_SetValue(bn, t, v))
<1> DEFINE s == NextKeySlice(t)
           bn2 == BN_SetValue(bn, t, v)
<1>1. CASE Ends(t)
  <2>1. Len(t) \in 1 .. L
    BY <1>1 DEF Ends, String
  <2>2. bn2.prefix = [bn.prefix EXCEPT ![Len(t)] = v]
    BY <1>1 DEF BN_SetValue, BN_SetPrefixValue, Border
  <2>3. \A i \in 1 .. L : i # Len(t) => bn2.prefix[i] = bn.prefix[i]
    BY <2>1, <2>2 DEF Border
  <2>4. \A j \in Len(t) + 1 .. L : s[j] = 0
    BY <2>1 DEF NextKeySlice
  <2> HIDE DEF bn2, s
  <2>5. PadOK(s, bn)
    BY DEF s
  <2>6. PadOK(s, bn2)
    BY <2>1, <2>3, <2>4, <2>5 DEF PadOK
  <2> QED
    BY <2>6 DEF bn2, s
<1>2. CASE ~Ends(t)
  <2>1. bn2.prefix = bn.prefix
    BY <1>2 DEF BN_SetValue, BN_SetSuffixValue, Border
  <2> QED
    BY <2>1 DEF PadOK
<1> QED
  BY <1>1, <1>2

\* The border node that a put for slice s of node n begins with.
Held(nd, n, s) == IF nd[n][s] = NULL THEN BN_NewBorderNode ELSE nd[n][s]

LEMMA HeldOK ==
  ASSUME NEW nd, TrieOK(nd), Padded(nd), NEW n \in LayersIn(nd), NEW s \in Slice
  PROVE  /\ Held(nd, n, s) \in Border /\ BorderOK(nd, Held(nd, n, s))
         /\ PadOK(s, Held(nd, n, s))
         /\ BN_GetLink(Held(nd, n, s)) = LinkIn(nd, n, s)
         /\ \A r \in String : ValueIn(Held(nd, n, s), r) = ValueIn(nd[n][s], r)
<1>1. n \in KVNode /\ nd[n] # NULL /\ nd[n] \in [Slice -> Border \cup {NULL}]
  BY DEF TrieOK, Tries, LayersIn
<1>2. CASE nd[n][s] = NULL
  <2>1. /\ BN_NewBorderNode \in Border /\ BorderOK(nd, BN_NewBorderNode)
        /\ BN_NewBorderNode # NULL
    BY NewBorderOK, NullAssumption
  <2>2. PadOK(s, BN_NewBorderNode)
    BY DEF PadOK, BN_NewBorderNode
  <2>3. BN_GetLink(BN_NewBorderNode) = NULL
    BY DEF BN_GetLink, BN_HasSuffix, BN_NewBorderNode
  <2>4. ASSUME NEW r \in String PROVE ValueIn(BN_NewBorderNode, r) = NULL
    <3>1. r # <<>> /\ Ends(r) => Len(r) \in 1 .. L
      BY DEF Ends, String
    <3>2. r # <<>> /\ Ends(r) => BN_GetPrefixValue(BN_NewBorderNode, Len(r)) = NULL
      BY <3>1 DEF BN_GetPrefixValue, BN_NewBorderNode
    <3>3. ~BN_HasSuffix(BN_NewBorderNode)
      BY DEF BN_HasSuffix, BN_NewBorderNode
    <3> QED
      BY <3>2, <3>3 DEF ValueIn
  <2>5. \A r \in String : ValueIn(nd[n][s], r) = NULL
    BY <1>2 DEF ValueIn
  <2> QED
    BY <1>2, <2>1, <2>2, <2>3, <2>4, <2>5 DEF Held, LinkIn
<1>3. CASE nd[n][s] # NULL
  BY <1>1, <1>3 DEF Held, LinkIn, TrieOK, Padded
<1> QED
  BY <1>2, <1>3

\* Two keys that come to a node are the same up to its layer.
LEMMA ComeSame ==
  ASSUME NEW dep, NEW rep, NEW n, NEW j, NEW k, ComesTo(j, dep, rep, n),
         ComesTo(k, dep, rep, n)
  PROVE  Same(j, k, dep[n])
BY DEF ComesTo, Same

\* The trie with value v for key k in node n.
Written(nd, dep, n, k, v) ==
  Put(nd, n, SliceAt(k, dep[n]),
      BN_SetValue(Held(nd, n, SliceAt(k, dep[n])), After(k, dep[n]), v))

LEMMA WrittenOK ==
  ASSUME NEW nd, TrieOK(nd), Padded(nd), NEW dep, NEW rep, Placed(nd, dep, rep),
         NEW c \in LayersIn(nd), NEW k \in Key, ComesTo(k, dep, rep, c),
         After(k, dep[c]) # <<>>, NEW v \in Value,
         Takes(Held(nd, c, SliceAt(k, dep[c])), After(k, dep[c]))
  PROVE  LET nd2 == Written(nd, dep, c, k, v)
         IN  /\ TrieOK(nd2) /\ Padded(nd2) /\ Placed(nd2, dep, rep)
             /\ LayersIn(nd2) = LayersIn(nd)
             /\ \A r \in Slice : r # SliceAt(k, dep[c]) => nd2[c][r] = nd[c][r]
             /\ Slot(nd2, dep, c, k) =
                  BN_SetValue(Held(nd, c, SliceAt(k, dep[c])), After(k, dep[c]), v)
             /\ StopsAt(nd2, dep, rep, c, k)
             /\ \A j \in Key : Find(nd2, j) = IF j = k THEN v ELSE Find(nd, j)
<1> DEFINE s == SliceAt(k, dep[c])
           t == After(k, dep[c])
           bn == Held(nd, c, s)
           bn2 == BN_SetValue(bn, t, v)
           nd2 == Put(nd, c, s, bn2)
<1>1. Written(nd, dep, c, k, v) = nd2
  BY DEF Written
<1>2. k \in String /\ dep[c] \in Nat /\ Off(dep[c]) <= Len(k)
  BY KeyAssumption DEF ComesTo, Same, Placed, LayersIn
<1>3. s \in Slice /\ t \in String /\ s = NextKeySlice(t)
  BY <1>2, SliceFacts, AfterFacts DEF SliceAt
<1>4. /\ bn \in Border /\ BorderOK(nd, bn) /\ PadOK(s, bn) /\ BN_GetLink(bn) = LinkIn(nd, c, s)
      /\ \A r \in String : ValueIn(bn, r) = ValueIn(nd[c][s], r)
  BY <1>3, HeldOK
<1> HIDE DEF s, t, bn
<1>5. /\ bn2 \in Border /\ BN_GetLink(bn2) = BN_GetLink(bn)
      /\ bn2.suffix # NULL => bn2.suffix = bn.suffix \/ (~Ends(t) /\ bn2.suffix = Rest(t))
      /\ NextIn(bn2, t) = NULL
      /\ \A r \in String : NextKeySlice(r) = NextKeySlice(t) =>
           ValueIn(bn2, r) = IF r = t THEN v ELSE ValueIn(bn, r)
  BY <1>3, <1>4, ValueSet DEF bn, s, t
<1>6. BorderOK(nd, bn2) /\ PadOK(s, bn2)
  BY <1>3, <1>4, SetValueOK, PadSet DEF t
<1>7. bn2 # NULL
  BY <1>5, NullAssumption
<1> HIDE DEF bn2
<1>8. bn2.suffix # NULL => SuffixKey(dep, rep, c, s, bn2.suffix)
  <2>1. ASSUME ~Ends(t), bn2.suffix = Rest(t) PROVE SuffixKey(dep, rep, c, s, bn2.suffix)
    <3>1. Rest(t) = After(k, dep[c] + 1)
      BY <1>2, <2>1, AfterRest DEF t
    <3>2. Same(k, rep[c], dep[c])
      BY DEF ComesTo
    <3> QED
      BY <2>1, <3>1, <3>2 DEF SuffixKey, s, t
  <2>2. ASSUME bn.suffix # NULL PROVE SuffixKey(dep, rep, c, s, bn.suffix)
    <3>1. nd[c][s] # NULL /\ bn = nd[c][s]
      BY <2>2 DEF bn, Held, BN_NewBorderNode
    <3> QED
      BY <1>3, <2>2, <3>1 DEF Placed
  <2> QED
    BY <1>5, <2>1, <2>2
<1>9. TrieOK(nd2)
  BY <1>3, <1>5, <1>6, PutRecordOK DEF LayersIn
<1>10. Placed(nd2, dep, rep)
  BY <1>3, <1>4, <1>5, <1>8, PlacePut
<1>11. /\ LayersIn(nd2) = LayersIn(nd) /\ nd2[c][s] = bn2
       /\ \A n \in LayersIn(nd), r \in Slice : ~(n = c /\ r = s) => nd2[n][r] = nd[n][r]
  BY <1>3, <1>5, PutFacts
<1> HIDE DEF nd2
<1>12. Padded(nd2)
  BY <1>6, <1>11 DEF Padded
<1>13. Slot(nd2, dep, c, k) = bn2 /\ StopsAt(nd2, dep, rep, c, k)
  BY <1>5, <1>11 DEF StopsAt, Slot, s, t
<1>14. Find(nd2, k) = v
  <2>1. Find(nd2, k) = ValueIn(bn2, t)
    BY <1>2, <1>10, <1>13, FindIs DEF t, LayersIn
  <2> QED
    BY <1>3, <1>5, <2>1
<1>15. ASSUME NEW j \in Key, j # k PROVE Find(nd2, j) = Find(nd, j)
  <2>1. j \in String
    BY KeyAssumption
  <2>2. PICK n \in LayersIn(nd) : StopsAt(nd, dep, rep, n, j)
    BY <2>1, StopsSomewhere
  <2>3. /\ n \in KVNode /\ dep[n] \in Nat /\ Off(dep[n]) <= Len(j)
        /\ SliceAt(j, dep[n]) \in Slice
    <3>1. n \in KVNode /\ dep[n] \in Nat /\ Off(dep[n]) <= Len(j)
      BY <2>2 DEF StopsAt, ComesTo, Same, Placed, LayersIn
    <3> QED
      BY <2>1, <3>1, SliceFacts
  <2>4. CASE ~(n = c /\ SliceAt(j, dep[n]) = s)
    <3>1. Slot(nd2, dep, n, j) = Slot(nd, dep, n, j)
      BY <1>11, <2>2, <2>3, <2>4 DEF Slot
    <3> QED
      BY <1>10, <1>11, <2>1, <2>2, <2>3, <3>1, Elsewhere
  <2>5. CASE n = c /\ SliceAt(j, dep[n]) = s
    <3> DEFINE r == After(j, dep[c])
    <3>1. r \in String /\ NextKeySlice(r) = s
      BY <2>1, <2>3, <2>5, AfterFacts DEF SliceAt
    <3>2. r # t
      <4>1. Same(j, k, dep[c])
        BY <2>2, <2>5, ComeSame DEF StopsAt
      <4> QED
        BY <1>2, <1>15, <2>1, <4>1, SameAll DEF t
    <3>3. Find(nd, j) = ValueIn(nd[c][s], r)
      BY <2>1, <2>2, <2>3, <2>5, FindIs DEF Slot
    <3>4. NextIn(nd[c][s], r) = NULL
      BY <2>2, <2>5 DEF StopsAt, Slot
    <3> HIDE DEF r
    <3>5. NextIn(bn2, r) = NULL
      <4>1. ~Ends(r) => LinkIn(nd, c, s) = NULL
        BY <3>4 DEF NextIn, LinkIn
      <4>2. BN_GetLink(bn2) = LinkIn(nd, c, s)
        BY <1>4, <1>5
      <4> QED
        BY <4>1, <4>2 DEF NextIn
    <3>6. StopsAt(nd2, dep, rep, c, j)
      BY <1>11, <2>2, <2>5, <3>5 DEF StopsAt, Slot, r
    <3>7. Find(nd2, j) = ValueIn(bn2, r)
      BY <1>10, <1>11, <2>1, <2>3, <2>5, <3>6, FindIs DEF Slot, r
    <3> QED
      BY <1>3, <1>4, <1>5, <3>1, <3>2, <3>3, <3>7
  <2> QED
    BY <2>4, <2>5
<1> QED
  BY <1>1, <1>9, <1>10, <1>11, <1>12, <1>13, <1>14, <1>15 DEF s, t, bn, bn2

\* The trie with a link from node n to a new node, for the keys with the slice of key k,
\* and the place of the new node.
Grown(nd, dep, n, k, link, bn) ==
  Put(Grow(nd, link), n, SliceAt(k, dep[n]), BN_SetLink(bn, link))

DepGrown(dep, n, link) == [dep EXCEPT ![link] = dep[n] + 1]
RepGrown(rep, k, link) == [rep EXCEPT ![link] = k]

LEMMA GrownFacts ==
  ASSUME NEW nd, TrieOK(nd), NEW c \in LayersIn(nd), NEW s \in Slice,
         NEW link \in KVNode, nd[link] = NULL, NEW bn \in Border
  PROVE  LET nd2 == Put(Grow(nd, link), c, s, BN_SetLink(bn, link))
         IN  /\ TrieOK(nd2) /\ LayersIn(nd2) = LayersIn(nd) \cup {link}
             /\ LinkIn(nd2, c, s) = link
             /\ nd2[c][s] # NULL /\ nd2[c][s].suffix = NULL /\ nd2[c][s].prefix = bn.prefix
             /\ \A r \in Slice : nd2[link][r] = NULL
             /\ \A n \in LayersIn(nd), r \in Slice :
                  ~(n = c /\ r = s) => nd2[n][r] = nd[n][r]
<1> DEFINE g == Grow(nd, link)
           bn2 == BN_SetLink(bn, link)
           nd2 == Put(g, c, s, bn2)
<1>1. c \in KVNode /\ nd[c] # NULL /\ c # link
  BY DEF LayersIn
<1>2. TrieOK(g) /\ g[link] # NULL /\ \A m \in KVNode : nd[m] # NULL => g[m] = nd[m]
  BY NewNodeOK
<1>3. LayersIn(g) = LayersIn(nd) \cup {link} /\ \A r \in Slice : g[link][r] = NULL
  <2>1. nd \in [KVNode -> [Slice -> Border \cup {NULL}] \cup {NULL}]
    BY DEF TrieOK, Tries
  <2>2. g[link] = newKVNode /\ \A m \in KVNode \ {link} : g[m] = nd[m]
    BY <2>1 DEF Grow
  <2>3. \A r \in Slice : newKVNode[r] = NULL
    BY DEF newKVNode
  <2> QED
    BY <1>2, <2>2, <2>3 DEF LayersIn
<1>4. /\ bn2 \in Border /\ bn2.suffix = NULL /\ bn2.link = link /\ bn2.prefix = bn.prefix
      /\ bn2 # NULL
  <2>1. bn2 \in Border /\ bn2.suffix = NULL /\ bn2.link = link /\ bn2.prefix = bn.prefix
    BY DEF BN_SetLink, Border
  <2> QED
    BY <2>1, NullAssumption
<1> HIDE DEF g, bn2
<1>5. BorderOK(g, bn2)
  BY <1>2, <1>4 DEF BorderOK
<1>6. c \in LayersIn(g)
  BY <1>3
<1>7. TrieOK(nd2)
  BY <1>1, <1>2, <1>4, <1>5, <1>6, PutRecordOK DEF LayersIn
<1>8. /\ LayersIn(nd2) = LayersIn(g) /\ nd2[c][s] = bn2
      /\ \A n \in LayersIn(g), r \in Slice : ~(n = c /\ r = s) => nd2[n][r] = g[n][r]
  BY <1>2, <1>4, <1>6, PutFacts
<1> HIDE DEF nd2
<1>9. LinkIn(nd2, c, s) = link
  BY <1>4, <1>8 DEF LinkIn, BN_GetLink, BN_HasSuffix
<1>10. \A r \in Slice : nd2[link][r] = NULL
  BY <1>1, <1>3, <1>8
<1>11. \A n \in LayersIn(nd), r \in Slice : ~(n = c /\ r = s) => nd2[n][r] = nd[n][r]
  BY <1>2, <1>3, <1>8 DEF LayersIn
<1> QED
  BY <1>3, <1>4, <1>7, <1>8, <1>9, <1>10, <1>11 DEF nd2, g, bn2

\* No node of the trie is in the place of the new one.
LEMMA NoneThere ==
  ASSUME NEW nd, TrieOK(nd), NEW dep, NEW rep, Placed(nd, dep, rep),
         NEW c \in LayersIn(nd), NEW k \in String, ComesTo(k, dep, rep, c),
         LinkIn(nd, c, SliceAt(k, dep[c])) = NULL,
         NEW m \in LayersIn(nd), dep[m] = dep[c] + 1, Same(rep[m], k, dep[c] + 1)
  PROVE  FALSE
<1>1. /\ dep[c] \in Nat /\ rep[c] \in String /\ rep[m] \in String /\ dep[rootNode] = 0
      /\ m \in KVNode /\ m # NULL
  BY NullAssumption DEF Placed, LayersIn
<1>2. m # rootNode
  BY <1>1
<1>3. PICK p \in LayersIn(nd), r \in Slice : LinkIn(nd, p, r) = m
  BY <1>2 DEF Placed
<1>4. dep[m] = dep[p] + 1 /\ Same(rep[m], rep[p], dep[p]) /\ SliceAt(rep[m], dep[p]) = r
  BY <1>1, <1>3 DEF Placed, Child
<1>5. dep[p] = dep[c]
  <2>1. dep[p] \in Nat
    BY DEF Placed, LayersIn
  <2> QED
    BY <1>1, <1>4, <2>1
<1>6. Same(rep[m], k, dep[c]) /\ SliceAt(rep[m], dep[c]) = SliceAt(k, dep[c])
  BY <1>1, SameLess
<1>7. Same(rep[p], rep[c], dep[c])
  BY <1>4, <1>5, <1>6 DEF Same, ComesTo
<1>8. p = c
  BY <1>5, <1>7 DEF Placed
<1> QED
  BY <1>1, <1>3, <1>4, <1>6, <1>8

LEMMA PlaceGrown ==
  ASSUME NEW nd, TrieOK(nd), NEW dep, NEW rep, Placed(nd, dep, rep),
         NEW c \in LayersIn(nd), NEW k \in String, ComesTo(k, dep, rep, c),
         ~Ends(After(k, dep[c])), LinkIn(nd, c, SliceAt(k, dep[c])) = NULL,
         NEW link \in KVNode, nd[link] = NULL, NEW bn \in Border
  PROVE  Placed(Grown(nd, dep, c, k, link, bn), DepGrown(dep, c, link), RepGrown(rep, k, link))
<1> DEFINE s == SliceAt(k, dep[c])
           nd2 == Grown(nd, dep, c, k, link, bn)
           dep2 == DepGrown(dep, c, link)
           rep2 == RepGrown(rep, k, link)
           d == dep[c]
<1>1. /\ d \in Nat /\ Off(d) <= Len(k) /\ Same(k, rep[c], d)
      /\ Off(d + 1) < Len(k) /\ s \in Slice
  <2>1. d \in Nat /\ Off(d) <= Len(k) /\ Same(k, rep[c], d)
    BY DEF Placed, LayersIn, ComesTo, Same
  <2> QED
    BY <2>1, AfterRest, SliceFacts
<1>2. /\ dep \in [KVNode -> Nat] /\ rep \in [KVNode -> String]
      /\ link \notin LayersIn(nd) /\ rootNode \in LayersIn(nd)
  BY DEF Placed, LayersIn
<1>3. /\ dep2 \in [KVNode -> Nat] /\ rep2 \in [KVNode -> String]
      /\ dep2[link] = d + 1 /\ rep2[link] = k
      /\ \A n \in LayersIn(nd) : dep2[n] = dep[n] /\ rep2[n] = rep[n]
  <2>1. \A n \in LayersIn(nd) : n \in KVNode /\ n # link
    BY <1>2 DEF LayersIn
  <2>2. d + 1 \in Nat
    BY <1>1
  <2> QED
    BY <1>2, <2>1, <2>2 DEF DepGrown, RepGrown
<1>4. /\ LayersIn(nd2) = LayersIn(nd) \cup {link}
      /\ LinkIn(nd2, c, s) = link
      /\ nd2[c][s] # NULL /\ nd2[c][s].suffix = NULL
      /\ \A r \in Slice : nd2[link][r] = NULL
      /\ \A n \in LayersIn(nd), r \in Slice : ~(n = c /\ r = s) => nd2[n][r] = nd[n][r]
  BY <1>1, GrownFacts DEF Grown
<1>5. LinkIn(nd, c, s) = NULL
  OBVIOUS
<1> HIDE DEF nd2, dep2, rep2, s
<1>6. \A n \in LayersIn(nd), r \in Slice :
        ~(n = c /\ r = s) => LinkIn(nd2, n, r) = LinkIn(nd, n, r)
  BY <1>4 DEF LinkIn
<1>7. dep2[rootNode] = 0 /\ \A n \in LayersIn(nd2) : Off(dep2[n]) <= Len(rep2[n])
  <2>1. Off(d + 1) \in Nat /\ Len(k) \in Nat
    BY <1>1, OffFacts, LenNat
  <2>2. Off(dep2[link]) <= Len(rep2[link])
    BY <1>1, <1>3, <2>1
  <2>3. \A n \in LayersIn(nd) : Off(dep2[n]) <= Len(rep2[n])
    BY <1>3 DEF Placed
  <2>4. dep2[rootNode] = 0
    BY <1>2, <1>3 DEF Placed
  <2> QED
    BY <1>4, <2>2, <2>3, <2>4
<1>8. ASSUME NEW n \in LayersIn(nd2), NEW r \in Slice, LinkIn(nd2, n, r) # NULL
      PROVE  /\ LinkIn(nd2, n, r) \in LayersIn(nd2)
             /\ Child(dep2, rep2, n, r, LinkIn(nd2, n, r))
  <2>1. n # link
    BY <1>4, <1>8 DEF LinkIn
  <2>2. n \in LayersIn(nd) /\ dep2[n] = dep[n] /\ rep2[n] = rep[n]
    BY <1>3, <1>4, <2>1
  <2>3. CASE n = c /\ r = s
    <3>1. Child(dep2, rep2, c, s, link)
      BY <1>1, <1>3 DEF Child, s
    <3> QED
      BY <1>4, <2>3, <3>1
  <2>4. CASE ~(n = c /\ r = s)
    <3> DEFINE m == LinkIn(nd, n, r)
    <3>1. LinkIn(nd2, n, r) = m
      BY <1>6, <2>2, <2>4
    <3>2. m \in LayersIn(nd) /\ Child(dep, rep, n, r, m)
      BY <1>8, <2>2, <3>1 DEF Placed
    <3> HIDE DEF m
    <3>3. dep2[m] = dep[m] /\ rep2[m] = rep[m]
      BY <1>3, <3>2
    <3>4. Child(dep2, rep2, n, r, m)
      BY <2>2, <3>2, <3>3 DEF Child
    <3> QED
      BY <1>4, <3>1, <3>2, <3>4
  <2> QED
    BY <2>3, <2>4
<1>9. ASSUME NEW m \in LayersIn(nd2) \ {rootNode}
      PROVE  \E n \in LayersIn(nd2), r \in Slice : LinkIn(nd2, n, r) = m
  <2>1. CASE m = link
    BY <1>1, <1>4, <2>1
  <2>2. CASE m # link
    <3>1. m \in LayersIn(nd) \ {rootNode} /\ m # NULL
      BY <1>4, <2>2, NullAssumption DEF LayersIn
    <3>2. PICK n \in LayersIn(nd), r \in Slice : LinkIn(nd, n, r) = m
      BY <3>1 DEF Placed
    <3>3. LinkIn(nd2, n, r) = m
      BY <1>5, <1>6, <3>1, <3>2
    <3> QED
      BY <1>4, <3>3
  <2> QED
    BY <2>1, <2>2
<1>10. ASSUME NEW m \in LayersIn(nd), dep[m] = d + 1, Same(rep[m], k, d + 1)
       PROVE  FALSE
  BY <1>10, NoneThere
<1>11. ASSUME NEW m \in LayersIn(nd2), NEW n \in LayersIn(nd2), dep2[m] = dep2[n],
              Same(rep2[m], rep2[n], dep2[n])
       PROVE  m = n
  <2>1. CASE m = link /\ n = link
    BY <2>1
  <2>2. CASE m # link /\ n # link
    <3>1. m \in LayersIn(nd) /\ n \in LayersIn(nd)
      BY <1>4, <2>2
    <3> QED
      BY <1>3, <1>11, <3>1 DEF Placed
  <2>3. CASE m # link /\ n = link
    <3>1. m \in LayersIn(nd)
      BY <1>4, <2>3
    <3> QED
      BY <1>3, <1>10, <1>11, <2>3, <3>1
  <2>4. CASE m = link /\ n # link
    <3>1. n \in LayersIn(nd)
      BY <1>4, <2>4
    <3>2. dep[n] = d + 1 /\ Same(k, rep[n], d + 1)
      BY <1>3, <1>11, <2>4, <3>1
    <3>3. Same(rep[n], k, d + 1)
      BY <3>2 DEF Same
    <3> QED
      BY <1>10, <3>1, <3>2, <3>3
  <2> QED
    BY <2>1, <2>2, <2>3, <2>4
<1>12. ASSUME NEW n \in LayersIn(nd2), NEW r \in Slice,
              nd2[n][r] # NULL, nd2[n][r].suffix # NULL
       PROVE  SuffixKey(dep2, rep2, n, r, nd2[n][r].suffix)
  <2>1. n \in LayersIn(nd) /\ ~(n = c /\ r = s)
    BY <1>4, <1>12
  <2>2. nd2[n][r] = nd[n][r] /\ dep2[n] = dep[n] /\ rep2[n] = rep[n]
    BY <1>3, <1>4, <2>1
  <2>3. SuffixKey(dep, rep, n, r, nd[n][r].suffix)
    BY <1>12, <2>1, <2>2 DEF Placed
  <2> QED
    BY <2>2, <2>3 DEF SuffixKey
<1>13. Placed(nd2, dep2, rep2)
  BY <1>2, <1>3, <1>4, <1>7, <1>8, <1>9, <1>11, <1>12 DEF Placed
<1> QED
  BY <1>13 DEF nd2, dep2, rep2

\* Keys j and k go together from node n to the next layer.
Together(j, k, dep, rep, n) ==
  /\ ComesTo(j, dep, rep, n) /\ SliceAt(j, dep[n]) = SliceAt(k, dep[n])
  /\ ~Ends(After(j, dep[n]))

LEMMA GrownOK ==
  ASSUME NEW nd, TrieOK(nd), Padded(nd), NEW dep, NEW rep, Placed(nd, dep, rep),
         NEW c \in LayersIn(nd), NEW k \in String, ComesTo(k, dep, rep, c),
         ~Ends(After(k, dep[c])), LinkIn(nd, c, SliceAt(k, dep[c])) = NULL,
         NEW link \in KVNode, nd[link] = NULL, NEW bn \in Border,
         bn.prefix = Held(nd, c, SliceAt(k, dep[c])).prefix
  PROVE  LET nd2 == Grown(nd, dep, c, k, link, bn)
             dep2 == DepGrown(dep, c, link)
             rep2 == RepGrown(rep, k, link)
         IN  /\ TrieOK(nd2) /\ Padded(nd2) /\ Placed(nd2, dep2, rep2)
             /\ link \in LayersIn(nd2) /\ dep2[link] = dep[c] + 1
             /\ \A r \in Slice : nd2[link][r] = NULL
             /\ \A j \in String : Together(j, k, dep, rep, c) =>
                  ComesTo(j, dep2, rep2, link) /\ Rest(After(j, dep[c])) = After(j, dep2[link])
             /\ \A j \in String : Find(nd2, j) =
                  IF Together(j, k, dep, rep, c) THEN NULL ELSE Find(nd, j)
<1> DEFINE d == dep[c]
           s == SliceAt(k, d)
           nd2 == Grown(nd, dep, c, k, link, bn)
           dep2 == DepGrown(dep, c, link)
           rep2 == RepGrown(rep, k, link)
<1>1. /\ d \in Nat /\ Off(d) <= Len(k) /\ Off(d + 1) < Len(k) /\ s \in Slice
      /\ d + 1 \in Nat /\ Off(d + 1) \in Nat
  <2>1. d \in Nat /\ Off(d) <= Len(k)
    BY DEF Placed, LayersIn, ComesTo, Same
  <2>2. d + 1 \in Nat /\ Off(d + 1) \in Nat
    <3>1. \A i \in Nat : i + 1 \in Nat /\ Off(i + 1) \in Nat
      BY OffFacts
    <3> QED
      BY <2>1, <3>1
  <2>3. Off(d + 1) < Len(k)
    BY <2>1, AfterRest
  <2>4. s \in Slice
    BY <2>1, SliceFacts
  <2> QED
    BY <2>1, <2>2, <2>3, <2>4
<1>2. /\ dep2[link] = d + 1 /\ rep2[link] = k
      /\ \A n \in LayersIn(nd) : dep2[n] = dep[n] /\ rep2[n] = rep[n]
  <2>1. \A n \in LayersIn(nd) : n \in KVNode /\ n # link
    BY DEF LayersIn
  <2>2. dep \in [KVNode -> Nat] /\ rep \in [KVNode -> String]
    BY DEF Placed
  <2> QED
    BY <2>1, <2>2 DEF DepGrown, RepGrown
<1>3. Placed(nd2, dep2, rep2)
  BY PlaceGrown
<1>4. /\ TrieOK(nd2) /\ LayersIn(nd2) = LayersIn(nd) \cup {link}
      /\ nd2[c][s] # NULL /\ nd2[c][s].prefix = bn.prefix
      /\ \A r \in Slice : nd2[link][r] = NULL
      /\ \A n \in LayersIn(nd), r \in Slice : ~(n = c /\ r = s) => nd2[n][r] = nd[n][r]
  BY <1>1, GrownFacts DEF Grown
<1>5. /\ Held(nd, c, s) \in Border /\ PadOK(s, Held(nd, c, s))
      /\ bn.prefix = Held(nd, c, s).prefix
      /\ \A r \in String : ValueIn(Held(nd, c, s), r) = ValueIn(nd[c][s], r)
  BY <1>1, HeldOK
<1> HIDE DEF nd2, dep2, rep2, s
<1>6. Padded(nd2)
  <2>1. PadOK(s, nd2[c][s])
    BY <1>4, <1>5 DEF PadOK
  <2>2. ASSUME NEW n \in LayersIn(nd2), NEW r \in Slice, nd2[n][r] # NULL
        PROVE  PadOK(r, nd2[n][r])
    <3>1. CASE n = c /\ r = s
      BY <2>1, <3>1
    <3>2. CASE ~(n = c /\ r = s)
      <4>1. n \in LayersIn(nd) /\ nd2[n][r] = nd[n][r]
        BY <1>4, <2>2, <3>2
      <4> QED
        BY <2>2, <4>1 DEF Padded
    <3> QED
      BY <3>1, <3>2
  <2> QED
    BY <2>2 DEF Padded
<1>7. ASSUME NEW j \in String, Together(j, k, dep, rep, c)
      PROVE  /\ ComesTo(j, dep2, rep2, link) /\ Rest(After(j, d)) = After(j, dep2[link])
             /\ Find(nd2, j) = NULL
  <2>1. Off(d) <= Len(j) /\ ~Ends(After(j, d)) /\ SliceAt(j, d) = s /\ Same(j, k, d)
    <3>1. ComesTo(j, dep, rep, c) /\ ~Ends(After(j, d)) /\ SliceAt(j, d) = s
      BY <1>7 DEF Together, s
    <3> QED
      BY <3>1, ComeSame DEF Same
  <2>2. Rest(After(j, d)) = After(j, d + 1) /\ Off(d + 1) < Len(j)
    BY <1>1, <2>1, AfterRest
  <2>3. Off(d + 1) <= Len(j) /\ Off(d + 1) <= Len(k)
    BY <1>1, <2>2, LenNat
  <2>4. Same(j, k, d + 1)
    BY <1>1, <2>1, <2>3, SameMore DEF s
  <2>5. ComesTo(j, dep2, rep2, link)
    BY <1>2, <2>2, <2>4 DEF ComesTo
  <2>6. SliceAt(j, d + 1) \in Slice
    BY <1>1, <2>3, SliceFacts
  <2>7. Slot(nd2, dep2, link, j) = NULL
    BY <1>2, <1>4, <2>6 DEF Slot
  <2>8. StopsAt(nd2, dep2, rep2, link, j)
    BY <1>4, <2>5, <2>7 DEF StopsAt, NextIn
  <2>9. Find(nd2, j) = ValueIn(Slot(nd2, dep2, link, j), After(j, dep2[link]))
    BY <1>3, <2>8, FindIs
  <2> QED
    BY <1>2, <2>2, <2>5, <2>7, <2>9 DEF ValueIn
<1>8. ASSUME NEW j \in String, ~Together(j, k, dep, rep, c)
      PROVE  Find(nd2, j) = Find(nd, j)
  <2>1. PICK n \in LayersIn(nd) : StopsAt(nd, dep, rep, n, j)
    BY StopsSomewhere
  <2>2. /\ n \in KVNode /\ dep[n] \in Nat /\ Off(dep[n]) <= Len(j)
        /\ SliceAt(j, dep[n]) \in Slice
    <3>1. n \in KVNode /\ dep[n] \in Nat /\ Off(dep[n]) <= Len(j)
      BY <2>1 DEF StopsAt, ComesTo, Same, Placed, LayersIn
    <3> QED
      BY <3>1, SliceFacts
  <2>3. CASE ~(n = c /\ SliceAt(j, dep[n]) = s)
    <3>1. Slot(nd2, dep, n, j) = Slot(nd, dep, n, j)
      BY <1>4, <2>1, <2>2, <2>3 DEF Slot
    <3> QED
      BY <1>2, <1>3, <1>4, <2>1, <2>2, <3>1, Elsewhere
  <2>4. CASE n = c /\ SliceAt(j, dep[n]) = s
    <3> DEFINE r == After(j, d)
    <3>1. r \in String
      BY <2>2, <2>4, AfterFacts
    <3>2. Find(nd, j) = ValueIn(nd[c][s], r)
      BY <2>1, <2>2, <2>4, FindIs DEF Slot
    <3>3. Ends(r)
      BY <1>8, <2>1, <2>4 DEF Together, StopsAt, s
    <3>4. dep2[c] = d /\ rep2[c] = rep[c] /\ Slot(nd2, dep2, c, j) = nd2[c][s]
      BY <1>2, <2>4 DEF Slot
    <3>5. ComesTo(j, dep2, rep2, c)
      BY <2>1, <2>4, <3>4 DEF StopsAt, ComesTo
    <3>6. StopsAt(nd2, dep2, rep2, c, j)
      BY <1>4, <3>3, <3>4, <3>5 DEF StopsAt, NextIn
    <3>7. Find(nd2, j) = ValueIn(Slot(nd2, dep2, c, j), After(j, dep2[c]))
      BY <1>3, <2>2, <2>4, <3>6, FindIs
    <3> HIDE DEF r
    <3>8. ValueIn(nd2[c][s], r) = ValueIn(Held(nd, c, s), r)
      <4>1. Held(nd, c, s) # NULL
        BY <1>5, NullAssumption
      <4> QED
        BY <1>4, <1>5, <3>3, <4>1 DEF ValueIn, BN_GetPrefixValue
    <3> QED
      BY <1>5, <3>1, <3>2, <3>4, <3>7, <3>8 DEF r
  <2> QED
    BY <2>3, <2>4
<1> QED
  BY <1>2, <1>3, <1>4, <1>6, <1>7, <1>8 DEF nd2, dep2, rep2

\* The head of one key and the rest of another make the other.
LEMMA Rejoin ==
  ASSUME NEW j \in String, NEW k \in String, NEW d \in Nat, Same(j, k, d)
  PROVE  SubSeq(k, 1, Len(k) - Len(After(k, d))) \o After(j, d) = j
<1> DEFINE o == Off(d)
           h == SubSeq(k, 1, o)
           r == After(j, d)
<1>1. o \in Nat /\ Len(j) \in Nat /\ Len(k) \in Nat /\ o <= Len(j) /\ o <= Len(k)
      /\ \A i \in 1 .. o : j[i] = k[i]
  BY OffFacts, LenNat DEF Same
<1>2. Len(k) - Len(After(k, d)) = o
  <2>1. Len(After(k, d)) = Len(k) - Off(d)
    BY <1>1, AfterFacts
  <2> QED
    BY <1>1, <2>1
<1>3. r \in String /\ Len(r) = Len(j) - o /\ \A i \in 1 .. Len(j) - o : r[i] = j[o + i]
  BY <1>1, AfterFacts
<1> HIDE DEF o, r
<1>4. \A i \in 1 .. o : k[i] \in Char
  BY <1>1 DEF String
<1>5. h \in Seq(Char) /\ Len(h) = o /\ \A i \in 1 .. o : h[i] = k[i]
  <2>1. /\ h \in Seq(Char) /\ Len(h) = IF 1 <= o THEN o - 1 + 1 ELSE 0
        /\ \A i \in 1 .. o - 1 + 1 : h[i] = k[1 + i - 1]
    BY <1>1, <1>4, SubSeqProperties DEF String
  <2>2. (IF 1 <= o THEN o - 1 + 1 ELSE 0) = o /\ o - 1 + 1 = o
    BY <1>1
  <2>3. \A i \in 1 .. o : 1 + i - 1 = i
    BY <1>1
  <2> QED
    BY <2>1, <2>2, <2>3
<1> HIDE DEF h
<1> DEFINE w == h \o r
<1>6. /\ w \in Seq(Char) /\ Len(w) = o + (Len(j) - o)
      /\ \A i \in 1 .. o + (Len(j) - o) : w[i] = IF i <= o THEN h[i] ELSE r[i - o]
  <2>1. /\ w \in Seq(Char) /\ Len(w) = Len(h) + Len(r)
        /\ \A i \in 1 .. Len(h) + Len(r) : w[i] = IF i <= Len(h) THEN h[i] ELSE r[i - Len(h)]
    <3>1. h \in Seq(Char) /\ r \in Seq(Char)
      BY <1>3, <1>5 DEF String
    <3> QED
      BY <3>1, ConcatProperties
  <2> HIDE DEF w
  <2> QED
    BY <1>3, <1>5, <2>1
<1> HIDE DEF w
<1>7. o + (Len(j) - o) = Len(j)
  BY <1>1
<1>8. ASSUME NEW i \in 1 .. Len(w) PROVE w[i] = j[i]
  <2>1. i \in 1 .. Len(j)
    BY <1>6, <1>7
  <2>2. CASE i <= o
    BY <1>1, <1>5, <1>6, <1>7, <2>1, <2>2
  <2>3. CASE ~(i <= o)
    <3>1. i - o \in 1 .. Len(j) - o /\ o + (i - o) = i
      BY <1>1, <2>1, <2>3
    <3> QED
      BY <1>3, <1>6, <1>7, <2>1, <2>3, <3>1
  <2> QED
    BY <2>2, <2>3
<1>9. w = j
  BY <1>6, <1>7, <1>8, StringEq DEF String
<1> QED
  BY <1>2, <1>9 DEF w, h, r

-----------------------------------------------------------------------------
(* The invariant: where the call in progress is in the trie.               *)

Where(dep, rep) ==
  /\ Putting \/ pc = "get" => ComesTo(call.key, dep, rep, currNode)
  /\ Putting => key = After(call.key, dep[currNode])
  /\ pc = "get" => call.fn = "lookup" /\ partialKey = After(call.key, dep[currNode])
  /\ Putting /\ sndKey # NULL =>
       /\ dep[currNode] # 0
       /\ \A s \in Slice : node[currNode][s] = NULL
       /\ \E j \in Key : /\ j # call.key /\ ComesTo(j, dep, rep, currNode)
                         /\ sndKey = After(j, dep[currNode])
  /\ pc = "again" => /\ sndKey = NULL
                     /\ StopsAt(node, dep, rep, currNode, call.key)
                     /\ Find(node, call.key) = call.val

PInv ==
  /\ IInv /\ Padded(node)
  /\ \E dep, rep : Placed(node, dep, rep) /\ Where(dep, rep)

\* The effects of a step on the map and on the count.
Quiet == Map' = Map /\ numKeys' = numKeys

Applied ==
  /\ Map' = [Map EXCEPT ![call.key] = call.val]
  /\ numKeys' = IF Map[call.key] = NULL THEN numKeys + 1 ELSE numKeys

\* Where a put is.
LEMMA PutHere ==
  ASSUME IInv, Putting, Asserts, NEW dep, NEW rep, Placed(node, dep, rep), Where(dep, rep)
  PROVE  /\ TrieOK(node) /\ currNode \in LayersIn(node) /\ currNode \in KVNode
         /\ call.key \in Key /\ call.key \in String /\ call.val \in Value
         /\ ComesTo(call.key, dep, rep, currNode)
         /\ key = After(call.key, dep[currNode]) /\ key \in String /\ key # <<>>
         /\ nextKeySlice = SliceAt(call.key, dep[currNode]) /\ nextKeySlice \in Slice
         /\ dep[currNode] \in Nat
<1>1. call.key \in Key /\ call.val \in Value /\ call \in Calls
  BY DEF IInv, LocalsOK, Calls
<1>2. currNode \in LayersIn(node) /\ currNode \in KVNode /\ TrieOK(node) /\ key \in String
  BY DEF IInv, LocalsOK, TypeOK, LayersIn
<1>3. key = After(call.key, dep[currNode]) /\ ComesTo(call.key, dep, rep, currNode)
  BY DEF Where
<1>4. nextKeySlice = SliceAt(call.key, dep[currNode]) /\ nextKeySlice \in Slice
  BY <1>2, <1>3, NextKeySliceOK DEF nextKeySlice, SliceAt
<1>5. dep[currNode] \in Nat
  BY <1>2 DEF Placed
<1> QED
  BY <1>1, <1>2, <1>3, <1>4, <1>5, KeyAssumption DEF Asserts

\* With no second key the map is what is in the trie.
LEMMA MapAlone ==
  /\ (~Putting \/ sndKey = NULL) => Map = [k \in Key |-> Find(node, k)]
  /\ (~Putting' \/ sndKey' = NULL) => Map' = [k \in Key |-> Find(node', k)]
<1>1. (~Putting \/ sndKey = NULL) => Map = [k \in Key |-> Find(node, k)]
  BY DEF Map, Putting
<1>2. (~Putting' \/ sndKey' = NULL) => Map' = [k \in Key |-> Find(node', k)]
  BY DEF Map, Putting
<1> QED
  BY <1>1, <1>2

\* A put of the key where it is, with no second key.
LEMMA StoredOne ==
  ASSUME IInv, Padded(node), Single, NEW dep, NEW rep, Placed(node, dep, rep), Where(dep, rep),
         Takes(Held(node, currNode, nextKeySlice), key),
         RL_PutRecord(currNode, nextKeySlice,
                      BN_SetValue(Held(node, currNode, nextKeySlice), key, value))
  PROVE  /\ Padded(node') /\ Placed(node', dep, rep)
         /\ StopsAt(node', dep, rep, currNode, call.key)
         /\ \A j \in Key : Find(node', j) = IF j = call.key THEN call.val ELSE Find(node, j)
<1>1. /\ TrieOK(node) /\ currNode \in LayersIn(node)
      /\ call.key \in Key /\ call.val \in Value
      /\ ComesTo(call.key, dep, rep, currNode)
      /\ key = After(call.key, dep[currNode]) /\ key # <<>>
      /\ nextKeySlice = SliceAt(call.key, dep[currNode])
  BY PutHere DEF Single
<1>2. node' = Written(node, dep, currNode, call.key, call.val)
  BY <1>1 DEF RL_PutRecord, Written, Put, value
<1> QED
  BY <1>1, <1>2, WrittenOK

\* The value of a key that goes no further.
LEMMA FoundHere ==
  ASSUME IInv, Single, NEW dep, NEW rep, Placed(node, dep, rep), Where(dep, rep),
         NextIn(node[currNode][nextKeySlice], key) = NULL
  PROVE  Find(node, call.key) = ValueIn(node[currNode][nextKeySlice], key)
<1>1. /\ currNode \in LayersIn(node) /\ currNode \in KVNode /\ call.key \in String
      /\ ComesTo(call.key, dep, rep, currNode)
      /\ key = After(call.key, dep[currNode])
      /\ nextKeySlice = SliceAt(call.key, dep[currNode])
  BY PutHere DEF Single
<1>2. StopsAt(node, dep, rep, currNode, call.key)
  BY <1>1 DEF StopsAt, Slot
<1> QED
  BY <1>1, <1>2, FindIs DEF Slot

\* In the round after PutNewSlice the key is found with its value.
LEMMA FoundAgain ==
  ASSUME IInv, pc = "again", Asserts, NEW dep, NEW rep, Placed(node, dep, rep), Where(dep, rep)
  PROVE  /\ ValueIn(node[currNode][nextKeySlice], key) = call.val
         /\ NextIn(node[currNode][nextKeySlice], key) = NULL
         /\ Find(node, call.key) = call.val
         /\ call.val # NULL /\ sndKey = NULL
<1>1. /\ currNode \in KVNode /\ call.key \in String /\ call.val \in Value
      /\ key = After(call.key, dep[currNode])
      /\ nextKeySlice = SliceAt(call.key, dep[currNode])
  BY PutHere DEF Putting
<1>2. /\ StopsAt(node, dep, rep, currNode, call.key) /\ sndKey = NULL
      /\ Find(node, call.key) = call.val
  BY DEF Where
<1>3. Find(node, call.key) = ValueIn(node[currNode][nextKeySlice], key)
  BY <1>1, <1>2, FindIs DEF Slot
<1> QED
  BY <1>1, <1>2, <1>3, NullAssumption DEF StopsAt, Slot

-----------------------------------------------------------------------------
(* The steps: each keeps the invariant and applies the call or leaves the  *)
(* map alone.                                                              *)

\* A new value for the key of the call, with no second key.
LEMMA AppliedBy ==
  ASSUME sndKey = NULL, sndKey' = NULL,
         \A j \in Key : Find(node', j) = IF j = call.key THEN call.val ELSE Find(node, j),
         call.key \in Key
  PROVE  /\ Map' = [Map EXCEPT ![call.key] = call.val]
         /\ Map[call.key] = Find(node, call.key)
         /\ Find(node, call.key) = call.val => Map' = Map
<1>1. Map = [k \in Key |-> Find(node, k)] /\ Map' = [k \in Key |-> Find(node', k)]
  BY MapAlone
<1> QED
  BY <1>1

LEMMA PutNewSliceStep ==
  ASSUME PInv, PutNewSlice
  PROVE  PInv' /\ pc = "put" /\ Applied
<1>1. PICK dep, rep : Placed(node, dep, rep) /\ Where(dep, rep)
  BY DEF PInv
<1>2. /\ IInv /\ Padded(node) /\ Single /\ node[currNode][nextKeySlice] = NULL
      /\ numKeys' = numKeys + 1 /\ pc' = "again" /\ sndKey = NULL
      /\ UNCHANGED <<call, key, sndKey, currNode>>
  BY DEF PInv, PutNewSlice, Single, second
<1>3. pc = "put"
  <2>1. pc = "again" => ValueIn(node[currNode][nextKeySlice], key) # NULL
    BY <1>1, <1>2, FoundAgain DEF Single
  <2> QED
    BY <1>2, <2>1 DEF Single, Putting, ValueIn
<1>4. Held(node, currNode, nextKeySlice) = BN_NewBorderNode
  BY <1>2 DEF Held
<1>5. RL_PutRecord(currNode, nextKeySlice,
                   BN_SetValue(Held(node, currNode, nextKeySlice), key, value))
  BY <1>4 DEF PutNewSlice
<1>6. Takes(Held(node, currNode, nextKeySlice), key)
  BY <1>4 DEF Takes, BN_NewBorderNode
<1>7. /\ Padded(node') /\ Placed(node', dep, rep)
      /\ StopsAt(node', dep, rep, currNode, call.key)
      /\ \A j \in Key : Find(node', j) = IF j = call.key THEN call.val ELSE Find(node, j)
  BY <1>1, <1>2, <1>5, <1>6, StoredOne
<1>8. Find(node, call.key) = NULL
  BY <1>1, <1>2, FoundHere DEF ValueIn, NextIn
<1>9. call.key \in Key
  BY <1>1, <1>2, PutHere DEF Single
<1>10. Applied
  BY <1>2, <1>7, <1>8, <1>9, AppliedBy DEF Applied
<1>11. Where(dep, rep)'
  <2>1. /\ pc' = "again" /\ call' = call /\ key' = key /\ sndKey' = NULL /\ currNode' = currNode
    BY <1>2
  <2>2. ComesTo(call.key, dep, rep, currNode) /\ key = After(call.key, dep[currNode])
    BY <1>1, <1>2 DEF Where, Single
  <2> QED
    BY <1>7, <1>9, <2>1, <2>2 DEF Where, Putting
<1>12. IInv'
  BY <1>2, PutNewSliceOK
<1> QED
  BY <1>3, <1>7, <1>10, <1>11, <1>12 DEF PInv

\* When the call is done there is no more to say of where it is.
LEMMA DoneWhere ==
  ASSUME NEW dep, NEW rep, pc' = "done"
  PROVE  Where(dep, rep)'
BY DEF Where, Putting

LEMMA PutPrefixStep ==
  ASSUME PInv, PutPrefix
  PROVE  PInv' /\ pc' = "done" /\ IF pc = "put" THEN Applied ELSE Quiet
<1>1. PICK dep, rep : Placed(node, dep, rep) /\ Where(dep, rep)
  BY DEF PInv
<1> DEFINE bn == node[currNode][nextKeySlice]
<1>2. /\ IInv /\ Padded(node) /\ Single /\ bn # NULL /\ Ends(key) /\ bn = borderNode
      /\ numKeys' = IF BN_GetPrefixValue(bn, Len(key)) = NULL THEN numKeys + 1 ELSE numKeys
      /\ pc' = "done" /\ sndKey = NULL /\ UNCHANGED <<call, key, sndKey, currNode>>
  BY DEF PInv, PutPrefix, Found, Single, second, putCompleted, borderNode
<1>3. Held(node, currNode, nextKeySlice) = bn
  BY <1>2 DEF Held
<1>4. RL_PutRecord(currNode, nextKeySlice,
                   BN_SetValue(Held(node, currNode, nextKeySlice), key, value))
  BY <1>2, <1>3 DEF PutPrefix, BN_SetValue
<1>5. Takes(Held(node, currNode, nextKeySlice), key)
  BY <1>2 DEF Takes
<1> HIDE DEF bn
<1>6. /\ Padded(node') /\ Placed(node', dep, rep)
      /\ \A j \in Key : Find(node', j) = IF j = call.key THEN call.val ELSE Find(node, j)
  BY <1>1, <1>2, <1>4, <1>5, StoredOne
<1>7. NextIn(bn, key) = NULL /\ key # <<>>
  BY <1>1, <1>2, PutHere DEF NextIn, Single
<1>8. Find(node, call.key) = BN_GetPrefixValue(bn, Len(key))
  <2>1. Find(node, call.key) = ValueIn(bn, key)
    BY <1>1, <1>2, <1>7, FoundHere DEF bn
  <2> QED
    BY <1>2, <1>7, <2>1 DEF ValueIn
<1>9. call.key \in Key
  BY <1>1, <1>2, PutHere DEF Single
<1>10. Applied
  BY <1>2, <1>6, <1>8, <1>9, AppliedBy DEF Applied
<1>11. CASE pc = "again"
  <2>1. Find(node, call.key) = call.val /\ call.val # NULL
    BY <1>1, <1>2, <1>11, FoundAgain DEF Single
  <2> QED
    BY <1>2, <1>6, <1>8, <1>9, <2>1, <1>11, AppliedBy, DoneWhere, PutPrefixOK DEF Quiet, PInv
<1>12. CASE pc = "put"
  BY <1>2, <1>6, <1>10, <1>12, DoneWhere, PutPrefixOK DEF PInv
<1> QED
  BY <1>2, <1>11, <1>12 DEF Single, Putting

LEMMA UpdateSuffixStep ==
  ASSUME PInv, UpdateSuffix
  PROVE  PInv' /\ pc' = "done" /\ IF pc = "put" THEN Applied ELSE Quiet
<1>1. PICK dep, rep : Placed(node, dep, rep) /\ Where(dep, rep)
  BY DEF PInv
<1> DEFINE bn == node[currNode][nextKeySlice]
<1>2. /\ IInv /\ Padded(node) /\ Single /\ bn # NULL /\ ~Ends(key) /\ bn = borderNode
      /\ bn.suffix # NULL /\ bn.suffix = Rest(key) /\ numKeys' = numKeys
      /\ pc' = "done" /\ sndKey = NULL /\ UNCHANGED <<call, key, sndKey, currNode>>
  BY DEF PInv, UpdateSuffix, Found, Single, second, putCompleted, borderNode,
         BN_TestSuffix, BN_HasSuffix
<1>3. Held(node, currNode, nextKeySlice) = bn
  BY <1>2 DEF Held
<1>4. RL_PutRecord(currNode, nextKeySlice,
                   BN_SetValue(Held(node, currNode, nextKeySlice), key, value))
  BY <1>2, <1>3 DEF UpdateSuffix, BN_SetValue
<1>5. Takes(Held(node, currNode, nextKeySlice), key)
  BY <1>2, <1>3 DEF Takes
<1>6. BorderOK(node, borderNode)
  BY <1>2, FoundOK DEF UpdateSuffix
<1> HIDE DEF bn
<1>7. /\ Padded(node') /\ Placed(node', dep, rep)
      /\ \A j \in Key : Find(node', j) = IF j = call.key THEN call.val ELSE Find(node, j)
  BY <1>1, <1>2, <1>4, <1>5, StoredOne
<1>8. NextIn(bn, key) = NULL /\ key # <<>>
  <2>1. key # <<>>
    BY <1>1, <1>2, PutHere DEF Single
  <2> QED
    BY <1>2, <2>1 DEF NextIn, BN_GetLink, BN_HasSuffix
<1>9. Find(node, call.key) # NULL
  <2>1. Find(node, call.key) = ValueIn(bn, key)
    BY <1>1, <1>2, <1>8, FoundHere DEF bn
  <2>2. ValueIn(bn, key) = bn.link /\ bn.link \in Value
    BY <1>2, <1>6, <1>8 DEF ValueIn, BN_HasSuffix, BN_GetSuffixValue, BorderOK
  <2> QED
    BY <2>1, <2>2, NullAssumption
<1>10. call.key \in Key
  BY <1>1, <1>2, PutHere DEF Single
<1>11. Applied
  BY <1>2, <1>7, <1>9, <1>10, AppliedBy DEF Applied
<1>12. CASE pc = "again"
  <2>1. Find(node, call.key) = call.val
    BY <1>1, <1>2, <1>12, FoundAgain DEF Single
  <2> QED
    BY <1>2, <1>7, <1>10, <2>1, <1>12, AppliedBy, DoneWhere, UpdateSuffixOK DEF Quiet, PInv
<1>13. CASE pc = "put"
  BY <1>2, <1>7, <1>11, <1>13, DoneWhere, UpdateSuffixOK DEF PInv
<1> QED
  BY <1>2, <1>12, <1>13 DEF Single, Putting

LEMMA PutSuffixStep ==
  ASSUME PInv, PutSuffix
  PROVE  PInv' /\ pc = "put" /\ pc' = "done" /\ Applied
<1>1. PICK dep, rep : Placed(node, dep, rep) /\ Where(dep, rep)
  BY DEF PInv
<1> DEFINE bn == node[currNode][nextKeySlice]
<1>2. /\ IInv /\ Padded(node) /\ Single /\ bn # NULL /\ ~Ends(key)
      /\ bn.suffix = NULL /\ bn.link = NULL /\ bn = borderNode
      /\ numKeys' = numKeys + 1
      /\ pc' = "done" /\ sndKey = NULL /\ UNCHANGED <<call, key, sndKey, currNode>>
  BY DEF PInv, PutSuffix, Found, Single, second, putCompleted, borderNode,
         BN_GetLink, BN_HasSuffix
<1>3. Held(node, currNode, nextKeySlice) = bn
  BY <1>2 DEF Held
<1>4. RL_PutRecord(currNode, nextKeySlice,
                   BN_SetValue(Held(node, currNode, nextKeySlice), key, value))
  BY <1>2, <1>3 DEF PutSuffix, BN_SetValue
<1>5. Takes(Held(node, currNode, nextKeySlice), key)
  BY <1>2, <1>3 DEF Takes
<1> HIDE DEF bn
<1>6. /\ Padded(node') /\ Placed(node', dep, rep)
      /\ \A j \in Key : Find(node', j) = IF j = call.key THEN call.val ELSE Find(node, j)
  BY <1>1, <1>2, <1>4, <1>5, StoredOne
<1>7. NextIn(bn, key) = NULL /\ ValueIn(bn, key) = NULL
  BY <1>2 DEF NextIn, ValueIn, BN_GetLink, BN_HasSuffix
<1>8. Find(node, call.key) = NULL
  BY <1>1, <1>2, <1>7, FoundHere DEF bn
<1>9. pc = "put"
  <2>1. pc = "again" => Find(node, call.key) # NULL
    BY <1>1, <1>2, FoundAgain DEF Single
  <2> QED
    BY <1>2, <1>8, <2>1 DEF Single, Putting
<1>10. call.key \in Key
  BY <1>1, <1>2, PutHere DEF Single
<1>11. Applied
  BY <1>2, <1>6, <1>8, <1>10, AppliedBy DEF Applied
<1> QED
  BY <1>2, <1>6, <1>9, <1>11, DoneWhere, PutSuffixOK DEF PInv

\* A link to a new node: the keys that go there with the key of the call are found no
\* more, and all others keep their values.
LEMMA LinkNewStep ==
  ASSUME IInv, Padded(node), Putting, Asserts, NEW dep, NEW rep, Placed(node, dep, rep),
         Where(dep, rep), ~Ends(key), LinkIn(node, currNode, nextKeySlice) = NULL,
         NEW bn \in Border, bn.prefix = Held(node, currNode, nextKeySlice).prefix, LinkNew(bn)
  PROVE  \E dep2, rep2 :
           /\ Padded(node') /\ Placed(node', dep2, rep2)
           /\ dep2[currNode'] = dep[currNode] + 1
           /\ \A r \in Slice : node'[currNode'][r] = NULL
           /\ \A j \in String : Together(j, call.key, dep, rep, currNode) =>
                /\ ComesTo(j, dep2, rep2, currNode')
                /\ Rest(After(j, dep[currNode])) = After(j, dep2[currNode'])
           /\ \A j \in String : Find(node', j) =
                IF Together(j, call.key, dep, rep, currNode) THEN NULL ELSE Find(node, j)
<1>1. /\ TrieOK(node) /\ currNode \in LayersIn(node) /\ call.key \in String
      /\ ComesTo(call.key, dep, rep, currNode)
      /\ key = After(call.key, dep[currNode])
      /\ nextKeySlice = SliceAt(call.key, dep[currNode])
  BY PutHere
<1>2. PICK link \in KVNode :
        /\ node[link] = NULL
        /\ node' = [node EXCEPT ![link] = newKVNode,
                                ![currNode][nextKeySlice] = BN_SetLink(bn, link)]
        /\ currNode' = link
  BY DEF LinkNew
<1>3. node' = Grown(node, dep, currNode, call.key, link, bn)
  BY <1>1, <1>2 DEF Grown, Put, Grow
<1> DEFINE dep2 == DepGrown(dep, currNode, link)
           rep2 == RepGrown(rep, call.key, link)
<1>4. /\ Padded(node') /\ Placed(node', dep2, rep2)
      /\ dep2[link] = dep[currNode] + 1
      /\ \A r \in Slice : node'[link][r] = NULL
      /\ \A j \in String : Together(j, call.key, dep, rep, currNode) =>
           ComesTo(j, dep2, rep2, link) /\ Rest(After(j, dep[currNode])) = After(j, dep2[link])
      /\ \A j \in String : Find(node', j) =
           IF Together(j, call.key, dep, rep, currNode) THEN NULL ELSE Find(node, j)
  <2>1. /\ ~Ends(After(call.key, dep[currNode]))
        /\ LinkIn(node, currNode, SliceAt(call.key, dep[currNode])) = NULL
        /\ bn.prefix = Held(node, currNode, SliceAt(call.key, dep[currNode])).prefix
    BY <1>1
  <2> DEFINE k == call.key
             c == currNode
             nd2 == Grown(node, dep, c, k, link, bn)
  <2>2. k \in String /\ c \in LayersIn(node) /\ ComesTo(k, dep, rep, c)
        /\ ~Ends(After(k, dep[c])) /\ LinkIn(node, c, SliceAt(k, dep[c])) = NULL
        /\ bn.prefix = Held(node, c, SliceAt(k, dep[c])).prefix
    BY <1>1, <2>1
  <2>3. TrieOK(node) /\ node[link] = NULL
    BY <1>1, <1>2
  <2>4. /\ Padded(nd2) /\ Placed(nd2, dep2, rep2)
        /\ dep2[link] = dep[c] + 1
        /\ \A r \in Slice : nd2[link][r] = NULL
        /\ \A j \in String : Together(j, k, dep, rep, c) =>
             ComesTo(j, dep2, rep2, link) /\ Rest(After(j, dep[c])) = After(j, dep2[link])
        /\ \A j \in String : Find(nd2, j) =
             IF Together(j, k, dep, rep, c) THEN NULL ELSE Find(node, j)
    BY <2>2, <2>3, GrownOK
  <2> QED
    BY <1>3, <2>4
<1> HIDE DEF dep2, rep2
<1> QED
  BY <1>2, <1>4

\* The value of a key that would go on from a node where there is no link.
LEMMA TogetherFound ==
  ASSUME NEW nd, NEW dep, NEW rep, Placed(nd, dep, rep), NEW c \in LayersIn(nd),
         NEW j \in String, NEW k \in String, Together(j, k, dep, rep, c),
         LinkIn(nd, c, SliceAt(k, dep[c])) = NULL
  PROVE  Find(nd, j) = ValueIn(nd[c][SliceAt(k, dep[c])], After(j, dep[c]))
<1>1. Slot(nd, dep, c, j) = nd[c][SliceAt(k, dep[c])] /\ ComesTo(j, dep, rep, c)
  BY DEF Slot, Together
<1>2. NextIn(Slot(nd, dep, c, j), After(j, dep[c])) = NULL
  BY <1>1 DEF NextIn, LinkIn
<1>3. StopsAt(nd, dep, rep, c, j) /\ c \in KVNode
  BY <1>1, <1>2 DEF StopsAt, LayersIn
<1> QED
  BY <1>1, <1>3, FindIs

\* The second key and what is left of the first, one layer on, make the key that moves.
LEMMA MovingIs ==
  ASSUME NEW dep, NEW rep, NEW n, NEW j \in String, NEW k \in String, dep[n] \in Nat,
         ComesTo(j, dep, rep, n), ComesTo(k, dep, rep, n)
  PROVE  SubSeq(k, 1, Len(k) - Len(After(k, dep[n]))) \o After(j, dep[n]) = j
BY ComeSame, Rejoin

\* Two keys that go on together are told apart by their rests.
LEMMA TogetherApart ==
  ASSUME NEW dep, NEW rep, NEW n, NEW j \in String, NEW k \in String, dep[n] \in Nat,
         ComesTo(j, dep, rep, n), ComesTo(k, dep, rep, n), j # k
  PROVE  After(j, dep[n]) # After(k, dep[n])
BY ComeSame, SameAll

LEMMA SplitSuffixStep ==
  ASSUME PInv, SplitSuffix
  PROVE  PInv' /\ pc = "put" /\ pc' = "put" /\ Quiet
<1>1. PICK dep, rep : Placed(node, dep, rep) /\ Where(dep, rep)
  BY DEF PInv
<1> DEFINE bn == node[currNode][nextKeySlice]
           d == dep[currNode]
           T(j) == Together(j, call.key, dep, rep, currNode)
<1>2. /\ IInv /\ Padded(node) /\ Single /\ bn # NULL /\ ~Ends(key) /\ bn = borderNode
      /\ bn.suffix # NULL /\ bn.suffix # Rest(key)
      /\ sndKey' = bn.suffix /\ sndValue' = bn.link /\ key' = Rest(key)
      /\ LinkNew(BN_ExportSuffixValue(bn)) /\ numKeys' = numKeys
      /\ pc' = pc /\ sndKey = NULL /\ call' = call
  BY DEF PInv, SplitSuffix, Found, Single, borderNode, BN_TestSuffix, BN_HasSuffix
<1>3. /\ TrieOK(node) /\ currNode \in LayersIn(node)
      /\ call.key \in Key /\ call.key \in String
      /\ ComesTo(call.key, dep, rep, currNode) /\ d \in Nat
      /\ key = After(call.key, d) /\ key # <<>>
      /\ nextKeySlice = SliceAt(call.key, d) /\ nextKeySlice \in Slice
  BY <1>1, <1>2, PutHere DEF Single
<1>4. bn \in Border
  BY <1>2, FoundOK DEF SplitSuffix
<1> HIDE DEF bn
<1>5. LinkIn(node, currNode, nextKeySlice) = NULL
  BY <1>2 DEF LinkIn, BN_GetLink, BN_HasSuffix, bn
<1>6. /\ BN_ExportSuffixValue(bn) \in Border
      /\ BN_ExportSuffixValue(bn).prefix = Held(node, currNode, nextKeySlice).prefix
  BY <1>2, <1>4 DEF BN_ExportSuffixValue, Border, Held, bn
<1>7. PICK dep2, rep2 :
        /\ Padded(node') /\ Placed(node', dep2, rep2) /\ dep2[currNode'] = d + 1
        /\ \A r \in Slice : node'[currNode'][r] = NULL
        /\ \A j \in String : T(j) => /\ ComesTo(j, dep2, rep2, currNode')
                                     /\ Rest(After(j, d)) = After(j, dep2[currNode'])
        /\ \A j \in String : Find(node', j) = IF T(j) THEN NULL ELSE Find(node, j)
  BY <1>1, <1>2, <1>5, <1>6, LinkNewStep DEF Single
<1> DEFINE e == dep2[currNode']
<1>8. e \in Nat /\ e # 0
  BY <1>3, <1>7
<1>9. T(call.key)
  BY <1>2, <1>3 DEF Together
<1>10. PICK j \in Key : T(j) /\ After(j, d + 1) = bn.suffix
  <2>1. SuffixKey(dep, rep, currNode, nextKeySlice, bn.suffix)
    BY <1>1, <1>2, <1>3 DEF Placed, bn
  <2>2. PICK j \in Key : /\ Same(j, rep[currNode], d) /\ SliceAt(j, d) = nextKeySlice
                         /\ ~Ends(After(j, d)) /\ After(j, d + 1) = bn.suffix
    BY <2>1 DEF SuffixKey
  <2>3. Off(d) < Len(j)
    <3>1. j \in String /\ Off(d) <= Len(j)
      BY <2>2, KeyAssumption DEF Same
    <3>2. Len(After(j, d)) = Len(j) - Off(d)
      BY <1>3, <3>1, AfterFacts
    <3>3. Off(d) \in Nat /\ Len(j) \in Nat
      BY <1>3, <3>1, OffFacts, LenNat
    <3> QED
      BY <2>2, <3>2, <3>3 DEF Ends
  <2> QED
    BY <1>3, <2>2, <2>3 DEF Together, ComesTo
<1>11. j \in String
  BY KeyAssumption
<1> HIDE DEF T
<1>12. /\ ComesTo(call.key, dep2, rep2, currNode') /\ key' = After(call.key, e)
       /\ ComesTo(j, dep2, rep2, currNode') /\ sndKey' = After(j, e)
       /\ Rest(After(j, d)) = bn.suffix
  BY <1>2, <1>3, <1>7, <1>9, <1>10, <1>11
<1>13. j # call.key
  BY <1>2, <1>3, <1>12
<1>14. \A m \in String : T(m) => Find(node, m) = IF m = j THEN bn.link ELSE NULL
  <2>1. SUFFICES ASSUME NEW m \in String, T(m)
                 PROVE  Find(node, m) = IF m = j THEN bn.link ELSE NULL
    OBVIOUS
  <2> DEFINE r == After(m, d)
  <2>2. Find(node, m) = ValueIn(bn, r)
    BY <1>1, <1>3, <1>5, <2>1, TogetherFound DEF bn, T
  <2>3. ~Ends(r)
    BY <2>1 DEF Together, T
  <2>4. r # <<>>
    BY <2>3 DEF Ends
  <2>5. Rest(r) = After(m, e) /\ ComesTo(m, dep2, rep2, currNode')
    BY <1>7, <2>1
  <2> HIDE DEF r
  <2>6. Rest(r) = bn.suffix <=> m = j
    BY <1>8, <1>10, <1>11, <1>12, <2>5, <1>7, TogetherApart DEF r
  <2> QED
    BY <1>2, <2>2, <2>3, <2>4, <2>6 DEF ValueIn, BN_HasSuffix, BN_GetSuffixValue
<1>15. pc = "put"
  <2>1. ASSUME pc = "again" PROVE FALSE
    <3>1. Find(node, call.key) # NULL
      BY <1>1, <1>2, <2>1, FoundAgain DEF Single
    <3> QED
      BY <1>3, <1>9, <1>13, <1>14, <3>1
  <2> QED
    BY <1>2, <2>1 DEF Single, Putting
<1>16. Moving' = j
  BY <1>2, <1>3, <1>8, <1>11, <1>12, MovingIs DEF Moving
<1>17. Map' = Map
  <2>1. Map = [m \in Key |-> Find(node, m)]
    BY <1>2, MapAlone
  <2>2. sndKey' # NULL
    BY <1>2
  <2>3. Map' = [m \in Key |-> IF m = j THEN bn.link ELSE Find(node', m)]
    BY <1>2, <1>15, <1>16, <2>2 DEF Map
  <2>4. \A m \in Key : (IF m = j THEN bn.link ELSE Find(node', m)) = Find(node, m)
    BY <1>7, <1>10, <1>11, <1>14, KeyAssumption
  <2> QED
    BY <2>1, <2>3, <2>4
<1>18. Where(dep2, rep2)'
  <2>1. pc' = "put" /\ call' = call
    BY <1>2, <1>15
  <2> QED
    BY <1>7, <1>8, <1>12, <1>13, <2>1 DEF Where, Putting
<1>19. IInv'
  BY <1>2, SplitSuffixOK
<1> QED
  BY <1>2, <1>7, <1>15, <1>17, <1>18, <1>19 DEF PInv, Quiet

LEMMA PushDownStep ==
  ASSUME PInv, PushDown
  PROVE  PInv' /\ pc = "put" /\ pc' = "put" /\ Quiet
<1>1. PICK dep, rep : Placed(node, dep, rep) /\ Where(dep, rep)
  BY DEF PInv
<1> DEFINE d == dep[currNode]
           T(j) == Together(j, call.key, dep, rep, currNode)
<1>2. /\ IInv /\ Padded(node) /\ Putting /\ Asserts /\ ~Ends(key) /\ ~Ends(sndKey)
      /\ nextKeySlice = sndKeySlice /\ sndKey # NULL /\ sndKey' = Rest(sndKey)
      /\ sndValue' = sndValue /\ key' = Rest(key)
      /\ LinkNew(BN_NewBorderNode) /\ numKeys' = numKeys /\ pc' = pc /\ call' = call
  BY DEF PInv, PushDown, Double
<1>3. /\ TrieOK(node) /\ currNode \in LayersIn(node)
      /\ call.key \in Key /\ call.key \in String
      /\ ComesTo(call.key, dep, rep, currNode) /\ d \in Nat
      /\ key = After(call.key, d)
      /\ nextKeySlice = SliceAt(call.key, d) /\ nextKeySlice \in Slice
  BY <1>1, <1>2, PutHere
<1>4. /\ \A s \in Slice : node[currNode][s] = NULL
      /\ \E j \in Key : /\ j # call.key /\ ComesTo(j, dep, rep, currNode)
                        /\ sndKey = After(j, d)
  BY <1>1, <1>2 DEF Where
<1>5. PICK j \in Key : /\ j # call.key /\ ComesTo(j, dep, rep, currNode)
                       /\ sndKey = After(j, d)
  BY <1>4
<1>6. j \in String
  BY KeyAssumption
<1>7. LinkIn(node, currNode, nextKeySlice) = NULL
  BY <1>3, <1>4 DEF LinkIn
<1>8. /\ BN_NewBorderNode \in Border
      /\ BN_NewBorderNode.prefix = Held(node, currNode, nextKeySlice).prefix
  BY <1>3, <1>4, NewBorderOK DEF Held
<1>9. PICK dep2, rep2 :
        /\ Padded(node') /\ Placed(node', dep2, rep2) /\ dep2[currNode'] = d + 1
        /\ \A r \in Slice : node'[currNode'][r] = NULL
        /\ \A m \in String : T(m) => /\ ComesTo(m, dep2, rep2, currNode')
                                     /\ Rest(After(m, d)) = After(m, dep2[currNode'])
        /\ \A m \in String : Find(node', m) = IF T(m) THEN NULL ELSE Find(node, m)
  BY <1>1, <1>2, <1>7, <1>8, LinkNewStep
<1> DEFINE e == dep2[currNode']
<1>10. e \in Nat /\ e # 0
  BY <1>3, <1>9
<1>11. T(call.key) /\ T(j)
  BY <1>2, <1>3, <1>5 DEF Together, SliceAt, sndKeySlice
<1>12. /\ ComesTo(call.key, dep2, rep2, currNode') /\ key' = After(call.key, e)
       /\ ComesTo(j, dep2, rep2, currNode') /\ sndKey' = After(j, e)
  BY <1>2, <1>3, <1>5, <1>6, <1>9, <1>11
<1>13. \A m \in String : T(m) => Find(node, m) = NULL
  <2>1. SUFFICES ASSUME NEW m \in String, T(m) PROVE Find(node, m) = NULL
    OBVIOUS
  <2>2. Find(node, m) = ValueIn(node[currNode][nextKeySlice], After(m, d))
    BY <1>1, <1>3, <1>7, <2>1, TogetherFound
  <2> QED
    BY <1>3, <1>4, <2>2 DEF ValueIn
<1> HIDE DEF T
<1>14. sndKey' # NULL
  <2>1. sndKey \in String
    BY <1>2 DEF IInv, LocalsOK
  <2> QED
    BY <1>2, <2>1, RestOK, NullAssumption
<1>15. pc = "put"
  BY <1>1, <1>2, FoundAgain DEF Putting
<1>16. Moving = j /\ Moving' = j
  <2>1. Moving = j
    BY <1>3, <1>5, <1>6, MovingIs DEF Moving
  <2>2. Moving' = j
    BY <1>2, <1>3, <1>6, <1>10, <1>12, MovingIs DEF Moving
  <2> QED
    BY <2>1, <2>2
<1>17. Map' = Map
  <2>1. Map = [m \in Key |-> IF m = j THEN sndValue ELSE Find(node, m)]
    BY <1>2, <1>15, <1>16 DEF Map
  <2>2. Map' = [m \in Key |-> IF m = j THEN sndValue ELSE Find(node', m)]
    BY <1>2, <1>14, <1>15, <1>16 DEF Map
  <2>3. \A m \in Key : Find(node', m) = Find(node, m)
    BY <1>9, <1>13, KeyAssumption
  <2> QED
    BY <2>1, <2>2, <2>3
<1>18. Where(dep2, rep2)'
  <2>1. pc' = "put" /\ call' = call
    BY <1>2, <1>15
  <2> QED
    BY <1>5, <1>9, <1>10, <1>12, <2>1 DEF Where, Putting
<1>19. IInv'
  BY <1>2, PushDownOK
<1> QED
  BY <1>2, <1>9, <1>15, <1>17, <1>18, <1>19 DEF PInv, Quiet

\* What is left of a key below the first layer is not empty.
LEMMA NotEmpty ==
  ASSUME NEW dep, NEW rep, NEW n, NEW j \in String, dep[n] \in Nat, dep[n] # 0,
         ComesTo(j, dep, rep, n)
  PROVE  After(j, dep[n]) # <<>>
<1>1. Off(dep[n]) < Len(j) /\ Off(dep[n]) <= Len(j)
  BY DEF ComesTo, Same
<1>2. Len(After(j, dep[n])) = Len(j) - Off(dep[n])
  BY <1>1, AfterFacts
<1>3. Off(dep[n]) \in Nat /\ Len(j) \in Nat
  BY OffFacts, LenNat
<1>4. Len(After(j, dep[n])) # 0
  BY <1>1, <1>2, <1>3
<1> QED
  BY <1>4

LEMMA PutApartStep ==
  ASSUME PInv, PutApart
  PROVE  PInv' /\ pc = "put" /\ pc' = "done" /\ Applied
<1>1. PICK dep, rep : Placed(node, dep, rep) /\ Where(dep, rep)
  BY DEF PInv
<1> DEFINE d == dep[currNode]
           k == call.key
<1>2. /\ IInv /\ Padded(node) /\ Putting /\ Asserts
      /\ nextKeySlice # sndKeySlice /\ sndKey # NULL
      /\ node' = [node EXCEPT
           ![currNode][nextKeySlice] = BN_SetValue(BN_NewBorderNode, key, value),
           ![currNode][sndKeySlice] = BN_SetValue(BN_NewBorderNode, sndKey, sndValue)]
      /\ numKeys' = numKeys + 1 /\ pc' = "done"
      /\ UNCHANGED <<call, key, sndKey, sndValue, currNode>>
  BY DEF PInv, PutApart, Double, putCompleted, second
<1>3. /\ TrieOK(node) /\ currNode \in LayersIn(node)
      /\ k \in Key /\ k \in String /\ call.val \in Value
      /\ ComesTo(k, dep, rep, currNode) /\ d \in Nat
      /\ key = After(k, d) /\ key # <<>>
      /\ nextKeySlice = SliceAt(k, d) /\ nextKeySlice \in Slice
  BY <1>1, <1>2, PutHere
<1>4. /\ d # 0 /\ \A s \in Slice : node[currNode][s] = NULL
      /\ \E j \in Key : /\ j # call.key /\ ComesTo(j, dep, rep, currNode)
                        /\ sndKey = After(j, d)
  BY <1>1, <1>2 DEF Where
<1>5. PICK j \in Key : /\ j # call.key /\ ComesTo(j, dep, rep, currNode)
                       /\ sndKey = After(j, d)
  BY <1>4
<1>6. /\ j \in String /\ sndKey \in String /\ sndValue \in Value
      /\ sndKeySlice = SliceAt(j, d) /\ sndKeySlice \in Slice
  <2>1. j \in String /\ sndKey \in String /\ sndValue \in Value
    BY <1>2, KeyAssumption DEF IInv, LocalsOK
  <2> QED
    BY <1>5, <2>1, NextKeySliceOK DEF sndKeySlice, SliceAt
<1>7. sndKey # <<>>
  BY <1>3, <1>4, <1>5, <1>6, NotEmpty
<1>8. pc = "put"
  BY <1>1, <1>2, FoundAgain DEF Putting
<1> DEFINE c == currNode
           nd == Written(node, dep, c, k, call.val)
<1>9. /\ Held(node, c, SliceAt(k, d)) = BN_NewBorderNode
      /\ Held(node, c, SliceAt(j, d)) = BN_NewBorderNode
  BY <1>3, <1>4, <1>6 DEF Held
<1>10. \A t : Takes(BN_NewBorderNode, t)
  BY DEF Takes, BN_NewBorderNode
<1>11. After(k, d) # <<>> /\ Takes(Held(node, c, SliceAt(k, d)), After(k, d))
  BY <1>3, <1>9, <1>10
<1>12. /\ TrieOK(nd) /\ Padded(nd) /\ Placed(nd, dep, rep)
       /\ LayersIn(nd) = LayersIn(node)
       /\ \A r \in Slice : r # SliceAt(k, d) => nd[c][r] = node[c][r]
       /\ \A m \in Key : Find(nd, m) = IF m = k THEN call.val ELSE Find(node, m)
  BY <1>1, <1>2, <1>3, <1>11, WrittenOK
<1> DEFINE nd2 == Written(nd, dep, c, j, sndValue)
<1>13. Held(nd, c, SliceAt(j, d)) = BN_NewBorderNode
  BY <1>2, <1>3, <1>4, <1>6, <1>12 DEF Held
<1>14. node' = nd2
  <2>1. nd = Put(node, currNode, nextKeySlice, BN_SetValue(BN_NewBorderNode, key, value))
    BY <1>3, <1>9 DEF Written, value
  <2> HIDE DEF nd
  <2>2. nd2 = Put(nd, currNode, sndKeySlice, BN_SetValue(BN_NewBorderNode, sndKey, sndValue))
    BY <1>5, <1>6, <1>13 DEF Written
  <2> HIDE DEF nd2
  <2> QED
    BY <1>2, <2>1, <2>2 DEF Put
<1> HIDE DEF nd
<1>15. c \in LayersIn(nd) /\ After(j, d) # <<>>
       /\ Takes(Held(nd, c, SliceAt(j, d)), After(j, d))
  BY <1>3, <1>5, <1>7, <1>10, <1>12, <1>13
<1>16. /\ Padded(nd2) /\ Placed(nd2, dep, rep)
       /\ \A m \in Key : Find(nd2, m) = IF m = j THEN sndValue ELSE Find(nd, m)
  BY <1>5, <1>6, <1>12, <1>15, WrittenOK
<1> HIDE DEF nd2
<1>17. Find(node, k) = NULL
  <2>1. Slot(node, dep, c, k) = NULL
    BY <1>3, <1>4 DEF Slot
  <2>2. StopsAt(node, dep, rep, c, k) /\ c \in KVNode
    BY <1>3, <2>1 DEF StopsAt, NextIn, LayersIn
  <2>3. Find(node, k) = ValueIn(Slot(node, dep, c, k), After(k, dep[c]))
    BY <1>1, <1>3, <2>2, FindIs
  <2> QED
    BY <2>1, <2>3 DEF ValueIn
<1>18. Moving = j
  BY <1>3, <1>5, <1>6, MovingIs DEF Moving
<1>19. Applied
  <2>1. Map = [m \in Key |-> IF m = j THEN sndValue ELSE Find(node, m)]
    BY <1>2, <1>8, <1>18 DEF Map
  <2>2. Map' = [m \in Key |-> Find(node', m)]
    BY <1>2, MapAlone DEF Putting
  <2>3. \A m \in Key : Find(node', m) = IF m = j THEN sndValue
                                       ELSE IF m = k THEN call.val ELSE Find(node, m)
    BY <1>12, <1>14, <1>16
  <2>4. Map' = [Map EXCEPT ![k] = call.val]
    BY <1>3, <1>5, <2>1, <2>2, <2>3
  <2>5. Map[k] = NULL
    BY <1>3, <1>5, <1>17, <2>1
  <2> QED
    BY <1>2, <2>4, <2>5 DEF Applied
<1>20. IInv' /\ Where(dep, rep)'
  BY <1>2, PutApartOK, DoneWhere
<1> QED
  BY <1>2, <1>8, <1>14, <1>16, <1>19, <1>20 DEF PInv

\* Case 0.0.0 writes two values for the key of the call, of which the other key's stays:
\* the trie is well formed even so, and the key is new.
LEMMA PutPairStep ==
  ASSUME PInv, PutPair
  PROVE  /\ PInv'
         /\ pc = "put" /\ Map[call.key] = NULL /\ Map'[call.key] # NULL /\ numKeys' = numKeys + 1
<1>1. PICK dep, rep : Placed(node, dep, rep) /\ Where(dep, rep)
  BY DEF PInv
<1> DEFINE d == dep[currNode]
           k == call.key
           c == currNode
           b1 == BN_SetValue(BN_NewBorderNode, key, value)
<1>2. /\ IInv /\ Padded(node) /\ Putting /\ Asserts /\ sndKey # NULL
      /\ RL_PutRecord(currNode, nextKeySlice, BN_SetValue(b1, key, sndValue))
      /\ pc' = "done" /\ call' = call /\ numKeys' = numKeys + 1
  BY DEF PInv, PutPair, Double, putCompleted
<1>3. /\ TrieOK(node) /\ c \in LayersIn(node)
      /\ k \in Key /\ k \in String /\ call.val \in Value
      /\ ComesTo(k, dep, rep, c) /\ d \in Nat
      /\ key = After(k, d) /\ key # <<>>
      /\ nextKeySlice = SliceAt(k, d) /\ nextKeySlice \in Slice
  BY <1>1, <1>2, PutHere
<1>4. \A s \in Slice : node[c][s] = NULL
  BY <1>1, <1>2 DEF Where
<1>5. sndValue \in Value
  BY <1>2 DEF IInv, LocalsOK
<1> DEFINE nd == Written(node, dep, c, k, call.val)
<1>6. Held(node, c, SliceAt(k, d)) = BN_NewBorderNode
  BY <1>3, <1>4 DEF Held
<1>7. After(k, d) # <<>> /\ Takes(Held(node, c, SliceAt(k, d)), After(k, d))
  BY <1>3, <1>6 DEF Takes, BN_NewBorderNode
<1>8. /\ TrieOK(nd) /\ Padded(nd) /\ Placed(nd, dep, rep)
      /\ LayersIn(nd) = LayersIn(node)
      /\ Slot(nd, dep, c, k) = BN_SetValue(Held(node, c, SliceAt(k, d)), After(k, d), call.val)
  BY <1>1, <1>2, <1>3, <1>7, WrittenOK
<1>9. nd = Put(node, c, nextKeySlice, b1)
  BY <1>3, <1>6 DEF Written, value
<1> HIDE DEF nd
<1>10. nd[c][SliceAt(k, d)] = b1
  BY <1>3, <1>6, <1>8 DEF Slot, value
<1>11. b1 \in Border /\ (Ends(key) \/ b1.suffix = Rest(key))
  <2>1. b1 \in Border
    BY <1>2, <1>3, NewBorderOK, SetValueOK DEF value, IInv, LocalsOK
  <2>2. ~Ends(key) => b1.suffix = Rest(key)
    BY DEF BN_SetValue, BN_SetSuffixValue, BN_NewBorderNode
  <2> QED
    BY <2>1, <2>2
<1> HIDE DEF b1
<1>12. Held(nd, c, SliceAt(k, d)) = b1
  BY <1>10, <1>11, NullAssumption DEF Held
<1>13. Takes(b1, After(k, d))
  BY <1>3, <1>11 DEF Takes
<1> DEFINE nd2 == Written(nd, dep, c, k, sndValue)
<1>14. /\ Padded(nd2) /\ Placed(nd2, dep, rep)
       /\ Find(nd2, k) = sndValue
  BY <1>3, <1>5, <1>7, <1>8, <1>12, <1>13, WrittenOK
<1>15. node' = nd2
  <2>1. node' = Put(node, c, nextKeySlice, BN_SetValue(b1, key, sndValue))
    BY <1>2 DEF RL_PutRecord, Put
  <2>2. nd2 = Put(nd, c, nextKeySlice, BN_SetValue(b1, key, sndValue))
    BY <1>3, <1>12 DEF Written
  <2>3. \A b : Put(Put(node, c, nextKeySlice, b1), c, nextKeySlice, b)
                = Put(node, c, nextKeySlice, b)
    <3>1. node \in [KVNode -> [Slice -> Border \cup {NULL}] \cup {NULL}]
          /\ c \in KVNode /\ node[c] \in [Slice -> Border \cup {NULL}]
      BY <1>3 DEF TrieOK, Tries, LayersIn
    <3> QED
      BY <1>3, <3>1 DEF Put
  <2> QED
    BY <1>9, <2>1, <2>2, <2>3
<1>16. IInv' /\ Where(dep, rep)'
  BY <1>2, PutPairOK, DoneWhere
<1>17. Map'[k] = sndValue
  <2>1. Map' = [m \in Key |-> Find(node', m)]
    BY <1>2, MapAlone DEF Putting
  <2> QED
    BY <1>3, <1>14, <1>15, <2>1
<1>18. Map[k] = NULL
  <2>1. Slot(node, dep, c, k) = NULL
    BY <1>3, <1>4 DEF Slot
  <2>2. StopsAt(node, dep, rep, c, k) /\ c \in KVNode
    BY <1>3, <2>1 DEF StopsAt, NextIn, LayersIn
  <2>3. Find(node, k) = ValueIn(Slot(node, dep, c, k), After(k, dep[c]))
    BY <1>1, <1>3, <2>2, FindIs
  <2>4. Find(node, k) = NULL
    BY <2>1, <2>3 DEF ValueIn
  <2>5. PICK j \in Key : /\ j # k /\ ComesTo(j, dep, rep, c) /\ sndKey = After(j, d)
    BY <1>1, <1>2 DEF Where
  <2>6. j \in String
    BY KeyAssumption
  <2>7. Moving = j
    BY <1>3, <2>5, <2>6, MovingIs DEF Moving
  <2> QED
    BY <1>3, <2>4, <2>5, <2>7 DEF Map
<1>19. pc = "put" /\ sndValue # NULL
  BY <1>1, <1>2, FoundAgain, NullAssumption DEF IInv, LocalsOK, Putting
<1> QED
  BY <1>2, <1>14, <1>15, <1>16, <1>17, <1>18, <1>19 DEF PInv

\* It is met only by keys that are not apart.
LEMMA PutPairNever ==
  ASSUME PInv, KeysApart, PutPair
  PROVE  FALSE
<1>1. PICK dep, rep : Placed(node, dep, rep) /\ Where(dep, rep)
  BY DEF PInv
<1> DEFINE d == dep[currNode]
           k == call.key
<1>2. /\ IInv /\ Putting /\ Asserts /\ sndKey # NULL
      /\ nextKeySlice = sndKeySlice /\ (Ends(key) \/ Ends(sndKey))
  BY DEF PInv, PutPair, Double
<1>3. /\ k \in Key /\ k \in String /\ ComesTo(k, dep, rep, currNode) /\ d \in Nat
      /\ key = After(k, d)
  BY <1>1, <1>2, PutHere
<1>4. d # 0
  BY <1>1, <1>2 DEF Where
<1>5. PICK j \in Key : /\ j # call.key /\ ComesTo(j, dep, rep, currNode)
                       /\ sndKey = After(j, d)
  BY <1>1, <1>2 DEF Where
<1>6. Off(d) < Len(j) /\ Off(d) < Len(k) /\ Same(j, k, d)
  BY <1>3, <1>4, <1>5, ComeSame DEF ComesTo
<1>7. d \in 1 .. Len(j)
  <2>1. d <= Off(d) /\ Off(d) \in Nat /\ Len(j) \in Nat
    BY <1>3, OffFacts, LenNat, KeyAssumption
  <2> QED
    BY <1>3, <1>4, <1>6, <2>1
<1>8. /\ L * d < Len(j) /\ L * d < Len(k) /\ \A i \in 1 .. L * d : j[i] = k[i]
  BY <1>6 DEF Off, Same
<1>9. NextKeySlice(After(j, d)) = NextKeySlice(After(k, d))
  BY <1>2, <1>3, <1>5 DEF nextKeySlice, sndKeySlice
<1> HIDE DEF d
<1>10. ~Ends(After(j, d)) /\ ~Ends(After(k, d))
  BY <1>3, <1>5, <1>7, <1>8, <1>9 DEF KeysApart
<1> QED
  BY <1>2, <1>3, <1>5, <1>10 DEF d

LEMMA FollowLinkStep ==
  ASSUME PInv, FollowLink
  PROVE  PInv' /\ pc = "put" /\ pc' = "put" /\ Quiet
<1>1. PICK dep, rep : Placed(node, dep, rep) /\ Where(dep, rep)
  BY DEF PInv
<1> DEFINE n == currNode
           k == call.key
<1>2. /\ IInv /\ Padded(node) /\ Single /\ Putting /\ Asserts /\ sndKey = NULL
      /\ node[n][nextKeySlice] # NULL /\ ~Ends(key)
      /\ BN_GetLink(node[n][nextKeySlice]) # NULL
      /\ key' = Rest(key) /\ currNode' = BN_GetLink(node[n][nextKeySlice])
      /\ UNCHANGED <<node, numKeys, pc, call, sndKey, sndValue>>
  BY DEF PInv, FollowLink, Found, Single, borderNode, store, second
<1>3. /\ n \in LayersIn(node) /\ k \in String /\ ComesTo(k, dep, rep, n)
      /\ key = After(k, dep[n]) /\ nextKeySlice = SliceAt(k, dep[n])
  BY <1>1, <1>2, PutHere
<1>4. LinkIn(node, n, SliceAt(k, dep[n])) = currNode' /\ currNode' # NULL
  BY <1>2, <1>3 DEF LinkIn
<1>5. ComesTo(k, dep, rep, currNode') /\ key' = After(k, dep[currNode'])
  BY <1>1, <1>2, <1>3, <1>4, Descend
<1>6. pc = "put"
  <2>1. pc = "again" => NextIn(node[n][nextKeySlice], key) = NULL
    BY <1>1, <1>2, FoundAgain
  <2>2. NextIn(node[n][nextKeySlice], key) # NULL
    BY <1>2 DEF NextIn
  <2> QED
    BY <1>2, <2>1, <2>2 DEF Putting
<1>7. Placed(node', dep, rep) /\ Padded(node')
  BY <1>1, <1>2
<1>8. Where(dep, rep)'
  BY <1>2, <1>5, <1>6 DEF Where, Putting
<1>9. Map' = Map
  BY <1>2, MapAlone
<1>10. IInv'
  BY <1>2, FollowLinkOK DEF PInv
<1> QED
  BY <1>2, <1>6, <1>7, <1>8, <1>9, <1>10 DEF PInv, Quiet

\* A step that leaves the store alone, outside KV_Put or where no second key is left.
LEMMA StoreKept ==
  ASSUME PInv, IInv', UNCHANGED store, ~Putting \/ sndKey = NULL, ~Putting' \/ sndKey' = NULL,
         \A dep, rep : Placed(node, dep, rep) /\ Where(dep, rep) => Where(dep, rep)'
  PROVE  PInv' /\ Quiet
<1>1. node' = node /\ numKeys' = numKeys
  BY DEF store
<1>2. Map' = Map
  BY <1>1, MapAlone
<1>3. PICK dep, rep : Placed(node, dep, rep) /\ Where(dep, rep)
  BY DEF PInv
<1>4. Placed(node', dep, rep) /\ Padded(node') /\ Where(dep, rep)'
  BY <1>1, <1>3 DEF PInv
<1> QED
  BY <1>1, <1>2, <1>4 DEF PInv, Quiet

\* An assertion fails for the empty key only, in the first round.
LEMMA PutAbortsStep ==
  ASSUME PInv, PutAborts
  PROVE  PInv' /\ pc' = "aborted" /\ Quiet
<1>1. PICK dep, rep : Placed(node, dep, rep) /\ Where(dep, rep)
  BY DEF PInv
<1>2. /\ IInv /\ Putting /\ ~Asserts /\ pc' = "aborted"
      /\ UNCHANGED <<store, call, key, second, currNode>>
  BY DEF PInv, PutAborts, Abort
<1>3. sndKey = NULL
  <2>1. SUFFICES ASSUME sndKey # NULL PROVE FALSE
    OBVIOUS
  <2>2. /\ dep[currNode] # 0 /\ key = After(call.key, dep[currNode])
        /\ ComesTo(call.key, dep, rep, currNode)
    BY <1>1, <1>2, <2>1 DEF Where
  <2>3. PICK j \in Key : /\ ComesTo(j, dep, rep, currNode)
                         /\ sndKey = After(j, dep[currNode])
    BY <1>1, <1>2, <2>1 DEF Where
  <2>4. call.key \in String /\ j \in String /\ dep[currNode] \in Nat
    BY <1>1, <1>2, KeyAssumption DEF IInv, LocalsOK, Calls, TypeOK, Placed
  <2>5. key # <<>> /\ sndKey # <<>>
    BY <2>2, <2>3, <2>4, NotEmpty
  <2> QED
    BY <1>2, <2>5 DEF Asserts
<1>4. \A dep1, rep1 : Where(dep1, rep1)'
  BY <1>2 DEF Where, Putting
<1>5. ~Putting'
  BY <1>2 DEF Putting
<1> QED
  BY <1>2, <1>3, <1>4, <1>5, PutAbortsOK, StoreKept

\* The key that a put has stored is not empty.
LEMMA AbortsFirst ==
  ASSUME PInv, PutAborts
  PROVE  pc # "again"
<1>1. PICK dep, rep : Placed(node, dep, rep) /\ Where(dep, rep)
  BY DEF PInv
<1> SUFFICES ASSUME pc = "again" PROVE FALSE
  OBVIOUS
<1>2. /\ sndKey = NULL /\ StopsAt(node, dep, rep, currNode, call.key)
      /\ Find(node, call.key) = call.val /\ key = After(call.key, dep[currNode])
  BY <1>1 DEF Where, Putting
<1>3. call.key \in String /\ call.val \in Value /\ currNode \in KVNode
  BY KeyAssumption DEF PInv, IInv, LocalsOK, Calls, TypeOK, Putting
<1>4. key # <<>>
  <2>1. call.val = ValueIn(Slot(node, dep, currNode, call.key), key)
    BY <1>1, <1>2, <1>3, FindIs
  <2> QED
    BY <1>3, <2>1, NullAssumption DEF ValueIn
<1>5. sndKey # <<>>
  BY <1>2, EmptySeq, NullAssumption DEF String
<1> QED
  BY <1>4, <1>5 DEF PutAborts, Asserts

-----------------------------------------------------------------------------

\* Where a lookup is.
LEMMA GetHere ==
  ASSUME IInv, pc = "get", NEW dep, NEW rep, Placed(node, dep, rep), Where(dep, rep)
  PROVE  /\ currNode \in LayersIn(node) /\ currNode \in KVNode
         /\ call.key \in Key /\ call.key \in String
         /\ ComesTo(call.key, dep, rep, currNode)
         /\ partialKey = After(call.key, dep[currNode])
         /\ gotNode = Slot(node, dep, currNode, call.key)
         /\ call.fn = "lookup"
<1>1. call.key \in Key
  BY DEF IInv, LocalsOK, Calls
<1>2. currNode \in LayersIn(node) /\ currNode \in KVNode
  BY DEF IInv, LocalsOK, TypeOK, LayersIn
<1>3. /\ partialKey = After(call.key, dep[currNode]) /\ call.fn = "lookup"
      /\ ComesTo(call.key, dep, rep, currNode)
  BY DEF Where
<1>4. gotNode = Slot(node, dep, currNode, call.key)
  BY <1>3 DEF gotNode, Slot, SliceAt
<1> QED
  BY <1>1, <1>2, <1>3, <1>4, KeyAssumption

\* A lookup that goes no further returns the value of its key in the map.
LEMMA GetReturnsStep ==
  ASSUME PInv, pc = "get", NextIn(gotNode, partialKey) = NULL,
         GetReturns(ValueIn(gotNode, partialKey)), IInv'
  PROVE  PInv' /\ pc' = "done" /\ Quiet /\ ret' = Map[call.key] /\ call.fn = "lookup"
<1>1. PICK dep, rep : Placed(node, dep, rep) /\ Where(dep, rep)
  BY DEF PInv
<1>2. /\ currNode \in LayersIn(node) /\ currNode \in KVNode
      /\ call.key \in Key /\ call.key \in String
      /\ ComesTo(call.key, dep, rep, currNode)
      /\ partialKey = After(call.key, dep[currNode])
      /\ gotNode = Slot(node, dep, currNode, call.key)
      /\ call.fn = "lookup"
  BY <1>1, GetHere DEF PInv
<1>3. StopsAt(node, dep, rep, currNode, call.key)
  BY <1>2 DEF StopsAt
<1>4. Find(node, call.key) = ValueIn(gotNode, partialKey)
  BY <1>1, <1>2, <1>3, FindIs
<1>5. ~Putting /\ ~Putting' /\ pc' = "done" /\ UNCHANGED store
  BY DEF Putting, GetReturns
<1>6. Map[call.key] = Find(node, call.key)
  BY <1>2, <1>5, MapAlone
<1>7. PInv' /\ Quiet
  BY <1>5, DoneWhere, StoreKept
<1> QED
  BY <1>2, <1>4, <1>5, <1>6, <1>7 DEF GetReturns

\* The steps of a lookup: it returns, it goes on, or an assertion fails.
GetDone ==
  /\ pc = "get" /\ pc' = "done" /\ call.fn = "lookup"
  /\ Quiet /\ ret' = Map[call.key] /\ UNCHANGED <<call, key, second>>
GetOn ==
  /\ pc = "get" /\ pc' \in {"get", "aborted"}
  /\ Quiet /\ UNCHANGED <<call, key, second, ret>>

LEMMA GetStep ==
  ASSUME PInv, GetAbsent \/ GetPrefix \/ GetSuffix \/ GetLink
  PROVE  PInv' /\ (GetDone \/ GetOn)
<1>1. IInv /\ IInv' /\ pc = "get"
  BY GetOK DEF PInv, GetAbsent, GetPrefix, GetSuffix, GetLink
<1>2. ASSUME GetReturns(ValueIn(gotNode, partialKey)), NextIn(gotNode, partialKey) = NULL
      PROVE  PInv' /\ GetDone
  BY <1>1, <1>2, GetReturnsStep DEF GetDone, GetReturns
<1>4. CASE GetAbsent
  BY <1>2, <1>4 DEF GetAbsent, ValueIn, NextIn
<1>5. CASE GetPrefix /\ partialKey # <<>>
  BY <1>2, <1>5 DEF GetPrefix, ValueIn, NextIn
<1>6. ~Ends(partialKey) => partialKey # <<>>
  BY DEF Ends
<1>7. CASE GetSuffix
  BY <1>2, <1>6, <1>7 DEF GetSuffix, ValueIn, NextIn, BN_GetLink
<1>8. CASE GetLink /\ BN_GetLink(gotNode) = NULL
  BY <1>2, <1>6, <1>8 DEF GetLink, ValueIn, NextIn
<1>9. CASE GetPrefix /\ partialKey = <<>>
  <2>1. pc' = "aborted" /\ UNCHANGED <<store, call, key, second, ret>> /\ ~Putting /\ ~Putting'
    BY <1>1, <1>9 DEF GetPrefix, Abort, Putting
  <2>2. \A dep, rep : Where(dep, rep)'
    BY <2>1 DEF Where, Putting
  <2> QED
    BY <1>1, <2>1, <2>2, StoreKept DEF GetOn
<1>10. CASE GetLink /\ BN_GetLink(gotNode) # NULL
  <2>1. /\ pc' = "get" /\ currNode' = BN_GetLink(gotNode) /\ partialKey' = Rest(partialKey)
        /\ gotNode # NULL /\ ~Ends(partialKey)
        /\ UNCHANGED <<store, call, key, second, ret>> /\ ~Putting /\ ~Putting'
    BY <1>1, <1>10 DEF GetLink, Putting
  <2>2. ASSUME NEW dep, NEW rep, Placed(node, dep, rep), Where(dep, rep)
        PROVE  Where(dep, rep)'
    <3>1. /\ currNode \in LayersIn(node) /\ call.key \in String
          /\ ComesTo(call.key, dep, rep, currNode)
          /\ partialKey = After(call.key, dep[currNode])
          /\ gotNode = Slot(node, dep, currNode, call.key)
          /\ call.fn = "lookup"
      BY <1>1, <2>2, GetHere
    <3>2. LinkIn(node, currNode, SliceAt(call.key, dep[currNode])) = currNode' /\ currNode' # NULL
      BY <1>10, <2>1, <3>1 DEF LinkIn, Slot
    <3>3. ComesTo(call.key, dep, rep, currNode') /\ partialKey' = After(call.key, dep[currNode'])
      BY <2>1, <2>2, <3>1, <3>2, Descend
    <3> QED
      BY <2>1, <3>1, <3>3 DEF Where, Putting
  <2> QED
    BY <1>1, <2>1, <2>2, StoreKept DEF GetOn
<1> QED
  BY <1>4, <1>5, <1>7, <1>8, <1>9, <1>10

-----------------------------------------------------------------------------

\* Every key comes to the root.
LEMMA AtRoot ==
  ASSUME NEW nd, NEW dep, NEW rep, Placed(nd, dep, rep), NEW k \in String
  PROVE  ComesTo(k, dep, rep, rootNode) /\ k = After(k, dep[rootNode])
<1>1. dep[rootNode] = 0 /\ rep[rootNode] \in String /\ Off(0) = 0
      /\ Len(k) \in Nat /\ Len(rep[rootNode]) \in Nat
  BY OffFacts, LenNat, KeyAssumption DEF Placed
<1> QED
  BY <1>1, AfterZero DEF ComesTo, Same

\* A call begins.
LEMMA CallStep ==
  ASSUME PInv, NEW k \in Key, (\E v \in Value : KV_Put(k, v)) \/ KV_Get(k)
  PROVE  /\ PInv' /\ Quiet /\ pc = "idle" /\ pc' \in {"put", "get"}
         /\ call' \in Calls /\ UNCHANGED ret
<1>1. IInv /\ IInv' /\ pc = "idle"
  BY CallOK DEF PInv, KV_Put, KV_Get
<1>2. sndKey = NULL /\ UNCHANGED <<store, second, ret>> /\ currNode' = rootNode
      /\ pc' \in {"put", "get"} /\ call'.key = k /\ ~Putting
  BY <1>1 DEF IInv, LocalsOK, KV_Put, KV_Get, Putting
<1>3. pc' = "put" => key' = k
  BY <1>1 DEF KV_Put, KV_Get
<1>4. pc' = "get" => partialKey' = k /\ call'.fn = "lookup"
  BY <1>1 DEF KV_Put, KV_Get
<1>5. k \in String
  BY KeyAssumption
<1>6. ASSUME NEW dep, NEW rep, Placed(node, dep, rep) PROVE Where(dep, rep)'
  <2>1. ComesTo(k, dep, rep, rootNode) /\ k = After(k, dep[rootNode])
    BY <1>5, <1>6, AtRoot
  <2>2. sndKey' = NULL
    BY <1>2 DEF second
  <2> QED
    BY <1>2, <1>3, <1>4, <2>1, <2>2 DEF Where, Putting
<1>7. sndKey' = NULL
  BY <1>2 DEF second
<1>8. PInv' /\ Quiet
  BY <1>1, <1>2, <1>6, <1>7, StoreKept
<1>9. call' \in Calls
  BY DEF KV_Put, KV_Get, Calls
<1> QED
  BY <1>1, <1>2, <1>8, <1>9

\* A call returns.
LEMMA ReturnStep ==
  ASSUME PInv, Return
  PROVE  PInv' /\ Quiet
<1>1. IInv' /\ pc = "done" /\ pc' = "idle" /\ UNCHANGED store /\ ~Putting /\ ~Putting'
  BY ReturnOK DEF PInv, Return, Putting
<1>2. \A dep, rep : Where(dep, rep)'
  BY <1>1 DEF Where, Putting
<1> QED
  BY <1>1, <1>2, StoreKept

\* Nothing happens.
LEMMA StutterStep ==
  ASSUME PInv, UNCHANGED vars
  PROVE  PInv' /\ Quiet
<1>1. UNCHANGED <<node, numKeys, pc, call, key, sndKey, sndValue, currNode, partialKey, ret>>
  BY DEF vars, store, second
<1>2. IInv'
  BY StutterOK DEF PInv
<1>3. \A dep, rep : Where(dep, rep) => Where(dep, rep)'
  BY <1>1 DEF Where, Putting
<1>4. Map' = Map
  BY <1>1 DEF Map, Moving
<1> QED
  BY <1>1, <1>2, <1>3, <1>4 DEF PInv, Quiet

LEMMA InitPInv == Init => PInv
<1> SUFFICES ASSUME Init PROVE PInv
  OBVIOUS
<1>1. /\ node = [n \in KVNode |-> IF n = rootNode THEN newKVNode ELSE NULL]
      /\ pc = "idle" /\ rootNode \in KVNode
  BY KeyAssumption DEF Init
<1>2. newKVNode # NULL /\ \A s \in Slice : newKVNode[s] = NULL
  <2>1. newKVNode \in [Slice -> Border \cup {NULL}]
    BY DEF newKVNode
  <2> QED
    BY <2>1, NullAssumption DEF newKVNode
<1>3. LayersIn(node) = {rootNode} /\ \A s \in Slice : node[rootNode][s] = NULL
  BY <1>1, <1>2 DEF LayersIn
<1> DEFINE dep == [n \in KVNode |-> 0]
           rep == [n \in KVNode |-> <<>>]
<1>4. <<>> \in String /\ Len(<<>>) = 0 /\ Off(0) = 0
  BY EmptySeq, OffFacts DEF String
<1>5. dep \in [KVNode -> Nat] /\ rep \in [KVNode -> String] /\ dep[rootNode] = 0
      /\ rep[rootNode] = <<>>
  BY <1>1, <1>4
<1> HIDE DEF dep, rep
<1>6. \A s \in Slice : LinkIn(node, rootNode, s) = NULL
  BY <1>3 DEF LinkIn
<1>7. Placed(node, dep, rep)
  BY <1>3, <1>4, <1>5, <1>6 DEF Placed
<1>8. Where(dep, rep) /\ Padded(node)
  BY <1>1, <1>3 DEF Where, Putting, Padded
<1> QED
  BY <1>7, <1>8, InitOK DEF PInv

LEMMA NextPInv == PInv /\ [Next]_vars => PInv'
<1> SUFFICES ASSUME PInv, [Next]_vars PROVE PInv'
  OBVIOUS
<1>1. CASE Step
  BY <1>1, PutPairStep, PushDownStep, PutApartStep, PutNewSliceStep, PutPrefixStep,
     UpdateSuffixStep, SplitSuffixStep, FollowLinkStep, PutSuffixStep, PutAbortsStep,
     GetStep, ReturnStep DEF Step
<1>2. CASE Aborted \/ UNCHANGED vars
  BY <1>2, StutterStep DEF Aborted
<1>3. ASSUME NEW k \in Key, (\E v \in Value : KV_Put(k, v)) \/ KV_Get(k) PROVE PInv'
  BY <1>3, CallStep
<1> QED
  BY <1>1, <1>2, <1>3 DEF Next

LEMMA PlacesInvariant == Spec => []PInv
BY InitPInv, NextPInv, PTL DEF Spec

\* The layers of the trie are a tree, and every border node is well formed, whatever
\* keys are put, those of case 0.0.0 among them.
THEOREM WellShaped == Spec => []TrieShape
<1>1. PInv => TrieShape
  <2> SUFFICES ASSUME PInv PROVE TrieShape
    OBVIOUS
  <2> DEFINE Links(n) == {s \in Slice : node[n][s] # NULL /\ BN_GetLink(node[n][s]) # NULL}
             lays == LayersIn(node)
  <2>1. PICK dep, rep : Placed(node, dep, rep)
    BY DEF PInv
  <2>2. \A n, s : s \in Links(n) =>
          s \in Slice /\ LinkIn(node, n, s) = BN_GetLink(node[n][s]) /\ LinkIn(node, n, s) # NULL
    BY DEF LinkIn
  <2>3. \A n, s : s \in Slice /\ LinkIn(node, n, s) # NULL => s \in Links(n)
    BY DEF LinkIn
  <2> HIDE DEF Links
  <2>4. ASSUME NEW n \in lays, NEW s \in Links(n)
        PROVE  /\ BN_GetLink(node[n][s]) \in lays \ {rootNode}
               /\ \A m \in lays : \A r \in Links(m) :
                    BN_GetLink(node[m][r]) = BN_GetLink(node[n][s]) => m = n /\ r = s
    <3> DEFINE l == BN_GetLink(node[n][s])
    <3>1. s \in Slice /\ LinkIn(node, n, s) = l /\ l # NULL
      BY <2>2
    <3> HIDE DEF l
    <3>2. l \in lays /\ dep[l] = dep[n] + 1 /\ Same(rep[l], rep[n], dep[n])
          /\ SliceAt(rep[l], dep[n]) = s /\ dep[n] \in Nat
      BY <2>1, <3>1 DEF Placed, Child, LayersIn
    <3>3. l # rootNode
      BY <2>1, <3>2 DEF Placed
    <3>4. ASSUME NEW m \in lays, NEW r \in Links(m), BN_GetLink(node[m][r]) = l
          PROVE  m = n /\ r = s
      <4>1. r \in Slice /\ LinkIn(node, m, r) = l
        BY <2>2, <3>4
      <4>2. dep[l] = dep[m] + 1 /\ Same(rep[l], rep[m], dep[m])
            /\ SliceAt(rep[l], dep[m]) = r /\ dep[m] \in Nat
        BY <2>1, <3>1, <4>1 DEF Placed, Child, LayersIn
      <4>3. dep[m] = dep[n]
        BY <3>2, <4>2
      <4>4. Same(rep[m], rep[n], dep[n])
        BY <3>2, <4>2, <4>3 DEF Same
      <4>5. m = n
        BY <2>1, <4>3, <4>4 DEF Placed
      <4> QED
        BY <3>2, <4>2, <4>3, <4>5
    <3> QED
      BY <3>2, <3>3, <3>4 DEF l
  <2>5. lays = {rootNode} \cup UNION {{BN_GetLink(node[n][s]) : s \in Links(n)} : n \in lays}
    <3>1. ASSUME NEW m \in lays, m # rootNode
          PROVE  \E n \in lays : \E s \in Links(n) : m = BN_GetLink(node[n][s])
      <4>1. PICK n \in lays, s \in Slice : LinkIn(node, n, s) = m
        BY <2>1, <3>1 DEF Placed
      <4>2. m # NULL
        BY NullAssumption DEF LayersIn
      <4> QED
        BY <2>2, <2>3, <4>1, <4>2
    <3>2. rootNode \in lays
      BY <2>1 DEF Placed
    <3>3. \A n \in lays : \A s \in Links(n) : BN_GetLink(node[n][s]) \in lays
      BY <2>4
    <3> HIDE DEF lays
    <3> QED
      BY <3>1, <3>2, <3>3
  <2>6. ASSUME NEW n \in lays, NEW s \in Slice, node[n][s] # NULL
        PROVE  /\ node[n][s].suffix # <<>>
               /\ \A i \in 1 .. L : node[n][s].prefix[i] # NULL => \A j \in i + 1 .. L : s[j] = 0
    <3>1. BorderOK(node, node[n][s])
      BY <2>6 DEF PInv, IInv, TrieOK, LayersIn
    <3>2. NULL # <<>>
      BY EmptySeq, NullAssumption DEF String
    <3>3. PadOK(s, node[n][s])
      BY <2>6 DEF PInv, Padded
    <3> QED
      BY <3>1, <3>2, <3>3 DEF BorderOK, PadOK
  <2> QED
    BY <2>4, <2>5, <2>6 DEF TrieShape, LayersIn, Links
<1> QED
  BY <1>1, PlacesInvariant, PTL

-----------------------------------------------------------------------------
(* The store is a map and counts its keys.                                 *)

\* What a step is for the map, but for case 0.0.0.
Applies ==
  /\ pc = "put" /\ pc' \in {"again", "done"} /\ call.fn = "insert"
  /\ Applied /\ UNCHANGED <<call, ret>>

Stutters == Quiet /\ Phase' = Phase /\ UNCHANGED <<call, ret>>

Begins ==
  /\ pc = "idle" /\ pc' \in {"put", "get"}
  /\ Quiet /\ call' \in Calls /\ UNCHANGED ret

Returns ==
  /\ pc = "done" /\ pc' = "idle"
  /\ Quiet /\ call' = NULL /\ ret' = NULL

LEMMA StepKind ==
  ASSUME PInv, [Next]_vars
  PROVE  Begins \/ Applies \/ GetDone \/ Returns \/ Stutters \/ PutPair
<1>1. Putting => call.fn = "insert"
  BY NullAssumption DEF PInv, IInv, LocalsOK, Calls
<1>2. ASSUME PutNewSlice \/ PutSuffix \/ PutApart PROVE Applies
  <2>1. pc = "put" /\ pc' \in {"again", "done"} /\ Applied
    BY <1>2, PutNewSliceStep, PutSuffixStep, PutApartStep DEF PutNewSlice
  <2>2. UNCHANGED <<call, ret>>
    BY <1>2 DEF PutNewSlice, PutSuffix, PutApart, putCompleted
  <2> QED
    BY <1>1, <2>1, <2>2 DEF Applies, Putting
<1>3. ASSUME PutPrefix \/ UpdateSuffix PROVE Applies \/ Stutters
  <2>1. pc' = "done" /\ IF pc = "put" THEN Applied ELSE Quiet
    BY <1>3, PutPrefixStep, UpdateSuffixStep
  <2>2. UNCHANGED <<call, ret>> /\ pc \in {"put", "again"}
    BY <1>3 DEF PutPrefix, UpdateSuffix, putCompleted, Found, Single, Putting
  <2> QED
    BY <1>1, <2>1, <2>2 DEF Applies, Stutters, Phase, Putting
<1>4. ASSUME SplitSuffix \/ PushDown \/ FollowLink PROVE Stutters
  <2>1. pc = "put" /\ pc' = "put" /\ Quiet
    BY <1>4, SplitSuffixStep, PushDownStep, FollowLinkStep
  <2>2. UNCHANGED <<call, ret>>
    BY <1>4 DEF SplitSuffix, PushDown, FollowLink
  <2> QED
    BY <2>1, <2>2 DEF Stutters, Phase
<1>5. ASSUME PutAborts PROVE Stutters
  <2>1. pc' = "aborted" /\ Quiet /\ UNCHANGED <<call, ret>> /\ pc \in {"put", "again"}
    BY <1>5, PutAbortsStep DEF PutAborts, Abort, Putting
  <2>2. pc # "again"
    BY <1>5, AbortsFirst
  <2> QED
    BY <2>1, <2>2 DEF Stutters, Phase
<1>6. ASSUME GetAbsent \/ GetPrefix \/ GetSuffix \/ GetLink PROVE GetDone \/ Stutters
  <2>1. GetDone \/ GetOn
    BY <1>6, GetStep
  <2> QED
    BY <2>1 DEF GetOn, Stutters, Phase
<1>7. ASSUME Return PROVE Returns
  BY <1>7, ReturnStep DEF Return, Returns
<1>8. ASSUME Aborted \/ UNCHANGED vars PROVE Stutters
  <2>1. Quiet /\ UNCHANGED <<call, ret, pc>>
    BY <1>8, StutterStep DEF Aborted, vars
  <2> QED
    BY <2>1 DEF Stutters, Phase
<1>9. ASSUME NEW k \in Key, (\E v \in Value : KV_Put(k, v)) \/ KV_Get(k) PROVE Begins
  BY <1>9, CallStep DEF Begins
<1> QED
  BY <1>2, <1>3, <1>4, <1>5, <1>6, <1>7, <1>8, <1>9 DEF Next, Step

LEMMA InitMaps ==
  Init => /\ Map = [k \in Key |-> NULL]
          /\ Abstract!Init
<1> SUFFICES ASSUME Init PROVE Map = [k \in Key |-> NULL] /\ Abstract!Init
  OBVIOUS
<1>1. pc = "idle" /\ call = NULL /\ ret = NULL
  BY DEF Init
<1>2. PICK dep, rep : Placed(node, dep, rep)
  BY InitPInv DEF PInv
<1>3. \A s \in Slice : node[rootNode][s] = NULL
  BY KeyAssumption DEF Init, newKVNode
<1>4. ASSUME NEW k \in Key PROVE Find(node, k) = NULL
  <2>1. k \in String /\ rootNode \in LayersIn(node) /\ rootNode \in KVNode /\ dep[rootNode] = 0
    BY <1>2, KeyAssumption DEF Placed
  <2>2. ComesTo(k, dep, rep, rootNode) /\ k = After(k, dep[rootNode])
    BY <1>2, <2>1, AtRoot
  <2>3. Slot(node, dep, rootNode, k) = NULL
    BY <1>3, <2>1, <2>2, NextKeySliceOK DEF Slot, SliceAt
  <2>4. StopsAt(node, dep, rep, rootNode, k)
    BY <2>1, <2>2, <2>3 DEF StopsAt, NextIn
  <2>5. Find(node, k) = ValueIn(Slot(node, dep, rootNode, k), After(k, dep[rootNode]))
    BY <1>2, <2>1, <2>4, FindIs
  <2> QED
    BY <2>3, <2>5 DEF ValueIn
<1>5. Map = [k \in Key |-> NULL]
  <2>1. Map = [k \in Key |-> Find(node, k)]
    BY <1>1, MapAlone DEF Putting
  <2> QED
    BY <1>4, <2>1
<1>6. Abstract!Init
  BY <1>1, <1>5 DEF Abstract!Init, Phase
<1> QED
  BY <1>5, <1>6

LEMMA MapsStep ==
  ASSUME PInv, [Next]_vars
  PROVE  PutPair \/ [Abstract!Next]_(Abstract!vars)
<1> DEFINE ph == [t \in Client |-> Phase]
           cl == [t \in Client |-> call]
           re == [t \in Client |-> ret]
<1>1. "client" \in Client
  BY DEF Client
<1>2. CASE Stutters
  <2>1. Map' = Map /\ ph' = ph /\ cl' = cl /\ re' = re
    BY <1>2 DEF Stutters, Quiet
  <2> QED
    BY <2>1 DEF Abstract!vars
<1>3. CASE Begins
  <2>1. /\ ph["client"] = "idle" /\ ph' = [ph EXCEPT !["client"] = "called"]
        /\ Map' = Map /\ re' = re /\ cl' = [cl EXCEPT !["client"] = call'] /\ call' \in Calls
    BY <1>3 DEF Begins, Quiet, Phase, Client
  <2>2. Calls \subseteq Abstract!Calls
    BY DEF Calls, Abstract!Calls
  <2>3. Abstract!Invoke("client")
    BY <2>1, <2>2 DEF Abstract!Invoke
  <2> QED
    BY <1>1, <2>3 DEF Abstract!Next
<1>4. CASE Applies
  <2>1. /\ ph["client"] = "called" /\ ph' = [ph EXCEPT !["client"] = "done"]
        /\ cl' = cl /\ re' = re /\ cl["client"] = call /\ call.fn = "insert"
        /\ Map' = [Map EXCEPT ![call.key] = call.val]
    BY <1>4 DEF Applies, Applied, Phase, Client
  <2>2. Abstract!Insert("client")
    BY <2>1 DEF Abstract!Insert
  <2>3. Abstract!Apply("client")
    BY <2>1, <2>2 DEF Abstract!Apply
  <2> QED
    BY <1>1, <2>3 DEF Abstract!Next
<1>5. CASE GetDone
  <2>1. /\ ph["client"] = "called" /\ ph' = [ph EXCEPT !["client"] = "done"]
        /\ cl' = cl /\ cl["client"] = call /\ call.fn = "lookup" /\ Map' = Map
        /\ re' = [re EXCEPT !["client"] = Map[call.key]]
    BY <1>5 DEF GetDone, Quiet, Phase, Client
  <2>2. Abstract!Lookup("client")
    BY <2>1 DEF Abstract!Lookup
  <2>3. Abstract!Apply("client")
    BY <2>1, <2>2 DEF Abstract!Apply
  <2> QED
    BY <1>1, <2>3 DEF Abstract!Next
<1>6. CASE Returns
  <2>1. /\ ph["client"] = "done" /\ ph' = [ph EXCEPT !["client"] = "idle"]
        /\ cl' = [cl EXCEPT !["client"] = NULL] /\ re' = [re EXCEPT !["client"] = NULL]
        /\ Map' = Map
    BY <1>6 DEF Returns, Quiet, Phase, Client
  <2>2. Abstract!Return("client")
    BY <2>1 DEF Abstract!Return
  <2> QED
    BY <1>1, <2>2 DEF Abstract!Next
<1> QED
  BY <1>2, <1>3, <1>4, <1>5, <1>6, StepKind

\* The store implements a map, step by step: a put changes the value of its key and of
\* no other, at one instant, whatever it pushes down and however often it goes round its
\* loop; a get returns what the last put of the key has stored.  No step but case 0.0.0
\* (kvstore.c:204-216) is an exception.
THEOREM StoreIsMap == Spec => ImplementsMap
<1>1. Init => Abstract!Init
  BY InitMaps
<1>2. PInv /\ [Next]_vars => [PutPair \/ [Abstract!Next]_(Abstract!vars)]_vars
  BY MapsStep
<1> QED
  BY <1>1, <1>2, PlacesInvariant, PTL DEF Spec, ImplementsMap

\* Case 0.0.0 is met by keys only of which one ends in a slice that the other has too: on
\* keys that are apart the store is the atomic map, without exception.
THEOREM StoreIsAtomicMap ==
  ASSUME KeysApart
  PROVE  Spec => Abstract!Spec
<1>1. Init => Abstract!Init
  BY InitMaps
<1>2. PInv /\ [Next]_vars => [Abstract!Next]_(Abstract!vars)
  BY MapsStep, PutPairNever
<1> QED
  BY <1>1, <1>2, PlacesInvariant, PTL DEF Spec, Abstract!Spec

\* numKeys is raised by the step that gives the key of a put its first value, at one of
\* five places in KV_Put, and by no other step.
THEOREM CountsKeys == Spec => CountsNewKeys
<1> DEFINE Counts == numKeys' = IF pc = "put" /\ Map[call.key] = NULL /\ Map'[call.key] # NULL
                                THEN numKeys + 1 ELSE numKeys
<1>1. PInv /\ [Next]_vars => [Counts]_vars
  <2> SUFFICES ASSUME PInv, [Next]_vars PROVE Counts
    OBVIOUS
  <2>1. CASE Quiet
    BY <2>1 DEF Quiet
  <2>2. CASE Applies
    <3>1. /\ Map' = [Map EXCEPT ![call.key] = call.val]
          /\ numKeys' = IF Map[call.key] = NULL THEN numKeys + 1 ELSE numKeys
      BY <2>2 DEF Applies, Applied
    <3>2. call.key \in Key /\ call.val # NULL
      BY <2>2, NullAssumption DEF PInv, IInv, LocalsOK, Calls, Applies, Putting
    <3>3. Map'[call.key] = call.val
      BY <3>1, <3>2 DEF Map
    <3> QED
      BY <2>2, <3>1, <3>2, <3>3 DEF Applies
  <2>3. CASE PutPair
    BY <2>3, PutPairStep
  <2> QED
    BY <2>1, <2>2, <2>3, StepKind DEF Begins, GetDone, Returns, Stutters
<1> QED
  BY <1>1, PlacesInvariant, PTL DEF Spec, CountsNewKeys
=============================================================================
