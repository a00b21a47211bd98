------------------------------ MODULE AtomicMap ------------------------------
(***************************************************************************)
(* What the concurrent tree and the key-value store promise their clients: *)
(* a map from keys to values, each of whose operations takes effect at one *)
(* instant between its call and its return.  A call is a record            *)
(* [fn, key, val]; a thread is idle, then has called, then is done and     *)
(* waits to return.                                                        *)
(***************************************************************************)
CONSTANTS Thread,   \* the threads that call the map
          Key,      \* the keys
          Value,    \* the values that may be stored
          NULL      \* "no value": what a lookup of an absent key returns

VARIABLES map,      \* map[k]: the value of key k, or NULL
          phase,    \* phase[t]: where thread t is in its call
          call,     \* call[t]: the call thread t is in, or NULL
          ret       \* ret[t]: what the call of t returns, once done

vars == <<map, phase, call, ret>>

Calls == [fn : {"insert"}, key : Key, val : Value]
         \cup [fn : {"lookup", "delete"}, key : Key, val : {NULL}]

\* The map may hold keys already when the threads start.
Init ==
  /\ map \in [Key -> Value \cup {NULL}]
  /\ phase = [t \in Thread |-> "idle"]
  /\ call = [t \in Thread |-> NULL]
  /\ ret = [t \in Thread |-> NULL]

Invoke(t) ==
  /\ phase[t] = "idle"
  /\ phase' = [phase EXCEPT ![t] = "called"]
  /\ \E c \in Calls : call' = [call EXCEPT ![t] = c]
  /\ UNCHANGED <<map, ret>>

Insert(t) ==
  /\ call[t].fn = "insert"
  /\ map' = [map EXCEPT ![call[t].key] = call[t].val]
  /\ UNCHANGED ret

Lookup(t) ==
  /\ call[t].fn = "lookup"
  /\ ret' = [ret EXCEPT ![t] = map[call[t].key]]
  /\ UNCHANGED map

Delete(t) ==
  /\ call[t].fn = "delete"
  /\ map' = [map EXCEPT ![call[t].key] = NULL]
  /\ UNCHANGED ret

\* The instant at which the call of t takes effect.
Apply(t) ==
  /\ phase[t] = "called"
  /\ phase' = [phase EXCEPT ![t] = "done"]
  /\ Insert(t) \/ Lookup(t) \/ Delete(t)
  /\ UNCHANGED call

Return(t) ==
  /\ phase[t] = "done"
  /\ phase' = [phase EXCEPT ![t] = "idle"]
  /\ call' = [call EXCEPT ![t] = NULL]
  /\ ret' = [ret EXCEPT ![t] = NULL]
  /\ UNCHANGED map

Next == \E t \in Thread : Invoke(t) \/ Apply(t) \/ Return(t)

Spec == Init /\ [][Next]_vars
=============================================================================
