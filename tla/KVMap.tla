------------------------------- MODULE KVMap -------------------------------
(* What an index of the case study promises: a map in which a key appears   *)
(* at one instant, with its value, before its insert returns, and stays     *)
(* until a delete of it has been called, which removes it at one instant.   *)
CONSTANTS Keys, Values, NONE

VARIABLES
  store,      \* the map a search sees
  acked,      \* keys whose insert has returned and whose delete was not called
  withdrawn   \* keys whose delete was called and has not taken effect

vars == <<store, acked, withdrawn>>

Init ==
  /\ store = [k \in Keys |-> NONE]
  /\ acked = {} /\ withdrawn = {}

Put(k) ==
  /\ store[k] = NONE
  /\ store'[k] \in Values
  /\ store' = [store EXCEPT ![k] = store'[k]]
  /\ UNCHANGED <<acked, withdrawn>>

Acknowledge(k) ==
  /\ store[k] # NONE
  /\ acked' = acked \cup {k}
  /\ UNCHANGED <<store, withdrawn>>

Withdraw(k) ==
  /\ acked' = acked \ {k}
  /\ withdrawn' = withdrawn \cup {k}
  /\ UNCHANGED store

Remove(k) ==
  /\ k \in withdrawn
  /\ store' = [store EXCEPT ![k] = NONE]
  /\ withdrawn' = withdrawn \ {k}
  /\ UNCHANGED acked

Next == \E k \in Keys : Put(k) \/ Acknowledge(k) \/ Withdraw(k) \/ Remove(k)

Spec == Init /\ [][Next]_vars

=============================================================================
