-------------------------------- MODULE Gate --------------------------------
(***************************************************************************)
(* What the semaphore of a CCEH segment promises: threads enter and leave  *)
(* while the gate is open; one thread may close it, after which nobody     *)
(* enters; once those inside have left, the closer is alone until it opens *)
(* the gate again or retires it.                                           *)
(***************************************************************************)
CONSTANT Threads

VARIABLES inside, closers, state

gvars == <<inside, closers, state>>

Init == inside = {} /\ closers = {} /\ state = "open"

Enter(t) ==
  /\ state = "open"
  /\ t \notin inside
  /\ inside' = inside \cup {t}
  /\ UNCHANGED <<closers, state>>

Leave(t) ==
  /\ t \in inside
  /\ inside' = inside \ {t}
  /\ UNCHANGED <<closers, state>>

Close(t) ==
  /\ state = "open"
  /\ t \notin inside
  /\ closers' = {t}
  /\ state' = IF inside = {} THEN "exclusive" ELSE "draining"
  /\ UNCHANGED inside

Drained(t) ==
  /\ state = "draining"
  /\ inside = {}
  /\ closers = {t}
  /\ state' = "exclusive"
  /\ UNCHANGED <<inside, closers>>

Open(t) ==
  /\ state = "exclusive"
  /\ closers = {t}
  /\ closers' = {}
  /\ state' = "open"
  /\ UNCHANGED inside

Retire(t) ==
  /\ state = "exclusive"
  /\ closers = {t}
  /\ closers' = {}
  /\ state' = "retired"
  /\ UNCHANGED inside

Next ==
  \E t \in Threads :
    Enter(t) \/ Leave(t) \/ Close(t) \/ Drained(t) \/ Open(t) \/ Retire(t)

Spec == Init /\ [][Next]_gvars

=============================================================================
