---------------------------- MODULE SegmentLock ----------------------------
(***************************************************************************)
(* The counting lock of a CCEH Segment (CCEH-PMDK/src/CCEH.h:68-98); the   *)
(* one of a Directory (CCEH.h:122-152) is the same code.                   *)
(*                                                                         *)
(* sema >= 0 counts the threads inside lock()/unlock(); suspend() swaps in *)
(* -1, which stops new lockers, and then waits until every locker it found *)
(* has brought the counter down to -1 - val.  The three functions are load *)
(* + compare-and-swap loops: the load and the CAS are separate steps here. *)
(* A suspended segment is either reopened by a plain store of 0 or, in the *)
(* copy-on-write build, left negative for ever once it has been replaced.  *)
(***************************************************************************)
EXTENDS Integers, FiniteSets

CONSTANT Threads

ASSUME ThreadsAssumption == IsFiniteSet(Threads)

VARIABLES
  sema,     \* Segment::sema
  pc,       \* where each thread is inside lock/unlock/suspend
  val,      \* the local variable `val' of the function the thread is in
  life      \* "retired" once an owner has left the segment suspended for good

vars == <<sema, pc, val, life>>

PCs == {"idle", "lock", "lock_cas", "held", "unlock", "unlock_cas",
        "suspend", "suspend_cas", "wait", "owner"}

\* lock() has returned true and unlock() has not yet taken its effect.
Holders == {t \in Threads : pc[t] \in {"held", "unlock", "unlock_cas"}}

\* The CAS of suspend() has succeeded and the segment is not reopened yet.
Suspenders == {t \in Threads : pc[t] \in {"wait", "owner"}}

Init ==
  /\ sema = 0
  /\ pc = [t \in Threads |-> "idle"]
  /\ val = [t \in Threads |-> 0]
  /\ life = "live"

\* val = sema, the first statement of a loop that starts at one of `from'.
Load(t, from) ==
  /\ pc[t] \in from
  /\ val' = [val EXCEPT ![t] = sema]
  /\ UNCHANGED <<sema, life>>

Goto(t, to) == pc' = [pc EXCEPT ![t] = to]

-----------------------------------------------------------------------------
(* lock(): `while(val > -1){ if(CAS(&sema, &val, val+1)) return true; ... }' *)

LockLoad(t) ==
  /\ Load(t, {"idle", "lock"})
  /\ Goto(t, IF sema > -1 THEN "lock_cas" ELSE "idle")

LockCAS(t) ==
  /\ pc[t] = "lock_cas"
  /\ \/ /\ sema = val[t]
        /\ sema' = val[t] + 1
        /\ Goto(t, "held")
     \/ /\ sema # val[t]
        /\ Goto(t, "lock")
        /\ UNCHANGED sema
  /\ UNCHANGED <<val, life>>

-----------------------------------------------------------------------------
(* unlock(): `while(!CAS(&sema, &val, val-1)) val = sema'                   *)

UnlockLoad(t) ==
  /\ Load(t, {"held", "unlock"})
  /\ Goto(t, "unlock_cas")

\* Mutant: the loop condition of unlock() is inverted.
UnlockInverted(t) ==
  /\ pc[t] = "unlock_cas"
  /\ \/ sema = val[t] /\ sema' = val[t] - 1 /\ Goto(t, "unlock")
     \/ sema # val[t] /\ Goto(t, "idle") /\ UNCHANGED sema
  /\ UNCHANGED <<val, life>>

UnlockCAS(t) ==
  /\ pc[t] = "unlock_cas"
  /\ \/ /\ sema = val[t]
        /\ sema' = val[t] - 1
        /\ Goto(t, "idle")
     \/ /\ sema # val[t]
        /\ Goto(t, "unlock")
        /\ UNCHANGED sema
  /\ UNCHANGED <<val, life>>

-----------------------------------------------------------------------------
(* suspend(): swap in -1, then wait for the lockers that were counted.      *)

\* Mutant: suspend() does not give up on a suspended segment.
SuspendAgain(t) == Load(t, {"idle", "suspend"}) /\ Goto(t, "suspend_cas")

SuspendLoad(t) ==
  /\ Load(t, {"idle", "suspend"})
  /\ Goto(t, IF sema < 0 THEN "idle" ELSE "suspend_cas")

\* Mutant: suspend() returns without waiting for the lockers.
SuspendNoWait(t) ==
  /\ pc[t] = "suspend_cas"
  /\ \/ sema = val[t] /\ sema' = -1 /\ Goto(t, "owner")
     \/ sema # val[t] /\ Goto(t, "suspend") /\ UNCHANGED sema
  /\ UNCHANGED <<val, life>>

SuspendCAS(t) ==
  /\ pc[t] = "suspend_cas"
  /\ \/ /\ sema = val[t]
        /\ sema' = -1
        /\ Goto(t, IF val[t] = 0 THEN "owner" ELSE "wait")
     \/ /\ sema # val[t]
        /\ Goto(t, "suspend")
        /\ UNCHANGED sema
  /\ UNCHANGED <<val, life>>

\* Mutant: wait = 0 - val, off by one.
SuspendWaitOff(t) ==
  /\ pc[t] = "wait"
  /\ sema = 0 - val[t]
  /\ Goto(t, "owner")
  /\ UNCHANGED <<sema, val, life>>

SuspendWait(t) ==
  /\ pc[t] = "wait"
  /\ sema = 0 - val[t] - 1
  /\ Goto(t, "owner")
  /\ UNCHANGED <<sema, val, life>>

\* `sema = 0' by the thread that suspended the segment.
Reopen(t) ==
  /\ pc[t] = "owner"
  /\ sema' = 0
  /\ Goto(t, "idle")
  /\ UNCHANGED <<val, life>>

\* Copy-on-write: the replaced segment keeps its negative sema (no store at
\* CCEH.cpp:336-339, 374-377 and 396-399 unless INPLACE is defined).
Retire(t) ==
  /\ pc[t] = "owner"
  /\ life' = "retired"
  /\ Goto(t, "idle")
  /\ UNCHANGED <<sema, val>>

-----------------------------------------------------------------------------

Unlock(t) == UnlockLoad(t) \/ UnlockCAS(t)

Step(t) ==
  \/ LockLoad(t) \/ LockCAS(t)
  \/ Unlock(t)
  \/ SuspendLoad(t) \/ SuspendCAS(t) \/ SuspendWait(t)
  \/ Reopen(t) \/ Retire(t)

Next == \E t \in Threads : Step(t)

Spec == Init /\ [][Next]_vars

\* A thread inside a probe reaches its unlock() and a thread inside unlock()
\* or the wait loop of suspend() keeps running; nobody is obliged to call
\* lock() or suspend(), nor to finish a split.
Fairness == \A t \in Threads : WF_vars(Unlock(t)) /\ WF_vars(SuspendWait(t))

FairSpec == Spec /\ Fairness

-----------------------------------------------------------------------------

\* The counter stays within one step per thread of its initial value: no
\* sequence of calls makes it drift, so 64 bits are never short.
SemaRange == (0 - 1 - Cardinality(Threads)) .. Cardinality(Threads)

TypeOK ==
  /\ sema \in SemaRange
  /\ pc \in [Threads -> PCs]
  /\ val \in [Threads -> Int]
  /\ life \in {"live", "retired"}

\* While a thread runs between a successful suspend() and the release of the
\* segment (where Split copies the slots), no other thread has suspended the
\* segment and no thread is inside a lock()/unlock() pair.
SplitExclusive ==
  \A t \in Threads : pc[t] = "owner" => Suspenders = {t} /\ Holders = {}

\* The counter accounts for the lockers exactly: an open segment counts its
\* holders; in a suspended one the holders still inside are the val[s] that
\* suspend() found less the ones that have left.
OpenCount == sema >= 0 => /\ sema = Cardinality(Holders)
                          /\ Suspenders = {}
                          /\ life = "live"

SuspendedCount ==
  \A s \in Suspenders : /\ sema < 0
                        /\ life = "live"
                        /\ Suspenders = {s}
                        /\ val[s] \in 0 .. Cardinality(Threads)
                        /\ Cardinality(Holders) = val[s] + 1 + sema
                        /\ pc[s] = "owner" => Holders = {}

Accounting == OpenCount /\ SuspendedCount

\* A replaced segment never admits a thread again: stale pointers to it held
\* by other threads fail both lock() and suspend().
RetiredIsClosed == life = "retired" => sema < 0 /\ Holders = {} /\ Suspenders = {}

\* The values compared by a pending CAS of lock() or suspend() were loaded
\* from an open segment.
PendingCAS ==
  \A t \in Threads : pc[t] \in {"lock_cas", "suspend_cas"} => val[t] >= 0

\* A negative counter has a cause: somebody suspended, or the segment retired.
NegativeHasCause == sema < 0 => life = "retired" \/ Suspenders # {}

Inv == TypeOK /\ Accounting /\ RetiredIsClosed /\ PendingCAS /\ NegativeHasCause

\* The wait loop of suspend() ends: its exit test is an equality, so a count
\* that was off by one would spin for ever.
SuspendReturns ==
  \A t \in Threads : pc[t] = "wait" ~> pc[t] = "owner"

-----------------------------------------------------------------------------
(* Refinement: the counter implements the gate of module Gate.             *)

gateState ==
  CASE life = "retired" -> "retired"
    [] life = "live" /\ sema >= 0 -> "open"
    [] life = "live" /\ sema < 0 /\ (\E t \in Threads : pc[t] = "owner") -> "exclusive"
    [] life = "live" /\ sema < 0 /\ (\A t \in Threads : pc[t] # "owner") -> "draining"

AbstractGate == INSTANCE Gate WITH inside <- Holders,
                                   closers <- Suspenders,
                                   state <- gateState

\* Every step of the counter is a step of the gate or changes nothing of it.
ImplementsGate == AbstractGate!Spec

=============================================================================
