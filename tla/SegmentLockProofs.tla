------------------------- MODULE SegmentLockProofs -------------------------
(***************************************************************************)
(* Proofs about SegmentLock for every finite set of threads: the counter   *)
(* accounts for its holders (the inductive invariant Inv), a suspender is  *)
(* alone, a retired segment stays closed, and the load/CAS loops implement *)
(* the Gate.                                                               *)
(***************************************************************************)
EXTENDS SegmentLock, FiniteSetTheorems, TLAPS

\* There are finitely many threads.
LEMMA ThreadsCount == Cardinality(Threads) \in Nat
BY ThreadsAssumption, FS_CardinalityType

\* A set of threads has a cardinality between 0 and that of Threads.
LEMMA ThreadSets ==
  ASSUME NEW S \in SUBSET Threads
  PROVE  /\ IsFiniteSet(S)
         /\ Cardinality(S) \in 0 .. Cardinality(Threads)
         /\ Cardinality(S) = 0 <=> S = {}
<1>1. IsFiniteSet(S) /\ Cardinality(S) <= Cardinality(Threads)
  BY ThreadsAssumption, FS_Subset
<1>2. Cardinality(S) \in Nat
  BY <1>1, FS_CardinalityType
<1>3. Cardinality(S) = 0 <=> S = {}
  BY <1>1, FS_EmptySet
<1> QED
  BY <1>1, <1>2, <1>3, ThreadsCount

\* In particular the holders, before and after a step.
LEMMA HoldersCount ==
  /\ Holders \in SUBSET Threads
  /\ Holders' \in SUBSET Threads
  /\ IsFiniteSet(Holders)
  /\ Cardinality(Holders) \in 0 .. Cardinality(Threads)
  /\ Cardinality(Holders') \in 0 .. Cardinality(Threads)
  /\ Cardinality(Holders) = 0 <=> Holders = {}
<1>1. Holders \in SUBSET Threads /\ Holders' \in SUBSET Threads
  BY DEF Holders
<1> QED
  BY <1>1, ThreadSets

\* A thread that enters raises the number of holders by one.
LEMMA HoldersAdd ==
  ASSUME NEW t, t \notin Holders, Holders' = Holders \cup {t}
  PROVE  Cardinality(Holders') = Cardinality(Holders) + 1
BY HoldersCount, FS_AddElement

\* A thread that leaves lowers it by one.
LEMMA HoldersRemove ==
  ASSUME NEW t, t \in Holders, Holders' = Holders \ {t}
  PROVE  Cardinality(Holders') = Cardinality(Holders) - 1
BY HoldersCount, FS_RemoveElement

\* The initial state satisfies the inductive invariant.
LEMMA InitInv == Init => Inv
<1> SUFFICES ASSUME Init PROVE Inv
  OBVIOUS
<1>1. Holders = {} /\ Suspenders = {}
  BY DEF Init, Holders, Suspenders
<1>2. Cardinality(Holders) = 0
  BY <1>1, HoldersCount
<1>3. TypeOK
  BY ThreadsCount DEF Init, TypeOK, SemaRange, PCs
<1> QED
  BY <1>1, <1>2, <1>3 DEF Init, Inv, Accounting, OpenCount, SuspendedCount,
     RetiredIsClosed, PendingCAS, NegativeHasCause

\* Every step of a thread keeps it.
LEMMA StepInv ==
  ASSUME Inv, NEW t \in Threads, Step(t)
  PROVE  Inv'
<1> USE DEF Inv
<1>a. /\ Cardinality(Holders) \in 0 .. Cardinality(Threads)
      /\ Cardinality(Holders') \in 0 .. Cardinality(Threads)
      /\ Cardinality(Holders) = 0 <=> Holders = {}
  BY HoldersCount
<1>b. /\ sema \in Int
      /\ Cardinality(Threads) \in Nat
      /\ Cardinality(Holders) \in Int
      /\ Cardinality(Holders') \in Int
      /\ val[t] \in Int
  BY <1>a, ThreadsCount DEF TypeOK, SemaRange
<1>1. CASE LockLoad(t)
  <2> USE <1>1 DEF LockLoad, Load, Goto
  <2>1. TypeOK'
    BY <1>b DEF TypeOK, PCs
  <2>2. Holders' = Holders /\ Suspenders' = Suspenders
    BY DEF TypeOK, Holders, Suspenders
  <2>3. \A s \in Suspenders : val'[s] = val[s] /\ pc'[s] = pc[s]
    BY DEF TypeOK, Suspenders
  <2>4. Accounting' /\ RetiredIsClosed' /\ NegativeHasCause'
    BY <2>2, <2>3 DEF Accounting, OpenCount, SuspendedCount, RetiredIsClosed,
       NegativeHasCause
  <2>5. PendingCAS'
    BY <1>b DEF TypeOK, PendingCAS
  <2> QED
    BY <2>1, <2>4, <2>5
<1>2. CASE LockCAS(t)
  <2> USE <1>2 DEF LockCAS, Goto
  <2>1. pc' \in [Threads -> PCs] /\ val' \in [Threads -> Int] /\ life' \in {"live", "retired"}
    BY DEF TypeOK, PCs
  <2>2. PendingCAS'
    BY DEF TypeOK, PendingCAS
  <2>3. CASE sema = val[t]
    <3> USE <2>3
    <3>1. sema >= 0 /\ sema' = sema + 1 /\ sema' >= 0
      BY DEF TypeOK, PendingCAS
    <3>2. t \notin Holders /\ Holders' = Holders \cup {t}
      BY DEF TypeOK, Holders
    <3>3. Suspenders' = Suspenders
      BY DEF TypeOK, Suspenders
    <3>4. Cardinality(Holders') = Cardinality(Holders) + 1
      BY <3>2, HoldersAdd
    <3>5. Suspenders = {} /\ sema = Cardinality(Holders) /\ life = "live"
      BY <3>1 DEF Accounting, OpenCount
    <3>6. sema' \in SemaRange
      BY <1>a, <1>b, <3>1, <3>4, <3>5 DEF SemaRange
    <3>7. OpenCount' /\ SuspendedCount'
      BY <3>1, <3>3, <3>4, <3>5 DEF OpenCount, SuspendedCount
    <3> QED
      BY <1>b, <2>1, <2>2, <3>1, <3>5, <3>6, <3>7 DEF TypeOK, Accounting, RetiredIsClosed, NegativeHasCause
  <2>4. CASE sema # val[t]
    <3> USE <2>4
    <3>1. Holders' = Holders /\ Suspenders' = Suspenders
      BY DEF TypeOK, Holders, Suspenders
    <3>2. \A s \in Suspenders : val'[s] = val[s] /\ pc'[s] = pc[s]
      BY DEF TypeOK, Suspenders
    <3> QED
      BY <2>1, <2>2, <3>1, <3>2 DEF TypeOK, Accounting, OpenCount, SuspendedCount,
         RetiredIsClosed, NegativeHasCause
  <2> QED
    BY <2>3, <2>4
<1>3. CASE UnlockLoad(t)
  <2> USE <1>3 DEF UnlockLoad, Load, Goto
  <2>1. TypeOK'
    BY <1>b DEF TypeOK, PCs
  <2>2. Holders' = Holders /\ Suspenders' = Suspenders
    BY DEF TypeOK, Holders, Suspenders
  <2>3. \A s \in Suspenders : val'[s] = val[s] /\ pc'[s] = pc[s]
    BY DEF TypeOK, Suspenders
  <2>4. Accounting' /\ RetiredIsClosed' /\ NegativeHasCause'
    BY <2>2, <2>3 DEF Accounting, OpenCount, SuspendedCount, RetiredIsClosed,
       NegativeHasCause
  <2>5. PendingCAS'
    BY <1>b DEF TypeOK, PendingCAS
  <2> QED
    BY <2>1, <2>4, <2>5
<1>4. CASE UnlockCAS(t)
  <2> USE <1>4 DEF UnlockCAS, Goto
  <2>1. pc' \in [Threads -> PCs] /\ val' \in [Threads -> Int] /\ life' \in {"live", "retired"}
    BY DEF TypeOK, PCs
  <2>2. PendingCAS'
    BY DEF TypeOK, PendingCAS
  <2>3. CASE sema = val[t]
    <3> USE <2>3
    <3>1. sema' = sema - 1 /\ life' = life
      BY DEF TypeOK
    <3>2. t \in Holders /\ Holders' = Holders \ {t}
      BY DEF TypeOK, Holders
    <3>3. Suspenders' = Suspenders
      BY DEF TypeOK, Suspenders
    <3>4. \A s \in Suspenders : val'[s] = val[s] /\ pc'[s] = pc[s]
      BY DEF TypeOK, Suspenders
    <3>5. Cardinality(Holders') = Cardinality(Holders) - 1
      BY <3>2, HoldersRemove
    <3>6. life = "live"
      BY <3>2 DEF TypeOK, RetiredIsClosed
    <3>7. OpenCount'
      BY <1>a, <1>b, <3>1, <3>3, <3>5, <3>6 DEF Accounting, OpenCount
    <3>8. SuspendedCount'
      <4> SUFFICES ASSUME NEW s \in Suspenders
                   PROVE  /\ sema' < 0
                          /\ life' = "live"
                          /\ Suspenders' = {s}
                          /\ val'[s] \in 0 .. Cardinality(Threads)
                          /\ Cardinality(Holders') = val'[s] + 1 + sema'
                          /\ pc'[s] = "owner" => Holders' = {}
        BY <3>3 DEF SuspendedCount
      <4>1. val[s] \in Int
        BY DEF TypeOK, Suspenders
      <4> QED
        BY <1>a, <1>b, <3>1, <3>2, <3>3, <3>4, <3>5, <3>6, <4>1
           DEF Accounting, SuspendedCount
    <3>9. NegativeHasCause'
      <4>1. CASE sema >= 0
        <5>1. sema = Cardinality(Holders) /\ Cardinality(Holders) # 0
          BY <1>a, <3>2, <4>1 DEF Accounting, OpenCount
        <5> QED
          BY <1>a, <1>b, <3>1, <3>6, <5>1 DEF NegativeHasCause
      <4>2. CASE sema < 0
        BY <3>1, <3>3, <4>2 DEF NegativeHasCause
      <4> QED
        BY <1>b, <4>1, <4>2
    <3>10. sema' \in SemaRange
      <4>1. CASE sema >= 0
        BY <1>b, <3>1, <4>1 DEF SemaRange, TypeOK
      <4>2. CASE sema < 0
        <5>1. PICK s \in Suspenders : TRUE
          BY <3>6, <4>2 DEF NegativeHasCause
        <5>2. /\ val'[s] \in 0 .. Cardinality(Threads)
              /\ Cardinality(Holders') = val'[s] + 1 + sema'
          BY <3>3, <3>8, <5>1 DEF SuspendedCount
        <5> QED
          BY <1>a, <1>b, <3>1, <4>2, <5>2 DEF SemaRange
      <4> QED
        BY <1>b, <4>1, <4>2
    <3> QED
      BY <2>1, <2>2, <3>1, <3>6, <3>7, <3>8, <3>9, <3>10 DEF TypeOK, Accounting, RetiredIsClosed
  <2>4. CASE sema # val[t]
    <3> USE <2>4
    <3>1. Holders' = Holders /\ Suspenders' = Suspenders
      BY DEF TypeOK, Holders, Suspenders
    <3>2. \A s \in Suspenders : val'[s] = val[s] /\ pc'[s] = pc[s]
      BY DEF TypeOK, Suspenders
    <3> QED
      BY <2>1, <2>2, <3>1, <3>2 DEF TypeOK, Accounting, OpenCount, SuspendedCount,
         RetiredIsClosed, NegativeHasCause
  <2> QED
    BY <2>3, <2>4
<1>5. CASE SuspendLoad(t)
  <2> USE <1>5 DEF SuspendLoad, Load, Goto
  <2>1. TypeOK'
    BY <1>b DEF TypeOK, PCs
  <2>2. Holders' = Holders /\ Suspenders' = Suspenders
    BY DEF TypeOK, Holders, Suspenders
  <2>3. \A s \in Suspenders : val'[s] = val[s] /\ pc'[s] = pc[s]
    BY DEF TypeOK, Suspenders
  <2>4. Accounting' /\ RetiredIsClosed' /\ NegativeHasCause'
    BY <2>2, <2>3 DEF Accounting, OpenCount, SuspendedCount, RetiredIsClosed,
       NegativeHasCause
  <2>5. PendingCAS'
    BY <1>b DEF TypeOK, PendingCAS
  <2> QED
    BY <2>1, <2>4, <2>5
<1>6. CASE SuspendCAS(t)
  <2> USE <1>6 DEF SuspendCAS, Goto
  <2>1. pc' \in [Threads -> PCs] /\ val' \in [Threads -> Int] /\ life' \in {"live", "retired"}
    BY DEF TypeOK, PCs
  <2>2. PendingCAS'
    BY DEF TypeOK, PendingCAS
  <2>3. Holders' = Holders
    BY DEF TypeOK, Holders
  <2>4. CASE sema = val[t]
    <3> USE <2>4
    <3>1. sema >= 0 /\ sema' = -1 /\ val' = val /\ life' = life
      BY DEF TypeOK, PendingCAS
    <3>2. Suspenders = {} /\ sema = Cardinality(Holders) /\ life = "live"
      BY <3>1 DEF Accounting, OpenCount
    <3>3. Suspenders' = {t}
      BY <3>2 DEF TypeOK, Suspenders
    <3>4. pc'[t] = "owner" => Holders = {}
      BY <1>a, <3>2 DEF TypeOK
    <3>5. sema' \in SemaRange
      BY <1>b, <3>1 DEF SemaRange
    <3>6. SuspendedCount'
      <4>1. val[t] = Cardinality(Holders) /\ val[t] \in 0 .. Cardinality(Threads)
        BY <1>a, <3>2
      <4>2. Cardinality(Holders') = val'[t] + 1 + sema'
        BY <1>b, <2>3, <3>1, <4>1
      <4> QED
        BY <2>3, <3>1, <3>2, <3>3, <3>4, <4>1, <4>2 DEF SuspendedCount
    <3> QED
      BY <1>a, <2>1, <2>2, <3>1, <3>2, <3>3, <3>5, <3>6 DEF TypeOK, Accounting, OpenCount,
         RetiredIsClosed, NegativeHasCause
  <2>5. CASE sema # val[t]
    <3> USE <2>5
    <3>1. Suspenders' = Suspenders
      BY DEF TypeOK, Suspenders
    <3>2. \A s \in Suspenders : val'[s] = val[s] /\ pc'[s] = pc[s]
      BY DEF TypeOK, Suspenders
    <3> QED
      BY <2>1, <2>2, <2>3, <3>1, <3>2 DEF TypeOK, Accounting, OpenCount, SuspendedCount,
         RetiredIsClosed, NegativeHasCause
  <2> QED
    BY <2>4, <2>5
<1>7. CASE SuspendWait(t)
  <2> USE <1>7 DEF SuspendWait, Goto
  <2>1. TypeOK' /\ PendingCAS'
    BY DEF TypeOK, PCs, PendingCAS
  <2>2. Holders' = Holders /\ Suspenders' = Suspenders /\ t \in Suspenders
    BY DEF TypeOK, Holders, Suspenders
  <2>3. Suspenders = {t} /\ Cardinality(Holders) = val[t] + 1 + sema
    BY <2>2 DEF Accounting, SuspendedCount
  <2>4. Holders = {}
    BY <1>a, <1>b, <2>3
  <2> QED
    BY <2>1, <2>2, <2>3, <2>4 DEF Accounting, OpenCount, SuspendedCount,
       RetiredIsClosed, NegativeHasCause
<1>8. CASE Reopen(t)
  <2> USE <1>8 DEF Reopen, Goto
  <2>1. TypeOK' /\ PendingCAS'
    BY <1>b DEF TypeOK, SemaRange, PCs, PendingCAS
  <2>2. t \in Suspenders /\ Suspenders = {t} /\ Holders = {} /\ life = "live"
    BY DEF Suspenders, Accounting, SuspendedCount
  <2>3. Holders' = {} /\ Suspenders' = {}
    BY <2>2 DEF TypeOK, Holders, Suspenders
  <2>4. Cardinality(Holders') = 0
    BY <2>3, FS_EmptySet
  <2> QED
    BY <2>1, <2>2, <2>3, <2>4 DEF Accounting, OpenCount, SuspendedCount,
       RetiredIsClosed, NegativeHasCause
<1>9. CASE Retire(t)
  <2> USE <1>9 DEF Retire, Goto
  <2>1. TypeOK' /\ PendingCAS'
    BY DEF TypeOK, PCs, PendingCAS
  <2>2. t \in Suspenders /\ Suspenders = {t} /\ Holders = {} /\ sema < 0
    BY DEF Suspenders, Accounting, SuspendedCount
  <2>3. Holders' = {} /\ Suspenders' = {}
    BY <2>2 DEF TypeOK, Holders, Suspenders
  <2> QED
    BY <2>1, <2>2, <2>3 DEF TypeOK, Accounting, OpenCount, SuspendedCount,
       RetiredIsClosed, NegativeHasCause
<1> QED
  BY <1>1, <1>2, <1>3, <1>4, <1>5, <1>6, <1>7, <1>8, <1>9 DEF Step, Unlock

\* Inv is an invariant of the load/CAS loops, for any number of threads.
THEOREM Invariance == Spec => []Inv
<1>1. ASSUME Inv, [Next]_vars PROVE Inv'
  <2>1. CASE Next
    BY <1>1, <2>1, StepInv DEF Next
  <2>2. CASE UNCHANGED vars
    BY <1>1, <2>2 DEF vars, Inv, TypeOK, Accounting, OpenCount, SuspendedCount,
       RetiredIsClosed, PendingCAS, NegativeHasCause, Holders, Suspenders
  <2> QED
    BY <1>1, <2>1, <2>2
<1> QED
  BY <1>1, InitInv, PTL DEF Spec

\* The counter of a segment never leaves the range of one step per thread.
THEOREM TypeCorrect == Spec => []TypeOK
BY Invariance, PTL DEF Inv

\* Whatever the interleaving of the load/CAS loops, the thread that suspend()
\* returned true to is alone with the slots Split copies.
THEOREM SuspenderAlone == Spec => []SplitExclusive
<1>1. Inv => SplitExclusive
  BY DEF Inv, Accounting, SuspendedCount, SplitExclusive, Suspenders
<1> QED
  BY <1>1, Invariance, PTL

\* A segment replaced by a copy-on-write split stays closed and empty.
THEOREM RetiredClosed == Spec => []RetiredIsClosed
BY Invariance, PTL DEF Inv

-----------------------------------------------------------------------------
(* Refinement of the Gate.                                                  *)

\* What the mapped state of the gate is, by the sign of the counter.
LEMMA GateStateCases ==
  Inv => /\ life = "retired" => gateState = "retired"
         /\ life = "live" /\ sema >= 0 => gateState = "open"
         /\ \A s \in Threads : pc[s] = "owner" => gateState = "exclusive"
         /\ \A s \in Threads : pc[s] = "wait" => gateState = "draining"
<1> SUFFICES ASSUME Inv
             PROVE  /\ life = "retired" => gateState = "retired"
                    /\ life = "live" /\ sema >= 0 => gateState = "open"
                    /\ \A s \in Threads : pc[s] = "owner" => gateState = "exclusive"
                    /\ \A s \in Threads : pc[s] = "wait" => gateState = "draining"
  OBVIOUS
<1>1. sema \in Int /\ life \in {"live", "retired"}
  BY ThreadsCount DEF Inv, TypeOK, SemaRange
<1>2. life = "retired" => gateState = "retired"
  BY <1>1 DEF gateState
<1>3. life = "live" /\ sema >= 0 => gateState = "open"
  BY <1>1 DEF gateState
<1>4. ASSUME NEW s \in Threads, pc[s] = "owner" PROVE gateState = "exclusive"
  <2>1. s \in Suspenders /\ sema < 0 /\ life = "live"
    BY <1>4 DEF Inv, Accounting, SuspendedCount, Suspenders
  <2> QED
    BY <1>1, <1>4, <2>1 DEF gateState
<1>5. ASSUME NEW s \in Threads, pc[s] = "wait" PROVE gateState = "draining"
  <2>1. s \in Suspenders /\ sema < 0 /\ life = "live" /\ Suspenders = {s}
    BY <1>5 DEF Inv, Accounting, SuspendedCount, Suspenders
  <2>2. \A u \in Threads : pc[u] # "owner"
    BY <1>5, <2>1 DEF Suspenders
  <2> QED
    BY <1>1, <2>1, <2>2 DEF gateState
<1> QED
  BY <1>2, <1>3, <1>4, <1>5

\* A step that moves no thread into or out of the pair lock/unlock or the
\* suspended region, and keeps the counter, is invisible at the gate.
LEMMA InvisibleStep ==
  ASSUME TypeOK, NEW t \in Threads, NEW p,
         pc' = [pc EXCEPT ![t] = p], sema' = sema, life' = life,
         \/ pc[t] \in {"held", "unlock", "unlock_cas"} /\ p \in {"held", "unlock", "unlock_cas"}
         \/ /\ pc[t] \notin {"held", "unlock", "unlock_cas", "wait", "owner"}
            /\ p \notin {"held", "unlock", "unlock_cas", "wait", "owner"}
  PROVE  UNCHANGED AbstractGate!gvars
<1>1. Holders' = Holders /\ Suspenders' = Suspenders
  BY DEF TypeOK, Holders, Suspenders
<1>2. (\E s \in Threads : pc'[s] = "owner") <=> (\E s \in Threads : pc[s] = "owner")
  BY DEF TypeOK
<1>3. gateState' = gateState
  BY <1>2 DEF gateState
<1> QED
  BY <1>1, <1>3 DEF AbstractGate!gvars

\* Every step of a thread is a step of the gate or invisible there.
LEMMA StepRefines ==
  ASSUME Inv, Inv', NEW t \in Threads, Step(t)
  PROVE  [AbstractGate!Next]_(AbstractGate!gvars)
<1> USE DEF Goto
<1>a. TypeOK /\ sema \in Int /\ val[t] \in Int
  BY ThreadsCount DEF Inv, TypeOK, SemaRange
<1>b. /\ life = "retired" => gateState = "retired"
      /\ life = "live" /\ sema >= 0 => gateState = "open"
      /\ \A s \in Threads : pc[s] = "owner" => gateState = "exclusive"
      /\ \A s \in Threads : pc[s] = "wait" => gateState = "draining"
  BY GateStateCases
<1>c. /\ life' = "retired" => gateState' = "retired"
      /\ life' = "live" /\ sema' >= 0 => gateState' = "open"
      /\ \A s \in Threads : pc'[s] = "owner" => gateState' = "exclusive"
      /\ \A s \in Threads : pc'[s] = "wait" => gateState' = "draining"
  <2>1. (Inv => /\ life = "retired" => gateState = "retired"
                /\ life = "live" /\ sema >= 0 => gateState = "open"
                /\ \A s \in Threads : pc[s] = "owner" => gateState = "exclusive"
                /\ \A s \in Threads : pc[s] = "wait" => gateState = "draining")'
    BY GateStateCases, PTL
  <2> QED
    BY <2>1
<1>1. CASE LockLoad(t)
  BY <1>1, <1>a, InvisibleStep DEF LockLoad, Load
<1>2. CASE LockCAS(t)
  <2>1. CASE sema = val[t]
    <3>1. sema >= 0 /\ sema' >= 0 /\ life = "live" /\ life' = "live"
      BY <1>2, <1>a, <2>1 DEF LockCAS, Inv, PendingCAS, Accounting, OpenCount
    <3>2. t \notin Holders /\ Holders' = Holders \cup {t} /\ Suspenders' = Suspenders
      BY <1>2, <1>a, <2>1 DEF LockCAS, TypeOK, Holders, Suspenders
    <3>3. AbstractGate!Enter(t)
      BY <1>b, <1>c, <3>1, <3>2 DEF AbstractGate!Enter
    <3> QED
      BY <3>3 DEF AbstractGate!Next
  <2>2. CASE sema # val[t]
    BY <1>2, <1>a, <2>2, InvisibleStep DEF LockCAS
  <2> QED
    BY <2>1, <2>2
<1>3. CASE UnlockLoad(t)
  BY <1>3, <1>a, InvisibleStep DEF UnlockLoad, Load
<1>4. CASE UnlockCAS(t)
  <2>1. CASE sema = val[t]
    <3>1. t \in Holders /\ Holders' = Holders \ {t} /\ Suspenders' = Suspenders
      BY <1>4, <1>a, <2>1 DEF UnlockCAS, TypeOK, Holders, Suspenders
    <3>2. life = "live" /\ life' = "live" /\ sema' = sema - 1
      BY <1>4, <1>a, <2>1, <3>1 DEF UnlockCAS, Inv, TypeOK, RetiredIsClosed
    <3>3. gateState' = gateState
      <4>1. CASE sema >= 0
        <5>1. sema = Cardinality(Holders) /\ Cardinality(Holders) # 0
          BY <3>1, <4>1, HoldersCount DEF Inv, Accounting, OpenCount
        <5>2. sema' >= 0
          BY <1>a, <3>2, <4>1, <5>1
        <5> QED
          BY <1>b, <1>c, <3>2, <4>1, <5>2
      <4>2. CASE sema < 0
        <5>1. PICK s \in Suspenders : TRUE
          BY <3>2, <4>2 DEF Inv, NegativeHasCause
        <5>2. s \in Threads /\ pc[s] = "wait"
          BY <3>1, <5>1 DEF Inv, Accounting, SuspendedCount, Suspenders
        <5>3. pc'[s] = "wait"
          BY <1>4, <1>a, <2>1, <5>2 DEF UnlockCAS, TypeOK
        <5> QED
          BY <1>b, <1>c, <5>2, <5>3
      <4> QED
        BY <1>a, <4>1, <4>2
    <3>4. AbstractGate!Leave(t)
      BY <3>1, <3>3 DEF AbstractGate!Leave
    <3> QED
      BY <3>4 DEF AbstractGate!Next
  <2>2. CASE sema # val[t]
    BY <1>4, <1>a, <2>2, InvisibleStep DEF UnlockCAS
  <2> QED
    BY <2>1, <2>2
<1>5. CASE SuspendLoad(t)
  BY <1>5, <1>a, InvisibleStep DEF SuspendLoad, Load
<1>6. CASE SuspendCAS(t)
  <2>1. CASE sema = val[t]
    <3>1. /\ sema >= 0 /\ life = "live" /\ Suspenders = {}
          /\ sema = Cardinality(Holders)
      BY <1>6, <1>a, <2>1 DEF SuspendCAS, Inv, PendingCAS, Accounting, OpenCount
    <3>2. t \notin Holders /\ Holders' = Holders /\ Suspenders' = {t}
      BY <1>6, <1>a, <2>1, <3>1 DEF SuspendCAS, TypeOK, Holders, Suspenders
    <3>3. gateState' = IF Holders = {} THEN "exclusive" ELSE "draining"
      <4>1. Holders = {} <=> val[t] = 0
        BY <2>1, <3>1, HoldersCount
      <4>2. pc'[t] = IF val[t] = 0 THEN "owner" ELSE "wait"
        BY <1>6, <1>a, <2>1 DEF SuspendCAS, TypeOK
      <4> QED
        BY <1>c, <4>1, <4>2
    <3>4. AbstractGate!Close(t)
      BY <1>b, <3>1, <3>2, <3>3 DEF AbstractGate!Close
    <3> QED
      BY <3>4 DEF AbstractGate!Next
  <2>2. CASE sema # val[t]
    BY <1>6, <1>a, <2>2, InvisibleStep DEF SuspendCAS
  <2> QED
    BY <2>1, <2>2
<1>7. CASE SuspendWait(t)
  <2>1. /\ Holders' = Holders /\ Suspenders' = Suspenders
        /\ t \in Suspenders /\ pc[t] = "wait" /\ pc'[t] = "owner"
    BY <1>7, <1>a DEF SuspendWait, TypeOK, Holders, Suspenders
  <2>2. Suspenders = {t} /\ Holders' = {}
    BY <2>1 DEF Inv, Accounting, SuspendedCount
  <2>3. AbstractGate!Drained(t)
    BY <1>b, <1>c, <2>1, <2>2 DEF AbstractGate!Drained
  <2> QED
    BY <2>3 DEF AbstractGate!Next
<1>8. CASE Reopen(t)
  <2>1. Suspenders = {t} /\ Holders = {} /\ life = "live" /\ pc[t] = "owner"
    BY <1>8 DEF Reopen, Inv, Accounting, SuspendedCount, Suspenders
  <2>2. Suspenders' = {} /\ Holders' = Holders /\ life' = "live" /\ sema' >= 0
    BY <1>8, <1>a, <2>1 DEF Reopen, TypeOK, Holders, Suspenders
  <2>3. AbstractGate!Open(t)
    BY <1>b, <1>c, <2>1, <2>2 DEF AbstractGate!Open
  <2> QED
    BY <2>3 DEF AbstractGate!Next
<1>9. CASE Retire(t)
  <2>1. Suspenders = {t} /\ Holders = {} /\ pc[t] = "owner"
    BY <1>9 DEF Retire, Inv, Accounting, SuspendedCount, Suspenders
  <2>2. Suspenders' = {} /\ Holders' = Holders /\ life' = "retired"
    BY <1>9, <1>a, <2>1 DEF Retire, TypeOK, Holders, Suspenders
  <2>3. AbstractGate!Retire(t)
    BY <1>b, <1>c, <2>1, <2>2 DEF AbstractGate!Retire
  <2> QED
    BY <2>3 DEF AbstractGate!Next
<1> QED
  BY <1>1, <1>2, <1>3, <1>4, <1>5, <1>6, <1>7, <1>8, <1>9 DEF Step, Unlock

\* The counter and its CAS loops implement the gate: threads enter only while
\* it is open and the closer is alone until it reopens or retires it.
THEOREM GateRefinement == Spec => ImplementsGate
<1>1. Init => AbstractGate!Init
  <2> SUFFICES ASSUME Init PROVE AbstractGate!Init
    OBVIOUS
  <2>1. Holders = {} /\ Suspenders = {}
    BY DEF Init, Holders, Suspenders
  <2>2. gateState = "open"
    BY InitInv, GateStateCases DEF Init
  <2> QED
    BY <2>1, <2>2 DEF AbstractGate!Init
<1>2. ASSUME Inv, Inv', [Next]_vars PROVE [AbstractGate!Next]_(AbstractGate!gvars)
  <2>1. CASE Next
    BY <1>2, <2>1, StepRefines DEF Next
  <2>2. CASE UNCHANGED vars
    BY <2>2 DEF vars, AbstractGate!gvars, Holders, Suspenders, gateState
  <2> QED
    BY <1>2, <2>1, <2>2
<1> QED
  BY <1>1, <1>2, Invariance, PTL DEF Spec, ImplementsGate, AbstractGate!Spec

=============================================================================
