---------------------------- MODULE HarnessProofs ----------------------------
(***************************************************************************)
(* Proofs about Harness for any number of workers, operations, any batch   *)
(* size and anything the dead locals of the helpers may hold.  The         *)
(* argument: a batch is taken by one atomic addition, so the batches of    *)
(* active workers are disjoint intervals below `progress', and a worker's  *)
(* pending operations are a suffix of its own interval.                    *)
(***************************************************************************)
EXTENDS Harness, TLAPS, FiniteSetTheorems

\* The unsigned arithmetic of the helpers stays in the word.
LEMMA WordRange == \A a \in Int : a % Modulus \in 0 .. Modulus - 1
  BY HarnessAssumption

\* The state before the threads are started satisfies the invariant.
LEMMA InitInv == Init => Inv
<1> SUFFICES ASSUME Init PROVE Inv
  OBVIOUS
<1> USE HarnessAssumption DEF Init
<1>1. TypeOK
  BY DEF TypeOK, Workers, Indices
<1>2. WorkerRanges /\ BatchesDisjoint
  BY DEF WorkerRanges, BatchesDisjoint, Active
<1>3. BatchesPartition
  BY DEF BatchesPartition, Pending, Indices
<1>4. Lifecycle /\ TouchInRange
  BY DEF Lifecycle, TouchInRange
<1> QED
  BY <1>1, <1>2, <1>3, <1>4 DEF Inv

-----------------------------------------------------------------------------
(* Steps of a worker                                                        *)

\* Taking a batch: it starts where all earlier ones end.
LEMMA FetchInv == ASSUME NEW w \in Workers, Inv, Fetch(w) PROVE Inv'
<1> USE HarnessAssumption DEF Inv, Fetch, mainVars, helperVars
<1>1. TypeOK'
  BY DEF TypeOK, MinOf
<1>2. WorkerRanges'
  BY DEF WorkerRanges, TypeOK, Active, MinOf
<1>3. BatchesDisjoint'
  BY DEF BatchesDisjoint, WorkerRanges, TypeOK, Active
<1>4. BatchesPartition'
  <2> SUFFICES ASSUME NEW n \in Indices
               PROVE  /\ count'[n] = IF n < progress' /\ \A v \in Workers : n \notin Pending(v)'
                                     THEN 1 ELSE 0
                      /\ \A u, v \in Workers : n \in Pending(u)' /\ n \in Pending(v)' => u = v
    BY DEF BatchesPartition
  <2>1. \A v \in Workers : v # w => Pending(v)' = Pending(v)
    BY DEF Pending, TypeOK
  <2>2. Pending(w) = {}
    BY DEF Pending
  <2>3. n \in Pending(w)' <=> progress <= n /\ n < progress + Batch
    BY DEF Pending, TypeOK, MinOf, Indices
  <2>4. ASSUME NEW v \in Workers, n \in Pending(v) PROVE n < progress
    <3>1. /\ n \in Int /\ progress \in Int /\ Batch \in Int
          /\ start_idx[v] \in Int /\ end_idx[v] \in Int /\ i[v] \in Int
      BY DEF TypeOK, Indices
    <3>2. Active(v) /\ n \in Int /\ n <= end_idx[v] - 1
      BY <2>4, <3>1 DEF Pending, Active
    <3>3. end_idx[v] <= start_idx[v] + Batch /\ start_idx[v] + Batch <= progress
      BY <3>1, <3>2 DEF WorkerRanges, MinOf
    <3> QED
      BY <3>1, <3>2, <3>3
  <2>5. count'[n] = count[n] /\ progress' = progress + Batch
    OBVIOUS
  <2>6. progress \in Nat /\ n \in Nat
    BY DEF TypeOK, Indices
  <2>7. CASE n < progress
    <3>1. \A v \in Workers : n \in Pending(v)' <=> n \in Pending(v)
      BY <2>1, <2>2, <2>3, <2>6, <2>7
    <3> QED
      BY <3>1, <2>5, <2>6, <2>7 DEF BatchesPartition
  <2>8. CASE n >= progress
    <3>1. \A v \in Workers : v # w => n \notin Pending(v)'
      BY <2>1, <2>4, <2>6, <2>8
    <3>2. count[n] = 0
      BY <2>6, <2>8 DEF BatchesPartition
    <3> QED
      BY <3>1, <3>2, <2>3, <2>5, <2>6, <2>8
  <2> QED
    BY <2>6, <2>7, <2>8
<1>5. Lifecycle'
  BY DEF Lifecycle, TypeOK
<1>6. TouchInRange'
  BY DEF TouchInRange
<1> QED
  BY <1>1, <1>2, <1>3, <1>4, <1>5, <1>6

\* Starting the loop over a batch.
LEMMA BeginInv == ASSUME NEW w \in Workers, Inv, Begin(w) PROVE Inv'
<1> USE HarnessAssumption DEF Inv, Begin, mainVars, helperVars
<1>1. TypeOK'
  BY DEF TypeOK, WorkerRanges, Active
<1>2. WorkerRanges'
  BY DEF WorkerRanges, TypeOK, Active, MinOf
<1>3. BatchesDisjoint'
  BY DEF BatchesDisjoint, TypeOK, Active
<1>4. BatchesPartition'
  <2>1. \A v \in Workers : Pending(v)' = Pending(v)
    BY DEF Pending, TypeOK
  <2> QED
    BY <2>1 DEF BatchesPartition
<1>5. Lifecycle'
  BY DEF Lifecycle, TypeOK
<1>6. TouchInRange'
  BY DEF TouchInRange
<1> QED
  BY <1>1, <1>2, <1>3, <1>4, <1>5, <1>6

\* Performing an operation takes it out of what is pending, and only it.
LEMMA OperateInv == ASSUME NEW w \in Workers, Inv, Operate(w) PROVE Inv'
<1> USE HarnessAssumption DEF Inv, mainVars, helperVars
<1>0. /\ wpc[w] = "loop" /\ i[w] < end_idx[w]
      /\ wpc' = [wpc EXCEPT ![w] = "advance"]
      /\ count' = [count EXCEPT ![i[w]] = @ + 1]
      /\ UNCHANGED <<mainVars, helperVars, progress, start_idx, end_idx, i, curr>>
  BY DEF Operate
<1>1. TypeOK'
  <2>1. count' \in [Indices -> Nat]
    BY <1>0 DEF TypeOK, Indices
  <2> QED
    BY <1>0, <2>1 DEF TypeOK
<1>2. WorkerRanges'
  BY <1>0 DEF WorkerRanges, TypeOK, Active
<1>3. BatchesDisjoint'
  BY <1>0 DEF BatchesDisjoint, TypeOK, Active
<1>4. BatchesPartition'
  <2> SUFFICES ASSUME NEW n \in Indices
               PROVE  /\ count'[n] = IF n < progress' /\ \A v \in Workers : n \notin Pending(v)'
                                     THEN 1 ELSE 0
                      /\ \A u, v \in Workers : n \in Pending(u)' /\ n \in Pending(v)' => u = v
    BY DEF BatchesPartition
  <2>1. \A v \in Workers : v # w => Pending(v)' = Pending(v)
    BY <1>0 DEF Pending, TypeOK
  <2>2. n \in Pending(w)' <=> n \in Pending(w) /\ n # i[w]
    <3>1. Pending(w) = i[w] .. end_idx[w] - 1
      BY <1>0 DEF Pending
    <3>2. Pending(w)' = i[w] + 1 .. end_idx[w] - 1
      BY <1>0 DEF Pending, TypeOK
    <3>3. i[w] \in Int /\ end_idx[w] \in Int /\ n \in Int
      BY DEF TypeOK, Indices
    <3> QED
      BY <3>1, <3>2, <3>3
  <2>3. i[w] \in Pending(w) /\ i[w] < progress
    BY <1>0 DEF Pending, WorkerRanges, TypeOK, Active, MinOf
  <2>4. count \in [Indices -> Nat] /\ progress' = progress
    BY <1>0 DEF TypeOK
  <2>5. CASE n = i[w]
    <3>1. \A v \in Workers : n \notin Pending(v)'
      BY <2>1, <2>2, <2>3, <2>5 DEF BatchesPartition
    <3>2. count[n] = 0
      BY <2>3, <2>5 DEF BatchesPartition
    <3> QED
      BY <1>0, <3>1, <3>2, <2>3, <2>4, <2>5
  <2>6. CASE n # i[w]
    <3>1. \A v \in Workers : n \in Pending(v)' <=> n \in Pending(v)
      BY <2>1, <2>2, <2>6
    <3>2. count'[n] = count[n]
      BY <1>0, <2>4, <2>6
    <3> QED
      BY <3>1, <3>2, <2>4 DEF BatchesPartition
  <2> QED
    BY <2>5, <2>6
<1>5. Lifecycle'
  BY <1>0 DEF Lifecycle, TypeOK
<1>6. TouchInRange'
  BY <1>0 DEF TouchInRange
<1> QED
  BY <1>1, <1>2, <1>3, <1>4, <1>5, <1>6

\* Moving to the next operation changes nothing that is pending.
LEMMA AdvanceInv == ASSUME NEW w \in Workers, Inv, Advance(w) PROVE Inv'
<1> USE HarnessAssumption DEF Inv, Advance, mainVars, helperVars
<1>1. TypeOK'
  BY DEF TypeOK, WorkerRanges, Active
<1>2. WorkerRanges'
  BY DEF WorkerRanges, TypeOK, Active
<1>3. BatchesDisjoint'
  BY DEF BatchesDisjoint, TypeOK, Active
<1>4. BatchesPartition'
  <2>1. \A v \in Workers : Pending(v)' = Pending(v)
    BY DEF Pending, TypeOK
  <2> QED
    BY <2>1 DEF BatchesPartition
<1>5. Lifecycle'
  BY DEF Lifecycle, TypeOK
<1>6. TouchInRange'
  BY DEF TouchInRange
<1> QED
  BY <1>1, <1>2, <1>3, <1>4, <1>5, <1>6

\* A finished batch has nothing pending.
LEMMA EndBatchInv == ASSUME NEW w \in Workers, Inv, EndBatch(w) PROVE Inv'
<1> USE HarnessAssumption DEF Inv, EndBatch, mainVars, helperVars
<1>1. TypeOK'
  BY DEF TypeOK
<1>2. WorkerRanges'
  BY DEF WorkerRanges, TypeOK, Active
<1>3. BatchesDisjoint'
  BY DEF BatchesDisjoint, TypeOK, Active
<1>4. BatchesPartition'
  <2>1. \A v \in Workers : Pending(v)' = Pending(v)
    BY DEF Pending, TypeOK
  <2> QED
    BY <2>1 DEF BatchesPartition
<1>5. Lifecycle'
  BY DEF Lifecycle, TypeOK
<1>6. TouchInRange'
  BY DEF TouchInRange
<1> QED
  BY <1>1, <1>2, <1>3, <1>4, <1>5, <1>6

\* Reporting the counters of a worker that found no batch.
LEMMA FlushInv == ASSUME NEW w \in Workers, Inv, Flush(w) PROVE Inv'
<1> USE HarnessAssumption DEF Inv, Flush, mainVars, helperVars
<1>1. TypeOK'
  BY DEF TypeOK
<1>2. WorkerRanges'
  BY DEF WorkerRanges, TypeOK, Active
<1>3. BatchesDisjoint'
  BY DEF BatchesDisjoint, TypeOK, Active
<1>4. BatchesPartition'
  <2>1. \A v \in Workers : Pending(v)' = Pending(v)
    BY DEF Pending, TypeOK
  <2> QED
    BY <2>1 DEF BatchesPartition
<1>5. Lifecycle'
  BY DEF Lifecycle, TypeOK
<1>6. TouchInRange'
  BY DEF TouchInRange
<1> QED
  BY <1>1, <1>2, <1>3, <1>4, <1>5, <1>6

-----------------------------------------------------------------------------
(* Steps of a helper and of the main thread                                 *)

\* What is said of workers and batches depends on the workers' variables only.
LEMMA WorkerFrame ==
  ASSUME WorkerRanges, BatchesDisjoint, BatchesPartition, UNCHANGED workerVars
  PROVE  WorkerRanges' /\ BatchesDisjoint' /\ BatchesPartition'
<1> USE DEF workerVars
<1>1. \A w \in Workers : Pending(w)' = Pending(w)
  BY DEF Pending
<1> QED
  BY <1>1 DEF WorkerRanges, BatchesDisjoint, BatchesPartition, Active

\* A helper's step.
LEMMA HelperInv == ASSUME NEW h \in Workers, Inv, HelperStep(h) PROVE Inv'
<1> USE HarnessAssumption DEF Inv
<1>1. UNCHANGED <<mainVars, workerVars>>
  BY DEF HelperStep, HelperStart, HelperCopy, HelperDecide, HelperTouch
<1>2. WorkerRanges' /\ BatchesDisjoint' /\ BatchesPartition'
  BY <1>1, WorkerFrame
<1>3. TypeOK' /\ Lifecycle' /\ TouchInRange'
  <2> USE DEF mainVars, workerVars
  <2>1. CASE HelperStart(h)
    <3>1. /\ hpc[h] = "start"
          /\ \E id \in Nat : /\ t_id' = [t_id EXCEPT ![h] = id]
                             /\ hpc' = [hpc EXCEPT ![h] = IF id + 1 > W THEN "done" ELSE "copy"]
          /\ thread_id' \in Nat
          /\ copy' = copy
          /\ \E any \in 0 .. Modulus - 1 : progerss' = [progerss EXCEPT ![h] = any]
      <4>1. (IF InBlock THEN {thread_id} ELSE StaleIds) \subseteq Nat
        BY DEF TypeOK
      <4>2. thread_id' \in Nat
        BY <2>1 DEF HelperStart, TypeOK
      <4> QED
        BY <2>1, <4>1, <4>2 DEF HelperStart
    <3>2. TypeOK'
      BY <1>1, <3>1 DEF TypeOK
    <3>3. Lifecycle'
      <4>1. hpc'[h] \in {"copy", "decide", "touch"} => t_id'[h] \in Workers
        BY <3>1 DEF TypeOK, Workers
      <4>2. \A g \in Workers : g # h => hpc'[g] = hpc[g] /\ t_id'[g] = t_id[g]
        BY <3>1 DEF TypeOK
      <4>3. main' = main /\ wpc' = wpc /\ spawned' = spawned
        BY <1>1
      <4>4. main # "freed" /\ HelperMod
        BY <3>1 DEF Lifecycle
      <4> QED
        BY <4>1, <4>2, <4>3, <4>4 DEF Lifecycle
    <3>4. TouchInRange'
      BY <1>1, <3>1 DEF TouchInRange, TypeOK
    <3> QED
      BY <3>2, <3>3, <3>4
  <2>2. CASE HelperCopy(h)
    <3> USE <2>2 DEF HelperCopy
    <3>1. TypeOK'
      BY <1>1 DEF TypeOK, Lifecycle
    <3>2. Lifecycle'
      BY <1>1 DEF Lifecycle, TypeOK
    <3>3. TouchInRange'
      BY <1>1 DEF TouchInRange, TypeOK
    <3> QED
      BY <3>1, <3>2, <3>3
  <2>3. CASE HelperDecide(h)
    <3>1. /\ hpc[h] = "decide"
          /\ UNCHANGED <<thread_id, t_id, copy>>
          /\ \/ hpc' = [hpc EXCEPT ![h] = "done"] /\ progerss' = progerss
             \/ /\ hpc' = [hpc EXCEPT ![h] = "copy"]
                /\ \E n \in Nat : progerss' = [progerss EXCEPT ![h] = (copy[h] + n) % Modulus]
             \/ /\ hpc' = [hpc EXCEPT ![h] = IF progerss[h] >= N THEN "copy" ELSE "touch"]
                /\ progerss' = progerss
      BY <2>3 DEF HelperDecide, Threshold, PastEnd
    <3>2. progerss' \in [Workers -> 0 .. Modulus - 1]
      <4>1. \A n \in Nat : (copy[h] + n) % Modulus \in 0 .. Modulus - 1
        BY WordRange DEF TypeOK
      <4> QED
        BY <3>1, <4>1 DEF TypeOK
    <3>3. TypeOK'
      BY <1>1, <3>1, <3>2 DEF TypeOK
    <3>4. Lifecycle'
      BY <1>1, <3>1 DEF Lifecycle, TypeOK
    <3>5. TouchInRange'
      <4>1. \A g \in Workers : g # h => hpc'[g] = hpc[g] /\ progerss'[g] = progerss[g]
        BY <3>1 DEF TypeOK
      <4>2. hpc'[h] = "touch" => progerss'[h] = progerss[h] /\ progerss[h] < N
        BY <3>1 DEF TypeOK
      <4>3. progerss[h] \in Nat
        BY DEF TypeOK
      <4>4. hpc'[h] = "touch" => progerss'[h] \in Indices
        BY <4>2, <4>3 DEF Indices
      <4> QED
        BY <4>1, <4>4 DEF TouchInRange
    <3> QED
      BY <3>3, <3>4, <3>5
  <2>4. CASE HelperTouch(h)
    <3> USE <2>4 DEF HelperTouch
    <3>1. (progerss[h] + 1) % Modulus \in 0 .. Modulus - 1
      BY WordRange DEF TypeOK
    <3>2. TypeOK'
      BY <1>1, <3>1 DEF TypeOK
    <3>3. Lifecycle'
      BY <1>1 DEF Lifecycle, TypeOK
    <3>4. TouchInRange'
      BY <1>1 DEF TouchInRange, TypeOK
    <3> QED
      BY <3>2, <3>3, <3>4
  <2> QED
    BY <2>1, <2>2, <2>3, <2>4 DEF HelperStep
<1> QED
  BY <1>2, <1>3

\* A step of the main thread.
LEMMA MainInv == ASSUME Inv, MainStep PROVE Inv'
<1> USE HarnessAssumption DEF Inv
<1>1. CASE SpawnHelper
  <2> USE <1>1 DEF SpawnHelper
  <2>1. WorkerRanges' /\ BatchesDisjoint' /\ BatchesPartition'
    BY WorkerFrame
  <2>2. TypeOK'
    <3>1. spawned' \in 0 .. W
      BY DEF TypeOK
    <3> QED
      BY <3>1 DEF TypeOK, workerVars
  <2>3. Lifecycle'
    BY DEF Lifecycle, TypeOK, workerVars
  <2>4. TouchInRange'
    BY DEF TouchInRange, TypeOK
  <2> QED
    BY <2>1, <2>2, <2>3, <2>4
<1>2. CASE SpawnWorker
  <2> USE <1>2 DEF SpawnWorker, helperVars
  <2>1. spawned' \in 0 .. W /\ spawned \in Workers /\ wpc[spawned] = "none"
    <3>1. spawned \in 0 .. W /\ spawned < W
      BY DEF TypeOK
    <3> QED
      BY <3>1 DEF Lifecycle, Workers
  <2>2. wpc' = [wpc EXCEPT ![spawned] = "fetch"] /\ wpc'[spawned] = "fetch"
    BY <2>1 DEF TypeOK
  <2>3. TypeOK'
    BY <2>1 DEF TypeOK
  <2>4. WorkerRanges'
    BY DEF WorkerRanges, TypeOK, Active
  <2>5. BatchesDisjoint'
    BY DEF BatchesDisjoint, TypeOK, Active
  <2>6. BatchesPartition'
    <3>1. \A v \in Workers : Pending(v)' = Pending(v)
      BY <2>1, <2>2 DEF Pending, TypeOK
    <3> QED
      BY <3>1 DEF BatchesPartition
  <2>7. Lifecycle'
    <3>1. \A w \in Workers : w >= spawned' => wpc'[w] = "none"
      BY <2>1, <2>2 DEF Lifecycle, TypeOK, Workers
    <3> QED
      BY <3>1 DEF Lifecycle
  <2>8. TouchInRange'
    BY DEF TouchInRange
  <2> QED
    BY <2>3, <2>4, <2>5, <2>6, <2>7, <2>8
<1>3. CASE LeaveBlock \/ JoinWorkers \/ Free
  <2>1. UNCHANGED <<workerVars, helperVars>>
    BY <1>3 DEF LeaveBlock, JoinWorkers, Free
  <2>2. WorkerRanges' /\ BatchesDisjoint' /\ BatchesPartition'
    BY <2>1, WorkerFrame
  <2>3. TypeOK'
    BY <1>3, <2>1 DEF LeaveBlock, JoinWorkers, Free, TypeOK, workerVars, helperVars
  <2>4. Lifecycle'
    BY <1>3, <2>1 DEF LeaveBlock, JoinWorkers, Free, Lifecycle, workerVars, helperVars
  <2>5. TouchInRange'
    BY <2>1 DEF TouchInRange, helperVars
  <2> QED
    BY <2>2, <2>3, <2>4, <2>5
<1> QED
  BY <1>1, <1>2, <1>3 DEF MainStep

-----------------------------------------------------------------------------
(* Theorems                                                                 *)

\* The invariant of test() holds in every reachable state.
THEOREM Invariance == Spec => []Inv
<1>1. Inv /\ [Next]_vars => Inv'
  <2> SUFFICES ASSUME Inv, [Next]_vars PROVE Inv'
    OBVIOUS
  <2>1. CASE UNCHANGED vars
    <3>1. WorkerRanges' /\ BatchesDisjoint' /\ BatchesPartition'
      BY <2>1, WorkerFrame DEF Inv, vars
    <3>2. TypeOK' /\ Lifecycle' /\ TouchInRange'
      BY <2>1 DEF Inv, vars, mainVars, workerVars, helperVars, TypeOK, Lifecycle, TouchInRange
    <3> QED
      BY <3>1, <3>2 DEF Inv
  <2>2. CASE MainStep
    BY <2>2, MainInv
  <2>3. CASE \E w \in Workers : WorkerStep(w)
    BY <2>3, FetchInv, BeginInv, OperateInv, AdvanceInv, EndBatchInv, FlushInv DEF WorkerStep
  <2>4. CASE \E h \in Workers : HelperStep(h)
    BY <2>4, HelperInv
  <2> QED
    BY <2>1, <2>2, <2>3, <2>4 DEF Next, Returned
<1> QED
  BY <1>1, InitInv, PTL DEF Spec

\* Counters, indices and thread positions keep their types.
THEOREM TypeCorrect == Spec => []TypeOK
<1>1. Inv => TypeOK
  BY DEF Inv
<1> QED
  BY <1>1, Invariance, PTL

\* Batches never overlap and never leave a gap, for any number of workers and
\* any batch size.
THEOREM Partition == Spec => []BatchesPartition
<1>1. Inv => BatchesPartition
  BY DEF Inv
<1> QED
  BY <1>1, Invariance, PTL

\* When the workers have been joined, no operation is pending.
LEMMA DoneInv == Inv => ExactlyOnce
<1> SUFFICES ASSUME Inv, main \in {"stop", "freed"}, W > 0, NEW n \in Indices
             PROVE  count[n] = 1
  BY DEF ExactlyOnce
<1>1. \A w \in Workers : wpc[w] = "done" /\ Pending(w) = {}
  BY DEF Inv, Lifecycle, Pending
<1>2. 0 \in Workers
  BY HarnessAssumption DEF Workers
<1>3. progress >= N
  BY <1>1, <1>2 DEF Inv, WorkerRanges
<1>4. n < progress
  BY <1>3, HarnessAssumption DEF Inv, TypeOK, Indices
<1> QED
  BY <1>1, <1>4 DEF Inv, BatchesPartition

\* Each operation has run exactly once when the workers have been joined.
THEOREM WorkloadDone == Spec => []ExactlyOnce
  BY DoneInv, Invariance, PTL

\* A helper never indexes run_pairs out of range.
THEOREM TouchSafe == Spec => []TouchInRange
<1>1. Inv => TouchInRange
  BY DEF Inv
<1> QED
  BY <1>1, Invariance, PTL

\* The sync buffers are freed when no thread can use them any more.
THEOREM NoUseAfterFree == Spec => []FreedLast
<1>1. Inv => FreedLast
  BY DEF Inv, Lifecycle, FreedLast
<1> QED
  BY <1>1, Invariance, PTL

-----------------------------------------------------------------------------
(* The counters                                                             *)

\* by says which worker performed an operation: those of worker w, and those
\* of the workers that have added their counters to the global ones.
Done(by, w, k) == {n \in Indices : count[n] = 1 /\ by[n] = w /\ Ops[n] = k}
Added(by, k) == {n \in Indices : count[n] = 1 /\ wpc[by[n]] = "done" /\ Ops[n] = k}

\* A running worker has counted what it performed, and the global counters
\* have what the others performed.
Tallied(by) ==
  /\ \A n \in Indices : count[n] = 1 => by[n] \in Workers
  /\ \A w \in Workers : wpc[w] # "done" =>
       \A k \in Kinds : status[w][k] = Cardinality(Done(by, w, k))
  /\ \A k \in Kinds : global_status[k] = Cardinality(Added(by, k))

Misses(s) == s["READ_NOTFOUND"] <= s["READ"]

Counting ==
  /\ status \in [Workers -> [DOMAIN Zero -> Nat]]
  /\ global_status \in [DOMAIN Zero -> Nat]
  /\ \A w \in Workers : Misses(status[w])
  /\ Misses(global_status)

Tally == Counting /\ \E by \in [Indices -> Nat] : Tallied(by)

\* The workload is finite.
LEMMA FiniteParts ==
  \A S \in SUBSET Indices : IsFiniteSet(S) /\ Cardinality(S) \in Nat
<1>1. IsFiniteSet(Indices)
  BY FS_Interval, HarnessAssumption DEF Indices
<1> QED
  BY <1>1, FS_Subset, FS_CardinalityType

\* Nothing has been counted before the threads are started.
LEMMA InitTally == Init => Tally
<1> SUFFICES ASSUME Init PROVE Tally
  OBVIOUS
<1>1. Counting
  BY DEF Init, Counting, Misses, Zero, Kinds
<1>2. PICK by \in [Indices -> Nat] : by = [n \in Indices |-> 0]
  OBVIOUS
<1>3. \A n \in Indices : count[n] = 0
  BY DEF Init
<1>4. \A k \in Kinds : Added(by, k) = {} /\ \A w \in Workers : Done(by, w, k) = {}
  BY <1>3 DEF Added, Done
<1>5. \A k \in Kinds : global_status[k] = 0 /\ \A w \in Workers : status[w][k] = 0
  BY DEF Init, Zero
<1>6. Tallied(by)
  <2>1. \A n \in Indices : count[n] = 1 => by[n] \in Workers
    BY <1>3
  <2>2. Cardinality({}) = 0
    BY FS_EmptySet
  <2>3. \A k \in Kinds : global_status[k] = Cardinality(Added(by, k))
    BY <1>4, <1>5, <2>2
  <2>4. \A w \in Workers : \A k \in Kinds : status[w][k] = Cardinality(Done(by, w, k))
    BY <1>4, <1>5, <2>2
  <2> QED
    BY <2>1, <2>3, <2>4 DEF Tallied
<1> QED
  BY <1>1, <1>6 DEF Tally

\* A step that counts nothing and ends no worker.
LEMMA TallyFrame ==
  ASSUME Tally, count' = count, status' = status, global_status' = global_status,
         \A w \in Workers : wpc'[w] = "done" <=> wpc[w] = "done"
  PROVE  Tally'
<1>1. Counting'
  BY DEF Tally, Counting, Misses
<1>2. PICK by \in [Indices -> Nat] : Tallied(by)
  BY DEF Tally
<1>3. \A k \in Kinds : Added(by, k)' = Added(by, k) /\ \A w \in Workers : Done(by, w, k)' = Done(by, w, k)
  BY <1>2 DEF Tallied, Added, Done
<1>4. Tallied(by)'
  BY <1>2, <1>3 DEF Tallied
<1> QED
  BY <1>1, <1>4 DEF Tally

\* An operation is counted by the worker that performs it, and was not
\* performed before.
LEMMA OperateTally ==
  ASSUME Inv, Tally, NEW w \in Workers, Operate(w)
  PROVE  Tally'
<1>1. PICK by \in [Indices -> Nat] : Tallied(by)
  BY DEF Tally
<1>2. PICK n \in Indices : n = i[w] /\ n \in Pending(w)
  <2>1. i[w] \in Nat /\ end_idx[w] \in 0 .. N /\ i[w] < end_idx[w] /\ wpc[w] = "loop"
    BY HarnessAssumption DEF Operate, Inv, TypeOK
  <2>2. i[w] \in Indices /\ i[w] \in i[w] .. end_idx[w] - 1
    BY <2>1, HarnessAssumption DEF Indices
  <2>3. i[w] \in Pending(w)
    BY <2>1, <2>2 DEF Pending
  <2> QED
    BY <2>2, <2>3
<1>3. count[n] = 0 /\ count \in [Indices -> Nat]
  BY <1>2 DEF Inv, BatchesPartition, TypeOK
<1>4. PICK miss \in {0, 1} :
        /\ miss = 1 => Ops[n] = "READ"
        /\ status' = [status EXCEPT ![w] =
             [k \in DOMAIN Zero |->
                @[k] + IF k = Ops[n] THEN 1 ELSE IF k = "READ_NOTFOUND" THEN miss ELSE 0]]
  BY <1>2 DEF Operate
<1>5. /\ count' = [count EXCEPT ![n] = 1] /\ global_status' = global_status
      /\ wpc' = [wpc EXCEPT ![w] = "advance"] /\ wpc[w] = "loop"
  BY <1>2, <1>3 DEF Operate
<1>6. DOMAIN Zero = Kinds \cup {"READ_NOTFOUND"} /\ Ops[n] \in Kinds
  BY <1>2, HarnessAssumption DEF Zero
<1>7. /\ \A k \in Kinds : status'[w][k] = status[w][k] + IF k = Ops[n] THEN 1 ELSE 0
      /\ status'[w]["READ_NOTFOUND"] = status[w]["READ_NOTFOUND"] + miss
      /\ status'[w] \in [DOMAIN Zero -> Nat]
      /\ \A v \in Workers \ {w} : status'[v] = status[v]
  BY <1>4, <1>6 DEF Tally, Counting, Kinds
<1>8. Counting'
  <2>1. status' \in [Workers -> [DOMAIN Zero -> Nat]]
    BY <1>4, <1>7 DEF Tally, Counting
  <2>2. Misses(status'[w])
    BY <1>4, <1>6, <1>7 DEF Tally, Counting, Misses, Kinds
  <2> QED
    BY <1>5, <1>7, <2>1, <2>2 DEF Tally, Counting, Misses
<1>9. PICK new \in [Indices -> Nat] : new = [by EXCEPT ![n] = w]
  <2>1. w \in Nat
    BY HarnessAssumption DEF Workers
  <2>2. [by EXCEPT ![n] = w] \in [Indices -> Nat]
    BY <2>1
  <2> QED
    BY <2>2
<1>10. \A v \in Workers, k \in Kinds :
         Done(new, v, k)' = IF v = w /\ k = Ops[n] THEN Done(by, v, k) \cup {n} ELSE Done(by, v, k)
  BY <1>2, <1>3, <1>5, <1>9 DEF Done
<1>11. \A k \in Kinds : Added(new, k)' = Added(by, k)
  <2>1. \A v \in Workers : wpc'[v] = "done" <=> wpc[v] = "done"
    BY <1>5 DEF Inv, TypeOK
  <2>2. wpc'[new[n]] # "done"
    BY <1>2, <1>5, <1>9 DEF Inv, TypeOK
  <2>3. \A m \in Indices \ {n} : count'[m] = count[m] /\ new[m] = by[m]
    BY <1>3, <1>5, <1>9
  <2> QED
    BY <1>1, <1>3, <2>1, <2>2, <2>3 DEF Added, Tallied
<1>12. \A k \in Kinds : n \notin Done(by, w, k) /\ Done(by, w, k) \in SUBSET Indices
  BY <1>3 DEF Done
<1>13. \A k \in Kinds : Cardinality(Done(by, w, k) \cup {n}) = Cardinality(Done(by, w, k)) + 1
  BY <1>12, FiniteParts, FS_AddElement
<1>14. Tallied(new)'
  <2>1. \A m \in Indices : count'[m] = 1 => new[m] \in Workers
    BY <1>1, <1>3, <1>5, <1>9 DEF Tallied
  <2>2. \A v \in Workers : wpc'[v] # "done" =>
          \A k \in Kinds : status'[v][k] = Cardinality(Done(new, v, k)')
    <3>1. ASSUME NEW v \in Workers \ {w}, wpc'[v] # "done", NEW k \in Kinds
          PROVE  status'[v][k] = Cardinality(Done(new, v, k)')
      <4>1. wpc[v] # "done" /\ status'[v] = status[v]
        BY <1>5, <1>7, <3>1 DEF Inv, TypeOK
      <4>2. Done(new, v, k)' = Done(by, v, k)
        BY <1>10
      <4> QED
        BY <1>1, <4>1, <4>2 DEF Tallied
    <3>2. ASSUME NEW k \in Kinds
          PROVE  status'[w][k] = Cardinality(Done(new, w, k)')
      <4>1. status[w][k] = Cardinality(Done(by, w, k)) /\ status[w][k] \in Nat
        BY <1>1, <1>5, <1>6 DEF Tallied, Tally, Counting
      <4>2. CASE k = Ops[n]
        BY <1>7, <1>10, <1>13, <4>1, <4>2
      <4>3. CASE k # Ops[n]
        BY <1>7, <1>10, <4>1, <4>3
      <4> QED
        BY <4>2, <4>3
    <3> QED
      BY <3>1, <3>2
  <2>3. \A k \in Kinds : global_status'[k] = Cardinality(Added(new, k)')
    BY <1>1, <1>5, <1>11 DEF Tallied
  <2> QED
    BY <2>1, <2>2, <2>3 DEF Tallied
<1> QED
  BY <1>8, <1>14 DEF Tally

\* A worker that ends adds what it counted: nobody else performed that.
LEMMA FlushTally ==
  ASSUME Inv, Tally, NEW w \in Workers, Flush(w)
  PROVE  Tally'
<1>1. PICK by \in [Indices -> Nat] : Tallied(by)
  BY DEF Tally
<1>2. /\ wpc[w] = "flush" /\ wpc' = [wpc EXCEPT ![w] = "done"] /\ status' = status /\ count' = count
      /\ global_status' = [k \in DOMAIN Zero |-> global_status[k] + status[w][k]]
  BY DEF Flush
<1>3. DOMAIN Zero = Kinds \cup {"READ_NOTFOUND"}
  BY DEF Zero
<1>4. Counting'
  BY <1>2, <1>3 DEF Tally, Counting, Misses, Kinds
<1>5. \A v \in Workers : wpc'[v] = "done" <=> wpc[v] = "done" \/ v = w
  BY <1>2 DEF Inv, TypeOK
<1>6. ASSUME NEW k \in Kinds PROVE global_status'[k] = Cardinality(Added(by, k)')
  <2>1. Added(by, k)' = Added(by, k) \cup Done(by, w, k)
    BY <1>1, <1>2, <1>5 DEF Added, Done, Tallied
  <2>2. Added(by, k) \cap Done(by, w, k) = {}
    BY <1>2 DEF Added, Done
  <2>3. Added(by, k) \in SUBSET Indices /\ Done(by, w, k) \in SUBSET Indices
    BY DEF Added, Done
  <2>4. Cardinality(Added(by, k) \cup Done(by, w, k))
          = Cardinality(Added(by, k)) + Cardinality(Done(by, w, k))
    <3>1. \A A, B \in SUBSET Indices : A \cap B = {} =>
            Cardinality(A \cup B) = Cardinality(A) + Cardinality(B)
      <4> TAKE A, B \in SUBSET Indices
      <4> HAVE A \cap B = {}
      <4>1. Cardinality(A \cup B) = Cardinality(A) + Cardinality(B) - Cardinality(A \cap B)
        BY FiniteParts, FS_Union
      <4>2. Cardinality(A) \in Nat /\ Cardinality(B) \in Nat /\ Cardinality(A \cap B) = 0
        BY FiniteParts, FS_EmptySet
      <4> QED
        BY <4>1, <4>2
    <3> QED
      BY <2>2, <2>3, <3>1
  <2>5. global_status[k] = Cardinality(Added(by, k)) /\ status[w][k] = Cardinality(Done(by, w, k))
    BY <1>1, <1>2 DEF Tallied
  <2>6. global_status'[k] = global_status[k] + status[w][k]
    BY <1>2, <1>3
  <2> QED
    BY <2>1, <2>4, <2>5, <2>6
<1>7. \A v \in Workers, k \in Kinds : Done(by, v, k)' = Done(by, v, k)
  BY <1>2 DEF Done
<1>8. Tallied(by)'
  BY <1>1, <1>2, <1>5, <1>6, <1>7 DEF Tallied
<1> QED
  BY <1>4, <1>8 DEF Tally

\* What has been counted agrees with what has been performed, always.
THEOREM TallyHolds == Spec => []Tally
<1>1. Inv /\ Tally /\ [Next]_vars => Tally'
  <2> SUFFICES ASSUME Inv, Tally, [Next]_vars PROVE Tally'
    OBVIOUS
  <2>1. CASE UNCHANGED <<wpc, count, status, global_status>>
    BY <2>1, TallyFrame
  <2>2. CASE SpawnWorker
    <3>1. spawned \in Workers /\ wpc[spawned] = "none"
      BY <2>2, HarnessAssumption DEF SpawnWorker, Inv, Lifecycle, TypeOK, Workers
    <3>2. \A w \in Workers : wpc'[w] = "done" <=> wpc[w] = "done"
      BY <2>2, <3>1 DEF SpawnWorker, Inv, TypeOK
    <3> QED
      BY <2>2, <3>2, TallyFrame DEF SpawnWorker
  <2>3. ASSUME NEW w \in Workers, Fetch(w) \/ Begin(w) \/ Advance(w) \/ EndBatch(w) PROVE Tally'
    <3>1. \A v \in Workers : wpc'[v] = "done" <=> wpc[v] = "done"
      BY <2>3 DEF Fetch, Begin, Advance, EndBatch, Inv, TypeOK
    <3> QED
      BY <2>3, <3>1, TallyFrame DEF Fetch, Begin, Advance, EndBatch
  <2>4. ASSUME NEW w \in Workers, WorkerStep(w) PROVE Tally'
    BY <2>3, <2>4, OperateTally, FlushTally DEF WorkerStep
  <2>5. ASSUME NEW h \in Workers, HelperStep(h) PROVE UNCHANGED <<wpc, count, status, global_status>>
    BY <2>5 DEF HelperStep, HelperStart, HelperCopy, HelperDecide, HelperTouch, workerVars
  <2>6. MainStep => SpawnWorker \/ UNCHANGED <<wpc, count, status, global_status>>
    BY DEF MainStep, SpawnHelper, LeaveBlock, JoinWorkers, Free, workerVars
  <2>7. Returned \/ UNCHANGED vars => UNCHANGED <<wpc, count, status, global_status>>
    BY DEF Returned, vars, workerVars
  <2> QED
    BY <2>1, <2>2, <2>4, <2>5, <2>6, <2>7 DEF Next
<1> QED
  BY <1>1, InitTally, Invariance, PTL DEF Spec

\* The counters that test() reports are those of the workload, for any number
\* of workers, operations and any batch size: no operation is counted by two
\* workers, or by none.
THEOREM CountersAreExact == Spec => []CountersExact
<1>1. Inv /\ Tally => CountersExact
  <2> SUFFICES ASSUME Inv, Tally, main \in {"stop", "freed"}, W > 0
               PROVE  /\ \A k \in Kinds :
                           global_status[k] = Cardinality({n \in Indices : Ops[n] = k})
                      /\ global_status["READ_NOTFOUND"] <= global_status["READ"]
    BY DEF CountersExact
  <2>1. PICK by \in [Indices -> Nat] : Tallied(by)
    BY DEF Tally
  <2>2. \A n \in Indices : count[n] = 1
    BY DoneInv DEF ExactlyOnce
  <2>3. \A w \in Workers : wpc[w] = "done"
    BY DEF Inv, Lifecycle
  <2>4. \A k \in Kinds : Added(by, k) = {n \in Indices : Ops[n] = k}
    BY <2>1, <2>2, <2>3 DEF Added, Tallied
  <2> QED
    BY <2>1, <2>4 DEF Tallied, Tally, Counting, Misses
<1> QED
  BY <1>1, Invariance, TallyHolds, PTL

=============================================================================
