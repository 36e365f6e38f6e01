------------------------------- MODULE Harness -------------------------------
(***************************************************************************)
(* test() of case_study/tests.hpp: worker threads that take batches of     *)
(* operations off a shared counter, one preread helper per worker that     *)
(* touches keys ahead of it, and the main thread that starts and joins     *)
(* them.  Operations are numbered 0 .. N-1; what an operation does to the  *)
(* index is not modelled here, except that a Get may miss.                 *)
(*                                                                         *)
(* thread_id and preread_shreshold are locals of the block that starts the *)
(* helpers, captured by reference: a helper that is scheduled after the    *)
(* block reads a dead stack slot.  What it finds is one of StaleIds and    *)
(* StaleThresholds (the live value among them).                            *)
(***************************************************************************)
EXTENDS Integers, FiniteSets

CONSTANTS
  W,                 \* thread_num
  N,                 \* run_pairs.size()
  Batch,             \* mini_batch
  PreRead,           \* prereadnum
  HelperMod,         \* helper_mod
  Ops,               \* runtime_ops
  Modulus,           \* the word size of uint64_t: 2^64 in the code
  StaleIds, StaleThresholds

Workers == 0 .. W - 1
Indices == 0 .. N - 1
Kinds == {"READ", "INSERT", "UPDATE", "DELETE"}

ASSUME HarnessAssumption ==
  /\ W \in Nat /\ N \in Nat /\ Batch \in Nat \ {0}
  /\ PreRead \in Nat
  /\ HelperMod \in BOOLEAN
  /\ Ops \in [Indices -> Kinds]
  /\ Modulus \in Nat /\ Modulus > N + PreRead
  /\ StaleIds \subseteq Nat
  /\ StaleThresholds \subseteq Nat

VARIABLES
  main,       \* the main thread: "helpers", "workers", "join", "stop", "freed"
  spawned,    \* threads it has started in the current loop
  thread_id,  \* counter of the helpers
  end_flag,
  progress,   \* the shared batch counter
  global_status,
  wpc,        \* each worker
  start_idx, end_idx, i, status,
  curr,       \* shared_sync_buffer[w].curr_progress
  hpc,        \* each helper
  t_id, copy, progerss,
  count       \* how often each operation was performed

mainVars == <<main, spawned, end_flag>>
workerVars == <<progress, global_status, wpc, start_idx, end_idx, i, status, curr, count>>
helperVars == <<thread_id, hpc, t_id, copy, progerss>>
vars == <<mainVars, workerVars, helperVars>>

Zero == [k \in Kinds \cup {"READ_NOTFOUND"} |-> 0]

\* Before the helpers are started.
Init ==
  /\ main = IF HelperMod THEN "helpers" ELSE "workers"
  /\ spawned = 0
  /\ end_flag = 0
  /\ progress = 0
  /\ global_status = Zero
  /\ wpc = [w \in Workers |-> "none"]
  /\ start_idx = [w \in Workers |-> 0]
  /\ end_idx = [w \in Workers |-> 0]
  /\ i = [w \in Workers |-> 0]
  /\ status = [w \in Workers |-> Zero]
  /\ curr = [w \in Workers |-> 0]
  /\ count = [n \in Indices |-> 0]
  /\ thread_id = 0
  /\ hpc = [h \in Workers |-> "none"]
  /\ t_id = [h \in Workers |-> 0]
  /\ copy = [h \in Workers |-> 0]
  /\ progerss = [h \in Workers |-> 0]

-----------------------------------------------------------------------------
(* Main thread                                                              *)

SpawnHelper ==
  /\ main = "helpers" /\ spawned < W
  /\ hpc' = [hpc EXCEPT ![spawned] = "start"]
  /\ spawned' = spawned + 1
  /\ UNCHANGED <<main, end_flag, workerVars, thread_id, t_id, copy, progerss>>

\* Mutant: the helpers are joined where they are started.
LeaveBlockJoin ==
  /\ main = "helpers" /\ spawned = W
  /\ \A h \in Workers : hpc[h] = "done"
  /\ main' = "workers"
  /\ spawned' = 0
  /\ UNCHANGED <<end_flag, workerVars, helperVars>>

\* End of the block: thread_id and preread_shreshold cease to exist.
LeaveBlock ==
  /\ main = "helpers" /\ spawned = W
  /\ main' = "workers"
  /\ spawned' = 0
  /\ UNCHANGED <<end_flag, workerVars, helperVars>>

SpawnWorker ==
  /\ main = "workers" /\ spawned < W
  /\ wpc' = [wpc EXCEPT ![spawned] = "fetch"]
  /\ spawned' = spawned + 1
  /\ UNCHANGED <<main, end_flag, helperVars,
                 progress, global_status, start_idx, end_idx, i, status, curr, count>>

\* works.at(0).join() ... works.at(thread_num-1).join(), then end_flag = 1
JoinWorkers ==
  /\ main = "workers" /\ spawned = W
  /\ \A w \in Workers : wpc[w] = "done"
  /\ main' = "stop"
  /\ end_flag' = IF HelperMod THEN 1 ELSE 0
  /\ UNCHANGED <<spawned, workerVars, helperVars>>

\* Mutant: the helpers are not joined.
FreeEarly ==
  /\ main = "stop"
  /\ main' = "freed"
  /\ UNCHANGED <<spawned, end_flag, workerVars, helperVars>>

\* join the helpers, then free(shared_sync_buffer)
Free ==
  /\ main = "stop"
  /\ HelperMod => \A h \in Workers : hpc[h] = "done"
  /\ main' = "freed"
  /\ UNCHANGED <<spawned, end_flag, workerVars, helperVars>>

-----------------------------------------------------------------------------
(* Worker w                                                                 *)

MinOf(a, b) == IF a < b THEN a ELSE b

\* progress.fetch_add(mini_batch) and the test of the while loop
Fetch(w) ==
  /\ wpc[w] = "fetch"
  /\ start_idx' = [start_idx EXCEPT ![w] = progress]
  /\ end_idx' = [end_idx EXCEPT ![w] = MinOf(N, progress + Batch)]
  /\ progress' = progress + Batch
  /\ wpc' = [wpc EXCEPT ![w] = IF progress < N THEN "begin" ELSE "flush"]
  /\ UNCHANGED <<mainVars, helperVars, global_status, i, status, curr, count>>

\* Mutant: the loop starts at the second operation of the batch.
BeginLate(w) ==
  /\ wpc[w] = "begin"
  /\ wpc' = [wpc EXCEPT ![w] = "loop"]
  /\ curr' = [curr EXCEPT ![w] = start_idx[w]]
  /\ i' = [i EXCEPT ![w] = start_idx[w] + 1]
  /\ UNCHANGED <<mainVars, helperVars, progress, global_status, start_idx, end_idx,
                 status, count>>

\* curr_progress = begin = start_idx; the for loop starts
Begin(w) ==
  /\ wpc[w] = "begin"
  /\ wpc' = [wpc EXCEPT ![w] = "loop"]
  /\ curr' = [curr EXCEPT ![w] = start_idx[w]]
  /\ i' = [i EXCEPT ![w] = start_idx[w]]
  /\ UNCHANGED <<mainVars, helperVars, progress, global_status, start_idx, end_idx,
                 status, count>>

\* One operation; a Get that does not return the expected value is counted.
Operate(w) ==
  /\ wpc[w] = "loop" /\ i[w] < end_idx[w]
  /\ wpc' = [wpc EXCEPT ![w] = "advance"]
  /\ count' = [count EXCEPT ![i[w]] = @ + 1]
  /\ \E miss \in {0, 1} :
       /\ miss = 1 => Ops[i[w]] = "READ"
       /\ status' = [status EXCEPT ![w] =
                       [k \in DOMAIN Zero |->
                          @[k] + IF k = Ops[i[w]] THEN 1
                                 ELSE IF k = "READ_NOTFOUND" THEN miss ELSE 0]]
  /\ UNCHANGED <<mainVars, helperVars, progress, global_status, start_idx, end_idx, i, curr>>

\* curr_progress++ and i++
Advance(w) ==
  /\ wpc[w] = "advance"
  /\ wpc' = [wpc EXCEPT ![w] = "loop"]
  /\ curr' = [curr EXCEPT ![w] = @ + 1]
  /\ i' = [i EXCEPT ![w] = @ + 1]
  /\ UNCHANGED <<mainVars, helperVars, progress, global_status, start_idx, end_idx,
                 status, count>>

EndBatch(w) ==
  /\ wpc[w] = "loop" /\ i[w] >= end_idx[w]
  /\ wpc' = [wpc EXCEPT ![w] = "fetch"]
  /\ UNCHANGED <<mainVars, helperVars, progress, global_status, start_idx, end_idx, i,
                 status, curr, count>>

\* Mutant: the counters are stored, not added.
FlushStore(w) ==
  /\ wpc[w] = "flush"
  /\ wpc' = [wpc EXCEPT ![w] = "done"]
  /\ global_status' = status[w]
  /\ UNCHANGED <<mainVars, helperVars, progress, start_idx, end_idx, i, status, curr, count>>

\* The counters are added to the global ones; nobody reads those before join.
Flush(w) ==
  /\ wpc[w] = "flush"
  /\ wpc' = [wpc EXCEPT ![w] = "done"]
  /\ global_status' = [k \in DOMAIN Zero |-> global_status[k] + status[w][k]]
  /\ UNCHANGED <<mainVars, helperVars, progress, start_idx, end_idx, i, status, curr, count>>

-----------------------------------------------------------------------------
(* Helper h                                                                 *)

\* uint64_t subtraction
Minus(a, b) == (a - b) % Modulus

InBlock == main = "helpers"

\* t_id = thread_id.fetch_add(1); a t_id that is too large ends the helper.  (A
\* dead thread_id is taken not to be negative: a negative one passes the test,
\* and the helper then copies from before the buffer.)
\* progerss is not initialised: it starts with any value.
HelperStart(h) ==
  /\ hpc[h] = "start"
  /\ \E id \in (IF InBlock THEN {thread_id} ELSE StaleIds) :
       /\ t_id' = [t_id EXCEPT ![h] = id]
       /\ hpc' = [hpc EXCEPT ![h] = IF id + 1 > W THEN "done" ELSE "copy"]
  /\ thread_id' = IF InBlock THEN thread_id + 1 ELSE thread_id
  /\ \E any \in 0 .. Modulus - 1 : progerss' = [progerss EXCEPT ![h] = any]
  /\ UNCHANGED <<mainVars, workerVars, copy>>

\* local_copy = *local_sync_buf
HelperCopy(h) ==
  /\ hpc[h] = "copy"
  /\ hpc' = [hpc EXCEPT ![h] = "decide"]
  /\ copy' = [copy EXCEPT ![h] = curr[t_id[h]]]
  /\ UNCHANGED <<mainVars, workerVars, thread_id, t_id, progerss>>

\* Mutant: off by one at the end of the workload.
PastEndOff(p) == p > N

PastEnd(p) == p >= N

Threshold == IF InBlock THEN {PreRead} ELSE StaleThresholds

\* The chain of tests of the loop.  progerss - curr_progress is unsigned, so
\* the branch at line 121 is never taken.
HelperDecide(h) ==
  /\ hpc[h] = "decide"
  /\ \/ /\ end_flag = 1
        /\ hpc' = [hpc EXCEPT ![h] = "done"]
        /\ UNCHANGED progerss
     \/ /\ end_flag # 1
        /\ \E n \in Threshold :
             \/ /\ Minus(progerss[h], copy[h]) > n
                /\ progerss' = [progerss EXCEPT ![h] = (copy[h] + n) % Modulus]
                /\ hpc' = [hpc EXCEPT ![h] = "copy"]
             \/ /\ Minus(progerss[h], copy[h]) <= n
                /\ hpc' = [hpc EXCEPT ![h] = IF PastEnd(progerss[h]) THEN "copy" ELSE "touch"]
                /\ UNCHANGED progerss
  /\ UNCHANGED <<mainVars, workerVars, thread_id, t_id, copy>>

\* index.Touch(run_pairs.at(progerss).first); progerss++
HelperTouch(h) ==
  /\ hpc[h] = "touch"
  /\ hpc' = [hpc EXCEPT ![h] = "copy"]
  /\ progerss' = [progerss EXCEPT ![h] = (@ + 1) % Modulus]
  /\ UNCHANGED <<mainVars, workerVars, thread_id, t_id, copy>>

-----------------------------------------------------------------------------

MainStep == SpawnHelper \/ LeaveBlock \/ SpawnWorker \/ JoinWorkers \/ Free

WorkerStep(w) ==
  Fetch(w) \/ Begin(w) \/ Operate(w) \/ Advance(w) \/ EndBatch(w) \/ Flush(w)

HelperStep(h) == HelperStart(h) \/ HelperCopy(h) \/ HelperDecide(h) \/ HelperTouch(h)

\* test() has returned.
Returned == main = "freed" /\ UNCHANGED vars

Next ==
  \/ MainStep
  \/ \E w \in Workers : WorkerStep(w)
  \/ \E h \in Workers : HelperStep(h)
  \/ Returned

Spec == Init /\ [][Next]_vars

\* Every thread that has been started keeps running.
FairSpec ==
  /\ Spec
  /\ WF_vars(MainStep)
  /\ \A w \in Workers : WF_vars(WorkerStep(w)) /\ WF_vars(HelperStep(w))

-----------------------------------------------------------------------------
(* Properties                                                               *)

\* Counters are counters and every thread is at one of its steps.
TypeOK ==
  /\ main \in {"helpers", "workers", "stop", "freed"}
  /\ spawned \in 0 .. W
  /\ end_flag \in {0, 1}
  /\ progress \in Nat
  /\ wpc \in [Workers -> {"none", "fetch", "begin", "loop", "advance", "flush", "done"}]
  /\ start_idx \in [Workers -> Nat]
  /\ end_idx \in [Workers -> 0 .. N]
  /\ i \in [Workers -> 0 .. N]
  /\ curr \in [Workers -> 0 .. N]
  /\ count \in [Indices -> Nat]
  /\ thread_id \in Nat
  /\ hpc \in [Workers -> {"none", "start", "copy", "decide", "touch", "done"}]
  /\ t_id \in [Workers -> Nat]
  /\ copy \in [Workers -> 0 .. N]
  /\ progerss \in [Workers -> 0 .. Modulus - 1]

\* The operations worker w has taken and not performed yet.
Pending(w) ==
  IF wpc[w] = "begin" THEN start_idx[w] .. end_idx[w] - 1
  ELSE IF wpc[w] = "loop" THEN i[w] .. end_idx[w] - 1
  ELSE IF wpc[w] = "advance" THEN i[w] + 1 .. end_idx[w] - 1
  ELSE {}

\* No operation is lost or taken twice: an operation has been performed, once,
\* if its batch was taken and no worker still has to perform it; and at most one
\* worker has to.
BatchesPartition ==
  \A n \in Indices :
    /\ count[n] = IF n < progress /\ \A w \in Workers : n \notin Pending(w) THEN 1 ELSE 0
    /\ \A v, w \in Workers : n \in Pending(v) /\ n \in Pending(w) => v = w

\* Every operation of the workload has been performed exactly once by the time
\* test() has joined the workers and reports the counters.
ExactlyOnce == main \in {"stop", "freed"} /\ W > 0 => \A n \in Indices : count[n] = 1

\* The reported counters are those of the workload.
CountersExact ==
  main \in {"stop", "freed"} /\ W > 0 =>
    /\ \A k \in Kinds : global_status[k] = Cardinality({n \in Indices : Ops[n] = k})
    /\ global_status["READ_NOTFOUND"] <= global_status["READ"]

\* run_pairs.at(progerss) does not throw, whatever progerss and the dead
\* locals held.
TouchInRange == \A h \in Workers : hpc[h] = "touch" => progerss[h] \in Indices

\* The sync buffers are freed after the last access.
FreedLast ==
  main = "freed" => \A w \in Workers : wpc[w] = "done" /\ hpc[w] \in {"none", "done"}

-----------------------------------------------------------------------------
(* The inductive invariant behind the safety properties                     *)

Active(w) == wpc[w] \in {"begin", "loop", "advance"}

\* The batch of an active worker was taken from `progress', and its position is
\* inside it.
WorkerRanges ==
  \A w \in Workers :
    /\ Active(w) =>
         /\ start_idx[w] < N
         /\ start_idx[w] + Batch <= progress
         /\ end_idx[w] = MinOf(N, start_idx[w] + Batch)
    /\ wpc[w] \in {"loop", "advance"} =>
         start_idx[w] <= i[w] /\ i[w] <= end_idx[w] /\ curr[w] = i[w]
    /\ wpc[w] = "advance" => i[w] < end_idx[w]
    /\ wpc[w] \in {"flush", "done"} => progress >= N

\* The batches of two active workers do not overlap.
BatchesDisjoint ==
  \A v, w \in Workers :
    Active(v) /\ Active(w) /\ v # w =>
      start_idx[v] + Batch <= start_idx[w] \/ start_idx[w] + Batch <= start_idx[v]

\* A running helper has the buffer of a worker, there are none without
\* helper_mod, threads run only after they are started, and have ended when
\* they are joined.
Lifecycle ==
  /\ main = "helpers" => \A w \in Workers : wpc[w] = "none"
  /\ main = "workers" => \A w \in Workers : w >= spawned => wpc[w] = "none"
  /\ \A h \in Workers : hpc[h] \in {"copy", "decide", "touch"} => t_id[h] \in Workers
  /\ ~HelperMod => main # "helpers" /\ \A h \in Workers : hpc[h] = "none"
  /\ main \in {"stop", "freed"} => \A w \in Workers : wpc[w] = "done"
  /\ main = "freed" => \A h \in Workers : hpc[h] \in {"none", "done"}

Inv ==
  /\ TypeOK /\ WorkerRanges /\ BatchesDisjoint /\ BatchesPartition
  /\ Lifecycle /\ TouchInRange

\* A helper touches at most prereadnum keys ahead of the progress it read.
HelperLead ==
  \A h \in Workers : hpc[h] = "touch" => progerss[h] - copy[h] \in 0 .. PreRead

\* test() returns.
TestReturns == <>(main = "freed")

=============================================================================
