------------------------------ MODULE Handover ------------------------------
(***************************************************************************)
(* read_after_flush_lock_contention (micro_benchmarks/cases/               *)
(* read_after_flush.cpp): two threads pass a lock word 0 -> 1 -> 2 -> 3 -> *)
(* 0.  T1 stamps start_tick, writes a cache line and flushes it; T2 reads  *)
(* the line `distance' behind and adds the time since start_tick to        *)
(* across_thread_lat.  The main thread ends a run after a sleep and starts *)
(* the next one, 40 in all.                                                *)
(*                                                                         *)
(* A tick is the number of the T1 round it was taken in; bytes are counted *)
(* in units of which LINE make a cache line.                               *)
(***************************************************************************)
EXTENDS Integers, Sequences

CONSTANTS
  LINE,        \* bytes of a cache line
  Runs,        \* the calls of run(wss, distance, t2_read), in order
  MaxRounds    \* bound of T1's rounds in a run

ASSUME HandoverAssumption ==
  /\ LINE \in Nat \ {0}
  /\ MaxRounds \in Nat
  /\ Runs \in Seq([wss : Nat \ {0}, distance : Nat, read : {"yes", "no"}])

\* The calls are run(50000, i, ...) with i < 20: the buffer ends inside a line,
\* and is longer than the distance.
ASSUME RunsAssumption ==
  \A r \in 1 .. Len(Runs) :
    Runs[r].wss % LINE # 0 /\ (Runs[r].distance + 1) * LINE <= Runs[r].wss

VARIABLES
  run,             \* how many runs have started
  boss,            \* the main thread
  thread_lock, end_flag, start_tick,
  total_hold_lock_num,
  p1, count, j1, spun1,           \* T1: where it is, count, j, spin_round > 0
  p2, rounds, j2, spun2, seen,    \* T2: likewise, and the round it read
  lines            \* which round of this run wrote each line last; 0 for none

t1vars == <<p1, count, j1, spun1>>
t2vars == <<p2, rounds, j2, spun2, seen>>
shared == <<run, boss, end_flag, total_hold_lock_num>>
handoverVars == <<shared, thread_lock, start_tick, lines, t1vars, t2vars>>

Wss == Runs[run].wss
Distance == Runs[run].distance
LineNum(w) == (w \div LINE) + 1

HandoverInit ==
  /\ run = 0
  /\ boss = "idle"
  /\ thread_lock = 0 /\ end_flag = 0 /\ start_tick = 0 /\ total_hold_lock_num = 0
  /\ p1 = "done" /\ count = 0 /\ j1 = 0 /\ spun1 = 0
  /\ p2 = "done" /\ rounds = 0 /\ j2 = 0 /\ spun2 = 0 /\ seen = 0
  /\ lines = <<>>

-----------------------------------------------------------------------------
(* The main thread                                                          *)

\* Mutant: the lock word keeps its value from the last run.
StartRunLocked ==
  /\ boss = "idle" /\ run < Len(Runs)
  /\ run' = run + 1
  /\ boss' = "sleep"
  /\ end_flag' = 0 /\ total_hold_lock_num' = 0
  /\ p1' = "barrier" /\ count' = 0 /\ j1' = 0 /\ spun1' = 0
  /\ p2' = "barrier" /\ rounds' = 0 /\ j2' = 0 /\ spun2' = 0 /\ seen' = 0
  /\ lines' = [l \in 1 .. LineNum(Runs[run + 1].wss) |-> 0]
  /\ UNCHANGED <<start_tick, thread_lock>>

\* run() up to the sleep: reset the shared variables, start both threads.
StartRun ==
  /\ boss = "idle" /\ run < Len(Runs)
  /\ run' = run + 1
  /\ boss' = "sleep"
  /\ thread_lock' = 0 /\ end_flag' = 0 /\ total_hold_lock_num' = 0
  /\ p1' = "barrier" /\ count' = 0 /\ j1' = 0 /\ spun1' = 0
  /\ p2' = "barrier" /\ rounds' = 0 /\ j2' = 0 /\ spun2' = 0 /\ seen' = 0
  /\ lines' = [l \in 1 .. LineNum(Runs[run + 1].wss) |-> 0]
  /\ UNCHANGED start_tick

\* The sleep is over, whatever the threads have done meanwhile.
EndSleep ==
  /\ boss = "sleep"
  /\ boss' = "join"
  /\ end_flag' = 1
  /\ UNCHANGED <<run, total_hold_lock_num, thread_lock, start_tick, lines, t1vars, t2vars>>

\* Both threads joined; the report divides by total_hold_lock_num.
Report ==
  /\ boss = "join" /\ p1 = "done" /\ p2 = "done"
  /\ boss' = IF total_hold_lock_num = 0 THEN "fault" ELSE "idle"
  /\ UNCHANGED <<run, end_flag, total_hold_lock_num, thread_lock, start_tick, lines,
                 t1vars, t2vars>>

\* pthread_barrier_wait of both threads
PassBarrier ==
  /\ p1 = "barrier" /\ p2 = "barrier"
  /\ p1' = "check" /\ p2' = "check"
  /\ UNCHANGED <<shared, thread_lock, start_tick, lines, count, j1, spun1,
                 rounds, j2, spun2, seen>>

-----------------------------------------------------------------------------
(* T1                                                                       *)

\* Mutant: T1 only leaves while the lock is free.
T1CheckFree ==
  /\ p1 = "check"
  /\ p1' = IF end_flag = 1 /\ thread_lock = 0 THEN "exit" ELSE "cas"
  /\ UNCHANGED <<shared, thread_lock, start_tick, lines, count, j1, spun1, t2vars>>

T1Check ==
  /\ p1 = "check"
  /\ p1' = IF end_flag = 1 THEN "exit" ELSE "cas"
  /\ UNCHANGED <<shared, thread_lock, start_tick, lines, count, j1, spun1, t2vars>>

T1Acquire ==
  /\ p1 = "cas" /\ thread_lock = 0 /\ count < MaxRounds
  /\ p1' = "stamp"
  /\ thread_lock' = 1
  /\ count' = count + 1
  /\ UNCHANGED <<shared, start_tick, lines, j1, spun1, t2vars>>

\* On x86 compare_exchange_weak fails only when the word differs; at the bound
\* of its rounds T1 finds no further free lock.
T1Miss ==
  /\ p1 = "cas" /\ (thread_lock # 0 \/ count = MaxRounds)
  /\ p1' = "check"
  /\ spun1' = 1
  /\ UNCHANGED <<shared, thread_lock, start_tick, lines, count, j1, t2vars>>

T1Stamp ==
  /\ p1 = "stamp"
  /\ p1' = "write"
  /\ start_tick' = count
  /\ UNCHANGED <<shared, thread_lock, lines, count, j1, spun1, t2vars>>

\* Mutant: the offset restarts one line early.
AdvanceEarly(j) == IF j + 2 * LINE > Wss THEN 0 ELSE j + LINE

\* j += 64; if (j > wss) j = 0;
Advance(j) == IF j + LINE > Wss THEN 0 ELSE j + LINE

T1Write ==
  /\ p1 = "write"
  /\ p1' = "release"
  /\ lines' = [lines EXCEPT ![(j1 \div LINE) + 1] = count]
  /\ j1' = Advance(j1)
  /\ UNCHANGED <<shared, thread_lock, start_tick, count, spun1, t2vars>>

\* Mutant: T1 stores the word it waits for itself.
T1ReleaseFree ==
  /\ p1 = "release"
  /\ p1' = "check"
  /\ thread_lock' = 0
  /\ spun1' = 1
  /\ UNCHANGED <<shared, start_tick, lines, count, j1, t2vars>>

T1Release ==
  /\ p1 = "release"
  /\ p1' = "check"
  /\ thread_lock' = 2
  /\ spun1' = 1
  /\ UNCHANGED <<shared, start_tick, lines, count, j1, t2vars>>

\* T1_lat = latency / spin_round
T1Exit ==
  /\ p1 = "exit"
  /\ p1' = IF spun1 = 0 THEN "fault" ELSE "done"
  /\ total_hold_lock_num' = count
  /\ UNCHANGED <<run, boss, end_flag, thread_lock, start_tick, lines, count, j1, spun1, t2vars>>

-----------------------------------------------------------------------------
(* T2                                                                       *)

T2Check ==
  /\ p2 = "check"
  /\ p2' = IF end_flag = 1 THEN "exit" ELSE "cas"
  /\ UNCHANGED <<shared, thread_lock, start_tick, lines, rounds, j2, spun2, seen, t1vars>>

T2Acquire ==
  /\ p2 = "cas" /\ thread_lock = 2
  /\ p2' = "read"
  /\ thread_lock' = 3
  /\ rounds' = rounds + 1
  /\ UNCHANGED <<shared, start_tick, lines, j2, spun2, seen, t1vars>>

T2Miss ==
  /\ p2 = "cas" /\ thread_lock # 2
  /\ p2' = "check"
  /\ spun2' = 1
  /\ UNCHANGED <<shared, thread_lock, start_tick, lines, rounds, j2, seen, t1vars>>

\* work_ptr[(j + wss - (distance << 6)) % wss]
ReadOffset == (j2 + Wss - Distance * LINE) % Wss

T2Read ==
  /\ p2 = "read"
  /\ p2' = "sample"
  /\ seen' = IF Runs[run].read = "yes" THEN lines[(ReadOffset \div LINE) + 1] ELSE 0
  /\ UNCHANGED <<shared, thread_lock, start_tick, lines, rounds, j2, spun2, t1vars>>

\* end_tick, and across_thread_lat += end_tick - start_tick
T2Sample ==
  /\ p2 = "sample"
  /\ p2' = "release"
  /\ j2' = Advance(j2)
  /\ UNCHANGED <<shared, thread_lock, start_tick, lines, rounds, spun2, seen, t1vars>>

T2Release ==
  /\ p2 = "release"
  /\ p2' = "check"
  /\ thread_lock' = 0
  /\ spun2' = 1
  /\ UNCHANGED <<shared, start_tick, lines, rounds, j2, seen, t1vars>>

\* T2_lat = latency / spin_round
T2Exit ==
  /\ p2 = "exit"
  /\ p2' = IF spun2 = 0 THEN "fault" ELSE "done"
  /\ UNCHANGED <<shared, thread_lock, start_tick, lines, rounds, j2, spun2, seen, t1vars>>

-----------------------------------------------------------------------------

Boss == StartRun \/ EndSleep \/ Report
T1 == T1Check \/ T1Acquire \/ T1Miss \/ T1Stamp \/ T1Write \/ T1Release \/ T1Exit
T2 == T2Check \/ T2Acquire \/ T2Miss \/ T2Read \/ T2Sample \/ T2Release \/ T2Exit

HandoverNext == Boss \/ PassBarrier \/ T1 \/ T2

-----------------------------------------------------------------------------
(* Properties                                                               *)

HandoverTypeOK ==
  /\ run \in 0 .. Len(Runs)
  /\ boss \in {"idle", "sleep", "join", "fault"}
  /\ thread_lock \in 0 .. 3 /\ end_flag \in 0 .. 1
  /\ start_tick \in Nat /\ total_hold_lock_num \in Nat
  /\ p1 \in {"barrier", "check", "cas", "stamp", "write", "release", "exit", "done", "fault"}
  /\ p2 \in {"barrier", "check", "cas", "read", "sample", "release", "exit", "done", "fault"}
  /\ count \in Nat /\ rounds \in Nat

\* Every latency T2 adds up spans one round of T1 and the round of T2 that
\* answers it: start_tick is the one of the same round, T1 is not about to
\* overwrite it, and T2 never answers twice or ahead of T1, in every run.
SampleMatches ==
  p2 \in {"read", "sample"} =>
    start_tick = rounds /\ count = rounds /\ p1 \notin {"stamp", "write", "release"}

\* The report divides the sum of T2's samples by the number of T1's rounds:
\* at most one round is still without its sample when both threads have ended,
\* whenever the sleep ended.
AverageClose ==
  (p1 = "done" /\ p2 = "done") => total_hold_lock_num - rounds \in {0, 1}

\* The line T2 reads is the one T1 wrote `distance' rounds ago; for the first
\* `distance' rounds after the offset restarts it is one round older, because
\* T1 and T2 go through wss \div LINE + 1 lines and T2 subtracts modulo wss.
ReadLag ==
  (p2 = "sample" /\ Runs[run].read = "yes") =>
    LET pos == (rounds - 1) % LineNum(Wss)
        lag == IF pos >= Distance THEN Distance ELSE Distance + 1
    IN  seen = IF rounds > lag THEN rounds - lag ELSE 0

=============================================================================
