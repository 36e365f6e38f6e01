------------------------------ MODULE MicroBench ------------------------------
(***************************************************************************)
(* main() of the micro benchmarks (cases/main.cpp): map the memory, call   *)
(* the test that -test names, unmap.  The tests with threads or with data  *)
(* structures of their own are modelled: 6 access_lat, 8                   *)
(* extreme_case_prefetching and 9 rd_throughput_against_prefetching        *)
(* (Chase), and 7 read_after_flush_lock_contention (Handover).             *)
(***************************************************************************)
EXTENDS Handover, Chase

VARIABLES
  test,     \* test_funcs[FLAGS_test]
  mapped    \* "yes" until munmap

microVars == <<test, mapped, handoverVars, chaseVars>>

MicroInit ==
  /\ mapped = "yes"
  /\ HandoverInit /\ ChaseInit
  /\ test \in {"lock_contention", func}

Died ==
  \/ boss = "fault" \/ p1 = "fault" \/ p2 = "fault"
  \/ main \in {"exit", "fault"}

LockContention ==
  /\ test = "lock_contention" /\ mapped = "yes" /\ ~Died
  /\ HandoverNext
  /\ UNCHANGED <<test, mapped, chaseVars>>

PointerChase ==
  /\ test = func /\ mapped = "yes" /\ ~Died
  /\ ChaseNext
  /\ UNCHANGED <<test, mapped, handoverVars>>

Returned ==
  IF test = "lock_contention" THEN boss = "idle" /\ run = Len(Runs)
                              ELSE main = "idle" /\ job = Len(jobs)

\* munmap, once the test has returned
Unmap ==
  /\ mapped = "yes" /\ Returned
  /\ mapped' = "no"
  /\ UNCHANGED <<test, handoverVars, chaseVars>>

MicroNext == LockContention \/ PointerChase \/ Unmap

\* The threads keep running; the sleep of the main thread ends.
MicroFairness ==
  /\ WF_microVars(PointerChase) /\ WF_microVars(Unmap)
  /\ WF_microVars(LockContention /\ Boss)
  /\ WF_microVars(LockContention /\ PassBarrier)
  /\ WF_microVars(LockContention /\ T1)
  /\ WF_microVars(LockContention /\ T2)

MicroSpec == MicroInit /\ [][MicroNext]_microVars /\ MicroFairness

-----------------------------------------------------------------------------
(* Properties                                                               *)

\* Whatever test was asked for, the process ends: every run of
\* read_after_flush_lock_contention is ended by end_flag although one thread
\* may wait for a word nobody will store any more, and every walk comes back
\* to its starting point.  (A test that is refused, a division by zero and a
\* region outside the memory end the process, Died; a walk through an
\* overwritten pointer does not count as an end.)
Returns == <>(mapped = "no" \/ Died)

=============================================================================
