---------------------------- MODULE MCMicroBench ----------------------------
EXTENDS MicroBench

Handover4 ==
  <<[wss |-> 5, distance |-> 1, read |-> "yes"], [wss |-> 7, distance |-> 0, read |-> "yes"],
    [wss |-> 7, distance |-> 2, read |-> "yes"], [wss |-> 5, distance |-> 1, read |-> "no"]>>

Ptr(threads, wss, ord) ==
  [threads |-> threads, wss |-> wss, iterations |-> 2, order |-> ord,
   traverse |-> "chasing_ptr"]
Offset(threads, wss, ord) == [Ptr(threads, wss, ord) EXCEPT !.traverse = "calc_offset"]

\* Among the jobs: regions that do not divide the working set, pointers that an
\* earlier job has overwritten, a job that each size check refuses, and one that
\* none refuses although it does not fit.
Tests ==
  [lat |-> {<<Ptr(2, 7, "rand"), Offset(2, 6, "rand"), Ptr(3, 6, "seq")>>,
            <<Offset(2, 5, "rand"), Ptr(1, 4, "rand"), Ptr(1, 8, "seq")>>},
   extreme |-> {<<Ptr(1, 4, "rand"), Ptr(1, 3, "rand")>>, <<Ptr(1, 9, "rand")>>},
   tput |-> {<<Ptr(2, 6, "rand"), Ptr(3, 7, "rand")>>, <<Ptr(2, 10, "rand")>>}]
=============================================================================
