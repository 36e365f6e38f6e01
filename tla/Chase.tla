-------------------------------- MODULE Chase --------------------------------
(***************************************************************************)
(* The pointer-chasing micro benchmarks: access_lat (cases/lat.cpp), and   *)
(* extreme_case_prefetching and rd_throughput_against_prefetching          *)
(* (cases/prefetching.cpp).  Each worker links the units of its own region *)
(* into one cycle, in sequence or shuffled, waits for the others and walks *)
(* the cycle from random units, while a collector reads the DIMM counters. *)
(* Both unit types have 256 bytes: sizes and addresses count units.        *)
(***************************************************************************)
EXTENDS Integers, Sequences, FiniteSets

CONSTANTS
  Jobs,      \* Jobs[f] : sequences of calls of run() (or func()) in test f
  MaxSize    \* max_size

JobSet == [threads : Nat \ {0}, wss : Nat, iterations : Nat \ {0},
           order : {"seq", "rand"}, traverse : {"chasing_ptr", "calc_offset"}]

\* extreme_case_prefetching has no threads of its own.
ASSUME ChaseAssumption ==
  /\ MaxSize \in Nat \ {0}
  /\ Jobs \in [{"lat", "extreme", "tput"} -> SUBSET Seq(JobSet)]
  /\ \A js \in Jobs["extreme"] : \A i \in 1 .. Len(js) : js[i].threads = 1

VARIABLES
  func,      \* "lat", "extreme" or "tput": the test that runs
  jobs,      \* its jobs
  job,       \* how many of them have started
  main,      \* "idle", "join", and when the process is gone: "exit", "fault" (beyond
             \* the memory) or "wild" (through a pointer that was overwritten)
  lock,      \* result.lock
  measure,   \* the job whose collector exists; 0 for none
  next,      \* the next pointer of every unit in memory
  wp, order, start, at, iter,     \* the workers: where they are, and their locals
  hits,      \* how often the current iteration has accessed each unit
  feedback   \* the job each worker has reported for

walk == <<start, at, iter, hits>>
chaseVars == <<func, jobs, job, main, lock, measure, next, wp, order, walk, feedback>>

Garbage == -1
Job == jobs[job]
Workers == DOMAIN wp
UnitNum == Job.wss \div Job.threads

\* Mutant: neighbouring regions share a unit.
BaseShared(w) == IF w = 0 THEN 0 ELSE w * (UnitNum - 1)

\* addr + tid * thread_wss, in units
Base(w) == w * UnitNum

Region(w) == Base(w) .. Base(w) + UnitNum - 1

\* nt_bzero has filled every next pointer with ones.
ChaseInit ==
  /\ func \in DOMAIN Jobs /\ jobs \in Jobs[func]
  /\ job = 0 /\ main = "idle" /\ lock = 0 /\ measure = 0
  /\ next = [u \in 0 .. MaxSize - 1 |-> Garbage]
  /\ wp = <<>> /\ order = <<>> /\ feedback = <<>>
  /\ start = <<>> /\ at = <<>> /\ iter = <<>> /\ hits = <<>>

-----------------------------------------------------------------------------
(* The main thread                                                          *)

ForAllWorkers(j, x) == [w \in 0 .. j.threads - 1 |-> x]

Spawn(j) ==
  /\ job' = job + 1
  /\ wp' = ForAllWorkers(j, "build")
  /\ order' = ForAllWorkers(j, <<>>)
  /\ start' = ForAllWorkers(j, 0) /\ at' = ForAllWorkers(j, 0) /\ iter' = ForAllWorkers(j, 0)
  /\ hits' = ForAllWorkers(j, [u \in 0 .. MaxSize - 1 |-> 0])
  /\ feedback' = ForAllWorkers(j, 0)
  /\ UNCHANGED <<func, jobs, next>>

\* Mutant: result.lock keeps the value of the last job.
StartLatLocked ==
  /\ main = "idle" /\ func = "lat" /\ job < Len(jobs)
  /\ main' = IF jobs[job + 1].wss >= MaxSize THEN "exit" ELSE "join"
  /\ Spawn(jobs[job + 1])
  /\ UNCHANGED <<lock, measure>>

\* run() of access_lat
StartLat ==
  /\ main = "idle" /\ func = "lat" /\ job < Len(jobs)
  /\ main' = IF jobs[job + 1].wss >= MaxSize THEN "exit" ELSE "join"
  /\ lock' = 0
  /\ Spawn(jobs[job + 1])
  /\ UNCHANGED measure

\* func() of extreme_case_prefetching: the main thread is the only worker.
StartExtreme ==
  /\ main = "idle" /\ func = "extreme" /\ job < Len(jobs)
  /\ main' = "join"
  /\ Spawn(jobs[job + 1])
  /\ UNCHANGED <<lock, measure>>

\* run() of rd_throughput_against_prefetching: the collector comes first.
StartTput ==
  /\ main = "idle" /\ func = "tput" /\ job < Len(jobs)
  /\ main' = "join"
  /\ measure' = job + 1
  /\ Spawn(jobs[job + 1])
  /\ UNCHANGED lock

\* All workers joined: the collector goes, the report reads every feedback.
Join ==
  /\ main = "join" /\ \A w \in Workers : wp[w] = "done"
  /\ main' = "idle"
  /\ measure' = 0
  /\ UNCHANGED <<func, jobs, job, lock, next, wp, order, walk, feedback>>

-----------------------------------------------------------------------------
(* A worker, up to the barrier                                              *)

\* The orders random_shuffle can leave, as functions of the position.
Orders(n) ==
  IF Job.order = "seq" THEN {[i \in 0 .. n - 1 |-> i]}
  ELSE {o \in [0 .. n - 1 -> 0 .. n - 1] : \A i, j \in 0 .. n - 1 : o[i] = o[j] => i = j}

\* Where unit u points once the units are linked in the order o.
Link(o, n) ==
  [u \in 0 .. n - 1 |->
     LET i == CHOOSE k \in 0 .. n - 1 : o[k] = u
     IN  IF i = n - 1 THEN o[0] ELSE o[i + 1]]

Fits == func = "lat" \/ (UnitNum <= MaxSize /\ UnitNum > 1)

\* The size check of the prefetching tests calls exit() from the worker.
TooLarge(w) ==
  /\ main = "join" /\ wp[w] = "build" /\ ~Fits
  /\ main' = "exit"
  /\ UNCHANGED <<func, jobs, job, lock, measure, next, wp, order, walk, feedback>>

\* No check looks at where the region of the worker ends, or at an empty one.
OutOfBounds(w) ==
  /\ main = "join" /\ wp[w] = "build" /\ Fits
  /\ UnitNum = 0 \/ ~ Region(w) \subseteq 0 .. MaxSize - 1
  /\ main' = "fault"
  /\ UNCHANGED <<func, jobs, job, lock, measure, next, wp, order, walk, feedback>>

Build(w) ==
  /\ main = "join" /\ wp[w] = "build" /\ Fits
  /\ UnitNum > 0 /\ Region(w) \subseteq 0 .. MaxSize - 1
  /\ \E o \in Orders(UnitNum) :
       /\ order' = [order EXCEPT ![w] = o]
       /\ next' = [u \in DOMAIN next |->
                     IF u \in Region(w) THEN Base(w) + Link(o, UnitNum)[u - Base(w)] ELSE next[u]]
  /\ wp' = [wp EXCEPT ![w] = CASE func = "lat" -> "claim"
                               [] func = "tput" -> "barrier"
                               [] func = "extreme" -> "create"]
  /\ UNCHANGED <<func, jobs, job, main, lock, measure, walk, feedback>>

\* compare_exchange_weak on result.lock, which fails on x86 only when it differs
Claim(w) ==
  /\ main = "join" /\ wp[w] = "claim"
  /\ lock' = 1
  /\ wp' = [wp EXCEPT ![w] = IF lock = 0 THEN "create" ELSE "barrier"]
  /\ UNCHANGED <<func, jobs, job, main, measure, next, order, walk, feedback>>

\* measure = new PmmDataCollector
Create(w) ==
  /\ main = "join" /\ wp[w] = "create"
  /\ measure' = job
  /\ wp' = [wp EXCEPT ![w] = "barrier"]
  /\ UNCHANGED <<func, jobs, job, main, lock, next, order, walk, feedback>>

\* pthread_barrier_wait with as many threads as were started
Barrier ==
  /\ main = "join" /\ \A w \in Workers : wp[w] = "barrier"
  /\ wp' = [w \in Workers |-> "loop"]
  /\ UNCHANGED <<func, jobs, job, main, lock, measure, next, order, walk, feedback>>

-----------------------------------------------------------------------------
(* A worker, behind the barrier                                             *)

Lat == func = "lat"
Calc == Lat /\ Job.traverse = "calc_offset"

\* The next iteration: a random starting point, and in access_lat its successor
BeginIteration(w) ==
  /\ main = "join" /\ wp[w] = "loop" /\ iter[w] < Job.iterations
  /\ iter' = [iter EXCEPT ![w] = @ + 1]
  /\ hits' = [hits EXCEPT ![w] = [u \in 0 .. MaxSize - 1 |-> 0]]
  /\ \E s \in IF Calc THEN {0} ELSE Region(w) :
       /\ start' = [start EXCEPT ![w] = s]
       /\ at' = [at EXCEPT ![w] = IF Lat /\ ~Calc THEN next[s] ELSE s]
  /\ wp' = [wp EXCEPT ![w] = "walk"]
  /\ UNCHANGED <<func, jobs, job, main, lock, measure, next, order, feedback>>

\* calc_lat stores 64 zero bytes at the start of the unit: over its next pointer.
CalcStep(w) ==
  /\ main = "join" /\ wp[w] = "walk" /\ Calc
  /\ LET u == Base(w) + order[w][at[w]] IN
       /\ hits' = [hits EXCEPT ![w][u] = @ + 1]
       /\ next' = [next EXCEPT ![u] = Garbage]
  /\ at' = [at EXCEPT ![w] = @ + 1]
  /\ wp' = [wp EXCEPT ![w] = IF at[w] + 1 < UnitNum THEN "walk" ELSE "loop"]
  /\ UNCHANGED <<func, jobs, job, main, lock, measure, order, start, iter, feedback>>

\* chase_ptr_lat: while (p != starting_point) { access p; p = p->next; }
LatStep(w) ==
  /\ main = "join" /\ wp[w] = "walk" /\ Lat /\ ~Calc
  /\ IF at[w] = start[w]
     THEN wp' = [wp EXCEPT ![w] = "loop"] /\ UNCHANGED <<main, at, hits>>
     ELSE IF at[w] = Garbage
     THEN main' = "wild" /\ UNCHANGED <<wp, at, hits>>
     ELSE /\ hits' = [hits EXCEPT ![w][at[w]] = @ + 1]
          /\ at' = [at EXCEPT ![w] = next[at[w]]]
          /\ UNCHANGED <<main, wp>>
  /\ UNCHANGED <<func, jobs, job, lock, measure, next, order, start, iter, feedback>>

\* The prefetching tests: access, follow next, stop at the starting point.
WalkStep(w) ==
  /\ main = "join" /\ wp[w] = "walk" /\ ~Lat
  /\ IF at[w] = Garbage
     THEN main' = "wild" /\ UNCHANGED <<wp, at, hits>>
     ELSE /\ hits' = [hits EXCEPT ![w][at[w]] = @ + 1]
          /\ at' = [at EXCEPT ![w] = next[at[w]]]
          /\ wp' = [wp EXCEPT ![w] = IF next[at[w]] = start[w] THEN "loop" ELSE "walk"]
          /\ UNCHANGED main
  /\ UNCHANGED <<func, jobs, job, lock, measure, next, order, start, iter, feedback>>

Finish(w) ==
  /\ main = "join" /\ wp[w] = "loop" /\ iter[w] = Job.iterations
  /\ wp' = [wp EXCEPT ![w] = "done"]
  /\ feedback' = [feedback EXCEPT ![w] = job]
  /\ UNCHANGED <<func, jobs, job, main, lock, measure, next, order, walk>>

-----------------------------------------------------------------------------

Worker(w) ==
  \/ TooLarge(w) \/ OutOfBounds(w) \/ Build(w) \/ Claim(w) \/ Create(w)
  \/ BeginIteration(w) \/ CalcStep(w) \/ LatStep(w) \/ WalkStep(w) \/ Finish(w)

Main == StartLat \/ StartExtreme \/ StartTput \/ Join

ChaseNext == Main \/ Barrier \/ \E w \in Workers : Worker(w)

\* Some thread that can run does.
ChaseFairness == WF_chaseVars(ChaseNext)

-----------------------------------------------------------------------------
(* Properties                                                               *)

\* No walk follows a pointer that an earlier job has overwritten, and an
\* iteration accesses every unit of the worker's own region exactly once and no
\* unit of another worker, whatever the order, the starting point and the steps
\* of the other workers; only the pointer chase of access_lat leaves out its
\* starting point.  (Unless a region leaves the mapped memory: OutOfBounds.)
EachOnce ==
  /\ main # "wild"
  /\ main # "fault" =>
       \A w \in Workers :
         /\ \A u \in DOMAIN hits[w] : hits[w][u] <= IF u \in Region(w) THEN 1 ELSE 0
         /\ (wp[w] \in {"loop", "done"} /\ iter[w] > 0) =>
              \A u \in Region(w) : hits[w][u] = IF Lat /\ ~Calc /\ u = start[w] THEN 0 ELSE 1

\* Exactly one collector is created for a job, before anybody walks, and it
\* is deleted with the job, after the last walk; the report finds a feedback
\* of this job from every worker.
MeasureSpans ==
  /\ \A w \in Workers : wp[w] \in {"loop", "walk", "done"} => measure = job \/ main # "join"
  /\ \A w \in Workers : wp[w] = "create" => measure = 0
  /\ Cardinality({w \in Workers : wp[w] = "create"}) <= 1
  /\ main = "idle" => measure = 0 /\ \A w \in Workers : feedback[w] = job

=============================================================================
