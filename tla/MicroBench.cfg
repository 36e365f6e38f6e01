\* Tests 6 to 9 of the micro benchmarks, two or three threads, regions of two
\* to four units and nine rounds of the lock hand-over.  Deadlock is not
\* checked: the process ends.
CONSTANTS
  LINE = 2
  MaxRounds = 9
  Runs <- Handover4
  Jobs <- Tests
  MaxSize = 8
SPECIFICATION MicroSpec
CHECK_DEADLOCK FALSE
INVARIANT SampleMatches
INVARIANT AverageClose
INVARIANT ReadLag
INVARIANT EachOnce
INVARIANT MeasureSpans
PROPERTY Returns
