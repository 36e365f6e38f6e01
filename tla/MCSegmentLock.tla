--------------------------- MODULE MCSegmentLock ---------------------------
(* Three threads on one segment: two can be inside while a third suspends. *)
EXTENDS SegmentLock

CONSTANTS t1, t2, t3

ThreeThreads == {t1, t2, t3}

=============================================================================
