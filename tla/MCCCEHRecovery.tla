--------------------------- MODULE MCCCEHRecovery ---------------------------
(* Instances of CCEHRecovery.  A key is named by the four bits of its hash. *)
EXTENDS CCEHRecovery

CONSTANTS t1, t2

\* 0 and 1 double a directory of depth 2 twice; then 4 and 6 split a segment
\* with four entries.  With two keys there are three failures: they may interrupt
\* Recovery, follow it, and follow each other.
FourBits == {0, 1, 4, 6}
Wide == {[keys |-> {0, 1}, crashes |-> 3], [keys |-> FourBits, crashes |-> 1]}

\* 12 .. 15 belong to the group that ends the directory.
LastBits == {12, 14, 15}
Last == {[keys |-> LastBits, crashes |-> 1]}

HashOf == [k \in KeyWords |-> IF k \in Keys THEN k ELSE 0]

=============================================================================
