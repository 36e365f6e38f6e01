------------------------------ MODULE MCHarness ------------------------------
(* Instances of Harness.                                                    *)
EXTENDS Harness

\* A read first, inserts after it.
ReadThenInserts == [n \in Indices |-> IF n = 0 THEN "READ" ELSE "INSERT"]

\* A dead slot holds the live value or something else.
Ids == 0 .. W
Thresholds == {PreRead, Modulus - 1}

=============================================================================
