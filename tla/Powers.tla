------------------------------- MODULE Powers -------------------------------
(* Powers of two, for the hash tables that take bits of a hash.             *)
EXTENDS Integers

\* (size_t)1 << n, and pow(2, n)
Pow2[n \in Nat] == IF n = 0 THEN 1 ELSE 2 * Pow2[n - 1]

=============================================================================
