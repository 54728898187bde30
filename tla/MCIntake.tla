------------------------------ MODULE MCIntake ------------------------------
(* Small instances of Intake for TLC. *)
EXTENDS Intake, TLC

CONSTANTS t1, t2, k1, k2, l1, l2

\* Threads, keys and letters are interchangeable among themselves.
Symmetry == Permutations(Threads) \cup Permutations(Keys) \cup Permutations(Letters)
=============================================================================
