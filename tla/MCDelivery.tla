----------------------------- MODULE MCDelivery -----------------------------
(* Small instances of Delivery for TLC. *)
EXTENDS Delivery, TLC

CONSTANTS m1, m2, t1, t2

\* Messages are interchangeable, and so are threads.
Symmetry == Permutations(Messages) \cup Permutations(Threads)
=============================================================================
