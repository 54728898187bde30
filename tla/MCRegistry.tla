------------------------------ MODULE MCRegistry ------------------------------
(* A small instance of Registry for TLC. *)
EXTENDS Registry, TLC

CONSTANTS a1, t1, t2

\* One endpoint of the application, two event types.
TwoTypes == {<<"e1", "created">>, <<"e1", "paid">>}

AllOfA1 == [pair \in TwoTypes |-> a1]

\* Threads are interchangeable.
Symmetry == Permutations(Threads)
=============================================================================
