------------------------------ MODULE MCCourier ------------------------------
(* A small instance of Courier for TLC. *)
EXTENDS Courier

CONSTANT m1
=============================================================================
