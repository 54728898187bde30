----------------------------- MODULE MCAlerting -----------------------------
(* Small instances of Alerting for TLC. *)
EXTENDS Alerting

CONSTANTS t1, t2, c1, c2
=============================================================================
