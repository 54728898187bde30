------------------------ MODULE MCDeliveryRefinement ------------------------
(* Small instances of DeliveryRefinement for TLC. *)
EXTENDS DeliveryRefinement

CONSTANTS m1, m2, t1
=============================================================================
