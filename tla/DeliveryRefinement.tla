------------------------- MODULE DeliveryRefinement -------------------------
(***************************************************************************)
(* Delivery implements WorkQueue.  The three steps of a fetch (select,     *)
(* claim, load) are one Take at the load: until then a claimed row is      *)
(* still ready, so that a cancel between claim and load takes nothing from *)
(* a worker.  A row left in flight by a stop is ready from the stop on:    *)
(* the recovery at the next start is a stutter.                            *)
(***************************************************************************)
EXTENDS Delivery

\* A row as WorkQueue sees it.
Seen(m) ==
    CASE status[m] = "pending" -> "ready"
      [] status[m] = "in_flight" -> IF m \in Active THEN "taken" ELSE "ready"
      [] OTHER -> status[m]

Queue == INSTANCE WorkQueue WITH
    row <- [m \in Messages |-> Seen(m)],
    working <- Active,
    accepted <- acked

\* The dispatcher and the handlers, in any interleaving and with any crash,
\* do what an atomic work queue does: no row is worked on that was not ready
\* when its batch was taken, none is delivered that was not accepted, none
\* that was deleted comes back.
ImplementsQueue == Queue!Spec
=============================================================================
