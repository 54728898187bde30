-------------------------- MODULE MCEndpointHealth --------------------------
(* Small instances of EndpointHealth for TLC. *)
EXTENDS EndpointHealth

CONSTANTS a1, a2
=============================================================================
