--------------------------- MODULE MCEventStream ---------------------------
(***************************************************************************)
(* A client following a run of one task that may be tried twice.           *)
(***************************************************************************)
EXTENDS EventStream

MCPlans == {[dependencies |-> <<{}>>, max_attempts |-> <<2>>]}
=============================================================================
