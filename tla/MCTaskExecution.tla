-------------------------- MODULE MCTaskExecution --------------------------
(***************************************************************************)
(* Two tasks in a chain, of which the first may be retried.  Both may      *)
(* store the same content, and so may the execution a pause has left       *)
(* behind.                                                                 *)
(***************************************************************************)
EXTENDS TaskExecution

MCPlans == {[dependencies |-> <<{}, {1}>>, max_attempts |-> <<2, 1>>]}
=============================================================================
