--------------------------- MODULE MCRunLifecycle ---------------------------
(***************************************************************************)
(* Small instances of RunEventLog, and so of RunLifecycle: three tasks,    *)
(* plans that need retries, parallel branches, a join, and a plan listed   *)
(* against its dependencies.                                               *)
(***************************************************************************)
EXTENDS RunEventLog, TLC

PlanOf(dependencies, max_attempts) ==
  [dependencies |-> dependencies, max_attempts |-> max_attempts]

\* 1 and 2 in parallel, 3 joins them; 1 may be retried once.
Join == PlanOf(<<{}, {}, {1, 2}>>, <<2, 1, 1>>)

\* 2 and 3 depend on 1; 3 is listed last but 2 may be retried.
Fork == PlanOf(<<{}, {1}, {1}>>, <<1, 2, 1>>)

\* The plan order is the reverse of the dependency order.
Reversed == PlanOf(<<{2}, {3}, {}>>, <<1, 1, 2>>)

\* Three independent tasks, more than may be in flight at once.
Wide == PlanOf(<<{}, {}, {}>>, <<1, 1, 1>>)

MCPlans == {Join, Fork, Reversed, Wide}

Symmetry == Permutations(ExecutionIds)
=============================================================================
