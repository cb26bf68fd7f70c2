---------------------------- MODULE MCPlanGraph ----------------------------
(***************************************************************************)
(* All graphs over TaskCount tasks, and those in which the first or the    *)
(* last task has a dependency it must not have.                            *)
(***************************************************************************)
EXTENDS PlanGraph

WithDependencies(choices) == {[dependencies |-> d] : d \in choices}

WellNamed == {d \in [Tasks -> SUBSET Tasks] : \A t \in Tasks : t \notin d[t]}

Misnamed ==
  {[d EXCEPT ![t] = @ \cup {wrong}] : d \in {[u \in Tasks |-> {}], [u \in Tasks |-> {1} \ {u}]},
                                      t \in {1, TaskCount}, wrong \in Tasks \cup {Unknown}}

MCCandidates == WithDependencies(WellNamed \cup Misnamed)
=============================================================================
