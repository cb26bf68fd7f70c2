-------------------------- MODULE MCRuntimeService --------------------------
(***************************************************************************)
(* Small instances of RuntimeService.                                      *)
(***************************************************************************)
EXTENDS RuntimeService, TLC

PlanOf(dependencies, max_attempts) ==
  [dependencies |-> dependencies, max_attempts |-> max_attempts]

\* One task that may be tried twice.
Single == {PlanOf(<<{}>>, <<2>>)}

\* Two tasks at a time, each tried once.
Pair == {PlanOf(<<{}, {}>>, <<1, 1>>)}

\* 1 depends on 2, against the order of the plan.
Chain == {PlanOf(<<{2}, {}>>, <<1, 2>>)}

PairOrChain == Pair \cup Chain

\* Hosts and requests are interchangeable.
Symmetry == Permutations(Requests) \cup Permutations(Hosts)
=============================================================================
