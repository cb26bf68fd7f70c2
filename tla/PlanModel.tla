----------------------------- MODULE PlanModel -----------------------------
(***************************************************************************)
(* PlanDefinition of researchflow.domain as a dependency graph, and the    *)
(* questions the runtime asks about it.  Tasks are numbered by their       *)
(* position in the plan, because the scheduler scans the plan in order.    *)
(***************************************************************************)
EXTENDS Naturals, FiniteSets

CONSTANT TaskCount   \* number of tasks of a plan

ASSUME TaskCountAssumption == TaskCount \in Nat \ {0}

Tasks == 1 .. TaskCount

(***************************************************************************)
(* What PlanDefinition.__post_init__ accepts: known dependencies, no self  *)
(* dependency, no cycle (each task can be given a rank above the ranks of  *)
(* its dependencies), and a positive attempt limit.                        *)
(***************************************************************************)
PlanShape ==
  [dependencies : [Tasks -> SUBSET Tasks], max_attempts : [Tasks -> Nat \ {0}]]

IsRanking(plan, rank) ==
  \A t \in Tasks : \A d \in plan.dependencies[t] : rank[d] < rank[t]

Acyclic(plan) == \E rank \in [Tasks -> Tasks] : IsRanking(plan, rank)

\* u depends on t, directly or not: t lies in every set of tasks that holds u and
\* the dependencies of all its members.
DependsOn(plan, u, t) ==
  \A S \in SUBSET Tasks :
    u \in S /\ (\A x \in S : plan.dependencies[x] \subseteq S) => t \in S

\* The tasks of the plan with a dependency in S.
Dependents(plan, S) == {u \in Tasks : plan.dependencies[u] \cap S # {}}

\* Faulty: only the direct dependents.
BlockedDescendants_Direct(plan, t) == Dependents(plan, {t})

\* What repeating the scan of the plan from t adds until nothing is added: the
\* least set that holds t and its own dependents, without t.
BlockedDescendants(plan, t) ==
  {u \in Tasks \ {t} :
     \A S \in SUBSET Tasks : t \in S /\ Dependents(plan, S) \subseteq S => u \in S}
=============================================================================
