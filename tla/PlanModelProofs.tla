--------------------------- MODULE PlanModelProofs ---------------------------
(***************************************************************************)
(* Who depends on a failed task, from either end of the dependencies, for  *)
(* every plan whose dependencies are known.                                *)
(***************************************************************************)
EXTENDS PlanModel, TLAPS

\* A set closed under dependents is the complement of one closed under dependencies.
LEMMA ClosedComplement ==
  ASSUME NEW plan, \A x \in Tasks : plan.dependencies[x] \subseteq Tasks,
         NEW S \in SUBSET Tasks
  PROVE  Dependents(plan, S) \subseteq S
           <=> \A x \in Tasks \ S : plan.dependencies[x] \subseteq Tasks \ S
BY DEF Dependents

\* The tasks found by going from the failed task to its dependents are the ones that
\* reach it by their dependencies.  (_blocked_descendants goes one way, the meaning of
\* a blocked task the other.)
THEOREM BlockedDependOnFailed ==
  ASSUME NEW plan, \A x \in Tasks : plan.dependencies[x] \subseteq Tasks,
         NEW t \in Tasks, NEW u \in Tasks \ {t}
  PROVE  u \in BlockedDescendants(plan, t) <=> DependsOn(plan, u, t)
<1>1. ASSUME u \in BlockedDescendants(plan, t),
             NEW S \in SUBSET Tasks, u \in S, \A x \in S : plan.dependencies[x] \subseteq S
      PROVE  t \in S
  <2> SUFFICES ASSUME t \notin S PROVE FALSE
    OBVIOUS
  <2> DEFINE T == Tasks \ S
  <2>1. T \in SUBSET Tasks /\ Tasks \ T = S /\ t \in T
    OBVIOUS
  <2>2. Dependents(plan, T) \subseteq T
    BY <1>1, <2>1, ClosedComplement
  <2> QED
    BY <1>1, <2>1, <2>2 DEF BlockedDescendants
<1>2. ASSUME DependsOn(plan, u, t),
             NEW S \in SUBSET Tasks, t \in S, Dependents(plan, S) \subseteq S
      PROVE  u \in S
  <2>1. \A x \in Tasks \ S : plan.dependencies[x] \subseteq Tasks \ S
    BY <1>2, ClosedComplement
  <2>2. Tasks \ S \in SUBSET Tasks
    OBVIOUS
  <2> QED
    BY <1>2, <2>1, <2>2 DEF DependsOn
<1> QED
  BY <1>1, <1>2 DEF BlockedDescendants, DependsOn
=============================================================================
