------------------------------ MODULE PlanGraph ------------------------------
(***************************************************************************)
(* The two graph algorithms a run depends on, step by step:                *)
(*  - the validation of a plan in PlanDefinition (a depth-first search     *)
(*    that may meet the dependencies of a task in any order), and          *)
(*  - the loop of RuntimeService that collects the tasks blocked by a      *)
(*    failed one, on a plan that was accepted.                             *)
(* `path` is the recursion of visit(): the tasks whose call has not        *)
(* returned, the innermost last.  `rank` is a history variable: how many   *)
(* tasks were visited when t was.                                          *)
(***************************************************************************)
EXTENDS PlanModel, Sequences

CONSTANTS
  Unknown,      \* a dependency that names no task of the plan
  Candidates    \* the plans a planner may try to construct

ASSUME UnknownAssumption == Unknown \notin Tasks

Graphs == [dependencies : [Tasks -> SUBSET (Tasks \cup {Unknown})]]

ASSUME CandidatesAssumption == Candidates \subseteq Graphs

VARIABLES
  plan,      \* the plan under construction
  verdict,   \* "unchecked", "searching", "accepted" or "rejected"
  visiting,  \* the local sets of _validate_graph
  visited,
  path,
  todo,      \* for each task being visited, the dependencies not yet visited from it
  rank,
  failed,    \* the task that failed when the accepted plan ran; Unknown before
  blocked,   \* the local set of _blocked_descendants
  returned   \* the loop has ended with `blocked`, the failed task included

searchVars == <<verdict, visiting, visited, path, todo, rank>>
loopVars   == <<failed, blocked, returned>>
vars       == <<plan, searchVars, loopVars>>

Top == path[Len(path)]

Init ==
  /\ plan \in Candidates
  /\ verdict = "unchecked"
  /\ visiting = {}
  /\ visited = {}
  /\ path = <<>>
  /\ todo = [t \in Tasks |-> {}]
  /\ rank = [t \in Tasks |-> 0]
  /\ failed = Unknown
  /\ blocked = {}
  /\ returned = FALSE

\* Faulty: the names of dependencies are not looked up.
CheckDependencies_SelfOnly ==
  /\ verdict = "unchecked"
  /\ verdict' = IF \E t \in Tasks : t \in plan.dependencies[t] THEN "rejected" ELSE "searching"
  /\ UNCHANGED <<plan, visiting, visited, path, todo, rank, loopVars>>

\* TaskSpec refuses a task that depends on itself; the plan refuses unknown names.
CheckDependencies ==
  /\ verdict = "unchecked"
  /\ verdict' = IF \E t \in Tasks : t \in plan.dependencies[t]
                                    \/ Unknown \in plan.dependencies[t]
                  THEN "rejected"
                  ELSE "searching"
  /\ UNCHANGED <<plan, visiting, visited, path, todo, rank, loopVars>>

\* A call of visit() for a task that is neither visiting nor visited.
Enter(t) ==
  /\ visiting' = visiting \cup {t}
  /\ path' = Append(path, t)

\* The outer loop visits the tasks in plan order; a visited one returns at once.
VisitNextTask(t) ==
  /\ verdict = "searching"
  /\ path = <<>>
  /\ t \notin visited
  /\ \A u \in Tasks \ visited : t <= u
  /\ Enter(t)
  /\ todo' = [todo EXCEPT ![t] = plan.dependencies[t]]
  /\ UNCHANGED <<plan, verdict, visited, rank, loopVars>>

\* Faulty: a visited task is not told from one being visited.
VisitDependency_VisitingIsVisited(d) ==
  /\ verdict = "searching"
  /\ path # <<>>
  /\ d \in todo[Top]
  /\ IF d \in visiting \/ d \in visited
       THEN /\ todo' = [todo EXCEPT ![Top] = @ \ {d}]
            /\ UNCHANGED <<visiting, path>>
       ELSE /\ Enter(d)
            /\ todo' = [todo EXCEPT ![Top] = @ \ {d}, ![d] = plan.dependencies[d]]
  /\ UNCHANGED <<plan, verdict, visited, rank, loopVars>>

\* visit(d) from the innermost call: a cycle, nothing to do, or a deeper call.
VisitDependency(d) ==
  /\ verdict = "searching"
  /\ path # <<>>
  /\ d \in todo[Top]
  /\ \/ /\ d \in visiting
        /\ verdict' = "rejected"
        /\ UNCHANGED <<visiting, path, todo>>
     \/ /\ d \in visited
        /\ todo' = [todo EXCEPT ![Top] = @ \ {d}]
        /\ UNCHANGED <<verdict, visiting, path>>
     \/ /\ d \notin visiting \cup visited
        /\ Enter(d)
        /\ todo' = [todo EXCEPT ![Top] = @ \ {d}, ![d] = plan.dependencies[d]]
        /\ UNCHANGED verdict
  /\ UNCHANGED <<plan, visited, rank, loopVars>>

\* Faulty: the returning call leaves its task among those being visited.
Leave_StillVisiting ==
  /\ verdict = "searching"
  /\ path # <<>>
  /\ todo[Top] = {}
  /\ visited' = visited \cup {Top}
  /\ path' = SubSeq(path, 1, Len(path) - 1)
  /\ rank' = [rank EXCEPT ![Top] = Cardinality(visited) + 1]
  /\ UNCHANGED <<plan, verdict, visiting, todo, loopVars>>

\* The innermost call has visited all dependencies and returns.
Leave ==
  /\ verdict = "searching"
  /\ path # <<>>
  /\ todo[Top] = {}
  /\ visiting' = visiting \ {Top}
  /\ visited' = visited \cup {Top}
  /\ path' = SubSeq(path, 1, Len(path) - 1)
  /\ rank' = [rank EXCEPT ![Top] = Cardinality(visited) + 1]
  /\ UNCHANGED <<plan, verdict, todo, loopVars>>

\* The outer loop is over: __post_init__ returns and the plan exists.
Accept ==
  /\ verdict = "searching"
  /\ path = <<>>
  /\ visited = Tasks
  /\ verdict' = "accepted"
  /\ UNCHANGED <<plan, visiting, visited, path, todo, rank, loopVars>>

\* A task of the accepted plan fails for good.
TaskFails(t) ==
  /\ verdict = "accepted"
  /\ failed = Unknown
  /\ failed' = t
  /\ blocked' = {t}
  /\ UNCHANGED <<plan, searchVars, returned>>

\* Faulty: looks at each task once, in plan order, instead of until nothing changes.
ExpandBlocked_OneRound ==
  /\ failed # Unknown
  /\ ~returned
  /\ blocked' = blocked \cup Dependents(plan, blocked)
  /\ returned' = TRUE
  /\ UNCHANGED <<plan, searchVars, failed>>

\* Faulty: the loop ends only when every task is blocked.
ExpandBlocked_UntilAll ==
  /\ failed # Unknown
  /\ ~returned
  /\ blocked' = blocked \cup Dependents(plan, blocked)
  /\ returned' = (blocked' = Tasks)
  /\ UNCHANGED <<plan, searchVars, failed>>

\* One round of the loop; a round that adds nothing is the last.
ExpandBlocked ==
  /\ failed # Unknown
  /\ ~returned
  /\ blocked' = blocked \cup Dependents(plan, blocked)
  /\ returned' = (blocked' = blocked)
  /\ UNCHANGED <<plan, searchVars, failed>>

Search ==
  \/ CheckDependencies
  \/ \E t \in Tasks : VisitNextTask(t)
  \/ \E d \in Tasks \cup {Unknown} : VisitDependency(d)
  \/ Leave
  \/ Accept

Next ==
  \/ Search
  \/ \E t \in Tasks : TaskFails(t)
  \/ ExpandBlocked

Spec == Init /\ [][Next]_vars

\* Both algorithms run to their end without waiting for anything.
FairSpec == Spec /\ WF_vars(Search) /\ WF_vars(ExpandBlocked)

-----------------------------------------------------------------------------
(***************************************************************************)
(* Properties                                                              *)
(***************************************************************************)
TypeOK ==
  /\ plan \in Graphs
  /\ verdict \in {"unchecked", "searching", "accepted", "rejected"}
  /\ visiting \in SUBSET Tasks
  /\ visited \in SUBSET Tasks
  /\ path \in Seq(Tasks)
  /\ todo \in [Tasks -> SUBSET (Tasks \cup {Unknown})]
  /\ rank \in [Tasks -> Nat]
  /\ failed \in Tasks \cup {Unknown}
  /\ blocked \in SUBSET Tasks
  /\ returned \in BOOLEAN

KnownDependencies == \A t \in Tasks : plan.dependencies[t] \subseteq Tasks

\* Validation accepts no plan with an unknown dependency or a cycle: the scheduler
\* would stall on it.
AcceptedIsAcyclic == verdict = "accepted" => KnownDependencies /\ Acyclic(plan)

\* Validation refuses no plan the scheduler could run, whatever shape its branches
\* and joins have.
RejectedIsCyclic == verdict = "rejected" => ~(KnownDependencies /\ Acyclic(plan))

\* What the loop returns for a failed task are exactly the tasks that depend on it,
\* directly or not, in whatever order the plan lists them; and it is the set that
\* the snapshot's transition uses.
BlockedIsExact ==
  returned =>
    /\ blocked \ {failed} = BlockedDescendants(plan, failed)
    /\ \A u \in Tasks \ {failed} : u \in blocked <=> DependsOn(plan, u, failed)

\* Every construction of a plan ends with a verdict, and the loop returns: a cycle
\* never keeps the search or the loop going.
AlgorithmsEnd ==
  /\ <>(verdict \in {"accepted", "rejected"})
  /\ failed # Unknown ~> returned
=============================================================================
