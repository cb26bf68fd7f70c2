------------------------------ MODULE RunModel ------------------------------
(***************************************************************************)
(* The immutable run snapshot of researchflow.domain and the pure state    *)
(* transitions RuntimeService builds from it with dataclasses.replace().   *)
(* Nothing here touches a store: every operator takes a snapshot and       *)
(* returns the changed snapshot that the caller then tries to commit.      *)
(*                                                                         *)
(* A dict keyed by task id is a total function here; a missing key is      *)
(* "absent" (statuses), None (ids, outputs) or 0 (attempts).  An output    *)
(* stands for task_outputs[t] together with task_artifacts[t] - always     *)
(* written by one commit - and is identified by the execution that         *)
(* produced it.                                                            *)
(***************************************************************************)
EXTENDS PlanModel, Sequences

CONSTANTS
  Plans,          \* the plans a planner may return
  ArtifactTasks,  \* the tasks whose capability returns an artifact
  MaxConcurrency, \* RunBudget.max_concurrency
  ExecutionIds,   \* the uuid4 values handed out to executions
  None            \* Python's None, and a key missing from a dict

RunStatus ==
  {"created", "planned", "running", "paused", "succeeded", "failed", "cancelled"}

TerminalRunStatuses == {"succeeded", "failed", "cancelled"}

TaskStatus ==
  {"pending", "ready", "running", "succeeded", "failed", "blocked", "cancelled"}

ASSUME PlansAssumption          == \A p \in Plans : p \in PlanShape /\ Acyclic(p)
ASSUME ArtifactTasksAssumption  == ArtifactTasks \subseteq Tasks
ASSUME MaxConcurrencyAssumption == MaxConcurrency \in Nat \ {0}
ASSUME NoneAssumption ==
  None \notin ExecutionIds /\ None \notin Plans /\ None \notin Tasks

MaybeExecution == ExecutionIds \cup {None}

Snapshot ==
  [status             : RunStatus,
   version            : Nat,
   plan               : Plans \cup {None},
   task_statuses      : [Tasks -> TaskStatus \cup {"absent"}],
   task_outputs       : [Tasks -> MaybeExecution],
   task_errors        : SUBSET Tasks,
   task_attempts      : [Tasks -> Nat],
   task_execution_ids : [Tasks -> MaybeExecution]]

\* What a claim gives an execution: its task and the number of the attempt.
Lease == [task : Tasks, epoch : Nat \ {0}]

ASSUME LeaseAssumption == None \notin Lease

(***************************************************************************)
(* Queries                                                                 *)
(***************************************************************************)
InFlight(s) == {t \in Tasks : s.task_statuses[t] = "running"}

AllTasksSucceeded(s) ==
  /\ s.plan # None
  /\ \A t \in Tasks : s.task_statuses[t] = "succeeded"

DependenciesSucceeded(s, t) ==
  \A d \in s.plan.dependencies[t] : s.task_statuses[d] = "succeeded"

\* Faulty: starts a task as soon as its dependencies have been picked up.
RunnableTasks_DependenciesStarted(s) ==
  {t \in Tasks :
     \/ s.task_statuses[t] = "ready"
     \/ /\ s.task_statuses[t] = "pending"
        /\ \A d \in s.plan.dependencies[t] : s.task_statuses[d] # "pending"}

\* Faulty: forgets the tasks a pause or a retry put back to ready.
RunnableTasks_PendingOnly(s) ==
  {t \in Tasks : s.task_statuses[t] = "pending" /\ DependenciesSucceeded(s, t)}

\* A ready task runs without looking at its dependencies again.
RunnableTasks(s) ==
  {t \in Tasks : \/ s.task_statuses[t] = "ready"
                 \/ s.task_statuses[t] = "pending" /\ DependenciesSucceeded(s, t)}

\* The scheduler takes the first runnable task in plan order.
IsNextRunnable(s, t) ==
  /\ t \in RunnableTasks(s)
  /\ \A u \in RunnableTasks(s) : t <= u

\* Faulty: any execution may report for a running task.
IsActiveExecution_AnyLease(s, t, e) ==
  s.status = "running" /\ s.task_statuses[t] = "running"

IsActiveExecution(s, t, e) ==
  /\ s.status = "running"
  /\ s.task_statuses[t] = "running"
  /\ s.task_execution_ids[t] = e

(***************************************************************************)
(* Transitions.  None of them touches the version: the commit does.        *)
(***************************************************************************)
NewRun ==
  [status             |-> "created",
   version            |-> 0,
   plan               |-> None,
   task_statuses      |-> [t \in Tasks |-> "absent"],
   task_outputs       |-> [t \in Tasks |-> None],
   task_errors        |-> {},
   task_attempts      |-> [t \in Tasks |-> 0],
   task_execution_ids |-> [t \in Tasks |-> None]]

WithStatus(s, status) == [s EXCEPT !.status = status]

Planned(s, plan) ==
  [s EXCEPT !.status        = "planned",
            !.plan          = plan,
            !.task_statuses = [t \in Tasks |-> "pending"]]

\* Faulty: the leases survive the pause.
Paused_KeepingLeases(s) ==
  [s EXCEPT
     !.status        = "paused",
     !.task_statuses = [t \in Tasks |-> IF t \in InFlight(s) THEN "ready" ELSE @[t]]]

\* Faulty: gives the interrupted attempt back.
Paused_RefundingAttempts(s) ==
  [s EXCEPT
     !.status             = "paused",
     !.task_statuses      = [t \in Tasks |-> IF t \in InFlight(s) THEN "ready" ELSE @[t]],
     !.task_attempts      = [t \in Tasks |-> IF t \in InFlight(s) THEN @[t] - 1 ELSE @[t]],
     !.task_execution_ids = [t \in Tasks |-> IF t \in InFlight(s) THEN None ELSE @[t]]]

\* Pausing keeps the attempt count but takes the lease of every running task.
Paused(s) ==
  [s EXCEPT
     !.status             = "paused",
     !.task_statuses      = [t \in Tasks |-> IF t \in InFlight(s) THEN "ready" ELSE @[t]],
     !.task_execution_ids = [t \in Tasks |-> IF t \in InFlight(s) THEN None ELSE @[t]]]

\* Faulty: cancels the succeeded tasks too.
Cancelled_Everything(s) ==
  [s EXCEPT
     !.status             = "cancelled",
     !.task_statuses      = [t \in Tasks |-> IF @[t] = "absent" THEN @[t] ELSE "cancelled"],
     !.task_execution_ids = [t \in Tasks |-> None]]

Cancelled(s) ==
  [s EXCEPT
     !.status             = "cancelled",
     !.task_statuses      = [t \in Tasks |->
                               IF @[t] \in {"succeeded", "absent"} THEN @[t] ELSE "cancelled"],
     !.task_execution_ids = [t \in Tasks |-> None]]

TaskReady(s, t) == [s EXCEPT !.task_statuses[t] = "ready"]

TaskRunning(s, t, e) ==
  [s EXCEPT !.task_statuses[t]      = "running",
            !.task_attempts[t]      = @ + 1,
            !.task_execution_ids[t] = e]

TaskSucceeded(s, t, e) ==
  [s EXCEPT !.task_statuses[t]      = "succeeded",
            !.task_outputs[t]       = e,
            !.task_errors           = @ \ {t},
            !.task_execution_ids[t] = None]

TaskRetrying(s, t) ==
  [s EXCEPT !.task_statuses[t]      = "ready",
            !.task_errors           = @ \cup {t},
            !.task_execution_ids[t] = None]

TaskAndRunFailed(s, t) ==
  [s EXCEPT
     !.status             = "failed",
     !.task_statuses      = [u \in Tasks |->
                               IF u = t THEN "failed"
                               ELSE IF @[u] = "succeeded" THEN @[u]
                               ELSE IF u \in BlockedDescendants(s.plan, t) THEN "blocked"
                               ELSE "cancelled"],
     !.task_errors        = @ \cup {t},
     !.task_execution_ids = [u \in Tasks |-> None]]

\* No runnable task and none in flight although some have not succeeded.
BlockedRunFailed(s) ==
  [s EXCEPT
     !.status        = "failed",
     !.task_statuses = [t \in Tasks |-> IF @[t] = "succeeded" THEN @[t] ELSE "blocked"]]

(***************************************************************************)
(* Events, reduced to what replaying or ordering them needs.               *)
(***************************************************************************)
RunEventKind ==
  {"run.created", "plan.created", "run.started", "run.recovered", "run.paused",
   "run.resumed", "run.cancelled", "run.succeeded", "run.failed", "task.ready",
   "task.started", "artifact.stored", "task.succeeded", "task.retrying",
   "task.failed", "task.result_ignored"}

RunEvent == [kind : RunEventKind, task : Tasks \cup {None}, execution : MaybeExecution]

OnRun(kind)           == [kind |-> kind, task |-> None, execution |-> None]
OnTask(kind, t)       == [kind |-> kind, task |-> t, execution |-> None]
OnExecution(kind, t, e) == [kind |-> kind, task |-> t, execution |-> e]

\* Faulty: the artifact events replace the success event.
SuccessEvents_ArtifactsOnly(t, e) ==
  IF t \in ArtifactTasks
    THEN <<OnExecution("artifact.stored", t, e)>>
    ELSE <<OnExecution("task.succeeded", t, e)>>

\* One commit carries the artifact references and the success of the task.
SuccessEvents(t, e) ==
  (IF t \in ArtifactTasks THEN <<OnExecution("artifact.stored", t, e)>> ELSE <<>>)
    \o <<OnExecution("task.succeeded", t, e)>>

\* Faulty: the end of the run is left out.
FailureEvents_TaskOnly(t, e) == <<OnExecution("task.failed", t, e)>>

FailureEvents(t, e) == <<OnExecution("task.failed", t, e), OnTask("run.failed", t)>>
=============================================================================
