------------------------- MODULE RunLifecycleProofs -------------------------
(***************************************************************************)
(* The safety of RunLifecycle, proved for every plan, every number of      *)
(* tasks and executions and every concurrency limit.                       *)
(*                                                                         *)
(* First the types, then what each step does to each task, stated once     *)
(* (PlanEffect, ClaimEffect, ...).  The inductive invariant then grows in  *)
(* layers, each proved from the ones before it: TypeOK, PlanKnown, Leases, *)
(* DependenciesDone, Outputs, Unfinished, AttemptsPaid, OutcomeExplained.  *)
(***************************************************************************)
EXTENDS RunLifecycle, PlanModelProofs, FiniteSetTheorems, WellFoundedInduction, TLAPS

(***************************************************************************)
(* Types                                                                   *)
(***************************************************************************)

\* Every transition maps a snapshot to a snapshot.  (The dataclasses.replace calls
\* of RuntimeService.)
LEMMA TransitionTypes ==
  ASSUME NEW s \in Snapshot
  PROVE  /\ \A status \in RunStatus : WithStatus(s, status) \in Snapshot
         /\ \A p \in Plans : Planned(s, p) \in Snapshot
         /\ Paused(s) \in Snapshot
         /\ Cancelled(s) \in Snapshot
         /\ \A t \in Tasks : TaskReady(s, t) \in Snapshot
         /\ \A t \in Tasks, e \in ExecutionIds : TaskRunning(s, t, e) \in Snapshot
         /\ \A t \in Tasks, e \in ExecutionIds : TaskSucceeded(s, t, e) \in Snapshot
         /\ \A t \in Tasks : TaskRetrying(s, t) \in Snapshot
         /\ \A t \in Tasks : TaskAndRunFailed(s, t) \in Snapshot
         /\ BlockedRunFailed(s) \in Snapshot
<1> USE DEF Snapshot, RunStatus, TaskStatus, MaybeExecution
<1>1. \A status \in RunStatus : WithStatus(s, status) \in Snapshot
  BY DEF WithStatus
<1>2. \A p \in Plans : Planned(s, p) \in Snapshot
  BY DEF Planned
<1>3. Paused(s) \in Snapshot
  BY DEF Paused
<1>4. Cancelled(s) \in Snapshot
  BY DEF Cancelled
<1>5. \A t \in Tasks : TaskReady(s, t) \in Snapshot
  BY DEF TaskReady
<1>6. ASSUME NEW t \in Tasks, NEW e \in ExecutionIds
      PROVE  TaskRunning(s, t, e) \in Snapshot
  <2>1. s.task_attempts \in [Tasks -> Nat] /\ s.task_attempts[t] + 1 \in Nat
    OBVIOUS
  <2>2. [s.task_attempts EXCEPT ![t] = @ + 1] \in [Tasks -> Nat]
    BY <2>1
  <2> QED
    BY <2>2 DEF TaskRunning
<1>7. \A t \in Tasks, e \in ExecutionIds : TaskSucceeded(s, t, e) \in Snapshot
  BY DEF TaskSucceeded
<1>8. \A t \in Tasks : TaskRetrying(s, t) \in Snapshot
  BY DEF TaskRetrying
<1>9. \A t \in Tasks : TaskAndRunFailed(s, t) \in Snapshot
  BY DEF TaskAndRunFailed
<1>10. BlockedRunFailed(s) \in Snapshot
  BY DEF BlockedRunFailed
<1> QED
  BY <1>1, <1>2, <1>3, <1>4, <1>5, <1>6, <1>7, <1>8, <1>9, <1>10

\* A commit changes the version of the snapshot it is given, and nothing else.
LEMMA CommitFields ==
  ASSUME TypeOK, NEW changed \in Snapshot, NEW drafts \in Seq(RunEvent),
         Commit(changed, drafts)
  PROVE  /\ run' \in Snapshot
         /\ events' \in Seq(RunEvent)
         /\ run'.status = changed.status
         /\ run'.plan = changed.plan
         /\ run'.task_statuses = changed.task_statuses
         /\ run'.task_outputs = changed.task_outputs
         /\ run'.task_errors = changed.task_errors
         /\ run'.task_attempts = changed.task_attempts
         /\ run'.task_execution_ids = changed.task_execution_ids
<1>1. run.version + 1 \in Nat
  BY DEF TypeOK, Snapshot
<1>2. events' \in Seq(RunEvent)
  BY DEF TypeOK, Commit
<1> QED
  BY <1>1, <1>2 DEF Commit, Snapshot

\* The events of every commit are events.
LEMMA DraftTypes ==
  /\ \A kind \in RunEventKind : <<OnRun(kind)>> \in Seq(RunEvent)
  /\ \A kind \in RunEventKind, t \in Tasks : <<OnTask(kind, t)>> \in Seq(RunEvent)
  /\ \A kind \in RunEventKind, t \in Tasks, e \in ExecutionIds :
       <<OnExecution(kind, t, e)>> \in Seq(RunEvent)
  /\ \A t \in Tasks, e \in ExecutionIds : /\ SuccessEvents(t, e) \in Seq(RunEvent)
                                          /\ FailureEvents(t, e) \in Seq(RunEvent)
<1>1. \A kind \in RunEventKind : OnRun(kind) \in RunEvent
  BY DEF OnRun, RunEvent, MaybeExecution
<1>2. \A kind \in RunEventKind, t \in Tasks : OnTask(kind, t) \in RunEvent
  BY DEF OnTask, RunEvent, MaybeExecution
<1>3. \A kind \in RunEventKind, t \in Tasks, e \in ExecutionIds :
        OnExecution(kind, t, e) \in RunEvent
  BY DEF OnExecution, RunEvent, MaybeExecution
<1>4. ASSUME NEW t \in Tasks, NEW e \in ExecutionIds
      PROVE  SuccessEvents(t, e) \in Seq(RunEvent) /\ FailureEvents(t, e) \in Seq(RunEvent)
  <2>1. /\ OnExecution("artifact.stored", t, e) \in RunEvent
        /\ OnExecution("task.succeeded", t, e) \in RunEvent
        /\ OnExecution("task.failed", t, e) \in RunEvent
        /\ OnTask("run.failed", t) \in RunEvent
    BY <1>2, <1>3 DEF RunEventKind
  <2>2. SuccessEvents(t, e) \in Seq(RunEvent)
    BY <2>1 DEF SuccessEvents
  <2>3. FailureEvents(t, e) \in Seq(RunEvent)
    BY <2>1 DEF FailureEvents
  <2> QED
    BY <2>2, <2>3
<1> QED
  BY <1>1, <1>2, <1>3, <1>4

\* An execution that may report was claimed for a task.
LEMMA OutstandingHasTask ==
  ASSUME TypeOK, NEW e \in Outstanding
  PROVE  /\ leases[e] \in Lease
         /\ leases[e].task \in Tasks
         /\ leases[e].epoch \in Nat \ {0}
BY DEF TypeOK, Outstanding, Unclaimed, Lease

\* Faults of the model of a step show here first: the state stays of its type.
LEMMA TypeStep == TypeOK /\ [Next]_vars => TypeOK'
<1> SUFFICES ASSUME TypeOK, [Next]_vars PROVE TypeOK'
  OBVIOUS
<1>s. run \in Snapshot /\ leases \in [ExecutionIds -> Lease \cup {None}]
  BY DEF TypeOK
<1>k. /\ {"run.created", "plan.created", "run.started", "run.recovered", "run.paused",
          "run.resumed", "run.cancelled", "run.succeeded", "run.failed", "task.ready",
          "task.started", "task.retrying", "task.result_ignored"} \subseteq RunEventKind
      /\ {"created", "planned", "running", "paused", "succeeded", "failed", "cancelled"}
           \subseteq RunStatus
  BY DEF RunEventKind, RunStatus
<1>1. CASE Plan
  <2>1. CASE \E p \in Plans : Commit(Planned(run, p), <<OnRun("plan.created")>>)
    BY <2>1, <1>1, <1>k, <1>s, TransitionTypes, CommitFields, DraftTypes DEF Plan, TypeOK
  <2>2. CASE Commit(WithStatus(run, "failed"), <<OnRun("run.failed")>>)
    BY <2>2, <1>1, <1>k, <1>s, TransitionTypes, CommitFields, DraftTypes DEF Plan, TypeOK
  <2> QED
    BY <1>1, <2>1, <2>2 DEF Plan
<1>2. CASE Start
  BY <1>2, <1>k, <1>s, TransitionTypes, CommitFields, DraftTypes DEF Start, TypeOK
<1>3. CASE Pause
  BY <1>3, <1>k, <1>s, TransitionTypes, CommitFields, DraftTypes DEF Pause, TypeOK
<1>4. CASE Resume
  BY <1>4, <1>k, <1>s, TransitionTypes, CommitFields, DraftTypes DEF Resume, TypeOK
<1>5. CASE Cancel
  BY <1>5, <1>k, <1>s, TransitionTypes, CommitFields, DraftTypes DEF Cancel, TypeOK
<1>6. CASE Recover
  BY <1>6, <1>k, <1>s, TransitionTypes, CommitFields, DraftTypes DEF Recover, TypeOK
<1>7. CASE Conclude
  BY <1>7, <1>k, <1>s, TransitionTypes, CommitFields, DraftTypes DEF Conclude, TypeOK
<1>8. ASSUME NEW t \in Tasks, MarkReady(t) PROVE TypeOK'
  BY <1>8, <1>k, <1>s, TransitionTypes, CommitFields, DraftTypes DEF MarkReady, TypeOK
<1>9. ASSUME NEW t \in Tasks, NEW e \in ExecutionIds, Claim(t, e) PROVE TypeOK'
  <2>1. run.task_attempts[t] + 1 \in Nat \ {0}
    BY <1>s DEF Snapshot
  <2>2. [task |-> t, epoch |-> run.task_attempts[t] + 1] \in Lease
    BY <2>1 DEF Lease
  <2>3. leases' \in [ExecutionIds -> Lease \cup {None}]
    BY <1>9, <2>2, <1>s DEF Claim
  <2> QED
    BY <1>9, <2>3, <1>k, <1>s, TransitionTypes, CommitFields, DraftTypes DEF Claim, TypeOK
<1>10. ASSUME NEW e \in ExecutionIds, RecordSuccess(e) PROVE TypeOK'
  BY <1>10, OutstandingHasTask, TransitionTypes, CommitFields, DraftTypes, <1>k, <1>s DEF RecordSuccess, TypeOK
<1>11. ASSUME NEW e \in ExecutionIds, RecordRetry(e) PROVE TypeOK'
  BY <1>11, OutstandingHasTask, TransitionTypes, CommitFields, DraftTypes, <1>k, <1>s DEF RecordRetry, TypeOK
<1>12. ASSUME NEW e \in ExecutionIds, RecordFailure(e) PROVE TypeOK'
  BY <1>12, OutstandingHasTask, TransitionTypes, CommitFields, DraftTypes, <1>k, <1>s DEF RecordFailure, TypeOK
<1>13. ASSUME NEW e \in ExecutionIds, RecordIgnored(e) PROVE TypeOK'
  BY <1>13, OutstandingHasTask, TransitionTypes, CommitFields, DraftTypes, <1>k, <1>s DEF RecordIgnored, TypeOK
<1>14. CASE UNCHANGED vars
  BY <1>14 DEF vars, TypeOK
<1> QED
  BY <1>1, <1>2, <1>3, <1>4, <1>5, <1>6, <1>7, <1>8, <1>9, <1>10, <1>11, <1>12, <1>13,
     <1>14 DEF Next

LEMMA InitTyped == Init => TypeOK
<1> SUFFICES ASSUME Init PROVE TypeOK
  OBVIOUS
<1>1. run \in Snapshot
  BY DEF Init, NewRun, Snapshot, RunStatus, MaybeExecution
<1>2. events \in Seq(RunEvent)
  BY DEF Init, OnRun, RunEvent, RunEventKind, MaybeExecution
<1> QED
  BY <1>1, <1>2 DEF Init, TypeOK

\* Type correctness.
THEOREM TypeCorrect == Spec => []TypeOK
BY InitTyped, TypeStep, PTL DEF Spec

\* The stored events are only ever appended to.  (save_run_and_append)
LEMMA EventsAppended ==
  ASSUME TypeOK, [Next]_vars
  PROVE  \E drafts \in Seq(RunEvent) : events' = events \o drafts
<1>k. {"run.created", "plan.created", "run.started", "run.recovered", "run.paused",
       "run.resumed", "run.cancelled", "run.succeeded", "run.failed", "task.ready",
       "task.started", "task.retrying", "task.result_ignored"} \subseteq RunEventKind
  BY DEF RunEventKind
<1>1. CASE Plan \/ Start \/ Pause \/ Resume \/ Cancel \/ Recover \/ Conclude
  <2>1. \E kind \in RunEventKind : events' = events \o <<OnRun(kind)>>
    BY <1>1, <1>k DEF Plan, Start, Pause, Resume, Cancel, Recover, Conclude, Commit
  <2> QED
    BY <2>1, DraftTypes
<1>2. ASSUME NEW t \in Tasks, MarkReady(t)
      PROVE  \E drafts \in Seq(RunEvent) : events' = events \o drafts
  BY <1>2, <1>k, DraftTypes DEF MarkReady, Commit
<1>3. ASSUME NEW t \in Tasks, NEW e \in ExecutionIds, Claim(t, e)
      PROVE  \E drafts \in Seq(RunEvent) : events' = events \o drafts
  BY <1>3, <1>k, DraftTypes DEF Claim, Commit
<1>4. ASSUME NEW e \in ExecutionIds,
             RecordSuccess(e) \/ RecordRetry(e) \/ RecordFailure(e) \/ RecordIgnored(e)
      PROVE  \E drafts \in Seq(RunEvent) : events' = events \o drafts
  <2>1. e \in Outstanding /\ leases[e].task \in Tasks
    BY <1>4, OutstandingHasTask DEF RecordSuccess, RecordRetry, RecordFailure, RecordIgnored
  <2> QED
    BY <1>4, <2>1, <1>k, DraftTypes
       DEF RecordSuccess, RecordRetry, RecordFailure, RecordIgnored, Commit
<1>5. CASE UNCHANGED vars
  <2>1. << >> \in Seq(RunEvent) /\ events' = events \o << >>
    BY <1>5 DEF vars, TypeOK
  <2> QED
    BY <2>1
<1> QED
  BY <1>1, <1>2, <1>3, <1>4, <1>5 DEF Next

(***************************************************************************)
(* Effects: what each step does to each task, task by task.                *)
(***************************************************************************)

\* A new plan, or no plan at all.  (_plan, _fail_planning)
LEMMA PlanEffect ==
  ASSUME TypeOK, Plan
  PROVE  /\ run.status = "created"
         /\ \/ /\ run'.status = "planned" /\ run'.plan \in Plans
               /\ \A t \in Tasks : run'.task_statuses[t] = "pending"
            \/ /\ run'.status = "failed" /\ run'.plan = run.plan
               /\ run'.task_statuses = run.task_statuses
         /\ UNCHANGED <<run.task_outputs, run.task_errors, run.task_attempts,
                        run.task_execution_ids, leases, settled>>
<1>1. run \in Snapshot /\ "failed" \in RunStatus
  BY DEF TypeOK, RunStatus
<1>2. <<OnRun("plan.created")>> \in Seq(RunEvent) /\ <<OnRun("run.failed")>> \in Seq(RunEvent)
  BY DraftTypes DEF RunEventKind
<1>3. ASSUME NEW p \in Plans, Commit(Planned(run, p), <<OnRun("plan.created")>>)
      PROVE  /\ run'.status = "planned" /\ run'.plan \in Plans
             /\ \A t \in Tasks : run'.task_statuses[t] = "pending"
             /\ UNCHANGED <<run.task_outputs, run.task_errors, run.task_attempts,
                            run.task_execution_ids>>
  <2>1. Planned(run, p) \in Snapshot
    BY <1>1, TransitionTypes
  <2>2. /\ Planned(run, p).status = "planned"
        /\ Planned(run, p).plan = p
        /\ \A t \in Tasks : Planned(run, p).task_statuses[t] = "pending"
        /\ Planned(run, p).task_outputs = run.task_outputs
        /\ Planned(run, p).task_errors = run.task_errors
        /\ Planned(run, p).task_attempts = run.task_attempts
        /\ Planned(run, p).task_execution_ids = run.task_execution_ids
    BY <1>1 DEF Planned, Snapshot
  <2> QED
    BY <1>2, <1>3, <2>1, <2>2, CommitFields
<1>4. ASSUME Commit(WithStatus(run, "failed"), <<OnRun("run.failed")>>)
      PROVE  /\ run'.status = "failed" /\ run'.plan = run.plan
             /\ UNCHANGED <<run.task_statuses, run.task_outputs, run.task_errors,
                            run.task_attempts, run.task_execution_ids>>
  <2>1. WithStatus(run, "failed") \in Snapshot
    BY <1>1, TransitionTypes
  <2>2. /\ WithStatus(run, "failed").status = "failed"
        /\ WithStatus(run, "failed").plan = run.plan
        /\ WithStatus(run, "failed").task_statuses = run.task_statuses
        /\ WithStatus(run, "failed").task_outputs = run.task_outputs
        /\ WithStatus(run, "failed").task_errors = run.task_errors
        /\ WithStatus(run, "failed").task_attempts = run.task_attempts
        /\ WithStatus(run, "failed").task_execution_ids = run.task_execution_ids
    BY <1>1 DEF WithStatus, Snapshot
  <2> QED
    BY <1>2, <1>4, <2>1, <2>2, CommitFields
<1> QED
  BY <1>3, <1>4 DEF Plan

\* A change of the run's status only.  (_change_run_status)
LEMMA StatusEffect ==
  ASSUME TypeOK, Start \/ Resume
  PROVE  /\ run.status \in {"planned", "paused"}
         /\ run'.status = "running"
         /\ UNCHANGED <<run.plan, run.task_statuses, run.task_outputs, run.task_errors,
                        run.task_attempts, run.task_execution_ids, leases, settled>>
<1>1. run \in Snapshot /\ "running" \in RunStatus
  BY DEF TypeOK, RunStatus
<1>2. <<OnRun("run.started")>> \in Seq(RunEvent) /\ <<OnRun("run.resumed")>> \in Seq(RunEvent)
  BY DraftTypes DEF RunEventKind
<1>3. WithStatus(run, "running") \in Snapshot
  BY <1>1, TransitionTypes
<1>4. /\ WithStatus(run, "running").status = "running"
      /\ WithStatus(run, "running").plan = run.plan
      /\ WithStatus(run, "running").task_statuses = run.task_statuses
      /\ WithStatus(run, "running").task_outputs = run.task_outputs
      /\ WithStatus(run, "running").task_errors = run.task_errors
      /\ WithStatus(run, "running").task_attempts = run.task_attempts
      /\ WithStatus(run, "running").task_execution_ids = run.task_execution_ids
  BY <1>1 DEF WithStatus, Snapshot
<1> QED
  BY <1>2, <1>3, <1>4, CommitFields DEF Start, Resume

\* Running tasks go back to ready and lose their lease.  (_paused_transition)
LEMMA InterruptionEffect ==
  ASSUME TypeOK, Pause \/ Recover
  PROVE  /\ run.status \in {"planned", "running"}
         /\ run'.status = "paused"
         /\ \A t \in Tasks :
              /\ run'.task_statuses[t] = IF run.task_statuses[t] = "running"
                                           THEN "ready" ELSE run.task_statuses[t]
              /\ run'.task_execution_ids[t] = IF run.task_statuses[t] = "running"
                                                THEN None ELSE run.task_execution_ids[t]
         /\ UNCHANGED <<run.plan, run.task_outputs, run.task_errors, run.task_attempts,
                        leases, settled>>
<1>1. run \in Snapshot /\ Paused(run) \in Snapshot
  BY TransitionTypes DEF TypeOK
<1>2. <<OnRun("run.paused")>> \in Seq(RunEvent) /\ <<OnRun("run.recovered")>> \in Seq(RunEvent)
  BY DraftTypes DEF RunEventKind
<1>3. /\ Paused(run).status = "paused"
      /\ \A t \in Tasks :
           /\ Paused(run).task_statuses[t] = IF run.task_statuses[t] = "running"
                                               THEN "ready" ELSE run.task_statuses[t]
           /\ Paused(run).task_execution_ids[t] = IF run.task_statuses[t] = "running"
                                                    THEN None ELSE run.task_execution_ids[t]
      /\ Paused(run).plan = run.plan
      /\ Paused(run).task_outputs = run.task_outputs
      /\ Paused(run).task_errors = run.task_errors
      /\ Paused(run).task_attempts = run.task_attempts
  BY <1>1 DEF Paused, Snapshot, InFlight
<1> QED
  BY <1>1, <1>2, <1>3, CommitFields DEF Pause, Recover

\* What has not succeeded is cancelled, and all leases are gone.  (_cancel)
LEMMA CancelEffect ==
  ASSUME TypeOK, Cancel
  PROVE  /\ run.status \notin TerminalRunStatuses
         /\ run'.status = "cancelled"
         /\ \A t \in Tasks :
              /\ run'.task_statuses[t] = IF run.task_statuses[t] \in {"succeeded", "absent"}
                                           THEN run.task_statuses[t] ELSE "cancelled"
              /\ run'.task_execution_ids[t] = None
         /\ UNCHANGED <<run.plan, run.task_outputs, run.task_errors, run.task_attempts,
                        leases, settled>>
<1>1. run \in Snapshot /\ Cancelled(run) \in Snapshot
  BY TransitionTypes DEF TypeOK
<1>2. <<OnRun("run.cancelled")>> \in Seq(RunEvent)
  BY DraftTypes DEF RunEventKind
<1>3. /\ Cancelled(run).status = "cancelled"
      /\ \A t \in Tasks :
           /\ Cancelled(run).task_statuses[t] =
                IF run.task_statuses[t] \in {"succeeded", "absent"}
                  THEN run.task_statuses[t] ELSE "cancelled"
           /\ Cancelled(run).task_execution_ids[t] = None
      /\ Cancelled(run).plan = run.plan
      /\ Cancelled(run).task_outputs = run.task_outputs
      /\ Cancelled(run).task_errors = run.task_errors
      /\ Cancelled(run).task_attempts = run.task_attempts
  BY <1>1 DEF Cancelled, Snapshot
<1> QED
  BY <1>1, <1>2, <1>3, CommitFields DEF Cancel

\* The run ends when nothing is in flight.  (_complete, _fail_blocked_run)
LEMMA ConcludeEffect ==
  ASSUME TypeOK, Conclude
  PROVE  /\ run.status = "running"
         /\ run'.status \in {"succeeded", "failed"}
         /\ \A t \in Tasks :
              /\ run.task_statuses[t] # "running"
              /\ \/ run'.task_statuses[t] = run.task_statuses[t]
                 \/ run.task_statuses[t] # "succeeded" /\ run'.task_statuses[t] = "blocked"
         /\ UNCHANGED <<run.plan, run.task_outputs, run.task_errors, run.task_attempts,
                        run.task_execution_ids, leases, settled>>
<1>1. /\ run \in Snapshot
      /\ WithStatus(run, "succeeded") \in Snapshot
      /\ BlockedRunFailed(run) \in Snapshot
  BY TransitionTypes DEF TypeOK, RunStatus
<1>2. <<OnRun("run.succeeded")>> \in Seq(RunEvent) /\ <<OnRun("run.failed")>> \in Seq(RunEvent)
  BY DraftTypes DEF RunEventKind
<1>3. \A t \in Tasks : run.task_statuses[t] # "running"
  BY DEF Conclude, InFlight
<1>4. CASE AllTasksSucceeded(run)
  <2>1. Commit(WithStatus(run, "succeeded"), <<OnRun("run.succeeded")>>)
    BY <1>4 DEF Conclude
  <2> QED
    BY <2>1, <1>1, <1>2, <1>3, CommitFields DEF Conclude, WithStatus, Snapshot
<1>5. CASE ~ AllTasksSucceeded(run)
  <2>1. Commit(BlockedRunFailed(run), <<OnRun("run.failed")>>)
    BY <1>5 DEF Conclude
  <2>2. /\ BlockedRunFailed(run).status = "failed"
        /\ \A t \in Tasks :
             BlockedRunFailed(run).task_statuses[t] =
               IF run.task_statuses[t] = "succeeded" THEN "succeeded" ELSE "blocked"
        /\ BlockedRunFailed(run).plan = run.plan
        /\ BlockedRunFailed(run).task_outputs = run.task_outputs
        /\ BlockedRunFailed(run).task_errors = run.task_errors
        /\ BlockedRunFailed(run).task_attempts = run.task_attempts
        /\ BlockedRunFailed(run).task_execution_ids = run.task_execution_ids
    BY <1>1 DEF BlockedRunFailed, Snapshot
  <2> QED
    BY <2>1, <2>2, <1>1, <1>2, <1>3, CommitFields DEF Conclude
<1> QED
  BY <1>4, <1>5

\* The scheduler marks the first runnable task ready.  (_mark_ready)
LEMMA MarkReadyEffect ==
  ASSUME TypeOK, NEW t \in Tasks, MarkReady(t)
  PROVE  /\ run.status = "running" /\ run'.status = "running"
         /\ run.task_statuses[t] = "pending" /\ DependenciesSucceeded(run, t)
         /\ \A u \in Tasks :
              run'.task_statuses[u] = IF u = t THEN "ready" ELSE run.task_statuses[u]
         /\ UNCHANGED <<run.plan, run.task_outputs, run.task_errors, run.task_attempts,
                        run.task_execution_ids, leases, settled>>
<1>1. run \in Snapshot /\ TaskReady(run, t) \in Snapshot
  BY TransitionTypes DEF TypeOK
<1>2. <<OnTask("task.ready", t)>> \in Seq(RunEvent)
  BY DraftTypes DEF RunEventKind
<1>3. /\ TaskReady(run, t).status = run.status
      /\ \A u \in Tasks :
           TaskReady(run, t).task_statuses[u] = IF u = t THEN "ready" ELSE run.task_statuses[u]
      /\ TaskReady(run, t).plan = run.plan
      /\ TaskReady(run, t).task_outputs = run.task_outputs
      /\ TaskReady(run, t).task_errors = run.task_errors
      /\ TaskReady(run, t).task_attempts = run.task_attempts
      /\ TaskReady(run, t).task_execution_ids = run.task_execution_ids
  BY <1>1 DEF TaskReady, Snapshot
<1>4. run.status = "running" /\ run.task_statuses[t] = "pending" /\ DependenciesSucceeded(run, t)
  BY DEF MarkReady, Schedulable, IsNextRunnable, RunnableTasks
<1> QED
  BY <1>1, <1>2, <1>3, <1>4, CommitFields DEF MarkReady

\* A claim starts the next attempt of a ready task under a new lease.  (_claim_task)
LEMMA ClaimEffect ==
  ASSUME TypeOK, NEW t \in Tasks, NEW e \in ExecutionIds, Claim(t, e)
  PROVE  /\ run.status = "running" /\ run'.status = "running"
         /\ run.task_statuses[t] = "ready"
         /\ Cardinality(InFlight(run)) < MaxConcurrency
         /\ \A u \in Tasks :
              /\ run'.task_statuses[u] = IF u = t THEN "running" ELSE run.task_statuses[u]
              /\ run'.task_attempts[u] = IF u = t THEN run.task_attempts[u] + 1
                                         ELSE run.task_attempts[u]
              /\ run'.task_execution_ids[u] = IF u = t THEN e ELSE run.task_execution_ids[u]
         /\ e \in Unclaimed
         /\ leases' = [leases EXCEPT ![e] = [task |-> t, epoch |-> run.task_attempts[t] + 1]]
         /\ UNCHANGED <<run.plan, run.task_outputs, run.task_errors, settled>>
<1>1. run \in Snapshot /\ TaskRunning(run, t, e) \in Snapshot
  BY TransitionTypes DEF TypeOK
<1>2. <<OnExecution("task.started", t, e)>> \in Seq(RunEvent)
  BY DraftTypes DEF RunEventKind
<1>3. /\ TaskRunning(run, t, e).status = run.status
      /\ \A u \in Tasks :
           /\ TaskRunning(run, t, e).task_statuses[u] =
                IF u = t THEN "running" ELSE run.task_statuses[u]
           /\ TaskRunning(run, t, e).task_attempts[u] =
                IF u = t THEN run.task_attempts[u] + 1 ELSE run.task_attempts[u]
           /\ TaskRunning(run, t, e).task_execution_ids[u] =
                IF u = t THEN e ELSE run.task_execution_ids[u]
      /\ TaskRunning(run, t, e).plan = run.plan
      /\ TaskRunning(run, t, e).task_outputs = run.task_outputs
      /\ TaskRunning(run, t, e).task_errors = run.task_errors
  BY <1>1 DEF TaskRunning, Snapshot
<1>4. /\ run.status = "running" /\ run.task_statuses[t] = "ready" /\ e \in Unclaimed
      /\ Cardinality(InFlight(run)) < MaxConcurrency
      /\ Commit(TaskRunning(run, t, e), <<OnExecution("task.started", t, e)>>)
      /\ leases' = [leases EXCEPT ![e] = [task |-> t, epoch |-> run.task_attempts[t] + 1]]
      /\ UNCHANGED settled
  BY DEF Claim, Schedulable
<1> DEFINE claimed == TaskRunning(run, t, e)
<1> HIDE DEF claimed
<1>5. /\ run'.status = claimed.status /\ run'.plan = claimed.plan
      /\ run'.task_statuses = claimed.task_statuses
      /\ run'.task_outputs = claimed.task_outputs
      /\ run'.task_errors = claimed.task_errors
      /\ run'.task_attempts = claimed.task_attempts
      /\ run'.task_execution_ids = claimed.task_execution_ids
  BY <1>1, <1>2, <1>4, CommitFields DEF claimed
<1> QED
  BY <1>3, <1>4, <1>5 DEF claimed

\* What an execution that reports under its lease finds.  (_is_active_execution)
LEMMA HolderFacts ==
  ASSUME TypeOK, NEW e \in ExecutionIds, e \in Outstanding, HoldsLease(e)
  PROVE  /\ leases[e].task \in Tasks
         /\ run.status = "running"
         /\ run.task_statuses[leases[e].task] = "running"
         /\ run.task_execution_ids[leases[e].task] = e
BY OutstandingHasTask DEF HoldsLease, IsActiveExecution

\* A success stores the output with the outcome.  (_commit_task_success)
LEMMA SuccessEffect ==
  ASSUME TypeOK, NEW e \in ExecutionIds, RecordSuccess(e), NEW t, t = leases[e].task
  PROVE  /\ e \in Outstanding /\ t \in Tasks
         /\ run.status = "running" /\ run'.status = "running"
         /\ run.task_statuses[t] = "running" /\ run.task_execution_ids[t] = e
         /\ \A u \in Tasks :
              /\ run'.task_statuses[u] = IF u = t THEN "succeeded" ELSE run.task_statuses[u]
              /\ run'.task_outputs[u] = IF u = t THEN e ELSE run.task_outputs[u]
              /\ run'.task_execution_ids[u] = IF u = t THEN None ELSE run.task_execution_ids[u]
         /\ run'.task_errors = run.task_errors \ {t}
         /\ settled' = settled \cup {e}
         /\ UNCHANGED <<run.plan, run.task_attempts, leases>>
<1>1. /\ e \in Outstanding /\ HoldsLease(e) /\ t \in Tasks
      /\ Commit(TaskSucceeded(run, t, e), SuccessEvents(t, e))
      /\ settled' = settled \cup {e} /\ UNCHANGED leases
  BY HolderFacts DEF RecordSuccess
<1>2. run \in Snapshot /\ TaskSucceeded(run, t, e) \in Snapshot
  BY <1>1, TransitionTypes DEF TypeOK
<1>3. SuccessEvents(t, e) \in Seq(RunEvent)
  BY <1>1, DraftTypes
<1>4. /\ TaskSucceeded(run, t, e).status = run.status
      /\ \A u \in Tasks :
           /\ TaskSucceeded(run, t, e).task_statuses[u] =
                IF u = t THEN "succeeded" ELSE run.task_statuses[u]
           /\ TaskSucceeded(run, t, e).task_outputs[u] =
                IF u = t THEN e ELSE run.task_outputs[u]
           /\ TaskSucceeded(run, t, e).task_execution_ids[u] =
                IF u = t THEN None ELSE run.task_execution_ids[u]
      /\ TaskSucceeded(run, t, e).task_errors = run.task_errors \ {t}
      /\ TaskSucceeded(run, t, e).plan = run.plan
      /\ TaskSucceeded(run, t, e).task_attempts = run.task_attempts
  BY <1>1, <1>2 DEF TaskSucceeded, Snapshot
<1> QED
  BY <1>1, <1>2, <1>3, <1>4, HolderFacts, CommitFields

\* A retry gives the lease back and keeps the attempt.  (_retry_task)
LEMMA RetryEffect ==
  ASSUME TypeOK, NEW e \in ExecutionIds, RecordRetry(e), NEW t, t = leases[e].task
  PROVE  /\ e \in Outstanding /\ t \in Tasks
         /\ run.status = "running" /\ run'.status = "running"
         /\ run.task_statuses[t] = "running" /\ run.task_execution_ids[t] = e
         /\ run.task_attempts[t] < run.plan.max_attempts[t]
         /\ \A u \in Tasks :
              /\ run'.task_statuses[u] = IF u = t THEN "ready" ELSE run.task_statuses[u]
              /\ run'.task_execution_ids[u] = IF u = t THEN None ELSE run.task_execution_ids[u]
         /\ run'.task_errors = run.task_errors \cup {t}
         /\ settled' = settled \cup {e}
         /\ UNCHANGED <<run.plan, run.task_outputs, run.task_attempts, leases>>
<1>1. /\ e \in Outstanding /\ HoldsLease(e) /\ t \in Tasks
      /\ run.task_attempts[t] < run.plan.max_attempts[t]
      /\ Commit(TaskRetrying(run, t), <<OnExecution("task.retrying", t, e)>>)
      /\ settled' = settled \cup {e} /\ UNCHANGED leases
  BY HolderFacts DEF RecordRetry
<1>2. run \in Snapshot /\ TaskRetrying(run, t) \in Snapshot
  BY <1>1, TransitionTypes DEF TypeOK
<1>3. <<OnExecution("task.retrying", t, e)>> \in Seq(RunEvent)
  BY <1>1, DraftTypes DEF RunEventKind
<1>4. /\ TaskRetrying(run, t).status = run.status
      /\ \A u \in Tasks :
           /\ TaskRetrying(run, t).task_statuses[u] =
                IF u = t THEN "ready" ELSE run.task_statuses[u]
           /\ TaskRetrying(run, t).task_execution_ids[u] =
                IF u = t THEN None ELSE run.task_execution_ids[u]
      /\ TaskRetrying(run, t).task_errors = run.task_errors \cup {t}
      /\ TaskRetrying(run, t).plan = run.plan
      /\ TaskRetrying(run, t).task_outputs = run.task_outputs
      /\ TaskRetrying(run, t).task_attempts = run.task_attempts
  BY <1>1, <1>2 DEF TaskRetrying, Snapshot
<1>5. run.status = "running" /\ run.task_statuses[t] = "running" /\ run.task_execution_ids[t] = e
  BY <1>1, HolderFacts
<1>6. /\ run'.status = TaskRetrying(run, t).status
      /\ run'.task_statuses = TaskRetrying(run, t).task_statuses
      /\ run'.task_execution_ids = TaskRetrying(run, t).task_execution_ids
      /\ run'.task_errors = TaskRetrying(run, t).task_errors
      /\ run'.plan = TaskRetrying(run, t).plan
      /\ run'.task_outputs = TaskRetrying(run, t).task_outputs
      /\ run'.task_attempts = TaskRetrying(run, t).task_attempts
  BY <1>1, <1>2, <1>3, CommitFields
<1> QED
  BY <1>1, <1>4, <1>5, <1>6

\* A final failure ends the run and drops every lease.  (_fail_task_and_run)
LEMMA FailureEffect ==
  ASSUME TypeOK, NEW e \in ExecutionIds, RecordFailure(e), NEW t, t = leases[e].task
  PROVE  /\ e \in Outstanding /\ t \in Tasks
         /\ run.status = "running" /\ run'.status = "failed"
         /\ run.task_statuses[t] = "running" /\ run.task_execution_ids[t] = e
         /\ \A u \in Tasks :
              /\ IF run.task_statuses[u] = "succeeded"
                   THEN run'.task_statuses[u] = "succeeded"
                   ELSE run'.task_statuses[u] \in {"failed", "blocked", "cancelled"}
              /\ run'.task_execution_ids[u] = None
         /\ run'.task_errors = run.task_errors \cup {t}
         /\ settled' = settled \cup {e}
         /\ UNCHANGED <<run.plan, run.task_outputs, run.task_attempts, leases>>
<1>1. /\ e \in Outstanding /\ HoldsLease(e) /\ t \in Tasks
      /\ Commit(TaskAndRunFailed(run, t), FailureEvents(t, e))
      /\ settled' = settled \cup {e} /\ UNCHANGED leases
  BY HolderFacts DEF RecordFailure
<1>2. run \in Snapshot /\ TaskAndRunFailed(run, t) \in Snapshot
  BY <1>1, TransitionTypes DEF TypeOK
<1>3. FailureEvents(t, e) \in Seq(RunEvent)
  BY <1>1, DraftTypes
<1>4. run.status = "running" /\ run.task_statuses[t] = "running" /\ run.task_execution_ids[t] = e
  BY <1>1, HolderFacts
<1>5. /\ TaskAndRunFailed(run, t).status = "failed"
      /\ \A u \in Tasks :
           /\ IF run.task_statuses[u] = "succeeded"
                THEN TaskAndRunFailed(run, t).task_statuses[u] = "succeeded"
                ELSE TaskAndRunFailed(run, t).task_statuses[u] \in
                       {"failed", "blocked", "cancelled"}
           /\ TaskAndRunFailed(run, t).task_execution_ids[u] = None
      /\ TaskAndRunFailed(run, t).task_errors = run.task_errors \cup {t}
      /\ TaskAndRunFailed(run, t).plan = run.plan
      /\ TaskAndRunFailed(run, t).task_outputs = run.task_outputs
      /\ TaskAndRunFailed(run, t).task_attempts = run.task_attempts
  BY <1>1, <1>2, <1>4 DEF TaskAndRunFailed, Snapshot
<1> QED
  BY <1>1, <1>2, <1>3, <1>4, <1>5, CommitFields

\* A late result changes nothing but the version.  (_record_ignored_result)
LEMMA IgnoredEffect ==
  ASSUME TypeOK, NEW e \in ExecutionIds, RecordIgnored(e)
  PROVE  /\ e \in Outstanding /\ leases[e].task \in Tasks
         /\ ~ HoldsLease(e)
         /\ run' = [run EXCEPT !.version = run.version + 1]
         /\ settled' = settled \cup {e}
         /\ UNCHANGED <<run.status, run.plan, run.task_statuses, run.task_outputs,
                        run.task_errors, run.task_attempts, run.task_execution_ids, leases>>
<1>1. run \in Snapshot /\ leases[e].task \in Tasks
  BY OutstandingHasTask DEF RecordIgnored, TypeOK
<1>2. run' = [run EXCEPT !.version = run.version + 1]
  BY DEF RecordIgnored, Commit
<1>3. UNCHANGED <<run.status, run.plan, run.task_statuses, run.task_outputs,
                  run.task_errors, run.task_attempts, run.task_execution_ids>>
  BY <1>1, <1>2 DEF Snapshot
<1> QED
  BY <1>1, <1>2, <1>3 DEF RecordIgnored

(***************************************************************************)
(* The run and its plan                                                    *)
(***************************************************************************)

\* A run past "created" that has not failed has a plan, and a run has task statuses
\* and attempts exactly when it has a plan.  (_plan, _fail_planning, _cancel)
PlanKnown ==
  /\ run.status \in {"planned", "running", "paused", "succeeded"} => run.plan \in Plans
  /\ run.status = "created" => run.plan = None
  /\ run.plan = None =>
       \A t \in Tasks : run.task_statuses[t] = "absent" /\ run.task_attempts[t] = 0
  /\ run.plan # None => \A t \in Tasks : run.task_statuses[t] # "absent"

\* No step takes the plan away or leaves its tasks without a status.
LEMMA PlanKnownStep == TypeOK /\ PlanKnown /\ [Next]_vars => PlanKnown'
<1> SUFFICES ASSUME TypeOK, PlanKnown, [Next]_vars PROVE PlanKnown'
  OBVIOUS
<1> USE NoneAssumption DEF PlanKnown
<1>1. CASE Plan
  BY <1>1, PlanEffect
<1>2. CASE Start \/ Resume
  BY <1>2, StatusEffect
<1>3. CASE Pause \/ Recover
  BY <1>3, InterruptionEffect
<1>4. CASE Cancel
  BY <1>4, CancelEffect
<1>5. CASE Conclude
  BY <1>5, ConcludeEffect
<1>6. ASSUME NEW t \in Tasks, MarkReady(t) PROVE PlanKnown'
  BY <1>6, MarkReadyEffect
<1>7. ASSUME NEW t \in Tasks, NEW e \in ExecutionIds, Claim(t, e) PROVE PlanKnown'
  BY <1>7, ClaimEffect
<1>8. ASSUME NEW e \in ExecutionIds, RecordSuccess(e) PROVE PlanKnown'
  BY <1>8, SuccessEffect
<1>9. ASSUME NEW e \in ExecutionIds, RecordRetry(e) PROVE PlanKnown'
  BY <1>9, RetryEffect
<1>10. ASSUME NEW e \in ExecutionIds, RecordFailure(e) PROVE PlanKnown'
  BY <1>10, FailureEffect
<1>11. ASSUME NEW e \in ExecutionIds, RecordIgnored(e) PROVE PlanKnown'
  BY <1>11, IgnoredEffect
<1>12. CASE UNCHANGED vars
  BY <1>12 DEF vars
<1> QED
  BY <1>1, <1>2, <1>3, <1>4, <1>5, <1>6, <1>7, <1>8, <1>9, <1>10, <1>11, <1>12 DEF Next

\* A run has a plan and task statuses as soon as it is planned.
THEOREM PlanIsKnown == Spec => []PlanKnown
<1>1. Init => PlanKnown
  BY DEF Init, NewRun, PlanKnown
<1> QED
  BY <1>1, TypeCorrect, PlanKnownStep, PTL DEF Spec

(***************************************************************************)
(* Finality                                                                *)
(***************************************************************************)

\* A run that ended stays as it is: only ignored results follow, and they change
\* nothing but the version.
THEOREM EndIsFinal == Spec => TerminalIsFinal
<1> DEFINE Final ==
      run.status \in TerminalRunStatuses => [run' EXCEPT !.version = run.version] = run
<1>1. TypeOK /\ [Next]_vars => [Final]_vars
  <2> SUFFICES ASSUME TypeOK, Next, run.status \in TerminalRunStatuses
               PROVE  [run' EXCEPT !.version = run.version] = run
    BY DEF vars
  <2>1. run.status \notin {"created", "planned", "running", "paused"}
    BY DEF TerminalRunStatuses
  <2>2. PICK e \in ExecutionIds : RecordIgnored(e)
    BY <2>1, PlanEffect, StatusEffect, InterruptionEffect, CancelEffect, ConcludeEffect,
       MarkReadyEffect, ClaimEffect, SuccessEffect, RetryEffect, FailureEffect DEF Next
  <2>3. run' = [run EXCEPT !.version = run.version + 1]
    BY <2>2, IgnoredEffect
  <2> QED
    BY <2>3 DEF TypeOK, Snapshot
<1> QED
  BY <1>1, TypeCorrect, PTL DEF Spec, TerminalIsFinal

\* A succeeded task is never reopened and its output never replaced.
THEOREM SuccessIsFinal == Spec => SucceededIsFinal
<1> DEFINE Final ==
      \A t \in Tasks :
        run.task_statuses[t] = "succeeded" =>
          /\ run'.task_statuses[t] = "succeeded"
          /\ run'.task_outputs[t] = run.task_outputs[t]
<1>1. TypeOK /\ PlanKnown /\ [Next]_vars => [Final]_vars
  <2> SUFFICES ASSUME TypeOK, PlanKnown, Next, NEW t \in Tasks,
                      run.task_statuses[t] = "succeeded"
               PROVE  /\ run'.task_statuses[t] = "succeeded"
                      /\ run'.task_outputs[t] = run.task_outputs[t]
    BY DEF vars
  <2>1. CASE Plan
    BY <2>1, PlanEffect DEF PlanKnown
  <2>2. CASE Start \/ Resume \/ Pause \/ Recover \/ Cancel
    BY <2>2, StatusEffect, InterruptionEffect, CancelEffect
  <2>3. CASE Conclude
    BY <2>3, ConcludeEffect
  <2>4. ASSUME NEW u \in Tasks, MarkReady(u)
        PROVE  run'.task_statuses[t] = "succeeded" /\ run'.task_outputs[t] = run.task_outputs[t]
    BY <2>4, MarkReadyEffect
  <2>5. ASSUME NEW u \in Tasks, NEW e \in ExecutionIds, Claim(u, e)
        PROVE  run'.task_statuses[t] = "succeeded" /\ run'.task_outputs[t] = run.task_outputs[t]
    BY <2>5, ClaimEffect
  <2>6. ASSUME NEW e \in ExecutionIds, RecordSuccess(e)
        PROVE  run'.task_statuses[t] = "succeeded" /\ run'.task_outputs[t] = run.task_outputs[t]
    BY <2>6, SuccessEffect
  <2>7. ASSUME NEW e \in ExecutionIds, RecordRetry(e) \/ RecordFailure(e) \/ RecordIgnored(e)
        PROVE  run'.task_statuses[t] = "succeeded" /\ run'.task_outputs[t] = run.task_outputs[t]
    BY <2>7, RetryEffect, FailureEffect, IgnoredEffect
  <2> QED
    BY <2>1, <2>2, <2>3, <2>4, <2>5, <2>6, <2>7 DEF Next
<1> QED
  BY <1>1, TypeCorrect, PlanIsKnown, PTL DEF Spec, SucceededIsFinal

(***************************************************************************)
(* Concurrency                                                             *)
(***************************************************************************)

\* The tasks in flight are finitely many.
LEMMA InFlightFinite ==
  \A S \in SUBSET Tasks : IsFiniteSet(S) /\ Cardinality(S) \in Nat
<1>1. IsFiniteSet(Tasks)
  BY TaskCountAssumption, FS_Interval DEF Tasks
<1> QED
  BY <1>1, FS_Subset, FS_CardinalityType

\* Only a claim puts a task in flight, and only while there is a free slot.
LEMMA ConcurrencyStep ==
  TypeOK /\ PlanKnown /\ WithinConcurrencyLimit /\ [Next]_vars => WithinConcurrencyLimit'
<1> SUFFICES ASSUME TypeOK, PlanKnown, WithinConcurrencyLimit, [Next]_vars
             PROVE  WithinConcurrencyLimit'
  OBVIOUS
<1>a. ASSUME InFlight(run') \subseteq InFlight(run) PROVE WithinConcurrencyLimit'
  <2>1. InFlight(run) \in SUBSET Tasks /\ InFlight(run') \in SUBSET Tasks
    BY DEF InFlight
  <2>2. Cardinality(InFlight(run')) <= Cardinality(InFlight(run))
    BY <1>a, <2>1, InFlightFinite, FS_Subset
  <2> QED
    BY <2>1, <2>2, InFlightFinite, MaxConcurrencyAssumption DEF WithinConcurrencyLimit
<1> USE DEF InFlight
<1>1. CASE Plan
  BY <1>1, <1>a, PlanEffect
<1>2. CASE Start \/ Resume \/ Pause \/ Recover \/ Cancel \/ Conclude
  BY <1>2, <1>a, StatusEffect, InterruptionEffect, CancelEffect, ConcludeEffect
<1>3. ASSUME NEW t \in Tasks, MarkReady(t) PROVE WithinConcurrencyLimit'
  BY <1>3, <1>a, MarkReadyEffect
<1>4. ASSUME NEW t \in Tasks, NEW e \in ExecutionIds, Claim(t, e)
      PROVE  WithinConcurrencyLimit'
  <2>1. /\ Cardinality(InFlight(run)) < MaxConcurrency
        /\ InFlight(run') = InFlight(run) \cup {t}
        /\ t \notin InFlight(run)
    BY <1>4, ClaimEffect
  <2>2. InFlight(run) \in SUBSET Tasks
    OBVIOUS
  <2>3. Cardinality(InFlight(run')) = Cardinality(InFlight(run)) + 1
    BY <2>1, <2>2, InFlightFinite, FS_AddElement
  <2>4. Cardinality(InFlight(run)) \in Nat
    BY <2>2, InFlightFinite
  <2> HIDE DEF InFlight
  <2> QED
    BY <2>1, <2>3, <2>4, MaxConcurrencyAssumption DEF WithinConcurrencyLimit
<1>5. ASSUME NEW e \in ExecutionIds,
             RecordSuccess(e) \/ RecordRetry(e) \/ RecordFailure(e) \/ RecordIgnored(e)
      PROVE  WithinConcurrencyLimit'
  <2>1. InFlight(run') \subseteq InFlight(run)
    BY <1>5, SuccessEffect, RetryEffect, FailureEffect, IgnoredEffect
  <2> QED
    BY <1>a, <2>1
<1>6. CASE UNCHANGED vars
  BY <1>6 DEF vars, WithinConcurrencyLimit
<1> QED
  BY <1>1, <1>2, <1>3, <1>4, <1>5, <1>6 DEF Next

\* The run's budget bounds the tasks in flight, whoever claims them.
THEOREM ConcurrencyIsLimited == Spec => []WithinConcurrencyLimit
<1>1. Init => WithinConcurrencyLimit
  <2> SUFFICES ASSUME Init PROVE WithinConcurrencyLimit
    OBVIOUS
  <2>1. InFlight(run) = {}
    BY DEF Init, NewRun, InFlight
  <2> QED
    BY <2>1, FS_EmptySet, MaxConcurrencyAssumption DEF WithinConcurrencyLimit
<1> QED
  BY <1>1, TypeCorrect, PlanIsKnown, ConcurrencyStep, PTL DEF Spec
(***************************************************************************)
(* Leases                                                                  *)
(***************************************************************************)

\* LeaseTable and LeaseEpochsDistinct, with what makes them inductive: only claimed
\* executions settle, and no lease is ahead of the attempts of its task.
Leases ==
  /\ LeaseTable
  /\ LeaseEpochsDistinct
  /\ settled \cap Unclaimed = {}
  /\ \A e \in ExecutionIds \ Unclaimed : leases[e].epoch <= run.task_attempts[leases[e].task]

\* Where no lease is given out or settled, Leases follows from the task statuses and
\* lease holders alone.
LEMMA LeasesAfterRelease ==
  ASSUME TypeOK, Leases, UNCHANGED <<run.task_attempts, leases>>,
         settled' \subseteq ExecutionIds \ Unclaimed,
         \A t \in Tasks :
           IF run'.task_statuses[t] = "running"
             THEN /\ run.task_statuses[t] = "running"
                  /\ run'.status = "running"
                  /\ run'.task_execution_ids[t] = run.task_execution_ids[t]
                  /\ run.task_execution_ids[t] \notin settled'
             ELSE run'.task_execution_ids[t] = None
  PROVE  Leases'
<1>1. Unclaimed' = Unclaimed
  BY DEF Unclaimed
<1>2. LeaseTable'
  BY <1>1 DEF Leases, LeaseTable, Outstanding
<1>3. LeaseEpochsDistinct'
  BY <1>1 DEF Leases, LeaseEpochsDistinct
<1> QED
  BY <1>1, <1>2, <1>3 DEF Leases

\* Every step keeps the leases exact.
LEMMA LeasesStep == TypeOK /\ PlanKnown /\ Leases /\ [Next]_vars => Leases'
<1> SUFFICES ASSUME TypeOK, PlanKnown, Leases, [Next]_vars PROVE Leases'
  OBVIOUS
<1>s. settled \subseteq ExecutionIds \ Unclaimed
  BY DEF TypeOK, Leases
<1>t. \A t \in Tasks :
        IF run.task_statuses[t] = "running"
          THEN /\ run.status = "running"
               /\ run.task_execution_ids[t] \in Outstanding
               /\ leases[run.task_execution_ids[t]].task = t
          ELSE run.task_execution_ids[t] = None
  <2> SUFFICES ASSUME NEW t \in Tasks
               PROVE  IF run.task_statuses[t] = "running"
                        THEN /\ run.status = "running"
                             /\ run.task_execution_ids[t] \in Outstanding
                             /\ leases[run.task_execution_ids[t]].task = t
                        ELSE run.task_execution_ids[t] = None
    OBVIOUS
  <2>1. LeaseTable
    BY DEF Leases
  <2>2. CASE run.task_statuses[t] = "running"
    <3>1. /\ run.status = "running" /\ run.task_execution_ids[t] \in Outstanding
          /\ leases[run.task_execution_ids[t]] =
               [task |-> t, epoch |-> run.task_attempts[t]]
      BY <2>1, <2>2 DEF LeaseTable
    <3> QED
      BY <2>2, <3>1
  <2>3. CASE run.task_statuses[t] # "running"
    BY <2>1, <2>3 DEF LeaseTable
  <2> QED
    BY <2>2, <2>3
<1>o. \A e \in Outstanding : e \in ExecutionIds \ Unclaimed /\ e \notin settled
  BY DEF Outstanding
<1>1. CASE Plan
  BY <1>1, <1>s, <1>t, LeasesAfterRelease, PlanEffect
<1>2. CASE Start \/ Resume
  BY <1>2, <1>s, <1>t, LeasesAfterRelease, StatusEffect
<1>3. CASE Pause \/ Recover
  BY <1>3, <1>s, <1>t, LeasesAfterRelease, InterruptionEffect
<1>4. CASE Cancel
  BY <1>4, <1>s, LeasesAfterRelease, CancelEffect
<1>5. CASE Conclude
  BY <1>5, <1>s, <1>t, LeasesAfterRelease, ConcludeEffect
<1>6. ASSUME NEW t \in Tasks, MarkReady(t) PROVE Leases'
  BY <1>6, <1>s, <1>t, <1>o, LeasesAfterRelease, MarkReadyEffect
<1>7. ASSUME NEW t \in Tasks, NEW e \in ExecutionIds, Claim(t, e) PROVE Leases'
  <2> DEFINE lease == [task |-> t, epoch |-> run.task_attempts[t] + 1]
  <2>1. /\ run.task_attempts \in [Tasks -> Nat] /\ run.task_attempts[t] + 1 \in Nat \ {0}
        /\ lease \in Lease /\ lease # None
        /\ leases' = [leases EXCEPT ![e] = lease]
    BY <1>7, ClaimEffect, LeaseAssumption DEF TypeOK, Snapshot, Lease
  <2>2. \A f \in ExecutionIds : leases'[f] = IF f = e THEN lease ELSE leases[f]
    BY <2>1 DEF TypeOK
  <2>3. Unclaimed' = Unclaimed \ {e} /\ e \in Unclaimed /\ e \notin settled /\ settled' = settled
    BY <1>7, <1>s, <2>1, <2>2, ClaimEffect DEF Unclaimed
  <2>4. \A u \in Tasks : u # t /\ run.task_statuses[u] = "running" =>
          run.task_execution_ids[u] # e
    BY <1>t, <1>o, <2>3
  <2>5. LeaseTable'
    <3> SUFFICES ASSUME NEW u \in Tasks
                 PROVE  IF run'.task_statuses[u] = "running"
                          THEN /\ run'.status = "running"
                               /\ run'.task_execution_ids[u] \in Outstanding'
                               /\ leases'[run'.task_execution_ids[u]] =
                                    [task |-> u, epoch |-> run'.task_attempts[u]]
                          ELSE run'.task_execution_ids[u] = None
      BY DEF LeaseTable
    <3>1. CASE u = t
      <4>1. /\ run'.status = "running" /\ run'.task_statuses[u] = "running"
            /\ run'.task_execution_ids[u] = e
            /\ run'.task_attempts[u] = run.task_attempts[t] + 1
        BY <1>7, <3>1, ClaimEffect
      <4>2. e \in Outstanding'
        BY <2>3 DEF Outstanding
      <4> QED
        BY <3>1, <4>1, <4>2, <2>2
    <3>2. CASE u # t /\ run.task_statuses[u] = "running"
      <4>1. /\ run.task_execution_ids[u] \in Outstanding /\ run.task_execution_ids[u] # e
            /\ leases[run.task_execution_ids[u]] =
                 [task |-> u, epoch |-> run.task_attempts[u]]
        BY <3>2, <2>4 DEF Leases, LeaseTable
      <4>2. /\ run'.status = "running" /\ run'.task_statuses[u] = "running"
            /\ run'.task_execution_ids[u] = run.task_execution_ids[u]
            /\ run'.task_attempts[u] = run.task_attempts[u]
        BY <1>7, <3>2, ClaimEffect
      <4>3. run.task_execution_ids[u] \in Outstanding'
        BY <4>1, <1>o, <2>3 DEF Outstanding
      <4> QED
        BY <1>o, <2>2, <4>1, <4>2, <4>3
    <3>3. CASE u # t /\ run.task_statuses[u] # "running"
      BY <1>7, <1>t, <3>3, ClaimEffect
    <3> QED
      BY <3>1, <3>2, <3>3
  <2>6. \A f \in ExecutionIds \ Unclaimed : leases[f] # lease
    BY <2>1, OutstandingHasTask DEF Leases, TypeOK, Lease
  <2>7. LeaseEpochsDistinct'
    BY <2>2, <2>3, <2>6 DEF Leases, LeaseEpochsDistinct
  <2>8. ASSUME NEW f \in ExecutionIds \ Unclaimed'
        PROVE  leases'[f].epoch <= run'.task_attempts[leases'[f].task]
    <3>1. CASE f = e
      <4>1. leases'[f].epoch = run.task_attempts[t] + 1 /\ leases'[f].task = t
        BY <3>1, <2>2
      <4>2. run'.task_attempts[t] = run.task_attempts[t] + 1
        BY <1>7, ClaimEffect
      <4> QED
        BY <4>1, <4>2, <2>1
    <3>2. CASE f # e
      <4>1. f \in ExecutionIds \ Unclaimed /\ leases'[f] = leases[f]
        BY <3>2, <2>2, <2>3
      <4>2. leases[f] \in Lease
        BY <4>1 DEF TypeOK, Unclaimed
      <4>3. leases[f].task \in Tasks /\ leases[f].epoch \in Nat
        BY <4>2 DEF Lease
      <4>4. leases[f].epoch <= run.task_attempts[leases[f].task]
        BY <4>1 DEF Leases
      <4>5. \/ run'.task_attempts[leases[f].task] = run.task_attempts[leases[f].task]
            \/ run'.task_attempts[leases[f].task] = run.task_attempts[leases[f].task] + 1
        BY <1>7, <4>3, ClaimEffect
      <4> QED
        BY <2>1, <4>1, <4>3, <4>4, <4>5
    <3> QED
      BY <3>1, <3>2
  <2> QED
    BY <1>s, <2>3, <2>5, <2>7, <2>8 DEF Leases
<1>8. ASSUME NEW e \in ExecutionIds, RecordSuccess(e) PROVE Leases'
  BY <1>8, <1>s, <1>t, <1>o, LeasesAfterRelease, SuccessEffect
<1>9. ASSUME NEW e \in ExecutionIds, RecordRetry(e) PROVE Leases'
  BY <1>9, <1>s, <1>t, <1>o, LeasesAfterRelease, RetryEffect
<1>10. ASSUME NEW e \in ExecutionIds, RecordFailure(e) PROVE Leases'
  BY <1>10, <1>s, <1>t, <1>o, LeasesAfterRelease, FailureEffect
<1>11. ASSUME NEW e \in ExecutionIds, RecordIgnored(e) PROVE Leases'
  <2>1. \A t \in Tasks : run.task_statuses[t] = "running" => run.task_execution_ids[t] # e
    BY <1>11, <1>t, IgnoredEffect DEF HoldsLease, IsActiveExecution
  <2> QED
    BY <1>11, <2>1, <1>s, <1>t, <1>o, LeasesAfterRelease, IgnoredEffect
<1>12. CASE UNCHANGED vars
  BY <1>12, <1>s, <1>t, <1>o, LeasesAfterRelease DEF vars
<1> QED
  BY <1>1, <1>2, <1>3, <1>4, <1>5, <1>6, <1>7, <1>8, <1>9, <1>10, <1>11, <1>12 DEF Next

\* The inductive invariant of the leases.
LEMMA LeasesInvariant == Spec => []Leases
<1>1. Init => Leases
  BY DEF Init, NewRun, Leases, LeaseTable, LeaseEpochsDistinct, Unclaimed
<1> QED
  BY <1>1, TypeCorrect, PlanIsKnown, LeasesStep, PTL DEF Spec

\* A task is in flight after a step because it was, under the same execution, or
\* because an execution nobody had claimed got it; an interruption leaves none.
LEMMA LeaseHolders ==
  ASSUME TypeOK, [Next]_vars
  PROVE  /\ \A t \in Tasks :
              run'.task_statuses[t] = "running" =>
                \/ /\ run.task_statuses[t] = "running"
                   /\ run'.task_execution_ids[t] = run.task_execution_ids[t]
                \/ run'.task_execution_ids[t] \in Unclaimed
         /\ Pause \/ Recover => \A t \in Tasks : run'.task_statuses[t] # "running"
<1> DEFINE Holder(t) ==
             run'.task_statuses[t] = "running" =>
               \/ /\ run.task_statuses[t] = "running"
                  /\ run'.task_execution_ids[t] = run.task_execution_ids[t]
               \/ run'.task_execution_ids[t] \in Unclaimed
<1>1. Pause \/ Recover => \A t \in Tasks : run'.task_statuses[t] # "running"
  BY InterruptionEffect
<1>2. ASSUME NEW t \in Tasks PROVE Holder(t)
  <2>1. Plan => Holder(t)
    BY PlanEffect
  <2>2. Start \/ Resume => Holder(t)
    BY StatusEffect
  <2>3. Pause \/ Recover => Holder(t)
    BY <1>1
  <2>4. Cancel => Holder(t)
    BY CancelEffect
  <2>5. Conclude => Holder(t)
    BY ConcludeEffect
  <2>6. ASSUME NEW u \in Tasks, MarkReady(u) PROVE Holder(t)
    BY <2>6, MarkReadyEffect
  <2>7. ASSUME NEW u \in Tasks, NEW e \in ExecutionIds, Claim(u, e) PROVE Holder(t)
    BY <2>7, ClaimEffect
  <2>8. ASSUME NEW e \in ExecutionIds, RecordSuccess(e) PROVE Holder(t)
    BY <2>8, SuccessEffect
  <2>9. ASSUME NEW e \in ExecutionIds, RecordRetry(e) PROVE Holder(t)
    BY <2>9, RetryEffect
  <2>10. ASSUME NEW e \in ExecutionIds, RecordFailure(e) PROVE Holder(t)
    BY <2>10, FailureEffect
  <2>11. ASSUME NEW e \in ExecutionIds, RecordIgnored(e) PROVE Holder(t)
    BY <2>11, IgnoredEffect
  <2>12. CASE UNCHANGED vars
    BY <2>12 DEF vars
  <2> HIDE DEF Holder
  <2> QED
    BY <2>1, <2>2, <2>3, <2>4, <2>5, <2>6, <2>7, <2>8, <2>9, <2>10, <2>11, <2>12 DEF Next
<1> QED
  BY <1>1, <1>2

\* A running task is leased to exactly the execution of its last attempt.
THEOREM LeasesAreExact == Spec => []LeaseTable
<1>1. Leases => LeaseTable
  BY DEF Leases
<1> QED
  BY <1>1, LeasesInvariant, PTL

\* No task is ever claimed twice under one lease epoch.
THEOREM EpochsAreDistinct == Spec => []LeaseEpochsDistinct
<1>1. Leases => LeaseEpochsDistinct
  BY DEF Leases
<1> QED
  BY <1>1, LeasesInvariant, PTL
(***************************************************************************)
(* Dependencies                                                            *)
(***************************************************************************)

\* A task that is ready, running or succeeded, or was ever started, has all its
\* dependencies succeeded: what _next_runnable_task relies on when it takes a ready
\* task without looking at its dependencies again.
DependenciesDone ==
  \A t \in Tasks :
    \/ run.task_attempts[t] > 0
    \/ run.task_statuses[t] \in {"ready", "running", "succeeded"}
    => DependenciesSucceeded(run, t)

\* Where the plan stays and succeeded tasks stay succeeded, succeeded dependencies
\* stay succeeded.
LEMMA DependenciesStay ==
  ASSUME PlanKnown, run.plan \in Plans, UNCHANGED run.plan,
         \A u \in Tasks : run.task_statuses[u] = "succeeded" =>
                            run'.task_statuses[u] = "succeeded"
  PROVE  \A t \in Tasks : DependenciesSucceeded(run, t) => DependenciesSucceeded(run', t)
BY PlansAssumption DEF DependenciesSucceeded, PlanShape

\* Tasks become ready only when their dependencies have succeeded, and started only
\* when they are ready.
LEMMA DependenciesStep ==
  TypeOK /\ PlanKnown /\ DependenciesDone /\ [Next]_vars => DependenciesDone'
<1> SUFFICES ASSUME TypeOK, PlanKnown, DependenciesDone, [Next]_vars
             PROVE  DependenciesDone'
  OBVIOUS
<1> DEFINE Started(s, t) == \/ s.task_attempts[t] > 0
                            \/ s.task_statuses[t] \in {"ready", "running", "succeeded"}
<1>a. ASSUME run.plan \in Plans, UNCHANGED run.plan,
             \A u \in Tasks : run.task_statuses[u] = "succeeded" =>
                                run'.task_statuses[u] = "succeeded",
             \A t \in Tasks : Started(run', t) =>
                                Started(run, t) \/ DependenciesSucceeded(run, t)
      PROVE  DependenciesDone'
  <2>1. \A t \in Tasks : DependenciesSucceeded(run, t) => DependenciesSucceeded(run', t)
    BY <1>a, DependenciesStay
  <2> QED
    BY <1>a, <2>1 DEF DependenciesDone
<1>b. run.status \in {"planned", "running", "paused"} => run.plan \in Plans
  BY DEF PlanKnown
<1>c. ASSUME run.plan = None, UNCHANGED <<run.plan, run.task_attempts>>,
             \A t \in Tasks : run'.task_statuses[t] = run.task_statuses[t]
      PROVE  DependenciesDone'
  BY <1>c DEF DependenciesDone, PlanKnown
<1>d. run.plan # None => run.plan \in Plans
  BY DEF TypeOK, Snapshot
<1>1. CASE Plan
  BY <1>1, PlanEffect DEF DependenciesDone, PlanKnown
<1>2. CASE Start \/ Resume
  BY <1>2, <1>a, <1>b, StatusEffect
<1>3. CASE Pause \/ Recover
  BY <1>3, <1>a, <1>b, InterruptionEffect
<1>4. CASE Cancel
  <2>1. CASE run.plan = None
    <3>1. \A t \in Tasks : run.task_statuses[t] = "absent"
      BY <2>1 DEF PlanKnown
    <3> QED
      BY <1>4, <2>1, <3>1, <1>c, CancelEffect
  <2>2. CASE run.plan # None
    BY <1>4, <2>2, <1>a, <1>d, CancelEffect
  <2> QED
    BY <2>1, <2>2
<1>5. CASE Conclude
  BY <1>5, <1>a, <1>b, ConcludeEffect
<1>6. ASSUME NEW t \in Tasks, MarkReady(t) PROVE DependenciesDone'
  BY <1>6, <1>a, <1>b, MarkReadyEffect
<1>7. ASSUME NEW t \in Tasks, NEW e \in ExecutionIds, Claim(t, e) PROVE DependenciesDone'
  BY <1>7, <1>a, <1>b, ClaimEffect
<1>8. ASSUME NEW e \in ExecutionIds, RecordSuccess(e) PROVE DependenciesDone'
  BY <1>8, <1>a, <1>b, SuccessEffect
<1>9. ASSUME NEW e \in ExecutionIds, RecordRetry(e) PROVE DependenciesDone'
  BY <1>9, <1>a, <1>b, RetryEffect
<1>10. ASSUME NEW e \in ExecutionIds, RecordFailure(e) PROVE DependenciesDone'
  BY <1>10, <1>a, <1>b, FailureEffect
<1>11. ASSUME NEW e \in ExecutionIds, RecordIgnored(e) PROVE DependenciesDone'
  BY <1>11, <1>a, <1>c, <1>d, IgnoredEffect
<1>12. CASE UNCHANGED vars
  BY <1>12 DEF vars, DependenciesDone
<1> QED
  BY <1>1, <1>2, <1>3, <1>4, <1>5, <1>6, <1>7, <1>8, <1>9, <1>10, <1>11, <1>12 DEF Next

\* The inductive invariant of the dependency order.
LEMMA DependenciesInvariant == Spec => []DependenciesDone
<1>1. Init => DependenciesDone
  BY DEF Init, NewRun, DependenciesDone
<1> QED
  BY <1>1, TypeCorrect, PlanIsKnown, DependenciesStep, PTL DEF Spec

\* A task that was ever started has all its dependencies succeeded.
THEOREM DependenciesComeFirst == Spec => []DependencyOrder
<1>1. DependenciesDone => DependencyOrder
  BY DEF DependenciesDone, DependencyOrder
<1> QED
  BY <1>1, DependenciesInvariant, PTL

(***************************************************************************)
(* Outputs                                                                 *)
(***************************************************************************)

\* OutputsFromLastAttempt, and that an output belongs to a settled execution.
Outputs ==
  \A t \in Tasks :
    IF run.task_statuses[t] = "succeeded"
      THEN /\ run.task_outputs[t] \in settled
           /\ leases[run.task_outputs[t]] = [task |-> t, epoch |-> run.task_attempts[t]]
           /\ t \notin run.task_errors
      ELSE run.task_outputs[t] = None

\* Where nothing new succeeds, the outputs stay.
LEMMA OutputsStay ==
  ASSUME Outputs, UNCHANGED <<run.task_outputs, run.task_attempts, leases>>,
         settled \subseteq settled',
         \A t \in Tasks : /\ run'.task_statuses[t] = "succeeded" <=>
                               run.task_statuses[t] = "succeeded"
                          /\ run.task_statuses[t] = "succeeded" /\ t \notin run.task_errors =>
                               t \notin run'.task_errors
  PROVE  Outputs'
BY DEF Outputs

\* Only the holder of a task's lease stores its output.
LEMMA OutputsStep ==
  TypeOK /\ PlanKnown /\ Leases /\ Outputs /\ [Next]_vars => Outputs'
<1> SUFFICES ASSUME TypeOK, PlanKnown, Leases, Outputs, [Next]_vars PROVE Outputs'
  OBVIOUS
<1>1. CASE Plan
  BY <1>1, OutputsStay, PlanEffect DEF PlanKnown
<1>2. CASE Start \/ Resume
  BY <1>2, OutputsStay, StatusEffect
<1>3. CASE Pause \/ Recover
  BY <1>3, OutputsStay, InterruptionEffect
<1>4. CASE Cancel
  BY <1>4, OutputsStay, CancelEffect
<1>5. CASE Conclude
  BY <1>5, OutputsStay, ConcludeEffect
<1>6. ASSUME NEW t \in Tasks, MarkReady(t) PROVE Outputs'
  BY <1>6, OutputsStay, MarkReadyEffect
<1>7. ASSUME NEW t \in Tasks, NEW e \in ExecutionIds, Claim(t, e) PROVE Outputs'
  <2>1. e \notin settled
    BY <1>7, ClaimEffect DEF Leases
  <2>2. \A f \in settled : leases'[f] = leases[f]
    BY <1>7, <2>1, ClaimEffect DEF TypeOK
  <2>3. /\ run.task_statuses[t] = "ready"
        /\ UNCHANGED <<run.task_outputs, run.task_errors, settled>>
        /\ \A u \in Tasks :
             /\ run'.task_statuses[u] = IF u = t THEN "running" ELSE run.task_statuses[u]
             /\ u # t => run'.task_attempts[u] = run.task_attempts[u]
    BY <1>7, ClaimEffect
  <2> SUFFICES ASSUME NEW u \in Tasks
               PROVE  IF run'.task_statuses[u] = "succeeded"
                        THEN /\ run'.task_outputs[u] \in settled'
                             /\ leases'[run'.task_outputs[u]] =
                                  [task |-> u, epoch |-> run'.task_attempts[u]]
                             /\ u \notin run'.task_errors
                        ELSE run'.task_outputs[u] = None
    BY DEF Outputs
  <2>4. CASE u = t
    BY <2>3, <2>4 DEF Outputs
  <2>5. CASE u # t
    BY <2>2, <2>3, <2>5 DEF Outputs
  <2> QED
    BY <2>4, <2>5
<1>8. ASSUME NEW e \in ExecutionIds, RecordSuccess(e) PROVE Outputs'
  <2> DEFINE t == leases[e].task
  <2>1. /\ t \in Tasks /\ run.task_statuses[t] = "running" /\ run.task_execution_ids[t] = e
        /\ settled' = settled \cup {e} /\ UNCHANGED <<run.task_attempts, leases>>
        /\ run'.task_errors = run.task_errors \ {t}
        /\ \A u \in Tasks :
             /\ run'.task_statuses[u] = IF u = t THEN "succeeded" ELSE run.task_statuses[u]
             /\ run'.task_outputs[u] = IF u = t THEN e ELSE run.task_outputs[u]
    BY <1>8, SuccessEffect
  <2>2. leases[e] = [task |-> t, epoch |-> run.task_attempts[t]]
    BY <2>1 DEF Leases, LeaseTable
  <2> HIDE DEF t
  <2> SUFFICES ASSUME NEW u \in Tasks
               PROVE  IF run'.task_statuses[u] = "succeeded"
                        THEN /\ run'.task_outputs[u] \in settled'
                             /\ leases'[run'.task_outputs[u]] =
                                  [task |-> u, epoch |-> run'.task_attempts[u]]
                             /\ u \notin run'.task_errors
                        ELSE run'.task_outputs[u] = None
    BY DEF Outputs
  <2>3. CASE u = t
    BY <2>1, <2>2, <2>3
  <2>4. CASE u # t
    BY <2>1, <2>4 DEF Outputs
  <2> QED
    BY <2>3, <2>4
<1>9. ASSUME NEW e \in ExecutionIds, RecordRetry(e) PROVE Outputs'
  BY <1>9, OutputsStay, RetryEffect
<1>10. ASSUME NEW e \in ExecutionIds, RecordFailure(e) PROVE Outputs'
  BY <1>10, OutputsStay, FailureEffect
<1>11. ASSUME NEW e \in ExecutionIds, RecordIgnored(e) PROVE Outputs'
  BY <1>11, OutputsStay, IgnoredEffect
<1>12. CASE UNCHANGED vars
  BY <1>12, OutputsStay DEF vars
<1> QED
  BY <1>1, <1>2, <1>3, <1>4, <1>5, <1>6, <1>7, <1>8, <1>9, <1>10, <1>11, <1>12 DEF Next

\* A stored output is that of the last attempt started for its task.
THEOREM OutputsAreOfLastAttempt == Spec => []OutputsFromLastAttempt
<1>1. Init => Outputs
  BY DEF Init, NewRun, Outputs
<1>2. TypeOK /\ Outputs => OutputsFromLastAttempt
  BY DEF TypeOK, Outputs, OutputsFromLastAttempt
<1> QED
  BY <1>1, <1>2, TypeCorrect, PlanIsKnown, LeasesInvariant, OutputsStep, PTL DEF Spec
(***************************************************************************)
(* Progress of the scheduler                                               *)
(***************************************************************************)

\* Until a run ends, no task is failed, blocked or cancelled.  (Tasks leave these
\* statuses to the commits that end the run: _cancel, _fail_task_and_run,
\* _fail_blocked_run.)
Unfinished ==
  run.status \notin TerminalRunStatuses =>
    \A t \in Tasks :
      run.task_statuses[t] \in {"absent", "pending", "ready", "running", "succeeded"}

\* Only a commit that ends the run fails, blocks or cancels a task.
LEMMA UnfinishedStep == TypeOK /\ Unfinished /\ [Next]_vars => Unfinished'
<1> SUFFICES ASSUME TypeOK, Unfinished, [Next]_vars PROVE Unfinished'
  OBVIOUS
<1> USE DEF Unfinished, TerminalRunStatuses
<1>1. CASE Plan
  BY <1>1, PlanEffect
<1>2. CASE Start \/ Resume
  BY <1>2, StatusEffect
<1>3. CASE Pause \/ Recover
  BY <1>3, InterruptionEffect
<1>4. CASE Cancel \/ Conclude
  BY <1>4, CancelEffect, ConcludeEffect
<1>5. ASSUME NEW t \in Tasks, MarkReady(t) PROVE Unfinished'
  BY <1>5, MarkReadyEffect
<1>6. ASSUME NEW t \in Tasks, NEW e \in ExecutionIds, Claim(t, e) PROVE Unfinished'
  BY <1>6, ClaimEffect
<1>7. ASSUME NEW e \in ExecutionIds, RecordSuccess(e) PROVE Unfinished'
  BY <1>7, SuccessEffect
<1>8. ASSUME NEW e \in ExecutionIds, RecordRetry(e) PROVE Unfinished'
  BY <1>8, RetryEffect
<1>9. ASSUME NEW e \in ExecutionIds, RecordFailure(e) \/ RecordIgnored(e) PROVE Unfinished'
  BY <1>9, FailureEffect, IgnoredEffect
<1>10. CASE UNCHANGED vars
  BY <1>10 DEF vars
<1> QED
  BY <1>1, <1>2, <1>3, <1>4, <1>5, <1>6, <1>7, <1>8, <1>9, <1>10 DEF Next

\* In an acyclic plan, among the tasks of a non-empty set one depends on none of them.
\* The sets of tasks of lower rank are finite, so one of them is minimal.
LEMMA LowestTask ==
  ASSUME NEW plan \in PlanShape, Acyclic(plan), NEW S \in SUBSET Tasks, S # {}
  PROVE  \E t \in S : plan.dependencies[t] \cap S = {}
<1>1. PICK rank \in [Tasks -> Tasks] :
        \A t \in Tasks : \A d \in plan.dependencies[t] : rank[d] < rank[t]
  BY DEF Acyclic, IsRanking
<1> DEFINE Below(t) == {u \in Tasks : rank[u] < rank[t]}
           Belows   == {Below(t) : t \in S}
<1>2. Belows \subseteq FiniteSubsetsOf(Tasks) /\ Belows # {}
  BY InFlightFinite DEF FiniteSubsetsOf
<1>3. PICK B \in Belows : \A C \in Belows : <<C, B>> \notin StrictSubsetOrdering(Tasks)
  <2> HIDE DEF Belows
  <2> QED
    BY <1>2, FS_StrictSubsetOrderingWellFounded, WFMin
<1>4. PICK t \in S : B = Below(t)
  BY <1>3
<1>5. ASSUME NEW d \in plan.dependencies[t] \cap S PROVE FALSE
  <2>1. d \in Tasks /\ rank[d] < rank[t] /\ t \in Tasks
    BY <1>1
  <2>2. \A u \in Tasks : rank[u] \in Nat
    <3>1. Tasks \subseteq Nat
      BY TaskCountAssumption DEF Tasks
    <3> QED
      BY <1>1, <3>1
  <2>3. Below(d) \subseteq Below(t) /\ d \in Below(t) /\ d \notin Below(d)
    BY <2>1, <2>2
  <2>4. <<Below(d), Below(t)>> \in StrictSubsetOrdering(Tasks)
    BY <2>3 DEF StrictSubsetOrdering
  <2>5. Below(d) \in Belows
    OBVIOUS
  <2> QED
    BY <1>3, <1>4, <2>4, <2>5
<1> QED
  BY <1>5

LEMMA UnfinishedInvariant == Spec => []Unfinished
<1>1. Init => Unfinished
  BY DEF Init, NewRun, Unfinished
<1> QED
  BY <1>1, TypeCorrect, UnfinishedStep, PTL DEF Spec

\* A running run always has something finished, in flight or to run next: the
\* no_runnable_tasks failure is never taken.
THEOREM SchedulerNeverStalls == Spec => []NeverStalls
<1>1. TypeOK /\ PlanKnown /\ Unfinished => NeverStalls
  <2> SUFFICES ASSUME TypeOK, PlanKnown, Unfinished, run.status = "running",
                      InFlight(run) = {}, RunnableTasks(run) = {}
               PROVE  AllTasksSucceeded(run)
    BY DEF NeverStalls
  <2>1. run.plan \in Plans /\ run.plan # None
    BY NoneAssumption DEF PlanKnown
  <2>2. \A t \in Tasks : run.task_statuses[t] \in {"pending", "succeeded"}
    BY <2>1 DEF PlanKnown, Unfinished, TerminalRunStatuses, InFlight, RunnableTasks
  <2> DEFINE Waiting == {t \in Tasks : run.task_statuses[t] = "pending"}
  <2>3. CASE Waiting = {}
    BY <2>1, <2>2, <2>3 DEF AllTasksSucceeded
  <2>4. CASE Waiting # {}
    <3>1. run.plan \in PlanShape /\ Acyclic(run.plan)
      BY <2>1, PlansAssumption
    <3>2. PICK t \in Waiting : run.plan.dependencies[t] \cap Waiting = {}
      BY <2>4, <3>1, LowestTask
    <3>3. run.plan.dependencies[t] \subseteq Tasks
      BY <3>1 DEF PlanShape
    <3>4. DependenciesSucceeded(run, t)
      BY <2>2, <3>2, <3>3 DEF DependenciesSucceeded
    <3> QED
      BY <3>2, <3>4 DEF RunnableTasks
  <2> QED
    BY <2>3, <2>4
<1> QED
  BY <1>1, TypeCorrect, PlanIsKnown, UnfinishedInvariant, PTL

(***************************************************************************)
(* Attempts                                                                *)
(***************************************************************************)

\* The stream only grows, and an interruption adds one to Interruptions.
LEMMA InterruptionsCount ==
  ASSUME TypeOK, NEW drafts \in Seq(RunEvent), events' = events \o drafts
  PROVE  /\ Interruptions \in Nat /\ Interruptions' \in Nat
         /\ Interruptions <= Interruptions'
         /\ drafts \in {<<OnRun("run.paused")>>, <<OnRun("run.recovered")>>} =>
              Interruptions' = Interruptions + 1
         /\ (\A i \in 1 .. Len(drafts) : drafts[i].kind \notin {"run.paused", "run.recovered"}) =>
              Interruptions' = Interruptions
<1> DEFINE kinds == {"run.paused", "run.recovered"}
           Old   == {i \in 1 .. Len(events) : events[i].kind \in kinds}
           New   == {i \in 1 .. Len(events') : events'[i].kind \in kinds}
<1>1. /\ events \in Seq(RunEvent) /\ events' \in Seq(RunEvent)
      /\ Len(events) \in Nat /\ Len(events') = Len(events) + Len(drafts)
      /\ \A i \in 1 .. Len(events) : events'[i] = events[i]
  BY DEF TypeOK
<1>2. IsFiniteSet(Old) /\ Cardinality(Old) \in Nat
  <2>1. Len(events) \in Nat /\ Old \in SUBSET (1 .. Len(events))
    BY <1>1
  <2>2. IsFiniteSet(1 .. Len(events))
    BY <2>1, FS_Interval
  <2> QED
    BY <2>1, <2>2, FS_Subset, FS_CardinalityType
<1>3. IsFiniteSet(New) /\ Cardinality(New) \in Nat
  <2>1. Len(events') \in Nat /\ New \in SUBSET (1 .. Len(events'))
    BY <1>1
  <2>2. IsFiniteSet(1 .. Len(events'))
    BY <2>1, FS_Interval
  <2> QED
    BY <2>1, <2>2, FS_Subset, FS_CardinalityType
<1>4. Old \subseteq New
  BY <1>1
<1>5. Cardinality(Old) <= Cardinality(New)
  BY <1>3, <1>4, FS_Subset
<1>6. ASSUME drafts \in {<<OnRun("run.paused")>>, <<OnRun("run.recovered")>>}
      PROVE  Cardinality(New) = Cardinality(Old) + 1
  <2>1. /\ Len(events') = Len(events) + 1
        /\ events'[Len(events) + 1].kind \in kinds
    <3>1. Len(drafts) = 1 /\ drafts[1].kind \in kinds
      BY <1>6 DEF OnRun
    <3>2. events'[Len(events) + 1] = drafts[1]
      BY <1>1, <3>1
    <3> QED
      BY <1>1, <3>1, <3>2
  <2>2. New = Old \cup {Len(events) + 1} /\ Len(events) + 1 \notin Old
    BY <1>1, <2>1
  <2> QED
    BY <1>2, <2>2, FS_AddElement
<1>7. Interruptions = Cardinality(Old) /\ Interruptions' = Cardinality(New)
  BY DEF Interruptions
<1>8. ASSUME \A i \in 1 .. Len(drafts) : drafts[i].kind \notin kinds PROVE New = Old
  <2>1. \A i \in 1 .. Len(events') :
          i \in 1 .. Len(events) \/ events'[i] = drafts[i - Len(events)]
    BY <1>1
  <2>2. \A i \in 1 .. Len(events') : i \notin 1 .. Len(events) => i - Len(events) \in 1 .. Len(drafts)
    BY <1>1
  <2> QED
    BY <1>1, <1>4, <1>8, <2>1, <2>2
<1> QED
  BY <1>2, <1>3, <1>5, <1>6, <1>7, <1>8

\* The steps that neither pause nor recover the run.
Uninterrupting ==
  \/ Plan \/ Start \/ Resume \/ Cancel \/ Conclude
  \/ \E t \in Tasks : MarkReady(t)
  \/ \E t \in Tasks, e \in ExecutionIds : Claim(t, e)
  \/ \E e \in ExecutionIds :
       RecordSuccess(e) \/ RecordRetry(e) \/ RecordFailure(e) \/ RecordIgnored(e)

\* Pauses and recoveries are counted, one by one, and nothing else is.
LEMMA InterruptionsStep ==
  ASSUME TypeOK
  PROVE  /\ Interruptions \in Nat
         /\ Pause \/ Recover => Interruptions' = Interruptions + 1
         /\ [Uninterrupting]_vars => Interruptions' = Interruptions
<1> USE DEF Commit
<1> DEFINE Others == RunEventKind \ {"run.paused", "run.recovered"}
<1>k. /\ {"run.recovered", "run.paused"} \subseteq RunEventKind
      /\ "plan.created" \in Others /\ "run.started" \in Others /\ "run.resumed" \in Others
      /\ "run.cancelled" \in Others /\ "run.succeeded" \in Others /\ "run.failed" \in Others
      /\ "task.ready" \in Others /\ "task.started" \in Others
      /\ "task.retrying" \in Others /\ "task.result_ignored" \in Others
  BY DEF RunEventKind
<1>0. Interruptions \in Nat
  <2>1. /\ {i \in 1 .. Len(events) : events[i].kind \in {"run.paused", "run.recovered"}}
             \in SUBSET (1 .. Len(events))
        /\ Len(events) \in Nat
    BY DEF TypeOK
  <2>2. IsFiniteSet(1 .. Len(events))
    BY <2>1, FS_Interval
  <2> QED
    BY <2>1, <2>2, FS_Subset, FS_CardinalityType DEF Interruptions
<1>a. ASSUME NEW drafts \in Seq(RunEvent), events' = events \o drafts,
             \A i \in 1 .. Len(drafts) : drafts[i].kind \notin {"run.paused", "run.recovered"}
      PROVE  Interruptions' = Interruptions
  BY <1>a, InterruptionsCount
<1>b. ASSUME NEW kind \in Others,
             \/ events' = events \o <<OnRun(kind)>>
             \/ \E t \in Tasks : events' = events \o <<OnTask(kind, t)>>
             \/ \E t \in Tasks, e \in ExecutionIds : events' = events \o <<OnExecution(kind, t, e)>>
      PROVE  Interruptions' = Interruptions
  <2>1. PICK event : /\ <<event>> \in Seq(RunEvent) /\ event.kind = kind
                     /\ events' = events \o <<event>>
    BY <1>b, DraftTypes DEF OnRun, OnTask, OnExecution
  <2>2. \A i \in 1 .. Len(<<event>>) :
          <<event>>[i].kind \notin {"run.paused", "run.recovered"}
    BY <2>1
  <2> QED
    BY <2>1, <2>2, <1>a
<1>c. ASSUME NEW t \in Tasks, NEW e \in ExecutionIds,
             \/ events' = events \o SuccessEvents(t, e)
             \/ events' = events \o FailureEvents(t, e)
      PROVE  Interruptions' = Interruptions
  <2>1. \A i \in 1 .. Len(SuccessEvents(t, e)) :
          SuccessEvents(t, e)[i].kind \notin {"run.paused", "run.recovered"}
    BY DEF SuccessEvents, OnExecution
  <2>2. \A i \in 1 .. Len(FailureEvents(t, e)) :
          FailureEvents(t, e)[i].kind \notin {"run.paused", "run.recovered"}
    BY DEF FailureEvents, OnExecution, OnTask
  <2> QED
    BY <1>a, <1>c, <2>1, <2>2, DraftTypes
<1>1. Pause \/ Recover => Interruptions' = Interruptions + 1
  BY <1>k, DraftTypes, InterruptionsCount DEF Pause, Recover
<1>2. ASSUME Plan \/ Start \/ Resume \/ Cancel \/ Conclude
      PROVE  Interruptions' = Interruptions
  <2>1. CASE Plan
    <3>1. \/ events' = events \o <<OnRun("plan.created")>>
          \/ events' = events \o <<OnRun("run.failed")>>
      BY <2>1 DEF Plan
    <3> HIDE DEF Others
    <3> QED
      BY <3>1, <1>b, <1>k
  <2>2. CASE Start
    <3>1. events' = events \o <<OnRun("run.started")>>
      BY <2>2 DEF Start
    <3> HIDE DEF Others
    <3> QED
      BY <3>1, <1>b, <1>k
  <2>3. CASE Resume
    <3>1. events' = events \o <<OnRun("run.resumed")>>
      BY <2>3 DEF Resume
    <3> HIDE DEF Others
    <3> QED
      BY <3>1, <1>b, <1>k
  <2>4. CASE Cancel
    <3>1. events' = events \o <<OnRun("run.cancelled")>>
      BY <2>4 DEF Cancel
    <3> HIDE DEF Others
    <3> QED
      BY <3>1, <1>b, <1>k
  <2>5. CASE Conclude
    <3>1. \/ events' = events \o <<OnRun("run.succeeded")>>
          \/ events' = events \o <<OnRun("run.failed")>>
      BY <2>5 DEF Conclude
    <3> HIDE DEF Others
    <3> QED
      BY <3>1, <1>b, <1>k
  <2> QED
    BY <1>2, <2>1, <2>2, <2>3, <2>4, <2>5
<1>3. ASSUME NEW t \in Tasks, MarkReady(t) PROVE Interruptions' = Interruptions
  BY <1>3, <1>b, <1>k DEF MarkReady
<1>4. ASSUME NEW t \in Tasks, NEW e \in ExecutionIds, Claim(t, e)
      PROVE  Interruptions' = Interruptions
  BY <1>4, <1>b, <1>k DEF Claim
<1>5. ASSUME NEW e \in ExecutionIds,
             RecordSuccess(e) \/ RecordRetry(e) \/ RecordFailure(e) \/ RecordIgnored(e)
      PROVE  Interruptions' = Interruptions
  <2>1. leases[e].task \in Tasks
    BY <1>5, OutstandingHasTask DEF RecordSuccess, RecordRetry, RecordFailure, RecordIgnored
  <2> DEFINE t == leases[e].task
  <2>2. CASE RecordSuccess(e) \/ RecordFailure(e)
    <3>1. events' = events \o SuccessEvents(t, e) \/ events' = events \o FailureEvents(t, e)
      BY <2>2 DEF RecordSuccess, RecordFailure
    <3> QED
      BY <2>1, <3>1, <1>c
  <2>3. CASE RecordRetry(e) \/ RecordIgnored(e)
    <3>1. \/ events' = events \o <<OnExecution("task.retrying", t, e)>>
          \/ events' = events \o <<OnExecution("task.result_ignored", t, e)>>
      BY <2>3 DEF RecordRetry, RecordIgnored
    <3>2. ASSUME NEW kind \in Others, events' = events \o <<OnExecution(kind, t, e)>>
          PROVE  Interruptions' = Interruptions
      <4>1. \E u \in Tasks, f \in ExecutionIds :
              events' = events \o <<OnExecution(kind, u, f)>>
        BY <2>1, <3>2
      <4> QED
        BY <4>1, <1>b
    <3> HIDE DEF Others, t
    <3> QED
      BY <3>1, <3>2, <1>k
  <2> QED
    BY <1>5, <2>2, <2>3
<1>6. UNCHANGED vars => Interruptions' = Interruptions
  BY DEF vars, Interruptions
<1> QED
  BY <1>0, <1>1, <1>2, <1>3, <1>4, <1>5, <1>6 DEF Uninterrupting

\* No step takes an event back.
LEMMA InterruptionsGrow ==
  ASSUME TypeOK, [Next]_vars
  PROVE  Interruptions \in Nat /\ Interruptions' \in Nat /\ Interruptions <= Interruptions'
<1>1. Next => Uninterrupting \/ Pause \/ Recover
  BY DEF Next, Uninterrupting
<1> QED
  BY <1>1, InterruptionsStep

\* AttemptsBounded, and that a task waiting for its next attempt has one left.
AttemptsPaid ==
  run.plan # None =>
    \A t \in Tasks :
      /\ run.task_attempts[t] <= run.plan.max_attempts[t] + Interruptions
      /\ run.task_statuses[t] \in {"pending", "ready"} =>
           run.task_attempts[t] < run.plan.max_attempts[t] + Interruptions

\* A retry leaves an attempt, and an interruption pays for the one it takes.
LEMMA AttemptsStep ==
  TypeOK /\ PlanKnown /\ AttemptsPaid /\ [Next]_vars => AttemptsPaid'
<1> SUFFICES ASSUME TypeOK, PlanKnown, AttemptsPaid, [Next]_vars, run'.plan # None,
                    NEW t \in Tasks
             PROVE  /\ run'.task_attempts[t] <= run'.plan.max_attempts[t] + Interruptions'
                    /\ run'.task_statuses[t] \in {"pending", "ready"} =>
                         run'.task_attempts[t] < run'.plan.max_attempts[t] + Interruptions'
  BY DEF AttemptsPaid
<1>i. Interruptions \in Nat /\ Interruptions' \in Nat /\ Interruptions <= Interruptions'
  BY InterruptionsGrow
<1>m. \A p \in Plans : p.max_attempts[t] \in Nat \ {0}
  BY PlansAssumption DEF PlanShape
<1>n. run.task_attempts[t] \in Nat /\ (run.plan # None => run.plan \in Plans)
  BY DEF TypeOK, Snapshot
<1>p. run.plan # None =>
        /\ run.task_attempts[t] <= run.plan.max_attempts[t] + Interruptions
        /\ run.task_statuses[t] \in {"pending", "ready"} =>
             run.task_attempts[t] < run.plan.max_attempts[t] + Interruptions
  BY DEF AttemptsPaid
<1>a. ASSUME UNCHANGED <<run.plan, run.task_attempts>>,
             run'.task_statuses[t] \in {"pending", "ready"} =>
               \/ run.task_statuses[t] \in {"pending", "ready"}
               \/ run.task_attempts[t] < run.plan.max_attempts[t]
      PROVE  /\ run'.task_attempts[t] <= run'.plan.max_attempts[t] + Interruptions'
             /\ run'.task_statuses[t] \in {"pending", "ready"} =>
                  run'.task_attempts[t] < run'.plan.max_attempts[t] + Interruptions'
  <2>1. run.plan # None /\ run.plan.max_attempts[t] \in Nat
    BY <1>a, <1>m, <1>n
  <2> QED
    BY <1>a, <1>i, <1>n, <1>p, <2>1
<1>1. CASE Plan
  <2>1. run'.plan \in Plans /\ run'.task_attempts = run.task_attempts /\ run.task_attempts[t] = 0
    BY <1>1, PlanEffect DEF PlanKnown
  <2>2. run'.plan.max_attempts[t] \in Nat \ {0}
    BY <2>1, <1>m
  <2> QED
    BY <2>1, <2>2, <1>i
<1>2. CASE Start \/ Resume
  BY <1>2, <1>a, StatusEffect
<1>3. CASE Pause \/ Recover
  <2>1. UNCHANGED <<run.plan, run.task_attempts>>
    BY <1>3, InterruptionEffect
  <2>2. \E drafts \in {<<OnRun("run.paused")>>, <<OnRun("run.recovered")>>} :
          drafts \in Seq(RunEvent) /\ events' = events \o drafts
    BY <1>3, DraftTypes DEF Pause, Recover, Commit, RunEventKind
  <2>3. Interruptions' = Interruptions + 1
    BY <2>2, InterruptionsCount
  <2>4. run.plan # None /\ run.plan.max_attempts[t] \in Nat
    BY <2>1, <1>m, <1>n
  <2> QED
    BY <2>1, <2>3, <2>4, <1>i, <1>n, <1>p
<1>4. CASE Cancel
  <2>1. run'.task_statuses[t] \notin {"pending", "ready"} /\ UNCHANGED <<run.plan, run.task_attempts>>
    BY <1>4, CancelEffect
  <2> QED
    BY <1>a, <2>1
<1>5. CASE Conclude
  BY <1>5, <1>a, ConcludeEffect
<1>6. ASSUME NEW u \in Tasks, MarkReady(u)
      PROVE  UNCHANGED <<run.plan, run.task_attempts>> /\
             (run'.task_statuses[t] \in {"pending", "ready"} =>
                run.task_statuses[t] \in {"pending", "ready"})
  BY <1>6, MarkReadyEffect
<1>7. ASSUME NEW u \in Tasks, NEW e \in ExecutionIds, Claim(u, e)
      PROVE  /\ run'.task_attempts[t] <= run'.plan.max_attempts[t] + Interruptions'
             /\ run'.task_statuses[t] \in {"pending", "ready"} =>
                  run'.task_attempts[t] < run'.plan.max_attempts[t] + Interruptions'
  <2>1. /\ run.task_statuses[u] = "ready" /\ run'.plan = run.plan
        /\ run'.task_statuses[t] = IF t = u THEN "running" ELSE run.task_statuses[t]
        /\ run'.task_attempts[t] = IF t = u THEN run.task_attempts[t] + 1
                                   ELSE run.task_attempts[t]
    BY <1>7, ClaimEffect
  <2>2. run.plan # None /\ run.plan.max_attempts[t] \in Nat
    BY <2>1, <1>m, <1>n
  <2> QED
    BY <2>1, <2>2, <1>i, <1>n, <1>p
<1>8. ASSUME NEW e \in ExecutionIds, RecordSuccess(e) \/ RecordFailure(e) \/ RecordIgnored(e)
      PROVE  UNCHANGED <<run.plan, run.task_attempts>> /\
             (run'.task_statuses[t] \in {"pending", "ready"} =>
                run.task_statuses[t] \in {"pending", "ready"})
  BY <1>8, SuccessEffect, FailureEffect, IgnoredEffect
<1>9. ASSUME NEW e \in ExecutionIds, RecordRetry(e)
      PROVE  UNCHANGED <<run.plan, run.task_attempts>> /\
             (run'.task_statuses[t] \in {"pending", "ready"} =>
                \/ run.task_statuses[t] \in {"pending", "ready"}
                \/ run.task_attempts[t] < run.plan.max_attempts[t])
  BY <1>9, RetryEffect
<1>10. CASE UNCHANGED vars
  BY <1>10, <1>a DEF vars
<1> QED
  BY <1>1, <1>2, <1>3, <1>4, <1>5, <1>6, <1>7, <1>8, <1>9, <1>10, <1>a DEF Next

\* Every attempt beyond a task's limit is paid for by a pause or a recovery.
THEOREM AttemptsAreBounded == Spec => []AttemptsBounded
<1>1. Init => AttemptsPaid
  BY DEF Init, NewRun, AttemptsPaid
<1>2. AttemptsPaid => AttemptsBounded
  BY DEF AttemptsPaid, AttemptsBounded
<1> QED
  BY <1>1, <1>2, TypeCorrect, PlanIsKnown, AttemptsStep, PTL DEF Spec

(***************************************************************************)
(* Outcome                                                                 *)
(***************************************************************************)

\* The failing task, the tasks it blocks and the others.  (_fail_task_and_run)
LEMMA FailureStatuses ==
  ASSUME TypeOK, NEW e \in ExecutionIds, RecordFailure(e), NEW t, t = leases[e].task
  PROVE  \A u \in Tasks :
           run'.task_statuses[u] =
             IF u = t THEN "failed"
             ELSE IF run.task_statuses[u] = "succeeded" THEN "succeeded"
             ELSE IF u \in BlockedDescendants(run.plan, t) THEN "blocked"
             ELSE "cancelled"
<1>1. t \in Tasks /\ Commit(TaskAndRunFailed(run, t), FailureEvents(t, e))
  BY HolderFacts DEF RecordFailure
<1>2. run \in Snapshot /\ TaskAndRunFailed(run, t) \in Snapshot
  BY <1>1, TransitionTypes DEF TypeOK
<1>3. run'.task_statuses = TaskAndRunFailed(run, t).task_statuses
  BY <1>1, <1>2, DraftTypes, CommitFields
<1>4. \A u \in Tasks :
        TaskAndRunFailed(run, t).task_statuses[u] =
          IF u = t THEN "failed"
          ELSE IF run.task_statuses[u] = "succeeded" THEN "succeeded"
          ELSE IF u \in BlockedDescendants(run.plan, t) THEN "blocked"
          ELSE "cancelled"
  BY <1>2 DEF TaskAndRunFailed, Snapshot
<1> QED
  BY <1>3, <1>4

\* A succeeded task depends on succeeded tasks only, however far away.
LEMMA SucceededDependencies ==
  ASSUME TypeOK, DependenciesDone, run.plan \in PlanShape,
         NEW u \in Tasks, run.task_statuses[u] = "succeeded",
         NEW t \in Tasks, DependsOn(run.plan, u, t)
  PROVE  run.task_statuses[t] = "succeeded"
<1> DEFINE S == {x \in Tasks : run.task_statuses[x] = "succeeded"}
<1>1. S \in SUBSET Tasks /\ u \in S
  OBVIOUS
<1>2. ASSUME NEW x \in S PROVE run.plan.dependencies[x] \subseteq S
  <2>1. run.plan.dependencies[x] \subseteq Tasks
    BY DEF PlanShape
  <2>2. DependenciesSucceeded(run, x)
    BY DEF DependenciesDone
  <2> QED
    BY <2>1, <2>2 DEF DependenciesSucceeded
<1>3. t \in S
  BY <1>1, <1>2 DEF DependsOn
<1> QED
  BY <1>3

\* Ended runs stay as they are; each way to end a run leaves statuses that explain it.
LEMMA OutcomeStep ==
  ASSUME TypeOK, PlanKnown, Unfinished, DependenciesDone, NeverStalls, OutcomeExplained,
         [Next]_vars
  PROVE  OutcomeExplained'
<1>1. ASSUME run'.status \notin {"succeeded", "failed", "cancelled"}
      PROVE  OutcomeExplained'
  BY <1>1 DEF OutcomeExplained
<1>2. CASE Plan
  <2>1. run'.plan = None \/ run'.status = "planned"
    BY <1>2, PlanEffect DEF PlanKnown
  <2>2. run'.status \in {"planned", "failed"}
    BY <1>2, PlanEffect
  <2> QED
    BY <2>1, <2>2 DEF OutcomeExplained
<1>3. CASE Start \/ Resume \/ Pause \/ Recover
  BY <1>1, <1>3, StatusEffect, InterruptionEffect
<1>4. CASE Cancel
  <2>1. run'.status = "cancelled"
    BY <1>4, CancelEffect
  <2>2. \A t \in Tasks : run'.task_statuses[t] \in {"succeeded", "cancelled", "absent"}
    BY <1>4, CancelEffect
  <2> QED
    BY <2>1, <2>2 DEF OutcomeExplained
<1>5. CASE Conclude
  <2>1. AllTasksSucceeded(run)
    BY <1>5 DEF Conclude, NeverStalls
  <2>2. WithStatus(run, "succeeded") \in Snapshot /\ <<OnRun("run.succeeded")>> \in Seq(RunEvent)
    BY TransitionTypes, DraftTypes DEF TypeOK, RunStatus, RunEventKind
  <2>3. Commit(WithStatus(run, "succeeded"), <<OnRun("run.succeeded")>>)
    BY <1>5, <2>1 DEF Conclude
  <2>4. run'.status = "succeeded" /\ run'.plan = run.plan
        /\ run'.task_statuses = run.task_statuses
    BY <2>2, <2>3, CommitFields DEF WithStatus, TypeOK, Snapshot
  <2>5. AllTasksSucceeded(run')
    BY <2>1, <2>4 DEF AllTasksSucceeded
  <2> QED
    BY <2>4, <2>5 DEF OutcomeExplained
<1>6. ASSUME NEW t \in Tasks, MarkReady(t) PROVE OutcomeExplained'
  BY <1>1, <1>6, MarkReadyEffect
<1>7. ASSUME NEW t \in Tasks, NEW e \in ExecutionIds, Claim(t, e) PROVE OutcomeExplained'
  BY <1>1, <1>7, ClaimEffect
<1>8. ASSUME NEW e \in ExecutionIds, RecordSuccess(e) PROVE OutcomeExplained'
  BY <1>1, <1>8, SuccessEffect
<1>9. ASSUME NEW e \in ExecutionIds, RecordRetry(e) PROVE OutcomeExplained'
  BY <1>1, <1>9, RetryEffect
<1>10. ASSUME NEW e \in ExecutionIds, RecordFailure(e) PROVE OutcomeExplained'
  <2> DEFINE t == leases[e].task
  <2>1. /\ t \in Tasks /\ run.status = "running" /\ run'.status = "failed"
        /\ run.task_statuses[t] = "running" /\ run'.plan = run.plan
    BY <1>10, FailureEffect
  <2>2. \A u \in Tasks :
          run'.task_statuses[u] =
            IF u = t THEN "failed"
            ELSE IF run.task_statuses[u] = "succeeded" THEN "succeeded"
            ELSE IF u \in BlockedDescendants(run.plan, t) THEN "blocked"
            ELSE "cancelled"
    BY <1>10, FailureStatuses
  <2>3. run.plan \in PlanShape /\ \A x \in Tasks : run.plan.dependencies[x] \subseteq Tasks
    BY <2>1, PlansAssumption DEF PlanKnown, PlanShape
  <2>4. ASSUME NEW u \in Tasks \ {t}
        PROVE  /\ run'.task_statuses[u] \in {"succeeded", "blocked", "cancelled"}
               /\ (run'.task_statuses[u] = "blocked") <=> DependsOn(run'.plan, u, t)
    <3>1. u \in BlockedDescendants(run.plan, t) <=> DependsOn(run.plan, u, t)
      BY <2>1, <2>3, BlockedDependOnFailed
    <3>2. DependsOn(run.plan, u, t) => run.task_statuses[u] # "succeeded"
      BY <2>1, <2>3, SucceededDependencies
    <3> QED
      BY <2>1, <2>2, <3>1, <3>2
  <2>5. run'.task_statuses[t] = "failed"
    BY <2>1, <2>2
  <2> HIDE DEF t
  <2> QED
    BY <2>1, <2>4, <2>5 DEF OutcomeExplained
<1>11. ASSUME UNCHANGED <<run.status, run.plan, run.task_statuses>> PROVE OutcomeExplained'
  BY <1>11 DEF OutcomeExplained, AllTasksSucceeded
<1>12. ASSUME NEW e \in ExecutionIds, RecordIgnored(e) PROVE OutcomeExplained'
  BY <1>11, <1>12, IgnoredEffect
<1>13. CASE UNCHANGED vars
  BY <1>11, <1>13 DEF vars
<1> QED
  BY <1>2, <1>3, <1>4, <1>5, <1>6, <1>7, <1>8, <1>9, <1>10, <1>12, <1>13 DEF Next

\* The final task statuses say why a run ended: exactly the tasks that depend on the
\* failed one, over any number of others, are blocked.  (_complete,
\* _fail_task_and_run, _cancel)
THEOREM OutcomeIsExplained == Spec => []OutcomeExplained
<1>1. Init => OutcomeExplained
  BY DEF Init, NewRun, OutcomeExplained
<1>2. Spec => []Unfinished
  <2>1. Init => Unfinished
    BY DEF Init, NewRun, Unfinished
  <2> QED
    BY <2>1, TypeCorrect, UnfinishedStep, PTL DEF Spec
<1>3. TypeOK /\ PlanKnown /\ Unfinished /\ DependenciesDone /\ NeverStalls
        /\ OutcomeExplained /\ [Next]_vars => OutcomeExplained'
  BY OutcomeStep
<1> QED
  BY <1>1, <1>2, <1>3, TypeCorrect, PlanIsKnown, DependenciesInvariant, SchedulerNeverStalls,
     PTL DEF Spec
=============================================================================
