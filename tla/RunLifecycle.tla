---------------------------- MODULE RunLifecycle ----------------------------
(***************************************************************************)
(* What the runtime promises about one research run, one step per commit.  *)
(*                                                                         *)
(* A step replaces the stored snapshot by the next version and appends the *)
(* events of that commit.  Whoever performs it - an HTTP command, startup  *)
(* recovery, a worker's scheduler, an execution reporting its result - has *)
(* decided on the snapshot it replaces.  RuntimeService is the detailed    *)
(* specification, in which loading and committing are separate steps of    *)
(* concurrent processes; it implements this one.                           *)
(***************************************************************************)
EXTENDS RunModel

CONSTANT MaxInterruptions \* bound on pauses and recoveries together

ASSUME MaxInterruptionsAssumption == MaxInterruptions \in Nat

VARIABLES
  run,    \* the stored snapshot
  events, \* the stored event stream of the run
  leases, \* what each execution was claimed for: its task and lease epoch
  settled \* the executions whose outcome has been recorded

vars == <<run, events, leases, settled>>

TypeOK ==
  /\ run \in Snapshot
  /\ events \in Seq(RunEvent)
  /\ leases \in [ExecutionIds -> Lease \cup {None}]
  /\ settled \subseteq ExecutionIds

(***************************************************************************)
(* Steps                                                                   *)
(***************************************************************************)
Commit(changed, drafts) ==
  /\ run' = [changed EXCEPT !.version = run.version + 1]
  /\ events' = events \o drafts

Interruptions ==
  Cardinality({i \in 1 .. Len(events) : events[i].kind \in {"run.paused", "run.recovered"}})

Unclaimed == {e \in ExecutionIds : leases[e] = None}

\* The executions that may still report: claimed and without an outcome.
Outstanding == {e \in ExecutionIds \ Unclaimed : e \notin settled}

HoldsLease(e) == IsActiveExecution(run, leases[e].task, e)

Init ==
  /\ run = NewRun
  /\ events = <<OnRun("run.created")>>
  /\ leases = [e \in ExecutionIds |-> None]
  /\ settled = {}

Plan ==
  /\ run.status = "created"
  /\ \/ \E p \in Plans : Commit(Planned(run, p), <<OnRun("plan.created")>>)
     \/ Commit(WithStatus(run, "failed"), <<OnRun("run.failed")>>)
  /\ UNCHANGED <<leases, settled>>

Start ==
  /\ run.status = "planned"
  /\ Commit(WithStatus(run, "running"), <<OnRun("run.started")>>)
  /\ UNCHANGED <<leases, settled>>

\* Faulty: a run that ended can be paused, and so resumed.
Pause_AnyStatus ==
  /\ Interruptions < MaxInterruptions
  /\ run.status \notin {"created", "paused"}
  /\ Commit(Paused(run), <<OnRun("run.paused")>>)
  /\ UNCHANGED <<leases, settled>>

Pause ==
  /\ Interruptions < MaxInterruptions
  /\ run.status \in {"planned", "running"}
  /\ Commit(Paused(run), <<OnRun("run.paused")>>)
  /\ UNCHANGED <<leases, settled>>

Resume ==
  /\ run.status = "paused"
  /\ Commit(WithStatus(run, "running"), <<OnRun("run.resumed")>>)
  /\ UNCHANGED <<leases, settled>>

Cancel ==
  /\ run.status \notin TerminalRunStatuses
  /\ Commit(Cancelled(run), <<OnRun("run.cancelled")>>)
  /\ UNCHANGED <<leases, settled>>

Recover ==
  /\ Interruptions < MaxInterruptions
  /\ run.status = "running"
  /\ Commit(Paused(run), <<OnRun("run.recovered")>>)
  /\ UNCHANGED <<leases, settled>>

\* Faulty: one task too many.
Schedulable_OffByOne(t) ==
  /\ run.status = "running"
  /\ Cardinality(InFlight(run)) <= MaxConcurrency
  /\ IsNextRunnable(run, t)

\* The scheduler has a free slot and t is the task it takes next.
Schedulable(t) ==
  /\ run.status = "running"
  /\ Cardinality(InFlight(run)) < MaxConcurrency
  /\ IsNextRunnable(run, t)

MarkReady(t) ==
  /\ Schedulable(t)
  /\ run.task_statuses[t] = "pending"
  /\ Commit(TaskReady(run, t), <<OnTask("task.ready", t)>>)
  /\ UNCHANGED <<leases, settled>>

\* Faulty: the lease epoch is read from the snapshot before the claim.
Claim_EpochBeforeAttempt(t, e) ==
  /\ Schedulable(t)
  /\ run.task_statuses[t] = "ready"
  /\ e \in Unclaimed
  /\ Commit(TaskRunning(run, t, e), <<OnExecution("task.started", t, e)>>)
  /\ leases' = [leases EXCEPT ![e] = [task |-> t, epoch |-> run.task_attempts[t]]]
  /\ UNCHANGED settled

Claim(t, e) ==
  /\ Schedulable(t)
  /\ run.task_statuses[t] = "ready"
  /\ e \in Unclaimed
  /\ Commit(TaskRunning(run, t, e), <<OnExecution("task.started", t, e)>>)
  /\ leases' = [leases EXCEPT ![e] = [task |-> t, epoch |-> run.task_attempts[t] + 1]]
  /\ UNCHANGED settled

RecordSuccess(e) ==
  /\ e \in Outstanding
  /\ HoldsLease(e)
  /\ LET t == leases[e].task
     IN  Commit(TaskSucceeded(run, t, e), SuccessEvents(t, e))
  /\ settled' = settled \cup {e}
  /\ UNCHANGED leases

\* Faulty: one retry too many.
RecordRetry_OffByOne(e) ==
  /\ e \in Outstanding
  /\ HoldsLease(e)
  /\ LET t == leases[e].task
     IN  /\ run.task_attempts[t] <= run.plan.max_attempts[t]
         /\ Commit(TaskRetrying(run, t), <<OnExecution("task.retrying", t, e)>>)
  /\ settled' = settled \cup {e}
  /\ UNCHANGED leases

RecordRetry(e) ==
  /\ e \in Outstanding
  /\ HoldsLease(e)
  /\ LET t == leases[e].task
     IN  /\ run.task_attempts[t] < run.plan.max_attempts[t]
         /\ Commit(TaskRetrying(run, t), <<OnExecution("task.retrying", t, e)>>)
  /\ settled' = settled \cup {e}
  /\ UNCHANGED leases

RecordFailure(e) ==
  /\ e \in Outstanding
  /\ HoldsLease(e)
  /\ LET t == leases[e].task
     IN  /\ run.task_attempts[t] >= run.plan.max_attempts[t]
         /\ Commit(TaskAndRunFailed(run, t), FailureEvents(t, e))
  /\ settled' = settled \cup {e}
  /\ UNCHANGED leases

\* A result that lost its lease leaves an event and a new version, no more.
RecordIgnored(e) ==
  /\ e \in Outstanding
  /\ ~ HoldsLease(e)
  /\ Commit(run, <<OnExecution("task.result_ignored", leases[e].task, e)>>)
  /\ settled' = settled \cup {e}
  /\ UNCHANGED leases

\* The scheduler finds nothing in flight and nothing to run.
Conclude ==
  /\ run.status = "running"
  /\ InFlight(run) = {}
  /\ RunnableTasks(run) = {}
  /\ IF AllTasksSucceeded(run)
       THEN Commit(WithStatus(run, "succeeded"), <<OnRun("run.succeeded")>>)
       ELSE Commit(BlockedRunFailed(run), <<OnRun("run.failed")>>)
  /\ UNCHANGED <<leases, settled>>

Next ==
  \/ Plan \/ Start \/ Pause \/ Resume \/ Cancel \/ Recover \/ Conclude
  \/ \E t \in Tasks : MarkReady(t)
  \/ \E t \in Tasks, e \in ExecutionIds : Claim(t, e)
  \/ \E e \in ExecutionIds :
       RecordSuccess(e) \/ RecordRetry(e) \/ RecordFailure(e) \/ RecordIgnored(e)

Spec == Init /\ [][Next]_vars

(***************************************************************************)
(* Properties                                                              *)
(***************************************************************************)

\* A task is running exactly while some execution holds its lease, in a run that
\* is itself running; the lease is that of the last attempt and has no outcome
\* yet.  (_paused_transition, _cancel, _fail_task_and_run drop leases in bulk.)
LeaseTable ==
  \A t \in Tasks :
    LET e == run.task_execution_ids[t]
    IN  IF run.task_statuses[t] = "running"
          THEN /\ run.status = "running"
               /\ e \in Outstanding
               /\ leases[e] = [task |-> t, epoch |-> run.task_attempts[t]]
          ELSE e = None

\* No two executions are ever given the same task under the same lease epoch,
\* across pauses, recoveries and retries.  (_claim_task, _task_running)
LeaseEpochsDistinct ==
  \A e, f \in ExecutionIds \ Unclaimed : leases[e] = leases[f] => e = f

\* Never more tasks in flight than the run's budget allows, whoever claims them.
\* (_execute_until_stopped counts before it claims)
WithinConcurrencyLimit == Cardinality(InFlight(run)) <= MaxConcurrency

\* A task that was ever started has all its dependencies succeeded, also after a
\* pause, a retry or the end of the run: the scheduler runs a ready task without
\* looking at its dependencies again.  (_next_runnable_task)
DependencyOrder ==
  \A t \in Tasks : run.task_attempts[t] > 0 => DependenciesSucceeded(run, t)

\* A stored output belongs to a succeeded task and to the last attempt started
\* for it: no earlier attempt's late result is ever stored.  (_record_task_success)
OutputsFromLastAttempt ==
  \A t \in Tasks :
    IF run.task_statuses[t] = "succeeded"
      THEN /\ run.task_outputs[t] \in ExecutionIds
           /\ leases[run.task_outputs[t]] = [task |-> t, epoch |-> run.task_attempts[t]]
           /\ t \notin run.task_errors
      ELSE run.task_outputs[t] = None

\* A running run always has something finished, in flight or to run next, so the
\* "no_runnable_tasks" failure of _fail_blocked_run is never taken.
NeverStalls ==
  run.status = "running" =>
    AllTasksSucceeded(run) \/ InFlight(run) # {} \/ RunnableTasks(run) # {}

\* The final task statuses say why the run ended: all succeeded; or one task
\* failed, its unfinished dependents - and only they - are blocked, the rest is
\* cancelled; or the run was cancelled and nothing is failed or blocked.
\* (_complete, _fail_task_and_run, _cancel)
OutcomeExplained ==
  /\ run.status = "succeeded" => AllTasksSucceeded(run)
  /\ run.status = "failed" /\ run.plan # None =>
       \E t \in Tasks :
         /\ run.task_statuses[t] = "failed"
         /\ \A u \in Tasks \ {t} :
              /\ run.task_statuses[u] \in {"succeeded", "blocked", "cancelled"}
              /\ (run.task_statuses[u] = "blocked") <=> DependsOn(run.plan, u, t)
  /\ run.status = "cancelled" =>
       \A t \in Tasks : run.task_statuses[t] \in {"succeeded", "cancelled", "absent"}

\* Every attempt beyond the task's own limit is paid for by a pause or a recovery:
\* the retry policy alone never exceeds max_attempts.  (_record_task_failure)
AttemptsBounded ==
  run.plan # None =>
    \A t \in Tasks :
      run.task_attempts[t] <= run.plan.max_attempts[t] + Interruptions

\* A succeeded task is never reopened and its output never replaced, whatever
\* pauses, recoveries, retries and late results follow.
SucceededIsFinal ==
  [][\A t \in Tasks :
       run.task_statuses[t] = "succeeded" =>
         /\ run'.task_statuses[t] = "succeeded"
         /\ run'.task_outputs[t] = run.task_outputs[t]]_vars

\* A run that ended stays as it is: late results only add events and versions.
TerminalIsFinal ==
  [][run.status \in TerminalRunStatuses =>
       [run' EXCEPT !.version = run.version] = run]_vars
=============================================================================
