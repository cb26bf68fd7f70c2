---------------------------- MODULE RunEventLog ----------------------------
(***************************************************************************)
(* What the event stream of a run says.  Every commit stores the snapshot  *)
(* and its events in one transaction, so a reader of the stream alone must *)
(* arrive at the stored snapshot.  Replay is that reader: it knows the     *)
(* plan and the meaning of each event kind, and none of the transitions of *)
(* RunModel.                                                               *)
(***************************************************************************)
EXTENDS RunLifecycle

(***************************************************************************)
(* Replay                                                                  *)
(***************************************************************************)
NothingSeen ==
  [status |-> "created", tasks |-> [t \in Tasks |-> "absent"],
   attempts |-> [t \in Tasks |-> 0], leases |-> [t \in Tasks |-> None],
   outputs |-> [t \in Tasks |-> None]]

\* The tasks that keep their status whatever ends the run.
Done(seen) == {t \in Tasks : seen.tasks[t] \in {"succeeded", "failed", "absent"}}

NoLeases == [t \in Tasks |-> None]

SeenInterruption(seen) ==
  [seen EXCEPT
     !.status = "paused",
     !.tasks  = [t \in Tasks |-> IF seen.leases[t] = None THEN @[t] ELSE "ready"],
     !.leases = NoLeases]

SeenFailure(seen, plan, failed) ==
  [seen EXCEPT
     !.status = "failed",
     !.tasks  = [t \in Tasks |->
                   IF t \in Done(seen) THEN @[t]
                   ELSE IF DependsOn(plan, t, failed) THEN "blocked" ELSE "cancelled"],
     !.leases = NoLeases]

SeenTask(seen, event, status) == [seen EXCEPT !.tasks[event.task] = status]

SeenOutcome(seen, event, status) ==
  [SeenTask(seen, event, status) EXCEPT !.leases[event.task] = None]

Apply(plan, seen, event) ==
  CASE event.kind = "plan.created" ->
         [seen EXCEPT !.status = "planned", !.tasks = [t \in Tasks |-> "pending"]]
    [] event.kind \in {"run.started", "run.resumed"} -> [seen EXCEPT !.status = "running"]
    [] event.kind \in {"run.paused", "run.recovered"} -> SeenInterruption(seen)
    [] event.kind = "run.cancelled" ->
         [seen EXCEPT
            !.status = "cancelled",
            !.tasks  = [t \in Tasks |-> IF t \in Done(seen) THEN @[t] ELSE "cancelled"],
            !.leases = NoLeases]
    [] event.kind = "run.succeeded" -> [seen EXCEPT !.status = "succeeded"]
    [] event.kind = "run.failed" -> SeenFailure(seen, plan, event.task)
    [] event.kind = "task.ready" -> SeenTask(seen, event, "ready")
    [] event.kind = "task.started" ->
         [SeenTask(seen, event, "running") EXCEPT
            !.attempts[event.task] = @ + 1, !.leases[event.task] = event.execution]
    [] event.kind = "task.retrying" -> SeenOutcome(seen, event, "ready")
    [] event.kind = "task.failed" -> SeenOutcome(seen, event, "failed")
    [] event.kind = "task.succeeded" ->
         [SeenOutcome(seen, event, "succeeded") EXCEPT !.outputs[event.task] = event.execution]
    [] OTHER -> seen

\* What the first i events have told, for every i.
Replay(plan, log) ==
  LET seen[i \in 0 .. Len(log)] ==
        IF i = 0 THEN NothingSeen ELSE Apply(plan, seen[i - 1], log[i])
  IN  seen[Len(log)]

(***************************************************************************)
(* Properties                                                              *)
(***************************************************************************)

\* What a snapshot says of the things events tell.
Told(s) ==
  [status |-> s.status, tasks |-> s.task_statuses, attempts |-> s.task_attempts,
   leases |-> s.task_execution_ids, outputs |-> s.task_outputs]

\* The event stream alone tells the stored state: replaying it gives the run's
\* status, every task's status, attempts and lease, and which execution produced
\* each output.  No commit changes one of these without the event that says so.
EventsExplainSnapshot == Replay(run.plan, events) = Told(run)

Positions(kinds, e) ==
  {i \in 1 .. Len(events) : events[i].kind \in kinds /\ events[i].execution = e}

Outcomes == {"task.succeeded", "task.retrying", "task.failed", "task.result_ignored"}

\* Each started execution leaves exactly one task.started and, once settled, exactly
\* one outcome event after it - success, retry, failure or ignored - and artifacts
\* only right before its success: a late result never publishes an artifact.
OneOutcomePerExecution ==
  \A e \in ExecutionIds :
    LET started == Positions({"task.started"}, e)
        ended   == Positions(Outcomes, e)
        stored  == Positions({"artifact.stored"}, e)
    IN  /\ Cardinality(started) = IF e \in Unclaimed THEN 0 ELSE 1
        /\ Cardinality(ended) = IF e \in settled THEN 1 ELSE 0
        /\ \A i \in started, j \in ended : i < j
        /\ \A i \in stored :
             i < Len(events) /\ events[i + 1] = [events[i] EXCEPT !.kind = "task.succeeded"]
=============================================================================
