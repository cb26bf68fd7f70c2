--------------------------- MODULE RuntimeService ---------------------------
(***************************************************************************)
(* The processes that work on one run, at the grain of RunStore calls.     *)
(*                                                                         *)
(* Every operation of RuntimeService loads the snapshot, decides on it and *)
(* commits with expected_version, and other coroutines run between the     *)
(* calls.  So each process here is a small state machine holding the       *)
(* snapshot it loaded (its view): the starter of the run, HTTP commands,   *)
(* startup recovery, the worker's executor loop, and one process for each  *)
(* execution.  A host is one application process over the shared database; *)
(* when it crashes, all its processes are gone and the store remains.      *)
(***************************************************************************)
EXTENDS RunModel

CONSTANTS
  Hosts,          \* application processes over one database
  Requests,       \* HTTP requests
  Commands,       \* what a request may ask: "pause", "resume", "cancel"
  CommitAttempts, \* _COMMIT_ATTEMPTS
  MaxFaults       \* bound on crashes and store failures together

ASSUME CommandsAssumption       == Commands \subseteq {"pause", "resume", "cancel"}
ASSUME RequestsAssumption       == IsFiniteSet(Requests) /\ IsFiniteSet(Hosts)
ASSUME CommitAttemptsAssumption == CommitAttempts \in Nat \ {0}
ASSUME MaxFaultsAssumption      == MaxFaults \in Nat

VARIABLES
  run,       \* the stored snapshot
  events,    \* the stored event stream of the run
  leases,    \* history: what each execution was claimed for
  settled,   \* history: the executions whose outcome has been recorded
  host,      \* where each application process is in its lifespan
  faults,    \* the faults that have happened
  starter,   \* POST /runs, after the run has been created
  request,   \* the HTTP commands
  recovery,  \* recover_interrupted_runs at startup
  listed,    \* what run_worker's last list_by_status says of the run
  executor,  \* _execute_until_stopped, at most one on each host
  execution  \* _execute_task, by execution id

store     == <<run, events, leases, settled>>
processes == <<starter, request, recovery, listed, executor, execution>>
vars      == <<store, host, faults, processes>>

View == Snapshot \cup {None}

TypeOK ==
  /\ run \in Snapshot
  /\ events \in Seq(RunEvent)
  /\ leases \in [ExecutionIds -> Lease \cup {None}]
  /\ settled \subseteq ExecutionIds
  /\ host \in [Hosts -> {"down", "recovering", "serving", "workerless"}]
  /\ faults \in 0 .. MaxFaults
  /\ starter \in [pc   : {"plan", "start", "done", "conflict", "lost"},
                  host : Hosts, view : View]
  /\ request \in [Requests ->
       [pc      : {"idle", "load", "list", "commit", "done", "rejected", "conflict", "lost"},
        command : Commands \cup {None},
        host    : Hosts \cup {None}, view : View,
        tries   : 0 .. CommitAttempts, cursor : Nat]]
  /\ recovery \in [Hosts -> [pc : {"idle", "load", "commit"}, view : View,
                             tries : 0 .. CommitAttempts]]
  /\ listed \in [Hosts -> BOOLEAN]
  /\ executor \in [Hosts -> [pc : {"idle", "load", "commit", "drain"}, view : View]]
  /\ execution \in [ExecutionIds ->
       [pc      : {"unused", "invoking", "load", "commit", "done", "lost"},
        host    : Hosts \cup {None}, outcome : {"success", "failure"} \cup {None},
        view    : View, tries : 0 .. CommitAttempts - 1]]

(***************************************************************************)
(* RunStore                                                                *)
(***************************************************************************)

\* Faulty: the expected version is not compared.
Accepted_Always(view) == view.version <= run.version

\* UPDATE ... WHERE version = expected_version changes a row.
Accepted(view) == view.version = run.version

CommitFrom(view, changed, drafts) ==
  /\ Accepted(view)
  /\ run' = [changed EXCEPT !.version = view.version + 1]
  /\ events' = events \o drafts

Conflict(view) == ~ Accepted(view) /\ UNCHANGED store

Unclaimed == {e \in ExecutionIds : leases[e] = None}

\* uuid4: some id not used before; which one makes no difference.
FreshExecutionId == CHOOSE e \in ExecutionIds : leases[e] = None

(***************************************************************************)
(* The faults of a host.  Whoever waits in it is lost with it.             *)
(***************************************************************************)
Finished == {"unused", "done", "lost"}

ExecutionsOn(h) == {e \in ExecutionIds : execution[e].host = h /\ execution[e].pc \notin Finished}

\* A coroutine that ended keeps nothing; its host tells where it ran.
Ended(x, pc) == [x EXCEPT !.pc = pc, !.outcome = None, !.view = None, !.tries = 0]

LoseExecutions(h) ==
  execution' = [e \in ExecutionIds |->
                  IF e \in ExecutionsOn(h) THEN Ended(execution[e], "lost") ELSE execution[e]]

NoExecutor == [pc |-> "idle", view |-> None]
NoRecovery == [pc |-> "idle", view |-> None, tries |-> 0]

\* An exception in the executor or in an execution cancels the whole worker task
\* group and ends the lifespan task; the server goes on answering requests.
WorkerDies(h) ==
  /\ host' = [host EXCEPT ![h] = "workerless"]
  /\ executor' = [executor EXCEPT ![h] = NoExecutor]
  /\ listed' = [listed EXCEPT ![h] = FALSE]
  /\ LoseExecutions(h)

\* The store raises DependencyUnavailable to the worker, which retries nothing.
StoreUnavailable(h) ==
  /\ faults < MaxFaults
  /\ host[h] = "serving"
  /\ faults' = faults + 1
  /\ WorkerDies(h)
  /\ UNCHANGED <<store, starter, request, recovery>>

Crash(h) ==
  /\ faults < MaxFaults
  /\ host[h] # "down"
  /\ faults' = faults + 1
  /\ host' = [host EXCEPT ![h] = "down"]
  /\ starter' = IF starter.host = h /\ starter.pc \in {"plan", "start"}
                  THEN [starter EXCEPT !.pc = "lost", !.view = None]
                  ELSE starter
  /\ request' = [r \in Requests |->
                   IF request[r].host = h /\ request[r].pc \in {"load", "list", "commit"}
                     THEN [request[r] EXCEPT !.pc = "lost", !.view = None]
                     ELSE request[r]]
  /\ recovery' = [recovery EXCEPT ![h] = NoRecovery]
  /\ listed' = [listed EXCEPT ![h] = FALSE]
  /\ executor' = [executor EXCEPT ![h] = NoExecutor]
  /\ LoseExecutions(h)
  /\ UNCHANGED store

(***************************************************************************)
(* Startup: recovery before the worker starts and requests are served.     *)
(***************************************************************************)
\* Faulty: the worker starts without recovering what the last process left.
Boot_WithoutRecovery(h) ==
  /\ host[h] = "down"
  /\ host' = [host EXCEPT ![h] = "serving"]
  /\ UNCHANGED <<store, faults, processes>>

Boot(h) ==
  /\ host[h] = "down"
  /\ host' = [host EXCEPT ![h] = "recovering"]
  /\ recovery' = [recovery EXCEPT ![h].pc = "load"]
  /\ UNCHANGED <<store, faults, starter, request, listed, executor, execution>>

\* list_by_status and the load that repeats its check.
RecoveryLoad(h) ==
  /\ recovery[h].pc = "load"
  /\ IF run.status = "running"
       THEN /\ recovery' = [recovery EXCEPT ![h].pc = "commit", ![h].view = run]
            /\ UNCHANGED host
       ELSE /\ recovery' = [recovery EXCEPT ![h] = NoRecovery]
            /\ host' = [host EXCEPT ![h] = "serving"]
  /\ UNCHANGED <<store, faults, starter, request, listed, executor, execution>>

RecoveryCommit(h) ==
  LET r == recovery[h]
  IN  /\ r.pc = "commit"
      /\ \/ /\ CommitFrom(r.view, Paused(r.view), <<OnRun("run.recovered")>>)
            /\ recovery' = [recovery EXCEPT ![h] = NoRecovery]
            /\ host' = [host EXCEPT ![h] = "serving"]
            /\ UNCHANGED <<leases, settled>>
         \/ /\ Conflict(r.view)
            /\ IF r.tries + 1 < CommitAttempts
                 THEN /\ recovery' = [recovery EXCEPT
                           ![h] = [pc |-> "load", view |-> None, tries |-> r.tries + 1]]
                      /\ UNCHANGED host
                 ELSE \* ConflictError: the application does not start
                      /\ recovery' = [recovery EXCEPT ![h] = NoRecovery]
                      /\ host' = [host EXCEPT ![h] = "down"]
      /\ UNCHANGED <<faults, starter, request, listed, executor, execution>>

(***************************************************************************)
(* POST /runs: the run has been created; plan it, then start it, each      *)
(* commit based on the snapshot of the one before, without a reload.       *)
(***************************************************************************)
StarterMoves(pc, view) == starter' = [starter EXCEPT !.pc = pc, !.view = view]

StarterPlan ==
  /\ starter.pc = "plan"
  /\ \/ /\ \E p \in Plans :
             /\ CommitFrom(starter.view, Planned(starter.view, p), <<OnRun("plan.created")>>)
             /\ StarterMoves("start", run')
        /\ UNCHANGED <<leases, settled>>
     \/ /\ CommitFrom(starter.view, WithStatus(starter.view, "failed"), <<OnRun("run.failed")>>)
        /\ StarterMoves("done", None)
        /\ UNCHANGED <<leases, settled>>
     \/ Conflict(starter.view) /\ StarterMoves("conflict", None)
  /\ UNCHANGED <<host, faults, request, recovery, listed, executor, execution>>

StarterStart ==
  /\ starter.pc = "start"
  /\ \/ /\ CommitFrom(starter.view, WithStatus(starter.view, "running"), <<OnRun("run.started")>>)
        /\ StarterMoves("done", None)
        /\ UNCHANGED <<leases, settled>>
     \/ Conflict(starter.view) /\ StarterMoves("conflict", None)
  /\ UNCHANGED <<host, faults, request, recovery, listed, executor, execution>>

(***************************************************************************)
(* HTTP commands: load, check the status, commit; on a conflict again.     *)
(***************************************************************************)
RequestMoves(r, pc, view) ==
  request' = [request EXCEPT ![r].pc = pc, ![r].view = view]

RequestArrives(r, command, h) ==
  /\ request[r].pc = "idle"
  /\ host[h] \in {"serving", "workerless"}
  /\ request' = [request EXCEPT ![r].pc = "load", ![r].command = command, ![r].host = h]
  /\ UNCHANGED <<store, host, faults, starter, recovery, listed, executor, execution>>

\* What the command finds already done, what it accepts, and what it refuses.
AlreadyHolds(command, status) ==
  \/ command = "pause" /\ status = "paused"
  \/ command = "cancel" /\ status = "cancelled"

Permits(command, status) ==
  \/ command = "pause" /\ status \in {"planned", "running"}
  \/ command = "resume" /\ status = "paused"
  \/ command = "cancel" /\ status \notin TerminalRunStatuses

\* Faulty: a command waits until the run is in a status that permits it.
RequestLoad_Waiting(r) ==
  LET command == request[r].command
  IN  /\ request[r].pc = "load"
      /\ \/ AlreadyHolds(command, run.status) /\ RequestMoves(r, "done", None)
         \/ /\ Permits(command, run.status)
            /\ RequestMoves(r, IF command = "resume" THEN "list" ELSE "commit", run)
      /\ UNCHANGED <<store, host, faults, starter, recovery, listed, executor, execution>>

RequestLoad(r) ==
  LET command == request[r].command
  IN  /\ request[r].pc = "load"
      /\ \/ AlreadyHolds(command, run.status) /\ RequestMoves(r, "done", None)
         \/ /\ ~ AlreadyHolds(command, run.status)
            /\ ~ Permits(command, run.status)
            /\ RequestMoves(r, "rejected", None)
         \/ /\ Permits(command, run.status)
            /\ RequestMoves(r, IF command = "resume" THEN "list" ELSE "commit", run)
      /\ UNCHANGED <<store, host, faults, starter, recovery, listed, executor, execution>>

\* Faulty: after a conflict the cursor of the first try is kept.
ResumeListEvents_FirstTryOnly(r) ==
  /\ request[r].pc = "list"
  /\ request' = [request EXCEPT ![r].pc     = "commit",
                                ![r].cursor = IF request[r].tries = 0 THEN Len(events) ELSE @]
  /\ UNCHANGED <<store, host, faults, starter, recovery, listed, executor, execution>>

\* _prepare_resume notes the last event before it commits, to answer with the rest.
ResumeListEvents(r) ==
  /\ request[r].pc = "list"
  /\ request' = [request EXCEPT ![r].pc = "commit", ![r].cursor = Len(events)]
  /\ UNCHANGED <<store, host, faults, starter, recovery, listed, executor, execution>>

Commanded(command, view) ==
  CASE command = "pause"  -> Paused(view)
    [] command = "resume" -> WithStatus(view, "running")
    [] command = "cancel" -> Cancelled(view)

CommandEvent(command) ==
  CASE command = "pause"  -> OnRun("run.paused")
    [] command = "resume" -> OnRun("run.resumed")
    [] command = "cancel" -> OnRun("run.cancelled")

RequestCommit(r) ==
  LET q == request[r]
  IN  /\ q.pc = "commit"
      /\ \/ /\ CommitFrom(q.view, Commanded(q.command, q.view), <<CommandEvent(q.command)>>)
            /\ RequestMoves(r, "done", None)
            /\ UNCHANGED <<leases, settled>>
         \/ /\ Conflict(q.view)
            /\ request' = [request EXCEPT
                 ![r].pc    = IF q.tries + 1 < CommitAttempts THEN "load" ELSE "conflict",
                 ![r].view  = None,
                 ![r].tries = @ + 1]
      /\ UNCHANGED <<host, faults, starter, recovery, listed, executor, execution>>

(***************************************************************************)
(* run_worker: list the running runs, then start an executor for those     *)
(* that have none on this host and no task in flight.                      *)
(***************************************************************************)
WorkerList(h) ==
  /\ host[h] = "serving"
  /\ ~ listed[h]
  /\ run.status = "running"
  /\ InFlight(run) = {}
  /\ listed' = [listed EXCEPT ![h] = TRUE]
  /\ UNCHANGED <<store, host, faults, starter, request, recovery, executor, execution>>

WorkerSpawn(h) ==
  /\ listed[h]
  /\ listed' = [listed EXCEPT ![h] = FALSE]
  /\ executor' = [executor EXCEPT ![h].pc = IF @ = "idle" THEN "load" ELSE @]
  /\ UNCHANGED <<store, host, faults, starter, request, recovery, execution>>

(***************************************************************************)
(* _execute_until_stopped.  Its decisions depend on the loaded snapshot    *)
(* only; a snapshot that leaves nothing to do is polled again.             *)
(***************************************************************************)
ExecutorMoves(h, pc, view) == executor' = [executor EXCEPT ![h] = [pc |-> pc, view |-> view]]

Schedules(view, t) == Cardinality(InFlight(view)) < MaxConcurrency /\ IsNextRunnable(view, t)

Concludes(view) == InFlight(view) = {} /\ RunnableTasks(view) = {}

ExecutorLoad(h) ==
  /\ executor[h].pc = "load"
  /\ \/ run.status # "running" /\ ExecutorMoves(h, "drain", None)
     \/ /\ run.status = "running"
        /\ Concludes(run) \/ \E t \in Tasks : Schedules(run, t)
        /\ ExecutorMoves(h, "commit", run)
  /\ UNCHANGED <<store, host, faults, starter, request, recovery, listed, execution>>

ExecutorConclude(h) ==
  LET view == executor[h].view
  IN  /\ executor[h].pc = "commit"
      /\ Concludes(view)
      /\ IF AllTasksSucceeded(view)
           THEN CommitFrom(view, WithStatus(view, "succeeded"), <<OnRun("run.succeeded")>>)
           ELSE CommitFrom(view, BlockedRunFailed(view), <<OnRun("run.failed")>>)
      /\ ExecutorMoves(h, "drain", None)
      /\ UNCHANGED <<leases, settled, host, faults, starter, request, recovery, listed, execution>>

\* The claim that follows is based on the snapshot this commit stored.
ExecutorMarkReady(h, t) ==
  LET view == executor[h].view
  IN  /\ executor[h].pc = "commit"
      /\ Schedules(view, t)
      /\ view.task_statuses[t] = "pending"
      /\ CommitFrom(view, TaskReady(view, t), <<OnTask("task.ready", t)>>)
      /\ ExecutorMoves(h, "commit", run')
      /\ UNCHANGED <<leases, settled, host, faults, starter, request, recovery, listed, execution>>

ExecutorClaim(h, t) ==
  LET view == executor[h].view
      e    == FreshExecutionId
  IN  /\ executor[h].pc = "commit"
      /\ Schedules(view, t)
      /\ view.task_statuses[t] = "ready"
      /\ Unclaimed # {}
      /\ CommitFrom(view, TaskRunning(view, t, e), <<OnExecution("task.started", t, e)>>)
      /\ leases' = [leases EXCEPT ![e] = [task |-> t, epoch |-> view.task_attempts[t] + 1]]
      /\ execution' = [execution EXCEPT ![e].pc = "invoking", ![e].host = h]
      /\ ExecutorMoves(h, "load", None)
      /\ UNCHANGED <<settled, host, faults, starter, request, recovery, listed>>

ExecutorConflict(h) ==
  /\ executor[h].pc = "commit"
  /\ Conflict(executor[h].view)
  /\ ExecutorMoves(h, "load", None)
  /\ UNCHANGED <<host, faults, starter, request, recovery, listed, execution>>

\* Faulty: the run stays in active_run_ids.
ExecutorEnd_StaysActive(h) ==
  /\ executor[h].pc = "drain"
  /\ ExecutionsOn(h) = {}
  /\ UNCHANGED vars

\* Leaving the task group waits for the executions this executor started.
ExecutorEnd(h) ==
  /\ executor[h].pc = "drain"
  /\ ExecutionsOn(h) = {}
  /\ executor' = [executor EXCEPT ![h] = NoExecutor]
  /\ UNCHANGED <<store, host, faults, starter, request, recovery, listed, execution>>

(***************************************************************************)
(* _execute_task: invoke the capability without looking at the store, then *)
(* record the outcome - a timeout or an exception is a failure.            *)
(***************************************************************************)
ExecutionMoves(e, pc, view) ==
  execution' = [execution EXCEPT ![e].pc = pc, ![e].view = view]

InvocationEnds(e, outcome) ==
  /\ execution[e].pc = "invoking"
  /\ execution' = [execution EXCEPT ![e].pc = "load", ![e].outcome = outcome]
  /\ UNCHANGED <<store, host, faults, starter, request, recovery, listed, executor>>

ExecutionLoad(e) ==
  /\ execution[e].pc = "load"
  /\ ExecutionMoves(e, "commit", run)
  /\ UNCHANGED <<store, host, faults, starter, request, recovery, listed, executor>>

\* Faulty: the lease is not checked against the snapshot just loaded.
RecordedFrom_AnyLease(e, t, view) ==
  IF execution[e].outcome = "success"
    THEN CommitFrom(view, TaskSucceeded(view, t, e), SuccessEvents(t, e))
  ELSE IF view.task_attempts[t] < view.plan.max_attempts[t]
    THEN CommitFrom(view, TaskRetrying(view, t), <<OnExecution("task.retrying", t, e)>>)
    ELSE CommitFrom(view, TaskAndRunFailed(view, t), FailureEvents(t, e))

\* The commit that records e's outcome on the view, by outcome and lease.
RecordedFrom(e, t, view) ==
  IF ~ IsActiveExecution(view, t, e)
    THEN CommitFrom(view, view, <<OnExecution("task.result_ignored", t, e)>>)
  ELSE IF execution[e].outcome = "success"
    THEN CommitFrom(view, TaskSucceeded(view, t, e), SuccessEvents(t, e))
  ELSE IF view.task_attempts[t] < view.plan.max_attempts[t]
    THEN CommitFrom(view, TaskRetrying(view, t), <<OnExecution("task.retrying", t, e)>>)
    ELSE CommitFrom(view, TaskAndRunFailed(view, t), FailureEvents(t, e))

ExecutionRecord(e) ==
  /\ execution[e].pc = "commit"
  /\ RecordedFrom(e, leases[e].task, execution[e].view)
  /\ settled' = settled \cup {e}
  /\ execution' = [execution EXCEPT ![e] = Ended(@, "done")]
  /\ UNCHANGED <<leases, host, faults, starter, request, recovery, listed, executor>>

\* Faulty: tries once more than the limit.
ExecutionRetriesRecord_OffByOne(e) ==
  /\ execution[e].pc = "commit"
  /\ Conflict(execution[e].view)
  /\ execution[e].tries + 1 <= CommitAttempts
  /\ execution' = [execution EXCEPT ![e].pc = "load", ![e].view = None, ![e].tries = @ + 1]
  /\ UNCHANGED <<host, faults, starter, request, recovery, listed, executor>>

\* Faulty: a conflict drops the result.
ExecutionRetriesRecord_Dropping(e) ==
  /\ execution[e].pc = "commit"
  /\ Conflict(execution[e].view)
  /\ execution' = [execution EXCEPT ![e] = Ended(@, "done")]
  /\ UNCHANGED <<host, faults, starter, request, recovery, listed, executor>>

ExecutionRetriesRecord(e) ==
  /\ execution[e].pc = "commit"
  /\ Conflict(execution[e].view)
  /\ execution[e].tries + 1 < CommitAttempts
  /\ execution' = [execution EXCEPT ![e].pc = "load", ![e].view = None, ![e].tries = @ + 1]
  /\ UNCHANGED <<host, faults, starter, request, recovery, listed, executor>>

\* The fifth conflict is raised, and nobody above handles it.
ExecutionGivesUp(e) ==
  /\ execution[e].pc = "commit"
  /\ Conflict(execution[e].view)
  /\ execution[e].tries + 1 = CommitAttempts
  /\ WorkerDies(execution[e].host)
  /\ UNCHANGED <<faults, starter, request, recovery>>

(***************************************************************************)
(* Specification                                                           *)
(***************************************************************************)
Init ==
  /\ run = NewRun
  /\ events = <<OnRun("run.created")>>
  /\ leases = [e \in ExecutionIds |-> None]
  /\ settled = {}
  /\ faults = 0
  /\ \E up \in SUBSET Hosts, h \in Hosts :
       /\ h \in up
       /\ host = [i \in Hosts |-> IF i \in up THEN "serving" ELSE "down"]
       /\ starter = [pc |-> "plan", host |-> h, view |-> run]
  /\ request = [r \in Requests |-> [pc |-> "idle", command |-> None, host |-> None,
                                    view |-> None, tries |-> 0, cursor |-> 0]]
  /\ recovery = [h \in Hosts |-> NoRecovery]
  /\ listed = [h \in Hosts |-> FALSE]
  /\ executor = [h \in Hosts |-> NoExecutor]
  /\ execution = [e \in ExecutionIds |-> [pc |-> "unused", host |-> None, outcome |-> None,
                                          view |-> None, tries |-> 0]]

StarterNext == StarterPlan \/ StarterStart

RequestNext(r) == RequestLoad(r) \/ ResumeListEvents(r) \/ RequestCommit(r)

RecoveryNext(h) == RecoveryLoad(h) \/ RecoveryCommit(h)

ExecutorNext(h) ==
  \/ ExecutorLoad(h) \/ ExecutorConclude(h) \/ ExecutorConflict(h) \/ ExecutorEnd(h)
  \/ \E t \in Tasks : ExecutorMarkReady(h, t) \/ ExecutorClaim(h, t)

ExecutionNext(e) ==
  \/ \E outcome \in {"success", "failure"} : InvocationEnds(e, outcome)
  \/ ExecutionLoad(e) \/ ExecutionRecord(e) \/ ExecutionRetriesRecord(e) \/ ExecutionGivesUp(e)

Next ==
  \/ StarterNext
  \/ \E r \in Requests : RequestNext(r)
  \/ \E r \in Requests, c \in Commands, h \in Hosts : RequestArrives(r, c, h)
  \/ \E h \in Hosts :
       \/ RecoveryNext(h) \/ WorkerList(h) \/ WorkerSpawn(h) \/ ExecutorNext(h)
       \/ Boot(h) \/ Crash(h) \/ StoreUnavailable(h)
  \/ \E e \in ExecutionIds : ExecutionNext(e)

Spec == Init /\ [][Next]_vars

\* Every coroutine whose await completes is scheduled again by the event loop, and
\* every invocation ends, at the latest by fail_after.  Nobody has to send a
\* request, boot a host or let it crash.
FairSpec ==
  /\ Spec
  /\ WF_vars(StarterNext)
  /\ \A r \in Requests : WF_vars(RequestNext(r))
  /\ \A h \in Hosts : /\ WF_vars(RecoveryNext(h))
                      /\ WF_vars(WorkerList(h))
                      /\ WF_vars(WorkerSpawn(h))
                      /\ WF_vars(ExecutorNext(h))
  /\ \A e \in ExecutionIds : WF_vars(ExecutionNext(e))

(***************************************************************************)
(* Properties                                                              *)
(***************************************************************************)

\* Every commit is one step of the lifecycle: decisions taken on a stale snapshot,
\* in any interleaving of hosts, requests, recovery and executions, never reach the
\* store.  The bound on interruptions is the one the requests and faults imply.
Lifecycle ==
  INSTANCE RunLifecycle
    WITH MaxInterruptions <- Cardinality(Requests) + Cardinality(Hosts) + MaxFaults

ImplementsLifecycle == Lifecycle!Spec

Views ==
  {starter.view} \cup {request[r].view : r \in Requests}
    \cup (UNION {{recovery[h].view, executor[h].view} : h \in Hosts})
    \cup {execution[e].view : e \in ExecutionIds}

\* The version identifies the content: a process whose snapshot has the version of
\* the stored one holds the stored snapshot itself, so comparing versions is enough.
\* (_commit_with_events; also the commits of _record_ignored_result, which change
\* nothing, take a version.)
VersionIdentifiesSnapshot ==
  \A view \in Views \ {None} :
    view.version <= run.version /\ (view.version = run.version => view = run)

\* A task whose execution was lost keeps its lease only while the host it ran on has
\* not come back: a host serves again only after recovery has paused the run.  As
\* long as the worker lives, every lease belongs to an execution that will report.
AbandonedLeasesRecovered ==
  \A t \in InFlight(run) :
    LET e == run.task_execution_ids[t]
    IN  /\ execution[e].pc \in {"invoking", "load", "commit", "lost"}
        /\ execution[e].pc = "lost" => host[execution[e].host] # "serving"

\* What submit(ResumeRun) answers starts with the run.resumed of this very request:
\* no event slips in between reading the last sequence and the commit.
ResumeAnswersFromItsEvent ==
  [][\A r \in Requests :
       request[r].command = "resume" /\ request[r].pc = "commit" /\ request'[r].pc = "done" =>
         SubSeq(events', request[r].cursor + 1, Len(events')) = <<OnRun("run.resumed")>>]_vars

WorkerLives == \A h \in Hosts : host[h] # "workerless"

\* While the worker lives, a running run does not stay as it is: its tasks finish,
\* fail or it is paused or cancelled, also after it was paused and resumed.
RunningEnds == run.status = "running" ~> run.status # "running" \/ ~ WorkerLives

\* While the worker lives, the outcome of every claimed execution is recorded, as a
\* result or as an ignored one.
ExecutionsSettle ==
  \A e \in ExecutionIds : e \notin Unclaimed ~> e \in settled \/ ~ WorkerLives

\* Every request is answered, if only by a conflict.
RequestsAnswered ==
  \A r \in Requests :
    request[r].pc = "load" ~> request[r].pc \in {"done", "rejected", "conflict"}

Invocations == {e \in ExecutionIds : execution[e].pc = "invoking"}

\* The budget limits what really runs, not only what the snapshot calls running:
\* at most max_concurrency tasks of a run execute in parallel (ARCHITECTURE 7).
InvocationsWithinLimit == Cardinality(Invocations) <= MaxConcurrency

\* A conflict met while recording a result is resolved by loading again, never
\* raised (pre-merge hardening, requirement 3): the worker outlives contention.
WorkerOutlivesContention == faults = 0 => WorkerLives
=============================================================================
