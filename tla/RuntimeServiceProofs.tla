------------------------ MODULE RuntimeServiceProofs ------------------------
(***************************************************************************)
(* RuntimeService implements RunLifecycle, proved for any number of tasks, *)
(* hosts, requests, executions, faults and commit attempts - and with it   *)
(* everything RunLifecycleProofs and RunEventLogProofs prove of it holds   *)
(* of the stored run and its events, however the processes interleave.     *)
(*                                                                         *)
(* The argument: a process commits from the snapshot it loaded, and a      *)
(* commit is accepted only when the versions are equal.  The invariant     *)
(* says that a loaded snapshot with the stored version IS the stored one   *)
(* (Known), and that the process checked it when it was loaded; so an      *)
(* accepted commit is a lifecycle step from the stored snapshot.           *)
(***************************************************************************)
EXTENDS RuntimeService, FiniteSetTheorems, SequenceTheorems, TLAPS

\* The lifecycle with its proofs, under the bound Lifecycle has.
P == INSTANCE RunEventLogProofs
       WITH MaxInterruptions <- Cardinality(Requests) + Cardinality(Hosts) + MaxFaults

(***************************************************************************)
(* The two instances of the lifecycle mean the same                        *)
(***************************************************************************)

\* What P assumes of its constants follows from what this module assumes.
LEMMA LifecycleAssumptions ==
  /\ P!TaskCountAssumption /\ P!PlansAssumption /\ P!ArtifactTasksAssumption
  /\ P!MaxConcurrencyAssumption /\ P!NoneAssumption /\ P!LeaseAssumption
  /\ P!MaxInterruptionsAssumption
<1>1. Cardinality(Requests) \in Nat /\ Cardinality(Hosts) \in Nat
  BY RequestsAssumption, FS_CardinalityType
<1>2. P!MaxInterruptionsAssumption
  BY <1>1, MaxFaultsAssumption DEF P!MaxInterruptionsAssumption
<1>3. P!PlansAssumption
  BY PlansAssumption
     DEF P!PlansAssumption, PlansAssumption, P!PlanShape, PlanShape, P!Acyclic, Acyclic,
         P!IsRanking, IsRanking, P!Tasks, Tasks
<1> QED
  BY <1>2, <1>3, TaskCountAssumption, ArtifactTasksAssumption, MaxConcurrencyAssumption,
     NoneAssumption, LeaseAssumption
     DEF P!TaskCountAssumption, P!ArtifactTasksAssumption, P!MaxConcurrencyAssumption,
         P!NoneAssumption, P!LeaseAssumption, P!Lease, Lease, P!Tasks, Tasks

\* The operators of RunModel, seen through P.
LEMMA SameSets ==
  /\ P!Tasks = Tasks
  /\ P!Snapshot = Snapshot
  /\ P!Lease = Lease
  /\ P!RunEvent = RunEvent
  /\ P!RunEventKind = RunEventKind
  /\ P!TerminalRunStatuses = TerminalRunStatuses
BY DEF P!Tasks, Tasks, P!Snapshot, Snapshot, P!RunStatus, RunStatus, P!TaskStatus, TaskStatus,
       P!MaybeExecution, MaybeExecution, P!Lease, Lease, P!RunEvent, RunEvent,
       P!RunEventKind, RunEventKind, P!TerminalRunStatuses, TerminalRunStatuses

LEMMA SameQueries ==
  ASSUME NEW s
  PROVE  /\ P!InFlight(s) = InFlight(s)
         /\ P!RunnableTasks(s) = RunnableTasks(s)
         /\ P!AllTasksSucceeded(s) <=> AllTasksSucceeded(s)
         /\ \A t : P!IsNextRunnable(s, t) <=> IsNextRunnable(s, t)
         /\ \A t, e : P!IsActiveExecution(s, t, e) <=> IsActiveExecution(s, t, e)
BY DEF P!Tasks, Tasks, P!InFlight, InFlight, P!RunnableTasks, RunnableTasks,
       P!DependenciesSucceeded, DependenciesSucceeded, P!AllTasksSucceeded, AllTasksSucceeded,
       P!IsNextRunnable, IsNextRunnable, P!IsActiveExecution, IsActiveExecution

LEMMA SameTransitions ==
  /\ P!NewRun = NewRun
  /\ \A s, status : P!WithStatus(s, status) = WithStatus(s, status)
  /\ \A s, plan : P!Planned(s, plan) = Planned(s, plan)
  /\ \A s : P!Paused(s) = Paused(s)
  /\ \A s : P!Cancelled(s) = Cancelled(s)
  /\ \A s : P!BlockedRunFailed(s) = BlockedRunFailed(s)
  /\ \A s, t : P!TaskReady(s, t) = TaskReady(s, t)
  /\ \A s, t, e : P!TaskRunning(s, t, e) = TaskRunning(s, t, e)
  /\ \A s, t, e : P!TaskSucceeded(s, t, e) = TaskSucceeded(s, t, e)
  /\ \A s, t : P!TaskRetrying(s, t) = TaskRetrying(s, t)
  /\ \A s, t : P!TaskAndRunFailed(s, t) = TaskAndRunFailed(s, t)
<1> USE DEF P!Tasks, Tasks, P!InFlight, InFlight
<1>1. P!NewRun = NewRun
  BY DEF P!NewRun, NewRun
<1>2. \A s, status : P!WithStatus(s, status) = WithStatus(s, status)
  BY DEF P!WithStatus, WithStatus
<1>3. \A s, plan : P!Planned(s, plan) = Planned(s, plan)
  BY DEF P!Planned, Planned
<1>4. \A s : P!Paused(s) = Paused(s)
  BY DEF P!Paused, Paused
<1>5. \A s : P!Cancelled(s) = Cancelled(s)
  BY DEF P!Cancelled, Cancelled
<1>6. \A s : P!BlockedRunFailed(s) = BlockedRunFailed(s)
  BY DEF P!BlockedRunFailed, BlockedRunFailed
<1>7. \A s, t : P!TaskReady(s, t) = TaskReady(s, t)
  BY DEF P!TaskReady, TaskReady
<1>8. \A s, t, e : P!TaskRunning(s, t, e) = TaskRunning(s, t, e)
  BY DEF P!TaskRunning, TaskRunning
<1>9. \A s, t, e : P!TaskSucceeded(s, t, e) = TaskSucceeded(s, t, e)
  BY DEF P!TaskSucceeded, TaskSucceeded
<1>10. \A s, t : P!TaskRetrying(s, t) = TaskRetrying(s, t)
  BY DEF P!TaskRetrying, TaskRetrying
<1>11. \A s, t : P!TaskAndRunFailed(s, t) = TaskAndRunFailed(s, t)
  BY DEF P!TaskAndRunFailed, TaskAndRunFailed, P!BlockedDescendants, BlockedDescendants,
         P!Dependents, Dependents
<1> QED
  BY <1>1, <1>2, <1>3, <1>4, <1>5, <1>6, <1>7, <1>8, <1>9, <1>10, <1>11

LEMMA SameEvents ==
  /\ \A kind : P!OnRun(kind) = OnRun(kind)
  /\ \A kind, t : P!OnTask(kind, t) = OnTask(kind, t)
  /\ \A kind, t, e : P!OnExecution(kind, t, e) = OnExecution(kind, t, e)
  /\ \A t, e : P!SuccessEvents(t, e) = SuccessEvents(t, e)
  /\ \A t, e : P!FailureEvents(t, e) = FailureEvents(t, e)
BY DEF P!OnRun, OnRun, P!OnTask, OnTask, P!OnExecution, OnExecution,
       P!SuccessEvents, SuccessEvents, P!FailureEvents, FailureEvents

LEMMA SameCardinality ==
  ASSUME NEW S
  PROVE  P!Cardinality(S) = Cardinality(S) /\ Lifecycle!Cardinality(S) = Cardinality(S)
BY DEF P!Cardinality, Lifecycle!Cardinality, Cardinality

\* Lifecycle's initial states and steps are P's.
LEMMA SameLifecycle ==
  /\ P!Init => Lifecycle!Init
  /\ [P!Next]_(P!vars) => [Lifecycle!Next]_(Lifecycle!vars)
<1> USE DEF P!Tasks, Tasks, Lifecycle!Tasks, P!InFlight, Lifecycle!InFlight
<1>c. \A s, drafts : P!Commit(s, drafts) = Lifecycle!Commit(s, drafts)
  BY DEF P!Commit, Lifecycle!Commit
<1>k. /\ \A kind : P!OnRun(kind) = Lifecycle!OnRun(kind)
      /\ \A kind, t : P!OnTask(kind, t) = Lifecycle!OnTask(kind, t)
      /\ \A kind, t, e : P!OnExecution(kind, t, e) = Lifecycle!OnExecution(kind, t, e)
  BY DEF P!OnRun, Lifecycle!OnRun, P!OnTask, Lifecycle!OnTask, P!OnExecution,
         Lifecycle!OnExecution
<1>m. /\ \A t, e : P!SuccessEvents(t, e) = Lifecycle!SuccessEvents(t, e)
      /\ \A t, e : P!FailureEvents(t, e) = Lifecycle!FailureEvents(t, e)
  BY DEF P!SuccessEvents, Lifecycle!SuccessEvents, P!FailureEvents, Lifecycle!FailureEvents,
         P!OnRun, Lifecycle!OnRun, P!OnTask, Lifecycle!OnTask, P!OnExecution,
         Lifecycle!OnExecution
<1>u. P!Unclaimed = Lifecycle!Unclaimed /\ P!Outstanding = Lifecycle!Outstanding
  BY DEF P!Unclaimed, Lifecycle!Unclaimed, P!Outstanding, Lifecycle!Outstanding
<1>i. P!Interruptions = Lifecycle!Interruptions
  BY SameCardinality DEF P!Interruptions, Lifecycle!Interruptions
<1>h. \A e : P!HoldsLease(e) <=> Lifecycle!HoldsLease(e)
  BY DEF P!HoldsLease, Lifecycle!HoldsLease, P!IsActiveExecution, Lifecycle!IsActiveExecution
<1>r. P!RunnableTasks(run) = Lifecycle!RunnableTasks(run)
  BY DEF P!RunnableTasks, Lifecycle!RunnableTasks, P!DependenciesSucceeded,
         Lifecycle!DependenciesSucceeded
<1>s. \A t : P!Schedulable(t) <=> Lifecycle!Schedulable(t)
  BY <1>r, SameCardinality
     DEF P!Schedulable, Lifecycle!Schedulable, P!IsNextRunnable, Lifecycle!IsNextRunnable
<1>1. P!Init => Lifecycle!Init
  BY <1>k DEF P!Init, Lifecycle!Init, P!NewRun, Lifecycle!NewRun
<1>2. P!Plan => Lifecycle!Plan
  BY <1>c, <1>k DEF P!Plan, Lifecycle!Plan, P!Planned, Lifecycle!Planned, P!WithStatus,
                    Lifecycle!WithStatus
<1>3. P!Start => Lifecycle!Start
  BY <1>c, <1>k DEF P!Start, Lifecycle!Start, P!WithStatus, Lifecycle!WithStatus
<1>4. P!Pause => Lifecycle!Pause
  BY <1>c, <1>k, <1>i DEF P!Pause, Lifecycle!Pause, P!Paused, Lifecycle!Paused
<1>5. P!Resume => Lifecycle!Resume
  BY <1>c, <1>k DEF P!Resume, Lifecycle!Resume, P!WithStatus, Lifecycle!WithStatus
<1>6. P!Cancel => Lifecycle!Cancel
  BY <1>c, <1>k DEF P!Cancel, Lifecycle!Cancel, P!Cancelled, Lifecycle!Cancelled,
                    P!TerminalRunStatuses, Lifecycle!TerminalRunStatuses
<1>7. P!Recover => Lifecycle!Recover
  BY <1>c, <1>k, <1>i DEF P!Recover, Lifecycle!Recover, P!Paused, Lifecycle!Paused
<1>8. P!Conclude => Lifecycle!Conclude
  BY <1>c, <1>k, <1>r
     DEF P!Conclude, Lifecycle!Conclude, P!AllTasksSucceeded, Lifecycle!AllTasksSucceeded,
         P!WithStatus, Lifecycle!WithStatus, P!BlockedRunFailed, Lifecycle!BlockedRunFailed
<1>9. \A t : P!MarkReady(t) => Lifecycle!MarkReady(t)
  BY <1>c, <1>k, <1>s DEF P!MarkReady, Lifecycle!MarkReady, P!TaskReady, Lifecycle!TaskReady
<1>10. \A t, e : P!Claim(t, e) => Lifecycle!Claim(t, e)
  BY <1>c, <1>k, <1>s, <1>u DEF P!Claim, Lifecycle!Claim, P!TaskRunning, Lifecycle!TaskRunning
<1>11. \A e : P!RecordSuccess(e) => Lifecycle!RecordSuccess(e)
  BY <1>c, <1>m, <1>u, <1>h
     DEF P!RecordSuccess, Lifecycle!RecordSuccess, P!TaskSucceeded, Lifecycle!TaskSucceeded
<1>12. \A e : P!RecordRetry(e) => Lifecycle!RecordRetry(e)
  BY <1>c, <1>k, <1>u, <1>h
     DEF P!RecordRetry, Lifecycle!RecordRetry, P!TaskRetrying, Lifecycle!TaskRetrying
<1>13. \A e : P!RecordFailure(e) => Lifecycle!RecordFailure(e)
  <2>1. \A s, t : P!TaskAndRunFailed(s, t) = Lifecycle!TaskAndRunFailed(s, t)
    BY DEF P!TaskAndRunFailed, Lifecycle!TaskAndRunFailed, P!BlockedDescendants,
           Lifecycle!BlockedDescendants, P!Dependents, Lifecycle!Dependents
  <2> QED
    BY <1>c, <1>m, <1>u, <1>h, <2>1 DEF P!RecordFailure, Lifecycle!RecordFailure
<1>14. \A e : P!RecordIgnored(e) => Lifecycle!RecordIgnored(e)
  BY <1>c, <1>k, <1>u, <1>h DEF P!RecordIgnored, Lifecycle!RecordIgnored
<1>15. UNCHANGED P!vars => UNCHANGED Lifecycle!vars
  BY DEF P!vars, Lifecycle!vars
<1>16. P!Next => Lifecycle!Next
  BY <1>2, <1>3, <1>4, <1>5, <1>6, <1>7, <1>8, <1>9, <1>10, <1>11, <1>12, <1>13, <1>14
     DEF P!Next, Lifecycle!Next
<1> QED
  BY <1>1, <1>15, <1>16

(***************************************************************************)
(* The invariant, process by process                                       *)
(***************************************************************************)

\* view is a snapshot that was stored, now or earlier: its version identifies it.
Known(view, stored) ==
  /\ view \in Snapshot
  /\ view.version <= stored.version
  /\ view.version = stored.version => view = stored

\* The starter goes from the created snapshot to the planned one.
StarterOK ==
  IF starter.pc \in {"plan", "start"}
    THEN /\ Known(starter.view, run)
         /\ starter.view.status = (IF starter.pc = "plan" THEN "created" ELSE "planned")
    ELSE starter.view = None

Waiting == {"idle", "load", "list", "commit"}

\* A request that may commit holds a snapshot that permits its command, and a resume
\* whose commit can still succeed has read the last event.
RequestOK(r) ==
  LET q == request[r]
  IN  /\ q.pc \in {"load", "list", "commit"} => q.command \in Commands
      /\ q.pc \in Waiting => q.tries < CommitAttempts
      /\ q.pc = "list" => q.command = "resume"
      /\ IF q.pc \in {"list", "commit"}
           THEN Known(q.view, run) /\ Permits(q.command, q.view.status)
           ELSE q.view = None
      /\ q.pc = "commit" /\ q.command = "resume" /\ q.view.version = run.version =>
           q.cursor = Len(events)

\* Recovery runs before the host serves, the worker while it serves.
HostOK(h) ==
  /\ recovery[h].pc # "idle" => host[h] = "recovering"
  /\ executor[h].pc # "idle" \/ listed[h] => host[h] = "serving"
  /\ IF recovery[h].pc = "commit"
       THEN Known(recovery[h].view, run) /\ recovery[h].view.status = "running"
       ELSE recovery[h].view = None
  /\ IF executor[h].pc = "commit"
       THEN Known(executor[h].view, run) /\ executor[h].view.status = "running"
       ELSE executor[h].view = None

\* A process exists for each claim, its outcome is recorded exactly when it ends by
\* itself, and it lives on a host whose worker lives.
ExecutionOK(e) ==
  LET x == execution[e]
  IN  /\ leases[e] = None <=> x.pc = "unused"
      /\ leases[e] = None => e \notin settled
      /\ x.pc # "unused" => x.host \in Hosts
      /\ x.pc \in {"invoking", "load", "commit"} => e \notin settled /\ host[x.host] = "serving"
      /\ x.pc = "done" => e \in settled
      /\ IF x.pc = "commit" THEN Known(x.view, run) ELSE x.view = None

\* Who may still interrupt the run: a host that has to boot or is recovering, and a
\* request that has not been answered.
Interrupters == {h \in Hosts : host[h] \in {"down", "recovering"}}
Askers       == {r \in Requests : request[r].pc \in Waiting}

\* The interruptions that happened and may happen stay within Lifecycle's bound.
Budget ==
  P!Interruptions + Cardinality(Interrupters) + Cardinality(Askers)
    <= Cardinality(Requests) + Cardinality(Hosts) + faults

ServiceInv ==
  /\ TypeOK
  /\ P!PlanKnown
  /\ StarterOK
  /\ \A r \in Requests : RequestOK(r)
  /\ \A h \in Hosts : HostOK(h)
  /\ \A e \in ExecutionIds : ExecutionOK(e)
  /\ Budget

(***************************************************************************)
(* Commits from a known snapshot                                           *)
(***************************************************************************)

\* A commit makes every snapshot loaded before it an old one.
LEMMA KnownStays ==
  ASSUME NEW view, NEW old, NEW new, Known(view, old),
         new = old \/ (old.version \in Nat /\ new.version = old.version + 1)
  PROVE  /\ Known(view, new)
         /\ view.version = new.version => new = old
<1>1. view.version \in Nat
  BY DEF Known, Snapshot
<1> QED
  BY <1>1 DEF Known

LEMMA StoredIsKnown ==
  ASSUME NEW stored \in Snapshot
  PROVE  Known(stored, stored) /\ stored.version \in Nat
BY DEF Known, Snapshot

\* The store accepts a known snapshot only if it is the stored one.
LEMMA AcceptedIsStored ==
  ASSUME NEW view, Known(view, run), NEW changed, NEW drafts, CommitFrom(view, changed, drafts)
  PROVE  view = run /\ P!Commit(changed, drafts)
BY DEF Known, CommitFrom, Accepted, P!Commit

\* The lifecycle's part of TypeOK.
LEMMA LifecycleTypes == TypeOK => P!TypeOK
BY SameSets DEF TypeOK, P!TypeOK

\* A process that may still interrupt the run leaves room for its interruption.
LEMMA BudgetLeft ==
  ASSUME TypeOK, Budget
  PROVE  /\ P!Interruptions \in Nat
         /\ Interrupters # {} \/ Askers # {} =>
              P!Interruptions < Cardinality(Requests) + Cardinality(Hosts) + MaxFaults
<1>1. P!Interruptions \in Nat
  BY LifecycleTypes, LifecycleAssumptions, P!InterruptionsStep
     DEF P!TaskCountAssumption, P!PlansAssumption, P!ArtifactTasksAssumption,
         P!MaxConcurrencyAssumption, P!NoneAssumption, P!LeaseAssumption,
         P!MaxInterruptionsAssumption
<1>2. /\ IsFiniteSet(Interrupters) /\ IsFiniteSet(Askers)
      /\ Cardinality(Interrupters) \in Nat /\ Cardinality(Askers) \in Nat
      /\ Cardinality(Hosts) \in Nat /\ Cardinality(Requests) \in Nat
  <2>1. Interrupters \subseteq Hosts /\ Askers \subseteq Requests
    BY DEF Interrupters, Askers
  <2> QED
    BY <2>1, RequestsAssumption, FS_Subset, FS_CardinalityType
<1>3. Interrupters # {} => Cardinality(Interrupters) # 0
  BY <1>2, FS_EmptySet
<1>4. Askers # {} => Cardinality(Askers) # 0
  BY <1>2, FS_EmptySet
<1>5. faults \in Nat /\ faults <= MaxFaults
  BY MaxFaultsAssumption DEF TypeOK
<1> QED
  BY <1>1, <1>2, <1>3, <1>4, <1>5, MaxFaultsAssumption DEF Budget

(***************************************************************************)
(* Each process's commit is a step of the lifecycle                        *)
(***************************************************************************)

\* What a commit or a conflict does to the lifecycle's variables.
LEMMA ConflictStutters ==
  ASSUME NEW view, Conflict(view)
  PROVE  UNCHANGED P!vars
BY DEF Conflict, store, P!vars

LEMMA StarterSimulation ==
  ASSUME ServiceInv, StarterNext
  PROVE  [P!Uninterrupting]_(P!vars)
<1> USE SameTransitions, SameEvents
<1>1. CASE StarterPlan
  <2>1. Known(starter.view, run) /\ starter.view.status = "created"
    BY <1>1 DEF ServiceInv, StarterOK, StarterPlan
  <2>2. ASSUME NEW p \in Plans,
               CommitFrom(starter.view, Planned(starter.view, p), <<OnRun("plan.created")>>),
               UNCHANGED <<leases, settled>>
        PROVE  P!Plan
    BY <2>1, <2>2, AcceptedIsStored DEF P!Plan
  <2>3. ASSUME CommitFrom(starter.view, WithStatus(starter.view, "failed"), <<OnRun("run.failed")>>),
               UNCHANGED <<leases, settled>>
        PROVE  P!Plan
    BY <2>1, <2>3, AcceptedIsStored DEF P!Plan
  <2> QED
    BY <1>1, <2>2, <2>3, ConflictStutters DEF StarterPlan, P!Uninterrupting
<1>2. CASE StarterStart
  <2>1. Known(starter.view, run) /\ starter.view.status = "planned"
    BY <1>2 DEF ServiceInv, StarterOK, StarterStart
  <2>2. ASSUME CommitFrom(starter.view, WithStatus(starter.view, "running"), <<OnRun("run.started")>>),
               UNCHANGED <<leases, settled>>
        PROVE  P!Start
    BY <2>1, <2>2, AcceptedIsStored DEF P!Start
  <2> QED
    BY <1>2, <2>2, ConflictStutters DEF StarterStart, P!Uninterrupting
<1> QED
  BY <1>1, <1>2 DEF StarterNext

LEMMA RecoverySimulation ==
  ASSUME ServiceInv, NEW h \in Hosts, RecoveryCommit(h)
  PROVE  \/ P!Recover /\ host' = [host EXCEPT ![h] = "serving"]
         \/ UNCHANGED P!vars
<1> DEFINE view == recovery[h].view
<1>1. Known(view, run) /\ view.status = "running" /\ host[h] = "recovering"
  BY DEF ServiceInv, HostOK, RecoveryCommit
<1>2. P!Interruptions < Cardinality(Requests) + Cardinality(Hosts) + MaxFaults
  BY <1>1, BudgetLeft DEF ServiceInv, Interrupters
<1>3. ASSUME CommitFrom(view, Paused(view), <<OnRun("run.recovered")>>),
             UNCHANGED <<leases, settled>>
      PROVE  P!Recover
  BY <1>1, <1>2, <1>3, AcceptedIsStored, SameTransitions, SameEvents DEF P!Recover
<1> QED
  BY <1>3, ConflictStutters DEF RecoveryCommit

LEMMA RequestSimulation ==
  ASSUME ServiceInv, NEW r \in Requests, RequestCommit(r)
  PROVE  \/ P!Pause /\ request' = [request EXCEPT ![r].pc = "done", ![r].view = None]
         \/ [P!Uninterrupting]_(P!vars)
<1> DEFINE q == request[r]
<1>1. q.pc = "commit" /\ Known(q.view, run) /\ Permits(q.command, q.view.status)
  BY DEF ServiceInv, RequestOK, RequestCommit
<1>2. P!Interruptions < Cardinality(Requests) + Cardinality(Hosts) + MaxFaults
  BY <1>1, BudgetLeft DEF ServiceInv, Askers, Waiting
<1>3. ASSUME CommitFrom(q.view, Commanded(q.command, q.view), <<CommandEvent(q.command)>>),
             UNCHANGED <<leases, settled>>
      PROVE  P!Pause \/ P!Resume \/ P!Cancel
  <2>1. q.view = run /\ P!Commit(Commanded(q.command, run), <<CommandEvent(q.command)>>)
    BY <1>1, <1>3, AcceptedIsStored
  <2>2. CASE q.command = "pause"
    <3>1. P!Commit(P!Paused(run), <<P!OnRun("run.paused")>>) /\ run.status \in {"planned", "running"}
      BY <1>1, <2>1, <2>2, SameTransitions, SameEvents DEF Commanded, CommandEvent, Permits
    <3> QED
      BY <1>2, <1>3, <3>1 DEF P!Pause
  <2>3. CASE q.command = "resume"
    <3>1. P!Commit(P!WithStatus(run, "running"), <<P!OnRun("run.resumed")>>) /\ run.status = "paused"
      BY <1>1, <2>1, <2>3, SameTransitions, SameEvents DEF Commanded, CommandEvent, Permits
    <3> QED
      BY <1>3, <3>1 DEF P!Resume
  <2>4. CASE q.command = "cancel"
    <3>1. /\ P!Commit(P!Cancelled(run), <<P!OnRun("run.cancelled")>>)
          /\ run.status \notin P!TerminalRunStatuses
      BY <1>1, <2>1, <2>4, SameTransitions, SameEvents, SameSets
         DEF Commanded, CommandEvent, Permits
    <3> QED
      BY <1>3, <3>1 DEF P!Cancel
  <2> QED
    BY <1>1, <2>2, <2>3, <2>4 DEF Permits
<1> QED
  BY <1>3, ConflictStutters DEF RequestCommit, RequestMoves, P!Uninterrupting

LEMMA ExecutorSimulation ==
  ASSUME ServiceInv, NEW h \in Hosts, ExecutorNext(h)
  PROVE  [P!Uninterrupting]_(P!vars)
<1> DEFINE view == executor[h].view
<1> USE SameTransitions, SameEvents
<1>1. executor[h].pc = "commit" => Known(view, run) /\ view.status = "running"
  BY DEF ServiceInv, HostOK
<1>2. \A t : Schedules(run, t) /\ run.status = "running" => P!Schedulable(t)
  BY SameQueries, SameCardinality DEF Schedules, P!Schedulable
<1>3. CASE ExecutorConclude(h)
  <2>1. Concludes(view)
        /\ (IF AllTasksSucceeded(view)
              THEN CommitFrom(view, WithStatus(view, "succeeded"), <<OnRun("run.succeeded")>>)
              ELSE CommitFrom(view, BlockedRunFailed(view), <<OnRun("run.failed")>>))
    BY <1>3 DEF ExecutorConclude
  <2>2. view = run /\ run.status = "running"
    BY <1>1, <1>3, <2>1, AcceptedIsStored DEF ExecutorConclude
  <2>3. P!InFlight(run) = {} /\ P!RunnableTasks(run) = {}
    BY <2>1, <2>2, SameQueries DEF Concludes
  <2>4. IF P!AllTasksSucceeded(run)
          THEN P!Commit(P!WithStatus(run, "succeeded"), <<P!OnRun("run.succeeded")>>)
          ELSE P!Commit(P!BlockedRunFailed(run), <<P!OnRun("run.failed")>>)
    BY <1>1, <1>3, <2>1, <2>2, AcceptedIsStored, SameQueries DEF ExecutorConclude
  <2>5. P!Conclude
    BY <1>3, <2>2, <2>3, <2>4 DEF ExecutorConclude, P!Conclude
  <2> QED
    BY <2>5 DEF P!Uninterrupting
<1>4. ASSUME NEW t \in Tasks, ExecutorMarkReady(h, t) PROVE P!MarkReady(t)
  <2>1. view = run /\ P!Commit(TaskReady(run, t), <<OnTask("task.ready", t)>>)
    BY <1>1, <1>4, AcceptedIsStored DEF ExecutorMarkReady
  <2> QED
    BY <1>1, <1>2, <1>4, <2>1 DEF ExecutorMarkReady, P!MarkReady
<1>5. ASSUME NEW t \in Tasks, ExecutorClaim(h, t)
      PROVE  \E e \in ExecutionIds : P!Claim(t, e)
  <2>1. PICK e \in ExecutionIds : e = FreshExecutionId /\ leases[e] = None
    BY <1>5 DEF ExecutorClaim, Unclaimed, FreshExecutionId
  <2>2. /\ view = run
        /\ P!Commit(TaskRunning(run, t, e), <<OnExecution("task.started", t, e)>>)
    BY <1>1, <1>5, <2>1, AcceptedIsStored DEF ExecutorClaim
  <2>3. P!Claim(t, e)
    BY <1>1, <1>2, <1>5, <2>1, <2>2 DEF ExecutorClaim, P!Claim, P!Unclaimed
  <2> QED
    BY <2>3
<1>6. CASE ExecutorLoad(h) \/ ExecutorConflict(h) \/ ExecutorEnd(h)
  BY <1>6, ConflictStutters DEF ExecutorLoad, ExecutorConflict, ExecutorEnd, store, P!vars
<1> QED
  BY <1>3, <1>4, <1>5, <1>6, SameSets DEF ExecutorNext, P!Uninterrupting

LEMMA ExecutionSimulation ==
  ASSUME ServiceInv, NEW e \in ExecutionIds, ExecutionRecord(e)
  PROVE  P!Uninterrupting
<1> DEFINE view == execution[e].view
           t    == leases[e].task
<1> USE SameTransitions, SameEvents
<1>1. Known(view, run) /\ leases[e] # None /\ e \notin settled
  BY DEF ServiceInv, ExecutionOK, ExecutionRecord
<1>2. e \in P!Outstanding /\ t \in Tasks
  BY <1>1 DEF P!Outstanding, P!Unclaimed, ServiceInv, TypeOK, Lease
<1>3. /\ P!HoldsLease(e) <=> IsActiveExecution(run, t, e)
      /\ settled' = settled \cup {e} /\ UNCHANGED leases
  BY SameQueries DEF P!HoldsLease, ExecutionRecord
<1>4. view = run /\ RecordedFrom(e, t, run)
  BY <1>1, AcceptedIsStored DEF ExecutionRecord, RecordedFrom
<1>5. CASE ~ IsActiveExecution(run, t, e)
  <2>1. P!Commit(run, <<P!OnExecution("task.result_ignored", t, e)>>)
    BY <1>1, <1>4, <1>5, AcceptedIsStored DEF RecordedFrom
  <2>2. P!RecordIgnored(e)
    BY <1>2, <1>3, <1>5, <2>1 DEF P!RecordIgnored
  <2> QED
    BY <2>2 DEF P!Uninterrupting
<1>6. CASE IsActiveExecution(run, t, e) /\ execution[e].outcome = "success"
  <2>1. P!Commit(P!TaskSucceeded(run, t, e), P!SuccessEvents(t, e))
    BY <1>1, <1>4, <1>6, AcceptedIsStored DEF RecordedFrom
  <2>2. P!RecordSuccess(e)
    BY <1>2, <1>3, <1>6, <2>1 DEF P!RecordSuccess
  <2> QED
    BY <2>2 DEF P!Uninterrupting
<1>7. CASE IsActiveExecution(run, t, e) /\ execution[e].outcome # "success"
  <2>1. run.task_attempts[t] \in Nat /\ run.plan.max_attempts[t] \in Nat
    <3>1. run \in Snapshot /\ run.plan \in Plans
      BY <1>7 DEF ServiceInv, TypeOK, P!PlanKnown, IsActiveExecution
    <3> QED
      BY <1>2, <3>1, PlansAssumption DEF Snapshot, PlanShape
  <2>2. CASE run.task_attempts[t] < run.plan.max_attempts[t]
    <3>1. P!Commit(P!TaskRetrying(run, t), <<P!OnExecution("task.retrying", t, e)>>)
      BY <1>1, <1>4, <1>7, <2>2, AcceptedIsStored DEF RecordedFrom
    <3>2. P!RecordRetry(e)
      BY <1>2, <1>3, <1>7, <2>2, <3>1 DEF P!RecordRetry
    <3> QED
      BY <3>2 DEF P!Uninterrupting
  <2>3. CASE ~ (run.task_attempts[t] < run.plan.max_attempts[t])
    <3>1. P!Commit(P!TaskAndRunFailed(run, t), P!FailureEvents(t, e))
      BY <1>1, <1>4, <1>7, <2>3, AcceptedIsStored DEF RecordedFrom
    <3>2. P!RecordFailure(e)
      BY <1>2, <1>3, <1>7, <2>1, <2>3, <3>1 DEF P!RecordFailure
    <3> QED
      BY <3>2 DEF P!Uninterrupting
  <2> QED
    BY <2>2, <2>3
<1> QED
  BY <1>5, <1>6, <1>7

(***************************************************************************)
(* What a step leaves as it was                                            *)
(***************************************************************************)

\* The facts about the lifecycle that the steps below need.
LEMMA LifecycleStep ==
  ASSUME ServiceInv, [P!Next]_(P!vars)
  PROVE  /\ P!TypeOK' /\ P!PlanKnown'
         /\ \/ UNCHANGED P!vars
            \/ run.version \in Nat /\ run'.version = run.version + 1
         /\ P!Interruptions \in Nat
         /\ P!Pause \/ P!Recover => P!Interruptions' = P!Interruptions + 1
         /\ [P!Uninterrupting]_(P!vars) => P!Interruptions' = P!Interruptions
<1> USE LifecycleAssumptions
    DEF P!TaskCountAssumption, P!PlansAssumption, P!ArtifactTasksAssumption,
        P!MaxConcurrencyAssumption, P!NoneAssumption, P!LeaseAssumption,
        P!MaxInterruptionsAssumption
<1>1. P!TypeOK /\ P!PlanKnown
  BY LifecycleTypes DEF ServiceInv
<1>2. P!TypeOK'
  BY <1>1, P!TypeStep
<1>3. P!PlanKnown'
  BY <1>1, P!PlanKnownStep
<1>4. ASSUME P!Next PROVE run'.version = run.version + 1
  <2>1. \E changed, drafts : P!Commit(changed, drafts)
    BY <1>4
       DEF P!Next, P!Plan, P!Start, P!Pause, P!Resume, P!Cancel, P!Recover, P!Conclude,
           P!MarkReady, P!Claim, P!RecordSuccess, P!RecordRetry, P!RecordFailure,
           P!RecordIgnored
  <2>2. run' \in Snapshot
    BY <1>2, SameSets DEF P!TypeOK
  <2> QED
    BY <2>1, <2>2 DEF P!Commit, Snapshot
<1>5. run.version \in Nat
  BY DEF ServiceInv, TypeOK, Snapshot
<1>6. /\ P!Interruptions \in Nat
      /\ P!Pause \/ P!Recover => P!Interruptions' = P!Interruptions + 1
      /\ [P!Uninterrupting]_(P!vars) => P!Interruptions' = P!Interruptions
  BY <1>1, P!InterruptionsStep
<1> QED
  BY <1>2, <1>3, <1>4, <1>5, <1>6

\* A process that does not move keeps its part of the invariant.
LEMMA StarterKept ==
  ASSUME ServiceInv, [P!Next]_(P!vars), UNCHANGED starter
  PROVE  StarterOK'
BY LifecycleStep, KnownStays DEF ServiceInv, StarterOK, P!vars

LEMMA RequestKept ==
  ASSUME ServiceInv, [P!Next]_(P!vars), NEW r \in Requests, UNCHANGED request[r]
  PROVE  RequestOK(r)'
<1> DEFINE q == request[r]
<1>1. CASE UNCHANGED P!vars
  BY <1>1 DEF ServiceInv, RequestOK, P!vars
<1>2. CASE run.version \in Nat /\ run'.version = run.version + 1
  <2>1. q.pc \in {"list", "commit"} =>
          Known(q.view, run') /\ q.view.version # run'.version
    BY <1>2, KnownStays DEF ServiceInv, RequestOK, Known
  <2> QED
    BY <2>1 DEF ServiceInv, RequestOK
<1> QED
  BY <1>1, <1>2, LifecycleStep

LEMMA HostKept ==
  ASSUME ServiceInv, [P!Next]_(P!vars), NEW h \in Hosts,
         UNCHANGED <<host[h], recovery[h], listed[h], executor[h]>>
  PROVE  HostOK(h)'
BY LifecycleStep, KnownStays DEF ServiceInv, HostOK, P!vars

LEMMA ExecutionKept ==
  ASSUME ServiceInv, [P!Next]_(P!vars), NEW e \in ExecutionIds,
         UNCHANGED <<execution[e], leases[e]>>, e \in settled' <=> e \in settled,
         execution[e].pc \in {"invoking", "load", "commit"} => UNCHANGED host[execution[e].host]
  PROVE  ExecutionOK(e)'
BY LifecycleStep, KnownStays DEF ServiceInv, ExecutionOK, P!vars

\* Nobody new may interrupt the run, or a fault pays for it.
LEMMA BudgetKept ==
  ASSUME ServiceInv, [P!Next]_(P!vars), Askers' \subseteq Askers, faults' \in 0 .. MaxFaults,
         \/ /\ [P!Uninterrupting]_(P!vars)
            /\ \/ Interrupters' \subseteq Interrupters /\ faults <= faults'
               \/ /\ \E h \in Hosts : Interrupters' \subseteq Interrupters \cup {h}
                  /\ faults' = faults + 1
         \/ /\ P!Recover /\ faults' = faults
            /\ \E h \in Interrupters : Interrupters' \subseteq Interrupters \ {h}
         \/ /\ P!Pause /\ faults' = faults
            /\ Interrupters' \subseteq Interrupters
            /\ \E r \in Askers : Askers' \subseteq Askers \ {r}
  PROVE  Budget'
<1> DEFINE I  == Cardinality(Interrupters)
           I2 == Cardinality(Interrupters')
           A  == Cardinality(Askers)
           A2 == Cardinality(Askers')
<1>1. /\ IsFiniteSet(Interrupters) /\ IsFiniteSet(Interrupters')
      /\ IsFiniteSet(Askers) /\ IsFiniteSet(Askers')
  <2>1. /\ Interrupters \subseteq Hosts /\ Interrupters' \subseteq Hosts
        /\ Askers \subseteq Requests /\ Askers' \subseteq Requests
    BY DEF Interrupters, Askers
  <2> QED
    BY <2>1, RequestsAssumption, FS_Subset
<1>2. /\ I \in Nat /\ I2 \in Nat /\ A \in Nat /\ A2 \in Nat
      /\ Cardinality(Hosts) \in Nat /\ Cardinality(Requests) \in Nat
  BY <1>1, RequestsAssumption, FS_CardinalityType
<1>3. A2 <= A
  BY <1>1, FS_Subset
<1>4. Interrupters' \subseteq Interrupters => I2 <= I
  BY <1>1, FS_Subset
<1>5. \A h : Interrupters' \subseteq Interrupters \cup {h} => I2 <= I + 1
  <2> SUFFICES ASSUME NEW h, Interrupters' \subseteq Interrupters \cup {h} PROVE I2 <= I + 1
    OBVIOUS
  <2>1. IsFiniteSet(Interrupters \cup {h})
        /\ Cardinality(Interrupters \cup {h}) \in {I, I + 1}
    BY <1>1, <1>2, FS_AddElement
  <2>2. I2 <= Cardinality(Interrupters \cup {h})
    BY <2>1, FS_Subset
  <2> QED
    BY <1>2, <2>1, <2>2
<1>6. \A h \in Interrupters : Interrupters' \subseteq Interrupters \ {h} => I2 <= I - 1
  <2> SUFFICES ASSUME NEW h \in Interrupters, Interrupters' \subseteq Interrupters \ {h}
               PROVE  I2 <= I - 1
    OBVIOUS
  <2>1. IsFiniteSet(Interrupters \ {h}) /\ Cardinality(Interrupters \ {h}) = I - 1
    BY <1>1, FS_RemoveElement
  <2> QED
    BY <2>1, FS_Subset
<1>7. \A r \in Askers : Askers' \subseteq Askers \ {r} => A2 <= A - 1
  <2> SUFFICES ASSUME NEW r \in Askers, Askers' \subseteq Askers \ {r} PROVE A2 <= A - 1
    OBVIOUS
  <2>1. IsFiniteSet(Askers \ {r}) /\ Cardinality(Askers \ {r}) = A - 1
    BY <1>1, FS_RemoveElement
  <2> QED
    BY <2>1, FS_Subset
<1>8. /\ P!Interruptions \in Nat
      /\ P!Pause \/ P!Recover => P!Interruptions' = P!Interruptions + 1
      /\ [P!Uninterrupting]_(P!vars) => P!Interruptions' = P!Interruptions
  BY LifecycleStep
<1>9. /\ P!Interruptions + I + A <= Cardinality(Requests) + Cardinality(Hosts) + faults
      /\ faults \in Nat /\ faults' \in Nat
  BY MaxFaultsAssumption DEF ServiceInv, Budget, TypeOK
<1>10. P!Interruptions' + I2 + A2 <= Cardinality(Requests) + Cardinality(Hosts) + faults'
  <2> HIDE DEF I, I2, A, A2
  <2> QED
    BY <1>2, <1>3, <1>4, <1>5, <1>6, <1>7, <1>8, <1>9
<1> QED
  BY <1>10 DEF Budget

(***************************************************************************)
(* Every step keeps the invariant, process by process                      *)
(***************************************************************************)

LEMMA LifecycleMoves ==
  /\ P!Uninterrupting \/ P!Pause \/ P!Recover => P!Next
  /\ UNCHANGED store <=> UNCHANGED P!vars
BY DEF P!Uninterrupting, P!Next, store, P!vars

\* The store's part of TypeOK after a step.
LEMMA StoreTyped ==
  ASSUME ServiceInv, [P!Next]_(P!vars)
  PROVE  /\ run' \in Snapshot
         /\ events' \in Seq(RunEvent)
         /\ leases' \in [ExecutionIds -> Lease \cup {None}]
         /\ settled' \subseteq ExecutionIds
         /\ Known(run', run')
BY LifecycleStep, SameSets, StoredIsKnown DEF P!TypeOK

LEMMA StarterStep ==
  ASSUME ServiceInv, StarterNext
  PROVE  ServiceInv'
<1>1. [P!Next]_(P!vars) /\ [P!Uninterrupting]_(P!vars)
  BY StarterSimulation, LifecycleMoves
<1>2. UNCHANGED <<host, faults, request, recovery, listed, executor, execution>>
  BY DEF StarterNext, StarterPlan, StarterStart
<1>3. UNCHANGED <<leases, settled>>
  BY DEF StarterNext, StarterPlan, StarterStart, Conflict, store
<1>4. \/ StarterMoves("start", run') /\ run'.status = "planned"
      \/ \E pc \in {"done", "conflict"} : StarterMoves(pc, None)
  <2>1. ASSUME NEW p \in Plans,
               CommitFrom(starter.view, Planned(starter.view, p), <<OnRun("plan.created")>>),
               starter.pc = "plan"
        PROVE  run'.status = "planned"
    <3>1. starter.view \in Snapshot
      BY <2>1 DEF ServiceInv, StarterOK, Known
    <3> QED
      BY <2>1, <3>1 DEF CommitFrom, Planned, Snapshot
  <2> QED
    BY <2>1 DEF StarterNext, StarterPlan, StarterStart
<1>5. StarterOK' /\ starter' \in [pc   : {"plan", "start", "done", "conflict", "lost"},
                                  host : Hosts, view : View]
  <2>1. starter \in [pc   : {"plan", "start", "done", "conflict", "lost"},
                     host : Hosts, view : View]
    BY DEF ServiceInv, TypeOK
  <2> QED
    BY <1>1, <1>4, <2>1, StoreTyped DEF StarterMoves, StarterOK, View
<1>6. TypeOK'
  BY <1>1, <1>2, <1>5, StoreTyped DEF ServiceInv, TypeOK
<1>7. \A r \in Requests : RequestOK(r)'
  BY <1>1, <1>2, RequestKept
<1>8. \A h \in Hosts : HostOK(h)'
  BY <1>1, <1>2, HostKept
<1>9. \A e \in ExecutionIds : ExecutionOK(e)'
  BY <1>1, <1>2, <1>3, ExecutionKept
<1>10. Budget'
  <2>1. /\ Askers' = Askers /\ Interrupters' = Interrupters
        /\ faults' \in 0 .. MaxFaults /\ faults <= faults'
    BY <1>2, MaxFaultsAssumption DEF Askers, Interrupters, ServiceInv, TypeOK
  <2> QED
    BY <1>1, <2>1, BudgetKept
<1> QED
  BY <1>1, <1>5, <1>6, <1>7, <1>8, <1>9, <1>10, LifecycleStep DEF ServiceInv

LEMMA RequestStep ==
  ASSUME ServiceInv, NEW r \in Requests,
         RequestNext(r) \/ \E c \in Commands, h \in Hosts : RequestArrives(r, c, h)
  PROVE  ServiceInv'
<1> DEFINE q  == request[r]
           q2 == request'[r]
           RequestType ==
             [pc      : {"idle", "load", "list", "commit", "done", "rejected", "conflict", "lost"},
              command : Commands \cup {None},
              host    : Hosts \cup {None}, view : View,
              tries   : 0 .. CommitAttempts, cursor : Nat]
           Moved ==
             /\ q2 \in RequestType /\ RequestOK(r)' /\ request' = [request EXCEPT ![r] = q2]
             /\ q2.pc \in Waiting => q.pc \in Waiting
<1>t. /\ request \in [Requests -> RequestType] /\ q \in RequestType /\ RequestOK(r)
      /\ Len(events) \in Nat /\ run \in Snapshot
      /\ Known(run, run)
  BY StoredIsKnown DEF ServiceInv, TypeOK
<1>1. \/ P!Pause /\ request' = [request EXCEPT ![r].pc = "done", ![r].view = None]
      \/ [P!Uninterrupting]_(P!vars)
  BY RequestSimulation, LifecycleMoves
     DEF RequestNext, RequestLoad, ResumeListEvents, RequestArrives
<1>2. [P!Next]_(P!vars)
  BY <1>1, LifecycleMoves
<1>3. UNCHANGED <<host, faults, starter, recovery, listed, executor, execution>>
  BY DEF RequestNext, RequestLoad, ResumeListEvents, RequestCommit, RequestArrives
<1>4. UNCHANGED <<leases, settled>>
  BY DEF RequestNext, RequestLoad, ResumeListEvents, RequestCommit, RequestArrives, Conflict, store
<1>5. Moved
  <2>1. ASSUME NEW c \in Commands, NEW h \in Hosts, RequestArrives(r, c, h)
        PROVE  Moved
    <3>1. /\ q.pc = "idle" /\ UNCHANGED store
          /\ request' = [request EXCEPT ![r].pc = "load", ![r].command = c, ![r].host = h]
      BY <2>1 DEF RequestArrives
    <3>2. q2 = [q EXCEPT !.pc = "load", !.command = c, !.host = h]
      BY <1>t, <3>1
    <3> QED
      BY <1>t, <3>1, <3>2 DEF RequestOK, Waiting, store
  <2>2. CASE RequestLoad(r)
    <3>1. q.pc = "load" /\ UNCHANGED store
      BY <2>2 DEF RequestLoad
    <3>2. \/ \E pc \in {"done", "rejected"} : RequestMoves(r, pc, None)
          \/ /\ Permits(q.command, run.status)
             /\ RequestMoves(r, IF q.command = "resume" THEN "list" ELSE "commit", run)
      BY <2>2 DEF RequestLoad
    <3>3. CASE \E pc \in {"done", "rejected"} : RequestMoves(r, pc, None)
      <4>1. PICK pc \in {"done", "rejected"} : RequestMoves(r, pc, None)
        BY <3>3
      <4>2. q2 = [q EXCEPT !.pc = pc, !.view = None]
        BY <1>t, <4>1 DEF RequestMoves
      <4> QED
        BY <1>t, <3>1, <4>1, <4>2 DEF RequestOK, RequestMoves, Waiting, View
    <3>4. CASE /\ Permits(q.command, run.status)
               /\ RequestMoves(r, IF q.command = "resume" THEN "list" ELSE "commit", run)
      <4>1. q2 = [q EXCEPT !.pc = IF q.command = "resume" THEN "list" ELSE "commit", !.view = run]
        BY <1>t, <3>4 DEF RequestMoves
      <4> QED
        BY <1>t, <3>1, <3>4, <4>1 DEF RequestOK, RequestMoves, Waiting, View, store
    <3> QED
      BY <3>2, <3>3, <3>4
  <2>3. CASE ResumeListEvents(r)
    <3>1. /\ q.pc = "list" /\ UNCHANGED store
          /\ request' = [request EXCEPT ![r].pc = "commit", ![r].cursor = Len(events)]
      BY <2>3 DEF ResumeListEvents
    <3>2. q2 = [q EXCEPT !.pc = "commit", !.cursor = Len(events)]
      BY <1>t, <3>1
    <3> QED
      BY <1>t, <3>1, <3>2 DEF RequestOK, Waiting, store
  <2>4. CASE RequestCommit(r)
    <3>1. q.pc = "commit"
      BY <2>4 DEF RequestCommit
    <3>2. CASE RequestMoves(r, "done", None)
      <4>1. q2 = [q EXCEPT !.pc = "done", !.view = None]
        BY <1>t, <3>2 DEF RequestMoves
      <4> QED
        BY <1>t, <3>2, <4>1 DEF RequestOK, RequestMoves, Waiting, View
    <3>3. CASE request' = [request EXCEPT
                 ![r].pc    = IF q.tries + 1 < CommitAttempts THEN "load" ELSE "conflict",
                 ![r].view  = None,
                 ![r].tries = @ + 1]
      <4>1. q2 = [q EXCEPT !.pc    = IF q.tries + 1 < CommitAttempts THEN "load" ELSE "conflict",
                           !.view  = None,
                           !.tries = q.tries + 1]
        BY <1>t, <3>3
      <4>2. q.tries + 1 \in 0 .. CommitAttempts
        BY <1>t, <3>1, CommitAttemptsAssumption DEF RequestOK, Waiting
      <4> QED
        BY <1>t, <3>1, <3>3, <4>1, <4>2 DEF RequestOK, Waiting, View
    <3> QED
      BY <2>4, <3>2, <3>3 DEF RequestCommit
  <2> QED
    BY <2>1, <2>2, <2>3, <2>4 DEF RequestNext
<1>6. TypeOK'
  <2>1. request' \in [Requests -> RequestType]
    BY <1>t, <1>5
  <2> QED
    BY <1>2, <1>3, <2>1, StoreTyped DEF ServiceInv, TypeOK
<1>7. ASSUME NEW p \in Requests PROVE RequestOK(p)'
  BY <1>t, <1>2, <1>5, RequestKept
<1>8. \A h \in Hosts : HostOK(h)'
  BY <1>2, <1>3, HostKept
<1>9. \A e \in ExecutionIds : ExecutionOK(e)'
  BY <1>2, <1>3, <1>4, ExecutionKept
<1>10. Budget'
  <2>0. Askers' \subseteq Askers
    <3> HIDE DEF RequestType, q2
    <3> QED
      BY <1>t, <1>5 DEF Askers
  <2>1. /\ Askers' \subseteq Askers /\ Interrupters' = Interrupters /\ faults' = faults
        /\ faults' \in 0 .. MaxFaults /\ faults <= faults'
    BY <2>0, <1>3, MaxFaultsAssumption DEF Interrupters, ServiceInv, TypeOK
  <2>2. ASSUME P!Pause, request' = [request EXCEPT ![r].pc = "done", ![r].view = None]
        PROVE  r \in Askers /\ Askers' \subseteq Askers \ {r}
    <3>1. q2.pc = "done"
      BY <1>t, <2>2
    <3>2. q.pc \in Waiting
      BY <2>2, <1>t, <1>5, <3>1 DEF RequestNext, RequestLoad, ResumeListEvents, RequestCommit,
         RequestArrives, Waiting
    <3> QED
      BY <2>1, <3>1, <3>2 DEF Askers, Waiting
  <2> QED
    BY <1>1, <1>2, <2>1, <2>2, BudgetKept
<1> QED
  BY <1>2, <1>3, <1>6, <1>7, <1>8, <1>9, <1>10, StarterKept, LifecycleStep DEF ServiceInv

\* Startup and the worker's listing.
LEMMA HostStep ==
  ASSUME ServiceInv, NEW h \in Hosts,
         RecoveryNext(h) \/ Boot(h) \/ WorkerList(h) \/ WorkerSpawn(h)
  PROVE  ServiceInv'
<1> DEFINE RecoveryType == [pc : {"idle", "load", "commit"}, view : View, tries : 0 .. CommitAttempts]
           ExecutorType == [pc : {"idle", "load", "commit", "drain"}, view : View]
           HostStates   == {"down", "recovering", "serving", "workerless"}
           Moved ==
             /\ host'[h] \in HostStates /\ recovery'[h] \in RecoveryType
             /\ listed'[h] \in BOOLEAN /\ executor'[h] \in ExecutorType
             /\ host'     = [host EXCEPT ![h] = host'[h]]
             /\ recovery' = [recovery EXCEPT ![h] = recovery'[h]]
             /\ listed'   = [listed EXCEPT ![h] = listed'[h]]
             /\ executor' = [executor EXCEPT ![h] = executor'[h]]
             /\ HostOK(h)'
             /\ host[h] = "serving" => host'[h] = "serving"
             /\ host'[h] \in {"down", "recovering"} => host[h] \in {"down", "recovering"}
<1>t. /\ host \in [Hosts -> HostStates] /\ recovery \in [Hosts -> RecoveryType]
      /\ listed \in [Hosts -> BOOLEAN] /\ executor \in [Hosts -> ExecutorType]
      /\ HostOK(h) /\ run \in Snapshot /\ Known(run, run) /\ None \in View
      /\ NoRecovery \in RecoveryType
  BY CommitAttemptsAssumption, StoredIsKnown DEF ServiceInv, TypeOK, View, NoRecovery
<1>1. \/ P!Recover /\ host' = [host EXCEPT ![h] = "serving"]
      \/ UNCHANGED P!vars
  BY RecoverySimulation, LifecycleMoves
     DEF RecoveryNext, RecoveryLoad, Boot, WorkerList, WorkerSpawn
<1>2. [P!Next]_(P!vars)
  BY <1>1, LifecycleMoves
<1>3. UNCHANGED <<faults, starter, request, execution, leases, settled>>
  BY DEF RecoveryNext, RecoveryLoad, RecoveryCommit, Boot, WorkerList, WorkerSpawn, Conflict,
         store, processes
<1>4. Moved
  <2>1. CASE Boot(h)
    <3>1. /\ host[h] = "down" /\ UNCHANGED <<store, listed, executor>>
          /\ host' = [host EXCEPT ![h] = "recovering"]
          /\ recovery' = [recovery EXCEPT ![h].pc = "load"]
      BY <2>1 DEF Boot
    <3>2. recovery'[h] = [recovery[h] EXCEPT !.pc = "load"] /\ host'[h] = "recovering"
      BY <1>t, <3>1
    <3> QED
      BY <1>t, <3>1, <3>2 DEF HostOK, store
  <2>2. CASE RecoveryLoad(h)
    <3>1. recovery[h].pc = "load" /\ UNCHANGED <<store, listed, executor>>
      BY <2>2 DEF RecoveryLoad
    <3>2. CASE /\ run.status = "running"
               /\ recovery' = [recovery EXCEPT ![h].pc = "commit", ![h].view = run]
               /\ UNCHANGED host
      <4>1. recovery'[h] = [recovery[h] EXCEPT !.pc = "commit", !.view = run]
        BY <1>t, <3>2
      <4>2. recovery[h] \in RecoveryType
        BY <1>t
      <4>3. /\ recovery'[h] \in RecoveryType /\ recovery'[h].pc = "commit"
            /\ recovery'[h].view = run
        BY <1>t, <4>1, <4>2 DEF View
      <4>4. recovery' = [recovery EXCEPT ![h] = recovery'[h]]
        BY <1>t, <3>2, <4>1
      <4> HIDE DEF RecoveryType
      <4> QED
        BY <1>t, <3>1, <3>2, <4>3, <4>4 DEF HostOK, store
    <3>3. CASE /\ recovery' = [recovery EXCEPT ![h] = NoRecovery]
               /\ host' = [host EXCEPT ![h] = "serving"]
      <4>1. recovery'[h] = NoRecovery /\ host'[h] = "serving"
        BY <1>t, <3>3
      <4> QED
        BY <1>t, <3>1, <3>3, <4>1 DEF HostOK, store, NoRecovery
    <3> QED
      BY <2>2, <3>2, <3>3 DEF RecoveryLoad
  <2>3. CASE RecoveryCommit(h)
    <3>1. recovery[h].pc = "commit" /\ host[h] = "recovering" /\ UNCHANGED <<listed, executor>>
          /\ executor[h].view = None /\ executor[h].pc = "idle" /\ ~ listed[h]
      BY <1>t, <2>3 DEF RecoveryCommit, HostOK
    <3>2. CASE \E state \in {"serving", "down"} :
                 /\ recovery' = [recovery EXCEPT ![h] = NoRecovery]
                 /\ host' = [host EXCEPT ![h] = state]
      <4>1. PICK state \in {"serving", "down"} :
                 /\ recovery' = [recovery EXCEPT ![h] = NoRecovery]
                 /\ host' = [host EXCEPT ![h] = state]
        BY <3>2
      <4>2. recovery'[h] = NoRecovery /\ host'[h] = state
        BY <1>t, <4>1
      <4> QED
        BY <1>t, <3>1, <4>1, <4>2 DEF HostOK, NoRecovery
    <3>3. CASE /\ recovery[h].tries + 1 < CommitAttempts
               /\ recovery' = [recovery EXCEPT
                     ![h] = [pc |-> "load", view |-> None, tries |-> recovery[h].tries + 1]]
               /\ UNCHANGED host
      <4>1. recovery'[h] = [pc |-> "load", view |-> None, tries |-> recovery[h].tries + 1]
        BY <1>t, <3>3
      <4>2. recovery'[h] \in RecoveryType
        BY <1>t, <3>3, <4>1, CommitAttemptsAssumption
      <4> QED
        BY <1>t, <3>1, <3>3, <4>1, <4>2 DEF HostOK
    <3> QED
      BY <2>3, <3>2, <3>3 DEF RecoveryCommit
  <2>4. CASE WorkerList(h)
    <3>1. /\ host[h] = "serving" /\ UNCHANGED <<store, host, recovery, executor>>
          /\ listed' = [listed EXCEPT ![h] = TRUE]
      BY <2>4 DEF WorkerList
    <3> QED
      BY <1>t, <3>1 DEF HostOK, store
  <2>5. CASE WorkerSpawn(h)
    <3>1. /\ listed[h] /\ UNCHANGED <<store, host, recovery>>
          /\ listed' = [listed EXCEPT ![h] = FALSE]
          /\ executor' = [executor EXCEPT ![h].pc = IF @ = "idle" THEN "load" ELSE @]
      BY <2>5 DEF WorkerSpawn
    <3>2. executor'[h] = [executor[h] EXCEPT !.pc = IF executor[h].pc = "idle" THEN "load"
                                                    ELSE executor[h].pc]
      BY <1>t, <3>1
    <3> QED
      BY <1>t, <3>1, <3>2 DEF HostOK, store
  <2> QED
    BY <2>1, <2>2, <2>3, <2>4, <2>5 DEF RecoveryNext
<1> HIDE DEF RecoveryType, ExecutorType, HostStates
<1>5. TypeOK'
  <2>1. /\ host' \in [Hosts -> HostStates] /\ recovery' \in [Hosts -> RecoveryType]
        /\ listed' \in [Hosts -> BOOLEAN] /\ executor' \in [Hosts -> ExecutorType]
    BY <1>t, <1>4
  <2> QED
    BY <1>2, <1>3, <2>1, StoreTyped
       DEF ServiceInv, TypeOK, RecoveryType, ExecutorType, HostStates
<1>6. ASSUME NEW i \in Hosts PROVE HostOK(i)'
  BY <1>t, <1>2, <1>4, HostKept
<1>7. ASSUME NEW e \in ExecutionIds PROVE ExecutionOK(e)'
  <2>1. execution[e].pc \in {"invoking", "load", "commit"} => host'[execution[e].host] = host[execution[e].host]
    <3>1. execution[e].pc \in {"invoking", "load", "commit"} =>
            execution[e].host \in Hosts /\ host[execution[e].host] = "serving"
      BY DEF ServiceInv, ExecutionOK
    <3> QED
      BY <1>t, <1>4, <3>1
  <2> QED
    BY <1>2, <1>3, <2>1, ExecutionKept
<1>8. Budget'
  <2>1. Askers' = Askers /\ Interrupters' \subseteq Interrupters
    BY <1>t, <1>3, <1>4 DEF Askers, Interrupters
  <2>2. faults' = faults /\ faults' \in 0 .. MaxFaults /\ faults <= faults'
    BY <1>3, MaxFaultsAssumption DEF ServiceInv, TypeOK
  <2>3. ASSUME P!Recover, host' = [host EXCEPT ![h] = "serving"]
        PROVE  h \in Interrupters /\ Interrupters' \subseteq Interrupters \ {h}
    <3>1. h \notin Interrupters'
      BY <1>t, <2>3 DEF Interrupters
    <3>2. RecoveryNext(h) \/ Boot(h) => host[h] \in {"down", "recovering"}
      BY <1>t DEF RecoveryNext, RecoveryLoad, RecoveryCommit, Boot, HostOK
    <3>3. ~ UNCHANGED P!vars
      <4>1. P!Interruptions' = P!Interruptions + 1 /\ P!Interruptions \in Nat
        BY <1>2, <2>3, LifecycleStep
      <4>2. UNCHANGED P!vars => P!Interruptions' = P!Interruptions
        BY <1>2, LifecycleStep
      <4> QED
        BY <4>1, <4>2
    <3>4. WorkerList(h) \/ WorkerSpawn(h) => UNCHANGED P!vars
      BY LifecycleMoves DEF WorkerList, WorkerSpawn
    <3> QED
      BY <2>1, <3>1, <3>2, <3>3, <3>4 DEF Interrupters
  <2> QED
    BY <1>1, <1>2, <2>1, <2>2, <2>3, BudgetKept
<1> QED
  BY <1>2, <1>3, <1>5, <1>6, <1>7, <1>8, StarterKept, RequestKept, LifecycleStep DEF ServiceInv

LEMMA ExecutorStep ==
  ASSUME ServiceInv, NEW h \in Hosts, ExecutorNext(h)
  PROVE  ServiceInv'
<1> DEFINE ExecutorType == [pc : {"idle", "load", "commit", "drain"}, view : View]
           ExecutionType ==
             [pc      : {"unused", "invoking", "load", "commit", "done", "lost"},
              host    : Hosts \cup {None}, outcome : {"success", "failure"} \cup {None},
              view    : View, tries : 0 .. CommitAttempts - 1]
           Moved ==
             /\ executor'[h] \in ExecutorType /\ executor' = [executor EXCEPT ![h] = executor'[h]]
             /\ HostOK(h)'
           Executions ==
             /\ execution' \in [ExecutionIds -> ExecutionType]
             /\ \A e \in ExecutionIds : ExecutionOK(e)'
<1>t. /\ executor \in [Hosts -> ExecutorType] /\ HostOK(h)
      /\ run \in Snapshot /\ Known(run, run) /\ None \in View
  BY StoredIsKnown DEF ServiceInv, TypeOK, View
<1>1. [P!Uninterrupting]_(P!vars) /\ [P!Next]_(P!vars)
  BY ExecutorSimulation, LifecycleMoves
<1>2. UNCHANGED <<host, faults, starter, request, recovery, listed, settled>>
  BY DEF ExecutorNext, ExecutorLoad, ExecutorConclude, ExecutorConflict, ExecutorEnd,
         ExecutorMarkReady, ExecutorClaim, Conflict, store
<1>3. executor[h].pc # "idle" /\ host[h] = "serving" /\ recovery[h].view = None
      /\ recovery[h].pc = "idle"
  BY <1>t DEF ExecutorNext, ExecutorLoad, ExecutorConclude, ExecutorConflict, ExecutorEnd,
              ExecutorMarkReady, ExecutorClaim, HostOK
<1>4. \/ ExecutorMoves(h, "commit", run') /\ run'.status = "running"
      \/ \E pc \in {"idle", "load", "drain"} : ExecutorMoves(h, pc, None)
  <2>1. ASSUME NEW t \in Tasks, ExecutorMarkReady(h, t) PROVE run'.status = "running"
    <3>1. executor[h].view \in Snapshot /\ executor[h].view.status = "running"
      BY <1>t, <2>1 DEF ExecutorMarkReady, HostOK, Known
    <3> QED
      BY <2>1, <3>1 DEF ExecutorMarkReady, CommitFrom, TaskReady, Snapshot
  <2>2. CASE ExecutorEnd(h)
    BY <2>2 DEF ExecutorEnd, NoExecutor, ExecutorMoves
  <2>3. CASE ExecutorLoad(h)
    BY <2>3 DEF ExecutorLoad, store
  <2> QED
    BY <2>1, <2>2, <2>3
       DEF ExecutorNext, ExecutorConclude, ExecutorConflict, ExecutorMarkReady, ExecutorClaim
<1>5. Moved
  <2>1. CASE ExecutorMoves(h, "commit", run') /\ run'.status = "running"
    <3>1. executor'[h] = [pc |-> "commit", view |-> run']
      BY <1>t, <2>1 DEF ExecutorMoves
    <3> QED
      BY <1>1, <1>t, <1>2, <1>3, <2>1, <3>1, StoreTyped DEF HostOK, View, ExecutorMoves
  <2>2. ASSUME NEW pc \in {"idle", "load", "drain"}, ExecutorMoves(h, pc, None)
        PROVE  Moved
    <3>1. executor'[h] = [pc |-> pc, view |-> None]
      BY <1>t, <2>2 DEF ExecutorMoves
    <3> QED
      BY <1>t, <1>2, <1>3, <2>2, <3>1 DEF HostOK, ExecutorMoves
  <2> QED
    BY <1>4, <2>1, <2>2
<1> HIDE DEF ExecutorType
<1>6. ASSUME NEW i \in Hosts PROVE HostOK(i)'
  BY <1>t, <1>1, <1>2, <1>5, HostKept
<1>7. Executions
  <2>t. /\ execution \in [ExecutionIds -> ExecutionType]
        /\ leases \in [ExecutionIds -> Lease \cup {None}]
    BY DEF ServiceInv, TypeOK
  <2>1. CASE UNCHANGED <<execution, leases>>
    BY <1>1, <1>2, <2>t, <2>1, ExecutionKept
  <2>2. ASSUME NEW t \in Tasks, ExecutorClaim(h, t) PROVE Executions
    <3>1. PICK e \in ExecutionIds : e = FreshExecutionId /\ leases[e] = None
      BY <2>2 DEF ExecutorClaim, Unclaimed, FreshExecutionId
    <3>2. /\ execution' = [execution EXCEPT ![e].pc = "invoking", ![e].host = h]
          /\ \E lease : leases' = [leases EXCEPT ![e] = [task |-> t, epoch |-> lease]]
      BY <2>2, <3>1 DEF ExecutorClaim
    <3>3. execution'[e] = [execution[e] EXCEPT !.pc = "invoking", !.host = h]
      BY <2>t, <3>2
    <3>4. leases'[e] # None
      <4>1. PICK view : view = executor[h].view /\ view \in Snapshot
        BY <1>t, <2>2 DEF ExecutorClaim, HostOK, Known
      <4>2. leases' = [leases EXCEPT ![e] = [task |-> t, epoch |-> view.task_attempts[t] + 1]]
        BY <2>2, <3>1, <4>1 DEF ExecutorClaim
      <4>3. leases'[e] = [task |-> t, epoch |-> view.task_attempts[t] + 1]
        BY <2>t, <4>2
      <4> QED
        BY <4>1, <4>3, LeaseAssumption DEF Lease, Snapshot
    <3>5. execution'[e] \in ExecutionType
      BY <2>t, <3>3
    <3>6. ExecutionOK(e)'
      <4>1. execution[e].pc = "unused" /\ e \notin settled /\ execution[e].view = None
        BY <3>1 DEF ServiceInv, ExecutionOK
      <4>2. /\ execution'[e].pc = "invoking" /\ execution'[e].host = h
            /\ execution'[e].view = None
        BY <2>t, <3>3, <4>1
      <4> QED
        BY <1>2, <1>3, <3>4, <4>1, <4>2 DEF ExecutionOK
    <3>7. ASSUME NEW f \in ExecutionIds, f # e PROVE ExecutionOK(f)'
      <4>1. UNCHANGED <<execution[f], leases[f]>>
        BY <2>t, <3>2, <3>7
      <4> QED
        BY <1>1, <1>2, <4>1, ExecutionKept
    <3>8. execution' \in [ExecutionIds -> ExecutionType]
      <4> HIDE DEF ExecutionType
      <4>1. execution' = [execution EXCEPT ![e] = execution'[e]]
        BY <2>t, <3>2, <3>3
      <4> QED
        BY <2>t, <3>5, <4>1
    <3> QED
      BY <3>6, <3>7, <3>8
  <2>3. UNCHANGED <<execution, leases>> \/ \E t \in Tasks : ExecutorClaim(h, t)
    BY DEF ExecutorNext, ExecutorLoad, ExecutorConclude, ExecutorConflict, ExecutorEnd,
           ExecutorMarkReady, Conflict, store
  <2> QED
    BY <2>1, <2>2, <2>3
<1>8. TypeOK'
  <2>1. executor' \in [Hosts -> ExecutorType]
    BY <1>t, <1>5
  <2> QED
    BY <1>1, <1>2, <1>7, <2>1, StoreTyped DEF ServiceInv, TypeOK, ExecutorType
<1>9. Budget'
  <2>1. /\ Askers' = Askers /\ Interrupters' = Interrupters /\ faults' = faults
        /\ faults' \in 0 .. MaxFaults /\ faults <= faults'
    BY <1>2, MaxFaultsAssumption DEF Askers, Interrupters, ServiceInv, TypeOK
  <2> QED
    BY <1>1, <2>1, BudgetKept
<1> QED
  BY <1>1, <1>2, <1>6, <1>7, <1>8, <1>9, StarterKept, RequestKept, LifecycleStep DEF ServiceInv

\* An execution by itself: the invocation ends, the result is recorded or tried again.
LEMMA ExecutionStep ==
  ASSUME ServiceInv, NEW e \in ExecutionIds,
         \/ \E outcome \in {"success", "failure"} : InvocationEnds(e, outcome)
         \/ ExecutionLoad(e) \/ ExecutionRecord(e) \/ ExecutionRetriesRecord(e)
  PROVE  ServiceInv'
<1> DEFINE ExecutionType ==
             [pc      : {"unused", "invoking", "load", "commit", "done", "lost"},
              host    : Hosts \cup {None}, outcome : {"success", "failure"} \cup {None},
              view    : View, tries : 0 .. CommitAttempts - 1]
           x  == execution[e]
           x2 == execution'[e]
           Moved ==
             /\ x2 \in ExecutionType /\ execution' = [execution EXCEPT ![e] = x2]
             /\ settled' \in {settled, settled \cup {e}}
             /\ ExecutionOK(e)'
<1>t. /\ execution \in [ExecutionIds -> ExecutionType] /\ x \in ExecutionType
      /\ ExecutionOK(e) /\ run \in Snapshot /\ Known(run, run) /\ None \in View
      /\ 0 \in 0 .. CommitAttempts - 1
  BY CommitAttemptsAssumption, StoredIsKnown DEF ServiceInv, TypeOK, View
<1>1. [P!Uninterrupting]_(P!vars) /\ [P!Next]_(P!vars)
  BY ExecutionSimulation, LifecycleMoves, ConflictStutters
     DEF InvocationEnds, ExecutionLoad, ExecutionRetriesRecord
<1>2. UNCHANGED <<leases, host, faults, starter, request, recovery, listed, executor>>
  BY DEF InvocationEnds, ExecutionLoad, ExecutionRecord, ExecutionRetriesRecord, Conflict, store
<1>3. Moved
  <2>1. ASSUME NEW outcome \in {"success", "failure"}, InvocationEnds(e, outcome) PROVE Moved
    <3>1. /\ x.pc = "invoking" /\ UNCHANGED store
          /\ execution' = [execution EXCEPT ![e].pc = "load", ![e].outcome = outcome]
      BY <2>1 DEF InvocationEnds
    <3>2. x2 = [x EXCEPT !.pc = "load", !.outcome = outcome]
      BY <1>t, <3>1
    <3> QED
      BY <1>t, <1>2, <3>1, <3>2 DEF ExecutionOK, store
  <2>2. CASE ExecutionLoad(e)
    <3>1. /\ x.pc = "load" /\ UNCHANGED store
          /\ execution' = [execution EXCEPT ![e].pc = "commit", ![e].view = run]
      BY <2>2 DEF ExecutionLoad, ExecutionMoves
    <3>2. x2 = [x EXCEPT !.pc = "commit", !.view = run]
      BY <1>t, <3>1
    <3> QED
      BY <1>t, <1>2, <3>1, <3>2 DEF ExecutionOK, store, View
  <2>3. CASE ExecutionRecord(e)
    <3>1. /\ x.pc = "commit" /\ settled' = settled \cup {e}
          /\ execution' = [execution EXCEPT ![e] = Ended(@, "done")]
      BY <2>3 DEF ExecutionRecord
    <3>2. x2 = [x EXCEPT !.pc = "done", !.outcome = None, !.view = None, !.tries = 0]
      BY <1>t, <3>1 DEF Ended
    <3> QED
      BY <1>t, <1>2, <3>1, <3>2 DEF ExecutionOK, Ended
  <2>4. CASE ExecutionRetriesRecord(e)
    <3>1. /\ x.pc = "commit" /\ UNCHANGED store /\ x.tries + 1 < CommitAttempts
          /\ execution' =
               [execution EXCEPT ![e].pc = "load", ![e].view = None, ![e].tries = @ + 1]
      BY <2>4 DEF ExecutionRetriesRecord, Conflict
    <3>2. x2 = [x EXCEPT !.pc = "load", !.view = None, !.tries = x.tries + 1]
      BY <1>t, <3>1
    <3>3. x.tries + 1 \in 0 .. CommitAttempts - 1
      BY <1>t, <3>1, CommitAttemptsAssumption
    <3> QED
      BY <1>t, <1>2, <3>1, <3>2, <3>3 DEF ExecutionOK, store
  <2> QED
    BY <2>1, <2>2, <2>3, <2>4
<1> HIDE DEF ExecutionType, x2
<1>4. ASSUME NEW f \in ExecutionIds PROVE ExecutionOK(f)'
  <2>1. CASE f # e
    <3>1. execution'[f] = execution[f] /\ (f \in settled' <=> f \in settled)
      BY <1>t, <1>3, <2>1
    <3> QED
      BY <1>1, <1>2, <3>1, ExecutionKept
  <2> QED
    BY <1>3, <2>1
<1>5. TypeOK'
  <2>1. execution' \in [ExecutionIds -> ExecutionType]
    BY <1>t, <1>3
  <2> QED
    BY <1>1, <1>2, <2>1, StoreTyped DEF ServiceInv, TypeOK, ExecutionType
<1>6. \A h \in Hosts : HostOK(h)'
  BY <1>1, <1>2, HostKept
<1>7. Budget'
  <2>1. /\ Askers' = Askers /\ Interrupters' = Interrupters /\ faults' = faults
        /\ faults' \in 0 .. MaxFaults /\ faults <= faults'
    BY <1>2, MaxFaultsAssumption DEF Askers, Interrupters, ServiceInv, TypeOK
  <2> QED
    BY <1>1, <2>1, BudgetKept
<1> QED
  BY <1>1, <1>2, <1>4, <1>5, <1>6, <1>7, StarterKept, RequestKept, LifecycleStep DEF ServiceInv

\* The executions of a worker or a host that dies are lost, and leave nothing behind.
LEMMA ExecutionsLost ==
  ASSUME ServiceInv, NEW h \in Hosts, LoseExecutions(h), UNCHANGED store,
         \A i \in Hosts \ {h} : host'[i] = host[i]
  PROVE  /\ execution' \in [ExecutionIds ->
              [pc      : {"unused", "invoking", "load", "commit", "done", "lost"},
               host    : Hosts \cup {None}, outcome : {"success", "failure"} \cup {None},
               view    : View, tries : 0 .. CommitAttempts - 1]]
         /\ \A e \in ExecutionIds : ExecutionOK(e)'
<1> DEFINE ExecutionType ==
             [pc      : {"unused", "invoking", "load", "commit", "done", "lost"},
              host    : Hosts \cup {None}, outcome : {"success", "failure"} \cup {None},
              view    : View, tries : 0 .. CommitAttempts - 1]
<1>t. /\ execution \in [ExecutionIds -> ExecutionType] /\ None \in View
      /\ 0 \in 0 .. CommitAttempts - 1
  BY CommitAttemptsAssumption DEF ServiceInv, TypeOK, View
<1>1. ASSUME NEW e \in ExecutionIds
      PROVE  execution'[e] \in ExecutionType /\ ExecutionOK(e)'
  <2>1. CASE e \in ExecutionsOn(h)
    <3>1. execution'[e] =
            [execution[e] EXCEPT !.pc = "lost", !.outcome = None, !.view = None, !.tries = 0]
      BY <2>1 DEF LoseExecutions, Ended
    <3>2. execution[e].host = h /\ leases[e] # None
      BY <2>1 DEF ExecutionsOn, Finished, ServiceInv, ExecutionOK
    <3>3. execution[e] \in ExecutionType
      BY <1>t
    <3>4. /\ execution'[e] \in ExecutionType /\ execution'[e].pc = "lost"
          /\ execution'[e].host = h /\ execution'[e].view = None
      BY <1>t, <3>1, <3>2, <3>3
    <3> HIDE DEF ExecutionType
    <3> QED
      BY <3>2, <3>4 DEF ExecutionOK, store
  <2>2. CASE e \notin ExecutionsOn(h)
    <3>1. execution'[e] = execution[e]
      BY <2>2 DEF LoseExecutions
    <3>2. execution[e].pc \in {"invoking", "load", "commit"} =>
            execution[e].host \in Hosts \ {h}
      BY <2>2 DEF ExecutionsOn, Finished, ServiceInv, ExecutionOK
    <3>3. [P!Next]_(P!vars)
      BY LifecycleMoves
    <3> QED
      BY <1>t, <3>1, <3>2, <3>3, ExecutionKept DEF store
  <2> QED
    BY <2>1, <2>2
<1> HIDE DEF ExecutionType
<1>2. execution' \in [ExecutionIds -> ExecutionType]
  BY <1>1 DEF LoseExecutions
<1> QED
  BY <1>1, <1>2 DEF ExecutionType

LEMMA WorkerDiesStep ==
  ASSUME ServiceInv, NEW h \in Hosts, host[h] = "serving", WorkerDies(h),
         UNCHANGED <<store, starter, request, recovery>>, faults' \in 0 .. MaxFaults,
         faults <= faults'
  PROVE  ServiceInv'
<1>t. /\ host \in [Hosts -> {"down", "recovering", "serving", "workerless"}]
      /\ listed \in [Hosts -> BOOLEAN]
      /\ executor \in [Hosts -> [pc : {"idle", "load", "commit", "drain"}, view : View]]
  BY DEF ServiceInv, TypeOK
<1>1. [P!Uninterrupting]_(P!vars) /\ [P!Next]_(P!vars)
  BY LifecycleMoves
<1>2. /\ host' = [host EXCEPT ![h] = "workerless"]
      /\ executor' = [executor EXCEPT ![h] = NoExecutor]
      /\ listed' = [listed EXCEPT ![h] = FALSE]
      /\ LoseExecutions(h)
  BY DEF WorkerDies
<1>3. TypeOK'
  <2>1. NoExecutor \in [pc : {"idle", "load", "commit", "drain"}, view : View]
    BY DEF NoExecutor, View
  <2>2. /\ host' \in [Hosts -> {"down", "recovering", "serving", "workerless"}]
        /\ listed' \in [Hosts -> BOOLEAN]
        /\ executor' \in [Hosts -> [pc : {"idle", "load", "commit", "drain"}, view : View]]
    BY <1>t, <1>2, <2>1
  <2>3. execution' \in [ExecutionIds ->
              [pc      : {"unused", "invoking", "load", "commit", "done", "lost"},
               host    : Hosts \cup {None}, outcome : {"success", "failure"} \cup {None},
               view    : View, tries : 0 .. CommitAttempts - 1]]
    BY <1>t, <1>2, ExecutionsLost
  <2> QED
    BY <1>1, <2>2, <2>3, StoreTyped DEF ServiceInv, TypeOK
<1>4. ASSUME NEW i \in Hosts PROVE HostOK(i)'
  <2>1. CASE i = h
    <3>1. recovery[h].pc = "idle" /\ recovery[h].view = None
      BY DEF ServiceInv, HostOK
    <3>2. host'[h] = "workerless" /\ executor'[h] = NoExecutor /\ listed'[h] = FALSE
      BY <1>t, <1>2
    <3> QED
      BY <2>1, <3>1, <3>2 DEF HostOK, NoExecutor
  <2>2. CASE i # h
    <3>1. UNCHANGED <<host[i], recovery[i], listed[i], executor[i]>>
      BY <1>t, <1>2, <2>2
    <3> QED
      BY <1>1, <3>1, HostKept
  <2> QED
    BY <2>1, <2>2
<1>5. \A e \in ExecutionIds : ExecutionOK(e)'
  BY <1>t, <1>2, ExecutionsLost
<1>6. Budget'
  <2>1. Askers' = Askers /\ Interrupters' \subseteq Interrupters
    BY <1>t, <1>2 DEF Askers, Interrupters
  <2> QED
    BY <1>1, <2>1, BudgetKept
<1> QED
  BY <1>1, <1>3, <1>4, <1>5, <1>6, StarterKept, RequestKept, LifecycleStep DEF ServiceInv

LEMMA CrashStep ==
  ASSUME ServiceInv, NEW h \in Hosts, Crash(h)
  PROVE  ServiceInv'
<1> DEFINE RequestType ==
             [pc      : {"idle", "load", "list", "commit", "done", "rejected", "conflict", "lost"},
              command : Commands \cup {None},
              host    : Hosts \cup {None}, view : View,
              tries   : 0 .. CommitAttempts, cursor : Nat]
           RecoveryType == [pc : {"idle", "load", "commit"}, view : View, tries : 0 .. CommitAttempts]
           ExecutorType == [pc : {"idle", "load", "commit", "drain"}, view : View]
           HostStates   == {"down", "recovering", "serving", "workerless"}
<1>t. /\ host \in [Hosts -> HostStates] /\ recovery \in [Hosts -> RecoveryType]
      /\ listed \in [Hosts -> BOOLEAN] /\ executor \in [Hosts -> ExecutorType]
      /\ request \in [Requests -> RequestType] /\ None \in View
      /\ NoExecutor \in ExecutorType /\ NoRecovery \in RecoveryType
  BY CommitAttemptsAssumption DEF ServiceInv, TypeOK, View, NoExecutor, NoRecovery
<1>1. [P!Uninterrupting]_(P!vars) /\ [P!Next]_(P!vars) /\ UNCHANGED store
  BY LifecycleMoves DEF Crash
<1>2. /\ host' = [host EXCEPT ![h] = "down"]
      /\ recovery' = [recovery EXCEPT ![h] = NoRecovery]
      /\ listed' = [listed EXCEPT ![h] = FALSE]
      /\ executor' = [executor EXCEPT ![h] = NoExecutor]
      /\ LoseExecutions(h)
  BY DEF Crash
<1>3. /\ faults' = faults + 1 /\ faults' \in 0 .. MaxFaults
  <2>1. faults < MaxFaults /\ faults' = faults + 1 /\ faults \in 0 .. MaxFaults
    BY DEF Crash, ServiceInv, TypeOK
  <2> QED
    BY <2>1, MaxFaultsAssumption
<1>4. StarterOK' /\ starter' \in [pc   : {"plan", "start", "done", "conflict", "lost"},
                                  host : Hosts, view : View]
  <2>1. starter \in [pc   : {"plan", "start", "done", "conflict", "lost"},
                     host : Hosts, view : View]
    BY DEF ServiceInv, TypeOK
  <2>2. CASE UNCHANGED starter
    BY <1>1, <2>1, <2>2, StarterKept
  <2>3. CASE starter' = [starter EXCEPT !.pc = "lost", !.view = None]
    BY <1>t, <2>1, <2>3 DEF StarterOK
  <2> QED
    BY <2>2, <2>3 DEF Crash
<1>5. ASSUME NEW r \in Requests
      PROVE  /\ request'[r] \in RequestType /\ RequestOK(r)'
             /\ request'[r].pc \in Waiting => request[r].pc \in Waiting
  <2>1. request[r] \in RequestType
    BY <1>t
  <2>2. CASE request'[r] = request[r]
    BY <1>1, <2>1, <2>2, RequestKept
  <2>3. CASE request'[r] = [request[r] EXCEPT !.pc = "lost", !.view = None]
    <3>1. /\ request'[r] \in RequestType /\ request'[r].pc = "lost"
          /\ request'[r].view = None
      <4>1. None \in View
        BY DEF View
      <4> QED
        BY <2>1, <2>3, <4>1
    <3> HIDE DEF RequestType
    <3> QED
      BY <3>1 DEF RequestOK, Waiting
  <2> QED
    BY <2>2, <2>3 DEF Crash
<1>6. ASSUME NEW i \in Hosts PROVE HostOK(i)'
  <2>1. CASE i = h
    <3>1. /\ recovery'[h] = NoRecovery /\ executor'[h] = NoExecutor
          /\ listed'[h] = FALSE
      BY <1>t, <1>2
    <3> QED
      BY <2>1, <3>1 DEF HostOK, NoExecutor, NoRecovery
  <2>2. CASE i # h
    <3>1. UNCHANGED <<host[i], recovery[i], listed[i], executor[i]>>
      BY <1>t, <1>2, <2>2
    <3> QED
      BY <1>1, <3>1, HostKept
  <2> QED
    BY <2>1, <2>2
<1>7. /\ \A e \in ExecutionIds : ExecutionOK(e)'
      /\ execution' \in [ExecutionIds ->
           [pc      : {"unused", "invoking", "load", "commit", "done", "lost"},
            host    : Hosts \cup {None}, outcome : {"success", "failure"} \cup {None},
            view    : View, tries : 0 .. CommitAttempts - 1]]
  BY <1>t, <1>1, <1>2, ExecutionsLost
<1>8. TypeOK'
  <2>1. request' \in [Requests -> RequestType]
    <3> HIDE DEF RequestType
    <3> QED
      BY <1>5 DEF Crash
  <2>2. /\ host' \in [Hosts -> HostStates] /\ recovery' \in [Hosts -> RecoveryType]
        /\ listed' \in [Hosts -> BOOLEAN] /\ executor' \in [Hosts -> ExecutorType]
    <3>1. "down" \in HostStates
      OBVIOUS
    <3> HIDE DEF HostStates, RecoveryType, ExecutorType
    <3> QED
      BY <1>t, <1>2, <3>1
  <2> QED
    BY <1>1, <1>3, <1>4, <1>7, <2>1, <2>2, StoreTyped DEF ServiceInv, TypeOK
<1>9. Budget'
  <2>1. Askers' \subseteq Askers /\ Interrupters' \subseteq Interrupters \cup {h}
    BY <1>t, <1>2, <1>5 DEF Askers, Interrupters
  <2> QED
    BY <1>1, <1>3, <2>1, BudgetKept
<1> QED
  BY <1>1, <1>4, <1>5, <1>6, <1>7, <1>8, <1>9, LifecycleStep DEF ServiceInv

\* Every step of every process is a step of the lifecycle or leaves the store alone.
LEMMA StepSimulation ==
  ASSUME ServiceInv, [Next]_vars
  PROVE  [P!Next]_(P!vars)
<1>1. CASE StarterNext
  BY <1>1, StarterSimulation, LifecycleMoves
<1>2. ASSUME NEW r \in Requests, RequestNext(r) PROVE [P!Next]_(P!vars)
  BY <1>2, RequestSimulation, LifecycleMoves DEF RequestNext, RequestLoad, ResumeListEvents
<1>3. ASSUME NEW h \in Hosts, RecoveryNext(h) PROVE [P!Next]_(P!vars)
  BY <1>3, RecoverySimulation, LifecycleMoves DEF RecoveryNext, RecoveryLoad
<1>4. ASSUME NEW h \in Hosts, ExecutorNext(h) PROVE [P!Next]_(P!vars)
  BY <1>4, ExecutorSimulation, LifecycleMoves
<1>5. ASSUME NEW e \in ExecutionIds, ExecutionNext(e) PROVE [P!Next]_(P!vars)
  BY <1>5, ExecutionSimulation, LifecycleMoves, ConflictStutters
     DEF ExecutionNext, InvocationEnds, ExecutionLoad, ExecutionRetriesRecord, ExecutionGivesUp
<1>6. ASSUME NEW h \in Hosts,
             WorkerList(h) \/ WorkerSpawn(h) \/ Boot(h) \/ Crash(h) \/ StoreUnavailable(h)
      PROVE  [P!Next]_(P!vars)
  BY <1>6, LifecycleMoves DEF WorkerList, WorkerSpawn, Boot, Crash, StoreUnavailable
<1>7. ASSUME NEW r \in Requests, NEW c \in Commands, NEW h \in Hosts, RequestArrives(r, c, h)
      PROVE  [P!Next]_(P!vars)
  BY <1>7, LifecycleMoves DEF RequestArrives
<1>8. CASE UNCHANGED vars
  BY <1>8, LifecycleMoves DEF vars
<1> QED
  BY <1>1, <1>2, <1>3, <1>4, <1>5, <1>6, <1>7, <1>8 DEF Next

LEMMA ServiceStep == ServiceInv /\ [Next]_vars => ServiceInv'
<1> SUFFICES ASSUME ServiceInv, [Next]_vars PROVE ServiceInv'
  OBVIOUS
<1>1. CASE StarterNext
  BY <1>1, StarterStep
<1>2. ASSUME NEW r \in Requests,
             RequestNext(r) \/ \E c \in Commands, h \in Hosts : RequestArrives(r, c, h)
      PROVE  ServiceInv'
  BY <1>2, RequestStep
<1>3. ASSUME NEW h \in Hosts, RecoveryNext(h) \/ Boot(h) \/ WorkerList(h) \/ WorkerSpawn(h)
      PROVE  ServiceInv'
  BY <1>3, HostStep
<1>4. ASSUME NEW h \in Hosts, ExecutorNext(h) PROVE ServiceInv'
  BY <1>4, ExecutorStep
<1>5. ASSUME NEW h \in Hosts, Crash(h) PROVE ServiceInv'
  BY <1>5, CrashStep
<1>6. ASSUME NEW h \in Hosts, StoreUnavailable(h) PROVE ServiceInv'
  <2>1. faults \in 0 .. MaxFaults /\ faults < MaxFaults /\ faults' = faults + 1
    BY <1>6 DEF StoreUnavailable, ServiceInv, TypeOK
  <2>2. faults' \in 0 .. MaxFaults /\ faults <= faults'
    BY <2>1, MaxFaultsAssumption
  <2> QED
    BY <1>6, <2>2, WorkerDiesStep DEF StoreUnavailable
<1>7. ASSUME NEW e \in ExecutionIds, ExecutionNext(e) PROVE ServiceInv'
  <2>1. CASE ExecutionGivesUp(e)
    <3>1. execution[e].host \in Hosts /\ host[execution[e].host] = "serving"
      BY <2>1 DEF ExecutionGivesUp, ServiceInv, ExecutionOK
    <3>2. faults' = faults /\ faults' \in 0 .. MaxFaults /\ faults <= faults'
      BY <2>1, MaxFaultsAssumption DEF ExecutionGivesUp, ServiceInv, TypeOK
    <3>3. /\ WorkerDies(execution[e].host)
          /\ UNCHANGED <<store, starter, request, recovery>>
      BY <2>1 DEF ExecutionGivesUp, Conflict
    <3> QED
      BY <3>1, <3>2, <3>3, WorkerDiesStep
  <2>2. CASE ~ ExecutionGivesUp(e)
    BY <1>7, <2>2, ExecutionStep DEF ExecutionNext
  <2> QED
    BY <2>1, <2>2
<1>8. CASE UNCHANGED vars
  <2>1. /\ UNCHANGED <<run, events, leases, settled, host, faults, starter, request, recovery,
                       listed, executor, execution>>
        /\ [P!Uninterrupting]_(P!vars) /\ [P!Next]_(P!vars)
    BY <1>8, LifecycleMoves DEF vars, store, processes
  <2>2. TypeOK'
    BY <2>1 DEF ServiceInv, TypeOK
  <2>3. Budget'
    <3>1. /\ Askers' = Askers /\ Interrupters' = Interrupters /\ faults' \in 0 .. MaxFaults
          /\ faults <= faults'
      BY <2>1, MaxFaultsAssumption DEF Askers, Interrupters, ServiceInv, TypeOK
    <3> QED
      BY <2>1, <3>1, BudgetKept
  <2> QED
    BY <2>1, <2>2, <2>3, StarterKept, RequestKept, HostKept, ExecutionKept, LifecycleStep
       DEF ServiceInv
<1> QED
  BY <1>1, <1>2, <1>3, <1>4, <1>5, <1>6, <1>7, <1>8 DEF Next

LEMMA ServiceStarts == Init => P!Init /\ ServiceInv
<1> SUFFICES ASSUME Init PROVE P!Init /\ ServiceInv
  OBVIOUS
<1>1. P!Init
  BY SameTransitions, SameEvents DEF Init, P!Init
<1>2. TypeOK
  <2>1. run \in Snapshot
    BY DEF Init, NewRun, Snapshot, RunStatus, MaybeExecution
  <2>2. events \in Seq(RunEvent)
    BY DEF Init, OnRun, RunEvent, RunEventKind, MaybeExecution
  <2>3. starter \in [pc : {"plan", "start", "done", "conflict", "lost"}, host : Hosts, view : View]
    BY <2>1 DEF Init, View
  <2>4. /\ recovery \in [Hosts -> [pc : {"idle", "load", "commit"}, view : View,
                                   tries : 0 .. CommitAttempts]]
        /\ executor \in [Hosts -> [pc : {"idle", "load", "commit", "drain"}, view : View]]
    BY CommitAttemptsAssumption DEF Init, NoRecovery, NoExecutor, View
  <2>5. request \in [Requests ->
       [pc      : {"idle", "load", "list", "commit", "done", "rejected", "conflict", "lost"},
        command : Commands \cup {None},
        host    : Hosts \cup {None}, view : View,
        tries   : 0 .. CommitAttempts, cursor : Nat]]
    BY CommitAttemptsAssumption DEF Init, View
  <2>6. execution \in [ExecutionIds ->
       [pc      : {"unused", "invoking", "load", "commit", "done", "lost"},
        host    : Hosts \cup {None}, outcome : {"success", "failure"} \cup {None},
        view    : View, tries : 0 .. CommitAttempts - 1]]
    BY CommitAttemptsAssumption DEF Init, View
  <2>7. /\ leases \in [ExecutionIds -> Lease \cup {None}] /\ settled \subseteq ExecutionIds
        /\ host \in [Hosts -> {"down", "recovering", "serving", "workerless"}]
        /\ listed \in [Hosts -> BOOLEAN]
    BY DEF Init
  <2>8. faults \in 0 .. MaxFaults
    BY MaxFaultsAssumption DEF Init
  <2> QED
    BY <2>1, <2>2, <2>3, <2>4, <2>5, <2>6, <2>7, <2>8 DEF TypeOK
<1>3. P!PlanKnown
  BY SameSets DEF Init, P!PlanKnown, NewRun
<1>4. StarterOK
  BY <1>2, StoredIsKnown DEF TypeOK, Init, StarterOK, NewRun
<1>5. \A r \in Requests : RequestOK(r)
  BY CommitAttemptsAssumption DEF Init, RequestOK, Waiting
<1>6. \A h \in Hosts : HostOK(h)
  BY DEF Init, HostOK, NoRecovery, NoExecutor
<1>7. \A e \in ExecutionIds : ExecutionOK(e)
  BY DEF Init, ExecutionOK
<1>8. Budget
  <2>1. {i \in 1 .. Len(events) : events[i].kind \in {"run.paused", "run.recovered"}} = {}
    BY DEF Init, OnRun
  <2>2. P!Interruptions = 0
    BY <2>1, SameCardinality, FS_EmptySet DEF P!Interruptions
  <2>3. Interrupters \subseteq Hosts /\ Askers \subseteq Requests
    BY DEF Interrupters, Askers
  <2>4. /\ Cardinality(Interrupters) \in Nat /\ Cardinality(Interrupters) <= Cardinality(Hosts)
        /\ Cardinality(Askers) \in Nat /\ Cardinality(Askers) <= Cardinality(Requests)
        /\ Cardinality(Hosts) \in Nat /\ Cardinality(Requests) \in Nat
    BY <2>3, RequestsAssumption, FS_Subset, FS_CardinalityType
  <2> QED
    BY <2>2, <2>4 DEF Budget, Init
<1> QED
  BY <1>1, <1>2, <1>3, <1>4, <1>5, <1>6, <1>7, <1>8 DEF ServiceInv

LEMMA ServiceInvariant == Spec => []ServiceInv
BY ServiceStarts, ServiceStep, PTL DEF Spec

(***************************************************************************)
(* What follows                                                            *)
(***************************************************************************)

\* Each process is where its program can be, and holds what it loaded: the typing of
\* every process of RuntimeService.
THEOREM ServiceTypeCorrect == Spec => []TypeOK
<1>1. ServiceInv => TypeOK
  BY DEF ServiceInv
<1> QED
  BY <1>1, ServiceInvariant, PTL

\* Comparing versions is comparing snapshots, for every snapshot a process holds.
THEOREM VersionsIdentify == Spec => []VersionIdentifiesSnapshot
<1>1. ServiceInv => VersionIdentifiesSnapshot
  <2> SUFFICES ASSUME ServiceInv, NEW view \in Views, view # None
               PROVE  Known(view, run)
    BY DEF VersionIdentifiesSnapshot, Known
  <2>1. CASE view = starter.view
    BY <2>1 DEF ServiceInv, StarterOK
  <2>2. ASSUME NEW r \in Requests, view = request[r].view PROVE Known(view, run)
    BY <2>2 DEF ServiceInv, RequestOK
  <2>3. ASSUME NEW h \in Hosts, view \in {recovery[h].view, executor[h].view}
        PROVE  Known(view, run)
    BY <2>3 DEF ServiceInv, HostOK
  <2>4. ASSUME NEW e \in ExecutionIds, view = execution[e].view PROVE Known(view, run)
    BY <2>4 DEF ServiceInv, ExecutionOK
  <2>5. \/ view = starter.view
        \/ \E r \in Requests : view = request[r].view
        \/ \E h \in Hosts : view \in {recovery[h].view, executor[h].view}
        \/ \E e \in ExecutionIds : view = execution[e].view
    BY DEF Views
  <2> QED
    BY <2>1, <2>2, <2>3, <2>4, <2>5
<1> QED
  BY <1>1, ServiceInvariant, PTL

\* The service's runs, seen through the stored run, are runs of the lifecycle.
LEMMA ServiceIsLifecycle == Spec => P!Spec
BY ServiceStarts, StepSimulation, ServiceInvariant, PTL DEF Spec, P!Spec

\* The detailed specification implements the abstract one: whatever the processes
\* interleave and whoever crashes, every commit is a step of the lifecycle.
THEOREM ServiceImplementsLifecycle == Spec => ImplementsLifecycle
<1>1. P!Spec => Lifecycle!Spec
  BY SameLifecycle, PTL DEF P!Spec, Lifecycle!Spec
<1> QED
  BY <1>1, ServiceIsLifecycle DEF ImplementsLifecycle

\* The answer to a resume starts with the event of that very resume.
THEOREM ResumeIsAnswered == Spec => ResumeAnswersFromItsEvent
<1> DEFINE Answered ==
             \A r \in Requests :
               request[r].command = "resume" /\ request[r].pc = "commit" /\ request'[r].pc = "done" =>
                 SubSeq(events', request[r].cursor + 1, Len(events')) = <<OnRun("run.resumed")>>
<1>1. ServiceInv /\ [Next]_vars => [Answered]_vars
  <2> SUFFICES ASSUME ServiceInv, Next, NEW r \in Requests, request[r].command = "resume",
                      request[r].pc = "commit", request'[r].pc = "done"
               PROVE  SubSeq(events', request[r].cursor + 1, Len(events'))
                        = <<OnRun("run.resumed")>>
    OBVIOUS
  <2>1. request \in [Requests ->
       [pc      : {"idle", "load", "list", "commit", "done", "rejected", "conflict", "lost"},
        command : Commands \cup {None},
        host    : Hosts \cup {None}, view : View,
        tries   : 0 .. CommitAttempts, cursor : Nat]]
    BY DEF ServiceInv, TypeOK
  <2>2. RequestCommit(r)
    <3>1. ~ UNCHANGED request
      OBVIOUS
    <3>2. ASSUME NEW h \in Hosts, Crash(h) PROVE FALSE
      <4>1. request'[r] \in {request[r], [request[r] EXCEPT !.pc = "lost", !.view = None]}
        BY <3>2 DEF Crash
      <4> QED
        BY <2>1, <4>1
    <3>3. ASSUME NEW p \in Requests, p # r,
                 RequestNext(p) \/ \E c \in Commands, h \in Hosts : RequestArrives(p, c, h)
          PROVE  FALSE
      <4>1. request'[r] = request[r]
        BY <2>1, <3>3 DEF RequestNext, RequestLoad, ResumeListEvents, RequestCommit,
                          RequestArrives, RequestMoves
      <4> QED
        BY <4>1
    <3>4. ~ RequestLoad(r) /\ ~ ResumeListEvents(r)
          /\ \A c \in Commands, h \in Hosts : ~ RequestArrives(r, c, h)
      BY DEF RequestLoad, ResumeListEvents, RequestArrives
    <3>5. StarterNext => UNCHANGED request
      BY DEF StarterNext, StarterPlan, StarterStart
    <3>6. \A h \in Hosts :
            RecoveryNext(h) \/ WorkerList(h) \/ WorkerSpawn(h) \/ ExecutorNext(h) \/ Boot(h)
              \/ StoreUnavailable(h) => UNCHANGED request
      BY DEF RecoveryNext, RecoveryLoad, RecoveryCommit, WorkerList, WorkerSpawn, Boot,
             StoreUnavailable, ExecutorNext, ExecutorLoad, ExecutorConclude, ExecutorConflict,
             ExecutorEnd, ExecutorMarkReady, ExecutorClaim
    <3>7. \A e \in ExecutionIds : ExecutionNext(e) => UNCHANGED request
      BY DEF ExecutionNext, InvocationEnds, ExecutionLoad, ExecutionRecord,
             ExecutionRetriesRecord, ExecutionGivesUp
    <3> QED
      BY <3>1, <3>2, <3>3, <3>4, <3>5, <3>6, <3>7 DEF Next, RequestNext
  <2>3. CommitFrom(request[r].view, Commanded("resume", request[r].view),
                   <<CommandEvent("resume")>>)
    <3>1. CASE request' = [request EXCEPT
                 ![r].pc    = IF request[r].tries + 1 < CommitAttempts THEN "load" ELSE "conflict",
                 ![r].view  = None,
                 ![r].tries = @ + 1]
      BY <2>1, <3>1
    <3> QED
      BY <2>2, <3>1 DEF RequestCommit
  <2>4. request[r].view.version = run.version
    BY <2>3 DEF CommitFrom, Accepted
  <2>5. request[r].cursor = Len(events)
    BY <2>4 DEF ServiceInv, RequestOK
  <2>6. events' = events \o <<OnRun("run.resumed")>>
    BY <2>3 DEF CommitFrom, CommandEvent
  <2>7. events \in Seq(RunEvent)
    BY DEF ServiceInv, TypeOK
  <2> DEFINE event == OnRun("run.resumed")
             answer == SubSeq(events', Len(events) + 1, Len(events'))
  <2>8. /\ Len(events) \in Nat /\ events' \in Seq(RunEvent)
        /\ Len(events') = Len(events) + 1 /\ events'[Len(events) + 1] = event
    BY <2>6, <2>7 DEF OnRun, RunEvent, RunEventKind, MaybeExecution
  <2>9. answer \in Seq(RunEvent) /\ Len(answer) = 1 /\ answer[1] = event
    BY <2>8, SubSeqProperties
  <2>10. <<event>> \in Seq(RunEvent)
    BY DEF OnRun, RunEvent, RunEventKind, MaybeExecution
  <2>11. Len(<<event>>) = 1 /\ <<event>>[1] = event
    OBVIOUS
  <2>12. answer = <<event>>
    <3> HIDE DEF answer, event
    <3> QED
      BY <2>9, <2>10, <2>11, SeqEqual
  <2> QED
    BY <2>5, <2>12
<1> QED
  BY <1>1, ServiceInvariant, PTL DEF Spec, ResumeAnswersFromItsEvent

(***************************************************************************)
(* Abandoned leases                                                        *)
(***************************************************************************)

\* The lifecycle's leases hold of the stored run.
LEMMA StoredLeases == Spec => []P!LeaseTable
BY LifecycleAssumptions, ServiceIsLifecycle, P!LeasesAreExact, PTL
   DEF P!TaskCountAssumption, P!PlansAssumption, P!ArtifactTasksAssumption,
       P!MaxConcurrencyAssumption, P!NoneAssumption, P!LeaseAssumption,
       P!MaxInterruptionsAssumption

\* A lost execution still named by a task ran on a host that does not serve.
Deserted ==
  \A t \in InFlight(run) :
    LET e == run.task_execution_ids[t]
    IN  execution[e].pc = "lost" => host[execution[e].host] # "serving"

\* An execution is lost with its host or its worker, which then does not serve; and a
\* host serves again only when the run has no task in flight.
LEMMA LostAndServing ==
  ASSUME ServiceInv, P!LeaseTable, [Next]_vars,
         NEW e \in ExecutionIds, execution'[e].pc = "lost",
         host'[execution'[e].host] = "serving"
  PROVE  /\ execution[e].pc = "lost"
         /\ \/ execution'[e].host = execution[e].host /\ host[execution[e].host] = "serving"
            \/ InFlight(run') = {}
<1> DEFINE Goal == /\ execution[e].pc = "lost"
                   /\ \/ /\ execution'[e].host = execution[e].host
                         /\ host[execution[e].host] = "serving"
                      \/ InFlight(run') = {}
<1>t. /\ host \in [Hosts -> {"down", "recovering", "serving", "workerless"}]
      /\ execution \in [ExecutionIds ->
           [pc      : {"unused", "invoking", "load", "commit", "done", "lost"},
            host    : Hosts \cup {None}, outcome : {"success", "failure"} \cup {None},
            view    : View, tries : 0 .. CommitAttempts - 1]]
      /\ execution[e].pc = "lost" => execution[e].host \in Hosts
  BY DEF ServiceInv, TypeOK, ExecutionOK
<1>1. ASSUME UNCHANGED <<host, execution>> PROVE Goal
  BY <1>1
<1>2. ASSUME NEW h \in Hosts, NEW state \in {"down", "workerless"}, LoseExecutions(h),
             host' = [host EXCEPT ![h] = state]
      PROVE  Goal
  <2>1. CASE e \in ExecutionsOn(h)
    <3>1. execution'[e].host = h
      <4>1. execution'[e] = [execution[e] EXCEPT !.pc = "lost", !.outcome = None, !.view = None,
                                                 !.tries = 0]
        BY <1>2, <2>1 DEF LoseExecutions, Ended
      <4>2. execution[e].host = h
        BY <2>1 DEF ExecutionsOn
      <4> QED
        BY <1>t, <4>1, <4>2
    <3> QED
      BY <1>t, <1>2, <3>1
  <2>2. CASE e \notin ExecutionsOn(h)
    <3>1. execution'[e] = execution[e]
      BY <1>2, <2>2 DEF LoseExecutions
    <3>2. execution[e].pc = "lost" /\ execution[e].host \in Hosts
      BY <1>t, <3>1
    <3> QED
      BY <1>t, <1>2, <3>1, <3>2
  <2> QED
    BY <2>1, <2>2
<1>3. ASSUME NEW h \in Hosts, NEW state, UNCHANGED execution,
             host' = [host EXCEPT ![h] = state], state = "serving" => InFlight(run') = {}
      PROVE  Goal
  BY <1>t, <1>3
<1>4. ASSUME NEW f \in ExecutionIds, NEW pc \in {"invoking", "load", "commit", "done"},
             UNCHANGED host, execution' = [execution EXCEPT ![f] = execution'[f]],
             execution'[f].pc = pc
      PROVE  Goal
  BY <1>t, <1>4
<1>5. ASSUME StarterNext PROVE Goal
  BY <1>1, <1>5 DEF StarterNext, StarterPlan, StarterStart
<1>6. ASSUME NEW r \in Requests,
             RequestNext(r) \/ \E c \in Commands, h \in Hosts : RequestArrives(r, c, h)
      PROVE  Goal
  BY <1>1, <1>6 DEF RequestNext, RequestLoad, ResumeListEvents, RequestCommit, RequestArrives
<1>7. ASSUME NEW h \in Hosts, RecoveryLoad(h) PROVE Goal
  <2>1. CASE UNCHANGED host
    BY <1>1, <1>7, <2>1 DEF RecoveryLoad
  <2>2. CASE run.status # "running" /\ host' = [host EXCEPT ![h] = "serving"]
    <3>1. InFlight(run) = {}
      BY <2>2, SameSets DEF P!LeaseTable, InFlight
    <3> QED
      BY <1>3, <1>7, <2>2, <3>1 DEF RecoveryLoad, store
  <2> QED
    BY <1>7, <2>1, <2>2 DEF RecoveryLoad
<1>8. ASSUME NEW h \in Hosts, RecoveryCommit(h) PROVE Goal
  <2>1. CASE P!Recover /\ host' = [host EXCEPT ![h] = "serving"]
    <3>1. InFlight(run') = {}
      <4>1. P!Recover => \A t \in P!Tasks : run'.task_statuses[t] # "running"
        BY <2>1, LifecycleAssumptions, LifecycleTypes, LifecycleMoves, P!LeaseHolders
           DEF ServiceInv, P!TaskCountAssumption, P!PlansAssumption,
               P!ArtifactTasksAssumption, P!MaxConcurrencyAssumption, P!NoneAssumption,
               P!LeaseAssumption, P!MaxInterruptionsAssumption
      <4> QED
        BY <2>1, <4>1, SameSets DEF InFlight
    <3> QED
      BY <1>3, <1>8, <2>1, <3>1 DEF RecoveryCommit
  <2>2. CASE UNCHANGED P!vars
    <3>1. ~ CommitFrom(recovery[h].view, Paused(recovery[h].view), <<OnRun("run.recovered")>>)
      <4>1. run \in Snapshot /\ run.version \in Nat
        BY DEF ServiceInv, TypeOK, Snapshot
      <4> QED
        BY <2>2, <4>1 DEF CommitFrom, Accepted, P!vars, Paused, Snapshot
    <3>2. UNCHANGED execution /\ \/ UNCHANGED host
                                 \/ host' = [host EXCEPT ![h] = "down"]
      BY <1>8, <3>1 DEF RecoveryCommit
    <3> QED
      BY <1>1, <1>3, <3>2
  <2> QED
    BY <1>8, <2>1, <2>2, RecoverySimulation
<1>9. ASSUME NEW h \in Hosts, Boot(h) PROVE Goal
  BY <1>3, <1>9 DEF Boot
<1>10. ASSUME NEW h \in Hosts, WorkerList(h) \/ WorkerSpawn(h) PROVE Goal
  BY <1>1, <1>10 DEF WorkerList, WorkerSpawn
<1>11. ASSUME NEW h \in Hosts, Crash(h) PROVE Goal
  BY <1>2, <1>11 DEF Crash
<1>12. ASSUME NEW h \in Hosts, StoreUnavailable(h) PROVE Goal
  BY <1>2, <1>12 DEF StoreUnavailable, WorkerDies
<1>13. ASSUME NEW h \in Hosts, ExecutorNext(h) PROVE Goal
  <2>1. ASSUME NEW t \in Tasks, ExecutorClaim(h, t) PROVE Goal
    <3>1. PICK f \in ExecutionIds : f = FreshExecutionId
      BY <2>1 DEF ExecutorClaim, Unclaimed, FreshExecutionId
    <3>2. UNCHANGED host /\ execution' = [execution EXCEPT ![f].pc = "invoking", ![f].host = h]
      BY <2>1, <3>1 DEF ExecutorClaim
    <3>3. execution'[f].pc = "invoking" /\ execution' = [execution EXCEPT ![f] = execution'[f]]
      BY <1>t, <3>2
    <3> QED
      BY <1>4, <3>2, <3>3
  <2>2. CASE UNCHANGED <<host, execution>>
    BY <1>1, <2>2
  <2> QED
    BY <1>13, <2>1, <2>2
       DEF ExecutorNext, ExecutorLoad, ExecutorConclude, ExecutorConflict, ExecutorEnd,
           ExecutorMarkReady
<1>14. ASSUME NEW f \in ExecutionIds, ExecutionNext(f) PROVE Goal
  <2>1. CASE ExecutionGivesUp(f)
    <3>1. execution[f].host \in Hosts
      BY <2>1 DEF ExecutionGivesUp, ServiceInv, ExecutionOK
    <3> QED
      BY <1>2, <2>1, <3>1 DEF ExecutionGivesUp, WorkerDies
  <2>2. CASE ~ ExecutionGivesUp(f)
    <3> DEFINE Moved(pc) == /\ UNCHANGED host
                            /\ execution' = [execution EXCEPT ![f] = execution'[f]]
                            /\ execution'[f].pc = pc
    <3>1. ASSUME NEW outcome, InvocationEnds(f, outcome) PROVE Moved("load")
      <4>1. /\ UNCHANGED host
            /\ execution' = [execution EXCEPT ![f].pc = "load", ![f].outcome = outcome]
        BY <3>1 DEF InvocationEnds
      <4>2. execution'[f] = [execution[f] EXCEPT !.pc = "load", !.outcome = outcome]
        BY <1>t, <4>1
      <4>3. execution'[f].pc = "load"
        BY <1>t, <4>2
      <4> QED
        BY <4>1, <4>2, <4>3
    <3>2. ASSUME ExecutionLoad(f) PROVE Moved("commit")
      <4>1. /\ UNCHANGED host
            /\ execution' = [execution EXCEPT ![f].pc = "commit", ![f].view = run]
        BY <3>2 DEF ExecutionLoad, ExecutionMoves
      <4>2. execution'[f] = [execution[f] EXCEPT !.pc = "commit", !.view = run]
        BY <1>t, <4>1
      <4>3. execution'[f].pc = "commit"
        BY <1>t, <4>2
      <4> QED
        BY <4>1, <4>2, <4>3
    <3>3. ExecutionRecord(f) => Moved("done")
      BY <1>t DEF ExecutionRecord, Ended
    <3>4. ExecutionRetriesRecord(f) => Moved("load")
      BY <1>t DEF ExecutionRetriesRecord
    <3>5. \E pc \in {"load", "commit", "done"} : Moved(pc)
      <4> HIDE DEF Moved
      <4> QED
        BY <1>14, <2>2, <3>1, <3>2, <3>3, <3>4 DEF ExecutionNext
    <3> QED
      BY <1>4, <3>5
  <2> QED
    BY <2>1, <2>2
<1>15. ASSUME UNCHANGED vars PROVE Goal
  BY <1>1, <1>15 DEF vars, processes
<1> HIDE DEF Goal
<1>16. Goal
  BY <1>5, <1>6, <1>7, <1>8, <1>9, <1>10, <1>11, <1>12, <1>13, <1>14, <1>15
     DEF Next, RecoveryNext
<1> QED
  BY <1>16 DEF Goal

LEMMA DesertedStep ==
  ServiceInv /\ P!LeaseTable /\ P!LeaseTable' /\ Deserted /\ [Next]_vars => Deserted'
<1> SUFFICES ASSUME ServiceInv, P!LeaseTable, P!LeaseTable', Deserted, [Next]_vars,
                    NEW t \in InFlight(run'), NEW e, e = run'.task_execution_ids[t],
                    execution'[e].pc = "lost", host'[execution'[e].host] = "serving"
             PROVE  FALSE
  BY DEF Deserted
<1>1. t \in Tasks /\ run'.task_statuses[t] = "running"
  BY DEF InFlight
<1>2. e \in ExecutionIds
  BY <1>1, SameSets DEF P!LeaseTable, P!Outstanding
<1>3. /\ execution[e].pc = "lost"
      /\ execution'[e].host = execution[e].host /\ host[execution[e].host] = "serving"
  BY <1>1, <1>2, LostAndServing DEF InFlight
<1>4. leases[e] # None
  BY <1>2, <1>3 DEF ServiceInv, ExecutionOK
<1>5. t \in InFlight(run) /\ run.task_execution_ids[t] = e
  <2>1. \/ run.task_statuses[t] = "running" /\ run'.task_execution_ids[t] = run.task_execution_ids[t]
        \/ run'.task_execution_ids[t] \in P!Unclaimed
    BY <1>1, SameSets, StepSimulation, LifecycleAssumptions, LifecycleTypes, P!LeaseHolders
       DEF ServiceInv, P!TaskCountAssumption, P!PlansAssumption,
           P!ArtifactTasksAssumption, P!MaxConcurrencyAssumption, P!NoneAssumption,
           P!LeaseAssumption, P!MaxInterruptionsAssumption
  <2> QED
    BY <1>1, <1>4, <2>1 DEF P!Unclaimed, InFlight
<1> QED
  BY <1>3, <1>5 DEF Deserted

\* Every lease of the stored run belongs to an execution that will report, or to one
\* that was lost on a host that has not come back to serve.
THEOREM LeasesAreRecovered == Spec => []AbandonedLeasesRecovered
<1>1. Init => Deserted
  BY DEF Init, Deserted, InFlight, NewRun
<1>2. ServiceInv /\ P!LeaseTable /\ Deserted => AbandonedLeasesRecovered
  <2> SUFFICES ASSUME ServiceInv, P!LeaseTable, Deserted, NEW t \in InFlight(run),
                      NEW e, e = run.task_execution_ids[t]
               PROVE  /\ execution[e].pc \in {"invoking", "load", "commit", "lost"}
                      /\ execution[e].pc = "lost" => host[execution[e].host] # "serving"
    BY DEF AbandonedLeasesRecovered
  <2>1. e \in ExecutionIds /\ leases[e] # None /\ e \notin settled
    BY SameSets DEF P!LeaseTable, P!Outstanding, P!Unclaimed, InFlight
  <2>2. execution[e].pc \in {"unused", "invoking", "load", "commit", "done", "lost"}
    BY <2>1 DEF ServiceInv, TypeOK
  <2> QED
    BY <2>1, <2>2 DEF ServiceInv, ExecutionOK, Deserted
<1> QED
  BY <1>1, <1>2, DesertedStep, ServiceInvariant, StoredLeases, PTL DEF Spec

(***************************************************************************)
(* What the lifecycle guarantees holds of the processes                    *)
(***************************************************************************)

\* The guarantees of the lifecycle about the stored run, its leases and its events.
LifecycleSafety ==
  /\ Lifecycle!LeaseTable
  /\ Lifecycle!LeaseEpochsDistinct
  /\ Lifecycle!WithinConcurrencyLimit
  /\ Lifecycle!DependencyOrder
  /\ Lifecycle!OutputsFromLastAttempt
  /\ Lifecycle!NeverStalls
  /\ Lifecycle!OutcomeExplained
  /\ Lifecycle!AttemptsBounded

LEMMA SameSafety ==
  /\ P!LeaseTable /\ P!LeaseEpochsDistinct /\ P!WithinConcurrencyLimit /\ P!DependencyOrder
  /\ P!OutputsFromLastAttempt /\ P!NeverStalls /\ P!OutcomeExplained /\ P!AttemptsBounded
  => LifecycleSafety
<1> USE DEF P!Tasks, Lifecycle!Tasks, P!InFlight, Lifecycle!InFlight
<1>1. P!Unclaimed = Lifecycle!Unclaimed /\ P!Outstanding = Lifecycle!Outstanding
  BY DEF P!Unclaimed, Lifecycle!Unclaimed, P!Outstanding, Lifecycle!Outstanding
<1>2. P!Interruptions = Lifecycle!Interruptions
  BY SameCardinality DEF P!Interruptions, Lifecycle!Interruptions
<1>3. P!LeaseTable => Lifecycle!LeaseTable
  BY <1>1 DEF P!LeaseTable, Lifecycle!LeaseTable
<1>4. P!LeaseEpochsDistinct => Lifecycle!LeaseEpochsDistinct
  BY <1>1 DEF P!LeaseEpochsDistinct, Lifecycle!LeaseEpochsDistinct
<1>5. P!WithinConcurrencyLimit => Lifecycle!WithinConcurrencyLimit
  BY SameCardinality DEF P!WithinConcurrencyLimit, Lifecycle!WithinConcurrencyLimit
<1>6. P!DependencyOrder => Lifecycle!DependencyOrder
  BY DEF P!DependencyOrder, Lifecycle!DependencyOrder, P!DependenciesSucceeded,
         Lifecycle!DependenciesSucceeded
<1>7. P!OutputsFromLastAttempt => Lifecycle!OutputsFromLastAttempt
  BY DEF P!OutputsFromLastAttempt, Lifecycle!OutputsFromLastAttempt
<1>8. P!NeverStalls => Lifecycle!NeverStalls
  BY DEF P!NeverStalls, Lifecycle!NeverStalls, P!AllTasksSucceeded,
         Lifecycle!AllTasksSucceeded, P!RunnableTasks, Lifecycle!RunnableTasks,
         P!DependenciesSucceeded, Lifecycle!DependenciesSucceeded
<1>9. P!OutcomeExplained => Lifecycle!OutcomeExplained
  BY DEF P!OutcomeExplained, Lifecycle!OutcomeExplained, P!AllTasksSucceeded,
         Lifecycle!AllTasksSucceeded, P!DependsOn, Lifecycle!DependsOn
<1>10. P!AttemptsBounded => Lifecycle!AttemptsBounded
  BY <1>2 DEF P!AttemptsBounded, Lifecycle!AttemptsBounded
<1> QED
  BY <1>3, <1>4, <1>5, <1>6, <1>7, <1>8, <1>9, <1>10 DEF LifecycleSafety

\* Whatever the processes interleave, whoever crashes and whatever conflicts: leases
\* are exact and never reused, the concurrency limit and the dependency order hold,
\* outputs are those of the last attempt, the scheduler never stalls, the outcome is
\* explained by the tasks, and attempts beyond the limit are paid for.
THEOREM ServiceKeepsSafety == Spec => []LifecycleSafety
<1> USE LifecycleAssumptions
    DEF P!TaskCountAssumption, P!PlansAssumption, P!ArtifactTasksAssumption,
        P!MaxConcurrencyAssumption, P!NoneAssumption, P!LeaseAssumption,
        P!MaxInterruptionsAssumption
<1>1. P!Spec => []P!LeaseTable
  BY P!LeasesAreExact
<1>2. P!Spec => []P!LeaseEpochsDistinct
  BY P!EpochsAreDistinct
<1>3. P!Spec => []P!WithinConcurrencyLimit
  BY P!ConcurrencyIsLimited
<1>4. P!Spec => []P!DependencyOrder
  BY P!DependenciesComeFirst
<1>5. P!Spec => []P!OutputsFromLastAttempt
  BY P!OutputsAreOfLastAttempt
<1>6. P!Spec => []P!NeverStalls
  BY P!SchedulerNeverStalls
<1>7. P!Spec => []P!OutcomeExplained
  BY P!OutcomeIsExplained
<1>8. P!Spec => []P!AttemptsBounded
  BY P!AttemptsAreBounded
<1> QED
  BY <1>1, <1>2, <1>3, <1>4, <1>5, <1>6, <1>7, <1>8, SameSafety, ServiceIsLifecycle, PTL

\* A succeeded task is never reopened, and a run that ended stays as it is, whichever
\* process still holds an older snapshot.
THEOREM ServiceKeepsTheEnd == Spec => Lifecycle!SucceededIsFinal /\ Lifecycle!TerminalIsFinal
<1> USE LifecycleAssumptions
    DEF P!TaskCountAssumption, P!PlansAssumption, P!ArtifactTasksAssumption,
        P!MaxConcurrencyAssumption, P!NoneAssumption, P!LeaseAssumption,
        P!MaxInterruptionsAssumption
<1>1. P!Spec => P!SucceededIsFinal
  BY P!SuccessIsFinal
<1>2. P!Spec => P!TerminalIsFinal
  BY P!EndIsFinal
<1> DEFINE Succeeded(tasks) ==
             \A t \in tasks :
               run.task_statuses[t] = "succeeded" =>
                 /\ run'.task_statuses[t] = "succeeded"
                 /\ run'.task_outputs[t] = run.task_outputs[t]
           Unchanged(terminal) ==
             run.status \in terminal => [run' EXCEPT !.version = run.version] = run
<1>3. /\ [Succeeded(P!Tasks)]_(P!vars) => [Succeeded(Lifecycle!Tasks)]_(Lifecycle!vars)
      /\ [Unchanged(P!TerminalRunStatuses)]_(P!vars)
           => [Unchanged(Lifecycle!TerminalRunStatuses)]_(Lifecycle!vars)
  BY DEF P!vars, Lifecycle!vars, P!Tasks, Lifecycle!Tasks, P!TerminalRunStatuses,
         Lifecycle!TerminalRunStatuses
<1> QED
  BY <1>1, <1>2, <1>3, ServiceIsLifecycle, PTL
     DEF P!SucceededIsFinal, Lifecycle!SucceededIsFinal, P!TerminalIsFinal,
         Lifecycle!TerminalIsFinal

\* The stored events alone tell the stored snapshot, and each execution leaves one start
\* and at most one outcome in them, with artifacts only right before its success: no
\* conflict, retry of a commit, crash or recovery drops an event or stores one twice.
THEOREM ServiceEventsTellTheRun ==
  Spec => [](P!EventsExplainSnapshot /\ P!OneOutcomePerExecution)
<1> USE LifecycleAssumptions
    DEF P!TaskCountAssumption, P!PlansAssumption, P!ArtifactTasksAssumption,
        P!MaxConcurrencyAssumption, P!NoneAssumption, P!LeaseAssumption,
        P!MaxInterruptionsAssumption
<1>1. P!Spec => []P!EventsExplainSnapshot
  BY P!StreamExplainsSnapshot
<1>2. P!Spec => []P!OneOutcomePerExecution
  BY P!OneOutcomeIsLogged
<1> QED
  BY <1>1, <1>2, ServiceIsLifecycle, PTL
=============================================================================
