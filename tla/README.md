# ResearchFlow: specifications, model checking and proofs

ResearchFlow executes a research *run*: a plan of tasks with dependencies, carried out by
capabilities under a budget, with commands to pause, resume and cancel it, a background worker,
startup recovery, and an event stream. The whole state of a run is one immutable snapshot with a
version. Every operation loads it, decides, and commits a new snapshot with its events by
compare-and-set on the version. What is hard about this program is therefore what happens
*between* the load and the commit, and what a late result may still do; these specifications are
about that. Paths below are relative to `src/src/researchflow/`.

## 1. Inventory

| Component | State | Operations | Hard behaviour | What makes it correct |
|---|---|---|---|---|
| Run snapshot (`domain/run.py`, `domain/event.py`, `replace()` calls in `runtime/service.py`) | status, version, plan, and per task status, output, error, attempts, execution id (the lease) | pause/recover, cancel, claim, success, retry, failure, conclude | one transition settles several tasks at once | leases match running tasks, dependency order, final tasks stay final, outcome explains itself |
| Runtime service (`runtime/service.py`) | none of its own but `active_run_ids`; the snapshot is in the store | `submit` of the commands, `run_worker`, `_execute_until_stopped`, `_execute_task`, `recover_interrupted_runs` | all of them interleave at every await; results arrive after pause, resume, cancel and a new claim | equals some sequence of atomic commits, each decided on the snapshot it replaces |
| Event stream (`watch_events`, SSE route in `api/app.py`) | cursor of the generator | list after the cursor, send, look at the status | commits between the two reads; dropped connections | no gap, no duplicate, ends with the run |
| Plan (`domain/plan.py`) | immutable | validation by depth-first search, dependents | cycles | accepts exactly acyclic plans with known dependencies |
| Stores (`adapters/persistence/`) | rows of runs and events; per process: initialised flag and lock | create, load, commit, list | transaction atomicity, event sequence numbering as max + 1, schema creation by two processes, a failure or crash at any statement | a call takes effect at one moment or not at all; a commit applies only to the expected version |
| Artifact store (`adapters/artifacts/filesystem.py`) | files named by digest | put, verify, open | crash or failure between temporary file and replace; uploads of the same content at once; a file damaged by others; a put that is shielded from its deadline | what is recorded, given to a capability or served has the digest it is named by |
| HTTP application (`api/app.py`, `bootstrap.py`) | lifespan: recovering, serving with a worker | startup recovery, worker task, routes | a crash at any point; a worker that dies while the server lives | recovery precedes the worker; every request is answered |
| Schemas, settings, capability and planning ports, `autoresearch/` | none | conversions and value checks | none for a model checker | (not modelled) |

Interactions: the routes call the runtime service in-process; `run_worker` is one task of the
lifespan that spawns an executor per running run; an executor claims tasks and spawns one execution
per claim; executions invoke a capability and record its outcome; all of them meet only in the
store. Several application processes may share one database.

## 2. Modules

```
PlanModel                plan as a graph: acyclic, depends on, blocked (no variables)
 |- PlanGraph            validation search and blocked loop, step by step
 |- RunModel             snapshot, transitions, events (no variables)
     |- RunLifecycle     abstract specification: one step per commit
     |   |- RunEventLog  replay of the event stream
     |- RuntimeService   processes: load, decide, commit   (implements RunLifecycle)
     |- EventStream      an SSE client beside a RunLifecycle run
     |- TaskExecution    a task from claim to outcome, with clock and artifacts
ArtifactStore <- TaskExecution   steps on the artifact files
RunStore                 the store port: each call atomic (InMemoryRunStore)
 |- SQLiteRunStore       statements, locks, processes     (implements RunStore)
```

The proofs about a module `M` are in `MProofs`. They build on each other:

```
PlanModelProofs -> PlanGraphProofs
PlanModelProofs -> RunLifecycleProofs -> RunEventLogProofs -> RuntimeServiceProofs
                                                           -> EventStreamProofs
SQLiteRunStoreProofs      TaskExecutionProofs
```

`MC<Module>.tla` instantiates a module for TLC. Definitions marked *Faulty* are plausible wrong
versions of the definition after them; nothing of the specifications uses them. Each property has
one, and it breaks the property.

**PlanModel, PlanGraph** — `PlanModel` says what a plan is and what depends on what, without
saying how it is found out. `PlanGraph` is how: `visit()` of `_validate_graph` with its recursion as
`path` and the sets `visiting` and `visited` (`VisitNextTask`, `VisitDependency`, `Leave`), and the
loop of `_blocked_descendants` (`ExpandBlocked`). The dependencies of a task are met in any order,
because a plug-in lists them in any order.

**RunModel** — `Snapshot` is `RunSnapshot` reduced to what control depends on. `Paused`,
`Cancelled`, `TaskRunning`, `TaskSucceeded`, `TaskRetrying`, `TaskAndRunFailed` and
`BlockedRunFailed` are the `replace(...)` expressions of the service; `RunnableTasks`,
`IsActiveExecution` and `BlockedDescendants` its queries. Tasks are numbered by plan position,
because the scheduler scans in plan order. Left out: times, payloads, messages, artifact contents.
An output stands for `task_outputs[t]` with `task_artifacts[t]`, which one commit writes together,
and is named by the execution that produced it. Exceptions, timeouts, exhausted budget, invalid
input artifacts and error results all end in `_record_task_failure` and are one outcome, *failure*.

**RunLifecycle** — what the runtime promises. Each action is the commit of one method: `Plan`,
`Start`, `Pause`, `Resume`, `Cancel`, `Recover`, `MarkReady`, `Claim`, `RecordSuccess`,
`RecordRetry`, `RecordFailure`, `RecordIgnored`, `Conclude`. The history variables `leases` (what
each execution was claimed for, with the attempt number as epoch) and `settled` are not in the
program; they let properties speak about late results.

**RunEventLog** — `Replay` goes through the event stream, one event after the other, and collects
statuses, leases, attempts and outputs. The result is
compared with the snapshot after every commit: a client that only reads events knows the run.

**RuntimeService** — every process as a state machine that holds its loaded snapshot in `view`:

| Process | Code | Steps |
|---|---|---|
| `starter` | `_start`, POST /runs | plan, start; each on the snapshot it committed before, with no reload |
| `request` | `_pause`, `_prepare_resume`, `_cancel` with `_COMMIT_ATTEMPTS` | load, (list events,) commit, again on conflict |
| `recovery` | `recover_interrupted_runs` | load, commit, again on conflict; after it the host serves |
| `listed`, `executor` | `run_worker`, `_execute_until_stopped` | list, spawn, load, conclude / mark ready / claim, drain |
| `execution` | `_execute_task`, `_record_task_success`, `_record_task_failure`, `_record_ignored_result` | invoke, load, record, again on conflict, fifth conflict raised |
| `host` | lifespan in `api/app.py` | boot, crash, worker dead while the server goes on |

A load or commit is one step, and an execution settles by the commit its loaded snapshot selects.
Because a claim that follows `task.ready` works on the snapshot just committed, it is a step of its
own. Store unavailability is modelled for the worker, where nothing handles it and it ends the
worker; met by a command it is a 503 without effect, which a client cannot tell from the command
never sent. Executor polls that find nothing to do are not steps.

**EventStream** — the generator `watch_events` and its client: `ListEvents`, `Send`, `AllSent`,
`LoadStatus`, and `Drop` and `Reconnect` by the last received sequence.

**RunStore** — the port as `RuntimeService` assumes it: a call is made, takes effect in one step or
not at all, and returns. The effects are the methods of `InMemoryRunStore`, which run without an
await under one lock. A call may find the store unavailable, and a crash may lose the answer of an
effect that happened.

**SQLiteRunStore** — the same calls in processes over one file. Each caller walks through the
initialisation (flag, process lock, flag again, table check, creation), the statements of its
method, commit or rollback, and the return; `writer` is SQLite's write lock, taken by the first
write of a transaction, and a read sees what was committed. Any statement may fail or run into the
busy timeout, and a process may die between any two. `Phase` maps the program counters to the phases of `RunStore`; the effect
is the step that commits, or the read.

**ArtifactStore, TaskExecution** — `ArtifactStore` has the files and what `put()` does to them;
`TaskExecution` says who does it and when. An execution is claimed, takes its deadline
(`ExecutionTimeout`), verifies its inputs, invokes the capability, which may store one content and
return any reference, verifies the outputs and records. Around it are the commits of
`RunLifecycle`, each atomic and without versions or events, so that the late executions a pause leaves
behind go on storing while the task is claimed again. Another program may damage or delete a stored
file at any moment. A client downloads an artifact meanwhile: `OpenArtifact` is `get_artifact`
with its verification, `DownloadEnds` the end of the read that follows it unchecked.
`now` counts ticks since `created_at` and stops at the budget, since later moments are alike; that
is an abstraction, not a bound.

## 3. Runs

All runs carry `CHECK_DEADLOCK FALSE`: a run of the program ends, and ids or bounds run out.

| Run | Bounds | What it shows |
|---|---|---|
| `lifecycle` | 3 tasks, four plans (join, fork, reversed order, independent), concurrency 2, 6 executions, 1 interruption; about 149 000 states | leases, dependency order, concurrency, outputs, outcome, attempts, finality, no stall; events determine the snapshot, with one start and at most one outcome per execution |
| `service` | 1 host, 2 tasks, 2 requests to pause or resume, 3 executions, 1 fault, 2 commit attempts; about 491 000 | the processes implement `RunLifecycle`; versions identify snapshots; recovery takes abandoned leases; a resume answers from its own event |
| `two_hosts` | 2 hosts, 1 task, 1 request of any command, 1 fault; about 788 000 | the same refinement when two processes share a database, and one recovers runs the other executes |
| `liveness` | 1 task with a retry, 2 requests (pause, resume), 3 executions, 5 attempts, no fault; about 98 000 | a running run moves on, executions settle, requests are answered |
| `stream` | 1 task, 1 interruption, 1 reconnect; about 151 000 | ordered delivery without gaps, no starvation, the stream ends with the run |
| `plan_graph` | every graph of 4 tasks without self-dependency, and some with a self-dependency or an unknown name; about 64 000 | validation accepts exactly the acyclic plans with known dependencies, the loop returns exactly the dependents, both end |
| `store` | 2 processes, 3 calls, 1 fault; about 322 000 | the SQLite store implements the atomic port, events and snapshot stay together, an initialised process has its schema, every call returns |
| `task_execution` | 2 tasks in a chain, the first with a retry, 4 executions, 1 content, 1 pause or crash, one damage per file, budget of 2 timeouts; about 305 000 | artifacts stay genuine, no temporary file is left, a run whose budget is used up ends |
| `stream_end`, `contention`, `invocations`, `timeout` | | the four disagreements of section 5 |

Why these are enough. Six executions let two of three tasks retry after an interruption has taken
two leases. The plans are the shapes that separate direct from transitive dependents, blocked from
cancelled, and plan order from dependency order. One pause, one resume and one late result is the
shortest history in which an old attempt meets a newer one; `service` and `two_hosts` add a command
or a fault to it; `two_hosts` has the command that cancels, racing with a worker, a recovery and late
results. Two commit attempts (the code has five) reach both outcomes of the retry test,
and the refinement does not depend on the number; runs about giving up use five. Four tasks are the
fewest with a cycle behind a join. Three calls are two writers that race and a reader, or two
creations of the schema and a crash. A content that two executions store at once, a chain so that
the second task reads what the first wrote, and a pause that leaves the first execution behind are
what `task_execution` needs; a second content only repeats it.

The bounds by name: `TaskCount`, `ExecutionIds` and `MaxConcurrency` size the instance, and a claim
needs an unused id; `MaxInterruptions` limits pauses and recoveries of `RunLifecycle`; `Requests`
limits commands, `MaxFaults` crashes and store failures together (in `SQLiteRunStore` too), `Callers` the calls of the store, `MaxReconnects` the client, and
`MaxEvents` how far `EventsDelivered` looks (no run of that instance has more events).
In `TaskExecution`, `MaxInterruptions` limits pauses and crashes together, `tampered` allows one
damage per content, and an invocation stores at most one content.
Execution ids (`lifecycle`), and requests and hosts (`service`, `two_hosts`, `contention`) are
interchangeable and used as symmetry sets; a run with temporal properties other than safety has none.
In `RuntimeService` an execution takes a chosen unused id: ids are interchangeable there too.

**Fairness.** `RuntimeService!FairSpec` has weak fairness of each process: the event loop
reschedules every coroutine whose await completed, and every invocation ends, at the latest by
`fail_after` — which holds outside `put()`, as `timeout` shows, so its liveness results are about capabilities
that do not hang inside an upload. Nobody has to send a request, boot a host or crash. `EventStream!FairSpec` is
fair to the generator only, not to the run and not to reconnecting. Properties about progress are
conditional on `WorkerLives`, because a worker that died is not restarted (section 5).
An execution that finds no unused id would stop for the wrong reason, so `liveness` has three ids:
at most one attempt, one retry and one interrupted attempt can be claimed.
`PlanGraph!FairSpec` lets the algorithms run. `SQLiteRunStore!FairSpec` is fair to each call, which
never waits for ever because lock holders go on; it does not rely on the busy timeout.
`TaskExecution!HangingSpec` is fair to the clock, to the executor and to every step the runtime takes for an
execution; a capability owes nothing. `FairSpec` adds that chunks keep coming once an upload has begun.

## 4. Proofs

TLAPS proves every invariant and every action property that a passing run checks, and both
refinements, for all values of the constants: any number of tasks, plans, executions, hosts,
requests, calls, faults, contents and reconnections.

The assumptions are the named `ASSUME`s of the modules. `PlanModel` and `RunModel`: positive sizes,
plans of the right shape and acyclic, artifact tasks among the tasks, and `None` being no execution,
plan, task or lease (`LeaseAssumption`). `RunLifecycle`, `RuntimeService`, `EventStream` and
`TaskExecution`: bounds that are numbers, at least one commit attempt, positive timeout and budget,
finitely many requests and hosts, only the three commands, and a client that is no execution.
`SQLiteRunStore`: each call has a process and asks for an operation of the port, and the absent row
is no row. `PlanGraph`, `ArtifactStore`: candidates whose dependencies are tasks or `Unknown`, which
is no task, and `Forged`, which is no digest. That plans are acyclic is what validation is proved to
establish; the others are sizes and names.

### RunLifecycle

`RunLifecycleProofs` states the effect of each transition on types once (`PlanEffect`,
`ClaimEffect`, `FailureEffect`, ...) and concludes `TypeCorrect`. It then builds layers,
each inductive relative to the ones before:

1. `PlanKnown`: a plan and all statuses exist exactly from planning on; without it no query about
   dependencies means anything (`PlanIsKnown`).
2. Action properties from types alone: `EndIsFinal`, `SuccessIsFinal`; and `ConcurrencyIsLimited`,
   by the cardinality of the tasks in flight.
3. `Leases`: `LeaseTable` and `LeaseEpochsDistinct`, strengthened by *no lease has an epoch
   beyond the task's attempts* and *only claimed executions settle*; the first is what keeps a new
   claim distinct from every old one (`LeasesAreExact`, `EpochsAreDistinct`).
4. `DependenciesDone`: ready tasks, and not only started ones, have their dependencies succeeded;
   `DependencyOrder` alone is not inductive, since a ready task is claimed without a second look.
5. `Outputs`: who holds an output and what its lease was, on top of 3.
6. `Unfinished`: a run that has not ended has no failed, blocked or cancelled task. With acyclicity, the
   task of least rank that has not succeeded is runnable or in flight (`LowestTask`, by
   well-foundedness of strict inclusion on finite sets): `SchedulerNeverStalls`, so the
   `no_runnable_tasks` branch of `_fail_blocked_run` is dead code for every plan.
7. `AttemptsPaid`: one extra attempt per interruption, sharpened by one attempt left for every task
   that is pending or ready: `AttemptsAreBounded`.
8. `OutcomeIsExplained`: an ended run stays as it is, and each way to end one leaves statuses that
   explain it. Success and cancellation follow from 6. For a failure, the blocked tasks are found
   from the failed task towards its dependents, while the property speaks of the dependencies of a
   blocked task; `BlockedDependOnFailed` in `PlanModelProofs` shows both the same, since a set closed
   under dependents is the complement of one closed under dependencies. Layer 4 excludes that a
   succeeded task depends on the failed one, and layer 6 that another task failed before.

`BlockedDescendants` is the least set closed under dependents and not a recursion, so that no prover
loses its backend and the transition can be reasoned about; that the loop of the code computes that
set is the theorem `BlockedLoopIsExact`.

### RunEventLog

`StreamExplainsSnapshot`: replaying the events gives the snapshot. No induction over the stream is
needed, because the run grows it step by step: the invariant `LogReplayed` carries what a recursive
definition computes along with it. It says that a function with the equations of `Replay` exists and that all of
them end with the stored snapshot (`ReplaysTo`), and `ReplayOneMore` is the one lemma about
the recursion. What is left is that each commit changes the snapshot as its drafts tell. A failed
task blocks its dependents in the snapshot by `BlockedDescendants` and in the replay by the
dependencies; `BlockedDependOnFailed` bridges them again. The commit that fails a run with no runnable task
announces no failed task and could not be replayed; `SchedulerNeverStalls` excludes it.

`OneOutcomeIsLogged`: the invariant `EventsLogged` follows the positions of an execution's events,
as sets that are empty or have one member. A draft adds the position behind the end and moves no other
(`PositionsGrow`). That no commit gives a second start or outcome to an execution is `Leases`
above: an unclaimed execution has no lease, a settled one loses it.

### RuntimeService

`ServiceImplementsLifecycle` is the refinement, for any number of processes. The invariant
`ServiceInv` says of each process where it can be and what it holds. Its core is `Known`: a loaded
snapshot has a version of at most the stored one, and if they are equal *it is the stored one*
(`VersionsIdentify`). So a commit whose version matches is made from the stored snapshot, and what the
process had checked when it loaded still holds: an accepted commit is a step of `RunLifecycle`, and
a refused one changes nothing. `Budget` keeps the interruptions that happened, and those that hosts and
requests may still cause, within the bound that the abstract specification gets. From the refinement follow
`ServiceKeepsSafety`, `ServiceKeepsTheEnd` and `ServiceEventsTellTheRun`: the theorems about
`RunLifecycle` and `RunEventLog`, of the processes.

Two theorems are about the processes alone. `ResumeIsAnswered`: if the version a resume loaded is
still stored when it commits, the events it listed are still all (`RequestOK`). `LeasesAreRecovered`: a lost
execution that a task still names ran on a host that does not serve (`Deserted`), since a host serves
again only after a recovery that left no task in flight.

### EventStream

The cursor of a live connection is the number of events the client has received (`CursorOK`), and
events are only appended (`EventsGrow`), so what a listing held is still stored when it is sent:
`StreamsAreGapFree`. `CaughtUpClientKnowsTheRun` joins it with `StreamExplainsSnapshot`: a client that
received as many events as are stored arrives at the stored snapshot by replaying its own record. No
run checks it; it combines two properties that runs do check. `StreamsEndWithRun` is the safety half of
`StreamEndsWithRun`: only `LoadStatus` ends a stream, and `EndIsFinal` keeps what it saw.

### SQLiteRunStore

`SQLiteImplementsRunStore` is the refinement of the port, for any number of processes and calls that
interleave, fail and die at any statement. The invariant `StoreInv` says what a call relies on at
each of its statements. `WriterOK`: who is between its first write and its commit has the write lock, so
there is one. `WorkOK`: the open transaction sees the committed tables and its own statements, and
what the first write decided by still holds when the commit ends. `StreamOK`: sequences count from one
without a gap, which makes `coalesce(max(sequence), 0)` the length (`StreamLength`). `AuthorOK`: the
last events are those of the call that wrote the row. `SchemaOK`: a process that set its flag, and
every statement on the tables, finds them; a caller about to create a table lists all that is missing.
With them each step is one of the port or a stutter (`...Port` lemmas), by `Phase`; `TablesAgree`
and `SchemaBeforeUse` are parts of the invariant.

### TaskExecution

`ArtifactsStayGenuine` is inductive only with who may still change what. A recorded output names an
execution that has settled (`OutputsSettled`), so no later upload moves what it refers to. A late
execution goes on reading its inputs after a pause, and its task may be claimed again; but the dependencies of
any task that was ever started have succeeded, and what they recorded stays (`EntryOK`, `RunOK`,
`InputsStay`). An upload ends by putting its whole content under the digest, or leaves the file that is there,
so what verifies goes on to verify (`VerifiesStill`). `UploadsCleanUp`: every way out of `put()` but the
death of the process removes the temporary file.

### PlanGraph

`PlanGraphProofs` is about the search and the loop. The invariant `SearchInv` says what the
recursion of `visit()` holds at any moment: `visiting` is the path of waiting calls, without
repetition (`PathOK`); a dependency of a waiting task is still to be visited from it, is visited, or is the
call it waits for (`Awaited`); visited tasks were visited after their dependencies, so the order of their
visits ranks them (`Ranked`); and any ranking of the plan descends along the path
(`Descending`). When every task is visited, the third is a ranking: `ValidationIsSound`. When a
dependency is found on the path, the fourth leaves no ranking: `ValidationIsComplete`. The loop
only adds tasks that every closed set holds, and stops when the set is closed: `BlockedLoopIsExact`.
The acyclicity that `SchedulerNeverStalls` assumes of every plan (`PlansAssumption`) is thus what
validation is proved to establish.

### Only model-checked

Liveness: `RunningEnds`, `ExecutionsSettle`, `RequestsAnswered`, `EventsDelivered`,
`StreamEndsWithRun` (but its safety half), `AlgorithmsEnd`, `CallsReturn` and `ExhaustedRunEnds`.
They rest on fairness, and so on ENABLED, which the prover does not handle. The four disagreements of
section 5 are counterexamples and need no proof.

## 5. Disagreements found

- `stream_end`: `watch_events` lists events, then reads the status. If the run ends in between, the
  stream ends without the events of its end, although M2.3 says clients receive the committed events.
- `contention`: losing the version race five times raises `ConflictError` out of the worker's task
  group, so the worker ends and nothing restarts it; the hardening notes say a conflict must never
  be thrown to the caller.
- `invocations`: after pause and resume a task is invoked again while its old invocation still
  runs; the budget limits tasks the snapshot calls running, not invocations. `ARCHITECTURE.md`
  promises a limit on parallel execution.
- `timeout`: `put()` awaits the chunks of the capability inside `CancelScope(shield=True)`, so a
  deadline that passes while the next chunk hangs is not delivered: the invocation stays, nothing is
  recorded, and the run stays running until it is paused. The hardening notes say `timeout_seconds` and
  `max_wall_seconds` must really limit the execution of a capability.

Seen on the way, without a run of their own: a task becomes ready without a look at its inputs
(`ARCHITECTURE.md:81` and `PRD.md:347` say ready means valid inputs), which are verified after the
claim, at the cost of an attempt; and a damaged file under a digest is never repaired, because
`put()` takes an existing file for the content and discards the good upload, so every attempt that stores
this content fails until the file is removed.

## 6. Not modelled

- Several runs under one worker. They share only the capacity of the process.
- `StartRun` and `ResumeRun` dispatched in-process, which execute inline; only tests use them.
- Artifact ids and lookup by id: references are modelled by their content. Payloads, JSON
  conversion, and checks of arguments the runtime never gets wrong.
- The single shared connection of a `:memory:` database, which tests use and the application does not.
- Read-only routes but the download and the event stream.
- A planner's time before the run starts: `TaskExecution` begins with a started run, whose clock may
  run before the first claim.
- Schemas, settings, planners, capabilities and `autoresearch/`: pure data, or plug-ins that may
  return anything valid or raise, which is how they are modelled.

`PROJECT.json` lists each hazard with its line and the properties that cover it.

## 7. Plan

1. Lemmas that liveness needs and that are safety: what a waiting process waits for, and that its
   step is possible.
2. A theorem that composes `SQLiteRunStore` with `RuntimeService`: a load or commit of the service is a
   call of the port.
3. `TaskExecution` against `RunLifecycle`: that its commits are those of the lifecycle without versions
   and events.
4. `WorkerPool`: several runs, listing order and `active_run_ids`.
