------------------------- MODULE TaskExecutionProofs -------------------------
(***************************************************************************)
(* Proofs about TaskExecution, for every plan, every number of tasks,      *)
(* executions and contents, every timeout and budget.                      *)
(***************************************************************************)
EXTENDS TaskExecution, TLAPS

(***************************************************************************)
(* The inductive invariant                                                 *)
(***************************************************************************)

\* The run has its plan, tasks begin after their dependencies, and a succeeded task has
\* an output.
RunOK ==
  /\ run.plan \in Plans
  /\ \A t \in Tasks :
       /\ run.task_statuses[t] \in {"ready", "running"} => DependenciesSucceeded(run, t)
       /\ run.task_statuses[t] = "succeeded" => run.task_outputs[t] \in ExecutionIds

\* A recorded output is that of a settled execution, which nothing changes any more.
OutputsSettled ==
  \A t \in Tasks :
    run.task_outputs[t] \in ExecutionIds => execution[run.task_outputs[t]].stage = "settled"

\* An execution, stale or not, has a task whose dependencies have succeeded: what they
\* recorded does not change under it.
EntryOK(e) ==
  /\ execution[e].stage \in InProgress =>
       execution[e].task \in Tasks /\ DependenciesSucceeded(run, execution[e].task)
  /\ execution[e].stage \in {"outputs", "succeeded"} /\ execution[e].task \in ArtifactTasks =>
       execution[e].ref \in References
  /\ execution[e].stage \in Storing => execution[e].ref \in Digests

ExecutionsOK == \A e \in ExecutionIds : EntryOK(e)

\* What an undisturbed execution has verified.
GenuineAt(e) ==
  /\ execution[e].stage = "succeeded" /\ Outcome(e) # None => Verifies(Outcome(e))
  /\ execution[e].stage \in Invoking =>
       \A ref \in InputArtifacts(execution[e].task) : Verifies(ref)

ExecutionInv ==
  /\ TypeOK
  /\ RunOK
  /\ OutputsSettled
  /\ ExecutionsOK
  /\ ArtifactsGenuine
  /\ NoTemporaryLeft

-----------------------------------------------------------------------------
(***************************************************************************)
(* The run under an execution                                              *)
(***************************************************************************)

\* A change of the run that records no outcome: it keeps the plan, the outputs and the
\* set of succeeded tasks, and makes no task ready or running before its dependencies.
Keeps(s, changed) ==
  /\ changed \in Snapshot
  /\ changed.plan = s.plan
  /\ changed.task_outputs = s.task_outputs
  /\ \A t \in Tasks :
       /\ changed.task_statuses[t] = "succeeded" <=> s.task_statuses[t] = "succeeded"
       /\ changed.task_statuses[t] \in {"ready", "running"} =>
            s.task_statuses[t] \in {"ready", "running"} \/ DependenciesSucceeded(s, t)

LEMMA StatusKeeps ==
  ASSUME NEW s \in Snapshot, NEW status \in RunStatus
  PROVE  Keeps(s, WithStatus(s, status))
BY DEF Snapshot, WithStatus, Keeps

LEMMA InterruptionKeeps ==
  ASSUME NEW s \in Snapshot
  PROVE  Keeps(s, Paused(s)) /\ Keeps(s, Cancelled(s)) /\ Keeps(s, BlockedRunFailed(s))
<1> USE DEF Snapshot, RunStatus, TaskStatus, MaybeExecution
<1>1. Keeps(s, Paused(s))
  <2> DEFINE changed == Paused(s)
  <2>1. /\ changed \in Snapshot
        /\ changed.plan = s.plan /\ changed.task_outputs = s.task_outputs
        /\ changed.task_statuses = [t \in Tasks |-> IF t \in InFlight(s) THEN "ready"
                                                    ELSE s.task_statuses[t]]
    BY DEF Paused
  <2> HIDE DEF changed
  <2> QED
    BY <2>1 DEF Keeps, InFlight, changed
<1>2. Keeps(s, Cancelled(s))
  <2> DEFINE changed == Cancelled(s)
  <2>1. /\ changed \in Snapshot
        /\ changed.plan = s.plan /\ changed.task_outputs = s.task_outputs
        /\ changed.task_statuses = [t \in Tasks |->
                                      IF s.task_statuses[t] \in {"succeeded", "absent"}
                                        THEN s.task_statuses[t] ELSE "cancelled"]
    BY DEF Cancelled
  <2> HIDE DEF changed
  <2> QED
    BY <2>1 DEF Keeps, changed
<1>3. Keeps(s, BlockedRunFailed(s))
  <2> DEFINE changed == BlockedRunFailed(s)
  <2>1. /\ changed \in Snapshot
        /\ changed.plan = s.plan /\ changed.task_outputs = s.task_outputs
        /\ changed.task_statuses = [t \in Tasks |->
                                      IF s.task_statuses[t] = "succeeded"
                                        THEN s.task_statuses[t] ELSE "blocked"]
    BY DEF BlockedRunFailed
  <2> HIDE DEF changed
  <2> QED
    BY <2>1 DEF Keeps, changed
<1> QED
  BY <1>1, <1>2, <1>3

LEMMA ReadyKeeps ==
  ASSUME NEW s \in Snapshot, NEW t \in RunnableTasks(s), s.task_statuses[t] = "pending"
  PROVE  Keeps(s, TaskReady(s, t))
<1>1. t \in Tasks /\ DependenciesSucceeded(s, t)
  BY DEF RunnableTasks
<1> DEFINE changed == TaskReady(s, t)
<1>2. /\ changed \in Snapshot
      /\ changed.plan = s.plan /\ changed.task_outputs = s.task_outputs
      /\ changed.task_statuses = [s.task_statuses EXCEPT ![t] = "ready"]
  BY <1>1 DEF TaskReady, Snapshot, TaskStatus
<1>3. \A u \in Tasks :
        changed.task_statuses[u] = IF u = t THEN "ready" ELSE s.task_statuses[u]
  BY <1>2 DEF Snapshot
<1> HIDE DEF changed
<1> QED
  BY <1>1, <1>2, <1>3 DEF Keeps, changed

LEMMA RunningKeeps ==
  ASSUME NEW s \in Snapshot, NEW t \in Tasks, NEW e \in ExecutionIds,
         s.task_statuses[t] = "ready"
  PROVE  Keeps(s, TaskRunning(s, t, e))
<1> DEFINE changed == TaskRunning(s, t, e)
<1>1. s.task_attempts[t] + 1 \in Nat
  BY DEF Snapshot
<1>2. [s.task_attempts EXCEPT ![t] = @ + 1] \in [Tasks -> Nat]
  BY <1>1 DEF Snapshot
<1>3. /\ changed \in Snapshot
      /\ changed.plan = s.plan /\ changed.task_outputs = s.task_outputs
      /\ changed.task_statuses = [s.task_statuses EXCEPT ![t] = "running"]
  BY <1>2 DEF TaskRunning, Snapshot, TaskStatus, MaybeExecution
<1>4. \A u \in Tasks :
        changed.task_statuses[u] = IF u = t THEN "running" ELSE s.task_statuses[u]
  BY <1>3 DEF Snapshot
<1> HIDE DEF changed
<1> QED
  BY <1>3, <1>4 DEF Keeps, changed

LEMMA FailureKeeps ==
  ASSUME NEW s \in Snapshot, NEW t \in Tasks, s.task_statuses[t] = "running"
  PROVE  Keeps(s, TaskRetrying(s, t)) /\ Keeps(s, TaskAndRunFailed(s, t))
<1>1. Keeps(s, TaskRetrying(s, t))
  <2> DEFINE changed == TaskRetrying(s, t)
  <2>1. /\ changed \in Snapshot
        /\ changed.plan = s.plan /\ changed.task_outputs = s.task_outputs
        /\ changed.task_statuses = [s.task_statuses EXCEPT ![t] = "ready"]
    BY DEF TaskRetrying, Snapshot, TaskStatus, MaybeExecution
  <2>2. \A u \in Tasks :
          changed.task_statuses[u] = IF u = t THEN "ready" ELSE s.task_statuses[u]
    BY <2>1 DEF Snapshot
  <2> HIDE DEF changed
  <2> QED
    BY <2>1, <2>2 DEF Keeps, changed
<1>2. Keeps(s, TaskAndRunFailed(s, t))
  <2> DEFINE changed == TaskAndRunFailed(s, t)
             statuses == [u \in Tasks |->
                            IF u = t THEN "failed"
                            ELSE IF s.task_statuses[u] = "succeeded" THEN s.task_statuses[u]
                            ELSE IF u \in BlockedDescendants(s.plan, t) THEN "blocked"
                            ELSE "cancelled"]
  <2>1. statuses \in [Tasks -> TaskStatus \cup {"absent"}]
    BY DEF TaskStatus, Snapshot
  <2>2. /\ changed \in Snapshot
        /\ changed.plan = s.plan /\ changed.task_outputs = s.task_outputs
        /\ changed.task_statuses = statuses
    BY <2>1 DEF TaskAndRunFailed, Snapshot, RunStatus, MaybeExecution
  <2>3. \A u \in Tasks : /\ statuses[u] = "succeeded" <=> s.task_statuses[u] = "succeeded"
                         /\ statuses[u] \notin {"ready", "running"}
    OBVIOUS
  <2> HIDE DEF changed, statuses
  <2> QED
    BY <2>2, <2>3 DEF Keeps, changed
<1> QED
  BY <1>1, <1>2

\* A dependency that has succeeded stays so.
LEMMA DependenciesKept ==
  ASSUME NEW s, NEW changed, Keeps(s, changed), s.plan \in Plans, NEW t \in Tasks,
         DependenciesSucceeded(s, t)
  PROVE  DependenciesSucceeded(changed, t)
<1>1. s.plan.dependencies[t] \subseteq Tasks
  BY PlansAssumption DEF PlanShape
<1> QED
  BY <1>1 DEF DependenciesSucceeded, Keeps

LEMMA RunKept ==
  ASSUME RunOK, Keeps(run, run')
  PROVE  RunOK'
<1>1. run'.plan \in Plans
  BY DEF RunOK, Keeps
<1>2. ASSUME NEW t \in Tasks
      PROVE  /\ run'.task_statuses[t] \in {"ready", "running"} =>
                  DependenciesSucceeded(run', t)
             /\ run'.task_statuses[t] = "succeeded" => run'.task_outputs[t] \in ExecutionIds
  <2>1. DependenciesSucceeded(run, t) => DependenciesSucceeded(run', t)
    BY DependenciesKept DEF RunOK
  <2> QED
    BY <2>1 DEF RunOK, Keeps
<1> QED
  BY <1>1, <1>2, Zenon DEF RunOK

-----------------------------------------------------------------------------
(***************************************************************************)
(* Artifacts under a step                                                  *)
(***************************************************************************)

\* A change to nothing but time, say, keeps the run as it is.
LEMMA SameRunKept ==
  ASSUME TypeOK
  PROVE  Keeps(run, run)
BY DEF TypeOK, Keeps

\* The recorded inputs of a task whose dependencies have succeeded do not change.
LEMMA InputsStay ==
  ASSUME ExecutionInv, NEW t \in Tasks, DependenciesSucceeded(run, t),
         run'.plan = run.plan,
         \A d \in Tasks : run.task_statuses[d] = "succeeded" =>
                            run'.task_outputs[d] = run.task_outputs[d],
         \A x \in ExecutionIds : execution[x].stage = "settled" => execution'[x] = execution[x]
  PROVE  InputArtifacts(t)' = InputArtifacts(t)
<1>1. run.plan.dependencies[t] \subseteq Tasks
  BY PlansAssumption DEF PlanShape, ExecutionInv, RunOK
<1>2. ASSUME NEW d \in run.plan.dependencies[t]
      PROVE  execution'[run'.task_outputs[d]].ref = execution[run.task_outputs[d]].ref
  <2>1. d \in Tasks /\ run.task_statuses[d] = "succeeded"
    BY <1>1 DEF DependenciesSucceeded
  <2>2. run.task_outputs[d] \in ExecutionIds /\ run'.task_outputs[d] = run.task_outputs[d]
    BY <2>1 DEF ExecutionInv, RunOK
  <2>3. execution[run.task_outputs[d]].stage = "settled"
    BY <2>1, <2>2 DEF ExecutionInv, OutputsSettled
  <2> QED
    BY <2>2, <2>3
<1>3. run'.plan.dependencies[t] = run.plan.dependencies[t]
  OBVIOUS
<1> QED
  BY <1>2, <1>3 DEF InputArtifacts, Outcome

\* What has verified once does so until a file is damaged.
LEMMA VerifiesStill ==
  ASSUME \A d \in Digests : files[d] = "whole" => files'[d] = "whole",
         NEW ref, Verifies(ref)
  PROVE  ref \in Digests /\ files'[ref] = "whole"
BY DEF Verifies

\* A step that damages no file and records no outcome: each execution is as it was, or one
\* that was not settled is as it should be.
LEMMA Evolves ==
  ASSUME ExecutionInv, Keeps(run, run'), undisturbed' \subseteq ExecutionIds \cup {Client},
         \A d \in Digests : files[d] = "whole" => files'[d] = "whole",
         \A x \in ExecutionIds :
           \/ execution'[x] = execution[x] /\ (x \in undisturbed' => x \in undisturbed)
           \/ /\ execution[x].stage # "settled"
              /\ EntryOK(x)'
              /\ x \in undisturbed' => GenuineAt(x)',
         Client \in undisturbed' => Verifies(download)'
  PROVE  RunOK' /\ OutputsSettled' /\ ExecutionsOK' /\ ArtifactsGenuine'
<1> USE DEF ExecutionInv
<1>1. RunOK'
  BY RunKept
<1>2. \A x \in ExecutionIds : execution[x].stage = "settled" =>
        execution'[x] = execution[x] /\ (x \in undisturbed' => x \in undisturbed)
  OBVIOUS
<1>3. run'.plan = run.plan /\ run'.task_outputs = run.task_outputs
  BY DEF Keeps
<1>4. OutputsSettled'
  BY <1>2, <1>3 DEF OutputsSettled
<1>5. ASSUME NEW t \in Tasks, DependenciesSucceeded(run, t)
      PROVE  InputArtifacts(t)' = InputArtifacts(t)
  BY <1>2, <1>3, <1>5, InputsStay
<1>6. ASSUME NEW x \in ExecutionIds
      PROVE  EntryOK(x)'
  <2>1. CASE execution'[x] = execution[x]
    <3>1. execution[x].stage \in InProgress =>
            execution[x].task \in Tasks /\ DependenciesSucceeded(run, execution[x].task)
      BY DEF ExecutionsOK, EntryOK
    <3>2. execution[x].stage \in InProgress =>
            execution[x].task \in Tasks /\ DependenciesSucceeded(run', execution[x].task)
      BY <3>1, DependenciesKept DEF RunOK
    <3> QED
      BY <2>1, <3>2 DEF ExecutionsOK, EntryOK
  <2>2. CASE execution'[x] # execution[x]
    BY <2>2
  <2> QED
    BY <2>1, <2>2
<1>7. ASSUME NEW x \in ExecutionIds, x \in undisturbed'
      PROVE  GenuineAt(x)'
  <2>1. CASE execution'[x] = execution[x] /\ x \in undisturbed
    <3>1. GenuineAt(x)
      BY <2>1 DEF ArtifactsGenuine, GenuineAt
    <3>2. execution[x].stage \in InProgress =>
            execution[x].task \in Tasks /\ DependenciesSucceeded(run, execution[x].task)
      BY DEF ExecutionsOK, EntryOK
    <3>3. execution[x].stage \in Invoking => execution[x].stage \in InProgress
      BY DEF InProgress
    <3>4. \A t \in Tasks : t = execution[x].task /\ execution[x].stage \in Invoking =>
            InputArtifacts(t)' = InputArtifacts(t)
      BY <3>2, <3>3, <1>5
    <3>5. execution[x].stage \in Invoking =>
            InputArtifacts(execution[x].task)' = InputArtifacts(execution[x].task)
      BY <2>1, <3>2, <3>3, <3>4 DEF InputArtifacts
    <3> QED
      BY <2>1, <3>1, <3>5, VerifiesStill DEF GenuineAt, Outcome, Verifies
  <2>2. CASE ~(execution'[x] = execution[x] /\ x \in undisturbed)
    BY <1>7, <2>2
  <2> QED
    BY <2>1, <2>2
<1>8. ASSUME NEW t \in ArtifactTasks, run'.task_outputs[t] \in undisturbed'
      PROVE  Verifies(Outcome(run.task_outputs[t]))'
  <2>1. t \in Tasks /\ run'.task_outputs[t] = run.task_outputs[t]
    BY <1>3, ArtifactTasksAssumption
  <2>2. run.task_outputs[t] \in ExecutionIds
    <3>1. run.task_outputs[t] \in ExecutionIds \cup {None}
      BY <2>1 DEF TypeOK, Snapshot, MaybeExecution
    <3> QED
      BY <1>8, <2>1, <3>1, NamesAssumption, NoneAssumption
  <2>3. /\ execution'[run.task_outputs[t]] = execution[run.task_outputs[t]]
        /\ run.task_outputs[t] \in undisturbed
    BY <1>2, <1>8, <2>1, <2>2 DEF OutputsSettled
  <2>4. Verifies(Outcome(run.task_outputs[t]))
    BY <2>3 DEF ArtifactsGenuine
  <2> QED
    BY <2>1, <2>3, <2>4, VerifiesStill DEF Verifies, Outcome
<1>9. ArtifactsGenuine'
  BY <1>7, <1>8 DEF ArtifactsGenuine, GenuineAt
<1>10. ExecutionsOK'
  BY <1>6 DEF ExecutionsOK
<1> QED
  BY <1>1, <1>4, <1>9, <1>10

-----------------------------------------------------------------------------
(***************************************************************************)
(* A step of one execution                                                 *)
(***************************************************************************)
Entries == [task     : Tasks \cup {None},
            stage    : Stage,
            deadline : 0 .. MaxWallSeconds,
            ref      : References \cup {None}]

LEMMA EntryStep ==
  ASSUME ExecutionInv, NEW e \in ExecutionIds, NEW entry \in Entries,
         execution' = [execution EXCEPT ![e] = entry],
         execution[e].stage # "settled",
         Keeps(run, run'),
         UNCHANGED <<now, download, serving, interruptions, tampered>>,
         undisturbed' \subseteq undisturbed \cup {e},
         files' \in [Digests -> {"absent", "whole", "damaged"}],
         \A d \in Digests : files[d] = "whole" => files'[d] = "whole",
         temporaries' \subseteq temporaries \cup {e},
         e \in temporaries' => entry.stage \in Storing \cup {"lost"},
         entry.stage \in InProgress =>
           entry.task \in Tasks /\ DependenciesSucceeded(run, entry.task),
         entry.stage \in {"outputs", "succeeded"} /\ entry.task \in ArtifactTasks =>
           entry.ref \in References,
         entry.stage \in Storing => entry.ref \in Digests,
         e \in undisturbed' /\ entry.stage = "succeeded" /\ entry.ref # None =>
           Verifies(entry.ref),
         e \in undisturbed' /\ entry.stage \in Invoking =>
           \A ref \in InputArtifacts(entry.task) : Verifies(ref)
  PROVE  ExecutionInv'
<1> USE DEF ExecutionInv
<1>1. execution' \in [ExecutionIds -> Entries] /\ execution'[e] = entry
  BY DEF TypeOK, Entries
<1>2. \A x \in ExecutionIds : x # e => execution'[x] = execution[x]
  BY DEF TypeOK
<1>3. TypeOK'
  <2>1. run' \in Snapshot
    BY DEF Keeps
  <2>2. undisturbed' \subseteq ExecutionIds \cup {Client} /\ temporaries' \subseteq ExecutionIds
    BY DEF TypeOK
  <2>3. StoreTypeOK'
    BY DEF TypeOK, StoreTypeOK
  <2> QED
    BY <1>1, <2>1, <2>2, <2>3 DEF TypeOK, Entries
<1>4. EntryOK(e)'
  <2>1. entry.stage \in InProgress =>
          entry.task \in Tasks /\ DependenciesSucceeded(run', entry.task)
    BY DependenciesKept DEF RunOK
  <2> QED
    BY <1>1, <2>1 DEF EntryOK
<1>5. e \in undisturbed' => GenuineAt(e)'
  <2> SUFFICES ASSUME e \in undisturbed'
               PROVE  GenuineAt(e)'
    OBVIOUS
  <2>1. entry.stage = "succeeded" /\ entry.ref # None => Verifies(entry.ref)'
    BY VerifiesStill DEF Verifies
  <2>2. \A t \in Tasks : DependenciesSucceeded(run, t) => InputArtifacts(t)' = InputArtifacts(t)
    <3>1. \A x \in ExecutionIds : execution[x].stage = "settled" => execution'[x] = execution[x]
      BY <1>2
    <3> QED
      BY <3>1, InputsStay DEF Keeps
  <2>3. entry.stage \in Invoking =>
          entry.task \in Tasks /\ InputArtifacts(entry.task)' = InputArtifacts(entry.task)
    BY <2>2 DEF InProgress
  <2>4. entry.stage \in Invoking => \A ref \in InputArtifacts(entry.task)' : Verifies(ref)'
    BY <2>3, VerifiesStill DEF Verifies
  <2>5. entry.stage \in Invoking =>
          InputArtifacts(execution[e].task)' = InputArtifacts(entry.task)'
    BY <1>1 DEF InputArtifacts
  <2> QED
    BY <1>1, <2>1, <2>4, <2>5 DEF GenuineAt, Outcome
<1>6. Client \in undisturbed' => Verifies(download)'
  <2>1. Client # e
    BY NamesAssumption
  <2> QED
    BY <2>1, VerifiesStill DEF ArtifactsGenuine, Verifies
<1>7. \A x \in ExecutionIds :
        \/ execution'[x] = execution[x] /\ (x \in undisturbed' => x \in undisturbed)
        \/ /\ execution[x].stage # "settled"
           /\ EntryOK(x)'
           /\ x \in undisturbed' => GenuineAt(x)'
  BY <1>2, <1>4, <1>5
<1>8. undisturbed' \subseteq ExecutionIds \cup {Client}
  BY <1>3 DEF TypeOK
<1>9. RunOK' /\ OutputsSettled' /\ ExecutionsOK' /\ ArtifactsGenuine'
  BY <1>6, <1>7, <1>8, Evolves
<1>10. NoTemporaryLeft'
  BY <1>1, <1>2 DEF NoTemporaryLeft, TypeOK
<1> QED
  BY <1>3, <1>9, <1>10

\* A step of the run alone, or of the client.
LEMMA RunStep ==
  ASSUME ExecutionInv, Keeps(run, run'),
         now' \in 0 .. MaxWallSeconds, interruptions' \in 0 .. MaxInterruptions,
         serving' \in BOOLEAN, download' \in References \cup {None},
         UNCHANGED <<execution, storeVars>>,
         undisturbed' \subseteq undisturbed \cup {Client},
         Client \in undisturbed' => Verifies(download')
  PROVE  ExecutionInv'
<1> USE DEF ExecutionInv
<1>1. TypeOK'
  BY DEF TypeOK, StoreTypeOK, storeVars, Keeps
<1>2. undisturbed' \subseteq ExecutionIds \cup {Client}
  BY DEF TypeOK
<1>3. \A x \in ExecutionIds : execution'[x] = execution[x] /\ (x \in undisturbed' => x \in undisturbed)
  BY NamesAssumption
<1>4. Client \in undisturbed' => Verifies(download)'
  BY DEF Verifies, storeVars
<1>5. \A d \in Digests : files[d] = "whole" => files'[d] = "whole"
  BY DEF storeVars
<1>6. RunOK' /\ OutputsSettled' /\ ExecutionsOK' /\ ArtifactsGenuine'
  BY <1>2, <1>3, <1>4, <1>5, Evolves
<1>7. NoTemporaryLeft'
  BY DEF NoTemporaryLeft, storeVars
<1> QED
  BY <1>1, <1>6, <1>7

-----------------------------------------------------------------------------
(***************************************************************************)
(* The executor, the commands and the client                               *)
(***************************************************************************)

LEMMA CommandStep ==
  ASSUME ExecutionInv, Tick \/ Pause \/ Resume \/ Cancel \/ Restart \/ Conclude
  PROVE  ExecutionInv'
<1> USE DEF ExecutionInv
<1>0. /\ run \in Snapshot /\ now \in 0 .. MaxWallSeconds
      /\ interruptions \in 0 .. MaxInterruptions /\ serving \in BOOLEAN
      /\ download \in References \cup {None}
      /\ Client \in undisturbed => Verifies(download)
  BY DEF TypeOK, ArtifactsGenuine
<1>1. CASE Tick
  <2>1. now' \in 0 .. MaxWallSeconds
    BY <1>0, <1>1, TimesAssumption DEF Tick
  <2> QED
    BY <1>0, <1>1, <2>1, SameRunKept, RunStep DEF Tick
<1>2. CASE Pause
  <2>1. interruptions' \in 0 .. MaxInterruptions
    BY <1>0, <1>2, TimesAssumption DEF Pause
  <2>2. Keeps(run, run')
    BY <1>0, <1>2, InterruptionKeeps DEF Pause, Commits
  <2> QED
    BY <1>0, <1>2, <2>1, <2>2, RunStep DEF Pause, Commits
<1>3. CASE Resume
  <2>1. Keeps(run, run')
    BY <1>0, <1>3, StatusKeeps DEF Resume, Commits, RunStatus
  <2> QED
    BY <1>0, <1>3, <2>1, RunStep DEF Resume, Commits
<1>4. CASE Cancel
  <2>1. Keeps(run, run')
    BY <1>0, <1>4, InterruptionKeeps DEF Cancel, Commits
  <2> QED
    BY <1>0, <1>4, <2>1, RunStep DEF Cancel, Commits
<1>5. CASE Restart
  <2>1. Keeps(run, run')
    BY <1>0, <1>5, InterruptionKeeps, SameRunKept DEF Restart
  <2> QED
    BY <1>0, <1>5, <2>1, RunStep DEF Restart
<1>6. CASE Conclude
  <2>1. Keeps(run, run')
    BY <1>0, <1>6, InterruptionKeeps, StatusKeeps DEF Conclude, Commits, RunStatus
  <2> QED
    BY <1>0, <1>6, <2>1, RunStep DEF Conclude, Commits
<1> QED
  BY <1>1, <1>2, <1>3, <1>4, <1>5, <1>6

LEMMA MarkReadyStep ==
  ASSUME ExecutionInv, NEW t \in Tasks, MarkReady(t)
  PROVE  ExecutionInv'
<1>0. /\ run \in Snapshot /\ now \in 0 .. MaxWallSeconds
      /\ interruptions \in 0 .. MaxInterruptions /\ serving \in BOOLEAN
      /\ download \in References \cup {None}
      /\ Client \in undisturbed => Verifies(download)
  BY DEF ExecutionInv, TypeOK, ArtifactsGenuine
<1>1. t \in RunnableTasks(run) /\ run.task_statuses[t] = "pending"
  BY DEF MarkReady, Schedulable, IsNextRunnable
<1>2. Keeps(run, run')
  BY <1>0, <1>1, ReadyKeeps DEF MarkReady, Commits
<1> QED
  BY <1>0, <1>2, RunStep DEF MarkReady, Commits

\* get_artifact() verifies what it opens.
LEMMA ClientStep ==
  ASSUME ExecutionInv, (\E t \in Tasks : OpenArtifact(t)) \/ DownloadEnds
  PROVE  ExecutionInv'
<1>0. /\ run \in Snapshot /\ now \in 0 .. MaxWallSeconds
      /\ interruptions \in 0 .. MaxInterruptions /\ serving \in BOOLEAN
      /\ Keeps(run, run)
  BY SameRunKept DEF ExecutionInv, TypeOK
<1>1. ASSUME NEW t \in Tasks, OpenArtifact(t)
      PROVE  ExecutionInv'
  <2>1. Verifies(download') /\ download' \in References \cup {None}
    BY <1>1 DEF OpenArtifact, Verifies, References
  <2> QED
    BY <1>0, <1>1, <2>1, RunStep DEF OpenArtifact
<1>2. CASE DownloadEnds
  BY <1>0, <1>2, RunStep DEF DownloadEnds
<1> QED
  BY <1>1, <1>2

\* A process that dies settles nothing: its executions are lost, their files stay.
LEMMA CrashStep ==
  ASSUME ExecutionInv, Crash
  PROVE  ExecutionInv'
<1> USE DEF ExecutionInv
<1>1. \A x \in ExecutionIds :
        execution'[x] = IF execution[x].stage \in InProgress THEN Idle("lost") ELSE execution[x]
  BY DEF Crash
<1>2. Idle("lost") \in Entries /\ "lost" \notin InProgress /\ "settled" \notin InProgress
  <2>1. "lost" \in Stage /\ 0 \in 0 .. MaxWallSeconds
    BY TimesAssumption DEF Stage
  <2> QED
    BY <2>1 DEF Entries, Idle, InProgress, Invoking, Storing
<1>3. TypeOK'
  <2>1. execution' \in [ExecutionIds -> Entries]
    BY <1>2 DEF Crash, TypeOK, Entries
  <2>2. interruptions' \in 0 .. MaxInterruptions
    BY TimesAssumption DEF Crash, TypeOK
  <2> QED
    BY <2>1, <2>2 DEF Crash, TypeOK, StoreTypeOK, storeVars, Entries
<1>4. Keeps(run, run')
  BY SameRunKept DEF Crash
<1>5. \A x \in ExecutionIds :
        execution[x].stage \in InProgress => EntryOK(x)' /\ GenuineAt(x)'
  BY <1>1, <1>2 DEF Idle, EntryOK, GenuineAt, InProgress, Invoking, Storing
<1>6. \A x \in ExecutionIds :
        \/ execution'[x] = execution[x] /\ (x \in undisturbed' => x \in undisturbed)
        \/ /\ execution[x].stage # "settled"
           /\ EntryOK(x)'
           /\ x \in undisturbed' => GenuineAt(x)'
  BY <1>1, <1>2, <1>5 DEF Crash
<1>7. \A d \in Digests : files[d] = "whole" => files'[d] = "whole"
  BY DEF Crash, storeVars
<1>8. undisturbed' \subseteq ExecutionIds \cup {Client} /\ Client \notin undisturbed'
  BY DEF Crash, TypeOK
<1>9. RunOK' /\ OutputsSettled' /\ ExecutionsOK' /\ ArtifactsGenuine'
  BY <1>4, <1>6, <1>7, <1>8, Evolves
<1>10. NoTemporaryLeft'
  <2>1. ASSUME NEW x \in temporaries'
        PROVE  execution'[x].stage \in Storing \cup {"lost"}
    <3>1. x \in ExecutionIds /\ execution[x].stage \in Storing \cup {"lost"}
      BY <2>1 DEF Crash, storeVars, NoTemporaryLeft, TypeOK
    <3>2. Idle("lost").stage = "lost"
      BY DEF Idle
    <3> QED
      BY <1>1, <3>1, <3>2
  <2> QED
    BY <2>1 DEF NoTemporaryLeft
<1> QED
  BY <1>3, <1>9, <1>10

\* After outside damage nobody is undisturbed.
LEMMA DamageStep ==
  ASSUME ExecutionInv, OutsideDamage
  PROVE  ExecutionInv'
<1> USE DEF ExecutionInv
<1>1. /\ UNCHANGED <<run, now, execution, download, serving, interruptions, temporaries>>
      /\ undisturbed' = {}
  BY DEF OutsideDamage, Tamper
<1>2. TypeOK'
  <2>1. StoreTypeOK'
    BY DEF OutsideDamage, Tamper, TypeOK, StoreTypeOK
  <2> QED
    BY <1>1, <2>1 DEF TypeOK
<1>3. RunOK'
  BY <1>1 DEF RunOK, DependenciesSucceeded
<1>4. OutputsSettled' /\ NoTemporaryLeft'
  BY <1>1 DEF OutputsSettled, NoTemporaryLeft
<1>5. ExecutionsOK'
  BY <1>1 DEF ExecutionsOK, EntryOK, DependenciesSucceeded
<1>6. ArtifactsGenuine'
  BY <1>1 DEF ArtifactsGenuine
<1> QED
  BY <1>2, <1>3, <1>4, <1>5, <1>6

-----------------------------------------------------------------------------
(***************************************************************************)
(* _execute_task                                                           *)
(***************************************************************************)

\* What a step of an execution starts from.
LEMMA EntryFacts ==
  ASSUME ExecutionInv, NEW e \in ExecutionIds
  PROVE  /\ execution[e] \in Entries
         /\ Keeps(run, run)
         /\ files \in [Digests -> {"absent", "whole", "damaged"}]
         /\ execution[e].stage \in InProgress =>
              /\ execution[e].stage # "settled"
              /\ execution[e].task \in Tasks
              /\ DependenciesSucceeded(run, execution[e].task)
         /\ e \in temporaries => execution[e].stage \in Storing \cup {"lost"}
         /\ e \in undisturbed /\ execution[e].stage \in Invoking =>
              \A ref \in InputArtifacts(execution[e].task) : Verifies(ref)
<1>1. execution[e] \in Entries /\ files \in [Digests -> {"absent", "whole", "damaged"}]
  BY DEF ExecutionInv, TypeOK, StoreTypeOK, Entries
<1>2. Keeps(run, run)
  BY SameRunKept DEF ExecutionInv
<1>3. "settled" \notin InProgress
  BY DEF InProgress, Invoking, Storing
<1> QED
  BY <1>1, <1>2, <1>3
     DEF ExecutionInv, ExecutionsOK, EntryOK, NoTemporaryLeft, ArtifactsGenuine

\* An execution moves to a stage in which it neither stores nor passes for verified.
LEMMA QuietMove ==
  ASSUME ExecutionInv, NEW e \in ExecutionIds, NEW to \in Stage,
         execution[e].stage \in InProgress, execution[e].stage \notin Storing,
         execution' = [execution EXCEPT ![e].stage = to],
         UNCHANGED <<run, now, download, serving, interruptions, storeVars>>,
         undisturbed' \subseteq undisturbed \cup {e},
         to \notin Storing, to \notin {"outputs", "succeeded"},
         e \in undisturbed' /\ to \in Invoking =>
           \A ref \in InputArtifacts(execution[e].task) : Verifies(ref)
  PROVE  ExecutionInv'
<1> DEFINE entry == [execution[e] EXCEPT !.stage = to]
<1>1. /\ entry \in Entries /\ entry.stage = to
      /\ entry.task = execution[e].task /\ entry.ref = execution[e].ref
  BY EntryFacts DEF Entries
<1>2. execution' = [execution EXCEPT ![e] = entry]
  OBVIOUS
<1>3. e \notin temporaries
  <2>1. "lost" \notin InProgress
    BY DEF InProgress, Invoking, Storing
  <2> QED
    BY <2>1, EntryFacts
<1> HIDE DEF entry
<1> QED
  BY <1>1, <1>2, <1>3, EntryFacts, EntryStep DEF storeVars

LEMMA BeginExecutionStep ==
  ASSUME ExecutionInv, NEW e \in ExecutionIds, BeginExecution(e)
  PROVE  ExecutionInv'
<1> DEFINE deadline == now + ExecutionTimeout
           to == IF ExecutionTimeout = 0 THEN "failed" ELSE "inputs"
           entry == [execution[e] EXCEPT !.deadline = deadline, !.stage = to]
<1>1. /\ execution[e].stage = "claimed"
      /\ execution' = [execution EXCEPT ![e].deadline = deadline, ![e].stage = to]
      /\ UNCHANGED <<run, now, download, undisturbed, serving, interruptions, storeVars>>
  BY DEF BeginExecution
<1>2. deadline \in 0 .. MaxWallSeconds
  <2>1. now \in 0 .. MaxWallSeconds
    BY DEF ExecutionInv, TypeOK
  <2> QED
    BY <2>1, TimesAssumption DEF ExecutionTimeout
<1>3. /\ "claimed" \in InProgress /\ "claimed" \notin Storing \cup {"lost"}
      /\ to \in Stage /\ to \notin Invoking /\ to \notin Storing
      /\ to \notin {"outputs", "succeeded"}
  BY DEF InProgress, Invoking, Storing, Stage
<1> HIDE DEF deadline, to
<1>4. /\ entry \in Entries /\ entry.stage = to
      /\ entry.task = execution[e].task /\ entry.ref = execution[e].ref
  BY <1>2, <1>3, EntryFacts DEF Entries
<1>5. execution' = [execution EXCEPT ![e] = entry]
  BY <1>1
<1> HIDE DEF entry
<1> QED
  BY <1>1, <1>3, <1>4, <1>5, EntryFacts, EntryStep DEF storeVars

\* _validate_inputs: an execution that goes on has verified its input artifacts.
LEMMA ValidateInputsStep ==
  ASSUME ExecutionInv, NEW e \in ExecutionIds, ValidateInputs(e)
  PROVE  ExecutionInv'
<1> DEFINE refs == InputArtifacts(execution[e].task)
<1>1. execution[e].stage = "inputs" /\ UNCHANGED storeVars
  BY DEF ValidateInputs, Verified
<1>2. /\ "inputs" \in InProgress /\ "inputs" \notin Storing
      /\ "invoking" \in Stage /\ "invoking" \notin Storing
      /\ "failed" \in Stage /\ "failed" \notin Storing /\ "failed" \notin Invoking
  BY DEF InProgress, Invoking, Storing, Stage
<1>3. CASE \A ref \in refs : Verifies(ref)
  <2>1. undisturbed' = undisturbed \cup {e} /\ Moves(e, "inputs", "invoking")
    BY <1>1, <1>3 DEF ValidateInputs, Verified
  <2> QED
    BY <1>1, <1>2, <1>3, <2>1, QuietMove DEF Moves
<1>4. CASE ~ \A ref \in refs : Verifies(ref)
  <2>1. undisturbed' = undisturbed /\ Moves(e, "inputs", "failed")
    BY <1>1, <1>4 DEF ValidateInputs, Verified
  <2> QED
    BY <1>1, <1>2, <2>1, QuietMove DEF Moves
<1> QED
  BY <1>3, <1>4

\* _validate_outputs: an execution that succeeds has verified what it returns.
LEMMA ValidateOutputsStep ==
  ASSUME ExecutionInv, NEW e \in ExecutionIds, ValidateOutputs(e)
  PROVE  ExecutionInv'
<1> DEFINE refs == {Outcome(e)} \ {None}
           entry == [execution[e] EXCEPT !.stage = "succeeded"]
<1>1. execution[e].stage = "outputs" /\ UNCHANGED storeVars
  BY DEF ValidateOutputs, Verified
<1>2. /\ "outputs" \in InProgress /\ "outputs" \notin Storing \cup {"lost"}
      /\ "succeeded" \in Stage /\ "succeeded" \notin Storing /\ "succeeded" \notin Invoking
      /\ "failed" \in Stage /\ "failed" \notin Storing /\ "failed" \notin Invoking
  BY DEF InProgress, Invoking, Storing, Stage
<1>3. CASE \A ref \in refs : Verifies(ref)
  <2>1. undisturbed' = undisturbed \cup {e} /\ Moves(e, "outputs", "succeeded")
    BY <1>1, <1>3 DEF ValidateOutputs, Verified
  <2>2. /\ entry \in Entries /\ entry.stage = "succeeded"
        /\ entry.task = execution[e].task /\ entry.ref = execution[e].ref
    BY <1>2, EntryFacts DEF Entries
  <2>3. execution' = [execution EXCEPT ![e] = entry]
    BY <2>1 DEF Moves
  <2>4. entry.ref # None => Verifies(entry.ref)
    BY <1>3, <2>2 DEF Outcome
  <2>5. entry.task \in ArtifactTasks => entry.ref \in References
    BY <1>1, <2>2 DEF ExecutionInv, ExecutionsOK, EntryOK
  <2>6. /\ execution[e].stage # "settled" /\ Keeps(run, run')
        /\ files \in [Digests -> {"absent", "whole", "damaged"}]
        /\ e \notin temporaries
    BY <1>1, <1>2, <2>1, EntryFacts DEF Moves
  <2>7. UNCHANGED <<run, now, download, serving, interruptions, tampered, files, temporaries>>
    BY <1>1, <2>1 DEF Moves, storeVars
  <2>8. /\ entry.stage \notin Storing /\ entry.stage \notin Invoking
        /\ entry.task \in Tasks /\ DependenciesSucceeded(run, entry.task)
    BY <1>1, <1>2, <2>2, EntryFacts
  <2> HIDE DEF entry
  <2> QED
    BY <2>1, <2>2, <2>3, <2>4, <2>5, <2>6, <2>7, <2>8, EntryStep
<1>4. CASE ~ \A ref \in refs : Verifies(ref)
  <2>1. undisturbed' = undisturbed /\ Moves(e, "outputs", "failed")
    BY <1>1, <1>4 DEF ValidateOutputs, Verified
  <2> QED
    BY <1>1, <1>2, <2>1, QuietMove DEF Moves
<1> QED
  BY <1>3, <1>4

\* The deadline, or an error of the capability.
LEMMA InvocationFailsStep ==
  ASSUME ExecutionInv, NEW e \in ExecutionIds, TimeExpires(e) \/ CapabilityRaises(e)
  PROVE  ExecutionInv'
<1>1. Moves(e, "invoking", "failed") /\ UNCHANGED <<undisturbed, storeVars>>
  BY DEF TimeExpires, CapabilityRaises
<1>2. /\ "invoking" \in InProgress /\ "invoking" \notin Storing
      /\ "failed" \in Stage /\ "failed" \notin Storing /\ "failed" \notin Invoking
  BY DEF InProgress, Invoking, Storing, Stage
<1> QED
  BY <1>1, <1>2, QuietMove DEF Moves

\* A task whose capability stores artifacts returns a reference, genuine or not.
LEMMA CapabilityReturnsStep ==
  ASSUME ExecutionInv, NEW e \in ExecutionIds, NEW ref \in References,
         CapabilityReturns(e, ref)
  PROVE  ExecutionInv'
<1> DEFINE returned == IF execution[e].task \in ArtifactTasks THEN ref ELSE None
           entry == [execution[e] EXCEPT !.stage = "outputs", !.ref = returned]
<1>1. /\ execution[e].stage = "invoking"
      /\ execution' = [execution EXCEPT ![e].stage = "outputs", ![e].ref = returned]
      /\ UNCHANGED <<run, now, download, undisturbed, serving, interruptions, storeVars>>
  BY DEF CapabilityReturns
<1>2. /\ "invoking" \in InProgress /\ "invoking" \notin Storing \cup {"lost"}
      /\ "outputs" \in Stage /\ "outputs" \notin Storing /\ "outputs" \notin Invoking
  BY DEF InProgress, Invoking, Storing, Stage
<1>3. /\ returned \in References \cup {None}
      /\ execution[e].task \in ArtifactTasks => returned \in References
  OBVIOUS
<1> HIDE DEF returned
<1>4. /\ entry \in Entries /\ entry.stage = "outputs"
      /\ entry.task = execution[e].task /\ entry.ref = returned
  BY <1>2, <1>3, EntryFacts DEF Entries
<1>5. execution' = [execution EXCEPT ![e] = entry]
  BY <1>1
<1>6. /\ execution[e].stage # "settled" /\ Keeps(run, run')
      /\ files \in [Digests -> {"absent", "whole", "damaged"}]
      /\ e \notin temporaries
  BY <1>1, <1>2, EntryFacts
<1>7. entry.task \in Tasks /\ DependenciesSucceeded(run, entry.task)
  BY <1>1, <1>2, <1>4, EntryFacts
<1>8. entry.stage \notin Storing /\ entry.stage \notin Invoking /\ entry.stage # "succeeded"
  BY <1>2, <1>4
<1>9. UNCHANGED <<run, now, download, undisturbed, serving, interruptions, tampered, files,
                  temporaries>>
  BY <1>1 DEF storeVars
<1>10. entry.task \in ArtifactTasks => entry.ref \in References
  BY <1>3, <1>4
<1> HIDE DEF entry
<1> QED
  BY <1>4, <1>5, <1>6, <1>7, <1>8, <1>9, <1>10, EntryStep

-----------------------------------------------------------------------------
(***************************************************************************)
(* put()                                                                   *)
(***************************************************************************)

\* put() writes a file of its own before it replaces the destination, and no step of it
\* makes a whole file less.
LEMMA StartPutStep ==
  ASSUME ExecutionInv, NEW e \in ExecutionIds, NEW d \in Digests, StartPut(e, d)
  PROVE  ExecutionInv'
<1> DEFINE entry == [execution[e] EXCEPT !.stage = "storing", !.ref = d]
<1>1. /\ execution[e].stage = "invoking"
      /\ execution' = [execution EXCEPT ![e] = entry]
      /\ temporaries' = temporaries \cup {e}
      /\ UNCHANGED <<files, tampered>>
      /\ UNCHANGED <<run, now, download, undisturbed, serving, interruptions>>
  BY DEF StartPut, OpenTemporary
<1>2. /\ "invoking" \in InProgress /\ "invoking" \in Invoking
      /\ "storing" \in Stage /\ "storing" \in Storing
  BY DEF InProgress, Invoking, Storing, Stage
<1>3. /\ entry \in Entries /\ entry.stage = "storing"
      /\ entry.task = execution[e].task /\ entry.ref = d
  BY <1>2, EntryFacts DEF Entries, References
<1> HIDE DEF entry
<1> QED
  BY <1>1, <1>2, <1>3, EntryFacts, EntryStep

LEMMA ChunksEndStep ==
  ASSUME ExecutionInv, NEW e \in ExecutionIds, ChunksEnd(e)
  PROVE  ExecutionInv'
<1> DEFINE to == IF Exists(execution[e].ref) THEN "discarding" ELSE "replacing"
           entry == [execution[e] EXCEPT !.stage = to]
<1>1. /\ execution[e].stage = "storing"
      /\ execution' = [execution EXCEPT ![e] = entry]
      /\ UNCHANGED <<run, now, download, undisturbed, serving, interruptions, storeVars>>
  BY DEF ChunksEnd, Moves
<1>2. /\ "storing" \in InProgress /\ "storing" \in Invoking /\ "storing" \in Storing
      /\ to \in Stage /\ to \in Storing /\ to \notin {"outputs", "succeeded"}
  BY DEF InProgress, Invoking, Storing, Stage
<1> HIDE DEF to
<1>3. /\ entry \in Entries /\ entry.stage = to
      /\ entry.task = execution[e].task /\ entry.ref = execution[e].ref
  BY <1>2, EntryFacts DEF Entries
<1>4. execution[e].ref \in Digests
  BY <1>1, <1>2 DEF ExecutionInv, ExecutionsOK, EntryOK
<1> HIDE DEF entry
<1> QED
  BY <1>1, <1>2, <1>3, <1>4, EntryFacts, EntryStep DEF storeVars

\* However put() ends, the temporary file of the upload is gone.
LEMMA PutEnds ==
  ASSUME ExecutionInv, NEW e \in ExecutionIds, NEW ref \in References,
         execution[e].stage \in Storing,
         execution' = [execution EXCEPT ![e].stage = "invoking", ![e].ref = ref],
         temporaries' = temporaries \ {e}, tampered' = tampered,
         files' \in [Digests -> {"absent", "whole", "damaged"}],
         \A d \in Digests : files[d] = "whole" => files'[d] = "whole",
         UNCHANGED <<run, now, download, undisturbed, serving, interruptions>>
  PROVE  ExecutionInv'
<1> DEFINE entry == [execution[e] EXCEPT !.stage = "invoking", !.ref = ref]
<1>1. execution' = [execution EXCEPT ![e] = entry]
  OBVIOUS
<1>2. /\ execution[e].stage \in InProgress /\ execution[e].stage \in Invoking
      /\ "invoking" \in Stage /\ "invoking" \notin Storing /\ "invoking" \in InProgress
  BY DEF InProgress, Invoking, Storing, Stage
<1>3. /\ entry \in Entries /\ entry.stage = "invoking"
      /\ entry.task = execution[e].task /\ entry.ref = ref
  BY <1>2, EntryFacts DEF Entries
<1>4. entry.stage \notin {"outputs", "succeeded"} /\ entry.stage \notin Storing
  BY <1>2, <1>3
<1>5. execution[e].stage # "settled" /\ Keeps(run, run')
  BY <1>2, EntryFacts
<1>6. e \notin temporaries' /\ temporaries' \subseteq temporaries \cup {e}
  OBVIOUS
<1>7. entry.task \in Tasks /\ DependenciesSucceeded(run, entry.task)
  BY <1>2, <1>3, EntryFacts
<1>8. e \in undisturbed' => \A r \in InputArtifacts(entry.task) : Verifies(r)
  BY <1>2, <1>3, EntryFacts
<1> HIDE DEF entry
<1> QED
  BY <1>1, <1>3, <1>4, <1>5, <1>6, <1>7, <1>8, EntryStep

LEMMA UploadFailsStep ==
  ASSUME ExecutionInv, NEW e \in ExecutionIds, UploadFails(e)
  PROVE  ExecutionInv'
<1>1. Forged \in References
  BY DEF References
<1> QED
  BY <1>1, EntryFacts, PutEnds DEF UploadFails, RemoveTemporary

LEMMA EndPutStep ==
  ASSUME ExecutionInv, NEW e \in ExecutionIds, EndPut(e)
  PROVE  ExecutionInv'
<1> DEFINE ref == execution[e].ref
<1>1. execution[e].stage \in {"replacing", "discarding"} /\ execution[e].stage \in Storing
  BY DEF EndPut, Moves, Storing
<1>2. ref \in Digests /\ ref \in References
  BY <1>1 DEF ExecutionInv, ExecutionsOK, EntryOK, References
<1>3. execution' = [execution EXCEPT ![e].stage = "invoking", ![e].ref = ref]
  <2>1. execution' = [execution EXCEPT ![e] = [execution[e] EXCEPT !.stage = "invoking"]]
    BY DEF EndPut, Moves
  <2>2. execution[e] \in Entries
    BY EntryFacts
  <2>3. [execution[e] EXCEPT !.stage = "invoking"]
          = [execution[e] EXCEPT !.stage = "invoking", !.ref = ref]
    BY <2>2 DEF Entries
  <2> QED
    BY <2>1, <2>3
<1>4. UNCHANGED <<run, now, download, undisturbed, serving, interruptions>>
  BY DEF EndPut, Moves
<1>5. /\ temporaries' = temporaries \ {e} /\ tampered' = tampered
      /\ files' = files \/ files' = [files EXCEPT ![ref] = "whole"]
  BY DEF EndPut, ReplaceDestination, RemoveTemporary
<1>6. /\ files' \in [Digests -> {"absent", "whole", "damaged"}]
      /\ \A d \in Digests : files[d] = "whole" => files'[d] = "whole"
  BY <1>5, EntryFacts
<1> HIDE DEF ref
<1> QED
  BY <1>1, <1>2, <1>3, <1>4, <1>5, <1>6, PutEnds

-----------------------------------------------------------------------------
(***************************************************************************)
(* Claims and outcomes                                                     *)
(***************************************************************************)

\* A claimed task is ready, so what it depends on has succeeded.
LEMMA ClaimStep ==
  ASSUME ExecutionInv, NEW t \in Tasks, Claim(t)
  PROVE  ExecutionInv'
<1> DEFINE e == CHOOSE e \in Unclaimed : TRUE
<1>1. e \in ExecutionIds /\ execution[e].stage = "unclaimed"
  BY DEF Claim, Unclaimed
<1>2. /\ run.task_statuses[t] = "ready"
      /\ execution' = [execution EXCEPT ![e].task = t, ![e].stage = "claimed"]
      /\ run' = TaskRunning(run, t, e)
      /\ UNCHANGED <<now, download, undisturbed, serving, interruptions, storeVars>>
  BY DEF Claim, Commits
<1> HIDE DEF e
<1> DEFINE entry == [execution[e] EXCEPT !.task = t, !.stage = "claimed"]
<1>3. /\ "claimed" \in Stage /\ "claimed" \notin Invoking /\ "claimed" \notin Storing
      /\ "unclaimed" \notin Storing \cup {"lost"}
  BY DEF Invoking, Storing, Stage, InProgress
<1>4. entry \in Entries /\ entry.stage = "claimed" /\ entry.task = t
  BY <1>1, <1>3, EntryFacts DEF Entries
<1>5. execution' = [execution EXCEPT ![e] = entry]
  BY <1>2
<1>6. Keeps(run, run')
  BY <1>1, <1>2, RunningKeeps DEF ExecutionInv, TypeOK
<1>7. DependenciesSucceeded(run, t)
  BY <1>2 DEF ExecutionInv, RunOK
<1>8. e \notin temporaries
  BY <1>1, <1>3, EntryFacts
<1>9. entry.stage \notin {"outputs", "succeeded"} /\ entry.stage \notin Storing
      /\ entry.stage \notin Invoking
  BY <1>3, <1>4
<1>10. files \in [Digests -> {"absent", "whole", "damaged"}]
  BY <1>1, EntryFacts
<1> HIDE DEF entry
<1> QED
  BY <1>1, <1>2, <1>4, <1>5, <1>6, <1>7, <1>8, <1>9, <1>10, EntryStep DEF storeVars

\* An outcome that records no output: the execution is settled, whatever it left.
LEMMA SettleStep ==
  ASSUME ExecutionInv, NEW e \in ExecutionIds, NEW changed,
         execution[e].stage \in {"succeeded", "failed"}, Keeps(run, changed),
         RecordAs(e, changed, None)
  PROVE  ExecutionInv'
<1> DEFINE entry == [Idle("settled") EXCEPT !.ref = None]
<1>1. /\ run' = changed /\ execution' = [execution EXCEPT ![e] = entry]
      /\ UNCHANGED <<now, download, undisturbed, serving, interruptions, storeVars>>
  BY DEF RecordAs, Commits
<1>2. /\ "settled" \in Stage /\ "settled" \notin InProgress /\ "settled" \notin Storing
      /\ "settled" \notin Invoking
      /\ execution[e].stage \notin Storing \cup {"lost"}
  BY DEF Stage, InProgress, Invoking, Storing
<1>3. entry \in Entries /\ entry.stage = "settled"
  <2>1. 0 \in 0 .. MaxWallSeconds
    BY TimesAssumption
  <2> QED
    BY <1>2, <2>1 DEF Idle, Entries
<1> HIDE DEF entry
<1> QED
  BY <1>1, <1>2, <1>3, EntryFacts, EntryStep DEF storeVars

LEMMA RecordFailureStep ==
  ASSUME ExecutionInv, NEW e \in ExecutionIds, RecordFailure(e)
  PROVE  ExecutionInv'
<1> DEFINE t == execution[e].task
<1>1. execution[e].stage = "failed" /\ "failed" \in InProgress /\ t \in Tasks
  BY EntryFacts DEF RecordFailure, InProgress
<1>2. run \in Snapshot /\ Keeps(run, run)
  BY EntryFacts DEF ExecutionInv, TypeOK
<1>3. HoldsLease(e) => Keeps(run, TaskRetrying(run, t)) /\ Keeps(run, TaskAndRunFailed(run, t))
  BY <1>1, <1>2, FailureKeeps DEF HoldsLease, IsActiveExecution
<1>4. PICK changed \in {run, TaskRetrying(run, t), TaskAndRunFailed(run, t)} :
        RecordAs(e, changed, None) /\ (changed = run \/ HoldsLease(e))
  BY DEF RecordFailure
<1>5. Keeps(run, changed)
  BY <1>2, <1>3, <1>4
<1> QED
  BY <1>1, <1>4, <1>5, SettleStep

\* A recorded output is whole, unless something was damaged after it was verified, and the
\* outputs of other tasks are as they were.
LEMMA OutputStep ==
  ASSUME ExecutionInv, NEW e \in ExecutionIds, RecordSuccess(e), HoldsLease(e)
  PROVE  ExecutionInv'
<1> USE DEF ExecutionInv
<1> DEFINE t == execution[e].task
           ref == Outcome(e)
           entry == [Idle("settled") EXCEPT !.ref = ref]
<1>1. /\ execution[e].stage = "succeeded"
      /\ run' = TaskSucceeded(run, t, e)
      /\ execution' = [execution EXCEPT ![e] = entry]
      /\ UNCHANGED <<now, download, undisturbed, serving, interruptions, storeVars>>
  BY DEF RecordSuccess, RecordAs, Commits
<1>2. /\ "succeeded" \in InProgress /\ "succeeded" \notin Storing \cup {"lost"}
      /\ "settled" \in Stage /\ "settled" \notin InProgress /\ "settled" \notin Storing
      /\ "settled" \notin Invoking
  BY DEF Stage, InProgress, Invoking, Storing
<1>3. t \in Tasks /\ execution[e] \in Entries /\ run.task_statuses[t] = "running"
  BY <1>1, <1>2, EntryFacts DEF HoldsLease, IsActiveExecution
<1>4. entry \in Entries /\ entry.stage = "settled" /\ entry.ref = ref
  <2>1. 0 \in 0 .. MaxWallSeconds
    BY TimesAssumption
  <2> QED
    BY <1>2, <1>3, <2>1 DEF Idle, Entries, Outcome
<1> HIDE DEF entry, ref
<1>5. /\ execution' \in [ExecutionIds -> Entries] /\ execution'[e] = entry
      /\ \A x \in ExecutionIds : x # e => execution'[x] = execution[x]
  BY <1>1, <1>4 DEF TypeOK, Entries
<1>6. /\ run' \in Snapshot
      /\ run'.plan = run.plan
      /\ run'.task_statuses = [run.task_statuses EXCEPT ![t] = "succeeded"]
      /\ run'.task_outputs = [run.task_outputs EXCEPT ![t] = e]
  BY <1>1, <1>3 DEF TypeOK, TaskSucceeded, Snapshot, TaskStatus, MaybeExecution
<1> HIDE DEF t
<1>7. \A u \in Tasks :
        /\ run'.task_statuses[u] = IF u = t THEN "succeeded" ELSE run.task_statuses[u]
        /\ run'.task_outputs[u] = IF u = t THEN e ELSE run.task_outputs[u]
  BY <1>3, <1>6 DEF TypeOK, Snapshot
<1>8. ASSUME NEW u \in Tasks, DependenciesSucceeded(run, u)
      PROVE  DependenciesSucceeded(run', u)
  <2>1. run.plan.dependencies[u] \subseteq Tasks
    BY PlansAssumption DEF PlanShape, RunOK
  <2> QED
    BY <1>6, <1>7, <1>8, <2>1 DEF DependenciesSucceeded
<1>9. TypeOK'
  BY <1>1, <1>5, <1>6 DEF TypeOK, StoreTypeOK, storeVars, Entries
<1>10. RunOK'
  BY <1>6, <1>7, <1>8 DEF RunOK
<1>11. OutputsSettled'
  <2>1. ASSUME NEW u \in Tasks, run'.task_outputs[u] \in ExecutionIds
        PROVE  execution'[run'.task_outputs[u]].stage = "settled"
    <3>1. CASE u = t
      BY <1>4, <1>5, <1>7, <3>1
    <3>2. CASE u # t
      <4>1. run'.task_outputs[u] = run.task_outputs[u]
        BY <1>7, <3>2
      <4>2. execution[run.task_outputs[u]].stage = "settled"
        BY <2>1, <4>1 DEF OutputsSettled
      <4>3. run.task_outputs[u] # e
        BY <1>1, <4>2
      <4> QED
        BY <1>5, <2>1, <4>1, <4>2, <4>3
    <3> QED
      BY <3>1, <3>2
  <2> QED
    BY <2>1 DEF OutputsSettled
<1>12. ExecutionsOK'
  <2>1. ASSUME NEW x \in ExecutionIds
        PROVE  EntryOK(x)'
    <3>1. CASE x = e
      BY <1>2, <1>4, <1>5, <3>1 DEF EntryOK
    <3>2. CASE x # e
      <4>1. execution'[x] = execution[x] /\ EntryOK(x)
        BY <1>5, <3>2 DEF ExecutionsOK
      <4> QED
        BY <1>8, <4>1 DEF EntryOK
    <3> QED
      BY <3>1, <3>2
  <2> QED
    BY <2>1 DEF ExecutionsOK
<1>13. \A d \in Digests : files[d] = "whole" => files'[d] = "whole"
  BY <1>1 DEF storeVars
<1>14. ASSUME NEW u \in Tasks, DependenciesSucceeded(run, u)
       PROVE  InputArtifacts(u)' = InputArtifacts(u)
  <2>1. \A d \in Tasks : run.task_statuses[d] = "succeeded" =>
                           run'.task_outputs[d] = run.task_outputs[d]
    BY <1>3, <1>7
  <2>2. \A x \in ExecutionIds : execution[x].stage = "settled" => execution'[x] = execution[x]
    BY <1>1, <1>5
  <2> QED
    BY <1>6, <1>14, <2>1, <2>2, InputsStay
<1>15. ASSUME NEW u \in ArtifactTasks, run'.task_outputs[u] \in undisturbed'
       PROVE  Verifies(Outcome(run.task_outputs[u]))'
  <2>0. u \in Tasks
    BY ArtifactTasksAssumption
  <2>1. CASE u = t
    <3>1. run'.task_outputs[u] = e /\ e \in undisturbed
      BY <1>1, <1>7, <1>15, <2>0, <2>1
    <3>2. ref \in References /\ ref = execution[e].ref
      BY <1>1, <2>1 DEF ExecutionsOK, EntryOK, ref, Outcome, t
    <3>3. Verifies(ref)
      BY <1>1, <3>1, <3>2, NamesAssumption DEF ArtifactsGenuine, Outcome
    <3>4. execution'[e].ref = ref
      BY <1>4, <1>5
    <3> QED
      BY <1>13, <3>1, <3>3, <3>4, VerifiesStill DEF Verifies, Outcome
  <2>2. CASE u # t
    <3>1. run'.task_outputs[u] = run.task_outputs[u] /\ run.task_outputs[u] \in undisturbed
      BY <1>1, <1>7, <1>15, <2>0, <2>2
    <3>2. run.task_outputs[u] \in ExecutionIds
      <4>1. run.task_outputs[u] \in ExecutionIds \cup {None}
        BY <2>0 DEF TypeOK, Snapshot, MaybeExecution
      <4> QED
        BY <3>1, <4>1, NamesAssumption DEF TypeOK
    <3>3. execution'[run.task_outputs[u]] = execution[run.task_outputs[u]]
      BY <1>1, <1>5, <2>0, <3>2 DEF OutputsSettled
    <3>4. Verifies(Outcome(run.task_outputs[u]))
      BY <3>1 DEF ArtifactsGenuine
    <3> QED
      BY <1>13, <3>1, <3>3, <3>4, VerifiesStill DEF Verifies, Outcome
  <2> QED
    BY <2>1, <2>2
<1>16. ASSUME NEW x \in ExecutionIds, x \in undisturbed'
       PROVE  GenuineAt(x)'
  <2>1. CASE x = e
    BY <1>2, <1>4, <1>5, <2>1 DEF GenuineAt
  <2>2. CASE x # e
    <3>1. execution'[x] = execution[x] /\ GenuineAt(x)
      BY <1>1, <1>5, <1>16, <2>2 DEF ArtifactsGenuine, GenuineAt
    <3>2. execution[x].stage \in Invoking =>
            execution[x].task \in Tasks /\ DependenciesSucceeded(run, execution[x].task)
      BY DEF ExecutionsOK, EntryOK, InProgress
    <3>3. \A u \in Tasks : u = execution[x].task /\ execution[x].stage \in Invoking =>
            InputArtifacts(u)' = InputArtifacts(u)
      BY <1>14, <3>2
    <3>4. execution[x].stage \in Invoking =>
            InputArtifacts(execution[x].task)' = InputArtifacts(execution[x].task)
      BY <3>1, <3>2, <3>3 DEF InputArtifacts
    <3> QED
      BY <1>13, <3>1, <3>4, VerifiesStill DEF GenuineAt, Outcome, Verifies
  <2> QED
    BY <2>1, <2>2
<1>17. Client \in undisturbed' => Verifies(download)'
  BY <1>1 DEF ArtifactsGenuine, Verifies, storeVars
<1>18. ArtifactsGenuine'
  BY <1>15, <1>16, <1>17 DEF ArtifactsGenuine, GenuineAt
<1>19. NoTemporaryLeft'
  <2>1. e \notin temporaries
    BY <1>1, <1>2 DEF NoTemporaryLeft
  <2> QED
    BY <1>1, <1>5, <2>1 DEF NoTemporaryLeft, storeVars, TypeOK
<1> QED
  BY <1>9, <1>10, <1>11, <1>12, <1>18, <1>19

LEMMA RecordSuccessStep ==
  ASSUME ExecutionInv, NEW e \in ExecutionIds, RecordSuccess(e)
  PROVE  ExecutionInv'
<1>1. CASE HoldsLease(e)
  BY <1>1, OutputStep
<1>2. CASE ~HoldsLease(e)
  <2>1. RecordAs(e, run, None) /\ execution[e].stage = "succeeded"
    BY <1>2 DEF RecordSuccess
  <2> QED
    BY <2>1, EntryFacts, SettleStep
<1> QED
  BY <1>1, <1>2

-----------------------------------------------------------------------------
(***************************************************************************)
(* All steps                                                               *)
(***************************************************************************)

LEMMA InitialExecutions ==
  ASSUME Init
  PROVE  ExecutionInv
<1> PICK p \in Plans : run = WithStatus(Planned(NewRun, p), "running")
  BY DEF Init
<1>1. /\ run \in Snapshot /\ run.plan = p
      /\ \A t \in Tasks : run.task_statuses[t] = "pending" /\ run.task_outputs[t] = None
  BY DEF NewRun, Planned, WithStatus, Snapshot, RunStatus, TaskStatus, MaybeExecution
<1>2. \A e \in ExecutionIds : execution[e] = Idle("unclaimed")
  BY DEF Init
<1>3. /\ "unclaimed" \in Stage /\ "unclaimed" \notin InProgress
      /\ "unclaimed" \notin Storing /\ "unclaimed" \notin Invoking
  BY DEF Stage, InProgress, Invoking, Storing
<1>4. Idle("unclaimed") \in Entries /\ Idle("unclaimed").stage = "unclaimed"
  <2>1. 0 \in 0 .. MaxWallSeconds
    BY TimesAssumption
  <2> QED
    BY <1>3, <2>1 DEF Idle, Entries
<1>5. TypeOK
  <2>1. now \in 0 .. MaxWallSeconds /\ interruptions \in 0 .. MaxInterruptions
    BY TimesAssumption DEF Init
  <2>2. execution \in [ExecutionIds -> Entries]
    BY <1>4 DEF Init
  <2>3. StoreTypeOK /\ temporaries \subseteq ExecutionIds
    BY DEF Init, StoreInit, StoreTypeOK
  <2>4. serving \in BOOLEAN
    BY DEF Init
  <2>5. download \in References \cup {None} /\ undisturbed \subseteq ExecutionIds \cup {Client}
    BY DEF Init
  <2> QED
    BY <1>1, <2>1, <2>2, <2>3, <2>4, <2>5 DEF TypeOK, Entries
<1>6. RunOK
  BY <1>1 DEF RunOK
<1>7. OutputsSettled
  BY <1>1, NoneAssumption DEF OutputsSettled
<1>8. ExecutionsOK
  BY <1>2, <1>3, <1>4 DEF ExecutionsOK, EntryOK
<1>9. ArtifactsGenuine
  BY DEF Init, ArtifactsGenuine
<1>10. NoTemporaryLeft
  BY DEF Init, StoreInit, NoTemporaryLeft
<1> QED
  BY <1>5, <1>6, <1>7, <1>8, <1>9, <1>10 DEF ExecutionInv

LEMMA AnyStep ==
  ASSUME ExecutionInv, [Next]_vars
  PROVE  ExecutionInv'
<1>1. CASE Tick \/ Pause \/ Resume \/ Cancel \/ Restart \/ Conclude
  BY <1>1, CommandStep
<1>2. CASE Crash
  BY <1>2, CrashStep
<1>3. ASSUME NEW t \in Tasks, MarkReady(t) \/ Claim(t) \/ OpenArtifact(t)
      PROVE  ExecutionInv'
  BY <1>3, MarkReadyStep, ClaimStep, ClientStep
<1>4. ASSUME NEW e \in ExecutionIds, RuntimeStep(e)
      PROVE  ExecutionInv'
  BY <1>4, BeginExecutionStep, ValidateInputsStep, EndPutStep, InvocationFailsStep,
     ValidateOutputsStep, RecordSuccessStep, RecordFailureStep DEF RuntimeStep
<1>5. ASSUME NEW e \in ExecutionIds, CapabilityStep(e)
      PROVE  ExecutionInv'
  BY <1>5, StartPutStep, CapabilityReturnsStep, InvocationFailsStep DEF CapabilityStep
<1>6. ASSUME NEW e \in ExecutionIds, ChunkStep(e)
      PROVE  ExecutionInv'
  BY <1>6, ChunksEndStep, UploadFailsStep DEF ChunkStep
<1>7. CASE DownloadEnds \/ OutsideDamage
  BY <1>7, ClientStep, DamageStep
<1>8. CASE UNCHANGED vars
  <2>1. /\ UNCHANGED <<run, now, execution, download, undisturbed, serving, interruptions>>
        /\ UNCHANGED storeVars
    BY <1>8 DEF vars
  <2>2. /\ Keeps(run, run') /\ now' \in 0 .. MaxWallSeconds /\ serving' \in BOOLEAN
        /\ interruptions' \in 0 .. MaxInterruptions /\ download' \in References \cup {None}
        /\ Client \in undisturbed' => Verifies(download')
    BY <2>1, SameRunKept DEF ExecutionInv, TypeOK, ArtifactsGenuine
  <2> QED
    BY <2>1, <2>2, RunStep
<1> QED
  BY <1>1, <1>2, <1>3, <1>4, <1>5, <1>6, <1>7, <1>8 DEF Next

LEMMA ExecutionInvariant == Spec => []ExecutionInv
<1>1. Init => ExecutionInv
  BY InitialExecutions
<1>2. ExecutionInv /\ [Next]_vars => ExecutionInv'
  BY AnyStep
<1> QED
  BY <1>1, <1>2, PTL DEF Spec

-----------------------------------------------------------------------------
(***************************************************************************)
(* What the runs check                                                     *)
(***************************************************************************)

\* Every value of the model is of its type: no deadline lies beyond the budget, and time,
\* interruptions and temporary files stay within theirs.
THEOREM ExecutionTypeCorrect == Spec => []TypeOK
BY ExecutionInvariant, PTL DEF ExecutionInv

\* Nobody but another program breaks an artifact: what _validate_outputs, _validate_inputs
\* and get_artifact have verified stays whole while it is recorded, used and downloaded,
\* whatever uploads, failures, retries, late results and crashes there are.
THEOREM ArtifactsStayGenuine == Spec => []ArtifactsGenuine
BY ExecutionInvariant, PTL DEF ExecutionInv

\* put() leaves its temporary file only to a process that dies in it.
THEOREM UploadsCleanUp == Spec => []NoTemporaryLeft
BY ExecutionInvariant, PTL DEF ExecutionInv

=============================================================================
