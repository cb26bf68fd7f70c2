---------------------------- MODULE TaskExecution ----------------------------
(***************************************************************************)
(* What happens between the claim of a task and its recorded outcome:      *)
(* _execute_task under its deadline, the artifacts it verifies, and the    *)
(* store its capability writes to.  Around it the commits of RunLifecycle, *)
(* without versions and events, so that the state is what the next steps   *)
(* depend on; an artifact is served to a client meanwhile.                 *)
(*                                                                         *)
(* Time is counted in ticks since the run was created, up to its budget:   *)
(* later moments are alike.  The capability is external: it may store one  *)
(* content, return any reference, raise, or never return.                  *)
(***************************************************************************)
EXTENDS RunModel, ArtifactStore

CONSTANTS
  MaxWallSeconds,   \* RunBudget.max_wall_seconds
  TimeoutSeconds,   \* TaskSpec.timeout_seconds of every task
  MaxInterruptions  \* bounds pauses and crashes together, but not the final cancel

ASSUME TimesAssumption ==
  MaxWallSeconds \in Nat \ {0} /\ TimeoutSeconds \in Nat \ {0} /\ MaxInterruptions \in Nat

VARIABLES
  run,            \* the stored snapshot
  now,            \* time elapsed since created_at
  execution,      \* task, progress, deadline and artifact reference of each execution
  download,       \* the reference of the artifact being sent to a client
  undisturbed,    \* history: who passed a verification after the last outside damage
  serving,        \* the process is up
  interruptions

vars == <<run, now, execution, download, undisturbed, serving, interruptions, storeVars>>

Client == "client"

ASSUME NamesAssumption == None \notin References /\ Client \notin ExecutionIds \cup {None}

Idle(stage) == [task |-> None, stage |-> stage, deadline |-> 0, ref |-> None]

\* The stages of put(), which runs in CancelScope(shield=True).
Storing    == {"storing", "replacing", "discarding"}
Invoking   == {"invoking"} \cup Storing
InProgress == {"claimed", "inputs", "outputs", "succeeded", "failed"} \cup Invoking

Stage == {"unclaimed", "settled", "lost"} \cup InProgress

Outcome(e) == execution[e].ref

\* _dependency_artifacts: the references recorded for the direct dependencies.
InputArtifacts(t) ==
  {Outcome(run.task_outputs[d]) : d \in run.plan.dependencies[t] \cap ArtifactTasks}

Init ==
  /\ \E p \in Plans : run = WithStatus(Planned(NewRun, p), "running")
  /\ now = 0
  /\ execution = [e \in ExecutionIds |-> Idle("unclaimed")]
  /\ download = None
  /\ undisturbed = {}
  /\ serving = TRUE
  /\ interruptions = 0
  /\ StoreInit

Tick ==
  /\ now < MaxWallSeconds
  /\ now' = now + 1
  /\ UNCHANGED <<run, execution, download, undisturbed, serving, interruptions, storeVars>>

-----------------------------------------------------------------------------
(***************************************************************************)
(* The executor and the commands                                           *)
(***************************************************************************)
Commits(changed) ==
  /\ serving
  /\ run' = changed
  /\ UNCHANGED <<now, download, undisturbed, serving, storeVars>>

Schedulable(t) ==
  /\ run.status = "running"
  /\ Cardinality(InFlight(run)) < MaxConcurrency
  /\ IsNextRunnable(run, t)

\* The uuid4 of the next claim.
Unclaimed == {e \in ExecutionIds : execution[e].stage = "unclaimed"}

\* A task becomes ready without a look at its input artifacts.
MarkReady(t) ==
  /\ Schedulable(t)
  /\ run.task_statuses[t] = "pending"
  /\ Commits(TaskReady(run, t))
  /\ UNCHANGED <<execution, interruptions>>

Claim(t) ==
  LET e == CHOOSE e \in Unclaimed : TRUE
  IN  /\ Schedulable(t)
      /\ run.task_statuses[t] = "ready"
      /\ Unclaimed # {}
      /\ execution' = [execution EXCEPT ![e].task = t, ![e].stage = "claimed"]
      /\ Commits(TaskRunning(run, t, e))
      /\ UNCHANGED interruptions

Conclude ==
  /\ run.status = "running"
  /\ InFlight(run) = {}
  /\ RunnableTasks(run) = {}
  /\ Commits(IF AllTasksSucceeded(run) THEN WithStatus(run, "succeeded")
                                       ELSE BlockedRunFailed(run))
  /\ UNCHANGED <<execution, interruptions>>

Pause ==
  /\ interruptions < MaxInterruptions
  /\ interruptions' = interruptions + 1
  /\ run.status = "running"
  /\ Commits(Paused(run))
  /\ UNCHANGED execution

Resume ==
  /\ run.status = "paused"
  /\ Commits(WithStatus(run, "running"))
  /\ UNCHANGED <<execution, interruptions>>

Cancel ==
  /\ run.status \in {"running", "paused"}
  /\ Commits(Cancelled(run))
  /\ UNCHANGED <<execution, interruptions>>

\* The process dies with its executions and leaves their temporary files.
Crash ==
  /\ serving
  /\ interruptions < MaxInterruptions
  /\ interruptions' = interruptions + 1
  /\ serving' = FALSE
  /\ execution' = [e \in ExecutionIds |->
                     IF execution[e].stage \in InProgress
                       THEN Idle("lost")
                       ELSE execution[e]]
  /\ download' = None
  /\ undisturbed' = undisturbed \ {Client}
  /\ UNCHANGED <<run, now, storeVars>>

\* Startup recovery comes before serving.
Restart ==
  /\ ~serving
  /\ serving' = TRUE
  /\ run' = IF run.status = "running" THEN Paused(run) ELSE run
  /\ UNCHANGED <<now, execution, download, undisturbed, interruptions, storeVars>>

-----------------------------------------------------------------------------
(***************************************************************************)
(* _execute_task                                                           *)
(***************************************************************************)
Moves(e, from, to) ==
  /\ execution[e].stage = from
  /\ execution' = [execution EXCEPT ![e].stage = to]
  /\ UNCHANGED <<run, now, download, serving, interruptions>>

\* Faulty: a task takes its whole timeout, whatever is left of the budget.
ExecutionTimeout_OfTask == TimeoutSeconds

\* _execution_timeout: what is left of the budget, which pauses use up too, or the
\* timeout of the task if that is less.
ExecutionTimeout ==
  IF MaxWallSeconds - now <= TimeoutSeconds THEN MaxWallSeconds - now ELSE TimeoutSeconds

BeginExecution(e) ==
  /\ execution[e].stage = "claimed"
  /\ execution' = [execution EXCEPT
                     ![e].deadline = now + ExecutionTimeout,
                     ![e].stage = IF ExecutionTimeout = 0 THEN "failed" ELSE "inputs"]
  /\ UNCHANGED <<run, now, download, undisturbed, serving, interruptions, storeVars>>

Verified(e, refs, stage) ==
  /\ IF \A ref \in refs : Verifies(ref)
       THEN undisturbed' = undisturbed \cup {e} /\ Moves(e, execution[e].stage, stage)
       ELSE UNCHANGED undisturbed /\ Moves(e, execution[e].stage, "failed")
  /\ UNCHANGED storeVars

ValidateInputs(e) ==
  /\ execution[e].stage = "inputs"
  /\ Verified(e, InputArtifacts(execution[e].task), "invoking")

\* The capability calls put() and hands over its chunks one by one.
StartPut(e, d) ==
  /\ execution[e].stage = "invoking"
  /\ execution[e].ref = None
  /\ execution' = [execution EXCEPT ![e].stage = "storing", ![e].ref = d]
  /\ OpenTemporary(e)
  /\ UNCHANGED <<run, now, download, undisturbed, serving, interruptions>>

\* The last chunk: destination.exists() decides what becomes of the upload.
ChunksEnd(e) ==
  /\ Moves(e, "storing", IF Exists(execution[e].ref) THEN "discarding" ELSE "replacing")
  /\ UNCHANGED <<undisturbed, storeVars>>

\* A chunk that is not bytes or that its producer fails to make, or a file operation
\* that fails; the capability may catch the error, but stores nothing further.
UploadFails(e) ==
  /\ execution[e].stage \in Storing
  /\ execution' = [execution EXCEPT ![e].stage = "invoking", ![e].ref = Forged]
  /\ RemoveTemporary(e)
  /\ UNCHANGED <<run, now, download, undisturbed, serving, interruptions>>

EndPut(e) ==
  \/ /\ Moves(e, "replacing", "invoking")
     /\ ReplaceDestination(e, execution[e].ref)
     /\ UNCHANGED undisturbed
  \/ /\ Moves(e, "discarding", "invoking")
     /\ RemoveTemporary(e)
     /\ UNCHANGED undisturbed

\* The capability returns a reference of its own making if it is to return one.
CapabilityReturns(e, ref) ==
  /\ execution[e].stage = "invoking"
  /\ execution' = [execution EXCEPT
                     ![e].stage = "outputs",
                     ![e].ref = IF execution[e].task \in ArtifactTasks THEN ref ELSE None]
  /\ UNCHANGED <<run, now, download, undisturbed, serving, interruptions, storeVars>>

CapabilityRaises(e) ==
  /\ Moves(e, "invoking", "failed")
  /\ UNCHANGED <<undisturbed, storeVars>>

\* fail_after cancels an invocation outside put(); it is not cancelled inside.
TimeExpires(e) ==
  /\ now >= execution[e].deadline
  /\ Moves(e, "invoking", "failed")
  /\ UNCHANGED <<undisturbed, storeVars>>

\* Faulty: what the capability returns is recorded as it is.
ValidateOutputs_Trusting(e) ==
  /\ Moves(e, "outputs", "succeeded")
  /\ undisturbed' = undisturbed \cup {e}
  /\ UNCHANGED storeVars

ValidateOutputs(e) ==
  /\ execution[e].stage = "outputs"
  /\ Verified(e, {Outcome(e)} \ {None}, "succeeded")

HoldsLease(e) == IsActiveExecution(run, execution[e].task, e)

\* Of a settled execution only the recorded reference is of any further use.
RecordAs(e, changed, ref) ==
  /\ Commits(changed)
  /\ execution' = [execution EXCEPT ![e] = [Idle("settled") EXCEPT !.ref = ref]]
  /\ UNCHANGED interruptions

RecordSuccess(e) ==
  /\ execution[e].stage = "succeeded"
  /\ IF HoldsLease(e)
       THEN RecordAs(e, TaskSucceeded(run, execution[e].task, e), Outcome(e))
       ELSE RecordAs(e, run, None)

\* Faulty: a task is tried again for as long as it fails.
RecordFailure_Retrying(e) ==
  LET t == execution[e].task
  IN  /\ execution[e].stage = "failed"
      /\ RecordAs(e, IF HoldsLease(e) THEN TaskRetrying(run, t) ELSE run, None)

RecordFailure(e) ==
  LET t == execution[e].task
  IN  /\ execution[e].stage = "failed"
      /\ RecordAs(e, IF ~HoldsLease(e) THEN run
                     ELSE IF run.task_attempts[t] < run.plan.max_attempts[t]
                       THEN TaskRetrying(run, t)
                       ELSE TaskAndRunFailed(run, t), None)

-----------------------------------------------------------------------------
(***************************************************************************)
(* A client downloads an artifact: get_artifact verifies, open() does not. *)
(***************************************************************************)
OpenArtifact(t) ==
  /\ serving /\ download = None
  /\ t \in ArtifactTasks /\ run.task_statuses[t] = "succeeded"
  /\ Verifies(Outcome(run.task_outputs[t]))
  /\ download' = Outcome(run.task_outputs[t])
  /\ undisturbed' = undisturbed \cup {Client}
  /\ UNCHANGED <<run, now, execution, serving, interruptions, storeVars>>

DownloadEnds ==
  /\ download # None
  /\ download' = None
  /\ undisturbed' = undisturbed \ {Client}
  /\ UNCHANGED <<run, now, execution, serving, interruptions, storeVars>>

OutsideDamage ==
  /\ \E d \in Digests : Tamper(d)
  /\ undisturbed' = {}
  /\ UNCHANGED <<run, now, execution, download, serving, interruptions>>

-----------------------------------------------------------------------------
\* What the runtime itself does for an execution, once it may go on.
RuntimeStep(e) ==
  \/ BeginExecution(e) \/ ValidateInputs(e) \/ EndPut(e) \/ TimeExpires(e)
  \/ ValidateOutputs(e) \/ RecordSuccess(e) \/ RecordFailure(e)

CapabilityStep(e) ==
  \/ \E d \in Digests : StartPut(e, d)
  \/ \E ref \in References : CapabilityReturns(e, ref)
  \/ CapabilityRaises(e)

ChunkStep(e) == ChunksEnd(e) \/ UploadFails(e)

Next ==
  \/ Tick \/ Pause \/ Resume \/ Cancel \/ Crash \/ Restart \/ Conclude
  \/ \E t \in Tasks : MarkReady(t) \/ Claim(t) \/ OpenArtifact(t)
  \/ \E e \in ExecutionIds : RuntimeStep(e) \/ CapabilityStep(e) \/ ChunkStep(e)
  \/ DownloadEnds \/ OutsideDamage

Spec == Init /\ [][Next]_vars

\* The event loop serves the executor and every execution, and time passes.  A
\* capability owes nothing: it may hang wherever it waits.
RuntimeFairness ==
  /\ WF_vars(Tick)
  /\ WF_vars(Conclude \/ \E t \in Tasks : MarkReady(t) \/ Claim(t))
  /\ \A e \in ExecutionIds : WF_vars(RuntimeStep(e))

HangingSpec == Spec /\ RuntimeFairness

\* Capabilities that go on producing the chunks of what they have begun to store.
FairSpec == HangingSpec /\ \A e \in ExecutionIds : WF_vars(ChunkStep(e))

-----------------------------------------------------------------------------
(***************************************************************************)
(* Properties                                                              *)
(***************************************************************************)
TypeOK ==
  /\ run \in Snapshot
  /\ now \in 0 .. MaxWallSeconds
  /\ execution \in [ExecutionIds -> [task     : Tasks \cup {None},
                                     stage    : Stage,
                                     deadline : 0 .. MaxWallSeconds,
                                     ref      : References \cup {None}]]
  /\ download \in References \cup {None}
  /\ undisturbed \subseteq ExecutionIds \cup {Client}
  /\ serving \in BOOLEAN
  /\ interruptions \in 0 .. MaxInterruptions
  /\ temporaries \subseteq ExecutionIds
  /\ StoreTypeOK

\* Nobody but another program breaks an artifact.  A recorded reference was whole
\* when it was recorded, even if put() found a damaged file in its place, and stays so
\* through later uploads of the same content, their failures and crashes; and an input
\* or a download that passed its verification is whole while it is used.
ArtifactsGenuine ==
  /\ \A t \in ArtifactTasks :
       run.task_outputs[t] \in undisturbed => Verifies(Outcome(run.task_outputs[t]))
  /\ \A e \in undisturbed \cap ExecutionIds :
       /\ execution[e].stage = "succeeded" /\ Outcome(e) # None => Verifies(Outcome(e))
       /\ execution[e].stage \in Invoking =>
            \A ref \in InputArtifacts(execution[e].task) : Verifies(ref)
  /\ Client \in undisturbed => Verifies(download)

\* A temporary file exists only while its put() goes on, or because the process died
\* in it: failures and deduplication leave none.
NoTemporaryLeft ==
  \A e \in temporaries : execution[e].stage \in Storing \cup {"lost"}

\* A running run whose wall-clock budget is used up ends or is paused, although every
\* retry is still taken and a capability may hang outside the store.
ExhaustedRunEnds ==
  run.status = "running" /\ serving /\ now = MaxWallSeconds
    ~> run.status # "running" \/ ~serving

\* "timeout_seconds and max_wall_seconds must really limit the execution of a
\* capability" (M1 hardening record).
InvocationsEnd ==
  \A e \in ExecutionIds : execution[e].stage \in Invoking ~> execution[e].stage \notin Invoking
=============================================================================
