-------------------------- MODULE EventStreamProofs --------------------------
(***************************************************************************)
(* What a client of the event stream receives, proved for every run, any   *)
(* number of reconnections and any interleaving of the generator with the  *)
(* commits.                                                                *)
(*                                                                         *)
(* The argument: the cursor of a live connection is the number of events   *)
(* the client received (CursorOK), and events are only ever appended, so   *)
(* what a listing held stays stored while it is sent.                      *)
(***************************************************************************)
EXTENDS EventStream, SequenceTheorems, TLAPS

\* The run, with what is proved of it.
P == INSTANCE RunEventLogProofs

(***************************************************************************)
(* The two instances of the lifecycle mean the same                        *)
(***************************************************************************)

\* What P assumes of its constants is what this module assumes.
LEMMA LifecycleAssumptions ==
  /\ P!TaskCountAssumption /\ P!PlansAssumption /\ P!ArtifactTasksAssumption
  /\ P!MaxConcurrencyAssumption /\ P!NoneAssumption /\ P!LeaseAssumption
  /\ P!MaxInterruptionsAssumption
<1>1. P!PlansAssumption
  BY PlansAssumption
     DEF P!PlansAssumption, PlansAssumption, P!PlanShape, PlanShape, P!Acyclic, Acyclic,
         P!IsRanking, IsRanking, P!Tasks, Tasks
<1> QED
  BY <1>1, TaskCountAssumption, ArtifactTasksAssumption, MaxConcurrencyAssumption,
     NoneAssumption, LeaseAssumption, BoundsAssumption
     DEF P!TaskCountAssumption, P!ArtifactTasksAssumption, P!MaxConcurrencyAssumption,
         P!NoneAssumption, P!LeaseAssumption, P!MaxInterruptionsAssumption, P!Lease, Lease,
         P!Tasks, Tasks

LEMMA SameCardinality ==
  ASSUME NEW S
  PROVE  P!Cardinality(S) = Cardinality(S) /\ Lifecycle!Cardinality(S) = Cardinality(S)
BY DEF P!Cardinality, Lifecycle!Cardinality, Cardinality

\* The steps of the run in EventStream are steps of P.
LEMMA SameLifecycle ==
  /\ Lifecycle!Init => P!Init
  /\ [Lifecycle!Next]_(Lifecycle!vars) => [P!Next]_(P!vars)
<1> USE DEF Lifecycle!Tasks, Tasks, P!Tasks, Lifecycle!InFlight, P!InFlight
<1>c. \A s, drafts : Lifecycle!Commit(s, drafts) = P!Commit(s, drafts)
  BY DEF Lifecycle!Commit, P!Commit
<1>k. /\ \A kind : Lifecycle!OnRun(kind) = P!OnRun(kind)
      /\ \A kind, t : Lifecycle!OnTask(kind, t) = P!OnTask(kind, t)
      /\ \A kind, t, e : Lifecycle!OnExecution(kind, t, e) = P!OnExecution(kind, t, e)
  BY DEF Lifecycle!OnRun, P!OnRun, Lifecycle!OnTask, P!OnTask, Lifecycle!OnExecution,
         P!OnExecution
<1>m. /\ \A t, e : Lifecycle!SuccessEvents(t, e) = P!SuccessEvents(t, e)
      /\ \A t, e : Lifecycle!FailureEvents(t, e) = P!FailureEvents(t, e)
  BY DEF Lifecycle!SuccessEvents, P!SuccessEvents, Lifecycle!FailureEvents, P!FailureEvents,
         Lifecycle!OnRun, P!OnRun, Lifecycle!OnTask, P!OnTask, Lifecycle!OnExecution,
         P!OnExecution
<1>u. Lifecycle!Unclaimed = P!Unclaimed /\ Lifecycle!Outstanding = P!Outstanding
  BY DEF Lifecycle!Unclaimed, P!Unclaimed, Lifecycle!Outstanding, P!Outstanding
<1>i. Lifecycle!Interruptions = P!Interruptions
  BY SameCardinality DEF Lifecycle!Interruptions, P!Interruptions
<1>h. \A e : Lifecycle!HoldsLease(e) <=> P!HoldsLease(e)
  BY DEF Lifecycle!HoldsLease, P!HoldsLease, Lifecycle!IsActiveExecution, P!IsActiveExecution
<1>r. Lifecycle!RunnableTasks(run) = P!RunnableTasks(run)
  BY DEF Lifecycle!RunnableTasks, P!RunnableTasks, Lifecycle!DependenciesSucceeded,
         P!DependenciesSucceeded
<1>s. \A t : Lifecycle!Schedulable(t) <=> P!Schedulable(t)
  BY <1>r, SameCardinality
     DEF Lifecycle!Schedulable, P!Schedulable, Lifecycle!IsNextRunnable, P!IsNextRunnable
<1>1. Lifecycle!Init => P!Init
  BY <1>k DEF Lifecycle!Init, P!Init, Lifecycle!NewRun, P!NewRun
<1>2. Lifecycle!Plan => P!Plan
  BY <1>c, <1>k DEF Lifecycle!Plan, P!Plan, Lifecycle!Planned, P!Planned, Lifecycle!WithStatus,
                    P!WithStatus
<1>3. Lifecycle!Start => P!Start
  BY <1>c, <1>k DEF Lifecycle!Start, P!Start, Lifecycle!WithStatus, P!WithStatus
<1>4. Lifecycle!Pause => P!Pause
  BY <1>c, <1>k, <1>i DEF Lifecycle!Pause, P!Pause, Lifecycle!Paused, P!Paused
<1>5. Lifecycle!Resume => P!Resume
  BY <1>c, <1>k DEF Lifecycle!Resume, P!Resume, Lifecycle!WithStatus, P!WithStatus
<1>6. Lifecycle!Cancel => P!Cancel
  BY <1>c, <1>k DEF Lifecycle!Cancel, P!Cancel, Lifecycle!Cancelled, P!Cancelled,
                    Lifecycle!TerminalRunStatuses, P!TerminalRunStatuses
<1>7. Lifecycle!Recover => P!Recover
  BY <1>c, <1>k, <1>i DEF Lifecycle!Recover, P!Recover, Lifecycle!Paused, P!Paused
<1>8. Lifecycle!Conclude => P!Conclude
  BY <1>c, <1>k, <1>r
     DEF Lifecycle!Conclude, P!Conclude, Lifecycle!AllTasksSucceeded, P!AllTasksSucceeded,
         Lifecycle!WithStatus, P!WithStatus, Lifecycle!BlockedRunFailed, P!BlockedRunFailed
<1>9. \A t : Lifecycle!MarkReady(t) => P!MarkReady(t)
  BY <1>c, <1>k, <1>s DEF Lifecycle!MarkReady, P!MarkReady, Lifecycle!TaskReady, P!TaskReady
<1>10. \A t, e : Lifecycle!Claim(t, e) => P!Claim(t, e)
  BY <1>c, <1>k, <1>s, <1>u DEF Lifecycle!Claim, P!Claim, Lifecycle!TaskRunning, P!TaskRunning
<1>11. \A e : Lifecycle!RecordSuccess(e) => P!RecordSuccess(e)
  BY <1>c, <1>m, <1>u, <1>h
     DEF Lifecycle!RecordSuccess, P!RecordSuccess, Lifecycle!TaskSucceeded, P!TaskSucceeded
<1>12. \A e : Lifecycle!RecordRetry(e) => P!RecordRetry(e)
  BY <1>c, <1>k, <1>u, <1>h
     DEF Lifecycle!RecordRetry, P!RecordRetry, Lifecycle!TaskRetrying, P!TaskRetrying
<1>13. \A e : Lifecycle!RecordFailure(e) => P!RecordFailure(e)
  <2>1. \A s, t : Lifecycle!TaskAndRunFailed(s, t) = P!TaskAndRunFailed(s, t)
    BY DEF Lifecycle!TaskAndRunFailed, P!TaskAndRunFailed, Lifecycle!BlockedDescendants,
           P!BlockedDescendants, Lifecycle!Dependents, P!Dependents
  <2> QED
    BY <1>c, <1>m, <1>u, <1>h, <2>1 DEF Lifecycle!RecordFailure, P!RecordFailure
<1>14. \A e : Lifecycle!RecordIgnored(e) => P!RecordIgnored(e)
  BY <1>c, <1>k, <1>u, <1>h DEF Lifecycle!RecordIgnored, P!RecordIgnored
<1>15. UNCHANGED Lifecycle!vars => UNCHANGED P!vars
  BY DEF Lifecycle!vars, P!vars
<1>16. Lifecycle!Next => P!Next
  BY <1>2, <1>3, <1>4, <1>5, <1>6, <1>7, <1>8, <1>9, <1>10, <1>11, <1>12, <1>13, <1>14
     DEF Lifecycle!Next, P!Next
<1> QED
  BY <1>1, <1>15, <1>16

(***************************************************************************)
(* The run behind the stream                                               *)
(***************************************************************************)

\* The stream reads the run and never writes it.
LEMMA RunStep == [Next]_vars => [P!Next]_(P!vars)
<1>1. Lifecycle!Next => [P!Next]_(P!vars)
  <2>1. Lifecycle!Next => [Lifecycle!Next]_(Lifecycle!vars)
    OBVIOUS
  <2> QED
    BY <2>1, SameLifecycle
<1>2. Watch \/ Drop \/ Reconnect \/ UNCHANGED vars => UNCHANGED P!vars
  BY DEF Watch, ListEvents, Send, AllSent, LoadStatus, Drop, Reconnect, vars, runVars, P!vars
<1> QED
  BY <1>1, <1>2 DEF Next

LEMMA RunIsLifecycle == Spec => P!Spec
<1>1. Init => P!Init
  BY SameLifecycle DEF Init
<1> QED
  BY <1>1, RunStep, PTL DEF Spec, P!Spec

\* The run of a stream has the types of the lifecycle.
LEMMA SameTypes ==
  /\ Lifecycle!TypeOK <=> P!TypeOK
  /\ Lifecycle!TypeOK' <=> P!TypeOK'
BY DEF Lifecycle!TypeOK, P!TypeOK, P!Snapshot, Lifecycle!Snapshot, P!RunStatus,
       Lifecycle!RunStatus, P!TaskStatus, Lifecycle!TaskStatus, P!MaybeExecution,
       Lifecycle!MaybeExecution, P!Lease, Lifecycle!Lease, P!RunEvent, Lifecycle!RunEvent,
       P!RunEventKind, Lifecycle!RunEventKind, P!Tasks, Lifecycle!Tasks

\* Whatever step is taken, no event disappears.
LEMMA EventsGrow ==
  ASSUME Lifecycle!TypeOK, [Next]_vars
  PROVE  /\ Lifecycle!TypeOK'
         /\ Len(events) \in Nat /\ Len(events') \in Nat
         /\ Len(events) <= Len(events')
<1> USE LifecycleAssumptions
    DEF P!TaskCountAssumption, P!PlansAssumption, P!ArtifactTasksAssumption,
        P!MaxConcurrencyAssumption, P!NoneAssumption, P!LeaseAssumption,
        P!MaxInterruptionsAssumption
<1>1. P!TypeOK /\ [P!Next]_(P!vars)
  BY RunStep, SameTypes
<1>2. P!TypeOK'
  BY <1>1, P!TypeStep
<1>3. PICK drafts \in Seq(P!RunEvent) : events' = events \o drafts
  BY <1>1, P!EventsAppended
<1>4. events \in Seq(P!RunEvent)
  BY <1>1 DEF P!TypeOK
<1>5. Lifecycle!TypeOK'
  BY <1>2, SameTypes
<1> QED
  BY <1>3, <1>4, <1>5

(***************************************************************************)
(* The cursor                                                              *)
(***************************************************************************)

\* A live connection has sent what the client received, and lists what is stored.
\* (watch_events: next_sequence moves with each event it yields.)
CursorOK ==
  /\ Connected => stream.next_sequence = Len(received)
  /\ stream.pc = "send" => stream.listed <= Len(events)

StreamInv == TypeOK /\ GapFree /\ CursorOK

LEMMA StreamStep == StreamInv /\ [Next]_vars => StreamInv'
<1> SUFFICES ASSUME StreamInv, [Next]_vars PROVE StreamInv'
  OBVIOUS
<1> USE DEF StreamInv, TypeOK, GapFree, CursorOK, Connected
<1>1. /\ Lifecycle!TypeOK'
      /\ Len(events) \in Nat /\ Len(events') \in Nat /\ Len(events) <= Len(events')
  BY EventsGrow
<1>2. /\ received \in Seq(Nat) /\ Len(received) \in Nat
      /\ stream.next_sequence \in Nat /\ stream.listed \in Nat
      /\ reconnects \in Nat /\ MaxReconnects \in Nat
  BY BoundsAssumption
<1>3. CASE UNCHANGED <<stream, received, reconnects>>
  BY <1>1, <1>2, <1>3
<1>4. CASE ListEvents
  BY <1>1, <1>2, <1>4 DEF ListEvents, runVars
<1>5. CASE Send
  <2>1. /\ stream.next_sequence = Len(received)
        /\ Len(received) + 1 <= Len(events)
        /\ received' = Append(received, Len(received) + 1)
        /\ stream' = [stream EXCEPT !.next_sequence = Len(received) + 1]
        /\ stream.pc = "send" /\ reconnects' = reconnects
    BY <1>2, <1>5 DEF Send
  <2>2. /\ received' \in Seq(Nat) /\ Len(received') = Len(received) + 1
        /\ \A i \in 1 .. Len(received) : received'[i] = received[i]
        /\ received'[Len(received) + 1] = Len(received) + 1
    BY <1>2, <2>1, AppendProperties
  <2>3. received' = [i \in 1 .. Len(received') |-> i]
    <3>1. \A i \in 1 .. Len(received) : received[i] = i
      OBVIOUS
    <3>2. ASSUME NEW i \in 1 .. Len(received') PROVE received'[i] = i
      <4>1. i \in 1 .. Len(received) \/ i = Len(received) + 1
        BY <1>2, <2>2
      <4> QED
        BY <2>2, <3>1, <4>1
    <3>3. received' = [i \in 1 .. Len(received') |-> received'[i]]
      BY <2>2
    <3> QED
      BY <3>2, <3>3
  <2>4. stream' \in [pc            : {"list", "send", "load", "ended", "dropped"},
                     next_sequence : Nat,
                     listed        : Nat]
    <3>1. /\ stream \in [pc            : {"list", "send", "load", "ended", "dropped"},
                         next_sequence : Nat,
                         listed        : Nat]
          /\ Len(received) + 1 \in Nat
      BY <1>2
    <3> HIDE DEF StreamInv
    <3> QED
      BY <2>1, <3>1
  <2>5. /\ stream'.pc = "send" /\ stream'.listed = stream.listed
        /\ stream'.next_sequence = Len(received')
    BY <2>1, <2>2
  <2>6. Len(received') <= Len(events') /\ stream'.listed <= Len(events')
    BY <1>1, <1>2, <2>1, <2>2, <2>5
  <2>7. TypeOK'
    BY <1>1, <2>1, <2>2, <2>4, <2>6
  <2>8. GapFree'
    BY <2>3, <2>6
  <2>9. CursorOK'
    BY <2>5, <2>6
  <2> QED
    BY <2>7, <2>8, <2>9
<1>6. CASE AllSent \/ LoadStatus \/ Drop
  <2>1. /\ stream' \in [pc            : {"list", "send", "load", "ended", "dropped"},
                        next_sequence : Nat,
                        listed        : Nat]
        /\ stream'.next_sequence = stream.next_sequence /\ stream'.pc # "send"
        /\ Connected' => Connected
        /\ UNCHANGED <<received, reconnects>>
    BY <1>6 DEF AllSent, LoadStatus, Drop
  <2> QED
    BY <1>1, <1>2, <2>1
<1>7. CASE Reconnect
  <2>1. LastReceived = Len(received)
    BY <1>2 DEF LastReceived
  <2>2. /\ stream' \in [pc            : {"list", "send", "load", "ended", "dropped"},
                        next_sequence : Nat,
                        listed        : Nat]
        /\ stream'.pc = "list" /\ stream'.next_sequence = Len(received)
        /\ received' = received /\ reconnects' \in 0 .. MaxReconnects
    BY <1>2, <1>7, <2>1 DEF Reconnect, Connection
  <2> QED
    BY <1>1, <1>2, <2>2
<1>8. CASE UNCHANGED vars
  BY <1>3, <1>8 DEF vars
<1> QED
  BY <1>3, <1>4, <1>5, <1>6, <1>7, <1>8 DEF Next, Watch

LEMMA StreamInvariant == Spec => []StreamInv
<1> USE LifecycleAssumptions
    DEF P!TaskCountAssumption, P!PlansAssumption, P!ArtifactTasksAssumption,
        P!MaxConcurrencyAssumption, P!NoneAssumption, P!LeaseAssumption,
        P!MaxInterruptionsAssumption
<1>1. Init => StreamInv
  <2> SUFFICES ASSUME Init PROVE StreamInv
    OBVIOUS
  <2>1. Lifecycle!TypeOK
    <3>1. P!Init
      BY SameLifecycle DEF Init
    <3>2. P!Init => P!TypeOK
      BY P!InitTyped
    <3> QED
      BY <3>1, <3>2, SameTypes
  <2>2. received = << >> /\ reconnects = 0 /\ stream = Connection(0)
    BY DEF Init
  <2>3. Len(events) \in Nat
    BY <2>1 DEF Lifecycle!TypeOK
  <2> QED
    BY <2>1, <2>2, <2>3, BoundsAssumption
       DEF StreamInv, TypeOK, GapFree, CursorOK, Connected, Connection
<1> QED
  BY <1>1, StreamStep, PTL DEF Spec

\* Only the look at the run's status ends a stream.
LEMMA OnlyLoadEnds ==
  ASSUME StreamInv, [Next]_vars, stream'.pc = "ended"
  PROVE  stream.pc = "ended" \/ LoadStatus
<1>1. stream \in [pc            : {"list", "send", "load", "ended", "dropped"},
                  next_sequence : Nat,
                  listed        : Nat]
  BY DEF StreamInv, TypeOK
<1>2. ASSUME ListEvents \/ AllSent \/ Drop PROVE stream'.pc \in {"send", "load", "dropped"}
  BY <1>1, <1>2 DEF ListEvents, AllSent, Drop
<1>3. ASSUME Reconnect PROVE stream'.pc = "list"
  BY <1>3 DEF Reconnect, Connection
<1>4. ASSUME Send PROVE stream'.pc = "send"
  BY <1>1, <1>4 DEF Send
<1> QED
  BY <1>2, <1>3, <1>4 DEF Next, Watch, vars

(***************************************************************************)
(* Theorems                                                                *)
(***************************************************************************)

\* The generator and the client's record stay of their types, over every run.
THEOREM StreamTypeCorrect == Spec => []TypeOK
<1>1. StreamInv => TypeOK
  BY DEF StreamInv
<1> QED
  BY <1>1, StreamInvariant, PTL

\* Over all its connections the client receives the stored events in order of sequence,
\* without a gap and without a duplicate.  (watch_events, Last-Event-ID)
THEOREM StreamsAreGapFree == Spec => []GapFree
<1>1. StreamInv => GapFree
  BY DEF StreamInv
<1> QED
  BY <1>1, StreamInvariant, PTL

\* The server ends a stream only when the run has ended - and an ended run stays
\* ended, so it is still true when the client looks.  (The safety half of
\* StreamEndsWithRun.)
THEOREM StreamsEndWithRun ==
  Spec => [](stream.pc = "ended" => run.status \in TerminalRunStatuses)
<1> USE LifecycleAssumptions
    DEF P!TaskCountAssumption, P!PlansAssumption, P!ArtifactTasksAssumption,
        P!MaxConcurrencyAssumption, P!NoneAssumption, P!LeaseAssumption,
        P!MaxInterruptionsAssumption
<1> DEFINE EndedOK == stream.pc = "ended" => run.status \in TerminalRunStatuses
           Stays ==
             run.status \in P!TerminalRunStatuses =>
               [run' EXCEPT !.version = run.version] = run
<1>1. P!Spec => [][Stays]_(P!vars)
  BY P!EndIsFinal DEF P!TerminalIsFinal
<1>2. Init => EndedOK
  BY DEF Init, Connection
<1>3. StreamInv /\ EndedOK /\ [Next]_vars /\ [Stays]_(P!vars) => EndedOK'
  <2> SUFFICES ASSUME StreamInv, EndedOK, [Next]_vars, [Stays]_(P!vars), stream'.pc = "ended"
               PROVE  run'.status \in TerminalRunStatuses
    OBVIOUS
  <2>1. stream.pc = "ended" \/ LoadStatus
    BY OnlyLoadEnds
  <2>2. run.status \in TerminalRunStatuses
    BY <2>1 DEF LoadStatus, StreamInv, TypeOK
  <2>3. run'.status = run.status
    <3>1. CASE UNCHANGED P!vars
      BY <3>1 DEF P!vars
    <3>2. CASE Stays
      <4>1. [run' EXCEPT !.version = run.version] = run
        BY <2>2, <3>2 DEF P!TerminalRunStatuses, TerminalRunStatuses
      <4>2. run' \in P!Snapshot
        BY EventsGrow, SameTypes DEF StreamInv, TypeOK, P!TypeOK
      <4> QED
        BY <4>1, <4>2 DEF P!Snapshot
    <3> QED
      BY <3>1, <3>2
  <2> QED
    BY <2>2, <2>3
<1> QED
  BY <1>1, <1>2, <1>3, RunIsLifecycle, StreamInvariant, PTL DEF Spec

\* The events of the sequences the client received, in its order.
Seen == [i \in 1 .. Len(received) |-> events[received[i]]]

\* A client that received as many events as are stored knows the run: replaying what it
\* received gives the stored snapshot, over how many connections ever it received them.
THEOREM CaughtUpClientKnowsTheRun ==
  Spec => [](Len(received) = Len(events) => P!Replay(run.plan, Seen) = P!Told(run))
<1> USE LifecycleAssumptions
    DEF P!TaskCountAssumption, P!PlansAssumption, P!ArtifactTasksAssumption,
        P!MaxConcurrencyAssumption, P!NoneAssumption, P!LeaseAssumption,
        P!MaxInterruptionsAssumption
<1> DEFINE Knows == Len(received) = Len(events) => P!Replay(run.plan, Seen) = P!Told(run)
<1>1. P!Spec => []P!EventsExplainSnapshot
  BY P!StreamExplainsSnapshot
<1>2. StreamInv /\ P!EventsExplainSnapshot => Knows
  <2> SUFFICES ASSUME StreamInv, P!EventsExplainSnapshot, Len(received) = Len(events)
               PROVE  Seen = events
    BY DEF P!EventsExplainSnapshot
  <2>1. events \in Seq(P!RunEvent)
    BY SameTypes DEF StreamInv, TypeOK, P!TypeOK
  <2>2. events = [i \in 1 .. Len(events) |-> events[i]]
    BY <2>1
  <2>3. \A i \in 1 .. Len(received) : received[i] = i
    BY DEF StreamInv, GapFree
  <2> QED
    BY <2>2, <2>3 DEF Seen
<1> QED
  BY <1>1, <1>2, RunIsLifecycle, StreamInvariant, PTL
=============================================================================
