-------------------------- MODULE RunEventLogProofs --------------------------
(***************************************************************************)
(* What the event stream of a run says, proved for every run: replaying it *)
(* gives the stored snapshot, and each execution leaves one start and one  *)
(* outcome.                                                                *)
(*                                                                         *)
(* The first argument is by the steps of the run, each of which appends    *)
(* the events that tell its change; what a recursive definition computes   *)
(* is kept as part of the invariant (ReplaysTo), so no induction over the  *)
(* stream is needed.  The second follows the positions of the events of    *)
(* one execution as the stream grows.                                      *)
(***************************************************************************)
EXTENDS RunEventLog, RunLifecycleProofs, SequenceTheorems

(***************************************************************************)
(* Positions                                                               *)
(***************************************************************************)

\* The events of an execution among the drafts of a commit, as positions.
Drafted(drafts, kinds, e) ==
  {Len(events) + k : k \in {j \in 1 .. Len(drafts) : drafts[j].kind \in kinds
                                                  /\ drafts[j].execution = e}}

\* Appending drafts adds their positions and moves no other.
LEMMA PositionsGrow ==
  ASSUME TypeOK, NEW drafts \in Seq(RunEvent), events' = events \o drafts,
         NEW kinds, NEW e
  PROVE  /\ Positions(kinds, e)' = Positions(kinds, e) \cup Drafted(drafts, kinds, e)
         /\ Positions(kinds, e) \subseteq 1 .. Len(events)
         /\ \A i \in Drafted(drafts, kinds, e) : i > Len(events)
<1>1. /\ events \in Seq(RunEvent) /\ Len(events) \in Nat /\ Len(drafts) \in Nat
      /\ Len(events') = Len(events) + Len(drafts)
      /\ \A i \in 1 .. Len(events) : events'[i] = events[i]
      /\ \A k \in 1 .. Len(drafts) : events'[Len(events) + k] = drafts[k]
  BY DEF TypeOK
<1>2. Positions(kinds, e) \subseteq 1 .. Len(events)
  BY DEF Positions
<1>3. \A i \in Drafted(drafts, kinds, e) : i > Len(events)
  BY <1>1 DEF Drafted
<1>4. ASSUME NEW i \in Positions(kinds, e)'
      PROVE  i \in Positions(kinds, e) \cup Drafted(drafts, kinds, e)
  <2>1. i \in 1 .. Len(events') /\ events'[i].kind \in kinds /\ events'[i].execution = e
    BY <1>4 DEF Positions
  <2>2. CASE i \in 1 .. Len(events)
    BY <1>1, <2>1, <2>2 DEF Positions
  <2>3. CASE i \notin 1 .. Len(events)
    <3> DEFINE k == i - Len(events)
    <3>1. k \in 1 .. Len(drafts) /\ i = Len(events) + k
      BY <1>1, <2>1, <2>3
    <3> HIDE DEF k
    <3>2. drafts[k].kind \in kinds /\ drafts[k].execution = e
      BY <1>1, <2>1, <3>1
    <3> QED
      BY <3>1, <3>2 DEF Drafted
  <2> QED
    BY <2>2, <2>3
<1>5. ASSUME NEW i \in Drafted(drafts, kinds, e)
      PROVE  i \in Positions(kinds, e)'
  <2>1. PICK k \in 1 .. Len(drafts) : /\ i = Len(events) + k
                                      /\ drafts[k].kind \in kinds /\ drafts[k].execution = e
    BY <1>5 DEF Drafted
  <2>2. i \in 1 .. Len(events') /\ events'[i] = drafts[k]
    BY <1>1, <2>1
  <2> QED
    BY <2>1, <2>2 DEF Positions
<1>6. Positions(kinds, e) \subseteq Positions(kinds, e)'
  BY <1>1 DEF Positions
<1> QED
  BY <1>2, <1>3, <1>4, <1>5, <1>6

\* One draft leaves one position or none.
LEMMA OneDraft ==
  ASSUME NEW event, NEW kinds, NEW e
  PROVE  Drafted(<<event>>, kinds, e) =
           IF event.kind \in kinds /\ event.execution = e THEN {Len(events) + 1} ELSE {}
<1>1. Len(<<event>>) = 1 /\ <<event>>[1] = event
  OBVIOUS
<1> QED
  BY <1>1 DEF Drafted

\* Two drafts leave the positions of either.
LEMMA TwoDrafts ==
  ASSUME NEW first, NEW second, NEW kinds, NEW e
  PROVE  Drafted(<<first, second>>, kinds, e) =
           (IF first.kind \in kinds /\ first.execution = e THEN {Len(events) + 1} ELSE {})
             \cup
           (IF second.kind \in kinds /\ second.execution = e THEN {Len(events) + 2} ELSE {})
<1>1. /\ Len(<<first, second>>) = 2
      /\ <<first, second>>[1] = first /\ <<first, second>>[2] = second
      /\ 1 .. 2 = {1, 2}
  OBVIOUS
<1> QED
  BY <1>1 DEF Drafted

(***************************************************************************)
(* One start and one outcome for each execution                            *)
(***************************************************************************)
Started(e)   == Positions({"task.started"}, e)
Ended(e)     == Positions(Outcomes, e)
Published(e) == Positions({"artifact.stored"}, e)

\* OneOutcomePerExecution for one execution, without counting.
Logged(e) ==
  /\ IF e \in Unclaimed THEN Started(e) = {} ELSE \E i : Started(e) = {i}
  /\ IF e \in settled THEN \E j : Ended(e) = {j} ELSE Ended(e) = {}
  /\ \A i \in Started(e), j \in Ended(e) : i < j
  /\ \A i \in Published(e) :
       i < Len(events) /\ events[i + 1] = [events[i] EXCEPT !.kind = "task.succeeded"]

EventsLogged == \A e \in ExecutionIds : Logged(e)

\* Artifacts published before keep the success that follows them.
LEMMA PublishedStays ==
  ASSUME TypeOK, NEW e \in ExecutionIds, Logged(e),
         NEW drafts \in Seq(RunEvent), events' = events \o drafts
  PROVE  \A i \in Published(e) :
           /\ i < Len(events')
           /\ events'[i + 1] = [events'[i] EXCEPT !.kind = "task.succeeded"]
<1> TAKE i \in Published(e)
<1>1. /\ Len(events) \in Nat /\ Len(drafts) \in Nat
      /\ Len(events') = Len(events) + Len(drafts)
      /\ \A n \in 1 .. Len(events) : events'[n] = events[n]
  BY DEF TypeOK
<1>2. i \in 1 .. Len(events)
  BY DEF Published, Positions
<1>3. i < Len(events) /\ events[i + 1] = [events[i] EXCEPT !.kind = "task.succeeded"]
  BY DEF Logged
<1>4. events'[i] = events[i] /\ events'[i + 1] = events[i + 1]
  BY <1>1, <1>2, <1>3
<1>5. i < Len(events')
  BY <1>1, <1>2, <1>3
<1> QED
  BY <1>3, <1>4, <1>5

\* What the others do leaves the log of an execution as it is.
LEMMA LogUntouched ==
  ASSUME TypeOK, NEW e \in ExecutionIds, Logged(e),
         NEW drafts \in Seq(RunEvent), events' = events \o drafts,
         \A k \in 1 .. Len(drafts) : drafts[k].execution # e,
         e \in Unclaimed' <=> e \in Unclaimed, e \in settled' <=> e \in settled
  PROVE  Logged(e)'
<1>1. \A kinds : Drafted(drafts, kinds, e) = {}
  BY DEF Drafted
<1>2. ASSUME NEW kinds PROVE Positions(kinds, e)' = Positions(kinds, e)
  <2>1. Positions(kinds, e)' = Positions(kinds, e) \cup Drafted(drafts, kinds, e)
    BY PositionsGrow
  <2> QED
    BY <1>1, <2>1
<1>3. Started(e)' = Started(e) /\ Ended(e)' = Ended(e) /\ Published(e)' = Published(e)
  BY <1>2 DEF Started, Ended, Published
<1>4. \A i \in Published(e) :
        /\ i < Len(events')
        /\ events'[i + 1] = [events'[i] EXCEPT !.kind = "task.succeeded"]
  BY PublishedStays
<1>5. \A i \in Published(e)' :
        /\ i < Len(events')
        /\ events'[i + 1] = [events'[i] EXCEPT !.kind = "task.succeeded"]
  BY <1>3, <1>4
<1>6. IF e \in Unclaimed' THEN Started(e)' = {} ELSE \E i : Started(e)' = {i}
  BY <1>3 DEF Logged
<1>7. IF e \in settled' THEN \E j : Ended(e)' = {j} ELSE Ended(e)' = {}
  BY <1>3 DEF Logged
<1>8. \A i \in Started(e)', j \in Ended(e)' : i < j
  BY <1>3 DEF Logged
<1> QED
  BY <1>5, <1>6, <1>7, <1>8 DEF Logged

\* A claim writes the start.  (_claim_task)
LEMMA LogStarts ==
  ASSUME TypeOK, NEW e \in ExecutionIds, Logged(e), NEW t \in Tasks,
         events' = events \o <<OnExecution("task.started", t, e)>>,
         e \in Unclaimed, e \notin settled, e \notin Unclaimed', e \notin settled'
  PROVE  Logged(e)'
<1> DEFINE event == OnExecution("task.started", t, e)
<1>1. /\ event.kind = "task.started" /\ event.execution = e
      /\ <<event>> \in Seq(RunEvent) /\ events' = events \o <<event>>
  BY DraftTypes DEF OnExecution, RunEventKind
<1> HIDE DEF event
<1>2. "task.started" \notin Outcomes /\ "task.started" \notin {"artifact.stored"}
  BY DEF Outcomes
<1>3. \A kinds : Positions(kinds, e)' = Positions(kinds, e) \cup Drafted(<<event>>, kinds, e)
  BY <1>1, PositionsGrow
<1>4. /\ Drafted(<<event>>, {"task.started"}, e) = {Len(events) + 1}
      /\ Drafted(<<event>>, Outcomes, e) = {}
      /\ Drafted(<<event>>, {"artifact.stored"}, e) = {}
  BY <1>1, <1>2, OneDraft
<1>5. /\ Started(e)' = Started(e) \cup {Len(events) + 1}
      /\ Ended(e)' = Ended(e) /\ Published(e)' = Published(e)
  BY <1>3, <1>4 DEF Started, Ended, Published
<1>6. \A i \in Published(e) :
        /\ i < Len(events')
        /\ events'[i + 1] = [events'[i] EXCEPT !.kind = "task.succeeded"]
  BY <1>1, PublishedStays
<1>7. Started(e) = {} /\ Ended(e) = {}
  BY DEF Logged
<1>8. Started(e)' = {Len(events) + 1} /\ Ended(e)' = {}
  BY <1>5, <1>7
<1>9. \A i \in Published(e)' :
        /\ i < Len(events')
        /\ events'[i + 1] = [events'[i] EXCEPT !.kind = "task.succeeded"]
  BY <1>5, <1>6
<1> QED
  BY <1>8, <1>9 DEF Logged

\* An outcome is written after the start, alone or after the artifact it publishes.
LEMMA LogEnds ==
  ASSUME TypeOK, NEW e \in ExecutionIds, Logged(e),
         NEW drafts \in Seq(RunEvent), events' = events \o drafts,
         Drafted(drafts, {"task.started"}, e) = {},
         \E j : j > Len(events) /\ Drafted(drafts, Outcomes, e) = {j},
         \A i \in Drafted(drafts, {"artifact.stored"}, e) :
           /\ i < Len(events')
           /\ events'[i + 1] = [events'[i] EXCEPT !.kind = "task.succeeded"],
         e \notin Unclaimed, e \notin settled, e \notin Unclaimed', e \in settled'
  PROVE  Logged(e)'
<1>1. \A kinds : /\ Positions(kinds, e)' = Positions(kinds, e) \cup Drafted(drafts, kinds, e)
                 /\ Positions(kinds, e) \subseteq 1 .. Len(events)
  BY PositionsGrow
<1>2. PICK j : j > Len(events) /\ Drafted(drafts, Outcomes, e) = {j}
  OBVIOUS
<1>3. Ended(e) = {} /\ Started(e) \subseteq 1 .. Len(events)
  BY <1>1 DEF Logged, Started
<1>4. /\ Started(e)' = Started(e)
      /\ Ended(e)' = {j}
      /\ Published(e)' = Published(e) \cup Drafted(drafts, {"artifact.stored"}, e)
  <2>1. Started(e)' = Started(e) \cup Drafted(drafts, {"task.started"}, e)
    BY <1>1 DEF Started
  <2>2. Ended(e)' = Ended(e) \cup Drafted(drafts, Outcomes, e)
    BY <1>1 DEF Ended
  <2>3. Published(e)' = Published(e) \cup Drafted(drafts, {"artifact.stored"}, e)
    BY <1>1 DEF Published
  <2> QED
    BY <1>2, <1>3, <2>1, <2>2, <2>3
<1>p. \A i \in Published(e) :
        /\ i < Len(events')
        /\ events'[i + 1] = [events'[i] EXCEPT !.kind = "task.succeeded"]
  BY PublishedStays
<1>5. \A i \in Published(e)' :
        /\ i < Len(events')
        /\ events'[i + 1] = [events'[i] EXCEPT !.kind = "task.succeeded"]
  BY <1>4, <1>p
<1>6. j \in Drafted(drafts, Outcomes, e) /\ j \in Int
  <2>1. Drafted(drafts, Outcomes, e) \subseteq Int
    BY DEF Drafted, TypeOK
  <2> QED
    BY <1>2, <2>1
<1>7. Len(events) \in Nat
  BY DEF TypeOK
<1>8. \A i \in Started(e)' : i < j
  BY <1>2, <1>3, <1>4, <1>6, <1>7
<1>9. \E i : Started(e)' = {i}
  BY <1>4 DEF Logged
<1> QED
  BY <1>4, <1>5, <1>8, <1>9 DEF Logged

\* What the outcome of one execution does to the log of any.  The conditions shared by
\* the lemmas below: f settles, and nothing else changes.
Settles(f) ==
  /\ f \notin Unclaimed /\ f \notin settled
  /\ Unclaimed' = Unclaimed /\ settled' = settled \cup {f}

LEMMA OutcomeLogged ==
  ASSUME TypeOK, NEW e \in ExecutionIds, Logged(e), NEW f \in ExecutionIds, Settles(f),
         NEW t \in Tasks, NEW kind \in {"task.retrying", "task.result_ignored"},
         events' = events \o <<OnExecution(kind, t, f)>>
  PROVE  Logged(e)'
<1> DEFINE event == OnExecution(kind, t, f)
<1>1. /\ event.kind = kind /\ event.execution = f
      /\ <<event>> \in Seq(RunEvent) /\ events' = events \o <<event>>
  BY DraftTypes DEF OnExecution, RunEventKind
<1> HIDE DEF event
<1>2. kind \in Outcomes /\ kind \notin {"task.started"} /\ kind \notin {"artifact.stored"}
  BY DEF Outcomes
<1>3. CASE e = f
  <2>1. /\ Drafted(<<event>>, {"task.started"}, e) = {}
        /\ Drafted(<<event>>, Outcomes, e) = {Len(events) + 1}
        /\ Drafted(<<event>>, {"artifact.stored"}, e) = {}
    BY <1>1, <1>2, <1>3, OneDraft
  <2>2. Len(events) + 1 > Len(events)
    BY DEF TypeOK
  <2> QED
    BY <1>1, <1>3, <2>1, <2>2, LogEnds DEF Settles
<1>4. CASE e # f
  <2>1. \A k \in 1 .. Len(<<event>>) : <<event>>[k].execution # e
    BY <1>1, <1>4
  <2> QED
    BY <1>1, <1>4, <2>1, LogUntouched DEF Settles
<1> QED
  BY <1>3, <1>4

LEMMA FailureLogged ==
  ASSUME TypeOK, NEW e \in ExecutionIds, Logged(e), NEW f \in ExecutionIds, Settles(f),
         NEW t \in Tasks, events' = events \o FailureEvents(t, f)
  PROVE  Logged(e)'
<1> DEFINE first  == OnExecution("task.failed", t, f)
           second == OnTask("run.failed", t)
<1>1. /\ first.kind = "task.failed" /\ first.execution = f
      /\ second.kind = "run.failed" /\ second.execution = None
      /\ <<first, second>> \in Seq(RunEvent) /\ events' = events \o <<first, second>>
  BY DraftTypes DEF OnExecution, OnTask, FailureEvents
<1>n. e # None /\ f # None
  BY NoneAssumption
<1> HIDE DEF first, second
<1>2. /\ "task.failed" \in Outcomes /\ "task.failed" \notin {"task.started"}
      /\ "task.failed" \notin {"artifact.stored"}
  BY DEF Outcomes
<1>3. CASE e = f
  <2>1. /\ Drafted(<<first, second>>, {"task.started"}, e) = {}
        /\ Drafted(<<first, second>>, Outcomes, e) = {Len(events) + 1}
        /\ Drafted(<<first, second>>, {"artifact.stored"}, e) = {}
    BY <1>1, <1>2, <1>3, <1>n, TwoDrafts
  <2>2. Len(events) + 1 > Len(events)
    BY DEF TypeOK
  <2> QED
    BY <1>1, <1>3, <2>1, <2>2, LogEnds DEF Settles
<1>4. CASE e # f
  <2>1. \A k \in 1 .. Len(<<first, second>>) : <<first, second>>[k].execution # e
    BY <1>1, <1>4, <1>n
  <2> QED
    BY <1>1, <1>4, <2>1, LogUntouched DEF Settles
<1> QED
  BY <1>3, <1>4

\* The one outcome that may come with an artifact, which goes before it.
LEMMA SuccessLogged ==
  ASSUME TypeOK, NEW e \in ExecutionIds, Logged(e), NEW f \in ExecutionIds, Settles(f),
         NEW t \in Tasks, events' = events \o SuccessEvents(t, f)
  PROVE  Logged(e)'
<1> DEFINE published == OnExecution("artifact.stored", t, f)
           outcome   == OnExecution("task.succeeded", t, f)
<1>1. /\ published.kind = "artifact.stored" /\ published.execution = f
      /\ outcome.kind = "task.succeeded" /\ outcome.execution = f
      /\ <<outcome>> \in Seq(RunEvent) /\ <<published, outcome>> \in Seq(RunEvent)
  <2>1. published \in RunEvent /\ outcome \in RunEvent
    BY DEF OnExecution, RunEvent, RunEventKind, MaybeExecution
  <2> QED
    BY <2>1 DEF OnExecution
<1>r. outcome = [published EXCEPT !.kind = "task.succeeded"]
  BY DEF OnExecution
<1>2. \/ events' = events \o <<outcome>>
      \/ events' = events \o <<published, outcome>>
  BY <1>1 DEF SuccessEvents
<1> HIDE DEF published, outcome
<1>3. /\ "task.succeeded" \in Outcomes /\ "artifact.stored" \notin Outcomes
      /\ "task.succeeded" \notin {"task.started"} /\ "artifact.stored" \notin {"task.started"}
      /\ "task.succeeded" \notin {"artifact.stored"}
  BY DEF Outcomes
<1>4. CASE e # f
  <2>1. /\ \A k \in 1 .. Len(<<outcome>>) : <<outcome>>[k].execution # e
        /\ \A k \in 1 .. Len(<<published, outcome>>) :
             <<published, outcome>>[k].execution # e
    BY <1>1, <1>4
  <2> QED
    BY <1>1, <1>2, <1>4, <2>1, LogUntouched DEF Settles
<1>5. CASE e = f /\ events' = events \o <<outcome>>
  <2>1. /\ Drafted(<<outcome>>, {"task.started"}, e) = {}
        /\ Drafted(<<outcome>>, Outcomes, e) = {Len(events) + 1}
        /\ Drafted(<<outcome>>, {"artifact.stored"}, e) = {}
    BY <1>1, <1>3, <1>5, OneDraft
  <2>2. Len(events) + 1 > Len(events)
    BY DEF TypeOK
  <2> QED
    BY <1>1, <1>5, <2>1, <2>2, LogEnds DEF Settles
<1>6. CASE e = f /\ events' = events \o <<published, outcome>>
  <2> DEFINE at(kinds) == Drafted(<<published, outcome>>, kinds, e)
  <2>a. ASSUME NEW kinds
        PROVE  at(kinds) = (IF "artifact.stored" \in kinds THEN {Len(events) + 1} ELSE {})
                             \cup
                           (IF "task.succeeded" \in kinds THEN {Len(events) + 2} ELSE {})
    BY <1>1, <1>6, TwoDrafts
  <2> HIDE DEF at
  <2>b. /\ at({"task.started"}) = {}
        /\ at(Outcomes) = {Len(events) + 2}
        /\ at({"artifact.stored"}) = {Len(events) + 1}
    BY <1>3, <2>a
  <2>1. /\ Drafted(<<published, outcome>>, {"task.started"}, e) = {}
        /\ Drafted(<<published, outcome>>, Outcomes, e) = {Len(events) + 2}
        /\ Drafted(<<published, outcome>>, {"artifact.stored"}, e) = {Len(events) + 1}
    BY <2>b DEF at
  <2>2. /\ Len(events) + 2 > Len(events) /\ Len(events) + 1 < Len(events')
        /\ events'[Len(events) + 1] = published
        /\ events'[(Len(events) + 1) + 1] = outcome
    BY <1>6 DEF TypeOK
  <2> QED
    BY <1>1, <1>6, <1>r, <2>1, <2>2, LogEnds DEF Settles
<1> QED
  BY <1>2, <1>4, <1>5, <1>6

LEMMA LogStep ==
  TypeOK /\ Leases /\ EventsLogged /\ [Next]_vars => EventsLogged'
<1> SUFFICES ASSUME TypeOK, Leases, EventsLogged, [Next]_vars, NEW e \in ExecutionIds
             PROVE  Logged(e)'
  BY DEF EventsLogged
<1>1. Logged(e) /\ e # None /\ settled \cap Unclaimed = {}
  BY NoneAssumption DEF EventsLogged, Leases
<1>k. {"plan.created", "run.started", "run.recovered", "run.paused", "run.resumed",
       "run.cancelled", "run.succeeded", "run.failed", "task.ready", "task.started",
       "task.retrying", "task.result_ignored"} \subseteq RunEventKind
  BY DEF RunEventKind
<1>2. CASE Plan \/ Start \/ Pause \/ Resume \/ Cancel \/ Recover \/ Conclude
  <2>1. PICK kind \in RunEventKind : events' = events \o <<OnRun(kind)>>
    BY <1>2, <1>k DEF Plan, Start, Pause, Resume, Cancel, Recover, Conclude, Commit
  <2>2. UNCHANGED <<leases, settled>>
    BY <1>2 DEF Plan, Start, Pause, Resume, Cancel, Recover, Conclude
  <2>3. /\ <<OnRun(kind)>> \in Seq(RunEvent)
        /\ \A k \in 1 .. Len(<<OnRun(kind)>>) : <<OnRun(kind)>>[k].execution # e
    BY <1>1, DraftTypes DEF OnRun
  <2>4. Unclaimed' = Unclaimed
    BY <2>2 DEF Unclaimed
  <2> QED
    BY <1>1, <2>1, <2>2, <2>3, <2>4, LogUntouched
<1>3. ASSUME NEW t \in Tasks, MarkReady(t) PROVE Logged(e)'
  <2>1. events' = events \o <<OnTask("task.ready", t)>> /\ UNCHANGED <<leases, settled>>
    BY <1>3 DEF MarkReady, Commit
  <2>2. /\ <<OnTask("task.ready", t)>> \in Seq(RunEvent)
        /\ \A k \in 1 .. Len(<<OnTask("task.ready", t)>>) :
             <<OnTask("task.ready", t)>>[k].execution # e
    BY <1>1, <1>k, DraftTypes DEF OnTask
  <2>3. Unclaimed' = Unclaimed
    BY <2>1 DEF Unclaimed
  <2> QED
    BY <1>1, <2>1, <2>2, <2>3, LogUntouched
<1>4. ASSUME NEW t \in Tasks, NEW f \in ExecutionIds, Claim(t, f) PROVE Logged(e)'
  <2>1. /\ events' = events \o <<OnExecution("task.started", t, f)>>
        /\ f \in Unclaimed /\ settled' = settled
        /\ leases' = [leases EXCEPT ![f] = [task |-> t, epoch |-> run.task_attempts[t] + 1]]
    BY <1>4 DEF Claim, Commit
  <2>2. Unclaimed' = Unclaimed \ {f}
    <3>1. run.task_attempts[t] + 1 \in Nat \ {0}
      BY DEF TypeOK, Snapshot
    <3>2. [task |-> t, epoch |-> run.task_attempts[t] + 1] # None
      BY <3>1, LeaseAssumption DEF Lease
    <3> QED
      BY <2>1, <3>2 DEF Unclaimed, TypeOK
  <2>3. CASE f = e
    BY <1>1, <2>1, <2>2, <2>3, LogStarts
  <2>4. CASE f # e
    <3>1. /\ <<OnExecution("task.started", t, f)>> \in Seq(RunEvent)
          /\ \A k \in 1 .. Len(<<OnExecution("task.started", t, f)>>) :
               <<OnExecution("task.started", t, f)>>[k].execution # e
      BY <1>k, <2>4, DraftTypes DEF OnExecution
    <3> QED
      BY <1>1, <2>1, <2>2, <2>4, <3>1, LogUntouched
  <2> QED
    BY <2>3, <2>4
<1>5. ASSUME NEW f \in ExecutionIds,
             RecordSuccess(f) \/ RecordRetry(f) \/ RecordFailure(f) \/ RecordIgnored(f)
      PROVE  Logged(e)'
  <2> DEFINE t == leases[f].task
  <2>1. /\ f \in Outstanding /\ t \in Tasks
        /\ settled' = settled \cup {f} /\ leases' = leases
    BY <1>5, OutstandingHasTask DEF RecordSuccess, RecordRetry, RecordFailure, RecordIgnored
  <2>2. /\ f \notin Unclaimed /\ f \notin settled /\ Unclaimed' = Unclaimed
    BY <2>1 DEF Outstanding, Unclaimed
  <2>3. \/ events' = events \o SuccessEvents(t, f)
        \/ events' = events \o FailureEvents(t, f)
        \/ \E kind \in {"task.retrying", "task.result_ignored"} :
             events' = events \o <<OnExecution(kind, t, f)>>
    BY <1>5 DEF RecordSuccess, RecordRetry, RecordFailure, RecordIgnored, Commit
  <2> HIDE DEF t
  <2>4. CASE events' = events \o SuccessEvents(t, f)
    BY <1>1, <2>1, <2>2, <2>4, SuccessLogged DEF Settles
  <2>5. CASE events' = events \o FailureEvents(t, f)
    BY <1>1, <2>1, <2>2, <2>5, FailureLogged DEF Settles
  <2>6. ASSUME NEW kind \in {"task.retrying", "task.result_ignored"},
               events' = events \o <<OnExecution(kind, t, f)>>
        PROVE  Logged(e)'
    BY <1>1, <2>1, <2>2, <2>6, OutcomeLogged DEF Settles
  <2> QED
    BY <2>3, <2>4, <2>5, <2>6
<1>6. CASE UNCHANGED vars
  BY <1>1, <1>6
     DEF vars, Logged, Started, Ended, Published, Positions, Unclaimed
<1> QED
  BY <1>2, <1>3, <1>4, <1>5, <1>6 DEF Next

LEMMA LogInvariant == Spec => []EventsLogged
<1>1. Init => EventsLogged
  <2> SUFFICES ASSUME Init, NEW e \in ExecutionIds PROVE Logged(e)
    BY DEF EventsLogged
  <2>1. Len(events) = 1 /\ events[1].execution = None /\ e # None
    BY NoneAssumption DEF Init, OnRun
  <2>2. \A kinds : Positions(kinds, e) = {}
    BY <2>1 DEF Positions
  <2>3. e \in Unclaimed /\ e \notin settled
    BY DEF Init, Unclaimed
  <2> QED
    BY <2>2, <2>3 DEF Logged, Started, Ended, Published
<1> QED
  BY <1>1, TypeCorrect, LeasesInvariant, LogStep, PTL DEF Spec

\* Each started execution leaves exactly one task.started and, once settled, exactly one
\* outcome after it; artifacts are announced only right before their success.
\* (_claim_task, _commit_task_success, _record_task_failure, _record_ignored_result)
THEOREM OneOutcomeIsLogged == Spec => []OneOutcomePerExecution
<1>1. EventsLogged => OneOutcomePerExecution
  <2> SUFFICES ASSUME EventsLogged, NEW e \in ExecutionIds
               PROVE  /\ Cardinality(Started(e)) = IF e \in Unclaimed THEN 0 ELSE 1
                      /\ Cardinality(Ended(e)) = IF e \in settled THEN 1 ELSE 0
                      /\ \A i \in Started(e), j \in Ended(e) : i < j
                      /\ \A i \in Published(e) :
                           /\ i < Len(events)
                           /\ events[i + 1] = [events[i] EXCEPT !.kind = "task.succeeded"]
    BY DEF OneOutcomePerExecution, Started, Ended, Published
  <2>1. Logged(e)
    BY DEF EventsLogged
  <2>2. Cardinality({}) = 0 /\ \A i : Cardinality({i}) = 1
    BY FS_EmptySet, FS_Singleton
  <2> QED
    BY <2>1, <2>2 DEF Logged
<1> QED
  BY <1>1, LogInvariant, PTL

(***************************************************************************)
(* Replay, one event at a time                                             *)
(***************************************************************************)

\* f gives, for every i, what the first i events of the log have told.
Reads(plan, log, f) ==
  f = [i \in 0 .. Len(log) |->
         IF i = 0 THEN NothingSeen ELSE Apply(plan, f[i - 1], log[i])]

\* Such a function exists, and all of them end with the same.
ReplaysTo(plan, log, last) ==
  /\ \E f : Reads(plan, log, f)
  /\ \A f : Reads(plan, log, f) => f[Len(log)] = last

LEMMA ReplayIsLast ==
  ASSUME NEW plan, NEW log, NEW last, ReplaysTo(plan, log, last)
  PROVE  Replay(plan, log) = last
<1> DEFINE f == CHOOSE f : Reads(plan, log, f)
<1>1. Reads(plan, log, f)
  BY DEF ReplaysTo
<1>2. f[Len(log)] = last
  BY <1>1 DEF ReplaysTo
<1>3. Replay(plan, log) = f[Len(log)]
  BY DEF Replay, Reads
<1> QED
  BY <1>2, <1>3

\* The empty log tells nothing.
LEMMA ReplayOfNothing ==
  ASSUME NEW plan
  PROVE  ReplaysTo(plan, << >>, NothingSeen)
<1> DEFINE f == [i \in {0} |-> NothingSeen]
<1>1. 0 .. Len(<< >>) = {0} /\ Len(<< >>) = 0
  OBVIOUS
<1>2. Reads(plan, << >>, f)
  BY <1>1 DEF Reads
<1>3. ASSUME NEW g, Reads(plan, << >>, g) PROVE g[0] = NothingSeen
  BY <1>1, <1>3 DEF Reads
<1> QED
  BY <1>1, <1>2, <1>3 DEF ReplaysTo

\* One event more is one application more.
LEMMA ReplayOneMore ==
  ASSUME NEW plan, NEW log \in Seq(RunEvent), NEW event \in RunEvent, NEW last,
         ReplaysTo(plan, log, last)
  PROVE  ReplaysTo(plan, log \o <<event>>, Apply(plan, last, event))
<1> DEFINE n    == Len(log)
           more == log \o <<event>>
<1>1. /\ n \in Nat /\ Len(more) = n + 1 /\ more[n + 1] = event
      /\ \A i \in 1 .. n : more[i] = log[i]
  OBVIOUS
<1>2. /\ 0 \in 0 .. n /\ n \in 0 .. n /\ n + 1 \in 0 .. n + 1 /\ n + 1 # 0 /\ (n + 1) - 1 = n
      /\ \A i \in 0 .. n : i \in 0 .. n + 1 /\ i # n + 1
      /\ \A i \in 0 .. n + 1 : i \in 0 .. n \/ i = n + 1
      /\ \A i \in 0 .. n : i = 0 \/ (i \in 1 .. n /\ i - 1 \in 0 .. n)
  BY <1>1
<1> HIDE DEF n, more
<1>3. \E g : Reads(plan, more, g)
  <2>1. PICK f : Reads(plan, log, f)
    BY DEF ReplaysTo
  <2> DEFINE g == [i \in 0 .. n + 1 |-> IF i = n + 1 THEN Apply(plan, f[n], event) ELSE f[i]]
             step(i) == IF i = 0 THEN NothingSeen ELSE Apply(plan, g[i - 1], more[i])
  <2>2. \A i \in 0 .. n :
          f[i] = IF i = 0 THEN NothingSeen ELSE Apply(plan, f[i - 1], log[i])
    BY <2>1 DEF Reads, n
  <2>3. ASSUME NEW i \in 0 .. n + 1 PROVE g[i] = step(i)
    <3>1. CASE i = n + 1
      BY <1>1, <1>2, <3>1
    <3>2. CASE i \in 0 .. n
      <4>1. g[i] = f[i]
        BY <1>2, <3>2
      <4>2. i # 0 => g[i - 1] = f[i - 1] /\ more[i] = log[i]
        BY <1>1, <1>2, <3>2
      <4> QED
        BY <2>2, <3>2, <4>1, <4>2
    <3> QED
      BY <1>2, <3>1, <3>2
  <2>4. g = [i \in 0 .. n + 1 |-> g[i]]
    OBVIOUS
  <2> HIDE DEF g
  <2>5. g = [i \in 0 .. n + 1 |-> step(i)]
    BY <2>3, <2>4
  <2>6. Reads(plan, more, g)
    BY <1>1, <2>5 DEF Reads
  <2> QED
    BY <2>6
<1>4. ASSUME NEW g, Reads(plan, more, g)
      PROVE  g[n + 1] = Apply(plan, last, event)
  <2> DEFINE f == [i \in 0 .. n |-> g[i]]
             step(i) == IF i = 0 THEN NothingSeen ELSE Apply(plan, f[i - 1], log[i])
  <2>1. \A i \in 0 .. n + 1 :
          g[i] = IF i = 0 THEN NothingSeen ELSE Apply(plan, g[i - 1], more[i])
    BY <1>1, <1>4 DEF Reads
  <2>2. ASSUME NEW i \in 0 .. n PROVE f[i] = step(i)
    <3>1. f[i] = g[i] /\ (i # 0 => f[i - 1] = g[i - 1] /\ more[i] = log[i])
      BY <1>1, <1>2
    <3> QED
      BY <1>2, <2>1, <3>1
  <2>3. f[n] = g[n]
    BY <1>2
  <2>4. f = [i \in 0 .. n |-> f[i]]
    OBVIOUS
  <2> HIDE DEF f
  <2>5. f = [i \in 0 .. n |-> step(i)]
    BY <2>2, <2>4
  <2>6. Reads(plan, log, f)
    BY <2>5 DEF Reads, n
  <2>7. f[n] = last
    BY <2>6 DEF ReplaysTo, n
  <2>8. g[n + 1] = Apply(plan, g[(n + 1) - 1], more[n + 1])
    BY <1>2, <2>1
  <2> QED
    BY <1>1, <1>2, <2>3, <2>7, <2>8
<1> QED
  BY <1>1, <1>3, <1>4 DEF ReplaysTo, more

(***************************************************************************)
(* What each event tells is what its commit changes                        *)
(***************************************************************************)

\* Events that tell nothing of the snapshot.
LEMMA TellsNothing ==
  ASSUME NEW plan, NEW seen, NEW event,
         event.kind \in {"run.created", "artifact.stored", "task.result_ignored"}
  PROVE  Apply(plan, seen, event) = seen
BY DEF Apply

LEMMA TellsStatus ==
  ASSUME NEW s \in Snapshot, NEW plan
  PROVE  /\ \A kind \in {"run.started", "run.resumed"} :
              Apply(plan, Told(s), OnRun(kind)) = Told(WithStatus(s, "running"))
         /\ Apply(plan, Told(s), OnRun("run.succeeded")) = Told(WithStatus(s, "succeeded"))
BY DEF Apply, Told, OnRun, WithStatus, Snapshot

\* Exactly the tasks that hold a lease go back to ready.  (_paused_transition)
LEMMA TellsInterruption ==
  ASSUME NEW s \in Snapshot, NEW plan, NEW kind \in {"run.paused", "run.recovered"},
         \A t \in Tasks : s.task_statuses[t] = "running" <=> s.task_execution_ids[t] # None
  PROVE  Apply(plan, Told(s), OnRun(kind)) = Told(Paused(s))
<1>1. Apply(plan, Told(s), OnRun(kind)) = SeenInterruption(Told(s))
  BY DEF Apply, OnRun
<1>2. /\ Paused(s).status = "paused"
      /\ Paused(s).task_attempts = s.task_attempts /\ Paused(s).task_outputs = s.task_outputs
      /\ Paused(s).task_statuses = [t \in Tasks |-> IF s.task_statuses[t] = "running"
                                                      THEN "ready" ELSE s.task_statuses[t]]
      /\ Paused(s).task_execution_ids = [t \in Tasks |-> IF s.task_statuses[t] = "running"
                                                 THEN None ELSE s.task_execution_ids[t]]
  BY DEF Paused, InFlight, Snapshot
<1>3. /\ Paused(s).task_execution_ids = NoLeases
      /\ Paused(s).task_statuses = [t \in Tasks |-> IF s.task_execution_ids[t] = None
                                                      THEN s.task_statuses[t] ELSE "ready"]
  BY <1>2 DEF NoLeases
<1>4. SeenInterruption(Told(s)) =
        [Told(s) EXCEPT !.status = "paused", !.tasks = Paused(s).task_statuses,
                        !.leases = Paused(s).task_execution_ids]
  BY <1>3 DEF SeenInterruption, Told
<1>5. SeenInterruption(Told(s)) =
        [status |-> "paused", tasks |-> Paused(s).task_statuses, attempts |-> s.task_attempts,
         leases |-> Paused(s).task_execution_ids, outputs |-> s.task_outputs]
  BY <1>4 DEF Told
<1> QED
  BY <1>1, <1>2, <1>5 DEF Told

\* No task has failed in a run that can be cancelled.  (_cancel)
LEMMA TellsCancel ==
  ASSUME NEW s \in Snapshot, NEW plan, \A t \in Tasks : s.task_statuses[t] # "failed"
  PROVE  Apply(plan, Told(s), OnRun("run.cancelled")) = Told(Cancelled(s))
<1>1. /\ Cancelled(s).status = "cancelled"
      /\ Cancelled(s).task_attempts = s.task_attempts
      /\ Cancelled(s).task_outputs = s.task_outputs
      /\ Cancelled(s).task_execution_ids = NoLeases
      /\ Cancelled(s).task_statuses =
           [t \in Tasks |-> IF s.task_statuses[t] \in {"succeeded", "absent"}
                              THEN s.task_statuses[t] ELSE "cancelled"]
  BY DEF Cancelled, Snapshot, NoLeases
<1>2. Cancelled(s).task_statuses =
        [t \in Tasks |-> IF t \in Done(Told(s)) THEN s.task_statuses[t] ELSE "cancelled"]
  BY <1>1 DEF Done, Told
<1>3. Apply(plan, Told(s), OnRun("run.cancelled")) =
        [Told(s) EXCEPT
           !.status = "cancelled",
           !.tasks  = [t \in Tasks |-> IF t \in Done(Told(s)) THEN @[t] ELSE "cancelled"],
           !.leases = NoLeases]
  BY DEF Apply, OnRun
<1>4. Apply(plan, Told(s), OnRun("run.cancelled")) =
        [Told(s) EXCEPT !.status = "cancelled", !.tasks = Cancelled(s).task_statuses,
                        !.leases = NoLeases]
  BY <1>2, <1>3 DEF Told
<1>5. Apply(plan, Told(s), OnRun("run.cancelled")) =
        [status |-> "cancelled", tasks |-> Cancelled(s).task_statuses,
         attempts |-> s.task_attempts, leases |-> NoLeases, outputs |-> s.task_outputs]
  BY <1>4 DEF Told
<1> QED
  BY <1>1, <1>5 DEF Told

\* (_mark_ready)
LEMMA TellsReady ==
  ASSUME NEW s \in Snapshot, NEW plan, NEW t \in Tasks
  PROVE  Apply(plan, Told(s), OnTask("task.ready", t)) = Told(TaskReady(s, t))
BY DEF Apply, OnTask, TaskReady, Snapshot, Told, SeenTask

\* The commits of one execution.  (_claim_task, _commit_task_success, _retry_task)
LEMMA TellsTask ==
  ASSUME NEW s \in Snapshot, NEW plan, NEW t \in Tasks, NEW e \in ExecutionIds
  PROVE  /\ Apply(plan, Told(s), OnExecution("task.started", t, e))
              = Told(TaskRunning(s, t, e))
         /\ Apply(plan, Told(s), OnExecution("task.succeeded", t, e))
              = Told(TaskSucceeded(s, t, e))
         /\ Apply(plan, Told(s), OnExecution("task.retrying", t, e))
              = Told(TaskRetrying(s, t))
<1> USE DEF Snapshot, Told, SeenTask, SeenOutcome
<1>1. Apply(plan, Told(s), OnExecution("task.started", t, e)) = Told(TaskRunning(s, t, e))
  BY DEF Apply, OnExecution, TaskRunning
<1>2. Apply(plan, Told(s), OnExecution("task.succeeded", t, e)) = Told(TaskSucceeded(s, t, e))
  BY DEF Apply, OnExecution, TaskSucceeded
<1>3. Apply(plan, Told(s), OnExecution("task.retrying", t, e)) = Told(TaskRetrying(s, t))
  BY DEF Apply, OnExecution, TaskRetrying
<1> QED
  BY <1>1, <1>2, <1>3

\* The task that failed blocks those that depend on it, found from either end.
\* (_fail_task_and_run)
LEMMA TellsFailure ==
  ASSUME NEW s \in Snapshot, s.plan \in Plans, NEW t \in Tasks, NEW e \in ExecutionIds,
         \A u \in Tasks : s.task_statuses[u] \notin {"failed", "absent"},
         s.task_statuses[t] = "running"
  PROVE  Apply(s.plan, Apply(s.plan, Told(s), OnExecution("task.failed", t, e)),
               OnTask("run.failed", t)) = Told(TaskAndRunFailed(s, t))
<1> DEFINE seen == Apply(s.plan, Told(s), OnExecution("task.failed", t, e))
           changed == TaskAndRunFailed(s, t)
<1>1. seen = [status |-> s.status, tasks |-> [s.task_statuses EXCEPT ![t] = "failed"],
              attempts |-> s.task_attempts,
              leases |-> [s.task_execution_ids EXCEPT ![t] = None],
              outputs |-> s.task_outputs]
  BY DEF Apply, OnExecution, SeenOutcome, SeenTask, Told
<1>2. /\ changed.status = "failed"
      /\ changed.task_attempts = s.task_attempts /\ changed.task_outputs = s.task_outputs
      /\ changed.task_execution_ids = NoLeases
      /\ changed.task_statuses =
           [u \in Tasks |->
              IF u = t THEN "failed"
              ELSE IF s.task_statuses[u] = "succeeded" THEN s.task_statuses[u]
              ELSE IF u \in BlockedDescendants(s.plan, t) THEN "blocked"
              ELSE "cancelled"]
  BY DEF TaskAndRunFailed, Snapshot, NoLeases
<1>3. \A x \in Tasks : s.plan.dependencies[x] \subseteq Tasks
  BY PlansAssumption DEF PlanShape
<1>4. \A u \in Tasks \ {t} : u \in BlockedDescendants(s.plan, t) <=> DependsOn(s.plan, u, t)
  BY <1>3, BlockedDependOnFailed
<1> HIDE DEF seen, changed
<1>5. Done(seen) = {u \in Tasks : u = t \/ s.task_statuses[u] = "succeeded"}
  BY <1>1 DEF Done, Snapshot
<1>6. changed.task_statuses =
        [u \in Tasks |->
           IF u \in Done(seen) THEN seen.tasks[u]
           ELSE IF DependsOn(s.plan, u, t) THEN "blocked" ELSE "cancelled"]
  <2>1. \A u \in Tasks : seen.tasks[u] = IF u = t THEN "failed" ELSE s.task_statuses[u]
    BY <1>1 DEF Snapshot
  <2> QED
    BY <1>2, <1>4, <1>5, <2>1
<1>7. Apply(s.plan, seen, OnTask("run.failed", t)) = SeenFailure(seen, s.plan, t)
  BY DEF Apply, OnTask
<1>8. SeenFailure(seen, s.plan, t) =
        [seen EXCEPT !.status = "failed", !.tasks = changed.task_statuses, !.leases = NoLeases]
  BY <1>6 DEF SeenFailure
<1>9. SeenFailure(seen, s.plan, t) = Told(changed)
  BY <1>1, <1>2, <1>8 DEF Told
<1> QED
  BY <1>7, <1>9 DEF seen, changed

(***************************************************************************)
(* The stream explains the snapshot                                        *)
(***************************************************************************)

\* Until it is planned a run has one event; and replaying gives the stored snapshot.
LogReplayed ==
  /\ run.status = "created" => events = <<OnRun("run.created")>>
  /\ ReplaysTo(run.plan, events, Told(run))

\* A commit stores what it is given.
LEMMA CommitTells ==
  ASSUME TypeOK, NEW changed \in Snapshot, NEW drafts \in Seq(RunEvent),
         Commit(changed, drafts)
  PROVE  /\ Told(run)' = Told(changed) /\ run'.plan = changed.plan
         /\ run'.status = changed.status
         /\ events' = events \o drafts
BY CommitFields DEF Told, Commit

\* A commit of one event keeps the replay exact when that event tells the change.
LEMMA OneEventReplayed ==
  ASSUME TypeOK, LogReplayed, NEW changed \in Snapshot, NEW event \in RunEvent,
         Commit(changed, <<event>>), changed.plan = run.plan,
         changed.status # "created",
         Apply(run.plan, Told(run), event) = Told(changed)
  PROVE  LogReplayed'
<1>1. <<event>> \in Seq(RunEvent) /\ events \in Seq(RunEvent)
  BY DEF TypeOK
<1>2. /\ Told(run)' = Told(changed) /\ run'.plan = run.plan /\ run'.status # "created"
      /\ events' = events \o <<event>>
  BY <1>1, CommitTells
<1>3. ReplaysTo(run.plan, events \o <<event>>, Told(changed))
  BY <1>1, ReplayOneMore DEF LogReplayed
<1> QED
  BY <1>2, <1>3 DEF LogReplayed

LEMMA PairOfEvents ==
  ASSUME NEW first \in RunEvent, NEW second \in RunEvent
  PROVE  <<first>> \o <<second>> = <<first, second>>
<1> DEFINE one == <<first>> \o <<second>>
           two == <<first, second>>
<1>1. <<first>> \in Seq(RunEvent) /\ <<second>> \in Seq(RunEvent)
  OBVIOUS
<1>2. one \in Seq(RunEvent) /\ Len(one) = 2 /\ one[1] = first /\ one[2] = second
  BY <1>1, ConcatProperties
<1>3. two \in Seq(RunEvent) /\ Len(two) = 2 /\ two[1] = first /\ two[2] = second
  OBVIOUS
<1> HIDE DEF one, two
<1>4. \A i \in 1 .. Len(one) : one[i] = two[i]
  BY <1>2, <1>3
<1>5. one = two
  BY <1>2, <1>3, <1>4, SeqEqual
<1> QED
  BY <1>5 DEF one, two

LEMMA TwoEventsReplayed ==
  ASSUME TypeOK, LogReplayed, NEW changed \in Snapshot,
         NEW first \in RunEvent, NEW second \in RunEvent,
         Commit(changed, <<first, second>>), changed.plan = run.plan,
         changed.status # "created",
         Apply(run.plan, Apply(run.plan, Told(run), first), second) = Told(changed)
  PROVE  LogReplayed'
<1>1. /\ <<first, second>> \in Seq(RunEvent) /\ events \in Seq(RunEvent)
      /\ <<first>> \in Seq(RunEvent) /\ <<second>> \in Seq(RunEvent)
      /\ events \o <<first>> \in Seq(RunEvent)
  BY DEF TypeOK
<1>a. events \o <<first, second>> = (events \o <<first>>) \o <<second>>
  <2>1. <<first>> \o <<second>> = <<first, second>>
    BY PairOfEvents
  <2>2. (events \o <<first>>) \o <<second>> = events \o (<<first>> \o <<second>>)
    BY <1>1, ConcatAssociative
  <2> QED
    BY <2>1, <2>2
<1>2. /\ Told(run)' = Told(changed) /\ run'.plan = run.plan /\ run'.status # "created"
      /\ events' = events \o <<first, second>>
  BY <1>1, CommitTells
<1>3. ReplaysTo(run.plan, events \o <<first>>, Apply(run.plan, Told(run), first))
  BY <1>1, ReplayOneMore DEF LogReplayed
<1>4. ReplaysTo(run.plan, (events \o <<first>>) \o <<second>>, Told(changed))
  BY <1>1, <1>3, ReplayOneMore
<1>5. ReplaysTo(run.plan, events', Told(changed))
  BY <1>a, <1>2, <1>4
<1> QED
  BY <1>2, <1>5 DEF LogReplayed

\* What the first event tells does not depend on a plan.
LEMMA ReplayOfNewRun ==
  ASSUME NEW plan
  PROVE  ReplaysTo(plan, <<OnRun("run.created")>>, NothingSeen)
<1> DEFINE event == OnRun("run.created")
<1>1. event \in RunEvent /\ event.kind = "run.created"
  BY DEF OnRun, RunEvent, RunEventKind, MaybeExecution
<1>2. << >> \in Seq(RunEvent) /\ << >> \o <<event>> = <<event>>
  OBVIOUS
<1> HIDE DEF event
<1>3. Apply(plan, NothingSeen, event) = NothingSeen
  BY <1>1, TellsNothing
<1>4. ReplaysTo(plan, << >> \o <<event>>, NothingSeen)
  BY <1>1, <1>2, <1>3, ReplayOfNothing, ReplayOneMore
<1> QED
  BY <1>2, <1>4 DEF event

\* A log is replayed to one snapshot only.
LEMMA ReplayUnique ==
  ASSUME NEW plan, NEW log, NEW u, NEW v, ReplaysTo(plan, log, u), ReplaysTo(plan, log, v)
  PROVE  u = v
BY DEF ReplaysTo

\* Planning, which is also where the plan the replay knows comes from.
LEMMA PlanReplayed ==
  ASSUME TypeOK, LogReplayed, Plan
  PROVE  LogReplayed'
<1>1. /\ run \in Snapshot /\ run.status = "created"
      /\ events = <<OnRun("run.created")>> /\ events \in Seq(RunEvent)
  BY DEF LogReplayed, Plan, TypeOK
<1>2. Told(run) = NothingSeen
  BY <1>1, ReplayOfNewRun, ReplayUnique DEF LogReplayed
<1>3. ASSUME NEW p \in Plans, Commit(Planned(run, p), <<OnRun("plan.created")>>)
      PROVE  LogReplayed'
  <2> DEFINE event == OnRun("plan.created")
             changed == Planned(run, p)
  <2>1. event \in RunEvent /\ event.kind = "plan.created" /\ <<event>> \in Seq(RunEvent)
    BY DEF OnRun, RunEvent, RunEventKind, MaybeExecution
  <2>2. changed \in Snapshot /\ changed.plan = p /\ changed.status = "planned"
    BY <1>1, TransitionTypes DEF Planned, Snapshot
  <2>3. Apply(p, NothingSeen, event) = Told(changed)
    <3>1. Apply(p, NothingSeen, event) =
            [NothingSeen EXCEPT !.status = "planned", !.tasks = [t \in Tasks |-> "pending"]]
      BY <2>1 DEF Apply
    <3>2. /\ changed.task_statuses = [t \in Tasks |-> "pending"]
          /\ changed.task_attempts = run.task_attempts
          /\ changed.task_execution_ids = run.task_execution_ids
          /\ changed.task_outputs = run.task_outputs
      BY <1>1 DEF Planned, Snapshot
    <3>3. /\ run.task_attempts = NothingSeen.attempts
          /\ run.task_execution_ids = NothingSeen.leases
          /\ run.task_outputs = NothingSeen.outputs
      BY <1>2 DEF Told
    <3> HIDE DEF changed
    <3> QED
      BY <2>2, <3>1, <3>2, <3>3 DEF Told, NothingSeen
  <2> HIDE DEF event
  <2>4. ReplaysTo(p, events \o <<event>>, Told(changed))
    BY <1>1, <2>1, <2>3, ReplayOfNewRun, ReplayOneMore
  <2>5. Commit(changed, <<event>>)
    BY <1>3 DEF event
  <2> HIDE DEF changed
  <2>6. /\ Told(run)' = Told(changed) /\ run'.plan = p /\ run'.status # "created"
        /\ events' = events \o <<event>>
    BY <2>1, <2>2, <2>5, CommitTells
  <2> QED
    BY <2>4, <2>6 DEF LogReplayed
<1>4. ASSUME Commit(WithStatus(run, "failed"), <<OnRun("run.failed")>>)
      PROVE  LogReplayed'
  <2> DEFINE event == OnRun("run.failed")
             changed == WithStatus(run, "failed")
  <2>1. event \in RunEvent /\ event.kind = "run.failed" /\ event.task = None
    BY DEF OnRun, RunEvent, RunEventKind, MaybeExecution
  <2>2. /\ changed \in Snapshot /\ changed.plan = run.plan /\ changed.status = "failed"
        /\ Told(changed) = [Told(run) EXCEPT !.status = "failed"]
    <3>1. changed \in Snapshot
      BY <1>1, TransitionTypes DEF RunStatus
    <3> QED
      BY <1>1, <3>1 DEF WithStatus, Snapshot, Told
  <2>3. Apply(run.plan, NothingSeen, event) = Told(changed)
    <3>1. Apply(run.plan, NothingSeen, event) = SeenFailure(NothingSeen, run.plan, None)
      BY <2>1 DEF Apply
    <3>2. Done(NothingSeen) = Tasks
      BY DEF Done, NothingSeen
    <3>3. SeenFailure(NothingSeen, run.plan, None) =
            [NothingSeen EXCEPT !.status = "failed",
                                !.tasks  = [t \in Tasks |-> NothingSeen.tasks[t]],
                                !.leases = NoLeases]
      BY <3>2 DEF SeenFailure
    <3>4. [t \in Tasks |-> NothingSeen.tasks[t]] = NothingSeen.tasks
      BY DEF NothingSeen
    <3>5. SeenFailure(NothingSeen, run.plan, None) = [NothingSeen EXCEPT !.status = "failed"]
      <4>1. NothingSeen.leases = NoLeases
        BY DEF NothingSeen, NoLeases
      <4>2. NothingSeen = [status |-> "created", tasks |-> NothingSeen.tasks,
                           attempts |-> NothingSeen.attempts,
                           leases |-> NothingSeen.leases, outputs |-> NothingSeen.outputs]
        BY DEF NothingSeen
      <4> QED
        BY <3>3, <3>4, <4>1, <4>2
    <3> QED
      BY <1>2, <2>2, <3>1, <3>5
  <2> HIDE DEF event, changed
  <2>4. Commit(changed, <<event>>)
    BY <1>4 DEF event, changed
  <2> QED
    BY <1>2, <2>1, <2>2, <2>3, <2>4, OneEventReplayed
<1> QED
  BY <1>3, <1>4 DEF Plan

\* The commits of the run: its status, its interruptions and its end.
LEMMA RunCommitReplayed ==
  ASSUME TypeOK, Leases, Unfinished, NeverStalls, LogReplayed,
         Start \/ Pause \/ Resume \/ Cancel \/ Recover \/ Conclude
  PROVE  LogReplayed'
<1>1. run \in Snapshot
  BY DEF TypeOK
<1>2. \A kind \in RunEventKind : OnRun(kind) \in RunEvent
  BY DEF OnRun, RunEvent, MaybeExecution
<1>k. {"run.started", "run.recovered", "run.paused", "run.resumed", "run.cancelled",
       "run.succeeded"} \subseteq RunEventKind
  BY DEF RunEventKind
<1>3. ASSUME NEW kind \in {"run.started", "run.resumed"},
             Commit(WithStatus(run, "running"), <<OnRun(kind)>>)
      PROVE  LogReplayed'
  <2> DEFINE changed == WithStatus(run, "running")
  <2>1. changed \in Snapshot
    BY <1>1, TransitionTypes DEF RunStatus
  <2>2. changed.plan = run.plan /\ changed.status = "running"
    BY <1>1 DEF WithStatus, Snapshot
  <2>3. Apply(run.plan, Told(run), OnRun(kind)) = Told(changed)
    BY <1>1, TellsStatus
  <2>4. OnRun(kind) \in RunEvent
    BY <1>2, <1>k
  <2> HIDE DEF changed
  <2> QED
    BY <1>3, <2>1, <2>2, <2>3, <2>4, OneEventReplayed DEF changed
<1>4. ASSUME NEW kind \in {"run.paused", "run.recovered"},
             Commit(Paused(run), <<OnRun(kind)>>)
      PROVE  LogReplayed'
  <2> DEFINE changed == Paused(run)
  <2>1. changed \in Snapshot
    BY <1>1, TransitionTypes
  <2>2. changed.plan = run.plan /\ changed.status = "paused"
    BY <1>1 DEF Paused, Snapshot
  <2>3. \A t \in Tasks : run.task_statuses[t] = "running" <=> run.task_execution_ids[t] # None
    BY NoneAssumption DEF Leases, LeaseTable, Outstanding
  <2>4. Apply(run.plan, Told(run), OnRun(kind)) = Told(changed)
    BY <1>1, <2>3, TellsInterruption
  <2>5. OnRun(kind) \in RunEvent
    BY <1>2, <1>k
  <2> HIDE DEF changed
  <2> QED
    BY <1>4, <2>1, <2>2, <2>4, <2>5, OneEventReplayed DEF changed
<1>5. CASE Cancel
  <2> DEFINE changed == Cancelled(run)
  <2>1. changed \in Snapshot
    BY <1>1, TransitionTypes
  <2>2. changed.plan = run.plan /\ changed.status = "cancelled"
    BY <1>1 DEF Cancelled, Snapshot
  <2>3. \A t \in Tasks : run.task_statuses[t] # "failed"
    BY <1>5 DEF Cancel, Unfinished
  <2>4. Apply(run.plan, Told(run), OnRun("run.cancelled")) = Told(changed)
    BY <1>1, <2>3, TellsCancel
  <2>5. OnRun("run.cancelled") \in RunEvent
    BY <1>2, <1>k
  <2>6. Commit(changed, <<OnRun("run.cancelled")>>)
    BY <1>5 DEF Cancel
  <2> HIDE DEF changed
  <2> QED
    BY <2>1, <2>2, <2>4, <2>5, <2>6, OneEventReplayed
<1>6. CASE Conclude
  <2> DEFINE changed == WithStatus(run, "succeeded")
  <2>1. changed \in Snapshot
    BY <1>1, TransitionTypes DEF RunStatus
  <2>2. changed.plan = run.plan /\ changed.status = "succeeded"
    BY <1>1 DEF WithStatus, Snapshot
  <2>3. Apply(run.plan, Told(run), OnRun("run.succeeded")) = Told(changed)
    BY <1>1, TellsStatus
  <2>4. OnRun("run.succeeded") \in RunEvent
    BY <1>2, <1>k
  <2>5. Commit(changed, <<OnRun("run.succeeded")>>)
    BY <1>6 DEF Conclude, NeverStalls
  <2> HIDE DEF changed
  <2> QED
    BY <2>1, <2>2, <2>3, <2>4, <2>5, OneEventReplayed
<1> QED
  BY <1>3, <1>4, <1>5, <1>6 DEF Start, Resume, Pause, Recover

LEMMA ReadyReplayed ==
  ASSUME TypeOK, LogReplayed, run.status # "created", NEW t \in Tasks,
         Commit(TaskReady(run, t), <<OnTask("task.ready", t)>>)
  PROVE  LogReplayed'
<1>1. run \in Snapshot
  BY DEF TypeOK
<1>2. OnTask("task.ready", t) \in RunEvent
  BY DEF OnTask, RunEvent, RunEventKind, MaybeExecution
<1>3. /\ TaskReady(run, t) \in Snapshot
      /\ TaskReady(run, t).plan = run.plan /\ TaskReady(run, t).status = run.status
  BY <1>1, TransitionTypes DEF TaskReady, Snapshot
<1>4. Apply(run.plan, Told(run), OnTask("task.ready", t)) = Told(TaskReady(run, t))
  BY <1>1, TellsReady
<1> QED
  BY <1>2, <1>3, <1>4, OneEventReplayed

\* The commits of one execution that write one event.
LEMMA TaskCommitReplayed ==
  ASSUME TypeOK, LogReplayed, run.status # "created",
         NEW t \in Tasks, NEW e \in ExecutionIds, NEW drafts,
         \/ /\ Commit(TaskRunning(run, t, e), drafts)
            /\ drafts = <<OnExecution("task.started", t, e)>>
         \/ /\ Commit(TaskRetrying(run, t), drafts)
            /\ drafts = <<OnExecution("task.retrying", t, e)>>
         \/ Commit(run, drafts) /\ drafts = <<OnExecution("task.result_ignored", t, e)>>
  PROVE  LogReplayed'
<1>1. run \in Snapshot
  BY DEF TypeOK
<1>2. /\ OnExecution("task.started", t, e) \in RunEvent
      /\ OnExecution("task.retrying", t, e) \in RunEvent
      /\ OnExecution("task.result_ignored", t, e) \in RunEvent
  BY DEF OnExecution, RunEvent, RunEventKind, MaybeExecution
<1>3. CASE /\ Commit(TaskRunning(run, t, e), drafts)
           /\ drafts = <<OnExecution("task.started", t, e)>>
  <2>1. TaskRunning(run, t, e) \in Snapshot
    BY <1>1, TransitionTypes
  <2>2. TaskRunning(run, t, e).plan = run.plan /\ TaskRunning(run, t, e).status = run.status
    BY <1>1 DEF TaskRunning, Snapshot
  <2>3. Apply(run.plan, Told(run), OnExecution("task.started", t, e))
          = Told(TaskRunning(run, t, e))
    BY <1>1, TellsTask
  <2> QED
    BY <1>2, <1>3, <2>1, <2>2, <2>3, OneEventReplayed
<1>4. CASE /\ Commit(TaskRetrying(run, t), drafts)
           /\ drafts = <<OnExecution("task.retrying", t, e)>>
  <2>1. /\ TaskRetrying(run, t) \in Snapshot
        /\ TaskRetrying(run, t).plan = run.plan /\ TaskRetrying(run, t).status = run.status
    BY <1>1, TransitionTypes DEF TaskRetrying, Snapshot
  <2>2. Apply(run.plan, Told(run), OnExecution("task.retrying", t, e))
          = Told(TaskRetrying(run, t))
    BY <1>1, TellsTask
  <2> QED
    BY <1>2, <1>4, <2>1, <2>2, OneEventReplayed
<1>5. CASE Commit(run, drafts) /\ drafts = <<OnExecution("task.result_ignored", t, e)>>
  <2>1. Apply(run.plan, Told(run), OnExecution("task.result_ignored", t, e)) = Told(run)
    BY TellsNothing DEF OnExecution
  <2> QED
    BY <1>1, <1>2, <1>5, <2>1, OneEventReplayed
<1> QED
  BY <1>3, <1>4, <1>5

\* A success, with or without the artifact before it.
LEMMA SuccessReplayed ==
  ASSUME TypeOK, LogReplayed, run.status # "created",
         NEW t \in Tasks, NEW e \in ExecutionIds,
         Commit(TaskSucceeded(run, t, e), SuccessEvents(t, e))
  PROVE  LogReplayed'
<1> DEFINE published == OnExecution("artifact.stored", t, e)
           outcome   == OnExecution("task.succeeded", t, e)
           changed   == TaskSucceeded(run, t, e)
<1>1. run \in Snapshot
  BY DEF TypeOK
<1>2. published \in RunEvent /\ outcome \in RunEvent
  BY DEF OnExecution, RunEvent, RunEventKind, MaybeExecution
<1>3. SuccessEvents(t, e) \in {<<outcome>>, <<published, outcome>>}
  <2>1. << >> \o <<outcome>> = <<outcome>>
    BY <1>2, ConcatEmptySeq
  <2>2. <<published>> \o <<outcome>> = <<published, outcome>>
    BY <1>2, PairOfEvents
  <2> QED
    BY <2>1, <2>2 DEF SuccessEvents
<1>4. changed \in Snapshot
  BY <1>1, TransitionTypes
<1>5. changed.plan = run.plan /\ changed.status = run.status
  BY <1>1 DEF TaskSucceeded, Snapshot
<1>6. Apply(run.plan, Told(run), outcome) = Told(changed)
  BY <1>1, TellsTask
<1>7. Apply(run.plan, Told(run), published) = Told(run)
  BY TellsNothing DEF OnExecution
<1> HIDE DEF published, outcome
<1>8. Commit(changed, <<outcome>>) \/ Commit(changed, <<published, outcome>>)
  BY <1>3
<1> HIDE DEF changed
<1>9. CASE Commit(changed, <<outcome>>)
  BY <1>2, <1>4, <1>5, <1>6, <1>9, OneEventReplayed
<1>10. CASE Commit(changed, <<published, outcome>>)
  BY <1>2, <1>4, <1>5, <1>6, <1>7, <1>10, TwoEventsReplayed
<1> QED
  BY <1>8, <1>9, <1>10

\* A final failure: the task's event, then the run's.
LEMMA FailureReplayed ==
  ASSUME TypeOK, PlanKnown, Unfinished, LogReplayed, run.status = "running",
         NEW t \in Tasks, NEW e \in ExecutionIds, run.task_statuses[t] = "running",
         Commit(TaskAndRunFailed(run, t), FailureEvents(t, e))
  PROVE  LogReplayed'
<1> DEFINE first   == OnExecution("task.failed", t, e)
           second  == OnTask("run.failed", t)
           changed == TaskAndRunFailed(run, t)
<1>1. run \in Snapshot
  BY DEF TypeOK
<1>2. first \in RunEvent /\ second \in RunEvent
  BY DEF OnExecution, OnTask, RunEvent, RunEventKind, MaybeExecution
<1>3. changed \in Snapshot
  BY <1>1, TransitionTypes
<1>4. changed.plan = run.plan /\ changed.status = "failed"
  BY <1>1 DEF TaskAndRunFailed, Snapshot
<1>5. /\ run.plan \in Plans
      /\ \A u \in Tasks : run.task_statuses[u] \notin {"failed", "absent"}
  BY NoneAssumption DEF PlanKnown, Unfinished, TerminalRunStatuses
<1>6. Apply(run.plan, Apply(run.plan, Told(run), first), second) = Told(changed)
  BY <1>1, <1>5, TellsFailure
<1>7. Commit(changed, <<first, second>>)
  BY DEF FailureEvents
<1> HIDE DEF first, second, changed
<1> QED
  BY <1>2, <1>3, <1>4, <1>6, <1>7, TwoEventsReplayed

LEMMA ReplayStep ==
  TypeOK /\ PlanKnown /\ Leases /\ Unfinished /\ NeverStalls /\ LogReplayed /\ [Next]_vars
    => LogReplayed'
<1> SUFFICES ASSUME TypeOK, PlanKnown, Leases, Unfinished, NeverStalls, LogReplayed,
                    [Next]_vars
             PROVE  LogReplayed'
  OBVIOUS
<1>1. CASE Plan
  BY <1>1, PlanReplayed
<1>2. CASE Start \/ Pause \/ Resume \/ Cancel \/ Recover \/ Conclude
  BY <1>2, RunCommitReplayed
<1>3. ASSUME NEW t \in Tasks, MarkReady(t) PROVE LogReplayed'
  <2>1. /\ run.status # "created"
        /\ Commit(TaskReady(run, t), <<OnTask("task.ready", t)>>)
    BY <1>3 DEF MarkReady, Schedulable
  <2> QED
    BY <2>1, ReadyReplayed
<1>4. ASSUME NEW t \in Tasks, NEW e \in ExecutionIds, Claim(t, e) PROVE LogReplayed'
  <2>1. /\ run.status # "created"
        /\ Commit(TaskRunning(run, t, e), <<OnExecution("task.started", t, e)>>)
    BY <1>4 DEF Claim, Schedulable
  <2> QED
    BY <2>1, TaskCommitReplayed
<1>5. ASSUME NEW e \in ExecutionIds, RecordSuccess(e) PROVE LogReplayed'
  <2> DEFINE t == leases[e].task
  <2>1. /\ run.status = "running" /\ t \in Tasks
        /\ Commit(TaskSucceeded(run, t, e), SuccessEvents(t, e))
    BY <1>5, HolderFacts DEF RecordSuccess
  <2> HIDE DEF t
  <2> QED
    BY <2>1, SuccessReplayed
<1>6. ASSUME NEW e \in ExecutionIds, RecordRetry(e) PROVE LogReplayed'
  <2> DEFINE t == leases[e].task
  <2>1. /\ run.status = "running" /\ t \in Tasks
        /\ Commit(TaskRetrying(run, t), <<OnExecution("task.retrying", t, e)>>)
    BY <1>6, HolderFacts DEF RecordRetry
  <2> HIDE DEF t
  <2> QED
    BY <2>1, TaskCommitReplayed
<1>7. ASSUME NEW e \in ExecutionIds, RecordFailure(e) PROVE LogReplayed'
  <2> DEFINE t == leases[e].task
  <2>1. /\ run.status = "running" /\ t \in Tasks /\ run.task_statuses[t] = "running"
        /\ Commit(TaskAndRunFailed(run, t), FailureEvents(t, e))
    BY <1>7, HolderFacts DEF RecordFailure
  <2> HIDE DEF t
  <2> QED
    BY <2>1, FailureReplayed
<1>8. ASSUME NEW e \in ExecutionIds, RecordIgnored(e) PROVE LogReplayed'
  <2> DEFINE t == leases[e].task
  <2>1. /\ t \in Tasks /\ leases[e].epoch \in Nat \ {0} /\ e \notin Unclaimed
        /\ Commit(run, <<OnExecution("task.result_ignored", t, e)>>)
    BY <1>8, OutstandingHasTask DEF RecordIgnored, Outstanding
  <2>2. run.status # "created"
    <3>1. leases[e].epoch <= run.task_attempts[t]
      BY <2>1 DEF Leases
    <3>2. run.task_attempts[t] # 0
      BY <2>1, <3>1
    <3> QED
      BY <2>1, <3>2 DEF PlanKnown
  <2> HIDE DEF t
  <2> QED
    BY <2>1, <2>2, TaskCommitReplayed
<1>9. CASE UNCHANGED vars
  BY <1>9 DEF vars, LogReplayed, Told
<1> QED
  BY <1>1, <1>2, <1>3, <1>4, <1>5, <1>6, <1>7, <1>8, <1>9 DEF Next

\* Replaying the event stream gives the stored snapshot: no commit changes a status, an
\* attempt, a lease or an output without the event that says so.
\* (save_run_and_append, whose drafts RuntimeService builds beside each transition)
THEOREM StreamExplainsSnapshot == Spec => []EventsExplainSnapshot
<1>1. Init => LogReplayed
  <2> SUFFICES ASSUME Init PROVE LogReplayed
    OBVIOUS
  <2>1. Told(run) = NothingSeen
    BY DEF Init, NewRun, Told, NothingSeen
  <2> QED
    BY <2>1, ReplayOfNewRun DEF Init, LogReplayed
<1>2. LogReplayed => EventsExplainSnapshot
  BY ReplayIsLast DEF LogReplayed, EventsExplainSnapshot
<1> QED
  BY <1>1, <1>2, TypeCorrect, PlanIsKnown, LeasesInvariant, UnfinishedInvariant,
     SchedulerNeverStalls, ReplayStep, PTL DEF Spec
=============================================================================
