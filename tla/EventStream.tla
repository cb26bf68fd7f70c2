----------------------------- MODULE EventStream -----------------------------
(***************************************************************************)
(* A client that follows the event stream of a run over SSE.               *)
(*                                                                         *)
(* watch_events lists the events after the last one it sent, sends them,   *)
(* and only then loads the snapshot to see whether the run has ended.      *)
(* Commits happen between these reads.  A connection may drop at any time  *)
(* with events listed but not received; the client reconnects with the     *)
(* last sequence it has.  The sequence of an event is its position.        *)
(***************************************************************************)
EXTENDS RunModel

CONSTANTS
  MaxInterruptions, \* bound on pauses and recoveries together
  MaxReconnects,    \* bound on the connections of the client after the first
  MaxEvents         \* how far EventsDelivered looks; no run of an instance is longer

ASSUME BoundsAssumption ==
  MaxInterruptions \in Nat /\ MaxReconnects \in Nat /\ MaxEvents \in Nat

VARIABLES
  run, events, leases, settled, \* the run, as in RunLifecycle
  stream,                       \* the generator watch_events
  received,                     \* the sequences the client received, in order
  reconnects

runVars == <<run, events, leases, settled>>
vars    == <<runVars, stream, received, reconnects>>

Lifecycle == INSTANCE RunLifecycle

TypeOK ==
  /\ Lifecycle!TypeOK
  /\ stream \in [pc            : {"list", "send", "load", "ended", "dropped"},
                 next_sequence : Nat,
                 listed        : Nat]
  /\ received \in Seq(Nat)
  /\ reconnects \in 0 .. MaxReconnects

\* A connection with after_sequence = n.
Connection(n) == [pc |-> "list", next_sequence |-> n, listed |-> n]

Init ==
  /\ Lifecycle!Init
  /\ stream = Connection(0)
  /\ received = <<>>
  /\ reconnects = 0

\* Faulty: a client that received nothing reconnects without a cursor.
LastReceived_Missing == IF received = <<>> THEN None ELSE received[Len(received)]

LastReceived == IF received = <<>> THEN 0 ELSE received[Len(received)]

\* Faulty: the cursor starts over with every listing.
ListEvents_FromStart ==
  /\ stream.pc = "list"
  /\ stream' = [pc |-> "send", next_sequence |-> 0, listed |-> Len(events)]
  /\ UNCHANGED <<runVars, received, reconnects>>

\* list_events(run_id, next_sequence): what is stored by now, in order.
ListEvents ==
  /\ stream.pc = "list"
  /\ stream' = [stream EXCEPT !.pc = "send", !.listed = Len(events)]
  /\ UNCHANGED <<runVars, received, reconnects>>

\* Faulty: the cursor moves to the end of the listing with its first event.
Send_SkippingRest ==
  /\ stream.pc = "send"
  /\ stream.next_sequence < stream.listed
  /\ stream' = [stream EXCEPT !.next_sequence = stream.listed]
  /\ received' = Append(received, stream.next_sequence + 1)
  /\ UNCHANGED <<runVars, reconnects>>

Send ==
  /\ stream.pc = "send"
  /\ stream.next_sequence < stream.listed
  /\ stream' = [stream EXCEPT !.next_sequence = @ + 1]
  /\ received' = Append(received, stream.next_sequence + 1)
  /\ UNCHANGED <<runVars, reconnects>>

AllSent ==
  /\ stream.pc = "send"
  /\ stream.next_sequence >= stream.listed
  /\ stream' = [stream EXCEPT !.pc = "load"]
  /\ UNCHANGED <<runVars, received, reconnects>>

\* Faulty: a paused run ends the stream, and a succeeded one does not.
LoadStatus_PausedEnds ==
  /\ stream.pc = "load"
  /\ stream' = [stream EXCEPT !.pc = IF run.status \in {"paused", "failed", "cancelled"}
                                       THEN "ended" ELSE "list"]
  /\ UNCHANGED <<runVars, received, reconnects>>

LoadStatus ==
  /\ stream.pc = "load"
  /\ stream' = [stream EXCEPT !.pc = IF run.status \in TerminalRunStatuses
                                       THEN "ended" ELSE "list"]
  /\ UNCHANGED <<runVars, received, reconnects>>

Drop ==
  /\ stream.pc \in {"list", "send", "load"}
  /\ stream' = [stream EXCEPT !.pc = "dropped"]
  /\ UNCHANGED <<runVars, received, reconnects>>

Reconnect ==
  /\ stream.pc \in {"dropped", "ended"}
  /\ reconnects < MaxReconnects
  /\ stream' = Connection(LastReceived)
  /\ reconnects' = reconnects + 1
  /\ UNCHANGED <<runVars, received>>

Watch == ListEvents \/ Send \/ AllSent \/ LoadStatus

Next ==
  \/ Lifecycle!Next /\ UNCHANGED <<stream, received, reconnects>>
  \/ Watch \/ Drop \/ Reconnect

Spec == Init /\ [][Next]_vars

\* The event loop resumes the generator after each read, and a connected client
\* keeps reading.  Nothing is assumed of the run, nor of reconnecting.
FairSpec == Spec /\ WF_vars(Watch)

(***************************************************************************)
(* Properties                                                              *)
(***************************************************************************)

\* Over all its connections the client receives the events in order of sequence,
\* without a gap and without a duplicate, and only committed ones.
GapFree ==
  /\ received = [i \in 1 .. Len(received) |-> i]
  /\ Len(received) <= Len(events)

Connected == stream.pc \in {"list", "send", "load"}

\* While the run goes on, every committed event reaches a client that stays
\* connected: a stream never starves behind the commits.
EventsDelivered ==
  \A n \in 1 .. MaxEvents :
    Len(events) >= n ~>
      Len(received) >= n \/ stream.pc = "dropped" \/ run.status \in TerminalRunStatuses

\* A stream ends once the run has ended, and only then.
StreamEndsWithRun ==
  /\ [](stream.pc = "ended" => run.status \in TerminalRunStatuses)
  /\ run.status \in TerminalRunStatuses ~> ~ Connected

\* A stream that ended by itself has delivered everything that led to the end of
\* the run: M2.3 lets a client receive the committed events over SSE, and stopping
\* is up to the server.
EndedStreamIsComplete ==
  stream.pc = "ended" =>
    \E i \in 1 .. Len(received) :
      events[received[i]].kind \in {"run.succeeded", "run.failed", "run.cancelled"}
=============================================================================
