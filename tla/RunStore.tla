------------------------------ MODULE RunStore ------------------------------
(***************************************************************************)
(* The RunStore port as its callers may rely on it: every call takes       *)
(* effect at one moment between its start and its return, or not at all.   *)
(* The effects are those of InMemoryRunStore, whose methods run without an *)
(* await under one lock.  Beside them a call may find the store            *)
(* unavailable, and may be lost with the process that made it - after its  *)
(* effect too.                                                             *)
(*                                                                         *)
(* One run is modelled: rows of other runs share nothing with it but the   *)
(* lock.  A snapshot is its version and the call that wrote it; an event   *)
(* is the call that wrote it, under its sequence number.                   *)
(***************************************************************************)
EXTENDS Naturals, FiniteSets

CONSTANTS
  Callers,   \* the calls in flight during a behaviour, each made once
  CallsOf,   \* what each of them may ask for
  None       \* no row

Operations == {"create", "commit", "load", "list_by_status", "list_events"}

VARIABLES
  snapshot,  \* the stored snapshot
  events,    \* the stored events, a function on their sequence numbers
  call,      \* what each caller asked for
  phase,     \* how far each call has come
  answer     \* what it answers, None before its effect

vars == <<snapshot, events, call, phase, answer>>

Phases == {"idle", "called", "done", "returned", "lost"}

\* The run as an earlier process left it.
Earlier == "earlier"

NewSnapshot(version, by) == [version |-> version, by |-> by]

LastSequence(log) == Cardinality(DOMAIN log)

Appended(log, n, by) ==
  [i \in 1 .. LastSequence(log) + n |-> IF i \in DOMAIN log THEN log[i] ELSE by]

After(log, sequence) == [i \in {j \in DOMAIN log : j > sequence} |-> log[i]]

Stored(version, log, n) ==
  [kind |-> "stored", version |-> version,
   sequences |-> LastSequence(log) + 1 .. LastSequence(log) + n]
Found(rows)   == [kind |-> "found", rows |-> rows]
Listed(log)   == [kind |-> "listed", events |-> log]
Failure(kind) == [kind |-> kind]

-----------------------------------------------------------------------------
EmptyStore == snapshot = None /\ events = [i \in {} |-> None]
UsedStore  == snapshot = NewSnapshot(0, Earlier) /\ events = [i \in {1} |-> Earlier]

Init ==
  /\ EmptyStore \/ UsedStore
  /\ call = [c \in Callers |-> None]
  /\ phase = [c \in Callers |-> "idle"]
  /\ answer = [c \in Callers |-> None]

Call(c, request) ==
  /\ phase[c] = "idle"
  /\ call' = [call EXCEPT ![c] = request]
  /\ phase' = [phase EXCEPT ![c] = "called"]
  /\ UNCHANGED <<snapshot, events, answer>>

Answers(c, a) ==
  /\ phase[c] = "called"
  /\ phase' = [phase EXCEPT ![c] = "done"]
  /\ answer' = [answer EXCEPT ![c] = a]
  /\ UNCHANGED call

Writes(c, version) ==
  /\ snapshot' = NewSnapshot(version, c)
  /\ events' = Appended(events, call[c].drafts, c)
  /\ Answers(c, Stored(version, events, call[c].drafts))

Fails(c, kind) == Answers(c, Failure(kind)) /\ UNCHANGED <<snapshot, events>>

Create(c) ==
  /\ call[c].op = "create"
  /\ \/ snapshot # None /\ Fails(c, "conflict")
     \/ snapshot = None /\ Writes(c, 0)

Commit(c) ==
  /\ call[c].op = "commit"
  /\ \/ snapshot = None /\ Fails(c, "not_found")
     \/ /\ snapshot # None
        /\ snapshot.version # call[c].expected
        /\ Fails(c, "conflict")
     \/ /\ snapshot # None
        /\ snapshot.version = call[c].expected
        /\ Writes(c, call[c].expected + 1)

Load(c) ==
  /\ call[c].op = "load"
  /\ \/ snapshot = None /\ Fails(c, "not_found")
     \/ snapshot # None /\ Answers(c, Found({snapshot})) /\ UNCHANGED <<snapshot, events>>

ListByStatus(c) ==
  /\ call[c].op = "list_by_status"
  /\ Answers(c, Found({snapshot} \ {None}))
  /\ UNCHANGED <<snapshot, events>>

ListEvents(c) ==
  /\ call[c].op = "list_events"
  /\ \/ snapshot = None /\ Fails(c, "not_found")
     \/ /\ snapshot # None
        /\ Answers(c, Listed(After(events, call[c].after)))
        /\ UNCHANGED <<snapshot, events>>

Return(c) ==
  /\ phase[c] = "done"
  /\ phase' = [phase EXCEPT ![c] = "returned"]
  /\ UNCHANGED <<snapshot, events, call, answer>>

\* DependencyUnavailable: nothing was stored.
Unavailable(c) == phase[c] = "called" /\ Fails(c, "unavailable")

\* Processes die with the calls they are making, before or after the effect.
Lose(lost) ==
  /\ \A c \in lost : phase[c] \in {"called", "done"}
  /\ phase' = [c \in Callers |-> IF c \in lost THEN "lost" ELSE phase[c]]
  /\ UNCHANGED <<snapshot, events, call, answer>>

Next ==
  \/ \E c \in Callers :
       \/ \E request \in CallsOf[c] : Call(c, request)
       \/ /\ phase[c] = "called"
          /\ Create(c) \/ Commit(c) \/ Load(c) \/ ListByStatus(c) \/ ListEvents(c)
       \/ Return(c)
       \/ Unavailable(c)
  \/ \E lost \in SUBSET Callers : Lose(lost)

Spec == Init /\ [][Next]_vars
=============================================================================
