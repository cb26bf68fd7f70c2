--------------------------- MODULE SQLiteRunStore ---------------------------
(***************************************************************************)
(* SQLiteRunStore, statement by statement, on a database file shared by    *)
(* the processes in Hosts.  Every call opens a connection of its own       *)
(* (NullPool) and is shielded from cancellation.                           *)
(*                                                                         *)
(* The database is external and modelled by what the code relies on: with  *)
(* a rollback journal, a SELECT outside a transaction holds a shared lock  *)
(* while it runs; the first INSERT or UPDATE begins the transaction and    *)
(* takes the only write lock; COMMIT keeps new readers out and waits for   *)
(* the others; CREATE TABLE commits by itself; a statement that waits for  *)
(* a lock longer than the 30 seconds of connect_args fails; what a dead    *)
(* process did not commit is rolled back by the next one.                  *)
(***************************************************************************)
EXTENDS Naturals, FiniteSets

CONSTANTS
  Callers,    \* the calls of a behaviour, each made once
  CallsOf,    \* what each of them may ask for
  Hosts,      \* the processes that have the file open
  HostOf,     \* the process of each call
  MaxFaults,  \* bounds crashes and failing statements together
  None

ASSUME HostOfAssumption == HostOf \in [Callers -> Hosts]
ASSUME FaultsAssumption == MaxFaults \in Nat

VARIABLES
  tables,       \* the tables that exist
  row, log,     \* the committed content of the tables runs and run_events
  writer,       \* the call whose transaction has the write lock
  work,         \* what that transaction sees: its own changes to row and log
  readers,      \* the calls with a shared lock
  committing,   \* the writer waits in COMMIT and keeps new readers out
  initialized,  \* SQLiteRunStore._initialized of each process
  initLock,     \* its _initialization_lock
  missing,      \* for each call, the tables create_all found missing
  last,         \* for each call, last_sequence in _append_events
  pc, call, answer,
  faults

dbVars   == <<tables, row, log>>
lockVars == <<writer, work, readers, committing>>
initVars == <<initialized, initLock, missing>>
vars     == <<dbVars, lockVars, initVars, last, pc, call, answer, faults>>

Phase ==
  [c \in Callers |->
     CASE pc[c] \in {"idle", "returned", "lost"} -> pc[c]
       [] pc[c] \in {"rollback", "return"}       -> "done"
       [] OTHER                                  -> "called"]

Store == INSTANCE RunStore WITH snapshot <- row, events <- log, phase <- Phase

ASSUME CallsAssumption ==
  \A c \in Callers :
    CallsOf[c] \subseteq [op : Store!Operations, expected : Nat, drafts : Nat, after : Nat]

\* The absent row is no row, no stream and no call, and no call has the name of the
\* earlier process.
ASSUME NoneAssumption ==
  /\ None \notin Callers
  /\ None \notin [version : Nat, by : Callers \cup {Store!Earlier}]
  /\ None # [i \in {} |-> None]
  /\ Store!Earlier \notin Callers

AllTables == {"runs", "run_events"}
Reads     == {"load", "list_by_status", "list_events"}
Nothing   == [row |-> None, log |-> None]

MaxSequence(l) ==
  IF DOMAIN l = {} THEN 0 ELSE CHOOSE s \in DOMAIN l : \A i \in DOMAIN l : i <= s

\* The rows of a call's drafts, numbered on from a sequence number.
Materialized(sequence, c) == [s \in sequence + 1 .. sequence + call[c].drafts |-> c]

Init ==
  /\ \/ tables \in {{}, {"runs"}, AllTables} /\ Store!EmptyStore
     \/ tables = AllTables /\ Store!UsedStore
  /\ writer = None /\ work = Nothing /\ readers = {} /\ committing = FALSE
  /\ initialized = [h \in Hosts |-> FALSE]
  /\ initLock = [h \in Hosts |-> None]
  /\ missing = [c \in Callers |-> {}]
  /\ last = [c \in Callers |-> 0]
  /\ pc = [c \in Callers |-> "idle"]
  /\ call = [c \in Callers |-> None]
  /\ answer = [c \in Callers |-> None]
  /\ faults = 0

Goes(c, from, to) == pc[c] = from /\ pc' = [pc EXCEPT ![c] = to]
Answers(c, a)     == answer' = [answer EXCEPT ![c] = a]

CallStore(c, request) ==
  /\ Goes(c, "idle", "ensure")
  /\ call' = [call EXCEPT ![c] = request]
  /\ UNCHANGED <<dbVars, lockVars, initVars, last, answer, faults>>

-----------------------------------------------------------------------------
(***************************************************************************)
(* _ensure_initialized: the lock is per process, and the flag is looked at *)
(* again once the lock is held.                                            *)
(***************************************************************************)
AlreadyInitialized(c) ==
  /\ initialized[HostOf[c]]
  /\ Goes(c, "ensure", "execute")
  /\ UNCHANGED <<dbVars, lockVars, initVars, last, call, answer, faults>>

\* Faulty: the flag is set before the tables are created.
TakeInitLock_FlagFirst(c) ==
  /\ ~initialized[HostOf[c]]
  /\ initLock[HostOf[c]] = None
  /\ Goes(c, "ensure", "check_tables")
  /\ initLock' = [initLock EXCEPT ![HostOf[c]] = c]
  /\ initialized' = [initialized EXCEPT ![HostOf[c]] = TRUE]
  /\ UNCHANGED <<dbVars, lockVars, missing, last, call, answer, faults>>

TakeInitLock(c) ==
  /\ ~initialized[HostOf[c]]
  /\ initLock[HostOf[c]] = None
  /\ Goes(c, "ensure", "check_tables")
  /\ initLock' = [initLock EXCEPT ![HostOf[c]] = c]
  /\ UNCHANGED <<dbVars, lockVars, initialized, missing, last, call, answer, faults>>

\* create_all looks for all tables before it creates the first.
CheckTables(c) ==
  /\ ~committing
  /\ Goes(c, "check_tables", "create_tables")
  /\ missing' = [missing EXCEPT ![c] = AllTables \ tables]
  /\ UNCHANGED <<dbVars, lockVars, initialized, initLock, last, call, answer, faults>>

\* run_events refers to runs and is created after it.
NextTable(c) == IF "runs" \in missing[c] THEN "runs" ELSE "run_events"

CreateTable(c) ==
  /\ missing[c] # {}
  /\ NextTable(c) \notin tables
  /\ writer = None /\ readers = {}
  /\ Goes(c, "create_tables", "create_tables")
  /\ tables' = tables \cup {NextTable(c)}
  /\ missing' = [missing EXCEPT ![c] = @ \ {NextTable(c)}]
  /\ UNCHANGED <<row, log, lockVars, initialized, initLock, last, call, answer, faults>>

InitializationFails(c) ==
  /\ pc[c] \in {"check_tables", "create_tables"}
  /\ pc' = [pc EXCEPT ![c] = "return"]
  /\ initLock' = [initLock EXCEPT ![HostOf[c]] = None]
  /\ Answers(c, Store!Failure("unavailable"))
  /\ UNCHANGED <<dbVars, lockVars, initialized, missing, last, call>>

\* Another process created the table after this one had looked.
TableAlreadyExists(c) ==
  /\ missing[c] \cap tables # {}
  /\ NextTable(c) \in tables
  /\ ~committing
  /\ pc[c] = "create_tables"
  /\ InitializationFails(c)
  /\ UNCHANGED faults

SchemaReady(c) ==
  /\ missing[c] = {}
  /\ Goes(c, "create_tables", "execute")
  /\ initialized' = [initialized EXCEPT ![HostOf[c]] = TRUE]
  /\ initLock' = [initLock EXCEPT ![HostOf[c]] = None]
  /\ UNCHANGED <<dbVars, lockVars, missing, last, call, answer, faults>>

-----------------------------------------------------------------------------
(***************************************************************************)
(* _create and _commit: one transaction each.                              *)
(***************************************************************************)
\* INSERT INTO runs; a row with the run id is an IntegrityError.
InsertRun(c) ==
  /\ call[c].op = "create"
  /\ writer = None
  /\ writer' = c
  /\ IF row = None
       THEN /\ Goes(c, "execute", "append")
            /\ work' = [row |-> Store!NewSnapshot(0, c), log |-> log]
            /\ UNCHANGED answer
       ELSE /\ Goes(c, "execute", "rollback")
            /\ work' = [row |-> row, log |-> log]
            /\ Answers(c, Store!Failure("conflict"))
  /\ UNCHANGED <<dbVars, readers, committing, initVars, last, call, faults>>

\* Faulty: WHERE names the run only.
UpdateRun_AnyVersion(c) ==
  /\ call[c].op = "commit"
  /\ writer = None
  /\ writer' = c
  /\ work' = [row |-> IF row = None THEN None ELSE Store!NewSnapshot(call[c].expected + 1, c),
              log |-> log]
  /\ Goes(c, "execute", IF row = None THEN "conflict" ELSE "append")
  /\ UNCHANGED <<dbVars, readers, committing, initVars, last, call, answer, faults>>

\* Faulty: the update is committed at once, as it would be outside a transaction.
UpdateRun_Autocommit(c) ==
  LET matches == row # None /\ row.version = call[c].expected
  IN  /\ call[c].op = "commit"
      /\ writer = None
      /\ writer' = c
      /\ row' = IF matches THEN Store!NewSnapshot(call[c].expected + 1, c) ELSE row
      /\ work' = [row |-> row', log |-> log]
      /\ Goes(c, "execute", IF matches THEN "append" ELSE "conflict")
      /\ UNCHANGED <<tables, log, readers, committing, initVars, last, call, answer, faults>>

\* UPDATE runs ... WHERE run_id and version; rowcount tells whether a row matched.
UpdateRun(c) ==
  LET matches == row # None /\ row.version = call[c].expected
  IN  /\ call[c].op = "commit"
      /\ writer = None
      /\ writer' = c
      /\ work' = [row |-> IF matches THEN Store!NewSnapshot(call[c].expected + 1, c) ELSE row,
                  log |-> log]
      /\ Goes(c, "execute", IF matches THEN "append" ELSE "conflict")
      /\ UNCHANGED <<dbVars, readers, committing, initVars, last, call, answer, faults>>

RaiseCommitConflict(c) ==
  /\ Goes(c, "conflict", "rollback")
  /\ Answers(c, Store!Failure(IF work.row = None THEN "not_found" ELSE "conflict"))
  /\ UNCHANGED <<dbVars, lockVars, initVars, last, call, faults>>

NoEvents(c) ==
  /\ Goes(c, "append", "commit")
  /\ call[c].drafts = 0
  /\ UNCHANGED <<dbVars, lockVars, initVars, last, call, answer, faults>>

\* Faulty: without coalesce, there is no maximum of an empty stream.
SelectLastSequence_NoCoalesce(c) ==
  /\ Goes(c, "append", "insert_events")
  /\ call[c].drafts > 0
  /\ last' = [last EXCEPT ![c] = IF DOMAIN work.log = {} THEN None ELSE MaxSequence(work.log)]
  /\ UNCHANGED <<dbVars, lockVars, initVars, call, answer, faults>>

\* SELECT coalesce(max(sequence), 0), under the write lock.
SelectLastSequence(c) ==
  /\ Goes(c, "append", "insert_events")
  /\ call[c].drafts > 0
  /\ last' = [last EXCEPT ![c] = MaxSequence(work.log)]
  /\ UNCHANGED <<dbVars, lockVars, initVars, call, answer, faults>>

\* INSERT INTO run_events; a used sequence number is an IntegrityError, which only
\* create() tells from other failures.
InsertEvents(c) ==
  LET stored   == Materialized(last[c], c)
      collides == DOMAIN stored \cap DOMAIN work.log # {}
  IN  /\ Goes(c, "insert_events", IF collides THEN "rollback" ELSE "commit")
      /\ work' = IF collides THEN work
                 ELSE [work EXCEPT !.log = [s \in DOMAIN @ \cup DOMAIN stored |->
                                              IF s \in DOMAIN @ THEN @[s] ELSE stored[s]]]
      /\ answer' = IF ~collides THEN answer
                   ELSE [answer EXCEPT ![c] =
                           Store!Failure(IF call[c].op = "create" THEN "conflict"
                                                                  ELSE "unavailable")]
      /\ UNCHANGED <<dbVars, writer, readers, committing, initVars, last, call, faults>>

BeginCommit(c) ==
  /\ Goes(c, "commit", "committing")
  /\ committing' = TRUE
  /\ UNCHANGED <<dbVars, writer, work, readers, initVars, last, call, answer, faults>>

EndCommit(c) ==
  /\ readers = {}
  /\ Goes(c, "committing", "return")
  /\ row' = work.row /\ log' = work.log
  /\ writer' = None /\ work' = Nothing /\ committing' = FALSE
  /\ Answers(c, Store!Stored(work.row.version, log, call[c].drafts))
  /\ UNCHANGED <<tables, readers, initVars, last, call, faults>>

\* Faulty: a call that raises leaves its transaction open.
Rollback_Forgotten(c) ==
  /\ Goes(c, "rollback", "return")
  /\ readers' = readers \ {c}
  /\ UNCHANGED <<dbVars, writer, work, committing, initVars, last, call, answer, faults>>

\* An exception leaves engine.begin() or engine.connect(): the locks are released.
Rollback(c) ==
  /\ Goes(c, "rollback", "return")
  /\ readers' = readers \ {c}
  /\ IF writer = c THEN writer' = None /\ work' = Nothing /\ committing' = FALSE
                   ELSE UNCHANGED <<writer, work, committing>>
  /\ UNCHANGED <<dbVars, initVars, last, call, answer, faults>>

-----------------------------------------------------------------------------
(***************************************************************************)
(* _load, _list_by_status and _list_events: SELECTs outside a transaction, *)
(* the last two of which _list_events makes one after the other.           *)
(***************************************************************************)
BeginSelect(c, from, to) ==
  /\ ~committing
  /\ Goes(c, from, to)
  /\ readers' = readers \cup {c}
  /\ UNCHANGED <<dbVars, writer, work, committing, initVars, last, call, answer, faults>>

SelectRun(c)    == call[c].op \in Reads /\ BeginSelect(c, "execute", "reading")
SelectEvents(c) == BeginSelect(c, "run_exists", "reading_events")

SelectEnds(c, from, to) ==
  /\ Goes(c, from, to)
  /\ readers' = readers \ {c}
  /\ UNCHANGED <<dbVars, writer, work, committing, initVars, last, call, faults>>

RunSelected(c) ==
  \/ /\ row = None /\ call[c].op # "list_by_status"
     /\ SelectEnds(c, "reading", "return")
     /\ Answers(c, Store!Failure("not_found"))
  \/ /\ row # None /\ call[c].op = "list_events"
     /\ SelectEnds(c, "reading", "run_exists")
     /\ UNCHANGED answer
  \/ /\ call[c].op = "list_by_status" \/ (row # None /\ call[c].op = "load")
     /\ SelectEnds(c, "reading", "return")
     /\ Answers(c, Store!Found({row} \ {None}))

EventsSelected(c) ==
  /\ SelectEnds(c, "reading_events", "return")
  /\ Answers(c, Store!Listed(Store!After(log, call[c].after)))

-----------------------------------------------------------------------------
Return(c) ==
  /\ Goes(c, "return", "returned")
  /\ UNCHANGED <<dbVars, lockVars, initVars, last, call, answer, faults>>

StatementFails(c) ==
  /\ pc[c] \in {"execute", "conflict", "append", "insert_events", "commit", "committing",
                "reading", "run_exists", "reading_events"}
  /\ pc' = [pc EXCEPT ![c] = "rollback"]
  /\ Answers(c, Store!Failure("unavailable"))
  /\ UNCHANGED <<dbVars, lockVars, initVars, last, call>>

\* The statement waits for a lock that another call holds.
Waits(c) ==
  \/ /\ pc[c] = "execute" /\ call[c].op \notin Reads
     /\ writer # None
  \/ /\ pc[c] \in {"execute", "run_exists", "check_tables"}
     /\ committing
  \/ /\ pc[c] = "committing"
     /\ readers # {}
  \/ /\ pc[c] = "create_tables" /\ missing[c] # {}
     /\ writer # None \/ readers # {}

\* The busy timeout: DependencyUnavailable.
TimesOut(c) ==
  /\ Waits(c)
  /\ StatementFails(c) \/ InitializationFails(c)
  /\ UNCHANGED faults

\* Any other error of the database.
Fault(c) ==
  /\ faults < MaxFaults
  /\ faults' = faults + 1
  /\ StatementFails(c) \/ InitializationFails(c)

\* The process dies; its next instance starts uninitialized.
Crash(h) ==
  LET lost == {c \in Callers : HostOf[c] = h /\ pc[c] \notin {"idle", "returned", "lost"}}
  IN  /\ faults < MaxFaults
      /\ faults' = faults + 1
      /\ lost # {}
      /\ pc' = [c \in Callers |-> IF c \in lost THEN "lost" ELSE pc[c]]
      /\ readers' = readers \ lost
      /\ IF writer \in lost THEN writer' = None /\ work' = Nothing /\ committing' = FALSE
                            ELSE UNCHANGED <<writer, work, committing>>
      /\ initialized' = [initialized EXCEPT ![h] = FALSE]
      /\ initLock' = [initLock EXCEPT ![h] = None]
      /\ UNCHANGED <<dbVars, missing, last, call, answer>>

Step(c) ==
  \/ AlreadyInitialized(c) \/ TakeInitLock(c) \/ CheckTables(c) \/ CreateTable(c)
  \/ TableAlreadyExists(c) \/ SchemaReady(c)
  \/ pc[c] = "execute" /\ (InsertRun(c) \/ UpdateRun(c) \/ SelectRun(c))
  \/ RaiseCommitConflict(c) \/ NoEvents(c) \/ SelectLastSequence(c) \/ InsertEvents(c)
  \/ BeginCommit(c) \/ EndCommit(c) \/ Rollback(c)
  \/ pc[c] = "reading" /\ RunSelected(c)
  \/ SelectEvents(c) \/ EventsSelected(c) \/ Return(c)

Next ==
  \/ \E c \in Callers :
       \/ \E request \in CallsOf[c] : CallStore(c, request)
       \/ Step(c)
       \/ TimesOut(c)
       \/ Fault(c)
  \/ \E h \in Hosts : Crash(h)

Spec == Init /\ [][Next]_vars

\* A call goes on whenever the locks it needs are free; it need not time out.
FairSpec == Spec /\ \A c \in Callers : WF_vars(Step(c))

-----------------------------------------------------------------------------
(***************************************************************************)
(* Properties                                                              *)
(***************************************************************************)
TypeOK ==
  /\ tables \subseteq AllTables
  /\ row = None \/ (row.version \in Nat /\ row.by \in Callers \cup {Store!Earlier})
  /\ \A s \in DOMAIN log : s \in Nat \ {0} /\ log[s] \in Callers \cup {Store!Earlier}
  /\ writer \in Callers \cup {None}
  /\ (work = Nothing) <=> (writer = None)
  /\ readers \subseteq Callers
  /\ committing \in BOOLEAN
  /\ initialized \in [Hosts -> BOOLEAN]
  /\ initLock \in [Hosts -> Callers \cup {None}]
  /\ missing \in [Callers -> SUBSET AllTables]
  /\ last \in [Callers -> Nat]
  /\ faults \in 0 .. MaxFaults

\* Statements, locks, timeouts, failures and crashes of several processes add up to
\* the port: every call has its whole effect at one moment, or none, and answers
\* from that moment.
ImplementsStore == Store!Spec

\* The two tables never disagree, whatever was interrupted: sequence numbers have no
\* gap, and the last events are those of the call that wrote the snapshot.
SnapshotMatchesEvents ==
  /\ DOMAIN log = 1 .. Cardinality(DOMAIN log)
  /\ row = None => log = [i \in {} |-> None]
  /\ row # None /\ row.by \in Callers =>
       \A i \in 0 .. call[row.by].drafts - 1 : log[Cardinality(DOMAIN log) - i] = row.by

\* However two processes race for the schema, a process that believes in it has it,
\* and so has every statement on the tables.
InitializedHasSchema ==
  /\ \A h \in Hosts : initialized[h] => tables = AllTables
  /\ \A c \in Callers : pc[c] \in {"execute", "append", "reading"} => tables = AllTables

\* Every call returns unless its process dies, even if the busy timeout never
\* fires: no error path keeps a lock, and no two calls wait for each other.
CallsReturn == \A c \in Callers : pc[c] = "ensure" ~> pc[c] \in {"returned", "lost"}
=============================================================================
