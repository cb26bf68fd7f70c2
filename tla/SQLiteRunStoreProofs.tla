------------------------- MODULE SQLiteRunStoreProofs -------------------------
(***************************************************************************)
(* Proofs about SQLiteRunStore, for every set of calls and of processes,   *)
(* whatever the calls ask for and however many crashes and failing         *)
(* statements there are.                                                   *)
(***************************************************************************)
EXTENDS SQLiteRunStore, FiniteSetTheorems, TLAPS

(***************************************************************************)
(* The inductive invariant                                                 *)
(***************************************************************************)
Pcs == {"idle", "ensure", "check_tables", "create_tables", "execute", "conflict", "append",
        "insert_events", "commit", "committing", "reading", "run_exists", "reading_events",
        "rollback", "return", "returned", "lost"}

\* The steps of a call that only the holder of the write lock makes.
Appending == {"append", "insert_events", "commit", "committing"}
Writing   == {"conflict"} \cup Appending

\* The steps that take the tables for granted.
OnTables == Writing \cup {"execute", "reading", "run_exists", "reading_events"}

Requests  == [op : Store!Operations, expected : Nat, drafts : Nat, after : Nat]
Authors   == Callers \cup {Store!Earlier}
Snapshots == [version : Nat, by : Authors]

ControlOK ==
  /\ pc \in [Callers -> Pcs]
  /\ DOMAIN call = Callers /\ DOMAIN answer = Callers
  /\ \A c \in Callers :
       /\ pc[c] # "idle" => call[c] \in Requests
       /\ pc[c] \in Writing => call[c].op \in {"create", "commit"}
       /\ pc[c] = "conflict" => call[c].op = "commit"
       /\ pc[c] \in {"reading", "run_exists", "reading_events"} => call[c].op \in Reads
       /\ pc[c] \in {"run_exists", "reading_events"} => call[c].op = "list_events"

StreamOK ==
  /\ row \in Snapshots \cup {None}
  /\ \E n \in Nat : log \in [1 .. n -> Authors]
  /\ row = None => log = [i \in {} |-> None]

AuthorOK ==
  row # None /\ row.by \in Callers =>
    /\ pc[row.by] # "idle"
    /\ \A i \in 0 .. call[row.by].drafts - 1 : log[Cardinality(DOMAIN log) - i] = row.by

\* The call that has the write lock is the one that writes.
WriterOK ==
  /\ writer \in Callers \cup {None}
  /\ writer # None => pc[writer] \in Writing \cup {"rollback"}
  /\ \A c \in Callers : pc[c] \in Writing => writer = c

\* The snapshot a call wants to write, and when it may.
Wanted(c)  == Store!NewSnapshot(IF call[c].op = "create" THEN 0 ELSE call[c].expected + 1, c)
Matches(c) == row # None /\ row.version = call[c].expected
May(c)     == IF call[c].op = "create" THEN row = None ELSE Matches(c)

\* What the open transaction sees is what is committed and the writer's own statements.
WorkOK ==
  /\ (work = Nothing) <=> (writer = None)
  /\ \A c \in Callers :
       /\ pc[c] = "conflict" => work = [row |-> row, log |-> log] /\ ~Matches(c)
       /\ pc[c] \in Appending => May(c)
       /\ pc[c] \in {"append", "insert_events"} => work = [row |-> Wanted(c), log |-> log]
       /\ pc[c] = "insert_events" => last[c] = Cardinality(DOMAIN log)
       /\ pc[c] \in {"commit", "committing"} =>
            work = [row |-> Wanted(c), log |-> Store!Appended(log, call[c].drafts, c)]

\* A listed run is not deleted.
ReadersOK ==
  \A c \in Callers : pc[c] \in {"run_exists", "reading_events"} => row # None

SchemaOK ==
  /\ tables \subseteq AllTables
  /\ initialized \in [Hosts -> BOOLEAN]
  /\ missing \in [Callers -> SUBSET AllTables]
  /\ \A h \in Hosts : initialized[h] => tables = AllTables
  /\ \A c \in Callers :
       /\ pc[c] = "create_tables" => AllTables \ tables \subseteq missing[c]
       /\ pc[c] \in OnTables => tables = AllTables

RestOK ==
  /\ readers \subseteq Callers
  /\ committing \in BOOLEAN
  /\ initLock \in [Hosts -> Callers \cup {None}]
  /\ last \in [Callers -> Nat]
  /\ faults \in 0 .. MaxFaults

StoreInv ==
  /\ ControlOK
  /\ StreamOK
  /\ AuthorOK
  /\ WriterOK
  /\ WorkOK
  /\ ReadersOK
  /\ SchemaOK
  /\ RestOK

-----------------------------------------------------------------------------
(***************************************************************************)
(* Streams of events                                                       *)
(***************************************************************************)

\* The numbers from one on are as many as the last of them.
LEMMA FirstNumbers ==
  ASSUME NEW n \in Nat
  PROVE  Cardinality(1 .. n) = n
<1>1. IsFiniteSet(1 .. n) /\ Cardinality(1 .. n) = IF 1 > n THEN 0 ELSE n - 1 + 1
  BY FS_Interval
<1> QED
  BY <1>1

\* The port counts as the store does.
LEMMA SameCardinality ==
  ASSUME NEW S
  PROVE  Store!Cardinality(S) = Cardinality(S)
BY DEF Store!Cardinality, Cardinality

\* A stream is numbered from one, and its length is its last number: what
\* coalesce(max(sequence), 0) selects.
LEMMA StreamLength ==
  ASSUME NEW l, NEW n \in Nat, l \in [1 .. n -> Authors]
  PROVE  /\ DOMAIN l = 1 .. n
         /\ Cardinality(DOMAIN l) = n
         /\ Store!LastSequence(l) = n
         /\ MaxSequence(l) = n
<1>1. DOMAIN l = 1 .. n
  OBVIOUS
<1>2. Cardinality(DOMAIN l) = n
  BY <1>1, FirstNumbers
<1>3. Store!LastSequence(l) = n
  BY <1>2, SameCardinality DEF Store!LastSequence
<1>4. MaxSequence(l) = n
  <2>1. CASE n = 0
    BY <2>1, <1>1 DEF MaxSequence
  <2>2. CASE n # 0
    <3>1. n \in DOMAIN l /\ \A i \in DOMAIN l : i <= n
      BY <2>2, <1>1
    <3>2. \A s \in DOMAIN l : (\A i \in DOMAIN l : i <= s) => s = n
      BY <3>1, <1>1
    <3> QED
      BY <3>1, <3>2 DEF MaxSequence
  <2> QED
    BY <2>1, <2>2
<1> QED
  BY <1>1, <1>2, <1>3, <1>4

\* Appending numbers the new events on from the last, and changes no old one.
LEMMA AppendedStream ==
  ASSUME NEW l, NEW n \in Nat, l \in [1 .. n -> Authors], NEW k \in Nat, NEW c \in Callers
  PROVE  /\ Store!Appended(l, k, c) \in [1 .. n + k -> Authors]
         /\ \A i \in 1 .. n : Store!Appended(l, k, c)[i] = l[i]
         /\ \A i \in n + 1 .. n + k : Store!Appended(l, k, c)[i] = c
         /\ k = 0 => Store!Appended(l, k, c) = l
<1>1. Store!Appended(l, k, c) = [i \in 1 .. n + k |-> IF i \in 1 .. n THEN l[i] ELSE c]
  BY StreamLength DEF Store!Appended
<1>2. \A i \in 1 .. n + k : (IF i \in 1 .. n THEN l[i] ELSE c) \in Authors
  BY DEF Authors
<1>3. n + 0 = n
  OBVIOUS
<1>4. k = 0 => Store!Appended(l, k, c) = l
  <2> SUFFICES ASSUME k = 0
               PROVE  Store!Appended(l, k, c) = l
    OBVIOUS
  <2>1. Store!Appended(l, k, c) = [i \in 1 .. n |-> IF i \in 1 .. n THEN l[i] ELSE c]
    BY <1>1, <1>3
  <2>2. l = [i \in 1 .. n |-> l[i]]
    OBVIOUS
  <2> QED
    BY <2>1, <2>2
<1> QED
  BY <1>1, <1>2, <1>4

\* The stored stream has a length.
LEMMA LogLength ==
  ASSUME StreamOK
  PROVE  /\ Cardinality(DOMAIN log) \in Nat
         /\ log \in [1 .. Cardinality(DOMAIN log) -> Authors]
         /\ MaxSequence(log) = Cardinality(DOMAIN log)
         /\ Store!LastSequence(log) = Cardinality(DOMAIN log)
<1>1. PICK n \in Nat : log \in [1 .. n -> Authors]
  BY DEF StreamOK
<1> QED
  BY <1>1, StreamLength

\* A snapshot is not the absent row.
LEMMA NewSnapshots ==
  ASSUME NEW v \in Nat, NEW by \in Authors
  PROVE  /\ Store!NewSnapshot(v, by) \in Snapshots
         /\ Store!NewSnapshot(v, by) # None
         /\ Store!NewSnapshot(v, by).version = v
         /\ Store!NewSnapshot(v, by).by = by
BY NoneAssumption DEF Store!NewSnapshot, Snapshots, Authors

\* What a writer wants to write is a snapshot of its own.
LEMMA WantedSnapshots ==
  ASSUME ControlOK, NEW c \in Callers, pc[c] # "idle"
  PROVE  /\ Wanted(c) \in Snapshots
         /\ Wanted(c) # None
         /\ Wanted(c).by = c
         /\ call[c].drafts \in Nat
<1>1. call[c].expected + 1 \in Nat /\ call[c].drafts \in Nat
  BY DEF ControlOK, Requests
<1>2. (IF call[c].op = "create" THEN 0 ELSE call[c].expected + 1) \in Nat
  BY <1>1
<1> QED
  BY <1>1, <1>2, NewSnapshots DEF Wanted, Authors

-----------------------------------------------------------------------------
(***************************************************************************)
(* The invariant holds initially                                           *)
(***************************************************************************)

LEMMA InitialStore ==
  ASSUME Init
  PROVE  StoreInv
<1> USE DEF Init
<1>1. ControlOK
  BY DEF ControlOK, Pcs, Writing, Appending, Reads
<1>2. Store!EmptyStore => StreamOK
  <2> SUFFICES ASSUME Store!EmptyStore
               PROVE  StreamOK
    OBVIOUS
  <2>1. log = [i \in {} |-> None] /\ row = None
    BY DEF Store!EmptyStore
  <2>2. log \in [1 .. 0 -> Authors]
    BY <2>1
  <2> QED
    BY <2>1, <2>2 DEF StreamOK
<1>3. Store!UsedStore => StreamOK
  <2> SUFFICES ASSUME Store!UsedStore
               PROVE  StreamOK
    OBVIOUS
  <2>1. log = [i \in {1} |-> Store!Earlier] /\ row = Store!NewSnapshot(0, Store!Earlier)
    BY DEF Store!UsedStore
  <2>2. log \in [1 .. 1 -> Authors]
    BY <2>1 DEF Authors
  <2>3. row \in Snapshots /\ row # None
    BY <2>1, NewSnapshots DEF Authors
  <2> QED
    BY <2>2, <2>3 DEF StreamOK
<1>4. AuthorOK
  <2>1. row = None \/ row.by = Store!Earlier
    BY DEF Store!EmptyStore, Store!UsedStore, Store!NewSnapshot
  <2> QED
    BY <2>1, NoneAssumption DEF AuthorOK
<1>5. WriterOK /\ WorkOK /\ ReadersOK
  <2>1. writer = None /\ work = Nothing /\ \A c \in Callers : pc[c] = "idle"
    OBVIOUS
  <2>2. WriterOK
    BY <2>1 DEF WriterOK, Writing, Appending
  <2>3. WorkOK
    BY <2>1 DEF WorkOK, Appending
  <2>4. ReadersOK
    BY <2>1 DEF ReadersOK
  <2> QED
    BY <2>2, <2>3, <2>4
<1>6. SchemaOK
  <2>1. tables \subseteq AllTables
    BY DEF AllTables
  <2>2. \A c \in Callers : pc[c] = "idle"
    OBVIOUS
  <2>3. \A c \in Callers : pc[c] # "create_tables" /\ pc[c] \notin OnTables
    BY <2>2 DEF OnTables, Writing, Appending
  <2>4. \A h \in Hosts : ~initialized[h]
    OBVIOUS
  <2>5. initialized \in [Hosts -> BOOLEAN] /\ missing \in [Callers -> SUBSET AllTables]
    OBVIOUS
  <2> QED
    BY <2>1, <2>3, <2>4, <2>5 DEF SchemaOK
<1>7. RestOK
  <2>1. readers \subseteq Callers /\ committing \in BOOLEAN
    OBVIOUS
  <2>3. faults \in 0 .. MaxFaults
    BY FaultsAssumption
  <2>2. initLock \in [Hosts -> Callers \cup {None}] /\ last \in [Callers -> Nat]
    OBVIOUS
  <2> QED
    BY <2>1, <2>2, <2>3 DEF RestOK
<1> QED
  BY <1>1, <1>2, <1>3, <1>4, <1>5, <1>6, <1>7 DEF StoreInv

-----------------------------------------------------------------------------
(***************************************************************************)
(* Steps that leave the stored content and the open transaction alone      *)
(***************************************************************************)

\* A call between other statements does not have the write lock.
LEMMA NotWriting ==
  ASSUME StoreInv, NEW c \in Callers, pc[c] \notin Writing, pc[c] # "rollback"
  PROVE  writer # c
BY NoneAssumption DEF StoreInv, WriterOK

\* The step of a call between two statements that do not write: the writer remains the
\* writer, and what it does not see changed does not change.
LEMMA QuietStep ==
  ASSUME StoreInv, NEW c \in Callers, NEW to \in Pcs,
         pc' = [pc EXCEPT ![c] = to], pc[c] # "idle", to # "idle",
         UNCHANGED <<row, log, writer, work, last, call>>, DOMAIN answer' = DOMAIN answer,
         to \notin Writing, writer = c => to = "rollback",
         to = "reading" => call[c].op \in Reads,
         to \in {"run_exists", "reading_events"} => row # None /\ call[c].op = "list_events"
  PROVE  ControlOK' /\ StreamOK' /\ AuthorOK' /\ WriterOK' /\ WorkOK' /\ ReadersOK'
<1> USE DEF StoreInv
<1>1. \A d \in Callers : pc'[d] = IF d = c THEN to ELSE pc[d]
  BY DEF ControlOK
<1>2. ControlOK'
  <2>1. pc' \in [Callers -> Pcs]
    BY DEF ControlOK
  <2>2. to \in {"run_exists", "reading_events"} => call[c].op \in Reads
    BY DEF Reads
  <2>3. DOMAIN call' = Callers /\ DOMAIN answer' = Callers
    BY DEF ControlOK
  <2>4. ASSUME NEW d \in Callers
        PROVE  /\ pc'[d] # "idle" => call'[d] \in Requests
               /\ pc'[d] \in Writing => call'[d].op \in {"create", "commit"}
               /\ pc'[d] = "conflict" => call'[d].op = "commit"
               /\ pc'[d] \in {"reading", "run_exists", "reading_events"} =>
                    call'[d].op \in Reads
               /\ pc'[d] \in {"run_exists", "reading_events"} => call'[d].op = "list_events"
    <3>1. CASE d = c
      BY <1>1, <2>2, <3>1 DEF ControlOK, Writing
    <3>2. CASE d # c
      BY <1>1, <3>2 DEF ControlOK
    <3> QED
      BY <3>1, <3>2
  <2> QED
    BY <2>1, <2>3, <2>4 DEF ControlOK
<1>3. StreamOK'
  BY DEF StreamOK
<1>4. AuthorOK'
  BY <1>1 DEF AuthorOK
<1>5. WriterOK'
  BY <1>1 DEF WriterOK
<1>6. WorkOK'
  BY <1>1 DEF WorkOK, Wanted, Matches, May, Writing, Appending
<1>7. ReadersOK'
  BY <1>1 DEF ReadersOK
<1> QED
  BY <1>2, <1>3, <1>4, <1>5, <1>6, <1>7

\* Such a step and the tables: a call that goes on to a statement on the tables has found
\* them, and no table is dropped.
LEMMA QuietSchema ==
  ASSUME StoreInv, NEW c \in Callers, NEW to \in Pcs,
         pc' = [pc EXCEPT ![c] = to], UNCHANGED <<tables, initialized, missing>>,
         to # "create_tables", to \in OnTables => tables = AllTables
  PROVE  SchemaOK'
<1>1. \A d \in Callers : pc'[d] = IF d = c THEN to ELSE pc[d]
  BY DEF StoreInv, ControlOK
<1> QED
  BY <1>1 DEF StoreInv, SchemaOK

-----------------------------------------------------------------------------
(***************************************************************************)
(* A call is made, and initializes its store                               *)
(***************************************************************************)

LEMMA CallStoreStep ==
  ASSUME StoreInv, NEW c \in Callers, NEW request \in CallsOf[c], CallStore(c, request)
  PROVE  StoreInv'
<1> USE DEF StoreInv
<1>1. /\ pc[c] = "idle" /\ pc' = [pc EXCEPT ![c] = "ensure"]
      /\ call' = [call EXCEPT ![c] = request]
      /\ UNCHANGED <<dbVars, lockVars, initVars, last, answer, faults>>
  BY DEF CallStore, Goes
<1>2. \A d \in Callers : /\ pc'[d] = IF d = c THEN "ensure" ELSE pc[d]
                         /\ call'[d] = IF d = c THEN request ELSE call[d]
  BY <1>1 DEF ControlOK
<1>3. ControlOK'
  <2>1. request \in Requests
    BY CallsAssumption DEF Requests
  <2>2. pc' \in [Callers -> Pcs] /\ DOMAIN call' = Callers /\ DOMAIN answer' = Callers
    BY <1>1 DEF ControlOK, Pcs
  <2> QED
    BY <1>2, <2>1, <2>2 DEF ControlOK, Writing, Appending
<1>4. StreamOK'
  BY <1>1 DEF StreamOK, dbVars
<1>5. AuthorOK'
  BY <1>1, <1>2 DEF AuthorOK, dbVars
<1>6. WriterOK'
  BY <1>1, <1>2 DEF WriterOK, lockVars, Writing, Appending
<1>7. WorkOK'
  <2>1. \A d \in Callers : pc'[d] \in Writing => d # c /\ pc[d] = pc'[d] /\ call'[d] = call[d]
    BY <1>2 DEF Writing, Appending
  <2>2. UNCHANGED <<row, log, writer, work, last>>
    BY <1>1 DEF dbVars, lockVars
  <2> QED
    BY <2>1, <2>2 DEF WorkOK, Wanted, Matches, May, Writing, Appending
<1>8. ReadersOK'
  BY <1>1, <1>2 DEF ReadersOK, dbVars
<1>9. SchemaOK'
  BY <1>1, <1>2 DEF SchemaOK, dbVars, initVars, OnTables, Writing, Appending
<1>10. RestOK'
  BY <1>1 DEF RestOK, lockVars, initVars
<1> QED
  BY <1>3, <1>4, <1>5, <1>6, <1>7, <1>8, <1>9, <1>10

LEMMA AlreadyInitializedStep ==
  ASSUME StoreInv, NEW c \in Callers, AlreadyInitialized(c)
  PROVE  StoreInv'
<1> DEFINE to == "execute"
<1>1. /\ initialized[HostOf[c]] /\ pc[c] = "ensure" /\ pc' = [pc EXCEPT ![c] = to]
      /\ UNCHANGED <<dbVars, lockVars, initVars, last, call, answer, faults>>
  BY DEF AlreadyInitialized, Goes
<1>2. to \in Pcs /\ to \notin Writing
  BY DEF Pcs, Writing, Appending
<1>3. writer # c
  BY <1>1, NotWriting DEF Writing, Appending
<1>4. ControlOK' /\ StreamOK' /\ AuthorOK' /\ WriterOK' /\ WorkOK' /\ ReadersOK'
  BY <1>1, <1>2, <1>3, QuietStep DEF dbVars, lockVars
<1>5. tables = AllTables
  BY <1>1, HostOfAssumption DEF StoreInv, SchemaOK
<1>6. SchemaOK'
  BY <1>1, <1>2, <1>5, QuietSchema DEF dbVars, initVars
<1>7. RestOK'
  BY <1>1 DEF StoreInv, RestOK, lockVars, initVars
<1> QED
  BY <1>4, <1>6, <1>7 DEF StoreInv

LEMMA TakeInitLockStep ==
  ASSUME StoreInv, NEW c \in Callers, TakeInitLock(c)
  PROVE  StoreInv'
<1> DEFINE to == "check_tables"
<1>1. /\ pc[c] = "ensure" /\ pc' = [pc EXCEPT ![c] = to]
      /\ initLock' = [initLock EXCEPT ![HostOf[c]] = c]
      /\ UNCHANGED <<dbVars, lockVars, initialized, missing, last, call, answer, faults>>
  BY DEF TakeInitLock, Goes
<1>2. to \in Pcs /\ to \notin OnTables /\ to \notin Writing
  BY DEF Pcs, OnTables, Writing, Appending
<1>3. writer # c
  BY <1>1, NotWriting DEF Writing, Appending
<1>4. ControlOK' /\ StreamOK' /\ AuthorOK' /\ WriterOK' /\ WorkOK' /\ ReadersOK'
  BY <1>1, <1>2, <1>3, QuietStep DEF dbVars, lockVars
<1>5. SchemaOK'
  BY <1>1, <1>2, QuietSchema DEF dbVars
<1>6. RestOK'
  BY <1>1 DEF StoreInv, RestOK, lockVars
<1> QED
  BY <1>4, <1>5, <1>6 DEF StoreInv

\* create_all has noted every table that is missing.
LEMMA CheckTablesStep ==
  ASSUME StoreInv, NEW c \in Callers, CheckTables(c)
  PROVE  StoreInv'
<1> DEFINE to == "create_tables"
<1>1. /\ pc[c] = "check_tables" /\ pc' = [pc EXCEPT ![c] = to]
      /\ missing' = [missing EXCEPT ![c] = AllTables \ tables]
      /\ UNCHANGED <<dbVars, lockVars, initialized, initLock, last, call, answer, faults>>
  BY DEF CheckTables, Goes
<1>2. to \in Pcs /\ to \notin OnTables /\ to \notin Writing
  BY DEF Pcs, OnTables, Writing, Appending
<1>3. writer # c
  BY <1>1, NotWriting DEF Writing, Appending
<1>4. ControlOK' /\ StreamOK' /\ AuthorOK' /\ WriterOK' /\ WorkOK' /\ ReadersOK'
  BY <1>1, <1>2, <1>3, QuietStep DEF dbVars, lockVars
<1>5. SchemaOK'
  <2>1. \A d \in Callers : /\ pc'[d] = IF d = c THEN to ELSE pc[d]
                           /\ missing'[d] = IF d = c THEN AllTables \ tables ELSE missing[d]
    BY <1>1 DEF StoreInv, ControlOK, SchemaOK
  <2>2. missing' \in [Callers -> SUBSET AllTables]
    BY <1>1 DEF StoreInv, SchemaOK
  <2> QED
    BY <1>1, <1>2, <2>1, <2>2 DEF StoreInv, SchemaOK, dbVars
<1>6. RestOK'
  BY <1>1 DEF StoreInv, RestOK, lockVars
<1> QED
  BY <1>4, <1>5, <1>6 DEF StoreInv

\* A table that is created is missing no more.
LEMMA CreateTableStep ==
  ASSUME StoreInv, NEW c \in Callers, CreateTable(c)
  PROVE  StoreInv'
<1> DEFINE to == "create_tables"
<1>1. /\ pc[c] = "create_tables" /\ pc' = [pc EXCEPT ![c] = to]
      /\ tables' = tables \cup {NextTable(c)}
      /\ missing' = [missing EXCEPT ![c] = @ \ {NextTable(c)}]
      /\ UNCHANGED <<row, log, lockVars, initialized, initLock, last, call, answer, faults>>
  BY DEF CreateTable, Goes
<1>2. to \in Pcs /\ to \notin Writing
  BY DEF Pcs, Writing, Appending
<1>3. writer # c
  BY <1>1, NotWriting DEF Writing, Appending
<1>4. ControlOK' /\ StreamOK' /\ AuthorOK' /\ WriterOK' /\ WorkOK' /\ ReadersOK'
  BY <1>1, <1>2, <1>3, QuietStep DEF lockVars
<1>5. SchemaOK'
  <2>1. NextTable(c) \in AllTables
    BY DEF NextTable, AllTables
  <2>2. \A d \in Callers : /\ pc'[d] = pc[d]
                           /\ missing'[d] = IF d = c THEN missing[c] \ {NextTable(c)}
                                                     ELSE missing[d]
    BY <1>1 DEF StoreInv, ControlOK, SchemaOK
  <2>3. missing' \in [Callers -> SUBSET AllTables]
    BY <1>1 DEF StoreInv, SchemaOK
  <2>4. tables' \subseteq AllTables /\ tables \subseteq tables'
    BY <1>1, <2>1 DEF StoreInv, SchemaOK
  <2>5. \A d \in Callers : pc'[d] = "create_tables" => AllTables \ tables' \subseteq missing'[d]
    BY <1>1, <2>2 DEF StoreInv, SchemaOK
  <2>6. tables = AllTables => tables' = AllTables
    BY <2>4
  <2> QED
    BY <1>1, <2>2, <2>3, <2>4, <2>5, <2>6 DEF StoreInv, SchemaOK
<1>6. RestOK'
  BY <1>1 DEF StoreInv, RestOK, lockVars
<1> QED
  BY <1>4, <1>5, <1>6 DEF StoreInv

\* A process that has nothing left to create has every table.
LEMMA SchemaReadyStep ==
  ASSUME StoreInv, NEW c \in Callers, SchemaReady(c)
  PROVE  StoreInv'
<1> DEFINE to == "execute"
<1>1. /\ missing[c] = {} /\ pc[c] = "create_tables" /\ pc' = [pc EXCEPT ![c] = to]
      /\ initialized' = [initialized EXCEPT ![HostOf[c]] = TRUE]
      /\ initLock' = [initLock EXCEPT ![HostOf[c]] = None]
      /\ UNCHANGED <<dbVars, lockVars, missing, last, call, answer, faults>>
  BY DEF SchemaReady, Goes
<1>2. to \in Pcs /\ to \notin Writing
  BY DEF Pcs, Writing, Appending
<1>3. writer # c
  BY <1>1, NotWriting DEF Writing, Appending
<1>4. ControlOK' /\ StreamOK' /\ AuthorOK' /\ WriterOK' /\ WorkOK' /\ ReadersOK'
  BY <1>1, <1>2, <1>3, QuietStep DEF dbVars, lockVars
<1>5. tables = AllTables
  BY <1>1 DEF StoreInv, SchemaOK
<1>6. SchemaOK'
  <2>1. \A d \in Callers : pc'[d] = IF d = c THEN to ELSE pc[d]
    BY <1>1 DEF StoreInv, ControlOK
  <2>2. initialized' \in [Hosts -> BOOLEAN]
    BY <1>1 DEF StoreInv, SchemaOK
  <2> QED
    BY <1>1, <1>5, <2>1, <2>2 DEF StoreInv, SchemaOK, dbVars
<1>7. RestOK'
  BY <1>1 DEF StoreInv, RestOK, lockVars
<1> QED
  BY <1>4, <1>6, <1>7 DEF StoreInv

\* However the initialization fails, the process does not believe in a schema it lacks.
LEMMA InitializationFailsStep ==
  ASSUME StoreInv, NEW c \in Callers, InitializationFails(c), faults' \in 0 .. MaxFaults
  PROVE  StoreInv'
<1> DEFINE to == "return"
<1>1. /\ pc[c] \in {"check_tables", "create_tables"} /\ pc' = [pc EXCEPT ![c] = to]
      /\ initLock' = [initLock EXCEPT ![HostOf[c]] = None]
      /\ answer' = [answer EXCEPT ![c] = Store!Failure("unavailable")]
      /\ UNCHANGED <<dbVars, lockVars, initialized, missing, last, call>>
  BY DEF InitializationFails, Answers
<1>2. to \in Pcs /\ to \notin OnTables /\ to \notin Writing
  BY DEF Pcs, OnTables, Writing, Appending
<1>3. writer # c
  BY <1>1, NotWriting DEF Writing, Appending
<1>4. ControlOK' /\ StreamOK' /\ AuthorOK' /\ WriterOK' /\ WorkOK' /\ ReadersOK'
  BY <1>1, <1>2, <1>3, QuietStep DEF dbVars, lockVars
<1>5. SchemaOK'
  BY <1>1, <1>2, QuietSchema DEF dbVars
<1>6. RestOK'
  BY <1>1 DEF StoreInv, RestOK, lockVars
<1> QED
  BY <1>4, <1>5, <1>6 DEF StoreInv

-----------------------------------------------------------------------------
(***************************************************************************)
(* Statements of the open transaction                                      *)
(***************************************************************************)

\* While a call has the write lock, no other call is between two statements that write.
LEMMA OneWriter ==
  ASSUME StoreInv, NEW c \in Callers, writer \in {None, c}, NEW d \in Callers, d # c
  PROVE  pc[d] \notin Writing
BY NoneAssumption DEF StoreInv, WriterOK

\* A statement that writes: the call has the write lock from then on, and its transaction
\* sees what it ought to.
LEMMA WriteStep ==
  ASSUME StoreInv, NEW c \in Callers, NEW to \in Pcs,
         pc' = [pc EXCEPT ![c] = to], pc[c] # "idle", to \in Writing \cup {"rollback"},
         UNCHANGED <<row, log, call>>, DOMAIN answer' = DOMAIN answer,
         writer \in {None, c}, writer' = c, work' # Nothing,
         to \in Writing => call[c].op \in {"create", "commit"},
         to = "conflict" => /\ call[c].op = "commit"
                            /\ work' = [row |-> row, log |-> log] /\ ~Matches(c),
         to \in Appending => May(c),
         to \in {"append", "insert_events"} => work' = [row |-> Wanted(c), log |-> log],
         to = "insert_events" => last'[c] = Cardinality(DOMAIN log),
         to \in {"commit", "committing"} =>
           work' = [row |-> Wanted(c), log |-> Store!Appended(log, call[c].drafts, c)]
  PROVE  ControlOK' /\ StreamOK' /\ AuthorOK' /\ WriterOK' /\ WorkOK' /\ ReadersOK'
<1> USE DEF StoreInv
<1>0. to # "idle" /\ to \notin {"reading", "run_exists", "reading_events"}
  BY DEF Writing, Appending
<1>1. \A d \in Callers : pc'[d] = IF d = c THEN to ELSE pc[d]
  BY DEF ControlOK
<1>2. ControlOK'
  <2>1. pc' \in [Callers -> Pcs]
    BY DEF ControlOK
  <2>2. DOMAIN call' = Callers /\ DOMAIN answer' = Callers
    BY DEF ControlOK
  <2>3. ASSUME NEW d \in Callers
        PROVE  /\ pc'[d] # "idle" => call'[d] \in Requests
               /\ pc'[d] \in Writing => call'[d].op \in {"create", "commit"}
               /\ pc'[d] = "conflict" => call'[d].op = "commit"
               /\ pc'[d] \in {"reading", "run_exists", "reading_events"} =>
                    call'[d].op \in Reads
               /\ pc'[d] \in {"run_exists", "reading_events"} => call'[d].op = "list_events"
    <3>1. CASE d = c
      BY <1>0, <1>1, <3>1 DEF ControlOK
    <3>2. CASE d # c
      BY <1>1, <3>2 DEF ControlOK
    <3> QED
      BY <3>1, <3>2
  <2> QED
    BY <2>1, <2>2, <2>3 DEF ControlOK
<1>3. StreamOK'
  BY DEF StreamOK
<1>4. AuthorOK'
  BY <1>0, <1>1 DEF AuthorOK
<1>5. WriterOK'
  BY <1>1, OneWriter DEF WriterOK
<1>6. WorkOK'
  <2>1. \A d \in Callers : d # c => pc'[d] \notin Writing
    BY <1>1, OneWriter
  <2>2. \A d \in Callers : d # c => pc'[d] # "conflict" /\ pc'[d] \notin Appending
    BY <2>1 DEF Writing
  <2>3. (work' = Nothing) <=> (writer' = None)
    BY NoneAssumption
  <2>4. Wanted(c)' = Wanted(c) /\ (Matches(c)' <=> Matches(c)) /\ (May(c)' <=> May(c))
    BY DEF Wanted, Matches, May
  <2>5. pc'[c] = to
    BY <1>1
  <2>6. ASSUME NEW d \in Callers
        PROVE  /\ pc'[d] = "conflict" => work' = [row |-> row', log |-> log'] /\ ~Matches(d)'
               /\ pc'[d] \in Appending => May(d)'
               /\ pc'[d] \in {"append", "insert_events"} =>
                    work' = [row |-> Wanted(d)', log |-> log']
               /\ pc'[d] = "insert_events" => last'[d] = Cardinality(DOMAIN log')
               /\ pc'[d] \in {"commit", "committing"} =>
                    work' = [row |-> Wanted(d)',
                             log |-> Store!Appended(log', call'[d].drafts, d)]
    <3>1. CASE d = c
      BY <2>4, <2>5, <3>1
    <3>2. CASE d # c
      BY <2>2, <3>2 DEF Appending
    <3> QED
      BY <3>1, <3>2
  <2> QED
    BY <2>3, <2>6 DEF WorkOK, Nothing
<1>7. ReadersOK'
  BY <1>0, <1>1 DEF ReadersOK
<1> QED
  BY <1>2, <1>3, <1>4, <1>5, <1>6, <1>7

\* A transaction that sees a snapshot sees something.
LEMMA OpenWork ==
  ASSUME NEW r, NEW l, r # None
  PROVE  [row |-> r, log |-> l] # Nothing
BY DEF Nothing

\* What is committed is something: the stream of an absent run is empty.
LEMMA CommittedWork ==
  ASSUME StreamOK
  PROVE  [row |-> row, log |-> log] # Nothing
<1>1. row = None => log # None
  BY NoneAssumption DEF StreamOK
<1> QED
  BY <1>1 DEF Nothing

LEMMA InsertRunStep ==
  ASSUME StoreInv, NEW c \in Callers, pc[c] = "execute", InsertRun(c)
  PROVE  StoreInv'
<1> USE DEF StoreInv
<1>1. /\ call[c].op = "create" /\ writer = None /\ writer' = c
      /\ UNCHANGED <<dbVars, readers, committing, initVars, last, call, faults>>
  BY DEF InsertRun
<1>2. tables = AllTables
  BY DEF SchemaOK, OnTables
<1>3. RestOK'
  BY <1>1 DEF RestOK, initVars
<1>4. CASE row = None
  <2>1. /\ pc' = [pc EXCEPT ![c] = "append"]
        /\ work' = [row |-> Store!NewSnapshot(0, c), log |-> log]
        /\ UNCHANGED answer
    BY <1>4 DEF InsertRun, Goes
  <2>2. "append" \in Pcs /\ "append" \in Appending /\ "append" \in Writing
    BY DEF Pcs, Appending, Writing
  <2>3. Wanted(c) = Store!NewSnapshot(0, c) /\ May(c)
    BY <1>1, <1>4 DEF Wanted, May
  <2>4. work' # Nothing
    BY <2>1, <2>3, WantedSnapshots, OpenWork
  <2>5. ControlOK' /\ StreamOK' /\ AuthorOK' /\ WriterOK' /\ WorkOK' /\ ReadersOK'
    BY <1>1, <2>1, <2>2, <2>3, <2>4, WriteStep DEF dbVars
  <2>6. SchemaOK'
    BY <1>1, <1>2, <2>1, <2>2, QuietSchema DEF dbVars, initVars
  <2> QED
    BY <1>3, <2>5, <2>6
<1>5. CASE row # None
  <2>1. /\ pc' = [pc EXCEPT ![c] = "rollback"]
        /\ work' = [row |-> row, log |-> log]
        /\ answer' = [answer EXCEPT ![c] = Store!Failure("conflict")]
    BY <1>5 DEF InsertRun, Goes, Answers
  <2>2. "rollback" \in Pcs /\ "rollback" \notin Appending /\ "rollback" \notin Writing
    BY DEF Pcs, Appending, Writing
  <2>3. work' # Nothing
    BY <2>1, CommittedWork
  <2>4. ControlOK' /\ StreamOK' /\ AuthorOK' /\ WriterOK' /\ WorkOK' /\ ReadersOK'
    BY <1>1, <2>1, <2>2, <2>3, WriteStep DEF dbVars
  <2>5. SchemaOK'
    BY <1>1, <1>2, <2>1, <2>2, QuietSchema DEF dbVars, initVars
  <2> QED
    BY <1>3, <2>4, <2>5
<1> QED
  BY <1>4, <1>5

LEMMA UpdateRunStep ==
  ASSUME StoreInv, NEW c \in Callers, pc[c] = "execute", UpdateRun(c)
  PROVE  StoreInv'
<1> USE DEF StoreInv
<1>1. /\ call[c].op = "commit" /\ writer = None /\ writer' = c
      /\ work' = [row |-> IF Matches(c) THEN Store!NewSnapshot(call[c].expected + 1, c) ELSE row,
                  log |-> log]
      /\ pc' = [pc EXCEPT ![c] = IF Matches(c) THEN "append" ELSE "conflict"]
      /\ UNCHANGED <<dbVars, readers, committing, initVars, last, call, answer, faults>>
  BY DEF UpdateRun, Goes, Matches
<1>2. tables = AllTables
  BY DEF SchemaOK, OnTables
<1>3. RestOK'
  BY <1>1 DEF RestOK, initVars
<1>4. CASE Matches(c)
  <2>1. /\ pc' = [pc EXCEPT ![c] = "append"]
        /\ work' = [row |-> Store!NewSnapshot(call[c].expected + 1, c), log |-> log]
    BY <1>1, <1>4
  <2>2. "append" \in Pcs /\ "append" \in Appending /\ "append" \in Writing
    BY DEF Pcs, Appending, Writing
  <2>3. Wanted(c) = Store!NewSnapshot(call[c].expected + 1, c) /\ May(c)
    BY <1>1, <1>4 DEF Wanted, May
  <2>4. work' # Nothing
    BY <2>1, <2>3, WantedSnapshots, OpenWork
  <2>5. ControlOK' /\ StreamOK' /\ AuthorOK' /\ WriterOK' /\ WorkOK' /\ ReadersOK'
    BY <1>1, <2>1, <2>2, <2>3, <2>4, WriteStep DEF dbVars
  <2>6. SchemaOK'
    BY <1>1, <1>2, <2>1, <2>2, QuietSchema DEF dbVars, initVars
  <2> QED
    BY <1>3, <2>5, <2>6
<1>5. CASE ~Matches(c)
  <2>1. /\ pc' = [pc EXCEPT ![c] = "conflict"]
        /\ work' = [row |-> row, log |-> log]
    BY <1>1, <1>5
  <2>2. "conflict" \in Pcs /\ "conflict" \notin Appending /\ "conflict" \in Writing
    BY DEF Pcs, Appending, Writing
  <2>3. work' # Nothing
    BY <2>1, CommittedWork
  <2>4. ControlOK' /\ StreamOK' /\ AuthorOK' /\ WriterOK' /\ WorkOK' /\ ReadersOK'
    BY <1>1, <1>5, <2>1, <2>2, <2>3, WriteStep DEF dbVars
  <2>5. SchemaOK'
    BY <1>1, <1>2, <2>1, <2>2, QuietSchema DEF dbVars, initVars
  <2> QED
    BY <1>3, <2>4, <2>5
<1> QED
  BY <1>4, <1>5

\* The call that is between two statements that write has the write lock, and its
\* transaction is not empty.
LEMMA WriterWorks ==
  ASSUME StoreInv, NEW c \in Callers, pc[c] \in Appending
  PROVE  /\ writer = c /\ work # Nothing
         /\ call[c].op \in {"create", "commit"}
         /\ May(c)
         /\ tables = AllTables
<1>1. pc[c] \in Writing /\ pc[c] \in OnTables
  BY DEF Writing, OnTables
<1>2. writer = c
  BY <1>1 DEF StoreInv, WriterOK
<1> QED
  BY <1>1, <1>2, NoneAssumption DEF StoreInv, WorkOK, ControlOK, SchemaOK

LEMMA NoEventsStep ==
  ASSUME StoreInv, NEW c \in Callers, NoEvents(c)
  PROVE  StoreInv'
<1> USE DEF StoreInv
<1>1. /\ pc[c] = "append" /\ pc' = [pc EXCEPT ![c] = "commit"]
      /\ call[c].drafts = 0
      /\ UNCHANGED <<dbVars, lockVars, initVars, last, call, answer, faults>>
  BY DEF NoEvents, Goes
<1>2. pc[c] \in Appending /\ "commit" \in Pcs /\ "commit" \in Appending /\ "commit" \in Writing
  BY <1>1 DEF Pcs, Appending, Writing
<1>3. Store!Appended(log, call[c].drafts, c) = log
  BY <1>1, AppendedStream, LogLength
<1>4. work' = [row |-> Wanted(c), log |-> Store!Appended(log, call[c].drafts, c)]
  BY <1>1, <1>3 DEF WorkOK, lockVars
<1>5. /\ writer = c /\ writer' = c /\ work' # Nothing
      /\ call[c].op \in {"create", "commit"} /\ May(c) /\ tables = AllTables
  BY <1>1, <1>2, WriterWorks DEF lockVars
<1>6. ControlOK' /\ StreamOK' /\ AuthorOK' /\ WriterOK' /\ WorkOK' /\ ReadersOK'
  BY <1>1, <1>2, <1>4, <1>5, WriteStep DEF dbVars
<1>7. SchemaOK'
  BY <1>1, <1>2, <1>5, QuietSchema DEF dbVars, initVars
<1>8. RestOK'
  BY <1>1 DEF RestOK, lockVars, initVars
<1> QED
  BY <1>6, <1>7, <1>8

LEMMA SelectLastSequenceStep ==
  ASSUME StoreInv, NEW c \in Callers, SelectLastSequence(c)
  PROVE  StoreInv'
<1> USE DEF StoreInv
<1>1. /\ pc[c] = "append" /\ pc' = [pc EXCEPT ![c] = "insert_events"]
      /\ last' = [last EXCEPT ![c] = MaxSequence(work.log)]
      /\ UNCHANGED <<dbVars, lockVars, initVars, call, answer, faults>>
  BY DEF SelectLastSequence, Goes
<1>2. /\ pc[c] \in Appending /\ "insert_events" \in Pcs
      /\ "insert_events" \in Appending /\ "insert_events" \in Writing
  BY <1>1 DEF Pcs, Appending, Writing
<1>3. work = [row |-> Wanted(c), log |-> log] /\ work' = work
  BY <1>1 DEF WorkOK, lockVars
<1>4. Cardinality(DOMAIN log) \in Nat /\ MaxSequence(work.log) = Cardinality(DOMAIN log)
  BY <1>3, LogLength
<1>5. last' \in [Callers -> Nat] /\ last'[c] = Cardinality(DOMAIN log)
  BY <1>1, <1>4 DEF RestOK
<1>6. /\ writer = c /\ writer' = c /\ work' # Nothing
      /\ call[c].op \in {"create", "commit"} /\ May(c) /\ tables = AllTables
  BY <1>1, <1>2, WriterWorks DEF lockVars
<1>7. ControlOK' /\ StreamOK' /\ AuthorOK' /\ WriterOK' /\ WorkOK' /\ ReadersOK'
  BY <1>1, <1>2, <1>3, <1>5, <1>6, WriteStep DEF dbVars
<1>8. SchemaOK'
  BY <1>1, <1>2, <1>6, QuietSchema DEF dbVars, initVars
<1>9. RestOK'
  BY <1>1, <1>5 DEF RestOK, lockVars, initVars
<1> QED
  BY <1>7, <1>8, <1>9

\* The numbers a call takes are free, since it read the last one under the write lock:
\* its rows never collide.
LEMMA NumbersAreFree ==
  ASSUME StoreInv, NEW c \in Callers, pc[c] = "insert_events"
  PROVE  /\ DOMAIN Materialized(last[c], c) \cap DOMAIN work.log = {}
         /\ [work EXCEPT !.log = [s \in DOMAIN @ \cup DOMAIN Materialized(last[c], c) |->
                                    IF s \in DOMAIN @ THEN @[s]
                                                      ELSE Materialized(last[c], c)[s]]]
              = [row |-> Wanted(c), log |-> Store!Appended(log, call[c].drafts, c)]
<1> DEFINE n == Cardinality(DOMAIN log)
           k == call[c].drafts
           stored == Materialized(last[c], c)
           longer == [s \in DOMAIN log \cup DOMAIN stored |->
                        IF s \in DOMAIN log THEN log[s] ELSE stored[s]]
<1>1. work = [row |-> Wanted(c), log |-> log] /\ last[c] = n
  BY DEF StoreInv, WorkOK
<1>2. n \in Nat /\ log \in [1 .. n -> Authors] /\ Store!LastSequence(log) = n
  BY LogLength DEF StoreInv
<1>3. k \in Nat
  BY WantedSnapshots DEF StoreInv
<1>4. stored = [s \in n + 1 .. n + k |-> c]
  BY <1>1 DEF Materialized
<1> HIDE DEF n, k, stored
<1>5. DOMAIN stored = n + 1 .. n + k /\ DOMAIN log = 1 .. n
  BY <1>2, <1>4
<1>6. DOMAIN stored \cap DOMAIN log = {}
  BY <1>2, <1>3, <1>5
<1>7. (1 .. n) \cup (n + 1 .. n + k) = 1 .. n + k
  BY <1>2, <1>3
<1>8. longer = [s \in 1 .. n + k |-> IF s \in 1 .. n THEN log[s] ELSE stored[s]]
  BY <1>5, <1>7
<1>9. \A s \in 1 .. n + k : s \notin 1 .. n => stored[s] = c
  BY <1>2, <1>3, <1>4
<1>10. longer = [s \in 1 .. n + k |-> IF s \in 1 .. n THEN log[s] ELSE c]
  BY <1>8, <1>9
<1>11. Store!Appended(log, k, c) = [s \in 1 .. n + k |-> IF s \in 1 .. n THEN log[s] ELSE c]
  BY <1>2, <1>5 DEF Store!Appended
<1>12. [work EXCEPT !.log = [s \in DOMAIN @ \cup DOMAIN stored |->
                               IF s \in DOMAIN @ THEN @[s] ELSE stored[s]]]
         = [row |-> Wanted(c), log |-> longer]
  BY <1>1
<1> QED
  BY <1>1, <1>6, <1>10, <1>11, <1>12 DEF k, stored

LEMMA InsertEventsStep ==
  ASSUME StoreInv, NEW c \in Callers, InsertEvents(c)
  PROVE  StoreInv'
<1> USE DEF StoreInv
<1> DEFINE stored == Materialized(last[c], c)
           collides == DOMAIN stored \cap DOMAIN work.log # {}
<1>0. pc[c] = "insert_events"
  BY DEF InsertEvents, Goes
<1>1. ~collides
  BY <1>0, NumbersAreFree
<1>2. /\ pc' = [pc EXCEPT ![c] = "commit"]
      /\ work' = [work EXCEPT !.log = [s \in DOMAIN @ \cup DOMAIN stored |->
                                         IF s \in DOMAIN @ THEN @[s] ELSE stored[s]]]
      /\ answer' = answer
      /\ UNCHANGED <<dbVars, writer, readers, committing, initVars, last, call, faults>>
  BY <1>1 DEF InsertEvents, Goes
<1>3. /\ pc[c] \in Appending /\ "commit" \in Pcs
      /\ "commit" \in Appending /\ "commit" \in Writing
  BY <1>0 DEF Pcs, Appending, Writing
<1>4. work' = [row |-> Wanted(c), log |-> Store!Appended(log, call[c].drafts, c)]
  BY <1>0, <1>2, NumbersAreFree
<1>5. work' # Nothing
  BY <1>0, <1>4, WantedSnapshots, OpenWork
<1>6. /\ writer = c /\ writer' = c
      /\ call[c].op \in {"create", "commit"} /\ May(c) /\ tables = AllTables
  BY <1>2, <1>3, WriterWorks
<1>7. ControlOK' /\ StreamOK' /\ AuthorOK' /\ WriterOK' /\ WorkOK' /\ ReadersOK'
  BY <1>0, <1>2, <1>3, <1>4, <1>5, <1>6, WriteStep DEF dbVars
<1>8. SchemaOK'
  BY <1>2, <1>3, <1>6, QuietSchema DEF dbVars, initVars
<1>9. RestOK'
  BY <1>2 DEF RestOK, initVars
<1> QED
  BY <1>7, <1>8, <1>9

LEMMA BeginCommitStep ==
  ASSUME StoreInv, NEW c \in Callers, BeginCommit(c)
  PROVE  StoreInv'
<1> USE DEF StoreInv
<1>1. /\ pc[c] = "commit" /\ pc' = [pc EXCEPT ![c] = "committing"]
      /\ committing' = TRUE
      /\ UNCHANGED <<dbVars, writer, work, readers, initVars, last, call, answer, faults>>
  BY DEF BeginCommit, Goes
<1>2. /\ pc[c] \in Appending /\ "committing" \in Pcs
      /\ "committing" \in Appending /\ "committing" \in Writing
  BY <1>1 DEF Pcs, Appending, Writing
<1>3. work' = [row |-> Wanted(c), log |-> Store!Appended(log, call[c].drafts, c)]
  BY <1>1 DEF WorkOK
<1>4. /\ writer = c /\ writer' = c /\ work' # Nothing
      /\ call[c].op \in {"create", "commit"} /\ May(c) /\ tables = AllTables
  BY <1>1, <1>2, WriterWorks
<1>5. ControlOK' /\ StreamOK' /\ AuthorOK' /\ WriterOK' /\ WorkOK' /\ ReadersOK'
  BY <1>1, <1>2, <1>3, <1>4, WriteStep DEF dbVars
<1>6. SchemaOK'
  BY <1>1, <1>2, <1>4, QuietSchema DEF dbVars, initVars
<1>7. RestOK'
  BY <1>1 DEF RestOK, initVars
<1> QED
  BY <1>5, <1>6, <1>7

-----------------------------------------------------------------------------
(***************************************************************************)
(* The transaction ends                                                    *)
(***************************************************************************)

\* A COMMIT stores the snapshot and the events of one call together.
LEMMA EndCommitStep ==
  ASSUME StoreInv, NEW c \in Callers, EndCommit(c)
  PROVE  StoreInv'
<1> USE DEF StoreInv
<1> DEFINE n == Cardinality(DOMAIN log)
           k == call[c].drafts
<1>1. /\ pc[c] = "committing" /\ pc' = [pc EXCEPT ![c] = "return"]
      /\ row' = work.row /\ log' = work.log
      /\ writer' = None /\ work' = Nothing /\ committing' = FALSE
      /\ DOMAIN answer' = DOMAIN answer
      /\ UNCHANGED <<tables, readers, initVars, last, call, faults>>
  BY DEF EndCommit, Goes, Answers
<1>2. /\ pc[c] \in Appending /\ "return" \in Pcs /\ "return" \notin Writing
      /\ "return" \notin OnTables
  BY <1>1 DEF Pcs, Appending, Writing, OnTables
<1>3. row' = Wanted(c) /\ log' = Store!Appended(log, k, c)
  BY <1>1 DEF WorkOK
<1>4. row' \in Snapshots /\ row' # None /\ row'.by = c /\ k \in Nat
  BY <1>1, <1>3, WantedSnapshots
<1>5. n \in Nat /\ log \in [1 .. n -> Authors]
  BY LogLength
<1>6. writer = c
  BY <1>2, WriterWorks
<1>7. \A d \in Callers : pc'[d] = IF d = c THEN "return" ELSE pc[d]
  BY <1>1 DEF ControlOK
<1>8. ControlOK'
  <2>1. pc' \in [Callers -> Pcs] /\ DOMAIN call' = Callers /\ DOMAIN answer' = Callers
    BY <1>1, <1>2 DEF ControlOK
  <2>2. ASSUME NEW d \in Callers
        PROVE  /\ pc'[d] # "idle" => call'[d] \in Requests
               /\ pc'[d] \in Writing => call'[d].op \in {"create", "commit"}
               /\ pc'[d] = "conflict" => call'[d].op = "commit"
               /\ pc'[d] \in {"reading", "run_exists", "reading_events"} =>
                    call'[d].op \in Reads
               /\ pc'[d] \in {"run_exists", "reading_events"} => call'[d].op = "list_events"
    <3>1. CASE d = c
      BY <1>1, <1>2, <1>7, <3>1 DEF ControlOK
    <3>2. CASE d # c
      BY <1>1, <1>7, <3>2 DEF ControlOK
    <3> QED
      BY <3>1, <3>2
  <2> QED
    BY <2>1, <2>2 DEF ControlOK
<1>9. log' \in [1 .. n + k -> Authors] /\ \A i \in n + 1 .. n + k : log'[i] = c
  BY <1>3, <1>4, <1>5, AppendedStream
<1>10. StreamOK'
  <2>1. n + k \in Nat
    BY <1>4, <1>5
  <2> QED
    BY <1>4, <1>9, <2>1 DEF StreamOK
<1>11. AuthorOK'
  <2>1. n + k \in Nat /\ Cardinality(DOMAIN log') = n + k
    <3>1. n + k \in Nat
      BY <1>4, <1>5
    <3> QED
      BY <1>9, <3>1, StreamLength
  <2> HIDE DEF n, k
  <2>2. \A i \in 0 .. k - 1 : n + k - i \in n + 1 .. n + k
    BY <1>4, <1>5
  <2>3. \A i \in 0 .. k - 1 : log'[n + k - i] = c
    BY <1>9, <2>2
  <2>4. pc'[c] # "idle" /\ call'[c].drafts = k
    BY <1>1, <1>7 DEF k
  <2>5. \A i \in 0 .. call'[c].drafts - 1 : log'[Cardinality(DOMAIN log') - i] = c
    <3> DEFINE m == Cardinality(DOMAIN log')
    <3>1. m = n + k
      BY <2>1
    <3> HIDE DEF m
    <3>2. ASSUME NEW i \in 0 .. k - 1
          PROVE  log'[m - i] = c
      <4>1. m - i = n + k - i
        BY <3>1, <1>4, <1>5
      <4> QED
        BY <2>3, <4>1
    <3>3. call'[c].drafts = k
      BY <2>4
    <3> QED
      BY <3>2, <3>3 DEF m
  <2>6. row'.by = c
    BY <1>4
  <2> QED
    BY <2>4, <2>5, <2>6, Zenon DEF AuthorOK
<1>12. \A d \in Callers : pc'[d] \notin Writing
  BY <1>2, <1>6, <1>7, OneWriter
<1>13. WriterOK'
  BY <1>1, <1>12 DEF WriterOK
<1>14. WorkOK'
  <2>1. \A d \in Callers : pc'[d] # "conflict" /\ pc'[d] \notin Appending
    BY <1>12 DEF Writing
  <2> QED
    BY <1>1, <2>1 DEF WorkOK, Appending, Nothing
<1>15. ReadersOK'
  BY <1>4 DEF ReadersOK
<1>16. SchemaOK'
  BY <1>1, <1>2, QuietSchema DEF initVars
<1>17. RestOK'
  BY <1>1 DEF RestOK, initVars
<1> QED
  BY <1>8, <1>10, <1>11, <1>13, <1>14, <1>15, <1>16, <1>17

\* What a call that raises has written is not stored.
LEMMA RollbackStep ==
  ASSUME StoreInv, NEW c \in Callers, Rollback(c)
  PROVE  StoreInv'
<1> USE DEF StoreInv
<1>1. /\ pc[c] = "rollback" /\ pc' = [pc EXCEPT ![c] = "return"]
      /\ readers' = readers \ {c}
      /\ UNCHANGED <<dbVars, initVars, last, call, answer, faults>>
  BY DEF Rollback, Goes
<1>2. /\ "return" \in Pcs /\ "return" \notin Writing /\ "return" \notin OnTables
  BY DEF Pcs, Appending, Writing, OnTables
<1>3. SchemaOK'
  BY <1>1, <1>2, QuietSchema DEF dbVars, initVars
<1>4. CASE writer = c
  <2>1. writer' = None /\ work' = Nothing /\ committing' = FALSE
    BY <1>4 DEF Rollback
  <2>2. \A d \in Callers : pc'[d] = IF d = c THEN "return" ELSE pc[d]
    BY <1>1 DEF ControlOK
  <2>3. \A d \in Callers : pc'[d] \notin Writing
    BY <1>2, <1>4, <2>2, OneWriter
  <2>4. ControlOK'
    <3>1. pc' \in [Callers -> Pcs]
      BY <1>1, <1>2 DEF ControlOK
    <3> QED
      BY <1>1, <1>2, <2>2, <3>1 DEF ControlOK
  <2>5. StreamOK' /\ AuthorOK' /\ ReadersOK'
    BY <1>1, <2>2 DEF StreamOK, AuthorOK, ReadersOK, dbVars
  <2>6. WriterOK'
    BY <2>1, <2>3 DEF WriterOK
  <2>7. WorkOK'
    <3>1. \A d \in Callers : pc'[d] # "conflict" /\ pc'[d] \notin Appending
      BY <2>3 DEF Writing
    <3> QED
      BY <2>1, <3>1 DEF WorkOK, Appending, Nothing
  <2>8. RestOK'
    BY <1>1, <2>1 DEF RestOK, initVars
  <2> QED
    BY <1>3, <2>4, <2>5, <2>6, <2>7, <2>8
<1>5. CASE writer # c
  <2>1. UNCHANGED <<writer, work, committing>>
    BY <1>5 DEF Rollback
  <2>2. ControlOK' /\ StreamOK' /\ AuthorOK' /\ WriterOK' /\ WorkOK' /\ ReadersOK'
    BY <1>1, <1>2, <1>5, <2>1, QuietStep DEF dbVars
  <2>3. RestOK'
    BY <1>1, <2>1 DEF RestOK, initVars
  <2> QED
    BY <1>3, <2>2, <2>3
<1> QED
  BY <1>4, <1>5

\* An exception in a transaction leaves it to the rollback.
LEMMA RaisesStep ==
  ASSUME StoreInv, NEW c \in Callers,
         pc[c] # "idle", pc' = [pc EXCEPT ![c] = "rollback"],
         DOMAIN answer' = DOMAIN answer, faults' \in 0 .. MaxFaults,
         UNCHANGED <<dbVars, lockVars, initVars, last, call>>
  PROVE  StoreInv'
<1> USE DEF StoreInv
<1>1. "rollback" \in Pcs /\ "rollback" \notin Writing /\ "rollback" \notin OnTables
  BY DEF Pcs, Appending, Writing, OnTables
<1>2. ControlOK' /\ StreamOK' /\ AuthorOK' /\ WriterOK' /\ WorkOK' /\ ReadersOK'
  BY <1>1, QuietStep DEF dbVars, lockVars
<1>3. SchemaOK'
  BY <1>1, QuietSchema DEF dbVars, initVars
<1>4. RestOK'
  BY DEF RestOK, lockVars, initVars
<1> QED
  BY <1>2, <1>3, <1>4

\* A process that dies takes its calls, its locks and its open transaction with it.
LEMMA CrashStep ==
  ASSUME StoreInv, NEW h \in Hosts, Crash(h)
  PROVE  StoreInv'
<1> USE DEF StoreInv
<1> DEFINE lost == {c \in Callers : HostOf[c] = h /\ pc[c] \notin {"idle", "returned", "lost"}}
<1>1. /\ faults < MaxFaults /\ faults' = faults + 1
      /\ pc' = [c \in Callers |-> IF c \in lost THEN "lost" ELSE pc[c]]
      /\ readers' = readers \ lost
      /\ initialized' = [initialized EXCEPT ![h] = FALSE]
      /\ initLock' = [initLock EXCEPT ![h] = None]
      /\ UNCHANGED <<dbVars, missing, last, call, answer>>
  BY DEF Crash
<1>2. IF writer \in lost THEN writer' = None /\ work' = Nothing /\ committing' = FALSE
                         ELSE UNCHANGED <<writer, work, committing>>
  BY DEF Crash
<1>3. \A c \in lost : c \in Callers /\ pc[c] # "idle"
  OBVIOUS
<1> HIDE DEF lost
<1>4. \A d \in Callers : pc'[d] = IF d \in lost THEN "lost" ELSE pc[d]
  BY <1>1
<1>5. "lost" \in Pcs /\ "lost" \notin Writing /\ "lost" \notin OnTables
  BY DEF Pcs, Appending, Writing, OnTables
<1>6. ControlOK'
  <2>1. pc' \in [Callers -> Pcs]
    BY <1>1, <1>5 DEF ControlOK
  <2> QED
    BY <1>1, <1>3, <1>4, <1>5, <2>1 DEF ControlOK
<1>7. StreamOK' /\ AuthorOK' /\ ReadersOK'
  BY <1>1, <1>3, <1>4 DEF StreamOK, AuthorOK, ReadersOK, dbVars
<1>8. WriterOK'
  <2>1. CASE writer \in lost
    <3>1. \A d \in Callers : pc'[d] \notin Writing
      BY <1>3, <1>4, <1>5, <2>1, OneWriter
    <3> QED
      BY <1>2, <2>1, <3>1 DEF WriterOK
  <2>2. CASE writer \notin lost
    BY <1>2, <1>4, <1>5, <2>2 DEF WriterOK
  <2> QED
    BY <2>1, <2>2
<1>9. WorkOK'
  <2>1. CASE writer \in lost
    <3>1. \A d \in Callers : pc'[d] \notin Writing
      BY <1>3, <1>4, <1>5, <2>1, OneWriter
    <3>2. \A d \in Callers : pc'[d] # "conflict" /\ pc'[d] \notin Appending
      BY <3>1 DEF Writing
    <3> QED
      BY <1>2, <2>1, <3>2 DEF WorkOK, Appending, Nothing
  <2>2. CASE writer \notin lost
    <3>1. UNCHANGED <<writer, work, row, log, last, call>>
      BY <1>1, <1>2, <2>2 DEF dbVars
    <3>2. \A d \in Callers : pc'[d] \in Writing => pc'[d] = pc[d]
      BY <1>4, <1>5
    <3> QED
      BY <3>1, <3>2 DEF WorkOK, Wanted, Matches, May, Writing, Appending
  <2> QED
    BY <2>1, <2>2
<1>10. SchemaOK'
  <2>1. initialized' \in [Hosts -> BOOLEAN] /\ \A g \in Hosts : initialized'[g] => initialized[g]
    BY <1>1 DEF SchemaOK
  <2>2. \A d \in Callers : /\ pc'[d] = "create_tables" => pc[d] = "create_tables"
                           /\ pc'[d] \in OnTables => pc[d] \in OnTables
    BY <1>4, <1>5
  <2> QED
    BY <1>1, <2>1, <2>2 DEF SchemaOK, dbVars
<1>11. RestOK'
  <2>1. faults' \in 0 .. MaxFaults
    BY <1>1, FaultsAssumption DEF RestOK
  <2>2. committing' \in BOOLEAN
    BY <1>2 DEF RestOK
  <2>3. initLock' \in [Hosts -> Callers \cup {None}] /\ last' \in [Callers -> Nat]
    BY <1>1 DEF RestOK
  <2>4. readers' \subseteq Callers
    BY <1>1 DEF RestOK
  <2> QED
    BY <2>1, <2>2, <2>3, <2>4 DEF RestOK
<1> QED
  BY <1>6, <1>7, <1>8, <1>9, <1>10, <1>11

-----------------------------------------------------------------------------
(***************************************************************************)
(* The other steps, and all of them                                        *)
(***************************************************************************)

LEMMA BeginSelectStep ==
  ASSUME StoreInv, NEW c \in Callers, NEW from \in {"execute", "run_exists"},
         NEW to \in {"reading", "reading_events"}, BeginSelect(c, from, to),
         to = "reading" => call[c].op \in Reads,
         to = "reading_events" => from = "run_exists"
  PROVE  StoreInv'
<1> USE DEF StoreInv
<1>1. /\ pc[c] = from /\ pc' = [pc EXCEPT ![c] = to]
      /\ readers' = readers \cup {c}
      /\ UNCHANGED <<dbVars, writer, work, committing, initVars, last, call, answer, faults>>
  BY DEF BeginSelect, Goes
<1>2. to \in Pcs /\ to \notin Writing /\ pc[c] \in OnTables /\ pc[c] \notin Writing
  BY <1>1 DEF Pcs, OnTables, Appending, Writing
<1>3. writer # c
  BY <1>1, <1>2, NotWriting
<1>4. tables = AllTables
  BY <1>2 DEF SchemaOK
<1>5. to = "reading_events" => row # None /\ call[c].op = "list_events"
  BY <1>1 DEF ReadersOK, ControlOK
<1>6. ControlOK' /\ StreamOK' /\ AuthorOK' /\ WriterOK' /\ WorkOK' /\ ReadersOK'
  BY <1>1, <1>2, <1>3, <1>5, QuietStep DEF dbVars
<1>7. SchemaOK'
  BY <1>1, <1>2, <1>4, QuietSchema DEF dbVars, initVars
<1>8. RestOK'
  BY <1>1 DEF RestOK, initVars
<1> QED
  BY <1>6, <1>7, <1>8

LEMMA SelectEndsStep ==
  ASSUME StoreInv, NEW c \in Callers, NEW from \in {"reading", "reading_events"},
         NEW to \in {"run_exists", "return"}, SelectEnds(c, from, to),
         DOMAIN answer' = DOMAIN answer,
         to = "run_exists" => row # None /\ call[c].op = "list_events"
  PROVE  StoreInv'
<1> USE DEF StoreInv
<1>1. /\ pc[c] = from /\ pc' = [pc EXCEPT ![c] = to]
      /\ readers' = readers \ {c}
      /\ UNCHANGED <<dbVars, writer, work, committing, initVars, last, call, faults>>
  BY DEF SelectEnds, Goes
<1>2. to \in Pcs /\ to \notin Writing /\ pc[c] \in OnTables /\ pc[c] \notin Writing
  BY <1>1 DEF Pcs, OnTables, Appending, Writing
<1>3. writer # c
  BY <1>1, <1>2, NotWriting
<1>4. tables = AllTables
  BY <1>2 DEF SchemaOK
<1>5. ControlOK' /\ StreamOK' /\ AuthorOK' /\ WriterOK' /\ WorkOK' /\ ReadersOK'
  BY <1>1, <1>2, <1>3, QuietStep DEF dbVars
<1>6. SchemaOK'
  BY <1>1, <1>2, <1>4, QuietSchema DEF dbVars, initVars
<1>7. RestOK'
  BY <1>1 DEF RestOK, initVars
<1> QED
  BY <1>5, <1>6, <1>7

LEMMA ReturnStep ==
  ASSUME StoreInv, NEW c \in Callers, Return(c)
  PROVE  StoreInv'
<1> USE DEF StoreInv
<1>1. /\ pc[c] = "return" /\ pc' = [pc EXCEPT ![c] = "returned"]
      /\ UNCHANGED <<dbVars, lockVars, initVars, last, call, answer, faults>>
  BY DEF Return, Goes
<1>2. /\ "returned" \in Pcs /\ "returned" \notin Writing /\ "returned" \notin OnTables
      /\ pc[c] \notin Writing
  BY <1>1 DEF Pcs, OnTables, Appending, Writing
<1>3. writer # c
  BY <1>1, <1>2, NotWriting
<1>4. ControlOK' /\ StreamOK' /\ AuthorOK' /\ WriterOK' /\ WorkOK' /\ ReadersOK'
  BY <1>1, <1>2, <1>3, QuietStep DEF dbVars, lockVars
<1>5. SchemaOK'
  BY <1>1, <1>2, QuietSchema DEF dbVars, initVars
<1>6. RestOK'
  BY <1>1 DEF RestOK, lockVars, initVars
<1> QED
  BY <1>4, <1>5, <1>6

LEMMA RaiseCommitConflictStep ==
  ASSUME StoreInv, NEW c \in Callers, RaiseCommitConflict(c)
  PROVE  StoreInv'
<1>1. /\ pc[c] = "conflict" /\ pc' = [pc EXCEPT ![c] = "rollback"]
      /\ DOMAIN answer' = DOMAIN answer
      /\ UNCHANGED <<dbVars, lockVars, initVars, last, call, faults>>
  BY DEF RaiseCommitConflict, Goes, Answers
<1>2. faults' \in 0 .. MaxFaults
  BY <1>1 DEF StoreInv, RestOK
<1> QED
  BY <1>1, <1>2, RaisesStep

LEMMA FailingStep ==
  ASSUME StoreInv, NEW c \in Callers, StatementFails(c) \/ InitializationFails(c),
         faults' \in 0 .. MaxFaults
  PROVE  StoreInv'
<1>1. CASE StatementFails(c)
  <2>1. /\ pc[c] # "idle" /\ pc' = [pc EXCEPT ![c] = "rollback"]
        /\ DOMAIN answer' = DOMAIN answer
        /\ UNCHANGED <<dbVars, lockVars, initVars, last, call>>
    BY <1>1 DEF StatementFails, Answers
  <2> QED
    BY <2>1, RaisesStep
<1>2. CASE InitializationFails(c)
  BY <1>2, InitializationFailsStep
<1> QED
  BY <1>1, <1>2

LEMMA RunSelectedStep ==
  ASSUME StoreInv, NEW c \in Callers, RunSelected(c)
  PROVE  StoreInv'
<1>1. /\ SelectEnds(c, "reading", "return") \/ SelectEnds(c, "reading", "run_exists")
      /\ DOMAIN answer' = DOMAIN answer
      /\ pc'[c] = "run_exists" => row # None /\ call[c].op = "list_events"
  BY DEF RunSelected, SelectEnds, Goes, Answers, StoreInv, ControlOK
<1>2. CASE SelectEnds(c, "reading", "return")
  BY <1>1, <1>2, SelectEndsStep
<1>3. CASE SelectEnds(c, "reading", "run_exists")
  <2>1. pc'[c] = "run_exists"
    BY <1>3 DEF SelectEnds, Goes, StoreInv, ControlOK
  <2> QED
    BY <1>1, <1>3, <2>1, SelectEndsStep
<1> QED
  BY <1>1, <1>2, <1>3

LEMMA ThreadStep ==
  ASSUME StoreInv, NEW c \in Callers, Step(c)
  PROVE  StoreInv'
<1>1. faults' = faults => faults' \in 0 .. MaxFaults
  BY DEF StoreInv, RestOK
<1>2. CASE AlreadyInitialized(c) \/ TakeInitLock(c) \/ CheckTables(c) \/ CreateTable(c)
           \/ SchemaReady(c)
  BY <1>2, AlreadyInitializedStep, TakeInitLockStep, CheckTablesStep, CreateTableStep,
     SchemaReadyStep
<1>3. CASE TableAlreadyExists(c)
  BY <1>1, <1>3, InitializationFailsStep DEF TableAlreadyExists
<1>4. CASE pc[c] = "execute" /\ (InsertRun(c) \/ UpdateRun(c))
  BY <1>4, InsertRunStep, UpdateRunStep
<1>5. CASE SelectRun(c)
  BY <1>5, BeginSelectStep DEF SelectRun
<1>6. CASE RaiseCommitConflict(c) \/ NoEvents(c) \/ SelectLastSequence(c) \/ InsertEvents(c)
  BY <1>6, RaiseCommitConflictStep, NoEventsStep, SelectLastSequenceStep, InsertEventsStep
<1>7. CASE BeginCommit(c) \/ EndCommit(c) \/ Rollback(c) \/ Return(c)
  BY <1>7, BeginCommitStep, EndCommitStep, RollbackStep, ReturnStep
<1>8. CASE RunSelected(c)
  BY <1>8, RunSelectedStep
<1>9. CASE SelectEvents(c)
  BY <1>9, BeginSelectStep DEF SelectEvents
<1>10. CASE EventsSelected(c)
  <2>1. SelectEnds(c, "reading_events", "return") /\ DOMAIN answer' = DOMAIN answer
    BY <1>10 DEF EventsSelected, Answers
  <2> QED
    BY <2>1, SelectEndsStep
<1> QED
  BY <1>2, <1>3, <1>4, <1>5, <1>6, <1>7, <1>8, <1>9, <1>10 DEF Step

LEMMA StoreStep ==
  ASSUME StoreInv, [Next]_vars
  PROVE  StoreInv'
<1>1. ASSUME NEW c \in Callers, NEW request \in CallsOf[c], CallStore(c, request)
      PROVE  StoreInv'
  BY <1>1, CallStoreStep
<1>2. ASSUME NEW c \in Callers, Step(c)
      PROVE  StoreInv'
  BY <1>2, ThreadStep
<1>3. ASSUME NEW c \in Callers, TimesOut(c)
      PROVE  StoreInv'
  <2>1. (StatementFails(c) \/ InitializationFails(c)) /\ faults' = faults
    BY <1>3 DEF TimesOut
  <2>2. faults' \in 0 .. MaxFaults
    BY <2>1 DEF StoreInv, RestOK
  <2> QED
    BY <2>1, <2>2, FailingStep
<1>4. ASSUME NEW c \in Callers, Fault(c)
      PROVE  StoreInv'
  <2>1. StatementFails(c) \/ InitializationFails(c)
    BY <1>4 DEF Fault
  <2>2. faults < MaxFaults /\ faults' = faults + 1
    BY <1>4 DEF Fault
  <2>3. faults' \in 0 .. MaxFaults
    BY <2>2, FaultsAssumption DEF StoreInv, RestOK
  <2> QED
    BY <2>1, <2>3, FailingStep
<1>5. ASSUME NEW h \in Hosts, Crash(h)
      PROVE  StoreInv'
  BY <1>5, CrashStep
<1>6. ASSUME UNCHANGED vars
      PROVE  StoreInv'
  <2>1. UNCHANGED <<tables, row, log, writer, work, readers, committing, initialized,
                    initLock, missing, last, pc, call, answer, faults>>
    BY <1>6 DEF vars, dbVars, lockVars, initVars
  <2>2. ControlOK' /\ StreamOK' /\ AuthorOK' /\ WriterOK'
    BY <2>1 DEF StoreInv, ControlOK, StreamOK, AuthorOK, WriterOK
  <2>3. WorkOK'
    BY <2>1 DEF StoreInv, WorkOK, Wanted, Matches, May
  <2>4. ReadersOK' /\ SchemaOK' /\ RestOK'
    BY <2>1 DEF StoreInv, ReadersOK, SchemaOK, RestOK
  <2> QED
    BY <2>2, <2>3, <2>4 DEF StoreInv
<1> QED
  BY <1>1, <1>2, <1>3, <1>4, <1>5, <1>6 DEF Next

LEMMA StoreInvariant == Spec => []StoreInv
<1>1. Init => StoreInv
  BY InitialStore
<1>2. StoreInv /\ [Next]_vars => StoreInv'
  BY StoreStep
<1> QED
  BY <1>1, <1>2, PTL DEF Spec

-----------------------------------------------------------------------------
(***************************************************************************)
(* What the runs check                                                     *)
(***************************************************************************)

\* The tables, the locks and the open transaction have their types, and a transaction is
\* open just as long as its call has the write lock.
THEOREM StoreTypeCorrect == Spec => []TypeOK
<1>1. StoreInv => TypeOK
  <2> SUFFICES ASSUME StoreInv
               PROVE  TypeOK
    OBVIOUS
  <2>1. row = None \/ (row.version \in Nat /\ row.by \in Callers \cup {Store!Earlier})
    BY DEF StoreInv, StreamOK, Snapshots, Authors
  <2>2. \A s \in DOMAIN log : s \in Nat \ {0} /\ log[s] \in Callers \cup {Store!Earlier}
    <3>1. PICK n \in Nat : log \in [1 .. n -> Authors]
      BY DEF StoreInv, StreamOK
    <3> QED
      BY <3>1 DEF Authors
  <2> QED
    BY <2>1, <2>2 DEF StoreInv, WriterOK, WorkOK, SchemaOK, RestOK, TypeOK
<1> QED
  BY <1>1, StoreInvariant, PTL

\* The runs table and the run_events table never disagree, whatever _create, _commit and
\* _append_events of several processes were interrupted by: the stream has no gap, there
\* is none without a run, and it ends with the events of the call that wrote the snapshot.
THEOREM TablesAgree == Spec => []SnapshotMatchesEvents
<1>1. StoreInv => SnapshotMatchesEvents
  <2> SUFFICES ASSUME StoreInv
               PROVE  SnapshotMatchesEvents
    OBVIOUS
  <2>1. DOMAIN log = 1 .. Cardinality(DOMAIN log)
    BY LogLength DEF StoreInv
  <2> QED
    BY <2>1 DEF StoreInv, StreamOK, AuthorOK, SnapshotMatchesEvents
<1> QED
  BY <1>1, StoreInvariant, PTL

\* However the processes race through _ensure_initialized, fail in it or die in it, one
\* that believes in the schema has it, and so has every statement on the tables.
THEOREM SchemaBeforeUse == Spec => []InitializedHasSchema
<1>1. StoreInv => InitializedHasSchema
  BY DEF StoreInv, SchemaOK, InitializedHasSchema, OnTables, Writing, Appending
<1> QED
  BY <1>1, StoreInvariant, PTL

-----------------------------------------------------------------------------
(***************************************************************************)
(* The store implements the port                                           *)
(***************************************************************************)
PhaseOf(p) ==
  CASE p \in {"idle", "returned", "lost"} -> p
    [] p \in {"rollback", "return"}       -> "done"
    [] OTHER                              -> "called"

LEMMA PhaseOfAll ==
  /\ PhaseOf("idle") = "idle" /\ PhaseOf("returned") = "returned" /\ PhaseOf("lost") = "lost"
  /\ PhaseOf("rollback") = "done" /\ PhaseOf("return") = "done"
  /\ \A p : p \notin {"idle", "returned", "lost", "rollback", "return"} => PhaseOf(p) = "called"
BY DEF PhaseOf

LEMMA PhaseStep ==
  ASSUME StoreInv, NEW c \in Callers, NEW to, pc' = [pc EXCEPT ![c] = to]
  PROVE  /\ Phase[c] = PhaseOf(pc[c])
         /\ Phase' = [Phase EXCEPT ![c] = PhaseOf(to)]
<1>1. Phase = [d \in Callers |-> PhaseOf(pc[d])] /\ Phase' = [d \in Callers |-> PhaseOf(pc'[d])]
  BY DEF Phase, PhaseOf
<1>2. \A d \in Callers : pc'[d] = IF d = c THEN to ELSE pc[d]
  BY DEF StoreInv, ControlOK
<1> QED
  BY <1>1, <1>2

\* A statement that leaves the phase of its call, its answer and what is stored alone is
\* no step of the port.
LEMMA Inside ==
  ASSUME StoreInv, NEW c \in Callers, NEW to, pc' = [pc EXCEPT ![c] = to],
         PhaseOf(to) = PhaseOf(pc[c]), UNCHANGED <<row, log, call, answer>>
  PROVE  UNCHANGED Store!vars
<1>1. Phase' = [Phase EXCEPT ![c] = Phase[c]]
  BY PhaseStep
<1>2. Phase' = Phase
  BY <1>1 DEF Phase
<1> QED
  BY <1>2 DEF Store!vars

\* A statement that decides the answer of a call is the moment at which the port answers.
LEMMA Decides ==
  ASSUME StoreInv, NEW c \in Callers, NEW to \in {"rollback", "return"}, NEW a,
         pc' = [pc EXCEPT ![c] = to], PhaseOf(pc[c]) = "called",
         answer' = [answer EXCEPT ![c] = a], call' = call
  PROVE  Phase[c] = "called" /\ Store!Answers(c, a)
<1>1. PhaseOf(to) = "done"
  BY PhaseOfAll
<1> QED
  BY <1>1, PhaseStep DEF Store!Answers

\* The step of the port for the step of a call.
PortStep(c) ==
  /\ Phase[c] = "called"
  /\ \/ Store!Create(c) \/ Store!Commit(c) \/ Store!Load(c) \/ Store!ListByStatus(c)
     \/ Store!ListEvents(c)

LEMMA PortSteps ==
  ASSUME NEW c \in Callers, PortStep(c) \/ Store!Unavailable(c) \/ Store!Return(c)
  PROVE  Store!Next
BY DEF PortStep, Store!Next

LEMMA PortInit ==
  ASSUME Init
  PROVE  Store!Init
<1>1. Phase = [c \in Callers |-> "idle"]
  BY PhaseOfAll DEF Init, Phase
<1> QED
  BY <1>1 DEF Init, Store!Init

LEMMA FailurePort ==
  ASSUME StoreInv, NEW c \in Callers, StatementFails(c) \/ InitializationFails(c)
  PROVE  Store!Unavailable(c)
<1> DEFINE a == Store!Failure("unavailable")
<1>1. PICK to \in {"rollback", "return"} : pc' = [pc EXCEPT ![c] = to]
  BY DEF StatementFails, InitializationFails
<1>2. /\ answer' = [answer EXCEPT ![c] = a]
      /\ UNCHANGED <<row, log, call>>
  BY DEF StatementFails, InitializationFails, Answers, dbVars
<1>3. PhaseOf(pc[c]) = "called"
  <2>1. pc[c] \notin {"idle", "returned", "lost", "rollback", "return"}
    BY DEF StatementFails, InitializationFails
  <2> QED
    BY <2>1, PhaseOfAll
<1>4. Phase[c] = "called" /\ Store!Answers(c, a)
  BY <1>1, <1>2, <1>3, Decides
<1> QED
  BY <1>2, <1>4 DEF Store!Unavailable, Store!Fails

\* create(): the run exists already.
LEMMA InsertRunPort ==
  ASSUME StoreInv, NEW c \in Callers, pc[c] = "execute", InsertRun(c)
  PROVE  PortStep(c) \/ UNCHANGED Store!vars
<1>0. PhaseOf(pc[c]) = "called" /\ PhaseOf("append") = "called"
  BY PhaseOfAll
<1>1. CASE row = None
  <2>1. pc' = [pc EXCEPT ![c] = "append"] /\ UNCHANGED <<row, log, call, answer>>
    BY <1>1 DEF InsertRun, Goes, dbVars
  <2> QED
    BY <1>0, <2>1, Inside
<1>2. CASE row # None
  <2> DEFINE a == Store!Failure("conflict")
  <2>1. /\ call[c].op = "create" /\ pc' = [pc EXCEPT ![c] = "rollback"]
        /\ answer' = [answer EXCEPT ![c] = a] /\ UNCHANGED <<row, log, call>>
    BY <1>2 DEF InsertRun, Goes, Answers, dbVars
  <2>2. Phase[c] = "called" /\ Store!Answers(c, a)
    BY <1>0, <2>1, Decides
  <2>3. Store!Create(c)
    BY <1>2, <2>1, <2>2 DEF Store!Create, Store!Fails
  <2> QED
    BY <2>2, <2>3 DEF PortStep
<1> QED
  BY <1>1, <1>2

\* _commit(): no row had the version, and the row is looked up to tell why.
LEMMA ConflictPort ==
  ASSUME StoreInv, NEW c \in Callers, RaiseCommitConflict(c)
  PROVE  PortStep(c)
<1> DEFINE kind == IF row = None THEN "not_found" ELSE "conflict"
           a == Store!Failure(kind)
<1>0. pc[c] = "conflict" /\ PhaseOf(pc[c]) = "called"
  BY PhaseOfAll DEF RaiseCommitConflict, Goes
<1>1. work.row = row /\ ~Matches(c) /\ call[c].op = "commit"
  BY <1>0 DEF StoreInv, WorkOK, ControlOK
<1>2. /\ pc' = [pc EXCEPT ![c] = "rollback"]
      /\ answer' = [answer EXCEPT ![c] = a] /\ UNCHANGED <<row, log, call>>
  BY <1>1 DEF RaiseCommitConflict, Goes, Answers, dbVars
<1>3. Phase[c] = "called" /\ Store!Answers(c, a)
  BY <1>0, <1>2, Decides
<1>4. Store!Fails(c, kind)
  BY <1>2, <1>3 DEF Store!Fails
<1>5. Store!Commit(c)
  <2>1. CASE row = None
    BY <1>1, <1>4, <2>1 DEF Store!Commit
  <2>2. CASE row # None
    BY <1>1, <1>4, <2>2 DEF Store!Commit, Matches
  <2> QED
    BY <2>1, <2>2
<1> QED
  BY <1>3, <1>5 DEF PortStep

\* The COMMIT of create() or _commit() is the moment of the call's whole effect.
LEMMA EndCommitPort ==
  ASSUME StoreInv, NEW c \in Callers, EndCommit(c)
  PROVE  PortStep(c)
<1> DEFINE version == IF call[c].op = "create" THEN 0 ELSE call[c].expected + 1
           a == Store!Stored(version, log, call[c].drafts)
<1>0. pc[c] = "committing" /\ pc[c] \in Appending /\ PhaseOf(pc[c]) = "called"
  BY PhaseOfAll DEF EndCommit, Goes, Appending
<1>1. work = [row |-> Wanted(c), log |-> Store!Appended(log, call[c].drafts, c)]
  BY <1>0 DEF StoreInv, WorkOK
<1>2. Wanted(c) = Store!NewSnapshot(version, c) /\ work.row.version = version
  BY <1>1 DEF Wanted, Store!NewSnapshot
<1>3. /\ row' = Store!NewSnapshot(version, c)
      /\ log' = Store!Appended(log, call[c].drafts, c)
      /\ pc' = [pc EXCEPT ![c] = "return"]
      /\ answer' = [answer EXCEPT ![c] = a]
      /\ call' = call
  BY <1>1, <1>2 DEF EndCommit, Goes, Answers
<1>4. Phase[c] = "called" /\ Store!Answers(c, a)
  BY <1>0, <1>3, Decides
<1>5. Store!Writes(c, version)
  BY <1>3, <1>4 DEF Store!Writes
<1>6. call[c].op \in {"create", "commit"} /\ May(c)
  BY <1>0, WriterWorks
<1>7. CASE call[c].op = "create"
  <2>1. row = None /\ version = 0
    BY <1>6, <1>7 DEF May
  <2>2. Store!Create(c)
    BY <1>5, <1>7, <2>1 DEF Store!Create
  <2> QED
    BY <1>4, <2>2 DEF PortStep
<1>8. CASE call[c].op = "commit"
  <2>1. row # None /\ row.version = call[c].expected /\ version = call[c].expected + 1
    BY <1>6, <1>8 DEF May, Matches
  <2>2. Store!Commit(c)
    BY <1>5, <1>8, <2>1 DEF Store!Commit
  <2> QED
    BY <1>4, <2>2 DEF PortStep
<1> QED
  BY <1>6, <1>7, <1>8

\* _load() and _list_by_status() answer from the row they select; _list_events() from it
\* only if there is none.
LEMMA RunSelectedPort ==
  ASSUME StoreInv, NEW c \in Callers, pc[c] = "reading", RunSelected(c)
  PROVE  PortStep(c) \/ UNCHANGED Store!vars
<1>0. PhaseOf(pc[c]) = "called" /\ PhaseOf("run_exists") = "called"
  BY PhaseOfAll
<1>1. call[c].op \in Reads
  BY DEF StoreInv, ControlOK
<1>2. UNCHANGED <<row, log, call>>
  BY DEF RunSelected, SelectEnds, dbVars
<1>3. ASSUME row = None, call[c].op # "list_by_status", SelectEnds(c, "reading", "return"),
             Answers(c, Store!Failure("not_found"))
      PROVE  PortStep(c)
  <2>1. Phase[c] = "called" /\ Store!Answers(c, Store!Failure("not_found"))
    BY <1>0, <1>2, <1>3, Decides DEF SelectEnds, Goes, Answers
  <2>2. call[c].op = "load" \/ call[c].op = "list_events"
    BY <1>1, <1>3 DEF Reads
  <2>3. Store!Fails(c, "not_found")
    BY <1>2, <2>1 DEF Store!Fails
  <2> QED
    BY <1>3, <2>1, <2>2, <2>3 DEF PortStep, Store!Load, Store!ListEvents
<1>4. ASSUME SelectEnds(c, "reading", "run_exists"), answer' = answer
      PROVE  UNCHANGED Store!vars
  <2>1. pc' = [pc EXCEPT ![c] = "run_exists"]
    BY <1>4 DEF SelectEnds, Goes
  <2> QED
    BY <1>0, <1>2, <1>4, <2>1, Inside
<1>5. ASSUME call[c].op = "list_by_status" \/ (row # None /\ call[c].op = "load"),
             SelectEnds(c, "reading", "return"), Answers(c, Store!Found({row} \ {None}))
      PROVE  PortStep(c)
  <2>1. Phase[c] = "called" /\ Store!Answers(c, Store!Found({row} \ {None}))
    BY <1>0, <1>2, <1>5, Decides DEF SelectEnds, Goes, Answers
  <2>2. CASE call[c].op = "list_by_status"
    BY <1>2, <2>1, <2>2 DEF PortStep, Store!ListByStatus
  <2>3. CASE row # None /\ call[c].op = "load"
    <3>1. {row} \ {None} = {row}
      BY <2>3
    <3>2. Store!Answers(c, Store!Found({row}))
      BY <2>1, <3>1
    <3> QED
      BY <1>2, <2>1, <2>3, <3>2 DEF PortStep, Store!Load
  <2> QED
    BY <1>5, <2>2, <2>3
<1> QED
  BY <1>3, <1>4, <1>5 DEF RunSelected

\* _list_events() answers from its second SELECT: the run it found is still there.
LEMMA EventsSelectedPort ==
  ASSUME StoreInv, NEW c \in Callers, EventsSelected(c)
  PROVE  PortStep(c)
<1> DEFINE a == Store!Listed(Store!After(log, call[c].after))
<1>1. /\ pc[c] = "reading_events" /\ pc' = [pc EXCEPT ![c] = "return"]
      /\ answer' = [answer EXCEPT ![c] = a]
      /\ UNCHANGED <<row, log, call>>
  BY DEF EventsSelected, SelectEnds, Goes, Answers, dbVars
<1>2. PhaseOf(pc[c]) = "called"
  BY <1>1, PhaseOfAll
<1>3. Phase[c] = "called" /\ Store!Answers(c, a)
  BY <1>1, <1>2, Decides
<1>4. row # None /\ call[c].op = "list_events"
  BY <1>1 DEF StoreInv, ReadersOK, ControlOK
<1>5. Store!ListEvents(c)
  BY <1>1, <1>3, <1>4 DEF Store!ListEvents
<1> QED
  BY <1>3, <1>5 DEF PortStep

LEMMA ReturnPort ==
  ASSUME StoreInv, NEW c \in Callers, Return(c)
  PROVE  Store!Return(c)
<1>1. /\ pc[c] = "return" /\ pc' = [pc EXCEPT ![c] = "returned"]
      /\ UNCHANGED <<row, log, call, answer>>
  BY DEF Return, Goes, dbVars
<1>2. PhaseOf(pc[c]) = "done" /\ PhaseOf("returned") = "returned"
  BY <1>1, PhaseOfAll
<1> QED
  BY <1>1, <1>2, PhaseStep DEF Store!Return

LEMMA CallPort ==
  ASSUME StoreInv, NEW c \in Callers, NEW request \in CallsOf[c], CallStore(c, request)
  PROVE  Store!Call(c, request)
<1>1. /\ pc[c] = "idle" /\ pc' = [pc EXCEPT ![c] = "ensure"]
      /\ call' = [call EXCEPT ![c] = request]
      /\ UNCHANGED <<row, log, answer>>
  BY DEF CallStore, Goes, dbVars
<1>2. PhaseOf(pc[c]) = "idle" /\ PhaseOf("ensure") = "called"
  BY <1>1, PhaseOfAll
<1> QED
  BY <1>1, <1>2, PhaseStep DEF Store!Call

\* A process dies with the calls it is making.
LEMMA CrashPort ==
  ASSUME StoreInv, NEW h \in Hosts, Crash(h)
  PROVE  \E lost \in SUBSET Callers : Store!Lose(lost)
<1> DEFINE lost == {c \in Callers : HostOf[c] = h /\ pc[c] \notin {"idle", "returned", "lost"}}
<1>1. /\ pc' = [c \in Callers |-> IF c \in lost THEN "lost" ELSE pc[c]]
      /\ UNCHANGED <<row, log, call, answer>>
  BY DEF Crash, dbVars
<1>2. Phase = [d \in Callers |-> PhaseOf(pc[d])] /\ Phase' = [d \in Callers |-> PhaseOf(pc'[d])]
  BY DEF Phase, PhaseOf
<1>3. \A c \in lost : Phase[c] \in {"called", "done"}
  <2> SUFFICES ASSUME NEW c \in lost
               PROVE  PhaseOf(pc[c]) \in {"called", "done"}
    BY <1>2
  <2>1. pc[c] \notin {"idle", "returned", "lost"}
    OBVIOUS
  <2> QED
    BY <2>1, PhaseOfAll
<1>4. lost \subseteq Callers
  OBVIOUS
<1> HIDE DEF lost
<1>5. \A c \in Callers : PhaseOf(pc'[c]) = IF c \in lost THEN "lost" ELSE Phase[c]
  BY <1>1, <1>2, PhaseOfAll
<1>6. Phase' = [c \in Callers |-> IF c \in lost THEN "lost" ELSE Phase[c]]
  BY <1>2, <1>5
<1>7. Store!Lose(lost)
  BY <1>1, <1>3, <1>6 DEF Store!Lose
<1> QED
  BY <1>4, <1>7

LEMMA ThreadPort ==
  ASSUME StoreInv, NEW c \in Callers, Step(c)
  PROVE  Store!Next \/ UNCHANGED Store!vars
<1>1. ASSUME NEW from, NEW to, Goes(c, from, to), UNCHANGED <<row, log, call, answer>>,
             from \notin {"idle", "returned", "lost", "rollback", "return"},
             to \notin {"idle", "returned", "lost", "rollback", "return"}
      PROVE  UNCHANGED Store!vars
  BY <1>1, PhaseOfAll, Inside DEF Goes
<1>2. CASE AlreadyInitialized(c) \/ TakeInitLock(c) \/ CheckTables(c)
  BY <1>1, <1>2 DEF AlreadyInitialized, TakeInitLock, CheckTables, dbVars
<1>3. CASE CreateTable(c) \/ SchemaReady(c)
  BY <1>1, <1>3 DEF CreateTable, SchemaReady, dbVars
<1>4. CASE TableAlreadyExists(c)
  BY <1>4, FailurePort, PortSteps DEF TableAlreadyExists
<1>5. CASE pc[c] = "execute" /\ InsertRun(c)
  BY <1>5, InsertRunPort, PortSteps
<1>6. CASE pc[c] = "execute" /\ UpdateRun(c)
  <2>1. \/ Goes(c, "execute", "append")
        \/ Goes(c, "execute", "conflict")
    BY <1>6 DEF UpdateRun
  <2>2. UNCHANGED <<row, log, call, answer>>
    BY <1>6 DEF UpdateRun, dbVars
  <2> QED
    BY <1>1, <2>1, <2>2
<1>7. CASE SelectRun(c) \/ SelectEvents(c)
  BY <1>1, <1>7 DEF SelectRun, SelectEvents, BeginSelect, dbVars
<1>8. CASE RaiseCommitConflict(c)
  BY <1>8, ConflictPort, PortSteps
<1>9. CASE NoEvents(c) \/ SelectLastSequence(c) \/ BeginCommit(c)
  BY <1>1, <1>9 DEF NoEvents, SelectLastSequence, BeginCommit, dbVars
<1>10. CASE InsertEvents(c)
  <2>1. pc[c] = "insert_events"
    BY <1>10 DEF InsertEvents, Goes
  <2>2. Goes(c, "insert_events", "commit") /\ UNCHANGED <<row, log, call, answer>>
    BY <1>10, <2>1, NumbersAreFree DEF InsertEvents, dbVars
  <2> QED
    BY <1>1, <2>2
<1>11. CASE EndCommit(c)
  BY <1>11, EndCommitPort, PortSteps
<1>12. CASE Rollback(c)
  <2>1. /\ pc[c] = "rollback" /\ pc' = [pc EXCEPT ![c] = "return"]
        /\ UNCHANGED <<row, log, call, answer>>
    BY <1>12 DEF Rollback, Goes, dbVars
  <2> QED
    BY <2>1, PhaseOfAll, Inside
<1>13. CASE pc[c] = "reading" /\ RunSelected(c)
  BY <1>13, RunSelectedPort, PortSteps
<1>14. CASE EventsSelected(c)
  BY <1>14, EventsSelectedPort, PortSteps
<1>15. CASE Return(c)
  BY <1>15, ReturnPort, PortSteps
<1> QED
  BY <1>2, <1>3, <1>4, <1>5, <1>6, <1>7, <1>8, <1>9, <1>10, <1>11, <1>12, <1>13, <1>14,
     <1>15 DEF Step

LEMMA PortRefinement ==
  ASSUME StoreInv, [Next]_vars
  PROVE  [Store!Next]_(Store!vars)
<1>1. ASSUME NEW c \in Callers, NEW request \in CallsOf[c], CallStore(c, request)
      PROVE  Store!Next
  BY <1>1, CallPort DEF Store!Next
<1>2. ASSUME NEW c \in Callers, Step(c)
      PROVE  Store!Next \/ UNCHANGED Store!vars
  BY <1>2, ThreadPort
<1>3. ASSUME NEW c \in Callers, TimesOut(c) \/ Fault(c)
      PROVE  Store!Next
  BY <1>3, FailurePort, PortSteps DEF TimesOut, Fault
<1>4. ASSUME NEW h \in Hosts, Crash(h)
      PROVE  Store!Next
  BY <1>4, CrashPort DEF Store!Next
<1>5. ASSUME UNCHANGED vars
      PROVE  UNCHANGED Store!vars
  BY <1>5 DEF vars, dbVars, Store!vars, Phase
<1> QED
  BY <1>1, <1>2, <1>3, <1>4, <1>5 DEF Next

\* The statements, locks, timeouts, failures and crashes of any number of processes add up
\* to the RunStore port: every call has its whole effect at one moment between its start
\* and its return, or none, and answers from that moment.
THEOREM SQLiteImplementsRunStore == Spec => ImplementsStore
<1>1. Init => Store!Init
  BY PortInit
<1>2. StoreInv /\ [Next]_vars => [Store!Next]_(Store!vars)
  BY PortRefinement
<1> QED
  BY <1>1, <1>2, StoreInvariant, PTL DEF Spec, Store!Spec, ImplementsStore

=============================================================================
