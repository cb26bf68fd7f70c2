--------------------------- MODULE PlanGraphProofs ---------------------------
(***************************************************************************)
(* Proofs about PlanGraph, for every number of tasks and every graph: the  *)
(* search of PlanDefinition accepts the plans it should, and no other.     *)
(***************************************************************************)
EXTENDS PlanGraph, PlanModelProofs, FiniteSetTheorems

(***************************************************************************)
(* The recursion as a sequence                                             *)
(***************************************************************************)

\* A call of visit() goes on top of the calls that wait for it.
LEMMA Pushed ==
  ASSUME NEW s \in Seq(Tasks), NEW x \in Tasks
  PROVE  /\ Append(s, x) \in Seq(Tasks)
         /\ Len(s) \in Nat
         /\ Len(Append(s, x)) = Len(s) + 1
         /\ \A i \in 1 .. Len(s) : s[i] \in Tasks /\ Append(s, x)[i] = s[i]
         /\ Append(s, x)[Len(s) + 1] = x
  OBVIOUS

\* A call that returns leaves the ones below it as they were.
LEMMA Popped ==
  ASSUME NEW s \in Seq(Tasks), s # <<>>
  PROVE  /\ SubSeq(s, 1, Len(s) - 1) \in Seq(Tasks)
         /\ Len(s) \in Nat \ {0}
         /\ Len(SubSeq(s, 1, Len(s) - 1)) = Len(s) - 1
         /\ \A i \in 1 .. Len(s) - 1 : SubSeq(s, 1, Len(s) - 1)[i] = s[i]
         /\ \A i \in 1 .. Len(s) : s[i] \in Tasks
<1>1. Len(s) \in Nat \ {0} /\ \A i \in 1 .. Len(s) : s[i] \in Tasks
  OBVIOUS
<1>2. DEFINE n == Len(s) - 1
<1>3. n \in Nat /\ \A i \in 1 .. n : s[i] \in Tasks
  BY <1>1
<1>4. SubSeq(s, 1, n) = [i \in 1 .. n |-> s[i]]
  BY <1>1
<1> HIDE DEF n
<1>5. SubSeq(s, 1, n) \in Seq(Tasks) /\ Len(SubSeq(s, 1, n)) = n
  BY <1>3, <1>4
<1> QED
  BY <1>1, <1>4, <1>5 DEF n

\* A plan has TaskCount tasks, and no set of tasks has more.
LEMMA TasksAreFinite ==
  /\ Cardinality(Tasks) = TaskCount
  /\ \A S \in SUBSET Tasks :
       IsFiniteSet(S) /\ Cardinality(S) \in Nat /\ Cardinality(S) <= TaskCount
<1>1. IsFiniteSet(Tasks) /\ Cardinality(Tasks) = TaskCount
  <2>1. 1 \in Int /\ TaskCount \in Int /\ ~(1 > TaskCount) /\ TaskCount - 1 + 1 = TaskCount
    BY TaskCountAssumption
  <2> QED
    BY <2>1, FS_Interval DEF Tasks
<1>2. ASSUME NEW S \in SUBSET Tasks
      PROVE  IsFiniteSet(S) /\ Cardinality(S) \in Nat /\ Cardinality(S) <= TaskCount
  BY <1>1, FS_Subset, FS_CardinalityType
<1> QED
  BY <1>1, <1>2

(***************************************************************************)
(* Types                                                                   *)
(***************************************************************************)

\* What makes the types inductive: the search runs only on known dependencies, so
\* visit() is called for tasks only.
Searched ==
  /\ verdict \in {"searching", "accepted"} => KnownDependencies
  /\ todo \in [Tasks -> SUBSET Tasks]

TypedSearch == TypeOK /\ Searched

LEMMA TypedInit == Init => TypedSearch
<1> SUFFICES ASSUME Init PROVE TypedSearch
  OBVIOUS
<1>1. plan \in Graphs /\ path \in Seq(Tasks)
  BY CandidatesAssumption DEF Init
<1>2. todo \in [Tasks -> SUBSET Tasks] /\ rank \in [Tasks -> Nat]
  BY DEF Init
<1> QED
  BY <1>1, <1>2 DEF Init, TypedSearch, TypeOK, Searched

LEMMA TypedStep == TypedSearch /\ [Next]_vars => TypedSearch'
<1> SUFFICES ASSUME TypedSearch, [Next]_vars PROVE TypedSearch'
  OBVIOUS
<1> USE DEF TypedSearch, TypeOK, Searched, KnownDependencies
<1>1. CASE CheckDependencies
  BY <1>1 DEF CheckDependencies, loopVars, Graphs
<1>2. CASE \E t \in Tasks : VisitNextTask(t)
  <2> PICK t \in Tasks : VisitNextTask(t)
    BY <1>2
  <2>1. path' \in Seq(Tasks)
    BY Pushed DEF VisitNextTask, Enter
  <2>2. plan.dependencies[t] \in SUBSET Tasks
    BY DEF VisitNextTask
  <2> QED
    BY <2>1, <2>2 DEF VisitNextTask, Enter, loopVars
<1>3. CASE \E d \in Tasks \cup {Unknown} : VisitDependency(d)
  <2> PICK d \in Tasks \cup {Unknown} : VisitDependency(d)
    BY <1>3
  <2>1. Top \in Tasks /\ d \in Tasks
    BY Popped DEF VisitDependency, Top
  <2>2. plan.dependencies[d] \in SUBSET Tasks
    BY <2>1 DEF VisitDependency
  <2>3. todo[Top] \ {d} \in SUBSET Tasks
    BY <2>1
  <2>4. Append(path, d) \in Seq(Tasks)
    BY <2>1, Pushed
  <2>5. todo' \in [Tasks -> SUBSET Tasks]
    BY <2>1, <2>2, <2>3 DEF VisitDependency
  <2>6. visiting' \in SUBSET Tasks /\ path' \in Seq(Tasks)
    BY <2>1, <2>4 DEF VisitDependency, Enter
  <2>7. verdict' \in {"searching", "rejected"} /\ KnownDependencies'
    BY DEF VisitDependency
  <2>8. UNCHANGED <<plan, visited, rank, failed, blocked, returned>>
    BY DEF VisitDependency, loopVars
  <2>9. todo' \in [Tasks -> SUBSET (Tasks \cup {Unknown})]
    BY <2>5
  <2>10. TypeOK'
    BY <2>6, <2>7, <2>8, <2>9
  <2>11. Searched'
    BY <2>5, <2>7
  <2> QED
    BY <2>10, <2>11
<1>4. CASE Leave
  <2>1. SubSeq(path, 1, Len(path) - 1) \in Seq(Tasks) /\ Top \in Tasks
    BY <1>4, Popped DEF Leave, Top
  <2>2. Cardinality(visited) + 1 \in Nat
    BY TasksAreFinite
  <2>3. UNCHANGED <<plan, verdict, todo, loopVars>>
        /\ visiting' = visiting \ {Top} /\ visited' = visited \cup {Top}
        /\ path' = SubSeq(path, 1, Len(path) - 1)
        /\ rank' = [rank EXCEPT ![Top] = Cardinality(visited) + 1]
    BY <1>4 DEF Leave
  <2>4. rank' \in [Tasks -> Nat]
    BY <2>2, <2>3
  <2>5. path' \in Seq(Tasks) /\ visiting' \in SUBSET Tasks /\ visited' \in SUBSET Tasks
    BY <2>1, <2>3
  <2>6. TypeOK'
    BY <2>3, <2>4, <2>5 DEF loopVars
  <2>7. Searched'
    BY <2>3
  <2> QED
    BY <2>6, <2>7
<1>5. CASE Accept
  BY <1>5 DEF Accept, loopVars
<1>6. CASE \E t \in Tasks : TaskFails(t)
  BY <1>6 DEF TaskFails, searchVars
<1>7. CASE ExpandBlocked
  BY <1>7 DEF ExpandBlocked, searchVars, Dependents
<1>8. CASE UNCHANGED vars
  BY <1>8 DEF vars, searchVars, loopVars
<1> QED
  BY <1>1, <1>2, <1>3, <1>4, <1>5, <1>6, <1>7, <1>8 DEF Next, Search

\* The search and the loop keep their types on every graph: visit() is never called
\* for a name that is no task, whatever names the planner used.  (_validate_graph
\* looks every name up before it searches.)
THEOREM SearchTypeCorrect == Spec => []TypeOK
<1>1. Spec => []TypedSearch
  BY TypedInit, TypedStep, PTL DEF Spec
<1> QED
  BY <1>1, PTL DEF TypedSearch

(***************************************************************************)
(* The calls of visit() that wait for each other                           *)
(***************************************************************************)

\* The path is the set visiting without repetition, and none of it is visited.
PathOK ==
  /\ visiting = {path[i] : i \in 1 .. Len(path)}
  /\ visiting \cap visited = {}
  /\ \A i, j \in 1 .. Len(path) : path[i] = path[j] => i = j

\* A dependency of a task being visited is yet to be visited from it, visited, or the
\* call it waits for.
Awaited ==
  /\ \A t \in Tasks : todo[t] \subseteq plan.dependencies[t]
  /\ \A i \in 1 .. Len(path) : \A d \in plan.dependencies[path[i]] :
       \/ d \in todo[path[i]] \cup visited
       \/ i < Len(path) /\ d = path[i + 1]

\* The dependencies of a visited task were visited before it.
Ranked ==
  \A t \in visited :
    /\ rank[t] \in 1 .. Cardinality(visited)
    /\ \A d \in plan.dependencies[t] : d \in visited /\ rank[d] < rank[t]

\* A task further along the path lies below the earlier ones in every ranking the
\* plan has: the earlier ones depend on it.
Descending ==
  \A i, j \in 1 .. Len(path) : i < j =>
    \A r \in [Tasks -> Tasks] : IsRanking(plan, r) => r[path[j]] < r[path[i]]

CompleteOnceAccepted == verdict = "accepted" => visited = Tasks

SearchInv ==
  /\ TypedSearch
  /\ PathOK /\ Awaited /\ Ranked /\ Descending
  /\ CompleteOnceAccepted /\ RejectedIsCyclic

LEMMA SearchInit == Init => SearchInv
<1> SUFFICES ASSUME Init PROVE SearchInv
  OBVIOUS
<1>1. Len(path) = 0 /\ visiting = {} /\ visited = {}
  BY DEF Init
<1>2. PathOK /\ Awaited /\ Ranked /\ Descending
  BY <1>1 DEF Init, PathOK, Awaited, Ranked, Descending
<1> QED
  BY <1>2, TypedInit DEF Init, SearchInv, CompleteOnceAccepted, RejectedIsCyclic

\* The steps that leave the graph walk alone.
LEMMA WalkUnchanged ==
  ASSUME SearchInv, UNCHANGED <<plan, visiting, visited, path, todo, rank>>
  PROVE  (PathOK /\ Awaited /\ Ranked /\ Descending)'
BY DEF SearchInv, PathOK, Awaited, Ranked, Descending, IsRanking

\* The first check refuses a self dependency, which no ranking survives, or a name
\* that is none of a task.
LEMMA CheckStep ==
  ASSUME SearchInv, CheckDependencies
  PROVE  (CompleteOnceAccepted /\ RejectedIsCyclic)'
<1>1. UNCHANGED plan /\ verdict' \in {"rejected", "searching"}
  BY DEF CheckDependencies
<1>2. ASSUME verdict' = "rejected", KnownDependencies, Acyclic(plan) PROVE FALSE
  <2>1. PICK t \in Tasks : t \in plan.dependencies[t] \/ Unknown \in plan.dependencies[t]
    BY <1>2 DEF CheckDependencies
  <2>2. t \in plan.dependencies[t]
    BY <2>1, <1>2, UnknownAssumption DEF KnownDependencies
  <2>3. PICK r \in [Tasks -> Tasks] : IsRanking(plan, r)
    BY <1>2 DEF Acyclic
  <2>4. r[t] < r[t] /\ r[t] \in Tasks
    BY <2>2, <2>3 DEF IsRanking
  <2> QED
    BY <2>4, TaskCountAssumption DEF Tasks
<1> QED
  BY <1>1, <1>2 DEF CompleteOnceAccepted, RejectedIsCyclic, KnownDependencies, Acyclic, IsRanking

\* A deeper call: the task is new on the path, below the tasks that wait for it.
LEMMA EnterStep ==
  ASSUME SearchInv, NEW d \in Tasks, d \notin visiting \cup visited, Enter(d),
         UNCHANGED <<plan, visited, rank>>,
         \/ path = <<>> /\ todo' = [todo EXCEPT ![d] = plan.dependencies[d]]
         \/ /\ path # <<>> /\ d \in todo[Top]
            /\ todo' = [todo EXCEPT ![Top] = @ \ {d}, ![d] = plan.dependencies[d]]
  PROVE  (PathOK /\ Awaited /\ Ranked /\ Descending)'
<1> DEFINE n == Len(path)
<1>1. /\ n \in Nat /\ Len(path') = n + 1
      /\ \A i \in 1 .. n : path[i] \in Tasks /\ path'[i] = path[i]
      /\ path'[n + 1] = d
  BY Pushed DEF Enter, SearchInv, TypedSearch, TypeOK
<1>2. visiting = {path[i] : i \in 1 .. n} /\ visiting' = visiting \cup {d}
  BY DEF SearchInv, PathOK, Enter
<1>3. todo \in [Tasks -> SUBSET Tasks]
  BY DEF SearchInv, TypedSearch, Searched
<1>4. PathOK'
  <2>1. visiting' = {path'[i] : i \in 1 .. n + 1}
    BY <1>1, <1>2
  <2>2. visiting' \cap visited' = {}
    BY <1>2 DEF SearchInv, PathOK
  <2>3. \A i \in 1 .. n : path[i] # d
    BY <1>2
  <2>4. \A i, j \in 1 .. n : path[i] = path[j] => i = j
    BY DEF SearchInv, PathOK
  <2>5. \A i, j \in 1 .. n + 1 : path'[i] = path'[j] => i = j
    BY <1>1, <2>3, <2>4
  <2> QED
    BY <1>1, <2>1, <2>2, <2>5 DEF PathOK
<1>5. path # <<>> => n > 0 /\ Top = path[n] /\ Top \in Tasks /\ Top # d
  <2>1. path # <<>> => n > 0
    BY Popped DEF SearchInv, TypedSearch, TypeOK
  <2> QED
    BY <2>1, <1>1, <1>2 DEF Top
<1>6. Awaited'
  <2>1. \A t \in Tasks : todo[t] \subseteq plan.dependencies[t]
    BY DEF SearchInv, Awaited
  <2>2. \A t \in Tasks : todo'[t] \subseteq plan.dependencies[t]
    BY <1>3, <1>5, <2>1
  <2>3. todo'[d] = plan.dependencies[d]
    BY <1>3, <1>5
  <2>4. ASSUME NEW i \in 1 .. n, NEW x \in plan.dependencies[path[i]]
        PROVE  x \in todo'[path[i]] \cup visited \/ x = path'[i + 1]
    <3>1. x \in todo[path[i]] \cup visited \/ (i < n /\ x = path[i + 1])
      BY <2>4 DEF SearchInv, Awaited
    <3>2. path[i] \in Tasks /\ path[i] # d
      BY <1>1, <1>2
    <3>3. CASE i < n
      <4>1. path[i] = Top => i = n
        BY <1>5, <3>3 DEF SearchInv, PathOK
      <4>2. todo'[path[i]] = todo[path[i]]
        BY <1>3, <1>5, <3>2, <3>3, <4>1
      <4>3. i + 1 \in 1 .. n
        BY <1>1, <3>3
      <4> QED
        BY <1>1, <3>1, <4>2, <4>3
    <3>4. CASE i = n
      <4>1. path # <<>> /\ path[i] = Top
        BY <1>1, <3>4, <1>5 DEF Top
      <4>2. todo'[Top] = todo[Top] \ {d}
        BY <1>3, <1>5, <4>1
      <4> QED
        BY <1>1, <3>1, <3>4, <4>1, <4>2
    <3> QED
      BY <1>1, <3>3, <3>4
  <2>5. ASSUME NEW i \in 1 .. n + 1, NEW x \in plan.dependencies[path'[i]]
        PROVE  x \in todo'[path'[i]] \cup visited \/ (i < n + 1 /\ x = path'[i + 1])
    <3>1. CASE i \in 1 .. n
      BY <1>1, <2>4, <3>1
    <3>2. CASE i = n + 1
      BY <1>1, <2>3, <3>2
    <3> QED
      BY <1>1, <3>1, <3>2
  <2> QED
    BY <1>1, <2>2, <2>5 DEF Awaited
<1>7. Ranked'
  BY DEF SearchInv, Ranked
<1>8. Descending'
  <2>1. ASSUME NEW i \in 1 .. n + 1, NEW j \in 1 .. n + 1, i < j,
               NEW r \in [Tasks -> Tasks], IsRanking(plan, r)
        PROVE  r[path'[j]] < r[path'[i]]
    <3>1. CASE j \in 1 .. n
      BY <1>1, <2>1, <3>1 DEF SearchInv, Descending
    <3>2. CASE j = n + 1
      <4>1. i \in 1 .. n /\ path # <<>>
        BY <1>1, <2>1, <3>2
      <4>2. d \in plan.dependencies[Top]
        BY <4>1, <1>5 DEF SearchInv, Awaited
      <4>3. r[d] < r[Top]
        BY <2>1, <4>1, <4>2, <1>5 DEF IsRanking
      <4>4. i < n => r[Top] < r[path[i]]
        BY <1>1, <1>5, <2>1, <4>1 DEF SearchInv, Descending
      <4>5. r[d] \in Nat /\ r[Top] \in Nat /\ r[path[i]] \in Nat
        <5>1. d \in Tasks /\ Top \in Tasks /\ path[i] \in Tasks
          BY <1>1, <1>5, <4>1
        <5>2. Tasks \subseteq Nat
          BY TaskCountAssumption DEF Tasks
        <5> QED
          BY <5>1, <5>2
      <4>6. r[d] < r[path[i]]
        BY <1>1, <1>5, <4>1, <4>3, <4>4, <4>5
      <4> QED
        BY <1>1, <3>2, <4>1, <4>6
    <3> QED
      BY <1>1, <3>1, <3>2
  <2> QED
    BY <1>1, <2>1 DEF Descending
<1> QED
  BY <1>4, <1>6, <1>7, <1>8

\* visit() of a task that is visited already returns at once.
LEMMA SkipStep ==
  ASSUME SearchInv, NEW d \in visited, path # <<>>, d \in todo[Top],
         todo' = [todo EXCEPT ![Top] = @ \ {d}],
         UNCHANGED <<plan, visiting, visited, path, rank>>
  PROVE  (PathOK /\ Awaited /\ Ranked /\ Descending)'
<1>1. (PathOK /\ Ranked /\ Descending)'
  BY DEF SearchInv, PathOK, Ranked, Descending, IsRanking
<1>2. Top \in Tasks /\ todo \in [Tasks -> SUBSET Tasks]
  BY Popped DEF SearchInv, TypedSearch, TypeOK, Searched, Top
<1>3. \A t \in Tasks : todo'[t] \subseteq todo[t] /\ todo[t] \subseteq todo'[t] \cup {d}
  BY <1>2
<1>4. \A i \in 1 .. Len(path) : path[i] \in Tasks
  BY Popped DEF SearchInv, TypedSearch, TypeOK
<1>5. Awaited'
  <2>1. \A t \in Tasks : todo'[t] \subseteq plan.dependencies[t]
    BY <1>3 DEF SearchInv, Awaited
  <2>2. ASSUME NEW i \in 1 .. Len(path), NEW x \in plan.dependencies[path[i]]
        PROVE  x \in todo'[path[i]] \cup visited \/ (i < Len(path) /\ x = path[i + 1])
    <3>1. x \in todo[path[i]] \cup visited \/ (i < Len(path) /\ x = path[i + 1])
      BY DEF SearchInv, Awaited
    <3>2. x \in todo[path[i]] => x \in todo'[path[i]] \cup visited
      BY <1>3, <1>4
    <3> QED
      BY <3>1, <3>2
  <2> QED
    BY <2>1, <2>2 DEF Awaited
<1> QED
  BY <1>1, <1>5

\* The innermost call returns: its task is visited, after all its dependencies.
LEMMA LeaveStep ==
  ASSUME SearchInv, Leave
  PROVE  (PathOK /\ Awaited /\ Ranked /\ Descending)'
<1> DEFINE n == Len(path) - 1
<1>1. /\ n \in Nat /\ Len(path) = n + 1 /\ Len(path') = n
      /\ \A i \in 1 .. n : path'[i] = path[i]
      /\ \A i \in 1 .. n + 1 : path[i] \in Tasks
      /\ Top = path[n + 1]
  BY Popped DEF Leave, SearchInv, TypedSearch, TypeOK, Top
<1> HIDE DEF n
<1>2. /\ visiting = {path[i] : i \in 1 .. n + 1} /\ visiting' = visiting \ {Top}
      /\ visiting \cap visited = {} /\ visited' = visited \cup {Top}
      /\ \A i, j \in 1 .. n + 1 : path[i] = path[j] => i = j
      /\ UNCHANGED <<plan, todo>> /\ todo[Top] = {}
  BY <1>1 DEF SearchInv, PathOK, Leave
<1>3. Top \in Tasks /\ Top \notin visited
  BY <1>1, <1>2
<1>4. \A i \in 1 .. n : path[i] # Top
  BY <1>1, <1>2
<1>5. PathOK'
  <2>1. visiting' = {path'[i] : i \in 1 .. n}
    BY <1>1, <1>2, <1>4
  <2>2. visiting' \cap visited' = {}
    BY <1>2
  <2>3. \A i, j \in 1 .. n : path'[i] = path'[j] => i = j
    BY <1>1, <1>2
  <2> QED
    BY <1>1, <2>1, <2>2, <2>3 DEF PathOK
<1>6. Awaited'
  <2>1. ASSUME NEW i \in 1 .. n, NEW x \in plan.dependencies[path[i]]
        PROVE  x \in todo[path[i]] \cup visited' \/ (i < n /\ x = path'[i + 1])
    <3>1. x \in todo[path[i]] \cup visited \/ x = path[i + 1]
      BY <1>1, <2>1 DEF SearchInv, Awaited
    <3>2. i < n => path'[i + 1] = path[i + 1]
      BY <1>1
    <3>3. i = n => path[i + 1] = Top
      BY <1>1
    <3> QED
      BY <1>1, <1>2, <3>1, <3>2, <3>3
  <2>2. \A t \in Tasks : todo[t] \subseteq plan.dependencies[t]
    BY DEF SearchInv, Awaited
  <2> QED
    BY <1>1, <1>2, <2>1, <2>2 DEF Awaited
<1>7. Ranked'
  <2>1. IsFiniteSet(visited) /\ Cardinality(visited) \in Nat
    BY TasksAreFinite DEF SearchInv, TypedSearch, TypeOK
  <2>2. Cardinality(visited') = Cardinality(visited) + 1
    BY <1>2, <1>3, <2>1, FS_AddElement
  <2>3. rank' = [rank EXCEPT ![Top] = Cardinality(visited) + 1] /\ rank \in [Tasks -> Nat]
        /\ visited \subseteq Tasks
    BY DEF Leave, SearchInv, TypedSearch, TypeOK
  <2>4. \A d \in plan.dependencies[Top] : d \in visited
    BY <1>1, <1>2 DEF SearchInv, Awaited
  <2>5. \A t \in visited : rank'[t] = rank[t]
    BY <1>3, <2>3
  <2>6. rank'[Top] = Cardinality(visited) + 1
    BY <1>3, <2>3
  <2>7. ASSUME NEW t \in visited
        PROVE  /\ rank'[t] \in 1 .. Cardinality(visited')
               /\ \A d \in plan.dependencies[t] : d \in visited' /\ rank'[d] < rank'[t]
    BY <1>2, <2>1, <2>2, <2>5 DEF SearchInv, Ranked
  <2>8. /\ rank'[Top] \in 1 .. Cardinality(visited')
        /\ \A d \in plan.dependencies[Top] : d \in visited' /\ rank'[d] < rank'[Top]
    BY <1>2, <2>1, <2>2, <2>4, <2>5, <2>6 DEF SearchInv, Ranked
  <2> QED
    BY <1>2, <2>7, <2>8 DEF Ranked
<1>8. Descending'
  BY <1>1, <1>2 DEF SearchInv, Descending
<1> QED
  BY <1>5, <1>6, <1>7, <1>8

\* A dependency that is being visited closes a cycle: no ranking puts it both below
\* and above the innermost task.
LEMMA CycleStep ==
  ASSUME SearchInv, path # <<>>, NEW d \in visiting, d \in todo[Top],
         KnownDependencies, Acyclic(plan)
  PROVE  FALSE
<1>1. Len(path) \in Nat \ {0} /\ Top = path[Len(path)]
      /\ \A i \in 1 .. Len(path) : path[i] \in Tasks
  BY Popped DEF SearchInv, TypedSearch, TypeOK, Top
<1>2. PICK i \in 1 .. Len(path) : d = path[i]
  BY DEF SearchInv, PathOK
<1>3. PICK r \in [Tasks -> Tasks] : IsRanking(plan, r)
  BY DEF Acyclic
<1>4. Top \in Tasks /\ d \in Tasks /\ d \in plan.dependencies[Top]
  BY <1>1, <1>2 DEF SearchInv, Awaited
<1>5. r[d] < r[Top]
  BY <1>3, <1>4 DEF IsRanking
<1>6. i < Len(path) => r[Top] < r[d]
  BY <1>1, <1>2, <1>3 DEF SearchInv, Descending
<1>7. i = Len(path) => d = Top
  BY <1>1, <1>2
<1>8. r[d] \in Nat /\ r[Top] \in Nat
  <2>1. Tasks \subseteq Nat
    BY TaskCountAssumption DEF Tasks
  <2> QED
    BY <1>4, <2>1
<1> QED
  BY <1>1, <1>5, <1>6, <1>7, <1>8

LEMMA SearchStep == SearchInv /\ [Next]_vars => SearchInv'
<1> SUFFICES ASSUME SearchInv, [Next]_vars PROVE SearchInv'
  OBVIOUS
<1> DEFINE Walk   == PathOK /\ Awaited /\ Ranked /\ Descending
           Result == CompleteOnceAccepted /\ RejectedIsCyclic
<1>0. TypedSearch'
  BY TypedStep DEF SearchInv
<1>1. CASE CheckDependencies
  <2>1. Walk'
    BY <1>1, WalkUnchanged DEF CheckDependencies
  <2>2. Result'
    BY <1>1, CheckStep
  <2> QED
    BY <1>0, <2>1, <2>2 DEF SearchInv
<1>2. CASE \E t \in Tasks : VisitNextTask(t)
  <2> PICK t \in Tasks : VisitNextTask(t)
    BY <1>2
  <2>1. t \notin visiting
    <3>1. Len(path) = 0
      BY DEF VisitNextTask
    <3> QED
      BY <3>1 DEF SearchInv, PathOK
  <2>2. Walk'
    BY <2>1, EnterStep DEF VisitNextTask
  <2>3. Result'
    BY DEF VisitNextTask, CompleteOnceAccepted, RejectedIsCyclic
  <2> QED
    BY <1>0, <2>2, <2>3 DEF SearchInv
<1>3. CASE \E d \in Tasks \cup {Unknown} : VisitDependency(d)
  <2> PICK d \in Tasks \cup {Unknown} : VisitDependency(d)
    BY <1>3
  <2>1. verdict = "searching" /\ path # <<>> /\ d \in todo[Top] /\ d \in Tasks
        /\ UNCHANGED <<plan, visited, rank>>
    <3>1. Top \in Tasks /\ todo \in [Tasks -> SUBSET Tasks]
      BY Popped DEF VisitDependency, Top, SearchInv, TypedSearch, TypeOK, Searched
    <3> QED
      BY <3>1 DEF VisitDependency
  <2>2. CASE d \in visiting /\ verdict' = "rejected" /\ UNCHANGED <<visiting, path, todo>>
    <3>1. Walk'
      BY <2>1, <2>2, WalkUnchanged
    <3>2. ~(KnownDependencies /\ Acyclic(plan))
      BY <2>1, <2>2, CycleStep
    <3>3. Result'
      BY <2>1, <2>2, <3>2
         DEF CompleteOnceAccepted, RejectedIsCyclic, KnownDependencies, Acyclic, IsRanking
    <3> QED
      BY <1>0, <3>1, <3>3 DEF SearchInv
  <2>3. CASE d \in visited /\ todo' = [todo EXCEPT ![Top] = @ \ {d}]
             /\ UNCHANGED <<verdict, visiting, path>>
    <3>1. Walk'
      BY <2>1, <2>3, SkipStep
    <3>2. Result'
      BY <2>1, <2>3 DEF CompleteOnceAccepted, RejectedIsCyclic
    <3> QED
      BY <1>0, <3>1, <3>2 DEF SearchInv
  <2>4. CASE d \notin visiting \cup visited /\ Enter(d) /\ UNCHANGED verdict
             /\ todo' = [todo EXCEPT ![Top] = @ \ {d}, ![d] = plan.dependencies[d]]
    <3>1. Walk'
      BY <2>1, <2>4, EnterStep
    <3>2. Result'
      BY <2>1, <2>4 DEF CompleteOnceAccepted, RejectedIsCyclic
    <3> QED
      BY <1>0, <3>1, <3>2 DEF SearchInv
  <2> QED
    BY <2>2, <2>3, <2>4 DEF VisitDependency
<1>4. CASE Leave
  <2>1. Walk'
    BY <1>4, LeaveStep
  <2>2. Result'
    BY <1>4 DEF Leave, CompleteOnceAccepted, RejectedIsCyclic
  <2> QED
    BY <1>0, <2>1, <2>2 DEF SearchInv
<1>5. CASE Accept
  <2>1. Walk'
    BY <1>5, WalkUnchanged DEF Accept
  <2>2. Result'
    BY <1>5 DEF Accept, CompleteOnceAccepted, RejectedIsCyclic
  <2> QED
    BY <1>0, <2>1, <2>2 DEF SearchInv
<1>6. ASSUME UNCHANGED <<plan, verdict, visiting, visited, path, todo, rank>>
      PROVE  SearchInv'
  <2>1. Walk'
    BY <1>6, WalkUnchanged
  <2>2. Result'
    BY <1>6 DEF SearchInv, CompleteOnceAccepted, RejectedIsCyclic, KnownDependencies,
                Acyclic, IsRanking
  <2> QED
    BY <1>0, <2>1, <2>2 DEF SearchInv
<1>7. CASE \E t \in Tasks : TaskFails(t)
  BY <1>6, <1>7 DEF TaskFails, searchVars
<1>8. CASE ExpandBlocked
  BY <1>6, <1>8 DEF ExpandBlocked, searchVars
<1>9. CASE UNCHANGED vars
  BY <1>6, <1>9 DEF vars, searchVars
<1> QED
  BY <1>1, <1>2, <1>3, <1>4, <1>5, <1>7, <1>8, <1>9 DEF Next, Search

LEMMA SearchInvariant == Spec => []SearchInv
BY SearchInit, SearchStep, PTL DEF Spec

\* The order in which an accepted plan was visited ranks its tasks: whatever plan
\* passes _validate_graph has only known dependencies and no cycle, so the scheduler
\* cannot stall on it.
THEOREM ValidationIsSound == Spec => []AcceptedIsAcyclic
<1>1. SearchInv => AcceptedIsAcyclic
  <2> SUFFICES ASSUME SearchInv, verdict = "accepted"
               PROVE  KnownDependencies /\ Acyclic(plan)
    BY DEF AcceptedIsAcyclic
  <2>1. visited = Tasks /\ KnownDependencies /\ rank \in [Tasks -> Nat]
    BY DEF SearchInv, CompleteOnceAccepted, TypedSearch, Searched, TypeOK
  <2>2. \A t \in Tasks : rank[t] \in Tasks
    BY <2>1, TasksAreFinite DEF SearchInv, Ranked, Tasks
  <2>3. rank \in [Tasks -> Tasks]
    BY <2>1, <2>2
  <2>4. IsRanking(plan, rank)
    BY <2>1 DEF SearchInv, Ranked, IsRanking
  <2> QED
    BY <2>1, <2>3, <2>4 DEF Acyclic
<1> QED
  BY <1>1, SearchInvariant, PTL

\* _validate_graph refuses only plans that cannot be ordered, however their branches
\* and joins are shaped: a task met twice is not taken for a cycle.
THEOREM ValidationIsComplete == Spec => []RejectedIsCyclic
<1>1. SearchInv => RejectedIsCyclic
  BY DEF SearchInv
<1> QED
  BY <1>1, SearchInvariant, PTL

(***************************************************************************)
(* The loop of a failing task                                              *)
(***************************************************************************)

\* The loop adds only what every set closed under dependents has to hold, and ends
\* with a set that is closed itself.
LoopInv ==
  /\ failed # Unknown =>
       /\ verdict = "accepted"
       /\ failed \in blocked
       /\ \A S \in SUBSET Tasks :
            failed \in S /\ Dependents(plan, S) \subseteq S => blocked \subseteq S
  /\ returned => failed # Unknown /\ Dependents(plan, blocked) \subseteq blocked

LEMMA LoopStep == TypeOK /\ LoopInv /\ [Next]_vars => LoopInv'
<1> SUFFICES ASSUME TypeOK, LoopInv, [Next]_vars PROVE LoopInv'
  OBVIOUS
<1>1. CASE Search
  <2>1. failed = Unknown
    BY <1>1 DEF LoopInv, Search, CheckDependencies, VisitNextTask, VisitDependency, Leave, Accept
  <2>2. UNCHANGED <<failed, blocked, returned>>
    BY <1>1 DEF Search, CheckDependencies, VisitNextTask, VisitDependency, Leave, Accept,
                loopVars
  <2> QED
    BY <2>1, <2>2 DEF LoopInv
<1>2. CASE \E t \in Tasks : TaskFails(t)
  BY <1>2, UnknownAssumption DEF TaskFails, LoopInv, searchVars
<1>3. CASE ExpandBlocked
  <2>1. failed # Unknown /\ UNCHANGED <<plan, verdict, failed>>
        /\ blocked' = blocked \cup Dependents(plan, blocked)
        /\ returned' = (blocked' = blocked)
    BY <1>3 DEF ExpandBlocked, searchVars
  <2>2. ASSUME NEW S \in SUBSET Tasks, failed \in S, Dependents(plan, S) \subseteq S
        PROVE  blocked' \subseteq S
    <3>1. blocked \subseteq S
      BY <2>1, <2>2 DEF LoopInv
    <3>2. Dependents(plan, blocked) \subseteq Dependents(plan, S)
      BY <3>1 DEF Dependents
    <3> QED
      BY <2>1, <2>2, <3>1, <3>2
  <2>3. returned' => Dependents(plan, blocked') \subseteq blocked'
    BY <2>1
  <2>4. failed \in blocked' /\ verdict = "accepted"
    BY <2>1 DEF LoopInv
  <2> QED
    BY <2>1, <2>2, <2>3, <2>4 DEF LoopInv
<1>4. CASE UNCHANGED vars
  BY <1>4 DEF vars, searchVars, loopVars, LoopInv
<1> QED
  BY <1>1, <1>2, <1>3, <1>4 DEF Next

\* The loop of _blocked_descendants returns exactly the tasks that depend on the
\* failed one, over any number of others and in whatever order the plan lists them.
THEOREM BlockedLoopIsExact == Spec => []BlockedIsExact
<1>1. Init => LoopInv
  BY DEF Init, LoopInv
<1>2. TypedSearch /\ LoopInv => BlockedIsExact
  <2> SUFFICES ASSUME TypedSearch, LoopInv, returned
               PROVE  /\ blocked \ {failed} = BlockedDescendants(plan, failed)
                      /\ \A u \in Tasks \ {failed} : u \in blocked <=> DependsOn(plan, u, failed)
    BY DEF BlockedIsExact
  <2>1. /\ failed \in Tasks /\ failed \in blocked /\ blocked \in SUBSET Tasks
        /\ Dependents(plan, blocked) \subseteq blocked
        /\ \A S \in SUBSET Tasks :
             failed \in S /\ Dependents(plan, S) \subseteq S => blocked \subseteq S
    BY DEF LoopInv, TypedSearch, TypeOK
  <2>2. \A x \in Tasks : plan.dependencies[x] \subseteq Tasks
    BY <2>1 DEF LoopInv, TypedSearch, Searched, KnownDependencies
  <2>3. blocked \ {failed} = BlockedDescendants(plan, failed)
    BY <2>1 DEF BlockedDescendants
  <2>4. \A u \in Tasks \ {failed} :
          u \in BlockedDescendants(plan, failed) <=> DependsOn(plan, u, failed)
    BY <2>1, <2>2, BlockedDependOnFailed
  <2> QED
    BY <2>1, <2>3, <2>4
<1>3. Spec => []TypedSearch
  BY TypedInit, TypedStep, PTL DEF Spec
<1>4. TypedSearch => TypeOK
  BY DEF TypedSearch
<1> QED
  BY <1>1, <1>2, <1>3, <1>4, LoopStep, PTL DEF Spec
=============================================================================
