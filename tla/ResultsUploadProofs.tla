------------------------ MODULE ResultsUploadProofs ------------------------
(***************************************************************************)
(* Proofs about ResultsUpload, for any tasks, batches, sessions and        *)
(* faults: type correctness, that what the dashboard shows of a task       *)
(* result is derived from its rows, and that an upload that succeeded is   *)
(* stored and one that nothing disturbs succeeds.                          *)
(***************************************************************************)
EXTENDS ResultsUpload, FiniteSetTheorems, TLAPS

USE UploadAssumption

-----------------------------------------------------------------------------
(* Requests, and the order they are sent in.                               *)

\* A request is one of the six of the protocol, with its own fields.
LEMMA RequestKinds ==
    ASSUME NEW r \in Requests
    PROVE  \/ r.op = "run" /\ r.status \in Final \cup Unfinished /\ r = PutRun(r.status)
           \/ r.op = "sign" /\ r.version \in Version /\ r = Sign(r.version)
           \/ r.op = "put" /\ r.task \in Task /\ r.version \in Version
                /\ r = PutFile(r.task, r.version)
           \/ r.op = "task" /\ r.task \in Task /\ r.version \in Version
                /\ r = PostTask(r.task, r.version)
           \/ r.op = "rows" /\ r.task \in Task /\ r.batch \in Batch /\ r.version \in Version
                /\ r = PostRows(r.task, r.batch, r.version)
           \/ r.op = "complete" /\ r.status \in Final /\ r.version \in Version
                /\ r = CompleteAs(r.status, r.version)
BY DEF Requests, PutRun, Sign, PutFile, PostTask, PostRows, CompleteAs, Request

\* The request that ends an upload is sent when no other is left.
LEMMA CompleteIsLast ==
    ASSUME todo \subseteq Requests, NEW r \in todo, Due(r), r.op = "complete"
    PROVE  \A q \in todo : q.op = "complete"
<1>1. \A q \in todo : Place["complete"] <= Place[q.op]
    BY DEF Due
<1> QED
    BY <1>1, RequestKinds DEF Place

-----------------------------------------------------------------------------
(* How many rows a task result has.                                        *)

\* The number of stored batches is a number of batches; it is the number of
\* all batches exactly when every batch is stored.
LEMMA CountBatches ==
    ASSUME NEW t
    PROVE  /\ CountOf(t) \in 0..Batches
           /\ CountOf(t) = Batches <=> \A b \in Batch : rows[t][b] # 0
<1> DEFINE S == {b \in Batch : rows[t][b] # 0}
<1>1. IsFiniteSet(Batch) /\ Cardinality(Batch) = Batches
    BY FS_Interval DEF Batch
<1>2. IsFiniteSet(S) /\ Cardinality(S) <= Batches /\ (Cardinality(S) = Batches => S = Batch)
    BY <1>1, FS_Subset
<1>3. Cardinality(S) \in Nat
    BY <1>2, FS_CardinalityType
<1>4. S = Batch <=> \A b \in Batch : rows[t][b] # 0
    OBVIOUS
<1>5. CountOf(t) = Cardinality(S)
    BY DEF CountOf
<1> HIDE DEF S
<1> QED
    BY <1>1, <1>2, <1>3, <1>4, <1>5

\* Storing a batch adds one to the count unless it was stored before.
LEMMA CountAdded ==
    ASSUME NEW t \in Task, NEW b \in Batch, NEW v \in Version \ {0},
           rows \in [Task -> [Batch -> Version]],
           rows' = [rows EXCEPT ![t][b] = v]
    PROVE  CountOf(t)' = CountOf(t) + Inserted(t, b)
<1> DEFINE S == {c \in Batch : rows[t][c] # 0}
<1>1. IsFiniteSet(Batch)
    BY FS_Interval DEF Batch
<1>2. IsFiniteSet(S)
    BY <1>1, FS_Subset
<1>3. {c \in Batch : rows'[t][c] # 0} = S \cup {b}
    BY DEF Version
<1>4. b \in S <=> rows[t][b] # 0
    OBVIOUS
<1>5. Cardinality(S) \in Nat
    BY <1>2, FS_CardinalityType
<1>6. Cardinality(S \cup {b}) = IF b \in S THEN Cardinality(S) ELSE Cardinality(S) + 1
    BY <1>2, FS_AddElement
<1> HIDE DEF S
<1>7. CountOf(t)' = Cardinality(S \cup {b}) /\ CountOf(t) = Cardinality(S)
    BY <1>3 DEF CountOf, S
<1> QED
    BY <1>4, <1>5, <1>6, <1>7 DEF Inserted

-----------------------------------------------------------------------------
(* Type correctness, and the values derived from the rows.                 *)

ServiceType ==
    /\ status \in {"none"} \cup Final \cup Unfinished
    /\ uploaded \in BOOLEAN
    /\ taskRow \in [Task -> {None} \cup TaskResult]
    /\ rows \in [Task -> [Batch -> Version]]
    /\ vector \in [Task -> [Batch -> Version]]
    /\ file \in [Task -> {None} \cup Artifact]
    /\ object \in [Task -> Version]

\* What the service keeps, whatever is sent: the count of a task result can stay
\* within its bound only because it is the count of its rows.
Derived == ServiceType /\ FinalizedMatchesRows

\* Requests for task results and their rows bring those of some version.
Versioned == \A r \in todo \cup late : r.op \in {"task", "rows"} => r.version # 0

\* UpsertRun, PutObject and doing nothing leave the task results alone.
LEMMA RunAndObjectKeepDerived ==
    ASSUME Derived,
           \/ UNCHANGED service
           \/ \E s \in Final \cup Unfinished : UpsertRun(s)
           \/ \E t \in Task, v \in Version : PutObject(t, v)
    PROVE  Derived'
<1>1. UNCHANGED <<taskRow, rows, vector>>
    BY DEF service, UpsertRun, PutObject
<1>2. ServiceType'
    BY <1>1 DEF Derived, ServiceType, service, UpsertRun, PutObject, Final, Unfinished
<1>3. FinalizedMatchesRows'
    BY <1>1 DEF Derived, FinalizedMatchesRows, Known, CountOf
<1> QED
    BY <1>2, <1>3 DEF Derived

\* Neither does signing.
LEMMA SignKeepsDerived ==
    ASSUME Derived, NEW v \in Version, NEW tasks, SignFiles(v, tasks)
    PROVE  Derived'
<1>1. UNCHANGED <<status, uploaded, taskRow, rows, vector, object>>
    BY DEF SignFiles
<1>2. \A t \in Task : [version |-> v, uploaded |-> Stored(t, v)] \in Artifact
    BY DEF Artifact, Stored
<1>3. ServiceType'
    BY <1>1, <1>2 DEF Derived, ServiceType, SignFiles
<1>4. FinalizedMatchesRows'
    BY <1>1 DEF Derived, FinalizedMatchesRows, Known, CountOf
<1> QED
    BY <1>3, <1>4 DEF Derived

\* A new task result starts with no rows, counted 0.
LEMMA TaskKeepsDerived ==
    ASSUME Derived, NEW t \in Task, NEW v \in Version, UpsertTask(t, v)
    PROVE  Derived'
<1>1. CASE Unchanged(t, v)
    BY <1>1, RunAndObjectKeepDerived DEF UpsertTask
<1>2. CASE ~Unchanged(t, v)
  <2> DEFINE fresh == [content |-> Content(t, v), stored |-> 0, finalized |-> FALSE]
  <2>1. /\ taskRow' = [taskRow EXCEPT ![t] = fresh]
        /\ rows' = [rows EXCEPT ![t] = NoRows]
        /\ vector' = [vector EXCEPT ![t] = NoRows]
        /\ UNCHANGED <<status, uploaded, file, object>>
    BY <1>2 DEF UpsertTask
  <2>2. Content(t, v) \in Version \X Version
    BY DEF Content, Derived, ServiceType, Artifact, Version
  <2>3. fresh \in TaskResult
    BY <2>2 DEF TaskResult
  <2>4. NoRows \in [Batch -> Version]
    BY DEF NoRows, Version
  <2>5. ServiceType'
    BY <2>1, <2>3, <2>4 DEF Derived, ServiceType
  <2>6. ASSUME NEW u \in Known'
        PROVE  taskRow'[u].stored = CountOf(u)' /\ (taskRow'[u].finalized => vector'[u] = rows'[u])
    <3>1. CASE u = t
      <4>1. CountOf(t)' = 0
        <5>1. rows'[t] = NoRows
            BY <2>1 DEF Derived, ServiceType
        <5>2. {b \in Batch : rows'[t][b] # 0} = {}
            BY <5>1 DEF NoRows
        <5> QED
            BY <5>2, FS_EmptySet DEF CountOf
      <4> QED
        BY <2>1, <3>1, <4>1 DEF Derived, ServiceType
    <3>2. CASE u # t
      <4>1. taskRow'[u] = taskRow[u] /\ rows'[u] = rows[u] /\ vector'[u] = vector[u] /\ u \in Known
        BY <2>1, <3>2 DEF Known
      <4>2. CountOf(u)' = CountOf(u)
        BY <4>1 DEF CountOf
      <4> QED
        BY <4>1, <4>2 DEF Derived, FinalizedMatchesRows
    <3> QED
      BY <3>1, <3>2
  <2> QED
    BY <2>5, <2>6 DEF Derived, FinalizedMatchesRows
<1> QED
    BY <1>1, <1>2

\* A batch that is inserted is counted, one that comes again is not, and either
\* way the task result has to be finalized again.
LEMMA AddedIsCounted ==
    ASSUME Derived, NEW t \in Known, NEW b \in Batch, NEW v \in Version \ {0}, AddRows(t, b, v)
    PROVE  /\ Added(taskRow[t], Inserted(t, b)) \in TaskResult
           /\ Added(taskRow[t], Inserted(t, b)).stored = CountOf(t)'
           /\ ~Added(taskRow[t], Inserted(t, b)).finalized
<1>1. rows' = [rows EXCEPT ![t][b] = v]
    BY DEF AddRows
<1>2. t \in Task /\ taskRow[t] \in TaskResult /\ taskRow[t].stored = CountOf(t)
    BY DEF Known, Derived, ServiceType, FinalizedMatchesRows
<1>3. CountOf(t)' = CountOf(t) + Inserted(t, b)
    BY <1>1, <1>2, CountAdded DEF Derived, ServiceType
<1>4. CountOf(t)' \in 0..Batches
  <2>1. IsFiniteSet(Batch) /\ Cardinality(Batch) = Batches
      BY FS_Interval DEF Batch
  <2>2. IsFiniteSet({c \in Batch : rows'[t][c] # 0})
            /\ Cardinality({c \in Batch : rows'[t][c] # 0}) <= Batches
      BY <2>1, FS_Subset
  <2>3. Cardinality({c \in Batch : rows'[t][c] # 0}) \in Nat
      BY <2>2, FS_CardinalityType
  <2> QED
      BY <2>2, <2>3 DEF CountOf
<1> QED
    BY <1>2, <1>3, <1>4 DEF Added, TaskResult

\* Storing a batch keeps the derived values.
LEMMA RowsKeepDerived ==
    ASSUME Derived, NEW t \in Known, NEW b \in Batch, NEW v \in Version \ {0}, AddRows(t, b, v)
    PROVE  Derived'
<1>1. /\ taskRow' = [taskRow EXCEPT ![t] = Added(taskRow[t], Inserted(t, b))]
      /\ rows' = [rows EXCEPT ![t][b] = v]
      /\ UNCHANGED <<status, uploaded, vector, file, object>>
    BY DEF AddRows
<1>2. t \in Task /\ taskRow[t] \in TaskResult
    BY DEF Known, Derived, ServiceType
<1>3. /\ Added(taskRow[t], Inserted(t, b)) \in TaskResult
      /\ Added(taskRow[t], Inserted(t, b)).stored = CountOf(t)'
      /\ ~Added(taskRow[t], Inserted(t, b)).finalized
    BY AddedIsCounted
<1>4. ServiceType'
    BY <1>1, <1>2, <1>3 DEF Derived, ServiceType
<1>5. ASSUME NEW u \in Known'
      PROVE  taskRow'[u].stored = CountOf(u)' /\ (taskRow'[u].finalized => vector'[u] = rows'[u])
  <2>1. CASE u = t
    BY <1>1, <1>2, <1>3, <2>1 DEF Derived, ServiceType
  <2>2. CASE u # t
    <3>1. taskRow'[u] = taskRow[u] /\ rows'[u] = rows[u] /\ vector'[u] = vector[u] /\ u \in Known
      BY <1>1, <2>2 DEF Known
    <3>2. CountOf(u)' = CountOf(u)
      BY <3>1 DEF CountOf
    <3> QED
      BY <3>1, <3>2 DEF Derived, FinalizedMatchesRows
  <2> QED
    BY <2>1, <2>2
<1> QED
    BY <1>4, <1>5 DEF Derived, FinalizedMatchesRows

\* A task result that is completed is a task result.
LEMMA CompletedIsResult ==
    \A x \in TaskResult, n \in 0..Batches : [x EXCEPT !.stored = n, !.finalized = TRUE] \in TaskResult
BY DEF TaskResult

\* The completion of a run derives everything from the rows again.
LEMMA CompletionKeepsDerived ==
    ASSUME Derived, NEW s \in Final, CompleteRun(s)
    PROVE  Derived'
<1>1. /\ taskRow' = [t \in Task |-> IF t \in Known
                                    THEN [taskRow[t] EXCEPT !.stored = CountOf(t), !.finalized = TRUE]
                                    ELSE None]
      /\ vector' = [t \in Task |-> IF t \in Known THEN rows[t] ELSE vector[t]]
      /\ file' = [t \in Task |-> IF file[t] = None THEN None
                                 ELSE [file[t] EXCEPT !.uploaded = object[t] # 0]]
      /\ status' = s /\ uploaded' = TRUE /\ UNCHANGED <<rows, object>>
    BY DEF CompleteRun
<1>2. \A t \in Task : CountOf(t) \in 0..Batches /\ CountOf(t)' = CountOf(t)
    BY <1>1, CountBatches DEF CountOf
<1>3. ASSUME NEW t \in Known
      PROVE  /\ taskRow[t] \in TaskResult
             /\ [taskRow[t] EXCEPT !.stored = CountOf(t), !.finalized = TRUE] \in TaskResult
  <2>1. taskRow[t] \in TaskResult
    BY DEF Known, Derived, ServiceType
  <2>2. CountOf(t) \in 0..Batches
    BY <1>2 DEF Known
  <2> QED
    BY <2>1, <2>2, CompletedIsResult
<1>4. ASSUME NEW t \in Task, file[t] # None
      PROVE  [file[t] EXCEPT !.uploaded = object[t] # 0] \in Artifact
  <2>1. file[t] \in Artifact
    BY <1>4 DEF Derived, ServiceType
  <2>2. \A x \in Artifact, b \in BOOLEAN : [x EXCEPT !.uploaded = b] \in Artifact
    BY DEF Artifact
  <2>3. (object[t] # 0) \in BOOLEAN
    OBVIOUS
  <2> QED
    BY <2>1, <2>2, <2>3
<1>5. ServiceType'
    BY <1>1, <1>3, <1>4 DEF Derived, ServiceType
<1>6. Known' \subseteq Known
    BY <1>1 DEF Known
<1>7. ASSUME NEW t \in Known'
      PROVE  taskRow'[t].stored = CountOf(t)' /\ vector'[t] = rows'[t]
    BY <1>1, <1>2, <1>3, <1>6 DEF Known, TaskResult
<1> QED
    BY <1>5, <1>7 DEF Derived, FinalizedMatchesRows

\* Whatever the service handles, it keeps its derived values in step.
LEMMA HandlingKeepsDerived ==
    ASSUME Derived, NEW r \in Requests, r.op \in {"task", "rows"} => r.version # 0,
           ~Refuses(r), Handles(r)
    PROVE  Derived'
<1>1. CASE r.op = "run" /\ UpsertRun(r.status)
    BY <1>1, RequestKinds, RunAndObjectKeepDerived DEF Sign, PutFile, PostTask, PostRows, CompleteAs, Request
<1>2. CASE r.op = "sign" /\ SignFiles(r.version, Task)
  <2>1. r.version \in Version
      BY <1>2, RequestKinds
  <2> QED
      BY <1>2, <2>1, SignKeepsDerived
<1>3. CASE r.op = "put" /\ PutObject(r.task, r.version)
    BY <1>3, RequestKinds, RunAndObjectKeepDerived
<1>4. CASE r.op = "task" /\ UpsertTask(r.task, r.version)
    BY <1>4, RequestKinds, TaskKeepsDerived
<1>5. CASE r.op = "rows" /\ AddRows(r.task, r.batch, r.version)
  <2>1. r.task \in Known /\ r.batch \in Batch /\ r.version \in Version \ {0}
      BY <1>5, RequestKinds DEF Refuses, Known
  <2> QED
      BY <1>5, <2>1, RowsKeepDerived
<1>6. CASE r.op = "complete" /\ CompleteRun(r.status)
  <2>1. r.status \in Final
      BY <1>6, RequestKinds
  <2> QED
      BY <1>6, <2>1, CompletionKeepsDerived
<1> QED
    BY <1>1, <1>2, <1>3, <1>4, <1>5, <1>6 DEF Handles

-----------------------------------------------------------------------------
(* The invariant of the types.  The versions of the requests under way are  *)
(* part of it: a request for version 0 would store a row that is no row.    *)

TypeInv == TypeOK /\ FinalizedMatchesRows /\ Versioned

SoundRequests(R) == R \subseteq Requests /\ \A r \in R : r.op \in {"task", "rows"} => r.version # 0

\* The requests of every kind are requests.
LEMMA KindsAreRequests ==
    /\ \A s \in Final \cup Unfinished : PutRun(s) \in Requests /\ PutRun(s).op = "run"
    /\ \A v \in Version : Sign(v) \in Requests /\ Sign(v).op = "sign"
    /\ \A t \in Task, v \in Version :
          /\ PutFile(t, v) \in Requests /\ PutFile(t, v).op = "put"
          /\ PostTask(t, v) \in Requests /\ PostTask(t, v).op = "task" /\ PostTask(t, v).version = v
    /\ \A t \in Task, b \in Batch, v \in Version :
          PostRows(t, b, v) \in Requests /\ PostRows(t, b, v).op = "rows"
              /\ PostRows(t, b, v).version = v
    /\ \A s \in Final, v \in Version :
          CompleteAs(s, v) \in Requests /\ CompleteAs(s, v).op = "complete"
<1>1. \A s \in Final \cup Unfinished : PutRun(s) \in Requests
    BY DEF Requests
<1>2. \A v \in Version : Sign(v) \in Requests
    BY DEF Requests
<1>3. \A t \in Task, v \in Version : PutFile(t, v) \in Requests /\ PostTask(t, v) \in Requests
    BY DEF Requests
<1>4. \A t \in Task, b \in Batch, v \in Version : PostRows(t, b, v) \in Requests
    BY DEF Requests
<1>5. \A s \in Final, v \in Version : CompleteAs(s, v) \in Requests
    BY DEF Requests
<1>6. \A s : PutRun(s).op = "run"
    BY DEF PutRun, Request
<1>7. \A v : Sign(v).op = "sign"
    BY DEF Sign, Request
<1>8. \A t, v : PutFile(t, v).op = "put" /\ PostTask(t, v).op = "task" /\ PostTask(t, v).version = v
    BY DEF PutFile, PostTask, Request
<1>9. \A t, b, v : PostRows(t, b, v).op = "rows" /\ PostRows(t, b, v).version = v
    BY DEF PostRows, Request
<1>10. \A s, v : CompleteAs(s, v).op = "complete"
    BY DEF CompleteAs, Request
<1> QED
    BY <1>1, <1>2, <1>3, <1>4, <1>5, <1>6, <1>7, <1>8, <1>9, <1>10

\* What an upload plans is sound.
LEMMA PlanIsSound ==
    ASSUME NEW v \in Version, NEW s \in Final
    PROVE  SoundRequests(PlanOf(v, s))
<1>1. CASE v = 0
    BY <1>1, KindsAreRequests DEF PlanOf, SoundRequests
<1>2. CASE v # 0
    BY <1>2, KindsAreRequests DEF PlanOf, SoundRequests
<1> QED
    BY <1>1, <1>2

\* What a session has left after a request is sound.
LEMMA RestIsSound ==
    ASSUME SoundRequests(todo), NEW r \in todo
    PROVE  SoundRequests(Rest(r))
<1>1. CASE r.op = "sign"
    BY <1>1 DEF Rest, SoundRequests
<1>2. CASE r.op = "task" /\ ~Unchanged(r.task, r.version)
  <2>1. r.task \in Task /\ r.version \in Version \ {0}
    BY <1>2, RequestKinds DEF SoundRequests
  <2>2. Rest(r) = (todo \ {r}) \cup {PostRows(r.task, b, r.version) : b \in Batch}
    BY <1>2 DEF Rest
  <2> QED
    BY <2>1, <2>2, KindsAreRequests DEF SoundRequests
<1>3. CASE r.op # "sign" /\ ~(r.op = "task" /\ ~Unchanged(r.task, r.version))
  <2>1. Rest(r) = todo \ {r}
    BY <1>3 DEF Rest
  <2> QED
    BY <2>1 DEF SoundRequests
<1> QED
    BY <1>1, <1>2, <1>3

\* The type of what a session keeps, and of the requests its predecessors left.
SessionType ==
    /\ session \in Version
    /\ doing \in {"idle", "start", "run", "report", "upload"}
    /\ SoundRequests(todo)
    /\ SoundRequests(late)
    /\ spoiled \in BOOLEAN
    /\ told \in {None} \cup Success

HistoryType ==
    /\ manifest \in {"none"} \cup Final \cup Unfinished
    /\ results \in Version
    /\ strayed \in BOOLEAN /\ calm \in BOOLEAN
    /\ faults \in 0..MaxFaults

\* The invariant by its parts.
LEMMA TypeParts ==
    TypeInv <=> HistoryType /\ SessionType /\ Derived
BY DEF TypeInv, TypeOK, Versioned, HistoryType, SessionType, SoundRequests, Derived, ServiceType

\* Going on keeps the session's type.
LEMMA GoingOnIsTyped ==
    ASSUME SessionType, NEW rest, SoundRequests(rest), NEW ok \in BOOLEAN, NEW done,
           ok => done \in Success, SoundRequests(late'), spoiled' \in BOOLEAN,
           GoOn(rest, ok, done)
    PROVE  SessionType'
<1>1. told' \in {None} \cup Success
    BY DEF GoOn
<1>2. session' \in Version /\ doing' \in {"idle", "start", "run", "report", "upload"}
    BY DEF GoOn, SessionType
<1> QED
    BY <1>1, <1>2 DEF GoOn, SessionType, SoundRequests

\* A request that is left behind keeps the service's and the network's.
LEMMA LeavingBehindIsTyped ==
    ASSUME TypeInv, NEW r \in todo, LeftBehind(r)
    PROVE  Derived' /\ SoundRequests(late')
<1>1. Derived /\ SoundRequests(todo) /\ SoundRequests(late)
    BY TypeParts DEF SessionType
<1>2. CASE UNCHANGED <<service, late>>
    BY <1>1, <1>2, RunAndObjectKeepDerived
<1>3. CASE ~Refuses(r) /\ Handles(r) /\ UNCHANGED late
    BY <1>1, <1>3, HandlingKeepsDerived DEF SoundRequests
<1>4. CASE late' = late \cup {r} /\ UNCHANGED service
    BY <1>1, <1>4, RunAndObjectKeepDerived DEF SoundRequests
<1> QED
    BY <1>2, <1>3, <1>4 DEF LeftBehind

\* A request that fails keeps the session's.
LEMMA FailingIsTyped ==
    ASSUME SessionType, NEW r \in todo, SoundRequests(late'), Fails(r)
    PROVE  SessionType'
<1>1. SoundRequests(todo \ {r}) /\ SoundRequests({})
    BY DEF SessionType, SoundRequests
<1>2. CASE r.op = "put" /\ spoiled' = TRUE /\ GoOn(todo \ {r}, FALSE, None)
    BY <1>1, <1>2, GoingOnIsTyped
<1>3. CASE r.op # "put" /\ UNCHANGED spoiled /\ GoOn({}, FALSE, None)
    BY <1>1, <1>3, GoingOnIsTyped DEF SessionType
<1> QED
    BY <1>2, <1>3 DEF Fails

\* Nothing has happened.
LEMMA InitIsTyped == Init => TypeInv
<1> SUFFICES ASSUME Init PROVE TypeInv
    OBVIOUS
<1>1. 0 \in Version /\ NoRows \in [Batch -> Version]
    BY DEF Version, NoRows
<1>2. Derived
    BY <1>1 DEF Init, Derived, ServiceType, FinalizedMatchesRows, Known
<1>3. SessionType
    BY <1>1 DEF Init, SessionType, SoundRequests
<1>4. HistoryType
  <2>1. 0 \in 0..MaxFaults
    OBVIOUS
  <2>2. strayed \in BOOLEAN /\ calm \in BOOLEAN
    BY DEF Init
  <2> QED
    BY <1>1, <2>1, <2>2 DEF Init, HistoryType
<1> QED
    BY <1>2, <1>3, <1>4, TypeParts

\* Every step keeps the types and the derived values.
LEMMA StepIsTyped ==
    TypeInv /\ [Next]_vars => TypeInv'
<1> SUFFICES ASSUME TypeInv, [Next]_vars
             PROVE  TypeInv'
    OBVIOUS
<1> USE TypeParts
<1>p. HistoryType' /\ SessionType' /\ Derived' => TypeInv'
    BY DEF TypeInv, TypeOK, Versioned, HistoryType, SessionType, SoundRequests, Derived, ServiceType
<1> USE <1>p
<1>a. SoundRequests(todo) /\ SoundRequests(late) /\ todo \subseteq Requests /\ late \subseteq Requests
    BY DEF SessionType, SoundRequests
<1>b. UNCHANGED service => Derived'
    BY RunAndObjectKeepDerived
<1>c. SoundRequests(PlanOf(0, "failed")) /\ SoundRequests({}) /\ SoundRequests({PutRun("running")})
            /\ SoundRequests({PutRun("interrupted")})
    BY PlanIsSound, KindsAreRequests DEF SoundRequests, Version, Final, Unfinished
<1>d. ASSUME NEW what \in {"start", "upload"}, NEW requests, Begin(what, requests),
             SoundRequests(requests), UNCHANGED late
      PROVE  SessionType'
  <2>1. session' \in Version
    BY <1>d DEF Begin, SessionType, Version
  <2> QED
    BY <1>d, <1>a, <2>1 DEF Begin, SessionType, SoundRequests
<1>1. CASE StartRun
  <2>1. Begin("start", {PutRun("running")}) /\ UNCHANGED <<service, late>>
    BY <1>1 DEF StartRun, network
  <2>2. SessionType'
    BY <1>c, <1>d, <2>1
  <2>3. HistoryType'
    BY <1>1 DEF StartRun, HistoryType, network, Unfinished
  <2> QED
    BY <1>b, <2>1, <2>2, <2>3
<1>2. CASE StartUpload
  <2>1. PICK s \in Final : Begin("upload", PlanOf(results, s))
    BY <1>2 DEF StartUpload, HistoryType, Final, Unfinished
  <2>2. UNCHANGED <<service, late>> /\ results \in Version
    BY <1>2 DEF StartUpload, network, HistoryType
  <2>3. SessionType'
    BY <1>d, <2>1, <2>2, PlanIsSound
  <2>4. HistoryType'
    BY <1>2 DEF StartUpload, HistoryType, network, directory
  <2> QED
    BY <1>b, <2>2, <2>3, <2>4
<1>3. CASE WriteMetrics
  <2>1. SessionType' /\ HistoryType'
    BY <1>3 DEF WriteMetrics, SessionType, HistoryType, client, network, SoundRequests
  <2> QED
    BY <1>3, <1>b, <2>1 DEF WriteMetrics
<1>d2. ASSUME NEW s \in Final \cup Unfinished, NEW what \in {"upload", "report"}, NEW requests,
              Ends(s, what, requests), SoundRequests(requests)
       PROVE  TypeInv'
  <2>1. SessionType' /\ HistoryType'
    BY <1>d2 DEF Ends, SessionType, HistoryType, network, SoundRequests
  <2> QED
    BY <1>d2, <1>b, <2>1 DEF Ends
<1>4. ASSUME NEW s \in Final, Finish(s)
      PROVE  TypeInv'
  <2>1. session \in Version
    BY DEF SessionType
  <2> QED
    BY <1>4, <1>d2, <2>1, PlanIsSound DEF Finish
<1>5. CASE MarkFailed
    BY <1>5, <1>c, <1>d2 DEF MarkFailed, Final
<1>6. CASE MarkInterrupted
    BY <1>6, <1>c, <1>d2 DEF MarkInterrupted, Unfinished
<1>e. Fault => faults' \in 0..MaxFaults /\ calm' = FALSE
    BY DEF Fault, HistoryType
<1>7. ASSUME NEW r \in todo, Answered(r)
      PROVE  TypeInv'
  <2> DEFINE ok == ~spoiled /\ r.op = "complete" /\ ~Warns(r.version)
  <2>1. Derived'
    BY <1>7, <1>a, HandlingKeepsDerived DEF Answered, SoundRequests
  <2>2. ok => [version |-> r.version, status |-> r.status] \in Success
    BY <1>a, RequestKinds DEF Success
  <2>3. SoundRequests(late') /\ spoiled' \in BOOLEAN
    BY <1>7, <1>a DEF Answered, network, SessionType
  <2>4. SessionType'
    <3>1. SoundRequests(Rest(r))
      BY <1>a, RestIsSound
    <3>2. ok \in BOOLEAN
      OBVIOUS
    <3>3. GoOn(Rest(r), ok, [version |-> r.version, status |-> r.status])
      BY <1>7 DEF Answered
    <3> HIDE DEF ok
    <3> QED
      BY <2>2, <2>3, <3>1, <3>2, <3>3, GoingOnIsTyped
  <2>5. HistoryType'
    BY <1>7 DEF Answered, HistoryType, directory, network
  <2> QED
    BY <2>1, <2>4, <2>5
<1>8. ASSUME NEW r \in todo, Refused(r)
      PROVE  TypeInv'
  <2>1. SessionType'
    BY <1>8, <1>a, FailingIsTyped DEF Refused, network
  <2>2. HistoryType'
    BY <1>8 DEF Refused, HistoryType, directory, network
  <2> QED
    BY <1>8, <1>b, <2>1, <2>2 DEF Refused
<1>9. ASSUME NEW r \in todo, Retry(r)
      PROVE  TypeInv'
  <2>1. Derived' /\ SoundRequests(late')
    BY <1>9, LeavingBehindIsTyped DEF Retry
  <2>2. SessionType'
    BY <1>9, <2>1 DEF Retry, SessionType, client, SoundRequests
  <2>3. HistoryType'
    BY <1>9, <1>e DEF Retry, HistoryType, directory
  <2> QED
    BY <2>1, <2>2, <2>3
<1>10. ASSUME NEW r \in todo, GiveUp(r)
       PROVE  TypeInv'
  <2>1. Derived' /\ SoundRequests(late')
    BY <1>10, LeavingBehindIsTyped DEF GiveUp
  <2>2. SessionType'
    BY <1>10, <2>1, FailingIsTyped DEF GiveUp
  <2>3. HistoryType'
    BY <1>10, <1>e DEF GiveUp, HistoryType, directory
  <2> QED
    BY <2>1, <2>2, <2>3
<1>11. ASSUME NEW r \in todo, Resign(r)
       PROVE  TypeInv'
  <2>1. r.version \in Version /\ SignFiles(r.version, {r.task}) /\ UNCHANGED <<spoiled, late>>
    BY <1>11, <1>a, RequestKinds DEF Resign, network
  <2>2. Derived'
    BY <2>1, SignKeepsDerived
  <2>3. SessionType'
    <3>1. CASE GoOn(todo \ {r}, FALSE, None)
      <4>1. SoundRequests(todo \ {r}) /\ SoundRequests(late') /\ spoiled' \in BOOLEAN
        BY <1>a, <2>1 DEF SoundRequests, SessionType
      <4> QED
        BY <3>1, <4>1, GoingOnIsTyped
    <3>2. CASE UNCHANGED client
      BY <1>a, <2>1, <3>2 DEF client, SessionType, SoundRequests
    <3> QED
      BY <1>11, <3>1, <3>2 DEF Resign
  <2>4. HistoryType'
    BY <1>11, <1>e DEF Resign, HistoryType, directory, network
  <2> QED
    BY <2>2, <2>3, <2>4
<1>12. CASE Kill
  <2>1. Derived' /\ SoundRequests(late')
    <3>1. CASE \E r \in todo : Due(r) /\ LeftBehind(r)
      BY <3>1, LeavingBehindIsTyped
    <3>2. CASE UNCHANGED <<service, late>>
      BY <3>2, <1>a, <1>b
    <3> QED
      BY <1>12, <3>1, <3>2 DEF Kill
  <2>2. SessionType'
    BY <1>12, <2>1 DEF Kill, SessionType, SoundRequests
  <2>3. HistoryType'
    BY <1>12, <1>e DEF Kill, HistoryType, directory
  <2> QED
    BY <2>1, <2>2, <2>3
<1>13. ASSUME NEW r \in late, Arrives(r)
       PROVE  TypeInv'
  <2>1. Derived'
    BY <1>13, <1>a, <1>b, HandlingKeepsDerived DEF Arrives, SoundRequests
  <2>2. SessionType'
    BY <1>13, <1>a DEF Arrives, SessionType, client, SoundRequests
  <2>3. HistoryType'
    BY <1>13 DEF Arrives, HistoryType, directory
  <2> QED
    BY <2>1, <2>2, <2>3
<1>14. CASE DeleteRun
  <2>1. late' \subseteq late /\ todo' = todo
    BY <1>14 DEF DeleteRun
  <2>2. SessionType'
    BY <1>14, <1>a, <2>1 DEF DeleteRun, SessionType, SoundRequests
  <2>3. HistoryType'
    BY <1>14, <1>e DEF DeleteRun, HistoryType, directory
  <2>4. 0 \in Version /\ NoRows \in [Batch -> Version]
    BY DEF Version, NoRows
  <2>5. CASE UNCHANGED <<taskRow, rows, vector, status, uploaded, file>>
    <3>1. ServiceType'
      BY <1>14, <2>4, <2>5 DEF DeleteRun, Derived, ServiceType
    <3>2. FinalizedMatchesRows'
      BY <2>5 DEF Derived, FinalizedMatchesRows, Known, CountOf
    <3> QED
      BY <2>2, <2>3, <3>1, <3>2 DEF Derived
  <2>6. CASE /\ status' = "none" /\ uploaded' = FALSE
             /\ taskRow' = [t \in Task |-> None]
             /\ rows' = [t \in Task |-> NoRows]
             /\ vector' = [t \in Task |-> NoRows]
             /\ file' = [t \in Task |-> None]
    <3>1. ServiceType'
      BY <1>14, <2>4, <2>6 DEF DeleteRun, ServiceType
    <3>2. FinalizedMatchesRows'
      BY <2>6 DEF FinalizedMatchesRows, Known
    <3> QED
      BY <2>2, <2>3, <3>1, <3>2 DEF Derived
  <2> QED
    BY <1>14, <2>5, <2>6 DEF DeleteRun
<1>15. CASE UNCHANGED vars
  <2>1. SessionType' /\ HistoryType'
    BY <1>15 DEF vars, SessionType, HistoryType, directory, client, network, SoundRequests
  <2> QED
    BY <1>15, <1>b, <2>1 DEF vars
<1> QED
    BY <1>1, <1>2, <1>3, <1>4, <1>5, <1>6, <1>7, <1>8, <1>9, <1>10, <1>11, <1>12, <1>13, <1>14,
       <1>15 DEF Next

\* The types, and the derived values, of every reachable state.
LEMMA TypeInvariant == Spec => []TypeInv
<1>1. Init => TypeInv
    BY InitIsTyped
<1>2. TypeInv /\ [Next]_vars => TypeInv'
    BY StepIsTyped
<1> QED
    BY <1>1, <1>2, PTL DEF Spec

\* Every variable keeps its type; in particular the count of stored batches stays
\* within their number however batches are sent again (add_instances).
THEOREM TypeCorrect == Spec => []TypeOK
<1>1. TypeInv => TypeOK
    BY DEF TypeInv
<1> QED
    BY <1>1, TypeInvariant, PTL

\* What the dashboard shows of a finalized task result is derived from its rows,
\* and every count is that of the rows (add_instances, complete_run).
THEOREM ShownMatchesRows == Spec => []FinalizedMatchesRows
<1>1. TypeInv => FinalizedMatchesRows
    BY DEF TypeInv
<1> QED
    BY <1>1, TypeInvariant, PTL

-----------------------------------------------------------------------------
(* An upload that succeeded is stored.  The invariant says of an upload    *)
(* under way that what is no longer among its requests has been stored.    *)

\* The requests of an upload of version v that ends with status s.
Sent(s, v) ==
    {PutRun(s), CompleteAs(s, v)} \cup
        IF v = 0 THEN {}
        ELSE {Sign(v)} \cup {PutFile(t, v) : t \in Task} \cup {PostTask(t, v) : t \in Task}
                \cup {PostRows(t, b, v) : t \in Task, b \in Batch}

\* An upload has them left from some point of its plan on.
LeftOf(R, v) ==
    /\ \E s \in Final : CompleteAs(s, v) \in R /\ R \subseteq Sent(s, v)
    /\ v # 0 => \A s \in Final : PutRun(s) \in R => Sign(v) \in R
    /\ Sign(v) \in R => \A t \in Task : PutFile(t, v) \in R
    /\ \A t \in Task, b \in Batch : PostRows(t, b, v) \in R => PostTask(t, v) \notin R

PlanKept ==
    /\ doing \in {"idle", "run"} => todo = {}
    /\ doing \in {"start", "report"} => \A r \in todo : r.op \in {"run", "complete"}
    /\ doing \in {"start", "run", "report"} => ~spoiled
    /\ doing # "idle" => session # 0 /\ told = None
    /\ doing = "upload" => LeftOf(todo, results)

\* The rows of a task result are those of its content.
RowsOfOneVersion ==
    \A t \in Task : taskRow[t] # None =>
        \A b \in Batch : rows[t][b] \in {0, taskRow[t].content[1]}

SentOf(t) ==
    /\ PostTask(t, results) \notin todo /\ taskRow[t] # None => taskRow[t].content[1] = results
    /\ Sign(results) \notin todo =>
          /\ There => file[t] # None
          /\ ~spoiled /\ PutFile(t, results) \notin todo => object[t] \in {0, results}
SentIsThere == doing = "upload" /\ results # 0 => \A t \in Task : SentOf(t)

\* Nothing that an undisturbed upload has stored is missing.
WholeOf(t) ==
    /\ PostTask(t, results) \notin todo =>
          /\ taskRow[t] # None
          /\ \A b \in Batch : PostRows(t, b, results) \in todo \/ rows[t][b] # 0
    /\ Sign(results) \notin todo /\ PutFile(t, results) \notin todo => object[t] = results
CalmIsWhole ==
    calm =>
        /\ doing \in {"idle", "upload"}
        /\ doing = "idle" => told # None
        /\ doing = "upload" =>
              /\ results # 0 /\ ~spoiled
              /\ There \/ \E s \in Final : PutRun(s) \in todo
              /\ \A t \in Task : WholeOf(t)

StoredInv ==
    PlanKept /\ CalmIsWhole /\ (strayed \/ (RowsOfOneVersion /\ SentIsThere /\ ToldIsStored))

-----------------------------------------------------------------------------
(* What is left of an upload.                                              *)

\* The fields of the requests.
LEMMA Fields ==
    /\ \A s : PutRun(s).op = "run"
    /\ \A v : Sign(v).op = "sign" /\ Sign(v).version = v
    /\ \A t, v : PutFile(t, v).op = "put" /\ PutFile(t, v).task = t /\ PutFile(t, v).version = v
    /\ \A t, v : PostTask(t, v).op = "task" /\ PostTask(t, v).task = t /\ PostTask(t, v).version = v
    /\ \A t, b, v : /\ PostRows(t, b, v).op = "rows" /\ PostRows(t, b, v).task = t
                    /\ PostRows(t, b, v).batch = b /\ PostRows(t, b, v).version = v
    /\ \A s, v : /\ CompleteAs(s, v).op = "complete" /\ CompleteAs(s, v).version = v
                 /\ CompleteAs(s, v).status = s
BY DEF PutRun, Sign, PutFile, PostTask, PostRows, CompleteAs, Request

\* A request of an upload is one of its version.
LEMMA KindsLeft ==
    ASSUME NEW R, NEW v, LeftOf(R, v), NEW r \in R
    PROVE  \/ \E s \in Final : r = PutRun(s)
           \/ v # 0 /\ r = Sign(v)
           \/ v # 0 /\ \E t \in Task : r = PutFile(t, v)
           \/ v # 0 /\ \E t \in Task : r = PostTask(t, v)
           \/ v # 0 /\ \E t \in Task, b \in Batch : r = PostRows(t, b, v)
           \/ \E s \in Final : r = CompleteAs(s, v)
BY DEF LeftOf, Sent

\* An upload begins with its plan.
LEMMA PlanIsLeft ==
    ASSUME NEW v, NEW s \in Final
    PROVE  /\ LeftOf(PlanOf(v, s), v)
           /\ v # 0 => /\ PutRun(s) \in PlanOf(v, s) /\ Sign(v) \in PlanOf(v, s)
                       /\ \A t \in Task : PostTask(t, v) \in PlanOf(v, s)
<1>1. CompleteAs(s, v) \in PlanOf(v, s) /\ PlanOf(v, s) \subseteq Sent(s, v) /\ PutRun(s) \in PlanOf(v, s)
    BY DEF PlanOf, Sent
<1>2. ASSUME v # 0
      PROVE  Sign(v) \in PlanOf(v, s)
                /\ \A t \in Task : PutFile(t, v) \in PlanOf(v, s) /\ PostTask(t, v) \in PlanOf(v, s)
    BY <1>2 DEF PlanOf
<1>3. \A r \in PlanOf(v, s) : r.op # "rows" /\ (r.op = "sign" => v # 0)
    BY Fields DEF PlanOf
<1> QED
    BY <1>1, <1>2, <1>3, Fields DEF LeftOf

\* What is due comes before what is left.
LEMMA DueIsFirst ==
    ASSUME NEW r, Due(r)
    PROVE  /\ r.op = "sign" => \A q \in todo : q.op # "run"
           /\ r.op = "put" => \A q \in todo : q.op \notin {"run", "sign"}
           /\ r.op = "rows" => \A q \in todo : q.op \notin {"run", "sign", "put"}
           /\ r.op = "task" => \A q \in todo : q.op \notin {"run", "sign", "put", "rows"}
           /\ r.op = "complete" => \A q \in todo : q.op \notin {"run", "sign", "put", "rows", "task"}
<1>1. \A q \in todo : Place[r.op] <= Place[q.op]
    BY DEF Due
<1> QED
    BY <1>1 DEF Place

\* A file that is done with, or left out, leaves the rest as it is.
LEMMA LeftAfterFile ==
    ASSUME NEW v, LeftOf(todo, v), NEW r \in todo, Due(r), r.op = "put"
    PROVE  LeftOf(todo \ {r}, v)
<1>1. \A q \in todo : q.op \notin {"run", "sign"}
    BY DueIsFirst
<1>2. \A q \in todo : q.op # "put" => q \in todo \ {r}
    OBVIOUS
<1> QED
    BY <1>1, <1>2, Fields DEF LeftOf

\* What is left after any other request, the last one apart.
LEMMA LeftAfterRequest ==
    ASSUME NEW v, LeftOf(todo, v), NEW r \in todo, Due(r), r.op # "complete"
    PROVE  LeftOf(Rest(r), v)
<1>1. CASE r.op = "sign"
  <2>1. \A q \in todo : q.op # "run"
    BY <1>1, DueIsFirst
  <2>2. Rest(r) \subseteq todo \ {r}
    BY <1>1 DEF Rest
  <2>3. \A q \in todo : q.op \notin {"sign", "put"} => q \in Rest(r)
    BY <1>1, Fields DEF Rest
  <2>4. r = Sign(v)
    BY <1>1, KindsLeft, Fields
  <2> QED
    BY <2>1, <2>2, <2>3, <2>4, Fields DEF LeftOf
<1>2. CASE r.op = "task" /\ ~Unchanged(r.task, r.version)
  <2>1. \A q \in todo : q.op \notin {"run", "sign", "put", "rows"}
    BY <1>2, DueIsFirst
  <2>2. PICK t \in Task : r = PostTask(t, v) /\ v # 0
    BY <1>2, KindsLeft, Fields
  <2>3. Rest(r) = (todo \ {r}) \cup {PostRows(t, b, v) : b \in Batch}
    BY <1>2, <2>2, Fields DEF Rest
  <2>4. PICK s \in Final : CompleteAs(s, v) \in todo /\ todo \subseteq Sent(s, v)
    BY DEF LeftOf
  <2>5. CompleteAs(s, v) \in Rest(r) /\ Rest(r) \subseteq Sent(s, v)
    BY <2>2, <2>3, <2>4, Fields DEF Sent
  <2>6. \A q \in Rest(r) : q.op \notin {"run", "sign"}
    BY <2>1, <2>3, Fields
  <2>7. \A u \in Task, b \in Batch : PostRows(u, b, v) \in Rest(r) => u = t
    BY <2>1, <2>3, Fields
  <2>8. PostTask(t, v) \notin Rest(r)
    BY <2>2, <2>3, Fields
  <2> QED
    BY <2>5, <2>6, <2>7, <2>8, Fields DEF LeftOf
<1>3. CASE r.op # "sign" /\ ~(r.op = "task" /\ ~Unchanged(r.task, r.version))
  <2>1. Rest(r) = todo \ {r}
    BY <1>3 DEF Rest
  <2>2. r.op # "put" => LeftOf(todo \ {r}, v)
    BY <1>3, Fields DEF LeftOf
  <2> QED
    BY <2>1, <2>2, LeftAfterFile
<1> QED
    BY <1>1, <1>2, <1>3

\* The request that ends an upload is the only one left.
LEMMA CompletionIsAlone ==
    ASSUME NEW v, LeftOf(todo, v), NEW r \in todo, Due(r), r.op = "complete"
    PROVE  todo = {r} /\ Rest(r) = {} /\ \E s \in Final : r = CompleteAs(s, v)
<1>1. \A q \in todo : q.op \notin {"run", "sign", "put", "rows", "task"}
    BY DueIsFirst
<1>2. PICK s \in Final : CompleteAs(s, v) \in todo /\ todo \subseteq Sent(s, v)
    BY DEF LeftOf
<1>3. \A q \in todo : q = CompleteAs(s, v)
    BY <1>1, <1>2, Fields DEF Sent
<1>4. todo = {r} /\ r = CompleteAs(s, v)
    BY <1>2, <1>3
<1> QED
    BY <1>4, Fields DEF Rest

-----------------------------------------------------------------------------
(* What the service does with a request of an upload.                      *)

\* A task result has the content it had or that of the uploaded version; none
\* disappears, nor does an artifact; a run is registered by its own request; an
\* object changes only into the uploaded version's, by its own request.
Effects(r) ==
    /\ \A t \in Task :
          /\ taskRow'[t] # None => \/ taskRow'[t].content[1] = results
                                   \/ taskRow[t] # None /\ taskRow'[t].content[1] = taskRow[t].content[1]
          /\ taskRow[t] # None => taskRow'[t] # None
          /\ file[t] # None => file'[t] # None
          /\ object'[t] = object[t] \/ (r = PutFile(t, results) /\ object'[t] = results)
    /\ There' => There \/ r.op = "run"

\* Signing.
LEMMA SigningHasEffects ==
    ASSUME TypeInv, NEW r, NEW v \in Version, NEW tasks, SignFiles(v, tasks)
    PROVE  Effects(r) /\ (RowsOfOneVersion => RowsOfOneVersion')
                /\ \A t \in tasks \cap Task : file'[t] # None
<1>1. /\ UNCHANGED <<status, uploaded, taskRow, rows, vector, object>>
      /\ file' = [t \in Task |-> IF t \in tasks THEN [version |-> v, uploaded |-> Stored(t, v)]
                                 ELSE file[t]]
    BY DEF SignFiles
<1>2. \A t \in Task : [version |-> v, uploaded |-> Stored(t, v)] \in Artifact
    BY DEF Artifact, Stored
<1> QED
    BY <1>1, <1>2 DEF Effects, RowsOfOneVersion, There

\* A task result that is upserted has the uploaded content.
LEMMA UpsertHasEffects ==
    ASSUME TypeInv, NEW r, NEW t \in Task, results \in Version, UpsertTask(t, results)
    PROVE  /\ Effects(r) /\ (RowsOfOneVersion => RowsOfOneVersion')
           /\ taskRow'[t] # None /\ taskRow'[t].content[1] = results
           /\ \A u \in Task \ {t} : taskRow'[u] = taskRow[u] /\ rows'[u] = rows[u]
           /\ Unchanged(t, results) => UNCHANGED service
<1>1. CASE Unchanged(t, results)
  <2>1. taskRow[t] # None /\ taskRow[t].content[1] = results
    BY <1>1 DEF Unchanged, Content
  <2>2. UNCHANGED service
    BY <1>1 DEF UpsertTask
  <2> QED
    BY <2>1, <2>2 DEF service, Effects, RowsOfOneVersion, There
<1>2. CASE ~Unchanged(t, results)
  <2> DEFINE fresh == [content |-> Content(t, results), stored |-> 0, finalized |-> FALSE]
  <2>1. /\ taskRow' = [taskRow EXCEPT ![t] = fresh]
        /\ rows' = [rows EXCEPT ![t] = NoRows]
        /\ UNCHANGED <<status, uploaded, file, object>>
    BY <1>2 DEF UpsertTask
  <2>2. ServiceType
    BY TypeParts DEF Derived
  <2>3. Content(t, results) \in Version \X Version /\ Content(t, results)[1] = results
    BY <2>2 DEF Content, ServiceType, Artifact, Version
  <2>4. fresh \in TaskResult /\ fresh.content[1] = results
    BY <2>3 DEF TaskResult
  <2>5. fresh # None
    BY <2>4
  <2> HIDE DEF fresh
  <2>6. taskRow'[t] = fresh /\ \A u \in Task \ {t} : taskRow'[u] = taskRow[u] /\ rows'[u] = rows[u]
    BY <2>1, <2>2 DEF ServiceType
  <2>7. \A b \in Batch : rows'[t][b] = 0
    BY <2>1, <2>2 DEF ServiceType, NoRows
  <2>8. Effects(r)
    BY <2>1, <2>4, <2>5, <2>6 DEF Effects, There
  <2>9. RowsOfOneVersion => RowsOfOneVersion'
    BY <2>6, <2>7 DEF RowsOfOneVersion
  <2> QED
    BY <1>2, <2>4, <2>5, <2>6, <2>8, <2>9
<1> QED
    BY <1>1, <1>2

\* Rows that are stored leave the content; they are of it if the task result was upserted.
LEMMA AddingHasEffects ==
    ASSUME TypeInv, NEW r, NEW t \in Known, NEW b \in Batch, results \in Version \ {0},
           AddRows(t, b, results)
    PROVE  /\ Effects(r)
           /\ taskRow[t].content[1] = results /\ RowsOfOneVersion => RowsOfOneVersion'
           /\ rows' = [rows EXCEPT ![t][b] = results]
<1>1. /\ taskRow' = [taskRow EXCEPT ![t] = Added(taskRow[t], Inserted(t, b))]
      /\ rows' = [rows EXCEPT ![t][b] = results]
      /\ UNCHANGED <<status, uploaded, vector, file, object>>
    BY DEF AddRows
<1>2. ServiceType /\ t \in Task /\ taskRow[t] \in TaskResult /\ taskRow[t] # None
    BY TypeParts DEF Derived, ServiceType, Known
<1>3. Added(taskRow[t], Inserted(t, b)) \in TaskResult
    BY TypeParts, AddedIsCounted
<1>4. Added(taskRow[t], Inserted(t, b)).content = taskRow[t].content
    BY <1>2 DEF Added, TaskResult
<1>5. /\ taskRow'[t] # None /\ taskRow'[t].content = taskRow[t].content
      /\ \A u \in Task \ {t} : taskRow'[u] = taskRow[u]
    BY <1>1, <1>2, <1>3, <1>4 DEF ServiceType
<1>6. /\ rows'[t] = [rows[t] EXCEPT ![b] = results]
      /\ \A u \in Task \ {t} : rows'[u] = rows[u]
    BY <1>1, <1>2 DEF ServiceType
<1>7. \A c \in Batch : rows'[t][c] = IF c = b THEN results ELSE rows[t][c]
    BY <1>2, <1>6 DEF ServiceType
<1>8. Effects(r)
    BY <1>1, <1>2, <1>5 DEF Effects, There
<1>9. ASSUME taskRow[t].content[1] = results, RowsOfOneVersion
      PROVE  RowsOfOneVersion'
  <2>1. \A c \in Batch : rows'[t][c] \in {0, taskRow'[t].content[1]}
    BY <1>2, <1>5, <1>7, <1>9 DEF RowsOfOneVersion
  <2>2. \A u \in Task \ {t} : taskRow'[u] # None =>
            \A c \in Batch : rows'[u][c] \in {0, taskRow'[u].content[1]}
    BY <1>5, <1>6, <1>9 DEF RowsOfOneVersion
  <2> QED
    BY <2>1, <2>2 DEF RowsOfOneVersion
<1> QED
    BY <1>1, <1>8, <1>9

\* Completion stores nothing and finalizes everything.
LEMMA CompletingHasEffects ==
    ASSUME TypeInv, NEW r, NEW s \in Final, There, CompleteRun(s)
    PROVE  /\ Effects(r) /\ (RowsOfOneVersion => RowsOfOneVersion')
           /\ UNCHANGED <<rows, object>> /\ status' = s /\ uploaded'
           /\ \A t \in Known : taskRow'[t].finalized /\ vector'[t] = rows[t]
<1>1. /\ taskRow' = [t \in Task |-> IF t \in Known
                                    THEN [taskRow[t] EXCEPT !.stored = CountOf(t), !.finalized = TRUE]
                                    ELSE None]
      /\ vector' = [t \in Task |-> IF t \in Known THEN rows[t] ELSE vector[t]]
      /\ file' = [t \in Task |-> IF file[t] = None THEN None
                                 ELSE [file[t] EXCEPT !.uploaded = object[t] # 0]]
      /\ status' = s /\ uploaded' = TRUE /\ UNCHANGED <<rows, object>>
    BY DEF CompleteRun
<1>2. ServiceType
    BY TypeParts DEF Derived
<1>3. ASSUME NEW t \in Known
      PROVE  /\ t \in Task /\ taskRow'[t] # None
             /\ taskRow'[t].finalized /\ taskRow'[t].content = taskRow[t].content
  <2>1. t \in Task /\ taskRow[t] \in TaskResult
    BY <1>2 DEF Known, ServiceType
  <2>2. CountOf(t) \in 0..Batches
    BY CountBatches
  <2>3. [taskRow[t] EXCEPT !.stored = CountOf(t), !.finalized = TRUE] \in TaskResult
    BY <2>1, <2>2, CompletedIsResult
  <2>4. taskRow'[t] = [taskRow[t] EXCEPT !.stored = CountOf(t), !.finalized = TRUE]
    BY <1>1, <2>1
  <2> QED
    BY <2>1, <2>3, <2>4 DEF TaskResult
<1>4. \A t \in Task : taskRow[t] = None => taskRow'[t] = None
    BY <1>1 DEF Known
<1>5. ASSUME NEW t \in Task, file[t] # None
      PROVE  file'[t] # None
  <2>1. file[t] \in Artifact
    BY <1>2, <1>5 DEF ServiceType
  <2>2. \A x \in Artifact, b \in BOOLEAN : [x EXCEPT !.uploaded = b] \in Artifact
    BY DEF Artifact
  <2>3. (object[t] # 0) \in BOOLEAN
    OBVIOUS
  <2> QED
    BY <1>1, <1>5, <2>1, <2>2, <2>3
<1>6. Effects(r)
    BY <1>1, <1>3, <1>4, <1>5 DEF Effects, Known
<1>7. RowsOfOneVersion => RowsOfOneVersion'
    BY <1>1, <1>3, <1>4 DEF RowsOfOneVersion, Known
<1> QED
    BY <1>1, <1>3, <1>6, <1>7 DEF Known

\* A session that has requests left is registering, reporting or uploading.
LEMMA Busy ==
    ASSUME TypeInv, StoredInv, NEW r \in todo
    PROVE  /\ told = None /\ session # 0
           /\ \/ /\ doing \in {"start", "report"} /\ r.op \in {"run", "complete"}
                 /\ ~calm /\ ~spoiled
              \/ /\ doing = "upload" /\ LeftOf(todo, results)
                 /\ strayed \/ results = 0 \/ \A t \in Task : SentOf(t)
<1>1. doing \in {"idle", "start", "run", "report", "upload"}
    BY TypeParts DEF SessionType
<1>2. PlanKept /\ CalmIsWhole /\ (strayed \/ SentIsThere)
    BY DEF StoredInv
<1>3. doing \notin {"idle", "run"}
    BY <1>2 DEF PlanKept
<1>4. CASE doing \in {"start", "report"}
    BY <1>2, <1>4 DEF PlanKept, CalmIsWhole
<1>5. CASE doing = "upload"
    BY <1>2, <1>5 DEF PlanKept, SentIsThere
<1> QED
    BY <1>1, <1>3, <1>4, <1>5

\* Whatever a session has handled.
LEMMA HandlingHasEffects ==
    ASSUME TypeInv, StoredInv, NEW r \in todo, ~Refuses(r), Handles(r)
    PROVE  Effects(r) /\ (strayed \/ RowsOfOneVersion')
<1>a. /\ r.op \in {"run", "complete"} \/ LeftOf(todo, results)
      /\ strayed \/ RowsOfOneVersion
      /\ strayed \/ results = 0 \/ r.op \in {"run", "complete"} \/ \A t \in Task : SentOf(t)
    BY Busy DEF StoredInv
<1>1. results \in Version /\ r \in Requests
    BY TypeParts DEF HistoryType, SessionType, SoundRequests
<1>2. CASE r.op = "run" /\ UpsertRun(r.status)
    BY <1>2, <1>a DEF UpsertRun, Effects, RowsOfOneVersion
<1>3. CASE r.op = "sign" /\ SignFiles(r.version, Task)
    BY <1>1, <1>3, <1>a, SigningHasEffects, RequestKinds
<1>4. CASE r.op = "put" /\ PutObject(r.task, r.version)
  <2>1. PICK t \in Task : r = PutFile(t, results)
    BY <1>4, <1>a, KindsLeft, Fields
  <2>2. PutObject(t, results)
    BY <1>4, <2>1, Fields
  <2>3. object' = [object EXCEPT ![t] = results] /\ UNCHANGED <<status, taskRow, rows, file>>
    BY <2>2 DEF PutObject
  <2>4. object \in [Task -> Version]
    BY TypeParts DEF Derived, ServiceType
  <2> QED
    BY <1>a, <2>1, <2>3, <2>4 DEF Effects, RowsOfOneVersion, There
<1>5. CASE r.op = "task" /\ UpsertTask(r.task, r.version)
  <2>1. PICK t \in Task : r = PostTask(t, results)
    BY <1>5, <1>a, KindsLeft, Fields
  <2>2. UpsertTask(t, results)
    BY <1>5, <2>1, Fields
  <2> QED
    BY <1>1, <1>a, <2>2, UpsertHasEffects
<1>6. CASE r.op = "rows" /\ AddRows(r.task, r.batch, r.version)
  <2>1. PICK t \in Task, b \in Batch : r = PostRows(t, b, results) /\ results # 0
    BY <1>6, <1>a, KindsLeft, Fields
  <2>2. AddRows(t, b, results) /\ t \in Known
    BY <1>6, <2>1, Fields DEF Refuses, Known
  <2>3. Effects(r) /\ (taskRow[t].content[1] = results /\ RowsOfOneVersion => RowsOfOneVersion')
    BY <1>1, <2>1, <2>2, AddingHasEffects
  <2>4. strayed \/ taskRow[t].content[1] = results
    <3>1. PostTask(t, results) \notin todo
      BY <1>6, <1>a, <2>1 DEF LeftOf
    <3> QED
      BY <1>6, <1>a, <2>1, <2>2, <3>1 DEF SentOf, Known
  <2> QED
    BY <1>a, <2>3, <2>4
<1>7. CASE r.op = "complete" /\ CompleteRun(r.status)
  <2>1. r.status \in Final /\ There
    BY <1>7, <1>1, RequestKinds DEF Refuses
  <2> QED
    BY <1>7, <1>a, <2>1, CompletingHasEffects
<1> QED
    BY <1>2, <1>3, <1>4, <1>5, <1>6, <1>7 DEF Handles

-----------------------------------------------------------------------------
(* The steps of a session.                                                 *)

\* What is no longer among the requests has been stored, after a step that did
\* not take one of them away unless it was handled or left out.
LEMMA SentKept ==
    ASSUME NEW r \in todo, LeftOf(todo, results), Effects(r), UNCHANGED results,
           NEW t \in Task, SentOf(t), results # 0, spoiled => spoiled',
           Sign(results) \in todo => Sign(results) \in todo',
           \/ PostTask(t, results) \notin todo
           \/ PostTask(t, results) \in todo'
           \/ taskRow'[t] # None /\ taskRow'[t].content[1] = results,
           \/ PutFile(t, results) \notin todo
           \/ PutFile(t, results) \in todo'
           \/ spoiled'
           \/ object'[t] = results
    PROVE  SentOf(t)'
<1>1. ASSUME PostTask(t, results) \notin todo', taskRow'[t] # None
      PROVE  taskRow'[t].content[1] = results
    BY <1>1 DEF SentOf, Effects
<1>2. ASSUME Sign(results) \notin todo', There'
      PROVE  file'[t] # None
  <2>1. r.op # "run"
    BY <1>2, KindsLeft, Fields DEF LeftOf
  <2> QED
    BY <1>2, <2>1 DEF SentOf, Effects
<1>3. ASSUME Sign(results) \notin todo', ~spoiled', PutFile(t, results) \notin todo'
      PROVE  object'[t] \in {0, results}
    BY <1>3 DEF SentOf, Effects
<1> QED
    BY <1>1, <1>2, <1>3 DEF SentOf

\* A step of a session that is disturbed, or refused.
LEMMA DisturbedKeeps ==
    ASSUME TypeInv, StoredInv, NEW r \in todo, Due(r), Effects(r), strayed \/ RowsOfOneVersion',
           ~calm', UNCHANGED <<results, strayed>>,
           \/ UNCHANGED client
           \/ Fails(r)
           \/ /\ r.op = "put" /\ object[r.task] = r.version /\ UNCHANGED object
              /\ GoOn(todo \ {r}, FALSE, None) /\ UNCHANGED spoiled
           \/ doing' = "idle" /\ todo' = {} /\ UNCHANGED <<session, spoiled, told>>
    PROVE  StoredInv'
<1> USE Busy
<1>1. CalmIsWhole'
    BY DEF CalmIsWhole
<1>2. told' = None /\ session' # 0
    BY DEF client, Fails, GoOn
<1>3. ToldIsStored'
    BY <1>2 DEF ToldIsStored
<1>4. CASE UNCHANGED client
  <2>1. PlanKept'
    BY <1>4 DEF StoredInv, PlanKept, client
  <2>2. doing = "upload" /\ results # 0 /\ ~strayed => \A t \in Task : SentOf(t)'
    BY <1>4, SentKept DEF client
  <2> QED
    BY <1>1, <1>3, <1>4, <2>1, <2>2 DEF StoredInv, SentIsThere, client
<1>5. CASE todo' = {} /\ doing' \in {"idle", "run"} /\ (doing' = "run" => ~spoiled')
  <2>1. PlanKept'
    BY <1>2, <1>5 DEF PlanKept
  <2>2. SentIsThere'
    BY <1>5 DEF SentIsThere
  <2> QED
    BY <1>1, <1>3, <2>1, <2>2 DEF StoredInv
<1>6. CASE /\ r.op = "put" /\ GoOn(todo \ {r}, FALSE, None)
           /\ spoiled' \/ (UNCHANGED <<spoiled, object>> /\ object[r.task] = r.version)
  <2>1. doing = "upload" /\ LeftOf(todo, results)
    BY <1>6
  <2>2. LeftOf(todo \ {r}, results) /\ todo \ {r} # {}
    BY <1>6, <2>1, LeftAfterFile DEF LeftOf
  <2>3. todo' = todo \ {r} /\ doing' = "upload"
    BY <1>6, <2>1, <2>2 DEF GoOn
  <2>4. PlanKept'
    BY <1>2, <2>2, <2>3 DEF PlanKept
  <2>5. PICK u \in Task : r = PutFile(u, results)
    BY <1>6, <2>1, KindsLeft, Fields
  <2>6. spoiled' \/ object'[u] = results
    BY <1>6, <2>5, Fields
  <2>7. ASSUME ~strayed, results # 0, NEW t \in Task
        PROVE  SentOf(t)'
    <3>1. SentOf(t)
      BY <2>1, <2>7
    <3>2. spoiled => spoiled'
      BY <1>6
    <3>3. Sign(results) \in todo => Sign(results) \in todo'
      BY <2>3, <2>5, Fields
    <3>4. PostTask(t, results) \in todo => PostTask(t, results) \in todo'
      BY <2>3, <2>5, Fields
    <3>5. PutFile(t, results) \in todo => PutFile(t, results) \in todo' \/ t = u
      BY <2>3, <2>5, Fields
    <3> QED
      BY <2>1, <2>6, <2>7, <3>1, <3>2, <3>3, <3>4, <3>5, SentKept
  <2>8. strayed \/ SentIsThere'
    BY <2>7 DEF SentIsThere
  <2> QED
    BY <1>1, <1>3, <2>4, <2>8 DEF StoredInv
<1>7. CASE Fails(r)
  <2>1. CASE r.op = "put" /\ spoiled' = TRUE /\ GoOn(todo \ {r}, FALSE, None)
    BY <1>6, <2>1
  <2>2. CASE UNCHANGED spoiled /\ GoOn({}, FALSE, None)
    BY <1>5, <2>2 DEF GoOn
  <2> QED
    BY <1>7, <2>1, <2>2 DEF Fails
<1> QED
  <2>1. CASE doing' = "idle" /\ todo' = {}
    BY <1>5, <2>1
  <2> QED
    BY <1>4, <1>6, <1>7, <2>1

\* An undisturbed upload that has nothing but its completion left is warned of
\* nothing.
LEMMA CalmIsNotWarned ==
    ASSUME TypeInv, results # 0, \A t \in Task : WholeOf(t), \A q \in todo : q.op = "complete"
    PROVE  ~Warns(results)
<1>1. ASSUME NEW t \in Task
      PROVE  taskRow[t] # None /\ (\A b \in Batch : rows[t][b] # 0) /\ object[t] = results
    BY Fields DEF WholeOf
<1>2. Known = Task
    BY <1>1 DEF Known
<1>3. \A t \in Task : CountOf(t) = Batches
    BY <1>1, CountBatches
<1> QED
    BY <1>1, <1>2, <1>3 DEF Warns

\* An upload is told that it is stored when it is.
LEMMA ToldWhenStored ==
    ASSUME TypeInv, doing = "upload", NEW s \in Final, todo = {CompleteAs(s, results)},
           There, ~spoiled, ~Warns(results), CompleteRun(s),
           RowsOfOneVersion, SentIsThere,
           told' = [version |-> results, status |-> s]
    PROVE  ToldIsStored'
<1>1. status' = s /\ uploaded' /\ UNCHANGED <<rows, object>>
      /\ \A t \in Known : taskRow'[t].finalized /\ vector'[t] = rows[t]
    BY CompletingHasEffects
<1>2. ASSUME results # 0, NEW t \in Task
      PROVE  /\ taskRow'[t].finalized
             /\ vector'[t] = [b \in Batch |-> results]
             /\ object'[t] = results
  <2>1. t \in Known /\ CountOf(t) = Batches /\ (file[t] # None => object[t] # 0)
    BY <1>2 DEF Warns
  <2>2. SentOf(t)
    BY <1>2 DEF SentIsThere
  <2>3. taskRow[t] # None /\ taskRow[t].content[1] = results
    BY <2>1, <2>2, Fields DEF SentOf, Known
  <2>4. object[t] = results
    BY <2>1, <2>2, Fields DEF SentOf
  <2>5. \A b \in Batch : rows[t][b] = results
    BY <2>1, <2>3, CountBatches DEF RowsOfOneVersion
  <2>6. rows[t] \in [Batch -> Version]
    BY TypeParts DEF Derived, ServiceType
  <2>7. rows[t] = [b \in Batch |-> results]
    BY <2>5, <2>6
  <2> QED
    BY <1>1, <2>1, <2>4, <2>7
<1>3. told'.version = results /\ told'.status = s
    OBVIOUS
<1> QED
    BY <1>1, <1>2, <1>3 DEF ToldIsStored

\* The end of an upload.
LEMMA CompletionKeeps ==
    ASSUME TypeInv, StoredInv, doing = "upload", NEW r \in todo, r.op = "complete", Answered(r)
    PROVE  StoredInv'
<1>1. LeftOf(todo, results) /\ told = None /\ session # 0
    BY Busy
<1>2. PICK s \in Final : todo = {r} /\ Rest(r) = {} /\ r = CompleteAs(s, results)
    BY <1>1, CompletionIsAlone DEF Answered
<1>3. r.version = results /\ r.status = s
    BY <1>2, Fields
<1>4. There /\ CompleteRun(s) /\ UNCHANGED <<results, spoiled, strayed, calm>>
    BY <1>3 DEF Answered, Refuses, Handles, directory, network
<1>5. /\ todo' = {} /\ doing' = "idle"
      /\ told' = IF ~spoiled /\ ~Warns(results) THEN [version |-> results, status |-> s] ELSE None
    BY <1>2, <1>3 DEF Answered, GoOn
<1>6. PlanKept'
    BY <1>5 DEF PlanKept
<1>7. ASSUME calm
      PROVE  told' # None
  <2>1. results # 0 /\ ~spoiled /\ \A t \in Task : WholeOf(t)
    BY <1>7 DEF StoredInv, CalmIsWhole
  <2>2. ~Warns(results)
    BY <1>2, <2>1, CalmIsNotWarned
  <2>3. [version |-> results, status |-> s] \in Success
    BY TypeParts DEF HistoryType, Success
  <2> QED
    BY <1>5, <2>1, <2>2, <2>3
<1>8. CalmIsWhole'
    BY <1>4, <1>5, <1>7 DEF CalmIsWhole
<1>9. ASSUME ~strayed
      PROVE  RowsOfOneVersion' /\ SentIsThere' /\ ToldIsStored'
  <2>1. RowsOfOneVersion /\ SentIsThere
    BY <1>9 DEF StoredInv
  <2>2. RowsOfOneVersion'
    BY <1>4, <2>1, CompletingHasEffects
  <2>3. SentIsThere'
    BY <1>5 DEF SentIsThere
  <2>4. CASE ~spoiled /\ ~Warns(results)
    <3>1. todo = {CompleteAs(s, results)} /\ told' = [version |-> results, status |-> s]
      BY <1>2, <1>5, <2>4
    <3>2. ToldIsStored'
      BY <1>4, <2>1, <2>4, <3>1, ToldWhenStored
    <3> QED
      BY <2>2, <2>3, <3>2
  <2>5. CASE ~(~spoiled /\ ~Warns(results))
    BY <1>5, <2>2, <2>3, <2>5 DEF ToldIsStored
  <2> QED
    BY <2>4, <2>5
<1> QED
    BY <1>4, <1>6, <1>8, <1>9 DEF StoredInv

\* A task result that is skipped as unchanged has all its rows.
LEMMA UnchangedIsWhole ==
    ASSUME TypeInv, NEW t \in Task, PostTask(t, results) \in todo,
           Answered(PostTask(t, results)), Unchanged(t, results)
    PROVE  \A b \in Batch : rows'[t][b] # 0
<1>1. UpsertTask(t, results)
    BY Fields DEF Answered, Handles
<1>2. UNCHANGED rows
    BY <1>1 DEF UpsertTask, service
<1>3. t \in Known /\ taskRow[t].stored = Batches
    BY DEF Unchanged, Known
<1>4. CountOf(t) = Batches
    BY <1>3, TypeParts DEF Derived, FinalizedMatchesRows
<1> QED
    BY <1>2, <1>4, CountBatches

\* No request but that of the task result itself takes a row away, and that of the
\* row stores it.
LEMMA StoredRows ==
    ASSUME TypeInv, LeftOf(todo, results), NEW r \in todo, Answered(r),
           NEW t \in Task, NEW b \in Batch, r # PostTask(t, results), results # 0
    PROVE  rows[t][b] # 0 \/ r = PostRows(t, b, results) => rows'[t][b] # 0
<1>1. results \in Version
    BY TypeParts DEF HistoryType
<1>2. rows \in [Task -> [Batch -> Version]]
    BY TypeParts DEF Derived, ServiceType
<1>3. CASE r.op \notin {"task", "rows"}
  <2>1. UNCHANGED rows
    BY <1>3 DEF Answered, Handles, UpsertRun, SignFiles, PutObject, CompleteRun
  <2> QED
    BY <1>3, <2>1, Fields
<1>4. CASE r.op = "task"
  <2>1. PICK u \in Task : r = PostTask(u, results)
    BY <1>4, KindsLeft, Fields
  <2>2. UpsertTask(u, results) /\ u # t
    BY <2>1, Fields DEF Answered, Handles
  <2>3. rows'[t] = rows[t]
    BY <1>1, <2>2, UpsertHasEffects
  <2> QED
    BY <1>4, <2>3, Fields
<1>5. CASE r.op = "rows"
  <2>1. PICK u \in Task, c \in Batch : r = PostRows(u, c, results)
    BY <1>5, KindsLeft, Fields
  <2>2. rows' = [rows EXCEPT ![u][c] = results]
    BY <2>1, Fields DEF Answered, Handles, AddRows
  <2>3. rows'[t][b] = IF u = t /\ c = b THEN results ELSE rows[t][b]
    BY <1>2, <2>2
  <2>4. r = PostRows(t, b, results) => u = t /\ c = b
    <3>1. r.task = u /\ r.batch = c
      BY <2>1, Fields
    <3>2. PostRows(t, b, results).task = t /\ PostRows(t, b, results).batch = b
      BY Fields
    <3> QED
      BY <3>1, <3>2
  <2> QED
    BY <2>3, <2>4
<1> QED
    BY <1>3, <1>4, <1>5

\* Any other request of an upload.
LEMMA RequestKeeps ==
    ASSUME TypeInv, StoredInv, doing = "upload", NEW r \in todo, r.op # "complete", Answered(r)
    PROVE  StoredInv'
<1>1. LeftOf(todo, results) /\ told = None /\ session # 0
    BY Busy
<1>2. Effects(r) /\ (strayed \/ RowsOfOneVersion')
    BY HandlingHasEffects DEF Answered
<1>3. LeftOf(Rest(r), results) /\ Rest(r) # {}
    BY <1>1, LeftAfterRequest DEF Answered, LeftOf
<1>4. /\ todo' = Rest(r) /\ doing' = "upload" /\ told' = None /\ session' = session
      /\ UNCHANGED <<results, spoiled, strayed, calm>>
    BY <1>3 DEF Answered, GoOn, directory, network
<1>5. PlanKept'
    BY <1>1, <1>3, <1>4 DEF PlanKept
<1>6. ToldIsStored'
    BY <1>4 DEF ToldIsStored
<1>7. /\ \A q \in todo : q # r /\ q.op # "put" => q \in todo'
      /\ r.op # "sign" => \A q \in todo : q # r => q \in todo'
    BY <1>4, Fields DEF Rest
<1>8. CASE r.op = "sign"
  <2>1. r = Sign(results) /\ results # 0 /\ results \in Version
    BY <1>1, <1>8, KindsLeft, Fields, TypeParts DEF HistoryType
  <2>2. SignFiles(results, Task) /\ There
    BY <1>8, <2>1, Fields DEF Answered, Handles, Refuses
  <2>3. /\ UNCHANGED <<status, taskRow, rows, object>>
        /\ \A t \in Task : file'[t] # None
    BY <2>1, <2>2, SigningHasEffects DEF SignFiles
  <2>4. ASSUME NEW t \in Task, PutFile(t, results) \notin todo'
        PROVE  object'[t] = results
    <3>1. PutFile(t, results) \in todo
      BY <1>1, <2>1 DEF LeftOf
    <3>2. PICK u \in Task : Stored(u, results) /\ PutFile(t, results) = PutFile(u, results)
      BY <1>4, <1>8, <2>1, <2>4, <3>1, Fields DEF Rest
    <3>3. u = t
      BY <3>2, Fields
    <3> QED
      BY <2>3, <3>2, <3>3 DEF Stored
  <2>5. \A t \in Task : PostTask(t, results) \in todo => PostTask(t, results) \in todo'
    BY <1>7, <1>8, Fields
  <2>6. \A t \in Task, b \in Batch :
            PostRows(t, b, results) \in todo => PostRows(t, b, results) \in todo'
    BY <1>7, <1>8, Fields
  <2>7. strayed \/ SentIsThere'
    BY <1>2, <1>4, <2>3, <2>4, <2>5, Busy DEF SentIsThere, SentOf
  <2>8. CalmIsWhole'
    <3>1. There'
      BY <2>2, <2>3 DEF There
    <3>2. ASSUME calm, NEW t \in Task
          PROVE  WholeOf(t)'
      <4>1. WholeOf(t)
        BY <3>2 DEF StoredInv, CalmIsWhole
      <4> QED
        BY <1>4, <2>3, <2>4, <2>5, <2>6, <4>1 DEF WholeOf
    <3> QED
      BY <1>4, <2>1, <3>1, <3>2 DEF StoredInv, CalmIsWhole
  <2> QED
    BY <1>2, <1>4, <1>5, <1>6, <2>7, <2>8 DEF StoredInv
<1>9. CASE r.op # "sign"
  <2>1. Sign(results) \in todo => Sign(results) \in todo'
    BY <1>7, <1>9, Fields
  <2>2. ASSUME NEW t \in Task, results # 0
        PROVE  \/ PostTask(t, results) \notin todo
               \/ PostTask(t, results) \in todo'
               \/ /\ r = PostTask(t, results)
                  /\ taskRow'[t] # None /\ taskRow'[t].content[1] = results
    <3>1. CASE r = PostTask(t, results)
      <4>1. UpsertTask(t, results) /\ results \in Version
        BY <3>1, Fields, TypeParts DEF Answered, Handles, HistoryType
      <4> QED
        BY <3>1, <4>1, UpsertHasEffects
    <3>2. CASE r # PostTask(t, results)
      BY <1>7, <1>9, <3>2
    <3> QED
      BY <3>1, <3>2
  <2>3. ASSUME NEW t \in Task, results # 0
        PROVE  \/ PutFile(t, results) \notin todo
               \/ PutFile(t, results) \in todo'
               \/ object'[t] = results
    <3>1. CASE r = PutFile(t, results)
      <4>1. PutObject(t, results)
        BY <3>1, Fields DEF Answered, Handles
      <4>2. object \in [Task -> Version]
        BY TypeParts DEF Derived, ServiceType
      <4> QED
        BY <4>1, <4>2 DEF PutObject
    <3>2. CASE r # PutFile(t, results)
      BY <1>7, <1>9, <3>2
    <3> QED
      BY <3>1, <3>2
  <2>4. strayed \/ SentIsThere'
    <3>1. ASSUME ~strayed, results # 0, NEW t \in Task
          PROVE  SentOf(t)'
      <4>1. SentOf(t)
        BY <3>1, Busy
      <4> QED
        BY <1>1, <1>2, <1>4, <2>1, <2>2, <2>3, <3>1, <4>1, SentKept
    <3> QED
      BY <1>4, <3>1 DEF SentIsThere
  <2>5. ASSUME calm
        PROVE  /\ There' \/ \E s \in Final : PutRun(s) \in todo'
               /\ \A t \in Task : WholeOf(t)'
    <3>1. /\ results # 0 /\ ~spoiled /\ \A t \in Task : WholeOf(t)
          /\ There \/ \E s \in Final : PutRun(s) \in todo
      BY <2>5 DEF StoredInv, CalmIsWhole
    <3>2. There' \/ \E s \in Final : PutRun(s) \in todo'
      <4>1. CASE r.op = "run"
        <5>1. status' # "none"
          BY <1>1, <4>1, KindsLeft, Fields DEF Answered, Handles, UpsertRun, PutRun, Request, Final, Unfinished
        <5> QED
          BY <5>1 DEF There
      <4>2. CASE r.op # "run"
        <5>1. UNCHANGED status
          BY <1>9, <4>2 DEF Answered, Handles, PutObject, UpsertTask, AddRows, service
        <5>2. \A s \in Final : PutRun(s) \in todo => PutRun(s) \in todo'
          BY <1>7, <1>9, <4>2, Fields
        <5> QED
          BY <3>1, <5>1, <5>2 DEF There
      <4> QED
        BY <4>1, <4>2
    <3>3. ASSUME NEW t \in Task
          PROVE  WholeOf(t)'
      <4>1. ASSUME Sign(results) \notin todo', PutFile(t, results) \notin todo'
            PROVE  object'[t] = results
        BY <1>2, <2>1, <2>3, <3>1, <4>1 DEF WholeOf, Effects
      <4>2. ASSUME PostTask(t, results) \notin todo'
            PROVE  taskRow'[t] # None
        BY <1>2, <2>2, <3>1, <4>2 DEF WholeOf, Effects
      <4>3. ASSUME PostTask(t, results) \notin todo', NEW b \in Batch
            PROVE  PostRows(t, b, results) \in todo' \/ rows'[t][b] # 0
        <5>1. CASE r = PostTask(t, results)
          <6>1. CASE Unchanged(t, results)
            BY <4>3, <5>1, <6>1, UnchangedIsWhole
          <6>2. CASE ~Unchanged(t, results)
            BY <1>4, <5>1, <6>2, Fields DEF Rest
          <6> QED
            BY <6>1, <6>2
        <5>2. CASE r # PostTask(t, results)
          <6>1. PostTask(t, results) \notin todo
            BY <1>7, <1>9, <4>3, <5>2
          <6>2. PostRows(t, b, results) \in todo \/ rows[t][b] # 0
            BY <3>1, <6>1 DEF WholeOf
          <6>3. CASE r = PostRows(t, b, results)
            BY <1>1, <3>1, <5>2, <6>3, StoredRows
          <6>4. CASE r # PostRows(t, b, results) /\ PostRows(t, b, results) \in todo
            BY <1>7, <1>9, <6>4
          <6>5. CASE rows[t][b] # 0
            BY <1>1, <3>1, <5>2, <6>5, StoredRows
          <6> QED
            BY <6>2, <6>3, <6>4, <6>5
        <5> QED
          BY <5>1, <5>2
      <4> QED
        BY <1>4, <4>1, <4>2, <4>3 DEF WholeOf
    <3> QED
      BY <3>2, <3>3
  <2>6. CalmIsWhole'
    BY <1>4, <2>5 DEF StoredInv, CalmIsWhole
  <2> QED
    BY <1>2, <1>4, <1>5, <1>6, <2>4, <2>6 DEF StoredInv
<1> QED
    BY <1>8, <1>9

\* Registering and reporting.
LEMMA ReportKeeps ==
    ASSUME TypeInv, StoredInv, doing # "upload", NEW r \in todo, Answered(r)
    PROVE  StoredInv'
<1>1. /\ doing \in {"start", "report"} /\ r.op \in {"run", "complete"} /\ ~calm /\ ~spoiled
      /\ told = None /\ session # 0
    BY Busy
<1>2. strayed \/ RowsOfOneVersion'
    BY HandlingHasEffects DEF Answered
<1>3. /\ todo' = todo \ {r} /\ told' = None /\ session' = session
      /\ doing' = IF todo' # {} THEN doing ELSE IF doing = "start" THEN "run" ELSE "idle"
      /\ UNCHANGED <<results, spoiled, strayed, calm>>
    BY <1>1 DEF Answered, GoOn, Rest, directory, network
<1>4. PlanKept'
    BY <1>1, <1>3 DEF StoredInv, PlanKept
<1>5. CalmIsWhole' /\ SentIsThere' /\ ToldIsStored'
    BY <1>1, <1>3 DEF CalmIsWhole, SentIsThere, ToldIsStored
<1> QED
    BY <1>2, <1>3, <1>4, <1>5 DEF StoredInv

\* Doing nothing has no effects.
LEMMA NothingHasEffects ==
    ASSUME StoredInv, UNCHANGED service, NEW r
    PROVE  Effects(r) /\ (strayed \/ RowsOfOneVersion')
BY DEF StoredInv, Effects, RowsOfOneVersion, There, service

\* What is left behind has the effects of a request that was handled, or none.
LEMMA LeavingBehindHasEffects ==
    ASSUME TypeInv, StoredInv, NEW r \in todo, LeftBehind(r)
    PROVE  Effects(r) /\ (strayed \/ RowsOfOneVersion')
BY HandlingHasEffects, NothingHasEffects DEF LeftBehind

\* An undisturbed upload is not refused.
LEMMA CalmIsNotRefused ==
    ASSUME TypeInv, StoredInv, NEW r \in todo, Due(r), Refuses(r)
    PROVE  ~calm
<1> SUFFICES ASSUME calm PROVE FALSE
    OBVIOUS
<1>1. doing = "upload" /\ LeftOf(todo, results)
    BY Busy
<1>2. /\ There \/ \E s \in Final : PutRun(s) \in todo
      /\ results # 0 /\ \A t \in Task : WholeOf(t)
    BY <1>1 DEF StoredInv, CalmIsWhole
<1>3. CASE r.op \in {"sign", "task", "complete"} /\ ~There
    BY <1>2, <1>3, DueIsFirst, Fields
<1>4. CASE r.op = "rows" /\ taskRow[r.task] = None
  <2>1. PICK t \in Task, b \in Batch : r = PostRows(t, b, results)
    BY <1>1, <1>4, KindsLeft, Fields
  <2>2. PostTask(t, results) \notin todo
    BY <1>1, <2>1 DEF LeftOf
  <2> QED
    BY <1>2, <1>4, <2>1, <2>2, Fields DEF WholeOf
<1> QED
    BY <1>3, <1>4 DEF Refuses

-----------------------------------------------------------------------------
(* The invariant holds.                                                    *)

LEMMA InitIsStored == Init => StoredInv
<1> SUFFICES ASSUME Init PROVE StoredInv
    OBVIOUS
<1>1. PlanKept /\ CalmIsWhole
    BY DEF Init, PlanKept, CalmIsWhole
<1>2. RowsOfOneVersion /\ SentIsThere /\ ToldIsStored
    BY DEF Init, RowsOfOneVersion, SentIsThere, ToldIsStored
<1> QED
    BY <1>1, <1>2 DEF StoredInv

\* A step that begins a session, or the upload of its results.
LEMMA BeginningKeeps ==
    ASSUME TypeInv, StoredInv, session' # 0, told' = None, ~spoiled', UNCHANGED <<service, strayed>>,
           \/ /\ doing' \in {"start", "report"} /\ ~calm'
              /\ \A r \in todo' : r.op \in {"run", "complete"}
           \/ doing' = "run" /\ todo' = {} /\ ~calm'
           \/ /\ doing' = "upload" /\ (calm' => results' # 0)
              /\ \E s \in Final : todo' = PlanOf(results', s)
    PROVE  StoredInv'
<1>1. RowsOfOneVersion => RowsOfOneVersion'
    BY DEF RowsOfOneVersion, service
<1>2. ToldIsStored'
    BY DEF ToldIsStored
<1>3. CASE doing' # "upload"
  <2>1. PlanKept'
    BY <1>3 DEF PlanKept
  <2>2. CalmIsWhole' /\ SentIsThere'
    BY <1>3 DEF CalmIsWhole, SentIsThere
  <2> QED
    BY <1>1, <1>2, <2>1, <2>2 DEF StoredInv
<1>4. CASE doing' = "upload"
  <2>1. PICK s \in Final : todo' = PlanOf(results', s)
    BY <1>4
  <2>2. /\ LeftOf(todo', results')
        /\ results' # 0 => /\ PutRun(s) \in todo' /\ Sign(results') \in todo'
                           /\ \A t \in Task : PostTask(t, results') \in todo'
    BY <2>1, PlanIsLeft
  <2>3. PlanKept'
    BY <1>4, <2>2 DEF PlanKept
  <2>4. CalmIsWhole'
    BY <1>4, <2>2 DEF CalmIsWhole, WholeOf
  <2>5. SentIsThere'
    BY <2>2 DEF SentIsThere, SentOf
  <2> QED
    BY <1>1, <1>2, <2>3, <2>4, <2>5 DEF StoredInv
<1> QED
    BY <1>3, <1>4

\* Every step keeps the invariant.
LEMMA StepIsStored ==
    TypeInv /\ StoredInv /\ [Next]_vars => StoredInv'
<1> SUFFICES ASSUME TypeInv, StoredInv, [Next]_vars
             PROVE  StoredInv'
    OBVIOUS
<1>a. session \in Nat /\ (doing # "idle" => session # 0 /\ told = None)
    BY TypeParts DEF SessionType, Version, StoredInv, PlanKept
<1>1. CASE StartRun
    BY <1>1, <1>a, BeginningKeeps, Fields DEF StartRun, Begin, network
<1>2. CASE StartUpload
  <2>1. PICK s \in Final : Begin("upload", PlanOf(results, s))
    BY <1>2, TypeParts DEF StartUpload, HistoryType, Final, Unfinished
  <2>2. (calm' => results # 0) /\ UNCHANGED <<results, service, strayed>>
    BY <1>2 DEF StartUpload, directory, network
  <2> QED
    BY <1>a, <2>1, <2>2, BeginningKeeps DEF Begin
<1>3. CASE WriteMetrics
  <2>1. ~spoiled /\ ~calm /\ todo = {}
    BY <1>3 DEF WriteMetrics, StoredInv, PlanKept, CalmIsWhole
  <2> QED
    BY <1>3, <1>a, <2>1, BeginningKeeps DEF WriteMetrics, client, network
<1>4. ASSUME NEW s \in Final \cup Unfinished, NEW what, NEW requests, Ends(s, what, requests),
             \/ what = "upload" /\ results # 0 /\ \E f \in Final : requests = PlanOf(results, f)
             \/ what = "report" /\ \A r \in requests : r.op \in {"run", "complete"}
      PROVE  StoredInv'
  <2>1. ~spoiled /\ session # 0 /\ told = None
    BY <1>4, <1>a DEF Ends, StoredInv, PlanKept
  <2>2. /\ doing' = what /\ todo' = requests /\ calm' = (what = "upload")
        /\ UNCHANGED <<results, session, spoiled, told, service, strayed>>
    BY <1>4 DEF Ends, network
  <2> QED
    BY <1>4, <2>1, <2>2, BeginningKeeps
<1>5. ASSUME NEW s \in Final, Finish(s)
      PROVE  StoredInv'
    BY <1>4, <1>5, <1>a DEF Finish, Ends
<1>6. CASE MarkFailed
  <2>1. \A r \in PlanOf(0, "failed") : r.op \in {"run", "complete"}
    BY Fields DEF PlanOf
  <2> QED
    BY <1>4, <1>6, <2>1 DEF MarkFailed, Final
<1>7. CASE MarkInterrupted
    BY <1>4, <1>7, Fields DEF MarkInterrupted, Unfinished
<1>8. ASSUME NEW r \in todo, Answered(r)
      PROVE  StoredInv'
    BY <1>8, ReportKeeps, CompletionKeeps, RequestKeeps
<1>9. ASSUME NEW r \in todo, Refused(r)
      PROVE  StoredInv'
  <2>1. Effects(r) /\ (strayed \/ RowsOfOneVersion')
    BY <1>9, NothingHasEffects DEF Refused
  <2>2. ~calm' /\ Due(r) /\ Fails(r) /\ UNCHANGED <<results, strayed>>
    BY <1>9, CalmIsNotRefused DEF Refused, directory, network
  <2> QED
    BY <2>1, <2>2, DisturbedKeeps
<1>10. ASSUME NEW r \in todo, Retry(r)
       PROVE  StoredInv'
  <2>1. ~calm' /\ Due(r) /\ LeftBehind(r) /\ UNCHANGED client /\ UNCHANGED <<results, strayed>>
    BY <1>10 DEF Retry, Fault, directory
  <2> QED
    BY <2>1, LeavingBehindHasEffects, DisturbedKeeps
<1>11. ASSUME NEW r \in todo, GiveUp(r)
       PROVE  StoredInv'
  <2>1. ~calm' /\ Due(r) /\ LeftBehind(r) /\ Fails(r) /\ UNCHANGED <<results, strayed>>
    BY <1>11 DEF GiveUp, Fault, directory
  <2> QED
    BY <2>1, LeavingBehindHasEffects, DisturbedKeeps
<1>12. ASSUME NEW r \in todo, Resign(r)
       PROVE  StoredInv'
  <2>1. /\ ~calm' /\ Due(r) /\ r.op = "put" /\ SignFiles(r.version, {r.task})
        /\ UNCHANGED <<results, strayed, spoiled>>
    BY <1>12 DEF Resign, Fault, directory, network
  <2>2. r.version \in Version /\ UNCHANGED object
    BY <2>1, TypeParts, RequestKinds DEF SessionType, SoundRequests, SignFiles
  <2>3. Effects(r) /\ (strayed \/ RowsOfOneVersion')
    BY <2>1, <2>2, SigningHasEffects DEF StoredInv
  <2>4. \/ object[r.task] = r.version /\ GoOn(todo \ {r}, FALSE, None)
        \/ UNCHANGED client
    BY <1>12 DEF Resign, Stored
  <2> QED
    BY <2>1, <2>2, <2>3, <2>4, DisturbedKeeps
<1>13. CASE Kill
  <2>1. /\ ~calm' /\ doing' = "idle" /\ todo' = {} /\ UNCHANGED <<session, spoiled, told, results, strayed>>
        /\ told = None
    BY <1>13, <1>a DEF Kill, Fault, directory
  <2>2. strayed \/ RowsOfOneVersion'
    <3>1. CASE \E r \in todo : Due(r) /\ LeftBehind(r)
      BY <3>1, LeavingBehindHasEffects
    <3>2. CASE UNCHANGED service
      BY <3>2, NothingHasEffects
    <3> QED
      BY <1>13, <3>1, <3>2 DEF Kill
  <2>3. PlanKept' /\ CalmIsWhole' /\ SentIsThere' /\ ToldIsStored'
    BY <2>1 DEF PlanKept, CalmIsWhole, SentIsThere, ToldIsStored
  <2> QED
    BY <2>1, <2>2, <2>3 DEF StoredInv
<1>14. ASSUME NEW r \in late, Arrives(r)
       PROVE  StoredInv'
  <2>1. strayed' /\ ~calm' /\ UNCHANGED client /\ UNCHANGED results
    BY <1>14 DEF Arrives, directory
  <2>2. PlanKept'
    BY <2>1 DEF StoredInv, PlanKept, client
  <2> QED
    BY <2>1, <2>2 DEF StoredInv, CalmIsWhole
<1>15. CASE DeleteRun
  <2>1. /\ ~calm' /\ told' = None /\ object' = [t \in Task |-> 0]
        /\ UNCHANGED <<results, session, doing, spoiled, strayed, todo>>
        /\ \/ UNCHANGED <<status, taskRow, rows, file>>
           \/ status' = "none" /\ taskRow' = [t \in Task |-> None]
    BY <1>15 DEF DeleteRun, Fault, directory
  <2>2. PlanKept' /\ CalmIsWhole' /\ ToldIsStored'
    BY <2>1 DEF StoredInv, PlanKept, CalmIsWhole, ToldIsStored
  <2>3. RowsOfOneVersion => RowsOfOneVersion'
    BY <2>1 DEF RowsOfOneVersion
  <2>4. SentIsThere => SentIsThere'
    BY <2>1 DEF SentIsThere, SentOf, There
  <2> QED
    BY <2>1, <2>2, <2>3, <2>4 DEF StoredInv
<1>16. CASE UNCHANGED vars
  <2>1. UNCHANGED <<doing, todo, spoiled, session, told, results, calm, strayed, status, uploaded,
                    taskRow, rows, vector, file, object>>
    BY <1>16 DEF vars, directory, client, network, service
  <2>2. PlanKept' /\ CalmIsWhole'
    BY <2>1 DEF StoredInv, PlanKept, CalmIsWhole, WholeOf, There
  <2>3. /\ RowsOfOneVersion => RowsOfOneVersion'
        /\ SentIsThere => SentIsThere'
        /\ ToldIsStored => ToldIsStored'
    BY <2>1 DEF RowsOfOneVersion, SentIsThere, SentOf, ToldIsStored, There
  <2> QED
    BY <2>1, <2>2, <2>3 DEF StoredInv
<1> QED
    BY <1>1, <1>2, <1>3, <1>5, <1>6, <1>7, <1>8, <1>9, <1>10, <1>11, <1>12, <1>13, <1>14, <1>15,
       <1>16 DEF Next

\* An upload that nothing disturbs is told that it is stored, and one that is told
\* so is: the run has its status, every task result is finalized with all its
\* instances and its file is this version's, however its requests were retried
\* and whatever was interrupted before it (_send, sign_artifacts, upsert_task,
\* add_instances, complete_run).
THEOREM UploadIsStored == Spec => []UploadStores
<1>1. Init => TypeInv /\ StoredInv
    BY InitIsTyped, InitIsStored
<1>2. TypeInv /\ StoredInv /\ [Next]_vars => TypeInv' /\ StoredInv'
    BY StepIsTyped, StepIsStored
<1>3. StoredInv => UploadStores
    BY DEF StoredInv, CalmIsWhole, UploadStores
<1> QED
    BY <1>1, <1>2, <1>3, PTL DEF Spec

=============================================================================
