--------------------------- MODULE ResultsUpload ---------------------------
(***************************************************************************)
(* The upload of a run's results directory (upload/uploader.py) to the     *)
(* ingest service (dashboard/api/.../services/ingest.py), followed through *)
(* the processes that work on one run ID: runs that register their start,  *)
(* report that they were interrupted or failed, or upload what they        *)
(* finished, and `olmo-eval results upload` afterwards.  A session is one  *)
(* such process; sessions follow one another.                              *)
(*                                                                         *)
(* A request is retried when its connection fails or times out             *)
(* (upload/client.py).  The service handles each request in one            *)
(* transaction: one step here.  All but sign_artifacts hold the lock of    *)
(* the run's or the task result's row meanwhile; what that one looked up   *)
(* goes into a single upsert.  Results are versions: those of session n    *)
(* have version n.                                                         *)
(***************************************************************************)
EXTENDS Integers, FiniteSets

CONSTANTS Task, None,
          Batches,      \* batches of instance rows of a task
          MaxSessions,  \* bound
          MaxFaults     \* bound: lost requests and replies, kills, deletions

Final == {"complete", "failed"}        \* "partial" is as "complete"
Unfinished == {"running", "interrupted"}
Version == 0..MaxSessions              \* 0: none
Batch == 1..Batches
NoRows == [b \in Batch |-> 0]

\* A task result and an artifact as they are stored, and what a session is told.
TaskResult == [content : Version \X Version, stored : 0..Batches, finalized : BOOLEAN]
Artifact == [version : Version, uploaded : BOOLEAN]
Success == [version : Version, status : Final]

ASSUME UploadAssumption ==
    /\ None \notin Task \cup TaskResult \cup Artifact \cup Success
    /\ Batches \in Nat \ {0}
    /\ MaxSessions \in Nat \ {0}
    /\ MaxFaults \in Nat

VARIABLES
    manifest, results,                  \* of the directory: the run's status, the version of its results
    session, doing, todo, spoiled, told, \* of the session
    late,                               \* requests given up by their sender and not yet handled
    strayed,                            \* history: one of those was handled
    calm,                               \* history: nothing disturbed the upload of results
    status, uploaded,                   \* the row of the run
    taskRow, rows, vector,              \* task results, their instances, their score vectors
    file, object,                       \* artifact rows and the objects in storage
    faults

directory == <<manifest, results>>
client == <<session, doing, todo, spoiled, told>>
service == <<status, uploaded, taskRow, rows, vector, file, object>>
network == <<late, strayed>>
vars == <<directory, client, network, service, calm, faults>>

-----------------------------------------------------------------------------
\* The requests of the protocol; a field that does not apply is None or 0.
Request(op, t, b, v, s) == [op |-> op, task |-> t, batch |-> b, version |-> v, status |-> s]
PutRun(s) == Request("run", None, 0, 0, s)
Sign(v) == Request("sign", None, 0, v, None)
PutFile(t, v) == Request("put", t, 0, v, None)
PostTask(t, v) == Request("task", t, 0, v, None)
PostRows(t, b, v) == Request("rows", t, b, v, None)
CompleteAs(s, v) == Request("complete", None, 0, v, s)

Requests ==
    {PutRun(s) : s \in Final \cup Unfinished}
        \cup {Sign(v) : v \in Version}
        \cup {PutFile(t, v) : t \in Task, v \in Version}
        \cup {PostTask(t, v) : t \in Task, v \in Version}
        \cup {PostRows(t, b, v) : t \in Task, b \in Batch, v \in Version}
        \cup {CompleteAs(s, v) : s \in Final, v \in Version}

\* What _send has to do for the results of a version, and in which order: the
\* rows of a task result follow it, before the next.
PlanOf(v, s) ==
    {PutRun(s), CompleteAs(s, v)} \cup
        IF v = 0 THEN {}
        ELSE {Sign(v)} \cup {PutFile(t, v) : t \in Task} \cup {PostTask(t, v) : t \in Task}

Place == [run |-> 1, sign |-> 2, put |-> 3, rows |-> 4, task |-> 5, complete |-> 6]
Due(r) ==
    /\ r \in todo
    /\ \A q \in todo : Place[r.op] <= Place[q.op] /\ (q.op = "rows" => r.batch <= q.batch)

Init ==
    /\ manifest = "none" /\ results = 0
    /\ session = 0 /\ doing = "idle" /\ todo = {} /\ spoiled = FALSE /\ told = None
    /\ late = {} /\ strayed = FALSE /\ calm = FALSE
    /\ status = "none" /\ uploaded = FALSE
    /\ taskRow = [t \in Task |-> None]
    /\ rows = [t \in Task |-> NoRows]
    /\ vector = [t \in Task |-> NoRows]
    /\ file = [t \in Task |-> None]
    /\ object = [t \in Task |-> 0]
    /\ faults = 0

-----------------------------------------------------------------------------
(* The service.                                                            *)

There == status # "none"

\* upsert_run: a final status is never replaced by an unfinished one.
UpsertRun(s) ==
    /\ status' = IF status \in Final /\ s \in Unfinished THEN status ELSE s
    /\ UNCHANGED <<uploaded, taskRow, rows, vector, file, object>>

\* sign_artifacts: what is stored with the same checksum is skipped.
Stored(t, v) == object[t] = v
SignFiles(v, tasks) ==
    /\ file' = [t \in Task |-> IF t \in tasks THEN [version |-> v, uploaded |-> Stored(t, v)]
                               ELSE file[t]]
    /\ UNCHANGED <<status, uploaded, taskRow, rows, vector, object>>

PutObject(t, v) ==
    /\ object' = [object EXCEPT ![t] = v]
    /\ UNCHANGED <<status, uploaded, taskRow, rows, vector, file>>

\* The content of a task result: what the request says and the checksum of its file.
Content(t, v) == <<v, IF file[t] = None THEN 0 ELSE file[t].version>>

UnchangedIfFinalized(t, v) ==      \* bug: finalized is taken for complete
    /\ taskRow[t] # None
    /\ taskRow[t].finalized /\ taskRow[t].content = Content(t, v)
Unchanged(t, v) ==
    /\ taskRow[t] # None
    /\ taskRow[t].finalized /\ taskRow[t].content = Content(t, v)
    /\ taskRow[t].stored = Batches

UpsertTask(t, v) ==
    IF Unchanged(t, v) THEN UNCHANGED service
    ELSE /\ taskRow' = [taskRow EXCEPT ![t] =
                            [content |-> Content(t, v), stored |-> 0, finalized |-> FALSE]]
         /\ rows' = [rows EXCEPT ![t] = NoRows]
         /\ vector' = [vector EXCEPT ![t] = NoRows]
         /\ UNCHANGED <<status, uploaded, file, object>>

\* add_instances: the rows of a batch are counted when they are inserted, not
\* when they are updated, and the task result has to be finalized again.
Inserted(t, b) == IF rows[t][b] = 0 THEN 1 ELSE 0

AddedFinalized(row, n) == [row EXCEPT !.stored = @ + n]   \* bug: a finalized result stays so
Added(row, n) == [row EXCEPT !.stored = @ + n, !.finalized = FALSE]

AddRows(t, b, v) ==
    /\ taskRow' = [taskRow EXCEPT ![t] = Added(@, Inserted(t, b))]
    /\ rows' = [rows EXCEPT ![t][b] = v]
    /\ UNCHANGED <<status, uploaded, vector, file, object>>

CountOf(t) == Cardinality({b \in Batch : rows[t][b] # 0})
Known == {t \in Task : taskRow[t] # None}

\* complete_run: every derived value is computed again from the rows.
CompleteRun(s) ==
    /\ taskRow' = [t \in Task |-> IF t \in Known
                                  THEN [taskRow[t] EXCEPT !.stored = CountOf(t), !.finalized = TRUE]
                                  ELSE None]
    /\ vector' = [t \in Task |-> IF t \in Known THEN rows[t] ELSE vector[t]]
    /\ file' = [t \in Task |-> IF file[t] = None THEN None
                               ELSE [file[t] EXCEPT !.uploaded = object[t] # 0]]
    /\ status' = s
    /\ uploaded' = TRUE
    /\ UNCHANGED <<rows, object>>

\* Its warnings: task results, instances or artifacts are missing.
Warns(v) ==
    \/ Known # IF v = 0 THEN {} ELSE Task
    \/ \E t \in Known : CountOf(t) # Batches
    \/ \E t \in Task : file[t] # None /\ object[t] = 0

Handles(r) ==
    \/ r.op = "run" /\ UpsertRun(r.status)
    \/ r.op = "sign" /\ SignFiles(r.version, Task)
    \/ r.op = "put" /\ PutObject(r.task, r.version)
    \/ r.op = "task" /\ UpsertTask(r.task, r.version)
    \/ r.op = "rows" /\ AddRows(r.task, r.batch, r.version)
    \/ r.op = "complete" /\ CompleteRun(r.status)

\* 404: there is no such run, or no such task result.
Refuses(r) ==
    \/ r.op \in {"sign", "task", "complete"} /\ ~There
    \/ r.op = "rows" /\ taskRow[r.task] = None

-----------------------------------------------------------------------------
(* Sessions.                                                               *)

Fault == faults < MaxFaults /\ faults' = faults + 1 /\ calm' = FALSE

Begin(what, requests) ==
    /\ doing = "idle" /\ session < MaxSessions
    /\ session' = session + 1
    /\ doing' = what
    /\ todo' = requests
    /\ spoiled' = FALSE
    /\ told' = None

\* A run that starts, or continues one that stopped, registers.
StartRun ==
    /\ manifest \in {"none", "running", "interrupted", "failed"}
    /\ Begin("start", {PutRun("running")})
    /\ manifest' = "running"
    /\ calm' = FALSE
    /\ UNCHANGED <<results, network, service, faults>>

\* `results upload`: a run that did not finish gets the status its results support.
StartUpload ==
    /\ manifest # "none"
    /\ Begin("upload", PlanOf(results, CASE manifest \in Final -> manifest
                                         [] manifest \in Unfinished /\ results # 0 -> "complete"
                                         [] OTHER -> "failed"))
    /\ calm' = (results # 0)
    /\ UNCHANGED <<directory, network, service, faults>>

\* The run writes its results, and then how it ended, which it reports.
WriteMetrics ==
    /\ doing = "run"
    /\ results' = session
    /\ UNCHANGED <<manifest, client, network, service, calm, faults>>

Ends(s, what, requests) ==
    /\ doing = "run"
    /\ manifest' = s
    /\ doing' = what
    /\ todo' = requests
    /\ calm' = (what = "upload")
    /\ UNCHANGED <<results, session, spoiled, told, network, service, faults>>

Finish(s) == results = session /\ Ends(s, "upload", PlanOf(session, s))
MarkFailed == Ends("failed", "report", PlanOf(0, "failed"))
MarkInterrupted == Ends("interrupted", "report", {PutRun("interrupted")})

\* The session goes on with what is left to do, or is over.
GoOn(rest, ok, done) ==
    /\ todo' = rest
    /\ doing' = IF rest # {} THEN doing ELSE IF doing = "start" THEN "run" ELSE "idle"
    /\ told' = IF rest = {} /\ doing = "upload" /\ ok THEN done ELSE None
    /\ UNCHANGED session

\* Stored files are not sent, and a task result brings its rows unless it is unchanged.
Rest(r) ==
    CASE r.op = "sign" ->
            todo \ ({r} \cup {PutFile(t, r.version) : t \in {u \in Task : Stored(u, r.version)}})
      [] r.op = "task" /\ ~Unchanged(r.task, r.version) ->
            (todo \ {r}) \cup {PostRows(r.task, b, r.version) : b \in Batch}
      [] OTHER -> todo \ {r}

\* A request is handled and answered.  A session that uploaded everything and
\* was warned of nothing has been told that its results are stored.
Answered(r) ==
    /\ Due(r) /\ ~Refuses(r)
    /\ Handles(r)
    /\ GoOn(Rest(r), ~spoiled /\ r.op = "complete" /\ ~Warns(r.version),
            [version |-> r.version, status |-> r.status])
    /\ UNCHANGED <<directory, spoiled, network, calm, faults>>

\* A request fails: a file is left out, anything else is the end of the upload.
Fails(r) ==
    \/ r.op = "put" /\ spoiled' = TRUE /\ GoOn(todo \ {r}, FALSE, None)
    \/ r.op # "put" /\ UNCHANGED spoiled /\ GoOn({}, FALSE, None)

Refused(r) ==
    /\ Due(r) /\ Refuses(r)
    /\ Fails(r)
    /\ UNCHANGED <<directory, network, service, calm, faults>>

\* What becomes of a request nobody waits for any more: it was never handled,
\* it was handled and the answer is lost, or it is still under way.
LeftBehind(r) ==
    \/ UNCHANGED <<service, late>>
    \/ ~Refuses(r) /\ Handles(r) /\ UNCHANGED late
    \/ late' = late \cup {r} /\ UNCHANGED service

\* _with_retries: no answer, and the request is sent again.
Retry(r) ==
    /\ Due(r) /\ Fault
    /\ LeftBehind(r)
    /\ UNCHANGED <<directory, client, strayed>>

\* No answer to the last attempt, or the deadline has passed.
GiveUp(r) ==
    /\ Due(r) /\ Fault
    /\ LeftBehind(r)
    /\ Fails(r)
    /\ UNCHANGED <<directory, strayed>>

\* The signed URL has expired: the file is signed again.
Resign(r) ==
    /\ Due(r) /\ r.op = "put" /\ There /\ Fault
    /\ SignFiles(r.version, {r.task})
    /\ \/ Stored(r.task, r.version) /\ GoOn(todo \ {r}, FALSE, None)
       \/ ~Stored(r.task, r.version) /\ UNCHANGED client
    /\ UNCHANGED <<directory, spoiled, network>>

Kill ==
    /\ doing # "idle" /\ Fault
    /\ \/ \E r \in todo : Due(r) /\ LeftBehind(r)
       \/ UNCHANGED <<service, late>>
    /\ doing' = "idle"
    /\ todo' = {}
    /\ UNCHANGED <<directory, session, spoiled, told, strayed>>

\* A request that was left behind is handled, when its sender has gone on.
Arrives(r) ==
    /\ r \in late
    /\ late' = late \ {r}
    /\ strayed' = TRUE /\ calm' = FALSE
    /\ \/ Refuses(r) /\ UNCHANGED service
       \/ ~Refuses(r) /\ Handles(r)
    /\ UNCHANGED <<directory, client, faults>>

\* delete_run removes the objects and then the rows; it can fail in between.
\* The identifiers of the task results are not used again.
DeleteRun ==
    /\ There /\ Fault
    /\ object' = [t \in Task |-> 0]
    /\ \/ /\ status' = "none" /\ uploaded' = FALSE
          /\ taskRow' = [t \in Task |-> None]
          /\ rows' = [t \in Task |-> NoRows]
          /\ vector' = [t \in Task |-> NoRows]
          /\ file' = [t \in Task |-> None]
          /\ late' = {r \in late : r.op # "rows"}
          /\ todo' = todo
       \/ UNCHANGED <<status, uploaded, taskRow, rows, vector, file, late, todo>>
    /\ told' = None
    /\ UNCHANGED <<directory, session, doing, spoiled, strayed>>

Next ==
    \/ StartRun \/ StartUpload \/ WriteMetrics
    \/ \E s \in Final : Finish(s)
    \/ MarkFailed \/ MarkInterrupted
    \/ \E r \in todo : Answered(r) \/ Refused(r) \/ Retry(r) \/ GiveUp(r) \/ Resign(r)
    \/ Kill
    \/ \E r \in late : Arrives(r)
    \/ DeleteRun

Spec == Init /\ [][Next]_vars

-----------------------------------------------------------------------------
\* Every variable has its type.  A batch that is sent again is not counted again:
\* never more batches than there are (add_instances).
TypeOK ==
    /\ manifest \in {"none"} \cup Final \cup Unfinished
    /\ results \in Version
    /\ session \in Version
    /\ doing \in {"idle", "start", "run", "report", "upload"}
    /\ todo \subseteq Requests
    /\ late \subseteq Requests
    /\ spoiled \in BOOLEAN
    /\ told \in {None} \cup Success
    /\ status \in {"none"} \cup Final \cup Unfinished
    /\ uploaded \in BOOLEAN
    /\ taskRow \in [Task -> {None} \cup TaskResult]
    /\ rows \in [Task -> [Batch -> Version]]
    /\ vector \in [Task -> [Batch -> Version]]
    /\ file \in [Task -> {None} \cup Artifact]
    /\ object \in [Task -> Version]
    /\ strayed \in BOOLEAN /\ calm \in BOOLEAN
    /\ faults \in 0..MaxFaults

\* What the dashboard shows of a finalized task result is derived from the rows
\* stored now, and its count is their number, however requests were retried,
\* interrupted and mixed with those of another upload.
FinalizedMatchesRows ==
    \A t \in Known :
        /\ taskRow[t].stored = CountOf(t)
        /\ taskRow[t].finalized => vector[t] = rows[t]

\* The run has the status of the upload its session was told is stored, every
\* task result is finalized with all instances of this version, skipped as
\* unchanged or not, and its file is this version's.
ToldIsStored ==
    told # None =>
        /\ status = told.status /\ uploaded
        /\ told.version # 0 =>
              \A t \in Task :
                  /\ taskRow[t].finalized
                  /\ vector[t] = [b \in Batch |-> told.version]
                  /\ object[t] = told.version

\* An upload that nothing disturbs is told that it is stored, whatever was
\* interrupted, half done or reported before it; and an upload that is told so is
\* stored, however its requests were retried, as long as no request is handled
\* after its sender has gone on.
UploadStores ==
    /\ calm /\ doing = "idle" => told # None
    /\ strayed \/ ToldIsStored

\* "Every endpoint is idempotent, so the client may retry any request"
\* (dashboard/contract/ingest-types.ts): also when the first copy of a retried
\* request is handled after the second.
MayRetryAnyRequest == ToldIsStored

=============================================================================
