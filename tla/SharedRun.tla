----------------------------- MODULE SharedRun -----------------------------
(***************************************************************************)
(* The supervisor of a shared run: run_shared of launch/beaker/resume.py,  *)
(* with as much of the evaluation it starts (its child) as the directory   *)
(* both write shows.                                                       *)
(*                                                                         *)
(* One submission owns one directory on a shared volume.  Its jobs - the   *)
(* first one and its replacements - each run the supervisor once.  The     *)
(* supervisor takes an advisory lock (flock) on the directory, decides     *)
(* from the files whether this is a new run, one to resume or a finished   *)
(* one, starts the evaluation, and publishes its end.  The evaluation      *)
(* inherits the lock's descriptor: the lock is free only when the          *)
(* supervisor and its child are both gone.                                 *)
(*                                                                         *)
(* A job's supervisor, its evaluation or both may be killed between any    *)
(* two file operations, and so may a refresh of the files fail, MaxFaults  *)
(* times in all.  The volume's pruner removes any file that nobody wrote   *)
(* or refreshed for Retention ticks; a tick is longer than the interval    *)
(* of the supervisor's refresh, and no supervisor's start or end and no    *)
(* evaluation's reading of its progress spans one.                         *)
(* Once, while nobody works in the directory, a part of it may disappear   *)
(* before its time.                                                        *)
(***************************************************************************)
EXTENDS Integers, FiniteSets

CONSTANTS Job,        \* the jobs of one submission: attempts, at most one run each
          None,       \* no file, no job
          Work,       \* records the evaluation commits before it has its outputs
          Retention,  \* ticks a file survives untouched
          MaxTime,    \* bound: ticks
          MaxFaults   \* bound: kills and failed refreshes

File == {"session", "index", "segment", "result", "complete"}
Part == {"progress", "output"}      \* more than a file that may disappear
Session == [initialized : BOOLEAN, stream : BOOLEAN, completed : BOOLEAN]

ASSUME RunAssumption ==
    /\ None \notin Job \cup Session \cup (0..Work) \cup File \cup Part \cup {"partial"}
    /\ "partial" \notin Job
    /\ Work \in Nat \ {0}
    /\ Retention \in Nat \ {0}
    /\ MaxTime \in Nat
    /\ MaxFaults \in Nat

VARIABLES
    session,    \* session.json: what it says, or None
    output,     \* is there an output directory
    index,      \* index.json of the progress stream: records it names, or None
    saved,      \* records in the stream's segments
    locked,     \* .lock of the progress directory: the job whose child wrote it, or None
    result,     \* the outputs: None, "partial", or the job whose child wrote them whole
    complete,   \* complete.json: the outputs it has the checksums of, or None
    stamp,      \* modification time of the files
    receipt,    \* the status in /results/weka-resume.json, or None
    pc,         \* the supervisor of each job
    why,        \* why it refused to run, or None
    child,      \* the evaluation of each job
    published,  \* the records the running evaluation knows the index to name
    now, faults,
    pruned,     \* history: has the pruner removed a file
    damaged,    \* history: what disappeared before its time, or None
    durable,    \* history: the most records ever committed
    finished    \* history: the last step of the run's end that was written

volume == <<session, output, index, saved, locked, result, complete, stamp>>
history == <<pruned, damaged, durable, finished>>
vars == <<volume, receipt, pc, why, child, published, now, faults, history>>

-----------------------------------------------------------------------------
Before == {"opened", "output", "initialize", "check", "reclaim", "refresh", "announce", "launch"}
After == {"publish", "mark", "clear", "conclude", "receipt"}
Supervising == Before \cup {"waiting", "failing"} \cup After
SupervisorPc == Supervising \cup {"idle", "refused", "done", "dead"}

Live == {"starting", "loading", "inventory", "register", "recording", "writing"}
Recording == Live \ {"starting"}
Ended == {"ok", "interrupted", "failed"}
ChildPc == Live \cup Ended \cup {"none", "barred", "mismatch"}

Reason == {"expired", "session", "output", "changed", "completion", "stream"}

\* Every variable has its type.  However often it is resumed, an evaluation commits
\* each record once: never more than it has work for (ProgressStore._write_segment).
TypeOK ==
    /\ session \in Session \cup {None}
    /\ output \in BOOLEAN
    /\ index \in 0..Work \cup {None}
    /\ saved \in 0..Work
    /\ locked \in Job \cup {None}
    /\ result \in Job \cup {None, "partial"}
    /\ complete \in Job \cup {None, "partial"}
    /\ stamp \in [File -> 0..MaxTime]
    /\ receipt \in {None, "running", "complete", "interrupted", "failed"}
    /\ pc \in [Job -> SupervisorPc]
    /\ why \in [Job -> Reason \cup {None}]
    /\ child \in [Job -> ChildPc]
    /\ published \in 0..Work
    /\ now \in 0..MaxTime
    /\ faults \in 0..MaxFaults
    /\ durable \in 0..Work
    /\ pruned \in BOOLEAN
    /\ damaged \in {None} \cup File \cup Part
    /\ finished \in {"no", "published", "marked"}

Init ==
    /\ session = None
    /\ output = FALSE
    /\ index = None
    /\ saved = 0
    /\ locked = None
    /\ result = None
    /\ complete = None
    /\ stamp = [f \in File |-> 0]
    /\ receipt = None
    /\ pc = [j \in Job |-> "idle"]
    /\ why = [j \in Job |-> None]
    /\ child = [j \in Job |-> "none"]
    /\ published = 0
    /\ now = 0
    /\ faults = 0
    /\ durable = 0
    /\ pruned = FALSE
    /\ damaged = None
    /\ finished = "no"

-----------------------------------------------------------------------------
(* The outer lock.                                                         *)

HoldsWhenDead(j) ==      \* bug: a lock file, which a killed job leaves behind
    pc[j] \in Supervising \cup {"dead"} \/ child[j] \in Live
HoldsAlone(j) == pc[j] \in Supervising      \* bug: the child does not inherit the descriptor
Holds(j) == pc[j] \in Supervising \/ child[j] \in Live

Goto(j, from, to) == pc[j] = from /\ pc' = [pc EXCEPT ![j] = to]

Refuse(j, reason) ==
    /\ pc' = [pc EXCEPT ![j] = "refused"]
    /\ why' = [why EXCEPT ![j] = reason]

Touch(files) == stamp' = [f \in File |-> IF f \in files THEN now ELSE stamp[f]]

\* A job starts.  One that finds the lock taken ends without a trace and may
\* be started again.  Its /results holds the last job's receipt, or nothing.
Open(j) ==
    /\ Goto(j, "idle", "opened")
    /\ \A k \in Job : ~Holds(k)
    /\ receipt' \in {receipt, None}
    /\ UNCHANGED <<volume, why, child, published, now, faults, history>>

-----------------------------------------------------------------------------
(* The supervisor decides what the directory is.                           *)

Expired == now - stamp["session"] >= Retention

ReadSession(j) ==
    /\ pc[j] = "opened"
    /\ \/ session # None /\ Expired /\ Refuse(j, "expired") /\ UNCHANGED volume
       \/ /\ session # None /\ ~Expired
          /\ Goto(j, "opened", "output")
          /\ UNCHANGED <<volume, why>>
       \/ /\ session = None /\ (receipt # None \/ output)
          /\ Refuse(j, "session")
          /\ UNCHANGED volume
       \/ /\ session = None /\ receipt = None /\ ~output
          /\ session' = [initialized |-> FALSE, stream |-> FALSE, completed |-> FALSE]
          /\ Touch({"session"})
          /\ Goto(j, "opened", "output")
          /\ UNCHANGED <<output, index, saved, locked, result, complete, why>>
    /\ UNCHANGED <<receipt, child, published, now, faults, history>>

MakeOutput(j) ==
    /\ pc[j] = "output"
    /\ \/ session.initialized /\ ~output /\ Refuse(j, "output") /\ UNCHANGED output
       \/ /\ ~session.initialized \/ output
          /\ output' = TRUE
          /\ Goto(j, "output", "initialize")
          /\ UNCHANGED why
    /\ UNCHANGED <<session, index, saved, locked, result, complete, stamp,
                   receipt, child, published, now, faults, history>>

Initialize(j) ==
    /\ Goto(j, "initialize", "check")
    /\ IF session.initialized
       THEN UNCHANGED <<session, stamp>>
       ELSE /\ session' = [session EXCEPT !.initialized = TRUE]
            /\ Touch({"session"})
    /\ UNCHANGED <<output, index, saved, locked, result, complete,
                   receipt, why, child, published, now, faults, history>>

\* A finished run is only verified; an unfinished one must have its streams.
CheckWhenMarked(j) ==      \* bug: complete.json counts once the session says so
    /\ pc[j] = "check"
    /\ \/ /\ session.completed
          /\ \/ complete # result /\ Refuse(j, "changed") /\ UNCHANGED receipt
             \/ complete = result /\ receipt' = "complete" /\ Goto(j, "check", "done") /\ UNCHANGED why
       \/ ~session.completed /\ Goto(j, "check", "reclaim") /\ UNCHANGED <<receipt, why>>
    /\ UNCHANGED <<volume, child, published, now, faults, history>>

Check(j) ==
    /\ pc[j] = "check"
    /\ \/ /\ complete # None
          /\ \/ complete # result /\ Refuse(j, "changed") /\ UNCHANGED receipt
             \/ complete = result /\ receipt' = "complete" /\ Goto(j, "check", "done") /\ UNCHANGED why
       \/ /\ complete = None
          /\ \/ session.completed /\ Refuse(j, "completion")
             \/ ~session.completed /\ session.stream /\ index = None /\ Refuse(j, "stream")
             \/ /\ ~session.completed /\ (session.stream => index # None)
                /\ Goto(j, "check", "reclaim")
                /\ UNCHANGED why
          /\ UNCHANGED receipt
    /\ UNCHANGED <<volume, child, published, now, faults, history>>

\* The old writer is gone, so whatever lock is in the progress directory is stale.
ReclaimNothing(j) ==      \* bug: the stale lock stays
    /\ Goto(j, "reclaim", "refresh")
    /\ UNCHANGED <<volume, receipt, why, child, published, now, faults, history>>

Reclaim(j) ==
    /\ Goto(j, "reclaim", "refresh")
    /\ locked' = None
    /\ UNCHANGED <<session, output, index, saved, result, complete, stamp,
                   receipt, why, child, published, now, faults, history>>

Refresh(j) ==
    /\ Goto(j, "refresh", "announce")
    /\ Touch(File)
    /\ UNCHANGED <<session, output, index, saved, locked, result, complete,
                   receipt, why, child, published, now, faults, history>>

Announce(j) ==
    /\ Goto(j, "announce", "launch")
    /\ receipt' = "running"
    /\ UNCHANGED <<volume, why, child, published, now, faults, history>>

Launch(j) ==
    /\ Goto(j, "launch", "waiting")
    /\ child' = [child EXCEPT ![j] = "starting"]
    /\ UNCHANGED <<volume, receipt, why, published, now, faults, history>>

-----------------------------------------------------------------------------
(* The evaluation, as far as the directory shows it.                       *)

Child(j, from, to) == child[j] = from /\ child' = [child EXCEPT ![j] = to]

\* ProgressLock.acquire: the lock of another job cannot be checked here.
LockProgress(j) ==
    /\ \/ locked = None /\ locked' = j /\ Child(j, "starting", "loading")
       \/ locked # None /\ Child(j, "starting", "barred") /\ UNCHANGED locked
    /\ UNCHANGED <<session, output, index, saved, result, complete, stamp,
                   receipt, pc, why, published, now, faults, history>>

Named == IF index = None THEN 0 ELSE index

\* ProgressStore._segments: the index and the segments must agree.
Load(j) ==
    /\ \/ /\ saved = Named
          /\ Child(j, "loading", "inventory")
          /\ published' = saved
          /\ UNCHANGED locked
       \/ /\ saved # Named
          /\ Child(j, "loading", "mismatch")
          /\ locked' = None
          /\ UNCHANGED published
    /\ UNCHANGED <<session, output, index, saved, result, complete, stamp,
                   receipt, pc, why, now, faults, history>>

\* ProgressStore._initialize_inventory: an empty index, then its registration.
\* An index that named a segment and is gone is not made anew.
Recordable == index # None \/ published = 0

MakeIndex(j) ==
    /\ Child(j, "inventory", IF Recordable THEN "register" ELSE "recording")
    /\ IF index = None /\ Recordable
       THEN index' = 0 /\ Touch({"index"})
       ELSE UNCHANGED <<index, stamp>>
    /\ UNCHANGED <<session, output, saved, locked, result, complete,
                   receipt, pc, why, published, now, faults, history>>

Unregistered(j) ==      \* bug: the stream is never registered
    /\ Child(j, "register", "recording")
    /\ UNCHANGED <<volume, receipt, pc, why, published, now, faults, history>>

Register(j) ==
    /\ Child(j, "register", "recording")
    /\ IF session = None \/ session.stream
       THEN UNCHANGED <<session, stamp>>
       ELSE /\ session' = [session EXCEPT !.stream = TRUE]
            /\ Touch({"session"})
    /\ UNCHANGED <<output, index, saved, locked, result, complete,
                   receipt, pc, why, published, now, faults, history>>

\* A segment and the index that names it (ProgressStore has the steps between).
RecordOn(j) ==      \* bug: a record too many
    /\ child[j] = "recording" /\ Recordable
    /\ saved' = saved + 1
    /\ UNCHANGED <<session, output, index, locked, result, complete, stamp,
                   receipt, pc, why, child, published, now, faults, history>>

Record(j) ==
    /\ child[j] = "recording"
    /\ Recordable
    /\ published < Work
    /\ saved' = saved + 1
    /\ index' = published + 1
    /\ published' = published + 1
    /\ Touch(IF saved = 0 THEN {"index", "segment"} ELSE {"index"})
    /\ durable' = IF published < durable THEN durable ELSE published + 1
    /\ UNCHANGED <<session, output, locked, result, complete,
                   receipt, pc, why, child, now, faults, pruned, damaged, finished>>

WriteOutputs(j) ==
    /\ \/ child[j] = "recording" /\ (Recordable => published = Work) /\ result' = "partial" /\ Child(j, "recording", "writing")
       \/ child[j] = "writing" /\ result # j /\ result' = j /\ UNCHANGED child
    /\ Touch({"result"})
    /\ UNCHANGED <<session, output, index, saved, locked, complete,
                   receipt, pc, why, published, now, faults, history>>

\* The evaluation ends: its own lock goes, and its progress stays.
Unlocked(j) == IF locked = j THEN None ELSE locked

Succeed(j) ==
    /\ result = j
    /\ Child(j, "writing", "ok")
    /\ locked' = Unlocked(j)
    /\ UNCHANGED <<session, output, index, saved, result, complete, stamp,
                   receipt, pc, why, published, now, faults, history>>

Fault == faults < MaxFaults /\ faults' = faults + 1

\* An exception, or the signal the supervisor forwards.
Stop(j) ==
    /\ Fault
    /\ child[j] \in Live
    /\ \E end \in {"failed", "interrupted"} : child' = [child EXCEPT ![j] = end]
    /\ locked' = Unlocked(j)
    /\ UNCHANGED <<session, output, index, saved, result, complete, stamp,
                   receipt, pc, why, published, now, history>>

-----------------------------------------------------------------------------
(* The supervisor waits for the evaluation and publishes its end.          *)

\* A refresh fails: the evaluation is sent SIGTERM, whatever it has done.
FailRefresh(j) ==
    /\ Fault
    /\ Goto(j, "waiting", "failing")
    /\ IF child[j] \in Live
       THEN \E end \in {"ok", "interrupted"} :
               /\ end = "ok" => child[j] = "writing" /\ result = j
               /\ child' = [child EXCEPT ![j] = end]
               /\ locked' = Unlocked(j)
       ELSE UNCHANGED <<child, locked>>
    /\ UNCHANGED <<session, output, index, saved, result, complete, stamp,
                   receipt, why, published, now, history>>

Reap(j) ==
    /\ child[j] \notin Live
    /\ \/ Goto(j, "failing", "dead")
       \/ Goto(j, "waiting", IF child[j] = "ok" THEN "publish" ELSE "conclude")
    /\ UNCHANGED <<volume, receipt, why, child, published, now, faults, history>>

Publish(j) ==
    /\ Goto(j, "publish", "mark")
    /\ complete' = result
    /\ Touch({"complete"})
    /\ finished' = "published"
    /\ UNCHANGED <<session, output, index, saved, locked, result,
                   receipt, why, child, published, now, faults, pruned, damaged, durable>>

Mark(j) ==
    /\ Goto(j, "mark", "clear")
    /\ session' = [session EXCEPT !.completed = TRUE]
    /\ Touch({"session"})
    /\ finished' = "marked"
    /\ UNCHANGED <<output, index, saved, locked, result, complete,
                   receipt, why, child, published, now, faults, pruned, damaged, durable>>

\* shutil.rmtree removes the files of the progress directory one by one.
Clear(j) ==
    /\ pc[j] = "clear"
    /\ \/ index # None /\ index' = None /\ UNCHANGED <<saved, locked, pc>>
       \/ saved > 0 /\ saved' = saved - 1 /\ UNCHANGED <<index, locked, pc>>
       \/ locked # None /\ locked' = None /\ UNCHANGED <<index, saved, pc>>
       \/ /\ index = None /\ saved = 0 /\ locked = None
          /\ Goto(j, "clear", "conclude")
          /\ UNCHANGED <<index, saved, locked>>
    /\ UNCHANGED <<session, output, result, complete, stamp,
                   receipt, why, child, published, now, faults, history>>

Conclude(j) ==
    /\ Goto(j, "conclude", "receipt")
    /\ Touch(File)
    /\ UNCHANGED <<session, output, index, saved, locked, result, complete,
                   receipt, why, child, published, now, faults, history>>

Report(j) ==
    /\ Goto(j, "receipt", "done")
    /\ receipt' = CASE child[j] = "ok" -> "complete"
                    [] child[j] = "interrupted" -> "interrupted"
                    [] OTHER -> "failed"
    /\ UNCHANGED <<volume, why, child, published, now, faults, history>>

-----------------------------------------------------------------------------
(* The environment.                                                        *)

\* SIGKILL, or an exception in the supervisor.
KillSupervisor(j) ==
    /\ Fault
    /\ pc[j] \in Supervising
    /\ pc' = [pc EXCEPT ![j] = "dead"]
    /\ UNCHANGED <<volume, receipt, why, child, published, now, history>>

KillChild(j) ==
    /\ Fault
    /\ child[j] \in Live
    /\ child' = [child EXCEPT ![j] = "failed"]
    /\ UNCHANGED <<volume, receipt, pc, why, published, now, history>>

KillJob(j) ==
    /\ Fault
    /\ pc[j] \in Supervising /\ child[j] \in Live
    /\ pc' = [pc EXCEPT ![j] = "dead"]
    /\ child' = [child EXCEPT ![j] = "failed"]
    /\ UNCHANGED <<volume, receipt, why, published, now, history>>

\* Time passes: a supervisor that waits refreshes every file.
Tick ==
    /\ now < MaxTime
    /\ \A j \in Job : pc[j] \notin Before \cup After /\ child[j] \notin {"starting", "loading"}
    /\ now' = now + 1
    /\ stamp' = IF \E j \in Job : pc[j] = "waiting" THEN [f \in File |-> now + 1] ELSE stamp
    /\ UNCHANGED <<session, output, index, saved, locked, result, complete,
                   receipt, pc, why, child, published, faults, history>>

Exists(f) ==
    CASE f = "session" -> session # None
      [] f = "index" -> index # None
      [] f = "segment" -> saved > 0
      [] f = "result" -> result # None
      [] f = "complete" -> complete # None

Remove(files) ==
    /\ session' = IF "session" \in files THEN None ELSE session
    /\ index' = IF "index" \in files THEN None ELSE index
    /\ saved' = IF "segment" \in files THEN 0 ELSE saved
    /\ result' = IF "result" \in files THEN None ELSE result
    /\ complete' = IF "complete" \in files THEN None ELSE complete

Prune(f) ==
    /\ Exists(f)
    /\ now - stamp[f] >= Retention
    /\ Remove({f})
    /\ pruned' = TRUE
    /\ UNCHANGED <<output, locked, stamp,
                   receipt, pc, why, child, published, now, faults, damaged, durable, finished>>

\* A file, the progress directory or the output directory is gone.
Lose(part) ==
    /\ damaged = None
    /\ \A j \in Job : ~Holds(j)
    /\ \/ part \in File /\ Exists(part) /\ Remove({part}) /\ UNCHANGED <<output, locked>>
       \/ part = "progress" /\ index # None /\ Remove({"index", "segment"}) /\ locked' = None /\ UNCHANGED output
       \/ part = "output" /\ output /\ Remove({"index", "segment", "result"}) /\ output' = FALSE /\ locked' = None
    /\ damaged' = part
    /\ UNCHANGED <<stamp, receipt, pc, why, child, published, now, faults, pruned, durable, finished>>

Supervisor(j) ==
    \/ Open(j) \/ ReadSession(j) \/ MakeOutput(j) \/ Initialize(j) \/ Check(j)
    \/ Reclaim(j) \/ Refresh(j) \/ Announce(j) \/ Launch(j)
    \/ Reap(j) \/ Publish(j) \/ Mark(j) \/ Clear(j) \/ Conclude(j) \/ Report(j)

Evaluation(j) ==
    \/ LockProgress(j) \/ Load(j) \/ MakeIndex(j) \/ Register(j)
    \/ Record(j) \/ WriteOutputs(j) \/ Succeed(j)

Failure(j) ==
    \/ Stop(j) \/ FailRefresh(j) \/ KillSupervisor(j) \/ KillChild(j) \/ KillJob(j)

Next ==
    \/ \E j \in Job : Supervisor(j) \/ Evaluation(j) \/ Failure(j)
    \/ Tick
    \/ \E f \in File : Prune(f)
    \/ \E part \in File \cup Part : Lose(part)

Spec == Init /\ [][Next]_vars

FairSpec == Spec /\ \A j \in Job : WF_vars(Supervisor(j)) /\ WF_vars(Evaluation(j))

-----------------------------------------------------------------------------
(* What the supervisor promises.                                           *)

\* The progress lock of an evaluation that is recording is its own: no
\* replacement job takes it for a stale one, even when only the supervisor
\* of the evaluation was killed (resume.py, the inherited descriptor and
\* the removal of */.lock).
LiveLockKept ==
    \A j \in Job : child[j] \in Recording => locked = j

\* Kills and exceptions alone never leave a directory that the next job
\* refuses, nor one whose evaluation finds another's lock or a stream that
\* does not match: only expiry, the pruner or damage do.
NeverStuck ==
    ~pruned /\ damaged = None =>
        \A j \in Job : why[j] \in {None, "expired"} /\ child[j] \notin {"barred", "mismatch"}

\* With the output directory lost before the files around it expired, a job
\* can find no trace of the run and start it anew.
TracesLeft == ~(pruned /\ damaged = "output")

\* A run that was completed is never evaluated again and its outputs stay as
\* they were, wherever its supervisor was killed; the single exception is a
\* complete.json that disappears before the session says so.
FinishedIsFinal ==
    [][TracesLeft /\ (finished = "marked" \/ (finished = "published" /\ damaged # "complete")) =>
          /\ \A j \in Job : child'[j] = child[j]
          /\ result' \in {result, None}
          /\ complete' \in {complete, None}]_vars

\* An evaluation that goes on recording starts from every record ever
\* committed, whatever was pruned or disappeared in the meantime.
NothingLostOnResume ==
    [][\A j \in Job : TracesLeft /\ child[j] = "loading" /\ child'[j] = "inventory"
                        => saved = durable]_vars

\* Some job ends with a receipt that says complete, or a job is refused
\* (which NeverStuck restricts).
Finishes ==
    <>(receipt = "complete" \/ \E j \in Job : pc[j] = "refused" \/ child[j] \in {"barred", "mismatch"})

=============================================================================
