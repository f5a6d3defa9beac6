------------------------------ MODULE EvalRun ------------------------------
(***************************************************************************)
(* One output directory's run, attempt after attempt, each with --resume   *)
(* (it records, and continues from the records) or with --fresh (it drops  *)
(* the records and keeps none): _run_locked (runners/asynq/runner.py) with *)
(* process_results (runners/asynq/results.py), the inference workers on    *)
(* the two queues, the scoring tasks on the event loop, and what           *)
(* RunProgress (runners/asynq/progress.py) keeps on disk.                  *)
(*                                                                         *)
(* The event loop runs one coroutine at a time: the collecting loop, or a  *)
(* scoring task while the loop waits (phases "get", "drain", "closed").    *)
(* Workers and the flush thread run in parallel with both.  SIGTERM is     *)
(* raised in whatever the main thread is executing; a kill ends all.       *)
(* The stream of records is RecordLog's, which ProgressStore implements.   *)
(***************************************************************************)
EXTENDS Integers, Sequences, FiniteSets

CONSTANTS Task, Idx,   \* tasks of the run, and instances of a task
          Worker,
          Absent,      \* no outcome, no item, no task
          Budget,      \* max_hard_failure_rate, in percent
          Chunk,       \* items a worker holds at a time
          Shared,      \* is the output directory that of a shared run
          MaxAttempts, \* bound: attempts
          MaxFaults    \* bound: writes and metrics that fail

Item == Task \X Idx

\* What becomes of an instance: scored ("ok"; "infra": no verdict, the judge or
\* the sandbox failed; "spoiled": a score made of what a shutdown left), or a
\* generation failure, caused by the request ("failed") or not ("error").
Scored == {"ok", "infra", "spoiled"}
Outcome == Scored \cup {"failed", "error"}
Message == [item : Item, kind : {"ok", "failed", "error"}] \cup [item : {Absent}, kind : {"fatal"}]
Completion == [task : Task, by : {"main", "scoring"}, step : {"metrics", "outputs", "final"}]

ASSUME RunAssumption ==
    /\ Task # {} /\ Idx # {} /\ IsFiniteSet(Idx)
    /\ Absent \notin Task \cup Item \cup Outcome \cup [Idx -> Outcome] \cup Completion
    /\ Budget \in 0 .. 100
    /\ Chunk \in Nat \ {0}
    /\ Shared \in BOOLEAN
    /\ MaxAttempts \in Nat
    /\ MaxFaults \in Nat

VARIABLES
    phase,      \* where the attempt is; "off" when there is none
    fresh,      \* the attempt was given --fresh, not --resume
    completing, \* a task whose completion is being written, in which coroutine
                \* and how far, or Absent
    sigterm,    \* shutdown_requested
    failure,    \* what the attempt raised
    exited,     \* workers_exited
    queue, worker, holds, out,                  \* item queue, workers, result queue
    pending, scoring, outcome, result,          \* process_results
    keeping,    \* tasks whose outcomes are recorded (RunProgress._tasks)
    metrics,    \* the attempt wrote metrics.json and its manifest
    lock,       \* the attempt holds the model's lock
    recorded,   \* the records as the process knows them
    saved,      \* the records on disk
    outputs,    \* tasks with their predictions on disk
    final,      \* finalized results: the outcomes each was computed from
    attempts, faults

loop == <<phase, fresh, completing, sigterm, failure, exited>>
work == <<queue, worker, holds, out>>
books == <<pending, scoring, outcome, result, keeping, metrics>>
disk == <<saved, outputs, final>>
vars == <<loop, work, books, lock, recorded, disk, attempts, faults>>

NoRecords == [t \in Task |-> [i \in Idx |-> Absent]]
NoOutcomes == [it \in Item |-> Absent]
Workers(state) == [w \in Worker |-> state]

-----------------------------------------------------------------------------
(* A task's completion, given the outcomes of its instances.               *)

Which(os, kinds) == {i \in Idx : os[i] \in kinds}

\* check_task_completion's test.
CompleteByCount(os) ==      \* bug: off by one
    Cardinality(Which(os, Scored)) >= Cardinality(Idx) - 1 - Cardinality(Which(os, {"failed", "error"}))

Complete(os) ==
    Cardinality(Which(os, Scored)) >= Cardinality(Idx) - Cardinality(Which(os, {"failed", "error"}))

\* failure_budget_error: nothing measured fails at any budget, and a task
\* exactly on its budget passes.
WithinBudget(os) ==
    LET lost == Which(os, {"infra", "failed", "error"})
    IN  lost # Idx /\ 100 * Cardinality(lost) <= Budget * Cardinality(Idx)

OutcomesOf(oc, t) == [i \in Idx |-> oc[<<t, i>>]]

-----------------------------------------------------------------------------
Init ==
    /\ phase = "off" /\ fresh = FALSE /\ completing = Absent
    /\ sigterm = FALSE /\ failure = "none" /\ exited = FALSE
    /\ queue = {} /\ worker = Workers("gone") /\ holds = [w \in Worker |-> {}] /\ out = <<>>
    /\ pending = {} /\ scoring = {} /\ outcome = NoOutcomes
    /\ result = [t \in Task |-> "none"] /\ keeping = {} /\ metrics = FALSE
    /\ lock = FALSE
    /\ recorded = NoRecords /\ saved = NoRecords
    /\ outputs = {} /\ final = [t \in Task |-> Absent]
    /\ attempts = 0 /\ faults = 0

Start(f) ==
    /\ phase = "off" /\ attempts < MaxAttempts
    /\ attempts' = attempts + 1
    /\ phase' = IF f THEN "drop" ELSE "restore"
    /\ fresh' = f
    /\ lock' = TRUE
    /\ UNCHANGED <<completing, sigterm, failure, exited, work, books, recorded, disk, faults>>

\* RunProgress.restore: a finalized task with its output files is done; of the
\* others, what is recorded is not run again.  A fresh run restores nothing.
Finalized == IF fresh THEN {} ELSE {t \in outputs : final[t] # Absent}

Restored == [it \in Item |-> IF it[1] \in Finalized THEN final[it[1]][it[2]]
                            ELSE IF fresh THEN Absent
                            ELSE saved[it[1]][it[2]]]

ToRunAgain == {it \in Item : it[1] \notin Finalized /\ Restored[it] # "ok"}  \* bug: failures too
ToRun == {it \in Item : Restored[it] = Absent}

Restore ==
    /\ phase = "restore"
    /\ phase' = "start"
    /\ outcome' = Restored
    /\ result' = [t \in Task |-> IF t \in Finalized THEN "pass" ELSE "none"]
    /\ keeping' = IF fresh THEN {} ELSE Task \ Finalized
    /\ pending' = ToRun /\ queue' = ToRun
    /\ worker' = Workers("init")
    /\ UNCHANGED <<fresh, completing, sigterm, failure, exited, holds, out, scoring, metrics,
                   lock, recorded, disk, attempts, faults>>

\* Every worker reported in: the start gate opens.
OpenGate ==
    /\ phase = "start"
    /\ phase' = "restored"
    /\ worker' = Workers("run")
    /\ UNCHANGED <<fresh, completing, sigterm, failure, exited, queue, holds, out, books, lock,
                   recorded, disk, attempts, faults>>

\* An exception leaves the run: phase "unwind" is _run_locked's finally.
Raise(why) == phase' = "unwind" /\ failure' = why

\* A worker failed or timed out while it initialized.
StartFails ==
    /\ phase = "start"
    /\ Raise("fatal")
    /\ UNCHANGED <<fresh, completing, sigterm, exited, work, books, lock, recorded, disk,
                   attempts, faults>>

-----------------------------------------------------------------------------
(* The workers.                                                            *)

\* A worker killed inside get keeps the reader lock of the item queue.
Jammed == \E w \in Worker : worker[w] = "jammed"

Take(w, it) ==
    /\ worker[w] = "run" /\ it \in queue /\ ~Jammed
    /\ Cardinality(holds[w]) < Chunk
    /\ queue' = queue \ {it}
    /\ holds' = [holds EXCEPT ![w] = @ \cup {it}]
    /\ UNCHANGED <<loop, worker, out, books, lock, recorded, disk, attempts, faults>>

\* Every item taken is answered, with outputs or with an error.
Answer(w, it, kind) ==
    /\ worker[w] = "run" /\ it \in holds[w]
    /\ out' = Append(out, [item |-> it, kind |-> kind])
    /\ holds' = [holds EXCEPT ![w] = @ \ {it}]
    /\ UNCHANGED <<loop, queue, worker, books, lock, recorded, disk, attempts, faults>>

\* The poison pill, behind the last item.
PoisonPill(w) ==
    /\ worker[w] = "run" /\ queue = {} /\ holds[w] = {} /\ ~Jammed
    /\ worker' = [worker EXCEPT ![w] = "gone"]
    /\ UNCHANGED <<loop, queue, holds, out, books, lock, recorded, disk, attempts, faults>>

\* An unhandled exception is reported, a kill is not; both exit nonzero.
Die(w, reports) ==
    /\ worker[w] = "run"
    /\ worker' = [worker EXCEPT ![w] = "died"]
    /\ out' = IF reports THEN Append(out, [item |-> Absent, kind |-> "fatal"]) ELSE out
    /\ UNCHANGED <<loop, queue, holds, books, lock, recorded, disk, attempts, faults>>

Jam(w) ==
    /\ worker[w] = "run" /\ Cardinality(holds[w]) < Chunk /\ ~Jammed
    /\ worker' = [worker EXCEPT ![w] = "jammed"]
    /\ UNCHANGED <<loop, queue, holds, out, books, lock, recorded, disk, attempts, faults>>

-----------------------------------------------------------------------------
(* Recording.  RunProgress._append does nothing once a shutdown was asked  *)
(* for, or when its task is no longer recorded; when it fails, recording   *)
(* stops for the task and the entry may or may not be kept.                *)

RecordsAtShutdown(it) == it[1] \in keeping   \* bug: no test of the shutdown
Records(it) == ~sigterm /\ it[1] \in keeping

Append_(it, o) ==
    LET with == [recorded EXCEPT ![it[1]][it[2]] = o]
    IN  IF ~Records(it) THEN UNCHANGED <<recorded, keeping, faults>>
        ELSE \/ recorded' = with /\ UNCHANGED <<keeping, faults>>
             \/ /\ faults < MaxFaults
                /\ faults' = faults + 1
                /\ keeping' = keeping \ {it[1]}
                /\ recorded' \in {recorded, with}

\* record keeps what scoring settled, record_failure what the request caused.
KeptAny == {"ok", "spoiled", "infra", "failed"}   \* bug: a judge that was down is final
Kept == {"ok", "spoiled", "failed"}

Keep(it, o) ==
    IF o \in Kept THEN Append_(it, o) ELSE UNCHANGED <<recorded, keeping, faults>>

\* check_task_completion of t in coroutine `by`: when all outcomes are there, the metrics
\* are computed and results[spec] is set, then the output files are written, then the
\* finalized result.
CheckCompletion(t, os, by) ==
    IF result[t] = "none" /\ Complete(os)
    THEN completing' = [task |-> t, by |-> by, step |-> "metrics"]
    ELSE UNCHANGED completing

Settle(it, o, by) ==
    /\ outcome' = [outcome EXCEPT ![it] = o]
    /\ Keep(it, o)
    /\ CheckCompletion(it[1], OutcomesOf(outcome', it[1]), by)

-----------------------------------------------------------------------------
(* process_results.                                                        *)

\* The event loop gets to the collecting coroutine.
At(p) == phase = p /\ completing = Absent

\* Before the loop the tasks restored in full complete, after it whatever is left.
Due(t) ==
    /\ result[t] = "none"
    /\ phase = "restored" => \E i \in Idx : outcome[<<t, i>>] # Absent
    /\ Complete(OutcomesOf(outcome, t))

CompleteDue(t) ==
    /\ At("restored") \/ At("final")
    /\ Due(t)
    /\ CheckCompletion(t, OutcomesOf(outcome, t), "main")
    /\ UNCHANGED <<phase, fresh, sigterm, failure, exited, work, books, lock, recorded, disk,
                   attempts, faults>>

NoneDue ==
    /\ At("restored") \/ At("final")
    /\ ~ \E t \in Task : Due(t)
    /\ phase' = IF phase = "restored" THEN "top" ELSE "write"
    /\ UNCHANGED <<fresh, completing, sigterm, failure, exited, work, books, lock, recorded,
                   disk, attempts, faults>>

\* The top of the loop; a SIGTERM that a scoring task kept to itself is seen here.
Top ==
    /\ At("top")
    /\ IF pending = {} THEN phase' = "drain" /\ UNCHANGED failure
       ELSE IF sigterm THEN Raise("sigterm")
       ELSE phase' = "get" /\ UNCHANGED failure
    /\ UNCHANGED <<fresh, completing, sigterm, exited, work, books, lock, recorded, disk,
                   attempts, faults>>

Receive ==
    /\ At("get") /\ out # <<>>
    /\ out' = Tail(out)
    /\ LET it == Head(out).item  kind == Head(out).kind
       IN  IF kind = "fatal" \/ it \notin pending
           THEN /\ Raise(IF kind = "fatal" THEN "fatal" ELSE "duplicate")
                /\ UNCHANGED <<completing, pending, scoring, outcome, keeping, recorded, faults>>
           ELSE /\ phase' = "top" /\ UNCHANGED failure
                /\ pending' = pending \ {it}
                /\ IF kind = "ok"
                   THEN /\ scoring' = scoring \cup {it}
                        /\ UNCHANGED <<completing, outcome, keeping, recorded, faults>>
                   ELSE Settle(it, kind, "main") /\ UNCHANGED scoring
    /\ UNCHANGED <<fresh, sigterm, exited, queue, worker, holds, result, metrics, lock, disk,
                   attempts>>

AllExited == \A w \in Worker : worker[w] \in {"gone", "died", "jammed"}

\* The get timed out, and then, results may have arrived meanwhile: that every
\* worker has exited is acted on only at the next empty get.  Every few seconds
\* the workers' health is looked at too.
Empty ==
    /\ At("get") /\ out = <<>>
    /\ phase' = "empty"
    /\ UNCHANGED <<fresh, completing, sigterm, failure, exited, work, books, lock, recorded,
                   disk, attempts, faults>>

ExitSeenAtOnce == exited \/ AllExited    \* bug
ExitSeen == exited

NoAnswer ==
    /\ At("empty")
    /\ IF ExitSeen
       THEN Raise("exited") /\ UNCHANGED exited
       ELSE exited' = AllExited /\ phase' \in {"top", "health"} /\ UNCHANGED failure
    /\ UNCHANGED <<fresh, completing, sigterm, work, books, lock, recorded, disk, attempts, faults>>

\* check_workers_alive: the first message, if it is not a fatal one, goes back to
\* the end of the queue.
PutBackNot == Tail(out)      \* bug
PutBack == Append(Tail(out), Head(out))

\* A worker's exit code says that it died, also when it could not.
SomeDiedAll == \A w \in Worker : worker[w] \in {"died", "jammed"}     \* bug: once all have
SomeDied == \E w \in Worker : worker[w] \in {"died", "jammed"}

CheckWorkersAlive ==
    /\ At("health")
    /\ LET fatal == out # <<>> /\ Head(out).kind = "fatal"
       IN  /\ out' = IF out = <<>> THEN out ELSE IF fatal THEN Tail(out) ELSE PutBack
           /\ IF fatal THEN Raise("fatal")
              ELSE IF SomeDied THEN Raise("died")
              ELSE phase' = "top" /\ UNCHANGED failure
    /\ UNCHANGED <<fresh, completing, sigterm, exited, queue, worker, holds, books, lock,
                   recorded, disk, attempts, faults>>

\* score_and_store, up to check_task_completion.  It runs while the collecting
\* coroutine, or the finally behind it, awaits something.
Score(it, o) ==
    /\ At("get") \/ At("drain") \/ At("closed")
    /\ it \in scoring
    /\ o = "spoiled" => sigterm
    /\ scoring' = scoring \ {it}
    /\ Settle(it, o, "scoring")
    /\ UNCHANGED <<phase, fresh, sigterm, failure, exited, work, pending, result, metrics, lock,
                   disk, attempts>>

\* The rest of check_task_completion.
ComputeMetrics ==
    /\ completing # Absent /\ completing.step = "metrics"
    /\ LET t == completing.task
       IN  result' = [result EXCEPT ![t] =
                         IF WithinBudget(OutcomesOf(outcome, t)) THEN "pass" ELSE "over"]
    /\ completing' = [completing EXCEPT !.step = "outputs"]
    /\ UNCHANGED <<phase, fresh, sigterm, failure, exited, work, pending, scoring, outcome,
                   keeping, metrics, lock, recorded, disk, attempts, faults>>

WriteOutputs ==
    /\ completing # Absent /\ completing.step = "outputs"
    /\ outputs' = outputs \cup {completing.task}
    /\ completing' = [completing EXCEPT !.step = "final"]
    /\ UNCHANGED <<phase, fresh, sigterm, failure, exited, work, books, lock, recorded, saved,
                   final, attempts, faults>>

\* An error ends the run only in the main coroutine; a scoring task that raises is
\* logged.  Its task counts as complete when the metrics were computed, and is tried
\* again at the end of process_results when they were not.
CompletionFails ==
    /\ completing # Absent /\ completing.step \in {"metrics", "outputs"}
    /\ faults < MaxFaults /\ faults' = faults + 1
    /\ completing' = Absent
    /\ IF completing.by = "main" THEN Raise("io") ELSE UNCHANGED <<phase, failure>>
    /\ UNCHANGED <<fresh, sigterm, exited, work, books, lock, recorded, disk, attempts>>

\* RunProgress.finalize: a failed write is logged.
FinalizesAny(t) == t \in keeping /\ ~sigterm     \* bug: whatever the result
Finalizes(t) == t \in keeping /\ ~sigterm /\ result[t] = "pass"

WriteFinal ==
    /\ completing # Absent /\ completing.step = "final"
    /\ completing' = Absent
    /\ LET t == completing.task
           kept == [final EXCEPT ![t] = OutcomesOf(outcome, t)]
       IN  IF ~Finalizes(t) THEN UNCHANGED <<final, faults>>
           ELSE \/ final' = kept /\ UNCHANGED faults
                \/ faults < MaxFaults /\ faults' = faults + 1 /\ UNCHANGED final
    /\ UNCHANGED <<phase, fresh, sigterm, failure, exited, work, books, lock, recorded, saved,
                   outputs, attempts>>

\* gather: every scoring task has ended.
Drained ==
    /\ At("drain") /\ scoring = {}
    /\ IF sigterm THEN Raise("sigterm") ELSE phase' = "final" /\ UNCHANGED failure
    /\ UNCHANGED <<fresh, completing, sigterm, exited, work, books, lock, recorded, disk,
                   attempts, faults>>

-----------------------------------------------------------------------------
(* The end of the run: _finalize_and_gate, and _run_locked's finally.      *)

Passed == \A t \in Task : result[t] = "pass"

\* The records of a resumed run are discarded unless a task is over its budget.  Those of
\* a shared run stay: SharedRun discards them.
DiscardsAny == ~fresh        \* bug
Discards == ~fresh /\ ~Shared /\ Passed

\* Workers are joined or terminated, and how they ended is not asked any more;
\* metrics.json, the manifest and the upload come before the gate.
WriteResults ==
    /\ phase = "write"
    /\ worker' = Workers("gone")
    /\ \/ /\ metrics' = TRUE
          /\ \/ Discards /\ phase' = "flush" /\ UNCHANGED failure
             \/ Passed /\ ~Discards /\ phase' = "unwind" /\ UNCHANGED failure
             \/ ~Passed /\ Raise("budget")
          /\ UNCHANGED faults
       \/ /\ faults < MaxFaults /\ faults' = faults + 1
          /\ Raise("io") /\ UNCHANGED metrics
    /\ UNCHANGED <<fresh, completing, sigterm, exited, queue, holds, out, pending, scoring,
                   outcome, result, keeping, lock, recorded, disk, attempts>>

\* The flush thread, RunProgress.close, and the flush discard begins with.
Flush ==
    /\ phase \notin {"off", "drop", "unlink"}
    /\ saved # recorded
    /\ saved' = recorded
    /\ UNCHANGED <<loop, work, books, lock, recorded, outputs, final, attempts, faults>>

\* Where a flush must have ended, or failed, before the process goes on.
Flushed ==
    \/ recorded = saved /\ UNCHANGED faults
    \/ recorded # saved /\ faults < MaxFaults /\ faults' = faults + 1

BeginDiscard ==
    /\ phase = "flush"
    /\ Flushed
    /\ recorded' = saved
    /\ phase' = "drop"
    /\ UNCHANGED <<fresh, completing, sigterm, failure, exited, work, books, lock, disk, attempts>>

\* The records go first, file by file: any of those that are left, then more of them.
Without(items) ==
    [t \in Task |-> [i \in Idx |-> IF <<t, i>> \in items THEN Absent ELSE saved[t][i]]]

Drop ==
    /\ phase = "drop"
    /\ IF saved = NoRecords
       THEN phase' = "unlink" /\ UNCHANGED <<saved, recorded>>
       ELSE /\ \E items \in SUBSET {it \in Item : saved[it[1]][it[2]] # Absent} :
                  items # {} /\ saved' = Without(items)
            /\ recorded' = saved' /\ UNCHANGED phase
    /\ UNCHANGED <<fresh, completing, sigterm, failure, exited, work, books, lock, outputs,
                   final, attempts, faults>>

\* Then the finalized results, one by one; --fresh goes on to restore.
Unlink ==
    /\ phase = "unlink"
    /\ IF \E t \in Task : final[t] # Absent
       THEN /\ \E t \in Task : final[t] # Absent /\ final' = [final EXCEPT ![t] = Absent]
            /\ UNCHANGED phase
       ELSE phase' = (IF fresh THEN "restore" ELSE "unwind") /\ UNCHANGED final
    /\ UNCHANGED <<fresh, completing, sigterm, failure, exited, work, books, lock, recorded,
                   saved, outputs, attempts, faults>>

\* discard logs an OSError; --fresh raises it.
DropFails ==
    /\ phase \in {"drop", "unlink"}
    /\ faults < MaxFaults /\ faults' = faults + 1
    /\ IF fresh THEN Raise("io") ELSE phase' = "unwind" /\ UNCHANGED failure
    /\ UNCHANGED <<fresh, completing, sigterm, exited, work, books, lock, recorded, disk, attempts>>

\* RunProgress.close, then terminate_workers; then the sandbox manager is awaited.
\* A fresh run keeps the lock to its end.
Close ==
    /\ phase = "unwind"
    /\ Flushed
    /\ lock' = fresh
    /\ worker' = Workers("gone")
    /\ phase' = "closed"
    /\ completing' = Absent
    /\ UNCHANGED <<fresh, sigterm, failure, exited, queue, holds, out, books, recorded, disk,
                   attempts>>

\* asyncio.run cancels what is left of the scoring tasks; or the process is killed.
End ==
    /\ phase' = "off" /\ fresh' = FALSE /\ completing' = Absent
    /\ sigterm' = FALSE /\ failure' = "none" /\ exited' = FALSE
    /\ queue' = {} /\ worker' = Workers("gone") /\ holds' = [w \in Worker |-> {}] /\ out' = <<>>
    /\ pending' = {} /\ scoring' = {} /\ outcome' = NoOutcomes
    /\ result' = [t \in Task |-> "none"] /\ keeping' = {} /\ metrics' = FALSE
    /\ lock' = FALSE /\ recorded' = saved
    /\ UNCHANGED <<disk, attempts, faults>>

Exit == At("closed") /\ End
Kill == phase \notin {"off", "closed"} /\ End

\* The handler sets the flag and raises where the main thread is: in the main
\* coroutine, in a scoring task, which keeps it, or in the finally.
Sigterm ==
    /\ phase # "off" /\ ~sigterm
    /\ sigterm' = TRUE
    /\ \/ /\ phase \notin {"unwind", "closed"}
          /\ Raise("sigterm")
          /\ completing' = Absent /\ UNCHANGED <<scoring, lock>>
       \/ /\ completing # Absent /\ completing.by = "scoring"
          /\ completing' = Absent /\ UNCHANGED <<phase, failure, scoring, lock>>
       \/ /\ At("get") \/ At("drain") \/ At("closed")
          /\ \E it \in scoring : scoring' = scoring \ {it}
          /\ UNCHANGED <<phase, failure, completing, lock>>
       \/ /\ phase = "unwind"
          /\ phase' = "closed" /\ lock' = fresh
          /\ UNCHANGED <<failure, completing, scoring>>
    /\ UNCHANGED <<fresh, exited, work, pending, outcome, result, keeping, metrics, recorded,
                   disk, attempts, faults>>

-----------------------------------------------------------------------------
Main ==
    \/ Restore \/ OpenGate \/ NoneDue \/ Top \/ Receive \/ Empty \/ NoAnswer
    \/ CheckWorkersAlive \/ ComputeMetrics \/ WriteOutputs \/ WriteFinal \/ Drained \/ WriteResults
    \/ BeginDiscard \/ Drop \/ Unlink \/ Close \/ Exit
    \/ \E t \in Task : CompleteDue(t)

Work(w) ==
    \/ \E it \in Item : Take(w, it)
    \/ \E it \in Item, kind \in {"ok", "failed", "error"} : Answer(w, it, kind)
    \/ PoisonPill(w)

Scoring == \E it \in Item, o \in Scored : Score(it, o)

Next ==
    \/ \E f \in BOOLEAN : Start(f)
    \/ Restore \/ OpenGate \/ StartFails
    \/ \E t \in Task : CompleteDue(t)
    \/ NoneDue \/ Top \/ Receive \/ Empty \/ NoAnswer \/ CheckWorkersAlive
    \/ Scoring
    \/ ComputeMetrics \/ WriteOutputs \/ CompletionFails \/ WriteFinal
    \/ Drained \/ WriteResults \/ Flush \/ BeginDiscard
    \/ Drop \/ Unlink \/ DropFails
    \/ Close \/ Exit \/ Kill \/ Sigterm
    \/ \E w \in Worker : Work(w) \/ Jam(w) \/ \E reports \in BOOLEAN : Die(w, reports)

Spec == Init /\ [][Next]_vars

\* The event loop goes round, a live worker gets through its work, scoring ends
\* (scorers have timeouts), and flushes are done.  Nobody has to start, to fail,
\* or to send signals.  While nothing comes, the workers' health is looked at every few
\* seconds.
FairSpec ==
    /\ Spec
    /\ WF_vars(Main) /\ WF_vars(Scoring) /\ WF_vars(Flush)
    /\ \A w \in Worker : WF_vars(Work(w))
    /\ SF_vars(NoAnswer /\ phase' = "health")

-----------------------------------------------------------------------------
(* Properties.                                                             *)

Phases == {"off", "drop", "unlink", "restore", "start", "restored", "top", "get", "empty",
           "health", "drain", "final", "write", "flush", "unwind", "closed"}
Records_ == [Task -> [Idx -> {"ok", "failed", "spoiled", Absent}]]

\* Every variable has its type.
TypeOK ==
    /\ phase \in Phases /\ fresh \in BOOLEAN
    /\ completing \in Completion \cup {Absent}
    /\ sigterm \in BOOLEAN /\ exited \in BOOLEAN
    /\ failure \in {"none", "fatal", "duplicate", "exited", "died", "sigterm", "io", "budget"}
    /\ queue \subseteq Item /\ pending \subseteq Item /\ scoring \subseteq Item
    /\ worker \in [Worker -> {"init", "run", "gone", "died", "jammed"}]
    /\ holds \in [Worker -> SUBSET Item]
    /\ out \in Seq(Message)
    /\ outcome \in [Item -> Outcome \cup {Absent}]
    /\ result \in [Task -> {"none", "pass", "over"}]
    /\ keeping \subseteq Task /\ metrics \in BOOLEAN /\ lock \in BOOLEAN
    /\ recorded \in Records_ /\ saved \in Records_
    /\ outputs \subseteq Task
    /\ final \in [Task -> [Idx -> Outcome] \cup {Absent}]
    /\ attempts \in 0 .. MaxAttempts /\ faults \in 0 .. MaxFaults

Processing == phase \in {"restored", "top", "get", "empty", "health", "drain", "final"}

\* Where a pending instance is: in the item queue, with a worker, on the result queue.
Places(it) ==
    (IF it \in queue THEN 1 ELSE 0)
    + Cardinality({w \in Worker : it \in holds[w]})
    + Cardinality({n \in DOMAIN out : out[n].item = it})

\* "The exact set of inference results expected": every instance of the run is
\* settled, being scored or pending, one of the three, and a pending one is in one
\* place, whatever the order of results, restarts, and results put back by the
\* health check.  Only a SIGTERM raised inside a scoring task loses one.
EachInstanceOnce ==
    Processing =>
        \A it \in Item :
            LET settled == outcome[it] # Absent
            IN  /\ it \in pending => ~settled /\ it \notin scoring /\ Places(it) = 1
                /\ it \in scoring => ~settled
                /\ it \notin pending => Places(it) = 0
                /\ settled \/ it \in pending \cup scoring \/ sigterm

\* A task's metrics are computed from all its instances, never from those that
\* happened to be done, and once its metrics are computed none changes.
ResultCoversTask ==
    [][\A t \in Task :
        result[t] = "none" /\ result'[t] # "none" =>
            phase = "restore" \/ \A i \in Idx : outcome'[<<t, i>>] # Absent]_vars

\* What a shutdown spoiled is never kept: neither a record nor a finalized result
\* comes from an outcome settled after SIGTERM, wherever it was raised.
NothingSpoiled ==
    \A t \in Task, i \in Idx :
        /\ saved[t][i] # "spoiled" /\ recorded[t][i] # "spoiled"
        /\ final[t] # Absent => final[t][i] # "spoiled"

\* A finalized result on disk has its output files, is within the failure budget,
\* and agrees with every record of its task: a resumed run that skips the task and
\* one that recomputes it from the records report the same outcomes.
FinalAgrees ==
    \A t \in Task :
        final[t] # Absent =>
            /\ t \in outputs
            /\ WithinBudget(final[t])
            /\ \A i \in Idx : saved[t][i] \in {Absent, final[t][i]}

\* A resumed run loses no record before it has written its results and every task
\* has passed, so a retry after a failure, a kill or an exceeded budget continues.
RecordsKeptUntilPassed ==
    [][\A t \in Task, i \in Idx :
        saved[t][i] # Absent /\ saved'[t][i] = Absent => fresh \/ (metrics /\ Passed)]_vars

\* "All inference workers exited": said only when nothing they put is unread.
NoAnswerAbandoned == failure = "exited" => out = <<>>

\* The runner uses the records as RecordLog has them: an instance is recorded once
\* until it is discarded, and nothing is recorded during a discard.
Log == INSTANCE RecordLog WITH
    Outcome <- {"ok", "failed"},
    discarding <- IF phase = "drop" THEN Task ELSE {}

RecordsOnce == Log!Spec

\* An attempt comes to an end, whichever workers die, with or without a word.
AttemptEnds == []<>(phase = "off")

\* "A run that passes deletes its own once its outputs are written and uploaded":
\* the documented order of outputs and discard.
OutputsBeforeDiscard ==
    [][\A t \in Task, i \in Idx :
        saved[t][i] # Absent /\ saved'[t][i] = Absent => fresh \/ t \in outputs]_vars

\* A run that records takes the model's lock before it touches the output directory,
\* and close writes out every record and releases it: no record and no finalized
\* result is made without the lock.
RecordedUnderLock ==
    [][(recorded' # recorded /\ phase' # "off") \/ final' # final => lock]_vars
=============================================================================
