# A TLA+ model of olmo-eval's resumable runs, its sandboxes and its uploads

olmo-eval runs language-model evaluations: it sends every instance of every task to
a model, scores the answers, and writes metrics, predictions and a manifest.  A run
takes hours and is preempted often, so it records what it has done and a later
attempt continues from the records.  This directory holds a TLA+ development of that
core: the result loop and the workers that feed it, the records on disk, the lock that
keeps two runs apart, the supervisor that shares a run among replacement jobs, the
sandboxes that scorers and agents run code in, and the upload of what a run has found.
Sources are named below as paths under `src/src/olmo_eval/`.

## The system

| Component | State it keeps | Operations |
|---|---|---|
| Runner (`runners/asynq/runner.py`) | phase of the run, workers, the model's lock, records | `run_async`, `_run_locked`, `_finalize_and_gate` |
| Result processing (`results.py`, `monitoring.py`) | pending instances, scoring tasks, scored and failed instances per task, results | `process_results`, `score_and_store`, `check_task_completion`, `check_workers_alive` |
| Progress store (`progress.py`: `ProgressStore`, `RunProgress`) | a stream of numbered segments, an index, a buffer, finalized results | `record`, `record_failure`, `finalize`, flush thread, `drop`, `discard`, `restore` |
| Progress lock (`progress.py`: `ProgressLock`) | one `.lock` file per model directory | `acquire`, `release`, `_stale` |
| Inference workers (`workers.py`, `processing.py`, `batching/`) | a batch of items in hand | take items, answer each with outputs or an error, exit at a poison pill |
| Signals (`cli/run/__init__.py`, `common/shutdown.py`) | the shutdown flag | SIGTERM handler |
| Failure budget (`preparation.py`) | none | `failure_budget_error` |
| Shared-run supervisor (`launch/beaker/resume.py`) | flock, `session.json`, `complete.json`, a receipt | `run_shared`, refresh of the files |
| Sandbox manager (`harness/sandbox/manager.py`) | executors, leases, bindings, recoveries, restart counts | lease, bind, replace, stop |
| Sandbox executor (`harness/sandbox/executor.py`, `_local_process.py`) | quarantine reason, health check lock, a record per local command | `execute_command`, `execute_code`, cleanup, health checks |
| Dispatch and retry (`inference/dispatch.py`, `retry.py`) | requests in flight, pending retries | bounded concurrent dispatch |
| Upload (`upload/`) and the dashboard's ingest (`src/dashboard/api`) | manifest; rows of runs, task results, instances and artifacts, objects in storage | register, upload, report; upsert, sign, add rows, complete, delete |
| Tasks, scorers, metrics, providers, scaffolds, launcher, external runner, CLI, UI | data and I/O | |

How they interact.  The runner takes the lock, restores the records, puts the
instances that remain on the item queue, starts the workers, and runs the collecting
loop.  Workers, separate processes, put a message per instance on the result queue.
The collecting loop, a coroutine, takes messages one at a time; an answer becomes a
scoring task on the same event loop, an error settles the instance at once.  Each
settled instance is recorded (a flush thread writes the records out), and the last of
a task computes the task's metrics, writes its output files and its finalized result.
When everything is settled the run writes metrics and manifest, discards the records
if every task is within its failure budget, and releases the lock.

Around that: on a shared volume each job of a submission runs a supervisor that holds an
outer lock, decides from the files whether to start, resume or finish, and starts the
run as its child.  Scorers and agents lease a sandbox from the manager, whose executor
runs their commands in a container and quarantines itself when it can no longer tell
what runs there.  A run registers with the dashboard when it starts and uploads its
directory when it ends; the uploader retries requests that the service may have
handled.

What makes it hard: several kinds of concurrency (processes on two queues, coroutines
that interleave at awaits, a flush thread, jobs and their children on one volume, scripts
in a container), a signal that raises in whatever the main
thread executes, kills between any two file operations, file operations that fail and
are only logged, and a next attempt that has to make sense of what is left.  Each
hazard is listed in `PROJECT.json` at the line where it bites.

What makes each component correct:

- *records*: what was saved is read back exactly, by every later attempt, until its
  own task is discarded; nothing a kill or a failed write leaves makes the directory
  unreadable; a shared stream keeps other runs' records apart;
- *lock*: one run at a time, the holder's file is its own, and a lock left behind by a
  kill does not stop the next attempt;
- *sandboxes*: an executor is never over its capacity, shared with a session or replaced
  while in use; no caller waits in vain; after a stop nothing runs whose removal was not tried;
- *commands*: of a command that did not end by itself nothing runs on, or its sandbox is
  retired; a result is the command's own; no command runs twice; every call returns;
- *shared run*: one job at a time, no kill leaves a directory the next job refuses, a
  completed run is not run again, nothing recorded is lost;
- *workers*: every item is answered once, with its own output, within the batch's budget;
- *upload*: an upload that succeeded is stored, what is shown agrees with the rows;
- *run*: every instance is settled once, metrics cover all instances, what a shutdown
  left is never kept, records survive until the run has passed, every attempt ends.

## Modules

| Module | What it is |
|---|---|
| `RecordLog` | abstract specification: what progress records promise, without files |
| `ProgressStore` | the stream on disk; implements `RecordLog` (property `KeepsItsPromise`) |
| `ProgressStoreProofs` | theorems about `ProgressStore` |
| `EvalRun` | attempts of one output directory's run; uses records as `RecordLog` has them (property `RecordsOnce`) |
| `EvalRunProofs` | theorems about `EvalRun` |
| `WorkPool` | abstract specification: what `EvalRun` takes the workers to be |
| `WorkerBatch` | batching, dispatch and retries in the workers; implements `WorkPool` (property `WorksAsPool`) |
| `WorkerBatchProofs` | theorems about `WorkerBatch` |
| `ProgressLock` | the lock file, every file operation a step |
| `ProgressLockProofs` | theorems about `ProgressLock` |
| `SharedRun` | the supervisor of a shared run, its evaluation and the directory of both |
| `SharedRunProofs` | theorems about `SharedRun` |
| `SandboxManager` | leases and bindings on a pool of containers that are lost and replaced |
| `SandboxManagerProofs` | theorems about `SandboxManager` |
| `SandboxCommand` | the commands in one of those containers |
| `SandboxCommandProofs` | theorems about `SandboxCommand` |
| `ResultsUpload` | uploads of a run against the ingest service |
| `ResultsUploadProofs` | theorems about `ResultsUpload` |
| `MC*` | instances for TLC: model values |

`RecordLog` is the seam between the two big modules: `ProgressStore` shows that the
files behave like the abstract log, with a kill or an error anywhere, and `EvalRun` uses
that log as two variables (`recorded`, in memory, and `saved`, on disk) instead of
files.  `WorkPool` is the seam between `WorkerBatch` and `EvalRun` in the same way.  TLC
checks the three refinements on small instances, and all three are proved.

Definitions marked `bug` are not part of the model.  Each is a plausible mistake in the
definition that follows it, and shows that a property notices it.

### RecordLog

`saved` is what a reader starting now restores, `recorded` is that plus what the
process has recorded since.  An outcome is recorded once; `Save` makes everything
recorded durable together; `Lose` is a process that dies; a discard removes the
records of its own tasks only, in any number of pieces.

### ProgressStore

State: the segment files (`segs`), a temporary file, the index (`shared` says whether
there is one: the code's `verify_integrity`, for an output directory that several
submissions share), and the process's memory (`buffer`, `next`, `published`, per-task
default `trace`).  Digests are modelled by the contents they are digests of, so a
changed segment is one whose contents differ.  One action per file operation: writing
the temporary file, renaming it, writing the index, each unlink of a drop.  `Crash`
can happen anywhere; `WriteFails` and `DropFails` take a fault out of `MaxFaults`.
An entry does not repeat the request trace of the entry before it (`default_trace`),
which is what makes the order of entries matter: `Decode` is what the reader's fold
amounts to, and `TraceInStep` says writer and reader agree on the trace in force.  The
entries that a drop keeps are defined by rank (`Nth`), and the absent index is `NoIndex`,
a function no index equals, so that both can be reasoned about.

Refinement mapping: `saved` is the decoding of the segments that count, `recorded` the
decoding of what the process knows (its segments and its buffer), `discarding` the
tasks of the running attempt while a drop is under way.

### ProgressLock

A process draws its identity (host, PID, Beaker job) when it starts and goes through
mkdir, exclusive open, write, read back, or read, judge, unlink and again.
`CanStart` holds what the operating system and Beaker guarantee: a host gives a live
PID once, a job runs on one host, one job at a time owns `/results`.  The code accepts
in its docstring that two runs that judge the same stale lock at the same moment can
both proceed; `raced` is a history variable that becomes true when a takeover deletes
a lock other than the one it judged, and the safety properties hold while it is false.

### EvalRun

`phase` is where the main coroutine is, from the lock to `_run_locked`'s finally.
Between awaits the event loop runs one coroutine, so a handler is one action except
where it touches the disk or fails: completing a task is split into computing the metrics
and setting the result, writing the outputs and writing the finalized result
(`completing`), since a signal, a kill or an error can fall between them.  When the metrics
or the outputs fail (`CompletionFails`) in the main coroutine the run ends; in a scoring
task it goes on, and the end of the loop computes again what has no result.  A discard
removes the records in any number of pieces (`Drop`), then the finalized results one by one
(`Unlink`), and can be killed or fail between any two; what it leaves is what the next
attempt restores.  In a shared output directory (`Shared`) a run discards nothing, which is
`SharedRun`'s business.  Scoring tasks run while the collecting coroutine waits
(phases `get`, `drain`) and while the finally waits for the sandbox manager (`closed`).
Workers and the flush thread run in parallel with everything.  `Sigterm` sets the flag
and raises wherever the main thread is, including inside a scoring task, which keeps
the exception to itself.  A worker killed inside `Queue.get` keeps the queue's reader
lock (`Jam`): the others then take nothing more.  An attempt has `--resume` or `--fresh`; a run
without either records nothing and is not modelled.  An outcome is one of: scored (`ok`,
`infra` for a scorer without a verdict, `spoiled` for a score made of what a shutdown
left), failed because of the request, or failed otherwise.

### WorkPool and WorkerBatch

`WorkPool` says in four actions what the rest of a run relies on: an item is taken by one
worker, answered at most once and with its own output or an error, and a worker leaves
with nothing in hand, when everything has been taken or when it has lost patience.
`WorkerBatch` has the code under it: the queue with its feeder thread, `collect_batch`
with the item carried over (`pending`), groups by request type, the three ways of sending
a group (`mode`), the dispatcher's `line` and `flight` with retries behind the other
requests, results recorded by place and put when a call is over, terminal errors, killed
workers.  A worker killed inside `Queue.get` keeps the reader lock (`Jammed`): the others
find the queue silent, however much is on it, until the run ends them.  Refinement mapping:
`left` is what is on the queue, `holds` what is carried
over, collected or sent and not yet put, `answer` the last thing put for an item.
A streaming worker that finds the queue silent for a second leaves (`Abandon`); that is
`patient` in the pool.  A time limit (`Timeout` of a batch) may expire at any point.

A request that cannot be prepared is answered with an error (`Unprepared`).  The code
prepares a chat rollout outside the `try` that answers errors; an exception there would
leave the item unanswered, but what can fail, the check of the tools, is not made for
a rollout, whose scaffold sends them itself.

### SharedRun

State: the files of the shared directory as far as a decision depends on them, their
modification times (`stamp`), and for each job where its supervisor (`pc`) and its
evaluation (`child`) are.  One action per file operation, from `Open` (the flock) to
`Report` (the receipt).  The evaluation is `ProgressStore` and `ProgressLock` seen from
outside: it takes the progress lock, loads the stream, writes the index, registers the
stream, commits records (`saved`, `durable` is a history of the most there ever were),
writes the outputs and unlocks.  `KillSupervisor`, `KillChild` and `KillJob` differ in who
survives: an evaluation inherits the lock's descriptor, so `Holds` is true of a job
whose supervisor is dead.  `Tick`, `Prune` and `Lose` are the shared volume: a file nobody
wrote or refreshed for `Retention` ticks may be pruned, and once, while nobody works, a
file or directory may be lost before its time.

Assumed: a submission has one command, so the check that the command is unchanged never
fails; a tick is longer than the refresh interval, and no start or end of a supervisor
and no reading of an evaluation spans one (retention is counted in days, those take
minutes); the pruner removes files, not directories.

### SandboxManager

A slot (a position in `_executors`) has one executor at a time; `<<slot, n>>` is its
n-th, so that a lease held on an executor that has been replaced would show.  Every
critical section of `_capacity_condition` runs without an await but for the wait itself,
and the event loop runs one coroutine, so a section is one action; a wait is a state
(`waitLease`, `waitBind`) that a notification turns back into the section's start.
`LeaseGranted`, `LeaseWaitsForCapacity`, `LeaseWaitsForRecovery` and `LeaseStopping`
are the ways through one round of `lease_executor`, the `Binding` actions those of
`acquire_binding`; `Schedule` is `_schedule_recovery`.  A replacement goes through the
steps of its thread (`StopOld`, `StartNew`) and comes back to the loop (`Replaced`,
`NotReplaced`).  A caller makes one request: an operation, with failover or without, or
a binding.  The capabilities it requires are modelled by the set of slots that have them.
An executor is quarantined during an operation only, as in the code.

Stopping is best effort: `executor.stop` swallows a removal that fails, times out or cannot be
confirmed, lets go of its deployment, and everybody goes on.  So `up` (executors with a
deployment), `running` (containers that run) and `unremoved` (those whose removal was tried
and not confirmed) are apart.  `Stop` lets any of the executors it is given fail and stops
the others; `StopOld` goes on to the replacement, which may run beside the old container;
an executor that fails to start is stopped by its own `start`, and may be left too.
`MaxUnremoved` bounds such failures.  `OnlyUnremovedLeft` is what the manager can then
promise, and does: nothing runs that was forgotten.

The manager does not compose with `EvalRun` by a shared variable.  There it is
the time a scoring task takes, its outcomes (`infra` when no sandbox answers), and
the await in the run's finally; `EveryRequestReturns` is what justifies that
scoring ends.

### SandboxCommand

One executor and the calls given to it, each local (a supervisor script in the container,
reached by the container runtime's `exec`) or remote (a request to the server in the
container).  `supervisor`, `record`, `clean`, `interrupted` and `report` are the supervisor
script and what it leaves: its record, the `.clean` file that says no process of
the command is left, SIGUSR1, and how much it has printed.  `cleaner` is the cleanup
script.  `main` and `others` are the command and what it started.  `Answered` has the four
ways to read what the supervisor printed; `EnterProbe`, `Healthy` and `Unhealthy` are
`_quarantine_if_unresponsive` under its lock, entered from three places (`Probing`);
`Cancel` and `CancelCleanup` are a cancellation of the caller and of the shielded cleanup.
What goes wrong is a fault while the container runs, and due when it is gone (`Broken`).

A cancellation that arrives while the record of a command that ended by itself is removed
is raised, and the command's background processes live on, as they do after a result; the
model has it as the outcome `late`.  A remote command is taken to have started when the
server has its request.

`SandboxManager` sees of this module what `is_running` shows: a quarantine that
may come during an operation and never goes away.

### ResultsUpload

A session is a process that works on one run ID: a run that registers (`StartRun`), writes its
results (`WriteMetrics`), reports that it failed or was interrupted, or uploads, or an upload
by hand afterwards.  Sessions follow one another on the same directory and the same rows.
`todo` is the set of requests the session still has to make, `Due` their order; a
request is `Answered`, or it fails and is sent again (`Retry`) or not (`GiveUp`), and what
failed at the sender may have been handled, may be handled later (`late`, `Arrives`) or
never.  The service handles a request in one transaction, under the lock of the run's or the
task result's row, so `UpsertRun`, `UpsertTask`, `AddRows`, `CompleteRun` are one step each;
`SignFiles` takes no such lock, and is one step because what it looks up goes into a single
upsert.  Results are versions: `rows` says of which version each stored batch is, `vector`
from which rows the score vector was computed.  `calm` and `strayed` are histories: nothing
disturbed this upload; a request was handled after its sender had gone on.

## What TLC checks

All passing runs finish without an error; every action of every module fires in one.

| Run | Instance | Shows |
|---|---|---|
| `store_crashes` | 2 tasks x 2 instances, 2 traces, 2 attempts, 2 results, kills | `KeepsItsPromise`, `TraceInStep` |
| `store_faults` | 2 tasks x 1 instance, 2 attempts, 1 result, one failing file operation | `TypeOK`, `NeverRefused`, `SegmentsWrittenOnce`, `RecordsReachDisk`, `KeepsItsPromise` |
| `lock` | 3 processes, 2 hosts, 2 PIDs, one job or none, 2 rounds, 2 tries | `HolderOwnsFile`, `NextRunStarts` |
| `eval_run` | 1 task x 2 instances, 2 workers, 3 attempts, 1 fault, budget 50% | `TypeOK`, `EachInstanceOnce`, `NothingSpoiled`, `FinalAgrees`, `NoAnswerAbandoned`, `ResultCoversTask`, `RecordsKeptUntilPassed`, `RecordsOnce`, `AttemptEnds` |
| `worker_batch` | 2 workers, 3 items (one as large as the budget, one rollout), batches of 2, 2 in flight, 1 retry, 2 errors, 1 fault | `TypeOK`, `BatchWithinBudget`, `WorksAsPool`, `EveryWorkerEnds` |
| `shared_run` | 3 jobs, 1 record, 1 tick, 2 faults | `TypeOK`, `LiveLockKept`, `NeverStuck`, `FinishedIsFinal`, `NothingLostOnResume`, `Finishes` |
| `sandbox` | 3 callers, 2 slots, 2 operations per executor, 2 restarts, 1 failed removal | `TypeOK`, `CapacityRespected`, `NotReplacedInUse`, `WaitsForSomething`, `OnlyUnremovedLeft`, `EveryRequestReturns` |
| `sandbox_command` | 2 commands, 2 attempts, 2 probes, 2 faults | `TypeOK`, `NothingLeftBehind`, `AnswerIsTrue`, `EveryCallReturns` |
| `results_upload` | 2 tasks x 2 batches, 3 sessions, 2 faults | `FinalizedMatchesRows`, `UploadStores` |
| `eval_run_outputs` | as `eval_run`, one attempt | violated: `OutputsBeforeDiscard` |
| `eval_run_unlocked` | as `eval_run`, one attempt, no fault | violated: `RecordedUnderLock` |
| `upload_retried` | as `results_upload` | violated: `MayRetryAnyRequest` |

The passing runs have between 350,000 (`store_faults`) and 1.9 million (`lock`) distinct
states and take between half a minute and three minutes each.

Why the bounds are enough.  A record's trace tells it from others, so two tasks, two
instances and two traces suffice to lose, mix up or misread one; a second attempt reads
what the first left, whatever point it died at.  A takeover race needs one dead holder
and two runs that find its lock.  In `EvalRun` two instances let completion race with
scoring and make 50% exactly the budget; two workers let one die while the other holds
an item; three attempts let a finalized or discarded state be written, read and written
again.  It has one task: what two tasks share, the queues and the failure of a run by one of
them, is left to the proofs, which hold for any tasks.  `MaxFaults` 1 covers every single
error at every place, not two at once; kills and deaths of workers are not bounded.  `Shared`
is false: a run that may not discard has fewer behaviours.
With the sandboxes three callers fill an executor while one more waits, hold leases
and bindings of both slots, and let one notification concern several; two restarts (the
code's number) are a replacement that is lost again and the end of the budget; one removal
that fails leaves another slot's container to be forgotten, and the proof is for any number.
In the code the lock has 2 rounds and 5 tries; the proofs hold for every value.
Three items over two workers let one be carried over while a pill or another batch comes,
one fill the budget alone and one go last; one retry is a place in the line taken again.
In `SharedRun` three jobs are a run, a replacement that is killed too and one that finds
both; two faults kill the supervisor and then its orphan, or the replacement at any
point; the tick is as long as the retention, so one is an expiry.  Two commands and two
faults let one call probe while the other waits for the lock, cleans up or is cancelled;
two probes and two attempts (the code has four of each) are one that is repeated.  Three
sessions and two batches let an upload break off half way through a task and be followed by
one that is unchanged and one that is not; two faults are a request sent twice and
something else.

Deadlock checking is off: attempts, processes and runs are bounded, and the system may
stop when they are used up.

Fairness.  `ProgressStore`: the flush thread loops until stopped, whatever its write
did.  `ProgressLock`: `acquire` and `release` are straight-line code and run to their
end unless killed.  `EvalRun`: the event loop goes round, a live worker works through
its items, scoring ends (scorers have timeouts), a flush is done, and the workers' health
is looked at again and again while no result comes (strong fairness: `process_results` does
so at the first empty get when five seconds have passed since the last time).
`SandboxManager`: the event loop goes round, operations and the start and stop of a container
end, with or without success (they have timeouts).  `WorkerBatch`: the feeder delivers, each worker goes on.  `SharedRun`: each
supervisor and each evaluation goes on unless killed.  `SandboxCommand`: the scripts and
the executor go on; a command ends (`timeout` ends it); a failure is due only when the
container is gone or the cleanup script has failed.  Nothing is assumed of starting, of
other failures, of signals, of the removals of containers that fail, of the processes a
command leaves behind, or of a session handing its binding back.  `ResultsUpload` states no
fairness: that an undisturbed upload succeeds is the first half of `UploadStores`.

### Disagreements between the code and what it says of itself

- `OutputsBeforeDiscard`: `_finalize_and_gate` says a passing run discards its records
  once its outputs are written.  A task counts as complete before its outputs are
  written, and an exception in between, inside a scoring task, is only logged; the
  run passes and the records go.
- `RecordedUnderLock`: `RunProgress.close` releases the lock as the last of recording.
  After an error other than SIGTERM the scoring tasks are still in flight, and while the
  finally awaits the sandbox manager they record and finalize without the lock.  This
  needs a run that has a sandbox manager.
- `MayRetryAnyRequest`: the contract of the ingest service says that every endpoint is
  idempotent, so the client may retry any request.  A batch of rows un-finalizes its
  task result even when all its rows are there.  When the first copy of a retried batch is
  handled after the upload has completed, the task vanishes from the dashboard, though
  the upload was reported as stored.

## What is proved

### The lock

`ProgressLockProofs` proves, for any number of processes, hosts, PIDs and jobs and any
number of rounds and tries, from `LockAssumption` alone (`None` is not an identity or a
file, the two bounds are positive):

- `TypeCorrect`: `Spec => []TypeOK`;
- `HolderOwns`: `Spec => []HolderOwnsFile`;
- `OneRunHolds`: `Spec => []OneHolder`.

The argument.  `HolderOwnsFile` is not inductive: that a takeover does not delete a
holder's file rests on what was true when the file was judged.  The inductive invariant
`IInv` adds

- `Identified`: a process past its start, a lock's creator and a judged lock's creator
  have identities;
- `Apart`: processes alive together differ in host and PID, share a host when they
  share a job, and in `/results` share the job;
- `Bounded`: rounds and tries;
- `FileCreated`: a lock's creator is past its exclusive open;
- `JudgedGone`: while a process is about to delete a lock it judged stale, that lock's
  creator is not running, so a run that holds its lock can only lose it to a takeover
  that deletes something it did not judge: `raced`.

`JudgedGone` is where `_stale`'s three cases matter: a live process of this host is
excluded, a lock of the same job or in a job's own results is a dead predecessor's
because of `Apart`, and any other lock is left alone.  There is one lemma per conjunct
for a step, and `OneHolder` follows from `HolderOwnsFile` because a file has one creator,
so the runs check the latter only.

### The stream

`ProgressStoreProofs` proves, for any finite set of tasks, any instances and traces, and
any number of attempts, results and faults, from `StoreAssumption` alone (the tasks are
finitely many, since a process writes their headers in some order, and what is not a
trace, a record or a task is told apart):

- `TypeCorrect`, `RunsNeverRefused`, `ReaderInStep`: `Spec => []` `TypeOK`, `NeverRefused`,
  `TraceInStep`;
- `NamesUsedOnce`: `Spec => SegmentsWrittenOnce`;
- `KeepsPromise`: `Spec => KeepsItsPromise`, the refinement of `RecordLog`.

The argument has two layers.  `Inv` is about files and traces.  A segment is written once
because the next number is past every segment (`Numbered`), which fails only while no
process records or drops.  The index can be read because the process knows what it
published (`Published`), an index comes before the first segment (`Inventoried`), what is
renamed is what was written and what is indexed is what was renamed (`Copied`), and drop
unlinks only what the index no longer names (`Removing`).  `TraceInStep` speaks of a process
at rest, so `InStep` says of every step of a write what the reader's trace is or will be
once the entry under way is there; `Resting` and `Entering` say whose entry that is.

`LogInv` is about what the entries say.  A stream is `Sound` when every entry is behind a
header of its task and the records of one instance, if there are several, say the same.
There are several when a drop is under way, or was when its process was killed: some of
the old segments, and behind them the copy with the entries to keep.  `Dropped` is the heart: any first part
of a sound stream, with the entries of the other tasks once more behind it, is sound, says
of the other tasks what the whole stream said, and of the dropped tasks what the
first part says.  It holds because a repeated header starts its task again, so that the copy
is read from a clean state whatever the first part left.  `Dropping` carries it through the
steps: there is a stream of which the segments still to go are a first part, and the copy
has its entries to keep (`Leaves`).  Removing the oldest segment first would break it.  `Logged`
says that what is saved and what the process knows are sound, and that a record under way
has none before it, hence a new record is the first (`ResultSaid`).

The refinement then is one case per action: a write that is over is a `Save`, whichever
way it ended, a write that gives up at the end of the process is a `Lose`, an entry
is a `Record` when it is the result and nothing when it is the trace before it; the copy
in place changes nothing of what a reader makes of the stream, and each unlink, or the
index of the copy, is a `Discard`.

The entries of a set of segments are a recursive function (`UpTo`) and statements about
them need an induction.  A property of numbers is the set of those that have it, and
that every natural number is in such a set follows from the least number outside it
(`Least`, `Every`); `Recursion` says that a function given by its first value and its
next exists, and `UpToIs` unfolds `UpTo` with it.

### Runs

`EvalRunProofs` proves, for any tasks, instances and workers (a task has finitely many
instances), any failure budget and any number of attempts and faults, from
`RunAssumption` alone:

- `TypeCorrect`, `AccountedOnce`, `ShutdownSpoilsNothing`, `FinalResultsAgree`,
  `NoAnswerLost`: `Spec => []` `TypeOK`, `EachInstanceOnce`, `NothingSpoiled`,
  `FinalAgrees`, `NoAnswerAbandoned`;
- `ResultsCoverTasks`, `RecordsKept`: `Spec => ResultCoversTask` and
  `Spec => RecordsKeptUntilPassed`;
- `RecordsAsLog`: `Spec => RecordsOnce`, the refinement of `RecordLog`.

The argument.  `EachInstanceOnce` speaks of the phases in which the run collects, but a
SIGTERM, a dead worker or a failed write can take the run out of any of them, with
scoring tasks still in flight.  So the invariant `Inv` has to say more, of every phase.
Of an instance: what a settled one may not be any more (`Unsettled`), that a pending one
has exactly one place, queue, worker or message (`Located`), and that none is forgotten
while the run works (`Covered`).  Of a task: a result comes when its outcomes are
complete and a passing one is within budget (`Resulted`), its records are its outcomes
while it is recorded and the disk follows the memory (`Recorded`), a finalized result has
its outputs and agrees with both (`Finished`).  Of the run: what is empty between
attempts (`Idle`), whose turn a completion is and how far it got (`Completes`: its
instances are settled, from its second step on it has a result, at its last its outputs
are there), that what a shutdown
spoiled is not kept (`Unspoiled`), when records may be discarded (`Entitled`), and when
the workers' exit may be acted upon (`Exits`).

`FinalResultsAgree` needs `Recorded`, `Resulted` and `Unsettled` together: a result is
finalized from the outcomes as they are some steps after it was set, and they are still
the same because a settled instance stays settled.  They also have to survive a discard that is
interrupted anywhere: `Dropped` says that removing records keeps what `Recorded`, `Finished`
and `RecordLog` ask of those that are left.  `CompleteIsTotal`, a fact about
cardinalities, is the code's counting: as many scored as there are instances without the
failed ones means that none is missing.  One lemma per part, one step per action; the
composite steps (settling an instance, completing a task, receiving a message) have a
lemma of their own that says what they do.

### Workers

`WorkerBatchProofs` proves, for any finite sets of workers and items, any samples,
rollouts, batch bounds, limits and retries, in all three modes, from `BatchAssumption`
alone (the sets are finite, what is not an item is told apart, the bounds are positive):

- `TypeCorrect`: `Spec => []TypeOK`; `BatchesFit`: `Spec => []BatchWithinBudget`;
- `ImplementsPool`: `Spec => WorksAsPool`, the refinement of `WorkPool`: every step is a
  step of the pool, or changes nothing of what the mapping shows of it;
- `EveryItemAnswered`: `Spec => []NoItemForgotten`: once a worker has left by itself, every
  item has its own output or an error, or is with a worker that runs, or died with it.
  Streaming is excepted: a worker there leaves when the queue stays empty for a second.

The argument.  A step of the pool takes from `left`, or answers what a worker holds, so
the invariant `Inv` says where an item can be: on the queue once and before every pill
(`Supplied`), or at one place with one worker (`Owned`, `Apart`), never both.  That is how
taking a pill shows that nothing is left, which `EndBatch` needs some steps later;
`Working` carries it there (`last` implies an empty queue and nothing carried over, unless
the worker streams).  `Called` says that what is recorded at a place is the output of the
item there or an error, hence what is put is; `Requested` that a place has one request at
most, in line or in flight, and none once its result is known.  `Collecting` is the bounds of
a batch, with the fact that one still being collected is not full.

`EveryItemAnswered` follows from the refinement alone: `Accounted` (an item is left,
answered or in somebody's hands; who has left has nothing in hand and has left nothing)
is kept by every step of `WorkPool`, whatever the workers do inside.  So it has no run of
its own: `worker_batch` checks the refinement it follows from.

What the operators do is stated once: `Ranks` and `OnlyTakes` (a selection of the items of
a sequence keeps what is selected, and nothing twice), `Grouping` (a group and the rest
of its batch share it out), `SamplesCounted` (the samples of a batch and of one more item).
To be reasoned about without an induction over sequences, the selection is defined
by rank (`Nth`) and `SamplesOf` by a cardinality.

### The sandbox manager

`SandboxManagerProofs` proves, for any finite sets of slots and callers, any sets of
slots the requests select, and any capacity, minimum and restart budget, from
`SandboxAssumption` alone:

- `TypeCorrect`, `KeepsCapacity`, `NothingInUseReplaced`, `NoLostWakeup` and
  `NoneForgotten`: `Spec => []` `TypeOK`, `CapacityRespected`, `NotReplacedInUse`,
  `WaitsForSomething` and `OnlyUnremovedLeft`.

The argument.  The manager never looks at who uses an executor, only at its counts,
so none of these is inductive alone.  `IInv` adds

- `Counted`: `active` of an executor is the number of its leases, and within capacity.
  It stays right when an executor is replaced, and its count is reset, because then
  nobody holds it;
- `Recovering`: a slot under replacement does not run, so no lease or binding is granted
  on it, and its old executor is stopped before the new one starts;
- `Exclusive`: a session's slot is bound and nobody else uses its executor, so that
  `_schedule_recovery`, which passes over bound slots and slots with a count, never hits
  a user (`DueUnused`);
- `UpKnown`: an executor with a deployment is its slot's, or the replacement about to become
  so, hence there is none when `stop` has awaited the replacements;
- `LeftKnown`: a container without a deployment runs only when its removal was tried and not
  confirmed.  With `UpKnown` it gives `NoneForgotten`, and needs that no failure keeps `Stop`
  from the others;
- `Generations`, `Fresh`, `Asked`: a replacement is a new executor, nothing happens
  before `start` or after `stop`, a caller holds an executor exactly while it uses it;
- `WaitsStarted`: nobody waits once `stop` has begun.

`Counted`, `NotReplacedInUse` and `Exclusive` need each other.  The proof has one lemma
per conjunct; what callers' steps have in common (`OnlySchedules`, `UseKept`) is stated
once.

### The shared run

`SharedRunProofs` proves, for any number of jobs, records, ticks and
faults and any retention, from `RunAssumption` alone (`None` and the like are told
apart, there is work to do, retention is positive):

- `TypeCorrect`: `Spec => []TypeOK`; `OneJobWorks`: at most one job's supervisor or evaluation
  holds the outer lock; `LiveLockStays`: `Spec => []LiveLockKept`;
- `NextJobGoesOn`: `Spec => []NeverStuck`;
- `FinishedStays`: `Spec => FinishedIsFinal`; `NothingLost`: `Spec => NothingLostOnResume`.

The argument.  `Inv` holds whatever was pruned or lost: one job works (`OneHolds`), its
evaluation is over when it publishes (`Staged`), what it relies on was just refreshed
(`Fresh`), its session is there, and the progress lock is its evaluation's (`LockKept`),
which is why deleting every lock before the start of an evaluation deletes none that is in
use.  `Whole` holds while nothing was pruned or lost: what the session says is there
(`SessionTrue`), `complete.json` is about the outputs and nobody works on them any more
(`Sealed`), the index names what the segments hold (`Agreed`), a supervisor has what its
next step needs (`Ready`), and no job was refused but by expiry (`Admitted`).  Both are
kept by every step, and `Whole` needs `Inv`.  For the other two theorems something may have been
pruned or lost, so `ResumeInv` says what remains true then: a run that has begun leaves
a session or an output directory without one (`Rooted`), a completed one leaves
`complete.json`, a session that says so, or one that has expired (`Over`: `complete.json`
is refreshed with the session and never older), and the index names every record ever
committed, or no evaluation starts (`Kept`, for the same reason).

### Commands in a sandbox

`SandboxCommandProofs` proves, for any number of calls, attempts, probes and faults, from
`CommandAssumption` alone (`None` is no call, there is an attempt and a probe):

- `TypeCorrect`: `Spec => []TypeOK`, with it that no command is started twice;
- `NothingLeft`: `Spec => []NothingLeftBehind`; `AnswersTrue`: `Spec => []AnswerIsTrue`.

The argument.  The invariant is stated for one call, since calls meet only in the health
check, the quarantine and the container.  `Placed` says which processes there can be for a
call by where the call is, `Settled` what it will return, `Supervised` what the
supervisor has done by what it has said.  `Confirmed` is the heart: the `.clean` file, and a
cleanup script that is done because of it, mean that the command is over (`Over`) and that
its supervisor will start nothing any more.  `NothingLeftBehind` needs it where a cleanup
succeeds (`Retired`); everywhere else the code quarantines.  That nothing fails without a
fault (`Smooth`, `Sound`) is proved along with it: a supervisor then lives until it
has said how its command ended, it has left its record, and what it cleans up it
confirms before it reports, so that the cleanup script never has to give up.
One lemma per part, one step per action; `AnsweredCases` and `CancelCases` state the
alternatives of the two actions with a `CASE`.

### Uploads

`ResultsUploadProofs` proves, for any tasks and any number of
batches, sessions and faults, from `UploadAssumption` alone:

- `TypeCorrect`: `Spec => []TypeOK`, and `ShownMatchesRows`: `Spec => []FinalizedMatchesRows`.
  The two need each other: a count of stored batches stays within their number because it
  is the number of rows, and it is so because a batch that is there is not counted again;
- `UploadIsStored`: `Spec => []UploadStores`.  The invariant `StoredInv` says of an
  upload under way that its requests are its plan from some point on (`PlanKept`), that
  the rows of a task result are of one version (`RowsOfOneVersion`), that what is no longer
  among its requests has been stored (`SentIsThere`), and that an undisturbed one misses
  nothing (`CalmIsWhole`), so that the request that completes it finds everything.  That
  rows are of one version holds only until a late request is handled, which is where
  `strayed` comes from, and where the contract and the code disagree.

### What is not proved

Every safety invariant, every action property and all three refinements that the passing
runs check are stated by a theorem.  Liveness (`AttemptEnds`, `EveryWorkerEnds`, `RecordsReachDisk` and the other
properties under fairness) and `ENABLED` are out of the prover's reach and stay with TLC,
and so does every disagreement listed above, which a counterexample shows.  The induction
theorems of the library take an operator as a parameter and cannot be used, nor can
recursive operators: the modules proved about have neither.

## Not modelled, and why

- Plain runs (neither `--resume` nor `--fresh`): they take no lock and record nothing.
- The `runtime` entries of the stream, cost and timing attribution, and how metrics are
  computed from outcomes: data.
- Tasks that cannot be prepared: they stop the run before it starts.
- The limit on concurrent scoring tasks: a scoring task may simply take longer.
- Debug exit thresholds, console output, experiment-group tracking.
- The sandbox manager on a loop torn down before `stop` returns (cancelled recoveries,
  the `atexit` cleanup), a second `start`, `get_executor` and the execution semaphores
  (they take no lease), several configurations with minimums of their own, and whose turn
  it is among equally loaded executors.
- Starting a worker (its provider and scaffold), worker time and its shares, the backoff
  of one request (`inference/retry.py`).
- A submission whose command changes, and experiment groups of several submissions.
- In a sandbox: sessions, streamed and detached commands, file writes, and how a
  container is built.
- Of uploads: inference metrics, suites and the numbers derived from task results, several
  files in flight, two sessions at once, permissions, secrets and size limits, the fallback
  for services that do not know an artifact kind.  A run that ended `partial` is as a
  complete one.
- Tasks, scorers and metrics (several hundred definitions), providers, launchers, the
  command line, the dashboard's queries and its user interface: most of the repository by
  lines.  They are data, text processing, wording and I/O; what they keep between
  two calls is in the modules above, or in engines and services outside the repository.

## Plan

Done: `RecordLog`, `ProgressStore`, `ProgressLock`, `EvalRun`, `SandboxManager`, `WorkPool`,
`WorkerBatch`, `SharedRun`, `ResultsUpload`, `SandboxCommand`, and the proofs above.

Left, in order of importance:

1. sessions, streamed and detached commands of an executor, as further ways of `SandboxCommand`;
2. inference metrics and a second uploader in `ResultsUpload`;
3. the planning of providers and GPUs, as operators checked against a reference.
