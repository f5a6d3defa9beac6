--------------------------- MODULE ProgressStore ---------------------------
(***************************************************************************)
(* The progress stream of a resumable run: ProgressStore of                *)
(* runners/asynq/progress.py with the two ends that use it, RunProgress's  *)
(* recording (_append) and its reading of the stream (_restore).           *)
(*                                                                         *)
(* The stream is a directory of numbered segments, each written whole to a *)
(* temporary file and renamed into place.  Where the output directory is   *)
(* shared (`shared`, the code's verify_integrity) an index.json names the  *)
(* segments that count, with their digests; a digest is modelled by the    *)
(* contents it is the digest of.  A task is known by its key, so one task  *)
(* stands for one spec under one configuration hash.                       *)
(*                                                                         *)
(* A process may be killed between any two file operations, and a file     *)
(* operation may fail (OSError), MaxFaults times in all.  Every attempt    *)
(* runs some of the tasks (`active`): the others' records belong to other  *)
(* runs of the same output directory.                                      *)
(***************************************************************************)
EXTENDS Integers, Sequences, FiniteSets, SequencesExt

CONSTANTS Task,       \* keys of the tasks recorded in the stream
          Idx,        \* instances of a task
          Trace,      \* request traces a response can carry
          NoTrace,    \* the trace a task starts with (None)
          Absent,     \* no record
          None,       \* no temporary file, no record
          MaxRuns,    \* bound: attempts
          MaxResults, \* bound: results recorded at a time
          MaxFaults   \* bound: file operations that fail

ASSUME StoreAssumption ==
    /\ IsFiniteSet(Task)
    /\ NoTrace \in Trace
    /\ Absent \notin Trace
    /\ {"exit", "run", "discard"} \cap Task = {}
    /\ None \notin [task : Task, idx : Idx, trace : Trace]
    /\ MaxRuns \in Nat
    /\ MaxResults \in Nat
    /\ MaxFaults \in Nat

VARIABLES
    shared,     \* is the output directory shared: is there an index
    segs,       \* files: segment number -> its entries
    tmp,        \* file: the entries in a leftover or unfinished *.tmp, or None
    index,      \* file: segment number -> digest, or NoIndex
    pc,         \* what the process is doing; "off" when there is none
    then,       \* where it goes after the write or deletion under way; a task
                \* when an append of that task's entries is what writes
    active,     \* tasks of the running attempt
    recording,  \* those of them still recorded
    trace,      \* their current default trace, as the process remembers it
    entering,   \* the record whose default_trace entry was just appended, or None
    buffer,     \* entries appended and not yet written
    next,       \* _next_segment
    published,  \* _published: the index as the process believes it to be
    old,        \* drop: the segments it still has to remove
    runs, faults

disk == <<shared, segs, tmp, index>>
memory == <<active, recording, trace, entering, buffer, next, published, old>>
vars == <<disk, pc, then, memory, runs, faults>>

-----------------------------------------------------------------------------
(* Entries, and what a reader makes of them.                               *)

Header(t) == [kind |-> "header", task |-> t]
DefaultTrace(t, v) == [kind |-> "trace", task |-> t, trace |-> v]
Result(t, i) == [kind |-> "result", task |-> t, idx |-> i]

Entry == {Header(t) : t \in Task}
         \cup {DefaultTrace(t, v) : t \in Task, v \in Trace}
         \cup {Result(t, i) : t \in Task, i \in Idx}

HasHeader(es, t) == Header(t) \in Range(es)

\* The trace in force for task t after the first n entries: the last one set,
\* but a header that repeats an earlier one starts the task again.
TraceAtNoRestart(es, n, t) ==      \* bug: a repeated header changes nothing
    LET last == {j \in 1..n : /\ es[j].task = t /\ es[j].kind = "trace"
                              /\ \A k \in j + 1 .. n : es[k].task = t => es[k].kind # "trace"}
    IN  IF last = {} THEN NoTrace ELSE es[CHOOSE j \in last : TRUE].trace

TraceAt(es, n, t) ==
    LET sets(j) == \/ es[j].kind = "trace"
                   \/ es[j].kind = "header" /\ \E k \in 1 .. j - 1 : es[k] = es[j]
        last == {j \in 1..n : /\ es[j].task = t /\ sets(j)
                              /\ \A k \in j + 1 .. n : es[k].task = t => ~sets(k)}
    IN  IF \E j \in last : es[j].kind = "trace"
        THEN es[CHOOSE j \in last : TRUE].trace ELSE NoTrace

\* Later entries of an instance replace earlier ones.
DecodedAt(es, t, i) ==
    LET here == {j \in DOMAIN es : es[j] = Result(t, i)}
    IN  IF here = {} THEN Absent ELSE TraceAt(es, Max(here), t)

Decode[es \in Seq(Entry)] ==
    [t \in Task |-> [i \in Idx |-> DecodedAt(es, t, i)]]
LastTrace(es) == [t \in Task |-> TraceAt(es, Len(es), t)]

\* The entries of a set of segments, in order of their numbers.
Segment(files, n) == IF n \in DOMAIN files THEN files[n] ELSE <<>>
UpTo(files) ==
    LET upTo[n \in Nat] == (IF n = 0 THEN <<>> ELSE upTo[n - 1]) \o Segment(files, n)
    IN  upTo
EntriesOf(files) ==
    IF DOMAIN files = {} THEN <<>> ELSE UpTo(files)[Max(DOMAIN files)]

NoFiles == [n \in {} |-> <<>>]
NoIndex == [n \in {-1} |-> <<>>]      \* no index file: no segment has this number

\* The segments that count: those the index names, or all of them.
Committed == IF shared THEN (IF index = NoIndex THEN NoFiles ELSE index) ELSE segs

\* What the running process has written, as it believes, and will write.
Written == IF shared THEN published ELSE segs
Known == EntriesOf(Written) \o buffer

\* ProgressStore._segments: temporary files go and so do segments the index
\* does not name; the next number is past every file seen.
AfterReusing(files) == IF DOMAIN files = {} THEN 0 ELSE Max(DOMAIN files)  \* bug: off by one

After(files) == IF DOMAIN files = {} THEN 0 ELSE Max(DOMAIN files) + 1
Larger(m, n) == IF m > n THEN m ELSE n
Without(f, S) == [n \in DOMAIN f \ S |-> f[n]]

LoadSegments ==
    /\ segs' = IF shared THEN Without(segs, DOMAIN segs \ DOMAIN Committed) ELSE segs
    /\ published' = IF shared THEN Committed ELSE published
    /\ next' = Larger(next, Larger(After(segs), After(Committed)))

Load == LoadSegments /\ tmp' = None /\ UNCHANGED <<shared, index>>

\* A committed segment is missing or changed: ProgressMismatchError.
Readable ==
    shared => /\ index = NoIndex => segs = NoFiles
              /\ \A n \in DOMAIN Committed : n \in DOMAIN segs /\ segs[n] = Committed[n]

-----------------------------------------------------------------------------
Init ==
    /\ shared \in BOOLEAN
    /\ segs = NoFiles /\ tmp = None /\ index = NoIndex
    /\ pc = "off" /\ then = "exit"
    /\ active = {} /\ recording = {} /\ trace = [t \in Task |-> NoTrace]
    /\ entering = None /\ buffer = <<>> /\ next = 0
    /\ published = NoFiles /\ old = {}
    /\ runs = 0 /\ faults = 0

\* An attempt begins.  With --fresh it drops the records of its tasks and records
\* nothing: --resume and --fresh exclude each other.
Start(S, fresh) ==
    /\ pc = "off"
    /\ runs < MaxRuns
    /\ runs' = runs + 1
    /\ active' = S
    /\ pc' = IF fresh THEN "discard" ELSE "restore"
    /\ UNCHANGED <<disk, then, recording, trace, entering, buffer, next, published, old, faults>>

\* The process is over, by itself or by a kill: only files survive.
End ==
    /\ pc # "off"
    /\ pc' = "off" /\ then' = "exit"
    /\ active' = {} /\ recording' = {} /\ trace' = [t \in Task |-> NoTrace]
    /\ entering' = None /\ buffer' = <<>> /\ next' = 0
    /\ published' = NoFiles /\ old' = {}
    /\ UNCHANGED <<disk, runs, faults>>

Exit == pc = "exit" /\ End
Crash == pc # "exit" /\ End

\* The traces a resumed process goes on from are those its reader ended with.
RestoredTraceForgotten(es) == [t \in Task |-> NoTrace]       \* bug
RestoredTracePartial(es) == [t \in active |-> LastTrace(es)[t]] \* bug: no entry for other tasks
RestoredTrace(es) == [t \in Task |-> IF t \in active THEN LastTrace(es)[t] ELSE NoTrace]

\* RunProgress._restore: read the stream, then append the headers it lacks.
Restore ==
    /\ pc = "restore"
    /\ Readable
    /\ Load
    /\ LET es == EntriesOf(Committed)
           lacking == {t \in active : ~HasHeader(es, t)}
       IN  /\ \E order \in SetToSeqs({Header(t) : t \in lacking}) : buffer' = order
           /\ trace' = RestoredTrace(es)
    /\ recording' = active
    /\ pc' = "run"
    /\ UNCHANGED <<then, active, entering, old, runs, faults>>

-----------------------------------------------------------------------------
(* Recording.  RunProgress._append appends one entry, or two: a            *)
(* default_trace entry first when the trace changed.  The flush thread may *)
(* write between the two, and an append that fills the buffer writes it.   *)

\* ProgressStore.append; `full` is the SEGMENT_MAX_BYTES test.
AppendEntry(t, e, full) ==
    /\ buffer' = Append(buffer, e)
    /\ pc' = IF full THEN "write" ELSE "run"
    /\ then' = IF full THEN t ELSE "exit"

\* The instances an attempt runs are those it neither restored nor recorded.
Unrecorded(t, i) == DecodedAt(Known, t, i) = Absent

Recorded == {p \in Task \X Idx : ~Unrecorded(p[1], p[2])}

Record(t, i, v, full) ==
    /\ pc = "run" /\ entering = None
    /\ t \in recording
    /\ Unrecorded(t, i)
    /\ Cardinality(Recorded) < MaxResults
    /\ IF v = trace[t]
       THEN AppendEntry(t, Result(t, i), full) /\ UNCHANGED entering
       ELSE /\ AppendEntry(t, DefaultTrace(t, v), full)
            /\ entering' = [task |-> t, idx |-> i, trace |-> v]
    /\ UNCHANGED <<disk, active, recording, trace, next, published, old, runs, faults>>

RecordRest(full) ==
    /\ pc = "run" /\ entering # None
    /\ trace' = [trace EXCEPT ![entering.task] = entering.trace]
    /\ AppendEntry(entering.task, Result(entering.task, entering.idx), full)
    /\ entering' = None
    /\ UNCHANGED <<disk, active, recording, next, published, old, runs, faults>>

-----------------------------------------------------------------------------
(* ProgressStore._write_segment, asked for by the flush thread (`then` is  *)
(* "run"), an append (a task), close ("exit") or discard ("discard").      *)

FlushDueOnce == buffer # <<>> /\ faults = 0   \* bug: the thread ends at its first OSError
FlushDue == buffer # <<>>

Flush ==
    /\ pc = "run" /\ FlushDue
    /\ pc' = "write" /\ then' = "run"
    /\ UNCHANGED <<disk, memory, runs, faults>>

\* RunProgress.close, and RunProgress.discard, which begins with a flush too.
Close(next_) ==
    /\ pc = "run" /\ entering = None
    /\ pc' = "write" /\ then' = next_
    /\ UNCHANGED <<disk, memory, runs, faults>>

\* Where the process goes once the write has ended, well or badly.
Proceed ==
    /\ pc' = IF then \in Task THEN "run" ELSE then
    /\ then' = "exit"

WriteNothing ==
    /\ pc = "write" /\ buffer = <<>>
    /\ Proceed
    /\ UNCHANGED <<disk, memory, runs, faults>>

\* _initialize_inventory: a shared stream has an index before its first segment.
InitializeInventory ==
    /\ pc = "write" /\ buffer # <<>>
    /\ shared /\ index = NoIndex /\ published = NoFiles
    /\ index' = NoFiles
    /\ UNCHANGED <<shared, segs, tmp, pc, then, memory, runs, faults>>

WriteTmp ==
    /\ pc = "write" /\ buffer # <<>>
    /\ shared => index # NoIndex
    /\ tmp' = buffer
    /\ pc' = "rename"
    /\ UNCHANGED <<shared, segs, index, then, memory, runs, faults>>

WithSegment(n, es) == [m \in DOMAIN segs \cup {n} |-> IF m = n THEN es ELSE segs[m]]

\* os.replace; the number is spent whatever happens to the index.  Without an
\* index the segment counts at once and the buffer is empty again.
RenameSegment ==
    /\ pc = "rename"
    /\ segs' = WithSegment(next, tmp)
    /\ tmp' = None
    /\ next' = next + 1
    /\ IF shared THEN pc' = "index" /\ UNCHANGED <<then, buffer>>
                 ELSE Proceed /\ buffer' = <<>>
    /\ UNCHANGED <<shared, index, active, recording, trace, entering, published, old,
                   runs, faults>>

WithNewest == [n \in DOMAIN published \cup {next - 1} |->
                  IF n = next - 1 THEN segs[n] ELSE published[n]]

WriteIndex ==
    /\ pc = "index"
    /\ index' = WithNewest
    /\ published' = WithNewest
    /\ buffer' = <<>>
    /\ Proceed
    /\ UNCHANGED <<shared, segs, tmp, active, recording, trace, entering, next, old,
                   runs, faults>>

\* A number spent stays spent.
NumberAfterFailureReused == IF pc = "index" THEN next - 1 ELSE next   \* bug: taken back
NumberAfterFailure == next

\* OSError.  The flush thread and close log it; an append that raises ends the
\* recording of its task.  The index may be in place even so (its directory's
\* fsync failed).
WriteFails ==
    /\ \/ pc = "write" /\ buffer # <<>>
       \/ pc \in {"rename", "index"}
    /\ faults < MaxFaults
    /\ faults' = faults + 1
    /\ index' \in {index} \cup (IF pc = "index" THEN {WithNewest} ELSE {})
    /\ Proceed
    /\ recording' = recording \ {then}
    /\ entering' = IF then \in Task THEN None ELSE entering
    /\ next' = NumberAfterFailure
    /\ UNCHANGED <<shared, segs, tmp, active, trace, buffer, published, old, runs>>

-----------------------------------------------------------------------------
(* ProgressStore.drop of the entries of the active tasks, for --fresh and  *)
(* for the discard that ends a run that passed.                            *)

DropBuffer ==
    /\ pc = "discard"
    /\ pc' = "drop"
    /\ buffer' = <<>>
    /\ UNCHANGED <<disk, then, active, recording, trace, entering, next, published, old,
                   runs, faults>>

\* The entries of the other tasks, in their order: the k-th of them is at the
\* place that has k of them up to it.
Nth(places, k) == CHOOSE j \in places : Cardinality({m \in places : m <= j}) = k
Others(es, S) ==
    LET places == {j \in DOMAIN es : es[j].task \notin S}
    IN  [k \in 1 .. Cardinality(places) |-> es[Nth(places, k)]]

Kept == Others(EntriesOf(Committed), active)

\* Nothing to remove: the rewritten copy is deleted, and drop returns.
DropNothing ==
    /\ pc = "drop" /\ Readable
    /\ Kept = EntriesOf(Committed)
    /\ Load
    /\ Proceed
    /\ UNCHANGED <<active, recording, trace, entering, buffer, old, runs, faults>>

DropCopy ==
    /\ pc = "drop" /\ Readable
    /\ Kept # EntriesOf(Committed)
    /\ LoadSegments
    /\ tmp' = Kept
    /\ old' = DOMAIN Committed
    /\ pc' = "swap"
    /\ UNCHANGED <<shared, index, then, active, recording, trace, entering, buffer, runs, faults>>

\* The new segment is renamed into place; with no entry kept there is none.
DropSwap ==
    /\ pc = "swap"
    /\ IF tmp = <<>> THEN UNCHANGED <<segs, next>>
                     ELSE segs' = WithSegment(next, tmp) /\ next' = next + 1
    /\ tmp' = None
    /\ pc' = IF shared THEN "reindex" ELSE "unlink"
    /\ UNCHANGED <<shared, index, then, active, recording, trace, entering, buffer,
                   published, old, runs, faults>>

\* The segments drop leaves: the new one, if it wrote one.
Rewritten == Without(segs, old)

DropIndex ==
    /\ pc = "reindex"
    /\ index' = Rewritten
    /\ published' = Rewritten
    /\ pc' = "unlink"
    /\ UNCHANGED <<shared, segs, tmp, then, active, recording, trace, entering, buffer,
                   next, old, runs, faults>>

\* Old segments go newest first, so what a crash leaves of them is a prefix.
NextToGoOldest(S) == Min(S)   \* bug
NextToGo(S) == Max(S)

DropUnlink ==
    /\ pc = "unlink" /\ old # {}
    /\ segs' = Without(segs, {NextToGo(old)})
    /\ old' = old \ {NextToGo(old)}
    /\ UNCHANGED <<shared, tmp, index, pc, then, active, recording, trace, entering, buffer,
                   next, published, runs, faults>>

DropEnd ==
    /\ pc = "unlink" /\ old = {}
    /\ next' = After(segs)
    /\ Proceed
    /\ UNCHANGED <<disk, active, recording, trace, entering, buffer, published, old,
                   runs, faults>>

\* OSError: discard logs it and closes; a --fresh run ends.
DropFails ==
    /\ pc \in {"drop", "swap", "reindex", "unlink"}
    /\ faults < MaxFaults
    /\ faults' = faults + 1
    /\ index' \in {index} \cup (IF pc = "reindex" THEN {Rewritten} ELSE {})
    /\ pc' = "exit" /\ then' = "exit"
    /\ UNCHANGED <<shared, segs, tmp, memory, runs>>

-----------------------------------------------------------------------------
Write == WriteNothing \/ InitializeInventory \/ WriteTmp \/ RenameSegment \/ WriteIndex

Next ==
    \/ \E S \in SUBSET Task \ {{}}, fresh \in BOOLEAN : Start(S, fresh)
    \/ Exit
    \/ Crash
    \/ Restore
    \/ \E t \in Task, i \in Idx, v \in Trace, full \in BOOLEAN : Record(t, i, v, full)
    \/ \E full \in BOOLEAN : RecordRest(full)
    \/ Flush
    \/ \E next_ \in {"exit", "discard"} : Close(next_)
    \/ WriteNothing \/ InitializeInventory \/ WriteTmp \/ RenameSegment \/ WriteIndex
    \/ WriteFails
    \/ DropBuffer \/ DropNothing \/ DropCopy \/ DropSwap \/ DropIndex \/ DropUnlink \/ DropEnd
    \/ DropFails

Spec == Init /\ [][Next]_vars

\* The flush thread comes back every interval until the process closes, and a
\* write that has begun goes on; kills and failures are bounded, never due.
FairSpec == Spec /\ WF_vars(Flush) /\ WF_vars(Write) /\ WF_vars(\E full \in BOOLEAN : RecordRest(full))

-----------------------------------------------------------------------------
(* Properties.                                                             *)

PCs == {"off", "restore", "run", "write", "rename", "index", "discard", "drop", "swap",
        "reindex", "unlink", "exit"}

IsFiles(f) ==
    f \in [DOMAIN f -> Seq(Entry)] /\ DOMAIN f \in SUBSET Nat /\ IsFiniteSet(DOMAIN f)

\* Every variable has its type.
TypeOK ==
    /\ shared \in BOOLEAN
    /\ IsFiles(segs) /\ IsFiles(published)
    /\ index = NoIndex \/ IsFiles(index)
    /\ tmp = None \/ tmp \in Seq(Entry)
    /\ pc \in PCs
    /\ then \in {"exit", "run", "discard"} \cup Task
    /\ active \in SUBSET Task /\ recording \in SUBSET Task
    /\ trace \in [Task -> Trace]
    /\ entering = None \/ entering \in [task : Task, idx : Idx, trace : Trace]
    /\ buffer \in Seq(Entry)
    /\ next \in Nat
    /\ old \in SUBSET Nat
    /\ runs \in 0 .. MaxRuns
    /\ faults \in 0 .. MaxFaults

\* Whatever a kill or a failed write leaves on disk, the next run can read it:
\* the index names only segments that are there, unchanged (ProgressStore
\* reads its index back against the files and refuses the run otherwise).
NeverRefused == Readable

\* "Never reuse this file name": no step changes the contents of a segment, in
\* particular not the retry after a failed index write, nor the run that finds
\* what an interrupted drop left.
SegmentsWrittenOnce ==
    [][\A n \in DOMAIN segs : n \in DOMAIN segs' => segs'[n] = segs[n]]_vars

\* An entry leaves its trace out when it is the task's current one, so the
\* process and any later reader must agree on which that is: after a resume,
\* after a failed write, and behind the prefix of an interrupted drop.
TraceInStep ==
    pc = "run" /\ entering = None =>
        \A t \in recording : trace[t] = LastTrace(Known)[t]

\* The promise of RecordLog.
Log == INSTANCE RecordLog WITH
    Outcome <- Trace,
    saved <- Decode[EntriesOf(Committed)],
    recorded <- IF pc \in {"run", "write", "rename", "index"}
                THEN Decode[Known] ELSE Decode[EntriesOf(Committed)],
    discarding <- IF pc \in {"drop", "swap", "reindex", "unlink"} THEN active ELSE {}

\* What was saved is read back as it was recorded, by every later run, until the
\* records of its task are dropped; a drop interrupted at any file operation
\* leaves the other tasks' records complete.
KeepsItsPromise == Log!Spec

\* What a task recorded reaches the disk unless the process ends first: a failed
\* periodic write is logged, and the thread comes back for the same entries.
RecordsReachDisk ==
    \A t \in Task, i \in Idx :
        (pc = "run" /\ DecodedAt(Known, t, i) # Absent)
            ~> (pc \in {"exit", "off", "discard"} \/ DecodedAt(EntriesOf(Committed), t, i) # Absent)
=============================================================================
