---------------------------- MODULE ProgressLock ----------------------------
(***************************************************************************)
(* The lock on a model's progress directory: ProgressLock of               *)
(* runners/asynq/progress.py, taken by every run that records.             *)
(*                                                                         *)
(* The lock is a file created exclusively, then filled with its holder's   *)
(* host, process ID, Beaker job and token; between the two it is empty, and *)
(* to a reader an empty file is like one it cannot parse.  A lock judged   *)
(* stale is deleted and taken anew.  Every file operation is a step of its  *)
(* own, and a process may be killed between any two.                        *)
(*                                                                         *)
(* A process runs once; its identity is drawn when it starts.  A process   *)
(* ID can come back, on a host or in a container, once its owner is gone.   *)
(***************************************************************************)
EXTENDS Integers, FiniteSets

CONSTANTS Proc,      \* processes that run with --resume or --fresh
          Host, Pid,
          Job,       \* Beaker job IDs, and None outside Beaker
          None,      \* no file, nothing read, no job
          MaxRounds, \* rounds of acquire (2 in the code)
          MaxTries   \* attempts of _create to find its directory (5 in the code)

Identity == [host : Host, pid : Pid, job : Job]

\* A lock file: who created it, and whether its contents are written.
LockFile == [by : Proc, full : BOOLEAN]

ASSUME LockAssumption ==
    /\ None \notin LockFile
    /\ None \notin Identity
    /\ MaxRounds \in Nat \ {0}
    /\ MaxTries \in Nat \ {0}

VARIABLES
    inResults,  \* is the output directory in the Beaker job's own /results
    file,    \* the lock file, or None
    dir,     \* does the model's directory exist
    pc,      \* what each process does next
    who,     \* each process's identity, None before it starts
    round, tries,
    judged,  \* the file a process judged stale, as it read it
    raced    \* history: a takeover deleted a file other than the one it judged

vars == <<inResults, file, dir, pc, who, round, tries, judged, raced>>

Live(p) == pc[p] \notin {"new", "gone"}
Trying(p) == pc[p] \in {"mkdir", "open", "read", "unlink", "write", "readback"}
Held(p) == pc[p] \in {"held", "unlinkOwn"}

-----------------------------------------------------------------------------
\* The contents of f as _read returns them: None for an empty or missing file.
Readable(f) == f # None /\ f.full

PidAlive(h, n) == \E r \in Proc : Live(r) /\ who[r].host = h /\ who[r].pid = n

SameHost(p, f) == who[f.by].host = who[p].host
HolderRuns(p, f) == SameHost(p, f) /\ PidAlive(who[f.by].host, who[f.by].pid)

\* bug: the lock a kill left empty stops the next attempt.
StaleIfReadable(p, f) ==
    /\ ~(Readable(f) /\ who[f.by].pid # who[p].pid /\ HolderRuns(p, f))
    /\ Readable(f)
    /\ \/ who[p].job # None /\ who[f.by].job = who[p].job
       \/ inResults
       \/ SameHost(p, f) /\ ~HolderRuns(p, f)

\* bug: a job's own live processes count as leftovers.
StaleByJobOnly(p, f) ==
    \/ Readable(f) /\ who[p].job # None /\ who[f.by].job = who[p].job
    \/ inResults
    \/ Readable(f) /\ SameHost(p, f) /\ ~HolderRuns(p, f)

\* ProgressLock._stale: a live process of this host is never stale; whatever is
\* left of the same job is, and whatever is left in a job's own results; else
\* only the lock of a process gone from this host.
Stale(p, f) ==
    /\ ~(Readable(f) /\ who[f.by].pid # who[p].pid /\ HolderRuns(p, f))
    /\ \/ Readable(f) /\ who[p].job # None /\ who[f.by].job = who[p].job
       \/ inResults
       \/ Readable(f) /\ SameHost(p, f) /\ ~HolderRuns(p, f)

-----------------------------------------------------------------------------
Init ==
    /\ inResults \in BOOLEAN
    /\ file = None /\ dir = FALSE
    /\ pc = [p \in Proc |-> "new"]
    /\ who = [p \in Proc |-> None]
    /\ round = [p \in Proc |-> 0] /\ tries = [p \in Proc |-> 0]
    /\ judged = [p \in Proc |-> None]
    /\ raced = FALSE

Goto(p, l) == pc' = [pc EXCEPT ![p] = l]

\* Who can be alive together: a host gives a process ID once, a Beaker job runs
\* on one host, and one job at a time owns a /results directory.
CanStart(id) ==
    /\ inResults => id.job # None
    /\ \A q \in Proc : Live(q) =>
        /\ <<who[q].host, who[q].pid>> # <<id.host, id.pid>>
        /\ who[q].job = id.job /\ id.job # None => who[q].host = id.host
        /\ inResults => who[q].job = id.job

Start(p, id) ==
    /\ pc[p] = "new"
    /\ CanStart(id)
    /\ who' = [who EXCEPT ![p] = id]
    /\ round' = [round EXCEPT ![p] = 1]
    /\ Goto(p, "mkdir")
    /\ UNCHANGED <<inResults, file, dir, tries, judged, raced>>

\* _create: make the directory, then create the file in it exclusively.
MakeDir(p) ==
    /\ pc[p] = "mkdir"
    /\ dir' = TRUE
    /\ tries' = [tries EXCEPT ![p] = @ + 1]
    /\ Goto(p, "open")
    /\ UNCHANGED <<inResults, file, who, round, judged, raced>>

\* Another run's release removed the directory meanwhile.
OpenNoDir(p) ==
    /\ pc[p] = "open" /\ ~dir
    /\ Goto(p, IF tries[p] < MaxTries THEN "mkdir" ELSE "refused")
    /\ UNCHANGED <<inResults, file, dir, who, round, tries, judged, raced>>

OpenExists(p) ==
    /\ pc[p] = "open" /\ dir /\ file # None
    /\ Goto(p, "read")
    /\ UNCHANGED <<inResults, file, dir, who, round, tries, judged, raced>>

OpenNew(p) ==
    /\ pc[p] = "open" /\ dir /\ file = None
    /\ file' = [by |-> p, full |-> FALSE]
    /\ Goto(p, "write")
    /\ UNCHANGED <<inResults, dir, who, round, tries, judged, raced>>

ReadHolder(p) ==
    /\ pc[p] = "read"
    /\ judged' = [judged EXCEPT ![p] = file]
    /\ Goto(p, IF Stale(p, file) THEN "unlink" ELSE "refused")
    /\ UNCHANGED <<inResults, file, dir, who, round, tries, raced>>

\* Taking over: whatever file is there now goes.
TakeOver(p) ==
    /\ pc[p] = "unlink"
    /\ file' = None
    /\ raced' = (raced \/ (file # None /\ file # judged[p]))
    /\ round' = [round EXCEPT ![p] = @ + 1]
    /\ tries' = [tries EXCEPT ![p] = 0]
    /\ Goto(p, IF round[p] < MaxRounds THEN "mkdir" ELSE "refused")
    /\ UNCHANGED <<inResults, dir, who, judged>>

\* The contents go to the file this process created, deleted or not.
WriteContents(p) ==
    /\ pc[p] = "write"
    /\ file' = IF file = [by |-> p, full |-> FALSE] THEN [by |-> p, full |-> TRUE] ELSE file
    /\ Goto(p, "readback")
    /\ UNCHANGED <<inResults, dir, who, round, tries, judged, raced>>

ReadBack(p) ==
    /\ pc[p] = "readback"
    /\ Goto(p, IF file = [by |-> p, full |-> TRUE] THEN "held" ELSE "refused")
    /\ UNCHANGED <<inResults, file, dir, who, round, tries, judged, raced>>

\* release: look whose token the file holds, then delete it.
ReleaseRead(p) ==
    /\ pc[p] = "held"
    /\ Goto(p, IF file = [by |-> p, full |-> TRUE] THEN "unlinkOwn" ELSE "rmdir")
    /\ UNCHANGED <<inResults, file, dir, who, round, tries, judged, raced>>

ReleaseUnlink(p) ==
    /\ pc[p] = "unlinkOwn"
    /\ file' = None
    /\ Goto(p, "rmdir")
    /\ UNCHANGED <<inResults, dir, who, round, tries, judged, raced>>

\* remove_empty_progress_dirs: fails unless the directory is empty, and the
\* records may still be in it.
RemoveDir(p) ==
    /\ pc[p] = "rmdir"
    /\ dir' \in {dir} \cup (IF file = None THEN {FALSE} ELSE {})
    /\ Goto(p, "gone")
    /\ UNCHANGED <<inResults, file, who, round, tries, judged, raced>>

Crash(p) ==
    /\ Live(p)
    /\ Goto(p, "gone")
    /\ UNCHANGED <<inResults, file, dir, who, round, tries, judged, raced>>

Acquire(p) ==
    \/ MakeDir(p) \/ OpenNoDir(p) \/ OpenExists(p) \/ OpenNew(p)
    \/ ReadHolder(p) \/ TakeOver(p) \/ WriteContents(p) \/ ReadBack(p)

Release(p) == ReleaseRead(p) \/ ReleaseUnlink(p) \/ RemoveDir(p)

Next ==
    \E p \in Proc :
        \/ \E id \in Identity : Start(p, id)
        \/ MakeDir(p) \/ OpenNoDir(p) \/ OpenExists(p) \/ OpenNew(p)
        \/ ReadHolder(p) \/ TakeOver(p) \/ WriteContents(p) \/ ReadBack(p)
        \/ ReleaseRead(p) \/ ReleaseUnlink(p) \/ RemoveDir(p)
        \/ Crash(p)

Spec == Init /\ [][Next]_vars

\* acquire and release run to their end unless killed.
FairSpec == Spec /\ \A p \in Proc : WF_vars(Acquire(p) \/ Release(p))

-----------------------------------------------------------------------------
PCs == {"new", "mkdir", "open", "read", "unlink", "write", "readback", "held",
        "unlinkOwn", "rmdir", "refused", "gone"}

\* Every variable has its type.
TypeOK ==
    /\ inResults \in BOOLEAN
    /\ file \in LockFile \cup {None}
    /\ dir \in BOOLEAN
    /\ pc \in [Proc -> PCs]
    /\ who \in [Proc -> Identity \cup {None}]
    /\ round \in [Proc -> 0 .. MaxRounds + 1]
    /\ tries \in [Proc -> 0 .. MaxTries]
    /\ judged \in [Proc -> LockFile \cup {None}]
    /\ raced \in BOOLEAN

\* "Marks a model's progress directory as in use by one recording run": two runs
\* never record at once, but for the accepted case, a takeover that deletes a
\* lock created after the one it judged stale.
OneHolder ==
    ~raced => \A p, q \in Proc : Held(p) /\ Held(q) => p = q

\* As long as a run holds the lock the file is there and its own, so every other
\* run finds it: no stale lock, no release of an earlier holder and no removal of
\* an empty directory takes it away.
HolderOwnsFile ==
    ~raced => \A p \in Proc : Held(p) => file = [by |-> p, full |-> TRUE] /\ dir

\* A lock left by a kill does not stop the next run: where only processes that
\* are gone left one, of this host or in a job's own results, an undisturbed
\* acquire succeeds, wherever the kill fell.
Undisturbed(p) == \A q \in Proc \ {p} : ~Live(q)
Checkable(p) == \/ inResults
                \/ file = None
                \/ file.full /\ SameHost(p, file) /\ who[file.by].pid # who[p].pid
                \/ file.by = p

NextRunStarts ==
    \A p \in Proc :
        (pc[p] = "mkdir" /\ round[p] = 1 /\ tries[p] = 0 /\ Undisturbed(p) /\ Checkable(p))
            ~> (Held(p) \/ pc[p] = "gone" \/ ~Undisturbed(p))
=============================================================================
