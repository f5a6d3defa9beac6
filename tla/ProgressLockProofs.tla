------------------------- MODULE ProgressLockProofs -------------------------
(***************************************************************************)
(* ProgressLock is type correct, and at most one run holds it, for any     *)
(* number of processes, hosts, process IDs and jobs.                       *)
(*                                                                         *)
(* That a holder owns the file is not inductive: a process about to take   *)
(* over must not find the file of a run that has meanwhile come to hold    *)
(* it.  It judged the owner of the file it read to be gone (JudgedGone),   *)
(* rightly, because live processes have identities apart (Apart), and one  *)
(* that is gone never comes back.                                          *)
(***************************************************************************)
EXTENDS ProgressLock, TLAPS

\* A process that has started has an identity.
Identified == \A p \in Proc : pc[p] # "new" => who[p] \in Identity

\* What CanStart keeps true of the live processes.
Apart ==
    \A p \in Proc : Live(p) =>
        /\ inResults => who[p].job # None
        /\ \A q \in Proc \ {p} : Live(q) =>
              /\ ~ (who[p].host = who[q].host /\ who[p].pid = who[q].pid)
              /\ who[p].job = who[q].job /\ who[p].job # None => who[p].host = who[q].host
              /\ inResults => who[p].job = who[q].job

\* The rounds and attempts left to a process that is acquiring.
Bounded ==
    \A p \in Proc :
        /\ Trying(p) => round[p] \in 1 .. MaxRounds
        /\ pc[p] \in {"new", "mkdir"} => tries[p] < MaxTries

\* The file is in its directory, and its creator has gone on from creating it.
FileCreated ==
    file # None => /\ dir
                   /\ pc[file.by] \notin {"new", "mkdir", "open", "read", "unlink"}

\* The owner of a readable file judged stale is gone.
JudgedGone ==
    \A p \in Proc :
        pc[p] = "unlink" /\ judged[p] # None =>
            (judged[p].full => pc[judged[p].by] = "gone")

IInv ==
    /\ TypeOK
    /\ Identified
    /\ Apart
    /\ Bounded
    /\ FileCreated
    /\ JudgedGone
    /\ HolderOwnsFile

\* A file judged stale that could be read has an owner that is gone: a live owner
\* on the reader's host would be seen, and one on another host is of another job.
LEMMA StaleOwnerGone ==
    ASSUME TypeOK, Identified, Apart, FileCreated,
           NEW p \in Proc, pc[p] = "read", Stale(p, file), Readable(file)
    PROVE  pc[file.by] = "gone"
<1> DEFINE q == file.by
<1>1. file \in LockFile /\ q \in Proc /\ file # None
  BY DEF TypeOK, Readable, LockFile
<1>2. q # p /\ pc[q] # "new"
  BY <1>1 DEF FileCreated
<1>3. SUFFICES ASSUME Live(q) PROVE FALSE
  BY <1>1, <1>2 DEF Live, TypeOK, PCs
<1>4. Live(p)
  BY DEF Live
<1>5. /\ ~ (who[p].host = who[q].host /\ who[p].pid = who[q].pid)
      /\ who[p].job = who[q].job /\ who[p].job # None => who[p].host = who[q].host
      /\ inResults => who[p].job = who[q].job
      /\ inResults => who[p].job # None
  BY <1>1, <1>2, <1>3, <1>4 DEF Apart
<1>6. SameHost(p, file) => HolderRuns(p, file)
  BY <1>1, <1>3 DEF HolderRuns, SameHost, PidAlive
<1>7. SameHost(p, file)
  BY <1>5, <1>6 DEF Stale, SameHost
<1> QED
  BY <1>5, <1>6, <1>7 DEF Stale, SameHost

LEMMA WrittenFile ==
    ASSUME NEW p \in Proc, NEW b \in BOOLEAN
    PROVE  [by |-> p, full |-> b] \in LockFile /\ [by |-> p, full |-> b] # None
<1>1. [by |-> p, full |-> b] \in LockFile
  BY DEF LockFile
<1> QED
  BY <1>1, LockAssumption

\* Where there is no file nobody holds the lock.
LEMMA NoFileNotHeld ==
    ASSUME HolderOwnsFile, ~raced, file = None
    PROVE  \A q \in Proc : ~Held(q)
<1> SUFFICES ASSUME NEW q \in Proc, Held(q) PROVE FALSE
  OBVIOUS
<1>1. file = [by |-> q, full |-> TRUE]
  BY DEF HolderOwnsFile
<1>2. [by |-> q, full |-> TRUE] # None
  BY WrittenFile
<1> QED
  BY <1>1, <1>2

LEMMA InitIInv == Init => IInv
<1> SUFFICES ASSUME Init PROVE IInv
  OBVIOUS
<1>1. TypeOK
  <2>1. round \in [Proc -> 0 .. MaxRounds + 1] /\ tries \in [Proc -> 0 .. MaxTries]
    BY LockAssumption DEF Init
  <2>2. pc \in [Proc -> PCs]
    BY DEF Init, PCs
  <2>3. /\ inResults \in BOOLEAN /\ dir \in BOOLEAN /\ raced \in BOOLEAN
        /\ file \in LockFile \cup {None}
        /\ who \in [Proc -> Identity \cup {None}]
        /\ judged \in [Proc -> LockFile \cup {None}]
    BY DEF Init
  <2> QED
    BY <2>1, <2>2, <2>3 DEF TypeOK
<1>2. Identified /\ Apart /\ JudgedGone
  BY DEF Init, Identified, Apart, JudgedGone, Live
<1>3. Bounded
  BY LockAssumption DEF Init, Bounded, Trying
<1>4. FileCreated
  BY DEF Init, FileCreated
<1>5. HolderOwnsFile
  BY DEF Init, HolderOwnsFile, Held
<1> QED
  BY <1>1, <1>2, <1>3, <1>4, <1>5 DEF IInv

(***************************************************************************)
(* One conjunct at a time: what each action does to it.                    *)
(***************************************************************************)

LEMMA TypeStep ==
    ASSUME TypeOK, Bounded, [Next]_vars
    PROVE  TypeOK'
<1>1. ASSUME NEW p \in Proc, NEW id \in Identity, Start(p, id) PROVE TypeOK'
  <2>1. 1 \in 0 .. MaxRounds + 1
    BY LockAssumption
  <2> QED
    BY <1>1, <2>1 DEF TypeOK, Start, Goto, PCs
<1>2. ASSUME NEW p \in Proc, MakeDir(p) PROVE TypeOK'
  <2>1. tries[p] \in 0 .. MaxTries /\ tries[p] < MaxTries
    BY <1>2 DEF MakeDir, Bounded, TypeOK
  <2>2. tries[p] + 1 \in 0 .. MaxTries
    BY <2>1, LockAssumption
  <2> QED
    BY <1>2, <2>2 DEF TypeOK, MakeDir, Goto, PCs
<1>3. ASSUME NEW p \in Proc, OpenNoDir(p) \/ OpenExists(p) PROVE TypeOK'
  BY <1>3 DEF TypeOK, OpenNoDir, OpenExists, Goto, PCs
<1>4. ASSUME NEW p \in Proc, OpenNew(p) PROVE TypeOK'
  BY <1>4 DEF TypeOK, OpenNew, Goto, PCs, LockFile
<1>5. ASSUME NEW p \in Proc, ReadHolder(p) PROVE TypeOK'
  BY <1>5 DEF TypeOK, ReadHolder, Goto, PCs
<1>6. ASSUME NEW p \in Proc, TakeOver(p) PROVE TypeOK'
  <2>1. round[p] \in 1 .. MaxRounds
    BY <1>6 DEF TakeOver, Bounded, Trying
  <2>2. round[p] + 1 \in 0 .. MaxRounds + 1 /\ 0 \in 0 .. MaxTries
    BY <2>1, LockAssumption
  <2> QED
    BY <1>6, <2>2 DEF TypeOK, TakeOver, Goto, PCs
<1>7. ASSUME NEW p \in Proc, WriteContents(p) PROVE TypeOK'
  BY <1>7 DEF TypeOK, WriteContents, Goto, PCs, LockFile
<1>8. ASSUME NEW p \in Proc, ReadBack(p) \/ ReleaseRead(p) \/ Crash(p) PROVE TypeOK'
  BY <1>8 DEF TypeOK, ReadBack, ReleaseRead, Crash, Goto, PCs
<1>9. ASSUME NEW p \in Proc, ReleaseUnlink(p) \/ RemoveDir(p) PROVE TypeOK'
  BY <1>9 DEF TypeOK, ReleaseUnlink, RemoveDir, Goto, PCs
<1>10. CASE UNCHANGED vars
  BY <1>10 DEF TypeOK, vars
<1> QED
  BY <1>1, <1>2, <1>3, <1>4, <1>5, <1>6, <1>7, <1>8, <1>9, <1>10 DEF Next

\* What every step but Start has in common: a live process moves, alone, and
\* identities stay.
Moves(p) ==
    /\ Live(p) /\ pc'[p] # "new"
    /\ \A q \in Proc \ {p} : pc'[q] = pc[q]
    /\ who' = who /\ inResults' = inResults

LEMMA StepMoves ==
    ASSUME TypeOK, NEW p \in Proc, Acquire(p) \/ Release(p) \/ Crash(p)
    PROVE  Moves(p)
<1>1. pc \in [Proc -> PCs]
  BY DEF TypeOK
<1>2. CASE MakeDir(p) \/ OpenNoDir(p) \/ OpenExists(p) \/ OpenNew(p)
  BY <1>1, <1>2 DEF Moves, Live, Goto, MakeDir, OpenNoDir, OpenExists, OpenNew
<1>3. CASE ReadHolder(p) \/ TakeOver(p)
  BY <1>1, <1>3 DEF Moves, Live, Goto, ReadHolder, TakeOver
<1>4. CASE WriteContents(p) \/ ReadBack(p)
  BY <1>1, <1>4 DEF Moves, Live, Goto, WriteContents, ReadBack
<1>5. CASE Release(p) \/ Crash(p)
  BY <1>1, <1>5 DEF Moves, Live, Goto, Release, ReleaseRead, ReleaseUnlink, RemoveDir, Crash
<1> QED
  BY <1>2, <1>3, <1>4, <1>5 DEF Acquire

LEMMA NextIs ==
    ASSUME [Next]_vars
    PROVE  \/ \E p \in Proc, id \in Identity : Start(p, id)
           \/ \E p \in Proc : Acquire(p) \/ Release(p) \/ Crash(p)
           \/ UNCHANGED vars
BY DEF Next, Acquire, Release

LEMMA IdentifiedStep ==
    ASSUME TypeOK, Identified, [Next]_vars
    PROVE  Identified'
<1>1. ASSUME NEW p \in Proc, NEW id \in Identity, Start(p, id) PROVE Identified'
  BY <1>1 DEF TypeOK, Identified, Start, Goto
<1>2. ASSUME NEW p \in Proc, Acquire(p) \/ Release(p) \/ Crash(p) PROVE Identified'
  <2>1. Moves(p)
    BY <1>2, StepMoves
  <2> QED
    BY <2>1 DEF Identified, Moves, Live
<1>3. CASE UNCHANGED vars
  BY <1>3 DEF Identified, vars
<1> QED
  BY <1>1, <1>2, <1>3, NextIs

LEMMA ApartStep ==
    ASSUME TypeOK, Identified, Apart, [Next]_vars
    PROVE  Apart'
<1>1. ASSUME NEW p \in Proc, NEW id \in Identity, Start(p, id) PROVE Apart'
  <2>1. /\ who' = [who EXCEPT ![p] = id] /\ pc' = [pc EXCEPT ![p] = "mkdir"]
        /\ inResults' = inResults /\ CanStart(id)
    BY <1>1 DEF Start, Goto
  <2>2. who'[p] = id /\ \A q \in Proc \ {p} : who'[q] = who[q] /\ pc'[q] = pc[q]
    BY <2>1 DEF TypeOK
  <2>3. \A q \in Proc \ {p} : Live(q)' <=> Live(q)
    BY <2>2 DEF Live
  <2>4. inResults => id.job # None
    BY <2>1 DEF CanStart
  <2>5. \A q \in Proc \ {p} : Live(q) =>
            /\ ~ (who[q].host = id.host /\ who[q].pid = id.pid)
            /\ who[q].job = id.job /\ id.job # None => who[q].host = id.host
            /\ inResults => who[q].job = id.job
    BY <2>1 DEF CanStart
  <2>6. ASSUME NEW a \in Proc, Live(a)' PROVE inResults' => who'[a].job # None
    BY <2>1, <2>2, <2>3, <2>4, <2>6 DEF Apart
  <2>7. ASSUME NEW a \in Proc, NEW b \in Proc \ {a}, Live(a)', Live(b)'
        PROVE  /\ ~ (who'[a].host = who'[b].host /\ who'[a].pid = who'[b].pid)
               /\ who'[a].job = who'[b].job /\ who'[a].job # None =>
                      who'[a].host = who'[b].host
               /\ inResults' => who'[a].job = who'[b].job
    <3>1. CASE a = p
      BY <3>1, <2>1, <2>2, <2>3, <2>5, <2>7
    <3>2. CASE b = p
      BY <3>2, <2>1, <2>2, <2>3, <2>5, <2>7
    <3>3. CASE a # p /\ b # p
      BY <3>3, <2>1, <2>2, <2>3, <2>7 DEF Apart
    <3> QED
      BY <3>1, <3>2, <3>3
  <2> QED
    BY <2>6, <2>7 DEF Apart
<1>2. ASSUME NEW p \in Proc, Acquire(p) \/ Release(p) \/ Crash(p) PROVE Apart'
  <2>1. Moves(p)
    BY <1>2, StepMoves
  <2>2. \A q \in Proc : Live(q)' => Live(q)
    BY <2>1 DEF Moves, Live
  <2> QED
    BY <2>1, <2>2 DEF Apart, Moves
<1>3. CASE UNCHANGED vars
  BY <1>3 DEF Apart, Live, vars
<1> QED
  BY <1>1, <1>2, <1>3, NextIs

LEMMA BoundedStep ==
    ASSUME TypeOK, Bounded, [Next]_vars
    PROVE  Bounded'
<1> USE DEF Bounded, Trying, Goto
<1>1. ASSUME NEW p \in Proc, NEW id \in Identity, Start(p, id) PROVE Bounded'
  BY <1>1, LockAssumption DEF TypeOK, Start
<1>2. ASSUME NEW p \in Proc, MakeDir(p) PROVE Bounded'
  BY <1>2 DEF TypeOK, MakeDir
<1>3. ASSUME NEW p \in Proc, OpenNoDir(p) PROVE Bounded'
  BY <1>3 DEF TypeOK, OpenNoDir
<1>4. ASSUME NEW p \in Proc, TakeOver(p) PROVE Bounded'
  BY <1>4, LockAssumption DEF TypeOK, TakeOver
<1>5. ASSUME NEW p \in Proc, OpenExists(p) \/ OpenNew(p) \/ ReadHolder(p) PROVE Bounded'
  BY <1>5 DEF TypeOK, OpenExists, OpenNew, ReadHolder
<1>6. ASSUME NEW p \in Proc, WriteContents(p) \/ ReadBack(p) \/ Crash(p) PROVE Bounded'
  BY <1>6 DEF TypeOK, WriteContents, ReadBack, Crash
<1>7. ASSUME NEW p \in Proc, Release(p) PROVE Bounded'
  BY <1>7 DEF TypeOK, Release, ReleaseRead, ReleaseUnlink, RemoveDir
<1>8. CASE UNCHANGED vars
  BY <1>8 DEF vars
<1> QED
  BY <1>1, <1>2, <1>3, <1>4, <1>5, <1>6, <1>7, <1>8, NextIs DEF Acquire

LEMMA FileCreatedStep ==
    ASSUME TypeOK, FileCreated, [Next]_vars
    PROVE  FileCreated'
<1> USE DEF FileCreated, Goto
<1>1. ASSUME NEW p \in Proc, NEW id \in Identity, Start(p, id) PROVE FileCreated'
  BY <1>1 DEF TypeOK, LockFile, Start
<1>2. ASSUME NEW p \in Proc, MakeDir(p) \/ OpenNoDir(p) \/ OpenExists(p)
      PROVE  FileCreated'
  BY <1>2 DEF TypeOK, LockFile, MakeDir, OpenNoDir, OpenExists
<1>3. ASSUME NEW p \in Proc, OpenNew(p) PROVE FileCreated'
  BY <1>3 DEF TypeOK, LockFile, OpenNew
<1>4. ASSUME NEW p \in Proc, ReadHolder(p) \/ TakeOver(p) PROVE FileCreated'
  BY <1>4 DEF TypeOK, LockFile, ReadHolder, TakeOver
<1>5. ASSUME NEW p \in Proc, WriteContents(p) PROVE FileCreated'
  <2>1. /\ pc' = [pc EXCEPT ![p] = "readback"] /\ dir' = dir
        /\ file' # None => file # None /\ file'.by = file.by
    <3>1. CASE file = [by |-> p, full |-> FALSE]
      <4>1. file # None /\ file.by = p
        BY <3>1, WrittenFile
      <4>2. file' = [by |-> p, full |-> TRUE]
        BY <1>5, <3>1 DEF WriteContents
      <4> QED
        BY <1>5, <4>1, <4>2 DEF WriteContents
    <3>2. CASE file # [by |-> p, full |-> FALSE]
      BY <1>5, <3>2 DEF WriteContents
    <3> QED
      BY <3>1, <3>2
  <2> QED
    BY <2>1 DEF TypeOK, LockFile
<1>6. ASSUME NEW p \in Proc, ReadBack(p) \/ ReleaseRead(p) \/ Crash(p) PROVE FileCreated'
  BY <1>6 DEF TypeOK, LockFile, ReadBack, ReleaseRead, Crash
<1>7. ASSUME NEW p \in Proc, ReleaseUnlink(p) \/ RemoveDir(p) PROVE FileCreated'
  <2>1. CASE ReleaseUnlink(p)
    BY <2>1 DEF TypeOK, LockFile, ReleaseUnlink
  <2>2. CASE RemoveDir(p)
    BY <2>2 DEF TypeOK, LockFile, RemoveDir
  <2> QED
    BY <1>7, <2>1, <2>2
<1>8. CASE UNCHANGED vars
  BY <1>8 DEF vars
<1> QED
  BY <1>1, <1>2, <1>3, <1>4, <1>5, <1>6, <1>7, <1>8, NextIs DEF Acquire, Release

LEMMA JudgedGoneStep ==
    ASSUME TypeOK, Identified, Apart, FileCreated, JudgedGone, [Next]_vars
    PROVE  JudgedGone'
<1>1. ASSUME NEW p \in Proc, NEW id \in Identity, Start(p, id) PROVE JudgedGone'
  BY <1>1 DEF TypeOK, LockFile, JudgedGone, Start, Goto
<1>2. ASSUME NEW p \in Proc, ReadHolder(p) PROVE JudgedGone'
  <2>1. Moves(p) /\ pc[p] = "read"
    BY <1>2, StepMoves DEF Acquire, ReadHolder
  <2>2. /\ judged' = [judged EXCEPT ![p] = file] /\ file \in LockFile \cup {None}
        /\ pc'[p] = "unlink" => Stale(p, file)
    BY <1>2 DEF TypeOK, ReadHolder, Goto
  <2>3. pc'[p] = "unlink" /\ file # None /\ file.full => pc[file.by] = "gone"
    BY <1>2, <2>1, <2>2, StaleOwnerGone DEF Readable
  <2>4. \A q \in Proc : pc[q] = "gone" => pc'[q] = "gone"
    BY <2>1 DEF Moves, Live
  <2>5. file # None => file.by \in Proc
    BY <2>2 DEF LockFile
  <2> QED
    BY <2>1, <2>2, <2>3, <2>4, <2>5 DEF TypeOK, LockFile, JudgedGone, Moves
<1>3. ASSUME NEW p \in Proc, Acquire(p) \/ Release(p) \/ Crash(p), ~ReadHolder(p)
      PROVE  JudgedGone'
  <2>1. Moves(p)
    BY <1>3, StepMoves
  <2>2. judged' = judged
    BY <1>3 DEF Acquire, Release, Crash, MakeDir, OpenNoDir, OpenExists, OpenNew, TakeOver,
                WriteContents, ReadBack, ReleaseRead, ReleaseUnlink, RemoveDir
  <2>3. pc'[p] # "unlink"
    BY <1>3 DEF TypeOK, Goto, Acquire, Release, Crash, MakeDir, OpenNoDir, OpenExists,
                OpenNew, TakeOver, WriteContents, ReadBack, ReleaseRead, ReleaseUnlink,
                RemoveDir
  <2> QED
    BY <2>1, <2>2, <2>3 DEF TypeOK, LockFile, JudgedGone, Moves, Live
<1>4. CASE UNCHANGED vars
  BY <1>4 DEF JudgedGone, vars
<1> QED
  BY <1>1, <1>2, <1>3, <1>4, NextIs

LEMMA HolderOwnsFileStep ==
    ASSUME TypeOK, FileCreated, JudgedGone, HolderOwnsFile, [Next]_vars
    PROVE  HolderOwnsFile'
<1> USE DEF HolderOwnsFile, Held, Goto
<1>1. ASSUME NEW p \in Proc, NEW id \in Identity, Start(p, id) PROVE HolderOwnsFile'
  BY <1>1 DEF TypeOK, Start
<1>2. ASSUME NEW p \in Proc, MakeDir(p) \/ OpenNoDir(p) \/ OpenExists(p)
      PROVE  HolderOwnsFile'
  BY <1>2 DEF TypeOK, MakeDir, OpenNoDir, OpenExists
<1>3. ASSUME NEW p \in Proc, OpenNew(p) PROVE HolderOwnsFile'
  <2>1. ~raced => \A q \in Proc : ~Held(q)
    BY <1>3, NoFileNotHeld DEF OpenNew
  <2> QED
    BY <1>3, <2>1 DEF TypeOK, OpenNew
<1>4. ASSUME NEW p \in Proc, ReadHolder(p) PROVE HolderOwnsFile'
  BY <1>4 DEF TypeOK, ReadHolder
\* The file taken away is the one judged, or the takeover raced.
<1>5. ASSUME NEW p \in Proc, TakeOver(p) PROVE HolderOwnsFile'
  <2>1. SUFFICES ASSUME ~raced', NEW q \in Proc, Held(q)' PROVE FALSE
    OBVIOUS
  <2>2. ~raced /\ Held(q) /\ (file = None \/ file = judged[p]) /\ pc[p] = "unlink"
    BY <1>5, <2>1 DEF TypeOK, TakeOver
  <2>3. file = [by |-> q, full |-> TRUE] /\ pc[q] # "gone"
    BY <2>2
  <2>4. file # None
    BY <2>3, WrittenFile
  <2>5. judged[p] = file /\ judged[p].full /\ judged[p].by = q
    BY <2>2, <2>3, <2>4
  <2> QED
    BY <2>2, <2>3, <2>4, <2>5 DEF JudgedGone
<1>6. ASSUME NEW p \in Proc, WriteContents(p) PROVE HolderOwnsFile'
  <2>1. SUFFICES ASSUME ~raced', NEW q \in Proc, Held(q)'
                 PROVE  file' = [by |-> q, full |-> TRUE] /\ dir'
    OBVIOUS
  <2>2. ~raced /\ Held(q) /\ dir' = dir
    BY <1>6, <2>1 DEF TypeOK, WriteContents
  <2>3. file = [by |-> q, full |-> TRUE] /\ dir
    BY <2>2
  <2>4. file # [by |-> p, full |-> FALSE]
    BY <2>3
  <2> QED
    BY <1>6, <2>2, <2>3, <2>4 DEF WriteContents
<1>7. ASSUME NEW p \in Proc, ReadBack(p) PROVE HolderOwnsFile'
  <2>1. file = [by |-> p, full |-> TRUE] => dir
    BY WrittenFile DEF FileCreated
  <2> QED
    BY <1>7, <2>1 DEF TypeOK, ReadBack
<1>8. ASSUME NEW p \in Proc, ReleaseRead(p) \/ Crash(p) PROVE HolderOwnsFile'
  <2>1. /\ file' = file /\ dir' = dir /\ raced' = raced
        /\ \A q \in Proc : Held(q)' => Held(q)
    BY <1>8 DEF TypeOK, ReleaseRead, Crash
  <2> QED
    BY <2>1
<1>9. ASSUME NEW p \in Proc, ReleaseUnlink(p) PROVE HolderOwnsFile'
  <2>1. ~raced => \A q \in Proc \ {p} : ~Held(q)
    BY <1>9 DEF ReleaseUnlink
  <2> QED
    BY <1>9, <2>1 DEF TypeOK, ReleaseUnlink
<1>10. ASSUME NEW p \in Proc, RemoveDir(p) PROVE HolderOwnsFile'
  <2>1. file = None /\ ~raced => \A q \in Proc : ~Held(q)
    BY NoFileNotHeld
  <2> QED
    BY <1>10, <2>1 DEF TypeOK, RemoveDir
<1>11. CASE UNCHANGED vars
  BY <1>11 DEF vars
<1> QED
  BY <1>1, <1>2, <1>3, <1>4, <1>5, <1>6, <1>7, <1>8, <1>9, <1>10, <1>11, NextIs
  DEF Acquire, Release

(***************************************************************************)
(* The theorems.                                                           *)
(***************************************************************************)

\* Whatever runs start, interleave and are killed, the parts of IInv hold
\* together: the induction the theorems below rest on.
THEOREM Inductive == Spec => []IInv
<1>1. IInv /\ [Next]_vars => IInv'
  BY TypeStep, IdentifiedStep, ApartStep, BoundedStep, FileCreatedStep, JudgedGoneStep,
     HolderOwnsFileStep
  DEF IInv
<1> QED
  BY <1>1, InitIInv, PTL DEF Spec

\* acquire and release keep every variable in its type; in particular acquire
\* makes no more than MaxRounds rounds and _create no more than MaxTries attempts.
THEOREM TypeCorrect == Spec => []TypeOK
<1>1. IInv => TypeOK
  BY DEF IInv
<1> QED
  BY <1>1, Inductive, PTL

\* A run that holds the lock owns the file, and the file is in its directory,
\* whatever other runs acquire, take over, release or remove, unless a takeover
\* deleted a lock created after the one it judged.
THEOREM HolderOwns == Spec => []HolderOwnsFile
<1>1. IInv => HolderOwnsFile
  BY DEF IInv
<1> QED
  BY <1>1, Inductive, PTL

\* Two runs never hold a model's lock at once, unless a takeover deleted a lock
\* created after the one it judged.
THEOREM OneRunHolds == Spec => []OneHolder
<1>1. HolderOwnsFile => OneHolder
  <2>1. ASSUME HolderOwnsFile, ~raced, NEW p \in Proc, NEW q \in Proc, Held(p), Held(q)
        PROVE  p = q
    <3>1. [by |-> p, full |-> TRUE] = [by |-> q, full |-> TRUE]
      BY <2>1 DEF HolderOwnsFile
    <3> QED
      BY <3>1
  <2> QED
    BY <2>1 DEF OneHolder
<1> QED
  BY <1>1, HolderOwns, PTL
=============================================================================
