-------------------------- MODULE SharedRunProofs --------------------------
(***************************************************************************)
(* Proofs about SharedRun, for any jobs, amount of work, retention, time   *)
(* and faults: type correctness, that no two jobs work in the directory    *)
(* and a live evaluation keeps its lock, and that kills and exceptions     *)
(* never leave a directory that the next job refuses.  And whatever was    *)
(* pruned or lost as long as a trace of the run is left: a completed run   *)
(* is never evaluated again, and a resumed evaluation starts from every    *)
(* record ever committed.                                                  *)
(***************************************************************************)
EXTENDS SharedRun, TLAPS

USE RunAssumption

-----------------------------------------------------------------------------
(* The invariant.                                                          *)

\* One job works in the directory.
OneHolds == \A j, k \in Job : Holds(j) /\ Holds(k) => j = k

\* A supervisor starts its evaluation once and outlives what it publishes.
Staged ==
    \A j \in Job :
        /\ pc[j] \in {"idle", "refused"} \cup Before => child[j] = "none"
        /\ pc[j] \in After => child[j] \notin Live
        /\ pc[j] \in {"publish", "mark", "clear"} => child[j] = "ok"

\* What a supervisor found fresh it works on before it can expire, and what it
\* refreshed stays fresh.
Fresh ==
    \A j \in Job :
        /\ pc[j] \in {"output", "initialize", "check", "reclaim", "refresh"}
              => now - stamp["session"] < Retention
        /\ pc[j] \in {"announce", "launch", "waiting"} \cup After
              => \A f \in File : stamp[f] = now

SessionThere ==
    \A j \in Job : pc[j] \in (Before \ {"opened"}) \cup {"waiting"} \cup After => session # None

\* The progress lock is the recording evaluation's; there is none when one starts.
LockKept ==
    \A j \in Job :
        /\ child[j] \in Recording => locked = j
        /\ pc[j] \in {"refresh", "announce", "launch"} \/ child[j] = "starting" => locked = None

InStep == \A j \in Job : child[j] \in Recording \ {"loading"} => saved <= published

\* While nothing was pruned or lost, a directory without a session is empty ...
Traces == session = None => receipt = None /\ ~output

\* ... each file that the next job relies on is there ...
SessionTrue ==
    session # None =>
        /\ session.initialized => output
        /\ session.completed => complete # None
        /\ session.stream /\ complete = None => index # None

\* ... complete.json is about the outputs, and nobody works on them any more ...
Sealed ==
    complete # None =>
        /\ complete = result
        /\ \A j \in Job :
              /\ child[j] \notin Live
              /\ pc[j] \notin {"reclaim", "refresh", "announce", "launch", "waiting", "publish"}

\* ... the index names what the segments hold ...
Agreed ==
    /\ complete = None => saved = Named
    /\ \A j \in Job :
          /\ child[j] \in Recording \ {"loading"} => published = saved
          /\ child[j] \in Recording \ {"loading", "inventory"} => index # None

\* ... and a supervisor has what its next step needs.
Ready ==
    \A j \in Job :
        /\ pc[j] = "initialize" => output
        /\ pc[j] \in {"waiting", "publish"} /\ child[j] = "ok" => result = j
        /\ pc[j] \in {"mark", "clear"} => complete # None

Admitted == \A j \in Job : why[j] \in {None, "expired"} /\ child[j] \notin {"barred", "mismatch"}

Whole ==
    /\ Traces
    /\ SessionTrue
    /\ Sealed
    /\ Agreed
    /\ Ready
    /\ Admitted

Undamaged == ~pruned /\ damaged = None

Inv ==
    /\ TypeOK
    /\ OneHolds
    /\ Staged
    /\ Fresh
    /\ SessionThere
    /\ LockKept
    /\ InStep

-----------------------------------------------------------------------------
(* Type correctness.                                                       *)

\* What is written into session.json.
LEMMA Sessions ==
    /\ [initialized |-> FALSE, stream |-> FALSE, completed |-> FALSE] \in Session
    /\ \A s \in Session : /\ [s EXCEPT !.initialized = TRUE] \in Session
                          /\ [s EXCEPT !.stream = TRUE] \in Session
                          /\ [s EXCEPT !.completed = TRUE] \in Session
BY DEF Session

\* Nothing has happened.
LEMMA InitHolds == Init => Inv
<1> SUFFICES ASSUME Init PROVE Inv
    OBVIOUS
<1> USE DEF Init
<1>1. TypeOK
  <2>1. 0 \in 0..Work /\ 0 \in 0..MaxTime /\ 0 \in 0..MaxFaults
    OBVIOUS
  <2>2. "idle" \in SupervisorPc /\ "none" \in ChildPc
    BY DEF SupervisorPc, ChildPc
  <2>3. output \in BOOLEAN /\ pruned \in BOOLEAN
    OBVIOUS
  <2> QED
    BY <2>1, <2>2, <2>3 DEF TypeOK
<1>2. OneHolds /\ Staged /\ Fresh /\ SessionThere /\ LockKept /\ InStep
    BY DEF OneHolds, Holds, Staged, Fresh, SessionThere, LockKept, InStep, Supervising, Live,
           Recording, Before, After
<1> QED
    BY <1>1, <1>2 DEF Inv

\* Every step keeps the types.
LEMMA TypeKept == Inv /\ [Next]_vars => TypeOK'
<1> SUFFICES ASSUME Inv, [Next]_vars PROVE TypeOK'
    OBVIOUS
<1> USE DEF TypeOK, volume, history, Goto, Child, Touch, Fault, SupervisorPc, Supervising, Before, After, ChildPc, Live, Ended
<1>a. TypeOK
    BY DEF Inv
<1>1. ASSUME NEW j \in Job, Open(j)
      PROVE  TypeOK'
    BY <1>1, <1>a DEF Open
<1>2. ASSUME NEW j \in Job, ReadSession(j)
      PROVE  TypeOK'
  <2>1. CASE Refuse(j, "expired") /\ UNCHANGED volume
    BY <1>2, <1>a, <2>1 DEF ReadSession, Refuse, Reason
  <2>2. CASE Refuse(j, "session") /\ UNCHANGED volume
    BY <1>2, <1>a, <2>2 DEF ReadSession, Refuse, Reason
  <2>3. CASE Goto(j, "opened", "output") /\ UNCHANGED <<volume, why>>
    BY <1>2, <1>a, <2>3 DEF ReadSession
  <2>4. CASE /\ session' = [initialized |-> FALSE, stream |-> FALSE, completed |-> FALSE]
             /\ Touch({"session"})
             /\ Goto(j, "opened", "output")
             /\ UNCHANGED <<output, index, saved, locked, result, complete, why>>
    BY <1>2, <1>a, <2>4, Sessions DEF ReadSession
  <2> QED
    BY <1>2, <2>1, <2>2, <2>3, <2>4 DEF ReadSession
<1>3. ASSUME NEW j \in Job, MakeOutput(j)
      PROVE  TypeOK'
  <2>1. output' \in BOOLEAN
    BY <1>3, <1>a DEF MakeOutput
  <2>2. pc' \in [Job -> SupervisorPc] /\ why' \in [Job -> Reason \cup {None}]
    <3>1. CASE Refuse(j, "output")
      BY <1>a, <3>1 DEF Refuse, Reason
    <3>2. CASE Goto(j, "output", "initialize") /\ UNCHANGED why
      BY <1>a, <3>2
    <3> QED
      BY <1>3, <3>1, <3>2 DEF MakeOutput
  <2> QED
    BY <1>3, <1>a, <2>1, <2>2 DEF MakeOutput
<1>4. ASSUME NEW j \in Job, Initialize(j)
      PROVE  TypeOK'
  <2>1. session \in Session
    BY <1>4, <1>a DEF Initialize, Inv, SessionThere
  <2>2. session' \in {session, [session EXCEPT !.initialized = TRUE]}
            /\ stamp' \in {stamp, [f \in File |-> IF f \in {"session"} THEN now ELSE stamp[f]]}
    BY <1>4 DEF Initialize
  <2>3. session' \in Session
    BY <2>1, <2>2, Sessions
  <2>4. stamp' \in [File -> 0..MaxTime]
    BY <1>a, <2>2
  <2> QED
    BY <1>4, <1>a, <2>3, <2>4 DEF Initialize
<1>5. ASSUME NEW j \in Job, Check(j)
      PROVE  TypeOK'
    BY <1>5, <1>a DEF Check, Refuse, Reason
<1>6. ASSUME NEW j \in Job, Reclaim(j)
      PROVE  TypeOK'
    BY <1>6, <1>a DEF Reclaim
<1>7. ASSUME NEW j \in Job, Refresh(j)
      PROVE  TypeOK'
    BY <1>7, <1>a DEF Refresh
<1>8. ASSUME NEW j \in Job, Announce(j)
      PROVE  TypeOK'
    BY <1>8, <1>a DEF Announce
<1>9. ASSUME NEW j \in Job, Launch(j)
      PROVE  TypeOK'
    BY <1>9, <1>a DEF Launch
<1>10. ASSUME NEW j \in Job, Reap(j)
      PROVE  TypeOK'
    BY <1>10, <1>a DEF Reap
<1>11. ASSUME NEW j \in Job, Publish(j)
      PROVE  TypeOK'
    BY <1>11, <1>a DEF Publish
<1>12. ASSUME NEW j \in Job, Mark(j)
      PROVE  TypeOK'
  <2>1. pc[j] = "mark" /\ SessionThere
    BY <1>12 DEF Mark, Inv
  <2>2. session \in Session
    BY <1>a, <2>1 DEF SessionThere
  <2>3. /\ session' = [session EXCEPT !.completed = TRUE]
        /\ stamp' = [f \in File |-> IF f \in {"session"} THEN now ELSE stamp[f]]
        /\ pc' = [pc EXCEPT ![j] = "clear"] /\ finished' = "marked"
        /\ UNCHANGED <<output, index, saved, locked, result, complete, receipt, why, child,
                       published, now, faults, pruned, damaged, durable>>
    BY <1>12 DEF Mark
  <2>4. session' \in Session
    BY <2>2, <2>3, Sessions
  <2>5. stamp' \in [File -> 0..MaxTime] /\ pc' \in [Job -> SupervisorPc]
    BY <1>a, <2>3
  <2> QED
    BY <1>a, <2>3, <2>4, <2>5
<1>13. ASSUME NEW j \in Job, Clear(j)
      PROVE  TypeOK'
    BY <1>13, <1>a DEF Clear
<1>14. ASSUME NEW j \in Job, Conclude(j)
      PROVE  TypeOK'
    BY <1>14, <1>a DEF Conclude
<1>15. ASSUME NEW j \in Job, Report(j)
      PROVE  TypeOK'
    BY <1>15, <1>a DEF Report
<1>16. ASSUME NEW j \in Job, LockProgress(j)
      PROVE  TypeOK'
    BY <1>16, <1>a DEF LockProgress
<1>17. ASSUME NEW j \in Job, Load(j)
      PROVE  TypeOK'
    BY <1>17, <1>a DEF Load
<1>18. ASSUME NEW j \in Job, MakeIndex(j)
      PROVE  TypeOK'
    BY <1>18, <1>a DEF MakeIndex
<1>19. ASSUME NEW j \in Job, Register(j)
      PROVE  TypeOK'
  <2>1. session' = session \/ (session # None /\ session' = [session EXCEPT !.stream = TRUE])
    BY <1>19 DEF Register
  <2>2. stamp' \in {stamp, [f \in File |-> IF f \in {"session"} THEN now ELSE stamp[f]]}
    BY <1>19 DEF Register
  <2>3. session' \in Session \cup {None}
    <3>1. session \in Session \cup {None}
      BY <1>a
    <3>2. CASE session' = session
      BY <3>1, <3>2
    <3>3. CASE session # None /\ session' = [session EXCEPT !.stream = TRUE]
      BY <3>1, <3>3, Sessions
    <3> QED
      BY <2>1, <3>2, <3>3
  <2>4. stamp' \in [File -> 0..MaxTime]
    BY <1>a, <2>2
  <2> QED
    BY <1>19, <1>a, <2>3, <2>4 DEF Register
<1>20. ASSUME NEW j \in Job, Record(j)
      PROVE  TypeOK'
    BY <1>20, <1>a DEF Record, Inv, InStep, Recording, File
<1>21. ASSUME NEW j \in Job, WriteOutputs(j)
      PROVE  TypeOK'
    BY <1>21, <1>a DEF WriteOutputs
<1>22. ASSUME NEW j \in Job, Succeed(j)
      PROVE  TypeOK'
    BY <1>22, <1>a DEF Succeed, Unlocked
<1>23. ASSUME NEW j \in Job, Stop(j)
      PROVE  TypeOK'
    BY <1>23, <1>a DEF Stop, Unlocked
<1>24. ASSUME NEW j \in Job, FailRefresh(j)
      PROVE  TypeOK'
    BY <1>24, <1>a DEF FailRefresh, Unlocked
<1>25. ASSUME NEW j \in Job, KillSupervisor(j)
      PROVE  TypeOK'
    BY <1>25, <1>a DEF KillSupervisor
<1>26. ASSUME NEW j \in Job, KillChild(j)
      PROVE  TypeOK'
    BY <1>26, <1>a DEF KillChild
<1>27. ASSUME NEW j \in Job, KillJob(j)
      PROVE  TypeOK'
    BY <1>27, <1>a DEF KillJob
<1>28. CASE Tick
    BY <1>28, <1>a DEF Tick
<1>29. ASSUME NEW f \in File, Prune(f)
       PROVE  TypeOK'
    BY <1>29, <1>a DEF Prune, Remove
<1>30. ASSUME NEW part \in File \cup Part, Lose(part)
       PROVE  TypeOK'
  <2>1. /\ session' \in {session, None} /\ index' \in {index, None} /\ saved' \in {saved, 0}
        /\ result' \in {result, None} /\ complete' \in {complete, None}
        /\ locked' \in {locked, None} /\ output' \in {output, FALSE}
    BY <1>30 DEF Lose, Remove
  <2>2. output' \in BOOLEAN
    BY <1>a, <2>1
  <2>3. /\ session' \in Session \cup {None} /\ index' \in 0..Work \cup {None} /\ saved' \in 0..Work
        /\ locked' \in Job \cup {None} /\ result' \in Job \cup {None, "partial"}
        /\ complete' \in Job \cup {None, "partial"}
    BY <1>a, <2>1
  <2> QED
    BY <1>30, <1>a, <2>2, <2>3 DEF Lose
<1>31. CASE UNCHANGED vars
    BY <1>31, <1>a DEF vars
<1> QED
    BY <1>1, <1>2, <1>3, <1>4, <1>5, <1>6, <1>7, <1>8, <1>9, <1>10, <1>11, <1>12, <1>13,
       <1>14, <1>15, <1>16, <1>17, <1>18, <1>19, <1>20, <1>21, <1>22, <1>23, <1>24,
       <1>25, <1>26, <1>27, <1>28, <1>29, <1>30, <1>31 DEF Next, Supervisor, Evaluation, Failure

-----------------------------------------------------------------------------
(* One job at a time.                                                      *)

\* A job begins to work only when nobody else does.
LEMMA OneHoldsKept == Inv /\ [Next]_vars => OneHolds'
<1> SUFFICES ASSUME Inv, [Next]_vars PROVE OneHolds'
    OBVIOUS
<1> USE DEF OneHolds, Holds, Goto, Child, Refuse, volume, history, vars, Supervising, Before, After, Live, Ended, Recording
<1>a. pc \in [Job -> SupervisorPc] /\ child \in [Job -> ChildPc]
    BY DEF Inv, TypeOK
<1>b. OneHolds /\ Staged
    BY DEF Inv
<1>1. ASSUME NEW j \in Job, Open(j)
      PROVE  OneHolds'
    BY <1>1, <1>a, <1>b DEF Open
<1>2. ASSUME NEW j \in Job, ReadSession(j)
      PROVE  OneHolds'
    BY <1>2, <1>a, <1>b DEF ReadSession
<1>3. ASSUME NEW j \in Job, MakeOutput(j)
      PROVE  OneHolds'
    BY <1>3, <1>a, <1>b DEF MakeOutput
<1>4. ASSUME NEW j \in Job, Initialize(j)
      PROVE  OneHolds'
    BY <1>4, <1>a, <1>b DEF Initialize
<1>5. ASSUME NEW j \in Job, Check(j)
      PROVE  OneHolds'
    BY <1>5, <1>a, <1>b DEF Check
<1>6. ASSUME NEW j \in Job, Reclaim(j)
      PROVE  OneHolds'
    BY <1>6, <1>a, <1>b DEF Reclaim
<1>7. ASSUME NEW j \in Job, Refresh(j)
      PROVE  OneHolds'
    BY <1>7, <1>a, <1>b DEF Refresh
<1>8. ASSUME NEW j \in Job, Announce(j)
      PROVE  OneHolds'
    BY <1>8, <1>a, <1>b DEF Announce
<1>9. ASSUME NEW j \in Job, Launch(j)
      PROVE  OneHolds'
    BY <1>9, <1>a, <1>b DEF Launch
<1>10. ASSUME NEW j \in Job, Reap(j)
      PROVE  OneHolds'
    BY <1>10, <1>a, <1>b DEF Reap
<1>11. ASSUME NEW j \in Job, Publish(j)
      PROVE  OneHolds'
    BY <1>11, <1>a, <1>b DEF Publish
<1>12. ASSUME NEW j \in Job, Mark(j)
      PROVE  OneHolds'
    BY <1>12, <1>a, <1>b DEF Mark
<1>13. ASSUME NEW j \in Job, Clear(j)
      PROVE  OneHolds'
    BY <1>13, <1>a, <1>b DEF Clear
<1>14. ASSUME NEW j \in Job, Conclude(j)
      PROVE  OneHolds'
    BY <1>14, <1>a, <1>b DEF Conclude
<1>15. ASSUME NEW j \in Job, Report(j)
      PROVE  OneHolds'
    BY <1>15, <1>a, <1>b DEF Report
<1>16. ASSUME NEW j \in Job, LockProgress(j)
      PROVE  OneHolds'
    BY <1>16, <1>a, <1>b DEF LockProgress
<1>17. ASSUME NEW j \in Job, Load(j)
      PROVE  OneHolds'
    BY <1>17, <1>a, <1>b DEF Load
<1>18. ASSUME NEW j \in Job, MakeIndex(j)
      PROVE  OneHolds'
    BY <1>18, <1>a, <1>b DEF MakeIndex
<1>19. ASSUME NEW j \in Job, Register(j)
      PROVE  OneHolds'
    BY <1>19, <1>a, <1>b DEF Register
<1>20. ASSUME NEW j \in Job, Record(j)
      PROVE  OneHolds'
    BY <1>20, <1>a, <1>b DEF Record
<1>21. ASSUME NEW j \in Job, WriteOutputs(j)
      PROVE  OneHolds'
    BY <1>21, <1>a, <1>b DEF WriteOutputs
<1>22. ASSUME NEW j \in Job, Succeed(j)
      PROVE  OneHolds'
    BY <1>22, <1>a, <1>b DEF Succeed
<1>23. ASSUME NEW j \in Job, Stop(j)
      PROVE  OneHolds'
    BY <1>23, <1>a, <1>b DEF Stop
<1>24. ASSUME NEW j \in Job, FailRefresh(j)
      PROVE  OneHolds'
    BY <1>24, <1>a, <1>b DEF FailRefresh
<1>25. ASSUME NEW j \in Job, KillSupervisor(j)
      PROVE  OneHolds'
    BY <1>25, <1>a, <1>b DEF KillSupervisor
<1>26. ASSUME NEW j \in Job, KillChild(j)
      PROVE  OneHolds'
    BY <1>26, <1>a, <1>b DEF KillChild
<1>27. ASSUME NEW j \in Job, KillJob(j)
      PROVE  OneHolds'
    BY <1>27, <1>a, <1>b DEF KillJob
<1>28. CASE Tick
    BY <1>28, <1>a, <1>b DEF Tick
<1>29. ASSUME NEW f \in File, Prune(f)
       PROVE  OneHolds'
    BY <1>29, <1>a, <1>b DEF Prune, Remove, Exists
<1>30. ASSUME NEW part \in File \cup Part, Lose(part)
       PROVE  OneHolds'
    BY <1>30, <1>a, <1>b DEF Lose, Remove, Exists
<1>31. CASE UNCHANGED vars
    BY <1>31, <1>a, <1>b DEF vars
<1> QED
    BY <1>1, <1>2, <1>3, <1>4, <1>5, <1>6, <1>7, <1>8, <1>9, <1>10, <1>11, <1>12, <1>13,
       <1>14, <1>15, <1>16, <1>17, <1>18, <1>19, <1>20, <1>21, <1>22, <1>23, <1>24,
       <1>25, <1>26, <1>27, <1>28, <1>29, <1>30, <1>31 DEF Next, Supervisor, Evaluation, Failure

\* The evaluation starts once, and what is published is its success.
LEMMA StagedKept == Inv /\ [Next]_vars => Staged'
<1> SUFFICES ASSUME Inv, [Next]_vars PROVE Staged'
    OBVIOUS
<1> USE DEF Staged, Goto, Child, Refuse, volume, history, vars, Supervising, Before, After, Live, Ended, Recording
<1>a. pc \in [Job -> SupervisorPc] /\ child \in [Job -> ChildPc]
    BY DEF Inv, TypeOK
<1>b. Staged
    BY DEF Inv
<1>1. ASSUME NEW j \in Job, Open(j)
      PROVE  Staged'
    BY <1>1, <1>a, <1>b DEF Open
<1>2. ASSUME NEW j \in Job, ReadSession(j)
      PROVE  Staged'
    BY <1>2, <1>a, <1>b DEF ReadSession
<1>3. ASSUME NEW j \in Job, MakeOutput(j)
      PROVE  Staged'
    BY <1>3, <1>a, <1>b DEF MakeOutput
<1>4. ASSUME NEW j \in Job, Initialize(j)
      PROVE  Staged'
    BY <1>4, <1>a, <1>b DEF Initialize
<1>5. ASSUME NEW j \in Job, Check(j)
      PROVE  Staged'
    BY <1>5, <1>a, <1>b DEF Check
<1>6. ASSUME NEW j \in Job, Reclaim(j)
      PROVE  Staged'
    BY <1>6, <1>a, <1>b DEF Reclaim
<1>7. ASSUME NEW j \in Job, Refresh(j)
      PROVE  Staged'
    BY <1>7, <1>a, <1>b DEF Refresh
<1>8. ASSUME NEW j \in Job, Announce(j)
      PROVE  Staged'
    BY <1>8, <1>a, <1>b DEF Announce
<1>9. ASSUME NEW j \in Job, Launch(j)
      PROVE  Staged'
    BY <1>9, <1>a, <1>b DEF Launch
<1>10. ASSUME NEW j \in Job, Reap(j)
      PROVE  Staged'
    BY <1>10, <1>a, <1>b DEF Reap
<1>11. ASSUME NEW j \in Job, Publish(j)
      PROVE  Staged'
    BY <1>11, <1>a, <1>b DEF Publish
<1>12. ASSUME NEW j \in Job, Mark(j)
      PROVE  Staged'
    BY <1>12, <1>a, <1>b DEF Mark
<1>13. ASSUME NEW j \in Job, Clear(j)
      PROVE  Staged'
    BY <1>13, <1>a, <1>b DEF Clear
<1>14. ASSUME NEW j \in Job, Conclude(j)
      PROVE  Staged'
    BY <1>14, <1>a, <1>b DEF Conclude
<1>15. ASSUME NEW j \in Job, Report(j)
      PROVE  Staged'
    BY <1>15, <1>a, <1>b DEF Report
<1>16. ASSUME NEW j \in Job, LockProgress(j)
      PROVE  Staged'
    BY <1>16, <1>a, <1>b DEF LockProgress
<1>17. ASSUME NEW j \in Job, Load(j)
      PROVE  Staged'
    BY <1>17, <1>a, <1>b DEF Load
<1>18. ASSUME NEW j \in Job, MakeIndex(j)
      PROVE  Staged'
    BY <1>18, <1>a, <1>b DEF MakeIndex
<1>19. ASSUME NEW j \in Job, Register(j)
      PROVE  Staged'
    BY <1>19, <1>a, <1>b DEF Register
<1>20. ASSUME NEW j \in Job, Record(j)
      PROVE  Staged'
    BY <1>20, <1>a, <1>b DEF Record
<1>21. ASSUME NEW j \in Job, WriteOutputs(j)
      PROVE  Staged'
    BY <1>21, <1>a, <1>b DEF WriteOutputs
<1>22. ASSUME NEW j \in Job, Succeed(j)
      PROVE  Staged'
    BY <1>22, <1>a, <1>b DEF Succeed
<1>23. ASSUME NEW j \in Job, Stop(j)
      PROVE  Staged'
    BY <1>23, <1>a, <1>b DEF Stop
<1>24. ASSUME NEW j \in Job, FailRefresh(j)
      PROVE  Staged'
    BY <1>24, <1>a, <1>b DEF FailRefresh
<1>25. ASSUME NEW j \in Job, KillSupervisor(j)
      PROVE  Staged'
    BY <1>25, <1>a, <1>b DEF KillSupervisor
<1>26. ASSUME NEW j \in Job, KillChild(j)
      PROVE  Staged'
    BY <1>26, <1>a, <1>b DEF KillChild
<1>27. ASSUME NEW j \in Job, KillJob(j)
      PROVE  Staged'
    BY <1>27, <1>a, <1>b DEF KillJob
<1>28. CASE Tick
    BY <1>28, <1>a, <1>b DEF Tick
<1>29. ASSUME NEW f \in File, Prune(f)
       PROVE  Staged'
    BY <1>29, <1>a, <1>b DEF Prune, Remove, Exists
<1>30. ASSUME NEW part \in File \cup Part, Lose(part)
       PROVE  Staged'
    BY <1>30, <1>a, <1>b DEF Lose, Remove, Exists
<1>31. CASE UNCHANGED vars
    BY <1>31, <1>a, <1>b DEF vars
<1> QED
    BY <1>1, <1>2, <1>3, <1>4, <1>5, <1>6, <1>7, <1>8, <1>9, <1>10, <1>11, <1>12, <1>13,
       <1>14, <1>15, <1>16, <1>17, <1>18, <1>19, <1>20, <1>21, <1>22, <1>23, <1>24,
       <1>25, <1>26, <1>27, <1>28, <1>29, <1>30, <1>31 DEF Next, Supervisor, Evaluation, Failure

\* There are not more records on disk than the evaluation knows of.
LEMMA InStepKept == Inv /\ [Next]_vars => InStep'
<1> SUFFICES ASSUME Inv, [Next]_vars PROVE InStep'
    OBVIOUS
<1> USE DEF InStep, Goto, Child, Refuse, volume, history, vars, Supervising, Before, After, Live, Ended, Recording
<1>a. pc \in [Job -> SupervisorPc] /\ child \in [Job -> ChildPc] /\ saved \in Nat /\ published \in Nat
    BY DEF Inv, TypeOK
<1>b. InStep /\ OneHolds /\ Staged
    BY DEF Inv
<1>1. ASSUME NEW j \in Job, Open(j)
      PROVE  InStep'
    BY <1>1, <1>a, <1>b DEF Open
<1>2. ASSUME NEW j \in Job, ReadSession(j)
      PROVE  InStep'
    BY <1>2, <1>a, <1>b DEF ReadSession
<1>3. ASSUME NEW j \in Job, MakeOutput(j)
      PROVE  InStep'
    BY <1>3, <1>a, <1>b DEF MakeOutput
<1>4. ASSUME NEW j \in Job, Initialize(j)
      PROVE  InStep'
    BY <1>4, <1>a, <1>b DEF Initialize
<1>5. ASSUME NEW j \in Job, Check(j)
      PROVE  InStep'
    BY <1>5, <1>a, <1>b DEF Check
<1>6. ASSUME NEW j \in Job, Reclaim(j)
      PROVE  InStep'
    BY <1>6, <1>a, <1>b DEF Reclaim
<1>7. ASSUME NEW j \in Job, Refresh(j)
      PROVE  InStep'
    BY <1>7, <1>a, <1>b DEF Refresh
<1>8. ASSUME NEW j \in Job, Announce(j)
      PROVE  InStep'
    BY <1>8, <1>a, <1>b DEF Announce
<1>9. ASSUME NEW j \in Job, Launch(j)
      PROVE  InStep'
    BY <1>9, <1>a, <1>b DEF Launch
<1>10. ASSUME NEW j \in Job, Reap(j)
      PROVE  InStep'
    BY <1>10, <1>a, <1>b DEF Reap
<1>11. ASSUME NEW j \in Job, Publish(j)
      PROVE  InStep'
    BY <1>11, <1>a, <1>b DEF Publish
<1>12. ASSUME NEW j \in Job, Mark(j)
      PROVE  InStep'
    BY <1>12, <1>a, <1>b DEF Mark
<1>13. ASSUME NEW j \in Job, Clear(j)
      PROVE  InStep'
    BY <1>13, <1>a, <1>b DEF Clear
<1>14. ASSUME NEW j \in Job, Conclude(j)
      PROVE  InStep'
    BY <1>14, <1>a, <1>b DEF Conclude
<1>15. ASSUME NEW j \in Job, Report(j)
      PROVE  InStep'
    BY <1>15, <1>a, <1>b DEF Report
<1>16. ASSUME NEW j \in Job, LockProgress(j)
      PROVE  InStep'
    BY <1>16, <1>a, <1>b DEF LockProgress
<1>17. ASSUME NEW j \in Job, Load(j)
      PROVE  InStep'
    BY <1>17, <1>a, <1>b DEF Load, OneHolds, Holds
<1>18. ASSUME NEW j \in Job, MakeIndex(j)
      PROVE  InStep'
    BY <1>18, <1>a, <1>b DEF MakeIndex
<1>19. ASSUME NEW j \in Job, Register(j)
      PROVE  InStep'
    BY <1>19, <1>a, <1>b DEF Register
<1>20. ASSUME NEW j \in Job, Record(j)
      PROVE  InStep'
    BY <1>20, <1>a, <1>b DEF Record, OneHolds, Holds
<1>21. ASSUME NEW j \in Job, WriteOutputs(j)
      PROVE  InStep'
    BY <1>21, <1>a, <1>b DEF WriteOutputs
<1>22. ASSUME NEW j \in Job, Succeed(j)
      PROVE  InStep'
    BY <1>22, <1>a, <1>b DEF Succeed
<1>23. ASSUME NEW j \in Job, Stop(j)
      PROVE  InStep'
    BY <1>23, <1>a, <1>b DEF Stop
<1>24. ASSUME NEW j \in Job, FailRefresh(j)
      PROVE  InStep'
    BY <1>24, <1>a, <1>b DEF FailRefresh
<1>25. ASSUME NEW j \in Job, KillSupervisor(j)
      PROVE  InStep'
    BY <1>25, <1>a, <1>b DEF KillSupervisor
<1>26. ASSUME NEW j \in Job, KillChild(j)
      PROVE  InStep'
    BY <1>26, <1>a, <1>b DEF KillChild
<1>27. ASSUME NEW j \in Job, KillJob(j)
      PROVE  InStep'
    BY <1>27, <1>a, <1>b DEF KillJob
<1>28. CASE Tick
    BY <1>28, <1>a, <1>b DEF Tick
<1>29. ASSUME NEW f \in File, Prune(f)
       PROVE  InStep'
    BY <1>29, <1>a, <1>b DEF Prune, Remove, Exists
<1>30. ASSUME NEW part \in File \cup Part, Lose(part)
       PROVE  InStep'
    BY <1>30, <1>a, <1>b DEF Lose, Holds
<1>31. CASE UNCHANGED vars
    BY <1>31, <1>a, <1>b DEF vars
<1> QED
    BY <1>1, <1>2, <1>3, <1>4, <1>5, <1>6, <1>7, <1>8, <1>9, <1>10, <1>11, <1>12, <1>13,
       <1>14, <1>15, <1>16, <1>17, <1>18, <1>19, <1>20, <1>21, <1>22, <1>23, <1>24,
       <1>25, <1>26, <1>27, <1>28, <1>29, <1>30, <1>31 DEF Next, Supervisor, Evaluation, Failure

\* The recording evaluation's lock stays, and there is none when one starts.
LEMMA LockIsKept == Inv /\ [Next]_vars => LockKept'
<1> SUFFICES ASSUME Inv, [Next]_vars PROVE LockKept'
    OBVIOUS
<1> USE DEF LockKept, OneHolds, Holds, Staged, Goto, Child, Refuse, volume, history, vars, Supervising, Before, After, Live, Ended, Recording
<1>a. pc \in [Job -> SupervisorPc] /\ child \in [Job -> ChildPc]
    BY DEF Inv, TypeOK
<1>b. LockKept /\ OneHolds /\ Staged
    BY DEF Inv
<1>1. ASSUME NEW j \in Job, Open(j)
      PROVE  LockKept'
    BY <1>1, <1>a, <1>b DEF Open
<1>2. ASSUME NEW j \in Job, ReadSession(j)
      PROVE  LockKept'
    BY <1>2, <1>a, <1>b DEF ReadSession
<1>3. ASSUME NEW j \in Job, MakeOutput(j)
      PROVE  LockKept'
    BY <1>3, <1>a, <1>b DEF MakeOutput
<1>4. ASSUME NEW j \in Job, Initialize(j)
      PROVE  LockKept'
    BY <1>4, <1>a, <1>b DEF Initialize
<1>5. ASSUME NEW j \in Job, Check(j)
      PROVE  LockKept'
    BY <1>5, <1>a, <1>b DEF Check
<1>6. ASSUME NEW j \in Job, Reclaim(j)
      PROVE  LockKept'
    BY <1>6, <1>a, <1>b DEF Reclaim
<1>7. ASSUME NEW j \in Job, Refresh(j)
      PROVE  LockKept'
    BY <1>7, <1>a, <1>b DEF Refresh
<1>8. ASSUME NEW j \in Job, Announce(j)
      PROVE  LockKept'
    BY <1>8, <1>a, <1>b DEF Announce
<1>9. ASSUME NEW j \in Job, Launch(j)
      PROVE  LockKept'
    BY <1>9, <1>a, <1>b DEF Launch
<1>10. ASSUME NEW j \in Job, Reap(j)
      PROVE  LockKept'
    BY <1>10, <1>a, <1>b DEF Reap
<1>11. ASSUME NEW j \in Job, Publish(j)
      PROVE  LockKept'
    BY <1>11, <1>a, <1>b DEF Publish
<1>12. ASSUME NEW j \in Job, Mark(j)
      PROVE  LockKept'
    BY <1>12, <1>a, <1>b DEF Mark
<1>13. ASSUME NEW j \in Job, Clear(j)
      PROVE  LockKept'
    BY <1>13, <1>a, <1>b DEF Clear
<1>14. ASSUME NEW j \in Job, Conclude(j)
      PROVE  LockKept'
    BY <1>14, <1>a, <1>b DEF Conclude
<1>15. ASSUME NEW j \in Job, Report(j)
      PROVE  LockKept'
    BY <1>15, <1>a, <1>b DEF Report
<1>16. ASSUME NEW j \in Job, LockProgress(j)
      PROVE  LockKept'
    BY <1>16, <1>a, <1>b DEF LockProgress
<1>17. ASSUME NEW j \in Job, Load(j)
      PROVE  LockKept'
    BY <1>17, <1>a, <1>b DEF Load
<1>18. ASSUME NEW j \in Job, MakeIndex(j)
      PROVE  LockKept'
    BY <1>18, <1>a, <1>b DEF MakeIndex
<1>19. ASSUME NEW j \in Job, Register(j)
      PROVE  LockKept'
    BY <1>19, <1>a, <1>b DEF Register
<1>20. ASSUME NEW j \in Job, Record(j)
      PROVE  LockKept'
    BY <1>20, <1>a, <1>b DEF Record
<1>21. ASSUME NEW j \in Job, WriteOutputs(j)
      PROVE  LockKept'
    BY <1>21, <1>a, <1>b DEF WriteOutputs
<1>22. ASSUME NEW j \in Job, Succeed(j)
      PROVE  LockKept'
    BY <1>22, <1>a, <1>b DEF Succeed, Unlocked
<1>23. ASSUME NEW j \in Job, Stop(j)
      PROVE  LockKept'
    BY <1>23, <1>a, <1>b DEF Stop, Unlocked
<1>24. ASSUME NEW j \in Job, FailRefresh(j)
      PROVE  LockKept'
    BY <1>24, <1>a, <1>b DEF FailRefresh, Unlocked
<1>25. ASSUME NEW j \in Job, KillSupervisor(j)
      PROVE  LockKept'
    BY <1>25, <1>a, <1>b DEF KillSupervisor
<1>26. ASSUME NEW j \in Job, KillChild(j)
      PROVE  LockKept'
    BY <1>26, <1>a, <1>b DEF KillChild
<1>27. ASSUME NEW j \in Job, KillJob(j)
      PROVE  LockKept'
    BY <1>27, <1>a, <1>b DEF KillJob
<1>28. CASE Tick
    BY <1>28, <1>a, <1>b DEF Tick
<1>29. ASSUME NEW f \in File, Prune(f)
       PROVE  LockKept'
    BY <1>29, <1>a, <1>b DEF Prune, Remove, Exists
<1>30. ASSUME NEW part \in File \cup Part, Lose(part)
       PROVE  LockKept'
    BY <1>30, <1>a, <1>b DEF Lose, Remove, Exists
<1>31. CASE UNCHANGED vars
    BY <1>31, <1>a, <1>b DEF vars
<1> QED
    BY <1>1, <1>2, <1>3, <1>4, <1>5, <1>6, <1>7, <1>8, <1>9, <1>10, <1>11, <1>12, <1>13,
       <1>14, <1>15, <1>16, <1>17, <1>18, <1>19, <1>20, <1>21, <1>22, <1>23, <1>24,
       <1>25, <1>26, <1>27, <1>28, <1>29, <1>30, <1>31 DEF Next, Supervisor, Evaluation, Failure

\* A supervisor at work has its session.
LEMMA SessionIsThere == Inv /\ [Next]_vars => SessionThere'
<1> SUFFICES ASSUME Inv, [Next]_vars PROVE SessionThere'
    OBVIOUS
<1> USE DEF SessionThere, Goto, Child, Refuse, volume, history, vars, Before, After
<1>a. /\ pc \in [Job -> SupervisorPc] /\ session \in Session \cup {None}
      /\ now \in Nat /\ stamp \in [File -> Nat] /\ "session" \in File
    BY DEF Inv, TypeOK, File
<1>b. SessionThere /\ Fresh /\ OneHolds
    BY DEF Inv
<1>1. ASSUME NEW j \in Job, Open(j)
      PROVE  SessionThere'
    BY <1>1, <1>a, <1>b DEF Open
<1>2. ASSUME NEW j \in Job, ReadSession(j)
      PROVE  SessionThere'
    BY <1>2, <1>a, <1>b, Sessions DEF ReadSession
<1>3. ASSUME NEW j \in Job, MakeOutput(j)
      PROVE  SessionThere'
    BY <1>3, <1>a, <1>b DEF MakeOutput
<1>4. ASSUME NEW j \in Job, Initialize(j)
      PROVE  SessionThere'
  <2>1. session \in Session
    BY <1>4, <1>a, <1>b DEF Initialize
  <2>2. session' \in Session
    BY <1>4, <2>1, Sessions DEF Initialize
  <2> QED
    BY <1>4, <1>a, <1>b, <2>2 DEF Initialize
<1>5. ASSUME NEW j \in Job, Check(j)
      PROVE  SessionThere'
    BY <1>5, <1>a, <1>b DEF Check
<1>6. ASSUME NEW j \in Job, Reclaim(j)
      PROVE  SessionThere'
    BY <1>6, <1>a, <1>b DEF Reclaim
<1>7. ASSUME NEW j \in Job, Refresh(j)
      PROVE  SessionThere'
    BY <1>7, <1>a, <1>b DEF Refresh
<1>8. ASSUME NEW j \in Job, Announce(j)
      PROVE  SessionThere'
    BY <1>8, <1>a, <1>b DEF Announce
<1>9. ASSUME NEW j \in Job, Launch(j)
      PROVE  SessionThere'
    BY <1>9, <1>a, <1>b DEF Launch
<1>10. ASSUME NEW j \in Job, Reap(j)
      PROVE  SessionThere'
    BY <1>10, <1>a, <1>b DEF Reap
<1>11. ASSUME NEW j \in Job, Publish(j)
      PROVE  SessionThere'
    BY <1>11, <1>a, <1>b DEF Publish
<1>12. ASSUME NEW j \in Job, Mark(j)
      PROVE  SessionThere'
  <2>1. session \in Session
    BY <1>12, <1>a, <1>b DEF Mark
  <2>2. session' \in Session
    BY <1>12, <2>1, Sessions DEF Mark
  <2> QED
    BY <1>12, <1>a, <1>b, <2>2 DEF Mark
<1>13. ASSUME NEW j \in Job, Clear(j)
      PROVE  SessionThere'
    BY <1>13, <1>a, <1>b DEF Clear
<1>14. ASSUME NEW j \in Job, Conclude(j)
      PROVE  SessionThere'
    BY <1>14, <1>a, <1>b DEF Conclude
<1>15. ASSUME NEW j \in Job, Report(j)
      PROVE  SessionThere'
    BY <1>15, <1>a, <1>b DEF Report
<1>16. ASSUME NEW j \in Job, LockProgress(j)
      PROVE  SessionThere'
    BY <1>16, <1>a, <1>b DEF LockProgress
<1>17. ASSUME NEW j \in Job, Load(j)
      PROVE  SessionThere'
    BY <1>17, <1>a, <1>b DEF Load
<1>18. ASSUME NEW j \in Job, MakeIndex(j)
      PROVE  SessionThere'
    BY <1>18, <1>a, <1>b DEF MakeIndex
<1>19. ASSUME NEW j \in Job, Register(j)
      PROVE  SessionThere'
  <2>1. session # None => session' # None
    <3>1. session \in Session => [session EXCEPT !.stream = TRUE] \in Session
      BY Sessions
    <3> QED
      BY <1>19, <1>a, <3>1 DEF Register
  <2> QED
    BY <1>19, <1>a, <1>b, <2>1 DEF Register
<1>20. ASSUME NEW j \in Job, Record(j)
      PROVE  SessionThere'
    BY <1>20, <1>a, <1>b DEF Record
<1>21. ASSUME NEW j \in Job, WriteOutputs(j)
      PROVE  SessionThere'
    BY <1>21, <1>a, <1>b DEF WriteOutputs
<1>22. ASSUME NEW j \in Job, Succeed(j)
      PROVE  SessionThere'
    BY <1>22, <1>a, <1>b DEF Succeed
<1>23. ASSUME NEW j \in Job, Stop(j)
      PROVE  SessionThere'
    BY <1>23, <1>a, <1>b DEF Stop
<1>24. ASSUME NEW j \in Job, FailRefresh(j)
      PROVE  SessionThere'
    BY <1>24, <1>a, <1>b DEF FailRefresh
<1>25. ASSUME NEW j \in Job, KillSupervisor(j)
      PROVE  SessionThere'
    BY <1>25, <1>a, <1>b DEF KillSupervisor
<1>26. ASSUME NEW j \in Job, KillChild(j)
      PROVE  SessionThere'
    BY <1>26, <1>a, <1>b DEF KillChild
<1>27. ASSUME NEW j \in Job, KillJob(j)
      PROVE  SessionThere'
    BY <1>27, <1>a, <1>b DEF KillJob
<1>28. CASE Tick
    BY <1>28, <1>a, <1>b DEF Tick
<1>29. ASSUME NEW f \in File, Prune(f)
       PROVE  SessionThere'
  <2>1. CASE f = "session"
    <3>1. now - stamp["session"] >= Retention
      BY <1>29, <2>1 DEF Prune
    <3>2. now - now < Retention
      BY <1>a
    <3>3. \A k \in Job : pc[k] \notin (Before \ {"opened"}) \cup {"waiting"} \cup After
      BY <1>a, <1>b, <3>1, <3>2 DEF Fresh
    <3> QED
      BY <1>29, <3>3 DEF Prune
  <2>2. CASE f # "session"
    BY <1>29, <1>a, <1>b, <2>2 DEF Prune, Remove
  <2> QED
    BY <2>1, <2>2
<1>30. ASSUME NEW part \in File \cup Part, Lose(part)
       PROVE  SessionThere'
    BY <1>30, <1>a, <1>b DEF Lose, Remove, Holds, Supervising
<1>31. CASE UNCHANGED vars
    BY <1>31, <1>a, <1>b DEF vars
<1> QED
    BY <1>1, <1>2, <1>3, <1>4, <1>5, <1>6, <1>7, <1>8, <1>9, <1>10, <1>11, <1>12, <1>13,
       <1>14, <1>15, <1>16, <1>17, <1>18, <1>19, <1>20, <1>21, <1>22, <1>23, <1>24,
       <1>25, <1>26, <1>27, <1>28, <1>29, <1>30, <1>31 DEF Next, Supervisor, Evaluation, Failure

\* What a supervisor has refreshed stays fresh while it works.
LEMMA FreshIsKept == Inv /\ [Next]_vars => Fresh'
<1> SUFFICES ASSUME Inv, [Next]_vars PROVE Fresh'
    OBVIOUS
<1> USE DEF Fresh, Touch, Goto, Child, Refuse, volume, history, vars, Before, After
<1>a. /\ pc \in [Job -> SupervisorPc] /\ stamp \in [File -> Nat] /\ now \in Nat
      /\ "session" \in File
    BY DEF Inv, TypeOK, File
<1>b. Fresh /\ OneHolds /\ Staged
    BY DEF Inv
<1>1. ASSUME NEW j \in Job, Open(j)
      PROVE  Fresh'
    BY <1>1, <1>a, <1>b DEF Open
<1>2. ASSUME NEW j \in Job, ReadSession(j)
      PROVE  Fresh'
    BY <1>2, <1>a, <1>b DEF ReadSession, Expired
<1>3. ASSUME NEW j \in Job, MakeOutput(j)
      PROVE  Fresh'
    BY <1>3, <1>a, <1>b DEF MakeOutput
<1>4. ASSUME NEW j \in Job, Initialize(j)
      PROVE  Fresh'
    BY <1>4, <1>a, <1>b DEF Initialize
<1>5. ASSUME NEW j \in Job, Check(j)
      PROVE  Fresh'
    BY <1>5, <1>a, <1>b DEF Check
<1>6. ASSUME NEW j \in Job, Reclaim(j)
      PROVE  Fresh'
    BY <1>6, <1>a, <1>b DEF Reclaim
<1>7. ASSUME NEW j \in Job, Refresh(j)
      PROVE  Fresh'
    BY <1>7, <1>a, <1>b DEF Refresh
<1>8. ASSUME NEW j \in Job, Announce(j)
      PROVE  Fresh'
    BY <1>8, <1>a, <1>b DEF Announce
<1>9. ASSUME NEW j \in Job, Launch(j)
      PROVE  Fresh'
    BY <1>9, <1>a, <1>b DEF Launch
<1>10. ASSUME NEW j \in Job, Reap(j)
      PROVE  Fresh'
    BY <1>10, <1>a, <1>b DEF Reap
<1>11. ASSUME NEW j \in Job, Publish(j)
      PROVE  Fresh'
    BY <1>11, <1>a, <1>b DEF Publish
<1>12. ASSUME NEW j \in Job, Mark(j)
      PROVE  Fresh'
    BY <1>12, <1>a, <1>b DEF Mark
<1>13. ASSUME NEW j \in Job, Clear(j)
      PROVE  Fresh'
    BY <1>13, <1>a, <1>b DEF Clear
<1>14. ASSUME NEW j \in Job, Conclude(j)
      PROVE  Fresh'
    BY <1>14, <1>a, <1>b DEF Conclude
<1>15. ASSUME NEW j \in Job, Report(j)
      PROVE  Fresh'
    BY <1>15, <1>a, <1>b DEF Report
<1>16. ASSUME NEW j \in Job, LockProgress(j)
      PROVE  Fresh'
    BY <1>16, <1>a, <1>b DEF LockProgress
<1>17. ASSUME NEW j \in Job, Load(j)
      PROVE  Fresh'
    BY <1>17, <1>a, <1>b DEF Load
<1>18. ASSUME NEW j \in Job, MakeIndex(j)
      PROVE  Fresh'
    BY <1>18, <1>a, <1>b DEF MakeIndex
<1>19. ASSUME NEW j \in Job, Register(j)
      PROVE  Fresh'
    BY <1>19, <1>a, <1>b DEF Register
<1>20. ASSUME NEW j \in Job, Record(j)
      PROVE  Fresh'
    BY <1>20, <1>a, <1>b DEF Record
<1>21. ASSUME NEW j \in Job, WriteOutputs(j)
      PROVE  Fresh'
    BY <1>21, <1>a, <1>b DEF WriteOutputs
<1>22. ASSUME NEW j \in Job, Succeed(j)
      PROVE  Fresh'
    BY <1>22, <1>a, <1>b DEF Succeed
<1>23. ASSUME NEW j \in Job, Stop(j)
      PROVE  Fresh'
    BY <1>23, <1>a, <1>b DEF Stop
<1>24. ASSUME NEW j \in Job, FailRefresh(j)
      PROVE  Fresh'
    BY <1>24, <1>a, <1>b DEF FailRefresh
<1>25. ASSUME NEW j \in Job, KillSupervisor(j)
      PROVE  Fresh'
    BY <1>25, <1>a, <1>b DEF KillSupervisor
<1>26. ASSUME NEW j \in Job, KillChild(j)
      PROVE  Fresh'
    BY <1>26, <1>a, <1>b DEF KillChild
<1>27. ASSUME NEW j \in Job, KillJob(j)
      PROVE  Fresh'
    BY <1>27, <1>a, <1>b DEF KillJob
<1>28. CASE Tick
    BY <1>28, <1>a, <1>b DEF Tick
<1>29. ASSUME NEW f \in File, Prune(f)
       PROVE  Fresh'
    BY <1>29, <1>a, <1>b DEF Prune, Remove, Exists
<1>30. ASSUME NEW part \in File \cup Part, Lose(part)
       PROVE  Fresh'
    BY <1>30, <1>a, <1>b DEF Lose, Remove, Exists
<1>31. CASE UNCHANGED vars
    BY <1>31, <1>a, <1>b DEF vars
<1> QED
    BY <1>1, <1>2, <1>3, <1>4, <1>5, <1>6, <1>7, <1>8, <1>9, <1>10, <1>11, <1>12, <1>13,
       <1>14, <1>15, <1>16, <1>17, <1>18, <1>19, <1>20, <1>21, <1>22, <1>23, <1>24,
       <1>25, <1>26, <1>27, <1>28, <1>29, <1>30, <1>31 DEF Next, Supervisor, Evaluation, Failure

-----------------------------------------------------------------------------
(* While nothing was pruned or lost.                                       *)

\* Kills and exceptions leave a directory that the next job goes on with.
LEMMA WholeIsKept == Inv /\ Whole /\ [Next]_vars /\ Undamaged' => Whole'
<1> SUFFICES ASSUME Inv, Whole, [Next]_vars, Undamaged' PROVE Whole'
    OBVIOUS
<1> USE DEF Whole, Traces, SessionTrue, Sealed, Agreed, Named, Ready, Admitted, OneHolds, Holds, Staged, SessionThere, LockKept,
           Goto, Child, Refuse, volume, history, vars, Supervising, Before, After, Live, Recording, Ended
<1>a. /\ pc \in [Job -> SupervisorPc] /\ child \in [Job -> ChildPc] /\ why \in [Job -> Reason \cup {None}]
      /\ session \in Session \cup {None} /\ index \in 0..Work \cup {None} /\ saved \in 0..Work
      /\ published \in 0..Work
      /\ result \in Job \cup {None, "partial"} /\ complete \in Job \cup {None, "partial"}
    BY DEF Inv, TypeOK
<1>b. OneHolds /\ Staged /\ SessionThere /\ LockKept
    BY DEF Inv
<1>1. ASSUME NEW j \in Job, Open(j)
      PROVE  Whole'
    BY <1>1, <1>a, <1>b DEF Open
<1>2. ASSUME NEW j \in Job, ReadSession(j)
      PROVE  Whole'
    BY <1>2, <1>a, <1>b DEF ReadSession
<1>3. ASSUME NEW j \in Job, MakeOutput(j)
      PROVE  Whole'
    BY <1>3, <1>a, <1>b DEF MakeOutput
<1>4. ASSUME NEW j \in Job, Initialize(j)
      PROVE  Whole'
  <2>1. session \in Session
    BY <1>4, <1>a, <1>b DEF Initialize
  <2>2. CASE session' = [session EXCEPT !.initialized = TRUE]
    <3>1. /\ session' \in Session
          /\ session'.initialized /\ session'.stream = session.stream
          /\ session'.completed = session.completed
      BY <2>1, <2>2, Sessions DEF Session
    <3> QED
      BY <1>4, <1>a, <1>b, <2>1, <3>1 DEF Initialize
  <2>3. CASE session' = session
    BY <1>4, <1>a, <1>b, <2>1, <2>3 DEF Initialize
  <2> QED
    BY <1>4, <2>2, <2>3 DEF Initialize
<1>5. ASSUME NEW j \in Job, Check(j)
      PROVE  Whole'
    BY <1>5, <1>a, <1>b DEF Check
<1>6. ASSUME NEW j \in Job, Reclaim(j)
      PROVE  Whole'
    BY <1>6, <1>a, <1>b DEF Reclaim
<1>7. ASSUME NEW j \in Job, Refresh(j)
      PROVE  Whole'
    BY <1>7, <1>a, <1>b DEF Refresh
<1>8. ASSUME NEW j \in Job, Announce(j)
      PROVE  Whole'
    BY <1>8, <1>a, <1>b DEF Announce
<1>9. ASSUME NEW j \in Job, Launch(j)
      PROVE  Whole'
    BY <1>9, <1>a, <1>b DEF Launch
<1>10. ASSUME NEW j \in Job, Reap(j)
      PROVE  Whole'
    BY <1>10, <1>a, <1>b DEF Reap
<1>11. ASSUME NEW j \in Job, Publish(j)
      PROVE  Whole'
    BY <1>11, <1>a, <1>b DEF Publish
<1>12. ASSUME NEW j \in Job, Mark(j)
      PROVE  Whole'
  <2>1. session \in Session
    BY <1>12, <1>a, <1>b DEF Mark
  <2>2. CASE session' = [session EXCEPT !.completed = TRUE]
    <3>1. /\ session' \in Session
          /\ session'.completed /\ session'.stream = session.stream
          /\ session'.initialized = session.initialized
      BY <2>1, <2>2, Sessions DEF Session
    <3>2. Traces' /\ SessionTrue'
      BY <1>12, <1>a, <1>b, <2>1, <3>1 DEF Mark
    <3>3. Sealed'
      BY <1>12, <1>a, <1>b, <2>1, <3>1 DEF Mark
    <3>4. Agreed'
      BY <1>12, <1>a, <1>b, <2>1, <3>1 DEF Mark
    <3>5. Ready'
      BY <1>12, <1>a, <1>b, <2>1, <3>1 DEF Mark
    <3>6. Admitted'
      BY <1>12, <1>a, <1>b, <2>1, <3>1 DEF Mark
    <3> QED
      BY <3>2, <3>3, <3>4, <3>5, <3>6
  <2> QED
    BY <1>12, <2>2 DEF Mark
<1>13. ASSUME NEW j \in Job, Clear(j)
      PROVE  Whole'
    BY <1>13, <1>a, <1>b DEF Clear
<1>14. ASSUME NEW j \in Job, Conclude(j)
      PROVE  Whole'
    BY <1>14, <1>a, <1>b DEF Conclude
<1>15. ASSUME NEW j \in Job, Report(j)
      PROVE  Whole'
    BY <1>15, <1>a, <1>b DEF Report
<1>16. ASSUME NEW j \in Job, LockProgress(j)
      PROVE  Whole'
    BY <1>16, <1>a, <1>b DEF LockProgress
<1>17. ASSUME NEW j \in Job, Load(j)
      PROVE  Whole'
    BY <1>17, <1>a, <1>b DEF Load
<1>18. ASSUME NEW j \in Job, MakeIndex(j)
      PROVE  Whole'
  <2>1. published = saved => saved = Named /\ (index = None => published = 0) /\ complete = None
    BY <1>18, <1>a, <1>b DEF MakeIndex
  <2> QED
    BY <1>18, <1>a, <1>b, <2>1 DEF MakeIndex, Recordable
<1>19. ASSUME NEW j \in Job, Register(j)
      PROVE  Whole'
  <2>1. child[j] = "register" /\ index # None
    BY <1>19 DEF Register
  <2>2. CASE session # None /\ session' = [session EXCEPT !.stream = TRUE]
    <3>1. session \in Session
      BY <1>a, <2>2
    <3>2. /\ session' \in Session
          /\ session'.stream /\ session'.initialized = session.initialized
          /\ session'.completed = session.completed
      BY <2>2, <3>1, Sessions DEF Session
    <3> QED
      BY <1>19, <1>a, <1>b, <2>1, <3>1, <3>2 DEF Register
  <2>3. CASE session' = session
    BY <1>19, <1>a, <1>b, <2>3 DEF Register
  <2> QED
    BY <1>19, <2>2, <2>3 DEF Register
<1>20. ASSUME NEW j \in Job, Record(j)
      PROVE  Whole'
    BY <1>20, <1>a, <1>b DEF Record
<1>21. ASSUME NEW j \in Job, WriteOutputs(j)
      PROVE  Whole'
    BY <1>21, <1>a, <1>b DEF WriteOutputs
<1>22. ASSUME NEW j \in Job, Succeed(j)
      PROVE  Whole'
    BY <1>22, <1>a, <1>b DEF Succeed
<1>23. ASSUME NEW j \in Job, Stop(j)
      PROVE  Whole'
    BY <1>23, <1>a, <1>b DEF Stop
<1>24. ASSUME NEW j \in Job, FailRefresh(j)
      PROVE  Whole'
    BY <1>24, <1>a, <1>b DEF FailRefresh
<1>25. ASSUME NEW j \in Job, KillSupervisor(j)
      PROVE  Whole'
    BY <1>25, <1>a, <1>b DEF KillSupervisor
<1>26. ASSUME NEW j \in Job, KillChild(j)
      PROVE  Whole'
    BY <1>26, <1>a, <1>b DEF KillChild
<1>27. ASSUME NEW j \in Job, KillJob(j)
      PROVE  Whole'
    BY <1>27, <1>a, <1>b DEF KillJob
<1>28. CASE Tick
    BY <1>28, <1>a, <1>b DEF Tick
<1>29. ASSUME NEW f \in File, Prune(f)
       PROVE  Whole'
    BY <1>29 DEF Prune, Undamaged
<1>30. ASSUME NEW part \in File \cup Part, Lose(part)
       PROVE  Whole'
    BY <1>30 DEF Lose, Undamaged
<1>31. CASE UNCHANGED vars
    BY <1>31, <1>a, <1>b DEF vars
<1> QED
    BY <1>1, <1>2, <1>3, <1>4, <1>5, <1>6, <1>7, <1>8, <1>9, <1>10, <1>11, <1>12, <1>13,
       <1>14, <1>15, <1>16, <1>17, <1>18, <1>19, <1>20, <1>21, <1>22, <1>23, <1>24,
       <1>25, <1>26, <1>27, <1>28, <1>29, <1>30, <1>31 DEF Next, Supervisor, Evaluation, Failure

\* What was pruned or lost stays recorded as pruned or lost.
LEMMA DamageStays == Inv /\ [Next]_vars /\ Undamaged' => Undamaged
<1> SUFFICES ASSUME Inv, [Next]_vars, Undamaged' PROVE Undamaged
    OBVIOUS
<1> USE DEF Undamaged, history, vars
<1>1. ASSUME NEW j \in Job, Supervisor(j)
      PROVE  Undamaged
    BY <1>1 DEF Supervisor, Open, ReadSession, MakeOutput, Initialize, Check, Reclaim, Refresh,
                Announce, Launch, Reap, Publish, Mark, Clear, Conclude, Report
<1>2. ASSUME NEW j \in Job, Evaluation(j)
      PROVE  Undamaged
    BY <1>2 DEF Evaluation, LockProgress, Load, MakeIndex, Register, Record, WriteOutputs, Succeed
<1>3. ASSUME NEW j \in Job, Failure(j)
      PROVE  Undamaged
    BY <1>3 DEF Failure, Stop, FailRefresh, KillSupervisor, KillChild, KillJob
<1>4. CASE Tick
    BY <1>4 DEF Tick
<1>5. ASSUME NEW f \in File, Prune(f)
      PROVE  Undamaged
    BY <1>5 DEF Prune
<1>6. ASSUME NEW part \in File \cup Part, Lose(part)
      PROVE  Undamaged
    BY <1>6 DEF Lose
<1>7. CASE UNCHANGED vars
    BY <1>7
<1> QED
    BY <1>1, <1>2, <1>3, <1>4, <1>5, <1>6, <1>7 DEF Next

\* The inductive invariant.
SharedInv == Inv /\ (Undamaged => Whole)

\* The inductive invariant holds at the start.
LEMMA SharedInit == Init => SharedInv
<1> SUFFICES ASSUME Init PROVE SharedInv
    OBVIOUS
<1>1. Inv
    BY InitHolds
<1>2. Traces /\ SessionTrue /\ Sealed /\ Agreed /\ Ready /\ Admitted
    BY DEF Init, Traces, SessionTrue, Sealed, Agreed, Named, Ready, Admitted, Recording, Live
<1> QED
    BY <1>1, <1>2 DEF SharedInv, Whole

\* Every step keeps it.
LEMMA SharedStep == SharedInv /\ [Next]_vars => SharedInv'
<1> SUFFICES ASSUME SharedInv, [Next]_vars PROVE SharedInv'
    OBVIOUS
<1>1. Inv
    BY DEF SharedInv
<1>2. Inv'
    BY <1>1, TypeKept, OneHoldsKept, StagedKept, InStepKept, LockIsKept, SessionIsThere, FreshIsKept
       DEF Inv
<1>3. ASSUME Undamaged' PROVE Whole'
  <2>1. Whole
    BY <1>1, <1>3, DamageStays DEF SharedInv
  <2> QED
    BY <1>1, <1>3, <2>1, WholeIsKept
<1> QED
    BY <1>2, <1>3 DEF SharedInv

\* The inductive invariant holds in every reachable state.
LEMMA SharedAlways == Spec => []SharedInv
BY SharedInit, SharedStep, PTL DEF Spec

-----------------------------------------------------------------------------
(* The theorems.                                                           *)

\* Every variable of the shared run keeps its type: in particular no
\* evaluation commits more records than there are (ProgressStore.append).
THEOREM TypeCorrect == Spec => []TypeOK
<1>1. SharedInv => TypeOK
    BY DEF SharedInv, Inv
<1> QED
    BY <1>1, SharedAlways, PTL

\* No two jobs of one submission work in the directory, though either of a
\* supervisor and its evaluation may be killed alone (the inherited flock
\* descriptor of run_shared).
THEOREM OneJobWorks == Spec => []OneHolds
<1>1. SharedInv => OneHolds
    BY DEF SharedInv, Inv
<1> QED
    BY <1>1, SharedAlways, PTL

\* The removal of stale progress locks never takes the lock of an evaluation
\* that still records (resume.py, the removal of */.lock).
THEOREM LiveLockStays == Spec => []LiveLockKept
<1>1. SharedInv => LiveLockKept
    BY DEF SharedInv, Inv, LockKept, LiveLockKept
<1> QED
    BY <1>1, SharedAlways, PTL

\* Wherever supervisors and evaluations are killed or refreshes fail, the next
\* job is not refused but for expiry, and its evaluation finds neither
\* another's lock nor a stream that disagrees with its index.
THEOREM NextJobGoesOn == Spec => []NeverStuck
<1>1. SharedInv => NeverStuck
    BY DEF SharedInv, Undamaged, Whole, Admitted, NeverStuck
<1> QED
    BY <1>1, SharedAlways, PTL

-----------------------------------------------------------------------------
(* Whatever was pruned or lost: the invariant of what is left of a run.    *)

Working == {"check", "reclaim", "refresh", "announce", "launch", "waiting"} \cup After

\* Who works in the directory has an output directory and the outputs it
\* reports; files are no younger than now, and those an evaluation starts from
\* were just refreshed.
Placed ==
    /\ \A j \in Job :
          /\ pc[j] \in Working \cup {"initialize"} \/ child[j] \in Live => output
          /\ pc[j] \in {"waiting", "publish"} /\ child[j] = "ok" => result = j
          /\ child[j] \in {"starting", "loading"} => \A f \in File : stamp[f] = now
    /\ \A f \in File : stamp[f] <= now

Begun == durable # 0 \/ finished # "no" \/ \E j \in Job : pc[j] \in Working \/ child[j] \in Live

\* Once a run has begun, a job either finds its session, or an output directory
\* without one and refuses.
Rooted ==
    Begun =>
        /\ output \/ damaged = "output"
        /\ session = None => output /\ (pruned \/ damaged # None)
        /\ session # None => session.initialized

Final == finished = "marked" \/ (finished = "published" /\ damaged # "complete")

\* Once a run has been completed, a job finds complete.json, a session that
\* says so, or one that has expired.
Over ==
    Final =>
        /\ \A j \in Job :
              /\ child[j] \notin Live
              /\ pc[j] \notin {"reclaim", "refresh", "announce", "launch", "waiting", "publish"}
              /\ pc[j] \in {"clear", "conclude", "receipt"} => finished = "marked"
        /\ finished = "marked" /\ session # None => session.completed
        /\ finished = "published" /\ complete # None => stamp["complete"] >= stamp["session"]
        /\ finished = "published" /\ complete = None => session = None \/ Expired

\* The index names every record committed; without one no evaluation starts,
\* unless nothing was committed: the session says that there was a stream, and
\* it does not outlive the index.
Kept ==
    /\ index # None => index = durable
    /\ durable # 0 /\ session # None =>
          /\ session.stream
          /\ index # None => stamp["index"] >= stamp["session"]
    /\ \A j \in Job :
          /\ pc[j] \in {"reclaim", "refresh", "announce", "launch"} \/ child[j] \in {"starting", "loading"}
                => index # None \/ durable = 0
          /\ child[j] \in Recording \ {"loading"} => published = durable
          /\ child[j] = "recording" /\ session # None => session.stream

-----------------------------------------------------------------------------
(* Every step keeps it.                                                    *)

\* A supervisor refreshes before it launches, and works where it made the output
\* directory.
LEMMA PlacedIsKept == Inv /\ Placed /\ [Next]_vars => Placed'
<1> SUFFICES ASSUME Inv, Placed, [Next]_vars PROVE Placed'
    OBVIOUS
<1> USE DEF Placed, OneHolds, Holds, Staged, SessionThere, Fresh, Working, Goto, Child, Refuse, Touch,
           volume, history, vars, Supervising, Before, After, Live, Recording, Ended, Part
<1>a. /\ pc \in [Job -> SupervisorPc] /\ child \in [Job -> ChildPc]
      /\ session \in Session \cup {None} /\ index \in 0..Work \cup {None} /\ saved \in 0..Work
      /\ published \in 0..Work /\ durable \in 0..Work /\ now \in Nat
      /\ result \in Job \cup {None, "partial"} /\ complete \in Job \cup {None, "partial"}
      /\ stamp \in [File -> Nat] /\ {"session", "index", "segment", "result", "complete"} = File
      /\ output \in BOOLEAN /\ pruned \in BOOLEAN /\ damaged \in {None} \cup File \cup Part
      /\ finished \in {"no", "published", "marked"}
    BY DEF Inv, TypeOK, File
<1>b. OneHolds /\ Staged /\ SessionThere /\ Fresh
    BY DEF Inv
<1>1. ASSUME NEW j \in Job, Open(j)
      PROVE  Placed'
    BY <1>1, <1>a, <1>b DEF Open
<1>2. ASSUME NEW j \in Job, ReadSession(j)
      PROVE  Placed'
    BY <1>2, <1>a, <1>b DEF ReadSession
<1>3. ASSUME NEW j \in Job, MakeOutput(j)
      PROVE  Placed'
    BY <1>3, <1>a, <1>b DEF MakeOutput
<1>4. ASSUME NEW j \in Job, Initialize(j)
      PROVE  Placed'
    BY <1>4, <1>a, <1>b DEF Initialize
<1>5. ASSUME NEW j \in Job, Check(j)
      PROVE  Placed'
    BY <1>5, <1>a, <1>b DEF Check
<1>6. ASSUME NEW j \in Job, Reclaim(j)
      PROVE  Placed'
    BY <1>6, <1>a, <1>b DEF Reclaim
<1>7. ASSUME NEW j \in Job, Refresh(j)
      PROVE  Placed'
    BY <1>7, <1>a, <1>b DEF Refresh
<1>8. ASSUME NEW j \in Job, Announce(j)
      PROVE  Placed'
    BY <1>8, <1>a, <1>b DEF Announce
<1>9. ASSUME NEW j \in Job, Launch(j)
      PROVE  Placed'
    BY <1>9, <1>a, <1>b DEF Launch
<1>10. ASSUME NEW j \in Job, Reap(j)
      PROVE  Placed'
    BY <1>10, <1>a, <1>b DEF Reap
<1>11. ASSUME NEW j \in Job, Publish(j)
      PROVE  Placed'
    BY <1>11, <1>a, <1>b DEF Publish
<1>12. ASSUME NEW j \in Job, Mark(j)
      PROVE  Placed'
    BY <1>12, <1>a, <1>b DEF Mark
<1>13. ASSUME NEW j \in Job, Clear(j)
      PROVE  Placed'
    BY <1>13, <1>a, <1>b DEF Clear
<1>14. ASSUME NEW j \in Job, Conclude(j)
      PROVE  Placed'
    BY <1>14, <1>a, <1>b DEF Conclude
<1>15. ASSUME NEW j \in Job, Report(j)
      PROVE  Placed'
    BY <1>15, <1>a, <1>b DEF Report
<1>16. ASSUME NEW j \in Job, LockProgress(j)
      PROVE  Placed'
    BY <1>16, <1>a, <1>b DEF LockProgress
<1>17. ASSUME NEW j \in Job, Load(j)
      PROVE  Placed'
    BY <1>17, <1>a, <1>b DEF Load
<1>18. ASSUME NEW j \in Job, MakeIndex(j)
      PROVE  Placed'
    BY <1>18, <1>a, <1>b DEF MakeIndex
<1>19. ASSUME NEW j \in Job, Register(j)
      PROVE  Placed'
    BY <1>19, <1>a, <1>b DEF Register
<1>20. ASSUME NEW j \in Job, Record(j)
      PROVE  Placed'
    BY <1>20, <1>a, <1>b DEF Record
<1>21. ASSUME NEW j \in Job, WriteOutputs(j)
      PROVE  Placed'
    BY <1>21, <1>a, <1>b DEF WriteOutputs
<1>22. ASSUME NEW j \in Job, Succeed(j)
      PROVE  Placed'
    BY <1>22, <1>a, <1>b DEF Succeed
<1>23. ASSUME NEW j \in Job, Stop(j)
      PROVE  Placed'
    BY <1>23, <1>a, <1>b DEF Stop
<1>24. ASSUME NEW j \in Job, FailRefresh(j)
      PROVE  Placed'
    BY <1>24, <1>a, <1>b DEF FailRefresh
<1>25. ASSUME NEW j \in Job, KillSupervisor(j)
      PROVE  Placed'
    BY <1>25, <1>a, <1>b DEF KillSupervisor
<1>26. ASSUME NEW j \in Job, KillChild(j)
      PROVE  Placed'
    BY <1>26, <1>a, <1>b DEF KillChild
<1>27. ASSUME NEW j \in Job, KillJob(j)
      PROVE  Placed'
    BY <1>27, <1>a, <1>b DEF KillJob
<1>28. CASE Tick
    BY <1>28, <1>a, <1>b DEF Tick
<1>29. ASSUME NEW f \in File, Prune(f)
       PROVE  Placed'
    BY <1>29, <1>a, <1>b DEF Prune, Remove, Exists
<1>30. ASSUME NEW part \in File \cup Part, Lose(part)
       PROVE  Placed'
    BY <1>30, <1>a, <1>b DEF Lose, Remove, Exists
<1>31. CASE UNCHANGED vars
    BY <1>31, <1>a, <1>b DEF vars
<1> QED
    BY <1>1, <1>2, <1>3, <1>4, <1>5, <1>6, <1>7, <1>8, <1>9, <1>10, <1>11, <1>12, <1>13,
       <1>14, <1>15, <1>16, <1>17, <1>18, <1>19, <1>20, <1>21, <1>22, <1>23, <1>24,
       <1>25, <1>26, <1>27, <1>28, <1>29, <1>30, <1>31 DEF Next, Supervisor, Evaluation, Failure

\* A trace that is gone stays gone.
LEMMA TracesStay == Inv /\ [Next]_vars /\ TracesLeft' => TracesLeft
<1> SUFFICES ASSUME Inv, [Next]_vars, TracesLeft' PROVE TracesLeft
    OBVIOUS
<1> USE DEF TracesLeft, history, vars
<1>a. None # "output"
    BY DEF Part
<1>1. ASSUME NEW j \in Job, Supervisor(j)
      PROVE  TracesLeft
    BY <1>1 DEF Supervisor, Open, ReadSession, MakeOutput, Initialize, Check, Reclaim, Refresh,
                Announce, Launch, Reap, Publish, Mark, Clear, Conclude, Report
<1>2. ASSUME NEW j \in Job, Evaluation(j)
      PROVE  TracesLeft
    BY <1>2 DEF Evaluation, LockProgress, Load, MakeIndex, Register, Record, WriteOutputs, Succeed
<1>3. ASSUME NEW j \in Job, Failure(j)
      PROVE  TracesLeft
    BY <1>3 DEF Failure, Stop, FailRefresh, KillSupervisor, KillChild, KillJob
<1>4. CASE Tick
    BY <1>4 DEF Tick
<1>5. ASSUME NEW f \in File, Prune(f)
      PROVE  TracesLeft
    BY <1>5 DEF Prune
<1>6. ASSUME NEW part \in File \cup Part, Lose(part)
      PROVE  TracesLeft
    BY <1>6, <1>a DEF Lose
<1>7. CASE UNCHANGED vars
    BY <1>7
<1> QED
    BY <1>1, <1>2, <1>3, <1>4, <1>5, <1>6, <1>7 DEF Next

\* A run that has begun keeps a trace that a job without a session refuses at.
LEMMA RootedIsKept == Inv /\ Placed /\ Rooted /\ [Next]_vars /\ TracesLeft' => Rooted'
<1> SUFFICES ASSUME Inv, Placed, Rooted, [Next]_vars, TracesLeft' PROVE Rooted'
    OBVIOUS
<1> USE DEF Placed, Rooted, Begun, TracesLeft, OneHolds, Holds, Staged, SessionThere, Fresh, Working, Goto, Child, Refuse, Touch,
           volume, history, vars, Supervising, Before, After, Live, Recording, Ended, Part
<1>a. /\ pc \in [Job -> SupervisorPc] /\ child \in [Job -> ChildPc]
      /\ session \in Session \cup {None} /\ index \in 0..Work \cup {None} /\ saved \in 0..Work
      /\ published \in 0..Work /\ durable \in 0..Work /\ now \in Nat
      /\ result \in Job \cup {None, "partial"} /\ complete \in Job \cup {None, "partial"}
      /\ stamp \in [File -> Nat] /\ {"session", "index", "segment", "result", "complete"} = File
      /\ output \in BOOLEAN /\ pruned \in BOOLEAN /\ damaged \in {None} \cup File \cup Part
      /\ finished \in {"no", "published", "marked"}
    BY DEF Inv, TypeOK, File
<1>b. OneHolds /\ Staged /\ SessionThere /\ Fresh
    BY DEF Inv
<1>c. TracesLeft'
    OBVIOUS
<1>1. ASSUME NEW j \in Job, Open(j)
      PROVE  Rooted'
    BY <1>1, <1>a, <1>b, <1>c DEF Open
<1>2. ASSUME NEW j \in Job, ReadSession(j)
      PROVE  Rooted'
    BY <1>2, <1>a, <1>b, <1>c DEF ReadSession
<1>3. ASSUME NEW j \in Job, MakeOutput(j)
      PROVE  Rooted'
    BY <1>3, <1>a, <1>b, <1>c DEF MakeOutput
<1>4. ASSUME NEW j \in Job, Initialize(j)
      PROVE  Rooted'
  <2>1. session \in Session
    BY <1>4, <1>a, <1>b DEF Initialize
  <2>2. CASE ~session.initialized
    <3>1. session' = [session EXCEPT !.initialized = TRUE]
      BY <1>4, <2>2 DEF Initialize
    <3>2. session' \in Session /\ session'.initialized
      BY <2>1, <3>1, Sessions DEF Session
    <3>3. session' # None
      BY <3>2
    <3> QED
      BY <1>4, <1>a, <1>b, <1>c, <3>2, <3>3 DEF Initialize
  <2>3. CASE session.initialized
    BY <1>4, <1>a, <1>b, <1>c, <2>1, <2>3 DEF Initialize
  <2> QED
    BY <2>2, <2>3
<1>5. ASSUME NEW j \in Job, Check(j)
      PROVE  Rooted'
    BY <1>5, <1>a, <1>b, <1>c DEF Check
<1>6. ASSUME NEW j \in Job, Reclaim(j)
      PROVE  Rooted'
    BY <1>6, <1>a, <1>b, <1>c DEF Reclaim
<1>7. ASSUME NEW j \in Job, Refresh(j)
      PROVE  Rooted'
    BY <1>7, <1>a, <1>b, <1>c DEF Refresh
<1>8. ASSUME NEW j \in Job, Announce(j)
      PROVE  Rooted'
    BY <1>8, <1>a, <1>b, <1>c DEF Announce
<1>9. ASSUME NEW j \in Job, Launch(j)
      PROVE  Rooted'
    BY <1>9, <1>a, <1>b, <1>c DEF Launch
<1>10. ASSUME NEW j \in Job, Reap(j)
      PROVE  Rooted'
    BY <1>10, <1>a, <1>b, <1>c DEF Reap
<1>11. ASSUME NEW j \in Job, Publish(j)
      PROVE  Rooted'
    BY <1>11, <1>a, <1>b, <1>c DEF Publish
<1>12. ASSUME NEW j \in Job, Mark(j)
      PROVE  Rooted'
  <2>1. session \in Session
    BY <1>12, <1>a, <1>b DEF Mark
  <2>2. CASE session' = [session EXCEPT !.completed = TRUE]
    <3>1. session' \in Session /\ session'.completed /\ session'.initialized = session.initialized
                                 /\ session'.stream = session.stream
      BY <2>1, <2>2, Sessions DEF Session
    <3>2. session' # None
      BY <3>1
    <3> QED
      BY <1>12, <1>a, <1>b, <1>c, <2>1, <3>1, <3>2 DEF Mark
  <2> QED
    BY <1>12, <2>2 DEF Mark
<1>13. ASSUME NEW j \in Job, Clear(j)
      PROVE  Rooted'
    BY <1>13, <1>a, <1>b, <1>c DEF Clear
<1>14. ASSUME NEW j \in Job, Conclude(j)
      PROVE  Rooted'
    BY <1>14, <1>a, <1>b, <1>c DEF Conclude
<1>15. ASSUME NEW j \in Job, Report(j)
      PROVE  Rooted'
    BY <1>15, <1>a, <1>b, <1>c DEF Report
<1>16. ASSUME NEW j \in Job, LockProgress(j)
      PROVE  Rooted'
    BY <1>16, <1>a, <1>b, <1>c DEF LockProgress
<1>17. ASSUME NEW j \in Job, Load(j)
      PROVE  Rooted'
    BY <1>17, <1>a, <1>b, <1>c DEF Load
<1>18. ASSUME NEW j \in Job, MakeIndex(j)
      PROVE  Rooted'
    BY <1>18, <1>a, <1>b, <1>c DEF MakeIndex
<1>19. ASSUME NEW j \in Job, Register(j)
      PROVE  Rooted'
  <2>1. CASE session # None /\ ~session.stream
    <3>1. session \in Session /\ session' = [session EXCEPT !.stream = TRUE]
      BY <1>19, <1>a, <2>1 DEF Register
    <3>2. session' \in Session /\ session'.stream /\ session'.initialized = session.initialized
      BY <3>1, Sessions DEF Session
    <3>3. session' # None
      BY <3>2
    <3> QED
      BY <1>19, <1>a, <1>b, <1>c, <2>1, <3>2, <3>3 DEF Register
  <2>2. CASE session = None \/ session.stream
    BY <1>19, <1>a, <1>b, <1>c, <2>2 DEF Register
  <2> QED
    BY <2>1, <2>2
<1>20. ASSUME NEW j \in Job, Record(j)
      PROVE  Rooted'
    BY <1>20, <1>a, <1>b, <1>c DEF Record
<1>21. ASSUME NEW j \in Job, WriteOutputs(j)
      PROVE  Rooted'
    BY <1>21, <1>a, <1>b, <1>c DEF WriteOutputs
<1>22. ASSUME NEW j \in Job, Succeed(j)
      PROVE  Rooted'
    BY <1>22, <1>a, <1>b, <1>c DEF Succeed
<1>23. ASSUME NEW j \in Job, Stop(j)
      PROVE  Rooted'
    BY <1>23, <1>a, <1>b, <1>c DEF Stop
<1>24. ASSUME NEW j \in Job, FailRefresh(j)
      PROVE  Rooted'
    BY <1>24, <1>a, <1>b, <1>c DEF FailRefresh
<1>25. ASSUME NEW j \in Job, KillSupervisor(j)
      PROVE  Rooted'
    BY <1>25, <1>a, <1>b, <1>c DEF KillSupervisor
<1>26. ASSUME NEW j \in Job, KillChild(j)
      PROVE  Rooted'
    BY <1>26, <1>a, <1>b, <1>c DEF KillChild
<1>27. ASSUME NEW j \in Job, KillJob(j)
      PROVE  Rooted'
    BY <1>27, <1>a, <1>b, <1>c DEF KillJob
<1>28. CASE Tick
    BY <1>28, <1>a, <1>b, <1>c DEF Tick
<1>29. ASSUME NEW f \in File, Prune(f)
       PROVE  Rooted'
    BY <1>29, <1>a, <1>b, <1>c DEF Prune, Remove, Exists
<1>30. ASSUME NEW part \in File \cup Part, Lose(part)
       PROVE  Rooted'
    BY <1>30, <1>a, <1>b, <1>c DEF Lose, Remove, Exists
<1>31. CASE UNCHANGED vars
    BY <1>31, <1>a, <1>b, <1>c DEF vars
<1> QED
    BY <1>1, <1>2, <1>3, <1>4, <1>5, <1>6, <1>7, <1>8, <1>9, <1>10, <1>11, <1>12, <1>13,
       <1>14, <1>15, <1>16, <1>17, <1>18, <1>19, <1>20, <1>21, <1>22, <1>23, <1>24,
       <1>25, <1>26, <1>27, <1>28, <1>29, <1>30, <1>31 DEF Next, Supervisor, Evaluation, Failure

\* A run that was completed stays completed.
LEMMA OverIsKept == Inv /\ Placed /\ Rooted /\ Over /\ [Next]_vars /\ TracesLeft' => Over'
<1> SUFFICES ASSUME Inv, Placed, Rooted, Over, [Next]_vars, TracesLeft' PROVE Over'
    OBVIOUS
<1> USE DEF Placed, Rooted, Begun, Over, Final, Expired, TracesLeft, OneHolds, Holds, Staged, SessionThere, Fresh, Working, Goto, Child, Refuse, Touch,
           volume, history, vars, Supervising, Before, After, Live, Recording, Ended, Part
<1>a. /\ pc \in [Job -> SupervisorPc] /\ child \in [Job -> ChildPc]
      /\ session \in Session \cup {None} /\ index \in 0..Work \cup {None} /\ saved \in 0..Work
      /\ published \in 0..Work /\ durable \in 0..Work /\ now \in Nat
      /\ result \in Job \cup {None, "partial"} /\ complete \in Job \cup {None, "partial"}
      /\ stamp \in [File -> Nat] /\ {"session", "index", "segment", "result", "complete"} = File
      /\ output \in BOOLEAN /\ pruned \in BOOLEAN /\ damaged \in {None} \cup File \cup Part
      /\ finished \in {"no", "published", "marked"}
    BY DEF Inv, TypeOK, File
<1>b. OneHolds /\ Staged /\ SessionThere /\ Fresh
    BY DEF Inv
<1>c. TracesLeft'
    OBVIOUS
<1>1. ASSUME NEW j \in Job, Open(j)
      PROVE  Over'
    BY <1>1, <1>a, <1>b, <1>c DEF Open
<1>2. ASSUME NEW j \in Job, ReadSession(j)
      PROVE  Over'
    BY <1>2, <1>a, <1>b, <1>c DEF ReadSession
<1>3. ASSUME NEW j \in Job, MakeOutput(j)
      PROVE  Over'
    BY <1>3, <1>a, <1>b, <1>c DEF MakeOutput
<1>4. ASSUME NEW j \in Job, Initialize(j)
      PROVE  Over'
    BY <1>4, <1>a, <1>b, <1>c DEF Initialize
<1>5. ASSUME NEW j \in Job, Check(j)
      PROVE  Over'
    BY <1>5, <1>a, <1>b, <1>c DEF Check
<1>6. ASSUME NEW j \in Job, Reclaim(j)
      PROVE  Over'
    BY <1>6, <1>a, <1>b, <1>c DEF Reclaim
<1>7. ASSUME NEW j \in Job, Refresh(j)
      PROVE  Over'
    BY <1>7, <1>a, <1>b, <1>c DEF Refresh
<1>8. ASSUME NEW j \in Job, Announce(j)
      PROVE  Over'
    BY <1>8, <1>a, <1>b, <1>c DEF Announce
<1>9. ASSUME NEW j \in Job, Launch(j)
      PROVE  Over'
    BY <1>9, <1>a, <1>b, <1>c DEF Launch
<1>10. ASSUME NEW j \in Job, Reap(j)
      PROVE  Over'
    BY <1>10, <1>a, <1>b, <1>c DEF Reap
<1>11. ASSUME NEW j \in Job, Publish(j)
      PROVE  Over'
    BY <1>11, <1>a, <1>b, <1>c DEF Publish
<1>12. ASSUME NEW j \in Job, Mark(j)
      PROVE  Over'
  <2>1. session \in Session
    BY <1>12, <1>a, <1>b DEF Mark
  <2>2. CASE session' = [session EXCEPT !.completed = TRUE]
    <3>1. session' \in Session /\ session'.completed /\ session'.initialized = session.initialized
                                 /\ session'.stream = session.stream
      BY <2>1, <2>2, Sessions DEF Session
    <3>2. session' # None
      BY <3>1
    <3> QED
      BY <1>12, <1>a, <1>b, <1>c, <2>1, <3>1, <3>2 DEF Mark
  <2> QED
    BY <1>12, <2>2 DEF Mark
<1>13. ASSUME NEW j \in Job, Clear(j)
      PROVE  Over'
    BY <1>13, <1>a, <1>b, <1>c DEF Clear
<1>14. ASSUME NEW j \in Job, Conclude(j)
      PROVE  Over'
    BY <1>14, <1>a, <1>b, <1>c DEF Conclude
<1>15. ASSUME NEW j \in Job, Report(j)
      PROVE  Over'
    BY <1>15, <1>a, <1>b, <1>c DEF Report
<1>16. ASSUME NEW j \in Job, LockProgress(j)
      PROVE  Over'
    BY <1>16, <1>a, <1>b, <1>c DEF LockProgress
<1>17. ASSUME NEW j \in Job, Load(j)
      PROVE  Over'
    BY <1>17, <1>a, <1>b, <1>c DEF Load
<1>18. ASSUME NEW j \in Job, MakeIndex(j)
      PROVE  Over'
    BY <1>18, <1>a, <1>b, <1>c DEF MakeIndex
<1>19. ASSUME NEW j \in Job, Register(j)
      PROVE  Over'
    BY <1>19, <1>a, <1>b, <1>c DEF Register
<1>20. ASSUME NEW j \in Job, Record(j)
      PROVE  Over'
    BY <1>20, <1>a, <1>b, <1>c DEF Record
<1>21. ASSUME NEW j \in Job, WriteOutputs(j)
      PROVE  Over'
    BY <1>21, <1>a, <1>b, <1>c DEF WriteOutputs
<1>22. ASSUME NEW j \in Job, Succeed(j)
      PROVE  Over'
    BY <1>22, <1>a, <1>b, <1>c DEF Succeed
<1>23. ASSUME NEW j \in Job, Stop(j)
      PROVE  Over'
    BY <1>23, <1>a, <1>b, <1>c DEF Stop
<1>24. ASSUME NEW j \in Job, FailRefresh(j)
      PROVE  Over'
    BY <1>24, <1>a, <1>b, <1>c DEF FailRefresh
<1>25. ASSUME NEW j \in Job, KillSupervisor(j)
      PROVE  Over'
    BY <1>25, <1>a, <1>b, <1>c DEF KillSupervisor
<1>26. ASSUME NEW j \in Job, KillChild(j)
      PROVE  Over'
    BY <1>26, <1>a, <1>b, <1>c DEF KillChild
<1>27. ASSUME NEW j \in Job, KillJob(j)
      PROVE  Over'
    BY <1>27, <1>a, <1>b, <1>c DEF KillJob
<1>28. CASE Tick
    BY <1>28, <1>a, <1>b, <1>c DEF Tick
<1>29. ASSUME NEW f \in File, Prune(f)
       PROVE  Over'
    BY <1>29, <1>a, <1>b, <1>c DEF Prune, Remove, Exists
<1>30. ASSUME NEW part \in File \cup Part, Lose(part)
       PROVE  Over'
    BY <1>30, <1>a, <1>b, <1>c DEF Lose, Remove, Exists
<1>31. CASE UNCHANGED vars
    BY <1>31, <1>a, <1>b, <1>c DEF vars
<1> QED
    BY <1>1, <1>2, <1>3, <1>4, <1>5, <1>6, <1>7, <1>8, <1>9, <1>10, <1>11, <1>12, <1>13,
       <1>14, <1>15, <1>16, <1>17, <1>18, <1>19, <1>20, <1>21, <1>22, <1>23, <1>24,
       <1>25, <1>26, <1>27, <1>28, <1>29, <1>30, <1>31 DEF Next, Supervisor, Evaluation, Failure

\* What was committed stays named, or keeps every evaluation from starting.
LEMMA KeptIsKept == Inv /\ Placed /\ Rooted /\ Kept /\ [Next]_vars /\ TracesLeft' => Kept'
<1> SUFFICES ASSUME Inv, Placed, Rooted, Kept, [Next]_vars, TracesLeft' PROVE Kept'
    OBVIOUS
<1> USE DEF Placed, Rooted, Begun, Kept, TracesLeft, OneHolds, Holds, Staged, SessionThere, Fresh, Working, Goto, Child, Refuse, Touch,
           volume, history, vars, Supervising, Before, After, Live, Recording, Ended, Part
<1>a. /\ pc \in [Job -> SupervisorPc] /\ child \in [Job -> ChildPc]
      /\ session \in Session \cup {None} /\ index \in 0..Work \cup {None} /\ saved \in 0..Work
      /\ published \in 0..Work /\ durable \in 0..Work /\ now \in Nat
      /\ result \in Job \cup {None, "partial"} /\ complete \in Job \cup {None, "partial"}
      /\ stamp \in [File -> Nat] /\ {"session", "index", "segment", "result", "complete"} = File
      /\ output \in BOOLEAN /\ pruned \in BOOLEAN /\ damaged \in {None} \cup File \cup Part
      /\ finished \in {"no", "published", "marked"}
    BY DEF Inv, TypeOK, File
<1>b. OneHolds /\ Staged /\ SessionThere /\ Fresh
    BY DEF Inv
<1>c. TracesLeft'
    OBVIOUS
<1>1. ASSUME NEW j \in Job, Open(j)
      PROVE  Kept'
    BY <1>1, <1>a, <1>b, <1>c DEF Open
<1>2. ASSUME NEW j \in Job, ReadSession(j)
      PROVE  Kept'
    BY <1>2, <1>a, <1>b, <1>c DEF ReadSession
<1>3. ASSUME NEW j \in Job, MakeOutput(j)
      PROVE  Kept'
    BY <1>3, <1>a, <1>b, <1>c DEF MakeOutput
<1>4. ASSUME NEW j \in Job, Initialize(j)
      PROVE  Kept'
    BY <1>4, <1>a, <1>b, <1>c DEF Initialize
<1>5. ASSUME NEW j \in Job, Check(j)
      PROVE  Kept'
    BY <1>5, <1>a, <1>b, <1>c DEF Check
<1>6. ASSUME NEW j \in Job, Reclaim(j)
      PROVE  Kept'
    BY <1>6, <1>a, <1>b, <1>c DEF Reclaim
<1>7. ASSUME NEW j \in Job, Refresh(j)
      PROVE  Kept'
    BY <1>7, <1>a, <1>b, <1>c DEF Refresh
<1>8. ASSUME NEW j \in Job, Announce(j)
      PROVE  Kept'
    BY <1>8, <1>a, <1>b, <1>c DEF Announce
<1>9. ASSUME NEW j \in Job, Launch(j)
      PROVE  Kept'
    BY <1>9, <1>a, <1>b, <1>c DEF Launch
<1>10. ASSUME NEW j \in Job, Reap(j)
      PROVE  Kept'
    BY <1>10, <1>a, <1>b, <1>c DEF Reap
<1>11. ASSUME NEW j \in Job, Publish(j)
      PROVE  Kept'
    BY <1>11, <1>a, <1>b, <1>c DEF Publish
<1>12. ASSUME NEW j \in Job, Mark(j)
      PROVE  Kept'
  <2>1. session \in Session
    BY <1>12, <1>a, <1>b DEF Mark
  <2>2. CASE session' = [session EXCEPT !.completed = TRUE]
    <3>1. session' \in Session /\ session'.completed /\ session'.initialized = session.initialized
                                 /\ session'.stream = session.stream
      BY <2>1, <2>2, Sessions DEF Session
    <3>2. session' # None
      BY <3>1
    <3> QED
      BY <1>12, <1>a, <1>b, <1>c, <2>1, <3>1, <3>2 DEF Mark
  <2> QED
    BY <1>12, <2>2 DEF Mark
<1>13. ASSUME NEW j \in Job, Clear(j)
      PROVE  Kept'
    BY <1>13, <1>a, <1>b, <1>c DEF Clear
<1>14. ASSUME NEW j \in Job, Conclude(j)
      PROVE  Kept'
    BY <1>14, <1>a, <1>b, <1>c DEF Conclude
<1>15. ASSUME NEW j \in Job, Report(j)
      PROVE  Kept'
    BY <1>15, <1>a, <1>b, <1>c DEF Report
<1>16. ASSUME NEW j \in Job, LockProgress(j)
      PROVE  Kept'
    BY <1>16, <1>a, <1>b, <1>c DEF LockProgress
<1>17. ASSUME NEW j \in Job, Load(j)
      PROVE  Kept'
    BY <1>17, <1>a, <1>b, <1>c DEF Load, Named
<1>18. ASSUME NEW j \in Job, MakeIndex(j)
      PROVE  Kept'
    BY <1>18, <1>a, <1>b, <1>c DEF MakeIndex, Recordable
<1>19. ASSUME NEW j \in Job, Register(j)
      PROVE  Kept'
  <2>1. CASE session # None /\ ~session.stream
    <3>1. session \in Session /\ session' = [session EXCEPT !.stream = TRUE]
      BY <1>19, <1>a, <2>1 DEF Register
    <3>2. session' \in Session /\ session'.stream /\ session'.initialized = session.initialized
      BY <3>1, Sessions DEF Session
    <3>3. session' # None
      BY <3>2
    <3> QED
      BY <1>19, <1>a, <1>b, <1>c, <2>1, <3>2, <3>3 DEF Register
  <2>2. CASE session = None \/ session.stream
    BY <1>19, <1>a, <1>b, <1>c, <2>2 DEF Register
  <2> QED
    BY <2>1, <2>2
<1>20. ASSUME NEW j \in Job, Record(j)
      PROVE  Kept'
    BY <1>20, <1>a, <1>b, <1>c DEF Record
<1>21. ASSUME NEW j \in Job, WriteOutputs(j)
      PROVE  Kept'
    BY <1>21, <1>a, <1>b, <1>c DEF WriteOutputs
<1>22. ASSUME NEW j \in Job, Succeed(j)
      PROVE  Kept'
    BY <1>22, <1>a, <1>b, <1>c DEF Succeed
<1>23. ASSUME NEW j \in Job, Stop(j)
      PROVE  Kept'
    BY <1>23, <1>a, <1>b, <1>c DEF Stop
<1>24. ASSUME NEW j \in Job, FailRefresh(j)
      PROVE  Kept'
    BY <1>24, <1>a, <1>b, <1>c DEF FailRefresh
<1>25. ASSUME NEW j \in Job, KillSupervisor(j)
      PROVE  Kept'
    BY <1>25, <1>a, <1>b, <1>c DEF KillSupervisor
<1>26. ASSUME NEW j \in Job, KillChild(j)
      PROVE  Kept'
    BY <1>26, <1>a, <1>b, <1>c DEF KillChild
<1>27. ASSUME NEW j \in Job, KillJob(j)
      PROVE  Kept'
    BY <1>27, <1>a, <1>b, <1>c DEF KillJob
<1>28. CASE Tick
    BY <1>28, <1>a, <1>b, <1>c DEF Tick
<1>29. ASSUME NEW f \in File, Prune(f)
       PROVE  Kept'
    BY <1>29, <1>a, <1>b, <1>c DEF Prune, Remove, Exists
<1>30. ASSUME NEW part \in File \cup Part, Lose(part)
       PROVE  Kept'
    <2>1. UNCHANGED <<stamp, pc, child, published, durable>> /\ \A j \in Job : ~Holds(j)
        BY <1>30 DEF Lose
    <2>2. session' \in {session, None} /\ index' \in {index, None}
        BY <1>30 DEF Lose, Remove
    <2>3. \A j \in Job : ~(pc[j] \in Supervising) /\ ~(child[j] \in Live)
        BY <2>1
    <2> QED
        BY <1>a, <1>c, <2>1, <2>2, <2>3
<1>31. CASE UNCHANGED vars
    BY <1>31, <1>a, <1>b, <1>c DEF vars
<1> QED
    BY <1>1, <1>2, <1>3, <1>4, <1>5, <1>6, <1>7, <1>8, <1>9, <1>10, <1>11, <1>12, <1>13,
       <1>14, <1>15, <1>16, <1>17, <1>18, <1>19, <1>20, <1>21, <1>22, <1>23, <1>24,
       <1>25, <1>26, <1>27, <1>28, <1>29, <1>30, <1>31 DEF Next, Supervisor, Evaluation, Failure

-----------------------------------------------------------------------------
(* The theorems.                                                           *)

\* The inductive invariant.
ResumeInv == SharedInv /\ Placed /\ (TracesLeft => Rooted /\ Over /\ Kept)

\* The inductive invariant holds at the start.
LEMMA ResumeInit == Init => ResumeInv
<1> SUFFICES ASSUME Init PROVE ResumeInv
    OBVIOUS
<1>1. SharedInv
    BY SharedInit
<1>2. Placed /\ Rooted /\ Over /\ Kept
    BY DEF Init, Placed, Rooted, Begun, Over, Final, Kept, Working, After, Recording, Live, File
<1> QED
    BY <1>1, <1>2 DEF ResumeInv

\* Every step keeps it.
LEMMA ResumeStep == ResumeInv /\ [Next]_vars => ResumeInv'
<1> SUFFICES ASSUME ResumeInv, [Next]_vars PROVE ResumeInv'
    OBVIOUS
<1>1. Inv /\ SharedInv' /\ Placed'
    BY SharedStep, PlacedIsKept DEF ResumeInv, SharedInv
<1>2. ASSUME TracesLeft' PROVE Rooted' /\ Over' /\ Kept'
  <2>1. Placed /\ Rooted /\ Over /\ Kept
    BY <1>1, <1>2, TracesStay DEF ResumeInv
  <2> QED
    BY <1>1, <1>2, <2>1, RootedIsKept, OverIsKept, KeptIsKept
<1> QED
    BY <1>1, <1>2 DEF ResumeInv

\* The inductive invariant holds in every reachable state.
LEMMA ResumeAlways == Spec => []ResumeInv
BY ResumeInit, ResumeStep, PTL DEF Spec

\* What FinishedIsFinal says of a step, as TracesLeft and Final put it.
FinalStep ==
    TracesLeft /\ Final =>
        /\ \A j \in Job : child'[j] = child[j]
        /\ result' \in {result, None}
        /\ complete' \in {complete, None}

\* No step works in the directory of a run that was completed.
LEMMA FinalIsLeftAlone == ResumeInv /\ [Next]_vars => FinalStep
<1> SUFFICES ASSUME ResumeInv, [Next]_vars, TracesLeft, Final
             PROVE  /\ \A j \in Job : child'[j] = child[j]
                    /\ result' \in {result, None}
                    /\ complete' \in {complete, None}
    BY DEF FinalStep
<1> USE DEF volume, history, vars, Goto, Child, Live, Recording
<1>a. \A j \in Job : child[j] \notin Live /\ pc[j] \notin {"launch", "waiting", "publish"}
    BY DEF ResumeInv, Over
<1>1. ASSUME NEW j \in Job, Supervisor(j)
      PROVE  UNCHANGED <<child, result, complete>>
    BY <1>1, <1>a DEF Supervisor, Open, ReadSession, MakeOutput, Initialize, Check, Reclaim, Refresh,
                Announce, Launch, Reap, Publish, Mark, Clear, Conclude, Report
<1>2. ASSUME NEW j \in Job, Evaluation(j)
      PROVE  FALSE
    BY <1>2, <1>a DEF Evaluation, LockProgress, Load, MakeIndex, Register, Record, WriteOutputs, Succeed
<1>3. ASSUME NEW j \in Job, Failure(j)
      PROVE  UNCHANGED <<child, result, complete>>
    BY <1>3, <1>a DEF Failure, Stop, FailRefresh, KillSupervisor, KillChild, KillJob
<1>4. CASE Tick
    BY <1>4 DEF Tick
<1>5. ASSUME NEW f \in File, Prune(f)
      PROVE  child' = child /\ result' \in {result, None} /\ complete' \in {complete, None}
    BY <1>5 DEF Prune, Remove
<1>6. ASSUME NEW part \in File \cup Part, Lose(part)
      PROVE  child' = child /\ result' \in {result, None} /\ complete' \in {complete, None}
    BY <1>6 DEF Lose, Remove
<1>7. CASE UNCHANGED vars
    BY <1>7
<1> QED
    BY <1>1, <1>2, <1>3, <1>4, <1>5, <1>6, <1>7 DEF Next

\* A completed run is never evaluated again and its outputs stay, wherever the
\* supervisor was killed between complete.json, the session and the removal of
\* the progress, and whatever the pruner removed since (_publish and run_shared).
THEOREM FinishedStays == Spec => FinishedIsFinal
<1>1. ResumeInv /\ [Next]_vars =>
        [TracesLeft /\ (finished = "marked" \/ (finished = "published" /\ damaged # "complete")) =>
          /\ \A j \in Job : child'[j] = child[j]
          /\ result' \in {result, None}
          /\ complete' \in {complete, None}]_vars
    BY FinalIsLeftAlone DEF FinalStep, Final
<1> QED
    BY <1>1, ResumeAlways, PTL DEF Spec, FinishedIsFinal

\* An evaluation that goes on recording starts from every record ever committed
\* to the stream, whatever was pruned or disappeared in the meantime
\* (_require_streams and ProgressStore.load).
THEOREM NothingLost == Spec => NothingLostOnResume
<1>1. ASSUME ResumeInv, Next
      PROVE  \A j \in Job : TracesLeft /\ child[j] = "loading" /\ child'[j] = "inventory" => saved = durable
  <2> SUFFICES ASSUME NEW j \in Job, TracesLeft, child[j] = "loading", child'[j] = "inventory"
               PROVE  saved = durable
      OBVIOUS
  <2>a. /\ child \in [Job -> ChildPc] /\ Kept /\ OneHolds
        /\ index \in 0..Work \cup {None} /\ saved \in 0..Work
      BY <1>1 DEF ResumeInv, SharedInv, Inv, TypeOK
  <2>1. saved = Named
    <3> USE <2>a DEF volume, history, Goto, Child, Live, Ended, OneHolds, Holds
    <3>1. ASSUME NEW k \in Job, Supervisor(k)
          PROVE  FALSE
      BY <3>1 DEF Supervisor, Open, ReadSession, MakeOutput, Initialize, Check, Reclaim, Refresh,
                  Announce, Launch, Reap, Publish, Mark, Clear, Conclude, Report
    <3>2. ASSUME NEW k \in Job, Evaluation(k)
          PROVE  saved = Named
      BY <3>2 DEF Evaluation, LockProgress, Load, MakeIndex, Register, Record, WriteOutputs, Succeed
    <3>3. ASSUME NEW k \in Job, Failure(k)
          PROVE  FALSE
      BY <3>3 DEF Failure, Stop, FailRefresh, KillSupervisor, KillChild, KillJob
    <3>4. ~Tick /\ (\A f \in File : ~Prune(f)) /\ \A part \in File \cup Part : ~Lose(part)
      BY DEF Tick, Prune, Lose
    <3> QED
      BY <1>1, <3>1, <3>2, <3>3, <3>4 DEF Next
  <2> QED
    BY <2>a, <2>1 DEF Kept, Named
<1> QED
    BY <1>1, ResumeAlways, PTL DEF Spec, NothingLostOnResume

=============================================================================
