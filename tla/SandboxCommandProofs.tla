------------------------ MODULE SandboxCommandProofs ------------------------
(***************************************************************************)
(* Proofs about SandboxCommand, for any commands, attempts, probes and     *)
(* faults: type correctness, that a command that is not over is never left *)
(* in a sandbox that goes on being used, and that a call answers what its  *)
(* command did.                                                            *)
(***************************************************************************)
EXTENDS SandboxCommand, TLAPS

USE CommandAssumption

-----------------------------------------------------------------------------
(* The invariant, one call at a time.                                      *)

Local == {"waiting", "cleaning", "removing", "probing", "checking"}
Remote == {"posting", "served", "doubting"}

\* Where a call is, and what has been started for it.
Placed(c) ==
    /\ call[c] = "idle" => supervisor[c] = "none" /\ ran[c] = 0
    /\ call[c] \in Local => supervisor[c] # "none"
    /\ call[c] \in Remote => supervisor[c] = "none"
    /\ call[c] = "posting" => ran[c] = 0
    /\ supervisor[c] \in {"requested", "reading"} => ran[c] = 0
    /\ ran[c] = 0 => main[c] = "none"
    /\ main[c] = "none" => ~others[c]
    /\ health = c => call[c] \in Probing /\ probes < Probes

\* What it will return, and that only a call that failed is cleaned up.
Settled(c) ==
    /\ call[c] \in {"idle", "waiting", "posting", "served"} => outcome[c] = "none"
    /\ call[c] \in {"probing", "doubting"} => outcome[c] = "error"
    /\ call[c] = "cleaning" => outcome[c] \in {"timeout", "error", "cancelled"}
    /\ call[c] \in {"removing", "checking"} => outcome[c] \in {"ok", "late"}
    /\ cleaner[c] # "none" =>
          call[c] \in {"cleaning", "ended"} /\ outcome[c] \in {"timeout", "error", "cancelled"}
    /\ interrupted[c] => cleaner[c] # "none"

\* What the supervisor has done and said.
Supervised(c) ==
    /\ supervisor[c] \in {"none", "requested"} => report[c] = "none" /\ ~clean[c]
    /\ supervisor[c] \in {"reading", "running", "cleaning", "reporting"} => report[c] = "started"
    /\ supervisor[c] = "none" =>
          ~killed[c] /\ main[c] \in {"none", "running", "exited", "expired", "lost"}
    /\ supervisor[c] = "none" /\ up => main[c] # "lost"
    /\ call[c] = "served" => main[c] # "none"
    /\ supervisor[c] = "running" => main[c] \in {"running", "exited", "expired"}
    /\ supervisor[c] = "cleaning" => interrupted[c] \/ main[c] \in {"none", "expired"}
    /\ supervisor[c] = "reporting" =>
          main[c] \notin {"none", "running"} /\ (interrupted[c] \/ main[c] \in {"exited", "expired"})
    /\ killed[c] => interrupted[c] \/ main[c] = "expired"
    /\ report[c] = "timed_out" => main[c] = "expired"
    /\ report[c] = "finished" => interrupted[c] \/ main[c] = "exited"

\* Nothing of the command runs or ever will.
Over(c) == supervisor[c] \in {"reporting", "gone"} /\ main[c] # "running" /\ ~others[c]

\* What the supervisor and the cleanup script confirm.
Confirmed(c) == clean[c] \/ cleaner[c] = "done" => Over(c)

\* Who ended badly is over, or the sandbox is retired.
Retired(c) ==
    call[c] = "ended" /\ supervisor[c] # "none" /\ outcome[c] \in {"timeout", "error", "cancelled"}
        => quarantined \/ Over(c)

\* What a call answers is what its command did, and a local one has reported it.
Told(c) ==
    /\ outcome[c] \in {"ok", "late"} =>
          main[c] = "exited" /\ ~killed[c] /\ supervisor[c] \in {"none", "gone"}
    /\ outcome[c] = "timeout" => main[c] = "expired"

\* While nothing has gone wrong, a supervisor lives until it has said how its
\* command ended, and what is cleaned up is confirmed.
Smooth(c) ==
    faults = 0 =>
        /\ outcome[c] \in {"none", "ok", "timeout"}
        /\ ~interrupted[c]
        /\ supervisor[c] \notin {"none", "gone"} => call[c] = "waiting"
        /\ supervisor[c] = "gone" => report[c] \in {"timed_out", "finished"}
        /\ supervisor[c] = "cleaning" => main[c] = "expired"
        /\ cleaner[c] \in {"none", "looking", "done"}
        /\ cleaner[c] = "looking" => call[c] = "cleaning"
        /\ call[c] = "cleaning" => report[c] = "timed_out"
        /\ call[c] \in {"waiting", "cleaning"} /\ cleaner[c] \in {"none", "looking"} =>
              /\ supervisor[c] # "requested" => record[c]
              /\ supervisor[c] \in {"reporting", "gone"} /\ main[c] = "expired" => clean[c]

\* Nor does the sandbox go.
Sound == faults = 0 => up /\ ~quarantined

CallInv(c) ==
    Placed(c) /\ Settled(c) /\ Supervised(c) /\ Confirmed(c) /\ Retired(c) /\ Told(c) /\ Smooth(c)

Inv ==
    /\ TypeOK
    /\ Sound
    /\ \A c \in Call : CallInv(c)

-----------------------------------------------------------------------------
(* Each part is kept.                                                      *)

\* What the steps need of the types.
Typed ==
    /\ DOMAIN call = Call /\ DOMAIN outcome = Call /\ DOMAIN supervisor = Call
    /\ DOMAIN report = Call /\ DOMAIN cleaner = Call /\ DOMAIN main = Call /\ DOMAIN ran = Call
    /\ record \in [Call -> BOOLEAN] /\ clean \in [Call -> BOOLEAN]
    /\ interrupted \in [Call -> BOOLEAN]
    /\ others \in [Call -> BOOLEAN] /\ killed \in [Call -> BOOLEAN]
    /\ faults \in Nat /\ probes \in Nat /\ up \in BOOLEAN /\ quarantined \in BOOLEAN

\* They follow from the type invariant.
LEMMA TypesGiven == TypeOK => Typed
<1> SUFFICES ASSUME TypeOK PROVE Typed
    OBVIOUS
<1>1. DOMAIN call = Call /\ DOMAIN outcome = Call /\ DOMAIN supervisor = Call
    BY DEF TypeOK
<1>2. DOMAIN report = Call /\ DOMAIN cleaner = Call /\ DOMAIN main = Call /\ DOMAIN ran = Call
    BY DEF TypeOK
<1>3. faults \in 0 .. MaxFaults
    BY DEF TypeOK
<1>4. probes \in 0 .. Probes
    BY DEF TypeOK
<1>5. faults \in Nat /\ probes \in Nat
    BY <1>3, <1>4
<1> QED
    BY <1>1, <1>2, <1>5 DEF TypeOK, Typed

\* What Answered does, by what the supervisor has reported.
AnsweredBy(d) ==
    /\ call[d] = "waiting" /\ (supervisor[d] = "gone" \/ ~up)
    /\ \/ report[d] = "none" /\ Settle(d, "probing", "error") /\ UNCHANGED quarantined
       \/ report[d] = "started" /\ Settle(d, "cleaning", "error") /\ quarantined' = TRUE
       \/ report[d] = "timed_out" /\ Settle(d, "cleaning", "timeout") /\ UNCHANGED quarantined
       \/ report[d] = "finished" /\ Settle(d, "removing", "ok") /\ UNCHANGED quarantined
    /\ UNCHANGED <<attempt, health, probes, up, files, script, cleaner, command, faults>>

\* The report of a call has no other value.
LEMMA AnsweredCases ==
    ASSUME TypeOK, NEW d \in Call, Answered(d)
    PROVE  AnsweredBy(d)
<1> QED
    BY DEF Answered, AnsweredBy, TypeOK

\* What Cancel does, by where the call is.
LEMMA CancelCases ==
    ASSUME NEW d \in Call, Cancel(d)
    PROVE  /\ \/ call[d] \in {"waiting", "probing", "cleaning"} /\ Settle(d, "cleaning", "cancelled")
              \/ call[d] \in {"removing", "checking"} /\ Settle(d, call[d], "late")
              \/ call[d] \in {"posting", "served", "doubting"} /\ Settle(d, "ended", "cancelled")
           /\ health' = IF health = d /\ call[d] # "checking" THEN None ELSE health
           /\ UNCHANGED <<attempt, quarantined, probes, up, files, script, cleaner, command>>
<1> QED
    BY DEF Cancel

\* A fault leaves nothing to show of a run without one.
LEMMA FaultCounts == Typed /\ Fault => faults' # 0
BY DEF Typed, Fault

\* Every step keeps a call where it is placed.
LEMMA PlacedKept ==
    ASSUME Inv, [Next]_vars, NEW c \in Call
    PROVE  Placed(c)'
<1>a. Typed /\ Placed(c)
    BY TypesGiven DEF Inv, CallInv
<1>b. TypeOK
    BY DEF Inv
<1> USE DEF Typed, Placed, Local, Remote, Probing
<1>1. ASSUME NEW d \in Call, ExecuteLocal(d) PROVE Placed(c)'
    BY <1>a, <1>1 DEF ExecuteLocal, To, files, command
<1>2. ASSUME NEW d \in Call, ExecuteRemote(d) PROVE Placed(c)'
    BY <1>a, <1>2 DEF ExecuteRemote, To, files, script, command
<1>3. ASSUME NEW d \in Call, End(d) PROVE Placed(c)'
    BY <1>a, <1>3 DEF End, client, files, script
<1>4. ASSUME NEW d \in Call, Start(d) PROVE Placed(c)'
    BY <1>a, <1>4 DEF Start, client, command
<1>5. ASSUME NEW d \in Call, Read(d) PROVE Placed(c)'
    BY <1>a, <1>5 DEF Read, Begin, Fault, client, files, command
<1>6. ASSUME NEW d \in Call, Notice(d) PROVE Placed(c)'
    BY <1>a, <1>6 DEF Notice, client, command
<1>7. ASSUME NEW d \in Call, CleanChildren(d) PROVE Placed(c)'
    BY <1>a, <1>7 DEF CleanChildren, KillAll, client
<1>8. ASSUME NEW d \in Call, Report(d) PROVE Placed(c)'
    BY <1>a, <1>8 DEF Report, client, files, command
<1>9. ASSUME NEW d \in Call, Fork(d) PROVE Placed(c)'
    BY <1>a, <1>9 DEF Fork, client, files, script
<1>10. ASSUME NEW d \in Call, OthersEnd(d) PROVE Placed(c)'
    BY <1>a, <1>10 DEF OthersEnd, client, files, script
<1>11. ASSUME NEW d \in Call, Answered(d) PROVE Placed(c)'
  <2>1. AnsweredBy(d)
    BY <1>b, <1>11, AnsweredCases
  <2> QED
    BY <1>a, <2>1 DEF AnsweredBy, Settle, To, files, script, command
<1>12. ASSUME NEW d \in Call, Cleaned(d) PROVE Placed(c)'
    BY <1>a, <1>12 DEF Cleaned, To, files, script, command
<1>13. ASSUME NEW d \in Call, Remove(d) PROVE Placed(c)'
    BY <1>a, <1>13 DEF Remove, To, RemoveRecord, script, command
<1>14. ASSUME NEW d \in Call, EnterProbe(d) PROVE Placed(c)'
    BY <1>a, <1>14 DEF EnterProbe, To, AfterProbe, files, script, command
<1>15. ASSUME NEW d \in Call, Healthy(d) PROVE Placed(c)'
    BY <1>a, <1>15 DEF Healthy, To, AfterProbe, files, script, command
<1>16. ASSUME NEW d \in Call, Serve(d) PROVE Placed(c)'
    BY <1>a, <1>16 DEF Serve, To, Begin, files, script
<1>17. ASSUME NEW d \in Call, Reply(d) PROVE Placed(c)'
    BY <1>a, <1>17 DEF Reply, Settle, To, files, script, command
<1>18. ASSUME NEW d \in Call, NotCleaned(d) PROVE Placed(c)'
    BY <1>a, <1>18 DEF NotCleaned, Settle, To, Broken, Fault, files, script, command
<1>19. ASSUME NEW d \in Call, NotRemoved(d) PROVE Placed(c)'
    BY <1>a, <1>19 DEF NotRemoved, To, Broken, Fault, files, script, command
<1>20. ASSUME NEW d \in Call, Unhealthy(d) PROVE Placed(c)'
    BY <1>a, <1>20 DEF Unhealthy, To, Broken, Fault, AfterProbe, files, script, command
<1>21. ASSUME NEW d \in Call, Unreachable(d) PROVE Placed(c)'
    BY <1>a, <1>21 DEF Unreachable, Broken, Fault, Retry, Settle, To, files, script, command
<1>22. ASSUME NEW d \in Call, Lost(d) PROVE Placed(c)'
    BY <1>a, <1>22 DEF Lost, Settle, To, Broken, Fault, files, script, command
<1>23. ASSUME NEW d \in Call, Overdue(d) PROVE Placed(c)'
    BY <1>a, <1>23 DEF Overdue, Settle, To, Fault, files, script, command
<1>24. ASSUME NEW d \in Call, SupervisorFails(d) PROVE Placed(c)'
    BY <1>a, <1>24 DEF SupervisorFails, Fault, client, files, command
<1>25. ASSUME NEW d \in Call, Cancel(d) PROVE Placed(c)'
    BY <1>a, <1>25, CancelCases DEF Settle, To, files, script, command
<1>26. ASSUME NEW d \in Call, CancelCleanup(d) PROVE Placed(c)'
    BY <1>a, <1>26 DEF CancelCleanup, Settle, To, Fault, files, script, command
<1>27. ASSUME Stop PROVE Placed(c)'
    BY <1>a, <1>27 DEF Stop, Fault, client, files
<1>28. ASSUME NEW d \in Call,
              Look(d) \/ Await(d) \/ BeginCleaning(d)
      PROVE  Placed(c)'
    BY <1>a, <1>28 DEF Look, Await, BeginCleaning, client, files, command, script
<1>29. ASSUME UNCHANGED vars PROVE Placed(c)'
    BY <1>a, <1>29 DEF vars, client, files, script, command
<1> QED
    BY <1>1, <1>2, <1>3, <1>4, <1>5, <1>6, <1>7, <1>8, <1>9, <1>10, <1>11, <1>12, <1>13, <1>14,
       <1>15, <1>16, <1>17, <1>18, <1>19, <1>20, <1>21, <1>22, <1>23, <1>24, <1>25, <1>26, <1>27,
       <1>28, <1>29 DEF Next, Container, Executor, Failure

\* Every step settles a call once.
LEMMA SettledKept ==
    ASSUME Inv, [Next]_vars, NEW c \in Call
    PROVE  Settled(c)'
<1>a. Typed /\ Settled(c)
    BY TypesGiven DEF Inv, CallInv
<1>b. TypeOK
    BY DEF Inv
<1> USE DEF Typed, Settled
<1>1. ASSUME NEW d \in Call, ExecuteLocal(d) PROVE Settled(c)'
    BY <1>a, <1>1 DEF ExecuteLocal, To, files, command
<1>2. ASSUME NEW d \in Call, ExecuteRemote(d) PROVE Settled(c)'
    BY <1>a, <1>2 DEF ExecuteRemote, To, files, script, command
<1>3. ASSUME NEW d \in Call, Look(d) PROVE Settled(c)'
    BY <1>a, <1>3 DEF Look, RemoveRecord, client, files, command
<1>4. ASSUME NEW d \in Call, Await(d) PROVE Settled(c)'
    BY <1>a, <1>4 DEF Await, RemoveRecord, client, files, script, command
<1>5. ASSUME NEW d \in Call, Answered(d) PROVE Settled(c)'
  <2>1. AnsweredBy(d)
    BY <1>b, <1>5, AnsweredCases
  <2> QED
    BY <1>a, <2>1 DEF AnsweredBy, Settle, To, files, script, command
<1>6. ASSUME NEW d \in Call, BeginCleaning(d) PROVE Settled(c)'
    BY <1>a, <1>6 DEF BeginCleaning, client, files, script, command
<1>7. ASSUME NEW d \in Call, Cleaned(d) PROVE Settled(c)'
    BY <1>a, <1>7 DEF Cleaned, To, files, script, command
<1>8. ASSUME NEW d \in Call, Remove(d) PROVE Settled(c)'
    BY <1>a, <1>8 DEF Remove, To, RemoveRecord, script, command
<1>9. ASSUME NEW d \in Call, EnterProbe(d) PROVE Settled(c)'
    BY <1>a, <1>9 DEF EnterProbe, To, AfterProbe, Probing, files, script, command
<1>10. ASSUME NEW d \in Call, Healthy(d) PROVE Settled(c)'
    BY <1>a, <1>10 DEF Healthy, To, AfterProbe, files, script, command
<1>11. ASSUME NEW d \in Call, Serve(d) PROVE Settled(c)'
    BY <1>a, <1>11 DEF Serve, To, Begin, files, script
<1>12. ASSUME NEW d \in Call, Reply(d) PROVE Settled(c)'
    BY <1>a, <1>12 DEF Reply, Settle, To, files, script, command
<1>13. ASSUME NEW d \in Call, NotCleaned(d) PROVE Settled(c)'
    BY <1>a, <1>13 DEF NotCleaned, Settle, To, Broken, Fault, files, script, command
<1>14. ASSUME NEW d \in Call, NotRemoved(d) PROVE Settled(c)'
    BY <1>a, <1>14 DEF NotRemoved, To, Broken, Fault, files, script, command
<1>15. ASSUME NEW d \in Call, Unhealthy(d) PROVE Settled(c)'
    BY <1>a, <1>15 DEF Unhealthy, To, Broken, Fault, AfterProbe, files, script, command
<1>16. ASSUME NEW d \in Call, Unreachable(d) PROVE Settled(c)'
    BY <1>a, <1>16 DEF Unreachable, Broken, Fault, Retry, Settle, To, files, script, command
<1>17. ASSUME NEW d \in Call, Lost(d) PROVE Settled(c)'
    BY <1>a, <1>17 DEF Lost, Settle, To, Broken, Fault, files, script, command
<1>18. ASSUME NEW d \in Call, Overdue(d) PROVE Settled(c)'
    BY <1>a, <1>18 DEF Overdue, Settle, To, Fault, files, script, command
<1>19. ASSUME NEW d \in Call, Cancel(d) PROVE Settled(c)'
    BY <1>a, <1>19, CancelCases DEF Settle, To, files, script, command
<1>20. ASSUME NEW d \in Call, CancelCleanup(d) PROVE Settled(c)'
    BY <1>a, <1>20 DEF CancelCleanup, Settle, To, Fault, files, script, command
<1>21. ASSUME NEW d \in Call,
              End(d) \/ Start(d) \/ Read(d) \/ Notice(d) \/ CleanChildren(d) \/ Report(d)
              \/ Fork(d) \/ OthersEnd(d) \/ SupervisorFails(d) \/ Stop
      PROVE  Settled(c)'
    BY <1>a, <1>21 DEF End, Start, Read, Notice, CleanChildren, Report, Fork, OthersEnd,
        SupervisorFails, Stop, client, files, script, command
<1>22. ASSUME UNCHANGED vars PROVE Settled(c)'
    BY <1>a, <1>22 DEF vars, client, files, script, command
<1> QED
    BY <1>1, <1>2, <1>3, <1>4, <1>5, <1>6, <1>7, <1>8, <1>9, <1>10, <1>11, <1>12, <1>13, <1>14,
       <1>15, <1>16, <1>17, <1>18, <1>19, <1>20, <1>21, <1>22 DEF Next, Container, Executor, Failure

\* Every step keeps what a supervisor has done and said.
LEMMA SupervisedKept ==
    ASSUME Inv, [Next]_vars, NEW c \in Call
    PROVE  Supervised(c)'
<1>a. Typed /\ Placed(c) /\ Supervised(c)
    BY TypesGiven DEF Inv, CallInv
<1>b. TypeOK
    BY DEF Inv
<1> USE DEF Typed, Supervised, Placed, Local, Remote
<1>1. ASSUME NEW d \in Call, ExecuteLocal(d) PROVE Supervised(c)'
    BY <1>a, <1>1 DEF ExecuteLocal, To, files, command
<1>2. ASSUME NEW d \in Call, ExecuteRemote(d) PROVE Supervised(c)'
    BY <1>a, <1>2 DEF ExecuteRemote, To, files, script, command
<1>3. ASSUME NEW d \in Call, End(d) PROVE Supervised(c)'
    BY <1>a, <1>3 DEF End, client, files, script
<1>4. ASSUME NEW d \in Call, Start(d) PROVE Supervised(c)'
    BY <1>a, <1>4 DEF Start, client, command
<1>5. ASSUME NEW d \in Call, Read(d) PROVE Supervised(c)'
    BY <1>a, <1>5 DEF Read, Begin, Fault, client, files, command
<1>6. ASSUME NEW d \in Call, Notice(d) PROVE Supervised(c)'
    BY <1>a, <1>6 DEF Notice, client, command
<1>7. ASSUME NEW d \in Call, CleanChildren(d) PROVE Supervised(c)'
    BY <1>a, <1>7 DEF CleanChildren, KillAll, client
<1>8. ASSUME NEW d \in Call, Report(d) PROVE Supervised(c)'
    BY <1>a, <1>8 DEF Report, client, files, command
<1>9. ASSUME NEW d \in Call, Look(d) PROVE Supervised(c)'
    BY <1>a, <1>9 DEF Look, RemoveRecord, client, files, command
<1>10. ASSUME NEW d \in Call, Await(d) PROVE Supervised(c)'
    BY <1>a, <1>10 DEF Await, RemoveRecord, client, files, script, command
<1>11. ASSUME NEW d \in Call, Answered(d) PROVE Supervised(c)'
  <2>1. AnsweredBy(d)
    BY <1>b, <1>11, AnsweredCases
  <2> QED
    BY <1>a, <2>1 DEF AnsweredBy, Settle, To, files, script, command
<1>12. ASSUME NEW d \in Call, Cleaned(d) PROVE Supervised(c)'
    BY <1>a, <1>12 DEF Cleaned, To, files, script, command
<1>13. ASSUME NEW d \in Call, Remove(d) PROVE Supervised(c)'
    BY <1>a, <1>13 DEF Remove, To, RemoveRecord, script, command
<1>14. ASSUME NEW d \in Call, EnterProbe(d) PROVE Supervised(c)'
    BY <1>a, <1>14 DEF EnterProbe, To, AfterProbe, Probing, files, script, command
<1>15. ASSUME NEW d \in Call, Healthy(d) PROVE Supervised(c)'
    BY <1>a, <1>15 DEF Healthy, To, AfterProbe, files, script, command
<1>16. ASSUME NEW d \in Call, Serve(d) PROVE Supervised(c)'
    BY <1>a, <1>16 DEF Serve, To, Begin, files, script
<1>17. ASSUME NEW d \in Call, Reply(d) PROVE Supervised(c)'
    BY <1>a, <1>17 DEF Reply, Settle, To, files, script, command
<1>18. ASSUME NEW d \in Call, NotCleaned(d) PROVE Supervised(c)'
    BY <1>a, <1>18 DEF NotCleaned, Settle, To, Broken, Fault, files, script, command
<1>19. ASSUME NEW d \in Call, NotRemoved(d) PROVE Supervised(c)'
    BY <1>a, <1>19 DEF NotRemoved, To, Broken, Fault, files, script, command
<1>20. ASSUME NEW d \in Call, Unhealthy(d) PROVE Supervised(c)'
    BY <1>a, <1>20 DEF Unhealthy, To, Broken, Fault, AfterProbe, files, script, command
<1>21. ASSUME NEW d \in Call, Unreachable(d) PROVE Supervised(c)'
    BY <1>a, <1>21 DEF Unreachable, Broken, Fault, Retry, Settle, To, files, script, command
<1>22. ASSUME NEW d \in Call, Lost(d) PROVE Supervised(c)'
    BY <1>a, <1>22 DEF Lost, Settle, To, Broken, Fault, files, script, command
<1>23. ASSUME NEW d \in Call, Overdue(d) PROVE Supervised(c)'
    BY <1>a, <1>23 DEF Overdue, Settle, To, Fault, files, script, command
<1>24. ASSUME NEW d \in Call, SupervisorFails(d) PROVE Supervised(c)'
    BY <1>a, <1>24 DEF SupervisorFails, Fault, client, files, command
<1>25. ASSUME NEW d \in Call, Cancel(d) PROVE Supervised(c)'
    BY <1>a, <1>25, CancelCases DEF Settle, To, files, script, command
<1>26. ASSUME NEW d \in Call, CancelCleanup(d) PROVE Supervised(c)'
    BY <1>a, <1>26 DEF CancelCleanup, Settle, To, Fault, files, script, command
<1>27. ASSUME Stop PROVE Supervised(c)'
    BY <1>a, <1>27 DEF Stop, Fault, client, files
<1>28. ASSUME NEW d \in Call,
              Fork(d) \/ OthersEnd(d) \/ BeginCleaning(d)
      PROVE  Supervised(c)'
    BY <1>a, <1>28 DEF Fork, OthersEnd, BeginCleaning, client, files, script, command
<1>29. ASSUME UNCHANGED vars PROVE Supervised(c)'
    BY <1>a, <1>29 DEF vars, client, files, script, command
<1> QED
    BY <1>1, <1>2, <1>3, <1>4, <1>5, <1>6, <1>7, <1>8, <1>9, <1>10, <1>11, <1>12, <1>13, <1>14,
       <1>15, <1>16, <1>17, <1>18, <1>19, <1>20, <1>21, <1>22, <1>23, <1>24, <1>25, <1>26, <1>27,
       <1>28, <1>29 DEF Next, Container, Executor, Failure

\* What is over stays over.
LEMMA ConfirmedKept ==
    ASSUME Inv, [Next]_vars, NEW c \in Call
    PROVE  Confirmed(c)'
<1>a. Typed /\ Placed(c) /\ Supervised(c) /\ Confirmed(c)
    BY TypesGiven DEF Inv, CallInv
<1> USE DEF Typed, Confirmed, Over, Placed, Supervised, Remote
<1>1. ASSUME NEW d \in Call, ExecuteLocal(d) PROVE Confirmed(c)'
    BY <1>a, <1>1 DEF ExecuteLocal, To, files, command
<1>2. ASSUME NEW d \in Call, End(d) PROVE Confirmed(c)'
    BY <1>a, <1>2 DEF End, client, files, script
<1>3. ASSUME NEW d \in Call, Start(d) PROVE Confirmed(c)'
    BY <1>a, <1>3 DEF Start, client, command
<1>4. ASSUME NEW d \in Call, Read(d) PROVE Confirmed(c)'
    BY <1>a, <1>4 DEF Read, Begin, Fault, client, files, command
<1>5. ASSUME NEW d \in Call, Notice(d) PROVE Confirmed(c)'
    BY <1>a, <1>5 DEF Notice, client, command
<1>6. ASSUME NEW d \in Call, CleanChildren(d) PROVE Confirmed(c)'
    BY <1>a, <1>6 DEF CleanChildren, KillAll, client
<1>7. ASSUME NEW d \in Call, Report(d) PROVE Confirmed(c)'
    BY <1>a, <1>7 DEF Report, client, files, command
<1>8. ASSUME NEW d \in Call, Look(d) PROVE Confirmed(c)'
    BY <1>a, <1>8 DEF Look, RemoveRecord, client, files, command
<1>9. ASSUME NEW d \in Call, Await(d) PROVE Confirmed(c)'
    BY <1>a, <1>9 DEF Await, RemoveRecord, client, files, script, command
<1>10. ASSUME NEW d \in Call, Fork(d) PROVE Confirmed(c)'
    BY <1>a, <1>10 DEF Fork, client, files, script
<1>11. ASSUME NEW d \in Call, OthersEnd(d) PROVE Confirmed(c)'
    BY <1>a, <1>11 DEF OthersEnd, client, files, script
<1>12. ASSUME NEW d \in Call, BeginCleaning(d) PROVE Confirmed(c)'
    BY <1>a, <1>12 DEF BeginCleaning, client, files, script, command
<1>13. ASSUME NEW d \in Call, Remove(d) PROVE Confirmed(c)'
    BY <1>a, <1>13 DEF Remove, To, RemoveRecord, script, command
<1>14. ASSUME NEW d \in Call, Serve(d) PROVE Confirmed(c)'
    BY <1>a, <1>14 DEF Serve, To, Begin, files, script
<1>15. ASSUME NEW d \in Call, SupervisorFails(d) PROVE Confirmed(c)'
    BY <1>a, <1>15 DEF SupervisorFails, Fault, client, files, command
<1>16. ASSUME Stop PROVE Confirmed(c)'
    BY <1>a, <1>16 DEF Stop, Fault, client, files
<1>17. ASSUME NEW d \in Call,
              ExecuteRemote(d) \/ Answered(d) \/ Cleaned(d) \/ EnterProbe(d) \/ Healthy(d)
              \/ Reply(d) \/ NotCleaned(d) \/ NotRemoved(d) \/ Unhealthy(d) \/ Unreachable(d)
              \/ Lost(d) \/ Overdue(d) \/ Cancel(d) \/ CancelCleanup(d)
      PROVE  Confirmed(c)'
  <2>1. UNCHANGED <<supervisor, clean, cleaner, main, others>>
    BY <1>17 DEF ExecuteRemote, Answered, Cleaned, EnterProbe, Healthy, Reply, NotCleaned,
        NotRemoved, Unhealthy, Unreachable, Lost, Overdue, Cancel, CancelCleanup, files, script,
        command
  <2> QED
    BY <1>a, <2>1
<1>18. ASSUME UNCHANGED vars PROVE Confirmed(c)'
    BY <1>a, <1>18 DEF vars, client, files, script, command
<1> QED
    BY <1>1, <1>2, <1>3, <1>4, <1>5, <1>6, <1>7, <1>8, <1>9, <1>10, <1>11, <1>12, <1>13, <1>14,
       <1>15, <1>16, <1>17, <1>18 DEF Next, Container, Executor, Failure

\* No step ends a call badly with something of its command left.
LEMMA RetiredKept ==
    ASSUME Inv, [Next]_vars, NEW c \in Call
    PROVE  Retired(c)'
<1>a. Typed /\ Placed(c) /\ Settled(c) /\ Confirmed(c) /\ Retired(c)
    BY TypesGiven DEF Inv, CallInv
<1>b. TypeOK
    BY DEF Inv
<1> USE DEF Typed, Retired, Confirmed, Over, Placed, Settled, Local, Remote, Probing
<1>1. ASSUME NEW d \in Call, ExecuteLocal(d) PROVE Retired(c)'
    BY <1>a, <1>1 DEF ExecuteLocal, To, files, command
<1>2. ASSUME NEW d \in Call, ExecuteRemote(d) PROVE Retired(c)'
    BY <1>a, <1>2 DEF ExecuteRemote, To, files, script, command
<1>3. ASSUME NEW d \in Call, End(d) PROVE Retired(c)'
    BY <1>a, <1>3 DEF End, client, files, script
<1>4. ASSUME NEW d \in Call, Start(d) PROVE Retired(c)'
    BY <1>a, <1>4 DEF Start, client, command
<1>5. ASSUME NEW d \in Call, Read(d) PROVE Retired(c)'
    BY <1>a, <1>5 DEF Read, Begin, Fault, client, files, command
<1>6. ASSUME NEW d \in Call, Notice(d) PROVE Retired(c)'
    BY <1>a, <1>6 DEF Notice, client, command
<1>7. ASSUME NEW d \in Call, CleanChildren(d) PROVE Retired(c)'
    BY <1>a, <1>7 DEF CleanChildren, KillAll, client
<1>8. ASSUME NEW d \in Call, Report(d) PROVE Retired(c)'
    BY <1>a, <1>8 DEF Report, client, files, command
<1>9. ASSUME NEW d \in Call, Fork(d) PROVE Retired(c)'
    BY <1>a, <1>9 DEF Fork, client, files, script
<1>10. ASSUME NEW d \in Call, OthersEnd(d) PROVE Retired(c)'
    BY <1>a, <1>10 DEF OthersEnd, client, files, script
<1>11. ASSUME NEW d \in Call, Answered(d) PROVE Retired(c)'
  <2>a. AnsweredBy(d)
    BY <1>b, <1>11, AnsweredCases
  <2>1. UNCHANGED <<supervisor, main, others>> /\ (quarantined => quarantined')
    BY <1>a, <2>a DEF AnsweredBy, script, command
  <2>2. CASE c = d
    <3>1. call'[c] # "ended"
      BY <1>a, <2>2, <2>a DEF AnsweredBy, Settle, To
    <3> QED
      BY <3>1
  <2>3. CASE c # d
    <3>1. call'[c] = call[c] /\ outcome'[c] = outcome[c]
      BY <1>a, <2>3, <2>a DEF AnsweredBy, Settle, To
    <3> QED
      BY <1>a, <2>1, <3>1
  <2> QED
    BY <2>2, <2>3
<1>12. ASSUME NEW d \in Call, Cleaned(d) PROVE Retired(c)'
    BY <1>a, <1>12 DEF Cleaned, To, files, script, command
<1>13. ASSUME NEW d \in Call, Remove(d) PROVE Retired(c)'
    BY <1>a, <1>13 DEF Remove, To, RemoveRecord, script, command
<1>14. ASSUME NEW d \in Call, EnterProbe(d) PROVE Retired(c)'
    BY <1>a, <1>14 DEF EnterProbe, To, AfterProbe, files, script, command
<1>15. ASSUME NEW d \in Call, Healthy(d) PROVE Retired(c)'
    BY <1>a, <1>15 DEF Healthy, To, AfterProbe, files, script, command
<1>16. ASSUME NEW d \in Call, Serve(d) PROVE Retired(c)'
    BY <1>a, <1>16 DEF Serve, To, Begin, files, script
<1>17. ASSUME NEW d \in Call, Reply(d) PROVE Retired(c)'
    BY <1>a, <1>17 DEF Reply, Settle, To, files, script, command
<1>18. ASSUME NEW d \in Call, NotCleaned(d) PROVE Retired(c)'
    BY <1>a, <1>18 DEF NotCleaned, Settle, To, Broken, Fault, files, script, command
<1>19. ASSUME NEW d \in Call, NotRemoved(d) PROVE Retired(c)'
    BY <1>a, <1>19 DEF NotRemoved, To, Broken, Fault, files, script, command
<1>20. ASSUME NEW d \in Call, Unhealthy(d) PROVE Retired(c)'
    BY <1>a, <1>20 DEF Unhealthy, To, Broken, Fault, AfterProbe, files, script, command
<1>21. ASSUME NEW d \in Call, Unreachable(d) PROVE Retired(c)'
    BY <1>a, <1>21 DEF Unreachable, Broken, Fault, Retry, Settle, To, files, script, command
<1>22. ASSUME NEW d \in Call, Lost(d) PROVE Retired(c)'
    BY <1>a, <1>22 DEF Lost, Settle, To, Broken, Fault, files, script, command
<1>23. ASSUME NEW d \in Call, Overdue(d) PROVE Retired(c)'
    BY <1>a, <1>23 DEF Overdue, Settle, To, Fault, files, script, command
<1>24. ASSUME NEW d \in Call, SupervisorFails(d) PROVE Retired(c)'
    BY <1>a, <1>24 DEF SupervisorFails, Fault, client, files, command
<1>25. ASSUME NEW d \in Call, Cancel(d) PROVE Retired(c)'
    BY <1>a, <1>25, CancelCases DEF Settle, To, files, script, command
<1>26. ASSUME NEW d \in Call, CancelCleanup(d) PROVE Retired(c)'
    BY <1>a, <1>26 DEF CancelCleanup, Settle, To, Fault, files, script, command
<1>27. ASSUME Stop PROVE Retired(c)'
    BY <1>a, <1>27 DEF Stop, Fault, client, files
<1>28. ASSUME NEW d \in Call,
              Look(d) \/ Await(d) \/ BeginCleaning(d)
      PROVE  Retired(c)'
    BY <1>a, <1>28 DEF Look, Await, BeginCleaning, client, files, command, script
<1>29. ASSUME UNCHANGED vars PROVE Retired(c)'
    BY <1>a, <1>29 DEF vars, client, files, script, command
<1> QED
    BY <1>1, <1>2, <1>3, <1>4, <1>5, <1>6, <1>7, <1>8, <1>9, <1>10, <1>11, <1>12, <1>13, <1>14,
       <1>15, <1>16, <1>17, <1>18, <1>19, <1>20, <1>21, <1>22, <1>23, <1>24, <1>25, <1>26, <1>27,
       <1>28, <1>29 DEF Next, Container, Executor, Failure

\* Every step keeps the answers true.
LEMMA ToldKept ==
    ASSUME Inv, [Next]_vars, NEW c \in Call
    PROVE  Told(c)'
<1>a. Typed /\ Placed(c) /\ Settled(c) /\ Supervised(c) /\ Told(c)
    BY TypesGiven DEF Inv, CallInv
<1>s. supervisor[c] \in {"none", "requested", "reading", "running", "cleaning", "reporting", "gone"}
    BY DEF Inv, TypeOK
<1>b. TypeOK
    BY DEF Inv
<1> USE DEF Typed, Told, Placed, Settled, Supervised, Local, Remote
<1>1. ASSUME NEW d \in Call, ExecuteLocal(d) PROVE Told(c)'
    BY <1>a, <1>1 DEF ExecuteLocal, To, files, command
<1>2. ASSUME NEW d \in Call, End(d) PROVE Told(c)'
    BY <1>a, <1>2 DEF End, client, files, script
<1>3. ASSUME NEW d \in Call, Start(d) PROVE Told(c)'
    BY <1>a, <1>3 DEF Start, client, command
<1>4. ASSUME NEW d \in Call, Read(d) PROVE Told(c)'
    BY <1>a, <1>4 DEF Read, Begin, Fault, client, files, command
<1>5. ASSUME NEW d \in Call, Notice(d) PROVE Told(c)'
    BY <1>a, <1>5 DEF Notice, client, command
<1>6. ASSUME NEW d \in Call, CleanChildren(d) PROVE Told(c)'
    BY <1>a, <1>6 DEF CleanChildren, KillAll, client
<1>7. ASSUME NEW d \in Call, Report(d) PROVE Told(c)'
    BY <1>a, <1>7 DEF Report, client, files, command
<1>8. ASSUME NEW d \in Call, Answered(d) PROVE Told(c)'
  <2>1. AnsweredBy(d)
    BY <1>b, <1>8, AnsweredCases
  <2> QED
    BY <1>a, <1>s, <2>1 DEF AnsweredBy, Settle, To, files, script, command
<1>9. ASSUME NEW d \in Call, Serve(d) PROVE Told(c)'
    BY <1>a, <1>9 DEF Serve, To, Begin, files, script
<1>10. ASSUME NEW d \in Call, Reply(d) PROVE Told(c)'
    BY <1>a, <1>10 DEF Reply, Settle, To, files, script, command
<1>11. ASSUME NEW d \in Call, NotCleaned(d) PROVE Told(c)'
    BY <1>a, <1>11 DEF NotCleaned, Settle, To, Broken, Fault, files, script, command
<1>12. ASSUME NEW d \in Call, Unreachable(d) PROVE Told(c)'
    BY <1>a, <1>12 DEF Unreachable, Broken, Fault, Retry, Settle, To, files, script, command
<1>13. ASSUME NEW d \in Call, Lost(d) PROVE Told(c)'
    BY <1>a, <1>13 DEF Lost, Settle, To, Broken, Fault, files, script, command
<1>14. ASSUME NEW d \in Call, Overdue(d) PROVE Told(c)'
    BY <1>a, <1>14 DEF Overdue, Settle, To, Fault, files, script, command
<1>15. ASSUME NEW d \in Call, SupervisorFails(d) PROVE Told(c)'
    BY <1>a, <1>15 DEF SupervisorFails, Fault, client, files, command
<1>16. ASSUME NEW d \in Call, Cancel(d) PROVE Told(c)'
    BY <1>a, <1>16, CancelCases DEF Settle, To, files, script, command
<1>17. ASSUME NEW d \in Call, CancelCleanup(d) PROVE Told(c)'
    BY <1>a, <1>17 DEF CancelCleanup, Settle, To, Fault, files, script, command
<1>18. ASSUME Stop PROVE Told(c)'
    BY <1>a, <1>18 DEF Stop, Fault, client, files
<1>19. ASSUME NEW d \in Call,
              ExecuteRemote(d) \/ Look(d) \/ Await(d) \/ Fork(d) \/ OthersEnd(d)
              \/ BeginCleaning(d) \/ Cleaned(d) \/ Remove(d) \/ EnterProbe(d) \/ Healthy(d)
              \/ NotRemoved(d) \/ Unhealthy(d)
      PROVE  Told(c)'
    BY <1>a, <1>19 DEF ExecuteRemote, Look, Await, Fork, OthersEnd, BeginCleaning, Cleaned,
        Remove, EnterProbe, Healthy, NotRemoved, Unhealthy, files, script, command, client
<1>20. ASSUME UNCHANGED vars PROVE Told(c)'
    BY <1>a, <1>20 DEF vars, client, files, script, command
<1> QED
    BY <1>1, <1>2, <1>3, <1>4, <1>5, <1>6, <1>7, <1>8, <1>9, <1>10, <1>11, <1>12, <1>13, <1>14,
       <1>15, <1>16, <1>17, <1>18, <1>19, <1>20 DEF Next, Container, Executor, Failure

\* While nothing goes wrong, every step keeps it so.
LEMMA SmoothKept ==
    ASSUME Inv, [Next]_vars, NEW c \in Call
    PROVE  Smooth(c)'
<1>a. Typed /\ Sound /\ Placed(c) /\ Settled(c) /\ Supervised(c) /\ Confirmed(c) /\ Smooth(c)
    BY TypesGiven DEF Inv, CallInv
<1>s. supervisor[c] \in {"none", "requested", "reading", "running", "cleaning", "reporting", "gone"}
    BY DEF Inv, TypeOK
<1>b. TypeOK
    BY DEF Inv
<1> USE DEF Typed, Smooth, Sound, Settled, Supervised, Confirmed, Over, Placed, Local, Remote,
           Probing
<1>1. ASSUME NEW d \in Call, ExecuteLocal(d) PROVE Smooth(c)'
    BY <1>a, <1>1 DEF ExecuteLocal, To, files, command
<1>2. ASSUME NEW d \in Call, ExecuteRemote(d) PROVE Smooth(c)'
    BY <1>a, <1>2 DEF ExecuteRemote, To, files, script, command
<1>3. ASSUME NEW d \in Call, End(d) PROVE Smooth(c)'
    BY <1>a, <1>3 DEF End, client, files, script
<1>4. ASSUME NEW d \in Call, Start(d) PROVE Smooth(c)'
    BY <1>a, <1>4 DEF Start, client, command
<1>5. ASSUME NEW d \in Call, Read(d) PROVE Smooth(c)'
    BY <1>a, <1>5, FaultCounts DEF Read, Begin, client, files, command
<1>6. ASSUME NEW d \in Call, Notice(d) PROVE Smooth(c)'
    BY <1>a, <1>6 DEF Notice, client, command
<1>7. ASSUME NEW d \in Call, CleanChildren(d) PROVE Smooth(c)'
    BY <1>a, <1>7 DEF CleanChildren, KillAll, client
<1>8. ASSUME NEW d \in Call, Report(d) PROVE Smooth(c)'
    BY <1>a, <1>8 DEF Report, client, files, command
<1>9. ASSUME NEW d \in Call, Look(d) PROVE Smooth(c)'
    BY <1>a, <1>9 DEF Look, RemoveRecord, client, files, command
<1>10. ASSUME NEW d \in Call, Await(d) PROVE Smooth(c)'
    BY <1>a, <1>10 DEF Await, RemoveRecord, client, files, script, command
<1>11. ASSUME NEW d \in Call, Answered(d) PROVE Smooth(c)'
  <2>a. AnsweredBy(d)
    BY <1>b, <1>11, AnsweredCases
  <2>1. UNCHANGED <<files, script, main, cleaner, faults>>
    BY <2>a DEF AnsweredBy, command
  <2>2. CASE c = d
    <3>1. ASSUME faults = 0
          PROVE  \/ call'[c] = "cleaning" /\ report[c] = "timed_out" /\ outcome'[c] = "timeout"
                 \/ call'[c] = "removing" /\ report[c] = "finished" /\ outcome'[c] = "ok"
      <4>1. supervisor[c] = "gone"
        BY <1>a, <2>2, <3>1, <2>a DEF AnsweredBy
      <4>2. report[c] \in {"timed_out", "finished"}
        BY <1>a, <3>1, <4>1
      <4>3. \/ report[c] = "timed_out" /\ Settle(c, "cleaning", "timeout")
            \/ report[c] = "finished" /\ Settle(c, "removing", "ok")
        BY <2>2, <4>2, <2>a DEF AnsweredBy
      <4>4. DOMAIN call = Call /\ DOMAIN outcome = Call
        BY <1>a
      <4> QED
        BY <4>3, <4>4 DEF Settle, To
    <3> QED
      BY <1>a, <1>s, <2>1, <2>2, <3>1, <2>a DEF AnsweredBy, files, script
  <2>3. CASE c # d
    <3>1. call'[c] = call[c] /\ outcome'[c] = outcome[c]
      BY <1>a, <2>3, <2>a DEF AnsweredBy, Settle, To
    <3> QED
      BY <1>a, <2>1, <3>1 DEF files, script
  <2> QED
    BY <2>2, <2>3
<1>12. ASSUME NEW d \in Call, BeginCleaning(d) PROVE Smooth(c)'
    BY <1>a, <1>12 DEF BeginCleaning, client, files, script, command
<1>13. ASSUME NEW d \in Call, Cleaned(d) PROVE Smooth(c)'
    BY <1>a, <1>13 DEF Cleaned, To, files, script, command
<1>14. ASSUME NEW d \in Call, Remove(d) PROVE Smooth(c)'
    BY <1>a, <1>14 DEF Remove, To, RemoveRecord, script, command
<1>15. ASSUME NEW d \in Call, EnterProbe(d) PROVE Smooth(c)'
    BY <1>a, <1>15 DEF EnterProbe, To, AfterProbe, files, script, command
<1>16. ASSUME NEW d \in Call, Healthy(d) PROVE Smooth(c)'
    BY <1>a, <1>16 DEF Healthy, To, AfterProbe, files, script, command
<1>17. ASSUME NEW d \in Call, Serve(d) PROVE Smooth(c)'
    BY <1>a, <1>17 DEF Serve, To, Begin, files, script
<1>18. ASSUME NEW d \in Call, Reply(d) PROVE Smooth(c)'
    BY <1>a, <1>18 DEF Reply, Settle, To, files, script, command
<1>19. ASSUME NEW d \in Call, NotCleaned(d) PROVE Smooth(c)'
    BY <1>a, <1>19, FaultCounts DEF NotCleaned, Broken, Settle, To, files, script, command
<1>20. ASSUME NEW d \in Call, NotRemoved(d) PROVE Smooth(c)'
    BY <1>a, <1>20, FaultCounts DEF NotRemoved, Broken, To, files, script, command
<1>21. ASSUME NEW d \in Call, Unhealthy(d) PROVE Smooth(c)'
    BY <1>a, <1>21, FaultCounts DEF Unhealthy, Broken, To, AfterProbe, files, script, command
<1>22. ASSUME NEW d \in Call, Unreachable(d) PROVE Smooth(c)'
    BY <1>a, <1>22, FaultCounts DEF Unreachable, Broken, Retry, Settle, To, files, script, command
<1>23. ASSUME NEW d \in Call, Lost(d) PROVE Smooth(c)'
    BY <1>a, <1>23, FaultCounts DEF Lost, Broken, Settle, To, files, script, command
<1>24. ASSUME NEW d \in Call, Overdue(d) PROVE Smooth(c)'
    BY <1>a, <1>24, FaultCounts DEF Overdue, Settle, To, files, script, command
<1>25. ASSUME NEW d \in Call, SupervisorFails(d) PROVE Smooth(c)'
    BY <1>a, <1>25, FaultCounts DEF SupervisorFails, client, files, command
<1>26. ASSUME NEW d \in Call, Cancel(d) PROVE Smooth(c)'
    BY <1>a, <1>26, FaultCounts DEF Cancel, Settle, To, files, script, command
<1>27. ASSUME NEW d \in Call, CancelCleanup(d) PROVE Smooth(c)'
    BY <1>a, <1>27, FaultCounts DEF CancelCleanup, Settle, To, files, script, command
<1>28. ASSUME Stop PROVE Smooth(c)'
    BY <1>a, <1>28, FaultCounts DEF Stop, client, files
<1>29. ASSUME NEW d \in Call,
              Fork(d) \/ OthersEnd(d)
      PROVE  Smooth(c)'
    BY <1>a, <1>29 DEF Fork, OthersEnd, client, files, script
<1>30. ASSUME UNCHANGED vars PROVE Smooth(c)'
    BY <1>a, <1>30 DEF vars, client, files, script, command
<1> QED
    BY <1>1, <1>2, <1>3, <1>4, <1>5, <1>6, <1>7, <1>8, <1>9, <1>10, <1>11, <1>12, <1>13, <1>14,
       <1>15, <1>16, <1>17, <1>18, <1>19, <1>20, <1>21, <1>22, <1>23, <1>24, <1>25, <1>26, <1>27,
       <1>28, <1>29, <1>30 DEF Next, Container, Executor, Failure

-----------------------------------------------------------------------------
(* Type correctness.                                                       *)

CallPc == {"idle", "waiting", "cleaning", "removing", "posting", "served", "ended"} \cup Probing
Result == {"none", "ok", "timeout", "error", "cancelled", "late"}
SupervisorPc == {"none", "requested", "reading", "running", "cleaning", "reporting", "gone"}
Said == {"none", "started", "timed_out", "finished"}
CleanerPc == {"none", "looking", "asked", "done", "failed"}
MainPc == {"none", "running", "exited", "expired", "killed", "lost"}

\* TypeOK, with its sets named.
Typing ==
    /\ call \in [Call -> CallPc] /\ outcome \in [Call -> Result]
    /\ attempt \in [Call -> 0 .. Attempts]
    /\ quarantined \in BOOLEAN /\ health \in Call \cup {None} /\ probes \in 0 .. Probes
    /\ up \in BOOLEAN /\ supervisor \in [Call -> SupervisorPc]
    /\ record \in [Call -> BOOLEAN] /\ clean \in [Call -> BOOLEAN]
    /\ interrupted \in [Call -> BOOLEAN] /\ report \in [Call -> Said]
    /\ cleaner \in [Call -> CleanerPc] /\ main \in [Call -> MainPc]
    /\ others \in [Call -> BOOLEAN] /\ killed \in [Call -> BOOLEAN]
    /\ ran \in [Call -> 0 .. 1] /\ faults \in 0 .. MaxFaults

\* It says the same.
LEMMA TypeNames == TypeOK <=> Typing
BY DEF TypeOK, Typing, CallPc, Result, SupervisorPc, Said, CleanerPc, MainPc

\* The values the steps assign are in these sets.
LEMMA Members ==
    /\ "idle" \in CallPc /\ "waiting" \in CallPc /\ "cleaning" \in CallPc /\
       "removing" \in CallPc /\ "posting" \in CallPc /\ "served" \in CallPc /\
       "ended" \in CallPc /\ "probing" \in CallPc /\ "checking" \in CallPc /\
       "doubting" \in CallPc
    /\ "ok" \in Result /\ "timeout" \in Result /\ "error" \in Result /\
       "cancelled" \in Result /\ "late" \in Result
    /\ "none" \in SupervisorPc /\ "requested" \in SupervisorPc /\ "reading" \in SupervisorPc /\
       "running" \in SupervisorPc /\ "cleaning" \in SupervisorPc /\
       "reporting" \in SupervisorPc /\ "gone" \in SupervisorPc /\ "none" \in SupervisorPc
    /\ "started" \in Said /\ "timed_out" \in Said /\ "finished" \in Said
    /\ "looking" \in CleanerPc /\ "asked" \in CleanerPc /\ "done" \in CleanerPc /\
       "failed" \in CleanerPc
    /\ "running" \in MainPc /\ "exited" \in MainPc /\ "expired" \in MainPc /\
       "killed" \in MainPc /\ "lost" \in MainPc /\ "none" \in MainPc
BY DEF CallPc, Probing, Result, SupervisorPc, Said, CleanerPc, MainPc

\* Every step keeps the types; nothing is started twice, because of where its call is.
LEMMA TypeKept == Inv /\ [Next]_vars => TypeOK'
<1> SUFFICES ASSUME Inv, [Next]_vars PROVE TypeOK'
    OBVIOUS
<1>b. TypeOK
    BY DEF Inv
<1>a. Typing /\ \A c \in Call : Placed(c)
    BY TypeNames DEF Inv, CallInv
<1> USE DEF Typing
<1>1. ASSUME NEW d \in Call, ExecuteLocal(d) PROVE Typing'
    BY <1>a, <1>1, Members DEF ExecuteLocal, To, files, command
<1>2. ASSUME NEW d \in Call, ExecuteRemote(d) PROVE Typing'
    BY <1>a, <1>2, Members DEF ExecuteRemote, To, files, script, command
<1>3. ASSUME NEW d \in Call, End(d) PROVE Typing'
    BY <1>a, <1>3, Members DEF End, client, files, script
<1>4. ASSUME NEW d \in Call, Start(d) PROVE Typing'
    BY <1>a, <1>4, Members DEF Start, client, command
<1>5. ASSUME NEW d \in Call, Read(d) PROVE Typing'
    BY <1>a, <1>5, Members DEF Read, Begin, Fault, client, files, command, Placed
<1>6. ASSUME NEW d \in Call, Notice(d) PROVE Typing'
  <2>1. supervisor' \in [Call -> SupervisorPc]
    BY <1>a, <1>6, Members DEF Notice
  <2>2. clean' \in [Call -> BOOLEAN]
    BY <1>a, <1>6 DEF Notice
  <2> QED
    BY <1>a, <1>6, <2>1, <2>2 DEF Notice, client, command
<1>7. ASSUME NEW d \in Call, CleanChildren(d) PROVE Typing'
    BY <1>a, <1>7, Members DEF CleanChildren, KillAll, client, Placed
<1>8. ASSUME NEW d \in Call, Report(d) PROVE Typing'
    BY <1>a, <1>8, Members DEF Report, client, files, command
<1>9. ASSUME NEW d \in Call, Look(d) PROVE Typing'
  <2>1. cleaner' \in [Call -> CleanerPc]
    BY <1>a, <1>9, Members DEF Look
  <2>2. record' \in [Call -> BOOLEAN] /\ clean' \in [Call -> BOOLEAN]
    BY <1>a, <1>9 DEF Look, RemoveRecord, files
  <2>3. interrupted' \in [Call -> BOOLEAN]
    BY <1>a, <1>9 DEF Look
  <2> QED
    BY <1>a, <1>9, <2>1, <2>2, <2>3 DEF Look, client, command
<1>10. ASSUME NEW d \in Call, Await(d) PROVE Typing'
  <2>1. cleaner' \in [Call -> CleanerPc]
    BY <1>a, <1>10, Members DEF Await
  <2>2. record' \in [Call -> BOOLEAN] /\ clean' \in [Call -> BOOLEAN]
    BY <1>a, <1>10 DEF Await, RemoveRecord, files
  <2> QED
    BY <1>a, <1>10, <2>1, <2>2 DEF Await, client, script, command
<1>11. ASSUME NEW d \in Call, Fork(d) PROVE Typing'
    BY <1>a, <1>11, Members DEF Fork, client, files, script
<1>12. ASSUME NEW d \in Call, OthersEnd(d) PROVE Typing'
    BY <1>a, <1>12, Members DEF OthersEnd, client, files, script
<1>13. ASSUME NEW d \in Call, Answered(d) PROVE Typing'
  <2>a. AnsweredBy(d)
    BY <1>b, <1>13, AnsweredCases
  <2>1. call' \in [Call -> CallPc] /\ outcome' \in [Call -> Result]
    <3>1. \E phase \in CallPc, result \in Result : Settle(d, phase, result)
      BY Members, <2>a DEF AnsweredBy
    <3> QED
      BY <1>a, <3>1 DEF Settle, To
  <2>2. quarantined' \in BOOLEAN
    BY <1>a, <2>a DEF AnsweredBy
  <2> QED
    BY <1>a, <2>1, <2>2, <2>a DEF AnsweredBy, files, script, command
<1>14. ASSUME NEW d \in Call, BeginCleaning(d) PROVE Typing'
    BY <1>a, <1>14, Members DEF BeginCleaning, client, files, script, command
<1>15. ASSUME NEW d \in Call, Cleaned(d) PROVE Typing'
    BY <1>a, <1>15, Members DEF Cleaned, To, files, script, command
<1>16. ASSUME NEW d \in Call, Remove(d) PROVE Typing'
    BY <1>a, <1>16, Members DEF Remove, To, RemoveRecord, script, command
<1>17. ASSUME NEW d \in Call, EnterProbe(d) PROVE Typing'
    BY <1>a, <1>17, Members DEF EnterProbe, To, AfterProbe, Probing, files, script, command,
        Placed
<1>18. ASSUME NEW d \in Call, Healthy(d) PROVE Typing'
    BY <1>a, <1>18, Members DEF Healthy, To, AfterProbe, files, script, command
<1>19. ASSUME NEW d \in Call, Serve(d) PROVE Typing'
    BY <1>a, <1>19, Members DEF Serve, To, Begin, files, script, Placed
<1>20. ASSUME NEW d \in Call, Reply(d) PROVE Typing'
    BY <1>a, <1>20, Members DEF Reply, Settle, To, files, script, command
<1>21. ASSUME NEW d \in Call, NotCleaned(d) PROVE Typing'
    BY <1>a, <1>21, Members DEF NotCleaned, Settle, To, Broken, Fault, files, script, command
<1>22. ASSUME NEW d \in Call, NotRemoved(d) PROVE Typing'
    BY <1>a, <1>22, Members DEF NotRemoved, To, Broken, Fault, files, script, command
<1>23. ASSUME NEW d \in Call, Unhealthy(d) PROVE Typing'
  <2>1. call' \in [Call -> CallPc]
    BY <1>a, <1>23, Members DEF Unhealthy, To, AfterProbe
  <2>2. probes' \in 0 .. Probes /\ faults' \in 0 .. MaxFaults
    BY <1>a, <1>23 DEF Unhealthy, Placed, Broken, Fault
  <2>3. quarantined' \in BOOLEAN /\ health' \in Call \cup {None}
    BY <1>a, <1>23 DEF Unhealthy
  <2> QED
    BY <1>a, <1>23, <2>1, <2>2, <2>3 DEF Unhealthy, files, script, command
<1>24. ASSUME NEW d \in Call, Unreachable(d) PROVE Typing'
    BY <1>a, <1>24, Members DEF Unreachable, Broken, Fault, Retry, Settle, To, files, script,
        command
<1>25. ASSUME NEW d \in Call, Lost(d) PROVE Typing'
    BY <1>a, <1>25, Members DEF Lost, Settle, To, Broken, Fault, files, script, command
<1>26. ASSUME NEW d \in Call, Overdue(d) PROVE Typing'
    BY <1>a, <1>26, Members DEF Overdue, Settle, To, Fault, files, script, command
<1>27. ASSUME NEW d \in Call, SupervisorFails(d) PROVE Typing'
    BY <1>a, <1>27, Members DEF SupervisorFails, Fault, client, files, command
<1>28. ASSUME NEW d \in Call, Cancel(d) PROVE Typing'
    BY <1>a, <1>28, Members, CancelCases DEF Cancel, Settle, To, Fault, files, script, command
<1>29. ASSUME NEW d \in Call, CancelCleanup(d) PROVE Typing'
    BY <1>a, <1>29, Members DEF CancelCleanup, Settle, To, Fault, files, script, command
<1>30. ASSUME Stop PROVE Typing'
  <2>1. supervisor' \in [Call -> SupervisorPc]
    BY <1>a, <1>30, Members DEF Stop
  <2>2. main' \in [Call -> MainPc]
    BY <1>a, <1>30, Members DEF Stop
  <2>3. others' \in [Call -> BOOLEAN]
    BY <1>30 DEF Stop
  <2>4. up' \in BOOLEAN
    BY <1>30 DEF Stop
  <2>5. faults' \in 0 .. MaxFaults
    <3>1. faults \in 0 .. MaxFaults /\ faults < MaxFaults /\ faults' = faults + 1
      BY <1>a, <1>30 DEF Stop, Fault
    <3> QED
      BY <3>1
  <2> QED
    BY <1>a, <1>30, <2>1, <2>2, <2>3, <2>4, <2>5 DEF Stop, client, files
<1>31. ASSUME UNCHANGED vars PROVE Typing'
    BY <1>a, <1>31 DEF vars, client, files, script, command
<1>32. Typing'
    BY <1>1, <1>2, <1>3, <1>4, <1>5, <1>6, <1>7, <1>8, <1>9, <1>10, <1>11, <1>12, <1>13, <1>14,
       <1>15, <1>16, <1>17, <1>18, <1>19, <1>20, <1>21, <1>22, <1>23, <1>24, <1>25, <1>26, <1>27,
       <1>28, <1>29, <1>30, <1>31 DEF Next, Container, Executor, Failure
<1> QED
    BY <1>32 DEF TypeOK, CallPc, Result, SupervisorPc, Said, CleanerPc, MainPc

-----------------------------------------------------------------------------
(* The theorems.                                                           *)

\* Nothing has happened.
LEMMA InitHolds == Init => Inv
<1> SUFFICES ASSUME Init PROVE Inv
    OBVIOUS
<1>1. TypeOK
  <2>1. "idle" \in CallPc /\ "none" \in Result /\ "none" \in Said /\ "none" \in CleanerPc
    BY DEF CallPc, Result, Said, CleanerPc
  <2>2. 0 \in 0 .. Attempts /\ 0 \in 0 .. Probes /\ 0 \in 0 .. MaxFaults /\ 0 \in 0 .. 1
    OBVIOUS
  <2> QED
    BY <2>1, <2>2, TypeNames, Members DEF Init, Typing
<1>2. Sound
    BY DEF Init, Sound
<1>3. ASSUME NEW c \in Call PROVE CallInv(c)
  <2>1. Placed(c) /\ Settled(c) /\ Confirmed(c) /\ Retired(c)
    BY DEF Init, Placed, Settled, Confirmed, Retired, Over, Local, Remote
  <2>2. Supervised(c) /\ Told(c) /\ Smooth(c)
    BY DEF Init, Supervised, Told, Smooth
  <2> QED
    BY <2>1, <2>2 DEF CallInv
<1> QED
    BY <1>1, <1>2, <1>3 DEF Inv

\* The sandbox goes only by a fault: what a failed cleanup or a supervisor that is
\* gone without a report retires, a fault has led to.
LEMMA SoundKept == Inv /\ [Next]_vars => Sound'
<1> SUFFICES ASSUME Inv, [Next]_vars, faults' = 0 PROVE up' /\ ~quarantined'
    BY DEF Sound
<1>a. Typed /\ TypeOK /\ Sound
    BY TypesGiven DEF Inv
<1>1. ASSUME NEW d \in Call, Answered(d) PROVE up' /\ ~quarantined'
  <2>a. AnsweredBy(d)
    BY <1>a, <1>1, AnsweredCases
  <2>1. faults = 0 /\ up /\ ~quarantined
    BY <1>a, <2>a DEF AnsweredBy, Sound
  <2>2. Smooth(d)
    BY DEF Inv, CallInv
  <2>3. report[d] # "started"
    BY <1>a, <2>1, <2>2, <2>a DEF AnsweredBy, Smooth
  <2> QED
    BY <1>a, <2>1, <2>3, <2>a DEF AnsweredBy
<1>2. ASSUME NEW d \in Call, NotCleaned(d) PROVE up' /\ ~quarantined'
  <2>1. faults # 0 \/ cleaner[d] # "failed"
    BY DEF Inv, CallInv, Smooth
  <2> QED
    BY <1>a, <1>2, <2>1, FaultCounts DEF NotCleaned, Broken, Sound
<1>3. ASSUME NEW d \in Call, Unhealthy(d) PROVE up' /\ ~quarantined'
    BY <1>a, <1>3, FaultCounts DEF Unhealthy, Broken, Sound
<1>4. ASSUME NEW d \in Call, CancelCleanup(d) PROVE up' /\ ~quarantined'
    BY <1>a, <1>4, FaultCounts DEF CancelCleanup
<1>5. ASSUME Stop PROVE up' /\ ~quarantined'
    BY <1>a, <1>5, FaultCounts DEF Stop
<1>6. ASSUME NEW d \in Call,
             NotRemoved(d) \/ Unreachable(d) \/ Lost(d) \/ Overdue(d) \/ SupervisorFails(d) \/ Cancel(d)
      PROVE  up' /\ ~quarantined'
    BY <1>a, <1>6, FaultCounts DEF NotRemoved, Unreachable, Lost, Overdue, SupervisorFails, Cancel,
        Broken, Sound, client
<1>7. ASSUME NEW d \in Call, Read(d) PROVE up' /\ ~quarantined'
    BY <1>a, <1>7, FaultCounts DEF Read, Sound, client
<1>8. ASSUME NEW d \in Call,
             \/ ExecuteLocal(d) \/ ExecuteRemote(d) \/ End(d) \/ Start(d) \/ Notice(d)
             \/ CleanChildren(d) \/ Report(d) \/ Look(d) \/ Await(d) \/ Fork(d) \/ OthersEnd(d)
      PROVE  up' /\ ~quarantined'
  <2>1. UNCHANGED <<up, quarantined, faults>>
    BY <1>8 DEF ExecuteLocal, ExecuteRemote, End, Start, Notice, CleanChildren, Report, Look, Await,
        Fork, OthersEnd, client
  <2> QED
    BY <1>a, <2>1 DEF Sound
<1>9. ASSUME NEW d \in Call,
             \/ BeginCleaning(d) \/ Cleaned(d) \/ Remove(d) \/ EnterProbe(d) \/ Healthy(d)
             \/ Serve(d) \/ Reply(d)
      PROVE  up' /\ ~quarantined'
  <2>1. UNCHANGED <<up, quarantined, faults>>
    BY <1>9 DEF BeginCleaning, Cleaned, Remove, EnterProbe, Healthy, Serve, Reply, client
  <2> QED
    BY <1>a, <2>1 DEF Sound
<1>10. CASE UNCHANGED vars
    BY <1>a, <1>10 DEF vars, client, Sound
<1> QED
    BY <1>1, <1>2, <1>3, <1>4, <1>5, <1>6, <1>7, <1>8, <1>9, <1>10
    DEF Next, Container, Executor, Failure

\* The invariant is inductive.
LEMMA InvKept == Inv /\ [Next]_vars => Inv'
<1> SUFFICES ASSUME Inv, [Next]_vars PROVE Inv'
    OBVIOUS
<1>1. TypeOK' /\ Sound'
    BY TypeKept, SoundKept
<1>2. ASSUME NEW c \in Call PROVE CallInv(c)'
    BY PlacedKept, SettledKept, SupervisedKept, ConfirmedKept, RetiredKept, ToldKept, SmoothKept
    DEF CallInv
<1> QED
    BY <1>1, <1>2 DEF Inv

\* So it always holds.
LEMMA Always == Spec => []Inv
<1> QED
    BY InitHolds, InvKept, PTL DEF Spec

\* The state of the calls, their processes and their files has its type; in
\* particular no command is started twice, however often the connection to the
\* server fails before the request is delivered.
THEOREM TypeCorrect == Spec => []TypeOK
<1>1. Inv => TypeOK
    BY DEF Inv
<1> QED
    BY <1>1, Always, PTL

\* A local call that ends by a timeout, an error or a cancellation leaves nothing
\* of its command running or about to run, or retires the sandbox.
THEOREM NothingLeft == Spec => []NothingLeftBehind
<1>1. Inv => NothingLeftBehind
    BY DEF Inv, CallInv, Retired, Over, NothingLeftBehind
<1> QED
    BY <1>1, Always, PTL

\* A result is that of a command that ended by itself and whose processes were
\* left alone, a timeout is one, and without a fault no call fails and no sandbox
\* is retired.
THEOREM AnswersTrue == Spec => []AnswerIsTrue
<1>1. ASSUME Inv PROVE AnswerIsTrue
  <2>1. ASSUME NEW c \in Call
        PROVE  /\ outcome[c] \in {"ok", "late"} => main[c] = "exited" /\ ~killed[c]
               /\ outcome[c] = "timeout" => main[c] = "expired"
               /\ outcome[c] = "error" => faults > 0
    <3>1. Told(c) /\ Smooth(c) /\ Typed
      BY <1>1, TypesGiven DEF Inv, CallInv
    <3>2. outcome[c] = "error" => faults # 0
      BY <3>1 DEF Smooth
    <3> QED
      BY <3>1, <3>2 DEF Told, Typed
  <2>2. quarantined => faults > 0
    BY <1>1, TypesGiven DEF Inv, Sound, Typed
  <2> QED
    BY <2>1, <2>2 DEF AnswerIsTrue
<1> QED
    BY <1>1, Always, PTL
=============================================================================
