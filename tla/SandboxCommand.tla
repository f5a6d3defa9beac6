--------------------------- MODULE SandboxCommand ---------------------------
(***************************************************************************)
(* Commands in one sandbox: execute_command and execute_code of            *)
(* SandboxExecutor (harness/sandbox/executor.py), with the two scripts it  *)
(* runs in the container (harness/sandbox/_local_process.py).              *)
(*                                                                         *)
(* Where the container runtime is at hand a command runs under a           *)
(* supervisor of its own.  The supervisor leaves a record of itself, runs  *)
(* the command, and reports how it ended.  A command that ran out of time, *)
(* was cancelled or went wrong is cleaned up by a second script, which     *)
(* asks the supervisor to kill what is left and waits for its word (the    *)
(* .clean file).  Elsewhere commands go to the server in the container.    *)
(*                                                                         *)
(* A call that cannot tell how its command ended probes the container, and *)
(* quarantines the sandbox once every probe has failed.  SandboxManager    *)
(* then gives it to nobody and replaces it.                                *)
(*                                                                         *)
(* MaxFaults bounds what goes wrong: deadlines, lost connections, failing  *)
(* probes and controls, processes killed in the container, its end, and    *)
(* cancelled calls.                                                        *)
(***************************************************************************)
EXTENDS Integers

CONSTANTS Call,      \* commands given to this executor
          None,
          Attempts,  \* attempts at reaching the server (_TRANSPORT_RETRIES + 1)
          Probes,    \* health checks before a quarantine (_HEALTH_CHECK_RETRIES + 1)
          MaxFaults  \* bound: faults

ASSUME CommandAssumption ==
    /\ None \notin Call
    /\ Attempts \in Nat \ {0}
    /\ Probes \in Nat \ {0}
    /\ MaxFaults \in Nat

VARIABLES
    call,        \* where each call is
    outcome,     \* what it will return or raise
    attempt,     \* its attempts at reaching the server
    quarantined, \* is there a _quarantined_reason
    health,      \* who holds _health_check_lock
    probes,      \* the failed probes of its holder
    up,          \* does the container run
    supervisor,  \* the supervisor of each call
    record,      \* is its pid_file there
    clean,       \* is pid_file.clean there
    interrupted, \* has it got SIGUSR1
    report,      \* what it has printed
    cleaner,     \* the cleanup script of each call
    main,        \* the command itself
    others,      \* does a process it started run
    killed,      \* history: has the supervisor killed any of them
    ran,         \* history: how often the command was started
    faults

client == <<call, outcome, attempt, quarantined, health, probes>>
files == <<record, clean>>
script == <<supervisor, interrupted, report>>
command == <<main, others, killed, ran>>
vars == <<client, up, files, script, cleaner, command, faults>>

Init ==
    /\ call = [c \in Call |-> "idle"] /\ outcome = [c \in Call |-> "none"]
    /\ attempt = [c \in Call |-> 0]
    /\ quarantined = FALSE /\ health = None /\ probes = 0
    /\ up = TRUE
    /\ supervisor = [c \in Call |-> "none"] /\ interrupted = [c \in Call |-> FALSE]
    /\ report = [c \in Call |-> "none"]
    /\ record = [c \in Call |-> FALSE] /\ clean = [c \in Call |-> FALSE]
    /\ cleaner = [c \in Call |-> "none"]
    /\ main = [c \in Call |-> "none"] /\ others = [c \in Call |-> FALSE]
    /\ killed = [c \in Call |-> FALSE] /\ ran = [c \in Call |-> 0]
    /\ faults = 0

Fault == faults < MaxFaults /\ faults' = faults + 1

\* What fails in a container that is gone, or by a fault in one that runs.
Broken == IF up THEN Fault ELSE UNCHANGED faults

To(c, phase) == call' = [call EXCEPT ![c] = phase]
Settle(c, phase, result) == To(c, phase) /\ outcome' = [outcome EXCEPT ![c] = result]

-----------------------------------------------------------------------------
(* The command, in the container.                                          *)

Begin(c) ==
    /\ main' = [main EXCEPT ![c] = "running"]
    /\ ran' = [ran EXCEPT ![c] = @ + 1]
    /\ UNCHANGED <<others, killed>>

\* It starts a process that may outlive it.
Fork(c) ==
    /\ main[c] = "running"
    /\ others' = [others EXCEPT ![c] = TRUE]
    /\ UNCHANGED <<client, up, files, script, cleaner, main, killed, ran, faults>>

\* It ends by itself, or timeout (the server's deadline) kills it alone.
End(c) ==
    /\ main[c] = "running"
    /\ \E end \in {"exited", "expired"} : main' = [main EXCEPT ![c] = end]
    /\ UNCHANGED <<client, up, files, script, cleaner, others, killed, ran, faults>>

OthersEnd(c) ==
    /\ others[c]
    /\ others' = [others EXCEPT ![c] = FALSE]
    /\ UNCHANGED <<client, up, files, script, cleaner, main, killed, ran, faults>>

-----------------------------------------------------------------------------
(* COMMAND_SUPERVISOR.                                                     *)

\* SIGUSR1 is handled from before the record is there.
Start(c) ==
    /\ up /\ supervisor[c] = "requested"
    /\ supervisor' = [supervisor EXCEPT ![c] = "reading"]
    /\ record' = [record EXCEPT ![c] = TRUE]
    /\ report' = [report EXCEPT ![c] = "started"]
    /\ UNCHANGED <<client, up, clean, interrupted, cleaner, command, faults>>

\* It has its payload; or it is interrupted, or stdin closes, before that, or
\* the command cannot be started.
Read(c) ==
    /\ supervisor[c] = "reading"
    /\ \/ /\ ~interrupted[c] /\ Begin(c)
          /\ supervisor' = [supervisor EXCEPT ![c] = "running"]
          /\ UNCHANGED faults
       \/ /\ IF interrupted[c] \/ call[c] # "waiting" THEN UNCHANGED faults ELSE Fault
          /\ supervisor' = [supervisor EXCEPT ![c] = "cleaning"]
          /\ UNCHANGED command
    /\ UNCHANGED <<client, up, files, interrupted, report, cleaner>>

NoticeAlways(c) ==      \* bug: a command that ended by itself is cleaned up too
    /\ supervisor[c] = "running"
    /\ main[c] # "running" \/ interrupted[c]
    /\ supervisor' = [supervisor EXCEPT ![c] = "cleaning"]
    /\ UNCHANGED <<client, up, files, interrupted, report, cleaner, command, faults>>

\* clean_children has no descendants left, or the wait finds none.
Notice(c) ==
    /\ supervisor[c] = "running"
    /\ main[c] # "running" \/ interrupted[c]
    /\ IF interrupted[c] \/ main[c] = "expired"
       THEN supervisor' = [supervisor EXCEPT ![c] = "cleaning"] /\ UNCHANGED clean
       ELSE /\ supervisor' = [supervisor EXCEPT ![c] = "reporting"]
            /\ clean' = [clean EXCEPT ![c] = ~others[c]]
    /\ UNCHANGED <<client, up, record, interrupted, report, cleaner, command, faults>>

KillAll(c) ==
    /\ killed' = [killed EXCEPT ![c] = @ \/ others[c] \/ main[c] = "running"]
    /\ main' = [main EXCEPT ![c] = IF @ = "running" THEN "killed" ELSE @]
    /\ others' = [others EXCEPT ![c] = FALSE]
    /\ UNCHANGED ran

CleanChildren(c) ==
    /\ supervisor[c] = "cleaning"
    /\ KillAll(c)
    /\ clean' = [clean EXCEPT ![c] = TRUE]
    /\ supervisor' = [supervisor EXCEPT ![c] = IF main[c] = "none" THEN "gone" ELSE "reporting"]
    /\ UNCHANGED <<client, up, record, interrupted, report, cleaner, faults>>

Report(c) ==
    /\ supervisor[c] = "reporting"
    /\ supervisor' = [supervisor EXCEPT ![c] = "gone"]
    /\ report' = [report EXCEPT ![c] = IF main[c] = "expired" THEN "timed_out" ELSE "finished"]
    /\ UNCHANGED <<client, up, files, interrupted, cleaner, command, faults>>

\* It cannot start, descendants survive the deadline of clean_children, or it is
\* killed itself.
SupervisorFails(c) ==
    /\ Fault
    /\ supervisor[c] \notin {"none", "gone"}
    /\ supervisor' = [supervisor EXCEPT ![c] = "gone"]
    /\ UNCHANGED <<client, up, files, interrupted, report, cleaner, command>>

-----------------------------------------------------------------------------
(* _execute_local_command.                                                 *)

ExecuteLocal(c) ==
    /\ call[c] = "idle"
    /\ To(c, "waiting")
    /\ supervisor' = [supervisor EXCEPT ![c] = "requested"]
    /\ UNCHANGED <<outcome, attempt, quarantined, health, probes, up, files,
                   interrupted, report, cleaner, command, faults>>

\* The control command has returned: the supervisor is gone, or the container.
Answered(c) ==
    /\ call[c] = "waiting"
    /\ supervisor[c] = "gone" \/ ~up
    /\ CASE report[c] = "none" -> Settle(c, "probing", "error") /\ UNCHANGED quarantined
         [] report[c] = "started" -> Settle(c, "cleaning", "error") /\ quarantined' = TRUE
         [] report[c] = "timed_out" -> Settle(c, "cleaning", "timeout") /\ UNCHANGED quarantined
         [] report[c] = "finished" -> Settle(c, "removing", "ok") /\ UNCHANGED quarantined
    /\ UNCHANGED <<attempt, health, probes, up, files, script, cleaner, command, faults>>

\* It has not returned in time, or could not be executed.
Overdue(c) ==
    /\ Fault
    /\ call[c] = "waiting"
    /\ Settle(c, "probing", "error")
    /\ UNCHANGED <<attempt, quarantined, health, probes, up, files, script, cleaner, command>>

-----------------------------------------------------------------------------
(* COMMAND_CLEANUP, and clean_session, which runs it or removes the record.*)

BeginCleaning(c) ==
    /\ call[c] = "cleaning" /\ cleaner[c] = "none"
    /\ cleaner' = [cleaner EXCEPT ![c] = IF up THEN "looking" ELSE "failed"]
    /\ UNCHANGED <<client, up, files, script, command, faults>>

RemoveRecord(c) ==
    /\ record' = [record EXCEPT ![c] = FALSE]
    /\ clean' = [clean EXCEPT ![c] = FALSE]

LookForSupervisor(c) ==      \* bug: no supervisor, nothing to clean up
    /\ up /\ cleaner[c] = "looking"
    /\ IF record[c] /\ supervisor[c] # "gone"
       THEN /\ cleaner' = [cleaner EXCEPT ![c] = "asked"]
            /\ interrupted' = [interrupted EXCEPT ![c] = TRUE]
            /\ UNCHANGED files
       ELSE /\ cleaner' = [cleaner EXCEPT ![c] = "done"]
            /\ RemoveRecord(c) /\ UNCHANGED interrupted
    /\ UNCHANGED <<client, up, supervisor, report, command, faults>>

\* There is no record, or nobody who could clean up, or the supervisor is asked.
Look(c) ==
    /\ up /\ cleaner[c] = "looking"
    /\ \/ /\ record[c] /\ clean[c]
          /\ cleaner' = [cleaner EXCEPT ![c] = "done"]
          /\ RemoveRecord(c) /\ UNCHANGED interrupted
       \/ /\ ~record[c] \/ (~clean[c] /\ supervisor[c] = "gone")
          /\ cleaner' = [cleaner EXCEPT ![c] = "failed"]
          /\ UNCHANGED <<files, interrupted>>
       \/ /\ record[c] /\ ~clean[c] /\ supervisor[c] # "gone"
          /\ cleaner' = [cleaner EXCEPT ![c] = "asked"]
          /\ interrupted' = [interrupted EXCEPT ![c] = TRUE]
          /\ UNCHANGED files
    /\ UNCHANGED <<client, up, supervisor, report, command, faults>>

AwaitWithoutEnd(c) ==      \* bug: it waits for as long as it takes
    /\ up /\ cleaner[c] = "asked"
    /\ clean[c] /\ cleaner' = [cleaner EXCEPT ![c] = "done"] /\ RemoveRecord(c)
    /\ UNCHANGED <<client, up, script, command, faults>>

\* It waits for .clean, but not for long.
Await(c) ==
    /\ up /\ cleaner[c] = "asked"
    /\ \/ clean[c] /\ cleaner' = [cleaner EXCEPT ![c] = "done"] /\ RemoveRecord(c)
       \/ ~clean[c] /\ cleaner' = [cleaner EXCEPT ![c] = "failed"] /\ UNCHANGED files
    /\ UNCHANGED <<client, up, script, command, faults>>

Cleaned(c) ==
    /\ call[c] = "cleaning" /\ cleaner[c] = "done"
    /\ To(c, "ended")
    /\ UNCHANGED <<outcome, attempt, quarantined, health, probes, up, files, script,
                   cleaner, command, faults>>

\* The script has failed, or is not done in time: nobody knows what still runs.
\* A cancellation is raised all the same.
NotCleaned(c) ==
    /\ call[c] = "cleaning" /\ cleaner[c] # "none"
    /\ IF cleaner[c] = "failed" THEN UNCHANGED faults ELSE Broken
    /\ quarantined' = TRUE
    /\ Settle(c, "ended", IF outcome[c] = "cancelled" THEN "cancelled" ELSE "error")
    /\ UNCHANGED <<attempt, health, probes, up, files, script, cleaner, command>>

\* After a command that ended by itself only the record goes.
Remove(c) ==
    /\ up /\ call[c] = "removing"
    /\ RemoveRecord(c)
    /\ To(c, "ended")
    /\ UNCHANGED <<outcome, attempt, quarantined, health, probes, up, script, cleaner,
                   command, faults>>

NotRemoved(c) ==
    /\ Broken
    /\ call[c] = "removing"
    /\ To(c, "checking")
    /\ UNCHANGED <<outcome, attempt, quarantined, health, probes, up, files, script,
                   cleaner, command>>

-----------------------------------------------------------------------------
(* _quarantine_if_unresponsive, before the cleanup of a local command,     *)
(* after the removal of its record, or at the end of a request.            *)

Probing == {"probing", "checking", "doubting"}
AfterProbe(c) == IF call[c] = "probing" THEN "cleaning" ELSE "ended"

EnterProbe(c) ==
    /\ call[c] \in Probing /\ health = None
    /\ IF quarantined
       THEN To(c, AfterProbe(c)) /\ UNCHANGED <<health, probes>>
       ELSE health' = c /\ probes' = 0 /\ UNCHANGED call
    /\ UNCHANGED <<outcome, attempt, quarantined, up, files, script, cleaner, command, faults>>

Healthy(c) ==
    /\ up /\ health = c
    /\ health' = None
    /\ To(c, AfterProbe(c))
    /\ UNCHANGED <<outcome, attempt, quarantined, probes, up, files, script, cleaner,
                   command, faults>>

Unhealthy(c) ==
    /\ Broken
    /\ health = c
    /\ probes' = probes + 1
    /\ IF probes + 1 < Probes
       THEN UNCHANGED <<call, health, quarantined>>
       ELSE quarantined' = TRUE /\ health' = None /\ To(c, AfterProbe(c))
    /\ UNCHANGED <<outcome, attempt, up, files, script, cleaner, command>>

-----------------------------------------------------------------------------
(* _execute_remote_command: a request to the server in the container.      *)

ExecuteRemote(c) ==
    /\ call[c] = "idle"
    /\ To(c, "posting")
    /\ attempt' = [attempt EXCEPT ![c] = 1]
    /\ UNCHANGED <<outcome, quarantined, health, probes, up, files, script, cleaner,
                   command, faults>>

Serve(c) ==
    /\ up /\ call[c] = "posting"
    /\ To(c, "served")
    /\ Begin(c)
    /\ UNCHANGED <<outcome, attempt, quarantined, health, probes, up, files, script,
                   cleaner, faults>>

Retry(c) ==
    IF attempt[c] < Attempts
    THEN To(c, "posting") /\ attempt' = [attempt EXCEPT ![c] = @ + 1] /\ UNCHANGED outcome
    ELSE Settle(c, "doubting", "error") /\ UNCHANGED attempt

\* No connection was made, so the request may be sent again.
Unreachable(c) ==
    /\ Broken
    /\ call[c] = "posting"
    /\ Retry(c)
    /\ UNCHANGED <<quarantined, health, probes, up, files, script, cleaner, command>>

LostAndRetried(c) ==      \* bug: any transport error is retried
    /\ Broken
    /\ call[c] = "served"
    /\ Retry(c)
    /\ UNCHANGED <<quarantined, health, probes, up, files, script, cleaner, command>>

\* The answer is lost: the command may have run, and is not sent again.
Lost(c) ==
    /\ Broken
    /\ call[c] = "served"
    /\ Settle(c, "doubting", "error")
    /\ UNCHANGED <<attempt, quarantined, health, probes, up, files, script, cleaner, command>>

Reply(c) ==
    /\ up /\ call[c] = "served" /\ main[c] # "running"
    /\ Settle(c, "ended", IF main[c] = "expired" THEN "timeout" ELSE "ok")
    /\ UNCHANGED <<attempt, quarantined, health, probes, up, files, script, cleaner,
                   command, faults>>

-----------------------------------------------------------------------------
(* The caller and the container.                                           *)

\* The caller's task is cancelled.  A cleanup under way is shielded; "late" is
\* a cancellation that comes when the command has ended by itself.
Cancel(c) ==
    /\ Fault
    /\ CASE call[c] \in {"waiting", "probing"} -> Settle(c, "cleaning", "cancelled")
         [] call[c] = "cleaning" -> Settle(c, "cleaning", "cancelled")
         [] call[c] \in {"removing", "checking"} -> Settle(c, call[c], "late")
         [] call[c] \in {"posting", "served", "doubting"} -> Settle(c, "ended", "cancelled")
         [] OTHER -> FALSE
    /\ health' = IF health = c /\ call[c] # "checking" THEN None ELSE health
    /\ UNCHANGED <<attempt, quarantined, probes, up, files, script, cleaner, command>>

\* The cleanup itself is cancelled, as when the event loop closes.
CancelCleanup(c) ==
    /\ Fault
    /\ call[c] \in {"cleaning", "removing", "checking"}
    /\ quarantined' = TRUE
    /\ Settle(c, "ended", IF call[c] = "cleaning" THEN "cancelled" ELSE "late")
    /\ health' = IF health = c THEN None ELSE health
    /\ UNCHANGED <<attempt, probes, up, files, script, cleaner, command>>

\* The container ends, and everything in it.
Stop ==
    /\ Fault
    /\ up /\ up' = FALSE
    /\ supervisor' = [c \in Call |-> IF supervisor[c] = "none" THEN "none" ELSE "gone"]
    /\ main' = [c \in Call |-> IF main[c] = "running" THEN "lost" ELSE main[c]]
    /\ others' = [c \in Call |-> FALSE]
    /\ UNCHANGED <<client, files, interrupted, report, cleaner, killed, ran>>

Container(c) ==
    \/ End(c) \/ Start(c) \/ Read(c) \/ Notice(c) \/ CleanChildren(c) \/ Report(c)
    \/ Look(c) \/ Await(c)

Executor(c) ==
    \/ Answered(c) \/ BeginCleaning(c) \/ Cleaned(c) \/ Remove(c)
    \/ EnterProbe(c) \/ Healthy(c) \/ Serve(c) \/ Reply(c)

\* What fails: by a fault, or because the container is gone.
Failure(c) == NotCleaned(c) \/ NotRemoved(c) \/ Unhealthy(c) \/ Unreachable(c) \/ Lost(c)

Next ==
    \/ \E c \in Call :
          \/ ExecuteLocal(c) \/ ExecuteRemote(c)
          \/ Container(c) \/ Fork(c) \/ OthersEnd(c)
          \/ Executor(c) \/ Failure(c)
          \/ Overdue(c) \/ SupervisorFails(c) \/ Cancel(c) \/ CancelCleanup(c)
    \/ Stop

Spec == Init /\ [][Next]_vars

\* A failure is only due where nothing else can happen: the container is gone,
\* or the cleanup has failed.
FairSpec ==
    /\ Spec
    /\ \A c \in Call :
          /\ WF_vars(Container(c)) /\ WF_vars(Executor(c))
          /\ WF_vars((~up \/ cleaner[c] = "failed") /\ Failure(c))

-----------------------------------------------------------------------------
(* Properties.                                                             *)

\* Every variable has its type.  A command is started at most once, however the
\* connection to the server fails ("without replaying a delivered request").
TypeOK ==
    /\ call \in [Call -> {"idle", "waiting", "cleaning", "removing", "posting", "served", "ended"}
                         \cup Probing]
    /\ outcome \in [Call -> {"none", "ok", "timeout", "error", "cancelled", "late"}]
    /\ attempt \in [Call -> 0 .. Attempts]
    /\ quarantined \in BOOLEAN /\ health \in Call \cup {None} /\ probes \in 0 .. Probes
    /\ up \in BOOLEAN
    /\ supervisor \in [Call -> {"none", "requested", "reading", "running", "cleaning",
                                "reporting", "gone"}]
    /\ record \in [Call -> BOOLEAN] /\ clean \in [Call -> BOOLEAN]
    /\ interrupted \in [Call -> BOOLEAN]
    /\ report \in [Call -> {"none", "started", "timed_out", "finished"}]
    /\ cleaner \in [Call -> {"none", "looking", "asked", "done", "failed"}]
    /\ main \in [Call -> {"none", "running", "exited", "expired", "killed", "lost"}]
    /\ others \in [Call -> BOOLEAN] /\ killed \in [Call -> BOOLEAN]
    /\ ran \in [Call -> 0 .. 1]
    /\ faults \in 0 .. MaxFaults

\* "Local command deadlines and cancellation terminate the command's remaining
\* descendants": when a local call has ended in any way but its command's own
\* end, nothing of the command runs or ever will, or the sandbox is retired.
NothingLeftBehind ==
    \A c \in Call :
        call[c] = "ended" /\ supervisor[c] # "none" /\ outcome[c] \in {"timeout", "error", "cancelled"}
            => \/ quarantined
               \/ supervisor[c] \in {"reporting", "gone"} /\ main[c] # "running" /\ ~others[c]

\* "Background processes survive normal completion": a result, or a cancellation
\* that came after it, is that of a command that ended by itself and whose
\* processes were left alone; a timeout is one; and no call fails and no sandbox
\* is retired unless something went wrong.
AnswerIsTrue ==
    /\ \A c \in Call :
          /\ outcome[c] \in {"ok", "late"} => main[c] = "exited" /\ ~killed[c]
          /\ outcome[c] = "timeout" => main[c] = "expired"
          /\ outcome[c] = "error" => faults > 0
    /\ quarantined => faults > 0

\* Every call returns or raises, whoever holds the health check, and whatever is
\* killed, cancelled or lost.
EveryCallReturns == \A c \in Call : call[c] # "idle" ~> call[c] = "ended"
=============================================================================
