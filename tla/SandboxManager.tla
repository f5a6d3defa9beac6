--------------------------- MODULE SandboxManager ---------------------------
(***************************************************************************)
(* The pool of sandboxes operations run in: SandboxManager of              *)
(* harness/sandbox/manager.py.                                             *)
(*                                                                         *)
(* A slot holds one executor (a container) at a time.  An operation leases *)
(* a share of a slot's executor, a session binds a whole one.  An operation*)
(* may find the container unresponsive and quarantine it; once nobody uses *)
(* it a task replaces it, MaxRestarts times per slot.  Everything runs on  *)
(* one event loop, and every critical section of _capacity_condition runs  *)
(* without an await, except for the wait itself: a section is an action,   *)
(* and only the containers, in threads, start and stop beside it.          *)
(*                                                                         *)
(* Stopping an executor is best effort: a container whose removal fails or *)
(* times out is reported and let go of, and may run on.                    *)
(*                                                                         *)
(* Requested capabilities are modelled by the slots that have them.        *)
(***************************************************************************)
EXTENDS Integers, FiniteSets

CONSTANTS Slot, Caller,
          Pools,          \* the sets of slots a request's capabilities select
          None,
          MaxConcurrency, \* operations on one executor at a time
          MinInstances,   \* slots that have to start
          MaxRestarts,    \* _MAX_SANDBOX_RESTARTS
          MaxUnremoved    \* bound: removals of a container that fail

ASSUME SandboxAssumption ==
    /\ IsFiniteSet(Slot) /\ IsFiniteSet(Caller)
    /\ Pools \subseteq SUBSET Slot
    /\ MaxConcurrency \in Nat \ {0}
    /\ MinInstances \in Nat
    /\ MaxRestarts \in Nat
    /\ MaxUnremoved \in Nat
    /\ None \notin Slot \X Nat

\* A slot's executors: the one it starts with, and its replacements.
Executor == Slot \X (0 .. MaxRestarts)

VARIABLES
    manager,  \* "new", "started", "stopping", "stopped" (or not enough started)
    slots,    \* slots with an executor (_executors)
    current,  \* which executor each slot has
    up, sick, \* executors with a deployment; quarantined ones
    running,  \* executors whose container runs
    unremoved,\* those whose stop could not confirm that it is gone
    active,   \* _active_operations
    bound,    \* _bound_executors
    restarts, \* _restart_counts
    recovery, \* _recoveries, and how far the replacement is
    pc,       \* where each caller is
    request,  \* what it asked for, None before and after
    holds     \* the executor it leases or is bound to

containers == <<up, running, unremoved>>
pool == <<manager, slots, current, sick, containers>>
vars == <<pool, active, bound, restarts, recovery, pc, request, holds>>

Now(s) == <<s, current[s]>>
Running(s) == Now(s) \in up \ sick

Init ==
    /\ manager = "new" /\ slots = {}
    /\ current = [s \in Slot |-> 0] /\ up = {} /\ sick = {}
    /\ running = {} /\ unremoved = {}
    /\ active = [e \in Executor |-> 0] /\ bound = {}
    /\ restarts = [s \in Slot |-> 0] /\ recovery = [s \in Slot |-> "none"]
    /\ pc = [c \in Caller |-> "new"]
    /\ request = [c \in Caller |-> None]
    /\ holds = [c \in Caller |-> None]

\* Executors come and go: those in new start, those in old are let go of, with their
\* containers except in `failed`, where the removal is not confirmed.  An executor that
\* does not start is stopped again, so it is in failed or nowhere.
Containers(new, old, failed) ==
    /\ Cardinality(unremoved \cup failed) <= MaxUnremoved
    /\ up' = (up \ old) \cup new
    /\ running' = (running \ old) \cup new \cup failed
    /\ unremoved' = unremoved \cup failed

\* stop of some executors, none of which keeps the others from being stopped; it does
\* nothing to one without a deployment.
StopAbandoned(E) ==    \* bug: one removal that fails ends it
    \/ Containers({}, E \cap up, {})
    \/ \E e \in E \cap up : Containers({}, {e}, {e})

Stop(E) == \E failed \in SUBSET (E \cap up) : Containers({}, E \cap up, failed)

\* start: some executors fail to start; too few, and all are stopped again.
Start(S) ==
    /\ manager = "new"
    /\ IF Cardinality(S) >= MinInstances
       THEN /\ manager' = "started" /\ slots' = S
            /\ \E failed \in SUBSET (Slot \ S) : Containers(S \X {0}, {}, failed \X {0})
       ELSE /\ manager' = "stopped" /\ UNCHANGED slots
            /\ \E failed \in SUBSET Slot : Containers({}, {}, failed \X {0})
    /\ UNCHANGED <<current, sick, active, bound, restarts, recovery, pc, request, holds>>

-----------------------------------------------------------------------------
(* Helpers of the critical sections.                                       *)

\* notify_all: whoever waits looks again.
WokenOne(p) ==      \* bug: notify() wakes one
    LET waiting == {c \in Caller : p[c] \in {"waitLease", "waitBind"}}
        first == CHOOSE c \in waiting : TRUE
    IN  IF waiting = {} THEN p
        ELSE [p EXCEPT ![first] = IF @ = "waitLease" THEN "lease" ELSE "bind"]

Woken(p) == [c \in Caller |-> CASE p[c] = "waitLease" -> "lease"
                                [] p[c] = "waitBind" -> "bind"
                                [] OTHER -> p[c]]

\* A request is answered, with pc as the others have it.
Done(c, p) == pc' = [p EXCEPT ![c] = "done"] /\ request' = [request EXCEPT ![c] = None]

CanRecoverOnceMore(s, bnd) ==    \* bug: one restart too many
    manager = "started" /\ s \notin bnd /\ restarts[s] <= MaxRestarts

CanRecover(s, bnd) == manager = "started" /\ s \notin bnd /\ restarts[s] < MaxRestarts

\* _schedule_recovery of the slots in S, with these operations active and slots bound:
\* only an idle, unbound slot is replaced.
DueInUse(s, act, bnd) ==         \* bug: whoever uses it
    s \in slots /\ ~Running(s) /\ recovery[s] = "none" /\ CanRecover(s, bnd)

Due(s, act, bnd) ==
    /\ s \in slots /\ ~Running(s) /\ recovery[s] = "none"
    /\ CanRecover(s, bnd) /\ act[Now(s)] = 0

Schedule(S, act, bnd) ==
    LET due == {s \in S : Due(s, act, bnd)}
    IN  /\ restarts' = [s \in Slot |-> IF s \in due THEN restarts[s] + 1 ELSE restarts[s]]
        /\ recovery' = [s \in Slot |-> IF s \in due THEN "stop" ELSE recovery[s]]

\* A slot that may serve the request once it is replaced.
RecoversAnyway(s) == recovery'[s] # "none" \/ ~Running(s)    \* bug: budget spent or not
Recovers(s) == recovery'[s] # "none" \/ (~Running(s) /\ CanRecover(s, bound))

-----------------------------------------------------------------------------
(* lease_executor, and _execute_with_lease around it.                      *)

Execute(c, S, retries) ==
    /\ pc[c] = "new" /\ manager # "new"
    /\ request' = [request EXCEPT ![c] =
            [need |-> S, failover |-> retries, attempts |-> 0, excluded |-> {}]]
    /\ pc' = [pc EXCEPT ![c] = "lease"]
    /\ UNCHANGED <<pool, active, bound, restarts, recovery, holds>>

Wanted(c) == (slots \cap request[c].need) \ request[c].excluded
Compatible(c) == {s \in Wanted(c) \ bound : Running(s)}
Candidates(c) == {s \in Compatible(c) : active[Now(s)] < MaxConcurrency}

\* The least loaded candidate; ties go round-robin, here to any.
Choosable(c) ==
    {s \in Candidates(c) : \A r \in Candidates(c) : active[Now(s)] <= active[Now(r)]}

LeaseGranted(c) ==
    /\ pc[c] = "lease" /\ manager = "started"
    /\ \E s \in Choosable(c) :
        /\ active' = [active EXCEPT ![Now(s)] = @ + 1]
        /\ holds' = [holds EXCEPT ![c] = Now(s)]
    /\ request' = [request EXCEPT ![c].attempts = @ + 1]
    /\ pc' = [pc EXCEPT ![c] = "run"]
    /\ UNCHANGED <<pool, bound, restarts, recovery>>

\* Every compatible executor is full.
LeaseWaitsForCapacity(c) ==
    /\ pc[c] = "lease" /\ manager = "started"
    /\ Compatible(c) # {} /\ Candidates(c) = {}
    /\ pc' = [pc EXCEPT ![c] = "waitLease"]
    /\ UNCHANGED <<pool, active, bound, restarts, recovery, request, holds>>

\* None is running: replacements are scheduled, and waited for if there are any.
LeaseWaitsForRecovery(c) ==
    /\ pc[c] = "lease" /\ manager = "started"
    /\ Compatible(c) = {}
    /\ Schedule(Wanted(c), active, bound)
    /\ IF \E s \in Wanted(c) \ bound : Recovers(s)
       THEN pc' = [pc EXCEPT ![c] = "waitLease"] /\ UNCHANGED request
       ELSE Done(c, pc)
    /\ UNCHANGED <<pool, active, bound, holds>>

LeaseStopping(c) ==
    /\ pc[c] = "lease" /\ manager # "started"
    /\ Done(c, pc)
    /\ UNCHANGED <<pool, active, bound, restarts, recovery, holds>>

\* The end of a lease: the count goes down, a quarantined executor nobody else uses is
\* replaced, and the waiting callers look again.
ReleaseLease(c) ==
    LET e == holds[c]
        act == [active EXCEPT ![e] = IF @ > 0 THEN @ - 1 ELSE 0]
    IN  /\ active' = act
        /\ Schedule({e[1]}, act, bound)
        /\ holds' = [holds EXCEPT ![c] = None]

\* The operation returns, raises an error of its own, or is cancelled.
OperationEnds(c) ==
    /\ pc[c] = "run"
    /\ ReleaseLease(c)
    /\ Done(c, Woken(pc))
    /\ UNCHANGED <<pool, bound>>

\* It raised, and its executor is quarantined: it moves once to another slot.
OperationFailsOver(c) ==
    /\ pc[c] = "run" /\ request[c].failover
    /\ manager = "started" /\ holds[c] \notin up \ sick /\ request[c].attempts < 2
    /\ ReleaseLease(c)
    /\ request' = [request EXCEPT ![c].excluded = @ \cup {holds[c][1]}]
    /\ pc' = [Woken(pc) EXCEPT ![c] = "lease"]
    /\ UNCHANGED <<pool, bound>>

\* _quarantine_if_unresponsive: its health checks failed during an operation.
Quarantine(c) ==
    /\ pc[c] \in {"run", "bound"} /\ holds[c] \in up \ sick
    /\ sick' = sick \cup {holds[c]}
    /\ UNCHANGED <<manager, slots, current, containers, active, bound, restarts, recovery, pc, request,
                   holds>>

-----------------------------------------------------------------------------
(* acquire_binding and release.                                            *)

AcquireBinding(c, S) ==
    /\ pc[c] = "new" /\ manager # "new"
    /\ request' = [request EXCEPT ![c] =
            [need |-> S, failover |-> FALSE, attempts |-> 0, excluded |-> {}]]
    /\ pc' = [pc EXCEPT ![c] = "bind"]
    /\ UNCHANGED <<pool, active, bound, restarts, recovery, holds>>

AvailableShared(c) ==     \* bug: leases do not count
    {s \in Wanted(c) \ bound : Running(s)}

Available(c) == {s \in Wanted(c) \ bound : Running(s) /\ active[Now(s)] = 0}

BindingGranted(c) ==
    /\ pc[c] = "bind" /\ manager = "started"
    /\ \E s \in Available(c) :
        /\ bound' = bound \cup {s}
        /\ holds' = [holds EXCEPT ![c] = Now(s)]
    /\ pc' = [pc EXCEPT ![c] = "bound"]
    /\ UNCHANGED <<pool, active, restarts, recovery, request>>

\* A binding waits for replacements only, not for leases to end.
BindingWaits(c) ==
    /\ pc[c] = "bind" /\ manager = "started"
    /\ Available(c) = {}
    /\ Schedule(Wanted(c), active, bound)
    /\ IF \E s \in Wanted(c) \ bound : recovery'[s] # "none"
       THEN pc' = [pc EXCEPT ![c] = "waitBind"] /\ UNCHANGED request
       ELSE Done(c, pc)
    /\ UNCHANGED <<pool, active, bound, holds>>

BindingStopping(c) ==
    /\ pc[c] = "bind" /\ manager # "started"
    /\ Done(c, pc)
    /\ UNCHANGED <<pool, active, bound, restarts, recovery, holds>>

\* After stop, which released every binding, there is nothing left to release.
ReleaseBinding(c) ==
    /\ pc[c] = "bound"
    /\ holds' = [holds EXCEPT ![c] = None]
    /\ IF manager = "started"
       THEN /\ bound' = bound \ {holds[c][1]}
            /\ Schedule({holds[c][1]}, active, bound')
            /\ Done(c, Woken(pc))
       ELSE /\ Done(c, pc)
            /\ UNCHANGED <<bound, restarts, recovery>>
    /\ UNCHANGED <<pool, active>>

-----------------------------------------------------------------------------
(* _replace_executor: a thread stops the old executor and starts the new.  *)

StopOld(s) ==
    /\ recovery[s] = "stop"
    /\ Stop({Now(s)})
    /\ recovery' = [recovery EXCEPT ![s] = "start"]
    /\ UNCHANGED <<manager, slots, current, sick, active, bound, restarts, pc, request, holds>>

StartNew(s) ==
    /\ recovery[s] = "start"
    /\ \/ /\ Containers({<<s, restarts[s]>>}, {}, {})
          /\ recovery' = [recovery EXCEPT ![s] = "up"]
       \/ /\ \E failed \in SUBSET {<<s, restarts[s]>>} : Containers({}, {}, failed)
          /\ recovery' = [recovery EXCEPT ![s] = "failed"]
    /\ UNCHANGED <<manager, slots, current, sick, active, bound, restarts, pc, request, holds>>

Replaced(s) ==
    /\ recovery[s] = "up"
    /\ current' = [current EXCEPT ![s] = restarts[s]]
    /\ active' = [active EXCEPT ![Now(s)] = 0, ![<<s, restarts[s]>>] = 0]
    /\ recovery' = [recovery EXCEPT ![s] = "none"]
    /\ pc' = Woken(pc)
    /\ UNCHANGED <<manager, slots, sick, containers, bound, restarts, request, holds>>

\* A replacement that does not start uses up the slot's budget.
NotReplaced(s) ==
    /\ recovery[s] = "failed"
    /\ restarts' = [restarts EXCEPT ![s] = MaxRestarts]
    /\ recovery' = [recovery EXCEPT ![s] = "none"]
    /\ pc' = Woken(pc)
    /\ UNCHANGED <<pool, active, bound, request, holds>>

-----------------------------------------------------------------------------
(* stop: no new leases, bindings or replacements, those under way are      *)
(* awaited, then every executor is stopped, whatever runs on it.           *)

BeginStop ==
    /\ manager = "started"
    /\ manager' = "stopping"
    /\ bound' = {}
    /\ pc' = Woken(pc)
    /\ UNCHANGED <<slots, current, sick, containers, active, restarts, recovery, request, holds>>

RecoveriesEnded == \A s \in Slot : recovery[s] = "none"

EndStop ==
    /\ manager = "stopping" /\ RecoveriesEnded
    /\ manager' = "stopped"
    /\ slots' = {}
    /\ Stop({Now(s) : s \in slots})
    /\ active' = [e \in Executor |-> 0]
    /\ restarts' = [s \in Slot |-> 0]
    /\ UNCHANGED <<current, sick, bound, recovery, pc, request, holds>>

-----------------------------------------------------------------------------
Requests(c) ==
    \E S \in Pools : AcquireBinding(c, S) \/ \E retries \in BOOLEAN : Execute(c, S, retries)

Proceeds(c) ==
    \/ LeaseGranted(c) \/ LeaseWaitsForCapacity(c) \/ LeaseWaitsForRecovery(c)
    \/ LeaseStopping(c)
    \/ BindingGranted(c) \/ BindingWaits(c) \/ BindingStopping(c)
    \/ OperationEnds(c) \/ OperationFailsOver(c)

Recovery(s) == StopOld(s) \/ StartNew(s) \/ Replaced(s) \/ NotReplaced(s)

Next ==
    \/ \E S \in SUBSET Slot : Start(S)
    \/ \E c \in Caller : \/ Requests(c) \/ Proceeds(c) \/ Quarantine(c) \/ ReleaseBinding(c)
    \/ \E s \in Slot : Recovery(s)
    \/ BeginStop \/ EndStop

Spec == Init /\ [][Next]_vars

\* The event loop goes round, operations and container starts and stops have timeouts.
\* Nobody has to release a binding, and nobody has to stop the manager.
FairSpec ==
    /\ Spec
    /\ \A c \in Caller : WF_vars(Proceeds(c))
    /\ \A s \in Slot : WF_vars(Recovery(s))
    /\ WF_vars(EndStop)

-----------------------------------------------------------------------------
(* Properties.                                                             *)

Request == [need : SUBSET Slot, failover : BOOLEAN, attempts : 0 .. 2, excluded : SUBSET Slot]

\* Every variable has its type; a slot is not restarted beyond its budget.
TypeOK ==
    /\ manager \in {"new", "started", "stopping", "stopped"}
    /\ slots \subseteq Slot /\ bound \subseteq Slot
    /\ current \in [Slot -> 0 .. MaxRestarts]
    /\ up \subseteq Executor /\ sick \subseteq Executor
    /\ running \subseteq Executor /\ unremoved \subseteq Executor
    /\ active \in [Executor -> Nat]
    /\ restarts \in [Slot -> 0 .. MaxRestarts]
    /\ recovery \in [Slot -> {"none", "stop", "start", "up", "failed"}]
    /\ pc \in [Caller -> {"new", "lease", "waitLease", "run", "bind", "waitBind", "bound", "done"}]
    /\ request \in [Caller -> Request \cup {None}]
    /\ holds \in [Caller -> Executor \cup {None}]

Leases(e) == {c \in Caller : pc[c] = "run" /\ holds[c] = e}
Bindings(e) == {c \in Caller : pc[c] = "bound" /\ holds[c] = e}

\* An executor runs no more operations than it may, and a bound one runs only its
\* session's: leases that end late, executors replaced and bindings handed back
\* never let two sessions, or a session and an operation, into one container.
CapacityRespected ==
    manager = "started" =>
        \A e \in Executor :
            /\ Cardinality(Leases(e)) <= MaxConcurrency
            /\ Cardinality(Bindings(e)) <= 1
            /\ Bindings(e) # {} => Leases(e) = {}

\* An executor is stopped and replaced only when no operation and no session uses it,
\* so an operation always runs on its slot's executor.
NotReplacedInUse ==
    \A c \in Caller :
        holds[c] # None =>
            /\ holds[c] = Now(holds[c][1])
            /\ recovery[holds[c][1]] = "none"

\* No wakeup is lost: a caller waits only while a replacement it could use is under
\* way or an operation runs on a slot it could use, and both notify when they end.
WaitsForSomething ==
    \A c \in Caller :
        pc[c] \in {"waitLease", "waitBind"} =>
            \E s \in Wanted(c) : recovery[s] # "none" \/ active[Now(s)] > 0

\* A container that runs is that of a slot, or of a replacement under way, or its removal
\* was tried and could not be confirmed.  So when stop returns, none runs that was not
\* stopped, those being started meanwhile and those beside a failed removal included.
OnlyUnremovedLeft ==
    \A e \in running \ unremoved :
        /\ manager # "stopped" /\ e[1] \in slots
        /\ e = Now(e[1]) \/ (recovery[e[1]] = "up" /\ e[2] = restarts[e[1]])

\* Every request is answered, with an executor or an error, whatever sandboxes are
\* lost and whether or not anyone releases a binding: none is under way for ever.
EveryRequestReturns ==
    \A c \in Caller :
        []<>(pc[c] \notin {"lease", "waitLease", "run", "bind", "waitBind"})
=============================================================================
