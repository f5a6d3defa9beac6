------------------------ MODULE SandboxManagerProofs ------------------------
(***************************************************************************)
(* The sandbox manager keeps its capacity, replaces nothing in use, loses  *)
(* no wakeup and forgets no container, for any number of slots, callers,   *)
(* operations per executor, restarts and removals that fail.               *)
(*                                                                         *)
(* The manager decides by its counts, so everything rests on the counts    *)
(* being right (Counted): they are kept per executor, and stay right       *)
(* because a slot is replaced only while nobody holds it (Recovering, and  *)
(* NotReplacedInUse, which each need the other).                           *)
(***************************************************************************)
EXTENDS SandboxManager, FiniteSetTheorems, TLAPS

Waits(c) == pc[c] \in {"waitLease", "waitBind"}
InUse(c) == pc[c] \in {"run", "bound"}
Alive == manager \in {"started", "stopping"}

\* Before start there are no callers, and before start and after stop no slots.
Fresh ==
    /\ manager = "new" => /\ current = [s \in Slot |-> 0]
                          /\ pc = [c \in Caller |-> "new"]
    /\ ~Alive => slots = {} /\ \A s \in Slot : recovery[s] = "none"

\* A caller under way has a request, with an attempt left before each lease, and
\* holds an executor exactly while it uses one.
Asked ==
    \A c \in Caller :
        /\ pc[c] \notin {"new", "done"} => request[c] \in Request
        /\ pc[c] \in {"lease", "waitLease"} => request[c].attempts < 2
        /\ holds[c] # None <=> InUse(c)

\* The executor a slot has is not from a restart yet to come.
Generations == manager # "stopped" => \A s \in Slot : current[s] <= restarts[s]

\* A slot under replacement is unhealthy until the replacement takes its place.
Recovering ==
    \A s \in Slot :
        /\ recovery[s] # "none" => s \in slots /\ ~Running(s)
        /\ recovery[s] \in {"stop", "start", "up"} => current[s] < restarts[s]
        /\ recovery[s] \in {"start", "up", "failed"} => Now(s) \notin up

\* An executor with a deployment is its slot's, or about to become its slot's.
UpKnown ==
    \A e \in up :
        /\ e[1] \in slots
        /\ e # Now(e[1]) => recovery[e[1]] = "up" /\ e[2] = restarts[e[1]]

\* A container without a deployment runs only when its removal was not confirmed.
LeftKnown == running \subseteq up \cup unremoved

\* The counts are right, and within capacity.
Counted ==
    manager # "stopped" =>
        \A e \in Executor : active[e] = Cardinality(Leases(e)) /\ active[e] <= MaxConcurrency

\* A session has its executor to itself, and its slot is bound.
Exclusive ==
    manager = "started" =>
        \A c \in Caller : pc[c] = "bound" =>
            /\ holds[c][1] \in bound
            /\ \A d \in Caller : InUse(d) /\ holds[d] = holds[c] => d = c

\* Nobody waits once the manager stops.
WaitsStarted == \A c \in Caller : Waits(c) => manager = "started"

IInv ==
    /\ TypeOK
    /\ Fresh
    /\ Asked
    /\ Generations
    /\ Recovering
    /\ UpKnown
    /\ LeftKnown
    /\ Counted
    /\ Exclusive
    /\ NotReplacedInUse
    /\ WaitsStarted
    /\ WaitsForSomething

-----------------------------------------------------------------------------
(* Executors, wakeups and scheduled replacements.                          *)

LEMMA Executors ==
    ASSUME NEW e \in Executor
    PROVE  e[1] \in Slot /\ e[2] \in 0 .. MaxRestarts /\ e = <<e[1], e[2]>> /\ e # None
<1>1. e[1] \in Slot /\ e[2] \in 0 .. MaxRestarts /\ e = <<e[1], e[2]>>
  BY DEF Executor
<1>2. e \in Slot \X Nat
  BY <1>1, SandboxAssumption
<1> QED
  BY <1>1, <1>2, SandboxAssumption

LEMMA Nows ==
    ASSUME TypeOK, NEW s \in Slot
    PROVE  Now(s) \in Executor /\ Now(s)[1] = s /\ Now(s)[2] = current[s]
BY DEF TypeOK, Now, Executor

\* What a change of containers does to the three sets.
LEMMA Changes ==
    ASSUME TypeOK, NEW new \in SUBSET Executor, NEW old, NEW failed \in SUBSET Executor,
           Containers(new, old, failed)
    PROVE  /\ up' = (up \ old) \cup new
           /\ up' \subseteq Executor /\ running' \subseteq Executor
           /\ unremoved' \subseteq Executor
           /\ LeftKnown => LeftKnown'
BY DEF Containers, TypeOK, LeftKnown

\* Stopping executors lets go of them, removed or not.
LEMMA Stops ==
    ASSUME TypeOK, NEW E, Stop(E)
    PROVE  /\ up' = up \ E
           /\ up' \subseteq Executor /\ running' \subseteq Executor
           /\ unremoved' \subseteq Executor
           /\ LeftKnown => LeftKnown'
<1>1. PICK failed \in SUBSET (E \cap up) : Containers({}, E \cap up, failed)
  BY DEF Stop
<1>2. failed \in SUBSET Executor /\ {} \in SUBSET Executor
  BY DEF TypeOK
<1>3. /\ up' = (up \ (E \cap up)) \cup {}
      /\ up' \subseteq Executor /\ running' \subseteq Executor
      /\ unremoved' \subseteq Executor
      /\ LeftKnown => LeftKnown'
  BY <1>1, <1>2, Changes
<1> QED
  BY <1>3

\* start: enough executors run and are the slots', or none has a deployment.
LEMMA Starts ==
    ASSUME TypeOK, NEW S \in SUBSET Slot, Start(S)
    PROVE  /\ \/ manager' = "started" /\ slots' = S /\ up' = up \cup {<<s, 0>> : s \in S}
              \/ manager' = "stopped" /\ UNCHANGED <<slots, up>>
           /\ up' \subseteq Executor /\ running' \subseteq Executor
           /\ unremoved' \subseteq Executor
           /\ LeftKnown => LeftKnown'
<1>1. \A R \in SUBSET Slot : R \X {0} \in SUBSET Executor
  BY SandboxAssumption DEF Executor
<1>2. CASE Cardinality(S) >= MinInstances
  <2>1. PICK failed \in SUBSET (Slot \ S) : Containers(S \X {0}, {}, failed \X {0})
    BY <1>2 DEF Start
  <2>2. /\ up' = (up \ {}) \cup (S \X {0})
        /\ up' \subseteq Executor /\ running' \subseteq Executor
        /\ unremoved' \subseteq Executor
        /\ LeftKnown => LeftKnown'
    <3>1. PICK new, left : new = S \X {0} /\ left = failed \X {0}
      OBVIOUS
    <3>2. new \in SUBSET Executor /\ left \in SUBSET Executor
      BY <1>1, <3>1
    <3>3. Containers(new, {}, left)
      BY <2>1, <3>1
    <3>4. /\ up' = (up \ {}) \cup new
          /\ up' \subseteq Executor /\ running' \subseteq Executor
          /\ unremoved' \subseteq Executor
          /\ LeftKnown => LeftKnown'
      BY <3>2, <3>3, Changes
    <3> QED
      BY <3>1, <3>4
  <2>3. manager' = "started" /\ slots' = S
    BY <1>2 DEF Start
  <2> QED
    BY <2>2, <2>3
<1>3. CASE ~(Cardinality(S) >= MinInstances)
  <2>1. PICK failed \in SUBSET Slot : Containers({}, {}, failed \X {0})
    BY <1>3 DEF Start
  <2>2. /\ up' = (up \ {}) \cup {}
        /\ up' \subseteq Executor /\ running' \subseteq Executor
        /\ unremoved' \subseteq Executor
        /\ LeftKnown => LeftKnown'
    BY <1>1, <2>1, Changes
  <2>3. manager' = "stopped" /\ slots' = slots
    BY <1>3 DEF Start
  <2> QED
    BY <2>2, <2>3
<1> QED
  BY <1>2, <1>3

\* A replacement that starts is up; one that does not is not.
LEMMA StartsNew ==
    ASSUME TypeOK, NEW s \in Slot, StartNew(s)
    PROVE  /\ \/ up' = up \cup {<<s, restarts[s]>>} /\ recovery' = [recovery EXCEPT ![s] = "up"]
              \/ up' = up /\ recovery' = [recovery EXCEPT ![s] = "failed"]
           /\ up' \subseteq Executor /\ running' \subseteq Executor
           /\ unremoved' \subseteq Executor
           /\ LeftKnown => LeftKnown'
<1>1. {<<s, restarts[s]>>} \in SUBSET Executor /\ {} \in SUBSET Executor
  BY DEF TypeOK, Executor
<1>2. CASE /\ Containers({<<s, restarts[s]>>}, {}, {})
           /\ recovery' = [recovery EXCEPT ![s] = "up"]
  <2>1. /\ up' = (up \ {}) \cup {<<s, restarts[s]>>}
        /\ up' \subseteq Executor /\ running' \subseteq Executor
        /\ unremoved' \subseteq Executor
        /\ LeftKnown => LeftKnown'
    BY <1>1, <1>2, Changes
  <2> QED
    BY <1>2, <2>1
<1>3. CASE /\ \E failed \in SUBSET {<<s, restarts[s]>>} : Containers({}, {}, failed)
           /\ recovery' = [recovery EXCEPT ![s] = "failed"]
  <2>1. PICK failed \in SUBSET {<<s, restarts[s]>>} : Containers({}, {}, failed)
    BY <1>3
  <2>2. failed \in SUBSET Executor
    BY <1>1, <2>1
  <2>3. /\ up' = (up \ {}) \cup {}
        /\ up' \subseteq Executor /\ running' \subseteq Executor
        /\ unremoved' \subseteq Executor
        /\ LeftKnown => LeftKnown'
    BY <1>1, <2>1, <2>2, Changes
  <2> QED
    BY <1>3, <2>3
<1> QED
  BY <1>2, <1>3 DEF StartNew

States == {"new", "lease", "waitLease", "run", "bind", "waitBind", "bound", "done"}

\* After a notification nobody waits, and who did not wait is where it was.
LEMMA Wakes ==
    ASSUME NEW p \in [Caller -> States]
    PROVE  /\ Woken(p) \in [Caller -> States]
           /\ \A c \in Caller : /\ Woken(p)[c] \notin {"waitLease", "waitBind"}
                                /\ p[c] \notin {"waitLease", "waitBind"} => Woken(p)[c] = p[c]
                                /\ p[c] = "waitLease" => Woken(p)[c] = "lease"
                                /\ p[c] = "waitBind" => Woken(p)[c] = "bind"
BY DEF Woken, States

\* Scheduling starts the replacement of the slots that are due, within their budget.
LEMMA Schedules ==
    ASSUME TypeOK, NEW S \in SUBSET Slot, NEW act, NEW bnd, Schedule(S, act, bnd)
    PROVE  /\ restarts' \in [Slot -> 0 .. MaxRestarts]
           /\ recovery' \in [Slot -> {"none", "stop", "start", "up", "failed"}]
           /\ \A s \in Slot :
                \/ /\ s \in S /\ Due(s, act, bnd)
                   /\ restarts'[s] = restarts[s] + 1 /\ recovery'[s] = "stop"
                \/ /\ ~ (s \in S /\ Due(s, act, bnd))
                   /\ restarts'[s] = restarts[s] /\ recovery'[s] = recovery[s]
<1> DEFINE due == {s \in S : Due(s, act, bnd)}
<1>1. /\ restarts' = [s \in Slot |-> IF s \in due THEN restarts[s] + 1 ELSE restarts[s]]
      /\ recovery' = [s \in Slot |-> IF s \in due THEN "stop" ELSE recovery[s]]
  BY DEF Schedule
<1>2. \A s \in due : restarts[s] + 1 \in 0 .. MaxRestarts
  BY SandboxAssumption DEF Due, CanRecover, TypeOK
<1> QED
  BY <1>1, <1>2 DEF TypeOK

(***************************************************************************)
(* What the steps do to the users of the executors.                        *)
(***************************************************************************)

\* The steps after which every executor has the users it had.
Keeps ==
    \/ \E S \in SUBSET Slot : Start(S)
    \/ \E c \in Caller : \/ Requests(c) \/ Quarantine(c)
                         \/ LeaseWaitsForCapacity(c) \/ LeaseWaitsForRecovery(c)
                         \/ LeaseStopping(c) \/ BindingWaits(c) \/ BindingStopping(c)
    \/ \E s \in Slot : Recovery(s)
    \/ BeginStop \/ EndStop
    \/ UNCHANGED vars

LEMMA NextIs ==
    ASSUME [Next]_vars
    PROVE  \/ Keeps
           \/ \E c \in Caller : \/ LeaseGranted(c) \/ BindingGranted(c)
                                \/ OperationEnds(c) \/ OperationFailsOver(c)
                                \/ ReleaseBinding(c)
BY DEF Next, Proceeds, Keeps

SameUse ==
    /\ holds' = holds
    /\ \A d \in Caller : /\ pc'[d] = "run" <=> pc[d] = "run"
                         /\ pc'[d] = "bound" <=> pc[d] = "bound"

LEMMA UseKept ==
    ASSUME TypeOK, Keeps
    PROVE  SameUse
<1>0. pc \in [Caller -> States]
  BY DEF TypeOK, States
<1>1. ASSUME NEW S \in SUBSET Slot, Start(S) PROVE SameUse
  BY <1>1 DEF Start, SameUse
<1>2. ASSUME NEW c \in Caller, Requests(c) PROVE SameUse
  BY <1>0, <1>2 DEF Requests, Execute, AcquireBinding, SameUse
<1>3. ASSUME NEW c \in Caller, Quarantine(c) \/ LeaseWaitsForCapacity(c) PROVE SameUse
  BY <1>0, <1>3 DEF Quarantine, LeaseWaitsForCapacity, SameUse
<1>4. ASSUME NEW c \in Caller,
             LeaseWaitsForRecovery(c) \/ LeaseStopping(c) \/ BindingWaits(c) \/ BindingStopping(c)
      PROVE  SameUse
  BY <1>0, <1>4 DEF LeaseWaitsForRecovery, LeaseStopping, BindingWaits, BindingStopping, Done,
                    SameUse
<1>5. ASSUME NEW s \in Slot, StopOld(s) \/ StartNew(s) PROVE SameUse
  BY <1>5 DEF StopOld, StartNew, SameUse
<1>6. ASSUME pc' = Woken(pc), holds' = holds PROVE SameUse
  BY <1>0, <1>6, Wakes DEF SameUse
<1>7. ASSUME NEW s \in Slot, Replaced(s) \/ NotReplaced(s) PROVE SameUse
  BY <1>6, <1>7 DEF Replaced, NotReplaced
<1>8. CASE BeginStop
  BY <1>6, <1>8 DEF BeginStop
<1>9. CASE EndStop \/ UNCHANGED vars
  BY <1>9 DEF EndStop, vars, SameUse
<1> QED
  BY <1>1, <1>2, <1>3, <1>4, <1>5, <1>7, <1>8, <1>9 DEF Keeps, Recovery

\* The end of an operation: its caller goes on without the executor, the others keep
\* theirs and are woken.
LEMMA OperationOver ==
    ASSUME TypeOK, Asked, NEW c \in Caller, OperationEnds(c) \/ OperationFailsOver(c)
    PROVE  /\ pc[c] = "run" /\ holds[c] \in Executor
           /\ pc' \in [Caller -> States] /\ pc'[c] \in {"done", "lease"}
           /\ holds' = [holds EXCEPT ![c] = None]
           /\ active' = [active EXCEPT ![holds[c]] = IF @ > 0 THEN @ - 1 ELSE 0]
           /\ \A d \in Caller \ {c} : pc'[d] = Woken(pc)[d]
           /\ Schedule({holds[c][1]}, active', bound)
           /\ UNCHANGED <<pool, bound>>
<1>1. pc[c] = "run"
  BY DEF OperationEnds, OperationFailsOver
<1>2. holds[c] \in Executor
  BY <1>1 DEF Asked, InUse, TypeOK
<1>3. pc \in [Caller -> States]
  BY DEF TypeOK, States
<1>4. ReleaseLease(c) /\ UNCHANGED <<pool, bound>>
  BY DEF OperationEnds, OperationFailsOver
<1>5. pc' = [Woken(pc) EXCEPT ![c] = "done"] \/ pc' = [Woken(pc) EXCEPT ![c] = "lease"]
  BY DEF OperationEnds, OperationFailsOver, Done
<1>6. /\ pc' \in [Caller -> States] /\ pc'[c] \in {"done", "lease"}
      /\ \A d \in Caller \ {c} : pc'[d] = Woken(pc)[d]
  BY <1>3, <1>5, Wakes DEF States
<1> QED
  BY <1>1, <1>2, <1>4, <1>6 DEF ReleaseLease

\* A session's end likewise; after stop its slot is no longer bound.
LEMMA SessionOver ==
    ASSUME TypeOK, Asked, NEW c \in Caller, ReleaseBinding(c)
    PROVE  /\ pc[c] = "bound" /\ holds[c] \in Executor
           /\ pc' \in [Caller -> States] /\ pc'[c] = "done"
           /\ holds' = [holds EXCEPT ![c] = None]
           /\ \/ /\ manager = "started"
                 /\ bound' = bound \ {holds[c][1]}
                 /\ Schedule({holds[c][1]}, active, bound')
                 /\ \A d \in Caller \ {c} : pc'[d] = Woken(pc)[d]
              \/ /\ manager # "started"
                 /\ UNCHANGED <<bound, restarts, recovery>>
                 /\ \A d \in Caller \ {c} : pc'[d] = pc[d]
           /\ UNCHANGED <<pool, active>>
<1>1. pc[c] = "bound"
  BY DEF ReleaseBinding
<1>2. holds[c] \in Executor
  BY <1>1 DEF Asked, InUse, TypeOK
<1>3. pc \in [Caller -> States]
  BY DEF TypeOK, States
<1>4. CASE manager = "started"
  <2>1. pc' = [Woken(pc) EXCEPT ![c] = "done"]
    BY <1>4 DEF ReleaseBinding, Done
  <2>2. /\ pc' \in [Caller -> States] /\ pc'[c] = "done"
        /\ \A d \in Caller \ {c} : pc'[d] = Woken(pc)[d]
    BY <1>3, <2>1, Wakes DEF States
  <2> QED
    BY <1>1, <1>2, <1>4, <2>2 DEF ReleaseBinding
<1>5. CASE manager # "started"
  <2>1. pc' = [pc EXCEPT ![c] = "done"]
    BY <1>5 DEF ReleaseBinding, Done
  <2>2. /\ pc' \in [Caller -> States] /\ pc'[c] = "done"
        /\ \A d \in Caller \ {c} : pc'[d] = pc[d]
    BY <1>3, <2>1 DEF States
  <2> QED
    BY <1>1, <1>2, <1>5, <2>2 DEF ReleaseBinding
<1> QED
  BY <1>4, <1>5

-----------------------------------------------------------------------------
(* One conjunct at a time: what each step does to it.                      *)

LEMMA TypeStep ==
    ASSUME TypeOK, Asked, [Next]_vars
    PROVE  TypeOK'
<1>0. /\ pc \in [Caller -> States]
      /\ request \in [Caller -> Request \cup {None}]
      /\ restarts \in [Slot -> 0 .. MaxRestarts]
      /\ current \in [Slot -> 0 .. MaxRestarts]
      /\ recovery \in [Slot -> {"none", "stop", "start", "up", "failed"}]
      /\ slots \subseteq Slot /\ up \subseteq Executor
  BY DEF TypeOK, States
<1>1. ASSUME NEW S \in SUBSET Slot, Start(S) PROVE TypeOK'
  <2>1. /\ manager' \in {"started", "stopped"} /\ slots' \subseteq Slot
        /\ up' \subseteq Executor /\ running' \subseteq Executor
        /\ unremoved' \subseteq Executor
    BY <1>0, <1>1, Starts
  <2> QED
    BY <1>1, <2>1 DEF TypeOK, Start
<1>2. ASSUME NEW c \in Caller, Requests(c) PROVE TypeOK'
  <2>1. PICK S \in Pools, b \in BOOLEAN, state \in States :
            /\ request' = [request EXCEPT ![c] =
                  [need |-> S, failover |-> b, attempts |-> 0, excluded |-> {}]]
            /\ pc' = [pc EXCEPT ![c] = state]
            /\ UNCHANGED <<pool, active, bound, restarts, recovery, holds>>
    BY <1>2 DEF Requests, Execute, AcquireBinding, States
  <2>2. [need |-> S, failover |-> b, attempts |-> 0, excluded |-> {}] \in Request
    BY SandboxAssumption DEF Request
  <2>3. request' \in [Caller -> Request \cup {None}] /\ pc' \in [Caller -> States]
    BY <1>0, <2>1, <2>2
  <2> QED
    BY <2>1, <2>3 DEF TypeOK, pool, containers, States
<1>3. ASSUME NEW c \in Caller, LeaseGranted(c) PROVE TypeOK'
  <2>1. request[c] \in Request /\ request[c].attempts < 2
    BY <1>3 DEF LeaseGranted, Asked
  <2>2. [request[c] EXCEPT !.attempts = @ + 1] \in Request
    BY <2>1 DEF Request
  <2>3. request' \in [Caller -> Request \cup {None}] /\ pc' \in [Caller -> States]
    BY <1>0, <1>3, <2>2 DEF LeaseGranted, States
  <2>4. PICK s \in Choosable(c) : /\ active' = [active EXCEPT ![Now(s)] = @ + 1]
                                  /\ holds' = [holds EXCEPT ![c] = Now(s)]
    BY <1>3 DEF LeaseGranted
  <2>5. Now(s) \in Executor
    BY <1>0, <2>4, Nows DEF Choosable, Candidates, Compatible, Wanted
  <2>6. active' \in [Executor -> Nat] /\ holds' \in [Caller -> Executor \cup {None}]
    BY <2>4, <2>5 DEF TypeOK
  <2> QED
    BY <1>3, <2>3, <2>6 DEF TypeOK, LeaseGranted, pool, containers, States
<1>4. ASSUME NEW c \in Caller,
             Quarantine(c) \/ LeaseWaitsForCapacity(c) \/ LeaseStopping(c) \/ BindingStopping(c)
      PROVE  TypeOK'
  <2>1. CASE Quarantine(c)
    BY <2>1 DEF Quarantine, TypeOK, containers
  <2>2. CASE LeaseWaitsForCapacity(c)
    BY <2>2 DEF LeaseWaitsForCapacity, TypeOK, pool, containers
  <2>3. CASE LeaseStopping(c) \/ BindingStopping(c)
    BY <2>3 DEF LeaseStopping, BindingStopping, Done, TypeOK, pool, containers
  <2> QED
    BY <1>4, <2>1, <2>2, <2>3
<1>5. ASSUME NEW c \in Caller, LeaseWaitsForRecovery(c) \/ BindingWaits(c) PROVE TypeOK'
  <2>1. Wanted(c) \in SUBSET Slot
    BY <1>0 DEF Wanted
  <2>2. /\ restarts' \in [Slot -> 0 .. MaxRestarts]
        /\ recovery' \in [Slot -> {"none", "stop", "start", "up", "failed"}]
    BY <1>5, <2>1, Schedules DEF LeaseWaitsForRecovery, BindingWaits
  <2>3. request' \in [Caller -> Request \cup {None}] /\ pc' \in [Caller -> States]
    BY <1>0, <1>5 DEF LeaseWaitsForRecovery, BindingWaits, Done, States
  <2>4. UNCHANGED <<pool, active, bound, holds>>
    BY <1>5 DEF LeaseWaitsForRecovery, BindingWaits
  <2> QED
    BY <2>2, <2>3, <2>4 DEF TypeOK, pool, containers, States
<1>6. ASSUME NEW c \in Caller, OperationEnds(c) \/ OperationFailsOver(c) PROVE TypeOK'
  <2>1. /\ pc[c] = "run" /\ holds[c] \in Executor
        /\ pc' \in [Caller -> States]
        /\ holds' = [holds EXCEPT ![c] = None]
        /\ active' = [active EXCEPT ![holds[c]] = IF @ > 0 THEN @ - 1 ELSE 0]
        /\ Schedule({holds[c][1]}, active', bound)
        /\ UNCHANGED <<pool, bound>>
    BY <1>6, OperationOver
  <2>2. {holds[c][1]} \in SUBSET Slot
    BY <2>1, Executors
  <2>3. /\ restarts' \in [Slot -> 0 .. MaxRestarts]
        /\ recovery' \in [Slot -> {"none", "stop", "start", "up", "failed"}]
    BY <2>1, <2>2, Schedules
  <2>4. active' \in [Executor -> Nat] /\ holds' \in [Caller -> Executor \cup {None}]
    BY <2>1 DEF TypeOK
  <2>5. request' \in [Caller -> Request \cup {None}]
    <3>1. CASE OperationEnds(c)
      BY <1>0, <3>1 DEF OperationEnds, Done
    <3>2. CASE OperationFailsOver(c)
      <4>1. request[c] \in Request
        BY <2>1 DEF Asked
      <4>2. [request[c] EXCEPT !.excluded = @ \cup {holds[c][1]}] \in Request
        BY <2>2, <4>1 DEF Request
      <4> QED
        BY <1>0, <3>2, <4>2 DEF OperationFailsOver
    <3> QED
      BY <1>6, <3>1, <3>2
  <2> QED
    BY <2>1, <2>3, <2>4, <2>5 DEF TypeOK, pool, containers, States
<1>7. ASSUME NEW c \in Caller, BindingGranted(c) PROVE TypeOK'
  <2>1. PICK s \in Available(c) : /\ bound' = bound \cup {s}
                                  /\ holds' = [holds EXCEPT ![c] = Now(s)]
    BY <1>7 DEF BindingGranted
  <2>2. s \in Slot
    BY <1>0, <2>1 DEF Available, Wanted
  <2>3. bound' \subseteq Slot /\ holds' \in [Caller -> Executor \cup {None}]
    BY <2>1, <2>2, Nows DEF TypeOK
  <2> QED
    BY <1>7, <2>3 DEF TypeOK, BindingGranted, pool, containers
<1>8. ASSUME NEW c \in Caller, ReleaseBinding(c) PROVE TypeOK'
  <2>1. /\ pc' \in [Caller -> States] /\ holds[c] \in Executor
        /\ holds' = [holds EXCEPT ![c] = None]
        /\ \/ bound' = bound \ {holds[c][1]} /\ Schedule({holds[c][1]}, active, bound')
           \/ UNCHANGED <<bound, restarts, recovery>>
        /\ UNCHANGED <<pool, active>>
    BY <1>8, SessionOver
  <2>2. {holds[c][1]} \in SUBSET Slot
    BY <2>1, Executors
  <2>3. /\ restarts' \in [Slot -> 0 .. MaxRestarts]
        /\ recovery' \in [Slot -> {"none", "stop", "start", "up", "failed"}]
    BY <1>0, <2>1, <2>2, Schedules
  <2>4. bound' \subseteq Slot /\ holds' \in [Caller -> Executor \cup {None}]
    BY <2>1 DEF TypeOK
  <2>5. request' \in [Caller -> Request \cup {None}]
    BY <1>0, <1>8 DEF ReleaseBinding, Done
  <2> QED
    BY <2>1, <2>3, <2>4, <2>5 DEF TypeOK, pool, containers, States
<1>9. ASSUME NEW s \in Slot, StopOld(s) \/ StartNew(s) PROVE TypeOK'
  <2>1. /\ up' \subseteq Executor /\ running' \subseteq Executor
        /\ unremoved' \subseteq Executor
    <3>1. CASE StopOld(s)
      BY <3>1, Stops DEF StopOld
    <3>2. CASE StartNew(s)
      BY <3>2, StartsNew
    <3> QED
      BY <1>9, <3>1, <3>2
  <2> QED
    BY <1>9, <2>1 DEF StopOld, StartNew, TypeOK
<1>10. ASSUME NEW s \in Slot, Replaced(s) \/ NotReplaced(s) PROVE TypeOK'
  <2>1. pc' \in [Caller -> States]
    BY <1>0, <1>10, Wakes DEF Replaced, NotReplaced
  <2>2. current' \in [Slot -> 0 .. MaxRestarts] /\ restarts' \in [Slot -> 0 .. MaxRestarts]
    BY <1>0, <1>10, SandboxAssumption DEF Replaced, NotReplaced, pool, containers
  <2>3. active' \in [Executor -> Nat]
    BY <1>10 DEF Replaced, NotReplaced, TypeOK
  <2>4. /\ recovery' = [recovery EXCEPT ![s] = "none"]
        /\ UNCHANGED <<manager, slots, up, running, unremoved, sick, bound, request, holds>>
    BY <1>10 DEF Replaced, NotReplaced, pool, containers
  <2> QED
    BY <2>1, <2>2, <2>3, <2>4 DEF TypeOK, States
<1>11. CASE BeginStop
  <2>1. pc' \in [Caller -> States]
    BY <1>0, <1>11, Wakes DEF BeginStop
  <2> QED
    BY <1>11, <2>1 DEF BeginStop, TypeOK, States, containers
<1>12. CASE EndStop
  <2>1. /\ up' \subseteq Executor /\ running' \subseteq Executor
        /\ unremoved' \subseteq Executor
    BY <1>12, Stops DEF EndStop
  <2> QED
    BY <1>12, <2>1, SandboxAssumption DEF EndStop, TypeOK
<1>13. CASE UNCHANGED vars
  BY <1>13 DEF TypeOK, vars, pool, containers
<1> QED
  BY <1>1, <1>2, <1>3, <1>4, <1>5, <1>6, <1>7, <1>8, <1>9, <1>10, <1>11, <1>12, <1>13
  DEF Next, Proceeds, Recovery

(***************************************************************************)
(* Callers never touch the containers: they may find one sick, and they    *)
(* start replacements of slots that do not run.                            *)
(***************************************************************************)
CallerStep(c) == Requests(c) \/ Proceeds(c) \/ Quarantine(c) \/ ReleaseBinding(c)

OnlySchedules ==
    /\ UNCHANGED <<manager, slots, current, containers>> /\ sick \subseteq sick'
    /\ \A s \in Slot :
         \/ restarts'[s] = restarts[s] /\ recovery'[s] = recovery[s]
         \/ /\ manager = "started" /\ s \in slots /\ ~Running(s) /\ recovery[s] = "none"
            /\ restarts[s] < MaxRestarts
            /\ restarts'[s] = restarts[s] + 1 /\ recovery'[s] = "stop"

LEMMA CallersOnlySchedule ==
    ASSUME TypeOK, Asked, NEW c \in Caller, CallerStep(c)
    PROVE  OnlySchedules
<1>1. ASSUME NEW S \in SUBSET Slot, NEW act, NEW bnd, Schedule(S, act, bnd), UNCHANGED pool
      PROVE  OnlySchedules
  BY <1>1, Schedules DEF OnlySchedules, Due, CanRecover, pool, containers
<1>2. ASSUME UNCHANGED <<manager, slots, current, containers, restarts, recovery>>,
             sick \subseteq sick'
      PROVE  OnlySchedules
  BY <1>2 DEF OnlySchedules
<1>3. CASE Requests(c)
  BY <1>2, <1>3 DEF Requests, Execute, AcquireBinding, pool, containers
<1>4. CASE LeaseGranted(c) \/ LeaseWaitsForCapacity(c) \/ LeaseStopping(c)
  BY <1>2, <1>4 DEF LeaseGranted, LeaseWaitsForCapacity, LeaseStopping, pool, containers
<1>5. CASE BindingGranted(c) \/ BindingStopping(c) \/ Quarantine(c)
  BY <1>2, <1>5 DEF BindingGranted, BindingStopping, Quarantine, pool, containers
<1>6. CASE LeaseWaitsForRecovery(c) \/ BindingWaits(c)
  <2>1. Wanted(c) \in SUBSET Slot
    BY DEF Wanted, TypeOK
  <2> QED
    BY <1>1, <1>6, <2>1 DEF LeaseWaitsForRecovery, BindingWaits
<1>7. CASE OperationEnds(c) \/ OperationFailsOver(c)
  <2>1. holds[c] \in Executor /\ Schedule({holds[c][1]}, active', bound) /\ UNCHANGED pool
    BY <1>7, OperationOver
  <2> QED
    BY <1>1, <2>1, Executors
<1>8. CASE ReleaseBinding(c)
  <2>1. /\ holds[c] \in Executor /\ UNCHANGED pool
        /\ \/ Schedule({holds[c][1]}, active, bound')
           \/ UNCHANGED <<restarts, recovery>>
    BY <1>8, SessionOver
  <2> QED
    BY <1>1, <1>2, <2>1, Executors DEF pool, containers
<1> QED
  BY <1>3, <1>4, <1>5, <1>6, <1>7, <1>8 DEF CallerStep, Proceeds

LEMMA NextByActor ==
    ASSUME [Next]_vars
    PROVE  \/ \E c \in Caller : CallerStep(c)
           \/ \E S \in SUBSET Slot : Start(S)
           \/ \E s \in Slot : Recovery(s)
           \/ BeginStop \/ EndStop \/ UNCHANGED vars
BY DEF Next, CallerStep

LEMMA FreshStep ==
    ASSUME TypeOK, Fresh, Asked, [Next]_vars
    PROVE  Fresh'
<1>1. ASSUME NEW c \in Caller, CallerStep(c) PROVE Fresh'
  <2>1. manager # "new"
    BY <1>1 DEF CallerStep, Requests, Execute, AcquireBinding, Proceeds, LeaseGranted,
                LeaseWaitsForCapacity, LeaseWaitsForRecovery, LeaseStopping, BindingGranted,
                BindingWaits, BindingStopping, OperationEnds, OperationFailsOver, Quarantine,
                ReleaseBinding, Fresh
  <2>2. OnlySchedules
    BY <1>1, CallersOnlySchedule
  <2> QED
    BY <2>1, <2>2 DEF OnlySchedules, Fresh, Alive
<1>2. ASSUME NEW S \in SUBSET Slot, Start(S) PROVE Fresh'
  BY <1>2 DEF Start, Fresh, Alive
<1>3. ASSUME NEW s \in Slot, Recovery(s) PROVE Fresh'
  BY <1>3 DEF Recovery, StopOld, StartNew, Replaced, NotReplaced, pool, containers, Fresh, Alive
<1>4. CASE BeginStop \/ EndStop
  BY <1>4 DEF BeginStop, EndStop, RecoveriesEnded, Fresh, Alive
<1>5. CASE UNCHANGED vars
  BY <1>5 DEF vars, pool, containers, Fresh, Alive
<1> QED
  BY <1>1, <1>2, <1>3, <1>4, <1>5, NextByActor

LEMMA GenerationsStep ==
    ASSUME TypeOK, Fresh, Asked, Generations, [Next]_vars
    PROVE  Generations'
<1>0. /\ restarts \in [Slot -> 0 .. MaxRestarts] /\ current \in [Slot -> 0 .. MaxRestarts]
      /\ MaxRestarts \in Nat
  BY SandboxAssumption DEF TypeOK
<1>1. ASSUME NEW c \in Caller, CallerStep(c) PROVE Generations'
  <2>1. OnlySchedules
    BY <1>1, CallersOnlySchedule
  <2> QED
    BY <1>0, <2>1 DEF OnlySchedules, Generations
<1>2. ASSUME NEW S \in SUBSET Slot, Start(S) PROVE Generations'
  BY <1>0, <1>2 DEF Start, Generations
<1>3. ASSUME NEW s \in Slot, Recovery(s) PROVE Generations'
  BY <1>0, <1>3 DEF Recovery, StopOld, StartNew, Replaced, NotReplaced, pool, containers, Generations
<1>4. CASE BeginStop \/ EndStop
  BY <1>4 DEF BeginStop, EndStop, Generations
<1>5. CASE UNCHANGED vars
  BY <1>5 DEF vars, pool, containers, Generations
<1> QED
  BY <1>1, <1>2, <1>3, <1>4, <1>5, NextByActor

LEMMA RecoveringStep ==
    ASSUME TypeOK, Fresh, Asked, Generations, Recovering, [Next]_vars
    PROVE  Recovering'
<1>0. /\ restarts \in [Slot -> 0 .. MaxRestarts] /\ current \in [Slot -> 0 .. MaxRestarts]
      /\ recovery \in [Slot -> {"none", "stop", "start", "up", "failed"}]
      /\ MaxRestarts \in Nat
  BY SandboxAssumption DEF TypeOK
<1>1. ASSUME NEW c \in Caller, CallerStep(c) PROVE Recovering'
  <2>1. OnlySchedules
    BY <1>1, CallersOnlySchedule
  <2> SUFFICES ASSUME NEW s \in Slot
               PROVE  /\ recovery'[s] # "none" => s \in slots' /\ ~Running(s)'
                      /\ recovery'[s] \in {"stop", "start", "up"} => current'[s] < restarts'[s]
                      /\ recovery'[s] \in {"start", "up", "failed"} => Now(s)' \notin up'
    BY DEF Recovering
  <2>2. Now(s)' = Now(s) /\ (~Running(s) => ~Running(s)')
    BY <2>1 DEF OnlySchedules, containers, Now, Running
  <2>3. CASE restarts'[s] = restarts[s] /\ recovery'[s] = recovery[s]
    BY <2>1, <2>2, <2>3 DEF OnlySchedules, containers, Recovering
  <2>4. CASE /\ manager = "started" /\ s \in slots /\ ~Running(s) /\ recovery[s] = "none"
             /\ restarts'[s] = restarts[s] + 1 /\ recovery'[s] = "stop"
    BY <1>0, <2>1, <2>2, <2>4 DEF OnlySchedules, containers, Generations
  <2> QED
    BY <2>1, <2>3, <2>4 DEF OnlySchedules
<1>2. ASSUME NEW S \in SUBSET Slot, Start(S) PROVE Recovering'
  BY <1>2 DEF Start, Fresh, Alive, Recovering
<1>3. ASSUME NEW s \in Slot, StopOld(s) PROVE Recovering'
  <2>1. /\ \A r \in Slot : Now(r)' = Now(r)
        /\ up' = up \ {Now(s)} /\ UNCHANGED <<slots, current, restarts, sick>>
        /\ recovery[s] = "stop" /\ recovery' = [recovery EXCEPT ![s] = "start"]
    BY <1>3, Stops DEF StopOld, Now
  <2> QED
    BY <1>0, <2>1 DEF Recovering, Running
<1>4. ASSUME NEW s \in Slot, StartNew(s) PROVE Recovering'
  <2>1. /\ \A r \in Slot : Now(r)' = Now(r)
        /\ up' \subseteq up \cup {<<s, restarts[s]>>}
        /\ UNCHANGED <<slots, current, restarts, sick>>
        /\ recovery[s] = "start" /\ \E x \in {"up", "failed"} : recovery' = [recovery EXCEPT ![s] = x]
    BY <1>4, StartsNew DEF StartNew, Now
  <2>2. \A r \in Slot : Now(r) # <<s, restarts[s]>>
    <3>1. current[s] # restarts[s]
      BY <1>0, <2>1 DEF Recovering
    <3> QED
      BY <3>1 DEF Now
  <2> QED
    BY <1>0, <2>1, <2>2 DEF Recovering, Running
<1>5. ASSUME NEW s \in Slot, Replaced(s) \/ NotReplaced(s) PROVE Recovering'
  <2>1. /\ \A r \in Slot \ {s} : /\ Now(r)' = Now(r) /\ current'[r] = current[r]
                                 /\ restarts'[r] = restarts[r]
        /\ UNCHANGED <<slots, up, sick>>
        /\ recovery' = [recovery EXCEPT ![s] = "none"]
    BY <1>0, <1>5 DEF Replaced, NotReplaced, pool, containers, Now
  <2> QED
    BY <1>0, <2>1 DEF Recovering, Running
<1>6. CASE BeginStop
  BY <1>6 DEF BeginStop, containers, Recovering, Running, Now
<1>7. CASE EndStop
  BY <1>7 DEF EndStop, RecoveriesEnded, Recovering
<1>8. CASE UNCHANGED vars
  BY <1>8 DEF vars, pool, containers, Recovering, Running, Now
<1> QED
  BY <1>1, <1>2, <1>3, <1>4, <1>5, <1>6, <1>7, <1>8, NextByActor DEF Recovery

LEMMA UpKnownStep ==
    ASSUME TypeOK, Fresh, Asked, Recovering, UpKnown, [Next]_vars
    PROVE  UpKnown'
<1>0. /\ recovery \in [Slot -> {"none", "stop", "start", "up", "failed"}]
      /\ \A e \in up : e \in Executor /\ e[1] \in Slot /\ e = <<e[1], e[2]>>
  BY Executors DEF TypeOK
<1> DEFINE Known(e) == /\ e[1] \in slots
                       /\ e # Now(e[1]) => recovery[e[1]] = "up" /\ e[2] = restarts[e[1]]
<1>1. ASSUME NEW c \in Caller, CallerStep(c) PROVE UpKnown'
  <2>1. OnlySchedules
    BY <1>1, CallersOnlySchedule
  <2> SUFFICES ASSUME NEW e \in up PROVE Known(e)'
    BY <2>1 DEF OnlySchedules, containers, UpKnown
  <2>2. Known(e) /\ e[1] \in Slot
    BY <1>0 DEF UpKnown
  <2>3. Now(e[1])' = Now(e[1]) /\ slots' = slots
    BY <2>1 DEF OnlySchedules, Now
  <2>4. recovery[e[1]] = "up" => recovery'[e[1]] = "up" /\ restarts'[e[1]] = restarts[e[1]]
    BY <2>1, <2>2 DEF OnlySchedules
  <2> QED
    BY <2>2, <2>3, <2>4
<1>2. ASSUME NEW S \in SUBSET Slot, Start(S) PROVE UpKnown'
  <2>1. CASE manager' = "started"
    <3>1. slots' = S /\ up' = {<<s, 0>> : s \in S}
      <4>1. slots = {}
        BY <1>2 DEF Start, Fresh, Alive
      <4>2. up = {}
        BY <4>1 DEF UpKnown
      <4> QED
        BY <1>2, <2>1, <4>2, Starts
    <3>2. \A s \in S : Now(s)' = <<s, 0>>
      BY <1>2 DEF Start, Fresh, Now
    <3> QED
      BY <3>1, <3>2 DEF UpKnown
  <2>2. CASE manager' # "started"
    <3>1. UNCHANGED <<slots, up>> /\ slots = {}
      BY <1>2, <2>2, Starts DEF Start, Fresh, Alive
    <3> QED
      BY <3>1 DEF UpKnown
  <2> QED
    BY <2>1, <2>2
<1>3. ASSUME NEW s \in Slot, StopOld(s) PROVE UpKnown'
  <2> SUFFICES ASSUME NEW e \in up' PROVE Known(e)'
    BY DEF UpKnown
  <2>1. /\ up' = up \ {Now(s)} /\ UNCHANGED <<slots, current, restarts>>
        /\ recovery[s] = "stop" /\ recovery' = [recovery EXCEPT ![s] = "start"]
    BY <1>3, Stops DEF StopOld
  <2>2. e \in up /\ Known(e) /\ e # Now(s) /\ e[1] \in Slot
    BY <1>0, <2>1 DEF UpKnown
  <2>3. e[1] # s
    BY <2>1, <2>2
  <2>4. Now(e[1])' = Now(e[1]) /\ recovery'[e[1]] = recovery[e[1]]
    BY <1>0, <2>1, <2>2, <2>3 DEF Now
  <2> QED
    BY <2>1, <2>2, <2>4
<1>4. ASSUME NEW s \in Slot, StartNew(s) PROVE UpKnown'
  <2> SUFFICES ASSUME NEW e \in up' PROVE Known(e)'
    BY DEF UpKnown
  <2>1. /\ \/ up' = up \cup {<<s, restarts[s]>>} /\ recovery' = [recovery EXCEPT ![s] = "up"]
           \/ up' = up /\ recovery' = [recovery EXCEPT ![s] = "failed"]
        /\ recovery[s] = "start" /\ UNCHANGED <<slots, current, restarts>>
    BY <1>4, StartsNew DEF StartNew
  <2>2. \A r \in Slot : Now(r)' = Now(r) /\ (r # s => recovery'[r] = recovery[r])
    BY <1>0, <2>1 DEF Now
  <2>3. CASE e \in up
    <3>1. Known(e) /\ e[1] \in Slot
      BY <1>0, <2>3 DEF UpKnown
    <3> QED
      BY <2>1, <2>2, <3>1
  <2>4. CASE e \notin up
    <3>1. e = <<s, restarts[s]>> /\ recovery' = [recovery EXCEPT ![s] = "up"]
      BY <2>1, <2>4
    <3>2. s \in slots
      BY <2>1 DEF Recovering
    <3> QED
      BY <1>0, <2>1, <3>1, <3>2
  <2> QED
    BY <2>3, <2>4
<1>5. ASSUME NEW s \in Slot, Replaced(s) \/ NotReplaced(s) PROVE UpKnown'
  <2> SUFFICES ASSUME NEW e \in up' PROVE Known(e)'
    BY DEF UpKnown
  <2>1. UNCHANGED <<slots, up>> /\ recovery' = [recovery EXCEPT ![s] = "none"]
    BY <1>5 DEF Replaced, NotReplaced, pool, containers
  <2>2. e \in up /\ Known(e) /\ e[1] \in Slot /\ e = <<e[1], e[2]>>
    BY <1>0, <2>1 DEF UpKnown
  <2>3. CASE e[1] # s
    <3>1. /\ Now(e[1])' = Now(e[1]) /\ recovery'[e[1]] = recovery[e[1]]
          /\ restarts'[e[1]] = restarts[e[1]]
      BY <1>0, <1>5, <2>2, <2>3 DEF Replaced, NotReplaced, pool, containers, Now, TypeOK
    <3> QED
      BY <2>1, <2>2, <3>1
  <2>4. CASE e[1] = s /\ Replaced(s)
    <3>1. e # Now(s)
      BY <2>2, <2>4 DEF Recovering, Replaced
    <3>2. Now(s)' = <<s, restarts[s]>>
      BY <2>4 DEF Replaced, Now, TypeOK
    <3> QED
      BY <2>1, <2>2, <2>4, <3>1, <3>2
  <2>5. CASE e[1] = s /\ NotReplaced(s)
    <3>1. recovery[s] = "failed" /\ Now(s)' = Now(s)
      BY <2>5 DEF NotReplaced, pool, containers, Now
    <3> QED
      BY <2>1, <2>2, <2>5, <3>1
  <2> QED
    BY <1>5, <2>3, <2>4, <2>5
<1>6. CASE BeginStop
  BY <1>6 DEF BeginStop, containers, UpKnown, Now
<1>7. CASE EndStop
  <2>1. \A e \in up : e[1] \in slots /\ e = Now(e[1])
    BY <1>0, <1>7 DEF EndStop, RecoveriesEnded, UpKnown
  <2>2. up' = up \ {Now(s) : s \in slots}
    BY <1>7, Stops DEF EndStop
  <2>3. up' = {}
    BY <2>1, <2>2
  <2> QED
    BY <2>3 DEF UpKnown
<1>8. CASE UNCHANGED vars
  BY <1>8 DEF vars, pool, containers, UpKnown, Now
<1> QED
  BY <1>1, <1>2, <1>3, <1>4, <1>5, <1>6, <1>7, <1>8, NextByActor DEF Recovery

\* A container that loses its deployment is gone, or known not to be.
LEMMA LeftKnownStep ==
    ASSUME TypeOK, Asked, LeftKnown, [Next]_vars
    PROVE  LeftKnown'
<1>1. ASSUME UNCHANGED containers PROVE LeftKnown'
  BY <1>1 DEF LeftKnown, containers
<1>2. ASSUME NEW c \in Caller, CallerStep(c) PROVE LeftKnown'
  <2>1. OnlySchedules
    BY <1>2, CallersOnlySchedule
  <2> QED
    BY <1>1, <2>1 DEF OnlySchedules
<1>3. ASSUME NEW S \in SUBSET Slot, Start(S) PROVE LeftKnown'
  BY <1>3, Starts
<1>4. ASSUME NEW s \in Slot, Recovery(s) PROVE LeftKnown'
  <2>1. CASE StopOld(s)
    BY <2>1, Stops DEF StopOld
  <2>2. CASE StartNew(s)
    BY <2>2, StartsNew
  <2>3. CASE Replaced(s) \/ NotReplaced(s)
    BY <1>1, <2>3 DEF Replaced, NotReplaced, pool
  <2> QED
    BY <1>4, <2>1, <2>2, <2>3 DEF Recovery
<1>5. CASE EndStop
  BY <1>5, Stops DEF EndStop
<1>6. CASE BeginStop \/ UNCHANGED vars
  BY <1>1, <1>6 DEF BeginStop, vars, pool
<1> QED
  BY <1>2, <1>3, <1>4, <1>5, <1>6, NextByActor

LEMMA AskedStep ==
    ASSUME TypeOK, Asked, [Next]_vars
    PROVE  Asked'
<1>0. /\ pc \in [Caller -> States] /\ request \in [Caller -> Request \cup {None}]
      /\ holds \in [Caller -> Executor \cup {None}]
  BY DEF TypeOK, States
<1> DEFINE OK(c) == /\ pc[c] \notin {"new", "done"} => request[c] \in Request
                    /\ pc[c] \in {"lease", "waitLease"} => request[c].attempts < 2
                    /\ holds[c] # None <=> InUse(c)
<1>1. \A c \in Caller : OK(c)
  BY DEF Asked
\* Waking a caller changes nothing that matters here.
<1>2. ASSUME NEW d \in Caller, pc'[d] = pc[d] \/ pc'[d] = Woken(pc)[d],
             request'[d] = request[d], holds'[d] = holds[d]
      PROVE  OK(d)'
  <2>1. OK(d)
    BY <1>1
  <2>2. CASE pc'[d] = pc[d]
    BY <1>2, <2>1, <2>2 DEF InUse
  <2>3. CASE pc'[d] = Woken(pc)[d]
    BY <1>0, <1>2, <2>1, <2>3, Wakes DEF InUse
  <2> QED
    BY <1>2, <2>2, <2>3
<1>3. ASSUME NEW c \in Caller, Requests(c) PROVE Asked'
  <2>1. PICK S \in Pools, b \in BOOLEAN, state \in {"lease", "bind"} :
            /\ request' = [request EXCEPT ![c] =
                  [need |-> S, failover |-> b, attempts |-> 0, excluded |-> {}]]
            /\ pc' = [pc EXCEPT ![c] = state]
            /\ pc[c] = "new" /\ UNCHANGED holds
    BY <1>3 DEF Requests, Execute, AcquireBinding
  <2>2. [need |-> S, failover |-> b, attempts |-> 0, excluded |-> {}] \in Request
    BY SandboxAssumption DEF Request
  <2>3. \A d \in Caller \ {c} : OK(d)'
    BY <1>0, <1>2, <2>1
  <2>4. OK(c)'
    BY <1>0, <1>1, <2>1, <2>2 DEF InUse
  <2> QED
    BY <2>3, <2>4 DEF Asked
<1>4. ASSUME NEW c \in Caller, LeaseGranted(c) \/ BindingGranted(c) PROVE Asked'
  <2>1. /\ \A d \in Caller \ {c} : pc'[d] = pc[d] /\ request'[d] = request[d] /\ holds'[d] = holds[d]
        /\ pc'[c] \in {"run", "bound"}
    BY <1>0, <1>4 DEF LeaseGranted, BindingGranted
  <2>2. \E s \in Slot : holds'[c] = Now(s)
    BY <1>0, <1>4 DEF LeaseGranted, BindingGranted, Choosable, Candidates, Compatible, Available,
                      Wanted, TypeOK
  <2>3. holds'[c] # None
    BY <2>2, Nows, Executors
  <2>4. request'[c] \in Request
    <3>1. request' \in [Caller -> Request \cup {None}]
      BY <1>4, TypeStep DEF TypeOK
    <3>2. request[c] \in Request
      BY <1>1, <1>4 DEF LeaseGranted, BindingGranted
    <3>3. CASE BindingGranted(c)
      BY <3>2, <3>3 DEF BindingGranted
    <3>4. CASE LeaseGranted(c)
      <4>1. request[c].attempts < 2
        BY <1>1, <3>4 DEF LeaseGranted
      <4>2. [request[c] EXCEPT !.attempts = @ + 1] \in Request
        BY <3>2, <4>1 DEF Request
      <4> QED
        BY <1>0, <3>4, <4>2 DEF LeaseGranted
    <3> QED
      BY <1>4, <3>3, <3>4
  <2>5. \A d \in Caller \ {c} : OK(d)'
    BY <1>2, <2>1
  <2>6. OK(c)'
    BY <2>1, <2>3, <2>4 DEF InUse
  <2> QED
    BY <2>5, <2>6 DEF Asked
<1>5. ASSUME NEW c \in Caller, LeaseWaitsForCapacity(c) \/ LeaseWaitsForRecovery(c) \/
             LeaseStopping(c) \/ BindingWaits(c) \/ BindingStopping(c)
      PROVE  Asked'
  <2>1. /\ \A d \in Caller \ {c} : pc'[d] = pc[d] /\ request'[d] = request[d]
        /\ holds' = holds /\ ~InUse(c)
        /\ \/ pc'[c] = "done"
           \/ pc'[c] = "waitLease" /\ pc[c] = "lease" /\ request' = request
           \/ pc'[c] = "waitBind" /\ pc[c] = "bind" /\ request' = request
    BY <1>0, <1>5 DEF LeaseWaitsForCapacity, LeaseWaitsForRecovery, LeaseStopping, BindingWaits,
                      BindingStopping, Done, InUse
  <2>2. \A d \in Caller \ {c} : OK(d)'
    BY <1>2, <2>1
  <2>3. OK(c)'
    BY <1>1, <2>1 DEF InUse
  <2> QED
    BY <2>2, <2>3 DEF Asked
<1>6. ASSUME NEW c \in Caller, OperationEnds(c) \/ OperationFailsOver(c) PROVE Asked'
  <2>1. /\ pc[c] = "run" /\ holds[c] \in Executor
        /\ pc'[c] \in {"done", "lease"}
        /\ holds' = [holds EXCEPT ![c] = None]
        /\ \A d \in Caller \ {c} : pc'[d] = Woken(pc)[d]
    BY <1>6, OperationOver
  <2>2. \A d \in Caller \ {c} : request'[d] = request[d] /\ holds'[d] = holds[d]
    BY <1>0, <1>6, <2>1 DEF OperationEnds, OperationFailsOver, Done
  <2>3. \A d \in Caller \ {c} : OK(d)'
    BY <1>2, <2>1, <2>2
  <2>4. pc'[c] = "lease" => request'[c] \in Request /\ request'[c].attempts < 2
    <3>1. CASE OperationEnds(c)
      BY <1>0, <3>1, Wakes DEF OperationEnds, Done
    <3>2. CASE OperationFailsOver(c)
      <4>1. request[c] \in Request /\ request[c].attempts < 2
        BY <1>1, <2>1, <3>2 DEF OperationFailsOver
      <4>2. request'[c] = [request[c] EXCEPT !.excluded = @ \cup {holds[c][1]}]
        BY <1>0, <3>2 DEF OperationFailsOver
      <4>3. holds[c][1] \in Slot
        BY <2>1, Executors
      <4> QED
        BY <4>1, <4>2, <4>3 DEF Request
    <3> QED
      BY <1>6, <3>1, <3>2
  <2>5. OK(c)'
    BY <1>0, <2>1, <2>4 DEF InUse
  <2> QED
    BY <2>3, <2>5 DEF Asked
<1>7. ASSUME NEW c \in Caller, ReleaseBinding(c) PROVE Asked'
  <2>1. /\ pc'[c] = "done"
        /\ holds' = [holds EXCEPT ![c] = None]
        /\ \A d \in Caller \ {c} : pc'[d] = pc[d] \/ pc'[d] = Woken(pc)[d]
    BY <1>7, SessionOver
  <2>2. \A d \in Caller \ {c} : request'[d] = request[d] /\ holds'[d] = holds[d]
    BY <1>0, <1>7, <2>1 DEF ReleaseBinding, Done
  <2>3. \A d \in Caller \ {c} : OK(d)'
    BY <1>2, <2>1, <2>2
  <2>4. OK(c)'
    BY <1>0, <2>1 DEF InUse
  <2> QED
    BY <2>3, <2>4 DEF Asked
<1>8. ASSUME pc' = pc \/ pc' = Woken(pc), UNCHANGED <<request, holds>> PROVE Asked'
  BY <1>2, <1>8 DEF Asked
<1>9. ASSUME NEW c \in Caller, Quarantine(c) PROVE Asked'
  BY <1>8, <1>9 DEF Quarantine
<1>10. ASSUME NEW s \in Slot, Recovery(s) PROVE Asked'
  BY <1>8, <1>10 DEF Recovery, StopOld, StartNew, Replaced, NotReplaced
<1>11. ASSUME NEW S \in SUBSET Slot, Start(S) PROVE Asked'
  BY <1>8, <1>11 DEF Start
<1>12. CASE BeginStop \/ EndStop \/ UNCHANGED vars
  BY <1>8, <1>12 DEF BeginStop, EndStop, vars
<1> QED
  BY <1>3, <1>4, <1>5, <1>6, <1>7, <1>9, <1>10, <1>11, <1>12, NextByActor
  DEF CallerStep, Proceeds

(***************************************************************************)
(* The counts.                                                             *)
(***************************************************************************)
LEMMA LeasesFinite ==
    ASSUME NEW e
    PROVE  IsFiniteSet(Leases(e)) /\ Cardinality(Leases(e)) \in Nat
<1>1. Leases(e) \subseteq Caller
  BY DEF Leases
<1> QED
  BY <1>1, SandboxAssumption, FS_Subset, FS_CardinalityType

\* Nobody holds an executor that is not its slot's, or whose slot is under replacement.
LEMMA NotHeld ==
    ASSUME TypeOK, Asked, NotReplacedInUse, NEW e \in Executor,
           e # Now(e[1]) \/ recovery[e[1]] # "none"
    PROVE  \A c \in Caller : InUse(c) => holds[c] # e
BY DEF Asked, NotReplacedInUse

\* A lease is one more user of its executor ...
LEMMA LeaseTaken ==
    ASSUME TypeOK, NEW c \in Caller, LeaseGranted(c)
    PROVE  \E s \in Slot :
             /\ s \in Compatible(c) /\ Now(s) \in Executor
             /\ active[Now(s)] < MaxConcurrency
             /\ active' = [active EXCEPT ![Now(s)] = @ + 1]
             /\ holds' = [holds EXCEPT ![c] = Now(s)]
             /\ Leases(Now(s))' = Leases(Now(s)) \cup {c} /\ c \notin Leases(Now(s))
             /\ \A e \in Executor \ {Now(s)} : Leases(e)' = Leases(e)
<1>0. pc \in [Caller -> States] /\ holds \in [Caller -> Executor \cup {None}]
  BY DEF TypeOK, States
<1>1. PICK s \in Choosable(c) : /\ active' = [active EXCEPT ![Now(s)] = @ + 1]
                                /\ holds' = [holds EXCEPT ![c] = Now(s)]
  BY DEF LeaseGranted
<1>2. s \in Slot /\ s \in Compatible(c) /\ active[Now(s)] < MaxConcurrency
  BY <1>1 DEF Choosable, Candidates, Compatible, Wanted, TypeOK
<1>3. Now(s) \in Executor
  BY <1>2, Nows
<1>4. pc[c] = "lease" /\ pc' = [pc EXCEPT ![c] = "run"]
  BY DEF LeaseGranted
<1>5. Leases(Now(s))' = Leases(Now(s)) \cup {c} /\ c \notin Leases(Now(s))
  <2> DEFINE x == Now(s)
  <2>1. Now(s)' = x
    BY DEF LeaseGranted, pool, containers, Now
  <2>2. {d \in Caller : pc'[d] = "run" /\ holds'[d] = x}
            = {d \in Caller : pc[d] = "run" /\ holds[d] = x} \cup {c}
    BY <1>0, <1>1, <1>4
  <2> QED
    BY <1>4, <2>1, <2>2 DEF Leases
<1>6. ASSUME NEW e \in Executor \ {Now(s)} PROVE Leases(e)' = Leases(e)
  BY <1>0, <1>1, <1>4, <1>6 DEF Leases
<1> QED
  BY <1>1, <1>2, <1>3, <1>5, <1>6

\* ... and its end one fewer.
LEMMA LeaseEnded ==
    ASSUME TypeOK, Asked, NEW c \in Caller, OperationEnds(c) \/ OperationFailsOver(c)
    PROVE  /\ c \in Leases(holds[c])
           /\ \A e \in Executor : Leases(e)' = Leases(e) \ {c}
<1>1. /\ pc[c] = "run" /\ pc'[c] # "run"
      /\ pc \in [Caller -> States] /\ holds \in [Caller -> Executor \cup {None}]
      /\ holds' = [holds EXCEPT ![c] = None]
      /\ \A d \in Caller \ {c} : pc'[d] = Woken(pc)[d]
  BY OperationOver DEF TypeOK, States
<1>2. \A d \in Caller \ {c} : (pc'[d] = "run" <=> pc[d] = "run") /\ holds'[d] = holds[d]
  BY <1>1, Wakes
<1> QED
  BY <1>1, <1>2 DEF Leases

\* Sessions are not leases.
LEMMA SessionNoLease ==
    ASSUME TypeOK, Asked, NEW c \in Caller, BindingGranted(c) \/ ReleaseBinding(c)
    PROVE  active' = active /\ \A e \in Executor : Leases(e)' = Leases(e)
<1>0. pc \in [Caller -> States] /\ holds \in [Caller -> Executor \cup {None}]
  BY DEF TypeOK, States
<1>1. CASE BindingGranted(c)
  <2>1. /\ pc[c] = "bind" /\ pc' = [pc EXCEPT ![c] = "bound"] /\ active' = active
        /\ \A d \in Caller \ {c} : holds'[d] = holds[d]
    BY <1>0, <1>1 DEF BindingGranted
  <2> QED
    BY <1>0, <2>1 DEF Leases
<1>2. CASE ReleaseBinding(c)
  <2>1. /\ pc[c] = "bound" /\ pc'[c] = "done" /\ active' = active
        /\ holds' = [holds EXCEPT ![c] = None]
        /\ \A d \in Caller \ {c} : pc'[d] = pc[d] \/ pc'[d] = Woken(pc)[d]
    BY <1>2, SessionOver
  <2>2. \A d \in Caller \ {c} : (pc'[d] = "run" <=> pc[d] = "run") /\ holds'[d] = holds[d]
    BY <1>0, <2>1, Wakes
  <2> QED
    BY <2>1, <2>2 DEF Leases
<1> QED
  BY <1>1, <1>2

LEMMA CountedStep ==
    ASSUME TypeOK, Fresh, Asked, Recovering, NotReplacedInUse, Counted, [Next]_vars
    PROVE  Counted'
<1> DEFINE OK(e) == active[e] = Cardinality(Leases(e)) /\ active[e] <= MaxConcurrency
<1>0. active \in [Executor -> Nat] /\ MaxConcurrency \in Nat \ {0}
  BY SandboxAssumption DEF TypeOK
<1>1. ASSUME active' = active, \A e \in Executor : Leases(e)' = Leases(e),
             manager' # "stopped" => manager # "stopped"
      PROVE  Counted'
  BY <1>1 DEF Counted
<1>2. ASSUME NEW c \in Caller, LeaseGranted(c) PROVE Counted'
  <2>1. PICK s \in Slot :
             /\ Now(s) \in Executor
             /\ active[Now(s)] < MaxConcurrency
             /\ active' = [active EXCEPT ![Now(s)] = @ + 1]
             /\ Leases(Now(s))' = Leases(Now(s)) \cup {c} /\ c \notin Leases(Now(s))
             /\ \A e \in Executor \ {Now(s)} : Leases(e)' = Leases(e)
    BY <1>2, LeaseTaken
  <2>2. \A e \in Executor : OK(e)
    BY <1>2 DEF LeaseGranted, Counted
  <2>3. Now(s)' = Now(s)
    BY <1>2 DEF LeaseGranted, pool, containers, Now
  <2>4. Cardinality(Leases(Now(s)) \cup {c}) = Cardinality(Leases(Now(s))) + 1
    BY <2>1, LeasesFinite, FS_AddElement
  <2>5. ASSUME NEW e \in Executor PROVE OK(e)'
    <3>1. CASE e = Now(s)
      <4>1. active'[e] = active[e] + 1 /\ active[e] < MaxConcurrency
        BY <1>0, <2>1, <3>1
      <4>2. Leases(e)' = Leases(e) \cup {c}
        BY <2>1, <2>3, <3>1 DEF Leases
      <4> QED
        BY <1>0, <2>2, <2>4, <3>1, <4>1, <4>2
    <3>2. CASE e # Now(s)
      BY <1>0, <2>1, <2>2, <3>2
    <3> QED
      BY <3>1, <3>2
  <2> QED
    BY <2>5 DEF Counted
<1>3. ASSUME NEW c \in Caller, OperationEnds(c) \/ OperationFailsOver(c) PROVE Counted'
  <2> SUFFICES ASSUME manager' # "stopped", NEW e \in Executor PROVE OK(e)'
    BY DEF Counted
  <2>1. /\ pc[c] = "run" /\ holds[c] \in Executor
        /\ active' = [active EXCEPT ![holds[c]] = IF @ > 0 THEN @ - 1 ELSE 0]
        /\ UNCHANGED manager
    BY <1>3, OperationOver DEF pool, containers
  <2>2. c \in Leases(holds[c]) /\ Leases(e)' = Leases(e) \ {c}
    BY <1>3, LeaseEnded
  <2>3. OK(e)
    BY <2>1 DEF Counted
  <2>4. CASE e = holds[c]
    <3>1. Cardinality(Leases(e) \ {c}) = Cardinality(Leases(e)) - 1
      BY <2>2, <2>4, LeasesFinite, FS_RemoveElement
    <3>2. Cardinality(Leases(e) \ {c}) \in Nat
      BY <2>2, LeasesFinite, FS_RemoveElement, FS_CardinalityType
    <3>3. active'[e] = active[e] - 1
      BY <1>0, <2>1, <2>3, <2>4, <3>1, <3>2
    <3> QED
      BY <1>0, <2>2, <2>3, <3>1, <3>3
  <2>5. CASE e # holds[c]
    <3>1. Leases(e)' = Leases(e)
      BY <2>2, <2>5 DEF Leases
    <3> QED
      BY <1>0, <2>1, <2>3, <2>5, <3>1
  <2> QED
    BY <2>4, <2>5
<1>4. ASSUME NEW c \in Caller, BindingGranted(c) \/ ReleaseBinding(c) PROVE Counted'
  BY <1>1, <1>4, SessionNoLease DEF BindingGranted, ReleaseBinding, pool, containers
<1>5. CASE Keeps
  <2>1. \A e \in Executor : Leases(e)' = Leases(e)
    BY <1>5, UseKept DEF SameUse, Leases
  <2>2. ASSUME NEW s \in Slot, Replaced(s) PROVE Counted'
    <3>1. /\ recovery[s] = "up" /\ UNCHANGED manager
          /\ active' = [active EXCEPT ![Now(s)] = 0, ![<<s, restarts[s]>>] = 0]
      BY <2>2 DEF Replaced
    <3>2. /\ Now(s) \in Executor /\ Now(s)[1] = s
          /\ <<s, restarts[s]>> \in Executor /\ <<s, restarts[s]>>[1] = s
      BY Nows DEF TypeOK, Executor
    <3>3. Leases(Now(s)) = {} /\ Leases(<<s, restarts[s]>>) = {}
      BY <3>1, <3>2, NotHeld DEF Leases, InUse
    <3>4. Cardinality({}) = 0
      BY FS_EmptySet
    <3>5. \A e \in Executor :
              active'[e] = IF e = Now(s) \/ e = <<s, restarts[s]>> THEN 0 ELSE active[e]
      BY <1>0, <3>1, <3>2
    <3> QED
      BY <1>0, <2>1, <3>1, <3>3, <3>4, <3>5 DEF Counted
  <2>3. CASE EndStop
    BY <2>3 DEF EndStop, Counted
  <2>4. CASE ~EndStop /\ ~(\E s \in Slot : Replaced(s))
    <3>1. active' = active /\ (manager' # "stopped" => manager # "stopped")
      BY <1>5, <2>4 DEF Keeps, Recovery, Start, Requests, Execute, AcquireBinding, Quarantine,
         LeaseWaitsForCapacity, LeaseWaitsForRecovery, LeaseStopping, BindingWaits,
         BindingStopping, StopOld, StartNew, NotReplaced, BeginStop, vars, pool, containers
    <3> QED
      BY <1>1, <2>1, <3>1
  <2> QED
    BY <2>2, <2>3, <2>4
<1> QED
  BY <1>2, <1>3, <1>4, <1>5, NextIs

(***************************************************************************)
(* Who uses an executor keeps it.                                          *)
(***************************************************************************)

\* By the counts and the bindings, a slot that is due has no users.
LEMMA DueUnused ==
    ASSUME TypeOK, Asked, Counted, Exclusive, NotReplacedInUse,
           NEW s \in Slot, Due(s, active, bound)
    PROVE  \A d \in Caller : InUse(d) => holds[d][1] # s
<1>1. manager = "started" /\ s \notin bound /\ active[Now(s)] = 0
  BY DEF Due, CanRecover
<1>2. Now(s) \in Executor
  BY Nows
<1>3. Leases(Now(s)) = {}
  <2>1. Cardinality(Leases(Now(s))) = 0
    BY <1>1, <1>2 DEF Counted
  <2> QED
    BY <2>1, LeasesFinite, FS_EmptySet
<1>4. SUFFICES ASSUME NEW d \in Caller, InUse(d), holds[d][1] = s PROVE FALSE
  OBVIOUS
<1>5. holds[d] = Now(s)
  BY <1>4 DEF Asked, NotReplacedInUse
<1>6. CASE pc[d] = "run"
  BY <1>3, <1>5, <1>6 DEF Leases
<1>7. CASE pc[d] = "bound"
  BY <1>1, <1>4, <1>7 DEF Exclusive
<1> QED
  BY <1>4, <1>6, <1>7 DEF InUse

\* What a caller needs to keep its executor.
LEMMA Undisturbed ==
    ASSUME NotReplacedInUse, NEW d \in Caller, holds'[d] = holds[d],
           holds[d] # None => /\ current'[holds[d][1]] = current[holds[d][1]]
                              /\ recovery'[holds[d][1]] = recovery[holds[d][1]]
    PROVE  holds'[d] # None => /\ holds'[d] = <<holds'[d][1], current'[holds'[d][1]]>>
                               /\ recovery'[holds'[d][1]] = "none"
BY DEF NotReplacedInUse, Now

LEMMA InUseStep ==
    ASSUME TypeOK, Fresh, Asked, Recovering, Counted, Exclusive, NotReplacedInUse, [Next]_vars
    PROVE  NotReplacedInUse'
<1> DEFINE Keeping(d) == holds[d] # None => /\ holds[d] = <<holds[d][1], current[holds[d][1]]>>
                                            /\ recovery[holds[d][1]] = "none"
<1>0. /\ pc \in [Caller -> States] /\ holds \in [Caller -> Executor \cup {None}]
      /\ \A d \in Caller : holds[d] # None => holds[d] \in Executor /\ holds[d][1] \in Slot
  BY Executors DEF TypeOK, States
<1>1. SUFFICES \A d \in Caller : Keeping(d)'
  BY DEF NotReplacedInUse, Now
\* An executor is taken.
<1>2. ASSUME NEW c \in Caller, LeaseGranted(c) \/ BindingGranted(c),
             NEW d \in Caller
      PROVE  Keeping(d)'
  <2>1. /\ UNCHANGED <<current, recovery>>
        /\ \E s \in Slot : /\ Running(s)
                           /\ holds' = [holds EXCEPT ![c] = Now(s)]
    BY <1>2 DEF LeaseGranted, BindingGranted, Choosable, Candidates, Compatible, Available,
                Wanted, TypeOK, pool, containers
  <2>2. CASE d = c
    <3>1. PICK s \in Slot : Running(s) /\ holds'[c] = Now(s)
      BY <1>0, <2>1
    <3>2. recovery[s] = "none" /\ Now(s)[1] = s /\ Now(s) = <<s, current[s]>>
      BY <3>1, Nows DEF Recovering, Now
    <3> QED
      BY <2>1, <2>2, <3>1, <3>2
  <2>3. CASE d # c
    BY <1>0, <2>1, <2>3, Undisturbed
  <2> QED
    BY <2>2, <2>3
\* Nobody is under a slot that is scheduled.
<1>3. ASSUME NEW c \in Caller, LeaseWaitsForRecovery(c) \/ BindingWaits(c),
             NEW d \in Caller
      PROVE  Keeping(d)'
  <2>1. Wanted(c) \in SUBSET Slot /\ Schedule(Wanted(c), active, bound)
    BY <1>3 DEF Wanted, TypeOK, LeaseWaitsForRecovery, BindingWaits
  <2>2. UNCHANGED <<current, holds>>
    BY <1>3 DEF LeaseWaitsForRecovery, BindingWaits, pool, containers
  <2>3. ASSUME holds[d] # None PROVE recovery'[holds[d][1]] = recovery[holds[d][1]]
    BY <1>0, <2>1, <2>3, DueUnused, Schedules DEF Asked
  <2> QED
    BY <2>2, <2>3, Undisturbed
<1>4. ASSUME NEW c \in Caller, OperationEnds(c) \/ OperationFailsOver(c),
             NEW d \in Caller
      PROVE  Keeping(d)'
  <2>1. /\ pc[c] = "run" /\ holds[c] \in Executor
        /\ holds' = [holds EXCEPT ![c] = None]
        /\ \A b \in Caller \ {c} : pc'[b] = Woken(pc)[b]
        /\ Schedule({holds[c][1]}, active', bound)
        /\ UNCHANGED <<pool, bound>>
    BY <1>4, OperationOver
  <2>2. CASE d = c
    BY <1>0, <2>1, <2>2
  <2>3. CASE d # c /\ holds[d] # None
    <3> DEFINE e == holds[c]
               s == holds[c][1]
    <3>1. s \in Slot /\ e = Now(s)
      BY <1>0, <2>1, Executors DEF NotReplacedInUse
    <3>2. holds'[d] = holds[d] /\ UNCHANGED current
      BY <1>0, <2>1, <2>3 DEF pool, containers
    <3>3. ASSUME Due(s, active', bound), holds[d][1] = s PROVE FALSE
      <4>1. manager = "started" /\ manager' = "started" /\ s \notin bound /\ active'[e] = 0
        BY <2>1, <3>1, <3>3 DEF Due, CanRecover, pool, containers
      <4>2. holds[d] = e
        BY <2>3, <3>1, <3>3 DEF NotReplacedInUse
      <4>3. pc[d] = "run"
        BY <2>3, <3>3, <4>1 DEF Asked, InUse, Exclusive
      <4>4. d \in Leases(e) \ {c}
        BY <2>3, <4>2, <4>3 DEF Leases
      <4>5. active[e] = Cardinality(Leases(e)) /\ active[e] \in Nat
        BY <2>1, <4>1 DEF Counted, TypeOK
      <4>6. Cardinality(Leases(e) \ {c}) = active[e] - 1
        <5>1. c \in Leases(e)
          BY <2>1 DEF Leases
        <5> QED
          BY <4>5, <5>1, LeasesFinite, FS_RemoveElement
      <4>7. Cardinality(Leases(e) \ {c}) # 0 /\ Cardinality(Leases(e) \ {c}) \in Nat
        <5>1. IsFiniteSet(Leases(e) \ {c})
          BY LeasesFinite, FS_RemoveElement
        <5> QED
          BY <4>4, <5>1, FS_EmptySet, FS_CardinalityType
      <4>8. active'[e] = active[e] - 1
        <5>1. active' = [active EXCEPT ![e] = IF @ > 0 THEN @ - 1 ELSE 0]
          BY <1>4, OperationOver
        <5>2. active[e] > 0
          BY <4>5, <4>6, <4>7
        <5> QED
          BY <2>1, <5>1, <5>2 DEF TypeOK
      <4> QED
        BY <4>1, <4>6, <4>7, <4>8
    <3>4. recovery'[holds[d][1]] = recovery[holds[d][1]]
      <4>1. {s} \in SUBSET Slot /\ Schedule({s}, active', bound)
        BY <2>1, <3>1
      <4>2. \A r \in Slot : \/ r = s /\ Due(r, active', bound)
                           \/ recovery'[r] = recovery[r]
        BY <4>1, Schedules
      <4> QED
        BY <1>0, <2>3, <3>3, <4>2
    <3> QED
      BY <3>2, <3>4, Undisturbed
  <2>4. CASE d # c /\ holds[d] = None
    BY <1>0, <2>1, <2>4
  <2> QED
    BY <2>2, <2>3, <2>4
<1>5. ASSUME NEW c \in Caller, ReleaseBinding(c), NEW d \in Caller
      PROVE  Keeping(d)'
  <2>1. /\ pc[c] = "bound" /\ holds[c] \in Executor
        /\ holds' = [holds EXCEPT ![c] = None]
        /\ \/ manager = "started" /\ Schedule({holds[c][1]}, active, bound')
           \/ UNCHANGED recovery
        /\ UNCHANGED <<pool, active>>
    BY <1>5, SessionOver
  <2>2. CASE d = c
    BY <1>0, <2>1, <2>2
  <2>3. CASE d # c
    <3>1. holds'[d] = holds[d] /\ UNCHANGED current
      BY <1>0, <2>1, <2>3 DEF pool, containers
    <3>2. ASSUME holds[d] # None, manager = "started" PROVE holds[d][1] # holds[c][1]
      <4>1. holds[d] # holds[c]
        BY <2>1, <2>3, <3>2 DEF Exclusive, Asked
      <4> QED
        BY <2>1, <3>2, <4>1, Executors DEF NotReplacedInUse
    <3>3. holds[d] # None => recovery'[holds[d][1]] = recovery[holds[d][1]]
      <4>1. CASE UNCHANGED recovery
        BY <4>1
      <4>2. CASE manager = "started" /\ Schedule({holds[c][1]}, active, bound')
        <5>1. {holds[c][1]} \in SUBSET Slot
          BY <2>1, Executors
        <5>2. \A r \in Slot \ {holds[c][1]} : recovery'[r] = recovery[r]
          BY <4>2, <5>1, Schedules
        <5> QED
          BY <1>0, <3>2, <4>2, <5>2
      <4> QED
        BY <2>1, <4>1, <4>2
    <3> QED
      BY <3>1, <3>3, Undisturbed
  <2> QED
    BY <2>2, <2>3
\* The containers' own steps are about slots under replacement, which nobody holds.
<1>6. ASSUME NEW s \in Slot, Recovery(s), NEW d \in Caller PROVE Keeping(d)'
  <2>1. /\ recovery[s] # "none" /\ holds' = holds
        /\ \A r \in Slot \ {s} : recovery'[r] = recovery[r] /\ current'[r] = current[r]
    BY <1>6 DEF Recovery, StopOld, StartNew, Replaced, NotReplaced, pool, containers, TypeOK
  <2>2. holds[d] # None => holds[d][1] \in Slot \ {s}
    BY <1>0, <2>1 DEF NotReplacedInUse
  <2> QED
    BY <2>1, <2>2, Undisturbed
<1>7. ASSUME UNCHANGED <<holds, current, recovery>>, NEW d \in Caller PROVE Keeping(d)'
  BY <1>7, Undisturbed
<1>8. CASE \/ \E c \in Caller : Requests(c) \/ Quarantine(c) \/ LeaseWaitsForCapacity(c) \/
                                LeaseStopping(c) \/ BindingStopping(c)
           \/ \E S \in SUBSET Slot : Start(S)
           \/ BeginStop \/ EndStop \/ UNCHANGED vars
  BY <1>7, <1>8 DEF Requests, Execute, AcquireBinding, Quarantine, LeaseWaitsForCapacity,
                    LeaseStopping, BindingStopping, Start, BeginStop, EndStop, vars, pool, containers
<1> QED
  BY <1>2, <1>3, <1>4, <1>5, <1>6, <1>8, NextIs DEF Keeps

LEMMA ExclusiveStep ==
    ASSUME TypeOK, Fresh, Asked, Counted, NotReplacedInUse, Exclusive, [Next]_vars
    PROVE  Exclusive'
<1> DEFINE Alone(c) == /\ holds[c][1] \in bound
                       /\ \A d \in Caller : InUse(d) /\ holds[d] = holds[c] => d = c
<1>0. pc \in [Caller -> States] /\ holds \in [Caller -> Executor \cup {None}]
  BY DEF TypeOK, States
<1>1. SUFFICES ASSUME manager' = "started", NEW b \in Caller, pc'[b] = "bound"
               PROVE  Alone(b)'
  BY DEF Exclusive
<1>2. ASSUME manager = "started", pc[b] = "bound"
      PROVE  Alone(b) /\ holds[b] \in Executor
  BY <1>0, <1>2 DEF Exclusive, Asked, InUse
<1>3. CASE Keeps
  <2>1. SameUse
    BY <1>3, UseKept
  <2>2. pc[b] = "bound"
    BY <1>1, <2>1 DEF SameUse
  <2>3. manager # "new"
    BY <2>2 DEF Fresh
  <2>4. manager = "started" /\ bound' = bound
    BY <1>1, <1>3, <2>3 DEF Keeps, Recovery, Start, Requests, Execute, AcquireBinding, Quarantine,
       LeaseWaitsForCapacity, LeaseWaitsForRecovery, LeaseStopping, BindingWaits,
       BindingStopping, StopOld, StartNew, Replaced, NotReplaced, BeginStop, EndStop, vars, pool, containers
  <2> QED
    BY <1>2, <2>1, <2>2, <2>4 DEF SameUse, InUse
<1>4. ASSUME NEW c \in Caller, LeaseGranted(c) PROVE Alone(b)'
  <2>1. PICK s \in Slot : s \in Compatible(c) /\ holds' = [holds EXCEPT ![c] = Now(s)]
    BY <1>4, LeaseTaken
  <2>2. /\ manager = "started" /\ bound' = bound /\ pc[c] = "lease"
        /\ pc' = [pc EXCEPT ![c] = "run"]
    BY <1>4 DEF LeaseGranted
  <2>3. b # c /\ pc[b] = "bound" /\ holds'[b] = holds[b] /\ holds'[c] = Now(s)
    BY <1>0, <1>1, <2>1, <2>2
  <2>4. s \notin bound /\ Now(s)[1] = s
    BY <2>1, Nows DEF Compatible
  <2>5. Alone(b) /\ holds[b] # Now(s)
    BY <1>2, <2>2, <2>3, <2>4
  <2> QED
    BY <1>0, <2>1, <2>2, <2>3, <2>5 DEF InUse
<1>5. ASSUME NEW c \in Caller, BindingGranted(c) PROVE Alone(b)'
  <2>1. PICK s \in Available(c) : bound' = bound \cup {s} /\ holds' = [holds EXCEPT ![c] = Now(s)]
    BY <1>5 DEF BindingGranted
  <2>2. /\ manager = "started" /\ pc[c] = "bind" /\ pc' = [pc EXCEPT ![c] = "bound"]
        /\ s \in Slot /\ s \notin bound /\ active[Now(s)] = 0
    BY <1>5, <2>1 DEF BindingGranted, Available, Wanted, TypeOK
  <2>3. Now(s) \in Executor /\ Now(s)[1] = s
    BY <2>2, Nows
  <2>4. Leases(Now(s)) = {}
    <3>1. Cardinality(Leases(Now(s))) = 0
      BY <2>2, <2>3 DEF Counted
    <3> QED
      BY <3>1, LeasesFinite, FS_EmptySet
  <2>5. ASSUME NEW d \in Caller, InUse(d) PROVE holds[d] # Now(s)
    <3>1. CASE pc[d] = "run"
      BY <2>4, <3>1 DEF Leases
    <3>2. CASE pc[d] = "bound"
      BY <2>2, <2>3, <3>2 DEF Exclusive
    <3> QED
      BY <2>5, <3>1, <3>2 DEF InUse
  <2>6. \A d \in Caller \ {c} : holds'[d] = holds[d] /\ pc'[d] = pc[d]
    BY <1>0, <2>1, <2>2
  <2>7. CASE b = c
    BY <1>0, <2>1, <2>3, <2>5, <2>6, <2>7 DEF InUse
  <2>8. CASE b # c
    <3>1. pc[b] = "bound" /\ Alone(b)
      BY <1>1, <1>2, <2>2, <2>6, <2>8
    <3>2. holds'[c] = Now(s) /\ holds[b] # Now(s)
      BY <1>0, <2>1, <2>5, <3>1 DEF InUse
    <3> QED
      BY <2>1, <2>6, <2>8, <3>1, <3>2 DEF InUse
  <2> QED
    BY <2>7, <2>8
<1>6. ASSUME NEW c \in Caller, OperationEnds(c) \/ OperationFailsOver(c) PROVE Alone(b)'
  <2>1. /\ pc'[c] \in {"done", "lease"} /\ bound' = bound /\ manager' = manager
        /\ holds' = [holds EXCEPT ![c] = None]
        /\ \A d \in Caller \ {c} : pc'[d] = Woken(pc)[d]
    BY <1>6, OperationOver DEF pool, containers
  <2>2. \A d \in Caller \ {c} : holds'[d] = holds[d] /\ (InUse(d)' => pc'[d] = pc[d])
    BY <1>0, <2>1, Wakes DEF InUse
  <2>3. b # c /\ pc[b] = "bound"
    BY <1>1, <2>1, <2>2 DEF InUse
  <2>4. Alone(b)
    BY <1>1, <1>2, <2>1, <2>3
  <2> QED
    BY <2>1, <2>2, <2>3, <2>4 DEF InUse
<1>7. ASSUME NEW c \in Caller, ReleaseBinding(c) PROVE Alone(b)'
  <2>1. /\ pc[c] = "bound" /\ pc'[c] = "done" /\ manager' = manager /\ holds[c] \in Executor
        /\ holds' = [holds EXCEPT ![c] = None]
        /\ bound' = bound \ {holds[c][1]}
        /\ \A d \in Caller \ {c} : pc'[d] = Woken(pc)[d]
    BY <1>1, <1>7, SessionOver DEF pool, containers
  <2>2. \A d \in Caller \ {c} : holds'[d] = holds[d] /\ (InUse(d)' => pc'[d] = pc[d])
    BY <1>0, <2>1, Wakes DEF InUse
  <2>3. b # c /\ pc[b] = "bound"
    BY <1>1, <2>1, <2>2 DEF InUse
  <2>4. Alone(b) /\ holds[b] \in Executor
    BY <1>1, <1>2, <2>1, <2>3
  <2>5. holds[b] # holds[c]
    BY <2>1, <2>3, <2>4 DEF InUse
  <2>6. holds[b][1] # holds[c][1]
    BY <2>1, <2>4, <2>5, Executors DEF NotReplacedInUse
  <2> QED
    BY <2>1, <2>2, <2>3, <2>4, <2>6 DEF InUse
<1> QED
  BY <1>3, <1>4, <1>5, <1>6, <1>7, NextIs

(***************************************************************************)
(* Who waits.                                                              *)
(***************************************************************************)
NobodyWaits == \A c \in Caller : ~Waits(c)

\* A step either wakes everybody, or it is one of those that leave a reason to wait.
LEMMA Notified ==
    ASSUME TypeOK, Asked, WaitsStarted,
           \/ \E c \in Caller : OperationEnds(c) \/ OperationFailsOver(c) \/ ReleaseBinding(c)
           \/ \E s \in Slot : Replaced(s) \/ NotReplaced(s)
           \/ BeginStop \/ EndStop
    PROVE  NobodyWaits'
<1>0. pc \in [Caller -> States]
  BY DEF TypeOK, States
<1>1. ASSUME NEW c \in Caller, OperationEnds(c) \/ OperationFailsOver(c) PROVE NobodyWaits'
  <2>1. pc'[c] \in {"done", "lease"} /\ \A d \in Caller \ {c} : pc'[d] = Woken(pc)[d]
    BY <1>1, OperationOver
  <2> QED
    BY <1>0, <2>1, Wakes DEF NobodyWaits, Waits
<1>2. ASSUME NEW c \in Caller, ReleaseBinding(c) PROVE NobodyWaits'
  <2>1. /\ pc'[c] = "done"
        /\ \/ \A d \in Caller \ {c} : pc'[d] = Woken(pc)[d]
           \/ manager # "started" /\ \A d \in Caller \ {c} : pc'[d] = pc[d]
    BY <1>2, SessionOver
  <2> QED
    BY <1>0, <2>1, Wakes DEF NobodyWaits, Waits, WaitsStarted
<1>3. ASSUME pc' = Woken(pc) PROVE NobodyWaits'
  BY <1>0, <1>3, Wakes DEF NobodyWaits, Waits
<1>4. CASE EndStop
  BY <1>4 DEF EndStop, WaitsStarted, NobodyWaits, Waits
<1> QED
  BY <1>1, <1>2, <1>3, <1>4 DEF Replaced, NotReplaced, BeginStop

\* The steps that wake nobody take no reason to wait away: nothing is lost from the
\* slots, the counts and the replacements under way.
Goes(c) ==
    \/ Requests(c) \/ Quarantine(c) \/ LeaseGranted(c) \/ BindingGranted(c)
    \/ LeaseWaitsForCapacity(c) \/ LeaseWaitsForRecovery(c) \/ LeaseStopping(c)
    \/ BindingWaits(c) \/ BindingStopping(c)

LEMMA ReasonsStay ==
    ASSUME TypeOK, Asked, NEW c \in Caller, Goes(c)
    PROVE  /\ UNCHANGED <<manager, slots, current>>
           /\ \A d \in Caller \ {c} : pc'[d] = pc[d] /\ request'[d] = request[d]
           /\ \A s \in Slot : /\ recovery[s] # "none" => recovery'[s] # "none"
                              /\ active'[Now(s)] >= active[Now(s)]
<1>0. /\ pc \in [Caller -> States] /\ request \in [Caller -> Request \cup {None}]
      /\ active \in [Executor -> Nat]
  BY DEF TypeOK, States
<1>1. OnlySchedules
  BY CallersOnlySchedule DEF Goes, CallerStep, Proceeds
<1>2. \A d \in Caller \ {c} : pc'[d] = pc[d] /\ request'[d] = request[d]
  <2>1. CASE Requests(c) \/ Quarantine(c) \/ LeaseGranted(c) \/ BindingGranted(c)
    BY <1>0, <2>1 DEF Requests, Execute, AcquireBinding, Quarantine, LeaseGranted, BindingGranted
  <2>2. CASE \/ LeaseWaitsForCapacity(c) \/ LeaseWaitsForRecovery(c) \/ LeaseStopping(c)
             \/ BindingWaits(c) \/ BindingStopping(c)
    BY <1>0, <2>2 DEF LeaseWaitsForCapacity, LeaseWaitsForRecovery, LeaseStopping, BindingWaits,
                      BindingStopping, Done
  <2> QED
    BY <2>1, <2>2 DEF Goes
<1>3. \A s \in Slot : active'[Now(s)] >= active[Now(s)]
  <2>1. CASE LeaseGranted(c)
    <3>1. PICK r \in Slot : Now(r) \in Executor /\ active' = [active EXCEPT ![Now(r)] = @ + 1]
      BY <2>1, LeaseTaken
    <3> QED
      BY <1>0, <3>1, Nows
  <2>2. CASE ~LeaseGranted(c)
    <3>1. active' = active
      BY <2>2 DEF Goes, Requests, Execute, AcquireBinding, Quarantine, BindingGranted,
         LeaseWaitsForCapacity, LeaseWaitsForRecovery, LeaseStopping, BindingWaits, BindingStopping
    <3> QED
      BY <1>0, <3>1, Nows
  <2> QED
    BY <2>1, <2>2
<1> QED
  BY <1>1, <1>2, <1>3 DEF OnlySchedules

LEMMA NextByNotice ==
    ASSUME [Next]_vars
    PROVE  \/ \E c \in Caller : \/ Goes(c)
                                \/ OperationEnds(c) \/ OperationFailsOver(c) \/ ReleaseBinding(c)
           \/ \E S \in SUBSET Slot : Start(S)
           \/ \E s \in Slot : StopOld(s) \/ StartNew(s) \/ Replaced(s) \/ NotReplaced(s)
           \/ BeginStop \/ EndStop \/ UNCHANGED vars
BY DEF Next, Proceeds, Goes, Recovery

LEMMA WaitsStartedStep ==
    ASSUME TypeOK, Fresh, Asked, WaitsStarted, [Next]_vars
    PROVE  WaitsStarted'
<1>1. ASSUME NobodyWaits' PROVE WaitsStarted'
  BY <1>1 DEF NobodyWaits, WaitsStarted
<1>2. ASSUME NEW c \in Caller, Goes(c) PROVE WaitsStarted'
  <2>1. manager' = manager /\ \A d \in Caller \ {c} : pc'[d] = pc[d]
    BY <1>2, ReasonsStay
  <2>2. Waits(c)' => manager = "started"
    <3>0. pc \in [Caller -> States]
      BY DEF TypeOK, States
    <3>1. CASE LeaseWaitsForCapacity(c) \/ LeaseWaitsForRecovery(c) \/ BindingWaits(c)
      BY <3>1 DEF LeaseWaitsForCapacity, LeaseWaitsForRecovery, BindingWaits
    <3>2. CASE Requests(c) \/ Quarantine(c) \/ LeaseGranted(c) \/ BindingGranted(c)
      BY <3>0, <3>2 DEF Requests, Execute, AcquireBinding, Quarantine, LeaseGranted,
                        BindingGranted, Waits, WaitsStarted
    <3>3. CASE LeaseStopping(c) \/ BindingStopping(c)
      BY <3>0, <3>3 DEF LeaseStopping, BindingStopping, Done, Waits
    <3> QED
      BY <1>2, <3>1, <3>2, <3>3 DEF Goes
  <2> QED
    BY <2>1, <2>2 DEF WaitsStarted, Waits
<1>3. ASSUME NEW S \in SUBSET Slot, Start(S) PROVE WaitsStarted'
  BY <1>3 DEF Start, Fresh, WaitsStarted, Waits
<1>4. ASSUME NEW s \in Slot, StopOld(s) \/ StartNew(s) PROVE WaitsStarted'
  BY <1>4 DEF StopOld, StartNew, WaitsStarted, Waits
<1>5. CASE UNCHANGED vars
  BY <1>5 DEF vars, pool, containers, WaitsStarted, Waits
<1> QED
  BY <1>1, <1>2, <1>3, <1>4, <1>5, Notified, NextByNotice

LEMMA WaitingStep ==
    ASSUME TypeOK, Fresh, Asked, WaitsStarted, WaitsForSomething, [Next]_vars
    PROVE  WaitsForSomething'
<1> DEFINE Reason(c) == \E s \in Wanted(c) : recovery[s] # "none" \/ active[Now(s)] > 0
<1>0. /\ pc \in [Caller -> States] /\ active \in [Executor -> Nat] /\ slots \subseteq Slot
      /\ MaxConcurrency \in Nat \ {0}
      /\ \A s \in Slot : Now(s) \in Executor /\ active[Now(s)] \in Nat
  BY SandboxAssumption, Nows DEF TypeOK, States
<1>1. ASSUME NobodyWaits' PROVE WaitsForSomething'
  BY <1>1 DEF NobodyWaits, Waits, WaitsForSomething
<1>2. ASSUME NEW c \in Caller, Goes(c) PROVE WaitsForSomething'
  <2>1. /\ UNCHANGED <<manager, slots, current>>
        /\ \A d \in Caller \ {c} : pc'[d] = pc[d] /\ request'[d] = request[d]
        /\ \A s \in Slot : /\ recovery[s] # "none" => recovery'[s] # "none"
                           /\ active'[Now(s)] >= active[Now(s)]
    BY <1>2, ReasonsStay
  <2>2. \A s \in Slot : Now(s)' = Now(s) /\ active'[Now(s)] \in Nat
    <3>1. active' \in [Executor -> Nat]
      BY <1>2, TypeStep DEF TypeOK
    <3> QED
      BY <1>0, <2>1, <3>1 DEF Now
  <2>3. ASSUME NEW d \in Caller, Reason(d), request'[d] = request[d] PROVE Reason(d)'
    <3>1. Wanted(d)' = Wanted(d)
      BY <2>1, <2>3 DEF Wanted
    <3>2. PICK s \in Wanted(d) : recovery[s] # "none" \/ active[Now(s)] > 0
      BY <2>3
    <3>3. s \in Slot
      BY <1>0, <3>2 DEF Wanted
    <3>4. recovery'[s] # "none" \/ active'[Now(s)] > 0
      BY <1>0, <2>1, <2>2, <3>2, <3>3
    <3>5. recovery'[s] # "none" \/ active'[Now(s)'] > 0
      BY <2>2, <3>3, <3>4
    <3> QED
      BY <3>1, <3>2, <3>5
  <2>4. ASSUME NEW d \in Caller \ {c}, Waits(d)' PROVE Reason(d)'
    BY <2>1, <2>3, <2>4 DEF WaitsForSomething, Waits
  <2>5. ASSUME Waits(c)' PROVE Reason(c)'
    <3>1. CASE LeaseWaitsForCapacity(c)
      <4>1. PICK s \in Compatible(c) : s \notin Candidates(c)
        BY <3>1 DEF LeaseWaitsForCapacity
      <4>2. s \in Wanted(c) /\ s \in Slot /\ ~(active[Now(s)] < MaxConcurrency)
        BY <1>0, <4>1 DEF Candidates, Compatible, Wanted
      <4>3. active[Now(s)] > 0
        BY <1>0, <4>2
      <4> QED
        BY <2>3, <3>1, <4>2, <4>3 DEF LeaseWaitsForCapacity
    <3>2. CASE LeaseWaitsForRecovery(c)
      <4>1. /\ pc' # [pc EXCEPT ![c] = "done"] /\ Wanted(c) \in SUBSET Slot
        BY <1>0, <2>5 DEF Waits, Wanted
      <4>2. /\ \E s \in Wanted(c) \ bound : Recovers(s)
            /\ UNCHANGED request /\ Schedule(Wanted(c), active, bound)
        BY <3>2, <4>1 DEF LeaseWaitsForRecovery, Done
      <4>3. PICK s \in Wanted(c) \ bound : Recovers(s)
        BY <4>2
      <4>4. manager = "started" /\ s \in slots
        BY <3>2, <4>3 DEF LeaseWaitsForRecovery, Wanted
      <4>5. recovery'[s] # "none" \/ active[Now(s)] > 0
        <5>1. CASE recovery'[s] # "none"
          BY <5>1
        <5>2. CASE ~Running(s) /\ CanRecover(s, bound) /\ recovery'[s] = "none"
          <6>1. ~Due(s, active, bound) /\ recovery[s] = "none"
            BY <4>1, <4>2, <4>3, <5>2, Schedules
          <6>2. active[Now(s)] # 0
            BY <4>4, <5>2, <6>1 DEF Due
          <6> QED
            BY <1>0, <4>1, <4>3, <6>2
        <5> QED
          BY <4>3, <5>1, <5>2 DEF Recovers
      <4>6. Wanted(c)' = Wanted(c) /\ Now(s)' = Now(s) /\ active' = active
        BY <2>1, <3>2, <4>2 DEF Wanted, LeaseWaitsForRecovery, Now
      <4> QED
        BY <4>3, <4>5, <4>6
    <3>3. CASE BindingWaits(c)
      <4>1. pc' # [pc EXCEPT ![c] = "done"]
        BY <1>0, <2>5 DEF Waits
      <4>2. UNCHANGED request /\ \E s \in Wanted(c) \ bound : recovery'[s] # "none"
        BY <3>3, <4>1 DEF BindingWaits, Done
      <4>3. Wanted(c)' = Wanted(c)
        BY <2>1, <4>2 DEF Wanted
      <4> QED
        BY <4>2, <4>3
    <3>4. CASE Requests(c) \/ LeaseGranted(c) \/ BindingGranted(c) \/ Quarantine(c)
      BY <1>0, <2>5, <3>4 DEF Requests, Execute, AcquireBinding, LeaseGranted, BindingGranted,
                              Quarantine, Waits
    <3>5. CASE LeaseStopping(c) \/ BindingStopping(c)
      BY <1>0, <2>5, <3>5 DEF LeaseStopping, BindingStopping, Done, Waits
    <3> QED
      BY <1>2, <3>1, <3>2, <3>3, <3>4, <3>5 DEF Goes
  <2> QED
    BY <2>4, <2>5 DEF WaitsForSomething, Waits
<1>3. ASSUME NEW S \in SUBSET Slot, Start(S) PROVE WaitsForSomething'
  BY <1>3 DEF Start, Fresh, WaitsForSomething
<1>4. ASSUME NEW s \in Slot, StopOld(s) \/ StartNew(s) PROVE WaitsForSomething'
  <2>1. /\ UNCHANGED <<slots, current, active, pc, request>>
        /\ \A r \in Slot : recovery[r] # "none" => recovery'[r] # "none"
    BY <1>4 DEF StopOld, StartNew, TypeOK
  <2>2. \A c \in Caller : Wanted(c)' = Wanted(c) /\ Wanted(c) \subseteq Slot
    BY <1>0, <2>1 DEF Wanted
  <2>3. \A r \in Slot : Now(r)' = Now(r)
    BY <2>1 DEF Now
  <2> QED
    BY <2>1, <2>2, <2>3 DEF WaitsForSomething
<1>5. CASE UNCHANGED vars
  BY <1>5 DEF vars, pool, containers, WaitsForSomething, Wanted, Now
<1> QED
  BY <1>1, <1>2, <1>3, <1>4, <1>5, Notified, NextByNotice

-----------------------------------------------------------------------------
LEMMA InitIInv == Init => IInv
<1> SUFFICES ASSUME Init PROVE IInv
  OBVIOUS
<1>1. TypeOK
  BY SandboxAssumption DEF Init, TypeOK
<1>2. Fresh /\ Asked
  BY DEF Init, Fresh, Alive, Asked, InUse
<1>3. Generations /\ Recovering /\ UpKnown /\ LeftKnown
  BY DEF Init, Generations, Recovering, UpKnown, LeftKnown
<1>4. Counted
  <2>1. \A e \in Executor : Leases(e) = {}
    BY DEF Init, Leases
  <2>2. Cardinality({}) = 0 /\ MaxConcurrency \in Nat
    BY FS_EmptySet, SandboxAssumption
  <2>3. \A e \in Executor : active[e] = 0
    BY DEF Init
  <2>4. 0 <= MaxConcurrency
    BY <2>2
  <2> QED
    BY <2>1, <2>2, <2>3, <2>4 DEF Counted
<1>5. Exclusive /\ NotReplacedInUse /\ WaitsStarted /\ WaitsForSomething
  BY DEF Init, Exclusive, NotReplacedInUse, WaitsStarted, Waits, WaitsForSomething
<1> QED
  BY <1>1, <1>2, <1>3, <1>4, <1>5 DEF IInv

\* Every step of the manager, its callers and its containers keeps the invariant.
THEOREM Inductive == Spec => []IInv
<1>1. IInv /\ [Next]_vars => IInv'
  BY TypeStep, FreshStep, AskedStep, GenerationsStep, RecoveringStep, UpKnownStep, LeftKnownStep,
     CountedStep, ExclusiveStep, InUseStep, WaitsStartedStep, WaitingStep DEF IInv
<1> QED
  BY <1>1, InitIInv, PTL DEF Spec

\* Type correctness: no slot is restarted beyond its budget.
THEOREM TypeCorrect == Spec => []TypeOK
<1>1. IInv => TypeOK
  BY DEF IInv
<1> QED
  BY <1>1, Inductive, PTL

\* No executor runs more operations than it may, and a session has its executor for
\* itself, however lease_executor and acquire_binding interleave with replacements.
THEOREM KeepsCapacity == Spec => []CapacityRespected
<1>1. IInv => CapacityRespected
  <2> SUFFICES ASSUME IInv, manager = "started", NEW e \in Executor
               PROVE  /\ Cardinality(Leases(e)) <= MaxConcurrency
                      /\ Cardinality(Bindings(e)) <= 1
                      /\ Bindings(e) # {} => Leases(e) = {}
    BY DEF CapacityRespected
  <2>1. Cardinality(Leases(e)) <= MaxConcurrency
    BY DEF IInv, Counted
  <2>2. Cardinality(Bindings(e)) <= 1
    <3>1. CASE Bindings(e) = {}
      BY <3>1, FS_EmptySet
    <3>2. CASE Bindings(e) # {}
      <4>1. PICK c \in Bindings(e) : TRUE
        BY <3>2
      <4>2. Bindings(e) = {c}
        BY <4>1 DEF Bindings, InUse, IInv, Exclusive
      <4>3. Cardinality({c}) = 1
        BY FS_Singleton
      <4>4. Cardinality(Bindings(e)) = 1
        BY <4>2, <4>3
      <4> QED
        BY <4>4
    <3> QED
      BY <3>1, <3>2
  <2>3. Bindings(e) # {} => Leases(e) = {}
    BY DEF Bindings, Leases, InUse, IInv, Exclusive
  <2> QED
    BY <2>1, <2>2, <2>3
<1> QED
  BY <1>1, Inductive, PTL

\* _replace_executor never takes an executor from an operation or a session.
THEOREM NothingInUseReplaced == Spec => []NotReplacedInUse
<1>1. IInv => NotReplacedInUse
  BY DEF IInv
<1> QED
  BY <1>1, Inductive, PTL

\* Whoever waits on _capacity_condition has something to be notified of.
THEOREM NoLostWakeup == Spec => []WaitsForSomething
<1>1. IInv => WaitsForSomething
  BY DEF IInv
<1> QED
  BY <1>1, Inductive, PTL

\* A container that stop, a replacement or a failed start lets go of runs on only when
\* its removal was tried and not confirmed, whatever else fails and in what order.
THEOREM NoneForgotten == Spec => []OnlyUnremovedLeft
<1>1. IInv => OnlyUnremovedLeft
  <2> SUFFICES ASSUME IInv, NEW e \in running \ unremoved
               PROVE  /\ manager # "stopped" /\ e[1] \in slots
                      /\ e = Now(e[1]) \/ (recovery[e[1]] = "up" /\ e[2] = restarts[e[1]])
    BY DEF OnlyUnremovedLeft
  <2>1. e \in up
    BY DEF IInv, LeftKnown
  <2> QED
    BY <2>1 DEF IInv, UpKnown, Fresh, Alive
<1> QED
  BY <1>1, Inductive, PTL
=============================================================================
