---------------------------- MODULE EvalRunProofs ----------------------------
(***************************************************************************)
(* Proofs about EvalRun, for any tasks, instances, workers, budget,        *)
(* attempts and faults: type correctness, that every instance is accounted *)
(* for once, that what is kept on disk is true and agrees, and that the    *)
(* run uses its records as RecordLog has them.                             *)
(***************************************************************************)
EXTENDS EvalRun, FiniteSetTheorems, TLAPS

USE RunAssumption

-----------------------------------------------------------------------------
(* The invariant, one instance or one task at a time.                      *)

Discarding == {"drop", "unlink"}
Before == phase \in {"off", "restore"} \/ (phase \in Discarding /\ fresh)

\* An attempt that has not restored has nothing in hand, and no attempt knows of
\* records that are not on disk before it restores or while it discards them.
Idle ==
    /\ Before =>
          /\ completing = Absent
          /\ queue = {} /\ out = <<>> /\ pending = {} /\ scoring = {} /\ keeping = {}
          /\ \A w \in Worker : worker[w] = "gone" /\ holds[w] = {}
          /\ \A it \in Item : outcome[it] = Absent
          /\ \A t \in Task : result[t] = "none"
    /\ Before \/ phase = "start" => ~exited
    /\ phase \in {"off", "restore"} \cup Discarding => recorded = saved

\* An instance is settled when it is neither pending nor being scored.
Unsettled(it) ==
    /\ it \in pending => outcome[it] = Absent /\ it \notin scoring
    /\ it \in scoring => outcome[it] = Absent

\* A pending instance is in one place, in the item queue, with one worker or at
\* one position of the result queue, and no other instance is in any.
AnswerAt(n, it) == n \in 1 .. Len(out) /\ out[n].item = it
Located(it) ==
    /\ it \in queue => it \in pending
    /\ \A w \in Worker : it \in holds[w] => it \in pending /\ it \notin queue
    /\ \A w, v \in Worker : it \in holds[w] /\ it \in holds[v] => w = v
    /\ \A n \in Nat : AnswerAt(n, it) =>
          it \in pending /\ it \notin queue /\ \A w \in Worker : it \notin holds[w]
    /\ \A n, m \in Nat : AnswerAt(n, it) /\ AnswerAt(m, it) => n = m
    /\ it \in pending =>
          it \in queue \/ (\E w \in Worker : it \in holds[w]) \/ \E n \in Nat : AnswerAt(n, it)

\* Nothing gets lost, but what a SIGTERM in its scoring task loses.
Covered(it) ==
    Processing \/ phase = "start" =>
        outcome[it] # Absent \/ it \in pending \cup scoring \/ sigterm

\* A task has a result when all its instances are settled.
Resulted(t) ==
    /\ result[t] # "none" => \A i \in Idx : outcome[<<t, i>>] # Absent
    /\ result[t] = "pass" => WithinBudget(OutcomesOf(outcome, t))

\* Whose completion is being written, and when.
Completes ==
    completing # Absent =>
        /\ \A i \in Idx : outcome[<<completing.task, i>>] # Absent
        /\ completing.step # "metrics" => result[completing.task] # "none"
        /\ completing.step = "final" => completing.task \in outputs
        /\ phase \in {"restored", "top", "get", "drain", "final", "closed"}

\* What a shutdown spoils is settled after it.
Unspoiled == NothingSpoiled /\ (~sigterm => \A it \in Item : outcome[it] # "spoiled")

\* Of a task that is recorded, the records are the outcomes; what is on disk is
\* known; and a finalized task is done, with a result that agrees with both.
Recorded(t) ==
    \A i \in Idx :
        /\ t \in keeping => recorded[t][i] \in {Absent, outcome[<<t, i>>]}
        /\ saved[t][i] \in {Absent, recorded[t][i]}
Finished(t) ==
    final[t] # Absent =>
        /\ t \in outputs /\ WithinBudget(final[t])
        /\ \A i \in Idx : recorded[t][i] \in {Absent, final[t][i]}
        /\ t \in keeping => result[t] # "none"

\* Records are discarded by --fresh, or when the results are written and all passed.
Entitled ==
    /\ phase = "flush" => ~fresh
    /\ phase = "flush" \/ (phase \in Discarding /\ ~fresh) => metrics /\ Passed

\* Workers that have exited put nothing any more, and the run acts on their exit
\* only at an empty get that follows.
Exits ==
    /\ exited => AllExited
    /\ exited /\ phase = "empty" => out = <<>>
    /\ failure = "exited" => out = <<>> /\ AllExited
    /\ failure # "none" => phase \in {"unwind", "closed"}

ItemInv(it) == Unsettled(it) /\ Located(it) /\ Covered(it)
TaskInv(t) == Resulted(t) /\ Recorded(t) /\ Finished(t)

Inv ==
    /\ TypeOK
    /\ Idle /\ Completes /\ Unspoiled /\ Entitled /\ Exits
    /\ \A it \in Item : ItemInv(it)
    /\ \A t \in Task : TaskInv(t)

-----------------------------------------------------------------------------
(* Instances, messages and outcomes.                                       *)

\* An instance is a task and a position in it.
LEMMA ItemIs ==
    ASSUME NEW it \in Item
    PROVE  it[1] \in Task /\ it[2] \in Idx /\ it = <<it[1], it[2]>>
BY DEF Item

\* A message is about an instance, or it is fatal and about none.
LEMMA MessageKinds ==
    ASSUME NEW m \in Message
    PROVE  \/ m.item \in Item /\ m.kind \in {"ok", "failed", "error"}
           \/ m.item = Absent /\ m.kind = "fatal"
BY DEF Message

\* Absent is none of the values it stands in for.
LEMMA AbsentIsNone ==
    Absent \notin Item /\ Absent \notin Task /\ Absent \notin Outcome /\ Absent \notin Completion
BY DEF Outcome

\* A task that is complete has no instance without an outcome: as many are scored
\* as there are without those that failed.
LEMMA CompleteIsTotal ==
    ASSUME NEW os, Complete(os)
    PROVE  \A i \in Idx : os[i] # Absent
<1> DEFINE S == Which(os, Scored)
           F == Which(os, {"failed", "error"})
<1>1. S \subseteq Idx /\ F \subseteq Idx /\ S \cap F = {}
    BY DEF Which, Scored
<1>2. IsFiniteSet(S) /\ IsFiniteSet(F) /\ IsFiniteSet(S \cup F)
    BY <1>1, FS_Subset, FS_Union
<1>3. Cardinality(S \cup F) = Cardinality(S) + Cardinality(F)
    <2>1. Cardinality(S \cap F) = 0
        BY <1>1, FS_EmptySet
    <2>2. Cardinality(S \cup F) = Cardinality(S) + Cardinality(F) - Cardinality(S \cap F)
        BY <1>2, FS_Union
    <2>3. Cardinality(S) \in Nat /\ Cardinality(F) \in Nat
        BY <1>2, FS_CardinalityType
    <2> HIDE DEF S, F
    <2> QED
        BY <2>1, <2>2, <2>3
<1>4. Cardinality(S) >= Cardinality(Idx) - Cardinality(F)
    BY DEF Complete
<1>5. S \cup F = Idx
    <2>1. S \cup F \subseteq Idx
        BY <1>1
    <2>2. /\ Cardinality(S \cup F) <= Cardinality(Idx)
          /\ Cardinality(S \cup F) = Cardinality(Idx) => S \cup F = Idx
        BY <2>1, FS_Subset
    <2>3. Cardinality(S) \in Nat /\ Cardinality(F) \in Nat /\ Cardinality(Idx) \in Nat
        BY <1>2, FS_CardinalityType
    <2> HIDE DEF S, F
    <2> QED
        BY <1>3, <1>4, <2>2, <2>3
<1>6. \A i \in S \cup F : os[i] \in Outcome
    BY DEF Which, Scored, Outcome
<1> QED
    BY <1>5, <1>6, AbsentIsNone

-----------------------------------------------------------------------------
(* What the composite steps do.                                            *)

\* Settling an instance: it has its outcome, it may be recorded, and recording
\* may stop for its task.
LEMMA SettlingRecords ==
    ASSUME NEW it \in Item, NEW o, NEW by, Settle(it, o, by)
    PROVE  /\ outcome' = [outcome EXCEPT ![it] = o]
           /\ keeping' \in {keeping, keeping \ {it[1]}}
           /\ \/ UNCHANGED recorded
              \/ /\ ~sigterm /\ it[1] \in keeping /\ o \in Kept
                 /\ recorded' = [recorded EXCEPT ![it[1]][it[2]] = o]
           /\ UNCHANGED faults \/ (faults < MaxFaults /\ faults' = faults + 1)
BY DEF Settle, Keep, Append_, Records

\* The completion of a task begins when it is complete and has no result.
LEMMA CheckingCompletes ==
    ASSUME NEW t, NEW oc, NEW by, CheckCompletion(t, OutcomesOf(oc, t), by)
    PROVE  \/ UNCHANGED completing
           \/ /\ result[t] = "none" /\ \A i \in Idx : oc[<<t, i>>] # Absent
              /\ completing' = [task |-> t, by |-> by, step |-> "metrics"]
<1>1. Complete(OutcomesOf(oc, t)) => \A i \in Idx : oc[<<t, i>>] # Absent
    BY CompleteIsTotal DEF OutcomesOf
<1> QED
    BY <1>1 DEF CheckCompletion

\* So it is with the instance's task when it is settled.
LEMMA SettlingCompletes ==
    ASSUME NEW it \in Item, NEW o, NEW by, Settle(it, o, by)
    PROVE  /\ outcome' = [outcome EXCEPT ![it] = o]
           /\ \/ UNCHANGED completing
              \/ /\ result[it[1]] = "none" /\ \A i \in Idx : outcome'[<<it[1], i>>] # Absent
                 /\ completing' = [task |-> it[1], by |-> by, step |-> "metrics"]
<1>1. /\ outcome' = [outcome EXCEPT ![it] = o]
      /\ CheckCompletion(it[1], OutcomesOf(outcome', it[1]), by)
    BY DEF Settle
<1>2. PICK oc : oc = outcome'
    OBVIOUS
<1>3. CheckCompletion(it[1], OutcomesOf(oc, it[1]), by)
    BY <1>1, <1>2
<1>4. \/ UNCHANGED completing
      \/ /\ result[it[1]] = "none" /\ \A i \in Idx : oc[<<it[1], i>>] # Absent
         /\ completing' = [task |-> it[1], by |-> by, step |-> "metrics"]
    BY <1>3, CheckingCompletes
<1> QED
    BY <1>1, <1>2, <1>4

\* And with a task that is due.
LEMMA Completing ==
    ASSUME NEW t \in Task, CompleteDue(t)
    PROVE  /\ phase \in {"restored", "final"} /\ completing = Absent
           /\ result[t] = "none" /\ \A i \in Idx : outcome[<<t, i>>] # Absent
           /\ completing' = [task |-> t, by |-> "main", step |-> "metrics"]
           /\ UNCHANGED <<phase, fresh, sigterm, failure, exited, work, books, lock, recorded, disk,
                          attempts, faults>>
<1>1. Complete(OutcomesOf(outcome, t)) => \A i \in Idx : outcome[<<t, i>>] # Absent
    BY CompleteIsTotal DEF OutcomesOf
<1> QED
    BY <1>1 DEF CompleteDue, At, Due, CheckCompletion

\* Once the metrics are computed, the task has its result.
LEMMA Computing ==
    ASSUME TypeOK, ComputeMetrics
    PROVE  /\ completing # Absent /\ completing.task \in Task /\ completing.step = "metrics"
           /\ \E v \in {"pass", "over"} :
                 /\ result' = [result EXCEPT ![completing.task] = v]
                 /\ v = "pass" => WithinBudget(OutcomesOf(outcome, completing.task))
           /\ completing' \in Completion
           /\ completing'.task = completing.task /\ completing'.step = "outputs"
           /\ UNCHANGED <<phase, fresh, sigterm, failure, exited, work, pending, scoring, outcome,
                          keeping, metrics, lock, recorded, disk, attempts, faults>>
<1>1. completing \in Completion /\ completing # Absent /\ completing.step = "metrics"
    BY DEF ComputeMetrics, TypeOK
<1>2. completing' = [completing EXCEPT !.step = "outputs"]
    BY DEF ComputeMetrics
<1>3. /\ completing.task \in Task /\ completing' \in Completion
      /\ completing'.task = completing.task /\ completing'.step = "outputs"
    BY <1>1, <1>2 DEF Completion
<1> QED
    BY <1>1, <1>3 DEF ComputeMetrics

\* Receiving a message: it is fatal, or about a pending instance, which is now
\* scored or settled.  No answer comes a second time.
LEMMA Receiving ==
    ASSUME TypeOK, \A it \in Item : Located(it), Receive
    PROVE  /\ phase = "get" /\ completing = Absent /\ out # <<>> /\ out' = Tail(out)
           /\ UNCHANGED <<fresh, sigterm, exited, queue, worker, holds, result, metrics, lock, disk,
                          attempts>>
           /\ \/ /\ Head(out).kind = "fatal" /\ Head(out).item = Absent /\ Raise("fatal")
                 /\ UNCHANGED <<completing, pending, scoring, outcome, keeping, recorded, faults>>
              \/ \E x \in pending :
                    /\ Head(out).item = x /\ x \in Item
                    /\ phase' = "top" /\ UNCHANGED failure
                    /\ pending' = pending \ {x}
                    /\ \/ /\ scoring' = scoring \cup {x}
                          /\ UNCHANGED <<completing, outcome, keeping, recorded, faults>>
                       \/ /\ UNCHANGED scoring
                          /\ \E o \in {"failed", "error"} : Settle(x, o, "main")
<1> DEFINE m == Head(out)
<1>1. phase = "get" /\ completing = Absent /\ out # <<>> /\ out \in Seq(Message)
    BY DEF Receive, At, TypeOK
<1>2. m \in Message /\ Len(out) \in Nat \ {0} /\ m = out[1]
    BY <1>1
<1>3. \/ m.item \in Item /\ m.kind \in {"ok", "failed", "error"}
      \/ m.item = Absent /\ m.kind = "fatal"
    BY <1>2, MessageKinds
<1>4. m.item \in Item => m.item \in pending
    <2>1. 1 \in Nat /\ 1 \in 1 .. Len(out)
        BY <1>2
    <2>2. AnswerAt(1, m.item)
        BY <1>2, <2>1 DEF AnswerAt
    <2> QED
        BY <2>1, <2>2 DEF Located
<1> HIDE DEF m
<1> QED
    BY <1>1, <1>3, <1>4 DEF Receive, At, m

\* A step of a discard takes records away, and changes none.
LEMMA Dropped ==
    ASSUME TypeOK, Idle, Drop
    PROVE  /\ phase = "drop" /\ phase' \in {"drop", "unlink"}
           /\ recorded' = saved' /\ saved' \in Records_
           /\ \A t \in Task, i \in Idx : saved'[t][i] \in {Absent, saved[t][i]}
<1>1. phase = "drop" /\ recorded = saved
    BY DEF Drop, Idle, Discarding
<1>2. saved \in Records_
    BY DEF TypeOK
<1>3. CASE phase' = "unlink" /\ UNCHANGED <<saved, recorded>>
    BY <1>1, <1>2, <1>3
<1>4. ASSUME NEW items, saved' = Without(items), recorded' = saved', UNCHANGED phase
      PROVE  /\ saved' \in Records_
             /\ \A t \in Task, i \in Idx : saved'[t][i] \in {Absent, saved[t][i]}
    BY <1>2, <1>4 DEF Without, Records_
<1> QED
    BY <1>1, <1>3, <1>4 DEF Drop

-----------------------------------------------------------------------------
(* Type correctness.                                                       *)

PhaseName == Phases
Failure == {"none", "fatal", "duplicate", "exited", "died", "sigterm", "io", "budget"}
WorkerState == {"init", "run", "gone", "died", "jammed"}
Verdict == {"none", "pass", "over"}

\* TypeOK, with its sets named.
Typing ==
    /\ phase \in PhaseName /\ fresh \in BOOLEAN
    /\ completing \in Completion \cup {Absent}
    /\ sigterm \in BOOLEAN /\ exited \in BOOLEAN
    /\ failure \in Failure
    /\ queue \subseteq Item /\ pending \subseteq Item /\ scoring \subseteq Item
    /\ worker \in [Worker -> WorkerState]
    /\ holds \in [Worker -> SUBSET Item]
    /\ out \in Seq(Message)
    /\ outcome \in [Item -> Outcome \cup {Absent}]
    /\ result \in [Task -> Verdict]
    /\ keeping \subseteq Task /\ metrics \in BOOLEAN /\ lock \in BOOLEAN
    /\ recorded \in Records_ /\ saved \in Records_
    /\ outputs \subseteq Task
    /\ final \in [Task -> [Idx -> Outcome] \cup {Absent}]
    /\ attempts \in 0 .. MaxAttempts /\ faults \in 0 .. MaxFaults

\* It says the same.
LEMMA TypeNames == TypeOK <=> Typing
BY DEF TypeOK, Typing, PhaseName, Failure, WorkerState, Verdict

\* The values the steps assign are in these sets.
LEMMA Members ==
    /\ "off" \in PhaseName /\ "drop" \in PhaseName /\ "unlink" \in PhaseName /\
       "restore" \in PhaseName /\ "start" \in PhaseName /\ "restored" \in PhaseName /\
       "top" \in PhaseName /\ "get" \in PhaseName /\ "empty" \in PhaseName /\
       "health" \in PhaseName /\ "drain" \in PhaseName /\ "final" \in PhaseName /\
       "write" \in PhaseName /\ "flush" \in PhaseName /\ "unwind" \in PhaseName /\
       "closed" \in PhaseName
    /\ "none" \in Failure /\ "fatal" \in Failure /\ "duplicate" \in Failure /\
       "exited" \in Failure /\ "died" \in Failure /\ "sigterm" \in Failure /\
       "io" \in Failure /\ "budget" \in Failure
    /\ "init" \in WorkerState /\ "run" \in WorkerState /\ "gone" \in WorkerState /\
       "died" \in WorkerState /\ "jammed" \in WorkerState
    /\ "none" \in Verdict /\ "pass" \in Verdict /\ "over" \in Verdict
BY DEF PhaseName, Phases, Failure, WorkerState, Verdict

\* Settling an instance keeps the types of what it changes.
LEMMA SettlingIsTyped ==
    ASSUME Typing, NEW it \in Item, NEW o \in Outcome, NEW by \in {"main", "scoring"},
           Settle(it, o, by)
    PROVE  /\ outcome' \in [Item -> Outcome \cup {Absent}]
           /\ completing' \in Completion \cup {Absent} /\ keeping' \subseteq Task
           /\ recorded' \in Records_ /\ faults' \in 0 .. MaxFaults
<1>1. it[1] \in Task /\ it[2] \in Idx
    BY ItemIs
<1>s. /\ outcome' = [outcome EXCEPT ![it] = o] /\ keeping' \in {keeping, keeping \ {it[1]}}
      /\ UNCHANGED faults \/ (faults < MaxFaults /\ faults' = faults + 1)
    BY SettlingRecords
<1>2. outcome' \in [Item -> Outcome \cup {Absent}] /\ keeping' \subseteq Task
    BY <1>s DEF Typing
<1>3. recorded' \in Records_
    <2> DEFINE R == {"ok", "failed", "spoiled", Absent}
    <2>1. recorded \in [Task -> [Idx -> R]] /\ Kept \subseteq R
        BY DEF Typing, Records_, Kept
    <2> HIDE DEF R
    <2>2. o \in Kept => [recorded EXCEPT ![it[1]][it[2]] = o] \in [Task -> [Idx -> R]]
        BY <1>1, <2>1
    <2>3. \/ UNCHANGED recorded
          \/ o \in Kept /\ recorded' = [recorded EXCEPT ![it[1]][it[2]] = o]
        BY SettlingRecords
    <2>4. recorded' \in [Task -> [Idx -> R]]
        BY <2>1, <2>2, <2>3
    <2> QED
        BY <2>4 DEF R, Records_
<1>4. completing' \in Completion \cup {Absent}
    BY <1>1, SettlingCompletes DEF Typing, Completion
<1>5. faults' \in 0 .. MaxFaults
    BY <1>s DEF Typing
<1> QED
    BY <1>2, <1>3, <1>4, <1>5

\* Every step keeps the types; a finalized result says something of every instance
\* because its task has a result.
LEMMA TypeKept == Inv /\ [Next]_vars => TypeOK'
<1> SUFFICES ASSUME Inv, [Next]_vars PROVE TypeOK'
    OBVIOUS
<1>a. Typing
    BY TypeNames DEF Inv
<1>b. TypeOK /\ \A it \in Item : Located(it)
    BY DEF Inv, ItemInv
<1>i. Idle
    BY DEF Inv
<1>c. \A t \in Task : Resulted(t)
    BY DEF Inv, TaskInv
<1> USE DEF Typing
<1>1. ASSUME NEW f \in BOOLEAN, Start(f) PROVE Typing'
    BY <1>a, <1>1, Members DEF Start, work, books, disk
<1>2. ASSUME Restore PROVE Typing'
  <2>1. Finalized \subseteq Task /\ \A t \in Finalized : final[t] \in [Idx -> Outcome]
    BY <1>a DEF Finalized
  <2>2. Restored \in [Item -> Outcome \cup {Absent}]
    <3>1. \A it \in Item : Restored[it] \in Outcome \cup {Absent}
      <4> SUFFICES ASSUME NEW it \in Item PROVE Restored[it] \in Outcome \cup {Absent}
        OBVIOUS
      <4>1. it[1] \in Task /\ it[2] \in Idx
        BY ItemIs
      <4>2. saved[it[1]][it[2]] \in {"ok", "failed", "spoiled", Absent}
        BY <1>a, <4>1 DEF Records_
      <4>3. CASE it[1] \in Finalized
        BY <2>1, <4>1, <4>3 DEF Restored
      <4>4. CASE it[1] \notin Finalized
        BY <4>2, <4>4 DEF Restored, Outcome, Scored
      <4> QED
        BY <4>3, <4>4
    <3> QED
      BY <3>1 DEF Restored
  <2>3. ToRun \subseteq Item
    BY DEF ToRun
  <2>4. result' \in [Task -> Verdict]
    BY <1>2, Members DEF Restore
  <2>5. worker' \in [Worker -> WorkerState]
    BY <1>2, Members DEF Restore, Workers
  <2> QED
    BY <1>a, <1>2, <2>2, <2>3, <2>4, <2>5, Members DEF Restore, disk
<1>3. ASSUME OpenGate PROVE Typing'
    BY <1>a, <1>3, Members DEF OpenGate, Workers, books, disk
<1>4. ASSUME StartFails PROVE Typing'
    BY <1>a, <1>4, Members DEF StartFails, Raise, work, books, disk
<1>5. ASSUME NEW t0 \in Task, CompleteDue(t0) PROVE Typing'
  <2>1. completing' \in Completion \cup {Absent}
    BY <1>a, <1>5, Completing DEF Completion
  <2> QED
    BY <1>a, <1>5, <2>1, Completing DEF work, books, disk
<1>6. ASSUME NoneDue PROVE Typing'
    BY <1>a, <1>6, Members DEF NoneDue, At, Due, work, books, disk
<1>7. ASSUME Top PROVE Typing'
    BY <1>a, <1>7, Members DEF Top, At, Raise, work, books, disk
<1>8. ASSUME Receive PROVE Typing'
  <2>o. out # <<>> /\ out' = Tail(out)
    BY <1>b, <1>8, Receiving
  <2>1. out' \in Seq(Message)
    BY <1>a, <2>o
  <2>2. CASE /\ Raise("fatal")
             /\ UNCHANGED <<completing, pending, scoring, outcome, keeping, recorded, faults>>
    BY <1>a, <1>b, <1>8, <2>1, <2>2, Receiving, Members DEF Raise, disk
  <2>3. ASSUME NEW x \in Item, phase' = "top" /\ UNCHANGED failure, pending' = pending \ {x},
               \/ /\ scoring' = scoring \cup {x}
                  /\ UNCHANGED <<completing, outcome, keeping, recorded, faults>>
               \/ /\ UNCHANGED scoring
                  /\ \E o \in {"failed", "error"} : Settle(x, o, "main")
        PROVE  Typing'
    <3>1. /\ outcome' \in [Item -> Outcome \cup {Absent}]
          /\ completing' \in Completion \cup {Absent} /\ keeping' \subseteq Task
          /\ recorded' \in Records_ /\ faults' \in 0 .. MaxFaults
      <4>1. "failed" \in Outcome /\ "error" \in Outcome
        BY DEF Outcome
      <4> QED
        BY <1>a, <2>3, <4>1, SettlingIsTyped
    <3> QED
      BY <1>a, <1>b, <1>8, <2>1, <2>3, <3>1, Receiving, Members DEF disk
  <2> QED
    BY <1>a, <1>b, <1>8, <2>2, <2>3, Receiving
<1>9. ASSUME Empty PROVE Typing'
    BY <1>a, <1>9, Members DEF Empty, At, work, books, disk
<1>10. ASSUME NoAnswer PROVE Typing'
  <2>1. exited' \in BOOLEAN
    BY <1>a, <1>10 DEF NoAnswer, AllExited
  <2> QED
    BY <1>a, <1>10, <2>1, Members DEF NoAnswer, Raise, work, books, disk
<1>11. ASSUME CheckWorkersAlive PROVE Typing'
  <2>1. out' \in Seq(Message)
    <3>1. out # <<>> => Tail(out) \in Seq(Message) /\ Head(out) \in Message
      BY <1>a
    <3>2. out # <<>> => Append(Tail(out), Head(out)) \in Seq(Message)
      BY <3>1
    <3> QED
      BY <1>a, <1>11, <3>1, <3>2 DEF CheckWorkersAlive, PutBack
  <2> QED
    BY <1>a, <1>11, <2>1, Members DEF CheckWorkersAlive, At, Raise, books, disk
<1>12. ASSUME NEW x \in Item, NEW o \in Scored, Score(x, o) PROVE Typing'
  <2>1. Settle(x, o, "scoring") /\ o \in Outcome
    BY <1>12 DEF Score, Outcome
  <2>2. /\ outcome' \in [Item -> Outcome \cup {Absent}]
        /\ completing' \in Completion \cup {Absent} /\ keeping' \subseteq Task
        /\ recorded' \in Records_ /\ faults' \in 0 .. MaxFaults
    BY <1>a, <2>1, SettlingIsTyped
  <2> QED
    BY <1>a, <1>12, <2>2 DEF Score, work, disk
<1>13. ASSUME WriteOutputs PROVE Typing'
  <2>1. completing \in Completion /\ completing.task \in Task
    BY <1>a, <1>13 DEF WriteOutputs, Completion
  <2>2. completing' \in Completion
    BY <1>13, <2>1 DEF WriteOutputs, Completion
  <2> QED
    BY <1>a, <1>13, <2>1, <2>2 DEF WriteOutputs, work, books
<1>m. ASSUME ComputeMetrics PROVE Typing'
  <2>1. result' \in [Task -> Verdict] /\ completing' \in Completion
    BY <1>a, <1>b, <1>m, Computing, Members
  <2> QED
    BY <1>a, <1>b, <1>m, <2>1, Computing DEF work, disk
<1>14. ASSUME CompletionFails PROVE Typing'
    BY <1>a, <1>14, Members DEF CompletionFails, Raise, work, books, disk
<1>15. ASSUME WriteFinal PROVE Typing'
  <2>1. completing \in Completion /\ completing.task \in Task
    BY <1>a, <1>15 DEF WriteFinal, Completion
  <2>2. Finalizes(completing.task) =>
          OutcomesOf(outcome, completing.task) \in [Idx -> Outcome]
    <3> SUFFICES ASSUME Finalizes(completing.task), NEW i \in Idx
                 PROVE  outcome[<<completing.task, i>>] \in Outcome
      BY DEF OutcomesOf
    <3>1. outcome[<<completing.task, i>>] # Absent
      BY <1>c, <2>1 DEF Finalizes, Resulted
    <3> QED
      BY <1>a, <2>1, <3>1 DEF Item
  <2>3. final' \in [Task -> [Idx -> Outcome] \cup {Absent}] /\ faults' \in 0 .. MaxFaults
    BY <1>a, <1>15, <2>1, <2>2 DEF WriteFinal
  <2> QED
    BY <1>a, <1>15, <2>3 DEF WriteFinal, work, books
<1>16. ASSUME Drained PROVE Typing'
    BY <1>a, <1>16, Members DEF Drained, At, Raise, work, books, disk
<1>17. ASSUME WriteResults PROVE Typing'
  <2>1. worker' \in [Worker -> WorkerState]
    BY <1>a, <1>17, Members DEF WriteResults, Workers
  <2>2. metrics' \in BOOLEAN
    BY <1>a, <1>17 DEF WriteResults
  <2>4. faults' \in 0 .. MaxFaults
    BY <1>a, <1>17 DEF WriteResults
  <2>3. phase' \in PhaseName /\ failure' \in Failure
    BY <1>a, <1>17, Members DEF WriteResults, Raise
  <2> QED
    BY <1>a, <1>17, <2>1, <2>2, <2>3, <2>4 DEF WriteResults, disk
<1>18. ASSUME Flush PROVE Typing'
    BY <1>a, <1>18, Members DEF Flush, loop, work, books
<1>19. ASSUME BeginDiscard PROVE Typing'
    BY <1>a, <1>19, Members DEF BeginDiscard, Flushed, work, books, disk
<1>20. ASSUME Drop PROVE Typing'
  <2>1. saved' \in Records_ /\ recorded' \in Records_ /\ phase' \in PhaseName
    BY <1>b, <1>i, <1>20, Dropped, Members
  <2> QED
    BY <1>a, <1>20, <2>1 DEF Drop, work, books
<1>21. ASSUME Unlink PROVE Typing'
    BY <1>a, <1>21, Members DEF Unlink, work, books
<1>22. ASSUME DropFails PROVE Typing'
    BY <1>a, <1>22, Members DEF DropFails, Raise, work, books, disk
<1>23. ASSUME Close PROVE Typing'
  <2>1. worker' \in [Worker -> WorkerState]
    BY <1>a, <1>23, Members DEF Close, Workers
  <2>2. faults' \in 0 .. MaxFaults
    BY <1>a, <1>23 DEF Close, Flushed
  <2> QED
    BY <1>a, <1>23, <2>1, <2>2, Members DEF Close, books, disk
<1>24. ASSUME End PROVE Typing'
  <2>1. worker' \in [Worker -> WorkerState] /\ holds' \in [Worker -> SUBSET Item]
    BY <1>24, Members DEF End, Workers
  <2>2. outcome' \in [Item -> Outcome \cup {Absent}] /\ result' \in [Task -> Verdict]
    BY <1>24, Members DEF End, NoOutcomes
  <2>3. out' \in Seq(Message)
    BY <1>24 DEF End
  <2> QED
    BY <1>a, <1>24, <2>1, <2>2, <2>3, Members DEF End, disk
<1>25. ASSUME Sigterm PROVE Typing'
    BY <1>a, <1>25, Members DEF Sigterm, At, Raise, work, disk
<1>26. ASSUME NEW w \in Worker, NEW x \in Item, Take(w, x) PROVE Typing'
    BY <1>a, <1>26, Members DEF Take, loop, books, disk
<1>27. ASSUME NEW w \in Worker, NEW x \in Item, NEW kind \in {"ok", "failed", "error"}, Answer(w, x, kind)
       PROVE Typing'
  <2>1. [item |-> x, kind |-> kind] \in Message
    BY DEF Message
  <2>2. out' \in Seq(Message)
    BY <1>a, <1>27, <2>1 DEF Answer
  <2>3. holds' \in [Worker -> SUBSET Item]
    BY <1>a, <1>27 DEF Answer
  <2> QED
    BY <1>a, <1>27, <2>2, <2>3 DEF Answer, loop, books, disk
<1>28. ASSUME NEW w \in Worker, PoisonPill(w) PROVE Typing'
    BY <1>a, <1>28, Members DEF PoisonPill, loop, books, disk
<1>29. ASSUME NEW w \in Worker, NEW reports \in BOOLEAN, Die(w, reports) PROVE Typing'
  <2>1. [item |-> Absent, kind |-> "fatal"] \in Message
    BY DEF Message
  <2>2. out' \in Seq(Message)
    BY <1>a, <1>29, <2>1 DEF Die
  <2>3. worker' \in [Worker -> WorkerState]
    BY <1>a, <1>29, Members DEF Die
  <2> QED
    BY <1>a, <1>29, <2>2, <2>3 DEF Die, loop, books, disk
<1>j. ASSUME NEW w \in Worker, Jam(w) PROVE Typing'
    BY <1>a, <1>j, Members DEF Jam, loop, books, disk
<1>30. ASSUME UNCHANGED vars PROVE Typing'
    BY <1>a, <1>30 DEF vars, loop, work, books, disk
<1>31. Typing'
    BY <1>m, <1>j, <1>1, <1>2, <1>3, <1>4, <1>5, <1>6, <1>7, <1>8, <1>9, <1>10, <1>11, <1>12, <1>13, <1>14,
       <1>15, <1>16, <1>17, <1>18, <1>19, <1>20, <1>21, <1>22, <1>23, <1>24, <1>25, <1>26, <1>27,
       <1>28, <1>29, <1>30 DEF Next, Scoring, Work, Exit, Kill
<1> QED
    BY <1>31 DEF TypeOK, PhaseName, Failure, WorkerState, Verdict

-----------------------------------------------------------------------------
(* Each part is kept.                                                      *)

\* What the steps need of the types.
Typed ==
    /\ DOMAIN outcome = Item /\ DOMAIN result = Task /\ DOMAIN final = Task
    /\ DOMAIN holds = Worker /\ DOMAIN worker = Worker
    /\ DOMAIN recorded = Task /\ \A t \in Task : DOMAIN recorded[t] = Idx
    /\ DOMAIN saved = Task /\ \A t \in Task : DOMAIN saved[t] = Idx
    /\ out \in Seq(Message) /\ completing \in Completion \cup {Absent}
    /\ queue \subseteq Item /\ pending \subseteq Item /\ scoring \subseteq Item
    /\ keeping \subseteq Task
    /\ fresh \in BOOLEAN /\ sigterm \in BOOLEAN /\ exited \in BOOLEAN /\ metrics \in BOOLEAN

\* They follow from the type invariant.
LEMMA TypesGiven == TypeOK => Typed
BY DEF TypeOK, Typed, Records_

\* An instance stays located when messages move, as long as its own answer stays.
LEMMA MovedStaysLocated ==
    ASSUME NEW it, Located(it), UNCHANGED <<queue, holds>>, it \in pending' <=> it \in pending,
           (\E n \in Nat : AnswerAt(n, it)') <=> \E n \in Nat : AnswerAt(n, it),
           \A n, m \in Nat : AnswerAt(n, it)' /\ AnswerAt(m, it)' => n = m
    PROVE  Located(it)'
BY DEF Located

\* Where an answer is when the first message has been taken.
LEMMA TailMoves ==
    ASSUME out \in Seq(Message), out # <<>>, out' = Tail(out), NEW it, NEW n \in Nat
    PROVE  AnswerAt(n, it)' <=> n # 0 /\ AnswerAt(n + 1, it)
<1>1. Len(out) \in Nat \ {0} /\ Len(out') = Len(out) - 1
    OBVIOUS
<1>2. n \in 1 .. Len(out') => out'[n] = out[n + 1]
    <2>1. n \in 1 .. Len(Tail(out)) => Tail(out)[n] = out[n + 1]
        OBVIOUS
    <2> QED
        BY <2>1
<1> QED
    BY <1>1, <1>2 DEF AnswerAt

\* And when it has been put back at the end.
LEMMA PutBackMoves ==
    ASSUME out \in Seq(Message), out # <<>>, out' = Append(Tail(out), Head(out)),
           NEW it, NEW n \in Nat
    PROVE  AnswerAt(n, it)' <=>
             \/ n \in 1 .. (Len(out) - 1) /\ AnswerAt(n + 1, it)
             \/ n = Len(out) /\ AnswerAt(1, it)
<1>1. Len(out) \in Nat \ {0} /\ Len(out') = Len(out)
    OBVIOUS
<1>2. n \in 1 .. (Len(out) - 1) => out'[n] = out[n + 1]
    <2>1. n \in 1 .. (Len(out) - 1) => Append(Tail(out), Head(out))[n] = out[n + 1]
        OBVIOUS
    <2> QED
        BY <2>1
<1>3. out'[Len(out)] = out[1]
    <2>1. Append(Tail(out), Head(out))[Len(out)] = out[1]
        OBVIOUS
    <2> QED
        BY <2>1
<1> QED
    BY <1>1, <1>2, <1>3 DEF AnswerAt

\* Every step keeps an attempt that has not restored empty-handed.
LEMMA IdleKept ==
    ASSUME Inv, [Next]_vars
    PROVE  Idle'
<1>a. Typed /\ Idle /\ Entitled
    BY TypesGiven DEF Inv, ItemInv, TaskInv
<1>b. TypeOK /\ \A x \in Item : Located(x)
    BY DEF Inv, ItemInv
<1> USE DEF Typed, Idle, Before, Discarding
<1>1. ASSUME NEW f \in BOOLEAN, Start(f) PROVE Idle'
    BY <1>a, <1>1 DEF Start, work, books, disk
<1>2. ASSUME Restore PROVE Idle'
    BY <1>a, <1>2 DEF Restore, ToRun, Restored, Finalized, Workers, disk
<1>3. ASSUME OpenGate PROVE Idle'
    BY <1>a, <1>3 DEF OpenGate, Workers, books, disk
<1>4. ASSUME StartFails PROVE Idle'
    BY <1>a, <1>4 DEF StartFails, Raise, work, books, disk
<1>5. ASSUME NEW t0 \in Task, CompleteDue(t0) PROVE Idle'
    BY <1>a, <1>5, Completing DEF work, disk
<1>6. ASSUME NoneDue PROVE Idle'
    BY <1>a, <1>6 DEF NoneDue, At, Due, work, books, disk
<1>7. ASSUME Top PROVE Idle'
    BY <1>a, <1>7 DEF Top, At, Raise, work, books, disk
<1>8. ASSUME Receive PROVE Idle'
    BY <1>a, <1>8, <1>b, Receiving DEF Raise, disk
<1>9. ASSUME Empty PROVE Idle'
    BY <1>a, <1>9 DEF Empty, At, work, books, disk
<1>10. ASSUME NoAnswer PROVE Idle'
    BY <1>a, <1>10 DEF NoAnswer, At, Raise, ExitSeen, work, books, disk
<1>11. ASSUME CheckWorkersAlive PROVE Idle'
    BY <1>a, <1>11 DEF CheckWorkersAlive, At, Raise, PutBack, books, disk
<1>12. ASSUME NEW x \in Item, NEW o \in Scored, Score(x, o) PROVE Idle'
    BY <1>a, <1>12 DEF Score, At, Settle, work, disk
<1>13. ASSUME WriteOutputs PROVE Idle'
    BY <1>a, <1>13 DEF WriteOutputs, work, books
<1>14. ASSUME CompletionFails PROVE Idle'
    BY <1>a, <1>14 DEF CompletionFails, Raise, work, books, disk
<1>15. ASSUME WriteFinal PROVE Idle'
    BY <1>a, <1>15 DEF WriteFinal, Finalizes, work, books
<1>16. ASSUME Drained PROVE Idle'
    BY <1>a, <1>16 DEF Drained, At, Raise, work, books, disk
<1>17. ASSUME WriteResults PROVE Idle'
    BY <1>a, <1>17 DEF WriteResults, Raise, Discards, Passed, disk
<1>18. ASSUME Flush PROVE Idle'
    BY <1>a, <1>18 DEF Flush, loop, work, books
<1>19. ASSUME BeginDiscard PROVE Idle'
  <2>1. ~Before /\ ~Before' /\ phase' # "start" /\ recorded' = saved'
    BY <1>a, <1>19 DEF BeginDiscard, disk, Entitled
  <2> QED
    BY <2>1
<1>20. ASSUME Drop PROVE Idle'
  <2>1. phase = "drop" /\ phase' \in {"drop", "unlink"} /\ recorded' = saved'
    BY <1>a, <1>b, <1>20, Dropped
  <2>2. UNCHANGED <<fresh, completing, exited, work, books>>
    BY <1>20 DEF Drop
  <2> QED
    BY <1>a, <2>1, <2>2 DEF work, books
<1>21. ASSUME Unlink PROVE Idle'
    BY <1>a, <1>21 DEF Unlink, work, books
<1>22. ASSUME DropFails PROVE Idle'
    BY <1>a, <1>22 DEF DropFails, Raise, work, books, disk
<1>23. ASSUME Close PROVE Idle'
    BY <1>a, <1>23 DEF Close, Flushed, books, disk
<1>24. ASSUME End PROVE Idle'
    BY <1>a, <1>24 DEF End, Workers, NoOutcomes, disk
<1>25. ASSUME Sigterm PROVE Idle'
    BY <1>a, <1>25 DEF Sigterm, At, Raise, work, disk
<1>26. ASSUME NEW w \in Worker, NEW x \in Item, Take(w, x) PROVE Idle'
    BY <1>a, <1>26 DEF Take, loop, books, disk
<1>27. ASSUME NEW w \in Worker, NEW x \in Item, NEW kind \in {"ok", "failed", "error"}, Answer(w, x, kind)
       PROVE Idle'
    BY <1>a, <1>27 DEF Answer, loop, books, disk
<1>28. ASSUME NEW w \in Worker, PoisonPill(w) PROVE Idle'
    BY <1>a, <1>28 DEF PoisonPill, loop, books, disk
<1>29. ASSUME NEW w \in Worker, NEW reports \in BOOLEAN, Die(w, reports) PROVE Idle'
    BY <1>a, <1>29 DEF Die, loop, books, disk
<1>30. ASSUME UNCHANGED vars PROVE Idle'
    BY <1>a, <1>30 DEF vars, loop, work, books, disk
<1>m. ASSUME ComputeMetrics PROVE Idle'
    BY <1>a, <1>m DEF ComputeMetrics, work, disk
<1>j. ASSUME NEW w \in Worker, Jam(w) PROVE Idle'
    BY <1>a, <1>j DEF Jam, loop, books, disk
<1> HIDE DEF Typed, Idle, Before, Discarding
<1> QED
    BY <1>m, <1>j, <1>1, <1>2, <1>3, <1>4, <1>5, <1>6, <1>7, <1>8, <1>9, <1>10, <1>11, <1>12, <1>13, <1>14,
       <1>15, <1>16, <1>17, <1>18, <1>19, <1>20, <1>21, <1>22, <1>23, <1>24, <1>25, <1>26, <1>27,
       <1>28, <1>29, <1>30 DEF Next, Scoring, Work, Exit, Kill

\* Every step keeps what a completion has behind it.
LEMMA CompletesKept ==
    ASSUME Inv, [Next]_vars
    PROVE  Completes'
<1>a. Typed /\ Completes
    BY TypesGiven DEF Inv, ItemInv, TaskInv
<1>b. TypeOK /\ \A x \in Item : Located(x)
    BY DEF Inv, ItemInv
<1> USE DEF Typed, Completes
<1>1. ASSUME NEW f \in BOOLEAN, Start(f) PROVE Completes'
    BY <1>a, <1>1 DEF Start, work, books, disk
<1>2. ASSUME Restore PROVE Completes'
    BY <1>a, <1>2 DEF Restore, ToRun, Restored, Finalized, Workers, disk
<1>3. ASSUME OpenGate PROVE Completes'
    BY <1>a, <1>3 DEF OpenGate, Workers, books, disk
<1>4. ASSUME StartFails PROVE Completes'
    BY <1>a, <1>4 DEF StartFails, Raise, work, books, disk
<1>5. ASSUME NEW t0 \in Task, CompleteDue(t0) PROVE Completes'
    BY <1>a, <1>5, Completing DEF work, books, disk
<1>6. ASSUME NoneDue PROVE Completes'
    BY <1>a, <1>6 DEF NoneDue, At, Due, work, books, disk
<1>7. ASSUME Top PROVE Completes'
    BY <1>a, <1>7 DEF Top, At, Raise, work, books, disk
<1>8. ASSUME Receive PROVE Completes'
  <2>1. /\ phase = "get" /\ completing = Absent /\ out # <<>> /\ out' = Tail(out)
        /\ UNCHANGED <<fresh, sigterm, exited, queue, worker, holds, result, metrics, lock, disk,
                       attempts>>
    BY <1>b, <1>8, Receiving
  <2>2. CASE /\ phase' = "unwind"
             /\ UNCHANGED <<completing, pending, scoring, outcome, keeping, recorded, faults>>
    BY <1>a, <2>1, <2>2 DEF disk
  <2>3. ASSUME NEW x \in Item, x \in pending, phase' = "top", pending' = pending \ {x},
               scoring' = scoring \cup {x},
               UNCHANGED <<completing, outcome, keeping, recorded, faults>>
        PROVE  Completes'
    BY <1>a, <2>1, <2>3 DEF disk
  <2>4. ASSUME NEW x \in Item, x \in pending, phase' = "top", pending' = pending \ {x},
               UNCHANGED scoring, NEW o, o \in {"failed", "error"}, Settle(x, o, "main")
        PROVE  Completes'
    <3>1. x[1] \in Task /\ x[2] \in Idx /\ x = <<x[1], x[2]>>
      BY ItemIs
    <3>2. /\ outcome' = [outcome EXCEPT ![x] = o]
          /\ \/ UNCHANGED completing
             \/ /\ result[x[1]] = "none" /\ \A i \in Idx : outcome'[<<x[1], i>>] # Absent
                /\ completing' = [task |-> x[1], by |-> "main", step |-> "metrics"]
      BY <2>1, <2>4, SettlingCompletes
    <3> QED
      BY <1>a, <2>1, <2>4, <3>1, <3>2 DEF disk
  <2> QED
    BY <1>b, <1>8, <2>2, <2>3, <2>4, Receiving DEF Raise
<1>9. ASSUME Empty PROVE Completes'
    BY <1>a, <1>9 DEF Empty, At, work, books, disk
<1>10. ASSUME NoAnswer PROVE Completes'
    BY <1>a, <1>10 DEF NoAnswer, At, Raise, ExitSeen, work, books, disk
<1>11. ASSUME CheckWorkersAlive PROVE Completes'
    BY <1>a, <1>11 DEF CheckWorkersAlive, At, Raise, PutBack, books, disk
<1>12. ASSUME NEW x \in Item, NEW o \in Scored, Score(x, o) PROVE Completes'
  <2>a. /\ phase \in {"get", "drain", "closed"} /\ completing = Absent /\ x \in scoring
        /\ o = "spoiled" => sigterm
        /\ scoring' = scoring \ {x} /\ Settle(x, o, "scoring")
        /\ UNCHANGED <<phase, fresh, sigterm, failure, exited, work, pending, result, metrics, lock,
                       disk>>
    BY <1>12 DEF Score, At
  <2>1. x[1] \in Task /\ x[2] \in Idx /\ x = <<x[1], x[2]>>
    BY ItemIs
  <2>2. /\ outcome' = [outcome EXCEPT ![x] = o]
        /\ \/ UNCHANGED completing
           \/ /\ result[x[1]] = "none" /\ \A i \in Idx : outcome'[<<x[1], i>>] # Absent
              /\ completing' = [task |-> x[1], by |-> "scoring", step |-> "metrics"]
    BY <2>a, SettlingCompletes
  <2> QED
    BY <1>a, <2>a, <2>1, <2>2 DEF disk
<1>13. ASSUME WriteOutputs PROVE Completes'
    BY <1>a, <1>13 DEF WriteOutputs, work, books
<1>14. ASSUME CompletionFails PROVE Completes'
    BY <1>a, <1>14 DEF CompletionFails, Raise, work, books, disk
<1>15. ASSUME WriteFinal PROVE Completes'
    BY <1>a, <1>15 DEF WriteFinal, Finalizes, work, books
<1>16. ASSUME Drained PROVE Completes'
    BY <1>a, <1>16 DEF Drained, At, Raise, work, books, disk
<1>17. ASSUME WriteResults PROVE Completes'
    BY <1>a, <1>17 DEF WriteResults, Raise, Discards, Passed, disk
<1>18. ASSUME BeginDiscard PROVE Completes'
    BY <1>a, <1>18 DEF BeginDiscard, Flushed, work, books, disk
<1>19. ASSUME Drop PROVE Completes'
    BY <1>a, <1>19 DEF Drop, work, books
<1>20. ASSUME Unlink PROVE Completes'
    BY <1>a, <1>20 DEF Unlink, work, books
<1>21. ASSUME DropFails PROVE Completes'
    BY <1>a, <1>21 DEF DropFails, Raise, work, books, disk
<1>22. ASSUME Close PROVE Completes'
    BY <1>a, <1>22 DEF Close, Flushed, books, disk
<1>23. ASSUME End PROVE Completes'
    BY <1>a, <1>23 DEF End, Workers, NoOutcomes, disk
<1>24. ASSUME Sigterm PROVE Completes'
    BY <1>a, <1>24 DEF Sigterm, At, Raise, work, disk
<1>25. ASSUME
              Flush \/ (\E w \in Worker, x \in Item : Take(w, x))
              \/ (\E w \in Worker, x \in Item, kind \in {"ok", "failed", "error"} : Answer(w, x, kind))
              \/ (\E w \in Worker : PoisonPill(w)) \/ (\E w \in Worker : Jam(w))
              \/ (\E w \in Worker, reports \in BOOLEAN : Die(w, reports))
      PROVE  Completes'
  <2>1. UNCHANGED <<phase, completing, outcome, result, outputs>>
    BY <1>25 DEF Flush, Take, Answer, PoisonPill, Die, Jam, loop, work, books, disk
  <2> QED
    BY <1>a, <2>1
<1>26. ASSUME UNCHANGED vars PROVE Completes'
    BY <1>a, <1>26 DEF vars, loop, work, books, disk
<1>m. ASSUME ComputeMetrics PROVE Completes'
  <2>1. /\ completing # Absent /\ completing.task \in Task /\ completing'.task = completing.task
        /\ completing'.step = "outputs" /\ UNCHANGED <<phase, outcome>>
    BY <1>b, <1>m, Computing
  <2>2. result'[completing.task] # "none"
    BY <1>a, <1>b, <1>m, <2>1, Computing
  <2> QED
    BY <1>a, <2>1, <2>2
<1> HIDE DEF Typed, Completes
<1> QED
    BY <1>m, <1>1, <1>2, <1>3, <1>4, <1>5, <1>6, <1>7, <1>8, <1>9, <1>10, <1>11, <1>12, <1>13, <1>14,
       <1>15, <1>16, <1>17, <1>18, <1>19, <1>20, <1>21, <1>22, <1>23, <1>24, <1>25, <1>26
      DEF Next, Scoring, Work, Exit, Kill

\* No step keeps what a shutdown spoiled.
LEMMA UnspoiledKept ==
    ASSUME Inv, [Next]_vars
    PROVE  Unspoiled'
<1>a. Typed /\ Unspoiled
    BY TypesGiven DEF Inv, ItemInv, TaskInv
<1>b. TypeOK /\ \A x \in Item : Located(x)
    BY DEF Inv, ItemInv
<1>i. Idle
    BY DEF Inv
<1> USE DEF Typed, Unspoiled, NothingSpoiled
<1>1. ASSUME Restore PROVE Unspoiled'
  <2>1. /\ outcome' = Restored /\ pending' = ToRun /\ queue' = ToRun
        /\ phase = "restore" /\ phase' = "start"
        /\ result' = [u \in Task |-> IF u \in Finalized THEN "pass" ELSE "none"]
        /\ keeping' = IF fresh THEN {} ELSE Task \ Finalized
        /\ UNCHANGED <<fresh, sigterm, holds, out, scoring, recorded, saved, outputs, final>>
    BY <1>1 DEF Restore, disk

  <2>2. \A x \in Item : outcome'[x] # "spoiled"
    <3> SUFFICES ASSUME NEW x \in Item PROVE Restored[x] # "spoiled"
      BY <2>1
    <3>1. x[1] \in Task /\ x[2] \in Idx
      BY ItemIs
    <3>2. Absent # "spoiled"
      BY AbsentIsNone DEF Outcome, Scored
    <3>3. x[1] \in Finalized => final[x[1]] # Absent
      BY DEF Finalized
    <3> QED
      BY <1>a, <3>1, <3>2, <3>3 DEF Restored
  <2> QED
    BY <1>a, <2>1, <2>2
<1>2. ASSUME Receive PROVE Unspoiled'
  <2>1. /\ phase = "get" /\ completing = Absent /\ out # <<>> /\ out' = Tail(out)
        /\ UNCHANGED <<fresh, sigterm, exited, queue, worker, holds, result, metrics, lock, disk,
                       attempts>>
    BY <1>b, <1>2, Receiving
  <2>2. CASE /\ phase' = "unwind"
             /\ UNCHANGED <<completing, pending, scoring, outcome, keeping, recorded, faults>>
    BY <1>a, <2>1, <2>2 DEF disk
  <2>3. ASSUME NEW x \in Item, x \in pending, phase' = "top", pending' = pending \ {x},
               scoring' = scoring \cup {x},
               UNCHANGED <<completing, outcome, keeping, recorded, faults>>
        PROVE  Unspoiled'
    BY <1>a, <2>1, <2>3 DEF disk
  <2>4. ASSUME NEW x \in Item, x \in pending, phase' = "top", pending' = pending \ {x},
               UNCHANGED scoring, NEW o, o \in {"failed", "error"}, Settle(x, o, "main")
        PROVE  Unspoiled'
    <3>1. x[1] \in Task /\ x[2] \in Idx /\ x = <<x[1], x[2]>>
      BY ItemIs
    <3>2. /\ outcome' = [outcome EXCEPT ![x] = o] /\ keeping' \in {keeping, keeping \ {x[1]}}
          /\ \/ UNCHANGED recorded
             \/ /\ ~sigterm /\ x[1] \in keeping /\ o \in Kept
                /\ recorded' = [recorded EXCEPT ![x[1]][x[2]] = o]
      BY <2>1, <2>4, SettlingRecords
    <3>3. (o = "spoiled" => sigterm) /\ UNCHANGED <<sigterm, saved, final>>
      BY <2>1, <2>4 DEF disk
    <3>4. \A t \in Task, i \in Idx : recorded'[t][i] # "spoiled"
      BY <1>a, <3>1, <3>2, <3>3
    <3>5. ~sigterm => \A y \in Item : outcome'[y] # "spoiled"
      BY <1>a, <3>2, <3>3
    <3> QED
      BY <1>a, <3>3, <3>4, <3>5
  <2> QED
    BY <1>b, <1>2, <2>2, <2>3, <2>4, Receiving DEF Raise
<1>3. ASSUME NEW x \in Item, NEW o \in Scored, Score(x, o) PROVE Unspoiled'
  <2>a. /\ phase \in {"get", "drain", "closed"} /\ completing = Absent /\ x \in scoring
        /\ o = "spoiled" => sigterm
        /\ scoring' = scoring \ {x} /\ Settle(x, o, "scoring")
        /\ UNCHANGED <<phase, fresh, sigterm, failure, exited, work, pending, result, metrics, lock,
                       disk>>
    BY <1>3 DEF Score, At
  <2>1. x[1] \in Task /\ x[2] \in Idx /\ x = <<x[1], x[2]>>
    BY ItemIs
  <2>2. /\ outcome' = [outcome EXCEPT ![x] = o] /\ keeping' \in {keeping, keeping \ {x[1]}}
        /\ \/ UNCHANGED recorded
           \/ /\ ~sigterm /\ x[1] \in keeping /\ o \in Kept
              /\ recorded' = [recorded EXCEPT ![x[1]][x[2]] = o]
    BY <2>a, SettlingRecords
  <2>3. (o = "spoiled" => sigterm) /\ UNCHANGED <<sigterm, saved, final>>
    BY <2>a DEF disk
  <2>4. \A t \in Task, i \in Idx : recorded'[t][i] # "spoiled"
    BY <1>a, <2>1, <2>2, <2>3
  <2>5. ~sigterm => \A y \in Item : outcome'[y] # "spoiled"
    BY <1>a, <2>2, <2>3
  <2> QED
    BY <1>a, <2>3, <2>4, <2>5
<1>4. ASSUME WriteFinal PROVE Unspoiled'
  <2>1. completing \in Completion /\ completing.task \in Task
    BY <1>a, <1>4 DEF WriteFinal, Completion
  <2>2. \/ final' = final
        \/ /\ ~sigterm
           /\ final' = [final EXCEPT ![completing.task] = OutcomesOf(outcome, completing.task)]
    BY <1>4 DEF WriteFinal, Finalizes
  <2>3. ~sigterm => \A i \in Idx : OutcomesOf(outcome, completing.task)[i] # "spoiled"
    BY <1>a, <2>1 DEF OutcomesOf, Item
  <2>4. UNCHANGED <<outcome, recorded, saved, sigterm>>
    BY <1>4 DEF WriteFinal, books
  <2> QED
    BY <1>a, <2>1, <2>2, <2>3, <2>4
<1>5. ASSUME Flush PROVE Unspoiled'
    BY <1>a, <1>5 DEF Flush, loop, work, books
<1>6. ASSUME BeginDiscard PROVE Unspoiled'
    BY <1>a, <1>6 DEF BeginDiscard, Flushed, work, books, disk
<1>7. ASSUME Drop PROVE Unspoiled'
  <2>1. \A t \in Task, i \in Idx : saved'[t][i] \in {Absent, saved[t][i]} /\ recorded' = saved'
    BY <1>b, <1>i, <1>7, Dropped
  <2>2. Absent # "spoiled"
    BY AbsentIsNone DEF Outcome, Scored
  <2>3. UNCHANGED <<outcome, sigterm, final>>
    BY <1>7 DEF Drop, books
  <2> QED
    BY <1>a, <2>1, <2>2, <2>3
<1>8. ASSUME Unlink PROVE Unspoiled'
    BY <1>a, <1>8 DEF Unlink, work, books
<1>9. ASSUME End PROVE Unspoiled'
  <2>1. \A x \in Item : outcome'[x] = Absent
    BY <1>9 DEF End, NoOutcomes
  <2>2. Absent # "spoiled"
    BY AbsentIsNone DEF Outcome, Scored
  <2> QED
    BY <1>a, <1>9, <2>1, <2>2 DEF End, disk
<1>10. ASSUME Sigterm PROVE Unspoiled'
    BY <1>a, <1>10 DEF Sigterm, At, Raise, work, disk
<1>11. ASSUME
              (\E f \in BOOLEAN : Start(f)) \/ OpenGate \/ StartFails
              \/ (\E t0 \in Task : CompleteDue(t0)) \/ NoneDue \/ Top \/ Empty \/ NoAnswer
              \/ CheckWorkersAlive \/ ComputeMetrics \/ WriteOutputs \/ CompletionFails \/ Drained
              \/ WriteResults \/ DropFails \/ Close
              \/ (\E w \in Worker, x \in Item : Take(w, x))
              \/ (\E w \in Worker, x \in Item, kind \in {"ok", "failed", "error"} : Answer(w, x, kind))
              \/ (\E w \in Worker : PoisonPill(w)) \/ (\E w \in Worker : Jam(w))
              \/ (\E w \in Worker, reports \in BOOLEAN : Die(w, reports))
      PROVE  Unspoiled'
  <2>1. UNCHANGED <<outcome, recorded, saved, final, sigterm>>
    BY <1>11 DEF Start, OpenGate, StartFails, CompleteDue, NoneDue, Top, Empty, NoAnswer,
        CheckWorkersAlive, ComputeMetrics, WriteOutputs, CompletionFails, Drained, WriteResults,
        DropFails, Close, Take, Answer, PoisonPill, Die, Jam, work, books, disk, loop
  <2> QED
    BY <1>a, <2>1
<1>12. ASSUME UNCHANGED vars PROVE Unspoiled'
    BY <1>a, <1>12 DEF vars, loop, work, books, disk
<1> HIDE DEF Typed, Unspoiled, NothingSpoiled
<1> QED
    BY <1>1, <1>2, <1>3, <1>4, <1>5, <1>6, <1>7, <1>8, <1>9, <1>10, <1>11, <1>12
       DEF Next, Scoring, Work, Exit, Kill

\* No step goes on to discard records that are needed.
LEMMA EntitledKept ==
    ASSUME Inv, [Next]_vars
    PROVE  Entitled'
<1>a. Typed /\ Entitled /\ Completes
    BY TypesGiven DEF Inv, ItemInv, TaskInv
<1>b. TypeOK /\ \A x \in Item : Located(x)
    BY DEF Inv, ItemInv
<1> USE DEF Typed, Entitled, Discarding, Passed
<1>1. ASSUME NEW f \in BOOLEAN, Start(f) PROVE Entitled'
    BY <1>a, <1>1 DEF Start, work, books, disk
<1>2. ASSUME Restore PROVE Entitled'
    BY <1>a, <1>2 DEF Restore, ToRun, Restored, Finalized, Workers, disk
<1>3. ASSUME OpenGate PROVE Entitled'
    BY <1>a, <1>3 DEF OpenGate, Workers, books, disk
<1>4. ASSUME StartFails PROVE Entitled'
    BY <1>a, <1>4 DEF StartFails, Raise, work, books, disk
<1>5. ASSUME NEW t0 \in Task, CompleteDue(t0) PROVE Entitled'
    BY <1>a, <1>5, Completing DEF work, disk
<1>6. ASSUME NoneDue PROVE Entitled'
    BY <1>a, <1>6 DEF NoneDue, At, Due, work, books, disk
<1>7. ASSUME Top PROVE Entitled'
    BY <1>a, <1>7 DEF Top, At, Raise, work, books, disk
<1>8. ASSUME Receive PROVE Entitled'
    BY <1>a, <1>8, <1>b, Receiving DEF Raise, disk
<1>9. ASSUME Empty PROVE Entitled'
    BY <1>a, <1>9 DEF Empty, At, work, books, disk
<1>10. ASSUME NoAnswer PROVE Entitled'
    BY <1>a, <1>10 DEF NoAnswer, At, Raise, ExitSeen, work, books, disk
<1>11. ASSUME CheckWorkersAlive PROVE Entitled'
    BY <1>a, <1>11 DEF CheckWorkersAlive, At, Raise, PutBack, books, disk
<1>12. ASSUME NEW x \in Item, NEW o \in Scored, Score(x, o) PROVE Entitled'
    BY <1>a, <1>12 DEF Score, At, Settle, work, disk
<1>13. ASSUME CompletionFails PROVE Entitled'
    BY <1>a, <1>13 DEF CompletionFails, Raise, work, books, disk
<1>14. ASSUME Drained PROVE Entitled'
    BY <1>a, <1>14 DEF Drained, At, Raise, work, books, disk
<1>15. ASSUME WriteResults PROVE Entitled'
    BY <1>a, <1>15 DEF WriteResults, Raise, Discards, disk
<1>16. ASSUME BeginDiscard PROVE Entitled'
    BY <1>a, <1>16 DEF BeginDiscard, Flushed, work, books, disk
<1>17. ASSUME Drop PROVE Entitled'
    BY <1>a, <1>17 DEF Drop, work, books
<1>18. ASSUME Unlink PROVE Entitled'
    BY <1>a, <1>18 DEF Unlink, work, books
<1>19. ASSUME DropFails PROVE Entitled'
    BY <1>a, <1>19 DEF DropFails, Raise, work, books, disk
<1>20. ASSUME Close PROVE Entitled'
    BY <1>a, <1>20 DEF Close, Flushed, books, disk
<1>21. ASSUME End PROVE Entitled'
    BY <1>a, <1>21 DEF End, Workers, NoOutcomes, disk
<1>22. ASSUME Sigterm PROVE Entitled'
    BY <1>a, <1>22 DEF Sigterm, At, Raise, work, disk
<1>23. ASSUME
              WriteOutputs \/ WriteFinal \/ Flush \/ (\E w \in Worker, x \in Item : Take(w, x))
              \/ (\E w \in Worker, x \in Item, kind \in {"ok", "failed", "error"} : Answer(w, x, kind))
              \/ (\E w \in Worker : PoisonPill(w)) \/ (\E w \in Worker : Jam(w))
              \/ (\E w \in Worker, reports \in BOOLEAN : Die(w, reports))
      PROVE  Entitled'
  <2>1. UNCHANGED <<phase, fresh, metrics, result>>
    BY <1>23 DEF WriteOutputs, WriteFinal, Flush, Take, Answer, PoisonPill, Die, Jam, work, books,
        loop, disk
  <2> QED
    BY <1>a, <2>1
<1>24. ASSUME UNCHANGED vars PROVE Entitled'
    BY <1>a, <1>24 DEF vars, loop, work, books, disk
<1>m. ASSUME ComputeMetrics PROVE Entitled'
  <2>1. phase \notin {"drop", "unlink", "flush"} /\ UNCHANGED <<phase, fresh, metrics>>
    BY <1>a, <1>m DEF ComputeMetrics, Completes
  <2> QED
    BY <1>a, <2>1
<1> HIDE DEF Typed, Entitled, Discarding, Passed
<1> QED
    BY <1>m, <1>1, <1>2, <1>3, <1>4, <1>5, <1>6, <1>7, <1>8, <1>9, <1>10, <1>11, <1>12, <1>13, <1>14,
       <1>15, <1>16, <1>17, <1>18, <1>19, <1>20, <1>21, <1>22, <1>23, <1>24
      DEF Next, Scoring, Work, Exit, Kill

\* Every step keeps what an exit of all workers means.
LEMMA ExitsKept ==
    ASSUME Inv, [Next]_vars
    PROVE  Exits'
<1>a. Typed /\ Exits /\ Idle
    BY TypesGiven DEF Inv, ItemInv, TaskInv
<1>b. TypeOK /\ \A x \in Item : Located(x)
    BY DEF Inv, ItemInv
<1> USE DEF Typed, Exits, AllExited
<1>1. ASSUME NEW f \in BOOLEAN, Start(f) PROVE Exits'
    BY <1>a, <1>1 DEF Start, work, books, disk
<1>2. ASSUME Restore PROVE Exits'
  <2>1. ~exited /\ failure = "none" /\ phase' = "start" /\ UNCHANGED <<exited, failure>>
    BY <1>a, <1>2 DEF Restore, Idle, Before
  <2> QED
    BY <2>1
<1>3. ASSUME OpenGate PROVE Exits'
  <2>1. ~exited /\ failure = "none" /\ phase' = "restored" /\ UNCHANGED <<exited, failure>>
    BY <1>a, <1>3 DEF OpenGate, Idle
  <2> QED
    BY <2>1
<1>4. ASSUME StartFails PROVE Exits'
    BY <1>a, <1>4 DEF StartFails, Raise, work, books, disk
<1>5. ASSUME NoneDue PROVE Exits'
    BY <1>a, <1>5 DEF NoneDue, At, Due, work, books, disk
<1>6. ASSUME Top PROVE Exits'
    BY <1>a, <1>6 DEF Top, At, Raise, work, books, disk
<1>7. ASSUME Receive PROVE Exits'
    BY <1>a, <1>7, <1>b, Receiving DEF Raise, disk
<1>8. ASSUME Empty PROVE Exits'
    BY <1>a, <1>8 DEF Empty, At, work, books, disk
<1>9. ASSUME NoAnswer PROVE Exits'
    BY <1>a, <1>9 DEF NoAnswer, At, Raise, ExitSeen, work, books, disk
<1>10. ASSUME CheckWorkersAlive PROVE Exits'
    BY <1>a, <1>10 DEF CheckWorkersAlive, At, Raise, PutBack, books, disk
<1>11. ASSUME CompletionFails PROVE Exits'
    BY <1>a, <1>11 DEF CompletionFails, Raise, work, books, disk
<1>12. ASSUME Drained PROVE Exits'
    BY <1>a, <1>12 DEF Drained, At, Raise, work, books, disk
<1>13. ASSUME WriteResults PROVE Exits'
    BY <1>a, <1>13 DEF WriteResults, Workers, Raise, Discards, Passed, disk
<1>14. ASSUME BeginDiscard PROVE Exits'
    BY <1>a, <1>14 DEF BeginDiscard, Flushed, work, books, disk
<1>15. ASSUME Drop PROVE Exits'
    BY <1>a, <1>15 DEF Drop, work, books
<1>16. ASSUME Unlink PROVE Exits'
    BY <1>a, <1>16 DEF Unlink, work, books
<1>17. ASSUME DropFails PROVE Exits'
    BY <1>a, <1>17 DEF DropFails, Raise, work, books, disk
<1>18. ASSUME Close PROVE Exits'
    BY <1>a, <1>18 DEF Close, Workers, Flushed, books, disk
<1>19. ASSUME End PROVE Exits'
    BY <1>a, <1>19 DEF End, Workers, NoOutcomes, disk
<1>20. ASSUME Sigterm PROVE Exits'
    BY <1>a, <1>20 DEF Sigterm, At, Raise, work, disk
<1>21. ASSUME NEW w \in Worker, NEW x \in Item, NEW kind \in {"ok", "failed", "error"}, Answer(w, x, kind)
       PROVE Exits'
    BY <1>a, <1>21 DEF Answer, loop, books, disk
<1>22. ASSUME NEW w \in Worker, PoisonPill(w) PROVE Exits'
    BY <1>a, <1>22 DEF PoisonPill, loop, books, disk
<1>23. ASSUME NEW w \in Worker, NEW reports \in BOOLEAN, Die(w, reports) PROVE Exits'
    BY <1>a, <1>23 DEF Die, loop, books, disk
<1>24. ASSUME
              (\E t0 \in Task : CompleteDue(t0)) \/ (\E x \in Item, o \in Scored : Score(x, o))
              \/ ComputeMetrics \/ WriteOutputs \/ WriteFinal \/ Flush
              \/ (\E w \in Worker, x \in Item : Take(w, x))
      PROVE  Exits'
  <2>1. UNCHANGED <<exited, phase, out, failure, worker>>
    BY <1>24 DEF CompleteDue, Score, ComputeMetrics, WriteOutputs, WriteFinal, Flush, Take, work,
        disk, books, loop
  <2> QED
    BY <1>a, <2>1
<1>25. ASSUME UNCHANGED vars PROVE Exits'
    BY <1>a, <1>25 DEF vars, loop, work, books, disk
<1>j. ASSUME NEW w \in Worker, Jam(w) PROVE Exits'
    BY <1>a, <1>j DEF Jam, loop, books, disk
<1> HIDE DEF Typed, Exits, AllExited
<1> QED
    BY <1>j, <1>1, <1>2, <1>3, <1>4, <1>5, <1>6, <1>7, <1>8, <1>9, <1>10, <1>11, <1>12, <1>13, <1>14,
       <1>15, <1>16, <1>17, <1>18, <1>19, <1>20, <1>21, <1>22, <1>23, <1>24, <1>25
      DEF Next, Scoring, Work, Exit, Kill

\* Every step keeps apart what is pending, being scored and settled.
LEMMA UnsettledKept ==
    ASSUME Inv, [Next]_vars, NEW it \in Item
    PROVE  Unsettled(it)'
<1>a. Typed /\ Unsettled(it)
    BY TypesGiven DEF Inv, ItemInv, TaskInv
<1>b. TypeOK /\ \A x \in Item : Located(x)
    BY DEF Inv, ItemInv
<1>i. Idle
    BY DEF Inv
<1> USE DEF Typed, Unsettled
<1>1. ASSUME Restore PROVE Unsettled(it)'
  <2>1. /\ outcome' = Restored /\ pending' = ToRun /\ queue' = ToRun
        /\ phase = "restore" /\ phase' = "start"
        /\ result' = [u \in Task |-> IF u \in Finalized THEN "pass" ELSE "none"]
        /\ keeping' = IF fresh THEN {} ELSE Task \ Finalized
        /\ UNCHANGED <<fresh, sigterm, holds, out, scoring, recorded, saved, outputs, final>>
    BY <1>1 DEF Restore, disk

  <2>2. scoring = {}
    BY <1>i, <2>1 DEF Idle, Before
  <2> QED
    BY <2>1, <2>2 DEF ToRun
<1>2. ASSUME Receive PROVE Unsettled(it)'
  <2>1. /\ phase = "get" /\ completing = Absent /\ out # <<>> /\ out' = Tail(out)
        /\ UNCHANGED <<fresh, sigterm, exited, queue, worker, holds, result, metrics, lock, disk,
                       attempts>>
    BY <1>b, <1>2, Receiving
  <2>2. CASE /\ phase' = "unwind"
             /\ UNCHANGED <<completing, pending, scoring, outcome, keeping, recorded, faults>>
    BY <1>a, <2>1, <2>2 DEF disk
  <2>3. ASSUME NEW x \in Item, x \in pending, phase' = "top", pending' = pending \ {x},
               scoring' = scoring \cup {x},
               UNCHANGED <<completing, outcome, keeping, recorded, faults>>
        PROVE  Unsettled(it)'
    BY <1>a, <2>1, <2>3 DEF disk
  <2>4. ASSUME NEW x \in Item, x \in pending, phase' = "top", pending' = pending \ {x},
               UNCHANGED scoring, NEW o, o \in {"failed", "error"}, Settle(x, o, "main")
        PROVE  Unsettled(it)'
    <3>1. x[1] \in Task /\ x[2] \in Idx /\ x = <<x[1], x[2]>>
      BY ItemIs
    <3>2. outcome' = [outcome EXCEPT ![x] = o]
      BY <2>1, <2>4 DEF Settle
    <3> QED
      BY <1>a, <2>1, <2>4, <3>1, <3>2 DEF disk
  <2> QED
    BY <1>b, <1>2, <2>2, <2>3, <2>4, Receiving DEF Raise
<1>3. ASSUME NEW x \in Item, NEW o \in Scored, Score(x, o) PROVE Unsettled(it)'
  <2>a. /\ phase \in {"get", "drain", "closed"} /\ completing = Absent /\ x \in scoring
        /\ o = "spoiled" => sigterm
        /\ scoring' = scoring \ {x} /\ Settle(x, o, "scoring")
        /\ UNCHANGED <<phase, fresh, sigterm, failure, exited, work, pending, result, metrics, lock,
                       disk>>
    BY <1>3 DEF Score, At
  <2>1. x[1] \in Task /\ x[2] \in Idx /\ x = <<x[1], x[2]>>
    BY ItemIs
  <2>2. outcome' = [outcome EXCEPT ![x] = o]
    BY <2>a DEF Settle
  <2> QED
    BY <1>a, <2>a, <2>1, <2>2 DEF disk
<1>4. ASSUME End PROVE Unsettled(it)'
    BY <1>a, <1>4 DEF End, Workers, NoOutcomes, disk
<1>5. ASSUME Sigterm PROVE Unsettled(it)'
    BY <1>a, <1>5 DEF Sigterm, At, Raise, work, disk
<1>6. ASSUME
              (\E f \in BOOLEAN : Start(f)) \/ OpenGate \/ StartFails
              \/ (\E t0 \in Task : CompleteDue(t0)) \/ NoneDue \/ Top \/ Empty \/ NoAnswer
              \/ CheckWorkersAlive \/ ComputeMetrics \/ WriteOutputs \/ CompletionFails
              \/ WriteFinal
              \/ Drained \/ WriteResults \/ Flush \/ BeginDiscard \/ Drop \/ Unlink
              \/ DropFails \/ Close \/ (\E w \in Worker, x \in Item : Take(w, x))
              \/ (\E w \in Worker, x \in Item, kind \in {"ok", "failed", "error"} : Answer(w, x, kind))
              \/ (\E w \in Worker : PoisonPill(w)) \/ (\E w \in Worker : Jam(w))
              \/ (\E w \in Worker, reports \in BOOLEAN : Die(w, reports))
      PROVE  Unsettled(it)'
  <2>1. UNCHANGED <<pending, scoring, outcome>>
    BY <1>6 DEF Start, OpenGate, StartFails, CompleteDue, NoneDue, Top, Empty, NoAnswer,
        CheckWorkersAlive, ComputeMetrics, WriteOutputs, CompletionFails, WriteFinal, Drained,
        WriteResults, Flush, BeginDiscard, Drop, Unlink, DropFails, Close, Take, Answer,
        PoisonPill, Die, Jam, work, books, disk, loop
  <2> QED
    BY <1>a, <2>1
<1>7. ASSUME UNCHANGED vars PROVE Unsettled(it)'
    BY <1>a, <1>7 DEF vars, loop, work, books, disk
<1> HIDE DEF Typed, Unsettled
<1> QED
    BY <1>1, <1>2, <1>3, <1>4, <1>5, <1>6, <1>7 DEF Next, Scoring, Work, Exit, Kill

\* Every step keeps an instance in one place.
LEMMA LocatedKept ==
    ASSUME Inv, [Next]_vars, NEW it \in Item
    PROVE  Located(it)'
<1>a. Typed /\ Idle /\ Located(it)
    BY TypesGiven DEF Inv, ItemInv, TaskInv
<1>b. TypeOK /\ \A x \in Item : Located(x)
    BY DEF Inv, ItemInv
<1> USE DEF Typed
<1>1. ASSUME Restore PROVE Located(it)'
  <2>1. /\ outcome' = Restored /\ pending' = ToRun /\ queue' = ToRun
        /\ phase = "restore" /\ phase' = "start"
        /\ result' = [u \in Task |-> IF u \in Finalized THEN "pass" ELSE "none"]
        /\ keeping' = IF fresh THEN {} ELSE Task \ Finalized
        /\ UNCHANGED <<fresh, sigterm, holds, out, scoring, recorded, saved, outputs, final>>
    BY <1>1 DEF Restore, disk

  <2>2. out = <<>> /\ \A w \in Worker : holds[w] = {}
    BY <1>a, <2>1 DEF Idle, Before
  <2>3. \A n \in Nat : ~ AnswerAt(n, it)'
    BY <2>1, <2>2 DEF AnswerAt
  <2> QED
    BY <2>1, <2>2, <2>3 DEF Located
<1>2. ASSUME Receive PROVE Located(it)'
  <2>1. out # <<>> /\ out' = Tail(out) /\ out \in Seq(Message) /\ UNCHANGED <<queue, holds>>
    BY <1>a, <1>b, <1>2, Receiving
  <2>2. Len(out) \in Nat \ {0} /\ Head(out) = out[1]
    BY <2>1
  <2>3. \A n \in Nat : AnswerAt(n, it)' <=> n # 0 /\ AnswerAt(n + 1, it)
    BY <2>1, TailMoves
  <2>4. /\ it \in pending' => it \in pending
        /\ Head(out).item # it => (it \in pending' <=> it \in pending)
        /\ Head(out).item = it => it \notin pending'
    BY <1>b, <1>2, Receiving, AbsentIsNone
  <2>5. CASE Head(out).item # it
    <3>1. \A n \in Nat : AnswerAt(n, it) => n # 0 /\ n # 1
      BY <2>2, <2>5 DEF AnswerAt
    <3>2. (\E n \in Nat : AnswerAt(n, it)') <=> \E n \in Nat : AnswerAt(n, it)
      <4>1. ASSUME NEW n \in Nat, AnswerAt(n, it) PROVE \E m \in Nat : AnswerAt(m, it)'
        <5>1. n - 1 \in Nat /\ n - 1 # 0 /\ (n - 1) + 1 = n
          BY <3>1, <4>1
        <5> QED
          BY <2>3, <4>1, <5>1
      <4>2. ASSUME NEW n \in Nat, AnswerAt(n, it)' PROVE \E m \in Nat : AnswerAt(m, it)
        <5>1. n + 1 \in Nat
          OBVIOUS
        <5> QED
          BY <2>3, <4>2, <5>1
      <4> QED
        BY <4>1, <4>2
    <3>3. ASSUME NEW n \in Nat, NEW m \in Nat, AnswerAt(n, it)', AnswerAt(m, it)' PROVE n = m
      <4>1. n + 1 \in Nat /\ m + 1 \in Nat
        OBVIOUS
      <4>2. n + 1 = m + 1
        BY <1>a, <2>3, <3>3, <4>1 DEF Located
      <4> QED
        BY <4>2
    <3> QED
      BY <1>a, <2>1, <2>4, <2>5, <3>2, <3>3, MovedStaysLocated
  <2>6. CASE Head(out).item = it
    <3>1. 1 \in Nat /\ AnswerAt(1, it)
      BY <2>2, <2>6 DEF AnswerAt
    <3>2. \A n \in Nat : ~ AnswerAt(n, it)'
      <4>1. ASSUME NEW n \in Nat, n # 0, AnswerAt(n + 1, it) PROVE FALSE
        <5>1. n + 1 = 1
          BY <1>a, <3>1, <4>1 DEF Located
        <5> QED
          BY <4>1, <5>1
      <4> QED
        BY <2>3, <4>1
    <3> QED
      BY <1>a, <2>1, <2>4, <2>6, <3>1, <3>2 DEF Located
  <2> QED
    BY <2>5, <2>6
<1>3. ASSUME CheckWorkersAlive PROVE Located(it)'
  <2>1. UNCHANGED <<pending, queue, holds>> /\ out \in Seq(Message)
    BY <1>a, <1>3 DEF CheckWorkersAlive, books
  <2>2. \/ out' = out
        \/ out # <<>> /\ Head(out).kind = "fatal" /\ out' = Tail(out)
        \/ out # <<>> /\ out' = Append(Tail(out), Head(out))
    BY <1>3 DEF CheckWorkersAlive, PutBack
  <2>4. CASE out' = out
    BY <1>a, <2>1, <2>4 DEF Located, AnswerAt
  <2>5. CASE out # <<>> /\ Head(out).kind = "fatal" /\ out' = Tail(out)
    <3>0. Head(out).item # it
      <4>1. Head(out) \in Message
        BY <2>1, <2>5
      <4> QED
        BY <2>5, <4>1, MessageKinds, AbsentIsNone
    <3>9. Head(out) = out[1]
      BY <2>1, <2>5
    <3>8. \A n \in Nat : AnswerAt(n, it)' <=> n # 0 /\ AnswerAt(n + 1, it)
      BY <2>1, <2>5, TailMoves
    <3>1. \A n \in Nat : AnswerAt(n, it) => n # 0 /\ n # 1
      BY <3>0, <3>9 DEF AnswerAt
    <3>2. (\E n \in Nat : AnswerAt(n, it)') <=> \E n \in Nat : AnswerAt(n, it)
      <4>1. ASSUME NEW n \in Nat, AnswerAt(n, it) PROVE \E m \in Nat : AnswerAt(m, it)'
        <5>1. n - 1 \in Nat /\ n - 1 # 0 /\ (n - 1) + 1 = n
          BY <3>1, <4>1
        <5> QED
          BY <3>8, <4>1, <5>1
      <4>2. ASSUME NEW n \in Nat, AnswerAt(n, it)' PROVE \E m \in Nat : AnswerAt(m, it)
        <5>1. n + 1 \in Nat
          OBVIOUS
        <5> QED
          BY <3>8, <4>2, <5>1
      <4> QED
        BY <4>1, <4>2
    <3>3. ASSUME NEW n \in Nat, NEW m \in Nat, AnswerAt(n, it)', AnswerAt(m, it)' PROVE n = m
      <4>1. n + 1 \in Nat /\ m + 1 \in Nat
        OBVIOUS
      <4>2. n + 1 = m + 1
        BY <1>a, <3>8, <3>3, <4>1 DEF Located
      <4> QED
        BY <4>2
    <3> QED
      BY <1>a, <2>1, <3>2, <3>3, MovedStaysLocated
  <2>6. CASE out # <<>> /\ out' = Append(Tail(out), Head(out))
    <3>1. Len(out) \in Nat \ {0}
      BY <2>1, <2>6
    <3>2. \A n \in Nat : AnswerAt(n, it)' <=>
             \/ n \in 1 .. (Len(out) - 1) /\ AnswerAt(n + 1, it)
             \/ n = Len(out) /\ AnswerAt(1, it)
      BY <2>1, <2>6, PutBackMoves
    <3>3. ASSUME NEW n \in Nat, AnswerAt(n, it) PROVE \E m \in Nat : AnswerAt(m, it)'
      <4>1. n \in 1 .. Len(out)
        BY <3>3 DEF AnswerAt
      <4>2. CASE n = 1
        BY <3>1, <3>2, <3>3, <4>2
      <4>3. CASE n # 1
        <5>1. n - 1 \in Nat /\ n - 1 \in 1 .. (Len(out) - 1) /\ (n - 1) + 1 = n
          BY <3>1, <4>1, <4>3
        <5> QED
          BY <3>2, <3>3, <5>1
      <4> QED
        BY <4>2, <4>3
    <3>4. ASSUME NEW n \in Nat, AnswerAt(n, it)' PROVE \E m \in Nat : AnswerAt(m, it)
      <4>1. n + 1 \in Nat /\ 1 \in Nat
        OBVIOUS
      <4> QED
        BY <3>2, <3>4, <4>1
    <3>5. ASSUME NEW n \in Nat, NEW m \in Nat, AnswerAt(n, it)', AnswerAt(m, it)' PROVE n = m
      <4>1. n + 1 \in Nat /\ m + 1 \in Nat /\ 1 \in Nat
        OBVIOUS
      <4>2. \A p, q \in Nat : AnswerAt(p, it) /\ AnswerAt(q, it) => p = q
        BY <1>a DEF Located
      <4>3. CASE n \in 1 .. (Len(out) - 1) /\ AnswerAt(n + 1, it)
        <5>1. n + 1 # 1
          BY <4>3
        <5>2. AnswerAt(m + 1, it)
          BY <3>2, <3>5, <4>1, <4>2, <4>3, <5>1
        <5>3. n + 1 = m + 1
          BY <4>1, <4>2, <4>3, <5>2
        <5> QED
          BY <5>3
      <4>4. CASE n = Len(out) /\ AnswerAt(1, it)
        <5>1. ~ (m \in 1 .. (Len(out) - 1) /\ AnswerAt(m + 1, it))
          <6>1. m \in 1 .. (Len(out) - 1) => m + 1 # 1
            OBVIOUS
          <6> QED
            BY <4>1, <4>2, <4>4, <6>1
        <5> QED
          BY <3>2, <3>5, <4>4, <5>1
      <4> QED
        BY <3>2, <3>5, <4>3, <4>4
    <3> QED
      BY <1>a, <2>1, <3>3, <3>4, <3>5, MovedStaysLocated
  <2> QED
    BY <2>2, <2>4, <2>5, <2>6
<1>4. ASSUME End PROVE Located(it)'
    BY <1>a, <1>4 DEF End, Workers, NoOutcomes, Located, AnswerAt, disk
<1>5. ASSUME NEW w \in Worker, NEW x \in Item, Take(w, x) PROVE Located(it)'
    BY <1>a, <1>5 DEF Take, Located, AnswerAt, loop, books, disk
<1>6. ASSUME NEW w \in Worker, NEW x \in Item, NEW kind \in {"ok", "failed", "error"}, Answer(w, x, kind)
      PROVE Located(it)'
    BY <1>a, <1>6 DEF Answer, Located, AnswerAt, loop, books, disk
<1>7. ASSUME NEW w \in Worker, NEW reports \in BOOLEAN, Die(w, reports) PROVE Located(it)'
    BY <1>a, <1>7 DEF Die, Located, AnswerAt, loop, books, disk
<1>8. ASSUME
              (\E f \in BOOLEAN : Start(f)) \/ OpenGate \/ StartFails
              \/ (\E t0 \in Task : CompleteDue(t0)) \/ NoneDue \/ Top \/ Empty \/ NoAnswer
              \/ (\E x \in Item, o \in Scored : Score(x, o)) \/ ComputeMetrics \/ WriteOutputs
              \/ CompletionFails \/ WriteFinal \/ Drained \/ WriteResults \/ Flush
              \/ BeginDiscard \/ Drop \/ Unlink \/ DropFails \/ Close \/ Sigterm
              \/ (\E w \in Worker : PoisonPill(w))
      PROVE  Located(it)'
  <2>1. UNCHANGED <<pending, queue, holds, out>>
    BY <1>8 DEF Start, OpenGate, StartFails, CompleteDue, NoneDue, Top, Empty, NoAnswer, Score,
        ComputeMetrics, WriteOutputs, CompletionFails, WriteFinal, Drained, WriteResults, Flush,
        BeginDiscard, Drop, Unlink, DropFails, Close, Sigterm, PoisonPill, work, books, disk, loop
  <2> QED
    BY <1>a, <2>1 DEF Located, AnswerAt
<1>9. ASSUME UNCHANGED vars PROVE Located(it)'
    BY <1>a, <1>9 DEF vars, loop, work, books, disk, Located, AnswerAt
<1>j. ASSUME NEW w \in Worker, Jam(w) PROVE Located(it)'
    BY <1>a, <1>j DEF Jam, Located, AnswerAt, loop, books, disk
<1> HIDE DEF Typed
<1> QED
    BY <1>j, <1>1, <1>2, <1>3, <1>4, <1>5, <1>6, <1>7, <1>8, <1>9 DEF Next, Scoring, Work, Exit,
        Kill

\* No step loses an instance.
LEMMA CoveredKept ==
    ASSUME Inv, [Next]_vars, NEW it \in Item
    PROVE  Covered(it)'
<1>a. Typed /\ Covered(it)
    BY TypesGiven DEF Inv, ItemInv, TaskInv
<1>b. TypeOK /\ \A x \in Item : Located(x)
    BY DEF Inv, ItemInv
<1> USE DEF Typed, Covered, Processing
<1>1. ASSUME NEW f \in BOOLEAN, Start(f) PROVE Covered(it)'
    BY <1>a, <1>1 DEF Start, work, books, disk
<1>2. ASSUME Restore PROVE Covered(it)'
    BY <1>a, <1>2 DEF Restore, ToRun, Restored, Finalized, Workers, disk
<1>3. ASSUME OpenGate PROVE Covered(it)'
    BY <1>a, <1>3 DEF OpenGate, Workers, books, disk
<1>4. ASSUME StartFails PROVE Covered(it)'
    BY <1>a, <1>4 DEF StartFails, Raise, work, books, disk
<1>5. ASSUME NoneDue PROVE Covered(it)'
    BY <1>a, <1>5 DEF NoneDue, At, Due, work, books, disk
<1>6. ASSUME Top PROVE Covered(it)'
    BY <1>a, <1>6 DEF Top, At, Raise, work, books, disk
<1>7. ASSUME Receive PROVE Covered(it)'
  <2>1. /\ phase = "get" /\ completing = Absent /\ out # <<>> /\ out' = Tail(out)
        /\ UNCHANGED <<fresh, sigterm, exited, queue, worker, holds, result, metrics, lock, disk,
                       attempts>>
    BY <1>b, <1>7, Receiving
  <2>2. CASE /\ phase' = "unwind"
             /\ UNCHANGED <<completing, pending, scoring, outcome, keeping, recorded, faults>>
    BY <1>a, <2>1, <2>2 DEF disk
  <2>3. ASSUME NEW x \in Item, x \in pending, phase' = "top", pending' = pending \ {x},
               scoring' = scoring \cup {x},
               UNCHANGED <<completing, outcome, keeping, recorded, faults>>
        PROVE  Covered(it)'
    BY <1>a, <2>1, <2>3 DEF disk
  <2>4. ASSUME NEW x \in Item, x \in pending, phase' = "top", pending' = pending \ {x},
               UNCHANGED scoring, NEW o, o \in {"failed", "error"}, Settle(x, o, "main")
        PROVE  Covered(it)'
    <3>1. x[1] \in Task /\ x[2] \in Idx /\ x = <<x[1], x[2]>>
      BY ItemIs
    <3>2. outcome' = [outcome EXCEPT ![x] = o]
      BY <2>1, <2>4 DEF Settle
    <3> QED
      BY <1>a, <2>1, <2>4, AbsentIsNone, <3>1, <3>2 DEF Outcome, Scored, disk
  <2> QED
    BY <1>b, <1>7, <2>2, <2>3, <2>4, Receiving DEF Raise
<1>8. ASSUME Empty PROVE Covered(it)'
    BY <1>a, <1>8 DEF Empty, At, work, books, disk
<1>9. ASSUME NoAnswer PROVE Covered(it)'
    BY <1>a, <1>9 DEF NoAnswer, At, Raise, ExitSeen, work, books, disk
<1>10. ASSUME CheckWorkersAlive PROVE Covered(it)'
    BY <1>a, <1>10 DEF CheckWorkersAlive, At, Raise, PutBack, books, disk
<1>11. ASSUME NEW x \in Item, NEW o \in Scored, Score(x, o) PROVE Covered(it)'
  <2>a. /\ phase \in {"get", "drain", "closed"} /\ completing = Absent /\ x \in scoring
        /\ o = "spoiled" => sigterm
        /\ scoring' = scoring \ {x} /\ Settle(x, o, "scoring")
        /\ UNCHANGED <<phase, fresh, sigterm, failure, exited, work, pending, result, metrics, lock,
                       disk>>
    BY <1>11 DEF Score, At
  <2>1. x[1] \in Task /\ x[2] \in Idx /\ x = <<x[1], x[2]>>
    BY ItemIs
  <2>2. outcome' = [outcome EXCEPT ![x] = o]
    BY <2>a DEF Settle
  <2> QED
    BY <1>a, <2>a, AbsentIsNone, <2>1, <2>2 DEF Outcome, Scored, disk
<1>12. ASSUME CompletionFails PROVE Covered(it)'
    BY <1>a, <1>12 DEF CompletionFails, Raise, work, books, disk
<1>13. ASSUME Drained PROVE Covered(it)'
    BY <1>a, <1>13 DEF Drained, At, Raise, work, books, disk
<1>14. ASSUME WriteResults PROVE Covered(it)'
    BY <1>a, <1>14 DEF WriteResults, Raise, Discards, Passed, disk
<1>15. ASSUME BeginDiscard PROVE Covered(it)'
    BY <1>a, <1>15 DEF BeginDiscard, Flushed, work, books, disk
<1>16. ASSUME Drop PROVE Covered(it)'
    BY <1>a, <1>16 DEF Drop, work, books
<1>17. ASSUME Unlink PROVE Covered(it)'
    BY <1>a, <1>17 DEF Unlink, work, books
<1>18. ASSUME DropFails PROVE Covered(it)'
    BY <1>a, <1>18 DEF DropFails, Raise, work, books, disk
<1>19. ASSUME Close PROVE Covered(it)'
    BY <1>a, <1>19 DEF Close, Flushed, books, disk
<1>20. ASSUME End PROVE Covered(it)'
    BY <1>a, <1>20 DEF End, Workers, NoOutcomes, disk
<1>21. ASSUME Sigterm PROVE Covered(it)'
    BY <1>a, <1>21 DEF Sigterm, At, Raise, work, disk
<1>22. ASSUME
              (\E t0 \in Task : CompleteDue(t0)) \/ ComputeMetrics \/ WriteOutputs \/ WriteFinal
              \/ Flush
              \/ (\E w \in Worker, x \in Item : Take(w, x))
              \/ (\E w \in Worker, x \in Item, kind \in {"ok", "failed", "error"} : Answer(w, x, kind))
              \/ (\E w \in Worker : PoisonPill(w)) \/ (\E w \in Worker : Jam(w))
              \/ (\E w \in Worker, reports \in BOOLEAN : Die(w, reports))
      PROVE  Covered(it)'
  <2>1. UNCHANGED <<phase, sigterm, pending, scoring, outcome>>
    BY <1>22 DEF CompleteDue, ComputeMetrics, WriteOutputs, WriteFinal, Flush, Take, Answer,
        PoisonPill, Die, Jam, work, disk, books, loop
  <2> QED
    BY <1>a, <2>1
<1>23. ASSUME UNCHANGED vars PROVE Covered(it)'
    BY <1>a, <1>23 DEF vars, loop, work, books, disk
<1> HIDE DEF Typed, Covered, Processing
<1> QED
    BY <1>1, <1>2, <1>3, <1>4, <1>5, <1>6, <1>7, <1>8, <1>9, <1>10, <1>11, <1>12, <1>13, <1>14,
       <1>15, <1>16, <1>17, <1>18, <1>19, <1>20, <1>21, <1>22, <1>23
      DEF Next, Scoring, Work, Exit, Kill

\* Every step keeps results complete.
LEMMA ResultedKept ==
    ASSUME Inv, [Next]_vars, NEW t \in Task
    PROVE  Resulted(t)'
<1>a. Typed /\ Resulted(t)
    BY TypesGiven DEF Inv, ItemInv, TaskInv
<1>b. TypeOK /\ \A x \in Item : Located(x)
    BY DEF Inv, ItemInv
<1>c. \A x \in Item : Unsettled(x)
    BY DEF Inv, ItemInv
<1>d. TypeOK /\ Finished(t)
    BY DEF Inv, TaskInv
<1>e. Completes
    BY DEF Inv
<1> USE DEF Typed, Resulted
<1>1. ASSUME Restore PROVE Resulted(t)'
  <2>1. /\ outcome' = Restored /\ pending' = ToRun /\ queue' = ToRun
        /\ phase = "restore" /\ phase' = "start"
        /\ result' = [u \in Task |-> IF u \in Finalized THEN "pass" ELSE "none"]
        /\ keeping' = IF fresh THEN {} ELSE Task \ Finalized
        /\ UNCHANGED <<fresh, sigterm, holds, out, scoring, recorded, saved, outputs, final>>
    BY <1>1 DEF Restore, disk

  <2>2. CASE t \in Finalized
    <3>1. final[t] \in [Idx -> Outcome] /\ WithinBudget(final[t])
      BY <1>d, <2>2 DEF Finalized, TypeOK, Finished
    <3>2. \A i \in Idx : <<t, i>> \in Item /\ outcome'[<<t, i>>] = final[t][i]
      BY <2>1, <2>2 DEF Restored, Item
    <3>3. OutcomesOf(outcome', t) = final[t]
      BY <3>1, <3>2 DEF OutcomesOf
    <3>4. \A i \in Idx : final[t][i] # Absent
      BY <3>1, AbsentIsNone
    <3> QED
      BY <3>1, <3>2, <3>3, <3>4
  <2>3. CASE t \notin Finalized
    BY <2>1, <2>3
  <2> QED
    BY <2>2, <2>3
<1>2. ASSUME NEW t0 \in Task, CompleteDue(t0) PROVE Resulted(t)'
    BY <1>a, <1>2, Completing DEF books
<1>3. ASSUME Receive PROVE Resulted(t)'
  <2>1. /\ phase = "get" /\ completing = Absent /\ out # <<>> /\ out' = Tail(out)
        /\ UNCHANGED <<fresh, sigterm, exited, queue, worker, holds, result, metrics, lock, disk,
                       attempts>>
    BY <1>b, <1>3, Receiving
  <2>2. CASE /\ phase' = "unwind"
             /\ UNCHANGED <<completing, pending, scoring, outcome, keeping, recorded, faults>>
    BY <1>a, <2>1, <2>2 DEF disk
  <2>3. ASSUME NEW x \in Item, x \in pending, phase' = "top", pending' = pending \ {x},
               scoring' = scoring \cup {x},
               UNCHANGED <<completing, outcome, keeping, recorded, faults>>
        PROVE  Resulted(t)'
    BY <1>a, <2>1, <2>3 DEF disk
  <2>4. ASSUME NEW x \in Item, x \in pending, phase' = "top", pending' = pending \ {x},
               UNCHANGED scoring, NEW o, o \in {"failed", "error"}, Settle(x, o, "main")
        PROVE  Resulted(t)'
    <3>1. x[1] \in Task /\ x[2] \in Idx /\ x = <<x[1], x[2]>>
      BY ItemIs
    <3>2. outcome' = [outcome EXCEPT ![x] = o]
      BY <2>4 DEF Settle
    <3>9. outcome[x] = Absent
      BY <1>c, <2>1, <2>4 DEF Unsettled
    <3>10. CASE x[1] = t
      <4>1. result[t] = "none"
        BY <1>a, <3>1, <3>9, <3>10
      <4> QED
        BY <2>1, <4>1
    <3>11. CASE x[1] # t
      <4>1. \A i \in Idx : outcome'[<<t, i>>] = outcome[<<t, i>>]
        BY <1>a, <3>1, <3>2, <3>11 DEF Item
      <4>2. OutcomesOf(outcome', t) = OutcomesOf(outcome, t)
        BY <4>1 DEF OutcomesOf
      <4>3. result'[t] = result[t]
        BY <2>1
      <4> QED
        BY <1>a, <4>1, <4>2, <4>3
    <3> QED
      BY <3>10, <3>11
  <2> QED
    BY <1>b, <1>3, <2>2, <2>3, <2>4, Receiving DEF Raise
<1>4. ASSUME NEW x \in Item, NEW o \in Scored, Score(x, o) PROVE Resulted(t)'
  <2>a. /\ phase \in {"get", "drain", "closed"} /\ completing = Absent /\ x \in scoring
        /\ o = "spoiled" => sigterm
        /\ scoring' = scoring \ {x} /\ Settle(x, o, "scoring")
        /\ UNCHANGED <<phase, fresh, sigterm, failure, exited, work, pending, result, metrics, lock,
                       disk>>
    BY <1>4 DEF Score, At
  <2>1. x[1] \in Task /\ x[2] \in Idx /\ x = <<x[1], x[2]>>
    BY ItemIs
  <2>2. outcome' = [outcome EXCEPT ![x] = o]
    BY <2>a DEF Settle
  <2>9. outcome[x] = Absent
    BY <1>c, <2>a DEF Unsettled
  <2>10. CASE x[1] = t
    <3>1. result[t] = "none"
      BY <1>a, <2>1, <2>9, <2>10
    <3> QED
      BY <2>a, <3>1
  <2>11. CASE x[1] # t
    <3>1. \A i \in Idx : outcome'[<<t, i>>] = outcome[<<t, i>>]
      BY <1>a, <2>1, <2>2, <2>11 DEF Item
    <3>2. OutcomesOf(outcome', t) = OutcomesOf(outcome, t)
      BY <3>1 DEF OutcomesOf
    <3>3. result'[t] = result[t]
      BY <2>a
    <3> QED
      BY <1>a, <3>1, <3>2, <3>3
  <2> QED
    BY <2>10, <2>11
<1>5. ASSUME End PROVE Resulted(t)'
    BY <1>a, <1>5 DEF End, Workers, NoOutcomes, disk
<1>6. ASSUME
              (\E f \in BOOLEAN : Start(f)) \/ OpenGate \/ StartFails \/ NoneDue \/ Top
              \/ Empty \/ NoAnswer \/ CheckWorkersAlive \/ WriteOutputs \/ CompletionFails
              \/ WriteFinal \/ Drained \/ WriteResults \/ Flush \/ BeginDiscard \/ Drop
              \/ Unlink \/ DropFails \/ Close \/ Sigterm
              \/ (\E w \in Worker, x \in Item : Take(w, x))
              \/ (\E w \in Worker, x \in Item, kind \in {"ok", "failed", "error"} : Answer(w, x, kind))
              \/ (\E w \in Worker : PoisonPill(w)) \/ (\E w \in Worker : Jam(w))
              \/ (\E w \in Worker, reports \in BOOLEAN : Die(w, reports))
      PROVE  Resulted(t)'
  <2>1. UNCHANGED <<result, outcome>>
    BY <1>6 DEF Start, OpenGate, StartFails, NoneDue, Top, Empty, NoAnswer, CheckWorkersAlive,
        WriteOutputs, CompletionFails, WriteFinal, Drained, WriteResults, Flush, BeginDiscard,
        Drop, Unlink, DropFails, Close, Sigterm, Take, Answer, PoisonPill, Die, Jam, work, books,
        disk, loop
  <2> QED
    BY <1>a, <2>1
<1>7. ASSUME UNCHANGED vars PROVE Resulted(t)'
    BY <1>a, <1>7 DEF vars, loop, work, books, disk
<1>m. ASSUME ComputeMetrics PROVE Resulted(t)'
  <2>1. PICK v \in {"pass", "over"} :
            /\ result' = [result EXCEPT ![completing.task] = v]
            /\ v = "pass" => WithinBudget(OutcomesOf(outcome, completing.task))
    BY <1>b, <1>m, Computing
  <2>2. completing # Absent /\ UNCHANGED outcome
    BY <1>b, <1>m, Computing
  <2>3. \A i \in Idx : outcome[<<completing.task, i>>] # Absent
    BY <1>e, <2>2 DEF Completes
  <2>4. OutcomesOf(outcome', t) = OutcomesOf(outcome, t)
    BY <2>2
  <2>5. CASE t = completing.task
    BY <1>a, <2>1, <2>2, <2>3, <2>4, <2>5
  <2>6. CASE t # completing.task
    BY <1>a, <2>1, <2>2, <2>4, <2>6
  <2> QED
    BY <2>5, <2>6
<1> HIDE DEF Typed, Resulted
<1> QED
    BY <1>m, <1>1, <1>2, <1>3, <1>4, <1>5, <1>6, <1>7 DEF Next, Scoring, Work, Exit, Kill

\* Every step keeps the records true.
LEMMA RecordedKept ==
    ASSUME Inv, [Next]_vars, NEW t \in Task
    PROVE  Recorded(t)'
<1>a. Typed /\ Recorded(t)
    BY TypesGiven DEF Inv, ItemInv, TaskInv
<1>b. TypeOK /\ \A x \in Item : Located(x)
    BY DEF Inv, ItemInv
<1>c. \A x \in Item : Unsettled(x)
    BY DEF Inv, ItemInv
<1>i. Idle
    BY DEF Inv
<1> USE DEF Typed, Recorded
<1>1. ASSUME Restore PROVE Recorded(t)'
  <2>1. /\ outcome' = Restored /\ pending' = ToRun /\ queue' = ToRun
        /\ phase = "restore" /\ phase' = "start"
        /\ result' = [u \in Task |-> IF u \in Finalized THEN "pass" ELSE "none"]
        /\ keeping' = IF fresh THEN {} ELSE Task \ Finalized
        /\ UNCHANGED <<fresh, sigterm, holds, out, scoring, recorded, saved, outputs, final>>
    BY <1>1 DEF Restore, disk

  <2>2. recorded = saved
    BY <2>1, <1>i DEF Idle
  <2>3. t \in keeping' => \A i \in Idx : outcome'[<<t, i>>] = saved[t][i]
    BY <2>1 DEF Restored, Item
  <2> QED
    BY <1>a, <2>1, <2>2, <2>3
<1>2. ASSUME Receive PROVE Recorded(t)'
  <2>1. /\ phase = "get" /\ completing = Absent /\ out # <<>> /\ out' = Tail(out)
        /\ UNCHANGED <<fresh, sigterm, exited, queue, worker, holds, result, metrics, lock, disk,
                       attempts>>
    BY <1>b, <1>2, Receiving
  <2>2. CASE /\ phase' = "unwind"
             /\ UNCHANGED <<completing, pending, scoring, outcome, keeping, recorded, faults>>
    BY <1>a, <2>1, <2>2 DEF disk
  <2>3. ASSUME NEW x \in Item, x \in pending, phase' = "top", pending' = pending \ {x},
               scoring' = scoring \cup {x},
               UNCHANGED <<completing, outcome, keeping, recorded, faults>>
        PROVE  Recorded(t)'
    BY <1>a, <2>1, <2>3 DEF disk
  <2>4. ASSUME NEW x \in Item, x \in pending, phase' = "top", pending' = pending \ {x},
               UNCHANGED scoring, NEW o, o \in {"failed", "error"}, Settle(x, o, "main")
        PROVE  Recorded(t)'
    <3>1. x[1] \in Task /\ x[2] \in Idx /\ x = <<x[1], x[2]>>
      BY ItemIs
    <3>2. /\ outcome' = [outcome EXCEPT ![x] = o] /\ keeping' \in {keeping, keeping \ {x[1]}}
          /\ \/ UNCHANGED recorded
             \/ /\ ~sigterm /\ x[1] \in keeping /\ o \in Kept
                /\ recorded' = [recorded EXCEPT ![x[1]][x[2]] = o]
      BY <2>1, <2>4, SettlingRecords
    <3>9. outcome[x] = Absent /\ UNCHANGED saved
      BY <1>c, <2>1, <2>4 DEF Unsettled, disk
    <3>10. ASSUME NEW i \in Idx, x = <<t, i>>
          PROVE  /\ t \in keeping' => recorded'[t][i] \in {Absent, outcome'[<<t, i>>]}
                 /\ saved[t][i] \in {Absent, recorded'[t][i]}
      <4>1. t \in keeping => recorded[t][i] = Absent /\ saved[t][i] = Absent
        BY <1>a, <3>9, <3>10
      <4>2. outcome'[<<t, i>>] = o
        BY <1>a, <3>1, <3>2, <3>10
      <4>3. recorded'[t][i] = recorded[t][i] \/ (t \in keeping /\ recorded'[t][i] = o)
        BY <1>a, <3>1, <3>2, <3>10
      <4>4. t \in keeping' => t \in keeping
        BY <3>1, <3>2
      <4> QED
        BY <1>a, <4>1, <4>2, <4>3, <4>4
    <3>11. ASSUME NEW i \in Idx, x # <<t, i>>
          PROVE  /\ t \in keeping' => recorded'[t][i] \in {Absent, outcome'[<<t, i>>]}
                 /\ saved[t][i] \in {Absent, recorded'[t][i]}
      <4>1. outcome'[<<t, i>>] = outcome[<<t, i>>]
        BY <1>a, <3>1, <3>2, <3>11 DEF Item
      <4>2. recorded'[t][i] = recorded[t][i]
        BY <1>a, <3>1, <3>2, <3>11
      <4>3. t \in keeping' => t \in keeping
        BY <3>1, <3>2
      <4> QED
        BY <1>a, <4>1, <4>2, <4>3
    <3> QED
      BY <3>9, <3>10, <3>11
  <2> QED
    BY <1>b, <1>2, <2>2, <2>3, <2>4, Receiving DEF Raise
<1>3. ASSUME NEW x \in Item, NEW o \in Scored, Score(x, o) PROVE Recorded(t)'
  <2>a. /\ phase \in {"get", "drain", "closed"} /\ completing = Absent /\ x \in scoring
        /\ o = "spoiled" => sigterm
        /\ scoring' = scoring \ {x} /\ Settle(x, o, "scoring")
        /\ UNCHANGED <<phase, fresh, sigterm, failure, exited, work, pending, result, metrics, lock,
                       disk>>
    BY <1>3 DEF Score, At
  <2>1. x[1] \in Task /\ x[2] \in Idx /\ x = <<x[1], x[2]>>
    BY ItemIs
  <2>2. /\ outcome' = [outcome EXCEPT ![x] = o] /\ keeping' \in {keeping, keeping \ {x[1]}}
        /\ \/ UNCHANGED recorded
           \/ /\ ~sigterm /\ x[1] \in keeping /\ o \in Kept
              /\ recorded' = [recorded EXCEPT ![x[1]][x[2]] = o]
    BY <2>a, SettlingRecords
  <2>9. outcome[x] = Absent /\ UNCHANGED saved
    BY <1>c, <2>a DEF Unsettled, disk
  <2>10. ASSUME NEW i \in Idx, x = <<t, i>>
        PROVE  /\ t \in keeping' => recorded'[t][i] \in {Absent, outcome'[<<t, i>>]}
               /\ saved[t][i] \in {Absent, recorded'[t][i]}
    <3>1. t \in keeping => recorded[t][i] = Absent /\ saved[t][i] = Absent
      BY <1>a, <2>9, <2>10
    <3>2. outcome'[<<t, i>>] = o
      BY <1>a, <2>1, <2>2, <2>10
    <3>3. recorded'[t][i] = recorded[t][i] \/ (t \in keeping /\ recorded'[t][i] = o)
      BY <1>a, <2>1, <2>2, <2>10
    <3>4. t \in keeping' => t \in keeping
      BY <2>1, <2>2
    <3> QED
      BY <1>a, <3>1, <3>2, <3>3, <3>4
  <2>11. ASSUME NEW i \in Idx, x # <<t, i>>
        PROVE  /\ t \in keeping' => recorded'[t][i] \in {Absent, outcome'[<<t, i>>]}
               /\ saved[t][i] \in {Absent, recorded'[t][i]}
    <3>1. outcome'[<<t, i>>] = outcome[<<t, i>>]
      BY <1>a, <2>1, <2>2, <2>11 DEF Item
    <3>2. recorded'[t][i] = recorded[t][i]
      BY <1>a, <2>1, <2>2, <2>11
    <3>3. t \in keeping' => t \in keeping
      BY <2>1, <2>2
    <3> QED
      BY <1>a, <3>1, <3>2, <3>3
  <2> QED
    BY <2>9, <2>10, <2>11
<1>4. ASSUME Flush PROVE Recorded(t)'
    BY <1>a, <1>4 DEF Flush, loop, work, books
<1>5. ASSUME BeginDiscard PROVE Recorded(t)'
    BY <1>a, <1>5 DEF BeginDiscard, Flushed, work, books, disk
<1>6. ASSUME Drop PROVE Recorded(t)'
  <2>1. recorded' = saved' /\ \A i \in Idx : saved'[t][i] \in {Absent, saved[t][i]}
    BY <1>b, <1>i, <1>6, Dropped
  <2>2. recorded = saved
    BY <1>i, <1>6 DEF Idle, Drop, Discarding
  <2>3. UNCHANGED <<outcome, keeping>>
    BY <1>6 DEF Drop, books
  <2> QED
    BY <1>a, <2>1, <2>2, <2>3
<1>7. ASSUME End PROVE Recorded(t)'
    BY <1>a, <1>7 DEF End, Workers, NoOutcomes, disk
<1>8. ASSUME
              (\E f \in BOOLEAN : Start(f)) \/ OpenGate \/ StartFails
              \/ (\E t0 \in Task : CompleteDue(t0)) \/ NoneDue \/ Top \/ Empty \/ NoAnswer
              \/ CheckWorkersAlive \/ ComputeMetrics \/ WriteOutputs \/ CompletionFails
              \/ WriteFinal
              \/ Drained \/ WriteResults \/ Unlink \/ DropFails \/ Close \/ Sigterm
              \/ (\E w \in Worker, x \in Item : Take(w, x))
              \/ (\E w \in Worker, x \in Item, kind \in {"ok", "failed", "error"} : Answer(w, x, kind))
              \/ (\E w \in Worker : PoisonPill(w)) \/ (\E w \in Worker : Jam(w))
              \/ (\E w \in Worker, reports \in BOOLEAN : Die(w, reports))
      PROVE  Recorded(t)'
  <2>1. UNCHANGED <<keeping, recorded, saved, outcome>>
    BY <1>8 DEF Start, OpenGate, StartFails, CompleteDue, NoneDue, Top, Empty, NoAnswer,
        CheckWorkersAlive, ComputeMetrics, WriteOutputs, CompletionFails, WriteFinal, Drained,
        WriteResults, Unlink, DropFails, Close, Sigterm, Take, Answer, PoisonPill, Die, Jam, work,
        books, disk, loop
  <2> QED
    BY <1>a, <2>1
<1>9. ASSUME UNCHANGED vars PROVE Recorded(t)'
    BY <1>a, <1>9 DEF vars, loop, work, books, disk
<1> HIDE DEF Typed, Recorded
<1> QED
    BY <1>1, <1>2, <1>3, <1>4, <1>5, <1>6, <1>7, <1>8, <1>9 DEF Next, Scoring, Work, Exit, Kill

\* Every step keeps finalized results done and agreeing.
LEMMA FinishedKept ==
    ASSUME Inv, [Next]_vars, NEW t \in Task
    PROVE  Finished(t)'
<1>a. Typed /\ Finished(t)
    BY TypesGiven DEF Inv, ItemInv, TaskInv
<1>b. TypeOK /\ \A x \in Item : Located(x)
    BY DEF Inv, ItemInv
<1>c. \A x \in Item : Unsettled(x)
    BY DEF Inv, ItemInv
<1>d. Resulted(t) /\ Recorded(t) /\ Completes
    BY DEF Inv, TaskInv
<1>i. Idle
    BY DEF Inv
<1> USE DEF Typed, Finished
<1>1. ASSUME Restore PROVE Finished(t)'
    BY <1>a, <1>1 DEF Restore, ToRun, Restored, Finalized, Workers, disk
<1>2. ASSUME NEW t0 \in Task, CompleteDue(t0) PROVE Finished(t)'
    BY <1>a, <1>2, Completing DEF books, disk
<1>3. ASSUME Receive PROVE Finished(t)'
  <2>1. /\ phase = "get" /\ completing = Absent /\ out # <<>> /\ out' = Tail(out)
        /\ UNCHANGED <<fresh, sigterm, exited, queue, worker, holds, result, metrics, lock, disk,
                       attempts>>
    BY <1>b, <1>3, Receiving
  <2>2. CASE /\ phase' = "unwind"
             /\ UNCHANGED <<completing, pending, scoring, outcome, keeping, recorded, faults>>
    BY <1>a, <2>1, <2>2 DEF disk
  <2>3. ASSUME NEW x \in Item, x \in pending, phase' = "top", pending' = pending \ {x},
               scoring' = scoring \cup {x},
               UNCHANGED <<completing, outcome, keeping, recorded, faults>>
        PROVE  Finished(t)'
    BY <1>a, <2>1, <2>3 DEF disk
  <2>4. ASSUME NEW x \in Item, x \in pending, phase' = "top", pending' = pending \ {x},
               UNCHANGED scoring, NEW o, o \in {"failed", "error"}, Settle(x, o, "main")
        PROVE  Finished(t)'
    <3>1. x[1] \in Task /\ x[2] \in Idx /\ x = <<x[1], x[2]>>
      BY ItemIs
    <3>2. /\ outcome' = [outcome EXCEPT ![x] = o] /\ keeping' \in {keeping, keeping \ {x[1]}}
          /\ \/ UNCHANGED recorded
             \/ /\ ~sigterm /\ x[1] \in keeping /\ o \in Kept
                /\ recorded' = [recorded EXCEPT ![x[1]][x[2]] = o]
      BY <2>1, <2>4, SettlingRecords
    <3>9. outcome[x] = Absent /\ UNCHANGED <<outputs, final, result>>
      BY <1>c, <2>1, <2>4 DEF Unsettled, disk
    <3>10. CASE x[1] = t
      <4>1. t \in keeping => final[t] = Absent
        BY <1>a, <1>d, <3>1, <3>2, <3>9, <3>10 DEF Resulted
      <4>2. t \notin keeping => t \notin keeping' /\ UNCHANGED recorded
        BY <3>1, <3>2, <3>10
      <4> QED
        BY <1>a, <3>9, <4>1, <4>2
    <3>11. CASE x[1] # t
      <4>1. recorded'[t] = recorded[t] /\ result'[t] = result[t]
        BY <1>a, <3>1, <3>2, <3>9, <3>11
      <4>2. t \in keeping' => t \in keeping
        BY <3>1, <3>2
      <4> QED
        BY <1>a, <3>9, <4>1, <4>2
    <3> QED
      BY <3>10, <3>11
  <2> QED
    BY <1>b, <1>3, <2>2, <2>3, <2>4, Receiving DEF Raise
<1>4. ASSUME NEW x \in Item, NEW o \in Scored, Score(x, o) PROVE Finished(t)'
  <2>a. /\ phase \in {"get", "drain", "closed"} /\ completing = Absent /\ x \in scoring
        /\ o = "spoiled" => sigterm
        /\ scoring' = scoring \ {x} /\ Settle(x, o, "scoring")
        /\ UNCHANGED <<phase, fresh, sigterm, failure, exited, work, pending, result, metrics, lock,
                       disk>>
    BY <1>4 DEF Score, At
  <2>1. x[1] \in Task /\ x[2] \in Idx /\ x = <<x[1], x[2]>>
    BY ItemIs
  <2>2. /\ outcome' = [outcome EXCEPT ![x] = o] /\ keeping' \in {keeping, keeping \ {x[1]}}
        /\ \/ UNCHANGED recorded
           \/ /\ ~sigterm /\ x[1] \in keeping /\ o \in Kept
              /\ recorded' = [recorded EXCEPT ![x[1]][x[2]] = o]
    BY <2>a, SettlingRecords
  <2>9. outcome[x] = Absent /\ UNCHANGED <<outputs, final, result>>
    BY <1>c, <2>a DEF Unsettled, disk
  <2>10. CASE x[1] = t
    <3>1. t \in keeping => final[t] = Absent
      BY <1>a, <1>d, <2>1, <2>2, <2>9, <2>10 DEF Resulted
    <3>2. t \notin keeping => t \notin keeping' /\ UNCHANGED recorded
      BY <2>1, <2>2, <2>10
    <3> QED
      BY <1>a, <2>9, <3>1, <3>2
  <2>11. CASE x[1] # t
    <3>1. recorded'[t] = recorded[t] /\ result'[t] = result[t]
      BY <1>a, <2>1, <2>2, <2>9, <2>11
    <3>2. t \in keeping' => t \in keeping
      BY <2>1, <2>2
    <3> QED
      BY <1>a, <2>9, <3>1, <3>2
  <2> QED
    BY <2>10, <2>11
<1>5. ASSUME WriteOutputs PROVE Finished(t)'
    BY <1>a, <1>5 DEF WriteOutputs, work, books
<1>6. ASSUME WriteFinal PROVE Finished(t)'
  <2>1. completing \in Completion /\ completing.task \in Task /\ completing.step = "final"
    BY <1>a, <1>6 DEF WriteFinal, Completion
  <2>2. /\ \/ final' = final
           \/ /\ completing.task \in keeping /\ result[completing.task] = "pass"
              /\ final' = [final EXCEPT ![completing.task] = OutcomesOf(outcome, completing.task)]
        /\ UNCHANGED <<outputs, recorded, keeping, result>>
    BY <1>6 DEF WriteFinal, Finalizes, books
  <2>3. CASE final'[t] = final[t]
    BY <1>a, <2>2, <2>3
  <2>4. CASE /\ completing.task = t /\ t \in keeping /\ result[t] = "pass"
             /\ final'[t] = OutcomesOf(outcome, t)
    <3>1. t \in outputs /\ WithinBudget(OutcomesOf(outcome, t))
      BY <1>d, <2>1, <2>4 DEF Resulted, Completes, Completion
    <3>2. \A i \in Idx : recorded[t][i] \in {Absent, OutcomesOf(outcome, t)[i]}
      BY <1>d, <2>4 DEF Recorded, OutcomesOf
    <3> QED
      BY <2>2, <2>4, <3>1, <3>2
  <2> QED
    BY <1>a, <2>1, <2>2, <2>3, <2>4
<1>7. ASSUME BeginDiscard PROVE Finished(t)'
  <2>1. recorded' = saved /\ UNCHANGED <<outputs, keeping, result, final>>
    BY <1>7 DEF BeginDiscard, books, disk
  <2>2. \A i \in Idx : saved[t][i] \in {Absent, recorded[t][i]}
    BY <1>d DEF Recorded
  <2> QED
    BY <1>a, <2>1, <2>2
<1>8. ASSUME Drop PROVE Finished(t)'
  <2>1. recorded' = saved' /\ \A i \in Idx : saved'[t][i] \in {Absent, saved[t][i]}
    BY <1>b, <1>i, <1>8, Dropped
  <2>2. \A i \in Idx : saved[t][i] \in {Absent, recorded[t][i]}
    BY <1>d DEF Recorded
  <2>3. UNCHANGED <<outputs, keeping, result, final>>
    BY <1>8 DEF Drop, books
  <2> QED
    BY <1>a, <2>1, <2>2, <2>3
<1>9. ASSUME Unlink PROVE Finished(t)'
  <2>1. final'[t] \in {Absent, final[t]} /\ UNCHANGED <<outputs, keeping, result, recorded>>
    BY <1>a, <1>9 DEF Unlink, books
  <2> QED
    BY <1>a, <2>1
<1>10. ASSUME End PROVE Finished(t)'
  <2>1. recorded' = saved /\ keeping' = {} /\ UNCHANGED <<outputs, final>>
    BY <1>10 DEF End, disk
  <2>2. \A i \in Idx : saved[t][i] \in {Absent, recorded[t][i]}
    BY <1>d DEF Recorded
  <2> QED
    BY <1>a, <2>1, <2>2
<1>11. ASSUME
              (\E f \in BOOLEAN : Start(f)) \/ OpenGate \/ StartFails \/ NoneDue \/ Top
              \/ Empty \/ NoAnswer \/ CheckWorkersAlive \/ CompletionFails \/ Drained
              \/ WriteResults \/ Flush \/ DropFails \/ Close \/ Sigterm
              \/ (\E w \in Worker, x \in Item : Take(w, x))
              \/ (\E w \in Worker, x \in Item, kind \in {"ok", "failed", "error"} : Answer(w, x, kind))
              \/ (\E w \in Worker : PoisonPill(w)) \/ (\E w \in Worker : Jam(w))
              \/ (\E w \in Worker, reports \in BOOLEAN : Die(w, reports))
      PROVE  Finished(t)'
  <2>1. UNCHANGED <<final, outputs, recorded, keeping, result>>
    BY <1>11 DEF Start, OpenGate, StartFails, NoneDue, Top, Empty, NoAnswer, CheckWorkersAlive,
        CompletionFails, Drained, WriteResults, Flush, DropFails, Close, Sigterm, Take, Answer,
        PoisonPill, Die, Jam, work, books, disk, loop
  <2> QED
    BY <1>a, <2>1
<1>12. ASSUME UNCHANGED vars PROVE Finished(t)'
    BY <1>a, <1>12 DEF vars, loop, work, books, disk
<1>m. ASSUME ComputeMetrics PROVE Finished(t)'
  <2>1. result'[t] # result[t] => result'[t] # "none"
    BY <1>a, <1>b, <1>m, Computing
  <2>2. UNCHANGED <<final, outputs, recorded, keeping>>
    BY <1>m DEF ComputeMetrics, disk
  <2> QED
    BY <1>a, <2>1, <2>2
<1> HIDE DEF Typed, Finished
<1> QED
    BY <1>m, <1>1, <1>2, <1>3, <1>4, <1>5, <1>6, <1>7, <1>8, <1>9, <1>10, <1>11, <1>12
       DEF Next, Scoring, Work, Exit, Kill

-----------------------------------------------------------------------------
(* The invariant.                                                          *)

\* Between attempts nothing is in hand and nothing has been recorded.
LEMMA InitHolds == Init => Inv
<1> SUFFICES ASSUME Init PROVE Inv
    OBVIOUS
<1>1. TypeOK
    <2>1. worker \in [Worker -> {"init", "run", "gone", "died", "jammed"}] /\ holds \in [Worker -> SUBSET Item]
        BY DEF Init, Workers
    <2>2. outcome \in [Item -> Outcome \cup {Absent}] /\ result \in [Task -> {"none", "pass", "over"}]
        BY DEF Init, NoOutcomes
    <2>3. recorded \in Records_ /\ saved \in Records_
        BY DEF Init, NoRecords, Records_
    <2>4. out \in Seq(Message) /\ final \in [Task -> [Idx -> Outcome] \cup {Absent}]
        BY DEF Init
    <2>5. attempts \in 0 .. MaxAttempts /\ faults \in 0 .. MaxFaults
        BY DEF Init
    <2> QED
        BY <2>1, <2>2, <2>3, <2>4, <2>5 DEF Init, TypeOK, Phases
<1>2. /\ \A it \in Item : outcome[it] = Absent
      /\ \A t \in Task : result[t] = "none" /\ final[t] = Absent
      /\ \A t \in Task, i \in Idx : recorded[t][i] = Absent /\ saved[t][i] = Absent
      /\ \A w \in Worker : worker[w] = "gone" /\ holds[w] = {}
    BY DEF Init, NoOutcomes, NoRecords, Workers
<1>3. Absent # "spoiled"
    BY AbsentIsNone DEF Outcome, Scored
<1>4. Idle /\ Completes /\ Entitled /\ Exits
    BY <1>2 DEF Init, Idle, Completes, Entitled, Exits, Before, Discarding
<1>5. Unspoiled
    BY <1>2, <1>3 DEF Unspoiled, NothingSpoiled
<1>6. ASSUME NEW it \in Item PROVE ItemInv(it)
    BY <1>2 DEF Init, ItemInv, Unsettled, Located, Covered, AnswerAt, Processing
<1>7. ASSUME NEW t \in Task PROVE TaskInv(t)
    BY <1>2 DEF TaskInv, Resulted, Recorded, Finished
<1> QED
    BY <1>1, <1>4, <1>5, <1>6, <1>7 DEF Inv

\* Every step keeps it.
LEMMA StepKeeps == Inv /\ [Next]_vars => Inv'
<1> SUFFICES ASSUME Inv, [Next]_vars PROVE Inv'
    OBVIOUS
<1>1. TypeOK' /\ Idle' /\ Completes' /\ Unspoiled' /\ Entitled' /\ Exits'
    BY TypeKept, IdleKept, CompletesKept, UnspoiledKept, EntitledKept, ExitsKept
<1>2. ASSUME NEW it \in Item PROVE ItemInv(it)'
    BY UnsettledKept, LocatedKept, CoveredKept DEF ItemInv
<1>3. ASSUME NEW t \in Task PROVE TaskInv(t)'
    BY ResultedKept, RecordedKept, FinishedKept DEF TaskInv
<1> QED
    BY <1>1, <1>2, <1>3 DEF Inv

\* So it holds in every reachable state.
THEOREM Inductive == Spec => []Inv
BY InitHolds, StepKeeps, PTL DEF Spec

-----------------------------------------------------------------------------
(* What follows.                                                           *)

\* Every variable of a run has its type, in every attempt.
THEOREM TypeCorrect == Spec => []TypeOK
<1>1. Inv => TypeOK
    BY DEF Inv
<1> QED
    BY <1>1, Inductive, PTL

\* The places of an instance, counted.
LEMMA PlacesCounted ==
    ASSUME NEW it \in Item, Located(it), out \in Seq(Message)
    PROVE  (it \in pending => Places(it) = 1) /\ (it \notin pending => Places(it) = 0)
<1> DEFINE Q == IF it \in queue THEN 1 ELSE 0
           W == {w \in Worker : it \in holds[w]}
           A == {n \in DOMAIN out : out[n].item = it}
<1>1. Places(it) = Q + Cardinality(W) + Cardinality(A)
    BY DEF Places
<1>2. \A n : n \in A <=> n \in Nat /\ AnswerAt(n, it)
    BY DEF AnswerAt
<1>3. (\A w \in Worker : it \notin holds[w]) => Cardinality(W) = 0
    BY FS_EmptySet
<1>4. (\A n \in Nat : ~ AnswerAt(n, it)) => Cardinality(A) = 0
    <2>1. (\A n \in Nat : ~ AnswerAt(n, it)) => A = {}
        BY <1>2
    <2> QED
        BY <2>1, FS_EmptySet
<1>5. ASSUME NEW w \in Worker, it \in holds[w]
      PROVE  Cardinality(W) = 1 /\ it \in pending /\ it \notin queue
                /\ \A n \in Nat : ~ AnswerAt(n, it)
    <2>1. W = {w}
        BY <1>5 DEF Located
    <2> QED
        BY <1>5, <2>1, FS_Singleton DEF Located
<1>6. ASSUME NEW n \in Nat, AnswerAt(n, it)
      PROVE  Cardinality(A) = 1 /\ it \in pending /\ it \notin queue
                /\ \A w \in Worker : it \notin holds[w]
    <2>1. A = {n}
        BY <1>2, <1>6 DEF Located
    <2> QED
        BY <1>6, <2>1, FS_Singleton DEF Located
<1>7. CASE it \notin pending
    <2>1. it \notin queue /\ (\A w \in Worker : it \notin holds[w]) /\ \A n \in Nat : ~ AnswerAt(n, it)
        BY <1>7 DEF Located
    <2> QED
        BY <1>1, <1>3, <1>4, <1>7, <2>1
<1>8. CASE it \in queue
    <2>1. it \in pending /\ (\A w \in Worker : it \notin holds[w]) /\ \A n \in Nat : ~ AnswerAt(n, it)
        BY <1>8 DEF Located
    <2> QED
        BY <1>1, <1>3, <1>4, <1>8, <2>1
<1>9. CASE \E w \in Worker : it \in holds[w]
    <2>1. /\ Cardinality(W) = 1 /\ it \in pending /\ it \notin queue
          /\ \A n \in Nat : ~ AnswerAt(n, it)
        BY <1>5, <1>9
    <2> QED
        BY <1>1, <1>4, <2>1
<1>10. CASE \E n \in Nat : AnswerAt(n, it)
    <2>1. /\ Cardinality(A) = 1 /\ it \in pending /\ it \notin queue
          /\ \A w \in Worker : it \notin holds[w]
        BY <1>6, <1>10
    <2> QED
        BY <1>1, <1>3, <2>1
<1> QED
    BY <1>7, <1>8, <1>9, <1>10 DEF Located

\* Every instance of a run is settled, being scored or pending, one of the three,
\* and a pending one is in one place, whatever the workers, the health check and a
\* SIGTERM do (process_results and check_workers_alive).
THEOREM AccountedOnce == Spec => []EachInstanceOnce
<1>1. Inv => EachInstanceOnce
    <2> SUFFICES ASSUME Inv, Processing, NEW it \in Item
                 PROVE  LET settled == outcome[it] # Absent
                        IN  /\ it \in pending => ~settled /\ it \notin scoring /\ Places(it) = 1
                            /\ it \in scoring => ~settled
                            /\ it \notin pending => Places(it) = 0
                            /\ settled \/ it \in pending \cup scoring \/ sigterm
        BY DEF EachInstanceOnce
    <2>1. Unsettled(it) /\ Located(it) /\ Covered(it) /\ out \in Seq(Message)
        BY DEF Inv, ItemInv, TypeOK
    <2>2. (it \in pending => Places(it) = 1) /\ (it \notin pending => Places(it) = 0)
        BY <2>1, PlacesCounted
    <2> QED
        BY <2>1, <2>2 DEF Unsettled, Covered
<1> QED
    BY <1>1, Inductive, PTL

\* No record and no finalized result, in memory or on disk, is made of what a
\* shutdown spoiled, though a scoring task may keep the signal to itself
\* (RunProgress._append and finalize, shutdown_requested).
THEOREM ShutdownSpoilsNothing == Spec => []NothingSpoiled
<1>1. Inv => NothingSpoiled
    BY DEF Inv, Unspoiled
<1> QED
    BY <1>1, Inductive, PTL

\* A finalized result has its output files, is within the failure budget and agrees
\* with every record of its task (RunProgress.finalize, check_task_completion).
THEOREM FinalResultsAgree == Spec => []FinalAgrees
<1>1. Inv => FinalAgrees
    <2> SUFFICES ASSUME Inv, NEW t \in Task, final[t] # Absent
                 PROVE  /\ t \in outputs /\ WithinBudget(final[t])
                        /\ \A i \in Idx : saved[t][i] \in {Absent, final[t][i]}
        BY DEF FinalAgrees
    <2> QED
        BY DEF Inv, TaskInv, Finished, Recorded
<1> QED
    BY <1>1, Inductive, PTL

\* When the run gives up because all its workers have exited, no answer is unread:
\* what they put before they exited is seen first (_collect_results's empty get).
THEOREM NoAnswerLost == Spec => []NoAnswerAbandoned
<1>1. Inv => NoAnswerAbandoned
    BY DEF Inv, Exits, NoAnswerAbandoned
<1> QED
    BY <1>1, Inductive, PTL

\* A task gets its result when all its instances have outcomes, whichever coroutine
\* completes it and in whatever order they come (check_task_completion).
THEOREM ResultsCoverTasks == Spec => ResultCoversTask
<1>1. Inv' => \A t \in Task : result'[t] # "none" => \A i \in Idx : outcome'[<<t, i>>] # Absent
    BY DEF Inv, TaskInv, Resulted
<1>2. Inv' => [\A t \in Task :
                 result[t] = "none" /\ result'[t] # "none" =>
                     phase = "restore" \/ \A i \in Idx : outcome'[<<t, i>>] # Absent]_vars
    BY <1>1
<1> QED
    BY <1>2, Inductive, PTL DEF ResultCoversTask

\* What the records on disk can become.
LEMMA SavedSteps ==
    ASSUME Inv, [Next]_vars
    PROVE  UNCHANGED saved \/ saved' = recorded \/ phase = "drop"
<1>1. CASE Flush
    BY <1>1 DEF Flush
<1>2. CASE Drop
    BY <1>2 DEF Drop
<1>3. CASE
            (\E f \in BOOLEAN : Start(f)) \/ Restore \/ OpenGate \/ StartFails
            \/ (\E t0 \in Task : CompleteDue(t0)) \/ NoneDue \/ Top \/ Receive \/ Empty
            \/ NoAnswer \/ CheckWorkersAlive \/ (\E x \in Item, o \in Scored : Score(x, o))
            \/ ComputeMetrics \/ WriteOutputs \/ CompletionFails \/ WriteFinal \/ Drained
            \/ WriteResults
            \/ BeginDiscard \/ Unlink \/ DropFails \/ Close \/ End \/ Sigterm
            \/ (\E w \in Worker, x \in Item : Take(w, x))
            \/ (\E w \in Worker, x \in Item, kind \in {"ok", "failed", "error"} : Answer(w, x, kind))
            \/ (\E w \in Worker : PoisonPill(w)) \/ (\E w \in Worker : Jam(w))
            \/ (\E w \in Worker, reports \in BOOLEAN : Die(w, reports))
    BY <1>3 DEF Start, Restore, OpenGate, StartFails, CompleteDue, NoneDue, Top, Receive, Empty,
        NoAnswer, CheckWorkersAlive, Score, ComputeMetrics, WriteOutputs, CompletionFails,
        WriteFinal, Drained, WriteResults, BeginDiscard, Unlink, DropFails, Close, End, Sigterm,
        Take, Answer, PoisonPill, Die, Jam, disk
<1>4. CASE UNCHANGED vars
    BY <1>4 DEF vars, disk
<1> QED
    BY <1>1, <1>2, <1>3, <1>4 DEF Next, Scoring, Work, Exit, Kill

\* A resumed run loses no record before its results are written and every task has
\* passed, whatever fails, is killed or exceeds its budget (_finalize_and_gate).
THEOREM RecordsKept == Spec => RecordsKeptUntilPassed
<1>1. ASSUME Inv, [Next]_vars, NEW t \in Task, NEW i \in Idx, saved[t][i] # Absent, saved'[t][i] = Absent
      PROVE  fresh \/ (metrics /\ Passed)
    <2>1. recorded[t][i] = saved[t][i]
        BY <1>1 DEF Inv, TaskInv, Recorded
    <2>2. phase = "drop"
        BY <1>1, <2>1, SavedSteps
    <2> QED
        BY <1>1, <2>2 DEF Inv, Entitled, Discarding
<1>2. Inv /\ [Next]_vars =>
        [\A t \in Task, i \in Idx :
            saved[t][i] # Absent /\ saved'[t][i] = Absent => fresh \/ (metrics /\ Passed)]_vars
    BY <1>1
<1> QED
    BY <1>2, Inductive, PTL DEF Spec, RecordsKeptUntilPassed

-----------------------------------------------------------------------------
(* The run uses its records as RecordLog has them.                         *)

\* The tasks whose records are being discarded, as RecordLog sees them.
Dropping == IF phase = "drop" THEN Task ELSE {}

\* Settling an instance records it, once, or leaves the records alone.
LEMMA SettlingIsRecording ==
    ASSUME Inv, NEW x \in Item, NEW o \in Outcome, NEW by, Settle(x, o, by),
           outcome[x] = Absent, o = "spoiled" => sigterm,
           phase # "drop", phase' # "drop", UNCHANGED saved
    PROVE  [Log!Next]_(Log!vars)
<1>1. x[1] \in Task /\ x[2] \in Idx /\ x = <<x[1], x[2]>>
    BY ItemIs
<1>2. UNCHANGED Dropping /\ Dropping = {}
    BY DEF Dropping
<1>3. CASE UNCHANGED recorded
    BY <1>2, <1>3 DEF Log!vars, Dropping
<1>4. CASE /\ ~sigterm /\ x[1] \in keeping /\ o \in Kept
           /\ recorded' = [recorded EXCEPT ![x[1]][x[2]] = o]
    <2>1. o \in {"ok", "failed"}
        BY <1>4 DEF Kept
    <2>2. recorded[x[1]][x[2]] = Absent
        BY <1>1, <1>4 DEF Inv, TaskInv, Recorded
    <2>3. Log!Record(x[1], x[2], o)
        BY <1>2, <1>4, <2>2 DEF Log!Record, Dropping
    <2> QED
        BY <1>1, <2>1, <2>3 DEF Log!Next
<1> QED
    BY <1>3, <1>4, SettlingRecords

\* Every step is a step of RecordLog or leaves the records alone.
LEMMA StepIsLogStep ==
    ASSUME Inv, [Next]_vars
    PROVE  [Log!Next]_(Log!vars)
<1>a. TypeOK /\ Idle /\ Entitled /\ Completes /\ \A it \in Item : Located(it) /\ Unsettled(it)
    BY DEF Inv, ItemInv
<1>s. NothingSpoiled /\ Absent # "spoiled"
    BY AbsentIsNone DEF Inv, Unspoiled, Outcome, Scored
<1>1. ASSUME NEW f \in BOOLEAN, Start(f) PROVE [Log!Next]_(Log!vars)
  <2>1. phase = "off" /\ recorded = saved /\ UNCHANGED <<recorded, saved>> /\ phase' \in {"drop", "restore"}
    BY <1>a, <1>1 DEF Start, Idle, disk
  <2>2. CASE phase' = "drop"
    <3>1. Log!BeginDiscard(Task)
      BY <2>1, <2>2 DEF Log!BeginDiscard
    <3> QED
      BY <3>1 DEF Log!Next
  <2>3. CASE phase' = "restore"
    BY <2>1, <2>3 DEF Log!vars
  <2> QED
    BY <2>1, <2>2, <2>3
<1>2. ASSUME Receive PROVE [Log!Next]_(Log!vars)
  <2>1. phase = "get" /\ UNCHANGED saved
    BY <1>a, <1>2, Receiving DEF disk
  <2>2. CASE phase' = "unwind" /\ UNCHANGED recorded
    BY <2>1, <2>2 DEF Log!vars
  <2>3. ASSUME NEW x \in Item, x \in pending, phase' = "top", UNCHANGED recorded
        PROVE  [Log!Next]_(Log!vars)
    BY <2>1, <2>3 DEF Log!vars
  <2>4. ASSUME NEW x \in Item, x \in pending, phase' = "top", NEW o, o \in {"failed", "error"},
               Settle(x, o, "main")
        PROVE  [Log!Next]_(Log!vars)
    <3>1. outcome[x] = Absent /\ o \in Outcome /\ o # "spoiled"
      BY <1>a, <2>4 DEF Unsettled, Outcome
    <3> QED
      BY <2>1, <2>4, <3>1, SettlingIsRecording
  <2> QED
    BY <1>a, <1>2, <2>2, <2>3, <2>4, Receiving DEF Raise
<1>3. ASSUME NEW x \in Item, NEW o \in Scored, Score(x, o) PROVE [Log!Next]_(Log!vars)
  <2>1. /\ phase \in {"get", "drain", "closed"} /\ phase' = phase /\ UNCHANGED saved
        /\ x \in scoring /\ (o = "spoiled" => sigterm) /\ Settle(x, o, "scoring")
    BY <1>3 DEF Score, At, disk
  <2>2. outcome[x] = Absent /\ o \in Outcome
    BY <1>a, <2>1 DEF Unsettled, Outcome
  <2> QED
    BY <2>1, <2>2, SettlingIsRecording
<1>4. ASSUME Flush PROVE [Log!Next]_(Log!vars)
  <2>1. phase # "drop" /\ phase' # "drop" /\ saved' = recorded /\ UNCHANGED recorded
    BY <1>4 DEF Flush, loop
  <2>2. Log!Save
    BY <2>1 DEF Log!Save
  <2> QED
    BY <2>2 DEF Log!Next
<1>5. ASSUME BeginDiscard PROVE [Log!Next]_(Log!vars)
  <2>1. phase # "drop" /\ phase' = "drop" /\ recorded' = saved /\ UNCHANGED saved
    BY <1>5 DEF BeginDiscard, disk
  <2>2. Log!BeginDiscard(Task)
    BY <2>1 DEF Log!BeginDiscard
  <2> QED
    BY <2>2 DEF Log!Next
<1>6. ASSUME Drop PROVE [Log!Next]_(Log!vars)
  <2>1. /\ phase = "drop" /\ phase' \in {"drop", "unlink"} /\ recorded' = saved'
        /\ saved' \in Records_ /\ \A t \in Task, i \in Idx : saved'[t][i] \in {Absent, saved[t][i]}
    BY <1>a, <1>6, Dropped
  <2>2. saved' \in Log!View
    <3>1. \A t \in Task, i \in Idx : saved'[t][i] # "spoiled"
      BY <1>s, <2>1 DEF NothingSpoiled
    <3> QED
      BY <2>1, <3>1 DEF Records_, Log!View
  <2>3. \A t \in Task, i \in Idx : saved'[t][i] = saved[t][i] \/ (t \in Task /\ saved'[t][i] = Absent)
    BY <2>1
  <2>4. Log!Discard
    BY <2>1, <2>2, <2>3 DEF Log!Discard
  <2> QED
    BY <2>4 DEF Log!Next
<1>7. ASSUME DropFails PROVE [Log!Next]_(Log!vars)
  <2>1. phase' # "drop" /\ UNCHANGED <<saved, recorded>>
    BY <1>7 DEF DropFails, Raise, disk
  <2>2. Log!EndDiscard
    BY <2>1 DEF Log!EndDiscard
  <2> QED
    BY <2>2 DEF Log!Next
<1>8. ASSUME CompletionFails PROVE [Log!Next]_(Log!vars)
  <2>1. phase # "drop" /\ (phase' = phase \/ phase' = "unwind") /\ UNCHANGED <<saved, recorded>>
    BY <1>a, <1>8 DEF CompletionFails, Raise, Completes, disk
  <2> QED
    BY <2>1 DEF Log!vars
<1>9. ASSUME Sigterm PROVE [Log!Next]_(Log!vars)
  <2>1. (phase' = phase \/ phase' # "drop") /\ UNCHANGED <<saved, recorded>>
    BY <1>9 DEF Sigterm, Raise, disk
  <2>2. CASE phase' = phase
    BY <2>1, <2>2 DEF Log!vars
  <2>3. CASE phase' # "drop"
    <3>1. Log!EndDiscard
      BY <2>1, <2>3 DEF Log!EndDiscard
    <3> QED
      BY <3>1 DEF Log!Next
  <2> QED
    BY <2>1, <2>2, <2>3
<1>10. ASSUME End PROVE [Log!Next]_(Log!vars)
  <2>1. phase' # "drop" /\ recorded' = saved /\ UNCHANGED saved
    BY <1>10 DEF End, disk
  <2>2. Log!Lose
    BY <2>1 DEF Log!Lose
  <2> QED
    BY <2>2 DEF Log!Next
<1>11. CASE
            Restore \/ OpenGate \/ StartFails \/ (\E t0 \in Task : CompleteDue(t0)) \/ NoneDue
            \/ Top \/ Empty \/ NoAnswer \/ CheckWorkersAlive \/ ComputeMetrics \/ WriteOutputs
            \/ WriteFinal
            \/ Drained \/ WriteResults \/ Unlink \/ Close
            \/ (\E w \in Worker, x \in Item : Take(w, x))
            \/ (\E w \in Worker, x \in Item, kind \in {"ok", "failed", "error"} : Answer(w, x, kind))
            \/ (\E w \in Worker : PoisonPill(w)) \/ (\E w \in Worker : Jam(w))
            \/ (\E w \in Worker, reports \in BOOLEAN : Die(w, reports))
  <2>1. (phase' = phase \/ (phase # "drop" /\ phase' # "drop")) /\ UNCHANGED <<saved, recorded>>
    BY <1>11 DEF Restore, OpenGate, StartFails, CompleteDue, NoneDue, Top, Empty, NoAnswer,
        CheckWorkersAlive, ComputeMetrics, WriteOutputs, WriteFinal, Drained, WriteResults, Unlink,
        Close, Take, Answer, PoisonPill, Die, Jam, At, Raise, loop, disk
  <2> QED
    BY <2>1 DEF Log!vars
<1>12. CASE UNCHANGED vars
    BY <1>12 DEF vars, loop, disk, Log!vars
<1> QED
    BY <1>1, <1>2, <1>3, <1>4, <1>5, <1>6, <1>7, <1>8, <1>9, <1>10, <1>11, <1>12
       DEF Next, Scoring, Work, Exit, Kill

\* A run records an instance once until it is discarded, records nothing during a
\* discard, and makes records durable in the order RecordLog allows: EvalRun
\* implements RecordLog, which ProgressStore stands for on disk.
THEOREM RecordsAsLog == Spec => RecordsOnce
<1>1. Init => Log!Init
    <2> SUFFICES ASSUME Init PROVE Log!Init
        OBVIOUS
    <2>1. saved = [t \in Task |-> [i \in Idx |-> Absent]] /\ recorded = saved /\ phase = "off"
        BY DEF Init, NoRecords
    <2> QED
        BY <2>1 DEF Log!Init
<1>2. Inv /\ [Next]_vars => [Log!Next]_(Log!vars)
    BY StepIsLogStep
<1> QED
    BY <1>1, <1>2, Inductive, PTL DEF Spec, RecordsOnce, Log!Spec

=============================================================================
