----------------------------- MODULE RecordLog -----------------------------
(***************************************************************************)
(* What a run's progress records promise, with no files in sight: the      *)
(* abstract specification that ProgressStore is shown to implement.        *)
(*                                                                         *)
(* An outcome is recorded once per task and instance.  It is first only    *)
(* in the recording process (in `recorded`, not yet in `saved`), becomes   *)
(* durable with everything recorded before it, and from then on every      *)
(* later run reads exactly that outcome back, until the records of its     *)
(* task, and of its task alone, are discarded.                             *)
(***************************************************************************)
EXTENDS Integers

CONSTANTS Task,     \* the tasks that share one stream
          Idx,      \* the instances of a task
          Outcome,  \* what an instance's record says
          Absent    \* no record

VARIABLES saved,      \* what a reader that starts now restores
          recorded,   \* saved, and what the running process recorded since
          discarding  \* the tasks whose records are being discarded

vars == <<saved, recorded, discarding>>

View == [Task -> [Idx -> Outcome \cup {Absent}]]

\* Every variable has its type.
TypeOK ==
    /\ saved \in View
    /\ recorded \in View
    /\ discarding \in SUBSET Task

Init ==
    /\ saved = [t \in Task |-> [i \in Idx |-> Absent]]
    /\ recorded = saved
    /\ discarding = {}

Record(t, i, o) ==
    /\ discarding = {}
    /\ recorded[t][i] = Absent
    /\ recorded' = [recorded EXCEPT ![t][i] = o]
    /\ UNCHANGED <<saved, discarding>>

Save ==
    /\ saved' = recorded
    /\ UNCHANGED <<recorded, discarding>>

\* The process dies, or gives up what it could not save.
Lose ==
    /\ recorded' = saved
    /\ discarding' = {}
    /\ UNCHANGED saved

BeginDiscard(S) ==
    /\ discarding = {}
    /\ discarding' = S
    /\ recorded' = saved
    /\ UNCHANGED saved

\* Records of the tasks being discarded disappear, a few at a time or all at
\* once; what is left of them still says what it said, and the records of
\* every other task stay.
Discard ==
    /\ saved' \in View
    /\ \A t \in Task, i \in Idx :
          saved'[t][i] = saved[t][i] \/ (t \in discarding /\ saved'[t][i] = Absent)
    /\ recorded' = saved'
    /\ discarding' \in {discarding, {}}

EndDiscard ==
    /\ discarding' = {}
    /\ UNCHANGED <<saved, recorded>>

Next ==
    \/ Save
    \/ Lose
    \/ \E t \in Task, i \in Idx, o \in Outcome : Record(t, i, o)
    \/ \E S \in SUBSET Task : BeginDiscard(S)
    \/ Discard
    \/ EndDiscard

Spec == Init /\ [][Next]_vars
=============================================================================
