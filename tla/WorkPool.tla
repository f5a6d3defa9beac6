------------------------------ MODULE WorkPool ------------------------------
(***************************************************************************)
(* What the collecting side of a run (EvalRun) relies on in its inference  *)
(* workers: they share the items, each item taken is answered at most once *)
(* and, unless its worker dies, exactly once; a worker leaves only when    *)
(* every item has been taken, or it has lost patience with the queue, and  *)
(* it has answered its own; and an output is the output of the request it  *)
(* is sent back for.                                                       *)
(***************************************************************************)
CONSTANTS Worker, Item, None

VARIABLES
    left,     \* items nobody has taken
    holds,    \* the items each worker has taken and not answered
    answer,   \* what was answered for an item: an item whose output it is, "error", or None
    state,    \* of each worker
    patient   \* do they wait for the end of the items, however long it takes

pool == <<left, holds, answer, state, patient>>

Init ==
    /\ left = Item
    /\ holds = [w \in Worker |-> {}]
    /\ answer = [i \in Item |-> None]
    /\ state = [w \in Worker |-> "run"]
    /\ patient \in BOOLEAN

Take(w, i) ==
    /\ state[w] = "run"
    /\ i \in left
    /\ left' = left \ {i}
    /\ holds' = [holds EXCEPT ![w] = @ \cup {i}]
    /\ UNCHANGED <<answer, state, patient>>

Answer(w, i, what) ==
    /\ state[w] = "run"
    /\ i \in holds[w]
    /\ holds' = [holds EXCEPT ![w] = @ \ {i}]
    /\ answer' = [answer EXCEPT ![i] = what]
    /\ UNCHANGED <<left, state, patient>>

Leave(w) ==
    /\ state[w] = "run"
    /\ left = {} \/ ~patient
    /\ holds[w] = {}
    /\ state' = [state EXCEPT ![w] = "gone"]
    /\ UNCHANGED <<left, holds, answer, patient>>

Die(w) ==
    /\ state[w] = "run"
    /\ state' = [state EXCEPT ![w] = "died"]
    /\ UNCHANGED <<left, holds, answer, patient>>

Next ==
    \E w \in Worker :
        \/ \E i \in Item : Take(w, i) \/ Answer(w, i, i) \/ Answer(w, i, "error")
        \/ Leave(w)
        \/ Die(w)

Spec == Init /\ [][Next]_pool

=============================================================================
