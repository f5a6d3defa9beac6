---------------------------- MODULE WorkerBatch ----------------------------
(***************************************************************************)
(* The inference workers of a run: the batching strategies of              *)
(* runners/asynq/batching, the processing of a batch (processing.py) and   *)
(* the dispatcher a provider call goes through (inference/dispatch.py).    *)
(*                                                                         *)
(* All items and then one poison pill per worker are put on one queue; the *)
(* feeder thread of the queue (`backlog`) delivers them in order.  A       *)
(* worker collects a batch, splits it by request type and sampling         *)
(* parameters (the items of one group have the same number of samples),    *)
(* sends one group after the other, and rollouts (Rollout, the CHAT        *)
(* requests of a scaffold) last.  `mode` says how:                         *)
(*   "batched"      a group is one call; the dispatcher keeps Limit        *)
(*                  requests in flight, retries one MaxRetries times, and  *)
(*                  the results are put when the call is over;             *)
(*   "per_request"  every request of a group is a call of its own, Limit   *)
(*                  at once, and its result is put when it is over;        *)
(*   "streaming"    the same, with no batch: items are sent as they come.  *)
(***************************************************************************)
EXTENDS Integers, Sequences, FiniteSets, SequencesExt, Functions

CONSTANTS Worker, Item, None,
          Pill,        \* the None the queue ends with, once per worker
          Samples,     \* Item -> number of samples (sampling_params.num_samples)
          Rollout,     \* the items processed as rollouts
          ChunkSize,   \* most items of a batch
          Budget,      \* most samples of a batch, 0 for no budget
          Limit,       \* requests in flight at once
          MaxRetries,  \* of a request the dispatcher sends
          MaxErrors,   \* bound: requests that fail
          MaxFaults    \* bound: workers killed, calls failed, terminal errors

ASSUME BatchAssumption ==
    /\ IsFiniteSet(Worker) /\ IsFiniteSet(Item)
    /\ None \notin Item /\ Pill \notin Item /\ Pill # None
    /\ "error" \notin Item /\ "error" # None
    /\ Samples \in [Item -> Nat \ {0}]
    /\ Rollout \subseteq Item
    /\ ChunkSize \in Nat \ {0}
    /\ Budget \in Nat
    /\ Limit \in Nat \ {0}
    /\ MaxRetries \in Nat
    /\ MaxErrors \in Nat
    /\ MaxFaults \in Nat

VARIABLES
    mode,
    backlog,   \* items and pills put and not yet delivered
    queue,     \* those delivered and not yet taken
    pending,   \* _pending_item: an item that did not fit the last batch, or None
    batch,     \* items collected and not yet part of a call
    last,      \* saw_shutdown: is this the worker's last batch
    group,     \* the items of the call under way, in order
    line,      \* requests of the call waiting to be sent: place in the group, attempt
    flight,    \* requests sent
    outcome,   \* results recorded: for each place, an item whose output it is, "error", or None
    put,       \* the places whose result was put on the result queue
    failing,   \* a streaming worker has a task with a terminal error
    pc,
    answers,   \* what was put on the result queue, for each item
    errors, faults

work == <<pending, batch, last, group, line, flight, outcome, put, failing, pc>>
vars == <<mode, backlog, queue, work, answers, errors, faults>>

-----------------------------------------------------------------------------
Running == {"collect", "process", "stream"}
Request == [place : 1..Cardinality(Item), attempt : 0..MaxRetries]

Start == IF mode = "streaming" THEN "stream" ELSE "collect"

Init ==
    /\ mode \in {"batched", "per_request", "streaming"}
    /\ \E order \in SetToSeqs(Item) :
          backlog = order \o [n \in 1..Cardinality(Worker) |-> Pill]
    /\ queue = <<>>
    /\ pending = [w \in Worker |-> None]
    /\ batch = [w \in Worker |-> <<>>]
    /\ last = [w \in Worker |-> FALSE]
    /\ group = [w \in Worker |-> <<>>]
    /\ line = [w \in Worker |-> <<>>]
    /\ flight = [w \in Worker |-> {}]
    /\ outcome = [w \in Worker |-> <<>>]
    /\ put = [w \in Worker |-> {}]
    /\ failing = [w \in Worker |-> FALSE]
    /\ pc = [w \in Worker |-> Start]
    /\ answers = [i \in Item |-> <<>>]
    /\ errors = 0
    /\ faults = 0

Feed ==
    /\ backlog # <<>>
    /\ queue' = Append(queue, Head(backlog))
    /\ backlog' = Tail(backlog)
    /\ UNCHANGED <<mode, work, answers, errors, faults>>

-----------------------------------------------------------------------------
(* Collecting a batch.                                                     *)

\* How many samples the items of a batch have: a sample is an item and a number.
SamplesOf(items) == Cardinality(UNION {{i} \X (1..Samples[i]) : i \in Range(items)})

FitsAlways(w, i) == TRUE     \* bug: the budget closes a batch only once it is reached
Fits(w, i) ==
    \/ Budget = 0
    \/ batch[w] = <<>>
    \/ SamplesOf(batch[w]) + Samples[i] <= Budget

Full(items) == Len(items) >= ChunkSize \/ (Budget > 0 /\ SamplesOf(items) >= Budget)

Process(w) == pc' = [pc EXCEPT ![w] = "process"]

\* A worker killed inside get keeps the queue's reader lock, and nobody gets anything.
Jammed == \E w \in Worker : pc[w] = "jammed"

\* The item carried over comes before the queue.
NextItem(w) == IF pending[w] # None THEN pending[w] ELSE Head(queue)
PopsNext(w) ==
    IF pending[w] # None THEN UNCHANGED queue
    ELSE queue # <<>> /\ ~Jammed /\ queue' = Tail(queue)

Collect(w, i) ==
    /\ pc[w] = "collect"
    /\ PopsNext(w)
    /\ i = NextItem(w)
    /\ \/ /\ i = Pill
          /\ last' = [last EXCEPT ![w] = TRUE]
          /\ Process(w)
          /\ UNCHANGED <<pending, batch>>
       \/ /\ i # Pill /\ ~Fits(w, i)
          /\ pending' = [pending EXCEPT ![w] = i]
          /\ Process(w)
          /\ UNCHANGED <<batch, last>>
       \/ /\ i # Pill /\ Fits(w, i)
          /\ pending' = [pending EXCEPT ![w] = None]
          /\ batch' = [batch EXCEPT ![w] = Append(@, i)]
          /\ IF Full(batch'[w]) THEN Process(w) ELSE UNCHANGED pc
          /\ UNCHANGED last
    /\ UNCHANGED <<mode, backlog, group, line, flight, outcome, put, failing, answers, errors, faults>>

\* Nothing came for a while, or others held the reader lock: the batch is what there is.
Timeout(w) ==
    /\ pc[w] = "collect"
    /\ pending[w] = None /\ batch[w] # <<>>
    /\ Process(w)
    /\ UNCHANGED <<mode, backlog, queue, pending, batch, last, group, line, flight, outcome, put,
                   failing, answers, errors, faults>>

-----------------------------------------------------------------------------
(* Processing a batch.                                                     *)

Error == errors < MaxErrors /\ errors' = errors + 1
Fault == faults < MaxFaults /\ faults' = faults + 1

Put(i, what) == answers' = [answers EXCEPT ![i] = Append(@, what)]

\* The items of a sequence that are in a set, in their order: the k-th of them
\* is at the place that has k of them up to it.
Upto(places, n) == {m \in places : m <= n}
Nth(places, k) == CHOOSE n \in places : Cardinality(Upto(places, n)) = k
Only(items, kind) ==
    LET places == {n \in DOMAIN items : items[n] \in kind}
    IN  [k \in 1..Cardinality(places) |-> items[Nth(places, k)]]

\* The items that go out together with the first: those with its parameters,
\* rollouts after everything else.
FirstGroup(items) ==
    LET plain == Only(items, Item \ Rollout)
    IN  IF plain = <<>> THEN items
        ELSE Only(items, {i \in Item \ Rollout : Samples[i] = Samples[Head(plain)]})

RestOf(items, taken) == Only(items, Item \ Range(taken))

Send(w, items) ==
    /\ group' = [group EXCEPT ![w] = items]
    /\ line' = [line EXCEPT ![w] = [n \in DOMAIN items |-> [place |-> n, attempt |-> 0]]]
    /\ outcome' = [outcome EXCEPT ![w] = [n \in DOMAIN items |-> None]]
    /\ put' = [put EXCEPT ![w] = {}]

Idle(w) == pc[w] = "process" /\ group[w] = <<>>

StartGroup(w) ==
    /\ Idle(w) /\ batch[w] # <<>>
    /\ Send(w, FirstGroup(batch[w]))
    /\ batch' = [batch EXCEPT ![w] = RestOf(@, FirstGroup(@))]
    /\ UNCHANGED <<mode, backlog, queue, pending, last, flight, failing, pc, answers, errors, faults>>

\* A request that cannot be prepared is answered and not sent.  (Preparing a
\* rollout checks nothing that could fail: its scaffold sends the tools itself.)
Unprepared(w, i) ==
    /\ Error
    /\ Idle(w) /\ batch[w] # <<>>
    /\ i \in Range(FirstGroup(batch[w])) \ Rollout
    /\ batch' = [batch EXCEPT ![w] = RestOf(@, <<i>>)]
    /\ Put(i, "error")
    /\ UNCHANGED <<mode, backlog, queue, pending, last, group, line, flight, outcome, put,
                   failing, pc, faults>>

\* The batch is done: the worker leaves after its last one.
ForgetLast(w) ==      \* bug: a pill behind a batch is forgotten
    /\ Idle(w) /\ batch[w] = <<>>
    /\ pc' = [pc EXCEPT ![w] = "collect"]
    /\ UNCHANGED <<mode, backlog, queue, pending, batch, last, group, line, flight, outcome, put,
                   failing, answers, errors, faults>>

EndBatch(w) ==
    /\ Idle(w) /\ batch[w] = <<>>
    /\ pc' = [pc EXCEPT ![w] = IF last[w] THEN "gone" ELSE "collect"]
    /\ UNCHANGED <<mode, backlog, queue, pending, batch, last, group, line, flight, outcome, put,
                   failing, answers, errors, faults>>

-----------------------------------------------------------------------------
(* The requests of a call.                                                 *)

\* Is every request a call of its own?
Alone(w) == mode # "batched" \/ (group[w] # <<>> /\ Range(group[w]) \subseteq Rollout)
RetriesOneMore(w) == MaxRetries + 1      \* bug: the first attempt is not counted
Retries(w) == IF group[w] # <<>> /\ Range(group[w]) \subseteq Rollout THEN 0 ELSE MaxRetries

Dispatch(w) ==
    /\ pc[w] \in Running
    /\ line[w] # <<>>
    /\ Cardinality(flight[w]) < Limit
    /\ flight' = [flight EXCEPT ![w] = @ \cup {Head(line[w])}]
    /\ line' = [line EXCEPT ![w] = Tail(@)]
    /\ UNCHANGED <<mode, backlog, queue, pending, batch, last, group, outcome, put, failing, pc,
                   answers, errors, faults>>

\* Results are kept at their place, whatever the order they come in.
RecordInTurn(w, r, what) ==      \* bug: in the order they come in
    LET free == {n \in DOMAIN outcome[w] : outcome[w][n] = None}
    IN  outcome' = [outcome EXCEPT ![w][CHOOSE n \in free : \A k \in free : n <= k] = what]
Record(w, r, what) == outcome' = [outcome EXCEPT ![w][r.place] = what]

Succeed(w, r) ==
    /\ pc[w] \in Running
    /\ r \in flight[w]
    /\ flight' = [flight EXCEPT ![w] = @ \ {r}]
    /\ Record(w, r, group[w][r.place])
    /\ UNCHANGED <<mode, backlog, queue, pending, batch, last, group, line, put, failing, pc,
                   answers, errors, faults>>

\* A failed request is sent again, behind the others of its call; a call of
\* its own keeps its turn.
Fail(w, r) ==
    /\ Error
    /\ pc[w] \in Running
    /\ r \in flight[w]
    /\ LET again == [place |-> r.place, attempt |-> r.attempt + 1]
       IN  \/ /\ r.attempt < Retries(w) /\ Alone(w)
              /\ flight' = [flight EXCEPT ![w] = (@ \ {r}) \cup {again}]
              /\ UNCHANGED <<line, outcome>>
           \/ /\ r.attempt < Retries(w) /\ ~Alone(w)
              /\ flight' = [flight EXCEPT ![w] = @ \ {r}]
              /\ line' = [line EXCEPT ![w] = Append(@, again)]
              /\ UNCHANGED outcome
           \/ /\ r.attempt >= Retries(w)
              /\ flight' = [flight EXCEPT ![w] = @ \ {r}]
              /\ Record(w, r, "error")
              /\ UNCHANGED line
    /\ UNCHANGED <<mode, backlog, queue, pending, batch, last, group, put, failing, pc,
                   answers, faults>>

\* A call raises: what it has no result for is an error.
CallFails(w) ==
    /\ Fault
    /\ pc[w] = "process"
    /\ group[w] # <<>> /\ ~Alone(w) /\ put[w] = {}
    /\ \E built \in 0..Len(group[w]) - 1 :
          /\ \A n \in 1..built : outcome[w][n] # None
          /\ outcome' = [outcome EXCEPT ![w] =
                            [n \in DOMAIN @ |-> IF n <= built THEN @[n] ELSE "error"]]
    /\ line' = [line EXCEPT ![w] = <<>>]
    /\ flight' = [flight EXCEPT ![w] = {}]
    /\ UNCHANGED <<mode, backlog, queue, pending, batch, last, group, put, failing, pc,
                   answers, errors>>

Over(w) == line[w] = <<>> /\ flight[w] = {}

PutResult(w, n) ==
    /\ pc[w] \in Running
    /\ n \in DOMAIN group[w] \ put[w]
    /\ outcome[w][n] # None
    /\ ~Alone(w) => Over(w) /\ \A k \in 1..n - 1 : k \in put[w]
    /\ Put(group[w][n], outcome[w][n])
    /\ put' = [put EXCEPT ![w] = @ \cup {n}]
    /\ UNCHANGED <<mode, backlog, queue, pending, batch, last, group, line, flight, outcome,
                   failing, pc, errors, faults>>

EndGroup(w) ==
    /\ pc[w] = "process"
    /\ group[w] # <<>> /\ put[w] = DOMAIN group[w]
    /\ Send(w, <<>>)
    /\ UNCHANGED <<mode, backlog, queue, pending, batch, last, flight, failing, pc,
                   answers, errors, faults>>

-----------------------------------------------------------------------------
(* Streaming.                                                              *)

Stream(w, i) ==
    /\ pc[w] = "stream" /\ ~last[w] /\ pending[w] = None
    /\ queue # <<>> /\ ~Jammed /\ i = Head(queue)
    /\ queue' = Tail(queue)
    /\ \/ /\ failing[w] /\ i # Pill      \* taken, and then the error is raised
          /\ pending' = [pending EXCEPT ![w] = i]
          /\ UNCHANGED <<last, group, line, outcome>>
       \/ /\ ~failing[w] /\ i # Pill
          /\ group' = [group EXCEPT ![w] = Append(@, i)]
          /\ line' = [line EXCEPT ![w] = Append(@, [place |-> Len(group[w]) + 1, attempt |-> 0])]
          /\ outcome' = [outcome EXCEPT ![w] = Append(@, None)]
          /\ UNCHANGED <<pending, last>>
       \/ /\ i = Pill
          /\ last' = [last EXCEPT ![w] = TRUE]
          /\ UNCHANGED <<pending, group, line, outcome>>
    /\ UNCHANGED <<mode, backlog, batch, flight, put, failing, pc, answers, errors, faults>>

\* Nothing in flight, and nothing came for a second, or others held the reader lock.
Abandon(w) ==
    /\ pc[w] = "stream" /\ ~last[w] /\ ~failing[w]
    /\ put[w] = DOMAIN group[w]
    /\ last' = [last EXCEPT ![w] = TRUE]
    /\ UNCHANGED <<mode, backlog, queue, pending, batch, group, line, flight, outcome, put, failing,
                   pc, answers, errors, faults>>

EndStream(w) ==
    /\ pc[w] = "stream" /\ last[w] /\ ~failing[w]
    /\ put[w] = DOMAIN group[w]
    /\ pc' = [pc EXCEPT ![w] = "gone"]
    /\ UNCHANGED <<mode, backlog, queue, pending, batch, last, group, line, flight, outcome, put,
                   failing, answers, errors, faults>>

-----------------------------------------------------------------------------
(* Failure.                                                                *)

\* A terminal error ends the worker with a message; in a streaming worker
\* the other tasks go on until the main loop sees it.
Terminal(w, r) ==
    /\ Fault
    /\ pc[w] \in Running
    /\ r \in flight[w]
    /\ \/ /\ pc[w] = "stream"
          /\ failing' = [failing EXCEPT ![w] = TRUE]
          /\ flight' = [flight EXCEPT ![w] = @ \ {r}]
          /\ UNCHANGED pc
       \/ /\ pc[w] = "process"
          /\ pc' = [pc EXCEPT ![w] = "fatal"]
          /\ UNCHANGED <<failing, flight>>
    /\ UNCHANGED <<mode, backlog, queue, pending, batch, last, group, line, outcome, put,
                   answers, errors>>

Raise(w) ==
    /\ failing[w] /\ pc[w] = "stream"
    /\ pc' = [pc EXCEPT ![w] = "fatal"]
    /\ UNCHANGED <<mode, backlog, queue, pending, batch, last, group, line, flight, outcome, put,
                   failing, answers, errors, faults>>

Kill(w) ==
    /\ Fault
    /\ pc[w] \in Running
    /\ \/ pc' = [pc EXCEPT ![w] = "killed"]
       \/ /\ pc[w] \in {"collect", "stream"} /\ ~last[w] /\ pending[w] = None /\ ~Jammed
          /\ pc' = [pc EXCEPT ![w] = "jammed"]
    /\ UNCHANGED <<mode, backlog, queue, pending, batch, last, group, line, flight, outcome, put,
                   failing, answers, errors>>

WorkerStep(w) ==
    \/ \E i \in Item \cup {Pill} : Collect(w, i) \/ Stream(w, i)
    \/ Timeout(w) \/ StartGroup(w) \/ EndBatch(w)
    \/ Dispatch(w)
    \/ \E r \in Request : Succeed(w, r)
    \/ \E n \in 1..Cardinality(Item) : PutResult(w, n)
    \/ EndGroup(w) \/ EndStream(w) \/ Raise(w)

Failure(w) ==
    \/ \E i \in Item : Unprepared(w, i)
    \/ \E r \in Request : Fail(w, r) \/ Terminal(w, r)
    \/ CallFails(w) \/ Abandon(w) \/ Kill(w)

Next == Feed \/ \E w \in Worker : WorkerStep(w) \/ Failure(w)

Spec == Init /\ [][Next]_vars
FairSpec == Spec /\ WF_vars(Feed) /\ \A w \in Worker : WF_vars(WorkerStep(w))

-----------------------------------------------------------------------------
\* Every variable has its type.  No request is sent more often than its retries
\* allow (run_results).
TypeOK ==
    /\ mode \in {"batched", "per_request", "streaming"}
    /\ backlog \in Seq(Item \cup {Pill})
    /\ queue \in Seq(Item \cup {Pill})
    /\ pending \in [Worker -> Item \cup {None}]
    /\ batch \in [Worker -> Seq(Item)]
    /\ last \in [Worker -> BOOLEAN]
    /\ group \in [Worker -> Seq(Item)]
    /\ line \in [Worker -> Seq(Request)]
    /\ flight \in [Worker -> SUBSET Request]
    /\ outcome \in [Worker -> Seq(Item \cup {None, "error"})]
    /\ put \in [Worker -> SUBSET (1..Cardinality(Item))]
    /\ failing \in [Worker -> BOOLEAN]
    /\ pc \in [Worker -> Running \cup {"gone", "fatal", "killed", "jammed"}]
    /\ answers \in [Item -> Seq(Item \cup {"error"})]
    /\ errors \in 0..MaxErrors
    /\ faults \in 0..MaxFaults

\* A batch never exceeds its budget of samples, unless a single item does,
\* nor its number of items, whatever was carried over from the one before.
BatchWithinBudget ==
    \A w \in Worker :
        /\ Len(batch[w]) <= ChunkSize
        /\ Budget > 0 /\ SamplesOf(batch[w]) > Budget => Len(batch[w]) = 1

\* The items a worker has taken and not answered.
Holds(w) ==
    ({pending[w]} \ {None}) \cup Range(batch[w]) \cup {group[w][n] : n \in DOMAIN group[w] \ put[w]}

Left == Range(queue \o backlog) \ {Pill}
Answered(i) == IF answers[i] = <<>> THEN None ELSE Last(answers[i])
State(w) == IF pc[w] \in Running THEN "run" ELSE IF pc[w] = "gone" THEN "gone" ELSE "died"

Pool == INSTANCE WorkPool WITH
    left <- Left,
    holds <- [w \in Worker |-> Holds(w)],
    answer <- [i \in Item |-> Answered(i)],
    state <- [w \in Worker |-> State(w)],
    patient <- mode # "streaming"

\* The workers are a pool as the rest of the run takes them to be: no item is
\* lost between the queue, the item carried over, the batch, the call and its
\* retries, none is answered twice or with another's output, and a worker
\* leaves with nothing in hand and nothing left to take, unless it streams and
\* the queue was silent for a second.
WorksAsPool == Pool!Spec

\* Every worker ends: each finds its pill, whatever it carried over and
\* whichever batch the pill came behind, unless one killed inside get keeps the
\* reader lock: then it is the run that ends the others.
EveryWorkerEnds == <>(Jammed \/ \A w \in Worker : pc[w] \notin Running)

=============================================================================
