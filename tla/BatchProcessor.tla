--------------------------- MODULE BatchProcessor ---------------------------
(***************************************************************************)
(* The inference sidecar's batcher (batching.py): submit puts a request on *)
(* a bounded queue and waits for its future within a latency budget; one   *)
(* worker task gathers batches and scores them in a thread; run_direct     *)
(* scores outside the queue in threads that cannot be interrupted.         *)
(*                                                                         *)
(* A step is what one task does between two awaits.  Time is the set of    *)
(* requests whose budget has passed.                                       *)
(***************************************************************************)
EXTENDS Naturals, Sequences, FiniteSets, SequencesExt

CONSTANTS
    Queued,    \* requests that call submit
    Direct,    \* requests that call run_direct
    MaxBatch,  \* self.max_batch_size
    MaxQueue,  \* self.max_queue
    MaxStops   \* bound: how often the registry stops the batcher

Request == Queued \cup Direct

ASSUME BatchAssumption ==
    /\ Queued \cap Direct = {}
    /\ MaxBatch \in Nat \ {0} /\ MaxQueue \in Nat \ {0} /\ MaxStops \in Nat

VARIABLES
    queue,     \* self._queue: requests in order
    future,    \* the state of each request's future (its task for Direct)
    caller,    \* what each caller has: "new", "waiting", or its answer
    due,       \* the requests whose budget has passed
    worker,    \* where self._worker is: "none", "get", "fill", "scoring",
               \* or "died" of an exception nothing catches
    batch,     \* the worker's local batch
    orphans,   \* scoring threads left behind by a cancelled worker
    inflight,  \* self._direct_inflight
    rejected,  \* self.rejected
    expired,   \* self.expired_dropped
    stops

vars == <<queue, future, caller, due, worker, batch, orphans, inflight,
          rejected, expired, stops>>

\* "answered": with a result or with what infer_batch raised.
Done == {"answered", "saturated", "cancelled"}

TypeOK ==
    /\ queue \in Seq(Queued) /\ Len(queue) <= MaxQueue
    /\ future \in [Request -> {"none", "pending"} \cup Done]
    /\ caller \in [Request -> {"new", "waiting", "answered", "429"}]
    /\ due \subseteq Request
    /\ worker \in {"none", "get", "fill", "scoring", "died"}
    /\ batch \in Seq(Queued) /\ Len(batch) <= MaxBatch
    /\ orphans \in 0 .. MaxStops
    /\ inflight \in 0 .. MaxQueue
    /\ rejected \in Nat /\ expired \in Nat
    /\ stops \in 0 .. MaxStops

Init ==
    /\ queue = <<>> /\ batch = <<>>
    /\ future = [r \in Request |-> "none"]
    /\ caller = [r \in Request |-> "new"]
    /\ due = {}
    /\ worker = "none"
    /\ orphans = 0 /\ inflight = 0
    /\ rejected = 0 /\ expired = 0
    /\ stops = 0

Live == {"get", "fill", "scoring"}

(***************************************************************************)
(* start and stop.                                                         *)
(***************************************************************************)
Start ==
    /\ worker = "none"
    /\ worker' = "get"
    /\ UNCHANGED <<queue, future, caller, due, batch, orphans, inflight,
                   rejected, expired, stops>>

\* The worker is cancelled at its await.  What it had gathered is forgotten; a
\* thread it waited for runs on.
Stop ==
    /\ worker \in Live /\ stops < MaxStops
    /\ worker' = "none"
    /\ batch' = <<>>
    /\ orphans' = IF worker = "scoring" THEN orphans + 1 ELSE orphans
    /\ stops' = stops + 1
    /\ UNCHANGED <<queue, future, caller, due, inflight, rejected, expired>>

OrphanEnds ==
    /\ orphans > 0
    /\ orphans' = orphans - 1
    /\ UNCHANGED <<queue, future, caller, due, worker, batch, inflight,
                   rejected, expired, stops>>

(***************************************************************************)
(* submit: put_nowait, then wait_for on the future.                        *)
(***************************************************************************)

HasRoom == Len(queue) < MaxQueue

Submit(r) ==
    /\ caller[r] = "new"
    /\ IF HasRoom
       THEN /\ queue' = Append(queue, r)
            /\ future' = [future EXCEPT ![r] = "pending"]
            /\ caller' = [caller EXCEPT ![r] = "waiting"]
            /\ UNCHANGED rejected
       ELSE /\ caller' = [caller EXCEPT ![r] = "429"]
            /\ rejected' = rejected + 1
            /\ UNCHANGED <<queue, future>>
    /\ UNCHANGED <<due, worker, batch, orphans, inflight, expired, stops>>

BudgetPasses(r) ==
    /\ caller[r] = "waiting" /\ r \notin due
    /\ due' = due \cup {r}
    /\ UNCHANGED <<queue, future, caller, worker, batch, orphans, inflight,
                   rejected, expired, stops>>

\* mutant: a timed-out direct request gives its slot back while its thread runs
TimesOutFreesSlot(r) ==
    /\ caller[r] = "waiting" /\ r \in due
    /\ caller' = [caller EXCEPT ![r] = "429"]
    /\ rejected' = rejected + 1
    /\ future' = IF r \in Queued /\ future[r] = "pending"
                 THEN [future EXCEPT ![r] = "cancelled"] ELSE future
    /\ inflight' = IF r \in Direct THEN inflight - 1 ELSE inflight
    /\ UNCHANGED <<queue, due, worker, batch, orphans, expired, stops>>

\* mutant: submit awaits its future without wait_for
TimesOutDirectOnly(r) ==
    /\ caller[r] = "waiting" /\ r \in due /\ r \in Direct
    /\ caller' = [caller EXCEPT ![r] = "429"]
    /\ rejected' = rejected + 1
    /\ UNCHANGED <<queue, future, due, worker, batch, orphans, inflight,
                   expired, stops>>

\* wait_for gives up: a pending future is cancelled; the thread of a direct
\* request is shielded.
TimesOut(r) ==
    /\ caller[r] = "waiting" /\ r \in due
    /\ caller' = [caller EXCEPT ![r] = "429"]
    /\ rejected' = rejected + 1
    /\ future' = IF r \in Queued /\ future[r] = "pending"
                 THEN [future EXCEPT ![r] = "cancelled"] ELSE future
    /\ UNCHANGED <<queue, due, worker, batch, orphans, inflight, expired, stops>>

Answer(state) == IF state = "saturated" THEN "429" ELSE state

\* The caller's task sees its future done.
Wakes(r) ==
    /\ caller[r] = "waiting" /\ future[r] \in {"answered", "saturated"}
    /\ caller' = [caller EXCEPT ![r] = Answer(future[r])]
    /\ UNCHANGED <<queue, future, due, worker, batch, orphans, inflight,
                   rejected, expired, stops>>

(***************************************************************************)
(* The worker.                                                             *)
(***************************************************************************)
\* mutant: the budget is not looked at
StaleDoneOnly(r) == future[r] \in Done

Stale(r) == future[r] \in Done \/ r \in due

\* mutant: expired work is dropped without failing its future
drop_if_stale_silently(r) ==
    /\ Stale(r)
    /\ expired' = expired + 1
    /\ UNCHANGED <<future, worker, batch>>

\* _drop_if_stale on the head of the queue.
drop_if_stale(r) ==
    /\ Stale(r)
    /\ expired' = expired + 1
    /\ future' = IF future[r] \in Done THEN future
                 ELSE [future EXCEPT ![r] = "saturated"]
    /\ UNCHANGED <<worker, batch>>

\* _run takes its first item, _fill_batch the following ones.
Gather ==
    /\ worker \in {"get", "fill"} /\ queue # <<>> /\ Len(batch) < MaxBatch
    /\ queue' = Tail(queue)
    /\ \/ drop_if_stale(Head(queue))
       \/ /\ ~Stale(Head(queue))
          /\ batch' = Append(batch, Head(queue))
          /\ worker' = "fill"
          /\ UNCHANGED <<future, expired>>
    /\ UNCHANGED <<caller, due, orphans, inflight, rejected, stops>>

\* The batch is full or max_wait_ms has passed: infer_batch starts in a thread.
Dispatch ==
    /\ worker = "fill"
    /\ worker' = "scoring"
    /\ UNCHANGED <<queue, future, caller, due, batch, orphans, inflight,
                   rejected, expired, stops>>

\* The futures of the batch that are not done.
Unresolved == {r \in ToSet(batch) : future[r] \notin Done}

\* set_result or set_exception on a done future raises InvalidStateError, which
\* nothing in the worker task catches.
Resolve(targets) ==
    /\ future' = [r \in Request |-> IF r \in targets THEN "answered" ELSE future[r]]
    /\ worker' = IF \E r \in targets : future[r] \in Done THEN "died" ELSE "get"

Scored ==
    /\ worker = "scoring"
    /\ Resolve(Unresolved)
    /\ batch' = <<>>
    /\ UNCHANGED <<queue, caller, due, orphans, inflight, rejected, expired, stops>>

(***************************************************************************)
(* run_direct and its done callback.                                       *)
(***************************************************************************)
RunDirect(d) ==
    /\ caller[d] = "new"
    /\ IF inflight < MaxQueue
       THEN /\ inflight' = inflight + 1
            /\ future' = [future EXCEPT ![d] = "pending"]
            /\ caller' = [caller EXCEPT ![d] = "waiting"]
            /\ UNCHANGED rejected
       ELSE /\ caller' = [caller EXCEPT ![d] = "429"]
            /\ rejected' = rejected + 1
            /\ UNCHANGED <<inflight, future>>
    /\ UNCHANGED <<queue, due, worker, batch, orphans, expired, stops>>

DirectDone(d) ==
    /\ future[d] = "pending"
    /\ future' = [future EXCEPT ![d] = "answered"]
    /\ inflight' = inflight - 1
    /\ UNCHANGED <<queue, caller, due, worker, batch, orphans, rejected, expired, stops>>

Next ==
    \/ Start \/ Stop \/ OrphanEnds
    \/ Gather \/ Dispatch \/ Scored
    \/ \E r \in Queued : Submit(r)
    \/ \E d \in Direct : RunDirect(d) \/ DirectDone(d)
    \/ \E r \in Request : BudgetPasses(r) \/ TimesOut(r) \/ Wakes(r)

\* Timers fire and due callers are resumed; the worker's own steps run, and a
\* scoring thread returns.  Nothing forces a submit, a start or a stop.
Spec ==
    /\ Init /\ [][Next]_vars
    /\ WF_vars(Gather) /\ WF_vars(Dispatch) /\ WF_vars(Scored)
    /\ \A r \in Request : WF_vars(BudgetPasses(r)) /\ WF_vars(TimesOut(r) \/ Wakes(r))

(***************************************************************************)
(* Properties.                                                             *)
(***************************************************************************)

\* A request that still waits for its future is exactly once in the queue or in
\* the batch, unless a stop threw its batch away, and no order of timeouts and
\* scoring ends the worker that would take it: a result set on a cancelled
\* future would (submit, _fill_batch, _worker).
NothingStranded ==
    stops = 0 =>
        /\ worker # "died"
        /\ \A r \in Queued : future[r] = "pending" =>
            LET taken == queue \o batch
            IN  Cardinality({i \in DOMAIN taken : taken[i] = r}) = 1

Scoring == {d \in Direct : future[d] = "pending"}

\* The direct path is bounded by the threads that really run, the ones whose
\* caller has long had its 429 included (run_direct, _direct_done).
DirectBounded ==
    inflight = Cardinality(Scoring) /\ Cardinality(Scoring) <= MaxQueue

\* Work that expired before the worker took it is never scored.
ExpiredNeverGathered ==
    [][\A r \in Queued :
         r \in ToSet(batch') \ ToSet(batch) => caller[r] = "waiting" /\ r \notin due]_vars

\* No caller waits past its budget, whatever the worker does: it is answered
\* even when the batcher is stopped under it and never started again.
EveryCallerAnswered ==
    \A r \in Request : caller[r] = "waiting" ~> caller[r] \in {"answered", "429"}

=============================================================================
