---------------------------- MODULE RequestPath ----------------------------
(***************************************************************************)
(* The path of one evaluation through the runtime: the route handlers      *)
(* (routes.py), GuardrailsEvaluator with its bounded detector pool         *)
(* (evaluator.py), the judges' spend tally (judge_audit_sink.py and        *)
(* judge_runtime.py) and the telemetry buffer (telemetry.py).              *)
(*                                                                         *)
(* The handlers run on one event loop: a step of a handler is what it does *)
(* between two awaits.  The pipeline itself runs in worker threads.  What  *)
(* the detectors decide is the subject of Orchestrator.                    *)
(***************************************************************************)
EXTENDS Naturals, Sequences, FiniteSets, SequencesExt

CONSTANTS
    Texts,      \* requests that need the pool (text, stage, tool result)
    Tools,      \* tool calls without a result text: decided on the loop
    Workers,    \* ZNYX_DETECTOR_WORKERS
    QueueMax,   \* ZNYX_DETECTOR_QUEUE_MAX
    Members,    \* judge calls one pipeline makes at most
    MaxCalls,   \* max_calls of the budget for the escalating detector
    MaxBuffer,  \* MAX_BUFFER_SIZE of the telemetry
    BatchSize,  \* TELEMETRY_BATCH_SIZE
    Configs     \* the settings considered: sets of Feature

Feature == {"deadline",    \* ZNYX_DETECTOR_DEADLINE_SECONDS > 0
            "judges",      \* the policy escalates to judges
            "telemetry"}   \* TelemetryEmitter.enabled

Request == Texts \cup Tools
Capacity == Workers + QueueMax

ASSUME PathAssumption ==
    /\ Texts \cap Tools = {} /\ IsFiniteSet(Texts) /\ IsFiniteSet(Tools)
    /\ Workers \in Nat \ {0} /\ QueueMax \in Nat
    /\ Members \in Nat /\ MaxCalls \in Nat \ {0}
    /\ MaxBuffer \in Nat \ {0} /\ BatchSize \in Nat \ {0}
    /\ Configs \subseteq SUBSET Feature

VARIABLES
    config,      \* the features that are on
    reply,       \* per request: "new", "waiting", or how it was answered
    work,        \* per request: its work item in the pool
    queue,       \* the executor's queue
    permits,     \* the value of _ADMISSION
    snap,        \* per request: the spend its judge context was built with
    calls,       \* per request: judge calls it has made
    spend,       \* calls in RuntimeJudgeAudit._spend for the detector
    evals,       \* decisions counted (guardrails_evaluations_total and
                 \* Heartbeat.eval_count); also numbers the telemetry events
    buffer,      \* TelemetryEmitter._buffer: event numbers in order
    flight,      \* the batch being posted
    sent,        \* the last event the control plane has received
    flusher      \* the flush loop: "on", "off"

poolVars == <<work, queue, permits>>
judgeVars == <<snap, calls, spend>>
teleVars == <<buffer, flight, sent, flusher>>
vars == <<config, reply, poolVars, judgeVars, evals, teleVars>>

Decided == {"200", "blocked"}   \* a decision was returned: 200 OK
\* "refused": an error status (401, 429, 500, 503); "gone": nobody to answer.
Refused == {"refused", "gone"}

TypeOK ==
    /\ config \in Configs
    /\ reply \in [Request -> {"new", "waiting"} \cup Decided \cup Refused]
    /\ work \in [Request -> {"none", "queued", "running", "ok", "raised",
                             "cancelled"}]
    /\ queue \in Seq(Texts)
    /\ permits \in 0 .. Capacity
    /\ snap \in [Request -> Nat] /\ calls \in [Request -> 0 .. Members]
    /\ spend \in Nat /\ evals \in Nat
    /\ buffer \in Seq(Nat) /\ flight \in Seq(Nat) /\ sent \in Nat
    /\ flusher \in {"on", "off"}

Init ==
    /\ config \in Configs
    /\ reply = [r \in Request |-> "new"]
    /\ work = [r \in Request |-> "none"]
    /\ queue = <<>> /\ permits = Capacity
    /\ snap = [r \in Request |-> 0] /\ calls = [r \in Request |-> 0]
    /\ spend = 0 /\ evals = 0
    /\ buffer = <<>> /\ flight = <<>> /\ sent = 0
    /\ flusher = "on"

Running == {r \in Texts : work[r] = "running"}
Queued == {queue[i] : i \in DOMAIN queue}
Waiting == {r \in Request : reply[r] = "waiting"}

(***************************************************************************)
(* A decision leaves the handler: _emit_telemetry appends to a deque that  *)
(* drops its oldest event when full, and the route counts the evaluation.  *)
(* Nothing awaits in between.                                              *)
(***************************************************************************)
emit(e) ==
    LET b == Append(buffer, e)
    IN  buffer' = IF "telemetry" \notin config THEN buffer
                  ELSE IF Len(b) > MaxBuffer THEN Tail(b) ELSE b

_emit_telemetry ==
    /\ emit(evals + 1)
    /\ UNCHANGED <<flight, sent, flusher>>

_record_metrics == evals' = evals + 1

Decide(r, how) ==
    /\ reply' = [reply EXCEPT ![r] = how]
    /\ _emit_telemetry
    /\ _record_metrics

Refuse(r, how) ==
    /\ reply' = [reply EXCEPT ![r] = how]
    /\ UNCHANGED <<evals, teleVars>>

(***************************************************************************)
(* The handler up to its first await: authentication, the policy of the    *)
(* bundle (which raises RuntimeError when there is none), the judge        *)
(* context with its snapshot of the spend, admission, run_in_executor.     *)
(***************************************************************************)
\* 401 and 500 of the authentication, 503 when there is no policy.
TurnedAway(r) ==
    /\ reply[r] = "new" /\ flusher = "on"
    /\ Refuse(r, "refused")
    /\ UNCHANGED <<config, poolVars, judgeVars>>

ToolCall(r) ==
    /\ r \in Tools /\ reply[r] = "new" /\ flusher = "on"
    /\ Decide(r, "200")
    /\ UNCHANGED <<config, poolVars, judgeVars>>

Overloaded(r) ==
    /\ r \in Texts /\ reply[r] = "new" /\ flusher = "on"
    /\ permits = 0
    /\ Refuse(r, "refused")
    /\ UNCHANGED <<config, poolVars, judgeVars>>

\* What the budget check of this request will see for as long as it runs.
_snapshot == spend

context_for(r) == snap' = [snap EXCEPT ![r] = _snapshot]

Admit(r) ==
    /\ r \in Texts /\ reply[r] = "new" /\ flusher = "on"
    /\ permits > 0
    /\ permits' = permits - 1
    /\ work' = [work EXCEPT ![r] = "queued"]
    /\ queue' = Append(queue, r)
    /\ context_for(r)
    /\ reply' = [reply EXCEPT ![r] = "waiting"]
    /\ UNCHANGED <<config, calls, spend, evals, teleVars>>

(***************************************************************************)
(* The pool.  The budget check of each member reads the snapshot; _record  *)
(* counts the call after it was made.  A call without a verdict is never   *)
(* recorded.                                                               *)
(***************************************************************************)
StartWork ==
    /\ queue # <<>> /\ Cardinality(Running) < Workers
    /\ work' = [work EXCEPT ![Head(queue)] = "running"]
    /\ queue' = Tail(queue)
    /\ UNCHANGED <<config, reply, permits, judgeVars, evals, teleVars>>

\* mutant: off by one at the cap
budget_allows_one_more(r) == snap[r] <= MaxCalls

budget_allows(r) == snap[r] < MaxCalls

policy_uses_judge == "judges" \in config

_record == spend' \in {spend, spend + 1}

JudgeCall(r) ==
    /\ policy_uses_judge /\ r \in Running /\ calls[r] < Members
    /\ budget_allows(r)
    /\ calls' = [calls EXCEPT ![r] = @ + 1]
    /\ _record
    /\ UNCHANGED <<config, reply, poolVars, snap, evals, teleVars>>

\* The result, or nothing if nobody waits (_retrieve_late_result); the judge
\* context ends with the pipeline.
Result(r, how) ==
    /\ work' = [work EXCEPT ![r] = IF reply[r] = "waiting" THEN how ELSE "none"]
    /\ snap' = [snap EXCEPT ![r] = 0]
    /\ calls' = [calls EXCEPT ![r] = 0]

\* mutant: the permit is released on the normal path only, not in a finally
_call_without_finally(r, how) ==
    /\ r \in Running
    /\ Result(r, how)
    /\ permits' = IF how = "ok" THEN permits + 1 ELSE permits
    /\ UNCHANGED <<config, reply, queue, spend, evals, teleVars>>

_call(r, how) ==
    /\ r \in Running
    /\ Result(r, how)
    /\ permits' = permits + 1
    /\ UNCHANGED <<config, reply, queue, spend, evals, teleVars>>

Finish(r) == \E how \in {"ok", "raised"} : _call(r, how)

(***************************************************************************)
(* The handler after the await.  A RuntimeError is answered 503 as if the  *)
(* policy were missing, any other exception 500.                           *)
(***************************************************************************)
Resume(r) ==
    /\ reply[r] = "waiting"
    /\ \/ work[r] = "ok" /\ Decide(r, "200")
       \/ work[r] = "raised" /\ Refuse(r, "refused")
    /\ work' = [work EXCEPT ![r] = "none"]
    /\ UNCHANGED <<config, queue, permits, judgeVars>>

\* mutant: the deadline only covers work a thread has started
DeadlinePasses_started(r) ==
    /\ "deadline" \in config /\ reply[r] = "waiting" /\ work[r] # "queued"
    /\ Decide(r, "blocked")
    /\ UNCHANGED <<config, poolVars, judgeVars>>

\* wait_for(shield(fut)): the work goes on, the caller gets a BLOCK.
DeadlinePasses(r) ==
    /\ "deadline" \in config /\ reply[r] = "waiting"
    /\ Decide(r, "blocked")
    /\ UNCHANGED <<config, poolVars, judgeVars>>

\* Future.cancel of work no thread has begun; a work item is queued once.
Cancel(r) ==
    \E i \in DOMAIN queue :
        /\ queue[i] = r
        /\ queue' = RemoveAt(queue, i)
        /\ work' = [work EXCEPT ![r] = "cancelled"]

\* mutant: the future is not shielded under a deadline either
Disconnect_unshielded(r) ==
    /\ reply[r] = "waiting"
    /\ Refuse(r, "gone")
    /\ IF r \in Queued THEN Cancel(r) ELSE UNCHANGED <<work, queue>>
    /\ UNCHANGED <<config, permits, judgeVars>>

\* The client goes away and the handler is cancelled.  Without a deadline the
\* future is awaited unshielded: cancelling it drops work no thread has begun.
Disconnect(r) ==
    /\ reply[r] = "waiting"
    /\ Refuse(r, "gone")
    /\ IF "deadline" \notin config /\ r \in Queued
       THEN Cancel(r)
       ELSE UNCHANGED <<work, queue>>
    /\ UNCHANGED <<config, permits, judgeVars>>

(***************************************************************************)
(* Telemetry: _flush takes a batch off the buffer, then posts it; a post   *)
(* that fails loses the batch.  stop cancels the loop wherever it is and   *)
(* flushes once more; the server drains its requests first.                *)
(***************************************************************************)
Batch == SubSeq(buffer, 1, IF Len(buffer) < BatchSize THEN Len(buffer)
                           ELSE BatchSize)

TakeBatch ==
    /\ flight = <<>> /\ buffer # <<>>
    /\ flight' = Batch
    /\ buffer' = SubSeq(buffer, Len(Batch) + 1, Len(buffer))

_flush ==
    /\ flusher = "on"
    /\ TakeBatch
    /\ UNCHANGED <<config, reply, poolVars, judgeVars, evals, sent, flusher>>

Posted ==
    /\ flight # <<>>
    /\ flight' = <<>>
    /\ sent' = flight[Len(flight)]
    /\ UNCHANGED <<config, reply, poolVars, judgeVars, evals, buffer, flusher>>

\* mutant: a batch that could not be sent goes back into the buffer
PostFails_requeued ==
    /\ flight # <<>>
    /\ flight' = <<>>
    /\ buffer' = buffer \o flight
    /\ UNCHANGED <<config, reply, poolVars, judgeVars, evals, sent, flusher>>

PostFails ==
    /\ flight # <<>>
    /\ flight' = <<>>
    /\ UNCHANGED <<config, reply, poolVars, judgeVars, evals, buffer, sent,
                   flusher>>

StopTelemetry ==
    /\ flusher = "on" /\ Waiting = {}
    /\ flusher' = "off"
    /\ \/ /\ buffer = <<>>
          /\ flight' = <<>> /\ UNCHANGED buffer
       \/ /\ buffer # <<>>
          /\ flight' = Batch
          /\ buffer' = SubSeq(buffer, Len(Batch) + 1, Len(buffer))
    /\ \/ sent' = sent          \* the cancelled post may have arrived or not
       \/ flight # <<>> /\ sent' = flight[Len(flight)]
    /\ UNCHANGED <<config, reply, poolVars, judgeVars, evals>>

Next ==
    \/ \E r \in Request :
          \/ TurnedAway(r) \/ ToolCall(r)
          \/ Overloaded(r) \/ Admit(r) \/ JudgeCall(r) \/ Finish(r)
          \/ Resume(r) \/ DeadlinePasses(r) \/ Disconnect(r)
    \/ StartWork \/ _flush \/ Posted \/ PostFails \/ StopTelemetry

(***************************************************************************)
(* Fairness: the loop runs what is ready and its timers fire.  A pipeline  *)
(* may run for ever (a regular expression, a remote call without timeout), *)
(* so nothing is assumed of the threads.                                   *)
(***************************************************************************)
Fairness ==
    \A r \in Request : WF_vars(Resume(r)) /\ WF_vars(DeadlinePasses(r))

Spec == Init /\ [][Next]_vars /\ Fairness

(***************************************************************************)
(* Properties.                                                             *)
(***************************************************************************)

\* With a deadline configured the permits of _ADMISSION are exactly those of
\* the work that is queued or running, whatever the callers do meanwhile: time
\* out, go away, or get an exception.  Without one, a permit is lost for every
\* queued item whose caller went away, and only for those.
PermitsConserved ==
    LET held == {r \in Texts : work[r] \in {"queued", "running"}}
        lost == {r \in Texts : work[r] = "cancelled"}
    IN  /\ permits + Cardinality(held) + Cardinality(lost) = Capacity
        /\ "deadline" \in config => lost = {}
        /\ Cardinality(Running) <= Workers

\* The snapshot that judge contexts are built with is stale while they run, so
\* the cap on a detector's judge calls can be overrun, but only by what the
\* pool admitted before the cap was reached.
OverspendBounded == spend <= MaxCalls - 1 + Capacity * Members

\* Every telemetry event stands for one decision that was returned (a late
\* result of a request already blocked adds none), and the control plane never
\* receives an event twice or out of order.
TelemetryTruthful ==
    LET all == <<sent>> \o flight \o buffer
    IN  /\ \A i, j \in DOMAIN all : i < j => all[i] < all[j]
        /\ \A i \in DOMAIN all : all[i] <= evals
        /\ evals = Cardinality({r \in Request : reply[r] \in Decided})

\* With a deadline configured every request that was admitted is answered,
\* even if every thread of the pool hangs.
DeadlineAnswers ==
    \A r \in Request : []("deadline" \in config /\ reply[r] = "waiting"
                             => <>(reply[r] # "waiting"))
=============================================================================
