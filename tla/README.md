# Formal models of the Znyx runtime

This directory holds TLA+ models of the Znyx runtime, the TLC configurations
that check them on small instances and TLAPS proofs of their main properties.
Paths below are relative to `packages/<package>/src/<module>/` unless they say
otherwise; *runtime*, *core* and *inference* stand for the three packages.

## 1. The system

The runtime evaluates text (prompts, outputs, tool calls, streams) against a
policy and answers ALLOW, WARN, REDACT, TRANSFORM or BLOCK.

| Component | Source | State it keeps | Operations | What is hard |
|---|---|---|---|---|
| Bundle manager | runtime `bundle_manager.py`, core `policy/bundle.py` | bundle, etag, resolver, cycle task; cache file and `.bak` on disk | start, stop, poll, fetch, save, get_policy, listener cycle | crashes between file operations, lost answers, etag versus bundle, boot retries, fail modes |
| Request handlers and evaluator pool | runtime `api/routes.py`, core `engine/evaluator.py` | pool permits, queued and running threads | evaluate, evaluate_tool, evaluate_stage | deadlines, disconnects and threads that outlive them |
| Orchestrator, escalation, egress, consensus, scorecard gate, remediation | core `engine/*.py`, `core/decision.py`, `core/risk.py` | none between requests | run detectors, escalate, permit, vote, aggregate | partial failure, precedence, composition of redactions |
| Detectors | core `detectors/*.py` | none but the two below, and the conversations of jailbreak | detect | filters, caps and spans that interact |
| Abuse, unbounded consumption | core `detectors/` | buckets, prompt hashes, session table | detect | bounded memory, eviction, clocks |
| Remote detectors | core `detectors/remote.py` | none between calls | detect | retries, deadlines, two waits on one call |
| Judges | runtime `judge_runtime.py`, `judge_audit_sink.py` | spend tally | budget, record | check and spend are apart |
| Streaming evaluator | core `engine/streaming.py`, runtime `api/stream_routes.py` | buffer, released text, blocked flag | push, flush | matches across chunk and window boundaries, release before the rest is known |
| Batcher | inference `batching.py` | queue, futures, worker, direct in-flight count | submit, run_direct, worker loop, start, stop | timeouts racing results, cancellation, bounds |
| Inference service | inference `main.py`, `registry.py`, `cache.py` | active slot, variants, decision cache | infer, reload | a put after an invalidate, overlapping reloads |
| Model reconciler, installer | inference `reconciler.py`, `registry.py`, `install.py`, `runners/_fetch.py`, `runners/_artifacts.py` | variants per task, artifacts on disk, install jobs | reconcile, install, unload | threads outside the lock, partial downloads |
| Pin push | runtime `inference_sync.py` | last pushed pins | push | a restart forgets what was loaded |
| Rate limiter | core `middleware/rate_limit.py` | windows per key, Redis counters | is_allowed, cleanup, dispatch | clocks, cleanup, store failures |
| Audit spools | runtime `audit_sink.py`, `judge_audit_sink.py` | append-only files | record, read | torn writes |
| Telemetry | runtime `telemetry.py` | bounded buffer | emit, flush, stop | overflow while a batch is under way |
| Benchmark worker | runtime `benchmark_worker.py` | a leased run, the page it is at | claim, post, complete, report | lost calls, expired leases, restarts |
| Model runners, providers, policy schema and lint, CLI, console | all packages | none | pure functions, I/O | data, not control |

The components interact by calls in one asyncio process per service, by HTTP
between the runtime, the control plane and the inference sidecar, by listener
callbacks of the bundle manager (pins are pushed to the sidecar after every
poll) and by files. Detectors run in the threads of the evaluator's pool.

## 2. Modules

| Module | Models | Used by |
|---|---|---|
| `PolicySource` | abstract: policies are offered, adopted, served, lost with the process | refined by `BundleManager` |
| `BundleManager` | runtime `bundle_manager.py`, core `save_bundle_to_file` | `MCBundleManager`, `BundleManagerProofs` |
| `RequestPath` | runtime `api/routes.py`, `telemetry.py`, `judge_runtime.py`, spend tally of `judge_audit_sink.py`; the pool and deadline of core `engine/evaluator.py` | `MCRequestPath`, `RequestPathProofs` |
| `Orchestrator` | core `engine/orchestrator.py`, `escalation.py`, `judge_escalation.py`, `consensus.py`, `egress.py`, `scorecard_gate.py`, `remediation.py`, the evaluate path of `evaluator.py` | `MCOrchestrator`, `OrchestratorProofs` |
| `StreamingEvaluator` | core `engine/streaming.py`, driven by `api/stream_routes.py` | `MCStreamingEvaluator`, `TextProofs` |
| `BatchProcessor` | inference `batching.py` | `MCBatchProcessor`, `BatchProcessorProofs` |
| `ModelReconciler` | runtime `inference_sync.py`; inference `reconciler.py`, `registry.py` (variants), `install.py`, `runners/_fetch.py`, `runners/_artifacts.py` | `MCModelReconciler`, `ModelReconcilerProofs` |
| `InferenceService` | inference `main.py`, `registry.py` (active slot, reload), `cache.py` | `MCInferenceService`, `InferenceServiceProofs` |
| `BenchmarkWorker` | runtime `benchmark_worker.py` | `RuntimeServices` |
| `AuditSpool` | runtime `audit_sink.py`, `judge_audit_sink.py` | `RuntimeServices` |
| `RateLimiter` | core `middleware/rate_limit.py` | `RuntimeServices` |
| `RemoteDetector` | core `detectors/remote.py` | `RuntimeServices` |
| `SessionState` | core `detectors/abuse.py`, `unbounded_consumption.py` | `RuntimeServices` |
| `RuntimeServices` | the five services above side by side | `MCRuntimeServices`, `RuntimeServicesProofs` |
| `Verdicts` | core `core/risk.py`, `core/decision.py`, what a detector returns | the rule modules |
| `PrivacyRules` | secrets, pii | `DecisionRules` |
| `SchemaRules` | structure | `DecisionRules` |
| `ContentRules` | jailbreak, toxicity, topic, competitor, compliance, exfiltration, malicious_url, language | `AgentRules` |
| `AgentRules` | tools, excessive_agency, human_approval_gate, tool_permission_audit, mcp_manifest_scanner, semantic_cache_integrity, tenant_scope_assertion | `RetrievalRules` |
| `RetrievalRules` | hallucination, citation_integrity, retrieval_jamming, embedding_integrity, corpus_poisoning_monitor, reasoning_trace_disclosure, output_control_char_sanitizer | `OutputRules` |
| `OutputRules` | tool_output_injection, retrieval_chunk_injection, memory_write_poisoning, multimodal_injection, system_prompt_leakage, document_metadata_leakage, sensitive_business_data, code_safety, bias, copyright, gibberish, sentiment, numerical_consistency | `DecisionRules` |
| `DecisionRules` | a detector asked again and again about a growing text | `MCDecisionRules`, `TextProofs` |

Each `MC` module gives the constants small values; it redefines nothing.
Operators named after a property's breakage (`CallFailsRetries`,
`DetectOriginal`, ...) are deliberately wrong variants of the operator they stand
before; no specification uses them. They record which mistake each property
would catch. `PROJECT.json` maps every definition to its lines.

**BundleManager.** State: the deployment (`config`), the control plane
(`published`, `history`), the files (`cache`, `bak`, `policyFile`), the fetch
under way and its reply, what is in memory (`bundle`, `etag`, `resolver`) and the
detached listener cycle. A bundle is a model value, and its etag is the bundle
itself: the control plane gives one etag per content. `validate_bundle` is the
set `Valid`. Someone else may leave anything in the cache file while the process is
down (`DamageCache`): what does not parse, an invalid bundle or, unless the
deployment requires signatures, a valid one nobody published (`planted`). Not
requiring them is the default (`config.py:45`), and then a plain JSON file is
accepted with an empty hash (`bundle.py:334`) or one the loader computes itself
(`bundle.py:375-378`). `Offered` is what may be served: what was published and, where
signatures are not required, what was planted. `_fetch_bundle` is split where it awaits or touches the disk:
`FetchSend`, `FetchFails` or `FetchApplies`, then `SaveBackup`,
`SaveWriteTemp`, `SaveReplace`, any of which a crash or `SaveFails` may
interrupt. The bundle and the etag are assigned in `FetchApplies`, before the
save, as in the code. `Crash` is possible everywhere; `Publish`, `DamageCache`
and `EditPolicyFile` are the environment.

**StreamingEvaluator.** A text is its length, plus the set of spans that the
detectors would block; a window that contains a span whole gets BLOCK, any other
verdict is a choice. `Push(n)` appends, `PushWindow` is one turn of the loop in
`push`, `Flush` evaluates the tail. `released` and `start` are positions.

**BatchProcessor.** Requests are `Queued` (submit) or `Direct` (run_direct). Each
has a future and a caller; `TimesOut` is `wait_for` cancelling the future, `Wakes`
the caller reading it. Time is the set `due` of requests whose budget has passed.
The worker gathers, dispatches to a thread and resolves futures, and `Stop` may
cancel it at each await while its thread runs on (`OrphanEnds`).

**ModelReconciler.** The runtime publishes pin maps and pushes them; the sidecar
handles pushes one after the other under its lock, fetching, verifying, loading
and evicting; a push that timed out at the runtime still runs at the sidecar. A
directory is `Absent`, `Partial`, or the revision it holds. The operator's
install runs in a thread outside the lock. Either process may restart.

**Orchestrator.** One evaluation at a time, since nothing is kept between
requests; every reply of every backend, judge, audit sink and budget is a choice.
A text is the set of its characters that are still in clear, so that redaction is
removal and composition can be stated. A detector is a record of what it finds
and how the policy configures it (action, layers, fallback, additive, stamp,
on_fail, egress rules). Actions follow the code: `Receive`; `Skip` or `Detect` a
detector; `EnterLayer`, `CallPrepared` or `CallRefused` (the egress gate with its
audit record), `CallAnswered`, `CallFails` or `BudgetRefuses`, `JudgesDone`;
`CallRaises`, an exception that is not BackendUnavailable (`future.result` of
`remote.py:288` ends with a TimeoutError): the escalation does not catch it, no
fallback runs and the request ends without a response, unless a deadline is
configured, when `evaluator.py:134` takes it for its own (both are
`asyncio.TimeoutError` since Python 3.11) and answers as for an expired deadline;
judges and custom plugins catch everything (`judge_escalation.py:102`,
`plugin.py:286-290`); `Settle` (the scorecard gate and the chained text); the `Custom...` actions;
`Answer` (aggregation, remediation, response); `Return`. Confidences and risk
scores appear as the nondeterminism of `escalate_when` and of votes.

**RequestPath.** Three places meet: the handlers on the event loop, the threads
of the pool, and the telemetry task. A request is admitted (`Admit`), refused at
the limit (`Overloaded`) or at the door (`TurnedAway`), runs (`StartWork`,
`JudgeCall`, `Finish`) and is answered when its handler is resumed (`Resume`), or
before, by `DeadlinePasses` or `Disconnect`; its thread runs on then and its
permit returns with the thread. The spend tally is copied into the
context of a request at its admission, and each judge adds to the tally after
its answer. An evaluation emits a telemetry
event; `TakeBatch`, `Posted`, `PostFails` and `StopTelemetry` are the sender.
What the pipeline decides is the subject of `Orchestrator`.

**InferenceService.** One task. The weights on disk are a generation that
`ReInstall` advances; a batcher keeps the generation it was built with. A reload
takes the active batcher out (`BeginReload`), builds and installs the next one
after an await (`BuildFails`, `BuildSucceeds`, `EndReload`); a variant is loaded
and evicted by the reconciler meanwhile. A spec is the identity it is served under
and whether its runner is the stub, which answers to the model its spec names
(`registry.py:108-109`). The active slot may be put on the variant's own spec; the
two then share their cache keys. `AllowStub` is the escape hatch of `main.py:52`. A
request is looked up in the cache
under its key, scored by the batcher it found, and put into the cache when its
score arrives, whatever has happened in between.

**BenchmarkWorker.** The control plane is external: it leases a queued run, keeps
the pages it is sent, and may let a lease expire. Each call of a worker may be
lost, applied without an answer, or refused; a worker may restart anywhere.
`Work(w)` is one call with its consequences.

**AuditSpool.** A file is a sequence of lines, a line the sequence of events whose
bytes it holds. A write may stop half way by a full disk (`WriteFails`) or a crash
(`Crash`); the next append continues the unfinished line. The reader keeps the
lines that parse.

**RateLimiter.** One sliding window per pod and kind of key, a fixed window in
Redis, which may fail before or after counting; then the pod's own window
decides. The address and the key of one request are checked in two steps. A list
of times is the set of its entries, each with its time and the number of its pass,
so that a window is a set to count.

**RemoteDetector.** One call: the coroutine on the shared loop (`Begin`, `Resolved`,
`Send`, `Answered` or `AttemptFails` with its backoff, each cut to what is left of
the total deadline) and the wait of the synchronous entry point (`SyncWaitExpires`).
An attempt may fail at any time after it was sent. `overrun` records that the loop,
the resolver or the transport took longer than the code allows for. The circuit
breaker is left out: every caller builds a detector, and with it a breaker, for each
call (`escalation.py:128`, `plugin.py:197`, `remote.py:244`), and the breaker is asked
only before the first attempt, when it has counted nothing.

**SessionState.** A request runs two detectors for its session: the token bucket and
prompt hashes of abuse, and the session table of unbounded consumption. The
consumption detector updates its totals and its states under two holds of its lock;
neither reads what the other writes, and the model takes them, and the read of the
clock before a lock, as one step. The deque of prompts loses its oldest entries up to
the first one in the window (`From`), as `popleft` does; the `OrderedDict` of states is
a sequence of pairs, oldest first. The log of a session's requests, which the code does
not keep, is what the properties compare with. The conversation history of jailbreak
is not here: all that a decision reads of it, how many of the last messages had a
risk, is an input of `ContentRules` (`suspicious`).

**The rule modules.** A text is the set of facts that the regular expressions,
word lists and parsers find in it, each a record with what the rules look at (its
kind, its span, the context around it); the expressions themselves are external. The
operators are the code after the match: contexts and filters, severities, caps
and floors of the risk, thresholds, the choice of the decision and, where a
detector rewrites, the spliced text. `DecisionRules` configures one detector,
then lets the text grow by one fact at a time (`Grow`); the metadata of a request
(tools, approvals, passages, manifests) are facts as well. Growth by single facts
makes "more evidence" a step, so that what a new fact may do is an action
property. A redaction is a series of splices at the offsets of the original text
(`Splices`), over the spans that the overlap guard leaves (`apart`). A text that is
searched again for each phrase is the set of spans replaced so far: a phrase is
still found where none of them touches it (`untouched`). Business phrases are found
without the blanks around them and replaced with them, so that a match has two spans
(`replaced_span`). Of personal data a match says how many of its cells partial
redaction shows in front and at the back (`shown_head`, `shown_tail`): the domain of an
e-mail address, two parts of an IPv4 address, the last digits. Whether a simple
address counts is decided by the full addresses of the same text (`inside_address`).
The tables of expressions are not in the models: a match carries the rule, class,
severity or rank that its table gives it. `SchemaRules` does not call
itself: what a schema inside a schema finds is the constant operator
`validate_nested`, which `MCDecisionRules` gives the value `_validate_schema`; the
proofs hold whatever a nested schema finds.

**RuntimeServices** places the five services that share no state side by side; a
behaviour exercises one of them (`part`), so that for TLC their states add up
instead of multiplying. Its proofs are about each service whatever `part` is.

## 3. Runs

| Run | Expect | Instance and what it shows |
|---|---|---|
| `BundlePolicies` | pass | Two valid bundles (one empty) and an invalid one, two boot attempts; managed fail-open on a working disk, managed fail-closed on a faulty disk, local fail-closed, with and without required signatures; a cache file damaged or planted. Fail-closed never serves without a policy; on a working disk etag, served bundle and cache agree; publication reaches requests and listeners; `PolicySource` is implemented. Two bundles are enough: every property compares at most the served, the cached and the published one, and the third is the one that must never appear. 178,872 states. |
| `BundleSaveFault` | violation | Managed fail-open on a disk that may fail; see Findings. |
| `RuntimeRequests` | pass | Three evaluations and a tool call over one worker with one place in its queue, so that one runs, one waits and one is refused; two judges against a budget of one call; a telemetry buffer of two and batches of one. Deadline with judges, deadline with telemetry, and judges without deadline: telemetry and judges do not meet. Permits are conserved, the budget is overrun by no more than the pool holds, telemetry tells the truth, a deadline answers though every thread hangs. 454,230 states. |
| `OrchestratorRequests` | pass | Policies of three detectors over three characters: every fallback, stamp and on_fail, additive or not, one and two layers, a consensus of two judges, plugins, custom endpoints, and policies that forbid a crossing by switch, region or allowlist; two stages. Three detectors give one before and one after the detector that escalates. 114,177 states. |
| `StreamSafety` | pass | Windows of 5, overlap 2 (an argument over the clamp), texts up to 13 characters, every chunking, one short span anywhere. 13 characters hold three full windows and a tail, so that each position of a span relative to a boundary occurs. |
| `BatchRequests` | pass | Two queued and two direct requests over a queue and direct path of one: both limits are reached; one stop and restart. 127,600 states. |
| `SidecarPins` | pass | One task pinned, repointed, unpinned; two handlers at a time, so that one push waits while another fetches. 45,936 states. |
| `SidecarInstalls` | pass | Two tasks, two models, one of them installed by hand meanwhile. 1,433,088 states. |
| `SidecarRevision` | violation | Pins without a digest; see Findings. |
| `InferenceDecisions` | pass | Two requests, with and without pin and parameters, two reloads that may overlap and fail, a variant beside the active slot, one re-install under the same pin, a cache of one entry so that every put evicts. The specs are the stub, the stub under a model's name, and the variant's own model. Nobody is scored by another model than the pinned one, batched decisions of the active slot in the cache are as fresh as the loaded weights, the stub never answers for real weights. 6,912,112 states. |
| `RuntimeServices` | pass | Two workers on a run of three pages, one of them filtered, with two faults; three audit events and two torn writes; a pod with a Redis, a limit of 2 in a window of 2 ticks, four requests; a remote call with and without a total deadline, retried and cut at every place; two sessions, two texts, five requests, so that the deque of three prompts and the table of one state are full and evict. Each limit is reached and passed. 839,703 states. |
| `DecisionRules` | pass | Thirty-eight detectors, each in a few configurations, on every text that a handful of facts make: the properties relate two facts, or a fact and the evidence that excuses it. No harmful fact hides another, a redaction is complete and leaves the rest alone, a signed approval opens the gate for its own action only, a supported claim is never called ungrounded. 161,312 states. |

Bounds that are not in the code: `MaxAttempts` (the length of the boot delays),
`MaxText`, `MaxStops`, `Handler`, `MaxInstalls`, `MaxFaults`, `MaxTorn`,
`MaxBuilt`, `MaxElapsed`, `MaxRequests`, `MaxClock`, `SessionState`'s `MaxCalls` and `MaxTime`,
and the finite sets of bundles, pins, policies, requests, facts and reported
spans. Where the proofs of section 5 apply, none of these matters for safety.

Deadlock is checked except where the system ends: a stream after `flush`, a
batcher whose requests are all answered and whose stops are used up, a runtime
that has stopped, a sidecar or services whose bounded clients are done, a text that has
every fact.

**Fairness.** Nothing ever forces the environment: no request, chunk, publication,
restart, damage or stop is assumed to happen. *BundleManager*: the poll timer
fires and a request ends (httpx times it out); a control plane asked again and
again answers sometime and the answer arrives; a disk asked again and again
takes the file; the listener task gets its turn and, run again and again, succeeds
sometime. The last three are strong fairness because the code retries for ever on
a timer; without them no polling client could promise anything. *RequestPath*: the
loop resumes a handler that is ready and its timers fire; nothing is assumed of the
pool's threads, which may hang in a regular expression. *Streaming*: the
generator runs to its end. *Batcher*: timers fire, due callers are resumed, the
worker's steps run and a scoring thread returns. *Reconciler*: each cycle pushes,
`asyncio.Lock` is first come first served (strong fairness of `Acquire`), and a
download tried again and again succeeds. *Orchestrator*: weak fairness of its own
steps, as each of its calls has a timeout. *BenchmarkWorker*: each worker takes
its next step, and the control plane lets a lease expire (its promise, and the
only one). *InferenceService*, *AuditSpool*, *RateLimiter*, *RemoteDetector*,
*SessionState* and *DecisionRules* have safety properties only and no fairness.

## 4. Findings

Each has a run in which TLC finds the violation.

- `BundleSaveFault` (`bundle_manager.py:266-270`): bundle and etag are assigned
  before the save. If the save fails on the last boot attempt, the old cached
  bundle is served beside the new etag, and each later poll is answered 304: the
  new policy is not served until the next publication.
- `SidecarRevision` (`reconciler.py:178`, `_artifacts.py:46-66`): a pin without a
  digest, repointed to another revision, is served by the files of the first.

Other differences met while reading, which no run states. The models follow the
code in each of them, and a property that would meet one names it as an exception.

*Policies.*
- `bundle_manager.py:215`: a cache file that does not parse raises out of boot,
  where lines 210-212 say that it counts as no bundle. In local mode the listeners
  run once.
- `bundle_manager.py:208-210`: "anyone who can write the cache file must not be able to
  poison the policy". The file does get the checks of a fetched bundle, but without
  required signatures these accept any well-formed bundle, also one the control plane
  never published (`config.py:45`, `bundle.py:334`, `375-378`). `PolicySource` has such
  policies as an offer of their own.
- `policy/bundle.py:44-46` says that `*` means any; resolution never tries keys like
  `tenant:app:*:*`. `policy/schema.py` drops a whole detector block for one invalid
  field, where the docstring promises defaults for invalid fields; the loader
  validates no application, agent or environment scopes.

*Evaluation.*
- `evaluator.py:201`: the REDACT text of a detector that is not a rewriting one
  (secrets) is replaced by the chained text of those that are, so the answer may
  hold the secret. `RedactionsCompose` is about the rewriting ones.
- `escalation.py:136`: additive with `fail_open` drops the deterministic decision,
  although line 359 says that a fallback preserves it. `DeterministicStands`
  excludes this case.
- `escalation.py:172`, against 159: of two partly overlapping spans the one that
  begins first wins, and the tail of the deterministic one stays in clear.
- `escalation.py:277` and `340-343`, against 371: a call that was sent and then timed
  out is recorded with `external_egress` False.
- `escalation.py:362-365`: a backend outside the boundary scored the text as
  redacted for egress, so that its offsets need not fit the text they are applied
  to. In the model a backend may report any span.
- `remediation.py:178`, against `orchestrator.py:299`: `on_fail: fix` of one detector
  turns another detector's BLOCK into TRANSFORM.
- An uncertified detector that warns, with `on_fail: refrain`, leads to BLOCK; and
  a strategy without stamp lowers a deterministic REDACT to WARN. Both are
  exceptions that `UncertifiedNeverEnforces` and `DeterministicStands` name.
- `evaluator.py:130-131`: with the deadline off the future is not shielded; a client
  that goes away while its work is queued takes a permit of the pool with it.
- `judge_escalation.py:70-72`: the budget is a snapshot; failed member calls are never
  recorded as spend. Stream routes pass no judge context. The policy lookup of
  evaluate_tool is not fail-closed.
- `round_trip.py`: `sanitized_text or input_text` forwards the raw text when the
  sanitized one is empty.

*Streaming.*
- `streaming.py:125` withholds on BLOCK only; lines 100-101 say that text is
  released only on an ALLOW. A span longer than overlap + 1 across a window boundary
  has its head released, against lines 48-50. An in-process caller may pass a
  negative overlap, which skips text.

*Sidecar.*
- `cache.py:75-77`: a reload drops the entries of its task, because it may swap the
  weights under an unchanged pin. Two stale decisions get past the invalidation, and
  `BatchedCacheFresh` excepts both: a direct (unbatched) result that arrives after
  the reload (`main.py:185`), and a batched one of a variant when the reload puts the
  active slot on the variant's own spec, since the variant keeps running and its key is
  the same. A variant evicted and loaded again with other weights keeps its cached
  decisions.
- `registry.py:108-109`: a stub whose spec names a model answers requests pinned to it.
  `PinnedRightModel` is about the name a runner is served under.
- `batching.py:158`: `zip` leaves the futures of a batch pending when the runner returns
  fewer outputs than texts. `BatchProcessor` takes one output per text as the contract
  of a runner; every runner in the repository keeps it.
- `registry.py:232-243`: overlapping reloads leave a batcher running that nobody stops.
- Direct threads and the batch worker call one runner at the same time.

*Services.*
- `remote.py:244`: the circuit breaker belongs to a detector that is built for one call,
  so it never opens for a later one.
- `remote.py:285-286` calls the wait "only a backstop against a wedged transport". With a
  total deadline it is (`ReturnsByDeadline`); without one it is one timeout and five
  seconds, which three slow attempts may exceed, and the caller may get a TimeoutError, which the escalation
  does not turn into a fallback (`escalation.py:340`).
- `audit_sink.py`, `judge_audit_sink.py`: after a torn write the next event continues the
  line and neither parses, although a recorded event is said to survive a crash;
  `record_sync` takes no lock. `install_state.save_state` is said to be atomic and is a
  plain write.
- `telemetry.py:51`: stop sends one batch, where the docstring says that the remaining
  events are sent.
- `rate_limit.py`: the address is counted though the key is refused; the fixed window
  lets twice the limit through across its boundary; a Redis error after INCR counts
  twice. The runtime's `main.py` does not install the middleware.
- `abuse.py`: buckets are never evicted, a bucket allows twice its limit in a minute, and
  a flood threshold above ten never fires. The jailbreak history evicts at its cap for a
  known conversation too. The registry's eviction of an instance loses its state.
- `benchmark_worker.py`: one 404 at a claim turns the worker off for good.

*Rules.*
- Secrets: of overlapping spans the second replacement takes following text with it
  (`secrets.py:287`); action WARN still blocks. PII: a partly overlapping later span is
  dropped and its tail stays (`pii.py:1441-1447`). Sensitive business data: nested phrases
  are replaced in the order of a set. `RedactionComplete` excludes straddling spans.
- PII: partial redaction of an e-mail address keeps its domain (`pii.py:1294-1297`), and
  with it a user name found there. A full address drops every simple one it overlaps
  (`pii.py:970-973`): two of them have risk 60, and 30 once a state and zip code follow.
  `EvidenceMonotone` excepts the risk in this case; the decision stays.
- Sensitive business data: a phrase is looked for stripped (line 77) and replaced as
  written (lines 101, 118-119). One with blanks around it is reported and stays in the
  text wherever no word follows those blanks; `RedactionComplete` is about phrases
  without.
- Human approval: only the five categories of `_COMPILED_ACTIONS` are ever gated
  (`human_approval_gate.py:159`), whatever else the policy names.
- Toxicity WARN blocks from a risk of 40; topic and toxicity look at the sentence of the
  first match; competitor RESTRICT leaves aliases, and an exact technical mention hides
  an alias; the game filter of jailbreak has no effect; one script of several languages
  counts as mixed.
- Tools: a name with whitespace skips the allowlist. Approval tokens can be used again
  within their age. Semantic cache: a block by distance alone is not treated as a hit
  (line 126). MCP manifests: the comment on line 321 speaks of every string, the code of
  http URLs. Multimodal: the first metadata key that holds a list, 32 entries of it.
  Tool output: the exfiltration part does not undo disguises.
- Code safety: a fenced block hides code outside it, and blocks in other languages are
  scanned only when listed. Copyright: a threshold of 0 matches everywhere. Sentiment:
  negations with an apostrophe never match. The control character sanitizer counts two
  replacements too many per colour it keeps.

## 5. Proofs

All theorems hold for every value of the constants that satisfies the module's
assumption (`ConstantAssumption`, `StreamAssumption`, `PathAssumption`,
`BatchAssumption`, `ReconcilerAssumption`, `ServiceAssumption`,
`ServicesAssumption`, `RulesAssumption`). They say that constants have their types, that special
values are not data, and that sizes the code's configuration keeps positive are;
`PathAssumption` also that a runtime sees finitely many requests, since
`PermitsConserved` counts them. TLC evaluates the assumptions in every run. Each
inductive invariant was checked by TLC on the run of its module before it was
proved.

**BundleManagerProofs.** `IInv == TypeOK /\ Provenance /\ Phases /\
FailClosedHasPolicy /\ FaultFree`. The properties are not inductive alone: that
served policies were published, or planted in the cache where signatures are not
required, needs the same of replies, cache and policy file (`Provenance`), and what a boot phase may find in memory (`Phases`). `FaultFree`
carries the etag and the cache through a save when no file operation fails.
Theorems: `TypeCorrect`, `OnlyPublished`, `FailClosed`, `EtagSound`,
`RestartSound`, `CacheWrites` (an action property), and `Refinement`, that each
step maps to a step of `PolicySource` or a stutter.

**TextProofs.** What is done with a text: the rules of the detectors, then the
streaming evaluator.

*Rules.* `RulesAssumption` says of the constants that matches lie in the text and
are not empty, that the tables know the names of what is found, that scores,
thresholds and counts are numbers, and that a phrase which can match is in the list
that is searched for. `TextInv` is the only inductive invariant (`TextStays`): the
text is finite and holds at most one fact of a slot; every property is then a fact
about one state, or about two texts that differ by a fact.

- `EvidenceOnlyGrows` has a lemma per detector. The risk is a sum over a set of
  hits, and the library defines the sum by a recursive function on sets. Induction
  on the size of a finite set shows that this function exists (`FoldExists`), that the
  sum does not depend on the order of its terms and grows with the set. Most
  detectors follow from that, as one harmful fact makes the set of hits larger, or
  swaps a hit for a heavier one. A full address takes simple ones away: if it takes
  one, it weighs as much, and if it takes two, `Absorbs` says so. The rest need what is special to them: a keyword
  more of a schema, the share of ungrounded claims, the first pattern of a topic, the
  cap on attachments, a context filter.
- `RedactionsAreComplete`: the fold takes the spans from the end of the text, so the
  text before the span at hand is still untouched (`UntouchedTo`). From it follow
  that no cell of an isolated span is left (`IsolatedGone`) and that the cells outside
  all spans are left in their order (`OutsideShown`). A span that the
  overlap guard of pii drops starts inside a kept one that starts before it or is as
  wide (`KeptApart`), so it lies within that one or straddles it; what is left of it is
  what the replacement of that one shows (`ReplacementShows`). The places of business
  phrases are replaced completely in whatever order they come (`PhrasesSearched`).
- `ApprovalIsBound`: the hash of an action is equal only for equal plans, and a field
  of the evidence has one value, which is what slots are for.
- `SupportedClaimsStand`: passages are tried beyond the shortlist until one supports
  the claim, so the best score over those tried reaches the threshold if any passage
  does.

*Streaming.* `IInv == TypeOK /\ Position /\ Covered /\
ClearedAreClean`. `Covered` is the heart: every released position has a cleared
window that begins at or before it and reaches at least overlap + 1 characters
from it, or to the end. From it follow `ShortSpansCovered` and
`ShortSpansNeverLeak`, for every window, overlap and text; further `TypeCorrect`,
`Summary`, `Prefix`, `Blocked`.

**OrchestratorProofs.** Three invariants, from weak to strong.
`EgressInv` (what was sent is audited; a prepared call has its audit record;
audited crossings are permitted) gives `Audited` and `EgressPermitted`. `TypeInv`
(types, and which layer is under way) gives `TypeCorrect`, that the choices of
aggregation exist included; existence of the worst result and of the last
rewriting one comes from the least element of a set of naturals. `VerdictInv`
adds what holds of the detector under way (`Underway`), of the settled results
(`Verdicts`) and of an answer (`Answers`), and gives `Certified`, `Standing`,
`FailClosed` and `Redacted`.

**ModelReconcilerProofs.** `PinInv == TypeOK /\ Mutex /\ Ledger`. Eviction works on
the difference of two pin maps, so `VariantsArePinned` alone does not survive a
reconcile: `Accounted` says that whatever is loaded is pinned by the push under
way or by the one before it, and in the last phase is still on the list to evict;
`Mutex` that one handler at a time has such a list. It gives `TypeCorrect` and
`PinnedOnly`. `WeightInv` adds `Verified`: from the check of the digest to the read of
the weights the directory stays as it was checked, since only the holder of the
lock and the operator's install write to it; it gives `WeightsRight`.

**InferenceServiceProofs.** `IInv == TypeOK /\ SlotsInv /\ AloneInv /\ CallInv`. The
requests hold a batcher across an await, so `PinnedRightModel` needs what they hold:
the batcher of a waiting call was built for its pin and its key (`Waits`), and a
batcher that is built keeps its model and its weights. `SlotsInv` relates the
active slot to the information that pins are matched with. As long as reloads do not overlap
(`Alone`), only the batchers of the slots run, so that a decision that arrives
after an invalidation comes from a batcher that is gone and fails, or from the
variant, which its entry records. Theorems: `TypeCorrect`,
`PinsAnsweredByTheirModel`, `CacheFresh`, `StubStepsAside`.

**RequestPathProofs.** `IInv == TypeOK /\ QueueInv /\ PermitsConserved /\ SpendInv /\
EventInv /\ CountInv`. Permits need that a work item is in the queue once
(`QueueInv`): a cancellation takes one item out and a thread begins one. The
bound on the spend is a bound on a debt: `Tokens` is the set of judge calls that
the work in the pool may still make under a snapshot below the cap, and spend and
tokens together never exceed the bound, as work admitted at or past the cap
brings none. `EventInv` orders what was sent, is in flight and is buffered.
Theorems: `TypeCorrect`, `PermitsAreConserved`, `OverspendIsBounded`,
`TelemetryIsTruthful`.

**BatchProcessorProofs.** `IInv == TypeOK /\ orphans <= stops /\ OncePlaced /\
Submitted /\ PlaceInv /\ ThreadInv`. `NothingStranded` counts the places of a request;
that there is one follows from `OncePlaced` (at most one place) and `PlaceInv` (a
place for each pending request). The worker never dies because it sets a result only
on a pending future. `ThreadInv` carries the finiteness of the set of
scoring threads, so that no assumption on the number of requests is needed. Theorems:
`TypeCorrect`, `NoneStranded`, `DirectIsBounded`, `ExpiredIsDropped` (an action property).

**RuntimeServicesProofs.** One invariant per service; a step of one leaves the others
alone. *Benchmark*: a worker has stored every page with samples that it has passed, and
is past the last one when it completes (`Behind`); stored pages stay, so a lease that
goes to another worker costs nothing. *Audit spool*: a record is lost only behind an
open line, and closes it; so the lost records, and one more while the last line is
open, are at most the torn writes (`SpoolInv`). *Rate limiter*: the memory of a pod
holds every pass that its window still reaches (`Mirrored`), so what it counts is no
less than any window that contains the present; a fixed window of Redis has no more
passes than its counter (`WithinRedis`), and a span of that length meets two fixed
windows at most. *Remote detector*: until an overrun, every attempt and every backoff
ends by the total deadline, which is set before the grace is used up, so that the
wait of the caller is longer. *Sessions*: each memory is compared with the
log of its session (`SessionOK`). The newest entry of the table of states is the state of the last call
and counts every run of calls on it (`LoopOK`), so eviction, which takes the oldest,
never costs an active loop; a session that starts over has no call in the present.
The deque is the end of the log, and what it lacks of the last `FloodMemory` calls is
out of the window (`FloodOK`); since times only grow, what `popleft` leaves is exactly
the calls that count, and a shift by a constant maps one set onto the other. The calls
let through since any moment, plus the tokens left, are at most a full bucket plus what
was refilled since (`BucketOK`), from which two buckets per window follow. Theorems:
`TypeCorrect`, `CompletedRunIsWhole`, `LossIsBounded`, `RateIsBounded`,
`CallsKeepTheirDeadline`, `LoopIsCaught`, `AbuseIsMatched`.

No run lists `ServesOnlyPublished`, `CacheWritesWhole`, `ShortSpansSeenWhole`,
`SummaryTruthful`, `ReleasedIsPrefix`, `EgressPolicyHolds` and the type invariants:
the proofs cover them for every instance.

**Only model-checked.** All liveness properties, which need fairness and are out of
the prover's reach, and the two violations. Every invariant and every action property
of a passing run is also proved.

## 6. Not modelled, and what comes next

Not modelled: the regular expressions and word lists of the detectors, prompts and
HTTP of providers and vendors, ONNX sessions, quality scores (no decision reads
them), authentication (a comparison), formatting, metrics and logs, the command line.
The circuit breaker of remote detectors is inert (section 2), and the conversation
history of jailbreak is an input. Partly: `Orchestrator` leaves out the NLI scorer; `ModelReconciler` has one runtime at
its sidecar; `BundleManager` takes a policy to be what its bundle resolves to, and
validation as a set; `BenchmarkWorker` leaves out the scoring inside a page;
`RequestPath` and `Orchestrator` are not composed, as the pool never looks into the
pipeline and the pipeline keeps nothing between requests. `PROJECT.json` lists every
part with its reason.

Next, in this order:

1. Scope resolution and the merge of policies as operators beside the rules.
2. A second runtime at one sidecar, and the sidecar's reconciler composed with
   `InferenceService`.
