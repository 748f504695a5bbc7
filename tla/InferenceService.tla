-------------------------- MODULE InferenceService --------------------------
(***************************************************************************)
(* One task of the inference sidecar as its clients see it: the infer      *)
(* handler and the reload handler (main.py), the active slot and a variant *)
(* beside it (registry.py), and the decision cache (cache.py).  The        *)
(* batcher's own queue and worker are the subject of BatchProcessor, the   *)
(* choice of variants that of ModelReconciler.                             *)
(*                                                                         *)
(* A model's weights are a generation: a re-install replaces the files     *)
(* under the same pin, and a runner keeps what it has loaded.              *)
(***************************************************************************)
EXTENDS Naturals, Sequences, SequencesExt

CONSTANTS
    Request,    \* calls of POST /v1/infer/{task}, one text
    Operator,   \* calls of POST /v1/models/reload
    Stub,       \* what the StubRunner calls itself when its spec names no model
    Model,      \* the models specs and pins may name
    Specs,      \* the specs a task may be configured or reloaded with
    Variant,    \* the model the reconciler has pinned
    AllowStub,  \* _ALLOW_STUB_WHEN_REAL_LOADED
    CacheSize,  \* cache_maxsize
    MaxInstalls, \* bound: re-installs over the same pin
    MaxBuilt    \* bound: batchers built before a variant is loaded once more

Models == Model \cup {Stub}
NoPin == "no pin"

\* A spec: the identity it is served under, and whether its runner is the stub.
TaskSpec == [model : Models, stub : BOOLEAN]

ASSUME ServiceAssumption ==
    /\ Stub \notin Model /\ Variant \in Model
    /\ Specs \subseteq TaskSpec
    /\ \A s \in Specs : s.model = Stub => s.stub
    /\ AllowStub \in BOOLEAN
    /\ CacheSize \in Nat \ {0} /\ MaxInstalls \in Nat /\ MaxBuilt \in Nat
    /\ NoPin \notin Models

VARIABLES
    disk,     \* the generation of the weights on disk
    built,    \* every batcher built so far: spec, weights, slot, still running
    active,   \* _batchers[task]: an index of built, or 0
    info,     \* _models[task]: its spec and whether it is available
    variant,  \* the variant's batcher: an index of built, or 0
    reload,   \* per operator: "new", "stopping", "done"
    overlap,  \* two reloads have overlapped
    cache,    \* ContentHashCache._store, least recently used first
    call      \* per request: where it is, its pin, its batcher, its answer

vars == <<disk, built, active, info, variant, reload, overlap, cache, call>>
slots == <<built, active, info, variant>>

Batcher == [spec : TaskSpec, gen : 0 .. MaxInstalls, variant : BOOLEAN,
            running : BOOLEAN]
Key == [model : Models \cup {"unknown"}, scope : TaskSpec, params : BOOLEAN]
Entry == [key : Key, gen : 0 .. MaxInstalls, variant : BOOLEAN]
Fresh == [at |-> "new"]
Waiting == [at : {"waiting"}, pin : Models \cup {NoPin}, batcher : Nat, key : Key,
            many : BOOLEAN, stubbed : BOOLEAN]
Reply == [at : {"done"}, status : {"200"}, pin : Models \cup {NoPin}, model : Models,
          gen : 0 .. MaxInstalls, cached : BOOLEAN, stubbed : BOOLEAN]
Refusal == [at |-> "done", status |-> "refused"]

TypeOK ==
    /\ disk \in 0 .. MaxInstalls
    /\ built \in Seq(Batcher)
    /\ active \in 0 .. Len(built) /\ variant \in 0 .. Len(built)
    /\ info \in [spec : TaskSpec, available : BOOLEAN]
    /\ reload \in [Operator -> {"new", "stopping", "done"}]
    /\ overlap \in BOOLEAN
    /\ cache \in Seq(Entry)
    /\ call \in [Request -> {Fresh, Refusal} \cup Waiting \cup Reply]

(***************************************************************************)
(* _make: a runner that loads gets a batcher; one that does not leaves the *)
(* slot unavailable under its configured pin.                              *)
(***************************************************************************)
NewBatcher(spec, beside) ==
    [spec |-> spec, gen |-> disk, variant |-> beside, running |-> TRUE]
Built(spec, beside) == Append(built, NewBatcher(spec, beside))
Stopped(i) == IF i = 0 THEN built ELSE [built EXCEPT ![i].running = FALSE]

\* The sidecar boots on the spec its configuration gives the task.
Init ==
    /\ disk = 0
    /\ info \in [spec : Specs, available : BOOLEAN]
    /\ built = IF info.available THEN <<NewBatcher(info.spec, FALSE)>> ELSE <<>>
    /\ active = Len(built) /\ variant = 0
    /\ reload = [o \in Operator |-> "new"]
    /\ overlap = FALSE
    /\ cache = <<>>
    /\ call = [r \in Request |-> Fresh]

\* A re-install writes other weights under the same model_id@revision.
ReInstall ==
    /\ disk < MaxInstalls
    /\ disk' = disk + 1
    /\ UNCHANGED <<slots, reload, overlap, cache, call>>

\* A variant that failed to load leaves no batcher, like one not loaded.
LoadVariant ==
    /\ variant = 0 /\ Len(built) < MaxBuilt
    /\ built' = Built([model |-> Variant, stub |-> FALSE], TRUE)
    /\ variant' = Len(built')
    /\ UNCHANGED <<disk, active, info, reload, overlap, cache, call>>

UnloadVariant ==
    /\ variant # 0
    /\ built' = Stopped(variant)
    /\ variant' = 0
    /\ UNCHANGED <<disk, active, info, reload, overlap, cache, call>>

(***************************************************************************)
(* reload_task: the old batcher is popped, its stop is awaited, then the   *)
(* new one is built and the cache invalidated without another await.       *)
(***************************************************************************)
BeginReload(o) ==
    /\ reload[o] = "new"
    /\ reload' = [reload EXCEPT ![o] = "stopping"]
    /\ overlap' = (overlap \/ \E p \in Operator : reload[p] = "stopping")
    /\ built' = Stopped(active)
    /\ active' = 0
    /\ UNCHANGED <<disk, info, variant, cache, call>>

\* mutant: the reload trusts the pin to tell old decisions from new ones
invalidate_task_kept == cache' = cache

invalidate_task == cache' = <<>>

BuildFails(spec) ==
    /\ info' = [spec |-> spec, available |-> FALSE]
    /\ UNCHANGED <<built, active>>

BuildSucceeds(spec) ==
    /\ built' = Built(spec, FALSE)
    /\ active' = Len(built')
    /\ info' = [spec |-> spec, available |-> TRUE]

EndReload(o) ==
    /\ reload[o] = "stopping"
    /\ \E spec \in Specs : BuildSucceeds(spec) \/ BuildFails(spec)
    /\ invalidate_task
    /\ reload' = [reload EXCEPT ![o] = "done"]
    /\ UNCHANGED <<disk, variant, overlap, call>>

(***************************************************************************)
(* _resolve_batcher: the batcher that serves a request and the version the *)
(* response reports, or a refusal (0).                                     *)
(***************************************************************************)
real_variants == variant # 0

\* mutant: the stub answers although real weights are loaded
Unpinned_stub_too == active

Unpinned == IF info.spec.stub /\ real_variants /\ ~AllowStub THEN 0 ELSE active

\* mutant: a slot whose model failed to load still matches its pin
_matches_unavailable(pin) == info.spec.model = pin

_matches(pin) == info.available /\ info.spec.model = pin

get_for(pin) ==
    IF _matches(pin) /\ active # 0 THEN active
    ELSE IF variant # 0 /\ pin = Variant THEN variant ELSE 0

_resolve_batcher(pin) == IF pin = NoPin THEN Unpinned ELSE get_for(pin)

model_version(b) ==
    IF b # active THEN built[b].spec.model
    ELSE IF info.available THEN info.spec.model ELSE "unknown"

\* The scope is the runner kind and the fingerprint of the spec: a variant and
\* an active slot on the same spec share their keys.
content_key(b, params) ==
    [model |-> model_version(b), scope |-> built[b].spec, params |-> params]

(***************************************************************************)
(* infer: a hit is answered at once; a miss waits for its batcher and puts *)
(* what it gets.  Requests with params run in a thread of their own, which *)
(* a stop of the batcher does not reach.                                   *)
(***************************************************************************)
Answer(pin, model, gen, cached, stubbed) ==
    [at |-> "done", status |-> "200", pin |-> pin, model |-> model, gen |-> gen,
     cached |-> cached, stubbed |-> stubbed]

\* A key is at one place of the store at most.
At(k) == {i \in DOMAIN cache : cache[i].key = k}

Without(k) ==
    IF At(k) = {} THEN cache ELSE RemoveAt(cache, CHOOSE i \in At(k) : TRUE)

Touch(k, e) == Append(Without(k), e)

put(k, b) ==
    LET c == Append(Without(k), [key |-> k, gen |-> b.gen, variant |-> b.variant])
    IN  cache' = IF Len(c) > CacheSize THEN Tail(c) ELSE c

\* A request with several texts neither reads the cache nor writes it.
infer(r, pin, params, many) ==
    LET b == _resolve_batcher(pin)
        k == content_key(b, params)
        hits == {e \in ToSet(cache) : e.key = k /\ ~many}
    IN  /\ call[r].at = "new"
        /\ \/ /\ b = 0
              /\ call' = [call EXCEPT ![r] = Refusal]
              /\ UNCHANGED cache
           \/ /\ b # 0 /\ hits # {}
              /\ \E e \in hits :
                    /\ call' = [call EXCEPT ![r] =
                          Answer(pin, built[b].spec.model, e.gen, TRUE,
                                 built[b].spec.stub /\ real_variants)]
                    /\ cache' = Touch(k, e)
           \/ /\ b # 0 /\ hits = {}
              /\ call' = [call EXCEPT ![r] =
                    [at |-> "waiting", pin |-> pin, batcher |-> b, key |-> k,
                     many |-> many,
                     stubbed |-> built[b].spec.stub /\ real_variants]]
              /\ UNCHANGED cache
        /\ UNCHANGED <<disk, slots, reload, overlap>>

\* Work of a stopped batcher is not answered, except in a direct thread.
Scored(r) == built[call[r].batcher].running \/ call[r].key.params

Complete(r) ==
    /\ call[r].at = "waiting" /\ Scored(r)
    /\ LET b == built[call[r].batcher]
       IN  /\ IF call[r].many THEN UNCHANGED cache ELSE put(call[r].key, b)
           /\ call' = [call EXCEPT ![r] =
                 Answer(@.pin, b.spec.model, b.gen, FALSE, @.stubbed)]
    /\ UNCHANGED <<disk, slots, reload, overlap>>

\* Saturated (the queue, the latency budget) or an exception of the runner.
Fails(r) ==
    /\ call[r].at = "waiting"
    /\ call' = [call EXCEPT ![r] = Refusal]
    /\ UNCHANGED <<disk, slots, reload, overlap, cache>>

Next ==
    \/ ReInstall \/ LoadVariant \/ UnloadVariant
    \/ \E o \in Operator : BeginReload(o) \/ EndReload(o)
    \/ \E r \in Request :
          \/ \E pin \in Models \cup {NoPin}, params, many \in BOOLEAN :
                infer(r, pin, params, many)
          \/ Complete(r) \/ Fails(r)

Spec == Init /\ [][Next]_vars

(***************************************************************************)
(* Properties.                                                             *)
(***************************************************************************)
Answered(r) == call[r].at = "done" /\ call[r].status = "200"

\* A request that pinned a model is answered by a runner served under that
\* pin or refused, however reloads, failed loads and evictions interleave:
\* "the caller must never be silently scored by the wrong model"
\* (_resolve_batcher).  A stub whose spec names a model is served under it.
PinnedRightModel ==
    \A r \in Request :
        Answered(r) /\ call[r].pin # NoPin => call[r].model = call[r].pin

\* As long as reloads do not overlap, a batched decision in the cache that an
\* active slot put there is of the weights the active slot has loaded now
\* (reload_task, invalidate_task).  A variant is not stopped by a reload: when
\* the active slot is put on the variant's own spec, a decision the variant
\* still owed is stored after the invalidation, and is excepted here.
BatchedCacheFresh ==
    \A e \in ToSet(cache) :
        ~overlap /\ ~e.key.params /\ active # 0 /\ e.key.scope = built[active].spec
        => e.gen = built[active].gen \/ e.variant

\* An unpinned request is not answered by the stub's fabricated verdict while
\* real weights are loaded for the task, unless two reloads overlapped or the
\* deployment allows it (active_is_stub, real_variants).
StubNeverFabricates ==
    \A r \in Request : Answered(r) /\ call[r].pin = NoPin /\ ~overlap /\ ~AllowStub
        => ~call[r].stubbed
=============================================================================
