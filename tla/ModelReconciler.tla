--------------------------- MODULE ModelReconciler ---------------------------
(***************************************************************************)
(* How the model pins of a policy reach the inference sidecar.             *)
(*                                                                         *)
(* The runtime pushes the full pin set after every bundle cycle            *)
(* (inference_sync.py).  Each push is a handler of the sidecar; handlers   *)
(* queue for the reconciler's lock (reconciler.py), fetch missing          *)
(* artifacts in a thread (runners/_fetch.py), verify and load them as      *)
(* registry variants (registry.py, runners/_artifacts.py) and unload the   *)
(* variants no longer pinned.  An operator's install (install.py) writes   *)
(* artifact directories from a thread of its own, outside the lock.        *)
(*                                                                         *)
(* An artifact directory is keyed by the model alone.  Its content is the  *)
(* revision it is a whole copy of, and a digest is the content it is of.   *)
(* The active slots hold the stub, as in the default configuration.        *)
(***************************************************************************)
EXTENDS Naturals

CONSTANTS
    Task, Model, Revision,
    Handler,      \* bound: the pushes the sidecar handles at a time
    NoPin,        \* a task without a pin
    Unstated,     \* pins_from_policy returned None
    Absent,       \* no directory, or an empty one
    Partial,      \* files of an unfinished or mixed download
    Moved,        \* a whole copy whose digest is not the one the pin expects
    Vetted,       \* the models on the shortlist
    PinMaps,      \* the pin sets a policy may state
    Installable,  \* the pins an operator may install
    Digests       \* TRUE: pins carry the sha256 of their artifact

Pin == [model : Model, revision : Revision]
PinMap == [Task -> Pin \cup {NoPin}]
Content == Revision \cup {Absent, Partial, Moved}
Weights == Revision \cup {Partial, Moved}
NoPins == [t \in Task |-> NoPin]

ASSUME ReconcilerAssumption ==
    /\ Vetted \subseteq Model
    /\ Installable \subseteq Pin
    /\ PinMaps \subseteq PinMap
    /\ NoPin \notin Pin /\ Unstated \notin PinMap
    /\ {Absent, Partial, Moved, "unloaded", "failed"} \cap Revision = {}
    /\ Digests \in BOOLEAN

VARIABLES
    desired,   \* the pins of the policy the runtime holds
    reported,  \* "models" when InferenceSync._last_models is not empty
    call,      \* the handler the runtime waits for, "idle" when none
    pc,        \* where each handler is
    pins,      \* its request body
    previous,  \* its copy of the last pins, for eviction
    todo,      \* the tasks its present loop still has to visit
    at,        \* the task it fetches or loads for
    digest,    \* the sha256 of the spec it loads, Absent when it has none
    lastPins,  \* ModelReconciler._last_pins
    variant,   \* what is loaded for each task and pin
    disk,      \* the artifact directory of each model
    job        \* the install under way

runtime == <<desired, reported, call>>
locals  == <<pc, pins, previous, todo, at, digest>>
vars    == <<runtime, locals, lastPins, variant, disk, job>>

Holding == {"apply", "fetch", "verify", "read", "evict"}

TypeOK ==
    /\ desired \in PinMap \cup {Unstated}
    /\ reported \in {"nothing", "models"}
    /\ call \in Handler \cup {"idle"}
    /\ pc \in [Handler -> {"idle", "queued"} \cup Holding]
    /\ pins \in [Handler -> PinMap]
    /\ previous \in [Handler -> PinMap]
    /\ todo \in [Handler -> SUBSET Task]
    /\ at \in [Handler -> Task \cup {NoPin}]
    /\ digest \in [Handler -> Content]
    /\ lastPins \in PinMap
    /\ variant \in [Task -> [Pin -> {"unloaded", "failed"} \cup Weights]]
    /\ disk \in [Model -> Content]
    /\ job \in Pin \cup {NoPin}

NothingLoaded == [t \in Task |-> [p \in Pin |-> "unloaded"]]

Init ==
    /\ desired = Unstated /\ reported = "nothing" /\ call = "idle"
    /\ pc = [h \in Handler |-> "idle"]
    /\ pins = [h \in Handler |-> NoPins]
    /\ previous = [h \in Handler |-> NoPins]
    /\ todo = [h \in Handler |-> {}]
    /\ at = [h \in Handler |-> NoPin]
    /\ digest = [h \in Handler |-> Absent]
    /\ lastPins = NoPins
    /\ variant = NothingLoaded
    /\ disk = [m \in Model |-> Absent]
    /\ job = NoPin

Loaded(t, p) == variant[t][p] \notin {"unloaded", "failed"}

(***************************************************************************)
(* The runtime.                                                            *)
(***************************************************************************)
Publish(d) ==
    /\ desired # d
    /\ desired' = d
    /\ UNCHANGED <<reported, call, locals, lastPins, variant, disk, job>>

\* mutant: only the first push is made
PushNeededOnce == desired # Unstated /\ reported = "nothing"

\* mutant: an empty set is never pushed
PushNeededUnlessEmpty == desired \notin {Unstated, NoPins}

\* Nothing is pushed when the policy says nothing of pins, or has none and the
\* sidecar is not known to have loaded anything.
PushNeeded ==
    /\ desired # Unstated
    /\ desired = NoPins => reported = "models"

\* A cycle posts the pins; the handler queues for the lock.
Push(h) ==
    /\ PushNeeded
    /\ call = "idle" /\ pc[h] = "idle"
    /\ call' = h
    /\ pc' = [pc EXCEPT ![h] = "queued"]
    /\ pins' = [pins EXCEPT ![h] = desired]
    /\ UNCHANGED <<desired, reported, previous, todo, at, digest, lastPins,
                   variant, disk, job>>

\* The client gives up, or the connection breaks; the handler runs on.
PushFails ==
    /\ call # "idle"
    /\ call' = "idle"
    /\ UNCHANGED <<desired, reported, locals, lastPins, variant, disk, job>>

RuntimeRestarts ==
    /\ reported' = "nothing" /\ call' = "idle"
    /\ UNCHANGED <<desired, locals, lastPins, variant, disk, job>>

(***************************************************************************)
(* The reconciler.                                                         *)
(***************************************************************************)
Pinned(map) == {t \in Task : map[t] # NoPin}

LockFree == \A h \in Handler : pc[h] \notin Holding

Acquire(h) ==
    /\ pc[h] = "queued" /\ LockFree
    /\ pc' = [pc EXCEPT ![h] = "apply"]
    /\ previous' = [previous EXCEPT ![h] = lastPins]
    /\ lastPins' = pins[h]
    /\ todo' = [todo EXCEPT ![h] = Pinned(pins[h])]
    /\ UNCHANGED <<runtime, pins, at, digest, variant, disk, job>>

\* The pin of the present task is done with, served or skipped.
NextPin(h, t) ==
    /\ pc' = [pc EXCEPT ![h] = "apply"]
    /\ todo' = [todo EXCEPT ![h] = @ \ {t}]
    /\ at' = [at EXCEPT ![h] = NoPin]
    /\ digest' = [digest EXCEPT ![h] = Absent]
    /\ UNCHANGED <<pins, previous>>

\* mutant: an artifact that is already on disk is loaded without a digest
ExpectedWhenCachedDropped(p) == Absent

\* The digest a cached artifact is verified with.
ExpectedWhenCached(p) == IF Digests THEN p.revision ELSE Absent

\* One round of _apply: the pin is served already, or off the shortlist, or its
\* directory has content and is loaded, or it is fetched.
Apply(h, t) ==
    LET p == pins[h][t] IN
    /\ pc[h] = "apply" /\ t \in todo[h]
    /\ \/ /\ Loaded(t, p) \/ p.model \notin Vetted
          /\ NextPin(h, t)
       \/ /\ ~Loaded(t, p) /\ p.model \in Vetted /\ disk[p.model] # Absent
          /\ pc' = [pc EXCEPT ![h] = "verify"]
          /\ at' = [at EXCEPT ![h] = t]
          /\ digest' = [digest EXCEPT ![h] = ExpectedWhenCached(p)]
          /\ UNCHANGED <<pins, previous, todo>>
       \/ /\ ~Loaded(t, p) /\ p.model \in Vetted /\ disk[p.model] = Absent
          /\ pc' = [pc EXCEPT ![h] = "fetch"]
          /\ at' = [at EXCEPT ![h] = t]
          /\ UNCHANGED <<pins, previous, todo, digest>>
    /\ UNCHANGED <<runtime, lastPins, variant, disk, job>>

Writers(m) ==
    {h \in Handler : pc[h] = "fetch" /\ pins[h][at[h]].model = m}

\* The first file of a download appears in the directory.
DownloadWrites(m) ==
    /\ Writers(m) # {} \/ (job # NoPin /\ job.model = m)
    /\ disk[m] # Partial
    /\ disk' = [disk EXCEPT ![m] = Partial]
    /\ UNCHANGED <<runtime, locals, lastPins, variant, job>>

\* What a download of revision r leaves when it ends well: a whole copy, unless
\* another thread wrote into the directory at the same time.
Fetched(r, alone) == IF alone THEN {r, Moved} ELSE {Partial}

DigestAccepted(p, content) == Digests => content = p.revision

FetchEnds(h) ==
    LET p == pins[h][at[h]] IN
    /\ pc[h] = "fetch"
    /\ \E content \in Fetched(p.revision, job = NoPin \/ job.model # p.model) :
        /\ disk' = [disk EXCEPT ![p.model] = content]
        /\ \/ /\ DigestAccepted(p, content)
              /\ pc' = [pc EXCEPT ![h] = "verify"]
              /\ digest' = [digest EXCEPT ![h] = content]
              /\ UNCHANGED <<pins, previous, todo, at>>
           \/ /\ ~DigestAccepted(p, content)
              /\ NextPin(h, at[h])
    /\ UNCHANGED <<runtime, lastPins, variant, job>>

\* The downloader raises; what it wrote stays.
FetchFails(h) ==
    /\ pc[h] = "fetch"
    /\ NextPin(h, at[h])
    /\ UNCHANGED <<runtime, lastPins, variant, disk, job>>

SetVariant(h, w) == variant' = [variant EXCEPT ![at[h]][pins[h][at[h]]] = w]

\* Runner.load: verify_pinned, then the weights are read.  Only other threads
\* run in between.
Verify(h) ==
    LET content == disk[pins[h][at[h]].model] IN
    /\ pc[h] = "verify"
    /\ \/ /\ content # Absent /\ digest[h] \in {Absent, content}
          /\ pc' = [pc EXCEPT ![h] = "read"]
          /\ UNCHANGED <<variant, pins, previous, todo, at, digest>>
       \/ /\ content = Absent \/ digest[h] \notin {Absent, content}
          /\ SetVariant(h, "failed")
          /\ NextPin(h, at[h])
    /\ UNCHANGED <<runtime, lastPins, disk, job>>

Read(h) ==
    LET content == disk[pins[h][at[h]].model] IN
    /\ pc[h] = "read"
    /\ \/ content # Absent /\ SetVariant(h, content)
       \/ content \in {Absent, Partial} /\ SetVariant(h, "failed")
    /\ NextPin(h, at[h])
    /\ UNCHANGED <<runtime, lastPins, disk, job>>

\* mutant: eviction compares the tasks only
RemovedTasksOnly(h) == Pinned(previous[h]) \ Pinned(pins[h])

\* The tasks whose pin was removed or repointed.
Removed(h) == {t \in Pinned(previous[h]) : pins[h][t] # previous[h][t]}

Applied(h) ==
    /\ pc[h] = "apply" /\ todo[h] = {}
    /\ pc' = [pc EXCEPT ![h] = "evict"]
    /\ todo' = [todo EXCEPT ![h] = Removed(h)]
    /\ UNCHANGED <<runtime, pins, previous, at, digest, lastPins, variant, disk, job>>

Evict(h, t) ==
    /\ pc[h] = "evict" /\ t \in todo[h]
    /\ variant' = [variant EXCEPT ![t][previous[h][t]] = "unloaded"]
    /\ todo' = [todo EXCEPT ![h] = @ \ {t}]
    /\ UNCHANGED <<runtime, pc, pins, previous, at, digest, lastPins, disk, job>>

\* The lock is released and the answer, which lists the active slots at least,
\* goes to the runtime if it still waits.
Answer(h) ==
    /\ pc[h] = "evict" /\ todo[h] = {}
    /\ pc' = [pc EXCEPT ![h] = "idle"]
    /\ pins' = [pins EXCEPT ![h] = NoPins]
    /\ previous' = [previous EXCEPT ![h] = NoPins]
    /\ IF call = h THEN call' = "idle" /\ reported' = "models"
                   ELSE UNCHANGED <<call, reported>>
    /\ UNCHANGED <<desired, todo, at, digest, lastPins, variant, disk, job>>

\* The sidecar's process ends and starts again: only the disk is left.
SidecarRestarts ==
    /\ call' = "idle"
    /\ pc' = [h \in Handler |-> "idle"]
    /\ pins' = [h \in Handler |-> NoPins]
    /\ previous' = [h \in Handler |-> NoPins]
    /\ todo' = [h \in Handler |-> {}]
    /\ at' = [h \in Handler |-> NoPin]
    /\ digest' = [h \in Handler |-> Absent]
    /\ lastPins' = NoPins
    /\ variant' = NothingLoaded
    /\ job' = NoPin
    /\ UNCHANGED <<desired, reported, disk>>

(***************************************************************************)
(* The operator's install.                                                 *)
(***************************************************************************)
Install(p) ==
    /\ job = NoPin /\ p.model \in Vetted
    /\ job' = p
    /\ UNCHANGED <<runtime, locals, lastPins, variant, disk>>

InstallEnds ==
    /\ job # NoPin
    /\ \E content \in Fetched(job.revision, Writers(job.model) = {})
                      \cup {disk[job.model]} :
        disk' = [disk EXCEPT ![job.model] = content]
    /\ job' = NoPin
    /\ UNCHANGED <<runtime, locals, lastPins, variant>>

HandlerStep(h) ==
    \/ Acquire(h) \/ FetchEnds(h) \/ FetchFails(h) \/ Verify(h) \/ Read(h)
    \/ Applied(h) \/ Answer(h)
    \/ \E t \in Task : Apply(h, t) \/ Evict(h, t)

Next ==
    \/ \E d \in PinMaps \cup {Unstated} : Publish(d)
    \/ \E h \in Handler : Push(h) \/ HandlerStep(h)
    \/ PushFails \/ RuntimeRestarts \/ SidecarRestarts
    \/ \E m \in Model : DownloadWrites(m)
    \/ \E p \in Installable : Install(p)
    \/ InstallEnds

\* Every cycle pushes; the handlers run and take the lock in turn; a download
\* ends, and one that is tried again and again succeeds sometime.  Nothing
\* forces a publication, a restart or an install.
Fairness ==
    /\ WF_vars(\E h \in Handler : Push(h))
    /\ \A h \in Handler : WF_vars(HandlerStep(h)) /\ SF_vars(Acquire(h))
    /\ \A h \in Handler :
        SF_vars(FetchEnds(h) /\ disk'[pins[h][at[h]].model] = pins[h][at[h]].revision)
    /\ WF_vars(InstallEnds)

Spec == Init /\ [][Next]_vars /\ Fairness

(***************************************************************************)
(* Properties.                                                             *)
(***************************************************************************)

\* Outside of a reconcile nothing is loaded that the last push did not pin: no
\* order of queued pushes, failures and timeouts leaks a variant (eviction
\* works on differences only, so one it misses stays for good).
VariantsArePinned ==
    LockFree => \A t \in Task, p \in Pin : variant[t][p] # "unloaded" => lastPins[t] = p

Installs(m) == \E p \in Installable : p.model = m

\* With digests in the pins, a model the operator does not install by hand is
\* loaded from the very artifact its pin names, whatever failed or half-done
\* downloads left in its directory.
RightWeights ==
    Digests => \A t \in Task, p \in Pin :
        Loaded(t, p) /\ ~Installs(p.model) => variant[t][p] = p.revision

\* The directory of p's model is empty, being written by a reconcile, or holds
\* what p names.
Clean(p) == disk[p.model] \in {Absent, p.revision} \/ Writers(p.model) # {}

\* While a policy keeps stating its pins, every vetted pin is in the end
\* served, across failed downloads, lost answers and restarts, as long as its
\* directory never holds anything else (reconcile, _apply, push).
PinsConverge ==
    \A d \in PinMaps : \A t \in Pinned(d) :
        (/\ d[t].model \in Vetted
         /\ []Clean(d[t])
         /\ <>[](desired = d)
         /\ <>[][~SidecarRestarts]_vars)
            => <>[]Loaded(t, d[t])

\* While a policy keeps stating its pins and the runtime knows that models were
\* loaded, whatever is not pinned is in the end unloaded.
UnpinnedIsEvicted ==
    \A d \in PinMaps :
        <>[](desired = d /\ reported = "models")
            => <>[](\A t \in Task, p \in Pin : Loaded(t, p) => d[t] = p)

\* A request pinned to one revision of a model is never scored by the weights
\* of another.
NeverAnotherRevision ==
    \A t \in Task, p \in Pin :
        Loaded(t, p) => variant[t][p] \notin Revision \ {p.revision}
=============================================================================
