--------------------------- MODULE BundleManager ---------------------------
(***************************************************************************)
(* The policy bundle manager of the runtime (bundle_manager.py) with the   *)
(* bundle cache it keeps on disk (policy/bundle.py) and the control plane  *)
(* it polls (external).                                                    *)
(*                                                                         *)
(* One asyncio process boots, fetches the published bundle over HTTP with  *)
(* an If-None-Match etag, validates it, serves it, writes it to the disk   *)
(* cache in three file operations, and after every poll spawns one run of  *)
(* the cycle listeners.  The process may crash between any two steps and   *)
(* be started again; its memory is lost, the disk is not.                  *)
(***************************************************************************)
EXTENDS Naturals

CONSTANTS
    Bundle,       \* the bundles a control plane may publish
    Valid,        \* those for which validate_bundle returns True here
    NonEmpty,     \* those with policies or scope_policies
    None,         \* Python's None
    Garbage,      \* file content that does not parse as JSON
    Yaml,         \* a policy file in YAML form
    Configs,      \* the runtime configurations looked at
    MaxAttempts,  \* len(_BOOT_RETRY_DELAYS)
    PolicyFiles,  \* what config.policy_path may hold in local mode
    Damage        \* what an outsider may leave in the cache file

Policy == Bundle \cup {Yaml}

Special == {None, Garbage, Yaml}

\* What a deployment fixes: config.mode, config.fail_mode,
\* config.require_signed_bundles, and whether a file operation may raise
\* OSError on its disk.
Config == [mode           : {"local", "managed"},
           fail_mode      : {"open", "closed"},
           require_signed : BOOLEAN,
           disk_fails     : BOOLEAN]

ASSUME ConstantAssumption ==
    /\ Valid \subseteq Bundle /\ NonEmpty \subseteq Bundle
    /\ Special \cap Bundle = {}
    /\ None # Garbage /\ None # Yaml /\ Garbage # Yaml
    /\ Configs \subseteq Config
    /\ MaxAttempts \in Nat \ {0}
    /\ PolicyFiles \subseteq Bundle \cup Special
    /\ Damage \subseteq Bundle \cup {Garbage}

VARIABLES
    config,      \* self.config and the disk, fixed for a deployment
    published,   \* the control plane's latest bundle
    history,     \* every policy ever published, or put in the policy file
    planted,     \* the valid bundles an outsider has left in the cache file
    cache,       \* bundle_cache.json
    bak,         \* bundle_cache.json.bak
    policyFile,  \* config.policy_path (local mode)
    pc,          \* where the process is
    attempt,     \* the boot attempt under way
    fetch,       \* where _fetch_bundle is
    reply,       \* the response body of the fetch under way, None for a 304
    bundle,      \* self._bundle
    etag,        \* self._etag
    resolver,    \* self._policy_resolver
    cycle,       \* self._cycle_task
    cyclePolicy, \* the policy the running cycle was given
    delivered    \* the last policy the listeners were completely run with

disk    == <<cache, bak, policyFile>>
server  == <<published, history, planted>>
fetcher == <<attempt, fetch, reply>>
memory  == <<bundle, etag, resolver>>
cycles  == <<cycle, cyclePolicy, delivered>>
vars    == <<config, server, disk, pc, fetcher, memory, cycles>>

Saving == {"backup", "write", "replace"}

TypeOK ==
    /\ config \in Config
    /\ published \in Bundle \cup {None}
    /\ history \in SUBSET Policy
    /\ planted \in SUBSET Valid
    /\ cache \in Bundle \cup {None, Garbage}
    /\ bak \in Bundle \cup {None, Garbage}
    /\ policyFile \in Bundle \cup Special
    /\ pc \in {"off", "booting", "fallback", "running", "dead"}
    /\ attempt \in 0 .. MaxAttempts
    /\ fetch \in {"idle", "sent", "replied"} \cup Saving
    /\ reply \in Bundle \cup {None}
    /\ bundle \in Bundle \cup {None}
    /\ etag \in Bundle \cup {None}
    /\ resolver \in {None, Yaml}
    /\ cycle \in {"idle", "scheduled", "notifying"}
    /\ cyclePolicy \in Bundle \cup {None, Yaml}
    /\ delivered \in Bundle \cup {None, Yaml}

Init ==
    /\ config \in Configs
    /\ policyFile \in IF config.mode = "local" THEN PolicyFiles ELSE {None}
    /\ published = None /\ history = {policyFile} \cap Policy /\ planted = {}
    /\ cache = None /\ bak = None
    /\ pc = "off"
    /\ attempt = 0 /\ fetch = "idle" /\ reply = None
    /\ bundle = None /\ etag = None /\ resolver = None
    /\ cycle = "idle" /\ cyclePolicy = None /\ delivered = None

(***************************************************************************)
(* What callers read.                                                      *)
(***************************************************************************)
is_ready == bundle # None \/ resolver # None

EmptyPolicy == "every detector disabled"
PolicyError == "RuntimeError"

get_policy ==
    IF resolver # None THEN resolver
    ELSE IF bundle \in NonEmpty THEN bundle
    ELSE IF config.fail_mode = "open" THEN EmptyPolicy ELSE PolicyError

active_policy_for_listeners ==
    IF bundle # None THEN bundle ELSE resolver

(***************************************************************************)
(* The cycle listeners: a detached task, at most one in flight.            *)
(***************************************************************************)
\* mutant: a cycle only when a new bundle came
spawn_cycle_on_change ==
    /\ cycle' = IF cycle = "idle" /\ reply # None THEN "scheduled" ELSE cycle
    /\ UNCHANGED <<cyclePolicy, delivered>>

spawn_cycle ==
    /\ cycle' = IF cycle = "idle" THEN "scheduled" ELSE cycle
    /\ UNCHANGED <<cyclePolicy, delivered>>

\* The task body starts on a later turn of the event loop and reads the
\* policy then.
CycleStart ==
    /\ cycle = "scheduled" /\ fetch \notin Saving
    /\ cycle' = "notifying"
    /\ cyclePolicy' = active_policy_for_listeners
    /\ UNCHANGED <<config, server, disk, pc, fetcher, memory, delivered>>

\* Every callback has returned or raised; what a callback raises is swallowed.
CycleEnd ==
    /\ cycle = "notifying" /\ fetch \notin Saving
    /\ cycle' = "idle"
    /\ delivered' \in {cyclePolicy, delivered}
    /\ UNCHANGED <<config, server, disk, pc, fetcher, memory, cyclePolicy>>

(***************************************************************************)
(* Boot.                                                                   *)
(***************************************************************************)
Start ==
    /\ pc \in {"off", "dead"}
    /\ pc' = "booting"
    /\ attempt' = 1
    /\ UNCHANGED <<config, server, disk, fetch, reply, memory, cycles>>

\* start returns: the poll task exists and the first cycle is spawned.
BootSucceeds ==
    /\ pc' = "running"
    /\ spawn_cycle

\* start raises: the server exits.
BootRaises ==
    /\ pc' = "dead"
    /\ bundle' = None /\ etag' = None /\ resolver' = None
    /\ UNCHANGED cycles

\* mutant: the fail mode is not looked at
ApplyFailModeAlwaysOpen == BootSucceeds /\ UNCHANGED memory

\* No policy was found.
ApplyFailMode ==
    \/ config.fail_mode = "open" /\ BootSucceeds /\ UNCHANGED memory
    \/ config.fail_mode = "closed" /\ BootRaises

\* _load_local: the file is read, a JSON bundle is validated, a YAML file goes
\* to the resolver.
LoadLocal ==
    /\ config.mode = "local" /\ pc = "booting"
    /\ \/ policyFile = None /\ ApplyFailMode
       \/ policyFile \in (Bundle \ Valid) \cup {Garbage} /\ BootRaises
       \/ /\ policyFile \in Valid
          /\ bundle' = policyFile
          /\ BootSucceeds
          /\ UNCHANGED <<etag, resolver>>
       \/ /\ policyFile = Yaml
          /\ resolver' = Yaml
          /\ BootSucceeds
          /\ UNCHANGED <<bundle, etag>>
    /\ attempt' = 0
    /\ UNCHANGED <<config, server, disk, fetch, reply>>

CacheUsable == cache \in Valid

\* The tail of _load_managed, once every attempt has failed: the disk cache,
\* with the same validation, then the fail mode.
LoadCached ==
    /\ pc = "fallback"
    /\ \/ config.disk_fails /\ BootRaises    \* the mkdir of _cache_path raises
       \/ cache = Garbage /\ BootRaises      \* json.load raises
       \/ cache # Garbage /\ ~CacheUsable /\ ApplyFailMode
       \/ /\ CacheUsable
          /\ bundle' = cache
          /\ BootSucceeds
          /\ UNCHANGED <<etag, resolver>>
    /\ UNCHANGED <<config, server, disk, fetcher>>

AttemptsLeft == attempt < MaxAttempts

(***************************************************************************)
(* One call of _fetch_bundle ends: _load_managed's loop or _poll_loop      *)
(* decides what happens next.                                              *)
(***************************************************************************)
FetchEnds(ok) ==
    /\ fetch' = "idle" /\ reply' = None
    /\ \/ /\ pc = "booting" /\ ok
          /\ BootSucceeds
          /\ attempt' = 0
       \/ /\ pc = "booting" /\ ~ok /\ AttemptsLeft
          /\ attempt' = attempt + 1
          /\ UNCHANGED <<pc, cycles>>
       \/ /\ pc = "booting" /\ ~ok /\ ~AttemptsLeft
          /\ pc' = "fallback"
          /\ attempt' = 0
          /\ UNCHANGED cycles
       \/ /\ pc = "running"
          /\ spawn_cycle
          /\ UNCHANGED <<pc, attempt>>

\* mutant: no poll task
FetchSendOnBoot ==
    /\ config.mode = "managed" /\ pc = "booting" /\ fetch = "idle"
    /\ fetch' = "sent"
    /\ UNCHANGED <<config, server, disk, pc, attempt, reply, memory, cycles>>

\* The GET leaves with the current etag: on boot, and on every poll tick.
FetchSend ==
    /\ config.mode = "managed" /\ pc \in {"booting", "running"} /\ fetch = "idle"
    /\ fetch' = "sent"
    /\ UNCHANGED <<config, server, disk, pc, attempt, reply, memory, cycles>>

\* mutant: a failed poll forgets the bundle
FetchFailsForgets ==
    /\ fetch \in {"sent", "replied"}
    /\ FetchEnds(FALSE)
    /\ bundle' = None /\ etag' = None
    /\ UNCHANGED <<config, server, disk, resolver>>

\* The request or its answer is lost, times out, is an error status, or does
\* not parse.
FetchFails ==
    /\ fetch \in {"sent", "replied"}
    /\ FetchEnds(FALSE)
    /\ UNCHANGED <<config, server, disk, memory>>

\* mutant: the etag is recorded before the bundle is validated
RejectReplyKeepsEtag ==
    /\ FetchEnds(FALSE)
    /\ etag' = reply
    /\ UNCHANGED <<bundle, resolver>>

\* The answer fails validation.
RejectReply == FetchEnds(FALSE) /\ UNCHANGED memory

\* The answer is applied: 304, a bundle that fails validation, or a new bundle
\* with whatever ETag header came with it.
FetchApplies ==
    /\ fetch = "replied"
    /\ \/ /\ reply = None
          /\ FetchEnds(TRUE)
          /\ UNCHANGED <<config, server, disk, memory>>
       \/ /\ reply \in Bundle \ Valid
          /\ RejectReply
          /\ UNCHANGED <<config, server, disk>>
       \/ /\ reply \in Valid
          /\ bundle' = reply
          /\ etag' \in {reply, None}
          /\ fetch' = "backup"
          /\ UNCHANGED <<config, server, disk, pc, attempt, reply, resolver, cycles>>

(***************************************************************************)
(* save_bundle_to_file: previous generation to .bak, temporary file,       *)
(* os.replace.  It runs without an await, so of the process's own steps    *)
(* only these are enabled while it is under way; a crash is.               *)
(***************************************************************************)
SaveBackup ==
    /\ fetch = "backup"
    /\ \/ bak' = IF cache = None THEN bak ELSE cache
       \/ /\ cache # None /\ config.disk_fails    \* a failed copy is only logged
          /\ bak' \in {bak, Garbage}
    /\ fetch' = "write"
    /\ UNCHANGED <<config, server, cache, policyFile, pc, attempt, reply, memory, cycles>>

SaveWriteTemp ==
    /\ fetch = "write"
    /\ fetch' = "replace"
    /\ UNCHANGED <<config, server, disk, pc, attempt, reply, memory, cycles>>

\* mutant: the temporary file never replaces the cache
SaveReplaceForgotten ==
    /\ fetch = "replace"
    /\ FetchEnds(TRUE)
    /\ UNCHANGED <<config, server, disk, memory>>

SaveReplace ==
    /\ fetch = "replace"
    /\ cache' = reply
    /\ FetchEnds(TRUE)
    /\ UNCHANGED <<config, server, bak, policyFile, memory>>

\* mkdir, mkstemp, write, fsync or replace raises: the temporary file is
\* removed and the error leaves _fetch_bundle.
SaveFails ==
    /\ config.disk_fails /\ fetch \in Saving
    /\ FetchEnds(FALSE)
    /\ UNCHANGED <<config, server, disk, memory>>

(***************************************************************************)
(* The end of the process.  Stop cancels the poll and cycle tasks at an    *)
(* await; a crash may also fall inside a save and cut the .bak copy short. *)
(***************************************************************************)
MemoryLost ==
    /\ pc' = "off"
    /\ attempt' = 0 /\ fetch' = "idle" /\ reply' = None
    /\ bundle' = None /\ etag' = None /\ resolver' = None
    /\ cycle' = "idle" /\ cyclePolicy' = None /\ delivered' = None

Stop ==
    /\ pc = "running" /\ fetch \notin Saving
    /\ MemoryLost
    /\ UNCHANGED <<config, server, disk>>

Crash ==
    /\ pc \in {"booting", "fallback", "running"}
    /\ MemoryLost
    /\ bak' \in IF fetch = "backup" /\ cache # None THEN {bak, Garbage} ELSE {bak}
    /\ UNCHANGED <<config, server, cache, policyFile>>

(***************************************************************************)
(* The environment: the control plane (external) and the disk.             *)
(***************************************************************************)
Publish(b) ==
    /\ config.mode = "managed" /\ published # b
    /\ published' = b
    /\ history' = history \cup {b}
    /\ UNCHANGED <<config, planted, disk, pc, fetcher, memory, cycles>>

ServerReplies ==
    /\ fetch = "sent" /\ published # None
    /\ reply' = IF etag = published THEN None ELSE published
    /\ fetch' = "replied"
    /\ UNCHANGED <<config, server, disk, pc, attempt, memory, cycles>>

\* An outsider writes the cache file while the process is down.  A plain JSON
\* bundle passes validate_bundle (an absent hash is not checked); only where
\* signatures are required is a valid bundle one that was published, as
\* nobody else can sign: there the outsider can at most put back an old one.
DamageCache(v) ==
    /\ config.mode = "managed" /\ pc \in {"off", "dead"}
    /\ config.require_signed /\ v \in Valid => v \in history
    /\ cache' = v
    /\ planted' = planted \cup ({v} \cap Valid)
    /\ UNCHANGED <<config, published, history, bak, policyFile, pc, fetcher, memory, cycles>>

EditPolicyFile(f) ==
    /\ config.mode = "local" /\ pc \in {"off", "dead"}
    /\ policyFile' = f
    /\ history' = history \cup ({f} \cap Policy)
    /\ UNCHANGED <<config, published, planted, cache, bak, pc, fetcher, memory, cycles>>

Next ==
    \/ Start \/ LoadLocal \/ LoadCached
    \/ FetchSend \/ FetchFails \/ FetchApplies
    \/ SaveBackup \/ SaveWriteTemp \/ SaveReplace \/ SaveFails
    \/ CycleStart \/ CycleEnd
    \/ Stop \/ Crash
    \/ ServerReplies
    \/ \E b \in Bundle : Publish(b)
    \/ \E v \in Damage : DamageCache(v)
    \/ \E f \in PolicyFiles : EditPolicyFile(f)

(***************************************************************************)
(* Fairness.  Timers fire; httpx times a request out, so a fetch that was  *)
(* sent ends; a control plane asked again and again answers sometime, and  *)
(* sometime the answer arrives; a save's own steps run, and a disk asked   *)
(* again and again takes the file sometime; the event loop gives the cycle *)
(* task its turn between fetches (strong, as a save holds the loop), and   *)
(* listeners that run again and again succeed sometime.  Nothing forces a  *)
(* start, a stop, a crash, a publication or damage.                        *)
(***************************************************************************)
Fairness ==
    /\ WF_vars(FetchSend)
    /\ WF_vars(ServerReplies \/ FetchFails \/ FetchApplies)
    /\ SF_vars(ServerReplies) /\ SF_vars(FetchApplies)
    /\ WF_vars(SaveBackup) /\ WF_vars(SaveWriteTemp) /\ SF_vars(SaveReplace)
    /\ SF_vars(CycleStart)
    /\ SF_vars(CycleEnd /\ delivered' = cyclePolicy)

Spec == Init /\ [][Next]_vars /\ Fairness

(***************************************************************************)
(* Safety.                                                                 *)
(***************************************************************************)

\* The policies somebody with the right to do so has offered: the publisher,
\* and, where bundles need not be signed, whoever can write the cache file.
Offered == IF config.require_signed THEN history ELSE history \cup planted

\* No request is evaluated under a policy that nobody offered or that
\* validate_bundle rejects, whatever was left in the cache file and however old
\* the answer that brought it (get_policy, over what _fetch_bundle, the cache
\* fallback of _load_managed and _load_local put in memory).  With signatures
\* required, offered means published; without them, the default, the cache
\* file's writer counts as a publisher.
ServesOnlyPublished ==
    /\ bundle \in (Valid \cap Offered) \cup {None}
    /\ get_policy \in ((Valid \cup {Yaml}) \cap Offered) \cup {EmptyPolicy, PolicyError}

\* Under fail_mode "closed" a process that serves requests has a policy: no
\* boot path, local or managed, reaches the serving state without one.
FailClosedHasPolicy ==
    config.fail_mode = "closed" /\ pc = "running" => is_ready

\* When no file operation fails, the etag sent with the next poll is the etag
\* of the bundle being served, so a 304 answer really means "what you serve is
\* current" (_fetch_bundle sets both, boot fallbacks set only the bundle).
EtagNamesBundle ==
    ~config.disk_fails /\ etag # None => etag = bundle

\* When no file operation fails, the cache on disk is the bundle being served
\* outside of a save: a restart that cannot reach the control plane serves the
\* policy the process served before.
RestartServesSame ==
    ~config.disk_fails /\ config.mode = "managed" /\ pc = "running" /\ bundle # None
        /\ fetch \notin Saving
        => cache = bundle

\* The process, crashing wherever it may, never leaves in the cache file
\* anything but a whole, validated, published bundle (save_bundle_to_file
\* never opens the file itself for writing).
CacheWritesWhole ==
    [][cache' # cache /\ pc \notin {"off", "dead"}
         => cache' \in Valid \cap history]_vars

\* The manager implements PolicySource: what requests are served with moves
\* only among offered, validated policies, and is lost only with the process.
\* Offered are the published policies, in a deployment without signatures
\* also the bundles planted in the cache file.
Source == INSTANCE PolicySource WITH
    Trusted  <- Valid \cup {Yaml},
    NoPolicy <- None,
    failOpen <- config.fail_mode = "open",
    offered  <- Offered,
    active   <- active_policy_for_listeners,
    serving  <- pc = "running"

\* The bundle manager, with crashes, disk faults and a cache file damaged or
\* planted by an outsider, implements the abstract PolicySource (start,
\* _load_managed, _fetch_bundle): where signatures are required nothing but a
\* published, validated policy is ever served.
ImplementsPolicySource == Source!Spec

(***************************************************************************)
(* Liveness.                                                               *)
(***************************************************************************)

\* While the process keeps running and the control plane keeps one valid
\* bundle published, that bundle is in the end served for good: a failed poll
\* only delays it (_poll_loop, _fetch_bundle).
FailuresOnlyDelay ==
    \A b \in Valid :
        <>[](pc = "running" /\ published = b) => <>[](bundle = b)

\* On a disk that works, whatever becomes of requests and answers, a bundle
\* that stays published is in the end served for good (_poll_loop,
\* _fetch_bundle).
PolicyFreshness ==
    [](~config.disk_fails) => FailuresOnlyDelay

\* In managed mode, while the process keeps running with one bundle, the cycle
\* listeners are in the end run to completion with that bundle: a tick
\* skipped behind a slow cycle and a callback that raised are made up for
\* (_spawn_cycle).
ListenersConverge ==
    \A b \in Valid :
        <>[](config.mode = "managed" /\ pc = "running" /\ bundle = b)
            => <>[](delivered = b)
=============================================================================
