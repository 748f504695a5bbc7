----------------------------- MODULE RateLimiter -----------------------------
(***************************************************************************)
(* The rate limiter in front of an API (middleware/rate_limit.py) in       *)
(* several pods: a sliding window in the memory of each pod, and a fixed   *)
(* window in a Redis that the pods share and that may fail before or after *)
(* it has counted.  All requests come from one address; a request may also *)
(* carry the one API key, which has a limit of its own.                    *)
(*                                                                         *)
(* The bodies of the in-memory limiters never suspend under their lock, so *)
(* a check of them is one step; the Redis check waits for its answer, and  *)
(* the two checks of one request are two steps.                            *)
(***************************************************************************)
EXTENDS Naturals, FiniteSets

CONSTANTS
    Pod,       \* replicas of the API
    MaxRequests, \* bound: requests, all from one client
    Redis,     \* TRUE when a Redis URL is configured
    Limit,     \* requests_per_minute + burst
    RateWindow,    \* the window, in ticks
    MaxClock    \* bound of the clock

Kind == {"ip", "key"}

VARIABLES
    clock,      \* the clock
    recent,   \* per pod and kind: SlidingWindowCounter._requests, as entries
    counted,  \* Redis: per kind and window id, the value of INCR
    came,     \* requests so far
    keyed,    \* per pod: requests between the check of the address and of the key
    passed    \* entries of the checks passed, per kind and backend (a pod or "redis")

rvars == <<clock, recent, counted, came, keyed, passed>>

Backend == Pod \cup {"redis"}

Windows == 0 .. MaxClock \div RateWindow
window_id(t) == t \div RateWindow

\* A list of times is the set of its entries: which pass it was, and when.
Entry == [n : Nat, at : 0 .. MaxClock]

TypeOK ==
    /\ clock \in 0 .. MaxClock
    /\ recent \in [Pod -> [Kind -> SUBSET Entry]]
    /\ counted \in [Kind -> [Windows -> Nat]]
    /\ came \in 0 .. MaxRequests
    /\ keyed \in [Pod -> 0 .. MaxRequests]
    /\ passed \in [Kind -> [Backend -> SUBSET Entry]]

Init ==
    /\ clock = 0
    /\ recent = [p \in Pod |-> [k \in Kind |-> {}]]
    /\ counted = [k \in Kind |-> [w \in Windows |-> 0]]
    /\ came = 0 /\ keyed = [p \in Pod |-> 0]
    /\ passed = [k \in Kind |-> [b \in Backend |-> {}]]

Tick ==
    /\ clock < MaxClock /\ clock' = clock + 1
    /\ UNCHANGED <<recent, counted, came, keyed, passed>>

NewEntry(kind, by) == [n |-> Cardinality(passed[kind][by]) + 1, at |-> clock]

Pass(kind, by) == passed' = [passed EXCEPT ![kind][by] = @ \cup {NewEntry(kind, by)}]

InWindow(entries) == {e \in entries : e.at + RateWindow > clock}

(***************************************************************************)
(* SlidingWindowCounter.is_allowed: expired times are pruned whatever the  *)
(* answer, and only a request that is allowed is added.                    *)
(***************************************************************************)
MemoryAllows(p, kind) == Cardinality(InWindow(recent[p][kind])) < Limit

memory_is_allowed(p, kind) ==
    LET kept == InWindow(recent[p][kind])
    IN  IF MemoryAllows(p, kind)
        THEN /\ recent' = [recent EXCEPT ![p][kind] = kept \cup {NewEntry(kind, p)}]
             /\ Pass(kind, p)
        ELSE /\ recent' = [recent EXCEPT ![p][kind] = kept]
             /\ UNCHANGED passed

\* INCR counts refused requests too.
RedisAllows(kind) == counted[kind][window_id(clock)] + 1 <= Limit

redis_is_allowed(kind) ==
    /\ counted' = [counted EXCEPT ![kind][window_id(clock)] = @ + 1]
    /\ IF RedisAllows(kind) THEN Pass(kind, "redis") ELSE UNCHANGED passed

(***************************************************************************)
(* _check: Redis when there is one, the pod's own window when it raises.   *)
(* An error may come after the INCR.                                       *)
(***************************************************************************)
_check(p, kind, ok) ==
    \/ /\ Redis /\ ok = RedisAllows(kind)
       /\ redis_is_allowed(kind)
       /\ UNCHANGED recent
    \/ /\ ok = MemoryAllows(p, kind)
       /\ memory_is_allowed(p, kind)
       /\ \/ UNCHANGED counted
          \/ Redis /\ counted' = [counted EXCEPT ![kind][window_id(clock)] = @ + 1]

\* dispatch: the address first; it has used its slot even if the key refuses.
CheckAddress(p, hasKey) ==
    /\ came < MaxRequests /\ came' = came + 1
    /\ \E ok \in BOOLEAN :
          /\ _check(p, "ip", ok)
          /\ keyed' = IF ok /\ hasKey THEN [keyed EXCEPT ![p] = @ + 1] ELSE keyed
    /\ UNCHANGED clock

CheckKey(p) ==
    /\ keyed[p] > 0 /\ keyed' = [keyed EXCEPT ![p] = @ - 1]
    /\ \E ok \in BOOLEAN : _check(p, "key", ok)
    /\ UNCHANGED <<clock, came>>

\* mutant: a key is dropped as soon as one of its requests has expired
Stale_any(entries) == InWindow(entries) # entries

Stale(entries) == InWindow(entries) = {}

cleanup(p) ==
    /\ \E k \in Kind : Stale(recent[p][k]) /\ recent[p][k] # {}
    /\ recent' = [recent EXCEPT ![p] =
          [k \in Kind |-> IF Stale(@[k]) THEN {} ELSE @[k]]]
    /\ UNCHANGED <<clock, counted, came, keyed, passed>>

\* Requests for /healthz and /readyz pass without a check.
Next ==
    \/ Tick
    \/ \E p \in Pod :
          \/ \E hasKey \in BOOLEAN : CheckAddress(p, hasKey)
          \/ CheckKey(p) \/ cleanup(p)

Spec == Init /\ [][Next]_rvars

(***************************************************************************)
(* Properties.                                                             *)
(***************************************************************************)
Passes(kind, by, from) ==
    Cardinality({e \in passed[kind][by] : e.at \in from .. from + RateWindow - 1})

\* However clients, cleanups, pods and Redis outages interleave: no pod's own
\* memory lets more than the limit through in any window of that length, and
\* Redis not more than the limit in one of its fixed windows (which is up to
\* twice the limit across a boundary, and the pods' limits come on top of it
\* while Redis fails).
RateBounded ==
    \A kind \in Kind, t \in 0 .. MaxClock :
        /\ \A p \in Pod : Passes(kind, p, t) <= Limit
        /\ Passes(kind, "redis", t) <= 2 * Limit
        /\ t % RateWindow = 0 => Passes(kind, "redis", t) <= Limit
=============================================================================
