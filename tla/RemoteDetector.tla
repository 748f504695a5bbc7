--------------------------- MODULE RemoteDetector ---------------------------
(***************************************************************************)
(* One call of a remote detector (detectors/remote.py): name resolution,   *)
(* attempts, backoff, the total deadline, and the wait of the synchronous  *)
(* entry point that a caller's thread blocks in while the coroutine runs   *)
(* on the shared loop.                                                     *)
(*                                                                         *)
(* Every caller builds a detector, and with it a circuit breaker, of its   *)
(* own (escalation.py, plugin.py).  The breaker is asked once, before the  *)
(* first attempt and still closed, so it always lets the call through, and *)
(* nothing reads what it counts: it is left out.                           *)
(*                                                                         *)
(* Time is counted from the call of detect in a unit that divides every    *)
(* configured duration.  Name resolution, the loop and the endpoint are    *)
(* external: each may take longer than the code allows for.                *)
(***************************************************************************)
EXTENDS Integers

CONSTANTS
    RemoteConfigs, \* the configurations looked at
    Timeout,       \* timeout_seconds, of one attempt
    Grace,         \* the seconds detect adds to its wait
    Backoff,       \* retry_backoff
    MaxRetries,    \* max_retries
    MaxElapsed     \* bound: the clock of a call

\* total is total_deadline_seconds, 0 for none; endpoint, whether a URL is set.
RemoteConfig == [total : Nat, endpoint : BOOLEAN, fail_open : BOOLEAN]

VARIABLES
    remote,    \* the detector's configuration
    phase,     \* where the coroutine is
    attempt,
    elapsed,   \* time since the call of detect
    deadline,  \* when the total budget is used up
    until,     \* when the attempt times out, or the backoff ends
    overrun,   \* the loop, the resolver or the transport took longer than allowed
    verdict    \* what the caller got

dvars == <<remote, phase, attempt, elapsed, deadline, until, overrun, verdict>>

TypeOK ==
    /\ remote \in RemoteConfig
    /\ phase \in {"queued", "resolving", "ready", "sent", "backoff", "done"}
    /\ attempt \in 0 .. MaxRetries
    /\ elapsed \in Nat /\ deadline \in Nat /\ until \in Nat
    /\ overrun \in BOOLEAN
    /\ verdict \in {"none", "remote", "ALLOW", "BLOCK", "raised"}

\* detect has handed the coroutine to the shared loop and waits.
Init ==
    /\ remote \in RemoteConfigs
    /\ phase = "queued" /\ attempt = 0
    /\ elapsed = 0 /\ deadline = 0 /\ until = 0
    /\ overrun = FALSE
    /\ verdict = "none"

_fail_result == IF remote.fail_open THEN "ALLOW" ELSE "BLOCK"

\* The coroutine ends; a caller that has given up does not hear of it.
End(v) ==
    /\ phase' = "done"
    /\ verdict' = IF verdict = "raised" THEN verdict ELSE v

OutOfTime == remote.total # 0 /\ elapsed >= deadline

\* mutant: the budget that remains does not bound what is started
Cut_full(t) == t

\* min(t, remaining), where there is a total deadline.
Cut(t) == IF remote.total # 0 /\ deadline - elapsed < t THEN deadline - elapsed ELSE t

(***************************************************************************)
(* _detect_async.                                                          *)
(***************************************************************************)
Begin ==
    /\ phase = "queued"
    /\ deadline' = elapsed + remote.total
    /\ \/ ~remote.endpoint /\ End("ALLOW")
       \/ remote.endpoint /\ phase' = "resolving" /\ UNCHANGED verdict
    /\ UNCHANGED <<remote, attempt, elapsed, until, overrun>>

\* The address is resolved once, and found safe or not.
Resolved ==
    /\ phase = "resolving"
    /\ \/ phase' = "ready" /\ UNCHANGED verdict
       \/ End(_fail_result)
    /\ UNCHANGED <<remote, attempt, elapsed, deadline, until, overrun>>

\* The head of the loop.
Send ==
    /\ phase = "ready"
    /\ \/ OutOfTime /\ End(_fail_result) /\ UNCHANGED until
       \/ /\ ~OutOfTime
          /\ phase' = "sent" /\ until' = elapsed + Cut(Timeout)
          /\ UNCHANGED verdict
    /\ UNCHANGED <<remote, attempt, elapsed, deadline, overrun>>

\* _parse_response accepts the answer.
Answered ==
    /\ phase = "sent" /\ End("remote")
    /\ UNCHANGED <<remote, attempt, elapsed, deadline, until, overrun>>

\* A timeout, a refusal, an error status or an answer that is not a verdict.
AttemptFails ==
    /\ phase = "sent"
    /\ \/ /\ attempt < MaxRetries /\ ~OutOfTime
          /\ phase' = "backoff" /\ attempt' = attempt + 1
          /\ until' = elapsed + Cut(Backoff * 2 ^ attempt)
          /\ UNCHANGED verdict
       \/ /\ attempt = MaxRetries \/ OutOfTime
          /\ End(_fail_result)
          /\ UNCHANGED <<attempt, until>>
    /\ UNCHANGED <<remote, elapsed, deadline, overrun>>

BackoffEnds ==
    /\ phase = "backoff" /\ elapsed >= until
    /\ phase' = "ready"
    /\ UNCHANGED <<remote, attempt, elapsed, deadline, until, overrun, verdict>>

(***************************************************************************)
(* detect: the caller gets the result, or an exception once its wait is    *)
(* over; the coroutine is then left to itself.                             *)
(***************************************************************************)
wait == Grace + IF remote.total # 0 THEN remote.total ELSE Timeout

SyncWaitExpires ==
    /\ verdict = "none" /\ elapsed >= wait
    /\ verdict' = "raised"
    /\ UNCHANGED <<remote, phase, attempt, elapsed, deadline, until, overrun>>

\* Time passes wherever the coroutine awaits something.  It has overrun when
\* the loop takes it up only after the grace, when the name is resolved only
\* after the wait, when an attempt outlives its timeout (httpx counts it anew
\* for every read) or a sleep its end.
Tick ==
    /\ phase \in {"queued", "resolving", "sent", "backoff"} /\ elapsed < MaxElapsed
    /\ elapsed' = elapsed + 1
    /\ overrun' = \/ overrun
                  \/ phase = "queued" /\ elapsed' >= Grace
                  \/ phase = "resolving" /\ elapsed' >= wait
                  \/ phase \in {"sent", "backoff"} /\ elapsed >= until
    /\ UNCHANGED <<remote, phase, attempt, deadline, until, verdict>>

Next ==
    \/ Begin \/ Resolved \/ Send \/ Answered \/ AttemptFails \/ BackoffEnds
    \/ SyncWaitExpires \/ Tick

Spec == Init /\ [][Next]_dvars

(***************************************************************************)
(* Properties.                                                             *)
(***************************************************************************)
\* A call with a total deadline never ends in an exception of its own making:
\* unless the loop, the resolver or the transport overran, the caller gets the
\* remote's verdict or the fail result before its wait is over, through every
\* retry and backoff (detect, _detect_async).  The escalation catches no
\* exception of detect, so this is what its fallback rests on.
ReturnsByDeadline ==
    remote.total # 0 /\ ~overrun => verdict # "raised"
=============================================================================
