--------------------------- MODULE RuntimeServices ---------------------------
(***************************************************************************)
(* The services around an evaluation that share no state: the benchmark    *)
(* workers, the audit spool, the rate limiter, a remote detector and the   *)
(* detectors that remember.  A behaviour exercises one of them, so that    *)
(* for TLC the states add up instead of multiplying.                       *)
(***************************************************************************)
EXTENDS Naturals, Sequences, FiniteSets

CONSTANTS
    Worker, Pages, Filtered, MaxFaults,                      \* BenchmarkWorker
    Event, FailMode, MaxTorn,                                \* AuditSpool
    Pod, MaxRequests, Redis, Limit, RateWindow, MaxClock,    \* RateLimiter
    RemoteConfigs, Timeout, Grace, Backoff, MaxRetries, MaxElapsed, \* RemoteDetector
    Session, Text, Rate, Window, FloodAt, FloodMemory, RepeatAt,
    MaxStates, MaxTokens, MaxCalls, MaxTime                  \* SessionState

ASSUME ServicesAssumption ==
    /\ Pages \in Nat /\ Filtered \subseteq 0 .. Pages - 1 /\ MaxFaults \in Nat
    /\ FailMode \in {"closed", "open"} /\ MaxTorn \in Nat
    /\ "redis" \notin Pod /\ Redis \in BOOLEAN
    /\ MaxRequests \in Nat /\ Limit \in Nat
    /\ RateWindow \in Nat \ {0} /\ MaxClock \in Nat
    /\ RemoteConfigs \subseteq [total : Nat, endpoint : BOOLEAN, fail_open : BOOLEAN]
    /\ Timeout \in Nat /\ Grace \in Nat \ {0} /\ Backoff \in Nat
    /\ MaxRetries \in Nat /\ MaxElapsed \in Nat
    /\ Rate \in Nat /\ Window \in Nat /\ MaxCalls \in Nat /\ MaxTime \in Nat
    /\ FloodAt \in Nat /\ FloodMemory \in Nat \ {0}
    /\ RepeatAt \in Nat \ {0} /\ MaxStates \in Nat \ {0}

VARIABLES
    part,                                                    \* the service exercised
    status, stored, step, offset, faults,                    \* BenchmarkWorker
    lines, fate, torn,                                       \* AuditSpool
    clock, recent, counted, came, keyed, passed,             \* RateLimiter
    remote, phase, attempt, elapsed, deadline, until, overrun, verdict, \* RemoteDetector
    now, bucket, prompts, usage, asked, log                  \* SessionState

B == INSTANCE BenchmarkWorker
S == INSTANCE AuditSpool
R == INSTANCE RateLimiter
D == INSTANCE RemoteDetector
T == INSTANCE SessionState

benchmarkVars == <<status, stored, step, offset, faults>>
spoolVars == <<lines, fate, torn>>
limiterVars == <<clock, recent, counted, came, keyed, passed>>
remoteVars == <<remote, phase, attempt, elapsed, deadline, until, overrun, verdict>>
sessionVars == <<now, bucket, prompts, usage, asked, log>>
vars == <<part, benchmarkVars, spoolVars, limiterVars, remoteVars, sessionVars>>

Init ==
    /\ part \in {"benchmark", "spool", "limiter", "remote", "session"}
    /\ B!Init /\ S!Init /\ R!Init /\ D!Init /\ T!Init

Benchmark(step_) ==
    /\ part = "benchmark" /\ step_
    /\ UNCHANGED <<part, spoolVars, limiterVars, remoteVars, sessionVars>>

Next ==
    \/ Benchmark(B!Next)
    \/ /\ part = "spool" /\ S!Next
       /\ UNCHANGED <<part, benchmarkVars, limiterVars, remoteVars, sessionVars>>
    \/ /\ part = "limiter" /\ R!Next
       /\ UNCHANGED <<part, benchmarkVars, spoolVars, remoteVars, sessionVars>>
    \/ /\ part = "remote" /\ D!Next
       /\ UNCHANGED <<part, benchmarkVars, spoolVars, limiterVars, sessionVars>>
    \/ /\ part = "session" /\ T!Next
       /\ UNCHANGED <<part, benchmarkVars, spoolVars, limiterVars, remoteVars>>

\* The fairness of the one service whose properties need it.
Fairness ==
    /\ \A w \in Worker : WF_vars(Benchmark(B!Work(w)))
    /\ WF_vars(Benchmark(B!LeaseExpires))

Spec == Init /\ [][Next]_vars /\ Fairness

\* A benchmark run that is completed holds every page of results.
CompletedIsWhole == B!CompletedIsWhole
\* A queued benchmark run ends as long as one worker stays up.
RunFinishes == part = "benchmark" => B!RunFinishes
\* Calls that left and that the drain does not see are bounded by torn writes.
LossBounded == S!LossBounded
\* No backend of the limiter lets more than its limit through a window.
RateBounded == R!RateBounded
\* A remote call with a deadline gets a result, unless its environment overran.
ReturnsByDeadline == D!ReturnsByDeadline
\* An agent that spins on one state is caught.
LoopCaught == T!LoopCaught
\* The bounded abuse histories answer as the whole log demands.
AbuseMatchesLog == T!AbuseMatchesLog
=============================================================================
