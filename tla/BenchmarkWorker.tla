--------------------------- MODULE BenchmarkWorker ---------------------------
(***************************************************************************)
(* The benchmark workers of several runtimes and the one queued run they   *)
(* may claim (benchmark_worker.py).  The control plane is not part of the  *)
(* repository: it leases a queued run, stores the pages of results it is   *)
(* sent, and may let a lease expire at any time.  What it makes of a call  *)
(* from a runtime whose lease has expired is left open.                    *)
(*                                                                         *)
(* Every HTTP call may be lost, applied without an answer, or refused.     *)
(***************************************************************************)
EXTENDS Naturals, FiniteSets

CONSTANTS
    Worker,      \* runtimes with a benchmark worker
    Pages,       \* pages of samples, 0 .. Pages - 1
    Filtered,    \* the pages whose samples the control plane filtered out
    MaxFaults    \* bound: calls that fail and restarts

VARIABLES
    status,   \* control plane: queued, leased, completed, failed
    stored,   \* control plane: the pages whose results it holds
    step,     \* per worker: idle, fetch, post, complete, report, off, stopped
    offset,   \* per worker: the page _run is at
    faults    \* calls that failed so far

bvars == <<status, stored, step, offset, faults>>

TypeOK ==
    /\ status \in {"queued", "leased", "completed", "failed"}
    /\ stored \subseteq 0 .. Pages - 1
    /\ step \in [Worker -> {"idle", "fetch", "post", "complete", "report", "off",
                          "stopped"}]
    /\ offset \in [Worker -> 0 .. Pages]
    /\ faults \in 0 .. MaxFaults

Init ==
    /\ status = "queued" /\ stored = {}
    /\ step = [w \in Worker |-> "idle"]
    /\ offset = [w \in Worker |-> 0]
    /\ faults = 0

Finished == status \in {"completed", "failed"}

Goto(w, p) == step' = [step EXCEPT ![w] = p]
Fault == faults < MaxFaults /\ faults' = faults + 1

\* The control plane drops the lease of a runtime it has not heard from.
LeaseExpires ==
    /\ status = "leased"
    /\ status' = "queued"
    /\ UNCHANGED <<stored, step, offset, faults>>

(***************************************************************************)
(* poll_once: claim at most one run.  A 404 on the claim switches the      *)
(* worker off for the life of its process.                                 *)
(***************************************************************************)
_claim(w) ==
    /\ step[w] = "idle"
    /\ \/ /\ status = "queued" /\ status' = "leased"
          /\ Goto(w, "fetch") /\ offset' = [offset EXCEPT ![w] = 0]
          /\ UNCHANGED faults
       \/ /\ Fault
          /\ status' \in IF status = "queued" THEN {status, "leased"} ELSE {status}
          /\ UNCHANGED <<step, offset>>
    /\ UNCHANGED stored

_unsupported(w) ==
    /\ step[w] = "idle" /\ Fault
    /\ Goto(w, "off")
    /\ UNCHANGED <<status, stored, offset>>

(***************************************************************************)
(* _run: fetch a page, evaluate it, post it.  A sample that raises is a    *)
(* result too, so a page always has as many results as samples.            *)
(***************************************************************************)
\* mutant: an empty page is asked for again
PastEmpty_same(w) == Goto(w, "fetch") /\ UNCHANGED offset

\* Past a page without samples the next one is asked for, at the end too.
PastEmpty(w) == offset' = [offset EXCEPT ![w] = @ + 1] /\ Goto(w, "fetch")

Past(w) ==
    /\ offset' = [offset EXCEPT ![w] = @ + 1]
    /\ Goto(w, IF offset[w] + 1 >= Pages THEN "complete" ELSE "fetch")

_fetch_samples(w) ==
    /\ step[w] = "fetch"
    /\ \/ /\ offset[w] >= Pages
          /\ Goto(w, "complete") /\ UNCHANGED <<offset, faults>>
       \/ /\ offset[w] < Pages /\ offset[w] \in Filtered
          /\ PastEmpty(w) /\ UNCHANGED faults
       \/ /\ offset[w] < Pages /\ offset[w] \notin Filtered
          /\ Goto(w, "post") /\ UNCHANGED <<offset, faults>>
       \/ /\ Fault /\ Goto(w, "report") /\ UNCHANGED offset
    /\ UNCHANGED <<status, stored>>

\* mutant: a page that could not be reported is skipped
PostFails_skipped(w) == Past(w)

PostFails(w) == Goto(w, "report") /\ UNCHANGED offset

_post_results(w) ==
    /\ step[w] = "post"
    /\ \/ stored' = stored \cup {offset[w]} /\ Past(w) /\ UNCHANGED faults
       \/ /\ Fault /\ PostFails(w)
          /\ stored' \in {stored, stored \cup {offset[w]}}
    /\ UNCHANGED status

(***************************************************************************)
(* _complete: with the error when _run raised.  Its answer is not looked   *)
(* at, so a lost completion leaves the run to the end of its lease.  (An   *)
(* error with an empty text would be sent as none; whatever _run raises    *)
(* names the call that failed.)                                            *)
(***************************************************************************)
_complete(w) ==
    /\ step[w] \in {"complete", "report"}
    /\ LET verdict == IF step[w] = "complete" THEN "completed" ELSE "failed"
       IN  \/ status' = (IF Finished THEN status ELSE verdict) /\ UNCHANGED faults
           \/ Fault /\ status' \in {status, IF Finished THEN status ELSE verdict}
    /\ Goto(w, "idle")
    /\ UNCHANGED <<stored, offset>>

\* stop cancels the task wherever it waits; the run keeps its lease.
stop(w) ==
    /\ step[w] # "stopped"
    /\ Goto(w, "stopped")
    /\ UNCHANGED <<status, stored, offset, faults>>

start(w) ==
    /\ step[w] = "stopped" /\ Fault
    /\ Goto(w, "idle")
    /\ UNCHANGED <<status, stored, offset>>

Work(w) == _claim(w) \/ _fetch_samples(w) \/ _post_results(w) \/ _complete(w)

Next ==
    \/ LeaseExpires
    \/ \E w \in Worker : Work(w) \/ _unsupported(w) \/ stop(w) \/ start(w)

\* The worker's task keeps being scheduled; a lease nobody renews expires.
Fairness ==
    /\ \A w \in Worker : WF_bvars(Work(w))
    /\ WF_bvars(LeaseExpires)

Spec == Init /\ [][Next]_bvars /\ Fairness

(***************************************************************************)
(* Properties.                                                             *)
(***************************************************************************)
\* A run that a worker completes without an error has the results of every
\* page that had samples, whatever was lost, repeated or taken over on the
\* way: metrics of a partial run would be published as the model's.
CompletedIsWhole ==
    status = "completed" => (0 .. Pages - 1) \ Filtered \subseteq stored

\* As long as one worker stays up, a queued run ends, completed or with a
\* reason, and does not stay leased to a runtime that is gone.
RunFinishes ==
    <>[](\E w \in Worker : step[w] \notin {"off", "stopped"}) => <>Finished
=============================================================================
