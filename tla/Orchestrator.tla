---------------------------- MODULE Orchestrator ----------------------------
(***************************************************************************)
(* One evaluation request on its way through the detector pipeline:        *)
(* engine/orchestrator.py with the escalation of a detector to model       *)
(* backends (engine/escalation.py), the judges' consensus                  *)
(* (engine/judge_escalation.py, engine/consensus.py), the egress gate      *)
(* (engine/egress.py), the scorecard gate and the aggregation of the       *)
(* results (core/decision.py, engine/evaluator.py).                        *)
(*                                                                         *)
(* A text is the set of its characters still in clear, by their offset in  *)
(* the request's text; redacting removes characters from the set.  The     *)
(* detectors run one after the other in one thread; backends, the audit    *)
(* sink and the judges' budget answer, refuse or fail as they like.        *)
(***************************************************************************)
EXTENDS Integers, Sequences, FiniteSets

CONSTANTS
    Length,     \* the number of characters of a request's text
    Detectors,  \* the number of detector entries of a policy, in pipeline order
    Members,    \* the judges of one consensus
    Host,       \* endpoints of backends
    Region,     \* their regions
    Policies,   \* the policies requests are evaluated under
    Stages,     \* the stages requests are evaluated in
    Reported,   \* the entity_spans a model may report
    None        \* Python's None

(***************************************************************************)
(* Data.                                                                   *)
(***************************************************************************)
Decision == {"ALLOW", "WARN", "TRANSFORM", "REDACT", "BLOCK"}

decision_rank(d) ==
    CASE d = "BLOCK"     -> 5
      [] d = "REDACT"    -> 4
      [] d = "TRANSFORM" -> 3
      [] d = "WARN"      -> 2
      [] d = "ALLOW"     -> 1

Char == 1 .. Length
Text == SUBSET Char

\* (start, end) with end exclusive, as in redaction_spans.
Span == {s \in Char \X (1 .. Length + 1) : s[1] < s[2]}
Chars(s) == {c \in Char : s[1] <= c /\ c < s[2]}

Stage == {"input", "output", "retrieval", "tool", "agent_plan", "agent_loop",
          "memory_write"}

\* crosses: reaching it leaves the trust boundary (is_boundary_crossing).
Backend == [crosses : BOOLEAN, host : Host, region : Region]

\* One mode of a strategy's order after the deterministic one.  own: its task
\* is named as the detector, so its rule hits carry the detector's key.
Layer == [judge : BOOLEAN, own : BOOLEAN, backend : Backend \cup {None}]

\* RemediationAction.  fix stands for filter_field too, reask for exception and
\* custom: they change the decision and the text alike.
OnFail == {"unset", "noop", "reask", "fix", "refrain", "ask_human"}

\* The policy entry of one detector.  An absent allowlist is Host, an absent
\* redact_before_egress is {}, a disabled detector has no stages.
Detector ==
    [kind       : {"builtin", "standalone", "custom"},
     transforms : BOOLEAN,            \* can_transform of the pipeline entry
     stages     : SUBSET Stage,
     finds      : SUBSET Span,        \* what its rules match in the text
     action     : Decision \ {"ALLOW"},
     spans      : BOOLEAN,            \* it publishes redaction_spans
     order      : Seq(Layer),
     banded     : BOOLEAN,            \* escalate_when is set
     fallback   : {"fail_open", "fail_closed", "fallback_to_deterministic"},
     additive   : BOOLEAN,
     url        : [crosses : {TRUE}, host : Host, region : Region] \cup {None},
     allowlist  : SUBSET Host,
     redacts    : Text,               \* what redact_for_egress masks
     stamp      : {"absent", "failed", "unsigned", "signed"},
     on_fail    : OnFail]

Policy ==
    [detectors         : [1 .. Detectors -> Detector],
     no_external_calls : BOOLEAN,
     allowed_regions   : SUBSET Region,
     on_fail           : OnFail]

\* judges: a judge context is injected; certify: certify_model; verify: a
\* scorecard verification key is configured.
Request ==
    [policy : Policies, stage : Stages, judges : BOOLEAN, certify : BOOLEAN,
     verify : BOOLEAN]

Result ==
    [decision        : Decision,
     sanitized_text  : Text \cup {None},
     redaction_spans : SUBSET Span,
     own_hits        : BOOLEAN,       \* rule hits under the detector's own key
     external_egress : BOOLEAN,
     fallback        : BOOLEAN]       \* fallback_path is not None

ASSUME ConstantAssumption ==
    /\ Length \in Nat /\ Detectors \in Nat /\ Members \in Nat \ {0}
    /\ Policies \subseteq Policy
    /\ Stages \subseteq Stage
    /\ Reported \subseteq SUBSET Span
    /\ \A t \in Text : t # None
    /\ None \notin Result /\ None \notin Backend

VARIABLES
    phase,     \* where the request is
    request,   \* the request, its policy and its context
    key,       \* the detector whose turn it is
    base,      \* the deterministic result of every detector so far
    results,   \* orch.results, by detector
    current,   \* orch.current_text
    level,     \* the layer of the strategy's order under way
    selected,  \* selected_result
    fell,      \* fallback_path is not None
    flagged,   \* some layer has external_egress
    member,    \* the judge of the consensus under way
    votes,     \* the votes of the judges so far, per decision
    audited,   \* the crossings the audit sink has recorded
    sent,      \* the texts that left the boundary
    response   \* what the caller is answered

pipeline   == <<request, key, base, results, current>>
escalation == <<level, selected, fell, flagged, member, votes>>
crossings  == <<audited, sent>>
vars       == <<phase, pipeline, escalation, crossings, response>>

Keys     == 1 .. Detectors
NoVotes  == [d \in Decision |-> 0]
Allowed  == [decision |-> "ALLOW", sanitized_text |-> None, redaction_spans |-> {},
             own_hits |-> FALSE, external_egress |-> FALSE, fallback |-> FALSE]
Crossing ==
    [key : Keys, level : Nat, member : 1 .. Members, text : Text, to : Backend]
Response ==
    [decision : Decision, sanitized_text : Text \cup {None}, remediation : OnFail]

TypeOK ==
    /\ phase \in {"idle", "next", "escalate", "layer", "called", "custom",
                 "answered"}
    /\ request \in Request \cup {None}
    /\ phase # "idle" => request \in Request
    /\ key \in 1 .. Detectors + 1
    /\ phase \in {"escalate", "layer", "called", "custom"} => key \in Keys
    /\ base \in [Keys -> Result \cup {None}]
    /\ results \in [Keys -> Result \cup {None}]
    /\ current \in Text
    /\ level \in Nat \ {0}
    /\ selected \in Result
    /\ fell \in BOOLEAN /\ flagged \in BOOLEAN
    /\ member \in 1 .. Members + 1
    /\ votes \in [Decision -> 0 .. Members]
    /\ audited \subseteq Crossing /\ sent \subseteq Crossing
    /\ response \in Response \cup {None}

Init ==
    /\ phase = "idle" /\ request = None
    /\ key = 1
    /\ base = [k \in Keys |-> None] /\ results = [k \in Keys |-> None]
    /\ current = Char
    /\ level = 1 /\ selected = Allowed
    /\ fell = FALSE /\ flagged = FALSE
    /\ member = 1 /\ votes = NoVotes
    /\ audited = {} /\ sent = {}
    /\ response = None

Det == request.policy.detectors[key]

(***************************************************************************)
(* A request arrives, is walked through the pipeline, and is answered.     *)
(***************************************************************************)
Receive(r) ==
    /\ phase = "idle"
    /\ phase' = "next" /\ request' = r
    /\ UNCHANGED <<key, base, results, current, escalation, crossings, response>>

Runs ==
    /\ request.stage \in Det.stages
    /\ Det.kind = "standalone" => Det.order # <<>>

\* The detector is disabled, not for this stage, or a bare standalone entry.
Skip ==
    /\ phase = "next" /\ key \in Keys /\ ~Runs
    /\ key' = key + 1
    /\ UNCHANGED <<phase, request, base, results, current, escalation,
                   crossings, response>>

\* What the rules of detector d make of text t.
detect(d, t) ==
    LET found == {s \in d.finds : Chars(s) \subseteq t}
        masks == d.action \in {"REDACT", "TRANSFORM"}
    IN  IF d.kind = "standalone" \/ found = {} THEN Allowed
        ELSE [Allowed EXCEPT
                !.decision = d.action,
                !.sanitized_text =
                    IF masks THEN t \ UNION {Chars(s) : s \in found} ELSE None,
                !.redaction_spans =
                    IF d.spans /\ d.action = "REDACT" THEN found ELSE {},
                !.own_hits = TRUE]

\* mutant: the detector is given the text of the request
DetectOriginal ==
    /\ phase = "next" /\ key \in Keys /\ Runs /\ Det.kind # "custom"
    /\ base' = [base EXCEPT ![key] = detect(Det, Char)]
    /\ selected' = base'[key]
    /\ level' = 1 /\ fell' = FALSE /\ flagged' = FALSE
    /\ phase' = "escalate"
    /\ UNCHANGED <<request, key, results, current, member, votes, crossings,
                   response>>

\* A built-in detector runs, or a standalone one passes through.
Detect ==
    /\ phase = "next" /\ key \in Keys /\ Runs /\ Det.kind # "custom"
    /\ base' = [base EXCEPT ![key] = detect(Det, current)]
    /\ selected' = base'[key]
    /\ level' = 1 /\ fell' = FALSE /\ flagged' = FALSE
    /\ phase' = "escalate"
    /\ UNCHANGED <<request, key, results, current, member, votes, crossings,
                   response>>

(***************************************************************************)
(* The egress gate.  A call that stays inside the boundary passes.  One    *)
(* that leaves it needs the policy's permission, its text is redacted and  *)
(* the crossing recorded first; a redactor or a sink that fails refuses.   *)
(***************************************************************************)
evaluate_egress(b) ==
    \/ ~b.crosses
    \/ /\ ~request.policy.no_external_calls
       /\ b.host \in Det.allowlist
       /\ b.region \in request.policy.allowed_regions

CallText(b) == IF b.crosses THEN current \ Det.redacts ELSE current

CrossingTo(b) ==
    [key |-> key, level |-> level, member |-> member, text |-> CallText(b), to |-> b]

\* mutant: the call goes out although the sink could not record it
GatePassesUnaudited(b) ==
    /\ evaluate_egress(b)
    /\ \/ audited' = audited \cup (IF b.crosses THEN {CrossingTo(b)} ELSE {})
       \/ audited' = audited

GatePasses(b) ==
    /\ evaluate_egress(b)
    /\ audited' = audited \cup (IF b.crosses THEN {CrossingTo(b)} ELSE {})

\* Denied, redaction_failed, egress_audit_unconfigured or _unavailable.
GateRefuses(b) == b.crosses

\* The call is made: its text leaves if the backend is outside.
Send(b) == sent' = sent \cup (IF b.crosses THEN {CrossingTo(b)} ELSE {})

(***************************************************************************)
(* Escalation through the layers of the strategy.                          *)
(***************************************************************************)
ThisLayer == Det.order[level]
Judging   == ThisLayer.judge /\ request.judges

\* mutant: a failed escalation always allows
FallbackOpen ==
    /\ selected' = Allowed
    /\ fell' = TRUE
    /\ phase' = "escalate"
    /\ UNCHANGED <<level, flagged, member, votes>>

Fallback ==
    /\ selected' =
          CASE Det.fallback = "fail_open"   -> Allowed
            [] Det.fallback = "fail_closed" -> [Allowed EXCEPT !.decision = "BLOCK"]
            [] OTHER                        -> base[key]
    /\ fell' = TRUE
    /\ phase' = "escalate"
    /\ UNCHANGED <<level, flagged, member, votes>>

\* should_escalate holds, or is not asked.
EnterLayer ==
    /\ phase = "escalate" /\ ~fell /\ level <= Len(Det.order)
    /\ \/ /\ ThisLayer.backend = None
          /\ Fallback
       \/ /\ ThisLayer.backend # None
          /\ phase' = "layer"
          /\ member' = 1 /\ votes' = NoVotes
          /\ UNCHANGED <<level, selected, fell, flagged>>
    /\ UNCHANGED <<pipeline, crossings, response>>

CallPrepared ==
    /\ phase = "layer" /\ member <= Members
    /\ GatePasses(ThisLayer.backend)
    /\ phase' = "called"
    /\ UNCHANGED <<pipeline, escalation, sent, response>>

\* The gate refuses: a judge stops the whole batch, any other call falls back.
CallRefused ==
    /\ phase = "layer" /\ member <= Members
    /\ GateRefuses(ThisLayer.backend)
    /\ \/ /\ Judging
          /\ member' = Members + 1
          /\ UNCHANGED <<phase, level, selected, fell, flagged, votes>>
       \/ ~Judging /\ Fallback
    /\ UNCHANGED <<pipeline, crossings, response>>

\* The deny-of-wallet budget vetoes the next judge.
BudgetRefuses ==
    /\ phase = "layer" /\ Judging /\ member <= Members
    /\ member' = Members + 1
    /\ UNCHANGED <<phase, pipeline, level, selected, fell, flagged, votes,
                   crossings, response>>

\* A layer's result becomes the selected one.
Select(result) ==
    /\ selected' = result
    /\ flagged' = (flagged \/ ThisLayer.backend.crosses)
    /\ level' = level + 1
    /\ phase' = "escalate"
    /\ UNCHANGED <<fell, member, votes>>

CallAnswered(d, spans) ==
    /\ phase = "called"
    /\ Send(ThisLayer.backend)
    /\ \/ /\ Judging /\ spans = {}
          /\ votes' = [votes EXCEPT ![d] = @ + 1]
          /\ member' = member + 1
          /\ phase' = "layer"
          /\ UNCHANGED <<level, selected, fell, flagged>>
       \/ /\ ~Judging
          /\ Select([Allowed EXCEPT !.decision = d, !.redaction_spans = spans,
                                    !.own_hits = d # "ALLOW" /\ ThisLayer.own])
    /\ UNCHANGED <<pipeline, audited, response>>

\* The backend cannot be reached, times out after it was sent the text, or
\* answers nonsense: a judge is left out of the vote, another call falls back.
CallFails ==
    /\ phase = "called"
    /\ Send(ThisLayer.backend) \/ UNCHANGED sent
    /\ \/ /\ Judging
          /\ member' = member + 1
          /\ phase' = "layer"
          /\ UNCHANGED <<level, selected, fell, flagged, votes>>
       \/ ~Judging /\ Fallback
    /\ UNCHANGED <<pipeline, audited, response>>

\* The wait of a remote detector's caller ends before the call does: its
\* TimeoutError is no BackendUnavailable, so there is no fallback, and the
\* evaluation ends without an answer of the pipeline.  (A judge that raises
\* anything is left out of the vote.)
CallRaises ==
    /\ phase = "called" /\ ~Judging
    /\ Send(ThisLayer.backend) \/ UNCHANGED sent
    /\ phase' = "answered"
    /\ UNCHANGED <<pipeline, escalation, audited, response>>

\* Most votes win, a tie goes to the most severe decision.
synthesize_consensus ==
    CHOOSE d \in Decision : \A e \in Decision :
        \/ votes[d] > votes[e]
        \/ votes[d] = votes[e] /\ decision_rank(d) >= decision_rank(e)

JudgesDone ==
    /\ phase = "layer" /\ member > Members
    /\ \/ votes = NoVotes /\ Fallback
       \/ /\ votes # NoVotes
          /\ Select([Allowed EXCEPT !.decision = synthesize_consensus,
                                    !.own_hits = synthesize_consensus # "ALLOW"])
    /\ UNCHANGED <<pipeline, crossings, response>>

(***************************************************************************)
(* The detector's result is settled: additive merge, scorecard gate, and   *)
(* the rewriting of the text the next detectors see.                       *)
(***************************************************************************)
\* Spans are taken in the order of their start, the longest first, and one
\* that begins inside a span already taken is dropped.
apply_redaction_spans(t, spans) ==
    LET masked[p \in 1 .. Length + 1] ==
            LET here == {s \in spans : s[1] = p}
                longest == CHOOSE s \in here : \A u \in here : u[2] <= s[2]
            IN  IF p > Length THEN {}
                ELSE IF here = {} THEN masked[p + 1]
                ELSE Chars(longest) \cup masked[longest[2]]
    IN  t \ masked[1]

\* mutant: the later layer's decision wins
additive_merge_last(det, ml) ==
    LET spans == det.redaction_spans \cup ml.redaction_spans
    IN  [ml EXCEPT
            !.sanitized_text =
                IF spans # {} THEN apply_redaction_spans(current, spans)
                ELSE IF det.sanitized_text # None THEN det.sanitized_text
                ELSE ml.sanitized_text,
            !.redaction_spans = spans,
            !.own_hits = det.own_hits \/ ml.own_hits]

additive_merge(det, ml) ==
    LET keep == IF decision_rank(det.decision) >= decision_rank(ml.decision)
                THEN det ELSE ml
        spans == det.redaction_spans \cup ml.redaction_spans
    IN  [keep EXCEPT
            !.sanitized_text =
                IF spans # {} THEN apply_redaction_spans(current, spans)
                ELSE IF det.sanitized_text # None THEN det.sanitized_text
                ELSE ml.sanitized_text,
            !.redaction_spans = spans,
            !.own_hits = det.own_hits \/ ml.own_hits]

run_with_strategy ==
    LET result == IF Det.additive /\ ~fell /\ level > 1
                  THEN additive_merge(base[key], selected) ELSE selected
    IN  [result EXCEPT !.external_egress = flagged, !.fallback = fell]

\* What the stamp of detector d says for request r: only a signed stamp counts
\* when a key is configured, and only a detector without a model needs none.
MayEnforce(r, d) ==
    \/ r.certify
    \/ d.stamp = "signed"
    \/ d.stamp = "unsigned" /\ ~r.verify
    \/ d.stamp = "absent" /\ d.order = <<>>

\* mutant: an absent stamp is not looked at
apply_scorecard_gate_stamped(result) ==
    IF result.decision \in {"BLOCK", "REDACT"} /\ Det.stamp # "absent"
       /\ ~MayEnforce(request, Det)
    THEN [result EXCEPT !.decision = "WARN"]
    ELSE result

apply_scorecard_gate(result) ==
    IF result.decision \in {"BLOCK", "REDACT"} /\ ~MayEnforce(request, Det)
    THEN [result EXCEPT !.decision = "WARN"]
    ELSE result

\* Detector d's result v replaces the text later detectors are given.
Rewrites(r, d, v) ==
    /\ d.kind = "builtin" /\ d.transforms
    /\ r.stage \in {"input", "output"}
    /\ v.decision \in {"REDACT", "TRANSFORM"}
    /\ v.sanitized_text # None

\* No layer is left, a fallback fired, or should_escalate says no.
Settle ==
    /\ phase = "escalate"
    /\ fell \/ level > Len(Det.order) \/ Det.banded
    /\ LET verdict == apply_scorecard_gate(run_with_strategy) IN
          /\ results' = [results EXCEPT ![key] = verdict]
          /\ current' = IF Rewrites(request, Det, verdict)
                        THEN verdict.sanitized_text ELSE current
    /\ key' = key + 1
    /\ phase' = "next"
    /\ member' = 1 /\ votes' = NoVotes
    /\ UNCHANGED <<request, base, level, selected, fell, flagged, crossings,
                   response>>

(***************************************************************************)
(* Custom detectors: a plugin inside the process, or an endpoint behind    *)
(* the egress gate.  What they raise is swallowed, an empty result is not  *)
(* recorded, a BLOCK ends the loop.                                        *)
(***************************************************************************)
CustomTurn ==
    phase = "next" /\ key \in Keys /\ Runs /\ Det.kind = "custom"

Record(v) ==
    /\ results' = [results EXCEPT ![key] = v]
    /\ key' = IF v.decision = "BLOCK" THEN Detectors + 1 ELSE key + 1

Unrecorded == key' = key + 1 /\ UNCHANGED results

CustomPlugin ==
    /\ CustomTurn /\ Det.url = None
    /\ LET v == detect(Det, current) IN
          IF v.decision = "ALLOW" THEN Unrecorded ELSE Record(v) \/ Unrecorded
    /\ UNCHANGED <<phase, request, base, current, escalation, crossings, response>>

CustomPrepared ==
    /\ CustomTurn /\ Det.url # None
    /\ GatePasses(Det.url)
    /\ phase' = "custom"
    /\ UNCHANGED <<pipeline, escalation, sent, response>>

CustomRefused ==
    /\ CustomTurn /\ Det.url # None
    /\ GateRefuses(Det.url)
    /\ Unrecorded
    /\ UNCHANGED <<phase, request, base, current, escalation, crossings, response>>

\* The endpoint answers with any decision and any text.
CustomAnswered(d, t) ==
    /\ phase = "custom"
    /\ Send(Det.url)
    /\ Record([Allowed EXCEPT !.decision = d, !.sanitized_text = t,
                              !.external_egress = TRUE])
    /\ phase' = "next"
    /\ UNCHANGED <<request, base, current, escalation, audited, response>>

\* The registry turns a failure into an empty result.
CustomFails ==
    /\ phase = "custom"
    /\ Send(Det.url) \/ UNCHANGED sent
    /\ Record([Allowed EXCEPT !.external_egress = TRUE])
    /\ phase' = "next"
    /\ UNCHANGED <<request, base, current, escalation, audited, response>>

(***************************************************************************)
(* The answer.                                                             *)
(***************************************************************************)
Unremedied(d, t) ==
    [decision |-> d, sanitized_text |-> t, remediation |-> "unset"]

Present == {k \in Keys : results[k] # None}

\* The first of the most severe results.
Worst ==
    CHOOSE k \in Present : \A j \in Present :
        LET rank(i) == decision_rank(results[i].decision)
        IN  rank(j) < rank(k) \/ (rank(j) = rank(k) /\ k <= j)

Rewriting ==
    {k \in Present : /\ results[k].sanitized_text # None
                     /\ results[k].decision \in {"REDACT", "TRANSFORM"}}

aggregate ==
    IF Present = {} THEN Unremedied("ALLOW", None)
    ELSE Unremedied(results[Worst].decision,
             IF Rewriting = {} THEN results[Worst].sanitized_text
             ELSE LET last == CHOOSE k \in Rewriting : \A j \in Rewriting : j <= k
                  IN  results[last].sanitized_text)

\* The on_fail of the first section whose detector fired, or the policy's own;
\* custom detectors are no sections.
resolve_action ==
    LET section(k) == request.policy.detectors[k]
        fired == {k \in Present : /\ section(k).kind # "custom"
                                  /\ results[k].own_hits
                                  /\ section(k).on_fail # "unset"}
    IN  IF fired = {} THEN request.policy.on_fail
        ELSE section(CHOOSE k \in fired : \A j \in fired : k <= j).on_fail

\* RemediationHandler.apply: no sanitized text is the empty text to a fix, and
\* a refrain message has nothing of the text in it.
remediate(r) ==
    LET action == IF r.decision = "ALLOW" THEN "unset" ELSE resolve_action
        fixed  == IF r.sanitized_text = None THEN {} ELSE r.sanitized_text
        done   == [r EXCEPT !.remediation = action]
    IN  CASE action = "fix"       -> [done EXCEPT !.decision = "TRANSFORM",
                                                  !.sanitized_text = fixed]
          [] action = "refrain"   -> [done EXCEPT !.decision = "BLOCK",
                                                  !.sanitized_text = {}]
          [] action = "ask_human" -> [done EXCEPT !.decision = "BLOCK"]
          [] OTHER                -> done

Answer ==
    /\ phase = "next" /\ key = Detectors + 1
    /\ response' = remediate(IF current # Char
                             THEN [aggregate EXCEPT !.sanitized_text = current]
                             ELSE aggregate)
    /\ phase' = "answered"
    /\ UNCHANGED <<pipeline, escalation, crossings>>

\* The caller has its answer, or an exception; the objects of the request are
\* gone.
Return ==
    /\ phase = "answered"
    /\ phase' = "idle" /\ request' = None /\ key' = 1
    /\ base' = [k \in Keys |-> None] /\ results' = [k \in Keys |-> None]
    /\ current' = Char
    /\ level' = 1 /\ selected' = Allowed /\ fell' = FALSE /\ flagged' = FALSE
    /\ member' = 1 /\ votes' = NoVotes
    /\ audited' = {} /\ sent' = {}
    /\ response' = None

Steps ==
    \/ Skip \/ Detect
    \/ EnterLayer \/ CallPrepared \/ CallRefused \/ BudgetRefuses
    \/ \E d \in Decision, spans \in Reported \cup {{}} : CallAnswered(d, spans)
    \/ CallFails \/ CallRaises \/ JudgesDone \/ Settle
    \/ CustomPlugin \/ CustomPrepared \/ CustomRefused
    \/ \E d \in Decision, t \in Text \cup {None} : CustomAnswered(d, t)
    \/ CustomFails
    \/ Answer \/ Return

Next == Steps \/ \E r \in Request : Receive(r)

(***************************************************************************)
(* Fairness: the pipeline is a thread that runs until it has an answer,    *)
(* and every call it makes has a timeout.  Nothing makes a request arrive. *)
(***************************************************************************)
Spec == Init /\ [][Next]_vars /\ WF_vars(Steps)

(***************************************************************************)
(* Safety.                                                                 *)
(***************************************************************************)

\* Whatever leaves the trust boundary was recorded by the audit sink before,
\* with the text that left: no failing sink, refused judge, late timeout or
\* custom endpoint makes an unrecorded crossing (prepare_and_audit_egress).
EveryCrossingAudited == sent \subseteq audited

\* Whatever leaves the boundary was allowed to: external calls are not switched
\* off, the host is on the detector's allowlist, the region is an allowed one,
\* and what redact_before_egress masks is not in it (evaluate_egress,
\* redact_for_egress), for layers, each judge of a consensus and custom
\* detectors alike.
EgressPolicyHolds ==
    \A c \in sent :
        LET d == request.policy.detectors[c.key] IN
            /\ ~request.policy.no_external_calls
            /\ c.to.host \in d.allowlist
            /\ c.to.region \in request.policy.allowed_regions
            /\ c.text \cap d.redacts = {}

\* Nobody is answered BLOCK or REDACT on the word of a model without a passing,
\* and where a key is configured signed, scorecard stamp: some result with that
\* decision comes from a detector that may enforce, or from a custom detector,
\* or the policy's on_fail turns findings into a BLOCK.
UncertifiedNeverEnforces ==
    /\ response # None
    /\ response.decision \in {"BLOCK", "REDACT"}
    /\ response.remediation \notin {"refrain", "ask_human"}
    =>
        \E k \in Present :
            LET d == request.policy.detectors[k] IN
                /\ results[k].decision = response.decision
                /\ d.kind = "custom" \/ MayEnforce(request, d)

\* For a detector that may enforce, escalation never ends below the
\* deterministic decision when the strategy is additive or when it falls back,
\* except to an explicit fail_open (run_with_strategy, _additive_merge).
DeterministicStands ==
    \A k \in Present :
        LET d == request.policy.detectors[k] IN
            /\ d.kind = "builtin" /\ MayEnforce(request, d)
            /\ d.additive \/ results[k].fallback
            /\ ~(d.fallback = "fail_open" /\ results[k].fallback)
            => decision_rank(results[k].decision) >= decision_rank(base[k].decision)

\* A fail_closed strategy whose layer was refused or unavailable blocks the
\* request, whatever the other detectors say, unless its stamp does not let the
\* detector enforce or an on_fail of fix applies (_fallback_result, aggregate,
\* RemediationHandler.apply).
FailClosedBlocks ==
    \A k \in Present :
        LET d == request.policy.detectors[k] IN
            /\ response # None /\ response.remediation # "fix"
            /\ results[k].fallback /\ d.fallback = "fail_closed"
            /\ MayEnforce(request, d)
            => response.decision = "BLOCK"

\* What a rewriting detector took out of the text stays out: no later detector
\* is given it and the answer does not hold it (current_text of _run, evaluate).
RedactionsCompose ==
    \A k \in Present :
        Rewrites(request, request.policy.detectors[k], results[k]) =>
            /\ current \subseteq results[k].sanitized_text
            /\ response # None =>
                  /\ response.sanitized_text # None
                  /\ response.sanitized_text \subseteq results[k].sanitized_text

=============================================================================
