------------------------- MODULE OrchestratorProofs -------------------------
(***************************************************************************)
(* Proofs about Orchestrator, for every number of detectors, every policy, *)
(* every number of judges and every text length.                           *)
(***************************************************************************)
EXTENDS Orchestrator, TLAPS, WellFoundedInduction

(***************************************************************************)
(* What leaves the boundary.                                               *)
(***************************************************************************)

\* A call about to be made outside the boundary is recorded as it will be made.
Prepared ==
    /\ phase = "called" /\ ThisLayer.backend.crosses
          => CrossingTo(ThisLayer.backend) \in audited
    /\ phase = "custom" /\ Det.url.crosses => CrossingTo(Det.url) \in audited

\* The policy of the request allows crossing c.
Permitted(c) ==
    LET d == request.policy.detectors[c.key] IN
        /\ ~request.policy.no_external_calls
        /\ c.to.host \in d.allowlist
        /\ c.to.region \in request.policy.allowed_regions
        /\ c.text \cap d.redacts = {}

\* Only permitted crossings are recorded, and none outlives its request.
AuditedPermitted ==
    /\ \A c \in audited : Permitted(c)
    /\ phase = "idle" => audited = {}

EgressInv == EveryCrossingAudited /\ Prepared /\ AuditedPermitted

\* The gate records a permitted crossing, and nothing else.
LEMMA GateSound ==
    ASSUME AuditedPermitted, phase # "idle", NEW b, GatePasses(b),
           phase' # "idle", UNCHANGED <<pipeline, escalation>>
    PROVE  /\ audited \subseteq audited'
           /\ b.crosses => CrossingTo(b) \in audited'
           /\ AuditedPermitted'
<1>1. audited' = audited \cup (IF b.crosses THEN {CrossingTo(b)} ELSE {})
  BY DEF GatePasses
<1>2. b.crosses => Permitted(CrossingTo(b))
  BY DEF GatePasses, evaluate_egress, Permitted, CrossingTo, CallText, Det
<1>3. \A c \in audited' : Permitted(c)
  BY <1>1, <1>2 DEF AuditedPermitted
<1>4. \A c \in audited' : Permitted(c)'
  BY <1>3 DEF Permitted, pipeline
<1>5. QED
  BY <1>1, <1>4 DEF AuditedPermitted

\* Steps that record and send nothing, within a request.
LEMMA QuietStep ==
    ASSUME EgressInv, UNCHANGED <<request, crossings>>,
           phase' \notin {"idle", "called", "custom"}
    PROVE  EgressInv'
  BY DEF EgressInv, EveryCrossingAudited, Prepared, AuditedPermitted, Permitted,
         crossings

\* Sending a recorded call.
LEMMA SendStep ==
    ASSUME EgressInv, NEW b, b.crosses => CrossingTo(b) \in audited,
           Send(b) \/ UNCHANGED sent, UNCHANGED <<request, audited>>,
           phase' \notin {"idle", "called", "custom"}
    PROVE  EgressInv'
<1>1. sent' \subseteq audited
  BY DEF EgressInv, EveryCrossingAudited, Send
<1>2. QED
  BY <1>1 DEF EgressInv, EveryCrossingAudited, Prepared, AuditedPermitted, Permitted

\* Nothing is recorded or sent at the start.
LEMMA InitEgress == Init => EgressInv
  BY DEF Init, EgressInv, EveryCrossingAudited, Prepared, AuditedPermitted

\* Every step keeps the record complete and permitted.
LEMMA NextEgress == EgressInv /\ [Next]_vars => EgressInv'
<1> SUFFICES ASSUME EgressInv, [Next]_vars PROVE EgressInv'
  OBVIOUS
<1>1. CASE UNCHANGED vars
  BY <1>1 DEF EgressInv, EveryCrossingAudited, Prepared, AuditedPermitted, Permitted,
     vars, pipeline, escalation, crossings, ThisLayer, Det, CrossingTo, CallText
<1>2. ASSUME NEW r \in Request, Receive(r) PROVE EgressInv'
  BY <1>2 DEF Receive, crossings, EgressInv, EveryCrossingAudited, Prepared,
     AuditedPermitted
<1>3. CASE Skip
  BY <1>3, QuietStep DEF Skip
<1>4. CASE Detect
  BY <1>4, QuietStep DEF Detect
<1>5. CASE EnterLayer
  BY <1>5, QuietStep DEF EnterLayer, Fallback, pipeline
<1>6. CASE CallPrepared
  <2>1. /\ phase # "idle" /\ phase' = "called" /\ GatePasses(ThisLayer.backend)
        /\ UNCHANGED <<pipeline, escalation, sent>>
    BY <1>6 DEF CallPrepared
  <2>2. /\ audited \subseteq audited'
        /\ ThisLayer.backend.crosses => CrossingTo(ThisLayer.backend) \in audited'
        /\ AuditedPermitted'
    BY <2>1, GateSound DEF EgressInv
  <2>3. /\ ThisLayer' = ThisLayer
        /\ CrossingTo(ThisLayer.backend)' = CrossingTo(ThisLayer.backend)
    BY <2>1 DEF ThisLayer, Det, CrossingTo, CallText, pipeline, escalation
  <2>4. QED
    BY <2>1, <2>2, <2>3 DEF EgressInv, EveryCrossingAudited, Prepared
<1>7. CASE CallRefused
  BY <1>7, QuietStep DEF CallRefused, Fallback, pipeline
<1>8. CASE BudgetRefuses
  BY <1>8, QuietStep DEF BudgetRefuses, pipeline
<1>9. ASSUME NEW d \in Decision, NEW s \in Reported \cup {{}}, CallAnswered(d, s)
      PROVE  EgressInv'
  BY <1>9, SendStep DEF CallAnswered, Select, pipeline, EgressInv, Prepared
<1>10. CASE CallFails
  BY <1>10, SendStep DEF CallFails, Fallback, pipeline, EgressInv, Prepared
<1>11. CASE JudgesDone
  BY <1>11, QuietStep DEF JudgesDone, Select, Fallback, pipeline
<1>12. CASE Settle
  BY <1>12, QuietStep DEF Settle
<1>13. CASE CustomPlugin
  BY <1>13, QuietStep DEF CustomPlugin, CustomTurn
<1>14. CASE CustomPrepared
  <2>1. /\ phase # "idle" /\ phase' = "custom" /\ GatePasses(Det.url)
        /\ UNCHANGED <<pipeline, escalation, sent>>
    BY <1>14 DEF CustomPrepared, CustomTurn
  <2>2. /\ audited \subseteq audited'
        /\ Det.url.crosses => CrossingTo(Det.url) \in audited'
        /\ AuditedPermitted'
    BY <2>1, GateSound DEF EgressInv
  <2>3. Det' = Det /\ CrossingTo(Det.url)' = CrossingTo(Det.url)
    BY <2>1 DEF Det, CrossingTo, CallText, pipeline, escalation
  <2>4. QED
    BY <2>1, <2>2, <2>3 DEF EgressInv, EveryCrossingAudited, Prepared
<1>15. CASE CustomRefused
  BY <1>15, QuietStep DEF CustomRefused, CustomTurn
<1>16. ASSUME NEW d \in Decision, NEW t \in Text \cup {None}, CustomAnswered(d, t)
       PROVE  EgressInv'
  BY <1>16, SendStep DEF CustomAnswered, EgressInv, Prepared
<1>17. CASE CustomFails
  BY <1>17, SendStep DEF CustomFails, EgressInv, Prepared
<1>18. CASE Answer
  BY <1>18, QuietStep DEF Answer, pipeline
<1>19. CASE Return
  BY <1>19 DEF Return, EgressInv, EveryCrossingAudited, Prepared, AuditedPermitted
<1>20. CASE CallRaises
  BY <1>20, SendStep DEF CallRaises, pipeline, EgressInv, Prepared
<1>21. QED
  BY <1>1, <1>2, <1>3, <1>4, <1>5, <1>6, <1>7, <1>8, <1>9, <1>10, <1>11, <1>12,
     <1>13, <1>14, <1>15, <1>16, <1>17, <1>18, <1>19, <1>20 DEF Next, Steps

\* Nothing leaves the boundary that the audit sink has not recorded before
\* (prepare_and_audit_egress), whatever fails and in whatever order.
THEOREM Audited == Spec => []EveryCrossingAudited
<1>1. EgressInv => EveryCrossingAudited
  BY DEF EgressInv
<1>2. QED
  BY <1>1, InitEgress, NextEgress, PTL DEF Spec

\* Nothing leaves the boundary against the policy: not with external calls
\* switched off, to a host or region that is not listed, or with what
\* redact_before_egress masks (evaluate_egress, redact_for_egress).
THEOREM EgressPermitted == Spec => []EgressPolicyHolds
<1>1. EgressInv => EgressPolicyHolds
  BY DEF EgressInv, EveryCrossingAudited, AuditedPermitted, Permitted,
     EgressPolicyHolds
<1>2. QED
  BY <1>1, InitEgress, NextEgress, PTL DEF Spec

\* A set of naturals has a least element.
LEMMA Least ==
    ASSUME NEW T, T \subseteq Nat, T # {}
    PROVE  \E x \in T : \A y \in T : x <= y
<1> DEFINE R == OpToRel(<, Nat)
<1>1. IsWellFoundedOn(R, Nat)
  BY NatLessThanWellFounded
<1>2. PICK x \in T : \A y \in T : ~(<<y, x>> \in R)
  <2> HIDE DEF R
  <2>1. QED
    BY <1>1, WFMin
<1>3. \A y \in T : ~(y < x)
  BY <1>2 DEF OpToRel
<1>4. QED
  BY <1>3

\* A set of naturals up to m has a greatest element.
LEMMA Greatest ==
    ASSUME NEW m \in Nat, NEW T, T \subseteq 1 .. m, T # {}
    PROVE  \E x \in T : \A y \in T : y <= x
<1> DEFINE U == {m - k : k \in T}
<1>0. \A k \in T : m - k \in Nat
  OBVIOUS
<1>1. U \subseteq Nat /\ U # {}
  BY <1>0, Zenon
<1>2. PICK u \in U : \A v \in U : u <= v
  BY <1>1, Least
<1>3. PICK x \in T : u = m - x
  OBVIOUS
<1>4. \A y \in T : m - y \in U
  OBVIOUS
<1>5. QED
  BY <1>2, <1>3, <1>4

(***************************************************************************)
(* Types.                                                                  *)
(***************************************************************************)

\* A layer under way exists and has a backend, a judge called is a member, no
\* decision has more votes than judges were asked, a custom call has an endpoint.
Layered ==
    /\ phase \in {"layer", "called"} =>
          level <= Len(Det.order) /\ ThisLayer.backend # None
    /\ phase \in {"idle", "next", "called", "custom"} => member <= Members
    /\ \A d \in Decision : votes[d] < member
    /\ phase = "custom" => Det.url # None /\ Det.kind = "custom"
    /\ phase \in {"escalate", "layer", "called"} => base[key] # None

TypeInv == TypeOK /\ Layered

\* The empty result of a detector is a result.
LEMMA AllowedType == Allowed \in Result
  BY DEF Allowed, Result, Decision

\* The results that calls, consensus, custom endpoints and fallbacks make.
LEMMA ResultTypes ==
    /\ \A d \in Decision, s \in SUBSET Span, h \in BOOLEAN :
          [Allowed EXCEPT !.decision = d, !.redaction_spans = s,
                          !.own_hits = h] \in Result
    /\ \A d \in Decision, h \in BOOLEAN :
          [Allowed EXCEPT !.decision = d, !.own_hits = h] \in Result
    /\ \A d \in Decision, t \in Text \cup {None} :
          [Allowed EXCEPT !.decision = d, !.sanitized_text = t,
                          !.external_egress = TRUE] \in Result
    /\ [Allowed EXCEPT !.external_egress = TRUE] \in Result
    /\ [Allowed EXCEPT !.decision = "BLOCK"] \in Result
  BY DEF Allowed, Result, Decision

\* The sections of a request's policy are detector entries.
LEMMA DetectorType ==
    ASSUME NEW r \in Request, NEW k \in Keys
    PROVE  r.policy.detectors[k] \in Detector
  BY ConstantAssumption DEF Request, Policy, Keys

\* The parts of a detector entry that results and calls are made of.
LEMMA DetectorFields ==
    ASSUME NEW d \in Detector
    PROVE  /\ d.action \in Decision /\ d.finds \subseteq Span
           /\ d.order \in Seq(Layer)
           /\ d.url \in Backend \cup {None}
  BY DEF Detector, Backend

\* What the rules of a detector return is a result.
LEMMA DetectType ==
    ASSUME NEW d \in Detector, NEW t \in Text
    PROVE  detect(d, t) \in Result
  BY DetectorFields DEF detect, Result, Allowed, Text, Decision

\* Votes and ties: the consensus is a decision.
LEMMA ConsensusType ==
    ASSUME votes \in [Decision -> 0 .. Members]
    PROVE  synthesize_consensus \in Decision
<1> DEFINE better(d, e) ==
       \/ votes[d] > votes[e]
       \/ votes[d] = votes[e] /\ decision_rank(d) >= decision_rank(e)
<1>1. \E d \in Decision : \A e \in Decision : better(d, e)
  BY ConstantAssumption DEF Decision, decision_rank
<1>2. QED
  BY <1>1 DEF synthesize_consensus

\* Masking leaves a text, whatever the spans.
LEMMA SpansType ==
    ASSUME NEW t \in Text, NEW spans
    PROVE  apply_redaction_spans(t, spans) \in Text
  BY DEF apply_redaction_spans, Text

\* _additive_merge returns a result.
LEMMA MergeType ==
    ASSUME NEW a \in Result, NEW b \in Result, current \in Text
    PROVE  additive_merge(a, b) \in Result
<1>1. a.redaction_spans \cup b.redaction_spans \in SUBSET Span
  BY DEF Result
<1>2. apply_redaction_spans(current, a.redaction_spans \cup b.redaction_spans) \in Text
  BY SpansType
<1> HIDE DEF apply_redaction_spans
<1>3. QED
  BY <1>1, <1>2 DEF additive_merge, Result

\* The scorecard gate returns a result.
LEMMA GateType ==
    ASSUME NEW v \in Result
    PROVE  apply_scorecard_gate(v) \in Result
  BY DEF apply_scorecard_gate, Result, Decision

\* run_with_strategy returns a result.
LEMMA StrategyType ==
    ASSUME selected \in Result, base[key] \in Result, current \in Text,
           fell \in BOOLEAN, flagged \in BOOLEAN
    PROVE  run_with_strategy \in Result
<1> DEFINE merged == IF Det.additive /\ ~fell /\ level > 1
                     THEN additive_merge(base[key], selected) ELSE selected
<1>1. merged \in Result
  BY MergeType
<1>2. run_with_strategy = [merged EXCEPT !.external_egress = flagged, !.fallback = fell]
  BY DEF run_with_strategy
<1> HIDE DEF merged
<1>3. QED
  BY <1>1, <1>2 DEF Result

\* A fallback selects a result.
LEMMA FallbackType ==
    ASSUME Fallback, base[key] \in Result
    PROVE  selected' \in Result /\ fell' \in BOOLEAN
<1>1. \/ selected' = Allowed
      \/ selected' = [Allowed EXCEPT !.decision = "BLOCK"]
      \/ selected' = base[key]
  BY DEF Fallback
<1>2. QED
  BY <1>1, AllowedType, ResultTypes DEF Fallback

\* The layer under way.
LEMMA LayerType ==
    ASSUME TypeInv, phase \in {"layer", "called"}
    PROVE  ThisLayer \in Layer /\ ThisLayer.backend \in Backend
<1>1. request \in Request /\ key \in Keys
  BY DEF TypeInv, TypeOK
<1>2. Det.order \in Seq(Layer)
  BY <1>1, DetectorType, DetectorFields DEF Det
<1>3. level \in 1 .. Len(Det.order)
  BY <1>2 DEF TypeInv, TypeOK, Layered
<1>4. ThisLayer \in Layer
  BY <1>2, <1>3 DEF ThisLayer
<1>5. QED
  BY <1>4 DEF Layer, TypeInv, Layered

\* A recorded call is a crossing.
LEMMA CrossingType ==
    ASSUME NEW b \in Backend, key \in Keys, level \in Nat, member \in 1 .. Members,
           current \in Text
    PROVE  CrossingTo(b) \in Crossing
  BY DEF CrossingTo, Crossing, CallText, Text

\* The initial states are typed.
LEMMA InitType == Init => TypeInv
<1> SUFFICES ASSUME Init PROVE TypeInv
  OBVIOUS
<1>a. votes \in [Decision -> 0 .. Members]
  BY ConstantAssumption DEF Init, NoVotes
<1>b. base \in [Keys -> Result \cup {None}] /\ results \in [Keys -> Result \cup {None}]
  BY DEF Init
<1>c. key \in 1 .. Detectors + 1 /\ member \in 1 .. Members + 1
  BY ConstantAssumption DEF Init
<1>d. fell \in BOOLEAN /\ flagged \in BOOLEAN
  BY DEF Init
<1>1. TypeOK
  BY <1>a, <1>b, <1>c, <1>d, AllowedType DEF Init, TypeOK, Text
<1>2. Layered
  BY ConstantAssumption DEF Init, Layered, NoVotes
<1>3. QED
  BY <1>1, <1>2 DEF TypeInv

\* Skipping a detector passes the turn on.
LEMMA SkipType == ASSUME TypeInv, Skip PROVE TypeInv'
<1>1. TypeOK'
  BY ConstantAssumption DEF TypeInv, Skip, TypeOK, Keys, escalation, crossings
<1>2. Layered'
  BY DEF TypeInv, Skip, Layered, escalation
<1>3. QED
  BY <1>1, <1>2 DEF TypeInv

\* Running a detector gives it a deterministic result.
LEMMA DetectStepType == ASSUME TypeInv, Detect PROVE TypeInv'
<1>1. request \in Request /\ key \in Keys /\ current \in Text
  BY DEF Detect, TypeInv, TypeOK
<1>2. detect(Det, current) \in Result
  BY <1>1, DetectorType, DetectType DEF Det
<1>3. base' \in [Keys -> Result \cup {None}] /\ base'[key] \in Result
  BY <1>1, <1>2 DEF Detect, TypeInv, TypeOK
<1>a. fell' \in BOOLEAN /\ flagged' \in BOOLEAN
  BY DEF Detect
<1>4. TypeOK'
  BY <1>1, <1>3, <1>a DEF Detect, TypeInv, TypeOK, crossings
<1>5. Layered'
  BY <1>3, ConstantAssumption DEF Detect, TypeInv, Layered
<1>6. QED
  BY <1>4, <1>5 DEF TypeInv

\* A fallback ends the layer under way.
LEMMA FallbackStepType ==
    ASSUME TypeInv, phase \in {"escalate", "layer", "called"}, Fallback,
           UNCHANGED <<pipeline, audited, response>>, sent' \subseteq Crossing
    PROVE  TypeInv'
<1>1. key \in Keys /\ base[key] \in Result /\ request \in Request
  BY DEF TypeInv, TypeOK, Layered
<1>2. selected' \in Result /\ fell' \in BOOLEAN
  BY <1>1, FallbackType
<1>3. /\ phase' = "escalate"
      /\ UNCHANGED <<level, flagged, member, votes, request, key, base, results,
                     current>>
  BY DEF Fallback, pipeline
<1>4. TypeOK'
  BY <1>1, <1>2, <1>3 DEF TypeInv, TypeOK
<1>5. Layered'
  BY <1>1, <1>3 DEF TypeInv, Layered
<1>6. QED
  BY <1>4, <1>5 DEF TypeInv

\* A layer is entered with no votes, or falls back for want of a backend.
LEMMA EnterLayerType == ASSUME TypeInv, EnterLayer PROVE TypeInv'
<1>1. CASE Fallback
  BY <1>1, FallbackStepType DEF EnterLayer, crossings, TypeInv, TypeOK
<1>2. CASE ~Fallback
  <2>1. /\ phase = "escalate" /\ level <= Len(Det.order) /\ ThisLayer.backend # None
        /\ phase' = "layer" /\ member' = 1 /\ votes' = NoVotes
        /\ UNCHANGED <<level, selected, fell, flagged, request, key, base, results,
                       current, audited, sent, response>>
    BY <1>2 DEF EnterLayer, pipeline, crossings
  <2>2. votes' \in [Decision -> 0 .. Members]
    BY <2>1, ConstantAssumption DEF NoVotes
  <2>3. TypeOK'
    BY <2>1, <2>2, ConstantAssumption DEF TypeInv, TypeOK
  <2>4. Det' = Det /\ ThisLayer' = ThisLayer
    BY <2>1 DEF Det, ThisLayer
  <2>5. Layered'
    BY <2>1, <2>4 DEF TypeInv, Layered, NoVotes
  <2>6. QED
    BY <2>3, <2>5 DEF TypeInv
<1>3. QED
  BY <1>1, <1>2

\* A prepared call is recorded as a crossing.
LEMMA CallPreparedType == ASSUME TypeInv, CallPrepared PROVE TypeInv'
<1>1. ThisLayer.backend \in Backend
  BY LayerType DEF CallPrepared
<1>2. CrossingTo(ThisLayer.backend) \in Crossing
  BY <1>1, CrossingType DEF CallPrepared, TypeInv, TypeOK
<1>3. audited' \subseteq Crossing
  BY <1>2 DEF CallPrepared, GatePasses, TypeInv, TypeOK
<1>4. Det' = Det /\ ThisLayer' = ThisLayer
  BY DEF CallPrepared, Det, ThisLayer, pipeline, escalation
<1>5. TypeOK'
  BY <1>3 DEF CallPrepared, TypeInv, TypeOK, pipeline, escalation
<1>6. Layered'
  BY <1>4 DEF CallPrepared, TypeInv, Layered, pipeline, escalation
<1>7. QED
  BY <1>5, <1>6 DEF TypeInv

\* A judge is left out: the layer goes on with the next, or with none.
LEMMA NextJudgeType ==
    ASSUME TypeInv, phase \in {"layer", "called"}, phase' = "layer",
           member' \in 1 .. Members + 1, member <= member',
           UNCHANGED <<pipeline, level, selected, fell, flagged, votes, audited,
                       response>>,
           sent' \subseteq Crossing
    PROVE  TypeInv'
<1>1. Det' = Det /\ ThisLayer' = ThisLayer
  BY DEF Det, ThisLayer, pipeline
<1>2. TypeOK'
  BY DEF TypeInv, TypeOK, pipeline
<1>3. Layered'
  BY <1>1 DEF TypeInv, TypeOK, Layered, pipeline
<1>4. QED
  BY <1>2, <1>3 DEF TypeInv

\* A refused call ends the batch of judges or falls back.
LEMMA CallRefusedType == ASSUME TypeInv, CallRefused PROVE TypeInv'
<1>1. sent' \subseteq Crossing /\ UNCHANGED <<audited, response, pipeline>>
  BY DEF CallRefused, crossings, TypeInv, TypeOK
<1>2. CASE Fallback
  BY <1>1, <1>2, FallbackStepType DEF CallRefused
<1>3. CASE ~Fallback
  BY <1>1, <1>3, NextJudgeType, ConstantAssumption
     DEF CallRefused, TypeInv, TypeOK
<1>4. QED
  BY <1>2, <1>3

\* A budget veto ends the batch of judges.
LEMMA BudgetRefusesType == ASSUME TypeInv, BudgetRefuses PROVE TypeInv'
  BY NextJudgeType, ConstantAssumption DEF BudgetRefuses, crossings, TypeInv, TypeOK

\* What a call sends is a crossing.
LEMMA SendType ==
    ASSUME TypeInv, phase = "called", Send(ThisLayer.backend) \/ UNCHANGED sent
    PROVE  sent' \subseteq Crossing
<1>1. CrossingTo(ThisLayer.backend) \in Crossing
  BY LayerType, CrossingType DEF TypeInv, TypeOK, Layered
<1>2. QED
  BY <1>1 DEF Send, TypeInv, TypeOK

\* A layer's result is selected.
LEMMA SelectType ==
    ASSUME TypeInv, phase \in {"layer", "called"}, NEW r \in Result, Select(r),
           UNCHANGED <<pipeline, audited, response>>, sent' \subseteq Crossing
    PROVE  TypeInv'
<1>1. ThisLayer.backend.crosses \in BOOLEAN
  BY LayerType DEF Backend
<1>2. flagged' \in BOOLEAN
  BY <1>1 DEF Select, TypeInv, TypeOK
<1>3. TypeOK'
  BY <1>2 DEF Select, TypeInv, TypeOK, pipeline
<1>4. Layered'
  BY DEF Select, TypeInv, Layered, pipeline
<1>5. QED
  BY <1>3, <1>4 DEF TypeInv

\* An answer is a vote, never one too many, or the result of the layer.
LEMMA CallAnsweredType ==
    ASSUME TypeInv, NEW d \in Decision, NEW s \in Reported \cup {{}},
           CallAnswered(d, s)
    PROVE  TypeInv'
<1>1. sent' \subseteq Crossing
  BY SendType DEF CallAnswered
<1>2. CASE Judging
  <2>1. /\ phase = "called" /\ phase' = "layer" /\ member' = member + 1
        /\ votes' = [votes EXCEPT ![d] = @ + 1]
        /\ UNCHANGED <<request, key, base, results, current, level, selected, fell,
                       flagged, audited, response>>
    BY <1>2 DEF CallAnswered, pipeline
  <2>2. /\ member \in 1 .. Members /\ member' \in 1 .. Members + 1
        /\ votes \in [Decision -> 0 .. Members]
        /\ \A e \in Decision : votes[e] < member
    BY <2>1, ConstantAssumption DEF TypeInv, TypeOK, Layered
  <2>3. /\ votes' \in [Decision -> 0 .. Members]
        /\ \A e \in Decision : votes'[e] < member'
    BY <2>1, <2>2, ConstantAssumption
  <2>4. TypeOK'
    BY <1>1, <2>1, <2>2, <2>3 DEF TypeInv, TypeOK
  <2>5. Det' = Det /\ ThisLayer' = ThisLayer
    BY <2>1 DEF Det, ThisLayer
  <2>6. Layered'
    BY <2>1, <2>3, <2>5 DEF TypeInv, Layered
  <2>7. QED
    BY <2>4, <2>6 DEF TypeInv
<1>3. CASE ~Judging
  <2>1. ThisLayer.own \in BOOLEAN
    BY LayerType DEF CallAnswered, Layer
  <2>2. (d # "ALLOW" /\ ThisLayer.own) \in BOOLEAN /\ s \in SUBSET Span
    BY <2>1, ConstantAssumption
  <2> DEFINE r == [Allowed EXCEPT !.decision = d, !.redaction_spans = s,
                                  !.own_hits = d # "ALLOW" /\ ThisLayer.own]
  <2>3. r \in Result
    BY <2>2, ResultTypes
  <2>4. Select(r) /\ UNCHANGED <<pipeline, audited, response>> /\ phase = "called"
    BY <1>3 DEF CallAnswered
  <2> HIDE DEF r
  <2>5. QED
    BY <1>1, <2>3, <2>4, SelectType
<1>4. QED
  BY <1>2, <1>3

\* A failed call leaves its judge out or falls back.
LEMMA CallFailsType == ASSUME TypeInv, CallFails PROVE TypeInv'
<1>1. sent' \subseteq Crossing /\ UNCHANGED <<audited, response, pipeline>>
  BY SendType DEF CallFails
<1>2. CASE Fallback
  BY <1>1, <1>2, FallbackStepType DEF CallFails
<1>3. CASE ~Fallback
  BY <1>1, <1>3, NextJudgeType, ConstantAssumption
     DEF CallFails, TypeInv, TypeOK, Layered
<1>4. QED
  BY <1>2, <1>3

\* A call that raises ends the evaluation.
LEMMA CallRaisesType == ASSUME TypeInv, CallRaises PROVE TypeInv'
<1>1. /\ sent' \subseteq Crossing /\ phase' = "answered" /\ phase = "called"
      /\ UNCHANGED <<audited, response, pipeline, escalation>>
  BY SendType DEF CallRaises
<1>2. TypeOK'
  BY <1>1 DEF TypeInv, TypeOK, pipeline, escalation
<1>3. Layered'
  BY <1>1 DEF TypeInv, Layered, pipeline, escalation
<1>4. QED
  BY <1>2, <1>3 DEF TypeInv

\* The consensus of the judges is a result.
LEMMA JudgesDoneType == ASSUME TypeInv, JudgesDone PROVE TypeInv'
<1>1. /\ phase = "layer" /\ sent' \subseteq Crossing
      /\ UNCHANGED <<audited, response, pipeline>>
  BY DEF JudgesDone, crossings, TypeInv, TypeOK
<1>2. CASE Fallback
  BY <1>1, <1>2, FallbackStepType
<1>3. CASE ~Fallback
  <2> DEFINE r == [Allowed EXCEPT !.decision = synthesize_consensus,
                                  !.own_hits = synthesize_consensus # "ALLOW"]
  <2>1. synthesize_consensus \in Decision
    BY ConsensusType DEF TypeInv, TypeOK
  <2>2. r \in Result
    BY <2>1, ResultTypes
  <2>3. Select(r)
    BY <1>3 DEF JudgesDone
  <2> HIDE DEF r
  <2>4. QED
    BY <1>1, <2>2, <2>3, SelectType
<1>4. QED
  BY <1>2, <1>3

\* A settled verdict is a result and leaves a text.
LEMMA SettleType == ASSUME TypeInv, Settle PROVE TypeInv'
<1> DEFINE verdict == apply_scorecard_gate(run_with_strategy)
<1>1. /\ phase = "escalate" /\ key \in Keys /\ base[key] \in Result
      /\ request \in Request
  BY DEF Settle, TypeInv, TypeOK, Layered
<1>2. verdict \in Result
  BY <1>1, StrategyType, GateType DEF TypeInv, TypeOK
<1>3. /\ results' = [results EXCEPT ![key] = verdict]
      /\ current' = IF Rewrites(request, Det, verdict)
                    THEN verdict.sanitized_text ELSE current
      /\ key' = key + 1 /\ phase' = "next" /\ member' = 1 /\ votes' = NoVotes
      /\ UNCHANGED <<request, base, level, selected, fell, flagged, audited, sent,
                     response>>
  BY DEF Settle, crossings
<1> HIDE DEF verdict
<1>4. current' \in Text
  BY <1>2, <1>3 DEF Rewrites, Result, TypeInv, TypeOK
<1>5. results' \in [Keys -> Result \cup {None}]
  BY <1>2, <1>3 DEF TypeInv, TypeOK
<1>6. votes' \in [Decision -> 0 .. Members] /\ \A d \in Decision : votes'[d] < member'
  BY <1>3, ConstantAssumption DEF NoVotes
<1>7. key' \in 1 .. Detectors + 1 /\ member' \in 1 .. Members + 1
  BY <1>1, <1>3, ConstantAssumption DEF Keys
<1>8. TypeOK'
  BY <1>1, <1>3, <1>4, <1>5, <1>6, <1>7 DEF TypeInv, TypeOK
<1>9. Layered'
  BY <1>3, <1>6, ConstantAssumption DEF Layered
<1>10. QED
  BY <1>8, <1>9 DEF TypeInv

\* A custom detector's turn ends with or without a result.
LEMMA CustomStepType ==
    ASSUME TypeInv, phase \in {"next", "custom"}, key \in Keys, phase' = "next",
           (\E v \in Result : Record(v)) \/ Unrecorded,
           UNCHANGED <<request, base, current, escalation, audited, response>>,
           sent' \subseteq Crossing
    PROVE  TypeInv'
<1>1. results' \in [Keys -> Result \cup {None}]
  BY DEF Record, Unrecorded, TypeInv, TypeOK
<1>2. key' \in 1 .. Detectors + 1
  BY ConstantAssumption DEF Record, Unrecorded, Keys
<1>3. TypeOK'
  BY <1>1, <1>2 DEF TypeInv, TypeOK, escalation
<1>4. Layered'
  BY DEF TypeInv, Layered, escalation
<1>5. QED
  BY <1>3, <1>4 DEF TypeInv

\* A plugin inside the process.
LEMMA CustomPluginType == ASSUME TypeInv, CustomPlugin PROVE TypeInv'
<1>1. /\ phase = "next" /\ phase' = "next" /\ key \in Keys /\ sent' \subseteq Crossing
      /\ UNCHANGED <<request, base, current, escalation, audited, response>>
      /\ request \in Request /\ current \in Text
  BY DEF CustomPlugin, CustomTurn, crossings, TypeInv, TypeOK
<1>2. detect(Det, current) \in Result
  BY <1>1, DetectorType, DetectType DEF Det
<1>3. (\E v \in Result : Record(v)) \/ Unrecorded
  BY <1>2 DEF CustomPlugin
<1>4. QED
  BY <1>1, <1>3, CustomStepType

\* A prepared custom call is recorded as a crossing.
LEMMA CustomPreparedType == ASSUME TypeInv, CustomPrepared PROVE TypeInv'
<1>1. /\ phase = "next" /\ phase' = "custom" /\ key \in Keys /\ request \in Request
      /\ Det.url # None /\ Det.kind = "custom" /\ GatePasses(Det.url)
      /\ UNCHANGED <<pipeline, escalation, sent, response>>
  BY DEF CustomPrepared, CustomTurn, TypeInv, TypeOK
<1>2. Det.url \in Backend
  BY <1>1, DetectorType, DetectorFields DEF Det
<1>3. CrossingTo(Det.url) \in Crossing
  BY <1>1, <1>2, CrossingType DEF TypeInv, TypeOK, Layered
<1>4. audited' \subseteq Crossing
  BY <1>1, <1>3 DEF GatePasses, TypeInv, TypeOK
<1>5. TypeOK'
  BY <1>1, <1>4 DEF TypeInv, TypeOK, pipeline, escalation
<1>6. Det' = Det
  BY <1>1 DEF Det, pipeline
<1>7. Layered'
  BY <1>1, <1>6 DEF TypeInv, Layered, pipeline, escalation
<1>8. QED
  BY <1>5, <1>7 DEF TypeInv

\* A refused custom call is skipped.
LEMMA CustomRefusedType == ASSUME TypeInv, CustomRefused PROVE TypeInv'
  BY CustomStepType DEF CustomRefused, CustomTurn, crossings, TypeInv, TypeOK

\* A custom endpoint was asked.
LEMMA CustomSendType ==
    ASSUME TypeInv, phase = "custom", Send(Det.url) \/ UNCHANGED sent
    PROVE  key \in Keys /\ sent' \subseteq Crossing
<1>1. request \in Request /\ key \in Keys
  BY DEF TypeInv, TypeOK
<1>2. Det.url \in Backend
  BY <1>1, DetectorType, DetectorFields DEF Det, TypeInv, Layered
<1>3. CrossingTo(Det.url) \in Crossing
  BY <1>1, <1>2, CrossingType DEF TypeInv, TypeOK, Layered
<1>4. QED
  BY <1>1, <1>3 DEF Send, TypeInv, TypeOK

\* The answer of a custom endpoint is recorded.
LEMMA CustomAnsweredType ==
    ASSUME TypeInv, NEW d \in Decision, NEW t \in Text \cup {None},
           CustomAnswered(d, t)
    PROVE  TypeInv'
<1>1. key \in Keys /\ sent' \subseteq Crossing
  BY CustomSendType DEF CustomAnswered
<1>2. \E v \in Result : Record(v)
  BY ResultTypes DEF CustomAnswered
<1>3. QED
  BY <1>1, <1>2, CustomStepType DEF CustomAnswered

\* The failure of a custom endpoint is an empty result.
LEMMA CustomFailsType == ASSUME TypeInv, CustomFails PROVE TypeInv'
<1>1. key \in Keys /\ sent' \subseteq Crossing
  BY CustomSendType DEF CustomFails
<1>2. \E v \in Result : Record(v)
  BY ResultTypes DEF CustomFails
<1>3. QED
  BY <1>1, <1>2, CustomStepType DEF CustomFails

\* The most severe result exists: the CHOOSE of Worst is a choice.
LEMMA WorstExists ==
    ASSUME results \in [Keys -> Result \cup {None}], Present # {}
    PROVE  /\ Worst \in Present
           /\ \A j \in Present : decision_rank(results[j].decision)
                                    <= decision_rank(results[Worst].decision)
<1> DEFINE rank(k) == decision_rank(results[k].decision)
           ranks == {rank(k) : k \in Present}
<1>1. \A k \in Present : k \in Nat /\ rank(k) \in 1 .. 5
  BY ConstantAssumption DEF Present, Keys, Result, Decision, decision_rank
<1> HIDE DEF rank
<1>2. ranks \subseteq 1 .. 5 /\ ranks # {}
  BY <1>1, Zenon
<1>3. PICK top \in ranks : \A r \in ranks : r <= top
  BY <1>2, Greatest
<1> DEFINE tops == {k \in Present : rank(k) = top}
<1>4. tops # {} /\ tops \subseteq Nat
  BY <1>1, <1>3
<1>5. PICK first \in tops : \A k \in tops : first <= k
  BY <1>4, Least
<1>6. \A j \in Present : rank(j) < rank(first) \/ (rank(j) = rank(first) /\ first <= j)
  BY <1>1, <1>3, <1>5
<1>7. /\ Worst \in Present
      /\ \A j \in Present : \/ rank(j) < rank(Worst)
                            \/ rank(j) = rank(Worst) /\ Worst <= j
  BY <1>5, <1>6 DEF Worst, rank
<1>8. \A j \in Present : rank(j) <= rank(Worst)
  BY <1>1, <1>7
<1>9. QED
  BY <1>7, <1>8 DEF rank

\* The last rewriting result exists, and is what aggregate takes the text from.
LEMMA LastExists ==
    ASSUME results \in [Keys -> Result \cup {None}], Rewriting # {}
    PROVE  \E last \in Rewriting : /\ \A j \in Rewriting : j <= last
                                   /\ aggregate.sanitized_text = results[last].sanitized_text
<1>1. Rewriting \subseteq 1 .. Detectors /\ Present # {}
  BY DEF Rewriting, Present, Keys
<1>2. \E k \in Rewriting : \A j \in Rewriting : j <= k
  BY <1>1, Greatest, ConstantAssumption
<1> DEFINE last == CHOOSE k \in Rewriting : \A j \in Rewriting : j <= k
<1>3. last \in Rewriting /\ \A j \in Rewriting : j <= last
  BY <1>2
<1>4. aggregate.sanitized_text = results[last].sanitized_text
  BY <1>1 DEF aggregate, Unremedied
<1>5. QED
  BY <1>3, <1>4

\* The aggregate has a decision and a text or none.
LEMMA AggregateType ==
    ASSUME results \in [Keys -> Result \cup {None}]
    PROVE  /\ aggregate.decision \in Decision
           /\ aggregate.sanitized_text \in Text \cup {None}
           /\ aggregate = Unremedied(aggregate.decision, aggregate.sanitized_text)
<1>1. CASE Present = {}
  BY <1>1 DEF aggregate, Unremedied, Decision
<1>2. CASE Present # {}
  <2>1. results[Worst] \in Result
    BY <1>2, WorstExists DEF Present
  <2>2. CASE Rewriting = {}
    BY <1>2, <2>1, <2>2 DEF aggregate, Unremedied, Result
  <2>3. CASE Rewriting # {}
    <3>1. aggregate.sanitized_text \in Text \cup {None}
      BY <2>3, LastExists DEF Rewriting, Present, Result
    <3>2. /\ aggregate.decision = results[Worst].decision
          /\ aggregate = Unremedied(aggregate.decision, aggregate.sanitized_text)
      BY <1>2 DEF aggregate, Unremedied
    <3>3. QED
      BY <2>1, <3>1, <3>2 DEF Result
  <2>4. QED
    BY <2>2, <2>3
<1>3. QED
  BY <1>1, <1>2

\* The resolved on_fail is an action.
LEMMA ActionType ==
    ASSUME request \in Request
    PROVE  resolve_action \in OnFail
<1> DEFINE section(k) == request.policy.detectors[k]
           fired == {k \in Present : /\ section(k).kind # "custom"
                                     /\ results[k].own_hits
                                     /\ section(k).on_fail # "unset"}
<1>1. request.policy.on_fail \in OnFail
  BY ConstantAssumption DEF Request, Policy
<1>2. \A k \in Keys : section(k).on_fail \in OnFail
  BY DetectorType DEF Detector
<1>3. CASE fired = {}
  BY <1>1, <1>3 DEF resolve_action
<1>4. CASE fired # {}
  <2>1. fired \subseteq Nat /\ fired \subseteq Keys
    BY DEF Present, Keys
  <2>2. \E k \in fired : \A j \in fired : k <= j
    BY <1>4, <2>1, Least
  <2> DEFINE first == CHOOSE k \in fired : \A j \in fired : k <= j
  <2>3. first \in fired
    BY <2>2
  <2>4. resolve_action = section(first).on_fail
    BY <1>4 DEF resolve_action
  <2>5. QED
    BY <1>2, <2>1, <2>3, <2>4
<1>5. QED
  BY <1>3, <1>4

\* What remediation makes of an aggregated result.
LEMMA RemediateFields ==
    ASSUME request \in Request, NEW d \in Decision, NEW t \in Text \cup {None}
    PROVE  LET r == remediate(Unremedied(d, t)) IN
             /\ r \in Response
             /\ d = "ALLOW" => r.decision = "ALLOW"
             /\ r.remediation \notin {"fix", "refrain", "ask_human"} =>
                   r.decision = d /\ r.sanitized_text = t
             /\ r.remediation = "fix" => r.decision = "TRANSFORM"
             /\ r.remediation \in {"refrain", "ask_human"} => r.decision = "BLOCK"
             /\ t # None =>
                   r.sanitized_text # None /\ r.sanitized_text \subseteq t
<1> DEFINE action == IF d = "ALLOW" THEN "unset" ELSE resolve_action
           r      == remediate(Unremedied(d, t))
<1>1. action \in OnFail
  BY ActionType DEF OnFail
<1>2. \/ /\ action \notin {"fix", "refrain", "ask_human"}
         /\ r = [decision |-> d, sanitized_text |-> t, remediation |-> action]
      \/ /\ action = "fix"
         /\ r = [decision |-> "TRANSFORM",
                 sanitized_text |-> IF t = None THEN {} ELSE t,
                 remediation |-> action]
      \/ /\ action = "refrain"
         /\ r = [decision |-> "BLOCK", sanitized_text |-> {}, remediation |-> action]
      \/ /\ action = "ask_human"
         /\ r = [decision |-> "BLOCK", sanitized_text |-> t, remediation |-> action]
  BY DEF remediate, Unremedied
<1>3. {} \in Text /\ {} # None
  BY ConstantAssumption DEF Text
<1>4. action \in {"fix", "refrain", "ask_human"} => d # "ALLOW"
  OBVIOUS
<1> HIDE DEF action, r
<1>5. r \in Response
  BY <1>1, <1>2, <1>3 DEF Response, Decision
<1>6. QED
  BY <1>1, <1>2, <1>3, <1>4, <1>5 DEF r

\* The answer is a response.
LEMMA AnswerType == ASSUME TypeInv, Answer PROVE TypeInv'
<1> DEFINE final == IF current # Char THEN current ELSE aggregate.sanitized_text
<1>1. request \in Request /\ current \in Text
  BY DEF Answer, TypeInv, TypeOK
<1>2. aggregate.decision \in Decision /\ final \in Text \cup {None}
  BY <1>1, AggregateType DEF TypeInv, TypeOK
<1>3. response' = remediate(Unremedied(aggregate.decision, final))
  <2>1. aggregate = Unremedied(aggregate.decision, aggregate.sanitized_text)
    BY AggregateType DEF TypeInv, TypeOK
  <2>2. [aggregate EXCEPT !.sanitized_text = current]
           = Unremedied(aggregate.decision, current)
    BY <2>1 DEF Unremedied
  <2>3. QED
    BY <2>1, <2>2 DEF Answer
<1>4. response' \in Response
  BY <1>1, <1>2, <1>3, RemediateFields
<1>5. TypeOK'
  BY <1>1, <1>4 DEF Answer, TypeInv, TypeOK, pipeline, escalation, crossings
<1>6. Layered'
  BY DEF Answer, TypeInv, Layered, pipeline, escalation
<1>7. QED
  BY <1>5, <1>6 DEF TypeInv

\* A request arrives.
LEMMA ReceiveType == ASSUME TypeInv, NEW r \in Request, Receive(r) PROVE TypeInv'
<1>1. TypeOK'
  BY DEF Receive, TypeInv, TypeOK, escalation, crossings
<1>2. Layered'
  BY DEF Receive, TypeInv, Layered, escalation
<1>3. QED
  BY <1>1, <1>2 DEF TypeInv

\* After the answer everything is as at the start.
LEMMA ReturnType == ASSUME TypeInv, Return PROVE TypeInv'
<1>1. votes' \in [Decision -> 0 .. Members]
  BY ConstantAssumption DEF Return, NoVotes
<1>2. base' \in [Keys -> Result \cup {None}] /\ results' \in [Keys -> Result \cup {None}]
  BY DEF Return
<1>3. key' \in 1 .. Detectors + 1 /\ member' \in 1 .. Members + 1
  BY ConstantAssumption DEF Return
<1>4. fell' \in BOOLEAN /\ flagged' \in BOOLEAN
  BY DEF Return
<1>5. TypeOK'
  BY <1>1, <1>2, <1>3, <1>4, AllowedType DEF Return, TypeOK, Text
<1>6. Layered'
  BY ConstantAssumption DEF Return, Layered, NoVotes
<1>7. QED
  BY <1>5, <1>6 DEF TypeInv

\* Every step preserves the types.
LEMMA NextType == TypeInv /\ [Next]_vars => TypeInv'
<1> SUFFICES ASSUME TypeInv, [Next]_vars PROVE TypeInv'
  OBVIOUS
<1>1. CASE UNCHANGED vars
  <2>1. TypeOK'
    BY <1>1 DEF TypeInv, TypeOK, vars, pipeline, escalation, crossings
  <2>2. Layered'
    BY <1>1 DEF TypeInv, Layered, Det, ThisLayer, vars, pipeline, escalation
  <2>3. QED
    BY <2>1, <2>2 DEF TypeInv
<1>2. CASE Next
  BY <1>2, ReceiveType, SkipType, DetectStepType, EnterLayerType, CallPreparedType,
     CallRefusedType, BudgetRefusesType, CallAnsweredType, CallFailsType,
     CallRaisesType, JudgesDoneType, SettleType, CustomPluginType, CustomPreparedType,
     CustomRefusedType, CustomAnsweredType, CustomFailsType, AnswerType, ReturnType
     DEF Next, Steps
<1>3. QED
  BY <1>1, <1>2

\* Type correctness of the pipeline: in particular no consensus counts more
\* votes than judges and every answer is well formed.
THEOREM TypeCorrect == Spec => []TypeOK
<1>1. TypeInv => TypeOK
  BY DEF TypeInv
<1>2. QED
  BY <1>1, InitType, NextType, PTL DEF Spec

(***************************************************************************)
(* What the detectors decided, and what the caller is answered.            *)
(***************************************************************************)

\* Text t, where there is one, has nothing in it that the current text has not.
Within(t) == t = None \/ t \subseteq current

\* The detector under way: after a fallback the selected result is the one the
\* strategy names, before any layer answered it is the deterministic one, and
\* no result puts back what was taken out of the text.
Underway ==
    phase \in {"escalate", "layer", "called"} =>
        /\ fell /\ Det.fallback = "fail_closed" => selected.decision = "BLOCK"
        /\ fell /\ Det.fallback = "fallback_to_deterministic" => selected = base[key]
        /\ ~fell /\ level = 1 => selected = base[key]
        /\ Within(selected.sanitized_text) /\ Within(base[key].sanitized_text)
        /\ phase # "escalate" => ~fell

\* The result v of detector d stands above its deterministic result b.
Stands(d, v, b) ==
    /\ d.kind = "builtin" /\ MayEnforce(request, d)
    /\ d.additive \/ v.fallback
    /\ ~(d.fallback = "fail_open" /\ v.fallback)
    => decision_rank(v.decision) >= decision_rank(b.decision)

\* A settled result of detector d.
Settled(d, v) ==
    /\ d.kind # "custom" /\ v.decision \in {"BLOCK", "REDACT"} => MayEnforce(request, d)
    /\ v.fallback /\ d.fallback = "fail_closed" /\ MayEnforce(request, d)
          => v.decision = "BLOCK"
    /\ Rewrites(request, d, v) => current \subseteq v.sanitized_text

Verdicts ==
    \A k \in Present :
        /\ k < key
        /\ Settled(request.policy.detectors[k], results[k])
        /\ Stands(request.policy.detectors[k], results[k], base[k])

\* There is an answer only at the end, and nothing between requests.
Answers ==
    /\ response # None => phase = "answered"
    /\ phase = "idle" => Present = {}
    /\ UncertifiedNeverEnforces
    /\ FailClosedBlocks
    /\ RedactionsCompose

VerdictInv == TypeInv /\ Underway /\ Verdicts /\ Answers

\* A detector takes characters out of the text and puts none in.
LEMMA DetectWithin ==
    ASSUME NEW d \in Detector, current \in Text
    PROVE  Within(detect(d, current).sanitized_text)
  BY DEF detect, Allowed, Within

\* The results of models and fallbacks have no text of their own.
LEMMA AllowedWithin ==
    /\ Within(Allowed.sanitized_text)
    /\ \A d \in Decision : \A s, h :
          Within([Allowed EXCEPT !.decision = d, !.redaction_spans = s,
                                 !.own_hits = h].sanitized_text)
    /\ \A d \in Decision : \A h :
          Within([Allowed EXCEPT !.decision = d, !.own_hits = h].sanitized_text)
    /\ Within([Allowed EXCEPT !.decision = "BLOCK"].sanitized_text)
  BY DEF Allowed, Within

\* The additive merge is never below either layer, and within the text.
LEMMA MergeFields ==
    ASSUME NEW a \in Result, NEW b \in Result, current \in Text,
           Within(a.sanitized_text), Within(b.sanitized_text)
    PROVE  /\ decision_rank(additive_merge(a, b).decision) >= decision_rank(a.decision)
           /\ Within(additive_merge(a, b).sanitized_text)
<1> DEFINE spans == a.redaction_spans \cup b.redaction_spans
           masked == apply_redaction_spans(current, spans)
<1>1. masked \subseteq current
  BY DEF apply_redaction_spans
<1>2. /\ decision_rank(a.decision) \in Nat
      /\ decision_rank(b.decision) \in Nat
  BY DEF Result, Decision, decision_rank
<1> HIDE DEF masked, spans
<1> DEFINE keep == IF decision_rank(a.decision) >= decision_rank(b.decision)
                   THEN a ELSE b
           text == IF spans # {} THEN masked
                   ELSE IF a.sanitized_text # None THEN a.sanitized_text
                   ELSE b.sanitized_text
<1>3. additive_merge(a, b) = [keep EXCEPT
            !.sanitized_text = text,
            !.redaction_spans = spans,
            !.own_hits = a.own_hits \/ b.own_hits]
  BY DEF additive_merge, spans, masked
<1>4. keep \in Result /\ decision_rank(keep.decision) >= decision_rank(a.decision)
  BY <1>2
<1>5. Within(text)
  BY <1>1 DEF Within
<1> HIDE DEF keep, text
<1>6. /\ additive_merge(a, b).decision = keep.decision
      /\ additive_merge(a, b).sanitized_text = text
  BY <1>3, <1>4 DEF Result
<1>7. QED
  BY <1>4, <1>5, <1>6

\* What a strategy ends with.
LEMMA StrategyFields ==
    ASSUME TypeInv, Underway, phase = "escalate"
    PROVE  LET s == run_with_strategy IN
             /\ s.fallback = fell
             /\ Within(s.sanitized_text)
             /\ fell => s.decision = selected.decision
             /\ ~fell /\ Det.additive =>
                   decision_rank(s.decision) >= decision_rank(base[key].decision)
<1> DEFINE merging == Det.additive /\ ~fell /\ level > 1
           merged  == IF merging THEN additive_merge(base[key], selected) ELSE selected
<1>1. /\ base[key] \in Result /\ selected \in Result /\ current \in Text
      /\ level \in Nat \ {0}
  BY DEF TypeInv, TypeOK, Layered
<1>2. /\ decision_rank(additive_merge(base[key], selected).decision)
            >= decision_rank(base[key].decision)
      /\ Within(additive_merge(base[key], selected).sanitized_text)
  BY <1>1, MergeFields DEF Underway
<1>3. decision_rank(base[key].decision) \in Nat
  BY <1>1 DEF Result, Decision, decision_rank
<1>4. /\ merged \in Result
      /\ Within(merged.sanitized_text)
      /\ fell => merged = selected
      /\ ~fell /\ Det.additive =>
            decision_rank(merged.decision) >= decision_rank(base[key].decision)
  <2>1. CASE merging
    BY <1>1, <1>2, <2>1, MergeType
  <2>2. CASE ~merging
    BY <1>1, <1>3, <2>2 DEF Underway
  <2>3. QED
    BY <2>1, <2>2
<1>5. run_with_strategy = [merged EXCEPT !.external_egress = flagged, !.fallback = fell]
  BY DEF run_with_strategy
<1> HIDE DEF merged
<1>6. /\ run_with_strategy.fallback = fell
      /\ run_with_strategy.decision = merged.decision
      /\ run_with_strategy.sanitized_text = merged.sanitized_text
  BY <1>4, <1>5 DEF Result
<1>7. QED
  BY <1>4, <1>6

\* What the scorecard gate leaves of it.
LEMMA GateFields ==
    ASSUME NEW v \in Result
    PROVE  LET g == apply_scorecard_gate(v) IN
             /\ g.fallback = v.fallback
             /\ g.sanitized_text = v.sanitized_text
             /\ MayEnforce(request, Det) => g.decision = v.decision
             /\ g.decision \in {"BLOCK", "REDACT"} => MayEnforce(request, Det)
  BY DEF apply_scorecard_gate, Result

\* Without an answer the properties of answers follow from the verdicts.
LEMMA NoAnswer ==
    ASSUME Verdicts, response = None, phase = "idle" => Present = {}
    PROVE  Answers
  BY DEF Verdicts, Settled, Answers, UncertifiedNeverEnforces, FailClosedBlocks,
     RedactionsCompose

\* Steps that leave the settled results, the text and the answer alone.
LEMMA StillStep ==
    ASSUME VerdictInv, phase \notin {"idle", "answered"},
           phase' \notin {"idle", "answered"}, TypeInv', Underway',
           key \in Nat, key' \in Nat, key <= key',
           UNCHANGED <<request, results, current, response>>,
           \A k \in Keys : k < key => base'[k] = base[k]
    PROVE  VerdictInv'
<1>1. Present' = Present /\ Present \subseteq Keys /\ Keys \subseteq Nat
  BY DEF Present, Keys
<1>a. \A k \in Present : k < key
  BY DEF VerdictInv, Verdicts
<1>2. \A k \in Present : k < key' /\ base'[k] = base[k]
  BY <1>1, <1>a
<1>3. Verdicts'
  BY <1>1, <1>2 DEF VerdictInv, Verdicts, Settled, Stands, Rewrites, MayEnforce
<1>4. response' = None
  BY DEF VerdictInv, Answers
<1>5. Answers'
  BY <1>3, <1>4 DEF Verdicts, Settled, Answers, UncertifiedNeverEnforces,
     FailClosedBlocks, RedactionsCompose
<1>6. QED
  BY <1>3, <1>5 DEF VerdictInv

\* The turn is a natural number.
LEMMA KeyNat == ASSUME TypeInv PROVE key \in Nat
  BY ConstantAssumption DEF TypeInv, TypeOK

\* A detector's turn is over: its result, if any, is settled, and the text has
\* nothing in it that was not in it before.
LEMMA TurnOver ==
    ASSUME VerdictInv, phase \notin {"idle", "answered"}, phase' = "next", TypeInv',
           key \in Keys, key < key', UNCHANGED <<request, base, response>>,
           current' \subseteq current,
           NEW d, d = Det,
           \/ UNCHANGED results
           \/ \E v \in Result : /\ results' = [results EXCEPT ![key] = v]
                                /\ Settled(d, v)'
                                /\ Stands(d, v, base[key])
    PROVE  VerdictInv'
<1>1. /\ Present \subseteq Keys /\ Keys \subseteq Nat /\ key' \in Nat
      /\ results \in [Keys -> Result \cup {None}]
  BY ConstantAssumption DEF Present, Keys, VerdictInv, TypeInv, TypeOK
<1>2. \A k \in Present : k # key /\ k < key'
  BY <1>1 DEF VerdictInv, Verdicts
<1>3. \A k \in Present : results'[k] = results[k]
  BY <1>1, <1>2
<1>4. ASSUME NEW k \in Present
      PROVE  /\ Settled(request.policy.detectors[k], results[k])'
             /\ Stands(request.policy.detectors[k], results[k], base[k])'
  <2>1. results'[k] = results[k] /\ base'[k] = base[k] /\ request' = request
    BY <1>3
  <2>2. /\ Settled(request.policy.detectors[k], results[k])
        /\ Stands(request.policy.detectors[k], results[k], base[k])
    BY DEF VerdictInv, Verdicts
  <2>3. QED
    BY <2>1, <2>2 DEF Settled, Stands, Rewrites, MayEnforce
<1>5. ASSUME NEW k \in Present', k \notin Present
      PROVE  /\ k < key'
             /\ Settled(request.policy.detectors[k], results[k])'
             /\ Stands(request.policy.detectors[k], results[k], base[k])'
  <2>1. PICK v \in Result : /\ results' = [results EXCEPT ![key] = v]
                            /\ Settled(d, v)'
                            /\ Stands(d, v, base[key])
    BY <1>5 DEF Present
  <2>2. k = key /\ results'[k] = v
    <3>1. k \in Keys /\ results'[k] # None /\ results[k] = None
      BY <1>5 DEF Present
    <3>2. QED
      BY <1>1, <2>1, <3>1
  <2>3. (request.policy.detectors[k])' = d
    BY <2>2 DEF Det
  <2>4. QED
    BY <2>1, <2>2, <2>3 DEF Settled, Stands, MayEnforce, Rewrites
<1>6. Verdicts'
  BY <1>2, <1>4, <1>5 DEF Verdicts
<1>7. response' = None
  BY DEF VerdictInv, Answers
<1>8. Answers'
  BY <1>6, <1>7 DEF Verdicts, Settled, Answers, UncertifiedNeverEnforces,
     FailClosedBlocks, RedactionsCompose
<1>9. QED
  BY <1>6, <1>8 DEF VerdictInv, Underway

\* Escalation changes neither the settled results nor the text: it falls back,
\* goes on, or selects the result of a layer.
LEMMA EscalationVerdict ==
    ASSUME VerdictInv, TypeInv', phase \in {"escalate", "layer", "called"},
           phase' \in {"escalate", "layer", "called"},
           UNCHANGED <<pipeline, response>>,
           \/ Fallback
           \/ UNCHANGED <<level, selected, fell>> /\ ~fell
           \/ \E r \in Result : Select(r) /\ Within(r.sanitized_text) /\ ~fell
    PROVE  VerdictInv'
<1>1. UNCHANGED <<request, key, base, results, current>>
  BY DEF pipeline
<1>2. Det' = Det /\ key \in Keys /\ base[key] \in Result /\ request \in Request
  BY <1>1 DEF Det, VerdictInv, TypeInv, TypeOK, Layered
<1>3. Underway'
  <2>1. CASE Fallback
    <3>1. \/ selected' = Allowed /\ Det.fallback = "fail_open"
          \/ /\ selected' = [Allowed EXCEPT !.decision = "BLOCK"]
             /\ Det.fallback = "fail_closed"
          \/ selected' = base[key] /\ Det.fallback = "fallback_to_deterministic"
      <4>1. Det.fallback \in {"fail_open", "fail_closed", "fallback_to_deterministic"}
        BY <1>2, DetectorType DEF Det, Detector
      <4>2. QED
        BY <2>1, <4>1 DEF Fallback
    <3>2. fell' = TRUE /\ phase' = "escalate"
      BY <2>1 DEF Fallback
    <3>3. [Allowed EXCEPT !.decision = "BLOCK"].decision = "BLOCK"
      BY DEF Allowed
    <3>4. Within(selected'.sanitized_text) /\ Within(base[key].sanitized_text)
      BY <3>1, AllowedWithin DEF VerdictInv, Underway
    <3>5. QED
      BY <1>1, <1>2, <3>1, <3>2, <3>3, <3>4 DEF Underway, Within
  <2>2. CASE UNCHANGED <<level, selected, fell>> /\ ~fell
    BY <1>1, <1>2, <2>2 DEF VerdictInv, Underway, Within
  <2>3. ASSUME NEW r \in Result, Select(r), Within(r.sanitized_text), ~fell
        PROVE  Underway'
    <3>1. selected' = r /\ fell' = fell /\ level' = level + 1 /\ level \in Nat \ {0}
      BY <2>3 DEF Select, VerdictInv, TypeInv, TypeOK
    <3>2. phase' = "escalate"
      BY <2>3 DEF Select
    <3>3. QED
      BY <1>1, <1>2, <2>3, <3>1, <3>2 DEF VerdictInv, Underway, Within
  <2>4. QED
    BY <2>1, <2>2, <2>3
<1>4. key \in Nat
  BY KeyNat DEF VerdictInv
<1>5. QED
  BY <1>1, <1>3, <1>4, StillStep

\* Running a detector changes no settled result.
LEMMA DetectVerdict == ASSUME VerdictInv, TypeInv', Detect PROVE VerdictInv'
<1>1. /\ phase = "next" /\ phase' = "escalate" /\ key \in Keys /\ request \in Request
      /\ current \in Text /\ base' = [base EXCEPT ![key] = detect(Det, current)]
      /\ selected' = base'[key] /\ fell' = FALSE /\ level' = 1
      /\ base \in [Keys -> Result \cup {None}]
      /\ UNCHANGED <<request, key, results, current, response>>
  BY DEF Detect, VerdictInv, TypeInv, TypeOK
<1>2. base'[key] = detect(Det, current) /\ \A k \in Keys : k # key => base'[k] = base[k]
  BY <1>1
<1>3. Within(base'[key].sanitized_text)
  BY <1>1, <1>2, DetectorType, DetectWithin DEF Det
<1>4. Underway'
  BY <1>1, <1>3 DEF Underway, Within
<1>5. key \in Nat /\ \A k \in Keys : k < key => base'[k] = base[k]
  BY <1>2, KeyNat DEF VerdictInv, Keys
<1>6. QED
  BY <1>1, <1>4, <1>5, StillStep

\* The verdict of a strategy, through the scorecard gate, is settled.
LEMMA SettleVerdict == ASSUME VerdictInv, TypeInv', Settle PROVE VerdictInv'
<1> DEFINE s == run_with_strategy
           v == apply_scorecard_gate(s)
<1>1. /\ phase = "escalate" /\ key \in Keys /\ base[key] \in Result
      /\ selected \in Result /\ request \in Request /\ fell \in BOOLEAN
      /\ key \in Nat /\ TypeInv /\ Underway
  BY KeyNat DEF Settle, VerdictInv, TypeInv, TypeOK, Layered
<1>2. s \in Result
  BY <1>1, StrategyType DEF TypeInv, TypeOK
<1>3. /\ s.fallback = fell /\ Within(s.sanitized_text)
      /\ fell => s.decision = selected.decision
      /\ ~fell /\ Det.additive =>
            decision_rank(s.decision) >= decision_rank(base[key].decision)
  BY <1>1, StrategyFields
<1> HIDE DEF s
<1>4. /\ v.fallback = s.fallback /\ v.sanitized_text = s.sanitized_text
      /\ MayEnforce(request, Det) => v.decision = s.decision
      /\ v.decision \in {"BLOCK", "REDACT"} => MayEnforce(request, Det)
  BY <1>2, GateFields
<1>5. v \in Result
  BY <1>2, GateType
<1>6. /\ results' = [results EXCEPT ![key] = v]
      /\ current' = IF Rewrites(request, Det, v) THEN v.sanitized_text ELSE current
      /\ key' = key + 1 /\ phase' = "next"
      /\ UNCHANGED <<request, base, response>>
  BY DEF Settle, s
<1> HIDE DEF v
<1>7. PICK d, w : d = Det /\ w = v
  OBVIOUS
<1>8. current' \subseteq current
  BY <1>3, <1>4, <1>6 DEF Rewrites, Within
<1>9. Det.fallback \in {"fail_open", "fail_closed", "fallback_to_deterministic"}
  BY <1>1, DetectorType DEF Det, Detector
<1>10. Settled(d, w)'
  <2>1. w.fallback /\ d.fallback = "fail_closed" /\ MayEnforce(request, d)
           => w.decision = "BLOCK"
    BY <1>1, <1>3, <1>4, <1>7 DEF Underway
  <2>2. Rewrites(request, d, w) => current' \subseteq w.sanitized_text
    BY <1>6, <1>7
  <2>3. w.decision \in {"BLOCK", "REDACT"} => MayEnforce(request, d)
    BY <1>4, <1>7
  <2>4. /\ MayEnforce(request, d)' <=> MayEnforce(request, d)
        /\ Rewrites(request, d, w)' <=> Rewrites(request, d, w)
    BY <1>6 DEF MayEnforce, Rewrites
  <2>5. QED
    BY <2>1, <2>2, <2>3, <2>4 DEF Settled
<1>11. Stands(d, w, base[key])
  <2>1. SUFFICES ASSUME MayEnforce(request, d), d.additive \/ fell,
                        ~(d.fallback = "fail_open" /\ fell)
                 PROVE  decision_rank(w.decision) >= decision_rank(base[key].decision)
    BY <1>3, <1>4, <1>7 DEF Stands
  <2>2. w.decision = s.decision
    BY <1>4, <1>7, <2>1
  <2>3. CASE ~fell
    BY <1>3, <1>7, <2>1, <2>2, <2>3
  <2>4. CASE fell
    <3>1. \/ selected.decision = "BLOCK"
          \/ selected = base[key]
      BY <1>1, <1>7, <1>9, <2>1, <2>4 DEF Underway
    <3>2. QED
      BY <1>1, <1>3, <2>2, <2>4, <3>1 DEF Result, Decision, decision_rank
  <2>5. QED
    BY <1>1, <2>3, <2>4
<1>12. \E r \in Result : /\ results' = [results EXCEPT ![key] = r]
                         /\ Settled(d, r)'
                         /\ Stands(d, r, base[key])
  BY <1>5, <1>6, <1>7, <1>10, <1>11
<1>13. key < key'
  BY <1>1, <1>6
<1>14. QED
  BY <1>1, <1>6, <1>7, <1>8, <1>12, <1>13, TurnOver

\* The turn of a custom detector: no fallback, no rewriting, no deterministic
\* result, so its result is settled whatever it says.
LEMMA CustomVerdict ==
    ASSUME VerdictInv, TypeInv', phase \in {"next", "custom"}, phase' = "next",
           key \in Keys, Det.kind = "custom",
           (\E v \in Result : Record(v) /\ ~v.fallback) \/ Unrecorded,
           UNCHANGED <<request, base, current, response>>
    PROVE  VerdictInv'
<1>1. key \in Nat /\ key \in 1 .. Detectors
  BY KeyNat DEF VerdictInv, Keys
<1>2. key < key'
  BY <1>1, ConstantAssumption DEF Record, Unrecorded
<1>3. PICK d : d = Det
  OBVIOUS
<1>4. \A v \in Result : ~v.fallback => Settled(d, v)' /\ Stands(d, v, base[key])
  BY <1>3 DEF Settled, Stands, Rewrites
<1>5. \/ UNCHANGED results
      \/ \E v \in Result : /\ results' = [results EXCEPT ![key] = v]
                           /\ Settled(d, v)'
                           /\ Stands(d, v, base[key])
  BY <1>4 DEF Record, Unrecorded
<1>6. QED
  BY <1>2, <1>3, <1>5, TurnOver

\* Custom detectors and rules do not fall back.
LEMMA CustomNoFallback ==
    /\ ~Allowed.fallback
    /\ \A d \in Decision, t \in Text \cup {None} :
          ~[Allowed EXCEPT !.decision = d, !.sanitized_text = t,
                           !.external_egress = TRUE].fallback
    /\ ~[Allowed EXCEPT !.external_egress = TRUE].fallback
    /\ \A d \in Detector, t \in Text : ~detect(d, t).fallback
  BY DEF Allowed, detect

\* A plugin inside the process settles or is left out.
LEMMA CustomPluginVerdict == ASSUME VerdictInv, TypeInv', CustomPlugin PROVE VerdictInv'
<1>1. /\ phase = "next" /\ phase' = "next" /\ key \in Keys /\ Det.kind = "custom"
      /\ UNCHANGED <<request, base, current, response>>
      /\ request \in Request /\ current \in Text
  BY DEF CustomPlugin, CustomTurn, VerdictInv, TypeInv, TypeOK
<1>2. detect(Det, current) \in Result /\ ~detect(Det, current).fallback
  BY <1>1, DetectorType, DetectType, CustomNoFallback DEF Det
<1>3. Record(detect(Det, current)) \/ Unrecorded
  BY DEF CustomPlugin
<1>4. QED
  BY <1>1, <1>2, <1>3, CustomVerdict

\* The answer: the worst verdict decides, unless an on_fail applies, and the
\* rewritten text is what the caller gets.
LEMMA AnswerVerdict == ASSUME VerdictInv, TypeInv', Answer PROVE VerdictInv'
<1> DEFINE final == IF current # Char THEN current ELSE aggregate.sanitized_text
<1>1. /\ request \in Request /\ current \in Text /\ TypeInv /\ Verdicts
      /\ results \in [Keys -> Result \cup {None}]
      /\ phase' = "answered"
      /\ UNCHANGED <<request, key, base, results, current>>
  BY DEF Answer, pipeline, VerdictInv, TypeInv, TypeOK
<1>2. PICK D, T, R : D = aggregate.decision /\ T = final /\ R = response'
  OBVIOUS
<1>3. D \in Decision /\ T \in Text \cup {None}
  BY <1>1, <1>2, AggregateType
<1>4. R = remediate(Unremedied(D, T))
  <2>1. aggregate = Unremedied(aggregate.decision, aggregate.sanitized_text)
    BY <1>1, AggregateType
  <2>2. [aggregate EXCEPT !.sanitized_text = current]
           = Unremedied(aggregate.decision, current)
    BY <2>1 DEF Unremedied
  <2>3. QED
    BY <1>2, <2>1, <2>2 DEF Answer
<1>5. /\ R.remediation \notin {"fix", "refrain", "ask_human"} => R.decision = D
      /\ R.remediation = "fix" => R.decision = "TRANSFORM"
      /\ R.remediation \in {"refrain", "ask_human"} => R.decision = "BLOCK"
      /\ T # None => R.sanitized_text # None /\ R.sanitized_text \subseteq T
  BY <1>1, <1>3, <1>4, RemediateFields
<1>6. Present # {} =>
        /\ Worst \in Present /\ D = results[Worst].decision
        /\ \A j \in Present : decision_rank(results[j].decision)
                                 <= decision_rank(results[Worst].decision)
  BY <1>1, <1>2, WorstExists DEF aggregate, Unremedied
<1>7. Present = {} => D = "ALLOW"
  BY <1>2 DEF aggregate, Unremedied
<1>8. Present' = Present
  BY <1>1 DEF Present
<1>9. Verdicts'
  BY <1>1, <1>8 DEF Verdicts, Settled, Stands, Rewrites, MayEnforce
<1>10. UncertifiedNeverEnforces'
  <2>1. SUFFICES ASSUME R.decision \in {"BLOCK", "REDACT"},
                        R.remediation \notin {"refrain", "ask_human"}
                 PROVE  \E k \in Present :
                          LET d == request.policy.detectors[k] IN
                            /\ results[k].decision = R.decision
                            /\ d.kind = "custom" \/ MayEnforce(request, d)
    BY <1>1, <1>2, <1>8 DEF UncertifiedNeverEnforces, MayEnforce
  <2>2. R.decision = D /\ Present # {}
    BY <1>5, <1>7, <2>1
  <2>3. QED
    BY <1>1, <1>6, <2>1, <2>2 DEF Verdicts, Settled
<1>11. FailClosedBlocks'
  <2>1. SUFFICES ASSUME NEW k \in Present, R.remediation # "fix",
                        results[k].fallback,
                        request.policy.detectors[k].fallback = "fail_closed",
                        MayEnforce(request, request.policy.detectors[k])
                 PROVE  R.decision = "BLOCK"
    BY <1>1, <1>2, <1>8 DEF FailClosedBlocks, MayEnforce
  <2>2. results[k].decision = "BLOCK"
    BY <1>1, <2>1 DEF Verdicts, Settled
  <2>3. results[Worst] \in Result /\ decision_rank(results[Worst].decision) >= 5
    BY <1>1, <1>6, <2>1, <2>2 DEF Present, decision_rank
  <2>4. D = "BLOCK"
    BY <1>6, <2>1, <2>3 DEF Result, Decision, decision_rank
  <2>5. QED
    BY <1>5, <2>1, <2>4
<1>12. RedactionsCompose'
  <2>1. SUFFICES ASSUME NEW k \in Present,
                        Rewrites(request, request.policy.detectors[k], results[k])
                 PROVE  /\ current \subseteq results[k].sanitized_text
                        /\ R.sanitized_text # None
                        /\ R.sanitized_text \subseteq results[k].sanitized_text
    BY <1>1, <1>2, <1>8 DEF RedactionsCompose, Rewrites
  <2>2. current \subseteq results[k].sanitized_text
    BY <1>1, <2>1 DEF Verdicts, Settled
  <2>3. T # None /\ T \subseteq results[k].sanitized_text
    <3>1. CASE current # Char
      BY <1>1, <1>2, <2>2, <3>1, ConstantAssumption
    <3>2. CASE current = Char
      <4>1. k \in Rewriting
        BY <2>1 DEF Rewriting, Rewrites
      <4>2. PICK last \in Rewriting :
               aggregate.sanitized_text = results[last].sanitized_text
        BY <1>1, <4>1, LastExists
      <4>3. results[last].sanitized_text \in Text /\ results[last].sanitized_text # None
        BY <1>1, <4>2 DEF Rewriting, Present, Result
      <4>4. QED
        BY <1>2, <2>2, <3>2, <4>2, <4>3 DEF Text
    <3>3. QED
      BY <3>1, <3>2
  <2>4. QED
    BY <1>5, <2>2, <2>3
<1>13. Underway' /\ Answers'
  BY <1>1, <1>10, <1>11, <1>12 DEF Underway, Answers
<1>14. QED
  BY <1>9, <1>13 DEF VerdictInv

\* Nothing is settled or answered at the start.
LEMMA InitVerdict == Init => VerdictInv
<1> SUFFICES ASSUME Init PROVE VerdictInv
  OBVIOUS
<1>1. Present = {} /\ response = None /\ phase = "idle"
  BY DEF Init, Present
<1>2. QED
  BY <1>1, InitType, NoAnswer DEF VerdictInv, Underway, Verdicts

\* Every step preserves what is settled and answered.
LEMMA NextVerdict == VerdictInv /\ [Next]_vars => VerdictInv'
<1> SUFFICES ASSUME VerdictInv, [Next]_vars PROVE VerdictInv'
  OBVIOUS
<1>1. TypeInv' /\ TypeInv
  BY NextType DEF VerdictInv
<1>2. CASE UNCHANGED vars
  <2>1. UNCHANGED <<phase, request, key, base, results, current, level, selected,
                    fell, response>>
    BY <1>2 DEF vars, pipeline, escalation
  <2>2. Underway'
    BY <2>1 DEF VerdictInv, Underway, Within, Det
  <2>3. Verdicts'
    BY <2>1 DEF VerdictInv, Verdicts, Present, Settled, Stands, Rewrites, MayEnforce
  <2>4. Answers'
    BY <2>1 DEF VerdictInv, Answers, Present, UncertifiedNeverEnforces,
       FailClosedBlocks, RedactionsCompose, Rewrites, MayEnforce
  <2>5. QED
    BY <1>1, <2>2, <2>3, <2>4 DEF VerdictInv
<1>3. ASSUME NEW r \in Request, Receive(r) PROVE VerdictInv'
  <2>1. /\ phase' = "next" /\ Present = {} /\ Present' = {} /\ response' = None
    BY <1>3 DEF Receive, VerdictInv, Answers, Present
  <2>2. QED
    BY <1>1, <2>1 DEF VerdictInv, Underway, Verdicts, Answers,
       UncertifiedNeverEnforces, FailClosedBlocks, RedactionsCompose
<1>4. CASE Return
  <2>1. phase' = "idle" /\ Present' = {} /\ response' = None
    BY <1>4 DEF Return, Present
  <2>2. QED
    BY <1>1, <2>1 DEF VerdictInv, Underway, Verdicts, Answers,
       UncertifiedNeverEnforces, FailClosedBlocks, RedactionsCompose
<1>5. CASE Skip
  <2>1. /\ phase = "next" /\ phase' = "next" /\ key' = key + 1
        /\ UNCHANGED <<request, base, results, current, response>>
    BY <1>5 DEF Skip
  <2>2. key \in Nat
    BY <1>1, KeyNat
  <2>3. QED
    BY <1>1, <2>1, <2>2, StillStep DEF Underway
<1>6. CASE Detect
  BY <1>1, <1>6, DetectVerdict
<1>7. CASE EnterLayer
  BY <1>1, <1>7, EscalationVerdict DEF EnterLayer, Fallback
<1>8. CASE CallPrepared
  BY <1>1, <1>8, EscalationVerdict DEF CallPrepared, escalation, VerdictInv, Underway
<1>9. CASE CallRefused
  BY <1>1, <1>9, EscalationVerdict DEF CallRefused, Fallback, VerdictInv, Underway
<1>10. CASE BudgetRefuses
  BY <1>1, <1>10, EscalationVerdict DEF BudgetRefuses, VerdictInv, Underway
<1>11. ASSUME NEW d \in Decision, NEW s \in Reported \cup {{}}, CallAnswered(d, s)
       PROVE  VerdictInv'
  <2>1. phase = "called" /\ ~fell /\ UNCHANGED <<pipeline, response>>
    BY <1>11 DEF CallAnswered, VerdictInv, Underway
  <2>2. CASE Judging
    BY <1>1, <1>11, <2>1, <2>2, EscalationVerdict DEF CallAnswered
  <2>3. CASE ~Judging
    <3> DEFINE r == [Allowed EXCEPT !.decision = d, !.redaction_spans = s,
                                    !.own_hits = d # "ALLOW" /\ ThisLayer.own]
    <3>1. ThisLayer.own \in BOOLEAN /\ s \in SUBSET Span
      BY <1>1, <2>1, LayerType, ConstantAssumption DEF Layer
    <3>2. (d # "ALLOW" /\ ThisLayer.own) \in BOOLEAN
      BY <3>1
    <3>3. r \in Result /\ Within(r.sanitized_text)
      BY <3>1, <3>2, ResultTypes, AllowedWithin
    <3>4. Select(r)
      BY <1>11, <2>3 DEF CallAnswered
    <3> HIDE DEF r
    <3>5. phase' = "escalate"
      BY <3>4 DEF Select
    <3>6. QED
      BY <1>1, <2>1, <3>3, <3>4, <3>5, EscalationVerdict
  <2>4. QED
    BY <2>2, <2>3
<1>12. CASE CallFails
  BY <1>1, <1>12, EscalationVerdict DEF CallFails, Fallback, VerdictInv, Underway
<1>13. CASE JudgesDone
  <2>1. phase = "layer" /\ ~fell /\ UNCHANGED <<pipeline, response>>
    BY <1>13 DEF JudgesDone, VerdictInv, Underway
  <2>2. CASE Fallback
    BY <1>1, <2>1, <2>2, EscalationVerdict DEF Fallback
  <2>3. CASE ~Fallback
    <3> DEFINE r == [Allowed EXCEPT !.decision = synthesize_consensus,
                                    !.own_hits = synthesize_consensus # "ALLOW"]
    <3>1. synthesize_consensus \in Decision
      BY <1>1, ConsensusType DEF TypeInv, TypeOK
    <3>2. r \in Result /\ Within(r.sanitized_text)
      BY <3>1, ResultTypes, AllowedWithin
    <3>3. Select(r)
      BY <1>13, <2>3 DEF JudgesDone
    <3> HIDE DEF r
    <3>4. phase' = "escalate"
      BY <3>3 DEF Select
    <3>5. QED
      BY <1>1, <2>1, <3>2, <3>3, <3>4, EscalationVerdict
  <2>4. QED
    BY <2>2, <2>3
<1>14. CASE Settle
  BY <1>1, <1>14, SettleVerdict
<1>15. CASE CustomPlugin
  BY <1>1, <1>15, CustomPluginVerdict
<1>16. CASE CustomPrepared
  <2>1. /\ phase = "next" /\ phase' = "custom"
        /\ UNCHANGED <<request, key, base, results, current, response>>
    BY <1>16 DEF CustomPrepared, CustomTurn, pipeline
  <2>2. key \in Nat
    BY <1>1, KeyNat
  <2>3. QED
    BY <1>1, <2>1, <2>2, StillStep DEF Underway
<1>17. CASE CustomRefused
  BY <1>1, <1>17, CustomVerdict DEF CustomRefused, CustomTurn
<1>18. ASSUME NEW d \in Decision, NEW t \in Text \cup {None}, CustomAnswered(d, t)
       PROVE  VerdictInv'
  <2>1. phase = "custom" /\ key \in Keys /\ Det.kind = "custom" /\ phase' = "next"
    BY <1>1, <1>18 DEF CustomAnswered, TypeInv, TypeOK, Layered
  <2>2. \E v \in Result : Record(v) /\ ~v.fallback
    BY <1>18, ResultTypes, CustomNoFallback DEF CustomAnswered
  <2>3. QED
    BY <1>1, <1>18, <2>1, <2>2, CustomVerdict DEF CustomAnswered
<1>19. CASE CustomFails
  <2>1. phase = "custom" /\ key \in Keys /\ Det.kind = "custom" /\ phase' = "next"
    BY <1>1, <1>19 DEF CustomFails, TypeInv, TypeOK, Layered
  <2>2. \E v \in Result : Record(v) /\ ~v.fallback
    BY <1>19, ResultTypes, CustomNoFallback DEF CustomFails
  <2>3. QED
    BY <1>1, <1>19, <2>1, <2>2, CustomVerdict DEF CustomFails
<1>20. CASE Answer
  BY <1>1, <1>20, AnswerVerdict
<1>21. CASE CallRaises
  <2>1. /\ phase = "called" /\ phase' = "answered"
        /\ UNCHANGED <<request, key, base, results, current, response>>
    BY <1>21 DEF CallRaises, pipeline
  <2>2. Present' = Present /\ response' = None
    BY <2>1 DEF VerdictInv, Answers, Present
  <2>3. Verdicts'
    BY <2>1, <2>2 DEF VerdictInv, Verdicts, Settled, Stands, Rewrites, MayEnforce
  <2>4. Answers'
    BY <2>1, <2>2, <2>3 DEF Verdicts, Settled, Answers, UncertifiedNeverEnforces,
       FailClosedBlocks, RedactionsCompose
  <2>5. QED
    BY <1>1, <2>1, <2>3, <2>4 DEF VerdictInv, Underway
<1>22. QED
  BY <1>2, <1>3, <1>4, <1>5, <1>6, <1>7, <1>8, <1>9, <1>10, <1>11, <1>12, <1>13,
     <1>14, <1>15, <1>16, <1>17, <1>18, <1>19, <1>20, <1>21 DEF Next, Steps

\* A BLOCK or REDACT answer rests on a detector that may enforce, on a custom
\* detector or on an on_fail that blocks (_verify_and_apply_scorecard_gate).
THEOREM Certified == Spec => []UncertifiedNeverEnforces
<1>1. VerdictInv => UncertifiedNeverEnforces
  BY DEF VerdictInv, Answers
<1>2. QED
  BY <1>1, InitVerdict, NextVerdict, PTL DEF Spec

\* Escalation never ends below the deterministic decision when it is additive or
\* fell back, but to fail_open (run_with_strategy, _additive_merge).
THEOREM Standing == Spec => []DeterministicStands
<1>1. VerdictInv => DeterministicStands
  BY DEF VerdictInv, Verdicts, Stands, DeterministicStands
<1>2. QED
  BY <1>1, InitVerdict, NextVerdict, PTL DEF Spec

\* A fail_closed strategy that fell back blocks the request, whatever the other
\* detectors say (_fallback_result, DecisionAggregator.aggregate).
THEOREM FailClosed == Spec => []FailClosedBlocks
<1>1. VerdictInv => FailClosedBlocks
  BY DEF VerdictInv, Answers
<1>2. QED
  BY <1>1, InitVerdict, NextVerdict, PTL DEF Spec

\* What a rewriting detector took out of the text stays out of what later
\* detectors see and of the answer (current_text of _run, evaluate).
THEOREM Redacted == Spec => []RedactionsCompose
<1>1. VerdictInv => RedactionsCompose
  BY DEF VerdictInv, Answers
<1>2. QED
  BY <1>1, InitVerdict, NextVerdict, PTL DEF Spec
=============================================================================
