--------------------------- MODULE DecisionRules ---------------------------
(***************************************************************************)
(* The decision rules of the detectors, on every input a few facts make:   *)
(* a detector is configured once, then a text grows by one fact at a time  *)
(* (a match of an expression, a sign of its context, a field of its        *)
(* metadata, a keyword of a schema), and the detector is asked each time.  *)
(***************************************************************************)
EXTENDS PrivacyRules, SchemaRules, OutputRules

CONSTANTS
    Settings,   \* for each detector, the configurations looked at
    Facts       \* for each detector, what may be found in a text

VARIABLES
    rule,       \* the detector
    setting,    \* its configuration, with what it reads beside the text
    text        \* the facts found in the text

rule_vars == <<rule, setting, text>>

-----------------------------------------------------------------------------
Detectors ==
    {"secrets", "pii", "structure", "jailbreak", "toxicity", "topic", "competitor", "compliance",
     "exfiltration", "malicious_url", "language", "tools", "excessive_agency",
     "human_approval_gate", "tool_permission_audit", "mcp_manifest_scanner",
     "semantic_cache_integrity", "tenant_scope_assertion", "hallucination",
     "citation_integrity", "retrieval_jamming", "embedding_integrity",
     "corpus_poisoning_monitor", "reasoning_trace_disclosure", "output_control_char_sanitizer",
     "tool_output_injection", "retrieval_chunk_injection", "memory_write_poisoning",
     "multimodal_injection", "system_prompt_leakage", "document_metadata_leakage",
     "sensitive_business_data", "code_safety", "bias", "copyright", "gibberish", "sentiment",
     "numerical_consistency"}

Severity == DOMAIN SEVERITY_RISK_SCORES

\* A span of the text, not an empty one.
SpanOK(f) == f.start \in Nat /\ f.end \in Nat /\ f.start < f.end /\ f.end <= TextLen

\* The replaced span is around the one found, or there is none.
PlaceOK(f) ==
    /\ f.from \in Nat /\ f.to \in Nat
    /\ \/ f.from = f.to
       \/ f.from <= f.start /\ f.end <= f.to /\ f.to <= TextLen

Scores(c, score) == \A p \in Passages(c) : score[p] \in Int

\* What an expression matches lies in the text, and what it is named the tables
\* know; what is measured is a number.
FactOK(r, f) ==
    CASE r = "secrets" -> SpanOK(f) /\ position(f) \in Nat
      [] r = "pii" -> /\ SpanOK(f) /\ pii_types[f.type] \in Severity
                      /\ f.head \in Nat /\ f.tail \in Nat /\ f.head + f.tail <= f.end - f.start
      [] r = "sensitive_business_data" -> f.kind = "match" => SpanOK(f) /\ PlaceOK(f)
      [] r = "structure" -> f[1] # "none"
      [] r = "jailbreak" ->
            f.kind = "match" => f.class = "readable" \/ f.severity \in Severity
      [] r \in {"toxicity", "code_safety", "bias"} -> f.kind = "match" => f.severity \in Severity
      [] r = "topic" -> f.phrase \in Int
      [] r = "exfiltration" -> exfiltration_patterns[f.class] \in Severity
      [] r = "excessive_agency" -> _ACTION_CATEGORIES[f.category] \in Severity
      [] r = "human_approval_gate" -> f.kind = "issued_at" => f.value \in Int
      [] r = "mcp_manifest_scanner" -> f.where = "text" => mcp_patterns[f.class] \in Severity
      [] r = "embedding_integrity" -> embedding_signals[f.signal] \in Severity
      [] r \in {"tool_output_injection", "retrieval_chunk_injection", "memory_write_poisoning"} ->
            (CASE f.bank = "injection" -> INJECTION_PATTERNS
               [] f.bank = "exfiltration" -> exfiltration_patterns
               [] f.bank = "lure" -> _TOOL_LURE_PATTERNS
               [] f.bank = "future" -> _FUTURE_BEHAVIOUR_PATTERNS)[f.name] \in Severity
      [] r = "multimodal_injection" -> f.key \in Range(_ATTACHMENT_KEYS)
      [] r = "document_metadata_leakage" -> document_artifacts[f.artifact] \in Severity
      [] r = "gibberish" -> f.kind \in DOMAIN NormalText
      [] r = "sentiment" -> f.kind = "match" /\ f.tone # "" => f.severity \in Severity
      [] OTHER -> TRUE

\* Thresholds and counts are numbers.
SettingOK(r, c) ==
    CASE r \in {"exfiltration", "topic", "mcp_manifest_scanner", "citation_integrity",
                "embedding_integrity", "tool_output_injection", "retrieval_chunk_injection",
                "memory_write_poisoning", "document_metadata_leakage", "numerical_consistency"} ->
            c.block_threshold \in Int
      [] r = "jailbreak" -> c.threshold \in Int /\ c.suspicious \in Nat
      [] r \in {"toxicity", "excessive_agency"} -> c.block_threshold \in Int /\ c.warn_threshold \in Int
      [] r = "human_approval_gate" -> c.now \in Int /\ c.max_age \in Int
      [] r = "hallucination" ->
            /\ c.passages \in Nat /\ c.top_k \in Int
            /\ {c.min_entailment, c.max_contradiction, c.min_reverse, c.grounding_threshold} \subseteq Int
      [] r = "retrieval_jamming" -> c.refusal_threshold \in Int
      [] r = "corpus_poisoning_monitor" ->
            c.authority_threshold \in Int /\ c.max_question_repeats \in Int
      [] r = "system_prompt_leakage" ->
            c.match_threshold \in Int /\ IsFiniteSet(c.fingerprints) /\ IsFiniteSet(c.schemas)
      [] r = "sentiment" -> "" \notin c.blocked_tones
      [] r = "sensitive_business_data" ->
            /\ c.severity \in Severity /\ c.block_threshold \in Int
            /\ c.text = Original /\ c.token = Token
      [] OTHER -> TRUE

\* A claim is scored against every passage, and a phrase is in the list that
\* is searched for.
ReadingOK(r, c, f) ==
    CASE r = "hallucination" ->
            \A score \in {f.entail, f.contra, f.reverse} : Scores(c, score)
      [] r = "sensitive_business_data" ->
            /\ c.order \in Seq(Range(c.order))
            /\ f.kind = "match" => f.phrase \in Range(c.order)
      [] OTHER -> TRUE

ASSUME RulesAssumption ==
    /\ TextLen \in Nat
    /\ DOMAIN Settings \subseteq Detectors
    /\ \A r \in DOMAIN Settings :
          /\ \A f \in Facts[r] : FactOK(r, f)
          /\ \A c \in Settings[r] : SettingOK(r, c) /\ \A f \in Facts[r] : ReadingOK(r, c, f)

-----------------------------------------------------------------------------

\* A schema is the function its keywords make.
schema_of(t) == [k \in {f[1] : f \in t} |-> (CHOOSE f \in t : f[1] = k)[2]]

Detect(r, c, t) ==
    CASE r = "secrets" -> secrets_detect(c, t)
      [] r = "pii" -> pii_detect(c, t)
      [] r = "structure" -> structure_detect(c, c.reply, schema_of(t))
      [] r = "jailbreak" -> jailbreak_detect(c, t)
      [] r = "toxicity" -> toxicity_detect(c, t)
      [] r = "topic" -> topic_detect(c, t)
      [] r = "competitor" -> competitor_detect(c, t)
      [] r = "compliance" -> compliance_detect(c, t)
      [] r = "exfiltration" -> exfiltration_detect(c, t)
      [] r = "malicious_url" -> malicious_url_detect(c, t)
      [] r = "language" -> language_detect(c, t)
      [] r = "tools" -> tools_detect(c, t)
      [] r = "excessive_agency" -> excessive_agency_detect(c, t)
      [] r = "human_approval_gate" -> human_approval_gate_detect(c, t)
      [] r = "tool_permission_audit" -> tool_permission_audit_detect(c, t)
      [] r = "mcp_manifest_scanner" -> mcp_manifest_scanner_detect(c, t)
      [] r = "semantic_cache_integrity" -> semantic_cache_integrity_detect(c, t)
      [] r = "tenant_scope_assertion" -> tenant_scope_assertion_detect(c, t)
      [] r = "hallucination" -> hallucination_detect(c, t)
      [] r = "citation_integrity" -> citation_integrity_detect(c, t)
      [] r = "retrieval_jamming" -> retrieval_jamming_detect(c, t)
      [] r = "embedding_integrity" -> embedding_integrity_detect(c, t)
      [] r = "corpus_poisoning_monitor" -> corpus_poisoning_monitor_detect(c, t)
      [] r = "reasoning_trace_disclosure" -> reasoning_trace_disclosure_detect(c, t)
      [] r = "output_control_char_sanitizer" -> output_control_char_sanitizer_detect(c, t)
      [] r = "tool_output_injection" -> tool_output_injection_detect(c, t)
      [] r = "retrieval_chunk_injection" -> retrieval_chunk_injection_detect(c, t)
      [] r = "memory_write_poisoning" -> memory_write_poisoning_detect(c, t)
      [] r = "multimodal_injection" -> multimodal_injection_detect(c, t)
      [] r = "system_prompt_leakage" -> system_prompt_leakage_detect(c, t)
      [] r = "document_metadata_leakage" -> document_metadata_leakage_detect(c, t)
      [] r = "sensitive_business_data" -> sensitive_business_data_detect(c, t)
      [] r = "code_safety" -> code_safety_detect(c, t)
      [] r = "bias" -> bias_detect(c, t)
      [] r = "copyright" -> copyright_detect(c, t)
      [] r = "gibberish" -> gibberish_detect(c, t)
      [] r = "sentiment" -> sentiment_detect(c, t)
      [] r = "numerical_consistency" -> numerical_consistency_detect(c, t)

\* Two facts of one slot cannot both be in a text: a field has one value, and
\* only the first mention of a name is looked at.
Slot(r, f) ==
    CASE r = "structure" -> <<"keyword", f[1]>>
      [] r = "competitor" -> <<"mention", f.competitor, f.how>>
      [] r = "language" /\ f.kind = "match" -> <<"script", f.script>>
      [] r = "tenant_scope_assertion" /\ f.kind = "match" -> <<"chunk", f.chunk>>
      [] r = "multimodal_injection" -> <<"attachment", f.key, f.place>>
      [] r \in {"human_approval_gate", "semantic_cache_integrity", "tenant_scope_assertion",
                "gibberish"}
            /\ f.kind # "match" -> <<"field", f.kind>>
      [] OTHER -> <<"fact", f>>

RulesInit ==
    /\ rule \in DOMAIN Settings
    /\ setting \in Settings[rule]
    /\ text = {}

\* The text has one more thing in it.
Grow(f) ==
    /\ \A g \in text : Slot(rule, g) # Slot(rule, f)
    /\ text' = text \cup {f}
    /\ UNCHANGED <<rule, setting>>

RulesNext == \E f \in Facts[rule] : Grow(f)

RulesSpec == RulesInit /\ [][RulesNext]_rule_vars

-----------------------------------------------------------------------------
\* A fact that only ever speaks against a text.  Not so: the signs of a
\* harmless context; a mention of a topic or a competitor in one; the keywords
\* that exempt a property from additionalProperties; a claim that is not
\* ungrounded, since the risk is a share of the claims; an action that makes
\* the plan the one a signature covers; the metadata that vouch for something;
\* a block of code, which hides what is outside it; a list of attachments that
\* is read instead of another; a word of the lexicon, since the sentiment is a
\* mean.  Of the language nothing is harmful as such.
Harmful(r, c, f) ==
    CASE r \in {"secrets", "pii", "output_control_char_sanitizer"} -> TRUE
      [] r = "language" -> FALSE
      [] r = "structure" -> f[1] \notin {"properties", "patternProperties"}
      [] r \in {"jailbreak", "retrieval_jamming"} ->
            f.kind = "match" \/ f.name \in {"dangerous", "few words"}
      [] r = "topic" -> /\ topic_mode(c) = "blocklist"
                        /\ _detect_topic_context(f.cues) \in {"advisory", "direct"}
      [] r = "competitor" ->
            _categorize_competitor_mention(f)
                \in {"negative", "comparison", "neutral"} \ c.allowlist_contexts
      [] r = "compliance" ->
            f.kind = "match" /\ f.what \in {"topic", "prohibited", "general", "claim"}
      [] r = "semantic_cache_integrity" ->
            \/ f \in {[kind |-> "hit", value |-> TRUE], [kind |-> "partitioned", value |-> FALSE]}
            \/ f.kind = "tenant" /\ c.tenant # ""  /\ f.value # c.tenant
            \/ f.kind = "overlap" /\ f.value < c.min_token_overlap
            \/ f.kind = "age" /\ f.value > c.max_age
      [] r = "hallucination" -> claim_verdict(c, f) = "ungrounded"
      [] r = "human_approval_gate" -> f.kind = "match" /\ ~c.require_signed_approval
      [] r = "reasoning_trace_disclosure" -> f.name \notin {"scanned", "trace redacted"}
      [] r = "code_safety" -> f.kind = "match" /\ f.where = "prose"
      [] r = "multimodal_injection" -> f.key = "content_parts"
      [] r = "sentiment" -> f.kind = "match" /\ f.tone # ""
      [] r = "gibberish" -> ~(gibberish_hits(c, [NormalText EXCEPT ![f.kind] = f.value])
                                    \subseteq gibberish_hits(c, NormalText))
      [] OTHER -> f.kind = "match"

\* A full address takes the place of every simple one it overlaps: of two hits
\* it may make one (pii.detect).
Absorbs(r, f, t) ==
    /\ r = "pii" /\ f.type = "address"
    /\ \E m, n \in t : /\ m # n /\ m.type = "address_simple" /\ n.type = "address_simple"
                       /\ inside_address(f, m) /\ inside_address(f, n)

\* No harmful thing in a text hides another: adding one never turns a decision
\* into a weaker one, and never lowers the risk but where a full address takes
\* the place of two simple ones.  It could go wrong wherever a detector looks
\* only at the first match, filters hits by what else is there, divides by a
\* count or caps a sum.
EvidenceMonotone ==
    [][\A f \in text' \ text :
          Harmful(rule, setting, f) =>
            LET before == Detect(rule, setting, text)
                after == Detect(rule, setting, text')
            IN  /\ DECISION_PRECEDENCE[after.decision] >= DECISION_PRECEDENCE[before.decision]
                /\ after.risk >= before.risk \/ Absorbs(rule, f, text)]_rule_vars

-----------------------------------------------------------------------------
\* The spans a redacting detector rewrites.
Redacted(r, c, t) ==
    IF r = "secrets" THEN secret_spans(c, t)
    ELSE IF r = "sensitive_business_data"
    THEN {replaced_span(m) : m \in {n \in active_phrases(c, t) : n.from < n.to}}
    ELSE {m \in t : /\ _is_type_enabled(c, m) /\ is_pii(c, t, m)
                    /\ _get_type_action(c, m) = "REDACT"}

Disjoint(m, n) == m.end <= n.start \/ n.end <= m.start

Within(m, n) == n.start <= m.start /\ m.end <= n.end

\* The cells of m that its partial redaction shows.
Shown(c, m) ==
    (m.start + 1 .. m.start + shown_head(c, m)) \cup (m.end - shown_tail(c, m) + 1 .. m.end)

\* What the partial redaction of m, or of a span around it, shows.
Ends(r, c, m, S) ==
    IF r = "pii" THEN UNION {Shown(c, n) : n \in {k \in S : Within(m, k)}} ELSE {}

redaction(r, c, t) ==
    CASE r = "secrets" -> secrets_detect(c, t)
      [] r = "pii" -> pii_detect(c, t)
      [] r = "sensitive_business_data" -> sensitive_business_data_detect(c, t)

\* No other span touches m; of personal data, none straddles it; and a phrase
\* is not one that is looked for without the blanks it is replaced with.
Alone(r, m, S) ==
    /\ \A n \in S \ {m} : Disjoint(m, n) \/ (r = "pii" /\ (Within(m, n) \/ Within(n, m)))
    /\ r = "sensitive_business_data" => m.blanks = {}

\* A redaction takes out what was found and nothing else, although spans nest
\* and the offsets are those of the text before the first replacement
\* (secrets._redact_text, pii._redact_pii), or the text is searched again
\* after each one (sensitive_business_data.detect): of a span that is alone
\* nothing is left but what a partial redaction shows of it, or of a span it
\* nests in (the user name in the domain of an e-mail address), and the text
\* outside every span is there, in order, unless two secrets overlap.
RedactionComplete ==
    rule \in {"secrets", "pii", "sensitive_business_data"} =>
        LET result == redaction(rule, setting, text)
            spans == Redacted(rule, setting, text)
            left == result.sanitized_text
            outside == (1 .. TextLen) \ UNION {Cells(m) : m \in spans}
        IN  result.decision = "REDACT" =>
                /\ \A m \in spans :
                      Alone(rule, m, spans)
                        => Cells(m) \cap Range(left) \subseteq Ends(rule, setting, m, spans)
                /\ (rule # "secrets" \/ \A m, n \in spans : m = n \/ Disjoint(m, n))
                      => /\ outside \subseteq Range(left)
                         /\ \A i, j \in DOMAIN left :
                               i < j /\ {left[i], left[j]} \subseteq outside => left[i] < left[j]

\* With signed approvals required, a gated action is let through only on a
\* token issued for exactly the actions of this text, for this approver, and
\* not too long ago: a plan that grows after it was approved is stopped again
\* (human_approval_gate.detect).
ApprovalBound ==
    (/\ rule = "human_approval_gate"
     /\ setting.enabled /\ setting.require_signed_approval
     /\ \E m \in Matches(text) :
           ~m.too_deep /\ m.category \in setting.gated_categories \cap _COMPILED_ACTIONS
     /\ human_approval_gate_detect(setting, text).decision = "ALLOW")
    => \E token \in Evidence(text, "token") :
          /\ token.action = Matches(text)
          /\ Evidence(text, "issued_at") = {token.issued_at}
          /\ Evidence(text, "approver") \subseteq {token.approver}
          /\ setting.max_age > 0 => setting.now - token.issued_at <= setting.max_age

\* A claim that some passage supports is never reported as ungrounded, although
\* only the passages that share most words with it are scored at first
\* (hallucination._nli_claim_scores, _passage_shortlist).
SupportedClaimStands ==
    (rule = "hallucination" /\ setting.nli = "works") =>
        \A m \in text :
            (\E p \in Passages(setting) : m.entail[p] >= setting.min_entailment)
                => claim_verdict(setting, m) # "ungrounded"

=============================================================================
