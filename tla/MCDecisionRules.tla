-------------------------- MODULE MCDecisionRules --------------------------
(***************************************************************************)
(* The instance: for each detector a few configurations and a handful of   *)
(* facts, chosen so that spans nest, straddle and repeat, contexts excuse, *)
(* thresholds lie between two sums, and an approval fits another action.   *)
(***************************************************************************)
EXTENDS DecisionRules

\* The recursion of the schema validator.
MCvalidate_nested(data, schema) == _validate_schema(data, schema)

Span(type, start, end, note) == [type |-> type, start |-> start, end |-> end, note |-> note]

Context(name) == [kind |-> "context", name |-> name]

Field(kind, value) == [kind |-> kind, value |-> value]

secrets_settings ==
    {secrets_config(TRUE, action, exceptions, TRUE) :
        action \in {"BLOCK", "REDACT"}, exceptions \in BOOLEAN}

Secret(type, rank, start, end, note) == Span(type, start, end, note) @@ [rank |-> rank]

secrets_facts ==
    {Secret("openai_key", 0, 0, 2, ""), Secret("anthropic_key", 1, 0, 2, ""),
     Secret("github_oauth", 13, 2, 3, ""), Secret("jwt", 44, 3, 5, ""),
     Secret("jwt", 44, 4, 6, "not three parts"), Secret("azure_key", 2, 1, 3, "low entropy"),
     Secret("base64", 60, 5, 6, "key prefix"), Secret("npm_token", 16, 4, 5, "exception")}

pii_settings ==
    {pii_config(TRUE, action, strategy, TRUE, TRUE,
                [ssn |-> [enabled |-> TRUE, action |-> ssn],
                 address |-> [enabled |-> TRUE, action |-> ssn],
                 in_pan |-> [enabled |-> TRUE, action |-> "REDACT"]]) :
        action \in {"REDACT", "WARN"}, strategy \in {"full", "partial"}, ssn \in {"DENY", "mask"}}

Personal(type, start, end, note, head, tail) ==
    Span(type, start, end, note) @@ [head |-> head, tail |-> tail]

\* A user name in the domain an e-mail address shows, a telephone number in what
\* straddles it, two simple addresses in one that may grow into a full one.
pii_facts ==
    {Personal("email", 0, 3, "", 1, 2), Personal("url", 0, 3, "", 0, 0),
     Personal("username", 1, 2, "", 0, 0), Personal("ssn", 2, 5, "", 0, 1),
     Personal("phone", 3, 5, "", 0, 1), Personal("in_pan", 4, 6, "checksum", 0, 0),
     Personal("ipv4", 5, 6, "private", 0, 0), Personal("custom", 4, 5, "", 0, 0),
     Personal("address_simple", 0, 1, "", 0, 0), Personal("address_simple", 5, 6, "", 0, 0),
     Personal("address", 0, 6, "", 0, 0)}

Text(n) == [type |-> "str", len |-> n, matches |-> {"email"}]

Number(n) == [type |-> "int", number |-> n]

structure_settings ==
    {[enabled |-> TRUE, action |-> action, format |-> format, schema |-> TRUE,
      schema_name |-> FALSE, xml_root |-> "order", reply |-> reply] :
        action \in {"BLOCK", "WARN"}, format \in {"", "xml"},
        reply \in {[parsed |-> [type |-> "unparsable"], root |-> "order"],
                   [parsed |-> [type |-> "dict", fields |-> [id |-> Number(3), mail |-> Text(2)]],
                    root |-> "unparsable"],
                   [parsed |-> [type |-> "list", items |-> <<Number(3), Number(3), Number(4)>>],
                    root |-> "reply"]}}

structure_facts ==
    {<<"type", "object">>, <<"type", "array">>, <<"required", {"id", "name"}>>,
     <<"properties", [id |-> [x \in {"minimum"} |-> 5]]>>,
     <<"patternProperties", {[keys |-> {"mail"}, schema |-> [x \in {"maxLength"} |-> 1]]}>>,
     <<"additionalProperties", [kind |-> "none"]>>, <<"minProperties", 2>>,
     <<"dependencies", [id |-> [keys |-> {"name"}, schema |-> [x \in {} |-> 0]]]>>,
     <<"uniqueItems", TRUE>>, <<"eachItem", [x \in {"maximum"} |-> 3]>>,
     <<"contains", [x \in {"const"} |-> Number(4)]>>,
     <<"anyOf", {[x \in {"minItems"} |-> 4], [x \in {"maxProperties"} |-> 1]}>>,
     <<"not", [x \in {"type"} |-> "array"]>>}

jailbreak_settings ==
    {[enabled |-> TRUE, suspicious |-> suspicious, threshold |-> 60, detect_encoding |-> encoding] :
        suspicious \in {0, 2}, encoding \in BOOLEAN}

Jailbreak(rule_id, class, severity, decoded) ==
    [kind |-> "match", rule |-> rule_id, class |-> class, severity |-> severity, decoded |-> decoded]

jailbreak_facts ==
    {Jailbreak("role-play_attempt", "roleplay", "high", FALSE),
     Jailbreak("persistent_persona_override", "roleplay", "medium", FALSE),
     Jailbreak("framing", "", "medium", FALSE),
     Jailbreak("harm-person_statement", "harm_statement", "high", FALSE),
     Jailbreak("harm-person_statement", "harm_statement", "high", TRUE),
     Jailbreak("kill_a_person_intent", "harm_statement", "high", FALSE),
     Jailbreak("", "readable", "", TRUE)}
    \cup {Context(x) : x \in {"game", "definitional", "historical", "dangerous"}}

toxicity_settings ==
    {toxicity_config(TRUE, action, evasion, TRUE, 40, 20,
                     [drug_alcohol |-> [enabled |-> TRUE, force_block |-> FALSE]]) :
        action \in {"BLOCK", "WARN"}, evasion \in BOOLEAN}

Toxic(term, category, severity, obfuscated, sense) ==
    [kind |-> "match", term |-> term, category |-> category, severity |-> severity,
     obfuscated |-> obfuscated, sense |-> sense]

toxicity_facts ==
    {Toxic("insult", "", "low", FALSE, ""), Toxic("slur", "", "medium", TRUE, ""),
     Toxic("drug", "drug_alcohol", "medium", FALSE, "educational"),
     Toxic("threat", "threats", "high", FALSE, "negated"),
     Toxic("hate", "hate_speech", "high", FALSE, "reported"),
     Toxic("sex", "explicit_sexual", "high", FALSE, "with precautions")}
    \cup {Context(x) : x \in {"definitional", "fiction"}}

topic_settings ==
    {[enabled |-> TRUE, allowed_topics |-> allowed, blocked_topics |-> {"legal", "hate speech"},
      context_aware |-> aware, block_threshold |-> 60] :
        allowed \in {{}, {"weather"}}, aware \in BOOLEAN}

Topic(topic, phrase, broad, cues) ==
    [kind |-> "match", topic |-> topic, phrase |-> phrase, broad |-> broad, cues |-> cues]

topic_facts ==
    {Topic("legal", 1, FALSE, {"fiction"}), Topic("legal", 2, FALSE, {"request"}),
     Topic("legal", 3, TRUE, {"advice"}), Topic("legal", 4, FALSE, {"information"}),
     Topic("hate speech", 1, FALSE, {"fiction"}), Topic("weather", 1, FALSE, {})}

competitor_settings ==
    {[enabled |-> TRUE, action |-> action, competitors |-> {"A", "B"}, fuzzy_matching |-> fuzzy,
      allowlist_contexts |-> {"technical", "partnership"}] :
        action \in {"BLOCK", "RESTRICT", "WARN"}, fuzzy \in BOOLEAN}

Mention(x, how, cues) == [kind |-> "match", competitor |-> x, how |-> how, cues |-> cues]

competitor_facts ==
    {Mention("A", how, cues) : how \in {"exact", "alias"}, cues \in {{}, {"technical"}, {"negative"}}}
    \cup {Mention("B", "fuzzy", {}), Mention("B", "exact", {"comparison", "negative"})}

compliance_settings ==
    {[enabled |-> TRUE, action |-> action, framework |-> framework, custom_disclaimer |-> TRUE,
      ai_disclosure |-> disclosure] :
        action \in {"BLOCK", "APPEND", "WARN"}, framework \in {"hipaa", "legal"},
        disclosure \in BOOLEAN}

compliance_facts ==
    {[kind |-> "match", industry |-> "healthcare", what |-> w] :
        w \in {"topic", "prohibited", "disclaimer"}}
    \cup {[kind |-> "match", industry |-> "", what |-> w] : w \in {"general", "claim", "ai marker"}}
    \cup {[kind |-> "match", industry |-> "custom", what |-> "topic"], Context("short")}

exfiltration_settings == {[enabled |-> TRUE, block_threshold |-> n] : n \in {50, 60}}

exfiltration_facts ==
    {[kind |-> "match", class |-> x] : x \in {"system_prompt", "capability", "policy"}}

malicious_url_settings ==
    {[enabled |-> TRUE, action |-> action, check_data_uris |-> on, block_ip_urls |-> on,
      block_shorteners |-> on] : action \in {"BLOCK", "REDACT", "WARN"}, on \in BOOLEAN}

Url(value, data, host, traits) ==
    [kind |-> "match", value |-> value, data |-> data, host |-> host, traits |-> traits]

malicious_url_facts ==
    {Url(1, TRUE, "none", {}), Url(2, FALSE, "allowed", {"ip"}), Url(3, FALSE, "blocked", {}),
     Url(4, FALSE, "other", {"ip", "suspicious_tld"}), Url(5, FALSE, "other", {"shortener", "homoglyph"})}

language_settings ==
    {[enabled |-> TRUE, action |-> "BLOCK", profile |-> [lang |-> "en", confidence |-> confidence],
      min_confidence |-> 30, blocked_languages |-> {"ru"}, allowed_languages |-> allowed,
      detect_mixed |-> mix] : confidence \in {20, 60}, allowed \in {{"any"}, {"en"}}, mix \in BOOLEAN}

language_facts ==
    {[kind |-> "match", script |-> s, share |-> n] : s \in {"latin", "cyrillic", "greek"}, n \in {25, 40}}
    \cup {Context("short")}

tools_settings ==
    {[enabled |-> TRUE, tool |-> tool, denied_tools |-> {"rm"}, allowed_tools |-> {"search"},
      schemas |-> TRUE, additional |-> additional, domain_allowlist |-> {"a.org"}] :
        tool \in {{"rm"}, {"search"}, {"send"}, {"please", "send"}}, additional \in BOOLEAN}

Argument(what, domain) == [kind |-> "match", what |-> what, domain |-> domain]

tools_facts ==
    {Argument(w, "") : w \in {"missing", "unknown", "exfil", "oversized"}}
    \cup {Argument("url", d) : d \in {"a.org", "b.org"}}

agency_settings ==
    {[enabled |-> TRUE, action |-> action, high_risk_actions |-> on, block_threshold |-> 60,
      warn_threshold |-> 40] : action \in {"BLOCK", "WARN"}, on \in BOOLEAN}

Doing(category, too_deep) == [kind |-> "match", category |-> category, too_deep |-> too_deep]

agency_facts ==
    {Doing("destructive_action", FALSE), Doing("mutating_action", FALSE),
     Doing("broad_scope", FALSE), Doing("org_high_risk_action", FALSE), Doing("code_execution", TRUE)}

approval_settings ==
    {[enabled |-> TRUE, action |-> "BLOCK",
      gated_categories |-> {"destructive_action", "mutating_action", "broad_scope"},
      require_signed_approval |-> signed, require_approver_identity |-> TRUE,
      signing_secret |-> secret, max_age |-> max_age, now |-> 5] :
        signed \in BOOLEAN, secret \in BOOLEAN, max_age \in {0, 2}}

Deletion == Doing("destructive_action", FALSE)

Update == Doing("mutating_action", FALSE)

approval_facts ==
    {Deletion, Update, Doing("broad_scope", FALSE), Field("flag", TRUE), Field("approver", "ann"), Field("approver", "bob"),
     Field("issued_at", 1), Field("issued_at", 4)}
    \cup {Field("token", issue_approval_token(a, n, x)) :
            a \in {{Deletion}, {Deletion, Update}}, n \in {1, 4}, x \in {"", "ann"}}

permission_settings ==
    {[enabled |-> TRUE, action |-> action, allowed_tools |-> allowed, flag_open_ended |-> TRUE,
      flag_destructive_bundling |-> on, flag_wildcard_scopes |-> on,
      flag_unconstrained_params |-> TRUE] :
        action \in {"BLOCK", "WARN"}, allowed \in {{}, {"a"}}, on \in BOOLEAN}

permission_facts ==
    {[kind |-> "match", tool |-> tool, trait |-> x] :
        tool \in {"a", "b"}, x \in {"open_ended", "destructive", "read_only", "wildcard_scope"}}
    \cup {Context("not json")}

manifest_settings ==
    {[enabled |-> TRUE, action |-> action, allowed_domains |-> allowed, block_threshold |-> 60,
      dangerous_permissions |-> {"shell"}] :
        action \in {"BLOCK", "WARN"}, allowed \in {{}, {"a.org"}}}

Entry(where, class, name, numbers, too_deep) ==
    [kind |-> "match", where |-> where, class |-> class, host |-> [name |-> name, numbers |-> numbers],
     too_deep |-> too_deep, past_budget |-> FALSE]

manifest_facts ==
    {Entry("text", "overreach", "", <<>>, FALSE), Entry("text", "injection", "", <<>>, TRUE),
     Entry("perm", "shell", "", <<>>, FALSE), Entry("egress", "", "b.org", <<>>, FALSE),
     Entry("egress", "", "", <<169, 254, 43518>>, FALSE), Entry("egress", "", "", <<8, 8, 8, 8>>, FALSE),
     Entry("url", "", "localhost", <<>>, FALSE), Entry("url", "", "", <<127, 1>>, FALSE),
     Entry("url", "", "", <<172, 40, 300, 1>>, FALSE)}

cache_settings ==
    {[enabled |-> TRUE, action |-> "WARN", tenant |-> tenant, require_partitioning |-> on,
      min_similarity |-> 80, min_token_overlap |-> 20, max_age |-> max_age, block_cross_tenant |-> on] :
        tenant \in {"", "acme"}, on \in BOOLEAN, max_age \in {0, 9}}

cache_facts ==
    {Field("hit", TRUE), Field("hit", FALSE), Field("tenant", "acme"), Field("tenant", "other"),
     Field("partitioned", FALSE), Field("similarity", 90), Field("similarity", 70),
     Field("distance", 30), Field("overlap", 10), Field("age", 10)}

tenant_settings ==
    {[enabled |-> TRUE, action |-> "WARN", tenant |-> tenant, require_tenant_tags |-> tags,
      require_query_scoping |-> TRUE, block_cross_tenant |-> block] :
        tenant \in {"", "acme"}, tags \in BOOLEAN, block \in BOOLEAN}

tenant_facts ==
    {[kind |-> "match", chunk |-> i, owner |-> o] : i \in 1 .. 2, o \in {"", "acme", "other"}}
    \cup {Field("scoped", TRUE), Field("scoped", FALSE)}

claim_settings ==
    {[enabled |-> TRUE, action |-> "BLOCK", method |-> method, embed_model |-> TRUE, nli |-> nli,
      passages |-> 3, top_k |-> top_k, min_claim_words |-> 3, min_entailment |-> 50,
      max_contradiction |-> 30, grounding_threshold |-> 50, reverse_rescue |-> rescue,
      min_reverse |-> 50, verifier |-> verifier] :
        method \in {"token_overlap", "embedding"}, nli \in {"works", "fails"},
        top_k \in {0, 1, 2}, rescue \in BOOLEAN, verifier \in BOOLEAN}

Claim(words, overlap, entail, contra, reverse, labelled, verified) ==
    [kind |-> "match", words |-> words, overlap |-> overlap, combined |-> Max(Range(overlap)),
     similar |-> entail, entail |-> entail, contra |-> contra, reverse |-> reverse,
     labelled |-> labelled, verified |-> verified]

\* Supported by the passage it shares least words with; contradicted; rescued
\* the other way round; cleared by the second scorer; weak; too short.
claim_facts ==
    {Claim(4, <<80, 60, 10>>, <<10, 20, 90>>, <<40, 0, 0>>, <<0, 0, 0>>, TRUE, {}),
     Claim(4, <<70, 20, 0>>, <<10, 10, 10>>, <<60, 0, 0>>, <<90, 0, 0>>, TRUE, {}),
     Claim(4, <<20, 10, 0>>, <<20, 10, 0>>, <<0, 0, 0>>, <<80, 0, 0>>, FALSE, {}),
     Claim(4, <<20, 30, 0>>, <<0, 10, 0>>, <<0, 50, 0>>, <<0, 0, 0>>, TRUE, {2}),
     Claim(4, <<40, 40, 0>>, <<40, 40, 0>>, <<0, 0, 10>>, <<0, 0, 0>>, TRUE, {}),
     Claim(2, <<0, 0, 0>>, <<0, 0, 0>>, <<0, 0, 0>>, <<0, 0, 0>>, FALSE, {})}

citation_settings ==
    {[enabled |-> TRUE, action |-> action, urls |-> urls, ids |-> urls, blob |-> urls,
      num_sources |-> Cardinality(urls), require_sources |-> required, min_quote_overlap |-> 60,
      nli |-> nli, min_entailment |-> 50, block_threshold |-> 60] :
        action \in {"BLOCK", "WARN"}, urls \in {{}, {"u"}}, required \in BOOLEAN,
        nli \in {"works", "fails"}}

Citation(what, value, short, overlap, entail) ==
    [kind |-> "match", what |-> what, value |-> value, number |-> 0, short |-> short,
     overlap |-> overlap, entail |-> entail]

citation_facts ==
    {Citation("url", "u", FALSE, 0, 0), Citation("url", "v", FALSE, 0, 0),
     [Citation("number", "", TRUE, 0, 0) EXCEPT !.number = 1],
     [Citation("number", "", TRUE, 0, 0) EXCEPT !.number = 2],
     Citation("id", "x", TRUE, 0, 0), Citation("quote", "q", FALSE, 10, 60),
     Citation("quote", "r", FALSE, 40, 0)}

jamming_settings ==
    {[enabled |-> TRUE, action |-> action, refusal_threshold |-> 2, min_chunks |-> 3,
      dominance_ratio |-> 3, higher_is_better |-> higher, scores |-> scores] :
        action \in {"BLOCK", "WARN"}, higher \in {TRUE}, scores \in {<<9, 3, 2>>, <<9, 4, 4>>, <<9>>}}
    \cup {[enabled |-> TRUE, action |-> "WARN", refusal_threshold |-> 1, min_chunks |-> 3,
           dominance_ratio |-> 3, higher_is_better |-> FALSE, scores |-> <<0, 1, 2>>]}

jamming_facts ==
    {[kind |-> "match", what |-> "refusal", phrase |-> i] : i \in 1 .. 3}
    \cup {[kind |-> "match", what |-> "suppression", phrase |-> 1], Context("few words")}

embedding_settings ==
    {[enabled |-> TRUE, action |-> action, block_threshold |-> 50] : action \in {"BLOCK", "WARN"}}

embedding_facts == {[kind |-> "match", signal |-> x] : x \in DOMAIN embedding_signals}

corpus_settings ==
    {[enabled |-> TRUE, action |-> "BLOCK", authority_threshold |-> 1, max_question_repeats |-> 2,
      flag_untrusted_into_trusted |-> on, max_writes |-> n, count |-> 3] :
        on \in BOOLEAN, n \in {0, 2, 3}}

corpus_facts ==
    {[kind |-> "match", what |-> w, phrase |-> 1] :
        w \in {"authority", "question", "untrusted source", "trusted corpus"}}
    \cup {[kind |-> "match", what |-> "question", phrase |-> 2]}

trace_settings ==
    {[enabled |-> TRUE, action |-> action, require_trace_scanned |-> on, flag_logprobs |-> TRUE,
      flag_tool_arguments |-> on, gated_envs |-> {"prod"}, env |-> env] :
        action \in {"BLOCK", "WARN"}, on \in BOOLEAN, env \in {"", "prod", "test"}}

trace_facts ==
    {Context(x) : x \in {"trace", "scanned", "answer redacted", "trace redacted", "logprobs",
                         "top_logprobs", "tool arguments"}}

control_settings ==
    {[enabled |-> TRUE, action |-> action, allow_color_codes |-> on, text |-> Original, token |-> Token] :
        action \in {"BLOCK", "REDACT", "WARN"}, on \in BOOLEAN}

control_facts ==
    {[kind |-> "match", class |-> x, at |-> 1] : x \in {"osc52", "osc", "screen"}}
    \cup {[kind |-> "match", class |-> x, at |-> 2] : x \in {"lone_cr", "colour", "csi", "control"}}

Marker(bank, name, disguised) ==
    [kind |-> "match", bank |-> bank, name |-> name, disguised |-> disguised]

marker_settings ==
    {[enabled |-> TRUE, action |-> action, block_threshold |-> 50] : action \in {"BLOCK", "WARN"}}

marker_facts ==
    {Marker("injection", "instruction_override", TRUE), Marker("injection", "role_reassignment", FALSE),
     Marker("injection", "embedded_attention_marker", FALSE)}

tool_output_facts ==
    marker_facts \cup {Marker("exfiltration", "capability", x) : x \in BOOLEAN}

chunk_facts ==
    marker_facts \cup {Marker("lure", "tool_invocation_lure", TRUE), Marker("lure", "url_fetch_lure", FALSE)}

memory_facts ==
    marker_facts \cup {Marker("future", "persisted_directive", FALSE),
                       Marker("future", "self_persisting_rule", FALSE)}

media_settings ==
    {[enabled |-> TRUE, action |-> action, flag_unextracted_media |-> on, match_threshold |-> n] :
        action \in {"BLOCK", "WARN"}, on \in BOOLEAN, n \in 1 .. 2}

Attachment(key, place, type, markers) ==
    [kind |-> "match", key |-> key, place |-> place, type |-> type, markers |-> markers]

media_facts ==
    {Attachment("attachments", 1, "text", {}), Attachment("attachments", 2, "image", {"none"}),
     Attachment("content_parts", 1, "image", {"role_switch_now"}),
     Attachment("content_parts", 2, "audio", {"role_switch_now", "instruction_override"}),
     Attachment("content_parts", 3, "video", {"none"}),
     Attachment("content_parts", 33, "image", {"instruction_override", "role_reassignment"})}

Fingerprint(kind, hashes) == [kind |-> kind, hashes |-> hashes]

prompt_settings ==
    {[enabled |-> TRUE, key |-> key, action |-> action, match_threshold |-> n, check_tool_schemas |-> on,
      fingerprints |-> {Fingerprint("system_prompt", {1, 2, 3}), Fingerprint("policy_text", {3, 4})},
      schemas |-> {Fingerprint("tool_schema_live", {4, 5})}] :
        key \in BOOLEAN, action \in {"BLOCK", "WARN"}, n \in 1 .. 2, on \in BOOLEAN}

prompt_facts == {[kind |-> "match", shingle |-> i] : i \in 1 .. 5}

document_facts == {[kind |-> "match", artifact |-> x] : x \in DOMAIN document_artifacts}

business_settings ==
    {[enabled |-> TRUE, action |-> action, block_threshold |-> 60, severity |-> severity, order |-> order,
      categories |-> [roadmap |-> {}, pricing |-> {"discount"}], text |-> Original, token |-> Token] :
        action \in {"BLOCK", "REDACT", "WARN"}, severity \in {"medium", "high"},
        order \in {<<"list", "discount", "term sheet", " deal", "sheet">>,
                   <<"sheet", " deal", "term sheet", "discount", "list">>}}

Phrase(category, phrase, start, end, from, to) ==
    [kind |-> "match", category |-> category, phrase |-> phrase, start |-> start, end |-> end,
     from |-> from, to |-> to]

\* One phrase within another, one found twice, one of two categories, one of a
\* category that is off; one configured with a blank in front, which is there at
\* one of its two places.
business_facts ==
    {Phrase("mergers_acquisitions", "term sheet", 0, 2, 0, 2),
     Phrase("customer_list", "sheet", 1, 2, 1, 2),
     Phrase("pricing", "discount", 2, 3, 2, 3), Phrase("pricing", "discount", 4, 5, 4, 5),
     Phrase("customer_list", "discount", 2, 3, 2, 3), Phrase("roadmap", "list", 3, 4, 3, 4),
     Phrase("mergers_acquisitions", " deal", 6, 7, 5, 7),
     Phrase("mergers_acquisitions", " deal", 7, 8, 0, 0), Context("approved")}

code_settings ==
    {[enabled |-> TRUE, action |-> "BLOCK", languages |-> languages, vuln_classes |-> classes,
      block_unsafe_functions |-> on] :
        languages \in {{"python", "sql", "shell"}, {"python", "go"}},
        classes \in {{"all"}, {"sql_injection"}}, on \in BOOLEAN}

Code(where, hint, looks, rule_id, language, class, severity) ==
    [kind |-> "match", where |-> where, hint |-> hint, looks |-> looks, rule |-> rule_id,
     language |-> language, class |-> class, severity |-> severity]

code_facts ==
    {Code("fenced", "go", "unknown", "union", "sql", "sql_injection", "high"),
     Code("fenced", "", "python", "eval", "python", "command_injection", "high"),
     Code("indented", "", "unknown", "chmod", "shell", "insecure_permissions", "medium"),
     Code("prose", "", "unknown", "comment", "sql", "sql_injection", "low"),
     Code("prose", "", "unknown", "banned", "python", "custom_banned_function", "high"),
     Code("prose", "", "unknown", "xss", "javascript", "xss", "high"), Context("fenced")}

bias_settings ==
    {[enabled |-> TRUE, action |-> "WARN", sensitivity |-> sensitivity, industry_preset |-> industry,
      protected_attributes |-> {"gender", "age", "height"}] :
        sensitivity \in {"low", "medium", "high"}, industry \in {"none", "hr"}}

Bias(group, severity, at, negated) ==
    [kind |-> "match", group |-> group, severity |-> severity, at |-> at, negated |-> negated]

bias_facts ==
    {Bias("gender", "high", 1, FALSE), Bias("gender", "high", 2, TRUE), Bias("age", "medium", 1, TRUE),
     Bias("age", "low", 2, FALSE), Bias("hr", "medium", 1, FALSE), Bias("race", "high", 1, FALSE),
     Context("short")}

copyright_settings ==
    {[enabled |-> TRUE, action |-> "BLOCK", check_books |-> on, check_code_licenses |-> TRUE,
      check_lyrics |-> on, verbatim_threshold |-> n, custom_signatures |-> signatures,
      code_license_blocklist |-> {"GPL-3.0", "AGPL-3.0"}] :
        on \in BOOLEAN, n \in {0, 8}, signatures \in {{}, {"ours"}}}

Work(what, name, at) == [kind |-> "match", what |-> what, name |-> name, at |-> at]

copyright_facts ==
    {Work("passage", "novel", 1), Work("license", "GPL", 1), Work("license", "LGPL", 1),
     Work("license", "copyright_header", 1), Work("lyrics", "chorus", 1), Work("signature", "ours", 1),
     Work("repeated", "short", 1), Context("short")}
    \cup {Work("repeated", "long", i) : i \in 1 .. 3}

gibberish_settings ==
    {[enabled |-> TRUE, action |-> "BLOCK", min_text_length |-> 10, entropy_threshold |-> 5,
      max_special_char_ratio |-> 40, repetition_threshold |-> 5, detect_invisible_chars |-> on,
      detect_token_stuffing |-> TRUE] : on \in BOOLEAN}

gibberish_facts ==
    {Field("length", 9), Field("letters", 25), Field("stripped", 20), Field("invisible", 1),
     Field("entropy", 6), Field("special", 41), Field("repeats", 5), Field("consonants", 29),
     Field("consonants", 0), Field("recognised", 14)}

sentiment_settings ==
    {[enabled |-> TRUE, action |-> "WARN", blocked_tones |-> {"sarcastic", "dismissive"},
      min_sentiment_score |-> n] : n \in {-3, 1}}

Tone(tone, severity, at, value, modifiers) ==
    [kind |-> "match", tone |-> tone, severity |-> severity, at |-> at, valence |-> value,
     modifiers |-> modifiers]

sentiment_facts ==
    {Tone("sarcastic", "medium", 1, 0, {}), Tone("condescending", "high", 1, 0, {}),
     Tone("dismissive", "low", 1, 0, {}), Tone("", "", 1, -8, {}), Tone("", "", 2, -8, {"intensifier"}),
     Tone("", "", 3, 7, {"negation"}), Tone("", "", 4, 5, {}), Context("short")}

equation_settings ==
    {[enabled |-> TRUE, action |-> action, block_threshold |-> 60] : action \in {"BLOCK", "WARN"}}

Equation(a, op, b, c) == [kind |-> "match", a |-> a, op |-> op, b |-> b, c |-> c]

\* 2 + 2 = 5; 0.1 + 0.2 = 0.31; 10 * 30 = 301; 10 / 3 = 3.33; 1 / 0 = 1; 1 - 3 = 2
equation_facts ==
    {Equation(200, "+", 200, 500), Equation(10, "+", 20, 31), Equation(1000, "*", 3000, 30100),
     Equation(1000, "/", 300, 333), Equation(100, "/", 0, 100), Equation(100, "-", 300, 200)}

MCSettings ==
    [secrets |-> secrets_settings, pii |-> pii_settings, structure |-> structure_settings,
     jailbreak |-> jailbreak_settings, toxicity |-> toxicity_settings, topic |-> topic_settings,
     competitor |-> competitor_settings, compliance |-> compliance_settings,
     exfiltration |-> exfiltration_settings, malicious_url |-> malicious_url_settings,
     language |-> language_settings, tools |-> tools_settings, excessive_agency |-> agency_settings,
     human_approval_gate |-> approval_settings, tool_permission_audit |-> permission_settings,
     mcp_manifest_scanner |-> manifest_settings, semantic_cache_integrity |-> cache_settings,
     tenant_scope_assertion |-> tenant_settings, hallucination |-> claim_settings,
     citation_integrity |-> citation_settings, retrieval_jamming |-> jamming_settings,
     embedding_integrity |-> embedding_settings, corpus_poisoning_monitor |-> corpus_settings,
     reasoning_trace_disclosure |-> trace_settings,
     output_control_char_sanitizer |-> control_settings,
     tool_output_injection |-> marker_settings, retrieval_chunk_injection |-> marker_settings,
     memory_write_poisoning |-> marker_settings, multimodal_injection |-> media_settings,
     system_prompt_leakage |-> prompt_settings, document_metadata_leakage |-> marker_settings,
     sensitive_business_data |-> business_settings, code_safety |-> code_settings,
     bias |-> bias_settings, copyright |-> copyright_settings, gibberish |-> gibberish_settings,
     sentiment |-> sentiment_settings, numerical_consistency |-> equation_settings]

MCFacts ==
    [secrets |-> secrets_facts, pii |-> pii_facts, structure |-> structure_facts,
     jailbreak |-> jailbreak_facts, toxicity |-> toxicity_facts, topic |-> topic_facts,
     competitor |-> competitor_facts, compliance |-> compliance_facts,
     exfiltration |-> exfiltration_facts, malicious_url |-> malicious_url_facts,
     language |-> language_facts, tools |-> tools_facts, excessive_agency |-> agency_facts,
     human_approval_gate |-> approval_facts, tool_permission_audit |-> permission_facts,
     mcp_manifest_scanner |-> manifest_facts, semantic_cache_integrity |-> cache_facts,
     tenant_scope_assertion |-> tenant_facts, hallucination |-> claim_facts,
     citation_integrity |-> citation_facts, retrieval_jamming |-> jamming_facts,
     embedding_integrity |-> embedding_facts, corpus_poisoning_monitor |-> corpus_facts,
     reasoning_trace_disclosure |-> trace_facts, output_control_char_sanitizer |-> control_facts,
     tool_output_injection |-> tool_output_facts, retrieval_chunk_injection |-> chunk_facts,
     memory_write_poisoning |-> memory_facts, multimodal_injection |-> media_facts,
     system_prompt_leakage |-> prompt_facts, document_metadata_leakage |-> document_facts,
     sensitive_business_data |-> business_facts, code_safety |-> code_facts, bias |-> bias_facts,
     copyright |-> copyright_facts, gibberish |-> gibberish_facts, sentiment |-> sentiment_facts,
     numerical_consistency |-> equation_facts]

=============================================================================
