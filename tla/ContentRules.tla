---------------------------- MODULE ContentRules ----------------------------
(***************************************************************************)
(* The detectors of harmful or unwanted content: jailbreak, toxicity,      *)
(* topic, competitor, compliance, exfiltration, malicious_url, language.   *)
(*                                                                         *)
(* The expressions and word lists are external.  A text is the set of what *)
(* they find in it: matches, [kind |-> "match", ...], and the signs of a   *)
(* harmless or aggravating context, [kind |-> "context", name].            *)
(***************************************************************************)
EXTENDS Verdicts

Matches(t) == {f \in t : f.kind = "match"}

Contexts(t) == {f.name : f \in {g \in t : g.kind = "context"}}

-----------------------------------------------------------------------------
(* jailbreak.py *)

\* A match: the rule of the pattern table (which has one severity), the class of
\* rules the filters below take together ("" for none of them), and whether it
\* is in text that had to be decoded; class "readable" is such text itself.

\* For each context the classes it takes out.
filtered_prefixes ==
    [game |-> {"harm_statement"},
     definitional |-> {"harm_statement", "crime_keyword"},
     historical |-> {"harm_statement"},
     absurd |-> {"discrimination"},
     mcq |-> {"hacking"},
     alpaca |-> {"markdown_injection"}]

\* Base64 and hex text that decodes to something readable.
_detect_encoded_content(c, t) == {m \in Matches(t) : c.detect_encoding /\ m.decoded}

\* The game context spares every rule of high severity, the others do not.
filtered(t, m) ==
    \E x \in Contexts(t) \cap DOMAIN filtered_prefixes :
        m.class \in filtered_prefixes[x] /\ ~(x = "game" /\ m.severity = "high")

\* A rule counts once, in the text or decoded; decoded text is a hit itself.
jailbreak_hits(c, t) ==
    LET decoded == _detect_encoded_content(c, t)
        matched == {m \in Matches(t) : /\ m.class # "readable" /\ (m.decoded => m \in decoded)
                                       /\ ~filtered(t, m)}
        benign == decoded = {} /\ (\A m \in matched : m.class = "roleplay")
                               /\ "dangerous" \notin Contexts(t)
    IN  IF benign THEN {}
        ELSE {Hit(m.rule, m.severity) : m \in matched}
             \cup Finding(decoded # {}, "encoded_content", "medium")

\* suspicious: how many of the last messages of the conversation had a risk.
jailbreak_detect(c, t) ==
    LET hits == IF c.enabled THEN jailbreak_hits(c, t) ELSE {}
        risk == AtMost(100, calculate_risk_score(hits) + 15 * c.suspicious)
    IN  IF hits = {} THEN Allowed
        ELSE DetectorResult(IF risk >= c.threshold THEN "BLOCK" ELSE "WARN", risk, hits)

-----------------------------------------------------------------------------
(* toxicity.py.  A match: term, category ("" for the general terms),       *)
(* severity, obfuscated (seen only once normalised) and sense, what the    *)
(* sentence of the first occurrence says around it.                        *)

CONTENT_CATEGORY_DEFAULTS ==
    [category \in {"threats", "self_harm", "violence_graphic", "drug_alcohol", "hate_speech",
                   "grooming", "explicit_sexual", "harmful_requests"} |->
        [enabled |-> category # "drug_alcohol", force_block |-> category # "drug_alcohol"]]

toxicity_config(enabled, action, detect_evasion, context_aware, block, warn, categories) ==
    [enabled |-> enabled, action |-> action, detect_evasion |-> detect_evasion,
     context_aware |-> context_aware, block_threshold |-> block, warn_threshold |-> warn,
     categories |-> categories @@ CONTENT_CATEGORY_DEFAULTS]

force_block(c, m) == m.category # "" /\ c.categories[m.category].force_block

\* A term spelled in disguise is found in the normalised text only.
_normalize_for_evasion(c, m) == m.obfuscated => c.detect_evasion

_is_educational_context(m) == m.sense = "educational"

_is_quoting_or_reporting(m) == m.sense = "reported"

_is_negated_context(m) == m.sense = "negated"

\* Contexts that excuse a term before anything else is looked at.
_is_safe_query_context(c, t, m) ==
    \/ /\ ~force_block(c, m)
       /\ \/ Contexts(t) \cap {"definitional", "historical", "lesson"} # {}
          \/ m.sense = "prevented"
          \/ m.sense = "in code" /\ m.category = ""
    \/ "fiction" \in Contexts(t) /\ m.category \notin {"explicit_sexual", "grooming"}
    \/ m.sense \in {"harmless sense", "prohibited"}
    \/ m.sense = "with precautions" /\ m.category = "explicit_sexual"

toxic_terms(c, t) ==
    {m \in Matches(t) :
        /\ m.category # "" => c.categories[m.category].enabled
        /\ _normalize_for_evasion(c, m)
        /\ c.context_aware => ~_is_safe_query_context(c, t, m)
        /\ c.context_aware /\ m.category = "hate_speech" => ~_is_quoting_or_reporting(m)
        /\ c.context_aware /\ ~force_block(c, m) /\ m.category # "hate_speech"
                => /\ ~_is_educational_context(m) /\ ~_is_quoting_or_reporting(m)
                   /\ ~_is_negated_context(m)}

toxicity_detect(c, t) ==
    LET found == IF c.enabled THEN toxic_terms(c, t) ELSE {}
        hits == {Hit(m.term, m.severity) : m \in found}
        risk == calculate_risk_score(hits)
        forced == \E m \in found : force_block(c, m)
    IN  CASE found = {} -> Allowed
          [] found # {} /\ (c.action = "BLOCK" \/ forced \/ risk >= c.block_threshold) ->
                DetectorResult("BLOCK", IF forced THEN AtLeast(90, risk) ELSE risk, hits)
          [] OTHER -> IF risk >= c.warn_threshold THEN DetectorResult("WARN", risk, hits)
                      ELSE Allowed

-----------------------------------------------------------------------------
(* topic.py.  A match: topic, phrase (its place in the topic's list), broad *)
(* (of the broad terms, tried after the phrases) and cues, the signs in the *)
(* sentence around its first occurrence.                                    *)

NO_CONTEXT_TOPICS == {"adult content", "hate speech", "disinformation"}

\* Allowed topics, when given, turn the detector into a whitelist.
topic_mode(c) == IF c.allowed_topics # {} THEN "whitelist" ELSE "blocklist"

_detect_topic_context(cues) ==
    CASE "fiction" \in cues -> "informational"
      [] "fiction" \notin cues /\ "resource" \in cues -> "resource"
      [] cues \cap {"fiction", "resource"} = {} /\ "advice" \in cues -> "advisory"
      [] OTHER -> IF "request" \in cues THEN "direct"
                  ELSE IF "information" \in cues THEN "informational"
                  ELSE IF "warning" \in cues THEN "warning" ELSE "direct"

\* Only the first pattern that matches is looked at, phrases before broad terms.
matched_pattern(t, topic) ==
    LET found == {m \in Matches(t) : m.topic = topic}
        tried == IF \E m \in found : ~m.broad THEN {m \in found : ~m.broad} ELSE found
    IN  {m \in tried : \A n \in tried : m.phrase <= n.phrase}

\* No keyword of an allowed topic: off topic.
_detect_whitelist(c, t) ==
    IF \E m \in Matches(t) : m.topic \in c.allowed_topics THEN Allowed
    ELSE DetectorResult("BLOCK", 80, HitsOf({"topic.off_topic"}, "high"))

topic_detect(c, t) ==
    LET context(m) == IF c.context_aware /\ m.topic \notin NO_CONTEXT_TOPICS
                      THEN _detect_topic_context(m.cues) ELSE "direct"
        found == {topic \in c.blocked_topics :
                    \E m \in matched_pattern(t, topic) : context(m) \in {"advisory", "direct"}}
        hits == HitsOf(found, "high")
        risk == calculate_risk_score(hits)
    IN  CASE ~c.enabled -> Allowed
          [] c.enabled /\ topic_mode(c) = "whitelist" -> _detect_whitelist(c, t)
          [] OTHER -> IF found = {} THEN Allowed
                      ELSE DetectorResult(IF risk >= c.block_threshold THEN "BLOCK" ELSE "WARN",
                                          risk, hits)

-----------------------------------------------------------------------------
(* competitor.py.  A match: competitor, how ("exact", "alias", "fuzzy"),   *)
(* start, end, and cues, the signs in the clause of the exact mention.     *)

\* The exact name first, then an alias, then a similar word.
mention(c, t, x) ==
    LET of(how) == {m \in Matches(t) : m.competitor = x /\ m.how = how}
    IN  IF of("exact") # {} THEN of("exact") ELSE IF of("alias") # {} THEN of("alias")
        ELSE IF c.fuzzy_matching THEN of("fuzzy") ELSE {}

\* The clause is that of the name itself: without it the mention is neutral.
_categorize_competitor_mention(m) ==
    IF m.how # "exact" THEN "neutral"
    ELSE CASE "technical" \in m.cues -> "technical"
           [] "technical" \notin m.cues /\ "negative" \in m.cues -> "negative"
           [] m.cues \cap {"technical", "negative"} = {} /\ "comparison" \in m.cues -> "comparison"
           [] OTHER -> IF "partnership" \in m.cues THEN "partnership" ELSE "neutral"

competitor_detect(c, t) ==
    LET found == IF ~c.enabled THEN {}
                 ELSE UNION {{m \in mention(c, t, x) :
                                _categorize_competitor_mention(m) \notin c.allowlist_contexts} :
                             x \in c.competitors}
        severity(m) == CASE _categorize_competitor_mention(m) = "negative" -> "high"
                         [] _categorize_competitor_mention(m) \in {"partnership", "technical"} -> "low"
                         [] OTHER -> "medium"
        hits == {Hit(m.competitor, severity(m)) : m \in found}
    IN  IF found = {} THEN Allowed
        ELSE DetectorResult(CASE c.action = "BLOCK" -> "BLOCK"
                              [] c.action = "RESTRICT" -> "TRANSFORM"
                              [] OTHER -> "WARN",
                            calculate_risk_score(hits), hits)

-----------------------------------------------------------------------------
(* compliance.py.  A match: industry, what ("topic", "prohibited",         *)
(* "disclaimer", "general", "claim", "ai marker").                         *)

_FRAMEWORK_MAP ==
    [hipaa |-> "healthcare", gdpr |-> "healthcare", pci_dss |-> "finance",
     ferpa |-> "healthcare", mixed |-> "all", all |-> "all"]

_INDUSTRY_RULES == {"healthcare", "finance", "legal", "insurance"}

\* The rules that apply, a framework's name standing for its industry.
compliance_rules(c) ==
    LET industry == IF c.framework \in DOMAIN _FRAMEWORK_MAP THEN _FRAMEWORK_MAP[c.framework]
                    ELSE c.framework
    IN  (IF industry = "all" THEN _INDUSTRY_RULES ELSE _INDUSTRY_RULES \cap {industry})
            \cup {"custom"}

missing_disclaimers(c, t) ==
    {r \in compliance_rules(c) :
        /\ \E m \in Matches(t) : m.industry = r /\ m.what = "topic"
        /\ ~\E m \in Matches(t) : m.industry = r /\ m.what = "disclaimer"
        /\ r = "custom" => c.custom_disclaimer}

compliance_detect(c, t) ==
    LET topical == {r \in compliance_rules(c) :
                        \E m \in Matches(t) : m.industry = r /\ m.what = "topic"}
        missing == missing_disclaimers(c, t)
        undisclosed == c.ai_disclosure /\ ~\E m \in Matches(t) : m.what = "ai marker"
        hits == {Hit(m, "high") : m \in {n \in Matches(t) :
                    \/ n.what = "prohibited" /\ n.industry \in topical
                    \/ n.what = "claim"}}
                \cup {Hit(m, "medium") : m \in {n \in Matches(t) : n.what = "general"}}
                \cup {Hit([missing |-> r], "medium") : r \in missing}
                \cup (IF undisclosed THEN {Hit([missing |-> "ai disclosure"], "low")} ELSE {})
    IN  IF ~c.enabled \/ "short" \in Contexts(t) \/ hits = {} THEN Allowed
        ELSE DetectorResult(
                CASE c.action = "APPEND" /\ (missing # {} \/ undisclosed) -> "TRANSFORM"
                  [] c.action = "BLOCK" -> "BLOCK"
                  [] OTHER -> "WARN",
                calculate_risk_score(hits), hits)

-----------------------------------------------------------------------------
(* exfiltration.py.  A match: class. *)

exfiltration_patterns ==
    [system_prompt |-> "high", memory_dump |-> "high", data_source |-> "high",
     capability |-> "medium", cross_user |-> "high", url_exfiltration |-> "high",
     policy |-> "medium"]

exfiltration_detect(c, t) ==
    LET hits == {Hit(m.class, exfiltration_patterns[m.class]) : m \in Matches(t)}
        risk == calculate_risk_score(hits)
    IN  IF ~c.enabled \/ hits = {} THEN Allowed
        ELSE DetectorResult(IF risk >= c.block_threshold THEN "BLOCK" ELSE "WARN", risk, hits)

-----------------------------------------------------------------------------
(* malicious_url.py.  A match: value (the segments of the address), data   *)
(* (a data: URI), host (on which list it is) and traits.                   *)

_check_url(c, m) ==
    LET Trait(x, severity, on) == IF on /\ x \in m.traits THEN {Hit(<<m, x>>, severity)} ELSE {}
    IN  CASE m.data -> IF c.check_data_uris THEN {Hit(<<m, "data_uri">>, "high")} ELSE {}
          [] ~m.data /\ m.host \in {"none", "allowed"} -> {}
          [] ~m.data /\ m.host = "blocked" -> {Hit(<<m, "blocklisted">>, "high")}
          [] OTHER -> Trait("ip", "medium", c.block_ip_urls)
                      \cup Trait("shortener", "medium", c.block_shorteners)
                      \cup Trait("suspicious_tld", "low", TRUE)
                      \cup Trait("punycode", "medium", TRUE)
                      \cup Trait("homoglyph", "high", TRUE)
                      \cup Trait("subdomains", "medium", TRUE)

malicious_url_detect(c, t) ==
    LET hits == UNION {_check_url(c, m) : m \in Matches(t)}
    IN  IF ~c.enabled \/ hits = {} THEN Allowed
        ELSE DetectorResult(CASE c.action = "REDACT" -> "REDACT"
                              [] c.action = "BLOCK" -> "BLOCK"
                              [] OTHER -> "WARN",
                            calculate_risk_score(hits), hits)

-----------------------------------------------------------------------------
(* language.py.  A match: script and share, in percent of the characters;  *)
(* the closest trigram profile is c.profile, with its score.               *)

_SCRIPT_LANGUAGES ==
    [cyrillic |-> <<"ru", "uk", "bg", "sr">>, greek |-> <<"el">>, arabic |-> <<"ar", "fa", "ur">>,
     hebrew |-> <<"he">>, devanagari |-> <<"hi", "mr", "ne">>, cjk |-> <<"zh", "ja">>,
     hangul |-> <<"ko">>]

\* A script other than Latin with more than three tenths of the text decides;
\* the largest is looked at first.
_identify_language(c, t) ==
    LET big == {m \in Matches(t) : m.script \in DOMAIN _SCRIPT_LANGUAGES /\ m.share > 30}
        top == CHOOSE m \in big : \A n \in big : m.share >= n.share
    IN  CASE Matches(t) = {} -> [lang |-> "unknown", confidence |-> 0]
          [] big # {} -> [lang |-> Head(_SCRIPT_LANGUAGES[top.script]),
                          confidence |-> AtMost(100, top.share + 20)]
          [] OTHER -> c.profile

\* Every language of a significant script counts, so one script may be mixed.
_detect_mixed_languages(t) ==
    {m.script : m \in {n \in Matches(t) : n.share > 20}}

mixed(t) ==
    LET languages(s) == IF s \in DOMAIN _SCRIPT_LANGUAGES THEN Len(_SCRIPT_LANGUAGES[s]) ELSE 1
    IN  MapThenSumSet(languages, _detect_mixed_languages(t)) > 1

language_detect(c, t) ==
    LET read == _identify_language(c, t)
        lang == IF read.confidence < c.min_confidence THEN "unknown" ELSE read.lang
        high == (IF lang \in c.blocked_languages THEN {"language.blocked_language"} ELSE {})
                \cup (IF /\ c.allowed_languages # {"any"} /\ lang # "unknown"
                         /\ lang \notin c.allowed_languages
                      THEN {"language.not_in_allowed"} ELSE {})
        medium == IF c.detect_mixed /\ mixed(t) THEN {"language.mixed_content"} ELSE {}
    IN  IF ~c.enabled \/ "short" \in Contexts(t) \/ high \cup medium = {} THEN Allowed
        ELSE DetectorResult(IF c.action = "BLOCK" THEN "BLOCK" ELSE "WARN",
                            AtMost(100, 60 * Cardinality(high) + 20 * Cardinality(medium)),
                            HitsOf(high, "high") \cup HitsOf(medium, "medium"))

=============================================================================
