---------------------------- MODULE OutputRules ----------------------------
(***************************************************************************)
(* The detectors of planted instructions (tool_output_injection,           *)
(* retrieval_chunk_injection, memory_write_poisoning,                      *)
(* multimodal_injection), of leaks (system_prompt_leakage,                 *)
(* document_metadata_leakage, sensitive_business_data) and of the quality  *)
(* of an answer (code_safety, bias, copyright, gibberish, sentiment,       *)
(* numerical_consistency).  Texts are sets of facts, as in ContentRules.   *)
(***************************************************************************)
EXTENDS RetrievalRules

\* A detector that blocks from a risk on, when its action says so.
BlockFrom(c, hits) ==
    BlockOrWarn(c.action = "BLOCK" /\ calculate_risk_score(hits) >= c.block_threshold, hits)

-----------------------------------------------------------------------------
(* _injection_patterns.py.  A match: bank, name, disguised (found in a     *)
(* variant of the text with its disguise undone, not in the text itself).  *)

INJECTION_PATTERNS ==
    [instruction_override |-> "high", instruction_override_above |-> "high",
     instruction_override_negative |-> "high", instruction_supersede |-> "high",
     role_switch_privileged |-> "high", role_switch_now |-> "high",
     role_switch_jailbreak_persona |-> "high", boundary_chatml_token |-> "high",
     role_switch_persistent |-> "medium", role_reassignment |-> "medium",
     forged_role_turn |-> "medium", embedded_directive |-> "medium",
     embedded_output_directive |-> "medium", boundary_xml_tag |-> "medium",
     boundary_inst_tag |-> "medium", boundary_markdown_header |-> "medium",
     embedded_attention_marker |-> "low"]

\* The name of a pattern counts once, whichever variant shows it.
scan_patterns(t, bank, severities) ==
    {Hit(m.name, severities[m.name]) : m \in {n \in Matches(t) : n.bank = bank}}

scan_injection(t) == scan_patterns(t, "injection", INJECTION_PATTERNS)

\* The exfiltration detector reads the text as it is.
tool_output_injection_detect(c, t) ==
    LET exfil == {m \in Matches(t) : m.bank = "exfiltration" /\ ~m.disguised}
        hits == scan_injection(t) \cup {Hit(m.name, exfiltration_patterns[m.name]) : m \in exfil}
    IN  IF c.enabled THEN BlockFrom(c, hits) ELSE Allowed

_TOOL_LURE_PATTERNS ==
    [tool_invocation_lure |-> "medium", exfiltration_lure |-> "high", url_fetch_lure |-> "medium"]

retrieval_chunk_injection_detect(c, t) ==
    IF c.enabled
    THEN BlockFrom(c, scan_injection(t) \cup scan_patterns(t, "lure", _TOOL_LURE_PATTERNS))
    ELSE Allowed

_FUTURE_BEHAVIOUR_PATTERNS ==
    [future_behaviour_command |-> "high", persisted_directive |-> "high",
     self_persisting_rule |-> "medium"]

memory_write_poisoning_detect(c, t) ==
    IF c.enabled
    THEN BlockFrom(c, scan_injection(t) \cup scan_patterns(t, "future", _FUTURE_BEHAVIOUR_PATTERNS))
    ELSE Allowed

-----------------------------------------------------------------------------
(* multimodal_injection.py.  A match is an attachment: the metadata key it *)
(* came under, its place there, its type, and the names of the markers in  *)
(* what was extracted from it; {"none"} if nothing was.                    *)

_ATTACHMENT_KEYS == <<"attachments", "media", "files", "parts", "content_parts">>

\* Only the first key that holds a list is read, and 32 entries of it.
_attachments(t) ==
    LET used == {i \in DOMAIN _ATTACHMENT_KEYS : \E a \in t : a.key = _ATTACHMENT_KEYS[i]}
    IN  {a \in t : a.key = _ATTACHMENT_KEYS[Min(used)] /\ a.place <= 32}

_is_non_text(a) == a.type # "text"

multimodal_injection_detect(c, t) ==
    LET media == {a \in _attachments(t) : _is_non_text(a)}
        unextracted == {a \in media : a.markers = {"none"}}
        planted == {a \in media \ unextracted : Cardinality(a.markers) >= c.match_threshold}
        hits == HitsOf({a.place : a \in planted}, "high")
                \cup Finding(c.flag_unextracted_media /\ unextracted # {}, 0, "medium")
    IN  IF c.enabled THEN BlockOrWarn(c.action = "BLOCK" /\ planted # {}, hits) ELSE Allowed

-----------------------------------------------------------------------------
(* system_prompt_leakage.py.  A match: a shingle, one run of tokens, of    *)
(* the output.  c.fingerprints are those registered, c.schemas those of    *)
(* the request's first 64 tool schemas: [kind, hashes], hashes the set of  *)
(* the shingles.                                                           *)

overlap_count(t, known) == Cardinality({m \in Matches(t) : m.shingle \in known})

system_prompt_leakage_detect(c, t) ==
    LET hidden == c.fingerprints \cup (IF c.check_tool_schemas THEN c.schemas ELSE {})
        leaked == {fp \in hidden : overlap_count(t, fp.hashes) >= c.match_threshold}
    IN  IF c.enabled /\ c.key
        THEN BlockOrWarn(c.action \notin {"WARN", "ALLOW_WITH_NOTICE"}, HitsOf(leaked, "high"))
        ELSE Allowed

-----------------------------------------------------------------------------
(* document_metadata_leakage.py.  A match: artifact. *)

document_artifacts ==
    [revision_markup |-> "high", document_properties |-> "medium", internal_path |-> "medium",
     hidden_text |-> "high"]

document_metadata_leakage_detect(c, t) ==
    IF c.enabled
    THEN BlockFrom(c, {Hit(m.artifact, document_artifacts[m.artifact]) : m \in Matches(t)})
    ELSE Allowed

-----------------------------------------------------------------------------
(* sensitive_business_data.py.  A match: category, phrase, and the cells   *)
(* start + 1 .. end of c.text the phrase takes.  It is looked for without  *)
(* the blanks around it and replaced with them, in from + 1 .. to; from =  *)
(* to when the text does not have those blanks.                            *)

DEFAULT_CATEGORIES == {"mergers_acquisitions", "internal_pricing", "roadmap", "customer_list"}

\* An operator's category replaces the built-in one; an empty one is off.
active_phrases(c, t) ==
    {m \in Matches(t) :
        IF m.category \in DOMAIN c.categories THEN m.phrase \in c.categories[m.category]
        ELSE m.category \in DEFAULT_CATEGORIES}

\* A phrase is searched from the left.
rightmost(S) == CHOOSE m \in S : \A n \in S : n.start <= m.start

\* The offsets at which a match with blanks needs a word on the far side.
blanks(m) ==
    {i \in {m.from} : m.from < m.start} \cup {i \in {m.to} : m.end < m.to}

replaced_span(m) == [start |-> m.from, end |-> m.to, blanks |-> blanks(m)]

phrase_spans(found, phrase) ==
    {replaced_span(m) : m \in {n \in found : n.phrase = phrase /\ n.from < n.to}}

\* Where an earlier replacement cut into a phrase it is no longer found, nor
\* next to one if there is but a blank between.
untouched(done, spans) ==
    {m \in spans : \A n \in done : /\ m.end <= n.start \/ n.end <= m.start
                                  /\ {n.start, n.end} \cap m.blanks = {}}

\* One phrase after the other, in an order (c.order) that is that of a set.
redacted_phrases(c, found) ==
    FoldLeft(LAMBDA done, phrase :
                done \cup apart(rightmost, untouched(done, phrase_spans(found, phrase))),
             {}, c.order)

redact_phrases(c, found) ==
    Splices(c.text, LAMBDA m : <<c.token>>, leftmost, redacted_phrases(c, found))

\* A category counts once; an approved phrase anywhere allows the whole text.
sensitive_business_data_detect(c, t) ==
    LET found == active_phrases(c, t)
        hits == HitsOf({m.category : m \in found}, c.severity)
        risk == calculate_risk_score(hits)
        decision == IF c.action \in {"BLOCK", "REDACT"} /\ risk >= c.block_threshold
                    THEN c.action ELSE "WARN"
    IN  IF ~c.enabled \/ "approved" \in Contexts(t) \/ hits = {} THEN Allowed
        ELSE Rewritten(decision, risk, hits,
                       IF decision = "REDACT" THEN redact_phrases(c, found) ELSE <<>>)

-----------------------------------------------------------------------------
(* code_safety.py.  A match: where ("fenced", "indented" or "prose"), the *)
(* hint of its block, the language its code looks like, and the rule (its  *)
(* expression) with language, class and severity.  The contexts "fenced"   *)
(* and "indented": there is such a block.                                  *)

_LANGUAGE_PATTERNS == {"python", "javascript", "sql", "shell"}

_detect_language(m) ==
    IF m.hint \in _LANGUAGE_PATTERNS \cup {"go", "java", "php", "ruby"} THEN m.hint ELSE m.looks

\* Fenced blocks, else indented ones, else the whole text.
_extract_code_blocks(t) ==
    LET of(where) == {m \in Matches(t) : m.where = where}
        any(where) == where \in Contexts(t) \/ of(where) # {}
    IN  IF any("fenced") THEN of("fenced")
        ELSE IF any("indented") THEN of("indented") ELSE of("prose")

\* The expressions of SQL are tried in every language.
_scan_code(c, m, language) ==
    IF m.class = "custom_banned_function"
    THEN c.block_unsafe_functions /\ m.language = language
    ELSE /\ m.language \in {language, "sql"}
         /\ c.vuln_classes = {"all"} \/ m.class \in c.vuln_classes

\* Code of an unknown language is tried in every one; a rule counts once.
code_safety_detect(c, t) ==
    LET scanned(m) == IF _detect_language(m) = "unknown" THEN c.languages \cap _LANGUAGE_PATTERNS
                      ELSE {_detect_language(m)} \cap c.languages
        found == {m \in _extract_code_blocks(t) : \E x \in scanned(m) : _scan_code(c, m, x)}
        hits == {Hit(m.rule, m.severity) : m \in found}
    IN  IF c.enabled THEN BlockOrWarn(c.action = "BLOCK", hits) ELSE Allowed

-----------------------------------------------------------------------------
(* bias.py.  A match: group (an attribute, an industry or "custom"),       *)
(* severity, at (its place) and negated (what stands before it refutes it).*)

BiasAttributes == {"gender", "race", "age", "disability", "religion"}

_get_severity_filter(c) ==
    CASE c.sensitivity = "high" -> {"low", "medium", "high"}
      [] c.sensitivity = "low" -> {"high"}
      [] OTHER -> {"medium", "high"}

\* A refuted statement is passed over, unless it is a high one at a
\* sensitivity that reports low ones.
bias_hits(c, t) ==
    LET reported == _get_severity_filter(c)
        effective(m) == IF m.negated THEN "low" ELSE m.severity
    IN  {Hit(<<m.group, m.at>>, effective(m)) :
            m \in {n \in Matches(t) : /\ n.severity \in reported
                                      /\ n.negated => n.severity = "high" /\ "low" \in reported}}

bias_detect(c, t) ==
    LET groups == (c.protected_attributes \cap BiasAttributes) \cup {c.industry_preset, "custom"}
        looked == {m \in t : m.kind = "match" => m.group \in groups}
    IN  IF c.enabled /\ "short" \notin Contexts(t)
        THEN BlockOrWarn(c.action = "BLOCK", bias_hits(c, looked)) ELSE Allowed

-----------------------------------------------------------------------------
(* copyright.py.  A match: what, name, and at, which expression or place. *)
(* A "repeated" run of words, "long" or "short" as it reaches              *)
(* verbatim_threshold words or only the length looked at for lyrics.       *)

\* The entries of a blocklist that a licence is a prefix of, or starts with.
license_family ==
    [GPL |-> {"GPL-2.0", "GPL-3.0"}, AGPL |-> {"AGPL-3.0"}, SSPL |-> {"SSPL-1.0"},
     LGPL |-> {"LGPL-2.1"}, MPL |-> {"MPL-2.0"}, copyright_header |-> {},
     all_rights_reserved |-> {}]

license_hits(c, t) ==
    LET named == {m \in Matches(t) : m.what = "license"}
        blocked == {m \in named : license_family[m.name] \cap c.code_license_blocklist # {}}
        notices == {m \in named \ blocked : m.name \in {"copyright_header", "all_rights_reserved"}}
    IN  {Hit(<<m.name, m.at>>, "high") : m \in blocked}
        \cup {Hit(<<m.name, m.at>>, "medium") : m \in notices}

\* A threshold of no words finds the empty run everywhere.
_detect_repetition(c, t, lengths) ==
    IF c.verbatim_threshold = 0 THEN {"empty run"}
    ELSE {m \in Matches(t) : m.what = "repeated" /\ m.name \in lengths}

copyright_hits(c, t) ==
    LET named(what) == {m.name : m \in {n \in Matches(t) : n.what = what}}
        fingerprints(S) == IF c.verbatim_threshold = 0 THEN {"empty run"} ELSE S
        known_works == IF c.check_books THEN {<<"known_work", x>> : x \in named("passage")} ELSE {}
    IN  HitsOf(known_works, "high")
        \cup (IF c.check_code_licenses THEN license_hits(c, t) ELSE {})
        \cup Finding(/\ c.check_lyrics /\ named("lyrics") # {}
                     /\ _detect_repetition(c, t, {"short", "long"}) # {}, <<"lyrics_match">>, "medium")
        \cup Finding(/\ c.custom_signatures # {}
                     /\ fingerprints(named("signature")) \cap fingerprints(c.custom_signatures) # {},
                     <<"verbatim_match">>, "high")
        \cup Finding(/\ c.verbatim_threshold > 0
                     /\ Cardinality(_detect_repetition(c, t, {"long"})) >= 3, <<"repetition">>, "low")

copyright_detect(c, t) ==
    IF c.enabled /\ "short" \notin Contexts(t)
    THEN BlockOrWarn(c.action = "BLOCK", copyright_hits(c, t)) ELSE Allowed

-----------------------------------------------------------------------------
(* gibberish.py.  A fact is a measure of the text, [kind, value]: length,  *)
(* letters, stripped (characters but blanks), invisible, entropy, special  *)
(* (per cent), repeats (of the commonest word), consonants (for a hundred  *)
(* vowels), recognised (words, per cent).  One that is not there is normal.*)

NormalText ==
    [length |-> 50, letters |-> 40, stripped |-> 40, invisible |-> 0, entropy |-> 4, special |-> 5,
     repeats |-> 1, consonants |-> 150, recognised |-> 60]

gibberish_hits(c, n) ==
    Finding(c.detect_invisible_chars /\ n.invisible > 0, "invisible_chars", "high")
    \cup Finding(n.stripped > 20 /\ n.entropy > c.entropy_threshold, "high_entropy", "medium")
    \cup Finding(n.special > c.max_special_char_ratio, "excessive_special_chars", "medium")
    \cup Finding(c.detect_token_stuffing /\ n.repeats >= c.repetition_threshold,
                 "token_stuffing", "medium")
    \cup Finding(n.letters > 20 /\ (n.consonants > 600 \/ n.consonants \in 1 .. 29),
                 "incoherent", "medium")
    \cup Finding(n.letters > 30 /\ n.recognised < 15, "no_recognizable_words", "high")

gibberish_detect(c, t) ==
    LET n == [k \in DOMAIN NormalText |->
                IF \E f \in t : f.kind = k THEN (CHOOSE f \in t : f.kind = k).value
                ELSE NormalText[k]]
    IN  IF c.enabled /\ n.length >= c.min_text_length
        THEN BlockOrWarn(c.action = "BLOCK", gibberish_hits(c, n)) ELSE Allowed

-----------------------------------------------------------------------------
(* sentiment.py.  A match: a phrase of a tone, [tone, severity, at], or a  *)
(* word of the lexicon, tone "", with its valence in tenths and the        *)
(* modifiers among the three words before it.                              *)

\* A negation halves and flips, an intensifier adds a half; in fortieths.
valence(m) ==
    m.valence * CASE m.modifiers = {} -> 4
                  [] m.modifiers = {"negation"} -> -2
                  [] m.modifiers = {"intensifier"} -> 6
                  [] OTHER -> -3

\* The mean valence, held between -1 and 1, is below the least allowed.
_compute_sentiment(t, min) ==
    LET words == {m \in Matches(t) : m.tone = ""}
        n == Cardinality(words)
        total == MapThenSumSet(valence, words)
    IN  IF n = 0 THEN 0 < min
        ELSE AtLeast(-40 * n, AtMost(40 * n, total)) < 4 * min * n

sentiment_detect(c, t) ==
    LET tones == {m \in Matches(t) : m.tone \in c.blocked_tones}
        hits == {Hit(<<m.tone, m.at>>, m.severity) : m \in tones}
                \cup Finding(_compute_sentiment(t, c.min_sentiment_score), <<"negative">>, "medium")
    IN  IF c.enabled /\ "short" \notin Contexts(t)
        THEN BlockOrWarn(c.action = "BLOCK", hits) ELSE Allowed

-----------------------------------------------------------------------------
(* numerical_consistency.py.  A match: an equation a op b = c of numbers   *)
(* in hundredths.                                                          *)

Abs(n) == IF n < 0 THEN -n ELSE n

\* The result as a fraction; nothing over zero cannot be verified.
_apply(a, op, b) ==
    CASE op = "+" -> <<a + b, 100>>
      [] op = "-" -> <<a - b, 100>>
      [] op = "*" -> <<a * b, 10000>>
      [] op = "/" -> <<a, b>>

\* Off by more than a hundredth and more than a thousandth of the result.
_mismatch(expected, stated) ==
    LET num == expected[1]
        den == expected[2]
    IN  10 * Abs(100 * num - stated * den) > AtLeast(10 * Abs(den), Abs(num))

numerical_consistency_detect(c, t) ==
    LET wrong == {m \in Matches(t) : LET e == _apply(m.a, m.op, m.b)
                                     IN  e[2] # 0 /\ _mismatch(e, m.c)}
    IN  IF c.enabled THEN BlockFrom(c, HitsOf(wrong, "high")) ELSE Allowed

=============================================================================
