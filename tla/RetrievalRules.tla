--------------------------- MODULE RetrievalRules ---------------------------
(***************************************************************************)
(* The detectors of what is retrieved and of what an answer makes of it:   *)
(* hallucination, citation_integrity, retrieval_jamming,                   *)
(* embedding_integrity, corpus_poisoning_monitor,                          *)
(* reasoning_trace_disclosure, output_control_char_sanitizer.              *)
(*                                                                         *)
(* The models that score a claim are external: a claim carries the scores, *)
(* in percent, that each passage gives it.                                 *)
(***************************************************************************)
EXTENDS AgentRules

-----------------------------------------------------------------------------
(* hallucination.py.  A match is a claim: words, and for each passage       *)
(* 1 .. c.passages its overlap, similar, entail, contra and reverse score;  *)
(* combined, its overlap with all of them together; labelled (the scorer    *)
(* reports contradictions); verified, the passages the second scorer finds  *)
(* it in.                                                                   *)

Passages(c) == 1 .. c.passages

\* The best of the scores of some passages, 0 for none.
Best(score, S) == Max({0} \cup {score[p] : p \in S})

_check_claim_token_overlap(c, m) ==
    IF m.words < c.min_claim_words THEN 100 ELSE Max({m.combined, Best(m.overlap, Passages(c))})

\* Without the embedding model, the words.
_check_claim_embedding(c, m) ==
    IF c.embed_model THEN Best(m.similar, Passages(c)) ELSE _check_claim_token_overlap(c, m)

\* The first k passages by a score, the earlier first among equals.
TopOf(c, score, k) ==
    LET ahead(p) == {q \in Passages(c) : score[q] > score[p] \/ (score[q] = score[p] /\ q < p)}
    IN  {p \in Passages(c) : Cardinality(ahead(p)) < k}

\* The passages a claim is scored against first: those it shares most words
\* with; all of them when top_k is 0 or covers them.
_passage_shortlist(c, m) ==
    IF c.top_k > 0 /\ c.top_k < c.passages THEN TopOf(c, m.overlap, c.top_k)
    ELSE Passages(c)

\* mutant: only the shortlist is ever scored
tried_passages_shortlist(c, m) == _passage_shortlist(c, m)

\* The shortlist, and then the other passages in order until one supports it.
tried_passages(c, m) ==
    LET short == _passage_shortlist(c, m)
        supports(S) == \E p \in S : m.entail[p] >= c.min_entailment
    IN  short \cup {p \in Passages(c) \ short :
                        ~supports(short \cup {q \in Passages(c) : q < p})}

\* The score, the contradiction; a claim that neither was supported nor
\* contradicted is tried the other way round, on the best passages.
_nli_claim_score(c, m) ==
    LET tried == tried_passages(c, m)
        entail == Best(m.entail, tried)
        contra == IF m.labelled THEN Best(m.contra, tried) ELSE 0
        per_passage == [p \in Passages(c) |-> IF p \in tried THEN m.entail[p] ELSE 0]
        reverse == Best(m.reverse, TopOf(c, per_passage, AtLeast(1, c.top_k)))
        rescued == /\ c.reverse_rescue /\ entail < c.min_entailment
                   /\ contra < c.max_contradiction /\ reverse >= c.min_reverse
    IN  [score |-> IF rescued THEN Max({entail, reverse}) ELSE entail, contradiction |-> contra]

\* The second scorer may clear a claim the first one suspects.
_verifier_vetoes(c, m) ==
    /\ c.verifier /\ _nli_claim_score(c, m).score < c.min_entailment
    /\ \E p \in _passage_shortlist(c, m) : p \in m.verified

\* A scorer that fails leaves the configured method.
claim_score(c, m) ==
    IF c.nli = "works" THEN _nli_claim_score(c, m)
    ELSE [score |-> IF c.method = "embedding" THEN _check_claim_embedding(c, m)
                    ELSE _check_claim_token_overlap(c, m),
          contradiction |-> 0]

claim_verdict(c, m) ==
    LET used_nli == c.nli = "works"
        read == claim_score(c, m)
        threshold == IF used_nli THEN c.min_entailment ELSE c.grounding_threshold
        contradicted == IF used_nli /\ m.labelled /\ read.score < threshold
                        THEN read.contradiction >= c.max_contradiction
                        ELSE 10 * read.score < 6 * threshold
    IN  CASE used_nli /\ _verifier_vetoes(c, m) -> "cleared"
          [] ~(used_nli /\ _verifier_vetoes(c, m)) /\ contradicted -> "ungrounded"
          [] OTHER -> IF read.score < c.grounding_threshold THEN "weak" ELSE "grounded"

hallucination_detect(c, t) ==
    LET claims == {m \in Matches(t) : m.words >= c.min_claim_words}
        Of(verdict) == {m \in claims : claim_verdict(c, m) = verdict}
        hits == HitsOf(Of("ungrounded"), "high") \cup HitsOf(Of("weak"), "medium")
        risk == (80 * Cardinality(Of("ungrounded")) + 30 * Cardinality(Of("weak")))
                    \div Cardinality(claims)
    IN  IF ~c.enabled \/ c.passages = 0 \/ hits = {} THEN Allowed
        ELSE DetectorResult(IF /\ c.action = "BLOCK"
                               /\ c.nli = "works" => Of("ungrounded") # {}
                            THEN "BLOCK" ELSE "WARN",
                            AtMost(100, risk), hits)

-----------------------------------------------------------------------------
(* citation_integrity.py.  A match: what ("url", "id", "number", "quote"),  *)
(* value or number, short, and what the scorers say of a quote.              *)

has_grounding(c) == c.urls # {} \/ c.ids # {} \/ c.blob # {} \/ c.num_sources > 0

\* In the text, nearly so, or entailed by it; a scorer that fails does not help.
_quote_supported(c, m) ==
    /\ c.blob # {}
    /\ \/ m.value \in c.blob
       \/ m.overlap >= c.min_quote_overlap
       \/ c.nli = "works" /\ m.entail >= c.min_entailment

supported(c, m) ==
    CASE m.what = "url" -> m.value \in c.urls \cup c.blob
      [] m.what = "number" -> m.number \in 1 .. c.num_sources
      [] m.what = "id" -> \/ m.value \in c.ids \cup c.urls
                          \/ ~m.short /\ m.value \in c.blob
      [] OTHER -> _quote_supported(c, m)

citation_integrity_detect(c, t) ==
    LET severity(m) == IF m.what = "quote" THEN "medium" ELSE "high"
        hits == IF has_grounding(c)
                THEN {Hit(m, severity(m)) : m \in {n \in Matches(t) : ~supported(c, n)}}
                ELSE IF c.require_sources /\ Matches(t) # {}
                     THEN {Hit("missing_sources", "medium")} ELSE {}
    IN  IF ~c.enabled THEN Allowed
        ELSE BlockOrWarn(c.action = "BLOCK" /\ calculate_risk_score(hits) >= c.block_threshold, hits)

-----------------------------------------------------------------------------
(* retrieval_jamming.py.  A match: what ("refusal", "suppression"), phrase; *)
(* c.scores are those of the chunks, best first.                            *)

\* The best score against the upper median of the others: dominance_ratio to
\* one, the other way round for distances.
dominates(c) ==
    LET n == Len(c.scores)
        rest == SortSeq(Tail(c.scores), LAMBDA x, y : x < y)
        mid == rest[(n - 1) \div 2 + 1]
        top == Head(c.scores)
    IN  /\ n >= c.min_chunks
        /\ IF c.higher_is_better THEN mid > 0 /\ top >= c.dominance_ratio * mid
           ELSE (top > 0 /\ mid >= c.dominance_ratio * top) \/ (top <= 0 /\ mid > 0)

retrieval_jamming_detect(c, t) ==
    LET refusals == {m \in Matches(t) : m.what = "refusal"}
        blocker == Finding(Cardinality(refusals) >= c.refusal_threshold, "refusal_inducing_chunk", "high")
                   \cup Finding(\E m \in Matches(t) : m.what = "suppression",
                                "suppresses_other_sources", "high")
        hits == blocker
                \cup Finding(blocker # {} /\ "few words" \in Contexts(t), "contentless_blocker", "medium")
                \cup Finding(dominates(c), "ranking_dominance", "medium")
    IN  IF ~c.enabled THEN Allowed ELSE BlockOrWarn(c.action = "BLOCK", hits)

-----------------------------------------------------------------------------
(* embedding_integrity.py.  A match is one of the signals. *)

embedding_signals ==
    [keyword_stuffing |-> "medium", hidden_text |-> "high", raw_vector |-> "high",
     base64_blob |-> "medium"]

embedding_integrity_detect(c, t) ==
    LET hits == {Hit(m.signal, embedding_signals[m.signal]) : m \in Matches(t)}
    IN  IF ~c.enabled THEN Allowed
        ELSE BlockOrWarn(c.action = "BLOCK" /\ calculate_risk_score(hits) >= c.block_threshold, hits)

-----------------------------------------------------------------------------
(* corpus_poisoning_monitor.py.  A match: what ("authority", "question",    *)
(* "untrusted source", "trusted corpus"), phrase; each "question" is one    *)
(* occurrence of the question restated most.  c.count: the documents the    *)
(* source has written in the window, this one included.                     *)

corpus_poisoning_monitor_detect(c, t) ==
    LET Found(what) == {m \in Matches(t) : m.what = what}
        hits == Finding(Cardinality(Found("authority")) >= c.authority_threshold,
                        "authority_assertion", "high")
                \cup Finding(Cardinality(Found("question")) >= c.max_question_repeats,
                             "query_targeting", "high")
                \cup Finding(/\ c.flag_untrusted_into_trusted
                             /\ Found("untrusted source") # {} /\ Found("trusted corpus") # {},
                             "untrusted_source_into_trusted_corpus", "high")
                \cup Finding(c.max_writes > 0 /\ c.count > c.max_writes, "ingest_burst", "medium")
    IN  IF ~c.enabled THEN Allowed ELSE BlockOrWarn(c.action = "BLOCK", hits)

-----------------------------------------------------------------------------
(* reasoning_trace_disclosure.py.  The metadata are contexts: "trace",      *)
(* "scanned", "answer redacted", "trace redacted", "logprobs", "timings",   *)
(* "top_logprobs", "tool arguments".                                        *)

\* A trace too short to disclose anything is not one.
_first_trace(t) == "trace" \in Contexts(t)

_logprob_channels(t) == Contexts(t) \cap {"top_logprobs", "logprobs", "timings"}

\* No environment counts as a gated one.
gated(c) == c.env = "" \/ c.env \in c.gated_envs

reasoning_trace_disclosure_detect(c, t) ==
    LET hits == Finding(_first_trace(t) /\ c.require_trace_scanned /\ "scanned" \notin Contexts(t),
                        "unscanned_trace", "high")
                \cup Finding(/\ _first_trace(t) /\ "answer redacted" \in Contexts(t)
                             /\ "trace redacted" \notin Contexts(t),
                             "trace_exceeds_answer", "high")
                \cup Finding(c.flag_logprobs /\ _logprob_channels(t) # {} /\ gated(c), "logprobs_exposed",
                             IF "top_logprobs" \in Contexts(t) THEN "high" ELSE "medium")
                \cup Finding(c.flag_tool_arguments /\ "tool arguments" \in Contexts(t),
                             "raw_tool_arguments", "medium")
    IN  IF ~c.enabled THEN Allowed ELSE BlockOrWarn(c.action = "BLOCK", hits)

-----------------------------------------------------------------------------
(* output_control_char_sanitizer.py.  A match: class of a control sequence  *)
(* ("osc52", "osc", "screen", "lone_cr", "colour", "csi", "control") at a   *)
(* cell of the text.                                                        *)

\* Every sequence is made visible (Token); a colour is put back when allowed.
sanitize(c, t) ==
    [i \in 1 .. Len(c.text) |->
        IF \E m \in Matches(t) : m.at = i /\ (m.class = "colour" => ~c.allow_color_codes)
        THEN c.token ELSE c.text[i]]

\* Every sequence also begins with a control character; colours are taken out
\* before that is looked at.
control_char_hits(c, t) ==
    LET classes == {m.class : m \in Matches(t)}
        residual == IF c.allow_color_codes THEN classes \ {"colour"} ELSE classes
        screen == classes \cap {"screen", "lone_cr"} # {}
    IN  Finding("osc52" \in classes, "clipboard_hijack", "high")
        \cup Finding("osc52" \notin classes /\ "osc" \in classes, "osc_sequence", "high")
        \cup Finding(screen, "screen_manipulation", "high")
        \cup Finding(~screen /\ ~c.allow_color_codes /\ residual \cap {"colour", "csi"} # {},
                     "ansi_sequence", "medium")
        \cup Finding(residual \ {"lone_cr"} # {}, "control_characters", "medium")

output_control_char_sanitizer_detect(c, t) ==
    LET hits == control_char_hits(c, t)
        risk == calculate_risk_score(hits)
    IN  CASE ~c.enabled \/ hits = {} -> Allowed
          [] c.enabled /\ hits # {} /\ c.action \in {"BLOCK", "WARN"} -> DetectorResult(c.action, risk, hits)
          [] OTHER -> Rewritten("REDACT", risk, hits, sanitize(c, t))

=============================================================================
