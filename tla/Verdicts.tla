------------------------------ MODULE Verdicts ------------------------------
(***************************************************************************)
(* What every detector returns and how a set of rule hits becomes a risk.  *)
(* A hit is [id, severity]; two matches of one rule are two hits, told     *)
(* apart by their id.  A text is a sequence of cells, each a few           *)
(* characters; <<>> is no rewritten text.  Messages are left out.          *)
(***************************************************************************)
EXTENDS Integers, FiniteSets, Sequences, FiniteSetsExt, SequencesExt

\* A rank of the decisions, from the weakest to the strongest.
DECISION_PRECEDENCE == [ALLOW |-> 0, WARN |-> 1, TRANSFORM |-> 2, REDACT |-> 3, BLOCK |-> 4]

SEVERITY_RISK_SCORES == [low |-> 10, medium |-> 30, high |-> 50]

Hit(id, severity) == [id |-> id, severity |-> severity]

\* The hits of one severity, one per fact of S.
HitsOf(S, severity) == {Hit(f, severity) : f \in S}

\* A finding reported when its condition holds.
Finding(on, id, severity) == IF on THEN {Hit(id, severity)} ELSE {}

AtMost(cap, n) == IF n > cap THEN cap ELSE n

AtLeast(floor, n) == IF n < floor THEN floor ELSE n

\* mutant: the score is the mean of the hits, not their sum
calculate_risk_score_mean(hits) ==
    IF hits = {} THEN 0
    ELSE MapThenSumSet(LAMBDA h : SEVERITY_RISK_SCORES[h.severity], hits) \div Cardinality(hits)

calculate_risk_score(hits) ==
    AtMost(100, MapThenSumSet(LAMBDA h : SEVERITY_RISK_SCORES[h.severity], hits))

DetectorResult(decision, risk, hits) ==
    [decision |-> decision, risk |-> risk, hits |-> hits, sanitized_text |-> <<>>]

Rewritten(decision, risk, hits, text) ==
    [DetectorResult(decision, risk, hits) EXCEPT !.sanitized_text = text]

\* text[:from] + replacement + text[to:], as Python slices it.
Splice(text, from, to, replacement) ==
    SubSeq(text, 1, AtMost(Len(text), from)) \o replacement
        \o SubSeq(text, to + 1, Len(text))

\* The first of some spans that do not overlap.
leftmost(S) == CHOOSE m \in S : \A n \in S : m.start <= n.start

\* Spans taken one after the other, unless they start before the end of one
\* that was taken; final(S) is the last of S.
apart(final(_), spans) ==
    MapThenFoldSet(LAMBDA m, k : IF \A n \in k : n.end <= m.start THEN k \cup {m} ELSE k,
                   {}, LAMBDA m : m, final, spans)

\* Spans replaced one after the other, a later one before an earlier one, all at
\* the offsets of the text before any replacement; final(S) is the last of S.
Splices(text, replacement(_), final(_), spans) ==
    MapThenFoldSet(LAMBDA m, rest : Splice(rest, m.start, m.end, replacement(m)),
                   text, LAMBDA m : m, final, spans)

Allowed == DetectorResult("ALLOW", 0, {})

=============================================================================
