---------------------------- MODULE PrivacyRules ----------------------------
(***************************************************************************)
(* The detectors that find a span and may rewrite it: secrets              *)
(* (detectors/secrets.py) and personal data (detectors/pii.py).            *)
(*                                                                         *)
(* The regular expressions are external.  A text is cells 1 .. TextLen     *)
(* together with the matches the expressions have in it; a match is        *)
(* [type, start, end, note], start and end being Python's offsets, and     *)
(* note what the checks after the match look at: "" when all succeed.      *)
(***************************************************************************)
EXTENDS Verdicts

CONSTANT TextLen

\* The cell put in place of a finding.
Token == 0

Original == [i \in 1 .. TextLen |-> i]

Cells(m) == m.start + 1 .. m.end

-----------------------------------------------------------------------------
\* secrets.py.  A match also has a rank, the place of its pattern among the 60
\* that are tried in turn; the encoded ones are looked for last.
secrets_config(enabled, action, exceptions, detect_base64) ==
    [enabled |-> enabled, action |-> action, exceptions |-> exceptions,
     detect_base64 |-> detect_base64]

_is_likely_jwt(m) == m.note \notin {"not three parts", "not base64"}

_check_entropy(m) == m.note \notin {"short", "low entropy"}

\* A decoded key is known by its prefix or, when the encoded text is long and
\* random enough, by any of the patterns.
_detect_base64_secrets(c, t) ==
    {m \in t : /\ c.detect_base64 /\ m.type = "base64"
               /\ m.note \notin {"next to a dot", "not base64"}
               /\ \/ m.note = "key prefix"
                  \/ _check_entropy(m) /\ m.note # "no pattern inside"}

secret_spans(c, t) ==
    LET excepted(m) == c.exceptions /\ m.note = "exception"
        plain == {m \in t : /\ m.type # "base64" /\ ~excepted(m)
                            /\ m.type = "jwt" => _is_likely_jwt(m)
                            /\ m.type = "azure_key" => _check_entropy(m)}
    IN  plain \cup {m \in _detect_base64_secrets(c, t) : ~excepted(m)}

position(m) == IF m.type = "base64" THEN 60 ELSE m.rank

\* The later starts first; the sort is stable, so at one start the order of
\* discovery decides.
last_secret(S) ==
    CHOOSE m \in S : \A n \in S : \/ m.start < n.start
                                  \/ m.start = n.start /\ position(m) >= position(n)

secrets_redact_text(found) == Splices(Original, LAMBDA m : <<Token>>, last_secret, found)

secrets_detect(c, t) ==
    LET found == IF c.enabled THEN secret_spans(c, t) ELSE {}
        hits == HitsOf(found, "high")
    IN  IF found = {} THEN Allowed
        ELSE IF c.action = "REDACT"
             THEN Rewritten("REDACT", 100, hits, secrets_redact_text(found))
             ELSE DetectorResult("BLOCK", 100, hits)

-----------------------------------------------------------------------------
\* pii.py.  A match also has head and tail, how many of its cells partial
\* redaction shows in front and at the back.  The severity of each type of
\* match, as detect walks the types; "address" is one with a zip code,
\* "address_simple" a match of the expression without.
contact_types ==
    [email |-> "medium", phone |-> "medium", ipv4 |-> "low", ipv6 |-> "low",
     ssn |-> "high", api_key |-> "high", api_jwt |-> "medium"]

document_types ==
    [credit_card |-> "high", passport |-> "high", drivers_license |-> "high",
     national_id |-> "high", tax_id |-> "high", bank_account |-> "high", iban |-> "high"]

person_types ==
    [address |-> "medium", address_simple |-> "medium", person_name |-> "medium",
     date_of_birth |-> "medium", medical_record |-> "high", health_insurance_id |-> "high",
     mac_address |-> "low"]

asset_types ==
    [vin |-> "medium", license_plate |-> "medium", gps_coordinates |-> "medium",
     imei |-> "medium", ethereum_address |-> "high", bitcoin_address |-> "high",
     password |-> "high", url |-> "low", username |-> "medium",
     masked_number |-> "medium", user_agent |-> "low"]

\* Regional identifiers, one for each severity; a validator that fails is noted
\* as "checksum".
REGIONAL_PATTERNS == [in_pan |-> "high", uk_utr |-> "medium"]

pii_tables ==
    <<contact_types, document_types, person_types, asset_types, REGIONAL_PATTERNS,
      [custom |-> "high"]>>

\* When detect comes to a type: of two matches of one span the first counts.
walk(type) ==
    CASE type \in DOMAIN contact_types -> 1
      [] type \in DOMAIN document_types -> 2
      [] type \in DOMAIN person_types -> 3
      [] type \in DOMAIN asset_types -> 4
      [] type \in DOMAIN REGIONAL_PATTERNS -> 5
      [] OTHER -> 6

pii_types ==
    [type \in UNION {DOMAIN pii_tables[i] : i \in DOMAIN pii_tables} |->
        pii_tables[walk(type)][type]]

\* The key under which a type of match is configured.
config_key(type) ==
    CASE type \in {"ipv4", "ipv6"} -> "ip_address"
      [] type = "api_jwt" -> "api_key"
      [] type = "address_simple" -> "address"
      [] OTHER -> type

\* The types that are off unless the policy turns them on.  The operator's own
\* patterns are not among them (their names are not those of built-in types).
DEFAULT_TYPE_CONFIG ==
    [type \in {config_key(d) : d \in DOMAIN pii_types \ {"custom"}} |->
        type \notin {"passport", "drivers_license", "national_id", "tax_id", "address",
                     "medical_record", "health_insurance_id", "vin", "license_plate"}
                    \cup DOMAIN REGIONAL_PATTERNS]

\* WARN is reported and left: only BLOCK stops and REDACT rewrites; a word the
\* table does not know redacts.
pii_normalize_action(action) ==
    CASE action \in {"BLOCK", "DENY"} -> "BLOCK"
      [] action \in {"ALLOW", "WARN", "LOG", "NONE"} -> "ALLOW"
      [] OTHER -> "REDACT"

\* types: what the policy says of some types, the others keep their default.
pii_config(enabled, action, strategy, skip_private_ips, luhn_strict, types) ==
    [enabled |-> enabled, redaction_strategy |-> strategy,
     skip_private_ips |-> skip_private_ips, luhn_strict |-> luhn_strict,
     default_action |-> pii_normalize_action(action),
     type_configs |->
        [type \in DOMAIN DEFAULT_TYPE_CONFIG |->
            IF type \in DOMAIN types
            THEN [enabled |-> types[type].enabled,
                  action |-> pii_normalize_action(types[type].action)]
            ELSE [enabled |-> DEFAULT_TYPE_CONFIG[type],
                  action |-> pii_normalize_action(action)]]]

_is_type_enabled(c, m) ==
    config_key(m.type) \in DOMAIN c.type_configs => c.type_configs[config_key(m.type)].enabled

_get_type_action(c, m) ==
    IF config_key(m.type) \in DOMAIN c.type_configs
    THEN c.type_configs[config_key(m.type)].action ELSE c.default_action

\* m begins or ends inside the full address s.
inside_address(s, m) ==
    /\ s.type = "address"
    /\ \/ s.start <= m.start /\ m.start < s.end
       \/ s.start < m.end /\ m.end <= s.end

\* The checks that follow a match; an address without a zip code counts unless
\* a full one of the same text overlaps it.
is_pii(c, t, m) ==
    CASE m.type = "phone" -> m.note # "not a phone context"
      [] m.type = "ipv4" -> /\ m.note # "octet"
                            /\ ~(c.skip_private_ips /\ m.note = "private")
      [] m.type = "ssn" -> m.note \notin {"not an ssn context", "a date"}
      [] m.type = "credit_card" -> m.note # "length" /\ (c.luhn_strict => m.note # "luhn")
      [] m.type \in {"bank_account", "vin", "license_plate"} -> m.note # "length"
      [] m.type = "address_simple" -> \A s \in t : ~inside_address(s, m)
      [] m.type \in DOMAIN REGIONAL_PATTERNS -> m.note # "checksum"
      [] OTHER -> TRUE

\* The cells partial redaction shows: in front the first letter of an e-mail
\* address, half an IP address, the country of an IBAN; at the back the domain
\* of the e-mail address, the last digits.
shown_head(c, m) ==
    IF c.redaction_strategy = "partial" /\ m.type \in {"email", "ipv4", "api_key", "api_jwt", "iban"}
    THEN m.head ELSE 0

shown_tail(c, m) ==
    IF c.redaction_strategy = "partial"
       /\ m.type \in {"email", "phone", "credit_card", "ssn", "api_key", "api_jwt", "passport",
                      "drivers_license", "tax_id", "bank_account", "iban", "mac_address", "vin",
                      "license_plate"}
    THEN m.tail ELSE 0

_get_redaction_replacement(c, m) ==
    SubSeq(Original, m.start + 1, m.start + shown_head(c, m)) \o <<Token>>
        \o SubSeq(Original, m.end - shown_tail(c, m) + 1, m.end)

\* mutant: the spans are replaced as they are, nested ones too
kept_every(spans) == spans

\* Ascending, the widest first, and of equal spans the one found first.
last_span(S) ==
    CHOOSE m \in S : \A n \in S : \/ n.start < m.start
                                  \/ n.start = m.start /\ n.end > m.end
                                  \/ /\ n.start = m.start /\ n.end = m.end
                                     /\ walk(n.type) <= walk(m.type)

\* A span is kept if it starts at or after the end of the last one kept, which
\* ends after all the others.
kept(spans) == apart(last_span, spans)

_redact_pii(c, spans) ==
    Splices(Original, LAMBDA m : _get_redaction_replacement(c, m), leftmost,
            kept({m \in spans : _get_type_action(c, m) = "REDACT"}))

pii_detect(c, t) ==
    LET found == IF c.enabled
                 THEN {m \in t : _is_type_enabled(c, m) /\ is_pii(c, t, m)} ELSE {}
        hits == {Hit(m, pii_types[m.type]) : m \in found}
        actions == {_get_type_action(c, m) : m \in found}
    IN  CASE "BLOCK" \in actions -> DetectorResult("BLOCK", calculate_risk_score(hits), hits)
          [] "BLOCK" \notin actions /\ "REDACT" \in actions ->
                Rewritten("REDACT", calculate_risk_score(hits), hits, _redact_pii(c, found))
          [] OTHER -> DetectorResult("ALLOW", calculate_risk_score(hits), hits)

=============================================================================
