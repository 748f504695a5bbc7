----------------------------- MODULE AgentRules -----------------------------
(***************************************************************************)
(* The detectors of what an agent does: tools, human_approval_gate,        *)
(* tool_permission_audit, excessive_agency, mcp_manifest_scanner,          *)
(* semantic_cache_integrity, tenant_scope_assertion.  A call, a plan, a    *)
(* manifest or its metadata is the set of what is found in it.             *)
(***************************************************************************)
EXTENDS ContentRules

\* The verdict of a detector that blocks or warns, and nothing else.
BlockOrWarn(blocks, hits) ==
    IF hits = {} THEN Allowed
    ELSE DetectorResult(IF blocks THEN "BLOCK" ELSE "WARN", calculate_risk_score(hits), hits)

-----------------------------------------------------------------------------
(* tools.py.  c.tool is the set of words of the name; a match says what is *)
(* wrong with an argument.                                                 *)

\* More than one word is prose: only a denied name in it counts.
_check_allowlist_denylist(c) ==
    IF c.tool \cap c.denied_tools # {} THEN {Hit("tools.denied", "high")}
    ELSE IF Cardinality(c.tool) = 1 /\ c.allowed_tools # {} /\ c.tool \cap c.allowed_tools = {}
         THEN {Hit("tools.not_allowed", "high")} ELSE {}

Wrong(t, what) == \E m \in Matches(t) : m.what = what

\* A missing argument, then each property's type and length, then the rest.
_validate_args_schema(c, t) ==
    IF ~c.schemas THEN {}
    ELSE IF \E x \in {"missing", "type", "too long"} : Wrong(t, x)
         THEN {Hit("tools.args_invalid", "medium")}
         ELSE IF ~c.additional /\ Wrong(t, "unknown") THEN {Hit("tools.args_invalid", "low")} ELSE {}

\* Any string of the arguments, however nested, may hold an address.
_extract_tool_urls(t) == {m \in Matches(t) : m.what = "url"}

_check_domain_allowlist(c, t) ==
    IF c.domain_allowlist # {} /\ \E m \in _extract_tool_urls(t) :
            m.domain # "" /\ m.domain \notin c.domain_allowlist
    THEN {Hit("tools.domain_blocked", "high")} ELSE {}

_check_exfil_in_args(t) ==
    IF Wrong(t, "exfil") THEN {Hit("tools.exfil_attempt", "high")}
    ELSE IF Wrong(t, "oversized") THEN {Hit("tools.exfil_attempt", "medium")} ELSE {}

\* The first check that fails is the only one reported; any failure blocks.
tools_detect(c, t) ==
    LET checks == <<_check_allowlist_denylist(c), _validate_args_schema(c, t),
                    _check_domain_allowlist(c, t), _check_exfil_in_args(t)>>
        failed == {i \in 1 .. 4 : checks[i] # {}}
    IN  IF ~c.enabled \/ failed = {} THEN Allowed
        ELSE DetectorResult("BLOCK", 40, checks[Min(failed)])

-----------------------------------------------------------------------------
(* excessive_agency.py *)

_ACTION_CATEGORIES ==
    [destructive_action |-> "high", external_side_effect |-> "high",
     privilege_escalation |-> "high", code_execution |-> "high",
     mutating_action |-> "medium", broad_scope |-> "medium", wildcard_scope |-> "medium",
     org_high_risk_action |-> "high"]

\* The text as it is, the action fields of a plan down to a depth, and both
\* with separators opened up.
build_action_scan_text(t) == {m.category : m \in {n \in Matches(t) : ~n.too_deep}}

excessive_agency_detect(c, t) ==
    LET found == build_action_scan_text(t)
                 \ (IF c.high_risk_actions THEN {} ELSE {"org_high_risk_action"})
        hits == {Hit(x, _ACTION_CATEGORIES[x]) : x \in found}
        risk == calculate_risk_score(hits)
    IN  IF ~c.enabled \/ hits = {} THEN Allowed
        ELSE DetectorResult(CASE c.action = "BLOCK" /\ risk >= c.block_threshold -> "BLOCK"
                              [] risk >= c.warn_threshold /\ ~(c.action = "BLOCK" /\ risk >= c.block_threshold)
                                    -> "WARN"
                              [] OTHER -> "ALLOW",
                            risk, hits)

-----------------------------------------------------------------------------
(* human_approval_gate.py.  The evidence facts of the metadata are          *)
(* [kind |-> "flag" | "approver" | "issued_at" | "token", value].           *)

Evidence(t, kind) == {f.value : f \in {g \in t : g.kind = kind}}

\* mutant: the signature covers the beginning of the plan only
approval_action_hash_short(t) == {m \in Matches(t) : m.category = "destructive_action"}

\* What the signature covers of the action: its words, spacing normalised.
approval_action_hash(t) == Matches(t)

\* The signature: a token says which action, when and by whom.
issue_approval_token(action_hash, issued_at, approver) ==
    [action |-> action_hash, issued_at |-> issued_at, approver |-> approver]

\* Of what excessive_agency knows, the actions: a scope or an operator's own
\* high-risk action is never gated, whatever the policy names.
_COMPILED_ACTIONS ==
    {"destructive_action", "external_side_effect", "privilege_escalation", "code_execution",
     "mutating_action"}

_gated_categories_in(c, t) ==
    build_action_scan_text(t) \cap c.gated_categories \cap _COMPILED_ACTIONS

\* The age may be up to a minute negative: clocks differ.
_verify_signature(c, t) ==
    LET approver == IF Evidence(t, "approver") = {} THEN "" ELSE CHOOSE a \in Evidence(t, "approver") : TRUE
        issued_at == CHOOSE n \in Evidence(t, "issued_at") : TRUE
        age == c.now - issued_at
    IN  CASE ~c.signing_secret -> {Hit("approval_signing_unconfigured", "high")}
          [] c.signing_secret /\ (Evidence(t, "token") = {} \/ Evidence(t, "issued_at") = {}) ->
                {Hit("unsigned_approval", "high")}
          [] OTHER ->
                IF c.max_age > 0 /\ (age > c.max_age \/ age < -1) THEN {Hit("expired_approval", "high")}
                ELSE IF issue_approval_token(approval_action_hash(t), issued_at, approver)
                            \notin Evidence(t, "token")
                THEN {Hit("invalid_approval_signature", "high")} ELSE {}

approved(c, t) ==
    /\ Evidence(t, "flag") # {}
    /\ c.require_signed_approval => _verify_signature(c, t) = {}

human_approval_gate_detect(c, t) ==
    LET categories == _gated_categories_in(c, t)
        hits == (IF c.require_signed_approval THEN _verify_signature(c, t) ELSE {})
                \cup (IF ~approved(c, t) THEN HitsOf(categories, "high")
                      ELSE IF c.require_approver_identity /\ Evidence(t, "approver") = {}
                      THEN {Hit("anonymous_approval", "medium")} ELSE {})
    IN  IF ~c.enabled \/ categories = {} THEN Allowed ELSE BlockOrWarn(c.action = "BLOCK", hits)

-----------------------------------------------------------------------------
(* tool_permission_audit.py.  A match: tool, and a trait of its declaration *)

_tool_identity(t, tool) == {m.trait : m \in {n \in Matches(t) : n.tool = tool}}

tool_permission_hits(c, t, tool) ==
    LET traits == _tool_identity(t, tool)
        Of(on, id, severity) == Finding(on, <<tool, id>>, severity)
    IN  Of(c.flag_open_ended /\ "open_ended" \in traits, "open_ended_tool", "high")
        \cup Of(c.flag_destructive_bundling /\ {"destructive", "read_only"} \subseteq traits,
                     "destructive_capability_bundled", "high")
        \cup Of(c.flag_wildcard_scopes /\ "wildcard_scope" \in traits, "wildcard_scope", "high")
        \cup Of(c.flag_wildcard_scopes /\ "admin_scope" \in traits, "admin_scope", "high")
        \cup Of(c.flag_unconstrained_params /\ "free_form" \in traits,
                     "unconstrained_parameter", "medium")

tool_permission_audit_detect(c, t) ==
    LET tools == {m.tool : m \in Matches(t)} \ c.allowed_tools
    IN  IF ~c.enabled \/ "not json" \in Contexts(t) THEN Allowed
        ELSE BlockOrWarn(c.action = "BLOCK", UNION {tool_permission_hits(c, t, x) : x \in tools})

-----------------------------------------------------------------------------
(* mcp_manifest_scanner.py.  A match: where ("text", "url", "perm",         *)
(* "egress"), class or host, too_deep and past_budget.                      *)

\* The numbers of a dotted host, the last filling the remaining bytes, as
\* inet_aton reads it; the bytes, or <<>> for no address.
_parse_legacy_ipv4(vals) ==
    LET n == Len(vals)
        bytes == 4 - (n - 1)
        last == vals[n]
    IN  IF \/ n \notin 1 .. 4
           \/ \E i \in 1 .. n - 1 : vals[i] > 255
           \/ last \div 256 ^ (bytes - 1) > 255
        THEN <<>>
        ELSE SubSeq(vals, 1, n - 1)
                \o [i \in 1 .. bytes |-> (last \div 256 ^ (bytes - i)) % 256]

\* Private, loopback, link-local, reserved, multicast, unspecified.
_is_dangerous_ip(ip) ==
    \/ ip[1] \in {0, 10, 127} \/ ip[1] >= 224
    \/ ip[1] = 172 /\ ip[2] \in 16 .. 31
    \/ ip[1] = 192 /\ ip[2] = 168
    \/ ip[1] = 169 /\ ip[2] = 254

_SSRF_HOSTNAMES == {"localhost", "metadata", "metadata.google.internal"}

\* Keys of a recognised name classify what is below them; everything is text,
\* up to the budget, and nothing is read below the depth limit.
_collect(t, where) ==
    {m \in Matches(t) : /\ m.where = where /\ ~m.too_deep
                        /\ where \in {"text", "url"} => ~m.past_budget}

\* full: of a key that names an egress target; addresses found in text are
\* only checked for internal hosts.
_scan_domains(c, m, full) ==
    LET ip == _parse_legacy_ipv4(m.host.numbers)
    IN  CASE ip # <<>> /\ _is_dangerous_ip(ip) -> {Hit(<<"ssrf_egress", ip>>, "high")}
          [] m.host.name \in _SSRF_HOSTNAMES -> {Hit(<<"ssrf_hostname", m.host.name>>, "high")}
          [] OTHER -> IF ~full THEN {}
                      ELSE IF ip # <<>> THEN {Hit(<<"raw_ip_egress", ip>>, "medium")}
                      ELSE IF c.allowed_domains # {} /\ m.host.name \notin c.allowed_domains
                      THEN {Hit(<<"unlisted_domain", m.host.name>>, "medium")} ELSE {}

mcp_patterns == [injection |-> "high", manipulation |-> "high", overreach |-> "medium"]
                    @@ exfiltration_patterns

_scan_permissions(c, t) ==
    {Hit(<<"dangerous_permission", m.class>>, "high") :
        m \in {n \in _collect(t, "perm") : n.class \in c.dangerous_permissions}}

mcp_manifest_scanner_detect(c, t) ==
    LET hits == {Hit(<<"pattern", m.class>>, mcp_patterns[m.class]) : m \in _collect(t, "text")}
                \cup _scan_permissions(c, t)
                \cup (UNION {_scan_domains(c, m, TRUE) : m \in _collect(t, "egress")})
                \cup (UNION {_scan_domains(c, m, FALSE) : m \in _collect(t, "url")})
    IN  IF ~c.enabled THEN Allowed
        ELSE BlockOrWarn(c.action = "BLOCK" /\ calculate_risk_score(hits) >= c.block_threshold, hits)

-----------------------------------------------------------------------------
(* semantic_cache_integrity.py.  The metadata block is the facts            *)
(* [kind, value]: "hit", "tenant", "partitioned", "similarity", "distance", *)
(* "overlap", "age"; similarity, distance and overlap in percent.           *)

Says(t, kind, Test(_)) == \E v \in Evidence(t, kind) : Test(v)

\* A block without a hit flag counts when it has a similarity; a distance alone
\* does not, although it would be read as one below.
served(t) ==
    IF Evidence(t, "hit") # {} THEN TRUE \in Evidence(t, "hit") ELSE Evidence(t, "similarity") # {}

similarity(t) ==
    IF Evidence(t, "similarity") # {} THEN Evidence(t, "similarity")
    ELSE {100 - d : d \in Evidence(t, "distance")}

cross_tenant(c, t) == c.tenant # "" /\ Says(t, "tenant", LAMBDA v : v # c.tenant)

semantic_cache_integrity_detect(c, t) ==
    LET known == c.tenant # "" /\ Evidence(t, "tenant") # {}
        unpartitioned == \/ FALSE \in Evidence(t, "partitioned")
                         \/ Evidence(t, "partitioned") = {} /\ Evidence(t, "tenant") = {}
        hits == Finding(cross_tenant(c, t), "cross_tenant_cache_hit", "high")
                \cup Finding(~known /\ c.require_partitioning /\ unpartitioned,
                             "unpartitioned_cache", "high")
                \cup Finding(\E s \in similarity(t) : s < c.min_similarity,
                             "low_similarity_hit", "medium")
                \cup Finding(Says(t, "overlap", LAMBDA v : v < c.min_token_overlap),
                             "query_divergence", "high")
                \cup Finding(c.max_age > 0 /\ Says(t, "age", LAMBDA v : v > c.max_age),
                             "stale_cache_entry", "medium")
    IN  IF ~c.enabled \/ ~served(t) THEN Allowed
        ELSE BlockOrWarn(c.action = "BLOCK" \/ (cross_tenant(c, t) /\ c.block_cross_tenant), hits)

-----------------------------------------------------------------------------
(* tenant_scope_assertion.py.  A match is a chunk: owner, "" for none.      *)

\* The tag of a chunk, on itself or in its metadata.
_tenant_of(m) == m.owner

tenant_scope_assertion_detect(c, t) ==
    LET foreign == {m \in Matches(t) : c.tenant # "" /\ _tenant_of(m) \notin {"", c.tenant}}
        untagged == {m \in Matches(t) : _tenant_of(m) = ""}
        late == Evidence(t, "scoped") # {} /\ TRUE \notin Evidence(t, "scoped")
        hits == HitsOf(foreign, "high")
                \cup (IF c.require_tenant_tags /\ untagged # {}
                      THEN {Hit([id |-> "unattributed_chunk"], "high")} ELSE {})
                \cup (IF c.require_query_scoping /\ Matches(t) # {} /\ late
                      THEN {Hit([id |-> "post_retrieval_filtering"], "medium")} ELSE {})
    IN  IF ~c.enabled THEN Allowed
        ELSE BlockOrWarn(c.action = "BLOCK" \/ (foreign # {} /\ c.block_cross_tenant), hits)

=============================================================================
