--------------------------- MODULE MCOrchestrator ---------------------------
(***************************************************************************)
(* Instances of Orchestrator for TLC: texts of three characters, policies  *)
(* of three detectors.                                                     *)
(***************************************************************************)
EXTENDS Orchestrator

CONSTANTS h1, h2, eu, us

Sidecar == [crosses |-> FALSE, host |-> h1, region |-> us]
Vendor  == [crosses |-> TRUE, host |-> h1, region |-> eu]
Foreign == [crosses |-> TRUE, host |-> h2, region |-> eu]

ML(b)    == [judge |-> FALSE, own |-> TRUE, backend |-> b]
Judge(b) == [judge |-> TRUE, own |-> FALSE, backend |-> b]

Off == [kind |-> "builtin", transforms |-> FALSE, stages |-> {}, finds |-> {},
        action |-> "BLOCK", spans |-> FALSE, order |-> <<>>, banded |-> FALSE,
        fallback |-> "fallback_to_deterministic", additive |-> FALSE,
        url |-> None, allowlist |-> Host, redacts |-> {}, stamp |-> "absent",
        on_fail |-> "unset"]

\* Redactors: pii rewrites the text and publishes its spans, secrets does not.
Pii     == [Off EXCEPT !.transforms = TRUE, !.stages = {"input", "retrieval"},
                       !.finds = {<<2, 4>>}, !.action = "REDACT", !.spans = TRUE]
Secrets == [Off EXCEPT !.stages = {"input"}, !.finds = {<<1, 2>>}, !.action = "REDACT"]
Competitor == [Off EXCEPT !.transforms = TRUE, !.stages = {"input"},
                          !.finds = {<<1, 2>>}, !.action = "TRANSFORM"]

\* A vendor behind the standalone path, and custom detectors.
Moderation == [Off EXCEPT !.kind = "standalone", !.stages = {"input"},
                          !.order = <<ML(Foreign)>>, !.redacts = {1}]
Plugin  == [Off EXCEPT !.kind = "custom", !.stages = {"input"}, !.finds = {<<1, 2>>}]
Webhook == [Off EXCEPT !.kind = "custom", !.stages = {"input"}, !.url = Vendor,
                       !.redacts = {1, 2}]

Open(ds)   == [detectors |-> ds, no_external_calls |-> FALSE,
               allowed_regions |-> Region, on_fail |-> "unset"]
Closed(ds) == [Open(ds) EXCEPT !.no_external_calls = TRUE]
InUS(ds)   == [Open(ds) EXCEPT !.allowed_regions = {us}]

\* Every fallback and stamp, additive or not, on one layer outside.
Escalating ==
    {Open(<<Secrets, [Pii EXCEPT !.order = <<ML(Vendor)>>, !.fallback = f,
                                 !.additive = a, !.stamp = s, !.redacts = {2}], Off>>) :
        f \in {"fail_open", "fail_closed", "fallback_to_deterministic"},
        a \in BOOLEAN, s \in {"absent", "failed", "unsigned", "signed"}}

\* A sidecar, then judges beside it or outside, asked only in a band.
Judged ==
    {Open(<<[Pii EXCEPT !.order = <<ML(Sidecar), Judge(b)>>, !.banded = TRUE,
                        !.fallback = f, !.additive = TRUE, !.stamp = "signed",
                        !.redacts = {3}], Secrets, last>>) :
        f \in {"fail_closed", "fallback_to_deterministic"}, b \in {Sidecar, Vendor},
        last \in {Off, Webhook}}

\* A layer without backend, a vendor, custom detectors, and policies that
\* forbid the vendor by switch, by region or by allowlist.
Vendors ==
    {Open(<<Moderation, Plugin, Webhook>>), Closed(<<Moderation, Webhook, Plugin>>),
     InUS(<<Pii, Moderation, Webhook>>),
     Open(<<Competitor, [Moderation EXCEPT !.allowlist = {h1}],
            [Webhook EXCEPT !.allowlist = {h2}]>>),
     Open(<<Competitor, Pii, [Moderation EXCEPT !.order = <<ML(None)>>]>>),
     Open(<<Pii, [Off EXCEPT !.kind = "standalone", !.stages = {"input"}], Webhook>>)}

\* Every on_fail of pii beside a detector that blocks, and a policy-wide one.
Remedied ==
    {Open(<<[Secrets EXCEPT !.action = a], [Pii EXCEPT !.on_fail = f], Off>>) :
        a \in {"BLOCK", "WARN"}, f \in OnFail}
    \cup {[Open(<<Secrets, [Moderation EXCEPT !.fallback = "fail_closed"], Plugin>>)
            EXCEPT !.on_fail = "reask"]}

MCPolicies == Escalating \cup Judged \cup Vendors \cup Remedied

\* Models report nothing, or an entity that overlaps what the rules found.
MCReported == {{}, {<<1, 3>>}}
=============================================================================
