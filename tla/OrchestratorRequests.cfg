SPECIFICATION Spec
CONSTANTS
    h1 = h1
    h2 = h2
    eu = eu
    us = us
    None = None
    Length = 3
    Detectors = 3
    Members = 2
    Host = {h1, h2}
    Region = {eu, us}
    Stages = {"input", "retrieval"}
    Policies <- MCPolicies
    Reported <- MCReported
CHECK_DEADLOCK TRUE
INVARIANT EveryCrossingAudited
INVARIANT UncertifiedNeverEnforces
INVARIANT DeterministicStands
INVARIANT FailClosedBlocks
INVARIANT RedactionsCompose
