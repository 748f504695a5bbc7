\* The decision rules of the detectors, a text growing by one fact at a time.
\* A text with every fact is the end: nothing is left to add.
SPECIFICATION RulesSpec
CONSTANTS
    TextLen = 8
    validate_nested <- MCvalidate_nested
    Settings <- MCSettings
    Facts <- MCFacts
INVARIANT RedactionComplete
INVARIANT ApprovalBound
INVARIANT SupportedClaimStands
PROPERTY EvidenceMonotone
CHECK_DEADLOCK FALSE
