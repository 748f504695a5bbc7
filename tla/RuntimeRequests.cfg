SPECIFICATION Spec
CONSTANTS
    x1 = x1
    x2 = x2
    x3 = x3
    t1 = t1
    Texts <- TextRequests
    Tools <- ToolRequests
    Workers = 1
    QueueMax = 1
    Members = 2
    MaxCalls = 1
    MaxBuffer = 2
    BatchSize = 1
    Configs <- Settings
\* every request is answered and the runtime has stopped
CHECK_DEADLOCK FALSE
INVARIANT PermitsConserved
INVARIANT OverspendBounded
INVARIANT TelemetryTruthful
PROPERTY DeadlineAnswers
