SPECIFICATION Spec
CONSTANTS
    q1 = q1
    q2 = q2
    d1 = d1
    d2 = d2
    Queued <- Submitters
    Direct <- Directs
    MaxBatch = 2
    MaxQueue = 1
    MaxStops = 1
\* every request is answered and no stop is left
CHECK_DEADLOCK FALSE
INVARIANT NothingStranded
INVARIANT DirectBounded
PROPERTY ExpiredNeverGathered
PROPERTY EveryCallerAnswered
