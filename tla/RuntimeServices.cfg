SPECIFICATION Spec
CONSTANTS
    w1 = w1
    w2 = w2
    e1 = e1
    e2 = e2
    e3 = e3
    p1 = p1
    s1 = s1
    s2 = s2
    a = a
    b = b
    Worker <- TwoWorkers
    Pages = 4
    Filtered <- FilteredPages
    MaxFaults = 2
    Event <- ThreeEvents
    FailMode = "closed"
    MaxTorn = 2
    Pod <- OnePod
    MaxRequests = 4
    Redis = TRUE
    Limit = 2
    RateWindow = 2
    MaxClock = 2
    RemoteConfigs <- Remotes
    Timeout = 2
    Grace = 1
    Backoff = 1
    MaxRetries = 2
    MaxElapsed = 9
    Session <- TwoSessions
    Text <- TwoTexts
    Rate = 1
    Window = 1
    FloodAt = 2
    FloodMemory = 3
    RepeatAt = 2
    MaxStates = 1
    MaxTokens = 3
    MaxCalls = 5
    MaxTime = 2
\* every bounded service comes to an end
CHECK_DEADLOCK FALSE
INVARIANT CompletedIsWhole
INVARIANT LossBounded
INVARIANT RateBounded
INVARIANT ReturnsByDeadline
INVARIANT LoopCaught
INVARIANT AbuseMatchesLog
PROPERTY RunFinishes
