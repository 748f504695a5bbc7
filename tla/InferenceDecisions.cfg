SPECIFICATION Spec
CONSTANTS
    r1 = r1
    r2 = r2
    o1 = o1
    o2 = o2
    m1 = m1
    Stub = stub
    Variant = v
    Request <- Requests
    Operator <- Operators
    Model <- NamedModels
    Specs <- MCSpecs
    AllowStub = FALSE
    CacheSize = 1
    MaxInstalls = 1
    MaxBuilt = 3
SYMMETRY Interchangeable
\* every request is answered and every reload done
CHECK_DEADLOCK FALSE
INVARIANT PinnedRightModel
INVARIANT BatchedCacheFresh
INVARIANT StubNeverFabricates
