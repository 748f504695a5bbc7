SPECIFICATION Spec
CONSTANTS
    t1 = t1
    t2 = t2
    m1 = m1
    m2 = m2
    r1 = r1
    r2 = r2
    h1 = h1
    h2 = h2
    NoPin = NoPin
    Unstated = Unstated
    Absent = Absent
    Partial = Partial
    Moved = Moved
    Revision = {r1, r2}
    Handler = {h1, h2}
    Task = {t1}
    Model = {m1}
    Vetted = {m1}
    PinMaps <- OneTask
    Installable = {}
    Digests = TRUE
CHECK_DEADLOCK TRUE
INVARIANT VariantsArePinned
PROPERTY PinsConverge
PROPERTY UnpinnedIsEvicted
