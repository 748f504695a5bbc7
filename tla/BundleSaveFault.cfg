SPECIFICATION Spec
CONSTANTS
    b1 = b1
    b2 = b2
    bad = bad
    None = None
    Garbage = Garbage
    Yaml = Yaml
    Bundle <- MCBundle
    Valid <- MCValid
    NonEmpty <- MCNonEmpty
    Configs <- MCFaultyDisk
    MaxAttempts = 2
    PolicyFiles = {None}
    Damage = {}
CHECK_DEADLOCK TRUE
PROPERTY FailuresOnlyDelay
