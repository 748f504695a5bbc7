SPECIFICATION Spec
CONSTANTS
    b1 = b1
    b2 = b2
    bad = bad
    None = None
    Garbage = Garbage
    Yaml = Yaml
    Bundle <- MCBundle
    Valid <- MCValid
    NonEmpty <- MCNonEmpty
    Configs <- MCConfigs
    MaxAttempts = 2
    PolicyFiles <- MCFiles
    Damage <- MCDamage
CHECK_DEADLOCK TRUE
INVARIANT FailClosedHasPolicy
INVARIANT EtagNamesBundle
INVARIANT RestartServesSame
PROPERTY ImplementsPolicySource
PROPERTY PolicyFreshness
PROPERTY ListenersConverge
