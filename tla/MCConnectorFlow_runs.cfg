SPECIFICATION FairSpec
CONSTANTS
    None = None
    MaxRuns = 2
    Timeout = 1
    ProofLifespan = 1
    ClockSkew = 1
    NonceLifespan = 1
    MaxTime = 2
    MaxEvents = 3
INVARIANTS
    ActsOnce
PROPERTIES
    RefusedForCause
    EveryRunEnds
CHECK_DEADLOCK FALSE
