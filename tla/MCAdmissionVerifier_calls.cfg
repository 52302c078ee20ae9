SPECIFICATION FairSpec
CONSTANTS
    a = a
    b = b
    r1 = r1
    r2 = r2
    f1 = f1
    f2 = f2
    c1 = c1
    c2 = c2
    None = None
    Image = {a}
    WellFormed = {a}
    Revision = {r1, r2}
    Allowed <- MCAllowed
    Signed <- MCSigned
    Late = {a}
    Caller = {c1, c2}
    Flight = {f1, f2}
    Concurrency = 1
    MaxInflight = 1
    MaxCacheEntries = 2
    MaxPolicies = 2
    MaxFaults = 1
    MaxExpiries = 1
INVARIANTS
    SingleFlight
    CacheOfPolicyInForce
    AnswersAreSound
PROPERTIES
    FinishedFlightNeverMissed
    ImplementsOracle
    ColdVerificationDecides
