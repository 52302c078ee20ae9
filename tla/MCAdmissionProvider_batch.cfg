SPECIFICATION ProviderFairSpec
CONSTANTS
    a = a
    b = b
    r0 = r0
    r1 = r1
    r2 = r2
    f1 = f1
    f2 = f2
    q1 = q1
    q2 = q2
    None = None
    Empty = r0
    Broken = Broken
    Image = {a, b}
    WellFormed = {a, b}
    Revision = {r0, r1}
    Allowed <- MCAllowed
    Signed <- MCSigned
    Late = {}
    Request = {q1}
    Caller <- MCCaller
    Flight = {f1, f2}
    Concurrency = 1
    MaxInflight = 1
    MaxCacheEntries = 1
    MaxPolicies = 4
    MaxFaults = 0
    MaxExpiries = 0
    MaxEdits = 2
INVARIANTS
    ResponsesComplete
    LimitsHold
PROPERTIES
    EveryRequestAnswered
    EditsTakeEffect
