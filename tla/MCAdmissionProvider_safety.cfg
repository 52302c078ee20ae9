SPECIFICATION ProviderSpec
CONSTANTS
    a = a
    b = b
    r0 = r0
    r1 = r1
    r2 = r2
    f1 = f1
    f2 = f2
    q1 = q1
    q2 = q2
    None = None
    Empty = r0
    Broken = Broken
    Image = {a}
    WellFormed = {a}
    Revision = {r0, r1, r2}
    Allowed <- MCAllowed
    Signed <- MCSigned
    Late = {}
    Request = {q1, q2}
    Caller <- MCCaller
    Flight = {f1, f2}
    Concurrency = 1
    MaxInflight = 2
    MaxCacheEntries = 2
    MaxPolicies = 4
    MaxFaults = 0
    MaxExpiries = 0
    MaxEdits = 2
SYMMETRY MCSymmetry
INVARIANTS
    NoRevokedAdmission
