SPECIFICATION FairSpec
CONSTANTS
    n = n
    x = x
    y = y
    e1 = e1
    e2 = e2
    e3 = e3
    None = None
    RequestId = {n, x}
    Numeral = {n}
    Rank <- MCRank
    Exec = {e1, e2, e3}
    KeptJobs = 2
    MaxEvents = 1
    MaxFaults = 1
PROPERTY
    EveryAcceptedFinishes
