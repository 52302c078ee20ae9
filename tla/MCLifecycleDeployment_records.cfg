SPECIFICATION DeploymentFairSpec
CONSTANTS
    n = n
    x = x
    y = y
    e1 = e1
    e2 = e2
    demo = demo
    None = None
    RequestId = {n, x, y}
    Numeral = {n}
    Rank <- MCRank
    Exec = {e1, e2}
    KeptJobs = 2
    MaxEvents = 5
    MaxFaults = 1
    Release = {demo}
    MaxKills = 1
INVARIANTS
    RecordsBounded
    ResultIsTrue
    OneExecutionWhileRecorded
PROPERTIES
    OutcomeOnlyRefused
    EverySpawnedFinishes
