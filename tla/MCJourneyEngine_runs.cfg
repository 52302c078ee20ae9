SPECIFICATION FairSpec
CONSTANTS
    a = a
    b = b
    Command = {a, b}
    Plan = {"success", "permission", "atlas-call", "atlas-revoked", "atlas-unpresented", "resource-unavailable"}
    Atlas = {"atlas-call", "atlas-revoked", "atlas-unpresented", "resource-unavailable"}
    Local = {"resource-unavailable"}
    Expected <- MCExpected
    Started <- MCStarted
    HistoryLimit = 1
    MaxSteps = 3
    MaxRuns = 3
    MaxRedeploys = 2
    None = None
INVARIANTS
    CompletedOnce
    GrantedByAllChecks
PROPERTIES
    VerdictFinal
    SuccessIsAnswered
    ImplementsSharedRun
    PendingResolves
