SPECIFICATION FairSpec
CONSTANTS
    None = None
    Installed <- Redirected
    MaxRuns = 1
    MaxSteps = 2
    MaxSessions = 2
PROPERTIES
    ProgressIsShown
