SPECIFICATION FairSpec
CONSTANTS
    None = None
    Installed <- Pages
    MaxRuns = 1
    MaxSteps = 2
    MaxSessions = 2
INVARIANTS
    PageOK
    EndedShowsNothing
PROPERTIES
    ViewNeverGoesBack
    EndedSessionDisables
    ProgressUnlessPending
