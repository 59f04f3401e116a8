SPECIFICATION FairSpec
CONSTANTS
    Dispatchers = {d1, d2}
    Limit = 2
    Window = 2
    Costs = {0, 1, 2}
    FallbackWait = 1
    MaxJobs = 4
    MaxErrors = 1
    Procs = {p1, p2}
    Occurrences = {2, 4}
    InitialOffset = 0
    Lookahead = 2
    MaxTime = 5
    None = None
    Attempts = {"p1", "p2"}
    Total = 2
    MaxRetries = 1
    MaxRuns = 3
    Jobs = {1, 2}
    MaxCrumbs = 1
    MaxCaptures = 2
INVARIANT ThrottleSound
INVARIANT CronSound
 
INVARIANT ReportsSound
PROPERTY DispatchMovesOn
CHECK_DEADLOCK FALSE
