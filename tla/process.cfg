SPECIFICATION FairSpec
CONSTANTS
    Coordinators = {"c1"}
    Polls = {"cron"}
    Sweepers = {"resurrect"}
    Owned = {"job_loop"}
    Spawned = {"batch"}
    HasDeadline = TRUE
    Tolerance = 2
    MaxFailures = 2
    Ping = "ping"
    None = None
    Collectors = {"c1", "c2"}
    Queues = {"a", "d"}
    JobCounts = {2}
    ExitWhen = 3
    MaxResults = 2
    MaxFaults = 2
    MaxEvents = 3
    MaxLength = 1
    Drains = {"d1", "d2"}
    Ids = {1, 2}
    DrainFaults = 2
    MaxRequeues = 2
    Window = 12
    Initial = 2
    Ceiling = 4
    LongestTry = 3
INVARIANT ShutdownOrderly
INVARIANT StatisticsSound
 
INVARIANT RetryBounded
PROPERTY EverythingEnds
CHECK_DEADLOCK FALSE
