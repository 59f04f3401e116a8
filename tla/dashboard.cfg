SPECIFICATION Spec
CONSTANTS
    ConfigQueues = {"fixed", "base", "child"}
    ConfigChildren = {"child"}
    ConfigBase = "base"
    DefaultLimit = 1
    DynamicLimit = {"base"}
    Limits = {1, 2}
    Clients = {c1, c2}
    Unset = Unset
    MaxOps = 2
    Workers = {"v", "w"}
    MetricQueues = {"a"}
    Durations = {1, 2}
    JobCounts = {2}
    TicksPerMinute = 2
    MaxMinutes = 2
    DefaultMinutes = 1
    BucketCap = 1
    LastTick = 5
    MaxResults = 2
    ChildKeys = {d1, d2}
    None = None
    Lost = Lost
    Ttl = 1
    MaxLength = 2
    MaxAge = 1
    MaxSteps = 3
    Ids = {1, 2, 3}
    PerPage = 2
    MaxPage = 3
    MaxLimit = 2
    DeadLimit = 2
    MaxMoves = 4
    Values = {0, 1}
    Segments = {1, 2}
    MaxSegments = 4
    MaxEntries = 3
    Names = {n1, n2, n3}
    Keys = {"q"}
    Configs = {1}
    MaxRegistrations = 3
    Procs = {1, 2}
    WorkIds = {1}
    Threshold = 0
    MaxClock = 1
    WorkMoves = 3
    ChartKeys = {1, 2}
    MaxWindow = 5
    MaxSamples = 3
    FineWindow = 2
    MidWindow = 4
    MidBucket = 3
    WideBucket = 2
    Cap = 3
    MaxTotal = 3
SYMMETRY Symmetry
 
 
 
 
INVARIANT RegistrySound
 
CHECK_DEADLOCK FALSE
