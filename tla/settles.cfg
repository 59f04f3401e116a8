SPECIFICATION FairSpec
CONSTANTS
    Ids = {j1}
    Queues = {q1}
    Procs = {p1, p2}
    Slots = {s1}
    Lasting = {j1}
    Unique = {j1}
    Delayed = {}
    DeadLimit = 1
    None = None
    MaxRetries = 1
    MaxGen = 1
    MaxFaults = 1
    MaxStalls = 0
    MaxDeletes = 1
    Loopers = {p1, p2}
PROPERTY EveryJobSettles
