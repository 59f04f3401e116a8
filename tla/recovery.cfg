SPECIFICATION Spec
CONSTANTS
    Ids = {j1}
    Queues = {q1}
    Procs = {p1, p2}
    Slots = {s1}
    Lasting = {j1}
    Unique = {j1}
    Delayed = {j1}
    DeadLimit = 1
    None = None
    MaxRetries = 1
    MaxGen = 2
    MaxFaults = 1
    MaxStalls = 0
    MaxDeletes = 0
    Loopers = {p1, p2}
SYMMETRY Symmetry
INVARIANT Custody
INVARIANT NoJobLost
INVARIANT ExclusiveExecution
INVARIANT LiveNeverSwept
PROPERTY NoEarlyPromotion
