SPECIFICATION Spec
CONSTANTS
    Ids = {j1}
    Queues = {q1}
    Procs = {p1, p2}
    Slots = {s1}
    Lasting = {j1}
    Unique = {}
    Delayed = {}
    DeadLimit = 1
    None = None
    MaxRetries = 0
    MaxGen = 1
    MaxFaults = 1
    MaxStalls = 1
    MaxDeletes = 1
    Loopers = {p1, p2}
SYMMETRY Symmetry
INVARIANT TypeOK
INVARIANT NoStrandedClaim
