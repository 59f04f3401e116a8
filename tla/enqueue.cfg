SPECIFICATION FairSpec
CONSTANTS
    u1 = u1
    f1 = f1
    g1 = g1
    q1 = q1
    q2 = q2
    Clients = {c1, c2}
    Workers = {w1}
    Ids = {u1}
    Fresh = {f1, g1}
    Queues = {q1, q2}
    Requests <- MCRequests
    ChunkSize = 2
    MaxRequests = 2
    MaxRetries = 1
    None = None
INVARIANT UniqueInOnePlace
PROPERTY ImplementsAtomicEnqueue
PROPERTY RequestsAnswered
CHECK_DEADLOCK FALSE
