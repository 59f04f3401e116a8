SPECIFICATION FairSpec
CONSTANTS
    Jobs = {1, 2, 3, 4}
    Keys = {"a"}
    Single = "single"
    KeyOf <- MCKeyOf
    Malformed = {1}
    Exhausted = {3}
    BatchSize = 2
    ZeroTimeout = FALSE
    Slots = {1, 2}
    MaxErrors = 1
INVARIANT BatchesSound
INVARIANT PermitsFollowJobs
INVARIANT StoreAgrees
PROPERTY BatchesEnd
CHECK_DEADLOCK FALSE
