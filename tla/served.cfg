SPECIFICATION FairSpec
CONSTANTS
    Keys = {q1}
    Base = base
    Dynamic = FALSE
    Default = 1
    Limits = {2}
    MaxChanges = 1
    MaxJobs = 2
    MaxErrors = 1
    None = None
INVARIANT FixedLimit
PROPERTY QueueLiveness
