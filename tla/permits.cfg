SPECIFICATION Spec
CONSTANTS
    Keys = {q1}
    Base = q1
    Dynamic = TRUE
    Default = 1
    Limits = {0, 2}
    MaxChanges = 2
    MaxJobs = 3
    MaxErrors = 1
    None = None
INVARIANT TypeOK
INVARIANT PermitsExact
INVARIANT NoLostWakeup
INVARIANT ReceiverOutlivesSenders
