SPECIFICATION FairSpec
CONSTANTS
    Ids = {i1}
    Workers = {w1}
    Tools = {1, 2}
    DeadLimit = 1
    Absent = Absent
    MaxGen = 2
    MaxOps = 2
    MaxErrors = 1
 
PROPERTY NothingVanishes
PROPERTY OrphansReclaimed
CHECK_DEADLOCK FALSE
