SPECIFICATION FairSpec
CONSTANTS
    a = a
    b = b
    c = c
    NoFile = NoFile
    Corrupt = Corrupt
    Leftovers <- Dirty
    Procs = {a, b}
    Host <- OneHost
    Sync = {b}
    Horizon = 2
    MaxCalls = 2
    MaxBeats = 1
    MayCrash = {b}
PROPERTIES EveryCallReturns DeadOwnerReclaimed
CHECK_DEADLOCK FALSE
