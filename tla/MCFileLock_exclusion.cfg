SPECIFICATION Spec
CONSTANTS
    a = a
    b = b
    c = c
    NoFile = NoFile
    Corrupt = Corrupt
    Leftovers <- Clean
    Procs = {a, b, c}
    Host <- OneHost
    Sync = {a, b, c}
    Horizon = 2
    MaxCalls = 1
    MaxBeats = 0
    MayCrash = {a}
INVARIANT MutualExclusion
CHECK_DEADLOCK FALSE
