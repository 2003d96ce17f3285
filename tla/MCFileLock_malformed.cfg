SPECIFICATION Spec
CONSTANTS
    a = a
    b = b
    c = c
    NoFile = NoFile
    Corrupt = Corrupt
    Leftovers <- Clean
    Procs = {a, b}
    Host <- OneHost
    Sync = {a, b}
    Horizon = 2
    MaxCalls = 2
    MaxBeats = 0
    MayCrash = {}
INVARIANT NeverMalformed
CHECK_DEADLOCK FALSE
