SPECIFICATION Spec
CONSTANTS
    a = a
    b = b
    c = c
    NoFile = NoFile
    Corrupt = Corrupt
    Leftovers <- Clean
    Procs = {a, b, c}
    Host <- TwoHosts
    Sync = {}
    Horizon = 2
    MaxCalls = 1
    MaxBeats = 2
    MayCrash = {a}
PROPERTY ImplementsTable
CHECK_DEADLOCK FALSE
