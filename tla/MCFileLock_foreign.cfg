SPECIFICATION Spec
CONSTANTS
    a = a
    b = b
    c = c
    NoFile = NoFile
    Corrupt = Corrupt
    Leftovers <- Clean
    Procs = {a, b, c}
    Host <- TwoHosts
    Sync = {}
    Horizon = 2
    MaxCalls = 1
    MaxBeats = 2
    MayCrash = {a}
INVARIANTS TypeOK ExclusiveUnlessRaced InsideOwnsRecord
PROPERTY LiveRecordStays
CHECK_DEADLOCK FALSE
