SPECIFICATION FairLoopSpec
CONSTANTS
    Procs = {loop, req}
    Loop = loop
    Ids = {a, b}
    Sizes = {1}
    Ages = {1}
    MaxEntries = 1
    MaxBytes = 3
    MaxTime = 4
    Interval = 2
    Retention = 1
    Nobody = Nobody
    NoEntry = NoEntry
PROPERTIES StopEndsLoop ExpiredIsRemoved CallsReturn
