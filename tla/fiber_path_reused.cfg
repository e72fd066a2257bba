\* One request, and a storage that keeps it.
SPECIFICATION ServiceSpec
CONSTANTS
    Codes = {200, 500}
    OK = 200
    None = None
    Sizes = {1}
    MaxEntries = 2
    MaxBytes = 3
    Retention = 1
    MaxOthers = 0
    MaxTime = 0
INVARIANT UriIsOwn
CHECK_DEADLOCK FALSE
