\* The request and two others of one, two or four bytes share a storage of two
\* entries and three bytes: together, alone or not at all do they fit.
SPECIFICATION ServiceSpec
CONSTANTS
    Codes = {200, 404, 500}
    OK = 200
    None = None
    Sizes = {1, 2, 4}
    MaxEntries = 2
    MaxBytes = 3
    Retention = 1
    MaxOthers = 3
    MaxTime = 3
INVARIANTS StatusAgrees StaysRetrievable
PROPERTY IdResolves
CHECK_DEADLOCK FALSE
