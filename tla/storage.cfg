\* Two goroutines, three ids, an entry that fits alone, two that fit together and
\* one larger than the whole budget.  No symmetry: the abstract specification is
\* a temporal property.
SPECIFICATION Spec
CONSTANTS
    Procs = {p1, p2}
    Ids = {a, b, c}
    Sizes = {1, 2, 4}
    Ages = {0, 1}
    MaxEntries = 2
    MaxBytes = 3
    MaxTime = 3
    Nobody = Nobody
    NoEntry = NoEntry
INVARIANTS IndexMatchesList Chronological BytesExact WithinLimits ReadsAgree
PROPERTIES LossIsJustified CleanupIsComplete ImplementsRecencyLog
