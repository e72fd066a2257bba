\* Room for a third entry above the limit, as broken pipelines leave it.  The TTL
\* is a second and a half.
SPECIFICATION Spec
CONSTANTS
    Procs = {p1, p2}
    Ids = {a, b, c}
    MaxEntries = 2
    TTL = 3
    Second = 2
    MaxTime = 5
    MaxIndex = 3
    Never = Never
SYMMETRY MCSymmetry
INVARIANTS ExcessIsPassing ImmortalIsPassing IndexOutlivesMetadata StoredIsListed NewestFirst
