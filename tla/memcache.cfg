\* One id more than the index has room for, so that each Store evicts.
SPECIFICATION Spec
CONSTANTS
    p1 = p1
    p2 = p2
    p3 = p3
    s1 = s1
    s2 = s2
    Procs = {p1, p2, p3}
    Storages = {s1, s2}
    StorageOf <- TwoProcesses
    Ids = {a, b, c}
    MaxEntries = 2
    Nobody = Nobody
SYMMETRY MCSymmetry
INVARIANTS TypeOK IndexBounded NewestFirst NoLostUpdate ListedIsStored NoOrphans
