\* Two requests with any trace ids, the same one included, and two log lines, of
\* which a collector takes one.
SPECIFICATION Spec
CONSTANTS
    t1 = t1
    t2 = t2
    Reqs = {r1, r2}
    Lines = {l1, l2}
    Traces = {t1, t2}
    StoredTrace <- FittingTrace
    CanPanic = TRUE
    MaxLogs = 1
    MaxSources = 0
    NoTrace = NoTrace
    NoReq = NoReq
SYMMETRY MCSymmetry
INVARIANTS UniqueTracedLinesAccounted CountCoversRunning AttributedByTrace
CHECK_DEADLOCK FALSE
