SPECIFICATION Spec
CONSTANTS
    t1 = t1
    t2 = t2
    Reqs = {r1, r2}
    Lines = {l1}
    Traces = {t1, t2}
    StoredTrace <- FittingTrace
    CanPanic = FALSE
    MaxLogs = 1
    MaxSources = 0
    NoTrace = NoTrace
    NoReq = NoReq
INVARIANT TracedLinesAccounted
CHECK_DEADLOCK FALSE
