SPECIFICATION Spec
CONSTANTS
    t1 = t1
    t2 = t2
    Reqs = {r1}
    Lines = {}
    Traces = {t1, t2}
    StoredTrace <- FittingTrace
    CanPanic = TRUE
    MaxLogs = 0
    MaxSources = 0
    NoTrace = NoTrace
    NoReq = NoReq
INVARIANT NoCaptureWhenOver
CHECK_DEADLOCK FALSE
