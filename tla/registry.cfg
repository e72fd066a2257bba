\* Three requests, so that one can take out what another put in after a third.
\* No lines: they do not touch the registry.  No symmetry: a liveness property.
SPECIFICATION FairSpec
CONSTANTS
    t1 = t1
    t2 = t2
    Reqs = {r1, r2, r3}
    Lines = {}
    Traces = {t1, t2}
    StoredTrace <- CutTrace
    CanPanic = TRUE
    MaxLogs = 0
    MaxSources = 1
    NoTrace = NoTrace
    NoReq = NoReq
INVARIANTS CountMatchesRegistry LeaksOnlyByPanicOrCut
PROPERTY EventuallyQuiet
CHECK_DEADLOCK FALSE
