\* Calls meet every limit and the budget; database queries are unlimited in
\* number, so that only the budget and the timeline stop them.  (The package's
\* tests make such collectors; Normalize lets no limit be zero.)
SPECIFICATION IntegratedSpec
CONSTANTS
    MaxDBQueries = 0
    MaxCacheQueries = 1
    MaxLogs = 2
    MaxTimelineEvents = 2
    MaxRequestBytes = 5
    Estimates = {1, 2}
    MaxLong = 1
    Keys = {k}
    Values = {1}
    MaxCalls = 6
    MaxStrings = 2
    MaxFields = 2
    MaxFrames = 2
    FieldLists <- MCFieldLists
    CutKey <- MCCutKey
INVARIANTS Accounting QueriesOnTimeline WithinLimits TruncatedIffDropped ContextLossTold
PROPERTY ChargedOnlyIfRecorded
