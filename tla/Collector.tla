----------------------------- MODULE Collector -----------------------------
(***************************************************************************)
(* collector.go: what one request records, under per-kind limits and one   *)
(* byte budget, and what it admits to having dropped or cut.  Every method *)
(* holds the collector's mutex for its whole body, so each is one action   *)
(* and their interleavings are the orders in which goroutines call them.   *)
(*                                                                         *)
(* A list is its length.  A call brings the byte estimate reserveLocked is *)
(* asked for and the number of its strings longer than the limit.          *)
(*                                                                         *)
(* A definition X_Bug is X with a plausible bug, kept to show that the     *)
(* properties notice it; nothing else refers to it.                        *)
(***************************************************************************)
EXTENDS Integers, FiniteSetsExt

CONSTANTS
    MaxDBQueries, MaxCacheQueries, MaxLogs, MaxTimelineEvents,  \* 0: no limit
    MaxRequestBytes,                                            \* 0: no budget
    Estimates,      \* byte estimates of an entry; each includes a fixed overhead
    MaxLong,        \* over-long strings a call may bring, at most
    Keys, Values,   \* user data keys and the sizes of their values
    MaxCalls,       \* bound on the recording calls
    MaxStrings      \* bound on the strings cut by setters

ASSUME LimitsAssumption ==
    /\ MaxDBQueries \in Nat /\ MaxCacheQueries \in Nat
    /\ MaxLogs \in Nat /\ MaxTimelineEvents \in Nat /\ MaxRequestBytes \in Nat
ASSUME InputAssumption ==
    /\ Estimates \subseteq Nat \ {0} /\ MaxLong \in Nat
    /\ Values \subseteq Nat
ASSUME BoundAssumption == MaxCalls \in Nat /\ MaxStrings \in Nat

VARIABLES
    databaseQueries, cacheQueries, logEntries, timelineEvents,
    dropped,        \* bucket -> count
    truncated,
    usedBytes,      \* what reserveLocked has charged
    userData,       \* key -> size of its value; 0 when absent
    calls           \* Add* and SetResponseData calls so far (history)

lists == <<databaseQueries, cacheQueries, logEntries, timelineEvents>>
vars == <<lists, dropped, truncated, usedBytes, userData, calls>>

\* Calls that go wrong land in the first five, calls that are cut in the others.
LossBuckets == {"database", "cache", "logs", "timeline", "payload"}
Buckets == LossBuckets \cup {"strings", "log_context"}

Init ==
    /\ databaseQueries = 0 /\ cacheQueries = 0 /\ logEntries = 0 /\ timelineEvents = 0
    /\ dropped = [b \in Buckets |-> 0]
    /\ truncated = FALSE
    /\ usedBytes = 0
    /\ userData = [k \in Keys |-> 0]
    /\ calls = 0

-----------------------------------------------------------------------------
(* reserveLocked and appendTimelineLocked *)

Full_OffByOne(max, current) == max > 0 /\ current > max

Full(max, current) == max > 0 /\ current >= max

OverBudget(estimate) == MaxRequestBytes > 0 /\ usedBytes + estimate > MaxRequestBytes

Refuse_SilentBudget(bucket, max, current, estimate) ==
    /\ \/ /\ Full(max, current)
          /\ dropped' = [dropped EXCEPT ![bucket] = @ + 1]
          /\ truncated' = TRUE
       \/ /\ ~Full(max, current)
          /\ OverBudget(estimate)
          /\ UNCHANGED <<dropped, truncated>>
    /\ UNCHANGED <<lists, usedBytes>>

Refuse_Charges(bucket, max, current, estimate) ==
    /\ Full(max, current)
    /\ dropped' = [dropped EXCEPT ![bucket] = @ + 1]
    /\ truncated' = TRUE
    /\ usedBytes' = usedBytes + estimate
    /\ UNCHANGED <<lists>>

\* The reservation fails: the call leaves only a mark.
Refuse(bucket, max, current, estimate) ==
    /\ \/ /\ Full(max, current)
          /\ dropped' = [dropped EXCEPT ![bucket] = @ + 1]
       \/ /\ ~Full(max, current)
          /\ OverBudget(estimate)
          /\ dropped' = [dropped EXCEPT !["payload"] = @ + 1]
    /\ truncated' = TRUE
    /\ UNCHANGED <<lists, usedBytes>>

Reserve(max, current, estimate) ==
    /\ ~Full(max, current)
    /\ ~OverBudget(estimate)
    /\ usedBytes' = IF MaxRequestBytes > 0 THEN usedBytes + estimate ELSE usedBytes

Mark_ContextsUnflagged(strings, contexts, events) ==
    /\ dropped' = [dropped EXCEPT !["strings"] = @ + strings,
                                  !["log_context"] = @ + contexts,
                                  !["timeline"] = @ + events]
    /\ truncated' = (truncated \/ strings + events > 0)

\* Counts strings cut, contexts cut and timeline events refused by one call.
Mark(strings, contexts, events) ==
    /\ dropped' = [dropped EXCEPT !["strings"] = @ + strings,
                                  !["log_context"] = @ + contexts,
                                  !["timeline"] = @ + events]
    /\ truncated' = (truncated \/ strings + contexts + events > 0)

AppendTimeline_Silent(long, eventLong) ==
    \/ /\ Full(MaxTimelineEvents, timelineEvents)
       /\ Mark(long, 0, 0)
       /\ UNCHANGED timelineEvents
    \/ /\ ~Full(MaxTimelineEvents, timelineEvents)
       /\ timelineEvents' = timelineEvents + 1
       /\ Mark(long + eventLong, 0, 0)

\* The call's timeline event, which needs no reservation.  A full timeline
\* refuses it before its own strings (eventLong of them too long) are cut.
AppendTimeline(long, eventLong) ==
    \/ /\ Full(MaxTimelineEvents, timelineEvents)
       /\ Mark(long, 0, 1)
       /\ UNCHANGED timelineEvents
    \/ /\ ~Full(MaxTimelineEvents, timelineEvents)
       /\ timelineEvents' = timelineEvents + 1
       /\ Mark(long + eventLong, 0, 0)

Call == calls < MaxCalls /\ calls' = calls + 1 /\ UNCHANGED userData

-----------------------------------------------------------------------------
(* The methods *)

\* The query's event shows the query as cut already, so it is not cut again.
AddDatabaseQuery(estimate, long) ==
    /\ Call
    /\ \/ Refuse("database", MaxDBQueries, databaseQueries, estimate)
       \/ /\ Reserve(MaxDBQueries, databaseQueries, estimate)
          /\ databaseQueries' = databaseQueries + 1
          /\ AppendTimeline(long, 0)
          /\ UNCHANGED <<cacheQueries, logEntries>>

\* The event's description joins type and key and may be too long by itself.
AddCacheQuery(estimate, long, eventLong) ==
    /\ Call
    /\ \/ Refuse("cache", MaxCacheQueries, cacheQueries, estimate)
       \/ /\ Reserve(MaxCacheQueries, cacheQueries, estimate)
          /\ cacheQueries' = cacheQueries + 1
          /\ AppendTimeline(long, eventLong)
          /\ UNCHANGED <<databaseQueries, logEntries>>

\* overfull: the context has more than 20 fields; only the fact is counted, and
\* their bytes are in no estimate.
AddLogEntry(estimate, long, overfull) ==
    /\ Call
    /\ \/ Refuse("logs", MaxLogs, logEntries, estimate)
       \/ /\ Reserve(MaxLogs, logEntries, estimate)
          /\ logEntries' = logEntries + 1
          /\ Mark(long, overfull, 0)
          /\ UNCHANGED <<databaseQueries, cacheQueries, timelineEvents>>

AddTimelineEvent(estimate, long) ==
    /\ Call
    /\ \/ Refuse("timeline", MaxTimelineEvents, timelineEvents, estimate)
       \/ /\ Reserve(MaxTimelineEvents, timelineEvents, estimate)
          /\ AppendTimeline(0, long)
          /\ UNCHANGED <<databaseQueries, cacheQueries, logEntries>>

\* The response's own event, "request", is not reserved for.
SetResponseData(long) ==
    /\ Call
    /\ AppendTimeline(0, long)
    /\ UNCHANGED <<databaseQueries, cacheQueries, logEntries, usedBytes>>

\* SetURL, SetController and SetTrace: only their truncations show here.
SetRequestField(long) ==
    /\ dropped["strings"] + long <= MaxStrings
    /\ Mark(long, 0, 0)
    /\ UNCHANGED <<lists, usedBytes, userData, calls>>

\* No reservation, no truncation, no limit on the number of keys.
SetUserData(key, value) ==
    /\ userData' = [userData EXCEPT ![key] = value]
    /\ UNCHANGED <<lists, dropped, truncated, usedBytes, calls>>

Next ==
    \/ \E estimate \in Estimates, long \in 0..MaxLong :
        \/ AddDatabaseQuery(estimate, long)
        \/ \E eventLong \in 0..1 : AddCacheQuery(estimate, long, eventLong)
        \/ \E overfull \in 0..1 : AddLogEntry(estimate, long, overfull)
        \/ AddTimelineEvent(estimate, long)
    \/ \E long \in 0..1 : SetResponseData(long)
    \/ \E long \in 0..2 : SetRequestField(long)
    \/ \E key \in Keys, value \in Values : SetUserData(key, value)

Spec == Init /\ [][Next]_vars

-----------------------------------------------------------------------------
(* Properties *)

\* Every variable has its type.
TypeOK ==
    /\ databaseQueries \in Nat /\ cacheQueries \in Nat
    /\ logEntries \in Nat /\ timelineEvents \in Nat
    /\ dropped \in [Buckets -> Nat]
    /\ truncated \in BOOLEAN
    /\ usedBytes \in Nat
    /\ userData \in [Keys -> Nat]
    /\ calls \in Nat

Lost == dropped["database"] + dropped["cache"] + dropped["logs"]
            + dropped["timeline"] + dropped["payload"]

\* No call goes missing: each one ends as a log entry, as a timeline event or
\* in exactly one drop counter, whichever limit it met first.  (A query that is
\* recorded shows as its timeline event, or as one dropped from the timeline.)
Accounting == calls = logEntries + timelineEvents + Lost

\* Every query that is recorded is on the timeline or counted as missing there,
\* although the timeline fills up from other calls too.
QueriesOnTimeline ==
    databaseQueries + cacheQueries <= timelineEvents + dropped["timeline"]

\* No list outgrows its limit and no charge exceeds the budget; the timeline is
\* appended to by four methods, only one of which reserves a place on it.
WithinLimits ==
    /\ MaxDBQueries > 0 => databaseQueries <= MaxDBQueries
    /\ MaxCacheQueries > 0 => cacheQueries <= MaxCacheQueries
    /\ MaxLogs > 0 => logEntries <= MaxLogs
    /\ MaxTimelineEvents > 0 => timelineEvents <= MaxTimelineEvents
    /\ MaxRequestBytes > 0 => usedBytes <= MaxRequestBytes

\* The stored metadata owns up: it is marked truncated exactly when one of its
\* drop counters says what was dropped or cut.
TruncatedIffDropped == truncated <=> \E b \in Buckets : dropped[b] > 0

\* The budget is charged only for what is kept: a call that is refused after its
\* size was estimated does not eat up the budget of the calls after it.
ChargedOnlyIfRecorded ==
    [][usedBytes' # usedBytes =>
        \/ databaseQueries' + cacheQueries' + logEntries' + timelineEvents'
                > databaseQueries + cacheQueries + logEntries + timelineEvents
           /\ dropped'["payload"] = dropped["payload"]]_vars
=============================================================================
