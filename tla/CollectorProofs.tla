--------------------------- MODULE CollectorProofs ---------------------------
(***************************************************************************)
(* Collector's invariants for every choice of limits, budget and inputs.   *)
(* IInv, their conjunction, is inductive.  The first lemmas say what the   *)
(* shared helpers do to the drop counters, to the timeline and to the      *)
(* budget; a lemma per method combines them.  They are about calls with    *)
(* any estimate and any number of long strings, so that they hold, too,    *)
(* when the calls come from Integrations: it is enough to show that every  *)
(* step of an integration is such a call.                                  *)
(*                                                                         *)
(* That the loss of a log field is never silent rests on what AppendFields *)
(* leaves out of a map: nothing, unless the map is full.                   *)
(***************************************************************************)
EXTENDS Integrations, Numbers

IInv ==
    /\ TypeOK
    /\ Accounting
    /\ QueriesOnTimeline
    /\ WithinLimits
    /\ TruncatedIffDropped

LEMMA BucketsListed ==
    Buckets = {"database", "cache", "logs", "timeline", "payload", "strings", "log_context"}
BY DEF Buckets, LossBuckets

LEMMA LostType == TypeOK => Lost \in Nat
BY BucketsListed DEF TypeOK, Lost

LEMMA MarkEffect ==
    ASSUME TypeOK, NEW s \in Nat, NEW c \in Nat, NEW e \in Nat, Mark(s, c, e)
    PROVE  /\ dropped' \in [Buckets -> Nat]
           /\ truncated' \in BOOLEAN
           /\ dropped'["timeline"] = dropped["timeline"] + e
           /\ Lost' = Lost + e
           /\ TruncatedIffDropped => TruncatedIffDropped'
<1>1. dropped' \in [Buckets -> Nat]
  BY BucketsListed DEF TypeOK, Mark
<1>2. truncated' \in BOOLEAN
  BY Zenon DEF Mark
<1>3. /\ dropped'["timeline"] = dropped["timeline"] + e
      /\ dropped'["strings"] = dropped["strings"] + s
      /\ dropped'["log_context"] = dropped["log_context"] + c
      /\ \A b \in Buckets \ {"timeline", "strings", "log_context"} : dropped'[b] = dropped[b]
  BY BucketsListed DEF TypeOK, Mark
<1>4. Lost' = Lost + e
  BY <1>3, BucketsListed DEF TypeOK, Lost
<1>5. ASSUME TruncatedIffDropped PROVE TruncatedIffDropped'
  <2>1. CASE s + c + e > 0
    <3>1. truncated'
      BY <2>1 DEF Mark
    <3>2. \E b \in Buckets : dropped'[b] > 0
      BY <2>1, <1>3, BucketsListed DEF TypeOK
    <3> QED
      BY <3>1, <3>2 DEF TruncatedIffDropped
  <2>2. CASE ~(s + c + e > 0)
    <3>1. truncated' <=> truncated
      BY <2>2 DEF Mark
    <3>2. \A b \in Buckets : dropped'[b] = dropped[b]
      BY <2>2, <1>3, BucketsListed DEF TypeOK
    <3> QED
      BY <1>5, <3>1, <3>2 DEF TruncatedIffDropped
  <2> QED
    BY <2>1, <2>2
<1> QED
  BY <1>1, <1>2, <1>3, <1>4, <1>5

LEMMA RefuseEffect ==
    ASSUME TypeOK, NEW b \in LossBuckets, NEW m, NEW n, NEW e, Refuse(b, m, n, e)
    PROVE  /\ dropped' \in [Buckets -> Nat]
           /\ truncated' \in BOOLEAN
           /\ dropped'["timeline"] >= dropped["timeline"]
           /\ Lost' = Lost + 1
           /\ TruncatedIffDropped'
           /\ UNCHANGED <<lists, usedBytes>>
<1>1. PICK d \in LossBuckets : dropped' = [dropped EXCEPT ![d] = @ + 1]
  BY DEF Refuse, LossBuckets
<1>2. /\ dropped' \in [Buckets -> Nat]
      /\ dropped'[d] = dropped[d] + 1
      /\ \A x \in Buckets \ {d} : dropped'[x] = dropped[x]
  BY <1>1 DEF TypeOK, Buckets
<1>3. Lost' = Lost + 1 /\ dropped'["timeline"] >= dropped["timeline"]
  BY <1>2 DEF TypeOK, Lost, LossBuckets, Buckets
<1>4. truncated' /\ truncated' \in BOOLEAN
  BY Zenon DEF Refuse
<1>5. \E x \in Buckets : dropped'[x] > 0
  BY <1>2 DEF TypeOK, Buckets
<1>6. UNCHANGED <<lists, usedBytes>>
  BY DEF Refuse
<1> QED
  BY <1>2, <1>3, <1>4, <1>5, <1>6 DEF TruncatedIffDropped

LEMMA AppendTimelineEffect ==
    ASSUME TypeOK, NEW long \in Nat, NEW eventLong \in Nat, AppendTimeline(long, eventLong)
    PROVE  /\ timelineEvents' \in Nat
           /\ dropped' \in [Buckets -> Nat]
           /\ truncated' \in BOOLEAN
           /\ Lost' \in Nat
           /\ timelineEvents' + Lost' = timelineEvents + Lost + 1
           /\ timelineEvents' + dropped'["timeline"] = timelineEvents + dropped["timeline"] + 1
           /\ MaxTimelineEvents > 0 /\ timelineEvents <= MaxTimelineEvents
                => timelineEvents' <= MaxTimelineEvents
           /\ TruncatedIffDropped => TruncatedIffDropped'
<1>t. dropped["timeline"] \in Nat /\ timelineEvents \in Nat /\ Lost \in Nat
  BY LostType, BucketsListed DEF TypeOK
<1>1. CASE Full(MaxTimelineEvents, timelineEvents) /\ Mark(long, 0, 1) /\ UNCHANGED timelineEvents
  BY <1>1, <1>t, MarkEffect
<1>2. CASE /\ ~Full(MaxTimelineEvents, timelineEvents)
           /\ timelineEvents' = timelineEvents + 1
           /\ Mark(long + eventLong, 0, 0)
  <2>1. long + eventLong \in Nat
    OBVIOUS
  <2>2. /\ dropped' \in [Buckets -> Nat]
        /\ truncated' \in BOOLEAN
        /\ dropped'["timeline"] = dropped["timeline"] + 0
        /\ Lost' = Lost + 0
        /\ TruncatedIffDropped => TruncatedIffDropped'
    BY <1>2, <2>1, MarkEffect
  <2>3. MaxTimelineEvents > 0 => timelineEvents' <= MaxTimelineEvents
    BY <1>2, <1>t, LimitsAssumption DEF Full
  <2> QED
    BY <1>2, <1>t, <2>2, <2>3
<1> QED
  BY <1>1, <1>2 DEF AppendTimeline

LEMMA ReserveEffect ==
    ASSUME TypeOK, NEW m \in Nat, NEW n \in Nat, NEW e \in Nat, Reserve(m, n, e)
    PROVE  /\ usedBytes' \in Nat
           /\ MaxRequestBytes > 0 => usedBytes' <= MaxRequestBytes
           /\ m > 0 => n + 1 <= m
BY LimitsAssumption DEF TypeOK, Reserve, Full, OverBudget

\* A refused call, whatever the method.
LEMMA RefuseKeeps ==
    ASSUME IInv, Call, NEW b \in LossBuckets, NEW m, NEW n, NEW e, Refuse(b, m, n, e)
    PROVE  IInv'
<1>1. TypeOK
  BY DEF IInv
<1>2. /\ dropped' \in [Buckets -> Nat]
      /\ truncated' \in BOOLEAN
      /\ dropped'["timeline"] >= dropped["timeline"]
      /\ Lost' = Lost + 1
      /\ TruncatedIffDropped'
      /\ UNCHANGED <<lists, usedBytes>>
  BY <1>1, RefuseEffect
<1>3. calls' = calls + 1 /\ userData' = userData
  BY DEF Call
<1>4. TypeOK'
  BY <1>1, <1>2, <1>3 DEF TypeOK, lists
<1>5. Accounting'
  BY <1>1, <1>2, <1>3, LostType DEF IInv, TypeOK, Accounting, lists
<1>6. QueriesOnTimeline'
  BY <1>1, <1>2, BucketsListed DEF IInv, TypeOK, QueriesOnTimeline, lists
<1>7. WithinLimits'
  BY <1>2 DEF IInv, WithinLimits, lists
<1> QED
  BY <1>2, <1>4, <1>5, <1>6, <1>7 DEF IInv

LEMMA AddDatabaseQueryKeeps ==
    ASSUME IInv, NEW e \in Nat, NEW long \in Nat, AddDatabaseQuery(e, long)
    PROVE  IInv'
<1>1. TypeOK /\ MaxDBQueries \in Nat /\ databaseQueries \in Nat
  BY LimitsAssumption DEF IInv, TypeOK
<1>2. CASE Refuse("database", MaxDBQueries, databaseQueries, e)
  BY <1>2, RefuseKeeps DEF AddDatabaseQuery, LossBuckets
<1>3. CASE /\ Reserve(MaxDBQueries, databaseQueries, e)
           /\ databaseQueries' = databaseQueries + 1
           /\ AppendTimeline(long, 0)
           /\ UNCHANGED <<cacheQueries, logEntries>>
  <2>1. /\ usedBytes' \in Nat
        /\ MaxRequestBytes > 0 => usedBytes' <= MaxRequestBytes
        /\ MaxDBQueries > 0 => databaseQueries + 1 <= MaxDBQueries
    BY <1>1, <1>3, ReserveEffect
  <2>2. /\ timelineEvents' \in Nat
        /\ dropped' \in [Buckets -> Nat]
        /\ truncated' \in BOOLEAN
        /\ Lost' \in Nat
        /\ timelineEvents' + Lost' = timelineEvents + Lost + 1
        /\ timelineEvents' + dropped'["timeline"] = timelineEvents + dropped["timeline"] + 1
        /\ MaxTimelineEvents > 0 /\ timelineEvents <= MaxTimelineEvents
             => timelineEvents' <= MaxTimelineEvents
        /\ TruncatedIffDropped => TruncatedIffDropped'
    BY <1>1, <1>3, AppendTimelineEffect
  <2>3. calls' = calls + 1 /\ userData' = userData
    BY DEF AddDatabaseQuery, Call
  <2>4. TypeOK'
    BY <1>1, <1>3, <2>1, <2>2, <2>3 DEF TypeOK
  <2>5. Accounting'
    BY <1>1, <1>3, <2>2, <2>3, <2>4, LostType DEF IInv, TypeOK, Accounting
  <2>6. QueriesOnTimeline'
    BY <1>1, <1>3, <2>2, <2>4, BucketsListed DEF IInv, TypeOK, QueriesOnTimeline
  <2>7. WithinLimits'
    BY <1>1, <1>3, <2>1, <2>2 DEF IInv, WithinLimits
  <2> QED
    BY <2>2, <2>4, <2>5, <2>6, <2>7 DEF IInv
<1> QED
  BY <1>2, <1>3 DEF AddDatabaseQuery

LEMMA AddCacheQueryKeeps ==
    ASSUME IInv, NEW e \in Nat, NEW long \in Nat, NEW eventLong \in Nat, AddCacheQuery(e, long, eventLong)
    PROVE  IInv'
<1>1. TypeOK /\ MaxCacheQueries \in Nat /\ cacheQueries \in Nat
  BY LimitsAssumption DEF IInv, TypeOK
<1>2. CASE Refuse("cache", MaxCacheQueries, cacheQueries, e)
  BY <1>2, RefuseKeeps DEF AddCacheQuery, LossBuckets
<1>3. CASE /\ Reserve(MaxCacheQueries, cacheQueries, e)
           /\ cacheQueries' = cacheQueries + 1
           /\ AppendTimeline(long, eventLong)
           /\ UNCHANGED <<databaseQueries, logEntries>>
  <2>1. /\ usedBytes' \in Nat
        /\ MaxRequestBytes > 0 => usedBytes' <= MaxRequestBytes
        /\ MaxCacheQueries > 0 => cacheQueries + 1 <= MaxCacheQueries
    BY <1>1, <1>3, ReserveEffect
  <2>2. /\ timelineEvents' \in Nat
        /\ dropped' \in [Buckets -> Nat]
        /\ truncated' \in BOOLEAN
        /\ Lost' \in Nat
        /\ timelineEvents' + Lost' = timelineEvents + Lost + 1
        /\ timelineEvents' + dropped'["timeline"] = timelineEvents + dropped["timeline"] + 1
        /\ MaxTimelineEvents > 0 /\ timelineEvents <= MaxTimelineEvents
             => timelineEvents' <= MaxTimelineEvents
        /\ TruncatedIffDropped => TruncatedIffDropped'
    BY <1>1, <1>3, AppendTimelineEffect
  <2>3. calls' = calls + 1 /\ userData' = userData
    BY DEF AddCacheQuery, Call
  <2>4. TypeOK'
    BY <1>1, <1>3, <2>1, <2>2, <2>3 DEF TypeOK
  <2>5. Accounting'
    BY <1>1, <1>3, <2>2, <2>3, <2>4, LostType DEF IInv, TypeOK, Accounting
  <2>6. QueriesOnTimeline'
    BY <1>1, <1>3, <2>2, <2>4, BucketsListed DEF IInv, TypeOK, QueriesOnTimeline
  <2>7. WithinLimits'
    BY <1>1, <1>3, <2>1, <2>2 DEF IInv, WithinLimits
  <2> QED
    BY <2>2, <2>4, <2>5, <2>6, <2>7 DEF IInv
<1> QED
  BY <1>2, <1>3 DEF AddCacheQuery

LEMMA AddLogEntryKeeps ==
    ASSUME IInv, NEW e \in Nat, NEW long \in Nat, NEW o \in Nat,
           AddLogEntry(e, long, o)
    PROVE  IInv'
<1>1. TypeOK /\ MaxLogs \in Nat /\ logEntries \in Nat
  BY LimitsAssumption DEF IInv, TypeOK
<1>2. CASE Refuse("logs", MaxLogs, logEntries, e)
  BY <1>2, RefuseKeeps DEF AddLogEntry, LossBuckets
<1>3. CASE /\ Reserve(MaxLogs, logEntries, e)
           /\ logEntries' = logEntries + 1
           /\ Mark(long, o, 0)
           /\ UNCHANGED <<databaseQueries, cacheQueries, timelineEvents>>
  <2>1. /\ usedBytes' \in Nat
        /\ MaxRequestBytes > 0 => usedBytes' <= MaxRequestBytes
        /\ MaxLogs > 0 => logEntries + 1 <= MaxLogs
    BY <1>1, <1>3, ReserveEffect
  <2>2. /\ dropped' \in [Buckets -> Nat]
        /\ truncated' \in BOOLEAN
        /\ dropped'["timeline"] = dropped["timeline"] + 0
        /\ Lost' = Lost + 0
        /\ TruncatedIffDropped => TruncatedIffDropped'
    BY <1>1, <1>3, MarkEffect
  <2>3. calls' = calls + 1 /\ userData' = userData
    BY DEF AddLogEntry, Call
  <2>4. TypeOK'
    BY <1>1, <1>3, <2>1, <2>2, <2>3 DEF TypeOK
  <2>5. Accounting'
    BY <1>1, <1>3, <2>2, <2>3, <2>4, LostType DEF IInv, TypeOK, Accounting
  <2>6. QueriesOnTimeline'
    BY <1>1, <1>3, <2>2, <2>4, BucketsListed DEF IInv, TypeOK, QueriesOnTimeline
  <2>7. WithinLimits'
    BY <1>1, <1>3, <2>1 DEF IInv, WithinLimits
  <2> QED
    BY <2>2, <2>4, <2>5, <2>6, <2>7 DEF IInv
<1> QED
  BY <1>2, <1>3 DEF AddLogEntry

LEMMA AddTimelineEventKeeps ==
    ASSUME IInv, NEW e \in Nat, NEW long \in Nat, AddTimelineEvent(e, long)
    PROVE  IInv'
<1>1. TypeOK /\ MaxTimelineEvents \in Nat /\ timelineEvents \in Nat
  BY LimitsAssumption DEF IInv, TypeOK
<1>2. CASE Refuse("timeline", MaxTimelineEvents, timelineEvents, e)
  BY <1>2, RefuseKeeps DEF AddTimelineEvent, LossBuckets
<1>3. CASE /\ Reserve(MaxTimelineEvents, timelineEvents, e)
           /\ AppendTimeline(0, long)
           /\ UNCHANGED <<databaseQueries, cacheQueries, logEntries>>
  <2>1. usedBytes' \in Nat /\ (MaxRequestBytes > 0 => usedBytes' <= MaxRequestBytes)
    BY <1>1, <1>3, ReserveEffect
  <2>2. /\ timelineEvents' \in Nat
        /\ dropped' \in [Buckets -> Nat]
        /\ truncated' \in BOOLEAN
        /\ Lost' \in Nat
        /\ timelineEvents' + Lost' = timelineEvents + Lost + 1
        /\ timelineEvents' + dropped'["timeline"] = timelineEvents + dropped["timeline"] + 1
        /\ MaxTimelineEvents > 0 /\ timelineEvents <= MaxTimelineEvents
             => timelineEvents' <= MaxTimelineEvents
        /\ TruncatedIffDropped => TruncatedIffDropped'
    BY <1>1, <1>3, AppendTimelineEffect
  <2>3. calls' = calls + 1 /\ userData' = userData
    BY DEF AddTimelineEvent, Call
  <2>4. TypeOK'
    BY <1>1, <1>3, <2>1, <2>2, <2>3 DEF TypeOK
  <2>5. Accounting'
    BY <1>1, <1>3, <2>2, <2>3, <2>4, LostType DEF IInv, TypeOK, Accounting
  <2>6. QueriesOnTimeline'
    BY <1>1, <1>3, <2>2, <2>4, BucketsListed DEF IInv, TypeOK, QueriesOnTimeline
  <2>7. WithinLimits'
    BY <1>1, <1>3, <2>1, <2>2 DEF IInv, WithinLimits
  <2> QED
    BY <2>2, <2>4, <2>5, <2>6, <2>7 DEF IInv
<1> QED
  BY <1>2, <1>3 DEF AddTimelineEvent

LEMMA SetResponseDataKeeps ==
    ASSUME IInv, NEW long \in Nat, SetResponseData(long)
    PROVE  IInv'
<1>1. TypeOK
  BY DEF IInv
<1>2. /\ timelineEvents' \in Nat
      /\ dropped' \in [Buckets -> Nat]
      /\ truncated' \in BOOLEAN
      /\ Lost' \in Nat
      /\ timelineEvents' + Lost' = timelineEvents + Lost + 1
      /\ timelineEvents' + dropped'["timeline"] = timelineEvents + dropped["timeline"] + 1
      /\ MaxTimelineEvents > 0 /\ timelineEvents <= MaxTimelineEvents
           => timelineEvents' <= MaxTimelineEvents
      /\ TruncatedIffDropped => TruncatedIffDropped'
  BY <1>1, AppendTimelineEffect DEF SetResponseData
<1>3. /\ calls' = calls + 1 /\ userData' = userData
      /\ UNCHANGED <<databaseQueries, cacheQueries, logEntries, usedBytes>>
  BY DEF SetResponseData, Call
<1>4. TypeOK'
  BY <1>1, <1>2, <1>3 DEF TypeOK
<1>5. Accounting'
  BY <1>1, <1>2, <1>3, <1>4, LostType DEF IInv, TypeOK, Accounting
<1>6. QueriesOnTimeline'
  BY <1>1, <1>2, <1>3, <1>4, BucketsListed DEF IInv, TypeOK, QueriesOnTimeline
<1>7. WithinLimits'
  BY <1>2, <1>3 DEF IInv, WithinLimits
<1> QED
  BY <1>2, <1>4, <1>5, <1>6, <1>7 DEF IInv

LEMMA SetRequestFieldKeeps ==
    ASSUME IInv, NEW long \in Nat, SetRequestField(long)
    PROVE  IInv'
<1>1. TypeOK
  BY DEF IInv
<1>2. /\ dropped' \in [Buckets -> Nat]
      /\ truncated' \in BOOLEAN
      /\ dropped'["timeline"] = dropped["timeline"] + 0
      /\ Lost' = Lost + 0
      /\ TruncatedIffDropped => TruncatedIffDropped'
  BY <1>1, MarkEffect DEF SetRequestField
<1>3. UNCHANGED <<lists, usedBytes, userData, calls>>
  BY DEF SetRequestField
<1>4. TypeOK'
  BY <1>1, <1>2, <1>3 DEF TypeOK, lists
<1>5. Accounting'
  BY <1>1, <1>2, <1>3, LostType DEF IInv, TypeOK, Accounting, lists
<1>6. QueriesOnTimeline'
  BY <1>1, <1>2, <1>3, BucketsListed DEF IInv, TypeOK, QueriesOnTimeline, lists
<1>7. WithinLimits'
  BY <1>3 DEF IInv, WithinLimits, lists
<1> QED
  BY <1>2, <1>4, <1>5, <1>6, <1>7 DEF IInv

LEMMA SetUserDataKeeps ==
    ASSUME IInv, NEW k \in Keys, NEW v \in Values, SetUserData(k, v)
    PROVE  IInv'
<1>1. UNCHANGED <<lists, dropped, truncated, usedBytes, calls>>
  BY DEF SetUserData
<1>2. userData' \in [Keys -> Nat]
  BY InputAssumption DEF SetUserData, IInv, TypeOK
<1> QED
  BY <1>1, <1>2 DEF lists, IInv, TypeOK, Accounting, Lost, QueriesOnTimeline,
                    WithinLimits, TruncatedIffDropped

LEMMA InitHolds == Init => IInv
<1> SUFFICES ASSUME Init PROVE IInv
  OBVIOUS
<1>1. truncated = FALSE /\ \A b \in Buckets : dropped[b] = 0
  BY DEF Init
<1>2. TypeOK
  <2>1. truncated \in BOOLEAN
    BY Zenon DEF Init
  <2>2. dropped \in [Buckets -> Nat] /\ userData \in [Keys -> Nat]
    BY DEF Init
  <2> QED
    BY <2>1, <2>2 DEF Init, TypeOK
<1>3. Accounting /\ QueriesOnTimeline
  BY <1>1, BucketsListed DEF Init, Accounting, Lost, QueriesOnTimeline
<1>4. WithinLimits
  BY LimitsAssumption DEF Init, WithinLimits
<1>5. TruncatedIffDropped
  BY <1>1 DEF TruncatedIffDropped
<1> QED
  BY <1>2, <1>3, <1>4, <1>5 DEF IInv

-----------------------------------------------------------------------------
(* The invariant *)

\* A call of a method, from whatever goroutine or integration, with any estimate
\* and any number of over-long strings: Next and its like are special cases.
AnyCall ==
    \/ \E e \in Nat, long \in Nat, x \in Nat :
        \/ AddDatabaseQuery(e, long)
        \/ AddCacheQuery(e, long, x)
        \/ AddLogEntry(e, long, x)
        \/ AddTimelineEvent(e, long)
        \/ SetResponseData(long)
        \/ SetRequestField(long)
    \/ \E key \in Keys, value \in Values : SetUserData(key, value)

LEMMA NextIsAnyCall == Next => AnyCall
<1>1. Estimates \subseteq Nat /\ 0..MaxLong \subseteq Nat /\ 0..1 \subseteq Nat /\ 0..2 \subseteq Nat
  BY InputAssumption
<1> QED
  BY <1>1 DEF Next, AnyCall

LEMMA AnyCallKeeps == IInv /\ [AnyCall]_vars => IInv'
<1> SUFFICES ASSUME IInv, [AnyCall]_vars PROVE IInv'
  OBVIOUS
<1>1. CASE AnyCall
  BY <1>1, AddDatabaseQueryKeeps, AddCacheQueryKeeps, AddLogEntryKeeps,
     AddTimelineEventKeeps, SetResponseDataKeeps, SetRequestFieldKeeps,
     SetUserDataKeeps DEF AnyCall
<1>2. CASE UNCHANGED vars
  BY <1>2 DEF vars, lists, IInv, TypeOK, Accounting, Lost, QueriesOnTimeline,
              WithinLimits, TruncatedIffDropped
<1> QED
  BY <1>1, <1>2

\* The inductive invariant holds in every reachable state of every collector.
THEOREM Invariance == Spec => []IInv
<1>1. IInv /\ [Next]_vars => IInv'
  BY NextIsAnyCall, AnyCallKeeps
<1> QED
  BY InitHolds, <1>1, PTL DEF Spec

\* No call to a recording method goes missing (collector.go, the Add methods,
\* SetResponseData and reserveLocked), whatever the limits.
THEOREM EveryCallAccounted == Spec => []Accounting
BY Invariance, PTL DEF IInv

\* A recorded query is on the timeline or counted as dropped from it.
THEOREM EveryQueryShown == Spec => []QueriesOnTimeline
BY Invariance, PTL DEF IInv

\* The limits and the byte budget hold however the methods interleave.
THEOREM LimitsHold == Spec => []WithinLimits
BY Invariance, PTL DEF IInv

\* The metadata's Truncated flag tells the truth about its drop counters.
THEOREM TruncationTold == Spec => []TruncatedIffDropped
BY Invariance, PTL DEF IInv

\* The collector's variables keep their types.
THEOREM TypeCorrect == Spec => []TypeOK
BY Invariance, PTL DEF IInv

-----------------------------------------------------------------------------
(* What is charged is recorded *)

Kept == databaseQueries + cacheQueries + logEntries + timelineEvents

\* The action of the property ChargedOnlyIfRecorded.
ChargeIsKept ==
    usedBytes' # usedBytes => Kept' > Kept /\ dropped'["payload"] = dropped["payload"]

\* Truncations and the timeline do not touch the payload counter.
LEMMA MarkSparesPayload ==
    ASSUME TypeOK, NEW strings, NEW contexts, NEW events, Mark(strings, contexts, events)
    PROVE  dropped'["payload"] = dropped["payload"]
BY BucketsListed DEF TypeOK, Mark

LEMMA AppendTimelineGrows ==
    ASSUME TypeOK, NEW long, NEW eventLong, AppendTimeline(long, eventLong)
    PROVE  /\ timelineEvents' \in {timelineEvents, timelineEvents + 1}
           /\ ~Full(MaxTimelineEvents, timelineEvents) => timelineEvents' = timelineEvents + 1
           /\ dropped'["payload"] = dropped["payload"]
BY MarkSparesPayload DEF AppendTimeline

LEMMA ChargesAreKept == TypeOK /\ [AnyCall]_vars => ChargeIsKept
<1> SUFFICES ASSUME TypeOK, [AnyCall]_vars, usedBytes' # usedBytes
             PROVE  Kept' > Kept /\ dropped'["payload"] = dropped["payload"]
  BY DEF ChargeIsKept
<1>t. /\ databaseQueries \in Nat /\ cacheQueries \in Nat
      /\ logEntries \in Nat /\ timelineEvents \in Nat
  BY DEF TypeOK
<1>r. ASSUME NEW b, NEW m, NEW n, NEW e, Refuse(b, m, n, e)
      PROVE  FALSE
  BY <1>r DEF Refuse
<1>1. ASSUME NEW e, NEW long, AddDatabaseQuery(e, long)
      PROVE  Kept' > Kept /\ dropped'["payload"] = dropped["payload"]
  <2>1. /\ databaseQueries' = databaseQueries + 1
        /\ AppendTimeline(long, 0)
        /\ UNCHANGED <<cacheQueries, logEntries>>
    BY <1>1, <1>r DEF AddDatabaseQuery
  <2> QED
    BY <2>1, <1>t, AppendTimelineGrows DEF Kept
<1>2. ASSUME NEW e, NEW long, NEW eventLong, AddCacheQuery(e, long, eventLong)
      PROVE  Kept' > Kept /\ dropped'["payload"] = dropped["payload"]
  <2>1. /\ cacheQueries' = cacheQueries + 1
        /\ AppendTimeline(long, eventLong)
        /\ UNCHANGED <<databaseQueries, logEntries>>
    BY <1>2, <1>r DEF AddCacheQuery
  <2> QED
    BY <2>1, <1>t, AppendTimelineGrows DEF Kept
<1>3. ASSUME NEW e, NEW long, NEW overfull,
             AddLogEntry(e, long, overfull)
      PROVE  Kept' > Kept /\ dropped'["payload"] = dropped["payload"]
  <2>1. /\ logEntries' = logEntries + 1
        /\ Mark(long, overfull, 0)
        /\ UNCHANGED <<databaseQueries, cacheQueries, timelineEvents>>
    BY <1>3, <1>r DEF AddLogEntry
  <2> QED
    BY <2>1, <1>t, MarkSparesPayload DEF Kept
<1>4. ASSUME NEW e, NEW long, AddTimelineEvent(e, long)
      PROVE  Kept' > Kept /\ dropped'["payload"] = dropped["payload"]
  <2>1. /\ ~Full(MaxTimelineEvents, timelineEvents)
        /\ AppendTimeline(0, long)
        /\ UNCHANGED <<databaseQueries, cacheQueries, logEntries>>
    BY <1>4, <1>r DEF AddTimelineEvent, Reserve
  <2> QED
    BY <2>1, <1>t, AppendTimelineGrows DEF Kept
<1>5. ASSUME \/ \E long : SetResponseData(long) \/ SetRequestField(long)
             \/ \E key, value : SetUserData(key, value)
             \/ UNCHANGED vars
      PROVE  FALSE
  BY <1>5 DEF SetResponseData, SetRequestField, SetUserData, vars
<1> QED
  BY <1>1, <1>2, <1>3, <1>4, <1>5 DEF AnyCall

\* The byte budget is charged only by calls that record something and refuse
\* nothing for want of budget (reserveLocked and its callers).
THEOREM ChargesRecorded == Spec => ChargedOnlyIfRecorded
<1>1. IInv /\ [Next]_vars => [ChargeIsKept]_vars
  BY NextIsAnyCall, ChargesAreKept DEF IInv
<1>2. [ChargeIsKept]_vars => [usedBytes' # usedBytes =>
        \/ databaseQueries' + cacheQueries' + logEntries' + timelineEvents'
                > databaseQueries + cacheQueries + logEntries + timelineEvents
           /\ dropped'["payload"] = dropped["payload"]]_vars
  BY DEF ChargeIsKept, Kept
<1> QED
  BY <1>1, <1>2, Invariance, PTL DEF Spec, ChargedOnlyIfRecorded

-----------------------------------------------------------------------------
(* Integrations *)

LEMMA MinOfTwo ==
    ASSUME NEW a \in Nat, NEW b \in Nat
    PROVE  Min({a, b}) \in Nat
<1>1. \E x \in {a, b} : \A y \in {a, b} : x <= y
  OBVIOUS
<1>2. Min({a, b}) \in {a, b}
  BY <1>1 DEF Min
<1> QED
  BY <1>2

LEMMA TracesAreNumbers == Traces \subseteq Nat
<1> SUFFICES ASSUME NEW hasCaller \in BOOLEAN, NEW stack \in 0..MaxFrames
             PROVE  LogTrace(hasCaller, stack) \in Nat
  BY DEF Traces
<1>1. Min({MaxFrames, stack}) \in Nat
  BY MinOfTwo, FieldsAssumption
<1>2. (IF hasCaller THEN 1 ELSE 0) + Min({MaxFrames, stack}) \in Nat
  BY <1>1
<1> QED
  BY <1>2, MinOfTwo, FieldsAssumption DEF LogTrace

-----------------------------------------------------------------------------
(* The context of a line *)

\* The keys of a line that belong into its context.
KeysOf(fields) == {fields[i] : i \in {k \in DOMAIN fields : IsContextKey(fields[k])}}

\* Nothing is taken out, nothing comes from elsewhere.
LEMMA AppendBounds ==
    ASSUME NEW fields \in Seq(STRING), NEW context, IsFiniteSet(context)
    PROVE  /\ context \subseteq AppendFields(context, fields)
           /\ AppendFields(context, fields) \subseteq context \cup KeysOf(fields)
           /\ IsFiniteSet(AppendFields(context, fields))
<1>1. /\ context \subseteq AppendFields(context, fields)
      /\ AppendFields(context, fields) \subseteq context \cup KeysOf(fields)
  BY DEF AppendFields, KeysOf
<1>2. IsFiniteSet(KeysOf(fields))
  <2>1. DOMAIN fields = 1..Len(fields) /\ Len(fields) \in Nat
    OBVIOUS
  <2>2. IsFiniteSet(1..Len(fields))
    BY <2>1, FS_Interval
  <2> DEFINE D == {k \in DOMAIN fields : IsContextKey(fields[k])}
             F == [i \in D |-> fields[i]]
  <2>3. IsFiniteSet(D)
    BY <2>1, <2>2, FS_Subset
  <2>4. KeysOf(fields) = {F[i] : i \in D}
    BY DEF KeysOf
  <2>5. F \in [D -> KeysOf(fields)] /\ \A key \in KeysOf(fields) : \E i \in D : F[i] = key
    BY <2>4
  <2> HIDE DEF D, F
  <2>6. F \in Surjection(D, KeysOf(fields))
    BY <2>5 DEF Surjection
  <2> QED
    BY <2>3, <2>6, FS_Surjection
<1>3. IsFiniteSet(context \cup KeysOf(fields))
  BY <1>2, FS_Union
<1>4. IsFiniteSet(AppendFields(context, fields))
  BY <1>1, <1>3, FS_Subset
<1> QED
  BY <1>1, <1>4

\* A field is left out of a full map only: when the first one was left out, all
\* those before it were in.
LEMMA AppendFull ==
    ASSUME NEW fields \in Seq(STRING), NEW context, IsFiniteSet(context),
           NEW key \in KeysOf(fields), key \notin AppendFields(context, fields)
    PROVE  Cardinality(AppendFields(context, fields)) >= MaxFields
<1> DEFINE A == AppendFields(context, fields)
           Late(k) == ~(Cardinality(Before(context, fields, k)) < MaxFields)
           K == {k \in 1..Len(fields) : Late(k)}
<1>1. Len(fields) \in Nat /\ DOMAIN fields = 1..Len(fields)
  OBVIOUS
<1>2. K # {}
  <2>1. PICK i \in 1..Len(fields) : key = fields[i] /\ IsContextKey(fields[i])
    BY <1>1 DEF KeysOf
  <2>2. Late(i)
    BY <1>1, <2>1 DEF AppendFields
  <2> QED
    BY <2>2
<1>3. PICK m \in K : \A k \in K : m <= k
  BY <1>1, <1>2, LeastExists
<1>4. Before(context, fields, m) \subseteq A
  <2> SUFFICES ASSUME NEW j \in 1..(m - 1), IsContextKey(fields[j])
               PROVE  fields[j] \in A
    BY DEF Before, AppendFields
  <2>1. j \in 1..Len(fields) /\ j < m
    BY <1>1
  <2>2. ~Late(j)
    BY <2>1, <1>3
  <2> QED
    BY <1>1, <2>1, <2>2 DEF AppendFields
<1>5. IsFiniteSet(A)
  BY AppendBounds
<1>6. IsFiniteSet(Before(context, fields, m))
  BY <1>4, <1>5, FS_Subset
<1>7. /\ Cardinality(Before(context, fields, m)) \in Nat
      /\ Cardinality(A) \in Nat
      /\ Cardinality(Before(context, fields, m)) <= Cardinality(A)
  BY <1>4, <1>5, <1>6, FS_Subset, FS_CardinalityType
<1>8. Cardinality(Before(context, fields, m)) >= MaxFields
  BY <1>7, FieldsAssumption
<1> QED
  BY <1>7, <1>8, FieldsAssumption

LEMMA ConcatRange ==
    ASSUME NEW s \in Seq(STRING), NEW t \in Seq(STRING)
    PROVE  ToSet(s \o t) = ToSet(s) \cup ToSet(t)
<1>1. /\ DOMAIN s = 1..Len(s) /\ DOMAIN t = 1..Len(t) /\ DOMAIN (s \o t) = 1..(Len(s) + Len(t))
      /\ Len(s) \in Nat /\ Len(t) \in Nat
  OBVIOUS
<1>2. /\ \A i \in 1..Len(s) : (s \o t)[i] = s[i]
      /\ \A i \in 1..Len(t) : (s \o t)[Len(s) + i] = t[i]
  OBVIOUS
<1>3. \A i \in 1..(Len(s) + Len(t)) : i \in 1..Len(s) \/ \E j \in 1..Len(t) : i = Len(s) + j
  <2>1. ASSUME NEW i \in 1..(Len(s) + Len(t)), i \notin 1..Len(s)
        PROVE  i - Len(s) \in 1..Len(t) /\ i = Len(s) + (i - Len(s))
    BY <1>1, <2>1
  <2> QED
    BY <2>1
<1>4. \A i \in 1..Len(s) : i \in 1..(Len(s) + Len(t))
  BY <1>1
<1>5. \A i \in 1..Len(t) : Len(s) + i \in 1..(Len(s) + Len(t))
  BY <1>1
<1>6. ToSet(s \o t) \subseteq ToSet(s) \cup ToSet(t)
  <2> SUFFICES ASSUME NEW i \in 1..(Len(s) + Len(t))
               PROVE  (s \o t)[i] \in ToSet(s) \cup ToSet(t)
    BY Zenon, <1>1 DEF ToSet
  <2>1. CASE i \in 1..Len(s)
    BY <1>1, <1>2, <2>1 DEF ToSet
  <2>2. ASSUME NEW j \in 1..Len(t), i = Len(s) + j
        PROVE  (s \o t)[i] \in ToSet(t)
    BY <1>1, <1>2, <2>2 DEF ToSet
  <2> QED
    BY <1>3, <2>1, <2>2
<1>7. ToSet(s) \subseteq ToSet(s \o t) /\ ToSet(t) \subseteq ToSet(s \o t)
  BY Zenon, <1>1, <1>2, <1>4, <1>5 DEF ToSet
<1> QED
  BY <1>6, <1>7

\* How a line is made.
LEMMA LineParts ==
    ASSUME NEW line \in Lines
    PROVE  \E bound \in FieldLists, fields \in FieldLists, named \in BOOLEAN, timed \in BOOLEAN :
             /\ line.context = LogContext(bound, fields, named, timed)
             /\ line.given = KeysOf(bound) \cup KeysOf(fields)
             /\ line.own = EntryKeys(named, timed) \ line.given
             /\ line.takes = {taken \in SUBSET line.context : Sanitizes(line.context, taken)}
<1>1. PICK bound \in FieldLists, fields \in FieldLists, named \in BOOLEAN, timed \in BOOLEAN :
        /\ line.context = LogContext(bound, fields, named, timed)
        /\ line.given = {key \in ToSet(bound \o fields) : IsContextKey(key)}
        /\ line.own = EntryKeys(named, timed) \ line.given
        /\ line.takes = {taken \in SUBSET line.context : Sanitizes(line.context, taken)}
  BY DEF Lines
<1>2. bound \in Seq(STRING) /\ fields \in Seq(STRING)
  BY FieldsAssumption
<1>3. ToSet(bound \o fields) = ToSet(bound) \cup ToSet(fields)
  BY <1>2, ConcatRange
<1>4. \A s \in Seq(STRING) : KeysOf(s) = {key \in ToSet(s) : IsContextKey(key)}
  BY DEF KeysOf, ToSet
<1>5. line.given = KeysOf(bound) \cup KeysOf(fields)
  BY <1>1, <1>2, <1>3, <1>4
<1> QED
  BY <1>1, <1>5

LEMMA ContextIsFinite ==
    ASSUME NEW line \in Lines
    PROVE  IsFiniteSet(line.context)
<1>1. PICK bound \in FieldLists, fields \in FieldLists, named \in BOOLEAN, timed \in BOOLEAN :
        line.context = LogContext(bound, fields, named, timed)
  BY LineParts
<1>2. bound \in Seq(STRING) /\ fields \in Seq(STRING)
  BY FieldsAssumption
<1>3. IsFiniteSet(AppendFields({}, bound))
  BY <1>2, AppendBounds, FS_EmptySet
<1>4. IsFiniteSet(AppendFields(AppendFields({}, bound), fields))
  BY <1>2, <1>3, AppendBounds
<1>5. IsFiniteSet(EntryKeys(named, timed))
  <2>1. IsFiniteSet({"logger"} \cup {"time"})
    BY FS_Singleton, FS_Union
  <2>2. EntryKeys(named, timed) \subseteq {"logger"} \cup {"time"}
    BY DEF EntryKeys
  <2> QED
    BY <2>1, <2>2, FS_Subset
<1> QED
  BY <1>1, <1>4, <1>5, FS_Union DEF LogContext, EntryFields

\* What Write makes of a line: a given key that is missing shows as a full map,
\* and a key that Write has to add makes a full map overfull.
LEMMA LossShows ==
    ASSUME NEW line \in Lines, ~(line.given \subseteq line.context), line.own # {}
    PROVE  Cardinality(line.context) > MaxFields
<1>1. PICK bound \in FieldLists, fields \in FieldLists, named \in BOOLEAN, timed \in BOOLEAN :
        /\ line.context = LogContext(bound, fields, named, timed)
        /\ line.given = KeysOf(bound) \cup KeysOf(fields)
        /\ line.own = EntryKeys(named, timed) \ line.given
  BY LineParts
<1> DEFINE A1 == AppendFields({}, bound)
           A2 == AppendFields(A1, fields)
<1>2. bound \in Seq(STRING) /\ fields \in Seq(STRING)
  BY FieldsAssumption
<1>3. line.context = A2 \cup EntryKeys(named, timed)
  BY <1>1 DEF LogContext, EntryFields
<1>5. IsFiniteSet(A1) /\ A1 \subseteq KeysOf(bound)
  BY <1>2, AppendBounds, FS_EmptySet
<1>6. IsFiniteSet(A2) /\ A1 \subseteq A2 /\ A2 \subseteq A1 \cup KeysOf(fields)
  BY <1>2, <1>5, AppendBounds
<1>7. PICK key \in line.given : key \notin line.context
  OBVIOUS
<1>8. key \notin A2
  BY <1>3, <1>7
<1> HIDE DEF A1, A2
<1>9. Cardinality(A1) \in Nat /\ Cardinality(A2) \in Nat /\ Cardinality(A1) <= Cardinality(A2)
  BY <1>5, <1>6, FS_Subset, FS_CardinalityType
<1>10. Cardinality(A2) >= MaxFields
  <2>1. CASE key \in KeysOf(fields)
    BY <1>2, <1>5, <1>8, <2>1, AppendFull DEF A2
  <2>2. CASE key \in KeysOf(bound)
    <3>1. Cardinality(A1) >= MaxFields
      BY <1>2, <1>6, <1>8, <2>2, AppendFull, FS_EmptySet DEF A1
    <3> QED
      BY <1>9, <3>1, FieldsAssumption
  <2> QED
    BY <1>1, <1>7, <2>1, <2>2
<1>11. PICK added \in EntryKeys(named, timed) : added \notin A2
  BY <1>1, <1>5, <1>6
<1>12. IsFiniteSet(A2 \cup {added}) /\ Cardinality(A2 \cup {added}) = Cardinality(A2) + 1
  BY <1>6, <1>11, FS_AddElement
<1>13. A2 \cup {added} \subseteq line.context
  BY <1>3, <1>11
<1>14. /\ Cardinality(line.context) \in Nat
       /\ Cardinality(A2 \cup {added}) <= Cardinality(line.context)
  BY <1>13, ContextIsFinite, FS_Subset, FS_CardinalityType
<1> QED
  BY <1>9, <1>10, <1>12, <1>14, FieldsAssumption

\* What sanitizeContext may take of a line, and the strings it counts for it.
LEMMA TakesAreParts ==
    ASSUME NEW line \in Lines, NEW taken \in line.takes
    PROVE  /\ taken \subseteq line.context
           /\ Sanitizes(line.context, taken)
           /\ IsFiniteSet(TooLong(taken))
           /\ Cardinality(TooLong(taken)) \in Nat
<1>1. taken \subseteq line.context /\ Sanitizes(line.context, taken)
  BY LineParts
<1>2. TooLong(taken) \subseteq line.context
  BY <1>1 DEF TooLong
<1>3. IsFiniteSet(TooLong(taken))
  BY <1>2, ContextIsFinite, FS_Subset
<1> QED
  BY <1>1, <1>3, FS_CardinalityType

\* Keys of their full length, taken whole: they fit, and none stands for two.
LEMMA WholeContextFits ==
    ASSUME NEW line \in Lines, NEW taken \in line.takes,
           taken = line.context, TooLong(taken) = {}, LosesField(line, taken)
    PROVE  line.own = {}
<1>1. \A key \in taken : CutKey[key] = key
  BY DEF TooLong
<1>2. ~(line.given \subseteq line.context)
  BY <1>1 DEF LosesField
<1>3. SUFFICES ASSUME Cardinality(taken) > MaxFields PROVE FALSE
  BY <1>2, LossShows
<1>4. IsFiniteSet(taken) /\ Cardinality(taken) \in Nat /\ MaxFields \in Nat
  BY ContextIsFinite, FS_CardinalityType, FieldsAssumption
<1>5. taken # {}
  <2>1. Cardinality(taken) # 0
    BY <1>3, <1>4
  <2> QED
    BY <2>1, FS_EmptySet
<1>6. PICK last \in taken : Cardinality(CutKeys(taken \ {last})) < MaxFields
  BY <1>5, TakesAreParts DEF Sanitizes
<1>7. CutKeys(taken \ {last}) = taken \ {last}
  BY <1>1 DEF CutKeys
<1>8. Cardinality(taken \ {last}) = Cardinality(taken) - 1
  BY <1>4, FS_RemoveElement
<1>9. Cardinality(taken) - 1 < MaxFields
  BY <1>6, <1>7, <1>8
<1> QED
  BY <1>3, <1>4, <1>9

-----------------------------------------------------------------------------
(* Every step of the integrations is a call *)

LEMMA WriteIsAnyCall ==
    ASSUME NEW line \in Lines, NEW frames \in Traces, NEW long \in 0..MaxLong,
           Write(line, frames, long)
    PROVE  AnyCall
<1>1. PICK taken \in line.takes, x \in {0, 1} :
        AddLogEntry(1 + frames, long + Cardinality(TooLong(taken)), x)
  BY DEF Write
<1>2. 1 + frames \in Nat /\ x \in Nat
  BY TracesAreNumbers
<1>3. long + Cardinality(TooLong(taken)) \in Nat
  BY TakesAreParts, InputAssumption
<1> QED
  BY <1>1, <1>2, <1>3 DEF AnyCall

LEMMA IntegratedNextIsAnyCall == IntegratedNext => AnyCall
<1>1. Estimates \subseteq Nat /\ 0..MaxLong \subseteq Nat /\ 0..1 \subseteq Nat /\ 0..2 \subseteq Nat
  BY InputAssumption
<1>2. Direct => AnyCall
  BY <1>1 DEF Direct, AnyCall
<1>3. ASSUME NEW estimate \in Estimates, NEW long \in 0..MaxLong, NEW eventLong \in 0..1, NEW outcome,
             OnQuery(estimate, long) \/ CacheOperation(outcome, estimate, long, eventLong)
      PROVE  AnyCall
  BY <1>1, <1>3 DEF OnQuery, CacheOperation, AnyCall
<1>4. ASSUME NEW estimate \in Estimates, NEW long \in 0..MaxLong, OnQuery(estimate, long)
      PROVE  AnyCall
  BY <1>1, <1>4 DEF OnQuery, AnyCall
<1> QED
  BY <1>2, <1>3, <1>4, WriteIsAnyCall DEF IntegratedNext

LEMMA StepIsAnyCall == [IntegratedNext]_allVars => [AnyCall]_vars
BY IntegratedNextIsAnyCall DEF allVars

-----------------------------------------------------------------------------
(* The theorems *)

\* The collector's inductive invariant holds, too, when OnQuery, the cache
\* wrapper, the zap core and handlers make the calls, log frames included.
THEOREM IntegratedInvariance == IntegratedSpec => []IInv
<1>1. IntegratedInit => IInv
  BY InitHolds DEF IntegratedInit
<1>2. IInv /\ [IntegratedNext]_allVars => IInv'
  BY StepIsAnyCall, AnyCallKeeps
<1> QED
  BY <1>1, <1>2, PTL DEF IntegratedSpec

\* No query, cache operation or log line goes missing without a drop counter.
THEOREM IntegratedAccounting == IntegratedSpec => []Accounting
BY IntegratedInvariance, PTL DEF IInv

\* The same for their events on the timeline.
THEOREM IntegratedTimeline == IntegratedSpec => []QueriesOnTimeline
BY IntegratedInvariance, PTL DEF IInv

\* Limits and budget hold, although the frames of a line add to its estimate.
THEOREM IntegratedLimits == IntegratedSpec => []WithinLimits
BY IntegratedInvariance, PTL DEF IInv

\* The flag tells of every drop counter, that of cut log contexts included.
THEOREM IntegratedTruncation == IntegratedSpec => []TruncatedIffDropped
BY IntegratedInvariance, PTL DEF IInv

\* Only a call that keeps something is charged, whoever makes it.
THEOREM IntegratedCharges == IntegratedSpec => ChargedOnlyIfRecorded
<1>1. IInv /\ [IntegratedNext]_allVars => [ChargeIsKept]_vars
  BY StepIsAnyCall, ChargesAreKept DEF IInv
<1>2. [ChargeIsKept]_vars => [usedBytes' # usedBytes =>
        \/ databaseQueries' + cacheQueries' + logEntries' + timelineEvents'
                > databaseQueries + cacheQueries + logEntries + timelineEvents
           /\ dropped'["payload"] = dropped["payload"]]_vars
  BY DEF ChargeIsKept, Kept
<1> QED
  BY <1>1, <1>2, IntegratedInvariance, PTL DEF IntegratedSpec, ChargedOnlyIfRecorded

-----------------------------------------------------------------------------

\* The log lines that lost a field with nothing counted had no key from Write.
LEMMA WriteTells ==
    ASSUME IInv, ContextLossTold, NEW line \in Lines, NEW frames \in Traces, NEW long \in 0..MaxLong,
           Write(line, frames, long)
    PROVE  ContextLossTold'
<1>1. PICK taken \in line.takes :
        /\ AddLogEntry(1 + frames, long + Cardinality(TooLong(taken)),
                       IF taken # line.context THEN 1 ELSE 0)
        /\ untold' = IF /\ logEntries' > logEntries
                        /\ LosesField(line, taken)
                        /\ dropped' = [dropped EXCEPT !["strings"] = @ + long]
                     THEN untold \cup {line.own} ELSE untold
  BY Zenon DEF Write
<1>2. TypeOK /\ logEntries \in Nat
  BY DEF IInv, TypeOK
<1> DEFINE cuts == Cardinality(TooLong(taken))
           overfull == IF taken # line.context THEN 1 ELSE 0
<1>3. cuts \in Nat /\ long \in Nat /\ overfull \in {0, 1}
  BY TakesAreParts, InputAssumption
<1> HIDE DEF cuts, overfull
<1>4. SUFFICES ASSUME /\ logEntries' > logEntries
                      /\ LosesField(line, taken)
                      /\ dropped' = [dropped EXCEPT !["strings"] = @ + long]
               PROVE  line.own = {}
  BY <1>1 DEF ContextLossTold
<1>5. Mark(long + cuts, overfull, 0)
  BY <1>1, <1>2, <1>4 DEF AddLogEntry, Refuse, lists, cuts, overfull
<1>6. dropped'["strings"] = dropped["strings"] + long /\ dropped'["log_context"] = dropped["log_context"]
  BY <1>2, <1>4, BucketsListed DEF TypeOK
<1>7. /\ dropped'["strings"] = dropped["strings"] + (long + cuts)
      /\ dropped'["log_context"] = dropped["log_context"] + overfull
  BY <1>2, <1>5, BucketsListed DEF TypeOK, Mark
<1>8. dropped["strings"] \in Nat /\ dropped["log_context"] \in Nat
  BY <1>2, BucketsListed DEF TypeOK
<1>9. cuts = 0 /\ overfull = 0
  BY <1>3, <1>6, <1>7, <1>8
<1>10. taken = line.context
  BY <1>9 DEF overfull
<1>11. TooLong(taken) = {}
  BY <1>9, TakesAreParts, FS_EmptySet DEF cuts
<1> QED
  BY <1>4, <1>10, <1>11, WholeContextFits

\* A field that is lost between the logger and the stored line has been counted,
\* as a context or a key that was cut, whenever Write adds a key to the line:
\* any fields, any limit on them, keys of any length, any order of the map
\* (appendFields and Write in zap.go, sanitizeContext in collector.go).
THEOREM LossIsTold == IntegratedSpec => []ContextLossTold
<1>1. IntegratedInit => ContextLossTold
  BY DEF IntegratedInit, ContextLossTold
<1>2. IInv /\ ContextLossTold /\ [IntegratedNext]_allVars => ContextLossTold'
  <2> SUFFICES ASSUME IInv, ContextLossTold, [IntegratedNext]_allVars PROVE ContextLossTold'
    OBVIOUS
  <2>1. CASE \E line \in Lines, frames \in Traces, long \in 0..MaxLong : Write(line, frames, long)
    BY <2>1, WriteTells
  <2>2. CASE UNCHANGED untold
    BY <2>2 DEF ContextLossTold
  <2> QED
    BY <2>1, <2>2 DEF IntegratedNext, allVars
<1> QED
  BY <1>1, <1>2, IntegratedInvariance, PTL DEF IntegratedSpec
=============================================================================
