---------------------------- MODULE Integrations ----------------------------
(***************************************************************************)
(* integrations/{sql,cache,zap}: how queries, cache operations and log     *)
(* lines of a request become calls on its Collector, beside those that     *)
(* handlers and middlewares make themselves.  ActiveTraces has the way a   *)
(* line takes to its collector; here is what arrives of it.                *)
(*                                                                         *)
(* The fields of a line are sequences of keys.  A context is a Go map, so  *)
(* the set of its keys.                                                    *)
(***************************************************************************)
EXTENDS Collector, Sequences, SequencesExt

CONSTANTS
    MaxFields,      \* 20: of a context, in zap.go and in collector.go alike
    MaxFrames,      \* 12: of a stack trace
    FieldLists,     \* the fields a logger may be bound to, or a call may bring
    CutKey          \* key -> what truncate leaves of it: itself, unless too long

ASSUME FieldsAssumption ==
    /\ MaxFields \in Nat \ {0} /\ MaxFrames \in Nat \ {0}
    /\ \A fields \in FieldLists : fields \in Seq(STRING)

VARIABLE
    untold          \* for each line stored without a field it was given, no key or
                    \* context counted as cut: the keys it has from Write (history)

allVars == <<vars, untold>>

IntegratedInit == Init /\ untold = {}

-----------------------------------------------------------------------------
(* sql *)

\* OnQuery in the context of the request; outside of any nothing is recorded.
OnQuery(estimate, long) == AddDatabaseQuery(estimate, long)

-----------------------------------------------------------------------------
(* cache *)

\* A hit or a miss is recorded, a Set or a Delete if it went well.
CacheOperation(outcome, estimate, long, eventLong) ==
    /\ outcome # "error"
    /\ AddCacheQuery(estimate, long, eventLong)

-----------------------------------------------------------------------------
(* zap *)

\* The trace id has a place of its own, and a field fieldValue makes nothing of
\* is left out.
IsContextKey(key) == key \notin {"trace_id", "opaque"}

\* What a map holds of context and of the fields before the i-th, were there no
\* limit.
Before(context, fields, i) ==
    context \cup {fields[j] : j \in {k \in 1..(i - 1) : IsContextKey(fields[k])}}

\* appendFields stops when the map is full, and tells nobody: it takes a field
\* if those before it leave room.
AppendFields(context, fields) ==
    context \cup {fields[i] : i \in {k \in DOMAIN fields :
        IsContextKey(fields[k]) /\ Cardinality(Before(context, fields, k)) < MaxFields}}

\* What Write has to add: the logger's name, if it has one, and the entry's
\* time, if it is not zero.
EntryKeys(named, timed) ==
    (IF named THEN {"logger"} ELSE {}) \cup (IF timed THEN {"time"} ELSE {})

EntryFields_IfRoom(context, named, timed) ==
    IF Cardinality(context) < MaxFields THEN context \cup EntryKeys(named, timed) ELSE context

\* It adds them to a full map, too.
EntryFields(context, named, timed) == context \cup EntryKeys(named, timed)

LogContext(bound, fields, named, timed) ==
    EntryFields(AppendFields(AppendFields({}, bound), fields), named, timed)

\* buildLogTrace: the caller, then the stack.  The caller has no function name,
\* so isSameFrame does not find it in the stack again.
LogTrace(hasCaller, stack) ==
    Min({MaxFrames, (IF hasCaller THEN 1 ELSE 0) + Min({MaxFrames, stack})})

\* The keys of a map as sanitizeContext writes them.
CutKeys(keys) == {CutKey[key] : key \in keys}

TooLong(keys) == {key \in keys : CutKey[key] # key}

\* sanitizeContext ranges over the map, in any order, until what it has written
\* is full: taken may be what it took.
Sanitizes(context, taken) ==
    /\ taken \subseteq context
    /\ taken # {} => \E last \in taken : Cardinality(CutKeys(taken \ {last})) < MaxFields
    /\ taken # context => Cardinality(CutKeys(taken)) >= MaxFields

\* A given key is not among those taken, or was cut to the same as another.
LosesField(line, taken) ==
    \/ ~(line.given \subseteq taken)
    \/ \E key, other \in taken : key # other /\ CutKey[key] = CutKey[other]

\* A line on its way to a collector: its context as Core.Write makes it, what
\* sanitizeContext may take of that, the keys it was given, and those it has from
\* Write alone.
Lines ==
    LET Line(given, context, added) ==
            [context |-> context, takes |-> {taken \in SUBSET context : Sanitizes(context, taken)},
             given |-> given, own |-> added \ given]
    IN  {Line({key \in ToSet(bound \o fields) : IsContextKey(key)},
              LogContext(bound, fields, named, timed), EntryKeys(named, timed)) :
            bound \in FieldLists, fields \in FieldLists, named \in BOOLEAN, timed \in BOOLEAN}

Traces == {LogTrace(hasCaller, stack) : hasCaller \in BOOLEAN, stack \in 0..MaxFrames}

\* The line reaches this collector, which may refuse it.  The estimate grows
\* with the frames; of the strings cut, long are not keys.
Write(line, frames, long) ==
    \E taken \in line.takes :
        /\ AddLogEntry(1 + frames, long + Cardinality(TooLong(taken)),
                       IF taken # line.context THEN 1 ELSE 0)
        /\ untold' = IF /\ logEntries' > logEntries
                        /\ LosesField(line, taken)
                        /\ dropped' = [dropped EXCEPT !["strings"] = @ + long]
                     THEN untold \cup {line.own} ELSE untold

-----------------------------------------------------------------------------
\* What is called directly, by handlers, data sources and middlewares.
Direct ==
    \/ \E estimate \in Estimates, long \in 0..MaxLong :
        \/ AddTimelineEvent(estimate, long)
        \/ \E overfull \in 0..1 : AddLogEntry(estimate, long, overfull)
    \/ \E long \in 0..1 : SetResponseData(long)
    \/ \E long \in 0..2 : SetRequestField(long)
    \/ \E key \in Keys, value \in Values : SetUserData(key, value)

IntegratedNext ==
    \/ \E line \in Lines, frames \in Traces, long \in 0..MaxLong : Write(line, frames, long)
    \/ /\ \/ \E estimate \in Estimates, long \in 0..MaxLong :
                \/ OnQuery(estimate, long)
                \/ \E outcome \in {"found or not", "done", "error"}, eventLong \in 0..1 :
                    CacheOperation(outcome, estimate, long, eventLong)
          \/ Direct
       /\ UNCHANGED untold

IntegratedSpec == IntegratedInit /\ [][IntegratedNext]_allVars

-----------------------------------------------------------------------------
(* Properties *)

\* Two limits cut the context of a line, appendFields' and the collector's, and
\* only the second is on record.  A line that loses a field is counted all the
\* same, because what Write adds makes a full map overfull: a line may lose a
\* field with nothing counted only if Write adds no key of its own to it -- a
\* line without logger name and time, or one that brings fields called so (whose
\* values Write then replaces).
ContextLossTold == untold \subseteq {{}}
=============================================================================
