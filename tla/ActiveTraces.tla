---------------------------- MODULE ActiveTraces ----------------------------
(***************************************************************************)
(* clockwork.go: the registry of active traces (a sync.Map and an atomic   *)
(* counter), the requests that enter and leave it, and the log lines that  *)
(* are attached to a request through it.                                   *)
(*                                                                         *)
(* A request is captured by a middleware, registers its trace id, runs its *)
(* handler and goes through CompleteRequest; a log line is written by      *)
(* Core.Write of the zap integration, in any goroutine.  No lock spans     *)
(* these functions: each access to the map, to the counter or to a         *)
(* collector is a step of its own.                                         *)
(*                                                                         *)
(* A definition X_Bug is X with a plausible bug, kept to show that the     *)
(* properties notice it; nothing else refers to it.                        *)
(***************************************************************************)
EXTENDS Integers, FiniteSets

CONSTANTS
    Reqs,           \* captured requests
    Lines,          \* log lines
    Traces,         \* trace ids
    StoredTrace,    \* a trace id as SetTrace cuts it; itself when it is short enough.
                    \* OpenTelemetry's ids are; a custom middleware's need not be.
    CanPanic,       \* handlers and data sources may panic
    MaxLogs,        \* lines a collector takes; 0: no limit
    MaxSources,     \* bound on the registered data sources
    NoTrace, NoReq

ASSUME ReqsAssumption == IsFiniteSet(Reqs) /\ NoReq \notin Reqs
ASSUME TracesAssumption == IsFiniteSet(Traces) /\ NoTrace \notin Traces
ASSUME StoredTraceAssumption == StoredTrace \in [Traces -> Traces]
ASSUME OptionAssumption == CanPanic \in BOOLEAN /\ MaxLogs \in Nat /\ MaxSources \in Nat

VARIABLES
    active,         \* activeByTrace: trace id -> request whose collector it maps to
    activeCount,    \* the atomic counter beside it
    pc,             \* where each request is
    traceOf,        \* the trace id in each request's context, or NoTrace
    sources,        \* how many data sources are registered (the list only grows)
    seen,           \* request -> length of the list CompleteRequest copied
    resolved,       \* request -> how many of them it has resolved
    logs,           \* request -> the lines in its collector
    refused,        \* request -> the lines its collector dropped; their number is
                    \* dropped["logs"] + dropped["payload"], as far as lines go
    meta,           \* request -> the lines in its metadata snapshot
    counted,        \* request -> the lines the snapshot's drop counters stand for
    line            \* where each line is, whom it came from, where it goes

registry == <<active, activeCount>>
completion == <<sources, seen, resolved>>
collectors == <<logs, refused>>
snapshots == <<meta, counted>>
vars == <<registry, pc, traceOf, completion, collectors, snapshots, line>>

\* A request holds its registration, if it made one, at these places.
Registered == {"count", "running", "complete", "resolve", "unregister"}
Stages == Registered \cup {"new", "register", "uncount", "save", "done", "panicked"}

\* from: the request whose code logs (NoReq: a background goroutine); trace:
\* the trace_id field, if any; sync: the handler itself logs and waits for it.
LineStages == {"idle", "gate", "lookup", "single", "range", "append", "written"}
LineRecord ==
    [at : LineStages, from : Reqs \cup {NoReq}, trace : Traces \cup {NoTrace},
     sync : BOOLEAN, target : Reqs \cup {NoReq}]

Init ==
    /\ active = [t \in Traces |-> NoReq]
    /\ activeCount = 0
    /\ pc = [r \in Reqs |-> "new"]
    /\ traceOf = [r \in Reqs |-> NoTrace]
    /\ sources = 0
    /\ seen = [r \in Reqs |-> 0]
    /\ resolved = [r \in Reqs |-> 0]
    /\ logs = [r \in Reqs |-> {}] /\ refused = [r \in Reqs |-> {}]
    /\ meta = [r \in Reqs |-> {}] /\ counted = [r \in Reqs |-> {}]
    /\ line = [l \in Lines |-> [at |-> "idle", from |-> NoReq, trace |-> NoTrace,
                                sync |-> FALSE, target |-> NoReq]]

Go(r, from, to) == pc[r] = from /\ pc' = [pc EXCEPT ![r] = to]

-----------------------------------------------------------------------------
(* Middleware: capture, RegisterTrace, handler *)

\* A request without a trace id is captured but never registered.
Capture(r) ==
    /\ \E trace \in Traces \cup {NoTrace} :
        /\ traceOf' = [traceOf EXCEPT ![r] = trace]
        /\ Go(r, "new", IF trace = NoTrace THEN "running" ELSE "register")
    /\ UNCHANGED <<registry, completion, collectors, snapshots, line>>

LoadOrStore_Uncounted(r) ==
    /\ Go(r, "register", "running")
    /\ active' = [active EXCEPT ![traceOf[r]] = IF @ = NoReq THEN r ELSE @]
    /\ UNCHANGED <<activeCount, traceOf, completion, collectors, snapshots, line>>

\* activeByTrace.LoadOrStore: the first request of a trace keeps the entry.
LoadOrStore(r) ==
    /\ pc[r] = "register"
    /\ \/ /\ active[traceOf[r]] = NoReq
          /\ Go(r, "register", "count")
          /\ active' = [active EXCEPT ![traceOf[r]] = r]
       \/ /\ active[traceOf[r]] # NoReq
          /\ Go(r, "register", "running")
          /\ UNCHANGED active
    /\ UNCHANGED <<activeCount, traceOf, completion, collectors, snapshots, line>>

CountUp(r) ==
    /\ Go(r, "count", "running")
    /\ activeCount' = activeCount + 1
    /\ UNCHANGED <<active, traceOf, completion, collectors, snapshots, line>>

\* The handler returns, its own log calls returned before, and the middleware
\* calls CompleteRequest; SetResponseData records nothing of interest here.
HandlerReturns(r) ==
    /\ Go(r, "running", "complete")
    /\ \A l \in Lines :
        line[l].from = r /\ line[l].sync => line[l].at \in {"idle", "written"}
    /\ UNCHANGED <<registry, traceOf, completion, collectors, snapshots, line>>

\* Nothing is deferred: the panic passes the middleware, the server recovers it.
Panic(r) ==
    /\ CanPanic
    /\ \E from \in {"running", "resolve"} : Go(r, from, "panicked")
    /\ UNCHANGED <<registry, traceOf, completion, collectors, snapshots, line>>

-----------------------------------------------------------------------------
(* CompleteRequest *)

\* Copies the list of data sources under the read lock.
CopySources(r) ==
    /\ Go(r, "complete", "resolve")
    /\ seen' = [seen EXCEPT ![r] = sources]
    /\ UNCHANGED <<registry, traceOf, sources, resolved, collectors, snapshots, line>>

Resolve(r) ==
    /\ pc[r] = "resolve"
    /\ resolved[r] < seen[r]
    /\ resolved' = [resolved EXCEPT ![r] = @ + 1]
    /\ UNCHANGED <<registry, pc, traceOf, sources, seen, collectors, snapshots, line>>

Snapshot_NeverUnregisters(r) ==
    /\ resolved[r] = seen[r]
    /\ Go(r, "resolve", "save")
    /\ meta' = [meta EXCEPT ![r] = logs[r]]
    /\ counted' = [counted EXCEPT ![r] = refused[r]]
    /\ UNCHANGED <<registry, traceOf, completion, collectors, line>>

\* GetMetadata: what arrives in the collector from here on is not stored.
Snapshot(r) ==
    /\ resolved[r] = seen[r]
    /\ Go(r, "resolve", IF traceOf[r] = NoTrace THEN "save" ELSE "unregister")
    /\ meta' = [meta EXCEPT ![r] = logs[r]]
    /\ counted' = [counted EXCEPT ![r] = refused[r]]
    /\ UNCHANGED <<registry, traceOf, completion, collectors, line>>

LoadAndDelete_AlwaysCounts(r) ==
    /\ Go(r, "unregister", "uncount")
    /\ active' = [active EXCEPT ![StoredTrace[traceOf[r]]] = NoReq]
    /\ UNCHANGED <<activeCount, traceOf, completion, collectors, snapshots, line>>

\* activeByTrace.LoadAndDelete of the id in the metadata, the cut one: it takes
\* out whatever request is registered under it.
LoadAndDelete(r) ==
    LET t == StoredTrace[traceOf[r]]
    IN  /\ pc[r] = "unregister"
        /\ \/ /\ active[t] = NoReq
              /\ Go(r, "unregister", "save")
              /\ UNCHANGED active
           \/ /\ active[t] # NoReq
              /\ Go(r, "unregister", "uncount")
              /\ active' = [active EXCEPT ![t] = NoReq]
        /\ UNCHANGED <<activeCount, traceOf, completion, collectors, snapshots, line>>

CountDown(r) ==
    /\ Go(r, "uncount", "save")
    /\ activeCount' = activeCount - 1
    /\ UNCHANGED <<active, traceOf, completion, collectors, snapshots, line>>

\* SaveMetadata: its error is dropped by the middleware.
Save(r) ==
    /\ Go(r, "save", "done")
    /\ UNCHANGED <<registry, traceOf, completion, collectors, snapshots, line>>

RegisterDataSource ==
    /\ sources < MaxSources
    /\ sources' = sources + 1
    /\ UNCHANGED <<registry, pc, traceOf, seen, resolved, collectors, snapshots, line>>

-----------------------------------------------------------------------------
(* Core.Write of the zap integration and the two RecordLog functions *)

Move(l, from, to) == line[l].at = from /\ line' = [line EXCEPT ![l].at = to]

\* Log lines change the collectors only; this is all they leave alone.
LineUnchanged == UNCHANGED <<registry, pc, traceOf, completion, snapshots>>

\* The trace_id a logger is bound to goes before that of the call.
FindTraceID(bound, field) == IF bound # NoTrace THEN bound ELSE field

\* Handler code logs, with or without its trace id: the handler itself, or a
\* goroutine it started, which may outlive it.  A background goroutine has none.
Emit(l) ==
    /\ line[l].at = "idle"
    /\ \/ \E r \in Reqs, bound, field \in Traces \cup {NoTrace}, sync \in BOOLEAN :
            /\ pc[r] \notin {"new", "register", "count"}
            /\ sync => pc[r] = "running"
            /\ {bound, field} \subseteq {traceOf[r], NoTrace}
            /\ line' = [line EXCEPT ![l] = [at |-> "gate", from |-> r,
                                            trace |-> FindTraceID(bound, field),
                                            sync |-> sync, target |-> NoReq]]
       \/ line' = [line EXCEPT ![l].at = "gate"]
    /\ LineUnchanged
    /\ UNCHANGED collectors

HasActiveTraces_NeedsTwo == activeCount > 1

HasActiveTraces == activeCount > 0

Gate_IgnoresTrace(l) ==
    /\ Move(l, "gate", IF ~HasActiveTraces THEN "written" ELSE "single")
    /\ LineUnchanged
    /\ UNCHANGED collectors

\* HasActiveTraces, then the choice between the two functions.
Gate(l) ==
    /\ Move(l, "gate", IF ~HasActiveTraces THEN "written"
                       ELSE IF line[l].trace = NoTrace THEN "single" ELSE "lookup")
    /\ LineUnchanged
    /\ UNCHANGED collectors

SendTo(l, from, r) ==
    /\ line[l].at = from
    /\ line' = [line EXCEPT ![l].at = "append", ![l].target = r]

\* RecordLogForTraceWithTrace loads the collector of the trace.
Lookup(l) ==
    /\ line[l].at = "lookup"
    /\ \/ /\ active[line[l].trace] # NoReq
          /\ SendTo(l, "lookup", active[line[l].trace])
       \/ /\ active[line[l].trace] = NoReq
          /\ Move(l, "lookup", "written")
    /\ LineUnchanged
    /\ UNCHANGED collectors

\* RecordLogForSingleActiveWithTrace checks the counter ...
CheckSingle(l) ==
    /\ Move(l, "single", IF activeCount = 1 THEN "range" ELSE "written")
    /\ LineUnchanged
    /\ UNCHANGED collectors

\* ... and then takes the first collector Range comes across.
RangeFirst(l) ==
    /\ \/ \E t \in Traces : active[t] # NoReq /\ SendTo(l, "range", active[t])
       \/ /\ \A t \in Traces : active[t] = NoReq
          /\ Move(l, "range", "written")
    /\ LineUnchanged
    /\ UNCHANGED collectors

\* AddLogEntryWithTrace on the collector found, whatever its request is doing.
\* A full list refuses the line, and so may the byte budget, which everything
\* else the request records draws on: the line is only counted then.
AppendLine(l) ==
    LET r == line[l].target
    IN  /\ Move(l, "append", "written")
        /\ \/ /\ MaxLogs > 0 => Cardinality(logs[r]) < MaxLogs
              /\ logs' = [logs EXCEPT ![r] = @ \cup {l}]
              /\ UNCHANGED refused
           \/ /\ refused' = [refused EXCEPT ![r] = @ \cup {l}]
              /\ UNCHANGED logs
        /\ LineUnchanged

-----------------------------------------------------------------------------
RequestStep(r) ==
    \/ Capture(r) \/ LoadOrStore(r) \/ CountUp(r) \/ HandlerReturns(r) \/ Panic(r)
    \/ CopySources(r) \/ Resolve(r) \/ Snapshot(r)
    \/ LoadAndDelete(r) \/ CountDown(r) \/ Save(r)

LineStep(l) ==
    \/ Gate(l) \/ Lookup(l) \/ CheckSingle(l) \/ RangeFirst(l) \/ AppendLine(l)

Next ==
    \/ \E r \in Reqs : RequestStep(r)
    \/ \E l \in Lines : Emit(l) \/ LineStep(l)
    \/ RegisterDataSource

\* Goroutines keep running, handlers and data sources return or panic; no
\* request has to arrive and no line has to be logged.
Fairness ==
    /\ \A r \in Reqs : WF_vars(pc[r] # "new" /\ RequestStep(r))
    /\ \A l \in Lines : WF_vars(LineStep(l))

Spec == Init /\ [][Next]_vars
FairSpec == Spec /\ Fairness

-----------------------------------------------------------------------------
(* Properties *)

\* Every variable has its type; only a request with a trace id visits the
\* registry, and a line about to be appended knows where.
TypeOK ==
    /\ active \in [Traces -> Reqs \cup {NoReq}]
    /\ activeCount \in Int
    /\ pc \in [Reqs -> Stages]
    /\ traceOf \in [Reqs -> Traces \cup {NoTrace}]
    /\ sources \in Nat
    /\ seen \in [Reqs -> Nat] /\ resolved \in [Reqs -> Nat]
    /\ logs \in [Reqs -> SUBSET Lines] /\ refused \in [Reqs -> SUBSET Lines]
    /\ meta \in [Reqs -> SUBSET Lines] /\ counted \in [Reqs -> SUBSET Lines]
    /\ line \in [Lines -> LineRecord]
    /\ \A r \in Reqs :
        pc[r] \in {"register", "count", "unregister", "uncount"} => traceOf[r] \in Traces
    /\ \A l \in Lines :
        /\ line[l].at = "append" => line[l].target \in Reqs
        /\ line[l].at = "lookup" => line[l].trace \in Traces

\* The map and the counter are two atomics that no lock joins, yet they never
\* drift apart for good: they differ by the requests between the two updates.
At(stage) == {r \in Reqs : pc[r] = stage}
ActiveSet == {t \in Traces : active[t] # NoReq}
CountMatchesRegistry ==
    activeCount = Cardinality(ActiveSet)
                    - Cardinality(At("count")) + Cardinality(At("uncount"))

\* An entry of the registry belongs to a request of that trace which is still
\* being served.  There are exactly two ways to leave one behind: a panic that
\* skips CompleteRequest, and a trace id that SetTrace had to cut.
LeaksOnlyByPanicOrCut ==
    \A t \in Traces, r \in Reqs :
        active[t] = r =>
            /\ traceOf[r] = t
            /\ \/ pc[r] \in Registered \cup {"panicked"}
               \/ StoredTrace[t] # t

Over == \A r \in Reqs : pc[r] \in {"new", "done", "panicked"}
Quiet == activeCount = 0 /\ ActiveSet = {}
TracesFit == \A r \in Reqs : traceOf[r] # NoTrace => StoredTrace[traceOf[r]] = traceOf[r]
NothingLeaks == At("panicked") = {} /\ TracesFit

\* A line that carries a trace id is only ever recorded for, or counted against,
\* a request of that trace, although the registry may change between the lookup
\* and the append.
AttributedByTrace ==
    \A r \in Reqs : \A l \in logs[r] \cup refused[r] :
        line[l].trace # NoTrace => line[l].trace = traceOf[r]

\* integrations/zap/README.md, "Logs that include `trace_id` are associated with
\* the matching request": what a handler logs with its trace id is in the stored
\* metadata of its request, or among the lines that metadata counts as dropped.
TracedLinesAccounted ==
    \A r \in Reqs : pc[r] \in {"unregister", "uncount", "save", "done"} =>
        \A l \in Lines :
            line[l].from = r /\ line[l].sync /\ line[l].trace # NoTrace
                => l \in meta[r] \cup counted[r]

\* That promise holds as long as no two requests carry the same trace id and
\* SetTrace cuts none (a cut id takes out another's entry): the registry's gate,
\* lookup and append never lose a line to another request.
TracesUnique ==
    \A q, r \in Reqs : q # r /\ traceOf[q] = traceOf[r] => traceOf[q] = NoTrace
UniqueTracedLinesAccounted == TracesUnique /\ TracesFit => TracedLinesAccounted

\* If trace ids are unique, cut or not, the counter is never negative and never
\* misses a request that is running: HasActiveTraces lets its lines in.
CountCoversRunning ==
    TracesUnique =>
        activeCount >= Cardinality({r \in Reqs : traceOf[r] # NoTrace
                                        /\ pc[r] \in Registered \ {"count"}})

\* clockwork.go:163, HasActiveTraces "reports whether any request currently has
\* active Clockwork capture": it is FALSE when no request is being served.
NoCaptureWhenOver == Over => ~HasActiveTraces

\* In the end every request is over and, unless one of the two leaks happens,
\* the registry is empty for good, also when requests share trace ids and take
\* each other's entry out.
EventuallyQuiet == []NothingLeaks => <>[](Over /\ Quiet)
=============================================================================
