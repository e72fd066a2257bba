------------------------- MODULE ActiveTracesProofs -------------------------
(***************************************************************************)
(* ActiveTraces for any requests, lines, trace ids and ways to cut them:   *)
(* map and counter stay in step, what an entry that is left behind is due  *)
(* to, and whose collector a line with a trace id gets to.                 *)
(***************************************************************************)
EXTENDS ActiveTraces, FiniteSetTheorems, TLAPS

\* LeaksOnlyByPanicOrCut, and that an entry's request has been captured.
Owned ==
    \A t \in Traces, r \in Reqs :
        active[t] = r =>
            /\ traceOf[r] = t
            /\ pc[r] \notin {"new", "register"}
            /\ \/ pc[r] \in Registered \cup {"panicked"}
               \/ StoredTrace[t] # t

\* A line with this trace id may be in the collector of this request.
MayHave(r, trace) == pc[r] # "new" /\ (trace # NoTrace => trace = traceOf[r])

\* The lines that have reached the collector of this request, and those its
\* metadata holds or counts as dropped.
Reached(r) == logs[r] \cup refused[r]
Told(r) == meta[r] \cup counted[r]

LinesTraced ==
    /\ \A l \in Lines :
        /\ line[l].at \in {"single", "range"} => line[l].trace = NoTrace
        /\ line[l].at = "append" => MayHave(line[l].target, line[l].trace)
    /\ \A r \in Reqs : \A l \in Reached(r) : line[l].at = "written" /\ MayHave(r, line[l].trace)

IInv == TypeOK /\ Owned /\ LinesTraced /\ CountMatchesRegistry

-----------------------------------------------------------------------------
(* Types *)

CollectorsTyped == logs \in [Reqs -> SUBSET Lines] /\ refused \in [Reqs -> SUBSET Lines]

LEMMA StepTypes ==
    ASSUME TypeOK, NEW r \in Reqs, RequestStep(r)
    PROVE  TypeOK'
<1> USE ReqsAssumption, TracesAssumption, StoredTraceAssumption DEF Go, Stages, Registered
<1>1. CASE Capture(r)
  BY <1>1 DEF Capture, TypeOK, registry, completion, collectors, snapshots
<1>2. CASE LoadOrStore(r)
  BY <1>2 DEF LoadOrStore, TypeOK, registry, completion, collectors, snapshots
<1>3. CASE CountUp(r)
  BY <1>3 DEF CountUp, TypeOK, registry, completion, collectors, snapshots
<1>4. CASE HandlerReturns(r)
  BY <1>4 DEF HandlerReturns, TypeOK, registry, completion, collectors, snapshots
<1>5. CASE Panic(r)
  BY <1>5 DEF Panic, TypeOK, registry, completion, collectors, snapshots
<1>6. CASE CopySources(r)
  BY <1>6 DEF CopySources, TypeOK, registry, completion, collectors, snapshots
<1>7. CASE Resolve(r)
  BY <1>7 DEF Resolve, TypeOK, registry, completion, collectors, snapshots
<1>8. CASE Snapshot(r)
  BY <1>8 DEF Snapshot, TypeOK, registry, completion, collectors, snapshots
<1>9. CASE LoadAndDelete(r)
  BY <1>9 DEF LoadAndDelete, TypeOK, registry, completion, collectors, snapshots
<1>10. CASE CountDown(r)
  BY <1>10 DEF CountDown, TypeOK, registry, completion, collectors, snapshots
<1>11. CASE Save(r)
  BY <1>11 DEF Save, TypeOK, registry, completion, collectors, snapshots
<1> QED
  BY <1>1, <1>2, <1>3, <1>4, <1>5, <1>6, <1>7, <1>8, <1>9, <1>10, <1>11 DEF RequestStep

\* A line becomes this record, and the collectors may change.
LEMMA LineChangeTypes ==
    ASSUME TypeOK, NEW l \in Lines, NEW rec \in LineRecord,
           line' = [line EXCEPT ![l] = rec],
           LineUnchanged, CollectorsTyped',
           rec.at = "append" => rec.target \in Reqs,
           rec.at = "lookup" => rec.trace \in Traces
    PROVE  TypeOK'
<1>1. /\ line' \in [Lines -> LineRecord]
      /\ \A k \in Lines : line'[k] = IF k = l THEN rec ELSE line[k]
  BY DEF TypeOK
<1>2. \A k \in Lines :
        /\ line'[k].at = "append" => line'[k].target \in Reqs
        /\ line'[k].at = "lookup" => line'[k].trace \in Traces
  BY <1>1 DEF TypeOK
<1>3. /\ active' \in [Traces -> Reqs \cup {NoReq}]
      /\ activeCount' \in Int
      /\ pc' \in [Reqs -> Stages]
      /\ traceOf' \in [Reqs -> Traces \cup {NoTrace}]
      /\ sources' \in Nat
      /\ seen' \in [Reqs -> Nat] /\ resolved' \in [Reqs -> Nat]
      /\ meta' \in [Reqs -> SUBSET Lines] /\ counted' \in [Reqs -> SUBSET Lines]
      /\ \A r \in Reqs :
            pc'[r] \in {"register", "count", "unregister", "uncount"} => traceOf'[r] \in Traces
  BY DEF TypeOK, LineUnchanged, registry, completion, snapshots
<1> QED
  BY <1>1, <1>2, <1>3 DEF TypeOK, CollectorsTyped

LEMMA MoveTypes ==
    ASSUME TypeOK, NEW l \in Lines, NEW from, NEW to \in LineStages, Move(l, from, to),
           LineUnchanged, CollectorsTyped',
           to # "append", to = "lookup" => line[l].trace \in Traces
    PROVE  TypeOK'
<1> DEFINE rec == [line[l] EXCEPT !.at = to]
<1>1. line[l] \in LineRecord
  BY DEF TypeOK
<1>2. rec \in LineRecord /\ rec.at = to /\ rec.trace = line[l].trace
  BY <1>1 DEF LineRecord
<1>3. line' = [line EXCEPT ![l] = rec]
  BY DEF Move
<1> HIDE DEF rec
<1> QED
  BY <1>2, <1>3, LineChangeTypes

LEMMA SendToTypes ==
    ASSUME TypeOK, NEW l \in Lines, NEW from, NEW r \in Reqs, SendTo(l, from, r),
           LineUnchanged, UNCHANGED collectors
    PROVE  TypeOK'
<1> DEFINE rec == [line[l] EXCEPT !.at = "append", !.target = r]
<1>1. line[l] \in LineRecord /\ CollectorsTyped'
  BY DEF TypeOK, CollectorsTyped, collectors
<1>2. rec \in LineRecord /\ rec.at = "append" /\ rec.target = r
  BY <1>1 DEF LineRecord, LineStages
<1>3. line' = [line EXCEPT ![l] = rec]
  BY <1>1 DEF SendTo, LineRecord
<1> HIDE DEF rec
<1> QED
  BY <1>1, <1>2, <1>3, LineChangeTypes

LEMMA LineTypes ==
    ASSUME TypeOK, NEW l \in Lines, Emit(l) \/ LineStep(l)
    PROVE  TypeOK'
<1>1. line[l] \in LineRecord /\ CollectorsTyped
  BY DEF TypeOK, CollectorsTyped
<1>c. UNCHANGED collectors => CollectorsTyped'
  BY <1>1 DEF CollectorsTyped, collectors
<1>2. CASE Emit(l)
  <2>1. LineUnchanged /\ CollectorsTyped'
    BY <1>c, <1>2 DEF Emit
  <2>2. ASSUME NEW r \in Reqs, NEW bound \in Traces \cup {NoTrace},
               NEW field \in Traces \cup {NoTrace}, NEW sync \in BOOLEAN,
               line' = [line EXCEPT ![l] = [at |-> "gate", from |-> r,
                                            trace |-> FindTraceID(bound, field),
                                            sync |-> sync, target |-> NoReq]]
        PROVE  TypeOK'
    <3> DEFINE rec == [at |-> "gate", from |-> r, trace |-> FindTraceID(bound, field),
                       sync |-> sync, target |-> NoReq]
    <3>1. rec \in LineRecord /\ rec.at = "gate"
      BY DEF LineRecord, LineStages, FindTraceID
    <3>2. line' = [line EXCEPT ![l] = rec]
      BY <2>2
    <3> HIDE DEF rec
    <3> QED
      BY <2>1, <3>1, <3>2, LineChangeTypes
  <2>3. CASE line' = [line EXCEPT ![l].at = "gate"]
    <3>1. Move(l, "idle", "gate") /\ "gate" \in LineStages
      BY <1>2, <2>3 DEF Emit, Move, LineStages
    <3> QED
      BY <2>1, <3>1, MoveTypes
  <2> QED
    BY <1>2, <2>2, <2>3 DEF Emit
<1>3. CASE Gate(l)
  <2> DEFINE to == IF ~HasActiveTraces THEN "written"
                   ELSE IF line[l].trace = NoTrace THEN "single" ELSE "lookup"
  <2>1. /\ to \in LineStages /\ to # "append"
        /\ to = "lookup" => line[l].trace \in Traces
    BY <1>1 DEF LineStages, LineRecord
  <2>2. Move(l, "gate", to) /\ LineUnchanged /\ CollectorsTyped'
    BY <1>c, <1>3 DEF Gate
  <2> HIDE DEF to
  <2> QED
    BY <2>1, <2>2, MoveTypes
<1>4. CASE Lookup(l)
  <2>1. /\ LineUnchanged /\ UNCHANGED collectors
        /\ line[l].trace \in Traces
    BY <1>4 DEF Lookup, TypeOK
  <2>2. CASE /\ active[line[l].trace] # NoReq
             /\ SendTo(l, "lookup", active[line[l].trace])
    <3>1. active[line[l].trace] \in Reqs
      BY <2>1, <2>2 DEF TypeOK
    <3> QED
      BY <2>1, <2>2, <3>1, SendToTypes
  <2>3. CASE Move(l, "lookup", "written")
    BY <1>c, <2>1, <2>3, MoveTypes DEF LineStages
  <2> QED
    BY <1>4, <2>2, <2>3 DEF Lookup
<1>5. CASE CheckSingle(l)
  <2> DEFINE to == IF activeCount = 1 THEN "range" ELSE "written"
  <2>1. to \in LineStages /\ to \notin {"append", "lookup"}
    BY DEF LineStages
  <2>2. Move(l, "single", to) /\ LineUnchanged /\ CollectorsTyped'
    BY <1>c, <1>5 DEF CheckSingle
  <2> HIDE DEF to
  <2> QED
    BY <2>1, <2>2, MoveTypes
<1>6. CASE RangeFirst(l)
  <2>1. LineUnchanged /\ UNCHANGED collectors
    BY <1>6 DEF RangeFirst
  <2>2. ASSUME NEW t \in Traces, active[t] # NoReq, SendTo(l, "range", active[t])
        PROVE  TypeOK'
    <3>1. active[t] \in Reqs
      BY <2>2 DEF TypeOK
    <3> QED
      BY <2>1, <2>2, <3>1, SendToTypes
  <2>3. CASE Move(l, "range", "written")
    BY <1>c, <2>1, <2>3, MoveTypes DEF LineStages
  <2> QED
    BY <1>6, <2>2, <2>3 DEF RangeFirst
<1>7. CASE AppendLine(l)
  <2>1. Move(l, "append", "written") /\ LineUnchanged
    BY <1>7 DEF AppendLine
  <2>2. CollectorsTyped'
    BY <1>1, <1>7 DEF AppendLine, CollectorsTyped
  <2> QED
    BY <2>1, <2>2, MoveTypes DEF LineStages
<1> QED
  BY <1>2, <1>3, <1>4, <1>5, <1>6, <1>7 DEF LineStep

-----------------------------------------------------------------------------
(* Who an entry belongs to *)

\* A step that leaves the map alone, and the entries' requests registered.
LEMMA OwnedKept ==
    ASSUME TypeOK, Owned, UNCHANGED active,
           \A r \in Reqs :
               /\ pc[r] \notin {"new", "register"} =>
                     /\ traceOf'[r] = traceOf[r]
                     /\ pc'[r] \notin {"new", "register"}
               /\ pc[r] \in Registered \cup {"panicked"} /\ traceOf[r] \in Traces
                     => pc'[r] \in Registered \cup {"panicked"}
    PROVE  Owned'
BY DEF TypeOK, Owned

LEMMA StepOwned ==
    ASSUME TypeOK, Owned, NEW r \in Reqs, RequestStep(r)
    PROVE  Owned'
<1> USE ReqsAssumption, TracesAssumption DEF Go, Stages, Registered, registry
<1>1. CASE Capture(r)
  BY <1>1 DEF Capture, TypeOK, Owned
<1>2. CASE LoadOrStore(r)
  <2>1. traceOf[r] \in Traces /\ pc[r] = "register" /\ traceOf' = traceOf
    BY <1>2 DEF LoadOrStore, TypeOK
  <2>2. CASE Go(r, "register", "count") /\ active' = [active EXCEPT ![traceOf[r]] = r]
    BY <2>1, <2>2 DEF TypeOK, Owned
  <2>3. CASE Go(r, "register", "running") /\ UNCHANGED active
    BY <2>1, <2>3 DEF TypeOK, Owned
  <2> QED
    BY <1>2, <2>2, <2>3 DEF LoadOrStore
<1>3. CASE CountUp(r)
  BY <1>3, OwnedKept DEF CountUp, TypeOK
<1>4. CASE HandlerReturns(r)
  BY <1>4, OwnedKept DEF HandlerReturns, TypeOK
<1>5. CASE Panic(r)
  BY <1>5, OwnedKept DEF Panic, TypeOK
<1>6. CASE CopySources(r)
  BY <1>6, OwnedKept DEF CopySources, TypeOK
<1>7. CASE Resolve(r)
  BY <1>7, OwnedKept DEF Resolve, TypeOK
<1>8. CASE Snapshot(r)
  BY <1>8, OwnedKept DEF Snapshot, TypeOK
<1>9. CASE LoadAndDelete(r)
  <2> DEFINE t == StoredTrace[traceOf[r]]
  <2>1. /\ pc[r] = "unregister" /\ traceOf[r] \in Traces /\ t \in Traces
        /\ traceOf' = traceOf
    BY <1>9, StoredTraceAssumption DEF LoadAndDelete, TypeOK
  <2>2. /\ active'[t] = NoReq
        /\ \A u \in Traces \ {t} : active'[u] = active[u]
        /\ pc' \in [Reqs -> Stages]
        /\ pc'[r] \in {"save", "uncount"}
        /\ \A q \in Reqs \ {r} : pc'[q] = pc[q]
    BY <1>9, <2>1 DEF LoadAndDelete, TypeOK
  <2> QED
    BY <2>1, <2>2 DEF Owned
<1>10. CASE CountDown(r)
  BY <1>10 DEF CountDown, TypeOK, Owned
<1>11. CASE Save(r)
  BY <1>11 DEF Save, TypeOK, Owned
<1> QED
  BY <1>1, <1>2, <1>3, <1>4, <1>5, <1>6, <1>7, <1>8, <1>9, <1>10, <1>11 DEF RequestStep

-----------------------------------------------------------------------------
(* Where a line with a trace id goes *)

\* A request that has been captured keeps its trace id, and nothing else about
\* requests matters here.
LEMMA LinesKept ==
    ASSUME TypeOK, LinesTraced, UNCHANGED <<line, collectors>>,
           \A r \in Reqs : pc[r] # "new" => pc'[r] # "new" /\ traceOf'[r] = traceOf[r]
    PROVE  LinesTraced'
BY DEF TypeOK, LinesTraced, MayHave, Reached, collectors

LEMMA StepLines ==
    ASSUME TypeOK, LinesTraced, NEW r \in Reqs, RequestStep(r)
    PROVE  LinesTraced'
<1>1. UNCHANGED <<line, collectors>>
  BY DEF RequestStep, Capture, LoadOrStore, CountUp, HandlerReturns, Panic, CopySources,
         Resolve, Snapshot, LoadAndDelete, CountDown, Save
<1>2. \A q \in Reqs : pc[q] # "new" => pc'[q] # "new"
  BY DEF TypeOK, RequestStep, Go, Capture, LoadOrStore, CountUp, HandlerReturns, Panic,
         CopySources, Resolve, Snapshot, LoadAndDelete, CountDown, Save
<1>3. \A q \in Reqs : pc[q] # "new" => traceOf'[q] = traceOf[q]
  BY DEF TypeOK, RequestStep, Go, Capture, LoadOrStore, CountUp, HandlerReturns, Panic,
         CopySources, Resolve, Snapshot, LoadAndDelete, CountDown, Save
<1> QED
  BY <1>1, <1>2, <1>3, LinesKept

\* A line moves on and keeps what it says.
LEMMA LineMoves ==
    ASSUME TypeOK, LinesTraced, LineUnchanged, collectors' = collectors, NEW l \in Lines,
           line[l].at \notin {"append", "written"},
           \A k \in Lines \ {l} : line'[k] = line[k],
           line'[l].at \in {"single", "range"} => line'[l].trace = NoTrace,
           line'[l].at = "append" => MayHave(line'[l].target, line'[l].trace)
    PROVE  LinesTraced'
BY DEF TypeOK, LinesTraced, MayHave, LineUnchanged, Reached, collectors

\* The collector found in the map belongs to a request of the entry's trace.
LEMMA EntryMayHave ==
    ASSUME TypeOK, Owned, NEW t \in Traces, active[t] # NoReq,
           NEW trace, trace \in {t, NoTrace}
    PROVE  MayHave(active[t], trace)
BY ReqsAssumption DEF TypeOK, Owned, MayHave

\* Added or refused, the line gets to this collector and to no other.
LEMMA AppendReaches ==
    ASSUME TypeOK, NEW l \in Lines, line[l].target \in Reqs, AppendLine(l)
    PROVE  \A q \in Reqs :
             Reached(q)' = IF q = line[l].target THEN Reached(q) \cup {l} ELSE Reached(q)
<1> SUFFICES ASSUME NEW q \in Reqs
             PROVE  logs'[q] \cup refused'[q] =
                        IF q = line[l].target THEN (logs[q] \cup refused[q]) \cup {l}
                                              ELSE logs[q] \cup refused[q]
  BY Zenon DEF Reached
<1>1. DOMAIN logs = Reqs /\ DOMAIN refused = Reqs
  BY DEF TypeOK
<1>2. \/ logs' = [logs EXCEPT ![line[l].target] = @ \cup {l}] /\ refused' = refused
      \/ refused' = [refused EXCEPT ![line[l].target] = @ \cup {l}] /\ logs' = logs
  BY Zenon DEF AppendLine
<1> QED
  BY <1>1, <1>2

LEMMA LineLines ==
    ASSUME TypeOK, Owned, LinesTraced, NEW l \in Lines, Emit(l) \/ LineStep(l)
    PROVE  LinesTraced'
<1>1. CASE Emit(l)
  <2>1. /\ line[l].at = "idle" /\ line'[l].at = "gate"
        /\ \A k \in Lines \ {l} : line'[k] = line[k]
        /\ LineUnchanged /\ collectors' = collectors
    BY <1>1 DEF Emit, TypeOK, LineRecord
  <2> QED
    BY <2>1, LineMoves
<1>2. CASE Gate(l)
  <2>1. /\ line[l].at = "gate"
        /\ line'[l].at = "single" => line'[l].trace = NoTrace
        /\ line'[l].at \notin {"append", "range"}
        /\ \A k \in Lines \ {l} : line'[k] = line[k]
        /\ LineUnchanged /\ collectors' = collectors
    BY <1>2 DEF Gate, Move, TypeOK, LineRecord
  <2> QED
    BY <2>1, LineMoves
<1>3. CASE Lookup(l)
  <2>1. /\ line[l].at = "lookup" /\ line[l].trace \in Traces
        /\ LineUnchanged /\ collectors' = collectors
    BY <1>3 DEF Lookup, Move, SendTo, TypeOK
  <2>2. /\ line'[l].trace = line[l].trace
        /\ \A k \in Lines \ {l} : line'[k] = line[k]
        /\ \/ line'[l].at = "written"
           \/ /\ line'[l].at = "append"
              /\ active[line[l].trace] # NoReq
              /\ line'[l].target = active[line[l].trace]
    BY <1>3 DEF Lookup, Move, SendTo, TypeOK, LineRecord
  <2>3. line'[l].at = "append" => MayHave(line'[l].target, line'[l].trace)
    BY <2>1, <2>2, EntryMayHave
  <2> QED
    BY <2>1, <2>2, <2>3, LineMoves
<1>4. CASE CheckSingle(l)
  <2>1. /\ line[l].at = "single" /\ line'[l].trace = NoTrace
        /\ line'[l].at \in {"range", "written"}
        /\ \A k \in Lines \ {l} : line'[k] = line[k]
        /\ LineUnchanged /\ collectors' = collectors
    BY <1>4 DEF CheckSingle, Move, TypeOK, LineRecord, LinesTraced
  <2> QED
    BY <2>1, LineMoves
<1>5. CASE RangeFirst(l)
  <2>1. line[l].at = "range" /\ line[l].trace = NoTrace /\ LineUnchanged /\ collectors' = collectors
    BY <1>5 DEF RangeFirst, Move, SendTo, LinesTraced
  <2>2. /\ line'[l].trace = line[l].trace
        /\ \A k \in Lines \ {l} : line'[k] = line[k]
        /\ \/ line'[l].at = "written"
           \/ /\ line'[l].at = "append"
              /\ \E t \in Traces : active[t] # NoReq /\ line'[l].target = active[t]
    BY <1>5 DEF RangeFirst, Move, SendTo, TypeOK, LineRecord
  <2>3. line'[l].at = "append" => MayHave(line'[l].target, line'[l].trace)
    BY <2>1, <2>2, EntryMayHave
  <2> QED
    BY <2>1, <2>2, <2>3, LineMoves
<1>6. CASE AppendLine(l)
  <2>1. /\ line[l].at = "append" /\ line[l].target \in Reqs
        /\ MayHave(line[l].target, line[l].trace)
        /\ LineUnchanged
    BY <1>6 DEF AppendLine, Move, TypeOK, LinesTraced
  <2>2. /\ line'[l].at = "written" /\ line'[l].trace = line[l].trace
        /\ \A k \in Lines \ {l} : line'[k] = line[k]
    BY <1>6, <2>1 DEF AppendLine, Move, TypeOK, LineRecord
  <2>4. \A q \in Reqs :
            Reached(q)' = IF q = line[l].target THEN Reached(q) \cup {l} ELSE Reached(q)
    BY <1>6, <2>1, AppendReaches
  <2>3. \A r \in Reqs : Reached(r) \subseteq Lines
    BY DEF TypeOK, Reached
  <2> QED
    BY <2>1, <2>2, <2>3, <2>4 DEF LinesTraced, MayHave, LineUnchanged
<1> QED
  BY <1>1, <1>2, <1>3, <1>4, <1>5, <1>6 DEF LineStep

-----------------------------------------------------------------------------
(* Map and counter *)

LEMMA SetsFinite ==
    /\ IsFiniteSet(ActiveSet) /\ Cardinality(ActiveSet) \in Nat
    /\ \A stage : IsFiniteSet(At(stage)) /\ Cardinality(At(stage)) \in Nat
<1>1. IsFiniteSet(ActiveSet)
  BY TracesAssumption, FS_Subset DEF ActiveSet
<1>2. ASSUME NEW stage PROVE IsFiniteSet(At(stage))
  BY ReqsAssumption, FS_Subset DEF At
<1> QED
  BY <1>1, <1>2, FS_CardinalityType

\* Two requests are told apart by their stages: moving one changes two sets.
LEMMA GoMoves ==
    ASSUME TypeOK, NEW r \in Reqs, NEW from, NEW to \in Stages, from # to, Go(r, from, to)
    PROVE  /\ r \in At(from) /\ At(from)' = At(from) \ {r}
           /\ r \notin At(to) /\ At(to)' = At(to) \cup {r}
           /\ At("count")' = IF from = "count" THEN At("count") \ {r}
                             ELSE IF to = "count" THEN At("count") \cup {r} ELSE At("count")
           /\ At("uncount")' = IF from = "uncount" THEN At("uncount") \ {r}
                               ELSE IF to = "uncount" THEN At("uncount") \cup {r}
                               ELSE At("uncount")
BY DEF TypeOK, Go, At

\* Most steps touch neither the map nor the counter nor the stages between them.
LEMMA CountKept ==
    ASSUME CountMatchesRegistry, UNCHANGED registry,
           At("count")' = At("count"), At("uncount")' = At("uncount")
    PROVE  CountMatchesRegistry'
BY DEF CountMatchesRegistry, registry, ActiveSet

LEMMA StepCounts ==
    ASSUME TypeOK, CountMatchesRegistry, NEW r \in Reqs, RequestStep(r)
    PROVE  CountMatchesRegistry'
<1>0. activeCount \in Int
  BY DEF TypeOK
<1>1. ASSUME NEW from, NEW to \in Stages, from # to, Go(r, from, to), UNCHANGED registry,
             {from, to} \cap {"count", "uncount"} = {}
      PROVE  CountMatchesRegistry'
  BY <1>1, GoMoves, CountKept
<1>2. CASE Capture(r)
  <2>1. PICK trace \in Traces \cup {NoTrace} :
            Go(r, "new", IF trace = NoTrace THEN "running" ELSE "register")
    BY <1>2 DEF Capture
  <2>2. UNCHANGED registry
    BY <1>2 DEF Capture
  <2> QED
    BY <2>1, <2>2, <1>1 DEF Stages, Registered
<1>3. CASE LoadOrStore(r)
  <2>1. traceOf[r] \in Traces /\ activeCount' = activeCount
    BY <1>3 DEF LoadOrStore, TypeOK
  <2>2. CASE /\ active[traceOf[r]] = NoReq
             /\ Go(r, "register", "count")
             /\ active' = [active EXCEPT ![traceOf[r]] = r]
    <3>1. ActiveSet' = ActiveSet \cup {traceOf[r]} /\ traceOf[r] \notin ActiveSet
      BY <2>1, <2>2, ReqsAssumption DEF ActiveSet, TypeOK
    <3>2. /\ At("count")' = At("count") \cup {r} /\ r \notin At("count")
          /\ At("uncount")' = At("uncount")
      BY <2>2, GoMoves DEF Stages, Registered
    <3>3. Cardinality(ActiveSet') = Cardinality(ActiveSet) + 1
      BY <3>1, SetsFinite, FS_AddElement
    <3>4. Cardinality(At("count")') = Cardinality(At("count")) + 1
      BY <3>2, SetsFinite, FS_AddElement
    <3> QED
      BY <1>0, <2>1, <3>2, <3>3, <3>4, SetsFinite DEF CountMatchesRegistry
  <2>3. CASE Go(r, "register", "running") /\ UNCHANGED active
    BY <2>1, <2>3, <1>1 DEF Stages, Registered, registry
  <2> QED
    BY <1>3, <2>2, <2>3 DEF LoadOrStore
<1>4. CASE CountUp(r)
  <2>1. activeCount' = activeCount + 1 /\ ActiveSet' = ActiveSet
    BY <1>4 DEF CountUp, ActiveSet
  <2>2. /\ At("count")' = At("count") \ {r} /\ r \in At("count")
        /\ At("uncount")' = At("uncount")
    BY <1>4, GoMoves DEF CountUp, Stages, Registered
  <2>3. Cardinality(At("count")') = Cardinality(At("count")) - 1
    BY <2>2, SetsFinite, FS_RemoveElement
  <2> QED
    BY <1>0, <2>1, <2>2, <2>3, SetsFinite DEF CountMatchesRegistry
<1>5. CASE HandlerReturns(r)
  BY <1>1, <1>5 DEF HandlerReturns, Stages, Registered
<1>6. CASE Panic(r)
  BY <1>1, <1>6 DEF Panic, Stages, Registered
<1>7. CASE CopySources(r)
  BY <1>1, <1>7 DEF CopySources, Stages, Registered
<1>8. CASE Resolve(r)
  <2>1. pc' = pc /\ UNCHANGED registry
    BY <1>8 DEF Resolve
  <2> QED
    BY <2>1, CountKept DEF At
<1>9. CASE Snapshot(r)
  BY <1>1, <1>9 DEF Snapshot, Stages, Registered
<1>10. CASE LoadAndDelete(r)
  <2> DEFINE t == StoredTrace[traceOf[r]]
  <2>1. t \in Traces /\ activeCount' = activeCount
    BY <1>10, StoredTraceAssumption DEF LoadAndDelete, TypeOK
  <2>2. CASE Go(r, "unregister", "save") /\ UNCHANGED active
    BY <2>1, <2>2, <1>1 DEF Stages, Registered, registry
  <2>3. CASE /\ active[t] # NoReq
             /\ Go(r, "unregister", "uncount")
             /\ active' = [active EXCEPT ![t] = NoReq]
    <3>1. ActiveSet' = ActiveSet \ {t} /\ t \in ActiveSet
      BY <2>1, <2>3 DEF ActiveSet, TypeOK
    <3>2. /\ At("uncount")' = At("uncount") \cup {r} /\ r \notin At("uncount")
          /\ At("count")' = At("count")
      BY <2>3, GoMoves DEF Stages, Registered
    <3>3. Cardinality(ActiveSet') = Cardinality(ActiveSet) - 1
      BY <3>1, SetsFinite, FS_RemoveElement
    <3>4. Cardinality(At("uncount")') = Cardinality(At("uncount")) + 1
      BY <3>2, SetsFinite, FS_AddElement
    <3> QED
      BY <1>0, <2>1, <3>2, <3>3, <3>4, SetsFinite DEF CountMatchesRegistry
  <2> QED
    BY <1>10, <2>2, <2>3 DEF LoadAndDelete
<1>11. CASE CountDown(r)
  <2>1. activeCount' = activeCount - 1 /\ ActiveSet' = ActiveSet
    BY <1>11 DEF CountDown, ActiveSet
  <2>2. /\ At("uncount")' = At("uncount") \ {r} /\ r \in At("uncount")
        /\ At("count")' = At("count")
    BY <1>11, GoMoves DEF CountDown, Stages, Registered
  <2>3. Cardinality(At("uncount")') = Cardinality(At("uncount")) - 1
    BY <2>2, SetsFinite, FS_RemoveElement
  <2> QED
    BY <1>0, <2>1, <2>2, <2>3, SetsFinite DEF CountMatchesRegistry
<1>12. CASE Save(r)
  BY <1>1, <1>12 DEF Save, Stages, Registered
<1> QED
  BY <1>2, <1>3, <1>4, <1>5, <1>6, <1>7, <1>8, <1>9, <1>10, <1>11, <1>12 DEF RequestStep

-----------------------------------------------------------------------------
LEMMA InitHolds == Init => IInv
<1> SUFFICES ASSUME Init PROVE IInv
  OBVIOUS
<1>1. TypeOK
  BY DEF Init, TypeOK, Stages, Registered, LineRecord, LineStages
<1>2. Owned
  BY ReqsAssumption DEF Init, Owned
<1>3. LinesTraced
  BY DEF Init, LinesTraced, Reached
<1>4. CountMatchesRegistry
  <2>1. ActiveSet = {} /\ At("count") = {} /\ At("uncount") = {}
    BY DEF Init, ActiveSet, At
  <2>2. /\ Cardinality(ActiveSet) = 0
        /\ Cardinality(At("count")) = 0 /\ Cardinality(At("uncount")) = 0
    BY <2>1, FS_EmptySet, Zenon
  <2> QED
    BY <2>2 DEF Init, CountMatchesRegistry
<1> QED
  BY <1>1, <1>2, <1>3, <1>4 DEF IInv

\* Registry, requests and lines together, in every reachable state.
THEOREM Invariance == Spec => []IInv
<1>1. IInv /\ [Next]_vars => IInv'
  <2> SUFFICES ASSUME IInv, [Next]_vars PROVE IInv'
    OBVIOUS
  <2>1. ASSUME NEW r \in Reqs, RequestStep(r) PROVE IInv'
    BY <2>1, StepTypes, StepOwned, StepLines, StepCounts DEF IInv
  <2>2. ASSUME NEW l \in Lines, Emit(l) \/ LineStep(l) PROVE IInv'
    <3>1. LineUnchanged
      BY <2>2 DEF Emit, LineStep, Gate, Lookup, CheckSingle, RangeFirst, AppendLine
    <3>2. Owned' /\ CountMatchesRegistry'
      BY <3>1 DEF IInv, LineUnchanged, registry, Owned, CountMatchesRegistry, ActiveSet, At
    <3> QED
      BY <2>2, <3>2, LineTypes, LineLines DEF IInv
  <2>3. CASE RegisterDataSource
    <3>1. /\ UNCHANGED <<registry, pc, traceOf, seen, resolved, collectors, snapshots, line>>
          /\ sources' = sources + 1
      BY <2>3 DEF RegisterDataSource
    <3>2. TypeOK'
      BY <3>1 DEF IInv, TypeOK, registry, collectors, snapshots
    <3> QED
      BY <3>1, <3>2 DEF IInv, registry, collectors, Owned, LinesTraced, Reached, MayHave,
                        CountMatchesRegistry, ActiveSet, At
  <2>4. CASE UNCHANGED vars
    BY <2>4 DEF vars, registry, completion, collectors, snapshots, IInv, TypeOK, Owned,
                LinesTraced, Reached, MayHave, CountMatchesRegistry, ActiveSet, At
  <2> QED
    BY <2>1, <2>2, <2>3, <2>4 DEF Next
<1> QED
  BY InitHolds, <1>1, PTL DEF Spec

\* The variables of the registry, of its requests and of the lines keep their types.
THEOREM TypeCorrect == Spec => []TypeOK
BY Invariance, PTL DEF IInv

\* RegisterTrace and unregisterTrace: map and counter differ by the requests
\* between the two updates only, however many requests share a trace id.
THEOREM CountFollowsRegistry == Spec => []CountMatchesRegistry
BY Invariance, PTL DEF IInv

\* An entry that is left behind is due to a panic or to an id that was cut.
THEOREM LeaksNamed == Spec => []LeaksOnlyByPanicOrCut
<1>1. IInv => LeaksOnlyByPanicOrCut
  BY DEF IInv, Owned, LeaksOnlyByPanicOrCut
<1> QED
  BY Invariance, <1>1, PTL

\* A line with a trace id is recorded for a request of that trace, counted against
\* one, or neither.
THEOREM TracesNotMixed == Spec => []AttributedByTrace
<1>1. IInv => AttributedByTrace
  BY DEF IInv, LinesTraced, Reached, MayHave, AttributedByTrace
<1> QED
  BY Invariance, <1>1, PTL
-----------------------------------------------------------------------------
(* Traces that are unique: the counter covers the requests that run *)

FreshUntraced == \A r \in Reqs : pc[r] = "new" => traceOf[r] = NoTrace

Tracked == {r \in Reqs : traceOf[r] # NoTrace /\ pc[r] \in Registered}

\* Each request has put an entry in and has taken none out, its own or another's.
Covered == TracesUnique => Cardinality(ActiveSet) >= Cardinality(Tracked)

\* A request that leaves the traces alone, but for one that has had none.
TracesKept == \A q \in Reqs :
    traceOf'[q] = traceOf[q] \/ (pc[q] = "new" /\ traceOf[q] = NoTrace)

LEMMA TracesKeptFacts ==
    ASSUME TypeOK, TracesKept
    PROVE  (TracesUnique' => TracesUnique) /\ (TracesFit' => TracesFit)
BY DEF TypeOK, TracesKept, TracesUnique, TracesFit

LEMMA StepTraces ==
    ASSUME TypeOK, FreshUntraced, NEW r \in Reqs, RequestStep(r)
    PROVE  FreshUntraced' /\ TracesKept
<1>1. CASE Capture(r)
  BY <1>1 DEF Capture, Go, TypeOK, FreshUntraced, TracesKept
<1>2. CASE ~Capture(r)
  <2>1. traceOf' = traceOf
    BY <1>2 DEF RequestStep, LoadOrStore, CountUp, HandlerReturns, Panic, CopySources,
                Resolve, Snapshot, LoadAndDelete, CountDown, Save
  <2>2. \A q \in Reqs : pc'[q] = "new" => pc[q] = "new"
    BY <1>2 DEF TypeOK, RequestStep, Go, LoadOrStore, CountUp, HandlerReturns, Panic,
                CopySources, Resolve, Snapshot, LoadAndDelete, CountDown, Save
  <2> QED
    BY <2>1, <2>2 DEF FreshUntraced, TracesKept
<1> QED
  BY <1>1, <1>2

LEMMA TrackedFinite ==
    IsFiniteSet(Tracked) /\ Cardinality(Tracked) \in Nat
BY ReqsAssumption, FS_Subset, FS_CardinalityType DEF Tracked

LEMMA CoveredKept ==
    ASSUME TypeOK, Covered, TracesKept, Tracked' \subseteq Tracked, ActiveSet' = ActiveSet
    PROVE  Covered'
<1>1. Cardinality(Tracked') <= Cardinality(Tracked) /\ Cardinality(Tracked') \in Nat
  BY TrackedFinite, FS_Subset, FS_CardinalityType
<1> QED
  BY <1>1, TracesKeptFacts, TrackedFinite, SetsFinite DEF Covered

\* Going between places where a request is registered, or leaving them.
LEMMA GoTracked ==
    ASSUME TypeOK, NEW r \in Reqs, NEW from, NEW to \in Stages, Go(r, from, to),
           traceOf' = traceOf,
           to \in Registered => from \in Registered \/ traceOf[r] = NoTrace
    PROVE  Tracked' \subseteq Tracked
BY DEF TypeOK, Go, Tracked

LEMMA StepCovered ==
    ASSUME TypeOK, Owned, FreshUntraced, Covered, NEW r \in Reqs, RequestStep(r)
    PROVE  Covered'
<1>0. TracesKept
  BY StepTraces
<1>1. ASSUME UNCHANGED active, Tracked' \subseteq Tracked PROVE Covered'
  <2>1. ActiveSet' = ActiveSet
    BY <1>1 DEF ActiveSet
  <2> QED
    BY <1>0, <1>1, <2>1, CoveredKept
<1>2. CASE Capture(r)
  <2>1. Tracked' \subseteq Tracked
    BY <1>2 DEF Capture, Go, TypeOK, Tracked, Registered
  <2> QED
    BY <1>1, <1>2, <2>1 DEF Capture, registry
<1>3. CASE LoadOrStore(r)
  <2>1. traceOf[r] \in Traces /\ pc[r] = "register" /\ traceOf' = traceOf
    BY <1>3 DEF LoadOrStore, TypeOK
  <2>2. CASE /\ active[traceOf[r]] = NoReq
             /\ Go(r, "register", "count")
             /\ active' = [active EXCEPT ![traceOf[r]] = r]
    <3>1. ActiveSet' = ActiveSet \cup {traceOf[r]} /\ traceOf[r] \notin ActiveSet
      BY <2>1, <2>2, ReqsAssumption DEF ActiveSet, TypeOK
    <3>2. Tracked' = Tracked \cup {r} /\ r \notin Tracked
      BY <2>1, <2>2, TracesAssumption DEF Tracked, TypeOK, Go, Registered
    <3>3. Cardinality(ActiveSet') = Cardinality(ActiveSet) + 1
      BY <3>1, SetsFinite, FS_AddElement
    <3>4. Cardinality(Tracked') = Cardinality(Tracked) + 1
      BY <3>2, TrackedFinite, FS_AddElement
    <3> QED
      BY <1>0, <3>3, <3>4, TracesKeptFacts, TrackedFinite, SetsFinite DEF Covered
  <2>3. CASE active[traceOf[r]] # NoReq
    <3>1. PICK q \in Reqs : active[traceOf[r]] = q
      BY <2>1, <2>3 DEF TypeOK
    <3>2. traceOf[q] = traceOf[r] /\ q # r /\ traceOf[r] # NoTrace
      BY <2>1, <3>1, TracesAssumption DEF Owned
    <3>3. ~TracesUnique'
      BY <2>1, <3>2 DEF TracesUnique
    <3> QED
      BY <3>3 DEF Covered
  <2> QED
    BY <1>3, <2>2, <2>3 DEF LoadOrStore
<1>4. CASE CountUp(r)
  BY <1>1, <1>4, GoTracked DEF CountUp, Stages, Registered
<1>5. CASE HandlerReturns(r)
  BY <1>1, <1>5, GoTracked DEF HandlerReturns, Stages, Registered, registry
<1>6. CASE Panic(r)
  BY <1>1, <1>6, GoTracked DEF Panic, Stages, Registered, registry
<1>7. CASE CopySources(r)
  BY <1>1, <1>7, GoTracked DEF CopySources, Stages, Registered, registry
<1>8. CASE Resolve(r)
  BY <1>1, <1>8 DEF Resolve, Tracked, registry
<1>9. CASE Snapshot(r)
  BY <1>1, <1>9, GoTracked DEF Snapshot, Stages, Registered, registry
<1>10. CASE LoadAndDelete(r)
  <2> DEFINE t == StoredTrace[traceOf[r]]
  <2>1. /\ t \in Traces /\ traceOf' = traceOf
        /\ traceOf[r] \in Traces /\ traceOf[r] # NoTrace
    BY <1>10, StoredTraceAssumption, TracesAssumption DEF LoadAndDelete, TypeOK
  <2>2. CASE Go(r, "unregister", "save") /\ UNCHANGED active
    BY <1>1, <2>1, <2>2, GoTracked DEF Stages, Registered
  <2>3. CASE /\ active[t] # NoReq
             /\ Go(r, "unregister", "uncount")
             /\ active' = [active EXCEPT ![t] = NoReq]
    <3>1. ActiveSet' = ActiveSet \ {t} /\ t \in ActiveSet
      BY <2>1, <2>3 DEF ActiveSet, TypeOK
    <3>2. Tracked' = Tracked \ {r} /\ r \in Tracked
      BY <2>1, <2>3 DEF Tracked, TypeOK, Go, Registered
    <3>3. Cardinality(ActiveSet') = Cardinality(ActiveSet) - 1
      BY <3>1, SetsFinite, FS_RemoveElement
    <3>4. Cardinality(Tracked') = Cardinality(Tracked) - 1
      BY <3>2, TrackedFinite, FS_RemoveElement
    <3> QED
      BY <1>0, <3>3, <3>4, TracesKeptFacts, TrackedFinite, SetsFinite DEF Covered
  <2> QED
    BY <1>10, <2>2, <2>3 DEF LoadAndDelete
<1>11. CASE CountDown(r)
  BY <1>1, <1>11, GoTracked DEF CountDown, Stages, Registered
<1>12. CASE Save(r)
  BY <1>1, <1>12, GoTracked DEF Save, Stages, Registered, registry
<1> QED
  BY <1>2, <1>3, <1>4, <1>5, <1>6, <1>7, <1>8, <1>9, <1>10, <1>11, <1>12 DEF RequestStep

\* The requests between the two updates of RegisterTrace are the difference.
LEMMA CoveredIsEnough ==
    ASSUME TypeOK, CountMatchesRegistry, Covered
    PROVE  CountCoversRunning
<1> DEFINE running == {r \in Reqs : traceOf[r] # NoTrace /\ pc[r] \in Registered \ {"count"}}
<1>1. At("count") \subseteq Tracked /\ running = Tracked \ At("count")
  BY TracesAssumption DEF At, Tracked, TypeOK, Registered
<1>2. Tracked \cap At("count") = At("count")
  BY <1>1
<1> HIDE DEF running
<1>3. Cardinality(running) = Cardinality(Tracked) - Cardinality(At("count"))
  <2>1. Cardinality(Tracked \ At("count"))
            = Cardinality(Tracked) - Cardinality(Tracked \cap At("count"))
    BY TrackedFinite, FS_Difference
  <2> QED
    BY <1>1, <1>2, <2>1, Zenon
<1> QED
  BY <1>3, TrackedFinite, SetsFinite DEF running, CountCoversRunning, CountMatchesRegistry, Covered
-----------------------------------------------------------------------------
(* Traces that are unique and fit: no line of a handler is lost *)

Apart == TracesUnique /\ TracesFit

\* Nobody takes out or keeps out another's entry.
Entered == Apart => \A r \in Tracked : active[traceOf[r]] = r

\* What the handler of r logs with its trace id.
Traced(l, r) == line[l].from = r /\ line[l].sync /\ line[l].trace # NoTrace

\* Where such a line is while its request goes on.
Follows(l, r) ==
    /\ pc[r] = "running" \/ line[l].at = "written"
    /\ line[l].at = "append" => line[l].target = r
    /\ line[l].at = "written" => l \in Reached(r)
    /\ pc[r] \in {"unregister", "uncount", "save", "done"} => l \in Told(r)

Followed ==
    /\ \A l \in Lines : line[l].at = "idle" => line[l].from = NoReq
    /\ \A l \in Lines, r \in Reqs : Traced(l, r) =>
        /\ line[l].trace = traceOf[r]
        /\ pc[r] \notin {"new", "register", "count"}
        /\ line[l].at \notin {"single", "range"}
        /\ Apart /\ pc[r] # "panicked" => Follows(l, r)

LEMMA EnteredKept ==
    ASSUME TypeOK, Entered, TracesKept, Tracked' \subseteq Tracked, traceOf' = traceOf,
           UNCHANGED active
    PROVE  Entered'
BY TracesKeptFacts DEF Entered, Apart

LEMMA StepEntered ==
    ASSUME TypeOK, Owned, FreshUntraced, Entered, NEW r \in Reqs, RequestStep(r)
    PROVE  Entered'
<1>0. TracesKept
  BY StepTraces
<1>1. CASE Capture(r)
  <2>1. /\ \A q \in Reqs \ {r} : pc'[q] = pc[q] /\ traceOf'[q] = traceOf[q]
        /\ pc'[r] \in {"running", "register"}
        /\ pc'[r] = "running" => traceOf'[r] = NoTrace
        /\ UNCHANGED active
    BY <1>1 DEF Capture, Go, TypeOK, registry
  <2>2. \A q \in Tracked' : q \in Tracked /\ traceOf'[q] = traceOf[q]
    BY <2>1 DEF Tracked, Registered
  <2> QED
    BY <1>0, <2>1, <2>2, TracesKeptFacts DEF Entered, Apart
<1>2. CASE LoadOrStore(r)
  <2>1. traceOf[r] \in Traces /\ pc[r] = "register" /\ traceOf' = traceOf
    BY <1>2 DEF LoadOrStore, TypeOK
  <2>2. CASE /\ active[traceOf[r]] = NoReq
             /\ Go(r, "register", "count")
             /\ active' = [active EXCEPT ![traceOf[r]] = r]
    <3>1. Tracked' \subseteq Tracked \cup {r}
      BY <2>1, <2>2 DEF Tracked, TypeOK, Go
    <3>2. ASSUME Apart, NEW q \in Tracked, q # r PROVE active'[traceOf[q]] = q
      <4>1. active[traceOf[q]] = q /\ q \in Reqs /\ traceOf[q] \in Traces
        BY <3>2 DEF Entered, Tracked, TypeOK
      <4>2. traceOf[q] # traceOf[r]
        BY <2>2, <4>1, ReqsAssumption
      <4> QED
        BY <2>2, <4>1, <4>2 DEF TypeOK
    <3>3. active'[traceOf[r]] = r
      BY <2>1, <2>2 DEF TypeOK
    <3> QED
      BY <1>0, <2>1, <3>1, <3>2, <3>3, TracesKeptFacts DEF Entered, Apart
  <2>3. CASE active[traceOf[r]] # NoReq
    <3>1. PICK q \in Reqs : active[traceOf[r]] = q
      BY <2>1, <2>3 DEF TypeOK
    <3>2. traceOf[q] = traceOf[r] /\ q # r /\ traceOf[r] # NoTrace
      BY <2>1, <3>1, TracesAssumption DEF Owned
    <3>3. ~TracesUnique'
      BY <2>1, <3>2 DEF TracesUnique
    <3> QED
      BY <3>3 DEF Entered, Apart
  <2> QED
    BY <1>2, <2>2, <2>3 DEF LoadOrStore
<1>3. CASE LoadAndDelete(r)
  <2>1. /\ traceOf[r] \in Traces /\ traceOf[r] # NoTrace /\ traceOf' = traceOf
        /\ pc' \in [Reqs -> Stages]
        /\ pc'[r] \in {"save", "uncount"}
        /\ \A q \in Reqs \ {r} : pc'[q] = pc[q]
    BY <1>3, TracesAssumption DEF LoadAndDelete, Go, TypeOK, Stages, Registered
  <2>2. \A u \in Traces \ {StoredTrace[traceOf[r]]} : active'[u] = active[u]
    BY <1>3 DEF LoadAndDelete, TypeOK
  <2>3. Tracked' \subseteq Tracked \ {r}
    BY <2>1 DEF Tracked, Registered
  <2>4. ASSUME Apart, NEW q \in Tracked, q # r PROVE active'[traceOf[q]] = q
    <3>1. active[traceOf[q]] = q /\ q \in Reqs /\ traceOf[q] \in Traces
      BY <2>4 DEF Entered, Tracked, TypeOK
    <3>2. traceOf[q] # traceOf[r] /\ StoredTrace[traceOf[r]] = traceOf[r]
      BY <2>1, <2>4, <3>1 DEF Apart, TracesUnique, TracesFit
    <3> QED
      BY <2>2, <3>1, <3>2
  <2> QED
    BY <1>0, <2>1, <2>3, <2>4, TracesKeptFacts DEF Entered, Apart
<1>4. CASE \/ CountUp(r) \/ HandlerReturns(r) \/ Panic(r) \/ CopySources(r) \/ Resolve(r)
           \/ Snapshot(r) \/ CountDown(r) \/ Save(r)
  <2>1. UNCHANGED active /\ traceOf' = traceOf
    BY <1>4 DEF CountUp, HandlerReturns, Panic, CopySources, Resolve, Snapshot, CountDown,
                Save, registry
  <2>2. Tracked' \subseteq Tracked
    <3>1. CASE Resolve(r)
      BY <3>1 DEF Resolve, Tracked
    <3>2. CASE Snapshot(r)
      BY <3>2, GoTracked DEF Snapshot, Stages, Registered
    <3>3. CASE Panic(r)
      BY <3>3, GoTracked DEF Panic, Stages, Registered
    <3>4. CASE CountUp(r) \/ HandlerReturns(r) \/ CopySources(r) \/ CountDown(r) \/ Save(r)
      BY <2>1, <3>4, GoTracked
         DEF CountUp, HandlerReturns, CopySources, CountDown, Save, Stages, Registered
    <3> QED
      BY <1>4, <3>1, <3>2, <3>3, <3>4
  <2> QED
    BY <1>0, <2>1, <2>2, EnteredKept
<1> QED
  BY <1>1, <1>2, <1>3, <1>4 DEF RequestStep

\* A step of a request that moves no line and takes nothing from its collector.
LEMMA FollowedKept ==
    ASSUME TypeOK, Followed, TracesKept, UNCHANGED <<line, collectors>>,
           \A q \in Reqs :
               /\ pc[q] \notin {"new", "register", "count"}
                    => pc'[q] \notin {"new", "register", "count"}
               /\ pc'[q] # "panicked" => pc[q] # "panicked"
               /\ Told(q)' = Told(q) \/ Told(q)' = Reached(q)
               /\ pc[q] = "running" /\ pc'[q] \notin {"running", "panicked"} =>
                    \A l \in Lines : Traced(l, q) => line[l].at \in {"idle", "written"}
               /\ pc[q] = "running" => pc'[q] \notin {"unregister", "uncount", "save", "done"}
               /\ pc'[q] \in {"unregister", "uncount", "save", "done"} =>
                    \/ pc[q] \in {"unregister", "uncount", "save", "done"}
                    \/ Told(q)' = Reached(q)
    PROVE  Followed'
<1> SUFFICES ASSUME NEW l \in Lines, NEW r \in Reqs, Traced(l, r)'
             PROVE  /\ line'[l].trace = traceOf'[r]
                    /\ pc'[r] \notin {"new", "register", "count"}
                    /\ line'[l].at \notin {"single", "range"}
                    /\ Apart' /\ pc'[r] # "panicked" => Follows(l, r)'
  BY DEF Followed
<1>1. /\ Traced(l, r) /\ line' = line /\ Reached(r)' = Reached(r)
      /\ line[l].from = r /\ line[l].at # "idle"
  BY ReqsAssumption DEF Traced, Followed, Reached, collectors
<1>2. /\ line[l].trace = traceOf[r]
      /\ pc[r] \notin {"new", "register", "count"}
      /\ line[l].at \notin {"single", "range"}
      /\ Apart /\ pc[r] # "panicked" => Follows(l, r)
  BY <1>1 DEF Followed
<1>3. traceOf'[r] = traceOf[r] /\ pc'[r] \notin {"new", "register", "count"}
  BY <1>2 DEF TracesKept
<1>4. ASSUME Apart', pc'[r] # "panicked" PROVE Follows(l, r)'
  <2>1. Apart /\ pc[r] # "panicked"
    BY <1>4, TracesKeptFacts DEF Apart
  <2>2. Follows(l, r)
    BY <1>2, <2>1
  <2>3. pc'[r] = "running" \/ line[l].at = "written"
    BY <1>1, <1>4, <2>2 DEF Follows
  <2>4. pc'[r] \in {"unregister", "uncount", "save", "done"} => l \in Told(r)'
    BY <1>1, <2>2 DEF Follows
  <2> QED
    BY <1>1, <2>2, <2>3, <2>4 DEF Follows
<1> QED
  BY <1>1, <1>2, <1>3, <1>4
LEMMA StepFollowed ==
    ASSUME TypeOK, FreshUntraced, Followed, NEW r \in Reqs, RequestStep(r)
    PROVE  Followed'
<1>0. TracesKept
  BY StepTraces
<1>1. UNCHANGED <<line, collectors>>
  BY DEF RequestStep, Capture, LoadOrStore, CountUp, HandlerReturns, Panic, CopySources,
         Resolve, Snapshot, LoadAndDelete, CountDown, Save
<1> USE DEF Go
<1>2. CASE Capture(r) \/ LoadOrStore(r) \/ CountUp(r)
  <2>1. /\ pc[r] \in {"new", "register", "count"}
        /\ pc'[r] \in {"running", "register", "count"}
        /\ \A q \in Reqs \ {r} : pc'[q] = pc[q]
        /\ \A q \in Reqs : Told(q)' = Told(q)
    BY <1>2 DEF Capture, LoadOrStore, CountUp, TypeOK, Told, snapshots
  <2> QED
    BY <1>0, <1>1, <2>1, FollowedKept
<1>3. CASE HandlerReturns(r)
  <2>1. /\ pc[r] = "running" /\ pc'[r] = "complete"
        /\ \A q \in Reqs \ {r} : pc'[q] = pc[q]
        /\ \A q \in Reqs : Told(q)' = Told(q)
        /\ \A l \in Lines : Traced(l, r) => line[l].at \in {"idle", "written"}
    BY <1>3 DEF HandlerReturns, TypeOK, Traced, Told, snapshots
  <2> QED
    BY <1>0, <1>1, <2>1, FollowedKept
<1>4. CASE Panic(r)
  <2>1. /\ pc[r] \in {"running", "resolve"} /\ pc'[r] = "panicked"
        /\ \A q \in Reqs \ {r} : pc'[q] = pc[q]
        /\ \A q \in Reqs : Told(q)' = Told(q)
    BY <1>4 DEF Panic, TypeOK, Told, snapshots
  <2> QED
    BY <1>0, <1>1, <2>1, FollowedKept
<1>5. CASE CopySources(r) \/ Resolve(r)
  <2>1. /\ pc[r] \in {"complete", "resolve"} /\ pc'[r] = "resolve"
        /\ \A q \in Reqs \ {r} : pc'[q] = pc[q]
        /\ \A q \in Reqs : Told(q)' = Told(q)
    BY <1>5 DEF CopySources, Resolve, TypeOK, Told, snapshots
  <2> QED
    BY <1>0, <1>1, <2>1, FollowedKept
<1>6. CASE Snapshot(r)
  <2>1. /\ pc[r] = "resolve" /\ pc'[r] \in {"save", "unregister"}
        /\ \A q \in Reqs \ {r} : pc'[q] = pc[q] /\ Told(q)' = Told(q)
        /\ Told(r)' = Reached(r)
    BY <1>6 DEF Snapshot, TypeOK, Told, Reached
  <2> QED
    BY <1>0, <1>1, <2>1, FollowedKept
<1>7. CASE LoadAndDelete(r) \/ CountDown(r) \/ Save(r)
  <2>1. /\ pc[r] \in {"unregister", "uncount", "save"}
        /\ pc'[r] \in {"uncount", "save", "done"}
        /\ \A q \in Reqs \ {r} : pc'[q] = pc[q]
        /\ \A q \in Reqs : Told(q)' = Told(q)
    BY <1>7 DEF LoadAndDelete, CountDown, Save, TypeOK, Told, snapshots
  <2> QED
    BY <1>0, <1>1, <2>1, FollowedKept
<1> QED
  BY <1>2, <1>3, <1>4, <1>5, <1>6, <1>7 DEF RequestStep

\* One line moves, from its place to the next.
LEMMA LineFollowedKept ==
    ASSUME TypeOK, Followed, LineUnchanged, NEW l \in Lines,
           \A k \in Lines \ {l} : line'[k] = line[k],
           \A q \in Reqs : Reached(q) \subseteq Reached(q)',
           line'[l].at # "idle",
           \A r \in Reqs : Traced(l, r)' =>
               /\ line'[l].trace = traceOf[r]
               /\ pc[r] \notin {"new", "register", "count"}
               /\ line'[l].at \notin {"single", "range"}
               /\ Apart /\ pc[r] # "panicked" =>
                    /\ pc[r] = "running" \/ line'[l].at = "written"
                    /\ line'[l].at = "append" => line'[l].target = r
                    /\ line'[l].at = "written" => l \in Reached(r)'
                    /\ pc[r] \in {"unregister", "uncount", "save", "done"} => l \in Told(r)
    PROVE  Followed'
<1>1. pc' = pc /\ traceOf' = traceOf /\ \A q \in Reqs : Told(q)' = Told(q)
  BY DEF LineUnchanged, Told, snapshots
<1>2. Apart' = Apart
  BY <1>1 DEF Apart, TracesUnique, TracesFit
<1>3. ASSUME NEW k \in Lines, NEW r \in Reqs, Traced(k, r)'
      PROVE  /\ line'[k].trace = traceOf'[r]
             /\ pc'[r] \notin {"new", "register", "count"}
             /\ line'[k].at \notin {"single", "range"}
             /\ Apart' /\ pc'[r] # "panicked" => Follows(k, r)'
  <2>1. CASE k = l
    BY <1>1, <1>2, <1>3, <2>1 DEF Follows
  <2>2. CASE k # l
    <3>1. line'[k] = line[k] /\ Traced(k, r)
      BY <1>3, <2>2 DEF Traced
    <3>2. Follows(k, r) => Follows(k, r)'
      BY <1>1, <3>1 DEF Follows
    <3> QED
      BY <1>1, <1>2, <3>1, <3>2 DEF Followed
  <2> QED
    BY <2>1, <2>2
<1>4. \A k \in Lines : line'[k].at = "idle" => line'[k].from = NoReq
  BY DEF Followed
<1> QED
  BY <1>3, <1>4 DEF Followed

\* A traced line on its way: its handler waits for it and is counted.
LEMMA TracedOnItsWay ==
    ASSUME TypeOK, CountCoversRunning, Entered, Followed, NEW l \in Lines, NEW r \in Reqs,
           Traced(l, r), line[l].at # "written", Apart, pc[r] # "panicked"
    PROVE  /\ pc[r] = "running" /\ line[l].trace = traceOf[r] /\ traceOf[r] \in Traces
           /\ active[line[l].trace] = r
           /\ HasActiveTraces
<1> DEFINE running == {q \in Reqs : traceOf[q] # NoTrace /\ pc[q] \in Registered \ {"count"}}
<1>1. pc[r] = "running" /\ line[l].trace = traceOf[r] /\ traceOf[r] # NoTrace
  BY DEF Followed, Follows, Traced
<1>2. r \in running /\ r \in Tracked /\ traceOf[r] \in Traces
  BY <1>1 DEF Registered, Tracked, TypeOK
<1>3. active[line[l].trace] = r
  BY <1>1, <1>2 DEF Entered
<1>4. activeCount >= Cardinality(running)
  BY DEF CountCoversRunning, Apart
<1>5. IsFiniteSet(running)
  BY ReqsAssumption, FS_Subset
<1> HIDE DEF running
<1>6. Cardinality(running) \in Nat /\ Cardinality(running) # 0
  BY <1>2, <1>5, FS_CardinalityType, FS_EmptySet
<1> QED
  BY <1>1, <1>2, <1>3, <1>4, <1>6 DEF HasActiveTraces, TypeOK

LEMMA LineFollowed ==
    ASSUME TypeOK, CountCoversRunning, Entered, LinesTraced, Followed,
           NEW l \in Lines, Emit(l) \/ LineStep(l)
    PROVE  Followed'
<1>0. line[l] \in LineRecord /\ DOMAIN line = Lines
  BY DEF TypeOK
<1>c. UNCHANGED collectors => \A q \in Reqs : Reached(q)' = Reached(q)
  BY DEF Reached, collectors
<1>1. CASE Emit(l)
  <2>1. /\ line[l].at = "idle" /\ line[l].from = NoReq /\ LineUnchanged /\ \A q \in Reqs : Reached(q)' = Reached(q)
        /\ line'[l].at = "gate"
        /\ \A k \in Lines \ {l} : line'[k] = line[k]
    BY <1>0, <1>c, <1>1 DEF Emit, Followed, LineRecord
  <2>2. ASSUME NEW r \in Reqs, Traced(l, r)'
        PROVE  /\ line'[l].trace = traceOf[r]
               /\ pc[r] = "running"
    <3>1. line'[l].from = r /\ line'[l].sync /\ line'[l].trace # NoTrace
      BY <2>2 DEF Traced
    <3>2. line' # [line EXCEPT ![l].at = "gate"]
      BY <1>0, <2>1, <3>1, ReqsAssumption DEF LineRecord
    <3>3. PICK q \in Reqs, bound \in Traces \cup {NoTrace}, field \in Traces \cup {NoTrace},
               sync \in BOOLEAN :
            /\ sync => pc[q] = "running"
            /\ {bound, field} \subseteq {traceOf[q], NoTrace}
            /\ line' = [line EXCEPT ![l] = [at |-> "gate", from |-> q,
                                            trace |-> FindTraceID(bound, field),
                                            sync |-> sync, target |-> NoReq]]
      BY <1>1, <3>2 DEF Emit
    <3>4. /\ line'[l].from = q /\ line'[l].sync = sync
          /\ line'[l].trace = FindTraceID(bound, field)
      BY <1>0, <3>3
    <3> QED
      BY <3>1, <3>3, <3>4 DEF FindTraceID
  <2> QED
    BY <2>1, <2>2, LineFollowedKept
<1>2. CASE Gate(l)
  <2>1. /\ line[l].at = "gate" /\ LineUnchanged /\ \A q \in Reqs : Reached(q)' = Reached(q)
        /\ line'[l].from = line[l].from /\ line'[l].sync = line[l].sync
        /\ line'[l].trace = line[l].trace
        /\ line'[l].at \in {"written", "single", "lookup"}
        /\ line'[l].at = "single" => line[l].trace = NoTrace
        /\ HasActiveTraces => line'[l].at # "written"
        /\ \A k \in Lines \ {l} : line'[k] = line[k]
    BY <1>0, <1>c, <1>2 DEF Gate, Move, LineRecord
  <2>2. ASSUME NEW r \in Reqs, Traced(l, r)' PROVE Traced(l, r) /\ line'[l].at # "single"
    BY <2>1, <2>2 DEF Traced
  <2>3. ASSUME NEW r \in Reqs, Traced(l, r)', Apart, pc[r] # "panicked"
        PROVE  pc[r] = "running" /\ line'[l].at = "lookup"
    BY <2>1, <2>2, <2>3, TracedOnItsWay
  <2>4. ASSUME NEW r \in Reqs, Traced(l, r)'
        PROVE  /\ line'[l].trace = traceOf[r]
               /\ pc[r] \notin {"new", "register", "count"}
    BY <2>1, <2>2, <2>4 DEF Followed
  <2> QED
    BY <2>1, <2>2, <2>3, <2>4, LineFollowedKept
<1>3. CASE Lookup(l)
  <2>1. /\ line[l].at = "lookup" /\ LineUnchanged /\ \A q \in Reqs : Reached(q)' = Reached(q)
        /\ line'[l].from = line[l].from /\ line'[l].sync = line[l].sync
        /\ line'[l].trace = line[l].trace
        /\ \/ line'[l].at = "append" /\ line'[l].target = active[line[l].trace]
           \/ line'[l].at = "written" /\ active[line[l].trace] = NoReq
        /\ \A k \in Lines \ {l} : line'[k] = line[k]
    BY <1>0, <1>c, <1>3 DEF Lookup, SendTo, Move, LineRecord
  <2>2. ASSUME NEW r \in Reqs, Traced(l, r)' PROVE Traced(l, r)
    BY <2>1, <2>2 DEF Traced
  <2>3. ASSUME NEW r \in Reqs, Traced(l, r)', Apart, pc[r] # "panicked"
        PROVE  pc[r] = "running" /\ line'[l].at = "append" /\ line'[l].target = r
    <3>1. pc[r] = "running" /\ active[line[l].trace] = r
      BY <2>1, <2>2, <2>3, TracedOnItsWay
    <3> QED
      BY <2>1, <3>1, ReqsAssumption
  <2>4. ASSUME NEW r \in Reqs, Traced(l, r)'
        PROVE  /\ line'[l].trace = traceOf[r]
               /\ pc[r] \notin {"new", "register", "count"}
    BY <2>1, <2>2, <2>4 DEF Followed
  <2> QED
    BY <2>1, <2>2, <2>3, <2>4, LineFollowedKept
<1>4. CASE CheckSingle(l) \/ RangeFirst(l)
  <2>1. /\ line[l].at \in {"single", "range"} /\ LineUnchanged /\ \A q \in Reqs : Reached(q)' = Reached(q)
        /\ line'[l].trace = line[l].trace
        /\ line'[l].at # "idle"
        /\ \A k \in Lines \ {l} : line'[k] = line[k]
    BY <1>0, <1>c, <1>4 DEF CheckSingle, RangeFirst, SendTo, Move, LineRecord
  <2>2. \A r \in Reqs : ~Traced(l, r)'
    BY <2>1 DEF Traced, LinesTraced
  <2> QED
    BY <2>1, <2>2, LineFollowedKept
<1>5. CASE AppendLine(l)
  <2>1. /\ line[l].at = "append" /\ line[l].target \in Reqs /\ LineUnchanged
        /\ line'[l].from = line[l].from /\ line'[l].sync = line[l].sync
        /\ line'[l].trace = line[l].trace
        /\ line'[l].at = "written"
        /\ \A k \in Lines \ {l} : line'[k] = line[k]
    BY <1>0, <1>5 DEF AppendLine, Move, LineRecord, TypeOK
  <2>2. /\ \A q \in Reqs : q = line[l].target => l \in Reached(q)'
        /\ \A q \in Reqs : Reached(q) \subseteq Reached(q)'
    BY <1>5, <2>1, AppendReaches
  <2>3. ASSUME NEW r \in Reqs, Traced(l, r)' PROVE Traced(l, r)
    BY <2>1, <2>3 DEF Traced
  <2>4. ASSUME NEW r \in Reqs, Traced(l, r)', Apart, pc[r] # "panicked"
        PROVE  pc[r] = "running" /\ l \in Reached(r)'
    <3>1. line[l].target = r /\ pc[r] = "running"
      BY <2>1, <2>3, <2>4 DEF Followed, Follows
    <3> QED
      BY <2>2, <3>1
  <2>5. ASSUME NEW r \in Reqs, Traced(l, r)'
        PROVE  /\ line'[l].trace = traceOf[r]
               /\ pc[r] \notin {"new", "register", "count"}
    BY <2>1, <2>3, <2>5 DEF Followed
  <2> QED
    BY <2>1, <2>2, <2>4, <2>5, LineFollowedKept
<1> QED
  BY <1>1, <1>2, <1>3, <1>4, <1>5 DEF LineStep

-----------------------------------------------------------------------------
UInv == FreshUntraced /\ Covered /\ Entered /\ Followed

\* The second invariant, of what unique traces add to the first.
THEOREM UniqueInvariance == Spec => []UInv
<1>1. Init => UInv
  <2> SUFFICES ASSUME Init PROVE UInv
    OBVIOUS
  <2>1. FreshUntraced /\ Entered /\ Followed
    BY ReqsAssumption DEF Init, FreshUntraced, Entered, Tracked, Followed, Traced, Registered
  <2>2. Tracked = {} /\ ActiveSet = {}
    BY DEF Init, Tracked, ActiveSet
  <2>3. Cardinality(Tracked) = 0 /\ Cardinality(ActiveSet) = 0
    BY <2>2, FS_EmptySet, Zenon
  <2> QED
    BY <2>1, <2>3 DEF UInv, Covered
<1>2. IInv /\ UInv /\ [Next]_vars => UInv'
  <2> SUFFICES ASSUME IInv, UInv, [Next]_vars PROVE UInv'
    OBVIOUS
  <2>0. /\ TypeOK /\ Owned /\ LinesTraced /\ CountMatchesRegistry
        /\ FreshUntraced /\ Covered /\ Entered /\ Followed /\ CountCoversRunning
    BY CoveredIsEnough DEF IInv, UInv
  <2>1. ASSUME NEW r \in Reqs, RequestStep(r) PROVE UInv'
    BY <2>0, <2>1, StepTraces, StepCovered, StepEntered, StepFollowed DEF UInv
  <2>2. ASSUME NEW l \in Lines, Emit(l) \/ LineStep(l) PROVE UInv'
    <3>1. UNCHANGED <<active, pc, traceOf>>
      BY <2>2 DEF Emit, LineStep, Gate, Lookup, CheckSingle, RangeFirst, AppendLine,
                  LineUnchanged, registry
    <3>2. FreshUntraced' /\ Covered' /\ Entered'
      BY <2>0, <3>1 DEF FreshUntraced, Covered, Entered, Apart, TracesUnique, TracesFit,
                        Tracked, ActiveSet
    <3> QED
      BY <2>0, <2>2, <3>2, LineFollowed DEF UInv
  <2>3. CASE RegisterDataSource \/ UNCHANGED vars
    <3>1. UNCHANGED <<active, pc, traceOf, collectors, snapshots, line>>
      BY <2>3 DEF RegisterDataSource, vars, registry
    <3>2. FreshUntraced' /\ Covered' /\ Entered'
      BY <2>0, <3>1 DEF FreshUntraced, Covered, Entered, Apart, TracesUnique, TracesFit,
                        Tracked, ActiveSet
    <3>3. Followed'
      BY <2>0, <3>1 DEF Followed, Follows, Reached, Told, collectors, snapshots, Traced, Apart,
                        TracesUnique, TracesFit
    <3> QED
      BY <3>2, <3>3 DEF UInv
  <2> QED
    BY <2>1, <2>2, <2>3 DEF Next
<1> QED
  BY Invariance, <1>1, <1>2, PTL DEF Spec

\* activeCount never misses a request that runs and never falls below zero, if no
\* two requests share a trace id: whatever SetTrace cuts and whoever panics.
THEOREM CountCovers == Spec => []CountCoversRunning
<1>1. IInv /\ UInv => CountCoversRunning
  BY CoveredIsEnough DEF IInv, UInv
<1> QED
  BY Invariance, UniqueInvariance, <1>1, PTL

\* What a handler logs with its trace id is in the metadata stored for it, or
\* counted there as dropped, if no two requests share a trace id and none is cut.
THEOREM LinesNotLost == Spec => []UniqueTracedLinesAccounted
<1>1. IInv /\ UInv => UniqueTracedLinesAccounted
  <2> SUFFICES ASSUME IInv, UInv, TracesUnique, TracesFit, NEW r \in Reqs,
                      pc[r] \in {"unregister", "uncount", "save", "done"}, NEW l \in Lines,
                      Traced(l, r)
               PROVE  l \in Told(r)
    BY DEF UniqueTracedLinesAccounted, TracedLinesAccounted, Traced, Told
  <2> QED
    BY DEF UInv, Followed, Follows, Apart
<1> QED
  BY Invariance, UniqueInvariance, <1>1, PTL
=============================================================================
