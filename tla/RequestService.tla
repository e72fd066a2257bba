--------------------------- MODULE RequestService ---------------------------
(***************************************************************************)
(* What a client sees of one captured request: RequestLifecycle composed   *)
(* with the storage its metadata goes to and with everybody else who uses  *)
(* that storage.  The storage is a RecencyLog, which InMemoryStorage       *)
(* implements.  Other captured requests store their metadata, cleanups run *)
(* and the clock goes on, before, during and after the request; the client *)
(* asks the metadata route of its adapter for the id it was sent.          *)
(***************************************************************************)
EXTENDS RequestLifecycle, Integers, Sequences

CONSTANTS
    Sizes,                      \* of a request's metadata
    MaxEntries, MaxBytes,       \* limits of the storage
    Retention,                  \* RequestRetentionTime
    MaxOthers, MaxTime          \* bounds on the other requests and on the clock

ASSUME StorageAssumption ==
    /\ Sizes \subseteq Nat \ {0}
    /\ {MaxEntries, MaxBytes, Retention} \subseteq Nat \ {0}
    /\ {MaxOthers, MaxTime} \subseteq Nat
    /\ None \notin Nat            \* neither an id nor a time

VARIABLES
    log, now,       \* the storage and its clock
    others,         \* other requests stored so far; the n-th has the id n
    size,           \* of the metadata of this request
    storedAt,       \* when it was stored, or None (history)
    newer,          \* how many were stored after it, of how many bytes (history)
    uri             \* whose path its metadata shows

storage == <<log, now>>
history == <<storedAt, newer>>
serviceVars == <<vars, storage, others, size, history, uri>>

Me == 0
Storage == INSTANCE RecencyLog WITH Ids <- 0..MaxOthers

ServiceInit ==
    /\ Init
    /\ Storage!Init
    /\ others = 0
    /\ size \in Sizes
    /\ storedAt = None
    /\ newer = [count |-> 0, bytes |-> 0]
    /\ uri = "own"

-----------------------------------------------------------------------------
(* The request *)

\* What happens before the metadata is stored and after touches no storage.
Handle ==
    /\ Arrive \/ (\E code \in Codes : SetStatus(code)) \/ Write \/ Panic
    /\ UNCHANGED <<storage, others, size, history, uri>>

Respond ==
    /\ Return
    /\ UNCHANGED <<storage, others, size, history, uri>>

Finish ==
    /\ Complete \/ Unwind
    /\ UNCHANGED <<storage, others, size, history, uri>>

\* SaveMetadata with the storage's Store in it, which may fail.
SaveMetadata ==
    /\ Save
    /\ IF lost' THEN UNCHANGED <<log, now, storedAt>>
       ELSE Storage!Put(Me, size) /\ storedAt' = now
    /\ UNCHANGED <<others, size, newer, uri>>

-----------------------------------------------------------------------------
(* Everybody else *)

\* Another client's request goes through the middleware to the storage.  Only
\* those that ask to be captured, for paths other than the metadata route, are
\* taken for a reason to push something out.
OtherRequest(skipped, asked, bytes) ==
    /\ others < MaxOthers
    /\ ShouldCapture(TRUE, skipped, asked)
    /\ others' = others + 1
    /\ Storage!Put(others + 1, bytes)
    /\ newer' = IF storedAt # None /\ ~skipped /\ asked
                THEN [count |-> newer.count + 1, bytes |-> newer.bytes + bytes]
                ELSE newer
    /\ UNCHANGED <<vars, size, storedAt, uri>>

\* Clockwork.Cleanup: the cutoff was the retention time ago when the call began.
Cleanup ==
    /\ \E cutoff \in 0..(now - Retention) : Storage!Expire(cutoff)
    /\ UNCHANGED <<vars, others, size, history, uri>>

TimePasses == Storage!Tick /\ UNCHANGED <<vars, others, size, history, uri>>

\* fiber keeps a request's path in a buffer of its pooled context and hands out
\* strings that share it.  The collector keeps c.Path() as the uri, the in-memory
\* storage keeps the metadata itself: the next request to be given the context
\* writes its own path there.
ContextReused ==
    /\ adapter = "fiber" /\ captured
    /\ at = "over"
    /\ uri' = "other"
    /\ UNCHANGED <<vars, storage, others, size, history>>

-----------------------------------------------------------------------------
(* GET /__clockwork/:id *)

\* The id header of a request for the route goes before the id in its path.
ResolveMetadataID(header, path) == IF header # None THEN header ELSE path

Holds(id) == \E i \in DOMAIN log : log[i].id = id

Answer(header, path) ==
    LET id == ResolveMetadataID(header, path)
    IN  IF id = None THEN 400 ELSE IF Holds(id) THEN 200 ELSE 404

-----------------------------------------------------------------------------
ServiceNext ==
    \/ Handle \/ Respond \/ Finish \/ SaveMetadata
    \/ \E skipped, asked \in BOOLEAN, bytes \in Sizes :
        OtherRequest(skipped, asked, bytes)
    \/ Cleanup \/ TimePasses \/ ContextReused

\* Handlers and the storage return; nothing else has to happen.
ServiceFairness ==
    /\ WF_serviceVars(Respond \/ (Panic /\ Handle))
    /\ WF_serviceVars(Finish \/ SaveMetadata)

ServiceSpec == ServiceInit /\ [][ServiceNext]_serviceVars /\ ServiceFairness

-----------------------------------------------------------------------------
(* Properties *)

\* The reasons a storage may have to drop this request's metadata: so many or so
\* large requests were stored after it that the limits leave no room for it
\* beside them, or its retention time is over.
Displaced ==
    /\ storedAt # None
    /\ \/ newer.count >= MaxEntries
       \/ size + newer.bytes > MaxBytes
       \/ now - storedAt > Retention

\* Once stored, the metadata is found under its id, with the id in the path or in
\* the header, for as long as there is no reason to drop it.  What was stored
\* before it goes first, a cleanup with a stale cutoff spares it, and asking the
\* metadata route, however often, pushes nothing out.
StaysRetrievable ==
    storedAt # None /\ ~Displaced =>
        Answer(None, Me) = 200 /\ Answer(Me, None) = 200

\* A client that has received an id can in the end fetch its metadata, unless
\* the handler panicked, the storage refused it, or it was displaced already.
IdResolves == GotId ~> Answer(None, Me) = 200 \/ lost \/ Displaced

\* README.md, "GET /__clockwork/:id - Returns captured metadata for the given
\* request ID": the metadata shows the path of that request.
UriIsOwn == captured /\ Answer(None, Me) = 200 => uri = "own"
=============================================================================
