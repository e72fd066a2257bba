-------------------------- MODULE RequestLifecycle --------------------------
(***************************************************************************)
(* middleware/{http,chi,gin,echo,fiber}: the life of one request in each of *)
(* the five adapters -- the decision to capture it, the status and the id   *)
(* header on their way to the client, the status and the metadata on their  *)
(* way to the storage.  RequestService composes it with the storage and     *)
(* with what GET /__clockwork/:id then answers.                             *)
(*                                                                         *)
(* The adapters differ in when the response leaves: fiber sends it when all *)
(* middleware has returned, the others as soon as the handler writes.  They *)
(* differ in who handles a handler's error: echo and fiber, afterwards.     *)
(* Requests do not meet here; ActiveTraces models where they do.            *)
(*                                                                         *)
(* A definition X_Bug is X with a plausible bug, kept to show that the     *)
(* properties notice it; nothing else refers to it.                        *)
(***************************************************************************)

CONSTANTS
    Codes,          \* HTTP statuses
    OK,             \* 200, what is sent unless something else is set
    None

ASSUME CodesAssumption == OK \in Codes /\ None \notin Codes

VARIABLES
    adapter,
    at,             \* where the request is
    captured,       \* a collector was made for it
    status,         \* the status the adapter's response writer reports
    out,            \* what the client has of the response: status, and id or not
    failure,        \* the status the error of the handler stands for, or None
    recorded,       \* the status in the collector, or None
    metadata,       \* the status in the stored metadata, or None
    lost,           \* completion was skipped, or Store failed
    rewritten       \* the handler set a status after one had left (history)

response == <<status, out, rewritten>>
record == <<recorded, metadata, lost>>
vars == <<adapter, at, captured, response, failure, record>>

Adapters == {"http", "chi", "gin", "echo", "fiber"}
Buffers == {"fiber"}                    \* nothing leaves before the end
SendsAtOnce == {"http", "chi", "echo"}  \* setting the status sends it
HandlesErrors == {"echo", "fiber"}      \* handlers return an error

Init ==
    /\ adapter \in Adapters
    /\ at = "new"
    /\ captured = FALSE
    /\ status = OK /\ out = None /\ rewritten = FALSE
    /\ failure = None
    /\ recorded = None /\ metadata = None /\ lost = FALSE

-----------------------------------------------------------------------------
(* Capture and handler *)

ShouldCapture_NoSkip(enabled, skipped, asked) == enabled /\ asked

\* NewRequestCapture, or its parts: Clockwork is enabled, the path is not one of
\* those skipped, and the request asks for it.
ShouldCapture(enabled, skipped, asked) == enabled /\ ~skipped /\ asked

\* The id header is set before the handler runs.
Arrive ==
    /\ at = "new"
    /\ at' = "handler"
    /\ \E enabled, skipped, asked \in BOOLEAN :
        captured' = ShouldCapture(enabled, skipped, asked)
    /\ UNCHANGED <<adapter, response, failure, record>>

Leaves(code) == out' = [status |-> code, id |-> captured]

\* The handler sets the status.  Once one has left gin and echo ignore the call;
\* the responseWriter of http and chi takes it for the status all the same.
SetStatus(code) ==
    /\ at = "handler"
    /\ \/ /\ out = None
          /\ status' = code
          /\ IF adapter \in SendsAtOnce THEN Leaves(code) ELSE UNCHANGED out
          /\ UNCHANGED rewritten
       \/ /\ out # None
          /\ adapter \in {"http", "chi"} /\ captured
          /\ status' = code
          /\ rewritten' = TRUE
          /\ UNCHANGED out
    /\ UNCHANGED <<adapter, at, captured, failure, record>>

\* The handler writes the first part of the body.
Write ==
    /\ at = "handler"
    /\ adapter \notin Buffers
    /\ out = None
    /\ Leaves(status)
    /\ UNCHANGED <<adapter, at, captured, status, rewritten, failure, record>>

Return ==
    /\ at = "handler"
    /\ at' = IF captured THEN "complete" ELSE "unwind"
    /\ failure' \in {None} \cup (IF adapter \in HandlesErrors THEN Codes \ {OK} ELSE {})
    /\ UNCHANGED <<adapter, captured, response, record>>

\* CompleteRequest is not deferred.  A recovery outside the adapter may answer,
\* with the id header if it has been set.
Panic ==
    /\ at = "handler"
    /\ at' = "over"
    /\ lost' = TRUE
    /\ \/ UNCHANGED out
       \/ out = None /\ \E code \in Codes \ {OK} : Leaves(code)
    /\ UNCHANGED <<adapter, captured, status, rewritten, failure, recorded, metadata>>

-----------------------------------------------------------------------------
(* Completion *)

Complete_NoRecord ==
    /\ at = "complete"
    /\ at' = "unwind"
    /\ UNCHANGED <<adapter, captured, response, failure, record>>

Complete_AssumesOK ==
    /\ at = "complete"
    /\ at' = "save"
    /\ recorded' = OK
    /\ UNCHANGED <<adapter, captured, response, failure, metadata, lost>>

\* SetResponseData with the status known now, before any error is handled.
Complete ==
    /\ at = "complete"
    /\ at' = "save"
    /\ recorded' = status
    /\ UNCHANGED <<adapter, captured, response, failure, metadata, lost>>

\* SaveMetadata; its error goes no further than a warning of gin.
Save ==
    /\ at = "save"
    /\ at' = "unwind"
    /\ \/ metadata' = recorded /\ UNCHANGED lost
       \/ lost' = TRUE /\ UNCHANGED metadata
    /\ UNCHANGED <<adapter, captured, response, failure, recorded>>

\* Outside the adapter: the framework handles an error, if it still can, and
\* the rest of the response leaves.
Unwind ==
    /\ at = "unwind"
    /\ at' = "over"
    /\ IF out = None THEN Leaves(IF failure = None THEN status ELSE failure) ELSE UNCHANGED out
    /\ UNCHANGED <<adapter, captured, status, rewritten, failure, record>>

-----------------------------------------------------------------------------
Next ==
    \/ Arrive \/ (\E code \in Codes : SetStatus(code)) \/ Write
    \/ Return \/ Panic \/ Complete \/ Save \/ Unwind

Spec == Init /\ [][Next]_vars

-----------------------------------------------------------------------------
(* Properties *)

\* Every variable has its type; an uncaptured request leaves no record.
TypeOK ==
    /\ adapter \in Adapters
    /\ at \in {"new", "handler", "complete", "save", "unwind", "over"}
    /\ captured \in BOOLEAN
    /\ status \in Codes
    /\ out \in {None} \cup [status : Codes, id : BOOLEAN]
    /\ failure \in {None} \cup Codes
    /\ recorded \in {None} \cup Codes /\ metadata \in {None} \cup Codes
    /\ lost \in BOOLEAN /\ rewritten \in BOOLEAN
    /\ ~captured => recorded = None /\ metadata = None

\* There is metadata for GET /__clockwork/:id to answer with.
Found == metadata # None

\* The stored metadata shows the status the client got, with two exceptions:
\* echo and fiber handle a handler's error after the status was recorded, and a
\* second WriteHeader changes what http and chi record but not what was sent.
StatusAgrees ==
    Found /\ out # None =>
        \/ metadata = out.status
        \/ adapter \in HandlesErrors /\ failure # None
        \/ adapter \in {"http", "chi"} /\ rewritten

\* A client has received an id.
GotId == out # None /\ out.id
=============================================================================
