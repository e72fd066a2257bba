---------------------------- MODULE RedisStorage ----------------------------
(***************************************************************************)
(* storage/redis: metadata under one key per id, each with a TTL, and a     *)
(* recency index in a list that has a TTL of its own.  Store sends SET,     *)
(* LPUSH, LTRIM and EXPIRE in a pipeline, which is no transaction: the      *)
(* commands of other clients, and the expiry of keys, come in between, and  *)
(* when the connection breaks only a prefix has been executed.  The client  *)
(* then gives up or, as go-redis does by default, sends the pipeline again. *)
(*                                                                         *)
(* A definition X_Bug is X with a plausible bug, kept to show that the     *)
(* properties notice it; nothing else refers to it.                        *)
(***************************************************************************)
EXTENDS Integers, Sequences, FiniteSetsExt

CONSTANTS
    Procs,          \* goroutines that store metadata, of any process
    Ids,
    MaxEntries,     \* 0: no limit
    TTL,            \* in ticks of the clock, a millisecond or longer each
    Second,         \* the ticks of one second
    MaxTime,        \* bound on the clock
    MaxIndex,       \* bound on the index: LPUSH happens below it only
    Never           \* the expiry of a key without a TTL

ASSUME LimitAssumption == MaxEntries \in Nat /\ MaxIndex \in Nat
ASSUME TimeAssumption ==
    TTL \in Nat \ {0} /\ Second \in Nat \ {0} /\ MaxTime \in Nat /\ Never \notin Nat

VARIABLES
    expiry,         \* id -> when its metadata expires; 0 when there is none
    index,          \* the list; <<>> when there is none
    indexExpiry,    \* when the index expires, or Never
    call,           \* goroutine -> the command of its pipeline that is next
    now,
    \* History, for the properties:
    done,           \* ids whose last Store has returned without an error
    before,         \* <<a, b>>: Store of a had returned when that of b began
    torn,           \* ids whose place in the index expired before their Store ended
    untrimmed,      \* a pipeline broke before its LTRIM; none has come since
    unexpired       \* a pipeline broke before its EXPIRE; none has come since

server == <<expiry, index, indexExpiry>>
history == <<done, before, torn, untrimmed, unexpired>>
vars == <<server, call, now, history>>

Idle == [at |-> "idle"]
Call == {Idle} \cup [at : {"set", "push", "trim", "expire", "reply"}, id : Ids]

Init ==
    /\ expiry = [id \in Ids |-> 0]
    /\ index = <<>>
    /\ indexExpiry = Never
    /\ call = [p \in Procs |-> Idle]
    /\ now = 0
    /\ done = {} /\ before = {} /\ torn = {}
    /\ untrimmed = FALSE /\ unexpired = FALSE

-----------------------------------------------------------------------------
(* Store *)

Go(p, from, to) == call[p].at = from /\ call' = [call EXCEPT ![p].at = to]

\* The checks and json.Marshal.  A request is stored once by CompleteRequest: an
\* id may be stored again, but not while its Store is going on.
Begin(p, id) ==
    /\ call[p] = Idle
    /\ \A q \in Procs : call[q] # Idle => call[q].id # id
    /\ call' = [call EXCEPT ![p] = [at |-> "set", id |-> id]]
    /\ done' = done \ {id}
    /\ before' = {b \in before : id \notin {b[1], b[2]}} \cup ((done \ {id}) \X {id})
    /\ torn' = torn \ {id}
    /\ UNCHANGED <<server, now, untrimmed, unexpired>>

Set(p) ==
    /\ Go(p, "set", "push")
    /\ expiry' = [expiry EXCEPT ![call[p].id] = now + TTL]
    /\ UNCHANGED <<index, indexExpiry, now, history>>

AfterPush_NeverTrims == "expire"

\* LTRIM is sent only if there is a limit.
AfterPush == IF MaxEntries > 0 THEN "trim" ELSE "expire"

LPush_RPush(p) ==
    /\ Len(index) < MaxIndex
    /\ Go(p, "push", AfterPush)
    /\ index' = Append(index, call[p].id)
    /\ UNCHANGED <<expiry, indexExpiry, now, history>>

LPush(p) ==
    /\ Len(index) < MaxIndex
    /\ Go(p, "push", AfterPush)
    /\ index' = <<call[p].id>> \o index
    /\ UNCHANGED <<expiry, indexExpiry, now, history>>

LTrim_OffByOne(p) ==
    /\ Go(p, "trim", "expire")
    /\ index' = SubSeq(index, 1, Min({Len(index), MaxEntries - 1}))
    /\ untrimmed' = FALSE
    /\ UNCHANGED <<expiry, indexExpiry, now, done, before, torn, unexpired>>

LTrim(p) ==
    /\ Go(p, "trim", "expire")
    /\ index' = SubSeq(index, 1, Min({Len(index), MaxEntries}))
    /\ untrimmed' = FALSE
    /\ UNCHANGED <<expiry, indexExpiry, now, done, before, torn, unexpired>>

\* SET takes a TTL that is not whole seconds in milliseconds (PX); EXPIRE knows
\* seconds only, and go-redis cuts the rest off, or sends 1 for less than one.
IndexTTL == IF TTL < Second THEN Second ELSE TTL - (TTL % Second)

Expire_OnlyIfNew(p) ==
    /\ Go(p, "expire", "reply")
    /\ indexExpiry' = IF index # <<>> /\ indexExpiry = Never THEN now + IndexTTL ELSE indexExpiry
    /\ unexpired' = FALSE
    /\ UNCHANGED <<expiry, index, now, done, before, torn, untrimmed>>

Expire_Skipped(p) ==
    /\ Go(p, "expire", "reply")
    /\ UNCHANGED <<server, now, history>>

\* EXPIRE on a key that is gone does nothing.
Expire(p) ==
    /\ Go(p, "expire", "reply")
    /\ indexExpiry' = IF index # <<>> THEN now + IndexTTL ELSE indexExpiry
    /\ unexpired' = FALSE
    /\ UNCHANGED <<expiry, index, now, done, before, torn, untrimmed>>

EndStore(p) ==
    /\ call[p].at = "reply"
    /\ call' = [call EXCEPT ![p] = Idle]
    /\ done' = done \cup {call[p].id}
    /\ UNCHANGED <<server, now, before, torn, untrimmed, unexpired>>

\* The connection breaks: Store returns the error, or the client starts over.
Break(p) ==
    /\ call[p] # Idle
    /\ call' \in {[call EXCEPT ![p] = Idle], [call EXCEPT ![p].at = "set"]}
    /\ untrimmed' = (untrimmed \/ call[p].at = "trim")
    /\ unexpired' = (unexpired \/ call[p].at \in {"trim", "expire"})
    /\ UNCHANGED <<server, now, done, before, torn>>

-----------------------------------------------------------------------------
(* Redis expires keys *)

IndexExpires == indexExpiry # Never /\ indexExpiry <= now + 1

Tick ==
    /\ now < MaxTime
    /\ now' = now + 1
    /\ expiry' = [id \in Ids |-> IF expiry[id] <= now + 1 THEN 0 ELSE expiry[id]]
    /\ \/ ~IndexExpires /\ UNCHANGED <<index, indexExpiry, torn>>
       \/ /\ IndexExpires
          /\ index' = <<>>
          /\ indexExpiry' = Never
          /\ torn' = torn \cup {call[p].id : p \in {q \in Procs : call[q].at \in {"trim", "expire"}}}
    /\ UNCHANGED <<call, done, before, untrimmed, unexpired>>

-----------------------------------------------------------------------------
Next ==
    \/ \E p \in Procs :
        \/ \E id \in Ids : Begin(p, id)
        \/ Set(p) \/ LPush(p) \/ LTrim(p) \/ Expire(p) \/ EndStore(p) \/ Break(p)
    \/ Tick

Spec == Init /\ [][Next]_vars

-----------------------------------------------------------------------------
(* Properties *)

Listed == {index[i] : i \in DOMAIN index}
Precedes(b, a) == \A i \in DOMAIN index : index[i] = a => \E j \in 1..(i - 1) : index[j] = b
At(commands) == \E p \in Procs : call[p].at \in commands

\* Every variable has its type; only a list that exists can expire.
TypeOK ==
    /\ expiry \in [Ids -> Nat]
    /\ index \in Seq(Ids)
    /\ indexExpiry \in Nat \cup {Never}
    /\ call \in [Procs -> Call]
    /\ now \in 0..MaxTime
    /\ done \subseteq Ids /\ before \subseteq Ids \X Ids /\ torn \subseteq Ids
    /\ untrimmed \in BOOLEAN /\ unexpired \in BOOLEAN
    /\ index = <<>> => indexExpiry = Never

\* An index over its limit is only seen while some pipeline is between its LPUSH
\* and its LTRIM, or broke there and no other Store has trimmed it since.
ExcessIsPassing ==
    MaxEntries > 0 /\ Len(index) > MaxEntries => At({"trim"}) \/ untrimmed

\* Likewise an index that would stay for ever.
ImmortalIsPassing ==
    index # <<>> /\ indexExpiry = Never => At({"trim", "expire"}) \/ unexpired

\* How long metadata may outlive its index: what EXPIRE cuts off the TTL, less
\* than a second, and nothing of a TTL of whole seconds.
Cut == IF TTL > IndexTTL THEN TTL - IndexTTL ELSE 0

\* But for that, the index does not expire before the metadata it lists: Stores
\* that interleave extend its life in the order in which they set their own.
IndexOutlivesMetadata ==
    \A id \in done : indexExpiry # Never => expiry[id] <= indexExpiry + Cut

\* So metadata that has been stored, and will not expire within what was cut, is
\* listed, unless the index is full -- or had expired between the LPUSH and the
\* EXPIRE of the Store.
StoredIsListed ==
    \A id \in done \ torn :
        expiry[id] > now + Cut /\ id \notin Listed => MaxEntries > 0 /\ Len(index) >= MaxEntries

\* "List returns most recent metadata first" (redis.go:113): an id whose Store
\* began after that of another had returned is listed before it, and is not
\* trimmed away before it, even if a pipeline that was sent again has listed
\* ids twice.
NewestFirst ==
    \A a, b \in Ids : <<a, b>> \in before /\ b \in done => Precedes(b, a)
=============================================================================
