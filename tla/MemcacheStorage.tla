--------------------------- MODULE MemcacheStorage ---------------------------
(***************************************************************************)
(* storage/memcache: metadata under one memcached key per id, and a recency *)
(* index under another key that every Store reads, changes and writes back. *)
(* A mutex orders the goroutines of one Storage value; nothing orders two   *)
(* Storage values, those of two server processes, that share a memcached.   *)
(*                                                                         *)
(* Every call of the client is a step.  It can fail, having taken effect or *)
(* not, and memcached may forget any key at any time (TTL, memory).         *)
(*                                                                         *)
(* A definition X_Bug is X with a plausible bug, kept to show that the     *)
(* properties notice it; nothing else refers to it.                        *)
(***************************************************************************)
EXTENDS Integers, Sequences, SequencesExt

CONSTANTS
    Procs,          \* goroutines that store metadata
    Storages,       \* Storage values
    StorageOf,      \* the Storage each goroutine uses
    Ids,
    MaxEntries,     \* 0: no limit
    Nobody

ASSUME StorageAssumption == StorageOf \in [Procs -> Storages]
ASSUME LimitAssumption == MaxEntries \in Nat
ASSUME NobodyAssumption == Nobody \notin Procs

VARIABLES
    items,          \* the ids whose metadata memcached holds
    index,          \* the index it holds; <<>> when it holds none
    mu,             \* Storage -> the goroutine that holds its mutex, or Nobody
    call,           \* what each goroutine is doing
    \* History, for the properties:
    done,           \* ids whose last Store has returned without an error
    before,         \* <<a, b>>: Store of a had returned when that of b began
    begun,          \* ids stored at least once
    again,          \* ids stored more than once
    used,           \* Storages that have been used
    faulty          \* some call has failed or memcached has forgotten a key

Listed == {index[i] : i \in DOMAIN index}

server == <<items, index>>
history == <<done, before, begun, again, used, faulty>>
vars == <<server, mu, call, history>>

Idle == [at |-> "idle"]

Call ==
    {Idle}
    \cup [at : {"set", "lock"}, id : Ids]
    \cup [at : {"save"}, id : Ids, ids : Seq(Ids)]
    \cup [at : {"delete"}, id : Ids, evicted : Seq(Ids)]

Init ==
    /\ items = {}
    /\ index = <<>>
    /\ mu = [s \in Storages |-> Nobody]
    /\ call = [p \in Procs |-> Idle]
    /\ done = {} /\ before = {} /\ begun = {} /\ again = {} /\ used = {}
    /\ faulty = FALSE

-----------------------------------------------------------------------------
(* prependUnique and the cut at maxEntries *)

\* What is left of ids without id, in the same order: the n-th of the other
\* positions is the one that n of them reach.
Others(ids, id) == {i \in DOMAIN ids : ids[i] # id}
Rank(positions, i) == Cardinality({j \in positions : j <= i})
Without(ids, id) ==
    [n \in 1..Cardinality(Others(ids, id)) |->
        ids[CHOOSE i \in Others(ids, id) : Rank(Others(ids, id), i) = n]]

PrependUnique_Twice(ids, id) == <<id>> \o ids

PrependUnique_Back(ids, id) == Append(Without(ids, id), id)

PrependUnique(ids, id) == <<id>> \o Without(ids, id)

TooMany(ids) == MaxEntries > 0 /\ Len(ids) > MaxEntries

Kept(ids) == IF TooMany(ids) THEN SubSeq(ids, 1, MaxEntries) ELSE ids

Evicted_LastKept(ids) == IF TooMany(ids) THEN SubSeq(ids, MaxEntries, Len(ids)) ELSE <<>>

Evicted_Forgotten(ids) == <<>>

Evicted(ids) == IF TooMany(ids) THEN SubSeq(ids, MaxEntries + 1, Len(ids)) ELSE <<>>

-----------------------------------------------------------------------------
(* Store *)

\* The checks and json.Marshal; nothing is sent yet.
Begin(p, id) ==
    /\ call[p] = Idle
    /\ call' = [call EXCEPT ![p] = [at |-> "set", id |-> id]]
    /\ used' = used \cup {StorageOf[p]}
    /\ again' = IF id \in begun THEN again \cup {id} ELSE again
    /\ begun' = begun \cup {id}
    /\ done' = done \ {id}
    /\ before' = {b \in before : id \notin {b[1], b[2]}} \cup ((done \ {id}) \X {id})
    /\ UNCHANGED <<server, mu, faulty>>

\* The metadata is set before the mutex is taken.
SetItem(p) ==
    /\ call[p].at = "set"
    /\ items' = items \cup {call[p].id}
    /\ call' = [call EXCEPT ![p] = [at |-> "lock", id |-> call[p].id]]
    /\ UNCHANGED <<index, mu, history>>

LoadIndex_NoMutex(p) ==
    /\ call[p].at = "lock"
    /\ mu' = [mu EXCEPT ![StorageOf[p]] = p]
    /\ call' = [call EXCEPT ![p] = [at |-> "save", id |-> call[p].id, ids |-> index]]
    /\ UNCHANGED <<server, history>>

\* Takes the mutex and reads the index.
LoadIndex(p) ==
    /\ call[p].at = "lock"
    /\ mu[StorageOf[p]] = Nobody
    /\ mu' = [mu EXCEPT ![StorageOf[p]] = p]
    /\ call' = [call EXCEPT ![p] = [at |-> "save", id |-> call[p].id, ids |-> index]]
    /\ UNCHANGED <<server, history>>

SaveIndex(p) ==
    /\ call[p].at = "save"
    /\ LET ids == PrependUnique(call[p].ids, call[p].id)
       IN  /\ index' = Kept(ids)
           /\ call' = [call EXCEPT ![p] = [at |-> "delete", id |-> call[p].id,
                                           evicted |-> Evicted(ids)]]
    /\ UNCHANGED <<items, mu, history>>

\* Whether a Delete fails makes no difference to Store.
DeleteEvicted(p) ==
    /\ call[p].at = "delete"
    /\ call[p].evicted # <<>>
    /\ call' = [call EXCEPT ![p].evicted = Tail(@)]
    /\ \/ items' = items \ {Head(call[p].evicted)} /\ UNCHANGED faulty
       \/ UNCHANGED items /\ faulty' = TRUE
    /\ UNCHANGED <<index, mu, done, before, begun, again, used>>

EndStore(p) ==
    /\ call[p].at = "delete"
    /\ call[p].evicted = <<>>
    /\ mu' = [mu EXCEPT ![StorageOf[p]] = Nobody]
    /\ call' = [call EXCEPT ![p] = Idle]
    /\ done' = IF \E q \in Procs \ {p} : call[q] # Idle /\ call[q].id = call[p].id
               THEN done ELSE done \cup {call[p].id}
    /\ UNCHANGED <<server, before, begun, again, used, faulty>>

\* The client reports an error although the server may have done as asked;
\* Store returns it, and its deferred Unlock runs if the mutex is held.
Fail_KeepsMutex(p) ==
    /\ call[p].at \in {"set", "save"}
    /\ UNCHANGED <<server, mu>>
    /\ call' = [call EXCEPT ![p] = Idle]
    /\ faulty' = TRUE
    /\ UNCHANGED <<done, before, begun, again, used>>

Fail(p) ==
    /\ \/ /\ call[p].at = "set"
          /\ items' \in {items, items \cup {call[p].id}}
          /\ UNCHANGED <<index, mu>>
       \/ /\ call[p].at = "lock"
          /\ mu[StorageOf[p]] = Nobody
          /\ UNCHANGED <<server, mu>>
       \/ /\ call[p].at = "save"
          /\ index' \in {index, Kept(PrependUnique(call[p].ids, call[p].id))}
          /\ mu' = [mu EXCEPT ![StorageOf[p]] = Nobody]
          /\ UNCHANGED items
    /\ call' = [call EXCEPT ![p] = Idle]
    /\ faulty' = TRUE
    /\ UNCHANGED <<done, before, begun, again, used>>

-----------------------------------------------------------------------------
(* memcached *)

Forget ==
    /\ \/ index' = <<>> /\ UNCHANGED items
       \/ UNCHANGED index /\ \E id \in items : items' = items \ {id}
    /\ faulty' = TRUE
    /\ UNCHANGED <<mu, call, done, before, begun, again, used>>

-----------------------------------------------------------------------------
Step(p) == SetItem(p) \/ LoadIndex(p) \/ SaveIndex(p) \/ DeleteEvicted(p) \/ EndStore(p)

Next ==
    \/ \E p \in Procs : (\E id \in Ids : Begin(p, id)) \/ Step(p) \/ Fail(p)
    \/ Forget

Spec == Init /\ [][Next]_vars

-----------------------------------------------------------------------------
(* Properties *)

\* Every variable has its type; a mutex is held exactly by a goroutine that
\* works on the index, whichever call of the client has failed before.
TypeOK ==
    /\ items \subseteq Ids
    /\ index \in Seq(Ids)
    /\ mu \in [Storages -> Procs \cup {Nobody}]
    /\ call \in [Procs -> Call]
    /\ done \subseteq Ids /\ before \subseteq Ids \X Ids
    /\ begun \subseteq Ids /\ again \subseteq Ids
    /\ used \subseteq Storages /\ faulty \in BOOLEAN
    /\ \A p \in Procs : mu[StorageOf[p]] = p <=> call[p].at \in {"save", "delete"}

\* However many processes overwrite each other's index and whatever fails, the
\* index lists no id twice and no more than MaxEntries of them.
IndexBounded ==
    /\ MaxEntries > 0 => Len(index) <= MaxEntries
    /\ \A i, j \in DOMAIN index : index[i] = index[j] => i = j

\* Within one process, and as long as nothing fails, ...
OneProcess == ~faulty /\ \A s, t \in used : s = t

\* ... "List returns most recent metadata first" (memcache.go:132): of two ids
\* that are listed, one whose Store began after the other's had returned comes
\* first.  Of ids that are stored only once this is true even when processes
\* overwrite each other's index and calls fail.
NewestFirst ==
    \A i, j \in DOMAIN index :
        /\ <<index[i], index[j]>> \in before
        /\ \/ OneProcess /\ index[j] \in done
           \/ {index[i], index[j]} \cap again = {}
        => j < i

\* ... the read and the write of the index lose no update: what has been stored
\* is listed, unless there is a limit and the index is full of others, none of
\* them older.
NoLostUpdate ==
    OneProcess =>
        \A id \in done \ Listed :
            /\ MaxEntries > 0 /\ Len(index) = MaxEntries
            /\ \A other \in Listed : <<other, id>> \notin before

\* ... what is listed can be fetched: the index is saved before an evicted id is
\* deleted.  An id that is stored again while it is evicted is the exception, as
\* it is set before the mutex is taken and deleted afterwards.
ListedIsStored == OneProcess => \A id \in Listed : id \in items \cup again

\* ... and what is stored is listed, or some Store is about to list or delete it.
NoOrphans ==
    OneProcess =>
        \A id \in items \ Listed : \E p \in Procs :
            \/ call[p].at \in {"lock", "save"} /\ call[p].id = id
            \/ call[p].at = "delete" /\ id \in {call[p].evicted[i] : i \in DOMAIN call[p].evicted}
=============================================================================
