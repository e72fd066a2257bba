--------------------------- MODULE InMemoryStorage ---------------------------
(***************************************************************************)
(* storage_memory.go: the process-local Storage.  A list in insertion      *)
(* order, an index by id and a running byte total, guarded by one RWMutex. *)
(*                                                                         *)
(* Store and Cleanup run in goroutines Procs; each is split where another  *)
(* goroutine can get in (before the lock is taken) and at every turn of    *)
(* the loop it runs under the lock.  Get and List hold the read lock for   *)
(* their whole body, so they are operators that read a state in which no   *)
(* writer holds mu.                                                        *)
(*                                                                         *)
(* A definition X_Bug is X with a plausible bug, kept to show that the     *)
(* properties notice it; nothing else refers to it.                        *)
(***************************************************************************)
EXTENDS Integers, Sequences, SequencesExt

CONSTANTS
    Procs,          \* goroutines calling Store and Cleanup
    Ids,            \* request ids
    Sizes,          \* lengths of the marshalled metadata
    Ages,           \* the maxAge arguments of Cleanup
    MaxEntries, MaxBytes,
    MaxTime,        \* bound on the clock
    Nobody, NoEntry

ASSUME LimitsAssumption ==    \* NewInMemoryStorage replaces any other value
    MaxEntries \in Nat \ {0} /\ MaxBytes \in Nat \ {0}
ASSUME DataAssumption == Sizes \subseteq Nat \ {0} /\ Ages \subseteq Nat
ASSUME TimeAssumption == MaxTime \in Nat
ASSUME NullAssumption ==
    Nobody \notin Procs /\ NoEntry \notin [id : Ids, bytes : Sizes, createdAt : 0..MaxTime]

VARIABLES
    entries,        \* the list, oldest first
    byID,           \* id -> its list element, or NoEntry
    totalBytes,
    mu,             \* the goroutine holding the write lock, or Nobody
    call,           \* what each goroutine is doing
    now

vars == <<entries, byID, totalBytes, mu, call, now>>
store == <<entries, byID, totalBytes>>

Entry == [id : Ids, bytes : Sizes, createdAt : 0..MaxTime]

Idle == [op |-> "idle"]

Call ==
    {Idle}
    \cup [op : {"store"}, id : Ids, bytes : Sizes]
    \cup [op : {"evict"}]
    \cup [op : {"cleanup"}, cutoff : Int]
    \cup [op : {"sweep"}, cutoff : Int, at : Nat \ {0}]

Init ==
    /\ entries = <<>>
    /\ byID = [id \in Ids |-> NoEntry]
    /\ totalBytes = 0
    /\ mu = Nobody
    /\ call = [p \in Procs |-> Idle]
    /\ now = 0

-----------------------------------------------------------------------------
\* removeElementLocked on the i-th element of a list s, an index and a total.

NonNegative(n) == IF n < 0 THEN 0 ELSE n

IndexWithout_Forgotten(index, e) == index

IndexWithout(index, e) == [index EXCEPT ![e.id] = NoEntry]

BytesWithout_Forgotten(total, e) == total

BytesWithout(total, e) == NonNegative(total - e.bytes)

RemoveElementLocked(i) ==
    /\ entries' = RemoveAt(entries, i)
    /\ byID' = IndexWithout(byID, entries[i])
    /\ totalBytes' = BytesWithout(totalBytes, entries[i])

OverLimit_OffByOne == Len(entries) > MaxEntries + 1 \/ totalBytes > MaxBytes

OverLimit == Len(entries) > MaxEntries \/ totalBytes > MaxBytes

-----------------------------------------------------------------------------
(* Store *)

\* Validation and json.Marshal, before the lock.
BeginStore(p, id, bytes) ==
    /\ call[p] = Idle
    /\ call' = [call EXCEPT ![p] = [op |-> "store", id |-> id, bytes |-> bytes]]
    /\ UNCHANGED <<store, mu, now>>

NewEntry(p) == [id |-> call[p].id, bytes |-> call[p].bytes, createdAt |-> now]

PushBack_Front(list, index, total, e) ==
    /\ entries' = <<e>> \o list
    /\ byID' = [index EXCEPT ![e.id] = e]
    /\ totalBytes' = total + e.bytes

\* Adds e at the back of a list, an index and a total that lack its id.
PushBack(list, index, total, e) ==
    /\ entries' = Append(list, e)
    /\ byID' = [index EXCEPT ![e.id] = e]
    /\ totalBytes' = total + e.bytes

LockStore_NoReplace(p) ==
    /\ call[p].op = "store"
    /\ mu = Nobody
    /\ PushBack(entries, byID, totalBytes, NewEntry(p))
    /\ mu' = p
    /\ call' = [call EXCEPT ![p] = [op |-> "evict"]]
    /\ UNCHANGED now

\* Lock, drop the entry of the same id, push the new one stamped with the time.
LockStore(p) ==
    /\ call[p].op = "store"
    /\ mu = Nobody
    /\ LET old == byID[call[p].id]
       IN  \/ /\ old = NoEntry
              /\ PushBack(entries, byID, totalBytes, NewEntry(p))
           \/ /\ old # NoEntry
              /\ \E i \in DOMAIN entries :
                    /\ entries[i] = old
                    /\ PushBack(RemoveAt(entries, i), IndexWithout(byID, old),
                                BytesWithout(totalBytes, old), NewEntry(p))
    /\ mu' = p
    /\ call' = [call EXCEPT ![p] = [op |-> "evict"]]
    /\ UNCHANGED now

EvictFront_Newest(p) ==
    /\ mu = p
    /\ call[p].op = "evict"
    /\ OverLimit
    /\ entries # <<>>
    /\ RemoveElementLocked(Len(entries))
    /\ UNCHANGED <<mu, call, now>>

\* One turn of the loop of evictLocked.
EvictFront(p) ==
    /\ mu = p
    /\ call[p].op = "evict"
    /\ OverLimit
    /\ entries # <<>>
    /\ RemoveElementLocked(1)
    /\ UNCHANGED <<mu, call, now>>

Return_KeepsLock(p) ==
    /\ call' = [call EXCEPT ![p] = Idle]
    /\ UNCHANGED <<store, mu, now>>

Return(p) ==
    /\ mu' = Nobody
    /\ call' = [call EXCEPT ![p] = Idle]
    /\ UNCHANGED <<store, now>>

EndStore(p) ==
    /\ mu = p
    /\ call[p].op = "evict"
    /\ ~OverLimit \/ entries = <<>>
    /\ Return(p)

-----------------------------------------------------------------------------
(* Cleanup *)

\* The cutoff is computed before the lock is requested.
BeginCleanup(p, maxAge) ==
    /\ call[p] = Idle
    /\ maxAge > 0
    /\ call' = [call EXCEPT ![p] = [op |-> "cleanup", cutoff |-> now - maxAge]]
    /\ UNCHANGED <<store, mu, now>>

LockCleanup(p) ==
    /\ call[p].op = "cleanup"
    /\ mu = Nobody
    /\ mu' = p
    /\ call' = [call EXCEPT ![p] = [op |-> "sweep", cutoff |-> call[p].cutoff, at |-> 1]]
    /\ UNCHANGED <<store, now>>

Expired_Inclusive(p) == entries[call[p].at].createdAt <= call[p].cutoff

Expired(p) == entries[call[p].at].createdAt < call[p].cutoff

SweepElem_Skips(p) ==
    /\ mu = p
    /\ call[p].op = "sweep"
    /\ call[p].at \in DOMAIN entries
    /\ IF Expired(p) THEN RemoveElementLocked(call[p].at) ELSE UNCHANGED store
    /\ call' = [call EXCEPT ![p].at = @ + 1]
    /\ UNCHANGED <<mu, now>>

\* The element at the sweep's position goes, or the sweep moves past it.
SweepElem(p) ==
    /\ mu = p
    /\ call[p].op = "sweep"
    /\ call[p].at \in DOMAIN entries
    /\ \/ /\ Expired(p)
          /\ RemoveElementLocked(call[p].at)
          /\ UNCHANGED call
       \/ /\ ~Expired(p)
          /\ call' = [call EXCEPT ![p].at = @ + 1]
          /\ UNCHANGED store
    /\ UNCHANGED <<mu, now>>

EndCleanup(p) ==
    /\ mu = p
    /\ call[p].op = "sweep"
    /\ call[p].at \notin DOMAIN entries
    /\ Return(p)

-----------------------------------------------------------------------------
\* Time passes at any moment, also while a lock is held.
Tick ==
    /\ now < MaxTime
    /\ now' = now + 1
    /\ UNCHANGED <<store, mu, call>>

Step(p) ==
    \/ LockStore(p) \/ EvictFront(p) \/ EndStore(p)
    \/ LockCleanup(p) \/ SweepElem(p) \/ EndCleanup(p)

Next ==
    \/ \E p \in Procs :
        \/ \E id \in Ids, bytes \in Sizes : BeginStore(p, id, bytes)
        \/ \E maxAge \in Ages : BeginCleanup(p, maxAge)
        \/ Step(p)
    \/ Tick

Spec == Init /\ [][Next]_vars

-----------------------------------------------------------------------------
(* Reads, for a state with mu = Nobody *)

Get(id) == byID[id]

\* List(limit): newest first, all of them when limit <= 0.
List(limit) ==
    LET n == IF limit <= 0 THEN MaxEntries ELSE limit
        k == IF n < Len(entries) THEN n ELSE Len(entries)
    IN  [i \in 1..k |-> entries[Len(entries) + 1 - i]]

-----------------------------------------------------------------------------
(* Properties *)

\* Every variable has its type: the entries, the index, the calls in flight.
TypeOK ==
    /\ entries \in Seq(Entry)
    /\ byID \in [Ids -> Entry \cup {NoEntry}]
    /\ totalBytes \in Nat
    /\ mu \in Procs \cup {Nobody}
    /\ call \in [Procs -> Call]
    /\ now \in 0..MaxTime

\* The index and the list hold the same entries, one per id: no interleaving of
\* Store, eviction and Cleanup leaves a dangling or a shadowed element.
IndexMatchesList ==
    /\ \A i \in DOMAIN entries : byID[entries[i].id] = entries[i]
    /\ \A id \in Ids : byID[id] # NoEntry =>
        \E i \in DOMAIN entries : entries[i] = byID[id] /\ entries[i].id = id
    /\ \A i, j \in DOMAIN entries : entries[i].id = entries[j].id => i = j

\* The list stays in order of creation, so that evicting its front evicts the
\* oldest entry and List returns the most recent first.
Chronological ==
    /\ \A i, j \in DOMAIN entries : i < j => entries[i].createdAt <= entries[j].createdAt
    /\ \A i \in DOMAIN entries : entries[i].createdAt <= now

\* The running total never drifts from the bytes held -- it is the last of the
\* running sums of the sizes -- so the clamp in removeElementLocked never has
\* anything to repair.
RunningSums(s, f) == f[0] = 0 /\ \A i \in DOMAIN s : f[i] = f[i - 1] + s[i].bytes
BytesExact ==
    \E f \in [0..Len(entries) -> 0..totalBytes] :
        RunningSums(entries, f) /\ f[Len(entries)] = totalBytes

\* Whenever a reader can get in, both limits hold, although Store pushes first
\* and evicts afterwards and an entry may be larger than the whole budget.
WithinLimits == mu = Nobody => Len(entries) <= MaxEntries /\ totalBytes <= MaxBytes

\* What a reader sees through List is what it can fetch through Get, the most
\* recent first, and a limit only shortens the answer.
ReadsAgree ==
    mu = Nobody =>
        /\ {List(0)[i] : i \in DOMAIN List(0)} = {Get(id) : id \in Ids} \ {NoEntry}
        /\ \A limit \in 1..MaxEntries : IsPrefix(List(limit), List(0))

\* Nothing is lost without a reason: an entry that leaves the list was replaced
\* by a newer one of its id, did not fit any more, or was created more than the
\* smallest retention time ago -- also when it was stored again while Cleanup,
\* its cutoff computed, was waiting for the lock.
OldEnough(e) == \E maxAge \in Ages \ {0} : e.createdAt + maxAge < now
LossIsJustified ==
    [][\A id \in Ids :
        byID[id] # NoEntry /\ byID'[id] # byID[id] =>
            \/ byID'[id] # NoEntry /\ byID'[id].createdAt = now
            \/ OverLimit
            \/ OldEnough(byID[id])]_vars

\* A Cleanup that returns leaves no entry older than its cutoff.
CleanupIsComplete ==
    [][\A p \in Procs :
        call[p].op = "sweep" /\ call'[p] = Idle =>
            \A i \in DOMAIN entries' : entries'[i].createdAt >= call[p].cutoff]_vars

\* The storage implements RecencyLog: callers cannot tell the loops under the
\* lock from one step.  A pending loop counts as finished.
Abs == INSTANCE RecencyLog WITH log <- entries
Pending ==
    IF mu = Nobody THEN entries
    ELSE IF call[mu].op = "evict" THEN Abs!Recent(entries)
    ELSE Abs!Young(entries, call[mu].cutoff)
Recency == INSTANCE RecencyLog WITH log <- Pending
ImplementsRecencyLog == Recency!Spec
=============================================================================
