----------------------------- MODULE RecencyLog -----------------------------
(***************************************************************************)
(* What a bounded metadata storage promises its callers: a log of the      *)
(* entries stored most recently, at most one per id, oldest first.         *)
(* Storing makes an entry the newest and keeps as long a recent suffix as  *)
(* the limits allow; expiring drops the entries created before a cutoff.   *)
(* Both take effect in one step.  InMemoryStorage implements this module.  *)
(***************************************************************************)
EXTENDS Integers, Sequences, SequencesExt

CONSTANTS Ids, Sizes, MaxEntries, MaxBytes, MaxTime

VARIABLES
    log,    \* the entries a reader can see, oldest first
    now     \* the clock the creation times are read from

vars == <<log, now>>

Entry == [id : Ids, bytes : Sizes, createdAt : 0..MaxTime]

\* f[i] is what the first i entries of s weigh together.
RunningSums(s, f) == f[0] = 0 /\ \A i \in DOMAIN s : f[i] = f[i - 1] + s[i].bytes

Fits(s) ==
    /\ Len(s) <= MaxEntries
    /\ \E f \in [0..Len(s) -> 0..MaxBytes] : RunningSums(s, f)

From(s, k) == SubSeq(s, k, Len(s))

\* What the limits leave of s: as long a suffix as fits.
Recent(s) == From(s, Min({k \in 1..Len(s) + 1 : Fits(From(s, k))}))

\* What is left of s when everything created before cutoff is dropped.
Young(s, cutoff) ==
    From(s, Min({k \in 1..Len(s) + 1 : \A i \in k..Len(s) : s[i].createdAt >= cutoff}))

\* The log has one entry of an id at most.
Without(s, id) ==
    IF \E i \in DOMAIN s : s[i].id = id
    THEN RemoveAt(s, CHOOSE i \in DOMAIN s : s[i].id = id) ELSE s

Init == log = <<>> /\ now = 0

Put(id, bytes) ==
    /\ log' = Recent(Append(Without(log, id),
                            [id |-> id, bytes |-> bytes, createdAt |-> now]))
    /\ UNCHANGED now

\* The cutoff lies in the past: retention times are positive.
Expire(cutoff) ==
    /\ log' = Young(log, cutoff)
    /\ UNCHANGED now

Tick == now < MaxTime /\ now' = now + 1 /\ UNCHANGED log

Next ==
    \/ \E id \in Ids, bytes \in Sizes : Put(id, bytes)
    \/ \E cutoff \in 0..now : cutoff < now /\ Expire(cutoff)
    \/ Tick

Spec == Init /\ [][Next]_vars
=============================================================================
