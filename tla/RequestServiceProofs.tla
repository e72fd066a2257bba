------------------------ MODULE RequestServiceProofs ------------------------
(***************************************************************************)
(* Two arguments, for any set of statuses, any limits and any number of    *)
(* other requests.                                                         *)
(*                                                                         *)
(* What is stored of a request agrees with what was sent: the invariant    *)
(* IInv of RequestLifecycle follows the status through its three places,   *)
(* what left the server, the collector and the stored metadata.            *)
(*                                                                         *)
(* What was stored can be fetched while there is no reason to drop it: the *)
(* invariant SInv of RequestService finds the request's entry in the log   *)
(* and bounds what stands behind it by what was stored after it.           *)
(***************************************************************************)
EXTENDS RequestService, Numbers, SequenceTheorems

\* When each place is still empty, and what it holds afterwards.
Stepwise ==
    /\ at \in {"new", "handler"} => failure = None
    /\ at \in {"new", "handler", "complete"} => recorded = None
    /\ at \notin {"unwind", "over"} => metadata = None
    /\ recorded # None => recorded = status
    /\ metadata # None => metadata = recorded

\* What left is the status, unless it was changed after it had left, the
\* framework put that of an error in its place, or nothing was stored.
Sent ==
    out # None =>
        \/ out.status = status
        \/ rewritten
        \/ failure # None
        \/ at = "over" /\ metadata = None

\* Who can change the status after it was recorded.
Exceptions ==
    /\ failure # None => adapter \in HandlesErrors
    /\ rewritten => adapter \in {"http", "chi"}

\* Only captured requests are completed.
Completing == at \in {"complete", "save"} => captured

IInv == TypeOK /\ Stepwise /\ Sent /\ Exceptions /\ Completing

-----------------------------------------------------------------------------
LEMMA InitHolds == Init => IInv
<1> SUFFICES ASSUME Init PROVE IInv
  OBVIOUS
<1>1. TypeOK
  BY CodesAssumption, Zenon DEF Init, TypeOK
<1>2. Stepwise /\ Sent
  BY DEF Init, Stepwise, Sent
<1>3. Exceptions /\ Completing
  BY Zenon DEF Init, Exceptions, Completing
<1> QED
  BY <1>1, <1>2, <1>3 DEF IInv

LEMMA ArriveKeeps == IInv /\ Arrive => IInv'
<1> SUFFICES ASSUME IInv, Arrive PROVE IInv'
  OBVIOUS
<1> USE DEF response, record
<1>1. captured' \in BOOLEAN
  BY Zenon DEF Arrive, ShouldCapture
<1>2. recorded = None /\ metadata = None
  BY DEF IInv, Stepwise, Arrive
<1>3. TypeOK'
  BY <1>1, <1>2, Zenon DEF IInv, TypeOK, Arrive
<1>4. Stepwise' /\ Sent' /\ Exceptions' /\ Completing'
  BY <1>2 DEF IInv, Stepwise, Sent, Exceptions, Completing, Arrive
<1> QED
  BY <1>3, <1>4 DEF IInv

LEMMA LeavesType ==
    ASSUME captured \in BOOLEAN, NEW code \in Codes, Leaves(code)
    PROVE  out' \in [status : Codes, id : BOOLEAN] /\ out'.status = code
BY Zenon DEF Leaves

LEMMA SetStatusKeeps ==
    ASSUME IInv, NEW code \in Codes, SetStatus(code)
    PROVE  IInv'
<1> USE DEF response, record
<1>1. recorded = None /\ metadata = None
  BY DEF IInv, Stepwise, SetStatus
<1>2. CASE out = None
  <2>1. status' = code /\ rewritten' = rewritten
    BY <1>2, Zenon DEF SetStatus
  <2>2. out' = None \/ (out' \in [status : Codes, id : BOOLEAN] /\ out'.status = code)
    BY <1>2, LeavesType DEF SetStatus, IInv, TypeOK
  <2>3. TypeOK'
    BY <2>1, <2>2, Zenon DEF IInv, TypeOK, SetStatus
  <2>4. Stepwise' /\ Sent' /\ Exceptions' /\ Completing'
    BY <1>1, <2>1, <2>2 DEF IInv, Stepwise, Sent, Exceptions, Completing, SetStatus
  <2> QED
    BY <2>3, <2>4 DEF IInv
<1>3. CASE out # None
  <2>1. status' = code /\ rewritten' = TRUE /\ out' = out
    BY <1>3, Zenon DEF SetStatus
  <2>2. adapter' \in {"http", "chi"}
    BY <1>3, Zenon DEF SetStatus
  <2>3. TypeOK'
    BY <2>1, Zenon DEF IInv, TypeOK, SetStatus
  <2>4. Stepwise' /\ Sent'
    BY <1>1, <2>1 DEF IInv, Stepwise, Sent, SetStatus
  <2>5. Exceptions' /\ Completing'
    BY <2>2, Zenon DEF IInv, Exceptions, Completing, SetStatus
  <2> QED
    BY <2>3, <2>4, <2>5 DEF IInv
<1> QED
  BY <1>2, <1>3

LEMMA WriteKeeps == IInv /\ Write => IInv'
<1> SUFFICES ASSUME IInv, Write PROVE IInv'
  OBVIOUS
<1> USE DEF response, record
<1>1. out' \in [status : Codes, id : BOOLEAN] /\ out'.status = status
  BY LeavesType DEF IInv, TypeOK, Write
<1>2. TypeOK'
  BY <1>1, Zenon DEF IInv, TypeOK, Write
<1>3. Stepwise' /\ Sent' /\ Exceptions' /\ Completing'
  BY <1>1 DEF IInv, Stepwise, Sent, Exceptions, Completing, Write
<1> QED
  BY <1>2, <1>3 DEF IInv

LEMMA ReturnKeeps == IInv /\ Return => IInv'
<1> SUFFICES ASSUME IInv, Return PROVE IInv'
  OBVIOUS
<1> USE DEF response, record
<1>1. at' \in {"complete", "unwind"}
  BY Zenon DEF Return
<1>2. failure' \in {None} \cup Codes /\ (failure' # None => adapter \in HandlesErrors)
  BY Zenon DEF Return
<1>3. recorded = None /\ metadata = None /\ failure = None /\ at = "handler"
  BY DEF IInv, Stepwise, Return
<1>5. TypeOK'
  BY <1>1, <1>2, Zenon DEF IInv, TypeOK, Return
<1>6. Stepwise' /\ Sent' /\ Exceptions' /\ Completing'
  BY <1>1, <1>2, <1>3 DEF IInv, Stepwise, Sent, Exceptions, Completing, Return
<1> QED
  BY <1>5, <1>6 DEF IInv

LEMMA PanicKeeps == IInv /\ Panic => IInv'
<1> SUFFICES ASSUME IInv, Panic PROVE IInv'
  OBVIOUS
<1> USE DEF response, record
<1>1. recorded = None /\ metadata = None
  BY DEF IInv, Stepwise, Panic
<1>2. out' = out \/ out' \in [status : Codes, id : BOOLEAN]
  BY LeavesType DEF IInv, TypeOK, Panic
<1>3. TypeOK'
  BY <1>1, <1>2, Zenon DEF IInv, TypeOK, Panic
<1>4. Stepwise' /\ Sent' /\ Exceptions' /\ Completing'
  BY <1>1 DEF IInv, Stepwise, Sent, Exceptions, Completing, Panic
<1> QED
  BY <1>3, <1>4 DEF IInv

LEMMA CompleteKeeps == IInv /\ Complete => IInv'
<1> SUFFICES ASSUME IInv, Complete PROVE IInv'
  OBVIOUS
<1> USE DEF response, record
<1>1. captured
  BY DEF IInv, Completing, Complete
<1>2. TypeOK'
  BY <1>1, Zenon DEF IInv, TypeOK, Complete
<1>3. Stepwise' /\ Sent' /\ Exceptions' /\ Completing'
  BY <1>1 DEF IInv, Stepwise, Sent, Exceptions, Completing, Complete
<1> QED
  BY <1>2, <1>3 DEF IInv

LEMMA SaveKeeps == IInv /\ Save => IInv'
<1> SUFFICES ASSUME IInv, Save PROVE IInv'
  OBVIOUS
<1> USE DEF response, record
<1>1. captured
  BY DEF IInv, Completing, Save
<1>2. (metadata' = recorded \/ metadata' = metadata) /\ lost' \in BOOLEAN
  BY Zenon DEF IInv, TypeOK, Save
<1>3. TypeOK'
  BY <1>1, <1>2, Zenon DEF IInv, TypeOK, Save
<1>4. Stepwise' /\ Sent' /\ Exceptions' /\ Completing'
  BY <1>2 DEF IInv, Stepwise, Sent, Exceptions, Completing, Save
<1> QED
  BY <1>3, <1>4 DEF IInv

LEMMA UnwindKeeps == IInv /\ Unwind => IInv'
<1> SUFFICES ASSUME IInv, Unwind PROVE IInv'
  OBVIOUS
<1> USE DEF response, record
<1> DEFINE code == IF failure = None THEN status ELSE failure
<1>1. code \in Codes
  BY DEF IInv, TypeOK
<1>2. \/ out = None /\ out' \in [status : Codes, id : BOOLEAN] /\ out'.status = code
      \/ out # None /\ out' = out
  BY <1>1, LeavesType DEF IInv, TypeOK, Unwind
<1>3. TypeOK'
  BY <1>2, Zenon DEF IInv, TypeOK, Unwind
<1>4. Stepwise' /\ Sent' /\ Exceptions' /\ Completing'
  BY <1>2 DEF IInv, Stepwise, Sent, Exceptions, Completing, Unwind
<1> QED
  BY <1>3, <1>4 DEF IInv

-----------------------------------------------------------------------------
\* The inductive invariant holds throughout every request.
THEOREM Invariance == Spec => []IInv
<1>1. IInv /\ [Next]_vars => IInv'
  <2> SUFFICES ASSUME IInv, [Next]_vars PROVE IInv'
    OBVIOUS
  <2>1. CASE Next
    BY <2>1, ArriveKeeps, SetStatusKeeps, WriteKeeps, ReturnKeeps, PanicKeeps,
       CompleteKeeps, SaveKeeps, UnwindKeeps DEF Next
  <2>2. CASE UNCHANGED vars
    <3>1. TypeOK'
      BY <2>2, Zenon DEF IInv, TypeOK, vars, response, record
    <3>2. Stepwise' /\ Sent' /\ Exceptions' /\ Completing'
      BY <2>2 DEF IInv, Stepwise, Sent, Exceptions, Completing, vars, response, record
    <3> QED
      BY <3>1, <3>2 DEF IInv
  <2> QED
    BY <2>1, <2>2
<1> QED
  BY InitHolds, <1>1, PTL DEF Spec

\* The variables keep their types, and a request that is not captured leaves
\* neither a record nor metadata.
THEOREM TypeCorrect == Spec => []TypeOK
BY Invariance, PTL DEF IInv

\* The status stored by SaveMetadata is the one the client got, but for the
\* errors echo and fiber handle later and the second WriteHeader of http and chi.
THEOREM StatusCorrect == Spec => []StatusAgrees
<1>1. IInv => StatusAgrees
  BY DEF IInv, Stepwise, Sent, Exceptions, StatusAgrees, Found
<1> QED
  BY Invariance, <1>1, PTL


-----------------------------------------------------------------------------
(* The service                                                             *)

LogEntry == [id : 0..MaxOthers, bytes : Sizes, createdAt : 0..MaxTime]

ServiceTypeOK ==
    /\ log \in Seq(LogEntry)
    /\ now \in 0..MaxTime
    /\ others \in 0..MaxOthers
    /\ size \in Sizes
    /\ storedAt \in {None} \cup 0..now
    /\ newer \in [count : Nat, bytes : Nat]

\* The metadata is stored once, on the way out, and counting starts then.
StoredOnce ==
    IF storedAt = None THEN newer = [count |-> 0, bytes |-> 0]
    ELSE at \in {"unwind", "over"}

\* The log has no id nobody has stored under.
KnownIds ==
    \A i \in DOMAIN log :
        log[i].id <= others /\ (storedAt = None => log[i].id # Me)

\* f[j] is what the j entries behind the i-th of s weigh together.
SumsBehind(s, i, f) ==
    f[0] = 0 /\ \A j \in 1..Len(s) - i : f[j] = f[j - 1] + s[i + j].bytes

\* The i-th entry of s is e, and what stands behind it is no more than count
\* entries of together no more than bytes bytes, none of them older.
Stands(s, i, e, count, bytes) ==
    /\ i \in 1..Len(s)
    /\ s[i] = e
    /\ Len(s) - i <= count
    /\ \A j \in i..Len(s) : s[j].createdAt >= e.createdAt
    /\ \E f \in [0..Len(s) - i -> 0..bytes] : SumsBehind(s, i, f)

Holding(s, e, count, bytes) == \E i \in 1..Len(s) : Stands(s, i, e, count, bytes)

MyEntry == [id |-> Me, bytes |-> size, createdAt |-> storedAt]

\* The entry is there for as long as there is no reason to drop it.
Kept == storedAt # None /\ ~Displaced => Holding(log, MyEntry, newer.count, newer.bytes)

SInv == ServiceTypeOK /\ StoredOnce /\ KnownIds /\ Kept

-----------------------------------------------------------------------------
(* What the log keeps is a suffix *)

From(s, k) == SubSeq(s, k, Len(s))

LEMMA FromFacts ==
    ASSUME NEW s \in Seq(LogEntry), NEW k \in 1..Len(s) + 1
    PROVE  /\ From(s, k) \in Seq(LogEntry)
           /\ Len(From(s, k)) = Len(s) - k + 1
           /\ \A i \in 1..Len(s) - k + 1 : From(s, k)[i] = s[k + i - 1]
<1>1. Len(s) \in Nat /\ \A i \in k..Len(s) : s[i] \in LogEntry
  BY ElementOfSeq, LenProperties
<1>2. /\ From(s, k) \in Seq(LogEntry)
      /\ Len(From(s, k)) = (IF k <= Len(s) THEN Len(s) - k + 1 ELSE 0)
      /\ \A i \in 1..Len(s) - k + 1 : From(s, k)[i] = s[k + i - 1]
  <2>1. k \in Int /\ Len(s) \in Int
    BY <1>1
  <2> DEFINE n == Len(s)
  <2>2. /\ SubSeq(s, k, n) \in Seq(LogEntry)
        /\ Len(SubSeq(s, k, n)) = (IF k <= n THEN n - k + 1 ELSE 0)
        /\ \A i \in 1..n - k + 1 : SubSeq(s, k, n)[i] = s[k + i - 1]
    <3> HIDE DEF n
    <3>1. n \in Int /\ \A i \in k..n : s[i] \in LogEntry
      BY <1>1, <2>1 DEF n
    <3> QED
      BY <2>1, <3>1, SubSeqProperties
  <2> QED
    BY <2>2 DEF From
<1>3. (IF k <= Len(s) THEN Len(s) - k + 1 ELSE 0) = Len(s) - k + 1
  BY <1>1
<1> QED
  BY <1>2, <1>3

LEMMA EntryFields ==
    ASSUME NEW e \in LogEntry
    PROVE  e.id \in Nat /\ e.bytes \in Sizes /\ e.bytes \in Nat /\ e.createdAt \in Nat
<1>1. e.id \in 0..MaxOthers /\ e.bytes \in Sizes /\ e.createdAt \in 0..MaxTime
  BY DEF LogEntry
<1>2. e.bytes \in Nat
  BY <1>1, StorageAssumption, Zenon
<1>3. e.id \in Nat /\ e.createdAt \in Nat
  BY <1>1, StorageAssumption
<1> QED
  BY <1>1, <1>2, <1>3

LEMMA ElementFields ==
    ASSUME NEW s \in Seq(LogEntry), NEW i \in 1..Len(s)
    PROVE  /\ s[i] \in LogEntry
           /\ s[i].id \in Nat /\ s[i].bytes \in Nat /\ s[i].createdAt \in Nat
<1>1. s[i] \in LogEntry
  BY ElementOfSeq
<1> QED
  BY <1>1, EntryFields

LEMMA NothingFits == Storage!Fits(<<>>)
<1> DEFINE f == [i \in 0..0 |-> 0]
<1>1. f \in [0..0 -> 0..MaxBytes] /\ Storage!RunningSums(<<>>, f)
  BY StorageAssumption DEF Storage!RunningSums
<1>2. Len(<<>>) = 0 /\ 0 <= MaxEntries
  BY StorageAssumption
<1> QED
  BY <1>1, <1>2 DEF Storage!Fits

LEMMA EmptySuffix ==
    ASSUME NEW s \in Seq(LogEntry)
    PROVE  /\ Len(s) \in Nat /\ Len(s) + 1 \in 1..Len(s) + 1
           /\ From(s, Len(s) + 1) = <<>>
<1>1. Len(s) \in Nat /\ Len(s) + 1 \in Int /\ Len(s) \in Int /\ Len(s) < Len(s) + 1
  BY LenProperties
<1>2. From(s, Len(s) + 1) = <<>>
  BY <1>1, SubSeqEmpty DEF From
<1> QED
  BY <1>1, <1>2

\* The suffix Put leaves is as long as any that fits.
LEMMA RecentIsSuffix ==
    ASSUME NEW s \in Seq(LogEntry)
    PROVE  \E m \in 1..Len(s) + 1 :
             /\ Storage!Recent(s) = From(s, m)
             /\ \A k \in 1..Len(s) + 1 : Storage!Fits(From(s, k)) => m <= k
<1> DEFINE K == {k \in 1..Len(s) + 1 : Storage!Fits(From(s, k))}
<1>1. Len(s) + 1 \in Nat /\ K \subseteq 1..Len(s) + 1 /\ K # {}
  BY EmptySuffix, NothingFits
<1>2. Min(K) \in K /\ \A k \in K : Min(K) <= k
  BY <1>1, MinIsLeast
<1>3. Storage!Recent(s) = From(s, Min(K))
  BY Zenon DEF Storage!Recent, Storage!From, Storage!Min, From, Min
<1> QED
  BY <1>2, <1>3

\* So is the one Expire leaves, of those without an old entry.
LEMMA YoungIsSuffix ==
    ASSUME NEW s \in Seq(LogEntry), NEW cutoff
    PROVE  \E m \in 1..Len(s) + 1 :
             /\ Storage!Young(s, cutoff) = From(s, m)
             /\ \A k \in 1..Len(s) + 1 :
                  (\A i \in k..Len(s) : s[i].createdAt >= cutoff) => m <= k
<1> DEFINE K == {k \in 1..Len(s) + 1 : \A i \in k..Len(s) : s[i].createdAt >= cutoff}
<1>1. Len(s) + 1 \in Nat /\ K \subseteq 1..Len(s) + 1 /\ K # {}
  <2>1. Len(s) + 1 \in K
    BY EmptySuffix
  <2> QED
    BY <2>1, EmptySuffix
<1>2. Min(K) \in K /\ \A k \in K : Min(K) <= k
  BY <1>1, MinIsLeast
<1>3. Storage!Young(s, cutoff) = From(s, Min(K))
  BY Zenon DEF Storage!Young, Storage!From, Storage!Min, From, Min
<1> QED
  BY <1>2, <1>3

\* What a suffix holds was in the list.
LEMMA SuffixElements ==
    ASSUME NEW s \in Seq(LogEntry), NEW m \in 1..Len(s) + 1, NEW i \in DOMAIN From(s, m)
    PROVE  \E j \in DOMAIN s : From(s, m)[i] = s[j]
<1>1. /\ Len(s) \in Nat /\ DOMAIN s = 1..Len(s)
      /\ From(s, m) \in Seq(LogEntry) /\ Len(From(s, m)) = Len(s) - m + 1
      /\ \A k \in 1..Len(s) - m + 1 : From(s, m)[k] = s[m + k - 1]
  BY FromFacts, LenProperties
<1>2. DOMAIN From(s, m) = 1..Len(s) - m + 1
  BY <1>1, LenProperties
<1>3. m + i - 1 \in 1..Len(s) /\ From(s, m)[i] = s[m + i - 1]
  BY <1>1, <1>2
<1> QED
  BY <1>1, <1>3

-----------------------------------------------------------------------------
(* The entry and what stands behind it *)

LEMMA SuffixHolds ==
    ASSUME NEW s \in Seq(LogEntry), NEW i \in 1..Len(s), NEW m \in 1..i,
           NEW e, NEW count \in Nat, NEW bytes \in Nat, Stands(s, i, e, count, bytes)
    PROVE  Holding(From(s, m), e, count, bytes)
<1> DEFINE t == From(s, m)
           k == i - m + 1
           n == Len(s)
<1>1. n \in Nat /\ i \in 1..n /\ m \in 1..n + 1
  BY LenProperties
<1>2. /\ t \in Seq(LogEntry) /\ Len(t) = n - m + 1
      /\ \A j \in 1..n - m + 1 : t[j] = s[m + j - 1]
  BY <1>1, FromFacts
<1>3. /\ s[i] = e /\ n - i <= count
      /\ \A j \in i..n : s[j].createdAt >= e.createdAt
  BY DEF Stands
<1>4. PICK f \in [0..n - i -> 0..bytes] : SumsBehind(s, i, f)
  BY DEF Stands
<1>5. f[0] = 0 /\ \A j \in 1..n - i : f[j] = f[j - 1] + s[i + j].bytes
  BY <1>4 DEF SumsBehind
<1> HIDE DEF t, n
<1>6. k \in 1..Len(t) /\ Len(t) - k = n - i /\ m + k - 1 = i
  BY <1>1, <1>2
<1>7. \A j \in 1..n - i : k + j \in 1..n - m + 1 /\ m + (k + j) - 1 = i + j
  BY <1>1
<1>8. \A j \in 1..n - i : t[k + j] = s[i + j]
  BY <1>2, <1>7
<1>9. t[k] = e
  <2>1. k \in 1..n - m + 1
    BY <1>1
  <2>2. t[k] = s[m + k - 1]
    BY <1>2, <2>1
  <2> QED
    BY <1>3, <1>6, <2>2
<1>10. ASSUME NEW j \in k..Len(t) PROVE t[j].createdAt >= e.createdAt
  <2>1. j \in 1..n - m + 1 /\ m + j - 1 \in i..n
    BY <1>1, <1>2
  <2>2. t[j] = s[m + j - 1]
    BY <1>2, <2>1
  <2> QED
    BY <1>3, <2>1, <2>2
<1> HIDE DEF k
<1>11. SumsBehind(t, k, f)
  BY <1>5, <1>6, <1>8 DEF SumsBehind
<1>12. f \in [0..Len(t) - k -> 0..bytes]
  BY <1>6
<1>13. Stands(t, k, e, count, bytes)
  BY <1>3, <1>6, <1>9, <1>10, <1>11, <1>12 DEF Stands
<1> QED
  BY <1>6, <1>13 DEF Holding, t

\* With room for it beside what was stored after it, the limits leave it.
LEMMA StandingFits ==
    ASSUME NEW s \in Seq(LogEntry), NEW i \in 1..Len(s), NEW e \in LogEntry,
           NEW count \in Nat, NEW bytes \in Nat, Stands(s, i, e, count, bytes),
           count < MaxEntries, e.bytes + bytes <= MaxBytes
    PROVE  Storage!Fits(From(s, i))
<1> DEFINE t == From(s, i)
           n == Len(s)
           w == e.bytes
<1>1. n \in Nat /\ i \in 1..n /\ i \in 1..n + 1 /\ w \in Nat
  BY LenProperties, EntryFields
<1>2. /\ t \in Seq(LogEntry) /\ Len(t) = n - i + 1
      /\ \A j \in 1..n - i + 1 : t[j] = s[i + j - 1]
  BY <1>1, FromFacts
<1>3. s[i] = e /\ n - i <= count
  BY DEF Stands
<1>4. PICK f \in [0..n - i -> 0..bytes] : SumsBehind(s, i, f)
  BY DEF Stands
<1>5. f[0] = 0 /\ \A j \in 1..n - i : f[j] = f[j - 1] + s[i + j].bytes
  BY <1>4 DEF SumsBehind
<1>6. MaxEntries \in Nat /\ MaxBytes \in Nat
  BY StorageAssumption
<1> DEFINE g == [j \in 0..Len(t) |-> IF j = 0 THEN 0 ELSE w + f[j - 1]]
<1> HIDE DEF t, n, w
<1>7. Len(t) <= MaxEntries
  BY <1>1, <1>2, <1>3, <1>6
<1>8. ASSUME NEW j \in 0..Len(t) PROVE g[j] \in 0..MaxBytes
  <2>1. CASE j = 0
    BY <1>6, <2>1
  <2>2. CASE j # 0
    <3>1. j - 1 \in 0..n - i
      BY <1>1, <1>2, <2>2
    <3>2. f[j - 1] \in 0..bytes
      BY <3>1
    <3>3. g[j] = w + f[j - 1]
      BY <2>2
    <3>4. \A x \in 0..bytes : w + x \in 0..MaxBytes
      <4>1. w + bytes <= MaxBytes
        BY DEF w
      <4> QED
        BY <4>1, <1>1, <1>6
    <3> QED
      BY <3>2, <3>3, <3>4
  <2> QED
    BY <2>1, <2>2
<1>9. g \in [0..Len(t) -> 0..MaxBytes]
  BY <1>8
<1>10. ASSUME NEW j \in 1..Len(t) PROVE g[j] = g[j - 1] + t[j].bytes
  <2>1. j \in 0..Len(t) /\ j - 1 \in 0..Len(t) /\ j \in 1..n - i + 1
    BY <1>1, <1>2
  <2>2. g[j] = w + f[j - 1] /\ t[j] = s[i + j - 1]
    BY <1>2, <2>1
  <2>3. CASE j = 1
    <3>1. s[i + j - 1] = e /\ j - 1 = 0
      BY <1>1, <1>3, <2>3
    <3>2. g[j - 1] = 0 /\ f[j - 1] = 0
      BY <1>5, <2>1, <3>1
    <3> QED
      BY <1>1, <2>2, <3>1, <3>2 DEF w
  <2>4. CASE j # 1
    <3>1. j - 1 \in 1..n - i /\ j - 1 # 0 /\ i + (j - 1) = i + j - 1 /\ (j - 1) - 1 \in 0..n - i
      BY <1>1, <2>1, <2>4
    <3>2. f[j - 1] = f[(j - 1) - 1] + s[i + j - 1].bytes
      BY <1>5, <3>1
    <3>3. g[j - 1] = w + f[(j - 1) - 1]
      BY <2>1, <3>1
    <3>4. s[i + j - 1].bytes \in Nat
      <4>1. i + j - 1 \in 1..n
        BY <1>1, <2>1
      <4> QED
        BY <4>1, ElementFields DEF n
    <3>5. f[(j - 1) - 1] \in Nat
      BY <3>1
    <3>6. \A x, y \in Nat : w + (x + y) = (w + x) + y
      BY <1>1
    <3>7. w + (f[(j - 1) - 1] + s[i + j - 1].bytes) = (w + f[(j - 1) - 1]) + s[i + j - 1].bytes
      BY <3>4, <3>5, <3>6
    <3> QED
      BY <2>2, <3>2, <3>3, <3>7, Zenon
  <2> QED
    BY <2>3, <2>4
<1>11. g[0] = 0
  BY <1>1, <1>2
<1> HIDE DEF g
<1>12. Storage!RunningSums(t, g)
  <2>1. DOMAIN t = 1..Len(t)
    BY <1>2, LenProperties
  <2> QED
    BY <1>10, <1>11, <2>1 DEF Storage!RunningSums
<1> QED
  BY <1>7, <1>9, <1>12 DEF Storage!Fits, t

\* Another entry makes one more to stand behind it.
LEMMA AppendStands ==
    ASSUME NEW s \in Seq(LogEntry), NEW i \in 1..Len(s), NEW e, NEW new \in LogEntry,
           NEW count \in Nat, NEW bytes \in Nat, Stands(s, i, e, count, bytes),
           new.createdAt >= e.createdAt
    PROVE  /\ i \in 1..Len(Append(s, new))
           /\ Stands(Append(s, new), i, e, count + 1, bytes + new.bytes)
<1> DEFINE t == Append(s, new)
           n == Len(s)
           w == new.bytes
<1>1. n \in Nat /\ i \in 1..n /\ w \in Nat
  BY LenProperties, EntryFields
<1>2. /\ t \in Seq(LogEntry) /\ Len(t) = n + 1
      /\ \A j \in 1..n : t[j] = s[j]
      /\ t[n + 1] = new
  BY AppendProperties
<1>3. /\ s[i] = e /\ n - i <= count
      /\ \A j \in i..n : s[j].createdAt >= e.createdAt
  BY DEF Stands
<1>4. PICK f \in [0..n - i -> 0..bytes] : SumsBehind(s, i, f)
  BY DEF Stands
<1>5. f[0] = 0 /\ \A j \in 1..n - i : f[j] = f[j - 1] + s[i + j].bytes
  BY <1>4 DEF SumsBehind
<1> DEFINE g == [j \in 0..n + 1 - i |-> IF j = n + 1 - i THEN f[n - i] + w ELSE f[j]]
<1> HIDE DEF t, n, w
<1>6. f[n - i] \in 0..bytes
  BY <1>1
<1>7. ASSUME NEW j \in 0..n + 1 - i PROVE g[j] \in 0..(bytes + w)
  <2>1. CASE j = n + 1 - i
    BY <1>1, <1>6, <2>1
  <2>2. CASE j # n + 1 - i
    <3>1. j \in 0..n - i
      BY <1>1, <2>2
    <3>2. g[j] = f[j] /\ f[j] \in 0..bytes
      BY <2>2, <3>1
    <3> QED
      BY <1>1, <3>2
  <2> QED
    BY <2>1, <2>2
<1>8. g \in [0..Len(t) - i -> 0..(bytes + w)]
  <2>1. Len(t) - i = n + 1 - i
    BY <1>1, <1>2
  <2>2. g \in [0..n + 1 - i -> 0..(bytes + w)]
    BY <1>7
  <2> QED
    BY <2>1, <2>2
<1>9. ASSUME NEW j \in 1..n + 1 - i PROVE g[j] = g[j - 1] + t[i + j].bytes
  <2>1. j \in 0..n + 1 - i /\ j - 1 \in 0..n + 1 - i /\ j - 1 \in 0..n - i /\ j - 1 # n + 1 - i
    BY <1>1
  <2>2. g[j - 1] = f[j - 1]
    BY <2>1
  <2>3. CASE j = n + 1 - i
    <3>1. j - 1 = n - i /\ i + j = n + 1
      BY <1>1, <2>3
    <3>2. g[j] = f[n - i] + w /\ t[i + j] = new
      BY <1>2, <2>1, <2>3, <3>1
    <3> QED
      BY <2>2, <3>1, <3>2 DEF w
  <2>4. CASE j # n + 1 - i
    <3>1. j \in 1..n - i /\ i + j \in 1..n
      BY <1>1, <2>4
    <3>2. g[j] = f[j] /\ t[i + j] = s[i + j]
      BY <1>2, <2>1, <2>4, <3>1
    <3> QED
      BY <1>5, <2>2, <3>1, <3>2
  <2> QED
    BY <2>3, <2>4
<1>10. g[0] = 0
  BY <1>1, <1>5
<1> HIDE DEF g
<1>11. SumsBehind(t, i, g)
  <2>1. Len(t) - i = n + 1 - i
    BY <1>1, <1>2
  <2> QED
    BY <1>9, <1>10, <2>1 DEF SumsBehind
<1>12. ASSUME NEW j \in i..Len(t) PROVE t[j].createdAt >= e.createdAt
  <2>1. CASE j = n + 1
    BY <1>2, <2>1
  <2>2. CASE j # n + 1
    <3>1. j \in i..n /\ j \in 1..n
      BY <1>1, <1>2, <2>2
    <3> QED
      BY <1>2, <1>3, <3>1
  <2> QED
    BY <2>1, <2>2
<1>13. i \in 1..Len(t) /\ t[i] = e /\ Len(t) - i <= count + 1
  BY <1>1, <1>2, <1>3
<1>14. Stands(t, i, e, count + 1, bytes + w)
  BY <1>8, <1>11, <1>12, <1>13 DEF Stands
<1> QED
  BY <1>13, <1>14 DEF t, w

\* Nothing stands behind an entry just stored.
LEMMA LastStands ==
    ASSUME NEW s \in Seq(LogEntry), NEW e \in LogEntry
    PROVE  /\ Len(s) + 1 \in 1..Len(Append(s, e))
           /\ Stands(Append(s, e), Len(s) + 1, e, 0, 0)
<1> DEFINE t == Append(s, e)
           n == Len(s)
           f == [j \in 0..0 |-> 0]
<1>1. n \in Nat /\ e.createdAt \in Nat
  BY LenProperties, EntryFields
<1>2. /\ t \in Seq(LogEntry) /\ Len(t) = n + 1 /\ t[n + 1] = e
  BY AppendProperties
<1> HIDE DEF t, n
<1>3. n + 1 \in 1..Len(t) /\ Len(t) - (n + 1) = 0
  BY <1>1, <1>2
<1>4. f \in [0..Len(t) - (n + 1) -> 0..0] /\ SumsBehind(t, n + 1, f)
  BY <1>3 DEF SumsBehind
<1>5. ASSUME NEW j \in n + 1..Len(t) PROVE t[j].createdAt >= e.createdAt
  <2>1. j = n + 1
    BY <1>1, <1>2
  <2>2. e.createdAt >= e.createdAt
    BY <1>1
  <2> QED
    BY <1>2, <2>1, <2>2
<1> HIDE DEF f
<1>6. Stands(t, n + 1, e, 0, 0)
  <2>1. Len(t) - (n + 1) <= 0
    BY <1>3
  <2> QED
    BY <1>2, <1>3, <1>4, <1>5, <2>1 DEF Stands
<1> QED
  BY <1>3, <1>6 DEF t, n

\* Put keeps an entry there is room for.
LEMMA RecentHolds ==
    ASSUME NEW s \in Seq(LogEntry), NEW i \in 1..Len(s), NEW e \in LogEntry,
           NEW count \in Nat, NEW bytes \in Nat, Stands(s, i, e, count, bytes),
           count < MaxEntries, e.bytes + bytes <= MaxBytes
    PROVE  Holding(Storage!Recent(s), e, count, bytes)
<1>1. PICK m \in 1..Len(s) + 1 :
        /\ Storage!Recent(s) = From(s, m)
        /\ \A k \in 1..Len(s) + 1 : Storage!Fits(From(s, k)) => m <= k
  BY RecentIsSuffix
<1>2. m <= i
  BY StandingFits, <1>1, LenProperties
<1>3. m \in 1..i
  BY <1>2, LenProperties
<1> QED
  BY <1>1, <1>3, SuffixHolds

\* Expire keeps an entry young enough.
LEMMA YoungHolds ==
    ASSUME NEW s \in Seq(LogEntry), NEW i \in 1..Len(s), NEW e \in LogEntry,
           NEW count \in Nat, NEW bytes \in Nat, Stands(s, i, e, count, bytes),
           NEW cutoff \in Nat, cutoff <= e.createdAt
    PROVE  Holding(Storage!Young(s, cutoff), e, count, bytes)
<1>1. PICK m \in 1..Len(s) + 1 :
        /\ Storage!Young(s, cutoff) = From(s, m)
        /\ \A k \in 1..Len(s) + 1 :
             (\A j \in k..Len(s) : s[j].createdAt >= cutoff) => m <= k
  BY YoungIsSuffix
<1>2. ASSUME NEW j \in i..Len(s) PROVE s[j].createdAt >= cutoff
  <2>1. j \in 1..Len(s) /\ s[j].createdAt >= e.createdAt
    BY LenProperties DEF Stands
  <2>2. s[j].createdAt \in Nat /\ e.createdAt \in Nat
    BY <2>1, ElementFields, EntryFields
  <2> QED
    BY <2>1, <2>2
<1>3. m <= i
  <2>1. i \in 1..Len(s) + 1
    BY LenProperties
  <2> QED
    BY <1>1, <1>2, <2>1
<1>4. m \in 1..i
  BY <1>3, LenProperties
<1> QED
  BY <1>1, <1>4, SuffixHolds


-----------------------------------------------------------------------------
(* Steps of the service *)

Room ==
    newer.count < MaxEntries /\ size + newer.bytes <= MaxBytes /\ now - storedAt <= Retention

LEMMA RoomLeft ==
    ASSUME ServiceTypeOK, storedAt # None
    PROVE  /\ ~Displaced <=> Room
           /\ MyEntry \in LogEntry /\ size \in Nat /\ storedAt \in Nat /\ storedAt <= now
           /\ newer.count \in Nat /\ newer.bytes \in Nat /\ now \in Nat
<1>1. /\ storedAt \in 0..now /\ now \in 0..MaxTime /\ MaxTime \in Nat /\ MaxOthers \in Nat
      /\ newer.count \in Nat /\ newer.bytes \in Nat /\ size \in Sizes
      /\ MaxEntries \in Nat /\ MaxBytes \in Nat /\ Retention \in Nat
  BY StorageAssumption DEF ServiceTypeOK
<1>2. size \in Nat
  BY <1>1, StorageAssumption, Zenon
<1>3. MyEntry \in LogEntry
  <2>1. Me \in 0..MaxOthers /\ storedAt \in 0..MaxTime
    BY <1>1 DEF Me
  <2> QED
    BY <1>1, <2>1 DEF MyEntry, LogEntry
<1>4. ~Displaced <=> Room
  BY <1>1, <1>2 DEF Displaced, Room
<1> QED
  BY <1>1, <1>2, <1>3, <1>4

\* Steps that leave the storage and the history alone.
LEMMA QuietKeeps ==
    ASSUME SInv, UNCHANGED <<storage, others, size, history>>,
           storedAt # None => at' \in {"unwind", "over"}
    PROVE  SInv'
<1>1. /\ log' = log /\ now' = now /\ others' = others /\ size' = size
      /\ storedAt' = storedAt /\ newer' = newer
  BY DEF storage, history
<1>2. ServiceTypeOK'
  BY <1>1 DEF SInv, ServiceTypeOK
<1>3. StoredOnce' /\ KnownIds'
  BY <1>1 DEF SInv, StoredOnce, KnownIds
<1>4. Kept'
  BY <1>1, Zenon DEF SInv, Kept, Displaced, MyEntry
<1> QED
  BY <1>2, <1>3, <1>4 DEF SInv

\* Storing under an id the log does not have.
LEMMA PutAdds ==
    ASSUME SInv, NEW id \in 0..MaxOthers, NEW bytes \in Sizes, Storage!Put(id, bytes),
           \A i \in DOMAIN log : log[i].id # id,
           NEW e, e = [id |-> id, bytes |-> bytes, createdAt |-> now]
    PROVE  /\ e \in LogEntry
           /\ Append(log, e) \in Seq(LogEntry) /\ log' = Storage!Recent(Append(log, e))
           /\ log' \in Seq(LogEntry) /\ now' = now
           /\ \A i \in DOMAIN log' : log'[i] = e \/ \E j \in DOMAIN log : log'[i] = log[j]
<1> DEFINE s == Append(log, e)
<1>1. log \in Seq(LogEntry) /\ now \in 0..MaxTime
  BY DEF SInv, ServiceTypeOK
<1>2. e \in LogEntry
  BY <1>1 DEF LogEntry
<1>3. Storage!Without(log, id) = log
  BY Zenon DEF Storage!Without
<1>4. log' = Storage!Recent(s) /\ now' = now
  BY <1>3 DEF Storage!Put
<1>5. /\ s \in Seq(LogEntry) /\ Len(s) = Len(log) + 1
      /\ \A i \in 1..Len(log) : s[i] = log[i]
      /\ s[Len(log) + 1] = e
  BY <1>1, <1>2, AppendProperties
<1> HIDE DEF s
<1>6. PICK m \in 1..Len(s) + 1 : log' = From(s, m)
  BY <1>4, <1>5, RecentIsSuffix
<1>7. log' \in Seq(LogEntry)
  BY <1>5, <1>6, FromFacts
<1>8. ASSUME NEW i \in DOMAIN log'
      PROVE  log'[i] = e \/ \E j \in DOMAIN log : log'[i] = log[j]
  <2>1. PICK j \in DOMAIN s : log'[i] = s[j]
    BY <1>5, <1>6, SuffixElements
  <2>2. j \in 1..Len(log) + 1 /\ DOMAIN log = 1..Len(log) /\ Len(log) \in Nat
    BY <1>1, <1>5, LenProperties
  <2>3. CASE j = Len(log) + 1
    BY <1>5, <2>1, <2>3
  <2>4. CASE j # Len(log) + 1
    <3>1. j \in 1..Len(log)
      BY <2>2, <2>4
    <3> QED
      BY <1>5, <2>1, <2>2, <3>1
  <2> QED
    BY <2>3, <2>4
<1> QED
  BY <1>2, <1>4, <1>5, <1>7, <1>8 DEF s

\* The request's own metadata goes to the back of the log.
LEMMA StoreKeeps ==
    ASSUME SInv, Save, Storage!Put(Me, size), storedAt' = now,
           UNCHANGED <<others, size, newer>>
    PROVE  SInv'
<1> DEFINE e == [id |-> Me, bytes |-> size, createdAt |-> now]
<1>1. /\ others \in 0..MaxOthers /\ now \in 0..MaxTime /\ size \in Sizes
      /\ MaxTime \in Nat /\ MaxOthers \in Nat /\ now \in Nat /\ None \notin Nat
  BY StorageAssumption DEF SInv, ServiceTypeOK
<1>2. storedAt = None /\ at' = "unwind"
  BY DEF Save, SInv, StoredOnce
<1>3. newer.count = 0 /\ newer.bytes = 0 /\ newer' = newer /\ others' = others /\ size' = size
  BY <1>2 DEF SInv, StoredOnce
<1>4. \A i \in DOMAIN log : log[i].id # Me
  BY <1>2 DEF SInv, KnownIds
<1>5. Me \in 0..MaxOthers
  BY <1>1 DEF Me
<1>6. /\ e \in LogEntry
      /\ Append(log, e) \in Seq(LogEntry) /\ log' = Storage!Recent(Append(log, e))
      /\ log' \in Seq(LogEntry) /\ now' = now
      /\ \A i \in DOMAIN log' : log'[i] = e \/ \E j \in DOMAIN log : log'[i] = log[j]
  BY <1>1, <1>4, <1>5, PutAdds
<1>7. storedAt' \in 0..now' /\ storedAt' # None
  BY <1>1, <1>6
<1>8. ServiceTypeOK'
  BY <1>1, <1>3, <1>6, <1>7 DEF ServiceTypeOK, SInv
<1>9. StoredOnce'
  BY <1>2, <1>7 DEF StoredOnce
<1>10. KnownIds'
  <2> SUFFICES ASSUME NEW i \in DOMAIN log' PROVE log'[i].id <= others
    BY <1>3, <1>7 DEF KnownIds
  <2>1. e.id <= others
    BY <1>1 DEF Me
  <2>2. \A j \in DOMAIN log : log[j].id <= others
    BY DEF SInv, KnownIds
  <2> HIDE DEF e
  <2> QED
    BY <1>6, <2>1, <2>2
<1>11. MyEntry' = e
  BY <1>3 DEF MyEntry
<1>12. ASSUME ~Displaced'
       PROVE  Holding(log', MyEntry', newer'.count, newer'.bytes)
  <2>1. size + 0 <= MaxBytes /\ 0 < MaxEntries
    <3>1. size \in Nat /\ MaxBytes \in Nat /\ MaxEntries \in Nat \ {0}
      BY <1>1, StorageAssumption, Zenon
    <3>2. ~(size + 0 > MaxBytes)
      BY <1>3, <1>7, <1>12 DEF Displaced
    <3> QED
      BY <3>1, <3>2
  <2>2. e.bytes = size
    OBVIOUS
  <2> HIDE DEF e
  <2>3. log \in Seq(LogEntry)
    BY DEF SInv, ServiceTypeOK
  <2>4. /\ Len(log) + 1 \in 1..Len(Append(log, e))
        /\ Stands(Append(log, e), Len(log) + 1, e, 0, 0)
    BY <1>6, <2>3, LastStands
  <2>5. Holding(Storage!Recent(Append(log, e)), e, 0, 0)
    BY <1>6, <2>1, <2>2, <2>4, RecentHolds
  <2> QED
    BY <1>3, <1>6, <1>11, <2>5
<1>13. Kept'
  BY <1>12 DEF Kept
<1> QED
  BY <1>8, <1>9, <1>10, <1>13 DEF SInv

LEMMA SaveMetadataKeeps == SInv /\ SaveMetadata => SInv'
<1> SUFFICES ASSUME SInv, SaveMetadata PROVE SInv'
  OBVIOUS
<1>1. CASE lost'
  <2>1. UNCHANGED <<storage, others, size, history>> /\ at' = "unwind"
    BY <1>1 DEF SaveMetadata, Save, storage, history
  <2> QED
    BY <2>1, QuietKeeps
<1>2. CASE ~lost'
  BY <1>2, StoreKeeps DEF SaveMetadata
<1> QED
  BY <1>1, <1>2

\* Another request stands behind it, or before it.
LEMMA OtherRequestKeeps ==
    ASSUME SInv, NEW skipped \in BOOLEAN, NEW asked \in BOOLEAN, NEW bytes \in Sizes,
           OtherRequest(skipped, asked, bytes)
    PROVE  SInv'
<1> DEFINE id == others + 1
           e == [id |-> id, bytes |-> bytes, createdAt |-> now]
<1>1. /\ others \in Nat /\ others < MaxOthers /\ MaxOthers \in Nat /\ now \in 0..MaxTime
      /\ MaxTime \in Nat /\ now \in Nat /\ others' = id /\ size' = size /\ storedAt' = storedAt
      /\ at' = at /\ Storage!Put(id, bytes) /\ ~skipped /\ asked
  <2>1. ~skipped /\ asked
    BY Zenon DEF OtherRequest, ShouldCapture
  <2>2. at' = at
    BY DEF OtherRequest, vars
  <2> QED
    BY <2>1, <2>2, StorageAssumption DEF OtherRequest, SInv, ServiceTypeOK
<1>2. log \in Seq(LogEntry) /\ newer.count \in Nat /\ newer.bytes \in Nat /\ bytes \in Nat
  <2>1. bytes \in Nat
    BY StorageAssumption, Zenon
  <2> QED
    BY <2>1 DEF SInv, ServiceTypeOK
<1>3. newer' = IF storedAt # None
               THEN [count |-> newer.count + 1, bytes |-> newer.bytes + bytes] ELSE newer
  BY <1>1, Zenon DEF OtherRequest
<1>4. \A i \in DOMAIN log : log[i].id # id
  <2> SUFFICES ASSUME NEW i \in DOMAIN log PROVE log[i].id # id
    OBVIOUS
  <2>1. log[i].id \in Nat /\ log[i].id <= others
    BY <1>2, ElementFields, LenProperties DEF SInv, KnownIds
  <2> QED
    BY <1>1, <2>1
<1>5. id \in 0..MaxOthers
  BY <1>1
<1>6. /\ e \in LogEntry
      /\ Append(log, e) \in Seq(LogEntry) /\ log' = Storage!Recent(Append(log, e))
      /\ log' \in Seq(LogEntry) /\ now' = now
      /\ \A i \in DOMAIN log' : log'[i] = e \/ \E j \in DOMAIN log : log'[i] = log[j]
  BY <1>1, <1>4, <1>5, PutAdds
<1>7. ServiceTypeOK'
  <2>1. newer' \in [count : Nat, bytes : Nat]
    BY <1>2, <1>3 DEF SInv, ServiceTypeOK
  <2> QED
    BY <1>1, <1>5, <1>6, <2>1 DEF ServiceTypeOK, SInv
<1>8. StoredOnce'
  BY <1>1, <1>3 DEF StoredOnce, SInv
<1>9. KnownIds'
  <2> SUFFICES ASSUME NEW i \in DOMAIN log'
               PROVE  log'[i].id <= id /\ (storedAt = None => log'[i].id # Me)
    BY <1>1 DEF KnownIds
  <2>1. e.id <= id /\ e.id # Me
    BY <1>1 DEF Me
  <2>2. \A j \in DOMAIN log : log[j].id <= id /\ (storedAt = None => log[j].id # Me)
    <3> SUFFICES ASSUME NEW j \in DOMAIN log
                 PROVE  log[j].id <= id /\ (storedAt = None => log[j].id # Me)
      OBVIOUS
    <3>1. log[j].id <= others /\ (storedAt = None => log[j].id # Me)
      BY DEF SInv, KnownIds
    <3>2. log[j].id \in Nat
      BY <1>2, ElementFields, LenProperties
    <3> QED
      BY <1>1, <3>1, <3>2
  <2> HIDE DEF e, id
  <2> QED
    BY <1>6, <2>1, <2>2
<1>10. ASSUME storedAt' # None, ~Displaced'
       PROVE  Holding(log', MyEntry', newer'.count, newer'.bytes)
  <2>1. storedAt # None /\ MyEntry' = MyEntry
    BY <1>1, <1>10 DEF MyEntry
  <2>2. newer'.count = newer.count + 1 /\ newer'.bytes = newer.bytes + bytes
    BY <1>3, <2>1
  <2>3. /\ MyEntry \in LogEntry /\ size \in Nat /\ storedAt \in Nat /\ storedAt <= now
        /\ ~Displaced <=> Room
    BY <2>1, RoomLeft DEF SInv
  <2>4. /\ newer.count + 1 < MaxEntries
        /\ size + (newer.bytes + bytes) <= MaxBytes
        /\ now - storedAt <= Retention
    <3>1. /\ ~(newer.count + 1 >= MaxEntries)
          /\ ~(size + (newer.bytes + bytes) > MaxBytes)
          /\ ~(now - storedAt > Retention)
      BY <1>1, <1>6, <1>10, <2>2 DEF Displaced
    <3>2. MaxEntries \in Nat /\ MaxBytes \in Nat /\ Retention \in Nat
      BY StorageAssumption
    <3> QED
      BY <1>1, <1>2, <2>3, <3>1, <3>2
  <2>5. Room
    <3>1. MaxEntries \in Nat /\ MaxBytes \in Nat
      BY StorageAssumption
    <3> QED
      BY <1>2, <2>3, <2>4, <3>1 DEF Room
  <2>6. PICK i \in 1..Len(log) : Stands(log, i, MyEntry, newer.count, newer.bytes)
    BY <2>1, <2>3, <2>5 DEF SInv, Kept, Holding
  <2>7. e.createdAt >= MyEntry.createdAt /\ e.bytes = bytes /\ MyEntry.bytes = size
    BY <1>1, <2>3 DEF MyEntry
  <2> HIDE DEF e
  <2>8. /\ i \in 1..Len(Append(log, e))
        /\ Stands(Append(log, e), i, MyEntry, newer.count + 1, newer.bytes + bytes)
    BY <1>2, <1>6, <2>6, <2>7, AppendStands
  <2>9. newer.count + 1 \in Nat /\ newer.bytes + bytes \in Nat
    BY <1>2
  <2>10. Holding(Storage!Recent(Append(log, e)), MyEntry, newer.count + 1, newer.bytes + bytes)
    BY <1>6, <2>3, <2>4, <2>7, <2>8, <2>9, RecentHolds
  <2> QED
    BY <1>6, <2>1, <2>2, <2>10
<1>11. Kept'
  BY <1>10 DEF Kept
<1> QED
  BY <1>7, <1>8, <1>9, <1>11 DEF SInv

LEMMA CleanupKeeps == SInv /\ Cleanup => SInv'
<1> SUFFICES ASSUME SInv, Cleanup PROVE SInv'
  OBVIOUS
<1>1. PICK cutoff \in 0..(now - Retention) : Storage!Expire(cutoff)
  BY DEF Cleanup
<1>2. /\ log' = Storage!Young(log, cutoff) /\ now' = now /\ others' = others /\ size' = size
      /\ storedAt' = storedAt /\ newer' = newer /\ at' = at
  BY <1>1 DEF Cleanup, Storage!Expire, vars, history
<1>3. log \in Seq(LogEntry) /\ now \in Nat /\ cutoff \in Nat /\ Retention \in Nat
  BY StorageAssumption DEF SInv, ServiceTypeOK
<1>4. PICK m \in 1..Len(log) + 1 : log' = From(log, m)
  BY <1>2, <1>3, YoungIsSuffix
<1>5. log' \in Seq(LogEntry)
  BY <1>3, <1>4, FromFacts
<1>6. ServiceTypeOK' /\ StoredOnce'
  BY <1>2, <1>5 DEF SInv, ServiceTypeOK, StoredOnce
<1>7. KnownIds'
  <2> SUFFICES ASSUME NEW i \in DOMAIN log'
               PROVE  log'[i].id <= others /\ (storedAt = None => log'[i].id # Me)
    BY <1>2 DEF KnownIds
  <2>1. PICK j \in DOMAIN log : log'[i] = log[j]
    BY <1>3, <1>4, SuffixElements
  <2> QED
    BY <2>1 DEF SInv, KnownIds
<1>8. ASSUME storedAt' # None, ~Displaced'
      PROVE  Holding(log', MyEntry', newer'.count, newer'.bytes)
  <2>1. storedAt # None /\ ~Displaced /\ MyEntry' = MyEntry
    BY <1>2, <1>8 DEF Displaced, MyEntry
  <2>2. /\ MyEntry \in LogEntry /\ storedAt \in Nat
        /\ newer.count \in Nat /\ newer.bytes \in Nat /\ Room
    BY <2>1, RoomLeft DEF SInv
  <2>3. cutoff <= MyEntry.createdAt
    BY <1>3, <2>2 DEF Room, MyEntry
  <2>4. PICK i \in 1..Len(log) : Stands(log, i, MyEntry, newer.count, newer.bytes)
    BY <2>1 DEF SInv, Kept, Holding
  <2>5. Holding(Storage!Young(log, cutoff), MyEntry, newer.count, newer.bytes)
    BY <1>3, <2>2, <2>3, <2>4, YoungHolds
  <2> QED
    BY <1>2, <2>1, <2>5
<1>9. Kept'
  BY <1>8 DEF Kept
<1> QED
  BY <1>6, <1>7, <1>9 DEF SInv

LEMMA TimePassesKeeps == SInv /\ TimePasses => SInv'
<1> SUFFICES ASSUME SInv, TimePasses PROVE SInv'
  OBVIOUS
<1>1. /\ log' = log /\ now < MaxTime /\ now' = now + 1 /\ others' = others /\ size' = size
      /\ storedAt' = storedAt /\ newer' = newer /\ at' = at
  BY DEF TimePasses, Storage!Tick, vars, history
<1>2. now \in Nat /\ MaxTime \in Nat /\ now' \in 0..MaxTime
  BY <1>1, StorageAssumption DEF SInv, ServiceTypeOK
<1>3. storedAt \in {None} \cup 0..now'
  BY <1>1, <1>2 DEF SInv, ServiceTypeOK
<1>4. ServiceTypeOK' /\ StoredOnce' /\ KnownIds'
  BY <1>1, <1>2, <1>3 DEF SInv, ServiceTypeOK, StoredOnce, KnownIds
<1>5. ASSUME storedAt' # None, ~Displaced'
      PROVE  Holding(log', MyEntry', newer'.count, newer'.bytes)
  <2>1. storedAt # None /\ MyEntry' = MyEntry
    BY <1>1, <1>5 DEF MyEntry
  <2>2. storedAt \in Nat /\ (~Displaced <=> Room)
    BY <2>1, RoomLeft DEF SInv
  <2>3. Room
    <3>1. /\ ~(newer'.count >= MaxEntries) /\ ~(size' + newer'.bytes > MaxBytes)
          /\ ~(now' - storedAt' > Retention)
      <4>1. ~Displaced' /\ storedAt' # None
        BY <1>5
      <4> QED
        BY <4>1 DEF Displaced
    <3>2. MaxEntries \in Nat /\ MaxBytes \in Nat /\ Retention \in Nat
      BY StorageAssumption
    <3>3. size \in Nat /\ newer.count \in Nat /\ newer.bytes \in Nat
      BY <2>1, RoomLeft DEF SInv
    <3>4. ~(newer.count >= MaxEntries) /\ ~(size + newer.bytes > MaxBytes)
      BY <1>1, <3>1
    <3>5. now' - storedAt <= Retention /\ now' = now + 1
      BY <1>1, <1>2, <2>2, <3>1, <3>2
    <3> QED
      BY <1>2, <2>2, <3>2, <3>3, <3>4, <3>5 DEF Room
  <2> QED
    BY <1>1, <2>1, <2>2, <2>3 DEF SInv, Kept
<1>6. Kept'
  BY <1>5 DEF Kept
<1> QED
  BY <1>4, <1>6 DEF SInv

-----------------------------------------------------------------------------
\* The service is the request's life with more around it.
LEMMA ServiceStepsAreSteps == [ServiceNext]_serviceVars => [Next]_vars
BY DEF ServiceNext, Handle, Respond, Finish, SaveMetadata, OtherRequest, Cleanup, TimePasses,
       ContextReused, Next, serviceVars

LEMMA ServiceInitHolds == ServiceInit => SInv
<1> SUFFICES ASSUME ServiceInit PROVE SInv
  OBVIOUS
<1>1. /\ log = <<>> /\ now = 0 /\ others = 0 /\ size \in Sizes /\ storedAt = None
      /\ newer = [count |-> 0, bytes |-> 0]
  BY DEF ServiceInit, Storage!Init
<1>2. ServiceTypeOK
  BY <1>1, StorageAssumption, EmptySeq DEF ServiceTypeOK
<1>3. StoredOnce /\ KnownIds /\ Kept
  BY <1>1 DEF StoredOnce, KnownIds, Kept
<1> QED
  BY <1>2, <1>3 DEF SInv

LEMMA ServiceNextKeeps == SInv /\ [ServiceNext]_serviceVars => SInv'
<1> SUFFICES ASSUME SInv, [ServiceNext]_serviceVars PROVE SInv'
  OBVIOUS
<1>1. storedAt # None => at \in {"unwind", "over"}
  BY DEF SInv, StoredOnce
<1>2. CASE Handle
  <2>1. UNCHANGED <<storage, others, size, history>>
    BY <1>2 DEF Handle
  <2>2. at \in {"new", "handler"}
    BY <1>2 DEF Handle, Arrive, SetStatus, Write, Panic
  <2> QED
    BY <1>1, <2>1, <2>2, QuietKeeps
<1>3. CASE Respond
  <2>1. UNCHANGED <<storage, others, size, history>> /\ at = "handler"
    BY <1>3 DEF Respond, Return
  <2> QED
    BY <1>1, <2>1, QuietKeeps
<1>4. CASE Finish
  <2>1. UNCHANGED <<storage, others, size, history>> /\ (at = "complete" \/ at' = "over")
    BY <1>4 DEF Finish, Complete, Unwind
  <2> QED
    BY <1>1, <2>1, QuietKeeps
<1>5. CASE ContextReused \/ UNCHANGED serviceVars
  <2>1. UNCHANGED <<storage, others, size, history>> /\ at' = at
    BY <1>5 DEF ContextReused, serviceVars, vars
  <2> QED
    BY <1>1, <2>1, QuietKeeps
<1> QED
  BY <1>2, <1>3, <1>4, <1>5, SaveMetadataKeeps, OtherRequestKeeps, CleanupKeeps, TimePassesKeeps
     DEF ServiceNext

\* The invariant of the service: the request's entry and what stands behind it.
THEOREM ServiceInvariance == ServiceSpec => []SInv
BY ServiceInitHolds, ServiceNextKeeps, PTL DEF ServiceSpec

\* The request of the service lives as RequestLifecycle says, whatever the
\* storage, the other requests and the cleanups do meanwhile.
THEOREM ServiceRefines == ServiceSpec => Spec
<1>1. ServiceInit => Init
  BY DEF ServiceInit
<1> QED
  BY <1>1, ServiceStepsAreSteps, PTL DEF ServiceSpec, Spec

\* So its stored status agrees with the one sent there as well.
THEOREM ServiceStatusCorrect == ServiceSpec => []StatusAgrees
BY ServiceRefines, StatusCorrect, PTL

\* Metadata that was stored is found under its id, in the path or in the header,
\* until so much was stored after it that the limits leave no room for it, or its
\* retention time is over (the middlewares' metadata route over Store, Cleanup
\* and Get of storage_memory.go).
THEOREM Retrievable == ServiceSpec => []StaysRetrievable
<1>1. SInv => StaysRetrievable
  <2> SUFFICES ASSUME SInv, storedAt # None, ~Displaced
               PROVE  Answer(None, Me) = 200 /\ Answer(Me, None) = 200
    BY DEF StaysRetrievable
  <2>1. PICK i \in 1..Len(log) : Stands(log, i, MyEntry, newer.count, newer.bytes)
    BY DEF SInv, Kept, Holding
  <2>2. i \in DOMAIN log /\ log[i].id = Me
    BY <2>1, LenProperties DEF Stands, MyEntry, SInv, ServiceTypeOK
  <2>3. Holds(Me)
    BY <2>2 DEF Holds
  <2>4. Me # None
    BY StorageAssumption DEF Me
  <2> QED
    BY <2>3, <2>4 DEF Answer, ResolveMetadataID
<1> QED
  BY <1>1, ServiceInvariance, PTL
=============================================================================
