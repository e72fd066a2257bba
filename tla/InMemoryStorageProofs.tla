------------------------ MODULE InMemoryStorageProofs ------------------------
(***************************************************************************)
(* The invariants of InMemoryStorage for any goroutines, ids, sizes and    *)
(* limits, and that they hold with a CleanupLoop beside the requests.      *)
(*                                                                         *)
(* Consistent says what ties the list, the index and the total together.   *)
(* Two lemmas show that the two mutations the code is made of, removing an *)
(* element and pushing one with a fresh id, keep it; the inductive         *)
(* invariant IInv adds the lock discipline and where the limits hold.      *)
(***************************************************************************)
EXTENDS CleanupLoop, Numbers, SequenceTheorems

Indexed(list, index) ==
    /\ \A i \in DOMAIN list : index[list[i].id] = list[i]
    /\ \A id \in Ids : index[id] # NoEntry =>
        \E i \in DOMAIN list : list[i] = index[id] /\ list[i].id = id
    /\ \A i, j \in DOMAIN list : list[i].id = list[j].id => i = j

Sorted(list) ==
    \A i, j \in DOMAIN list : i < j => list[i].createdAt <= list[j].createdAt

\* Running sums never decrease and end in the total.
Sums(list, total, f) ==
    /\ f \in [0..Len(list) -> 0..total]
    /\ RunningSums(list, f)
    /\ f[Len(list)] = total
    /\ \A i, j \in 0..Len(list) : i <= j => f[i] <= f[j]

Consistent(list, index, total) ==
    /\ list \in Seq(Entry)
    /\ index \in [Ids -> Entry \cup {NoEntry}]
    /\ total \in Nat
    /\ Indexed(list, index)
    /\ Sorted(list)
    /\ \E f \in [0..Len(list) -> 0..total] : Sums(list, total, f)

LockDiscipline == \A p \in Procs : call[p].op \in {"evict", "sweep"} <=> mu = p

\* Only a goroutine in the middle of a Store sees the limits exceeded.
LimitsOutsideStore == (\A p \in Procs : mu = p => call[p].op # "evict") => ~OverLimit

\* What a sweep has passed is young enough.
SweptIsYoung ==
    \A p \in Procs : call[p].op = "sweep" =>
        \A i \in DOMAIN entries : i < call[p].at => entries[i].createdAt >= call[p].cutoff

IInv ==
    /\ TypeOK
    /\ Consistent(entries, byID, totalBytes)
    /\ \A i \in DOMAIN entries : entries[i].createdAt <= now
    /\ LockDiscipline
    /\ LimitsOutsideStore
    /\ SweptIsYoung

-----------------------------------------------------------------------------
(* Lists *)

LEMMA RemoveAtFacts ==
    ASSUME NEW S, NEW s \in Seq(S), NEW i \in 1..Len(s)
    PROVE  /\ RemoveAt(s, i) \in Seq(S)
           /\ Len(RemoveAt(s, i)) = Len(s) - 1
           /\ DOMAIN RemoveAt(s, i) = 1..Len(s) - 1
           /\ \A j \in 1..Len(s) - 1 : RemoveAt(s, i)[j] = IF j < i THEN s[j] ELSE s[j + 1]
<1> DEFINE before == SubSeq(s, 1, i - 1)
           after == SubSeq(s, i + 1, Len(s))
<1>1. Len(s) \in Nat /\ \A j \in 1..Len(s) : s[j] \in S
  BY ElementOfSeq, LenProperties
<1>2. /\ before \in Seq(S) /\ Len(before) = i - 1
      /\ \A j \in 1..i - 1 : before[j] = s[j]
  <2>1. \A j \in 1..i - 1 : s[j] \in S
    BY <1>1
  <2>2. /\ before \in Seq(S)
        /\ Len(before) = IF 1 <= i - 1 THEN (i - 1) - 1 + 1 ELSE 0
        /\ \A j \in 1..(i - 1) - 1 + 1 : before[j] = s[1 + j - 1]
    BY <2>1, SubSeqProperties, 1 \in Int, i - 1 \in Int
  <2> QED
    BY <2>2
<1>3. /\ after \in Seq(S) /\ Len(after) = Len(s) - i
      /\ \A j \in 1..Len(s) - i : after[j] = s[i + j]
  <2>1. \A j \in i + 1..Len(s) : s[j] \in S
    BY <1>1
  <2>2. /\ after \in Seq(S)
        /\ Len(after) = IF i + 1 <= Len(s) THEN Len(s) - (i + 1) + 1 ELSE 0
        /\ \A j \in 1..Len(s) - (i + 1) + 1 : after[j] = s[(i + 1) + j - 1]
    BY <1>1, <2>1, SubSeqProperties, i + 1 \in Int, Len(s) \in Int
  <2> QED
    BY <1>1, <2>2
<1> HIDE DEF before, after
<1> DEFINE both == before \o after
<1>4. /\ both \in Seq(S)
      /\ Len(both) = Len(before) + Len(after)
      /\ \A j \in 1..Len(before) + Len(after) :
            both[j] = IF j <= Len(before) THEN before[j] ELSE after[j - Len(before)]
  BY <1>2, <1>3, ConcatProperties
<1>5. RemoveAt(s, i) = both
  BY DEF RemoveAt, before, after
<1> HIDE DEF both
<1>6. Len(RemoveAt(s, i)) = Len(s) - 1
  <2>1. Len(before) = i - 1 /\ Len(after) = Len(s) - i
        /\ Len(both) = Len(before) + Len(after)
    BY <1>2, <1>3, <1>4
  <2> QED
    BY <2>1, <1>1, <1>5
<1>7. ASSUME NEW j \in 1..Len(s) - 1
      PROVE  RemoveAt(s, i)[j] = IF j < i THEN s[j] ELSE s[j + 1]
  <2>0. Len(before) = i - 1 /\ Len(after) = Len(s) - i
    BY <1>2, <1>3
  <2>1. CASE j < i
    <3>1. j \in 1..i - 1 /\ j <= Len(before) /\ j \in 1..Len(before) + Len(after)
      BY <2>0, <2>1, <1>1
    <3>2. both[j] = before[j] /\ before[j] = s[j]
      BY <3>1, <1>2, <1>4
    <3> QED
      BY <2>1, <3>2, <1>5
  <2>2. CASE ~(j < i)
    <3>1. j - (i - 1) \in 1..Len(s) - i /\ i + (j - (i - 1)) = j + 1
      BY <2>2, <1>1
    <3>2. after[j - (i - 1)] = s[j + 1]
      BY <3>1, <1>3
    <3> QED
      BY <2>2, <3>2, <1>1, <1>2, <1>3, <1>4, <1>5
  <2> QED
    BY <2>1, <2>2
<1> QED
  BY <1>1, <1>4, <1>5, <1>6, <1>7, LenProperties

LEMMA EntryFields ==
    ASSUME NEW e \in Entry
    PROVE  e # NoEntry /\ e.id \in Ids /\ e.bytes \in Nat /\ e.createdAt \in Nat
<1>1. e # NoEntry
  BY NullAssumption DEF Entry
<1>2. e.id \in Ids /\ e.bytes \in Sizes /\ e.createdAt \in 0..MaxTime
  BY DEF Entry
<1>3. Sizes \subseteq Nat
  BY DataAssumption
<1>4. e.bytes \in Nat
  BY <1>2, <1>3, Zenon
<1>5. e.createdAt \in Nat
  BY <1>2, TimeAssumption
<1> QED
  BY <1>1, <1>2, <1>4, <1>5

LEMMA ElementFields ==
    ASSUME NEW list \in Seq(Entry), NEW i \in DOMAIN list
    PROVE  /\ list[i] \in Entry /\ list[i] # NoEntry
           /\ list[i].id \in Ids /\ list[i].bytes \in Nat /\ list[i].createdAt \in Nat
<1>1. list[i] \in Entry
  BY ElementOfSeq, LenProperties
<1> QED
  BY <1>1, EntryFields

\* f are the running sums of the first L of the numbers w.
Cumulates(w, L, total, f) ==
    /\ w \in [1..L -> Nat]
    /\ f \in [0..L -> Nat] /\ f[0] = 0 /\ f[L] = total
    /\ \A j \in 1..L : f[j] = f[j - 1] + w[j]
    /\ \A j, k \in 0..L : j <= k => f[j] <= f[k]

\* The running sums once the i-th number is gone.
SumsAfter(w, L, f, i) == [j \in 0..L - 1 |-> IF j < i THEN f[j] ELSE f[j + 1] - w[i]]

CumulatesAfter(w, L, total, i, g) ==
    /\ w[i] \in Nat /\ w[i] <= total
    /\ g \in [0..L - 1 -> 0..(total - w[i])] /\ g[0] = 0 /\ g[L - 1] = total - w[i]
    /\ \A j \in 1..L - 1 : g[j] = g[j - 1] + (IF j < i THEN w[j] ELSE w[j + 1])
    /\ \A j, k \in 0..L - 1 : j <= k => g[j] <= g[k]

\* They are known entry by entry, and each lies on one side of the number removed.
LEMMA SumsAfterFacts ==
    ASSUME NEW L \in Nat, NEW total \in Nat, NEW i \in 1..L,
           NEW w, NEW f, Cumulates(w, L, total, f), NEW j \in 0..L - 1
    PROVE  /\ w[i] \in Nat /\ f[i] \in Nat /\ f[i] = f[i - 1] + w[i]
           /\ f[i - 1] \in Nat /\ f[i] <= total
           /\ f[j] \in Nat /\ f[j + 1] \in Nat /\ f[j + 1] = f[j] + w[j + 1]
           /\ w[j + 1] \in Nat
           /\ SumsAfter(w, L, f, i)[j] = IF j < i THEN f[j] ELSE f[j + 1] - w[i]
           /\ j < i => f[j] <= f[i - 1]
           /\ ~(j < i) => f[i] <= f[j + 1] /\ f[j + 1] <= total
<1>1. /\ i - 1 \in 0..L /\ i \in 0..L /\ j \in 0..L /\ j + 1 \in 0..L /\ L \in 0..L
      /\ j + 1 \in 1..L /\ (j + 1) - 1 = j /\ i <= L
      /\ j < i => j <= i - 1
      /\ ~(j < i) => i <= j + 1 /\ j + 1 <= L
  OBVIOUS
<1>2. f[i] = f[i - 1] + w[i] /\ f[j + 1] = f[j] + w[j + 1]
  BY <1>1 DEF Cumulates
<1>3. f[i - 1] \in Nat /\ f[i] \in Nat /\ f[j] \in Nat /\ f[j + 1] \in Nat
  BY <1>1 DEF Cumulates
<1>4. f[i] <= total
  BY <1>1 DEF Cumulates
<1>5. /\ j < i => f[j] <= f[i - 1]
      /\ ~(j < i) => f[i] <= f[j + 1] /\ f[j + 1] <= total
  BY <1>1 DEF Cumulates
<1>6. SumsAfter(w, L, f, i)[j] = IF j < i THEN f[j] ELSE f[j + 1] - w[i]
  BY DEF SumsAfter
<1>7. w[i] \in Nat /\ w[j + 1] \in Nat
  BY <1>1 DEF Cumulates
<1> QED
  BY <1>2, <1>3, <1>4, <1>5, <1>6, <1>7

LEMMA SumsAfterCumulate ==
    ASSUME NEW L \in Nat, NEW total \in Nat, NEW i \in 1..L,
           NEW w, NEW f, Cumulates(w, L, total, f)
    PROVE  CumulatesAfter(w, L, total, i, SumsAfter(w, L, f, i))
<1> DEFINE g == SumsAfter(w, L, f, i)
<1> DEFINE At(j) ==
        /\ w[i] \in Nat /\ f[i] \in Nat /\ f[i] = f[i - 1] + w[i]
        /\ f[i - 1] \in Nat /\ f[i] <= total
        /\ f[j] \in Nat /\ f[j + 1] \in Nat /\ f[j + 1] = f[j] + w[j + 1]
        /\ w[j + 1] \in Nat
        /\ g[j] = IF j < i THEN f[j] ELSE f[j + 1] - w[i]
        /\ j < i => f[j] <= f[i - 1]
        /\ ~(j < i) => f[i] <= f[j + 1] /\ f[j + 1] <= total
<1>1. \A j \in 0..L - 1 : At(j)
  BY SumsAfterFacts
<1>2. 0 \in 0..L - 1 /\ L - 1 \in 0..L - 1 /\ (L - 1) + 1 = L
  OBVIOUS
<1>3. f[0] = 0 /\ f[L] = total
  BY DEF Cumulates
<1>d. g = [j \in 0..L - 1 |-> IF j < i THEN f[j] ELSE f[j + 1] - w[i]]
  BY DEF SumsAfter
<1> HIDE DEF At, g
<1>4. w[i] \in Nat /\ w[i] <= total /\ g[0] = 0
  <2>1. At(0)
    BY <1>1, <1>2
  <2> QED
    BY <2>1, <1>3 DEF At
<1>5. g \in [0..L - 1 -> 0..(total - w[i])]
  <2>1. ASSUME NEW j \in 0..L - 1 PROVE g[j] \in 0..(total - w[i])
    <3>1. At(j)
      BY <1>1
    <3>2. CASE j < i
      BY <3>1, <3>2 DEF At
    <3>3. CASE ~(j < i)
      BY <3>1, <3>3 DEF At
    <3> QED
      BY <3>2, <3>3
  <2>2. DOMAIN g = 0..L - 1 /\ g = [j \in 0..L - 1 |-> g[j]]
    BY <1>d
  <2> QED
    BY <2>1, <2>2
<1>6. g[L - 1] = total - w[i]
  <2>1. At(L - 1)
    BY <1>1, <1>2
  <2>2. CASE L - 1 < i
    <3>1. L = i
      BY <2>2
    <3> QED
      BY <1>2, <1>3, <2>1, <2>2, <3>1 DEF At
  <2>3. CASE ~(L - 1 < i)
    BY <1>2, <1>3, <2>1, <2>3 DEF At
  <2> QED
    BY <2>2, <2>3
<1>7. ASSUME NEW j \in 1..L - 1
      PROVE  g[j] = g[j - 1] + (IF j < i THEN w[j] ELSE w[j + 1])
  <2>1. j \in 0..L - 1 /\ j - 1 \in 0..L - 1 /\ (j - 1) + 1 = j
    OBVIOUS
  <2>2. At(j) /\ At(j - 1)
    BY <1>1, <2>1
  <2>3. CASE j < i
    BY <2>1, <2>2, <2>3 DEF At
  <2>4. CASE j = i
    BY <2>1, <2>2, <2>4 DEF At
  <2>5. CASE j > i
    BY <2>1, <2>2, <2>5 DEF At
  <2> QED
    BY <2>3, <2>4, <2>5
<1>8. ASSUME NEW j \in 0..L - 1, NEW k \in 0..L - 1, j <= k PROVE g[j] <= g[k]
  <2>1. At(j) /\ At(k)
    BY <1>1
  <2>2. f[j] <= f[k] /\ f[j + 1] <= f[k + 1]
    <3>1. j \in 0..L /\ k \in 0..L /\ j + 1 \in 0..L /\ k + 1 \in 0..L /\ j + 1 <= k + 1
      BY <1>8
    <3> QED
      BY <1>8, <3>1 DEF Cumulates
  <2>3. CASE k < i
    BY <1>8, <2>1, <2>2, <2>3 DEF At
  <2>4. CASE ~(j < i)
    BY <1>8, <2>1, <2>2, <2>4 DEF At
  <2>5. CASE j < i /\ ~(k < i)
    BY <2>1, <2>5 DEF At
  <2> QED
    BY <2>3, <2>4, <2>5
<1> QED
  BY <1>4, <1>5, <1>6, <1>7, <1>8 DEF g, CumulatesAfter

LEMMA RemovalSums ==
    ASSUME NEW list \in Seq(Entry), NEW total \in Nat, NEW i \in DOMAIN list,
           NEW f \in [0..Len(list) -> 0..total], Sums(list, total, f)
    PROVE  /\ list[i].bytes \in Nat
           /\ BytesWithout(total, list[i]) = total - list[i].bytes
           /\ BytesWithout(total, list[i]) \in Nat
           /\ \E g \in [0..Len(RemoveAt(list, i)) -> 0..BytesWithout(total, list[i])] :
                Sums(RemoveAt(list, i), BytesWithout(total, list[i]), g)
<1> DEFINE L == Len(list)
           w == [j \in 1..L |-> list[j].bytes]
           g == SumsAfter(w, L, f, i)
           rest == RemoveAt(list, i)
<1>1. i \in 1..L /\ L \in Nat /\ DOMAIN list = 1..L
  BY LenProperties
<1>2. ASSUME NEW j \in 1..L PROVE w[j] = list[j].bytes /\ list[j].bytes \in Nat
  BY <1>1, ElementFields
<1>3. w \in [1..L -> Nat]
  BY <1>2
<1>4. Cumulates(w, L, total, f)
  <2>1. f \in [0..L -> Nat]
    BY <1>1
  <2> QED
    BY <1>1, <1>2, <1>3, <2>1 DEF Sums, RunningSums, Cumulates
<1>5. /\ Len(rest) = L - 1 /\ DOMAIN rest = 1..L - 1
      /\ \A j \in 1..L - 1 : rest[j] = IF j < i THEN list[j] ELSE list[j + 1]
  BY <1>1, RemoveAtFacts
<1> HIDE DEF w, L, rest
<1>6. /\ w[i] \in Nat /\ w[i] <= total
      /\ g \in [0..L - 1 -> 0..(total - w[i])]
      /\ g[0] = 0 /\ g[L - 1] = total - w[i]
      /\ \A j \in 1..L - 1 : g[j] = g[j - 1] + (IF j < i THEN w[j] ELSE w[j + 1])
      /\ \A j, k \in 0..L - 1 : j <= k => g[j] <= g[k]
  <2>1. CumulatesAfter(w, L, total, i, g)
    BY <1>1, <1>4, SumsAfterCumulate
  <2> HIDE DEF g
  <2> QED
    BY <2>1 DEF CumulatesAfter
<1> HIDE DEF g
<1>7. w[i] = list[i].bytes
  BY <1>1, <1>2
<1>8. BytesWithout(total, list[i]) = total - w[i] /\ total - w[i] \in Nat
  BY <1>6, <1>7 DEF BytesWithout, NonNegative
<1>9. ASSUME NEW j \in 1..L - 1 PROVE g[j] = g[j - 1] + rest[j].bytes
  <2>1. j \in 1..L /\ j + 1 \in 1..L
    BY <1>1
  <2>2. w[j] = list[j].bytes /\ w[j + 1] = list[j + 1].bytes
    BY <1>2, <2>1
  <2>3. rest[j].bytes = IF j < i THEN w[j] ELSE w[j + 1]
    BY <1>5, <2>2
  <2> QED
    BY <1>6, <2>3
<1>10. Sums(rest, total - w[i], g)
  BY <1>5, <1>6, <1>9 DEF Sums, RunningSums
<1>11. rest = RemoveAt(list, i) /\ g \in [0..Len(rest) -> 0..(total - w[i])]
  BY <1>5, <1>6 DEF rest
<1> QED
  BY <1>6, <1>7, <1>8, <1>10, <1>11

LEMMA RemovalConsistent ==
    ASSUME NEW list, NEW index, NEW total, Consistent(list, index, total),
           NEW i \in DOMAIN list
    PROVE  /\ Consistent(RemoveAt(list, i), IndexWithout(index, list[i]),
                         BytesWithout(total, list[i]))
           /\ IndexWithout(index, list[i])[list[i].id] = NoEntry
           /\ BytesWithout(total, list[i]) <= total
<1> DEFINE rest == RemoveAt(list, i)
           without == IndexWithout(index, list[i])
<1>1. /\ list \in Seq(Entry) /\ total \in Nat /\ i \in 1..Len(list) /\ Len(list) \in Nat
      /\ index \in [Ids -> Entry \cup {NoEntry}]
      /\ Indexed(list, index) /\ Sorted(list)
  BY DEF Consistent
<1>2. /\ rest \in Seq(Entry) /\ Len(rest) = Len(list) - 1
      /\ DOMAIN rest = 1..Len(list) - 1
      /\ \A j \in 1..Len(list) - 1 : rest[j] = IF j < i THEN list[j] ELSE list[j + 1]
  BY <1>1, RemoveAtFacts
<1>3. /\ list[i].id \in Ids
      /\ without \in [Ids -> Entry \cup {NoEntry}]
      /\ without[list[i].id] = NoEntry
      /\ \A id \in Ids : id # list[i].id => without[id] = index[id]
  <2>1. list[i].id \in Ids
    BY <1>1, ElementFields
  <2> QED
    BY <2>1, <1>1 DEF IndexWithout
<1> DEFINE old(j) == IF j < i THEN j ELSE j + 1
<1>4. \A j \in 1..Len(list) - 1 :
        old(j) \in 1..Len(list) /\ old(j) # i /\ rest[j] = list[old(j)]
  BY <1>1, <1>2
<1>5. \A k \in 1..Len(list) : k # i => \E j \in 1..Len(list) - 1 : old(j) = k
  <2> SUFFICES ASSUME NEW k \in 1..Len(list), k # i
               PROVE  \E j \in 1..Len(list) - 1 : old(j) = k
    OBVIOUS
  <2>1. CASE k < i
    <3>1. k \in 1..Len(list) - 1 /\ old(k) = k
      BY <2>1, <1>1
    <3> QED
      BY <3>1
  <2>2. CASE k > i
    <3>1. k - 1 \in 1..Len(list) - 1 /\ old(k - 1) = k
      BY <2>2, <1>1
    <3> QED
      BY <3>1
  <2> QED
    BY <2>1, <2>2, <1>1
<1>6. \A j, k \in 1..Len(list) - 1 :
        (j < k => old(j) < old(k)) /\ (old(j) = old(k) => j = k)
  BY <1>1
<1> HIDE DEF old, rest, without
<1>7. Indexed(rest, without)
  <2>1. ASSUME NEW j \in DOMAIN rest PROVE without[rest[j].id] = rest[j]
    <3>1. old(j) \in DOMAIN list /\ old(j) # i /\ rest[j] = list[old(j)]
      BY <1>1, <1>2, <1>4
    <3>2. rest[j].id # list[i].id /\ index[rest[j].id] = rest[j]
      BY <3>1, <1>1 DEF Indexed
    <3>3. rest[j].id \in Ids
      BY <3>1, <1>1, ElementFields
    <3> QED
      BY <3>2, <3>3, <1>3
  <2>2. ASSUME NEW id \in Ids, without[id] # NoEntry
        PROVE  \E j \in DOMAIN rest : rest[j] = without[id] /\ rest[j].id = id
    <3>1. id # list[i].id /\ without[id] = index[id]
      BY <2>2, <1>3
    <3>2. PICK k \in DOMAIN list : list[k] = index[id] /\ list[k].id = id
      BY <2>2, <3>1, <1>1 DEF Indexed
    <3>3. k # i /\ k \in 1..Len(list)
      BY <3>1, <3>2, <1>1, LenProperties
    <3>4. PICK j \in 1..Len(list) - 1 : old(j) = k
      BY <3>3, <1>5
    <3> QED
      BY <3>1, <3>2, <3>4, <1>2, <1>4
  <2>3. ASSUME NEW j \in DOMAIN rest, NEW k \in DOMAIN rest, rest[j].id = rest[k].id
        PROVE  j = k
    <3>1. old(j) \in DOMAIN list /\ old(k) \in DOMAIN list
          /\ list[old(j)].id = list[old(k)].id
      BY <2>3, <1>1, <1>2, <1>4, LenProperties
    <3>2. old(j) = old(k)
      BY <3>1, <1>1 DEF Indexed
    <3> QED
      BY <3>2, <1>2, <1>6
  <2> QED
    BY <2>1, <2>2, <2>3 DEF Indexed
<1>8. Sorted(rest)
  <2> SUFFICES ASSUME NEW j \in DOMAIN rest, NEW k \in DOMAIN rest, j < k
               PROVE  rest[j].createdAt <= rest[k].createdAt
    BY DEF Sorted
  <2>1. /\ old(j) \in DOMAIN list /\ old(k) \in DOMAIN list /\ old(j) < old(k)
        /\ rest[j] = list[old(j)] /\ rest[k] = list[old(k)]
    BY <1>1, <1>2, <1>4, <1>6, LenProperties
  <2> QED
    BY <2>1, <1>1 DEF Sorted
<1>9. PICK f \in [0..Len(list) -> 0..total] : Sums(list, total, f)
  BY DEF Consistent
<1>10. /\ list[i].bytes \in Nat
       /\ BytesWithout(total, list[i]) = total - list[i].bytes
       /\ BytesWithout(total, list[i]) \in Nat
       /\ \E g \in [0..Len(rest) -> 0..BytesWithout(total, list[i])] :
            Sums(rest, BytesWithout(total, list[i]), g)
  BY <1>1, <1>9, RemovalSums DEF rest
<1>11. BytesWithout(total, list[i]) <= total
  BY <1>1, <1>10
<1>12. Consistent(rest, without, BytesWithout(total, list[i]))
  BY <1>2, <1>3, <1>7, <1>8, <1>10 DEF Consistent
<1> QED
  BY <1>3, <1>11, <1>12 DEF rest, without

LEMMA PushConsistent ==
    ASSUME NEW list, NEW index, NEW total, Consistent(list, index, total),
           NEW e \in Entry, index[e.id] = NoEntry,
           \A i \in DOMAIN list : list[i].createdAt <= e.createdAt
    PROVE  Consistent(Append(list, e), [index EXCEPT ![e.id] = e], total + e.bytes)
<1> DEFINE longer == Append(list, e)
           with == [index EXCEPT ![e.id] = e]
           n == Len(list)
<1>1. /\ list \in Seq(Entry) /\ total \in Nat /\ n \in Nat /\ DOMAIN list = 1..n
      /\ index \in [Ids -> Entry \cup {NoEntry}]
      /\ Indexed(list, index) /\ Sorted(list)
      /\ e.id \in Ids /\ e.bytes \in Nat /\ e # NoEntry
  BY EntryFields, LenProperties DEF Consistent
<1>2. /\ longer \in Seq(Entry) /\ Len(longer) = n + 1 /\ DOMAIN longer = 1..n + 1
      /\ \A i \in 1..n : longer[i] = list[i]
      /\ longer[n + 1] = e
  BY <1>1, AppendProperties, LenProperties
<1>3. /\ with \in [Ids -> Entry \cup {NoEntry}]
      /\ with[e.id] = e
      /\ \A id \in Ids : id # e.id => with[id] = index[id]
  BY <1>1
<1>4. \A i \in 1..n : list[i] # NoEntry /\ list[i].id \in Ids /\ list[i].id # e.id
  <2> SUFFICES ASSUME NEW i \in 1..n
               PROVE  list[i] # NoEntry /\ list[i].id \in Ids /\ list[i].id # e.id
    OBVIOUS
  <2>1. list[i] # NoEntry /\ list[i].id \in Ids
    BY <1>1, ElementFields
  <2>2. index[list[i].id] = list[i]
    BY <1>1 DEF Indexed
  <2> QED
    BY <2>1, <2>2
<1> HIDE DEF longer, with, n
<1>5. Indexed(longer, with)
  <2>1. ASSUME NEW i \in DOMAIN longer PROVE with[longer[i].id] = longer[i]
    <3>1. CASE i \in 1..n
      <4>1. index[list[i].id] = list[i]
        BY <3>1, <1>1 DEF Indexed
      <4> QED
        BY <3>1, <4>1, <1>2, <1>3, <1>4
    <3>2. CASE i = n + 1
      BY <3>2, <1>2, <1>3
    <3> QED
      BY <3>1, <3>2, <1>1, <1>2
  <2>2. ASSUME NEW id \in Ids, with[id] # NoEntry
        PROVE  \E i \in DOMAIN longer : longer[i] = with[id] /\ longer[i].id = id
    <3>1. CASE id = e.id
      <4>1. n + 1 \in DOMAIN longer
        BY <1>1, <1>2
      <4> QED
        BY <4>1, <3>1, <1>2, <1>3
    <3>2. CASE id # e.id
      <4>1. PICK i \in DOMAIN list : list[i] = index[id] /\ list[i].id = id
        BY <2>2, <3>2, <1>1, <1>3 DEF Indexed
      <4>2. i \in DOMAIN longer /\ longer[i] = list[i]
        BY <4>1, <1>1, <1>2
      <4> QED
        BY <4>1, <4>2, <3>2, <1>3
    <3> QED
      BY <3>1, <3>2
  <2>3. ASSUME NEW i \in DOMAIN longer, NEW j \in DOMAIN longer, longer[i].id = longer[j].id
        PROVE  i = j
    <3>1. CASE i \in 1..n /\ j \in 1..n
      BY <2>3, <3>1, <1>1, <1>2 DEF Indexed
    <3>2. CASE i = n + 1 \/ j = n + 1
      BY <2>3, <3>2, <1>1, <1>2, <1>4
    <3> QED
      BY <3>1, <3>2, <1>1, <1>2
  <2> QED
    BY <2>1, <2>2, <2>3 DEF Indexed
<1>6. Sorted(longer)
  <2> SUFFICES ASSUME NEW i \in DOMAIN longer, NEW j \in DOMAIN longer, i < j
               PROVE  longer[i].createdAt <= longer[j].createdAt
    BY DEF Sorted
  <2>1. i \in 1..n /\ longer[i] = list[i]
    BY <1>1, <1>2
  <2>2. CASE j \in 1..n
    BY <2>1, <2>2, <1>1, <1>2 DEF Sorted
  <2>3. CASE j = n + 1
    BY <2>1, <2>3, <1>1, <1>2
  <2> QED
    BY <2>2, <2>3, <1>1, <1>2
<1>7. PICK f \in [0..Len(list) -> 0..total] : Sums(list, total, f)
  BY DEF Consistent
<1>8. /\ \A i \in 0..n : f[i] \in 0..total
      /\ f[0] = 0 /\ f[n] = total
      /\ \A i \in 1..n : f[i] = f[i - 1] + list[i].bytes
      /\ \A i, j \in 0..n : i <= j => f[i] <= f[j]
  BY <1>1, <1>7 DEF Sums, RunningSums, n
<1> DEFINE g == [i \in 0..n + 1 |-> IF i <= n THEN f[i] ELSE total + e.bytes]
<1>9. g \in [0..n + 1 -> 0..total + e.bytes]
  <2> SUFFICES ASSUME NEW i \in 0..n + 1 PROVE g[i] \in 0..total + e.bytes
    OBVIOUS
  <2>1. CASE i <= n
    BY <2>1, <1>1, <1>8
  <2>2. CASE ~(i <= n)
    BY <2>2, <1>1
  <2> QED
    BY <2>1, <2>2
<1>10. /\ \A i \in 0..n : g[i] = f[i]
       /\ g[n + 1] = total + e.bytes
  BY <1>1
<1> HIDE DEF g
<1>11. RunningSums(longer, g)
  <2>1. g[0] = 0
    BY <1>1, <1>8, <1>10
  <2>2. ASSUME NEW i \in 1..n + 1 PROVE g[i] = g[i - 1] + longer[i].bytes
    <3>1. CASE i \in 1..n
      <4>1. i - 1 \in 0..n /\ i \in 0..n
        BY <3>1, <1>1
      <4> QED
        BY <3>1, <4>1, <1>2, <1>8, <1>10
    <3>2. CASE i = n + 1
      <4>1. i - 1 = n /\ n \in 0..n
        BY <3>2, <1>1
      <4> QED
        BY <3>2, <4>1, <1>2, <1>8, <1>10
    <3> QED
      BY <3>1, <3>2, <1>1
  <2> QED
    BY <2>1, <2>2, <1>2 DEF RunningSums
<1>12. \A i, j \in 0..n + 1 : i <= j => g[i] <= g[j]
  <2> SUFFICES ASSUME NEW i \in 0..n + 1, NEW j \in 0..n + 1, i <= j PROVE g[i] <= g[j]
    OBVIOUS
  <2>1. CASE j <= n
    BY <2>1, <1>1, <1>8, <1>10
  <2>2. CASE j = n + 1
    <3>1. g[i] \in 0..total + e.bytes
      BY <1>9
    <3> QED
      BY <2>2, <3>1, <1>1, <1>10
  <2> QED
    BY <2>1, <2>2, <1>1
<1>13. Sums(longer, total + e.bytes, g)
  BY <1>2, <1>9, <1>10, <1>11, <1>12 DEF Sums
<1>14. /\ total + e.bytes \in Nat
       /\ \E h \in [0..Len(longer) -> 0..total + e.bytes] : Sums(longer, total + e.bytes, h)
  <2>1. total + e.bytes \in Nat
    BY <1>1
  <2>2. g \in [0..Len(longer) -> 0..total + e.bytes]
    BY <1>2, <1>9
  <2> QED
    BY <2>1, <2>2, <1>13, Zenon
<1>15. Consistent(longer, with, total + e.bytes)
  BY <1>2, <1>3, <1>5, <1>6, <1>14 DEF Consistent
<1> QED
  BY <1>15 DEF longer, with

\* An empty list weighs nothing.
LEMMA EmptyWeighsNothing ==
    ASSUME NEW index, NEW total, Consistent(<<>>, index, total)
    PROVE  total = 0
<1>1. PICK f \in [0..Len(<<>>) -> 0..total] : Sums(<<>>, total, f)
  BY DEF Consistent
<1>2. f[0] = 0 /\ f[Len(<<>>)] = total
  BY <1>1 DEF Sums, RunningSums
<1> QED
  BY <1>2

-----------------------------------------------------------------------------
(* Every step keeps IInv *)

LEMMA CallFields ==
    ASSUME TypeOK, NEW p \in Procs
    PROVE  /\ call[p] \in Call
           /\ call[p].op = "store" => call[p].id \in Ids /\ call[p].bytes \in Sizes
           /\ call[p].op = "cleanup" => call[p].cutoff \in Int
           /\ call[p].op = "sweep" =>
                /\ call[p] \in [op : {"sweep"}, cutoff : Int, at : Nat \ {0}]
                /\ call[p].cutoff \in Int /\ call[p].at \in Nat \ {0}
BY DEF TypeOK, Call, Idle

\* Steps that leave the storage and the lock alone and move one goroutine
\* between places outside the lock.
LEMMA OutsideLock ==
    ASSUME IInv, NEW p \in Procs, NEW c \in Call,
           call[p].op \notin {"evict", "sweep"}, c.op \notin {"evict", "sweep"},
           call' = [call EXCEPT ![p] = c], UNCHANGED <<store, mu, now>>
    PROVE  IInv'
<1>1. TypeOK'
  BY DEF IInv, TypeOK, store
<1>2. \A q \in Procs : call'[q] = IF q = p THEN c ELSE call[q]
  BY DEF IInv, TypeOK
<1>3. LockDiscipline'
  BY <1>2 DEF IInv, LockDiscipline
<1>4. LimitsOutsideStore'
  BY <1>2 DEF IInv, LimitsOutsideStore, OverLimit, store
<1>5. SweptIsYoung'
  BY <1>2 DEF IInv, SweptIsYoung, store
<1>6. (Consistent(entries, byID, totalBytes)
        /\ \A i \in DOMAIN entries : entries[i].createdAt <= now)'
  BY DEF IInv, store
<1> QED
  BY <1>1, <1>3, <1>4, <1>5, <1>6 DEF IInv

LEMMA BeginStoreKeeps ==
    ASSUME IInv, NEW p \in Procs, NEW id \in Ids, NEW bytes \in Sizes, BeginStore(p, id, bytes)
    PROVE  IInv'
<1> DEFINE c == [op |-> "store", id |-> id, bytes |-> bytes]
<1>1. c \in Call /\ c.op = "store" /\ call[p].op = "idle"
  BY DEF Call, BeginStore, Idle
<1> QED
  BY <1>1, OutsideLock DEF BeginStore

LEMMA BeginCleanupKeeps ==
    ASSUME IInv, NEW p \in Procs, NEW maxAge \in Ages, BeginCleanup(p, maxAge)
    PROVE  IInv'
<1> DEFINE c == [op |-> "cleanup", cutoff |-> now - maxAge]
<1>1. now - maxAge \in Int
  BY DataAssumption, TimeAssumption DEF IInv, TypeOK
<1>2. c \in Call /\ c.op = "cleanup" /\ call[p].op = "idle"
  BY <1>1 DEF Call, BeginCleanup, Idle
<1> QED
  BY <1>2, OutsideLock DEF BeginCleanup

LEMMA LockStoreKeeps ==
    ASSUME IInv, NEW p \in Procs, LockStore(p)
    PROVE  IInv'
<1> DEFINE old == byID[call[p].id]
           new == NewEntry(p)
<1>1. /\ TypeOK /\ Consistent(entries, byID, totalBytes)
      /\ \A i \in DOMAIN entries : entries[i].createdAt <= now
      /\ LockDiscipline /\ LimitsOutsideStore /\ SweptIsYoung
      /\ now \in Nat /\ entries \in Seq(Entry)
  BY TimeAssumption DEF IInv, TypeOK
<1>2. new \in Entry /\ new.id = call[p].id /\ new.createdAt = now
  BY <1>1, CallFields DEF LockStore, NewEntry, Entry, TypeOK
<1>3. /\ mu = Nobody /\ mu' = p /\ now' = now
      /\ call' = [call EXCEPT ![p] = [op |-> "evict"]]
  BY DEF LockStore
<1> HIDE DEF new
<1>4. /\ Consistent(entries, byID, totalBytes)'
      /\ \A i \in DOMAIN entries' : entries'[i].createdAt <= now
  <2>1. CASE old = NoEntry /\ PushBack(entries, byID, totalBytes, new)
    <3>1. /\ entries' = Append(entries, new)
          /\ byID' = [byID EXCEPT ![new.id] = new]
          /\ totalBytes' = totalBytes + new.bytes
      BY <2>1 DEF PushBack
    <3>2. byID[new.id] = NoEntry
      BY <2>1, <1>2
    <3>3. Consistent(Append(entries, new), [byID EXCEPT ![new.id] = new],
                     totalBytes + new.bytes)
      BY <1>1, <1>2, <3>2, PushConsistent
    <3>4. \A i \in DOMAIN Append(entries, new) : Append(entries, new)[i].createdAt <= now
      BY <1>1, <1>2, AppendProperties, LenProperties
    <3> QED
      BY <3>1, <3>3, <3>4
  <2>2. ASSUME old # NoEntry, NEW i \in DOMAIN entries, entries[i] = old,
               PushBack(RemoveAt(entries, i), IndexWithout(byID, old),
                        BytesWithout(totalBytes, old), new)
        PROVE  /\ Consistent(entries, byID, totalBytes)'
               /\ \A j \in DOMAIN entries' : entries'[j].createdAt <= now
    <3> DEFINE rest == RemoveAt(entries, i)
               without == IndexWithout(byID, old)
               less == BytesWithout(totalBytes, old)
    <3>1. Consistent(rest, without, less) /\ without[old.id] = NoEntry
      BY <1>1, <2>2, RemovalConsistent
    <3>2. old.id = new.id
      <4>1. call[p].id \in Ids
        BY <1>1, CallFields DEF LockStore
      <4>2. PICK k \in DOMAIN entries : entries[k] = old /\ entries[k].id = call[p].id
        BY <1>1, <2>2, <4>1 DEF Consistent, Indexed
      <4> QED
        BY <4>2, <1>2
    <3>3. rest \in Seq(Entry) /\ \A j \in DOMAIN rest : rest[j].createdAt <= now
      <4>1. /\ i \in 1..Len(entries) /\ Len(entries) \in Nat
            /\ DOMAIN entries = 1..Len(entries)
        BY <1>1, LenProperties
      <4>2. /\ rest \in Seq(Entry) /\ DOMAIN rest = 1..Len(entries) - 1
            /\ \A j \in 1..Len(entries) - 1 :
                rest[j] = IF j < i THEN entries[j] ELSE entries[j + 1]
        BY <1>1, <4>1, RemoveAtFacts
      <4> HIDE DEF rest
      <4>3. ASSUME NEW j \in 1..Len(entries) - 1 PROVE rest[j].createdAt <= now
        <5>1. PICK k \in 1..Len(entries) : rest[j] = entries[k]
          BY <4>1, <4>2
        <5> QED
          BY <5>1, <4>1, <1>1
      <4> QED
        BY <4>2, <4>3
    <3>4. /\ entries' = Append(rest, new)
          /\ byID' = [without EXCEPT ![new.id] = new]
          /\ totalBytes' = less + new.bytes
      BY <2>2 DEF PushBack
    <3> HIDE DEF rest, without, less
    <3>5. Consistent(Append(rest, new), [without EXCEPT ![new.id] = new], less + new.bytes)
      BY <1>2, <3>1, <3>2, <3>3, PushConsistent
    <3>6. \A j \in DOMAIN Append(rest, new) : Append(rest, new)[j].createdAt <= now
      BY <1>1, <1>2, <3>3, AppendProperties, LenProperties
    <3> QED
      BY <3>4, <3>5, <3>6
  <2> QED
    BY <2>1, <2>2 DEF LockStore, new
<1>5. TypeOK'
  <2>1. [op |-> "evict"] \in Call
    BY DEF Call
  <2>2. call' \in [Procs -> Call]
    BY <1>1, <1>3, <2>1 DEF TypeOK
  <2> QED
    BY <1>1, <1>3, <1>4, <2>2 DEF TypeOK, Consistent
<1>6. LockDiscipline'
  BY <1>1, <1>3, NullAssumption DEF LockDiscipline, TypeOK
<1>7. LimitsOutsideStore'
  BY <1>1, <1>3 DEF LimitsOutsideStore, TypeOK
<1>8. SweptIsYoung'
  BY <1>1, <1>3, <1>6 DEF SweptIsYoung, LockDiscipline, TypeOK
<1> QED
  BY <1>3, <1>4, <1>5, <1>6, <1>7, <1>8 DEF IInv

\* What taking one element out means for the rest of IInv.
LEMMA RemovalKeeps ==
    ASSUME IInv, NEW i \in DOMAIN entries, RemoveElementLocked(i)
    PROVE  /\ Consistent(entries, byID, totalBytes)'
           /\ \A j \in DOMAIN entries' : entries'[j].createdAt <= now
           /\ ~OverLimit => ~OverLimit'
           /\ \A j \in DOMAIN entries' : j < i => j \in DOMAIN entries /\ entries'[j] = entries[j]
<1>1. /\ entries \in Seq(Entry) /\ Len(entries) \in Nat /\ i \in 1..Len(entries)
      /\ DOMAIN entries = 1..Len(entries) /\ totalBytes \in Nat
  BY LenProperties DEF IInv, TypeOK
<1>2. /\ entries' = RemoveAt(entries, i)
      /\ byID' = IndexWithout(byID, entries[i])
      /\ totalBytes' = BytesWithout(totalBytes, entries[i])
  BY DEF RemoveElementLocked
<1>3. /\ Consistent(entries, byID, totalBytes)'
      /\ totalBytes' <= totalBytes
  BY <1>2, RemovalConsistent DEF IInv
<1>4. /\ Len(entries') = Len(entries) - 1 /\ DOMAIN entries' = 1..Len(entries) - 1
      /\ \A j \in 1..Len(entries) - 1 :
            entries'[j] = IF j < i THEN entries[j] ELSE entries[j + 1]
  BY <1>1, <1>2, RemoveAtFacts
<1>5. totalBytes' \in Nat
  BY <1>3 DEF Consistent
<1>6. ASSUME ~OverLimit PROVE ~OverLimit'
  BY <1>1, <1>3, <1>4, <1>5, <1>6, LimitsAssumption DEF OverLimit
<1>7. ASSUME NEW j \in DOMAIN entries' PROVE entries'[j].createdAt <= now
  <2>1. PICK k \in 1..Len(entries) : entries'[j] = entries[k]
    BY <1>1, <1>4
  <2> QED
    BY <2>1, <1>1 DEF IInv
<1>8. ASSUME NEW j \in DOMAIN entries', j < i
      PROVE  j \in DOMAIN entries /\ entries'[j] = entries[j]
  BY <1>1, <1>4, <1>8
<1> QED
  BY <1>3, <1>6, <1>7, <1>8

LEMMA EvictFrontKeeps ==
    ASSUME IInv, NEW p \in Procs, EvictFront(p)
    PROVE  IInv'
<1>1. 1 \in DOMAIN entries
  BY LenProperties, EmptySeq DEF EvictFront, IInv, TypeOK
<1>2. /\ Consistent(entries, byID, totalBytes)'
      /\ \A j \in DOMAIN entries' : entries'[j].createdAt <= now
  BY <1>1, RemovalKeeps DEF EvictFront
<1>3. mu = p /\ call[p].op = "evict" /\ UNCHANGED <<mu, call, now>>
  BY DEF EvictFront
<1>4. TypeOK'
  BY <1>2, <1>3 DEF IInv, TypeOK, Consistent
<1>5. LockDiscipline' /\ LimitsOutsideStore' /\ SweptIsYoung'
  BY <1>3 DEF IInv, LockDiscipline, LimitsOutsideStore, SweptIsYoung
<1> QED
  BY <1>2, <1>3, <1>4, <1>5 DEF IInv

\* Giving up the lock with the limits kept.
LEMMA ReturnKeeps ==
    ASSUME IInv, NEW p \in Procs, mu = p, ~OverLimit, Return(p)
    PROVE  IInv'
<1>1. /\ mu' = Nobody /\ call' = [call EXCEPT ![p] = Idle]
      /\ entries' = entries /\ byID' = byID /\ totalBytes' = totalBytes /\ now' = now
  BY DEF Return, store
<1>2. TypeOK'
  BY <1>1 DEF IInv, TypeOK, Call
<1>3. \A q \in Procs : q # p => call'[q] = call[q] /\ call[q].op \notin {"evict", "sweep"}
  BY <1>1 DEF IInv, TypeOK, LockDiscipline
<1>4. call'[p].op = "idle"
  BY <1>1 DEF IInv, TypeOK, Idle
<1>5. LockDiscipline'
  BY <1>1, <1>3, <1>4, NullAssumption DEF LockDiscipline
<1>6. LimitsOutsideStore'
  BY <1>1 DEF LimitsOutsideStore, OverLimit
<1>7. SweptIsYoung'
  BY <1>3, <1>4 DEF SweptIsYoung
<1> QED
  BY <1>1, <1>2, <1>5, <1>6, <1>7 DEF IInv

LEMMA EndStoreKeeps ==
    ASSUME IInv, NEW p \in Procs, EndStore(p)
    PROVE  IInv'
<1>1. ~OverLimit
  <2>1. CASE entries = <<>>
    <3>1. totalBytes = 0 /\ Len(entries) = 0
      BY <2>1, EmptyWeighsNothing DEF IInv
    <3> QED
      BY <3>1, LimitsAssumption DEF OverLimit
  <2> QED
    BY <2>1 DEF EndStore
<1> QED
  BY <1>1, ReturnKeeps DEF EndStore

LEMMA EndCleanupKeeps ==
    ASSUME IInv, NEW p \in Procs, EndCleanup(p)
    PROVE  IInv'
<1>1. ~OverLimit
  BY DEF EndCleanup, IInv, LimitsOutsideStore
<1> QED
  BY <1>1, ReturnKeeps DEF EndCleanup

LEMMA LockCleanupKeeps ==
    ASSUME IInv, NEW p \in Procs, LockCleanup(p)
    PROVE  IInv'
<1> DEFINE c == [op |-> "sweep", cutoff |-> call[p].cutoff, at |-> 1]
<1>1. c \in Call /\ c.op = "sweep" /\ c.at = 1
  BY CallFields DEF IInv, LockCleanup, Call
<1>2. /\ mu = Nobody /\ mu' = p /\ call' = [call EXCEPT ![p] = c]
      /\ entries' = entries /\ byID' = byID /\ totalBytes' = totalBytes /\ now' = now
  BY DEF LockCleanup, store
<1> HIDE DEF c
<1>3. TypeOK'
  BY <1>1, <1>2 DEF IInv, TypeOK
<1>4. \A q \in Procs : q # p => call'[q] = call[q] /\ call[q].op \notin {"evict", "sweep"}
  BY <1>2, NullAssumption DEF IInv, TypeOK, LockDiscipline
<1>5. call'[p] = c
  BY <1>2 DEF IInv, TypeOK
<1>6. LockDiscipline'
  BY <1>1, <1>2, <1>4, <1>5 DEF LockDiscipline
<1>7. LimitsOutsideStore'
  <2>1. ~OverLimit
    BY <1>2, NullAssumption DEF IInv, LimitsOutsideStore
  <2> QED
    BY <2>1, <1>2 DEF LimitsOutsideStore, OverLimit
<1>8. SweptIsYoung'
  <2>1. DOMAIN entries' \subseteq Nat \ {0}
    BY <1>2, LenProperties DEF IInv, TypeOK
  <2> QED
    BY <2>1, <1>1, <1>4, <1>5 DEF SweptIsYoung
<1> QED
  BY <1>2, <1>3, <1>6, <1>7, <1>8 DEF IInv

LEMMA SweepElemKeeps ==
    ASSUME IInv, NEW p \in Procs, SweepElem(p)
    PROVE  IInv'
<1>1. /\ mu = p /\ call[p].op = "sweep" /\ call[p].at \in DOMAIN entries
      /\ mu' = mu /\ now' = now
  BY DEF SweepElem
<1>2. /\ call[p] \in [op : {"sweep"}, cutoff : Int, at : Nat \ {0}]
      /\ call[p].cutoff \in Int /\ call[p].at \in Nat \ {0}
  BY <1>1, CallFields DEF IInv
<1>3. ~OverLimit
  BY <1>1 DEF IInv, LimitsOutsideStore
<1>4. \A q \in Procs : q # p => call[q].op \notin {"evict", "sweep"}
  BY <1>1 DEF IInv, LockDiscipline
<1>5. CASE RemoveElementLocked(call[p].at) /\ UNCHANGED call
  <2>1. /\ Consistent(entries, byID, totalBytes)'
        /\ \A j \in DOMAIN entries' : entries'[j].createdAt <= now
        /\ ~OverLimit'
        /\ \A j \in DOMAIN entries' :
            j < call[p].at => j \in DOMAIN entries /\ entries'[j] = entries[j]
    BY <1>1, <1>3, <1>5, RemovalKeeps
  <2>2. TypeOK'
    BY <1>1, <1>5, <2>1 DEF IInv, TypeOK, Consistent
  <2>3. LockDiscipline' /\ LimitsOutsideStore'
    BY <1>1, <1>5, <2>1 DEF IInv, LockDiscipline, LimitsOutsideStore
  <2>4. SweptIsYoung'
    BY <1>1, <1>4, <1>5, <2>1 DEF IInv, SweptIsYoung
  <2> QED
    BY <1>1, <2>1, <2>2, <2>3, <2>4 DEF IInv
<1>6. CASE /\ ~Expired(p)
           /\ call' = [call EXCEPT ![p].at = @ + 1]
           /\ UNCHANGED store
  <2>1. /\ entries' = entries /\ byID' = byID /\ totalBytes' = totalBytes
    BY <1>6 DEF store
  <2>2. /\ call'[p] = [call[p] EXCEPT !.at = @ + 1]
        /\ \A q \in Procs : q # p => call'[q] = call[q]
    BY <1>6 DEF IInv, TypeOK
  <2>3. /\ call'[p] \in [op : {"sweep"}, cutoff : Int, at : Nat \ {0}]
        /\ call'[p].op = "sweep" /\ call'[p].cutoff = call[p].cutoff
        /\ call'[p].at = call[p].at + 1
    BY <1>2, <2>2
  <2>4. TypeOK'
    <3>1. call' \in [Procs -> Call]
      BY <1>6, <2>2, <2>3 DEF IInv, TypeOK, Call
    <3> QED
      BY <1>1, <2>1, <3>1 DEF IInv, TypeOK
  <2>5. LockDiscipline'
    BY <1>1, <1>4, <2>2, <2>3 DEF LockDiscipline
  <2>6. LimitsOutsideStore'
    BY <1>3, <2>1 DEF LimitsOutsideStore, OverLimit
  <2>7. SweptIsYoung'
    <3> SUFFICES ASSUME NEW q \in Procs, call'[q].op = "sweep",
                        NEW i \in DOMAIN entries, i < call'[q].at
                 PROVE  entries[i].createdAt >= call'[q].cutoff
      BY <2>1 DEF SweptIsYoung
    <3>1. q = p
      BY <1>4, <2>2
    <3>2. i \in Nat
      BY LenProperties DEF IInv, TypeOK
    <3>3. CASE i = call[p].at
      <4>1. entries[i].createdAt \in Nat
        BY ElementFields DEF IInv, TypeOK
      <4> QED
        BY <4>1, <1>2, <1>6, <2>3, <3>1, <3>3 DEF Expired
    <3>4. CASE i < call[p].at
      BY <1>1, <2>3, <3>1, <3>4 DEF IInv, SweptIsYoung
    <3> QED
      BY <1>2, <2>3, <3>1, <3>2, <3>3, <3>4
  <2> QED
    BY <1>1, <2>1, <2>4, <2>5, <2>6, <2>7 DEF IInv
<1> QED
  BY <1>5, <1>6 DEF SweepElem

LEMMA TickKeeps ==
    ASSUME IInv, Tick
    PROVE  IInv'
<1>1. /\ entries' = entries /\ byID' = byID /\ totalBytes' = totalBytes
      /\ mu' = mu /\ call' = call /\ now' = now + 1 /\ now' \in 0..MaxTime
  BY TimeAssumption DEF Tick, store, IInv, TypeOK
<1>2. TypeOK'
  BY <1>1 DEF IInv, TypeOK
<1>3. \A i \in DOMAIN entries' : entries'[i].createdAt <= now'
  <2> SUFFICES ASSUME NEW i \in DOMAIN entries PROVE entries[i].createdAt <= now + 1
    BY <1>1
  <2>1. entries[i].createdAt \in Nat /\ now \in Nat /\ entries[i].createdAt <= now
    BY ElementFields, TimeAssumption DEF IInv, TypeOK
  <2> QED
    BY <2>1
<1> QED
  BY <1>1, <1>2, <1>3 DEF IInv, LockDiscipline, LimitsOutsideStore, OverLimit, SweptIsYoung

LEMMA InitHolds == Init => IInv
<1> SUFFICES ASSUME Init PROVE IInv
  OBVIOUS
<1>1. /\ entries = <<>> /\ totalBytes = 0 /\ mu = Nobody /\ now = 0
      /\ byID = [id \in Ids |-> NoEntry] /\ call = [p \in Procs |-> Idle]
  BY DEF Init
<1>2. TypeOK
  BY <1>1, TimeAssumption DEF TypeOK, Call
<1>3. Consistent(entries, byID, totalBytes)
  <2> DEFINE f == [i \in 0..0 |-> 0]
  <2>1. Sums(<<>>, 0, f)
    BY DEF Sums, RunningSums
  <2>2. \E g \in [0..Len(<<>>) -> 0..0] : Sums(<<>>, 0, g)
    BY <2>1
  <2>3. Indexed(<<>>, byID) /\ Sorted(<<>>)
    BY <1>1 DEF Indexed, Sorted
  <2> QED
    BY <1>1, <1>2, <2>2, <2>3 DEF Consistent, TypeOK
<1>4. \A p \in Procs : call[p].op = "idle" /\ mu # p
  BY <1>1, NullAssumption DEF Idle
<1>5. ~OverLimit
  BY <1>1, LimitsAssumption DEF OverLimit
<1> QED
  BY <1>1, <1>2, <1>3, <1>4, <1>5 DEF IInv, LockDiscipline, LimitsOutsideStore, SweptIsYoung

LEMMA NextKeeps == IInv /\ [Next]_vars => IInv'
<1> SUFFICES ASSUME IInv, [Next]_vars PROVE IInv'
  OBVIOUS
<1>1. CASE Next
  BY <1>1, BeginStoreKeeps, BeginCleanupKeeps, LockStoreKeeps, EvictFrontKeeps,
     EndStoreKeeps, LockCleanupKeeps, SweepElemKeeps, EndCleanupKeeps, TickKeeps
     DEF Next, Step
<1>2. CASE UNCHANGED vars
  BY <1>2 DEF vars, IInv, TypeOK, LockDiscipline, LimitsOutsideStore, OverLimit, SweptIsYoung
<1> QED
  BY <1>1, <1>2

\* The inductive invariant holds in every reachable state.
THEOREM Invariance == Spec => []IInv
BY InitHolds, NextKeeps, PTL DEF Spec

\* Every variable stays in its type, for any goroutines, ids and limits.
THEOREM TypeCorrect == Spec => []TypeOK
BY Invariance, PTL DEF IInv

\* The index and the list never disagree (Store, evictLocked, Cleanup and
\* removeElementLocked of storage_memory.go, in any interleaving).
THEOREM IndexCorrect == Spec => []IndexMatchesList
<1>1. IInv => IndexMatchesList
  BY DEF IInv, Consistent, Indexed, IndexMatchesList
<1> QED
  BY <1>1, Invariance, PTL

\* The list is in order of creation, so its front is the oldest entry.
THEOREM OrderCorrect == Spec => []Chronological
<1>1. IInv => Chronological
  BY DEF IInv, Consistent, Sorted, Chronological
<1> QED
  BY <1>1, Invariance, PTL

\* The byte total is the sum of the entries' sizes at every moment, also while
\* the lock is held: the clamp of removeElementLocked never applies.
THEOREM TotalCorrect == Spec => []BytesExact
<1>1. IInv => BytesExact
  BY DEF IInv, Consistent, Sums, BytesExact
<1> QED
  BY <1>1, Invariance, PTL

\* Both limits hold whenever no writer holds the lock.
THEOREM LimitsHold == Spec => []WithinLimits
<1>1. IInv => WithinLimits
  <2> SUFFICES ASSUME IInv, mu = Nobody
               PROVE  Len(entries) <= MaxEntries /\ totalBytes <= MaxBytes
    BY DEF WithinLimits
  <2>1. ~OverLimit
    BY NullAssumption DEF IInv, LimitsOutsideStore
  <2>2. Len(entries) \in Nat /\ totalBytes \in Nat
    BY LenProperties DEF IInv, TypeOK
  <2> QED
    BY <2>1, <2>2, LimitsAssumption DEF OverLimit
<1> QED
  BY <1>1, Invariance, PTL

\* A Cleanup that returns has left nothing older than its cutoff.
THEOREM CleanupComplete == Spec => CleanupIsComplete
<1> DEFINE Complete ==
        \A p \in Procs : call[p].op = "sweep" /\ call'[p] = Idle =>
            \A i \in DOMAIN entries' : entries'[i].createdAt >= call[p].cutoff
<1>1. IInv /\ [Next]_vars => Complete
  <2> SUFFICES ASSUME IInv, [Next]_vars,
                      NEW p \in Procs, call[p].op = "sweep", call'[p] = Idle
               PROVE  \A i \in DOMAIN entries' : entries'[i].createdAt >= call[p].cutoff
    OBVIOUS
  <2>1. mu = p /\ \A q \in Procs : q # p => mu # q
    BY DEF IInv, LockDiscipline
  <2>2. mu # Nobody /\ call[p] # Idle /\ TypeOK
    BY <2>1, NullAssumption DEF Idle, IInv
  <2>3. EndCleanup(p)
    <3>1. PICK q \in Procs :
            \/ \E id \in Ids, bytes \in Sizes : BeginStore(q, id, bytes)
            \/ \E maxAge \in Ages : BeginCleanup(q, maxAge)
            \/ Step(q)
      <4>1. call' # call
        BY <2>2
      <4> QED
        BY <4>1 DEF Next, Tick, vars
    <3>2. q = p
      <4>1. CASE \/ \E id \in Ids, bytes \in Sizes : BeginStore(q, id, bytes)
                 \/ \E maxAge \in Ages : BeginCleanup(q, maxAge)
        <5>1. \E c : call' = [call EXCEPT ![q] = c]
          BY <4>1 DEF BeginStore, BeginCleanup
        <5> QED
          BY <5>1, <2>2 DEF TypeOK
      <4>2. CASE Step(q)
        BY <4>2, <2>1, <2>2 DEF Step, LockStore, EvictFront, EndStore, LockCleanup,
                                SweepElem, EndCleanup
      <4> QED
        BY <3>1, <4>1, <4>2
    <3>3. ~SweepElem(p)
      <4>1. ASSUME SweepElem(p) PROVE FALSE
        <5>0. call[p] \in [op : {"sweep"}, cutoff : Int, at : Nat \ {0}]
          BY <2>2, CallFields
        <5>1. call'[p].op = "sweep"
          BY <4>1, <5>0, <2>2 DEF SweepElem, TypeOK
        <5> QED
          BY <5>1 DEF Idle
      <4> QED
        BY <4>1
    <3> QED
      BY <3>1, <3>2, <3>3 DEF Step, BeginStore, BeginCleanup, Idle, LockStore, EvictFront,
                              EndStore, LockCleanup
  <2>4. call[p].at \notin DOMAIN entries /\ entries' = entries
    BY <2>3 DEF EndCleanup, Return, store
  <2>5. call[p].at \in Nat \ {0}
    BY <2>2, CallFields
  <2>6. DOMAIN entries = 1..Len(entries) /\ Len(entries) \in Nat
    BY <2>2, LenProperties DEF TypeOK
  <2>7. \A i \in DOMAIN entries : i < call[p].at
    BY <2>4, <2>5, <2>6
  <2> QED
    BY <2>4, <2>7 DEF IInv, SweptIsYoung
<1> HIDE DEF Complete
<1>2. Spec => [][Complete]_vars
  BY <1>1, Invariance, PTL DEF Spec
<1> QED
  BY <1>2 DEF CleanupIsComplete, Complete

-----------------------------------------------------------------------------
(* Reads *)

LEMMA FunctionIsSeq ==
    ASSUME NEW n \in Nat, NEW f \in [1..n -> Entry]
    PROVE  f \in Seq(Entry) /\ Len(f) = n
OBVIOUS

\* How long an answer is when a reader can get in, and what is in it.
LEMMA ListFacts ==
    ASSUME IInv, mu = Nobody, NEW limit \in 0..MaxEntries
    PROVE  /\ List(limit) \in Seq(Entry)
           /\ Len(List(limit)) = (IF limit = 0 \/ limit > Len(entries) THEN Len(entries) ELSE limit)
           /\ \A i \in 1..Len(List(limit)) : List(limit)[i] = entries[Len(entries) + 1 - i]
<1> DEFINE L == Len(entries)
           k == IF limit = 0 \/ limit > L THEN L ELSE limit
           f == [i \in 1..k |-> entries[L + 1 - i]]
<1>1. entries \in Seq(Entry) /\ L \in Nat /\ L <= MaxEntries /\ limit \in Nat /\ k \in Nat /\ k <= L
  <2>1. ~OverLimit
    BY NullAssumption DEF IInv, LimitsOutsideStore
  <2>2. entries \in Seq(Entry) /\ L \in Nat
    BY LenProperties DEF IInv, TypeOK
  <2> QED
    BY <2>1, <2>2, LimitsAssumption DEF OverLimit
<1>2. List(limit) = f
  <2>1. (LET n == IF limit <= 0 THEN MaxEntries ELSE limit
         IN  IF n < Len(entries) THEN n ELSE Len(entries)) = k
    BY <1>1, LimitsAssumption
  <2> QED
    BY <2>1 DEF List
<1>3. \A i \in 1..k : entries[L + 1 - i] \in Entry
  BY <1>1, ElementOfSeq
<1>4. f \in [1..k -> Entry]
  BY <1>3
<1>5. \A i \in 1..k : f[i] = entries[L + 1 - i]
  OBVIOUS
<1> HIDE DEF f
<1>6. f \in Seq(Entry) /\ Len(f) = k
  BY <1>1, <1>4, FunctionIsSeq
<1> QED
  BY <1>2, <1>5, <1>6

LEMMA ListIsWhatGetFinds ==
    ASSUME IInv, mu = Nobody
    PROVE  {List(0)[i] : i \in DOMAIN List(0)} = {Get(id) : id \in Ids} \ {NoEntry}
<1>1. /\ entries \in Seq(Entry) /\ Len(entries) \in Nat /\ DOMAIN entries = 1..Len(entries)
      /\ Indexed(entries, byID)
  BY LenProperties DEF IInv, TypeOK, Consistent
<1>2. /\ DOMAIN List(0) = 1..Len(entries)
      /\ \A i \in 1..Len(entries) : List(0)[i] = entries[Len(entries) + 1 - i]
  <2>1. 0 \in 0..MaxEntries
    BY LimitsAssumption
  <2> QED
    BY <1>1, <2>1, ListFacts, LenProperties
<1>3. ASSUME NEW i \in DOMAIN List(0)
      PROVE  List(0)[i] \in {Get(id) : id \in Ids} \ {NoEntry}
  <2>1. PICK j \in DOMAIN entries : List(0)[i] = entries[j]
    <3>1. i \in 1..Len(entries) /\ Len(entries) + 1 - i \in 1..Len(entries)
      BY <1>1, <1>2
    <3>2. List(0)[i] = entries[Len(entries) + 1 - i]
      BY <1>2, <3>1
    <3> QED
      BY <1>1, <3>1, <3>2
  <2>2. entries[j] # NoEntry /\ entries[j].id \in Ids
    BY <1>1, ElementFields
  <2>3. byID[entries[j].id] = entries[j]
    BY <1>1 DEF Indexed
  <2> QED
    BY <2>1, <2>2, <2>3 DEF Get
<1>4. ASSUME NEW id \in Ids, byID[id] # NoEntry
      PROVE  \E i \in DOMAIN List(0) : List(0)[i] = byID[id]
  <2>1. PICK j \in DOMAIN entries : entries[j] = byID[id]
    BY <1>1, <1>4 DEF Indexed
  <2>2. Len(entries) + 1 - j \in DOMAIN List(0) /\ List(0)[Len(entries) + 1 - j] = entries[j]
    <3> DEFINE i == Len(entries) + 1 - j
    <3>1. i \in 1..Len(entries) /\ Len(entries) + 1 - i = j
      BY <1>1
    <3> HIDE DEF i
    <3>2. List(0)[i] = entries[Len(entries) + 1 - i]
      BY <1>2, <3>1
    <3> QED
      BY <1>2, <3>1, <3>2 DEF i
  <2> QED
    BY <2>1, <2>2
<1> QED
  BY <1>3, <1>4 DEF Get

LEMMA LimitShortens ==
    ASSUME IInv, mu = Nobody, NEW limit \in 1..MaxEntries
    PROVE  IsPrefix(List(limit), List(0))
<1> DEFINE s == List(limit)
           t == List(0)
           L == Len(entries)
<1>1. L \in Nat
  BY LenProperties DEF IInv, TypeOK
<1>2. /\ s \in Seq(Entry) /\ Len(s) = (IF limit > L THEN L ELSE limit)
      /\ \A i \in 1..Len(s) : s[i] = entries[L + 1 - i]
  <2>1. limit \in 0..MaxEntries /\ limit # 0
    BY LimitsAssumption
  <2> QED
    BY <2>1, ListFacts
<1>3. /\ t \in Seq(Entry) /\ Len(t) = L
      /\ \A i \in 1..Len(t) : t[i] = entries[L + 1 - i]
  <2>1. 0 \in 0..MaxEntries
    BY LimitsAssumption
  <2> QED
    BY <2>1, ListFacts
<1> HIDE DEF s, t
<1>4. Len(s) \in Nat /\ Len(s) <= Len(t)
  BY <1>1, <1>2, <1>3
<1>5. \A i \in 1..Len(s) : s[i] = t[i] /\ s[i] \in Entry /\ t[i] \in Entry
  BY <1>1, <1>2, <1>3, <1>4, ElementOfSeq
<1> DEFINE a == SubSeq(s, 1, Len(s))
           b == SubSeq(t, 1, Len(s))
<1>6. /\ a \in Seq(Entry) /\ Len(a) = (IF 1 <= Len(s) THEN Len(s) - 1 + 1 ELSE 0)
      /\ \A i \in 1..Len(s) - 1 + 1 : a[i] = s[1 + i - 1]
  BY <1>4, <1>5, SubSeqProperties, 1 \in Int, Len(s) \in Int
<1>7. /\ b \in Seq(Entry) /\ Len(b) = (IF 1 <= Len(s) THEN Len(s) - 1 + 1 ELSE 0)
      /\ \A i \in 1..Len(s) - 1 + 1 : b[i] = t[1 + i - 1]
  BY <1>4, <1>5, SubSeqProperties, 1 \in Int, Len(s) \in Int
<1> HIDE DEF a, b
<1>8. Len(a) = Len(b) /\ \A i \in 1..Len(a) : a[i] = b[i]
  <2>1. Len(a) = Len(s) /\ Len(b) = Len(s)
    BY <1>4, <1>6, <1>7
  <2>2. \A i \in 1..Len(s) : a[i] = s[i] /\ b[i] = t[i]
    BY <1>4, <1>6, <1>7
  <2> QED
    BY <2>1, <2>2, <1>5
<1>9. a = b
  BY <1>6, <1>7, <1>8, SeqEqual
<1> QED
  BY <1>4, <1>9 DEF IsPrefix, a, b, s, t

\* A reader finds through List what it can Get, newest first, and a limit does
\* nothing but shorten the answer (List and Get of storage_memory.go).
THEOREM ReadersAgree == Spec => []ReadsAgree
<1>1. IInv => ReadsAgree
  BY ListIsWhatGetFinds, LimitShortens DEF ReadsAgree
<1> QED
  BY <1>1, Invariance, PTL

-----------------------------------------------------------------------------
(* What is lost *)

\* A cutoff lies one of the retention times back, or further: time has passed
\* since it was computed.
CutoffIsPast(c) ==
    c.op \in {"cleanup", "sweep"} => \E maxAge \in Ages \ {0} : c.cutoff + maxAge <= now

CutoffsPast == \A p \in Procs : CutoffIsPast(call[p])

LEMMA CutoffsStayPast == IInv /\ CutoffsPast /\ [Next]_vars => CutoffsPast'
<1> SUFFICES ASSUME IInv, CutoffsPast, [Next]_vars, NEW p \in Procs
             PROVE  CutoffIsPast(call[p])'
  BY DEF CutoffsPast
<1>1. TypeOK /\ now \in Nat /\ now' \in Nat /\ now <= now'
  <2>1. TypeOK /\ TypeOK'
    BY NextKeeps DEF IInv
  <2>2. now \in Nat /\ now' \in Nat
    BY <2>1, TimeAssumption DEF TypeOK
  <2>3. now' = now \/ now' = now + 1
    BY DEF Next, Step, BeginStore, BeginCleanup, LockStore, EvictFront, EndStore, LockCleanup,
           SweepElem, EndCleanup, Return, Tick, vars
  <2> QED
    BY <2>1, <2>2, <2>3
<1>2. CASE /\ call'[p].op = call[p].op
           /\ call[p].op \in {"cleanup", "sweep"} => call'[p].cutoff = call[p].cutoff
  <2> SUFFICES ASSUME call'[p].op \in {"cleanup", "sweep"}
               PROVE  \E maxAge \in Ages \ {0} : call'[p].cutoff + maxAge <= now'
    BY DEF CutoffIsPast
  <2>1. PICK maxAge \in Ages \ {0} : call[p].cutoff + maxAge <= now
    BY <1>2 DEF CutoffsPast, CutoffIsPast
  <2>2. call[p].cutoff \in Int /\ maxAge \in Nat
    BY <1>1, <1>2, CallFields, DataAssumption
  <2>3. call[p].cutoff + maxAge <= now'
    BY <1>1, <2>1, <2>2
  <2> QED
    BY <1>2, <2>3
<1>3. CASE \E maxAge \in Ages : BeginCleanup(p, maxAge)
  <2>1. PICK maxAge \in Ages \ {0} : call'[p] = [op |-> "cleanup", cutoff |-> now - maxAge]
    BY <1>1, <1>3, DataAssumption DEF BeginCleanup, TypeOK
  <2>2. maxAge \in Nat
    BY DataAssumption
  <2>3. (now - maxAge) + maxAge <= now'
    BY <1>1, <2>2
  <2> QED
    BY <2>1, <2>3 DEF CutoffIsPast
<1>4. CASE LockCleanup(p)
  <2>1. call'[p] = [op |-> "sweep", cutoff |-> call[p].cutoff, at |-> 1] /\ call[p].op = "cleanup"
    BY <1>1, <1>4 DEF LockCleanup, TypeOK
  <2>2. PICK maxAge \in Ages \ {0} : call[p].cutoff + maxAge <= now
    BY <2>1 DEF CutoffsPast, CutoffIsPast
  <2>3. call[p].cutoff \in Int /\ maxAge \in Nat
    BY <1>1, <2>1, CallFields, DataAssumption
  <2>4. call[p].cutoff + maxAge <= now'
    BY <1>1, <2>2, <2>3
  <2> QED
    BY <2>1, <2>4 DEF CutoffIsPast
<1>5. CASE call'[p].op \notin {"cleanup", "sweep"}
  BY <1>5 DEF CutoffIsPast
<1>6. CASE SweepElem(p)
  <2>1. call[p].op = "sweep" /\ call[p] \in [op : {"sweep"}, cutoff : Int, at : Nat \ {0}]
    BY <1>1, <1>6, CallFields DEF SweepElem
  <2>2. call'[p].op = call[p].op /\ call'[p].cutoff = call[p].cutoff
    BY <1>1, <1>6, <2>1 DEF SweepElem, TypeOK
  <2> QED
    BY <1>2, <2>2
<1>7. ASSUME NEW q \in Procs,
             \/ \E id \in Ids, bytes \in Sizes : BeginStore(q, id, bytes)
             \/ \E maxAge \in Ages : BeginCleanup(q, maxAge)
             \/ Step(q),
             q # p
      PROVE  call'[p] = call[p]
  BY <1>1, <1>7 DEF Step, BeginStore, BeginCleanup, LockStore, EvictFront, EndStore, LockCleanup,
                    SweepElem, EndCleanup, Return, TypeOK
<1>8. ASSUME \E id \in Ids, bytes \in Sizes : BeginStore(p, id, bytes)
      PROVE  call'[p].op = "store"
  BY <1>1, <1>8 DEF BeginStore, TypeOK
<1>9. ASSUME LockStore(p) \/ EndStore(p) \/ EndCleanup(p)
      PROVE  call'[p].op \in {"evict", "idle"}
  BY <1>1, <1>9 DEF LockStore, EndStore, EndCleanup, Return, TypeOK, Idle
<1>10. ASSUME EvictFront(p) \/ Tick \/ UNCHANGED vars
       PROVE  call'[p] = call[p]
  BY <1>10 DEF EvictFront, Tick, vars
<1> QED
  BY <1>2, <1>3, <1>4, <1>5, <1>6, <1>7, <1>8, <1>9, <1>10 DEF Next, Step

\* The action of the property LossIsJustified.
Justified ==
    \A id \in Ids :
        byID[id] # NoEntry /\ byID'[id] # byID[id] =>
            \/ byID'[id] # NoEntry /\ byID'[id].createdAt = now
            \/ OverLimit
            \/ OldEnough(byID[id])

\* Taking the i-th element out of the index touches no other id.
LEMMA RemovalTouches ==
    ASSUME IInv, NEW i \in DOMAIN entries, NEW id \in Ids,
           IndexWithout(byID, entries[i])[id] # byID[id]
    PROVE  id = entries[i].id /\ byID[id] = entries[i]
<1>1. byID \in [Ids -> Entry \cup {NoEntry}] /\ Indexed(entries, byID)
  BY DEF IInv, TypeOK, Consistent
<1>2. id = entries[i].id
  BY <1>1 DEF IndexWithout
<1> QED
  BY <1>1, <1>2 DEF Indexed

LEMMA StoreReplaces ==
    ASSUME IInv, NEW p \in Procs, LockStore(p), NEW id \in Ids,
           byID[id] # NoEntry, byID'[id] # byID[id]
    PROVE  byID'[id] # NoEntry /\ byID'[id].createdAt = now
<1> DEFINE old == byID[call[p].id]
           new == NewEntry(p)
<1>1. /\ byID \in [Ids -> Entry \cup {NoEntry}] /\ Indexed(entries, byID)
      /\ call[p].id \in Ids
  BY CallFields DEF IInv, TypeOK, Consistent, LockStore
<1>2. new \in Entry /\ new # NoEntry /\ new.id = call[p].id /\ new.createdAt = now
  BY CallFields, EntryFields DEF LockStore, NewEntry, Entry, IInv, TypeOK
<1> HIDE DEF new
<1>3. CASE old = NoEntry /\ PushBack(entries, byID, totalBytes, new)
  <2>1. byID' = [byID EXCEPT ![new.id] = new]
    BY <1>3 DEF PushBack
  <2> QED
    BY <1>1, <1>2, <2>1
<1>4. ASSUME old # NoEntry, NEW i \in DOMAIN entries, entries[i] = old,
             PushBack(RemoveAt(entries, i), IndexWithout(byID, old),
                      BytesWithout(totalBytes, old), new)
      PROVE  byID'[id] # NoEntry /\ byID'[id].createdAt = now
  <2>1. byID' = [IndexWithout(byID, old) EXCEPT ![new.id] = new]
    BY <1>4 DEF PushBack
  <2>2. IndexWithout(byID, old) \in [Ids -> Entry \cup {NoEntry}]
    BY <1>1 DEF IndexWithout
  <2>3. old.id = new.id
    BY <1>1, <1>2, <1>4 DEF Indexed
  <2>4. CASE id = new.id
    BY <1>2, <2>1, <2>2, <2>4
  <2>5. CASE id # new.id
    <3>1. byID'[id] = IndexWithout(byID, old)[id]
      BY <2>1, <2>2, <2>5
    <3>2. IndexWithout(byID, entries[i])[id] # byID[id]
      BY <1>4, <3>1
    <3>3. id = entries[i].id
      BY <3>2, RemovalTouches
    <3> QED
      BY <1>4, <2>3, <2>5, <3>3
  <2> QED
    BY <2>4, <2>5
<1> QED
  BY <1>3, <1>4 DEF LockStore, new

LEMMA SweepTakesOld ==
    ASSUME IInv, CutoffsPast, NEW p \in Procs, SweepElem(p), NEW id \in Ids,
           byID[id] # NoEntry, byID'[id] # byID[id]
    PROVE  OldEnough(byID[id])
<1> DEFINE e == entries[call[p].at]
<1>1. /\ call[p].op = "sweep" /\ call[p].at \in DOMAIN entries
      /\ Expired(p) /\ byID' = IndexWithout(byID, e)
  BY DEF SweepElem, RemoveElementLocked, store
<1>2. byID[id] = e
  BY <1>1, RemovalTouches
<1>3. PICK maxAge \in Ages \ {0} : call[p].cutoff + maxAge <= now
  BY <1>1 DEF CutoffsPast, CutoffIsPast
<1>4. /\ call[p].cutoff \in Int /\ maxAge \in Nat /\ now \in Nat
      /\ e.createdAt \in Nat /\ e.createdAt < call[p].cutoff
  <2>1. call[p].cutoff \in Int /\ maxAge \in Nat /\ now \in Nat
    BY <1>1, CallFields, DataAssumption, TimeAssumption DEF IInv, TypeOK
  <2>2. e.createdAt \in Nat
    BY <1>1, ElementFields DEF IInv, TypeOK
  <2>3. e.createdAt < call[p].cutoff
    BY <1>1 DEF Expired
  <2> QED
    BY <2>1, <2>2, <2>3
<1>5. e.createdAt + maxAge < now
  BY <1>3, <1>4
<1> QED
  BY <1>2, <1>5 DEF OldEnough

LEMMA LossesJustified == IInv /\ CutoffsPast /\ [Next]_vars => Justified
<1> SUFFICES ASSUME IInv, CutoffsPast, [Next]_vars,
                    NEW id \in Ids, byID[id] # NoEntry, byID'[id] # byID[id]
             PROVE  \/ byID'[id] # NoEntry /\ byID'[id].createdAt = now
                    \/ OverLimit
                    \/ OldEnough(byID[id])
  BY DEF Justified
<1>1. PICK p \in Procs : LockStore(p) \/ EvictFront(p) \/ SweepElem(p)
  BY DEF Next, Step, BeginStore, BeginCleanup, EndStore, LockCleanup, EndCleanup, Return, Tick,
         store, vars
<1>2. CASE EvictFront(p)
  BY <1>2 DEF EvictFront
<1> QED
  BY <1>1, <1>2, StoreReplaces, SweepTakesOld

\* No entry leaves the storage but for a newer one of its id, for a limit, or
\* for its age when Cleanup was asked (Store, evictLocked and Cleanup).
THEOREM LossJustified == Spec => LossIsJustified
<1>1. Init => CutoffsPast
  BY DEF Init, CutoffsPast, CutoffIsPast, Idle
<1>2. Spec => [][Justified]_vars
  BY <1>1, CutoffsStayPast, LossesJustified, Invariance, PTL DEF Spec
<1> QED
  BY <1>2 DEF LossIsJustified, Justified

-----------------------------------------------------------------------------
(* The storage implements RecencyLog                                       *)
(*                                                                         *)
(* First RecencyLog's operators under names of their own: the module is    *)
(* instantiated twice, for the refinement mapping and under it.            *)

FitsIn(s) ==
    /\ Len(s) <= MaxEntries
    /\ \E f \in [0..Len(s) -> 0..MaxBytes] : RunningSums(s, f)

Rest(s, k) == SubSeq(s, k, Len(s))

FittingFrom(s) == {k \in 1..Len(s) + 1 : FitsIn(Rest(s, k))}

YoungFrom(s, cutoff) ==
    {k \in 1..Len(s) + 1 : \A i \in k..Len(s) : s[i].createdAt >= cutoff}

RecentOf(s) == Rest(s, Min(FittingFrom(s)))
YoungOf(s, cutoff) == Rest(s, Min(YoungFrom(s, cutoff)))

WithoutId(s, id) ==
    IF \E i \in DOMAIN s : s[i].id = id
    THEN RemoveAt(s, CHOOSE i \in DOMAIN s : s[i].id = id) ELSE s

LEMMA SameOperators ==
    /\ \A s : Abs!Recent(s) = RecentOf(s) /\ Recency!Recent(s) = RecentOf(s)
    /\ \A s, c : Abs!Young(s, c) = YoungOf(s, c) /\ Recency!Young(s, c) = YoungOf(s, c)
    /\ \A s, id : Recency!Without(s, id) = WithoutId(s, id)
<1>1. \A s : Abs!Recent(s) = RecentOf(s)
  BY Zenon DEF Abs!Recent, Abs!From, Abs!Fits, Abs!RunningSums, Abs!Min, RecentOf, Rest,
               FittingFrom, FitsIn, RunningSums, Min
<1>2. \A s : Recency!Recent(s) = RecentOf(s)
  BY Zenon DEF Recency!Recent, Recency!From, Recency!Fits, Recency!RunningSums, Recency!Min,
               RecentOf, Rest, FittingFrom, FitsIn, RunningSums, Min
<1>3. \A s, c : Abs!Young(s, c) = YoungOf(s, c)
  BY Zenon DEF Abs!Young, Abs!From, Abs!Min, YoungOf, Rest, YoungFrom, Min
<1>4. \A s, c : Recency!Young(s, c) = YoungOf(s, c)
  BY Zenon DEF Recency!Young, Recency!From, Recency!Min, YoungOf, Rest, YoungFrom, Min
<1>5. \A s, id : Recency!Without(s, id) = WithoutId(s, id)
  BY Zenon DEF Recency!Without, Recency!RemoveAt, WithoutId, RemoveAt
<1> QED
  BY <1>1, <1>2, <1>3, <1>4, <1>5

LEMMA RestFacts ==
    ASSUME NEW s \in Seq(Entry), NEW k \in 1..Len(s) + 1
    PROVE  /\ Rest(s, k) \in Seq(Entry)
           /\ Len(Rest(s, k)) = Len(s) - k + 1
           /\ \A i \in 1..Len(s) - k + 1 : Rest(s, k)[i] = s[k + i - 1]
<1>1. Len(s) \in Nat /\ \A i \in k..Len(s) : s[i] \in Entry
  BY ElementOfSeq, LenProperties
<1>2. /\ Rest(s, k) \in Seq(Entry)
      /\ Len(Rest(s, k)) = (IF k <= Len(s) THEN Len(s) - k + 1 ELSE 0)
      /\ \A i \in 1..Len(s) - k + 1 : Rest(s, k)[i] = s[k + i - 1]
  BY <1>1, SubSeqProperties, k \in Int, Len(s) \in Int DEF Rest
<1> QED
  BY <1>1, <1>2

LEMMA RestOfAll ==
    ASSUME NEW s \in Seq(Entry)
    PROVE  Rest(s, 1) = s
<1>1. Len(s) \in Nat /\ 1 \in 1..Len(s) + 1
  BY LenProperties
<1>2. /\ Rest(s, 1) \in Seq(Entry) /\ Len(Rest(s, 1)) = Len(s) - 1 + 1
      /\ \A i \in 1..Len(s) - 1 + 1 : Rest(s, 1)[i] = s[1 + i - 1]
  BY <1>1, RestFacts
<1>3. Len(Rest(s, 1)) = Len(s) /\ \A i \in 1..Len(s) : Rest(s, 1)[i] = s[i]
  BY <1>1, <1>2
<1> QED
  BY <1>2, <1>3, SeqEqual

LEMMA RestOfRest ==
    ASSUME NEW s \in Seq(Entry), s # <<>>, NEW k \in 1..Len(s)
    PROVE  Rest(Rest(s, 2), k) = Rest(s, k + 1)
<1>1. Len(s) \in Nat \ {0} /\ 2 \in 1..Len(s) + 1 /\ k + 1 \in 1..Len(s) + 1
  BY EmptySeq
<1> DEFINE t == Rest(s, 2)
           n == Len(s)
<1>2. t \in Seq(Entry) /\ Len(t) = n - 2 + 1 /\ \A i \in 1..n - 2 + 1 : t[i] = s[2 + i - 1]
  BY <1>1, RestFacts
<1> HIDE DEF t
<1>3. k \in 1..Len(t) + 1
  BY <1>1, <1>2
<1> DEFINE a == Rest(t, k)
           b == Rest(s, k + 1)
<1>4. /\ a \in Seq(Entry) /\ Len(a) = Len(t) - k + 1
      /\ \A i \in 1..Len(t) - k + 1 : a[i] = t[k + i - 1]
  BY <1>2, <1>3, RestFacts
<1>5. /\ b \in Seq(Entry) /\ Len(b) = n - (k + 1) + 1
      /\ \A i \in 1..n - (k + 1) + 1 : b[i] = s[(k + 1) + i - 1]
  BY <1>1, RestFacts
<1> HIDE DEF a, b
<1>6. Len(a) = n - k /\ Len(b) = n - k
  BY <1>1, <1>2, <1>4, <1>5
<1>7. ASSUME NEW i \in 1..n - k PROVE a[i] = b[i]
  <2>1. a[i] = t[k + i - 1]
    BY <1>1, <1>2, <1>4
  <2>2. b[i] = s[k + i]
    BY <1>1, <1>5
  <2>3. k + i - 1 \in 1..n - 2 + 1 /\ 2 + (k + i - 1) - 1 = k + i
    BY <1>1
  <2>4. t[k + i - 1] = s[2 + (k + i - 1) - 1]
    BY <1>2, <2>3
  <2> QED
    BY <2>1, <2>2, <2>3, <2>4
<1>8. a = b
  BY <1>4, <1>5, <1>6, <1>7, SeqEqual
<1> QED
  BY <1>8 DEF a, b, t

LEMMA RemoveFront ==
    ASSUME NEW s \in Seq(Entry), s # <<>>
    PROVE  RemoveAt(s, 1) = Rest(s, 2)
<1> DEFINE a == RemoveAt(s, 1)
           b == Rest(s, 2)
           n == Len(s)
<1>1. n \in Nat \ {0} /\ 1 \in 1..n /\ 2 \in 1..n + 1
  BY EmptySeq
<1>2. /\ a \in Seq(Entry) /\ Len(a) = n - 1
      /\ \A j \in 1..n - 1 : a[j] = IF j < 1 THEN s[j] ELSE s[j + 1]
  BY <1>1, RemoveAtFacts
<1>3. /\ b \in Seq(Entry) /\ Len(b) = n - 2 + 1
      /\ \A i \in 1..n - 2 + 1 : b[i] = s[2 + i - 1]
  BY <1>1, RestFacts
<1> HIDE DEF a, b
<1>4. Len(a) = Len(b) /\ \A i \in 1..Len(a) : a[i] = b[i]
  <2>1. Len(a) = n - 1 /\ Len(b) = n - 1
    BY <1>1, <1>2, <1>3
  <2>2. \A i \in 1..n - 1 : a[i] = s[i + 1] /\ b[i] = s[i + 1]
    BY <1>1, <1>2, <1>3
  <2> QED
    BY <2>1, <2>2
<1>5. a = b
  BY <1>2, <1>3, <1>4, SeqEqual
<1> QED
  BY <1>5 DEF a, b

LEMMA NothingFits == FitsIn(<<>>)
<1> DEFINE f == [i \in 0..0 |-> 0]
<1>1. f \in [0..0 -> 0..MaxBytes] /\ RunningSums(<<>>, f)
  BY LimitsAssumption DEF RunningSums
<1>2. Len(<<>>) = 0 /\ 0 <= MaxEntries
  BY LimitsAssumption
<1> QED
  BY <1>1, <1>2 DEF FitsIn

\* Both kinds of suffix are found: the empty one is.
LEMMA SuffixesExist ==
    ASSUME NEW s \in Seq(Entry), NEW cutoff
    PROVE  /\ Len(s) \in Nat
           /\ FittingFrom(s) \subseteq 1..Len(s) + 1 /\ Len(s) + 1 \in FittingFrom(s)
           /\ YoungFrom(s, cutoff) \subseteq 1..Len(s) + 1 /\ Len(s) + 1 \in YoungFrom(s, cutoff)
<1>1. Len(s) \in Nat /\ Len(s) + 1 \in 1..Len(s) + 1 /\ ~\E i \in Len(s) + 1..Len(s) : TRUE
  BY LenProperties
<1>2. Rest(s, Len(s) + 1) = <<>>
  <2>1. Len(s) + 1 \in Int /\ Len(s) \in Int /\ Len(s) < Len(s) + 1
    BY <1>1
  <2> QED
    BY <2>1, SubSeqEmpty DEF Rest
<1>3. Len(s) + 1 \in FittingFrom(s)
  BY <1>1, <1>2, NothingFits DEF FittingFrom
<1>4. Len(s) + 1 \in YoungFrom(s, cutoff)
  BY <1>1 DEF YoungFrom
<1> QED
  BY <1>1, <1>3, <1>4 DEF FittingFrom, YoungFrom

LEMMA MinIsOne ==
    ASSUME NEW n \in Nat, NEW K \in SUBSET (1..n + 1), 1 \in K
    PROVE  Min(K) = 1
<1>1. Min(K) \in K /\ \A k \in K : Min(K) <= k
  <2>1. n + 1 \in Nat /\ K # {}
    OBVIOUS
  <2> QED
    BY <2>1, MinIsLeast
<1>2. Min(K) \in 1..n + 1 /\ Min(K) <= 1
  BY <1>1
<1> DEFINE m == Min(K)
<1>3. m \in 1..n + 1 /\ m <= 1
  BY <1>2
<1> HIDE DEF m
<1>4. m = 1
  BY <1>3
<1> QED
  BY <1>4 DEF m

LEMMA RecentWhole ==
    ASSUME NEW s \in Seq(Entry), FitsIn(s)
    PROVE  RecentOf(s) = s
<1>1. Len(s) \in Nat /\ FittingFrom(s) \subseteq 1..Len(s) + 1
  BY SuffixesExist
<1>2. 1 \in FittingFrom(s)
  BY <1>1, RestOfAll DEF FittingFrom
<1>3. Min(FittingFrom(s)) = 1
  BY <1>1, <1>2, MinIsOne
<1> QED
  BY <1>3, RestOfAll DEF RecentOf

LEMMA YoungWhole ==
    ASSUME NEW s \in Seq(Entry), NEW cutoff, \A i \in 1..Len(s) : s[i].createdAt >= cutoff
    PROVE  YoungOf(s, cutoff) = s
<1>1. Len(s) \in Nat /\ YoungFrom(s, cutoff) \subseteq 1..Len(s) + 1
  BY SuffixesExist
<1>2. 1 \in YoungFrom(s, cutoff)
  BY <1>1 DEF YoungFrom
<1>3. Min(YoungFrom(s, cutoff)) = 1
  BY <1>1, <1>2, MinIsOne
<1> QED
  BY <1>3, RestOfAll DEF YoungOf

LEMMA RecentTail ==
    ASSUME NEW s \in Seq(Entry), s # <<>>, ~FitsIn(s)
    PROVE  RecentOf(s) = RecentOf(Rest(s, 2))
<1> DEFINE t == Rest(s, 2)
           n == Len(s)
           K == FittingFrom(s)
           J == FittingFrom(t)
<1>1. n \in Nat \ {0} /\ 2 \in 1..n + 1
  BY EmptySeq
<1>2. t \in Seq(Entry) /\ Len(t) = n - 1
  BY <1>1, RestFacts
<1>3. K \subseteq 1..n + 1 /\ n + 1 \in K
  BY SuffixesExist
<1>4. 1 \notin K
  BY RestOfAll DEF FittingFrom
<1>5. J \subseteq 1..n
  BY <1>1, <1>2 DEF FittingFrom
<1>6. ASSUME NEW k \in 1..n PROVE k \in J <=> k + 1 \in K
  <2>1. Rest(t, k) = Rest(s, k + 1)
    BY RestOfRest
  <2>2. k \in 1..Len(t) + 1 /\ k + 1 \in 1..n + 1
    BY <1>1, <1>2
  <2> QED
    BY <2>1, <2>2 DEF FittingFrom
<1> HIDE DEF t, K, J, n
<1>7. Min(J) \in 1..n /\ Min(K) = Min(J) + 1
  <2>1. Moved(n, J, K)
    BY <1>3, <1>4, <1>5, <1>6 DEF Moved
  <2> QED
    BY <1>1, <2>1, MinMoves
<1>8. Rest(t, Min(J)) = Rest(s, Min(K))
  BY <1>7, RestOfRest DEF t, n
<1> QED
  BY <1>8 DEF RecentOf, t, K, J

LEMMA YoungTail ==
    ASSUME NEW s \in Seq(Entry), s # <<>>, NEW cutoff, ~(s[1].createdAt >= cutoff)
    PROVE  YoungOf(s, cutoff) = YoungOf(Rest(s, 2), cutoff)
<1> DEFINE t == Rest(s, 2)
           n == Len(s)
           K == YoungFrom(s, cutoff)
           J == YoungFrom(t, cutoff)
<1>1. n \in Nat \ {0} /\ 2 \in 1..n + 1 /\ 1 \in 1..n
  BY EmptySeq
<1>2. t \in Seq(Entry) /\ Len(t) = n - 2 + 1 /\ \A i \in 1..n - 2 + 1 : t[i] = s[2 + i - 1]
  BY <1>1, RestFacts
<1>2a. Len(t) = n - 1
  BY <1>1, <1>2
<1>2b. \A i \in 1..n - 1 : t[i] = s[i + 1]
  BY <1>1, <1>2
<1>3. K \subseteq 1..n + 1 /\ n + 1 \in K
  BY SuffixesExist
<1>4. 1 \notin K
  BY <1>1 DEF YoungFrom
<1>5. J \subseteq 1..n
  BY <1>1, <1>2a DEF YoungFrom
<1>6. ASSUME NEW k \in 1..n PROVE k \in J <=> k + 1 \in K
  <2>1. k \in 1..Len(t) + 1 /\ k + 1 \in 1..n + 1
    BY <1>1, <1>2a
  <2>2. ASSUME \A i \in k..n - 1 : t[i].createdAt >= cutoff, NEW i \in k + 1..n
        PROVE  s[i].createdAt >= cutoff
    <3>1. i - 1 \in k..n - 1 /\ i - 1 \in 1..n - 1 /\ (i - 1) + 1 = i
      BY <1>1
    <3>2. t[i - 1] = s[(i - 1) + 1]
      BY <1>2b, <3>1
    <3> QED
      BY <2>2, <3>1, <3>2
  <2>3. ASSUME \A i \in k + 1..n : s[i].createdAt >= cutoff, NEW i \in k..n - 1
        PROVE  t[i].createdAt >= cutoff
    <3>1. i + 1 \in k + 1..n /\ i \in 1..n - 1
      BY <1>1
    <3> QED
      BY <1>2b, <2>3, <3>1
  <2> QED
    BY <1>2a, <2>1, <2>2, <2>3 DEF YoungFrom
<1> HIDE DEF t, K, J, n
<1>7. Min(J) \in 1..n /\ Min(K) = Min(J) + 1
  <2>1. Moved(n, J, K)
    BY <1>3, <1>4, <1>5, <1>6 DEF Moved
  <2> QED
    BY <1>1, <2>1, MinMoves
<1>8. Rest(t, Min(J)) = Rest(s, Min(K))
  BY <1>7, RestOfRest DEF t, n
<1> QED
  BY <1>8 DEF YoungOf, t, K, J

-----------------------------------------------------------------------------
(* The limits and the running sums *)

LEMMA SumsUnique ==
    ASSUME NEW s \in Seq(Entry), NEW f \in [0..Len(s) -> Nat], NEW g \in [0..Len(s) -> Nat],
           RunningSums(s, f), RunningSums(s, g)
    PROVE  f[Len(s)] = g[Len(s)]
<1> DEFINE n == Len(s)
           K == {i \in 1..n : f[i] # g[i]}
<1>1. n \in Nat /\ DOMAIN s = 1..n
  BY LenProperties
<1>2. f[0] = 0 /\ g[0] = 0
  BY DEF RunningSums
<1>3. \A i \in 1..n : f[i] = f[i - 1] + s[i].bytes /\ g[i] = g[i - 1] + s[i].bytes
  BY <1>1 DEF RunningSums
<1>4. K = {}
  <2>1. ASSUME K # {} PROVE FALSE
    <3>1. PICK m \in K : \A k \in K : m <= k
      BY <1>1, <2>1, LeastExists
    <3>2. m \in 1..n /\ f[m] # g[m]
      OBVIOUS
    <3>3. CASE m = 1
      BY <1>2, <1>3, <3>2, <3>3
    <3>4. CASE m # 1
      <4>1. m - 1 \in 1..n /\ m - 1 \notin K
        BY <1>1, <3>1, <3>2, <3>4
      <4>2. f[m - 1] = g[m - 1]
        BY <4>1
      <4> QED
        BY <1>3, <3>2, <4>2
    <3> QED
      BY <3>3, <3>4
  <2> QED
    BY <2>1
<1>5. CASE n = 0
  BY <1>2, <1>5
<1>6. CASE n # 0
  BY <1>1, <1>4, <1>6
<1> QED
  BY <1>5, <1>6

\* OverLimit compares the total kept by hand: it is the sum of the sizes.
LEMMA OverLimitMeansUnfit ==
    ASSUME Consistent(entries, byID, totalBytes)
    PROVE  OverLimit <=> ~FitsIn(entries)
<1>1. entries \in Seq(Entry) /\ Len(entries) \in Nat /\ totalBytes \in Nat
  BY LenProperties DEF Consistent
<1>2. PICK f \in [0..Len(entries) -> 0..totalBytes] : Sums(entries, totalBytes, f)
  BY DEF Consistent
<1>3. RunningSums(entries, f) /\ f[Len(entries)] = totalBytes
  BY <1>2 DEF Sums
<1>4. ASSUME ~OverLimit PROVE FitsIn(entries)
  <2>1. Len(entries) <= MaxEntries /\ totalBytes <= MaxBytes
    BY <1>1, <1>4, LimitsAssumption DEF OverLimit
  <2>2. 0..totalBytes \subseteq 0..MaxBytes
    BY <1>1, <2>1, LimitsAssumption
  <2>3. f \in [0..Len(entries) -> 0..MaxBytes]
    BY <2>2
  <2> QED
    BY <1>3, <2>1, <2>3 DEF FitsIn
<1>5. ASSUME FitsIn(entries) PROVE ~OverLimit
  <2>1. PICK g \in [0..Len(entries) -> 0..MaxBytes] : RunningSums(entries, g)
    BY <1>5 DEF FitsIn
  <2>2. f \in [0..Len(entries) -> Nat] /\ g \in [0..Len(entries) -> Nat]
    BY <1>1, LimitsAssumption
  <2>3. g[Len(entries)] = totalBytes
    BY <1>1, <1>3, <2>1, <2>2, SumsUnique
  <2>4. totalBytes <= MaxBytes
    <3>1. Len(entries) \in 0..Len(entries)
      BY <1>1
    <3> QED
      BY <2>1, <2>3, <3>1, LimitsAssumption
  <2> QED
    BY <1>1, <1>5, <2>4, LimitsAssumption DEF OverLimit, FitsIn
<1> QED
  BY <1>4, <1>5


-----------------------------------------------------------------------------
(* Each step is one of RecencyLog's, or none *)

PendingOf(m, c, s) ==
    IF m = Nobody THEN s
    ELSE IF c[m].op = "evict" THEN RecentOf(s) ELSE YoungOf(s, c[m].cutoff)

LEMMA PendingMeans ==
    Pending = PendingOf(mu, call, entries) /\ Pending' = PendingOf(mu', call', entries')
<1>1. \A s : Abs!Recent(s) = RecentOf(s)
  BY SameOperators
<1>2. \A s, c : Abs!Young(s, c) = YoungOf(s, c)
  BY SameOperators
<1>3. Pending = PendingOf(mu, call, entries)
  BY <1>1, <1>2, Zenon DEF Pending, PendingOf
<1>4. Pending' = PendingOf(mu', call', entries')
  BY <1>1, <1>2, Zenon DEF Pending, PendingOf
<1> QED
  BY <1>3, <1>4

\* Without the lock a goroutine's own record does not matter.
LEMMA BeginStutters ==
    ASSUME IInv, NEW p \in Procs, call[p] = Idle, NEW c, call' = [call EXCEPT ![p] = c],
           UNCHANGED <<store, mu, now>>
    PROVE  UNCHANGED Recency!vars
<1>1. entries' = entries /\ mu' = mu /\ now' = now
  BY DEF store
<1>2. mu \in Procs \cup {Nobody} /\ call \in [Procs -> Call] /\ mu # p
  BY DEF IInv, TypeOK, LockDiscipline, Idle
<1>3. mu \in Procs => call'[mu] = call[mu]
  BY <1>2
<1>4. PendingOf(mu', call', entries') = PendingOf(mu, call, entries)
  BY <1>1, <1>2, <1>3 DEF PendingOf
<1> QED
  BY <1>1, <1>4, PendingMeans DEF Recency!vars

LEMMA PushReplaces ==
    ASSUME IInv, NEW p \in Procs, LockStore(p)
    PROVE  entries' = Append(WithoutId(entries, call[p].id), NewEntry(p))
<1> DEFINE id == call[p].id
           old == byID[id]
<1>1. /\ id \in Ids /\ entries \in Seq(Entry) /\ Indexed(entries, byID)
  BY CallFields DEF IInv, TypeOK, Consistent, LockStore
<1>2. \/ old = NoEntry /\ PushBack(entries, byID, totalBytes, NewEntry(p))
      \/ /\ old # NoEntry
         /\ \E i \in DOMAIN entries :
              /\ entries[i] = old
              /\ PushBack(RemoveAt(entries, i), IndexWithout(byID, old),
                          BytesWithout(totalBytes, old), NewEntry(p))
  BY DEF LockStore
<1> HIDE DEF id
<1>3. CASE old = NoEntry /\ PushBack(entries, byID, totalBytes, NewEntry(p))
  <2>1. ~\E i \in DOMAIN entries : entries[i].id = id
    BY <1>1, <1>3, ElementFields DEF Indexed
  <2>2. WithoutId(entries, id) = entries
    BY <2>1 DEF WithoutId
  <2> QED
    BY <1>3, <2>2 DEF PushBack, id
<1>4. ASSUME old # NoEntry, NEW i \in DOMAIN entries, entries[i] = old,
             PushBack(RemoveAt(entries, i), IndexWithout(byID, old),
                      BytesWithout(totalBytes, old), NewEntry(p))
      PROVE  entries' = Append(WithoutId(entries, id), NewEntry(p))
  <2>1. old.id = id
    BY <1>1, <1>4 DEF Indexed
  <2> DEFINE j == CHOOSE j \in DOMAIN entries : entries[j].id = id
  <2>2. j \in DOMAIN entries /\ entries[j].id = id
    BY <1>4, <2>1
  <2> HIDE DEF j
  <2>3. j = i
    BY <1>1, <1>4, <2>1, <2>2 DEF Indexed
  <2>4. WithoutId(entries, id) = RemoveAt(entries, j)
    BY <1>4, <2>1 DEF WithoutId, j
  <2> QED
    BY <1>4, <2>3, <2>4 DEF PushBack
<1> QED
  BY <1>2, <1>3, <1>4 DEF id

\* A Store takes effect when it gets the lock, evictions included.
LEMMA LockStorePuts ==
    ASSUME IInv, NEW p \in Procs, LockStore(p)
    PROVE  Recency!Put(call[p].id, call[p].bytes)
<1>1. /\ mu = Nobody /\ mu' = p /\ p # Nobody /\ now' = now
      /\ call'[p].op = "evict"
  BY NullAssumption DEF LockStore, IInv, TypeOK
<1>2. Pending = entries
  BY <1>1, PendingMeans DEF PendingOf
<1>3. Pending' = RecentOf(entries')
  <2>1. PendingOf(mu', call', entries') = RecentOf(entries')
    BY <1>1 DEF PendingOf
  <2> QED
    BY <2>1, PendingMeans
<1>4. entries' = Append(WithoutId(entries, call[p].id), NewEntry(p))
  BY PushReplaces
<1>5. Pending' = Recency!Recent(Append(Recency!Without(Pending, call[p].id), NewEntry(p)))
  BY <1>2, <1>3, <1>4, SameOperators
<1> QED
  BY <1>1, <1>5 DEF Recency!Put, NewEntry

LEMMA EvictStutters ==
    ASSUME IInv, NEW p \in Procs, EvictFront(p)
    PROVE  UNCHANGED Recency!vars
<1>1. /\ mu = p /\ mu' = p /\ p # Nobody /\ now' = now /\ call' = call
      /\ call[p].op = "evict" /\ OverLimit /\ entries # <<>>
      /\ entries' = RemoveAt(entries, 1)
  BY NullAssumption DEF EvictFront, RemoveElementLocked
<1>2. entries \in Seq(Entry) /\ ~FitsIn(entries)
  BY <1>1, OverLimitMeansUnfit DEF IInv, TypeOK
<1>3. RecentOf(entries') = RecentOf(entries)
  BY <1>1, <1>2, RemoveFront, RecentTail
<1>4. PendingOf(mu', call', entries') = PendingOf(mu, call, entries)
  BY <1>1, <1>3 DEF PendingOf
<1> QED
  BY <1>1, <1>4, PendingMeans DEF Recency!vars

LEMMA EndStoreStutters ==
    ASSUME IInv, NEW p \in Procs, EndStore(p)
    PROVE  UNCHANGED Recency!vars
<1>1. /\ mu = p /\ mu' = Nobody /\ p # Nobody /\ now' = now /\ entries' = entries
      /\ call[p].op = "evict"
  BY NullAssumption DEF EndStore, Return, store
<1>2. FitsIn(entries)
  BY OverLimitMeansUnfit, NothingFits DEF EndStore, IInv
<1>3. RecentOf(entries) = entries
  BY <1>2, RecentWhole DEF IInv, TypeOK
<1>4. PendingOf(mu', call', entries') = PendingOf(mu, call, entries)
  BY <1>1, <1>3 DEF PendingOf
<1> QED
  BY <1>1, <1>4, PendingMeans DEF Recency!vars

\* So does a Cleanup; one that reaches back before the clock began does nothing.
LEMMA LockCleanupExpires ==
    ASSUME IInv, CutoffsPast, NEW p \in Procs, LockCleanup(p)
    PROVE  [Recency!Next]_(Recency!vars)
<1> DEFINE cutoff == call[p].cutoff
<1>1. /\ mu = Nobody /\ mu' = p /\ p # Nobody /\ now' = now /\ entries' = entries
      /\ call'[p].op = "sweep" /\ call'[p].cutoff = cutoff
      /\ call[p].op = "cleanup"
  BY NullAssumption DEF LockCleanup, store, IInv, TypeOK
<1>2. Pending = entries
  BY <1>1, PendingMeans DEF PendingOf
<1>3. Pending' = YoungOf(entries, cutoff)
  <2>1. PendingOf(mu', call', entries') = YoungOf(entries, cutoff)
    BY <1>1 DEF PendingOf
  <2> QED
    BY <2>1, PendingMeans
<1>4. PICK maxAge \in Ages \ {0} : cutoff + maxAge <= now
  BY <1>1 DEF CutoffsPast, CutoffIsPast
<1>5. cutoff \in Int /\ maxAge \in Nat \ {0} /\ now \in Nat
  BY <1>1, CallFields, DataAssumption, TimeAssumption DEF IInv, TypeOK
<1>6. entries \in Seq(Entry)
  BY DEF IInv, TypeOK
<1> HIDE DEF cutoff
<1>7. cutoff < now
  BY <1>4, <1>5
<1>8. CASE cutoff >= 0
  <2>1. cutoff \in 0..now
    BY <1>5, <1>7, <1>8
  <2>2. Pending' = Recency!Young(Pending, cutoff)
    BY <1>2, <1>3, SameOperators
  <2>3. Recency!Expire(cutoff)
    BY <1>1, <2>2 DEF Recency!Expire
  <2> QED
    BY <1>7, <2>1, <2>3 DEF Recency!Next
<1>9. CASE ~(cutoff >= 0)
  <2>1. ASSUME NEW i \in 1..Len(entries) PROVE entries[i].createdAt >= cutoff
    <3>1. entries[i].createdAt \in Nat
      BY <1>6, ElementFields, LenProperties
    <3> QED
      BY <1>5, <1>9, <3>1
  <2>2. YoungOf(entries, cutoff) = entries
    BY <1>6, <2>1, YoungWhole
  <2> QED
    BY <1>1, <1>2, <1>3, <2>2 DEF Recency!vars
<1> QED
  BY <1>8, <1>9

\* The sweep looks at every element, but what it removes is at the front.
LEMMA SweepStutters ==
    ASSUME IInv, NEW p \in Procs, SweepElem(p)
    PROVE  UNCHANGED Recency!vars
<1> DEFINE cutoff == call[p].cutoff
           at == call[p].at
<1>1. /\ mu = p /\ mu' = p /\ p # Nobody /\ now' = now
      /\ call[p].op = "sweep" /\ at \in DOMAIN entries
  BY NullAssumption DEF SweepElem
<1>2. call[p] \in [op : {"sweep"}, cutoff : Int, at : Nat \ {0}] /\ call \in [Procs -> Call]
  BY <1>1, CallFields DEF IInv, TypeOK
<1>3. call'[p].op = "sweep" /\ call'[p].cutoff = cutoff
  BY <1>1, <1>2 DEF SweepElem
<1>4. entries \in Seq(Entry) /\ Len(entries) \in Nat /\ at \in 1..Len(entries) /\ cutoff \in Int
      /\ entries # <<>>
  BY <1>1, <1>2, LenProperties, EmptySeq DEF IInv, TypeOK
<1>5. YoungOf(entries', cutoff) = YoungOf(entries, cutoff)
  <2>1. CASE Expired(p) /\ RemoveElementLocked(at)
    <3>1. entries[at].createdAt < cutoff /\ entries[at].createdAt \in Nat
      BY <1>4, <2>1, ElementFields DEF Expired
    <3>2. 1 \in 1..Len(entries) /\ entries[1].createdAt \in Nat
      BY <1>4, ElementFields
    <3>3. 1 < at => entries[1].createdAt >= cutoff
      BY <1>1, <1>4, <3>2 DEF IInv, SweptIsYoung
    <3>4. 1 < at => entries[1].createdAt <= entries[at].createdAt
      BY <1>4, <3>2 DEF IInv, Consistent, Sorted
    <3>5. at = 1
      <4> HIDE DEF at, cutoff
      <4> QED
        BY <1>4, <3>1, <3>2, <3>3, <3>4
    <3>6. entries' = Rest(entries, 2)
      BY <1>4, <2>1, <3>5, RemoveFront DEF RemoveElementLocked
    <3>7. ~(entries[1].createdAt >= cutoff)
      <4> HIDE DEF at, cutoff
      <4> QED
        BY <1>4, <3>1, <3>5
    <3> QED
      BY <1>4, <3>6, <3>7, YoungTail
  <2>2. CASE entries' = entries
    BY <2>2
  <2> QED
    BY <2>1, <2>2 DEF SweepElem, store
<1>6. PendingOf(mu', call', entries') = PendingOf(mu, call, entries)
  BY <1>1, <1>3, <1>5 DEF PendingOf
<1> QED
  BY <1>1, <1>6, PendingMeans DEF Recency!vars

LEMMA EndCleanupStutters ==
    ASSUME IInv, NEW p \in Procs, EndCleanup(p)
    PROVE  UNCHANGED Recency!vars
<1>1. /\ mu = p /\ mu' = Nobody /\ p # Nobody /\ now' = now /\ entries' = entries
      /\ call[p].op = "sweep" /\ call[p].at \notin DOMAIN entries
  BY NullAssumption DEF EndCleanup, Return, store
<1>2. call[p].at \in Nat \ {0} /\ entries \in Seq(Entry) /\ Len(entries) \in Nat
      /\ DOMAIN entries = 1..Len(entries)
  BY <1>1, CallFields, LenProperties DEF IInv, TypeOK
<1>3. \A i \in 1..Len(entries) : entries[i].createdAt >= call[p].cutoff
  BY <1>1, <1>2 DEF IInv, SweptIsYoung
<1>4. YoungOf(entries, call[p].cutoff) = entries
  BY <1>2, <1>3, YoungWhole
<1>5. PendingOf(mu', call', entries') = PendingOf(mu, call, entries)
  BY <1>1, <1>4 DEF PendingOf
<1> QED
  BY <1>1, <1>5, PendingMeans DEF Recency!vars

LEMMA StepsImplement ==
    IInv /\ CutoffsPast /\ [Next]_vars => [Recency!Next]_(Recency!vars)
<1> SUFFICES ASSUME IInv, CutoffsPast, [Next]_vars
             PROVE  [Recency!Next]_(Recency!vars)
  OBVIOUS
<1>1. ASSUME NEW p \in Procs, NEW id \in Ids, NEW bytes \in Sizes, BeginStore(p, id, bytes)
      PROVE  UNCHANGED Recency!vars
  BY <1>1, BeginStutters DEF BeginStore
<1>2. ASSUME NEW p \in Procs, NEW maxAge \in Ages, BeginCleanup(p, maxAge)
      PROVE  UNCHANGED Recency!vars
  BY <1>2, BeginStutters DEF BeginCleanup
<1>3. ASSUME NEW p \in Procs, LockStore(p)
      PROVE  Recency!Next
  <2>1. call[p].id \in Ids /\ call[p].bytes \in Sizes
    BY <1>3, CallFields DEF LockStore, IInv, TypeOK
  <2> QED
    BY <1>3, <2>1, LockStorePuts DEF Recency!Next
<1>4. ASSUME Tick
      PROVE  Recency!Tick
  <2>1. mu' = mu /\ call' = call /\ entries' = entries /\ now < MaxTime /\ now' = now + 1
    BY <1>4 DEF Tick, store
  <2>2. Pending' = Pending
    BY <2>1, PendingMeans
  <2> QED
    BY <2>1, <2>2 DEF Recency!Tick
<1>5. ASSUME UNCHANGED vars
      PROVE  UNCHANGED Recency!vars
  <2>1. mu' = mu /\ call' = call /\ entries' = entries /\ now' = now
    BY <1>5 DEF vars
  <2> QED
    BY <2>1, PendingMeans DEF Recency!vars
<1>6. Recency!Tick => Recency!Next
  BY DEF Recency!Next
<1> QED
  BY <1>1, <1>2, <1>3, <1>4, <1>5, <1>6, EvictStutters, EndStoreStutters, LockCleanupExpires,
     SweepStutters, EndCleanupStutters DEF Next, Step

\* Callers of the storage see RecencyLog: however Store, its evictions and
\* Cleanup interleave, each takes effect at once, at the moment it gets the lock
\* (storage_memory.go).
THEOREM LogImplemented == Spec => ImplementsRecencyLog
<1>1. Init => Recency!Init
  <2> SUFFICES ASSUME Init PROVE Recency!Init
    OBVIOUS
  <2>1. mu = Nobody /\ entries = <<>> /\ now = 0
    BY DEF Init
  <2>2. Pending = <<>>
    BY <2>1, PendingMeans DEF PendingOf
  <2> QED
    BY <2>1, <2>2 DEF Recency!Init
<1>2. Init => CutoffsPast
  BY DEF Init, CutoffsPast, CutoffIsPast, Idle
<1>3. Spec => Recency!Init /\ [][Recency!Next]_(Recency!vars)
  BY <1>1, <1>2, CutoffsStayPast, StepsImplement, Invariance, PTL DEF Spec
<1> QED
  BY <1>3 DEF ImplementsRecencyLog, Recency!Spec

-----------------------------------------------------------------------------
(* The cleanup loop *)

\* The loop changes the storage by a Cleanup only; its select, its ticker and its
\* stop channel leave the storage alone.
LEMMA LoopStepsAreSteps == [LoopNext]_loopVars => [Next]_vars
<1> SUFFICES ASSUME [LoopNext]_loopVars PROVE [Next]_vars
  OBVIOUS
<1>1. CASE TakeTick
  <2>1. Loop \in Procs /\ Retention \in Ages /\ BeginCleanup(Loop, Retention)
    BY <1>1, LoopAssumption, PeriodAssumption DEF TakeTick
  <2> QED
    BY <2>1 DEF Next
<1>2. CASE TakeStop \/ CloseStop
  BY <1>2 DEF TakeStop, CloseStop
<1>3. CASE ClockAdvances
  BY <1>3 DEF ClockAdvances, Next
<1>4. CASE \E p \in Procs : LoopStep(p)
  BY <1>4 DEF LoopStep, Next
<1>5. CASE \E p \in Procs \ {Loop}, id \in Ids, bytes \in Sizes :
             BeginStore(p, id, bytes) /\ UNCHANGED loopState
  BY <1>5 DEF Next
<1>6. CASE UNCHANGED loopVars
  BY <1>6 DEF loopVars
<1> QED
  BY <1>1, <1>2, <1>3, <1>4, <1>5, <1>6 DEF LoopNext

\* A storage that StartCleanupLoop cleans up (clockwork.go) behaves like any
\* other: all of the above holds with the loop in place, whatever its intervals.
THEOREM LoopRefines == LoopSpec => Spec
<1>1. LoopInit => Init
  BY DEF LoopInit
<1> QED
  BY <1>1, LoopStepsAreSteps, PTL DEF LoopSpec, Spec

\* So a storage under the loop is still a RecencyLog to the requests: the Cleanups
\* that the loop runs turn by turn between their calls take effect at once, too.
THEOREM LoopImplementsLog == LoopSpec => ImplementsRecencyLog
BY LoopRefines, LogImplemented
=============================================================================
