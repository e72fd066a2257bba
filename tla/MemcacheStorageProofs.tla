----------------------- MODULE MemcacheStorageProofs -----------------------
(***************************************************************************)
(* The properties of MemcacheStorage for any goroutines, Storage values,    *)
(* ids and limit.                                                           *)
(***************************************************************************)
EXTENDS MemcacheStorage, SequenceTheorems, FiniteSetTheorems, TLAPS

-----------------------------------------------------------------------------
(* The inductive invariant *)

Elements(ids) == {ids[i] : i \in DOMAIN ids}
NoneTwice(ids) == \A i, j \in DOMAIN ids : ids[i] = ids[j] => i = j
Precedes(ids, b, a) == \A i \in DOMAIN ids : ids[i] = a => \E j \in 1..(i - 1) : ids[j] = b

\* The ids that are stored for the first time, by a goroutine other than this one
\* or by any, and that no index can contain yet.
ComingBy(p) == call[p].at \in {"set", "lock", "save"} /\ call[p].id \notin again
ComingBut(p) == {call[q].id : q \in {r \in Procs \ {p} : ComingBy(r)}}
Coming == {call[q].id : q \in {r \in Procs : ComingBy(r)}}

\* An id whose Store goes on is not done, and if another Store of it goes on, it
\* is stored again.
Calls ==
    /\ \A p \in Procs : call[p] # Idle => call[p].id \in begun \ done /\ StorageOf[p] \in used
    /\ \A p, q \in Procs :
          call[p] # Idle /\ call[q] # Idle /\ call[p].id = call[q].id /\ p # q
             => call[p].id \in again

Held == \A s \in Storages, p \in Procs : mu[s] = p => StorageOf[p] = s

Befores == \A a, b \in Ids : <<a, b>> \in before => a \in done /\ a # b

\* The half of NewestFirst that holds whatever happens.
InOrder(ids, pairs, repeated) ==
    \A i, j \in DOMAIN ids :
        <<ids[i], ids[j]>> \in pairs /\ {ids[i], ids[j]} \cap repeated = {} => j < i

Proper(ids) ==
    /\ NoneTwice(ids) /\ (MaxEntries > 0 => Len(ids) <= MaxEntries)
    /\ Elements(ids) \subseteq begun \ Coming
    /\ InOrder(ids, before, again)

\* The index, and any index that may be saved some day.
Lists ==
    /\ Proper(index)
    /\ \A p \in Procs : call[p].at = "save" => Proper(call[p].ids)
    /\ \A p \in Procs : call[p].at = "delete" => Elements(call[p].evicted) \subseteq begun \ Coming

\* Within one process and without failures, the goroutine that holds the mutex
\* knows what the index is.
Agreement ==
    \A p \in Procs :
        /\ call[p].at = "save" => call[p].ids = index
        /\ call[p].at = "delete" =>
              /\ index # <<>> /\ index[1] = call[p].id
              /\ Elements(call[p].evicted) \cap Listed = {}
        /\ call[p].at \in {"lock", "save"} => call[p].id \in items \cup again

DoneFirst == \A a, b \in Ids : <<a, b>> \in before /\ b \in done => Precedes(index, b, a)

DoneListed == \A id \in done \ Listed : MaxEntries > 0 /\ Len(index) = MaxEntries

IInv ==
    /\ TypeOK /\ Calls /\ Held /\ Befores /\ Lists
    /\ OneProcess => Agreement /\ DoneFirst /\ DoneListed
    /\ ListedIsStored /\ NoOrphans

-----------------------------------------------------------------------------
(* The lists of ids *)

LEMMA UptoFacts ==
    ASSUME NEW n \in Nat
    PROVE  IsFiniteSet(1..n) /\ Cardinality(1..n) = n
<1>1. 1 \in Int /\ n \in Int
  OBVIOUS
<1>2. IsFiniteSet(1..n) /\ Cardinality(1..n) = IF 1 > n THEN 0 ELSE n - 1 + 1
  BY <1>1, FS_Interval
<1> QED BY <1>2

LEMMA RankFacts ==
    ASSUME NEW n \in Nat, NEW k \in Nat \ {0}, NEW i \in (1..n) \ {k}
    PROVE  Rank((1..n) \ {k}, i) = IF i < k THEN i ELSE i - 1
<1> DEFINE reached == {j \in (1..n) \ {k} : j <= i}
<1>1. IsFiniteSet(1..i) /\ Cardinality(1..i) = i
  BY UptoFacts
<1>2. CASE i < k
  <2>1. reached = 1..i
    BY <1>2
  <2> QED BY <1>1, <1>2, <2>1 DEF Rank
<1>3. CASE ~(i < k)
  <2>1. reached = (1..i) \ {k} /\ k \in 1..i
    BY <1>3
  <2>2. Cardinality((1..i) \ {k}) = Cardinality(1..i) - 1
    BY <1>1, <2>1, FS_RemoveElement
  <2> QED BY <1>1, <1>3, <2>1, <2>2 DEF Rank
<1> QED BY <1>2, <1>3

\* k is where id is in ids, or one more than its length if id is not there.
IsPlace(k, ids, id) ==
    /\ k \in 1..(Len(ids) + 1)
    /\ k <= Len(ids) => ids[k] = id
    /\ \A i \in 1..Len(ids) : i # k => ids[i] # id

LEMMA PlaceExists ==
    ASSUME NEW ids \in Seq(Ids), NoneTwice(ids), NEW id \in Ids
    PROVE  \E k : IsPlace(k, ids, id)
<1>1. Len(ids) \in Nat /\ DOMAIN ids = 1..Len(ids)
  OBVIOUS
<1>2. CASE \E k \in 1..Len(ids) : ids[k] = id
  <2>1. PICK k \in 1..Len(ids) : ids[k] = id
    BY <1>2
  <2>2. \A i \in 1..Len(ids) : i # k => ids[i] # id
    BY <1>1, <2>1 DEF NoneTwice
  <2>3. k \in 1..(Len(ids) + 1)
    BY <1>1
  <2> QED BY <2>1, <2>2, <2>3 DEF IsPlace
<1>3. CASE ~\E k \in 1..Len(ids) : ids[k] = id
  BY <1>1, <1>3 DEF IsPlace
<1> QED BY <1>2, <1>3

LEMMA WithoutFacts ==
    ASSUME NEW ids \in Seq(Ids), NEW id \in Ids, NEW k, IsPlace(k, ids, id)
    PROVE  /\ Without(ids, id) \in Seq(Ids)
           /\ Len(Without(ids, id)) = IF k <= Len(ids) THEN Len(ids) - 1 ELSE Len(ids)
           /\ \A n \in 1..Len(Without(ids, id)) :
                Without(ids, id)[n] = IF n < k THEN ids[n] ELSE ids[n + 1]
<1> DEFINE N == Len(ids)
<1> DEFINE others == (1..N) \ {k}
<1> DEFINE at(n) == IF n < k THEN n ELSE n + 1
<1> DEFINE m == IF k <= N THEN N - 1 ELSE N
<1>1. N \in Nat /\ DOMAIN ids = 1..N /\ k \in Nat \ {0} /\ k \in 1..(N + 1) /\ m \in Nat
  BY DEF IsPlace
<1>2. Others(ids, id) = others
  BY <1>1 DEF Others, IsPlace
<1>3. Cardinality(others) = m
  <2>1. IsFiniteSet(1..N) /\ Cardinality(1..N) = N
    BY <1>1, UptoFacts
  <2>2. CASE k <= N
    <3>1. k \in 1..N
      BY <1>1, <2>2
    <3>2. Cardinality((1..N) \ {k}) = Cardinality(1..N) - 1
      BY <2>1, <3>1, FS_RemoveElement
    <3> QED BY <2>1, <2>2, <3>2
  <2>3. CASE ~(k <= N)
    <3>1. others = 1..N
      BY <1>1, <2>3
    <3> QED BY <2>1, <2>3, <3>1
  <2> QED BY <2>2, <2>3
<1>4. ASSUME NEW n \in 1..m
      PROVE  /\ at(n) \in others
             /\ (CHOOSE i \in Others(ids, id) : Rank(Others(ids, id), i) = n) = at(n)
  <2>1. at(n) \in others
    BY <1>1
  <2>2. \A i \in others : Rank(others, i) = IF i < k THEN i ELSE i - 1
    BY <1>1, RankFacts
  <2>3. Rank(others, at(n)) = n
    <3>1. Rank(others, at(n)) = IF at(n) < k THEN at(n) ELSE at(n) - 1
      <4> HIDE DEF others, at
      <4> QED BY <2>1, <2>2
    <3>2. (IF at(n) < k THEN at(n) ELSE at(n) - 1) = n
      BY <1>1
    <3> QED BY <3>1, <3>2
  <2>4. \A i \in others : Rank(others, i) = n => i = at(n)
    BY <1>1, <2>2
  <2> HIDE DEF others, at
  <2>5. /\ at(n) \in Others(ids, id) /\ Rank(Others(ids, id), at(n)) = n
        /\ \A i \in Others(ids, id) : Rank(Others(ids, id), i) = n => i = at(n)
    BY <1>2, <2>1, <2>3, <2>4
  <2> QED BY <2>1, <2>5
<1>5. \A n \in 1..m : ids[at(n)] \in Ids
  <2>1. \A n \in 1..m : at(n) \in 1..N
    BY <1>4
  <2> HIDE DEF at
  <2> QED BY <2>1, ElementOfSeq
<1>6. Without(ids, id) = [n \in 1..m |-> ids[at(n)]]
  <2>1. Cardinality(Others(ids, id)) = m
    BY <1>2, <1>3
  <2> DEFINE chosen(n) == CHOOSE i \in Others(ids, id) : Rank(Others(ids, id), i) = n
  <2>2. Without(ids, id) = [n \in 1..Cardinality(Others(ids, id)) |-> ids[chosen(n)]]
    BY DEF Without
  <2> HIDE DEF others, at, m
  <2>3. \A n \in 1..m : chosen(n) = at(n)
    BY <1>4
  <2> HIDE DEF chosen
  <2> QED BY <2>1, <2>2, <2>3
<1> HIDE DEF m
<1>7. Without(ids, id) \in Seq(Ids) /\ Len(Without(ids, id)) = m
  BY <1>1, <1>5, <1>6
<1>8. \A n \in 1..m : Without(ids, id)[n] = ids[at(n)]
  BY <1>6
<1> QED BY <1>7, <1>8 DEF m

Src(k, i) == IF i <= k THEN i - 1 ELSE i

IsMerged(new, ids, id, k) ==
    /\ new \in Seq(Ids)
    /\ Len(new) = IF k <= Len(ids) THEN Len(ids) ELSE Len(ids) + 1
    /\ new[1] = id
    /\ \A i \in 2..Len(new) :
          Src(k, i) \in 1..Len(ids) /\ Src(k, i) # k /\ new[i] = ids[Src(k, i)]

LEMMA PrependFacts ==
    ASSUME NEW ids \in Seq(Ids), NEW id \in Ids, NEW k, IsPlace(k, ids, id)
    PROVE  IsMerged(PrependUnique(ids, id), ids, id, k)
<1> DEFINE rest == Without(ids, id)
<1> DEFINE new == <<id>> \o rest
<1>1. /\ rest \in Seq(Ids)
      /\ Len(rest) = IF k <= Len(ids) THEN Len(ids) - 1 ELSE Len(ids)
      /\ \A n \in 1..Len(rest) : rest[n] = IF n < k THEN ids[n] ELSE ids[n + 1]
  BY WithoutFacts
<1>2. Len(ids) \in Nat /\ k \in 1..(Len(ids) + 1) /\ Len(rest) \in Nat
  BY <1>1 DEF IsPlace
<1> HIDE DEF rest
<1>3. new \in Seq(Ids) /\ Len(new) = Len(rest) + 1 /\ new[1] = id
      /\ \A i \in 2..Len(new) : new[i] = rest[i - 1]
  <2>1. <<id>> \in Seq(Ids) /\ Len(<<id>>) = 1 /\ <<id>>[1] = id
    OBVIOUS
  <2>2. /\ new \in Seq(Ids) /\ Len(new) = 1 + Len(rest)
        /\ \A i \in 1..(1 + Len(rest)) : new[i] = IF i <= 1 THEN <<id>>[i] ELSE rest[i - 1]
    BY <1>1, <2>1, ConcatProperties
  <2> HIDE DEF new
  <2> QED BY <1>2, <2>1, <2>2
<1> HIDE DEF new
<1>4. ASSUME NEW i \in 2..Len(new)
      PROVE  Src(k, i) \in 1..Len(ids) /\ Src(k, i) # k /\ new[i] = ids[Src(k, i)]
  <2>1. i - 1 \in 1..Len(rest) /\ new[i] = rest[i - 1]
    BY <1>2, <1>3
  <2>2. rest[i - 1] = IF i - 1 < k THEN ids[i - 1] ELSE ids[i - 1 + 1]
    BY <1>1, <2>1
  <2>3. (i - 1 < k <=> i <= k) /\ i - 1 + 1 = i
    BY <1>2
  <2>4. new[i] = ids[Src(k, i)]
    BY <2>1, <2>2, <2>3 DEF Src
  <2>5. Src(k, i) \in 1..Len(ids) /\ Src(k, i) # k
    BY <1>1, <1>2, <2>1 DEF Src
  <2> QED BY <2>4, <2>5
<1>5. Len(new) = IF k <= Len(ids) THEN Len(ids) ELSE Len(ids) + 1
  BY <1>1, <1>2, <1>3
<1> QED BY <1>3, <1>4, <1>5 DEF IsMerged, PrependUnique, new, rest

\* What Store saves and evicts, when it has read ids, for id.
IsSaved(kept, evicted, ids, id) ==
    /\ kept \in Seq(Ids) /\ evicted \in Seq(Ids)
    /\ kept # <<>> /\ kept[1] = id /\ NoneTwice(kept)
    /\ MaxEntries > 0 => Len(kept) <= MaxEntries
    /\ Elements(kept) \subseteq Elements(ids) \cup {id} /\ id \in Elements(kept)
    /\ Elements(evicted) \subseteq Elements(ids) /\ Elements(evicted) \cap Elements(kept) = {}
    /\ Elements(ids) \subseteq Elements(kept) \cup Elements(evicted)
    /\ \A x \in Elements(ids) \ Elements(kept) : MaxEntries > 0 /\ Len(kept) = MaxEntries
    /\ MaxEntries > 0 /\ Len(ids) = MaxEntries => Len(kept) = MaxEntries
    /\ \A i, j \in 2..Len(kept) : \E m, n \in DOMAIN ids :
          kept[i] = ids[m] /\ kept[j] = ids[n] /\ (n < m => j < i)
    /\ \A a, b \in Ids \ {id} : Precedes(ids, b, a) => Precedes(kept, b, a)

\* The cut: what is kept is a prefix, and the rest is evicted.
LEMMA CutFacts ==
    ASSUME NEW new \in Seq(Ids), new # <<>>
    PROVE  /\ Kept(new) \in Seq(Ids) /\ Evicted(new) \in Seq(Ids)
           /\ Len(Kept(new)) \in 1..Len(new)
           /\ \A i \in 1..Len(Kept(new)) : Kept(new)[i] = new[i]
           /\ Len(Evicted(new)) = Len(new) - Len(Kept(new))
           /\ \A i \in 1..Len(Evicted(new)) :
                 /\ i + Len(Kept(new)) \in 1..Len(new)
                 /\ Evicted(new)[i] = new[i + Len(Kept(new))]
           /\ MaxEntries > 0 => Len(Kept(new)) <= MaxEntries
           /\ Len(Kept(new)) < Len(new) => MaxEntries > 0 /\ Len(Kept(new)) = MaxEntries
<1>1. Len(new) \in Nat \ {0} /\ MaxEntries \in Nat
  BY LimitAssumption, EmptySeq
<1>2. \A i \in 1..Len(new) : new[i] \in Ids
  BY ElementOfSeq
<1>3. CASE TooMany(new)
  <2>1. MaxEntries \in 1..Len(new) /\ MaxEntries < Len(new) /\ MaxEntries > 0
    BY <1>1, <1>3 DEF TooMany
  <2>2. /\ Kept(new) \in Seq(Ids) /\ Len(Kept(new)) = MaxEntries
        /\ \A i \in 1..MaxEntries : Kept(new)[i] = new[i]
    <3>1. \A i \in 1..MaxEntries : new[i] \in Ids
      BY <1>1, <1>2, <2>1
    <3>2. /\ SubSeq(new, 1, MaxEntries) \in Seq(Ids)
          /\ Len(SubSeq(new, 1, MaxEntries)) =
                IF 1 <= MaxEntries THEN MaxEntries - 1 + 1 ELSE 0
          /\ \A i \in 1..(MaxEntries - 1 + 1) : SubSeq(new, 1, MaxEntries)[i] = new[1 + i - 1]
      BY <1>1, <3>1, SubSeqProperties
    <3> QED BY <1>1, <1>3, <2>1, <3>2 DEF Kept
  <2>3. /\ Evicted(new) \in Seq(Ids) /\ Len(Evicted(new)) = Len(new) - MaxEntries
        /\ \A i \in 1..(Len(new) - MaxEntries) : Evicted(new)[i] = new[i + MaxEntries]
    <3> DEFINE m == MaxEntries + 1
    <3>0. m \in Int /\ m <= Len(new)
      BY <1>1, <2>1
    <3>1. \A i \in m..Len(new) : new[i] \in Ids
      BY <1>1, <1>2
    <3>2. Evicted(new) = SubSeq(new, m, Len(new))
      BY <1>3 DEF Evicted
    <3>5. m = MaxEntries + 1
      OBVIOUS
    <3> HIDE DEF m
    <3>3. /\ SubSeq(new, m, Len(new)) \in Seq(Ids)
          /\ Len(SubSeq(new, m, Len(new))) = IF m <= Len(new) THEN Len(new) - m + 1 ELSE 0
          /\ \A i \in 1..(Len(new) - m + 1) : SubSeq(new, m, Len(new))[i] = new[m + i - 1]
      BY <1>1, <3>0, <3>1, SubSeqProperties
    <3>4. Len(new) - m + 1 = Len(new) - MaxEntries
          /\ \A i \in 1..(Len(new) - MaxEntries) : m + i - 1 = i + MaxEntries
      BY <1>1, <3>5
    <3> QED BY <3>0, <3>2, <3>3, <3>4
  <2> QED BY <1>1, <2>1, <2>2, <2>3
<1>4. CASE ~TooMany(new)
  <2>1. Kept(new) = new /\ Evicted(new) = <<>>
    BY <1>4 DEF Kept, Evicted
  <2>2. Evicted(new) \in Seq(Ids) /\ Len(Evicted(new)) = 0
    BY <2>1
  <2> QED BY <1>1, <1>4, <2>1, <2>2 DEF TooMany
<1> QED BY <1>3, <1>4

LEMMA SaveFacts ==
    ASSUME NEW ids \in Seq(Ids), NoneTwice(ids), NEW id \in Ids
    PROVE  LET new == PrependUnique(ids, id)
           IN  IsSaved(Kept(new), Evicted(new), ids, id)
<1> DEFINE new == PrependUnique(ids, id)
<1> DEFINE kept == Kept(new)
<1> DEFINE evicted == Evicted(new)
<1>1. PICK k : IsPlace(k, ids, id)
  BY PlaceExists
<1>2. IsMerged(new, ids, id, k)
  BY <1>1, PrependFacts
<1> HIDE DEF new
<1>3. /\ Len(ids) \in Nat /\ DOMAIN ids = 1..Len(ids) /\ k \in 1..(Len(ids) + 1)
      /\ new \in Seq(Ids) /\ Len(new) \in Nat \ {0} /\ DOMAIN new = 1..Len(new)
  BY <1>1, <1>2 DEF IsMerged, IsPlace
<1>4. new # <<>>
  BY <1>3
<1>5. /\ kept \in Seq(Ids) /\ evicted \in Seq(Ids)
      /\ Len(kept) \in 1..Len(new)
      /\ \A i \in 1..Len(kept) : kept[i] = new[i]
      /\ Len(evicted) = Len(new) - Len(kept)
      /\ \A i \in 1..Len(evicted) :
            i + Len(kept) \in 1..Len(new) /\ evicted[i] = new[i + Len(kept)]
      /\ MaxEntries > 0 => Len(kept) <= MaxEntries
      /\ Len(kept) < Len(new) => MaxEntries > 0 /\ Len(kept) = MaxEntries
  BY <1>3, <1>4, CutFacts
<1> HIDE DEF kept, evicted
<1>6. /\ DOMAIN kept = 1..Len(kept) /\ DOMAIN evicted = 1..Len(evicted)
      /\ Len(kept) \in Nat /\ Len(evicted) \in Nat
  BY <1>5, LenProperties
\* Where the ids come from.
<1>7. ASSUME NEW i \in 2..Len(new)
      PROVE  /\ Src(k, i) \in 1..Len(ids) /\ new[i] = ids[Src(k, i)] /\ new[i] # id
             /\ new[i] \in Elements(ids)
  <2>1. Src(k, i) \in 1..Len(ids) /\ Src(k, i) # k /\ new[i] = ids[Src(k, i)]
    BY <1>2 DEF IsMerged
  <2> QED BY <1>1, <1>3, <2>1 DEF IsPlace, Elements
<1>8. new[1] = id
  BY <1>2 DEF IsMerged
<1>9. \A i, j \in 2..Len(new) : Src(k, i) = Src(k, j) => i = j
  <2>1. \A i \in 2..Len(new) : Src(k, i) # k
    BY <1>2 DEF IsMerged
  <2> QED BY <1>3, <2>1 DEF Src
<1>10. \A i, j \in 1..Len(new) : new[i] = new[j] => i = j
  <2> SUFFICES ASSUME NEW i \in 1..Len(new), NEW j \in 1..Len(new), new[i] = new[j]
               PROVE  i = j
    OBVIOUS
  <2>1. CASE i = 1 \/ j = 1
    <3>1. \A n \in 1..Len(new) : n # 1 => n \in 2..Len(new)
      BY <1>3
    <3> QED BY <1>7, <1>8, <2>1, <3>1
  <2>2. CASE i # 1 /\ j # 1
    <3>1. i \in 2..Len(new) /\ j \in 2..Len(new)
      BY <1>3, <2>2
    <3>2. Src(k, i) = Src(k, j)
      BY <1>3, <1>7, <3>1 DEF NoneTwice
    <3> QED BY <1>9, <3>1, <3>2
  <2> QED BY <2>1, <2>2
<1>11. \A x \in Elements(ids) : \E i \in 1..Len(new) : new[i] = x
  <2> SUFFICES ASSUME NEW n \in 1..Len(ids)
               PROVE  \E i \in 1..Len(new) : new[i] = ids[n]
    BY <1>3 DEF Elements
  <2>1. CASE n = k
    BY <1>1, <1>3, <1>8, <2>1 DEF IsPlace
  <2>2. CASE n # k
    <3> DEFINE i == IF n < k THEN n + 1 ELSE n
    <3>1. i \in 2..Len(new) /\ Src(k, i) = n
      BY <1>2, <1>3, <2>2 DEF IsMerged, Src
    <3> HIDE DEF i
    <3>2. new[i] = ids[n]
      BY <1>7, <3>1
    <3> QED BY <1>3, <3>1, <3>2
  <2> QED BY <2>1, <2>2
\* The parts of IsSaved.
<1>12. kept # <<>> /\ kept[1] = id /\ id \in Elements(kept)
  <2>1. 1 \in 1..Len(kept)
    BY <1>5, <1>6
  <2>2. kept # <<>>
    BY <1>5, <1>6, <2>1
  <2> QED BY <1>5, <1>6, <1>8, <2>1, <2>2 DEF Elements
<1>13. NoneTwice(kept)
  <2>1. \A i \in 1..Len(kept) : i \in 1..Len(new) /\ kept[i] = new[i]
    BY <1>3, <1>5, <1>6
  <2> QED BY <1>6, <1>10, <2>1 DEF NoneTwice
<1>14. Elements(kept) \subseteq Elements(ids) \cup {id}
  <2>1. \A i \in 1..Len(kept) : i = 1 \/ i \in 2..Len(new)
    BY <1>3, <1>5, <1>6
  <2>2. \A i \in 1..Len(kept) : kept[i] \in Elements(ids) \cup {id}
    BY <1>5, <1>7, <1>8, <2>1
  <2> QED BY <1>6, <2>2 DEF Elements
<1>15. \A i \in 1..Len(evicted) : i + Len(kept) \in 2..Len(new) /\ evicted[i] = new[i + Len(kept)]
  BY <1>3, <1>5, <1>6
<1>16. Elements(evicted) \subseteq Elements(ids)
  <2>1. \A i \in 1..Len(evicted) : evicted[i] \in Elements(ids)
    BY <1>7, <1>15
  <2> QED BY <1>6, <2>1 DEF Elements
<1>17. Elements(evicted) \cap Elements(kept) = {}
  <2>1. ASSUME NEW i \in 1..Len(evicted), NEW j \in 1..Len(kept) PROVE evicted[i] # kept[j]
    <3>1. i + Len(kept) # j /\ j \in 1..Len(new) /\ i + Len(kept) \in 1..Len(new)
      BY <1>3, <1>5, <1>6, <1>15
    <3>2. new[i + Len(kept)] # new[j]
      BY <1>10, <3>1
    <3> QED BY <1>5, <1>15, <3>2
  <2> QED BY <1>6, <2>1 DEF Elements
<1>18. ASSUME NEW x \in Elements(ids), x \notin Elements(kept)
       PROVE  x \in Elements(evicted) /\ MaxEntries > 0 /\ Len(kept) = MaxEntries
  <2>1. PICK i \in 1..Len(new) : new[i] = x
    BY <1>11
  <2>2. i \notin 1..Len(kept)
    BY <1>5, <1>6, <1>18, <2>1 DEF Elements
  <2>3. i - Len(kept) \in 1..Len(evicted) /\ i - Len(kept) + Len(kept) = i /\ Len(kept) < Len(new)
    BY <1>3, <1>5, <1>6, <2>2
  <2>4. evicted[i - Len(kept)] = x
    BY <1>5, <2>1, <2>3
  <2> QED BY <1>5, <1>6, <2>3, <2>4 DEF Elements
<1>19. MaxEntries > 0 /\ Len(ids) = MaxEntries => Len(kept) = MaxEntries
  <2>1. Len(new) >= Len(ids)
    BY <1>2, <1>3 DEF IsMerged
  <2>2. /\ Len(kept) <= Len(new) /\ (MaxEntries > 0 => Len(kept) <= MaxEntries)
        /\ Len(kept) < Len(new) => Len(kept) = MaxEntries
    BY <1>3, <1>5, <1>6
  <2>3. Len(new) \in Nat /\ Len(kept) \in Nat /\ Len(ids) \in Nat /\ MaxEntries \in Nat
    BY <1>3, <1>6, LimitAssumption
  <2> SUFFICES ASSUME MaxEntries > 0, Len(ids) = MaxEntries PROVE Len(kept) = MaxEntries
    OBVIOUS
  <2>4. CASE Len(kept) < Len(new)
    BY <2>2, <2>4
  <2>5. CASE ~(Len(kept) < Len(new))
    BY <2>1, <2>2, <2>3, <2>5
  <2> QED BY <2>4, <2>5
<1>20. ASSUME NEW i \in 2..Len(kept), NEW j \in 2..Len(kept)
       PROVE  \E m, n \in DOMAIN ids : kept[i] = ids[m] /\ kept[j] = ids[n] /\ (n < m => j < i)
  <2>1. i \in 2..Len(new) /\ j \in 2..Len(new) /\ i \in 1..Len(kept) /\ j \in 1..Len(kept)
    BY <1>3, <1>5, <1>6
  <2>2. kept[i] = ids[Src(k, i)] /\ kept[j] = ids[Src(k, j)]
    BY <1>5, <1>7, <2>1
  <2>3. Src(k, i) \in DOMAIN ids /\ Src(k, j) \in DOMAIN ids
    BY <1>3, <1>7, <2>1
  <2>4. Src(k, j) < Src(k, i) => j < i
    BY <1>3, <2>1 DEF Src
  <2> QED BY <2>2, <2>3, <2>4
<1>21. ASSUME NEW a \in Ids \ {id}, NEW b \in Ids \ {id}, Precedes(ids, b, a)
       PROVE  Precedes(kept, b, a)
  <2> SUFFICES ASSUME NEW i \in 1..Len(kept), kept[i] = a
               PROVE  \E j \in 1..(i - 1) : kept[j] = b
    BY <1>6 DEF Precedes
  <2>1. i \in 2..Len(new) /\ new[i] = a
    <3>1. i # 1
      BY <1>12
    <3> QED BY <1>3, <1>5, <1>6, <3>1
  <2>2. PICK n \in 1..(Src(k, i) - 1) : ids[n] = b
    BY <1>3, <1>7, <1>21, <2>1 DEF Precedes
  <2>3. Src(k, i) \in 1..Len(ids) /\ Src(k, i) # k
    BY <1>2, <2>1 DEF IsMerged
  <2>4. n \in 1..Len(ids) /\ n # k
    BY <1>1, <1>3, <2>2, <2>3 DEF IsPlace
  <2> DEFINE j == IF n < k THEN n + 1 ELSE n
  <2>5. j \in 2..Len(new) /\ Src(k, j) = n
    BY <1>2, <1>3, <2>4 DEF IsMerged, Src
  <2>6. j \in 1..(i - 1)
    BY <1>3, <2>1, <2>2, <2>3, <2>4 DEF Src
  <2> HIDE DEF j
  <2>7. new[j] = b /\ j \in 1..Len(kept)
    BY <1>3, <1>5, <1>6, <1>7, <2>2, <2>5, <2>6
  <2> QED BY <1>5, <2>6, <2>7
<1>22. IsSaved(kept, evicted, ids, id)
  BY <1>5, <1>12, <1>13, <1>14, <1>16, <1>17, <1>18, <1>19, <1>20, <1>21 DEF IsSaved
<1> QED BY <1>22 DEF kept, evicted, new

-----------------------------------------------------------------------------
(* Calls, and what a step of one goroutine leaves alone *)

LEMMA CallFacts ==
    ASSUME TypeOK, NEW p \in Procs
    PROVE  /\ call[p] # Idle <=> call[p].at \in {"set", "lock", "save", "delete"}
           /\ call[p].at \in {"set", "lock", "save", "delete"} => call[p].id \in Ids
           /\ call[p].at = "save" => call[p].ids \in Seq(Ids)
           /\ call[p].at = "delete" => call[p].evicted \in Seq(Ids)
           /\ StorageOf[p] \in Storages
<1>1. call[p] \in Call /\ StorageOf[p] \in Storages
  BY StorageAssumption DEF TypeOK
<1>2. CASE call[p] = Idle
  BY <1>1, <1>2 DEF Idle
<1>3. CASE call[p] \in [at : {"set", "lock"}, id : Ids]
  BY <1>1, <1>3 DEF Idle
<1>4. CASE call[p] \in [at : {"save"}, id : Ids, ids : Seq(Ids)]
  BY <1>1, <1>4 DEF Idle
<1>5. CASE call[p] \in [at : {"delete"}, id : Ids, evicted : Seq(Ids)]
  BY <1>1, <1>5 DEF Idle
<1> QED BY <1>1, <1>2, <1>3, <1>4, <1>5 DEF Call

\* Only the call of p changes: it goes on or ends.
Moves(p) ==
    /\ call' \in [Procs -> Call]
    /\ \A q \in Procs \ {p} : call'[q] = call[q]
    /\ call[p] # Idle
    /\ call'[p] # Idle => call'[p].id = call[p].id
    /\ call'[p].at \in {"set", "lock", "save"} => call[p].at \in {"set", "lock", "save"}

LEMMA MoveFacts ==
    ASSUME IInv, NEW p \in Procs, Moves(p), UNCHANGED <<before, begun, again, used>>,
           done \subseteq done', \A q \in Procs : call'[q] # Idle => call[q].id \notin done'
    PROVE  /\ Calls' /\ Befores' /\ Coming' \subseteq Coming
           /\ call'[p].at \notin {"set", "lock", "save"} => Coming' \subseteq ComingBut(p)
           /\ \A ids : Proper(ids) => NoneTwice(ids) /\ (MaxEntries > 0 => Len(ids) <= MaxEntries)
                          /\ Elements(ids) \subseteq begun' \ Coming' /\ InOrder(ids, before', again')
<1>1. \A q \in Procs : call'[q] # Idle => call[q] # Idle /\ call'[q].id = call[q].id
  BY DEF Moves
<1>2. Calls'
  BY <1>1 DEF IInv, Calls
<1>3. Befores'
  BY DEF IInv, Befores
<1>4. \A q \in Procs : ComingBy(q)' => ComingBy(q) /\ call'[q].id = call[q].id
  BY <1>1 DEF ComingBy, Moves, Idle
<1>5. Coming' \subseteq Coming
  BY <1>4 DEF Coming
<1>6. call'[p].at \notin {"set", "lock", "save"} => Coming' \subseteq ComingBut(p)
  BY <1>4 DEF Coming, ComingBut, ComingBy
<1> QED BY <1>2, <1>3, <1>5, <1>6 DEF Proper

LEMMA AloneBefore ==
    ASSUME faulty' = faulty \/ faulty' = TRUE, used \subseteq used'
    PROVE  OneProcess' => OneProcess
BY DEF OneProcess

\* Within one process the mutex is held by one goroutine.
LEMMA OneHolder ==
    ASSUME IInv, OneProcess, NEW p \in Procs, NEW q \in Procs,
           call[p].at \in {"save", "delete"}, call[q].at \in {"save", "delete"}
    PROVE  p = q
<1>1. call[p] # Idle /\ call[q] # Idle
  BY DEF Idle
<1>2. StorageOf[p] = StorageOf[q]
  BY <1>1 DEF IInv, Calls, OneProcess
<1> QED BY <1>2 DEF IInv, TypeOK

\* What p saves is as proper as what it read.
LEMMA SavedIsProper ==
    ASSUME IInv, NEW p \in Procs, call[p].at = "save",
           NEW kept, NEW evicted, IsSaved(kept, evicted, call[p].ids, call[p].id)
    PROVE  /\ NoneTwice(kept) /\ (MaxEntries > 0 => Len(kept) <= MaxEntries)
           /\ Elements(kept) \subseteq begun \ ComingBut(p)
           /\ Elements(evicted) \subseteq begun \ Coming
           /\ InOrder(kept, before, again)
<1> DEFINE id == call[p].id
<1> DEFINE ids == call[p].ids
<1>1. /\ id \in begun \ done /\ id \in Ids /\ call[p] # Idle /\ Proper(ids)
      /\ ids \in Seq(Ids) /\ kept \in Seq(Ids)
  BY CallFacts DEF IInv, Calls, Lists, IsSaved
<1>2. id \notin ComingBut(p)
  <2>1. ASSUME NEW q \in Procs \ {p}, ComingBy(q), call[q].id = id PROVE FALSE
    <3>1. call[q] # Idle
      BY <2>1 DEF ComingBy, Idle
    <3> QED BY <1>1, <2>1, <3>1 DEF IInv, Calls, ComingBy
  <2> QED BY <2>1 DEF ComingBut
<1>3. ComingBut(p) \subseteq Coming
  BY DEF ComingBut, Coming
<1>4. /\ Elements(kept) \subseteq begun \ ComingBut(p)
      /\ Elements(evicted) \subseteq begun \ Coming
  BY <1>1, <1>2, <1>3 DEF Proper, IsSaved
<1>5. ASSUME NEW i \in DOMAIN kept, NEW j \in DOMAIN kept,
             <<kept[i], kept[j]>> \in before, {kept[i], kept[j]} \cap again = {}
      PROVE  j < i
  <2>1. /\ DOMAIN kept = 1..Len(kept) /\ Len(kept) \in Nat /\ kept[1] = id
        /\ kept[i] \in Ids /\ kept[j] \in Ids
    BY <1>1 DEF IsSaved
  <2>2. kept[i] \in done /\ kept[i] # kept[j]
    BY <1>5, <2>1 DEF IInv, Befores
  <2>3. i \in 2..Len(kept) /\ i # j
    <3>1. i # 1
      BY <1>1, <2>1, <2>2
    <3> QED BY <2>1, <2>2, <3>1
  <2>4. CASE j = 1
    BY <2>3, <2>4
  <2>5. CASE j # 1
    <3>1. j \in 2..Len(kept)
      BY <2>1, <2>5
    <3>2. PICK m, n \in DOMAIN ids : kept[i] = ids[m] /\ kept[j] = ids[n] /\ (n < m => j < i)
      BY <2>3, <3>1 DEF IsSaved
    <3>3. n < m
      BY <1>1, <1>5, <3>2 DEF Proper, InOrder
    <3> QED BY <3>2, <3>3
  <2> QED BY <2>4, <2>5
<1> QED BY <1>4, <1>5 DEF IsSaved, InOrder

-----------------------------------------------------------------------------
(* The steps *)

LEMMA InitIInv == Init => IInv
<1> SUFFICES ASSUME Init PROVE IInv
  OBVIOUS
<1>1. /\ \A p \in Procs : call[p] = Idle
      /\ \A s \in Storages : mu[s] = Nobody
      /\ \A p \in Procs : StorageOf[p] \in Storages /\ p # Nobody
      /\ index = <<>> /\ index \in Seq(Ids) /\ DOMAIN index = {} /\ Len(index) = 0
  BY StorageAssumption, NobodyAssumption DEF Init
<1>2. TypeOK
  <2>1. call \in [Procs -> Call] /\ mu \in [Storages -> Procs \cup {Nobody}]
    BY DEF Init, Call
  <2>2. faulty \in BOOLEAN
    BY DEF Init
  <2> QED BY <1>1, <2>1, <2>2 DEF Init, TypeOK, Idle
<1>3. Calls /\ Held /\ Befores
  BY <1>1 DEF Init, Calls, Held, Befores
<1>4. Lists
  <2>1. Proper(index)
    BY <1>1, LimitAssumption DEF Proper, NoneTwice, Elements, InOrder
  <2> QED BY <1>1, <2>1 DEF Lists, Idle
<1>5. Agreement /\ DoneFirst /\ DoneListed
  BY <1>1 DEF Init, Agreement, DoneFirst, DoneListed, Idle
<1>6. ListedIsStored /\ NoOrphans
  BY <1>1 DEF Init, ListedIsStored, NoOrphans, Listed
<1> QED BY <1>2, <1>3, <1>4, <1>5, <1>6 DEF IInv

LEMMA BeginStep ==
    ASSUME IInv, NEW p \in Procs, NEW id \in Ids, Begin(p, id)
    PROVE  IInv'
<1> USE DEF server
<1>0. TypeOK /\ Calls /\ Held /\ Befores /\ Lists
      /\ (OneProcess => Agreement /\ DoneFirst /\ DoneListed) /\ ListedIsStored /\ NoOrphans
  BY DEF IInv
<1>1. /\ call[p] = Idle /\ call' = [call EXCEPT ![p] = [at |-> "set", id |-> id]]
      /\ call'[p] = [at |-> "set", id |-> id]
      /\ \A q \in Procs \ {p} : call'[q] = call[q]
  BY <1>0 DEF Begin, TypeOK
<1>2. /\ begun \subseteq begun' /\ id \in begun' /\ again \subseteq again'
      /\ (id \in begun => id \in again') /\ done' = done \ {id}
      /\ used \subseteq used' /\ StorageOf[p] \in used'
  BY DEF Begin
<1>3. TypeOK'
  <2>1. call' \in [Procs -> Call]
    BY <1>0, <1>1 DEF TypeOK, Call
  <2>2. used' \subseteq Storages
    BY <1>0, StorageAssumption DEF Begin, TypeOK
  <2>3. before' \subseteq Ids \X Ids
    BY <1>0 DEF Begin, TypeOK
  <2>4. \A q \in Procs : mu'[StorageOf[q]] = q <=> call'[q].at \in {"save", "delete"}
    BY <1>0, <1>1 DEF Begin, TypeOK, Idle
  <2>5. begun' \subseteq Ids /\ again' \subseteq Ids /\ done' \subseteq Ids
    BY <1>0 DEF Begin, TypeOK
  <2> QED BY <1>0, <2>1, <2>2, <2>3, <2>4, <2>5 DEF Begin, TypeOK
<1>4. Calls'
  <2>1. \A q \in Procs \ {p} : call'[q] # Idle =>
           call'[q].id \in begun' \ done' /\ StorageOf[q] \in used'
    BY <1>0, <1>1, <1>2 DEF Calls
  <2>2. call'[p].id = id
    BY <1>1
  <2>3. \A q, r \in Procs : call'[q] # Idle /\ call'[r] # Idle /\ call'[q].id = call'[r].id /\ q # r
           => call'[q].id \in again'
    BY <1>0, <1>1, <1>2, <2>2 DEF Calls
  <2> QED BY <1>2, <2>1, <2>2, <2>3 DEF Calls
<1>5. Held'
  BY <1>0 DEF Begin, Held
<1>6. \A a, b \in Ids : <<a, b>> \in before' =>
         a # id /\ a \in done /\ a # b /\ (b = id \/ <<a, b>> \in before)
  BY <1>0 DEF Begin, Befores
<1>7. Befores'
  BY <1>2, <1>6 DEF Befores
<1>8. begun \ Coming \subseteq begun' \ Coming'
  <2>1. ASSUME NEW q \in Procs, ComingBy(q)', call'[q].id \in begun
        PROVE  ComingBy(q) /\ call'[q].id = call[q].id
    <3>1. q # p
      BY <1>1, <1>2, <2>1 DEF ComingBy
    <3> QED BY <1>1, <1>2, <2>1, <3>1 DEF ComingBy
  <2> QED BY <1>2, <2>1 DEF Coming
<1>9. ASSUME NEW ids \in Seq(Ids), NoneTwice(ids), MaxEntries > 0 => Len(ids) <= MaxEntries,
             Elements(ids) \subseteq begun \ Coming, InOrder(ids, before, again)
      PROVE  /\ Elements(ids) \subseteq begun' \ Coming' /\ InOrder(ids, before', again')
  <2>1. ASSUME NEW i \in DOMAIN ids, NEW j \in DOMAIN ids,
               <<ids[i], ids[j]>> \in before', {ids[i], ids[j]} \cap again' = {}
        PROVE  j < i
    <3>1. ids[i] \in Ids /\ ids[j] \in Ids /\ ids[j] \in begun
      BY <1>9 DEF Elements
    <3>2. <<ids[i], ids[j]>> \in before /\ {ids[i], ids[j]} \cap again = {}
      BY <1>2, <1>6, <2>1, <3>1
    <3> QED BY <1>9, <3>2 DEF InOrder
  <2> QED BY <1>8, <1>9, <2>1 DEF InOrder
<1>10. Lists'
  <2>1. index' = index /\ index \in Seq(Ids) /\ Proper(index)
    BY <1>0 DEF Begin, TypeOK, Lists
  <2>2. Proper(index)'
    BY <1>9, <2>1 DEF Proper
  <2>3. \A q \in Procs : call'[q].at = "save" =>
           call'[q] = call[q] /\ call[q].ids \in Seq(Ids) /\ Proper(call[q].ids)
    BY <1>0, <1>1, CallFacts DEF Lists
  <2>4. \A q \in Procs : call'[q].at = "save" => Proper(call[q].ids)'
    BY <1>9, <2>3 DEF Proper
  <2>5. \A q \in Procs : call'[q].at = "delete" =>
           call'[q] = call[q] /\ Elements(call[q].evicted) \subseteq begun \ Coming
    BY <1>0, <1>1 DEF Lists
  <2> QED BY <1>8, <2>2, <2>3, <2>4, <2>5 DEF Lists
<1>11. OneProcess' => OneProcess
  BY <1>2, AloneBefore DEF Begin
<1>12. UNCHANGED <<items, index>>
  BY DEF Begin
<1>13. ASSUME OneProcess'
       PROVE  Agreement' /\ DoneFirst' /\ DoneListed'
  <2>1. Agreement /\ DoneFirst /\ DoneListed
    BY <1>0, <1>11, <1>13
  <2>2. Agreement'
    BY <1>1, <1>2, <1>12, <2>1 DEF Agreement, Listed
  <2>3. DoneFirst'
    BY <1>2, <1>6, <1>12, <2>1 DEF DoneFirst
  <2>4. DoneListed'
    BY <1>2, <1>12, <2>1 DEF DoneListed, Listed
  <2> QED BY <2>2, <2>3, <2>4
<1>14. ListedIsStored'
  BY <1>0, <1>2, <1>11, <1>12 DEF ListedIsStored, Listed
<1>15. NoOrphans'
  BY <1>0, <1>1, <1>11, <1>12 DEF NoOrphans, Listed, Idle
<1> QED BY <1>3, <1>4, <1>5, <1>7, <1>10, <1>13, <1>14, <1>15 DEF IInv

LEMMA SetItemStep ==
    ASSUME IInv, NEW p \in Procs, SetItem(p)
    PROVE  IInv'
<1> USE DEF history
<1>0. TypeOK /\ Calls /\ Held /\ Befores /\ Lists
      /\ (OneProcess => Agreement /\ DoneFirst /\ DoneListed) /\ ListedIsStored /\ NoOrphans
  BY DEF IInv
<1> DEFINE id == call[p].id
<1>1. /\ call[p].at = "set" /\ id \in Ids /\ call[p] # Idle
      /\ call' = [call EXCEPT ![p] = [at |-> "lock", id |-> id]]
      /\ call'[p] = [at |-> "lock", id |-> id]
      /\ \A q \in Procs \ {p} : call'[q] = call[q]
      /\ call' \in [Procs -> Call]
  <2>1. call[p].at = "set" /\ id \in Ids /\ call[p] # Idle
    BY <1>0, CallFacts DEF SetItem
  <2>2. [at |-> "lock", id |-> id] \in Call
    BY <2>1 DEF Call
  <2> HIDE DEF id
  <2> QED BY <1>0, <2>1, <2>2 DEF SetItem, TypeOK, id
<1> HIDE DEF id
<1>2. items' = items \cup {id} /\ UNCHANGED <<index, mu, done, before, begun, again, used, faulty>>
  BY DEF SetItem, id
<1>3. Moves(p)
  BY <1>1 DEF Moves, id
<1>4. TypeOK'
  <2>1. \A q \in Procs : mu'[StorageOf[q]] = q <=> call'[q].at \in {"save", "delete"}
    BY <1>0, <1>1, <1>2 DEF TypeOK
  <2> QED BY <1>0, <1>1, <1>2, <2>1 DEF TypeOK
<1>5. \A q \in Procs : call'[q] # Idle => call[q].id \notin done'
  BY <1>0, <1>1, <1>2 DEF Calls
<1>6. /\ Calls' /\ Befores' /\ Coming' \subseteq Coming
      /\ \A ids : Proper(ids) => NoneTwice(ids) /\ (MaxEntries > 0 => Len(ids) <= MaxEntries)
                    /\ Elements(ids) \subseteq begun' \ Coming' /\ InOrder(ids, before', again')
  BY <1>2, <1>3, <1>5, MoveFacts
<1>7. Held'
  BY <1>0, <1>2 DEF Held
<1>8. Lists'
  BY <1>0, <1>1, <1>2, <1>6 DEF Lists, Proper
<1>9. OneProcess' <=> OneProcess
  BY <1>2 DEF OneProcess
<1>10. ASSUME OneProcess' PROVE Agreement' /\ DoneFirst' /\ DoneListed'
  <2>1. Agreement'
    BY <1>0, <1>1, <1>2, <1>9, <1>10 DEF Agreement, Listed
  <2>2. DoneFirst' /\ DoneListed'
    BY <1>0, <1>2, <1>9, <1>10 DEF DoneFirst, DoneListed, Listed
  <2> QED BY <2>1, <2>2
<1>11. ListedIsStored'
  BY <1>0, <1>2, <1>9 DEF ListedIsStored, Listed
<1>12. NoOrphans'
  <2> SUFFICES ASSUME OneProcess, NEW x \in items' \ Listed
               PROVE  \E q \in Procs :
                        \/ call'[q].at \in {"lock", "save"} /\ call'[q].id = x
                        \/ call'[q].at = "delete" /\ x \in Elements(call'[q].evicted)
    BY <1>2, <1>9 DEF NoOrphans, Listed, Elements
  <2>1. CASE x = id
    BY <1>1, <2>1
  <2>2. CASE x # id
    <3>1. PICK q \in Procs :
             \/ call[q].at \in {"lock", "save"} /\ call[q].id = x
             \/ call[q].at = "delete" /\ x \in Elements(call[q].evicted)
      BY <1>0, <1>2, <2>2 DEF NoOrphans, Elements
    <3>2. q # p
      BY <1>1, <3>1
    <3> QED BY <1>1, <3>1, <3>2
  <2> QED BY <2>1, <2>2
<1> QED BY <1>4, <1>6, <1>7, <1>8, <1>10, <1>11, <1>12 DEF IInv

LEMMA LoadIndexStep ==
    ASSUME IInv, NEW p \in Procs, LoadIndex(p)
    PROVE  IInv'
<1> USE DEF history, server
<1>0. TypeOK /\ Calls /\ Held /\ Befores /\ Lists
      /\ (OneProcess => Agreement /\ DoneFirst /\ DoneListed) /\ ListedIsStored /\ NoOrphans
  BY DEF IInv
<1> DEFINE id == call[p].id
<1> DEFINE s == StorageOf[p]
<1>1. /\ call[p].at = "lock" /\ id \in Ids /\ call[p] # Idle /\ index \in Seq(Ids)
      /\ call'[p] = [at |-> "save", id |-> id, ids |-> index]
      /\ \A q \in Procs \ {p} : call'[q] = call[q]
      /\ call' \in [Procs -> Call]
  <2>1. call[p].at = "lock" /\ id \in Ids /\ call[p] # Idle /\ index \in Seq(Ids)
    BY <1>0, CallFacts DEF LoadIndex, TypeOK
  <2>2. [at |-> "save", id |-> id, ids |-> index] \in Call
    BY <2>1 DEF Call
  <2> HIDE DEF id
  <2> QED BY <1>0, <2>1, <2>2 DEF LoadIndex, TypeOK, id
<1> HIDE DEF id
<1>2. /\ UNCHANGED <<items, index, done, before, begun, again, used, faulty>>
      /\ mu[s] = Nobody /\ mu' = [mu EXCEPT ![s] = p] /\ s \in Storages
  BY StorageAssumption DEF LoadIndex
<1>3. Moves(p)
  BY <1>1 DEF Moves, id
<1>4. TypeOK'
  <2>1. mu' \in [Storages -> Procs \cup {Nobody}]
    BY <1>0, <1>2 DEF TypeOK
  <2>2. ASSUME NEW q \in Procs
        PROVE  mu'[StorageOf[q]] = q <=> call'[q].at \in {"save", "delete"}
    <3>1. StorageOf[q] \in Storages /\ q # Nobody
      BY StorageAssumption, NobodyAssumption
    <3>2. CASE q = p
      BY <1>0, <1>1, <1>2, <3>2 DEF TypeOK
    <3>3. CASE q # p
      BY <1>0, <1>1, <1>2, <3>1, <3>3 DEF TypeOK
    <3> QED BY <3>2, <3>3
  <2> QED BY <1>0, <1>1, <1>2, <2>1, <2>2 DEF TypeOK
<1>5. \A q \in Procs : call'[q] # Idle => call[q].id \notin done'
  BY <1>0, <1>1, <1>2 DEF Calls
<1>6. /\ Calls' /\ Befores' /\ Coming' \subseteq Coming
      /\ \A ids : Proper(ids) => NoneTwice(ids) /\ (MaxEntries > 0 => Len(ids) <= MaxEntries)
                    /\ Elements(ids) \subseteq begun' \ Coming' /\ InOrder(ids, before', again')
  BY <1>2, <1>3, <1>5, MoveFacts
<1>7. Held'
  BY <1>0, <1>2 DEF Held, TypeOK
<1>8. Lists'
  <2>1. call'[p].ids = index /\ call'[p].at = "save"
    BY <1>1
  <2> QED BY <1>0, <1>1, <1>2, <1>6, <2>1 DEF Lists, Proper
<1>9. OneProcess' <=> OneProcess
  BY <1>2 DEF OneProcess
<1>10. ASSUME OneProcess' PROVE Agreement' /\ DoneFirst' /\ DoneListed'
  <2>1. call'[p].ids = index /\ call'[p].at = "save" /\ call'[p].id = call[p].id
    BY <1>1 DEF id
  <2>2. Agreement'
    <3>1. Agreement
      BY <1>0, <1>9, <1>10
    <3>2. call[p].id \in items \cup again
      BY <1>1, <3>1 DEF Agreement
    <3>3. \A q \in Procs : q = p \/ call'[q] = call[q]
      BY <1>1
    <3>4. Listed' = Listed
      BY <1>2 DEF Listed
    <3> QED BY <1>2, <2>1, <3>1, <3>2, <3>3, <3>4 DEF Agreement
  <2>3. DoneFirst' /\ DoneListed'
    BY <1>0, <1>2, <1>9, <1>10 DEF DoneFirst, DoneListed, Listed
  <2> QED BY <2>2, <2>3
<1>11. ListedIsStored'
  BY <1>0, <1>2, <1>9 DEF ListedIsStored, Listed
<1>12. NoOrphans'
  <2>1. call'[p].at = "save" /\ call'[p].id = call[p].id
    BY <1>1 DEF id
  <2> QED BY <1>0, <1>1, <1>2, <1>9, <2>1 DEF NoOrphans, Listed
<1> QED BY <1>4, <1>6, <1>7, <1>8, <1>10, <1>11, <1>12 DEF IInv

LEMMA SaveIndexStep ==
    ASSUME IInv, NEW p \in Procs, SaveIndex(p)
    PROVE  IInv'
<1> USE DEF history
<1>0. TypeOK /\ Calls /\ Held /\ Befores /\ Lists
      /\ (OneProcess => Agreement /\ DoneFirst /\ DoneListed) /\ ListedIsStored /\ NoOrphans
  BY DEF IInv
<1> DEFINE id == call[p].id
<1> DEFINE ids == call[p].ids
<1> DEFINE kept == Kept(PrependUnique(ids, id))
<1> DEFINE evicted == Evicted(PrependUnique(ids, id))
<1>1. call[p].at = "save" /\ id \in Ids /\ call[p] # Idle /\ ids \in Seq(Ids) /\ NoneTwice(ids)
  BY <1>0, CallFacts DEF SaveIndex, Lists, Proper
<1>2. IsSaved(kept, evicted, ids, id)
  BY <1>1, SaveFacts
<1>3. /\ index' = kept /\ UNCHANGED <<items, mu, done, before, begun, again, used, faulty>>
      /\ call' = [call EXCEPT ![p] = [at |-> "delete", id |-> id, evicted |-> evicted]]
  BY DEF SaveIndex
<1> HIDE DEF kept, evicted
<1>4. /\ NoneTwice(kept) /\ (MaxEntries > 0 => Len(kept) <= MaxEntries)
      /\ Elements(kept) \subseteq begun \ ComingBut(p)
      /\ Elements(evicted) \subseteq begun \ Coming
      /\ InOrder(kept, before, again)
  BY <1>1, <1>2, SavedIsProper
<1>5. /\ call'[p] = [at |-> "delete", id |-> id, evicted |-> evicted]
      /\ \A q \in Procs \ {p} : call'[q] = call[q]
      /\ call' \in [Procs -> Call]
  <2>1. [at |-> "delete", id |-> id, evicted |-> evicted] \in Call
    BY <1>1, <1>2 DEF Call, IsSaved
  <2> HIDE DEF id
  <2> QED BY <1>0, <1>3, <2>1 DEF TypeOK
<1>6. call'[p].at = "delete" /\ call'[p].id = id /\ call'[p].evicted = evicted
  BY <1>5
<1>7. Moves(p)
  BY <1>1, <1>5, <1>6 DEF Moves
<1>8. TypeOK'
  <2>1. index' \in Seq(Ids) /\ index' # <<>>
    BY <1>2, <1>3 DEF IsSaved
  <2>2. \A q \in Procs : mu'[StorageOf[q]] = q <=> call'[q].at \in {"save", "delete"}
    BY <1>0, <1>1, <1>3, <1>5, <1>6 DEF TypeOK
  <2> QED BY <1>0, <1>3, <1>5, <2>1, <2>2 DEF TypeOK
<1>9. \A q \in Procs : call'[q] # Idle => call[q].id \notin done'
  BY <1>0, <1>1, <1>3, <1>5 DEF Calls
<1>10. /\ Calls' /\ Befores' /\ Coming' \subseteq Coming /\ Coming' \subseteq ComingBut(p)
       /\ \A l : Proper(l) => NoneTwice(l) /\ (MaxEntries > 0 => Len(l) <= MaxEntries)
                    /\ Elements(l) \subseteq begun' \ Coming' /\ InOrder(l, before', again')
  BY <1>3, <1>6, <1>7, <1>9, MoveFacts
<1>11. Held'
  BY <1>0, <1>3 DEF Held
<1>12. Lists'
  <2>1. Proper(index)'
    BY <1>3, <1>4, <1>10 DEF Proper
  <2>2. \A q \in Procs : call'[q].at = "save" => Proper(call[q].ids)'
    BY <1>0, <1>5, <1>6, <1>10 DEF Lists, Proper
  <2>3. \A q \in Procs : call'[q].at = "delete" =>
           Elements(call'[q].evicted) \subseteq begun' \ Coming'
    BY <1>0, <1>3, <1>4, <1>5, <1>6, <1>10 DEF Lists
  <2> QED BY <2>1, <2>2, <2>3 DEF Lists
<1>13. OneProcess' <=> OneProcess
  BY <1>3 DEF OneProcess
<1>14. ASSUME OneProcess
       PROVE  /\ Agreement' /\ DoneFirst' /\ DoneListed' /\ ListedIsStored' /\ NoOrphans'
  <2>0. Agreement /\ DoneFirst /\ DoneListed
    BY <1>0, <1>14
  <2>1. /\ ids = index /\ Listed = Elements(ids) /\ id \in items \cup again
        /\ Listed' = Elements(kept)
    BY <1>1, <1>3, <2>0 DEF Agreement, Listed, Elements
  <2>2. \A q \in Procs \ {p} : call'[q].at \notin {"save", "delete"}
    BY <1>1, <1>5, <1>14, OneHolder
  <2>3. Agreement'
    <3>1. index' # <<>> /\ index'[1] = call'[p].id /\ Elements(call'[p].evicted) \cap Listed' = {}
      BY <1>2, <1>3, <1>6, <2>1 DEF IsSaved
    <3>2. \A q \in Procs : call'[q].at = "lock" => call'[q].id \in items' \cup again'
      BY <1>3, <1>5, <1>6, <2>0 DEF Agreement
    <3> QED BY <1>6, <2>2, <3>1, <3>2 DEF Agreement
  <2>4. DoneFirst'
    <3> SUFFICES ASSUME NEW a \in Ids, NEW b \in Ids, <<a, b>> \in before, b \in done
                 PROVE  Precedes(kept, b, a)
      BY <1>3 DEF DoneFirst
    <3>1. a \in Ids \ {id} /\ b \in Ids \ {id}
      BY <1>0, <1>1 DEF Befores, Calls
    <3>2. Precedes(ids, b, a)
      BY <2>0, <2>1 DEF DoneFirst
    <3> QED BY <1>2, <3>1, <3>2 DEF IsSaved
  <2>5. DoneListed'
    <3> SUFFICES ASSUME NEW x \in done \ Elements(kept)
                 PROVE  MaxEntries > 0 /\ Len(kept) = MaxEntries
      BY <1>3, <2>1 DEF DoneListed
    <3>1. CASE x \in Elements(ids)
      BY <1>2, <3>1 DEF IsSaved
    <3>2. CASE x \notin Elements(ids)
      <4>1. MaxEntries > 0 /\ Len(ids) = MaxEntries
        BY <2>0, <2>1, <3>2 DEF DoneListed
      <4> QED BY <1>2, <4>1 DEF IsSaved
    <3> QED BY <3>1, <3>2
  <2>6. ListedIsStored'
    <3>1. \A x \in Elements(kept) : x = id \/ x \in Listed
      BY <1>2, <2>1 DEF IsSaved
    <3> QED BY <1>0, <1>3, <1>14, <2>1, <3>1 DEF ListedIsStored
  <2>7. NoOrphans'
    <3> SUFFICES ASSUME NEW x \in items \ Elements(kept)
                 PROVE  \E q \in Procs :
                          \/ call'[q].at \in {"lock", "save"} /\ call'[q].id = x
                          \/ call'[q].at = "delete" /\ x \in Elements(call'[q].evicted)
      BY <1>3, <2>1 DEF NoOrphans, Elements
    <3>1. CASE x \in Listed
      BY <1>2, <1>6, <2>1, <3>1 DEF IsSaved
    <3>2. CASE x \notin Listed
      <4>1. PICK q \in Procs :
               \/ call[q].at \in {"lock", "save"} /\ call[q].id = x
               \/ call[q].at = "delete" /\ x \in Elements(call[q].evicted)
        BY <1>0, <1>14, <3>2 DEF NoOrphans, Elements
      <4>2. q # p
        BY <1>1, <1>2, <4>1 DEF IsSaved
      <4> QED BY <1>5, <4>1, <4>2
    <3> QED BY <3>1, <3>2
  <2> QED BY <2>3, <2>4, <2>5, <2>6, <2>7
<1>15. ListedIsStored' /\ NoOrphans'
  BY <1>13, <1>14 DEF ListedIsStored, NoOrphans
<1> QED BY <1>8, <1>10, <1>11, <1>12, <1>13, <1>14, <1>15 DEF IInv

LEMMA TailFacts ==
    ASSUME NEW ids \in Seq(Ids), ids # <<>>
    PROVE  /\ Tail(ids) \in Seq(Ids) /\ Head(ids) \in Elements(ids)
           /\ Elements(Tail(ids)) \subseteq Elements(ids)
           /\ Elements(ids) \subseteq Elements(Tail(ids)) \cup {Head(ids)}
<1>1. /\ Tail(ids) \in Seq(Ids) /\ Len(ids) \in Nat \ {0} /\ Len(Tail(ids)) = Len(ids) - 1
      /\ \A i \in 1..Len(Tail(ids)) : Tail(ids)[i] = ids[i + 1]
      /\ Head(ids) = ids[1]
  BY HeadTailProperties, EmptySeq
<1>2. DOMAIN ids = 1..Len(ids) /\ DOMAIN Tail(ids) = 1..(Len(ids) - 1)
  BY <1>1, LenProperties
<1>3. Head(ids) \in Elements(ids)
  BY <1>1, <1>2 DEF Elements
<1>4. \A i \in 1..(Len(ids) - 1) : i + 1 \in 1..Len(ids) /\ Tail(ids)[i] = ids[i + 1]
  BY <1>1
<1>5. \A i \in 1..Len(ids) : i = 1 \/ (i - 1 \in 1..(Len(ids) - 1) /\ ids[i] = Tail(ids)[i - 1])
  <2> SUFFICES ASSUME NEW i \in 1..Len(ids), i # 1
               PROVE  i - 1 \in 1..(Len(ids) - 1) /\ ids[i] = Tail(ids)[i - 1]
    OBVIOUS
  <2>1. i - 1 \in 1..(Len(ids) - 1) /\ i - 1 + 1 = i
    BY <1>1
  <2> QED BY <1>4, <2>1
<1>6. Elements(Tail(ids)) \subseteq Elements(ids)
  BY <1>2, <1>4 DEF Elements
<1>7. Elements(ids) \subseteq Elements(Tail(ids)) \cup {Head(ids)}
  <2> SUFFICES ASSUME NEW i \in 1..Len(ids)
               PROVE  ids[i] \in Elements(Tail(ids)) \cup {Head(ids)}
    BY <1>2 DEF Elements
  <2>1. CASE i = 1
    BY <1>1, <2>1
  <2>2. CASE i # 1
    BY <1>2, <1>5, <2>2 DEF Elements
  <2> QED BY <2>1, <2>2
<1> QED BY <1>1, <1>3, <1>6, <1>7

LEMMA DeleteEvictedStep ==
    ASSUME IInv, NEW p \in Procs, DeleteEvicted(p)
    PROVE  IInv'
<1>0. TypeOK /\ Calls /\ Held /\ Befores /\ Lists
      /\ (OneProcess => Agreement /\ DoneFirst /\ DoneListed) /\ ListedIsStored /\ NoOrphans
  BY DEF IInv
<1> DEFINE id == call[p].id
<1> DEFINE old == call[p].evicted
<1> DEFINE rest == Tail(old)
<1>1. /\ call[p].at = "delete" /\ id \in Ids /\ call[p] # Idle /\ old \in Seq(Ids) /\ old # <<>>
      /\ call[p] \in [at : {"delete"}, id : Ids, evicted : Seq(Ids)]
  BY <1>0, CallFacts DEF DeleteEvicted, TypeOK, Call, Idle
<1>2. /\ rest \in Seq(Ids) /\ Head(old) \in Elements(old)
      /\ Elements(rest) \subseteq Elements(old)
      /\ Elements(old) \subseteq Elements(rest) \cup {Head(old)}
  BY <1>1, TailFacts
<1>3. /\ UNCHANGED <<index, mu, done, before, begun, again, used>>
      /\ call' = [call EXCEPT ![p].evicted = rest]
      /\ \/ items' = items \ {Head(old)} /\ faulty' = faulty
         \/ items' = items /\ faulty' = TRUE
  BY DEF DeleteEvicted
<1> HIDE DEF rest
<1>4. /\ call'[p].at = "delete" /\ call'[p].id = id /\ call'[p].evicted = rest
      /\ \A q \in Procs \ {p} : call'[q] = call[q]
      /\ call' \in [Procs -> Call]
  <2> DEFINE c == [call[p] EXCEPT !.evicted = rest]
  <2>1. /\ c \in [at : {"delete"}, id : Ids, evicted : Seq(Ids)]
        /\ c.at = "delete" /\ c.id = id /\ c.evicted = rest
    BY <1>1, <1>2
  <2>2. call' = [call EXCEPT ![p] = c]
    BY <1>3
  <2>3. c \in Call
    BY <2>1 DEF Call
  <2> HIDE DEF c
  <2> QED BY <1>0, <2>1, <2>2, <2>3 DEF TypeOK
<1>5. Moves(p)
  BY <1>1, <1>4 DEF Moves
<1>6. TypeOK'
  <2>1. \A q \in Procs : mu'[StorageOf[q]] = q <=> call'[q].at \in {"save", "delete"}
    BY <1>0, <1>1, <1>3, <1>4 DEF TypeOK
  <2>2. faulty' \in BOOLEAN
    BY <1>0, <1>3 DEF TypeOK
  <2> QED BY <1>0, <1>3, <1>4, <2>1, <2>2 DEF TypeOK
<1>7. \A q \in Procs : call'[q] # Idle => call[q].id \notin done'
  BY <1>0, <1>1, <1>3, <1>4 DEF Calls
<1>8. /\ Calls' /\ Befores' /\ Coming' \subseteq Coming
      /\ \A l : Proper(l) => NoneTwice(l) /\ (MaxEntries > 0 => Len(l) <= MaxEntries)
                    /\ Elements(l) \subseteq begun' \ Coming' /\ InOrder(l, before', again')
  BY <1>3, <1>5, <1>7, MoveFacts
<1>9. Held'
  BY <1>0, <1>3 DEF Held
<1>10. Lists'
  <2>1. Proper(index)'
    BY <1>0, <1>3, <1>8 DEF Proper, Lists
  <2>2. \A q \in Procs : call'[q].at = "save" => Proper(call[q].ids)'
    BY <1>0, <1>4, <1>8 DEF Lists, Proper
  <2>3. \A q \in Procs : call'[q].at = "delete" =>
           Elements(call'[q].evicted) \subseteq begun' \ Coming'
    BY <1>0, <1>1, <1>2, <1>3, <1>4, <1>8 DEF Lists
  <2> QED BY <2>1, <2>2, <2>3 DEF Lists
<1>11. OneProcess' => OneProcess
  BY <1>3, AloneBefore
<1>12. Listed' = Listed
  BY <1>3 DEF Listed
<1>13. ASSUME OneProcess'
       PROVE  /\ Agreement' /\ DoneFirst' /\ DoneListed' /\ ListedIsStored' /\ NoOrphans'
  <2>0. OneProcess /\ Agreement /\ DoneFirst /\ DoneListed
    BY <1>0, <1>11, <1>13
  <2>1. items' = items \ {Head(old)}
    BY <1>3, <1>13 DEF OneProcess
  <2>2. Head(old) \notin Listed /\ Head(old) \notin Coming
    BY <1>0, <1>1, <1>2, <2>0 DEF Agreement, Lists
  <2>3. Agreement'
    <3>1. ASSUME NEW q \in Procs, call'[q].at \in {"lock", "save"}
          PROVE  call'[q].id \in items' \cup again'
      <4>1. q # p /\ call'[q] = call[q] /\ call[q].id \in items \cup again
        BY <1>4, <2>0, <3>1 DEF Agreement
      <4>2. call[q].id \in Coming \cup again
        BY <3>1, <4>1 DEF Coming, ComingBy
      <4> QED BY <1>3, <2>1, <2>2, <4>1, <4>2
    <3>2. \A q \in Procs : call'[q].at = "save" => call'[q].ids = index'
      BY <1>3, <1>4, <2>0 DEF Agreement
    <3>3. ASSUME NEW q \in Procs, call'[q].at = "delete"
          PROVE  /\ index' # <<>> /\ index'[1] = call'[q].id
                 /\ Elements(call'[q].evicted) \cap Listed' = {}
      <4>1. CASE q = p
        BY <1>1, <1>2, <1>3, <1>4, <1>12, <2>0, <4>1 DEF Agreement
      <4>2. CASE q # p
        BY <1>3, <1>4, <1>12, <2>0, <3>3, <4>2 DEF Agreement
      <4> QED BY <4>1, <4>2
    <3> QED BY <3>1, <3>2, <3>3 DEF Agreement
  <2>4. DoneFirst' /\ DoneListed'
    BY <1>3, <1>12, <2>0 DEF DoneFirst, DoneListed
  <2>5. ListedIsStored'
    BY <1>0, <1>3, <1>12, <2>0, <2>1, <2>2 DEF ListedIsStored
  <2>6. NoOrphans'
    <3> SUFFICES ASSUME NEW x \in items' \ Listed
                 PROVE  \E q \in Procs :
                          \/ call'[q].at \in {"lock", "save"} /\ call'[q].id = x
                          \/ call'[q].at = "delete" /\ x \in Elements(call'[q].evicted)
      BY <1>12 DEF NoOrphans, Elements
    <3>1. PICK q \in Procs :
             \/ call[q].at \in {"lock", "save"} /\ call[q].id = x
             \/ call[q].at = "delete" /\ x \in Elements(call[q].evicted)
      BY <1>0, <2>0, <2>1 DEF NoOrphans, Elements
    <3>2. CASE q = p
      BY <1>1, <1>2, <1>4, <2>1, <3>1, <3>2
    <3>3. CASE q # p
      BY <1>4, <3>1, <3>3
    <3> QED BY <3>2, <3>3
  <2> QED BY <2>3, <2>4, <2>5, <2>6
<1>14. ListedIsStored' /\ NoOrphans'
  BY <1>13 DEF ListedIsStored, NoOrphans
<1> QED BY <1>6, <1>8, <1>9, <1>10, <1>13, <1>14 DEF IInv

LEMMA EndStoreStep ==
    ASSUME IInv, NEW p \in Procs, EndStore(p)
    PROVE  IInv'
<1>0. TypeOK /\ Calls /\ Held /\ Befores /\ Lists
      /\ (OneProcess => Agreement /\ DoneFirst /\ DoneListed) /\ ListedIsStored /\ NoOrphans
  BY DEF IInv
<1> DEFINE id == call[p].id
<1> DEFINE s == StorageOf[p]
<1>1. /\ call[p].at = "delete" /\ id \in Ids /\ call[p] # Idle
      /\ call[p].evicted = <<>> /\ s \in Storages
  BY <1>0, CallFacts DEF EndStore
<1>2. /\ UNCHANGED <<items, index, before, begun, again, used, faulty>>
      /\ mu' = [mu EXCEPT ![s] = Nobody]
      /\ done \subseteq done' /\ done' \subseteq done \cup {id}
      /\ id \in done' => id \in done \/ \A q \in Procs \ {p} : call[q] # Idle => call[q].id # id
  BY DEF EndStore, server
<1>3. /\ call'[p] = Idle /\ \A q \in Procs \ {p} : call'[q] = call[q]
      /\ call' \in [Procs -> Call] /\ Idle.at = "idle"
  BY <1>0 DEF EndStore, TypeOK, Call, Idle
<1>4. Moves(p)
  BY <1>1, <1>3 DEF Moves, Idle
<1>5. mu[s] = p
  BY <1>0, <1>1 DEF TypeOK
<1>6. TypeOK'
  <2>1. mu' \in [Storages -> Procs \cup {Nobody}]
    BY <1>0, <1>2 DEF TypeOK
  <2>2. ASSUME NEW q \in Procs
        PROVE  mu'[StorageOf[q]] = q <=> call'[q].at \in {"save", "delete"}
    <3>1. StorageOf[q] \in Storages /\ q # Nobody
      BY StorageAssumption, NobodyAssumption
    <3>2. CASE q = p
      BY <1>0, <1>2, <1>3, <3>1, <3>2 DEF TypeOK, Idle
    <3>3. CASE q # p
      BY <1>0, <1>2, <1>3, <1>5, <3>1, <3>3 DEF TypeOK
    <3> QED BY <3>2, <3>3
  <2>3. done' \subseteq Ids
    BY <1>0, <1>1, <1>2 DEF TypeOK
  <2> QED BY <1>0, <1>2, <1>3, <2>1, <2>2, <2>3 DEF TypeOK
<1>7. \A q \in Procs : call'[q] # Idle => call[q].id \notin done'
  BY <1>0, <1>2, <1>3 DEF Calls
<1>8. /\ Calls' /\ Befores' /\ Coming' \subseteq Coming
      /\ \A l : Proper(l) => NoneTwice(l) /\ (MaxEntries > 0 => Len(l) <= MaxEntries)
                    /\ Elements(l) \subseteq begun' \ Coming' /\ InOrder(l, before', again')
  BY <1>2, <1>4, <1>7, MoveFacts
<1>9. Held'
  BY <1>0, <1>2, NobodyAssumption DEF Held, TypeOK
<1>10. Lists'
  <2>1. Proper(index)'
    BY <1>0, <1>2, <1>8 DEF Proper, Lists
  <2>2. \A q \in Procs : call'[q].at = "save" => Proper(call[q].ids)'
    BY <1>0, <1>3, <1>8 DEF Lists, Proper
  <2>3. \A q \in Procs : call'[q].at = "delete" =>
           Elements(call'[q].evicted) \subseteq begun' \ Coming'
    BY <1>0, <1>2, <1>3, <1>8 DEF Lists
  <2> QED BY <2>1, <2>2, <2>3 DEF Lists
<1>11. OneProcess' <=> OneProcess
  BY <1>2 DEF OneProcess
<1>12. Listed' = Listed
  BY <1>2 DEF Listed
<1>13. ASSUME OneProcess
       PROVE  /\ Agreement' /\ DoneFirst' /\ DoneListed' /\ ListedIsStored' /\ NoOrphans'
  <2>0. Agreement /\ DoneFirst /\ DoneListed
    BY <1>0, <1>13
  <2>1. index # <<>> /\ index[1] = id /\ id \in Listed /\ index \in Seq(Ids)
    <3>1. index # <<>> /\ index[1] = id /\ index \in Seq(Ids)
      BY <1>0, <1>1, <2>0 DEF Agreement, TypeOK
    <3>2. 1 \in DOMAIN index
      BY <3>1, EmptySeq
    <3> QED BY <3>1, <3>2 DEF Listed
  <2>2. Agreement'
    BY <1>2, <1>3, <1>12, <2>0 DEF Agreement
  <2>3. DoneFirst'
    <3> SUFFICES ASSUME NEW a \in Ids, NEW b \in Ids, <<a, b>> \in before, b \in done'
                 PROVE  Precedes(index, b, a)
      BY <1>2 DEF DoneFirst
    <3>1. CASE b \in done
      BY <2>0, <3>1 DEF DoneFirst
    <3>2. CASE b = id
      <4> SUFFICES ASSUME NEW i \in DOMAIN index, index[i] = a
                   PROVE  \E j \in 1..(i - 1) : index[j] = b
        BY DEF Precedes
      <4>1. a # b
        BY <1>0 DEF Befores
      <4>2. i \in 1..Len(index) /\ Len(index) \in Nat /\ i # 1
        BY <2>1, <3>2, <4>1
      <4>3. 1 \in 1..(i - 1)
        BY <4>2
      <4> QED BY <2>1, <3>2, <4>3
    <3> QED BY <1>2, <3>1, <3>2
  <2>4. DoneListed'
    BY <1>2, <1>12, <2>0, <2>1 DEF DoneListed
  <2>5. ListedIsStored'
    BY <1>0, <1>2, <1>12, <1>13 DEF ListedIsStored
  <2>6. NoOrphans'
    <3> SUFFICES ASSUME NEW x \in items \ Listed
                 PROVE  \E q \in Procs :
                          \/ call'[q].at \in {"lock", "save"} /\ call'[q].id = x
                          \/ call'[q].at = "delete" /\ x \in Elements(call'[q].evicted)
      BY <1>2, <1>12 DEF NoOrphans, Elements
    <3>1. PICK q \in Procs :
             \/ call[q].at \in {"lock", "save"} /\ call[q].id = x
             \/ call[q].at = "delete" /\ x \in Elements(call[q].evicted)
      BY <1>0, <1>13 DEF NoOrphans, Elements
    <3>2. Elements(<<>>) = {}
      BY DEF Elements
    <3>3. q # p
      BY <1>1, <3>1, <3>2
    <3> QED BY <1>3, <3>1, <3>3
  <2> QED BY <2>2, <2>3, <2>4, <2>5, <2>6
<1>14. ListedIsStored' /\ NoOrphans'
  BY <1>11, <1>13 DEF ListedIsStored, NoOrphans
<1> QED BY <1>6, <1>8, <1>9, <1>10, <1>11, <1>13, <1>14 DEF IInv

LEMMA FailStep ==
    ASSUME IInv, NEW p \in Procs, Fail(p)
    PROVE  IInv'
<1> USE DEF server
<1>0. TypeOK /\ Calls /\ Held /\ Befores /\ Lists
  BY DEF IInv
<1> DEFINE id == call[p].id
<1> DEFINE s == StorageOf[p]
<1>1. call[p].at \in {"set", "lock", "save"} /\ id \in Ids /\ call[p] # Idle /\ s \in Storages
  BY <1>0, CallFacts DEF Fail
<1>2. UNCHANGED <<done, before, begun, again, used>> /\ faulty' = TRUE
  BY DEF Fail
<1>3. /\ call'[p] = Idle /\ \A q \in Procs \ {p} : call'[q] = call[q]
      /\ call' \in [Procs -> Call] /\ Idle.at = "idle"
  BY <1>0 DEF Fail, TypeOK, Call, Idle
<1>4. Moves(p)
  BY <1>1, <1>3 DEF Moves, Idle
<1>5. \A q \in Procs : call'[q] # Idle => call[q].id \notin done'
  BY <1>0, <1>2, <1>3 DEF Calls
<1>6. /\ Calls' /\ Befores' /\ Coming' \subseteq Coming /\ Coming' \subseteq ComingBut(p)
      /\ \A l : Proper(l) => NoneTwice(l) /\ (MaxEntries > 0 => Len(l) <= MaxEntries)
                    /\ Elements(l) \subseteq begun' \ Coming' /\ InOrder(l, before', again')
  <2>1. call'[p].at \notin {"set", "lock", "save"}
    BY <1>3
  <2> QED BY <1>2, <1>4, <1>5, <2>1, MoveFacts
\* The mutex.
<1>7. \/ mu' = mu /\ call[p].at # "save"
      \/ mu' = [mu EXCEPT ![s] = Nobody] /\ call[p].at = "save"
  BY DEF Fail
<1>8. /\ mu' \in [Storages -> Procs \cup {Nobody}] /\ Held'
      /\ \A q \in Procs : mu'[StorageOf[q]] = q <=> call'[q].at \in {"save", "delete"}
  <2>1. CASE mu' = mu /\ call[p].at # "save"
    BY <1>0, <1>1, <1>3, <2>1 DEF TypeOK, Held
  <2>2. CASE mu' = [mu EXCEPT ![s] = Nobody] /\ call[p].at = "save"
    <3>1. mu[s] = p
      BY <1>0, <2>2 DEF TypeOK
    <3>2. mu' \in [Storages -> Procs \cup {Nobody}] /\ Held'
      BY <1>0, <2>2, NobodyAssumption DEF TypeOK, Held
    <3>3. ASSUME NEW q \in Procs
          PROVE  mu'[StorageOf[q]] = q <=> call'[q].at \in {"save", "delete"}
      <4>1. StorageOf[q] \in Storages /\ q # Nobody
        BY StorageAssumption, NobodyAssumption
      <4>2. CASE q = p
        BY <1>0, <1>3, <2>2, <4>1, <4>2 DEF TypeOK
      <4>3. CASE q # p
        BY <1>0, <1>3, <2>2, <3>1, <4>1, <4>3 DEF TypeOK
      <4> QED BY <4>2, <4>3
    <3> QED BY <3>2, <3>3
  <2> QED BY <1>7, <2>1, <2>2
\* The index.
<1>9. items' \subseteq Ids /\ index' \in Seq(Ids) /\ Proper(index)'
  <2>1. CASE index' = index
    <3>1. items' \subseteq Ids
      BY <1>0, <1>1 DEF Fail, TypeOK
    <3> QED BY <1>0, <1>6, <2>1, <3>1 DEF Proper, Lists, TypeOK
  <2>2. CASE index' # index
    <3> DEFINE new == PrependUnique(call[p].ids, id)
    <3>1. call[p].at = "save" /\ index' = Kept(new) /\ items' = items
      BY <2>2 DEF Fail
    <3>2. call[p].ids \in Seq(Ids) /\ NoneTwice(call[p].ids)
      BY <1>0, <3>1, CallFacts DEF Lists, Proper
    <3>3. IsSaved(Kept(new), Evicted(new), call[p].ids, id)
      BY <1>1, <3>2, SaveFacts
    <3> DEFINE kept == Kept(new)
    <3> HIDE DEF new
    <3>4. /\ NoneTwice(kept) /\ (MaxEntries > 0 => Len(kept) <= MaxEntries)
          /\ Elements(kept) \subseteq begun \ ComingBut(p)
          /\ InOrder(kept, before, again)
      BY <3>1, <3>3, SavedIsProper
    <3>5. kept \in Seq(Ids)
      BY <3>3 DEF IsSaved
    <3> HIDE DEF kept
    <3>6. index' = kept
      BY <3>1 DEF kept
    <3> QED BY <1>0, <1>2, <1>6, <3>1, <3>4, <3>5, <3>6 DEF Proper, TypeOK
  <2> QED BY <2>1, <2>2
<1>10. TypeOK'
  BY <1>0, <1>2, <1>3, <1>8, <1>9 DEF TypeOK
<1>11. Lists'
  <2>1. \A q \in Procs : call'[q].at = "save" => Proper(call[q].ids)'
    BY <1>0, <1>3, <1>6 DEF Lists, Proper
  <2>2. \A q \in Procs : call'[q].at = "delete" =>
           Elements(call'[q].evicted) \subseteq begun' \ Coming'
    BY <1>0, <1>2, <1>3, <1>6 DEF Lists
  <2> QED BY <1>9, <2>1, <2>2 DEF Lists
<1>12. ~OneProcess'
  BY <1>2 DEF OneProcess
<1> QED BY <1>6, <1>8, <1>10, <1>11, <1>12 DEF IInv, ListedIsStored, NoOrphans

LEMMA ForgetStep ==
    ASSUME IInv, Forget
    PROVE  IInv'
<1>0. TypeOK /\ Calls /\ Held /\ Befores /\ Lists
  BY DEF IInv
<1>1. /\ UNCHANGED <<mu, call, done, before, begun, again, used>> /\ faulty' = TRUE
      /\ index' = <<>> \/ index' = index
      /\ items' \subseteq items
  BY DEF Forget
<1>2. index' \in Seq(Ids) /\ faulty' \in BOOLEAN
  <2>1. CASE index' = <<>>
    BY <1>1, <2>1
  <2>2. CASE index' = index
    BY <1>0, <1>1, <2>2 DEF TypeOK
  <2> QED BY <1>1, <2>1, <2>2
<1>3. TypeOK'
  BY <1>0, <1>1, <1>2 DEF TypeOK
<1>4. Calls' /\ Held' /\ Befores'
  BY <1>0, <1>1 DEF Calls, Held, Befores
<1>5. Coming' = Coming
  BY <1>1 DEF Coming, ComingBy
<1>6. Proper(index)'
  <2>1. CASE index' = <<>>
    <3>1. DOMAIN index' = {} /\ Len(index') = 0
      BY <2>1
    <3> QED BY <3>1, LimitAssumption DEF Proper, NoneTwice, Elements, InOrder
  <2>2. CASE index' = index
    BY <1>0, <1>1, <1>5, <2>2 DEF Proper, Lists
  <2> QED BY <1>1, <2>1, <2>2
<1>7. Lists'
  BY <1>0, <1>1, <1>5, <1>6 DEF Lists, Proper
<1>8. ~OneProcess'
  BY <1>1 DEF OneProcess
<1> QED BY <1>3, <1>4, <1>7, <1>8 DEF IInv, ListedIsStored, NoOrphans

LEMMA StutterStep ==
    ASSUME IInv, UNCHANGED vars
    PROVE  IInv'
<1> USE DEF IInv, vars, server, history
<1>1. TypeOK' /\ Calls' /\ Held' /\ Befores'
  BY DEF TypeOK, Calls, Held, Befores
<1>2. Coming' = Coming /\ Listed' = Listed /\ (OneProcess' <=> OneProcess)
  BY DEF Coming, ComingBy, Listed, OneProcess
<1>3. Lists'
  BY <1>2 DEF Lists, Proper
<1>4. OneProcess' => Agreement' /\ DoneFirst' /\ DoneListed'
  BY <1>2 DEF Agreement, DoneFirst, DoneListed
<1>5. ListedIsStored' /\ NoOrphans'
  BY <1>2 DEF ListedIsStored, NoOrphans
<1> QED BY <1>1, <1>3, <1>4, <1>5

-----------------------------------------------------------------------------
(* The theorems *)

\* The inductive invariant of the memcache storage.
THEOREM Invariance == Spec => []IInv
<1>1. Init => IInv
  BY InitIInv
<1>2. IInv /\ [Next]_vars => IInv'
  BY BeginStep, SetItemStep, LoadIndexStep, SaveIndexStep, DeleteEvictedStep, EndStoreStep,
     FailStep, ForgetStep, StutterStep DEF Next, Step
<1> QED BY <1>1, <1>2, PTL DEF Spec

\* The variables keep their types; a goroutine holds the mutex of its Storage
\* exactly from the read of the index to the end of its Store, whatever fails.
THEOREM TypeCorrect == Spec => []TypeOK
BY Invariance, PTL DEF IInv

\* The index Store writes has no id twice and no more than MaxEntries, whatever
\* other processes overwrite and whichever calls fail.
THEOREM IndexStaysBounded == Spec => []IndexBounded
<1>1. IInv => IndexBounded
  BY DEF IInv, Lists, Proper, NoneTwice, IndexBounded
<1> QED BY <1>1, Invariance, PTL

\* prependUnique keeps List in the order of the Stores: for all ids within one
\* process, for those stored only once in any case.
THEOREM NewestAreFirst == Spec => []NewestFirst
<1>1. IInv => NewestFirst
  <2> SUFFICES ASSUME IInv, NEW i \in DOMAIN index, NEW j \in DOMAIN index,
                      <<index[i], index[j]>> \in before,
                      \/ OneProcess /\ index[j] \in done
                      \/ {index[i], index[j]} \cap again = {}
               PROVE  j < i
    BY DEF NewestFirst
  <2>1. CASE {index[i], index[j]} \cap again = {}
    BY <2>1 DEF IInv, Lists, Proper, InOrder
  <2>2. CASE OneProcess /\ index[j] \in done
    <3>1. index \in Seq(Ids) /\ index[i] \in Ids /\ index[j] \in Ids
      BY DEF IInv, TypeOK
    <3>2. DOMAIN index = 1..Len(index) /\ Len(index) \in Nat
      BY <3>1
    <3>3. Precedes(index, index[j], index[i])
      BY <2>2, <3>1 DEF IInv, DoneFirst
    <3>4. PICK k \in 1..(i - 1) : index[k] = index[j]
      BY <3>3 DEF Precedes
    <3>5. k \in DOMAIN index /\ k < i
      BY <3>2, <3>4
    <3>6. k = j
      BY <3>4, <3>5 DEF IInv, Lists, Proper, NoneTwice
    <3> QED BY <3>5, <3>6
  <2> QED BY <2>1, <2>2
<1> QED BY <1>1, Invariance, PTL

\* The mutex makes the read and the write of the index one step for the
\* goroutines of a process: none overwrites what another has added.
THEOREM UpdatesNotLost == Spec => []NoLostUpdate
<1>1. IInv => NoLostUpdate
  <2> SUFFICES ASSUME IInv, OneProcess, NEW id \in done \ Listed
               PROVE  /\ MaxEntries > 0 /\ Len(index) = MaxEntries
                      /\ \A other \in Listed : <<other, id>> \notin before
    BY DEF NoLostUpdate
  <2>1. index \in Seq(Ids) /\ DOMAIN index = 1..Len(index) /\ Len(index) \in Nat
        /\ id \in Ids /\ Listed \subseteq Ids
    BY DEF IInv, TypeOK, Listed
  <2>2. ASSUME NEW i \in DOMAIN index, <<index[i], id>> \in before PROVE FALSE
    <3>1. Precedes(index, id, index[i])
      BY <2>1, <2>2 DEF IInv, DoneFirst, Listed
    <3>2. PICK j \in 1..(i - 1) : index[j] = id
      BY <3>1 DEF Precedes
    <3>3. j \in DOMAIN index
      BY <2>1, <3>2
    <3> QED BY <3>2, <3>3 DEF Listed
  <2>3. \A other \in Listed : <<other, id>> \notin before
    BY <2>2 DEF Listed
  <2> QED BY <2>3 DEF IInv, DoneListed
<1> QED BY <1>1, Invariance, PTL

\* Within one process, what List lists Get gets.
THEOREM ListedAreStored == Spec => []ListedIsStored
BY Invariance, PTL DEF IInv

\* Within one process, nothing is stored that no Store will list or delete.
THEOREM NothingOrphaned == Spec => []NoOrphans
BY Invariance, PTL DEF IInv
=============================================================================
