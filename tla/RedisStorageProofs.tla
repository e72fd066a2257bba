------------------------ MODULE RedisStorageProofs ------------------------
(***************************************************************************)
(* The properties of RedisStorage for any goroutines, ids, limit and TTL.   *)
(***************************************************************************)
EXTENDS RedisStorage, SequenceTheorems, TLAPS

-----------------------------------------------------------------------------
(* The TTL of the index *)

LEMMA Remainder ==
    ASSUME NEW t \in Nat, NEW d \in Nat \ {0}
    PROVE  t % d \in Nat /\ t % d < d /\ t % d <= t
OBVIOUS

\* EXPIRE cuts less than a second off, and nothing off whole seconds.
LEMMA TTLFacts ==
    /\ IndexTTL \in Nat \ {0} /\ Cut \in Nat
    /\ TTL <= IndexTTL + Cut
    /\ Cut < Second
    /\ TTL % Second = 0 => Cut = 0
<1> DEFINE rest == TTL % Second
<1>1. TTL \in Nat \ {0} /\ Second \in Nat \ {0}
  BY TimeAssumption
<1>2. rest \in Nat /\ rest < Second /\ rest <= TTL
  BY <1>1, Remainder
<1>3. /\ IndexTTL = IF TTL < Second THEN Second ELSE TTL - rest
      /\ Cut = IF TTL > IndexTTL THEN TTL - IndexTTL ELSE 0
  BY DEF IndexTTL, Cut
<1>4. TTL % Second = rest
  OBVIOUS
<1> HIDE DEF rest
<1> QED
  BY <1>1, <1>2, <1>3, <1>4

-----------------------------------------------------------------------------
(* The inductive invariant *)

ActiveAt(id, commands) == \E p \in Procs : call[p].at \in commands /\ call[p].id = id

\* A call goes on for an id of its own, which is not done meanwhile, and trims
\* only if there is a limit.
OwnCalls ==
    /\ \A p, q \in Procs :
          call[p] # Idle /\ call[q] # Idle /\ call[p].id = call[q].id => p = q
    /\ \A p \in Procs : call[p] # Idle => call[p].id \notin done
    /\ \A p \in Procs : call[p].at = "trim" => MaxEntries > 0

\* No metadata lives for longer than a TTL from now, nor, from the EXPIRE of its
\* Store on, for longer than the index but for what was cut off the TTL of that.
LifeBounded ==
    /\ \A id \in Ids : expiry[id] <= now + TTL
    /\ \A id \in Ids :
          (id \in done \/ ActiveAt(id, {"reply"})) /\ indexExpiry # Never
             => expiry[id] <= indexExpiry + Cut

\* StoredIsListed holds from the LPUSH on.
Pushed(id) == id \in done \/ ActiveAt(id, {"trim", "expire", "reply"})
PushedIsListed ==
    \A id \in Ids \ torn :
        Pushed(id) /\ expiry[id] > now + Cut /\ id \notin Listed
            => MaxEntries > 0 /\ Len(index) >= MaxEntries

\* So does NewestFirst.
PushedFirst ==
    \A a, b \in Ids :
        <<a, b>> \in before => a # b /\ a \in done /\ (Pushed(b) => Precedes(b, a))

IInv ==
    /\ TypeOK /\ OwnCalls /\ LifeBounded /\ PushedIsListed /\ PushedFirst
    /\ ExcessIsPassing /\ ImmortalIsPassing

-----------------------------------------------------------------------------
(* Calls *)

Commands == {"set", "push", "trim", "expire", "reply"}

LEMMA CallFacts ==
    ASSUME TypeOK, NEW p \in Procs
    PROVE  /\ call[p] # Idle <=> call[p].at \in Commands
           /\ call[p].at \in Commands => call[p].id \in Ids
BY DEF TypeOK, Call, Idle, Commands

\* What a step from one command to the next changes in the calls.
Moved(p, to) ==
    /\ call' \in [Procs -> Call]
    /\ call[p].at \in Commands /\ call[p].id \in Ids
    /\ call'[p].at = to /\ call'[p].id = call[p].id
    /\ \A q \in Procs \ {p} : call'[q] = call[q]

LEMMA MoveFacts ==
    ASSUME TypeOK, NEW p \in Procs, call[p].at \in Commands,
           NEW to \in Commands, call' = [call EXCEPT ![p].at = to]
    PROVE  Moved(p, to)
<1>1. call \in [Procs -> Call] /\ call[p] \in [at : Commands, id : Ids]
  BY DEF TypeOK, Call, Idle, Commands
<1> DEFINE c == [call[p] EXCEPT !.at = to]
<1>2. c \in [at : Commands, id : Ids] /\ c.at = to /\ c.id = call[p].id
  BY <1>1
<1>3. call' = [call EXCEPT ![p] = c]
  OBVIOUS
<1>4. c \in Call
  BY <1>2 DEF Call, Commands
<1> HIDE DEF c
<1> QED BY <1>1, <1>2, <1>3, <1>4 DEF Moved

LEMMA MoveOwn ==
    ASSUME TypeOK, OwnCalls, NEW p \in Procs, NEW to, Moved(p, to), done' = done,
           to = "trim" => MaxEntries > 0
    PROVE  OwnCalls'
<1>1. \A q \in Procs : call'[q] # Idle => call[q] # Idle /\ call'[q].id = call[q].id
  BY CallFacts DEF Moved
<1>2. \A q \in Procs : call'[q].at = "trim" => q = p \/ call[q].at = "trim"
  BY DEF Moved
<1> QED BY <1>1, <1>2 DEF OwnCalls, Moved

-----------------------------------------------------------------------------
(* The list *)

LEMMA PushFacts ==
    ASSUME NEW s \in Seq(Ids), NEW id \in Ids, NEW t, t = <<id>> \o s
    PROVE  /\ t \in Seq(Ids) /\ t # <<>>
           /\ Len(t) = Len(s) + 1 /\ t[1] = id
           /\ \A i \in 1..Len(s) : t[i + 1] = s[i]
           /\ \A i \in 2..Len(t) : i - 1 \in 1..Len(s) /\ t[i] = s[i - 1]
<1>1. <<id>> \in Seq(Ids) /\ Len(<<id>>) = 1
  OBVIOUS
<1>2. t \in Seq(Ids) /\ Len(t) = 1 + Len(s)
  BY <1>1
<1>3. \A i \in 1..Len(t) : t[i] = IF i = 1 THEN id ELSE s[i - 1]
  BY <1>1
<1>4. Len(s) \in Nat
  OBVIOUS
<1> QED BY <1>2, <1>3, <1>4

LEMMA MinOfTwo ==
    ASSUME NEW m \in Nat, NEW n \in Nat
    PROVE  Min({n, m}) = IF n <= m THEN n ELSE m
<1> DEFINE k == Min({n, m})
<1>1. \E x \in {n, m} : \A y \in {n, m} : x <= y
  OBVIOUS
<1>2. k \in {n, m} /\ \A y \in {n, m} : k <= y
  BY <1>1 DEF Min
<1>3. (k = n \/ k = m) /\ k <= n /\ k <= m
  BY <1>2
<1> HIDE DEF k
<1>4. k = IF n <= m THEN n ELSE m
  BY <1>3
<1> QED BY <1>4 DEF k

\* t is what is left of s.
IsPrefix(t, s) ==
    /\ t \in Seq(Ids) /\ Len(t) <= Len(s)
    /\ \A i \in 1..Len(t) : i \in 1..Len(s) /\ t[i] = s[i]

LEMMA PrefixFacts ==
    ASSUME NEW s \in Seq(Ids), NEW n \in Nat, n <= Len(s)
    PROVE  Len(SubSeq(s, 1, n)) = n /\ IsPrefix(SubSeq(s, 1, n), s)
<1>1. Len(s) \in Nat /\ \A i \in 1..n : i \in 1..Len(s)
  OBVIOUS
<1>2. \A i \in 1..n : s[i] \in Ids
  BY <1>1, ElementOfSeq
<1>3. /\ SubSeq(s, 1, n) \in Seq(Ids)
      /\ Len(SubSeq(s, 1, n)) = IF 1 <= n THEN n - 1 + 1 ELSE 0
      /\ \A i \in 1..(n - 1 + 1) : SubSeq(s, 1, n)[i] = s[1 + i - 1]
  BY <1>2, SubSeqProperties
<1>4. Len(SubSeq(s, 1, n)) = n
  BY <1>3
<1>5. \A i \in 1..n : SubSeq(s, 1, n)[i] = s[i]
  BY <1>3
<1> QED BY <1>1, <1>3, <1>4, <1>5 DEF IsPrefix

LEMMA TrimFacts ==
    ASSUME NEW s \in Seq(Ids), NEW m \in Nat \ {0}, NEW t,
           t = SubSeq(s, 1, Min({Len(s), m}))
    PROVE  /\ IsPrefix(t, s)
           /\ Len(t) = IF Len(s) <= m THEN Len(s) ELSE m
           /\ Len(s) <= m => t = s
<1>1. Len(s) \in Nat
  OBVIOUS
<1>2. CASE Len(s) <= m
  <2>1. t = SubSeq(s, 1, Len(s))
    BY <1>1, <1>2, MinOfTwo
  <2>2. t = s
    BY <2>1, SubSeqFull
  <2>3. IsPrefix(SubSeq(s, 1, Len(s)), s)
    BY <1>1, PrefixFacts
  <2> QED BY <1>2, <2>1, <2>2, <2>3
<1>3. CASE ~(Len(s) <= m)
  <2>1. t = SubSeq(s, 1, m)
    BY <1>1, <1>3, MinOfTwo
  <2>2. Len(SubSeq(s, 1, m)) = m /\ IsPrefix(SubSeq(s, 1, m), s)
    BY <1>1, <1>3, PrefixFacts
  <2> QED BY <1>3, <2>1, <2>2
<1> QED BY <1>2, <1>3

-----------------------------------------------------------------------------
(* The steps *)

LEMMA InitIInv == Init => IInv
<1> SUFFICES ASSUME Init PROVE IInv
  OBVIOUS
<1>1. TypeOK
  <2>1. index \in Seq(Ids)
    BY DEF Init
  <2>2. untrimmed \in BOOLEAN /\ unexpired \in BOOLEAN
    BY DEF Init
  <2>3. call \in [Procs -> Call] /\ expiry \in [Ids -> Nat]
    BY DEF Init, Call
  <2> QED BY <2>1, <2>2, <2>3, TimeAssumption DEF Init, TypeOK
<1>2. OwnCalls
  BY DEF Init, OwnCalls, Idle
<1>3. LifeBounded
  BY TimeAssumption DEF Init, LifeBounded
<1>4. PushedIsListed /\ PushedFirst
  BY TTLFacts DEF Init, PushedIsListed, PushedFirst
<1>5. ExcessIsPassing /\ ImmortalIsPassing
  BY LimitAssumption DEF Init, ExcessIsPassing, ImmortalIsPassing
<1> QED BY <1>1, <1>2, <1>3, <1>4, <1>5 DEF IInv

LEMMA BeginStep ==
    ASSUME IInv, NEW p \in Procs, NEW id \in Ids, Begin(p, id)
    PROVE  IInv'
<1> USE DEF IInv, server
<1>1. /\ call[p] = Idle
      /\ \A q \in Procs : call[q] # Idle => call[q].id # id
      /\ call'[p] = [at |-> "set", id |-> id]
      /\ \A q \in Procs \ {p} : call'[q] = call[q]
  BY DEF Begin, TypeOK
<1>2. TypeOK'
  BY DEF Begin, TypeOK, Call
<1>3. OwnCalls'
  BY <1>1, CallFacts DEF Begin, OwnCalls, Idle
<1>4. \A c \in SUBSET {"push", "trim", "expire", "reply"}, i \in Ids :
         ActiveAt(i, c)' <=> ActiveAt(i, c)
  BY <1>1 DEF ActiveAt, Idle
<1>5. LifeBounded'
  BY <1>4 DEF Begin, LifeBounded
<1>6. \A i \in Ids : Pushed(i)' => Pushed(i) /\ i # id
  BY <1>1, <1>4 DEF Begin, Pushed, ActiveAt, Idle
<1>7. PushedIsListed'
  BY <1>6 DEF Begin, PushedIsListed, Listed
<1>8. PushedFirst'
  <2>1. ASSUME NEW a \in Ids, NEW b \in Ids, <<a, b>> \in before'
        PROVE  \/ <<a, b>> \in before /\ a # id /\ b # id
               \/ a \in done \ {id} /\ b = id
    BY <2>1 DEF Begin
  <2> QED BY <2>1, <1>6 DEF Begin, PushedFirst, Precedes
<1>9. \A c \in SUBSET {"push", "trim", "expire", "reply"} : At(c)' <=> At(c)
  BY <1>1 DEF At, Idle
<1>10. ExcessIsPassing' /\ ImmortalIsPassing'
  BY <1>9 DEF Begin, ExcessIsPassing, ImmortalIsPassing
<1> QED BY <1>2, <1>3, <1>5, <1>7, <1>8, <1>10

LEMMA SetStep ==
    ASSUME IInv, NEW p \in Procs, Set(p)
    PROVE  IInv'
<1> USE DEF IInv, history
<1>1. Moved(p, "push")
  BY MoveFacts DEF Set, Go, Commands
<1>2. TypeOK'
  BY <1>1, TimeAssumption DEF Set, TypeOK, Moved
<1>3. OwnCalls'
  BY <1>1, MoveOwn DEF Set
<1>4. \A i \in Ids : Pushed(i)' => Pushed(i) /\ i # call[p].id
  BY <1>1, CallFacts DEF Set, Go, Pushed, ActiveAt, Moved, OwnCalls, Commands
<1>5. \A i \in Ids : ActiveAt(i, {"reply"})' => ActiveAt(i, {"reply"}) /\ i # call[p].id
  BY <1>1, CallFacts DEF Set, Go, ActiveAt, Moved, OwnCalls, Commands
<1>6. LifeBounded'
  BY <1>1, <1>4, <1>5, TimeAssumption DEF Set, LifeBounded, Pushed, TypeOK
<1>7. PushedIsListed'
  BY <1>4 DEF Set, PushedIsListed, Listed, TypeOK
<1>8. PushedFirst'
  BY <1>4 DEF Set, PushedFirst, Precedes
<1>9. ExcessIsPassing' /\ ImmortalIsPassing'
  BY <1>1 DEF Set, Go, Moved, At, ExcessIsPassing, ImmortalIsPassing
<1> QED BY <1>2, <1>3, <1>6, <1>7, <1>8, <1>9

LEMMA LPushStep ==
    ASSUME IInv, NEW p \in Procs, LPush(p)
    PROVE  IInv'
<1> USE DEF IInv, history
<1> DEFINE id == call[p].id
<1>0. AfterPush \in {"trim", "expire"} /\ (AfterPush = "trim" => MaxEntries > 0)
      /\ (MaxEntries > 0 => AfterPush = "trim")
  BY DEF AfterPush
<1>1. Moved(p, AfterPush)
  BY <1>0, MoveFacts DEF LPush, Go, Commands
<1>2. id \in Ids /\ id \notin done
  BY <1>1, CallFacts DEF Moved, OwnCalls
<1>3. /\ index' \in Seq(Ids) /\ index' # <<>>
      /\ Len(index') = Len(index) + 1 /\ index'[1] = id
      /\ \A i \in 1..Len(index) : index'[i + 1] = index[i]
      /\ \A i \in 2..Len(index') : i - 1 \in 1..Len(index) /\ index'[i] = index[i - 1]
  BY <1>2, PushFacts DEF LPush, TypeOK
<1>4. Len(index) \in Nat /\ DOMAIN index = 1..Len(index) /\ DOMAIN index' = 1..Len(index')
  BY <1>3 DEF TypeOK
<1>5. TypeOK'
  BY <1>1, <1>3 DEF LPush, TypeOK, Moved
<1>6. OwnCalls'
  BY <1>0, <1>1, MoveOwn DEF LPush
<1>7. \A i \in Ids : Pushed(i)' => Pushed(i) \/ i = id
  BY <1>1, CallFacts DEF LPush, Go, Pushed, ActiveAt, Moved
<1>8. \A i \in Ids : ActiveAt(i, {"reply"})' => ActiveAt(i, {"reply"})
  BY <1>0, <1>1 DEF ActiveAt, Moved
<1>9. LifeBounded'
  BY <1>8 DEF LPush, LifeBounded
<1>10. Listed \cup {id} \subseteq Listed'
  <2>1. id \in Listed'
    BY <1>3, <1>4 DEF Listed
  <2>2. ASSUME NEW i \in 1..Len(index) PROVE index[i] \in Listed'
    <3>1. i + 1 \in 1..Len(index') /\ index'[i + 1] = index[i]
      BY <1>3, <1>4
    <3> QED BY <1>4, <3>1 DEF Listed
  <2> QED BY <1>4, <2>1, <2>2 DEF Listed
<1>11. PushedIsListed'
  BY <1>3, <1>4, <1>7, <1>10, LimitAssumption DEF LPush, PushedIsListed
<1>12. PushedFirst'
  <2> SUFFICES ASSUME NEW a \in Ids, NEW b \in Ids, <<a, b>> \in before
               PROVE  a # b /\ a \in done /\ (Pushed(b)' => Precedes(b, a)')
    BY DEF LPush, PushedFirst
  <2>1. a # b /\ a \in done /\ a # id
    BY <1>2 DEF PushedFirst
  <2>2. ASSUME Pushed(b)', NEW i \in DOMAIN index', index'[i] = a
        PROVE  \E j \in 1..(i - 1) : index'[j] = b
    <3>1. i \in 2..Len(index')
      BY <1>3, <1>4, <2>1, <2>2
    <3>2. CASE b = id
      BY <1>3, <3>1, <3>2
    <3>3. CASE b # id
      <4>1. i - 1 \in DOMAIN index /\ index[i - 1] = a /\ Precedes(b, a)
        BY <1>3, <1>4, <1>7, <2>2, <3>1, <3>3 DEF PushedFirst
      <4>2. PICK j \in 1..(i - 1 - 1) : index[j] = b
        BY <4>1 DEF Precedes
      <4>3. j + 1 \in 1..(i - 1) /\ index'[j + 1] = b
        BY <1>3, <1>4, <3>1, <4>2
      <4> QED BY <4>3
    <3> QED BY <3>2, <3>3
  <2> QED BY <2>1, <2>2 DEF Precedes
<1>13. At({AfterPush})'
  BY <1>1 DEF At, Moved
<1>14. ExcessIsPassing' /\ ImmortalIsPassing'
  BY <1>0, <1>13 DEF At, ExcessIsPassing, ImmortalIsPassing
<1> QED BY <1>5, <1>6, <1>9, <1>11, <1>12, <1>14

LEMMA LTrimStep ==
    ASSUME IInv, NEW p \in Procs, LTrim(p)
    PROVE  IInv'
<1> USE DEF IInv
<1>0. MaxEntries \in Nat \ {0}
  BY LimitAssumption DEF LTrim, Go, OwnCalls
<1>1. Moved(p, "expire")
  BY MoveFacts DEF LTrim, Go, Commands
<1>2. /\ IsPrefix(index', index)
      /\ Len(index') = IF Len(index) <= MaxEntries THEN Len(index) ELSE MaxEntries
      /\ Len(index) <= MaxEntries => index' = index
  <2>1. index \in Seq(Ids) /\ index' = SubSeq(index, 1, Min({Len(index), MaxEntries}))
    BY DEF LTrim, TypeOK
  <2> HIDE DEF IInv
  <2> QED BY <1>0, <2>1, TrimFacts
<1>3. Len(index) \in Nat /\ DOMAIN index = 1..Len(index) /\ DOMAIN index' = 1..Len(index')
  <2>1. index \in Seq(Ids)
    BY DEF TypeOK
  <2>2. index' \in Seq(Ids)
    BY <1>2 DEF IsPrefix
  <2> HIDE DEF IInv
  <2> QED BY <2>1, <2>2, LenProperties
<1>4. TypeOK'
  <2>1. index' = <<>> => index = <<>>
    <3>1. Len(index) = 0 => index = <<>>
      BY EmptySeq DEF TypeOK
    <3>2. index' = <<>> => Len(index') = 0
      OBVIOUS
    <3> QED BY <1>0, <1>2, <1>3, <3>1, <3>2
  <2>3. index' \in Seq(Ids)
    BY <1>2 DEF IsPrefix
  <2>2. untrimmed' \in BOOLEAN
    BY DEF LTrim
  <2> QED BY <1>1, <2>1, <2>2, <2>3 DEF LTrim, TypeOK, Moved
<1>5. OwnCalls'
  BY <1>1, MoveOwn DEF LTrim
<1>6. \A i \in Ids : Pushed(i)' => Pushed(i)
  BY <1>1 DEF LTrim, Go, Pushed, ActiveAt, Moved
<1>7. \A i \in Ids : ActiveAt(i, {"reply"})' => ActiveAt(i, {"reply"})
  BY <1>1 DEF ActiveAt, Moved
<1>8. LifeBounded'
  BY <1>7 DEF LTrim, LifeBounded
<1>9. PushedIsListed'
  <2>1. CASE Len(index) <= MaxEntries
    BY <1>2, <1>6, <2>1 DEF LTrim, PushedIsListed, Listed
  <2>2. CASE ~(Len(index) <= MaxEntries)
    <3>1. MaxEntries > 0 /\ Len(index') >= MaxEntries
      BY <1>0, <1>2, <1>3, <2>2
    <3> QED BY <3>1 DEF PushedIsListed
  <2> QED BY <2>1, <2>2
<1>10. PushedFirst'
  <2>1. ASSUME NEW a \in Ids, NEW b \in Ids, Precedes(b, a) PROVE Precedes(b, a)'
    <3> SUFFICES ASSUME NEW i \in DOMAIN index', index'[i] = a
                 PROVE  \E j \in 1..(i - 1) : index'[j] = b
      BY DEF Precedes
    <3>1. i \in DOMAIN index /\ index[i] = a
      BY <1>2, <1>3 DEF IsPrefix
    <3>2. PICK j \in 1..(i - 1) : index[j] = b
      BY <2>1, <3>1 DEF Precedes
    <3>3. j \in 1..Len(index')
      BY <1>2, <1>3, <3>2
    <3> QED BY <1>2, <3>2, <3>3 DEF IsPrefix
  <2> QED BY <1>6, <2>1 DEF LTrim, PushedFirst
<1>11. ExcessIsPassing'
  BY <1>0, <1>2, <1>3 DEF ExcessIsPassing
<1>12. ImmortalIsPassing'
  BY <1>1 DEF At, ImmortalIsPassing, Moved
<1> QED BY <1>4, <1>5, <1>8, <1>9, <1>10, <1>11, <1>12

LEMMA ExpireStep ==
    ASSUME IInv, NEW p \in Procs, Expire(p)
    PROVE  IInv'
<1> USE DEF IInv
<1>1. Moved(p, "reply")
  BY MoveFacts DEF Expire, Go, Commands
<1>2. TypeOK'
  <2>1. now + IndexTTL \in Nat
    BY TTLFacts, TimeAssumption DEF TypeOK
  <2>2. unexpired' \in BOOLEAN
    BY DEF Expire
  <2> QED BY <1>1, <2>1, <2>2 DEF Expire, TypeOK, Moved
<1>3. OwnCalls'
  BY <1>1, MoveOwn DEF Expire
<1>4. \A i \in Ids : Pushed(i)' => Pushed(i)
  BY <1>1 DEF Expire, Go, Pushed, ActiveAt, Moved
<1>5. LifeBounded'
  <2>1. CASE index = <<>>
    BY <2>1 DEF Expire, LifeBounded, TypeOK
  <2>2. CASE index # <<>>
    <3>1. indexExpiry' = now + IndexTTL /\ expiry' = expiry /\ now' = now
      BY <2>2 DEF Expire
    <3>2. ASSUME NEW i \in Ids PROVE expiry[i] <= now + TTL /\ expiry[i] <= (now + IndexTTL) + Cut
      <4>1. expiry[i] \in Nat /\ now \in Nat /\ expiry[i] <= now + TTL
        BY DEF LifeBounded, TypeOK
      <4> HIDE DEF IInv
      <4> QED BY <4>1, TTLFacts, TimeAssumption
    <3> QED BY <3>1, <3>2 DEF LifeBounded
  <2> QED BY <2>1, <2>2
<1>6. PushedIsListed'
  BY <1>4 DEF Expire, PushedIsListed, Listed
<1>7. PushedFirst'
  BY <1>4 DEF Expire, PushedFirst, Precedes
<1>8. ExcessIsPassing'
  BY <1>1 DEF Expire, Go, At, Moved, ExcessIsPassing
<1>9. ImmortalIsPassing'
  <2>1. now + IndexTTL # Never
    BY TTLFacts, TimeAssumption DEF TypeOK
  <2> QED BY <2>1 DEF Expire, ImmortalIsPassing
<1> QED BY <1>2, <1>3, <1>5, <1>6, <1>7, <1>8, <1>9

LEMMA EndStoreStep ==
    ASSUME IInv, NEW p \in Procs, EndStore(p)
    PROVE  IInv'
<1> USE DEF IInv, server
<1> DEFINE id == call[p].id
<1>1. /\ call'[p] = Idle /\ \A q \in Procs \ {p} : call'[q] = call[q]
      /\ id \in Ids /\ call[p].at = "reply" /\ call[p] # Idle
  BY CallFacts DEF EndStore, TypeOK, Commands
<1>2. TypeOK'
  BY <1>1 DEF EndStore, TypeOK, Call
<1>3. OwnCalls'
  <2>1. \A q \in Procs : call'[q] # Idle => q # p /\ call'[q] = call[q]
    BY <1>1
  <2>2. \A q \in Procs : call'[q].at = "trim" => q # p /\ call'[q] = call[q]
    BY <1>1 DEF Idle
  <2> QED BY <1>1, <2>1, <2>2 DEF EndStore, OwnCalls
<1>4. ActiveAt(id, {"reply"})
  BY <1>1 DEF ActiveAt
<1>5. \A i \in Ids : Pushed(i)' => Pushed(i)
  BY <1>1, <1>4 DEF EndStore, Pushed, ActiveAt, Idle
<1>6. \A i \in Ids : ActiveAt(i, {"reply"})' => ActiveAt(i, {"reply"})
  BY <1>1 DEF ActiveAt, Idle
<1>7. LifeBounded'
  BY <1>4, <1>6 DEF EndStore, LifeBounded
<1>8. PushedIsListed'
  BY <1>5 DEF EndStore, PushedIsListed, Listed
<1>9. PushedFirst'
  BY <1>5 DEF EndStore, PushedFirst, Precedes
<1>10. \A c \in SUBSET {"trim", "expire"} : At(c) => At(c)'
  BY <1>1 DEF At
<1>11. ExcessIsPassing' /\ ImmortalIsPassing'
  BY <1>10 DEF EndStore, ExcessIsPassing, ImmortalIsPassing
<1> QED BY <1>2, <1>3, <1>7, <1>8, <1>9, <1>11

LEMMA BreakStep ==
    ASSUME IInv, NEW p \in Procs, Break(p)
    PROVE  IInv'
<1> USE DEF IInv, server
<1>1. call[p].at \in Commands /\ call[p].id \in Ids
  BY CallFacts DEF Break
<1>2. /\ call' \in [Procs -> Call]
      /\ call'[p] = Idle \/ (call'[p].at = "set" /\ call'[p].id = call[p].id)
      /\ \A q \in Procs \ {p} : call'[q] = call[q]
  <2>1. CASE call' = [call EXCEPT ![p] = Idle]
    BY <2>1 DEF TypeOK, Call
  <2>2. CASE call' = [call EXCEPT ![p].at = "set"]
    BY <1>1, <2>2, MoveFacts DEF Moved, Commands
  <2> QED BY <2>1, <2>2 DEF Break
<1>3. TypeOK'
  <2>1. untrimmed' \in BOOLEAN /\ unexpired' \in BOOLEAN
    BY DEF Break
  <2> QED BY <1>2, <2>1 DEF Break, TypeOK
<1>4. OwnCalls'
  <2>1. \A q \in Procs : call'[q] # Idle => call[q] # Idle /\ call'[q].id = call[q].id
    BY <1>1, <1>2, CallFacts
  <2>2. \A q \in Procs : call'[q].at = "trim" => call[q].at = "trim"
    BY <1>2 DEF Idle
  <2> QED BY <2>1, <2>2 DEF Break, OwnCalls
<1>5. \A i \in Ids : Pushed(i)' => Pushed(i)
  BY <1>2 DEF Break, Pushed, ActiveAt, Idle
<1>6. \A i \in Ids : ActiveAt(i, {"reply"})' => ActiveAt(i, {"reply"})
  BY <1>2 DEF ActiveAt, Idle
<1>7. LifeBounded'
  BY <1>6 DEF Break, LifeBounded
<1>8. PushedIsListed'
  BY <1>5 DEF Break, PushedIsListed, Listed
<1>9. PushedFirst'
  BY <1>5 DEF Break, PushedFirst, Precedes
<1>10. At({"trim"}) => At({"trim"})' \/ untrimmed'
  BY <1>2 DEF Break, At
<1>11. At({"trim", "expire"}) => At({"trim", "expire"})' \/ unexpired'
  BY <1>2 DEF Break, At
<1>12. (untrimmed => untrimmed') /\ (unexpired => unexpired')
  BY DEF Break
<1>13. ExcessIsPassing'
  BY <1>10, <1>12 DEF Break, ExcessIsPassing
<1>14. ImmortalIsPassing'
  BY <1>11, <1>12 DEF Break, ImmortalIsPassing
<1> QED BY <1>3, <1>4, <1>7, <1>8, <1>9, <1>13, <1>14

\* What the expiry of the index takes from a Store that has pushed its id is
\* written down in torn; any other metadata it listed expires with it, at the latest.
LEMMA TickStep ==
    ASSUME IInv, Tick
    PROVE  IInv'
<1> USE DEF IInv
<1>1. /\ now \in Nat /\ now' = now + 1 /\ now' \in 0..MaxTime
      /\ \A i \in Ids : expiry'[i] = IF expiry[i] <= now + 1 THEN 0 ELSE expiry[i]
      /\ call' = call /\ done' = done /\ before' = before
  BY TimeAssumption DEF Tick, TypeOK
<1>2. \A i \in Ids : expiry[i] \in Nat
  BY DEF TypeOK
<1>3. \A c : \A i \in Ids : ActiveAt(i, c)' <=> ActiveAt(i, c)
  BY <1>1 DEF ActiveAt
<1>4. \A i \in Ids : Pushed(i)' <=> Pushed(i)
  BY <1>1, <1>3 DEF Pushed
<1>5. OwnCalls'
  BY <1>1 DEF OwnCalls
<1>6. CASE ~IndexExpires
  <2>1. index' = index /\ indexExpiry' = indexExpiry /\ torn' = torn
    BY <1>6 DEF Tick
  <2>2. TypeOK'
    BY <1>1, <2>1 DEF Tick, TypeOK
  <2>3. LifeBounded'
    <3>1. ASSUME NEW i \in Ids PROVE expiry'[i] <= now' + TTL
      BY <1>1, <1>2, TimeAssumption DEF LifeBounded
    <3>2. ASSUME NEW i \in Ids, i \in done \/ ActiveAt(i, {"reply"}), indexExpiry # Never
          PROVE  expiry'[i] <= indexExpiry + Cut
      <4>1. indexExpiry \in Nat /\ expiry[i] <= indexExpiry + Cut
        BY <3>2 DEF LifeBounded, TypeOK
      <4> QED BY <1>1, <1>2, <4>1, TTLFacts
    <3> QED BY <1>1, <1>3, <2>1, <3>1, <3>2 DEF LifeBounded
  <2>4. PushedIsListed'
    <3>1. ASSUME NEW i \in Ids, expiry'[i] > now' + Cut PROVE expiry[i] > now + Cut
      BY <1>1, <1>2, <3>1, TTLFacts
    <3> QED BY <1>4, <2>1, <3>1 DEF PushedIsListed, Listed
  <2>5. PushedFirst'
    BY <1>1, <1>4, <2>1 DEF PushedFirst, Precedes
  <2>6. ExcessIsPassing' /\ ImmortalIsPassing'
    BY <1>1, <2>1 DEF Tick, At, ExcessIsPassing, ImmortalIsPassing
  <2> QED BY <1>5, <2>2, <2>3, <2>4, <2>5, <2>6
<1>7. CASE IndexExpires
  <2>1. /\ index' = <<>> /\ indexExpiry' = Never
        /\ torn' = torn \cup {call[p].id : p \in {q \in Procs : call[q].at \in {"trim", "expire"}}}
    BY <1>7 DEF Tick
  <2>2. TypeOK'
    <3>1. torn' \subseteq Ids
      BY <2>1, CallFacts DEF TypeOK, Commands
    <3>2. index' \in Seq(Ids)
      BY <2>1
    <3> QED BY <1>1, <2>1, <3>1, <3>2 DEF Tick, TypeOK
  <2>3. LifeBounded'
    <3>1. ASSUME NEW i \in Ids PROVE expiry'[i] <= now' + TTL
      BY <1>1, <1>2, TimeAssumption DEF LifeBounded
    <3> QED BY <2>1, <3>1 DEF LifeBounded
  <2>4. ASSUME NEW i \in Ids \ torn', Pushed(i)
        PROVE  ~(expiry'[i] > now' + Cut)
    <3>1. i \in done \/ ActiveAt(i, {"reply"})
      BY <2>1, <2>4 DEF Pushed, ActiveAt
    <3>2. expiry[i] <= indexExpiry + Cut /\ indexExpiry <= now + 1 /\ indexExpiry \in Nat
      BY <1>7, <3>1 DEF IndexExpires, LifeBounded, TypeOK
    <3> QED BY <1>1, <1>2, <3>2, TTLFacts
  <2>5. PushedIsListed'
    BY <1>4, <2>4 DEF PushedIsListed
  <2>6. PushedFirst'
    BY <1>1, <2>1 DEF PushedFirst, Precedes
  <2>7. ExcessIsPassing' /\ ImmortalIsPassing'
    BY <2>1, LimitAssumption DEF ExcessIsPassing, ImmortalIsPassing
  <2> QED BY <1>5, <2>2, <2>3, <2>5, <2>6, <2>7
<1> QED BY <1>6, <1>7

LEMMA StutterStep ==
    ASSUME IInv, UNCHANGED vars
    PROVE  IInv'
<1> USE DEF IInv, vars, server, history
<1>1. TypeOK' /\ OwnCalls'
  BY DEF TypeOK, OwnCalls
<1>2. LifeBounded'
  BY DEF LifeBounded, ActiveAt
<1>3. \A i \in Ids : Pushed(i)' <=> Pushed(i)
  BY DEF Pushed, ActiveAt
<1>4. PushedIsListed' /\ PushedFirst'
  BY <1>3 DEF PushedIsListed, PushedFirst, Listed, Precedes
<1>5. ExcessIsPassing' /\ ImmortalIsPassing'
  BY DEF ExcessIsPassing, ImmortalIsPassing, At
<1> QED BY <1>1, <1>2, <1>4, <1>5

-----------------------------------------------------------------------------
(* The theorems *)

\* The inductive invariant of the redis storage.
THEOREM Invariance == Spec => []IInv
<1>1. Init => IInv
  BY InitIInv
<1>2. IInv /\ [Next]_vars => IInv'
  BY BeginStep, SetStep, LPushStep, LTrimStep, ExpireStep, EndStoreStep, BreakStep,
     TickStep, StutterStep DEF Next
<1> QED BY <1>1, <1>2, PTL DEF Spec

\* The variables keep their types, and only a list that exists can expire.
THEOREM TypeCorrect == Spec => []TypeOK
BY Invariance, PTL DEF IInv

\* Store's LTRIM keeps the index within MaxEntries, but for the Stores that are
\* between LPUSH and LTRIM and those that broke there.
THEOREM ExcessPasses == Spec => []ExcessIsPassing
BY Invariance, PTL DEF IInv

\* Store's EXPIRE gives the index its TTL, with the same exceptions.
THEOREM ImmortalPasses == Spec => []ImmortalIsPassing
BY Invariance, PTL DEF IInv

\* For any TTL, whole seconds or not, the index lives for as long as the metadata
\* of every Store that has returned, but for what EXPIRE cannot say (Cut), whatever
\* the order in which pipelines that interleave send their EXPIRE.
THEOREM IndexOutlives == Spec => []IndexOutlivesMetadata
<1>1. IInv => IndexOutlivesMetadata
  BY DEF IInv, TypeOK, LifeBounded, IndexOutlivesMetadata
<1> QED BY <1>1, Invariance, PTL

\* So that the metadata is never ahead by a whole second, and never at all if the
\* TTL is whole seconds.
THEOREM AheadByLessThanASecond ==
    Spec => [](\A id \in done : indexExpiry # Never =>
                    /\ expiry[id] < indexExpiry + Second
                    /\ TTL % Second = 0 => expiry[id] <= indexExpiry)
<1>1. ASSUME IInv, NEW id \in done, indexExpiry # Never
      PROVE  /\ expiry[id] < indexExpiry + Second
             /\ TTL % Second = 0 => expiry[id] <= indexExpiry
  <2>1. expiry[id] \in Nat /\ indexExpiry \in Nat /\ expiry[id] <= indexExpiry + Cut
    BY <1>1 DEF IInv, TypeOK, LifeBounded
  <2>2. Cut \in Nat /\ Cut < Second /\ Second \in Nat /\ (TTL % Second = 0 => Cut = 0)
    BY TTLFacts, TimeAssumption
  <2> QED BY <2>1, <2>2
<1>2. IInv => (\A id \in done : indexExpiry # Never =>
                    /\ expiry[id] < indexExpiry + Second
                    /\ TTL % Second = 0 => expiry[id] <= indexExpiry)
  BY <1>1
<1> QED BY <1>2, Invariance, PTL

\* What Store has stored is in the index, unless it expires within what was cut
\* off the TTL of that, or is pushed out of a full index, or the index expired in
\* the middle of that Store.
THEOREM StoredAreListed == Spec => []StoredIsListed
<1>1. IInv => StoredIsListed
  BY DEF IInv, TypeOK, PushedIsListed, Pushed, StoredIsListed
<1> QED BY <1>1, Invariance, PTL

\* List meets the newer of two Stores first, if one began after the other returned.
THEOREM NewestAreFirst == Spec => []NewestFirst
<1>1. IInv => NewestFirst
  BY DEF IInv, PushedFirst, Pushed, NewestFirst
<1> QED BY <1>1, Invariance, PTL
=============================================================================
