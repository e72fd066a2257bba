------------------------- MODULE MCInMemoryStorage -------------------------
(* InMemoryStorage on a small instance.                                     *)
EXTENDS InMemoryStorage

\* Lists of at most three entries, in order of creation.
ShortLists ==
    UNION {[1..n -> [id : Ids, bytes : Sizes, createdAt : 0..1]] : n \in 0..3}
InOrder(s) == \A i, j \in DOMAIN s : i < j => s[i].createdAt <= s[j].createdAt
OnePerId(s) == \A i, j \in DOMAIN s : s[i].id = s[j].id => i = j

\* RecencyLog says with running sums, least positions and a removal what folds
\* and filters say as well: a list fits if its sizes add up to no more than the
\* limit, and an entry that is dropped is filtered out.
WithinBoth(s) ==
    Len(s) <= MaxEntries /\ FoldLeft(LAMBDA sum, e : sum + e.bytes, 0, s) <= MaxBytes
ASSUME RecencyByFilters ==
    \A s \in ShortLists :
        /\ Abs!Fits(s) <=> WithinBoth(s)
        /\ IsSuffix(Abs!Recent(s), s) /\ WithinBoth(Abs!Recent(s))
        /\ \A t \in Suffixes(s) : WithinBoth(t) => Len(t) <= Len(Abs!Recent(s))
        /\ InOrder(s) =>
            \A c \in 0..2 : Abs!Young(s, c) = SelectSeq(s, LAMBDA e : e.createdAt >= c)
        /\ OnePerId(s) =>
            \A id \in Ids : Abs!Without(s, id) = SelectSeq(s, LAMBDA e : e.id # id)
=============================================================================
