------------------------- MODULE MCMemcacheStorage -------------------------
(* MemcacheStorage on a small instance: two goroutines of one process and one *)
(* of another.                                                              *)
EXTENDS MemcacheStorage

CONSTANTS p1, p2, p3, s1, s2

TwoProcesses == [p \in Procs |-> IF p = p3 THEN s2 ELSE s1]

\* Without is the loop of prependUnique: it leaves out each occurrence of the id.
ASSUME WithoutFilters ==
    \A n \in 0..4 : \A ids \in [1..n -> Ids], id \in Ids :
        Without(ids, id) = SelectSeq(ids, LAMBDA v : v # id)

MCSymmetry == Permutations(Ids) \cup Permutations({p1, p2})
=============================================================================
