--------------------------- MODULE MCActiveTraces ---------------------------
(* ActiveTraces on small instances: how SetTrace cuts the trace ids. *)
EXTENDS ActiveTraces, TLC

CONSTANTS t1, t2

FittingTrace == [t \in Traces |-> t]

\* t2 is longer than the string limit; what is left of it happens to be t1.
CutTrace == [t \in Traces |-> t1]

MCSymmetry == Permutations(Reqs) \cup Permutations(Lines)
=============================================================================
