--------------------------- MODULE MCRedisStorage ---------------------------
(* RedisStorage on a small instance. *)
EXTENDS RedisStorage, TLC

MCSymmetry == Permutations(Procs) \cup Permutations(Ids)
=============================================================================
