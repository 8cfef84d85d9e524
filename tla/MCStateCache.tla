---------------------------- MODULE MCStateCache ----------------------------
(* Small instances of StateCache for TLC.                                   *)
EXTENDS StateCache, TLC

CONSTANTS k1, k2, k3, t1, t2

(* Each key set by one thread; and each key set by either of two. *)
OneWriter == (k1 :> {t1} @@ k2 :> {t2})
AnyWriter == [k \in Keys |-> Threads]

CacheSymmetry == Permutations(Keys) \cup Permutations(Values) \cup Permutations(Threads)
=============================================================================
