---------------------------- MODULE LRUContract ----------------------------
(***************************************************************************)
(* What "LRU eviction when size limit reached" promises of a cache: the    *)
(* keys it holds are at most MaxSize, and the key a new one displaces is   *)
(* the one whose last use lies furthest back.                              *)
(***************************************************************************)
EXTENDS FiniteSets, Naturals

CONSTANTS Keys, MaxSize

VARIABLES live,   \* the keys held
          newer   \* <<a, b>> : a was used more recently than b

vars == <<live, newer>>

Init == live = {} /\ newer = {}

Among(S) == newer \cap (S \X S)

(* The recency of the keys S once k is the last one used. *)
Used(k, S) == Among(S \ {k}) \cup {<<k, x>> : x \in S \ {k}}

Oldest(k) == \A x \in live \ {k} : <<x, k>> \in newer

Use(k) == k \in live /\ newer' = Used(k, live) /\ UNCHANGED live

Insert(k) == /\ k \notin live /\ Cardinality(live) < MaxSize
             /\ live' = live \cup {k}
             /\ newer' = Used(k, live')

Displace(k, old) == /\ k \notin live /\ Cardinality(live) = MaxSize
                    /\ old \in live /\ Oldest(old)
                    /\ live' = (live \ {old}) \cup {k}
                    /\ newer' = Used(k, live')

Drop(S) == live' = live \ S /\ newer' = Among(live')

Next == \/ \E k \in Keys : Use(k) \/ Insert(k) \/ \E old \in live : Displace(k, old)
        \/ \E S \in SUBSET live : Drop(S)

Spec == Init /\ [][Next]_vars
=============================================================================
