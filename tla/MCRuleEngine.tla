----------------------------- MODULE MCRuleEngine -----------------------------
EXTENDS RuleEngine

(* What a profile lets happen, another may too that makes up states if it  *)
(* does and has its orders, of which one that is never met may be any; the *)
(* properties say more of it if it does not rename the key, which changes  *)
(* what a condition finds and nothing else.  These have none above them.   *)
Within(p, q) ==
    /\ p.makesUp => q.makesUp
    /\ q.renamed => p.renamed
    /\ p.orders \ {Unmet} \subseteq q.orders
    /\ p.orders # {} => q.orders # {}

Widest == {p \in Profiles : \A q \in Profiles : Within(p, q) => q = p}
=============================================================================
