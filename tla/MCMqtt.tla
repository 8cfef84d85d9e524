------------------------------- MODULE MCMqtt -------------------------------
(* Instances of Mqtt for TLC: the senders are interchangeable. *)
EXTENDS Mqtt, TLC

Symmetry == Permutations(Senders)
=============================================================================
