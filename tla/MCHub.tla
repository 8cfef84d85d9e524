------------------------------- MODULE MCHub -------------------------------
(* Small instances of Hub for TLC.                                          *)
EXTENDS Hub, TLC

HubSymmetry == Permutations(Threads) \cup Permutations(Caps) \cup Permutations(Protocols)
=============================================================================
