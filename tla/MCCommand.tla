----------------------------- MODULE MCCommand -----------------------------
(* Small instances of Command for TLC.                                      *)
EXTENDS Command, TLC

ThreadSymmetry == Permutations(Threads)
=============================================================================
