----------------------------- MODULE MCChannel -----------------------------
(* Values of the constants of Channel for TLC. *)
EXTENDS ChannelProperties, TLC

ThreadSymmetry == Permutations(ParseThreads) \cup Permutations(WorkThreads)
=============================================================================
