------------------------------ MODULE MCServer ------------------------------
(* Server with a few work threads and channels. *)
EXTENDS ServerProperties, TLC

ThreadSymmetry == Permutations(WorkThreads)
=============================================================================
