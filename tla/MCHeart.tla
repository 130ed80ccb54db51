------------------------------ MODULE MCHeart ------------------------------
(* Heart with a few sockets. *)
EXTENDS HeartProperties, TLC

SocketSymmetry == Permutations(Sockets)
=============================================================================
