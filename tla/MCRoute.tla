------------------------------ MODULE MCRoute ------------------------------
(* Route on small sets of sockets, services and addresses. *)
EXTENDS RouteProperties

SocketSymmetry == Permutations(Sockets)
=============================================================================
