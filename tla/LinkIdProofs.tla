---------------------------- MODULE LinkIdProofs ----------------------------
(***************************************************************************)
(* What link ids tell, for any number of routes and any sockets.           *)
(***************************************************************************)
EXTENDS LinkId, TLAPS

(* The link id tells route and socket as long as the socket has no more     *)
(* digits than the number of routes.                                        *)
THEOREM LinkRoundTrip ==
  ASSUME NEW route_id \in Nat, NEW socket \in 0..(LinkBase - 1)
  PROVE  /\ GetSocket(BuildLinkID(route_id, socket)) = socket
         /\ GetRouteID(BuildLinkID(route_id, socket)) = route_id
<1>1. \A base \in Nat \ {0}, r, s \in Nat : s <= base - 1 =>
         (r * base + s) % base = s /\ (r * base + s) \div base = r
  BY SMT
<1> QED BY <1>1, LinkBaseAssumption DEF GetSocket, GetRouteID, BuildLinkID

(* The socket after the last that fits is taken for socket 0 of the next    *)
(* route: link ids are not unique.                                          *)
THEOREM LinkCollision ==
  ASSUME NEW route_id \in Nat
  PROVE  BuildLinkID(route_id, LinkBase) = BuildLinkID(route_id + 1, 0)
<1>1. \A base \in Nat : route_id * base + base = (route_id + 1) * base + 0
  BY SMT
<1> QED BY <1>1, LinkBaseAssumption DEF BuildLinkID
=============================================================================
