------------------------------- MODULE LinkId -------------------------------
(***************************************************************************)
(* The number a server knows a channel by (rpc/net_server.h): the route it *)
(* is connected to and its socket there, in one decimal number.            *)
(***************************************************************************)
EXTENDS Integers

CONSTANT RouteNum          \* routes the server is connected to

ASSUME RouteNumAssumption == RouteNum \in Nat \ {0}

(* GetNumberLength: decimal digits of a number. *)
GetNumberLength[n \in Nat] == IF n < 10 THEN 1 ELSE 1 + GetNumberLength[n \div 10]

(* pow(10, route_length_) *)
LinkBase == 10 ^ GetNumberLength[RouteNum]
ASSUME LinkBaseAssumption == LinkBase \in Nat \ {0}

BuildLinkID(route_id, socket) == route_id * LinkBase + socket
GetSocket(link_id) == link_id % LinkBase
GetRouteID(link_id) == link_id \div LinkBase
=============================================================================
