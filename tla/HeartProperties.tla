-------------------------- MODULE HeartProperties --------------------------
(***************************************************************************)
(* What the heart check must do: properties of Heart.                      *)
(***************************************************************************)
EXTENDS Heart

TypeOK == /\ running \in BOOLEAN
          /\ stop_pc \in {"no", "join", "ended", "stopped"}
          /\ socket_array \subseteq Sockets /\ wait_heart_array \subseteq Sockets
          /\ updating \in Sockets \cup {NoSocket}
          /\ open \subseteq Sockets /\ closing \subseteq Sockets
          /\ silence \in [Sockets -> 0..2]

(* A socket waits for its heart only while its connection is there and is   *)
(* checked.  So a connection that gets the number of one that left is never *)
(* disconnected for the silence of that one, until the check is stopped.    *)
WaitingIsOpen == stop_pc \notin {"join", "ended"} =>
                    /\ wait_heart_array \subseteq socket_array
                    /\ socket_array \subseteq open
                    /\ socket_array \cap closing = {}

(* As long as the check runs, a connection made while it runs is let go at  *)
(* the second check that finds it silent, at the latest.                    *)
SilentIsClosed == running => \A s \in open \ closing : silence[s] <= 1

(* Also beside sockets that connected before RunServer, which are never     *)
(* checked: a socket that is checked is let go at the second check that     *)
(* finds it silent, whoever had its number before, and is checked for as    *)
(* long as it is there and the check runs.                                  *)
CheckedIsClosed == running => \A s \in socket_array : silence[s] <= 1
CheckedIsKept ==
  [][running /\ running' => (socket_array \cap open') \ closing' \subseteq socket_array']_vars

(* Until it is stopped, the check disconnects nobody one of whose packets   *)
(* has been handled since it looked last.                                   *)
HandledIsKept ==
  [][\A s \in Sockets : Check /\ running /\ silence[s] = 0 => s \notin closing' \ closing]_vars
=============================================================================
