------------------------------- MODULE Heart -------------------------------
(***************************************************************************)
(* The heart check of a route (public/rpc_heart.cpp): a thread of its own  *)
(* looks, once every timeout, for sockets that were silent since it looked *)
(* last, and disconnects them.  The callbacks of the network tell it which *)
(* sockets there are and which have spoken.                                *)
(*                                                                         *)
(* The callbacks run one at a time and each locks mutex_socket_ for what   *)
(* it changes, but UpdateSocket looks a socket up before it locks.  open,  *)
(* closing and silence are not in the code: they are the network's side    *)
(* and what the properties are about.  The sleeping that makes the timeout, *)
(* and the client's sending thread, are left out.                          *)
(***************************************************************************)
EXTENDS Naturals, FiniteSets

CONSTANTS Sockets,
          NoSocket,            \* no callback is inside UpdateSocket
          EarlyConnect         \* sockets connect before RunServer has run

ASSUME HeartConstants == NoSocket \notin Sockets /\ EarlyConnect \in BOOLEAN

VARIABLES running,             \* running_
          stop_pc,             \* where StopHeartCheck is
          socket_array, wait_heart_array,
          updating,            \* the socket found by UpdateSocket, to be erased
          open,                \* connections of the network
          closing,             \* those that are being disconnected
          silence              \* checks since a packet was handled, at most 2

sets == <<socket_array, wait_heart_array>>
vars == <<running, stop_pc, sets, updating, open, closing, silence>>

Init == /\ running = FALSE /\ stop_pc = "no"
        /\ socket_array = {} /\ wait_heart_array = {}
        /\ updating = NoSocket
        /\ open = {} /\ closing = {}
        /\ silence = [s \in Sockets |-> 0]

(* Start runs the network first and RunServer after it. *)
RunServer ==
  /\ stop_pc = "no" /\ ~running
  /\ running' = TRUE
  /\ UNCHANGED <<stop_pc, sets, updating, open, closing, silence>>

(* StopHeartCheck tells the heart thread to end, and after the join, in     *)
(* which the thread may make one more check, it clears the sets.            *)
StopHeartCheck ==
  /\ running
  /\ running' = FALSE /\ stop_pc' = "join"
  /\ UNCHANGED <<sets, updating, open, closing, silence>>

ClearSockets ==
  /\ stop_pc \in {"join", "ended"}
  /\ stop_pc' = "stopped"
  /\ socket_array' = {} /\ wait_heart_array' = {}
  /\ UNCHANGED <<running, updating, open, closing, silence>>

(* RpcRoute::OnConnect *)
AddSocket(s) ==
  /\ updating = NoSocket
  /\ s \notin open
  /\ running \/ stop_pc # "no" \/ EarlyConnect
  /\ open' = open \cup {s}
  /\ silence' = [silence EXCEPT ![s] = 0]
  /\ socket_array' = IF running THEN socket_array \cup {s} ELSE socket_array
  /\ UNCHANGED <<running, stop_pc, wait_heart_array, updating, closing>>

(* RpcRoute::OnDisconnect: the peer left, or Disconnect was called. *)
DelSocket_NotWaiting(s) ==
  /\ updating = NoSocket
  /\ s \in open
  /\ open' = open \ {s} /\ closing' = closing \ {s}
  /\ socket_array' = IF running THEN socket_array \ {s} ELSE socket_array
  /\ UNCHANGED <<running, stop_pc, wait_heart_array, updating, silence>>
DelSocket(s) ==
  /\ updating = NoSocket
  /\ s \in open
  /\ open' = open \ {s} /\ closing' = closing \ {s}
  /\ IF running THEN /\ socket_array' = socket_array \ {s}
                     /\ wait_heart_array' = wait_heart_array \ {s}
                ELSE UNCHANGED sets
  /\ UNCHANGED <<running, stop_pc, updating, silence>>

(* RpcRoute::OnReceive.  UpdateSocket looks s up, without the mutex, ...    *)
UpdateSocket(s) ==
  /\ updating = NoSocket
  /\ s \in open \ closing
  /\ IF running /\ s \in wait_heart_array
     THEN updating' = s /\ UNCHANGED silence
     ELSE silence' = [silence EXCEPT ![s] = 0] /\ UNCHANGED updating
  /\ UNCHANGED <<running, stop_pc, sets, open, closing>>

(* ... and then locks it and erases the socket it found. *)
EraseWaiting_Nothing ==
  /\ updating # NoSocket
  /\ silence' = [silence EXCEPT ![updating] = 0]
  /\ updating' = NoSocket
  /\ UNCHANGED <<running, stop_pc, sets, open, closing>>
EraseWaiting ==
  /\ updating # NoSocket
  /\ wait_heart_array' = wait_heart_array \ {updating}
  /\ silence' = [silence EXCEPT ![updating] = 0]
  /\ updating' = NoSocket
  /\ UNCHANGED <<running, stop_pc, socket_array, open, closing>>

NextToWait_Nobody == {}
NextToWait_Updated == (socket_array \ wait_heart_array) \cup {updating}
NextToWait == socket_array \ wait_heart_array

(* The heart thread, every timeout: who is still waiting goes, all others   *)
(* have until the next check to be heard.                                   *)
Check ==
  /\ running \/ stop_pc = "join"
  /\ stop_pc' = IF running THEN stop_pc ELSE "ended"
  /\ closing' = closing \cup (wait_heart_array \cap open)
  /\ socket_array' = socket_array \ wait_heart_array
  /\ wait_heart_array' = NextToWait
  /\ silence' = [s \in Sockets |-> IF silence[s] = 2 THEN 2 ELSE silence[s] + 1]
  /\ UNCHANGED <<running, updating, open>>

Next == \/ RunServer \/ StopHeartCheck \/ ClearSockets \/ Check \/ EraseWaiting
        \/ \E s \in Sockets : AddSocket(s) \/ DelSocket(s) \/ UpdateSocket(s)

Spec == Init /\ [][Next]_vars
=============================================================================
