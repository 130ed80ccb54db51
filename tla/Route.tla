------------------------------- MODULE Route -------------------------------
(***************************************************************************)
(* The frrpc route (route/route.cpp): servers register services under an   *)
(* address, channels send requests to a service by name, and the route     *)
(* forwards each to the server the channel is bound to, or else to the     *)
(* servers of that service in turn.                                        *)
(*                                                                         *)
(* Peers are known by the socket of their connection, and a socket that    *)
(* was closed is given to a later connection.  role, addr, registered,     *)
(* bound_at and served are not in the code: they say what the peer on a    *)
(* socket is and was told, and what became of the two connections that a   *)
(* binding was made between, for the properties.                           *)
(* sent holds what the last step gave to net_server_->Send.                *)
(*                                                                         *)
(* Each callback of the network is one step: frnet, which is not part of   *)
(* the repository, is taken to deliver them one at a time.  Left out: the  *)
(* contents of packets, the heart check (module Heart), OnClose, and the   *)
(* disconnect notices, whose code is commented out.                        *)
(***************************************************************************)
EXTENDS Integers, Sequences, FiniteSets, SequencesExt

CONSTANTS Sockets,          \* descriptors the network hands out
          Services, Addrs,  \* service names, service addresses
          AnyAddr,          \* the empty address
          NoSocket,         \* SOCKET_NULL; also "no entry" in a map
          NoService,        \* "no entry" in service_socket_2name_
          ServerAddrs,      \* addresses servers are configured with
          ChannelAddrs,     \* addresses channels pass to RegisterService
          ManyServices,     \* a server may register more than one service
          SharedAddr        \* two servers may use one address

ASSUME RouteConstants ==
  /\ AnyAddr \in Addrs /\ ServerAddrs \subseteq Addrs /\ ChannelAddrs \subseteq Addrs
  /\ NoSocket \notin Sockets /\ NoService \notin Services
  /\ ManyServices \in BOOLEAN /\ SharedAddr \in BOOLEAN

VARIABLES
  (* RpcRoute and its RouteServiceInfos *)
  sockets, addr_2socket, cur_send_index,   \* of each service
  service_socket_2name,
  channel_service_register,
  (* the network *)
  closing,        \* sockets being closed, OnDisconnect not yet called
  sent,           \* what the last step sent
  (* what peers know *)
  role,           \* "channel" or "server", "closed" for a socket not in use
  addr,           \* the service_addr of each server
  registered,     \* services each socket's connection was accepted for
  bound_at,       \* to which socket each binding was made, and whether the
                  \* connections on both sides are the ones it was made for
  served          \* servers of each service that had their turn in this round

registry == <<sockets, addr_2socket, cur_send_index, service_socket_2name>>
peers == <<role, addr, registered>>
vars == <<registry, channel_service_register, closing, sent, peers, bound_at, served>>

NoBinding == [to |-> NoSocket, own |-> TRUE, alive |-> TRUE]
Open(s) == role[s] # "closed"
Receiving(s) == Open(s) /\ s \notin closing

Init ==
  /\ sockets = [n \in Services |-> <<>>]
  /\ addr_2socket = [n \in Services |-> [a \in Addrs |-> NoSocket]]
  /\ cur_send_index = [n \in Services |-> 0]
  /\ service_socket_2name = [s \in Sockets |-> NoService]
  /\ channel_service_register = [s \in Sockets |-> [n \in Services |-> NoSocket]]
  /\ closing = {}
  /\ sent = {}
  /\ role = [s \in Sockets |-> "closed"]
  /\ addr = [s \in Sockets |-> AnyAddr]
  /\ registered = [s \in Sockets |-> {}]
  /\ bound_at = [s \in Sockets |-> [n \in Services |-> NoBinding]]
  /\ served = [n \in Services |-> {}]
-----------------------------------------------------------------------------
(* RouteServiceInfos::GetServiceSocket: the next server in turn for the     *)
(* empty address, else the server with that address.                        *)
NextIndex(n) == (cur_send_index[n] + 1) % Len(sockets[n])
FindServiceSocket(n, a) ==
  IF sockets[n] = <<>> THEN NoSocket
  ELSE IF a = AnyAddr THEN sockets[n][NextIndex(n) + 1]
                      ELSE addr_2socket[n][a]
Advance_Never(n, a) == UNCHANGED cur_send_index
Advance_Backwards(n, a) ==
  cur_send_index' = IF sockets[n] # <<>> /\ a = AnyAddr
                    THEN [cur_send_index EXCEPT ![n] = @ - 1]
                    ELSE cur_send_index
Advance(n, a) ==
  cur_send_index' = IF sockets[n] # <<>> /\ a = AnyAddr
                    THEN [cur_send_index EXCEPT ![n] = NextIndex(n)]
                    ELSE cur_send_index

Bound(c, n) == channel_service_register[c][n] # NoSocket
GetServerSocket_Unbound(c, n) == FindServiceSocket(n, AnyAddr)
GetServerSocket(c, n) == IF Bound(c, n) THEN channel_service_register[c][n]
                                        ELSE FindServiceSocket(n, AnyAddr)

(* DeleteService fails, and leaves all as it is, for a socket that is not   *)
(* in service_socket_2name_ or whose service has no server left.            *)
IsServiceSocket(s) == service_socket_2name[s] # NoService
CanDelete(s) == IsServiceSocket(s) /\ sockets[service_socket_2name[s]] # <<>>

(* Without the entry of s: were s under several addresses, the first of     *)
(* them, whichever that is.                                                 *)
OtherAddrs_KeepsAll(s, n) == {addr_2socket[n]}
OtherAddrs(s, n) ==
  LET own == {a \in Addrs : addr_2socket[n][a] = s}
  IN  IF own = {} THEN {addr_2socket[n]}
                  ELSE {[addr_2socket[n] EXCEPT ![a] = NoSocket] : a \in own}
DeleteService_KeepsSocket(s) ==
  /\ service_socket_2name' = [service_socket_2name EXCEPT ![s] = NoService]
  /\ UNCHANGED <<sockets, addr_2socket, cur_send_index, served>>
DeleteService(s) ==
  LET n == service_socket_2name[s]
      left == RemoveFirst(sockets[n], s)
  IN  IF CanDelete(s)
      THEN /\ sockets' = [sockets EXCEPT ![n] = left]
           /\ \E addrs \in OtherAddrs(s, n) :
                addr_2socket' = [addr_2socket EXCEPT ![n] = addrs]
           /\ cur_send_index' = [cur_send_index EXCEPT ![n] = IF left = <<>> THEN 0 ELSE @]
           /\ service_socket_2name' = [service_socket_2name EXCEPT ![s] = NoService]
           /\ served' = [served EXCEPT ![n] = {}]
      ELSE UNCHANGED <<registry, served>>

(* OnReceive returned false, or Disconnect was called: the network closes s. *)
Close(closed) == closing' = closing \cup closed
-----------------------------------------------------------------------------
(* A peer connects: a channel, or a server with the address it was given.   *)
OnConnect(s, r, a) ==
  /\ ~Open(s)
  /\ role' = [role EXCEPT ![s] = r]
  /\ addr' = [addr EXCEPT ![s] = a]
  /\ sent' = {}
  /\ UNCHANGED <<registry, channel_service_register, closing, registered,
                 bound_at, served>>

(* A peer that was no server takes its bindings with it.  What happens to   *)
(* the connections of a binding, the code does not see.                     *)
Unbind_Nothing(s) == UNCHANGED channel_service_register
Unbind(s) ==
  channel_service_register' = 
    IF IsServiceSocket(s) THEN channel_service_register
    ELSE [channel_service_register EXCEPT ![s] = [n \in Services |-> NoSocket]]
Bindings(s) ==
  [c \in Sockets |-> [n \in Services |->
     IF channel_service_register'[c][n] = NoSocket THEN NoBinding
     ELSE [to |-> bound_at[c][n].to,
           own |-> bound_at[c][n].own /\ c # s,
           alive |-> bound_at[c][n].alive /\ bound_at[c][n].to # s]]]

(* The peer left, or the route closed its socket. *)
OnDisconnect(s) ==
  /\ Open(s)
  /\ DeleteService(s)
  /\ Unbind(s)
  /\ bound_at' = Bindings(s)
  /\ closing' = closing \ {s}
  /\ role' = [role EXCEPT ![s] = "closed"]
  /\ addr' = [addr EXCEPT ![s] = AnyAddr]
  /\ registered' = [registered EXCEPT ![s] = {}]
  /\ sent' = {}
-----------------------------------------------------------------------------
(* Server::AddService on server s.  An address that is taken refuses it,    *)
(* after s has been entered in service_socket_2name_.                       *)
AddrIsFree(s) == \A t \in Sockets \ {s} : 
                    role[t] = "server" => addr[t] # addr[s]
AddService(s, n) ==
  /\ service_socket_2name' =
       [service_socket_2name EXCEPT ![s] = IF @ = NoService THEN n ELSE @]
  /\ IF addr_2socket[n][addr[s]] = NoSocket
     THEN /\ sockets' = [sockets EXCEPT ![n] = Append(@, s)]
          /\ addr_2socket' = [addr_2socket EXCEPT ![n][addr[s]] = s]
          /\ registered' = [registered EXCEPT ![s] = @ \cup {n}]
          /\ served' = [served EXCEPT ![n] = {}]
          /\ Close({})
     ELSE /\ UNCHANGED <<sockets, addr_2socket, registered, served>>
          /\ Close({s})
  /\ UNCHANGED cur_send_index
ServerServiceRegister(s, n) ==
  /\ Receiving(s) /\ role[s] = "server"
  /\ n \notin registered[s]
  /\ ManyServices \/ registered[s] = {}
  /\ SharedAddr \/ AddrIsFree(s)
  /\ AddService(s, n)
  /\ sent' = {}
  /\ UNCHANGED <<channel_service_register, role, addr, bound_at>>

ServerServiceCancel(s) ==
  /\ Receiving(s) /\ role[s] = "server"
  /\ DeleteService(s)
  /\ registered' = [registered EXCEPT ![s] = 
                      IF CanDelete(s) THEN @ \ {service_socket_2name[s]} ELSE @]
  /\ Close(IF CanDelete(s) THEN {} ELSE {s})
  /\ sent' = {}
  /\ UNCHANGED <<channel_service_register, role, addr, bound_at>>

(* The server asks the route to drop the channel on socket t. *)
ServerDisconnectChannelFunc(s, t) ==
  /\ Receiving(s) /\ role[s] = "server"
  /\ IF IsServiceSocket(s) THEN Close({o \in {t} : Open(o)}) ELSE Close({s})
  /\ sent' = {}
  /\ UNCHANGED <<registry, channel_service_register, peers, bound_at, served>>

(* Channel::RegisterService: bind channel c to a server of service n.  The  *)
(* first binding stays.                                                     *)
ChannelServiceRegister(c, n, a) ==
  /\ Receiving(c) /\ role[c] = "channel"
  /\ LET server == FindServiceSocket(n, a)
     IN  /\ Close(IF server = NoSocket THEN {c} ELSE {})
         /\ IF server = NoSocket \/ Bound(c, n)
            THEN UNCHANGED <<channel_service_register, bound_at>>
            ELSE /\ channel_service_register' =
                      [channel_service_register EXCEPT ![c][n] = server]
                 /\ bound_at' = [bound_at EXCEPT ![c][n] =
                                   [to |-> server, own |-> TRUE, alive |-> Open(server)]]
  /\ Advance(n, a)
  /\ sent' = {}
  /\ UNCHANGED <<sockets, addr_2socket, service_socket_2name, peers, served>>

(* RouteProcess of a request from channel c for service n. *)
ServersOf(n) == Range(sockets[n])
RouteProcess(c, n) ==
  /\ Receiving(c) /\ role[c] = "channel"
  /\ LET target == GetServerSocket(c, n)
         turn == served[n] \cup {target}
     IN  /\ sent' = {[from |-> c, service |-> n, to |-> target, bound |-> Bound(c, n)]}
         /\ served' = IF Bound(c, n) \/ target = NoSocket THEN served
                      ELSE [served EXCEPT ![n] = 
                              IF ServersOf(n) \subseteq turn THEN {} ELSE turn]
  /\ IF Bound(c, n) THEN UNCHANGED cur_send_index ELSE Advance(n, AnyAddr)
  /\ UNCHANGED <<sockets, addr_2socket, service_socket_2name,
                 channel_service_register, closing, peers, bound_at>>
-----------------------------------------------------------------------------
Next ==
  \/ \E s \in Sockets : \/ OnConnect(s, "channel", AnyAddr)
                        \/ \E a \in ServerAddrs : OnConnect(s, "server", a)
                        \/ OnDisconnect(s)
                        \/ ServerServiceCancel(s)
  \/ \E s \in Sockets, n \in Services : \/ ServerServiceRegister(s, n)
                                        \/ RouteProcess(s, n)
  \/ \E s, t \in Sockets : ServerDisconnectChannelFunc(s, t)
  \/ \E s \in Sockets, n \in Services, a \in ChannelAddrs : ChannelServiceRegister(s, n, a)

Spec == Init /\ [][Next]_vars
=============================================================================
