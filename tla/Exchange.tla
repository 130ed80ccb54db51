------------------------------ MODULE Exchange ------------------------------
(***************************************************************************)
(* Channels, routes and a server together: what the messages of module     *)
(* Messages say to each other on their way through the packets of module   *)
(* Packets.  Channels connect to a route, a server to all of them; a       *)
(* request goes from channel to route to server, its answer comes back,    *)
(* and the server may send unasked or have a channel disconnected.         *)
(*                                                                         *)
(* The network keeps the packets of a connection in order, and drops those *)
(* of a connection that ends.  The sockets of a route are reused.  Threads *)
(* are in modules Channel and Server: here a packet is handled in one      *)
(* step, and the server handles its packets in the order they came.  One   *)
(* server has one service, with the methods Echo and RegisterEcho; its     *)
(* connections may break.  The registry and its bindings are in module     *)
(* Route; packets that a route handles again are in module Framing, and    *)
(* bodies of no bytes, which the receivers do not expect, are assumed away. *)
(***************************************************************************)
EXTENDS LinkId, Packets, Sequences, FiniteSets

CONSTANTS Channels,
          Sockets,                     \* a route's sockets of channels
          EchoService,                 \* the name of the service
          Refused,                     \* channels it gives an error to
          Free,                        \* bounds: <<route, socket>> for channels,
          Breaking, Impatient,         \* routes that the server may lose, channels
                                       \* that may leave and whose requests time out
          MaxRequests, MaxUnasked      \* requests of a channel; what the server
                                       \* does unasked: copies of notes, disconnects

Routes == 0..(RouteNum - 1)
SocketsFit == Sockets \subseteq 1..(LinkBase - 1)
ASSUME ExchangeConstants ==
  /\ SocketsFit
  /\ Free \subseteq Routes \X Sockets /\ Refused \subseteq Channels
  /\ Breaking \subseteq Routes /\ Impatient \subseteq Channels
  /\ NoPart # NoBytes /\ EchoService # NoBytes
  /\ {MaxRequests, MaxUnasked} \subseteq Nat

VARIABLES
  (* channels *)
  status, at,             \* "new", "open", "left"; route and socket
  request_id,             \* requests made
  waiting,                \* ids in request_callback_
  answers, notes,         \* what was called back, and what of it unasked
  (* the network *)
  up, down,               \* packets of a channel to and from its route
  to_server, from_server, \* packets of a route to and from the server
  (* routes and server *)
  service_2info,          \* names registered at a route
  connected,              \* routes to which the server is connected
  packet_queue,           \* RpcPackets of the server
  known,                  \* link ids the server has seen
  sent,                   \* copies of notes sent
  unwanted                \* link ids the server had disconnected

channel == <<request_id, waiting, answers, notes>>
links == <<status, at>>
routes == <<to_server, from_server>>
services == <<service_2info, connected>>
server == <<packet_queue, known, sent, unwanted>>
vars == <<channel, links, up, down, routes, services, server>>

(* AddService, when the server has connected: RegisterService at each route *)
RegisterService ==
  BuildCmdPacket(eRouteCmd_Server_ServiceRegister,
                 WriteRouteServiceInfo([name |-> EchoService, addr |-> NoBytes]))

Init == /\ status = [c \in Channels |-> "new"]
        /\ at = [c \in Channels |-> [route |-> 0, socket |-> 0]]
        /\ request_id = [c \in Channels |-> 0]
        /\ waiting = [c \in Channels |-> {}]
        /\ answers = [c \in Channels |-> {}]
        /\ notes = [c \in Channels |-> <<>>]
        /\ up = [c \in Channels |-> <<>>]
        /\ down = [c \in Channels |-> <<>>]
        /\ to_server = [r \in Routes |-> <<>>]
        /\ from_server = [r \in Routes |-> <<RegisterService>>]
        /\ service_2info = [r \in Routes |-> {}] /\ connected = Routes
        /\ packet_queue = <<>> /\ known = {}
        /\ sent = 0 /\ unwanted = <<>>

Open(r, s) == {c \in Channels : status[c] = "open" /\ at[c] = [route |-> r, socket |-> s]}
LinkOf(c) == BuildLinkID(at[c].route, at[c].socket)
-----------------------------------------------------------------------------
Connect(c, r, s) ==
  /\ status[c] = "new" /\ <<r, s>> \in Free /\ Open(r, s) = {}
  /\ status' = [status EXCEPT ![c] = "open"]
  /\ at' = [at EXCEPT ![c] = [route |-> r, socket |-> s]]
  /\ UNCHANGED <<channel, up, down, routes, services, server>>

(* The connections in S end, and what was on its way on them is lost. *)
Close(S) ==
  /\ status' = [c \in Channels |-> IF c \in S THEN "left" ELSE status[c]]
  /\ up' = [c \in Channels |-> IF c \in S THEN <<>> ELSE up[c]]
  /\ down' = [c \in Channels |-> IF c \in S THEN <<>> ELSE down[c]]
  /\ UNCHANGED at

(* The channel stops, or its connection breaks. *)
Leave(c) ==
  /\ c \in Impatient /\ status[c] = "open"
  /\ Close({c})
  /\ UNCHANGED <<channel, routes, services, server>>

(* Channel::CallMethod of Echo, and RpcChannel_Route::Send.  The message    *)
(* says who asks, so that its answer can be told from others.               *)
CallMeta(method_index, id) ==
  [service_name |-> EchoService, method_index |-> method_index,
   rpc_request_meta |-> WriteRpcRequestMeta([request_id |-> id]),
   rpc_response_meta |-> NoBytes, compress_type |-> eCompressType_Not]
RequestMeta(id) == CallMeta(Echo, id)
ChannelNetInfo ==
  [net_type |-> eNetType_Route,
   net_binary |-> WriteRouteNetInfo([is_channel_packet |-> TRUE, service_name |-> EchoService,
                                     target_sockets |-> EmptyBag, source_socket |-> 0])]
Asks(c, id) == [from |-> c, id |-> id]
CallMethod(c) ==
  /\ status[c] = "open" /\ request_id[c] < MaxRequests
  /\ LET id == request_id[c] + 1
     IN  /\ request_id' = [request_id EXCEPT ![c] = id]
         /\ waiting' = [waiting EXCEPT ![c] = @ \cup {id}]
         /\ up' = [up EXCEPT ![c] = Append(@, BuildRpcPacket(ChannelNetInfo, RequestMeta(id),
                                                WriteRequest([msg |-> Asks(c, id)])))]
  /\ UNCHANGED <<links, answers, notes, down, routes, services, server>>

(* ClearTimeoutRequest, when the deadline of a request has passed. *)
Timeout(c, id) ==
  /\ c \in Impatient /\ id \in waiting[c]
  /\ waiting' = [waiting EXCEPT ![c] = @ \ {id}]
  /\ UNCHANGED <<links, request_id, answers, notes, up, down, routes, services, server>>
-----------------------------------------------------------------------------
(* A route: OnReceive of a channel's packet, and RouteProcess of it.  What  *)
(* the route adds to target_sockets is not written to the packet.           *)
WithSource_Nothing(packet, socket) == packet
WithSource(packet, socket) ==
  LET net_info == GetNetInfo(packet)
      route_net_info == [ReadRouteNetInfo(net_info.net_binary) EXCEPT !.source_socket = socket]
  IN  BuildSendPacket(packet,
        [net_info EXCEPT !.net_binary = WriteRouteNetInfo(route_net_info)])
ServiceOf(packet) == ReadRouteNetInfo(GetNetInfo(packet).net_binary).service_name
RouteRequest(c) ==
  /\ status[c] = "open" /\ up[c] # <<>>
  /\ up' = [up EXCEPT ![c] = Tail(@)]
  /\ LET r == at[c].route
         packet == Head(up[c])
     IN  IF ServiceOf(packet) \in service_2info[r]
         THEN to_server' = [to_server EXCEPT ![r] =
                              Append(@, WithSource(packet, at[c].socket))]
         ELSE UNCHANGED to_server
  /\ UNCHANGED <<channel, links, down, from_server, services, server>>

(* OnReceive of a server's packet.  RouteProcess sends it as it is, once    *)
(* for each element of target_sockets, so twice to a socket that is in it   *)
(* twice; sending to a socket that is not open fails.                       *)
FromServer_Again(r, net_type) ==
  /\ from_server[r] # <<>>
  /\ GetNetInfo(Head(from_server[r])).net_type = net_type
  /\ from_server' \in {[from_server EXCEPT ![r] = Tail(@)], from_server}
FromServer(r, net_type) ==
  /\ from_server[r] # <<>>
  /\ GetNetInfo(Head(from_server[r])).net_type = net_type
  /\ from_server' = [from_server EXCEPT ![r] = Tail(@)]
TargetSockets_First(packet) ==
  LET target_sockets == ReadRouteNetInfo(GetNetInfo(packet).net_binary).target_sockets
  IN  [s \in {CHOOSE s \in BagToSet(target_sockets) : TRUE} |-> target_sockets[s]]
TargetSockets(packet) == ReadRouteNetInfo(GetNetInfo(packet).net_binary).target_sockets
Times(r, c, packet) == IF c \in Open(r, at[c].socket)
                       THEN Copies(at[c].socket, TargetSockets(packet)) ELSE 0
Repeated(packet, times) == [i \in 1..times |-> packet]
RouteResponse(r) ==
  /\ FromServer(r, eNetType_Route)
  /\ LET packet == Head(from_server[r])
     IN  down' = [c \in Channels |-> down[c] \o Repeated(packet, Times(r, c, packet))]
  /\ UNCHANGED <<channel, links, up, to_server, services, server>>

FromServerCmd(r, cmd) ==
  FromServer(r, eNetType_RouteCmd) /\ Command(Head(from_server[r])).cmd = cmd
ServerServiceRegister(r) ==
  /\ FromServerCmd(r, eRouteCmd_Server_ServiceRegister)
  /\ LET info == ReadRouteServiceInfo(Command(Head(from_server[r])).request_binary)
     IN  service_2info' = [service_2info EXCEPT ![r] = @ \cup {info.name}]
  /\ UNCHANGED <<channel, links, up, down, to_server, connected, server>>
ServerDisconnectChannelFunc(r) ==
  /\ FromServerCmd(r, eRouteCmd_Server_DisconnectChannel)
  /\ LET info == ReadServerDisconnectChannel(Command(Head(from_server[r])).request_binary)
     IN  Close(UNION {Open(r, s) : s \in BagToSet(info.channel_socket)})
  /\ UNCHANGED <<channel, to_server, services, server>>
-----------------------------------------------------------------------------
(* The connection of the server to a route breaks.  The route deletes the   *)
(* services of that server; the server does nothing, and does not connect   *)
(* again.  It keeps the requests that it has received from there.           *)
OnDisconnect(r) ==
  /\ r \in connected \cap Breaking
  /\ connected' = connected \ {r}
  /\ to_server' = [to_server EXCEPT ![r] = <<>>]
  /\ from_server' = [from_server EXCEPT ![r] = <<>>]
  /\ service_2info' = [service_2info EXCEPT ![r] = {}]
  /\ UNCHANGED <<channel, links, up, down, server>>
-----------------------------------------------------------------------------
(* The server: RpcServer_Route_Client::OnReceive and ReceiveRoutePacket. *)
SourceSocket(packet) == ReadRouteNetInfo(GetNetInfo(packet).net_binary).source_socket
LinkIdOf_NoRoute(r, packet) == BuildLinkID(0, SourceSocket(packet))
LinkIdOf(r, packet) == BuildLinkID(r, SourceSocket(packet))
ReceiveRoutePacket(r) ==
  /\ to_server[r] # <<>>
  /\ to_server' = [to_server EXCEPT ![r] = Tail(@)]
  /\ LET packet == Head(to_server[r])
     IN  packet_queue' = Append(packet_queue,
           [link_id |-> LinkIdOf(r, packet),
            rpc_meta |-> CopyRpcMeta(GetMeta(packet)), binary |-> GetBinary(packet)])
  /\ UNCHANGED <<channel, links, up, down, from_server, services, known, sent, unwanted>>

(* RpcServer_Route_Client::Send, to those of the links that are its own: a  *)
(* link that is given twice is added twice.                                 *)
Own(r, link_ids) == {link_id \in BagToSet(link_ids) : GetRouteID(link_id) = r}
OwnSockets(r, link_ids) ==
  [s \in {GetSocket(k) : k \in Own(r, link_ids)} |-> link_ids[BuildLinkID(r, s)]]
ServerNetInfo(r, link_ids) ==
  [net_type |-> eNetType_Route,
   net_binary |-> WriteRouteNetInfo([is_channel_packet |-> FALSE, service_name |-> NoBytes,
                                     target_sockets |-> OwnSockets(r, link_ids),
                                     source_socket |-> 0])]

(* RpcServer_Route::Send: one packet for each route of the links.  Sending  *)
(* over a connection that is broken fails, which does not keep the others   *)
(* from being sent.                                                         *)
SendFromServer_OneRoute(link_ids, meta, body) ==
  LET r == GetRouteID(CHOOSE link_id \in BagToSet(link_ids) : TRUE)
  IN  from_server' = IF r \notin connected THEN from_server
                     ELSE [from_server EXCEPT ![r] =
                             Append(@, BuildRpcPacket(ServerNetInfo(r, link_ids), meta, body))]
SendFromServer_EachLink(link_ids, meta, body) ==
  from_server' = [r \in Routes |->
    LET packet == BuildRpcPacket(ServerNetInfo(r, link_ids), meta, body)
        times == IF r \in connected THEN Cardinality(Own(r, link_ids)) ELSE 0
    IN  from_server[r] \o Repeated(packet, times)]
SendFromServer(link_ids, meta, body) ==
  from_server' = [r \in Routes |->
    IF r \in connected /\ Own(r, link_ids) # {}
    THEN Append(from_server[r], BuildRpcPacket(ServerNetInfo(r, link_ids), meta, body))
    ELSE from_server[r]]

(* ParseBinary, the method and SendResponse.  This Echo gives back what it  *)
(* was asked; for Refused it says it in the error too.                      *)
ResponseMeta_Fresh(rpc_meta, error) ==
  [RpcMeta EXCEPT !.rpc_response_meta =
     WriteRpcResponseMeta([error |-> error, failed |-> error # NoBytes])]
ResponseMeta(rpc_meta, error) ==
  [CopyRpcMeta(rpc_meta) EXCEPT
     !.rpc_response_meta = WriteRpcResponseMeta([error |-> error, failed |-> error # NoBytes])]
Serve ==
  /\ packet_queue # <<>>
  /\ packet_queue' = Tail(packet_queue)
  /\ LET packet == Head(packet_queue)
         msg == ReadRequest(packet.binary).msg
     IN  /\ known' = known \cup {packet.link_id}
         /\ SendFromServer(SetToBag({packet.link_id}),
                           ResponseMeta(packet.rpc_meta, IF msg.from \in Refused THEN msg ELSE NoBytes),
                           WriteResponse([msg |-> msg]))
  /\ UNCHANGED <<channel, links, up, down, to_server, services, sent, unwanted>>

(* Server::SendRpcMessage to channels it has seen, a vector of link ids in  *)
(* which nothing keeps a link from being twice.  The note says whom it is   *)
(* for; its number counts the link ids up to it.                            *)
Vectors == UNION {[link_ids -> 1..MaxUnasked] : link_ids \in SUBSET known}
RPC_REQUEST_ID_NULL == 0
NoteMeta == CallMeta(RegisterEcho, RPC_REQUEST_ID_NULL)
Note(n, link_ids) == [number |-> n, links |-> link_ids]
SendRpcMessage(link_ids) ==
  /\ link_ids \in Vectors /\ BagCardinality(link_ids) \in 1..(MaxUnasked - sent - Len(unwanted))
  /\ sent' = sent + BagCardinality(link_ids)
  /\ SendFromServer(link_ids, NoteMeta, WriteResponse([msg |-> Note(sent', link_ids)]))
  /\ UNCHANGED <<channel, links, up, down, to_server, services, packet_queue, known,
                 unwanted>>

(* Server::Disconnect, at the route that getRouteClinet finds. *)
getRouteClinet_First(link_id) == 0
getRouteClinet(link_id) == GetRouteID(link_id)
DisconnectPacket(link_id) ==
  BuildCmdPacket(eRouteCmd_Server_DisconnectChannel,
                 WriteServerDisconnectChannel([channel_socket |-> SetToBag({GetSocket(link_id)})]))
Disconnect(link_id) ==
  /\ sent + Len(unwanted) < MaxUnasked
  /\ link_id \in known
  /\ from_server' = IF getRouteClinet(link_id) \notin connected THEN from_server
                    ELSE [from_server EXCEPT ![getRouteClinet(link_id)] =
                            Append(@, DisconnectPacket(link_id))]
  /\ unwanted' = Append(unwanted, link_id)
  /\ UNCHANGED <<channel, links, up, down, to_server, services, packet_queue, known, sent>>
-----------------------------------------------------------------------------
(* The channel: a parse thread, IsRequestMode, and DoRequestPacket or       *)
(* DoRegisterPacket with a callback for RegisterEcho.  The response of an   *)
(* answer with an error is not parsed.                                      *)
RequestId(packet) == ReadRpcRequestMeta(GetMeta(packet).rpc_request_meta).request_id
ErrorOf(packet) == ReadRpcResponseMeta(GetMeta(packet).rpc_response_meta).error
MsgOf(packet) == ReadResponse(GetBinary(packet)).msg
Receive(c) == /\ down[c] # <<>>
              /\ down' = [down EXCEPT ![c] = Tail(@)]

DoRequestPacket(c) ==
  /\ Receive(c)
  /\ LET packet == Head(down[c])
         id == RequestId(packet)
         error == ErrorOf(packet)
         msg == IF error # NoBytes THEN response.msg ELSE MsgOf(packet)
     IN  /\ id # RPC_REQUEST_ID_NULL
         /\ answers' = IF id \in waiting[c]
                       THEN [answers EXCEPT ![c] = @ \cup {[id |-> id, error |-> error, msg |-> msg]}]
                       ELSE answers
         /\ waiting' = [waiting EXCEPT ![c] = @ \ {id}]
  /\ UNCHANGED <<links, request_id, notes, up, routes, services, server>>

DoRegisterPacket(c) ==
  /\ Receive(c)
  /\ RequestId(Head(down[c])) = RPC_REQUEST_ID_NULL
  /\ notes' = [notes EXCEPT ![c] = Append(@, MsgOf(Head(down[c])))]
  /\ UNCHANGED <<links, request_id, waiting, answers, up, routes, services, server>>
-----------------------------------------------------------------------------
RouteOnReceive(r) == \/ RouteResponse(r)
                     \/ ServerServiceRegister(r)
                     \/ ServerDisconnectChannelFunc(r)
ParsePacket(c) == DoRequestPacket(c) \/ DoRegisterPacket(c)

Handle == \/ \E c \in Channels : RouteRequest(c) \/ ParsePacket(c)
          \/ \E r \in Routes : RouteOnReceive(r) \/ ReceiveRoutePacket(r)
          \/ Serve

Next ==
  \/ \E c \in Channels :
       \/ \E r \in Routes, s \in Sockets : Connect(c, r, s)
       \/ CallMethod(c) \/ Leave(c)
       \/ \E id \in 1..MaxRequests : Timeout(c, id)
  \/ Handle
  \/ \E r \in Routes : OnDisconnect(r)
  \/ \E link_ids \in Vectors : SendRpcMessage(link_ids)
  \/ \E link_id \in known : Disconnect(link_id)

Spec == Init /\ [][Next]_vars

(* The network brings packets as long as the connection is there, and the   *)
(* threads of route, server and channel handle them.  As the packets are    *)
(* bounded, it is enough that one of those that can be handled is.          *)
FairSpec == Spec /\ WF_vars(Handle)
=============================================================================
