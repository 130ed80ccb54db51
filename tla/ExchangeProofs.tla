--------------------------- MODULE ExchangeProofs ---------------------------
(***************************************************************************)
(* Proofs about channels, routes and a server together, for any number of  *)
(* each and any reuse of sockets: an answer is one to the request that its *)
(* channel, or one that had its socket before, made with that id; notes    *)
(* come to the links they are for, in order and not too often; only        *)
(* connections that the server named are closed by what it sent; and no    *)
(* request is doubled or lost.                                             *)
(***************************************************************************)
EXTENDS ExchangeProperties, LinkIdProofs

(* Writing leaves out what is default, and reading puts it back.             *)
LEMMA RoundTrip ==
  ASSUME NEW type, NEW message, message = [field \in DOMAIN type |-> message[field]]
  PROVE  /\ Read(Written(message, type), type) = message
         /\ CopyFrom(message, type) = message
<1>1. \A f \in DOMAIN type :
        f \in DOMAIN Written(message, type) <=> message[f] # type[f]
  BY DEF Written
<1>2. \A f \in DOMAIN type : message[f] # type[f] => Written(message, type)[f] = message[f]
  BY DEF Written
<1>3. Read(Written(message, type), type) = [field \in DOMAIN type |-> message[field]]
  BY <1>1, <1>2 DEF Read
<1>4. CopyFrom(message, type) = [field \in DOMAIN type |-> message[field]]
  BY DEF CopyFrom, MergeFrom
<1> QED BY <1>3, <1>4

LEMMA NetInfoRoundTrip ==
  ASSUME NEW a, NEW b
  PROVE  LET m == [net_type |-> a, net_binary |-> b] IN ReadNetInfo(WriteNetInfo(m)) = m
<1> DEFINE m == [net_type |-> a, net_binary |-> b]
<1>1. m = [field \in DOMAIN NetInfo |-> m[field]]
  BY DEF NetInfo
<1> QED BY <1>1, RoundTrip DEF ReadNetInfo, WriteNetInfo

LEMMA RouteNetInfoRoundTrip ==
  ASSUME NEW a, NEW b, NEW c, NEW d
  PROVE  LET m == [is_channel_packet |-> a, service_name |-> b, target_sockets |-> c,
                   source_socket |-> d]
         IN  ReadRouteNetInfo(WriteRouteNetInfo(m)) = m
<1> DEFINE m == [is_channel_packet |-> a, service_name |-> b, target_sockets |-> c,
                 source_socket |-> d]
<1>1. m = [field \in DOMAIN RouteNetInfo |-> m[field]]
  BY DEF RouteNetInfo
<1> QED BY <1>1, RoundTrip DEF ReadRouteNetInfo, WriteRouteNetInfo

LEMMA RpcMetaRoundTrip ==
  ASSUME NEW a, NEW b, NEW c, NEW d, NEW e
  PROVE  LET m == [service_name |-> a, method_index |-> b, rpc_request_meta |-> c,
                   rpc_response_meta |-> d, compress_type |-> e]
         IN  ReadRpcMeta(WriteRpcMeta(m)) = m /\ CopyRpcMeta(m) = m
<1> DEFINE m == [service_name |-> a, method_index |-> b, rpc_request_meta |-> c,
                 rpc_response_meta |-> d, compress_type |-> e]
<1>1. m = [field \in DOMAIN RpcMeta |-> m[field]]
  BY DEF RpcMeta
<1> QED BY <1>1, RoundTrip DEF ReadRpcMeta, WriteRpcMeta, CopyRpcMeta

LEMMA RpcRequestMetaRoundTrip ==
  ASSUME NEW a
  PROVE  ReadRpcRequestMeta(WriteRpcRequestMeta([request_id |-> a])) = [request_id |-> a]
<1>1. [request_id |-> a] = [field \in DOMAIN RpcRequestMeta |-> [request_id |-> a][field]]
  BY DEF RpcRequestMeta
<1> QED BY <1>1, RoundTrip DEF ReadRpcRequestMeta, WriteRpcRequestMeta

LEMMA RpcResponseMetaRoundTrip ==
  ASSUME NEW a, NEW b
  PROVE  ReadRpcResponseMeta(WriteRpcResponseMeta([error |-> a, failed |-> b])) = [error |-> a, failed |-> b]
<1>1. [error |-> a, failed |-> b] = [field \in DOMAIN RpcResponseMeta |-> [error |-> a, failed |-> b][field]]
  BY DEF RpcResponseMeta
<1> QED BY <1>1, RoundTrip DEF ReadRpcResponseMeta, WriteRpcResponseMeta

LEMMA RequestRoundTrip ==
  ASSUME NEW a
  PROVE  ReadRequest(WriteRequest([msg |-> a])) = [msg |-> a]
<1>1. [msg |-> a] = [field \in DOMAIN request |-> [msg |-> a][field]]
  BY DEF request
<1> QED BY <1>1, RoundTrip DEF ReadRequest, WriteRequest

LEMMA ResponseRoundTrip ==
  ASSUME NEW a
  PROVE  ReadResponse(WriteResponse([msg |-> a])) = [msg |-> a]
<1>1. [msg |-> a] = [field \in DOMAIN response |-> [msg |-> a][field]]
  BY DEF response
<1> QED BY <1>1, RoundTrip DEF ReadResponse, WriteResponse

LEMMA RouteCmdRoundTrip ==
  ASSUME NEW a, NEW b
  PROVE  ReadRouteCmdRequest(WriteRouteCmdRequest([cmd |-> a, request_binary |-> b])) = [cmd |-> a, request_binary |-> b]
<1>1. [cmd |-> a, request_binary |-> b] = [field \in DOMAIN RouteCmdRequest |-> [cmd |-> a, request_binary |-> b][field]]
  BY DEF RouteCmdRequest
<1> QED BY <1>1, RoundTrip DEF ReadRouteCmdRequest, WriteRouteCmdRequest

-----------------------------------------------------------------------------
LEMMA SetSourceSocket ==
  ASSUME NEW a, NEW b, NEW c, NEW d, NEW s, NEW m,
         m = [is_channel_packet |-> a, service_name |-> b, target_sockets |-> c,
              source_socket |-> d]
  PROVE  [m EXCEPT !.source_socket = s] =
         [is_channel_packet |-> a, service_name |-> b, target_sockets |-> c,
          source_socket |-> s]
  OBVIOUS

(* Bags are functions. *)
LEMMA BagsAre ==
  ASSUME NEW B, NEW e, NEW S
  PROVE  /\ BagToSet(B) = DOMAIN B /\ (BagIn(e, B) <=> e \in DOMAIN B)
         /\ Copies(e, B) = IF e \in DOMAIN B THEN B[e] ELSE 0
         /\ SetToBag(S) = [x \in S |-> 1] /\ BagToSet(SetToBag(S)) = S
  BY DEF BagToSet, BagIn, Copies, SetToBag

(* The packets that there can be: of a request q as its channel and as the  *)
(* route sent it, of its answer, and of a note.                             *)
Body(q) == WriteRequest([msg |-> q])
Request(q) == BuildRpcPacket(ChannelNetInfo, RequestMeta(q.id), Body(q))
Forwarded(q) == WithSource(Request(q), at[q.from].socket)
Entry(q) == [link_id |-> LinkOf(q.from), rpc_meta |-> RequestMeta(q.id), binary |-> Body(q)]
ErrorFor(q) == IF q.from \in Refused THEN q ELSE NoBytes
Answer(q) == BuildRpcPacket(ServerNetInfo(at[q.from].route, SetToBag({LinkOf(q.from)})),
                            ResponseMeta(RequestMeta(q.id), ErrorFor(q)),
                            WriteResponse([msg |-> q]))
NotePacket(r, n, link_ids) == BuildRpcPacket(ServerNetInfo(r, link_ids), NoteMeta,
                                             WriteResponse([msg |-> Note(n, link_ids)]))

LEMMA ReadRequestPacket ==
  ASSUME NEW q
  PROVE  /\ ServiceOf(Request(q)) = EchoService
         /\ SourceSocket(Forwarded(q)) = at[q.from].socket
         /\ CopyRpcMeta(GetMeta(Forwarded(q))) = RequestMeta(q.id)
         /\ GetBinary(Forwarded(q)) = Body(q)
         /\ ReadRequest(Body(q)).msg = q
<1>0. PICK yes : yes = TRUE
  OBVIOUS
<1> DEFINE s == at[q.from].socket
           asked == [is_channel_packet |-> yes, service_name |-> EchoService,
                     target_sockets |-> EmptyBag, source_socket |-> 0]
           told == [is_channel_packet |-> yes, service_name |-> EchoService,
                    target_sockets |-> EmptyBag, source_socket |-> s]
           net == [net_type |-> eNetType_Route, net_binary |-> WriteRouteNetInfo(told)]
<1>1. ChannelNetInfo = [net_type |-> eNetType_Route, net_binary |-> WriteRouteNetInfo(asked)]
  BY <1>0 DEF ChannelNetInfo
<1>2. GetNetInfo(Request(q)) = ChannelNetInfo
  BY <1>1, NetInfoRoundTrip DEF Request, BuildRpcPacket, GetNetInfo
<1>3. ReadRouteNetInfo(GetNetInfo(Request(q)).net_binary) = asked
  BY <1>1, <1>2, RouteNetInfoRoundTrip
<1>4. Forwarded(q) = [net |-> WriteNetInfo(net), meta |-> WriteRpcMeta(RequestMeta(q.id)),
                      body |-> Body(q)]
  <2>1. [ReadRouteNetInfo(GetNetInfo(Request(q)).net_binary) EXCEPT !.source_socket = s] = told
    BY <1>3, SetSourceSocket
  <2>2. [GetNetInfo(Request(q)) EXCEPT !.net_binary = WriteRouteNetInfo(told)] = net
    BY <1>1, <1>2
  <2>3. WithSource(Request(q), s) = BuildSendPacket(Request(q), net)
    BY <2>1, <2>2 DEF WithSource
  <2>4. Request(q) = [net |-> WriteNetInfo(ChannelNetInfo),
                      meta |-> WriteRpcMeta(RequestMeta(q.id)), body |-> Body(q)]
    BY DEF Request, BuildRpcPacket
  <2> HIDE DEF net
  <2>5. BuildSendPacket(Request(q), net) =
          [net |-> WriteNetInfo(net), meta |-> WriteRpcMeta(RequestMeta(q.id)), body |-> Body(q)]
    BY <2>4 DEF BuildSendPacket
  <2> QED BY <2>3, <2>5 DEF Forwarded
<1>5. GetNetInfo(Forwarded(q)) = net
  BY <1>4, NetInfoRoundTrip DEF GetNetInfo
<1>6. SourceSocket(Forwarded(q)) = s
  BY <1>5, RouteNetInfoRoundTrip DEF SourceSocket
<1>7. RequestMeta(q.id) =
        [service_name |-> EchoService, method_index |-> Echo,
         rpc_request_meta |-> WriteRpcRequestMeta([request_id |-> q.id]),
         rpc_response_meta |-> NoBytes, compress_type |-> eCompressType_Not]
  BY DEF RequestMeta, CallMeta
<1>8. CopyRpcMeta(GetMeta(Forwarded(q))) = RequestMeta(q.id)
  BY <1>4, <1>7, RpcMetaRoundTrip DEF GetMeta
<1> QED BY <1>3, <1>4, <1>6, <1>8, RequestRoundTrip DEF ServiceOf, GetBinary, Body

LEMMA ReadServerNetInfo ==
  ASSUME NEW packet, NEW r, NEW link_ids, packet.net = WriteNetInfo(ServerNetInfo(r, link_ids))
  PROVE  /\ GetNetInfo(packet).net_type = eNetType_Route
         /\ TargetSockets(packet) = OwnSockets(r, link_ids)
<1> DEFINE told == [is_channel_packet |-> FALSE, service_name |-> NoBytes,
                    target_sockets |-> OwnSockets(r, link_ids), source_socket |-> 0]
<1>1. ServerNetInfo(r, link_ids) =
        [net_type |-> eNetType_Route, net_binary |-> WriteRouteNetInfo(told)]
  BY DEF ServerNetInfo
<1>2. GetNetInfo(packet) =
        [net_type |-> eNetType_Route, net_binary |-> WriteRouteNetInfo(told)]
  BY <1>1, NetInfoRoundTrip DEF GetNetInfo
<1> QED BY <1>2, RouteNetInfoRoundTrip DEF TargetSockets

LEMMA ReadAnswer ==
  ASSUME NEW q
  PROVE  /\ RequestId(Answer(q)) = q.id
         /\ ErrorOf(Answer(q)) = ErrorFor(q)
         /\ MsgOf(Answer(q)) = q
<1> DEFINE error == [error |-> ErrorFor(q), failed |-> ErrorFor(q) # NoBytes]
           asked == [service_name |-> EchoService, method_index |-> Echo,
                     rpc_request_meta |-> WriteRpcRequestMeta([request_id |-> q.id]),
                     rpc_response_meta |-> NoBytes, compress_type |-> eCompressType_Not]
           meta == [service_name |-> EchoService, method_index |-> Echo,
                    rpc_request_meta |-> WriteRpcRequestMeta([request_id |-> q.id]),
                    rpc_response_meta |-> WriteRpcResponseMeta(error),
                    compress_type |-> eCompressType_Not]
<1>1. RequestMeta(q.id) = asked
  BY DEF RequestMeta, CallMeta
<1>2. CopyRpcMeta(RequestMeta(q.id)) = asked
  BY <1>1, RpcMetaRoundTrip
<1>3. ResponseMeta(RequestMeta(q.id), ErrorFor(q)) = meta
  BY <1>2 DEF ResponseMeta
<1>4. Answer(q).meta = WriteRpcMeta(meta) /\ Answer(q).body = WriteResponse([msg |-> q])
  BY <1>3 DEF Answer, BuildRpcPacket
<1>5. GetMeta(Answer(q)) = meta
  BY <1>4, RpcMetaRoundTrip DEF GetMeta
<1> QED BY <1>4, <1>5, RpcRequestMetaRoundTrip, RpcResponseMetaRoundTrip, ResponseRoundTrip
       DEF RequestId, ErrorOf, MsgOf, GetBinary

LEMMA ReadNote ==
  ASSUME NEW r, NEW n, NEW link_ids
  PROVE  /\ RequestId(NotePacket(r, n, link_ids)) = RPC_REQUEST_ID_NULL
         /\ MsgOf(NotePacket(r, n, link_ids)) = Note(n, link_ids)
<1> DEFINE packet == NotePacket(r, n, link_ids)
           meta == [service_name |-> EchoService, method_index |-> RegisterEcho,
                    rpc_request_meta |->
                      WriteRpcRequestMeta([request_id |-> RPC_REQUEST_ID_NULL]),
                    rpc_response_meta |-> NoBytes, compress_type |-> eCompressType_Not]
<1>1. NoteMeta = meta
  BY DEF NoteMeta, CallMeta
<1>2. /\ packet.meta = WriteRpcMeta(meta)
      /\ packet.body = WriteResponse([msg |-> Note(n, link_ids)])
  BY <1>1 DEF NotePacket, BuildRpcPacket
<1>3. GetMeta(packet) = meta
  BY <1>2, RpcMetaRoundTrip DEF GetMeta
<1> QED BY <1>2, <1>3, RpcRequestMetaRoundTrip, ResponseRoundTrip
       DEF RequestId, MsgOf, GetBinary

(* A command is not taken for a packet of a call. *)
LEMMA ReadCommand ==
  ASSUME NEW cmd, NEW info
  PROVE  /\ GetNetInfo(BuildCmdPacket(cmd, info)).net_type = eNetType_RouteCmd
         /\ Command(BuildCmdPacket(cmd, info)) = [cmd |-> cmd, request_binary |-> info]
<1> DEFINE m == [cmd |-> cmd, request_binary |-> info]
           net == [net_type |-> eNetType_RouteCmd, net_binary |-> WriteRouteCmdRequest(m)]
<1>1. BuildCmdPacket(cmd, info).net = WriteNetInfo(net)
  BY DEF BuildCmdPacket, BuildNetPacket
<1>2. GetNetInfo(BuildCmdPacket(cmd, info)) = net
  BY <1>1, NetInfoRoundTrip DEF GetNetInfo
<1> QED BY <1>2, RouteCmdRoundTrip DEF Command
-----------------------------------------------------------------------------
(* Every packet in flight says of a request, or of a note, what is so.      *)
Asked == {q \in [from : Channels, id : Nat \ {0}] :
            status[q.from] # "new" /\ q.id <= request_id[q.from]}
AskedBy(c) == {q \in Asked : q.from = c}
AskedVia(r) == {q \in Asked : at[q.from].route = r}
AskedOver(c) == {q \in Asked : at[q.from] = at[c]}
Linked == {LinkOf(c) : c \in {d \in Channels : status[d] # "new"}}
Answered(qs) == {Answer(q) : q \in qs}
NotesVia(r) == {NotePacket(r, n, link_ids) : n \in Nat, link_ids \in Vectors}
NotesFor(c) == {NotePacket(at[c].route, n, link_ids) :
                  n \in Nat, link_ids \in {ids \in Vectors : LinkOf(c) \in DOMAIN ids}}
Disconnects(r) ==
  {DisconnectPacket(l) : l \in {k \in Range(unwanted) : GetRouteID(k) = r}}

UpPackets(c) == {Request(q) : q \in AskedBy(c)}
ToPackets(r) == {Forwarded(q) : q \in AskedVia(r)}
Entries == {Entry(q) : q \in Asked}
FromPackets(r) == Answered(AskedVia(r)) \cup NotesVia(r) \cup {RegisterService}
                    \cup Disconnects(r)
DownPackets(c) == Answered(AskedOver(c)) \cup NotesFor(c)
NotesOf(c) == {m \in [number : Nat, links : Vectors] : LinkOf(c) \in DOMAIN m.links}

LinkInv == /\ status \in [Channels -> {"new", "open", "left"}]
           /\ at \in [Channels -> [route : Routes, socket : Sockets \cup {0}]]
           /\ request_id \in [Channels -> Nat]
NewInv == \A c \in Channels : status[c] = "new" =>
            /\ request_id[c] = 0 /\ answers[c] = {} /\ notes[c] = <<>>
            /\ up[c] = <<>> /\ down[c] = <<>>
KnownInv == /\ known \subseteq Linked /\ sent \in Nat
            /\ unwanted \in Seq(Int) /\ Range(unwanted) \subseteq known
UpInv == DOMAIN up = Channels /\ \A c \in Channels : up[c] \in Seq(UpPackets(c))
ToInv == DOMAIN to_server = Routes /\ \A r \in Routes : to_server[r] \in Seq(ToPackets(r))
QueueInv == packet_queue \in Seq(Entries)
FromInv == /\ DOMAIN from_server = Routes
           /\ \A r \in Routes : from_server[r] \in Seq(FromPackets(r))
DownInv == DOMAIN down = Channels /\ \A c \in Channels : down[c] \in Seq(DownPackets(c))
AnswerInv == DOMAIN answers = Channels /\ AnswerIsMine
NoteInv == DOMAIN notes = Channels /\ \A c \in Channels : notes[c] \in Seq(NotesOf(c))

ExchangeInv == /\ LinkInv /\ NewInv /\ KnownInv
               /\ UpInv /\ ToInv /\ QueueInv /\ FromInv /\ DownInv
               /\ AnswerInv /\ NoteInv

LEMMA WiderSeq == ASSUME NEW S, NEW T, S \subseteq T, NEW s \in Seq(S)
                  PROVE  s \in Seq(T)
  OBVIOUS

LEMMA AppendSeq == ASSUME NEW S, NEW T, S \subseteq T, NEW s \in Seq(S), NEW e \in T
                   PROVE  Append(s, e) \in Seq(T)
<1>1. s \in Seq(T)
  BY WiderSeq
<1> QED BY <1>1

LEMMA TailSeq == ASSUME NEW S, NEW T, S \subseteq T, NEW s \in Seq(S), s # <<>>
                 PROVE  Head(s) \in S /\ Tail(s) \in Seq(T)
<1>1. Head(s) \in S /\ Tail(s) \in Seq(S)
  OBVIOUS
<1> QED BY <1>1, WiderSeq

(* The link ids of channels that have connected tell where they are. *)
LEMMA LinkTells ==
  ASSUME LinkInv, NEW c \in Channels
  PROVE  /\ LinkOf(c) \in Int
         /\ GetSocket(LinkOf(c)) = at[c].socket
         /\ GetRouteID(LinkOf(c)) = at[c].route
<1>1. at[c].route \in Routes /\ at[c].socket \in Sockets \cup {0}
  BY DEF LinkInv
<1>2. at[c].route \in Nat
  BY <1>1, RouteNumAssumption DEF Routes
<1>3. at[c].socket \in 0..(LinkBase - 1)
  <2>1. Sockets \subseteq 1..(LinkBase - 1)
    BY ExchangeConstants DEF SocketsFit
  <2>2. \A base \in Nat \ {0} : \A s \in 1..(base - 1) \cup {0} : s \in 0..(base - 1)
    OBVIOUS
  <2>3. \A s \in 1..(LinkBase - 1) \cup {0} : s \in 0..(LinkBase - 1)
    BY <2>2, LinkBaseAssumption
  <2> QED BY <1>1, <2>1, <2>3
<1>4. \A base \in Nat, r, s \in Nat : r * base + s \in Int
  BY SMT
<1>5. LinkOf(c) \in Int
  BY <1>2, <1>3, <1>4, LinkBaseAssumption DEF LinkOf, BuildLinkID
<1> QED BY <1>2, <1>3, <1>5, LinkRoundTrip DEF LinkOf

(* What was asked stays so, and where. *)
Grows == /\ \A c \in Channels : status[c] # "new" =>
              status'[c] # "new" /\ at'[c] = at[c] /\ request_id[c] <= request_id'[c]
         /\ known \subseteq known'

(* So what a packet may say stays so too. *)
Widens == /\ \A c \in Channels : status[c] # "new" =>
               /\ UpPackets(c) \subseteq UpPackets(c)'
               /\ DownPackets(c) \subseteq DownPackets(c)'
               /\ NotesOf(c) \subseteq NotesOf(c)'
          /\ \A r \in Routes : ToPackets(r) \subseteq ToPackets(r)'
          /\ \A r \in Routes : Range(unwanted) \subseteq Range(unwanted)' =>
               FromPackets(r) \subseteq FromPackets(r)'
          /\ Entries \subseteq Entries' /\ Linked \subseteq Linked'

LEMMA GrowsWidens ==
  ASSUME LinkInv, LinkInv', Grows
  PROVE  Widens
<1>1. \A q \in Asked : /\ q \in Asked' /\ q.from \in Channels
                       /\ status[q.from] # "new" /\ at'[q.from] = at[q.from]
  BY DEF Asked, Grows, LinkInv
<1>0. Vectors \subseteq Vectors'
  BY DEF Vectors, Grows
<1>2. \A c \in Channels : status[c] # "new" => LinkOf(c)' = LinkOf(c)
  BY DEF Grows, LinkOf
<1>3. Linked \subseteq Linked'
  BY <1>2 DEF Linked, Grows
<1>4. \A q \in Asked : /\ Forwarded(q)' = Forwarded(q)
                       /\ Entry(q)' = Entry(q)
                       /\ Answer(q)' = Answer(q)
  BY <1>1, <1>2 DEF Forwarded, Entry, Answer
<1>5. /\ \A c \in Channels : AskedBy(c) \subseteq AskedBy(c)'
      /\ \A r \in Routes : AskedVia(r) \subseteq AskedVia(r)'
      /\ \A c \in Channels : status[c] # "new" => AskedOver(c) \subseteq AskedOver(c)'
  BY <1>1 DEF AskedBy, AskedVia, AskedOver, Grows
<1>6. /\ \A c \in Channels : UpPackets(c) \subseteq UpPackets(c)'
      /\ \A r \in Routes : ToPackets(r) \subseteq ToPackets(r)'
      /\ Entries \subseteq Entries'
  BY <1>1, <1>4, <1>5 DEF UpPackets, ToPackets, Entries, AskedVia
<1>7. ASSUME NEW r \in Routes, Range(unwanted) \subseteq Range(unwanted)'
      PROVE  FromPackets(r) \subseteq FromPackets(r)'
  <2>1. Answered(AskedVia(r)) \subseteq Answered(AskedVia(r))'
    BY <1>4, <1>5 DEF Answered, AskedVia
  <2>2. NotesVia(r) \subseteq NotesVia(r)'
    BY <1>0 DEF NotesVia
  <2>3. Disconnects(r) \subseteq Disconnects(r)'
    BY <1>7 DEF Disconnects
  <2> QED BY <2>1, <2>2, <2>3 DEF FromPackets
<1>8. ASSUME NEW c \in Channels, status[c] # "new"
      PROVE  DownPackets(c) \subseteq DownPackets(c)' /\ NotesOf(c) \subseteq NotesOf(c)'
  <2>1. Answered(AskedOver(c)) \subseteq Answered(AskedOver(c))'
    BY <1>4, <1>5, <1>8 DEF Answered, AskedOver
  <2>2. NotesFor(c) \subseteq NotesFor(c)'
    <3>1. at'[c] = at[c] /\ LinkOf(c)' = LinkOf(c)
      BY <1>2, <1>8 DEF Grows
    <3> QED BY <1>0, <3>1 DEF NotesFor
  <2>3. NotesOf(c) \subseteq NotesOf(c)'
    BY <1>0, <1>2, <1>8 DEF NotesOf
  <2> QED BY <2>1, <2>2, <2>3 DEF DownPackets
<1> QED BY <1>3, <1>6, <1>7, <1>8 DEF Widens

LEMMA KnownGrows == Next => known \subseteq known'
<1>1. ASSUME NEW c \in Channels, NEW r, NEW s, Connect(c, r, s) PROVE known' = known
  BY <1>1 DEF Connect, server
<1>2. ASSUME NEW c \in Channels, CallMethod(c) \/ Leave(c) \/ RouteRequest(c) \/ ParsePacket(c)
      PROVE  known' = known
  BY <1>2 DEF CallMethod, Leave, RouteRequest, ParsePacket, DoRequestPacket, DoRegisterPacket,
              server
<1>3. ASSUME NEW c \in Channels, NEW id, Timeout(c, id) PROVE known' = known
  BY <1>3 DEF Timeout, server
<1>4. ASSUME NEW r \in Routes, RouteOnReceive(r) \/ ReceiveRoutePacket(r) \/ OnDisconnect(r)
      PROVE  known' = known
  BY <1>4 DEF RouteOnReceive, RouteResponse, ServerServiceRegister, ServerDisconnectChannelFunc,
              ReceiveRoutePacket, OnDisconnect, server
<1>5. Serve => known \subseteq known'
  BY DEF Serve
<1>6. ASSUME NEW x, SendRpcMessage(x) \/ Disconnect(x) PROVE known' = known
  BY <1>6 DEF SendRpcMessage, Disconnect
<1> QED BY <1>1, <1>2, <1>3, <1>4, <1>5, <1>6 DEF Next, Handle

LEMMA StepGrows ==
  ASSUME ExchangeInv, Next
  PROVE  LinkInv' /\ Grows
<1> USE DEF ExchangeInv, LinkInv, Grows
<1>0. known \subseteq known'
  BY KnownGrows
<1>1. CASE UNCHANGED <<links, request_id>>
  BY <1>0, <1>1 DEF links
<1>2. ASSUME NEW c \in Channels, NEW r \in Routes, NEW s \in Sockets, Connect(c, r, s)
      PROVE  LinkInv' /\ Grows
  BY <1>0, <1>2 DEF Connect, channel
<1>3. ASSUME NEW c \in Channels, CallMethod(c)
      PROVE  LinkInv' /\ Grows
  BY <1>0, <1>3 DEF CallMethod, links
<1>4. ASSUME NEW S, Close(S), UNCHANGED request_id
      PROVE  LinkInv' /\ Grows
  BY <1>0, <1>4 DEF Close
<1>5. \/ UNCHANGED <<links, request_id>>
      \/ \E c \in Channels, r \in Routes, s \in Sockets : Connect(c, r, s)
      \/ \E c \in Channels : CallMethod(c)
      \/ (\E S : Close(S)) /\ UNCHANGED request_id
  <2>1. ASSUME Handle PROVE <1>5!1 \/ <1>5!4
    <3>1. ASSUME NEW c \in Channels, RouteRequest(c) \/ ParsePacket(c) PROVE <1>5!1
      BY <3>1 DEF RouteRequest, ParsePacket, DoRequestPacket, DoRegisterPacket, channel, links
    <3>2. ASSUME NEW r \in Routes, RouteOnReceive(r) \/ ReceiveRoutePacket(r)
          PROVE  <1>5!1 \/ <1>5!4
      <4>1. CASE ServerDisconnectChannelFunc(r)
        BY <4>1 DEF ServerDisconnectChannelFunc, channel
      <4>2. CASE RouteResponse(r) \/ ServerServiceRegister(r) \/ ReceiveRoutePacket(r)
        BY <4>2 DEF RouteResponse, ServerServiceRegister, ReceiveRoutePacket, channel, links
      <4> QED BY <3>2, <4>1, <4>2 DEF RouteOnReceive
    <3>3. ASSUME Serve PROVE <1>5!1
      BY <3>3 DEF Serve, channel, links
    <3> QED BY <2>1, <3>1, <3>2, <3>3 DEF Handle
  <2>2. ASSUME NEW c \in Channels, Leave(c) PROVE <1>5!4
    BY <2>2 DEF Leave, channel
  <2>3. ASSUME NEW c \in Channels, NEW id, Timeout(c, id) PROVE <1>5!1
    BY <2>3 DEF Timeout
  <2>4. ASSUME NEW ids, SendRpcMessage(ids) PROVE <1>5!1
    BY <2>4 DEF SendRpcMessage, channel, links
  <2>5. ASSUME NEW l, Disconnect(l) PROVE <1>5!1
    BY <2>5 DEF Disconnect, channel, links
  <2>6. ASSUME NEW r \in Routes, OnDisconnect(r) PROVE <1>5!1
    BY <2>6 DEF OnDisconnect, channel, links
  <2> QED BY <2>1, <2>2, <2>3, <2>4, <2>5, <2>6 DEF Next
<1> QED BY <1>1, <1>2, <1>3, <1>4, <1>5
-----------------------------------------------------------------------------
LEMMA EmptySeq == ASSUME NEW S PROVE <<>> \in Seq(S)
  OBVIOUS

LEMMA InitInv == Init => ExchangeInv
<1> SUFFICES ASSUME Init PROVE ExchangeInv
  OBVIOUS
<1> USE DEF Init
<1>1. 0 \in Routes
  BY RouteNumAssumption DEF Routes
<1>2. LinkInv
  BY <1>1 DEF LinkInv
<1>3. NewInv /\ UpInv /\ ToInv /\ QueueInv /\ DownInv /\ NoteInv
  BY EmptySeq DEF NewInv, UpInv, ToInv, QueueInv, DownInv, NoteInv
<1>4. KnownInv
  BY EmptySeq DEF KnownInv, Range
<1>5. FromInv
  BY DEF FromInv, FromPackets
<1>6. AnswerInv
  BY DEF AnswerInv, AnswerIsMine
<1> QED BY <1>2, <1>3, <1>4, <1>5, <1>6 DEF ExchangeInv

(* A step keeps what is said of what it does not touch. *)
LEMMA KeepNew ==
  ASSUME LinkInv, Grows, NewInv,
         \A c \in Channels : status[c] = "new" =>
           /\ request_id'[c] = request_id[c] \/ status'[c] # "new"
           /\ answers'[c] = answers[c] /\ notes'[c] = notes[c]
           /\ up'[c] = up[c] \/ status'[c] # "new"
           /\ down'[c] = down[c]
  PROVE  NewInv'
  BY DEF LinkInv, Grows, NewInv

LEMMA KeepUp ==
  ASSUME NewInv, UpInv, Widens, DOMAIN up' = Channels,
         \A c \in Channels : up'[c] \in {up[c], <<>>}
  PROVE  UpInv'
<1> SUFFICES ASSUME NEW c \in Channels PROVE up'[c] \in Seq(UpPackets(c)')
  BY DEF UpInv
<1>1. CASE up'[c] = <<>>
  BY <1>1, EmptySeq
<1>2. CASE up'[c] # <<>>
  BY <1>2, WiderSeq DEF NewInv, UpInv, Widens
<1> QED BY <1>1, <1>2

LEMMA KeepTo == ASSUME ToInv, Widens, UNCHANGED to_server
                PROVE  ToInv'
<1> SUFFICES ASSUME NEW r \in Routes PROVE to_server[r] \in Seq(ToPackets(r)')
  BY DEF ToInv
<1> QED BY WiderSeq DEF ToInv, Widens

LEMMA KeepQueue == ASSUME QueueInv, Widens, UNCHANGED packet_queue
                   PROVE  QueueInv'
  BY WiderSeq DEF QueueInv, Widens

LEMMA KeepFrom ==
  ASSUME FromInv, Widens, Range(unwanted) \subseteq Range(unwanted)', UNCHANGED from_server
  PROVE  FromInv'
<1> SUFFICES ASSUME NEW r \in Routes PROVE from_server[r] \in Seq(FromPackets(r)')
  BY DEF FromInv
<1> QED BY WiderSeq DEF FromInv, Widens

(* A packet that a route has handled is gone. *)
LEMMA TakeFrom ==
  ASSUME FromInv, Widens, UNCHANGED unwanted, NEW r \in Routes, from_server[r] # <<>>,
         from_server' = [from_server EXCEPT ![r] = Tail(@)]
  PROVE  FromInv' /\ Head(from_server[r]) \in FromPackets(r)
<1>1. \A k \in Routes : FromPackets(k) \subseteq FromPackets(k)'
  BY DEF Widens
<1>2. ASSUME NEW k \in Routes PROVE from_server'[k] \in Seq(FromPackets(k)')
  <2>1. CASE k = r
    BY <1>1, <2>1, TailSeq DEF FromInv
  <2>2. CASE k # r
    BY <1>1, <2>2, WiderSeq DEF FromInv
  <2> QED BY <2>1, <2>2
<1>3. Head(from_server[r]) \in FromPackets(r)
  BY TailSeq DEF FromInv
<1> QED BY <1>2, <1>3 DEF FromInv

LEMMA KeepDown ==
  ASSUME NewInv, DownInv, Widens, DOMAIN down' = Channels,
         \A c \in Channels : down'[c] \in {down[c], <<>>}
  PROVE  DownInv'
<1> SUFFICES ASSUME NEW c \in Channels PROVE down'[c] \in Seq(DownPackets(c)')
  BY DEF DownInv
<1>1. CASE down'[c] = <<>>
  BY <1>1, EmptySeq
<1>2. CASE down'[c] # <<>>
  BY <1>2, WiderSeq DEF NewInv, DownInv, Widens
<1> QED BY <1>1, <1>2

(* A packet that a channel has taken is gone. *)
LEMMA TakeDown ==
  ASSUME NewInv, DownInv, Widens, NEW c \in Channels, Receive(c)
  PROVE  /\ DownInv' /\ status[c] # "new" /\ Head(down[c]) \in DownPackets(c)
         /\ \A d \in Channels : status[d] = "new" => down'[d] = down[d]
<1>1. status[c] # "new" /\ down[c] # <<>>
  BY DEF Receive, NewInv
<1>2. ASSUME NEW d \in Channels PROVE down'[d] \in Seq(DownPackets(d)')
  <2>1. CASE d = c
    BY <1>1, <2>1, TailSeq DEF Receive, DownInv, Widens
  <2>2. CASE d # c /\ down[d] = <<>>
    BY <2>2, EmptySeq DEF Receive, DownInv
  <2>3. CASE d # c /\ down[d] # <<>>
    BY <2>3, WiderSeq DEF Receive, DownInv, Widens, NewInv
  <2> QED BY <2>1, <2>2, <2>3
<1>3. Head(down[c]) \in DownPackets(c)
  BY <1>1, TailSeq DEF DownInv
<1> QED BY <1>1, <1>2, <1>3 DEF DownInv, Receive

LEMMA KeepKnown == ASSUME KnownInv, Widens, UNCHANGED <<known, sent, unwanted>>
                   PROVE  KnownInv'
  BY DEF KnownInv, Widens

LEMMA GrowsSameLink ==
  ASSUME LinkInv, Grows, NEW c \in Channels, status[c] # "new"
  PROVE  SameLink(c) \subseteq SameLink(c)'
  BY DEF LinkInv, Grows, SameLink

(* An answer that was right stays right. *)
LEMMA KeepAnswer ==
  ASSUME LinkInv, LinkInv', Grows, NEW c \in Channels, status[c] # "new", NEW answer,
         \E d \in SameLink(c) :
           /\ answer.id \in 1..request_id[d]
           /\ \/ answer.error = NoBytes /\ answer.msg = Asks(d, answer.id)
              \/ answer.error = Asks(d, answer.id) /\ answer.msg = NoBytes
  PROVE  \E d \in SameLink(c)' :
           /\ answer.id \in 1..request_id'[d]
           /\ \/ answer.error = NoBytes /\ answer.msg = Asks(d, answer.id)
              \/ answer.error = Asks(d, answer.id) /\ answer.msg = NoBytes
<1>1. PICK d \in SameLink(c) :
        /\ answer.id \in 1..request_id[d]
        /\ \/ answer.error = NoBytes /\ answer.msg = Asks(d, answer.id)
           \/ answer.error = Asks(d, answer.id) /\ answer.msg = NoBytes
  OBVIOUS
<1>2. d \in SameLink(c)'
  BY GrowsSameLink
<1>3. request_id[d] \in Nat /\ request_id'[d] \in Nat /\ request_id[d] <= request_id'[d]
  BY DEF LinkInv, Grows, SameLink
<1>4. answer.id \in 1..request_id'[d]
  BY <1>1, <1>3
<1> QED BY <1>1, <1>2, <1>4

LEMMA KeepAnswers ==
  ASSUME LinkInv, LinkInv', Grows, NewInv, AnswerInv, UNCHANGED answers
  PROVE  AnswerInv'
<1> SUFFICES ASSUME NEW c \in Channels, NEW answer \in answers[c]
             PROVE  (\E d \in SameLink(c) :
                       /\ answer.id \in 1..request_id[d]
                       /\ \/ answer.error = NoBytes /\ answer.msg = Asks(d, answer.id)
                          \/ answer.error = Asks(d, answer.id) /\ answer.msg = NoBytes)'
  BY DEF AnswerInv, AnswerIsMine
<1>1. status[c] # "new"
  BY DEF NewInv
<1> QED BY <1>1, KeepAnswer DEF AnswerInv, AnswerIsMine

LEMMA KeepNotes == ASSUME NewInv, NoteInv, Widens, UNCHANGED notes
                   PROVE  NoteInv'
<1> SUFFICES ASSUME NEW c \in Channels PROVE notes[c] \in Seq(NotesOf(c)')
  BY DEF NoteInv
<1>1. CASE notes[c] = <<>>
  BY <1>1, EmptySeq
<1>2. CASE notes[c] # <<>>
  BY <1>2, WiderSeq DEF NewInv, NoteInv, Widens
<1> QED BY <1>1, <1>2
-----------------------------------------------------------------------------
(* One lemma for each action. *)
LEMMA ConnectInv ==
  ASSUME ExchangeInv, LinkInv', Grows, Widens,
         NEW c \in Channels, NEW r \in Routes, NEW s \in Sockets, Connect(c, r, s)
  PROVE  ExchangeInv'
<1> USE DEF ExchangeInv
<1>1. UNCHANGED <<request_id, answers, notes, up, down, to_server, from_server, packet_queue,
                  known, sent, unwanted>>
  BY DEF Connect, channel, routes, server
<1>2. NewInv'
  BY <1>1, KeepNew
<1>3. UpInv' /\ DownInv'
  BY <1>1, KeepUp, KeepDown DEF UpInv, DownInv
<1>4. ToInv' /\ QueueInv' /\ FromInv'
  BY <1>1, KeepTo, KeepQueue, KeepFrom
<1>5. KnownInv' /\ AnswerInv' /\ NoteInv'
  BY <1>1, KeepKnown, KeepAnswers, KeepNotes
<1> QED BY <1>2, <1>3, <1>4, <1>5

LEMMA LeaveInv ==
  ASSUME ExchangeInv, LinkInv', Grows, Widens, NEW c \in Channels, Leave(c)
  PROVE  ExchangeInv'
<1> USE DEF ExchangeInv
<1>1. UNCHANGED <<request_id, answers, notes, to_server, from_server, packet_queue, known, sent,
                  unwanted>>
  BY DEF Leave, channel, routes, server
<1>2. NewInv'
  BY <1>1, KeepNew DEF Leave, Close
<1>3. UpInv' /\ DownInv'
  BY KeepUp, KeepDown DEF Leave, Close
<1>4. ToInv' /\ QueueInv' /\ FromInv'
  BY <1>1, KeepTo, KeepQueue, KeepFrom
<1>5. KnownInv' /\ AnswerInv' /\ NoteInv'
  BY <1>1, KeepKnown, KeepAnswers, KeepNotes
<1> QED BY <1>2, <1>3, <1>4, <1>5

LEMMA CallMethodInv ==
  ASSUME ExchangeInv, LinkInv', Grows, Widens, NEW c \in Channels, CallMethod(c)
  PROVE  ExchangeInv'
<1> USE DEF ExchangeInv
<1>1. UNCHANGED <<status, at, answers, notes, down, to_server, from_server, packet_queue, known,
                  sent, unwanted>>
  BY DEF CallMethod, links, routes, server
<1>2. NewInv'
  BY <1>1, KeepNew DEF CallMethod, UpInv, LinkInv
<1>3. UpInv'
  <2> DEFINE id == request_id[c] + 1
  <2>1. status[c] = "open" /\ request_id' = [request_id EXCEPT ![c] = id]
    BY DEF CallMethod
  <2>2. Asks(c, id) \in AskedBy(c)'
    <3>1. request_id[c] \in Nat /\ id \in Nat \ {0} /\ request_id'[c] = id
      BY <2>1 DEF LinkInv
    <3>2. status'[c] # "new"
      BY <1>1, <2>1
    <3>3. id <= request_id'[c]
      BY <3>1
    <3>4. Asks(c, id) = [from |-> c, id |-> id]
      BY DEF Asks
    <3> QED BY <3>1, <3>2, <3>3, <3>4 DEF AskedBy, Asked
  <2>3. Request(Asks(c, id)) =
          BuildRpcPacket(ChannelNetInfo, RequestMeta(id), WriteRequest([msg |-> Asks(c, id)]))
    BY DEF Request, Body, Asks
  <2>4. up' = [up EXCEPT ![c] = Append(@, Request(Asks(c, id)))]
    BY <2>3 DEF CallMethod
  <2>5. Request(Asks(c, id)) \in UpPackets(c)'
    BY <2>2 DEF UpPackets
  <2>6. ASSUME NEW d \in Channels PROVE up'[d] \in Seq(UpPackets(d)')
    <3>1. CASE d = c
      BY <2>1, <2>4, <2>5, <3>1, AppendSeq DEF UpInv, Widens
    <3>2. CASE d # c /\ up[d] = <<>>
      BY <2>4, <3>2, EmptySeq DEF UpInv
    <3>3. CASE d # c /\ up[d] # <<>>
      BY <2>4, <3>3, WiderSeq DEF UpInv, Widens, NewInv
    <3> QED BY <3>1, <3>2, <3>3
  <2> QED BY <2>4, <2>6 DEF UpInv
<1>4. ToInv' /\ QueueInv' /\ FromInv' /\ DownInv'
  BY <1>1, KeepTo, KeepQueue, KeepFrom, KeepDown DEF DownInv
<1>5. KnownInv' /\ AnswerInv' /\ NoteInv'
  BY <1>1, KeepKnown, KeepAnswers, KeepNotes
<1> QED BY <1>2, <1>3, <1>4, <1>5

LEMMA TimeoutInv ==
  ASSUME ExchangeInv, LinkInv', Grows, Widens, NEW c \in Channels, NEW id, Timeout(c, id)
  PROVE  ExchangeInv'
<1> USE DEF ExchangeInv
<1>1. UNCHANGED <<request_id, answers, notes, up, down, to_server, from_server, packet_queue,
                  known, sent, unwanted>>
  BY DEF Timeout, links, routes, server
<1>2. NewInv'
  BY <1>1, KeepNew
<1>3. UpInv' /\ DownInv'
  BY <1>1, KeepUp, KeepDown DEF UpInv, DownInv
<1>4. ToInv' /\ QueueInv' /\ FromInv'
  BY <1>1, KeepTo, KeepQueue, KeepFrom
<1>5. KnownInv' /\ AnswerInv' /\ NoteInv'
  BY <1>1, KeepKnown, KeepAnswers, KeepNotes
<1> QED BY <1>2, <1>3, <1>4, <1>5

LEMMA RouteRequestInv ==
  ASSUME ExchangeInv, LinkInv', Grows, Widens, NEW c \in Channels, RouteRequest(c)
  PROVE  ExchangeInv'
<1> USE DEF ExchangeInv
<1> DEFINE r == at[c].route
           packet == Head(up[c])
<1>1. UNCHANGED <<status, at, request_id, answers, notes, down, from_server, packet_queue, known,
                  sent, unwanted>>
  BY DEF RouteRequest, channel, links, server
<1>2. status[c] = "open" /\ up[c] # <<>> /\ up' = [up EXCEPT ![c] = Tail(@)]
  BY DEF RouteRequest
<1>3. NewInv'
  BY <1>1, <1>2, KeepNew DEF UpInv
<1>4. UpInv'
  <2>1. ASSUME NEW d \in Channels PROVE up'[d] \in Seq(UpPackets(d)')
    <3>1. CASE d = c
      BY <1>2, <3>1, TailSeq DEF UpInv, Widens
    <3>2. CASE d # c /\ up[d] = <<>>
      BY <1>2, <3>2, EmptySeq DEF UpInv
    <3>3. CASE d # c /\ up[d] # <<>>
      BY <1>2, <3>3, WiderSeq DEF UpInv, Widens, NewInv
    <3> QED BY <3>1, <3>2, <3>3
  <2> QED BY <1>2, <2>1 DEF UpInv
<1>5. ToInv'
  <2>1. CASE UNCHANGED to_server
    BY <2>1, KeepTo
  <2>2. CASE to_server' = [to_server EXCEPT ![r] = Append(@, WithSource(packet, at[c].socket))]
    <3>0. r \in Routes /\ packet \in UpPackets(c)
      BY <1>2, TailSeq DEF UpInv, LinkInv
    <3>1. PICK q \in AskedBy(c) : packet = Request(q)
      BY <3>0 DEF UpPackets
    <3>2. q \in AskedVia(r) /\ WithSource(packet, at[c].socket) = Forwarded(q)
      BY <3>1 DEF AskedBy, AskedVia, Forwarded
    <3> HIDE DEF packet, r
    <3>3. Forwarded(q) \in ToPackets(r)
      BY <3>2 DEF ToPackets
    <3>4. ASSUME NEW k \in Routes PROVE to_server'[k] \in Seq(ToPackets(k)')
      <4>1. CASE k = r
        <5>1. to_server'[k] = Append(to_server[k], Forwarded(q))
          BY <2>2, <3>2, <4>1 DEF ToInv
        <5>2. to_server[k] \in Seq(ToPackets(k))
          BY DEF ToInv
        <5>3. Forwarded(q) \in ToPackets(k)' /\ ToPackets(k) \subseteq ToPackets(k)'
          BY <3>3, <4>1 DEF Widens
        <5> QED BY <5>1, <5>2, <5>3, AppendSeq
      <4>2. CASE k # r
        BY <2>2, <4>2, WiderSeq DEF ToInv, Widens
      <4> QED BY <4>1, <4>2
    <3> QED BY <2>2, <3>4 DEF ToInv
  <2> QED BY <2>1, <2>2 DEF RouteRequest
<1>6. QueueInv' /\ FromInv' /\ DownInv'
  BY <1>1, KeepQueue, KeepFrom, KeepDown DEF DownInv
<1>7. KnownInv' /\ AnswerInv' /\ NoteInv'
  BY <1>1, KeepKnown, KeepAnswers, KeepNotes
<1> QED BY <1>3, <1>4, <1>5, <1>6, <1>7

(* A packet for a channel is an answer or a note; it is for the channel at  *)
(* the socket that it names, or for the one that was there before.          *)
LEMMA NotACommand ==
  ASSUME NEW r \in Routes, NEW packet \in FromPackets(r),
         GetNetInfo(packet).net_type = eNetType_Route
  PROVE  packet \in Answered(AskedVia(r)) \cup NotesVia(r)
<1>1. GetNetInfo(packet).net_type # eNetType_RouteCmd
  BY DEF eNetType_Route, eNetType_RouteCmd
<1>2. packet # RegisterService
  BY <1>1, ReadCommand DEF RegisterService
<1>3. packet \notin Disconnects(r)
  BY <1>1, ReadCommand DEF Disconnects, DisconnectPacket
<1> QED BY <1>2, <1>3 DEF FromPackets

LEMMA NotACall ==
  ASSUME NEW r \in Routes, NEW packet, GetNetInfo(packet).net_type = eNetType_RouteCmd
  PROVE  packet \notin Answered(AskedVia(r)) \cup NotesVia(r)
<1>1. ASSUME NEW q \in AskedVia(r), packet = Answer(q) PROVE FALSE
  <2>1. packet.net = WriteNetInfo(ServerNetInfo(at[q.from].route, SetToBag({LinkOf(q.from)})))
    BY <1>1 DEF Answer, BuildRpcPacket
  <2> QED BY <2>1, ReadServerNetInfo DEF eNetType_Route, eNetType_RouteCmd
<1>2. ASSUME NEW n, NEW link_ids, packet = NotePacket(r, n, link_ids) PROVE FALSE
  <2>1. packet.net = WriteNetInfo(ServerNetInfo(r, link_ids))
    BY <1>2 DEF NotePacket, BuildRpcPacket
  <2> QED BY <2>1, ReadServerNetInfo DEF eNetType_Route, eNetType_RouteCmd
<1> QED BY <1>1, <1>2 DEF Answered, NotesVia

(* The routes of a bag of one link: that of the link. *)
LEMMA OwnOfOne ==
  ASSUME LinkInv, NEW c \in Channels, NEW r
  PROVE  Own(r, SetToBag({LinkOf(c)})) # {} <=> at[c].route = r
  BY LinkTells, BagsAre DEF Own

LEMMA SameLinkOf ==
  ASSUME LinkInv, NEW c \in Channels, NEW link_id \in Linked,
         GetRouteID(link_id) = at[c].route, GetSocket(link_id) = at[c].socket
  PROVE  LinkOf(c) = link_id
<1>1. PICK d \in Channels : link_id = LinkOf(d)
  BY DEF Linked
<1> QED BY <1>1, LinkTells DEF LinkOf

(* A route sends a packet to a channel as often as the channel's link is    *)
(* among those that the server sent it to.                                  *)
LEMMA TimesAre ==
  ASSUME LinkInv, NEW r \in Routes, NEW packet, NEW link_ids,
         packet.net = WriteNetInfo(ServerNetInfo(r, link_ids)),
         DOMAIN link_ids \subseteq {LinkOf(d) : d \in Channels}, NEW c \in Channels
  PROVE  Times(r, c, packet) = IF status[c] = "open" /\ at[c].route = r
                               THEN Copies(LinkOf(c), link_ids) ELSE 0
<1> DEFINE s == at[c].socket
<1>1. TargetSockets(packet) = OwnSockets(r, link_ids)
  BY ReadServerNetInfo
<1>2. c \in Open(r, s) <=> status[c] = "open" /\ at[c].route = r
  BY DEF Open, LinkInv
<1>3. ASSUME at[c].route = r
      PROVE  Copies(s, OwnSockets(r, link_ids)) = Copies(LinkOf(c), link_ids)
  <2>1. BuildLinkID(r, s) = LinkOf(c)
    BY <1>3 DEF LinkOf
  <2>2. DOMAIN OwnSockets(r, link_ids) = {GetSocket(k) : k \in Own(r, link_ids)}
    BY DEF OwnSockets
  <2>3. ASSUME LinkOf(c) \in DOMAIN link_ids PROVE s \in DOMAIN OwnSockets(r, link_ids)
    <3>1. GetRouteID(LinkOf(c)) = r /\ GetSocket(LinkOf(c)) = s
      BY <1>3, LinkTells
    <3>2. LinkOf(c) \in Own(r, link_ids)
      BY <2>3, <3>1, BagsAre DEF Own
    <3> QED BY <2>2, <3>1, <3>2
  <2>4. ASSUME s \in DOMAIN OwnSockets(r, link_ids) PROVE LinkOf(c) \in DOMAIN link_ids
    <3>1. PICK k \in DOMAIN link_ids : GetRouteID(k) = r /\ GetSocket(k) = s
      BY <2>2, <2>4, BagsAre DEF Own
    <3>2. PICK d \in Channels : k = LinkOf(d)
      OBVIOUS
    <3>3. at[d].route = r /\ at[d].socket = s
      BY <3>1, <3>2, LinkTells
    <3> QED BY <1>3, <3>1, <3>2, <3>3 DEF LinkOf
  <2>5. s \in DOMAIN OwnSockets(r, link_ids) =>
          OwnSockets(r, link_ids)[s] = link_ids[LinkOf(c)]
    BY <2>1, <2>2 DEF OwnSockets
  <2> QED BY <2>3, <2>4, <2>5, BagsAre
<1> QED BY <1>1, <1>2, <1>3 DEF Times

LEMMA AnswerTimes ==
  ASSUME LinkInv, NEW q \in Asked, NEW c \in Channels, NEW r \in Routes, at[q.from].route = r
  PROVE  Times(r, c, Answer(q)) = IF status[c] = "open" /\ at[c] = at[q.from] THEN 1 ELSE 0
<1>1. q.from \in Channels
  BY DEF Asked
<1>2. Answer(q).net = WriteNetInfo(ServerNetInfo(r, SetToBag({LinkOf(q.from)})))
  BY DEF Answer, BuildRpcPacket
<1>3. DOMAIN SetToBag({LinkOf(q.from)}) \subseteq {LinkOf(d) : d \in Channels}
  BY <1>1, BagsAre
<1>4. Times(r, c, Answer(q)) = IF status[c] = "open" /\ at[c].route = r
                               THEN Copies(LinkOf(c), SetToBag({LinkOf(q.from)})) ELSE 0
  BY <1>2, <1>3, TimesAre
<1>5. Copies(LinkOf(c), SetToBag({LinkOf(q.from)})) = IF LinkOf(c) = LinkOf(q.from) THEN 1 ELSE 0
  <2> DEFINE B == SetToBag({LinkOf(q.from)})
  <2>1. B = [x \in {LinkOf(q.from)} |-> 1]
    BY BagsAre
  <2>2. DOMAIN B = {LinkOf(q.from)} /\ B[LinkOf(q.from)] = 1
    BY <2>1
  <2> HIDE DEF B
  <2>3. LinkOf(c) = LinkOf(q.from) => Copies(LinkOf(c), B) = 1
    BY <2>2, BagsAre
  <2>4. LinkOf(c) # LinkOf(q.from) => Copies(LinkOf(c), B) = 0
    BY <2>2, BagsAre
  <2> QED BY <2>3, <2>4 DEF B
<1>6. at[c] = at[q.from] <=> at[c].route = r /\ LinkOf(c) = LinkOf(q.from)
  <2>1. /\ at[c] = [route |-> at[c].route, socket |-> at[c].socket]
        /\ at[q.from] = [route |-> at[q.from].route, socket |-> at[q.from].socket]
    BY <1>1 DEF LinkInv
  <2>2. /\ GetSocket(LinkOf(c)) = at[c].socket
        /\ GetSocket(LinkOf(q.from)) = at[q.from].socket
    BY <1>1, LinkTells
  <2> QED BY <2>1, <2>2 DEF LinkOf
<1> QED BY <1>4, <1>5, <1>6

LEMMA NoteTimes ==
  ASSUME LinkInv, KnownInv, NEW c \in Channels, NEW r \in Routes, NEW n, NEW link_ids \in Vectors
  PROVE  Times(r, c, NotePacket(r, n, link_ids)) =
           IF status[c] = "open" /\ at[c].route = r THEN Copies(LinkOf(c), link_ids) ELSE 0
<1>1. NotePacket(r, n, link_ids).net = WriteNetInfo(ServerNetInfo(r, link_ids))
  BY DEF NotePacket, BuildRpcPacket
<1>2. DOMAIN link_ids \subseteq {LinkOf(d) : d \in Channels}
  BY DEF Vectors, KnownInv, Linked
<1> QED BY <1>1, <1>2, TimesAre

LEMMA CopiesAre ==
  ASSUME NEW link_ids \in Vectors, NEW l
  PROVE  Copies(l, link_ids) \in Nat /\ (Copies(l, link_ids) # 0 <=> l \in DOMAIN link_ids)
<1>1. PICK ids : link_ids \in [ids -> 1..MaxUnasked]
  BY DEF Vectors
<1>2. l \in DOMAIN link_ids => link_ids[l] \in 1..MaxUnasked
  BY <1>1
<1>3. MaxUnasked \in Nat
  BY ExchangeConstants
<1>4. \A m \in Nat : \A k \in 1..m : k \in Nat /\ k # 0
  OBVIOUS
<1> QED BY <1>2, <1>3, <1>4, BagsAre

LEMMA ForTargets ==
  ASSUME LinkInv, KnownInv, NEW r \in Routes,
         NEW packet \in Answered(AskedVia(r)) \cup NotesVia(r), NEW c \in Channels
  PROVE  /\ Times(r, c, packet) \in Nat
         /\ Times(r, c, packet) # 0 => status[c] = "open" /\ packet \in DownPackets(c)
<1>1. CASE packet \in Answered(AskedVia(r))
  <2>1. PICK q \in AskedVia(r) : packet = Answer(q)
    BY <1>1 DEF Answered
  <2>2. q \in Asked /\ at[q.from].route = r
    BY <2>1 DEF AskedVia
  <2>3. Times(r, c, packet) = IF status[c] = "open" /\ at[c] = at[q.from] THEN 1 ELSE 0
    BY <2>1, <2>2, AnswerTimes
  <2>4. at[c] = at[q.from] => packet \in DownPackets(c)
    BY <2>1, <2>2 DEF AskedOver, Answered, DownPackets
  <2> QED BY <2>3, <2>4
<1>2. CASE packet \in NotesVia(r)
  <2>1. PICK n \in Nat, link_ids \in Vectors : packet = NotePacket(r, n, link_ids)
    BY <1>2 DEF NotesVia
  <2>2. Times(r, c, packet) = IF status[c] = "open" /\ at[c].route = r
                              THEN Copies(LinkOf(c), link_ids) ELSE 0
    BY <2>1, NoteTimes
  <2>3. at[c].route = r /\ LinkOf(c) \in DOMAIN link_ids => packet \in DownPackets(c)
    BY <2>1 DEF NotesFor, DownPackets
  <2> QED BY <2>2, <2>3, CopiesAre
<1> QED BY <1>1, <1>2

(* A sequence to which a packet is added several times. *)
LEMMA Repeats ==
  ASSUME NEW T, NEW s \in Seq(T), NEW p, NEW n \in Nat, n # 0 => p \in T
  PROVE  /\ s \o Repeated(p, n) \in Seq(T)
         /\ Len(s) \in Nat /\ DOMAIN s = 1..Len(s)
         /\ DOMAIN (s \o Repeated(p, n)) = 1..(Len(s) + n)
         /\ \A i \in 1..Len(s) : (s \o Repeated(p, n))[i] = s[i]
         /\ \A i \in (Len(s) + 1)..(Len(s) + n) : (s \o Repeated(p, n))[i] = p
<1> DEFINE t == Repeated(p, n)
<1>1. \A i \in 1..n : p \in T
  OBVIOUS
<1>2. t \in [1..n -> T] /\ DOMAIN t = 1..n /\ \A i \in 1..n : t[i] = p
  BY <1>1 DEF Repeated
<1>3. t \in Seq(T)
  BY <1>2
<1>4. Len(t) = n
  BY <1>2, <1>3
<1>5. Len(s) \in Nat /\ DOMAIN s = 1..Len(s)
  OBVIOUS
<1> DEFINE u == s \o t
<1> HIDE DEF t
<1>6. u \in Seq(T) /\ Len(u) = Len(s) + n
  BY <1>3, <1>4
<1>7. DOMAIN u = 1..(Len(s) + n)
  BY <1>5, <1>6
<1>8. \A i \in 1..Len(s) : u[i] = s[i]
  BY <1>3, <1>4, <1>5
<1>9. ASSUME NEW i \in (Len(s) + 1)..(Len(s) + n) PROVE u[i] = p
  <2>1. i - Len(s) \in 1..n /\ i \in 1..(Len(s) + n) /\ ~ (i <= Len(s))
    BY <1>5
  <2>2. u[i] = t[i - Len(s)]
    BY <1>3, <1>4, <1>5, <2>1
  <2> QED BY <1>2, <2>1, <2>2
<1> HIDE DEF u
<1>10. /\ u \in Seq(T) /\ DOMAIN u = 1..(Len(s) + n)
       /\ \A i \in 1..Len(s) : u[i] = s[i]
       /\ \A i \in (Len(s) + 1)..(Len(s) + n) : u[i] = p
  BY <1>6, <1>7, <1>8, <1>9
<1> QED BY <1>5, <1>10 DEF t, u

LEMMA RepeatNot ==
  ASSUME NEW T, NEW s \in Seq(T), NEW p
  PROVE  s \o Repeated(p, 0) = s
<1> DEFINE u == s \o Repeated(p, 0)
<1>1. /\ u \in Seq(T) /\ DOMAIN s = 1..Len(s) /\ DOMAIN u = 1..(Len(s) + 0) /\ Len(s) \in Nat
      /\ \A i \in 1..Len(s) : u[i] = s[i]
  BY Repeats
<1> HIDE DEF u
<1>2. Len(s) + 0 = Len(s)
  BY <1>1
<1>3. DOMAIN u = DOMAIN s /\ \A i \in DOMAIN s : u[i] = s[i]
  BY <1>1, <1>2
<1>4. u = s
  BY <1>1, <1>3
<1> QED BY <1>4 DEF u

LEMMA RepeatOnce ==
  ASSUME NEW T, NEW s \in Seq(T), NEW p \in T
  PROVE  s \o Repeated(p, 1) = Append(s, p)
<1> DEFINE u == s \o Repeated(p, 1)
           v == Append(s, p)
<1>1. /\ u \in Seq(T) /\ DOMAIN u = 1..(Len(s) + 1) /\ Len(s) \in Nat
      /\ \A i \in 1..Len(s) : u[i] = s[i]
      /\ \A i \in (Len(s) + 1)..(Len(s) + 1) : u[i] = p
  BY Repeats
<1>2. /\ v \in Seq(T) /\ DOMAIN v = 1..(Len(s) + 1)
      /\ \A i \in 1..Len(s) : v[i] = s[i]
      /\ v[Len(s) + 1] = p
  OBVIOUS
<1> HIDE DEF u, v
<1>3. \A i \in 1..(Len(s) + 1) : u[i] = v[i]
  BY <1>1, <1>2
<1>4. u = v
  BY <1>1, <1>2, <1>3
<1> QED BY <1>4 DEF u, v

LEMMA RouteResponseInv ==
  ASSUME ExchangeInv, LinkInv', Grows, Widens, NEW r \in Routes, RouteResponse(r)
  PROVE  ExchangeInv'
<1> USE DEF ExchangeInv
<1> DEFINE packet == Head(from_server[r])
           times(c) == Times(r, c, packet)
<1>1. UNCHANGED <<status, at, request_id, answers, notes, up, to_server, packet_queue, known,
                  sent, unwanted>>
  BY DEF RouteResponse, channel, links, server
<1>2. /\ FromServer(r, eNetType_Route)
      /\ down' = [c \in Channels |-> down[c] \o Repeated(packet, times(c))]
  BY DEF RouteResponse
<1>3. FromInv' /\ packet \in FromPackets(r)
  BY <1>1, <1>2, TakeFrom DEF FromServer
<1>4. packet \in Answered(AskedVia(r)) \cup NotesVia(r)
  BY <1>2, <1>3, NotACommand DEF FromServer
<1>5. ASSUME NEW c \in Channels
      PROVE  /\ times(c) \in Nat
             /\ times(c) # 0 => status[c] # "new" /\ packet \in DownPackets(c)
  BY <1>4, ForTargets
<1> HIDE DEF packet, times
<1>6. \A c \in Channels : down[c] \in Seq(DownPackets(c))
  BY DEF DownInv
<1>7. \A c \in Channels : status[c] = "new" => down'[c] = down[c]
  BY <1>2, <1>5, <1>6, RepeatNot
<1>8. NewInv'
  BY <1>1, <1>7, KeepNew
<1>9. DownInv'
  <2>1. ASSUME NEW c \in Channels PROVE down'[c] \in Seq(DownPackets(c)')
    <3>1. CASE status[c] = "new"
      BY <1>7, <3>1, EmptySeq DEF NewInv
    <3>2. CASE status[c] # "new"
      <4>1. down'[c] \in Seq(DownPackets(c))
        BY <1>2, <1>5, <1>6, Repeats
      <4> QED BY <3>2, <4>1, WiderSeq DEF Widens
    <3> QED BY <3>1, <3>2
  <2> QED BY <1>2, <2>1 DEF DownInv
<1>10. UpInv' /\ ToInv' /\ QueueInv'
  BY <1>1, KeepUp, KeepTo, KeepQueue DEF UpInv
<1>11. KnownInv' /\ AnswerInv' /\ NoteInv'
  BY <1>1, KeepKnown, KeepAnswers, KeepNotes
<1> QED BY <1>3, <1>8, <1>9, <1>10, <1>11

LEMMA RegisterInv ==
  ASSUME ExchangeInv, LinkInv', Grows, Widens, NEW r \in Routes, ServerServiceRegister(r)
  PROVE  ExchangeInv'
<1> USE DEF ExchangeInv
<1>1. UNCHANGED <<status, at, request_id, answers, notes, up, down, to_server, packet_queue,
                  known, sent, unwanted>>
  BY DEF ServerServiceRegister, channel, links, server
<1>2. FromInv'
  BY <1>1, TakeFrom DEF ServerServiceRegister, FromServerCmd, FromServer
<1>3. NewInv'
  BY <1>1, KeepNew
<1>4. UpInv' /\ DownInv'
  BY <1>1, KeepUp, KeepDown DEF UpInv, DownInv
<1>5. ToInv' /\ QueueInv'
  BY <1>1, KeepTo, KeepQueue
<1>6. KnownInv' /\ AnswerInv' /\ NoteInv'
  BY <1>1, KeepKnown, KeepAnswers, KeepNotes
<1> QED BY <1>2, <1>3, <1>4, <1>5, <1>6

LEMMA DisconnectChannelInv ==
  ASSUME ExchangeInv, LinkInv', Grows, Widens, NEW r \in Routes, ServerDisconnectChannelFunc(r)
  PROVE  ExchangeInv'
<1> USE DEF ExchangeInv
<1>1. UNCHANGED <<request_id, answers, notes, to_server, packet_queue, known, sent, unwanted>>
  BY DEF ServerDisconnectChannelFunc, channel, server
<1>2. FromInv'
  BY <1>1, TakeFrom DEF ServerDisconnectChannelFunc, FromServerCmd, FromServer
<1>3. PICK S : Close(S)
  BY DEF ServerDisconnectChannelFunc
<1>4. NewInv'
  BY <1>1, <1>3, KeepNew DEF Close, NewInv
<1>5. UpInv' /\ DownInv'
  BY <1>3, KeepUp, KeepDown DEF Close
<1>6. ToInv' /\ QueueInv'
  BY <1>1, KeepTo, KeepQueue
<1>7. KnownInv' /\ AnswerInv' /\ NoteInv'
  BY <1>1, KeepKnown, KeepAnswers, KeepNotes
<1> QED BY <1>2, <1>4, <1>5, <1>6, <1>7
-----------------------------------------------------------------------------
LEMMA ReceiveInv ==
  ASSUME ExchangeInv, LinkInv', Grows, Widens, NEW r \in Routes, ReceiveRoutePacket(r)
  PROVE  ExchangeInv'
<1> USE DEF ExchangeInv
<1> DEFINE packet == Head(to_server[r])
           entry == [link_id |-> LinkIdOf(r, packet),
                     rpc_meta |-> CopyRpcMeta(GetMeta(packet)), binary |-> GetBinary(packet)]
<1>1. UNCHANGED <<status, at, request_id, answers, notes, up, down, from_server, known, sent,
                  unwanted>>
  BY DEF ReceiveRoutePacket, channel, links
<1>2. /\ to_server[r] # <<>> /\ to_server' = [to_server EXCEPT ![r] = Tail(@)]
      /\ packet_queue' = Append(packet_queue, entry)
  BY DEF ReceiveRoutePacket
<1>3. ToInv' /\ packet \in ToPackets(r)
  <2>1. packet \in ToPackets(r)
    BY <1>2, TailSeq DEF ToInv
  <2>2. ASSUME NEW k \in Routes PROVE to_server'[k] \in Seq(ToPackets(k)')
    <3>1. CASE k = r
      BY <1>2, <3>1, TailSeq DEF ToInv, Widens
    <3>2. CASE k # r
      BY <1>2, <3>2, WiderSeq DEF ToInv, Widens
    <3> QED BY <3>1, <3>2
  <2> QED BY <1>2, <2>1, <2>2 DEF ToInv
<1>4. QueueInv'
  <2>1. PICK q \in AskedVia(r) : packet = Forwarded(q)
    BY <1>3 DEF ToPackets
  <2>2. q \in Asked /\ at[q.from].route = r
    BY <2>1 DEF AskedVia
  <2>3. LinkIdOf(r, packet) = LinkOf(q.from)
    BY <2>1, <2>2, ReadRequestPacket DEF LinkIdOf, LinkOf
  <2>4. CopyRpcMeta(GetMeta(packet)) = RequestMeta(q.id) /\ GetBinary(packet) = Body(q)
    BY <2>1, ReadRequestPacket
  <2>5. entry = Entry(q)
    BY <2>3, <2>4 DEF Entry
  <2>6. entry \in Entries
    BY <2>2, <2>5 DEF Entries
  <2> HIDE DEF entry
  <2>7. entry \in Entries' /\ Entries \subseteq Entries'
    BY <2>6 DEF Widens
  <2> QED BY <1>2, <2>7, AppendSeq DEF QueueInv
<1>5. NewInv'
  BY <1>1, KeepNew
<1>6. UpInv' /\ DownInv' /\ FromInv'
  BY <1>1, KeepUp, KeepDown, KeepFrom DEF UpInv, DownInv
<1>7. KnownInv' /\ AnswerInv' /\ NoteInv'
  BY <1>1, KeepKnown, KeepAnswers, KeepNotes
<1> QED BY <1>3, <1>4, <1>5, <1>6, <1>7

(* The server adds a packet for the route it is sent to. *)
LEMMA AddFrom ==
  ASSUME FromInv, Widens, Range(unwanted) \subseteq Range(unwanted)', DOMAIN from_server' = Routes,
         \A r \in Routes : \/ from_server'[r] = from_server[r]
                           \/ \E packet \in FromPackets(r)' :
                                from_server'[r] = Append(from_server[r], packet)
  PROVE  FromInv'
<1> SUFFICES ASSUME NEW r \in Routes PROVE from_server'[r] \in Seq(FromPackets(r)')
  BY DEF FromInv
<1>1. from_server[r] \in Seq(FromPackets(r)) /\ FromPackets(r) \subseteq FromPackets(r)'
  BY DEF FromInv, Widens
<1>2. CASE from_server'[r] = from_server[r]
  BY <1>1, <1>2, WiderSeq
<1>3. CASE \E packet \in FromPackets(r)' : from_server'[r] = Append(from_server[r], packet)
  BY <1>1, <1>3, AppendSeq
<1> QED BY <1>2, <1>3

LEMMA ServeInv ==
  ASSUME ExchangeInv, LinkInv', Grows, Widens, Serve
  PROVE  ExchangeInv'
<1> USE DEF ExchangeInv
<1> DEFINE packet == Head(packet_queue)
           msg == ReadRequest(packet.binary).msg
<1>1. UNCHANGED <<status, at, request_id, answers, notes, up, down, to_server, sent, unwanted>>
  BY DEF Serve, channel, links
<1>2. /\ packet_queue # <<>> /\ packet_queue' = Tail(packet_queue)
      /\ known' = known \cup {packet.link_id}
      /\ SendFromServer(SetToBag({packet.link_id}),
                        ResponseMeta(packet.rpc_meta, IF msg.from \in Refused THEN msg ELSE NoBytes),
                        WriteResponse([msg |-> msg]))
  BY DEF Serve
<1>3. QueueInv' /\ packet \in Entries
  BY <1>2, TailSeq DEF QueueInv, Widens
<1>4. PICK q \in Asked : packet = Entry(q)
  BY <1>3 DEF Entries
<1>5. /\ packet.link_id = LinkOf(q.from) /\ packet.rpc_meta = RequestMeta(q.id)
      /\ packet.binary = Body(q)
  BY <1>4 DEF Entry
<1>6. msg = q
  BY <1>5, ReadRequestPacket
<1> HIDE DEF packet, msg
<1>7. q.from \in Channels /\ status[q.from] # "new" /\ LinkOf(q.from) \in Linked
  BY DEF Asked, Linked
<1>8. KnownInv'
  BY <1>1, <1>2, <1>5, <1>7 DEF KnownInv, Widens
<1>9. FromInv'
  <2>1. SendFromServer(SetToBag({LinkOf(q.from)}), ResponseMeta(RequestMeta(q.id), ErrorFor(q)),
                       WriteResponse([msg |-> q]))
    BY <1>2, <1>5, <1>6 DEF ErrorFor
  <2>2. \A r : Own(r, SetToBag({LinkOf(q.from)})) # {} <=> at[q.from].route = r
    BY <1>7, OwnOfOne
  <2>3. ASSUME NEW r \in Routes
        PROVE  \/ from_server'[r] = from_server[r]
               \/ \E p \in FromPackets(r)' : from_server'[r] = Append(from_server[r], p)
    <3>1. CASE at[q.from].route = r /\ r \in connected
      <4>1. from_server'[r] = Append(from_server[r], Answer(q))
        BY <2>1, <2>2, <3>1 DEF SendFromServer, Answer
      <4>2. q \in AskedVia(r)
        BY <3>1 DEF AskedVia
      <4>3. Answer(q) \in Answered(AskedVia(r))
        BY <4>2 DEF Answered
      <4>4. Answer(q) \in FromPackets(r)
        BY <4>3 DEF FromPackets
      <4>5. Answer(q) \in FromPackets(r)'
        BY <4>4, <1>1 DEF Widens
      <4> QED BY <4>1, <4>5
    <3>2. CASE at[q.from].route # r \/ r \notin connected
      BY <2>1, <2>2, <3>2 DEF SendFromServer
    <3> QED BY <3>1, <3>2
  <2>4. DOMAIN from_server' = Routes
    BY <2>1 DEF SendFromServer
  <2> QED BY <1>1, <2>3, <2>4, AddFrom
<1>10. NewInv'
  BY <1>1, KeepNew
<1>11. UpInv' /\ DownInv' /\ ToInv'
  BY <1>1, KeepUp, KeepDown, KeepTo DEF UpInv, DownInv
<1>12. AnswerInv' /\ NoteInv'
  BY <1>1, KeepAnswers, KeepNotes
<1> QED BY <1>3, <1>8, <1>9, <1>10, <1>11, <1>12

LEMMA SendRpcMessageInv ==
  ASSUME ExchangeInv, LinkInv', Grows, Widens, NEW link_ids, SendRpcMessage(link_ids)
  PROVE  ExchangeInv'
<1> USE DEF ExchangeInv
<1> DEFINE n == sent + BagCardinality(link_ids)
<1>1. UNCHANGED <<status, at, request_id, answers, notes, up, down, to_server, packet_queue,
                  known, unwanted>>
  BY DEF SendRpcMessage, channel, links
<1>2. /\ link_ids \in Vectors /\ BagCardinality(link_ids) \in Nat /\ sent' = n
      /\ SendFromServer(link_ids, NoteMeta, WriteResponse([msg |-> Note(n, link_ids)]))
  BY DEF SendRpcMessage
<1>3. n \in Nat /\ link_ids \in Vectors
  BY <1>2 DEF KnownInv
<1> HIDE DEF n
<1>4. KnownInv'
  BY <1>1, <1>2, <1>3 DEF KnownInv, Widens
<1>5. FromInv'
  <2>1. ASSUME NEW r \in Routes
        PROVE  \/ from_server'[r] = from_server[r]
               \/ \E p \in FromPackets(r)' : from_server'[r] = Append(from_server[r], p)
    <3>1. CASE r \in connected /\ Own(r, link_ids) # {}
      <4>1. from_server'[r] = Append(from_server[r], NotePacket(r, n, link_ids))
        BY <1>2, <3>1 DEF SendFromServer, NotePacket
      <4>2. NotePacket(r, n, link_ids) \in NotesVia(r)
        BY <1>3 DEF NotesVia
      <4>3. NotePacket(r, n, link_ids) \in FromPackets(r)
        BY <4>2 DEF FromPackets
      <4>4. NotePacket(r, n, link_ids) \in FromPackets(r)'
        BY <4>3, <1>1 DEF Widens
      <4> QED BY <4>1, <4>4
    <3>2. CASE ~ (r \in connected /\ Own(r, link_ids) # {})
      BY <1>2, <3>2 DEF SendFromServer
    <3> QED BY <3>1, <3>2
  <2>2. DOMAIN from_server' = Routes
    BY <1>2 DEF SendFromServer
  <2> QED BY <1>1, <2>1, <2>2, AddFrom
<1>6. NewInv'
  BY <1>1, KeepNew
<1>7. UpInv' /\ DownInv' /\ ToInv' /\ QueueInv'
  BY <1>1, KeepUp, KeepDown, KeepTo, KeepQueue DEF UpInv, DownInv
<1>8. AnswerInv' /\ NoteInv'
  BY <1>1, KeepAnswers, KeepNotes
<1> QED BY <1>4, <1>5, <1>6, <1>7, <1>8

LEMMA DisconnectInv ==
  ASSUME ExchangeInv, LinkInv', Grows, Widens, NEW link_id, Disconnect(link_id)
  PROVE  ExchangeInv'
<1> USE DEF ExchangeInv
<1> DEFINE route == getRouteClinet(link_id)
<1>1. UNCHANGED <<status, at, request_id, answers, notes, up, down, to_server, packet_queue,
                  known, sent>>
  BY DEF Disconnect, channel, links
<1>2. /\ link_id \in known /\ unwanted' = Append(unwanted, link_id)
      /\ from_server' = IF route \notin connected THEN from_server
                        ELSE [from_server EXCEPT ![route] = Append(@, DisconnectPacket(link_id))]
  BY DEF Disconnect
<1>3. link_id \in Int
  BY <1>2, LinkTells DEF KnownInv, Linked
<1>4. unwanted \in Seq(Int) /\ unwanted' \in Seq(Int)
  BY <1>2, <1>3 DEF KnownInv
<1>5. Range(unwanted)' = Range(unwanted) \cup {link_id}
  BY <1>2, <1>3, <1>4 DEF Range
<1>6. KnownInv'
  BY <1>1, <1>2, <1>4, <1>5 DEF KnownInv, Widens
<1>7. FromInv'
  <2>1. ASSUME NEW r \in Routes
        PROVE  \/ from_server'[r] = from_server[r]
               \/ \E p \in FromPackets(r)' : from_server'[r] = Append(from_server[r], p)
    <3>1. CASE r = route /\ route \in connected
      <4>1. from_server'[r] = Append(from_server[r], DisconnectPacket(link_id))
        BY <1>2, <3>1 DEF FromInv
      <4>2. DisconnectPacket(link_id) \in Disconnects(r)'
        BY <1>5, <3>1 DEF Disconnects, getRouteClinet
      <4>3. DisconnectPacket(link_id) \in FromPackets(r)'
        BY <4>2 DEF FromPackets
      <4> QED BY <4>1, <4>3
    <3>2. CASE r # route \/ route \notin connected
      BY <1>2, <3>2 DEF FromInv
    <3> QED BY <3>1, <3>2
  <2>2. DOMAIN from_server' = Routes
    BY <1>2 DEF FromInv
  <2> QED BY <1>5, <2>1, <2>2, AddFrom
<1>8. NewInv'
  BY <1>1, KeepNew
<1>9. UpInv' /\ DownInv' /\ ToInv' /\ QueueInv'
  BY <1>1, KeepUp, KeepDown, KeepTo, KeepQueue DEF UpInv, DownInv
<1>10. AnswerInv' /\ NoteInv'
  BY <1>1, KeepAnswers, KeepNotes
<1> QED BY <1>6, <1>7, <1>8, <1>9, <1>10
-----------------------------------------------------------------------------
LEMMA DoRequestInv ==
  ASSUME ExchangeInv, LinkInv', Grows, Widens, NEW c \in Channels, DoRequestPacket(c)
  PROVE  ExchangeInv'
<1> USE DEF ExchangeInv
<1> DEFINE packet == Head(down[c])
           id == RequestId(packet)
           error == ErrorOf(packet)
           msg == IF error # NoBytes THEN response.msg ELSE MsgOf(packet)
           answer == [id |-> id, error |-> error, msg |-> msg]
<1>1. UNCHANGED <<status, at, request_id, notes, up, to_server, from_server, packet_queue, known,
                  sent, unwanted>>
  BY DEF DoRequestPacket, links, routes, server
<1>2. /\ Receive(c) /\ id # RPC_REQUEST_ID_NULL
      /\ \/ answers' = [answers EXCEPT ![c] = @ \cup {answer}]
         \/ answers' = answers
  BY DEF DoRequestPacket
<1>3. /\ DownInv' /\ status[c] # "new" /\ packet \in DownPackets(c)
      /\ \A d \in Channels : status[d] = "new" => down'[d] = down[d]
  BY <1>2, TakeDown
<1>4. packet \in Answered(AskedOver(c))
  BY <1>2, <1>3, ReadNote DEF DownPackets, NotesFor
<1>5. PICK q \in AskedOver(c) : packet = Answer(q)
  BY <1>4 DEF Answered
<1>6. q \in Asked /\ at[q.from] = at[c]
  BY <1>5 DEF AskedOver
<1>7. id = q.id /\ error = ErrorFor(q) /\ MsgOf(packet) = q
  BY <1>5, ReadAnswer
<1>8. /\ q = Asks(q.from, q.id) /\ q.from \in Channels /\ q.id \in 1..request_id[q.from]
      /\ status[q.from] # "new"
  BY <1>6 DEF Asked, Asks, LinkInv
<1>9. q.from \in SameLink(c)
  BY <1>6, <1>8 DEF SameLink
<1>10. \/ error = NoBytes /\ msg = Asks(q.from, id)
       \/ error = Asks(q.from, id) /\ msg = NoBytes
  BY <1>7, <1>8 DEF ErrorFor, response
<1> HIDE DEF id, error, msg
<1>11. /\ answer.id \in 1..request_id[q.from]
       /\ \/ answer.error = NoBytes /\ answer.msg = Asks(q.from, answer.id)
          \/ answer.error = Asks(q.from, answer.id) /\ answer.msg = NoBytes
  BY <1>7, <1>8, <1>10
<1> HIDE DEF answer
<1>12. AnswerInv'
  <2> SUFFICES ASSUME NEW d \in Channels, NEW a \in answers'[d]
               PROVE  (\E e \in SameLink(d) :
                         /\ a.id \in 1..request_id[e]
                         /\ \/ a.error = NoBytes /\ a.msg = Asks(e, a.id)
                            \/ a.error = Asks(e, a.id) /\ a.msg = NoBytes)'
    BY <1>2 DEF AnswerInv, AnswerIsMine
  <2>1. a \in answers[d] \/ (d = c /\ a = answer)
    BY <1>2 DEF AnswerInv
  <2>2. CASE a \in answers[d]
    <3>1. status[d] # "new"
      BY <2>2 DEF NewInv
    <3> QED BY <2>2, <3>1, KeepAnswer DEF AnswerInv, AnswerIsMine
  <2>3. CASE d = c /\ a = answer
    BY <1>3, <1>9, <1>11, <2>3, KeepAnswer
  <2> QED BY <2>1, <2>2, <2>3
<1>13. NewInv'
  BY <1>1, <1>2, <1>3, KeepNew DEF AnswerInv
<1>14. UpInv' /\ ToInv' /\ QueueInv' /\ FromInv'
  BY <1>1, KeepUp, KeepTo, KeepQueue, KeepFrom DEF UpInv
<1>15. KnownInv' /\ NoteInv'
  BY <1>1, KeepKnown, KeepNotes
<1> QED BY <1>3, <1>12, <1>13, <1>14, <1>15

LEMMA DoRegisterInv ==
  ASSUME ExchangeInv, LinkInv', Grows, Widens, NEW c \in Channels, DoRegisterPacket(c)
  PROVE  ExchangeInv'
<1> USE DEF ExchangeInv
<1> DEFINE packet == Head(down[c])
<1>1. UNCHANGED <<status, at, request_id, answers, up, to_server, from_server, packet_queue,
                  known, sent, unwanted>>
  BY DEF DoRegisterPacket, links, routes, server
<1>2. /\ Receive(c) /\ RequestId(packet) = RPC_REQUEST_ID_NULL
      /\ notes' = [notes EXCEPT ![c] = Append(@, MsgOf(packet))]
  BY DEF DoRegisterPacket
<1>3. /\ DownInv' /\ status[c] # "new" /\ packet \in DownPackets(c)
      /\ \A d \in Channels : status[d] = "new" => down'[d] = down[d]
  BY <1>2, TakeDown
<1>4. packet \in NotesFor(c)
  <2>1. ASSUME NEW q \in AskedOver(c), packet = Answer(q) PROVE FALSE
    BY <1>2, <2>1, ReadAnswer DEF AskedOver, Asked, RPC_REQUEST_ID_NULL
  <2> QED BY <1>3, <2>1 DEF DownPackets, Answered
<1>5. PICK n \in Nat, link_ids \in Vectors :
        packet = NotePacket(at[c].route, n, link_ids) /\ LinkOf(c) \in DOMAIN link_ids
  BY <1>4 DEF NotesFor
<1>6. MsgOf(packet) = [number |-> n, links |-> link_ids]
  BY <1>5, ReadNote DEF Note
<1>7. MsgOf(packet) \in NotesOf(c)
  BY <1>5, <1>6 DEF NotesOf
<1> HIDE DEF packet
<1>8. NoteInv'
  <2>1. ASSUME NEW d \in Channels PROVE notes'[d] \in Seq(NotesOf(d)')
    <3>1. CASE d = c
      <4>1. /\ notes[c] \in Seq(NotesOf(c)) /\ MsgOf(packet) \in NotesOf(c)'
            /\ NotesOf(c) \subseteq NotesOf(c)'
        BY <1>3, <1>7 DEF NoteInv, Widens
      <4>2. notes'[c] = Append(notes[c], MsgOf(packet))
        BY <1>2 DEF NoteInv
      <4> QED BY <3>1, <4>1, <4>2, AppendSeq
    <3>2. CASE d # c /\ notes[d] = <<>>
      BY <1>2, <3>2, EmptySeq DEF NoteInv
    <3>3. CASE d # c /\ notes[d] # <<>>
      BY <1>2, <3>3, WiderSeq DEF NoteInv, Widens, NewInv
    <3> QED BY <3>1, <3>2, <3>3
  <2> QED BY <1>2, <2>1 DEF NoteInv
<1>9. NewInv'
  BY <1>1, <1>2, <1>3, KeepNew DEF NoteInv
<1>10. UpInv' /\ ToInv' /\ QueueInv' /\ FromInv'
  BY <1>1, KeepUp, KeepTo, KeepQueue, KeepFrom DEF UpInv
<1>11. KnownInv' /\ AnswerInv'
  BY <1>1, KeepKnown, KeepAnswers
<1> QED BY <1>3, <1>8, <1>9, <1>10, <1>11
-----------------------------------------------------------------------------
LEMMA OnDisconnectInv ==
  ASSUME ExchangeInv, LinkInv', Grows, Widens, NEW r \in Routes, OnDisconnect(r)
  PROVE  ExchangeInv'
<1> USE DEF ExchangeInv
<1>1. UNCHANGED <<status, at, request_id, answers, notes, up, down, packet_queue, known, sent,
                  unwanted>>
  BY DEF OnDisconnect, channel, links, server
<1>2. /\ to_server' = [to_server EXCEPT ![r] = <<>>]
      /\ from_server' = [from_server EXCEPT ![r] = <<>>]
  BY DEF OnDisconnect
<1>3. \A k \in Routes : /\ FromPackets(k) \subseteq FromPackets(k)'
                        /\ ToPackets(k) \subseteq ToPackets(k)'
  <2>1. Range(unwanted) \subseteq Range(unwanted)'
    BY <1>1
  <2> QED BY <2>1 DEF Widens
<1>4. ToInv'
  <2>1. ASSUME NEW k \in Routes PROVE to_server'[k] \in Seq(ToPackets(k)')
    <3>1. CASE k = r
      BY <1>2, <3>1, EmptySeq DEF ToInv
    <3>2. CASE k # r
      BY <1>2, <1>3, <3>2, WiderSeq DEF ToInv
    <3> QED BY <3>1, <3>2
  <2> QED BY <1>2, <2>1 DEF ToInv
<1>5. FromInv'
  <2>1. ASSUME NEW k \in Routes PROVE from_server'[k] \in Seq(FromPackets(k)')
    <3>1. CASE k = r
      BY <1>2, <3>1, EmptySeq DEF FromInv
    <3>2. CASE k # r
      BY <1>2, <1>3, <3>2, WiderSeq DEF FromInv
    <3> QED BY <3>1, <3>2
  <2> QED BY <1>2, <2>1 DEF FromInv
<1>6. NewInv'
  BY <1>1, KeepNew
<1>7. UpInv' /\ DownInv' /\ QueueInv'
  BY <1>1, KeepUp, KeepDown, KeepQueue DEF UpInv, DownInv
<1>8. KnownInv' /\ AnswerInv' /\ NoteInv'
  BY <1>1, KeepKnown, KeepAnswers, KeepNotes
<1> QED BY <1>4, <1>5, <1>6, <1>7, <1>8

LEMMA StepInv == ExchangeInv /\ [Next]_vars => ExchangeInv'
<1> SUFFICES ASSUME ExchangeInv, [Next]_vars PROVE ExchangeInv'
  OBVIOUS
<1>1. CASE UNCHANGED vars
  <2>1. UNCHANGED <<status, at, request_id, answers, notes, up, down, to_server, from_server,
                    packet_queue, known, sent, unwanted>>
    BY <1>1 DEF vars, channel, links, routes, server
  <2>2. LinkInv' /\ Grows
    BY <2>1 DEF ExchangeInv, LinkInv, Grows
  <2>3. Widens
    BY <2>2, GrowsWidens DEF ExchangeInv
  <2>4. NewInv' /\ UpInv' /\ ToInv' /\ QueueInv' /\ FromInv' /\ DownInv'
    BY <2>1, <2>2, <2>3, KeepNew, KeepUp, KeepTo, KeepQueue, KeepFrom, KeepDown
       DEF ExchangeInv, UpInv, DownInv
  <2>5. KnownInv' /\ AnswerInv' /\ NoteInv'
    BY <2>1, <2>2, <2>3, KeepKnown, KeepAnswers, KeepNotes DEF ExchangeInv
  <2> QED BY <2>2, <2>4, <2>5 DEF ExchangeInv
<1>2. CASE Next
  <2>1. LinkInv' /\ Grows
    BY <1>2, StepGrows
  <2>2. Widens
    BY <2>1, GrowsWidens DEF ExchangeInv
  <2>3. ASSUME NEW c \in Channels, NEW r \in Routes, NEW s \in Sockets, Connect(c, r, s)
        PROVE  ExchangeInv'
    BY <2>1, <2>2, <2>3, ConnectInv
  <2>4. ASSUME NEW c \in Channels, CallMethod(c) \/ Leave(c) PROVE ExchangeInv'
    BY <2>1, <2>2, <2>4, CallMethodInv, LeaveInv
  <2>5. ASSUME NEW c \in Channels, NEW id \in 1..MaxRequests, Timeout(c, id) PROVE ExchangeInv'
    BY <2>1, <2>2, <2>5, TimeoutInv
  <2>6. ASSUME NEW c \in Channels, RouteRequest(c) PROVE ExchangeInv'
    BY <2>1, <2>2, <2>6, RouteRequestInv
  <2>7. ASSUME NEW c \in Channels, ParsePacket(c) PROVE ExchangeInv'
    BY <2>1, <2>2, <2>7, DoRequestInv, DoRegisterInv DEF ParsePacket
  <2>8. ASSUME NEW r \in Routes, RouteOnReceive(r) PROVE ExchangeInv'
    BY <2>1, <2>2, <2>8, RouteResponseInv, RegisterInv, DisconnectChannelInv DEF RouteOnReceive
  <2>9. ASSUME NEW r \in Routes, ReceiveRoutePacket(r) PROVE ExchangeInv'
    BY <2>1, <2>2, <2>9, ReceiveInv
  <2>10. ASSUME Serve PROVE ExchangeInv'
    BY <2>1, <2>2, <2>10, ServeInv
  <2>11. ASSUME NEW link_ids, SendRpcMessage(link_ids) PROVE ExchangeInv'
    BY <2>1, <2>2, <2>11, SendRpcMessageInv
  <2>12. ASSUME NEW link_id, Disconnect(link_id) PROVE ExchangeInv'
    BY <2>1, <2>2, <2>12, DisconnectInv
  <2>13. ASSUME NEW r \in Routes, OnDisconnect(r) PROVE ExchangeInv'
    BY <2>1, <2>2, <2>13, OnDisconnectInv
  <2> QED BY <1>2, <2>3, <2>4, <2>5, <2>6, <2>7, <2>8, <2>9, <2>10, <2>11, <2>12, <2>13
         DEF Next, Handle
<1> QED BY <1>1, <1>2

LEMMA ExchangeInvariant == Spec => []ExchangeInv
  BY InitInv, StepInv, PTL DEF Spec

(* A channel is given answers to requests with the id it asked with, made   *)
(* over its own socket of its own route.                                    *)
THEOREM AnswersAreMine == Spec => []AnswerIsMine
<1>1. ExchangeInv => AnswerIsMine
  BY DEF ExchangeInv, AnswerInv
<1> QED BY <1>1, ExchangeInvariant, PTL

(* A command to disconnect closes connections that the server named.        *)
LEMMA ReadDisconnectPacket ==
  ASSUME NEW l
  PROVE  /\ Command(DisconnectPacket(l)).cmd = eRouteCmd_Server_DisconnectChannel
         /\ ReadServerDisconnectChannel(Command(DisconnectPacket(l)).request_binary)
              = [channel_socket |-> SetToBag({GetSocket(l)})]
<1> DEFINE m == [channel_socket |-> SetToBag({GetSocket(l)})]
<1>1. m = [field \in DOMAIN ServerDisconnectChannel |-> m[field]]
  BY DEF ServerDisconnectChannel
<1>2. ReadServerDisconnectChannel(WriteServerDisconnectChannel(m)) = m
  BY <1>1, RoundTrip DEF ReadServerDisconnectChannel, WriteServerDisconnectChannel
<1> QED BY <1>2, ReadCommand DEF DisconnectPacket

(* Only one action closes connections and takes what the server sent.       *)
LEMMA ClosesByCommand ==
  ASSUME ExchangeInv, Next, from_server' # from_server,
         NEW c \in Channels, status'[c] # status[c]
  PROVE  \E r \in Routes : ServerDisconnectChannelFunc(r)
<1>1. ASSUME NEW d \in Channels, NEW r \in Routes, NEW s \in Sockets, Connect(d, r, s) PROVE FALSE
  BY <1>1 DEF Connect, routes
<1>2. ASSUME NEW d \in Channels, CallMethod(d) \/ Leave(d) PROVE FALSE
  BY <1>2 DEF CallMethod, Leave, routes
<1>3. ASSUME NEW d \in Channels, NEW id, Timeout(d, id) PROVE FALSE
  BY <1>3 DEF Timeout, routes
<1>4. ASSUME NEW d \in Channels, RouteRequest(d) \/ ParsePacket(d) PROVE FALSE
  BY <1>4 DEF RouteRequest, ParsePacket, DoRequestPacket, DoRegisterPacket, routes
<1>5. ASSUME NEW r \in Routes, RouteResponse(r) \/ ServerServiceRegister(r) \/ ReceiveRoutePacket(r)
      PROVE  FALSE
  BY <1>5 DEF RouteResponse, ServerServiceRegister, ReceiveRoutePacket, links
<1>6. ASSUME Serve PROVE FALSE
  BY <1>6 DEF Serve, links
<1>7. ASSUME NEW link_ids, SendRpcMessage(link_ids) PROVE FALSE
  BY <1>7 DEF SendRpcMessage, links
<1>8. ASSUME NEW link_id, Disconnect(link_id) PROVE FALSE
  BY <1>8 DEF Disconnect, links
<1>9. ASSUME NEW r \in Routes, OnDisconnect(r) PROVE FALSE
  BY <1>9 DEF OnDisconnect, links
<1> QED BY <1>1, <1>2, <1>3, <1>4, <1>5, <1>6, <1>7, <1>8, <1>9 DEF Next, Handle, RouteOnReceive

THEOREM ClosesOnlyUnwanted == Spec => OnlyUnwantedAreClosed
<1>1. ASSUME ExchangeInv, [Next]_vars, from_server' # from_server,
             NEW c \in Channels, status'[c] # status[c]
      PROVE  LinkOf(c) \in Range(unwanted)
  <2>1. Next
    BY <1>1 DEF vars, links
  <2>2. PICK r \in Routes : ServerDisconnectChannelFunc(r)
    BY <1>1, <2>1, ClosesByCommand
  <2> DEFINE packet == Head(from_server[r])
             info == ReadServerDisconnectChannel(Command(packet).request_binary)
             closed == UNION {Open(r, s) : s \in BagToSet(info.channel_socket)}
  <2>3. /\ from_server[r] # <<>> /\ GetNetInfo(packet).net_type = eNetType_RouteCmd
        /\ Command(packet).cmd = eRouteCmd_Server_DisconnectChannel
        /\ Close(closed)
    BY <2>2 DEF ServerDisconnectChannelFunc, FromServerCmd, FromServer
  <2>4. packet \in FromPackets(r)
    BY <1>1, <2>3, TailSeq DEF ExchangeInv, FromInv
  <2>5. packet # RegisterService
    BY <2>3, ReadCommand DEF RegisterService, eRouteCmd_Server_DisconnectChannel,
                             eRouteCmd_Server_ServiceRegister
  <2>6. packet \notin Answered(AskedVia(r)) \cup NotesVia(r)
    BY <2>3, NotACall
  <2>8. PICK l \in Range(unwanted) : GetRouteID(l) = r /\ packet = DisconnectPacket(l)
    BY <2>4, <2>5, <2>6 DEF FromPackets, Disconnects
  <2>9. BagToSet(info.channel_socket) = {GetSocket(l)}
    <3>1. ReadServerDisconnectChannel(Command(DisconnectPacket(l)).request_binary)
            = [channel_socket |-> SetToBag({GetSocket(l)})]
      BY ReadDisconnectPacket
    <3>2. info = [channel_socket |-> SetToBag({GetSocket(l)})]
      BY <2>8, <3>1
    <3> QED BY <3>2, BagsAre
  <2>10. c \in closed
    BY <1>1, <2>3 DEF Close, ExchangeInv, LinkInv
  <2>11. at[c] = [route |-> r, socket |-> GetSocket(l)]
    BY <2>9, <2>10 DEF Open
  <2>12. l \in Linked
    BY <1>1, <2>8 DEF ExchangeInv, KnownInv
  <2>13. LinkOf(c) = l
    BY <1>1, <2>8, <2>11, <2>12, SameLinkOf DEF ExchangeInv
  <2> QED BY <2>8, <2>13
<1>2. ExchangeInv /\ [Next]_vars =>
        [from_server' # from_server =>
           \A c \in Channels : status'[c] # status[c] => LinkOf(c) \in Range(unwanted)]_vars
  BY <1>1
<1> QED BY <1>2, ExchangeInvariant, PTL DEF Spec, OnlyUnwantedAreClosed
-----------------------------------------------------------------------------
(* Notes are numbered as they are sent, and to a route each goes once, in   *)
(* order.  The copies of a note that a route makes for a channel stay next  *)
(* to each other: counted over what the channel was given and what is on    *)
(* its way to it, no two copies of a note are further apart than the times  *)
(* that the channel's link is in the note's links.  A channel that takes a  *)
(* socket over has no notes yet.                                            *)
IsNote(packet) == /\ GetNetInfo(packet).net_type = eNetType_Route
                  /\ RequestId(packet) = RPC_REQUEST_ID_NULL
Number(packet) == MsgOf(packet).number
Numbers(packets) == {Number(packets[i]) : i \in {j \in DOMAIN packets : IsNote(packets[j])}}
InOrder(packets) ==
  \A i, j \in DOMAIN packets :
    i < j /\ IsNote(packets[i]) /\ IsNote(packets[j]) => Number(packets[i]) < Number(packets[j])
GivenNumbers(msgs) == {msgs[i].number : i \in DOMAIN msgs}
Below(A, B) == \A a \in A, b \in B : a < b

(* A note, and one that comes to the same link some places after it. *)
Near(note, later, places, link_id) ==
  /\ note.number <= later.number
  /\ note.number = later.number => places < Copies(link_id, note.links)
GivenSpaced(given, l) ==
  \A i, j \in DOMAIN given : i <= j => Near(given[i], given[j], j - i, l)
DownSpaced(line, l) ==
  \A i, j \in DOMAIN line : i <= j /\ IsNote(line[i]) /\ IsNote(line[j]) =>
    Near(MsgOf(line[i]), MsgOf(line[j]), j - i, l)
LineSpaced(given, line, l) ==
  \A i \in DOMAIN given, j \in DOMAIN line : IsNote(line[j]) =>
    Near(given[i], MsgOf(line[j]), Len(given) + j - i, l)
Spaced(given, line, l) ==
  GivenSpaced(given, l) /\ DownSpaced(line, l) /\ LineSpaced(given, line, l)

RouteOrder(r) == InOrder(from_server[r]) /\ Numbers(from_server[r]) \subseteq 1..sent
LinkOrder(c) ==
  /\ Numbers(down[c]) \cup GivenNumbers(notes[c]) \subseteq 1..sent
  /\ Below(Numbers(down[c]) \cup GivenNumbers(notes[c]), Numbers(from_server[at[c].route]))
GivenOrder(c) == Spaced(notes[c], down[c], LinkOf(c))
OrderInv == /\ \A r \in Routes : RouteOrder(r)
            /\ \A c \in Channels : LinkOrder(c) /\ GivenOrder(c)

LEMMA NoPackets == Numbers(<<>>) = {} /\ InOrder(<<>>) /\ GivenNumbers(<<>>) = {}
  BY DEF Numbers, InOrder, GivenNumbers

LEMMA NoneSpaced == \A l : Spaced(<<>>, <<>>, l)
  BY DEF Spaced, GivenSpaced, DownSpaced, LineSpaced

LEMMA LostSpaced ==
  ASSUME NEW given, NEW line, NEW l, Spaced(given, line, l)
  PROVE  Spaced(given, <<>>, l)
  BY DEF Spaced, DownSpaced, LineSpaced

(* The head of the line is taken from it: the others come one place nearer  *)
(* to what was given before.                                                *)
LEMMA TakenSpaced ==
  ASSUME NEW T, NEW U \in SUBSET [number : Nat, links : Vectors], NEW line \in Seq(T), line # <<>>,
         NEW given \in Seq(U), NEW l, Spaced(given, line, l)
  PROVE  Spaced(given, Tail(line), l)
<1> DEFINE t == Tail(line)
<1>1. /\ DOMAIN line = 1..Len(line) /\ Len(line) \in Nat \ {0} /\ DOMAIN t = 1..(Len(line) - 1)
      /\ \A i \in 1..(Len(line) - 1) : t[i] = line[i + 1]
  OBVIOUS
<1> HIDE DEF t
<1>2. \A i \in DOMAIN t : i \in Int /\ i + 1 \in DOMAIN line /\ t[i] = line[i + 1]
  BY <1>1
<1>3. DownSpaced(t, l)
  <2> SUFFICES ASSUME NEW i \in DOMAIN t, NEW j \in DOMAIN t, i <= j, IsNote(t[i]), IsNote(t[j])
               PROVE  Near(MsgOf(t[i]), MsgOf(t[j]), j - i, l)
    BY DEF DownSpaced
  <2>1. i + 1 <= j + 1 /\ (j + 1) - (i + 1) = j - i
    BY <1>2
  <2>2. Near(MsgOf(line[i + 1]), MsgOf(line[j + 1]), (j + 1) - (i + 1), l)
    BY <1>2, <2>1 DEF Spaced, DownSpaced
  <2> QED BY <1>2, <2>1, <2>2
<1>4. LineSpaced(given, t, l)
  <2> SUFFICES ASSUME NEW i \in DOMAIN given, NEW j \in DOMAIN t, IsNote(t[j])
               PROVE  Near(given[i], MsgOf(t[j]), Len(given) + j - i, l)
    BY DEF LineSpaced
  <2>1. Near(given[i], MsgOf(line[j + 1]), Len(given) + (j + 1) - i, l)
    BY <1>2 DEF Spaced, LineSpaced
  <2>2. given[i].links \in Vectors /\ i \in Int /\ j \in Int /\ Len(given) \in Int
    BY <1>2
  <2>3. Copies(l, given[i].links) \in Nat
    BY <2>2, CopiesAre
  <2>4. \A k \in Nat : Len(given) + (j + 1) - i < k => Len(given) + j - i < k
    BY <2>2
  <2> QED BY <1>2, <2>1, <2>3, <2>4 DEF Near
<1> QED BY <1>3, <1>4 DEF Spaced, t

(* It is a note, and given: so it has the same place as before. *)
LEMMA GivenIsSpaced ==
  ASSUME NEW T, NEW U, NEW line \in Seq(T), line # <<>>, IsNote(Head(line)),
         MsgOf(Head(line)) \in U, NEW given \in Seq(U), NEW l, Spaced(given, line, l)
  PROVE  Spaced(Append(given, MsgOf(Head(line))), Tail(line), l)
<1> DEFINE t == Tail(line)
           e == MsgOf(Head(line))
           g == Append(given, e)
           n == Len(given)
<1>1. /\ DOMAIN line = 1..Len(line) /\ Len(line) \in Nat \ {0} /\ DOMAIN t = 1..(Len(line) - 1)
      /\ \A i \in 1..(Len(line) - 1) : t[i] = line[i + 1]
      /\ Head(line) = line[1]
  OBVIOUS
<1>2. /\ n \in Nat /\ DOMAIN given = 1..n /\ DOMAIN g = 1..(n + 1) /\ Len(g) = n + 1
      /\ \A i \in 1..n : g[i] = given[i]
      /\ g[n + 1] = e
  OBVIOUS
<1>3. e = MsgOf(line[1]) /\ IsNote(line[1]) /\ 1 \in DOMAIN line
  BY <1>1
<1> HIDE DEF t, g, n, e
<1>4. \A i \in DOMAIN t : i \in Int /\ 1 <= i + 1 /\ i + 1 \in DOMAIN line /\ t[i] = line[i + 1]
  BY <1>1
<1>5. GivenSpaced(g, l)
  <2> SUFFICES ASSUME NEW i \in DOMAIN g, NEW j \in DOMAIN g, i <= j
               PROVE  Near(g[i], g[j], j - i, l)
    BY DEF GivenSpaced
  <2>1. CASE j \in 1..n
    <3>1. i \in 1..n
      BY <1>2, <2>1
    <3> QED BY <1>2, <2>1, <3>1 DEF Spaced, GivenSpaced
  <2>2. CASE j = n + 1 /\ i \in 1..n
    <3>1. Near(given[i], MsgOf(line[1]), n + 1 - i, l)
      BY <1>2, <1>3, <2>2 DEF Spaced, LineSpaced, n
    <3> QED BY <1>2, <1>3, <2>2, <3>1
  <2>3. CASE j = n + 1 /\ i = n + 1
    <3>1. Near(MsgOf(line[1]), MsgOf(line[1]), 1 - 1, l)
      BY <1>3 DEF Spaced, DownSpaced
    <3>2. j - i = 1 - 1
      BY <1>2, <2>3
    <3> QED BY <1>2, <1>3, <2>3, <3>1, <3>2
  <2> QED BY <1>2, <2>1, <2>2, <2>3
<1>6. LineSpaced(g, t, l)
  <2> SUFFICES ASSUME NEW i \in DOMAIN g, NEW j \in DOMAIN t, IsNote(t[j])
               PROVE  Near(g[i], MsgOf(t[j]), Len(g) + j - i, l)
    BY DEF LineSpaced
  <2>1. CASE i \in 1..n
    <3>1. Near(given[i], MsgOf(line[j + 1]), n + (j + 1) - i, l)
      BY <1>2, <1>4, <2>1 DEF Spaced, LineSpaced, n
    <3>2. n + (j + 1) - i = Len(g) + j - i
      BY <1>2, <1>4, <2>1
    <3> QED BY <1>2, <1>4, <2>1, <3>1, <3>2
  <2>2. CASE i = n + 1
    <3>1. Near(MsgOf(line[1]), MsgOf(line[j + 1]), (j + 1) - 1, l)
      BY <1>3, <1>4 DEF Spaced, DownSpaced
    <3>2. (j + 1) - 1 = Len(g) + j - i
      BY <1>2, <1>4, <2>2
    <3> QED BY <1>2, <1>3, <1>4, <2>2, <3>1, <3>2
  <2> QED BY <1>2, <2>1, <2>2
<1>7. DownSpaced(t, l)
  <2> SUFFICES ASSUME NEW i \in DOMAIN t, NEW j \in DOMAIN t, i <= j, IsNote(t[i]), IsNote(t[j])
               PROVE  Near(MsgOf(t[i]), MsgOf(t[j]), j - i, l)
    BY DEF DownSpaced
  <2>1. i + 1 <= j + 1 /\ (j + 1) - (i + 1) = j - i
    BY <1>4
  <2>2. Near(MsgOf(line[i + 1]), MsgOf(line[j + 1]), (j + 1) - (i + 1), l)
    BY <1>4, <2>1 DEF Spaced, DownSpaced
  <2> QED BY <1>4, <2>1, <2>2
<1> QED BY <1>5, <1>6, <1>7 DEF Spaced, t, g, e

(* Copies of a packet come to the end of the line: of a note that is later  *)
(* than all before, not more often than the link is in its links.           *)
LEMMA RepeatedSpaced ==
  ASSUME NEW T, NEW line \in Seq(T), NEW p, NEW n \in Nat, n # 0 => p \in T,
         NEW given, NEW l, Spaced(given, line, l), NEW s \in Nat,
         Numbers(line) \cup GivenNumbers(given) \subseteq 1..s,
         n # 0 /\ IsNote(p) => /\ Number(p) \in 1..s
                               /\ Below(Numbers(line) \cup GivenNumbers(given), {Number(p)})
                               /\ n <= Copies(l, MsgOf(p).links)
                               /\ Copies(l, MsgOf(p).links) \in Nat
  PROVE  /\ Spaced(given, line \o Repeated(p, n), l)
         /\ \A a \in Numbers(line \o Repeated(p, n)) :
              a \in Numbers(line) \/ (n # 0 /\ IsNote(p) /\ a = Number(p))
<1> DEFINE t == line \o Repeated(p, n)
<1>1. /\ Len(line) \in Nat /\ DOMAIN line = 1..Len(line) /\ DOMAIN t = 1..(Len(line) + n)
      /\ \A i \in 1..Len(line) : t[i] = line[i]
      /\ \A i \in (Len(line) + 1)..(Len(line) + n) : t[i] = p
  BY Repeats
<1> HIDE DEF t
<1>2. \A i \in DOMAIN t : /\ i \in Int
                          /\ \/ i \in DOMAIN line /\ t[i] = line[i]
                             \/ /\ i \in (Len(line) + 1)..(Len(line) + n)
                                /\ n # 0 /\ t[i] = p
  BY <1>1
<1>3. ASSUME NEW a \in Numbers(line) \cup GivenNumbers(given), n # 0, IsNote(p)
      PROVE  a <= Number(p) /\ a # Number(p)
  BY <1>3 DEF Below
<1>4. DownSpaced(t, l)
  <2> SUFFICES ASSUME NEW i \in DOMAIN t, NEW j \in DOMAIN t, i <= j, IsNote(t[i]), IsNote(t[j])
               PROVE  Near(MsgOf(t[i]), MsgOf(t[j]), j - i, l)
    BY DEF DownSpaced
  <2>1. CASE j \in DOMAIN line
    <3>1. i \in DOMAIN line /\ t[i] = line[i] /\ t[j] = line[j]
      BY <1>1, <2>1
    <3> QED BY <2>1, <3>1 DEF Spaced, DownSpaced
  <2>2. CASE i \in DOMAIN line /\ j \in (Len(line) + 1)..(Len(line) + n)
    <3>1. t[i] = line[i] /\ t[j] = p /\ n # 0
      BY <1>1, <2>2
    <3>2. Number(t[i]) \in Numbers(line)
      BY <2>2, <3>1 DEF Numbers
    <3> QED BY <1>3, <3>1, <3>2 DEF Near, Number
  <2>3. CASE i \in (Len(line) + 1)..(Len(line) + n) /\ j \in (Len(line) + 1)..(Len(line) + n)
    <3>1. t[i] = p /\ t[j] = p /\ n # 0 /\ j - i < n /\ j - i \in Int
      BY <1>1, <2>3
    <3> QED BY <3>1 DEF Near, Number
  <2> QED BY <1>2, <2>1, <2>2, <2>3
<1>5. LineSpaced(given, t, l)
  <2> SUFFICES ASSUME NEW i \in DOMAIN given, NEW j \in DOMAIN t, IsNote(t[j])
               PROVE  Near(given[i], MsgOf(t[j]), Len(given) + j - i, l)
    BY DEF LineSpaced
  <2>1. CASE j \in DOMAIN line /\ t[j] = line[j]
    BY <2>1 DEF Spaced, LineSpaced
  <2>2. CASE t[j] = p /\ n # 0
    <3>1. given[i].number \in GivenNumbers(given)
      BY DEF GivenNumbers
    <3> QED BY <1>3, <2>2, <3>1 DEF Near, Number
  <2> QED BY <1>2, <2>1, <2>2
<1>6. \A i \in DOMAIN t : IsNote(t[i]) =>
        \/ Number(t[i]) \in Numbers(line)
        \/ IsNote(p) /\ n # 0 /\ Number(t[i]) = Number(p)
  BY <1>2 DEF Numbers
<1>7. \A a \in Numbers(t) : a \in Numbers(line) \/ (n # 0 /\ IsNote(p) /\ a = Number(p))
  BY <1>6 DEF Numbers
<1> QED BY <1>4, <1>5, <1>7 DEF Spaced, t

LEMMA AppendOther ==
  ASSUME NEW T, NEW s \in Seq(T), NEW e \in T, ~IsNote(e), InOrder(s)
  PROVE  InOrder(Append(s, e)) /\ Numbers(Append(s, e)) = Numbers(s)
<1>1. /\ DOMAIN Append(s, e) = 1..(Len(s) + 1) /\ DOMAIN s = 1..Len(s) /\ Len(s) \in Nat
      /\ \A i \in 1..Len(s) : Append(s, e)[i] = s[i]
      /\ Append(s, e)[Len(s) + 1] = e
  OBVIOUS
<1>2. \A i \in DOMAIN Append(s, e) :
        IsNote(Append(s, e)[i]) => i \in DOMAIN s /\ Append(s, e)[i] = s[i]
  BY <1>1
<1>3. InOrder(Append(s, e))
  BY <1>2 DEF InOrder
<1>4. \A i \in DOMAIN s : i \in DOMAIN Append(s, e) /\ Append(s, e)[i] = s[i]
  BY <1>1
<1> QED BY <1>2, <1>3, <1>4 DEF Numbers

LEMMA AppendNote ==
  ASSUME NEW T, NEW s \in Seq(T), NEW e \in T, IsNote(e), InOrder(s),
         Below(Numbers(s), {Number(e)})
  PROVE  InOrder(Append(s, e)) /\ Numbers(Append(s, e)) = Numbers(s) \cup {Number(e)}
<1> DEFINE t == Append(s, e)
<1>1. /\ DOMAIN t = 1..(Len(s) + 1) /\ DOMAIN s = 1..Len(s) /\ Len(s) \in Nat
      /\ \A i \in 1..Len(s) : t[i] = s[i]
      /\ t[Len(s) + 1] = e
  OBVIOUS
<1> HIDE DEF t
<1>2. \A i \in DOMAIN s : IsNote(s[i]) => Number(s[i]) \in Numbers(s)
  BY DEF Numbers
<1>3. InOrder(t)
  <2> SUFFICES ASSUME NEW i \in DOMAIN t, NEW j \in DOMAIN t, i < j, IsNote(t[i]), IsNote(t[j])
               PROVE  Number(t[i]) < Number(t[j])
    BY DEF InOrder
  <2>1. i \in DOMAIN s /\ t[i] = s[i]
    BY <1>1
  <2>2. CASE j \in DOMAIN s
    BY <1>1, <2>1, <2>2 DEF InOrder
  <2>3. CASE j = Len(s) + 1
    BY <1>1, <1>2, <2>1, <2>3 DEF Below
  <2> QED BY <1>1, <2>2, <2>3
<1>4. Numbers(t) \subseteq Numbers(s) \cup {Number(e)}
  <2> SUFFICES ASSUME NEW i \in DOMAIN t, IsNote(t[i]) PROVE Number(t[i]) \in Numbers(s) \cup {Number(e)}
    BY DEF Numbers
  <2> QED BY <1>1, <1>2
<1>5. Numbers(s) \cup {Number(e)} \subseteq Numbers(t)
  <2>1. \A i \in DOMAIN s : i \in DOMAIN t /\ t[i] = s[i]
    BY <1>1
  <2>2. Len(s) + 1 \in DOMAIN t
    BY <1>1
  <2> QED BY <1>1, <2>1, <2>2 DEF Numbers
<1> QED BY <1>3, <1>4, <1>5 DEF t

LEMMA TailOrder ==
  ASSUME NEW T, NEW s \in Seq(T), s # <<>>, InOrder(s)
  PROVE  /\ InOrder(Tail(s)) /\ Numbers(Tail(s)) \subseteq Numbers(s)
         /\ IsNote(Head(s)) => /\ Number(Head(s)) \in Numbers(s)
                               /\ Below({Number(Head(s))}, Numbers(Tail(s)))
<1> DEFINE t == Tail(s)
<1>1. /\ DOMAIN s = 1..Len(s) /\ Len(s) \in Nat \ {0} /\ DOMAIN t = 1..(Len(s) - 1)
      /\ \A i \in 1..(Len(s) - 1) : t[i] = s[i + 1]
      /\ Head(s) = s[1]
  OBVIOUS
<1> HIDE DEF t
<1>2. \A i \in DOMAIN t : i \in Int /\ i + 1 \in DOMAIN s /\ t[i] = s[i + 1] /\ 1 < i + 1
  BY <1>1
<1>3. InOrder(t)
  <2> SUFFICES ASSUME NEW i \in DOMAIN t, NEW j \in DOMAIN t, i < j, IsNote(t[i]), IsNote(t[j])
               PROVE  Number(t[i]) < Number(t[j])
    BY DEF InOrder
  <2>1. i + 1 < j + 1
    BY <1>2
  <2> QED BY <1>2, <2>1 DEF InOrder
<1>4. Numbers(t) \subseteq Numbers(s)
  BY <1>2 DEF Numbers
<1>5. ASSUME IsNote(s[1]) PROVE Number(s[1]) \in Numbers(s) /\ Below({Number(s[1])}, Numbers(t))
  <2>1. 1 \in DOMAIN s
    BY <1>1
  <2>2. ASSUME NEW i \in DOMAIN t, IsNote(t[i]) PROVE Number(s[1]) < Number(t[i])
    BY <1>2, <1>5, <2>1, <2>2 DEF InOrder
  <2> QED BY <1>5, <2>1, <2>2 DEF Numbers, Below
<1> QED BY <1>1, <1>3, <1>4, <1>5 DEF t

LEMMA TailNumbers ==
  ASSUME NEW T, NEW s \in Seq(T), s # <<>>
  PROVE  /\ Numbers(Tail(s)) \subseteq Numbers(s)
         /\ IsNote(Head(s)) => Number(Head(s)) \in Numbers(s)
<1>1. /\ 1 \in DOMAIN s /\ Head(s) = s[1]
      /\ \A i \in DOMAIN Tail(s) : i + 1 \in DOMAIN s /\ Tail(s)[i] = s[i + 1]
  OBVIOUS
<1> QED BY <1>1 DEF Numbers

LEMMA NoteTells ==
  ASSUME NEW r, NEW n, NEW link_ids
  PROVE  IsNote(NotePacket(r, n, link_ids)) /\ Number(NotePacket(r, n, link_ids)) = n
<1>1. NotePacket(r, n, link_ids).net = WriteNetInfo(ServerNetInfo(r, link_ids))
  BY DEF NotePacket, BuildRpcPacket
<1>2. MsgOf(NotePacket(r, n, link_ids)) = [number |-> n, links |-> link_ids]
  BY ReadNote DEF Note
<1> QED BY <1>1, <1>2, ReadServerNetInfo, ReadNote DEF IsNote, Number

(* Packets that are not notes come and go, and notes are lost. *)
LEMMA OrderKept ==
  ASSUME OrderInv, UNCHANGED <<notes, sent>>,
         \A r \in Routes : /\ InOrder(from_server'[r])
                           /\ Numbers(from_server'[r]) \subseteq Numbers(from_server[r]),
         \A c \in Channels : down'[c] \in {down[c], <<>>},
         \A c \in Channels : \/ at'[c] = at[c] /\ at[c].route \in Routes
                             \/ down[c] = <<>> /\ notes[c] = <<>>
  PROVE  OrderInv'
<1>1. ASSUME NEW r \in Routes PROVE RouteOrder(r)'
  <2>1. RouteOrder(r)
    BY DEF OrderInv
  <2> QED BY <2>1 DEF RouteOrder
<1>2. ASSUME NEW c \in Channels PROVE LinkOrder(c)' /\ GivenOrder(c)'
  <2>1. LinkOrder(c) /\ GivenOrder(c)
    BY DEF OrderInv
  <2>2. Numbers(down'[c]) \subseteq Numbers(down[c])
    BY NoPackets
  <2>3. CASE at'[c] = at[c] /\ at[c].route \in Routes
    <3>1. Numbers(from_server'[at'[c].route]) \subseteq Numbers(from_server[at[c].route])
      BY <2>3
    <3>2. LinkOrder(c)'
      BY <2>1, <2>2, <3>1 DEF LinkOrder, Below
    <3>3. LinkOf(c)' = LinkOf(c)
      BY <2>3 DEF LinkOf
    <3>4. Spaced(notes[c], down'[c], LinkOf(c))
      BY <2>1, LostSpaced DEF GivenOrder
    <3> QED BY <3>2, <3>3, <3>4 DEF GivenOrder
  <2>4. CASE down[c] = <<>> /\ notes[c] = <<>>
    <3>1. down'[c] = <<>> /\ notes'[c] = <<>>
      BY <2>4
    <3> QED BY <3>1, NoPackets, NoneSpaced DEF LinkOrder, GivenOrder, Below
  <2> QED BY <2>3, <2>4
<1> QED BY <1>1, <1>2 DEF OrderInv

(* What only brings the packets of channels up, or is lost. *)
LEMMA QuietOrder ==
  ASSUME ExchangeInv, OrderInv, UNCHANGED <<notes, sent, at, from_server>>,
         \A c \in Channels : down'[c] \in {down[c], <<>>}
  PROVE  OrderInv'
<1>1. \A r \in Routes : RouteOrder(r)
  BY DEF OrderInv
<1>2. \A r \in Routes : /\ InOrder(from_server'[r])
                        /\ Numbers(from_server'[r]) \subseteq Numbers(from_server[r])
  BY <1>1 DEF RouteOrder
<1>3. \A c \in Channels : at'[c] = at[c] /\ at[c].route \in Routes
  BY DEF ExchangeInv, LinkInv
<1> QED BY <1>2, <1>3, OrderKept

LEMMA TakenOrder ==
  ASSUME ExchangeInv, OrderInv, UNCHANGED <<notes, sent, at>>,
         NEW r \in Routes, from_server[r] # <<>>,
         from_server' = [from_server EXCEPT ![r] = Tail(@)],
         \A c \in Channels : down'[c] \in {down[c], <<>>}
  PROVE  OrderInv'
<1>1. ASSUME NEW k \in Routes
      PROVE  /\ InOrder(from_server'[k])
             /\ Numbers(from_server'[k]) \subseteq Numbers(from_server[k])
  <2>1. RouteOrder(k)
    BY DEF OrderInv
  <2>2. CASE k = r
    <3>1. from_server[r] \in Seq(FromPackets(r)) /\ from_server'[r] = Tail(from_server[r])
      BY DEF ExchangeInv, FromInv
    <3> QED BY <2>1, <2>2, <3>1, TailOrder DEF RouteOrder
  <2>3. CASE k # r
    BY <2>1, <2>3 DEF RouteOrder, ExchangeInv, FromInv
  <2> QED BY <2>2, <2>3
<1>2. \A c \in Channels : at'[c] = at[c] /\ at[c].route \in Routes
  BY DEF ExchangeInv, LinkInv
<1> QED BY <1>1, <1>2, OrderKept

(* The server adds packets that are not notes. *)
LEMMA AddedOrder ==
  ASSUME ExchangeInv, OrderInv, UNCHANGED <<notes, sent, at, down>>,
         \A r \in Routes : \/ from_server'[r] \in {from_server[r], <<>>}
                           \/ \E p : ~IsNote(p) /\ from_server'[r] = Append(from_server[r], p)
  PROVE  OrderInv'
<1>1. ASSUME NEW r \in Routes
      PROVE  /\ InOrder(from_server'[r])
             /\ Numbers(from_server'[r]) \subseteq Numbers(from_server[r])
  <2>1. RouteOrder(r)
    BY DEF OrderInv
  <2>2. CASE from_server'[r] \in {from_server[r], <<>>}
    BY <2>1, <2>2, NoPackets DEF RouteOrder
  <2>3. ASSUME NEW p, ~IsNote(p), from_server'[r] = Append(from_server[r], p)
        PROVE  /\ InOrder(from_server'[r])
               /\ Numbers(from_server'[r]) \subseteq Numbers(from_server[r])
    <3> DEFINE T == FromPackets(r) \cup {p}
    <3>1. from_server[r] \in Seq(FromPackets(r)) /\ FromPackets(r) \subseteq T /\ p \in T
      BY DEF ExchangeInv, FromInv
    <3> HIDE DEF T
    <3>2. from_server[r] \in Seq(T)
      BY <3>1, WiderSeq
    <3>3. /\ InOrder(Append(from_server[r], p))
          /\ Numbers(Append(from_server[r], p)) = Numbers(from_server[r])
      BY <2>1, <2>3, <3>1, <3>2, AppendOther DEF RouteOrder
    <3> QED BY <2>3, <3>3
  <2> QED BY <2>2, <2>3
<1>2. \A c \in Channels : at'[c] = at[c] /\ at[c].route \in Routes
  BY DEF ExchangeInv, LinkInv
<1> QED BY <1>1, <1>2, OrderKept

LEMMA ConnectOrder ==
  ASSUME ExchangeInv, OrderInv, NEW c \in Channels, NEW r \in Routes, NEW s \in Sockets,
         Connect(c, r, s)
  PROVE  OrderInv'
<1>1. /\ UNCHANGED <<notes, sent, from_server, down>> /\ status[c] = "new"
      /\ at' = [at EXCEPT ![c] = [route |-> r, socket |-> s]]
  BY DEF Connect, channel, routes, server
<1>2. \A k \in Routes : RouteOrder(k)
  BY DEF OrderInv
<1>3. \A k \in Routes : /\ InOrder(from_server'[k])
                        /\ Numbers(from_server'[k]) \subseteq Numbers(from_server[k])
  BY <1>1, <1>2 DEF RouteOrder
<1>4. down[c] = <<>> /\ notes[c] = <<>>
  BY <1>1 DEF ExchangeInv, NewInv
<1>5. \A d \in Channels : d # c => at'[d] = at[d] /\ at[d].route \in Routes
  BY <1>1 DEF ExchangeInv, LinkInv
<1> QED BY <1>1, <1>3, <1>4, <1>5, OrderKept

LEMMA ServeOrder ==
  ASSUME ExchangeInv, OrderInv, Serve
  PROVE  OrderInv'
<1> DEFINE entry == Head(packet_queue)
           msg == ReadRequest(entry.binary).msg
           meta == ResponseMeta(entry.rpc_meta, IF msg.from \in Refused THEN msg ELSE NoBytes)
           body == WriteResponse([msg |-> msg])
           packet(r) == BuildRpcPacket(ServerNetInfo(r, SetToBag({entry.link_id})), meta, body)
<1>1. /\ UNCHANGED <<notes, sent, at, down>> /\ packet_queue # <<>>
      /\ SendFromServer(SetToBag({entry.link_id}), meta, body)
  BY DEF Serve, channel, links
<1>2. PICK q \in Asked : entry = Entry(q)
  BY <1>1, TailSeq DEF ExchangeInv, QueueInv, Entries
<1>3. ~IsNote(packet(at[q.from].route))
  <2>1. /\ entry.link_id = LinkOf(q.from) /\ entry.rpc_meta = RequestMeta(q.id)
        /\ entry.binary = Body(q)
    BY <1>2 DEF Entry
  <2>2. msg = q
    BY <2>1, ReadRequestPacket
  <2>3. packet(at[q.from].route) = Answer(q)
    BY <2>1, <2>2 DEF Answer, ErrorFor
  <2>4. RequestId(Answer(q)) # RPC_REQUEST_ID_NULL
    BY <1>2, ReadAnswer DEF Asked, RPC_REQUEST_ID_NULL
  <2> QED BY <2>3, <2>4 DEF IsNote
<1>4. \A r : Own(r, SetToBag({entry.link_id})) # {} => r = at[q.from].route
  BY <1>2, OwnOfOne DEF Entry, Asked, ExchangeInv
<1> HIDE DEF entry, meta, body
<1>5. ASSUME NEW r \in Routes
      PROVE  \/ from_server'[r] \in {from_server[r], <<>>}
             \/ \E p : ~IsNote(p) /\ from_server'[r] = Append(from_server[r], p)
  <2>1. CASE r \in connected /\ Own(r, SetToBag({entry.link_id})) # {}
    <3>1. from_server'[r] = Append(from_server[r], packet(r))
      BY <1>1, <2>1 DEF SendFromServer
    <3>2. r = at[q.from].route
      BY <1>4, <2>1
    <3> QED BY <1>3, <3>1, <3>2
  <2>2. CASE ~ (r \in connected /\ Own(r, SetToBag({entry.link_id})) # {})
    BY <1>1, <2>2 DEF SendFromServer
  <2> QED BY <2>1, <2>2
<1> QED BY <1>1, <1>5, AddedOrder

LEMMA DisconnectOrder ==
  ASSUME ExchangeInv, OrderInv, NEW link_id, Disconnect(link_id)
  PROVE  OrderInv'
<1> DEFINE route == getRouteClinet(link_id)
<1>1. /\ UNCHANGED <<notes, sent, at, down>>
      /\ from_server' = IF route \notin connected THEN from_server
                        ELSE [from_server EXCEPT ![route] = Append(@, DisconnectPacket(link_id))]
  BY DEF Disconnect, channel, links
<1>2. ~IsNote(DisconnectPacket(link_id))
  BY ReadCommand DEF IsNote, DisconnectPacket, eNetType_Route, eNetType_RouteCmd
<1>3. \A r \in Routes : \/ from_server'[r] = from_server[r]
                        \/ from_server'[r] = Append(from_server[r], DisconnectPacket(link_id))
  BY <1>1 DEF ExchangeInv, FromInv
<1> QED BY <1>1, <1>2, <1>3, AddedOrder

(* What does not concern a channel leaves its notes in order. *)
LEMMA OtherOrder ==
  ASSUME ExchangeInv, OrderInv, UNCHANGED <<sent, at>>, NEW c \in Channels,
         down'[c] = down[c], notes'[c] = notes[c],
         \A k \in Routes : Numbers(from_server'[k]) \subseteq Numbers(from_server[k])
  PROVE  LinkOrder(c)' /\ GivenOrder(c)'
<1>1. LinkOrder(c) /\ GivenOrder(c) /\ at[c].route \in Routes
  BY DEF OrderInv, ExchangeInv, LinkInv
<1>2. LinkOf(c)' = LinkOf(c)
  BY DEF LinkOf
<1>3. Numbers(from_server'[at'[c].route]) \subseteq Numbers(from_server[at[c].route])
  BY <1>1
<1> QED BY <1>1, <1>2, <1>3 DEF LinkOrder, GivenOrder, Below

LEMMA DoRequestOrder ==
  ASSUME ExchangeInv, OrderInv, NEW c \in Channels, DoRequestPacket(c)
  PROVE  OrderInv'
<1>1. /\ UNCHANGED <<notes, sent, at, from_server>>
      /\ down[c] # <<>> /\ down' = [down EXCEPT ![c] = Tail(@)]
  BY DEF DoRequestPacket, Receive, links, routes, server
<1>2. \A k \in Routes : RouteOrder(k)'
  BY <1>1 DEF OrderInv, RouteOrder
<1>3. ASSUME NEW d \in Channels PROVE LinkOrder(d)' /\ GivenOrder(d)'
  <2>1. CASE d = c
    <3>1. /\ down[c] \in Seq(DownPackets(c)) /\ down'[c] = Tail(down[c])
          /\ notes[c] \in Seq(NotesOf(c))
          /\ NotesOf(c) \in SUBSET [number : Nat, links : Vectors]
          /\ LinkOrder(c) /\ GivenOrder(c) /\ LinkOf(c)' = LinkOf(c)
      BY <1>1 DEF ExchangeInv, DownInv, NoteInv, OrderInv, LinkOf, NotesOf
    <3>2. Spaced(notes[c], Tail(down[c]), LinkOf(c))
      BY <1>1, <3>1, TakenSpaced DEF GivenOrder
    <3>3. Numbers(Tail(down[c])) \subseteq Numbers(down[c])
      BY <1>1, <3>1, TailNumbers
    <3> QED BY <1>1, <2>1, <3>1, <3>2, <3>3 DEF LinkOrder, GivenOrder, Below
  <2>2. CASE d # c
    BY <1>1, <2>2, OtherOrder DEF ExchangeInv, DownInv
  <2> QED BY <2>1, <2>2
<1> QED BY <1>2, <1>3 DEF OrderInv

(* A route passes its next note on, which is after those it passed on before. *)
LEMMA RouteResponseOrder ==
  ASSUME ExchangeInv, OrderInv, NEW r \in Routes, RouteResponse(r)
  PROVE  OrderInv'
<1> DEFINE packet == Head(from_server[r])
           times(c) == Times(r, c, packet)
<1>1. /\ UNCHANGED <<notes, sent, at>> /\ from_server[r] # <<>>
      /\ from_server' = [from_server EXCEPT ![r] = Tail(@)]
      /\ down' = [c \in Channels |-> down[c] \o Repeated(packet, times(c))]
      /\ GetNetInfo(packet).net_type = eNetType_Route
  BY DEF RouteResponse, FromServer, channel, links, server
<1>2. /\ from_server[r] \in Seq(FromPackets(r)) /\ RouteOrder(r)
      /\ from_server'[r] = Tail(from_server[r])
      /\ \A k \in Routes : k # r => from_server'[k] = from_server[k]
  BY <1>1 DEF ExchangeInv, FromInv, OrderInv
<1>3. /\ InOrder(from_server'[r]) /\ Numbers(from_server'[r]) \subseteq Numbers(from_server[r])
      /\ IsNote(packet) => /\ Number(packet) \in Numbers(from_server[r])
                           /\ Below({Number(packet)}, Numbers(from_server'[r]))
  BY <1>1, <1>2, TailOrder DEF RouteOrder
<1>4. packet \in Answered(AskedVia(r)) \cup NotesVia(r)
  BY <1>1, <1>2, TailSeq, NotACommand
<1>5. ASSUME NEW c \in Channels
      PROVE  /\ times(c) \in Nat /\ (times(c) # 0 => packet \in DownPackets(c))
             /\ times(c) # 0 /\ IsNote(packet) =>
                  /\ at[c].route = r /\ times(c) = Copies(LinkOf(c), MsgOf(packet).links)
                  /\ Copies(LinkOf(c), MsgOf(packet).links) \in Nat
  <2>1. times(c) \in Nat /\ (times(c) # 0 => packet \in DownPackets(c))
    BY <1>4, ForTargets DEF ExchangeInv
  <2>2. ASSUME times(c) # 0, IsNote(packet)
        PROVE  /\ at[c].route = r /\ times(c) = Copies(LinkOf(c), MsgOf(packet).links)
    <3>1. packet \notin Answered(AskedVia(r))
      BY <2>2, ReadAnswer DEF IsNote, Answered, AskedVia, Asked, RPC_REQUEST_ID_NULL
    <3>2. PICK n \in Nat, link_ids \in Vectors : packet = NotePacket(r, n, link_ids)
      BY <1>4, <3>1 DEF NotesVia
    <3>3. MsgOf(packet).links = link_ids
      BY <3>2, ReadNote DEF Note
    <3>4. times(c) = IF status[c] = "open" /\ at[c].route = r
                     THEN Copies(LinkOf(c), link_ids) ELSE 0
      BY <3>2, NoteTimes DEF ExchangeInv
    <3> QED BY <2>2, <3>3, <3>4
  <2> QED BY <2>1, <2>2
<1> HIDE DEF packet, times
<1>6. \A k \in Routes : Numbers(from_server'[k]) \subseteq Numbers(from_server[k])
  BY <1>2, <1>3
<1>7. ASSUME NEW k \in Routes PROVE RouteOrder(k)'
  <2>1. RouteOrder(k)
    BY DEF OrderInv
  <2> QED BY <1>1, <1>2, <1>3, <2>1 DEF RouteOrder
<1>8. ASSUME NEW c \in Channels PROVE LinkOrder(c)' /\ GivenOrder(c)'
  <2>1. LinkOrder(c) /\ GivenOrder(c) /\ at[c].route \in Routes /\ at'[c] = at[c]
    BY <1>1 DEF OrderInv, ExchangeInv, LinkInv
  <2>2. Numbers(from_server'[at'[c].route]) \subseteq Numbers(from_server[at[c].route])
    BY <1>6, <2>1
  <2>3. down[c] \in Seq(DownPackets(c)) /\ sent \in Nat /\ LinkOf(c)' = LinkOf(c)
    BY <1>1 DEF ExchangeInv, DownInv, KnownInv, LinkOf
  <2>4. ASSUME times(c) # 0, IsNote(packet)
        PROVE  /\ at[c].route = r /\ Number(packet) \in 1..sent
               /\ Below(Numbers(down[c]) \cup GivenNumbers(notes[c]), {Number(packet)})
               /\ times(c) <= Copies(LinkOf(c), MsgOf(packet).links)
               /\ Copies(LinkOf(c), MsgOf(packet).links) \in Nat
    <3>1. at[c].route = r /\ Number(packet) \in Numbers(from_server[r])
      BY <1>3, <1>5, <2>4
    <3>2. Number(packet) \in 1..sent
      BY <1>2, <3>1 DEF RouteOrder
    <3>3. Below(Numbers(down[c]) \cup GivenNumbers(notes[c]), {Number(packet)})
      BY <2>1, <3>1 DEF LinkOrder, Below
    <3>4. /\ times(c) <= Copies(LinkOf(c), MsgOf(packet).links)
          /\ Copies(LinkOf(c), MsgOf(packet).links) \in Nat
      BY <1>5, <2>4
    <3> QED BY <3>1, <3>2, <3>3, <3>4
  <2>5. Numbers(down[c]) \cup GivenNumbers(notes[c]) \subseteq 1..sent
    BY <2>1 DEF LinkOrder
  <2>6. /\ Spaced(notes[c], down'[c], LinkOf(c))
        /\ \A a \in Numbers(down'[c]) :
             a \in Numbers(down[c]) \/ (times(c) # 0 /\ IsNote(packet) /\ a = Number(packet))
    <3> DEFINE n == times(c)
               T == DownPackets(c)
               line == down[c]
               given == notes[c]
               l == LinkOf(c)
    <3>1. down'[c] = line \o Repeated(packet, n)
      BY <1>1
    <3>2. line \in Seq(T) /\ n \in Nat /\ (n # 0 => packet \in T) /\ sent \in Nat
      BY <1>5, <2>3
    <3>3. Spaced(given, line, l) /\ Numbers(line) \cup GivenNumbers(given) \subseteq 1..sent
      BY <2>1, <2>5 DEF GivenOrder
    <3>4. n # 0 /\ IsNote(packet) => /\ Number(packet) \in 1..sent
                                     /\ Below(Numbers(line) \cup GivenNumbers(given), {Number(packet)})
                                     /\ n <= Copies(l, MsgOf(packet).links)
                                     /\ Copies(l, MsgOf(packet).links) \in Nat
      BY <2>4
    <3> HIDE DEF n, T, line, given, l
    <3>5. /\ Spaced(given, line \o Repeated(packet, n), l)
          /\ \A a \in Numbers(line \o Repeated(packet, n)) :
               a \in Numbers(line) \/ (n # 0 /\ IsNote(packet) /\ a = Number(packet))
      BY <3>2, <3>3, <3>4, RepeatedSpaced
    <3> QED BY <3>1, <3>5 DEF n, line, given, l
  <2>7. ASSUME times(c) # 0, IsNote(packet)
        PROVE  /\ Number(packet) \in 1..sent
               /\ Below({Number(packet)}, Numbers(from_server'[at'[c].route]))
    BY <1>3, <2>1, <2>4, <2>7
  <2>8. LinkOrder(c)'
    BY <1>1, <2>1, <2>2, <2>5, <2>6, <2>7 DEF LinkOrder, Below
  <2> QED BY <1>1, <2>3, <2>6, <2>8 DEF GivenOrder
<1> QED BY <1>7, <1>8 DEF OrderInv

(* A new note has a higher number than those before it. *)
LEMMA SendRpcMessageOrder ==
  ASSUME ExchangeInv, OrderInv, NEW link_ids, SendRpcMessage(link_ids)
  PROVE  OrderInv'
<1> DEFINE n == sent + BagCardinality(link_ids)
           packet(r) == NotePacket(r, n, link_ids)
<1>1. /\ UNCHANGED <<notes, at, down>> /\ sent' = n /\ sent \in Nat
      /\ BagCardinality(link_ids) \in 1..(MaxUnasked - sent - Len(unwanted))
      /\ SendFromServer(link_ids, NoteMeta, WriteResponse([msg |-> Note(sent', link_ids)]))
  BY DEF SendRpcMessage, channel, links, ExchangeInv, KnownInv
<1>2. \A r : IsNote(packet(r)) /\ Number(packet(r)) = n
  BY NoteTells
<1>3. n \in Nat /\ sent < n
  <2>1. Len(unwanted) \in Nat /\ MaxUnasked \in Nat
    BY ExchangeConstants DEF ExchangeInv, KnownInv
  <2>2. \A m \in Int : \A k \in 1..m : k \in Nat /\ k > 0
    OBVIOUS
  <2>3. BagCardinality(link_ids) \in Nat /\ BagCardinality(link_ids) > 0
    BY <1>1, <2>1, <2>2
  <2> QED BY <1>1, <2>3
<1> HIDE DEF n
<1>4. from_server' = [r \in Routes |->
           IF r \in connected /\ Own(r, link_ids) # {}
           THEN Append(from_server[r], packet(r)) ELSE from_server[r]]
  BY <1>1 DEF SendFromServer, NotePacket
<1> HIDE DEF packet
<1>5. 1..sent \subseteq 1..sent' /\ n \in 1..sent' /\ Below(1..sent, {n})
  BY <1>1, <1>3 DEF Below
<1>6. ASSUME NEW r \in Routes
      PROVE  /\ RouteOrder(r)'
             /\ Numbers(from_server'[r]) \subseteq Numbers(from_server[r]) \cup {n}
  <2>1. RouteOrder(r) /\ Below(Numbers(from_server[r]), {n})
    BY <1>5 DEF OrderInv, RouteOrder, Below
  <2>2. CASE from_server'[r] = Append(from_server[r], packet(r))
    <3> DEFINE T == FromPackets(r) \cup {packet(r)}
    <3>1. from_server[r] \in Seq(FromPackets(r)) /\ FromPackets(r) \subseteq T /\ packet(r) \in T
      BY DEF ExchangeInv, FromInv
    <3> HIDE DEF T
    <3>2. from_server[r] \in Seq(T)
      BY <3>1, WiderSeq
    <3>3. /\ InOrder(from_server'[r])
          /\ Numbers(from_server'[r]) = Numbers(from_server[r]) \cup {n}
      BY <1>2, <2>1, <2>2, <3>1, <3>2, AppendNote DEF RouteOrder
    <3> QED BY <1>5, <2>1, <3>3 DEF RouteOrder
  <2>3. CASE from_server'[r] = from_server[r]
    BY <1>5, <2>1, <2>3 DEF RouteOrder
  <2> QED BY <1>4, <2>2, <2>3
<1>7. ASSUME NEW c \in Channels PROVE LinkOrder(c)' /\ GivenOrder(c)'
  <2>1. LinkOrder(c) /\ GivenOrder(c) /\ at[c].route \in Routes /\ at'[c] = at[c]
    BY <1>1 DEF OrderInv, ExchangeInv, LinkInv
  <2>2. Numbers(from_server'[at'[c].route]) \subseteq Numbers(from_server[at[c].route]) \cup {n}
    BY <1>6, <2>1
  <2>3. Below(Numbers(down[c]) \cup GivenNumbers(notes[c]), {n})
    BY <1>5, <2>1 DEF LinkOrder, Below
  <2>4. LinkOrder(c)'
    BY <1>1, <1>5, <2>1, <2>2, <2>3 DEF LinkOrder, Below
  <2>5. LinkOf(c)' = LinkOf(c)
    BY <2>1 DEF LinkOf
  <2> QED BY <1>1, <2>1, <2>4, <2>5 DEF GivenOrder
<1> QED BY <1>6, <1>7 DEF OrderInv

(* A channel is given the first of its notes. *)
LEMMA DoRegisterOrder ==
  ASSUME ExchangeInv, OrderInv, NEW c \in Channels, DoRegisterPacket(c)
  PROVE  OrderInv'
<1> DEFINE packet == Head(down[c])
<1>1. /\ UNCHANGED <<sent, at, from_server>>
      /\ down[c] # <<>> /\ down' = [down EXCEPT ![c] = Tail(@)]
      /\ RequestId(packet) = RPC_REQUEST_ID_NULL
      /\ notes' = [notes EXCEPT ![c] = Append(@, MsgOf(packet))]
  BY DEF DoRegisterPacket, Receive, links, routes, server
<1>2. /\ down[c] \in Seq(DownPackets(c)) /\ down'[c] = Tail(down[c])
      /\ notes[c] \in Seq(NotesOf(c)) /\ notes'[c] = Append(notes[c], MsgOf(packet))
  BY <1>1 DEF ExchangeInv, DownInv, NoteInv
<1>3. IsNote(packet)
  <2>1. packet \in DownPackets(c)
    BY <1>1, <1>2, TailSeq
  <2>2. packet \in NotesFor(c)
    <3>1. ASSUME NEW q \in AskedOver(c), packet = Answer(q) PROVE FALSE
      BY <1>1, <3>1, ReadAnswer DEF AskedOver, Asked, RPC_REQUEST_ID_NULL
    <3> QED BY <2>1, <3>1 DEF DownPackets, Answered
  <2> QED BY <2>2, NoteTells DEF NotesFor
<1>4. LinkOrder(c) /\ GivenOrder(c) /\ LinkOf(c)' = LinkOf(c)
  BY <1>1 DEF OrderInv, LinkOf
<1>5. /\ Numbers(Tail(down[c])) \subseteq Numbers(down[c])
      /\ Number(packet) \in Numbers(down[c])
  BY <1>1, <1>2, <1>3, TailNumbers
<1> DEFINE U == NotesOf(c) \cup {MsgOf(packet)}
<1>6. notes[c] \in Seq(U) /\ MsgOf(packet) \in U
  <2>1. NotesOf(c) \subseteq U
    OBVIOUS
  <2> HIDE DEF U
  <2>2. notes[c] \in Seq(U)
    BY <1>2, <2>1, WiderSeq
  <2> QED BY <2>2 DEF U
<1> HIDE DEF U
<1>7. Spaced(notes'[c], down'[c], LinkOf(c))
  BY <1>1, <1>2, <1>3, <1>4, <1>6, GivenIsSpaced DEF GivenOrder
<1>8. GivenNumbers(notes'[c]) \subseteq GivenNumbers(notes[c]) \cup {Number(packet)}
  <2>1. /\ DOMAIN notes'[c] = 1..(Len(notes[c]) + 1) /\ DOMAIN notes[c] = 1..Len(notes[c])
        /\ \A i \in 1..Len(notes[c]) : notes'[c][i] = notes[c][i]
        /\ notes'[c][Len(notes[c]) + 1] = MsgOf(packet) /\ Len(notes[c]) \in Nat
    BY <1>2, <1>6
  <2>2. \A i \in DOMAIN notes'[c] : \/ i \in DOMAIN notes[c] /\ notes'[c][i] = notes[c][i]
                                    \/ notes'[c][i] = MsgOf(packet)
    BY <2>1
  <2> QED BY <2>2 DEF GivenNumbers, Number
<1> HIDE DEF packet
<1>9. \A k \in Routes : RouteOrder(k)'
  BY <1>1 DEF OrderInv, RouteOrder
<1>10. ASSUME NEW d \in Channels PROVE LinkOrder(d)' /\ GivenOrder(d)'
  <2>1. CASE d = c
    <3>1. at'[c] = at[c] /\ from_server' = from_server /\ sent' = sent
      BY <1>1
    <3>2. LinkOrder(c)'
      BY <1>2, <1>4, <1>5, <1>8, <3>1 DEF LinkOrder, Below
    <3> QED BY <1>4, <1>7, <2>1, <3>2 DEF GivenOrder
  <2>2. CASE d # c
    <3>1. down'[d] = down[d] /\ notes'[d] = notes[d]
      BY <1>1, <2>2 DEF ExchangeInv, DownInv, NoteInv
    <3> QED BY <1>1, <3>1, OtherOrder
  <2> QED BY <2>1, <2>2
<1> QED BY <1>9, <1>10 DEF OrderInv

LEMMA CloseOrder ==
  ASSUME NEW S, Close(S)
  PROVE  at' = at /\ \A c \in Channels : down'[c] \in {down[c], <<>>}
  BY DEF Close

LEMMA StepOrder == ExchangeInv /\ OrderInv /\ [Next]_vars => OrderInv'
<1> SUFFICES ASSUME ExchangeInv, OrderInv, [Next]_vars PROVE OrderInv'
  OBVIOUS
<1>1. CASE UNCHANGED vars
  BY <1>1, QuietOrder DEF vars, channel, links, routes, server
<1>2. ASSUME NEW c \in Channels, NEW r \in Routes, NEW s \in Sockets, Connect(c, r, s)
      PROVE  OrderInv'
  BY <1>2, ConnectOrder
<1>3. ASSUME NEW c \in Channels, CallMethod(c) PROVE OrderInv'
  BY <1>3, QuietOrder DEF CallMethod, links, routes, server
<1>4. ASSUME NEW c \in Channels, Leave(c) PROVE OrderInv'
  BY <1>4, CloseOrder, QuietOrder DEF Leave, channel, routes, server
<1>5. ASSUME NEW c \in Channels, NEW id, Timeout(c, id) PROVE OrderInv'
  BY <1>5, QuietOrder DEF Timeout, links, routes, server
<1>6. ASSUME NEW c \in Channels, RouteRequest(c) PROVE OrderInv'
  BY <1>6, QuietOrder DEF RouteRequest, channel, links, server
<1>7. ASSUME NEW c \in Channels, ParsePacket(c) PROVE OrderInv'
  BY <1>7, DoRequestOrder, DoRegisterOrder DEF ParsePacket
<1>8. ASSUME NEW r \in Routes, RouteOnReceive(r) PROVE OrderInv'
  <2>1. CASE RouteResponse(r)
    BY <2>1, RouteResponseOrder
  <2>2. CASE ServerServiceRegister(r)
    BY <2>2, TakenOrder DEF ServerServiceRegister, FromServerCmd, FromServer, channel, links, server
  <2>3. CASE ServerDisconnectChannelFunc(r)
    <3>1. at' = at /\ \A c \in Channels : down'[c] \in {down[c], <<>>}
      BY <2>3, CloseOrder DEF ServerDisconnectChannelFunc
    <3> QED BY <2>3, <3>1, TakenOrder
           DEF ServerDisconnectChannelFunc, FromServerCmd, FromServer, channel, server
  <2> QED BY <1>8, <2>1, <2>2, <2>3 DEF RouteOnReceive
<1>9. ASSUME NEW r \in Routes, ReceiveRoutePacket(r) PROVE OrderInv'
  BY <1>9, QuietOrder DEF ReceiveRoutePacket, channel, links
<1>10. ASSUME Serve PROVE OrderInv'
  BY <1>10, ServeOrder
<1>11. ASSUME NEW r \in Routes, OnDisconnect(r) PROVE OrderInv'
  <2>1. /\ UNCHANGED <<notes, sent, at, down>>
        /\ from_server' = [from_server EXCEPT ![r] = <<>>]
    BY <1>11 DEF OnDisconnect, channel, links, server
  <2>2. \A k \in Routes : from_server'[k] \in {from_server[k], <<>>}
    BY <2>1 DEF ExchangeInv, FromInv
  <2> QED BY <2>1, <2>2, AddedOrder
<1>12. ASSUME NEW link_ids, SendRpcMessage(link_ids) PROVE OrderInv'
  BY <1>12, SendRpcMessageOrder
<1>13. ASSUME NEW link_id, Disconnect(link_id) PROVE OrderInv'
  BY <1>13, DisconnectOrder
<1> QED BY <1>1, <1>2, <1>3, <1>4, <1>5, <1>6, <1>7, <1>8, <1>9, <1>10, <1>11, <1>12, <1>13
       DEF Next, Handle

LEMMA InitOrder == Init => OrderInv
<1> SUFFICES ASSUME Init PROVE OrderInv
  OBVIOUS
<1>1. ASSUME NEW r \in Routes
      PROVE  InOrder(from_server[r]) /\ Numbers(from_server[r]) = {}
  <2>1. ~IsNote(RegisterService)
    BY ReadCommand DEF IsNote, RegisterService, eNetType_Route, eNetType_RouteCmd
  <2>2. \A i \in DOMAIN from_server[r] : from_server[r][i] = RegisterService
    BY DEF Init
  <2> QED BY <2>1, <2>2 DEF InOrder, Numbers
<1>2. ASSUME NEW c \in Channels
      PROVE  Numbers(down[c]) \cup GivenNumbers(notes[c]) = {} /\ GivenOrder(c)
  BY NoPackets, NoneSpaced DEF Init, GivenOrder
<1> QED BY <1>1, <1>2 DEF OrderInv, RouteOrder, LinkOrder, Below

(* A channel is given notes for its link only, in the order in which the    *)
(* server sent them, and none more often than the link is in its links.     *)
THEOREM NotesStayMine == Spec => []NotesAreMine
<1>1. ASSUME ExchangeInv, OrderInv PROVE NotesAreMine
  <2> SUFFICES ASSUME NEW c \in Channels, NEW i \in DOMAIN notes[c], NEW j \in DOMAIN notes[c]
               PROVE  /\ BagIn(LinkOf(c), notes[c][i].links)
                      /\ i < j => notes[c][i].number <= notes[c][j].number
                      /\ i <= j /\ notes[c][i].number = notes[c][j].number =>
                           j - i < Copies(LinkOf(c), notes[c][i].links)
    BY DEF NotesAreMine
  <2>1. notes[c] \in Seq(NotesOf(c)) /\ GivenSpaced(notes[c], LinkOf(c))
    BY <1>1 DEF ExchangeInv, NoteInv, OrderInv, GivenOrder, Spaced
  <2>2. notes[c][i] \in NotesOf(c) /\ (i < j => i <= j)
    BY <2>1
  <2> QED BY <2>1, <2>2, BagsAre DEF NotesOf, GivenSpaced, Near
<1> QED BY <1>1, InitOrder, StepOrder, ExchangeInvariant, PTL DEF Spec
-----------------------------------------------------------------------------
(* The rest of the types: what a channel waits for it has asked, and a      *)
(* route knows no other service than the one there is.                      *)
CallsInv ==
  /\ DOMAIN waiting = Channels
  /\ \A c \in Channels :
       /\ request_id[c] <= MaxRequests /\ waiting[c] \subseteq 1..request_id[c]
       /\ \A a \in answers[c] : /\ a = [id |-> a.id, error |-> a.error, msg |-> a.msg]
                                /\ a.id \in 1..request_id[c]
ServicesInv == service_2info \in [Routes -> SUBSET {EchoService}] /\ connected \subseteq Routes
SentInv == sent + Len(unwanted) <= MaxUnasked
TypeInv == CallsInv /\ ServicesInv /\ SentInv

LEMMA ReadRegisterService ==
  ReadRouteServiceInfo(Command(RegisterService).request_binary).name = EchoService
<1> DEFINE m == [name |-> EchoService, addr |-> NoBytes]
<1>1. m = [field \in DOMAIN RouteServiceInfo |-> m[field]]
  BY DEF RouteServiceInfo
<1>2. ReadRouteServiceInfo(WriteRouteServiceInfo(m)) = m
  BY <1>1, RoundTrip DEF ReadRouteServiceInfo, WriteRouteServiceInfo
<1> QED BY <1>2, ReadCommand DEF RegisterService

LEMMA CallMethodCalls ==
  ASSUME ExchangeInv, CallsInv, NEW c \in Channels, CallMethod(c)
  PROVE  CallsInv'
<1>1. /\ request_id[c] < MaxRequests /\ answers' = answers
      /\ request_id' = [request_id EXCEPT ![c] = request_id[c] + 1]
      /\ waiting' = [waiting EXCEPT ![c] = @ \cup {request_id[c] + 1}]
  BY DEF CallMethod
<1>2. request_id \in [Channels -> Nat] /\ MaxRequests \in Nat
  BY ExchangeConstants DEF ExchangeInv, LinkInv
<1>3. DOMAIN waiting' = Channels
  BY <1>1 DEF CallsInv
<1>4. ASSUME NEW d \in Channels
      PROVE  /\ request_id'[d] <= MaxRequests /\ waiting'[d] \subseteq 1..request_id'[d]
             /\ \A a \in answers'[d] : /\ a = [id |-> a.id, error |-> a.error, msg |-> a.msg]
                                       /\ a.id \in 1..request_id'[d]
  <2>1. CASE d = c
    <3>1. request_id'[c] = request_id[c] + 1 /\ waiting'[c] = waiting[c] \cup {request_id[c] + 1}
      BY <1>1, <1>2 DEF CallsInv
    <3>2. 1..request_id[c] \subseteq 1..request_id'[c] /\ request_id[c] + 1 \in 1..request_id'[c]
      BY <1>2, <3>1
    <3> QED BY <1>1, <1>2, <2>1, <3>1, <3>2 DEF CallsInv
  <2>2. CASE d # c
    BY <1>1, <1>2, <2>2 DEF CallsInv
  <2> QED BY <2>1, <2>2
<1> QED BY <1>3, <1>4 DEF CallsInv

LEMMA DoRequestCalls ==
  ASSUME ExchangeInv, CallsInv, NEW c \in Channels, DoRequestPacket(c)
  PROVE  CallsInv'
<1> DEFINE packet == Head(down[c])
           id == RequestId(packet)
           error == ErrorOf(packet)
           msg == IF error # NoBytes THEN response.msg ELSE MsgOf(packet)
           answer == [id |-> id, error |-> error, msg |-> msg]
<1>1. /\ request_id' = request_id
      /\ answers' = IF id \in waiting[c] THEN [answers EXCEPT ![c] = @ \cup {answer}] ELSE answers
      /\ waiting' = [waiting EXCEPT ![c] = @ \ {id}]
  BY DEF DoRequestPacket
<1>2. answer = [id |-> answer.id, error |-> answer.error, msg |-> answer.msg] /\ answer.id = id
  OBVIOUS
<1> HIDE DEF answer, id
<1>3. ASSUME NEW d \in Channels, NEW a \in answers'[d]
      PROVE  a = [id |-> a.id, error |-> a.error, msg |-> a.msg] /\ a.id \in 1..request_id[d]
  <2>1. a \in answers[d] \/ (d = c /\ a = answer /\ id \in waiting[c])
    BY <1>1, <1>3 DEF ExchangeInv, AnswerInv
  <2>2. CASE d = c /\ a = answer /\ id \in waiting[c]
    BY <1>2, <2>2 DEF CallsInv
  <2> QED BY <2>1, <2>2 DEF CallsInv
<1>4. \A d \in Channels : waiting'[d] \subseteq waiting[d]
  BY <1>1 DEF CallsInv
<1> QED BY <1>1, <1>3, <1>4 DEF CallsInv

LEMMA RegisterServices ==
  ASSUME ExchangeInv, ServicesInv, NEW r \in Routes, ServerServiceRegister(r)
  PROVE  ServicesInv'
<1> DEFINE packet == Head(from_server[r])
           info == ReadRouteServiceInfo(Command(packet).request_binary)
<1>1. /\ from_server[r] # <<>> /\ GetNetInfo(packet).net_type = eNetType_RouteCmd
      /\ Command(packet).cmd = eRouteCmd_Server_ServiceRegister
      /\ service_2info' = [service_2info EXCEPT ![r] = @ \cup {info.name}]
      /\ connected' = connected
  BY DEF ServerServiceRegister, FromServerCmd, FromServer
<1>2. packet \in FromPackets(r)
  BY <1>1, TailSeq DEF ExchangeInv, FromInv
<1>3. packet \notin Answered(AskedVia(r)) \cup NotesVia(r)
  BY <1>1, NotACall
<1>4. packet \notin Disconnects(r)
  <2> SUFFICES ASSUME NEW l, packet = DisconnectPacket(l) PROVE FALSE
    BY DEF Disconnects
  <2>1. Command(packet).cmd = eRouteCmd_Server_DisconnectChannel
    BY ReadDisconnectPacket
  <2> QED BY <1>1, <2>1 DEF eRouteCmd_Server_DisconnectChannel, eRouteCmd_Server_ServiceRegister
<1>5. packet = RegisterService
  BY <1>2, <1>3, <1>4 DEF FromPackets
<1>6. info.name = EchoService
  BY <1>5, ReadRegisterService
<1> QED BY <1>1, <1>6 DEF ServicesInv

LEMMA StepTypes == ExchangeInv /\ TypeInv /\ [Next]_vars => TypeInv'
<1> SUFFICES ASSUME ExchangeInv, TypeInv, [Next]_vars PROVE TypeInv'
  OBVIOUS
<1> USE DEF TypeInv
<1> DEFINE Calls == <<request_id, waiting, answers>>
           Services == <<service_2info, connected>>
           Sent == <<sent, unwanted>>
<1>1. /\ UNCHANGED Calls => CallsInv'
      /\ UNCHANGED Services => ServicesInv'
      /\ UNCHANGED Sent => SentInv'
  BY DEF CallsInv, ServicesInv, SentInv
<1>2. UNCHANGED Calls /\ UNCHANGED Services /\ UNCHANGED Sent => TypeInv'
  BY <1>1
<1>3. CASE UNCHANGED vars
  BY <1>2, <1>3 DEF vars, channel, services, server
<1>4. ASSUME NEW c \in Channels, NEW r, NEW s, Connect(c, r, s) PROVE TypeInv'
  BY <1>2, <1>4 DEF Connect, channel, services, server
<1>5. ASSUME NEW c \in Channels, CallMethod(c) PROVE TypeInv'
  BY <1>1, <1>5, CallMethodCalls DEF CallMethod, services, server
<1>6. ASSUME NEW c \in Channels, Leave(c) \/ RouteRequest(c) PROVE TypeInv'
  BY <1>2, <1>6 DEF Leave, RouteRequest, channel, services, server
<1>7. ASSUME NEW c \in Channels, NEW id, Timeout(c, id) PROVE TypeInv'
  <2>1. /\ waiting' = [waiting EXCEPT ![c] = @ \ {id}]
        /\ UNCHANGED <<request_id, answers, services, server>>
    BY <1>7 DEF Timeout
  <2>2. CallsInv'
    BY <2>1 DEF CallsInv
  <2> QED BY <1>1, <2>1, <2>2 DEF services, server
<1>8. ASSUME NEW c \in Channels, ParsePacket(c) PROVE TypeInv'
  <2>1. CASE DoRequestPacket(c)
    BY <1>1, <2>1, DoRequestCalls DEF DoRequestPacket, services, server
  <2>2. CASE DoRegisterPacket(c)
    BY <1>2, <2>2 DEF DoRegisterPacket, services, server
  <2> QED BY <1>8, <2>1, <2>2 DEF ParsePacket
<1>9. ASSUME NEW r \in Routes, RouteOnReceive(r) PROVE TypeInv'
  <2>1. CASE RouteResponse(r) \/ ServerDisconnectChannelFunc(r)
    BY <1>2, <2>1 DEF RouteResponse, ServerDisconnectChannelFunc, channel, services, server
  <2>2. CASE ServerServiceRegister(r)
    BY <1>1, <2>2, RegisterServices DEF ServerServiceRegister, channel, server
  <2> QED BY <1>9, <2>1, <2>2 DEF RouteOnReceive
<1>10. ASSUME NEW r \in Routes, ReceiveRoutePacket(r) PROVE TypeInv'
  BY <1>2, <1>10 DEF ReceiveRoutePacket, channel, services
<1>11. ASSUME NEW r \in Routes, OnDisconnect(r) PROVE TypeInv'
  <2>1. /\ connected' = connected \ {r} /\ service_2info' = [service_2info EXCEPT ![r] = {}]
        /\ UNCHANGED <<channel, server>>
    BY <1>11 DEF OnDisconnect
  <2>2. ServicesInv'
    BY <2>1 DEF ServicesInv
  <2> QED BY <1>1, <2>1, <2>2 DEF channel, server
<1>12. ASSUME Serve PROVE TypeInv'
  BY <1>2, <1>12 DEF Serve, channel, services
<1>13. ASSUME NEW link_ids, SendRpcMessage(link_ids) PROVE TypeInv'
  <2>1. /\ BagCardinality(link_ids) \in 1..(MaxUnasked - sent - Len(unwanted))
        /\ sent' = sent + BagCardinality(link_ids) /\ UNCHANGED <<channel, services, unwanted>>
    BY <1>13 DEF SendRpcMessage
  <2>2. sent \in Nat /\ Len(unwanted) \in Nat /\ MaxUnasked \in Nat
    BY ExchangeConstants DEF ExchangeInv, KnownInv
  <2>3. sent' + Len(unwanted) <= MaxUnasked
    BY <2>1, <2>2
  <2>4. SentInv'
    BY <2>1, <2>3 DEF SentInv
  <2> QED BY <1>1, <2>1, <2>4 DEF channel, services
<1>14. ASSUME NEW link_id \in known, Disconnect(link_id) PROVE TypeInv'
  <2>1. /\ sent + Len(unwanted) < MaxUnasked /\ unwanted' = Append(unwanted, link_id)
        /\ UNCHANGED <<channel, services, sent>>
    BY <1>14 DEF Disconnect
  <2>2. link_id \in Int /\ unwanted \in Seq(Int) /\ sent \in Nat
    BY LinkTells DEF ExchangeInv, KnownInv, Linked
  <2>3. SentInv'
    BY <2>1, <2>2, ExchangeConstants DEF SentInv
  <2> QED BY <1>1, <2>1, <2>3 DEF channel, services
<1> QED BY <1>3, <1>4, <1>5, <1>6, <1>7, <1>8, <1>9, <1>10, <1>11, <1>12, <1>13, <1>14
       DEF Next, Handle

LEMMA InitTypes == Init => TypeInv
  BY ExchangeConstants DEF Init, TypeInv, CallsInv, ServicesInv, SentInv

LEMMA InvTypes ==
  ASSUME ExchangeInv, OrderInv, TypeInv
  PROVE  TypeOK
<1> USE DEF ExchangeInv, TypeInv
<1>1. request_id \in [Channels -> 0..MaxRequests]
  BY ExchangeConstants DEF LinkInv, CallsInv
<1>2. ASSUME NEW c \in Channels PROVE waiting[c] \subseteq 1..request_id[c]
  BY DEF CallsInv
<1>3. ASSUME NEW c \in Channels
      PROVE  answers[c] \subseteq [id : 1..request_id[c], error : Requests \cup {NoBytes},
                                   msg : Requests \cup {NoBytes}]
  <2> SUFFICES ASSUME NEW a \in answers[c]
               PROVE  a \in [id : 1..request_id[c], error : Requests \cup {NoBytes},
                             msg : Requests \cup {NoBytes}]
    OBVIOUS
  <2>1. a = [id |-> a.id, error |-> a.error, msg |-> a.msg] /\ a.id \in 1..request_id[c]
    BY DEF CallsInv
  <2>2. PICK d \in SameLink(c) :
          /\ a.id \in 1..request_id[d]
          /\ \/ a.error = NoBytes /\ a.msg = Asks(d, a.id)
             \/ a.error = Asks(d, a.id) /\ a.msg = NoBytes
    BY DEF AnswerInv, AnswerIsMine
  <2>3. Asks(d, a.id) \in Requests
    BY <2>2 DEF SameLink, Requests
  <2>4. a.error \in Requests \cup {NoBytes} /\ a.msg \in Requests \cup {NoBytes}
    BY <2>2, <2>3
  <2> QED BY <2>1, <2>4
<1>4. ASSUME NEW c \in Channels PROVE notes[c] \in Seq(Notes)
  <2>1. notes[c] \in Seq(NotesOf(c)) /\ GivenNumbers(notes[c]) \subseteq 1..sent
    BY DEF NoteInv, OrderInv, LinkOrder
  <2>2. ASSUME NEW i \in 1..Len(notes[c]) PROVE notes[c][i] \in Notes
    <3>1. notes[c][i] \in [number : Nat, links : Vectors]
      BY <2>1 DEF NotesOf
    <3>2. notes[c][i].number \in 1..sent
      BY <2>1 DEF GivenNumbers
    <3> QED BY <3>1, <3>2 DEF Notes
  <2> QED BY <2>1, <2>2
<1>5. packet_queue \in Seq([link_id : {LinkOf(c) : c \in Channels},
                            rpc_meta : {RequestMeta(id) : id \in 1..MaxRequests},
                            binary : {WriteRequest([msg |-> m]) : m \in Requests}])
  <2> DEFINE T == [link_id : {LinkOf(c) : c \in Channels},
                   rpc_meta : {RequestMeta(id) : id \in 1..MaxRequests},
                   binary : {WriteRequest([msg |-> m]) : m \in Requests}]
  <2>1. ASSUME NEW q \in Asked PROVE Entry(q) \in T
    <3>1. /\ q \in [from : Channels, id : Nat \ {0}] /\ q.from \in Channels
          /\ q.id \in Nat \ {0} /\ q.id <= request_id[q.from]
      BY DEF Asked
    <3>2. q = Asks(q.from, q.id)
      BY <3>1 DEF Asks
    <3>3. request_id[q.from] \in 0..MaxRequests /\ MaxRequests \in Nat
      BY <1>1, <3>1, ExchangeConstants
    <3>4. q.id \in 1..request_id[q.from] /\ q.id \in 1..MaxRequests
      BY <3>1, <3>3
    <3>5. q \in Requests
      BY <3>1, <3>2, <3>4 DEF Requests
    <3> QED BY <3>1, <3>4, <3>5 DEF Entry, Body
  <2> HIDE DEF T
  <2>2. Entries \subseteq T
    BY <2>1 DEF Entries
  <2>3. packet_queue \in Seq(T)
    BY <2>2, WiderSeq DEF QueueInv
  <2> QED BY <2>3 DEF T
<1>6. known \subseteq {LinkOf(c) : c \in Channels}
  BY DEF KnownInv, Linked
<1>7. sent \in Nat /\ Range(unwanted) \subseteq known /\ sent + Len(unwanted) <= MaxUnasked
  BY ExchangeConstants DEF KnownInv, SentInv
<1> QED BY <1>1, <1>2, <1>3, <1>4, <1>5, <1>6, <1>7 DEF TypeOK, LinkInv, ServicesInv

(* Exchange keeps its types: what a channel waits for it has asked, what it *)
(* is given was made for some request or note, and a route knows no other   *)
(* service than the one that was registered.                                *)
THEOREM TypeCorrect == Spec => []TypeOK
<1>1. Init => ExchangeInv /\ OrderInv /\ TypeInv
  BY InitInv, InitOrder, InitTypes
<1>2. ExchangeInv /\ OrderInv /\ TypeInv /\ [Next]_vars => (ExchangeInv /\ OrderInv /\ TypeInv)'
  BY StepInv, StepOrder, StepTypes
<1>3. ExchangeInv /\ OrderInv /\ TypeInv => TypeOK
  BY InvTypes
<1> QED BY <1>1, <1>2, <1>3, PTL DEF Spec
-----------------------------------------------------------------------------
(* Requests stay, and stay single.  A sequence holds a packet, and holds it  *)
(* once; what is added and what is taken of that.                            *)
Has(s, e) == \E i \in DOMAIN s : s[i] = e
One(s, e) == \A i, j \in DOMAIN s : s[i] = e /\ s[j] = e => i = j

LEMMA HasEmpty == \A e : ~Has(<<>>, e) /\ One(<<>>, e)
  BY DEF Has, One

LEMMA HasAppend ==
  ASSUME NEW S, NEW s \in Seq(S), NEW e, NEW x
  PROVE  /\ Has(Append(s, e), x) <=> Has(s, x) \/ x = e
         /\ One(s, x) /\ (x = e => ~Has(s, x)) => One(Append(s, e), x)
<1>1. /\ DOMAIN s = 1..Len(s) /\ Len(s) \in Nat /\ DOMAIN Append(s, e) = 1..(Len(s) + 1)
      /\ Append(s, e)[Len(s) + 1] = e
      /\ \A i \in 1..Len(s) : Append(s, e)[i] = s[i]
  OBVIOUS
<1>2. \A i : i \in 1..(Len(s) + 1) <=> i \in 1..Len(s) \/ i = Len(s) + 1
  BY <1>1
<1>3. Has(Append(s, e), x) <=> Has(s, x) \/ x = e
  BY <1>1, <1>2 DEF Has
<1>4. ASSUME One(s, x), x = e => ~Has(s, x) PROVE One(Append(s, e), x)
  BY <1>1, <1>2, <1>4 DEF Has, One
<1> QED BY <1>3, <1>4

LEMMA HasRepeated ==
  ASSUME NEW S, NEW s \in Seq(S), NEW e, NEW n \in Nat, n # 0 => e \in S, NEW x
  PROVE  /\ Has(s, x) => Has(s \o Repeated(e, n), x)
         /\ n # 0 => Has(s \o Repeated(e, n), e)
<1> DEFINE t == s \o Repeated(e, n)
<1>1. /\ Len(s) \in Nat /\ DOMAIN s = 1..Len(s) /\ DOMAIN t = 1..(Len(s) + n)
      /\ \A i \in 1..Len(s) : t[i] = s[i]
      /\ \A i \in (Len(s) + 1)..(Len(s) + n) : t[i] = e
  BY Repeats
<1> HIDE DEF t
<1>2. Has(s, x) => Has(t, x)
  BY <1>1 DEF Has
<1>3. n # 0 => Has(t, e)
  <2>1. n # 0 => Len(s) + 1 \in DOMAIN t /\ t[Len(s) + 1] = e
    BY <1>1
  <2> QED BY <2>1 DEF Has
<1> QED BY <1>2, <1>3 DEF t

LEMMA HasTail ==
  ASSUME NEW S, NEW s \in Seq(S), s # <<>>, NEW x
  PROVE  /\ Has(s, x) <=> Has(Tail(s), x) \/ x = Head(s)
         /\ One(s, x) => One(Tail(s), x) /\ (x = Head(s) => ~Has(Tail(s), x))
<1>1. /\ DOMAIN s = 1..Len(s) /\ Len(s) \in Nat \ {0} /\ DOMAIN Tail(s) = 1..(Len(s) - 1)
      /\ Head(s) = s[1]
      /\ \A i \in 1..(Len(s) - 1) : Tail(s)[i] = s[i + 1]
  OBVIOUS
<1>2. \A i \in 1..Len(s) : i = 1 \/ (i - 1 \in 1..(Len(s) - 1) /\ Tail(s)[i - 1] = s[i])
  BY <1>1
<1>3. \A i \in 1..(Len(s) - 1) : i + 1 \in 1..Len(s) /\ i + 1 # 1 /\ i \in Int
  BY <1>1
<1>4. Has(s, x) <=> Has(Tail(s), x) \/ x = Head(s)
  <2>1. Has(Tail(s), x) => Has(s, x)
    BY <1>1, <1>3 DEF Has
  <2>2. x = Head(s) => Has(s, x)
    BY <1>1 DEF Has
  <2>3. Has(s, x) => Has(Tail(s), x) \/ x = Head(s)
    BY <1>1, <1>2 DEF Has
  <2> QED BY <2>1, <2>2, <2>3
<1>5. ASSUME One(s, x) PROVE One(Tail(s), x) /\ (x = Head(s) => ~Has(Tail(s), x))
  <2>1. One(Tail(s), x)
    <3> SUFFICES ASSUME NEW i \in 1..(Len(s) - 1), NEW j \in 1..(Len(s) - 1),
                        Tail(s)[i] = x, Tail(s)[j] = x
                 PROVE  i = j
      BY <1>1 DEF One
    <3>1. i + 1 = j + 1
      BY <1>1, <1>3, <1>5 DEF One
    <3> QED BY <1>3, <3>1
  <2>2. ASSUME x = Head(s), NEW i \in 1..(Len(s) - 1), Tail(s)[i] = x PROVE FALSE
    <3>1. i + 1 = 1
      BY <1>1, <1>3, <1>5, <2>2 DEF One
    <3> QED BY <1>3, <3>1
  <2> QED BY <1>1, <2>1, <2>2 DEF Has
<1> QED BY <1>4, <1>5

(* Where a request is. *)
IsUp(q) == Has(up[q.from], Request(q))
IsTo(q) == Has(to_server[at[q.from].route], Forwarded(q))
IsQueued(q) == Has(packet_queue, Entry(q))
IsFrom(q) == Has(from_server[at[q.from].route], Answer(q))
IsDown(q, d) == Has(down[d], Answer(q))

OneEach(q) == /\ One(up[q.from], Request(q)) /\ One(to_server[at[q.from].route], Forwarded(q))
              /\ One(packet_queue, Entry(q)) /\ One(from_server[at[q.from].route], Answer(q))
              /\ \A d \in Channels : One(down[d], Answer(q))
Apart(q) == /\ IsUp(q) => ~IsTo(q) /\ ~IsQueued(q) /\ ~IsFrom(q)
            /\ IsTo(q) => ~IsQueued(q) /\ ~IsFrom(q)
            /\ IsQueued(q) => ~IsFrom(q)
            /\ \A d \in Channels : IsDown(q, d) =>
                 /\ ~IsUp(q) /\ ~IsTo(q) /\ ~IsQueued(q) /\ ~IsFrom(q)
                 /\ \A e \in Channels : IsDown(q, e) => d = e
(* Packets of different requests differ. *)
LEMMA RequestTells ==
  ASSUME NEW q
  PROVE  /\ ReadRequest(GetBinary(Request(q))).msg = q /\ RequestId(Request(q)) = q.id
         /\ ReadRequest(GetBinary(Forwarded(q))).msg = q
         /\ ReadRequest(Entry(q).binary).msg = q
<1>1. GetBinary(Request(q)) = Body(q)
  BY DEF Request, BuildRpcPacket, GetBinary
<1>2. GetBinary(Forwarded(q)) = Body(q) /\ ReadRequest(Body(q)).msg = q
  BY ReadRequestPacket
<1> DEFINE meta == [service_name |-> EchoService, method_index |-> Echo,
                    rpc_request_meta |-> WriteRpcRequestMeta([request_id |-> q.id]),
                    rpc_response_meta |-> NoBytes, compress_type |-> eCompressType_Not]
<1>3. RequestMeta(q.id) = meta
  BY DEF RequestMeta, CallMeta
<1>4. Request(q).meta = WriteRpcMeta(meta)
  BY <1>3 DEF Request, BuildRpcPacket
<1>5. GetMeta(Request(q)) = meta
  BY <1>4, RpcMetaRoundTrip DEF GetMeta
<1>6. RequestId(Request(q)) = q.id
  BY <1>5, RpcRequestMetaRoundTrip DEF RequestId
<1>7. Entry(q).binary = Body(q)
  BY DEF Entry
<1> QED BY <1>1, <1>2, <1>6, <1>7

LEMMA SameRequest ==
  ASSUME NEW p, NEW q,
         Request(p) = Request(q) \/ Forwarded(p) = Forwarded(q) \/ Entry(p) = Entry(q)
  PROVE  p = q
<1> DEFINE msg(binary) == ReadRequest(binary).msg
<1>1. /\ msg(GetBinary(Request(p))) = p /\ msg(GetBinary(Request(q))) = q
      /\ msg(GetBinary(Forwarded(p))) = p /\ msg(GetBinary(Forwarded(q))) = q
      /\ msg(Entry(p).binary) = p /\ msg(Entry(q).binary) = q
  BY RequestTells
<1> HIDE DEF msg
<1> QED BY <1>1

LEMMA AnswerTells ==
  ASSUME NEW q
  PROVE  /\ GetNetInfo(Answer(q)).net_type = eNetType_Route
         /\ RequestId(Answer(q)) = q.id /\ MsgOf(Answer(q)) = q
<1>1. Answer(q).net = WriteNetInfo(ServerNetInfo(at[q.from].route, SetToBag({LinkOf(q.from)})))
  BY DEF Answer, BuildRpcPacket
<1> QED BY <1>1, ReadServerNetInfo, ReadAnswer

(* What an element of a line is. *)
LEMMA InSeq == ASSUME NEW S, NEW s \in Seq(S), NEW i \in DOMAIN s PROVE s[i] \in S
  OBVIOUS

LEMMA FromIsAnswer ==
  ASSUME NEW r \in Routes, NEW p \in FromPackets(r), GetNetInfo(p).net_type = eNetType_Route,
         RequestId(p) # RPC_REQUEST_ID_NULL
  PROVE  \E q \in Asked : at[q.from].route = r /\ p = Answer(q)
<1>1. p \in Answered(AskedVia(r)) \cup NotesVia(r)
  BY NotACommand
<1>2. p \notin NotesVia(r)
  BY ReadNote DEF NotesVia
<1> QED BY <1>1, <1>2 DEF Answered, AskedVia

LEMMA DownIsAnswer ==
  ASSUME NEW c \in Channels, NEW p \in DownPackets(c), RequestId(p) # RPC_REQUEST_ID_NULL
  PROVE  \E q \in Asked : at[q.from] = at[c] /\ p = Answer(q)
<1>1. p \notin NotesFor(c)
  BY ReadNote DEF NotesFor
<1> QED BY <1>1 DEF DownPackets, Answered, AskedOver

LEMMA OnlyAsked ==
  ASSUME ExchangeInv, NEW q \in [from : Channels, id : Nat \ {0}],
         \/ IsUp(q) \/ IsTo(q) \/ IsQueued(q) \/ IsFrom(q) \/ \E d \in Channels : IsDown(q, d)
  PROVE  q \in Asked
<1>0. /\ q.from \in Channels /\ at[q.from].route \in Routes
      /\ q.id # RPC_REQUEST_ID_NULL
  BY DEF ExchangeInv, LinkInv, RPC_REQUEST_ID_NULL
<1>1. CASE IsUp(q)
  <2>1. PICK i \in DOMAIN up[q.from] : up[q.from][i] = Request(q)
    BY <1>1 DEF IsUp, Has
  <2>2. Request(q) \in UpPackets(q.from)
    BY <1>0, <2>1, InSeq DEF ExchangeInv, UpInv
  <2>3. PICK p \in Asked : Request(q) = Request(p)
    BY <2>2 DEF UpPackets, AskedBy
  <2>4. q = p
    BY <2>3, SameRequest
  <2> QED BY <2>4
<1>2. CASE IsTo(q)
  <2>1. PICK i \in DOMAIN to_server[at[q.from].route] : to_server[at[q.from].route][i] = Forwarded(q)
    BY <1>2 DEF IsTo, Has
  <2>2. Forwarded(q) \in ToPackets(at[q.from].route)
    BY <1>0, <2>1, InSeq DEF ExchangeInv, ToInv
  <2>3. PICK p \in Asked : Forwarded(q) = Forwarded(p)
    BY <2>2 DEF ToPackets, AskedVia
  <2>4. q = p
    BY <2>3, SameRequest
  <2> QED BY <2>4
<1>3. CASE IsQueued(q)
  <2>1. PICK i \in DOMAIN packet_queue : packet_queue[i] = Entry(q)
    BY <1>3 DEF IsQueued, Has
  <2>2. Entry(q) \in Entries
    BY <2>1, InSeq DEF ExchangeInv, QueueInv
  <2>3. PICK p \in Asked : Entry(q) = Entry(p)
    BY <2>2 DEF Entries
  <2>4. q = p
    BY <2>3, SameRequest
  <2> QED BY <2>4
<1>4. CASE IsFrom(q)
  <2>1. PICK i \in DOMAIN from_server[at[q.from].route] : from_server[at[q.from].route][i] = Answer(q)
    BY <1>4 DEF IsFrom, Has
  <2>2. Answer(q) \in FromPackets(at[q.from].route)
    BY <1>0, <2>1, InSeq DEF ExchangeInv, FromInv
  <2>3. PICK p \in Asked : Answer(q) = Answer(p)
    BY <1>0, <2>2, FromIsAnswer, AnswerTells
  <2>4. q = p
    BY <2>3, AnswerTells
  <2> QED BY <2>4
<1>5. ASSUME NEW d \in Channels, IsDown(q, d) PROVE q \in Asked
  <2>1. PICK i \in DOMAIN down[d] : down[d][i] = Answer(q)
    BY <1>5 DEF IsDown, Has
  <2>2. Answer(q) \in DownPackets(d)
    BY <2>1, InSeq DEF ExchangeInv, DownInv
  <2>3. PICK p \in Asked : Answer(q) = Answer(p)
    BY <1>0, <2>2, DownIsAnswer, AnswerTells
  <2>4. q = p
    BY <2>3, AnswerTells
  <2> QED BY <2>4
<1> QED BY <1>1, <1>2, <1>3, <1>4, <1>5

(* A step leaves a line as it is for x, or it loses it. *)
Keeps(s, t, x) == (Has(t, x) <=> Has(s, x)) /\ (One(s, x) => One(t, x))

LEMMA LineKeeps ==
  ASSUME NEW S, NEW s \in Seq(S), NEW t, NEW x,
         \/ t = s
         \/ \E e : e # x /\ t = Append(s, e)
         \/ s # <<>> /\ x # Head(s) /\ t = Tail(s)
  PROVE  Keeps(s, t, x)
<1>1. CASE t = s
  BY <1>1 DEF Keeps
<1>2. ASSUME NEW e, e # x, t = Append(s, e) PROVE Keeps(s, t, x)
  BY <1>2, HasAppend DEF Keeps
<1>3. CASE s # <<>> /\ x # Head(s) /\ t = Tail(s)
  BY <1>3, HasTail DEF Keeps
<1> QED BY <1>1, <1>2, <1>3

(* What a step does to a request: it goes on to the next place, or stays.   *)
Follows(q) ==
  /\ OneEach(q)'
  /\ IsUp(q)' => IsUp(q)
  /\ IsTo(q)' => IsTo(q) \/ (IsUp(q) /\ ~IsUp(q)')
  /\ IsQueued(q)' => IsQueued(q) \/ (IsTo(q) /\ ~IsTo(q)')
  /\ IsFrom(q)' => IsFrom(q) \/ (IsQueued(q) /\ ~IsQueued(q)')
  /\ \A d \in Channels : IsDown(q, d)' =>
       IsDown(q, d) \/ (IsFrom(q) /\ ~IsFrom(q)' /\ status[d] = "open" /\ at[d] = at[q.from])
Stays(q) ==
  \/ IsOut(q.from)' \/ q.id \notin waiting'[q.from]
  \/ /\ IsHeard(q.from) => IsHeard(q.from)' /\ (IsUp(q) => IsUp(q)' \/ IsTo(q)')
     /\ IsTo(q) => IsTo(q)' \/ IsQueued(q)'
     /\ IsQueued(q) => IsQueued(q)' \/ IsFrom(q)' \/ at[q.from].route \notin connected
     /\ IsFrom(q) => IsFrom(q)' \/ IsDown(q, q.from)' \/ status[q.from] = "left"
     /\ IsDown(q, q.from) => IsDown(q, q.from)'

KeepsUp(q) == Keeps(up[q.from], up'[q.from], Request(q))
KeepsTo(q) == Keeps(to_server[at[q.from].route], to_server'[at[q.from].route], Forwarded(q))
KeepsQueued(q) == Keeps(packet_queue, packet_queue', Entry(q))
KeepsFrom(q) == Keeps(from_server[at[q.from].route], from_server'[at[q.from].route], Answer(q))
KeepsDown(q, d) == Keeps(down[d], down'[d], Answer(q))

(* Copies of another packet. *)
LEMMA OthersRepeat ==
  ASSUME NEW T, NEW s \in Seq(T), NEW p, NEW n \in Nat, n # 0 => p \in T, NEW x, p # x
  PROVE  Keeps(s, s \o Repeated(p, n), x)
<1> DEFINE t == s \o Repeated(p, n)
<1>1. /\ Len(s) \in Nat /\ DOMAIN s = 1..Len(s) /\ DOMAIN t = 1..(Len(s) + n)
      /\ \A i \in 1..Len(s) : t[i] = s[i]
      /\ \A i \in (Len(s) + 1)..(Len(s) + n) : t[i] = p
  BY Repeats
<1> HIDE DEF t
<1>2. \A i \in DOMAIN t : t[i] = x => i \in DOMAIN s /\ s[i] = x
  BY <1>1
<1>3. \A i \in DOMAIN s : i \in DOMAIN t /\ t[i] = s[i]
  BY <1>1
<1>4. Has(t, x) <=> Has(s, x)
  BY <1>2, <1>3 DEF Has
<1>5. One(s, x) => One(t, x)
  BY <1>2 DEF One
<1> QED BY <1>4, <1>5 DEF Keeps, t

LEMMA SameForms ==
  ASSUME ExchangeInv, Grows, NEW q \in Asked
  PROVE  /\ q.from \in Channels /\ status[q.from] # "new" /\ at'[q.from] = at[q.from]
         /\ at[q.from].route \in Routes
         /\ Request(q)' = Request(q) /\ Forwarded(q)' = Forwarded(q)
         /\ Entry(q)' = Entry(q) /\ Answer(q)' = Answer(q)
<1>1. /\ q.from \in Channels /\ status[q.from] # "new" /\ at'[q.from] = at[q.from]
      /\ at[q.from].route \in Routes
  BY DEF ExchangeInv, LinkInv, Asked, Grows
<1>2. LinkOf(q.from)' = LinkOf(q.from)
  BY <1>1 DEF LinkOf
<1>3. Request(q)' = Request(q)
  BY DEF Request
<1>4. Forwarded(q)' = Forwarded(q) /\ Entry(q)' = Entry(q) /\ Answer(q)' = Answer(q)
  BY <1>1, <1>2, <1>3 DEF Forwarded, Entry, Answer
<1> QED BY <1>1, <1>3, <1>4

LEMMA Lines ==
  ASSUME ExchangeInv, NEW c \in Channels, NEW r \in Routes
  PROVE  /\ up[c] \in Seq(UpPackets(c)) /\ to_server[r] \in Seq(ToPackets(r))
         /\ packet_queue \in Seq(Entries) /\ from_server[r] \in Seq(FromPackets(r))
         /\ down[c] \in Seq(DownPackets(c))
  BY DEF ExchangeInv, UpInv, ToInv, QueueInv, FromInv, DownInv

(* What of the places follows from what of the lines. *)
LEMMA PlaceKeeps ==
  ASSUME ExchangeInv, Grows, NEW q \in Asked, OneEach(q)
  PROVE  /\ KeepsUp(q) => (IsUp(q)' <=> IsUp(q)) /\ One(up[q.from], Request(q))'
         /\ KeepsTo(q) => /\ IsTo(q)' <=> IsTo(q)
                          /\ One(to_server[at[q.from].route], Forwarded(q))'
         /\ KeepsQueued(q) => (IsQueued(q)' <=> IsQueued(q)) /\ One(packet_queue, Entry(q))'
         /\ KeepsFrom(q) => /\ IsFrom(q)' <=> IsFrom(q)
                            /\ One(from_server[at[q.from].route], Answer(q))'
         /\ \A d \in Channels : KeepsDown(q, d) =>
              (IsDown(q, d)' <=> IsDown(q, d)) /\ One(down[d], Answer(q))'
<1>1. /\ at'[q.from] = at[q.from] /\ Request(q)' = Request(q) /\ Forwarded(q)' = Forwarded(q)
      /\ Entry(q)' = Entry(q) /\ Answer(q)' = Answer(q)
  BY SameForms
<1>2. KeepsUp(q) => (IsUp(q)' <=> IsUp(q)) /\ One(up[q.from], Request(q))'
  BY <1>1 DEF KeepsUp, Keeps, IsUp, OneEach
<1>3. KeepsTo(q) => (IsTo(q)' <=> IsTo(q)) /\ One(to_server[at[q.from].route], Forwarded(q))'
  BY <1>1 DEF KeepsTo, Keeps, IsTo, OneEach
<1>4. KeepsQueued(q) => (IsQueued(q)' <=> IsQueued(q)) /\ One(packet_queue, Entry(q))'
  BY <1>1 DEF KeepsQueued, Keeps, IsQueued, OneEach
<1>5. KeepsFrom(q) => (IsFrom(q)' <=> IsFrom(q)) /\ One(from_server[at[q.from].route], Answer(q))'
  BY <1>1 DEF KeepsFrom, Keeps, IsFrom, OneEach
<1>6. ASSUME NEW d \in Channels, KeepsDown(q, d)
      PROVE  (IsDown(q, d)' <=> IsDown(q, d)) /\ One(down[d], Answer(q))'
  BY <1>1, <1>6 DEF KeepsDown, Keeps, IsDown, OneEach
<1> QED BY <1>2, <1>3, <1>4, <1>5, <1>6

LEMMA QuietMoves ==
  ASSUME ExchangeInv, Grows, NEW q \in Asked, OneEach(q),
         KeepsUp(q), KeepsTo(q), KeepsQueued(q), KeepsFrom(q),
         \A d \in Channels : KeepsDown(q, d),
         IsHeard(q.from) => IsHeard(q.from)'
  PROVE  Follows(q) /\ Stays(q)
<1>1. q.from \in Channels
  BY SameForms
<1>2. (IsUp(q)' <=> IsUp(q)) /\ One(up[q.from], Request(q))'
  BY PlaceKeeps
<1>3. (IsTo(q)' <=> IsTo(q)) /\ One(to_server[at[q.from].route], Forwarded(q))'
  BY PlaceKeeps
<1>4. (IsQueued(q)' <=> IsQueued(q)) /\ One(packet_queue, Entry(q))'
  BY PlaceKeeps
<1>5. (IsFrom(q)' <=> IsFrom(q)) /\ One(from_server[at[q.from].route], Answer(q))'
  BY PlaceKeeps
<1>6. \A d \in Channels : (IsDown(q, d)' <=> IsDown(q, d)) /\ One(down[d], Answer(q))'
  BY PlaceKeeps
<1>7. OneEach(q)'
  BY <1>2, <1>3, <1>4, <1>5, <1>6 DEF OneEach
<1>8. Follows(q)
  BY <1>2, <1>3, <1>4, <1>5, <1>6, <1>7 DEF Follows
<1>9. Stays(q)
  BY <1>1, <1>2, <1>3, <1>4, <1>5, <1>6 DEF Stays
<1> QED BY <1>8, <1>9

LEMMA SameLines ==
  ASSUME NEW q
  PROVE  /\ UNCHANGED up => KeepsUp(q)
         /\ UNCHANGED to_server => KeepsTo(q)
         /\ UNCHANGED packet_queue => KeepsQueued(q)
         /\ UNCHANGED from_server => KeepsFrom(q)
         /\ \A d \in Channels : down'[d] = down[d] => KeepsDown(q, d)
  BY DEF KeepsUp, KeepsTo, KeepsQueued, KeepsFrom, KeepsDown, Keeps

LEMMA SameHeard ==
  ASSUME ExchangeInv, Grows, NEW q \in Asked, UNCHANGED service_2info
  PROVE  IsHeard(q.from) => IsHeard(q.from)'
  BY SameForms DEF IsHeard

LEMMA NothingMoves ==
  ASSUME ExchangeInv, Grows, NEW q \in Asked, OneEach(q),
         UNCHANGED <<up, down, to_server, from_server, packet_queue, service_2info>>
  PROVE  Follows(q) /\ Stays(q)
<1>1. /\ KeepsUp(q) /\ KeepsTo(q) /\ KeepsQueued(q) /\ KeepsFrom(q)
      /\ \A d \in Channels : KeepsDown(q, d)
  BY SameLines
<1>2. IsHeard(q.from) => IsHeard(q.from)'
  BY SameHeard
<1> QED BY <1>1, <1>2, QuietMoves

LEMMA CallMethodMoves ==
  ASSUME ExchangeInv, Grows, NEW q \in Asked, OneEach(q), NEW c \in Channels, CallMethod(c)
  PROVE  Follows(q) /\ Stays(q)
<1> DEFINE id == request_id[c] + 1
           packet == BuildRpcPacket(ChannelNetInfo, RequestMeta(id), WriteRequest([msg |-> Asks(c, id)]))
<1>1. /\ UNCHANGED <<down, to_server, from_server, packet_queue, service_2info>>
      /\ up' = [up EXCEPT ![c] = Append(@, packet)]
  BY DEF CallMethod, routes, server, services
<1>2. packet = Request(Asks(c, id))
  BY DEF Request, Body, Asks
<1>3. KeepsUp(q)
  <2>1. q.from \in Channels /\ q.id <= request_id[q.from] /\ q.id \in Nat /\ request_id[c] \in Nat
    BY DEF Asked, ExchangeInv, LinkInv
  <2>2. q # Asks(c, id)
    BY <2>1 DEF Asks
  <2>3. Request(q) # packet
    BY <1>2, <2>2, SameRequest
  <2> HIDE DEF packet, id
  <2>4. up[q.from] \in Seq(UpPackets(q.from))
    BY <2>1 DEF ExchangeInv, UpInv
  <2>5. up'[q.from] = up[q.from] \/ up'[q.from] = Append(up[q.from], packet)
    BY <1>1, <2>1 DEF ExchangeInv, UpInv
  <2> QED BY <2>3, <2>4, <2>5, LineKeeps DEF KeepsUp
<1>4. /\ KeepsTo(q) /\ KeepsQueued(q) /\ KeepsFrom(q)
      /\ \A d \in Channels : KeepsDown(q, d)
  BY <1>1, SameLines
<1>5. IsHeard(q.from) => IsHeard(q.from)'
  BY <1>1, SameHeard
<1> QED BY <1>3, <1>4, <1>5, QuietMoves

LEMMA CloseMoves ==
  ASSUME ExchangeInv, Grows, NEW q \in Asked, OneEach(q), NEW S, Close(S),
         UNCHANGED <<to_server, packet_queue, service_2info>>, KeepsFrom(q)
  PROVE  Follows(q) /\ Stays(q)
<1>0. q.from \in Channels /\ DOMAIN up = Channels /\ DOMAIN down = Channels
  BY SameForms DEF ExchangeInv, UpInv, DownInv
<1>1. /\ q.from \in S => status'[q.from] = "left"
      /\ q.from \notin S => up'[q.from] = up[q.from] /\ down'[q.from] = down[q.from]
      /\ q.from \in S => up'[q.from] = <<>>
      /\ \A d \in Channels : down'[d] = down[d] \/ down'[d] = <<>>
  BY <1>0 DEF Close
<1>2. KeepsTo(q) /\ KeepsQueued(q) /\ (IsHeard(q.from) => IsHeard(q.from)')
  BY SameLines, SameHeard
<1>3. /\ (IsTo(q)' <=> IsTo(q)) /\ One(to_server[at[q.from].route], Forwarded(q))'
      /\ (IsQueued(q)' <=> IsQueued(q)) /\ One(packet_queue, Entry(q))'
      /\ (IsFrom(q)' <=> IsFrom(q)) /\ One(from_server[at[q.from].route], Answer(q))'
  BY <1>2, PlaceKeeps
<1>4. /\ IsUp(q)' => IsUp(q)
      /\ One(up[q.from], Request(q))'
      /\ q.from \notin S => (IsUp(q)' <=> IsUp(q))
  <2>1. CASE q.from \in S
    BY <1>1, <2>1, HasEmpty DEF IsUp
  <2>2. CASE q.from \notin S
    BY <1>1, <2>2, PlaceKeeps DEF KeepsUp, Keeps
  <2> QED BY <2>1, <2>2
<1>5. ASSUME NEW d \in Channels
      PROVE  /\ IsDown(q, d)' => IsDown(q, d)
             /\ One(down[d], Answer(q))'
             /\ down'[d] = down[d] => (IsDown(q, d)' <=> IsDown(q, d))
  <2>1. CASE down'[d] = <<>>
    <3>1. ~IsDown(q, d)' /\ One(down[d], Answer(q))'
      BY <2>1, HasEmpty DEF IsDown
    <3>2. CASE down[d] = <<>>
      <4>1. ~IsDown(q, d)
        BY <3>2, HasEmpty DEF IsDown
      <4> QED BY <3>1, <4>1
    <3> QED BY <2>1, <3>1, <3>2
  <2>2. CASE down'[d] = down[d]
    <3>1. KeepsDown(q, d)
      BY <2>2, SameLines
    <3> QED BY <3>1, PlaceKeeps
  <2> QED BY <1>1, <2>1, <2>2
<1>6. OneEach(q)'
  BY <1>3, <1>4, <1>5 DEF OneEach
<1>7. Follows(q)
  BY <1>3, <1>4, <1>5, <1>6 DEF Follows
<1>8. Stays(q)
  BY <1>0, <1>1, <1>2, <1>3, <1>4, <1>5 DEF Stays, IsOut
<1> QED BY <1>7, <1>8

LEMMA LeaveMoves ==
  ASSUME ExchangeInv, Grows, NEW q \in Asked, OneEach(q), NEW c \in Channels, Leave(c)
  PROVE  Follows(q) /\ Stays(q)
<1>1. Close({c}) /\ UNCHANGED <<to_server, from_server, packet_queue, service_2info>>
  BY DEF Leave, routes, services, server
<1>2. KeepsFrom(q)
  BY <1>1, SameLines
<1> QED BY <1>1, <1>2, CloseMoves

(* The answers a route has do not change, as it handles something else.     *)
LEMMA KeepsOtherFrom ==
  ASSUME ExchangeInv, NEW q \in Asked, NEW r \in Routes, from_server[r] # <<>>,
         from_server' = [from_server EXCEPT ![r] = Tail(@)],
         Answer(q) # Head(from_server[r])
  PROVE  KeepsFrom(q)
<1>1. at[q.from].route \in Routes
  BY DEF ExchangeInv, LinkInv, Asked
<1> DEFINE k == at[q.from].route
<1>2. from_server[k] \in Seq(FromPackets(k)) /\ DOMAIN from_server = Routes
  BY <1>1 DEF ExchangeInv, FromInv
<1>3. CASE k = r
  <2>1. from_server'[k] = Tail(from_server[k])
    BY <1>2, <1>3
  <2> HIDE DEF k
  <2>2. Keeps(from_server[k], from_server'[k], Answer(q))
    BY <1>2, <1>3, <2>1, LineKeeps
  <2> QED BY <2>2 DEF KeepsFrom, k
<1>4. CASE k # r
  BY <1>2, <1>4 DEF KeepsFrom, Keeps
<1> QED BY <1>3, <1>4

LEMMA DisconnectChannelMoves ==
  ASSUME ExchangeInv, Grows, NEW q \in Asked, OneEach(q),
         NEW r \in Routes, ServerDisconnectChannelFunc(r)
  PROVE  Follows(q) /\ Stays(q)
<1>1. PICK S : Close(S)
  BY DEF ServerDisconnectChannelFunc
<1>2. /\ UNCHANGED <<to_server, packet_queue, service_2info>> /\ from_server[r] # <<>>
      /\ from_server' = [from_server EXCEPT ![r] = Tail(@)]
      /\ GetNetInfo(Head(from_server[r])).net_type = eNetType_RouteCmd
  BY DEF ServerDisconnectChannelFunc, FromServerCmd, FromServer, services, server
<1>3. Answer(q) # Head(from_server[r])
  BY <1>2, AnswerTells DEF eNetType_Route, eNetType_RouteCmd
<1> QED BY <1>1, <1>2, <1>3, KeepsOtherFrom, CloseMoves

LEMMA RegisterMoves ==
  ASSUME ExchangeInv, ServicesInv, Grows, NEW q \in Asked, OneEach(q),
         NEW r \in Routes, ServerServiceRegister(r)
  PROVE  Follows(q) /\ Stays(q)
<1>1. /\ UNCHANGED <<up, down, to_server, packet_queue>> /\ from_server[r] # <<>>
      /\ from_server' = [from_server EXCEPT ![r] = Tail(@)]
      /\ GetNetInfo(Head(from_server[r])).net_type = eNetType_RouteCmd
      /\ \E name : service_2info' = [service_2info EXCEPT ![r] = @ \cup {name}]
  BY DEF ServerServiceRegister, FromServerCmd, FromServer, server
<1>2. Answer(q) # Head(from_server[r])
  BY <1>1, AnswerTells DEF eNetType_Route, eNetType_RouteCmd
<1>3. KeepsFrom(q)
  BY <1>1, <1>2, KeepsOtherFrom
<1>4. IsHeard(q.from) => IsHeard(q.from)'
  <2>1. at'[q.from] = at[q.from] /\ at[q.from].route \in Routes
    BY SameForms
  <2> QED BY <1>1, <2>1 DEF IsHeard, ServicesInv
<1>5. /\ KeepsUp(q) /\ KeepsTo(q) /\ KeepsQueued(q)
      /\ \A d \in Channels : KeepsDown(q, d)
  BY <1>1, SameLines
<1> QED BY <1>3, <1>4, <1>5, QuietMoves

(* What else the server sends is not the answer to a request.               *)
LEMMA KeepsAddedFrom ==
  ASSUME ExchangeInv, Grows, NEW q \in Asked, OneEach(q),
         UNCHANGED <<up, down, to_server, packet_queue, service_2info>>,
         \A r \in Routes : \/ from_server'[r] = from_server[r]
                           \/ \E p : p # Answer(q) /\ from_server'[r] = Append(from_server[r], p)
  PROVE  Follows(q) /\ Stays(q)
<1> DEFINE k == at[q.from].route
<1>1. k \in Routes
  BY SameForms
<1>2. from_server[k] \in Seq(FromPackets(k))
  BY <1>1, SameForms, Lines
<1>3. Keeps(from_server[k], from_server'[k], Answer(q))
  <2> HIDE DEF k
  <2> QED BY <1>1, <1>2, LineKeeps
<1>4. KeepsFrom(q)
  BY <1>3 DEF KeepsFrom
<1>5. /\ KeepsUp(q) /\ KeepsTo(q) /\ KeepsQueued(q)
      /\ \A d \in Channels : KeepsDown(q, d)
  BY SameLines
<1> QED BY <1>4, <1>5, SameHeard, QuietMoves

LEMMA SendRpcMessageMoves ==
  ASSUME ExchangeInv, Grows, NEW q \in Asked, OneEach(q),
         NEW link_ids, SendRpcMessage(link_ids)
  PROVE  Follows(q) /\ Stays(q)
<1> DEFINE n == sent'
           body == WriteResponse([msg |-> Note(n, link_ids)])
           packet(r) == BuildRpcPacket(ServerNetInfo(r, link_ids), NoteMeta, body)
<1>1. /\ UNCHANGED <<up, down, to_server, packet_queue, service_2info>>
      /\ SendFromServer(link_ids, NoteMeta, body)
  BY DEF SendRpcMessage, services
<1>2. \A r : packet(r) # Answer(q)
  <2>1. \A r : packet(r) = NotePacket(r, n, link_ids)
    BY DEF NotePacket
  <2>2. RequestId(Answer(q)) # RPC_REQUEST_ID_NULL
    BY AnswerTells DEF Asked, RPC_REQUEST_ID_NULL
  <2> QED BY <2>1, <2>2, ReadNote
<1> HIDE DEF body, n
<1>3. ASSUME NEW r \in Routes
      PROVE  from_server'[r] = from_server[r] \/ from_server'[r] = Append(from_server[r], packet(r))
  BY <1>1 DEF SendFromServer
<1>4. \A r \in Routes : \/ from_server'[r] = from_server[r]
                        \/ \E p : p # Answer(q) /\ from_server'[r] = Append(from_server[r], p)
  BY <1>2, <1>3
<1> QED BY <1>1, <1>4, KeepsAddedFrom

LEMMA DisconnectMoves ==
  ASSUME ExchangeInv, Grows, NEW q \in Asked, OneEach(q), NEW link_id, Disconnect(link_id)
  PROVE  Follows(q) /\ Stays(q)
<1> DEFINE route == getRouteClinet(link_id)
<1>1. /\ UNCHANGED <<up, down, to_server, packet_queue, service_2info>>
      /\ from_server' = IF route \notin connected THEN from_server
                        ELSE [from_server EXCEPT ![route] = Append(@, DisconnectPacket(link_id))]
  BY DEF Disconnect, services
<1>2. DisconnectPacket(link_id) # Answer(q)
  BY ReadCommand, AnswerTells DEF DisconnectPacket, eNetType_Route, eNetType_RouteCmd
<1>3. \A r \in Routes : \/ from_server'[r] = from_server[r]
                        \/ from_server'[r] = Append(from_server[r], DisconnectPacket(link_id))
  BY <1>1 DEF ExchangeInv, FromInv
<1> QED BY <1>1, <1>2, <1>3, KeepsAddedFrom

(* The request at the head of a line goes on, the others stay.              *)
LEMMA RouteRequestMoves ==
  ASSUME ExchangeInv, Grows, NEW q \in Asked, OneEach(q), Apart(q),
         NEW c \in Channels, RouteRequest(c)
  PROVE  Follows(q) /\ Stays(q)
<1> DEFINE r == at[c].route
           packet == Head(up[c])
<1>1. /\ UNCHANGED <<down, from_server, packet_queue, service_2info>>
      /\ up[c] # <<>> /\ up' = [up EXCEPT ![c] = Tail(@)]
      /\ to_server' = IF ServiceOf(packet) \in service_2info[r]
                      THEN [to_server EXCEPT ![r] = Append(@, WithSource(packet, at[c].socket))]
                      ELSE to_server
  BY DEF RouteRequest, services, server
<1>2. /\ r \in Routes /\ up[c] \in Seq(UpPackets(c)) /\ up'[c] = Tail(up[c])
      /\ \A d \in Channels : d # c => up'[d] = up[d]
  BY <1>1 DEF ExchangeInv, UpInv, LinkInv
<1>3. PICK p \in AskedBy(c) : packet = Request(p)
  BY <1>1, <1>2, TailSeq DEF UpPackets
<1>4. p \in Asked /\ p.from = c /\ WithSource(packet, at[c].socket) = Forwarded(p)
  BY <1>3 DEF AskedBy, Forwarded
<1>5. ServiceOf(packet) = EchoService
  BY <1>3, ReadRequestPacket
<1>6. /\ KeepsQueued(q) /\ KeepsFrom(q) /\ \A d \in Channels : KeepsDown(q, d)
      /\ (IsHeard(q.from) => IsHeard(q.from)')
  BY <1>1, SameLines, SameHeard
<1>7. /\ q.from \in Channels /\ at'[q.from] = at[q.from] /\ at[q.from].route \in Routes
      /\ Request(q)' = Request(q) /\ Forwarded(q)' = Forwarded(q)
  BY SameForms
<1>8. \A k \in Routes : \/ to_server'[k] = to_server[k]
                        \/ k = r /\ to_server'[k] = Append(to_server[k], Forwarded(p))
  BY <1>1, <1>2, <1>4 DEF ExchangeInv, ToInv
<1> HIDE DEF r, packet
<1>9. CASE q # p
  <2>1. KeepsUp(q)
    <3>1. CASE q.from = c
      <4>1. Request(q) # packet
        BY <1>3, <1>9, SameRequest
      <4>2. Keeps(up[c], up'[c], Request(q))
        BY <1>1, <1>2, <4>1, LineKeeps DEF packet
      <4> QED BY <3>1, <4>2 DEF KeepsUp
    <3>2. CASE q.from # c
      BY <1>2, <1>7, <3>2 DEF KeepsUp, Keeps
    <3> QED BY <3>1, <3>2
  <2>2. KeepsTo(q)
    <3> DEFINE k == at[q.from].route
    <3>1. Forwarded(p) # Forwarded(q)
      BY <1>9, SameRequest
    <3>2. to_server[k] \in Seq(ToPackets(k))
      BY <1>7, Lines
    <3>3. to_server'[k] = to_server[k] \/ to_server'[k] = Append(to_server[k], Forwarded(p))
      BY <1>7, <1>8
    <3> HIDE DEF k
    <3>4. Keeps(to_server[k], to_server'[k], Forwarded(q))
      BY <3>1, <3>2, <3>3, LineKeeps
    <3> QED BY <3>4 DEF KeepsTo, k
  <2> QED BY <1>6, <2>1, <2>2, QuietMoves
<1>10. CASE q = p
  <2>1. at[q.from].route = r
    BY <1>4, <1>10 DEF r
  <2>2. IsUp(q) /\ ~IsUp(q)' /\ One(up[q.from], Request(q))'
    <3>1. Request(q) = Head(up[c]) /\ q.from = c /\ One(up[c], Request(q))
      BY <1>3, <1>4, <1>10 DEF packet, OneEach
    <3>2. Has(up[c], Request(q)) /\ ~Has(up'[c], Request(q)) /\ One(up'[c], Request(q))
      BY <1>1, <1>2, <3>1, HasTail
    <3> QED BY <1>7, <3>1, <3>2 DEF IsUp
  <2>3. ~IsTo(q) /\ ~IsQueued(q) /\ ~IsFrom(q) /\ \A d \in Channels : ~IsDown(q, d)
    BY <2>2 DEF Apart
  <2>4. /\ One(to_server[at[q.from].route], Forwarded(q))'
        /\ IsHeard(q.from) => IsTo(q)'
    <3>1. to_server[r] \in Seq(ToPackets(r)) /\ One(to_server[r], Forwarded(q))
          /\ ~Has(to_server[r], Forwarded(q))
      BY <1>2, <2>1, <2>3, Lines DEF OneEach, IsTo, r
    <3>2. CASE EchoService \in service_2info[r]
      <4>1. to_server'[r] = Append(to_server[r], Forwarded(q))
        BY <1>1, <1>2, <1>4, <1>5, <1>10, <3>2 DEF r, packet, ExchangeInv, ToInv
      <4>2. Has(to_server'[r], Forwarded(q)) /\ One(to_server'[r], Forwarded(q))
        BY <3>1, <4>1, HasAppend
      <4> QED BY <1>7, <2>1, <4>2 DEF IsTo
    <3>3. CASE EchoService \notin service_2info[r]
      <4>1. to_server' = to_server
        BY <1>1, <1>5, <3>3 DEF r, packet
      <4>2. ~IsHeard(q.from)
        BY <2>1, <3>3 DEF IsHeard
      <4> QED BY <1>7, <2>1, <3>1, <4>1, <4>2
    <3> QED BY <3>2, <3>3
  <2>5. /\ (IsQueued(q)' <=> IsQueued(q)) /\ One(packet_queue, Entry(q))'
        /\ (IsFrom(q)' <=> IsFrom(q)) /\ One(from_server[at[q.from].route], Answer(q))'
        /\ \A d \in Channels : (IsDown(q, d)' <=> IsDown(q, d)) /\ One(down[d], Answer(q))'
    BY <1>6, PlaceKeeps
  <2>6. OneEach(q)'
    BY <2>2, <2>4, <2>5 DEF OneEach
  <2>7. Follows(q)
    BY <2>2, <2>3, <2>5, <2>6 DEF Follows
  <2>8. Stays(q)
    BY <1>6, <1>7, <2>3, <2>4, <2>5 DEF Stays
  <2> QED BY <2>7, <2>8
<1> QED BY <1>9, <1>10

LEMMA ReceiveMoves ==
  ASSUME ExchangeInv, Grows, NEW q \in Asked, OneEach(q), Apart(q),
         NEW r \in Routes, ReceiveRoutePacket(r)
  PROVE  Follows(q) /\ Stays(q)
<1> DEFINE packet == Head(to_server[r])
           entry == [link_id |-> LinkIdOf(r, packet),
                     rpc_meta |-> CopyRpcMeta(GetMeta(packet)), binary |-> GetBinary(packet)]
<1>1. /\ UNCHANGED <<up, down, from_server, service_2info>>
      /\ to_server[r] # <<>> /\ to_server' = [to_server EXCEPT ![r] = Tail(@)]
      /\ packet_queue' = Append(packet_queue, entry)
  BY DEF ReceiveRoutePacket, services
<1>2. /\ to_server[r] \in Seq(ToPackets(r)) /\ to_server'[r] = Tail(to_server[r])
      /\ \A k \in Routes : k # r => to_server'[k] = to_server[k]
      /\ packet_queue \in Seq(Entries)
  BY <1>1 DEF ExchangeInv, ToInv, QueueInv
<1>3. PICK p \in AskedVia(r) : packet = Forwarded(p)
  BY <1>1, <1>2, TailSeq DEF ToPackets
<1>4. p \in Asked /\ at[p.from].route = r
  BY <1>3 DEF AskedVia
<1>5. entry = Entry(p)
  <2>1. LinkIdOf(r, packet) = LinkOf(p.from)
    BY <1>3, <1>4, ReadRequestPacket DEF LinkIdOf, LinkOf
  <2>2. CopyRpcMeta(GetMeta(packet)) = RequestMeta(p.id) /\ GetBinary(packet) = Body(p)
    BY <1>3, ReadRequestPacket
  <2> QED BY <2>1, <2>2 DEF Entry
<1>6. /\ KeepsUp(q) /\ KeepsFrom(q) /\ \A d \in Channels : KeepsDown(q, d)
      /\ (IsHeard(q.from) => IsHeard(q.from)')
  BY <1>1, SameLines, SameHeard
<1>7. /\ q.from \in Channels /\ at'[q.from] = at[q.from] /\ at[q.from].route \in Routes
      /\ Forwarded(q)' = Forwarded(q) /\ Entry(q)' = Entry(q)
  BY SameForms
<1> HIDE DEF packet, entry
<1>9. CASE q # p
  <2>1. KeepsTo(q)
    <3>1. CASE at[q.from].route = r
      <4>1. Forwarded(q) # packet
        BY <1>3, <1>9, SameRequest
      <4>2. Keeps(to_server[r], to_server'[r], Forwarded(q))
        BY <1>1, <1>2, <4>1, LineKeeps DEF packet
      <4> QED BY <3>1, <4>2 DEF KeepsTo
    <3>2. CASE at[q.from].route # r
      BY <1>2, <1>7, <3>2 DEF KeepsTo, Keeps
    <3> QED BY <3>1, <3>2
  <2>2. KeepsQueued(q)
    <3>1. Entry(p) # Entry(q)
      BY <1>9, SameRequest
    <3>2. Keeps(packet_queue, packet_queue', Entry(q))
      BY <1>1, <1>2, <1>5, <3>1, LineKeeps
    <3> QED BY <3>2 DEF KeepsQueued
  <2> QED BY <1>6, <2>1, <2>2, QuietMoves
<1>10. CASE q = p
  <2>1. IsTo(q) /\ ~IsTo(q)' /\ One(to_server[at[q.from].route], Forwarded(q))'
    <3>1. Forwarded(q) = Head(to_server[r]) /\ One(to_server[r], Forwarded(q))
      BY <1>3, <1>4, <1>10 DEF packet, OneEach
    <3>2. Has(to_server[r], Forwarded(q)) /\ ~Has(to_server'[r], Forwarded(q))
          /\ One(to_server'[r], Forwarded(q))
      BY <1>1, <1>2, <3>1, HasTail
    <3> QED BY <1>4, <1>7, <1>10, <3>2 DEF IsTo
  <2>2. ~IsUp(q) /\ ~IsQueued(q) /\ ~IsFrom(q) /\ \A d \in Channels : ~IsDown(q, d)
    BY <2>1 DEF Apart
  <2>3. IsQueued(q)' /\ One(packet_queue, Entry(q))'
    <3>1. One(packet_queue, Entry(q)) /\ ~Has(packet_queue, Entry(q))
      BY <2>2 DEF OneEach, IsQueued
    <3>2. Has(packet_queue', Entry(q)) /\ One(packet_queue', Entry(q))
      BY <1>1, <1>2, <1>5, <1>10, <3>1, HasAppend
    <3> QED BY <1>7, <3>2 DEF IsQueued
  <2>5. /\ (IsUp(q)' <=> IsUp(q)) /\ One(up[q.from], Request(q))'
        /\ (IsFrom(q)' <=> IsFrom(q)) /\ One(from_server[at[q.from].route], Answer(q))'
        /\ \A d \in Channels : (IsDown(q, d)' <=> IsDown(q, d)) /\ One(down[d], Answer(q))'
    BY <1>6, PlaceKeeps
  <2>6. OneEach(q)'
    BY <2>1, <2>3, <2>5 DEF OneEach
  <2>7. Follows(q)
    BY <2>1, <2>2, <2>5, <2>6 DEF Follows
  <2>8. Stays(q)
    BY <1>6, <1>7, <2>2, <2>3, <2>5 DEF Stays
  <2> QED BY <2>7, <2>8
<1> QED BY <1>9, <1>10

LEMMA ServeMoves ==
  ASSUME ExchangeInv, Grows, NEW q \in Asked, OneEach(q), Apart(q), Serve
  PROVE  Follows(q) /\ Stays(q)
<1> DEFINE entry == Head(packet_queue)
           msg == ReadRequest(entry.binary).msg
           meta == ResponseMeta(entry.rpc_meta, IF msg.from \in Refused THEN msg ELSE NoBytes)
<1>1. /\ UNCHANGED <<up, down, to_server, service_2info, connected>> /\ packet_queue # <<>>
      /\ packet_queue' = Tail(packet_queue)
      /\ SendFromServer(SetToBag({entry.link_id}), meta, WriteResponse([msg |-> msg]))
  BY DEF Serve, services
<1>2. packet_queue \in Seq(Entries)
  BY DEF ExchangeInv, QueueInv
<1>3. PICK p \in Asked : entry = Entry(p)
  BY <1>1, <1>2, TailSeq DEF Entries
<1>4. /\ entry.link_id = LinkOf(p.from) /\ entry.rpc_meta = RequestMeta(p.id)
      /\ entry.binary = Body(p)
  BY <1>3 DEF Entry
<1>5. msg = p
  BY <1>4, ReadRequestPacket
<1>6. SendFromServer(SetToBag({LinkOf(p.from)}), ResponseMeta(RequestMeta(p.id), ErrorFor(p)),
                     WriteResponse([msg |-> p]))
  BY <1>1, <1>4, <1>5 DEF ErrorFor
<1> HIDE DEF entry, msg, meta
<1>7. \A r : Own(r, SetToBag({LinkOf(p.from)})) # {} <=> at[p.from].route = r
  BY OwnOfOne DEF ExchangeInv, Asked
<1>8. ASSUME NEW k \in Routes
      PROVE  from_server'[k] = IF k \in connected /\ k = at[p.from].route
                               THEN Append(from_server[k], Answer(p)) ELSE from_server[k]
  BY <1>6, <1>7 DEF SendFromServer, Answer
<1>9. /\ q.from \in Channels /\ at'[q.from] = at[q.from] /\ at[q.from].route \in Routes
      /\ Answer(q)' = Answer(q) /\ Entry(q)' = Entry(q)
  BY SameForms
<1>10. /\ KeepsUp(q) /\ KeepsTo(q) /\ \A d \in Channels : KeepsDown(q, d)
       /\ (IsHeard(q.from) => IsHeard(q.from)')
  BY <1>1, SameLines, SameHeard
<1> DEFINE k == at[q.from].route
<1>11. from_server[k] \in Seq(FromPackets(k))
  BY <1>9, Lines
<1>12. CASE q # p
  <2>1. KeepsQueued(q)
    <3>1. Entry(q) # Head(packet_queue)
      BY <1>3, <1>12, SameRequest DEF entry
    <3>2. Keeps(packet_queue, packet_queue', Entry(q))
      BY <1>1, <1>2, <3>1, LineKeeps
    <3> QED BY <3>2 DEF KeepsQueued
  <2>2. KeepsFrom(q)
    <3>1. Answer(p) # Answer(q)
      BY <1>12, AnswerTells
    <3>2. from_server'[k] = from_server[k] \/ from_server'[k] = Append(from_server[k], Answer(p))
      BY <1>8, <1>9
    <3> HIDE DEF k
    <3>3. Keeps(from_server[k], from_server'[k], Answer(q))
      BY <1>11, <3>1, <3>2, LineKeeps
    <3> QED BY <3>3 DEF KeepsFrom, k
  <2> QED BY <1>10, <2>1, <2>2, QuietMoves
<1>13. CASE q = p
  <2>1. IsQueued(q) /\ ~IsQueued(q)' /\ One(packet_queue, Entry(q))'
    <3>1. Entry(q) = Head(packet_queue) /\ One(packet_queue, Entry(q))
      BY <1>3, <1>13 DEF entry, OneEach
    <3>2. Has(packet_queue, Entry(q)) /\ ~Has(packet_queue', Entry(q))
          /\ One(packet_queue', Entry(q))
      BY <1>1, <1>2, <3>1, HasTail
    <3> QED BY <1>9, <3>2 DEF IsQueued
  <2>2. ~IsUp(q) /\ ~IsTo(q) /\ ~IsFrom(q) /\ \A d \in Channels : ~IsDown(q, d)
    BY <2>1 DEF Apart
  <2>3. /\ One(from_server[k], Answer(q))'
        /\ IsFrom(q)' \/ k \notin connected
    <3>1. One(from_server[k], Answer(q)) /\ ~Has(from_server[k], Answer(q))
      BY <2>2 DEF OneEach, IsFrom
    <3>2. CASE k \in connected
      <4>1. from_server'[k] = Append(from_server[k], Answer(q))
        BY <1>8, <1>9, <1>13, <3>2
      <4> HIDE DEF k
      <4>2. Has(from_server'[k], Answer(q)) /\ One(from_server'[k], Answer(q))
        BY <1>11, <3>1, <4>1, HasAppend
      <4> QED BY <1>9, <4>2 DEF IsFrom, k
    <3>3. CASE k \notin connected
      BY <1>8, <1>9, <3>1, <3>3
    <3> QED BY <3>2, <3>3
  <2>5. /\ (IsUp(q)' <=> IsUp(q)) /\ One(up[q.from], Request(q))'
        /\ (IsTo(q)' <=> IsTo(q)) /\ One(to_server[at[q.from].route], Forwarded(q))'
        /\ \A d \in Channels : (IsDown(q, d)' <=> IsDown(q, d)) /\ One(down[d], Answer(q))'
    BY <1>10, PlaceKeeps
  <2>6. OneEach(q)'
    BY <2>1, <2>3, <2>5 DEF OneEach
  <2>7. Follows(q)
    BY <2>1, <2>2, <2>5, <2>6 DEF Follows
  <2>8. Stays(q)
    BY <1>9, <1>10, <2>2, <2>3, <2>5 DEF Stays
  <2> QED BY <2>7, <2>8
<1> QED BY <1>12, <1>13

LEMMA RouteResponseMoves ==
  ASSUME ExchangeInv, Grows, NEW q \in Asked, OneEach(q), Apart(q),
         NEW r \in Routes, RouteResponse(r)
  PROVE  Follows(q) /\ Stays(q)
<1> DEFINE packet == Head(from_server[r])
           times(c) == Times(r, c, packet)
           targets == {d \in Channels : status[d] = "open" /\ at[d] = at[q.from]}
           k == at[q.from].route
<1>1. /\ UNCHANGED <<up, to_server, packet_queue, service_2info>> /\ from_server[r] # <<>>
      /\ from_server' = [from_server EXCEPT ![r] = Tail(@)]
      /\ GetNetInfo(packet).net_type = eNetType_Route
      /\ down' = [c \in Channels |-> down[c] \o Repeated(packet, times(c))]
  BY DEF RouteResponse, FromServer, services, server
<1>2. /\ from_server[r] \in Seq(FromPackets(r)) /\ from_server'[r] = Tail(from_server[r])
      /\ \A d \in Channels : down[d] \in Seq(DownPackets(d))
  BY <1>1 DEF ExchangeInv, FromInv, DownInv
<1>3. /\ q.from \in Channels /\ at'[q.from] = at[q.from] /\ k \in Routes
      /\ status[q.from] \in {"open", "left"} /\ Answer(q)' = Answer(q)
  BY SameForms DEF ExchangeInv, LinkInv
<1>4. /\ KeepsUp(q) /\ KeepsTo(q) /\ KeepsQueued(q)
      /\ (IsHeard(q.from) => IsHeard(q.from)')
  BY <1>1, SameLines, SameHeard
<1>5. CASE packet # Answer(q)
  <2>1. KeepsFrom(q)
    BY <1>1, <1>5, KeepsOtherFrom
  <2>2. ASSUME NEW d \in Channels PROVE KeepsDown(q, d)
    <3>1. times(d) \in Nat /\ (times(d) # 0 => packet \in DownPackets(d))
      BY <1>1, <1>2, TailSeq, NotACommand, ForTargets DEF ExchangeInv
    <3> HIDE DEF packet, times, targets
    <3>2. down'[d] = down[d] \o Repeated(packet, times(d))
      BY <1>1
    <3>3. Keeps(down[d], down'[d], Answer(q))
      BY <1>2, <1>5, <3>1, <3>2, OthersRepeat
    <3> QED BY <3>3 DEF KeepsDown
  <2> QED BY <1>4, <2>1, <2>2, QuietMoves
<1>6. CASE packet = Answer(q)
  <2>1. k = r
    <3>1. packet \in FromPackets(r)
      BY <1>1, <1>2, TailSeq
    <3>2. RequestId(packet) # RPC_REQUEST_ID_NULL
      BY <1>6, AnswerTells DEF Asked, RPC_REQUEST_ID_NULL
    <3>3. PICK p \in Asked : at[p.from].route = r /\ packet = Answer(p)
      BY <1>1, <3>1, <3>2, FromIsAnswer
    <3>4. p = q
      BY <1>6, <3>3, AnswerTells
    <3> QED BY <3>3, <3>4
  <2>2. ASSUME NEW d \in Channels
        PROVE  down'[d] = IF d \in targets THEN Append(down[d], Answer(q)) ELSE down[d]
    <3>1. times(d) = IF d \in targets THEN 1 ELSE 0
      BY <1>6, <2>1, AnswerTimes DEF ExchangeInv
    <3>2. down'[d] = down[d] \o Repeated(Answer(q), times(d))
      BY <1>1, <1>6
    <3> HIDE DEF packet, times, targets
    <3>3. CASE d \in targets
      <4> DEFINE T == DownPackets(d) \cup {Answer(q)}
      <4>1. down[d] \in Seq(T)
        BY <1>2, WiderSeq
      <4> HIDE DEF T
      <4>2. Answer(q) \in T
        BY DEF T
      <4>3. down[d] \o Repeated(Answer(q), 1) = Append(down[d], Answer(q))
        BY <4>1, <4>2, RepeatOnce
      <4> QED BY <3>1, <3>2, <3>3, <4>3
    <3>4. CASE d \notin targets
      BY <1>2, <3>1, <3>2, <3>4, RepeatNot
    <3> QED BY <3>3, <3>4
  <2>3. IsFrom(q) /\ ~IsFrom(q)' /\ One(from_server[at[q.from].route], Answer(q))'
    <3>1. Answer(q) = Head(from_server[r]) /\ One(from_server[r], Answer(q))
      BY <1>6, <2>1 DEF OneEach
    <3>2. Has(from_server[r], Answer(q)) /\ ~Has(from_server'[r], Answer(q))
          /\ One(from_server'[r], Answer(q))
      BY <1>1, <1>2, <3>1, HasTail
    <3> QED BY <1>3, <2>1, <3>2 DEF IsFrom
  <2>4. ~IsUp(q) /\ ~IsTo(q) /\ ~IsQueued(q) /\ \A d \in Channels : ~IsDown(q, d)
    BY <2>3 DEF Apart
  <2> HIDE DEF packet, times, targets
  <2>5. ASSUME NEW d \in Channels
        PROVE  /\ IsDown(q, d)' <=> d \in targets
               /\ One(down[d], Answer(q))'
    <3>1. One(down[d], Answer(q)) /\ ~Has(down[d], Answer(q))
      BY <2>4 DEF OneEach, IsDown
    <3>2. CASE d \in targets
      <4>1. down'[d] = Append(down[d], Answer(q))
        BY <2>2, <3>2
      <4>2. Has(down'[d], Answer(q)) /\ One(down'[d], Answer(q))
        BY <1>2, <3>1, <4>1, HasAppend
      <4> QED BY <1>3, <3>2, <4>2 DEF IsDown
    <3>3. CASE d \notin targets
      BY <1>3, <2>2, <3>1, <3>3 DEF IsDown
    <3> QED BY <3>2, <3>3
  <2>6. /\ \A d \in targets : status[d] = "open" /\ at[d] = at[q.from]
        /\ status[q.from] = "open" => q.from \in targets
    BY <1>3 DEF targets
  <2>7. /\ (IsUp(q)' <=> IsUp(q)) /\ One(up[q.from], Request(q))'
        /\ (IsTo(q)' <=> IsTo(q)) /\ One(to_server[at[q.from].route], Forwarded(q))'
        /\ (IsQueued(q)' <=> IsQueued(q)) /\ One(packet_queue, Entry(q))'
    BY <1>4, PlaceKeeps
  <2>8. OneEach(q)'
    BY <2>3, <2>5, <2>7 DEF OneEach
  <2>9. Follows(q)
    BY <2>3, <2>5, <2>6, <2>7, <2>8 DEF Follows
  <2>10. Stays(q)
    BY <1>3, <1>4, <2>4, <2>5, <2>6, <2>7 DEF Stays
  <2> QED BY <2>9, <2>10
<1> QED BY <1>5, <1>6

LEMMA DoRequestMoves ==
  ASSUME ExchangeInv, CallsInv, Grows, NEW q \in Asked, OneEach(q),
         NEW c \in Channels, DoRequestPacket(c)
  PROVE  Follows(q) /\ Stays(q)
<1> DEFINE packet == Head(down[c])
<1>1. /\ UNCHANGED <<up, to_server, from_server, packet_queue, service_2info>> /\ down[c] # <<>>
      /\ down' = [down EXCEPT ![c] = Tail(@)]
      /\ waiting' = [waiting EXCEPT ![c] = @ \ {RequestId(packet)}]
  BY DEF DoRequestPacket, Receive, routes, services, server
<1>2. /\ down[c] \in Seq(DownPackets(c)) /\ down'[c] = Tail(down[c])
      /\ \A d \in Channels : d # c => down'[d] = down[d]
  BY <1>1 DEF ExchangeInv, DownInv
<1>3. /\ q.from \in Channels /\ Answer(q)' = Answer(q)
  BY SameForms
<1>4. /\ KeepsUp(q) /\ KeepsTo(q) /\ KeepsQueued(q) /\ KeepsFrom(q)
      /\ (IsHeard(q.from) => IsHeard(q.from)')
  BY <1>1, SameLines, SameHeard
<1>5. \A d \in Channels : d # c => KeepsDown(q, d)
  BY <1>2 DEF KeepsDown, Keeps
<1>6. CASE packet # Answer(q)
  <2>1. Keeps(down[c], down'[c], Answer(q))
    BY <1>1, <1>2, <1>6, LineKeeps
  <2>2. KeepsDown(q, c)
    BY <2>1 DEF KeepsDown
  <2> QED BY <1>4, <1>5, <2>2, QuietMoves
<1>7. CASE packet = Answer(q)
  <2>1. ~IsDown(q, c)' /\ One(down[c], Answer(q))'
    <3>1. One(down[c], Answer(q)) /\ Answer(q) = Head(down[c])
      BY <1>7 DEF OneEach
    <3>2. ~Has(down'[c], Answer(q)) /\ One(down'[c], Answer(q))
      BY <1>1, <1>2, <3>1, HasTail
    <3> QED BY <1>3, <3>2 DEF IsDown
  <2>2. \A d \in Channels : /\ IsDown(q, d)' => IsDown(q, d)
                            /\ One(down[d], Answer(q))'
                            /\ d # c => (IsDown(q, d)' <=> IsDown(q, d))
    BY <1>5, <2>1, PlaceKeeps
  <2>3. /\ (IsUp(q)' <=> IsUp(q)) /\ One(up[q.from], Request(q))'
        /\ (IsTo(q)' <=> IsTo(q)) /\ One(to_server[at[q.from].route], Forwarded(q))'
        /\ (IsQueued(q)' <=> IsQueued(q)) /\ One(packet_queue, Entry(q))'
        /\ (IsFrom(q)' <=> IsFrom(q)) /\ One(from_server[at[q.from].route], Answer(q))'
    BY <1>4, PlaceKeeps
  <2>4. q.from = c => q.id \notin waiting'[q.from]
    <3>1. RequestId(packet) = q.id
      BY <1>7, AnswerTells
    <3> QED BY <1>1, <3>1 DEF CallsInv
  <2>5. OneEach(q)'
    BY <2>2, <2>3 DEF OneEach
  <2>6. Follows(q)
    BY <2>2, <2>3, <2>5 DEF Follows
  <2>7. Stays(q)
    BY <1>3, <1>4, <2>2, <2>3, <2>4 DEF Stays
  <2> QED BY <2>6, <2>7
<1> QED BY <1>6, <1>7

LEMMA DoRegisterMoves ==
  ASSUME ExchangeInv, Grows, NEW q \in Asked, OneEach(q),
         NEW c \in Channels, DoRegisterPacket(c)
  PROVE  Follows(q) /\ Stays(q)
<1>1. /\ UNCHANGED <<up, to_server, from_server, packet_queue, service_2info>> /\ down[c] # <<>>
      /\ down' = [down EXCEPT ![c] = Tail(@)]
      /\ RequestId(Head(down[c])) = RPC_REQUEST_ID_NULL
  BY DEF DoRegisterPacket, Receive, routes, services, server
<1>2. /\ down[c] \in Seq(DownPackets(c)) /\ down'[c] = Tail(down[c])
      /\ \A d \in Channels : d # c => down'[d] = down[d]
  BY <1>1 DEF ExchangeInv, DownInv
<1>3. Answer(q) # Head(down[c])
  BY <1>1, AnswerTells DEF Asked, RPC_REQUEST_ID_NULL
<1>4. Keeps(down[c], down'[c], Answer(q))
  BY <1>1, <1>2, <1>3, LineKeeps
<1>5. \A d \in Channels : KeepsDown(q, d)
  BY <1>2, <1>4 DEF KeepsDown, Keeps
<1>6. /\ KeepsUp(q) /\ KeepsTo(q) /\ KeepsQueued(q) /\ KeepsFrom(q)
      /\ (IsHeard(q.from) => IsHeard(q.from)')
  BY <1>1, SameLines, SameHeard
<1> QED BY <1>5, <1>6, QuietMoves

LEMMA OnDisconnectMoves ==
  ASSUME ExchangeInv, ServicesInv, Grows, NEW q \in Asked, OneEach(q),
         NEW r \in Routes, OnDisconnect(r)
  PROVE  Follows(q) /\ Stays(q)
<1> DEFINE k == at[q.from].route
<1>1. /\ UNCHANGED <<up, down, packet_queue>> /\ connected' = connected \ {r}
      /\ to_server' = [to_server EXCEPT ![r] = <<>>]
      /\ from_server' = [from_server EXCEPT ![r] = <<>>]
      /\ service_2info' = [service_2info EXCEPT ![r] = {}]
  BY DEF OnDisconnect, server
<1>2. /\ q.from \in Channels /\ at'[q.from] = at[q.from] /\ k \in Routes
      /\ Forwarded(q)' = Forwarded(q) /\ Answer(q)' = Answer(q)
  BY SameForms
<1>3. /\ KeepsUp(q) /\ KeepsQueued(q) /\ \A d \in Channels : KeepsDown(q, d)
  BY <1>1, SameLines
<1>4. CASE k = r
  <2>1. /\ to_server'[k] = <<>> /\ from_server'[k] = <<>>
    BY <1>1, <1>2, <1>4 DEF ExchangeInv, ToInv, FromInv
  <2>2. /\ ~IsTo(q)' /\ One(to_server[k], Forwarded(q))'
        /\ ~IsFrom(q)' /\ One(from_server[k], Answer(q))'
    BY <1>2, <2>1, HasEmpty DEF IsTo, IsFrom
  <2>3. /\ (IsUp(q)' <=> IsUp(q)) /\ One(up[q.from], Request(q))'
        /\ (IsQueued(q)' <=> IsQueued(q)) /\ One(packet_queue, Entry(q))'
        /\ \A d \in Channels : (IsDown(q, d)' <=> IsDown(q, d)) /\ One(down[d], Answer(q))'
    BY <1>3, PlaceKeeps
  <2>4. OneEach(q)'
    BY <2>2, <2>3 DEF OneEach
  <2>5. Follows(q)
    BY <2>2, <2>3, <2>4 DEF Follows
  <2>6. IsOut(q.from)'
    BY <1>1, <1>2, <1>4 DEF IsOut
  <2> QED BY <2>5, <2>6 DEF Stays
<1>5. CASE k # r
  <2>1. /\ to_server'[k] = to_server[k] /\ from_server'[k] = from_server[k]
        /\ service_2info'[k] = service_2info[k]
    BY <1>1, <1>2, <1>5 DEF ExchangeInv, ToInv, FromInv, ServicesInv
  <2>2. KeepsTo(q) /\ KeepsFrom(q)
    BY <2>1 DEF KeepsTo, KeepsFrom, Keeps
  <2>3. IsHeard(q.from) => IsHeard(q.from)'
    BY <1>2, <2>1 DEF IsHeard
  <2> QED BY <1>3, <2>2, <2>3, QuietMoves
<1> QED BY <1>4, <1>5

(* One place after the other. *)
LEMMA StepMoves ==
  ASSUME ExchangeInv, TypeInv, Next, NEW q \in Asked, OneEach(q), Apart(q)
  PROVE  Follows(q) /\ Stays(q)
<1>0. Grows
  BY StepGrows
<1> USE DEF TypeInv
<1>1. ASSUME NEW c \in Channels, NEW r \in Routes, NEW s \in Sockets, Connect(c, r, s)
      PROVE  Follows(q) /\ Stays(q)
  <2>1. UNCHANGED <<up, down, to_server, from_server, packet_queue, service_2info>>
    BY <1>1 DEF Connect, routes, services, server
  <2> QED BY <1>0, <2>1, NothingMoves
<1>2. ASSUME NEW c \in Channels, CallMethod(c) \/ Leave(c) PROVE Follows(q) /\ Stays(q)
  BY <1>0, <1>2, CallMethodMoves, LeaveMoves
<1>3. ASSUME NEW c \in Channels, NEW id \in 1..MaxRequests, Timeout(c, id)
      PROVE  Follows(q) /\ Stays(q)
  <2>1. UNCHANGED <<up, down, to_server, from_server, packet_queue, service_2info>>
    BY <1>3 DEF Timeout, routes, services, server
  <2> QED BY <1>0, <2>1, NothingMoves
<1>4. ASSUME NEW c \in Channels, RouteRequest(c) PROVE Follows(q) /\ Stays(q)
  BY <1>0, <1>4, RouteRequestMoves
<1>5. ASSUME NEW c \in Channels, ParsePacket(c) PROVE Follows(q) /\ Stays(q)
  BY <1>0, <1>5, DoRequestMoves, DoRegisterMoves DEF ParsePacket
<1>6. ASSUME NEW r \in Routes, RouteOnReceive(r) PROVE Follows(q) /\ Stays(q)
  BY <1>0, <1>6, RouteResponseMoves, RegisterMoves, DisconnectChannelMoves DEF RouteOnReceive
<1>7. ASSUME NEW r \in Routes, ReceiveRoutePacket(r) PROVE Follows(q) /\ Stays(q)
  BY <1>0, <1>7, ReceiveMoves
<1>8. ASSUME Serve PROVE Follows(q) /\ Stays(q)
  BY <1>0, <1>8, ServeMoves
<1>9. ASSUME NEW link_ids, SendRpcMessage(link_ids) PROVE Follows(q) /\ Stays(q)
  BY <1>0, <1>9, SendRpcMessageMoves
<1>10. ASSUME NEW link_id, Disconnect(link_id) PROVE Follows(q) /\ Stays(q)
  BY <1>0, <1>10, DisconnectMoves
<1>11. ASSUME NEW r \in Routes, OnDisconnect(r) PROVE Follows(q) /\ Stays(q)
  BY <1>0, <1>11, OnDisconnectMoves
<1> QED BY <1>1, <1>2, <1>3, <1>4, <1>5, <1>6, <1>7, <1>8, <1>9, <1>10, <1>11 DEF Next, Handle

(* An answer goes to whoever has the socket, which is the channel that      *)
(* asked, as long as it is there.                                           *)
SocketIsOnes == \A c, d \in Channels :
  status[c] = "open" /\ status[d] = "open" /\ at[c] = at[d] => c = d
AtHome(q) == \A d \in Channels : IsDown(q, d) /\ status[q.from] = "open" => d = q.from
SingleInv == /\ SocketIsOnes
             /\ \A q \in Asked : OneEach(q) /\ Apart(q) /\ AtHome(q)

LEMMA FollowsSingle ==
  ASSUME NEW q, q.from \in Channels, SocketIsOnes, OneEach(q), Apart(q), AtHome(q), Follows(q),
         status'[q.from] = "open" => status[q.from] = "open"
  PROVE  OneEach(q)' /\ Apart(q)' /\ AtHome(q)'
<1>1. OneEach(q)'
  BY DEF Follows
<1>2. ASSUME NEW d \in Channels, IsDown(q, d)'
      PROVE  /\ ~IsUp(q)' /\ ~IsTo(q)' /\ ~IsQueued(q)' /\ ~IsFrom(q)'
             /\ \A e \in Channels : IsDown(q, e)' => d = e
  <2>1. CASE IsDown(q, d)
    <3>1. /\ ~IsUp(q) /\ ~IsTo(q) /\ ~IsQueued(q) /\ ~IsFrom(q)
          /\ \A e \in Channels : IsDown(q, e) => d = e
      BY <2>1 DEF Apart
    <3> QED BY <3>1 DEF Follows
  <2>2. CASE ~IsDown(q, d)
    <3>1. IsFrom(q) /\ ~IsFrom(q)' /\ status[d] = "open" /\ at[d] = at[q.from]
      BY <1>2, <2>2 DEF Follows
    <3>2. ~IsUp(q) /\ ~IsTo(q) /\ ~IsQueued(q) /\ \A e \in Channels : ~IsDown(q, e)
      BY <3>1 DEF Apart
    <3>3. ASSUME NEW e \in Channels, IsDown(q, e)' PROVE d = e
      <4>1. status[e] = "open" /\ at[e] = at[q.from]
        BY <3>2, <3>3 DEF Follows
      <4> QED BY <3>1, <4>1 DEF SocketIsOnes
    <3> QED BY <3>1, <3>2, <3>3 DEF Follows
  <2> QED BY <2>1, <2>2
<1>3. /\ IsUp(q)' => ~IsTo(q)' /\ ~IsQueued(q)' /\ ~IsFrom(q)'
      /\ IsTo(q)' => ~IsQueued(q)' /\ ~IsFrom(q)'
      /\ IsQueued(q)' => ~IsFrom(q)'
  BY DEF Follows, Apart
<1>4. Apart(q)'
  BY <1>2, <1>3 DEF Apart
<1>5. AtHome(q)'
  <2> SUFFICES ASSUME NEW d \in Channels, IsDown(q, d)', status'[q.from] = "open"
               PROVE  d = q.from
    BY DEF AtHome
  <2>1. IsDown(q, d) \/ (status[d] = "open" /\ at[d] = at[q.from])
    BY DEF Follows
  <2> QED BY <2>1 DEF AtHome, SocketIsOnes
<1> QED BY <1>1, <1>4, <1>5

LEMMA OnlyCallsAsk ==
  ASSUME ExchangeInv, Next, \A c \in Channels : ~CallMethod(c)
  PROVE  request_id' = request_id
<1>1. ASSUME NEW c \in Channels, NEW r, NEW s, Connect(c, r, s) PROVE request_id' = request_id
  BY <1>1 DEF Connect, channel
<1>2. ASSUME NEW c \in Channels, Leave(c) \/ RouteRequest(c) \/ ParsePacket(c)
      PROVE  request_id' = request_id
  BY <1>2 DEF Leave, RouteRequest, ParsePacket, DoRequestPacket, DoRegisterPacket, channel
<1>3. ASSUME NEW c \in Channels, NEW id, Timeout(c, id) PROVE request_id' = request_id
  BY <1>3 DEF Timeout
<1>4. ASSUME NEW r \in Routes, RouteOnReceive(r) \/ ReceiveRoutePacket(r) \/ OnDisconnect(r)
      PROVE  request_id' = request_id
  BY <1>4 DEF RouteOnReceive, RouteResponse, ServerServiceRegister, ServerDisconnectChannelFunc,
              ReceiveRoutePacket, OnDisconnect, channel
<1>5. Serve => request_id' = request_id
  BY DEF Serve, channel
<1>6. ASSUME NEW x, SendRpcMessage(x) \/ Disconnect(x) PROVE request_id' = request_id
  BY <1>6 DEF SendRpcMessage, Disconnect, channel
<1> QED BY <1>1, <1>2, <1>3, <1>4, <1>5, <1>6 DEF Next, Handle

(* A new request is nowhere yet but in the packets of its channel.          *)
LEMMA NewIsSingle ==
  ASSUME ExchangeInv, NEW c \in Channels, CallMethod(c), NEW q \in Asked', q \notin Asked
  PROVE  OneEach(q)' /\ Apart(q)' /\ AtHome(q)'
<1> DEFINE id == request_id[c] + 1
           packet == BuildRpcPacket(ChannelNetInfo, RequestMeta(id), WriteRequest([msg |-> Asks(c, id)]))
<1>1. /\ UNCHANGED <<status, at, down, to_server, from_server, packet_queue>>
      /\ up' = [up EXCEPT ![c] = Append(@, packet)]
      /\ request_id' = [request_id EXCEPT ![c] = id]
  BY DEF CallMethod, links, routes, server, services
<1>2. q \in [from : Channels, id : Nat \ {0}] /\ q.from \in Channels
  BY DEF Asked
<1>3. q = Asks(c, id)
  <2>1. /\ status[q.from] # "new" /\ q.id <= request_id'[q.from] /\ ~(q.id <= request_id[q.from])
        /\ request_id \in [Channels -> Nat] /\ q.id \in Nat
    BY <1>1, <1>2 DEF Asked, ExchangeInv, LinkInv
  <2>2. q.from = c /\ q.id <= id /\ ~(q.id <= request_id[c]) /\ request_id[c] \in Nat
    BY <1>1, <2>1
  <2>3. q.id = id
    BY <2>1, <2>2
  <2> QED BY <1>2, <2>2, <2>3 DEF Asks
<1>4. packet = Request(q)
  BY <1>3 DEF Request, Body, Asks
<1>5. ~IsUp(q) /\ ~IsTo(q) /\ ~IsQueued(q) /\ ~IsFrom(q) /\ \A d \in Channels : ~IsDown(q, d)
  BY <1>2, OnlyAsked
<1>6. q.from = c
  BY <1>3 DEF Asks
<1> HIDE DEF packet, id
<1>7. One(up[q.from], Request(q))'
  <2>1. up[c] \in Seq(UpPackets(c)) /\ up'[c] = Append(up[c], packet)
    BY <1>1 DEF ExchangeInv, UpInv
  <2>2. One(up[c], Request(q)) /\ ~Has(up[c], Request(q))
    BY <1>5, <1>6 DEF IsUp, Has, One
  <2>3. One(up'[c], Request(q))
    BY <1>4, <2>1, <2>2, HasAppend
  <2>4. Request(q)' = Request(q)
    BY DEF Request
  <2> QED BY <1>6, <2>3, <2>4
<1>8. /\ Forwarded(q)' = Forwarded(q) /\ Entry(q)' = Entry(q) /\ Answer(q)' = Answer(q)
      /\ at' = at
  <2>1. at' = at /\ LinkOf(q.from)' = LinkOf(q.from) /\ Request(q)' = Request(q)
    BY <1>1 DEF LinkOf, Request
  <2> QED BY <2>1 DEF Forwarded, Entry, Answer
<1>9. ~IsTo(q)' /\ ~IsQueued(q)' /\ ~IsFrom(q)' /\ \A d \in Channels : ~IsDown(q, d)'
  BY <1>1, <1>5, <1>8 DEF IsTo, IsQueued, IsFrom, IsDown
<1>10. OneEach(q)'
  BY <1>7, <1>9 DEF OneEach, One, IsTo, IsQueued, IsFrom, IsDown, Has
<1> QED BY <1>9, <1>10 DEF Apart, AtHome

LEMMA StepSockets ==
  ASSUME ExchangeInv, Next, SocketIsOnes
  PROVE  SocketIsOnes' /\ \A c \in Channels : status'[c] = "open" => status[c] \in {"open", "new"}
<1> USE DEF SocketIsOnes, ExchangeInv, LinkInv
<1> DEFINE Goal == SocketIsOnes' /\ \A c \in Channels :
                     status'[c] = "open" => status[c] \in {"open", "new"}
<1>1. CASE UNCHANGED links
  BY <1>1 DEF links
<1>2. ASSUME NEW S, Close(S) PROVE Goal
  BY <1>2 DEF Close
<1>3. ASSUME NEW c \in Channels, NEW r \in Routes, NEW s \in Sockets, Connect(c, r, s) PROVE Goal
  <2>1. /\ status[c] = "new" /\ \A d \in Channels :
             ~(status[d] = "open" /\ at[d] = [route |-> r, socket |-> s])
        /\ status' = [status EXCEPT ![c] = "open"]
        /\ at' = [at EXCEPT ![c] = [route |-> r, socket |-> s]]
    BY <1>3 DEF Connect, Open
  <2> QED BY <2>1
<1>4. ASSUME NEW c \in Channels, CallMethod(c) \/ RouteRequest(c) \/ ParsePacket(c) PROVE Goal
  BY <1>1, <1>4 DEF CallMethod, RouteRequest, ParsePacket, DoRequestPacket, DoRegisterPacket
<1>5. ASSUME NEW c \in Channels, Leave(c) PROVE Goal
  BY <1>2, <1>5 DEF Leave
<1>6. ASSUME NEW c \in Channels, NEW id, Timeout(c, id) PROVE Goal
  BY <1>1, <1>6 DEF Timeout
<1>7. ASSUME NEW r \in Routes, RouteOnReceive(r) \/ ReceiveRoutePacket(r) \/ OnDisconnect(r) PROVE Goal
  <2>1. CASE ServerDisconnectChannelFunc(r)
    BY <1>2, <2>1 DEF ServerDisconnectChannelFunc
  <2>2. CASE ~ServerDisconnectChannelFunc(r)
    BY <1>1, <1>7, <2>2 DEF RouteOnReceive, RouteResponse, ServerServiceRegister,
                            ReceiveRoutePacket, OnDisconnect
  <2> QED BY <2>1, <2>2
<1>8. ASSUME Serve PROVE Goal
  BY <1>1, <1>8 DEF Serve
<1>9. ASSUME NEW x, SendRpcMessage(x) \/ Disconnect(x) PROVE Goal
  BY <1>1, <1>9 DEF SendRpcMessage, Disconnect
<1> HIDE DEF Goal
<1>10. Goal
  BY <1>3, <1>4, <1>5, <1>6, <1>7, <1>8, <1>9 DEF Next, Handle
<1> QED BY <1>10 DEF Goal

LEMMA StepSingle == ExchangeInv /\ TypeInv /\ SingleInv /\ [Next]_vars => SingleInv'
<1> SUFFICES ASSUME ExchangeInv, TypeInv, SingleInv, [Next]_vars PROVE SingleInv'
  OBVIOUS
<1>1. CASE UNCHANGED vars
  <2>1. UNCHANGED <<status, at, request_id, up, down, to_server, from_server, packet_queue>>
    BY <1>1 DEF vars, channel, links, routes, server
  <2>2. SocketIsOnes' /\ Asked' = Asked
    BY <2>1 DEF SingleInv, SocketIsOnes, Asked
  <2>3. ASSUME NEW q \in Asked PROVE OneEach(q)' /\ Apart(q)' /\ AtHome(q)'
    <3>1. OneEach(q) /\ Apart(q) /\ AtHome(q)
      BY DEF SingleInv
    <3>2. LinkOf(q.from)' = LinkOf(q.from) /\ Request(q)' = Request(q)
      BY <2>1 DEF LinkOf, Request
    <3>3. Forwarded(q)' = Forwarded(q) /\ Entry(q)' = Entry(q) /\ Answer(q)' = Answer(q)
      BY <2>1, <3>2 DEF Forwarded, Entry, Answer
    <3>4. /\ IsUp(q)' = IsUp(q) /\ IsTo(q)' = IsTo(q) /\ IsQueued(q)' = IsQueued(q)
          /\ IsFrom(q)' = IsFrom(q) /\ \A d : IsDown(q, d)' = IsDown(q, d)
      BY <2>1, <3>2, <3>3 DEF IsUp, IsTo, IsQueued, IsFrom, IsDown
    <3>5. OneEach(q)'
      BY <2>1, <3>1, <3>2, <3>3 DEF OneEach
    <3> QED BY <2>1, <3>1, <3>4, <3>5 DEF Apart, AtHome
  <2> QED BY <2>2, <2>3 DEF SingleInv
<1>2. CASE Next
  <2>1. /\ SocketIsOnes' /\ SocketIsOnes
        /\ \A c \in Channels : status'[c] = "open" => status[c] \in {"open", "new"}
    BY <1>2, StepSockets DEF SingleInv
  <2>2. ASSUME NEW q \in Asked' PROVE OneEach(q)' /\ Apart(q)' /\ AtHome(q)'
    <3>1. CASE q \in Asked
      <4>1. OneEach(q) /\ Apart(q) /\ AtHome(q)
        BY <3>1 DEF SingleInv
      <4>2. Follows(q)
        BY <1>2, <3>1, <4>1, StepMoves
      <4>3. q.from \in Channels /\ (status'[q.from] = "open" => status[q.from] = "open")
        BY <2>1, <3>1 DEF Asked
      <4> QED BY <2>1, <4>1, <4>2, <4>3, FollowsSingle
    <3>2. CASE q \notin Asked
      <4>1. PICK c \in Channels : CallMethod(c)
        <5> SUFFICES ASSUME \A c \in Channels : ~CallMethod(c) PROVE FALSE
          OBVIOUS
        <5>1. request_id' = request_id
          BY <1>2, OnlyCallsAsk
        <5>2. /\ q.from \in Channels /\ q.id \in Nat \ {0} /\ q.id <= request_id[q.from]
              /\ status[q.from] = "new"
          BY <3>2, <5>1 DEF Asked
        <5>3. request_id[q.from] = 0
          BY <5>2 DEF ExchangeInv, NewInv
        <5> QED BY <5>2, <5>3
      <4> QED BY <3>2, <4>1, NewIsSingle
    <3> QED BY <3>1, <3>2
  <2> QED BY <2>1, <2>2 DEF SingleInv
<1> QED BY <1>1, <1>2

LEMMA InitSingle == Init => SingleInv
<1> SUFFICES ASSUME Init PROVE SingleInv
  OBVIOUS
<1>1. \A c \in Channels : status[c] = "new"
  BY DEF Init
<1>2. Asked = {}
  BY <1>1 DEF Asked
<1> QED BY <1>1, <1>2 DEF SingleInv, SocketIsOnes

LEMMA SingleInvariant == Spec => [](ExchangeInv /\ TypeInv /\ SingleInv)
<1>1. Init => ExchangeInv /\ TypeInv /\ SingleInv
  BY InitInv, InitTypes, InitSingle
<1>2. ExchangeInv /\ TypeInv /\ SingleInv /\ [Next]_vars => (ExchangeInv /\ TypeInv /\ SingleInv)'
  BY StepInv, StepTypes, StepSingle
<1> QED BY <1>1, <1>2, PTL DEF Spec

LEMMA PlaceTells ==
  ASSUME ExchangeInv, NEW q \in Asked, NEW x \in Places(q.from, q.id)
  PROVE  \/ \E i \in DOMAIN up[q.from] : x = <<"up", i>> /\ up[q.from][i] = Request(q)
         \/ \E i \in DOMAIN to_server[at[q.from].route] :
              x = <<"to_server", i>> /\ to_server[at[q.from].route][i] = Forwarded(q)
         \/ \E i \in DOMAIN packet_queue : x = <<"packet_queue", i>> /\ packet_queue[i] = Entry(q)
         \/ \E i \in DOMAIN from_server[at[q.from].route] :
              x = <<"from_server", i>> /\ from_server[at[q.from].route][i] = Answer(q)
         \/ \E d \in Channels : \E i \in DOMAIN down[d] :
              x = <<"down", d, i>> /\ down[d][i] = Answer(q)
<1> DEFINE c == q.from
           r == at[c].route
<1>1. /\ c \in Channels /\ r \in Routes /\ Asks(c, q.id) = q
  BY DEF Asked, Asks, ExchangeInv, LinkInv
<1>2. ASSUME NEW i \in DOMAIN up[c], RequestId(up[c][i]) = q.id PROVE up[c][i] = Request(q)
  <2>1. up[c][i] \in UpPackets(c)
    BY <1>1, Lines, InSeq
  <2>2. PICK p \in AskedBy(c) : up[c][i] = Request(p)
    BY <2>1 DEF UpPackets
  <2>3. p = q
    <3>1. p.id = q.id /\ p.from = c
      BY <1>2, <2>2, RequestTells DEF AskedBy
    <3> QED BY <3>1 DEF AskedBy, Asked
  <2> QED BY <2>2, <2>3
<1>3. ASSUME NEW i \in DOMAIN to_server[r], ReadRequest(GetBinary(to_server[r][i])).msg = q
      PROVE  to_server[r][i] = Forwarded(q)
  <2>1. to_server[r][i] \in ToPackets(r)
    BY <1>1, Lines, InSeq
  <2>2. PICK p : to_server[r][i] = Forwarded(p)
    BY <2>1 DEF ToPackets
  <2> QED BY <1>3, <2>2, RequestTells
<1>4. ASSUME NEW i \in DOMAIN packet_queue, ReadRequest(packet_queue[i].binary).msg = q
      PROVE  packet_queue[i] = Entry(q)
  <2>1. packet_queue[i] \in Entries
    BY InSeq DEF ExchangeInv, QueueInv
  <2>2. PICK p : packet_queue[i] = Entry(p)
    BY <2>1 DEF Entries
  <2> QED BY <1>4, <2>2, RequestTells
<1>5. ASSUME NEW i \in DOMAIN from_server[r], IsAnswerTo(from_server[r][i], q)
      PROVE  from_server[r][i] = Answer(q)
  <2>1. from_server[r][i] \in FromPackets(r)
    BY <1>1, Lines, InSeq
  <2>2. PICK p : from_server[r][i] = Answer(p)
    BY <1>1, <1>5, <2>1, FromIsAnswer DEF IsAnswerTo
  <2> QED BY <1>5, <2>2, AnswerTells DEF IsAnswerTo
<1>6. ASSUME NEW d \in Channels, NEW i \in DOMAIN down[d], IsAnswerTo(down[d][i], q)
      PROVE  down[d][i] = Answer(q)
  <2>1. down[d][i] \in DownPackets(d)
    BY InSeq DEF ExchangeInv, DownInv
  <2>2. PICK p : down[d][i] = Answer(p)
    BY <1>6, <2>1, DownIsAnswer DEF IsAnswerTo
  <2> QED BY <1>6, <2>2, AnswerTells DEF IsAnswerTo
<1>7. \/ \E i \in DOMAIN up[c] : RequestId(up[c][i]) = q.id /\ x = <<"up", i>>
      \/ \E i \in DOMAIN to_server[r] :
           ReadRequest(GetBinary(to_server[r][i])).msg = q /\ x = <<"to_server", i>>
      \/ \E i \in DOMAIN packet_queue :
           ReadRequest(packet_queue[i].binary).msg = q /\ x = <<"packet_queue", i>>
      \/ \E i \in DOMAIN from_server[r] :
           IsAnswerTo(from_server[r][i], q) /\ x = <<"from_server", i>>
      \/ \E d \in Channels : \E i \in DOMAIN down[d] :
           IsAnswerTo(down[d][i], q) /\ x = <<"down", d, i>>
  BY <1>1 DEF Places
<1> QED BY <1>2, <1>3, <1>4, <1>5, <1>6, <1>7

LEMMA PlacesAre ==
  ASSUME ExchangeInv, NEW q \in Asked
  PROVE  Places(q.from, q.id) # {} <=>
           IsUp(q) \/ IsTo(q) \/ IsQueued(q) \/ IsFrom(q) \/ \E d \in Channels : IsDown(q, d)
<1> DEFINE c == q.from
           r == at[c].route
           some == IsUp(q) \/ IsTo(q) \/ IsQueued(q) \/ IsFrom(q) \/ \E d \in Channels : IsDown(q, d)
<1>1. ASSUME NEW x \in Places(c, q.id) PROVE some
  BY PlaceTells DEF IsUp, IsTo, IsQueued, IsFrom, IsDown, Has
<1>2. /\ ReadRequest(GetBinary(Forwarded(q))).msg = q /\ RequestId(Request(q)) = q.id
      /\ ReadRequest(Entry(q).binary).msg = q
  BY RequestTells
<1>3. IsAnswerTo(Answer(q), q)
  BY AnswerTells DEF IsAnswerTo, Asked, RPC_REQUEST_ID_NULL
<1>4. Asks(c, q.id) = q
  BY DEF Asks, Asked
<1>5. ASSUME NEW i \in DOMAIN up[c], up[c][i] = Request(q) PROVE <<"up", i>> \in Places(c, q.id)
  BY <1>2, <1>5 DEF Places
<1>6. ASSUME NEW i \in DOMAIN to_server[r], to_server[r][i] = Forwarded(q)
      PROVE  <<"to_server", i>> \in Places(c, q.id)
  BY <1>2, <1>4, <1>6 DEF Places
<1>7. ASSUME NEW i \in DOMAIN packet_queue, packet_queue[i] = Entry(q)
      PROVE  <<"packet_queue", i>> \in Places(c, q.id)
  BY <1>2, <1>4, <1>7 DEF Places
<1>8. ASSUME NEW i \in DOMAIN from_server[r], from_server[r][i] = Answer(q)
      PROVE  <<"from_server", i>> \in Places(c, q.id)
  BY <1>3, <1>4, <1>8 DEF Places
<1>9. ASSUME NEW d \in Channels, NEW i \in DOMAIN down[d], down[d][i] = Answer(q)
      PROVE  <<"down", d, i>> \in Places(c, q.id)
  BY <1>3, <1>4, <1>9 DEF Places
<1> QED BY <1>1, <1>5, <1>6, <1>7, <1>8, <1>9 DEF IsUp, IsTo, IsQueued, IsFrom, IsDown, Has

(* What a channel asked is one of the requests made, while it has an id.     *)
LEMMA AsksIsAsked ==
  ASSUME ExchangeInv, NEW c \in Channels, NEW id \in 1..request_id[c]
  PROVE  Asks(c, id) \in Asked /\ Asks(c, id).from = c /\ Asks(c, id).id = id
<1>1. id \in Nat \ {0} /\ id <= request_id[c] /\ request_id[c] \in Nat
  BY DEF ExchangeInv, LinkInv
<1>2. status[c] # "new"
  BY <1>1 DEF ExchangeInv, NewInv
<1> QED BY <1>1, <1>2 DEF Asked, Asks

LEMMA PlaceIsOne ==
  ASSUME ExchangeInv, SingleInv, NEW q \in Asked,
         NEW x \in Places(q.from, q.id), NEW y \in Places(q.from, q.id)
  PROVE  x = y
<1> DEFINE c == q.from
           r == at[c].route
           AtUp(z) == \E i \in DOMAIN up[c] : z = <<"up", i>> /\ up[c][i] = Request(q)
           AtTo(z) == \E i \in DOMAIN to_server[r] :
                        z = <<"to_server", i>> /\ to_server[r][i] = Forwarded(q)
           AtQueue(z) == \E i \in DOMAIN packet_queue :
                           z = <<"packet_queue", i>> /\ packet_queue[i] = Entry(q)
           AtFrom(z) == \E i \in DOMAIN from_server[r] :
                          z = <<"from_server", i>> /\ from_server[r][i] = Answer(q)
           AtDown(z) == \E d \in Channels : \E i \in DOMAIN down[d] :
                          z = <<"down", d, i>> /\ down[d][i] = Answer(q)
<1>1. OneEach(q) /\ Apart(q)
  BY DEF SingleInv
<1>2. \A z \in {x, y} : AtUp(z) \/ AtTo(z) \/ AtQueue(z) \/ AtFrom(z) \/ AtDown(z)
  BY PlaceTells
<1>3. \A z : /\ AtUp(z) => IsUp(q)
             /\ AtTo(z) => IsTo(q)
             /\ AtQueue(z) => IsQueued(q)
             /\ AtFrom(z) => IsFrom(q)
             /\ AtDown(z) => \E d \in Channels : IsDown(q, d)
  BY DEF IsUp, IsTo, IsQueued, IsFrom, IsDown, Has
<1>4. AtUp(x) /\ AtUp(y) => x = y
  BY <1>1 DEF OneEach, One
<1>5. AtTo(x) /\ AtTo(y) => x = y
  BY <1>1 DEF OneEach, One
<1>6. AtQueue(x) /\ AtQueue(y) => x = y
  BY <1>1 DEF OneEach, One
<1>7. AtFrom(x) /\ AtFrom(y) => x = y
  BY <1>1 DEF OneEach, One
<1>8. ASSUME AtDown(x), AtDown(y) PROVE x = y
  <2>1. PICK d \in Channels : \E i \in DOMAIN down[d] :
               x = <<"down", d, i>> /\ down[d][i] = Answer(q)
    BY <1>8
  <2>2. PICK e \in Channels : \E i \in DOMAIN down[e] :
               y = <<"down", e, i>> /\ down[e][i] = Answer(q)
    BY <1>8
  <2>3. IsDown(q, d) /\ IsDown(q, e)
    BY <2>1, <2>2 DEF IsDown, Has
  <2>4. d = e
    BY <1>1, <2>3 DEF Apart
  <2> QED BY <1>1, <2>1, <2>2, <2>4 DEF OneEach, One
<1> HIDE DEF AtUp, AtTo, AtQueue, AtFrom, AtDown
<1> QED BY <1>1, <1>2, <1>3, <1>4, <1>5, <1>6, <1>7, <1>8 DEF Apart

(* RequestIsSingle: a request is in one place at most on its way up, at the  *)
(* server and on its way down, although routes reuse sockets and channels    *)
(* count their ids from one each.                                            *)
THEOREM RequestsAreSingle == Spec => []RequestIsSingle
<1>1. ExchangeInv /\ SingleInv => RequestIsSingle
  <2> SUFFICES ASSUME ExchangeInv, SingleInv, NEW c \in Channels, NEW id \in 1..request_id[c],
                      NEW x \in Places(c, id), NEW y \in Places(c, id)
               PROVE  x = y
    BY DEF RequestIsSingle
  <2>1. /\ Asks(c, id) \in Asked /\ Asks(c, id).from = c /\ Asks(c, id).id = id
    BY AsksIsAsked
  <2> QED BY <2>1, PlaceIsOne
<1> QED BY <1>1, SingleInvariant, PTL

(* So a request that is asked is somewhere when one of its packets is.       *)
PlacesSay == \A q \in Asked : Places(q.from, q.id) # {} <=>
  IsUp(q) \/ IsTo(q) \/ IsQueued(q) \/ IsFrom(q) \/ \E d \in Channels : IsDown(q, d)

(* RequestIsKept: no step loses a request that an open channel waits for,    *)
(* whose service the route knows.  It is somewhere until it is answered, or  *)
(* times out, or the channel leaves, or the server loses the route.          *)
THEOREM RequestsAreKept == Spec => RequestIsKept
<1> DEFINE Inv == ExchangeInv /\ TypeInv /\ SingleInv
           Step == \A c \in Channels : \A id \in waiting[c] :
                     Places(c, id) # {} /\ IsHeard(c) /\ ~IsOut(c) =>
                       \/ (Places(c, id) # {} /\ IsHeard(c))'
                       \/ id \notin waiting'[c] \/ IsOut(c)'
<1>1. Inv => PlacesSay
  BY PlacesAre DEF PlacesSay
<1>2. ASSUME Inv, PlacesSay, PlacesSay', Next PROVE Step
  <2> SUFFICES ASSUME NEW c \in Channels, NEW id \in waiting[c],
                      Places(c, id) # {}, IsHeard(c), ~IsOut(c), ~IsOut(c)', id \in waiting'[c]
               PROVE  (Places(c, id) # {} /\ IsHeard(c))'
    OBVIOUS
  <2> DEFINE q == Asks(c, id)
  <2>1. id \in 1..request_id[c]
    BY <1>2 DEF TypeInv, CallsInv
  <2>2. q \in Asked /\ q.from = c /\ q.id = id
    BY <1>2, <2>1, AsksIsAsked
  <2>3. Grows /\ LinkInv'
    BY <1>2, StepGrows
  <2>4. q \in Asked'
    BY <1>2, <2>2, <2>3 DEF Asked, Grows, ExchangeInv, LinkInv
  <2>5. IsUp(q) \/ IsTo(q) \/ IsQueued(q) \/ IsFrom(q) \/ \E d \in Channels : IsDown(q, d)
    BY <1>2, <2>2 DEF PlacesSay
  <2>6. OneEach(q) /\ Apart(q) /\ AtHome(q)
    BY <1>2, <2>2 DEF SingleInv
  <2>7. Stays(q)
    BY <1>2, <2>2, <2>6, StepMoves
  <2>8. status[c] = "open" /\ at[c].route \in connected
    BY <1>2, <2>2 DEF IsOut, Asked, ExchangeInv, LinkInv
  <2>9. \A d \in Channels : IsDown(q, d) => IsDown(q, c)
    BY <2>2, <2>6, <2>8 DEF AtHome
  <2> HIDE DEF q
  <2>10. /\ IsHeard(c)'
         /\ IsUp(q)' \/ IsTo(q)' \/ IsQueued(q)' \/ IsFrom(q)' \/ IsDown(q, c)'
    BY <2>2, <2>5, <2>7, <2>8, <2>9 DEF Stays
  <2>11. (Places(q.from, q.id) # {})'
    BY <1>2, <2>4, <2>10 DEF PlacesSay
  <2> QED BY <2>2, <2>10, <2>11
<1>3. Inv /\ PlacesSay /\ PlacesSay' /\ [Next]_vars => [Step]_vars
  BY <1>2
<1> QED BY <1>1, <1>3, SingleInvariant, PTL DEF Spec, RequestIsKept
-----------------------------------------------------------------------------
(* A note on its way stays on its line, or goes on to the next.              *)
LEMMA NoteIsSent ==
  ASSUME ExchangeInv, NEW c \in Channels, status[c] = "open", NEW r \in Routes, r = at[c].route,
         NEW p \in FromPackets(r), NEW n, IsNoteFor(p, n, c)
  PROVE  Times(r, c, p) \in Nat \ {0} /\ p \in DownPackets(c)
<1>1. p \in Answered(AskedVia(r)) \cup NotesVia(r)
  BY NotACommand DEF IsNoteFor
<1>2. p \notin Answered(AskedVia(r))
  BY AnswerTells DEF IsNoteFor, Answered, AskedVia, Asked, RPC_REQUEST_ID_NULL
<1>3. PICK m \in Nat, link_ids \in Vectors : p = NotePacket(r, m, link_ids)
  BY <1>1, <1>2 DEF NotesVia
<1>4. LinkOf(c) \in DOMAIN link_ids
  <2>1. MsgOf(p).links = link_ids
    BY <1>3, ReadNote DEF Note
  <2> QED BY <2>1, BagsAre DEF IsNoteFor
<1>5. Times(r, c, p) = Copies(LinkOf(c), link_ids)
  BY <1>3, NoteTimes DEF ExchangeInv
<1>6. Times(r, c, p) \in Nat \ {0}
  BY <1>4, <1>5, CopiesAre
<1> QED BY <1>1, <1>6, ForTargets DEF ExchangeInv

LEMMA NoteComesDown ==
  ASSUME ExchangeInv, Next, NEW c \in Channels, status[c] = "open", NEW r \in Routes,
         r = at[c].route, NEW p, Has(from_server[r], p), NEW n, IsNoteFor(p, n, c)
  PROVE  Has(from_server'[r], p) \/ Has(down'[c], p) \/ r \notin connected'
<1> DEFINE Goal == Has(from_server'[r], p) \/ Has(down'[c], p) \/ r \notin connected'
<1>0. from_server[r] \in Seq(FromPackets(r)) /\ DOMAIN from_server = Routes
  BY DEF ExchangeInv, FromInv
<1>1. CASE from_server'[r] = from_server[r]
  BY <1>1
<1>2. ASSUME NEW e, from_server'[r] = Append(from_server[r], e) PROVE Goal
  BY <1>0, <1>2, HasAppend
<1>3. ASSUME NEW k \in Routes, from_server[k] # <<>>,
             from_server' = [from_server EXCEPT ![k] = Tail(@)], k = r => p # Head(from_server[r])
      PROVE  Goal
  <2>1. CASE k # r
    BY <1>0, <1>1, <1>3, <2>1
  <2>2. CASE k = r
    BY <1>0, <1>3, <2>2, HasTail
  <2> QED BY <2>1, <2>2
<1>4. ASSUME NEW d \in Channels, NEW k, NEW s, Connect(d, k, s) PROVE Goal
  BY <1>1, <1>4 DEF Connect, routes
<1>5. ASSUME NEW d \in Channels, CallMethod(d) \/ Leave(d) \/ RouteRequest(d) \/ ParsePacket(d)
      PROVE  Goal
  BY <1>1, <1>5 DEF CallMethod, Leave, RouteRequest, ParsePacket, DoRequestPacket,
                    DoRegisterPacket, routes
<1>6. ASSUME NEW d \in Channels, NEW id, Timeout(d, id) PROVE Goal
  BY <1>1, <1>6 DEF Timeout, routes
<1>7. ASSUME NEW k \in Routes, RouteResponse(k) PROVE Goal
  <2> DEFINE packet == Head(from_server[k])
             times(d) == Times(k, d, packet)
  <2>1. /\ from_server[k] # <<>> /\ from_server' = [from_server EXCEPT ![k] = Tail(@)]
        /\ down' = [d \in Channels |-> down[d] \o Repeated(packet, times(d))]
    BY <1>7 DEF RouteResponse, FromServer
  <2>2. CASE k = r /\ p = packet
    <3>1. p \in FromPackets(r)
      BY <1>0, <2>1, <2>2, TailSeq
    <3>2. times(c) \in Nat \ {0} /\ packet \in DownPackets(c)
      BY <2>2, <3>1, NoteIsSent
    <3> HIDE DEF packet, times
    <3>3. down'[c] = down[c] \o Repeated(packet, times(c)) /\ down[c] \in Seq(DownPackets(c))
      BY <2>1 DEF ExchangeInv, DownInv
    <3>4. Has(down'[c], packet)
      BY <3>2, <3>3, HasRepeated
    <3> QED BY <2>2, <3>4
  <2>3. CASE ~(k = r /\ p = packet)
    BY <1>3, <2>1, <2>3
  <2> QED BY <2>2, <2>3
<1>8. ASSUME NEW k \in Routes, ServerServiceRegister(k) \/ ServerDisconnectChannelFunc(k)
      PROVE  Goal
  <2>1. /\ from_server[k] # <<>> /\ from_server' = [from_server EXCEPT ![k] = Tail(@)]
        /\ GetNetInfo(Head(from_server[k])).net_type = eNetType_RouteCmd
    BY <1>8 DEF ServerServiceRegister, ServerDisconnectChannelFunc, FromServerCmd, FromServer
  <2>2. GetNetInfo(p).net_type # eNetType_RouteCmd
    BY DEF IsNoteFor, eNetType_Route, eNetType_RouteCmd
  <2> QED BY <1>3, <2>1, <2>2
<1>9. ASSUME NEW k \in Routes, ReceiveRoutePacket(k) PROVE Goal
  BY <1>1, <1>9 DEF ReceiveRoutePacket
<1>10. ASSUME NEW link_ids, NEW meta, NEW body, SendFromServer(link_ids, meta, body) PROVE Goal
  BY <1>1, <1>2, <1>10 DEF SendFromServer
<1>11. Serve => Goal
  BY <1>10 DEF Serve
<1>12. ASSUME NEW link_ids, SendRpcMessage(link_ids) PROVE Goal
  BY <1>10, <1>12 DEF SendRpcMessage
<1>13. ASSUME NEW link_id, Disconnect(link_id) PROVE Goal
  <2>1. from_server'[r] = from_server[r] \/ \E e : from_server'[r] = Append(from_server[r], e)
    BY <1>0, <1>13 DEF Disconnect
  <2> QED BY <1>1, <1>2, <2>1
<1>14. ASSUME NEW k \in Routes, OnDisconnect(k) PROVE Goal
  <2>1. connected' = connected \ {k} /\ from_server' = [from_server EXCEPT ![k] = <<>>]
    BY <1>14 DEF OnDisconnect
  <2> QED BY <1>0, <1>1, <2>1
<1> HIDE DEF Goal
<1>15. Goal
  BY <1>4, <1>5, <1>6, <1>7, <1>8, <1>9, <1>11, <1>12, <1>13, <1>14 DEF Next, Handle, RouteOnReceive
<1> QED BY <1>15 DEF Goal

LEMMA NoteGetsHere ==
  ASSUME ExchangeInv, Next, NEW c \in Channels, status[c] = "open",
         NEW p, Has(down[c], p), NEW n, IsNoteFor(p, n, c)
  PROVE  Has(down'[c], p) \/ IsGiven(n, c)' \/ status'[c] = "left"
<1> DEFINE Goal == Has(down'[c], p) \/ IsGiven(n, c)' \/ status'[c] = "left"
<1>0. down[c] \in Seq(DownPackets(c)) /\ DOMAIN down = Channels
  BY DEF ExchangeInv, DownInv
<1>1. CASE down'[c] = down[c]
  BY <1>1
<1>2. ASSUME NEW S, Close(S) PROVE Goal
  BY <1>1, <1>2 DEF Close
<1>3. ASSUME NEW d \in Channels, NEW k, NEW s, Connect(d, k, s) PROVE Goal
  BY <1>1, <1>3 DEF Connect
<1>4. ASSUME NEW d \in Channels, CallMethod(d) \/ RouteRequest(d) PROVE Goal
  BY <1>1, <1>4 DEF CallMethod, RouteRequest
<1>5. ASSUME NEW d \in Channels, Leave(d) PROVE Goal
  BY <1>2, <1>5 DEF Leave
<1>6. ASSUME NEW d \in Channels, NEW id, Timeout(d, id) PROVE Goal
  BY <1>1, <1>6 DEF Timeout
<1>7. ASSUME NEW k \in Routes, RouteResponse(k) PROVE Goal
  <2> DEFINE packet == Head(from_server[k])
             times == Times(k, c, packet)
  <2>1. down'[c] = down[c] \o Repeated(packet, times)
    BY <1>7 DEF RouteResponse
  <2>2. times \in Nat /\ (times # 0 => packet \in DownPackets(c))
    BY <1>7, TailSeq, NotACommand, ForTargets DEF RouteResponse, FromServer, ExchangeInv, FromInv
  <2> HIDE DEF packet, times
  <2>3. Has(down'[c], p)
    BY <1>0, <2>1, <2>2, HasRepeated
  <2> QED BY <2>3
<1>8. ASSUME NEW k \in Routes, ServerServiceRegister(k) \/ ReceiveRoutePacket(k) \/ OnDisconnect(k)
      PROVE  Goal
  BY <1>1, <1>8 DEF ServerServiceRegister, ReceiveRoutePacket, OnDisconnect
<1>9. ASSUME NEW k \in Routes, ServerDisconnectChannelFunc(k) PROVE Goal
  BY <1>2, <1>9 DEF ServerDisconnectChannelFunc
<1>10. Serve => Goal
  BY <1>1 DEF Serve
<1>11. ASSUME NEW x, SendRpcMessage(x) \/ Disconnect(x) PROVE Goal
  BY <1>1, <1>11 DEF SendRpcMessage, Disconnect
<1>12. ASSUME NEW d \in Channels, Receive(d), d = c => p # Head(down[c]) PROVE Goal
  <2>1. down[d] # <<>> /\ down' = [down EXCEPT ![d] = Tail(@)]
    BY <1>12 DEF Receive
  <2>2. CASE d # c
    BY <1>0, <1>1, <2>1, <2>2
  <2>3. CASE d = c
    BY <1>0, <1>12, <2>1, <2>3, HasTail
  <2> QED BY <2>2, <2>3
<1>13. ASSUME NEW d \in Channels, DoRequestPacket(d) PROVE Goal
  <2>1. Receive(d) /\ RequestId(Head(down[d])) # RPC_REQUEST_ID_NULL
    BY <1>13 DEF DoRequestPacket
  <2> QED BY <1>12, <2>1 DEF IsNoteFor
<1>14. ASSUME NEW d \in Channels, DoRegisterPacket(d) PROVE Goal
  <2>1. Receive(d) /\ notes' = [notes EXCEPT ![d] = Append(@, MsgOf(Head(down[d])))]
    BY <1>14 DEF DoRegisterPacket
  <2>2. CASE d = c /\ p = Head(down[c])
    <3>1. /\ notes'[c] = Append(notes[c], MsgOf(p)) /\ notes[c] \in Seq(NotesOf(c))
          /\ MsgOf(p).number = n
      BY <2>1, <2>2 DEF ExchangeInv, NoteInv, IsNoteFor
    <3>2. /\ Len(notes[c]) + 1 \in DOMAIN notes'[c]
          /\ notes'[c][Len(notes[c]) + 1] = MsgOf(p)
      BY <3>1
    <3> QED BY <3>1, <3>2 DEF IsGiven
  <2>3. CASE ~(d = c /\ p = Head(down[c]))
    BY <1>12, <2>1, <2>3
  <2> QED BY <2>2, <2>3
<1> HIDE DEF Goal
<1>15. Goal
  BY <1>3, <1>4, <1>5, <1>6, <1>7, <1>8, <1>9, <1>10, <1>11, <1>13, <1>14
     DEF Next, Handle, RouteOnReceive, ParsePacket
<1> QED BY <1>15 DEF Goal

(* NoteIsKept: no step loses a note on its way to an open channel.  It stays *)
(* on its way until the channel is given it, or the channel leaves, or the   *)
(* server loses the route.                                                   *)
THEOREM NotesAreKept == Spec => NoteIsKept
<1> DEFINE Step == \A c \in Channels : \A n \in 1..sent :
                     status[c] = "open" /\ Comes(n, c) =>
                       Comes(n, c)' \/ IsGiven(n, c)' \/ IsOut(c)'
<1>1. ASSUME ExchangeInv, Next PROVE Step
  <2> SUFFICES ASSUME NEW c \in Channels, NEW n, status[c] = "open", Comes(n, c), ~IsOut(c)'
               PROVE  Comes(n, c)' \/ IsGiven(n, c)'
    OBVIOUS
  <2> DEFINE r == at[c].route
  <2>1. r \in Routes /\ at'[c] = at[c]
    BY <1>1, StepGrows DEF Grows, ExchangeInv, LinkInv
  <2>2. LinkOf(c)' = LinkOf(c)
    BY <2>1 DEF LinkOf
  <2>3. PICK p : (Has(from_server[r], p) \/ Has(down[c], p)) /\ IsNoteFor(p, n, c)
    BY DEF Comes, Has
  <2>4. IsNoteFor(p, n, c)'
    BY <2>2, <2>3 DEF IsNoteFor
  <2>5. status'[c] # "left" /\ r \in connected'
    BY <2>1 DEF IsOut
  <2>6. Has(from_server'[r], p) \/ Has(down'[c], p) \/ IsGiven(n, c)'
    BY <1>1, <2>1, <2>3, <2>5, NoteComesDown, NoteGetsHere
  <2> QED BY <2>1, <2>4, <2>6 DEF Comes, Has
<1>2. ExchangeInv /\ [Next]_vars => [Step]_vars
  BY <1>1
<1> QED BY <1>2, ExchangeInvariant, PTL DEF Spec, NoteIsKept
=============================================================================
