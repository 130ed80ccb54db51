------------------------------ MODULE Messages ------------------------------
(***************************************************************************)
(* The protocol buffer messages of frrpc (pb/net.proto, pb/route.proto,    *)
(* pb/frrpc.proto) and of the echo example (example/sync/echo.proto), as   *)
(* the code generated for proto3 writes, reads and copies them.            *)
(*                                                                         *)
(* A message is a record of all its fields, and a message type is its      *)
(* default instance.  The bytes of a message are the fields that were      *)
(* written, each with its value: those that differ from their default.     *)
(* So a message with nothing but defaults is no bytes at all.  A message   *)
(* inside another one is a field that holds its bytes.                     *)
(*                                                                         *)
(* Left out: tags and varints, the order of the fields, fields nobody      *)
(* knows, UTF-8, and failures to parse, which need bytes that no message   *)
(* was written to.  Whether a message inside another one is present is not *)
(* told apart from its being the default.  The elements of a repeated      *)
(* field are a bag: how often each is in it, and not in which order.       *)
(***************************************************************************)
EXTENDS Bags

(* CopiesIn of module Bags, which the prover's Bags does not have. *)
Copies(e, bag) == IF BagIn(e, bag) THEN bag[e] ELSE 0

NoBytes == <<>>            \* the empty string, or bytes of length zero

(* X::SerializeWithCachedSizes: a field is written if it is not default. *)
Written(message, type) ==
  [field \in {f \in DOMAIN type : message[f] # type[f]} |-> message[field]]

(* X::Clear, then X::MergePartialFromCodedStream. *)
Read(bytes, type) ==
  [field \in DOMAIN type |-> IF field \in DOMAIN bytes THEN bytes[field] ELSE type[field]]

(* X::MergeFrom copies the fields that are not default; X::CopyFrom merges  *)
(* into a message it has cleared.                                           *)
MergeFrom(message, from, type) ==
  [field \in DOMAIN type |-> IF from[field] # type[field] THEN from[field] ELSE message[field]]
CopyFrom(from, type) == MergeFrom(type, from, type)
-----------------------------------------------------------------------------
(* net.proto *)
eNetType_Tmp == 0
eNetType_Route == 1
eNetType_RouteCmd == 241
eNetType_Heart == 242
eNetType_RouteNotify == 244

NetInfo == [net_type |-> eNetType_Tmp, net_binary |-> NoBytes]
WriteNetInfo(m) == Written(m, NetInfo)
ReadNetInfo(bytes) == Read(bytes, NetInfo)
-----------------------------------------------------------------------------
(* route.proto *)
RouteNetInfo == [is_channel_packet |-> FALSE, service_name |-> NoBytes,
                 target_sockets |-> EmptyBag, source_socket |-> 0]
WriteRouteNetInfo(m) == Written(m, RouteNetInfo)
ReadRouteNetInfo(bytes) == Read(bytes, RouteNetInfo)

eRouteCmd_Tmp == 0
eRouteCmd_Channel_ServiceRegister == 1
eRouteCmd_Server_DisconnectChannel == 2
eRouteCmd_Server_ServiceRegister == 3

RouteCmdRequest == [cmd |-> eRouteCmd_Tmp, request_binary |-> NoBytes]
WriteRouteCmdRequest(m) == Written(m, RouteCmdRequest)
ReadRouteCmdRequest(bytes) == Read(bytes, RouteCmdRequest)

RouteCmdResponse == [cmd |-> eRouteCmd_Tmp]
WriteRouteCmdResponse(m) == Written(m, RouteCmdResponse)
ReadRouteCmdResponse(bytes) == Read(bytes, RouteCmdResponse)

ChannelServiceRegister == [service_name |-> NoBytes, service_addr |-> NoBytes]
WriteChannelServiceRegister(m) == Written(m, ChannelServiceRegister)
ReadChannelServiceRegister(bytes) == Read(bytes, ChannelServiceRegister)

ServerDisconnectChannel == [channel_socket |-> EmptyBag]
WriteServerDisconnectChannel(m) == Written(m, ServerDisconnectChannel)
ReadServerDisconnectChannel(bytes) == Read(bytes, ServerDisconnectChannel)

RouteServiceInfo == [name |-> NoBytes, addr |-> NoBytes]
WriteRouteServiceInfo(m) == Written(m, RouteServiceInfo)
ReadRouteServiceInfo(bytes) == Read(bytes, RouteServiceInfo)

eRouteNotifyType_Tmp == 0
eRouteNotifyType_Disconnect == 1
RouteNotify == [type |-> eRouteNotifyType_Tmp, data |-> NoBytes]
WriteRouteNotify(m) == Written(m, RouteNotify)
ReadRouteNotify(bytes) == Read(bytes, RouteNotify)

NotifyType_Disconnect == [socket |-> 0]
WriteNotifyType_Disconnect(m) == Written(m, NotifyType_Disconnect)
ReadNotifyType_Disconnect(bytes) == Read(bytes, NotifyType_Disconnect)
-----------------------------------------------------------------------------
(* frrpc.proto *)
RpcRequestMeta == [request_id |-> 0]
WriteRpcRequestMeta(m) == Written(m, RpcRequestMeta)
ReadRpcRequestMeta(bytes) == Read(bytes, RpcRequestMeta)

RpcResponseMeta == [error |-> NoBytes, failed |-> FALSE]
WriteRpcResponseMeta(m) == Written(m, RpcResponseMeta)
ReadRpcResponseMeta(bytes) == Read(bytes, RpcResponseMeta)

eCompressType_Not == 0
RpcMeta == [service_name |-> NoBytes, method_index |-> 0, rpc_request_meta |-> NoBytes,
            rpc_response_meta |-> NoBytes, compress_type |-> eCompressType_Not]
WriteRpcMeta(m) == Written(m, RpcMeta)
ReadRpcMeta(bytes) == Read(bytes, RpcMeta)
CopyRpcMeta(m) == CopyFrom(m, RpcMeta)
-----------------------------------------------------------------------------
(* echo.proto; the methods of its service are numbered. *)
Echo == 0
RegisterEcho == 1

request == [msg |-> NoBytes]
WriteRequest(m) == Written(m, request)
ReadRequest(bytes) == Read(bytes, request)

response == [msg |-> NoBytes]
WriteResponse(m) == Written(m, response)
ReadResponse(bytes) == Read(bytes, response)
=============================================================================
