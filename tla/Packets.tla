------------------------------ MODULE Packets ------------------------------
(***************************************************************************)
(* The packets of frrpc (public/rpc_serializable.cpp): how channels and    *)
(* servers build them from messages, and how they are taken apart again.   *)
(*                                                                         *)
(* A packet is its parts, in their serialized form: the NetInfo, and for a *)
(* packet of a call the RpcMeta and the body.  Sizes are left out: a part  *)
(* of size zero is NoBytes.                                                *)
(***************************************************************************)
EXTENDS Integers, Messages

CONSTANT NoPart            \* in place of the parts a command does not have

(* BuildBinaryFromMessage(net_info), (net_info, meta, body), (cmd, info). *)
BuildNetPacket(net_info) ==
  [net |-> WriteNetInfo(net_info), meta |-> NoPart, body |-> NoPart]
BuildRpcPacket(net_info, meta, body) ==
  [net |-> WriteNetInfo(net_info), meta |-> WriteRpcMeta(meta), body |-> body]
BuildCmdPacket(cmd, cmd_info) ==
  LET cmd_request == [cmd |-> cmd, request_binary |-> cmd_info]
  IN  BuildNetPacket([net_type |-> eNetType_RouteCmd,
                      net_binary |-> WriteRouteCmdRequest(cmd_request)])

(* GetMessageFromBinary, of packets whose parts are not empty. *)
GetNetInfo(packet) == ReadNetInfo(packet.net)
GetMeta(packet) == ReadRpcMeta(packet.meta)
GetBinary(packet) == packet.body

(* Commands to a route: CommandProcess, and the one of a channel that binds *)
(* itself to a server, whose effect is in module Route.                     *)
Command(packet) == ReadRouteCmdRequest(GetNetInfo(packet).net_binary)
RegisterServicePacket(service_name, service_addr) ==
  BuildCmdPacket(eRouteCmd_Channel_ServiceRegister,
                 WriteChannelServiceRegister([service_name |-> service_name,
                                              service_addr |-> service_addr]))
RegistrationOf(packet) == ReadChannelServiceRegister(Command(packet).request_binary)

(* What a server reads though no route sends it: doRouteCmd, which refuses  *)
(* every command, and the sockets of the disconnects in doRouteNotify.      *)
doRouteCmd(packet) ==
  [cmd |-> ReadRouteCmdResponse(GetNetInfo(packet).net_binary).cmd, handled |-> FALSE]
doRouteNotify(packet) ==
  LET notify == ReadRouteNotify(GetNetInfo(packet).net_binary)
  IN  IF notify.type = eRouteNotifyType_Disconnect
      THEN {ReadNotifyType_Disconnect(notify.data).socket}
      ELSE {}

HeartPacket == BuildNetPacket([net_type |-> eNetType_Heart, net_binary |-> NoBytes])

(* RpcRoute::BuildSendPacket: a new NetInfo before the rest of the packet. *)
BuildSendPacket(packet, net_info) == [packet EXCEPT !.net = WriteNetInfo(net_info)]
=============================================================================
