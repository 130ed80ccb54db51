-------------------------- MODULE ServerProperties --------------------------
(***************************************************************************)
(* What a server must do with the requests it receives: properties of      *)
(* Server.                                                                 *)
(***************************************************************************)
EXTENDS Server

Packets == [request : Requests, link_id : Nat]

TypeOK ==
  /\ arrived \in Seq([route : 0..(RouteNum - 1), socket : Sockets, method : Methods])
  /\ Len(arrived) <= MaxRequests
  /\ message_queue \in Seq(Packets)
  /\ pc \in [WorkThreads -> {"fetch", "parse", "method", "send", "clear", "ended", "crashed"}]
  /\ packet_queue \in [WorkThreads -> Seq(Packets)]
  /\ \A w \in WorkThreads : pc[w] = "parse" => packet_queue[w] # <<>>
  /\ cntl_link \in [WorkThreads -> Nat]
  /\ rpc_message \in [WorkThreads -> 0..MaxRequests]
  /\ runs \in [WorkThreads -> 0..2]
  /\ \A w \in WorkThreads : pc[w] = "send" => runs[w] > 0
  /\ kept \subseteq WorkThreads \X Requests
  /\ sending \subseteq Sends
  /\ {torn, rpc_net, run_thread, quit} \subseteq BOOLEAN
  /\ stop_pc \in {"run", "deleted", "join", "stopped"}
  /\ responses \in [Requests -> Seq([route : Nat, socket : Nat, by : {"method", "kept"}])]
-----------------------------------------------------------------------------
(* A response that a method sends before it returns carries the request id  *)
(* of the channel it goes to, whatever other methods do meanwhile with done *)
(* closures they kept, and whatever was refused before: the controller and  *)
(* the message that the work thread uses again are of one request for as    *)
(* long as a method runs.  What a kept done sends may be of two requests;   *)
(* still it goes only to a channel that asked, or, with the link id of a    *)
(* controller just reset, to socket 0 of route 0, which is nobody.          *)
(* (Sockets fit the link id, see LinkId.)                                   *)
AnswerGoesToAsker ==
  \A q \in Requests : \A i \in DOMAIN responses[q] :
     LET to == responses[q][i]
         Asked(p) == to.route = arrived[p].route /\ to.socket = arrived[p].socket
     IN  \/ to.by = "method" /\ Asked(q)
         \/ to.by = "kept" /\ \E p \in DOMAIN arrived : Asked(p)
         \/ to.by = "kept" /\ to.route = 0 /\ to.socket = 0

(* Work threads share the queue in batches, and each request goes through  *)
(* one of them, once.  So if methods run done at most once and before they  *)
(* return, no request is answered twice.                                    *)
DoneInTime == \A q \in DOMAIN arrived : arrived[q].method \notin {"twice", "later"}
AnsweredOnce == DoneInTime => \A q \in Requests : Len(responses[q]) <= 1

(* Unless somebody stops the server or asks it to quit, each request whose  *)
(* method runs done is answered by it, whatever the requests fetched        *)
(* together with it do, and whoever runs a done closure that he kept, as    *)
(* long as that meets no message that is being changed.                     *)
DoneIsAnswered ==
  \A q \in Requests :
    (q \in DOMAIN arrived /\ arrived[q].method = "now")
       ~> (\/ \E i \in DOMAIN responses[q] : responses[q][i].by = "method"
           \/ quit \/ stop_pc # "run" \/ torn)
=============================================================================
