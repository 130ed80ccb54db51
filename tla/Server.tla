------------------------------- MODULE Server -------------------------------
(***************************************************************************)
(* A frrpc server (rpc/server.cpp): its work threads fetch the requests    *)
(* that arrived from the routes, call the service method, and send what it *)
(* answers back through the route.                                         *)
(*                                                                         *)
(* Each work thread owns one ServerController, one RpcMessage and one      *)
(* permanent done closure over the two, and uses them for every request:   *)
(* a method that keeps done runs it when the thread is elsewhere, and      *)
(* SendResponse then reads the two, without a lock, while the thread makes *)
(* them those of its next request.  So every step that changes one of them *)
(* and every read of SendResponse that matters is a step of the model.     *)
(*                                                                         *)
(* Requests are numbered in order of arrival; a request stands for its     *)
(* message, of which the model keeps whether ParseBinary accepts it.  Left *)
(* out: contents of messages, the failed flag and error text, network      *)
(* events other than requests, SendRpcMessage, and the routes (Route).     *)
(***************************************************************************)
EXTENDS LinkId, Sequences

CONSTANTS WorkThreads,     \* work_thread_num
          Sockets,         \* sockets that channels have at a route
          FetchNum,        \* packets fetched at once: 50 in the code
          Methods,         \* what methods do with done
          MaxRequests,     \* bound: requests received
          Quitting         \* AskToQuit and Stop may be called

Requests == 1..MaxRequests
Links == [route : 0..(RouteNum - 1), socket : Sockets]

(* A method runs done before it returns ("now"), twice ("twice"), after it  *)
(* returned ("later") or not at all ("never"); "bad": ParseBinary refuses.  *)
MethodKinds == {"now", "twice", "later", "never", "bad"}

ASSUME ServerConstants == /\ Sockets \subseteq Nat \ {0}
                          /\ FetchNum \in Nat \ {0}
                          /\ Methods \subseteq MethodKinds
                          /\ MaxRequests \in Nat
                          /\ Quitting \in BOOLEAN

VARIABLES
  arrived,         \* for each request: its route, socket and method
  message_queue,   \* RpcBaseNet::packet_queue_
  pc,              \* where each work thread is
  packet_queue,    \* its local queue
  cntl_link,       \* link_id of its controller, 0 is RPC_LINK_ID_NULL
  rpc_message,     \* the request its RpcMessage holds, 0 when it is cleared
  runs,            \* how often the current method still runs done
  kept,            \* done closures that methods keep, as <<thread, request>>
  sending,         \* calls of SendResponse that have passed its checks
  torn,            \* one of them met what another thread changed or deleted
  rpc_net,         \* rpc_net_ is not NULL
  run_thread,      \* run_thread_
  quit,            \* IsAskedToQuit()
  stop_pc,         \* where RunUntilQuit's thread is
  responses        \* for each request, the links its responses were sent
                   \* to, in order, and who ran the done closure

threads == <<pc, packet_queue, cntl_link, rpc_message, runs>>
closures == <<kept, sending, torn>>
stopping == <<rpc_net, run_thread, quit, stop_pc>>
vars == <<arrived, message_queue, threads, closures, stopping, responses>>

(* A call of SendResponse has found a message complete; it has not yet read *)
(* the link id, or has.  by: the method itself, or whoever kept done; then  *)
(* done is the request that closure was given for.                          *)
Unread == -1
Sends == [thread : WorkThreads, by : {"method", "kept"}, done : Requests,
          message : Requests, link_id : Nat \cup {Unread}]

Init == /\ arrived = <<>>
        /\ message_queue = <<>>
        /\ pc = [w \in WorkThreads |-> "fetch"]
        /\ packet_queue = [w \in WorkThreads |-> <<>>]
        /\ cntl_link = [w \in WorkThreads |-> 0]
        /\ rpc_message = [w \in WorkThreads |-> 0]
        /\ runs = [w \in WorkThreads |-> 0]
        /\ kept = {} /\ sending = {} /\ torn = FALSE
        /\ rpc_net = TRUE /\ run_thread = TRUE
        /\ quit = FALSE /\ stop_pc = "run"
        /\ responses = [q \in Requests |-> <<>>]
-----------------------------------------------------------------------------
(* External: a request arrives from a route.                                *)
(* RpcServer_Route_Client::ReceiveRoutePacket queues it under its link id.  *)
ReceiveRoutePacket(link, method) ==
  /\ rpc_net
  /\ Len(arrived) < MaxRequests
  /\ arrived' = Append(arrived, [route |-> link.route, socket |-> link.socket,
                                 method |-> method])
  /\ message_queue' = Append(message_queue,
                        [request |-> Len(arrived) + 1,
                         link_id |-> BuildLinkID(link.route, link.socket)])
  /\ UNCHANGED <<threads, closures, stopping, responses>>

(* A work thread goes to the network for packets only when it has no more,  *)
(* or when it was asked to quit.  It does not look whether rpc_net_ is NULL. *)
Idle(w) == pc[w] = "fetch" /\ (quit \/ packet_queue[w] = <<>>)
Smaller(m, n) == IF m < n THEN m ELSE n
Unfetched_KeepsLast(n) == SubSeq(message_queue, IF n = 0 THEN 1 ELSE n, Len(message_queue))
Unfetched(n) == SubSeq(message_queue, n + 1, Len(message_queue))
Fetch(w) ==
  LET n == Smaller(FetchNum, Len(message_queue))
  IN  /\ Idle(w) /\ run_thread /\ rpc_net
      /\ packet_queue' = [packet_queue EXCEPT ![w] = @ \o SubSeq(message_queue, 1, n)]
      /\ message_queue' = Unfetched(n)
      /\ UNCHANGED <<arrived, pc, cntl_link, rpc_message, runs, closures, stopping, responses>>

FetchFromNothing(w) ==
  /\ Idle(w) /\ run_thread /\ ~rpc_net
  /\ pc' = [pc EXCEPT ![w] = "crashed"]
  /\ UNCHANGED <<arrived, message_queue, packet_queue, cntl_link, rpc_message,
                 runs, closures, stopping, responses>>

EndThread(w) ==
  /\ Idle(w) /\ ~run_thread
  /\ pc' = [pc EXCEPT ![w] = "ended"]
  /\ UNCHANGED <<arrived, message_queue, packet_queue, cntl_link, rpc_message,
                 runs, closures, stopping, responses>>

SetLink_Once(w, link_id) == [cntl_link EXCEPT ![w] = IF @ = 0 THEN link_id ELSE @]
SetLink(w, link_id) == [cntl_link EXCEPT ![w] = link_id]

Take(w) ==
  /\ pc[w] = "fetch" /\ ~quit /\ packet_queue[w] # <<>>
  /\ cntl_link' = SetLink(w, Head(packet_queue[w]).link_id)
  /\ pc' = [pc EXCEPT ![w] = "parse"]
  /\ UNCHANGED <<arrived, message_queue, packet_queue, rpc_message, runs, closures,
                 stopping, responses>>

(* ParseBinary, and the start of CallMethod.  A request that does not parse *)
(* is logged; its link id stays in the controller.                          *)
ParseBinary(w) ==
  LET q == Head(packet_queue[w]).request
      method == arrived[q].method
  IN  /\ pc[w] = "parse"
      /\ packet_queue' = [packet_queue EXCEPT ![w] = Tail(@)]
      /\ IF method = "bad"
         THEN /\ pc' = [pc EXCEPT ![w] = "fetch"]
              /\ UNCHANGED <<rpc_message, runs, kept>>
         ELSE /\ rpc_message' = [rpc_message EXCEPT ![w] = q]
              /\ pc' = [pc EXCEPT ![w] = "method"]
              /\ runs' = [runs EXCEPT ![w] = CASE method = "now" -> 1
                                               [] method = "twice" -> 2
                                               [] OTHER -> 0]
              /\ kept' = IF method = "later" THEN kept \cup {<<w, q>>} ELSE kept
      /\ UNCHANGED <<arrived, message_queue, cntl_link, sending, torn, stopping,
                     responses>>

(* CallMethod has returned: the controller is reset, ... *)
Reset(w) ==
  /\ pc[w] = "method" /\ runs[w] = 0
  /\ pc' = [pc EXCEPT ![w] = "clear"]
  /\ cntl_link' = [cntl_link EXCEPT ![w] = 0]
  /\ UNCHANGED <<arrived, message_queue, packet_queue, rpc_message, runs, closures,
                 stopping, responses>>

(* ... and then the message cleared. *)
Clear(w) ==
  /\ pc[w] = "clear"
  /\ pc' = [pc EXCEPT ![w] = "fetch"]
  /\ rpc_message' = [rpc_message EXCEPT ![w] = 0]
  /\ UNCHANGED <<arrived, message_queue, packet_queue, cntl_link, runs, closures,
                 stopping, responses>>
-----------------------------------------------------------------------------
(* SendResponse: the checks, the read of the link id, and the send, which   *)
(* reads the message.  Whoever ran done in the thread's own method, no step *)
(* of that thread comes between the first two.                              *)
MayRespond(w) == rpc_net /\ cntl_link[w] # 0 /\ rpc_message[w] # 0

RunsLeft_Always(w) == TRUE
RunsLeft(w) == runs[w] > 0
RunDone(w) ==
  /\ pc[w] = "method" /\ RunsLeft(w)
  /\ IF MayRespond(w)
     THEN /\ sending' = sending \cup
                {[thread |-> w, by |-> "method", done |-> rpc_message[w],
                  message |-> rpc_message[w], link_id |-> cntl_link[w]]}
          /\ pc' = [pc EXCEPT ![w] = "send"]
          /\ UNCHANGED runs
     ELSE /\ runs' = [runs EXCEPT ![w] = @ - 1]
          /\ UNCHANGED <<pc, sending>>
  /\ UNCHANGED <<arrived, message_queue, packet_queue, cntl_link, rpc_message, kept,
                 torn, stopping, responses>>

(* Another thread runs a done closure that a method kept. *)
RunKeptDone(w, q) ==
  /\ <<w, q>> \in kept
  /\ pc[w] \notin {"ended", "crashed"}
  /\ kept' = kept \ {<<w, q>>}
  /\ sending' = IF MayRespond(w)
                THEN sending \cup {[thread |-> w, by |-> "kept", done |-> q,
                                    message |-> rpc_message[w], link_id |-> Unread]}
                ELSE sending
  /\ UNCHANGED <<arrived, message_queue, threads, torn, stopping, responses>>

ReadLink(s) ==
  /\ s \in sending /\ s.link_id = Unread
  /\ sending' = (sending \ {s}) \cup {[s EXCEPT !.link_id = cntl_link[s.thread]]}
  /\ UNCHANGED <<arrived, message_queue, threads, kept, torn, stopping, responses>>

(* getRouteClinet: a response to a route that does not exist is dropped. *)
RouteExists_NotLast(route) == route < RouteNum - 1
RouteExists(route) == route < RouteNum
Sent(s) ==
  LET q == rpc_message[s.thread]
      route == GetRouteID(s.link_id)
  IN  IF rpc_net /\ q # 0 /\ RouteExists(route)
      THEN [responses EXCEPT ![q] = Append(@, [route |-> route,
                                               socket |-> GetSocket(s.link_id),
                                               by |-> s.by])]
      ELSE responses

(* Undisturbed, this sends the message that was found complete.  If it was  *)
(* changed or rpc_net_ deleted meanwhile, or another call of SendResponse   *)
(* writes the same message, what is there now may be sent, or nothing, or   *)
(* the process ends here: torn says that it came to that.                   *)
Undisturbed(s) == /\ rpc_net /\ rpc_message[s.thread] = s.message
                  /\ \A t \in sending \ {s} : t.thread # s.thread
SendResponse(s) ==
  /\ s \in sending /\ s.link_id # Unread
  /\ sending' = sending \ {s}
  /\ torn' = (torn \/ ~Undisturbed(s))
  /\ responses' \in IF Undisturbed(s) THEN {Sent(s)} ELSE {Sent(s), responses}
  /\ UNCHANGED <<arrived, message_queue, packet_queue, cntl_link, rpc_message, kept,
                 stopping>>

EndDone(w) == /\ pc[w] = "send"
              /\ \E s \in sending : s.thread = w /\ s.by = "method" /\ SendResponse(s)
              /\ pc' = [pc EXCEPT ![w] = "method"]
              /\ runs' = [runs EXCEPT ![w] = @ - 1]
EndKeptDone(s) == s.by = "kept" /\ SendResponse(s) /\ UNCHANGED <<pc, runs>>
-----------------------------------------------------------------------------
(* RunUntilQuit and its Stop, or Stop alone: delete rpc_net_, clear         *)
(* run_thread_, join.                                                       *)
AskToQuit ==
  /\ Quitting /\ ~quit
  /\ quit' = TRUE
  /\ UNCHANGED <<arrived, message_queue, threads, closures, rpc_net, run_thread,
                 stop_pc, responses>>

DeleteNet ==
  /\ stop_pc = "run" /\ Quitting
  /\ rpc_net' = FALSE
  /\ stop_pc' = "deleted"
  /\ UNCHANGED <<arrived, message_queue, threads, closures, run_thread, quit, responses>>

StopThreads ==
  /\ stop_pc = "deleted"
  /\ run_thread' = FALSE
  /\ stop_pc' = "join"
  /\ UNCHANGED <<arrived, message_queue, threads, closures, rpc_net, quit, responses>>

Join ==
  /\ stop_pc = "join"
  /\ \A w \in WorkThreads : pc[w] = "ended"
  /\ stop_pc' = "stopped"
  /\ UNCHANGED <<arrived, message_queue, threads, closures, rpc_net, run_thread, quit,
                 responses>>
-----------------------------------------------------------------------------
WorkThread(w) == \/ Fetch(w)
                 \/ FetchFromNothing(w)
                 \/ EndThread(w)
                 \/ Take(w)
                 \/ ParseBinary(w)
                 \/ RunDone(w)
                 \/ EndDone(w)
                 \/ Reset(w)
                 \/ Clear(w)

Next == \/ \E link \in Links, method \in Methods : ReceiveRoutePacket(link, method)
        \/ \E w \in WorkThreads : WorkThread(w)
        \/ \E w \in WorkThreads, q \in Requests : RunKeptDone(w, q)
        \/ \E s \in sending : ReadLink(s) \/ EndKeptDone(s)
        \/ AskToQuit \/ DeleteNet \/ StopThreads \/ Join

Spec == Init /\ [][Next]_vars

(* The threads keep running; nothing makes a method run a done it kept.     *)
FairSpec == /\ Spec
            /\ \A w \in WorkThreads : WF_vars(WorkThread(w))
=============================================================================
