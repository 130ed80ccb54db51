---------------------------- MODULE ServerProofs ----------------------------
(***************************************************************************)
(* Proofs about a server, for any number of threads, routes, sockets and   *)
(* requests: what a response says is what the channel asked.               *)
(***************************************************************************)
EXTENDS ServerProperties, LinkIdProofs

(* What a packet, a thread or a response holds of a request agrees with how *)
(* that request arrived.                                                    *)
SocketsFit == Sockets \subseteq 0..(LinkBase - 1)
ArrivedBy == [route : 0..(RouteNum - 1), socket : Sockets, method : Methods]
Asker(q) == [route |-> arrived[q].route, socket |-> arrived[q].socket]
LinkOf(q) == BuildLinkID(arrived[q].route, arrived[q].socket)
Known(q) == q \in Requests /\ q <= Len(arrived)
Genuine == {p \in Packets : Known(p.request) /\ p.link_id = LinkOf(p.request)}

ArrivedInv == arrived \in Seq(ArrivedBy) /\ Len(arrived) <= MaxRequests
QueueInv == /\ message_queue \in Seq(Genuine)
            /\ packet_queue \in [WorkThreads -> Seq(Genuine)]
KnownLinks == {LinkOf(q) : q \in {p \in Requests : Known(p)}}
Positions == {"fetch", "parse", "method", "send", "clear", "ended", "crashed"}
MessageInv == /\ pc \in [WorkThreads -> Positions]
              /\ rpc_message \in [WorkThreads -> 0..MaxRequests]
              /\ cntl_link \in [WorkThreads -> {0} \cup KnownLinks]
              /\ \A w \in WorkThreads :
                   /\ rpc_message[w] # 0 => Known(rpc_message[w])
                   /\ pc[w] = "parse" =>
                        /\ packet_queue[w] # <<>>
                        /\ cntl_link[w] = Head(packet_queue[w]).link_id
                   /\ pc[w] \in {"method", "send"} =>
                        rpc_message[w] # 0 /\ cntl_link[w] = LinkOf(rpc_message[w])

(* A method's own call of SendResponse is of the request that is handled; a *)
(* kept closure has read the link of some request, or of none.              *)
OwnSend(w) == [thread |-> w, by |-> "method", done |-> rpc_message[w],
               message |-> rpc_message[w], link_id |-> cntl_link[w]]
SendInv == /\ sending \subseteq Sends
           /\ \A s \in sending :
                /\ s.by = "method" => pc[s.thread] = "send" /\ s = OwnSend(s.thread)
                /\ s.link_id \in {Unread, 0} \cup KnownLinks

(* Where a response to request q may go.                                    *)
Goes(to, p) == to.route = arrived[p].route /\ to.socket = arrived[p].socket
Targets(q) == {to \in [route : Nat, socket : Nat, by : {"method", "kept"}] :
                 \/ to.by = "method" /\ Goes(to, q)
                 \/ to.by = "kept" /\ \E p \in DOMAIN arrived : Goes(to, p)
                 \/ to.by = "kept" /\ to.route = 0 /\ to.socket = 0}
ResponseInv == /\ DOMAIN responses = Requests
               /\ responses = [q \in Requests |-> responses[q]]
               /\ \A q \in Requests :
                     \/ responses[q] = <<>>
                     \/ Known(q) /\ responses[q] \in Seq(Targets(q))

ServerInv == ArrivedInv /\ QueueInv /\ MessageInv /\ SendInv /\ ResponseInv

LEMMA InitInv == Init => ServerInv
<1> SUFFICES ASSUME Init PROVE ServerInv
  OBVIOUS
<1>1. ArrivedInv
  BY ServerConstants DEF Init, ArrivedInv
<1>2. QueueInv
  BY DEF Init, QueueInv
<1>3. MessageInv
  BY ServerConstants DEF Init, MessageInv, Positions
<1>4. ResponseInv
  BY DEF Init, ResponseInv
<1>5. SendInv
  BY DEF Init, SendInv
<1> QED BY <1>1, <1>2, <1>3, <1>4, <1>5 DEF ServerInv

LEMMA WiderSeq == ASSUME NEW S, NEW T, S \subseteq T, NEW s \in Seq(S)
                  PROVE  s \in Seq(T)
  OBVIOUS

(* Link ids are numbers, and they tell who asked. *)
LEMMA LinkOfKnown ==
  ASSUME SocketsFit, ArrivedInv, NEW q, Known(q)
  PROVE  /\ LinkOf(q) \in Nat
         /\ Asker(q) = [route |-> GetRouteID(LinkOf(q)), socket |-> GetSocket(LinkOf(q))]
<1>1. arrived[q] \in ArrivedBy
  BY ServerConstants DEF ArrivedInv, Known, Requests
<1>2. arrived[q].route \in Nat /\ arrived[q].socket \in 0..(LinkBase - 1)
  <2>1. arrived[q].route \in 0..(RouteNum - 1)
    BY <1>1 DEF ArrivedBy
  <2>2. arrived[q].route \in Nat
    BY <2>1, RouteNumAssumption
  <2>3. arrived[q].socket \in Sockets
    BY <1>1 DEF ArrivedBy
  <2>4. arrived[q].socket \in 0..(LinkBase - 1)
    BY <2>3 DEF SocketsFit
  <2> QED BY <2>2, <2>4
<1>3. \A base, r, s \in Nat : r * base + s \in Nat
  BY SMT
<1>4. LinkOf(q) \in Nat
  BY <1>2, <1>3, LinkBaseAssumption DEF LinkOf, BuildLinkID
<1> QED BY <1>2, <1>4, LinkRoundTrip DEF LinkOf, Asker

LEMMA KnownLinkIsNumber ==
  ASSUME ArrivedInv, NEW link_id \in KnownLinks
  PROVE  link_id \in Nat
<1>1. PICK q \in Requests : Known(q) /\ link_id = LinkOf(q)
  BY DEF KnownLinks
<1>2. arrived[q] \in ArrivedBy
  BY <1>1, ServerConstants DEF ArrivedInv, Known, Requests
<1>3. arrived[q].route \in 0..(RouteNum - 1) /\ arrived[q].socket \in Sockets
  BY <1>2 DEF ArrivedBy
<1>4. arrived[q].route \in Nat /\ arrived[q].socket \in Nat
  <2>1. arrived[q].route \in Nat
    BY <1>3, RouteNumAssumption
  <2> QED BY <1>3, <2>1, ServerConstants
<1>5. \A base, r, s \in Nat : r * base + s \in Nat
  BY SMT
<1> QED BY <1>1, <1>4, <1>5, LinkBaseAssumption DEF LinkOf, BuildLinkID

(* A request that arrives leaves what is known of the others as it was. *)
LEMMA ArrivalStep ==
  ASSUME SocketsFit, ServerInv, NEW link \in Links, NEW method \in Methods,
         ReceiveRoutePacket(link, method)
  PROVE  ServerInv'
<1>0. PICK new \in Nat : new = Len(arrived) + 1
  BY DEF ServerInv, ArrivedInv
<1>1. /\ [route |-> link.route, socket |-> link.socket, method |-> method] \in ArrivedBy
      /\ arrived' \in Seq(ArrivedBy) /\ Len(arrived') = new /\ Len(arrived) \in Nat
      /\ arrived'[new] = [route |-> link.route, socket |-> link.socket, method |-> method]
      /\ \A q \in 1..Len(arrived) : arrived'[q] = arrived[q]
      /\ new \in Requests
  BY <1>0, ServerConstants DEF ServerInv, ArrivedInv, ReceiveRoutePacket, Links, ArrivedBy, Requests
<1>2. ArrivedInv'
  BY <1>1, ServerConstants DEF ArrivedInv, Requests
<1>3. ASSUME NEW q, Known(q)
      PROVE  Known(q)' /\ LinkOf(q)' = LinkOf(q) /\ Asker(q)' = Asker(q)
  BY <1>0, <1>1, <1>3 DEF Known, LinkOf, Asker, Requests
<1>4. Genuine \subseteq Genuine'
  BY <1>3 DEF Genuine
<1>5. QueueInv'
  <2>1. [request |-> new, link_id |-> BuildLinkID(link.route, link.socket)] \in Genuine'
    <3>1. Known(new)' /\ LinkOf(new)' = BuildLinkID(link.route, link.socket)
      BY <1>0, <1>1 DEF Known, LinkOf
    <3>2. BuildLinkID(link.route, link.socket) \in Nat
      <4>1. link.route \in Nat
        <5>1. link.route \in 0..(RouteNum - 1)
          BY DEF Links
        <5> QED BY <5>1, RouteNumAssumption
      <4>3. link.socket \in Nat
        BY ServerConstants DEF Links
      <4>2. \A base, r, s \in Nat : r * base + s \in Nat
        BY SMT
      <4> QED BY <4>1, <4>2, <4>3, LinkBaseAssumption DEF BuildLinkID
    <3> QED BY <3>1, <3>2, <1>1 DEF Genuine, Packets
  <2>2. message_queue \in Seq(Genuine')
    BY <1>4, WiderSeq DEF ServerInv, QueueInv
  <2>3. message_queue' \in Seq(Genuine')
    BY <1>0, <2>1, <2>2 DEF ReceiveRoutePacket
  <2>4. packet_queue' = packet_queue
    BY DEF ReceiveRoutePacket, threads
  <2>5. packet_queue \in [WorkThreads -> Seq(Genuine')]
    BY <1>4, WiderSeq DEF ServerInv, QueueInv
  <2> QED BY <2>3, <2>4, <2>5 DEF QueueInv
<1>6. KnownLinks \subseteq KnownLinks'
  BY <1>3 DEF KnownLinks
<1>7. UNCHANGED <<pc, packet_queue, rpc_message, cntl_link, sending, responses>>
  BY DEF ReceiveRoutePacket, threads, closures
<1>8. MessageInv'
  <2>1. cntl_link \in [WorkThreads -> {0} \cup KnownLinks']
    BY <1>6 DEF ServerInv, MessageInv
  <2>2. \A w \in WorkThreads : rpc_message[w] # 0 =>
           Known(rpc_message[w])' /\ LinkOf(rpc_message[w])' = LinkOf(rpc_message[w])
    BY <1>3, <1>7 DEF ServerInv, MessageInv
  <2> QED BY <1>7, <2>1, <2>2 DEF ServerInv, MessageInv
<1>9. SendInv'
  BY <1>6, <1>7 DEF ServerInv, SendInv, OwnSend
<1>10. ResponseInv'
  <2>1. ASSUME NEW q \in Requests, Known(q) PROVE Targets(q) \subseteq Targets(q)'
    <3>1. DOMAIN arrived = 1..Len(arrived) /\ DOMAIN arrived' = 1..new
      BY <1>1 DEF ServerInv, ArrivedInv
    <3>2. DOMAIN arrived \subseteq DOMAIN arrived' /\ q \in DOMAIN arrived
      BY <1>0, <1>1, <2>1, <3>1 DEF Known, Requests
    <3> QED BY <1>1, <3>1, <3>2 DEF Targets, Goes
  <2>2. ASSUME NEW q \in Requests, responses[q] # <<>>
        PROVE  Known(q)' /\ responses[q] \in Seq(Targets(q)')
    BY <1>3, <2>1, <2>2, WiderSeq DEF ServerInv, ResponseInv
  <2>3. DOMAIN responses' = Requests /\ responses' = [q \in Requests |-> responses'[q]]
    BY <1>7 DEF ServerInv, ResponseInv
  <2>4. ASSUME NEW q \in Requests
        PROVE  responses'[q] = <<>> \/ (Known(q)' /\ responses'[q] \in Seq(Targets(q)'))
    BY <1>7, <2>2
  <2> QED BY <2>3, <2>4 DEF ResponseInv
<1> QED BY <1>2, <1>5, <1>8, <1>9, <1>10 DEF ServerInv

(* What depends on nothing that a step changes.                             *)
LEMMA ResponsesStay ==
  ASSUME ResponseInv, UNCHANGED <<arrived, responses>>
  PROVE  ResponseInv'
BY DEF ResponseInv, Known, Targets, Goes

LEMMA LinksStay ==
  ASSUME UNCHANGED arrived
  PROVE  /\ KnownLinks' = KnownLinks /\ Genuine' = Genuine
         /\ \A q \in Requests : Known(q)' = Known(q) /\ LinkOf(q)' = LinkOf(q)
BY DEF KnownLinks, Genuine, Known, LinkOf

(* A response of a method goes to who asked, and one of a kept closure to   *)
(* somebody who asked, or to nobody.                                        *)
LEMMA TargetOfSend ==
  ASSUME SocketsFit, ServerInv, NEW s \in sending, s.link_id # Unread,
         rpc_message[s.thread] # 0
  PROVE  [route |-> GetRouteID(s.link_id), socket |-> GetSocket(s.link_id), by |-> s.by]
           \in Targets(rpc_message[s.thread])
<1> DEFINE to == [route |-> GetRouteID(s.link_id), socket |-> GetSocket(s.link_id), by |-> s.by]
<1>1. s.by \in {"method", "kept"} /\ s.thread \in WorkThreads
  BY DEF ServerInv, SendInv, Sends
<1>2. ASSUME NEW p \in Requests, Known(p), s.link_id = LinkOf(p)
      PROVE  /\ to \in [route : Nat, socket : Nat, by : {"method", "kept"}]
             /\ Goes(to, p) /\ p \in DOMAIN arrived
  <2>1. Asker(p) = [route |-> GetRouteID(s.link_id), socket |-> GetSocket(s.link_id)]
    BY <1>2, LinkOfKnown DEF ServerInv
  <2>2. arrived[p] \in ArrivedBy /\ p \in DOMAIN arrived
    BY <1>2, ServerConstants DEF ServerInv, ArrivedInv, Known, Requests
  <2>3. arrived[p].route \in Nat /\ arrived[p].socket \in Nat
    <3>1. arrived[p].route \in 0..(RouteNum - 1) /\ arrived[p].socket \in Sockets
      BY <2>2 DEF ArrivedBy
    <3>2. arrived[p].route \in Nat
      BY <3>1, RouteNumAssumption
    <3> QED BY <3>1, <3>2, ServerConstants
  <2>4. GetRouteID(s.link_id) = arrived[p].route /\ GetSocket(s.link_id) = arrived[p].socket
    BY <2>1 DEF Asker
  <2> QED BY <1>1, <2>2, <2>3, <2>4 DEF Goes
<1>3. CASE s.by = "method"
  <2>1. s.link_id = LinkOf(rpc_message[s.thread]) /\ Known(rpc_message[s.thread])
    BY <1>1, <1>3 DEF ServerInv, SendInv, MessageInv, OwnSend
  <2>2. rpc_message[s.thread] \in Requests
    BY <2>1 DEF Known
  <2> QED BY <1>2, <1>3, <2>1, <2>2 DEF Targets
<1>4. CASE s.by = "kept" /\ s.link_id = 0
  <2>1. GetRouteID(0) = 0 /\ GetSocket(0) = 0
    <3>1. \A base \in Nat \ {0} : 0 \div base = 0 /\ 0 % base = 0
      BY SMT
    <3> QED BY <3>1, LinkBaseAssumption DEF GetRouteID, GetSocket
  <2> QED BY <1>4, <2>1 DEF Targets
<1>5. CASE s.by = "kept" /\ s.link_id \in KnownLinks
  <2>1. PICK p \in Requests : Known(p) /\ s.link_id = LinkOf(p)
    BY <1>5 DEF KnownLinks
  <2> QED BY <1>2, <1>5, <2>1 DEF Targets
<1> QED BY <1>1, <1>3, <1>4, <1>5 DEF ServerInv, SendInv

LEMMA SendStep ==
  ASSUME SocketsFit, ServerInv, NEW s \in sending, SendResponse(s)
  PROVE  ResponseInv'
<1> DEFINE q == rpc_message[s.thread]
           to == [route |-> GetRouteID(s.link_id), socket |-> GetSocket(s.link_id), by |-> s.by]
<1>1. UNCHANGED arrived
  BY DEF SendResponse
<1>2. CASE responses' = responses
  BY <1>1, <1>2, ResponsesStay DEF ServerInv
<1>3. CASE q # 0 /\ responses' = [responses EXCEPT ![q] = Append(@, to)]
  <2>1. Known(q) /\ q \in Requests
    BY <1>3 DEF ServerInv, MessageInv, Known, SendInv, Sends
  <2>2. to \in Targets(q)
    BY <1>3, TargetOfSend DEF SendResponse
  <2> HIDE DEF q, to
  <2>3. responses[q] \in Seq(Targets(q))
    <3>1. responses[q] = <<>> \/ responses[q] \in Seq(Targets(q))
      BY <2>1 DEF ServerInv, ResponseInv
    <3>2. \A S : <<>> \in Seq(S)
      OBVIOUS
    <3> QED BY <3>1, <3>2
  <2>4. Append(responses[q], to) \in Seq(Targets(q))
    BY <2>2, <2>3
  <2>5. /\ responses'[q] = Append(responses[q], to)
        /\ \A p \in Requests : p # q => responses'[p] = responses[p]
        /\ DOMAIN responses' = Requests
        /\ responses' = [p \in Requests |-> responses'[p]]
    BY <2>1, <1>3 DEF ServerInv, ResponseInv
  <2>6. ASSUME NEW p \in Requests
        PROVE  responses'[p] = <<>> \/ (Known(p) /\ responses'[p] \in Seq(Targets(p)))
    BY <2>1, <2>4, <2>5 DEF ServerInv, ResponseInv
  <2>7. \A p \in Requests : Known(p)' = Known(p) /\ Targets(p)' = Targets(p)
    BY <1>1 DEF Known, Targets, Goes
  <2> QED BY <2>5, <2>6, <2>7 DEF ResponseInv
<1> QED BY <1>2, <1>3 DEF SendResponse, Sent

(* A thread that fetches moves packets from one queue to another. *)
LEMMA FetchStep ==
  ASSUME ServerInv, NEW w \in WorkThreads, Fetch(w)
  PROVE  ServerInv'
<1> DEFINE n == Smaller(FetchNum, Len(message_queue))
<1>1. n \in 0..Len(message_queue)
  BY ServerConstants DEF ServerInv, QueueInv, Smaller
<1>2. /\ SubSeq(message_queue, 1, n) \in Seq(Genuine)
      /\ SubSeq(message_queue, n + 1, Len(message_queue)) \in Seq(Genuine)
  <2> HIDE DEF n
  <2> QED BY <1>1 DEF ServerInv, QueueInv
<1>3. packet_queue[w] \o SubSeq(message_queue, 1, n) \in Seq(Genuine)
  <2> HIDE DEF n
  <2> QED BY <1>2 DEF ServerInv, QueueInv
<1>4. UNCHANGED <<arrived, pc, rpc_message, cntl_link, sending, responses>> /\ pc[w] = "fetch"
  BY DEF Fetch, Idle, closures
<1>5. QueueInv' /\ \A v \in WorkThreads \ {w} : packet_queue'[v] = packet_queue[v]
  <2>1. message_queue' \in Seq(Genuine)
    BY <1>2 DEF Fetch, Unfetched
  <2>2. /\ packet_queue' \in [WorkThreads -> Seq(Genuine)]
        /\ \A v \in WorkThreads \ {w} : packet_queue'[v] = packet_queue[v]
    <3>1. packet_queue' = [packet_queue EXCEPT ![w] = @ \o SubSeq(message_queue, 1, n)]
      BY DEF Fetch
    <3> HIDE DEF n
    <3> QED BY <1>3, <3>1 DEF ServerInv, QueueInv
  <2> QED BY <1>4, <2>1, <2>2, LinksStay DEF QueueInv
<1>6. MessageInv'
  BY <1>4, <1>5, LinksStay DEF ServerInv, MessageInv, Known, LinkOf
<1>7. SendInv' /\ ResponseInv' /\ ArrivedInv'
  BY <1>4, LinksStay, ResponsesStay DEF ServerInv, SendInv, OwnSend, ArrivedInv
<1> QED BY <1>5, <1>6, <1>7 DEF ServerInv

(* No call of SendResponse is the thread's own unless it is at "send".      *)
LEMMA SendsStay ==
  ASSUME ServerInv, NEW w \in WorkThreads, pc[w] # "send",
         UNCHANGED <<arrived, sending>>,
         \A v \in WorkThreads \ {w} : /\ pc'[v] = pc[v] /\ rpc_message'[v] = rpc_message[v]
                                       /\ cntl_link'[v] = cntl_link[v]
  PROVE  SendInv'
<1>1. ASSUME NEW s \in sending
      PROVE  /\ s.by = "method" => pc'[s.thread] = "send" /\ s = OwnSend(s.thread)'
             /\ s.link_id \in {Unread, 0} \cup KnownLinks
  <2>1. s.thread \in WorkThreads
    BY DEF ServerInv, SendInv, Sends
  <2>2. s.by = "method" => s.thread # w
    BY DEF ServerInv, SendInv
  <2> QED BY <2>1, <2>2 DEF ServerInv, SendInv, OwnSend
<1> QED BY <1>1, LinksStay DEF ServerInv, SendInv

(* A thread takes a packet in two steps: its link id, then the message.     *)
LEMMA TakeStep ==
  ASSUME ServerInv, NEW w \in WorkThreads, Take(w)
  PROVE  ServerInv'
<1>1. packet_queue[w] \in Seq(Genuine) /\ packet_queue[w] # <<>> /\ pc[w] = "fetch"
  BY DEF ServerInv, QueueInv, Take
<1>2. Head(packet_queue[w]) \in Genuine
  BY <1>1
<1>3. Head(packet_queue[w]).link_id \in KnownLinks
  BY <1>2 DEF Genuine, KnownLinks, Known
<1>4. UNCHANGED <<arrived, message_queue, packet_queue, rpc_message, sending, responses>>
  BY DEF Take, closures
<1>5. /\ cntl_link' = [cntl_link EXCEPT ![w] = Head(packet_queue[w]).link_id]
      /\ pc' = [pc EXCEPT ![w] = "parse"]
  BY DEF Take, SetLink
<1>6. MessageInv'
  BY <1>1, <1>3, <1>4, <1>5, LinksStay DEF ServerInv, MessageInv, Positions, Known, LinkOf
<1>7. SendInv'
  BY <1>1, <1>4, <1>5, SendsStay DEF ServerInv, MessageInv
<1> QED BY <1>4, <1>6, <1>7, LinksStay, ResponsesStay DEF ServerInv, ArrivedInv, QueueInv

LEMMA ParseStep ==
  ASSUME ServerInv, NEW w \in WorkThreads, ParseBinary(w)
  PROVE  ServerInv'
<1>1. /\ packet_queue[w] \in Seq(Genuine) /\ packet_queue[w] # <<>> /\ pc[w] = "parse"
      /\ cntl_link[w] = Head(packet_queue[w]).link_id
  BY DEF ServerInv, QueueInv, MessageInv, ParseBinary
<1>2. Head(packet_queue[w]) \in Genuine /\ Tail(packet_queue[w]) \in Seq(Genuine)
  BY <1>1
<1>3. PICK q : q = Head(packet_queue[w]).request
  OBVIOUS
<1>4. Known(q) /\ cntl_link[w] = LinkOf(q) /\ q \in 1..MaxRequests
  BY <1>1, <1>2, <1>3 DEF Genuine, Known, Requests
<1>5. UNCHANGED <<arrived, message_queue, cntl_link, sending, responses>>
  BY DEF ParseBinary
<1>6. /\ packet_queue' = [packet_queue EXCEPT ![w] = Tail(@)]
      /\ \/ pc' = [pc EXCEPT ![w] = "fetch"] /\ rpc_message' = rpc_message
         \/ pc' = [pc EXCEPT ![w] = "method"] /\ rpc_message' = [rpc_message EXCEPT ![w] = q]
  BY <1>3 DEF ParseBinary
<1>7. QueueInv'
  BY <1>2, <1>5, <1>6, LinksStay DEF ServerInv, QueueInv
<1>8. MessageInv'
  <2>1. /\ packet_queue \in [WorkThreads -> Seq(Genuine)]
        /\ MaxRequests \in Nat
    BY ServerConstants DEF ServerInv, QueueInv
  <2>2. /\ KnownLinks' = KnownLinks
        /\ \A p \in Requests : Known(p)' = Known(p) /\ LinkOf(p)' = LinkOf(p)
    BY <1>5, LinksStay
  <2>3. q \in Requests /\ q # 0 /\ Known(q)
    BY <1>4, <2>1 DEF Requests
  <2>4. /\ pc' \in [WorkThreads -> Positions]
        /\ pc'[w] \in {"fetch", "method"}
        /\ \A v \in WorkThreads \ {w} : pc'[v] = pc[v]
    <3>1. pc \in [WorkThreads -> Positions]
      BY DEF ServerInv, MessageInv
    <3> QED BY <1>6, <3>1 DEF Positions
  <2>5. /\ rpc_message' \in [WorkThreads -> 0..MaxRequests]
        /\ rpc_message'[w] = q \/ rpc_message'[w] = rpc_message[w]
        /\ pc'[w] = "method" => rpc_message'[w] = q
        /\ \A v \in WorkThreads \ {w} : rpc_message'[v] = rpc_message[v]
    <3>1. rpc_message \in [WorkThreads -> 0..MaxRequests] /\ pc \in [WorkThreads -> Positions]
      BY DEF ServerInv, MessageInv
    <3>2. q \in 0..MaxRequests
      BY <1>4, <2>1
    <3> QED BY <1>6, <3>1, <3>2
  <2>6. \A v \in WorkThreads \ {w} : packet_queue'[v] = packet_queue[v]
    BY <1>6, <2>1
  <2>7. cntl_link' = cntl_link /\ cntl_link' \in [WorkThreads -> {0} \cup KnownLinks']
    BY <1>5, <2>2 DEF ServerInv, MessageInv
  <2>8. ASSUME NEW v \in WorkThreads
        PROVE  (/\ rpc_message[v] # 0 => Known(rpc_message[v])
                /\ pc[v] = "parse" => /\ packet_queue[v] # <<>>
                                      /\ cntl_link[v] = Head(packet_queue[v]).link_id
                /\ pc[v] \in {"method", "send"} => /\ rpc_message[v] # 0
                                                   /\ cntl_link[v] = LinkOf(rpc_message[v]))'
    <3>1. /\ rpc_message[v] # 0 => Known(rpc_message[v])
          /\ pc[v] = "parse" => /\ packet_queue[v] # <<>>
                                /\ cntl_link[v] = Head(packet_queue[v]).link_id
          /\ pc[v] \in {"method", "send"} => /\ rpc_message[v] # 0
                                             /\ cntl_link[v] = LinkOf(rpc_message[v])
      BY DEF ServerInv, MessageInv
    <3>2. CASE v = w
      BY <1>4, <1>5, <2>3, <2>4, <2>5, <2>7, <3>1, <3>2 DEF Known, LinkOf
    <3>3. CASE v # w
      BY <1>5, <2>4, <2>5, <2>6, <2>7, <3>1, <3>3 DEF Known, LinkOf
    <3> QED BY <3>2, <3>3
  <2> QED BY <2>4, <2>5, <2>7, <2>8 DEF MessageInv
<1>9. SendInv'
  BY <1>1, <1>5, <1>6, SendsStay DEF ServerInv, MessageInv
<1> QED BY <1>5, <1>7, <1>8, <1>9, ResponsesStay DEF ServerInv, ArrivedInv

(* A step that changes none of these keeps them. *)
LEMMA OtherStep ==
  ASSUME ServerInv, UNCHANGED <<arrived, message_queue, packet_queue, pc, cntl_link,
                                rpc_message, sending, responses>>
  PROVE  ServerInv'
<1>1. ArrivedInv' /\ QueueInv' /\ SendInv' /\ ResponseInv'
  BY LinksStay, ResponsesStay DEF ServerInv, ArrivedInv, QueueInv, SendInv, OwnSend
<1>2. MessageInv'
  BY LinksStay DEF ServerInv, MessageInv, Known, LinkOf
<1> QED BY <1>1, <1>2 DEF ServerInv

(* A thread that ends, crashes, or has called its method.                   *)
LEMMA EndStep ==
  ASSUME ServerInv, NEW w \in WorkThreads,
         FetchFromNothing(w) \/ EndThread(w) \/ Reset(w) \/ Clear(w)
  PROVE  ServerInv'
<1>1. UNCHANGED <<arrived, message_queue, packet_queue, sending, responses>>
  BY DEF FetchFromNothing, EndThread, Reset, Clear, closures
<1>2. /\ pc[w] # "send"
      /\ \E p \in {"crashed", "ended", "clear", "fetch"} : pc' = [pc EXCEPT ![w] = p]
      /\ cntl_link' = cntl_link \/ cntl_link' = [cntl_link EXCEPT ![w] = 0]
      /\ rpc_message' = rpc_message \/ rpc_message' = [rpc_message EXCEPT ![w] = 0]
  BY DEF FetchFromNothing, EndThread, Reset, Clear, Idle
<1>3. MessageInv'
  BY <1>1, <1>2, LinksStay, ServerConstants DEF ServerInv, MessageInv, Positions, Known, LinkOf
<1>4. SendInv'
  BY <1>1, <1>2, SendsStay DEF ServerInv, MessageInv
<1> QED BY <1>1, <1>3, <1>4, LinksStay, ResponsesStay DEF ServerInv, ArrivedInv, QueueInv

LEMMA RunDoneStep ==
  ASSUME ServerInv, NEW w \in WorkThreads, RunDone(w)
  PROVE  ServerInv'
<1>1. UNCHANGED <<arrived, message_queue, packet_queue, rpc_message, cntl_link, responses>>
  BY DEF RunDone
<1>2. CASE pc' = pc /\ sending' = sending
  BY <1>1, <1>2, OtherStep
<1>3. CASE pc' = [pc EXCEPT ![w] = "send"] /\ sending' = sending \cup {OwnSend(w)}
  <2>1. pc[w] = "method"
    BY DEF RunDone
  <2>2. /\ rpc_message[w] \in Requests /\ cntl_link[w] = LinkOf(rpc_message[w])
        /\ cntl_link[w] \in KnownLinks /\ Known(rpc_message[w])
    BY <2>1 DEF ServerInv, MessageInv, KnownLinks, Known
  <2>3. MessageInv'
    BY <1>1, <1>3, <2>1, LinksStay DEF ServerInv, MessageInv, Positions, Known, LinkOf
  <2>4. SendInv'
    <3>1. cntl_link[w] \in Nat
      BY <2>2, KnownLinkIsNumber DEF ServerInv
    <3>2. OwnSend(w) \in Sends /\ OwnSend(w).thread = w /\ OwnSend(w).link_id \in KnownLinks
      BY <2>2, <3>1 DEF OwnSend, Sends
    <3>3. \A s \in sending : s.by = "method" => s.thread # w
      BY <2>1 DEF ServerInv, SendInv
    <3>4. \A v \in WorkThreads : OwnSend(v)' = OwnSend(v)
      BY <1>1 DEF OwnSend
    <3>5. pc'[w] = "send" /\ \A v \in WorkThreads \ {w} : pc'[v] = pc[v]
      BY <1>3 DEF ServerInv, MessageInv
    <3>6. \A s \in sending : s.thread \in WorkThreads
      BY DEF ServerInv, SendInv, Sends
    <3>7. KnownLinks' = KnownLinks
      BY <1>1, LinksStay
    <3> QED BY <1>3, <3>2, <3>3, <3>4, <3>5, <3>6, <3>7 DEF ServerInv, SendInv
  <2> QED BY <1>1, <2>3, <2>4, LinksStay, ResponsesStay DEF ServerInv, ArrivedInv, QueueInv
<1> QED BY <1>2, <1>3 DEF RunDone, OwnSend

LEMMA EndDoneStep ==
  ASSUME SocketsFit, ServerInv, NEW w \in WorkThreads, EndDone(w)
  PROVE  ServerInv'
<1>1. PICK s \in sending : s.thread = w /\ s.by = "method" /\ SendResponse(s)
  BY DEF EndDone, SendResponse
<1>2. /\ UNCHANGED <<arrived, message_queue, packet_queue, rpc_message, cntl_link>>
      /\ sending' = sending \ {s} /\ pc' = [pc EXCEPT ![w] = "method"] /\ pc[w] = "send"
  BY <1>1 DEF SendResponse, EndDone
<1>3. MessageInv'
  BY <1>2, LinksStay DEF ServerInv, MessageInv, Positions, Known, LinkOf
<1>4. SendInv'
  <2>1. \A t \in sending' : t.by = "method" => t.thread # w
    BY <1>1, <1>2 DEF ServerInv, SendInv
  <2>2. \A v \in WorkThreads : OwnSend(v)' = OwnSend(v)
    BY <1>2 DEF OwnSend
  <2>3. \A v \in WorkThreads \ {w} : pc'[v] = pc[v]
    BY <1>2 DEF ServerInv, MessageInv
  <2>4. \A t \in sending : t.thread \in WorkThreads
    BY DEF ServerInv, SendInv, Sends
  <2> QED BY <1>2, <2>1, <2>2, <2>3, <2>4, LinksStay DEF ServerInv, SendInv
<1>5. ResponseInv'
  BY <1>1, SendStep
<1> QED BY <1>2, <1>3, <1>4, <1>5, LinksStay DEF ServerInv, ArrivedInv, QueueInv

(* The steps of a kept closure.                                             *)
LEMMA KeptDoneStep ==
  ASSUME SocketsFit, ServerInv,
         \/ \E w \in WorkThreads, q \in Requests : RunKeptDone(w, q)
         \/ \E s \in sending : ReadLink(s) \/ EndKeptDone(s)
  PROVE  ServerInv'
<1>1. UNCHANGED <<arrived, message_queue, packet_queue, pc, rpc_message, cntl_link>>
  BY DEF RunKeptDone, ReadLink, EndKeptDone, SendResponse, threads
<1>2. \A v \in WorkThreads : OwnSend(v)' = OwnSend(v)
  BY <1>1 DEF OwnSend
<1>3. MessageInv' /\ ArrivedInv' /\ QueueInv'
  BY <1>1, LinksStay DEF ServerInv, MessageInv, ArrivedInv, QueueInv, Known, LinkOf
<1>4. ASSUME \A t \in sending' :
                \/ t \in sending
                \/ /\ t \in Sends /\ t.by = "kept"
                   /\ t.link_id \in {Unread, 0} \cup KnownLinks
      PROVE  SendInv'
  <2>1. KnownLinks' = KnownLinks
    BY <1>1, LinksStay
  <2>2. ASSUME NEW t \in sending'
        PROVE  /\ t \in Sends
               /\ t.by = "method" => pc'[t.thread] = "send" /\ t = OwnSend(t.thread)'
               /\ t.link_id \in {Unread, 0} \cup KnownLinks'
    <3>1. CASE t \in sending
      <4>1. t \in Sends /\ t.thread \in WorkThreads
        BY <3>1 DEF ServerInv, SendInv, Sends
      <4> QED BY <1>1, <1>2, <2>1, <3>1, <4>1 DEF ServerInv, SendInv
    <3>2. CASE t \notin sending
      <4>1. t \in Sends /\ t.by = "kept" /\ t.link_id \in {Unread, 0} \cup KnownLinks
        BY <1>4, <3>2
      <4> QED BY <2>1, <4>1
    <3> QED BY <3>1, <3>2
  <2> QED BY <2>2 DEF SendInv
<1>5. CASE \E w \in WorkThreads, q \in Requests : RunKeptDone(w, q)
  <2>1. PICK w \in WorkThreads, q \in Requests : RunKeptDone(w, q)
    BY <1>5
  <2>4. SendInv'
    <3> DEFINE new == [thread |-> w, by |-> "kept", done |-> q,
                       message |-> rpc_message[w], link_id |-> Unread]
    <3>1. MayRespond(w) => rpc_message[w] \in Requests
      BY ServerConstants DEF MayRespond, ServerInv, MessageInv, Requests
    <3>2. MayRespond(w) => new \in Sends /\ new.by = "kept" /\ new.link_id = Unread
      BY <3>1 DEF Sends
    <3>3. sending' = IF MayRespond(w) THEN sending \cup {new} ELSE sending
      BY <2>1 DEF RunKeptDone
    <3> HIDE DEF new
    <3> QED BY <1>4, <3>2, <3>3
  <2>5. ResponseInv'
    BY <1>1, <2>1, ResponsesStay DEF RunKeptDone, ServerInv
  <2> QED BY <1>3, <2>4, <2>5 DEF ServerInv
<1>6. ASSUME NEW s \in sending, ReadLink(s) PROVE ServerInv'
  <2> DEFINE new == [s EXCEPT !.link_id = cntl_link[s.thread]]
  <2>1. s \in Sends /\ s.link_id = Unread
    BY <1>6 DEF ServerInv, SendInv, ReadLink
  <2>2. cntl_link[s.thread] \in {0} \cup KnownLinks
    BY <2>1 DEF ServerInv, MessageInv, Sends
  <2>3. cntl_link[s.thread] \in Nat
    BY <2>2, KnownLinkIsNumber DEF ServerInv
  <2>4. s.by = "kept"
    <3>1. s.by = "method" => s.link_id = cntl_link[s.thread]
      BY DEF ServerInv, SendInv, OwnSend
    <3>2. Unread \notin Nat
      BY DEF Unread
    <3> QED BY <2>1, <2>3, <3>1, <3>2 DEF Sends
  <2>5. new \in Sends /\ new.by = "kept" /\ new.link_id \in {Unread, 0} \cup KnownLinks
    BY <2>1, <2>2, <2>3, <2>4 DEF Sends
  <2>6. sending' = (sending \ {s}) \cup {new}
    BY <1>6 DEF ReadLink
  <2>7. SendInv'
    <3> HIDE DEF new
    <3> QED BY <1>4, <2>5, <2>6
  <2>8. ResponseInv'
    BY <1>1, <1>6, ResponsesStay DEF ReadLink, ServerInv
  <2> QED BY <1>3, <2>7, <2>8 DEF ServerInv
<1>7. ASSUME NEW s \in sending, EndKeptDone(s) PROVE ServerInv'
  <2>1. sending' = sending \ {s}
    BY <1>7 DEF EndKeptDone, SendResponse
  <2>2. SendInv'
    BY <1>4, <2>1
  <2>3. ResponseInv'
    BY <1>7, SendStep DEF EndKeptDone
  <2> QED BY <1>3, <2>2, <2>3 DEF ServerInv
<1> QED BY <1>5, <1>6, <1>7

LEMMA StepInv == SocketsFit /\ ServerInv /\ [Next]_vars => ServerInv'
<1> SUFFICES ASSUME SocketsFit, ServerInv, [Next]_vars PROVE ServerInv'
  OBVIOUS
<1>1. ASSUME NEW link \in Links, NEW method \in Methods,
             ReceiveRoutePacket(link, method)
      PROVE  ServerInv'
  BY <1>1, ArrivalStep
<1>2. ASSUME NEW w \in WorkThreads, WorkThread(w) PROVE ServerInv'
  <2>1. CASE Fetch(w)
    BY <2>1, FetchStep
  <2>2. CASE FetchFromNothing(w) \/ EndThread(w) \/ Reset(w) \/ Clear(w)
    BY <2>2, EndStep
  <2>3. CASE Take(w)
    BY <2>3, TakeStep
  <2>4. CASE ParseBinary(w)
    BY <2>4, ParseStep
  <2>5. CASE RunDone(w)
    BY <2>5, RunDoneStep
  <2>6. CASE EndDone(w)
    BY <2>6, EndDoneStep
  <2> QED BY <1>2, <2>1, <2>2, <2>3, <2>4, <2>5, <2>6 DEF WorkThread
<1>3. CASE \/ \E w \in WorkThreads, q \in Requests : RunKeptDone(w, q)
           \/ \E s \in sending : ReadLink(s) \/ EndKeptDone(s)
  BY <1>3, KeptDoneStep
<1>4. CASE AskToQuit \/ DeleteNet \/ StopThreads \/ Join
  BY <1>4, OtherStep DEF AskToQuit, DeleteNet, StopThreads, Join, threads, closures
<1>5. CASE UNCHANGED vars
  BY <1>5, OtherStep DEF vars, threads, closures
<1> QED BY <1>1, <1>2, <1>3, <1>4, <1>5 DEF Next

(* As long as sockets fit the link id, no method's response is sent to a    *)
(* channel other than the one that asked, whatever kept done closures do    *)
(* meanwhile, and those send to nobody that has not asked anything;         *)
(* whenever the server is stopped.                                          *)
THEOREM AnswersGoToAskers == SocketsFit /\ Spec => []AnswerGoesToAsker
<1>1. Init => ServerInv
  BY InitInv
<1>2. CASE ~SocketsFit
  BY <1>2
<1>3. ServerInv => AnswerGoesToAsker
  <2> SUFFICES ASSUME ServerInv, NEW q \in Requests, NEW i \in DOMAIN responses[q]
               PROVE  responses[q][i] \in Targets(q)
    BY DEF AnswerGoesToAsker, Targets, Goes
  <2>1. responses[q] \in Seq(Targets(q))
    BY DEF ServerInv, ResponseInv
  <2> QED BY <2>1
<1>4. CASE SocketsFit
  <2>1. ServerInv /\ [Next]_vars => ServerInv'
    BY <1>4, StepInv
  <2> QED BY <1>1, <1>3, <2>1, PTL DEF Spec
<1> QED BY <1>2, <1>4
-----------------------------------------------------------------------------
(* The queues of packets.  A link id is a number whatever the sockets are.  *)
LEMMA LinkIsNumber ==
  ASSUME NEW link \in Links
  PROVE  BuildLinkID(link.route, link.socket) \in Nat
<1>1. link.route \in Nat
  <2>1. link.route \in 0..(RouteNum - 1)
    BY DEF Links
  <2> QED BY <2>1, RouteNumAssumption
<1>2. link.socket \in Nat
  BY ServerConstants DEF Links
<1>3. \A base, r, s \in Nat : r * base + s \in Nat
  BY SMT
<1> QED BY <1>1, <1>2, <1>3, LinkBaseAssumption DEF BuildLinkID

LEMMA LinkGivesNumbers ==
  ASSUME NEW link_id \in Nat
  PROVE  GetRouteID(link_id) \in Nat /\ GetSocket(link_id) \in Nat
<1>1. \A base \in Nat \ {0} : link_id \div base \in Nat /\ link_id % base \in Nat
  BY SMT
<1> QED BY <1>1, LinkBaseAssumption DEF GetRouteID, GetSocket

RequestsOf(queue) == {queue[i].request : i \in DOMAIN queue}
OnceEach(queue) == \A i, j \in DOMAIN queue : queue[i].request = queue[j].request => i = j

LEMMA QueueArrives ==
  ASSUME NEW S, NEW s \in Seq(S), NEW e \in S
  PROVE  /\ Append(s, e) \in Seq(S)
         /\ RequestsOf(Append(s, e)) = RequestsOf(s) \cup {e.request}
         /\ OnceEach(s) /\ e.request \notin RequestsOf(s) => OnceEach(Append(s, e))
<1>1. /\ Append(s, e) \in Seq(S)
      /\ DOMAIN s = 1..Len(s) /\ Len(s) \in Nat
      /\ DOMAIN Append(s, e) = 1..(Len(s) + 1)
      /\ \A i \in 1..Len(s) : Append(s, e)[i] = s[i]
      /\ Append(s, e)[Len(s) + 1] = e
  OBVIOUS
<1>2. RequestsOf(Append(s, e)) \subseteq RequestsOf(s) \cup {e.request}
  BY <1>1 DEF RequestsOf
<1>3. RequestsOf(s) \subseteq RequestsOf(Append(s, e))
  BY <1>1 DEF RequestsOf
<1>4. e.request \in RequestsOf(Append(s, e))
  BY <1>1 DEF RequestsOf
<1>5. ASSUME OnceEach(s), e.request \notin RequestsOf(s),
             NEW i \in 1..(Len(s) + 1), NEW j \in 1..(Len(s) + 1),
             Append(s, e)[i].request = Append(s, e)[j].request
      PROVE  i = j
  BY <1>1, <1>5 DEF OnceEach, RequestsOf
<1> QED BY <1>1, <1>2, <1>3, <1>4, <1>5 DEF OnceEach

LEMMA QueueTaken ==
  ASSUME NEW S, NEW s \in Seq(S), s # <<>>
  PROVE  /\ Head(s) \in S /\ Tail(s) \in Seq(S)
         /\ Head(s).request \in RequestsOf(s)
         /\ RequestsOf(Tail(s)) \subseteq RequestsOf(s)
         /\ OnceEach(s) => /\ OnceEach(Tail(s))
                           /\ Head(s).request \notin RequestsOf(Tail(s))
<1>1. /\ Head(s) = s[1] /\ Head(s) \in S
      /\ Tail(s) \in Seq(S)
      /\ Len(s) \in Nat /\ Len(s) > 0
      /\ DOMAIN s = 1..Len(s) /\ DOMAIN Tail(s) = 1..(Len(s) - 1)
      /\ \A i \in 1..(Len(s) - 1) : Tail(s)[i] = s[i + 1]
  OBVIOUS
<1>2. Head(s).request \in RequestsOf(s)
  BY <1>1 DEF RequestsOf
<1>3. ASSUME NEW i \in 1..(Len(s) - 1)
      PROVE  i + 1 \in 1..Len(s) /\ Tail(s)[i].request = s[i + 1].request /\ i + 1 # 1
  BY <1>1
<1>4. RequestsOf(Tail(s)) \subseteq RequestsOf(s)
  BY <1>1, <1>3 DEF RequestsOf
<1>5. ASSUME OnceEach(s) PROVE Head(s).request \notin RequestsOf(Tail(s))
  BY <1>1, <1>3, <1>5 DEF OnceEach, RequestsOf
<1>6. ASSUME OnceEach(s), NEW i \in 1..(Len(s) - 1), NEW j \in 1..(Len(s) - 1),
             Tail(s)[i].request = Tail(s)[j].request
      PROVE  i = j
  <2>1. i + 1 = j + 1
    BY <1>1, <1>3, <1>6 DEF OnceEach
  <2> QED BY <2>1
<1> QED BY <1>1, <1>2, <1>4, <1>5, <1>6 DEF OnceEach

LEMMA QueueFetched ==
  ASSUME NEW S, NEW a \in Seq(S), NEW b \in Seq(S), NEW n \in 0..Len(b)
  PROVE  LET got == a \o SubSeq(b, 1, n)
             left == SubSeq(b, n + 1, Len(b))
         IN  /\ got \in Seq(S) /\ left \in Seq(S)
             /\ RequestsOf(got) \subseteq RequestsOf(a) \cup RequestsOf(b)
             /\ RequestsOf(left) \subseteq RequestsOf(b)
             /\ OnceEach(a) /\ OnceEach(b) /\ RequestsOf(a) \cap RequestsOf(b) = {} =>
                  /\ OnceEach(got) /\ OnceEach(left)
                  /\ RequestsOf(got) \cap RequestsOf(left) = {}
<1> DEFINE front == SubSeq(b, 1, n)
           got == a \o front
           left == SubSeq(b, n + 1, Len(b))
<1>1. /\ Len(a) \in Nat /\ Len(b) \in Nat /\ n \in Nat /\ n <= Len(b)
      /\ DOMAIN a = 1..Len(a) /\ DOMAIN b = 1..Len(b)
  OBVIOUS
<1>2. /\ front \in Seq(S) /\ Len(front) = n
      /\ \A i \in 1..n : front[i] = b[i]
  OBVIOUS
<1>3. /\ left \in Seq(S) /\ Len(left) = Len(b) - n
      /\ \A i \in 1..(Len(b) - n) : left[i] = b[n + i]
  OBVIOUS
<1> HIDE DEF front, left
<1>4. /\ got \in Seq(S) /\ Len(got) = Len(a) + n
      /\ \A i \in 1..Len(a) : got[i] = a[i]
      /\ \A i \in 1..n : got[Len(a) + i] = front[i]
  BY <1>1, <1>2
<1> HIDE DEF got
<1>5. /\ DOMAIN left = 1..(Len(b) - n) /\ DOMAIN got = 1..(Len(a) + n)
  BY <1>3, <1>4
<1>6. ASSUME NEW i \in 1..(Len(b) - n)
      PROVE  n + i \in 1..Len(b) /\ left[i].request = b[n + i].request /\ n + i \notin 1..n
  BY <1>1, <1>3
<1>7. ASSUME NEW i \in 1..(Len(a) + n), i \notin 1..Len(a)
      PROVE  i - Len(a) \in 1..n /\ i - Len(a) \in 1..Len(b)
             /\ got[i].request = b[i - Len(a)].request
  <2>1. i - Len(a) \in 1..n /\ i - Len(a) \in 1..Len(b) /\ Len(a) + (i - Len(a)) = i
    BY <1>1, <1>7
  <2>2. got[Len(a) + (i - Len(a))] = front[i - Len(a)]
    BY <1>4, <2>1
  <2>3. front[i - Len(a)] = b[i - Len(a)]
    BY <1>2, <2>1
  <2> QED BY <2>1, <2>2, <2>3
<1>8. RequestsOf(left) \subseteq RequestsOf(b)
  BY <1>1, <1>5, <1>6 DEF RequestsOf
<1>9. RequestsOf(got) \subseteq RequestsOf(a) \cup RequestsOf(b)
  <2> SUFFICES ASSUME NEW i \in 1..(Len(a) + n)
               PROVE  got[i].request \in RequestsOf(a) \cup RequestsOf(b)
    BY <1>5 DEF RequestsOf
  <2>1. CASE i \in 1..Len(a)
    BY <1>1, <1>4, <2>1 DEF RequestsOf
  <2>2. CASE i \notin 1..Len(a)
    BY <1>1, <1>7, <2>2 DEF RequestsOf
  <2> QED BY <2>1, <2>2
<1>10. ASSUME OnceEach(a), OnceEach(b), RequestsOf(a) \cap RequestsOf(b) = {}
       PROVE  OnceEach(got) /\ OnceEach(left) /\ RequestsOf(got) \cap RequestsOf(left) = {}
  <2>1. ASSUME NEW i \in 1..(Len(b) - n), NEW j \in 1..(Len(b) - n),
               left[i].request = left[j].request
        PROVE  i = j
    <3>0. /\ n + i \in DOMAIN b /\ n + j \in DOMAIN b
          /\ b[n + i].request = b[n + j].request
      BY <1>1, <1>6, <2>1
    <3>1. n + i = n + j
      BY <1>10, <3>0 DEF OnceEach
    <3> QED BY <1>1, <3>1
  <2>2. ASSUME NEW i \in 1..(Len(a) + n), NEW j \in 1..(Len(b) - n),
               got[i].request = left[j].request
        PROVE  FALSE
    <3>1. n + j \in 1..Len(b) /\ got[i].request = b[n + j].request /\ n + j \notin 1..n
      BY <1>6, <2>2
    <3>2. CASE i \in 1..Len(a)
      BY <1>1, <1>4, <1>10, <3>1, <3>2 DEF RequestsOf
    <3>3. CASE i \notin 1..Len(a)
      <4>1. i - Len(a) \in 1..n /\ i - Len(a) \in 1..Len(b)
            /\ got[i].request = b[i - Len(a)].request
        BY <1>7, <3>3
      <4>2. i - Len(a) = n + j
        BY <1>1, <1>10, <3>1, <4>1 DEF OnceEach
      <4> QED BY <3>1, <4>1, <4>2
    <3> QED BY <3>2, <3>3
  <2>3. ASSUME NEW i \in 1..(Len(a) + n), NEW j \in 1..(Len(a) + n),
               got[i].request = got[j].request
        PROVE  i = j
    <3>1. CASE i \in 1..Len(a) /\ j \in 1..Len(a)
      BY <1>1, <1>4, <1>10, <2>3, <3>1 DEF OnceEach
    <3>2. CASE i \in 1..Len(a) /\ j \notin 1..Len(a)
      <4>1. a[i].request \in RequestsOf(a) /\ got[j].request \in RequestsOf(b)
        BY <1>1, <1>7, <3>2 DEF RequestsOf
      <4> QED BY <1>4, <1>10, <2>3, <3>2, <4>1
    <3>3. CASE i \notin 1..Len(a) /\ j \in 1..Len(a)
      <4>1. a[j].request \in RequestsOf(a) /\ got[i].request \in RequestsOf(b)
        BY <1>1, <1>7, <3>3 DEF RequestsOf
      <4> QED BY <1>4, <1>10, <2>3, <3>3, <4>1
    <3>4. CASE i \notin 1..Len(a) /\ j \notin 1..Len(a)
      <4>1. /\ i - Len(a) \in 1..Len(b) /\ got[i].request = b[i - Len(a)].request
            /\ j - Len(a) \in 1..Len(b) /\ got[j].request = b[j - Len(a)].request
        BY <1>7, <3>4
      <4>2. i - Len(a) = j - Len(a)
        BY <1>1, <1>10, <2>3, <4>1 DEF OnceEach
      <4> QED BY <1>1, <4>2
    <3> QED BY <3>1, <3>2, <3>3, <3>4
  <2> QED BY <1>5, <2>1, <2>2, <2>3 DEF OnceEach, RequestsOf
<1> QED BY <1>3, <1>4, <1>8, <1>9, <1>10 DEF got, left, front
-----------------------------------------------------------------------------
ResponseLinks == [route : Nat, socket : Nat, by : {"method", "kept"}]
LEMMA SendTypes ==
  ASSUME TypeOK, NEW s \in sending, SendResponse(s)
  PROVE  responses' \in [Requests -> Seq(ResponseLinks)]
<1> DEFINE q == rpc_message[s.thread]
           link == [route |-> GetRouteID(s.link_id), socket |-> GetSocket(s.link_id), by |-> s.by]
<1>1. link \in ResponseLinks
  <2>1. s.link_id \in Nat /\ s.by \in {"method", "kept"}
    BY DEF TypeOK, Sends, SendResponse
  <2> QED BY <2>1, LinkGivesNumbers DEF ResponseLinks
<1>2. q # 0 => q \in Requests
  BY ServerConstants DEF TypeOK, Requests, Sends
<1>3. \/ responses' = responses
      \/ q # 0 /\ responses' = [responses EXCEPT ![q] = Append(@, link)]
  BY DEF SendResponse, Sent
<1>4. responses \in [Requests -> Seq(ResponseLinks)]
  BY DEF TypeOK, ResponseLinks
<1> HIDE DEF link, q
<1>5. ASSUME q \in Requests
      PROVE  [responses EXCEPT ![q] = Append(@, link)] \in [Requests -> Seq(ResponseLinks)]
  <2>1. Append(responses[q], link) \in Seq(ResponseLinks)
    BY <1>1, <1>4, <1>5
  <2> QED BY <1>4, <1>5, <2>1
<1> QED BY <1>2, <1>3, <1>4, <1>5

LEMMA TypeStep == TypeOK /\ [Next]_vars => TypeOK'
<1> SUFFICES ASSUME TypeOK, [Next]_vars PROVE TypeOK'
  OBVIOUS
<1>1. ASSUME NEW link \in Links, NEW method \in Methods, ReceiveRoutePacket(link, method)
      PROVE  TypeOK'
  <2>1. [route |-> link.route, socket |-> link.socket, method |-> method]
          \in [route : 0..(RouteNum - 1), socket : Sockets, method : Methods]
    BY DEF Links
  <2>2. Len(arrived) + 1 \in Requests /\ Len(arrived) \in Nat
    BY <1>1, ServerConstants DEF ReceiveRoutePacket, TypeOK, Requests
  <2>3. [request |-> Len(arrived) + 1, link_id |-> BuildLinkID(link.route, link.socket)] \in Packets
    BY <2>2, LinkIsNumber DEF Packets
  <2>4. /\ arrived' \in Seq([route : 0..(RouteNum - 1), socket : Sockets, method : Methods])
        /\ Len(arrived') <= MaxRequests
    BY <1>1, <2>1, <2>2, ServerConstants DEF ReceiveRoutePacket, TypeOK, Requests
  <2>5. message_queue' \in Seq(Packets)
    BY <1>1, <2>3 DEF ReceiveRoutePacket, TypeOK
  <2> QED BY <1>1, <2>4, <2>5 DEF ReceiveRoutePacket, TypeOK, threads, closures, stopping
<1>2. ASSUME NEW w \in WorkThreads, WorkThread(w) PROVE TypeOK'
  <2>1. CASE Fetch(w)
    <3>1. PICK n \in 0..Len(message_queue) :
            /\ packet_queue' = [packet_queue EXCEPT ![w] = @ \o SubSeq(message_queue, 1, n)]
            /\ message_queue' = SubSeq(message_queue, n + 1, Len(message_queue))
      <4>1. Smaller(FetchNum, Len(message_queue)) \in 0..Len(message_queue)
        BY ServerConstants DEF TypeOK, Smaller
      <4> QED BY <2>1, <4>1 DEF Fetch, Unfetched
    <3>2. /\ packet_queue[w] \o SubSeq(message_queue, 1, n) \in Seq(Packets)
          /\ message_queue' \in Seq(Packets)
      BY <3>1, QueueFetched DEF TypeOK
    <3>3. pc[w] = "fetch"
      BY <2>1 DEF Fetch, Idle
    <3> QED BY <2>1, <3>1, <3>2, <3>3 DEF Fetch, TypeOK, closures, stopping
  <2>2. CASE FetchFromNothing(w)
    BY <2>2 DEF FetchFromNothing, TypeOK, closures, stopping
  <2>3. CASE EndThread(w)
    BY <2>3 DEF EndThread, TypeOK, closures, stopping
  <2>4. CASE Take(w)
    <3>1. Head(packet_queue[w]) \in Packets /\ packet_queue[w] # <<>>
      BY <2>4, QueueTaken DEF Take, TypeOK
    <3>2. cntl_link' \in [WorkThreads -> Nat]
      BY <2>4, <3>1 DEF Take, TypeOK, SetLink, Packets
    <3> QED BY <2>4, <3>1, <3>2 DEF Take, TypeOK, closures, stopping
  <2>5. CASE ParseBinary(w)
    <3>0. packet_queue[w] \in Seq(Packets) /\ packet_queue[w] # <<>> /\ pc[w] = "parse"
      BY <2>5 DEF ParseBinary, TypeOK
    <3>1. PICK packet \in Packets : packet = Head(packet_queue[w])
      BY <3>0, QueueTaken
    <3>2. Tail(packet_queue[w]) \in Seq(Packets)
      BY <3>0, QueueTaken
    <3>3. packet.request \in 0..MaxRequests /\ packet.request \in Requests
      BY ServerConstants DEF Packets, Requests
    <3>4. packet_queue' = [packet_queue EXCEPT ![w] = Tail(@)]
      BY <2>5 DEF ParseBinary
    <3>5. /\ packet_queue' \in [WorkThreads -> Seq(Packets)]
          /\ \A v \in WorkThreads \ {w} : packet_queue'[v] = packet_queue[v]
      BY <3>2, <3>4 DEF TypeOK
    <3>6. /\ rpc_message' \in [WorkThreads -> 0..MaxRequests]
          /\ pc' \in [WorkThreads -> Positions]
          /\ \A v \in WorkThreads : pc'[v] = "parse" => v # w /\ pc[v] = "parse"
          /\ runs' \in [WorkThreads -> 0..2]
      <4>1. PICK m : m = arrived[packet.request].method
        OBVIOUS
      <4>2. CASE m = "bad"
        <5>1. rpc_message' = rpc_message /\ pc' = [pc EXCEPT ![w] = "fetch"] /\ runs' = runs
          BY <2>5, <3>1, <4>1, <4>2 DEF ParseBinary
        <5> QED BY <5>1 DEF TypeOK, Positions
      <4>3. CASE m # "bad"
        <5>1. PICK n \in 0..2 : runs' = [runs EXCEPT ![w] = n]
          <6>1. runs' = [runs EXCEPT ![w] = CASE m = "now" -> 1
                                              [] m = "twice" -> 2
                                              [] OTHER -> 0]
            BY <2>5, <3>1, <4>1, <4>3 DEF ParseBinary
          <6>2. CASE m = "now"
            <7>1. runs' = [runs EXCEPT ![w] = 1]
              BY <6>1, <6>2
            <7> QED BY <7>1
          <6>3. CASE m = "twice"
            <7>1. runs' = [runs EXCEPT ![w] = 2]
              BY <6>1, <6>3
            <7> QED BY <7>1
          <6>4. CASE m # "now" /\ m # "twice"
            <7>1. runs' = [runs EXCEPT ![w] = 0]
              BY <6>1, <6>4
            <7> QED BY <7>1
          <6> QED BY <6>2, <6>3, <6>4
        <5>2. /\ rpc_message' = [rpc_message EXCEPT ![w] = packet.request]
              /\ pc' = [pc EXCEPT ![w] = "method"]
          BY <2>5, <3>1, <4>1, <4>3 DEF ParseBinary
        <5> QED BY <3>3, <5>1, <5>2 DEF TypeOK, Positions
      <4> QED BY <4>2, <4>3
    <3>7. kept' \subseteq WorkThreads \X Requests
      BY <2>5, <3>1, <3>3 DEF ParseBinary, TypeOK
    <3> QED BY <2>5, <3>5, <3>6, <3>7 DEF ParseBinary, TypeOK, Positions, stopping
  <2>6. CASE RunDone(w)
    <3>1. runs' \in [WorkThreads -> 0..2]
      <4>1. runs' = runs \/ runs' = [runs EXCEPT ![w] = @ - 1]
        BY <2>6 DEF RunDone
      <4>2. runs \in [WorkThreads -> 0..2] /\ runs[w] \in 0..2 /\ runs[w] > 0
        BY <2>6 DEF RunDone, RunsLeft, TypeOK
      <4>3. PICK n \in 0..2 : n = runs[w] - 1
        BY <4>2
      <4> QED BY <4>1, <4>2, <4>3
    <3>2. sending' \subseteq Sends
      <4>1. rpc_message[w] # 0 => rpc_message[w] \in Requests
        BY ServerConstants DEF TypeOK, Requests
      <4>2. cntl_link[w] \in Nat
        BY DEF TypeOK
      <4> QED BY <2>6, <4>1, <4>2 DEF RunDone, MayRespond, TypeOK, Sends
    <3>3. pc \in [WorkThreads -> Positions] /\ pc[w] = "method" /\ runs[w] > 0
      BY <2>6 DEF RunDone, RunsLeft, TypeOK, Positions
    <3>4. /\ pc' \in [WorkThreads -> Positions]
          /\ \A v \in WorkThreads : pc'[v] = "parse" => packet_queue[v] # <<>>
      <4>1. pc' = pc \/ pc' = [pc EXCEPT ![w] = "send"]
        BY <2>6 DEF RunDone
      <4>2. \A v \in WorkThreads : pc[v] = "parse" => packet_queue[v] # <<>>
        BY DEF TypeOK
      <4> QED BY <3>3, <4>1, <4>2 DEF Positions
    <3>5. \A v \in WorkThreads : pc'[v] = "send" => runs'[v] > 0
      <4>1. \/ pc' = pc /\ runs' = [runs EXCEPT ![w] = @ - 1]
            \/ pc' = [pc EXCEPT ![w] = "send"] /\ runs' = runs
        BY <2>6 DEF RunDone
      <4>2. \A v \in WorkThreads : pc[v] = "send" => runs[v] > 0
        BY DEF TypeOK
      <4>3. runs \in [WorkThreads -> 0..2]
        BY DEF TypeOK
      <4> QED BY <3>3, <4>1, <4>2, <4>3
    <3>6. UNCHANGED <<arrived, message_queue, packet_queue, cntl_link, rpc_message, kept,
                      torn, rpc_net, run_thread, quit, stop_pc, responses>>
      BY <2>6 DEF RunDone, stopping
    <3> QED BY <3>1, <3>2, <3>4, <3>5, <3>6 DEF TypeOK, Positions
  <2>7. CASE EndDone(w)
    <3>1. PICK s \in sending : SendResponse(s)
      BY <2>7 DEF EndDone, SendResponse
    <3>2. responses' \in [Requests -> Seq([route : Nat, socket : Nat, by : {"method", "kept"}])]
      BY <3>1, SendTypes DEF ResponseLinks
    <3>3. runs' \in [WorkThreads -> 0..2] \/ runs[w] = 0
      BY <2>7 DEF EndDone, TypeOK
    <3>4. sending' \subseteq Sends /\ torn' \in BOOLEAN
      BY <3>1 DEF SendResponse, TypeOK
    <3>5. runs[w] # 0
      BY <2>7 DEF EndDone, TypeOK
    <3>6. runs' \in [WorkThreads -> 0..2]
      BY <3>3, <3>5
    <3> QED BY <2>7, <3>1, <3>2, <3>4, <3>6 DEF EndDone, SendResponse, TypeOK, stopping
  <2>8. CASE Reset(w)
    BY <2>8 DEF Reset, TypeOK, closures, stopping
  <2>9. CASE Clear(w)
    BY <2>9, ServerConstants DEF Clear, TypeOK, closures, stopping
  <2> QED BY <1>2, <2>1, <2>2, <2>3, <2>4, <2>5, <2>6, <2>7, <2>8, <2>9 DEF WorkThread
<1>3. ASSUME NEW w \in WorkThreads, NEW q \in Requests, RunKeptDone(w, q) PROVE TypeOK'
  <2>1. sending' \subseteq Sends
    <3>1. rpc_message[w] # 0 => rpc_message[w] \in Requests
      BY ServerConstants DEF TypeOK, Requests
    <3> QED BY <1>3, <3>1 DEF RunKeptDone, MayRespond, TypeOK, Sends
  <2> QED BY <1>3, <2>1 DEF RunKeptDone, TypeOK, threads, stopping
<1>9. ASSUME NEW s \in sending, ReadLink(s) PROVE TypeOK'
  <2>1. s \in Sends /\ cntl_link[s.thread] \in Nat
    BY DEF TypeOK, Sends
  <2>2. [s EXCEPT !.link_id = cntl_link[s.thread]] \in Sends
    BY <2>1 DEF Sends
  <2>3. sending' \subseteq Sends
    BY <1>9, <2>2 DEF ReadLink, TypeOK
  <2> QED BY <1>9, <2>3 DEF ReadLink, TypeOK, threads, stopping
<1>10. ASSUME NEW s \in sending, EndKeptDone(s) PROVE TypeOK'
  <2>1. responses' \in [Requests -> Seq([route : Nat, socket : Nat, by : {"method", "kept"}])]
    BY <1>10, SendTypes DEF EndKeptDone, ResponseLinks
  <2>2. sending' \subseteq Sends /\ torn' \in BOOLEAN
    BY <1>10 DEF EndKeptDone, SendResponse, TypeOK
  <2> QED BY <1>10, <2>1, <2>2 DEF EndKeptDone, SendResponse, TypeOK, stopping
<1>4. CASE AskToQuit
  BY <1>4 DEF AskToQuit, TypeOK, threads, closures
<1>5. CASE DeleteNet
  BY <1>5 DEF DeleteNet, TypeOK, threads, closures
<1>6. CASE StopThreads
  BY <1>6 DEF StopThreads, TypeOK, threads, closures
<1>7. CASE Join
  BY <1>7 DEF Join, TypeOK, threads, closures
<1>8. CASE UNCHANGED vars
  BY <1>8 DEF vars, TypeOK, threads, closures, stopping
<1> QED BY <1>1, <1>2, <1>3, <1>4, <1>5, <1>6, <1>7, <1>8, <1>9, <1>10 DEF Next

LEMMA TypeInit == Init => TypeOK
<1> SUFFICES ASSUME Init PROVE TypeOK
  OBVIOUS
<1>1. MaxRequests \in Nat
  BY ServerConstants
<1>2. \A S : <<>> \in Seq(S)
  OBVIOUS
<1>3. /\ arrived \in Seq([route : 0..(RouteNum - 1), socket : Sockets, method : Methods])
      /\ Len(arrived) <= MaxRequests
      /\ message_queue \in Seq(Packets)
      /\ packet_queue \in [WorkThreads -> Seq(Packets)]
      /\ responses \in [Requests -> Seq([route : Nat, socket : Nat, by : {"method", "kept"}])]
  BY <1>1, <1>2 DEF Init
<1>4. {torn, rpc_net, run_thread, quit} \subseteq BOOLEAN
  BY DEF Init
<1> QED BY <1>1, <1>3, <1>4 DEF Init, TypeOK

(* Types hold for sockets of any size too. *)
THEOREM TypeCorrect == Spec => []TypeOK
  BY TypeInit, TypeStep, PTL DEF Spec
-----------------------------------------------------------------------------
(* A request is in one place: the queue of the network, the queue of one    *)
(* work thread, or the method that a work thread runs.                      *)
Running(w) == pc[w] \in {"method", "send"} /\ runs[w] > 0
Held(w) == RequestsOf(packet_queue[w]) \cup (IF Running(w) THEN {rpc_message[w]} ELSE {})
PlacesInv ==
  /\ OnceEach(message_queue)
  /\ \A w \in WorkThreads :
       /\ OnceEach(packet_queue[w])
       /\ Running(w) => rpc_message[w] \notin RequestsOf(packet_queue[w])
       /\ RequestsOf(message_queue) \cap Held(w) = {}
       /\ Held(w) \subseteq 1..Len(arrived)
  /\ \A v, w \in WorkThreads : v # w => Held(v) \cap Held(w) = {}
  /\ RequestsOf(message_queue) \subseteq 1..Len(arrived)

(* What is in such a place was not answered yet.                            *)
Unanswered(q) == responses[q] = <<>>
OnceInv ==
  DoneInTime =>
    /\ kept = {}
    /\ \A s \in sending : s.by = "method"
    /\ \A w \in WorkThreads : Running(w) => runs[w] <= 1
    /\ \A q \in Requests : Len(responses[q]) <= 1
    /\ \A q \in Requests : q > Len(arrived) => Unanswered(q)
    /\ \A q \in RequestsOf(message_queue) : Unanswered(q)
    /\ \A w \in WorkThreads : \A q \in Held(w) : Unanswered(q)

AnswerInv == TypeOK /\ PlacesInv /\ OnceInv

LEMMA ArrivalKeepsPlaces ==
  ASSUME AnswerInv, NEW link \in Links, NEW method \in Methods, ReceiveRoutePacket(link, method)
  PROVE  PlacesInv' /\ OnceInv'
<1> DEFINE new == Len(arrived) + 1
           packet == [request |-> new, link_id |-> BuildLinkID(link.route, link.socket)]
<1>1. /\ Len(arrived) \in Nat /\ new \in Requests
      /\ Len(arrived') = new
      /\ \A q \in 1..Len(arrived) : arrived'[q] = arrived[q]
      /\ DOMAIN arrived = 1..Len(arrived) /\ DOMAIN arrived' = 1..new
  BY ServerConstants DEF AnswerInv, TypeOK, ReceiveRoutePacket, Requests
<1>2. packet \in Packets /\ packet.request = new
  BY <1>1, LinkIsNumber DEF Packets
<1>3. message_queue' = Append(message_queue, packet)
  BY DEF ReceiveRoutePacket
<1>4. UNCHANGED <<pc, packet_queue, rpc_message, runs, kept, sending, responses>>
  BY DEF ReceiveRoutePacket, threads, closures
<1>5. new \notin 1..Len(arrived) /\ 1..Len(arrived) \subseteq 1..new /\ new \in 1..new
  BY <1>1
<1> HIDE DEF new, packet
<1>6. /\ RequestsOf(message_queue') = RequestsOf(message_queue) \cup {new}
      /\ OnceEach(message_queue')
  BY <1>2, <1>3, <1>5, QueueArrives DEF AnswerInv, TypeOK, PlacesInv
<1>7. \A w \in WorkThreads : Held(w)' = Held(w) /\ Running(w)' = Running(w)
  BY <1>4 DEF Held, Running
<1>8. PlacesInv'
  BY <1>1, <1>4, <1>5, <1>6, <1>7 DEF AnswerInv, PlacesInv
<1>9. OnceInv'
  <2> SUFFICES ASSUME DoneInTime'
               PROVE  /\ kept = {}
                      /\ \A s \in sending : s.by = "method"
                      /\ \A w \in WorkThreads : Running(w) => runs[w] <= 1
                      /\ \A q \in Requests : Len(responses[q]) <= 1
                      /\ \A q \in Requests : q > new => Unanswered(q)
                      /\ \A q \in RequestsOf(message_queue') : Unanswered(q)
                      /\ \A w \in WorkThreads : \A q \in Held(w) : Unanswered(q)
    BY <1>1, <1>4, <1>7 DEF OnceInv, Unanswered
  <2>1. DoneInTime
    BY <1>1, <1>5 DEF DoneInTime
  <2>2. Unanswered(new)
    BY <1>1, <2>1 DEF AnswerInv, OnceInv, new
  <2>3. \A q \in Requests : q > new => Unanswered(q)
    BY <1>1, <2>1 DEF AnswerInv, OnceInv, new, Requests
  <2> QED BY <1>6, <2>1, <2>2, <2>3 DEF AnswerInv, OnceInv
<1> QED BY <1>8, <1>9

(* A thread that moves packets between queues, or drops one, answers none.  *)
LEMMA MoveKeepsOnce ==
  ASSUME OnceInv, UNCHANGED <<arrived, responses>>, NEW w \in WorkThreads,
         DoneInTime => /\ kept' = kept /\ \A s \in sending' \ sending : s.by = "method"
                       /\ Running(w)' => runs'[w] <= 1,
         \A v \in WorkThreads \ {w} : Held(v)' = Held(v) /\ pc'[v] = pc[v] /\ runs'[v] = runs[v],
         RequestsOf(message_queue') \subseteq RequestsOf(message_queue),
         Held(w)' \subseteq Held(w) \cup RequestsOf(message_queue)
  PROVE  OnceInv'
<1> SUFFICES ASSUME DoneInTime
             PROVE  /\ kept' = {}
                    /\ \A s \in sending' : s.by = "method"
                    /\ \A v \in WorkThreads : Running(v)' => runs'[v] <= 1
                    /\ \A q \in Requests : Len(responses[q]) <= 1
                    /\ \A q \in Requests : q > Len(arrived) => Unanswered(q)
                    /\ \A q \in RequestsOf(message_queue') : Unanswered(q)
                    /\ \A v \in WorkThreads : \A q \in Held(v)' : Unanswered(q)
  BY DEF OnceInv, DoneInTime, Unanswered
<1>1. \A v \in WorkThreads : Running(v)' => runs'[v] <= 1
  BY DEF OnceInv, Running
<1>3. \A s \in sending' : s.by = "method"
  BY DEF OnceInv
<1>2. ASSUME NEW v \in WorkThreads, NEW q \in Held(v)' PROVE Unanswered(q)
  <2>1. CASE v = w
    BY <1>2, <2>1 DEF OnceInv
  <2>2. CASE v # w
    BY <1>2, <2>2 DEF OnceInv
  <2> QED BY <2>1, <2>2
<1> QED BY <1>1, <1>2, <1>3 DEF OnceInv

LEMMA FetchKeepsPlaces ==
  ASSUME AnswerInv, NEW w \in WorkThreads, Fetch(w)
  PROVE  PlacesInv' /\ OnceInv'
<1>1. PICK n \in 0..Len(message_queue) :
        /\ packet_queue' = [packet_queue EXCEPT ![w] = @ \o SubSeq(message_queue, 1, n)]
        /\ message_queue' = SubSeq(message_queue, n + 1, Len(message_queue))
  <2>1. Smaller(FetchNum, Len(message_queue)) \in 0..Len(message_queue)
    BY ServerConstants DEF AnswerInv, TypeOK, Smaller
  <2> QED BY <2>1 DEF Fetch, Unfetched
<1>2. /\ packet_queue \in [WorkThreads -> Seq(Packets)] /\ message_queue \in Seq(Packets)
      /\ UNCHANGED <<arrived, pc, rpc_message, runs, kept, sending, responses>>
      /\ pc[w] = "fetch"
  BY DEF AnswerInv, TypeOK, Fetch, Idle, closures
<1>3. /\ Held(w) = RequestsOf(packet_queue[w]) /\ Held(w)' = RequestsOf(packet_queue'[w])
      /\ \A v \in WorkThreads : Running(v)' = Running(v) /\ ~Running(w)
  BY <1>2 DEF Held, Running
<1>4. \A v \in WorkThreads \ {w} : packet_queue'[v] = packet_queue[v] /\ Held(v)' = Held(v)
  BY <1>1, <1>2 DEF Held, Running
<1>5. packet_queue'[w] = packet_queue[w] \o SubSeq(message_queue, 1, n)
  BY <1>1, <1>2
<1>6. /\ RequestsOf(packet_queue'[w]) \subseteq RequestsOf(packet_queue[w]) \cup RequestsOf(message_queue)
      /\ RequestsOf(message_queue') \subseteq RequestsOf(message_queue)
      /\ OnceEach(packet_queue'[w]) /\ OnceEach(message_queue')
      /\ RequestsOf(packet_queue'[w]) \cap RequestsOf(message_queue') = {}
  BY <1>1, <1>2, <1>3, <1>5, QueueFetched DEF AnswerInv, PlacesInv
<1>7. PlacesInv'
  <2>1. ASSUME NEW v \in WorkThreads
        PROVE  /\ OnceEach(packet_queue'[v])
               /\ Running(v)' => rpc_message[v] \notin RequestsOf(packet_queue'[v])
               /\ RequestsOf(message_queue') \cap Held(v)' = {}
               /\ Held(v)' \subseteq 1..Len(arrived)
    <3>1. CASE v = w
      BY <1>2, <1>3, <1>6, <3>1 DEF AnswerInv, PlacesInv
    <3>2. CASE v # w
      BY <1>2, <1>3, <1>4, <1>6, <3>2 DEF AnswerInv, PlacesInv
    <3> QED BY <3>1, <3>2
  <2>2. ASSUME NEW u \in WorkThreads, NEW v \in WorkThreads, u # v
        PROVE  Held(u)' \cap Held(v)' = {}
    <3>1. CASE u = w
      BY <1>3, <1>4, <1>6, <2>2, <3>1 DEF AnswerInv, PlacesInv
    <3>2. CASE v = w
      BY <1>3, <1>4, <1>6, <2>2, <3>2 DEF AnswerInv, PlacesInv
    <3>3. CASE u # w /\ v # w
      BY <1>4, <2>2, <3>3 DEF AnswerInv, PlacesInv
    <3> QED BY <3>1, <3>2, <3>3
  <2>3. RequestsOf(message_queue') \subseteq 1..Len(arrived)
    BY <1>6 DEF AnswerInv, PlacesInv
  <2> QED BY <1>2, <1>6, <2>1, <2>2, <2>3 DEF PlacesInv
<1>8. OnceInv'
  BY <1>2, <1>3, <1>4, <1>6, MoveKeepsOnce DEF AnswerInv
<1> QED BY <1>7, <1>8

LEMMA ShrinkKeepsPlaces ==
  ASSUME PlacesInv, UNCHANGED <<arrived, message_queue>>, NEW w \in WorkThreads,
         \A v \in WorkThreads \ {w} :
            /\ packet_queue'[v] = packet_queue[v] /\ pc'[v] = pc[v]
            /\ runs'[v] = runs[v] /\ rpc_message'[v] = rpc_message[v],
         Held(w)' \subseteq Held(w), OnceEach(packet_queue'[w]),
         Running(w)' => rpc_message'[w] \notin RequestsOf(packet_queue'[w])
  PROVE  PlacesInv' /\ \A v \in WorkThreads \ {w} : Held(v)' = Held(v)
<1>1. \A v \in WorkThreads \ {w} : Held(v)' = Held(v) /\ Running(v)' = Running(v)
  BY DEF Held, Running
<1>2. \A v \in WorkThreads : Held(v)' \subseteq Held(v)
  BY <1>1
<1>3. \A v \in WorkThreads :
        /\ OnceEach(packet_queue'[v])
        /\ Running(v)' => rpc_message'[v] \notin RequestsOf(packet_queue'[v])
  BY <1>1 DEF PlacesInv
<1>4. \A v \in WorkThreads : /\ RequestsOf(message_queue) \cap Held(v)' = {}
                             /\ Held(v)' \subseteq 1..Len(arrived)
  BY <1>2 DEF PlacesInv
<1>5. \A u, v \in WorkThreads : u # v => Held(u)' \cap Held(v)' = {}
  BY <1>2 DEF PlacesInv
<1> QED BY <1>1, <1>3, <1>4, <1>5 DEF PlacesInv

(* The method of a request that a thread takes answers it at most once.     *)
LEMMA ParseKeepsPlaces ==
  ASSUME AnswerInv, NEW w \in WorkThreads, ParseBinary(w)
  PROVE  PlacesInv' /\ OnceInv'
<1>1. /\ packet_queue[w] \in Seq(Packets) /\ packet_queue[w] # <<>>
      /\ packet_queue \in [WorkThreads -> Seq(Packets)]
      /\ pc \in [WorkThreads -> Positions]
      /\ runs \in [WorkThreads -> 0..2] /\ rpc_message \in [WorkThreads -> 0..MaxRequests]
      /\ pc[w] = "parse"
  BY DEF AnswerInv, TypeOK, ParseBinary, Positions
<1>2. PICK q : q = Head(packet_queue[w]).request
  OBVIOUS
<1>3. PICK m : m = arrived[q].method
  OBVIOUS
<1>4. /\ q \in RequestsOf(packet_queue[w])
      /\ RequestsOf(Tail(packet_queue[w])) \subseteq RequestsOf(packet_queue[w])
      /\ OnceEach(Tail(packet_queue[w])) /\ q \notin RequestsOf(Tail(packet_queue[w]))
  BY <1>1, <1>2, QueueTaken DEF AnswerInv, PlacesInv
<1>5. Held(w) = RequestsOf(packet_queue[w])
  BY <1>1 DEF Held, Running
<1>6. /\ packet_queue' = [packet_queue EXCEPT ![w] = Tail(@)]
      /\ UNCHANGED <<arrived, message_queue, sending, responses>>
  BY DEF ParseBinary
<1>7. packet_queue'[w] = Tail(packet_queue[w])
  BY <1>1, <1>6
<1>8. CASE m = "bad"
  <2>1. pc' = [pc EXCEPT ![w] = "fetch"] /\ UNCHANGED <<rpc_message, runs, kept>>
    BY <1>2, <1>3, <1>8 DEF ParseBinary
  <2>2. Held(w)' \subseteq Held(w) /\ ~Running(w)'
    BY <1>1, <1>4, <1>5, <1>7, <2>1 DEF Held, Running
  <2>3. PlacesInv' /\ \A v \in WorkThreads \ {w} : Held(v)' = Held(v)
    BY <1>1, <1>4, <1>6, <1>7, <2>1, <2>2, ShrinkKeepsPlaces DEF AnswerInv
  <2> QED BY <1>1, <1>6, <2>1, <2>2, <2>3, MoveKeepsOnce DEF AnswerInv
<1>9. CASE m # "bad"
  <2>1. /\ rpc_message' = [rpc_message EXCEPT ![w] = q]
        /\ pc' = [pc EXCEPT ![w] = "method"]
        /\ runs' = [runs EXCEPT ![w] = CASE m = "now" -> 1
                                         [] m = "twice" -> 2
                                         [] OTHER -> 0]
        /\ kept' = IF m = "later" THEN kept \cup {<<w, q>>} ELSE kept
    BY <1>2, <1>3, <1>9 DEF ParseBinary
  <2>2. rpc_message'[w] = q /\ pc'[w] = "method"
    BY <1>1, <2>1
  <2>3. Held(w)' \subseteq Held(w)
    BY <1>4, <1>5, <1>7, <2>2 DEF Held
  <2>4. PlacesInv' /\ \A v \in WorkThreads \ {w} : Held(v)' = Held(v)
    BY <1>1, <1>4, <1>6, <1>7, <2>1, <2>2, <2>3, ShrinkKeepsPlaces DEF AnswerInv
  <2>5. DoneInTime => m # "twice" /\ m # "later"
    <3>1. q \in DOMAIN arrived
      BY <1>4, <1>5 DEF AnswerInv, PlacesInv, TypeOK
    <3> QED BY <1>3, <3>1 DEF DoneInTime
  <2>6. DoneInTime => kept' = kept /\ runs'[w] <= 1
    <3>1. CASE m = "now"
      <4>1. runs' = [runs EXCEPT ![w] = 1]
        BY <2>1, <3>1
      <4> QED BY <1>1, <2>1, <2>5, <4>1
    <3>2. CASE m # "now" /\ m # "twice"
      <4>1. runs' = [runs EXCEPT ![w] = 0]
        BY <2>1, <3>2
      <4> QED BY <1>1, <2>1, <2>5, <4>1
    <3> QED BY <2>5, <3>1, <3>2
  <2> QED BY <1>1, <1>6, <2>1, <2>3, <2>4, <2>6, MoveKeepsOnce DEF AnswerInv
<1> QED BY <1>8, <1>9

(* A send answers the request that the thread's method was called for and   *)
(* leaves it nowhere.                                                       *)
LEMMA EndDoneKeepsPlaces ==
  ASSUME AnswerInv, NEW w \in WorkThreads, EndDone(w)
  PROVE  PlacesInv' /\ OnceInv'
<1>0. PICK s \in sending : s.thread = w /\ SendResponse(s)
  BY DEF EndDone, SendResponse
<1>1. /\ UNCHANGED <<arrived, message_queue, packet_queue, rpc_message, kept>>
      /\ runs' = [runs EXCEPT ![w] = @ - 1] /\ pc' = [pc EXCEPT ![w] = "method"]
      /\ sending' \subseteq sending
      /\ pc[w] = "send" /\ runs[w] \in 1..2
      /\ runs \in [WorkThreads -> 0..2] /\ pc \in [WorkThreads -> Positions]
      /\ responses \in [Requests -> Seq(ResponseLinks)]
  BY <1>0 DEF AnswerInv, TypeOK, EndDone, SendResponse, ResponseLinks, Positions
<1>2. /\ Held(w)' \subseteq Held(w) /\ runs'[w] = runs[w] - 1
      /\ Running(w) /\ (Running(w)' => runs'[w] > 0)
  BY <1>1 DEF Held, Running
<1>3. PlacesInv' /\ \A v \in WorkThreads \ {w} : Held(v)' = Held(v) /\ Running(v)' = Running(v)
  <2>1. \A v \in WorkThreads \ {w} : Running(v)' = Running(v) /\ pc'[v] = pc[v] /\ runs'[v] = runs[v]
    BY <1>1 DEF Running
  <2> QED BY <1>1, <1>2, <2>1, ShrinkKeepsPlaces DEF AnswerInv, PlacesInv
<1>4. OnceInv'
  <2> SUFFICES ASSUME DoneInTime
               PROVE  /\ kept = {}
                      /\ \A t \in sending' : t.by = "method"
                      /\ \A v \in WorkThreads : Running(v)' => runs'[v] <= 1
                      /\ \A q \in Requests : Len(responses'[q]) <= 1
                      /\ \A q \in Requests : q > Len(arrived) => Unanswered(q)'
                      /\ \A q \in RequestsOf(message_queue) : Unanswered(q)'
                      /\ \A v \in WorkThreads : \A q \in Held(v)' : Unanswered(q)'
    BY <1>1 DEF OnceInv, DoneInTime
  <2> DEFINE p == rpc_message[w]
  <2>1. runs[w] = 1
    BY <1>1, <1>2 DEF AnswerInv, OnceInv
  <2>2. p \in Held(w) /\ p \notin RequestsOf(packet_queue[w])
    BY <1>2 DEF Held, AnswerInv, PlacesInv
  <2>3. /\ p \in 1..Len(arrived) /\ p \in Requests
        /\ Unanswered(p)
    <3>1. p \in 1..Len(arrived) /\ Unanswered(p)
      BY <2>2 DEF AnswerInv, PlacesInv, OnceInv
    <3>2. Len(arrived) \in Nat /\ Len(arrived) <= MaxRequests /\ MaxRequests \in Nat
      BY ServerConstants DEF AnswerInv, TypeOK
    <3> QED BY <3>1, <3>2 DEF Requests
  <2>4. Held(w)' = RequestsOf(packet_queue[w])
    BY <1>1, <1>2, <2>1 DEF Held, Running
  <2>5. p \notin RequestsOf(message_queue) /\ \A v \in WorkThreads : p \notin Held(v)'
    BY <1>3, <2>2, <2>4 DEF AnswerInv, PlacesInv
  <2>6. /\ \A q \in Requests : q # p => responses'[q] = responses[q]
        /\ Len(responses'[p]) <= 1
    <3>1. CASE responses' = responses
      BY <2>3, <3>1 DEF AnswerInv, OnceInv
    <3>2. CASE responses' # responses
      <4>1. PICK link : /\ link \in ResponseLinks
                        /\ responses' = [responses EXCEPT ![p] = Append(@, link)]
        <5>1. s.link_id \in Nat /\ s.by \in {"method", "kept"}
          BY <1>0 DEF AnswerInv, TypeOK, Sends, SendResponse
        <5>2. [route |-> GetRouteID(s.link_id), socket |-> GetSocket(s.link_id), by |-> s.by]
                \in ResponseLinks
          BY <5>1, LinkGivesNumbers DEF ResponseLinks
        <5> QED BY <1>0, <3>2, <5>2 DEF SendResponse, Sent
      <4>2. responses'[p] = Append(<<>>, link)
        BY <1>1, <2>3, <4>1 DEF Unanswered
      <4>3. Len(Append(<<>>, link)) = 1
        OBVIOUS
      <4>4. Len(responses'[p]) <= 1
        BY <4>2, <4>3
      <4>5. \A q \in Requests : q # p => responses'[q] = responses[q]
        <5> HIDE DEF p
        <5> QED BY <1>1, <4>1
      <4> QED BY <4>4, <4>5
    <3> QED BY <3>1, <3>2
  <2>7. \A q \in 1..Len(arrived) : q \in Requests
    BY ServerConstants DEF AnswerInv, TypeOK, Requests
  <2>8. ASSUME NEW q \in Requests, q # p, Unanswered(q) PROVE Unanswered(q)'
    BY <2>6, <2>8 DEF Unanswered
  <2> HIDE DEF p
  <2>9. \A q \in Requests : Len(responses'[q]) <= 1
    BY <2>6 DEF AnswerInv, OnceInv
  <2>10. \A q \in Requests : q > Len(arrived) => Unanswered(q)'
    <3>1. \A q \in Requests : q > Len(arrived) => q # p
      BY <2>3 DEF Requests
    <3> QED BY <2>8, <3>1 DEF AnswerInv, OnceInv
  <2>11. \A q \in RequestsOf(message_queue) : Unanswered(q)'
    BY <2>5, <2>7, <2>8 DEF AnswerInv, OnceInv, PlacesInv
  <2>12. \A v \in WorkThreads : \A q \in Held(v)' : Unanswered(q)'
    <3>1. \A v \in WorkThreads : Held(v)' \subseteq Held(v)
      BY <1>2, <1>3
    <3> QED BY <2>5, <2>7, <2>8, <3>1 DEF AnswerInv, OnceInv, PlacesInv
  <2>13. \A v \in WorkThreads : Running(v)' => runs'[v] <= 1
    BY <1>1, <1>3, <2>1 DEF AnswerInv, OnceInv
  <2> QED BY <1>1, <2>9, <2>10, <2>11, <2>12, <2>13 DEF AnswerInv, OnceInv
<1> QED BY <1>3, <1>4

(* The thread's method runs done, and its call of SendResponse begins or    *)
(* ends at a check.                                                         *)
LEMMA RunDoneKeepsPlaces ==
  ASSUME AnswerInv, NEW w \in WorkThreads, RunDone(w)
  PROVE  PlacesInv' /\ OnceInv'
<1>1. /\ UNCHANGED <<arrived, message_queue, packet_queue, rpc_message, kept, responses>>
      /\ pc[w] = "method" /\ runs[w] > 0
      /\ runs \in [WorkThreads -> 0..2] /\ pc \in [WorkThreads -> Positions]
      /\ \A s \in sending' \ sending : s.by = "method"
      /\ \/ pc' = [pc EXCEPT ![w] = "send"] /\ runs' = runs
         \/ pc' = pc /\ runs' = [runs EXCEPT ![w] = @ - 1]
  BY DEF RunDone, RunsLeft, AnswerInv, TypeOK, Positions
<1>2. Running(w) /\ runs'[w] <= runs[w] /\ runs'[w] \in Nat /\ runs[w] \in Nat
  BY <1>1 DEF Running
<1>3. Held(w)' \subseteq Held(w)
  BY <1>1, <1>2 DEF Held
<1>4. \A v \in WorkThreads \ {w} : pc'[v] = pc[v] /\ runs'[v] = runs[v]
  BY <1>1
<1>5. PlacesInv' /\ \A v \in WorkThreads \ {w} : Held(v)' = Held(v)
  BY <1>1, <1>2, <1>3, <1>4, ShrinkKeepsPlaces DEF AnswerInv, PlacesInv
<1>6. DoneInTime => runs'[w] <= 1
  BY <1>2 DEF AnswerInv, OnceInv
<1> QED BY <1>1, <1>3, <1>4, <1>5, <1>6, MoveKeepsOnce DEF AnswerInv

(* Steps that change neither queues nor responses.                          *)
LEMMA QuietKeepsPlaces ==
  ASSUME AnswerInv, NEW w \in WorkThreads,
         UNCHANGED <<arrived, message_queue, packet_queue, responses, runs, kept, sending>>,
         ~Running(w)',
         \A v \in WorkThreads \ {w} : pc'[v] = pc[v] /\ rpc_message'[v] = rpc_message[v]
  PROVE  PlacesInv' /\ OnceInv'
<1>1. Held(w)' \subseteq Held(w)
  BY DEF Held
<1>2. OnceEach(packet_queue'[w])
  BY DEF AnswerInv, PlacesInv
<1>3. PlacesInv' /\ \A v \in WorkThreads \ {w} : Held(v)' = Held(v)
  BY <1>1, <1>2, ShrinkKeepsPlaces DEF AnswerInv
<1> QED BY <1>1, <1>3, MoveKeepsOnce DEF AnswerInv

LEMMA StillKeepsPlaces ==
  ASSUME AnswerInv,
         UNCHANGED <<arrived, message_queue, packet_queue, responses, runs, kept, sending, pc, rpc_message>>
  PROVE  PlacesInv' /\ OnceInv'
<1>1. \A w \in WorkThreads : Held(w)' = Held(w) /\ Running(w)' = Running(w)
  BY DEF Held, Running
<1> QED BY <1>1 DEF AnswerInv, PlacesInv, OnceInv, DoneInTime, Unanswered

(* Kept closures are only of methods that run done later.                   *)
LEMMA KeptDoneKeepsPlaces ==
  ASSUME AnswerInv,
         \/ \E w \in WorkThreads, q \in Requests : RunKeptDone(w, q)
         \/ \E s \in sending : ReadLink(s) \/ EndKeptDone(s)
  PROVE  PlacesInv' /\ OnceInv'
<1>1. UNCHANGED <<arrived, message_queue, packet_queue, runs, pc, rpc_message>>
  BY DEF RunKeptDone, ReadLink, EndKeptDone, SendResponse, threads
<1>2. PlacesInv'
  <2>1. \A v \in WorkThreads : Held(v)' = Held(v) /\ Running(v)' = Running(v)
    BY <1>1 DEF Held, Running
  <2> QED BY <1>1, <2>1 DEF AnswerInv, PlacesInv
<1>3. CASE DoneInTime
  <2>1. kept = {} /\ \A s \in sending : s.by = "method"
    BY <1>3 DEF AnswerInv, OnceInv
  <2>2. PICK s \in sending : ReadLink(s)
    BY <2>1 DEF RunKeptDone, EndKeptDone
  <2>3. UNCHANGED <<kept, responses>>
    BY <2>2 DEF ReadLink
  <2>4. s \in Sends
    BY DEF AnswerInv, TypeOK
  <2>5. [s EXCEPT !.link_id = cntl_link[s.thread]].by = s.by
    BY <2>4 DEF Sends
  <2>6. \A t \in sending' : t.by = "method"
    BY <2>1, <2>2, <2>5 DEF ReadLink
  <2>7. \A v \in WorkThreads : Held(v)' = Held(v) /\ Running(v)' = Running(v)
    BY <1>1 DEF Held, Running
  <2> QED BY <1>1, <1>2, <2>3, <2>6, <2>7 DEF AnswerInv, OnceInv, DoneInTime, Unanswered
<1>4. CASE ~DoneInTime
  BY <1>1, <1>2, <1>4 DEF OnceInv, DoneInTime
<1> QED BY <1>3, <1>4

LEMMA AnswerStep == AnswerInv /\ [Next]_vars => AnswerInv'
<1> SUFFICES ASSUME AnswerInv, [Next]_vars PROVE PlacesInv' /\ OnceInv'
  BY TypeStep DEF AnswerInv
<1>0. /\ pc \in [WorkThreads -> Positions] /\ runs \in [WorkThreads -> 0..2]
      /\ rpc_message \in [WorkThreads -> 0..MaxRequests]
  BY DEF AnswerInv, TypeOK, Positions
<1>1. ASSUME NEW link \in Links, NEW method \in Methods, ReceiveRoutePacket(link, method)
      PROVE  PlacesInv' /\ OnceInv'
  BY <1>1, ArrivalKeepsPlaces
<1>2. ASSUME NEW w \in WorkThreads, WorkThread(w) PROVE PlacesInv' /\ OnceInv'
  <2>1. CASE Fetch(w)
    BY <2>1, FetchKeepsPlaces
  <2>2. CASE FetchFromNothing(w) \/ EndThread(w) \/ Take(w) \/ Reset(w) \/ Clear(w)
    <3>1. UNCHANGED <<arrived, message_queue, packet_queue, responses, runs, kept, sending>>
      BY <2>2 DEF FetchFromNothing, EndThread, Take, Reset, Clear, closures
    <3>2. /\ \E p \in {"crashed", "ended", "parse", "clear", "fetch"} : pc' = [pc EXCEPT ![w] = p]
          /\ rpc_message' = rpc_message \/ rpc_message' = [rpc_message EXCEPT ![w] = 0]
      BY <2>2 DEF FetchFromNothing, EndThread, Take, Reset, Clear
    <3>3. ~Running(w)' /\ \A v \in WorkThreads \ {w} : pc'[v] = pc[v] /\ rpc_message'[v] = rpc_message[v]
      BY <1>0, <3>2 DEF Running
    <3> QED BY <3>1, <3>3, QuietKeepsPlaces
  <2>4. CASE ParseBinary(w)
    BY <2>4, ParseKeepsPlaces
  <2>5. CASE RunDone(w)
    BY <2>5, RunDoneKeepsPlaces
  <2>6. CASE EndDone(w)
    BY <2>6, EndDoneKeepsPlaces
  <2> QED BY <1>2, <2>1, <2>2, <2>4, <2>5, <2>6 DEF WorkThread
<1>3. CASE \/ \E w \in WorkThreads, q \in Requests : RunKeptDone(w, q)
           \/ \E s \in sending : ReadLink(s) \/ EndKeptDone(s)
  BY <1>3, KeptDoneKeepsPlaces
<1>4. CASE AskToQuit \/ DeleteNet \/ StopThreads \/ Join
  BY <1>4, StillKeepsPlaces DEF AskToQuit, DeleteNet, StopThreads, Join, threads, closures
<1>5. CASE UNCHANGED vars
  BY <1>5, StillKeepsPlaces DEF vars, threads, closures
<1> QED BY <1>1, <1>2, <1>3, <1>4, <1>5 DEF Next

(* If methods run done at most once and before they return, no request is   *)
(* answered twice, however the threads share the queue and whenever the     *)
(* server is asked to quit.                                                 *)
THEOREM NeverAnsweredTwice == Spec => []AnsweredOnce
<1>1. ASSUME Init PROVE AnswerInv
  <2>1. TypeOK
    BY <1>1, TypeInit
  <2>2. message_queue = <<>> /\ \A w \in WorkThreads : packet_queue[w] = <<>> /\ pc[w] = "fetch"
    BY <1>1 DEF Init
  <2>3. RequestsOf(<<>>) = {} /\ OnceEach(<<>>)
    BY DEF RequestsOf, OnceEach
  <2>4. \A w \in WorkThreads : Held(w) = {}
    BY <2>2, <2>3 DEF Held, Running
  <2>5. PlacesInv
    BY <2>2, <2>3, <2>4 DEF PlacesInv, Running
  <2>6. kept = {} /\ sending = {} /\ \A q \in Requests : responses[q] = <<>> /\ Len(responses[q]) <= 1
    BY <1>1 DEF Init
  <2>7. OnceInv
    BY <2>2, <2>3, <2>4, <2>6 DEF OnceInv, Unanswered, Running
  <2> QED BY <2>1, <2>5, <2>7 DEF AnswerInv
<1>2. Init => AnswerInv
  BY <1>1
<1>3. AnswerInv => AnsweredOnce
  BY DEF AnswerInv, OnceInv, AnsweredOnce
<1> QED BY <1>2, <1>3, AnswerStep, PTL DEF Spec
=============================================================================
