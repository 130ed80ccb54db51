------------------------- MODULE ExchangeProperties -------------------------
(***************************************************************************)
(* What channels, routes and server must do together: properties of        *)
(* Exchange.                                                               *)
(***************************************************************************)
EXTENDS Exchange, Functions

Requests == UNION {{Asks(c, id) : id \in 1..request_id[c]} : c \in Channels}
Notes == [number : 1..sent, links : Vectors]

TypeOK ==
  /\ status \in [Channels -> {"new", "open", "left"}]
  /\ at \in [Channels -> [route : Routes, socket : Sockets \cup {0}]]
  /\ request_id \in [Channels -> 0..MaxRequests]
  /\ \A c \in Channels :
       /\ waiting[c] \subseteq 1..request_id[c]
       /\ answers[c] \subseteq [id : 1..request_id[c], error : Requests \cup {NoBytes},
                                msg : Requests \cup {NoBytes}]
       /\ notes[c] \in Seq(Notes)
  /\ service_2info \in [Routes -> SUBSET {EchoService}]
  /\ connected \subseteq Routes
  /\ packet_queue \in Seq([link_id : {LinkOf(c) : c \in Channels},
                           rpc_meta : {RequestMeta(id) : id \in 1..MaxRequests},
                           binary : {WriteRequest([msg |-> m]) : m \in Requests}])
  /\ known \subseteq {LinkOf(c) : c \in Channels}
  /\ Range(unwanted) \subseteq known
  /\ sent \in Nat /\ sent + Len(unwanted) <= MaxUnasked
-----------------------------------------------------------------------------
(* What a channel is given for a request is the answer to a request with    *)
(* that id made over the same socket of the same route: its own, unless     *)
(* channels have used the socket one after the other.  Request ids of       *)
(* different channels are the same, so this rests on the source socket that *)
(* the route writes, the link id and the target that is made from it.       *)
SameLink(c) == {d \in Channels : at[d] = at[c] /\ status[d] # "new"}
AnswerIsMine ==
  \A c \in Channels : \A answer \in answers[c] :
    \E d \in SameLink(c) :
      /\ answer.id \in 1..request_id[d]
      /\ \/ answer.error = NoBytes /\ answer.msg = Asks(d, answer.id)
         \/ answer.error = Asks(d, answer.id) /\ answer.msg = NoBytes

(* What a channel is sent unasked was for its link.  Notes come in the      *)
(* order in which they were sent, however many routes their links are on,   *)
(* and none comes more often than the link is in the vector it was sent to. *)
NotesAreMine ==
  \A c \in Channels : \A i, j \in DOMAIN notes[c] :
    LET note == notes[c][i]
    IN  /\ BagIn(LinkOf(c), note.links)
        /\ i < j => note.number <= notes[c][j].number
        /\ i <= j /\ note.number = notes[c][j].number =>
             j - i < Copies(LinkOf(c), note.links)

(* Handling what the server sent, a route closes only connections that the  *)
(* server named, by the route and the socket in their link ids.             *)
OnlyUnwantedAreClosed ==
  [][from_server' # from_server =>
       \A c \in Channels : status'[c] # status[c] => LinkOf(c) \in Range(unwanted)]_vars
-----------------------------------------------------------------------------
InUp(c, id) == \E i \in DOMAIN up[c] : RequestId(up[c][i]) = id
IsOnItsWay(n, c) ==
  \E r \in Routes : \E i \in DOMAIN from_server[r] :
    LET packet == from_server[r][i]
    IN  /\ GetNetInfo(packet).net_type = eNetType_Route
        /\ RequestId(packet) = RPC_REQUEST_ID_NULL
        /\ MsgOf(packet).number = n /\ BagIn(LinkOf(c), MsgOf(packet).links)

(* A request that a channel has sent to a route where the service is        *)
(* registered is answered, unless it times out, the channel leaves or the   *)
(* server loses that route; that it loses others does not matter.           *)
RequestIsAnswered ==
  \A c \in Channels, id \in 1..MaxRequests :
    (id \in waiting[c] /\ EchoService \in service_2info[at[c].route] /\ InUp(c, id))
      ~> (id \notin waiting[c] \/ status[c] = "left" \/ at[c].route \notin connected)

(* A note reaches every channel that it is for, on whatever routes they     *)
(* are, unless the channel leaves or the server loses its route.  If the    *)
(* link was used before, the note may have come too early for the channel   *)
(* that has it now.                                                         *)
NoteArrives ==
  \A c \in Channels, n \in 1..MaxUnasked :
    (n <= sent /\ status[c] = "open" /\ SameLink(c) = {c} /\ IsOnItsWay(n, c))
      ~> \/ \E i \in DOMAIN notes[c] : notes[c][i].number = n
         \/ status[c] = "left" \/ at[c].route \notin connected
-----------------------------------------------------------------------------
(* Where the request id of c is: its packet, the entry of the server's      *)
(* queue, or the packet of its answer.                                      *)
IsAnswerTo(packet, q) == /\ GetNetInfo(packet).net_type = eNetType_Route
                         /\ RequestId(packet) # RPC_REQUEST_ID_NULL
                         /\ MsgOf(packet) = q
Places(c, id) ==
  LET r == at[c].route
      q == Asks(c, id)
      Asking(binary) == ReadRequest(binary).msg = q
  IN  {<<"up", i>> : i \in {k \in DOMAIN up[c] : RequestId(up[c][k]) = id}}
      \cup {<<"to_server", i>> :
              i \in {k \in DOMAIN to_server[r] : Asking(GetBinary(to_server[r][k]))}}
      \cup {<<"packet_queue", i>> :
              i \in {k \in DOMAIN packet_queue : Asking(packet_queue[k].binary)}}
      \cup {<<"from_server", i>> :
              i \in {k \in DOMAIN from_server[r] : IsAnswerTo(from_server[r][k], q)}}
      \cup UNION {{<<"down", d, i>> :
              i \in {k \in DOMAIN down[d] : IsAnswerTo(down[d][k], q)}} : d \in Channels}

(* A request is in one place at most: it is not handled a second time, nor  *)
(* answered to two channels, although channels reuse sockets and ids.       *)
RequestIsSingle ==
  \A c \in Channels : \A id \in 1..request_id[c] : \A x, y \in Places(c, id) : x = y

(* No step loses a request that an open channel waits for, once the service *)
(* is registered at its route: until it is answered it is in some place,    *)
(* unless it times out, the channel leaves or the server loses the route.   *)
IsHeard(c) == EchoService \in service_2info[at[c].route]
IsOut(c) == status[c] = "left" \/ at[c].route \notin connected
RequestIsKept ==
  [][\A c \in Channels : \A id \in waiting[c] :
       Places(c, id) # {} /\ IsHeard(c) /\ ~IsOut(c) =>
         \/ (Places(c, id) # {} /\ IsHeard(c))'
         \/ id \notin waiting'[c] \/ IsOut(c)']_vars

(* No step loses a note on its way to an open channel: it is given, unless  *)
(* the channel leaves or the server loses the route.                        *)
IsNoteFor(packet, n, c) == /\ GetNetInfo(packet).net_type = eNetType_Route
                           /\ RequestId(packet) = RPC_REQUEST_ID_NULL
                           /\ MsgOf(packet).number = n /\ BagIn(LinkOf(c), MsgOf(packet).links)
Comes(n, c) ==
  \/ \E i \in DOMAIN from_server[at[c].route] : IsNoteFor(from_server[at[c].route][i], n, c)
  \/ \E i \in DOMAIN down[c] : IsNoteFor(down[c][i], n, c)
IsGiven(n, c) == \E i \in DOMAIN notes[c] : notes[c][i].number = n
NoteIsKept ==
  [][\A c \in Channels : \A n \in 1..sent :
       status[c] = "open" /\ Comes(n, c) =>
         Comes(n, c)' \/ IsGiven(n, c)' \/ IsOut(c)']_vars
=============================================================================
