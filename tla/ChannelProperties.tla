------------------------- MODULE ChannelProperties -------------------------
(***************************************************************************)
(* What the request path of a channel must do: properties of Channel, and  *)
(* the claims its comments and examples make.                              *)
(***************************************************************************)
EXTENDS Channel, Functions

CallerSteps == {"idle", "insert", "send", "push", "wait", "waiting", "woken"}

ClientType == /\ call_pc \in [Callers -> CallerSteps]
              /\ current \in [Callers -> 0..MaxRequests]
              /\ returned \in SUBSET Requests
              /\ request_id \in 0..MaxRequests
TimeoutType == /\ timeout_events \in Seq(Requests)
               /\ due \in 0..Len(timeout_events)
               /\ list_torn \in BOOLEAN
PendingType == /\ request_callback \in SUBSET Requests
               /\ already_callback_queue \in Seq(Requests)
               /\ outcome \in [Requests -> Verdicts \cup {"none"}]
RequestType == /\ owner \in [Requests -> Callers \cup {NoCaller}]
               /\ calls \in [Requests -> Nat]
               /\ deleted \in SUBSET Requests
               /\ cancelled \in SUBSET Requests
NetworkType == /\ unanswered \in [Requests -> 0..MaxAnswers]
               /\ packet_queue \in Seq(Packet)
ThreadType == /\ parse_pc \in [ParseThreads -> {"fetch", "parse", "clearing"}]
              /\ packets \in [ParseThreads -> Seq(Packet)]
              /\ work_pc \in [WorkThreads -> {"pop", "call", "delete"}]
              /\ request_queue \in [WorkThreads -> Seq(Requests)]

TypeOK == /\ ClientType
          /\ TimeoutType
          /\ PendingType
          /\ RequestType
          /\ NetworkType
          /\ ThreadType
-----------------------------------------------------------------------------
(* The ids that have entered request_callback_, now or before. *)
Inserted == {id \in 1..request_id :
               \A c \in Callers : call_pc[c] = "insert" => current[c] # id}

Queued == Range(already_callback_queue)
Batch(w) == Range(request_queue[w])
Batched == UNION {Batch(w) : w \in WorkThreads}

(* A ChannelCallback is in one container: the map, the work queue, one      *)
(* worker's batch, or none because it was deleted or cancelled.  A thread   *)
(* that keeps it elsewhere would use it after its delete; an id in no       *)
(* container is a request that nobody will ever finish.                     *)
OnePlace ==
  /\ Inserted = request_callback \cup Queued \cup Batched \cup deleted \cup cancelled
  /\ request_callback \cap (Queued \cup Batched \cup deleted \cup cancelled) = {}
  /\ Queued \cap (Batched \cup deleted \cup cancelled) = {}
  /\ Batched \cap (deleted \cup cancelled) = {}
  /\ deleted \cap cancelled = {}
  /\ IsInjective(already_callback_queue)
  /\ \A w \in WorkThreads : IsInjective(request_queue[w])
  /\ \A v, w \in WorkThreads : v # w => Batch(v) \cap Batch(w) = {}

(* Each caller works on an id of its own, a busy worker has a batch. *)
ThreadsInv ==
  /\ \A c \in Callers : /\ current[c] <= request_id
                        /\ call_pc[c] # "idle" => current[c] > 0
  /\ \A c, d \in Callers : c # d /\ current[c] = current[d] => current[c] = 0
  /\ \A w \in WorkThreads : work_pc[w] = "pop" <=> request_queue[w] = <<>>

(* What the container of a callback tells about it: a worker calls the      *)
(* first callback of its batch and then deletes it.                         *)
Untouched(id) == calls[id] = 0 /\ outcome[id] = "none"
Decided(id, n) == calls[id] = n /\ outcome[id] \in Verdicts
Calling(w, id) == work_pc[w] = "delete" /\ id = Head(request_queue[w])
PlaceInv ==
  /\ \A id \in (Requests \ Inserted) \cup request_callback \cup cancelled : 
        Untouched(id)
  /\ \A id \in Queued : Decided(id, 0)
  /\ \A w \in WorkThreads : \A id \in Batch(w) : 
        Decided(id, IF Calling(w, id) THEN 1 ELSE 0)
  /\ \A id \in deleted : Decided(id, 1)

(* The inductive invariant behind the next two properties and LifeSpec. *)
RequestInv == TypeOK /\ ThreadsInv /\ OnePlace /\ PlaceInv

(* However many packets answer a request, and whether or not its deadline   *)
(* passed or its client cancelled it meanwhile, it is called back once.     *)
CalledAtMostOnce == \A id \in Requests : calls[id] <= 1

(* Once CancelRequest has erased a request, neither a late answer nor its   *)
(* deadline touches its controller, and no work thread calls it back.       *)
CancelIsFinal ==
  \A id \in cancelled : calls[id] = 0 /\ outcome[id] = "none"

(* If the network takes every packet and nothing wakes a waiter but a       *)
(* notification, CallMethod returns to a synchronous caller only when his   *)
(* request was decided and called back.  What may be left of it is the      *)
(* delete of its ChannelCallback, whose destructor still reads the          *)
(* controller, by the one work thread that has called it.                   *)
ReturnedIsFinished ==
  \A id \in returned : owner[id] \in SyncCallers =>
     /\ Decided(id, 1)
     /\ id \in deleted \/ \E w \in WorkThreads : id \in Batch(w) /\ Calling(w, id)

(* The requests that wait for an answer and have left CallMethod's push. *)
Waiting == {id \in request_callback : 
              \A c \in Callers : current[c] = id => 
                                   call_pc[c] \notin {"insert", "send", "push"}}

(* As long as one thread makes the calls and no send fails, every request   *)
(* that waits has its own event in the timeout list, unless that list was   *)
(* broken by a push_back during the scan.                                   *)
DeadlineKept == list_torn \/ Waiting \subseteq Range(timeout_events)

(* Channel implements the life of a request of module RequestLife. *)
Life == INSTANCE RequestLife WITH
          pending <- request_callback, verdict <- outcome,
          delivered <- calls, cancelled <- cancelled
LifeSpec == Life!Spec
-----------------------------------------------------------------------------
(* A request whose event is in the timeout list does not wait for ever: it  *)
(* is answered, cancelled, or failed with "request timeout".                *)
TimeoutFires ==
  \A id \in Requests : 
    (id \in request_callback /\ id \in Range(timeout_events)) 
       ~> id \notin request_callback

(* A request that still waits when an answer to it is received is called    *)
(* back, unless the client cancels it first.                                *)
AnswerIsDelivered ==
  \A id \in Requests :
    (id \in request_callback /\ \E pkt \in Range(packet_queue) : pkt.id = id)
       ~> (calls[id] = 1 \/ id \in cancelled)
-----------------------------------------------------------------------------
(* The requests of example/exception/client.cpp, made from several threads: *)
(* each that no server answers is failed when its timeout is over.          *)
EveryRequestEnds ==
  \A id \in Requests : id \in request_callback ~> id \notin request_callback

(* example/exception/client.cpp:84-87: a synchronous call whose server does *)
(* not answer comes back with "timeout"; TimeoutCheck tests its controller. *)
SyncCallReturns ==
  \A id \in Requests : (id \in request_callback /\ owner[id] \in SyncCallers)
                          ~> id \in returned
=============================================================================
