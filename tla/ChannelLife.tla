---------------------------- MODULE ChannelLife ----------------------------
(***************************************************************************)
(* The life of a channel (rpc/channel.cpp): the client starts and stops    *)
(* it, registers callbacks for what servers send unasked, and makes        *)
(* requests; the threads of InitThreads hand what arrives to the client    *)
(* for as long as the channel runs.                                        *)
(*                                                                         *)
(* Everything that may be called back has a number, in the order it was    *)
(* issued: a request, or a notification sent by a server.  kinds says      *)
(* which.  An answer is known by the number of its request, so packets and *)
(* callbacks are numbers.                                                  *)
(*                                                                         *)
(* A callback holds a controller and a response.  Those of a synchronous   *)
(* request are its caller's, who frees them when CallMethod has returned;  *)
(* all others are freed with the callback (callback.cpp).  abandoned,      *)
(* freed and misused say what became of them.                              *)
(*                                                                         *)
(* One client thread, main, starts, stops and destroys the channel and     *)
(* registers callbacks; requests and cancels may come from any other.      *)
(* Each request has a caller of its own, who is somewhere in CallMethod:   *)
(* calls overlap, and the counter that one reads may be of another.  What  *)
(* ends a wait, and how a scan of the timeout list meets a push, is in     *)
(* module Channel: here a wait may end at any time, and a scan fails at    *)
(* most one request.  Left out: the events of the connection, which parse  *)
(* threads hand to net_event_cb_ directly.  It is assumed that StartRoute  *)
(* is not called on a channel that runs.                                   *)
(***************************************************************************)
EXTENDS Integers, Sequences, Functions

CONSTANTS Keys,                        \* callback keys: service name and method
          ParseThreads, WorkThreads,   \* parse_thread_num, work_thread_num
          ParseNum, DealNum,           \* parse_num_once, deal_msg_num_once
          Sync, Cancellable,           \* bounds: the numbers that synchronous and
                                       \* cancelled requests may have
          MaxIssued                    \* bound: requests and notifications

Calls == {"sync", "async"}                \* the kinds of requests
Kinds == Keys \cup Calls
Numbers == 1..MaxIssued

ASSUME LifeConstants == /\ Keys \cap Calls = {}
                        /\ {ParseNum, DealNum} \subseteq Nat \ {0}
                        /\ MaxIssued \in Nat
                        /\ Sync \cup Cancellable \subseteq Numbers

VARIABLES
  (* Channel *)
  init_success, run_thread,
  rpc_net,                \* "none", "up", "down" (no connection), "deleted"
  register_callback,      \* keys with a CallbackInfo
  request_callback,       \* requests that wait
  timeout_events,         \* for each number, how many events carry it
  already_callback_queue, \* what is to be called by a work thread
  (* the client *)
  main,                   \* where main is, see Stop and RegisterCallback
  call_pc,                \* where the caller of each request is in CallMethod
  (* servers and network *)
  kinds,                  \* the kind of each number issued
  unanswered,             \* requests that may still be answered
  packet_queue,           \* packets of rpc_net_, not fetched
  (* the threads *)
  parse_pc, packets,      \* parse thread: position, local packet_queue
  work_pc, request_queue, \* work thread: position, local request_queue
  (* what became of each number *)
  called,                 \* called back, in this order
  dropped,                \* not wanted, or dropped by Stop or the destructor
  (* cancelling, and the controllers *)
  to_cancel,              \* requests the client is about to cancel
  cancelled,              \* requests erased by CancelRequest
  abandoned,              \* synchronous requests whose CallMethod returned
                          \* before they were called back
  freed,                  \* numbers whose controller is freed
  misused                 \* the last use of a controller, if it was freed then

options == <<init_success, run_thread, rpc_net>>
requests == <<request_callback, timeout_events>>
client == <<main, call_pc>>
servers == <<kinds, unanswered>>
parsers == <<parse_pc, packets>>
workers == <<work_pc, request_queue>>
ends == <<called, dropped>>
cancels == <<to_cancel, cancelled>>
memory == <<abandoned, freed, misused>>
vars == <<options, register_callback, requests, already_callback_queue, client, servers,
          packet_queue, parsers, workers, ends, cancels, memory>>

Init ==
  /\ init_success = FALSE /\ run_thread = FALSE /\ rpc_net = "none"
  /\ register_callback = {}
  /\ request_callback = {} /\ timeout_events = [id \in Numbers |-> 0]
  /\ already_callback_queue = <<>>
  /\ main = "free" /\ call_pc = [id \in Numbers |-> "none"]
  /\ kinds = <<>> /\ unanswered = {} /\ packet_queue = <<>>
  /\ parse_pc = [p \in ParseThreads |-> "ended"]
  /\ packets = [p \in ParseThreads |-> <<>>]
  /\ work_pc = [w \in WorkThreads |-> "ended"]
  /\ request_queue = [w \in WorkThreads |-> <<>>]
  /\ called = <<>> /\ dropped = {}
  /\ to_cancel = {} /\ cancelled = {}
  /\ abandoned = {} /\ freed = {} /\ misused = {}
-----------------------------------------------------------------------------
(* LockQueue::pop(queue, n) moves at most n elements, oldest first. *)
Smaller(m, n) == IF m < n THEN m ELSE n
FirstOf(queue, n) == SubSeq(queue, 1, Smaller(n, Len(queue)))
RestOf(queue, n) == SubSeq(queue, Smaller(n, Len(queue)) + 1, Len(queue))

Issue(kind) == /\ Len(kinds) < MaxIssued
               /\ kinds' = Append(kinds, kind)
New_Last == Len(kinds)
New == Len(kinds) + 1

Touch(ids, by) == misused' = {[id |-> id, by |-> by] : id \in ids \cap freed}
-----------------------------------------------------------------------------
(* StartRoute: a new connection, and InitThreads if it could be made.      *)
StartRoute ==
  /\ main = "free" /\ ~init_success
  /\ rpc_net' = "up"
  /\ init_success' = TRUE /\ run_thread' = TRUE
  /\ parse_pc' = [p \in ParseThreads |-> "fetch"]
  /\ work_pc' = [w \in WorkThreads |-> "pop"]
  /\ UNCHANGED <<register_callback, requests, already_callback_queue, main, call_pc, servers,
                 packet_queue, packets, request_queue, ends, cancels, memory>>

StartFails ==
  /\ main = "free" /\ ~init_success
  /\ rpc_net' = "down"
  /\ UNCHANGED <<init_success, run_thread, register_callback, requests,
                 already_callback_queue, main, call_pc, servers, packet_queue, parsers,
                 workers, ends, cancels, memory>>

(* RegisterCallback with mutex_register_map_ held.  For a key that is taken *)
(* it calls DelCallback, which locks that mutex again: main never returns.  *)
RegisterCallback(k) ==
  /\ main = "free" /\ init_success
  /\ IF k \in register_callback
     THEN main' = "relock" /\ UNCHANGED register_callback
     ELSE register_callback' = register_callback \cup {k} /\ UNCHANGED main
  /\ UNCHANGED <<options, requests, already_callback_queue, call_pc,
                 servers, packet_queue, parsers, workers, ends, cancels, memory>>
RegisterMutexFree == main # "relock"

(* CallMethod, from the counter to the wait. *)
CallMethod(kind) ==
  /\ init_success
  /\ kind = "sync" <=> New \in Sync
  /\ Issue(kind)
  /\ call_pc' = [call_pc EXCEPT ![New] = "insert"]
  /\ UNCHANGED <<options, register_callback, requests, already_callback_queue, main,
                 unanswered, packet_queue, parsers, workers, ends, cancels, memory>>

InsertRequest(id) ==
  /\ call_pc[id] = "insert"
  /\ request_callback' = request_callback \cup {id}
  /\ call_pc' = [call_pc EXCEPT ![id] = "send"]
  /\ UNCHANGED <<options, register_callback, timeout_events, already_callback_queue, main,
                 servers, packet_queue, parsers, workers, ends, cancels, memory>>

SendRequest(id) ==
  /\ call_pc[id] = "send" /\ rpc_net = "up"
  /\ unanswered' = unanswered \cup {id}
  /\ call_pc' = [call_pc EXCEPT ![id] = "push"]
  /\ UNCHANGED <<options, register_callback, requests, already_callback_queue, main,
                 kinds, packet_queue, parsers, workers, ends, cancels, memory>>

(* The caller of a synchronous request frees its controller and response    *)
(* when CallMethod returns.                                                 *)
Leave(id) ==
  /\ call_pc' = [call_pc EXCEPT ![id] = "done"]
  /\ IF kinds[id] = "sync"
     THEN /\ abandoned' = abandoned \cup ({id} \ Range(called))
          /\ Touch({id}, "caller")
          /\ freed' = freed \cup {id}
     ELSE UNCHANGED memory
  /\ UNCHANGED <<options, register_callback, requests, already_callback_queue, main,
                 servers, packet_queue, parsers, workers, ends, cancels>>

(* If the send fails CallMethod returns, with the entry in the map and no   *)
(* event of its own; it does not look whether rpc_net_ is still there.      *)
SendFails(id) == call_pc[id] = "send" /\ rpc_net \in {"none", "down"} /\ Leave(id)
SendToNothing(id) ==
  /\ call_pc[id] = "send" /\ rpc_net = "deleted"
  /\ call_pc' = [call_pc EXCEPT ![id] = "crashed"]
  /\ UNCHANGED <<options, register_callback, requests, already_callback_queue, main,
                 servers, packet_queue, parsers, workers, ends, cancels, memory>>

(* The event carries the shared counter: the latest request, not id.        *)
Latest == CHOOSE id \in DOMAIN kinds :
            kinds[id] \in Calls /\ \A j \in DOMAIN kinds : kinds[j] \in Calls => j <= id
PushTimeoutEvent(id) ==
  /\ call_pc[id] = "push"
  /\ timeout_events' = [timeout_events EXCEPT ![Latest] = @ + 1]
  /\ call_pc' = [call_pc EXCEPT ![id] = IF kinds[id] = "sync" THEN "wait" ELSE "done"]
  /\ UNCHANGED <<options, register_callback, request_callback, already_callback_queue, main,
                 servers, packet_queue, parsers, workers, ends, cancels, memory>>

(* wait() has no predicate: any wake-up ends it.                            *)
Return(id) == call_pc[id] = "wait" /\ Leave(id)

(* The client wants to cancel an asynchronous request of which it has heard *)
(* nothing, ...                                                             *)
WantToCancel(id) ==
  /\ main # "gone"
  /\ id <= Len(kinds) /\ kinds[id] = "async"
  /\ id \in Cancellable
  /\ id \notin Range(called) \cup to_cancel \cup cancelled
  /\ to_cancel' = to_cancel \cup {id}
  /\ UNCHANGED <<options, register_callback, requests, already_callback_queue, client,
                 servers, packet_queue, parsers, workers, ends, cancelled, memory>>

(* ... and calls StartCancel of the controller, which may be freed by then: *)
(* it reads the id of its request from there, or any other.                 *)
StartCancel(id) ==
  /\ id \in to_cancel
  /\ to_cancel' = to_cancel \ {id}
  /\ Touch({id}, "StartCancel")
  /\ \E read \in IF id \in freed THEN 1..Len(kinds) ELSE {id} :
       /\ request_callback' = request_callback \ {read}
       /\ cancelled' = cancelled \cup ({read} \cap request_callback)
  /\ UNCHANGED <<options, register_callback, timeout_events, already_callback_queue,
                 client, servers, packet_queue, parsers, workers, ends, abandoned, freed>>
-----------------------------------------------------------------------------
(* Channel::Stop, step by step; it does nothing unless init_success_.       *)
StopNet_ThenJoins ==
  /\ main = "free" /\ init_success
  /\ init_success' = FALSE /\ rpc_net' = "down"
  /\ unanswered' = {}
  /\ main' = "join"
  /\ UNCHANGED <<run_thread, register_callback, requests, already_callback_queue,
                 call_pc, kinds, packet_queue, parsers, workers, ends, cancels, memory>>
StopNet ==
  /\ main = "free" /\ init_success
  /\ init_success' = FALSE /\ rpc_net' = "down"
  /\ unanswered' = {}
  /\ main' = "delete"
  /\ UNCHANGED <<run_thread, register_callback, requests, already_callback_queue,
                 call_pc, kinds, packet_queue, parsers, workers, ends, cancels, memory>>

(* A packet that no thread looks at is dropped with what it brings: a       *)
(* notification, but not a callback that waits in the map.                  *)
Dropping(ids) == dropped' = dropped \cup {id \in ids : kinds[id] \in Keys}

(* The packets that nobody fetched go with rpc_net_. *)
DeleteNet ==
  /\ main = "delete"
  /\ rpc_net' = "deleted" /\ packet_queue' = <<>>
  /\ Dropping(Range(packet_queue))
  /\ main' = "flag"
  /\ UNCHANGED <<init_success, run_thread, register_callback, requests,
                 already_callback_queue, call_pc, servers, parsers, workers,
                 called, cancels, memory>>

ClearRunThread ==
  /\ main = "flag"
  /\ run_thread' = FALSE
  /\ main' = "join"
  /\ UNCHANGED <<init_success, rpc_net, register_callback, requests,
                 already_callback_queue, call_pc, servers, packet_queue, parsers,
                 workers, ends, cancels, memory>>

Joined_Parsers == \A p \in ParseThreads : parse_pc[p] = "ended"
Joined == /\ \A p \in ParseThreads : parse_pc[p] = "ended"
          /\ \A w \in WorkThreads : work_pc[w] = "ended"
Join ==
  /\ main = "join" /\ Joined
  /\ main' = "free"
  /\ UNCHANGED <<options, register_callback, requests, already_callback_queue, call_pc,
                 servers, packet_queue, parsers, workers, ends, cancels, memory>>

(* ~ChannelCallback deletes a controller that is not synchronous. *)
FreedWith_All(ids) == ids
FreedWith(ids) == {id \in ids : kinds[id] # "sync"}

(* ~Channel after its Stop: deletes what waits and all registrations.  The  *)
(* client does not destroy a channel that it calls or is about to call.     *)
Destroy ==
  /\ main = "free" /\ ~init_success /\ to_cancel = {}
  /\ \A id \in Numbers : call_pc[id] \notin {"insert", "send", "push"}
  /\ main' = "gone"
  /\ request_callback' = {} /\ register_callback' = {}
  /\ Touch(request_callback, "~ChannelCallback")
  /\ freed' = freed \cup FreedWith(request_callback)
  /\ dropped' = dropped \cup request_callback
  /\ UNCHANGED <<options, timeout_events, already_callback_queue,
                 call_pc, servers, packet_queue, parsers, workers, called, cancels,
                 abandoned>>
-----------------------------------------------------------------------------
(* External: a server answers, or sends a notification with request id 0.   *)
Answer(id) ==
  /\ rpc_net = "up" /\ id \in unanswered
  /\ unanswered' = unanswered \ {id}
  /\ packet_queue' = Append(packet_queue, id)
  /\ UNCHANGED <<options, register_callback, requests, already_callback_queue, client,
                 kinds, parsers, workers, ends, cancels, memory>>

Notify(k) ==
  /\ rpc_net = "up"
  /\ Issue(k)
  /\ packet_queue' = Append(packet_queue, New)
  /\ UNCHANGED <<options, register_callback, requests, already_callback_queue, client,
                 unanswered, parsers, workers, ends, cancels, memory>>

(* The route closes the connection; the channel makes no new one. *)
OnDisconnect ==
  /\ rpc_net = "up"
  /\ rpc_net' = "down" /\ unanswered' = {}
  /\ UNCHANGED <<init_success, run_thread, register_callback, requests, kinds,
                 already_callback_queue, client, packet_queue, parsers, workers, ends,
                 cancels, memory>>
-----------------------------------------------------------------------------
(* A parse thread.  It reads run_thread_ before each fetch and packet (in   *)
(* one step with it: Stop deletes rpc_net_ before it clears run_thread_),   *)
(* and does not look whether rpc_net_ is still there.                       *)
Fetch(p) ==
  /\ parse_pc[p] = "fetch" /\ run_thread /\ rpc_net # "deleted"
  /\ packets' = [packets EXCEPT ![p] = FirstOf(packet_queue, ParseNum)]
  /\ packet_queue' = RestOf(packet_queue, ParseNum)
  /\ parse_pc' = [parse_pc EXCEPT ![p] = "parse"]
  /\ UNCHANGED <<options, register_callback, requests, already_callback_queue, client,
                 servers, workers, ends, cancels, memory>>

FetchFromNothing(p) ==
  /\ parse_pc[p] = "fetch" /\ run_thread /\ rpc_net = "deleted"
  /\ parse_pc' = [parse_pc EXCEPT ![p] = "crashed"]
  /\ UNCHANGED <<options, register_callback, requests, already_callback_queue, client,
                 servers, packet_queue, packets, workers, ends, cancels, memory>>

HasPacket(p, ofKinds) == /\ parse_pc[p] = "parse" /\ run_thread
                         /\ packets[p] # <<>>
                         /\ kinds[Head(packets[p])] \in ofKinds

(* A decided callback goes to the work threads, anything else is dropped.   *)
Hand_First(p, wanted) ==
  LET id == Head(packets[p])
  IN  /\ packets' = [packets EXCEPT ![p] = Tail(@)]
      /\ IF wanted
         THEN /\ already_callback_queue' = <<id>> \o already_callback_queue
              /\ UNCHANGED dropped
         ELSE Dropping({id}) /\ UNCHANGED already_callback_queue
Hand_Never(p, wanted) ==
  LET id == Head(packets[p])
  IN  /\ packets' = [packets EXCEPT ![p] = Tail(@)]
      /\ Dropping({id}) /\ UNCHANGED already_callback_queue
Hand(p, wanted) ==
  LET id == Head(packets[p])
  IN  /\ packets' = [packets EXCEPT ![p] = Tail(@)]
      /\ IF wanted
         THEN /\ already_callback_queue' = Append(already_callback_queue, id)
              /\ UNCHANGED dropped
         ELSE Dropping({id}) /\ UNCHANGED already_callback_queue
DoRequestPacket_KeepsEntry(p) ==
  /\ HasPacket(p, Calls)
  /\ Hand(p, Head(packets[p]) \in request_callback)
  /\ Touch({Head(packets[p])} \cap request_callback, "SetFailed")
  /\ UNCHANGED <<options, register_callback, requests, client, servers,
                 packet_queue, parse_pc, workers, called, cancels, abandoned, freed>>
DoRequestPacket(p) ==
  /\ HasPacket(p, Calls)
  /\ Hand(p, Head(packets[p]) \in request_callback)
  /\ Touch({Head(packets[p])} \cap request_callback, "SetFailed")
  /\ request_callback' = request_callback \ {Head(packets[p])}
  /\ UNCHANGED <<options, register_callback, timeout_events, client, servers,
                 packet_queue, parse_pc, workers, called, cancels, abandoned, freed>>

DoRegisterPacket(p) ==
  /\ HasPacket(p, Keys)
  /\ RegisterMutexFree
  /\ Hand(p, kinds[Head(packets[p])] \in register_callback)
  /\ UNCHANGED <<options, register_callback, requests, client, servers, packet_queue,
                 parse_pc, workers, called, cancels, memory>>

ClearTimeoutRequest(p) ==
  /\ parse_pc[p] = "parse" /\ (packets[p] = <<>> \/ ~run_thread)
  /\ \E over \in {{}} \cup {{id} : id \in {i \in Numbers : timeout_events[i] > 0}} :
       /\ timeout_events' = [id \in Numbers |-> IF id \in over THEN timeout_events[id] - 1
                                                ELSE timeout_events[id]]
       /\ request_callback' = request_callback \ over
       /\ Touch(over \cap request_callback, "SetFailed")
       /\ \/ /\ over \cap request_callback = {}
             /\ UNCHANGED already_callback_queue
          \/ \E id \in over \cap request_callback :
               already_callback_queue' = Append(already_callback_queue, id)
  /\ parse_pc' = [parse_pc EXCEPT ![p] = "fetch"]
  /\ UNCHANGED <<options, register_callback, client, servers, packet_queue, packets,
                 workers, ends, cancels, abandoned, freed>>

EndParse(p) ==
  /\ parse_pc[p] = "fetch" /\ ~run_thread
  /\ parse_pc' = [parse_pc EXCEPT ![p] = "ended"]
  /\ packets' = [packets EXCEPT ![p] = <<>>]
  /\ Dropping(Range(packets[p]))
  /\ UNCHANGED <<options, register_callback, requests, already_callback_queue, client,
                 servers, packet_queue, workers, called, cancels, memory>>
-----------------------------------------------------------------------------
(* A work thread: pop a batch, Call and delete one after the other, and     *)
(* forget the rest when it is stopped.  It reads run_thread_ before each,   *)
(* and is in Call when Stop clears it.                                      *)
Pop(w) ==
  /\ work_pc[w] = "pop" /\ run_thread
  /\ already_callback_queue # <<>>
  /\ request_queue' = [request_queue EXCEPT ![w] =
                         FirstOf(already_callback_queue, DealNum)]
  /\ already_callback_queue' = RestOf(already_callback_queue, DealNum)
  /\ work_pc' = [work_pc EXCEPT ![w] = "batch"]
  /\ UNCHANGED <<options, register_callback, requests, client, servers, packet_queue,
                 parsers, ends, cancels, memory>>

Front(w) ==
  /\ work_pc[w] = "batch" /\ run_thread /\ request_queue[w] # <<>>
  /\ work_pc' = [work_pc EXCEPT ![w] = "call"]
  /\ UNCHANGED <<options, register_callback, requests, already_callback_queue, client,
                 servers, packet_queue, parsers, request_queue, ends, cancels, memory>>

Call(w) ==
  /\ work_pc[w] = "call"
  /\ called' = Append(called, Head(request_queue[w]))
  /\ Touch({Head(request_queue[w])}, "Call")
  /\ work_pc' = [work_pc EXCEPT ![w] = "delete"]
  /\ UNCHANGED <<options, register_callback, requests, already_callback_queue, client,
                 servers, packet_queue, parsers, request_queue, dropped, cancels, abandoned,
                 freed>>

Delete(w) ==
  /\ work_pc[w] = "delete"
  /\ Touch({Head(request_queue[w])}, "~ChannelCallback")
  /\ freed' = freed \cup FreedWith({Head(request_queue[w])})
  /\ request_queue' = [request_queue EXCEPT ![w] = Tail(@)]
  /\ work_pc' = [work_pc EXCEPT ![w] = "batch"]
  /\ UNCHANGED <<options, register_callback, requests, already_callback_queue, client,
                 servers, packet_queue, parsers, ends, cancels, abandoned>>

EndBatch(w) ==
  /\ work_pc[w] = "batch" /\ (~run_thread \/ request_queue[w] = <<>>)
  /\ dropped' = dropped \cup Range(request_queue[w])
  /\ request_queue' = [request_queue EXCEPT ![w] = <<>>]
  /\ work_pc' = [work_pc EXCEPT ![w] = "pop"]
  /\ UNCHANGED <<options, register_callback, requests, already_callback_queue, client,
                 servers, packet_queue, parsers, called, cancels, memory>>

EndWork(w) ==
  /\ work_pc[w] = "pop" /\ ~run_thread
  /\ work_pc' = [work_pc EXCEPT ![w] = "ended"]
  /\ UNCHANGED <<options, register_callback, requests, already_callback_queue, client,
                 servers, packet_queue, parsers, request_queue, ends, cancels, memory>>
-----------------------------------------------------------------------------
ContinueCall(id) == \/ InsertRequest(id)
                    \/ SendRequest(id)
                    \/ SendFails(id)
                    \/ SendToNothing(id)
                    \/ PushTimeoutEvent(id)
                    \/ Return(id)
Stop == StopNet \/ DeleteNet \/ ClearRunThread \/ Join
ParseThread(p) == \/ Fetch(p)
                  \/ FetchFromNothing(p)
                  \/ DoRequestPacket(p)
                  \/ DoRegisterPacket(p)
                  \/ ClearTimeoutRequest(p)
                  \/ EndParse(p)
WorkThread(w) == Pop(w) \/ Front(w) \/ Call(w) \/ Delete(w) \/ EndBatch(w) \/ EndWork(w)

Next == \/ StartRoute \/ StartFails \/ Stop \/ Destroy
        \/ OnDisconnect
        \/ \E kind \in Calls : CallMethod(kind)
        \/ \E k \in Keys : RegisterCallback(k) \/ Notify(k)
        \/ \E id \in Numbers : Answer(id) \/ ContinueCall(id)
                             \/ WantToCancel(id) \/ StartCancel(id)
        \/ \E p \in ParseThreads : ParseThread(p)
        \/ \E w \in WorkThreads : WorkThread(w)

Spec == Init /\ [][Next]_vars

(* The threads run, and a Stop that was begun goes on. *)
Fairness == /\ WF_vars(main # "free" /\ Stop)
            /\ \A p \in ParseThreads : WF_vars(ParseThread(p))
            /\ \A w \in WorkThreads : WF_vars(WorkThread(w))
FairSpec == Spec /\ Fairness
=============================================================================
