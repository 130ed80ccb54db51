------------------------------ MODULE Channel ------------------------------
(***************************************************************************)
(* The request path of a frrpc client (rpc/channel.cpp): caller threads    *)
(* issue requests, parse threads match the answers that arrived with the   *)
(* requests that wait for them and fail the ones whose deadline passed,    *)
(* work threads hand finished requests back, and the client may cancel.    *)
(*                                                                         *)
(* A request is known by its request id.  request_callback_ is the set of  *)
(* ids with a ChannelCallback in the map; a callback moved to another      *)
(* container is that id in the container.  Every critical section of       *)
(* mutex_request_map_ is one step, except the scan of the timeout list,    *)
(* whose steps interleave with a push_back that takes no lock.             *)
(*                                                                         *)
(* Left out: the text of messages, logging, the branch "request id is      *)
(* repeated" (ids come from one atomic counter), is_cancel_ (no code reads *)
(* it), requests made from inside a done closure, the notification path    *)
(* (DoRegisterPacket) and Stop, which concern other state.                 *)
(***************************************************************************)
EXTENDS Integers, Sequences, FiniteSets

CONSTANTS SyncCallers, AsyncCallers,   \* client threads that call CallMethod
          ParseThreads, WorkThreads,   \* parse_thread_num, work_thread_num
          NoCaller,                    \* the owner of an id not yet issued
          ParseNum, DealNum,           \* parse_num_once, deal_msg_num_once
          IntMax,                      \* the largest value of a C++ int
          MaxRequests,                 \* bound: requests issued
          MaxAnswers,                  \* bound: packets that answer one request
          SendMayFail,                 \* the network may refuse a packet
          SpuriousWakeups,             \* a condition variable may wake unnotified
          Cancelling                   \* the client uses StartCancel

Callers == SyncCallers \cup AsyncCallers
Requests == 1..MaxRequests
Verdicts == {"ok", "error", "timeout"}

ASSUME CallersAssumption == /\ SyncCallers \cap AsyncCallers = {}
                            /\ NoCaller \notin Callers
ASSUME BatchAssumption == ParseNum \in Nat \ {0} /\ DealNum \in Nat \ {0}
ASSUME IntMaxAssumption == IntMax \in Nat
ASSUME BoundsAssumption == MaxRequests \in Nat /\ MaxAnswers \in Nat
ASSUME SwitchesAssumption == 
  {SendMayFail, SpuriousWakeups, Cancelling} \subseteq BOOLEAN

VARIABLES
  (* the client threads *)
  call_pc,                \* where each caller is in CallMethod
  current,                \* its local request_id
  returned,               \* ids whose CallMethod has returned
  (* Channel *)
  request_id,             \* request_id_, the shared atomic counter
  request_callback,       \* ids with an entry in request_callback_
  timeout_events,         \* ids in timeout_events_, in list order
  due,                    \* how many leading events are past their time
  list_torn,              \* unsynchronised writers have broken the list
  already_callback_queue, \* finished requests, waiting for a work thread
  (* the requests *)
  owner,                  \* the caller of each id: tells is_sync()
  outcome,                \* what SetFailed was last called with, "none" before
  calls,                  \* how often ChannelCallback::Call ran
  deleted,                \* ids whose ChannelCallback was deleted
  cancelled,              \* ids whose StartCancel found an entry to erase
  (* the network *)
  unanswered,             \* packets that may still come back for each id
  packet_queue,           \* the packets received and not yet fetched
  (* the threads of InitThreads *)
  parse_pc, packets,      \* parse thread: position and local packet_queue
  work_pc, request_queue  \* work thread: position and local request_queue

client == <<call_pc, current, returned>>
timeouts == <<timeout_events, due, list_torn>>
requests == <<owner, outcome, calls, deleted, cancelled>>
network == <<unanswered, packet_queue>>
parsers == <<parse_pc, packets>>
workers == <<work_pc, request_queue>>
vars == <<client, request_id, request_callback, timeouts,
          already_callback_queue, requests, network, parsers, workers>>

Packet == [id : Requests, verdict : {"ok", "error"}]

Init ==
  /\ call_pc = [c \in Callers |-> "idle"]
  /\ current = [c \in Callers |-> 0]
  /\ returned = {}
  /\ request_id = 0
  /\ request_callback = {}
  /\ timeout_events = <<>> /\ due = 0 /\ list_torn = FALSE
  /\ already_callback_queue = <<>>
  /\ owner = [id \in Requests |-> NoCaller]
  /\ outcome = [id \in Requests |-> "none"]
  /\ calls = [id \in Requests |-> 0]
  /\ deleted = {}
  /\ cancelled = {}
  /\ unanswered = [id \in Requests |-> 0]
  /\ packet_queue = <<>>
  /\ parse_pc = [p \in ParseThreads |-> "fetch"]
  /\ packets = [p \in ParseThreads |-> <<>>]
  /\ work_pc = [w \in WorkThreads |-> "pop"]
  /\ request_queue = [w \in WorkThreads |-> <<>>]
-----------------------------------------------------------------------------
(* LockQueue::pop(queue, n) moves at most n elements, oldest first. *)
Smaller(m, n) == IF m < n THEN m ELSE n
FirstOf(queue, n) == SubSeq(queue, 1, Smaller(n, Len(queue)))
RestOf(queue, n) == SubSeq(queue, Smaller(n, Len(queue)) + 1, Len(queue))

(* Only the scan of ClearTimeoutRequest keeps the mutex from step to step. *)
MutexFree == \A p \in ParseThreads : parse_pc[p] # "clearing"

(* DoRequestPacket keeps the id of a packet, a uint64, in an int. *)
AsInt(id) == LET low == id % (2 * (IntMax + 1))
             IN  IF low > IntMax THEN low - 2 * (IntMax + 1) ELSE low

(* A decided request leaves the map and waits for a work thread. *)
Complete_KeepsEntry(id, verdict) ==
  /\ outcome' = [outcome EXCEPT ![id] = verdict]
  /\ already_callback_queue' = Append(already_callback_queue, id)
  /\ UNCHANGED request_callback
Complete_NoVerdict(id, verdict) ==
  /\ UNCHANGED outcome
  /\ already_callback_queue' = Append(already_callback_queue, id)
  /\ request_callback' = request_callback \ {id}
Complete_NotQueued(id, verdict) ==
  /\ outcome' = [outcome EXCEPT ![id] = verdict]
  /\ UNCHANGED already_callback_queue
  /\ request_callback' = request_callback \ {id}
Complete(id, verdict) ==
  /\ outcome' = [outcome EXCEPT ![id] = verdict]
  /\ already_callback_queue' = Append(already_callback_queue, id)
  /\ request_callback' = request_callback \ {id}

(* Another thread is writing timeout_events_ as c pushes its event. *)
ListRace(c) == \/ \E d \in Callers \ {c} : call_pc[d] = "push"
               \/ due > 0 /\ ~MutexFree

(* What CallMethod may find in callback->sync_condition: the truth while    *)
(* the callback lives, anything once a work thread has deleted it.          *)
SyncCondition_NotTested(c) == {FALSE}
SyncCondition(c) == IF current[c] \in deleted THEN BOOLEAN 
                                              ELSE {c \in SyncCallers}
-----------------------------------------------------------------------------
(* Channel::CallMethod, from the counter to the wait.  Arguments that make  *)
(* it return at once (no controller, no done closure) change nothing.       *)
CallMethod(c) ==
  /\ call_pc[c] = "idle"
  /\ request_id < MaxRequests
  /\ request_id' = request_id + 1
  /\ current' = [current EXCEPT ![c] = request_id + 1]
  /\ owner' = [owner EXCEPT ![request_id + 1] = c]
  /\ call_pc' = [call_pc EXCEPT ![c] = "insert"]
  /\ UNCHANGED <<returned, request_callback, timeouts, already_callback_queue,
                 outcome, calls, deleted, cancelled, network, parsers, workers>>

InsertRequest(c) ==
  /\ call_pc[c] = "insert"
  /\ MutexFree
  /\ request_callback' = request_callback \cup {current[c]}
  /\ call_pc' = [call_pc EXCEPT ![c] = "send"]
  /\ UNCHANGED <<current, returned, request_id, timeouts,
                 already_callback_queue, requests, network, parsers, workers>>

SendRequest(c) ==
  /\ call_pc[c] = "send"
  /\ call_pc' = [call_pc EXCEPT ![c] = "push"]
  /\ unanswered' = [unanswered EXCEPT ![current[c]] = MaxAnswers]
  /\ UNCHANGED <<current, returned, request_id, request_callback, timeouts,
                 already_callback_queue, requests, packet_queue, parsers, workers>>

Return(c) == /\ call_pc' = [call_pc EXCEPT ![c] = "idle"]
             /\ returned' = returned \cup {current[c]}

(* CallMethod logs "Fail to send request." and returns; the entry stays. *)
SendFails(c) ==
  /\ SendMayFail
  /\ call_pc[c] = "send"
  /\ Return(c)
  /\ UNCHANGED <<current, request_id, request_callback, timeouts,
                 already_callback_queue, requests, network, parsers, workers>>

(* The event carries the shared counter, not the caller's own id. *)
EventId_Next(c) == request_id + 1
EventId_Previous(c) == request_id - 1
EventId(c) == request_id

PushTimeoutEvent(c) ==
  /\ call_pc[c] = "push"
  /\ call_pc' = [call_pc EXCEPT ![c] = "wait"]
  /\ \E lost \in BOOLEAN :
       /\ lost => list_torn \/ ListRace(c)
       /\ timeout_events' = IF lost THEN timeout_events
                                    ELSE Append(timeout_events, EventId(c))
       /\ list_torn' = (list_torn \/ lost)
  /\ UNCHANGED <<current, returned, request_id, request_callback, due,
                 already_callback_queue, requests, network, parsers, workers>>

ReturnWithoutWait(c) ==
  /\ call_pc[c] = "wait"
  /\ FALSE \in SyncCondition(c)
  /\ Return(c)
  /\ UNCHANGED <<current, request_id, request_callback, timeouts,
                 already_callback_queue, requests, network, parsers, workers>>

EnterWait(c) ==
  /\ call_pc[c] = "wait"
  /\ TRUE \in SyncCondition(c)
  /\ MutexFree
  /\ call_pc' = [call_pc EXCEPT ![c] = "waiting"]
  /\ UNCHANGED <<current, returned, request_id, request_callback, timeouts,
                 already_callback_queue, requests, network, parsers, workers>>

(* wait() has no predicate, so any wake-up ends it. *)
SpuriousWake(c) ==
  /\ SpuriousWakeups
  /\ call_pc[c] = "waiting"
  /\ call_pc' = [call_pc EXCEPT ![c] = "woken"]
  /\ UNCHANGED <<current, returned, request_id, request_callback, timeouts,
                 already_callback_queue, requests, network, parsers, workers>>

(* wait() returns with the mutex, which CallMethod then releases. *)
Wake(c) ==
  /\ call_pc[c] = "woken"
  /\ MutexFree
  /\ Return(c)
  /\ UNCHANGED <<current, request_id, request_callback, timeouts,
                 already_callback_queue, requests, network, parsers, workers>>

(* ChannelController::StartCancel with CancelRequest: the entry is erased   *)
(* and the NotifyOnCancel closure runs.  With no entry it only logs.        *)
StartCancel_KeepsEntry(id) ==
  /\ Cancelling
  /\ id \in request_callback
  /\ MutexFree
  /\ cancelled' = cancelled \cup {id}
  /\ UNCHANGED <<client, request_id, request_callback, timeouts, owner, outcome,
                 already_callback_queue, calls, deleted, network, parsers, workers>>
StartCancel(id) ==
  /\ Cancelling
  /\ id \in request_callback
  /\ MutexFree
  /\ request_callback' = request_callback \ {id}
  /\ cancelled' = cancelled \cup {id}
  /\ UNCHANGED <<client, request_id, timeouts, already_callback_queue, owner,
                 outcome, calls, deleted, network, parsers, workers>>
-----------------------------------------------------------------------------
(* External: the clock, read once under the mutex, reaches another event. *)
DeadlinePasses ==
  /\ due < Len(timeout_events)
  /\ MutexFree
  /\ due' = due + 1
  /\ UNCHANGED <<client, request_id, request_callback, timeout_events,
                 list_torn, already_callback_queue, requests, network, parsers,
                 workers>>

(* External: the server answers a request it was sent, perhaps repeatedly,  *)
(* and RpcNetChannel::PushMessageToQueue queues the packet.                 *)
Answer(id, verdict) ==
  /\ unanswered[id] > 0
  /\ unanswered' = [unanswered EXCEPT ![id] = @ - 1]
  /\ packet_queue' = Append(packet_queue, [id |-> id, verdict |-> verdict])
  /\ UNCHANGED <<client, request_id, request_callback, timeouts,
                 already_callback_queue, requests, parsers, workers>>
-----------------------------------------------------------------------------
(* A parse thread: FetchMessageQueue, the batch, then ClearTimeoutRequest. *)
Fetch(p) ==
  /\ parse_pc[p] = "fetch"
  /\ packets' = [packets EXCEPT ![p] = FirstOf(packet_queue, ParseNum)]
  /\ packet_queue' = RestOf(packet_queue, ParseNum)
  /\ parse_pc' = [parse_pc EXCEPT ![p] = "parse"]
  /\ UNCHANGED <<client, request_id, request_callback, timeouts,
                 already_callback_queue, requests, unanswered, workers>>

DoRequestPacket(p) ==
  /\ parse_pc[p] = "parse"
  /\ packets[p] # <<>>
  /\ MutexFree
  /\ LET package == Head(packets[p])
         id == AsInt(package.id)
     IN  IF id \in request_callback
         THEN Complete(id, package.verdict)
         ELSE UNCHANGED <<outcome, already_callback_queue, request_callback>>
  /\ packets' = [packets EXCEPT ![p] = Tail(@)]
  /\ UNCHANGED <<client, request_id, timeouts, owner, calls, deleted,
                 cancelled, network, parse_pc, workers>>

ClearTimeoutRequest(p) ==
  /\ parse_pc[p] = "parse"
  /\ packets[p] = <<>>
  /\ MutexFree
  /\ parse_pc' = [parse_pc EXCEPT ![p] = "clearing"]
  /\ UNCHANGED <<client, request_id, request_callback, timeouts, packets,
                 already_callback_queue, requests, network, workers>>

(* One turn of its loop: the first event, whose time has passed. *)
EraseTimeoutEvent(p) ==
  /\ parse_pc[p] = "clearing"
  /\ due > 0
  /\ LET id == Head(timeout_events)
     IN  IF id \in request_callback
         THEN Complete(id, "timeout")
         ELSE UNCHANGED <<outcome, already_callback_queue, request_callback>>
  /\ timeout_events' = Tail(timeout_events)
  /\ due' = due - 1
  /\ UNCHANGED <<client, request_id, list_torn, owner, calls, deleted,
                 cancelled, network, parsers, workers>>

EndClear(p) ==
  /\ parse_pc[p] = "clearing"
  /\ due = 0
  /\ parse_pc' = [parse_pc EXCEPT ![p] = "fetch"]
  /\ UNCHANGED <<client, request_id, request_callback, timeouts, packets,
                 already_callback_queue, requests, network, workers>>
-----------------------------------------------------------------------------
(* A work thread: pop a batch, then Call and delete each of its callbacks. *)
Pop(w) ==
  /\ work_pc[w] = "pop"
  /\ already_callback_queue # <<>>
  /\ request_queue' = [request_queue EXCEPT ![w] =
                         FirstOf(already_callback_queue, DealNum)]
  /\ already_callback_queue' = RestOf(already_callback_queue, DealNum)
  /\ work_pc' = [work_pc EXCEPT ![w] = "call"]
  /\ UNCHANGED <<client, request_id, request_callback, timeouts, requests,
                 network, parsers>>

(* ChannelCallback::Call wakes a synchronous caller that is in wait(), and  *)
(* nobody otherwise; an asynchronous request runs its done closure.         *)
Call(w) ==
  /\ work_pc[w] = "call"
  /\ LET id == Head(request_queue[w])
     IN  /\ calls' = [calls EXCEPT ![id] = @ + 1]
         /\ call_pc' = [c \in Callers |->
                          IF /\ c \in SyncCallers
                             /\ call_pc[c] = "waiting" /\ current[c] = id
                          THEN "woken" ELSE call_pc[c]]
  /\ work_pc' = [work_pc EXCEPT ![w] = "delete"]
  /\ UNCHANGED <<current, returned, request_id, request_callback, timeouts,
                 already_callback_queue, owner, outcome, deleted, cancelled,
                 network, parsers, request_queue>>

Delete(w) ==
  /\ work_pc[w] = "delete"
  /\ deleted' = deleted \cup {Head(request_queue[w])}
  /\ request_queue' = [request_queue EXCEPT ![w] = Tail(@)]
  /\ work_pc' = [work_pc EXCEPT ![w] =
                   IF Len(request_queue[w]) > 1 THEN "call" ELSE "pop"]
  /\ UNCHANGED <<client, request_id, request_callback, timeouts,
                 already_callback_queue, owner, outcome, calls, cancelled,
                 network, parsers>>
-----------------------------------------------------------------------------
(* The steps of a call once it has begun: the client never abandons one. *)
ContinueCall(c) == \/ InsertRequest(c)
                   \/ SendRequest(c)
                   \/ SendFails(c)
                   \/ PushTimeoutEvent(c)
                   \/ ReturnWithoutWait(c)
                   \/ EnterWait(c)
                   \/ Wake(c)

ParseThread(p) == \/ Fetch(p)
                  \/ DoRequestPacket(p)
                  \/ ClearTimeoutRequest(p)
                  \/ EraseTimeoutEvent(p)
                  \/ EndClear(p)

WorkThread(w) == Pop(w) \/ Call(w) \/ Delete(w)

Next == \/ \E c \in Callers : CallMethod(c) \/ ContinueCall(c) \/ SpuriousWake(c)
        \/ \E id \in Requests : StartCancel(id)
        \/ \E id \in Requests, verdict \in {"ok", "error"} : Answer(id, verdict)
        \/ DeadlinePasses
        \/ \E p \in ParseThreads : ParseThread(p)
        \/ \E w \in WorkThreads : WorkThread(w)

Spec == Init /\ [][Next]_vars

(* Threads keep running and time passes.  Strong fairness where a step is   *)
(* shut out while a scan holds the mutex and possible again between scans:  *)
(* a thread that wants the mutex, and the clock, which every scan reads     *)
(* anew (a parse thread sleeps outside the mutex).                          *)
Fairness == /\ \A c \in Callers : SF_vars(ContinueCall(c))
            /\ \A p \in ParseThreads : SF_vars(ParseThread(p))
            /\ \A w \in WorkThreads : WF_vars(WorkThread(w))
            /\ SF_vars(DeadlinePasses)

FairSpec == Spec /\ Fairness
=============================================================================
