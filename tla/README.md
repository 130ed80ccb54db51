# A verification project for frrpc

frrpc is a C++ RPC library for game servers. A *client* links a `Channel`, a
*server* links a `Server`, and both connect to a *route*, a program of its own,
which passes requests from channels to servers and responses back:

    caller threads      network              route             network       work threads
    Channel::CallMethod ------> RpcChannel_Route -> RpcRoute -> RpcServer_Route -> Server
    done / sync return  <------ parse threads    <-          <- SendResponse  <- Service

This directory holds TLA+ models of the parts of it that have state and
concurrency, TLC configurations that check them, and proofs for TLAPS. Paths
below are relative to `src/src/` unless they start with another name.

## 1. Inventory

### Channel: the request path (`rpc/channel.cpp`, `rpc/callback.cpp`, `rpc/controller.cpp`)

* **State**: the counter `request_id_` (atomic), the map `request_callback_` and
  the list `timeout_events_`, both behind `mutex_request_map_`, and
  `already_callback_queue_`, a locked queue. One `ChannelCallback` and one
  `ChannelController` per request.
* **Operations**: `CallMethod` (synchronous without a done closure, asynchronous
  with one), `AsyncRequest`, `StartCancel`/`CancelRequest`; the parse threads
  (`FetchMessageQueue`, `DoRequestPacket`, `ClearTimeoutRequest`), the work
  threads (`Call`, delete).
* **Hard**: a request is in the hands of its caller, of any parse thread, of any
  work thread and of the canceller; the answer, its duplicates, the deadline and
  the cancel come in any order; a synchronous caller sleeps on a condition
  variable.
* **Correct when**: a callback is in one container at a time and is deleted by
  the thread that holds it; a request is called back at most once, and never
  after a cancel; every pending request has a deadline; what arrives in time is
  delivered; a synchronous call returns, and only when it is finished.

### Channel: notifications, start and stop (`rpc/channel.cpp`, `rpc/callback.cpp`)

* **State**: `register_callback_` behind `mutex_register_map_`; `rpc_net_`, the
  thread lists, `init_success_` and `run_thread_`. A callback owns its controller,
  except that of a synchronous request, which is its caller's.
* **Operations**: `RegisterCallback`, `DelCallback`, `DoRegisterPacket` with
  `BuildCallback`, `StartRoute`, `Stop`, the destructor.
* **Hard**: `Stop` deletes `rpc_net_` before it tells the threads to end;
  `RegisterCallback` calls `DelCallback` with the mutex held that it locks;
  controllers are freed by work threads, callers and the destructor, and used by
  parse threads and cancellers; what one run leaves behind, the next finds.
* **Correct when**: a callback is in one place over all starts and stops; no freed
  controller is used; nothing is called once `Stop` has returned; `Stop` returns;
  notifications come in their order.

### Route (`route/route.cpp`)

* **State**: per service a `RouteServiceInfos` (`sockets_`, `addr_2socket_`,
  `cur_send_index_`); `service_socket_2name_`; `channel_service_register_`, the
  bindings of channels to servers.
* **Operations**: `OnConnect`, `OnDisconnect`, the commands `ServerServiceRegister`,
  `ServerServiceCancel`, `ServerDisconnectChannelFunc`, `ChannelServiceRegister`,
  and `RouteProcess`.
* **Hard**: four maps are keyed by socket numbers, which the system reuses; peers
  come and go in any order; a refused registration leaves half of its changes.
* **Correct when**: the maps agree with each other and with the connections; a
  request goes to a server of its service; bindings are kept, and not inherited;
  unbound requests are shared equally.

### Server (`rpc/server.cpp`, `rpc/net_server.cpp`, `rpc/net_server.h`)

* **State**: the packet queue of `RpcBaseNet`; in each work thread a local queue
  and **one** controller, **one** `RpcMessage` and **one** done closure, used for
  all its requests; `rpc_net_`, `run_thread_`, the quit flag. A channel is known
  by its *link id*, the number of the route and the socket there in one number.
* **Operations**: `ReceiveRoutePacket`; fetch, `ParseBinary`, `CallMethod`,
  `SendResponse`; `SendRpcMessage` and `Disconnect` by link ids, `AddService`;
  `RunUntilQuit` and `Stop`.
* **Hard**: user code runs done at once, later, twice or never; `Stop` deletes
  what the threads use; the link id overflows.
* **Correct when**: each request is handled once, and its response goes to the
  channel that asked; the threads end before their data does.

### Heart check (`public/rpc_heart.cpp`)

* **State**: `running_`, `socket_array_`, `wait_heart_array_`, a mutex.
* **Operations**: `RunServer` and its thread, `StopHeartCheck`, `AddSocket`,
  `DelSocket`, `UpdateSocket`. `RunClient` sends a constant packet.
* **Hard**: `UpdateSocket` looks up before it locks; sockets are reused; the
  network is started before the check is.
* **Correct when**: silent sockets go at the second check, others stay.

### Framing (`OnReceive` of `net_channel.cpp`, `net_server.cpp`, `route.cpp`; `rpc_serializable.cpp`)

* **State**: the receive buffer of the network, of which a callback tells how much
  it has used. **Hard**: the stream is cut anywhere.
* **Correct when**: each packet is handled once, in order, as soon as it is complete.

### Messages and packets (`pb/*.proto` and what protoc made of them, `public/rpc_serializable.cpp`)

* **State**: none of their own. A packet is a `NetInfo` and, for calls, an `RpcMeta`
  and a body; each holds other messages as bytes.
* **Operations**: write, read, merge and copy of every message; building packets and
  taking them apart. proto3 does not write a field that has its default.
* **Hard**: channel, route and server each know and change only some of the parts;
  a server copies the meta of a request and changes one field of it for the answer.

### All of them together

Channels of several routes and one server exchange requests, answers, notes and
commands. Nothing but socket numbers, link ids and request ids says whose a packet is;
the socket numbers of different routes, and the request ids of different channels, are
the same, and both are used again.
**Correct when**: an answer given to a channel is that of its own request; what a
server sends or closes by link id reaches those links only; what is sent arrives.

### Not modelled

`closure.h` (a generic closure library), `rpc_pb2js.cpp`, `rpc_public.cpp` and
`frrpc_log.cpp` (output only), `route/main.cpp` (reads a configuration file), the
examples. frnet, frpublic, frtemplate and protobuf are not in the repository; what the
models assume of them is listed in section 5, and section 8 says what else is left out.

## 2. Modules

| Module | Models |
|---|---|
| `RequestLife` | abstract: issued once, then decided or cancelled once, delivered at most once if decided |
| `Channel` | the request path; with `ChannelProperties`, `MCChannel`, `ChannelProofs` |
| `ChannelLife` | start, stop, notifications, and who frees what; with `ChannelLifeProperties`, `MCChannelLife`, `ChannelLifeProofs` |
| `ServiceDirectory` | abstract: servers join and leave services, a request goes to a server of its service, to nobody iff there is none |
| `Route` | the registry, the bindings and the forwarding; with `RouteProperties`, `MCRoute`, `RouteProofs` |
| `LinkId` | the decimal code of link ids; with `LinkIdProofs` |
| `Server` | work threads and shutdown; with `ServerProperties`, `MCServer`, `ServerProofs` |
| `Heart` | the heart check; with `HeartProperties`, `MCHeart`, `HeartProofs` |
| `Framing` | the three `OnReceive` loops, with their properties; `MCFraming`, `FramingProofs` |
| `Messages` | the protocol buffer messages: fields, defaults, write, read, merge, copy |
| `Packets` | how packets are built of messages and taken apart; extends `Messages` |
| `Exchange` | the composition: channels, routes and a server over a network; extends `LinkId` and `Packets`; with `ExchangeProperties`, `MCExchange`, `ExchangeProofs` |

`Server` and `Exchange` share `LinkId`. `Channel` implements `RequestLife` and `Route`
implements `ServiceDirectory`, each by `INSTANCE ... WITH` in its Properties module; the
abstract `Spec` is a PROPERTY of a run and a theorem.

`Channel` and `ChannelLife` look at the same code from two distances. In `Channel` the
channel runs, and each step of a call and of a scan is an action. In `ChannelLife` a scan
fails at most one request and events have no clock, and in exchange the channel starts,
stops and ends, notifications arrive, and controllers are freed. In both a call is in
steps, from the counter to the wait, and its event carries the counter that all share.

### Channel

| State | Code |
|---|---|
| `call_pc`, `current`, `returned` | a caller's position in `CallMethod`, its local `request_id`, and what has returned |
| `request_id`, `request_callback`, `timeout_events`, `already_callback_queue` | the members of `Channel` with those names |
| `due` | how many events at the head of the list are past their time |
| `list_torn` | a push without the mutex met another writer: undefined behaviour, the pushed event is kept or lost |
| `owner`, `outcome`, `calls`, `deleted`, `cancelled` | the `ChannelCallback` and controller of each id |
| `packet_queue`, `packets`, `request_queue` | the queue of the network and the local queues of the threads |

`CallMethod` is six steps, from the counter (113) to the wait (142), because the
mutex is released in between: `CallMethod`, `InsertRequest`, `SendRequest` or
`SendFails`, `PushTimeoutEvent`, then `ReturnWithoutWait` or `EnterWait` and `Wake`.
A critical section of the mutex is one step. The scan of `ClearTimeoutRequest` is
the exception: it is `ClearTimeoutRequest`, one `EraseTimeoutEvent` per event and
`EndClear`, with the mutex held all along, because the unlocked push of line 139
interleaves with it. `SyncCondition` gives a caller any answer once its callback is
deleted: line 140 then reads freed memory.

### ChannelLife

| State | Code |
|---|---|
| `init_success`, `run_thread`, `rpc_net`, `register_callback`, `request_callback`, `timeout_events`, `already_callback_queue` | the members of `Channel` with those names; `rpc_net` also says whether there is a connection |
| `main` | where the client's thread is in `Stop` ("delete", "flag", "join"), or that it hangs in `RegisterCallback` ("relock"), or has destroyed the channel ("gone") |
| `call_pc` | where the caller of each request is in `CallMethod`: "insert", "send", "push", "wait", "done", or "crashed" on a deleted `rpc_net_` |
| `kinds` | a number for all that may be called back, in the order of issue: a request, synchronous or not, or a notification for a key |
| `unanswered`, `packet_queue` | what servers and network hold |
| `parse_pc`, `packets`, `work_pc`, `request_queue` | the threads and their local queues |
| `called`, `dropped`, `cancelled` | what became of each number; a request whose answer nobody looks at waits on, a notification is dropped with its packet |
| `to_cancel`, `abandoned`, `freed`, `misused` | a cancel that is on its way, synchronous calls that returned before they were called back, controllers freed, and the last use of one of those |

A call is `CallMethod` (the counter, 113), `InsertRequest` (118-127), `SendRequest`,
`SendFails` or, once `Stop` has deleted `rpc_net_`, `SendToNothing` (135),
`PushTimeoutEvent` (139) with the `Latest` id that anybody was given, and for a
synchronous call `Return`, which has no predicate: any wake-up ends the wait. Who returns
frees his controller (`Leave`). `timeout_events` says how many events carry each id.

`Stop` is four steps in the order of the code: `StopNet` (82-85), `DeleteNet` (86),
`ClearRunThread` and `Join`. A parse thread that fetches in between crashes
(`FetchFromNothing`). `StartCancel` reads the id of its request from the controller,
and any id if that is freed by then.

### Route

One action per callback and command, whole: `ServerServiceRegister` calls `AddService`,
which writes `service_socket_2name_` even when the address is refused; a handler that
returns false closes the connection, which stays in the maps until `OnDisconnect`.
The state is that of the code, `sockets` (with `addr_2socket_` and `cur_send_index_`
beside it) per service, and what the code cannot say: the role and the address of a
socket's peer (`role`, `addr`), for which services it was accepted (`registered`), for
each binding whether it was made by this connection and to one that is still there
(`bound_at`), who had a turn in this round (`served`), which sockets are being closed
(`closing`). `sent` is what the last step gave to `net_server_->Send`. A request for a
service with no server goes to `SOCKET_NULL`, as in the code, and is lost.

### Server

A work thread is `Fetch`, `Take` (line 158, the link id), `ParseBinary` (the message, and
the call of the method), done as often as the method runs it, `Reset` and `Clear` (170 and
171). What a method does with done is one of "now", "twice", "later", "never", and "bad" is
a request that `ParseBinary` refuses. A call of `SendResponse` is three steps: the checks
(`RunDone` if the method makes it, `RunKeptDone` if another thread runs a closure that a
method kept), the read of the link id (`ReadLink`), and the read of the message with the
send (`EndDone`, `EndKeptDone`). The two objects are those of the work thread, so a kept
closure's steps interleave with `Take`, `ParseBinary`, `Reset` and `Clear`, and may take
the link id of one request and the message of another. If the message changes, or
`rpc_net_` goes, between the checks and the send, or two calls write the same message,
what is sent is undefined: the model sends what is there by then, or nothing, and sets
`torn`.
`AskToQuit`, `DeleteNet`, `StopThreads` and `Join` are
`RunUntilQuit` and `Stop`, in the order of the code. `FetchFromNothing` is
`rpc_net_->FetchMessageQueue` after the delete.

### Heart

`UpdateSocket` is two steps, the unlocked search and the locked erase. `StopHeartCheck`
is two: clearing `running_`, and, after a join in which the thread may make one more
check, clearing the sets. `silence` counts the checks since a packet of the socket was
handled.

### Framing

A stream is a sequence of packet ends; `OnReceive(upto)` is one call of the callback
when the bytes up to `upto` have arrived. `handler` chooses between the three loops,
which differ in when they look at the maximum size and in when they set `read_size`.

### Messages, Packets

A message is a record of its fields; its bytes are the fields that differ from their
default, with their values. So bytes can be compared, a message of defaults has none,
and reading what was written is two different operators, as the code has them. Each message type
has its writer and reader, named as they are used in `Exchange`. `Packets` also has the
packets of which no run needs a step: the heart beat, a channel's registration, and the
responses and notices that servers read and no route sends.

### Exchange

| State | Code |
|---|---|
| `status`, `at` | whether a channel is connected, to which route and socket |
| `request_id`, `waiting`, `answers`, `notes` | `request_id_`, the ids in `request_callback_`, and what was called back |
| `up`, `down`, `to_server`, `from_server` | packets on the connections, in order |
| `service_2info`, `connected` | the services registered at each route; the routes whose connection to the server is up |
| `packet_queue` | the `RpcPacket`s of the server |
| `known`, `sent`, `unwanted` | link ids the server has seen; copies of notes it sent; whom it disconnects |

Repeated fields, the vector of links of `SendRpcMessage` and the target sockets of a packet
are bags (of module `Bags`): how often a link is in one counts, its place does not. The
server puts a socket into the targets once for each link of the vector that leads to that
route (`Own`, `OwnSockets`), and the route sends the packet once for each target
(`Times`, `Repeated`).

Every packet is built, changed and read as in the code: a request starts in
`CallMethod`, `RouteRequest` writes the source socket into its `NetInfo`,
`ReceiveRoutePacket` makes the link id, `Serve` copies the meta and sends to the link,
`RouteResponse` forwards to the target sockets, `DoRequestPacket` finds the request by
the id in the copied meta. The body of a request says whose it is, which only the
properties look at, so an answer that went astray would be seen. `SendRpcMessage` and
`Disconnect` work on any links the server knows, of channels that may have left.
`OnDisconnect` is the end of the server's connection to one route: what is on its way on
it is lost, the route deletes the server's services, and the server, which does nothing
about it, fails to send there from then on. Requests it took from there it still serves.

## 3. What the runs check

Properties are in the Properties modules, each with a comment that says what it means.

| Run | Checks | Bounds, and why they are enough |
|---|---|---|
| `channel_threads` | `TypeOK`, `OnePlace`, refinement `LifeSpec` | a synchronous and an asynchronous caller, 2 parse, 2 work threads, 2 requests, failing sends, spurious wake-ups, cancels: each pair of threads that can meet at a request does, and batches of 2 hold both |
| `channel_calls` | `ReturnedIsFinished`, `DeadlineKept`, `TimeoutFires`, `AnswerIsDelivered` | one synchronous caller, as `DeadlineKept` fails for two, and no failing sends and spurious wake-ups, as those break `ReturnedIsFinished` (section 4); 2 answers to each of 2 requests: one may be cancelled while the other completes twice |
| `channel_life` | `TypeOK`, `OnePlace`, `NotifiedInOrder`, `ControllersLive`, `QuietWhenStopped`, `StopReturns`, `NotificationIsCalled` | any number of starts, so that a run finds what others left; 2 requests or notifications, so that one can be queued while the other is in a batch, and the event of one can carry the id of the other; request 1 may be cancelled, request 2 is synchronous if it is a request; one thread of each kind, the default of `ChannelOption` and what `NotifiedInOrder` needs |
| `exchange` | `TypeOK`, `AnswerIsMine`, `NotesAreMine`, `RequestIsSingle`, `OnlyUnwantedAreClosed`, `RequestIsKept`, `NoteIsKept`, `RequestIsAnswered`, `NoteArrives` | 2 routes, 2 channels, 2 sockets: channels on one route, on two with different or the same socket numbers, or one after the other on the same link; a request each; two copies of notes or disconnects, so that a channel may get two notes, in order, or one twice; route 0 has two sockets for channels, route 1 one of the same numbers (`Free`), which a channel may leave to the other; the connection to one of the routes may break, so that a note for both is sent half, and one of the channels may time out |
| `route_directory` | `TypeOK`, `RegistryAgrees`, `BindingIsOwn`, `BoundToOne`, `EqualShare`, refinement `DirectorySpec` | 3 sockets, 2 services, 3 addresses, the default one among them: two servers and a channel, or a server and two channels, each replaced over the same socket |
| `server_requests` | `TypeOK`, `AnswerGoesToAsker`, `AnsweredOnce`, `DoneIsAnswered` | 2 threads, 2 routes, 2 requests, batches of 2, so that one thread may take both, or each one; methods that run done before they return, twice, or keep it for another thread that runs it at any step of the work thread, requests that do not parse, a quit and a `Stop` at any time; a one-digit socket, as links of many digits are `LinkId`'s |
| `heart_check` | `TypeOK`, `SilentIsClosed`, `HandledIsKept` | 3 sockets, unbounded time; sockets connect once the check runs |
| `framing_stream` | `TypeOK`, `HandledOnce`, `NothingIsHeldBack`, `LongIsRefused` | 4 packets of 3 sizes, the largest refused, a header of 2 bytes: every cut before, in, after a header and in a body |

Named bounds are `MaxRequests` and `MaxAnswers` (Channel), `MaxIssued`
(ChannelLife), `Sync` and `Cancellable` (the numbers that are synchronous if they are
requests, and that may be cancelled), `MaxRequests`, `MaxUnasked` (what the server does
unasked: copies of notes and disconnects), `Free` (the sockets that channels may get),
`Breaking` (the routes that may be lost) and `Impatient` (the channels that may leave and
time out) (Exchange), `MaxRequests`
(Server) and `MaxPackets` (Framing); Route and Heart have none. Symmetry is used
over threads or sockets in runs of invariants and action properties, and of the
refinements, which are safety properties, only. `channel_life`, `exchange`,
`server_requests` and the framing runs switch the deadlock check off: a channel that
was destroyed, a server that has quit, and channels whose bounded requests are all done
have stopped. Everywhere else a state without a successor would be an error, and there
is none.

Some properties are in no run, as the theorem says more and a run would repeat it:
`CalledAtMostOnce`, `CancelIsFinal`, `WaitingIsOpen`, and, of servers
that register anything, `RegisteredIsFound` and `DroppedIfNobody`. Others say what the
findings of section 4 leave standing: `NothingIsSkipped` of the route's callback,
`CheckedIsClosed` and `CheckedIsKept` beside sockets that are not checked,
`HandedToServers` of bindings.

Each property is paired with a mutant, an operator next to the one it replaces
(`Complete_KeepsEntry` next to `Complete`), which is how a plausible bug in that code
would read, and which violates the property.

## 4. Where the code and its own text disagree

Each of these runs checks one property, taken from a comment or an example, and TLC
finds it violated. `PROJECT.json` quotes the text.

| Run | What happens |
|---|---|
| `channel_two_callers` | two callers push the same id into the timeout list; the other request waits for ever (`channel.cpp:139`) |
| `channel_lost_wakeup` | a synchronous caller misses the one notification and waits for ever (`channel.cpp:142`) |
| `route_dead_binding` | bindings to a server that left are kept, and its socket is reused (`route.cpp:157`); nothing else misleads a request (theorem `OnlyDeadBindingsMislead`) |
| `framing_route` | the route handles packets again after an incomplete one (`route.cpp:124`); it skips none (theorem `NothingStaysSkipped`) |

What follows is also in the code, and so in the models. No run asks for it: the
properties are worded, or the constants chosen, so that they do not depend on it.

| Code | What happens | Where the models show it |
|---|---|---|
| `channel.cpp:346` | a cancelled request's done never runs; `controller.h:51` says it will | theorem `CancelledStaysCancelled` |
| `controller.cpp:68` | NotifyOnCancel's closure never runs for a request that completes; `controller.h:71` says it will | it is part of `StartCancel` alone |
| `channel.cpp:135` | a synchronous call that could not be sent returns as a success | `SendFails`: `ReturnedIsFinished` needs `~SendMayFail` |
| `channel.cpp:142` | a spurious wake-up returns a call that is not finished | `SpuriousWake`: `ReturnedIsFinished` needs `~SpuriousWakeups` |
| `channel.cpp:267` | request ids beyond `INT_MAX` are not found, their answers dropped | `AsInt`, with `IntMax < MaxRequests` |
| `channel.cpp:78` | `Stop` wakes no synchronous caller: one that waits then waits for ever | no fairness of `Return` of `ChannelLife` |
| `channel.cpp:86` | `Stop` deletes `rpc_net_` before the parse threads end, and one of them uses it | `FetchFromNothing` of `ChannelLife`, and `SendToNothing` for a caller; `StopReturns` excludes it |
| `channel.cpp:135` | a synchronous call whose send fails returns and its controller is freed; its entry stays in the map | `SendFails` and `Leave` of `ChannelLife` |
| `channel.cpp:139`, `330` | the event of another call may carry the id of that entry: the threads then complete it and use the freed controller, as they do for a call that a spurious wake-up ended | `abandoned`; `ControllersLive` names it |
| `channel.cpp:162` | `RegisterService` does not look whether the channel was started | not modelled; the packet is `RegisterServicePacket` |
| `channel.cpp:242` | `Stop` drops the rest of a work thread's batch, without a call or a delete | `EndBatch` of `ChannelLife` |
| `channel.cpp:282`, `server.cpp:253` | an empty body, as a message of defaults has, is NULL and is read | bodies are not empty in `Exchange` |
| `channel.h:149` | a second registration of a key never returns; `channel.h:145` says "If Call this twice,last will been used." | `RegisterCallback` of `ChannelLife`: "relock"; `NotificationIsCalled` excludes it |
| `callback.cpp:26` | `~ChannelCallback` reads the controller of a synchronous request after its caller may have freed it | `misused`; `ControllersLive` names it, `ReturnedIsFinished` allows that delete |
| `controller.cpp:62` | `StartCancel` on the controller of an `AsyncRequest` that has completed reads freed memory | `misused`; `ControllersLive` names it |
| `channel.cpp:346` | nobody frees the controller of a cancelled `AsyncRequest`; `channel.h:122` says the framework does | `StartCancel` of `ChannelLife` frees nothing |
| `route.cpp:242` | the answer to a channel that left goes to the one that has its socket now, whose request ids are the same | `AnswerIsMine` allows it for channels that share a link |
| `net_server.cpp:79`, `route.cpp:242` | a link that is twice in the vector of `SendRpcMessage` is given the note twice | `Own` and `Times` of `Exchange`; `NotesAreMine` counts |
| `net_server.cpp:88` | `Server::Disconnect` of a channel that left closes the one that has its socket now | `OnlyUnwantedAreClosed` speaks of links |
| `net_server.cpp:288` | the result of a send, a `bool`, is compared with `eNetSendResult_Ok` | not modelled |
| `server.cpp:154` | a quit drops the requests that a thread has fetched, unanswered | `DoneIsAnswered` excludes a quit |
| `server.h:38` | the constructor of `RpcMessage` deletes pointers that were never set, if they are not NULL by chance | not modelled |
| `rpc_serializable.cpp:42` | senders build packets over the maximum, which close the receiver's connection | `LongIsRefused` says when |
| `route.cpp:395` | a server with two services leaves one of them behind when it goes | `ForwardedByName` needs `~ManyServices`; theorems `RegisteredStaysFound` and `UnboundIsServed` hold all the same |
| `route.cpp:376` | a binding to any server takes a turn of the shared requests | `EqualShare` needs `AnyAddr \notin ChannelAddrs` |
| `route.cpp:58` | two servers with the default address: the second is disconnected (`channel.h:171`: "route choose any service") | `ServerServiceRegister` closes it |
| `route.cpp:420` | a refused server's socket stays a "service socket" | `RegistryAgrees` needs `~SharedAddr`; the same two theorems hold |
| `net_server.h:99` | a socket of more digits than the number of routes decodes to another channel | theorem `LinkCollision` |
| `server.cpp:211` | running done twice inside a method sends two responses | method "twice"; `AnsweredOnce` excludes it |
| `server.cpp:136` | a kept done answers the request its thread handles when it runs | method "later"; `AnsweredOnce` excludes it |
| `server.cpp:206`, `158` | a kept done on another thread reads link id and message, without a lock, while the work thread makes them those of its next request: what it sends may be the response of one request to the channel of another, or torn | `ReadLink`, `torn`; `AnswerGoesToAsker` keeps it to channels that asked, or nobody |
| `server.cpp:63` | `Stop` deletes `rpc_net_` before the work threads end, and one of them uses it | `FetchFromNothing` |
| `rpc_heart.cpp:120` | a socket that connects before `RunServer` is never checked | `SilentIsClosed` needs `~EarlyConnect`; theorem `CheckedSocketsAreClosed` holds of those that connect later |
| `rpc_heart.cpp:127` | a socket whose packet arrived, and was found waiting, is disconnected before the erase | between `UpdateSocket` and `EraseWaiting` |

The passing runs state what holds outside these cases: with one caller, servers of one
service under addresses of their own, bindings to named addresses, one-digit sockets.

## 5. Assumptions

* **frnet** calls the callbacks of a route one at a time, gives a closed socket's number
  to a new connection only after `OnDisconnect`, calls `OnDisconnect` after (not inside)
  `Disconnect`, receives nothing on a socket after `Disconnect`, hands `OnReceive` a
  `read_size` of 0 together with all bytes not yet deleted, closes a connection
  whose callback returns false, and keeps the packets of a connection in order.
* **LockQueue** is atomic, first in first out; `pop(queue, n)` moves at most n.
* **Condition variables** lose notifications nobody waits for, and may wake spuriously
  (a switch of `Channel`).
* **Channel.** Steps outside critical sections are as fine as the shared state they
  touch. The clock is read once per scan. A client makes its calls outside done closures
  and cancels by a controller that is alive.
* **ChannelLife.** Callbacks return, and `Stop` is not called from one. `StartRoute` is
  not called on a channel that runs. The client does not destroy a channel that it is
  about to call, and cancels asynchronous requests only, of which it has heard nothing.
* **Route.** A server has one `service_addr` (it is one option of `Server`). Nobody in
  the repository sends `ServiceCancel`; its handler is an action all the same.
* **Server.** Steps that touch only a thread's own data are joined; its controller and its
  message are not its own once a method keeps done. Nobody runs a kept done of a thread
  that has ended, whose objects are gone. The pointer `rpc_net_` is deleted and cleared in
  one step.
* **Exchange.** There is one server. Its connections may break, and then stay broken, as
  `net_server.h:79` has reconnection as a TODO; the registration of its service is the
  first packet on each. Sockets fit the link id (`SocketsFit`). Bodies
  are not empty. The server takes its packets in order.

**Fairness.** Safety runs assume none.

* `Channel!FairSpec`: parse and work threads are loops that never block for ever outside
  the mutex. A work thread is never disabled by others, so it is weakly fair. Callers and
  parse threads compete for the mutex with scans that hold it again and again, so they
  are strongly fair, as is the clock, which a scan reads anew. Nothing makes a client
  call, cancel or a server answer.
* `ChannelLife!FairSpec`: the threads are weakly fair, and so is a `Stop` once it has
  begun. Nothing makes the client stop a channel, a server answer or notify, a
  connection break.
* `Exchange!FairSpec`: weak fairness of `Handle`, that some packet that has arrived is
  handled. Packets are bounded and handling one makes at most one for each target
  further on its way, so each is handled in the end. Nothing makes a client call, a server
  send a note, a connection break or a deadline pass.
* `Server!FairSpec`: work threads are weakly fair; nothing makes a request arrive
  or a method that keeps done run it.

## 6. What is proved

For every value of the constants that the ASSUMEs allow; what else a theorem assumes, it
says. TLC evaluates the ASSUMEs in every run. `LinkBaseAssumption` says that a power of
ten is a positive number: the provers know neither `^` nor the recursive digit count.

**`ChannelProofs`**, for any threads, requests, answers, batch sizes and `IntMax`, with
failing sends, spurious wake-ups and cancels:

* `TypeCorrect`; `RequestInvariant`: `RequestInv` is inductive.
* `EveryCallbackInOnePlace`, `NeverCalledTwice`, `CancelledStaysCancelled`.
* `ChannelImplementsRequestLife`: every step maps to a step of `RequestLife` or a stutter.
* `ReturnedStaysFinished`, if sends do not fail and wake-ups are not spurious
  (`ReliableWaits`), for any number of callers.
* `DeadlineStaysKept`, for one caller whose sends do not fail (`OneCaller`).

`OnePlace` alone is not inductive. That a worker's `Call` is the first one of its
callback needs `PlaceInv`, which says what the container of a callback tells about it
(in the map: untouched; in the queue: decided, not called; the head of a batch whose
worker is at "delete": called). That `InsertRequest` enters a new id needs `ThreadsInv`:
callers work on different ids, none above `request_id`. `CallerInv` adds what a
caller's position says of its request, `DeadlineInv` that the counter is still the one
caller's own id when it pushes the event.

**`ChannelLifeProofs`**, for any number of starts, keys, threads, requests and
notifications, and any batch sizes:

* `TypeCorrect`.
* `StoppedIsQuiet`: threads run only while `main` is in `Stop` or the channel is started
  (`ThreadsInv`), so whoever calls back does so before `Stop` returns.
* `EveryCallbackInOnePlace`. `OnePlace` alone is not inductive: a callback that enters
  the queue must not be there already, which needs that what arrives arrives once
  (`ArrivalInv`: packets are with the network or one parse thread, and what was answered
  is not answered again), that only requests wait, and that a work thread which has left
  its batch has nothing of it (`WaitInv`).
* `ControllersStayLive`: a freed controller is used in the three ways only that
  `ControllersLive` names. Callbacks pass between places only along the ways that `Moved`
  lists. So it is enough that who deletes a callback has called it and alone (`Holding`),
  that a notification on its way and a request that is not yet entered have their
  controllers (`Unfreed`), and that a caller frees its own only at its return, after the
  call-back or as one of the `abandoned` (`Callers`).
* `NotificationsKeepOrder`, for one parse thread and one work thread: on the way from the
  network to the call, those that are further on were sent before (`OrderInv`).

**`RouteProofs`**, for any sockets, services and addresses, whatever servers register
and under whichever addresses:

* `TypeCorrect`, `BoundGoesToOne`.
* `RegisteredStaysFound`: who was accepted for a service, and is there, keeps its turns
  and is found by its address. Nobody else's leaving takes it out.
* `UnboundIsServed`: unbound requests are dropped only if no server is registered.

The code leaves entries behind then, so that the maps disagree and `RouteInv` below fails.
`AnyInv` is what is left: `RegisteredIsFound` itself, the types, what the roles say, and
that a binding knows where it goes. It is inductive because `DeleteService` takes one
entry out of each map, and one of the server that leaves; were that under several
addresses, the code would take the first in their order, which the model leaves open
(`OtherAddrs`), so that the theorems hold for any. `FirstIsRemoved` and `WithoutPosition`
say what `RemoveFirst` of the community modules does to a list, also one with an entry
twice; that a first position exists is well-foundedness of the naturals (`LeastIsIn`).

When each server registers one service and under an address of its own
(`OneServiceEach`):

* `MapsAgree`, `BindingsAreOwn`. A server that was refused because of its address would
  leave its socket among the service sockets, whose bindings `OnDisconnect` keeps.
* `RouteImplementsDirectory`: a registration is a `Join`, what closes a server a
  `Leave`, an unbound request a `HandOver`; a step that changes nobody's service is the
  `Leave` of a socket that serves none.
* `OnlyDeadBindingsMislead`: a request reaches a peer that is no server only by a binding
  whose server left.
* `SharedEqually`, if channels bind to named addresses only.

`RouteInv` joins `RegistryAgrees` to what the roles say (`RoleInv`: only a server is
registered, and it under its address), what bindings point at (`BindInv`) and what was
sent last (`SentInv`). `LiveInv` adds that a binding leads to a server for as long as
that connection is there: what is found in the registry is a server, and who leaves ends
the bindings to it, which the code does not see but `bound_at` does. Sharing needs one more: those who had a turn in this round are
the last ones before the index, in cyclic order (`TurnInv`).

**`HeartProofs`**, for every set of sockets: `TypeCorrect`, `WaitingStaysOpen`,
`HandledSocketsAreKept`, `CheckedSocketsAreClosed`, and `SilentSocketsAreClosed` under
`~EarlyConnect`. The invariant adds that who waits was silent at the last check, that
who is in `socket_array` waits once it was silent (`CheckedInv`), and, without early
connections, that everybody is in `socket_array` (`Watched`).

**`LinkIdProofs`**: `LinkRoundTrip` and its limit `LinkCollision`.

**`ServerProofs`**, for any threads, routes, requests and kinds of methods:

* `TypeCorrect`.
* `AnswersGoToAskers`, if sockets fit the link id. The invariant: packets in all queues
  are genuine (their link id is that of the request); from `ParseBinary` to `Reset` a
  thread's controller and message are of the request it handles, through the method's own
  calls of `SendResponse` (`MessageInv`, `SendInv`), so no kept closure changes what the
  method sends; at any other time the controller holds the link of some request, or 0, and
  that is all a kept closure can read.
* `NeverAnsweredTwice`: each request is in one place of the queue, the threads' queues
  and those taken (`PlacesInv`), and answered only once taken (`OnceInv`).

**`FramingProofs`**, for packets of every size and every way to cut the stream.

* For all three callbacks: `TypeCorrect`, `NothingWaitsForMore`, `LongPacketsAreRefused`,
  and `NothingStaysSkipped`: whatever is handled, all that was sent before it was handled
  before. The route deletes less than it handles, so what was deleted was handled
  (`TakenIsHandled`), and each batch starts with the packet after those deleted: it may
  repeat but leaves no gap.
* For channels and servers: `PacketsHandledOnce`. The packets handled are exactly those
  deleted from the buffer (`TakenInv`), which is what fails for the route.

**`ExchangeProofs`**, for any channels, routes and sockets that fit, any number of
requests, notes and disconnects, and whichever connections break:

* `TypeCorrect`, `AnswersAreMine`, `NotesStayMine`, `ClosesOnlyUnwanted`.
* `RequestsAreSingle`: a request is in one place, on its way up, in the server or on its
  way back. `RequestsAreKept`, `NotesAreKept`: no step loses it, or a note for an open
  channel, but a deadline, the end of the channel or of the server's connection.

That a message read is the one that was written (lemma `RoundTrip`) is how bytes are
modelled, and no result about protobuf.

`ExchangeInv` says of every packet, on each part of its way, whose it is: a request
carries an id that its channel has used, once past the route also the socket of that
channel, in the server its link id; an answer names the socket its body came from; a
disconnect names a link that is unwanted. For the notes `OrderInv` adds two things. Their
numbers do not fall along the way to each channel: those it was given and those on their
way from its route are below those that the route has yet to pass on. A channel that takes
a socket over starts with none of the first two, so that the third is enough. And the
copies of a note are together on that way: a note that comes at a distance of k places
from itself is for a bag that holds the link more than k times (`Spaced`). This passes from
the one packet that the server sends, over the copies that the route makes of it
(`RepeatedSpaced`), to what the channel is given (`GivenIsSpaced`), and distances only
shrink when something else is taken in between (`TakenSpaced`).

That a request is single takes `SingleInv`: no connection holds its packet twice, no two
of the five parts of its way hold it, and two open channels have different sockets, so
that one of them at most gets its answer. Each handler takes a packet from one part and
puts at most one into the next (`Follows`), which is proved action by action; and it does
put one there unless one of the excepted ends comes (`Stays`), which is what
`RequestsAreKept` says. Neither says that a handler ever runs, which is for the runs.

## 7. Only model-checked

Liveness (`TimeoutFires`, `AnswerIsDelivered`, `StopReturns`, `NotificationIsCalled`,
`RequestIsAnswered`, `NoteArrives`, `DoneIsAnswered`) is out of the prover's reach.

## 8. Not modelled, and what could come next

The models stand for three tenths of the repository's lines. Two thirds of those lines
are protoc's output, of which three files are copies of one example (`echo.pb`), and
`closure.h` alone is 902. Of the generated code the models take what the program rests
on: the fields, the defaults, reading, writing, merging and copying. Left out are

* sizes, swapping, reflection, descriptors and failures to parse of messages;
* closures, JSON and log output, the route program and the examples, which hold no
  state of the system;
* `RunClient` of the heart check, a thread that sends one constant packet;
* events of a connection (`net_event_cb_`), `OnClose` of the route, which comes when the
  route itself ends, and notices of disconnects, which are commented out or stubs;
* calls made in a done closure, a second `StartRoute` on a running channel, `StartMQ`
  (a stub), a server that connects again or restarts;
* sizes in packets that do not match what follows them, and empty bodies.

What could come next: packets that a route handles again (`framing_route`) in `Route`
and `Exchange`; several servers in `Exchange`, with the bindings of `Route`.
