----------------------- MODULE ChannelLifeProperties -----------------------
(***************************************************************************)
(* What a channel must do with what is called back, from its start to its  *)
(* end: properties of ChannelLife.                                         *)
(***************************************************************************)
EXTENDS ChannelLife, FiniteSets

Issued == 1..Len(kinds)
TypeOK ==
  /\ {init_success, run_thread} \subseteq BOOLEAN
  /\ rpc_net \in {"none", "up", "down", "deleted"}
  /\ register_callback \subseteq Keys
  /\ main \in {"free", "relock", "delete", "flag", "join", "gone"}
  /\ kinds \in Seq(Kinds) /\ Len(kinds) <= MaxIssued
  /\ timeout_events \in [Numbers -> Nat]
  /\ call_pc \in [Numbers -> {"none", "insert", "send", "push", "wait", "done", "crashed"}]
  /\ \A id \in Numbers : call_pc[id] # "none" => id \in Issued /\ kinds[id] \in Calls
  /\ {request_callback, unanswered, dropped,
       to_cancel, cancelled, abandoned, freed} \subseteq SUBSET Issued
  /\ {already_callback_queue, packet_queue, called} \subseteq Seq(Issued)
  /\ parse_pc \in [ParseThreads -> {"fetch", "parse", "ended", "crashed"}]
  /\ packets \in [ParseThreads -> Seq(Issued)]
  /\ work_pc \in [WorkThreads -> {"pop", "batch", "call", "delete", "ended"}]
  /\ request_queue \in [WorkThreads -> Seq(Issued)]
  /\ misused \subseteq [id : Issued, by : {"SetFailed", "Call", "~ChannelCallback",
                                          "StartCancel", "caller"}]
  /\ \A w \in WorkThreads : work_pc[w] \in {"call", "delete"} => request_queue[w] # <<>>
-----------------------------------------------------------------------------
Queued == Range(already_callback_queue)
Uncalled(w) == IF work_pc[w] = "delete" THEN Tail(request_queue[w]) ELSE request_queue[w]
Batch(w) == Range(Uncalled(w))
Batched == UNION {Batch(w) : w \in WorkThreads}
Called == Range(called)
Parsed(p) == Range(packets[p])
Arrived == Range(packet_queue) \cup UNION {Parsed(p) : p \in ParseThreads}
Starting == {id \in Numbers : call_pc[id] = "insert"}
Unasked == {id \in Issued : kinds[id] \in Keys}

(* From its first start to its destructor, over any number of restarts, the *)
(* channel has each callback in one place: its caller is about to enter it, *)
(* it waits, is queued, is in the batch of a work thread, was called, was   *)
(* cancelled, or was dropped.  So nothing is called twice or after its      *)
(* cancel, and nothing is forgotten that was not dropped.                   *)
OnePlace ==
  /\ \A id \in Issued :
       id \in Starting \cup request_callback \cup Queued \cup Batched \cup Called
                \cup dropped \cup cancelled \cup (Arrived \cap Unasked)
  /\ Starting \cap (request_callback \cup Queued \cup Batched \cup Called) = {}
  /\ request_callback \cap (Queued \cup Batched \cup Called) = {}
  /\ Queued \cap (Batched \cup Called) = {}
  /\ Batched \cap Called = {}
  /\ cancelled \cap (Starting \cup request_callback \cup Queued \cup Batched \cup Called) = {}
  /\ dropped \cap (Starting \cup request_callback \cup Queued \cup Batched \cup Called
                   \cup cancelled) = {}
  /\ Arrived \cap Unasked \cap (Queued \cup Batched \cup Called \cup dropped) = {}
  /\ IsInjective(already_callback_queue) /\ IsInjective(called)
  /\ \A v, w \in WorkThreads : /\ IsInjective(Uncalled(v))
                               /\ v # w => Batch(v) \cap Batch(w) = {}

(* Over the whole life of a channel, however calls overlap and whatever     *)
(* answers, deadlines, cancels and its destructor do, no controller is used *)
(* after it was freed, but by                                               *)
(*  - StartCancel of a client that has not heard yet of the completion,     *)
(*  - ~ChannelCallback, which asks the controller of a synchronous request  *)
(*    whose is it, and                                                      *)
(*  - threads that complete a synchronous request whose caller came back    *)
(*    before: its send failed, and the event of another call carried its    *)
(*    id, or nothing had notified it.                                       *)
(* A controller that is not synchronous is freed when its callback has left *)
(* all containers, and when it was called.                                  *)
Deleting == {Head(request_queue[w]) : w \in {v \in WorkThreads : work_pc[v] = "delete"}}
ControllersLive ==
  /\ \A use \in misused :
       \/ use.by = "StartCancel"
       \/ kinds[use.id] = "sync" /\ (use.by = "~ChannelCallback" \/ use.id \in abandoned)
  /\ \A id \in Issued : kinds[id] # "sync" =>
       /\ id \in freed => id \notin request_callback \cup Queued \cup Batched \cup Deleting
       /\ id \in Called => id \in freed \cup Deleting

(* Once Stop has returned, no thread calls anything back: the client may    *)
(* free what its callbacks use.                                             *)
QuietWhenStopped == [][called' # called => main # "gone" /\ (main = "free" => init_success)]_vars

(* With one parse thread and one work thread, which is the default of       *)
(* ChannelOption, notifications are called in the order they were sent,     *)
(* those that a restart finds in the queue included.                        *)
NotifiedInOrder ==
  \A i, j \in DOMAIN called :
    (i < j /\ {kinds[called[i]], kinds[called[j]]} \subseteq Keys) => called[i] < called[j]
-----------------------------------------------------------------------------

Crashed == \E p \in ParseThreads : parse_pc[p] = "crashed"

(* Stop does not hang, whatever threads do while it joins them, unless a    *)
(* thread crashes on the connection that Stop deletes before.               *)
StopReturns == (main \in {"delete", "flag", "join"}) ~> (main = "free" \/ Crashed)

(* A notification whose key is registered when it arrives is called, unless *)
(* the client stops the channel or registers a key twice.                   *)
NotificationIsCalled ==
  \A id \in Numbers :
    (id \in Range(packet_queue) /\ kinds[id] \in register_callback)
       ~> (id \in Called \/ ~init_success \/ main = "relock")
=============================================================================
