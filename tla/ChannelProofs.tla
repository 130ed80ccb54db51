--------------------------- MODULE ChannelProofs ---------------------------
(***************************************************************************)
(* Proofs about the request path of a channel, for any number of callers,  *)
(* parse threads and work threads, any bounds and any batch sizes.         *)
(***************************************************************************)
EXTENDS ChannelProperties, TLAPS

(* Facts about queues: appending, taking the head, splitting off a batch. *)
LEMMA AppendElement ==
  ASSUME NEW S, NEW s \in Seq(S), NEW e \in S
  PROVE  /\ Append(s, e) \in Seq(S)
         /\ Range(Append(s, e)) = Range(s) \cup {e}
         /\ IsInjective(s) /\ e \notin Range(s) => IsInjective(Append(s, e))
<1>1. /\ Append(s, e) \in Seq(S)
      /\ DOMAIN s = 1..Len(s) /\ Len(s) \in Nat
      /\ DOMAIN Append(s, e) = 1..(Len(s) + 1)
      /\ \A i \in 1..Len(s) : Append(s, e)[i] = s[i]
      /\ Append(s, e)[Len(s) + 1] = e
  OBVIOUS
<1>2. Range(Append(s, e)) = Range(s) \cup {e}
  <2>1. Range(Append(s, e)) \subseteq Range(s) \cup {e}
    BY <1>1 DEF Range
  <2>2. ASSUME NEW i \in 1..Len(s)
        PROVE  s[i] \in Range(Append(s, e))
    BY <1>1 DEF Range
  <2>3. e \in Range(Append(s, e))
    BY <1>1 DEF Range
  <2> QED  BY <2>1, <2>2, <2>3, <1>1 DEF Range
<1>3. ASSUME IsInjective(s), e \notin Range(s),
             NEW i \in 1..(Len(s) + 1), NEW j \in 1..(Len(s) + 1),
             Append(s, e)[i] = Append(s, e)[j]
      PROVE  i = j
  BY <1>1, <1>3 DEF IsInjective, Range
<1> QED  BY <1>1, <1>2, <1>3 DEF IsInjective

LEMMA TailElements ==
  ASSUME NEW S, NEW s \in Seq(S), s # <<>>
  PROVE  /\ Head(s) \in S
         /\ Tail(s) \in Seq(S)
         /\ Len(s) > 1 <=> Tail(s) # <<>>
         /\ Range(s) = Range(Tail(s)) \cup {Head(s)}
         /\ IsInjective(s) => /\ Head(s) \notin Range(Tail(s))
                              /\ IsInjective(Tail(s))
<1>1. /\ Head(s) = s[1] /\ Head(s) \in S
      /\ Tail(s) \in Seq(S)
      /\ Len(Tail(s)) = Len(s) - 1
      /\ Len(s) \in Nat /\ Len(s) > 0
      /\ \A i \in 1..(Len(s) - 1) : Tail(s)[i] = s[i + 1]
  OBVIOUS
<1>2. DOMAIN s = 1..Len(s) /\ DOMAIN Tail(s) = 1..(Len(s) - 1)
  BY <1>1
<1>3. Len(s) > 1 <=> Tail(s) # <<>>
  BY <1>1
<1>4. Range(s) = Range(Tail(s)) \cup {Head(s)}
  <2>1. ASSUME NEW i \in 1..Len(s)
        PROVE  s[i] \in Range(Tail(s)) \cup {Head(s)}
    <3>1. CASE i = 1  BY <3>1, <1>1
    <3>2. CASE i # 1
      <4>1. i - 1 \in DOMAIN Tail(s) /\ Tail(s)[i - 1] = s[i]
        BY <3>2, <1>1, <1>2
      <4> QED  BY <4>1 DEF Range
    <3> QED  BY <3>1, <3>2
  <2>2. ASSUME NEW i \in 1..(Len(s) - 1)
        PROVE  Tail(s)[i] \in Range(s)
    <3>1. i + 1 \in DOMAIN s /\ Tail(s)[i] = s[i + 1]  BY <1>1, <1>2
    <3> QED  BY <3>1 DEF Range
  <2>3. Head(s) \in Range(s)
    BY <1>1, <1>2 DEF Range
  <2> QED  BY <2>1, <2>2, <2>3, <1>2 DEF Range
<1>5. ASSUME IsInjective(s)
      PROVE  Head(s) \notin Range(Tail(s)) /\ IsInjective(Tail(s))
  <2>1. ASSUME NEW i \in 1..(Len(s) - 1)
        PROVE  Tail(s)[i] # Head(s)
    BY <1>1, <1>2, <1>5 DEF IsInjective
  <2>2. ASSUME NEW i \in 1..(Len(s) - 1), NEW j \in 1..(Len(s) - 1),
               Tail(s)[i] = Tail(s)[j]
        PROVE  i = j
    BY <2>2, <1>1, <1>2, <1>5 DEF IsInjective
  <2> QED  BY <2>1, <2>2, <1>2 DEF Range, IsInjective
<1> QED  BY <1>1, <1>3, <1>4, <1>5

LEMMA BatchElements ==
  ASSUME NEW S, NEW s \in Seq(S), NEW n \in Nat \ {0}
  PROVE  /\ FirstOf(s, n) \in Seq(S) /\ RestOf(s, n) \in Seq(S)
         /\ s # <<>> => FirstOf(s, n) # <<>>
         /\ Range(s) = Range(FirstOf(s, n)) \cup Range(RestOf(s, n))
         /\ IsInjective(s) => 
              /\ IsInjective(FirstOf(s, n)) /\ IsInjective(RestOf(s, n))
              /\ Range(FirstOf(s, n)) \cap Range(RestOf(s, n)) = {}
<1> DEFINE k == Smaller(n, Len(s))
           front == FirstOf(s, n)
           rest == RestOf(s, n)
<1>1. k \in 0..Len(s) /\ (s # <<>> => k > 0)
  BY DEF Smaller
<1>2. /\ front \in Seq(S) /\ Len(front) = k
      /\ \A i \in 1..k : front[i] = s[i]
  BY <1>1 DEF FirstOf
<1>3. /\ rest \in Seq(S) /\ Len(rest) = Len(s) - k
      /\ \A i \in 1..(Len(s) - k) : rest[i] = s[k + i]
  BY <1>1 DEF RestOf
<1>4. /\ DOMAIN s = 1..Len(s) /\ DOMAIN front = 1..k
      /\ DOMAIN rest = 1..(Len(s) - k)
  BY <1>2, <1>3
<1> HIDE DEF k, front, rest
<1>5. s # <<>> => front # <<>>
  BY <1>1, <1>2
<1>6. Range(s) = Range(front) \cup Range(rest)
  <2>1. ASSUME NEW i \in 1..Len(s)
        PROVE  s[i] \in Range(front) \cup Range(rest)
    <3>1. CASE i <= k
      BY <3>1, <1>1, <1>2, <1>4 DEF Range
    <3>2. CASE i > k
      <4>1. i - k \in DOMAIN rest /\ rest[i - k] = s[i]
        BY <3>2, <1>1, <1>3, <1>4
      <4> QED  BY <4>1 DEF Range
    <3> QED  BY <3>1, <3>2, <1>1
  <2>2. ASSUME NEW i \in 1..k
        PROVE  front[i] \in Range(s)
    BY <1>1, <1>2, <1>4 DEF Range
  <2>3. ASSUME NEW i \in 1..(Len(s) - k)
        PROVE  rest[i] \in Range(s)
    <3>1. k + i \in DOMAIN s /\ rest[i] = s[k + i]
      BY <1>1, <1>3, <1>4
    <3> QED  BY <3>1 DEF Range
  <2> QED  BY <2>1, <2>2, <2>3, <1>4 DEF Range
<1>7. ASSUME IsInjective(s)
      PROVE  /\ IsInjective(front) /\ IsInjective(rest)
             /\ Range(front) \cap Range(rest) = {}
  <2>1. IsInjective(front)
    BY <1>1, <1>2, <1>4, <1>7 DEF IsInjective
  <2>2. ASSUME NEW i \in 1..(Len(s) - k), NEW j \in 1..(Len(s) - k),
               rest[i] = rest[j]
        PROVE  i = j
    <3>1. /\ k + i \in DOMAIN s /\ s[k + i] = rest[i]
          /\ k + j \in DOMAIN s /\ s[k + j] = rest[j]
      BY <1>1, <1>3, <1>4
    <3>2. k + i = k + j
      BY <3>1, <2>2, <1>7 DEF IsInjective
    <3> QED  BY <3>2, <1>1
  <2>3. ASSUME NEW i \in 1..k, NEW j \in 1..(Len(s) - k)
        PROVE  front[i] # rest[j]
    <3>1. /\ i \in DOMAIN s /\ s[i] = front[i]
          /\ k + j \in DOMAIN s /\ s[k + j] = rest[j]
          /\ i # k + j
      BY <1>1, <1>2, <1>3, <1>4
    <3> QED  BY <3>1, <1>7 DEF IsInjective
  <2> QED  BY <2>1, <2>2, <2>3, <1>4 DEF IsInjective, Range
<1> QED  BY <1>2, <1>3, <1>5, <1>6, <1>7 DEF front, rest
-----------------------------------------------------------------------------
(* Every variable keeps its type, and every caller its own request id.      *)
(* The two need each other: the id pushed with a timeout event is the       *)
(* shared counter, which is positive because a caller has taken an id.      *)
THEOREM TypeInit == Init => TypeOK /\ ThreadsInv
<1> SUFFICES ASSUME Init PROVE TypeOK /\ ThreadsInv
  OBVIOUS
<1> USE BoundsAssumption DEF Init
<1>1. ClientType
  BY DEF ClientType, CallerSteps
<1>2. TimeoutType /\ PendingType
  <2>1. list_torn \in BOOLEAN
    OBVIOUS
  <2>2. TimeoutType
    BY <2>1 DEF TimeoutType
  <2>3. PendingType
    BY DEF PendingType
  <2> QED  BY <2>2, <2>3
<1>3. RequestType /\ NetworkType
  BY DEF RequestType, NetworkType
<1>4. ThreadType
  BY DEF ThreadType
<1>5. ThreadsInv
  BY DEF ThreadsInv
<1> QED  BY <1>1, <1>2, <1>3, <1>4, <1>5 DEF TypeOK

(* Completing a pending request keeps the types of what it writes. *)
LEMMA CompleteType ==
  ASSUME TypeOK, NEW id \in Requests, NEW verdict \in Verdicts, 
         Complete(id, verdict)
  PROVE  PendingType'
  BY AppendElement DEF TypeOK, PendingType, Complete

THEOREM TypeStep == TypeOK /\ ThreadsInv /\ [Next]_vars => TypeOK' /\ ThreadsInv'
<1> SUFFICES ASSUME TypeOK, ThreadsInv, [Next]_vars
             PROVE  TypeOK' /\ ThreadsInv'
  OBVIOUS
<1> USE BoundsAssumption, BatchAssumption 
    DEF TypeOK, client, timeouts, requests, network, parsers, workers
<1>0. ASSUME UNCHANGED <<call_pc, current, returned, request_id>>
      PROVE  ClientType'
  BY <1>0 DEF ClientType
<1>1. ASSUME UNCHANGED <<timeout_events, due, list_torn>>
      PROVE  TimeoutType'
  BY <1>1 DEF TimeoutType
<1>2. ASSUME UNCHANGED <<request_callback, already_callback_queue, outcome>>
      PROVE  PendingType'
  BY <1>2 DEF PendingType
<1>3. ASSUME UNCHANGED <<owner, calls, deleted, cancelled>>
      PROVE  RequestType'
  BY <1>3 DEF RequestType
<1>4. ASSUME UNCHANGED <<unanswered, packet_queue>>
      PROVE  NetworkType'
  BY <1>4 DEF NetworkType
<1>5. ASSUME UNCHANGED <<parse_pc, packets, work_pc, request_queue>>
      PROVE  ThreadType'
  BY <1>5 DEF ThreadType
<1>6. ASSUME NEW c \in Callers, NEW step \in CallerSteps, current[c] > 0,
             call_pc' = [call_pc EXCEPT ![c] = step], 
             UNCHANGED <<current, request_id>>,
             returned' = returned \/ returned' = returned \cup {current[c]}
      PROVE  ClientType'
  <2>1. call_pc' \in [Callers -> CallerSteps]
    BY <1>6 DEF ClientType
  <2>2. current[c] \in Requests
    BY <1>6 DEF ClientType, Requests
  <2> QED  BY <1>6, <2>1, <2>2 DEF ClientType
<1>7. ASSUME NEW c \in Callers, NEW step, 
             call_pc[c] # "idle", call_pc' = [call_pc EXCEPT ![c] = step],
             UNCHANGED <<current, request_id, work_pc, request_queue>>
      PROVE  ThreadsInv'
  BY <1>7 DEF ClientType, ThreadsInv
<1>8. ASSUME UNCHANGED <<call_pc, current, request_id, work_pc, request_queue>>
      PROVE  ThreadsInv'
  BY <1>8 DEF ThreadsInv
<1>9. ASSUME NEW c \in Callers, call_pc[c] # "idle"
      PROVE  current[c] > 0 /\ request_id \in Requests
  <2>1. current[c] > 0 /\ current[c] <= request_id
    BY <1>9 DEF ThreadsInv
  <2>2. current[c] \in Nat /\ request_id \in 0..MaxRequests
    BY DEF ClientType
  <2> QED  BY <2>1, <2>2 DEF Requests
<1>10. ASSUME NEW c \in Callers, CallMethod(c)
       PROVE  TypeOK' /\ ThreadsInv'
  <2>1. ClientType'
    BY <1>10 DEF CallMethod, ClientType, CallerSteps
  <2>2. RequestType'
    BY <1>10 DEF CallMethod, RequestType
  <2>3. ThreadsInv'
    <3>1. /\ request_id \in Nat /\ \A d \in Callers : current[d] \in Nat
          /\ request_id' = request_id + 1
          /\ \A d \in Callers : current'[d] = IF d = c THEN request_id + 1 
                                                   ELSE current[d]
          /\ \A d \in Callers \ {c} : call_pc'[d] = call_pc[d]
          /\ UNCHANGED <<work_pc, request_queue>>
      BY <1>10 DEF CallMethod, ClientType
    <3> QED  BY <3>1 DEF ThreadsInv
  <2> QED  BY <1>10, <2>1, <2>2, <2>3, <1>1, <1>2, <1>4, <1>5 DEF CallMethod
<1>11. ASSUME NEW c \in Callers, InsertRequest(c)
       PROVE  TypeOK' /\ ThreadsInv'
  <2>1. current[c] \in Requests
    BY <1>9, <1>11 DEF InsertRequest, ClientType, Requests
  <2>2. PendingType'
    BY <1>11, <2>1 DEF InsertRequest, PendingType
  <2> QED  BY <1>11, <2>2, <1>1, <1>3, <1>4, <1>5, <1>6, <1>7, <1>9 
           DEF InsertRequest, CallerSteps
<1>12. ASSUME NEW c \in Callers, SendRequest(c)
       PROVE  TypeOK' /\ ThreadsInv'
  <2>1. NetworkType'
    <3>1. MaxAnswers \in 0..MaxAnswers
      BY DEF BoundsAssumption
    <3> QED  BY <3>1, <1>12 DEF SendRequest, NetworkType
  <2> QED  BY <1>12, <2>1, <1>1, <1>2, <1>3, <1>5, <1>6, <1>7, <1>9
           DEF SendRequest, CallerSteps
<1>13. ASSUME NEW c \in Callers, PushTimeoutEvent(c)
       PROVE  TypeOK' /\ ThreadsInv'
  <2>1. request_id \in Requests
    BY <1>9, <1>13 DEF PushTimeoutEvent
  <2>2. timeout_events' \in Seq(Requests) /\ due' \in 0..Len(timeout_events')
    <3>1. CASE timeout_events' = timeout_events
      BY <3>1, <1>13 DEF TimeoutType, PushTimeoutEvent
    <3>2. CASE timeout_events' = Append(timeout_events, request_id)
      <4>1. /\ timeout_events' \in Seq(Requests)
            /\ Len(timeout_events') = Len(timeout_events) + 1
        BY <3>2, <2>1 DEF TimeoutType
      <4> QED  BY <4>1, <1>13 DEF TimeoutType, PushTimeoutEvent
    <3> QED  BY <3>1, <3>2, <1>13 DEF PushTimeoutEvent, EventId
  <2>3. list_torn' \in BOOLEAN
    BY <1>13 DEF TimeoutType, PushTimeoutEvent
  <2>4. TimeoutType'
    BY <2>2, <2>3 DEF TimeoutType
  <2> QED  BY <1>13, <2>4, <1>2, <1>3, <1>4, <1>5, <1>6, <1>7, <1>9
           DEF PushTimeoutEvent, CallerSteps
<1>14. ASSUME NEW c \in Callers, 
              \/ SendFails(c) \/ ReturnWithoutWait(c) \/ EnterWait(c)
              \/ SpuriousWake(c) \/ Wake(c)
       PROVE  TypeOK' /\ ThreadsInv'
  <2>1. /\ call_pc[c] # "idle"
        /\ \E step \in CallerSteps : call_pc' = [call_pc EXCEPT ![c] = step]
        /\ returned' = returned \/ returned' = returned \cup {current[c]}
        /\ UNCHANGED <<current, request_id, request_callback, timeouts,
                      already_callback_queue, requests, network, parsers, workers>>
    BY <1>14 DEF SendFails, ReturnWithoutWait, EnterWait, SpuriousWake, Wake,
                 Return, CallerSteps
  <2> QED  BY <2>1, <1>1, <1>2, <1>3, <1>4, <1>5, <1>6, <1>7, <1>9
<1>15. ASSUME NEW id \in Requests, StartCancel(id)
       PROVE  TypeOK' /\ ThreadsInv'
  <2>1. PendingType' /\ RequestType'
    BY <1>15 DEF StartCancel, PendingType, RequestType
  <2> QED  BY <1>15, <2>1, <1>0, <1>1, <1>4, <1>5, <1>8 DEF StartCancel
<1>16. CASE DeadlinePasses
  <2>1. TimeoutType'
    BY <1>16 DEF DeadlinePasses, TimeoutType
  <2> QED  BY <1>16, <2>1, <1>0, <1>2, <1>3, <1>4, <1>5, <1>8 DEF DeadlinePasses
<1>17. ASSUME NEW id \in Requests, NEW verdict \in {"ok", "error"},
              Answer(id, verdict)
       PROVE  TypeOK' /\ ThreadsInv'
  <2>1. [id |-> id, verdict |-> verdict] \in Packet
    BY DEF Packet
  <2>2. packet_queue' \in Seq(Packet)
    BY <1>17, <2>1 DEF NetworkType, Answer
  <2>3. unanswered' \in [Requests -> 0..MaxAnswers]
    BY <1>17 DEF NetworkType, Answer
  <2> QED  BY <1>17, <2>2, <2>3, <1>0, <1>1, <1>2, <1>3, <1>5, <1>8
           DEF NetworkType, Answer
<1>18. ASSUME NEW p \in ParseThreads, Fetch(p)
       PROVE  TypeOK' /\ ThreadsInv'
  <2>1. /\ packet_queue' \in Seq(Packet)
        /\ FirstOf(packet_queue, ParseNum) \in Seq(Packet)
    BY <1>18, BatchElements DEF NetworkType, Fetch
  <2>2. ThreadType'
    BY <1>18, <2>1 DEF ThreadType, Fetch
  <2> QED  BY <1>18, <2>1, <2>2, <1>0, <1>1, <1>2, <1>3, <1>8 DEF NetworkType, Fetch
<1>19. ASSUME NEW p \in ParseThreads, DoRequestPacket(p)
       PROVE  TypeOK' /\ ThreadsInv'
  <2>1. Head(packets[p]) \in Packet /\ Tail(packets[p]) \in Seq(Packet)
    BY <1>19, TailElements DEF ThreadType, DoRequestPacket
  <2>2. ThreadType'
    BY <1>19, <2>1 DEF ThreadType, DoRequestPacket
  <2>3. Head(packets[p]).verdict \in Verdicts
    BY <2>1 DEF Packet, Verdicts
  <2>4. PendingType'
    <3> DEFINE id == AsInt(Head(packets[p]).id)
    <3>1. CASE id \in request_callback
      <4>1. id \in Requests
        BY <3>1 DEF PendingType
      <4> QED  BY <4>1, <3>1, <2>3, <1>19, CompleteType DEF DoRequestPacket
    <3>2. CASE id \notin request_callback
      BY <3>2, <1>19, <1>2 DEF DoRequestPacket
    <3> QED  BY <3>1, <3>2
  <2> QED  BY <1>19, <2>2, <2>4, <1>0, <1>1, <1>3, <1>4, <1>8 DEF DoRequestPacket
<1>20. ASSUME NEW p \in ParseThreads, ClearTimeoutRequest(p) \/ EndClear(p)
       PROVE  TypeOK' /\ ThreadsInv'
  <2>1. ThreadType'
    BY <1>20 DEF ThreadType, ClearTimeoutRequest, EndClear
  <2> QED  BY <1>20, <2>1, <1>0, <1>1, <1>2, <1>3, <1>4, <1>8
           DEF ClearTimeoutRequest, EndClear
<1>21. ASSUME NEW p \in ParseThreads, EraseTimeoutEvent(p)
       PROVE  TypeOK' /\ ThreadsInv'
  <2>1. timeout_events # <<>>
    BY <1>21 DEF TimeoutType, EraseTimeoutEvent
  <2>2. /\ timeout_events' \in Seq(Requests)
        /\ Len(timeout_events') = Len(timeout_events) - 1
    BY <1>21, <2>1 DEF TimeoutType, EraseTimeoutEvent
  <2>3. TimeoutType'
    BY <1>21, <2>2 DEF TimeoutType, EraseTimeoutEvent
  <2>4. PendingType'
    <3> DEFINE id == Head(timeout_events)
    <3>1. CASE id \in request_callback
      <4>1. id \in Requests /\ "timeout" \in Verdicts
        BY <3>1 DEF PendingType, Verdicts
      <4> QED  BY <4>1, <3>1, <1>21, CompleteType DEF EraseTimeoutEvent
    <3>2. CASE id \notin request_callback
      BY <3>2, <1>21, <1>2 DEF EraseTimeoutEvent
    <3> QED  BY <3>1, <3>2
  <2> QED  BY <1>21, <2>3, <2>4, <1>0, <1>3, <1>4, <1>5, <1>8 DEF EraseTimeoutEvent
<1>22. ASSUME NEW w \in WorkThreads, Pop(w)
       PROVE  TypeOK' /\ ThreadsInv'
  <2>1. /\ already_callback_queue' \in Seq(Requests)
        /\ FirstOf(already_callback_queue, DealNum) \in Seq(Requests)
        /\ FirstOf(already_callback_queue, DealNum) # <<>>
    BY <1>22, BatchElements DEF PendingType, Pop
  <2>2. ThreadType'
    BY <1>22, <2>1 DEF ThreadType, Pop
  <2>3. PendingType'
    BY <1>22, <2>1 DEF PendingType, Pop
  <2>4. ThreadsInv'
    BY <1>22, <2>1 DEF ThreadsInv, ThreadType, Pop
  <2> QED  BY <1>22, <2>2, <2>3, <2>4, <1>0, <1>1, <1>3, <1>4 DEF Pop
<1>23. ASSUME NEW w \in WorkThreads, Call(w)
       PROVE  TypeOK' /\ ThreadsInv'
  <2>1. ClientType'
    BY <1>23 DEF Call, ClientType, CallerSteps
  <2>2. RequestType'
    <3>1. calls' \in [Requests -> Nat]
      <4> DEFINE id == Head(request_queue[w])
      <4>1. calls' = [calls EXCEPT ![id] = calls[id] + 1]
        BY <1>23 DEF Call
      <4>2. request_queue[w] \in Seq(Requests) /\ request_queue[w] # <<>>
        BY <1>23 DEF Call, ThreadsInv, ThreadType
      <4>3. id \in Requests
        BY <4>2, TailElements
      <4> HIDE DEF id
      <4>4. calls \in [Requests -> Nat] /\ calls[id] + 1 \in Nat
        BY <4>3 DEF RequestType
      <4> QED  BY <4>1, <4>3, <4>4
    <3> QED  BY <3>1, <1>23 DEF Call, RequestType
  <2>3. ThreadType'
    BY <1>23 DEF Call, ThreadType
  <2>4. ThreadsInv'
    BY <1>23 DEF Call, ThreadsInv, ThreadType, ClientType
  <2> QED  BY <1>23, <2>1, <2>2, <2>3, <2>4, <1>1, <1>2, <1>4 DEF Call
<1>24. ASSUME NEW w \in WorkThreads, Delete(w)
       PROVE  TypeOK' /\ ThreadsInv'
  <2>1. /\ request_queue[w] \in Seq(Requests) /\ request_queue[w] # <<>>
    BY <1>24 DEF Delete, ThreadType, ThreadsInv
  <2>2. /\ Head(request_queue[w]) \in Requests
        /\ Tail(request_queue[w]) \in Seq(Requests)
        /\ Len(request_queue[w]) > 1 <=> Tail(request_queue[w]) # <<>>
    BY <2>1, TailElements
  <2>3. ThreadType'
    BY <1>24, <2>2 DEF Delete, ThreadType
  <2>4. RequestType'
    BY <1>24, <2>2 DEF Delete, RequestType
  <2>5. ThreadsInv'
    BY <1>24, <2>2 DEF Delete, ThreadsInv, ThreadType
  <2> QED  BY <1>24, <2>3, <2>4, <2>5, <1>0, <1>1, <1>2, <1>4 DEF Delete
<1>25. CASE UNCHANGED vars
  BY <1>25, <1>0, <1>1, <1>2, <1>3, <1>4, <1>5, <1>8 DEF vars
<1> QED  BY <1>10, <1>11, <1>12, <1>13, <1>14, <1>15, <1>16, <1>17, <1>18, <1>19,
            <1>20, <1>21, <1>22, <1>23, <1>24, <1>25
         DEF Next, ContinueCall, ParseThread, WorkThread

(* Every variable of the channel always has its type. *)
THEOREM TypeCorrect == Spec => []TypeOK
<1>1. Spec => [](TypeOK /\ ThreadsInv)
  BY TypeInit, TypeStep, PTL DEF Spec
<1> QED  BY <1>1, PTL
-----------------------------------------------------------------------------
(* The container of a callback.  A step either leaves the containers alone, *)
(* or moves one callback (a batch, in Pop) from one container to the next.  *)
LEMMA BatchedUnion ==
  /\ \A w \in WorkThreads : Batch(w) \subseteq Batched
  /\ \A id \in Batched : \E w \in WorkThreads : id \in Batch(w)
  BY DEF Batched

LEMMA InsertedFrame ==
  ASSUME UNCHANGED <<current, request_id>>,
         \A c \in Callers : call_pc[c] = "insert" <=> call_pc'[c] = "insert"
  PROVE  Inserted' = Inserted
  BY DEF Inserted

LEMMA PlaceFrame ==
  ASSUME OnePlace, PlaceInv, Inserted' = Inserted,
         UNCHANGED <<request_callback, already_callback_queue, request_queue,
                     work_pc, deleted, cancelled, calls, outcome>>
  PROVE  OnePlace' /\ PlaceInv'
<1>1. /\ Queued' = Queued /\ Batched' = Batched
      /\ \A w \in WorkThreads : Batch(w)' = Batch(w)
  BY DEF Queued, Batched, Batch
<1>2. OnePlace'
  BY <1>1 DEF OnePlace
<1>3. PlaceInv'
  BY <1>1 DEF PlaceInv, Untouched, Decided, Calling
<1> QED  BY <1>2, <1>3

LEMMA CompletePlace ==
  ASSUME TypeOK, OnePlace, PlaceInv, Inserted' = Inserted,
         NEW id \in request_callback, NEW verdict \in Verdicts, 
         Complete(id, verdict),
         UNCHANGED <<request_queue, work_pc, deleted, cancelled, calls>>
  PROVE  OnePlace' /\ PlaceInv'
<1>1. /\ id \in Requests /\ already_callback_queue \in Seq(Requests)
      /\ outcome \in [Requests -> Verdicts \cup {"none"}]
  BY DEF TypeOK, PendingType
<1>2. /\ request_callback' = request_callback \ {id}
      /\ already_callback_queue' = Append(already_callback_queue, id)
      /\ \A i \in Requests : outcome'[i] = IF i = id THEN verdict ELSE outcome[i]
  BY <1>1 DEF Complete
<1>3. /\ Batched' = Batched
      /\ \A w \in WorkThreads : Batch(w)' = Batch(w)
  BY DEF Batched, Batch
<1>4. id \notin Queued \cup Batched \cup deleted \cup cancelled /\ id \in Inserted
  BY DEF OnePlace
<1>5. Queued' = Queued \cup {id} /\ IsInjective(already_callback_queue')
  BY <1>1, <1>2, <1>4, AppendElement DEF Queued, OnePlace
<1>6. OnePlace'
  BY <1>2, <1>3, <1>4, <1>5 DEF OnePlace
<1>7. PlaceInv'
  <2>1. Decided(id, 0)'
    BY <1>1, <1>2 DEF PlaceInv, Untouched, Decided
  <2>2. \A i \in Requests \ {id} : outcome'[i] = outcome[i]
    BY <1>2
  <2>3. /\ Queued \subseteq Requests /\ deleted \subseteq Requests 
        /\ request_callback \subseteq Requests /\ cancelled \subseteq Requests
        /\ \A w \in WorkThreads : Batch(w) \subseteq Requests
    BY DEF TypeOK, PendingType, RequestType, ThreadType, Queued, Batch, Range
  <2>4. \A w \in WorkThreads : id \notin Batch(w)
    BY <1>4, BatchedUnion
  <2>5. \A i \in (Requests \ Inserted') \cup request_callback' \cup cancelled' : 
           Untouched(i)'
    BY <1>2, <1>4, <2>2, <2>3 DEF PlaceInv, Untouched
  <2>6. \A i \in Queued' : Decided(i, 0)'
    BY <1>4, <1>5, <2>1, <2>2, <2>3 DEF PlaceInv, Decided
  <2>7. \A w \in WorkThreads : \A i \in Batch(w)' : 
           Decided(i, IF Calling(w, i) THEN 1 ELSE 0)'
    BY <1>3, <2>2, <2>3, <2>4 DEF PlaceInv, Decided, Calling
  <2>8. \A i \in deleted' : Decided(i, 1)'
    BY <1>4, <2>2, <2>3 DEF PlaceInv, Decided
  <2> QED  BY <2>5, <2>6, <2>7, <2>8 DEF PlaceInv
<1> QED  BY <1>6, <1>7

THEOREM PlaceInit == Init => OnePlace /\ PlaceInv
<1> SUFFICES ASSUME Init PROVE OnePlace /\ PlaceInv
  OBVIOUS
<1>1. /\ Inserted = {} /\ Queued = {} /\ Batched = {} 
      /\ \A w \in WorkThreads : Batch(w) = {}
  BY DEF Init, Inserted, Queued, Batched, Batch, Range
<1>2. OnePlace
  BY <1>1 DEF Init, OnePlace, IsInjective
<1>3. PlaceInv
  BY <1>1 DEF Init, PlaceInv, Untouched
<1> QED  BY <1>2, <1>3

THEOREM PlaceStep == RequestInv /\ [Next]_vars => OnePlace' /\ PlaceInv'
<1> SUFFICES ASSUME TypeOK, ThreadsInv, OnePlace, PlaceInv, [Next]_vars
             PROVE  OnePlace' /\ PlaceInv'
  BY DEF RequestInv
<1> USE BoundsAssumption, BatchAssumption 
    DEF client, timeouts, requests, network, parsers, workers
<1> DEFINE Places == <<request_callback, already_callback_queue, request_queue,
                       work_pc, deleted, cancelled, calls, outcome>>
<1>1. /\ request_id \in Nat /\ \A c \in Callers : current[c] \in Nat
      /\ DOMAIN call_pc = Callers
  BY DEF TypeOK, ClientType
<1>2. /\ Queued \subseteq Requests /\ deleted \subseteq Requests 
      /\ request_callback \subseteq Requests /\ cancelled \subseteq Requests
      /\ Batched \subseteq Requests
  BY DEF TypeOK, PendingType, RequestType, ThreadType, Queued, Batched, Batch, Range
<1>3. ASSUME NEW c \in Callers, CallMethod(c)
      PROVE  OnePlace' /\ PlaceInv'
  <2>1. /\ request_id' = request_id + 1
        /\ \A d \in Callers : current'[d] = IF d = c THEN request_id + 1 
                                                 ELSE current[d]
        /\ \A d \in Callers : call_pc'[d] = IF d = c THEN "insert" ELSE call_pc[d]
        /\ call_pc[c] = "idle"
    BY <1>3 DEF CallMethod, TypeOK, ClientType
  <2>2. Inserted' = Inserted
    <3>1. request_id + 1 \notin Inserted'
      BY <2>1 DEF Inserted
    <3>2. \A id \in 1..request_id : id \in Inserted <=> id \in Inserted'
      BY <2>1, <1>1 DEF Inserted
    <3>3. /\ Inserted \subseteq 1..request_id
          /\ Inserted' \subseteq (1..request_id) \cup {request_id + 1}
      BY <2>1, <1>1 DEF Inserted
    <3> QED  BY <3>1, <3>2, <3>3
  <2> QED  BY <2>2, <1>3, PlaceFrame DEF CallMethod
<1>4. ASSUME NEW c \in Callers, InsertRequest(c)
      PROVE  OnePlace' /\ PlaceInv'
  <2> DEFINE id == current[c]
  <2>1. /\ call_pc[c] = "insert" /\ request_callback' = request_callback \cup {id}
        /\ \A d \in Callers : call_pc'[d] = IF d = c THEN "send" ELSE call_pc[d]
        /\ UNCHANGED <<current, request_id, already_callback_queue, request_queue,
                      work_pc, deleted, cancelled, calls, outcome>>
    BY <1>4 DEF InsertRequest, TypeOK, ClientType
  <2>2. id \in 1..request_id /\ id \in Requests /\ id \notin Inserted
    BY <2>1, <1>1 DEF ThreadsInv, Inserted, TypeOK, ClientType, Requests
  <2>3. Inserted' = Inserted \cup {id}
    <3>1. \A d \in Callers \ {c} : current[d] # id
      BY <2>2 DEF ThreadsInv
    <3> QED  BY <3>1, <2>1, <2>2 DEF Inserted
  <2>4. /\ Queued' = Queued /\ Batched' = Batched
        /\ \A w \in WorkThreads : Batch(w)' = Batch(w)
    BY <2>1 DEF Queued, Batched, Batch
  <2> HIDE DEF id
  <2>5. OnePlace'
    BY <2>1, <2>2, <2>3, <2>4 DEF OnePlace
  <2>6. PlaceInv'
    BY <2>1, <2>2, <2>3, <2>4 DEF PlaceInv, Untouched, Decided, Calling
  <2> QED  BY <2>5, <2>6
<1>5. ASSUME NEW c \in Callers, NEW step \in CallerSteps \ {"insert"}, 
             call_pc[c] # "insert", call_pc' = [call_pc EXCEPT ![c] = step],
             UNCHANGED <<current, request_id>>, UNCHANGED Places
      PROVE  OnePlace' /\ PlaceInv'
  <2>1. \A d \in Callers : call_pc[d] = "insert" <=> call_pc'[d] = "insert"
    BY <1>1, <1>5
  <2> QED  BY <2>1, <1>5, InsertedFrame, PlaceFrame
<1>6. ASSUME NEW c \in Callers, SendRequest(c) \/ PushTimeoutEvent(c)
      PROVE  OnePlace' /\ PlaceInv'
  BY <1>5, <1>6 DEF SendRequest, PushTimeoutEvent, CallerSteps
<1>7. ASSUME NEW c \in Callers, 
             \/ SendFails(c) \/ ReturnWithoutWait(c) \/ EnterWait(c)
             \/ SpuriousWake(c) \/ Wake(c)
      PROVE  OnePlace' /\ PlaceInv'
  BY <1>5, <1>7 DEF SendFails, ReturnWithoutWait, EnterWait, SpuriousWake, Wake,
                    Return, CallerSteps
<1>8. ASSUME UNCHANGED <<call_pc, current, request_id>>
      PROVE  Inserted' = Inserted
  BY <1>8 DEF Inserted
<1>9. ASSUME NEW id \in Requests, StartCancel(id)
      PROVE  OnePlace' /\ PlaceInv'
  <2>1. /\ id \in request_callback /\ request_callback' = request_callback \ {id}
        /\ cancelled' = cancelled \cup {id}
        /\ UNCHANGED <<already_callback_queue, request_queue, work_pc, deleted,
                      calls, outcome>>
    BY <1>9 DEF StartCancel
  <2>2. Inserted' = Inserted
    BY <1>8, <1>9 DEF StartCancel
  <2>3. /\ Queued' = Queued /\ Batched' = Batched
        /\ \A w \in WorkThreads : Batch(w)' = Batch(w)
    BY <2>1 DEF Queued, Batched, Batch
  <2>4. OnePlace'
    BY <2>1, <2>2, <2>3 DEF OnePlace
  <2>5. PlaceInv'
    BY <2>1, <2>2, <2>3 DEF PlaceInv, Untouched, Decided, Calling
  <2> QED  BY <2>4, <2>5
<1>10. CASE DeadlinePasses
  BY <1>8, <1>10, PlaceFrame DEF DeadlinePasses
<1>11. ASSUME NEW id \in Requests, NEW verdict \in {"ok", "error"},
              Answer(id, verdict)
       PROVE  OnePlace' /\ PlaceInv'
  BY <1>8, <1>11, PlaceFrame DEF Answer
<1>12. ASSUME NEW p \in ParseThreads, 
              Fetch(p) \/ ClearTimeoutRequest(p) \/ EndClear(p)
       PROVE  OnePlace' /\ PlaceInv'
  BY <1>8, <1>12, PlaceFrame DEF Fetch, ClearTimeoutRequest, EndClear
<1>13. ASSUME NEW p \in ParseThreads, DoRequestPacket(p)
       PROVE  OnePlace' /\ PlaceInv'
  <2> DEFINE id == AsInt(Head(packets[p]).id)
  <2>1. Inserted' = Inserted
    BY <1>8, <1>13 DEF DoRequestPacket
  <2>2. CASE id \in request_callback
    <3>1. Head(packets[p]) \in Packet
      BY <1>13, TailElements DEF TypeOK, ThreadType, DoRequestPacket
    <3>2. Head(packets[p]).verdict \in Verdicts
      BY <3>1 DEF Packet, Verdicts
    <3> QED  BY <2>1, <2>2, <3>2, <1>13, CompletePlace DEF DoRequestPacket
  <2>3. CASE id \notin request_callback
    BY <2>1, <2>3, <1>13, PlaceFrame DEF DoRequestPacket
  <2> QED  BY <2>2, <2>3
<1>14. ASSUME NEW p \in ParseThreads, EraseTimeoutEvent(p)
       PROVE  OnePlace' /\ PlaceInv'
  <2> DEFINE id == Head(timeout_events)
  <2>1. Inserted' = Inserted
    BY <1>8, <1>14 DEF EraseTimeoutEvent
  <2>2. CASE id \in request_callback
    <3>1. "timeout" \in Verdicts
      BY DEF Verdicts
    <3> QED  BY <2>1, <2>2, <3>1, <1>14, CompletePlace DEF EraseTimeoutEvent
  <2>3. CASE id \notin request_callback
    BY <2>1, <2>3, <1>14, PlaceFrame DEF EraseTimeoutEvent
  <2> QED  BY <2>2, <2>3
<1>15. ASSUME NEW w \in WorkThreads, Pop(w)
       PROVE  OnePlace' /\ PlaceInv'
  <2> DEFINE front == FirstOf(already_callback_queue, DealNum)
             rest == RestOf(already_callback_queue, DealNum)
  <2>1. /\ already_callback_queue' = rest
        /\ \A v \in WorkThreads : 
              request_queue'[v] = IF v = w THEN front ELSE request_queue[v]
        /\ \A v \in WorkThreads : work_pc'[v] = IF v = w THEN "call" ELSE work_pc[v]
        /\ request_queue[w] = <<>>
        /\ UNCHANGED <<request_callback, deleted, cancelled, calls, outcome>>
    BY <1>15 DEF Pop, TypeOK, ThreadType, ThreadsInv
  <2>2. Inserted' = Inserted
    BY <1>8, <1>15 DEF Pop
  <2>3. /\ IsInjective(front) /\ IsInjective(rest)
        /\ Range(front) \cap Range(rest) = {}
        /\ Queued = Range(front) \cup Range(rest)
    BY BatchElements DEF OnePlace, Queued, TypeOK, PendingType
  <2> HIDE DEF front, rest
  <2>4. /\ Queued' = Range(rest) /\ Batch(w)' = Range(front) /\ Batch(w) = {}
        /\ \A v \in WorkThreads \ {w} : Batch(v)' = Batch(v)
    BY <2>1 DEF Queued, Batch, Range
  <2>5. Batched' = Batched \cup Range(front)
    BY <2>4 DEF Batched
  <2>6. OnePlace'
    <3>1. \A v \in WorkThreads : IsInjective(request_queue'[v])
      BY <2>1, <2>3 DEF OnePlace
    <3>2. \A u, v \in WorkThreads : u # v => Batch(u)' \cap Batch(v)' = {}
      BY <2>3, <2>4, BatchedUnion DEF OnePlace
    <3> QED  BY <3>1, <3>2, <2>1, <2>2, <2>3, <2>4, <2>5 DEF OnePlace
  <2>7. PlaceInv'
    <3>1. \A id \in Batch(w)' : Decided(id, 0)' /\ ~Calling(w, id)'
      BY <2>1, <2>3, <2>4 DEF PlaceInv, Decided, Calling
    <3>2. \A v \in WorkThreads \ {w} : \A id \in Batch(v)' : 
             Decided(id, IF Calling(v, id) THEN 1 ELSE 0)'
      BY <2>1, <2>4 DEF PlaceInv, Decided, Calling
    <3>3. \A v \in WorkThreads : \A id \in Batch(v)' : 
             Decided(id, IF Calling(v, id) THEN 1 ELSE 0)'
      BY <3>1, <3>2
    <3>4. \A id \in Queued' : Decided(id, 0)'
      BY <2>1, <2>3, <2>4 DEF PlaceInv, Decided
    <3> QED  BY <3>3, <3>4, <2>1, <2>2 DEF PlaceInv, Untouched, Decided
  <2> QED  BY <2>6, <2>7
<1>16. ASSUME NEW w \in WorkThreads, Call(w)
       PROVE  OnePlace' /\ PlaceInv'
  <2> DEFINE head == Head(request_queue[w])
  <2>1. /\ request_queue[w] \in Seq(Requests) /\ request_queue[w] # <<>>
        /\ work_pc[w] = "call"
        /\ \A v \in WorkThreads : 
              work_pc'[v] = IF v = w THEN "delete" ELSE work_pc[v]
        /\ UNCHANGED <<request_callback, already_callback_queue, request_queue,
                      deleted, cancelled, outcome>>
    BY <1>16 DEF Call, TypeOK, ThreadType, ThreadsInv
  <2>2. head \in Requests /\ head \in Batch(w)
    BY <2>1, TailElements DEF Batch
  <2>3. \A id \in Requests : 
          calls'[id] = IF id = head THEN calls[id] + 1 ELSE calls[id]
    BY <1>16 DEF Call, TypeOK, RequestType
  <2>4. calls[head] = 0
    BY <2>1, <2>2 DEF PlaceInv, Decided, Calling
  <2>5. Inserted' = Inserted
    <3>1. \A c \in Callers : call_pc[c] = "insert" <=> call_pc'[c] = "insert"
      BY <1>16 DEF Call
    <3> QED  BY <3>1, <1>16, InsertedFrame DEF Call
  <2>6. /\ Queued' = Queued /\ Batched' = Batched
        /\ \A v \in WorkThreads : Batch(v)' = Batch(v)
    BY <2>1 DEF Queued, Batched, Batch
  <2>7. OnePlace'
    BY <2>1, <2>5, <2>6 DEF OnePlace
  <2>8. PlaceInv'
    <3>1. /\ head \notin Queued \cup deleted \cup cancelled \cup request_callback
          /\ head \in Inserted
          /\ \A v \in WorkThreads \ {w} : head \notin Batch(v)
      BY <2>2, BatchedUnion DEF OnePlace
    <3>2. \A id \in Requests \ {head} : calls'[id] = calls[id]
      BY <2>3
    <3>3. calls'[head] = 1
      BY <2>2, <2>3, <2>4
    <3>4. \A v \in WorkThreads : Batch(v) \subseteq Requests
      BY <1>2, BatchedUnion
    <3>5. Calling(w, head)' /\ head' = head
      BY <2>1 DEF Calling
    <3> HIDE DEF head
    <3>6. \A id \in Batch(w)' : Decided(id, IF Calling(w, id) THEN 1 ELSE 0)'
      <4>1. ASSUME NEW id \in Batch(w), id = head
            PROVE  Decided(id, IF Calling(w, id) THEN 1 ELSE 0)'
        BY <4>1, <2>1, <3>3, <3>5 DEF PlaceInv, Decided
      <4>2. ASSUME NEW id \in Batch(w), id # head
            PROVE  Decided(id, IF Calling(w, id) THEN 1 ELSE 0)'
        BY <4>2, <2>1, <3>2, <3>4 DEF PlaceInv, Decided, Calling, head
      <4> QED  BY <4>1, <4>2, <2>6
    <3>7. \A v \in WorkThreads \ {w} : \A id \in Batch(v)' : 
             Decided(id, IF Calling(v, id) THEN 1 ELSE 0)'
      BY <2>1, <2>6, <3>1, <3>2, <3>4 DEF PlaceInv, Decided, Calling
    <3>8. \A id \in Queued' : Decided(id, 0)'
      BY <1>2, <2>1, <2>6, <3>1, <3>2 DEF PlaceInv, Decided
    <3>9. \A id \in deleted' : Decided(id, 1)'
      BY <1>2, <2>1, <3>1, <3>2 DEF PlaceInv, Decided
    <3>10. \A id \in (Requests \ Inserted') \cup request_callback' \cup cancelled' : 
              Untouched(id)'
      BY <1>2, <2>1, <2>5, <3>1, <3>2 DEF PlaceInv, Untouched
    <3> QED  BY <3>6, <3>7, <3>8, <3>9, <3>10 DEF PlaceInv
  <2> QED  BY <2>7, <2>8
<1>17. ASSUME NEW w \in WorkThreads, Delete(w)
       PROVE  OnePlace' /\ PlaceInv'
  <2> DEFINE head == Head(request_queue[w])
             rest == Tail(request_queue[w])
  <2>1. /\ request_queue[w] \in Seq(Requests) /\ request_queue[w] # <<>>
        /\ work_pc[w] = "delete"
        /\ \A v \in WorkThreads : 
              request_queue'[v] = IF v = w THEN rest ELSE request_queue[v]
        /\ work_pc'[w] # "delete"
        /\ \A v \in WorkThreads \ {w} : work_pc'[v] = work_pc[v]
        /\ deleted' = deleted \cup {head}
        /\ UNCHANGED <<request_callback, already_callback_queue, cancelled,
                      calls, outcome>>
    BY <1>17 DEF Delete, TypeOK, ThreadType, ThreadsInv
  <2>2. Inserted' = Inserted
    BY <1>8, <1>17 DEF Delete
  <2>3. /\ Batch(w) = Range(rest) \cup {head} /\ head \notin Range(rest)
        /\ IsInjective(rest)
    BY <2>1, TailElements DEF OnePlace, Batch
  <2>4. Decided(head, 1)
    BY <2>1, <2>3 DEF PlaceInv, Calling
  <2>5. \A id \in Range(rest) : Decided(id, 0)
    BY <2>1, <2>3 DEF PlaceInv, Calling
  <2> HIDE DEF head, rest
  <2>6. /\ Queued' = Queued /\ Batch(w)' = Range(rest)
        /\ \A v \in WorkThreads \ {w} : Batch(v)' = Batch(v)
    BY <2>1 DEF Queued, Batch
  <2>7. Batched' = Batched \ {head} /\ head \in Batched
    <3>1. \A v \in WorkThreads \ {w} : head \notin Batch(v)
      BY <2>3 DEF OnePlace
    <3> QED  BY <3>1, <2>3, <2>6 DEF Batched
  <2>8. OnePlace'
    <3>1. \A v \in WorkThreads : IsInjective(request_queue'[v])
      BY <2>1, <2>3 DEF OnePlace
    <3>2. \A u, v \in WorkThreads : u # v => Batch(u)' \cap Batch(v)' = {}
      BY <2>3, <2>6 DEF OnePlace
    <3> QED  BY <3>1, <3>2, <2>1, <2>2, <2>6, <2>7 DEF OnePlace
  <2>9. PlaceInv'
    <3>1. \A id \in Batch(w)' : Decided(id, IF Calling(w, id) THEN 1 ELSE 0)'
      BY <2>1, <2>5, <2>6 DEF Decided, Calling
    <3>2. \A v \in WorkThreads \ {w} : \A id \in Batch(v)' : 
             Decided(id, IF Calling(v, id) THEN 1 ELSE 0)'
      BY <2>1, <2>6 DEF PlaceInv, Decided, Calling
    <3>3. \A id \in deleted' : Decided(id, 1)'
      BY <2>1, <2>4 DEF PlaceInv, Decided
    <3> QED  BY <3>1, <3>2, <3>3, <2>1, <2>2, <2>6 DEF PlaceInv, Untouched, Decided
  <2> QED  BY <2>8, <2>9
<1>18. CASE UNCHANGED vars
  BY <1>8, <1>18, PlaceFrame DEF vars
<1> QED  BY <1>3, <1>4, <1>6, <1>7, <1>9, <1>10, <1>11, <1>12, <1>13, <1>14, <1>15,
            <1>16, <1>17, <1>18 
         DEF Next, ContinueCall, ParseThread, WorkThread

THEOREM RequestInvariant == Spec => []RequestInv
<1>1. Init => RequestInv
  BY TypeInit, PlaceInit DEF RequestInv
<1>2. RequestInv /\ [Next]_vars => RequestInv'
  BY TypeStep, PlaceStep DEF RequestInv
<1> QED  BY <1>1, <1>2, PTL DEF Spec
-----------------------------------------------------------------------------
(* A callback that exists is in exactly one container of the channel.       *)
THEOREM EveryCallbackInOnePlace == Spec => []OnePlace
<1>1. RequestInv => OnePlace
  BY DEF RequestInv
<1> QED  BY <1>1, RequestInvariant, PTL

(* An id is in the map or not inserted, and its callback has not been       *)
(* called; or it waits in a queue, not called; or it was called once.       *)
LEMMA CallsBound == RequestInv => CalledAtMostOnce
<1> SUFFICES ASSUME RequestInv, NEW id \in Requests
             PROVE  calls[id] <= 1
  BY DEF CalledAtMostOnce
<1>1. CASE id \in (Requests \ Inserted) \cup request_callback \cup cancelled
  BY <1>1 DEF RequestInv, PlaceInv, Untouched
<1>2. CASE id \in Queued
  BY <1>2 DEF RequestInv, PlaceInv, Decided
<1>3. CASE id \in Batched
  <2>1. PICK w \in WorkThreads : id \in Batch(w)
    BY <1>3 DEF Batched
  <2> QED  BY <2>1 DEF RequestInv, PlaceInv, Decided
<1>4. CASE id \in deleted
  BY <1>4 DEF RequestInv, PlaceInv, Decided
<1> QED  BY <1>1, <1>2, <1>3, <1>4 DEF RequestInv, OnePlace

(* Answers, repeated answers, the deadline and a cancellation together call *)
(* a request back at most once.                                             *)
THEOREM NeverCalledTwice == Spec => []CalledAtMostOnce
  BY CallsBound, RequestInvariant, PTL

(* A cancelled request is never decided and never called back.              *)
THEOREM CancelledStaysCancelled == Spec => []CancelIsFinal
<1>1. RequestInv => CancelIsFinal
  BY DEF RequestInv, PlaceInv, CancelIsFinal, Untouched
<1> QED  BY <1>1, RequestInvariant, PTL
-----------------------------------------------------------------------------
(* Channel implements RequestLife: each step issues, decides, withdraws or  *)
(* delivers one request, or changes nothing that RequestLife speaks of.     *)
LEMMA CompleteDecides ==
  ASSUME TypeOK, PlaceInv, NEW id \in request_callback, 
         NEW verdict \in Verdicts, Complete(id, verdict), 
         UNCHANGED <<calls, cancelled>>
  PROVE  Life!Next
<1>1. id \in Requests /\ outcome[id] = "none"
  BY DEF TypeOK, PendingType, PlaceInv, Untouched
<1>2. Life!Decide(id, verdict) /\ verdict \in Life!Verdicts
  BY <1>1 DEF Life!Decide, Life!Undecided, Complete, Life!Verdicts, Verdicts
<1> QED  BY <1>1, <1>2 DEF Life!Next

LEMMA LifeStep == RequestInv /\ [Next]_vars => [Life!Next]_(Life!vars)
<1> SUFFICES ASSUME TypeOK, ThreadsInv, OnePlace, PlaceInv, Next
             PROVE  Life!Next \/ UNCHANGED Life!vars
  BY DEF RequestInv, vars, Life!vars, requests
<1> USE DEF requests
<1>1. ASSUME UNCHANGED <<request_callback, outcome, calls, cancelled>>
      PROVE  UNCHANGED Life!vars
  BY <1>1 DEF Life!vars
<1>2. ASSUME NEW c \in Callers, InsertRequest(c)
      PROVE  Life!Next
  <2>1. current[c] \in Requests /\ current[c] \notin Inserted
    BY <1>2 DEF InsertRequest, Inserted, ThreadsInv, TypeOK, ClientType, Requests
  <2>2. /\ outcome[current[c]] = "none"
        /\ current[c] \notin request_callback \cup cancelled
    BY <2>1 DEF PlaceInv, Untouched, OnePlace
  <2>3. Life!Issue(current[c])
    BY <1>2, <2>2 DEF Life!Issue, Life!Undecided, InsertRequest
  <2> QED  BY <2>1, <2>3 DEF Life!Next
<1>3. ASSUME NEW id \in Requests, StartCancel(id)
      PROVE  Life!Next
  <2>1. Life!Withdraw(id)
    BY <1>3 DEF Life!Withdraw, StartCancel
  <2> QED  BY <2>1 DEF Life!Next
<1>4. ASSUME NEW p \in ParseThreads, DoRequestPacket(p)
      PROVE  Life!Next \/ UNCHANGED Life!vars
  <2> DEFINE id == AsInt(Head(packets[p]).id)
  <2>1. CASE id \in request_callback
    <3>1. Head(packets[p]) \in Packet
      BY <1>4, TailElements DEF TypeOK, ThreadType, DoRequestPacket
    <3>2. Head(packets[p]).verdict \in Verdicts
      BY <3>1 DEF Packet, Verdicts
    <3> QED  BY <1>4, <2>1, <3>2, CompleteDecides DEF DoRequestPacket
  <2>2. CASE id \notin request_callback
    BY <1>1, <1>4, <2>2 DEF DoRequestPacket
  <2> QED  BY <2>1, <2>2
<1>5. ASSUME NEW p \in ParseThreads, EraseTimeoutEvent(p)
      PROVE  Life!Next \/ UNCHANGED Life!vars
  <2> DEFINE id == Head(timeout_events)
  <2>1. CASE id \in request_callback
    <3>1. "timeout" \in Verdicts
      BY DEF Verdicts
    <3> QED  BY <1>5, <2>1, <3>1, CompleteDecides DEF EraseTimeoutEvent
  <2>2. CASE id \notin request_callback
    BY <1>1, <1>5, <2>2 DEF EraseTimeoutEvent
  <2> QED  BY <2>1, <2>2
<1>6. ASSUME NEW w \in WorkThreads, Call(w)
      PROVE  Life!Next
  <2> DEFINE id == Head(request_queue[w])
  <2>1. /\ request_queue[w] \in Seq(Requests) /\ request_queue[w] # <<>>
        /\ work_pc[w] = "call"
    BY <1>6 DEF Call, TypeOK, ThreadType, ThreadsInv
  <2>2. id \in Requests /\ id \in Batch(w)
    BY <2>1, TailElements DEF Batch
  <2>3. calls[id] = 0 /\ outcome[id] \in Life!Verdicts
    BY <2>1, <2>2 DEF PlaceInv, Decided, Calling, Life!Verdicts, Verdicts
  <2>4. calls' = [calls EXCEPT ![id] = 1]
    BY <1>6, <2>3 DEF Call
  <2>5. Life!Deliver(id)
    BY <1>6, <2>3, <2>4 DEF Life!Deliver, Call
  <2> QED  BY <2>2, <2>5 DEF Life!Next
<1>7. ASSUME NEW c \in Callers,
             \/ CallMethod(c) \/ SendRequest(c) \/ SendFails(c)
             \/ PushTimeoutEvent(c) \/ ReturnWithoutWait(c) \/ EnterWait(c)
             \/ SpuriousWake(c) \/ Wake(c)
      PROVE  UNCHANGED Life!vars
  BY <1>1, <1>7 DEF CallMethod, SendRequest, SendFails, PushTimeoutEvent, 
                    ReturnWithoutWait, EnterWait, SpuriousWake, Wake
<1>8. ASSUME NEW id \in Requests, NEW verdict \in {"ok", "error"}, 
             Answer(id, verdict)
      PROVE  UNCHANGED Life!vars
  BY <1>1, <1>8 DEF Answer
<1>9. CASE DeadlinePasses
  BY <1>1, <1>9 DEF DeadlinePasses
<1>10. ASSUME NEW p \in ParseThreads, 
              Fetch(p) \/ ClearTimeoutRequest(p) \/ EndClear(p)
       PROVE  UNCHANGED Life!vars
  BY <1>1, <1>10 DEF Fetch, ClearTimeoutRequest, EndClear
<1>11. ASSUME NEW w \in WorkThreads, Pop(w) \/ Delete(w)
       PROVE  UNCHANGED Life!vars
  BY <1>1, <1>11 DEF Pop, Delete
<1> QED  BY <1>2, <1>3, <1>4, <1>5, <1>6, <1>7, <1>8, <1>9, <1>10, <1>11
         DEF Next, ContinueCall, ParseThread, WorkThread

(* Every behaviour of a channel is a life of its requests.                  *)
THEOREM ChannelImplementsRequestLife == Spec => LifeSpec
<1>1. Init => Life!Init
  BY DEF Init, Life!Init, Life!Undecided
<1>2. RequestInv /\ [Next]_vars => [Life!Next]_(Life!vars)
  BY LifeStep
<1> QED  BY <1>1, <1>2, RequestInvariant, PTL DEF Spec, LifeSpec, Life!Spec
-----------------------------------------------------------------------------
(* What a caller has got back, when every packet is sent and nothing but a  *)
(* notification wakes a waiter: its own request, called back before.        *)
ReliableWaits == ~SendMayFail /\ ~SpuriousWakeups

CallerInv ==
  /\ returned \subseteq 1..request_id
  /\ \A c \in Callers : current[c] > 0 => owner[current[c]] = c
  /\ \A c \in Callers : call_pc[c] = "woken" => calls[current[c]] > 0
  /\ \A id \in returned : owner[id] \in SyncCallers => calls[id] > 0

(* A callback that was called was decided before; it is deleted, or is the   *)
(* one that a work thread is about to delete.                               *)
LEMMA CalledIsFinished ==
  ASSUME RequestInv, NEW id \in Requests, calls[id] > 0
  PROVE  /\ Decided(id, 1)
         /\ id \in deleted \/ \E w \in WorkThreads : id \in Batch(w) /\ Calling(w, id)
<1>1. id \notin (Requests \ Inserted) \cup request_callback \cup cancelled
  BY DEF RequestInv, PlaceInv, Untouched
<1>2. id \notin Queued
  BY DEF RequestInv, PlaceInv, Decided
<1>3. id \in deleted \/ \E w \in WorkThreads : id \in Batch(w)
  BY <1>1, <1>2 DEF RequestInv, OnePlace, Batched
<1>4. CASE id \in deleted
  BY <1>4 DEF RequestInv, PlaceInv
<1>5. ASSUME NEW w \in WorkThreads, id \in Batch(w)
      PROVE  Calling(w, id) /\ Decided(id, 1)
  BY <1>5 DEF RequestInv, PlaceInv, Decided
<1> QED BY <1>3, <1>4, <1>5

LEMMA CallerStep ==
  ASSUME ReliableWaits, RequestInv, CallerInv, [Next]_vars
  PROVE  CallerInv'
<1> USE BoundsAssumption DEF client, timeouts, requests, network, parsers, workers
<1>t. /\ request_id \in Nat /\ \A c \in Callers : current[c] \in Nat /\ current[c] <= request_id
      /\ call_pc \in [Callers -> CallerSteps] /\ current \in [Callers -> 0..MaxRequests]
      /\ owner \in [Requests -> Callers \cup {NoCaller}] /\ calls \in [Requests -> Nat]
      /\ returned \subseteq Requests /\ request_id <= MaxRequests
      /\ \A c \in Callers : call_pc[c] # "idle" => current[c] \in Requests
  BY DEF RequestInv, TypeOK, ClientType, RequestType, ThreadsInv, Requests
(* Steps that wake and return nobody. *)
<1>1. ASSUME UNCHANGED <<current, returned, request_id, owner, calls>>,
             \A c \in Callers : call_pc'[c] = "woken" => call_pc[c] = "woken"
      PROVE  CallerInv'
  BY <1>1 DEF CallerInv
(* Steps of one caller that return nothing. *)
<1>2. ASSUME NEW c \in Callers, NEW step \in CallerSteps \ {"woken"},
             call_pc' = [call_pc EXCEPT ![c] = step], 
             UNCHANGED <<current, returned, request_id, owner, calls>>
      PROVE  CallerInv'
  <2>1. \A d \in Callers : call_pc'[d] = "woken" => call_pc[d] = "woken"
    BY <1>2, <1>t
  <2> QED  BY <1>2, <2>1, <1>1
(* A return, of a request that is not synchronous or was called back. *)
<1>3. ASSUME NEW c \in Callers, Return(c), call_pc[c] # "idle",
             c \in SyncCallers => calls[current[c]] > 0,
             UNCHANGED <<current, request_id, owner, calls>>
      PROVE  CallerInv'
  <2>1. /\ returned' = returned \cup {current[c]}
        /\ \A d \in Callers : call_pc'[d] = "woken" => call_pc[d] = "woken"
    BY <1>3, <1>t DEF Return
  <2>2. current[c] \in 1..request_id /\ owner[current[c]] = c
    BY <1>3, <1>t DEF CallerInv, Requests
  <2> QED  BY <1>3, <2>1, <2>2 DEF CallerInv
<1>4. ASSUME NEW c \in Callers, CallMethod(c)
      PROVE  CallerInv'
  <2>1. /\ request_id' = request_id + 1 /\ request_id + 1 \in Requests
        /\ \A d \in Callers : current'[d] = IF d = c THEN request_id + 1 ELSE current[d]
        /\ \A id \in Requests : owner'[id] = IF id = request_id + 1 THEN c ELSE owner[id]
        /\ \A d \in Callers : call_pc'[d] = "woken" => d # c /\ call_pc[d] = "woken"
        /\ UNCHANGED <<returned, calls>>
    BY <1>4, <1>t DEF CallMethod, Requests
  <2>2. returned' \subseteq 1..request_id'
    BY <2>1, <1>t DEF CallerInv
  <2>3. \A id \in returned' : owner'[id] = owner[id]
    BY <2>1, <1>t DEF CallerInv
  <2>4. ASSUME NEW d \in Callers, current'[d] > 0
        PROVE  owner'[current'[d]] = d
    <3>1. CASE d = c
      BY <3>1, <2>1
    <3>2. CASE d # c
      <4>1. current[d] \in Requests /\ current[d] # request_id + 1 /\ owner[current[d]] = d
        BY <3>2, <2>1, <2>4, <1>t DEF CallerInv, Requests
      <4> QED  BY <4>1, <3>2, <2>1
    <3> QED  BY <3>1, <3>2
  <2> QED  BY <2>1, <2>2, <2>3, <2>4 DEF CallerInv
<1>5. ASSUME NEW c \in Callers, \/ InsertRequest(c) \/ SendRequest(c) 
                                \/ PushTimeoutEvent(c) \/ EnterWait(c)
      PROVE  CallerInv'
  BY <1>5, <1>2 DEF InsertRequest, SendRequest, PushTimeoutEvent, EnterWait, CallerSteps
<1>6. ASSUME NEW c \in Callers, SendFails(c) \/ SpuriousWake(c)
      PROVE  CallerInv'
  BY <1>6 DEF SendFails, SpuriousWake, ReliableWaits
<1>7. ASSUME NEW c \in Callers, ReturnWithoutWait(c)
      PROVE  CallerInv'
  <2>1. c \in SyncCallers => current[c] \in deleted
    BY <1>7 DEF ReturnWithoutWait, SyncCondition
  <2>2. current[c] \in deleted => calls[current[c]] > 0
    BY DEF RequestInv, PlaceInv, Decided
  <2> QED  BY <1>7, <2>1, <2>2, <1>3 DEF ReturnWithoutWait
<1>8. ASSUME NEW c \in Callers, Wake(c)
      PROVE  CallerInv'
  <2>1. calls[current[c]] > 0
    BY <1>8 DEF Wake, CallerInv
  <2> QED  BY <1>8, <2>1, <1>3 DEF Wake
<1>9. ASSUME NEW w \in WorkThreads, Call(w)
      PROVE  CallerInv'
  <2> DEFINE id == Head(request_queue[w])
  <2>1. id \in Requests
    BY <1>9, TailElements DEF Call, RequestInv, TypeOK, ThreadType, ThreadsInv
  <2>2. /\ UNCHANGED <<current, returned, request_id, owner>>
        /\ \A i \in Requests : calls'[i] = IF i = id THEN calls[i] + 1 ELSE calls[i]
        /\ \A c \in Callers : call_pc'[c] = "woken" => call_pc[c] = "woken" \/ current[c] = id
    BY <1>9, <1>t DEF Call
  <2> HIDE DEF id
  <2>3. calls[id] \in Nat
    BY <2>1, <1>t
  <2>4. \A i \in Requests : calls[i] > 0 => calls'[i] > 0
    BY <2>2, <2>3
  <2>5. ASSUME NEW c \in Callers, call_pc'[c] = "woken"
        PROVE  calls'[current'[c]] > 0
    <3>1. CASE current[c] = id
      BY <3>1, <2>1, <2>2, <2>3
    <3>2. CASE call_pc[c] = "woken"
      BY <3>2, <2>2, <2>4, <1>t DEF CallerInv
    <3> QED  BY <3>1, <3>2, <2>2, <2>5
  <2> QED  BY <2>2, <2>4, <2>5, <1>t DEF CallerInv
<1>10. ASSUME UNCHANGED <<client, request_id, owner, calls>>
       PROVE  CallerInv'
  BY <1>10, <1>1
<1>11. ASSUME \/ \E i \in Requests : StartCancel(i)
              \/ \E i \in Requests, verdict \in {"ok", "error"} : Answer(i, verdict)
              \/ DeadlinePasses \/ \E p \in ParseThreads : ParseThread(p)
              \/ \E w \in WorkThreads : Pop(w) \/ Delete(w)
              \/ UNCHANGED vars
       PROVE  CallerInv'
  BY <1>10, <1>11 DEF StartCancel, Answer, DeadlinePasses, ParseThread, Fetch, 
                      DoRequestPacket, ClearTimeoutRequest, EraseTimeoutEvent, EndClear, Pop,
                      Delete, vars
<1> QED  BY <1>4, <1>5, <1>6, <1>7, <1>8, <1>9, <1>11 DEF Next, ContinueCall, WorkThread

(* A synchronous call that returns was decided and called back, and at most *)
(* the delete of its callback is left, however many callers and threads     *)
(* there are.                                                               *)
THEOREM ReturnedStaysFinished ==
  ASSUME ReliableWaits
  PROVE  Spec => []ReturnedIsFinished
<1>1. Init => CallerInv
  BY BoundsAssumption DEF Init, CallerInv
<1>2. RequestInv /\ CallerInv /\ [Next]_vars => CallerInv'
  BY CallerStep
<1>3. RequestInv /\ CallerInv => ReturnedIsFinished
  <2>1. RequestInv => returned \subseteq Requests
    BY DEF RequestInv, TypeOK, ClientType
  <2> QED  BY <2>1, CalledIsFinished DEF ReturnedIsFinished, CallerInv
<1> QED  BY <1>1, <1>2, <1>3, RequestInvariant, PTL DEF Spec
-----------------------------------------------------------------------------
(* One thread makes all calls, and every packet is sent.                    *)
OneCaller == ~SendMayFail /\ \A c, d \in Callers : c = d

(* So the counter, which is what the timeout event carries, still is the id *)
(* of the call in progress when the event is pushed.                        *)
DeadlineInv == DeadlineKept /\ \A c \in Callers : call_pc[c] # "idle" => current[c] = request_id

LEMMA DeadlineStep ==
  ASSUME OneCaller, RequestInv, DeadlineInv, [Next]_vars
  PROVE  DeadlineInv'
<1> USE BoundsAssumption DEF client, timeouts, requests, network, parsers, workers
<1>t. /\ request_id \in Nat /\ \A c \in Callers : current[c] \in Nat /\ current[c] <= request_id
      /\ call_pc \in [Callers -> CallerSteps] /\ current \in [Callers -> 0..MaxRequests]
      /\ timeout_events \in Seq(Requests) /\ request_id <= MaxRequests
      /\ \A c \in Callers : call_pc[c] # "idle" => current[c] \in Requests
  BY DEF RequestInv, TypeOK, ClientType, TimeoutType, ThreadsInv, Requests
<1> DEFINE InCall(id) == \E c \in Callers : /\ current[c] = id 
                                            /\ call_pc[c] \in {"insert", "send", "push"}
           Kept(id) == id \in Range(timeout_events) \/ InCall(id)
<1>1. /\ DeadlineKept <=> list_torn \/ \A id \in request_callback : Kept(id)
      /\ DeadlineKept' <=> list_torn' \/ \A id \in request_callback' : Kept(id)'
  BY DEF DeadlineKept, Waiting
(* Steps that add no request and take no event away. *)
<1>2. ASSUME request_callback' \subseteq request_callback, 
             UNCHANGED <<call_pc, current, request_id, timeout_events, list_torn>>
      PROVE  DeadlineInv'
  BY <1>1, <1>2 DEF DeadlineInv
<1>3. ASSUME NEW c \in Callers, CallMethod(c)
      PROVE  DeadlineInv'
  <2>1. /\ call_pc[c] = "idle" /\ \A d \in Callers : d = c
        /\ UNCHANGED <<request_callback, timeout_events, list_torn>>
        /\ request_id' = request_id + 1 /\ current'[c] = request_id + 1
    BY <1>3, <1>t DEF CallMethod, OneCaller
  <2>2. \A id : ~InCall(id)
    BY <2>1
  <2>3. DeadlineKept'
    BY <2>1, <2>2, <1>1 DEF DeadlineInv
  <2> QED  BY <2>1, <2>3 DEF DeadlineInv
<1>4. ASSUME NEW c \in Callers, InsertRequest(c)
      PROVE  DeadlineInv'
  <2>1. /\ call_pc[c] # "idle" /\ \A d \in Callers : d = c
        /\ UNCHANGED <<current, request_id, timeout_events, list_torn>>
        /\ request_callback' = request_callback \cup {current[c]}
        /\ call_pc'[c] = "send"
    BY <1>4, <1>t DEF InsertRequest, OneCaller
  <2>2. ASSUME NEW id, Kept(id) \/ id = current[c]
        PROVE  Kept(id)'
    BY <2>1, <2>2
  <2> QED  BY <2>1, <2>2, <1>1 DEF DeadlineInv
<1>5. ASSUME NEW c \in Callers, SendRequest(c)
      PROVE  DeadlineInv'
  <2>1. /\ call_pc[c] # "idle" /\ \A d \in Callers : d = c
        /\ UNCHANGED <<current, request_id, timeout_events, list_torn, request_callback>>
        /\ call_pc'[c] = "push"
    BY <1>5, <1>t DEF SendRequest, OneCaller
  <2>2. ASSUME NEW id, Kept(id)
        PROVE  Kept(id)'
    BY <2>1, <2>2
  <2> QED  BY <2>1, <2>2, <1>1 DEF DeadlineInv
(* The event that is pushed is that of the caller, or the list is torn. *)
<1>6. ASSUME NEW c \in Callers, PushTimeoutEvent(c)
      PROVE  DeadlineInv'
  <2>1. /\ call_pc[c] = "push" /\ current[c] = request_id /\ \A d \in Callers : d = c
        /\ UNCHANGED <<current, request_id, request_callback>>
        /\ call_pc'[c] = "wait"
    <3>1. /\ call_pc[c] = "push" /\ call_pc' = [call_pc EXCEPT ![c] = "wait"]
          /\ UNCHANGED <<current, request_id, request_callback>>
      BY <1>6 DEF PushTimeoutEvent
    <3>2. current[c] = request_id
      BY <3>1 DEF DeadlineInv
    <3> QED  BY <3>1, <3>2, <1>t DEF OneCaller
  <2>2. \/ list_torn'
        \/ list_torn' = list_torn /\ timeout_events' = Append(timeout_events, request_id)
    <3>1. PICK lost \in BOOLEAN :
            /\ timeout_events' = IF lost THEN timeout_events 
                                         ELSE Append(timeout_events, request_id)
            /\ list_torn' = (list_torn \/ lost)
      BY <1>6 DEF PushTimeoutEvent, EventId
    <3>2. list_torn \in BOOLEAN
      BY DEF RequestInv, TypeOK, TimeoutType
    <3> QED  BY <3>1, <3>2
  <2>3. CASE list_torn'
    BY <2>1, <2>3, <1>1 DEF DeadlineInv
  <2>4. CASE list_torn' = list_torn /\ timeout_events' = Append(timeout_events, request_id)
    <3>1. Range(timeout_events') = Range(timeout_events) \cup {request_id}
      BY <2>1, <2>4, <1>t, AppendElement
    <3>2. ASSUME NEW id, Kept(id)
          PROVE  Kept(id)'
      BY <2>1, <3>1, <3>2
    <3> QED  BY <2>1, <2>4, <3>2, <1>1 DEF DeadlineInv
  <2> QED  BY <2>2, <2>3, <2>4
<1>7. ASSUME NEW c \in Callers, 
             \/ ReturnWithoutWait(c) \/ EnterWait(c) \/ SpuriousWake(c) \/ Wake(c)
      PROVE  DeadlineInv'
  <2>1. /\ call_pc[c] \notin {"idle", "insert", "send", "push"} /\ \A d \in Callers : d = c
        /\ UNCHANGED <<current, request_id, timeout_events, list_torn, request_callback>>
    BY <1>7, <1>t DEF ReturnWithoutWait, EnterWait, SpuriousWake, Wake, OneCaller
  <2>2. ASSUME NEW id, Kept(id)
        PROVE  Kept(id)'
    BY <2>1, <2>2
  <2> QED  BY <2>1, <2>2, <1>1 DEF DeadlineInv
<1>8. ASSUME NEW c \in Callers, SendFails(c)
      PROVE  DeadlineInv'
  BY <1>8 DEF SendFails, OneCaller
(* A packet takes a request out of the map, or changes nothing here. *)
<1>9. ASSUME NEW p \in ParseThreads, DoRequestPacket(p)
      PROVE  DeadlineInv'
  BY <1>9, <1>2 DEF DoRequestPacket, Complete
(* An event that leaves the list takes its request out of the map. *)
<1>10. ASSUME NEW p \in ParseThreads, EraseTimeoutEvent(p)
       PROVE  DeadlineInv'
  <2> DEFINE first == Head(timeout_events)
  <2>1. timeout_events # <<>>
    BY <1>10 DEF EraseTimeoutEvent, RequestInv, TypeOK, TimeoutType
  <2>2. Range(timeout_events) = Range(Tail(timeout_events)) \cup {first}
    BY <2>1, <1>t, TailElements
  <2>3. /\ request_callback' = request_callback \ {first}
        /\ timeout_events' = Tail(timeout_events)
        /\ UNCHANGED <<call_pc, current, request_id, list_torn>>
    BY <1>10 DEF EraseTimeoutEvent, Complete
  <2> HIDE DEF first
  <2>4. ASSUME NEW id, Kept(id), id # first
        PROVE  Kept(id)'
    BY <2>2, <2>3, <2>4
  <2> QED  BY <2>3, <2>4, <1>1 DEF DeadlineInv
(* A woken caller is past its push. *)
<1>11. ASSUME NEW w \in WorkThreads, Call(w)
       PROVE  DeadlineInv'
  <2>1. /\ \A c \in Callers : \/ call_pc'[c] = call_pc[c]
                              \/ call_pc[c] = "waiting" /\ call_pc'[c] = "woken"
        /\ UNCHANGED <<current, request_id, timeout_events, list_torn, request_callback>>
    BY <1>11 DEF Call
  <2>2. ASSUME NEW id, Kept(id)
        PROVE  Kept(id)'
    BY <2>1, <2>2
  <2> QED  BY <2>1, <2>2, <1>1 DEF DeadlineInv
<1>12. ASSUME NEW id \in Requests, StartCancel(id)
       PROVE  DeadlineInv'
  BY <1>12, <1>2 DEF StartCancel
<1>13. ASSUME \/ \E i \in Requests, verdict \in {"ok", "error"} : Answer(i, verdict)
              \/ DeadlinePasses 
              \/ \E p \in ParseThreads : Fetch(p) \/ ClearTimeoutRequest(p) \/ EndClear(p)
              \/ \E w \in WorkThreads : Pop(w) \/ Delete(w)
              \/ UNCHANGED vars
       PROVE  DeadlineInv'
  BY <1>13, <1>2 DEF Answer, DeadlinePasses, Fetch, ClearTimeoutRequest, EndClear, Pop, 
                     Delete, vars
<1> QED  BY <1>3, <1>4, <1>5, <1>6, <1>7, <1>8, <1>9, <1>10, <1>11, <1>12, <1>13
         DEF Next, ContinueCall, ParseThread, WorkThread

(* With one thread that calls, every request that waits has its deadline,   *)
(* or the list was torn.                                                    *)
THEOREM DeadlineStaysKept ==
  ASSUME OneCaller
  PROVE  Spec => []DeadlineKept
<1>1. Init => DeadlineInv
  BY DEF Init, DeadlineInv, DeadlineKept, Waiting
<1>2. RequestInv /\ DeadlineInv /\ [Next]_vars => DeadlineInv'
  BY DeadlineStep
<1>3. DeadlineInv => DeadlineKept
  BY DEF DeadlineInv
<1> QED  BY <1>1, <1>2, <1>3, RequestInvariant, PTL DEF Spec
=============================================================================
