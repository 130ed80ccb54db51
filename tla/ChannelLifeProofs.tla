------------------------- MODULE ChannelLifeProofs -------------------------
(***************************************************************************)
(* Proofs about the life of a channel, for any number of starts, keys,     *)
(* threads, requests and notifications, and any batch sizes.               *)
(***************************************************************************)
EXTENDS ChannelLifeProperties, TLAPS

(* Facts about queues: appending, taking the head, splitting off a batch. *)
LEMMA AppendElement ==
  ASSUME NEW S, NEW s \in Seq(S), NEW e \in S
  PROVE  /\ Append(s, e) \in Seq(S)
         /\ Range(Append(s, e)) = Range(s) \cup {e}
         /\ IsInjective(s) /\ e \notin Range(s) => IsInjective(Append(s, e))
<1>1. /\ Append(s, e) \in Seq(S)
      /\ DOMAIN s = 1..Len(s) /\ Len(s) \in Nat
      /\ DOMAIN Append(s, e) = 1..(Len(s) + 1)
      /\ \A i \in 1..Len(s) : Append(s, e)[i] = s[i]
      /\ Append(s, e)[Len(s) + 1] = e
  OBVIOUS
<1>2. Range(Append(s, e)) = Range(s) \cup {e}
  <2>1. Range(Append(s, e)) \subseteq Range(s) \cup {e}
    BY <1>1 DEF Range
  <2>2. ASSUME NEW i \in 1..Len(s)
        PROVE  s[i] \in Range(Append(s, e))
    BY <1>1 DEF Range
  <2>3. e \in Range(Append(s, e))
    BY <1>1 DEF Range
  <2> QED  BY <2>1, <2>2, <2>3, <1>1 DEF Range
<1>3. ASSUME IsInjective(s), e \notin Range(s),
             NEW i \in 1..(Len(s) + 1), NEW j \in 1..(Len(s) + 1),
             Append(s, e)[i] = Append(s, e)[j]
      PROVE  i = j
  BY <1>1, <1>3 DEF IsInjective, Range
<1> QED  BY <1>1, <1>2, <1>3 DEF IsInjective

LEMMA TailElements ==
  ASSUME NEW S, NEW s \in Seq(S), s # <<>>
  PROVE  /\ Head(s) \in S
         /\ Tail(s) \in Seq(S)
         /\ Len(s) > 1 <=> Tail(s) # <<>>
         /\ Range(s) = Range(Tail(s)) \cup {Head(s)}
         /\ IsInjective(s) => /\ Head(s) \notin Range(Tail(s))
                              /\ IsInjective(Tail(s))
<1>1. /\ Head(s) = s[1] /\ Head(s) \in S
      /\ Tail(s) \in Seq(S)
      /\ Len(Tail(s)) = Len(s) - 1
      /\ Len(s) \in Nat /\ Len(s) > 0
      /\ \A i \in 1..(Len(s) - 1) : Tail(s)[i] = s[i + 1]
  OBVIOUS
<1>2. DOMAIN s = 1..Len(s) /\ DOMAIN Tail(s) = 1..(Len(s) - 1)
  BY <1>1
<1>3. Len(s) > 1 <=> Tail(s) # <<>>
  BY <1>1
<1>4. Range(s) = Range(Tail(s)) \cup {Head(s)}
  <2>1. ASSUME NEW i \in 1..Len(s)
        PROVE  s[i] \in Range(Tail(s)) \cup {Head(s)}
    <3>1. CASE i = 1  BY <3>1, <1>1
    <3>2. CASE i # 1
      <4>1. i - 1 \in DOMAIN Tail(s) /\ Tail(s)[i - 1] = s[i]
        BY <3>2, <1>1, <1>2
      <4> QED  BY <4>1 DEF Range
    <3> QED  BY <3>1, <3>2
  <2>2. ASSUME NEW i \in 1..(Len(s) - 1)
        PROVE  Tail(s)[i] \in Range(s)
    <3>1. i + 1 \in DOMAIN s /\ Tail(s)[i] = s[i + 1]  BY <1>1, <1>2
    <3> QED  BY <3>1 DEF Range
  <2>3. Head(s) \in Range(s)
    BY <1>1, <1>2 DEF Range
  <2> QED  BY <2>1, <2>2, <2>3, <1>2 DEF Range
<1>5. ASSUME IsInjective(s)
      PROVE  Head(s) \notin Range(Tail(s)) /\ IsInjective(Tail(s))
  <2>1. ASSUME NEW i \in 1..(Len(s) - 1)
        PROVE  Tail(s)[i] # Head(s)
    BY <1>1, <1>2, <1>5 DEF IsInjective
  <2>2. ASSUME NEW i \in 1..(Len(s) - 1), NEW j \in 1..(Len(s) - 1),
               Tail(s)[i] = Tail(s)[j]
        PROVE  i = j
    BY <2>2, <1>1, <1>2, <1>5 DEF IsInjective
  <2> QED  BY <2>1, <2>2, <1>2 DEF Range, IsInjective
<1> QED  BY <1>1, <1>3, <1>4, <1>5

LEMMA BatchElements ==
  ASSUME NEW S, NEW s \in Seq(S), NEW n \in Nat \ {0}
  PROVE  /\ FirstOf(s, n) \in Seq(S) /\ RestOf(s, n) \in Seq(S)
         /\ s # <<>> => FirstOf(s, n) # <<>>
         /\ Range(s) = Range(FirstOf(s, n)) \cup Range(RestOf(s, n))
         /\ IsInjective(s) => 
              /\ IsInjective(FirstOf(s, n)) /\ IsInjective(RestOf(s, n))
              /\ Range(FirstOf(s, n)) \cap Range(RestOf(s, n)) = {}
<1> DEFINE k == Smaller(n, Len(s))
           front == FirstOf(s, n)
           rest == RestOf(s, n)
<1>1. k \in 0..Len(s) /\ (s # <<>> => k > 0)
  BY DEF Smaller
<1>2. /\ front \in Seq(S) /\ Len(front) = k
      /\ \A i \in 1..k : front[i] = s[i]
  BY <1>1 DEF FirstOf
<1>3. /\ rest \in Seq(S) /\ Len(rest) = Len(s) - k
      /\ \A i \in 1..(Len(s) - k) : rest[i] = s[k + i]
  BY <1>1 DEF RestOf
<1>4. /\ DOMAIN s = 1..Len(s) /\ DOMAIN front = 1..k
      /\ DOMAIN rest = 1..(Len(s) - k)
  BY <1>2, <1>3
<1> HIDE DEF k, front, rest
<1>5. s # <<>> => front # <<>>
  BY <1>1, <1>2
<1>6. Range(s) = Range(front) \cup Range(rest)
  <2>1. ASSUME NEW i \in 1..Len(s)
        PROVE  s[i] \in Range(front) \cup Range(rest)
    <3>1. CASE i <= k
      BY <3>1, <1>1, <1>2, <1>4 DEF Range
    <3>2. CASE i > k
      <4>1. i - k \in DOMAIN rest /\ rest[i - k] = s[i]
        BY <3>2, <1>1, <1>3, <1>4
      <4> QED  BY <4>1 DEF Range
    <3> QED  BY <3>1, <3>2, <1>1
  <2>2. ASSUME NEW i \in 1..k
        PROVE  front[i] \in Range(s)
    BY <1>1, <1>2, <1>4 DEF Range
  <2>3. ASSUME NEW i \in 1..(Len(s) - k)
        PROVE  rest[i] \in Range(s)
    <3>1. k + i \in DOMAIN s /\ rest[i] = s[k + i]
      BY <1>1, <1>3, <1>4
    <3> QED  BY <3>1 DEF Range
  <2> QED  BY <2>1, <2>2, <2>3, <1>4 DEF Range
<1>7. ASSUME IsInjective(s)
      PROVE  /\ IsInjective(front) /\ IsInjective(rest)
             /\ Range(front) \cap Range(rest) = {}
  <2>1. IsInjective(front)
    BY <1>1, <1>2, <1>4, <1>7 DEF IsInjective
  <2>2. ASSUME NEW i \in 1..(Len(s) - k), NEW j \in 1..(Len(s) - k),
               rest[i] = rest[j]
        PROVE  i = j
    <3>1. /\ k + i \in DOMAIN s /\ s[k + i] = rest[i]
          /\ k + j \in DOMAIN s /\ s[k + j] = rest[j]
      BY <1>1, <1>3, <1>4
    <3>2. k + i = k + j
      BY <3>1, <2>2, <1>7 DEF IsInjective
    <3> QED  BY <3>2, <1>1
  <2>3. ASSUME NEW i \in 1..k, NEW j \in 1..(Len(s) - k)
        PROVE  front[i] # rest[j]
    <3>1. /\ i \in DOMAIN s /\ s[i] = front[i]
          /\ k + j \in DOMAIN s /\ s[k + j] = rest[j]
          /\ i # k + j
      BY <1>1, <1>2, <1>3, <1>4
    <3> QED  BY <3>1, <1>7 DEF IsInjective
  <2> QED  BY <2>1, <2>2, <2>3, <1>4 DEF IsInjective, Range
<1> QED  BY <1>2, <1>3, <1>5, <1>6, <1>7 DEF front, rest
-----------------------------------------------------------------------------
(* The type invariant, by what its parts are about. *)
OptionsOK ==
  /\ {init_success, run_thread} \subseteq BOOLEAN
  /\ rpc_net \in {"none", "up", "down", "deleted"}
  /\ register_callback \subseteq Keys
  /\ main \in {"free", "relock", "delete", "flag", "join", "gone"}
KindsOK == kinds \in Seq(Kinds) /\ Len(kinds) <= MaxIssued
CallsOK ==
  /\ timeout_events \in [Numbers -> Nat]
  /\ call_pc \in [Numbers -> {"none", "insert", "send", "push", "wait", "done", "crashed"}]
  /\ \A id \in Numbers : call_pc[id] # "none" => id \in Issued /\ kinds[id] \in Calls
SetsOK == {request_callback, unanswered, dropped,
           to_cancel, cancelled, abandoned, freed} \subseteq SUBSET Issued
QueuesOK == {already_callback_queue, packet_queue, called} \subseteq Seq(Issued)
ParsersOK == /\ parse_pc \in [ParseThreads -> {"fetch", "parse", "ended", "crashed"}]
             /\ packets \in [ParseThreads -> Seq(Issued)]
WorkersOK ==
  /\ work_pc \in [WorkThreads -> {"pop", "batch", "call", "delete", "ended"}]
  /\ request_queue \in [WorkThreads -> Seq(Issued)]
  /\ \A w \in WorkThreads : work_pc[w] \in {"call", "delete"} => request_queue[w] # <<>>
MisusedOK == misused \subseteq [id : Issued, by : {"SetFailed", "Call", "~ChannelCallback", "StartCancel", "caller"}]

LEMMA TypeParts ==
  TypeOK <=> /\ OptionsOK /\ KindsOK /\ CallsOK /\ SetsOK /\ QueuesOK
             /\ ParsersOK /\ WorkersOK /\ MisusedOK
BY DEF TypeOK, OptionsOK, KindsOK, CallsOK, SetsOK, QueuesOK, ParsersOK, WorkersOK, MisusedOK

(* What is issued gets the next number, and keeps its kind. *)
LEMMA IssueGrows ==
  ASSUME KindsOK, NEW kind \in Kinds, Issue(kind)
  PROVE  /\ KindsOK'
         /\ New \in Issued' /\ New \notin Issued /\ Issued' = Issued \cup {New}
         /\ kinds'[New] = kind
         /\ \A id \in Issued : kinds'[id] = kinds[id]
<1>1. /\ kinds \in Seq(Kinds) /\ Len(kinds) \in Nat /\ Len(kinds) < MaxIssued
      /\ kinds' = Append(kinds, kind)
  BY DEF Issue, KindsOK
<1>2. /\ kinds' \in Seq(Kinds) /\ Len(kinds') = Len(kinds) + 1
      /\ kinds'[Len(kinds) + 1] = kind
      /\ \A id \in 1..Len(kinds) : kinds'[id] = kinds[id]
  BY <1>1
<1>3. MaxIssued \in Nat
  BY LifeConstants
<1> QED  BY <1>1, <1>2, <1>3 DEF KindsOK, Issued, New

LEMMA OneMore ==
  ASSUME NEW f \in [Numbers -> Nat], NEW l
  PROVE  [f EXCEPT ![l] = @ + 1] \in [Numbers -> Nat]
<1> DEFINE g == [f EXCEPT ![l] = f[l] + 1]
<1>1. ASSUME NEW i \in Numbers
      PROVE  g[i] \in Nat
  <2>1. f[i] \in Nat
    OBVIOUS
  <2>2. g[i] = f[i] \/ (i = l /\ g[i] = f[i] + 1)
    OBVIOUS
  <2> QED  BY <2>1, <2>2
<1>2. g = [i \in Numbers |-> g[i]]
  OBVIOUS
<1> HIDE DEF g
<1>3. g \in [Numbers -> Nat]
  BY <1>1, <1>2
<1> QED  BY <1>3 DEF g

(* What is not changed keeps its type, as numbers are only added. *)
LEMMA KeepCalls ==
  ASSUME CallsOK, Issued \subseteq Issued', \A id \in Issued : kinds'[id] = kinds[id],
         UNCHANGED <<timeout_events, call_pc>>
  PROVE  CallsOK'
BY DEF CallsOK

LEMMA KeepSets ==
  ASSUME SetsOK, Issued \subseteq Issued',
         UNCHANGED <<request_callback, unanswered, dropped,
                     to_cancel, cancelled, abandoned, freed>>
  PROVE  SetsOK'
BY DEF SetsOK

LEMMA WiderSeq == ASSUME NEW S, NEW T, S \subseteq T, NEW s \in Seq(S)
                  PROVE  s \in Seq(T)
<1>1. /\ Len(s) \in Nat /\ DOMAIN s = 1..Len(s)
      /\ \A i \in 1..Len(s) : s[i] \in T
  OBVIOUS
<1>2. s = [i \in 1..Len(s) |-> s[i]]
  BY <1>1
<1> QED  BY <1>1, <1>2

LEMMA KeepQueues ==
  ASSUME QueuesOK, Issued \subseteq Issued',
         UNCHANGED <<already_callback_queue, packet_queue, called>>
  PROVE  QueuesOK'
BY WiderSeq DEF QueuesOK

LEMMA KeepParsers ==
  ASSUME ParsersOK, Issued \subseteq Issued', UNCHANGED parsers
  PROVE  ParsersOK'
BY WiderSeq DEF ParsersOK, parsers

LEMMA KeepWorkers ==
  ASSUME WorkersOK, Issued \subseteq Issued', UNCHANGED workers
  PROVE  WorkersOK'
BY WiderSeq DEF WorkersOK, workers

LEMMA KeepMisused ==
  ASSUME MisusedOK, Issued \subseteq Issued', UNCHANGED misused
  PROVE  MisusedOK'
BY DEF MisusedOK

LEMMA TouchType ==
  ASSUME MisusedOK, SetsOK, Issued \subseteq Issued', NEW ids,
         NEW by \in {"SetFailed", "Call", "~ChannelCallback", "StartCancel", "caller"},
         Touch(ids, by)
  PROVE  MisusedOK'
<1>1. freed \subseteq Issued
  BY DEF SetsOK
<1> QED  BY <1>1 DEF Touch, MisusedOK

THEOREM TypeInit == Init => TypeOK
<1> SUFFICES ASSUME Init PROVE TypeOK
  OBVIOUS
<1> USE DEF Init
<1>1. Issued = {}
  BY DEF Issued
<1>2. <<>> \in Seq(Issued) /\ <<>> \in Seq(Kinds)
  OBVIOUS
<1>3. OptionsOK /\ KindsOK
  <2>1. MaxIssued \in Nat
    BY LifeConstants
  <2>2. OptionsOK
    <3>1. init_success \in BOOLEAN /\ run_thread \in BOOLEAN
      BY Zenon
    <3>2. /\ rpc_net \in {"none", "up", "down", "deleted"}
          /\ main \in {"free", "relock", "delete", "flag", "join", "gone"}
          /\ register_callback \subseteq Keys
      OBVIOUS
    <3> HIDE DEF Init
    <3> QED  BY <3>1, <3>2 DEF OptionsOK
  <2>3. Len(kinds) = 0
    OBVIOUS
  <2> QED  BY <1>2, <2>1, <2>2, <2>3 DEF KindsOK
<1>4. SetsOK /\ QueuesOK /\ MisusedOK
  BY <1>2 DEF SetsOK, QueuesOK, MisusedOK
<1>5. ParsersOK /\ WorkersOK /\ CallsOK
  BY <1>2 DEF ParsersOK, WorkersOK, CallsOK
<1> QED  BY <1>3, <1>4, <1>5, TypeParts

THEOREM TypeStep == TypeOK /\ [Next]_vars => TypeOK'
<1> SUFFICES ASSUME OptionsOK, KindsOK, CallsOK, SetsOK, QueuesOK, ParsersOK, WorkersOK,
                    MisusedOK, [Next]_vars
             PROVE  /\ OptionsOK' /\ KindsOK' /\ CallsOK' /\ SetsOK' /\ QueuesOK'
                    /\ ParsersOK' /\ WorkersOK' /\ MisusedOK'
  BY DEF TypeOK, OptionsOK, KindsOK, CallsOK, SetsOK, QueuesOK, ParsersOK, WorkersOK, MisusedOK
<1> USE DEF options, client, requests, servers, parsers, workers, ends, cancels, memory
<1>a. ASSUME UNCHANGED kinds
      PROVE  KindsOK' /\ Issued' = Issued /\ Issued \subseteq Issued'
  BY <1>a DEF KindsOK, Issued
<1>b. ASSUME UNCHANGED <<options, register_callback, main>>
      PROVE  OptionsOK'
  BY <1>b DEF OptionsOK
<1>c. /\ packet_queue \in Seq(Issued) /\ already_callback_queue \in Seq(Issued)
      /\ called \in Seq(Issued)
      /\ \A p \in ParseThreads : packets[p] \in Seq(Issued)
      /\ \A w \in WorkThreads : request_queue[w] \in Seq(Issued)
  BY DEF QueuesOK, ParsersOK, WorkersOK
<1>d. ASSUME NEW s \in Seq(Issued) PROVE Range(s) \subseteq Issued
  <2>1. \A i \in 1..Len(s) : s[i] \in Issued
    OBVIOUS
  <2> QED  BY <2>1 DEF Range
<1>e. /\ ParseNum \in Nat \ {0} /\ DealNum \in Nat \ {0}
  BY LifeConstants
<1>f. ASSUME UNCHANGED <<kinds, timeout_events, call_pc>>
      PROVE  CallsOK'
  BY <1>a, <1>f, KeepCalls
<1>1. CASE StartRoute \/ StartFails
  <2>1. OptionsOK'
    BY <1>1 DEF StartRoute, StartFails, OptionsOK
  <2>2. ParsersOK' /\ WorkersOK'
    BY <1>1, <1>a DEF StartRoute, StartFails, ParsersOK, WorkersOK
  <2>3. UNCHANGED <<requests, already_callback_queue, call_pc, servers, packet_queue, ends,
                    cancels, memory>>
    BY <1>1 DEF StartRoute, StartFails
  <2> QED  BY <2>1, <2>2, <2>3, <1>a, <1>f, KeepSets, KeepQueues, KeepMisused
<1>2. CASE StopNet \/ ClearRunThread \/ Join \/ OnDisconnect
  <2>1. OptionsOK'
    BY <1>2 DEF StopNet, ClearRunThread, Join, OnDisconnect, OptionsOK
  <2>2. SetsOK'
    BY <1>2, <1>a DEF StopNet, ClearRunThread, Join, OnDisconnect, SetsOK
  <2>3. UNCHANGED <<kinds, already_callback_queue, called, packet_queue, parsers, workers, memory,
                    timeout_events, call_pc>>
    BY <1>2 DEF StopNet, ClearRunThread, Join, OnDisconnect
  <2> QED  BY <2>1, <2>2, <2>3, <1>a, <1>f, KeepQueues, KeepParsers, KeepWorkers, KeepMisused
<1>3. CASE DeleteNet
  <2>1. OptionsOK'
    BY <1>3 DEF DeleteNet, OptionsOK
  <2>2. SetsOK'
    BY <1>3, <1>a, <1>c, <1>d DEF DeleteNet, Dropping, SetsOK
  <2>3. <<>> \in Seq(Issued)
    OBVIOUS
  <2>4. QueuesOK'
    BY <1>3, <1>a, <2>3 DEF DeleteNet, QueuesOK
  <2>5. UNCHANGED <<kinds, timeout_events, call_pc, parsers, workers, memory>>
    BY <1>3 DEF DeleteNet
  <2> QED  BY <2>1, <2>2, <2>4, <2>5, <1>a, <1>f, KeepParsers, KeepWorkers, KeepMisused
<1>4. CASE Destroy
  <2>1. OptionsOK'
    BY <1>4 DEF Destroy, OptionsOK
  <2>2. SetsOK'
    BY <1>4, <1>a DEF Destroy, SetsOK, FreedWith
  <2>3. MisusedOK'
    BY <1>4, <1>a, TouchType DEF Destroy
  <2>4. UNCHANGED <<kinds, timeout_events, call_pc, already_callback_queue, called, packet_queue,
                    parsers, workers>>
    BY <1>4 DEF Destroy
  <2> QED  BY <2>1, <2>2, <2>3, <2>4, <1>a, <1>f, KeepQueues, KeepParsers, KeepWorkers
<1>5. ASSUME NEW kind \in Calls, CallMethod(kind)
      PROVE  /\ OptionsOK' /\ KindsOK' /\ CallsOK' /\ SetsOK' /\ QueuesOK'
             /\ ParsersOK' /\ WorkersOK' /\ MisusedOK'
  <2>1. kind \in Kinds /\ Issue(kind)
    BY <1>5 DEF CallMethod, Kinds
  <2>2. /\ KindsOK' /\ Issued' = Issued \cup {New} /\ kinds'[New] = kind
        /\ \A id \in Issued : kinds'[id] = kinds[id]
    BY <2>1, IssueGrows
  <2>3. UNCHANGED <<options, register_callback, main, already_callback_queue, called,
                    packet_queue, parsers, workers, misused, timeout_events, request_callback,
                    unanswered, dropped, cancels, memory>>
    BY <1>5 DEF CallMethod
  <2>4. CallsOK'
    <3>1. \A id \in Numbers : call_pc'[id] = IF id = New THEN "insert" ELSE call_pc[id]
      BY <1>5 DEF CallMethod, CallsOK
    <3>2. call_pc' \in [Numbers -> {"none", "insert", "send", "push", "wait", "done", "crashed"}]
      BY <1>5 DEF CallMethod, CallsOK
    <3> QED  BY <2>2, <2>3, <3>1, <3>2 DEF CallsOK
  <2> QED  BY <2>2, <2>3, <2>4, <1>b, KeepSets, KeepQueues, KeepParsers, KeepWorkers, KeepMisused
<1>6. ASSUME NEW k \in Keys, RegisterCallback(k)
      PROVE  /\ OptionsOK' /\ KindsOK' /\ CallsOK' /\ SetsOK' /\ QueuesOK'
             /\ ParsersOK' /\ WorkersOK' /\ MisusedOK'
  <2>1. OptionsOK'
    BY <1>6 DEF RegisterCallback, OptionsOK
  <2>2. UNCHANGED <<requests, already_callback_queue, call_pc, servers, packet_queue, parsers,
                    workers, ends, cancels, memory>>
    BY <1>6 DEF RegisterCallback
  <2> QED  BY <2>1, <2>2, <1>a, <1>f, KeepSets, KeepQueues, KeepParsers, KeepWorkers, KeepMisused
<1>7. ASSUME NEW k \in Keys, Notify(k)
      PROVE  /\ OptionsOK' /\ KindsOK' /\ CallsOK' /\ SetsOK' /\ QueuesOK'
             /\ ParsersOK' /\ WorkersOK' /\ MisusedOK'
  <2>1. k \in Kinds /\ Issue(k)
    BY <1>7 DEF Notify, Kinds
  <2>2. /\ KindsOK' /\ Issued' = Issued \cup {New}
        /\ \A id \in Issued : kinds'[id] = kinds[id]
    BY <2>1, IssueGrows
  <2>3. packet_queue' \in Seq(Issued')
    <3>1. packet_queue \in Seq(Issued') /\ New \in Issued'
      BY <2>2, <1>c, WiderSeq
    <3> QED  BY <3>1, <1>7, AppendElement DEF Notify
  <2>4. QueuesOK'
    BY <1>7, <2>2, <2>3, <1>c, WiderSeq DEF Notify, QueuesOK
  <2>5. UNCHANGED <<options, register_callback, requests, client, unanswered, parsers, workers,
                    ends, cancels, memory>>
    BY <1>7 DEF Notify
  <2> QED  BY <2>2, <2>4, <2>5, <1>b, KeepCalls, KeepSets, KeepParsers, KeepWorkers, KeepMisused
<1>8. ASSUME NEW id \in Numbers, Answer(id)
      PROVE  /\ OptionsOK' /\ KindsOK' /\ CallsOK' /\ SetsOK' /\ QueuesOK'
             /\ ParsersOK' /\ WorkersOK' /\ MisusedOK'
  <2>1. id \in Issued
    BY <1>8 DEF Answer, SetsOK
  <2>2. SetsOK' 
    BY <1>8, <1>a DEF Answer, SetsOK
  <2>3. QueuesOK'
    BY <1>8, <1>a, <1>c, <2>1, AppendElement DEF Answer, QueuesOK
  <2>4. UNCHANGED <<options, register_callback, client, timeout_events, kinds, parsers, workers,
                    memory>>
    BY <1>8 DEF Answer
  <2> QED  BY <2>2, <2>3, <2>4, <1>a, <1>b, <1>f, KeepParsers, KeepWorkers, KeepMisused
<1>9. ASSUME NEW id \in Numbers, WantToCancel(id) \/ StartCancel(id)
      PROVE  /\ OptionsOK' /\ KindsOK' /\ CallsOK' /\ SetsOK' /\ QueuesOK'
             /\ ParsersOK' /\ WorkersOK' /\ MisusedOK'
  <2>1. UNCHANGED <<options, register_callback, client, servers, timeout_events,
                    already_callback_queue, called, packet_queue, parsers, workers>>
    BY <1>9 DEF WantToCancel, StartCancel
  <2>2. MisusedOK'
    <3>1. CASE WantToCancel(id)
      BY <3>1, <2>1, <1>a, KeepMisused DEF WantToCancel
    <3>2. CASE StartCancel(id)
      BY <3>2, <2>1, <1>a, TouchType DEF StartCancel
    <3> QED  BY <1>9, <3>1, <3>2
  <2>3. SetsOK'
    <3>1. CASE WantToCancel(id)
      <4>1. id \in Issued
        BY <3>1 DEF WantToCancel, Issued, Numbers, KindsOK
      <4> QED  BY <3>1, <4>1, <2>1, <1>a DEF WantToCancel, SetsOK
    <3>2. CASE StartCancel(id)
      <4>1. /\ to_cancel' \subseteq Issued /\ request_callback' \subseteq Issued
            /\ cancelled' \subseteq Issued
        BY <3>2 DEF StartCancel, SetsOK
      <4> QED  BY <3>2, <4>1, <2>1, <1>a DEF StartCancel, SetsOK
    <3> QED  BY <1>9, <3>1, <3>2
  <2> QED  BY <2>1, <2>2, <2>3, <1>a, <1>b, <1>f, KeepQueues, KeepParsers, KeepWorkers
<1>20. ASSUME NEW id \in Numbers, ContinueCall(id)
       PROVE  /\ OptionsOK' /\ KindsOK' /\ CallsOK' /\ SetsOK' /\ QueuesOK'
              /\ ParsersOK' /\ WorkersOK' /\ MisusedOK'
  <2> USE DEF ContinueCall, InsertRequest, SendRequest, SendFails, SendToNothing,
              PushTimeoutEvent, Return, Leave
  <2>1. UNCHANGED <<options, register_callback, main, kinds, already_callback_queue,
                    packet_queue, parsers, workers, ends, cancels>>
    BY <1>20
  <2>2. call_pc[id] # "none" /\ id \in Issued
    BY <1>20 DEF CallsOK
  <2>3. SetsOK'
    <3>1. /\ request_callback' \subseteq Issued /\ unanswered' \subseteq Issued
          /\ abandoned' \subseteq Issued /\ freed' \subseteq Issued
      BY <1>20, <2>2 DEF SetsOK
    <3> QED  BY <2>1, <3>1, <1>a DEF SetsOK
  <2>4. PICK at \in {"send", "push", "wait", "done", "crashed"} :
          call_pc' = [call_pc EXCEPT ![id] = at]
    BY <1>20
  <2>5. timeout_events' \in [Numbers -> Nat]
    <3>1. CASE UNCHANGED timeout_events
      BY <3>1 DEF CallsOK
    <3>2. CASE PushTimeoutEvent(id)
      <4>1. timeout_events' = [timeout_events EXCEPT ![Latest] = @ + 1]
        BY <3>2
      <4> QED  BY <4>1, OneMore DEF CallsOK
    <3>3. CASE InsertRequest(id) \/ SendRequest(id) \/ SendToNothing(id)
      BY <3>1, <3>3
    <3>4. CASE SendFails(id) \/ Return(id)
      <4>1. Leave(id)
        BY <3>4
      <4>2. UNCHANGED timeout_events
        BY <4>1
      <4> QED  BY <4>2, <3>1
    <3> QED  BY <1>20, <3>2, <3>3, <3>4
  <2>6. CallsOK'
    <3>1. call_pc' \in [Numbers -> {"none", "insert", "send", "push", "wait", "done", "crashed"}]
      BY <2>4 DEF CallsOK
    <3>2. \A i \in Numbers : call_pc'[i] # "none" => call_pc[i] # "none"
      BY <2>2, <2>4 DEF CallsOK
    <3> QED  BY <2>1, <2>5, <3>1, <3>2, <1>a DEF CallsOK
  <2>7. MisusedOK'
    <3>1. CASE UNCHANGED misused
      BY <3>1, <2>1, <1>a, KeepMisused
    <3>2. CASE Touch({id}, "caller")
      BY <3>2, <2>1, <1>a, TouchType
    <3> QED  BY <1>20, <3>1, <3>2
  <2> QED  BY <2>1, <2>3, <2>6, <2>7, <1>a, <1>b, KeepQueues, KeepParsers, KeepWorkers
<1>10. ASSUME NEW p \in ParseThreads, Fetch(p) \/ FetchFromNothing(p)
       PROVE  /\ OptionsOK' /\ KindsOK' /\ CallsOK' /\ SetsOK' /\ QueuesOK'
              /\ ParsersOK' /\ WorkersOK' /\ MisusedOK'
  <2>1. UNCHANGED <<options, register_callback, requests, already_callback_queue, client, servers,
                    workers, ends, cancels, memory>>
    BY <1>10 DEF Fetch, FetchFromNothing
  <2>2. FirstOf(packet_queue, ParseNum) \in Seq(Issued)
        /\ RestOf(packet_queue, ParseNum) \in Seq(Issued)
    BY <1>c, <1>e, BatchElements
  <2>3. QueuesOK'
    BY <1>10, <2>1, <2>2, <1>a DEF Fetch, FetchFromNothing, QueuesOK
  <2>4. ParsersOK'
    BY <1>10, <2>1, <2>2, <1>a DEF Fetch, FetchFromNothing, ParsersOK
  <2> QED  BY <2>1, <2>3, <2>4, <1>a, <1>b, <1>f, KeepSets, KeepWorkers, KeepMisused
<1>11. ASSUME NEW p \in ParseThreads, DoRequestPacket(p) \/ DoRegisterPacket(p)
       PROVE  /\ OptionsOK' /\ KindsOK' /\ CallsOK' /\ SetsOK' /\ QueuesOK'
              /\ ParsersOK' /\ WorkersOK' /\ MisusedOK'
  <2>1. UNCHANGED <<options, register_callback, client, servers, packet_queue, parse_pc, workers,
                    called, cancels, abandoned, freed, timeout_events, call_pc>>
    BY <1>11 DEF DoRequestPacket, DoRegisterPacket, memory
  <2>2. PICK wanted : Hand(p, wanted)
    BY <1>11 DEF DoRequestPacket, DoRegisterPacket
  <2>3. packets[p] # <<>>
    BY <1>11 DEF DoRequestPacket, DoRegisterPacket, HasPacket
  <2>4. Head(packets[p]) \in Issued /\ Tail(packets[p]) \in Seq(Issued)
    BY <2>3, <1>c, TailElements
  <2>5. ParsersOK'
    BY <2>1, <2>2, <2>4, <1>a DEF Hand, ParsersOK
  <2>6. already_callback_queue' \in Seq(Issued) /\ dropped' \subseteq Issued
    <3>1. Append(already_callback_queue, Head(packets[p])) \in Seq(Issued)
      BY <2>4, <1>c, AppendElement
    <3> QED  BY <2>2, <2>4, <3>1, <1>c DEF Hand, Dropping, SetsOK
  <2>7. QueuesOK'
    BY <2>1, <2>6, <1>a DEF QueuesOK
  <2>8. request_callback' \subseteq Issued
    BY <1>11 DEF DoRequestPacket, DoRegisterPacket, SetsOK
  <2>9. SetsOK'
    BY <2>1, <2>6, <2>8, <1>a DEF SetsOK
  <2>10. MisusedOK'
    <3>1. CASE DoRequestPacket(p)
      BY <3>1, <2>1, <1>a, TouchType DEF DoRequestPacket
    <3>2. CASE DoRegisterPacket(p)
      BY <3>2, <2>1, <1>a, KeepMisused DEF DoRegisterPacket
    <3> QED  BY <1>11, <3>1, <3>2
  <2> QED  BY <2>1, <2>5, <2>7, <2>9, <2>10, <1>a, <1>b, <1>f, KeepWorkers
<1>12. ASSUME NEW p \in ParseThreads, ClearTimeoutRequest(p)
       PROVE  /\ OptionsOK' /\ KindsOK' /\ CallsOK' /\ SetsOK' /\ QueuesOK'
              /\ ParsersOK' /\ WorkersOK' /\ MisusedOK'
  <2>1. UNCHANGED <<options, register_callback, client, servers, packet_queue, packets, workers,
                    ends, cancels, abandoned, freed>>
    BY <1>12 DEF ClearTimeoutRequest
  <2>2. PICK over \in {{}} \cup {{id} : id \in {i \in Numbers : timeout_events[i] > 0}} :
         /\ timeout_events' = [id \in Numbers |-> IF id \in over THEN timeout_events[id] - 1
                                                  ELSE timeout_events[id]]
         /\ request_callback' = request_callback \ over
         /\ Touch(over \cap request_callback, "SetFailed")
         /\ \/ /\ over \cap request_callback = {}
               /\ UNCHANGED already_callback_queue
            \/ \E id \in over \cap request_callback :
                 already_callback_queue' = Append(already_callback_queue, id)
    BY <1>12 DEF ClearTimeoutRequest
  <2>8. CallsOK'
    <3>1. \A id \in over : timeout_events[id] > 0
      BY <2>2
    <3>2. timeout_events' \in [Numbers -> Nat]
      BY <2>2, <3>1 DEF CallsOK
    <3> QED  BY <2>1, <3>2, <1>a DEF CallsOK
  <2>3. MisusedOK'
    BY <2>1, <2>2, <1>a, TouchType
  <2>4. SetsOK'
    BY <2>1, <2>2, <1>a DEF SetsOK
  <2>5. already_callback_queue' \in Seq(Issued)
    <3>1. request_callback \subseteq Issued
      BY DEF SetsOK
    <3>2. ASSUME NEW id \in Issued
          PROVE  Append(already_callback_queue, id) \in Seq(Issued)
      BY <1>c, AppendElement
    <3> QED  BY <2>2, <3>1, <3>2, <1>c
  <2>6. QueuesOK'
    BY <2>1, <2>5, <1>a DEF QueuesOK
  <2>7. ParsersOK'
    BY <1>12, <2>1, <1>a DEF ClearTimeoutRequest, ParsersOK
  <2> QED  BY <2>1, <2>3, <2>4, <2>6, <2>7, <2>8, <1>a, <1>b, KeepWorkers
<1>13. ASSUME NEW p \in ParseThreads, EndParse(p)
       PROVE  /\ OptionsOK' /\ KindsOK' /\ CallsOK' /\ SetsOK' /\ QueuesOK'
              /\ ParsersOK' /\ WorkersOK' /\ MisusedOK'
  <2>1. UNCHANGED <<options, register_callback, requests, already_callback_queue, client, servers,
                    packet_queue, workers, called, cancels, memory>>
    BY <1>13 DEF EndParse
  <2>2. dropped' \subseteq Issued
    BY <1>13, <1>c, <1>d DEF EndParse, Dropping, SetsOK
  <2>3. SetsOK'
    BY <2>1, <2>2, <1>a DEF SetsOK
  <2>4. <<>> \in Seq(Issued)
    OBVIOUS
  <2>5. ParsersOK'
    BY <1>13, <2>1, <2>4, <1>a DEF EndParse, ParsersOK
  <2> QED  BY <2>1, <2>3, <2>5, <1>a, <1>b, <1>f, KeepQueues, KeepWorkers, KeepMisused
<1>14. ASSUME NEW w \in WorkThreads, Pop(w)
       PROVE  /\ OptionsOK' /\ KindsOK' /\ CallsOK' /\ SetsOK' /\ QueuesOK'
              /\ ParsersOK' /\ WorkersOK' /\ MisusedOK'
  <2>1. UNCHANGED <<options, register_callback, requests, client, servers, packet_queue,
                    parsers, ends, cancels, memory>>
    BY <1>14 DEF Pop
  <2>2. FirstOf(already_callback_queue, DealNum) \in Seq(Issued)
        /\ RestOf(already_callback_queue, DealNum) \in Seq(Issued)
    BY <1>c, <1>e, BatchElements
  <2>3. QueuesOK'
    BY <1>14, <2>1, <2>2, <1>a DEF Pop, QueuesOK
  <2>4. WorkersOK'
    BY <1>14, <2>1, <2>2, <1>a DEF Pop, WorkersOK
  <2> QED  BY <2>1, <2>3, <2>4, <1>a, <1>b, <1>f, KeepSets, KeepParsers, KeepMisused
<1>15. ASSUME NEW w \in WorkThreads, Front(w) \/ EndWork(w)
       PROVE  /\ OptionsOK' /\ KindsOK' /\ CallsOK' /\ SetsOK' /\ QueuesOK'
              /\ ParsersOK' /\ WorkersOK' /\ MisusedOK'
  <2>1. UNCHANGED <<options, register_callback, requests, already_callback_queue, client, servers,
                    packet_queue, parsers, request_queue, ends, cancels, memory>>
    BY <1>15 DEF Front, EndWork
  <2>2. WorkersOK'
    BY <1>15, <2>1, <1>a DEF Front, EndWork, WorkersOK
  <2> QED  BY <2>1, <2>2, <1>a, <1>b, <1>f, KeepSets, KeepQueues, KeepParsers, KeepMisused
<1>16. ASSUME NEW w \in WorkThreads, Call(w)
       PROVE  /\ OptionsOK' /\ KindsOK' /\ CallsOK' /\ SetsOK' /\ QueuesOK'
              /\ ParsersOK' /\ WorkersOK' /\ MisusedOK'
  <2>1. UNCHANGED <<options, register_callback, requests, already_callback_queue, client, servers,
                    packet_queue, parsers, request_queue, dropped, cancels, abandoned, freed>>
    BY <1>16 DEF Call
  <2>2. request_queue[w] # <<>>
    BY <1>16 DEF Call, WorkersOK
  <2>3. called' \in Seq(Issued)
    BY <1>16, <2>2, <1>c, TailElements, AppendElement DEF Call
  <2>4. QueuesOK'
    BY <2>1, <2>3, <1>a DEF QueuesOK
  <2>5. WorkersOK'
    BY <1>16, <2>1, <2>2, <1>a DEF Call, WorkersOK
  <2>6. SetsOK'
    BY <2>1, <1>a DEF SetsOK
  <2>7. MisusedOK'
    BY <1>16, <2>1, <1>a, TouchType DEF Call
  <2> QED  BY <2>1, <2>4, <2>5, <2>6, <2>7, <1>a, <1>b, <1>f, KeepParsers
<1>17. ASSUME NEW w \in WorkThreads, Delete(w)
       PROVE  /\ OptionsOK' /\ KindsOK' /\ CallsOK' /\ SetsOK' /\ QueuesOK'
              /\ ParsersOK' /\ WorkersOK' /\ MisusedOK'
  <2>1. UNCHANGED <<options, register_callback, requests, already_callback_queue, client, servers,
                    packet_queue, parsers, ends, cancels, abandoned>>
    BY <1>17 DEF Delete
  <2>2. request_queue[w] # <<>>
    BY <1>17 DEF Delete, WorkersOK
  <2>3. Head(request_queue[w]) \in Issued /\ Tail(request_queue[w]) \in Seq(Issued)
    BY <2>2, <1>c, TailElements
  <2>4. freed' \subseteq Issued
    BY <1>17, <2>3 DEF Delete, FreedWith, SetsOK
  <2>5. SetsOK'
    BY <2>1, <2>4, <1>a DEF SetsOK
  <2>6. WorkersOK'
    BY <1>17, <2>1, <2>3, <1>a DEF Delete, WorkersOK
  <2>7. MisusedOK'
    BY <1>17, <2>1, <1>a, TouchType DEF Delete
  <2> QED  BY <2>1, <2>5, <2>6, <2>7, <1>a, <1>b, <1>f, KeepQueues, KeepParsers
<1>18. ASSUME NEW w \in WorkThreads, EndBatch(w)
       PROVE  /\ OptionsOK' /\ KindsOK' /\ CallsOK' /\ SetsOK' /\ QueuesOK'
              /\ ParsersOK' /\ WorkersOK' /\ MisusedOK'
  <2>1. UNCHANGED <<options, register_callback, requests, already_callback_queue, client, servers,
                    packet_queue, parsers, called, cancels, memory>>
    BY <1>18 DEF EndBatch
  <2>2. dropped' \subseteq Issued
    BY <1>18, <1>c, <1>d DEF EndBatch, SetsOK
  <2>3. SetsOK'
    BY <2>1, <2>2, <1>a DEF SetsOK
  <2>4. <<>> \in Seq(Issued)
    OBVIOUS
  <2>5. WorkersOK'
    BY <1>18, <2>1, <2>4, <1>a DEF EndBatch, WorkersOK
  <2> QED  BY <2>1, <2>3, <2>5, <1>a, <1>b, <1>f, KeepQueues, KeepParsers, KeepMisused
<1>19. CASE UNCHANGED vars
  BY <1>19, <1>a, <1>b, <1>f, KeepSets, KeepQueues, KeepParsers, KeepWorkers, KeepMisused DEF vars
<1> QED  BY <1>1, <1>2, <1>3, <1>4, <1>5, <1>6, <1>7, <1>8, <1>9, <1>10, <1>11, <1>12, <1>13,
            <1>14, <1>15, <1>16, <1>17, <1>18, <1>19, <1>20
         DEF Next, Stop, ParseThread, WorkThread

(* From its first start to its destructor every variable of a channel keeps *)
(* its type; all numbers that it holds have been issued.                    *)
THEOREM TypeCorrect == Spec => []TypeOK
<1> QED  BY TypeInit, TypeStep, PTL DEF Spec
-----------------------------------------------------------------------------
(* Threads run only while main is in Stop, or the channel is started; so    *)
(* main finds all of them ended before it starts or destroys the channel.   *)
Stopped == main = "gone" \/ (main = "free" /\ ~init_success)
ThreadsInv == /\ Stopped => ~run_thread /\ Joined
              /\ main = "join" => ~run_thread

(* What arrives, arrives once: packets are in the queue of the network or   *)
(* with one parse thread, and a request that is answered is not answered    *)
(* again; nothing answers one that was not sent.  A thread that has left     *)
(* packets unread finds that it must end.                                   *)
ArrivalInv ==
  /\ IsInjective(packet_queue)
  /\ \A p \in ParseThreads :
       /\ IsInjective(packets[p])
       /\ Parsed(p) \cap Range(packet_queue) = {}
       /\ parse_pc[p] # "parse" /\ packets[p] # <<>> => parse_pc[p] = "fetch" /\ ~run_thread
  /\ \A p, q \in ParseThreads : p # q => Parsed(p) \cap Parsed(q) = {}
  /\ unanswered \cap Arrived = {}
  /\ \A id \in Numbers : call_pc[id] \in {"insert", "send"} => id \notin unanswered \cup Arrived

(* What waits, or may be answered or cancelled, is a request; a work thread *)
(* that is not at a batch has none.                                         *)
WaitInv ==
  /\ \A id \in request_callback \cup unanswered \cup cancelled :
       kinds[id] \in Calls
  /\ \A w \in WorkThreads : work_pc[w] \in {"pop", "ended"} => request_queue[w] = <<>>

LifeInv == TypeOK /\ ThreadsInv /\ ArrivalInv /\ WaitInv /\ OnePlace
-----------------------------------------------------------------------------
LEMMA ThreadsInit == Init => ThreadsInv
BY DEF Init, ThreadsInv, Stopped, Joined

LEMMA ThreadsStep == TypeOK /\ ThreadsInv /\ [Next]_vars => ThreadsInv'
<1> SUFFICES ASSUME ParsersOK, WorkersOK, ThreadsInv, [Next]_vars
             PROVE  ThreadsInv'
  BY TypeParts
<1> USE DEF options, client, parsers, workers, ThreadsInv, Stopped
<1>a. ASSUME UNCHANGED <<init_success, run_thread, main, parse_pc, work_pc>>
      PROVE  ThreadsInv'
  BY <1>a DEF Joined
<1>b. ASSUME NEW p \in ParseThreads, parse_pc[p] # "ended",
             UNCHANGED <<init_success, run_thread, main>>
      PROVE  ThreadsInv'
  BY <1>b DEF Joined
<1>c. ASSUME NEW w \in WorkThreads, work_pc[w] # "ended",
             UNCHANGED <<init_success, run_thread, main>>
      PROVE  ThreadsInv'
  BY <1>c DEF Joined
<1>1. CASE StartRoute
  BY <1>1 DEF StartRoute
<1>2. CASE StartFails
  BY <1>2, <1>a DEF StartFails
<1>3. CASE StopNet \/ DeleteNet
  BY <1>3 DEF StopNet, DeleteNet
<1>4. CASE ClearRunThread
  BY <1>4 DEF ClearRunThread
<1>5. CASE Join
  BY <1>5 DEF Join, Joined
<1>6. CASE Destroy
  BY <1>6 DEF Destroy, Joined
<1>7. CASE OnDisconnect
  BY <1>7, <1>a DEF OnDisconnect
<1>8. ASSUME NEW kind \in Calls, CallMethod(kind)
      PROVE  ThreadsInv'
  BY <1>8, <1>a DEF CallMethod
<1>9. ASSUME NEW k \in Keys, RegisterCallback(k) \/ Notify(k)
      PROVE  ThreadsInv'
  BY <1>9, <1>a DEF RegisterCallback, Notify
<1>10. ASSUME NEW id \in Numbers,
              Answer(id) \/ ContinueCall(id) \/ WantToCancel(id) \/ StartCancel(id)
       PROVE  ThreadsInv'
  BY <1>10, <1>a DEF Answer, ContinueCall, InsertRequest, SendRequest, SendFails, SendToNothing,
                     PushTimeoutEvent, Return, Leave, WantToCancel, StartCancel
<1>11. ASSUME NEW p \in ParseThreads, ParseThread(p)
       PROVE  ThreadsInv'
  <2>1. parse_pc[p] # "ended" /\ UNCHANGED <<init_success, run_thread, main>>
    BY <1>11 DEF ParseThread, Fetch, FetchFromNothing, DoRequestPacket, DoRegisterPacket,
                 ClearTimeoutRequest, EndParse, HasPacket
  <2> QED  BY <2>1, <1>b
<1>12. ASSUME NEW w \in WorkThreads, WorkThread(w)
       PROVE  ThreadsInv'
  <2>1. work_pc[w] # "ended" /\ UNCHANGED <<init_success, run_thread, main>>
    BY <1>12 DEF WorkThread, Pop, Front, Call, Delete, EndBatch, EndWork
  <2> QED  BY <2>1, <1>c
<1>13. CASE UNCHANGED vars
  BY <1>13, <1>a DEF vars
<1> QED  BY <1>1, <1>2, <1>3, <1>4, <1>5, <1>6, <1>7, <1>8, <1>9, <1>10, <1>11, <1>12, <1>13
         DEF Next, Stop

(* Once Stop has returned nothing is called back: whoever calls is a work   *)
(* thread that has not ended.                                               *)
THEOREM StoppedIsQuiet == Spec => QuietWhenStopped
<1> DEFINE Quiet == called' # called => main # "gone" /\ (main = "free" => init_success)
<1>1. ThreadsInv /\ [Next]_vars => [Quiet]_vars
  <2> SUFFICES ASSUME ThreadsInv, Next, called' # called
               PROVE  ~Stopped
    BY DEF Stopped
  <2>1. PICK w \in WorkThreads : Call(w)
    BY DEF Next, Stop, ParseThread, WorkThread, StartRoute, StartFails, StopNet, DeleteNet,
           ClearRunThread, Join, Destroy, OnDisconnect, CallMethod, RegisterCallback, Notify,
           Answer, ContinueCall, InsertRequest, SendRequest, SendFails, SendToNothing,
           PushTimeoutEvent, Return, Leave, WantToCancel, StartCancel, Fetch, FetchFromNothing,
           DoRequestPacket, DoRegisterPacket, ClearTimeoutRequest, EndParse, Pop, Front, Delete,
           EndBatch, EndWork, ends
  <2>2. work_pc[w] = "call"
    BY <2>1 DEF Call
  <2> QED  BY <2>2 DEF ThreadsInv, Joined
<1> QED  BY <1>1, TypeInit, TypeStep, ThreadsInit, ThreadsStep, PTL DEF Spec, QuietWhenStopped
-----------------------------------------------------------------------------
(* The parts of OnePlace: nothing is forgotten, no two places have the same *)
(* callback, and no place has one twice.                                    *)
Somewhere ==
  \A id \in Issued :
    id \in Starting \cup request_callback \cup Queued \cup Batched \cup Called
             \cup dropped \cup cancelled \cup (Arrived \cap Unasked)
Apart ==
  /\ Starting \cap (request_callback \cup Queued \cup Batched \cup Called) = {}
  /\ request_callback \cap (Queued \cup Batched \cup Called) = {}
  /\ Queued \cap (Batched \cup Called) = {}
  /\ Batched \cap Called = {}
  /\ cancelled \cap (Starting \cup request_callback \cup Queued \cup Batched \cup Called) = {}
  /\ dropped \cap (Starting \cup request_callback \cup Queued \cup Batched \cup Called
                   \cup cancelled) = {}
  /\ Arrived \cap Unasked \cap (Queued \cup Batched \cup Called \cup dropped) = {}
Once == IsInjective(already_callback_queue) /\ IsInjective(called)
BatchesApart ==
  \A v, w \in WorkThreads : /\ IsInjective(Uncalled(v))
                            /\ v # w => Batch(v) \cap Batch(w) = {}

LEMMA PlaceParts == OnePlace <=> Somewhere /\ Apart /\ Once /\ BatchesApart
BY DEF OnePlace, Somewhere, Apart, Once, BatchesApart

LEMMA PlacePartsNext ==
  OnePlace' <=> Somewhere' /\ Apart' /\ Once' /\ BatchesApart'
BY DEF OnePlace, Somewhere, Apart, Once, BatchesApart

LEMMA RangeInS == ASSUME NEW S, NEW s \in Seq(S)
                  PROVE  Range(s) \subseteq S
<1>1. \A i \in 1..Len(s) : s[i] \in S
  OBVIOUS
<1> QED  BY <1>1 DEF Range

LEMMA EmptyRange == Range(<<>>) = {} /\ IsInjective(<<>>)
BY DEF Range, IsInjective

(* Whatever a place holds has been issued. *)
LEMMA PlacesHoldIssued ==
  ASSUME TypeOK
  PROVE  /\ Starting \cup request_callback \cup Queued \cup Batched \cup Called \subseteq Issued
         /\ Arrived \cup unanswered \cup cancelled \cup dropped \subseteq Issued
         /\ \A id \in Starting : kinds[id] \in Calls
         /\ \A p \in ParseThreads : packets[p] \in Seq(Issued) /\ Parsed(p) \subseteq Arrived
         /\ \A w \in WorkThreads :
              /\ request_queue[w] \in Seq(Issued)
              /\ Uncalled(w) \in Seq(Issued) /\ Batch(w) \subseteq Batched
         /\ already_callback_queue \in Seq(Issued) /\ packet_queue \in Seq(Issued)
         /\ called \in Seq(Issued)
<1>1. SetsOK /\ QueuesOK /\ ParsersOK /\ WorkersOK
  BY TypeParts
<1>2. /\ already_callback_queue \in Seq(Issued) /\ packet_queue \in Seq(Issued)
      /\ called \in Seq(Issued)
      /\ \A p \in ParseThreads : packets[p] \in Seq(Issued)
      /\ \A w \in WorkThreads : request_queue[w] \in Seq(Issued)
  BY <1>1 DEF QueuesOK, ParsersOK, WorkersOK
<1>3. \A w \in WorkThreads : Uncalled(w) \in Seq(Issued)
  <2> SUFFICES ASSUME NEW w \in WorkThreads PROVE Uncalled(w) \in Seq(Issued)
    OBVIOUS
  <2>1. CASE work_pc[w] = "delete"
    <3>1. request_queue[w] # <<>>
      BY <2>1, <1>1 DEF WorkersOK
    <3> QED  BY <3>1, <2>1, <1>2, TailElements DEF Uncalled
  <2>2. CASE work_pc[w] # "delete"
    BY <2>2, <1>2 DEF Uncalled
  <2> QED  BY <2>1, <2>2
<1>4. \A w \in WorkThreads : Batch(w) \subseteq Issued /\ Batch(w) \subseteq Batched
  BY <1>3, RangeInS DEF Batch, Batched
<1>5. Batched \subseteq Issued
  BY <1>4 DEF Batched
<1>6. \A p \in ParseThreads : Parsed(p) \subseteq Issued /\ Parsed(p) \subseteq Arrived
  BY <1>2, RangeInS DEF Parsed, Arrived
<1>7. Arrived \subseteq Issued
  BY <1>2, <1>6, RangeInS DEF Arrived
<1>8. Queued \subseteq Issued /\ Called \subseteq Issued
  BY <1>2, RangeInS DEF Queued, Called
<1>9. /\ request_callback \subseteq Issued /\ unanswered \subseteq Issued
      /\ cancelled \subseteq Issued /\ dropped \subseteq Issued
  BY <1>1 DEF SetsOK
<1>10. Starting \subseteq Issued /\ \A id \in Starting : kinds[id] \in Calls
  BY TypeParts DEF CallsOK, Starting
<1> QED  BY <1>2, <1>3, <1>4, <1>5, <1>6, <1>7, <1>8, <1>9, <1>10

LEMMA BatchedWhere == \A id : id \in Batched <=> \E w \in WorkThreads : id \in Batch(w)
BY DEF Batched
LEMMA ArrivedWhere ==
  \A id : id \in Arrived <=> \/ id \in Range(packet_queue)
                             \/ \E p \in ParseThreads : id \in Parsed(p)
BY DEF Arrived

(* The ways from place to place. *)
Moved ==
  /\ Starting' \subseteq Starting \cup {New}
  /\ request_callback' \subseteq request_callback \cup Starting
  /\ Arrived' \subseteq Arrived \cup unanswered \cup {New}
  /\ Queued' \subseteq Queued \cup request_callback \cup (Arrived \cap Unasked)
  /\ Batched' \subseteq Batched \cup Queued
  /\ Called \subseteq Called'
-----------------------------------------------------------------------------
(* Steps that leave what a place is made of alone. *)
LEMMA SameWorkers ==
  ASSUME UNCHANGED workers
  PROVE  /\ Batched' = Batched /\ \A w \in WorkThreads : Batch(w)' = Batch(w)
         /\ BatchesApart => BatchesApart'
BY DEF workers, Batched, Batch, Uncalled, BatchesApart

LEMMA SameArrived ==
  ASSUME UNCHANGED <<packet_queue, packets>>
  PROVE  Arrived' = Arrived /\ \A p \in ParseThreads : Parsed(p)' = Parsed(p)
BY DEF Arrived, Parsed

LEMMA SameArrivals ==
  ASSUME ArrivalInv, UNCHANGED <<packet_queue, packets>>, unanswered' \subseteq unanswered,
         \A id \in Numbers : call_pc'[id] \in {"insert", "send"} => call_pc[id] \in {"insert", "send"},
         \A p \in ParseThreads :
            parse_pc'[p] # "parse" /\ packets[p] # <<>> => parse_pc'[p] = "fetch" /\ ~run_thread'
  PROVE  ArrivalInv'
BY SameArrived DEF ArrivalInv

LEMMA SameCalls ==
  ASSUME \A id \in Numbers : call_pc'[id] = "insert" <=> call_pc[id] = "insert"
  PROVE  Starting' = Starting
BY DEF Starting

LEMMA SameKinds ==
  ASSUME UNCHANGED kinds
  PROVE  Issued' = Issued /\ Unasked' = Unasked
BY DEF Issued, Unasked

LEMMA StillPlaces ==
  ASSUME LifeInv,
         UNCHANGED <<kinds, request_callback, already_callback_queue, packet_queue, packets,
                     request_queue, called, dropped, cancelled>>,
         unanswered' \subseteq unanswered,
         \A id \in Numbers :
            call_pc'[id] # call_pc[id] => /\ call_pc[id] # "insert"
                                          /\ call_pc'[id] \notin {"insert", "send"},
         \A p \in ParseThreads :
            parse_pc'[p] # "parse" /\ packets[p] # <<>> => parse_pc'[p] = "fetch" /\ ~run_thread',
         \A w \in WorkThreads :
            /\ work_pc'[w] = "delete" <=> work_pc[w] = "delete"
            /\ work_pc'[w] \in {"pop", "ended"} => request_queue[w] = <<>>
  PROVE  ArrivalInv' /\ WaitInv' /\ OnePlace' /\ Moved
<1>1. ArrivalInv'
  BY SameArrivals DEF LifeInv
<1>2. WaitInv'
  BY DEF LifeInv, WaitInv
<1>3. \A w \in WorkThreads : Uncalled(w)' = Uncalled(w)
  BY DEF Uncalled
<1>4. \A w \in WorkThreads : Batch(w)' = Batch(w)
  BY <1>3 DEF Batch
<1>5. Batched' = Batched
  BY <1>4 DEF Batched
<1>6. BatchesApart'
  BY <1>3, <1>4, PlaceParts DEF LifeInv, BatchesApart
<1>7. Starting' = Starting
  BY SameCalls
<1>8. Arrived' = Arrived /\ Issued' = Issued /\ Unasked' = Unasked
  BY SameArrived, SameKinds
<1>9. Somewhere' /\ Apart' /\ Once'
  BY <1>5, <1>7, <1>8, PlaceParts DEF LifeInv, Somewhere, Apart, Once, Queued, Called
<1>10. Moved
  BY <1>5, <1>7, <1>8 DEF Moved, Queued, Called
<1> QED  BY <1>1, <1>2, <1>6, <1>9, <1>10, PlacePartsNext
(* A notification is none of the callbacks that callers and cancels handle. *)
LEMMA NeverUnasked ==
  ASSUME LifeInv
  PROVE  Unasked \cap (Starting \cup request_callback \cup cancelled) = {}
BY PlacesHoldIssued, LifeConstants DEF LifeInv, WaitInv, Unasked

-----------------------------------------------------------------------------
(* main and the client. *)
LEMMA StartPlace ==
  ASSUME LifeInv, StartRoute \/ StartFails
  PROVE  ArrivalInv' /\ WaitInv' /\ OnePlace' /\ Moved
<1> USE DEF options, client, requests, servers, parsers, workers, ends, cancels, memory
<1>1. CASE StartRoute
  <2>1. /\ \A p \in ParseThreads : parse_pc[p] = "ended"
        /\ \A w \in WorkThreads : work_pc[w] = "ended"
    BY <1>1 DEF StartRoute, LifeInv, ThreadsInv, Stopped, Joined
  <2>2. /\ \A p \in ParseThreads : packets[p] = <<>>
        /\ \A w \in WorkThreads : request_queue[w] = <<>>
    BY <2>1 DEF LifeInv, ArrivalInv, WaitInv
  <2>3. \A w \in WorkThreads : work_pc'[w] = "pop"
    BY <1>1 DEF StartRoute
  <2> QED  BY <1>1, <2>1, <2>2, <2>3, StillPlaces DEF StartRoute
<1>2. CASE StartFails
  BY <1>2, StillPlaces DEF StartFails, LifeInv, ArrivalInv, WaitInv
<1> QED  BY <1>1, <1>2

LEMMA StopPlace ==
  ASSUME LifeInv, StopNet \/ ClearRunThread \/ Join \/ OnDisconnect
  PROVE  ArrivalInv' /\ WaitInv' /\ OnePlace' /\ Moved
<1> USE DEF options, client, requests, servers, parsers, workers, ends, cancels, memory
<1>1. /\ UNCHANGED <<kinds, call_pc, request_callback, already_callback_queue, packet_queue, parsers,
                    workers, ends, cancels>>
      /\ unanswered' \subseteq unanswered
      /\ run_thread' => run_thread
  BY DEF StopNet, ClearRunThread, Join, OnDisconnect, LifeInv, TypeOK
<1> QED  BY <1>1, StillPlaces DEF LifeInv, ArrivalInv, WaitInv

LEMMA DeleteNetPlace ==
  ASSUME LifeInv, DeleteNet
  PROVE  ArrivalInv' /\ WaitInv' /\ OnePlace' /\ Moved
<1> USE DEF options, client, requests, servers, parsers, workers, ends, cancels, memory
<1>1. /\ UNCHANGED <<kinds, call_pc, request_callback, already_callback_queue, parsers, workers, called,
                    cancelled, unanswered, run_thread>>
      /\ packet_queue' = <<>>
      /\ dropped' = dropped \cup {id \in Range(packet_queue) : kinds[id] \in Keys}
  BY DEF DeleteNet, Dropping
<1>2. /\ Range(packet_queue') = {}
      /\ \A p \in ParseThreads : /\ Parsed(p)' = Parsed(p)
                                 /\ Parsed(p) \cap Range(packet_queue) = {}
  BY <1>1, EmptyRange DEF Parsed, LifeInv, ArrivalInv
<1>3. Arrived' = Arrived \ Range(packet_queue) /\ Range(packet_queue) \subseteq Arrived
  BY <1>2 DEF Arrived
<1>4. ArrivalInv'
  BY <1>1, <1>2, <1>3, EmptyRange DEF LifeInv, ArrivalInv
<1>5. WaitInv'
  BY <1>1 DEF LifeInv, WaitInv
<1>6. /\ Batched' = Batched /\ BatchesApart'
      /\ Issued' = Issued /\ Unasked' = Unasked /\ Starting' = Starting
  BY <1>1, SameWorkers, SameKinds, SameCalls, PlaceParts DEF LifeInv
<1>7. dropped' = dropped \cup (Range(packet_queue) \cap Unasked)
  BY <1>1, <1>3, PlacesHoldIssued DEF LifeInv, Unasked
<1>8. Somewhere' /\ Apart' /\ Once'
  BY <1>1, <1>3, <1>6, <1>7, NeverUnasked, PlaceParts
     DEF LifeInv, Somewhere, Apart, Once, Queued, Called
<1>9. Moved
  BY <1>1, <1>3, <1>6 DEF Moved, Queued, Called
<1> QED  BY <1>4, <1>5, <1>6, <1>8, <1>9, PlacePartsNext

LEMMA DestroyPlace ==
  ASSUME LifeInv, Destroy
  PROVE  ArrivalInv' /\ WaitInv' /\ OnePlace' /\ Moved
<1> USE DEF options, client, requests, servers, parsers, workers, ends, cancels, memory
<1>1. /\ UNCHANGED <<kinds, call_pc, already_callback_queue, parsers, packet_queue, workers, called,
                    cancelled, unanswered, run_thread>>
      /\ request_callback' = {} /\ dropped' = dropped \cup request_callback
  BY DEF Destroy
<1>2. ArrivalInv'
  BY <1>1, SameArrivals DEF LifeInv, ArrivalInv
<1>3. WaitInv'
  BY <1>1 DEF LifeInv, WaitInv
<1>4. /\ Batched' = Batched /\ BatchesApart' /\ Issued' = Issued /\ Unasked' = Unasked /\ Starting' = Starting
      /\ Arrived' = Arrived
  BY <1>1, SameWorkers, SameKinds, SameCalls, SameArrived, PlaceParts DEF LifeInv
<1>5. Somewhere' /\ Apart' /\ Once'
  BY <1>1, <1>4, NeverUnasked, PlaceParts DEF LifeInv, Somewhere, Apart, Once, Queued, Called
<1>6. Moved
  BY <1>1, <1>4 DEF Moved, Queued, Called
<1> QED  BY <1>6, <1>2, <1>3, <1>4, <1>5, PlacePartsNext

LEMMA CallMethodPlace ==
  ASSUME LifeInv, NEW kind \in Calls, CallMethod(kind)
  PROVE  ArrivalInv' /\ WaitInv' /\ OnePlace' /\ Moved
<1> USE DEF options, client, requests, servers, parsers, workers, ends, cancels, memory
<1>1. /\ UNCHANGED <<already_callback_queue, parsers, packet_queue, workers, ends, cancelled,
                    request_callback, unanswered, run_thread>>
      /\ call_pc' = [call_pc EXCEPT ![New] = "insert"]
      /\ Issue(kind)
  BY DEF CallMethod
<1>2. KindsOK /\ CallsOK /\ kind \in Kinds
  BY TypeParts DEF LifeInv, Kinds
<1>3. /\ New \notin Issued /\ Issued' = Issued \cup {New} /\ kinds'[New] = kind
      /\ \A id \in Issued : kinds'[id] = kinds[id]
  BY <1>1, <1>2, IssueGrows
<1>4. /\ Starting \cup request_callback \cup Queued \cup Batched \cup Called \subseteq Issued
      /\ Arrived \cup unanswered \cup cancelled \cup dropped \subseteq Issued
  BY PlacesHoldIssued DEF LifeInv
<1>5. Unasked' = Unasked
  BY <1>3, LifeConstants DEF Unasked
<1>6. /\ Batched' = Batched /\ BatchesApart'
      /\ Arrived' = Arrived /\ \A p \in ParseThreads : Parsed(p)' = Parsed(p)
  BY <1>1, SameWorkers, SameArrived, PlaceParts DEF LifeInv
<1>7. New \in Numbers
  BY <1>1, <1>2, LifeConstants DEF Issue, KindsOK, New, Numbers
<1>8. \A id \in Numbers : call_pc'[id] = IF id = New THEN "insert" ELSE call_pc[id]
  BY <1>1, <1>2 DEF CallsOK
<1>9. Starting' = Starting \cup {New}
  BY <1>7, <1>8 DEF Starting
<1>10. ArrivalInv'
  <2>1. \A id \in Numbers :
          call_pc'[id] \in {"insert", "send"} => id \notin unanswered' \cup Arrived'
    BY <1>1, <1>3, <1>4, <1>6, <1>8 DEF LifeInv, ArrivalInv
  <2> QED  BY <1>1, <1>6, <2>1 DEF LifeInv, ArrivalInv
<1>11. WaitInv'
  BY <1>1, <1>3, <1>4 DEF LifeInv, WaitInv
<1>12. Somewhere'
  <2> SUFFICES ASSUME NEW id \in Issued \cup {New}
               PROVE  id \in Starting' \cup request_callback' \cup Queued' \cup Batched' \cup Called'
                             \cup dropped' \cup cancelled' \cup (Arrived' \cap Unasked')
    BY <1>3 DEF Somewhere
  <2> QED  BY <1>1, <1>5, <1>6, <1>9, PlaceParts DEF LifeInv, Somewhere, Queued, Called
<1>13. Apart'
  BY <1>1, <1>3, <1>4, <1>5, <1>6, <1>9, PlaceParts DEF LifeInv, Apart, Queued, Called
<1>14. Once'
  BY <1>1, PlaceParts DEF LifeInv, Once
<1>15. Moved
  BY <1>1, <1>6, <1>9 DEF Moved, Queued, Called
<1> QED  BY <1>6, <1>10, <1>11, <1>12, <1>13, <1>14, <1>15, PlacePartsNext

LEMMA InsertPlace ==
  ASSUME LifeInv, NEW id \in Numbers, InsertRequest(id)
  PROVE  ArrivalInv' /\ WaitInv' /\ OnePlace' /\ Moved
<1> USE DEF options, client, requests, servers, parsers, workers, ends, cancels, memory
<1>1. /\ UNCHANGED <<kinds, already_callback_queue, parsers, packet_queue, workers, ends, cancelled,
                    unanswered, run_thread>>
      /\ call_pc[id] = "insert"
      /\ call_pc' = [call_pc EXCEPT ![id] = "send"]
      /\ request_callback' = request_callback \cup {id}
  BY DEF InsertRequest
<1>2. \A i \in Numbers : call_pc'[i] = IF i = id THEN "send" ELSE call_pc[i]
  BY <1>1, TypeParts DEF LifeInv, CallsOK
<1>3. id \in Starting /\ Starting' = Starting \ {id}
  BY <1>1, <1>2 DEF Starting
<1>4. kinds[id] \in Calls /\ id \notin Unasked
  BY <1>3, PlacesHoldIssued, LifeConstants DEF LifeInv, Unasked
<1>5. ArrivalInv'
  BY <1>1, <1>2, SameArrivals DEF LifeInv, ArrivalInv
<1>6. WaitInv'
  BY <1>1, <1>4 DEF LifeInv, WaitInv
<1>7. /\ Batched' = Batched /\ BatchesApart' /\ Issued' = Issued /\ Unasked' = Unasked
      /\ Arrived' = Arrived
  BY <1>1, SameWorkers, SameKinds, SameArrived, PlaceParts DEF LifeInv
<1>8. Somewhere' /\ Apart' /\ Once'
  BY <1>1, <1>3, <1>4, <1>7, PlaceParts DEF LifeInv, Somewhere, Apart, Once, Queued, Called
<1>9. Moved
  BY <1>1, <1>3, <1>7 DEF Moved, Queued, Called
<1> QED  BY <1>5, <1>6, <1>7, <1>8, <1>9, PlacePartsNext

LEMMA SendPlace ==
  ASSUME LifeInv, NEW id \in Numbers, SendRequest(id)
  PROVE  ArrivalInv' /\ WaitInv' /\ OnePlace' /\ Moved
<1> USE DEF options, client, requests, servers, parsers, workers, ends, cancels, memory
<1>1. /\ UNCHANGED <<kinds, already_callback_queue, parsers, packet_queue, workers, ends, cancelled,
                    request_callback, run_thread>>
      /\ call_pc[id] = "send"
      /\ call_pc' = [call_pc EXCEPT ![id] = "push"]
      /\ unanswered' = unanswered \cup {id}
  BY DEF SendRequest
<1>2. \A i \in Numbers : call_pc'[i] = IF i = id THEN "push" ELSE call_pc[i]
  BY <1>1, TypeParts DEF LifeInv, CallsOK
<1>3. kinds[id] \in Calls
  BY <1>1, TypeParts DEF LifeInv, CallsOK
<1>4. /\ Batched' = Batched /\ BatchesApart' /\ Issued' = Issued /\ Unasked' = Unasked
      /\ Arrived' = Arrived /\ \A p \in ParseThreads : Parsed(p)' = Parsed(p)
  BY <1>1, SameWorkers, SameKinds, SameArrived, PlaceParts DEF LifeInv
<1>5. Starting' = Starting
  BY <1>1, <1>2, SameCalls
<1>6. ArrivalInv'
  <2>1. id \notin Arrived
    BY <1>1 DEF LifeInv, ArrivalInv
  <2>2. /\ unanswered' \cap Arrived' = {}
        /\ \A i \in Numbers :
             call_pc'[i] \in {"insert", "send"} => i \notin unanswered' \cup Arrived'
    BY <1>1, <1>2, <1>4, <2>1 DEF LifeInv, ArrivalInv
  <2> QED  BY <1>1, <1>4, <2>2 DEF LifeInv, ArrivalInv
<1>7. WaitInv'
  BY <1>1, <1>3 DEF LifeInv, WaitInv
<1>8. Somewhere' /\ Apart' /\ Once'
  BY <1>1, <1>4, <1>5, PlaceParts DEF LifeInv, Somewhere, Apart, Once, Queued, Called
<1>9. Moved
  BY <1>1, <1>4, <1>5 DEF Moved, Queued, Called
<1> QED  BY <1>4, <1>6, <1>7, <1>8, <1>9, PlacePartsNext

LEMMA StartCancelPlace ==
  ASSUME LifeInv, NEW id \in Numbers, StartCancel(id)
  PROVE  ArrivalInv' /\ WaitInv' /\ OnePlace' /\ Moved
<1> USE DEF options, client, requests, servers, parsers, workers, ends, cancels, memory
<1>1. PICK read : /\ request_callback' = request_callback \ {read}
                  /\ cancelled' = cancelled \cup ({read} \cap request_callback)
  BY DEF StartCancel
<1>2. UNCHANGED <<kinds, call_pc, already_callback_queue, parsers, packet_queue, workers, ends,
                  unanswered, run_thread>>
  BY DEF StartCancel
<1>3. ArrivalInv'
  BY <1>2, SameArrivals DEF LifeInv, ArrivalInv
<1>4. WaitInv'
  BY <1>1, <1>2 DEF LifeInv, WaitInv
<1>5. /\ Batched' = Batched /\ BatchesApart' /\ Issued' = Issued /\ Unasked' = Unasked /\ Starting' = Starting
      /\ Arrived' = Arrived
  BY <1>2, SameWorkers, SameKinds, SameCalls, SameArrived, PlaceParts DEF LifeInv
<1>6. Somewhere' /\ Apart' /\ Once'
  BY <1>1, <1>2, <1>5, PlaceParts DEF LifeInv, Somewhere, Apart, Once, Queued, Called
<1>7. Moved
  BY <1>1, <1>2, <1>5 DEF Moved, Queued, Called
<1> QED  BY <1>7, <1>3, <1>4, <1>5, <1>6, PlacePartsNext
-----------------------------------------------------------------------------
(* What arrives. *)
LEMMA NotifyPlace ==
  ASSUME LifeInv, NEW k \in Keys, Notify(k)
  PROVE  ArrivalInv' /\ WaitInv' /\ OnePlace' /\ Moved
<1> USE DEF options, client, requests, servers, parsers, workers, ends, cancels, memory
<1>1. /\ UNCHANGED <<already_callback_queue, call_pc, parsers, request_callback, workers, ends,
                    cancelled, unanswered, run_thread>>
      /\ packet_queue' = Append(packet_queue, New)
      /\ Issue(k)
  BY DEF Notify
<1>2. KindsOK /\ k \in Kinds
  BY TypeParts DEF LifeInv, Kinds
<1>3. /\ New \notin Issued /\ Issued' = Issued \cup {New} /\ kinds'[New] = k
      /\ \A id \in Issued : kinds'[id] = kinds[id]
  BY <1>1, <1>2, IssueGrows
<1>4. /\ Starting \cup request_callback \cup Queued \cup Batched \cup Called \subseteq Issued
      /\ Arrived \cup unanswered \cup cancelled \cup dropped \subseteq Issued
      /\ packet_queue \in Seq(Issued)
  BY PlacesHoldIssued DEF LifeInv
<1>5. Unasked' = Unasked \cup {New}
  BY <1>3 DEF Unasked
<1>6. Batched' = Batched /\ BatchesApart' /\ Starting' = Starting
  BY <1>1, SameWorkers, SameCalls, PlaceParts DEF LifeInv
<1>7. Range(packet_queue) \subseteq Arrived /\ packet_queue \in Seq(Issued')
  BY <1>3, <1>4, WiderSeq DEF Arrived
<1>8. /\ Range(packet_queue') = Range(packet_queue) \cup {New}
      /\ IsInjective(packet_queue) => IsInjective(packet_queue')
  BY <1>1, <1>3, <1>4, <1>7, AppendElement
<1>9. /\ Arrived' = Arrived \cup {New}
      /\ \A p \in ParseThreads : Parsed(p)' = Parsed(p) /\ Parsed(p) \subseteq Arrived
  BY <1>1, <1>8 DEF Arrived, Parsed
<1>10. ArrivalInv'
  <2>1. \A id \in Numbers : call_pc[id] \in {"insert", "send"} => id # New
    BY <1>3, TypeParts DEF LifeInv, CallsOK
  <2> QED  BY <1>1, <1>3, <1>4, <1>8, <1>9, <2>1 DEF LifeInv, ArrivalInv
<1>11. WaitInv'
  BY <1>1, <1>3, <1>4 DEF LifeInv, WaitInv
<1>12. Somewhere'
  <2> SUFFICES ASSUME NEW id \in Issued \cup {New}
               PROVE  id \in Starting' \cup request_callback' \cup Queued' \cup Batched' \cup Called'
                             \cup dropped' \cup cancelled' \cup (Arrived' \cap Unasked')
    BY <1>3 DEF Somewhere
  <2> QED  BY <1>1, <1>5, <1>6, <1>9, PlaceParts DEF LifeInv, Somewhere, Queued, Called
<1>13. Apart'
  BY <1>1, <1>3, <1>4, <1>5, <1>6, <1>9, PlaceParts DEF LifeInv, Apart, Queued, Called
<1>14. Once'
  BY <1>1, PlaceParts DEF LifeInv, Once
<1>15. Moved
  BY <1>1, <1>6, <1>9 DEF Moved, Queued, Called
<1> QED  BY <1>15, <1>6, <1>10, <1>11, <1>12, <1>13, <1>14, PlacePartsNext

LEMMA AnswerPlace ==
  ASSUME LifeInv, NEW id \in Numbers, Answer(id)
  PROVE  ArrivalInv' /\ WaitInv' /\ OnePlace' /\ Moved
<1> USE DEF options, client, requests, servers, parsers, workers, ends, cancels, memory
<1>1. /\ UNCHANGED <<kinds, call_pc, already_callback_queue, parsers, request_callback, workers, ends,
                    cancelled, run_thread>>
      /\ packet_queue' = Append(packet_queue, id)
      /\ id \in unanswered /\ unanswered' = unanswered \ {id}
  BY DEF Answer
<1>2. id \in Issued /\ packet_queue \in Seq(Issued) /\ Range(packet_queue) \subseteq Arrived
  BY <1>1, PlacesHoldIssued DEF LifeInv, Arrived
<1>3. id \notin Arrived /\ id \notin Unasked
  BY <1>1, LifeConstants DEF LifeInv, ArrivalInv, WaitInv, Unasked
<1>4. /\ Range(packet_queue') = Range(packet_queue) \cup {id}
      /\ IsInjective(packet_queue) => IsInjective(packet_queue')
  BY <1>1, <1>2, <1>3, AppendElement
<1>5. /\ Arrived' = Arrived \cup {id}
      /\ \A p \in ParseThreads : Parsed(p)' = Parsed(p) /\ Parsed(p) \subseteq Arrived
  BY <1>1, <1>4 DEF Arrived, Parsed
<1>6. ArrivalInv'
  BY <1>1, <1>3, <1>4, <1>5 DEF LifeInv, ArrivalInv
<1>7. WaitInv'
  BY <1>1 DEF LifeInv, WaitInv
<1>8. /\ Batched' = Batched /\ BatchesApart' /\ Issued' = Issued /\ Unasked' = Unasked /\ Starting' = Starting
  BY <1>1, SameWorkers, SameKinds, SameCalls, PlaceParts DEF LifeInv
<1>9. Somewhere' /\ Apart' /\ Once'
  BY <1>1, <1>3, <1>5, <1>8, PlaceParts DEF LifeInv, Somewhere, Apart, Once, Queued, Called
<1>10. Moved
  BY <1>1, <1>5, <1>8 DEF Moved, Queued, Called
<1> QED  BY <1>10, <1>6, <1>7, <1>8, <1>9, PlacePartsNext
-----------------------------------------------------------------------------
(* Parse threads. *)
LEMMA FetchPlace ==
  ASSUME LifeInv, NEW p \in ParseThreads, Fetch(p)
  PROVE  ArrivalInv' /\ WaitInv' /\ OnePlace' /\ Moved
<1> USE DEF options, client, requests, servers, parsers, workers, ends, cancels, memory
<1> DEFINE batch == FirstOf(packet_queue, ParseNum)
<1>1. /\ UNCHANGED <<kinds, call_pc, already_callback_queue, request_callback, workers, ends, cancelled,
                    unanswered, run_thread>>
      /\ packet_queue' = RestOf(packet_queue, ParseNum)
      /\ packets' = [packets EXCEPT ![p] = batch]
      /\ parse_pc' = [parse_pc EXCEPT ![p] = "parse"]
      /\ parse_pc[p] = "fetch" /\ run_thread
  BY DEF Fetch
<1>2. /\ packet_queue \in Seq(Issued) /\ ParseNum \in Nat \ {0} /\ ParsersOK
      /\ Range(packet_queue) \subseteq Arrived
  BY PlacesHoldIssued, LifeConstants, TypeParts DEF LifeInv, Arrived
<1>3. /\ Range(packet_queue) = Range(batch) \cup Range(packet_queue')
      /\ IsInjective(batch) /\ IsInjective(packet_queue')
      /\ Range(batch) \cap Range(packet_queue') = {}
  <2>1. IsInjective(packet_queue)
    BY DEF LifeInv, ArrivalInv
  <2>2. LET rest == RestOf(packet_queue, ParseNum)
        IN  /\ Range(packet_queue) = Range(batch) \cup Range(rest)
            /\ IsInjective(packet_queue) =>
                 /\ IsInjective(batch) /\ IsInjective(rest)
                 /\ Range(batch) \cap Range(rest) = {}
    <3>1. packet_queue \in Seq(Issued) /\ ParseNum \in Nat \ {0}
      BY <1>2
    <3> HIDE DEF Issued
    <3> QED  BY <3>1, BatchElements, Zenon
  <2>3. packet_queue' = RestOf(packet_queue, ParseNum)
    BY <1>1
  <2> QED  BY <2>1, <2>2, <2>3, Zenon
<1> HIDE DEF batch
<1>4. packets[p] = <<>>
  BY <1>1 DEF LifeInv, ArrivalInv
<1>5. /\ packets'[p] = batch /\ parse_pc'[p] = "parse"
      /\ \A q \in ParseThreads \ {p} : packets'[q] = packets[q] /\ parse_pc'[q] = parse_pc[q]
  BY <1>1, <1>2 DEF ParsersOK
<1>6. /\ Parsed(p) = {} /\ Parsed(p)' = Range(batch)
      /\ \A q \in ParseThreads \ {p} : Parsed(q)' = Parsed(q)
  BY <1>4, <1>5, EmptyRange DEF Parsed
<1>7. Arrived' = Arrived
  BY <1>3, <1>6 DEF Arrived
<1>8. ArrivalInv'
  <2>1. \A q \in ParseThreads : 
          /\ IsInjective(packets'[q])
          /\ Parsed(q)' \cap Range(packet_queue') = {}
          /\ parse_pc'[q] # "parse" /\ packets'[q] # <<>> => parse_pc'[q] = "fetch" /\ ~run_thread'
    BY <1>1, <1>3, <1>5, <1>6 DEF LifeInv, ArrivalInv
  <2>2. \A q, r \in ParseThreads : q # r => Parsed(q)' \cap Parsed(r)' = {}
    BY <1>3, <1>6 DEF LifeInv, ArrivalInv
  <2>3. unanswered' \cap Arrived' = {}
    BY <1>1, <1>7 DEF LifeInv, ArrivalInv
  <2>4. \A id \in Numbers :
          call_pc'[id] \in {"insert", "send"} => id \notin unanswered' \cup Arrived'
    BY <1>1, <1>7 DEF LifeInv, ArrivalInv
  <2> QED  BY <1>3, <2>1, <2>2, <2>3, <2>4 DEF ArrivalInv
<1>9. WaitInv'
  BY <1>1 DEF LifeInv, WaitInv
<1>10. Batched' = Batched /\ BatchesApart' /\ Issued' = Issued /\ Unasked' = Unasked /\ Starting' = Starting
  BY <1>1, SameWorkers, SameKinds, SameCalls, PlaceParts DEF LifeInv
<1>11. Somewhere' /\ Apart' /\ Once'
  BY <1>1, <1>7, <1>10, PlaceParts DEF LifeInv, Somewhere, Apart, Once, Queued, Called
<1>12. Moved
  BY <1>1, <1>7, <1>10 DEF Moved, Queued, Called
<1> QED  BY <1>12, <1>8, <1>9, <1>10, <1>11, PlacePartsNext

(* A parse thread takes the first of its packets: it arrived there only. *)
LEMMA TakePacket ==
  ASSUME LifeInv, NEW p \in ParseThreads, packets[p] # <<>>,
         packets' = [packets EXCEPT ![p] = Tail(@)],
         UNCHANGED <<parse_pc, packet_queue, unanswered, run_thread, call_pc>>
  PROVE  /\ Head(packets[p]) \in Arrived \cap Issued
         /\ Arrived' = Arrived \ {Head(packets[p])}
         /\ parse_pc[p] = "parse" => ArrivalInv'
<1> DEFINE id == Head(packets[p])
<1>1. packets[p] \in Seq(Issued) /\ Parsed(p) \subseteq Arrived /\ ParsersOK
  BY PlacesHoldIssued, TypeParts DEF LifeInv
<1>2. /\ id \in Issued
      /\ Parsed(p) = Range(Tail(packets[p])) \cup {id}
      /\ id \notin Range(Tail(packets[p])) /\ IsInjective(Tail(packets[p]))
  <2>1. IsInjective(packets[p])
    BY DEF LifeInv, ArrivalInv
  <2> QED  BY <1>1, <2>1, TailElements DEF Parsed
<1>3. /\ packets'[p] = Tail(packets[p])
      /\ \A q \in ParseThreads \ {p} : packets'[q] = packets[q]
  BY <1>1 DEF ParsersOK
<1> HIDE DEF id
<1>4. /\ Parsed(p)' = Parsed(p) \ {id}
      /\ \A q \in ParseThreads \ {p} : Parsed(q)' = Parsed(q)
  BY <1>2, <1>3 DEF Parsed
<1>5. /\ id \in Parsed(p) /\ id \notin Range(packet_queue)
      /\ \A q \in ParseThreads \ {p} : id \notin Parsed(q)
  BY <1>2 DEF LifeInv, ArrivalInv
<1>6. Arrived' = Arrived \ {id}
  <2>1. \A e : e \in Arrived' <=> \/ e \in Range(packet_queue)
                                  \/ \E q \in ParseThreads : e \in Parsed(q)'
    BY DEF Arrived
  <2> QED  BY <2>1, <1>4, <1>5, ArrivedWhere
<1>7. ASSUME parse_pc[p] = "parse"
      PROVE  ArrivalInv'
  <2>1. \A q \in ParseThreads : 
          /\ IsInjective(packets'[q])
          /\ Parsed(q)' \cap Range(packet_queue') = {}
          /\ parse_pc'[q] # "parse" /\ packets'[q] # <<>> => parse_pc'[q] = "fetch" /\ ~run_thread'
    BY <1>2, <1>3, <1>4, <1>7 DEF LifeInv, ArrivalInv
  <2>2. \A q, r \in ParseThreads : q # r => Parsed(q)' \cap Parsed(r)' = {}
    BY <1>4 DEF LifeInv, ArrivalInv
  <2>3. unanswered' \cap Arrived' = {} /\ IsInjective(packet_queue')
    BY <1>6 DEF LifeInv, ArrivalInv
  <2>4. \A i \in Numbers : call_pc'[i] \in {"insert", "send"} => i \notin unanswered' \cup Arrived'
    BY <1>6 DEF LifeInv, ArrivalInv
  <2> QED  BY <2>1, <2>2, <2>3, <2>4 DEF ArrivalInv
<1> QED  BY <1>1, <1>2, <1>5, <1>6, <1>7 DEF id

LEMMA DoRequestPlace ==
  ASSUME LifeInv, NEW p \in ParseThreads, DoRequestPacket(p)
  PROVE  ArrivalInv' /\ WaitInv' /\ OnePlace' /\ Moved
<1> USE DEF options, client, requests, servers, parsers, workers, ends, cancels, memory
<1> DEFINE id == Head(packets[p])
<1>1. /\ UNCHANGED <<kinds, call_pc, packet_queue, parse_pc, workers, called, cancelled,
                    unanswered, run_thread>>
      /\ packets[p] # <<>> /\ parse_pc[p] = "parse" /\ kinds[id] \in Calls
      /\ packets' = [packets EXCEPT ![p] = Tail(@)]
      /\ request_callback' = request_callback \ {id}
  BY DEF DoRequestPacket, HasPacket, Hand
<1>2. \/ /\ id \in request_callback
         /\ already_callback_queue' = Append(already_callback_queue, id)
         /\ UNCHANGED dropped
      \/ /\ id \notin request_callback
         /\ UNCHANGED <<dropped, already_callback_queue>>
  BY <1>1, LifeConstants DEF DoRequestPacket, Hand, Dropping
<1>3. id \in Issued /\ id \in Arrived /\ Arrived' = Arrived \ {id} /\ ArrivalInv'
  BY <1>1, TakePacket
<1>4. id \notin Unasked
  BY <1>1, LifeConstants DEF Unasked
<1>5. WaitInv'
  BY <1>1 DEF LifeInv, WaitInv
<1>6. Batched' = Batched /\ BatchesApart' /\ Issued' = Issued /\ Unasked' = Unasked /\ Starting' = Starting
  BY <1>1, SameWorkers, SameKinds, SameCalls, PlaceParts DEF LifeInv
<1>7. already_callback_queue \in Seq(Issued)
  BY PlacesHoldIssued DEF LifeInv
<1> HIDE DEF id
<1>8. CASE id \in request_callback
  <2>1. id \notin Queued /\ IsInjective(already_callback_queue)
    BY <1>8, PlaceParts DEF LifeInv, Apart, Once
  <2>2. already_callback_queue' = Append(already_callback_queue, id)
    BY <1>2, <1>8
  <2>3. Queued' = Queued \cup {id} /\ IsInjective(already_callback_queue')
    BY <1>3, <1>7, <2>1, <2>2, AppendElement DEF Queued
  <2>4. Somewhere' /\ Apart' /\ Once'
    BY <1>1, <1>2, <1>3, <1>4, <1>6, <1>8, <2>3, PlaceParts
       DEF LifeInv, Somewhere, Apart, Once, Called
  <2>5. Moved
    BY <1>1, <1>3, <1>6, <1>8, <2>3 DEF Moved, Called
  <2> QED  BY <1>3, <1>5, <1>6, <2>4, <2>5, PlacePartsNext
<1>9. CASE id \notin request_callback
  <2>1. Somewhere' /\ Apart' /\ Once'
    BY <1>1, <1>2, <1>3, <1>4, <1>6, <1>9, PlaceParts
       DEF LifeInv, Somewhere, Apart, Once, Queued, Called
  <2>2. Moved
    BY <1>1, <1>2, <1>3, <1>6, <1>9 DEF Moved, Queued, Called
  <2> QED  BY <1>3, <1>5, <1>6, <2>1, <2>2, PlacePartsNext
<1> QED  BY <1>8, <1>9

LEMMA DoRegisterPlace ==
  ASSUME LifeInv, NEW p \in ParseThreads, DoRegisterPacket(p)
  PROVE  ArrivalInv' /\ WaitInv' /\ OnePlace' /\ Moved
<1> USE DEF options, client, requests, servers, parsers, workers, ends, cancels, memory
<1> DEFINE id == Head(packets[p])
<1>1. /\ UNCHANGED <<kinds, call_pc, packet_queue, parse_pc, workers, called, cancelled,
                    request_callback, unanswered, run_thread>>
      /\ packets[p] # <<>> /\ parse_pc[p] = "parse" /\ kinds[id] \in Keys
      /\ packets' = [packets EXCEPT ![p] = Tail(@)]
  BY DEF DoRegisterPacket, HasPacket, Hand
<1>2. \/ /\ already_callback_queue' = Append(already_callback_queue, id)
         /\ UNCHANGED dropped
      \/ dropped' = dropped \cup {id} /\ UNCHANGED already_callback_queue
  BY <1>1 DEF DoRegisterPacket, Hand, Dropping
<1>3. id \in Issued /\ id \in Arrived /\ Arrived' = Arrived \ {id} /\ ArrivalInv'
  BY <1>1, TakePacket
<1>4. id \in Unasked /\ id \notin request_callback /\ id \notin cancelled
  BY <1>1, <1>3, LifeConstants DEF LifeInv, WaitInv, Unasked
<1>5. WaitInv'
  BY <1>1 DEF LifeInv, WaitInv
<1>6. Batched' = Batched /\ BatchesApart' /\ Issued' = Issued /\ Unasked' = Unasked /\ Starting' = Starting
  BY <1>1, SameWorkers, SameKinds, SameCalls, PlaceParts DEF LifeInv
<1>7. already_callback_queue \in Seq(Issued)
  BY PlacesHoldIssued DEF LifeInv
<1> HIDE DEF id
<1>8. CASE already_callback_queue' = Append(already_callback_queue, id) /\ UNCHANGED dropped
  <2>1. id \notin Queued /\ IsInjective(already_callback_queue)
    BY <1>3, <1>4, PlaceParts DEF LifeInv, Apart, Once
  <2>2. Queued' = Queued \cup {id} /\ IsInjective(already_callback_queue')
    BY <1>8, <1>3, <1>7, <2>1, AppendElement DEF Queued
  <2>3. Somewhere' /\ Apart' /\ Once'
    BY <1>1, <1>3, <1>4, <1>6, <1>8, <2>2, NeverUnasked, PlaceParts
       DEF LifeInv, Somewhere, Apart, Once, Called
  <2>4. Moved
    BY <1>1, <1>3, <1>4, <1>6, <2>2 DEF Moved, Called
  <2> QED  BY <1>3, <1>5, <1>6, <2>3, <2>4, PlacePartsNext
<1>9. CASE dropped' = dropped \cup {id} /\ UNCHANGED already_callback_queue
  <2>1. Somewhere' /\ Apart' /\ Once'
    BY <1>1, <1>3, <1>4, <1>6, <1>9, NeverUnasked, PlaceParts
       DEF LifeInv, Somewhere, Apart, Once, Queued, Called
  <2>2. Moved
    BY <1>1, <1>3, <1>6, <1>9 DEF Moved, Queued, Called
  <2> QED  BY <1>3, <1>5, <1>6, <2>1, <2>2, PlacePartsNext
<1> QED  BY <1>2, <1>8, <1>9

LEMMA ClearTimeoutPlace ==
  ASSUME LifeInv, NEW p \in ParseThreads, ClearTimeoutRequest(p)
  PROVE  ArrivalInv' /\ WaitInv' /\ OnePlace' /\ Moved
<1> USE DEF options, client, requests, servers, parsers, workers, ends, cancels, memory
<1>1. /\ UNCHANGED <<kinds, call_pc, packet_queue, packets, workers, ends, cancelled, unanswered,
                    run_thread>>
      /\ packets[p] = <<>> \/ ~run_thread
      /\ parse_pc' = [parse_pc EXCEPT ![p] = "fetch"]
  BY DEF ClearTimeoutRequest
<1>2. PICK over \in {{}} \cup {{id} : id \in {i \in Numbers : timeout_events[i] > 0}} :
         /\ request_callback' = request_callback \ over
         /\ \/ /\ over \cap request_callback = {}
               /\ UNCHANGED already_callback_queue
            \/ \E id \in over \cap request_callback :
                 already_callback_queue' = Append(already_callback_queue, id)
  BY DEF ClearTimeoutRequest
<1>3. ArrivalInv'
  <2>1. \A q \in ParseThreads : parse_pc'[q] = IF q = p THEN "fetch" ELSE parse_pc[q]
    BY <1>1, TypeParts DEF LifeInv, ParsersOK
  <2> QED  BY <1>1, <2>1, SameArrivals DEF LifeInv, ArrivalInv
<1>4. WaitInv'
  BY <1>1, <1>2 DEF LifeInv, WaitInv
<1>5. /\ Batched' = Batched /\ BatchesApart' /\ Issued' = Issued /\ Unasked' = Unasked /\ Starting' = Starting
      /\ Arrived' = Arrived
  BY <1>1, SameWorkers, SameKinds, SameCalls, SameArrived, PlaceParts DEF LifeInv
<1>6. CASE over \cap request_callback = {} /\ UNCHANGED already_callback_queue
  <2>1. request_callback' = request_callback
    BY <1>2, <1>6
  <2>2. Somewhere' /\ Apart' /\ Once'
    BY <1>1, <1>5, <1>6, <2>1, PlaceParts DEF LifeInv, Somewhere, Apart, Once, Queued, Called
  <2>3. Moved
    BY <1>1, <1>5, <1>6, <2>1 DEF Moved, Queued, Called
  <2> QED  BY <1>3, <1>4, <1>5, <2>2, <2>3, PlacePartsNext
<1>7. ASSUME NEW id \in over \cap request_callback,
             already_callback_queue' = Append(already_callback_queue, id)
      PROVE  OnePlace' /\ Moved
  <2>1. request_callback' = request_callback \ {id}
    BY <1>2, <1>7
  <2>2. id \in Issued /\ already_callback_queue \in Seq(Issued)
    BY <1>7, PlacesHoldIssued DEF LifeInv
  <2>3. id \notin Unasked
    BY <1>7, LifeConstants DEF LifeInv, WaitInv, Unasked
  <2>4. id \notin Queued /\ IsInjective(already_callback_queue)
    BY <1>7, PlaceParts DEF LifeInv, Apart, Once
  <2>5. Queued' = Queued \cup {id} /\ IsInjective(already_callback_queue')
    BY <1>7, <2>2, <2>4, AppendElement DEF Queued
  <2>6. Somewhere' /\ Apart' /\ Once'
    BY <1>1, <1>5, <1>7, <2>1, <2>3, <2>5, PlaceParts
       DEF LifeInv, Somewhere, Apart, Once, Called
  <2>7. Moved
    BY <1>1, <1>5, <1>7, <2>1, <2>5 DEF Moved, Called
  <2> QED  BY <1>5, <2>6, <2>7, PlacePartsNext
<1> QED  BY <1>2, <1>3, <1>4, <1>6, <1>7

LEMMA EndParsePlace ==
  ASSUME LifeInv, NEW p \in ParseThreads, EndParse(p)
  PROVE  ArrivalInv' /\ WaitInv' /\ OnePlace' /\ Moved
<1> USE DEF options, client, requests, servers, parsers, workers, ends, cancels, memory
<1>1. /\ UNCHANGED <<kinds, call_pc, packet_queue, request_callback, already_callback_queue, workers,
                    called, cancelled, unanswered, run_thread>>
      /\ dropped' = dropped \cup {id \in Parsed(p) : kinds[id] \in Keys}
      /\ packets' = [packets EXCEPT ![p] = <<>>]
      /\ parse_pc' = [parse_pc EXCEPT ![p] = "ended"]
  BY DEF EndParse, Dropping, Parsed
<1>2. /\ packets'[p] = <<>>
      /\ \A q \in ParseThreads \ {p} : packets'[q] = packets[q] /\ parse_pc'[q] = parse_pc[q]
  BY <1>1, TypeParts DEF LifeInv, ParsersOK
<1>3. Parsed(p)' = {} /\ \A q \in ParseThreads \ {p} : Parsed(q)' = Parsed(q)
  BY <1>2, EmptyRange DEF Parsed
<1>4. Arrived' = Arrived \ Parsed(p) /\ Parsed(p) \subseteq Arrived
  <2>2. /\ Parsed(p) \cap Range(packet_queue) = {}
        /\ \A q \in ParseThreads \ {p} : Parsed(p) \cap Parsed(q) = {}
    BY DEF LifeInv, ArrivalInv
  <2>1. \A e : e \in Arrived' <=> \/ e \in Range(packet_queue)
                                  \/ \E q \in ParseThreads : e \in Parsed(q)'
    BY <1>1 DEF Arrived
  <2> QED  BY <2>1, <2>2, <1>3, ArrivedWhere
<1>5. ArrivalInv'
  BY <1>1, <1>2, <1>3, <1>4, EmptyRange DEF LifeInv, ArrivalInv
<1>6. WaitInv'
  BY <1>1 DEF LifeInv, WaitInv
<1>7. Batched' = Batched /\ BatchesApart' /\ Issued' = Issued /\ Unasked' = Unasked /\ Starting' = Starting
  BY <1>1, SameWorkers, SameKinds, SameCalls, PlaceParts DEF LifeInv
<1>10. dropped' = dropped \cup (Parsed(p) \cap Unasked)
  BY <1>1, <1>4, PlacesHoldIssued DEF LifeInv, Unasked
<1>8. Somewhere' /\ Apart' /\ Once'
  BY <1>1, <1>4, <1>7, <1>10, NeverUnasked, PlaceParts DEF LifeInv, Somewhere, Apart, Once, Queued, Called
<1>9. Moved
  BY <1>1, <1>4, <1>7 DEF Moved, Queued, Called
<1> QED  BY <1>9, <1>5, <1>6, <1>7, <1>8, PlacePartsNext
-----------------------------------------------------------------------------
(* The work threads. *)
LEMMA AnotherBatch ==
  ASSUME NEW w \in WorkThreads, BatchesApart,
         \A v \in WorkThreads \ {w} : /\ Uncalled(v)' = Uncalled(v)
                                      /\ Batch(w)' \cap Batch(v) = {},
         IsInjective(Uncalled(w)')
  PROVE  /\ BatchesApart'
         /\ \A e : e \in Batched' <=> \/ e \in Batch(w)'
                                      \/ e \in Batched /\ e \notin Batch(w)
<1>1. \A v \in WorkThreads \ {w} : Batch(v)' = Batch(v)
  BY DEF Batch
<1>2. BatchesApart'
  BY <1>1 DEF BatchesApart
<1>3. \A e : e \in Batched' <=> \E v \in WorkThreads : e \in Batch(v)'
  BY DEF Batched
<1>4. \A v \in WorkThreads \ {w} : Batch(v) \cap Batch(w) = {}
  BY DEF BatchesApart
<1> QED  BY <1>1, <1>2, <1>3, <1>4, BatchedWhere

LEMMA PopPlace ==
  ASSUME LifeInv, NEW w \in WorkThreads, Pop(w)
  PROVE  ArrivalInv' /\ WaitInv' /\ OnePlace' /\ Moved
<1> USE DEF options, client, requests, servers, parsers, workers, ends, cancels, memory
<1> DEFINE batch == FirstOf(already_callback_queue, DealNum)
<1>1. /\ UNCHANGED <<kinds, call_pc, packet_queue, parsers, request_callback, ends, cancelled,
                    unanswered, run_thread>>
      /\ already_callback_queue' = RestOf(already_callback_queue, DealNum)
      /\ request_queue' = [request_queue EXCEPT ![w] = batch]
      /\ work_pc' = [work_pc EXCEPT ![w] = "batch"]
      /\ work_pc[w] = "pop"
  BY DEF Pop
<1>2. already_callback_queue \in Seq(Issued) /\ DealNum \in Nat \ {0} /\ WorkersOK
  BY PlacesHoldIssued, LifeConstants, TypeParts DEF LifeInv
<1>3. /\ Queued = Range(batch) \cup Queued'
      /\ IsInjective(batch) /\ IsInjective(already_callback_queue')
      /\ Range(batch) \cap Queued' = {}
  <2>1. IsInjective(already_callback_queue)
    BY PlaceParts DEF LifeInv, Once
  <2>2. LET queue == already_callback_queue
            rest == RestOf(queue, DealNum)
        IN  /\ Range(queue) = Range(batch) \cup Range(rest)
            /\ IsInjective(batch) /\ IsInjective(rest)
            /\ Range(batch) \cap Range(rest) = {}
    BY <1>2, <2>1, BatchElements
  <2> QED  BY <1>1, <2>2 DEF Queued
<1> HIDE DEF batch
<1>4. request_queue[w] = <<>>
  BY <1>1 DEF LifeInv, WaitInv
<1>5. /\ request_queue'[w] = batch /\ work_pc'[w] = "batch"
      /\ \A v \in WorkThreads \ {w} :
           request_queue'[v] = request_queue[v] /\ work_pc'[v] = work_pc[v]
  BY <1>1, <1>2 DEF WorkersOK
<1>6. /\ Uncalled(w)' = batch /\ Batch(w)' = Range(batch) /\ Batch(w) = {}
      /\ \A v \in WorkThreads \ {w} : Uncalled(v)' = Uncalled(v)
  BY <1>1, <1>4, <1>5, EmptyRange DEF Uncalled, Batch
<1>7. \A v \in WorkThreads \ {w} : Batch(w)' \cap Batch(v) = {}
  BY <1>3, <1>6, PlaceParts, PlacesHoldIssued DEF LifeInv, Apart
<1>8. BatchesApart' /\ Batched' = Batched \cup Range(batch)
  BY <1>3, <1>6, <1>7, AnotherBatch, PlaceParts DEF LifeInv
<1>9. ArrivalInv'
  BY <1>1, SameArrivals DEF LifeInv, ArrivalInv
<1>10. WaitInv'
  BY <1>1, <1>5 DEF LifeInv, WaitInv
<1>11. Arrived' = Arrived /\ Issued' = Issued /\ Unasked' = Unasked /\ Starting' = Starting
  BY <1>1, SameArrived, SameKinds, SameCalls
<1>12. Somewhere' /\ Apart' /\ Once'
  BY <1>1, <1>3, <1>8, <1>11, PlaceParts DEF LifeInv, Somewhere, Apart, Once, Called
<1>13. Moved
  BY <1>1, <1>3, <1>8, <1>11 DEF Moved, Called
<1> QED  BY <1>13, <1>8, <1>9, <1>10, <1>12, PlacePartsNext

LEMMA CallPlace ==
  ASSUME LifeInv, NEW w \in WorkThreads, Call(w)
  PROVE  ArrivalInv' /\ WaitInv' /\ OnePlace' /\ Moved
<1> USE DEF options, client, requests, servers, parsers, workers, ends, cancels, memory
<1> DEFINE id == Head(request_queue[w])
<1>1. /\ UNCHANGED <<kinds, call_pc, packet_queue, parsers, request_callback, already_callback_queue,
                    request_queue, dropped, cancelled, unanswered, run_thread>>
      /\ called' = Append(called, id)
      /\ work_pc' = [work_pc EXCEPT ![w] = "delete"]
      /\ work_pc[w] = "call"
  BY DEF Call
<1>2. /\ WorkersOK /\ called \in Seq(Issued) /\ request_queue[w] \in Seq(Issued)
      /\ Batch(w) \subseteq Batched
  BY PlacesHoldIssued, TypeParts DEF LifeInv
<1>3. request_queue[w] # <<>> /\ Uncalled(w) = request_queue[w]
  BY <1>1, <1>2 DEF WorkersOK, Uncalled
<1>4. /\ work_pc'[w] = "delete"
      /\ \A v \in WorkThreads \ {w} : work_pc'[v] = work_pc[v]
  BY <1>1, <1>2 DEF WorkersOK
<1>5. /\ Uncalled(w)' = Tail(request_queue[w])
      /\ \A v \in WorkThreads \ {w} : Uncalled(v)' = Uncalled(v)
  BY <1>1, <1>4 DEF Uncalled
<1>6. IsInjective(Uncalled(w)) /\ BatchesApart
  BY PlaceParts DEF LifeInv, BatchesApart
<1>7. /\ id \in Issued /\ id \in Batch(w) /\ IsInjective(Uncalled(w)')
      /\ Batch(w)' = Batch(w) \ {id}
  BY <1>2, <1>3, <1>5, <1>6, TailElements DEF Batch
<1> HIDE DEF id
<1>8. \A v \in WorkThreads \ {w} : Batch(w)' \cap Batch(v) = {}
  BY <1>6, <1>7 DEF BatchesApart
<1>9. BatchesApart' /\ Batched' = Batched \ {id}
  BY <1>2, <1>5, <1>6, <1>7, <1>8, AnotherBatch
<1>10. id \in Batched /\ id \notin Called /\ IsInjective(called)
  BY <1>2, <1>7, PlaceParts DEF LifeInv, Apart, Once
<1>11. Called' = Called \cup {id} /\ IsInjective(called')
  BY <1>1, <1>2, <1>7, <1>10, AppendElement DEF Called
<1>12. ArrivalInv'
  BY <1>1, SameArrivals DEF LifeInv, ArrivalInv
<1>13. WaitInv'
  BY <1>1, <1>4 DEF LifeInv, WaitInv
<1>14. Arrived' = Arrived /\ Issued' = Issued /\ Unasked' = Unasked /\ Starting' = Starting
  BY <1>1, SameArrived, SameKinds, SameCalls
<1>15. Somewhere' /\ Apart' /\ Once'
  BY <1>1, <1>9, <1>10, <1>11, <1>14, PlaceParts DEF LifeInv, Somewhere, Apart, Once, Queued
<1>16. Moved
  BY <1>1, <1>9, <1>11, <1>14 DEF Moved, Queued
<1> QED  BY <1>16, <1>9, <1>12, <1>13, <1>15, PlacePartsNext

(* What is deleted has been called already, so the places stay. *)
LEMMA DeletePlace ==
  ASSUME LifeInv, NEW w \in WorkThreads, Delete(w)
  PROVE  ArrivalInv' /\ WaitInv' /\ OnePlace' /\ Moved
<1> USE DEF options, client, requests, servers, parsers, workers, ends, cancels, memory
<1>1. /\ UNCHANGED <<kinds, call_pc, packet_queue, parsers, request_callback, already_callback_queue,
                    ends, cancelled, unanswered, run_thread>>
      /\ request_queue' = [request_queue EXCEPT ![w] = Tail(@)]
      /\ work_pc' = [work_pc EXCEPT ![w] = "batch"]
      /\ work_pc[w] = "delete"
  BY DEF Delete
<1>2. WorkersOK
  BY TypeParts DEF LifeInv
<1>3. /\ request_queue'[w] = Tail(request_queue[w]) /\ work_pc'[w] = "batch"
      /\ \A v \in WorkThreads \ {w} :
           request_queue'[v] = request_queue[v] /\ work_pc'[v] = work_pc[v]
  BY <1>1, <1>2 DEF WorkersOK
<1>4. \A v \in WorkThreads : Uncalled(v)' = Uncalled(v)
  BY <1>1, <1>3 DEF Uncalled
<1>5. \A v \in WorkThreads : Batch(v)' = Batch(v)
  BY <1>4 DEF Batch
<1>6. Batched' = Batched
  BY <1>5 DEF Batched
<1>7. BatchesApart'
  BY <1>4, <1>5, PlaceParts DEF LifeInv, BatchesApart
<1>8. ArrivalInv'
  BY <1>1, SameArrivals DEF LifeInv, ArrivalInv
<1>9. WaitInv'
  BY <1>1, <1>3 DEF LifeInv, WaitInv
<1>10. Arrived' = Arrived /\ Issued' = Issued /\ Unasked' = Unasked /\ Starting' = Starting
  BY <1>1, SameArrived, SameKinds, SameCalls
<1>11. Somewhere' /\ Apart' /\ Once'
  BY <1>1, <1>6, <1>10, PlaceParts DEF LifeInv, Somewhere, Apart, Once, Queued, Called
<1>12. Moved
  BY <1>1, <1>6, <1>10 DEF Moved, Queued, Called
<1> QED  BY <1>7, <1>8, <1>9, <1>11, <1>12, PlacePartsNext

LEMMA EndBatchPlace ==
  ASSUME LifeInv, NEW w \in WorkThreads, EndBatch(w)
  PROVE  ArrivalInv' /\ WaitInv' /\ OnePlace' /\ Moved
<1> USE DEF options, client, requests, servers, parsers, workers, ends, cancels, memory
<1>1. /\ UNCHANGED <<kinds, call_pc, packet_queue, parsers, request_callback, already_callback_queue,
                    called, cancelled, unanswered, run_thread>>
      /\ dropped' = dropped \cup Range(request_queue[w])
      /\ request_queue' = [request_queue EXCEPT ![w] = <<>>]
      /\ work_pc' = [work_pc EXCEPT ![w] = "pop"]
      /\ work_pc[w] = "batch"
  BY DEF EndBatch
<1>2. WorkersOK
  BY TypeParts DEF LifeInv
<1>3. /\ request_queue'[w] = <<>> /\ work_pc'[w] = "pop"
      /\ \A v \in WorkThreads \ {w} :
           request_queue'[v] = request_queue[v] /\ work_pc'[v] = work_pc[v]
  BY <1>1, <1>2 DEF WorkersOK
<1>4. /\ Batch(w) = Range(request_queue[w]) /\ Batch(w)' = {} /\ IsInjective(Uncalled(w)')
      /\ \A v \in WorkThreads \ {w} : Uncalled(v)' = Uncalled(v)
  BY <1>1, <1>3, EmptyRange DEF Uncalled, Batch
<1>5. BatchesApart' /\ Batched' = Batched \ Batch(w)
  BY <1>4, AnotherBatch, PlaceParts DEF LifeInv
<1>6. ArrivalInv'
  BY <1>1, SameArrivals DEF LifeInv, ArrivalInv
<1>7. WaitInv'
  BY <1>1, <1>3 DEF LifeInv, WaitInv
<1>8. Arrived' = Arrived /\ Issued' = Issued /\ Unasked' = Unasked /\ Starting' = Starting
  BY <1>1, SameArrived, SameKinds, SameCalls
<1>11. Batch(w) \subseteq Batched
  BY PlacesHoldIssued DEF LifeInv
<1>9. Somewhere' /\ Apart' /\ Once'
  BY <1>1, <1>4, <1>5, <1>8, <1>11, PlaceParts DEF LifeInv, Somewhere, Apart, Once, Queued, Called
<1>10. Moved
  BY <1>1, <1>5, <1>8 DEF Moved, Queued, Called
<1> QED  BY <1>10, <1>5, <1>6, <1>7, <1>9, PlacePartsNext

(* Steps of a thread, or of the client, that move nothing. *)
LEMMA OtherPlace ==
  ASSUME LifeInv,
         \/ \E k \in Keys : RegisterCallback(k)
         \/ \E id \in Numbers : \/ SendFails(id) \/ SendToNothing(id)
                              \/ PushTimeoutEvent(id) \/ Return(id) \/ WantToCancel(id)
         \/ \E p \in ParseThreads : FetchFromNothing(p)
         \/ \E w \in WorkThreads : Front(w) \/ EndWork(w)
         \/ UNCHANGED vars
  PROVE  ArrivalInv' /\ WaitInv' /\ OnePlace' /\ Moved
<1> USE DEF options, client, requests, servers, parsers, workers, ends, cancels, memory
<1>1. ParsersOK /\ WorkersOK
  BY TypeParts DEF LifeInv
<1>2. /\ \A p \in ParseThreads :
           parse_pc[p] # "parse" /\ packets[p] # <<>> => parse_pc[p] = "fetch" /\ ~run_thread
      /\ \A w \in WorkThreads : work_pc[w] \in {"pop", "ended"} => request_queue[w] = <<>>
  BY DEF LifeInv, ArrivalInv, WaitInv
<1>3. ASSUME UNCHANGED <<parse_pc, work_pc, run_thread>>, 
             UNCHANGED <<kinds, call_pc, request_callback, already_callback_queue, packet_queue, packets,
                     request_queue, called, dropped, cancelled, unanswered>>
      PROVE  ArrivalInv' /\ WaitInv' /\ OnePlace' /\ Moved
  BY <1>2, <1>3, StillPlaces
<1>4. ASSUME NEW k \in Keys, RegisterCallback(k)
      PROVE  ArrivalInv' /\ WaitInv' /\ OnePlace' /\ Moved
  BY <1>3, <1>4 DEF RegisterCallback
<1>5. ASSUME NEW id \in Numbers, WantToCancel(id)
      PROVE  ArrivalInv' /\ WaitInv' /\ OnePlace' /\ Moved
  BY <1>3, <1>5 DEF WantToCancel
<1>9. ASSUME NEW id \in Numbers,
             SendFails(id) \/ SendToNothing(id) \/ PushTimeoutEvent(id) \/ Return(id)
      PROVE  ArrivalInv' /\ WaitInv' /\ OnePlace' /\ Moved
  <2> USE DEF SendFails, SendToNothing, PushTimeoutEvent, Return, Leave
  <2>1. /\ call_pc[id] # "insert"
        /\ \E at \in {"crashed", "wait", "done"} : call_pc' = [call_pc EXCEPT ![id] = at]
    BY <1>9
  <2>2. \A i \in Numbers : call_pc'[i] # call_pc[i] => /\ call_pc[i] # "insert"
                                                     /\ call_pc'[i] \notin {"insert", "send"}
    BY <2>1, TypeParts DEF LifeInv, CallsOK
  <2>3. UNCHANGED <<kinds, request_callback, already_callback_queue, packet_queue, parsers, workers,
                    called, dropped, cancelled, unanswered, run_thread>>
    BY <1>9
  <2> QED  BY <1>2, <2>2, <2>3, StillPlaces
<1>6. ASSUME NEW p \in ParseThreads, FetchFromNothing(p)
      PROVE  ArrivalInv' /\ WaitInv' /\ OnePlace' /\ Moved
  <2>1. packets[p] = <<>>
    BY <1>2, <1>6 DEF FetchFromNothing
  <2>2. \A q \in ParseThreads : parse_pc'[q] = IF q = p THEN "crashed" ELSE parse_pc[q]
    BY <1>1, <1>6 DEF FetchFromNothing, ParsersOK
  <2> QED  BY <1>2, <1>6, <2>1, <2>2, StillPlaces DEF FetchFromNothing
<1>7. ASSUME NEW w \in WorkThreads, Front(w) \/ EndWork(w)
      PROVE  ArrivalInv' /\ WaitInv' /\ OnePlace' /\ Moved
  <2>1. \A v \in WorkThreads :
          \/ work_pc'[v] = work_pc[v]
          \/ v = w /\ work_pc[w] = "batch" /\ work_pc'[w] = "call"
          \/ v = w /\ work_pc[w] = "pop" /\ work_pc'[w] = "ended"
    BY <1>1, <1>7 DEF Front, EndWork, WorkersOK
  <2> QED  BY <1>2, <1>7, <2>1, StillPlaces DEF Front, EndWork
<1>8. CASE UNCHANGED vars
  BY <1>3, <1>8 DEF vars
<1> QED  BY <1>4, <1>5, <1>6, <1>7, <1>8, <1>9
-----------------------------------------------------------------------------
LEMMA PlaceInit == Init => ArrivalInv /\ WaitInv /\ OnePlace
<1> SUFFICES ASSUME Init  PROVE ArrivalInv /\ WaitInv /\ OnePlace
  OBVIOUS
<1>1. /\ \A p \in ParseThreads : packets[p] = <<>> /\ Parsed(p) = {}
      /\ \A w \in WorkThreads : /\ request_queue[w] = <<>>
                                /\ Uncalled(w) = <<>> /\ Batch(w) = {}
      /\ packet_queue = <<>> /\ already_callback_queue = <<>> /\ called = <<>>
      /\ Range(packet_queue) = {} /\ unanswered = {}
      /\ request_callback = {} /\ cancelled = {} /\ dropped = {}
      /\ \A id \in Numbers : call_pc[id] = "none"
  BY EmptyRange DEF Init, Parsed, Uncalled, Batch
<1>2. Queued = {} /\ Batched = {} /\ Called = {} /\ Arrived = {} /\ Starting = {}
  BY <1>1 DEF Queued, Batched, Called, Arrived, Starting
<1>3. Issued = {}
  BY DEF Init, Issued
<1>4. ArrivalInv /\ WaitInv
  BY <1>1, <1>2, EmptyRange DEF ArrivalInv, WaitInv
<1>5. Somewhere /\ Apart /\ Once /\ BatchesApart
  BY <1>1, <1>2, <1>3, EmptyRange DEF Somewhere, Apart, Once, BatchesApart
<1> QED  BY <1>4, <1>5, PlaceParts

LEMMA PlaceStep == LifeInv /\ [Next]_vars => ArrivalInv' /\ WaitInv' /\ OnePlace' /\ Moved
<1> SUFFICES ASSUME LifeInv, [Next]_vars
             PROVE  ArrivalInv' /\ WaitInv' /\ OnePlace' /\ Moved
  OBVIOUS
<1>1. CASE StartRoute \/ StartFails
  BY <1>1, StartPlace
<1>2. CASE Stop
  BY <1>2, StopPlace, DeleteNetPlace DEF Stop
<1>3. CASE Destroy
  BY <1>3, DestroyPlace
<1>4. CASE OnDisconnect
  BY <1>4, StopPlace
<1>5. ASSUME NEW kind \in Calls, CallMethod(kind)
      PROVE  ArrivalInv' /\ WaitInv' /\ OnePlace' /\ Moved
  BY <1>5, CallMethodPlace
<1>6. ASSUME NEW k \in Keys, RegisterCallback(k) \/ Notify(k)
      PROVE  ArrivalInv' /\ WaitInv' /\ OnePlace' /\ Moved
  BY <1>6, NotifyPlace, OtherPlace
<1>7. ASSUME NEW id \in Numbers,
             Answer(id) \/ ContinueCall(id) \/ WantToCancel(id) \/ StartCancel(id)
      PROVE  ArrivalInv' /\ WaitInv' /\ OnePlace' /\ Moved
  BY <1>7, AnswerPlace, InsertPlace, SendPlace, StartCancelPlace, OtherPlace DEF ContinueCall
<1>8. ASSUME NEW p \in ParseThreads, ParseThread(p)
      PROVE  ArrivalInv' /\ WaitInv' /\ OnePlace' /\ Moved
  BY <1>8, FetchPlace, DoRequestPlace, DoRegisterPlace, ClearTimeoutPlace, EndParsePlace,
     OtherPlace DEF ParseThread
<1>9. ASSUME NEW w \in WorkThreads, WorkThread(w)
      PROVE  ArrivalInv' /\ WaitInv' /\ OnePlace' /\ Moved
  BY <1>9, PopPlace, CallPlace, DeletePlace, EndBatchPlace, OtherPlace DEF WorkThread
<1>10. CASE UNCHANGED vars
  BY <1>10, OtherPlace
<1> QED  BY <1>1, <1>2, <1>3, <1>4, <1>5, <1>6, <1>7, <1>8, <1>9, <1>10 DEF Next

LEMMA LifeInvariant == Spec => []LifeInv
<1>1. Init => LifeInv
  BY TypeInit, ThreadsInit, PlaceInit DEF LifeInv
<1>2. LifeInv /\ [Next]_vars => LifeInv'
  BY TypeStep, ThreadsStep, PlaceStep DEF LifeInv
<1> QED  BY <1>1, <1>2, PTL DEF Spec

(* Over any number of starts and stops, with any number of threads, every   *)
(* callback is in one place: none is called twice or after its cancel, and  *)
(* none disappears that the channel did not drop.                           *)
THEOREM EveryCallbackInOnePlace == Spec => []OnePlace
<1>1. LifeInv => OnePlace
  BY DEF LifeInv
<1> QED  BY <1>1, LifeInvariant, PTL
-----------------------------------------------------------------------------
(* Who deletes a callback has called it, and no other thread deletes it; a  *)
(* notification that is still on its way, and a request that its caller is  *)
(* about to enter, still have their controllers; and a caller has freed its *)
(* controller only when CallMethod returned, after its request was called   *)
(* back or before.                                                          *)
Holding ==
  /\ \A w \in WorkThreads : work_pc[w] = "delete" => Head(request_queue[w]) \in Called
  /\ \A v, w \in WorkThreads :
       v # w /\ work_pc[v] = "delete" /\ work_pc[w] = "delete"
         => Head(request_queue[v]) # Head(request_queue[w])
Unfreed == freed \cap (Starting \cup (Arrived \cap Unasked)) = {}
Callers ==
  \A id \in freed : kinds[id] = "sync" => call_pc[id] = "done" /\ id \in abandoned \cup Called
FreeInv == Holding /\ Unfreed /\ Callers /\ ControllersLive

(* The uses of a freed controller that ControllersLive names. *)
Named(use) ==
  \/ use.by = "StartCancel"
  \/ kinds[use.id] = "sync" /\ (use.by = "~ChannelCallback" \/ use.id \in abandoned)

LEMMA NewUses ==
  ASSUME NEW ids, NEW by, Touch(ids, by)
  PROVE  \A use \in misused' : use.by = by /\ use.id \in ids \cap freed
BY DEF Touch

LEMMA DeletingCalled == Holding => Deleting \subseteq Called
BY DEF Holding, Deleting

(* In every step numbers keep their kinds, and a call that is done is done. *)
LEMMA OldNumbers ==
  ASSUME TypeOK, [Next]_vars
  PROVE  /\ Issued \subseteq Issued' /\ New \notin Issued
         /\ \A id \in Issued : kinds'[id] = kinds[id]
         /\ \A id \in Issued : call_pc[id] = "done" => call_pc'[id] = "done"
         /\ unanswered' \subseteq unanswered \cup {id \in Issued : kinds[id] \in Calls}
<1> USE DEF options, client, requests, servers, parsers, workers, ends, cancels, memory
<1>1. KindsOK /\ CallsOK
  BY TypeParts
<1>2. New \notin Issued
  BY <1>1 DEF KindsOK, New, Issued
<1>3. ASSUME NEW kind \in Calls, CallMethod(kind)
      PROVE  /\ Issue(kind) /\ kind \in Kinds /\ UNCHANGED unanswered
             /\ \A id \in Issued : call_pc'[id] = call_pc[id]
  BY <1>1, <1>2, <1>3 DEF CallMethod, CallsOK, Kinds
<1>4. ASSUME NEW k \in Keys, Notify(k)
      PROVE  Issue(k) /\ k \in Kinds /\ UNCHANGED <<unanswered, call_pc>>
  BY <1>4 DEF Notify, Kinds
<1>5. ASSUME NEW id \in Numbers, ContinueCall(id)
      PROVE  /\ UNCHANGED kinds
             /\ unanswered' \subseteq unanswered \cup {i \in Issued : kinds[i] \in Calls}
             /\ \A i \in Issued : call_pc[i] = "done" => call_pc'[i] = "done"
  <2> USE DEF ContinueCall, InsertRequest, SendRequest, SendFails, SendToNothing,
              PushTimeoutEvent, Return, Leave
  <2>1. /\ UNCHANGED kinds /\ call_pc[id] \notin {"none", "done"}
        /\ unanswered' \subseteq unanswered \cup {id}
        /\ \E at : call_pc' = [call_pc EXCEPT ![id] = at]
    BY <1>5
  <2>2. id \in Issued /\ kinds[id] \in Calls
    BY <2>1, <1>1 DEF CallsOK
  <2>3. \A i \in Issued : call_pc[i] = "done" => call_pc'[i] = call_pc[i]
    BY <2>1, <1>1 DEF CallsOK
  <2> QED  BY <2>1, <2>2, <2>3
<1>6. \/ \E kind \in Calls : CallMethod(kind)
      \/ \E k \in Keys : Notify(k)
      \/ \E id \in Numbers : ContinueCall(id)
      \/ UNCHANGED <<kinds, call_pc>> /\ unanswered' \subseteq unanswered
  BY DEF Next, Stop, ParseThread, WorkThread, StartRoute, StartFails, StopNet, DeleteNet,
         ClearRunThread, Join, Destroy, OnDisconnect, RegisterCallback,
         Answer, WantToCancel, StartCancel, Fetch, FetchFromNothing, DoRequestPacket,
         DoRegisterPacket, ClearTimeoutRequest, EndParse, Pop, Front, Call, Delete, EndBatch,
         EndWork, vars
<1>7. \/ UNCHANGED kinds
      \/ \E kind \in Kinds : Issue(kind)
  BY <1>3, <1>4, <1>5, <1>6
<1>8. /\ Issued \subseteq Issued'
      /\ \A id \in Issued : kinds'[id] = kinds[id]
  BY <1>1, <1>7, IssueGrows, SameKinds
<1> QED  BY <1>2, <1>3, <1>4, <1>5, <1>6, <1>8

(* What a step must show of the controllers it frees and uses. *)
LEMMA FreeStays ==
  ASSUME LifeInv, FreeInv, [Next]_vars, Moved,
         Deleting' \subseteq Deleting \cup Batched,
         \A id \in Deleting \ Deleting' : kinds[id] = "sync" \/ id \in freed',
         Called' \subseteq Called \cup Deleting',
         freed \subseteq freed', abandoned \subseteq abandoned',
         \A id \in freed' \ freed :
           IF kinds'[id] = "sync"
           THEN call_pc'[id] = "done" /\ id \in abandoned' \cup Called'
           ELSE id \notin Starting' \cup request_callback' \cup Queued' \cup Batched'
                            \cup Deleting' \cup (Arrived' \cap Unasked'),
         \A use \in misused' \ misused : Named(use)'
  PROVE  Unfreed' /\ Callers' /\ ControllersLive'
<1>1. /\ Issued \subseteq Issued' /\ New \notin Issued
      /\ \A id \in Issued : kinds'[id] = kinds[id]
      /\ \A id \in Issued : call_pc[id] = "done" => call_pc'[id] = "done"
  BY OldNumbers DEF LifeInv
<1>2. /\ freed \subseteq Issued
      /\ \A use \in misused : use.id \in Issued
  BY TypeParts DEF LifeInv, SetsOK, MisusedOK
<1>3. /\ Called \cup Batched \cup Queued \cup request_callback \cup Starting \subseteq Issued
      /\ Deleting \subseteq Called
  BY PlacesHoldIssued, DeletingCalled DEF LifeInv, FreeInv
<1>4. \A id \in Issued : id \in Unasked' => id \in Unasked /\ id \notin unanswered
  BY <1>1, LifeConstants DEF LifeInv, WaitInv, Unasked
<1>5. Unfreed'
  <2>1. ASSUME NEW id \in Arrived' \cap Unasked', id \in freed'
        PROVE  FALSE
    <3>1. CASE id \in freed
      <4>1. id \in Issued /\ id \in Unasked /\ id \notin unanswered /\ id # New
        BY <3>1, <1>1, <1>2, <1>4
      <4>2. id \in Arrived
        BY <4>1, <2>1 DEF Moved
      <4> QED  BY <3>1, <4>1, <4>2 DEF FreeInv, Unfreed
    <3>2. CASE id \notin freed
      <4>1. kinds'[id] # "sync"
        BY <2>1, LifeConstants DEF Unasked, Calls
      <4> QED  BY <2>1, <3>2, <4>1
    <3> QED  BY <3>1, <3>2
  <2>2. ASSUME NEW id \in Starting', id \in freed'
        PROVE  FALSE
    <3>1. CASE id \in freed
      <4>1. id \in Starting
        BY <2>2, <3>1, <1>1, <1>2 DEF Moved
      <4> QED  BY <3>1, <4>1 DEF FreeInv, Unfreed
    <3>2. CASE id \notin freed
      <4>1. call_pc'[id] = "insert"
        BY <2>2 DEF Starting
      <4> QED  BY <2>2, <3>2, <4>1
    <3> QED  BY <3>1, <3>2
  <2> QED  BY <2>1, <2>2 DEF Unfreed
<1>6. Callers'
  <2> SUFFICES ASSUME NEW id \in freed', kinds'[id] = "sync"
               PROVE  call_pc'[id] = "done" /\ id \in abandoned' \cup Called'
    BY DEF Callers
  <2>1. CASE id \in freed
    BY <2>1, <1>1, <1>2 DEF FreeInv, Callers, Moved
  <2> QED  BY <2>1
<1>7. \A use \in misused' : Named(use)'
  BY <1>1, <1>2 DEF FreeInv, ControllersLive, Named
<1>8. ASSUME NEW id \in freed', kinds'[id] # "sync"
      PROVE  id \notin request_callback' \cup Queued' \cup Batched' \cup Deleting'
  <2>1. CASE id \in freed
    <3>1. /\ id \in Issued /\ kinds[id] # "sync"
          /\ id \notin request_callback \cup Queued \cup Batched \cup Deleting
      BY <2>1, <1>1, <1>2, <1>8 DEF FreeInv, ControllersLive
    <3>2. id \notin Arrived \cap Unasked /\ id \notin Starting
      BY <2>1 DEF FreeInv, Unfreed
    <3> QED  BY <3>1, <3>2, <1>1 DEF Moved
  <2> QED  BY <2>1, <1>8
<1>9. ASSUME NEW id \in Called', kinds'[id] # "sync"
      PROVE  id \in freed' \cup Deleting'
  BY <1>1, <1>3, <1>9 DEF FreeInv, ControllersLive
<1> QED  BY <1>5, <1>6, <1>7, <1>8, <1>9 DEF ControllersLive, Named

(* Steps that free nothing, and in which no thread starts or ends a delete. *)
LEMMA SameDeleting ==
  ASSUME Holding, Called \subseteq Called',
         \A w \in WorkThreads :
           /\ work_pc'[w] = "delete" <=> work_pc[w] = "delete"
           /\ work_pc[w] = "delete" => request_queue'[w] = request_queue[w]
  PROVE  Deleting' = Deleting /\ Holding'
BY DEF Holding, Deleting

LEMMA NothingFreed ==
  ASSUME LifeInv, FreeInv, [Next]_vars, Moved, UNCHANGED <<called, abandoned, freed>>,
         \A w \in WorkThreads :
           /\ work_pc'[w] = "delete" <=> work_pc[w] = "delete"
           /\ work_pc[w] = "delete" => request_queue'[w] = request_queue[w],
         \A use \in misused' \ misused : Named(use)'
  PROVE  FreeInv'
<1>1. Called' = Called
  BY DEF Called
<1>2. Deleting' = Deleting /\ Holding'
  BY <1>1, SameDeleting DEF FreeInv
<1>3. Unfreed' /\ Callers' /\ ControllersLive'
  BY <1>1, <1>2, FreeStays
<1> QED  BY <1>2, <1>3 DEF FreeInv

LEMMA ClientFree ==
  ASSUME LifeInv, FreeInv, [Next]_vars, Moved, OnePlace',
         \/ StartRoute \/ StartFails \/ Stop \/ OnDisconnect
         \/ \E k \in Keys : RegisterCallback(k) \/ Notify(k)
         \/ \E kind \in Calls : CallMethod(kind)
         \/ \E id \in Numbers : \/ Answer(id) \/ WantToCancel(id) \/ StartCancel(id)
                              \/ InsertRequest(id) \/ SendRequest(id) \/ SendToNothing(id)
                              \/ PushTimeoutEvent(id)
         \/ UNCHANGED vars
  PROVE  FreeInv'
<1> USE DEF options, client, requests, servers, parsers, workers, ends, cancels, memory
<1>1. CASE StartRoute
  <2>1. \A w \in WorkThreads : work_pc[w] # "delete" /\ work_pc'[w] # "delete"
    BY <1>1 DEF StartRoute, LifeInv, ThreadsInv, Stopped, Joined
  <2> QED  BY <1>1, <2>1, NothingFreed DEF StartRoute
<1>2. ASSUME NEW id \in Numbers, StartCancel(id)
      PROVE  FreeInv'
  <2>1. \A use \in misused' \ misused : Named(use)'
    <3>1. Touch({id}, "StartCancel")
      BY <1>2 DEF StartCancel
    <3> QED  BY <3>1, NewUses DEF Named
  <2> QED  BY <1>2, <2>1, NothingFreed DEF StartCancel
<1>3. CASE UNCHANGED <<called, abandoned, freed, misused, work_pc, request_queue>>
  BY <1>3, NothingFreed
<1>4. CASE StartFails \/ Stop \/ OnDisconnect
  BY <1>3, <1>4 DEF StartFails, Stop, StopNet, DeleteNet, ClearRunThread, Join, OnDisconnect
<1>5. ASSUME NEW k \in Keys, RegisterCallback(k) \/ Notify(k)
      PROVE  FreeInv'
  BY <1>3, <1>5 DEF RegisterCallback, Notify
<1>6. ASSUME NEW id \in Numbers,
             \/ Answer(id) \/ WantToCancel(id) \/ InsertRequest(id)
             \/ SendRequest(id) \/ SendToNothing(id) \/ PushTimeoutEvent(id)
      PROVE  FreeInv'
  BY <1>3, <1>6 DEF Answer, WantToCancel, InsertRequest, SendRequest, SendToNothing,
                    PushTimeoutEvent
<1>7. ASSUME NEW kind \in Calls, CallMethod(kind)
      PROVE  FreeInv'
  BY <1>3, <1>7 DEF CallMethod
<1>8. CASE UNCHANGED vars
  BY <1>3, <1>8 DEF vars
<1> QED  BY <1>1, <1>2, <1>4, <1>5, <1>6, <1>7, <1>8

(* A caller comes back, with its request called back or abandoned. *)
LEMMA LeaveFree ==
  ASSUME LifeInv, FreeInv, [Next]_vars, Moved, OnePlace',
         NEW id \in Numbers, SendFails(id) \/ Return(id)
  PROVE  FreeInv'
<1> USE DEF options, client, requests, servers, parsers, workers, ends, cancels, memory
<1>1. Leave(id) /\ call_pc[id] \notin {"none", "done"}
  BY DEF SendFails, Return
<1>2. /\ UNCHANGED <<kinds, called, workers>>
      /\ call_pc' = [call_pc EXCEPT ![id] = "done"]
      /\ \/ UNCHANGED memory
         \/ /\ abandoned' = abandoned \cup ({id} \ Called)
            /\ freed' = freed \cup {id} /\ kinds[id] = "sync"
            /\ Touch({id}, "caller")
  BY <1>1 DEF Leave, Called
<1>3. CASE UNCHANGED memory
  BY <1>2, <1>3, NothingFreed
<1>4. CASE /\ abandoned' = abandoned \cup ({id} \ Called)
           /\ freed' = freed \cup {id} /\ kinds[id] = "sync"
           /\ Touch({id}, "caller")
  <2>1. call_pc'[id] = "done"
    BY <1>2, TypeParts DEF LifeInv, CallsOK
  <2>2. id \notin freed
    BY <1>1, <1>4 DEF FreeInv, Callers
  <2>3. misused' \subseteq misused
    BY <1>4, <2>2, NewUses
  <2>4. Called' = Called /\ Deleting' = Deleting /\ Holding'
    BY <1>2, SameDeleting DEF FreeInv, Called
  <2> QED  BY <1>2, <1>4, <2>1, <2>3, <2>4, FreeStays DEF FreeInv
<1> QED  BY <1>2, <1>3, <1>4

LEMMA DestroyFree ==
  ASSUME LifeInv, FreeInv, [Next]_vars, Moved, OnePlace', Destroy
  PROVE  FreeInv'
<1> USE DEF options, client, requests, servers, parsers, workers, ends, cancels, memory
<1>1. /\ UNCHANGED <<kinds, called, workers, already_callback_queue, abandoned, call_pc>>
      /\ request_callback' = {}
      /\ freed' = freed \cup {id \in request_callback : kinds[id] # "sync"}
      /\ Touch(request_callback, "~ChannelCallback")
  BY DEF Destroy, FreedWith
<1>2. /\ Called' = Called /\ Queued' = Queued /\ Batched' = Batched /\ Starting' = Starting
      /\ Deleting' = Deleting /\ Holding' /\ Deleting \subseteq Called
  BY <1>1, SameWorkers, SameCalls, SameDeleting, DeletingCalled DEF FreeInv, Called, Queued
<1>3. \A use \in misused' \ misused : Named(use)'
  <2> SUFFICES ASSUME NEW use \in misused' \ misused  PROVE Named(use)'
    OBVIOUS
  <2>1. use.by = "~ChannelCallback" /\ use.id \in request_callback /\ use.id \in freed
    BY <1>1, NewUses
  <2>2. kinds[use.id] = "sync"
    BY <2>1, PlacesHoldIssued DEF LifeInv, FreeInv, ControllersLive
  <2> QED  BY <1>1, <2>1, <2>2 DEF Named
<1>4. \A id \in request_callback : id \notin Starting \cup Queued \cup Batched \cup Called
  BY PlaceParts DEF LifeInv, Apart
<1>5. \A id \in request_callback : id \notin Unasked'
  BY <1>1, LifeConstants DEF LifeInv, WaitInv, Unasked
<1>6. \A id \in freed' \ freed :
        /\ id \in request_callback /\ kinds'[id] # "sync"
        /\ id \notin Starting' \cup request_callback' \cup Queued' \cup Batched' \cup Deleting'
                       \cup (Arrived' \cap Unasked')
  BY <1>1, <1>2, <1>4, <1>5
<1> QED  BY <1>1, <1>2, <1>3, <1>6, FreeStays DEF FreeInv

LEMMA ParseFree ==
  ASSUME LifeInv, FreeInv, [Next]_vars, Moved, OnePlace',
         NEW p \in ParseThreads, ParseThread(p)
  PROVE  FreeInv'
<1> USE DEF options, client, requests, servers, parsers, workers, ends, cancels, memory
<1>1. ASSUME NEW ids, Touch(ids, "SetFailed"), ids \subseteq request_callback,
             UNCHANGED <<kinds, abandoned>>
      PROVE  \A use \in misused' \ misused : Named(use)'
  <2> SUFFICES ASSUME NEW use \in misused'  PROVE Named(use)'
    OBVIOUS
  <2>1. use.id \in ids \cap freed
    BY <1>1, NewUses
  <2>2. use.id \in Issued /\ use.id \notin Called
    BY <1>1, <2>1, PlacesHoldIssued, PlaceParts DEF LifeInv, Apart
  <2>3. kinds[use.id] = "sync"
    BY <1>1, <2>1, <2>2 DEF FreeInv, ControllersLive
  <2>4. use.id \in abandoned
    BY <2>1, <2>2, <2>3 DEF FreeInv, Callers
  <2> QED  BY <1>1, <2>3, <2>4 DEF Named
<1>2. CASE Fetch(p) \/ FetchFromNothing(p) \/ DoRegisterPacket(p) \/ EndParse(p)
  BY <1>2, NothingFreed DEF Fetch, FetchFromNothing, DoRegisterPacket, EndParse
<1>3. CASE DoRequestPacket(p)
  <2>1. /\ Touch({Head(packets[p])} \cap request_callback, "SetFailed")
        /\ UNCHANGED <<kinds, called, abandoned, freed, workers>>
    BY <1>3 DEF DoRequestPacket
  <2> QED  BY <1>1, <2>1, NothingFreed
<1>4. CASE ClearTimeoutRequest(p)
  <2>1. PICK over : Touch(over \cap request_callback, "SetFailed")
    BY <1>4 DEF ClearTimeoutRequest
  <2>2. UNCHANGED <<kinds, called, abandoned, freed, workers>>
    BY <1>4 DEF ClearTimeoutRequest
  <2> QED  BY <1>1, <2>1, <2>2, NothingFreed
<1> QED  BY <1>2, <1>3, <1>4 DEF ParseThread

LEMMA CallFree ==
  ASSUME LifeInv, FreeInv, [Next]_vars, Moved, OnePlace', NEW w \in WorkThreads, Call(w)
  PROVE  FreeInv'
<1> USE DEF options, client, requests, servers, parsers, workers, ends, cancels, memory
<1> DEFINE id == Head(request_queue[w])
<1>1. /\ UNCHANGED <<kinds, request_queue, abandoned, freed>>
      /\ called' = Append(called, id)
      /\ Touch({id}, "Call")
      /\ work_pc' = [work_pc EXCEPT ![w] = "delete"]
      /\ work_pc[w] = "call"
  BY DEF Call
<1>2. WorkersOK /\ called \in Seq(Issued) /\ request_queue[w] \in Seq(Issued)
  BY PlacesHoldIssued, TypeParts DEF LifeInv
<1>3. /\ work_pc'[w] = "delete"
      /\ \A v \in WorkThreads \ {w} : work_pc'[v] = work_pc[v]
  BY <1>1, <1>2 DEF WorkersOK
<1>4. id \in Issued /\ id \in Batched
  <2>1. request_queue[w] # <<>> /\ Uncalled(w) = request_queue[w]
    BY <1>1, <1>2 DEF WorkersOK, Uncalled
  <2>2. id \in Issued /\ id \in Batch(w)
    BY <1>2, <2>1, TailElements DEF Batch
  <2> QED  BY <2>2, BatchedWhere
<1> HIDE DEF id
<1>5. id \notin Called
  BY <1>4, PlaceParts DEF LifeInv, Apart
<1>6. Called' = Called \cup {id}
  BY <1>1, <1>2, <1>4, AppendElement DEF Called
<1>7. Deleting' = Deleting \cup {id}
  BY <1>1, <1>3 DEF Deleting, id
<1>8. Holding'
  BY <1>1, <1>3, <1>5, <1>6 DEF FreeInv, Holding, id
<1>9. \A use \in misused' \ misused : Named(use)'
  <2> SUFFICES ASSUME NEW use \in misused'  PROVE Named(use)'
    OBVIOUS
  <2>1. use.id = id /\ id \in freed
    BY <1>1, NewUses
  <2>2. kinds[id] = "sync"
    BY <2>1, <1>4 DEF FreeInv, ControllersLive
  <2>3. id \in abandoned
    BY <2>1, <2>2, <1>5 DEF FreeInv, Callers
  <2> QED  BY <1>1, <2>1, <2>2, <2>3 DEF Named
<1> QED  BY <1>1, <1>4, <1>6, <1>7, <1>8, <1>9, FreeStays DEF FreeInv

LEMMA DeleteFree ==
  ASSUME LifeInv, FreeInv, [Next]_vars, Moved, OnePlace', NEW w \in WorkThreads, Delete(w)
  PROVE  FreeInv'
<1> USE DEF options, client, requests, servers, parsers, workers, ends, cancels, memory
<1> DEFINE id == Head(request_queue[w])
<1>1. /\ UNCHANGED <<kinds, called, abandoned, call_pc>>
      /\ Touch({id}, "~ChannelCallback")
      /\ freed' = freed \cup {i \in {id} : kinds[i] # "sync"}
      /\ request_queue' = [request_queue EXCEPT ![w] = Tail(@)]
      /\ work_pc' = [work_pc EXCEPT ![w] = "batch"]
      /\ work_pc[w] = "delete"
  BY DEF Delete, FreedWith
<1>2. WorkersOK /\ Called \subseteq Issued
  BY PlacesHoldIssued, TypeParts DEF LifeInv
<1>3. /\ work_pc'[w] = "batch"
      /\ \A v \in WorkThreads \ {w} :
           request_queue'[v] = request_queue[v] /\ work_pc'[v] = work_pc[v]
  BY <1>1, <1>2 DEF WorkersOK
<1>4. Called' = Called
  BY <1>1 DEF Called
<1>5. id \in Called /\ id \in Deleting
  BY <1>1 DEF FreeInv, Holding, Deleting
<1>6. Deleting' = Deleting \ {id} /\ Holding'
  BY <1>1, <1>3, <1>4 DEF FreeInv, Holding, Deleting
<1> HIDE DEF id
<1>7. id \notin Starting' \cup request_callback' \cup Queued' \cup Batched' \cup (Arrived' \cap Unasked')
  BY <1>4, <1>5, PlacePartsNext DEF Apart
<1>8. \A use \in misused' \ misused : Named(use)'
  <2> SUFFICES ASSUME NEW use \in misused' \ misused  PROVE Named(use)'
    OBVIOUS
  <2>1. use.by = "~ChannelCallback" /\ use.id = id /\ id \in freed
    BY <1>1, NewUses
  <2>2. kinds[id] = "sync"
    BY <2>1, <1>2, <1>5 DEF FreeInv, ControllersLive
  <2> QED  BY <1>1, <2>1, <2>2 DEF Named
<1>9. \A i \in Deleting \ Deleting' : kinds[i] = "sync" \/ i \in freed'
  BY <1>1, <1>6
<1> QED  BY <1>1, <1>4, <1>6, <1>7, <1>8, <1>9, FreeStays DEF FreeInv

LEMMA WorkFree ==
  ASSUME LifeInv, FreeInv, [Next]_vars, Moved, OnePlace',
         NEW w \in WorkThreads, WorkThread(w)
  PROVE  FreeInv'
<1> USE DEF options, client, requests, servers, parsers, workers, ends, cancels, memory
<1>1. CASE Pop(w) \/ Front(w) \/ EndBatch(w) \/ EndWork(w)
  <2>1. WorkersOK
    BY TypeParts DEF LifeInv
  <2>2. \A v \in WorkThreads :
          /\ work_pc'[v] = "delete" <=> work_pc[v] = "delete"
          /\ work_pc[v] = "delete" => request_queue'[v] = request_queue[v]
    BY <1>1, <2>1 DEF Pop, Front, EndBatch, EndWork, WorkersOK
  <2>3. UNCHANGED <<called, abandoned, freed, misused>>
    BY <1>1 DEF Pop, Front, EndBatch, EndWork
  <2> QED  BY <2>2, <2>3, NothingFreed
<1> QED  BY <1>1, CallFree, DeleteFree DEF WorkThread

LEMMA FreeInit == Init => FreeInv
<1> SUFFICES ASSUME Init  PROVE FreeInv
  OBVIOUS
<1>1. \A w \in WorkThreads : work_pc[w] = "ended"
  BY DEF Init
<1>2. freed = {} /\ abandoned = {} /\ misused = {} /\ kinds = <<>> /\ Issued = {}
  BY DEF Init, Issued
<1> QED  BY <1>1, <1>2 DEF FreeInv, Holding, Unfreed, Callers, ControllersLive

(* In every run of a channel, however calls overlap, a controller is used   *)
(* after it was freed only by StartCancel, by ~ChannelCallback for a        *)
(* synchronous request, and by threads that complete a synchronous request  *)
(* whose CallMethod had returned before it was called back; and one that is *)
(* not a caller's is freed after its call, and only when its callback has   *)
(* left all containers.                                                     *)
THEOREM ControllersStayLive == Spec => []ControllersLive
<1>1. Init => FreeInv
  BY FreeInit
<1>2. LifeInv /\ LifeInv' /\ FreeInv /\ [Next]_vars => FreeInv'
  <2> SUFFICES ASSUME LifeInv, LifeInv', FreeInv, [Next]_vars  PROVE FreeInv'
    OBVIOUS
  <2>1. Moved /\ OnePlace'
    BY PlaceStep
  <2> QED  BY <2>1, ClientFree, LeaveFree, DestroyFree, ParseFree, WorkFree
           DEF Next, ContinueCall
<1>3. FreeInv => ControllersLive
  BY DEF FreeInv
<1> QED  BY <1>1, <1>2, <1>3, LifeInvariant, PTL DEF Spec
-----------------------------------------------------------------------------
(* Sequences in which the elements of U come in increasing order, and sets  *)
(* of which all elements of U come before those of the other.               *)
SortedIn(s, U) ==
  \A i, j \in DOMAIN s : i < j /\ s[i] \in U /\ s[j] \in U => s[i] < s[j]
Ahead(A, B, U) == \A i \in A \cap U, j \in B \cap U : i < j

LEMMA SortedAppend ==
  ASSUME NEW S, NEW s \in Seq(S), NEW e \in S, NEW U,
         SortedIn(s, U), Ahead(Range(s), {e}, U)
  PROVE  SortedIn(Append(s, e), U)
<1>1. /\ Len(s) \in Nat /\ DOMAIN s = 1..Len(s)
      /\ DOMAIN Append(s, e) = 1..(Len(s) + 1)
      /\ \A i \in 1..Len(s) : Append(s, e)[i] = s[i]
      /\ Append(s, e)[Len(s) + 1] = e
  OBVIOUS
<1>2. \A i \in 1..Len(s) : s[i] \in Range(s)
  BY <1>1 DEF Range
<1> QED  BY <1>1, <1>2 DEF SortedIn, Ahead

LEMMA SortedTail ==
  ASSUME NEW S, NEW s \in Seq(S), s # <<>>, NEW U, SortedIn(s, U)
  PROVE  SortedIn(Tail(s), U) /\ Ahead({Head(s)}, Range(Tail(s)), U)
<1>1. /\ Len(s) \in Nat \ {0} /\ DOMAIN s = 1..Len(s)
      /\ Tail(s) \in Seq(S) /\ Len(Tail(s)) = Len(s) - 1
      /\ \A i \in 1..(Len(s) - 1) : Tail(s)[i] = s[i + 1]
      /\ Head(s) = s[1]
  OBVIOUS
<1>2. DOMAIN Tail(s) = 1..(Len(s) - 1)
  BY <1>1
<1>3. ASSUME NEW i \in 1..(Len(s) - 1), NEW j \in 1..(Len(s) - 1), i < j,
             Tail(s)[i] \in U, Tail(s)[j] \in U
      PROVE  Tail(s)[i] < Tail(s)[j]
  <2>1. i + 1 \in DOMAIN s /\ j + 1 \in DOMAIN s /\ i + 1 < j + 1
    BY <1>1, <1>3
  <2> QED  BY <2>1, <1>1, <1>3 DEF SortedIn
<1>4. ASSUME NEW i \in 1..(Len(s) - 1), Tail(s)[i] \in U, s[1] \in U
      PROVE  s[1] < Tail(s)[i]
  <2>1. 1 \in DOMAIN s /\ i + 1 \in DOMAIN s /\ 1 < i + 1
    BY <1>1
  <2> QED  BY <2>1, <1>1, <1>4 DEF SortedIn
<1> QED  BY <1>1, <1>2, <1>3, <1>4 DEF SortedIn, Ahead, Range

LEMMA SortedBatch ==
  ASSUME NEW S, NEW s \in Seq(S), NEW n \in Nat \ {0}, NEW U, SortedIn(s, U)
  PROVE  /\ SortedIn(FirstOf(s, n), U) /\ SortedIn(RestOf(s, n), U)
         /\ Ahead(Range(FirstOf(s, n)), Range(RestOf(s, n)), U)
<1> DEFINE k == Smaller(n, Len(s))
           front == FirstOf(s, n)
           rest == RestOf(s, n)
<1>1. k \in 0..Len(s) /\ Len(s) \in Nat /\ DOMAIN s = 1..Len(s)
  BY DEF Smaller
<1>2. Len(front) = k /\ front \in Seq(S) /\ \A i \in 1..k : front[i] = s[i]
  BY <1>1 DEF FirstOf
<1>3. /\ Len(rest) = Len(s) - k /\ rest \in Seq(S)
      /\ \A i \in 1..(Len(s) - k) : rest[i] = s[k + i]
  BY <1>1 DEF RestOf
<1>4. DOMAIN front = 1..k /\ DOMAIN rest = 1..(Len(s) - k)
  BY <1>2, <1>3
<1> HIDE DEF k, front, rest
<1>5. SortedIn(front, U)
  BY <1>1, <1>2, <1>4 DEF SortedIn
<1>6. ASSUME NEW i \in 1..(Len(s) - k), NEW j \in 1..(Len(s) - k), i < j,
             rest[i] \in U, rest[j] \in U
      PROVE  rest[i] < rest[j]
  <2>1. k + i \in DOMAIN s /\ k + j \in DOMAIN s /\ k + i < k + j
    BY <1>1, <1>6
  <2> QED  BY <2>1, <1>3, <1>6 DEF SortedIn
<1>7. ASSUME NEW i \in 1..k, NEW j \in 1..(Len(s) - k), front[i] \in U, rest[j] \in U
      PROVE  front[i] < rest[j]
  <2>1. i \in DOMAIN s /\ k + j \in DOMAIN s /\ i < k + j
    BY <1>1, <1>7
  <2> QED  BY <2>1, <1>2, <1>3, <1>7 DEF SortedIn
<1>8. SortedIn(rest, U)
  BY <1>4, <1>6 DEF SortedIn
<1>9. Ahead(Range(front), Range(rest), U)
  BY <1>4, <1>7 DEF Ahead, Range
<1> QED  BY <1>5, <1>8, <1>9 DEF front, rest

(* On the way of a notification, those that are further on were sent before. *)
OrderInv ==
  /\ SortedIn(called, Unasked) /\ SortedIn(already_callback_queue, Unasked)
  /\ SortedIn(packet_queue, Unasked)
  /\ \A p \in ParseThreads : /\ SortedIn(packets[p], Unasked)
                             /\ Ahead(Parsed(p), Range(packet_queue), Unasked)
  /\ \A w \in WorkThreads : SortedIn(Uncalled(w), Unasked)
  /\ Ahead(Called, Batched, Unasked) /\ Ahead(Called, Queued, Unasked)
  /\ Ahead(Called, Arrived, Unasked)
  /\ Ahead(Batched, Queued, Unasked) /\ Ahead(Batched, Arrived, Unasked)
  /\ Ahead(Queued, Arrived, Unasked)

OneThreadEach == /\ \A p, q \in ParseThreads : p = q
                 /\ \A v, w \in WorkThreads : v = w

(* A step that passes no notification on, or drops some. *)
LEMMA OrderKept ==
  ASSUME OrderInv, Unasked' = Unasked,
         SortedIn(called', Unasked), SortedIn(already_callback_queue', Unasked),
         SortedIn(packet_queue', Unasked),
         \A p \in ParseThreads : SortedIn(packets'[p], Unasked),
         \A w \in WorkThreads : SortedIn(Uncalled(w)', Unasked),
         Called' \cap Unasked \subseteq Called, Batched' \cap Unasked \subseteq Batched,
         Queued' \cap Unasked \subseteq Queued, Arrived' \cap Unasked \subseteq Arrived,
         Range(packet_queue') \cap Unasked \subseteq Range(packet_queue),
         \A p \in ParseThreads : Parsed(p)' \cap Unasked \subseteq Parsed(p)
  PROVE  OrderInv'
<1>1. \A p \in ParseThreads : Ahead(Parsed(p)', Range(packet_queue'), Unasked')
  BY DEF OrderInv, Ahead
<1>2. /\ Ahead(Called', Batched', Unasked') /\ Ahead(Called', Queued', Unasked')
      /\ Ahead(Called', Arrived', Unasked') /\ Ahead(Batched', Queued', Unasked')
      /\ Ahead(Batched', Arrived', Unasked') /\ Ahead(Queued', Arrived', Unasked')
  BY DEF OrderInv, Ahead
<1> QED  BY <1>1, <1>2 DEF OrderInv

LEMMA OrderSame ==
  ASSUME OrderInv, Unasked' = Unasked,
         UNCHANGED <<called, already_callback_queue, packet_queue, packets>>,
         \A w \in WorkThreads : Uncalled(w)' = Uncalled(w)
  PROVE  OrderInv'
<1>1. Called' = Called /\ Queued' = Queued
  BY DEF Called, Queued
<1>2. Arrived' = Arrived /\ \A p \in ParseThreads : Parsed(p)' = Parsed(p)
  BY SameArrived
<1>3. Batched' = Batched
  <2>1. \A w \in WorkThreads : Batch(w)' = Batch(w)
    BY DEF Batch
  <2> QED  BY <2>1 DEF Batched
<1> QED  BY <1>1, <1>2, <1>3, OrderKept DEF OrderInv

LEMMA NoneOnQueue ==
  ASSUME NEW S, NEW s \in Seq(S), NEW e \in S, NEW U, e \notin U, SortedIn(s, U)
  PROVE  SortedIn(Append(s, e), U) /\ Range(Append(s, e)) \cap U \subseteq Range(s)
<1>1. Ahead(Range(s), {e}, U)
  BY DEF Ahead
<1> QED  BY <1>1, SortedAppend, AppendElement

(* main and the client, a cancel, the destructor. *)
LEMMA ClientOrder ==
  ASSUME LifeInv, OrderInv,
         \/ StartRoute \/ StartFails \/ Stop \/ Destroy \/ OnDisconnect
         \/ \E kind \in Calls : CallMethod(kind)
         \/ \E k \in Keys : RegisterCallback(k)
         \/ \E id \in Numbers : ContinueCall(id) \/ WantToCancel(id) \/ StartCancel(id)
         \/ UNCHANGED vars
  PROVE  OrderInv'
<1> USE DEF options, client, requests, servers, parsers, workers, ends, cancels, memory
<1>1. ASSUME UNCHANGED <<kinds, called, already_callback_queue, packet_queue, packets,
                        work_pc, request_queue>>
      PROVE  OrderInv'
  BY <1>1, SameKinds, OrderSame DEF Uncalled
<1>2. CASE StartRoute
  <2>1. \A w \in WorkThreads : work_pc[w] # "delete" /\ work_pc'[w] # "delete"
    BY <1>2 DEF StartRoute, LifeInv, ThreadsInv, Stopped, Joined
  <2> QED  BY <1>2, <2>1, SameKinds, OrderSame DEF StartRoute, Uncalled
<1>3. CASE DeleteNet
  <2>1. /\ UNCHANGED <<kinds, called, already_callback_queue, packets, work_pc, request_queue>>
        /\ packet_queue' = <<>>
    BY <1>3 DEF DeleteNet
  <2>2. /\ Called' = Called /\ Queued' = Queued /\ Batched' = Batched
        /\ \A p \in ParseThreads : Parsed(p)' = Parsed(p)
        /\ \A w \in WorkThreads : Uncalled(w)' = Uncalled(w)
    BY <2>1, SameWorkers DEF Called, Queued, Parsed, Uncalled
  <2>3. /\ Range(packet_queue') = {} /\ Arrived' \subseteq Arrived
        /\ SortedIn(packet_queue', Unasked)
    BY <2>1, <2>2, EmptyRange DEF Arrived, SortedIn
  <2>4. Unasked' = Unasked
    BY <2>1, SameKinds
  <2> QED  BY <2>1, <2>2, <2>3, <2>4, OrderKept DEF OrderInv
<1>4. ASSUME NEW kind \in Calls, CallMethod(kind)
      PROVE  OrderInv'
  <2>1. KindsOK /\ kind \in Kinds /\ Issue(kind)
    BY <1>4, TypeParts DEF LifeInv, Kinds, CallMethod
  <2>2. Unasked' = Unasked
    BY <2>1, IssueGrows, LifeConstants DEF Unasked
  <2> QED  BY <1>4, <2>2, OrderSame DEF CallMethod, Uncalled
<1>5. CASE StartFails \/ StopNet \/ ClearRunThread \/ Join \/ Destroy \/ OnDisconnect
  BY <1>1, <1>5 DEF StartFails, StopNet, ClearRunThread, Join, Destroy, OnDisconnect
<1>6. ASSUME NEW k \in Keys, RegisterCallback(k)
      PROVE  OrderInv'
  BY <1>1, <1>6 DEF RegisterCallback
<1>7. ASSUME NEW id \in Numbers, ContinueCall(id) \/ WantToCancel(id) \/ StartCancel(id)
      PROVE  OrderInv'
  BY <1>1, <1>7 DEF ContinueCall, InsertRequest, SendRequest, SendFails, SendToNothing,
                    PushTimeoutEvent, Return, Leave, WantToCancel, StartCancel
<1>8. CASE UNCHANGED vars
  BY <1>1, <1>8 DEF vars
<1> QED  BY <1>2, <1>3, <1>4, <1>5, <1>6, <1>7, <1>8 DEF Stop

LEMMA ArriveOrder ==
  ASSUME LifeInv, OrderInv,
         \/ \E k \in Keys : Notify(k)
         \/ \E id \in Numbers : Answer(id)
  PROVE  OrderInv'
<1> USE DEF options, client, requests, servers, parsers, workers, ends, cancels, memory
<1>1. /\ packet_queue \in Seq(Issued) /\ Range(packet_queue) \subseteq Arrived
      /\ Called \cup Queued \cup Batched \cup Arrived \cup unanswered \subseteq Issued
      /\ \A p \in ParseThreads : Parsed(p) \subseteq Arrived
  BY PlacesHoldIssued DEF LifeInv, Arrived
<1>2. ASSUME NEW id \in Numbers, Answer(id)
      PROVE  OrderInv'
  <2>1. /\ UNCHANGED <<kinds, called, already_callback_queue, packets, work_pc, request_queue>>
        /\ packet_queue' = Append(packet_queue, id)
        /\ id \in unanswered
    BY <1>2 DEF Answer
  <2>2. id \notin Unasked /\ id \in Issued
    BY <1>1, <2>1, LifeConstants DEF LifeInv, WaitInv, Unasked
  <2>3. /\ SortedIn(packet_queue', Unasked)
        /\ Range(packet_queue') \cap Unasked \subseteq Range(packet_queue)
    BY <1>1, <2>1, <2>2, NoneOnQueue DEF OrderInv
  <2>4. /\ Called' = Called /\ Queued' = Queued /\ Batched' = Batched
        /\ \A p \in ParseThreads : Parsed(p)' = Parsed(p)
        /\ \A w \in WorkThreads : Uncalled(w)' = Uncalled(w)
    BY <2>1, SameWorkers DEF Called, Queued, Parsed, Uncalled
  <2>5. Unasked' = Unasked /\ Arrived' \cap Unasked \subseteq Arrived
    BY <2>1, <2>3, <2>4, SameKinds DEF Arrived
  <2> QED  BY <2>1, <2>3, <2>4, <2>5, OrderKept DEF OrderInv
<1>3. ASSUME NEW k \in Keys, Notify(k)
      PROVE  OrderInv'
  <2>1. /\ UNCHANGED <<called, already_callback_queue, packets, work_pc, request_queue>>
        /\ packet_queue' = Append(packet_queue, New)
        /\ Issue(k)
    BY <1>3 DEF Notify
  <2>2. KindsOK /\ k \in Kinds
    BY TypeParts DEF LifeInv, Kinds
  <2>3. /\ Unasked' = Unasked \cup {New} /\ New \in Issued' /\ Issued \subseteq Issued'
        /\ New \notin Issued /\ \A id \in Issued : id < New
    BY <2>1, <2>2, IssueGrows DEF Unasked, KindsOK, Issued, New
  <2>4. \A id \in Issued : id \in Unasked' <=> id \in Unasked
    BY <2>3
  <2>5. ASSUME NEW s \in Seq(Issued), SortedIn(s, Unasked)
        PROVE  SortedIn(s, Unasked')
    <3>1. \A i \in DOMAIN s : s[i] \in Issued
      OBVIOUS
    <3> QED  BY <2>4, <2>5, <3>1 DEF SortedIn
  <2>6. /\ SortedIn(called', Unasked') /\ SortedIn(already_callback_queue', Unasked')
        /\ \A p \in ParseThreads : SortedIn(packets'[p], Unasked')
        /\ SortedIn(packet_queue, Unasked')
    BY <2>1, <2>5, PlacesHoldIssued DEF LifeInv, OrderInv
  <2>7. \A w \in WorkThreads : SortedIn(Uncalled(w)', Unasked')
    <3>1. \A w \in WorkThreads : Uncalled(w)' = Uncalled(w) /\ Uncalled(w) \in Seq(Issued)
      BY <2>1, PlacesHoldIssued DEF Uncalled, LifeInv
    <3> QED  BY <2>5, <3>1 DEF OrderInv
  <2>8. packet_queue \in Seq(Issued')
    BY <1>1, <2>3, WiderSeq
  <2>9. SortedIn(packet_queue', Unasked') /\ Range(packet_queue') = Range(packet_queue) \cup {New}
    <3>1. Ahead(Range(packet_queue), {New}, Unasked')
      BY <1>1, <2>3 DEF Ahead
    <3> QED  BY <2>1, <2>3, <2>6, <2>8, <3>1, SortedAppend, AppendElement
  <2>10. /\ Called' = Called /\ Queued' = Queued /\ Batched' = Batched
         /\ \A p \in ParseThreads : Parsed(p)' = Parsed(p)
    BY <2>1, SameWorkers DEF Called, Queued, Parsed
  <2>11. Arrived' = Arrived \cup {New}
    BY <2>9, <2>10 DEF Arrived
  <2>12. ASSUME NEW A, NEW B, A \subseteq Issued, B \subseteq Issued, Ahead(A, B, Unasked)
         PROVE  Ahead(A, B, Unasked') /\ Ahead(A, B \cup {New}, Unasked')
    BY <2>3, <2>4, <2>12 DEF Ahead
  <2>13. \A p \in ParseThreads : Ahead(Parsed(p)', Range(packet_queue'), Unasked')
    BY <1>1, <2>9, <2>10, <2>12 DEF OrderInv
  <2>14. /\ Ahead(Called', Batched', Unasked') /\ Ahead(Called', Queued', Unasked')
         /\ Ahead(Called', Arrived', Unasked') /\ Ahead(Batched', Queued', Unasked')
         /\ Ahead(Batched', Arrived', Unasked') /\ Ahead(Queued', Arrived', Unasked')
    BY <1>1, <2>10, <2>11, <2>12 DEF OrderInv
  <2> QED  BY <2>6, <2>7, <2>9, <2>13, <2>14 DEF OrderInv
<1> QED  BY <1>2, <1>3

LEMMA FetchOrder ==
  ASSUME LifeInv, OrderInv, NEW p \in ParseThreads, Fetch(p)
  PROVE  OrderInv'
<1> USE DEF options, client, requests, servers, parsers, workers, ends, cancels, memory
<1> DEFINE batch == FirstOf(packet_queue, ParseNum)
<1>1. /\ UNCHANGED <<kinds, called, already_callback_queue, work_pc, request_queue>>
      /\ packet_queue' = RestOf(packet_queue, ParseNum)
      /\ packets' = [packets EXCEPT ![p] = batch]
      /\ parse_pc[p] = "fetch" /\ run_thread
  BY DEF Fetch
<1>2. /\ packet_queue \in Seq(Issued) /\ ParseNum \in Nat \ {0} /\ ParsersOK
      /\ SortedIn(packet_queue, Unasked)
  BY PlacesHoldIssued, LifeConstants, TypeParts DEF LifeInv, OrderInv
<1>3. /\ SortedIn(batch, Unasked) /\ SortedIn(packet_queue', Unasked)
      /\ Ahead(Range(batch), Range(packet_queue'), Unasked)
  BY <1>1, <1>2, SortedBatch
<1>4. Range(packet_queue) = Range(batch) \cup Range(packet_queue')
  BY <1>1, <1>2, BatchElements
<1> HIDE DEF batch
<1>5. packets[p] = <<>>
  BY <1>1 DEF LifeInv, ArrivalInv
<1>6. packets'[p] = batch /\ \A q \in ParseThreads \ {p} : packets'[q] = packets[q]
  BY <1>1, <1>2 DEF ParsersOK
<1>7. /\ Parsed(p) = {} /\ Parsed(p)' = Range(batch)
      /\ \A q \in ParseThreads \ {p} : Parsed(q)' = Parsed(q)
  BY <1>5, <1>6, EmptyRange DEF Parsed
<1>8. Arrived' = Arrived
  BY <1>4, <1>7 DEF Arrived
<1>9. /\ Called' = Called /\ Queued' = Queued /\ Batched' = Batched /\ Unasked' = Unasked
      /\ \A w \in WorkThreads : Uncalled(w)' = Uncalled(w)
  BY <1>1, SameWorkers, SameKinds DEF Called, Queued, Uncalled
<1>10. \A q \in ParseThreads : /\ SortedIn(packets'[q], Unasked')
                               /\ Ahead(Parsed(q)', Range(packet_queue'), Unasked')
  BY <1>3, <1>4, <1>6, <1>7, <1>9 DEF OrderInv, Ahead
<1>11. /\ SortedIn(called', Unasked') /\ SortedIn(already_callback_queue', Unasked')
       /\ SortedIn(packet_queue', Unasked')
       /\ \A w \in WorkThreads : SortedIn(Uncalled(w)', Unasked')
  BY <1>1, <1>3, <1>9 DEF OrderInv
<1>12. /\ Ahead(Called', Batched', Unasked') /\ Ahead(Called', Queued', Unasked')
       /\ Ahead(Called', Arrived', Unasked') /\ Ahead(Batched', Queued', Unasked')
       /\ Ahead(Batched', Arrived', Unasked') /\ Ahead(Queued', Arrived', Unasked')
  BY <1>8, <1>9 DEF OrderInv
<1> QED  BY <1>10, <1>11, <1>12 DEF OrderInv

(* The first packet of the one parse thread was sent before all others. *)
LEMMA FirstPacket ==
  ASSUME LifeInv, OrderInv, NEW p \in ParseThreads, \A q \in ParseThreads : q = p,
         packets[p] # <<>>, packets' = [packets EXCEPT ![p] = Tail(@)],
         UNCHANGED <<parse_pc, packet_queue, unanswered, run_thread, call_pc>>
  PROVE  /\ \A q \in ParseThreads : /\ SortedIn(packets'[q], Unasked)
                                    /\ Parsed(q)' \subseteq Parsed(q)
         /\ Arrived' \subseteq Arrived
         /\ Head(packets[p]) \in Arrived \cap Issued
         /\ Ahead({Head(packets[p])}, Arrived', Unasked)
<1> DEFINE id == Head(packets[p])
<1>1. packets[p] \in Seq(Issued) /\ ParsersOK
  BY PlacesHoldIssued, TypeParts DEF LifeInv
<1>2. packets'[p] = Tail(packets[p])
  BY <1>1 DEF ParsersOK
<1>3. /\ SortedIn(Tail(packets[p]), Unasked)
      /\ Ahead({id}, Range(Tail(packets[p])), Unasked)
  BY <1>1, SortedTail DEF OrderInv
<1>4. Parsed(p) = Range(Tail(packets[p])) \cup {id}
  BY <1>1, TailElements DEF Parsed
<1>5. id \in Arrived \cap Issued /\ Arrived' = Arrived \ {id}
  BY TakePacket
<1> HIDE DEF id
<1>6. Parsed(p)' = Range(Tail(packets[p]))
  BY <1>2 DEF Parsed
<1>7. Arrived' \subseteq Range(packet_queue) \cup Parsed(p)'
  BY DEF Arrived
<1>8. Ahead({id}, Range(packet_queue), Unasked)
  BY <1>4 DEF OrderInv, Ahead
<1>9. Ahead({id}, Arrived', Unasked)
  BY <1>3, <1>6, <1>7, <1>8 DEF Ahead
<1> QED  BY <1>2, <1>3, <1>4, <1>5, <1>6, <1>9 DEF id

LEMMA ParseOrder ==
  ASSUME OneThreadEach, LifeInv, OrderInv, NEW p \in ParseThreads, ParseThread(p)
  PROVE  OrderInv'
<1> USE DEF options, client, requests, servers, parsers, workers, ends, cancels, memory
<1>1. /\ already_callback_queue \in Seq(Issued) /\ called \in Seq(Issued)
      /\ \A q \in ParseThreads : q = p
      /\ SortedIn(already_callback_queue, Unasked)
  BY PlacesHoldIssued DEF LifeInv, OrderInv, OneThreadEach
<1>2. ASSUME UNCHANGED <<kinds, called, work_pc, request_queue>>
      PROVE  /\ Called' = Called /\ Batched' = Batched /\ Unasked' = Unasked
             /\ \A w \in WorkThreads : Uncalled(w)' = Uncalled(w)
  BY <1>2, SameWorkers, SameKinds DEF Called, Uncalled
<1>3. CASE FetchFromNothing(p)
  BY <1>3, SameKinds, OrderSame DEF FetchFromNothing, Uncalled
<1>4. CASE DoRequestPacket(p)
  <2> DEFINE id == Head(packets[p])
  <2>1. /\ UNCHANGED <<kinds, called, work_pc, request_queue, packet_queue, parse_pc,
                      unanswered, run_thread, call_pc>>
        /\ packets[p] # <<>> /\ kinds[id] \in Calls
        /\ packets' = [packets EXCEPT ![p] = Tail(@)]
        /\ \/ already_callback_queue' = Append(already_callback_queue, id)
           \/ UNCHANGED already_callback_queue
    BY <1>4 DEF DoRequestPacket, HasPacket, Hand
  <2>2. /\ \A q \in ParseThreads : /\ SortedIn(packets'[q], Unasked)
                                   /\ Parsed(q)' \subseteq Parsed(q)
        /\ Arrived' \subseteq Arrived /\ id \in Issued
    BY <1>1, <2>1, FirstPacket
  <2>3. id \notin Unasked
    BY <2>1, LifeConstants DEF Unasked
  <2> HIDE DEF id
  <2>4. SortedIn(already_callback_queue', Unasked) /\ Queued' \cap Unasked \subseteq Queued
    <3>1. CASE already_callback_queue' = Append(already_callback_queue, id)
      BY <1>1, <2>2, <2>3, <3>1, NoneOnQueue DEF Queued
    <3>2. CASE UNCHANGED already_callback_queue
      BY <1>1, <3>2 DEF Queued
    <3> QED  BY <2>1, <3>1, <3>2
  <2> QED  BY <1>2, <2>1, <2>2, <2>4, OrderKept DEF OrderInv
<1>5. CASE DoRegisterPacket(p)
  <2> DEFINE id == Head(packets[p])
  <2>1. /\ UNCHANGED <<kinds, called, work_pc, request_queue, packet_queue, parse_pc,
                      unanswered, run_thread, call_pc>>
        /\ packets[p] # <<>>
        /\ packets' = [packets EXCEPT ![p] = Tail(@)]
        /\ \/ already_callback_queue' = Append(already_callback_queue, id)
           \/ UNCHANGED already_callback_queue
    BY <1>5 DEF DoRegisterPacket, HasPacket, Hand
  <2>2. /\ \A q \in ParseThreads : /\ SortedIn(packets'[q], Unasked)
                                   /\ Parsed(q)' \subseteq Parsed(q)
        /\ Arrived' \subseteq Arrived /\ id \in Arrived \cap Issued
        /\ Ahead({id}, Arrived', Unasked)
    BY <1>1, <2>1, FirstPacket
  <2> HIDE DEF id
  <2>3. CASE UNCHANGED already_callback_queue
    BY <1>2, <2>1, <2>2, <2>3, OrderKept DEF OrderInv, Queued
  <2>4. CASE already_callback_queue' = Append(already_callback_queue, id)
    <3>1. Ahead(Range(already_callback_queue), {id}, Unasked)
      BY <2>2 DEF OrderInv, Ahead, Queued
    <3>2. SortedIn(already_callback_queue', Unasked) /\ Queued' = Queued \cup {id}
      BY <1>1, <2>2, <2>4, <3>1, SortedAppend, AppendElement DEF Queued
    <3>3. \A q \in ParseThreads : Ahead(Parsed(q)', Range(packet_queue'), Unasked')
      BY <1>2, <2>1, <2>2 DEF OrderInv, Ahead
    <3>4. /\ Ahead(Called', Queued', Unasked') /\ Ahead(Batched', Queued', Unasked')
          /\ Ahead(Queued', Arrived', Unasked')
      BY <1>2, <2>1, <2>2, <3>2 DEF OrderInv, Ahead
    <3>5. /\ Ahead(Called', Batched', Unasked') /\ Ahead(Called', Arrived', Unasked')
          /\ Ahead(Batched', Arrived', Unasked')
      BY <1>2, <2>1, <2>2 DEF OrderInv, Ahead
    <3> QED  BY <1>2, <2>1, <2>2, <3>2, <3>3, <3>4, <3>5 DEF OrderInv
  <2> QED  BY <2>1, <2>3, <2>4
<1>6. CASE ClearTimeoutRequest(p)
  <2>1. UNCHANGED <<kinds, called, work_pc, request_queue, packet_queue, packets>>
    BY <1>6 DEF ClearTimeoutRequest
  <2>2. \/ UNCHANGED already_callback_queue
        \/ \E id \in request_callback :
             already_callback_queue' = Append(already_callback_queue, id)
    BY <1>6 DEF ClearTimeoutRequest
  <2>3. \A id \in request_callback : id \notin Unasked /\ id \in Issued
    BY PlacesHoldIssued, LifeConstants DEF LifeInv, WaitInv, Unasked
  <2>4. SortedIn(already_callback_queue', Unasked) /\ Queued' \cap Unasked \subseteq Queued
    <3>1. ASSUME NEW id \in request_callback,
                 already_callback_queue' = Append(already_callback_queue, id)
          PROVE  SortedIn(already_callback_queue', Unasked) /\ Queued' \cap Unasked \subseteq Queued
      BY <1>1, <2>3, <3>1, NoneOnQueue DEF Queued
    <3>2. CASE UNCHANGED already_callback_queue
      BY <1>1, <3>2 DEF Queued
    <3> QED  BY <2>2, <3>1, <3>2
  <2> QED  BY <1>2, <2>1, <2>4, SameArrived, OrderKept DEF OrderInv
<1>7. CASE EndParse(p)
  <2>1. /\ UNCHANGED <<kinds, called, work_pc, request_queue, packet_queue,
                      already_callback_queue>>
        /\ packets' = [packets EXCEPT ![p] = <<>>]
    BY <1>7 DEF EndParse
  <2>2. packets'[p] = <<>>
    BY <2>1, TypeParts DEF LifeInv, ParsersOK
  <2>3. \A q \in ParseThreads : SortedIn(packets'[q], Unasked) /\ Parsed(q)' = {}
    BY <1>1, <2>2, EmptyRange DEF SortedIn, Parsed
  <2>4. Arrived' \subseteq Arrived
    BY <2>1, <2>3 DEF Arrived
  <2> QED  BY <1>2, <2>1, <2>3, <2>4, OrderKept DEF OrderInv, Queued
<1> QED  BY <1>3, <1>4, <1>5, <1>6, <1>7, FetchOrder DEF ParseThread

LEMMA WorkOrder ==
  ASSUME OneThreadEach, LifeInv, OrderInv, NEW w \in WorkThreads, WorkThread(w)
  PROVE  OrderInv'
<1> USE DEF options, client, requests, servers, parsers, workers, ends, cancels, memory
<1>1. /\ already_callback_queue \in Seq(Issued) /\ called \in Seq(Issued)
      /\ request_queue[w] \in Seq(Issued) /\ WorkersOK
      /\ \A v \in WorkThreads : v = w
      /\ DealNum \in Nat \ {0}
  BY PlacesHoldIssued, TypeParts, LifeConstants DEF LifeInv, OneThreadEach
<1>2. Batched = Batch(w) /\ Batched' = Batch(w)'
  BY <1>1 DEF Batched
<1>3. ASSUME UNCHANGED <<kinds, packet_queue, packets>>
      PROVE  /\ Unasked' = Unasked /\ Arrived' = Arrived
             /\ \A p \in ParseThreads : Parsed(p)' = Parsed(p)
  BY <1>3, SameKinds, SameArrived
<1>4. CASE Pop(w)
  <2> DEFINE batch == FirstOf(already_callback_queue, DealNum)
  <2>1. /\ UNCHANGED <<kinds, packet_queue, packets, called>>
        /\ already_callback_queue' = RestOf(already_callback_queue, DealNum)
        /\ request_queue' = [request_queue EXCEPT ![w] = batch]
        /\ work_pc' = [work_pc EXCEPT ![w] = "batch"]
    BY <1>4 DEF Pop
  <2>2. SortedIn(already_callback_queue, Unasked)
    BY DEF OrderInv
  <2>3. /\ SortedIn(batch, Unasked) /\ SortedIn(already_callback_queue', Unasked)
        /\ Ahead(Range(batch), Queued', Unasked)
    BY <1>1, <2>1, <2>2, SortedBatch DEF Queued
  <2>4. Queued = Range(batch) \cup Queued'
    BY <1>1, <2>1, BatchElements DEF Queued
  <2> HIDE DEF batch
  <2>5. request_queue'[w] = batch /\ work_pc'[w] = "batch"
    BY <1>1, <2>1 DEF WorkersOK
  <2>6. Uncalled(w)' = batch /\ Batched' = Range(batch)
    BY <1>2, <2>5 DEF Uncalled, Batch
  <2>7. Called' = Called
    BY <2>1 DEF Called
  <2>8. /\ Ahead(Called', Batched', Unasked') /\ Ahead(Called', Queued', Unasked')
        /\ Ahead(Called', Arrived', Unasked') /\ Ahead(Batched', Queued', Unasked')
        /\ Ahead(Batched', Arrived', Unasked') /\ Ahead(Queued', Arrived', Unasked')
    BY <1>3, <2>1, <2>3, <2>4, <2>6, <2>7 DEF OrderInv, Ahead
  <2> QED  BY <1>1, <1>3, <2>1, <2>3, <2>6, <2>8 DEF OrderInv
<1>5. CASE Call(w)
  <2> DEFINE id == Head(request_queue[w])
  <2>1. /\ UNCHANGED <<kinds, packet_queue, packets, already_callback_queue, request_queue>>
        /\ called' = Append(called, id)
        /\ work_pc' = [work_pc EXCEPT ![w] = "delete"] /\ work_pc[w] = "call"
    BY <1>5 DEF Call
  <2>2. /\ request_queue[w] # <<>> /\ Uncalled(w) = request_queue[w]
        /\ Uncalled(w)' = Tail(request_queue[w])
    BY <1>1, <2>1 DEF WorkersOK, Uncalled
  <2>3. SortedIn(request_queue[w], Unasked)
    BY <2>2 DEF OrderInv
  <2>4. SortedIn(Uncalled(w)', Unasked) /\ Ahead({id}, Batched', Unasked)
    BY <1>1, <1>2, <2>2, <2>3, SortedTail DEF Batch
  <2>5. id \in Issued /\ Batched = Batched' \cup {id}
    BY <1>1, <1>2, <2>2, TailElements DEF Batch
  <2> HIDE DEF id
  <2>6. Ahead(Range(called), {id}, Unasked)
    BY <2>5 DEF OrderInv, Ahead, Called
  <2>7. SortedIn(called', Unasked) /\ Called' = Called \cup {id}
    BY <1>1, <2>1, <2>5, <2>6, SortedAppend, AppendElement DEF OrderInv, Called
  <2>8. Queued' = Queued
    BY <2>1 DEF Queued
  <2>9. /\ Ahead(Called', Batched', Unasked') /\ Ahead(Called', Queued', Unasked')
        /\ Ahead(Called', Arrived', Unasked') /\ Ahead(Batched', Queued', Unasked')
        /\ Ahead(Batched', Arrived', Unasked') /\ Ahead(Queued', Arrived', Unasked')
    BY <1>3, <2>1, <2>4, <2>5, <2>7, <2>8 DEF OrderInv, Ahead
  <2> QED  BY <1>1, <1>3, <2>1, <2>4, <2>7, <2>9 DEF OrderInv
<1>6. CASE EndBatch(w)
  <2>1. /\ UNCHANGED <<kinds, packet_queue, packets, already_callback_queue, called>>
        /\ request_queue' = [request_queue EXCEPT ![w] = <<>>]
        /\ work_pc' = [work_pc EXCEPT ![w] = "pop"]
    BY <1>6 DEF EndBatch
  <2>2. Uncalled(w)' = <<>> /\ Batched' = {}
    BY <1>1, <1>2, <2>1, EmptyRange DEF WorkersOK, Uncalled, Batch
  <2>3. SortedIn(Uncalled(w)', Unasked)
    BY <2>2 DEF SortedIn
  <2>4. Called' = Called /\ Queued' = Queued
    BY <2>1 DEF Called, Queued
  <2> QED  BY <1>1, <1>3, <2>1, <2>2, <2>3, <2>4, OrderKept DEF OrderInv
<1>7. CASE Front(w) \/ Delete(w) \/ EndWork(w)
  <2>1. Uncalled(w)' = Uncalled(w)
    BY <1>1, <1>7 DEF Front, Delete, EndWork, WorkersOK, Uncalled
  <2>2. UNCHANGED <<kinds, packet_queue, packets, already_callback_queue, called>>
    BY <1>7 DEF Front, Delete, EndWork
  <2> QED  BY <1>1, <1>3, <2>1, <2>2, OrderSame
<1> QED  BY <1>4, <1>5, <1>6, <1>7 DEF WorkThread

LEMMA OrderInit == Init => OrderInv
<1> SUFFICES ASSUME Init  PROVE OrderInv
  OBVIOUS
<1>1. Issued = {} /\ Unasked = {}
  BY DEF Init, Issued, Unasked
<1> QED  BY <1>1 DEF OrderInv, SortedIn, Ahead

(* With one parse thread and one work thread, notifications are called in   *)
(* the order they were sent, however often the channel is restarted.        *)
THEOREM NotificationsKeepOrder ==
  ASSUME OneThreadEach
  PROVE  Spec => []NotifiedInOrder
<1>1. Init => OrderInv
  BY OrderInit
<1>2. LifeInv /\ OrderInv /\ [Next]_vars => OrderInv'
  BY ClientOrder, ArriveOrder, ParseOrder, WorkOrder DEF Next
<1>3. LifeInv /\ OrderInv => NotifiedInOrder
  <2> SUFFICES ASSUME LifeInv, OrderInv, NEW i \in DOMAIN called, NEW j \in DOMAIN called,
                      i < j, {kinds[called[i]], kinds[called[j]]} \subseteq Keys
               PROVE  called[i] < called[j]
    BY DEF NotifiedInOrder
  <2>1. called[i] \in Issued /\ called[j] \in Issued
    BY PlacesHoldIssued DEF LifeInv
  <2> QED  BY <2>1 DEF OrderInv, SortedIn, Unasked
<1> QED  BY <1>1, <1>2, <1>3, LifeInvariant, PTL DEF Spec
=============================================================================
