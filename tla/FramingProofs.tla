--------------------------- MODULE FramingProofs ---------------------------
(***************************************************************************)
(* Proofs about the framing of channels, servers and routes, for packets   *)
(* of every size and a stream cut anywhere: the first two handle each      *)
(* packet once; a route may handle it again, but no less than the others.  *)
(***************************************************************************)
EXTENDS Framing, TLAPS

(* The packets handled are those deleted from the buffer, in order. *)
TakenInv == /\ handler \in Handlers
            /\ ends \in Seq(Nat)
            /\ taken \in 0..Len(ends)
            /\ handled = [i \in 1..taken |-> i]

(* Handling a batch continues the numbers where the last one stopped. *)
LEMMA BatchContinues ==
  ASSUME NEW m \in Nat, NEW k \in Nat, m <= k
  PROVE  [i \in 1..m |-> i] \o [j \in 1..(k - m) |-> m + j] = [i \in 1..k |-> i]
<1> DEFINE first == [i \in 1..m |-> i]
           batch == [j \in 1..(k - m) |-> m + j]
           both == [i \in 1..k |-> i]
<1>1. first \in Seq(Nat) /\ Len(first) = m
  OBVIOUS
<1>2. batch \in Seq(Nat) /\ Len(batch) = k - m
  OBVIOUS
<1>3. both \in Seq(Nat) /\ Len(both) = k
  OBVIOUS
<1>4. \A i \in 1..m : first[i] = i
  OBVIOUS
<1>5. \A j \in 1..(k - m) : batch[j] = m + j
  OBVIOUS
<1>6. \A i \in 1..k : both[i] = i
  OBVIOUS
<1> HIDE DEF first, batch, both
<1>7. first \o batch \in Seq(Nat) /\ Len(first \o batch) = k
  BY <1>1, <1>2
<1>8. ASSUME NEW i \in 1..k PROVE (first \o batch)[i] = both[i]
  <2>1. CASE i <= m
    BY <1>1, <1>2, <1>4, <1>6, <2>1
  <2>2. CASE i > m
    <3>1. (first \o batch)[i] = batch[i - m]
      BY <1>1, <1>2, <2>2
    <3>2. i - m \in 1..(k - m)
      BY <2>2
    <3>3. batch[i - m] = m + (i - m)
      BY <1>5, <3>2
    <3>4. m + (i - m) = i
      BY <2>2
    <3>5. both[i] = i
      BY <1>6
    <3> QED BY <3>1, <3>3, <3>4, <3>5
  <2>3. \A n \in 1..k : n <= m \/ n > m
    OBVIOUS
  <2> QED BY <2>1, <2>2, <2>3
<1>9. first \o batch = both
  <2>1. \A s \in Seq(Nat) : s = [i \in 1..Len(s) |-> s[i]]
    OBVIOUS
  <2>2. first \o batch = [i \in 1..k |-> (first \o batch)[i]]
    BY <1>7, <2>1
  <2>3. both = [i \in 1..k |-> both[i]]
    BY <1>3, <2>1
  <2> QED BY <1>8, <2>2, <2>3
<1> QED BY <1>9 DEF first, batch, both

LEMMA TakenStep ==
  ASSUME "route" \notin Handlers, TakenInv, [Next]_vars
  PROVE  TakenInv'
<1>1. ASSUME NEW size \in Sizes, Send(size) PROVE TakenInv'
  <2>1. SentUpTo \in Nat
    BY DEF TakenInv, SentUpTo, Begin
  <2>2. SentUpTo + HeaderSize + size \in Nat
    BY <2>1, FramingConstants
  <2>3. ends' \in Seq(Nat) /\ Len(ends') = Len(ends) + 1
    BY <1>1, <2>2 DEF Send, TakenInv
  <2> QED BY <1>1, <2>3 DEF Send, TakenInv
<1>2. ASSUME NEW upto \in 1..SentUpTo, OnReceive(upto) PROVE TakenInv'
  <2>1. PICK k \in taken..Len(ends) : /\ handled' = handled \o Batch(k)
                                      /\ taken' = ReadSize(k, upto)
    BY <1>2 DEF OnReceive
  <2>2. taken' = k
    BY <2>1 DEF ReadSize, TakenInv
  <2>3. taken \in Nat /\ k \in Nat /\ taken <= k /\ k <= Len(ends)
    BY DEF TakenInv
  <2>4. PICK m \in Nat : m = taken
    BY <2>3
  <2>5. handled' = [i \in 1..k |-> i]
    BY <2>1, <2>3, <2>4, BatchContinues DEF TakenInv, Batch
  <2>6. handler' = handler /\ ends' = ends
    BY <1>2 DEF OnReceive
  <2> QED BY <2>2, <2>3, <2>5, <2>6 DEF TakenInv
<1>3. CASE UNCHANGED vars
  BY <1>3 DEF vars, TakenInv
<1> QED BY <1>1, <1>2, <1>3 DEF Next

(* A channel or a server handles every packet once and in order, whatever   *)
(* the sizes of packets are and wherever the network cuts the stream.       *)
THEOREM PacketsHandledOnce == "route" \notin Handlers /\ Spec => []HandledOnce
<1>1. Init => TakenInv
  BY DEF Init, TakenInv
<1>2. TakenInv => HandledOnce
  BY DEF TakenInv, HandledOnce
<1>3. CASE "route" \in Handlers
  BY <1>3
<1>4. CASE "route" \notin Handlers
  <2>1. TakenInv /\ [Next]_vars => TakenInv'
    BY <1>4, TakenStep
  <2> QED BY <1>1, <1>2, <2>1, PTL DEF Spec
<1> QED BY <1>3, <1>4
-----------------------------------------------------------------------------
(* All three callbacks count what was sent and what they took of it.        *)
LEMMA EndsAreNumbers ==
  ASSUME ends \in Seq(Nat)
  PROVE  /\ \A i \in 1..(Len(ends) + 1) : Begin(i) \in Nat
         /\ SentUpTo \in Nat /\ SentUpTo = Begin(Len(ends) + 1)
         /\ \A i \in 1..Len(ends) : Begin(i + 1) = ends[i]
<1>1. Len(ends) \in Nat /\ \A i \in 1..Len(ends) : ends[i] \in Nat
  OBVIOUS
<1>2. ASSUME NEW i \in 1..(Len(ends) + 1) PROVE Begin(i) \in Nat
  <2>1. i # 1 => i - 1 \in 1..Len(ends)
    BY <1>1
  <2> QED BY <1>1, <2>1 DEF Begin
<1>3. ASSUME NEW i \in 1..Len(ends) PROVE Begin(i + 1) = ends[i]
  <2>1. i + 1 # 1 /\ (i + 1) - 1 = i
    BY <1>1
  <2> QED BY <2>1 DEF Begin
<1>4. SentUpTo \in Nat
  BY <1>1, <1>2 DEF SentUpTo
<1> QED BY <1>2, <1>3, <1>4 DEF SentUpTo

(* What sending one more packet does to the stream. *)
LEMMA SendAppends ==
  ASSUME ends \in Seq(Nat), NEW size \in Sizes, Send(size)
  PROVE  /\ ends' \in Seq(Nat) /\ Len(ends') = Len(ends) + 1
         /\ \A i \in 1..Len(ends) : ends'[i] = ends[i]
         /\ \A i \in 1..(Len(ends) + 1) : Begin(i)' = Begin(i)
         /\ \A i \in 1..Len(ends) : TooLong(i)' <=> TooLong(i)
         /\ ends'[Len(ends) + 1] = SentUpTo + HeaderSize + size
         /\ SentUpTo' = SentUpTo + HeaderSize + size
         /\ SentUpTo \in Nat
<1>1. SentUpTo \in Nat
  BY EndsAreNumbers
<1>2. SentUpTo + HeaderSize + size \in Nat
  BY <1>1, FramingConstants
<1>3. /\ ends' \in Seq(Nat) /\ Len(ends') = Len(ends) + 1
      /\ \A i \in 1..Len(ends) : ends'[i] = ends[i]
      /\ ends'[Len(ends) + 1] = SentUpTo + HeaderSize + size
  BY <1>2 DEF Send
<1>4. ASSUME NEW i \in 1..(Len(ends) + 1) PROVE Begin(i)' = Begin(i)
  <2>1. i # 1 => i - 1 \in 1..Len(ends)
    OBVIOUS
  <2> QED BY <1>3, <2>1 DEF Begin
<1>5. SentUpTo' = SentUpTo + HeaderSize + size
  BY <1>3 DEF SentUpTo, Begin
<1> QED BY <1>1, <1>3, <1>4, <1>5 DEF TooLong

LEMMA TypeStep == TypeOK /\ [Next]_vars => TypeOK'
<1> SUFFICES ASSUME TypeOK, [Next]_vars PROVE TypeOK'
  OBVIOUS
<1>1. ASSUME NEW size \in Sizes, Send(size) PROVE TypeOK'
  <2>1. /\ ends' \in Seq(Nat) /\ Len(ends') = Len(ends) + 1
        /\ SentUpTo' = SentUpTo + HeaderSize + size /\ SentUpTo \in Nat
    BY <1>1, SendAppends DEF TypeOK
  <2>2. Len(ends) + 1 <= MaxPackets
    BY <1>1, FramingConstants DEF Send, TypeOK
  <2>3. received' \in 0..SentUpTo'
    BY <1>1, <2>1, FramingConstants DEF Send, TypeOK
  <2>4. handled' \in Seq(1..Len(ends'))
    <3>1. \A S, T : \A s \in Seq(S) : S \subseteq T => s \in Seq(T)
      OBVIOUS
    <3>2. 1..Len(ends) \subseteq 1..Len(ends')
      BY <2>1 DEF TypeOK
    <3> QED BY <1>1, <3>1, <3>2 DEF Send, TypeOK
  <2> QED BY <1>1, <2>1, <2>2, <2>3, <2>4 DEF Send, TypeOK
<1>2. ASSUME NEW upto \in 1..SentUpTo, OnReceive(upto) PROVE TypeOK'
  <2>1. PICK k \in taken..Len(ends) : /\ handled' = handled \o Batch(k)
                                      /\ open' = ~Refuses(k + 1, upto)
                                      /\ taken' = ReadSize(k, upto)
    BY <1>2 DEF OnReceive
  <2>2. /\ ends' = ends /\ handler' = handler /\ received' = upto
        /\ SentUpTo' = SentUpTo
    BY <1>2 DEF OnReceive, SentUpTo, Begin
  <2>3. taken' \in 0..Len(ends)
    BY <2>1 DEF ReadSize, TypeOK
  <2>4. Batch(k) \in Seq(1..Len(ends))
    BY DEF Batch, TypeOK
  <2>5. handled' \in Seq(1..Len(ends))
    BY <2>1, <2>4 DEF TypeOK
  <2>6. received' \in 0..SentUpTo
    BY <2>2, EndsAreNumbers DEF TypeOK
  <2>7. open' \in BOOLEAN
    BY <2>1
  <2> QED BY <2>2, <2>3, <2>5, <2>6, <2>7 DEF TypeOK
<1>3. CASE UNCHANGED vars
  BY <1>3 DEF vars, TypeOK, SentUpTo, Begin
<1> QED BY <1>1, <1>2, <1>3 DEF Next

(* Types hold for all three callbacks, the route's included. *)
THEOREM TypeCorrect == Spec => []TypeOK
<1>1. Init => TypeOK
  BY FramingConstants DEF Init, TypeOK, SentUpTo, Begin
<1> QED BY <1>1, TypeStep, PTL DEF Spec
-----------------------------------------------------------------------------
(* Packets follow each other in the stream, none is empty, and none that    *)
(* was taken was too long.  All that was taken was handled before.          *)
OrderInv == /\ \A i \in DOMAIN ends : Begin(i) + HeaderSize < ends[i]
            /\ \A i, j \in DOMAIN ends : i <= j => ends[i] <= ends[j]
ShortInv == \A i \in 1..taken : ~TooLong(i)
TakenIsHandled == 1..taken \subseteq Range(handled)
FramingInv == /\ TypeOK /\ OrderInv /\ ShortInv /\ TakenIsHandled
              /\ NothingIsSkipped /\ NothingIsHeldBack /\ LongIsRefused

LEMMA SendKeeps ==
  ASSUME FramingInv, NEW size \in Sizes, Send(size)
  PROVE  FramingInv'
<1> DEFINE n == Len(ends)
<1>1. /\ ends \in Seq(Nat) /\ n \in Nat
      /\ received \in 0..SentUpTo /\ taken \in 0..n
      /\ DOMAIN ends = 1..n /\ size \in Nat \ {0} /\ HeaderSize \in Nat \ {0}
  BY FramingConstants DEF FramingInv, TypeOK
<1>2. /\ ends' \in Seq(Nat) /\ Len(ends') = n + 1
      /\ \A i \in 1..n : ends'[i] = ends[i]
      /\ \A i \in 1..(n + 1) : Begin(i)' = Begin(i)
      /\ \A i \in 1..n : TooLong(i)' <=> TooLong(i)
      /\ ends'[n + 1] = SentUpTo + HeaderSize + size
      /\ SentUpTo \in Nat
  BY <1>1, SendAppends
<1>3. DOMAIN ends' = 1..(n + 1) /\ Begin(n + 1) = SentUpTo
  BY <1>2, EndsAreNumbers DEF SentUpTo
<1>4. /\ handler' = handler /\ received' = received /\ taken' = taken
      /\ open' = open /\ handled' = handled
  BY DEF Send
<1>5. \A i \in 1..n : ends[i] \in Nat /\ ends[i] <= SentUpTo
  <2>1. \A i \in 1..n : ends[i] \in Nat
    BY <1>1
  <2>2. \A i \in 1..n : ends[i] <= ends[n]
    BY <1>1 DEF FramingInv, OrderInv
  <2>3. n # 0 => SentUpTo = ends[n]
    BY <1>1 DEF SentUpTo, Begin
  <2> QED BY <1>1, <2>1, <2>2, <2>3
<1> HIDE DEF n
<1>6. OrderInv'
  <2>1. ASSUME NEW i \in 1..(n + 1) PROVE Begin(i)' + HeaderSize < ends'[i]
    <3>1. CASE i = n + 1
      BY <1>1, <1>2, <1>3, <3>1
    <3>2. CASE i \in 1..n
      BY <1>1, <1>2, <3>2 DEF FramingInv, OrderInv
    <3> QED BY <1>1, <3>1, <3>2
  <2>2. ASSUME NEW i \in 1..(n + 1), NEW j \in 1..(n + 1), i <= j PROVE ends'[i] <= ends'[j]
    <3>1. CASE j \in 1..n
      <4>1. i \in 1..n
        BY <1>1, <2>2, <3>1
      <4> QED BY <1>1, <1>2, <2>2, <3>1, <4>1 DEF FramingInv, OrderInv
    <3>2. CASE j = n + 1 /\ i \in 1..n
      BY <1>1, <1>2, <1>5, <3>2
    <3>3. CASE j = n + 1 /\ i = n + 1
      BY <1>1, <1>2, <3>3
    <3> QED BY <1>1, <3>1, <3>2, <3>3
  <2> QED BY <1>3, <2>1, <2>2 DEF OrderInv
<1>7. ShortInv'
  BY <1>1, <1>2, <1>4 DEF FramingInv, ShortInv
<1>8. NothingIsHeldBack'
  <2> SUFFICES ASSUME open, NEW i \in 1..(n + 1), ends'[i] <= received
               PROVE  i \in Range(handled)
    BY <1>3, <1>4 DEF NothingIsHeldBack
  <2>1. i # n + 1
    BY <1>1, <1>2
  <2>2. i \in 1..n /\ ends[i] <= received
    BY <1>1, <1>2, <2>1
  <2> QED BY <1>1, <2>2 DEF FramingInv, NothingIsHeldBack
<1>9. LongIsRefused'
  <2> SUFFICES ASSUME handler = "channel", open, NEW i \in 1..(n + 1), TooLong(i)'
               PROVE  received <= Begin(i) + HeaderSize
    BY <1>2, <1>3, <1>4 DEF LongIsRefused
  <2>1. CASE i = n + 1
    BY <1>1, <1>2, <1>3, <2>1
  <2>2. CASE i \in 1..n
    BY <1>1, <1>2, <2>2 DEF FramingInv, LongIsRefused
  <2> QED BY <1>1, <2>1, <2>2
<1>10. TakenIsHandled' /\ NothingIsSkipped'
  BY <1>4 DEF FramingInv, TakenIsHandled, NothingIsSkipped
<1>11. TypeOK'
  BY TypeStep DEF FramingInv, Next
<1> QED BY <1>6, <1>7, <1>8, <1>9, <1>10, <1>11 DEF FramingInv

(* The first m elements of q have no gap; they have all numbers up to t.    *)
NoGap(q, m) == 
  \A i \in 1..m : \A p \in 1..(q[i] - 1) : \E j \in 1..m : j < i /\ q[j] = p
HasAll(q, m, t) == \A p \in 1..t : \E j \in 1..m : q[j] = p

(* What is handled, and then the next ones from wherever the loop begins    *)
(* again, is without a gap.                                                 *)
LEMMA NoGapFrom ==
  ASSUME NEW m \in Nat, NEW q, NoGap(q, m), NEW t \in Nat, HasAll(q, m, t),
         NEW more \in Nat, NEW r, \A i \in 1..m : r[i] = q[i],
         \A j \in 1..more : r[m + j] = t + j
  PROVE  NoGap(r, m + more) /\ HasAll(r, m + more, t + more)
<1>1. ASSUME NEW p \in 1..t PROVE \E j \in 1..m : r[j] = p
  BY DEF HasAll
<1>2. ASSUME NEW p \in (t + 1)..(t + more)
      PROVE  \E j \in 1..more : p = t + j /\ m + j \in 1..(m + more) /\ r[m + j] = p
  <2>1. PICK j \in 1..more : p = t + j
    <3>1. p - t \in 1..more /\ p = t + (p - t)
      OBVIOUS
    <3> QED BY <3>1
  <2>2. m + j \in 1..(m + more) /\ r[m + j] = t + j
    OBVIOUS
  <2> QED BY <2>1, <2>2
<1>3. ASSUME NEW i \in 1..(m + more), NEW p \in 1..(r[i] - 1)
      PROVE  \E j \in 1..(m + more) : j < i /\ r[j] = p
  <2>1. CASE i \in 1..m
    <3>1. PICK j \in 1..m : j < i /\ q[j] = p
      BY <2>1 DEF NoGap
    <3> QED BY <3>1
  <2>2. CASE i \notin 1..m
    <3>1. PICK l \in 1..more : i = m + l
      <4>1. i - m \in 1..more /\ i = m + (i - m)
        BY <2>2
      <4> QED BY <4>1
    <3>2. p \in 1..(t + l - 1)
      BY <3>1
    <3>3. CASE p \in 1..t
      BY <1>1, <3>1, <3>3
    <3>4. CASE p \notin 1..t
      <4>1. p \in (t + 1)..(t + more)
        BY <3>2, <3>4
      <4>2. PICK j \in 1..more : p = t + j /\ m + j \in 1..(m + more) /\ r[m + j] = p
        BY <1>2, <4>1
      <4>3. m + j < i
        BY <3>1, <3>2, <4>2
      <4> QED BY <4>2, <4>3
    <3> QED BY <3>3, <3>4
  <2> QED BY <2>1, <2>2
<1>4. ASSUME NEW p \in 1..(t + more) PROVE \E j \in 1..(m + more) : r[j] = p
  <2>1. p \in 1..t \/ p \in (t + 1)..(t + more)
    OBVIOUS
  <2> QED BY <1>1, <1>2, <2>1
<1> QED BY <1>3, <1>4 DEF NoGap, HasAll

LEMMA Concatenation ==
  ASSUME NEW q \in Seq(Nat), NEW b \in Seq(Nat)
  PROVE  /\ DOMAIN (q \o b) = 1..(Len(q) + Len(b))
         /\ \A i \in 1..Len(q) : (q \o b)[i] = q[i]
         /\ \A j \in 1..Len(b) : (q \o b)[Len(q) + j] = b[j]
  OBVIOUS

LEMMA BatchLeavesNoGap ==
  ASSUME NEW k \in Nat, taken \in Nat, taken <= k, handled \in Seq(Nat),
         TakenIsHandled, NothingIsSkipped, handled' = handled \o Batch(k)
  PROVE  /\ NothingIsSkipped'
         /\ Range(handled) \cup 1..k \subseteq Range(handled')
<1>1. PICK m \in Nat : m = Len(handled) /\ DOMAIN handled = 1..m
  OBVIOUS
<1>2. PICK more \in Nat : k = taken + more
  <2>1. k - taken \in Nat /\ k = taken + (k - taken)
    OBVIOUS
  <2> QED BY <2>1
<1>3. /\ Batch(k) \in Seq(Nat) /\ Len(Batch(k)) = more
      /\ \A j \in 1..more : Batch(k)[j] = taken + j
  BY <1>2 DEF Batch
<1>4. PICK r : r = handled'
  OBVIOUS
<1>5. /\ DOMAIN r = 1..(m + more)
      /\ \A i \in 1..m : r[i] = handled[i]
      /\ \A j \in 1..more : r[m + j] = taken + j
  <2>1. PICK b : b = Batch(k) /\ b \in Seq(Nat) /\ Len(b) = more
    BY <1>3
  <2>2. r = handled \o b
    BY <1>4, <2>1
  <2>3. /\ DOMAIN r = 1..(Len(handled) + Len(b))
        /\ \A i \in 1..Len(handled) : r[i] = handled[i]
        /\ \A j \in 1..Len(b) : r[Len(handled) + j] = b[j]
    BY <2>1, <2>2, Concatenation, Zenon
  <2>4. Len(handled) = m /\ Len(b) = more /\ \A j \in 1..more : b[j] = taken + j
    BY <1>1, <1>3, <2>1
  <2> QED BY <2>3, <2>4
<1>6. NoGap(handled, m)
  BY <1>1 DEF NothingIsSkipped, NoGap
<1>7. HasAll(handled, m, taken)
  BY <1>1 DEF TakenIsHandled, HasAll, Range
<1>8. NoGap(r, m + more) /\ HasAll(r, m + more, k)
  BY <1>2, <1>5, <1>6, <1>7, NoGapFrom
<1>9. NothingIsSkipped'
  <2>1. \A i \in DOMAIN r : \A p \in 1..(r[i] - 1) : \E j \in DOMAIN r : j < i /\ r[j] = p
    BY <1>5, <1>8 DEF NoGap
  <2> QED BY <1>4, <2>1, Zenon DEF NothingIsSkipped
<1>10. 1..k \subseteq Range(r)
  BY <1>5, <1>8 DEF Range, HasAll
<1>11. Range(handled) \subseteq Range(r)
  BY <1>1, <1>5 DEF Range
<1> QED BY <1>4, <1>9, <1>10, <1>11

(* The loop stops at the first packet that is not complete, or is refused.  *)
LEMMA ReceiveKeeps ==
  ASSUME FramingInv, NEW upto \in 1..SentUpTo, OnReceive(upto)
  PROVE  FramingInv'
<1> DEFINE n == Len(ends)
<1>1. /\ ends \in Seq(Nat) /\ n \in Nat /\ taken \in 0..n
      /\ DOMAIN ends = 1..n /\ HeaderSize \in Nat \ {0}
      /\ handler \in {"channel", "server", "route"}
  BY FramingConstants DEF FramingInv, TypeOK
<1>2. PICK k \in taken..n : /\ \A i \in (taken + 1)..k : Handles(i, upto)
                            /\ ~Handles(k + 1, upto)
                            /\ open' = ~Refuses(k + 1, upto)
                            /\ taken' = ReadSize(k, upto)
                            /\ handled' = handled \o Batch(k)
  BY DEF OnReceive
<1>3. taken' \in {taken, k} /\ k \in 0..n
  BY <1>1, <1>2 DEF ReadSize
<1>4. ends' = ends /\ received' = upto /\ handler' = handler
  BY DEF OnReceive
<1>5. \A i \in 1..n : ends[i] \in Nat /\ Begin(i) \in Nat /\ Begin(i + 1) = ends[i]
  BY <1>1, EndsAreNumbers
<1>6. upto \in Nat
  BY <1>1, EndsAreNumbers
<1>7. /\ \A i \in 1..n : Begin(i) + HeaderSize < ends[i]
      /\ \A i, j \in 1..n : i <= j => ends[i] <= ends[j]
  BY <1>1 DEF FramingInv, OrderInv
<1> HIDE DEF n
<1>8. OrderInv'
  BY <1>4 DEF OrderInv, Begin, FramingInv
<1>s. \A i \in 1..k : ~TooLong(i)
  <2>1. \A i \in 1..k : i \in 1..taken \/ i \in (taken + 1)..k
    BY <1>1, <1>3
  <2> QED BY <1>2, <2>1 DEF FramingInv, ShortInv, Handles
<1>9. ShortInv'
  <2>1. 1..taken' \subseteq 1..k
    BY <1>1, <1>2, <1>3
  <2> QED BY <1>4, <1>s, <2>1 DEF ShortInv, TooLong, Begin
<1>h. NothingIsSkipped' /\ Range(handled) \cup 1..k \subseteq Range(handled')
  <2>1. handled \in Seq(Nat)
    <3>1. handled \in Seq(1..n)
      BY DEF FramingInv, TypeOK, n
    <3>2. \A i \in 1..Len(handled) : handled[i] \in Nat
      BY <1>1, <3>1
    <3> QED BY <3>1, <3>2
  <2>2. taken <= k /\ taken \in Nat /\ k \in Nat
    BY <1>1, <1>2
  <2> QED BY <1>2, <2>1, <2>2, BatchLeavesNoGap DEF FramingInv
<1>t. TakenIsHandled'
  <2>1. 1..taken' \subseteq 1..k
    BY <1>1, <1>2, <1>3
  <2> QED BY <1>h, <2>1 DEF TakenIsHandled
<1>10. ASSUME open', k + 1 \in 1..n, Reaches(k + 1, upto)
       PROVE  upto < ends[k + 1] /\ (handler = "channel" => ~TooLong(k + 1))
  <2>1. ~Refuses(k + 1, upto) /\ ~Handles(k + 1, upto)
    BY <1>2, <1>10
  <2>2. CASE ends[k + 1] <= upto
    BY <1>10, <2>1, <2>2 DEF Refuses, Handles, Complete
  <2>3. CASE ~(ends[k + 1] <= upto)
    BY <1>1, <1>3, <1>4, <1>5, <1>6, <1>10, <2>1, <2>3 DEF Refuses, Handles, Complete
  <2> QED BY <2>2, <2>3
<1>11. NothingIsHeldBack'
  <2> SUFFICES ASSUME open', NEW i \in 1..n, ends[i] <= upto PROVE i <= k
    BY <1>1, <1>3, <1>4, <1>h DEF NothingIsHeldBack
  <2> SUFFICES ASSUME ~(i <= k) PROVE FALSE
    OBVIOUS
  <2>1. k + 1 \in 1..n /\ k + 1 <= i
    BY <1>1, <1>3
  <2>2. ends[k + 1] <= upto
    BY <1>5, <1>6, <1>7, <2>1
  <2>3. Reaches(k + 1, upto)
    <3>1. k + 1 <= Len(ends)
      BY <2>1 DEF n
    <3>2. Begin(k + 1) + HeaderSize < ends[k + 1] /\ Begin(k + 1) \in Nat /\ ends[k + 1] \in Nat
      BY <1>5, <1>7, <2>1
    <3>3. upto - Begin(k + 1) > HeaderSize
      BY <1>1, <1>6, <2>2, <3>2
    <3> QED BY <3>1, <3>3 DEF Reaches
  <2> QED BY <1>5, <1>6, <1>10, <2>1, <2>2, <2>3
<1>12. LongIsRefused'
  <2> SUFFICES ASSUME handler = "channel", open', NEW i \in 1..n, TooLong(i)
               PROVE  upto <= Begin(i) + HeaderSize
    BY <1>1, <1>4 DEF LongIsRefused, TooLong, Begin
  <2>1. i \notin 1..k
    BY <1>s
  <2>2. k + 1 \in 1..n /\ k + 1 <= i
    BY <1>1, <1>3, <2>1
  <2>3. ~Reaches(k + 1, upto) => upto <= Begin(k + 1) + HeaderSize
    BY <1>1, <1>5, <1>6, <2>2 DEF Reaches, n
  <2>4. CASE i = k + 1
    BY <1>10, <2>2, <2>3, <2>4
  <2>5. CASE k + 1 < i
    <3>1. ends[k + 1] <= Begin(i)
      <4>1. i - 1 \in 1..n /\ k + 1 <= i - 1 /\ Begin(i) = ends[i - 1]
        BY <1>1, <1>3, <2>2, <2>5 DEF Begin
      <4> QED BY <1>7, <2>2, <4>1
    <3>2. upto <= ends[k + 1]
      <4>1. CASE Reaches(k + 1, upto)
        BY <1>5, <1>6, <1>10, <2>2, <4>1
      <4>2. CASE ~Reaches(k + 1, upto)
        <5>1. Begin(k + 1) + HeaderSize < ends[k + 1] /\ Begin(k + 1) \in Nat /\ ends[k + 1] \in Nat
          BY <1>5, <1>7, <2>2
        <5> QED BY <1>1, <1>6, <2>3, <4>2, <5>1
      <4> QED BY <4>1, <4>2
    <3>3. Begin(i) \in Nat /\ ends[k + 1] \in Nat
      BY <1>5, <2>2
    <3> QED BY <1>1, <1>6, <3>1, <3>2, <3>3
  <2> QED BY <1>1, <1>3, <2>2, <2>4, <2>5
<1>13. TypeOK'
  BY TypeStep DEF FramingInv, Next
<1> QED BY <1>8, <1>9, <1>11, <1>12, <1>13, <1>h, <1>t DEF FramingInv

LEMMA FramingInvariant == Spec => []FramingInv
<1>1. Init => FramingInv
  BY FramingConstants DEF Init, FramingInv, TypeOK, OrderInv, ShortInv, TakenIsHandled,
       NothingIsSkipped, NothingIsHeldBack, LongIsRefused, SentUpTo, Begin
<1>2. FramingInv /\ UNCHANGED vars => FramingInv'
  BY DEF FramingInv, vars, TypeOK, OrderInv, ShortInv, TakenIsHandled, NothingIsSkipped,
         NothingIsHeldBack, LongIsRefused, SentUpTo, TooLong, Begin
<1>3. FramingInv /\ [Next]_vars => FramingInv'
  BY <1>2, SendKeeps, ReceiveKeeps DEF Next
<1> QED BY <1>1, <1>3, PTL DEF Spec

(* A packet that has arrived as a whole is handled before the callback      *)
(* returns, whatever the sizes are and however the stream is cut: also by   *)
(* the route, whose loop leaves handled packets in the buffer.              *)
THEOREM NothingWaitsForMore == Spec => []NothingIsHeldBack
<1>1. FramingInv => NothingIsHeldBack
  BY DEF FramingInv
<1> QED BY <1>1, FramingInvariant, PTL

(* No callback skips a packet, the route's neither: what it handles again   *)
(* are packets whose turn was before, and new ones come in their order.     *)
THEOREM NothingStaysSkipped == Spec => []NothingIsSkipped
<1>1. FramingInv => NothingIsSkipped
  BY DEF FramingInv
<1> QED BY <1>1, FramingInvariant, PTL

(* A channel closes the connection when it has read that a packet is too    *)
(* long, and does not take in the rest of it.                               *)
THEOREM LongPacketsAreRefused == Spec => []LongIsRefused
<1>1. FramingInv => LongIsRefused
  BY DEF FramingInv
<1> QED BY <1>1, FramingInvariant, PTL
=============================================================================
