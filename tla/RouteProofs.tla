---------------------------- MODULE RouteProofs ----------------------------
(***************************************************************************)
(* Proofs about the route, for any sockets, services and addresses.        *)
(* Whatever servers register: who is registered is found, bound channels   *)
(* keep their server, and requests are dropped only if nobody is there.     *)
(* Where a server registers one service under an address of its own: the    *)
(* maps agree, bindings are never inherited, requests are shared equally,   *)
(* and Route implements ServiceDirectory.                                   *)
(***************************************************************************)
EXTENDS RouteProperties, SequenceTheorems, WellFoundedInduction, TLAPS

LEMMA LeastIsIn ==
  ASSUME NEW I \in SUBSET Nat, I # {}
  PROVE  Min(I) \in I
<1> DEFINE R == OpToRel(<, Nat)
<1>1. IsWellFoundedOn(R, Nat)
  BY NatLessThanWellFounded
<1>2. \A x, y \in Nat : y < x => <<y, x>> \in R
  BY DEF OpToRel
<1> HIDE DEF R
<1>3. PICK x \in I : \A y \in I : ~ (<<y, x>> \in R)
  BY <1>1, WFMin
<1>4. \A y \in I : ~(y < x)
  <2> SUFFICES ASSUME NEW y \in I, y < x PROVE FALSE
    OBVIOUS
  <2>1. <<y, x>> \in R
    BY <1>2
  <2> QED BY <1>3, <2>1
<1>5. \A y \in I : x =< y
  BY <1>4
<1> QED BY <1>3, <1>5 DEF Min

(* A sequence without its element at k. *)
LEMMA WithoutPosition ==
  ASSUME NEW S, NEW q \in Seq(S), NEW k \in 1..Len(q)
  PROVE  LET left == RemoveAt(q, k)
         IN  /\ left \in Seq(S) /\ Len(left) = Len(q) - 1 /\ DOMAIN left = 1..(Len(q) - 1)
             /\ \A i \in 1..(Len(q) - 1) : left[i] = IF i < k THEN q[i] ELSE q[i + 1]
<1> DEFINE left == SubSeq(q, 1, k - 1) \o SubSeq(q, k + 1, Len(q))
<1>0. k \in 1..Len(q) /\ Len(q) \in Nat /\ DOMAIN q = 1..Len(q)
  OBVIOUS
<1>r. RemoveAt(q, k) = left
  BY DEF RemoveAt
<1> DEFINE a == SubSeq(q, 1, k - 1)
           b == SubSeq(q, k + 1, Len(q))
<1>1. a \in Seq(S) /\ Len(a) = k - 1 /\ \A i \in 1..(k - 1) : a[i] = q[i]
  <2>1. \A i \in 1..(k - 1) : q[i] \in S
    BY <1>0
  <2> QED BY <2>1, <1>0, SubSeqProperties
<1>2. b \in Seq(S) /\ Len(b) = Len(q) - k /\ \A i \in 1..(Len(q) - k) : b[i] = q[k + i]
  <2>1. \A i \in (k + 1)..Len(q) : q[i] \in S
    BY <1>0
  <2>2. /\ b \in Seq(S)
        /\ Len(b) = IF k + 1 <= Len(q) THEN Len(q) - (k + 1) + 1 ELSE 0
        /\ \A i \in 1..(Len(q) - (k + 1) + 1) : b[i] = q[k + 1 + i - 1]
    BY <2>1, <1>0, SubSeqProperties
  <2> HIDE DEF b
  <2>3. Len(b) = Len(q) - k
    <3>1. \A l \in Nat : \A j \in 1..l :
            (IF j + 1 <= l THEN l - (j + 1) + 1 ELSE 0) = l - j
      OBVIOUS
    <3> QED BY <3>1, <2>2, <1>0
  <2>4. ASSUME NEW i \in 1..(Len(q) - k)
        PROVE  b[i] = q[k + i]
    <3>1. i \in 1..(Len(q) - (k + 1) + 1) /\ k + 1 + i - 1 = k + i
      BY <1>0
    <3>2. b[i] = q[k + 1 + i - 1]
      BY <3>1, <2>2
    <3> QED BY <3>1, <3>2
  <2> QED BY <2>2, <2>3, <2>4
<1> HIDE DEF a, b
<1>3. /\ a \o b \in Seq(S) /\ Len(a \o b) = Len(a) + Len(b)
      /\ \A i \in 1..(Len(a) + Len(b)) :
            (a \o b)[i] = IF i <= Len(a) THEN a[i] ELSE b[i - Len(a)]
  BY <1>1, <1>2, ConcatProperties
<1> left = a \o b
  BY DEF a, b
<1> HIDE DEF left
<1>4. /\ left \in Seq(S) /\ Len(left) = Len(q) - 1 /\ DOMAIN left = 1..(Len(q) - 1)
  BY <1>1, <1>2, <1>3, <1>0
<1>5. ASSUME NEW i \in 1..(Len(q) - 1)
      PROVE  left[i] = IF i < k THEN q[i] ELSE q[i + 1]
  <2>1. left[i] = IF i <= k - 1 THEN a[i] ELSE b[i - (k - 1)]
    BY <1>1, <1>2, <1>3, <1>0
  <2>2. CASE i < k
    BY <2>1, <2>2, <1>1, <1>0
  <2>3. CASE ~(i < k)
    <3>1. i - (k - 1) \in 1..(Len(q) - k) /\ k + (i - (k - 1)) = i + 1
      BY <2>3, <1>0
    <3>2. left[i] = b[i - (k - 1)]
      BY <2>1, <2>3, <1>0
    <3> QED BY <3>1, <3>2, <2>3, <1>2
  <2> QED BY <2>2, <2>3
<1> QED BY <1>r, <1>4, <1>5

LEMMA FirstIsRemoved ==
  ASSUME NEW S, NEW q \in Seq(S), NEW e, \E i \in 1..Len(q) : q[i] = e
  PROVE  \E k \in 1..Len(q) : q[k] = e /\ RemoveFirst(q, e) = RemoveAt(q, k)
<1> DEFINE I == {i \in 1..Len(q) : q[i] = e}
<1>1. I \in SUBSET Nat /\ I # {}
  OBVIOUS
<1>2. SelectInSeq(q, LAMBDA v : v = e) = Min(I)
  BY <1>1 DEF SelectInSeq
<1>3. RemoveFirst(q, e) = RemoveAt(q, Min(I))
  BY <1>2 DEF RemoveFirst
<1> HIDE DEF I
<1>4. Min(I) \in I
  BY <1>1, LeastIsIn
<1> QED BY <1>3, <1>4 DEF I

(* A sequence without the first e has lost nothing but an e.                *)
LEMMA RemoveFirstKeeps ==
  ASSUME NEW S, NEW q \in Seq(S), NEW e
  PROVE  /\ RemoveFirst(q, e) \in Seq(S)
         /\ \A x : x \in Range(q) /\ x # e => x \in Range(RemoveFirst(q, e))
<1>1. CASE ~ \E i \in 1..Len(q) : q[i] = e
  BY <1>1 DEF RemoveFirst
<1>2. CASE \E i \in 1..Len(q) : q[i] = e
  <2>1. PICK k \in 1..Len(q) : q[k] = e /\ RemoveFirst(q, e) = RemoveAt(q, k)
    BY <1>2, FirstIsRemoved
  <2> DEFINE left == RemoveAt(q, k)
  <2>2. /\ left \in Seq(S) /\ DOMAIN left = 1..(Len(q) - 1)
        /\ \A i \in 1..(Len(q) - 1) : left[i] = IF i < k THEN q[i] ELSE q[i + 1]
    BY WithoutPosition
  <2>3. Len(q) \in Nat /\ DOMAIN q = 1..Len(q)
    OBVIOUS
  <2> HIDE DEF left
  <2>4. ASSUME NEW j \in DOMAIN q, q[j] # e
        PROVE  \E i \in DOMAIN left : left[i] = q[j]
    <3>1. CASE j < k
      BY <3>1, <2>1, <2>2, <2>3
    <3>2. CASE j > k
      <4>1. j - 1 \in DOMAIN left /\ ~(j - 1 < k) /\ left[j - 1] = q[(j - 1) + 1]
        BY <3>2, <2>1, <2>2, <2>3
      <4> QED BY <4>1, <2>3
    <3>3. j # k
      BY <2>1, <2>4
    <3> QED BY <3>1, <3>2, <3>3, <2>1, <2>3
  <2> QED BY <2>1, <2>2, <2>4 DEF Range, left
<1> QED BY <1>1, <1>2

(* A sequence without its only e. *)
LEMMA RemoveFirstElements ==
  ASSUME NEW S, NEW q \in Seq(S), IsInjective(q), NEW e
  PROVE  /\ RemoveFirst(q, e) \in Seq(S)
         /\ IsInjective(RemoveFirst(q, e))
         /\ Range(RemoveFirst(q, e)) = Range(q) \ {e}
<1>1. CASE ~ \E i \in 1..Len(q) : q[i] = e
  <2>1. RemoveFirst(q, e) = q
    BY <1>1 DEF RemoveFirst
  <2>2. DOMAIN q = 1..Len(q)
    OBVIOUS
  <2> QED BY <2>1, <2>2, <1>1 DEF Range
<1>2. CASE \E i \in 1..Len(q) : q[i] = e
  <2>1. PICK k \in 1..Len(q) : q[k] = e /\ RemoveFirst(q, e) = RemoveAt(q, k)
    BY <1>2, FirstIsRemoved
  <2>2. DOMAIN q = 1..Len(q) /\ Len(q) \in Nat
    OBVIOUS
  <2> DEFINE left == RemoveAt(q, k)
  <2>6. RemoveFirst(q, e) = left
    BY <2>1
  <2>7. /\ left \in Seq(S) /\ Len(left) = Len(q) - 1 /\ DOMAIN left = 1..(Len(q) - 1)
        /\ \A i \in 1..(Len(q) - 1) : left[i] = IF i < k THEN q[i] ELSE q[i + 1]
    BY WithoutPosition
  <2> HIDE DEF left
  <2>8. ASSUME NEW i \in DOMAIN left, NEW j \in DOMAIN left, left[i] = left[j]
        PROVE  i = j
    <3> DEFINE at(n) == IF n < k THEN n ELSE n + 1
    <3>1. /\ at(i) \in 1..Len(q) /\ left[i] = q[at(i)]
          /\ at(j) \in 1..Len(q) /\ left[j] = q[at(j)]
      BY <2>7, <2>1, <2>2
    <3>2. at(i) = at(j)
      BY <3>1, <2>8, <2>2 DEF IsInjective
    <3> QED BY <3>2, <2>7, <2>1, <2>2
  <2>9. ASSUME NEW x
        PROVE  (\E i \in DOMAIN left : left[i] = x) <=> x # e /\ \E i \in DOMAIN q : q[i] = x
    <3>1. ASSUME NEW i \in DOMAIN left, left[i] = x
          PROVE  x # e /\ \E j \in DOMAIN q : q[j] = x
      <4>1. CASE i < k
        BY <3>1, <4>1, <2>1, <2>2, <2>7 DEF IsInjective
      <4>2. CASE ~(i < k)
        <5>1. i + 1 \in DOMAIN q /\ i + 1 # k /\ q[i + 1] = x
          BY <3>1, <4>2, <2>1, <2>2, <2>7
        <5> QED BY <5>1, <2>1, <2>2 DEF IsInjective
      <4> QED BY <4>1, <4>2
    <3>2. ASSUME NEW j \in DOMAIN q, q[j] = x, x # e
          PROVE  \E i \in DOMAIN left : left[i] = x
      <4>1. CASE j < k
        BY <3>2, <4>1, <2>1, <2>2, <2>7
      <4>2. CASE j > k
        <5>1. j - 1 \in DOMAIN left /\ ~(j - 1 < k) /\ left[j - 1] = q[(j - 1) + 1]
          BY <4>2, <2>1, <2>2, <2>7
        <5> QED BY <5>1, <3>2, <2>2
      <4>3. j # k
        BY <3>2, <2>1
      <4> QED BY <4>1, <4>2, <4>3, <2>1, <2>2
    <3> QED BY <3>1, <3>2
  <2>10. IsInjective(left)
    BY <2>8 DEF IsInjective
  <2>11. Range(left) = Range(q) \ {e}
    BY <2>9 DEF Range
  <2> QED BY <2>6, <2>7, <2>10, <2>11
<1> QED BY <1>1, <1>2

(* A sequence with a new element at its end. *)
LEMMA AppendElements ==
  ASSUME NEW S, NEW q \in Seq(S), IsInjective(q), NEW e \in S, e \notin Range(q)
  PROVE  /\ Append(q, e) \in Seq(S)
         /\ IsInjective(Append(q, e))
         /\ Range(Append(q, e)) = Range(q) \cup {e}
<1> DEFINE more == Append(q, e)
<1>1. /\ more \in Seq(S) /\ DOMAIN q = 1..Len(q) /\ Len(q) \in Nat
      /\ DOMAIN more = 1..(Len(q) + 1)
      /\ \A i \in 1..Len(q) : more[i] = q[i]
      /\ more[Len(q) + 1] = e
  OBVIOUS
<1> HIDE DEF more
<1>2. DOMAIN more = DOMAIN q \cup {Len(q) + 1}
  BY <1>1
<1>3. IsInjective(more)
  BY <1>1, <1>2 DEF IsInjective, Range
<1>4. Range(more) = Range(q) \cup {e}
  BY <1>1, <1>2 DEF Range
<1> QED BY <1>1, <1>3, <1>4 DEF more
-----------------------------------------------------------------------------
(* A server registers one service, under an address of its own.             *)
OneServiceEach == ~ManyServices /\ ~SharedAddr

(* Only a server is registered. *)
RoleInv == \A s \in Sockets : registered[s] # {} => role[s] = "server"

(* Only a channel has bindings, its own, and none is changed once made.     *)
BindInv == \A c \in Sockets, n \in Services :
             Bound(c, n) => /\ role[c] = "channel"
                            /\ bound_at[c][n].own
                            /\ bound_at[c][n].to = channel_service_register[c][n]

(* What was just sent came from a channel that is still there. *)
SentInv == \A p \in sent : role[p.from] = "channel"

RouteInv == TypeOK /\ RegistryAgrees /\ RoleInv /\ BindInv /\ SentInv
-----------------------------------------------------------------------------
LEMMA InitRoute == Init => RouteInv
<1> SUFFICES ASSUME Init PROVE RouteInv
  OBVIOUS
<1>1. TypeOK
  <2>1. RegistryType
    BY RouteConstants DEF Init, RegistryType
  <2>2. BindingType
    <3>1. NoBinding \in [to : Sockets \cup {NoSocket}, own : BOOLEAN, alive : BOOLEAN]
      BY DEF NoBinding
    <3> QED BY <3>1, RouteConstants DEF Init, BindingType
  <2>3. NetworkType
    BY DEF Init, NetworkType
  <2>4. PeerType
    BY RouteConstants DEF Init, PeerType
  <2> QED BY <2>1, <2>2, <2>3, <2>4 DEF TypeOK
<1>2. RegistryAgrees
  BY RouteConstants DEF Init, RegistryAgrees, ServersOf, IsInjective, Range
<1>3. RoleInv /\ BindInv /\ SentInv
  BY DEF Init, RoleInv, BindInv, SentInv, Bound
<1> QED BY <1>1, <1>2, <1>3 DEF RouteInv

(* A socket can be deleted exactly when it is registered for a service, the *)
(* one that service_socket_2name_ holds.                                    *)
LEMMA RegisteredIsKnown ==
  ASSUME TypeOK, RegistryAgrees, NEW s \in Sockets
  PROVE  /\ CanDelete(s) <=> registered[s] # {}
         /\ IsServiceSocket(s) <=> registered[s] # {}
         /\ \A n \in Services : n \in registered[s] => registered[s] = {n}
<1> registered[s] \subseteq Services /\ service_socket_2name[s] \in Services \cup {NoService}
  BY DEF TypeOK, PeerType, RegistryType
<1>1. \A n \in Services : n \in registered[s] <=> service_socket_2name[s] = n
  BY DEF RegistryAgrees
<1>2. IsServiceSocket(s) <=> registered[s] # {}
  BY <1>1, RouteConstants DEF IsServiceSocket
<1>3. ASSUME NEW n \in Services, n \in registered[s]
      PROVE  sockets[n] # <<>>
  BY <1>3 DEF RegistryAgrees, ServersOf, Range
<1> QED BY <1>1, <1>2, <1>3 DEF CanDelete, IsServiceSocket

(* The maps agree after DeleteService, when s is told of no service either. *)
LEMMA DeleteServiceAgrees ==
  ASSUME TypeOK, RegistryAgrees, NEW s \in Sockets, DeleteService(s),
         registered' = [registered EXCEPT ![s] = {}],
         addr' \in [Sockets -> Addrs], \A t \in Sockets \ {s} : addr'[t] = addr[t]
  PROVE  /\ RegistryType' /\ RegistryAgrees'
         /\ served' \in [Services -> SUBSET Sockets]
<1> DEFINE m == service_socket_2name[s]
           left == RemoveFirst(sockets[m], s)
<1>t. /\ RegistryType /\ registered \in [Sockets -> SUBSET Services]
      /\ served \in [Services -> SUBSET Sockets]
  BY DEF TypeOK, PeerType
<1>1. CASE registered[s] = {}
  <2>1. UNCHANGED <<registry, served>> /\ registered' = registered
    BY <1>1, <1>t, RegisteredIsKnown DEF DeleteService
  <2>2. RegistryType' /\ served' \in [Services -> SUBSET Sockets]
    BY <1>t, <2>1 DEF registry, RegistryType
  <2>3. \A n \in Services : s \notin ServersOf(n)
    BY <1>1 DEF RegistryAgrees
  <2>4. ASSUME NEW n \in Services
        PROVE  /\ \A t \in Sockets : n \in registered'[t] <=> addr_2socket'[n][addr'[t]] = t
               /\ \A a \in Addrs : addr_2socket'[n][a] # NoSocket =>
                                     /\ addr_2socket'[n][a] \in ServersOf(n)'
                                     /\ addr'[addr_2socket'[n][a]] = a
    <3>1. ServersOf(n)' = ServersOf(n)
      BY <2>1 DEF registry, ServersOf
    <3>2. ASSUME NEW a \in Addrs, addr_2socket[n][a] # NoSocket
          PROVE  /\ addr_2socket[n][a] \in ServersOf(n) \ {s} 
                 /\ addr_2socket[n][a] \in Sockets
                 /\ addr'[addr_2socket[n][a]] = a
      BY <1>t, <2>3, <3>2 DEF RegistryAgrees, RegistryType
    <3>3. ASSUME NEW t \in Sockets
          PROVE  n \in registered'[t] <=> addr_2socket'[n][addr'[t]] = t
      <4>1. CASE t = s
        BY <4>1, <3>2, <2>1, <1>1, RouteConstants DEF registry
      <4>2. CASE t # s
        BY <4>2, <2>1 DEF registry, RegistryAgrees
      <4> QED BY <4>1, <4>2
    <3> QED BY <3>1, <3>2, <3>3, <2>1 DEF registry
  <2> QED BY <2>1, <2>2, <2>4 DEF registry, RegistryAgrees, ServersOf
<1>2. CASE registered[s] # {}
  <2>1. /\ CanDelete(s) /\ m \in Services /\ registered[s] = {m}
        /\ \A n \in Services : n \in registered[s] <=> n = m
    BY <1>2, <1>t, RegisteredIsKnown DEF RegistryAgrees
  <2>2. /\ sockets' = [sockets EXCEPT ![m] = left]
        /\ \E addrs \in OtherAddrs(s, m) :
             addr_2socket' = [addr_2socket EXCEPT ![m] = addrs]
        /\ cur_send_index' = [cur_send_index EXCEPT ![m] = IF left = <<>> THEN 0 ELSE @]
        /\ service_socket_2name' = [service_socket_2name EXCEPT ![s] = NoService]
        /\ served' = [served EXCEPT ![m] = {}]
    BY <2>1 DEF DeleteService
  <2>3. /\ left \in Seq(Sockets) /\ IsInjective(left)
        /\ Range(left) = ServersOf(m) \ {s}
    <3>1. /\ sockets[m] \in Seq(Sockets) /\ IsInjective(sockets[m])
      BY <2>1, <1>t DEF RegistryAgrees, RegistryType
    <3> QED BY <3>1, RemoveFirstElements DEF ServersOf
  <2> HIDE DEF left, m
  <2>4. PICK addrs \in [Addrs -> Sockets \cup {NoSocket}] :
             /\ addr_2socket' = [addr_2socket EXCEPT ![m] = addrs]
             /\ \A a \in Addrs : addrs[a] = IF addr_2socket[m][a] = s THEN NoSocket
                                                                    ELSE addr_2socket[m][a]
    <3>1. PICK addrs \in OtherAddrs(s, m) : addr_2socket' = [addr_2socket EXCEPT ![m] = addrs]
      BY <2>2
    <3>2. addr[s] \in Addrs /\ addr_2socket[m][addr[s]] = s
      BY <2>1 DEF RegistryAgrees, TypeOK, PeerType
    <3>3. {a \in Addrs : addr_2socket[m][a] = s} = {addr[s]}
      BY <3>2, <2>1, RouteConstants DEF RegistryAgrees
    <3>4. addrs = [addr_2socket[m] EXCEPT ![addr[s]] = NoSocket]
      BY <3>1, <3>3 DEF OtherAddrs
    <3>5. addr_2socket[m] \in [Addrs -> Sockets \cup {NoSocket}]
      BY <1>t, <2>1 DEF RegistryType
    <3>6. addrs \in [Addrs -> Sockets \cup {NoSocket}]
      BY <3>4, <3>5
    <3>7. \A a \in Addrs : addr_2socket[m][a] = s <=> a = addr[s]
      BY <3>2, <3>3
    <3>8. \A a \in Addrs : addrs[a] = IF a = addr[s] THEN NoSocket ELSE addr_2socket[m][a]
      BY <3>2, <3>4, <3>5
    <3> QED BY <3>1, <3>6, <3>7, <3>8
  <2>5. RegistryType' /\ served' \in [Services -> SUBSET Sockets]
    BY <1>t, <2>1, <2>2, <2>3, <2>4 DEF RegistryType
  <2>6. ASSUME NEW n \in Services
        PROVE  /\ ServersOf(n)' = {t \in Sockets : n \in registered'[t]}
               /\ IsInjective(sockets'[n])
               /\ \A t \in Sockets : /\ n \in registered'[t] <=> service_socket_2name'[t] = n
                                     /\ n \in registered'[t] <=> addr_2socket'[n][addr'[t]] = t
               /\ \A a \in Addrs : addr_2socket'[n][a] # NoSocket =>
                                     /\ addr_2socket'[n][a] \in ServersOf(n)'
                                     /\ addr'[addr_2socket'[n][a]] = a
    <3>1. ServersOf(n)' = ServersOf(n) \ {s}
      <4>1. CASE n = m
        <5>1. sockets'[n] = left
          BY <4>1, <1>t, <2>2 DEF RegistryType
        <5> QED BY <4>1, <5>1, <2>3 DEF ServersOf
      <4>2. CASE n # m
        <5>1. s \notin ServersOf(n)
          BY <4>2, <2>1 DEF RegistryAgrees
        <5>2. sockets'[n] = sockets[n]
          BY <4>2, <1>t, <2>2 DEF RegistryType
        <5> QED BY <5>1, <5>2 DEF ServersOf
      <4> QED BY <4>1, <4>2
    <3>2. IsInjective(sockets'[n])
      BY <1>t, <2>2, <2>3 DEF RegistryAgrees, RegistryType
    <3>3. \A t \in Sockets : n \in registered'[t] <=> t # s /\ n \in registered[t]
      BY <1>t
    <3>4. \A a \in Addrs : addr_2socket'[n][a] = IF addr_2socket[n][a] = s THEN NoSocket
                                                                    ELSE addr_2socket[n][a]
      <4>1. CASE n = m
        BY <4>1, <1>t, <2>4 DEF RegistryType
      <4>2. CASE n # m
        <5>1. \A a \in Addrs : addr_2socket[n][a] # s
          BY <4>2, <2>1, RouteConstants DEF RegistryAgrees
        <5> QED BY <5>1, <4>2, <1>t, <2>4 DEF RegistryType
      <4> QED BY <4>1, <4>2
    <3>5. ASSUME NEW t \in Sockets
          PROVE  n \in registered'[t] <=> service_socket_2name'[t] = n
      BY <3>3, <1>t, <2>1, <2>2, RouteConstants DEF RegistryAgrees, RegistryType
    <3>6. ASSUME NEW a \in Addrs, addr_2socket'[n][a] # NoSocket
          PROVE  addr_2socket'[n][a] \in ServersOf(n)' /\ addr'[addr_2socket'[n][a]] = a
      <4>1. addr_2socket'[n][a] = addr_2socket[n][a] /\ addr_2socket[n][a] # s
        BY <3>4, <3>6
      <4>2. addr_2socket[n][a] \in ServersOf(n) /\ addr[addr_2socket[n][a]] = a
        BY <4>1, <3>6 DEF RegistryAgrees
      <4>3. addr_2socket[n][a] \in Sockets \ {s}
        BY <4>1, <4>2, <1>t, <3>6 DEF RegistryType
      <4> QED BY <4>1, <4>2, <4>3, <3>1
    <3>7. ASSUME NEW t \in Sockets
          PROVE  n \in registered'[t] <=> addr_2socket'[n][addr'[t]] = t
      <4>1. CASE t = s
        BY <4>1, <3>3, <3>4, RouteConstants
      <4>2. CASE t # s
        <5>1. addr'[t] = addr[t] /\ addr[t] \in Addrs
          BY <4>2
        <5>2. n \in registered[t] <=> addr_2socket[n][addr[t]] = t
          BY DEF RegistryAgrees
        <5> QED BY <4>2, <5>1, <5>2, <3>3, <3>4, RouteConstants
      <4> QED BY <4>1, <4>2
    <3>8. ServersOf(n)' = {t \in Sockets : n \in registered'[t]}
      BY <3>1, <3>3 DEF RegistryAgrees
    <3> QED BY <3>2, <3>5, <3>6, <3>7, <3>8
  <2> QED BY <2>5, <2>6 DEF RegistryAgrees, ServersOf
<1> QED BY <1>1, <1>2

(* No registration is refused when each server has its own address.         *)
LEMMA RegistrationIsAccepted ==
  ASSUME OneServiceEach, TypeOK, RegistryAgrees, RoleInv,
         NEW s \in Sockets, NEW n \in Services, ServerServiceRegister(s, n)
  PROVE  /\ addr_2socket[n][addr[s]] = NoSocket
         /\ registered[s] = {} /\ service_socket_2name[s] = NoService
         /\ s \notin ServersOf(n)
<1> addr[s] \in Addrs /\ addr_2socket[n][addr[s]] \in Sockets \cup {NoSocket}
  BY DEF TypeOK, PeerType, RegistryType
<1>1. registered[s] = {} /\ AddrIsFree(s)
  BY DEF ServerServiceRegister, OneServiceEach
<1>2. service_socket_2name[s] = NoService
  BY <1>1, RegisteredIsKnown DEF IsServiceSocket
<1>3. s \notin ServersOf(n)
  BY <1>1 DEF RegistryAgrees
<1>4. ASSUME addr_2socket[n][addr[s]] # NoSocket
      PROVE  FALSE
  <2> DEFINE t == addr_2socket[n][addr[s]]
  <2>1. t \in Sockets \ {s} /\ n \in registered[t] /\ addr[t] = addr[s]
    BY <1>3, <1>4 DEF RegistryAgrees
  <2>2. role[t] = "server"
    BY <2>1 DEF RoleInv
  <2> QED BY <1>1, <2>1, <2>2 DEF AddrIsFree
<1> QED BY <1>1, <1>2, <1>3, <1>4

LEMMA AddServiceAgrees ==
  ASSUME OneServiceEach, TypeOK, RegistryAgrees, RoleInv,
         NEW s \in Sockets, NEW n \in Services, ServerServiceRegister(s, n)
  PROVE  RegistryType' /\ RegistryAgrees' /\ PeerType'
<1>t. RegistryType /\ PeerType
  BY DEF TypeOK
<1>1. /\ addr_2socket[n][addr[s]] = NoSocket
      /\ registered[s] = {} /\ service_socket_2name[s] = NoService
      /\ s \notin ServersOf(n)
  BY RegistrationIsAccepted
<1>2. /\ sockets' = [sockets EXCEPT ![n] = Append(@, s)]
      /\ addr_2socket' = [addr_2socket EXCEPT ![n][addr[s]] = s]
      /\ cur_send_index' = cur_send_index
      /\ service_socket_2name' = [service_socket_2name EXCEPT ![s] = n]
      /\ registered' = [registered EXCEPT ![s] = @ \cup {n}]
      /\ served' = [served EXCEPT ![n] = {}]
      /\ UNCHANGED <<role, addr>>
  BY <1>1, <1>t DEF ServerServiceRegister, AddService, RegistryType
<1>3. /\ Append(sockets[n], s) \in Seq(Sockets)
      /\ IsInjective(Append(sockets[n], s))
      /\ Range(Append(sockets[n], s)) = ServersOf(n) \cup {s}
  <2>1. sockets[n] \in Seq(Sockets) /\ IsInjective(sockets[n]) /\ s \notin Range(sockets[n])
    BY <1>t, <1>1 DEF RegistryAgrees, RegistryType, ServersOf
  <2> QED BY <2>1, AppendElements DEF ServersOf
<1>4. /\ RegistryType' /\ registered' \in [Sockets -> SUBSET Services]
      /\ served' \in [Services -> SUBSET Sockets]
  BY <1>t, <1>2, <1>3 DEF RegistryType, PeerType
<1>5. ASSUME NEW m \in Services
      PROVE  /\ ServersOf(m)' = {t \in Sockets : m \in registered'[t]}
             /\ IsInjective(sockets'[m])
             /\ \A t \in Sockets : /\ m \in registered'[t] <=> service_socket_2name'[t] = m
                                   /\ m \in registered'[t] <=> addr_2socket'[m][addr'[t]] = t
             /\ \A a \in Addrs : addr_2socket'[m][a] # NoSocket =>
                                   /\ addr_2socket'[m][a] \in ServersOf(m)'
                                   /\ addr'[addr_2socket'[m][a]] = a
  <2>1. ServersOf(m)' = IF m = n THEN ServersOf(m) \cup {s} ELSE ServersOf(m)
    <3>1. CASE m = n
      <4>1. sockets'[m] = Append(sockets[n], s)
        BY <3>1, <1>t, <1>2 DEF RegistryType
      <4> QED BY <3>1, <4>1, <1>3 DEF ServersOf
    <3>2. CASE m # n
      <4>1. sockets'[m] = sockets[m]
        BY <3>2, <1>t, <1>2 DEF RegistryType
      <4> QED BY <3>2, <4>1 DEF ServersOf
    <3> QED BY <3>1, <3>2
  <2>2. \A t \in Sockets : m \in registered'[t] <=> (m \in registered[t] \/ (m = n /\ t = s))
    BY <1>t, <1>2 DEF PeerType
  <2>3. \A a \in Addrs : addr_2socket'[m][a] = IF m = n /\ a = addr[s] THEN s
                                                                  ELSE addr_2socket[m][a]
    BY <1>t, <1>2 DEF RegistryType
  <2>4. ServersOf(m)' = {t \in Sockets : m \in registered'[t]}
    BY <2>1, <2>2 DEF RegistryAgrees
  <2>5. IsInjective(sockets'[m])
    BY <1>t, <1>2, <1>3 DEF RegistryAgrees, RegistryType
  <2>6. ASSUME NEW t \in Sockets
        PROVE  m \in registered'[t] <=> service_socket_2name'[t] = m
    BY <2>2, <1>t, <1>1, <1>2 DEF RegistryAgrees, RegistryType
  <2>7. ASSUME NEW t \in Sockets
        PROVE  m \in registered'[t] <=> addr_2socket'[m][addr'[t]] = t
    <3>1. addr'[t] = addr[t] /\ addr[t] \in Addrs
      BY <1>t, <1>2 DEF PeerType
    <3>2. m \in registered[t] <=> addr_2socket[m][addr[t]] = t
      BY DEF RegistryAgrees
    <3> QED BY <3>1, <3>2, <2>2, <2>3, <1>1, RouteConstants
  <2>8. ASSUME NEW a \in Addrs, addr_2socket'[m][a] # NoSocket
        PROVE  addr_2socket'[m][a] \in ServersOf(m)' /\ addr'[addr_2socket'[m][a]] = a
    BY <2>8, <2>3, <2>1, <1>2 DEF RegistryAgrees
  <2> QED BY <2>4, <2>5, <2>6, <2>7, <2>8
<1> QED BY <1>t, <1>2, <1>4, <1>5 DEF RegistryAgrees, PeerType, ServersOf
-----------------------------------------------------------------------------
LEMMA ConnectStep ==
  ASSUME RouteInv, NEW s \in Sockets, NEW r \in {"channel", "server"}, NEW a \in Addrs,
         OnConnect(s, r, a)
  PROVE  RouteInv'
<1>t. TypeOK /\ RegistryAgrees /\ RoleInv /\ BindInv
  BY DEF RouteInv
<1>1. /\ role[s] = "closed" /\ sent' = {}
      /\ role' = [role EXCEPT ![s] = r] /\ addr' = [addr EXCEPT ![s] = a]
      /\ UNCHANGED <<sockets, addr_2socket, cur_send_index, service_socket_2name,
                     channel_service_register, closing, registered, bound_at, served>>
  BY DEF OnConnect, Open, registry
<1>2. registered[s] = {} /\ \A n \in Services : ~Bound(s, n) /\ s \notin ServersOf(n)
  <2>1. registered[s] = {}
    BY <1>t, <1>1 DEF RoleInv
  <2>2. \A n \in Services : ~Bound(s, n)
    BY <1>t, <1>1 DEF BindInv
  <2> QED BY <2>1, <2>2, <1>t DEF RegistryAgrees
<1>3. TypeOK'
  <2>1. RegistryType' /\ BindingType' /\ NetworkType'
    BY <1>t, <1>1 DEF TypeOK, RegistryType, BindingType, NetworkType
  <2>2. PeerType'
    BY <1>t, <1>1 DEF TypeOK, PeerType
  <2> QED BY <2>1, <2>2 DEF TypeOK
<1>4. RegistryAgrees'
  <2>1. addr \in [Sockets -> Addrs] /\ RegistryType
    BY <1>t DEF TypeOK, PeerType
  <2>2. ASSUME NEW n \in Services, NEW b \in Addrs, addr_2socket[n][b] # NoSocket
        PROVE  addr_2socket[n][b] \in ServersOf(n) /\ addr'[addr_2socket[n][b]] = b
    <3>1. addr_2socket[n][b] \in ServersOf(n) /\ addr[addr_2socket[n][b]] = b
      BY <2>2, <1>t DEF RegistryAgrees
    <3>2. addr_2socket[n][b] \in Sockets \ {s}
      BY <2>1, <2>2, <3>1, <1>2 DEF RegistryType
    <3> QED BY <3>1, <3>2, <2>1, <1>1
  <2>3. ASSUME NEW n \in Services, NEW t \in Sockets
        PROVE  n \in registered[t] <=> addr_2socket[n][addr'[t]] = t
    <3>1. CASE t = s
      <4>1. addr_2socket[n][a] # s
        BY <2>2, <1>2, RouteConstants
      <4> QED BY <4>1, <3>1, <2>1, <1>1, <1>2
    <3>2. CASE t # s
      BY <3>2, <2>1, <1>1, <1>t DEF RegistryAgrees
    <3> QED BY <3>1, <3>2
  <2> QED BY <2>2, <2>3, <1>1, <1>t DEF RegistryAgrees, ServersOf
<1>5. RoleInv'
  BY <1>1, <1>2, <1>t DEF RoleInv, TypeOK, PeerType
<1>6. BindInv'
  BY <1>1, <1>2, <1>t DEF BindInv, Bound, TypeOK, PeerType
<1>7. SentInv'
  BY <1>1 DEF SentInv
<1> QED BY <1>3, <1>4, <1>5, <1>6, <1>7 DEF RouteInv

(* What becomes of the bindings when s leaves. *)
LEMMA DisconnectBindings ==
  ASSUME BindingType, NEW s \in Sockets, Unbind(s), bound_at' = Bindings(s)
  PROVE  /\ BindingType'
         /\ \A c \in Sockets, n \in Services :
              /\ channel_service_register'[c][n] \in {NoSocket, channel_service_register[c][n]}
              /\ channel_service_register'[c][n] # NoSocket =>
                   /\ bound_at'[c][n].to = bound_at[c][n].to
                   /\ bound_at'[c][n].own = (bound_at[c][n].own /\ c # s)
                   /\ bound_at'[c][n].alive = (bound_at[c][n].alive /\ bound_at[c][n].to # s)
<1>t. channel_service_register \in [Sockets -> [Services -> Sockets \cup {NoSocket}]]
  BY DEF BindingType
<1>a. bound_at' = Bindings(s)
  OBVIOUS
<1>b. \A c \in Sockets, n \in Services :
        bound_at'[c][n] = IF channel_service_register'[c][n] = NoSocket THEN NoBinding
                          ELSE [to |-> bound_at[c][n].to,
                                own |-> bound_at[c][n].own /\ c # s,
                                alive |-> bound_at[c][n].alive /\ bound_at[c][n].to # s]
  BY <1>a DEF Bindings
<1>c. /\ channel_service_register' \in [Sockets -> [Services -> Sockets \cup {NoSocket}]]
      /\ \A c \in Sockets, n \in Services :
           channel_service_register'[c][n] \in {NoSocket, channel_service_register[c][n]}
  <2>1. CASE IsServiceSocket(s)
    BY <2>1, <1>t DEF Unbind
  <2>2. CASE ~IsServiceSocket(s)
    BY <2>2, <1>t DEF Unbind
  <2> QED BY <2>1, <2>2
<1>d. ASSUME NEW c \in Sockets, NEW n \in Services, channel_service_register'[c][n] # NoSocket
      PROVE  /\ bound_at'[c][n].to = bound_at[c][n].to
             /\ bound_at'[c][n].own = (bound_at[c][n].own /\ c # s)
             /\ bound_at'[c][n].alive = (bound_at[c][n].alive /\ bound_at[c][n].to # s)
  <2>1. bound_at'[c][n] = [to |-> bound_at[c][n].to,
                           own |-> bound_at[c][n].own /\ c # s,
                           alive |-> bound_at[c][n].alive /\ bound_at[c][n].to # s]
    BY <1>b, <1>d
  <2> QED BY <2>1
<1> DEFINE B == [to : Sockets \cup {NoSocket}, own : BOOLEAN, alive : BOOLEAN]
<1>1. ASSUME NEW c \in Sockets, NEW n \in Services
      PROVE  bound_at'[c][n] \in B
  <2>1. bound_at[c][n] \in B
    BY DEF BindingType
  <2>2. NoBinding \in B
    BY DEF NoBinding
  <2>3. ASSUME NEW to \in Sockets \cup {NoSocket}, NEW own \in BOOLEAN, NEW alive \in BOOLEAN
        PROVE  [to |-> to, own |-> own, alive |-> alive] \in B
    OBVIOUS
  <2>4. CASE channel_service_register'[c][n] = NoSocket
    BY <2>2, <2>4, <1>b
  <2>5. CASE channel_service_register'[c][n] # NoSocket
    <3> DEFINE own == bound_at[c][n].own /\ c # s
               alive == bound_at[c][n].alive /\ bound_at[c][n].to # s
    <3>1. bound_at[c][n].to \in Sockets \cup {NoSocket} /\ own \in BOOLEAN /\ alive \in BOOLEAN
      BY <2>1
    <3>2. bound_at'[c][n] = [to |-> bound_at[c][n].to, own |-> own, alive |-> alive]
      BY <2>5, <1>b
    <3> HIDE DEF own, alive
    <3> QED BY <2>3, <3>1, <3>2
  <2> QED BY <2>4, <2>5
<1>2. bound_at' = [c \in Sockets |-> [n \in Services |-> bound_at'[c][n]]]
  BY <1>a DEF Bindings
<1> HIDE DEF B
<1>3. bound_at' \in [Sockets -> [Services -> B]]
  BY <1>1, <1>2
<1>4. BindingType'
  BY <1>3, <1>c DEF BindingType, B
<1> QED BY <1>4, <1>c, <1>d

LEMMA DisconnectStep ==
  ASSUME RouteInv, NEW s \in Sockets, OnDisconnect(s)
  PROVE  RouteInv'
<1>t. TypeOK /\ RegistryAgrees /\ RoleInv /\ BindInv
  BY DEF RouteInv
<1>1. /\ DeleteService(s) /\ Unbind(s) /\ bound_at' = Bindings(s)
      /\ closing' = closing \ {s} /\ sent' = {}
      /\ role' = [role EXCEPT ![s] = "closed"] /\ addr' = [addr EXCEPT ![s] = AnyAddr]
      /\ registered' = [registered EXCEPT ![s] = {}]
  BY DEF OnDisconnect
<1>2. addr' \in [Sockets -> Addrs] /\ \A t \in Sockets \ {s} : addr'[t] = addr[t]
  BY <1>t, <1>1, RouteConstants DEF TypeOK, PeerType
<1>3. /\ RegistryType' /\ RegistryAgrees' /\ served' \in [Services -> SUBSET Sockets]
  BY <1>t, <1>1, <1>2, DeleteServiceAgrees
<1>4. PeerType'
  BY <1>t, <1>1, <1>2, <1>3 DEF TypeOK, PeerType
<1>5. NetworkType'
  BY <1>t, <1>1 DEF TypeOK, NetworkType
(* A server has no bindings to take with it. *)
<1>6. /\ channel_service_register' \in [Sockets -> [Services -> Sockets \cup {NoSocket}]]
      /\ \A c \in Sockets, n \in Services :
           channel_service_register'[c][n] = IF c = s THEN NoSocket
                                                      ELSE channel_service_register[c][n]
  <2> channel_service_register \in [Sockets -> [Services -> Sockets \cup {NoSocket}]]
    BY <1>t DEF TypeOK, BindingType
  <2>1. CASE IsServiceSocket(s)
    <3>1. role[s] = "server"
      BY <2>1, <1>t, RegisteredIsKnown DEF RoleInv
    <3>2. \A n \in Services : channel_service_register[s][n] = NoSocket
      BY <3>1, <1>t DEF BindInv, Bound
    <3> QED BY <2>1, <3>2, <1>1 DEF Unbind
  <2>2. CASE ~IsServiceSocket(s)
    BY <2>2, <1>1 DEF Unbind
  <2> QED BY <2>1, <2>2
<1>7. /\ BindingType'
      /\ \A c \in Sockets, n \in Services : channel_service_register'[c][n] # NoSocket =>
           /\ bound_at'[c][n].to = bound_at[c][n].to
           /\ bound_at'[c][n].own = (bound_at[c][n].own /\ c # s)
  BY <1>t, <1>1, DisconnectBindings DEF TypeOK
<1>9. RoleInv'
  BY <1>1, <1>t DEF RoleInv, TypeOK, PeerType
<1>10. BindInv'
  <2> SUFFICES ASSUME NEW c \in Sockets, NEW n \in Services, Bound(c, n)'
               PROVE  /\ role'[c] = "channel" /\ bound_at'[c][n].own
                      /\ bound_at'[c][n].to = channel_service_register'[c][n]
    BY DEF BindInv
  <2>1. c # s /\ Bound(c, n) /\ channel_service_register'[c][n] = channel_service_register[c][n]
    BY <1>6 DEF Bound
  <2>2. /\ role[c] = "channel" /\ bound_at[c][n].own
        /\ bound_at[c][n].to = channel_service_register[c][n]
    BY <2>1, <1>t DEF BindInv
  <2>3. role'[c] = "channel"
    BY <2>1, <2>2, <1>1, <1>t DEF TypeOK, PeerType
  <2>5. bound_at'[c][n].own = (bound_at[c][n].own /\ c # s) /\ bound_at'[c][n].to = bound_at[c][n].to
    BY <2>1, <1>7 DEF Bound
  <2>6. bound_at'[c][n].own
    BY <2>1, <2>2, <2>5
  <2> QED BY <2>1, <2>2, <2>3, <2>5, <2>6
<1>11. SentInv'
  BY <1>1 DEF SentInv
<1> QED BY <1>3, <1>4, <1>5, <1>7, <1>9, <1>10, <1>11 DEF RouteInv, TypeOK

LEMMA ServiceRegisterStep ==
  ASSUME OneServiceEach, RouteInv, NEW s \in Sockets, NEW n \in Services,
         ServerServiceRegister(s, n)
  PROVE  RouteInv'
<1>t. TypeOK /\ RegistryAgrees /\ RoleInv /\ BindInv
  BY DEF RouteInv
<1>1. RegistryType' /\ RegistryAgrees' /\ PeerType'
  BY <1>t, AddServiceAgrees
<1>2. /\ role[s] = "server" /\ sent' = {}
      /\ UNCHANGED <<channel_service_register, role, bound_at>>
      /\ closing' = closing \/ closing' = closing \cup {s}
      /\ registered' = registered \/ registered' = [registered EXCEPT ![s] = @ \cup {n}]
  BY DEF ServerServiceRegister, AddService, Close
<1>3. BindingType' /\ NetworkType'
  BY <1>t, <1>2 DEF TypeOK, BindingType, NetworkType
<1>4. RoleInv'
  BY <1>t, <1>2 DEF RoleInv, TypeOK, PeerType
<1>5. BindInv' /\ SentInv'
  BY <1>t, <1>2 DEF BindInv, SentInv, Bound
<1> QED BY <1>1, <1>3, <1>4, <1>5 DEF RouteInv, TypeOK

LEMMA ServiceCancelStep ==
  ASSUME RouteInv, NEW s \in Sockets, ServerServiceCancel(s)
  PROVE  RouteInv' /\ registered' = [registered EXCEPT ![s] = {}]
<1>t. TypeOK /\ RegistryAgrees /\ RoleInv /\ BindInv
  BY DEF RouteInv
<1>1. /\ DeleteService(s) /\ sent' = {}
      /\ registered' = [registered EXCEPT ![s] = 
                          IF CanDelete(s) THEN @ \ {service_socket_2name[s]} ELSE @]
      /\ UNCHANGED <<channel_service_register, role, addr, bound_at>>
      /\ closing' = closing \/ closing' = closing \cup {s}
  BY DEF ServerServiceCancel, Close
<1>2. registered' = [registered EXCEPT ![s] = {}]
  <2> registered \in [Sockets -> SUBSET Services]
    BY <1>t DEF TypeOK, PeerType
  <2>1. CASE CanDelete(s)
    <3>1. service_socket_2name[s] \in Services
      BY <2>1, <1>t DEF CanDelete, IsServiceSocket, TypeOK, RegistryType
    <3>2. registered[s] = {service_socket_2name[s]}
      BY <3>1, <1>t, RegisteredIsKnown DEF RegistryAgrees
    <3> QED BY <2>1, <3>2, <1>1
  <2>2. CASE ~CanDelete(s)
    BY <2>2, <1>1, <1>t, RegisteredIsKnown
  <2> QED BY <2>1, <2>2
<1>3. addr' \in [Sockets -> Addrs] /\ \A t \in Sockets \ {s} : addr'[t] = addr[t]
  BY <1>t, <1>1 DEF TypeOK, PeerType
<1>4. /\ RegistryType' /\ RegistryAgrees' /\ served' \in [Services -> SUBSET Sockets]
  BY <1>t, <1>1, <1>2, <1>3, DeleteServiceAgrees
<1>5. PeerType'
  BY <1>t, <1>1, <1>2, <1>4 DEF TypeOK, PeerType
<1>6. BindingType' /\ NetworkType'
  BY <1>t, <1>1 DEF TypeOK, BindingType, NetworkType
<1>7. RoleInv'
  BY <1>t, <1>1, <1>2 DEF RoleInv, TypeOK, PeerType
<1>8. BindInv' /\ SentInv'
  BY <1>t, <1>1 DEF BindInv, SentInv, Bound
<1> QED BY <1>2, <1>4, <1>5, <1>6, <1>7, <1>8 DEF RouteInv, TypeOK

(* The server whose turn it is.                                             *)
LEMMA NextServer ==
  ASSUME RegistryType, NEW n \in Services, sockets[n] # <<>>
  PROVE  /\ NextIndex(n) \in 0..(Len(sockets[n]) - 1)
         /\ FindServiceSocket(n, AnyAddr) = sockets[n][NextIndex(n) + 1]
         /\ FindServiceSocket(n, AnyAddr) \in ServersOf(n) \cap Sockets
<1>1. sockets[n] \in Seq(Sockets) /\ cur_send_index[n] \in Nat /\ Len(sockets[n]) \in Nat \ {0}
  BY DEF RegistryType
<1>2. \A i \in Nat, l \in Nat \ {0} : (i + 1) % l \in 0..(l - 1)
  BY SMT
<1>3. NextIndex(n) \in 0..(Len(sockets[n]) - 1)
  BY <1>1, <1>2 DEF NextIndex
<1>4. FindServiceSocket(n, AnyAddr) = sockets[n][NextIndex(n) + 1]
  BY DEF FindServiceSocket
<1>5. NextIndex(n) + 1 \in DOMAIN sockets[n]
  BY <1>1, <1>3
<1> QED BY <1>1, <1>3, <1>4, <1>5 DEF ServersOf, Range

LEMMA FindServiceSocketType ==
  ASSUME RegistryType, NEW n \in Services, NEW a \in Addrs
  PROVE  /\ FindServiceSocket(n, a) \in Sockets \cup {NoSocket}
         /\ Advance(n, a) => cur_send_index' \in [Services -> Nat]
<1>1. CASE sockets[n] = <<>>
  BY <1>1 DEF FindServiceSocket, Advance, RegistryType
<1>2. CASE sockets[n] # <<>> /\ a = AnyAddr
  <2>1. NextIndex(n) \in Nat
    BY <1>2, NextServer
  <2> QED BY <1>2, <2>1, NextServer DEF Advance, RegistryType
<1>3. CASE sockets[n] # <<>> /\ a # AnyAddr
  BY <1>3 DEF FindServiceSocket, Advance, RegistryType
<1> QED BY <1>1, <1>2, <1>3

LEMMA DisconnectChannelStep ==
  ASSUME RouteInv, NEW s \in Sockets, NEW t \in Sockets, ServerDisconnectChannelFunc(s, t)
  PROVE  RouteInv'
<1>1. /\ sent' = {} /\ closing' \in SUBSET (closing \cup {s, t})
      /\ UNCHANGED <<sockets, addr_2socket, cur_send_index, service_socket_2name,
                     channel_service_register, role, addr, registered, bound_at, served>>
  BY DEF ServerDisconnectChannelFunc, Close, registry, peers
<1>2. TypeOK'
  BY <1>1 DEF RouteInv, TypeOK, RegistryType, BindingType, NetworkType, PeerType
<1>3. RegistryAgrees'
  BY <1>1 DEF RouteInv, RegistryAgrees, ServersOf
<1>4. RoleInv' /\ BindInv' /\ SentInv'
  BY <1>1 DEF RouteInv, RoleInv, BindInv, SentInv, Bound
<1> QED BY <1>2, <1>3, <1>4 DEF RouteInv

LEMMA ChannelRegisterTypes ==
  ASSUME TypeOK, NEW c \in Sockets, NEW n \in Services, NEW a \in Addrs,
         ChannelServiceRegister(c, n, a)
  PROVE  TypeOK'
<1> DEFINE server == FindServiceSocket(n, a)
<1>t. TypeOK /\ RegistryType /\ BindingType
  BY DEF TypeOK
<1>1. /\ role[c] = "channel" /\ sent' = {}
      /\ closing' \in SUBSET (closing \cup {c}) /\ Advance(n, a)
      /\ UNCHANGED <<sockets, addr_2socket, service_socket_2name, role, addr, registered,
                     served>>
  BY DEF ChannelServiceRegister, Close, peers
<1>2. \/ UNCHANGED <<channel_service_register, bound_at>>
      \/ /\ channel_service_register' = [channel_service_register EXCEPT ![c][n] = server]
         /\ bound_at' = [bound_at EXCEPT ![c][n] =
                           [to |-> server, own |-> TRUE, alive |-> Open(server)]]
  BY DEF ChannelServiceRegister
<1>3. server \in Sockets \cup {NoSocket} /\ cur_send_index' \in [Services -> Nat]
  BY <1>t, <1>1, FindServiceSocketType
<1> HIDE DEF server
<1>4. [to |-> server, own |-> TRUE, alive |-> Open(server)] 
        \in [to : Sockets \cup {NoSocket}, own : BOOLEAN, alive : BOOLEAN]
  BY <1>3 DEF Open
<1>5. TypeOK'
  <2>1. BindingType'
    <3> DEFINE B == [to : Sockets \cup {NoSocket}, own : BOOLEAN, alive : BOOLEAN]
               b == [to |-> server, own |-> TRUE, alive |-> Open(server)]
    <3>1. bound_at \in [Sockets -> [Services -> B]] /\ b \in B
      BY <1>t, <1>4 DEF BindingType
    <3>2. bound_at' = bound_at \/ bound_at' = [bound_at EXCEPT ![c][n] = b]
      BY <1>2
    <3>3. \/ channel_service_register' = channel_service_register
          \/ channel_service_register' = [channel_service_register EXCEPT ![c][n] = server]
      BY <1>2
    <3> HIDE DEF B, b
    <3>4. bound_at' \in [Sockets -> [Services -> B]]
      <4>1. [bound_at EXCEPT ![c][n] = b] \in [Sockets -> [Services -> B]]
        BY <3>1
      <4> QED BY <3>1, <3>2, <4>1
    <3>5. channel_service_register' \in [Sockets -> [Services -> Sockets \cup {NoSocket}]]
      <4>1. channel_service_register \in [Sockets -> [Services -> Sockets \cup {NoSocket}]]
        BY <1>t DEF BindingType
      <4>2. [channel_service_register EXCEPT ![c][n] = server]
              \in [Sockets -> [Services -> Sockets \cup {NoSocket}]]
        BY <4>1, <1>3
      <4> QED BY <4>1, <4>2, <3>3
    <3> QED BY <3>4, <3>5 DEF BindingType, B
  <2> QED BY <2>1, <1>t, <1>1, <1>3 DEF TypeOK, RegistryType, NetworkType, PeerType
<1> QED BY <1>5

LEMMA ChannelRegisterStep ==
  ASSUME RouteInv, NEW c \in Sockets, NEW n \in Services, NEW a \in Addrs,
         ChannelServiceRegister(c, n, a)
  PROVE  RouteInv'
<1> DEFINE server == FindServiceSocket(n, a)
<1>t. TypeOK /\ RegistryType /\ BindingType /\ RegistryAgrees /\ RoleInv /\ BindInv
  BY DEF RouteInv, TypeOK
<1>1. /\ role[c] = "channel" /\ sent' = {}
      /\ closing' \in SUBSET (closing \cup {c}) /\ Advance(n, a)
      /\ UNCHANGED <<sockets, addr_2socket, service_socket_2name, role, addr, registered,
                     served>>
  BY DEF ChannelServiceRegister, Close, peers
<1>2. \/ UNCHANGED <<channel_service_register, bound_at>>
      \/ /\ channel_service_register' = [channel_service_register EXCEPT ![c][n] = server]
         /\ bound_at' = [bound_at EXCEPT ![c][n] =
                           [to |-> server, own |-> TRUE, alive |-> Open(server)]]
  BY DEF ChannelServiceRegister
<1> HIDE DEF server
<1>5. TypeOK'
  BY <1>t, ChannelRegisterTypes
<1>6. RegistryAgrees'
  BY <1>t, <1>1 DEF RegistryAgrees, ServersOf
<1>7. BindInv'
  <2>1. CASE UNCHANGED <<channel_service_register, bound_at>>
    BY <2>1, <1>t, <1>1 DEF BindInv, Bound
  <2>2. CASE /\ channel_service_register' = [channel_service_register EXCEPT ![c][n] = server]
             /\ bound_at' = [bound_at EXCEPT ![c][n] =
                               [to |-> server, own |-> TRUE, alive |-> Open(server)]]
    <3> SUFFICES ASSUME NEW d \in Sockets, NEW m \in Services, Bound(d, m)'
                 PROVE  /\ role'[d] = "channel" /\ bound_at'[d][m].own
                        /\ bound_at'[d][m].to = channel_service_register'[d][m]
      BY DEF BindInv
    <3>1. CASE d = c /\ m = n
      <4>1. /\ channel_service_register'[d][m] = server
            /\ bound_at'[d][m] = [to |-> server, own |-> TRUE, alive |-> Open(server)]
        BY <3>1, <2>2, <1>t DEF BindingType
      <4>2. bound_at'[d][m].own = TRUE /\ bound_at'[d][m].to = server
        BY <4>1
      <4> QED BY <3>1, <4>1, <4>2, <1>1
    <3>2. CASE ~(d = c /\ m = n)
      <4>1. /\ channel_service_register'[d][m] = channel_service_register[d][m]
            /\ bound_at'[d][m] = bound_at[d][m]
        BY <3>2, <2>2, <1>t DEF BindingType
      <4> QED BY <4>1, <1>t, <1>1 DEF BindInv, Bound
    <3> QED BY <3>1, <3>2
  <2> QED BY <2>1, <2>2, <1>2
<1>8. RoleInv' /\ SentInv'
  BY <1>t, <1>1 DEF RoleInv, SentInv
<1> QED BY <1>5, <1>6, <1>7, <1>8 DEF RouteInv

LEMMA ProcessTypes ==
  ASSUME TypeOK, NEW c \in Sockets, NEW n \in Services, RouteProcess(c, n)
  PROVE  TypeOK'
<1> DEFINE target == GetServerSocket(c, n)
<1>t. TypeOK /\ RegistryType /\ BindingType
  BY DEF TypeOK
<1>1. /\ role[c] = "channel"
      /\ sent' = {[from |-> c, service |-> n, to |-> target, bound |-> Bound(c, n)]}
      /\ \/ served' = served
         \/ served' = [served EXCEPT ![n] = {}]
         \/ target # NoSocket /\ served' = [served EXCEPT ![n] = served[n] \cup {target}]
      /\ cur_send_index' = cur_send_index \/ Advance(n, AnyAddr)
      /\ UNCHANGED <<sockets, addr_2socket, service_socket_2name,
                     channel_service_register, closing, role, addr, registered, bound_at>>
  BY DEF RouteProcess, peers
<1>2. target \in Sockets \cup {NoSocket}
  BY <1>t, RouteConstants, FindServiceSocketType DEF GetServerSocket, BindingType
<1>3. cur_send_index' \in [Services -> Nat]
  BY <1>1, <1>t, RouteConstants, FindServiceSocketType DEF RegistryType
<1> HIDE DEF target
<1>4. served' \in [Services -> SUBSET Sockets]
  BY <1>1, <1>2, <1>t DEF TypeOK, PeerType
<1>5. NetworkType'
  <2>1. Bound(c, n) \in BOOLEAN
    BY DEF Bound
  <2>2. ASSUME NEW b \in BOOLEAN
        PROVE  [from |-> c, service |-> n, to |-> target, bound |-> b]
                 \in [from : Sockets, service : Services,
                      to : Sockets \cup {NoSocket}, bound : BOOLEAN]
    BY <1>2
  <2> QED BY <2>1, <2>2, <1>1, <1>t DEF TypeOK, NetworkType
<1>6. TypeOK'
  BY <1>1, <1>3, <1>4, <1>5, <1>t DEF TypeOK, RegistryType, BindingType, PeerType
<1> QED BY <1>6

LEMMA ProcessStep ==
  ASSUME RouteInv, NEW c \in Sockets, NEW n \in Services, RouteProcess(c, n)
  PROVE  RouteInv'
<1>t. TypeOK /\ RegistryAgrees /\ RoleInv /\ BindInv
  BY DEF RouteInv
<1>1. /\ role[c] = "channel" /\ \A p \in sent' : p.from = c
      /\ UNCHANGED <<sockets, addr_2socket, service_socket_2name,
                     channel_service_register, closing, role, addr, registered, bound_at>>
  <2>1. ASSUME NEW to, NEW bound PROVE [from |-> c, service |-> n, to |-> to, bound |-> bound].from = c
    OBVIOUS
  <2> QED BY <2>1 DEF RouteProcess, peers
<1>6. TypeOK'
  BY <1>t, ProcessTypes
<1>7. RegistryAgrees'
  BY <1>t, <1>1 DEF RegistryAgrees, ServersOf
<1>8. RoleInv' /\ BindInv'
  BY <1>t, <1>1 DEF RoleInv, BindInv, Bound
<1>9. SentInv'
  BY <1>1 DEF SentInv
<1> QED BY <1>6, <1>7, <1>8, <1>9 DEF RouteInv

LEMMA RouteInvariant ==
  ASSUME OneServiceEach
  PROVE  Spec => []RouteInv
<1>1. RouteInv /\ [Next]_vars => RouteInv'
  <2> SUFFICES ASSUME RouteInv, [Next]_vars PROVE RouteInv'
    OBVIOUS
  <2>1. ASSUME NEW s \in Sockets, OnConnect(s, "channel", AnyAddr)
        PROVE  RouteInv'
    BY <2>1, ConnectStep, RouteConstants
  <2>2. ASSUME NEW s \in Sockets, NEW a \in ServerAddrs, OnConnect(s, "server", a)
        PROVE  RouteInv'
    BY <2>2, ConnectStep, RouteConstants
  <2>3. CASE UNCHANGED vars
    <3>1. RegistryAgrees'
      BY <2>3 DEF vars, registry, peers, RouteInv, RegistryAgrees, ServersOf
    <3>2. TypeOK'
      BY <2>3 DEF vars, registry, peers, RouteInv, TypeOK, RegistryType, BindingType,
                  NetworkType, PeerType
    <3>3. RoleInv' /\ BindInv' /\ SentInv'
      BY <2>3 DEF vars, registry, peers, RouteInv, RoleInv, BindInv, SentInv, Bound
    <3> QED BY <3>1, <3>2, <3>3 DEF RouteInv
  <2> QED BY <2>1, <2>2, <2>3, DisconnectStep, ServiceRegisterStep, ServiceCancelStep,
             DisconnectChannelStep, ChannelRegisterStep, ProcessStep, RouteConstants DEF Next
<1> QED BY <1>1, InitRoute, PTL DEF Spec
-----------------------------------------------------------------------------
(* What holds whatever servers register, and whatever entries stay behind.  *)
BoundWhere == \A c \in Sockets, n \in Services :
                Bound(c, n) => bound_at[c][n].to = channel_service_register[c][n]
AnyInv == TypeOK /\ RegisteredIsFound /\ RoleInv /\ BoundWhere

LEMMA InitAny == Init => AnyInv
<1>1. Init => TypeOK
  BY InitRoute DEF RouteInv
<1>2. Init => RegisteredIsFound /\ RoleInv /\ BoundWhere
  BY DEF Init, RegisteredIsFound, RoleInv, BoundWhere, Bound
<1> QED BY <1>1, <1>2 DEF AnyInv

(* DeleteService takes one entry of s out of the lists of one service.      *)
LEMMA DeleteServiceKeeps ==
  ASSUME TypeOK, RegisteredIsFound, NEW s \in Sockets, DeleteService(s)
  PROVE  /\ RegistryType' /\ served' \in [Services -> SUBSET Sockets]
         /\ \A t \in Sockets : \A n \in registered[t] :
              (t = s /\ CanDelete(s) => n # service_socket_2name[s]) =>
                t \in ServersOf(n)' /\ addr_2socket'[n][addr[t]] = t
<1> DEFINE m == service_socket_2name[s]
           left == RemoveFirst(sockets[m], s)
<1>t. /\ RegistryType /\ registered \in [Sockets -> SUBSET Services]
      /\ served \in [Services -> SUBSET Sockets] /\ addr \in [Sockets -> Addrs]
  BY DEF TypeOK, PeerType
<1>1. CASE ~CanDelete(s)
  <2>1. UNCHANGED <<registry, served>>
    BY <1>1 DEF DeleteService
  <2> QED BY <2>1, <1>t DEF registry, RegistryType, RegisteredIsFound, ServersOf
<1>2. CASE CanDelete(s)
  <2>1. m \in Services /\ sockets[m] \in Seq(Sockets)
    BY <1>2, <1>t DEF CanDelete, IsServiceSocket, RegistryType
  <2>2. /\ sockets' = [sockets EXCEPT ![m] = left]
        /\ \E addrs \in OtherAddrs(s, m) :
             addr_2socket' = [addr_2socket EXCEPT ![m] = addrs]
        /\ cur_send_index' = [cur_send_index EXCEPT ![m] = IF left = <<>> THEN 0 ELSE @]
        /\ service_socket_2name' = [service_socket_2name EXCEPT ![s] = NoService]
        /\ served' = [served EXCEPT ![m] = {}]
    BY <1>2 DEF DeleteService
  <2>3. /\ left \in Seq(Sockets)
        /\ \A t : t \in ServersOf(m) /\ t # s => t \in Range(left)
    BY <2>1, RemoveFirstKeeps DEF ServersOf
  <2> HIDE DEF left, m
  <2>4. PICK addrs \in [Addrs -> Sockets \cup {NoSocket}] :
             /\ addr_2socket' = [addr_2socket EXCEPT ![m] = addrs]
             /\ \A a \in Addrs : addr_2socket[m][a] # s => addrs[a] = addr_2socket[m][a]
    <3>1. PICK addrs \in OtherAddrs(s, m) : addr_2socket' = [addr_2socket EXCEPT ![m] = addrs]
      BY <2>2
    <3>2. addr_2socket[m] \in [Addrs -> Sockets \cup {NoSocket}]
      BY <1>t, <2>1 DEF RegistryType
    <3>3. CASE addrs = addr_2socket[m]
      BY <3>1, <3>2, <3>3
    <3>4. ASSUME NEW a \in Addrs, addr_2socket[m][a] = s,
                 addrs = [addr_2socket[m] EXCEPT ![a] = NoSocket]
          PROVE  /\ addrs \in [Addrs -> Sockets \cup {NoSocket}]
                 /\ \A b \in Addrs : addr_2socket[m][b] # s => addrs[b] = addr_2socket[m][b]
      <4>1. addrs \in [Addrs -> Sockets \cup {NoSocket}]
        BY <3>2, <3>4
      <4>2. \A b \in Addrs : b # a => addrs[b] = addr_2socket[m][b]
        BY <3>2, <3>4
      <4> QED BY <3>4, <4>1, <4>2
    <3>5. \/ addrs = addr_2socket[m]
          \/ \E a \in Addrs : /\ addr_2socket[m][a] = s
                              /\ addrs = [addr_2socket[m] EXCEPT ![a] = NoSocket]
      BY <3>1 DEF OtherAddrs
    <3>6. /\ addrs \in [Addrs -> Sockets \cup {NoSocket}]
          /\ \A b \in Addrs : addr_2socket[m][b] # s => addrs[b] = addr_2socket[m][b]
      BY <3>2, <3>4, <3>5
    <3> QED BY <3>1, <3>6
  <2>5. RegistryType' /\ served' \in [Services -> SUBSET Sockets]
    BY <1>t, <2>1, <2>2, <2>3, <2>4 DEF RegistryType
  <2>6. ASSUME NEW t \in Sockets, NEW n \in registered[t], t = s => n # m
        PROVE  t \in ServersOf(n)' /\ addr_2socket'[n][addr[t]] = t
    <3>1. n \in Services /\ addr[t] \in Addrs
      BY <1>t
    <3>2. t \in ServersOf(n) /\ addr_2socket[n][addr[t]] = t
      BY DEF RegisteredIsFound
    <3>3. CASE n # m
      <4>1. sockets'[n] = sockets[n] /\ addr_2socket'[n] = addr_2socket[n]
        BY <3>1, <3>3, <1>t, <2>2, <2>4 DEF RegistryType
      <4> QED BY <3>2, <4>1 DEF ServersOf
    <3>4. CASE n = m
      <4>1. sockets'[n] = left /\ addr_2socket'[n] = addrs
        BY <3>1, <3>4, <1>t, <2>2, <2>4 DEF RegistryType
      <4>2. t # s
        BY <2>6, <3>4
      <4>3. t \in ServersOf(n)'
        BY <3>2, <3>4, <4>1, <4>2, <2>3 DEF ServersOf
      <4>4. addr_2socket'[n][addr[t]] = t
        BY <3>1, <3>2, <3>4, <4>1, <4>2, <2>4
      <4> QED BY <4>3, <4>4
    <3> QED BY <3>3, <3>4
  <2> QED BY <1>2, <2>5, <2>6 DEF m
<1> QED BY <1>1, <1>2

LEMMA ConnectAny ==
  ASSUME AnyInv, NEW s \in Sockets, NEW r \in {"channel", "server"}, NEW a \in Addrs,
         OnConnect(s, r, a)
  PROVE  AnyInv'
<1>t. TypeOK /\ RegisteredIsFound /\ RoleInv /\ BoundWhere
  BY DEF AnyInv
<1>1. /\ role[s] = "closed" /\ sent' = {}
      /\ role' = [role EXCEPT ![s] = r] /\ addr' = [addr EXCEPT ![s] = a]
      /\ UNCHANGED <<sockets, addr_2socket, cur_send_index, service_socket_2name,
                     channel_service_register, closing, registered, bound_at, served>>
  BY DEF OnConnect, Open, registry
<1>2. registered[s] = {}
  BY <1>t, <1>1 DEF RoleInv
<1>3. TypeOK'
  BY <1>t, <1>1 DEF TypeOK, RegistryType, BindingType, NetworkType, PeerType
<1>4. RegisteredIsFound'
  <2>1. \A t \in Sockets : t # s => addr'[t] = addr[t]
    BY <1>1, <1>t DEF TypeOK, PeerType
  <2> QED BY <2>1, <1>1, <1>2, <1>t DEF RegisteredIsFound, ServersOf
<1>5. RoleInv' /\ BoundWhere'
  BY <1>1, <1>2, <1>t DEF RoleInv, BoundWhere, Bound, TypeOK, PeerType
<1> QED BY <1>3, <1>4, <1>5 DEF AnyInv

LEMMA DisconnectAny ==
  ASSUME AnyInv, NEW s \in Sockets, OnDisconnect(s)
  PROVE  AnyInv'
<1>t. TypeOK /\ RegisteredIsFound /\ RoleInv /\ BoundWhere
  BY DEF AnyInv
<1>1. /\ DeleteService(s) /\ Unbind(s) /\ bound_at' = Bindings(s)
      /\ closing' = closing \ {s} /\ sent' = {}
      /\ role' = [role EXCEPT ![s] = "closed"] /\ addr' = [addr EXCEPT ![s] = AnyAddr]
      /\ registered' = [registered EXCEPT ![s] = {}]
  BY DEF OnDisconnect
<1>2. /\ RegistryType' /\ served' \in [Services -> SUBSET Sockets]
      /\ \A t \in Sockets : \A n \in registered[t] :
           t # s => t \in ServersOf(n)' /\ addr_2socket'[n][addr[t]] = t
  BY <1>t, <1>1, DeleteServiceKeeps
<1>3. /\ BindingType'
      /\ \A c \in Sockets, n \in Services :
           /\ channel_service_register'[c][n] \in {NoSocket, channel_service_register[c][n]}
           /\ channel_service_register'[c][n] # NoSocket => bound_at'[c][n].to = bound_at[c][n].to
  BY <1>t, <1>1, DisconnectBindings DEF TypeOK
<1>4. TypeOK'
  <2>1. NetworkType'
    BY <1>t, <1>1 DEF TypeOK, NetworkType
  <2>2. PeerType'
    BY <1>t, <1>1, <1>2, RouteConstants DEF TypeOK, PeerType
  <2> QED BY <2>1, <2>2, <1>2, <1>3 DEF TypeOK
<1>5. \A t \in Sockets : /\ t # s => registered'[t] = registered[t] /\ addr'[t] = addr[t]
                         /\ t = s => registered'[t] = {}
  BY <1>1, <1>t DEF TypeOK, PeerType
<1>6. RegisteredIsFound'
  BY <1>2, <1>5 DEF RegisteredIsFound
<1>7. RoleInv'
  BY <1>1, <1>t DEF RoleInv, TypeOK, PeerType
<1>8. BoundWhere'
  BY <1>3, <1>t DEF BoundWhere, Bound
<1> QED BY <1>4, <1>6, <1>7, <1>8 DEF AnyInv

LEMMA AppendHas ==
  ASSUME NEW S, NEW q \in Seq(S), NEW e \in S
  PROVE  /\ Append(q, e) \in Seq(S)
         /\ \A x : x \in Range(q) \/ x = e => x \in Range(Append(q, e))
<1>1. /\ Append(q, e) \in Seq(S) /\ DOMAIN q = 1..Len(q) /\ Len(q) \in Nat
      /\ DOMAIN Append(q, e) = 1..(Len(q) + 1)
      /\ \A i \in 1..Len(q) : Append(q, e)[i] = q[i]
      /\ Append(q, e)[Len(q) + 1] = e
  OBVIOUS
<1>2. DOMAIN q \subseteq DOMAIN Append(q, e) /\ Len(q) + 1 \in DOMAIN Append(q, e)
  BY <1>1
<1>3. \A i \in DOMAIN q : Append(q, e)[i] = q[i]
  BY <1>1
<1> QED BY <1>1, <1>2, <1>3 DEF Range

LEMMA ServiceRegisterAny ==
  ASSUME AnyInv, NEW s \in Sockets, NEW n \in Services, ServerServiceRegister(s, n)
  PROVE  AnyInv'
<1>t. TypeOK /\ RegisteredIsFound /\ RoleInv /\ BoundWhere /\ RegistryType /\ PeerType
  BY DEF AnyInv, TypeOK
<1>1. /\ role[s] = "server" /\ sent' = {} /\ closing' \in SUBSET (closing \cup {s})
      /\ service_socket_2name' \in [Sockets -> Services \cup {NoService}]
      /\ UNCHANGED <<cur_send_index, channel_service_register, role, addr, bound_at>>
  BY <1>t DEF ServerServiceRegister, AddService, Close, RegistryType
<1>2. BoundWhere' /\ BindingType' /\ NetworkType'
  BY <1>t, <1>1 DEF TypeOK, BindingType, NetworkType, BoundWhere, Bound
<1>3. CASE UNCHANGED <<sockets, addr_2socket, registered, served>>
  <2>1. TypeOK'
    BY <1>t, <1>1, <1>2, <1>3 DEF TypeOK, RegistryType, PeerType
  <2> QED BY <1>t, <1>1, <1>2, <1>3, <2>1 DEF AnyInv, RegisteredIsFound, RoleInv, ServersOf
<1>4. CASE /\ addr_2socket[n][addr[s]] = NoSocket
           /\ sockets' = [sockets EXCEPT ![n] = Append(@, s)]
           /\ addr_2socket' = [addr_2socket EXCEPT ![n][addr[s]] = s]
           /\ registered' = [registered EXCEPT ![s] = @ \cup {n}]
           /\ served' = [served EXCEPT ![n] = {}]
  <2>1. /\ Append(sockets[n], s) \in Seq(Sockets)
        /\ \A x : x \in ServersOf(n) \/ x = s => x \in Range(Append(sockets[n], s))
    BY <1>t, AppendHas DEF RegistryType, ServersOf
  <2>2. addr[s] \in Addrs
    BY <1>t DEF PeerType
  <2>3. addr_2socket' \in [Services -> [Addrs -> Sockets \cup {NoSocket}]]
    BY <1>t, <1>4, <2>2 DEF RegistryType
  <2>4. TypeOK'
    BY <1>t, <1>1, <1>2, <1>4, <2>1, <2>3 DEF TypeOK, RegistryType, PeerType
  <2>5. ASSUME NEW t \in Sockets, NEW m \in registered'[t]
        PROVE  t \in ServersOf(m)' /\ addr_2socket'[m][addr'[t]] = t
    <3>1. m \in Services /\ addr'[t] = addr[t] /\ addr[t] \in Addrs
      BY <1>1, <2>4, <1>t DEF TypeOK, PeerType
    <3>2. CASE t = s /\ m = n
      <4>1. sockets'[m] = Append(sockets[n], s) /\ addr_2socket'[m][addr[t]] = s
        BY <1>4, <1>t, <2>2, <3>2 DEF RegistryType
      <4> QED BY <3>1, <3>2, <4>1, <2>1 DEF ServersOf
    <3>3. CASE ~(t = s /\ m = n)
      <4>1. m \in registered[t]
        BY <1>4, <1>t, <3>3 DEF PeerType
      <4>2. t \in ServersOf(m) /\ addr_2socket[m][addr[t]] = t
        BY <4>1, <1>t DEF RegisteredIsFound
      <4>3. CASE m # n
        <5>1. sockets'[m] = sockets[m] /\ addr_2socket'[m] = addr_2socket[m]
          BY <1>4, <1>t, <3>1, <4>3 DEF RegistryType
        <5> QED BY <3>1, <4>2, <5>1 DEF ServersOf
      <4>4. CASE m = n
        <5>1. addr[t] # addr[s]
          BY <1>4, <4>2, <4>4, RouteConstants
        <5>2. sockets'[m] = Append(sockets[n], s)
          BY <1>4, <1>t, <4>4 DEF RegistryType
        <5>3. addr_2socket'[m][addr[t]] = addr_2socket[m][addr[t]]
          BY <1>4, <1>t, <2>2, <3>1, <4>4, <5>1 DEF RegistryType
        <5> QED BY <3>1, <4>2, <4>4, <5>2, <5>3, <2>1 DEF ServersOf
      <4> QED BY <4>3, <4>4
    <3> QED BY <3>2, <3>3
  <2>6. RegisteredIsFound'
    BY <2>5 DEF RegisteredIsFound
  <2>7. RoleInv'
    BY <1>t, <1>1, <1>4 DEF RoleInv, PeerType
  <2> QED BY <1>2, <2>4, <2>6, <2>7 DEF AnyInv
<1> QED BY <1>3, <1>4 DEF ServerServiceRegister, AddService

LEMMA ServiceCancelAny ==
  ASSUME AnyInv, NEW s \in Sockets, ServerServiceCancel(s)
  PROVE  AnyInv'
<1>t. TypeOK /\ RegisteredIsFound /\ RoleInv /\ BoundWhere
  BY DEF AnyInv
<1>1. /\ DeleteService(s) /\ sent' = {} /\ closing' \in SUBSET (closing \cup {s})
      /\ registered' = [registered EXCEPT ![s] =
                          IF CanDelete(s) THEN @ \ {service_socket_2name[s]} ELSE @]
      /\ UNCHANGED <<channel_service_register, role, addr, bound_at>>
  BY DEF ServerServiceCancel, Close
<1>2. /\ RegistryType' /\ served' \in [Services -> SUBSET Sockets]
      /\ \A t \in Sockets : \A n \in registered[t] :
           (t = s /\ CanDelete(s) => n # service_socket_2name[s]) =>
             t \in ServersOf(n)' /\ addr_2socket'[n][addr[t]] = t
  BY <1>t, <1>1, DeleteServiceKeeps
<1>3. \A t \in Sockets : /\ registered'[t] \subseteq registered[t]
                         /\ \A n \in registered'[t] :
                              t = s /\ CanDelete(s) => n # service_socket_2name[s]
  BY <1>1, <1>t DEF TypeOK, PeerType
<1>4. TypeOK'
  <2>1. registered' \in [Sockets -> SUBSET Services]
    BY <1>1, <1>t DEF TypeOK, PeerType
  <2>2. BindingType' /\ NetworkType'
    BY <1>1, <1>t DEF TypeOK, BindingType, NetworkType
  <2> QED BY <2>1, <2>2, <1>1, <1>2, <1>t DEF TypeOK, PeerType
<1>5. RegisteredIsFound'
  BY <1>1, <1>2, <1>3 DEF RegisteredIsFound
<1>6. RoleInv' /\ BoundWhere'
  BY <1>1, <1>3, <1>t DEF RoleInv, BoundWhere, Bound
<1> QED BY <1>4, <1>5, <1>6 DEF AnyInv

LEMMA ChannelRegisterAny ==
  ASSUME AnyInv, NEW c \in Sockets, NEW n \in Services, NEW a \in Addrs,
         ChannelServiceRegister(c, n, a)
  PROVE  AnyInv'
<1> DEFINE server == FindServiceSocket(n, a)
<1>t. TypeOK /\ BindingType /\ RegisteredIsFound /\ RoleInv /\ BoundWhere
  BY DEF AnyInv, TypeOK
<1>1. /\ UNCHANGED <<sockets, addr_2socket, role, addr, registered>>
      /\ \/ UNCHANGED <<channel_service_register, bound_at>>
         \/ /\ channel_service_register' = [channel_service_register EXCEPT ![c][n] = server]
            /\ bound_at' = [bound_at EXCEPT ![c][n] =
                              [to |-> server, own |-> TRUE, alive |-> Open(server)]]
  BY DEF ChannelServiceRegister, peers
<1>2. TypeOK'
  BY <1>t, ChannelRegisterTypes
<1> HIDE DEF server
<1>3. RegisteredIsFound' /\ RoleInv'
  BY <1>t, <1>1 DEF RegisteredIsFound, RoleInv, ServersOf
<1>4. BoundWhere'
  <2>1. CASE UNCHANGED <<channel_service_register, bound_at>>
    BY <2>1, <1>t DEF BoundWhere, Bound
  <2>2. CASE /\ channel_service_register' = [channel_service_register EXCEPT ![c][n] = server]
             /\ bound_at' = [bound_at EXCEPT ![c][n] =
                               [to |-> server, own |-> TRUE, alive |-> Open(server)]]
    <3> SUFFICES ASSUME NEW d \in Sockets, NEW m \in Services, Bound(d, m)'
                 PROVE  bound_at'[d][m].to = channel_service_register'[d][m]
      BY DEF BoundWhere
    <3>1. CASE d = c /\ m = n
      <4>1. /\ channel_service_register'[d][m] = server
            /\ bound_at'[d][m] = [to |-> server, own |-> TRUE, alive |-> Open(server)]
        BY <3>1, <2>2, <1>t DEF BindingType
      <4> QED BY <4>1
    <3>2. CASE ~(d = c /\ m = n)
      <4>1. /\ channel_service_register'[d][m] = channel_service_register[d][m]
            /\ bound_at'[d][m] = bound_at[d][m]
        BY <3>2, <2>2, <1>t DEF BindingType
      <4> QED BY <4>1, <1>t DEF BoundWhere, Bound
    <3> QED BY <3>1, <3>2
  <2> QED BY <1>1, <2>1, <2>2
<1> QED BY <1>2, <1>3, <1>4 DEF AnyInv

LEMMA AnyInvariant == Spec => []AnyInv
<1>1. AnyInv /\ [Next]_vars => AnyInv'
  <2> SUFFICES ASSUME AnyInv, [Next]_vars PROVE AnyInv'
    OBVIOUS
  <2>t. TypeOK
    BY DEF AnyInv
  <2>1. ASSUME NEW s \in Sockets, OnConnect(s, "channel", AnyAddr)
        PROVE  AnyInv'
    BY <2>1, ConnectAny, RouteConstants
  <2>2. ASSUME NEW s \in Sockets, NEW a \in ServerAddrs, OnConnect(s, "server", a)
        PROVE  AnyInv'
    BY <2>2, ConnectAny, RouteConstants
  <2>3. ASSUME NEW s \in Sockets, NEW t \in Sockets, ServerDisconnectChannelFunc(s, t)
        PROVE  AnyInv'
    <3>1. /\ sent' = {} /\ closing' \in SUBSET (closing \cup {s, t})
          /\ UNCHANGED <<registry, channel_service_register, peers, bound_at, served>>
      BY <2>3 DEF ServerDisconnectChannelFunc, Close
    <3>2. TypeOK'
      BY <2>t, <3>1 DEF registry, peers, TypeOK, RegistryType, BindingType, NetworkType, PeerType
    <3> QED BY <3>1, <3>2 DEF registry, peers, AnyInv, RegisteredIsFound, RoleInv, BoundWhere,
                               Bound, ServersOf
  <2>4. ASSUME NEW c \in Sockets, NEW n \in Services, RouteProcess(c, n)
        PROVE  AnyInv'
    <3>1. UNCHANGED <<sockets, addr_2socket, service_socket_2name,
                      channel_service_register, closing, peers, bound_at>>
      BY <2>4 DEF RouteProcess
    <3>2. TypeOK'
      BY <2>t, <2>4, ProcessTypes
    <3> QED BY <3>1, <3>2 DEF peers, AnyInv, RegisteredIsFound, RoleInv, BoundWhere, Bound,
                               ServersOf
  <2>5. CASE UNCHANGED vars
    <3>1. TypeOK'
      BY <2>t, <2>5 DEF vars, registry, peers, TypeOK, RegistryType, BindingType, NetworkType,
                        PeerType
    <3> QED BY <2>5, <3>1 DEF vars, registry, peers, AnyInv, RegisteredIsFound, RoleInv,
                               BoundWhere, Bound, ServersOf
  <2> QED BY <2>1, <2>2, <2>3, <2>4, <2>5, DisconnectAny, ServiceRegisterAny, ServiceCancelAny,
             ChannelRegisterAny, RouteConstants DEF Next
<1> QED BY <1>1, InitAny, PTL DEF Spec

(* What each variable holds, whatever servers register.                     *)
THEOREM TypeCorrect == Spec => []TypeOK
<1>1. AnyInv => TypeOK
  BY DEF AnyInv
<1> QED BY <1>1, AnyInvariant, PTL

(* A server that was accepted for a service stays in its lists until it     *)
(* leaves or cancels: also beside servers of the same address, with other   *)
(* services, and with entries that were left behind under its socket.       *)
THEOREM RegisteredStaysFound == Spec => []RegisteredIsFound
<1>1. AnyInv => RegisteredIsFound
  BY DEF AnyInv
<1> QED BY <1>1, AnyInvariant, PTL
-----------------------------------------------------------------------------
(* The maps of the route agree with each other and with the connections,    *)
(* however connections come and go and sockets are reused.                  *)
THEOREM MapsAgree ==
  ASSUME OneServiceEach
  PROVE  Spec => []RegistryAgrees
<1>1. RouteInv => RegistryAgrees
  BY DEF RouteInv
<1> QED BY <1>1, RouteInvariant, PTL

(* No channel inherits a binding with the socket it got, if each server     *)
(* registers one service under an address of its own.                       *)
THEOREM BindingsAreOwn ==
  ASSUME OneServiceEach
  PROVE  Spec => []BindingIsOwn
<1>1. RouteInv => BindingIsOwn
  BY DEF RouteInv, BindInv, BindingIsOwn
<1> QED BY <1>1, RouteInvariant, PTL

(* Only RouteProcess sends. *)
LEMMA SentByProcess ==
  ASSUME Next
  PROVE  \/ sent' = {}
         \/ \E c \in Sockets, n \in Services : RouteProcess(c, n)
<1>1. \A s, t, n, a, r :
        \/ OnConnect(s, r, a) \/ OnDisconnect(s)
        \/ ServerServiceRegister(s, n) \/ ServerServiceCancel(s)
        \/ ServerDisconnectChannelFunc(s, t) \/ ChannelServiceRegister(s, n, a)
        => sent' = {}
  BY DEF OnConnect, OnDisconnect, ServerServiceRegister, ServerServiceCancel,
         ServerDisconnectChannelFunc, ChannelServiceRegister
<1> QED BY <1>1 DEF Next

(* A bound channel keeps its server: the binding is where it was made to,   *)
(* whether that connection is still there or not, and whatever else the     *)
(* servers have registered.                                                 *)
THEOREM BoundGoesToOne == Spec => BoundToOne
<1> DEFINE Kept == \A p \in sent' : 
                     (p.bound /\ bound_at[p.from][p.service].alive)
                        => p.to = bound_at[p.from][p.service].to
<1>1. ASSUME AnyInv, Next
      PROVE  Kept
  <2>1. CASE sent' = {}
    BY <2>1
  <2>2. ASSUME NEW c \in Sockets, NEW n \in Services, RouteProcess(c, n)
        PROVE  Kept
    <3> DEFINE target == GetServerSocket(c, n)
               bound == Bound(c, n)
    <3>1. bound => target = bound_at[c][n].to
      BY <1>1 DEF AnyInv, BoundWhere, GetServerSocket, Bound
    <3>2. sent' = {[from |-> c, service |-> n, to |-> target, bound |-> bound]}
      BY <2>2 DEF RouteProcess
    <3> HIDE DEF target, bound
    <3> QED BY <3>1, <3>2
  <2> QED BY <1>1, <2>1, <2>2, SentByProcess
<1>2. AnyInv /\ [Next]_vars => [Kept]_vars
  BY <1>1
<1> QED BY <1>2, AnyInvariant, PTL DEF Spec, BoundToOne
(* A request of a channel that is not bound is lost only when no server is  *)
(* registered for its service.                                              *)
THEOREM UnboundIsServed == Spec => DroppedIfNobody
<1> DEFINE Given == \A p \in sent' :
                      (~p.bound /\ p.to = NoSocket)
                        => \A s \in Sockets : p.service \notin registered[s]
<1>1. ASSUME AnyInv, Next
      PROVE  Given
  <2>1. CASE sent' = {}
    BY <2>1
  <2>2. ASSUME NEW c \in Sockets, NEW n \in Services, RouteProcess(c, n)
        PROVE  Given
    <3> DEFINE target == GetServerSocket(c, n)
               bound == Bound(c, n)
    <3>1. ASSUME ~bound, target = NoSocket, NEW s \in Sockets, n \in registered[s]
          PROVE  FALSE
      <4>1. s \in ServersOf(n)
        BY <1>1, <3>1 DEF AnyInv, RegisteredIsFound
      <4>2. sockets[n] # <<>>
        BY <4>1 DEF ServersOf, Range
      <4>3. FindServiceSocket(n, AnyAddr) \in Sockets
        BY <1>1, <4>2, NextServer DEF AnyInv, TypeOK
      <4>4. target = FindServiceSocket(n, AnyAddr)
        BY <3>1 DEF GetServerSocket
      <4> QED BY <3>1, <4>3, <4>4, RouteConstants
    <3>2. sent' = {[from |-> c, service |-> n, to |-> target, bound |-> bound]}
      BY <2>2 DEF RouteProcess
    <3> HIDE DEF target, bound
    <3> QED BY <3>1, <3>2
  <2> QED BY <1>1, <2>1, <2>2, SentByProcess
<1>2. AnyInv /\ [Next]_vars => [Given]_vars
  BY <1>1
<1> QED BY <1>2, AnyInvariant, PTL DEF Spec, DroppedIfNobody
-----------------------------------------------------------------------------
(* A binding whose connections are the ones it was made between leads to a  *)
(* server.                                                                  *)
LiveInv == \A c \in Sockets, n \in Services :
             (Bound(c, n) /\ bound_at[c][n].alive)
               => role[channel_service_register[c][n]] = "server"

(* What FindServiceSocket finds is a server.                                *)
LEMMA FoundIsServer ==
  ASSUME RouteInv, NEW n \in Services, NEW a \in Addrs,
         FindServiceSocket(n, a) # NoSocket
  PROVE  role[FindServiceSocket(n, a)] = "server"
<1>t. RegistryType /\ RegistryAgrees /\ RoleInv
  BY DEF RouteInv, TypeOK
<1>1. sockets[n] # <<>>
  BY DEF FindServiceSocket
<1>2. FindServiceSocket(n, a) \in ServersOf(n)
  <2>1. CASE a = AnyAddr
    BY <2>1, <1>1, <1>t, NextServer
  <2>2. CASE a # AnyAddr
    BY <2>2, <1>1, <1>t DEF FindServiceSocket, RegistryAgrees
  <2> QED BY <2>1, <2>2
<1>3. /\ FindServiceSocket(n, a) \in Sockets
      /\ n \in registered[FindServiceSocket(n, a)]
  BY <1>2, <1>t DEF RegistryAgrees
<1> QED BY <1>3, <1>t DEF RoleInv

(* Who leaves takes the life of the bindings to it.                         *)
LEMMA DisconnectEndsBindings ==
  ASSUME RouteInv, LiveInv, NEW s \in Sockets, OnDisconnect(s)
  PROVE  LiveInv'
<1>t. RouteInv /\ TypeOK /\ BindingType /\ BindInv
  BY DEF RouteInv, TypeOK
<1>1. /\ Unbind(s) /\ bound_at' = Bindings(s)
      /\ role' = [role EXCEPT ![s] = "closed"]
  BY DEF OnDisconnect
<1> SUFFICES ASSUME NEW c \in Sockets, NEW n \in Services, Bound(c, n)', bound_at'[c][n].alive
             PROVE  role'[channel_service_register'[c][n]] = "server"
  BY DEF LiveInv
<1>2. /\ channel_service_register'[c][n] = channel_service_register[c][n]
      /\ channel_service_register[c][n] \in Sockets /\ Bound(c, n)
  BY <1>1, <1>t, DisconnectBindings DEF Bound, BindingType
<1>3. bound_at'[c][n].alive = (bound_at[c][n].alive /\ bound_at[c][n].to # s)
  BY <1>1, <1>t, DisconnectBindings DEF Bound
<1>4. bound_at[c][n].alive /\ bound_at[c][n].to # s
  BY <1>3
<1>5. channel_service_register[c][n] # s /\ role[channel_service_register[c][n]] = "server"
  BY <1>2, <1>4, <1>t DEF BindInv, LiveInv
<1> QED BY <1>1, <1>2, <1>5, <1>t DEF TypeOK, PeerType

LEMMA LiveInvStep ==
  ASSUME RouteInv, LiveInv, [Next]_vars
  PROVE  LiveInv'
<1>t. RouteInv /\ TypeOK /\ BindingType /\ BindInv
  BY DEF RouteInv, TypeOK
<1>1. ASSUME UNCHANGED <<channel_service_register, bound_at, role>>
      PROVE  LiveInv'
  BY <1>1 DEF LiveInv, Bound
<1>2. ASSUME NEW s \in Sockets, NEW r, NEW a, OnConnect(s, r, a)
      PROVE  LiveInv'
  <2>1. /\ role[s] = "closed" /\ role' = [role EXCEPT ![s] = r]
        /\ UNCHANGED <<channel_service_register, bound_at>>
    BY <1>2 DEF OnConnect, Open
  <2> QED BY <2>1, <1>t DEF LiveInv, Bound, TypeOK, PeerType, BindingType
<1>3. ASSUME NEW c \in Sockets, NEW n \in Services, NEW a \in ChannelAddrs,
             ChannelServiceRegister(c, n, a)
      PROVE  LiveInv'
  <2> DEFINE server == FindServiceSocket(n, a)
             b == [to |-> server, own |-> TRUE, alive |-> Open(server)]
  <2>1. /\ role' = role
        /\ \/ UNCHANGED <<channel_service_register, bound_at>>
           \/ /\ server # NoSocket
              /\ channel_service_register' = [channel_service_register EXCEPT ![c][n] = server]
              /\ bound_at' = [bound_at EXCEPT ![c][n] = b]
    BY <1>3 DEF ChannelServiceRegister, peers
  <2>2. server # NoSocket => role[server] = "server"
    BY <1>t, RouteConstants, FoundIsServer
  <2> HIDE DEF server, b
  <2>3. CASE UNCHANGED <<channel_service_register, bound_at>>
    BY <2>1, <2>3, <1>1
  <2>4. CASE /\ server # NoSocket
             /\ channel_service_register' = [channel_service_register EXCEPT ![c][n] = server]
             /\ bound_at' = [bound_at EXCEPT ![c][n] = b]
    <3> SUFFICES ASSUME NEW d \in Sockets, NEW m \in Services, Bound(d, m)',
                        bound_at'[d][m].alive
                 PROVE  role'[channel_service_register'[d][m]] = "server"
      BY DEF LiveInv
    <3>1. CASE d = c /\ m = n
      BY <3>1, <2>4, <2>1, <2>2, <1>t DEF BindingType
    <3>2. CASE ~(d = c /\ m = n)
      <4>1. /\ channel_service_register'[d][m] = channel_service_register[d][m]
            /\ bound_at'[d][m] = bound_at[d][m]
        BY <3>2, <2>4, <1>t DEF BindingType
      <4> QED BY <4>1, <2>1 DEF LiveInv, Bound
    <3> QED BY <3>1, <3>2
  <2> QED BY <2>1, <2>3, <2>4
<1>4. \A s, t, n :
        \/ ServerServiceRegister(s, n) \/ ServerServiceCancel(s)
        \/ ServerDisconnectChannelFunc(s, t) \/ RouteProcess(s, n) \/ UNCHANGED vars
        => UNCHANGED <<channel_service_register, bound_at, role>>
  BY DEF ServerServiceRegister, ServerServiceCancel, ServerDisconnectChannelFunc,
         RouteProcess, vars, peers
<1> QED BY <1>1, <1>2, <1>3, <1>4, DisconnectEndsBindings DEF Next

(* Only a binding whose server left hands a request to a peer that is no    *)
(* server.                                                                  *)
THEOREM OnlyDeadBindingsMislead ==
  ASSUME OneServiceEach
  PROVE  Spec => HandedToServers
<1> DEFINE Served == \A p \in sent' :
                       (p.to # NoSocket /\ (p.bound => bound_at[p.from][p.service].alive))
                         => role[p.to] = "server"
<1>1. Init => LiveInv
  BY DEF Init, LiveInv, Bound
<1>2. RouteInv /\ LiveInv /\ [Next]_vars => LiveInv'
  BY LiveInvStep
<1>3. ASSUME RouteInv, LiveInv, Next
      PROVE  Served
  <2>1. CASE sent' = {}
    BY <2>1
  <2>2. ASSUME NEW c \in Sockets, NEW n \in Services, RouteProcess(c, n)
        PROVE  Served
    <3> DEFINE target == GetServerSocket(c, n)
               bound == Bound(c, n)
    <3>1. ASSUME target # NoSocket, bound => bound_at[c][n].alive
          PROVE  role[target] = "server"
      <4>1. CASE bound
        BY <4>1, <3>1, <1>3 DEF LiveInv, GetServerSocket
      <4>2. CASE ~bound
        BY <4>2, <3>1, <1>3, FoundIsServer, RouteConstants DEF GetServerSocket
      <4> QED BY <4>1, <4>2
    <3>2. sent' = {[from |-> c, service |-> n, to |-> target, bound |-> bound]}
      BY <2>2 DEF RouteProcess
    <3> HIDE DEF target, bound
    <3> QED BY <3>1, <3>2
  <2> QED BY <1>3, <2>1, <2>2, SentByProcess
<1>4. RouteInv /\ LiveInv /\ [Next]_vars => [Served]_vars
  BY <1>3
<1> QED BY <1>1, <1>2, <1>4, RouteInvariant, PTL DEF Spec, HandedToServers
-----------------------------------------------------------------------------
(* Route implements ServiceDirectory: a registration is a Join, what closes *)
(* a server is a Leave, a request of a channel that is not bound is a       *)
(* HandOver.  A step that changes nobody's service is the Leave of a socket *)
(* that serves none: that of a channel, or of what just connected.          *)
THEOREM RouteImplementsDirectory ==
  ASSUME OneServiceEach
  PROVE  Spec => DirectorySpec
<1> DEFINE serving == [n \in Services |-> {s \in Sockets : n \in registered[s]}]
           handed == {[service |-> p.service, to |-> p.to] : p \in Unbound(sent)}
<1>1. Init => Directory!Init
  BY DEF Init, Directory!Init, Unbound
(* A step that sends nothing, after which s serves nothing, and which       *)
(* changes nobody else's service. *)
<1>2. ASSUME NEW s \in Sockets, registered \in [Sockets -> SUBSET Services],
             registered' = [registered EXCEPT ![s] = {}], Unbound(sent)' = {}
      PROVE  Directory!Leave(s)
  <2>1. handed' = {}
    BY <1>2
  <2>2. ASSUME NEW n \in Services
        PROVE  {t \in Sockets : n \in registered'[t]} = {t \in Sockets : n \in registered[t]} \ {s}
    BY <1>2
  <2>3. serving' = [n \in Services |-> serving[n] \ {s}]
    BY <2>2
  <2> QED BY <2>1, <2>3 DEF Directory!Leave
<1>3. ASSUME RouteInv, [Next]_vars
      PROVE  [Directory!Next]_(Directory!vars)
  <2>t. /\ TypeOK /\ RegistryAgrees /\ RoleInv /\ RegistryType
        /\ registered \in [Sockets -> SUBSET Services] /\ role \in [Sockets -> {"closed", "channel", "server"}]
    BY <1>3 DEF RouteInv, TypeOK, PeerType
  <2>1. ASSUME NEW s \in Sockets, registered[s] = {}, registered' = registered, Unbound(sent)' = {}
        PROVE  Directory!Next
    <3>1. registered' = [registered EXCEPT ![s] = {}]
      BY <2>1, <2>t
    <3> QED BY <2>1, <2>t, <3>1, <1>2 DEF Directory!Next
  <2>2. ASSUME NEW s \in Sockets, NEW r, NEW a, OnConnect(s, r, a)
        PROVE  Directory!Next
    <3>1. registered[s] = {} /\ registered' = registered /\ sent' = {}
      BY <2>2, <2>t DEF OnConnect, Open, RoleInv
    <3> QED BY <3>1, <2>1 DEF Unbound
  <2>3. ASSUME NEW s \in Sockets, OnDisconnect(s)
        PROVE  Directory!Next
    <3>1. registered' = [registered EXCEPT ![s] = {}] /\ Unbound(sent)' = {}
      BY <2>3 DEF OnDisconnect, Unbound
    <3> QED BY <3>1, <2>t, <1>2 DEF Directory!Next
  <2>4. ASSUME NEW s \in Sockets, ServerServiceCancel(s)
        PROVE  Directory!Next
    <3>1. registered' = [registered EXCEPT ![s] = {}]
      BY <2>4, <1>3, ServiceCancelStep
    <3>2. Unbound(sent)' = {}
      BY <2>4 DEF ServerServiceCancel, Unbound
    <3> QED BY <3>1, <3>2, <2>t, <1>2 DEF Directory!Next
  <2>5. ASSUME NEW s \in Sockets, NEW n \in Services, ServerServiceRegister(s, n)
        PROVE  Directory!Next
    <3>1. registered' = [registered EXCEPT ![s] = @ \cup {n}] /\ n \notin registered[s]
      BY <2>5, <2>t, RegistrationIsAccepted DEF ServerServiceRegister, AddService
    <3>2. handed' = {}
      BY <2>5 DEF ServerServiceRegister, Unbound
    <3>3. ASSUME NEW m \in Services
          PROVE  {t \in Sockets : m \in registered'[t]} = 
                   IF m = n THEN {t \in Sockets : m \in registered[t]} \cup {s}
                            ELSE {t \in Sockets : m \in registered[t]}
      BY <3>1, <2>t
    <3>4. serving' = [serving EXCEPT ![n] = @ \cup {s}] /\ s \notin serving[n]
      BY <3>1, <3>3
    <3> QED BY <3>2, <3>4 DEF Directory!Next, Directory!Join
  <2>6. ASSUME NEW s \in Sockets, NEW t \in Sockets, ServerDisconnectChannelFunc(s, t)
        PROVE  [Directory!Next]_(Directory!vars)
    <3>1. registered' = registered /\ sent' = {}
      BY <2>6 DEF ServerDisconnectChannelFunc, peers
    <3>2. CASE sent = {}
      BY <3>1, <3>2 DEF Directory!vars, Unbound
    <3>3. CASE sent # {}
      <4>1. PICK p \in sent : p.from \in Sockets /\ role[p.from] = "channel"
        BY <3>3, <1>3 DEF RouteInv, SentInv, TypeOK, NetworkType
      <4>2. registered[p.from] = {}
        BY <4>1, <2>t DEF RoleInv
      <4> QED BY <4>1, <4>2, <3>1, <2>1 DEF Unbound
    <3> QED BY <3>2, <3>3
  <2>7. ASSUME NEW c \in Sockets, NEW n \in Services, NEW a \in ChannelAddrs,
               ChannelServiceRegister(c, n, a)
        PROVE  Directory!Next
    <3>1. registered[c] = {} /\ registered' = registered /\ Unbound(sent)' = {}
      BY <2>7, <2>t DEF ChannelServiceRegister, RoleInv, peers, Unbound
    <3> QED BY <3>1, <2>1
  <2>8. ASSUME NEW c \in Sockets, NEW n \in Services, RouteProcess(c, n)
        PROVE  Directory!Next
    <3>p. PICK target, bound : target = GetServerSocket(c, n) /\ bound = Bound(c, n)
      OBVIOUS
    <3>1. registered[c] = {} /\ registered' = registered
      BY <2>8, <2>t DEF RouteProcess, RoleInv, peers
    <3>2. sent' = {[from |-> c, service |-> n, to |-> target, bound |-> bound]}
      BY <2>8, <3>p DEF RouteProcess
    <3>3. CASE bound
      <4>1. Unbound(sent)' = {}
        BY <3>2, <3>3 DEF Unbound
      <4> QED BY <3>1, <4>1, <2>1
    <3>4. CASE ~bound
      <4>1. target \in IF serving[n] = {} THEN {NoSocket} ELSE serving[n]
        <5>1. target = FindServiceSocket(n, AnyAddr)
          BY <3>4, <3>p DEF GetServerSocket
        <5>2. serving[n] = ServersOf(n)
          BY <2>t DEF RegistryAgrees
        <5>3. CASE sockets[n] = <<>>
          BY <5>1, <5>2, <5>3 DEF ServersOf, Range, FindServiceSocket
        <5>4. CASE sockets[n] # <<>>
          BY <5>1, <5>2, <5>4, <2>t, NextServer
        <5> QED BY <5>3, <5>4
      <4>2. handed' = {[service |-> n, to |-> target]}
        <5>1. Unbound(sent)' = {[from |-> c, service |-> n, to |-> target, bound |-> bound]}
          BY <3>2, <3>4 DEF Unbound
        <5> QED BY <5>1
      <4>3. serving' = serving
        BY <3>1
      <4>4. target \in Sockets \cup {NoSocket}
        BY <4>1
      <4> HIDE DEF serving, handed
      <4>5. Directory!HandOver(n, target)
        BY <4>1, <4>2, <4>3 DEF Directory!HandOver, serving, handed
      <4> QED BY <4>4, <4>5 DEF Directory!Next
    <3> QED BY <3>3, <3>4
  <2>9. CASE UNCHANGED vars
    BY <2>9 DEF vars, peers, Directory!vars, Unbound
  <2> QED BY <2>2, <2>3, <2>4, <2>5, <2>6, <2>7, <2>8, <2>9, <1>3 DEF Next
<1> QED BY <1>1, <1>3, RouteInvariant, PTL DEF Spec, DirectorySpec, Directory!Spec
-----------------------------------------------------------------------------
(* The positions from 1 to l of the last k turns, the last one at c.        *)
InTurn(j, k, c, l) == IF j <= c THEN c - j < k ELSE c + l - j < k
LastTurns(q, k, c) == {q[j] : j \in {i \in 1..Len(q) : InTurn(i, k, c, Len(q))}}

(* Who had a turn in this round are the last in turn, and not all of them.  *)
TurnInv ==
  \A n \in Services :
    \/ served[n] = {}
    \/ /\ cur_send_index[n] < Len(sockets[n])
       /\ \E k \in 1..(Len(sockets[n]) - 1) : 
             served[n] = LastTurns(sockets[n], k, cur_send_index[n] + 1)

(* The next position had no turn yet, unless all had one; and with it, the  *)
(* last turns are one more. *)
LEMMA NextTurn ==
  ASSUME NEW l \in Nat \ {0}, NEW c \in 1..l, NEW k \in 0..(l - 1), 
         NEW d, d = IF c = l THEN 1 ELSE c + 1
  PROVE  /\ d \in 1..l /\ ~InTurn(d, k, c, l)
         /\ \A j \in 1..l : InTurn(j, k + 1, d, l) <=> InTurn(j, k, c, l) \/ j = d
<1>1. CASE c = l
  BY <1>1 DEF InTurn
<1>2. CASE c # l
  BY <1>2 DEF InTurn
<1> QED BY <1>1, <1>2

(* A turn that is given to a server: it had none in this round, and it      *)
(* ends the round exactly when it is the last.                              *)
LEMMA TurnStep ==
  ASSUME RouteInv, TurnInv, NEW n \in Services, sockets[n] # <<>>
  PROVE  LET target == FindServiceSocket(n, AnyAddr)
             turn == served[n] \cup {target}
         IN  /\ target \notin served[n]
             /\ \/ ServersOf(n) \subseteq turn
                \/ \E k \in 1..(Len(sockets[n]) - 1) : 
                      turn = LastTurns(sockets[n], k, NextIndex(n) + 1)
<1> DEFINE q == sockets[n]
           l == Len(q)
           d == NextIndex(n) + 1
<1>t. RegistryType /\ IsInjective(q) /\ q \in Seq(Sockets) /\ DOMAIN q = 1..l
      /\ l \in Nat \ {0} /\ cur_send_index[n] \in Nat
  BY DEF RouteInv, TypeOK, RegistryType, RegistryAgrees
<1>1. d \in 1..l /\ FindServiceSocket(n, AnyAddr) = q[d]
  BY <1>t, NextServer
<1>2. d = ((cur_send_index[n] + 1) % l) + 1
  BY DEF NextIndex
<1> HIDE DEF d, l
(* In both cases the turns with this one are the last k of the service. *)
<1>3. /\ q[d] \notin served[n]
      /\ \E k \in 1..l : served[n] \cup {q[d]} = {q[j] : j \in {i \in 1..l : InTurn(i, k, d, l)}}
  <2>1. CASE served[n] = {}
    <3>1. \A i \in 1..l : InTurn(i, 1, d, l) <=> i = d
      BY <1>1, <1>t DEF InTurn
    <3>2. {q[j] : j \in {i \in 1..l : InTurn(i, 1, d, l)}} = {q[d]}
      BY <3>1, <1>1
    <3>3. served[n] \cup {q[d]} = {q[j] : j \in {i \in 1..l : InTurn(i, 1, d, l)}}
      BY <2>1, <3>2
    <3>4. 1 \in 1..l /\ q[d] \notin served[n]
      BY <2>1, <1>t
    <3> QED BY <3>3, <3>4
  <2>2. CASE served[n] # {}
    <3> DEFINE c == cur_send_index[n] + 1
    <3>1. PICK k \in 1..(l - 1) : served[n] = LastTurns(q, k, c)
      BY <2>2 DEF TurnInv, l
    <3>2. c \in 1..l
      BY <2>2, <1>t DEF TurnInv, l
    <3>3. d = IF c = l THEN 1 ELSE c + 1
      <4>1. \A m \in Nat \ {0} : \A e \in 1..m : (e % m) + 1 = IF e = m THEN 1 ELSE e + 1
        BY SMT
      <4> HIDE DEF c
      <4>2. d = (c % l) + 1
        BY <1>2 DEF c
      <4> QED BY <4>1, <4>2, <3>2, <1>t
    <3> HIDE DEF c
    <3>4. /\ ~InTurn(d, k, c, l)
          /\ \A j \in 1..l : InTurn(j, k + 1, d, l) <=> InTurn(j, k, c, l) \/ j = d
      BY <3>1, <3>2, <3>3, <1>t, NextTurn
    <3>5. served[n] = {q[j] : j \in {i \in 1..l : InTurn(i, k, c, l)}}
      BY <3>1 DEF LastTurns, l
    <3>6. q[d] \notin served[n]
      BY <3>4, <3>5, <1>1, <1>t DEF IsInjective
    <3>7. served[n] \cup {q[d]} = {q[j] : j \in {i \in 1..l : InTurn(i, k + 1, d, l)}}
      BY <3>4, <3>5, <1>1
    <3>8. k + 1 \in 1..l
      BY <3>1, <1>t
    <3> QED BY <3>6, <3>7, <3>8
  <2> QED BY <2>1, <2>2
<1>4. PICK k \in 1..l : served[n] \cup {q[d]} = {q[j] : j \in {i \in 1..l : InTurn(i, k, d, l)}}
  BY <1>3
<1>5. CASE k = l
  <2>1. \A i \in 1..l : InTurn(i, l, d, l)
    BY <1>1, <1>t DEF InTurn
  <2>2. ServersOf(n) \subseteq served[n] \cup {q[d]}
    BY <2>1, <1>4, <1>5, <1>t DEF ServersOf, Range
  <2> QED BY <2>2, <1>1, <1>3
<1>6. CASE k # l
  <2>1. k \in 1..(l - 1)
    BY <1>6, <1>t
  <2>2. served[n] \cup {q[d]} = LastTurns(q, k, d)
    BY <1>4 DEF LastTurns, l
  <2> QED BY <2>1, <2>2, <1>1, <1>3 DEF d, l
<1> QED BY <1>5, <1>6

(* A service whose turns are over, or that is as it was. *)
LEMMA TurnKept ==
  ASSUME TurnInv, \A n \in Services : \/ served'[n] = {}
                                      \/ /\ sockets'[n] = sockets[n] /\ served'[n] = served[n]
                                         /\ cur_send_index'[n] = cur_send_index[n]
  PROVE  TurnInv'
<1> SUFFICES ASSUME NEW n \in Services, served'[n] # {}
             PROVE  /\ cur_send_index'[n] < Len(sockets'[n])
                    /\ \E k \in 1..(Len(sockets'[n]) - 1) : 
                          served'[n] = LastTurns(sockets'[n], k, cur_send_index'[n] + 1)
  BY DEF TurnInv, LastTurns
<1>1. /\ sockets'[n] = sockets[n] /\ served'[n] = served[n]
      /\ cur_send_index'[n] = cur_send_index[n]
  OBVIOUS
<1> QED BY <1>1 DEF TurnInv

LEMMA DeleteServiceEndsTurns ==
  ASSUME RouteInv, TurnInv, NEW s \in Sockets, DeleteService(s)
  PROVE  TurnInv'
<1>t. RegistryType /\ served \in [Services -> SUBSET Sockets]
  BY DEF RouteInv, TypeOK, PeerType
<1>1. CASE CanDelete(s)
  <2> DEFINE m == service_socket_2name[s]
             left == RemoveFirst(sockets[m], s)
  <2>1. m \in Services
    BY <1>1, <1>t DEF CanDelete, IsServiceSocket, RegistryType
  <2>2. /\ sockets' = [sockets EXCEPT ![m] = left]
        /\ cur_send_index' = [cur_send_index EXCEPT ![m] = IF left = <<>> THEN 0 ELSE @]
        /\ served' = [served EXCEPT ![m] = {}]
    BY <1>1 DEF DeleteService
  <2> HIDE DEF m, left
  <2> QED BY <1>t, <2>1, <2>2, TurnKept DEF RegistryType
<1>2. CASE ~CanDelete(s)
  BY <1>2, TurnKept DEF DeleteService, registry
<1> QED BY <1>1, <1>2

LEMMA TurnInvStep ==
  ASSUME OneServiceEach, AnyAddr \notin ChannelAddrs, RouteInv, TurnInv, [Next]_vars
  PROVE  TurnInv'
<1>t. RegistryType /\ served \in [Services -> SUBSET Sockets]
  BY DEF RouteInv, TypeOK, PeerType
<1>1. ASSUME UNCHANGED <<sockets, cur_send_index, served>>
      PROVE  TurnInv'
  BY <1>1, TurnKept
<1>2. ASSUME NEW s \in Sockets, NEW r, NEW a, OnConnect(s, r, a)
      PROVE  TurnInv'
  BY <1>1, <1>2 DEF OnConnect, registry
<1>3. ASSUME NEW s \in Sockets, OnDisconnect(s)
      PROVE  TurnInv'
  BY <1>3, DeleteServiceEndsTurns DEF OnDisconnect
<1>4. ASSUME NEW s \in Sockets, ServerServiceCancel(s)
      PROVE  TurnInv'
  BY <1>4, DeleteServiceEndsTurns DEF ServerServiceCancel
<1>5. ASSUME NEW s \in Sockets, NEW n \in Services, ServerServiceRegister(s, n)
      PROVE  TurnInv'
  <2>1. addr_2socket[n][addr[s]] = NoSocket
    BY <1>5, RegistrationIsAccepted DEF RouteInv
  <2>2. /\ sockets' = [sockets EXCEPT ![n] = Append(@, s)] /\ cur_send_index' = cur_send_index
        /\ served' = [served EXCEPT ![n] = {}]
    BY <1>5, <2>1 DEF ServerServiceRegister, AddService
  <2> QED BY <2>2, <1>t, TurnKept DEF RegistryType
<1>6. ASSUME NEW s \in Sockets, NEW t \in Sockets, ServerDisconnectChannelFunc(s, t)
      PROVE  TurnInv'
  BY <1>1, <1>6 DEF ServerDisconnectChannelFunc, registry
<1>7. ASSUME NEW c \in Sockets, NEW n \in Services, NEW a \in ChannelAddrs,
             ChannelServiceRegister(c, n, a)
      PROVE  TurnInv'
  <2>1. UNCHANGED <<sockets, served>> /\ Advance(n, a)
    BY <1>7 DEF ChannelServiceRegister
  <2>2. cur_send_index' = cur_send_index
    BY <2>1 DEF Advance
  <2> QED BY <1>1, <2>1, <2>2
<1>8. ASSUME NEW c \in Sockets, NEW n \in Services, RouteProcess(c, n)
      PROVE  TurnInv'
  <2> DEFINE target == GetServerSocket(c, n)
             turn == served[n] \cup {target}
  <2>1. /\ sockets' = sockets
        /\ served' = IF Bound(c, n) \/ target = NoSocket THEN served
                     ELSE [served EXCEPT ![n] = IF ServersOf(n) \subseteq turn THEN {} ELSE turn]
        /\ IF Bound(c, n) THEN cur_send_index' = cur_send_index ELSE Advance(n, AnyAddr)
    BY <1>8 DEF RouteProcess
  <2>2. CASE Bound(c, n)
    BY <2>1, <2>2, <1>1
  <2>3. CASE ~Bound(c, n) /\ sockets[n] = <<>>
    <3>1. target = NoSocket /\ cur_send_index' = cur_send_index
      BY <2>1, <2>3 DEF GetServerSocket, FindServiceSocket, Advance
    <3> QED BY <2>1, <3>1, <1>1
  <2>4. CASE ~Bound(c, n) /\ sockets[n] # <<>>
    <3>1. /\ target = FindServiceSocket(n, AnyAddr) /\ target # NoSocket
          /\ NextIndex(n) \in 0..(Len(sockets[n]) - 1)
      BY <2>4, <1>t, NextServer, RouteConstants DEF GetServerSocket
    <3>2. cur_send_index' = [cur_send_index EXCEPT ![n] = NextIndex(n)]
      BY <2>1, <2>4 DEF Advance
    <3> HIDE DEF target
    <3>3. served' = [served EXCEPT ![n] = IF ServersOf(n) \subseteq turn THEN {} ELSE turn]
      BY <2>1, <2>4, <3>1
    <3>4. \/ ServersOf(n) \subseteq turn
          \/ \E k \in 1..(Len(sockets[n]) - 1) : turn = LastTurns(sockets[n], k, NextIndex(n) + 1)
      BY <2>4, <3>1, TurnStep
    <3> HIDE DEF turn
    <3>5. CASE ServersOf(n) \subseteq turn
      BY <3>2, <3>3, <3>5, <2>1, <1>t, TurnKept DEF RegistryType
    <3>6. CASE ~(ServersOf(n) \subseteq turn)
      <4> SUFFICES ASSUME NEW m \in Services, served'[m] # {}
                   PROVE  /\ cur_send_index'[m] < Len(sockets'[m])
                          /\ \E k \in 1..(Len(sockets'[m]) - 1) : 
                                served'[m] = LastTurns(sockets'[m], k, cur_send_index'[m] + 1)
        BY DEF TurnInv, LastTurns
      <4>1. CASE m = n
        <5>1. served'[m] = turn /\ cur_send_index'[m] = NextIndex(n) /\ sockets'[m] = sockets[n]
          BY <4>1, <3>2, <3>3, <3>6, <2>1, <1>t DEF RegistryType
        <5>2. NextIndex(n) < Len(sockets[n])
          BY <3>1, <2>4, <1>t DEF RegistryType
        <5> QED BY <5>1, <5>2, <3>4, <3>6
      <4>2. CASE m # n
        <5>1. /\ served'[m] = served[m] /\ cur_send_index'[m] = cur_send_index[m]
              /\ sockets'[m] = sockets[m]
          BY <4>2, <3>2, <3>3, <2>1, <1>t DEF RegistryType
        <5> QED BY <5>1 DEF TurnInv
      <4> QED BY <4>1, <4>2
    <3> QED BY <3>5, <3>6
  <2> QED BY <2>2, <2>3, <2>4
<1>9. CASE UNCHANGED vars
  BY <1>1, <1>9 DEF vars, registry
<1> QED BY <1>2, <1>3, <1>4, <1>5, <1>6, <1>7, <1>8, <1>9 DEF Next

(* Requests that are not bound are shared equally, for any number of        *)
(* servers, when no channel binds to any server.                            *)
THEOREM SharedEqually ==
  ASSUME OneServiceEach, AnyAddr \notin ChannelAddrs
  PROVE  Spec => EqualShare
<1> DEFINE Fair == \A p \in sent' : (~p.bound /\ p.to # NoSocket) 
                                       => p.to \notin served[p.service]
<1>1. Init => TurnInv
  BY DEF Init, TurnInv
<1>2. RouteInv /\ TurnInv /\ [Next]_vars => TurnInv'
  BY TurnInvStep
<1>3. ASSUME RouteInv, TurnInv, Next
      PROVE  Fair
  <2>1. CASE sent' = {}
    BY <2>1
  <2>2. ASSUME NEW c \in Sockets, NEW n \in Services, RouteProcess(c, n)
        PROVE  Fair
    <3> DEFINE target == GetServerSocket(c, n)
               bound == Bound(c, n)
    <3>1. ~bound /\ target # NoSocket => target \notin served[n]
      <4> SUFFICES ASSUME ~Bound(c, n), FindServiceSocket(n, AnyAddr) # NoSocket
                   PROVE  FindServiceSocket(n, AnyAddr) \notin served[n]
        BY DEF GetServerSocket
      <4>1. sockets[n] # <<>>
        BY DEF FindServiceSocket
      <4> QED BY <4>1, <1>3, TurnStep
    <3>2. sent' = {[from |-> c, service |-> n, to |-> target, bound |-> bound]}
      BY <2>2 DEF RouteProcess
    <3> HIDE DEF target, bound
    <3> QED BY <3>1, <3>2
  <2> QED BY <1>3, <2>1, <2>2, SentByProcess
<1>4. RouteInv /\ TurnInv /\ [Next]_vars => [Fair]_vars
  BY <1>3
<1> QED BY <1>1, <1>2, <1>4, RouteInvariant, PTL DEF Spec, EqualShare
=============================================================================
