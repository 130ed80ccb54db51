---------------------------- MODULE HeartProofs ----------------------------
(***************************************************************************)
(* Proofs about the heart check, for every set of sockets.                 *)
(***************************************************************************)
EXTENDS HeartProperties, TLAPS

(* A checked connection is in socket_array.  After the first check that     *)
(* found it silent it waits, and it does not survive the second.            *)
Watched == \A s \in open \ closing : /\ s \in socket_array
                                     /\ silence[s] \in {0, 1}
                                     /\ silence[s] = 1 => s \in wait_heart_array

(* The same of those in socket_array, whoever connected before RunServer.   *)
CheckedInv == running => 
  \A s \in socket_array : /\ silence[s] \in {0, 1}
                          /\ silence[s] = 1 => s \in wait_heart_array

(* Who waits has been silent at the last check; no check, no sockets. *)
WaitingIsSilent == /\ running => \A s \in wait_heart_array : silence[s] # 0
                   /\ ~running /\ stop_pc \notin {"join", "ended"} => socket_array = {}
                   /\ running => stop_pc = "no"

HeartInv == /\ TypeOK
            /\ WaitingIsOpen
            /\ closing \subseteq open
            /\ WaitingIsSilent
            /\ CheckedInv
            /\ ~EarlyConnect => /\ ~running /\ stop_pc = "no" => open = {}
                                /\ running => Watched

LEMMA InitInv == Init => HeartInv
<1> SUFFICES ASSUME Init PROVE HeartInv
  OBVIOUS
<1>1. TypeOK
  <2>1. silence \in [Sockets -> 0..2]
    <3>1. 0 \in 0..2
      OBVIOUS
    <3> QED BY <3>1, Zenon DEF Init
  <2> QED BY <2>1 DEF Init, TypeOK
<1>2. WaitingIsOpen /\ WaitingIsSilent /\ CheckedInv /\ closing \subseteq open
  BY DEF Init, WaitingIsOpen, WaitingIsSilent, CheckedInv
<1>3. ~running /\ open = {}
  BY DEF Init
<1> QED BY <1>1, <1>2, <1>3 DEF HeartInv

LEMMA StepInv == HeartInv /\ [Next]_vars => HeartInv'
<1> SUFFICES ASSUME HeartInv, [Next]_vars PROVE HeartInv'
  OBVIOUS
<1> USE HeartConstants DEF HeartInv, TypeOK, WaitingIsOpen, WaitingIsSilent, CheckedInv, Watched
<1>1. CASE RunServer
  BY <1>1 DEF RunServer, sets
<1>2. CASE StopHeartCheck
  BY <1>2 DEF StopHeartCheck, sets
<1>9. CASE ClearSockets
  BY <1>9 DEF ClearSockets
<1>3. CASE Check
  <2>1. TypeOK'
    <3>1. \A s \in Sockets : 
            (IF silence[s] = 2 THEN 2 ELSE silence[s] + 1) \in 0..2
      OBVIOUS
    <3> QED BY <1>3, <3>1 DEF Check, NextToWait
  <2>2. WaitingIsOpen' /\ (closing \subseteq open)'
    BY <1>3 DEF Check, NextToWait
  <2>3. WaitingIsSilent'
    BY <1>3 DEF Check, NextToWait
  <2>4. (~EarlyConnect /\ ~running /\ stop_pc = "no" => open = {})'
    BY <1>3 DEF Check, NextToWait
  <2>5. (~EarlyConnect /\ running => Watched)'
    BY <1>3 DEF Check, NextToWait
  <2>6. CheckedInv'
    BY <1>3 DEF Check, NextToWait
  <2> QED BY <2>1, <2>2, <2>3, <2>4, <2>5, <2>6
<1>4. CASE EraseWaiting
  BY <1>4 DEF EraseWaiting
<1>5. ASSUME NEW s \in Sockets, AddSocket(s) PROVE HeartInv'
  BY <1>5 DEF AddSocket
<1>6. ASSUME NEW s \in Sockets, DelSocket(s) PROVE HeartInv'
  <2>1. TypeOK'
    BY <1>6 DEF DelSocket, sets
  <2>2. WaitingIsOpen' /\ (closing \subseteq open)'
    BY <1>6 DEF DelSocket, sets
  <2>3. WaitingIsSilent'
    BY <1>6 DEF DelSocket, sets
  <2>4. (~EarlyConnect /\ ~running /\ stop_pc = "no" => open = {})'
    BY <1>6 DEF DelSocket, sets
  <2>5. (~EarlyConnect /\ running => Watched)'
    BY <1>6 DEF DelSocket, sets
  <2>6. CheckedInv'
    BY <1>6 DEF DelSocket, sets
  <2> QED BY <2>1, <2>2, <2>3, <2>4, <2>5, <2>6
<1>7. ASSUME NEW s \in Sockets, UpdateSocket(s) PROVE HeartInv'
  BY <1>7 DEF UpdateSocket, sets
<1>8. CASE UNCHANGED vars
  BY <1>8 DEF vars, sets
<1> QED BY <1>1, <1>2, <1>3, <1>4, <1>5, <1>6, <1>7, <1>8, <1>9 DEF Next

THEOREM HeartInvariant == Spec => []HeartInv
  BY InitInv, StepInv, PTL DEF Spec

(* The variables of the heart check keep their types. *)
THEOREM TypeCorrect == Spec => []TypeOK
<1>1. HeartInv => TypeOK
  BY DEF HeartInv
<1> QED BY <1>1, HeartInvariant, PTL

(* Whatever connects, leaves, speaks or is looked up meanwhile, what waits  *)
(* for its heart is a connection that is there.                             *)
THEOREM WaitingStaysOpen == Spec => []WaitingIsOpen
<1>1. HeartInv => WaitingIsOpen
  BY DEF HeartInv
<1> QED BY <1>1, HeartInvariant, PTL

(* If no socket connects before RunServer, none survives two silent checks. *)
THEOREM SilentSocketsAreClosed == ~EarlyConnect /\ Spec => []SilentIsClosed
<1>1. ~EarlyConnect /\ HeartInv => SilentIsClosed
  BY DEF HeartInv, SilentIsClosed, Watched
<1>2. CASE EarlyConnect
  BY <1>2
<1>3. CASE ~EarlyConnect
  BY <1>1, <1>3, HeartInvariant, PTL
<1> QED BY <1>2, <1>3

(* A connection made while the check runs is checked until it is let go,    *)
(* and goes at the second silent check: also when others connected before   *)
(* RunServer, and are never checked.                                        *)
THEOREM CheckedSocketsAreClosed == Spec => []CheckedIsClosed /\ CheckedIsKept
<1>1. HeartInv => CheckedIsClosed
  BY DEF HeartInv, CheckedInv, CheckedIsClosed
<1> DEFINE Kept == running /\ running' =>
                     (socket_array \cap open') \ closing' \subseteq socket_array'
<1>2. ASSUME HeartInv, Next PROVE Kept
  <2>1. ASSUME Check, running PROVE Kept
    <3>1. /\ open' = open /\ closing' = closing \cup (wait_heart_array \cap open)
          /\ socket_array' = socket_array \ wait_heart_array
      BY <2>1 DEF Check
    <3> QED BY <3>1
  <2>2. ASSUME ~Check, running, running' PROVE Kept
    <3>1. CASE RunServer \/ StopHeartCheck \/ EraseWaiting
      BY <2>2, <3>1 DEF RunServer, StopHeartCheck, EraseWaiting, sets
    <3>2. CASE ClearSockets
      BY <1>2, <2>2, <3>2 DEF ClearSockets, HeartInv, WaitingIsSilent
    <3>3. ASSUME NEW s \in Sockets, AddSocket(s) \/ DelSocket(s) \/ UpdateSocket(s)
          PROVE  Kept
      BY <3>3 DEF AddSocket, DelSocket, UpdateSocket, sets
    <3> QED BY <1>2, <2>2, <3>1, <3>2, <3>3 DEF Next
  <2> QED BY <2>1, <2>2
<1>3. HeartInv /\ [Next]_vars => [Kept]_vars
  BY <1>2
<1> QED BY <1>1, <1>3, HeartInvariant, PTL DEF Spec, CheckedIsKept

(* Nobody is disconnected by a check who was handled since the one before.  *)
THEOREM HandledSocketsAreKept == Spec => HandledIsKept
<1>1. HeartInv /\ [Next]_vars => 
        [\A s \in Sockets : Check /\ running /\ silence[s] = 0 => s \notin closing' \ closing]_vars
  BY DEF HeartInv, WaitingIsSilent, Check
<1> QED BY <1>1, HeartInvariant, PTL DEF Spec, HandledIsKept
=============================================================================
