------------------------------ MODULE Framing ------------------------------
(***************************************************************************)
(* How the three OnReceive callbacks cut the stream of a connection into   *)
(* packets (rpc/net_channel.cpp, rpc/net_server.cpp, route/route.cpp).     *)
(* The network gives a callback all the bytes it has not deleted yet, and  *)
(* deletes as many as the callback returns in read_size.                   *)
(*                                                                         *)
(* A packet is a header that holds its size, and that many bytes.  Packets *)
(* are numbered as they were sent, and positions count the bytes of the    *)
(* stream from its start.  Left out: what packets say, and the handlers    *)
(* that refuse what they say (a connection they close receives no more).   *)
(***************************************************************************)
EXTENDS Integers, Sequences, Functions

CONSTANTS Handlers,        \* which of the three callbacks
          HeaderSize,      \* sizeof(PacketSize)
          PacketMaxSize,   \* NET_PACKET_MAX_SIZE
          Sizes,           \* sizes of packets that peers build
          MaxPackets       \* bound: packets sent

ASSUME FramingConstants ==
  /\ Handlers \subseteq {"channel", "server", "route"}
  /\ HeaderSize \in Nat \ {0} /\ PacketMaxSize \in Nat
  /\ Sizes \subseteq Nat \ {0} /\ MaxPackets \in Nat

VARIABLES handler,         \* whose callback receives this stream
          ends,            \* where each packet that was sent ends
          received,        \* where the bytes that have arrived end
          taken,           \* packets deleted from the receive buffer
          handled,         \* packets handled, in order
          open             \* the callback has not closed the connection

vars == <<handler, ends, received, taken, handled, open>>

Init == /\ handler \in Handlers
        /\ ends = <<>>
        /\ received = 0 /\ taken = 0
        /\ handled = <<>>
        /\ open = TRUE

Begin(i) == IF i = 1 THEN 0 ELSE ends[i - 1]
SentUpTo == Begin(Len(ends) + 1)
TooLong(i) == ends[i] - Begin(i) - HeaderSize >= PacketMaxSize

(* BuildBinaryFromMessage: the sender does not compare with the maximum. *)
Send(size) ==
  /\ Len(ends) < MaxPackets
  /\ ends' = Append(ends, SentUpTo + HeaderSize + size)
  /\ UNCHANGED <<handler, received, taken, handled, open>>
-----------------------------------------------------------------------------
(* A loop is at packet i when the bytes up to "upto" have arrived.  It ends *)
(* when there is no more than a header; all three tell the size otherwise,  *)
(* but the server's looks at the maximum only when the packet is complete.  *)
Reaches(i, upto) == i <= Len(ends) /\ upto - Begin(i) > HeaderSize
Complete_Late(i, upto) == ends[i] < upto
Complete(i, upto) == ends[i] <= upto
Refuses_Complete(i, upto) == Reaches(i, upto) /\ TooLong(i) /\ Complete(i, upto)
Refuses(i, upto) == /\ Reaches(i, upto) /\ TooLong(i)
                    /\ handler = "server" => Complete(i, upto)
Handles(i, upto) == Reaches(i, upto) /\ Complete(i, upto) /\ ~TooLong(i)

(* The loop stopped after packet k.  RpcRoute sets read_size only when it   *)
(* leaves its loop at the end, the others after every packet.               *)
ReadSize_None(k, upto) == IF Reaches(k + 1, upto) THEN taken ELSE k
ReadSize(k, upto) == IF handler = "route" /\ Reaches(k + 1, upto) THEN taken ELSE k

Batch_SkipsFirst(k) == [j \in 1..(k - taken) |-> taken + j + 1]
Batch(k) == [j \in 1..(k - taken) |-> taken + j]
OnReceive(upto) ==
  /\ open /\ upto > received
  /\ received' = upto
  /\ \E k \in taken..Len(ends) :
       /\ \A i \in (taken + 1)..k : Handles(i, upto)
       /\ ~Handles(k + 1, upto)
       /\ handled' = handled \o Batch(k)
       /\ open' = ~Refuses(k + 1, upto)
       /\ taken' = ReadSize(k, upto)
  /\ UNCHANGED <<handler, ends>>

Next == \/ \E size \in Sizes : Send(size)
        \/ \E upto \in 1..SentUpTo : OnReceive(upto)

Spec == Init /\ [][Next]_vars
-----------------------------------------------------------------------------
TypeOK == /\ handler \in Handlers
          /\ ends \in Seq(Nat) /\ Len(ends) <= MaxPackets
          /\ received \in 0..SentUpTo
          /\ taken \in 0..Len(ends)
          /\ handled \in Seq(1..Len(ends))
          /\ open \in BOOLEAN

(* Wherever the network cuts the stream, the callback handles each packet   *)
(* once and in the order they were sent.  (net_channel.h:43, net_server.h:44, *)
(* route.h:80: read_size tells what is deleted when the function ends.)     *)
HandledOnce == \A i \in DOMAIN handled : handled[i] = i

(* Also where packets are handled again, as by the route: none is skipped.  *)
(* Whatever is handled, all that was sent before it was handled before.     *)
NothingIsSkipped ==
  \A i \in DOMAIN handled : \A p \in 1..(handled[i] - 1) : 
     \E j \in DOMAIN handled : j < i /\ handled[j] = p

(* When a callback returns, no packet that has arrived as a whole is left   *)
(* for a later call, which may never come.                                  *)
NothingIsHeldBack ==
  open => \A i \in DOMAIN ends : ends[i] <= received => i \in Range(handled)

(* A channel closes the connection as soon as more than the header of a     *)
(* packet that is too long has arrived: it does not wait for the rest.      *)
LongIsRefused ==
  (handler = "channel" /\ open) => \A i \in DOMAIN ends : 
                                      TooLong(i) => received <= Begin(i) + HeaderSize
=============================================================================
