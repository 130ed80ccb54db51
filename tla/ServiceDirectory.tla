-------------------------- MODULE ServiceDirectory --------------------------
(***************************************************************************)
(* What a route without bindings promises, whatever maps lie behind it:    *)
(* servers join and leave the services they offer, a server that leaves is *)
(* gone from all of them, and a request for a service is handed to one of  *)
(* its servers, or to nobody exactly when it has none.                     *)
(***************************************************************************)
CONSTANTS Sockets, Services,
          Nobody               \* where a request with no server goes

VARIABLES serving,             \* the servers of each service
          handed               \* the requests handed over by the last step

vars == <<serving, handed>>

Handover == [service : Services, to : Sockets \cup {Nobody}]

Init == serving = [n \in Services |-> {}] /\ handed = {}

Join(s, n) == /\ s \notin serving[n]
              /\ serving' = [serving EXCEPT ![n] = @ \cup {s}]
              /\ handed' = {}

Leave(s) == /\ serving' = [n \in Services |-> serving[n] \ {s}]
            /\ handed' = {}

HandOver(n, s) == /\ s \in IF serving[n] = {} THEN {Nobody} ELSE serving[n]
                  /\ handed' = {[service |-> n, to |-> s]}
                  /\ UNCHANGED serving

Next == \/ \E s \in Sockets : Leave(s)
        \/ \E s \in Sockets, n \in Services : Join(s, n)
        \/ \E s \in Sockets \cup {Nobody}, n \in Services : HandOver(n, s)

Spec == Init /\ [][Next]_vars
=============================================================================
