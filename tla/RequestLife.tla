---------------------------- MODULE RequestLife ----------------------------
(***************************************************************************)
(* What a frrpc channel promises about one request, whatever threads,      *)
(* queues and locks lie behind it: a request is issued once, it is then    *)
(* either decided once (by an answer or by its deadline) or cancelled      *)
(* once, and only a decided request is delivered, exactly at most once.    *)
(* The module Channel is shown to implement this specification.            *)
(***************************************************************************)
EXTENDS Naturals

CONSTANT Requests     \* the request ids

Verdicts == {"ok", "error", "timeout"}   \* how a request may be decided
Undecided == "none"

VARIABLES pending,    \* issued, neither decided nor cancelled
          verdict,    \* how each request was decided
          delivered,  \* how often each request was handed back to its caller
          cancelled   \* the requests that were withdrawn

vars == <<pending, verdict, delivered, cancelled>>

Init == /\ pending = {}
        /\ verdict = [id \in Requests |-> Undecided]
        /\ delivered = [id \in Requests |-> 0]
        /\ cancelled = {}

Issue(id) ==
  /\ id \notin pending \cup cancelled
  /\ verdict[id] = Undecided
  /\ pending' = pending \cup {id}
  /\ UNCHANGED <<verdict, delivered, cancelled>>

Decide(id, v) ==
  /\ id \in pending
  /\ verdict[id] = Undecided
  /\ pending' = pending \ {id}
  /\ verdict' = [verdict EXCEPT ![id] = v]
  /\ UNCHANGED <<delivered, cancelled>>

Withdraw(id) ==
  /\ id \in pending
  /\ pending' = pending \ {id}
  /\ cancelled' = cancelled \cup {id}
  /\ UNCHANGED <<verdict, delivered>>

Deliver(id) ==
  /\ verdict[id] \in Verdicts
  /\ delivered[id] = 0
  /\ delivered' = [delivered EXCEPT ![id] = 1]
  /\ UNCHANGED <<pending, verdict, cancelled>>

Next == \E id \in Requests : \/ Issue(id)
                             \/ \E v \in Verdicts : Decide(id, v)
                             \/ Withdraw(id)
                             \/ Deliver(id)

Spec == Init /\ [][Next]_vars
=============================================================================
