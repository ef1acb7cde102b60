----------------------------- MODULE GTRequests ------------------------------
(***************************************************************************)
(* What NX_GTServiceCommand promises its callers: requests are carried out *)
(* one at a time, each exactly once, and a caller gets its answer after    *)
(* its request was carried out and not before.                             *)
(***************************************************************************)
CONSTANT Clients

VARIABLE request  \* for every client: "none", "asked" or "done"

Alone(c) == \A d \in Clients \ {c} : request[d] = "none"

Init == request = [c \in Clients |-> "none"]

Ask(c) ==
  /\ request[c] = "none" /\ Alone(c)
  /\ request' = [request EXCEPT ![c] = "asked"]

Serve(c) ==
  /\ request[c] = "asked"
  /\ request' = [request EXCEPT ![c] = "done"]

Answer(c) ==
  /\ request[c] = "done"
  /\ request' = [request EXCEPT ![c] = "none"]

Next == \E c \in Clients : Ask(c) \/ Serve(c) \/ Answer(c)

Fairness == \A c \in Clients : WF_request(Serve(c)) /\ WF_request(Answer(c))

Spec == Init /\ [][Next]_request /\ Fairness

=============================================================================
