------------------------------ MODULE Approval ------------------------------
(***************************************************************************)
(* What the interaction service promises to the service that waits: each   *)
(* request is decided once, by the first verdict that a page sends, and the        *)
(* promise of waitApprove() is settled at most once, with that decision.   *)
(***************************************************************************)
CONSTANT Requests

VARIABLES
    decision,   \* the first verdict about a request: "none", "approve", "reject"
    answer      \* the promise: "unasked", "pending", "approve", "reject"

vars == <<decision, answer>>

Verdicts == {"approve", "reject"}

Init ==
    /\ decision = [r \in Requests |-> "none"]
    /\ answer = [r \in Requests |-> "unasked"]

Ask(r) ==
    /\ answer[r] = "unasked"
    /\ answer' = [answer EXCEPT ![r] = "pending"]
    /\ UNCHANGED decision

Decide(r, v) ==
    /\ answer[r] = "pending" /\ decision[r] = "none"
    /\ decision' = [decision EXCEPT ![r] = v]
    /\ UNCHANGED answer

Settle(r) ==
    /\ answer[r] = "pending" /\ decision[r] # "none"
    /\ answer' = [answer EXCEPT ![r] = decision[r]]
    /\ UNCHANGED decision

Next ==
    \E r \in Requests : Ask(r) \/ Settle(r) \/ \E v \in Verdicts : Decide(r, v)

Spec == Init /\ [][Next]_vars
=============================================================================
