------------------------------- MODULE Admission -------------------------------
(***************************************************************************)
(* What the authentication chain promises, whatever carries a request: its *)
(* handler runs only if the request was admitted, once, by the policy in   *)
(* force at a moment after it arrived, on the rights it has under that     *)
(* policy; and every request is answered at most once.                     *)
(***************************************************************************)
CONSTANTS
  Requests,
  Policies,
  None,           \* no request
  Accepted,       \* the requests that can arrive
  Rights(_, _)    \* request, policy |-> "admitted" or the refusal

VARIABLES policy, request, verdict, stage

vars == <<policy, request, verdict, stage>>

Init ==
  /\ policy \in Policies
  /\ request = [r \in Requests |-> None]
  /\ verdict = [r \in Requests |-> "none"]
  /\ stage = [r \in Requests |-> "idle"]

Swap == policy' \in Policies /\ UNCHANGED <<request, verdict, stage>>

Arrive(r) ==
  /\ stage[r] = "idle"
  /\ stage' = [stage EXCEPT ![r] = "open"]
  /\ \E q \in Accepted : request' = [request EXCEPT ![r] = q]
  /\ UNCHANGED <<policy, verdict>>

Decide(r) ==
  /\ stage[r] = "open" /\ verdict[r] = "none"
  /\ verdict' = [verdict EXCEPT ![r] = Rights(request[r], policy)]
  /\ UNCHANGED <<policy, request, stage>>

Run(r) ==
  /\ stage[r] = "open" /\ verdict[r] = "admitted"
  /\ stage' = [stage EXCEPT ![r] = "ran"]
  /\ UNCHANGED <<policy, request, verdict>>

Answer(r) ==
  /\ stage[r] \in {"open", "ran"}
  /\ stage' = [stage EXCEPT ![r] = "done"]
  /\ UNCHANGED <<policy, request, verdict>>

Next == Swap \/ \E r \in Requests : Arrive(r) \/ Decide(r) \/ Run(r) \/ Answer(r)

Spec == Init /\ [][Next]_vars
===============================================================================
