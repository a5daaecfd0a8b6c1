------------------------- MODULE OperationContract --------------------------
(***************************************************************************)
(* What the operation journal promises its callers, with no rows, locks or *)
(* phases: an operation id is claimed by one request for good, its         *)
(* mutation takes effect at most once, an Ok answer stands for an effect   *)
(* that happened, and an operation answered as cancelled neither takes     *)
(* effect nor is confirmed any more.                                       *)
(***************************************************************************)
EXTENDS Naturals

CONSTANTS Operations, Requests, NoRequest

VARIABLES
  claim,    \* [Operations -> Requests or NoRequest]: the request that owns the id
  effects,  \* [Operations -> Nat]: how often the mutation took effect
  verdict   \* [Operations -> Verdicts]: what callers were told

contractVars == <<claim, effects, verdict>>

Init ==
  /\ claim = [op \in Operations |-> NoRequest]
  /\ effects = [op \in Operations |-> 0]
  /\ verdict = [op \in Operations |-> "open"]

Claim(op, request) ==
  /\ claim[op] = NoRequest
  /\ claim' = [claim EXCEPT ![op] = request]
  /\ UNCHANGED <<effects, verdict>>

TakeEffect(op) ==
  /\ claim[op] # NoRequest /\ effects[op] = 0 /\ verdict[op] = "open"
  /\ effects' = [effects EXCEPT ![op] = 1]
  /\ UNCHANGED <<claim, verdict>>

Confirm(op) ==
  /\ effects[op] = 1 /\ verdict[op] = "open"
  /\ verdict' = [verdict EXCEPT ![op] = "confirmed"]
  /\ UNCHANGED <<claim, effects>>

Withdraw(op) ==
  /\ claim[op] # NoRequest /\ verdict[op] = "open"
  /\ verdict' = [verdict EXCEPT ![op] = "withdrawn"]
  /\ UNCHANGED <<claim, effects>>

Next ==
  \E op \in Operations :
    \/ \E request \in Requests : Claim(op, request)
    \/ TakeEffect(op) \/ Confirm(op) \/ Withdraw(op)

Spec == Init /\ [][Next]_contractVars
=============================================================================
