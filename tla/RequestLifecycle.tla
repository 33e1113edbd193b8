--------------------------- MODULE RequestLifecycle ---------------------------
(***************************************************************************)
(* What the request workflow promises about one request: it is filed with a *)
(* number of steps, its steps are approved in order, and it ends exactly    *)
(* once, approved with its effects applied once, rejected or canceled.      *)
(* This is the contract the detailed workflow is checked against, not code. *)
(***************************************************************************)
EXTENDS Naturals

CONSTANT Requests

VARIABLES status, step, total, effects

vars == <<status, step, total, effects>>

Init ==
  /\ status = [r \in Requests |-> "none"]
  /\ step = [r \in Requests |-> 0]
  /\ total = [r \in Requests |-> 0]
  /\ effects = [r \in Requests |-> 0]

File(r) ==
  /\ status[r] = "none"
  /\ status' = [status EXCEPT ![r] = "pending"]
  /\ step' = [step EXCEPT ![r] = 1]
  /\ total' = [total EXCEPT ![r] = total'[r]]
  /\ total'[r] \in Nat \ {0}
  /\ UNCHANGED effects

Advance(r) ==
  /\ status[r] = "pending"
  /\ step[r] < total[r]
  /\ step' = [step EXCEPT ![r] = @ + 1]
  /\ UNCHANGED <<status, total, effects>>

Approve(r) ==
  /\ status[r] = "pending"
  /\ step[r] = total[r]
  /\ status' = [status EXCEPT ![r] = "approved"]
  /\ effects' = [effects EXCEPT ![r] = @ + 1]
  /\ UNCHANGED <<step, total>>

Refuse(r, outcome) ==
  /\ status[r] = "pending"
  /\ status' = [status EXCEPT ![r] = outcome]
  /\ UNCHANGED <<step, total, effects>>

Next ==
  \E r \in Requests :
    File(r) \/ Advance(r) \/ Approve(r) \/ Refuse(r, "rejected") \/ Refuse(r, "canceled")

Spec == Init /\ [][Next]_vars
=============================================================================
