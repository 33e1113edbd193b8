------------------------------ MODULE RouteForm ------------------------------
(***************************************************************************)
(* The page on which an administrator puts an approval route together       *)
(* (frontend/app/(app)/approval-routes/page.tsx) and what the API takes of  *)
(* it (the DTOs of approval-routes.module.ts), on top of RequestWorkflow.   *)
(*                                                                          *)
(* A request starts at step 1 and goes on by one, so a route has to number  *)
(* its steps from 1 without a gap. The API takes any numbers: the page, on  *)
(* which steps are added and removed in the middle, is all that sees to it. *)
(***************************************************************************)
EXTENDS RequestWorkflow

CONSTANTS FormMembers,   \* members to choose from
          FormKinds,     \* what the route may apply to
          MaxFormSteps,  \* bound: steps on the form
          MaxRoutes      \* bound: routes in the table

ASSUME FormAssumption ==
  /\ FormMembers \subseteq Users
  /\ FormKinds \subseteq RequestTypes \cup {"all"}
  /\ MaxFormSteps \in Nat /\ MaxRoutes \in Nat

VARIABLE form  \* the steps on the form

formVars == <<vars, form>>

(* What the page offers for approver_type.                                  *)
FormTypes == {"user", "manager", "any"}

NewStep(n) == [step |-> n, approverType |-> "any", ref |-> NoUser]

EmptyForm == <<NewStep(1)>>

AddStep ==
  /\ Len(form) < MaxFormSteps
  /\ form' = Append(form, NewStep(Len(form) + 1))
  /\ UNCHANGED vars

ChooseType(i, type) ==
  /\ form' = [form EXCEPT ![i].approverType = type, ![i].ref = NoUser]
  /\ UNCHANGED vars

ChooseMember(i, u) ==
  /\ form[i].approverType = "user"
  /\ form' = [form EXCEPT ![i].ref = u]
  /\ UNCHANGED vars

Without(i) == [j \in 1..(Len(form) - 1) |-> IF j < i THEN form[j] ELSE form[j + 1]]

(* mutant: the steps after the removed one keep their numbers               *)
RemoveKeepingNumbers(i) ==
  /\ Len(form) > 1
  /\ form' = Without(i)
  /\ UNCHANGED vars

RemoveStep(i) ==
  /\ Len(form) > 1
  /\ form' = [j \in 1..(Len(form) - 1) |-> [Without(i)[j] EXCEPT !.step = j]]
  /\ UNCHANGED vars

(* StepDto: approver_type is one of the server's types, approver_ref may be *)
(* missing.                                                                 *)
Valid(steps) == \A i \in DOMAIN steps : steps[i].approverType \in ApproverTypes

(* The page sends no policy and no permission to approve oneself; the       *)
(* columns have their defaults.                                             *)
CreateFromForm(kind) ==
  /\ Valid(form)
  /\ Cardinality(routes) < MaxRoutes
  /\ CreateRoute([appliesTo |-> kind, steps |-> form,
                  onNoApprover |-> "auto_approve", allowSelf |-> FALSE])
  /\ form' = EmptyForm

(* A refused route stays on the form with an error.                         *)
RefuseForm ==
  /\ ~Valid(form)
  /\ UNCHANGED formVars

RemoveListed(old) == RemoveRoute(old) /\ UNCHANGED form

EditRoutes ==
  \/ AddStep
  \/ \E i \in DOMAIN form :
       \/ \E type \in FormTypes : ChooseType(i, type)
       \/ \E u \in FormMembers : ChooseMember(i, u)
       \/ RemoveStep(i)
  \/ \E kind \in FormKinds : CreateFromForm(kind)
  \/ RefuseForm
  \/ \E old \in routes : RemoveListed(old)

-----------------------------------------------------------------------------
(* A request that waits stands at a step that has an approval row: the      *)
(* numbers the page gives the steps, the step a request starts at and the   *)
(* one it advances to fit together, whatever was added to and removed from  *)
(* the form and whenever the route was replaced.                            *)
WaitsAtAStep ==
  \A r \in Requests :
    status[r] = "pending" => currentStep[r] \in Steps /\ result[r][currentStep[r]] # "none"
=============================================================================
