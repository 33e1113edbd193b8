--------------------------- MODULE ApprovalRouting ---------------------------
(***************************************************************************)
(* Approval routes: which route a request type gets, the steps it has, who  *)
(* may decide a step and what happens to a step nobody may decide           *)
(* (approval-routes/approval-routing.ts and approval-routing.service.ts).   *)
(* A route is [appliesTo, steps, onNoApprover, allowSelf], a step is        *)
(* [step, approverType, ref].                                               *)
(***************************************************************************)
EXTENDS Directory, Sequences

RequestTypes ==
  {"punch_fix", "overtime", "late_early", "leave", "direct", "business_trip"}

ApproverTypes == {"user", "department_manager", "manager_of_applicant", "scope"}

ScopeStep(n) == [step |-> n, approverType |-> "scope", ref |-> NoUser]

(* The steps column as descriptors; an empty list is one scope step. Routes *)
(* saved through the API carry every step's number and approver type.       *)
ParseSteps(raw) == IF raw = <<>> THEN <<ScopeStep(1)>> ELSE raw

(* findFirst ordered by applies_to: in the database's collation "all" comes *)
(* before every request type. Rows with equal applies_to have no order, so  *)
(* each of them may be the first.                                           *)
FirstRoutes(routes, type) ==
  IF \E r \in routes : r.appliesTo = "all"
    THEN {r \in routes : r.appliesTo = "all"}
    ELSE {r \in routes : r.appliesTo = type}

DefaultPlan ==
  [steps |-> ParseSteps(<<>>), onNoApprover |-> "auto_approve", allowSelf |-> FALSE]

PlanOf(route) ==
  [steps        |-> ParseSteps(route.steps),
   onNoApprover |-> route.onNoApprover,
   allowSelf    |-> route.allowSelf]

(* The plans resolvePlan may return for a request type.                     *)
ResolvePlan(routes, type) ==
  IF FirstRoutes(routes, type) = {}
    THEN {DefaultPlan}
    ELSE {PlanOf(r) : r \in FirstRoutes(routes, type)}

(* The descriptor of step n: the first one so numbered, else a scope step.  *)
StepOf(plan, n) ==
  LET at == {i \in DOMAIN plan.steps : plan.steps[i].step = n}
  IN  IF at = {}
        THEN ScopeStep(n)
        ELSE plan.steps[CHOOSE i \in at : \A j \in at : i <= j]

(* The approver a step is fixed to, NoUser for a step decided by scope or   *)
(* for a fixed approver that cannot be resolved.                            *)
FixedApprover(dir, desc, ownerDept) ==
  IF desc.approverType = "user"
    THEN IF desc.ref \in dir.active THEN desc.ref ELSE NoUser
    ELSE IF desc.approverType \in {"department_manager", "manager_of_applicant"}
      THEN DepartmentManagerOf(dir, ownerDept)
      ELSE NoUser

CandidateApprovers(dir, desc, owner, ownerDept) ==
  IF desc.approverType = "scope"
    THEN EligibleApprovers(dir, owner, ownerDept)
    ELSE {FixedApprover(dir, desc, ownerDept)} \ {NoUser}

(* mutant: the applicant stays among the candidates                         *)
EligibleIdsWithApplicant(plan, candidates, owner) == candidates

EligibleIds(plan, candidates, owner) ==
  IF plan.allowSelf THEN candidates ELSE candidates \ {owner}

(* What becomes of a step: "pending" waits for a human.                     *)
DecideStep(plan, candidates, owner) ==
  IF EligibleIds(plan, candidates, owner) # {}
    THEN "pending"
    ELSE IF plan.onNoApprover = "block" THEN "block" ELSE "auto_approve"
=============================================================================
