------------------------ MODULE RequestWorkflow_proofs ------------------------
(***************************************************************************)
(* RequestWorkflow for any set of users, departments, requests and          *)
(* concurrent handlers, any routes and any administration under way,        *)
(* handlers lost or not. What makes its type and its safety properties      *)
(* inductive is that a handler's snapshot can only be outlived, never       *)
(* contradicted: rows are not deleted, the audit log only grows, and so     *)
(* whatever a handler concluded from its reads about the steps before its   *)
(* own still holds when it commits.                                         *)
(*                                                                          *)
(* Then what the rows, the audit log and the status of a request say of     *)
(* each other, whatever handlers overlap: the rows and the log agree,       *)
(* whoever decided was entitled to, and an approved request had all of its  *)
(* steps approved. Last the two ends of the scale: handlers that do not     *)
(* overlap implement RequestLifecycle, and where nothing is edited and no   *)
(* handler is lost, a request that waits is in the list of somebody who may *)
(* decide it, however its handlers overlapped.                              *)
(***************************************************************************)
EXTENDS RequestWorkflow, FiniteSetTheorems, TLAPS

-----------------------------------------------------------------------------
(* The operators the actions are built from                                 *)

(* The widest of a set of granted scopes is one of them.                    *)
LEMMA ResolveScopeType ==
  ASSUME NEW granted \in SUBSET Scopes
  PROVE  ResolveScope(granted) \in Scopes \cup {NoScope}
<1>1. CASE granted = {}
  BY <1>1 DEF ResolveScope
<1>2. CASE granted # {}
  <2> DEFINE Widest(s) == \A t \in granted : SCOPE_RANK[t] <= SCOPE_RANK[s]
  <2>1. /\ SCOPE_RANK["self"] = 0
        /\ SCOPE_RANK["department"] = 1
        /\ SCOPE_RANK["location"] = 2
        /\ SCOPE_RANK["org"] = 3
    BY DEF SCOPE_RANK
  <2>2. \E s \in granted : Widest(s)
    <3>1. CASE "org" \in granted
      BY <2>1, <3>1 DEF Scopes, Widest
    <3>2. CASE "org" \notin granted /\ "location" \in granted
      BY <2>1, <3>2 DEF Scopes, Widest
    <3>3. CASE granted \subseteq {"self", "department"} /\ "department" \in granted
      BY <2>1, <3>3 DEF Scopes, Widest
    <3>4. CASE granted = {"self"}
      BY <2>1, <3>4 DEF Widest
    <3>5. QED
      BY <1>2, <3>1, <3>2, <3>3, <3>4 DEF Scopes
  <2>3. (CHOOSE s \in granted : Widest(s)) \in granted
    BY <2>2
  <2>4. QED
    BY <1>2, <2>3 DEF ResolveScope
<1>3. QED
  BY <1>1, <1>2

LEMMA AccessibleDeptsType ==
  ASSUME NEW d, NEW actorDept, NEW scope \in Scopes
  PROVE  AccessibleDepts(d, actorDept, scope) \in SUBSET Depts
BY DEF AccessibleDepts, Scopes, Subtree

(* The approver a step is fixed to is an active user or nobody.             *)
LEMMA FixedApproverType ==
  ASSUME NEW d \in Directories, NEW desc, NEW ownerDept
  PROVE  FixedApprover(d, desc, ownerDept) \in ApproverIds
BY DEF FixedApprover, DepartmentManagerOf, Directories, ApproverIds

(* Only a route that allows it makes a plan that allows self-approval.      *)
LEMMA SelfApprovalComesFromRoute ==
  ASSUME NEW rs, NEW type, NEW plan \in ResolvePlan(rs, type), plan.allowSelf
  PROVE  \E o \in rs : o.appliesTo \in {type, "all"} /\ o.allowSelf
BY DEF ResolvePlan, FirstRoutes, DefaultPlan, PlanOf

-----------------------------------------------------------------------------
(* Types                                                                    *)

LEMMA IdleType == Idle \in CallStates
BY WorkflowAssumption
   DEF Idle, CallStates, Waits, Verdicts, Scopes, NoScope, ApproverIds

LEMMA InitType == Init => TypeOK
BY IdleType, WorkflowAssumption
   DEF Init, TypeOK, RequestStatuses, Results, ApproverIds, AuditRows

(* Where every handler that is under way stands: it works on a request, and *)
(* the handlers that decide a step hold a step that is in Steps.            *)
Deciding == {"act_read", "act_check", "auto_plan", "decide"}

Placed ==
  \A c \in Calls :
    /\ call[c].pc # "idle" => call[c].req \in Requests
    /\ call[c].pc \in Deciding => call[c].step \in Steps
    /\ call[c].pc \in {"act_read", "act_check"} => call[c].actor \in Users

LEMMA InitPlaced == Init => Placed
BY DEF Init, Placed, Idle, Deciding

LEMMA EntryType ==
  ASSUME NEW a \in AuditActions, NEW n \in Nat, NEW u \in ApproverIds
  PROVE  Entry(a, n, u) \in AuditRows
BY DEF Entry, AuditRows

LEMMA DecisionActionType ==
  ASSUME NEW k
  PROVE  DecisionAction(k) \in Decisions
BY DEF DecisionAction, Decisions, Approvals

LEMMA AfterAdvanceType ==
  ASSUME NEW k \in CallStates, k.req \in Requests
  PROVE  /\ AfterAdvance(k) \in CallStates
         /\ AfterAdvance(k).req \in Requests \cup {NoRequest}
         /\ AfterAdvance(k).pc \in {"idle", "auto_request"}
         /\ AfterAdvance(k).pc # "idle" => AfterAdvance(k).req = k.req
<1> DEFINE iteration == IF k.actor = NoUser THEN k.guard + 1 ELSE 0
           next == [Idle EXCEPT !.pc = "auto_request", !.req = k.req, !.guard = iteration]
<1>1. iteration \in Nat
  BY DEF CallStates
<1>2. next \in CallStates /\ next.req = k.req /\ next.pc = "auto_request"
  <2> HIDE DEF iteration
  <2>1. "auto_request" \in Waits
    BY DEF Waits
  <2> QED
    BY <1>1, <2>1, IdleType DEF Idle, CallStates
<1>3. AfterAdvance(k) \in {next, Idle}
  BY DEF AfterAdvance
<1>4. Idle.pc = "idle" /\ Idle.req = NoRequest
  BY DEF Idle
<1> QED
  BY <1>2, <1>3, <1>4, IdleType

(* A handler that goes on, and nothing else, keeps the types and places.    *)
LEMMA CallChange ==
  ASSUME TypeOK, Placed, NEW c \in Calls, NEW k \in CallStates,
         call' = [call EXCEPT ![c] = k],
         k.pc # "idle" => k.req \in Requests,
         k.pc \in Deciding => k.step \in Steps,
         k.pc \in {"act_read", "act_check"} => k.actor \in Users
  PROVE  /\ call' \in [Calls -> CallStates]
         /\ Placed'
BY DEF TypeOK, Placed

LEMMA AppendToAudit ==
  ASSUME TypeOK, NEW r, NEW e \in AuditRows, audit' = [audit EXCEPT ![r] = Append(@, e)]
  PROVE  audit' \in [Requests -> Seq(AuditRows)]
<1>1. r \in Requests => Append(audit[r], e) \in Seq(AuditRows)
  BY DEF TypeOK
<1> QED
  BY <1>1 DEF TypeOK

(* What a decision writes keeps the types of the tables it touches.         *)
LEMMA WriteDecisionType ==
  ASSUME TypeOK, NEW k \in CallStates, k.req \in Requests, WriteDecision(k)
  PROVE  /\ dir' \in Directories
         /\ result' \in [Requests -> [Steps -> Results]]
         /\ approverId' \in [Requests -> [Steps -> ApproverIds]]
         /\ audit' \in [Requests -> Seq(AuditRows)]
         /\ assigned' \in [Requests -> [Steps -> ApproverIds]]
<1>1. k.verdict \in Results /\ k.actor \in ApproverIds /\ k.step \in Nat
  BY DEF CallStates, Verdicts, Results
<1>2. Entry(DecisionAction(k), k.step, k.actor) \in AuditRows
  BY <1>1, DecisionActionType, EntryType DEF Decisions, Approvals, AuditActions
<1>3. result' \in [Requests -> [Steps -> Results]]
  BY <1>1 DEF TypeOK, WriteDecision
<1>4. approverId' \in [Requests -> [Steps -> ApproverIds]]
  BY <1>1 DEF TypeOK, WriteDecision
<1>5. audit' \in [Requests -> Seq(AuditRows)]
  BY <1>2 DEF TypeOK, WriteDecision
<1> QED
  BY <1>3, <1>4, <1>5 DEF TypeOK, WriteDecision, conf

(* A handler's own step keeps the types and the places.                     *)
LEMMA ContinueType ==
  ASSUME TypeOK, Placed, NEW c \in Calls, Continue(c)
  PROVE  TypeOK' /\ Placed'
<1> DEFINE k == call[c]
<1>0. k \in CallStates /\ (k.pc # "idle" => k.req \in Requests)
  BY DEF TypeOK, Placed
<1>1. Idle \in CallStates /\ Idle.pc = "idle" /\ Idle.pc \notin Deciding
  BY IdleType DEF Idle, Deciding
<1>2. CASE CreatePlan(c)
  <2>1. PICK plan : call' = [call EXCEPT ![c] =
          IF StepsDistinct(plan)
            THEN [@ EXCEPT !.pc = "create_rows",
                           !.rows = PlannedRows(plan, dir.dept[Owner[call[c].req]])]
            ELSE Idle]
    BY <1>2 DEF CreatePlan
  <2> DEFINE rows == PlannedRows(plan, dir.dept[Owner[k.req]])
             next == [k EXCEPT !.pc = "create_rows", !.rows = rows]
  <2>2. rows \in [Steps -> ApproverIds \cup {NoRow}]
    BY FixedApproverType DEF PlannedRows, TypeOK
  <2>3. next \in CallStates /\ next.pc = "create_rows" /\ next.req = k.req
    <3> HIDE DEF rows
    <3>1. "create_rows" \in Waits
      BY DEF Waits
    <3> QED
      BY <1>0, <2>2, <3>1 DEF CallStates
  <2>4. k.pc = "create_plan"
    BY <1>2 DEF CreatePlan
  <2>5. \/ call' = [call EXCEPT ![c] = next]
        \/ call' = [call EXCEPT ![c] = Idle]
    BY <2>1
  <2>6. "create_rows" \notin Deciding
    BY DEF Deciding
  <2>7. call' \in [Calls -> CallStates] /\ Placed'
    <3> HIDE DEF next
    <3> QED
      BY <1>0, <1>1, <2>3, <2>4, <2>5, <2>6, CallChange
  <2> QED
    BY <1>2, <2>7 DEF CreatePlan, TypeOK, db, conf
<1>3. CASE CreateRows(c)
  <2>1. k.pc = "create_rows" /\ k.req \in Requests
    BY <1>0, <1>3 DEF CreateRows
  <2> DEFINE next == [Idle EXCEPT !.pc = "auto_request", !.req = k.req]
  <2>2. next \in CallStates /\ next.pc = "auto_request" /\ next.req = k.req
    <3>1. "auto_request" \in Waits
      BY DEF Waits
    <3> QED
      BY <1>1, <2>1, <3>1 DEF Idle, CallStates
  <2>3. call' \in [Calls -> CallStates] /\ Placed'
    <3>1. call' = [call EXCEPT ![c] = next]
      BY <1>3 DEF CreateRows
    <3>2. "auto_request" \notin Deciding
      BY DEF Deciding
    <3> HIDE DEF next
    <3> QED
      BY <2>1, <2>2, <3>1, <3>2, CallChange
  <2>4. result' \in [Requests -> [Steps -> Results]]
    BY <1>3 DEF CreateRows, TypeOK, Results
  <2>5. approverId' \in [Requests -> [Steps -> ApproverIds]]
    BY <1>0, <1>3 DEF CreateRows, TypeOK, CallStates, ApproverIds
  <2>6. assigned' \in [Requests -> [Steps -> ApproverIds]]
    <3>1. assigned' = [assigned EXCEPT ![k.req] = approverId'[k.req]]
      BY <1>3 DEF CreateRows
    <3> QED
      BY <2>1, <2>5, <3>1 DEF TypeOK
  <2>7. audit' \in [Requests -> Seq(AuditRows)]
    <3>1. Entry("request.create", 0, k.actor) \in AuditRows
      BY <1>0, EntryType DEF CallStates, AuditActions
    <3>2. audit' = [audit EXCEPT ![k.req] =
                      Append(@, Entry("request.create", 0, k.actor))]
      BY <1>3 DEF CreateRows
    <3> QED
      BY <3>1, <3>2, AppendToAudit
  <2>8. status' \in [Requests -> RequestStatuses] /\ currentStep' \in [Requests -> Nat]
    BY <1>3 DEF CreateRows, TypeOK, RequestStatuses
  <2> QED
    BY <1>3, <2>3, <2>4, <2>5, <2>6, <2>7, <2>8 DEF CreateRows, TypeOK, conf
<1>4. CASE ActRead(c)
  <2> DEFINE next == [k EXCEPT !.pc = "act_check",
                        !.fixed = approverId[k.req][k.step],
                        !.sees = IsVisible(k.scope, k.actor, k.depts, Owner[k.req],
                                           dir.dept[Owner[k.req]])]
  <2>1. k.pc = "act_read" /\ k.req \in Requests /\ k.step \in Steps /\ k.actor \in Users
    BY <1>0, <1>4 DEF ActRead, Placed, Deciding
  <2>2. /\ next \in CallStates
        /\ next.pc = "act_check" /\ next.req = k.req
        /\ next.step = k.step /\ next.actor = k.actor
    <3>1. approverId[k.req][k.step] \in ApproverIds
      BY <2>1 DEF TypeOK
    <3>2. IsVisible(k.scope, k.actor, k.depts, Owner[k.req], dir.dept[Owner[k.req]])
            \in BOOLEAN
      BY DEF IsVisible
    <3>3. "act_check" \in Waits
      BY DEF Waits
    <3> QED
      BY <1>0, <3>1, <3>2, <3>3 DEF CallStates
  <2>3. \/ call' = [call EXCEPT ![c] = next]
        \/ call' = [call EXCEPT ![c] = Idle]
    BY <1>4 DEF ActRead
  <2>4. call' \in [Calls -> CallStates] /\ Placed'
    <3> HIDE DEF next
    <3> QED
      BY <1>1, <2>1, <2>2, <2>3, CallChange
  <2> QED
    BY <1>4, <2>4 DEF ActRead, TypeOK, db, conf
<1>5. CASE ActCheck(c)
  <2> DEFINE next == [k EXCEPT !.pc = "decide"]
  <2>1. k.pc = "act_check" /\ k.req \in Requests /\ k.step \in Steps
    BY <1>0, <1>5 DEF ActCheck, Placed, Deciding
  <2>2. /\ next \in CallStates
        /\ next.pc = "decide" /\ next.req = k.req /\ next.step = k.step
    BY <1>0 DEF CallStates, Waits
  <2>3. \/ call' = [call EXCEPT ![c] = next]
        \/ call' = [call EXCEPT ![c] = Idle]
    BY <1>5 DEF ActCheck
  <2>4. call' \in [Calls -> CallStates] /\ Placed'
    <3> HIDE DEF next
    <3> QED
      BY <1>1, <2>1, <2>2, <2>3, CallChange
  <2> QED
    BY <1>5, <2>4 DEF ActCheck, TypeOK, db, conf
<1>6. CASE RecordRejection(c)
  <2>1. k.req \in Requests /\ WriteDecision(k)
    BY <1>0, <1>6 DEF RecordRejection
  <2>2. call' \in [Calls -> CallStates] /\ Placed'
    BY <1>1, <1>6, CallChange DEF RecordRejection
  <2>3. status' \in [Requests -> RequestStatuses]
    BY <1>6 DEF RecordRejection, TypeOK, RequestStatuses
  <2> QED
    BY <1>0, <1>6, <2>1, <2>2, <2>3, WriteDecisionType DEF RecordRejection, TypeOK
<1>7. CASE RecordFinalApproval(c)
  <2>1. k.req \in Requests /\ WriteDecision(k)
    BY <1>0, <1>7 DEF RecordFinalApproval
  <2> DEFINE next == [Idle EXCEPT !.pc = "recompute", !.req = k.req]
  <2>2. next \in CallStates /\ next.pc = "recompute" /\ next.req = k.req
    <3>1. "recompute" \in Waits
      BY DEF Waits
    <3> QED
      BY <1>1, <2>1, <3>1 DEF Idle, CallStates
  <2>3. call' \in [Calls -> CallStates] /\ Placed'
    <3>1. \/ call' = [call EXCEPT ![c] = next]
          \/ call' = [call EXCEPT ![c] = Idle]
      BY <1>7 DEF RecordFinalApproval
    <3>2. "recompute" \notin Deciding
      BY DEF Deciding
    <3> HIDE DEF next
    <3> QED
      BY <1>1, <2>1, <2>2, <3>1, <3>2, CallChange
  <2>4. /\ status' \in [Requests -> RequestStatuses]
        /\ effects' \in [Requests -> Nat]
    BY <1>7, <2>1 DEF RecordFinalApproval, TypeOK, RequestStatuses
  <2> QED
    BY <1>0, <1>7, <2>1, <2>3, <2>4, WriteDecisionType DEF RecordFinalApproval, TypeOK
<1>8. CASE RecordAdvance(c)
  <2>1. k.req \in Requests /\ WriteDecision(k) /\ k.step + 1 \in Nat
    BY <1>0, <1>8 DEF RecordAdvance, CallStates
  <2>2. call' \in [Calls -> CallStates] /\ Placed'
    <3>1. call' = [call EXCEPT ![c] = AfterAdvance(k)]
      BY <1>8 DEF RecordAdvance
    <3>2. /\ AfterAdvance(k) \in CallStates
          /\ AfterAdvance(k).pc # "idle" => AfterAdvance(k).req \in Requests
          /\ AfterAdvance(k).pc \notin Deciding
      BY <1>0, <2>1, AfterAdvanceType DEF Deciding
    <3> QED
      BY <3>1, <3>2, CallChange DEF Deciding
  <2>3. currentStep' \in [Requests -> Nat]
    BY <1>8, <2>1 DEF RecordAdvance, TypeOK
  <2> QED
    BY <1>0, <1>8, <2>1, <2>2, <2>3, WriteDecisionType DEF RecordAdvance, TypeOK
<1>9. CASE RecomputePunchFix(c)
  <2>1. call' \in [Calls -> CallStates] /\ Placed'
    BY <1>1, <1>9, CallChange DEF RecomputePunchFix
  <2> QED
    BY <1>9, <2>1 DEF RecomputePunchFix, TypeOK, db, conf
<1>10. CASE AutoReadRequest(c)
  <2> DEFINE next == [k EXCEPT !.pc = "auto_approval", !.step = currentStep[k.req],
                               !.dept = dir.dept[Owner[k.req]]]
  <2>1. k.pc = "auto_request" /\ k.req \in Requests
    BY <1>0, <1>10 DEF AutoReadRequest
  <2>2. next \in CallStates /\ next.pc = "auto_approval" /\ next.req = k.req
    <3>1. currentStep[k.req] \in Nat
      BY <2>1 DEF TypeOK
    <3>2. dir.dept[Owner[k.req]] \in Depts \cup {NoDept}
      BY <2>1, WorkflowAssumption DEF TypeOK, Directories
    <3>3. "auto_approval" \in Waits
      BY DEF Waits
    <3> QED
      BY <1>0, <3>1, <3>2, <3>3 DEF CallStates
  <2>3. \/ call' = [call EXCEPT ![c] = next]
        \/ call' = [call EXCEPT ![c] = Idle]
    BY <1>10 DEF AutoReadRequest
  <2>4. call' \in [Calls -> CallStates] /\ Placed'
    <3>1. "auto_approval" \notin Deciding
      BY DEF Deciding
    <3> HIDE DEF next
    <3> QED
      BY <1>1, <2>1, <2>2, <2>3, <3>1, CallChange DEF Deciding
  <2> QED
    BY <1>10, <2>4 DEF AutoReadRequest, TypeOK, db, conf
<1>11. CASE AutoReadApproval(c)
  <2> DEFINE next == [k EXCEPT !.pc = "auto_plan"]
  <2>1. k.pc = "auto_approval" /\ k.req \in Requests
    BY <1>0, <1>11 DEF AutoReadApproval
  <2>2. next \in CallStates /\ next.pc = "auto_plan" /\ next.req = k.req /\ next.step = k.step
    BY <1>0 DEF CallStates, Waits
  <2>3. \/ call' = [call EXCEPT ![c] = next] /\ k.step \in Steps
        \/ call' = [call EXCEPT ![c] = Idle]
    BY <1>11 DEF AutoReadApproval
  <2>4. call' \in [Calls -> CallStates] /\ Placed'
    <3> HIDE DEF next
    <3> QED
      BY <1>1, <2>1, <2>2, <2>3, CallChange
  <2> QED
    BY <1>11, <2>4 DEF AutoReadApproval, TypeOK, db, conf
<1>12. CASE AutoDecide(c)
  <2> DEFINE next == [k EXCEPT !.pc = "decide"]
  <2>1. k.pc = "auto_plan" /\ k.req \in Requests /\ k.step \in Steps
    BY <1>0, <1>12 DEF AutoDecide, Placed, Deciding
  <2>2. next \in CallStates /\ next.pc = "decide" /\ next.req = k.req /\ next.step = k.step
    BY <1>0 DEF CallStates, Waits
  <2>3. \/ call' = [call EXCEPT ![c] = next]
        \/ call' = [call EXCEPT ![c] = Idle]
    BY <1>12 DEF AutoDecide
  <2>4. call' \in [Calls -> CallStates] /\ Placed'
    <3> HIDE DEF next
    <3> QED
      BY <1>1, <2>1, <2>2, <2>3, CallChange
  <2> QED
    BY <1>12, <2>4 DEF AutoDecide, TypeOK, db, conf
<1>13. CASE CancelWrite(c)
  <2> DEFINE next == [k EXCEPT !.pc = "cancel_audit"]
  <2>1. k.pc = "cancel_write" /\ k.req \in Requests
    BY <1>0, <1>13 DEF CancelWrite
  <2>2. next \in CallStates /\ next.pc = "cancel_audit" /\ next.req = k.req
    BY <1>0 DEF CallStates, Waits
  <2>3. call' = [call EXCEPT ![c] = next]
    BY <1>13 DEF CancelWrite
  <2>4. call' \in [Calls -> CallStates] /\ Placed'
    <3>1. "cancel_audit" \notin Deciding
      BY DEF Deciding
    <3> HIDE DEF next
    <3> QED
      BY <2>1, <2>2, <2>3, <3>1, CallChange DEF Deciding
  <2>5. status' \in [Requests -> RequestStatuses]
    BY <1>13 DEF CancelWrite, TypeOK, RequestStatuses
  <2> QED
    BY <1>13, <2>4, <2>5 DEF CancelWrite, TypeOK, conf
<1>14. CASE CancelAudit(c)
  <2>1. call' \in [Calls -> CallStates] /\ Placed'
    BY <1>1, <1>14, CallChange DEF CancelAudit
  <2>2. Entry("request.cancel", 0, k.actor) \in AuditRows
    BY <1>0, EntryType DEF CallStates, AuditActions
  <2>3. audit' \in [Requests -> Seq(AuditRows)]
    <3>1. audit' = [audit EXCEPT ![k.req] = Append(@, Entry("request.cancel", 0, k.actor))]
      BY <1>14 DEF CancelAudit
    <3> QED
      BY <2>2, <3>1, AppendToAudit
  <2> QED
    BY <1>14, <2>1, <2>3 DEF CancelAudit, TypeOK, conf
<1> QED
  BY <1>2, <1>3, <1>4, <1>5, <1>6, <1>7, <1>8, <1>9, <1>10, <1>11, <1>12, <1>13, <1>14
     DEF Continue

(* A call that starts keeps the types and the places.                       *)
LEMMA StartType ==
  ASSUME TypeOK, Placed, NEW c \in Calls, Start(c)
  PROVE  TypeOK' /\ Placed'
<1>1. ASSUME NEW r \in Requests, StartCreate(c, r)
      PROVE  TypeOK' /\ Placed'
  <2> DEFINE next == [Idle EXCEPT !.pc = "create_plan", !.req = r, !.actor = Owner[r]]
  <2>1. next \in CallStates /\ next.pc = "create_plan" /\ next.req = r
    <3>1. "create_plan" \in Waits /\ Owner[r] \in ApproverIds
      BY WorkflowAssumption DEF Waits, ApproverIds
    <3> QED
      BY <3>1, IdleType DEF Idle, CallStates
  <2>2. call' = [call EXCEPT ![c] = next]
    BY <1>1 DEF StartCreate
  <2>3. call' \in [Calls -> CallStates] /\ Placed'
    <3>1. "create_plan" \notin Deciding
      BY DEF Deciding
    <3> HIDE DEF next
    <3> QED
      BY <2>1, <2>2, <3>1, CallChange DEF Deciding
  <2> QED
    BY <1>1, <2>3 DEF StartCreate, TypeOK, db, conf
<1>2. ASSUME NEW r \in Requests, StartCancel(c, r)
      PROVE  TypeOK' /\ Placed'
  <2> DEFINE next == [Idle EXCEPT !.pc = "cancel_write", !.req = r, !.actor = Owner[r]]
  <2>1. next \in CallStates /\ next.pc = "cancel_write" /\ next.req = r
    <3>1. "cancel_write" \in Waits /\ Owner[r] \in ApproverIds
      BY WorkflowAssumption DEF Waits, ApproverIds
    <3> QED
      BY <3>1, IdleType DEF Idle, CallStates
  <2>2. call' = [call EXCEPT ![c] = next]
    BY <1>2 DEF StartCancel
  <2>3. call' \in [Calls -> CallStates] /\ Placed'
    <3>1. "cancel_write" \notin Deciding
      BY DEF Deciding
    <3> HIDE DEF next
    <3> QED
      BY <2>1, <2>2, <3>1, CallChange DEF Deciding
  <2> QED
    BY <1>2, <2>3 DEF StartCancel, TypeOK, db, conf
<1>3. ASSUME NEW u \in Users, NEW r \in Requests, NEW s \in Steps, NEW v \in Verdicts,
             StartAct(c, u, r, s, v)
      PROVE  TypeOK' /\ Placed'
  <2> DEFINE scope == ResolveScope(dir.grants[u])
             depts == AccessibleDepts(dir, dir.dept[u], scope)
             next  == [Idle EXCEPT !.pc = "act_read", !.req = r, !.step = s, !.actor = u,
                                   !.verdict = v, !.scope = scope, !.depts = depts]
  <2>1. scope \in Scopes
    <3>1. dir.grants[u] \in SUBSET Scopes
      BY DEF TypeOK, Directories
    <3> QED
      BY <1>3, <3>1, ResolveScopeType DEF StartAct
  <2>2. depts \in SUBSET Depts
    BY <2>1, AccessibleDeptsType
  <2>3. /\ next \in CallStates
        /\ next.pc = "act_read" /\ next.req = r /\ next.step = s /\ next.actor = u
    <3>1. "act_read" \in Waits /\ u \in ApproverIds /\ s \in Nat
      BY WorkflowAssumption DEF Waits, ApproverIds
    <3> HIDE DEF scope, depts
    <3> QED
      BY <2>1, <2>2, <3>1, IdleType DEF Idle, CallStates
  <2>4. call' = [call EXCEPT ![c] = next]
    BY <1>3 DEF StartAct
  <2>5. call' \in [Calls -> CallStates] /\ Placed'
    <3> HIDE DEF next
    <3> QED
      BY <2>3, <2>4, CallChange
  <2> QED
    BY <1>3, <2>5 DEF StartAct, TypeOK, db, conf
<1> QED
  BY <1>1, <1>2, <1>3 DEF Start

LEMMA NextType ==
  ASSUME TypeOK, Placed, [Next]_vars
  PROVE  TypeOK' /\ Placed'
<1>1. ASSUME NEW c \in Calls, Crash(c)
      PROVE  TypeOK' /\ Placed'
  <2>1. call' \in [Calls -> CallStates] /\ Placed'
    BY <1>1, IdleType, CallChange DEF Crash, Idle, Deciding
  <2> QED
    BY <1>1, <2>1 DEF Crash, TypeOK, db, conf
<1>2. CASE Administer
  <2>1. ASSUME NEW m \in MemberOptions, UpdateMember(m)
        PROVE  dir' \in Directories
    <3>1. /\ m.user \in Users /\ m.dept \in Depts \cup {NoDept}
          /\ m.grants \in SUBSET Scopes
      BY WorkflowAssumption
    <3> QED
      BY <2>1, <3>1 DEF UpdateMember, TypeOK, Directories
  <2>2. dir' \in Directories
    BY <1>2, <2>1 DEF Administer, CreateRoute, UpdateRoute, RemoveRoute, TypeOK
  <2>3. UNCHANGED <<db, call>>
    BY <1>2 DEF Administer, CreateRoute, UpdateRoute, RemoveRoute, UpdateMember
  <2> QED
    BY <2>2, <2>3 DEF TypeOK, Placed, db
<1>3. CASE UNCHANGED vars
  BY <1>3 DEF vars, TypeOK, Placed
<1> QED
  BY <1>1, <1>2, <1>3, StartType, ContinueType DEF Next

(* Every variable keeps its type, whatever the handlers and administrators  *)
(* do and wherever a handler is lost.                                       *)
THEOREM TypeCorrect == Spec => [](TypeOK /\ Placed)
<1>1. Init => TypeOK /\ Placed
  BY InitType, InitPlaced
<1>2. TypeOK /\ Placed /\ [Next]_vars => (TypeOK /\ Placed)'
  BY NextType
<1> QED
  BY <1>1, <1>2, PTL DEF Spec

-----------------------------------------------------------------------------
(* Rows, plans and the audit log                                            *)

ApprovedIn(log, n) == \E i \in DOMAIN log : log[i].action \in Approvals /\ log[i].step = n

(* Every step before n is approved in the log.                              *)
Reached(log, n) == \A m \in Nat : 1 <= m /\ m < n => ApprovedIn(log, m)

Working == Waits \ {"idle", "create_plan", "create_rows"}
Holding == {"act_check", "auto_approval", "auto_plan", "decide"}
HasRow == {"act_check", "auto_plan", "decide"}

(* A request not yet filed has no rows and no history.                      *)
Fresh ==
  \A r \in Requests :
    status[r] = "none" => audit[r] = <<>> /\ \A s \in Steps : result[r][s] = "none"

StepReached ==
  \A r \in Requests : status[r] # "none" => currentStep[r] >= 1 /\ Reached(audit[r], currentStep[r])

(* What a handler in flight relies on.                                      *)
CallInv(d) ==
  LET k == call[d] IN
  /\ k.pc \in Working => status[k.req] # "none"
  /\ k.pc \in Holding => k.step >= 1 /\ Reached(audit[k.req], k.step)
  /\ k.pc \in HasRow => result[k.req][k.step] # "none"

Typed == TypeOK /\ Placed
Progressed == Fresh /\ StepReached /\ \A d \in Calls : CallInv(d)

-----------------------------------------------------------------------------
(* What no step undoes                                                      *)

Grows(old, new) == \A i \in DOMAIN old : i \in DOMAIN new /\ new[i] = old[i]

LEMMA AppendGrows ==
  ASSUME Typed, NEW r \in Requests, NEW e \in AuditRows,
         audit' = [audit EXCEPT ![r] = Append(@, e)]
  PROVE  /\ \A q \in Requests : Grows(audit[q], audit'[q])
         /\ \A q \in Requests : q # r => audit'[q] = audit[q]
         /\ DOMAIN audit[r] = 1..Len(audit[r])
         /\ Len(audit[r]) \in Nat
         /\ DOMAIN audit'[r] = 1..(Len(audit[r]) + 1)
         /\ audit'[r][Len(audit[r]) + 1] = e
<1>1. audit[r] \in Seq(AuditRows) /\ audit'[r] = Append(audit[r], e)
  BY DEF Typed, TypeOK
<1>2. \A q \in Requests : q # r => audit'[q] = audit[q]
  BY DEF Typed, TypeOK
<1>3. Grows(audit[r], Append(audit[r], e))
  BY <1>1 DEF Grows
<1> QED
  BY <1>1, <1>2, <1>3 DEF Grows

(* The decision a handler commits, as a change of the log.                  *)
LEMMA DecisionGrows ==
  ASSUME Typed, NEW k \in CallStates, k.req \in Requests, WriteDecision(k)
  PROVE  LET e == Entry(DecisionAction(k), k.step, k.actor)
         IN  /\ e \in AuditRows
             /\ e.step = k.step /\ e.actor = k.actor
             /\ e.action \in Decisions
             /\ k.verdict = "approved" => e.action \in Approvals
             /\ audit' = [audit EXCEPT ![k.req] = Append(@, e)]
<1> DEFINE e == Entry(DecisionAction(k), k.step, k.actor)
<1>1. DecisionAction(k) \in Decisions
  BY DecisionActionType
<1>2. k.verdict = "approved" => DecisionAction(k) \in Approvals
  BY DEF DecisionAction, Approvals
<1>3. Decisions \subseteq AuditActions
  BY DEF Decisions, Approvals, AuditActions
<1>4. e \in AuditRows
  BY <1>1, <1>3, EntryType DEF CallStates
<1>5. e.step = k.step /\ e.actor = k.actor /\ e.action = DecisionAction(k)
  BY DEF Entry
<1> QED
  BY <1>1, <1>2, <1>4, <1>5 DEF WriteDecision

Persists ==
  \A q \in Requests :
    /\ Grows(audit[q], audit'[q])
    /\ status[q] # "none" =>
         /\ status'[q] # "none"
         /\ assigned'[q] = assigned[q]
         /\ \A s \in Steps : result[q][s] # "none" => result'[q][s] # "none"

LEMMA DecisionPersists ==
  ASSUME Typed, NEW k \in CallStates, k.req \in Requests, WriteDecision(k),
         status' = status \/ \E v \in Verdicts : status' = [status EXCEPT ![k.req] = v]
  PROVE  Persists
<1>1. \A q \in Requests : Grows(audit[q], audit'[q])
  BY DecisionGrows, AppendGrows
<1>2. \A q \in Requests : status[q] # "none" => status'[q] # "none"
  BY DEF Typed, TypeOK, Verdicts
<1>3. assigned' = assigned
  BY DEF WriteDecision
<1>4. \A q \in Requests, s \in Steps : result[q][s] # "none" => result'[q][s] # "none"
  BY DEF WriteDecision, Typed, TypeOK, CallStates, Verdicts
<1> QED
  BY <1>1, <1>2, <1>3, <1>4 DEF Persists

LEMMA StepPersists ==
  ASSUME Typed, [Next]_vars
  PROVE  Persists
<1>0. ASSUME UNCHANGED <<status, result, audit, assigned>>
      PROVE  Persists
  BY <1>0 DEF Persists, Grows
<1>1. ASSUME NEW c \in Calls, Continue(c)
      PROVE  Persists
  <2> DEFINE k == call[c]
  <2>0. k \in CallStates /\ (k.pc # "idle" => k.req \in Requests)
    BY DEF Typed, TypeOK, Placed
  <2>1. CASE CreateRows(c)
    <3>1. k.req \in Requests /\ status[k.req] = "none"
      BY <2>0, <2>1 DEF CreateRows
    <3>2. \A q \in Requests : q # k.req =>
            status'[q] = status[q] /\ result'[q] = result[q] /\ assigned'[q] = assigned[q]
      BY <2>1 DEF CreateRows, Typed, TypeOK
    <3>3. Entry("request.create", 0, k.actor) \in AuditRows
      BY <2>0, EntryType DEF CallStates, AuditActions
    <3>4. \A q \in Requests : Grows(audit[q], audit'[q])
      BY <2>1, <3>1, <3>3, AppendGrows DEF CreateRows
    <3> QED
      BY <3>1, <3>2, <3>4 DEF Persists
  <2>2. CASE RecordRejection(c)
    <3>1. k.req \in Requests /\ WriteDecision(k)
          /\ status' = [status EXCEPT ![k.req] = "rejected"]
      BY <2>0, <2>2 DEF RecordRejection
    <3> QED
      BY <2>0, <3>1, DecisionPersists DEF Verdicts
  <2>3. CASE RecordFinalApproval(c)
    <3>1. k.req \in Requests /\ WriteDecision(k)
          /\ status' = [status EXCEPT ![k.req] = "approved"]
      BY <2>0, <2>3 DEF RecordFinalApproval
    <3> QED
      BY <2>0, <3>1, DecisionPersists DEF Verdicts
  <2>4. CASE RecordAdvance(c)
    <3>1. k.req \in Requests /\ WriteDecision(k) /\ status' = status
      BY <2>0, <2>4 DEF RecordAdvance
    <3> QED
      BY <2>0, <3>1, DecisionPersists
  <2>5. CASE CancelWrite(c)
    <3>1. UNCHANGED <<result, audit, assigned>>
          /\ status' = [status EXCEPT ![k.req] = "canceled"]
      BY <2>5 DEF CancelWrite
    <3> QED
      BY <3>1 DEF Persists, Grows, Typed, TypeOK
  <2>6. CASE CancelAudit(c)
    <3>1. k.req \in Requests /\ UNCHANGED <<status, result, assigned>>
          /\ audit' = [audit EXCEPT ![k.req] =
                         Append(@, Entry("request.cancel", 0, k.actor))]
      BY <2>0, <2>6 DEF CancelAudit
    <3>2. Entry("request.cancel", 0, k.actor) \in AuditRows
      BY <2>0, EntryType DEF CallStates, AuditActions
    <3>3. \A q \in Requests : Grows(audit[q], audit'[q])
      BY <3>1, <3>2, AppendGrows
    <3> QED
      BY <3>1, <3>3 DEF Persists
  <2>7. CASE CreatePlan(c) \/ ActRead(c) \/ ActCheck(c) \/ RecomputePunchFix(c)
             \/ AutoReadRequest(c) \/ AutoReadApproval(c) \/ AutoDecide(c)
    BY <1>0, <2>7 DEF CreatePlan, ActRead, ActCheck, RecomputePunchFix,
                      AutoReadRequest, AutoReadApproval, AutoDecide, db
  <2> QED
    BY <1>1, <2>1, <2>2, <2>3, <2>4, <2>5, <2>6, <2>7 DEF Continue
<1>2. ASSUME NEW c \in Calls, Start(c) \/ Crash(c)
      PROVE  Persists
  BY <1>0, <1>2 DEF Start, StartCreate, StartCancel, StartAct, Crash, db
<1>3. CASE Administer
  BY <1>0, <1>3 DEF Administer, CreateRoute, UpdateRoute, RemoveRoute, UpdateMember, db
<1>4. CASE UNCHANGED vars
  BY <1>0, <1>4 DEF vars
<1> QED
  BY <1>1, <1>2, <1>3, <1>4 DEF Next

LEMMA ReachedGrows ==
  ASSUME NEW old, NEW new, Grows(old, new), NEW n, Reached(old, n)
  PROVE  Reached(new, n)
BY DEF Reached, ApprovedIn, Grows

(* A handler that does not move keeps what it relies on.                    *)
LEMMA OtherCalls ==
  ASSUME Typed, Persists, NEW d \in Calls, CallInv(d), call'[d] = call[d]
  PROVE  CallInv(d)'
<1> DEFINE k == call[d]
<1>1. k.pc # "idle" => k.req \in Requests
  BY DEF Typed, Placed
<1>2. k.pc \in HasRow => k.step \in Steps
  BY DEF Typed, Placed, Deciding, HasRow
<1>3. k.pc \in Working => status'[k.req] # "none"
  BY <1>1 DEF Persists, CallInv, Working
<1>4. k.pc \in Holding => k.step >= 1 /\ Reached(audit'[k.req], k.step)
  BY <1>1, ReachedGrows DEF CallInv, Holding, Persists
<1>5. k.pc \in HasRow => result'[k.req][k.step] # "none"
  BY <1>1, <1>2 DEF Persists, CallInv, HasRow, Working, Waits
<1> QED
  BY <1>3, <1>4, <1>5 DEF CallInv

-----------------------------------------------------------------------------
(* The invariant Progressed                                                 *)

LEMMA InitProgressed == Init => Progressed
BY DEF Init, Progressed, Fresh, StepReached, CallInv, Idle, Working, Holding, HasRow

(* A handler that only reads.                                               *)
LEMMA ReadOnly ==
  ASSUME Typed, Progressed, Persists, NEW c \in Calls,
         UNCHANGED <<status, currentStep, result, audit>>,
         \A d \in Calls : d # c => call'[d] = call[d],
         CallInv(c)'
  PROVE  Progressed'
<1>1. Fresh' /\ StepReached'
  BY DEF Progressed, Fresh, StepReached
<1>2. ASSUME NEW d \in Calls
      PROVE  CallInv(d)'
  BY OtherCalls DEF Progressed
<1> QED
  BY <1>1, <1>2 DEF Progressed

(* A handler that ends.                                                     *)
LEMMA IdleInv ==
  ASSUME NEW d \in Calls, call'[d] = Idle
  PROVE  CallInv(d)'
BY DEF CallInv, Idle, Working, Holding, HasRow

(* A handler that writes to the row of its request: it is filed already,    *)
(* and its current step stays or has all steps before it approved.          *)
LEMMA Written ==
  ASSUME Typed, Progressed, Persists, NEW c \in Calls, NEW r \in Requests,
         status[r] # "none",
         \A q \in Requests : q # r =>
           /\ status'[q] = status[q] /\ currentStep'[q] = currentStep[q]
           /\ result'[q] = result[q] /\ audit'[q] = audit[q],
         currentStep'[r] >= 1 /\ Reached(audit'[r], currentStep'[r]),
         \A d \in Calls : d # c => call'[d] = call[d],
         CallInv(c)'
  PROVE  Progressed'
<1>1. Fresh'
  BY DEF Progressed, Fresh, Persists
<1>2. StepReached'
  BY DEF Progressed, StepReached
<1>3. ASSUME NEW d \in Calls
      PROVE  CallInv(d)'
  BY OtherCalls DEF Progressed
<1> QED
  BY <1>1, <1>2, <1>3 DEF Progressed

LEMMA ContinueProgressed ==
  ASSUME Typed, Progressed, Persists, NEW c \in Calls, Continue(c)
  PROVE  Progressed'
<1> DEFINE k == call[c]
           r == call[c].req
<1>0. /\ k \in CallStates /\ (k.pc # "idle" => r \in Requests)
      /\ k.pc \in Deciding => k.step \in Steps
      /\ CallInv(c)
  BY DEF Typed, TypeOK, Placed, Progressed
<1>1. CASE CreatePlan(c)
  <2>1. UNCHANGED <<status, currentStep, result, audit>>
    BY <1>1 DEF CreatePlan, db
  <2>2. \A d \in Calls : d # c => call'[d] = call[d]
    BY <1>1 DEF CreatePlan, Typed, TypeOK
  <2>3. call'[c].pc \in {"idle", "create_rows"}
    BY <1>0, <1>1 DEF CreatePlan, Typed, TypeOK, Idle, CallStates
  <2>4. CallInv(c)'
    BY <2>3 DEF CallInv, Working, Holding, HasRow
  <2> QED
    BY <2>1, <2>2, <2>4, ReadOnly
<1>2. CASE CreateRows(c)
  <2>1. r \in Requests /\ status[r] = "none"
    BY <1>0, <1>2 DEF CreateRows
  <2>2. \A q \in Requests : q # r =>
          /\ status'[q] = status[q] /\ currentStep'[q] = currentStep[q]
          /\ result'[q] = result[q] /\ audit'[q] = audit[q]
    BY <1>2 DEF CreateRows, Typed, TypeOK
  <2>3. status'[r] = "pending" /\ currentStep'[r] = 1
    BY <1>2, <2>1 DEF CreateRows, Typed, TypeOK
  <2>4. Fresh'
    BY <2>2, <2>3 DEF Progressed, Fresh
  <2>5. StepReached'
    <3>1. Reached(audit'[r], 1)
      BY DEF Reached
    <3> QED
      BY <2>2, <2>3, <3>1 DEF Progressed, StepReached
  <2>6. call'[c].pc = "auto_request" /\ call'[c].req = r
    BY <1>2 DEF CreateRows, Typed, TypeOK, Idle
  <2>7. CallInv(c)'
    BY <2>3, <2>6 DEF CallInv, Holding, HasRow
  <2>8. ASSUME NEW d \in Calls
        PROVE  CallInv(d)'
    <3>1. d # c => call'[d] = call[d]
      BY <1>2 DEF CreateRows, Typed, TypeOK
    <3> QED
      BY <2>7, <3>1, OtherCalls DEF Progressed
  <2> QED
    BY <2>4, <2>5, <2>8 DEF Progressed
<1>3. CASE ActRead(c)
  <2>0. k.pc = "act_read" /\ r \in Requests /\ k.step \in Steps
    BY <1>0, <1>3 DEF ActRead, Deciding
  <2>1. UNCHANGED <<status, currentStep, result, audit>>
    BY <1>3 DEF ActRead, db
  <2>2. \A d \in Calls : d # c => call'[d] = call[d]
    BY <1>3 DEF ActRead, Typed, TypeOK
  <2>3. CASE Actionable(r, k.step)
    <3>1. /\ call'[c].pc = "act_check" /\ call'[c].req = r
          /\ call'[c].step = currentStep[r]
          /\ status[r] = "pending" /\ result[r][currentStep[r]] = "pending"
      BY <1>0, <1>3, <2>3 DEF ActRead, Actionable, Typed, TypeOK, CallStates
    <3>2. CallInv(c)'
      BY <2>0, <2>1, <3>1 DEF CallInv, Progressed, StepReached
    <3> QED
      BY <2>1, <2>2, <3>2, ReadOnly
  <2>4. CASE ~Actionable(r, k.step)
    <3>1. call'[c] = Idle
      BY <1>3, <2>4 DEF ActRead, Typed, TypeOK
    <3> QED
      BY <2>1, <2>2, <3>1, IdleInv, ReadOnly
  <2> QED
    BY <2>3, <2>4
<1>4. CASE ActCheck(c) \/ AutoDecide(c)
  <2>1. UNCHANGED <<status, currentStep, result, audit>>
    BY <1>4 DEF ActCheck, AutoDecide, db
  <2>2. \A d \in Calls : d # c => call'[d] = call[d]
    BY <1>4 DEF ActCheck, AutoDecide, Typed, TypeOK
  <2>3. k.pc \in Holding \cap HasRow \cap Working
    BY <1>4 DEF ActCheck, AutoDecide, Holding, HasRow, Working, Waits
  <2>4. CASE call'[c] = Idle
    BY <2>1, <2>2, <2>4, IdleInv, ReadOnly
  <2>5. CASE call'[c] # Idle
    <3>1. call' = [call EXCEPT ![c] = [k EXCEPT !.pc = "decide"]]
      BY <1>4, <2>5 DEF ActCheck, AutoDecide, Typed, TypeOK
    <3>2. call'[c].req = r /\ call'[c].step = k.step
      BY <1>0, <3>1 DEF Typed, TypeOK, CallStates
    <3>3. CallInv(c)'
      BY <1>0, <2>1, <2>3, <3>2 DEF CallInv
    <3> QED
      BY <2>1, <2>2, <3>3, ReadOnly
  <2> QED
    BY <2>4, <2>5
<1>5. CASE RecordRejection(c) \/ RecordFinalApproval(c)
  <2>1. k.pc = "decide" /\ r \in Requests /\ k.step \in Steps /\ WriteDecision(k)
    BY <1>0, <1>5 DEF RecordRejection, RecordFinalApproval, Deciding
  <2>2. status[r] # "none"
    BY <1>0, <2>1 DEF CallInv, Working, Waits
  <2>3. \A q \in Requests : q # r =>
          /\ status'[q] = status[q] /\ currentStep'[q] = currentStep[q]
          /\ result'[q] = result[q] /\ audit'[q] = audit[q]
    BY <1>5 DEF RecordRejection, RecordFinalApproval, WriteDecision, Typed, TypeOK
  <2>4. currentStep'[r] >= 1 /\ Reached(audit'[r], currentStep'[r])
    <3>1. currentStep' = currentStep
      BY <1>5 DEF RecordRejection, RecordFinalApproval
    <3>2. currentStep[r] >= 1 /\ Reached(audit[r], currentStep[r])
      BY <2>1, <2>2 DEF Progressed, StepReached
    <3> QED
      BY <2>1, <3>1, <3>2, ReachedGrows DEF Persists
  <2>5. \A d \in Calls : d # c => call'[d] = call[d]
    BY <1>5 DEF RecordRejection, RecordFinalApproval, Typed, TypeOK
  <2>6. CallInv(c)'
    <3>1. CASE call'[c] = Idle
      BY <3>1, IdleInv
    <3>2. CASE call'[c] # Idle
      <4>1. call'[c] = [Idle EXCEPT !.pc = "recompute", !.req = r]
        BY <1>5, <3>2 DEF RecordRejection, RecordFinalApproval, Typed, TypeOK
      <4>2. call'[c].pc = "recompute" /\ call'[c].req = r
        BY <4>1 DEF Idle
      <4> QED
        BY <2>1, <2>2, <4>2 DEF CallInv, Holding, HasRow, Persists
    <3> QED
      BY <3>1, <3>2
  <2> QED
    BY <2>1, <2>2, <2>3, <2>4, <2>5, <2>6, Written
<1>6. CASE RecordAdvance(c)
  <2>1. /\ k.pc = "decide" /\ k.verdict = "approved"
        /\ r \in Requests /\ k.step \in Steps /\ WriteDecision(k)
    BY <1>0, <1>6 DEF RecordAdvance, Deciding
  <2>2. status[r] # "none" /\ k.step >= 1 /\ Reached(audit[r], k.step)
    BY <1>0, <2>1 DEF CallInv, Working, Waits, Holding
  <2>3. \A q \in Requests : q # r =>
          /\ status'[q] = status[q] /\ currentStep'[q] = currentStep[q]
          /\ result'[q] = result[q] /\ audit'[q] = audit[q]
    BY <1>6 DEF RecordAdvance, WriteDecision, Typed, TypeOK
  <2>4. currentStep'[r] >= 1 /\ Reached(audit'[r], currentStep'[r])
    <3> DEFINE e == Entry(DecisionAction(k), k.step, k.actor)
               n == Len(audit[r]) + 1
    <3>1. currentStep'[r] = k.step + 1 /\ k.step \in Nat
      BY <1>0, <1>6, <2>1 DEF RecordAdvance, Typed, TypeOK, CallStates
    <3>2. /\ e \in AuditRows /\ e.step = k.step /\ e.action \in Approvals
          /\ audit' = [audit EXCEPT ![r] = Append(@, e)]
      BY <1>0, <2>1, DecisionGrows
    <3>3. n \in DOMAIN audit'[r] /\ audit'[r][n] = e
      <4>1. /\ Len(audit[r]) \in Nat
            /\ DOMAIN audit'[r] = 1..(Len(audit[r]) + 1)
            /\ audit'[r][Len(audit[r]) + 1] = e
        <5> HIDE DEF e
        <5> QED
          BY <2>1, <3>2, AppendGrows
      <4> QED
        BY <4>1
    <3>4. ApprovedIn(audit'[r], k.step)
      BY <3>2, <3>3 DEF ApprovedIn
    <3>5. Reached(audit'[r], k.step)
      BY <2>1, <2>2, ReachedGrows DEF Persists
    <3>6. Reached(audit'[r], k.step + 1)
      BY <3>1, <3>4, <3>5 DEF Reached
    <3> QED
      BY <2>2, <3>1, <3>6
  <2>5. \A d \in Calls : d # c => call'[d] = call[d]
    BY <1>6 DEF RecordAdvance, Typed, TypeOK
  <2>6. CallInv(c)'
    <3>1. call'[c] = AfterAdvance(k)
      BY <1>6 DEF RecordAdvance, Typed, TypeOK
    <3>2. call'[c].pc \in {"idle", "auto_request"} /\ (call'[c].pc # "idle" => call'[c].req = r)
      BY <1>0, <2>1, <3>1, AfterAdvanceType
    <3> QED
      BY <2>1, <2>2, <3>2 DEF CallInv, Working, Holding, HasRow, Persists
  <2> QED
    BY <2>1, <2>2, <2>3, <2>4, <2>5, <2>6, Written
<1>7. CASE RecomputePunchFix(c)
  <2>1. UNCHANGED <<status, currentStep, result, audit>>
    BY <1>7 DEF RecomputePunchFix, db
  <2>2. call'[c] = Idle /\ \A d \in Calls : d # c => call'[d] = call[d]
    BY <1>7 DEF RecomputePunchFix, Typed, TypeOK
  <2> QED
    BY <2>1, <2>2, IdleInv, ReadOnly
<1>8. CASE AutoReadRequest(c)
  <2>0. k.pc = "auto_request" /\ r \in Requests
    BY <1>0, <1>8 DEF AutoReadRequest
  <2>1. UNCHANGED <<status, currentStep, result, audit>>
    BY <1>8 DEF AutoReadRequest, db
  <2>2. \A d \in Calls : d # c => call'[d] = call[d]
    BY <1>8 DEF AutoReadRequest, Typed, TypeOK
  <2>3. CASE status[r] = "pending"
    <3>1. /\ call'[c].pc = "auto_approval" /\ call'[c].req = r
          /\ call'[c].step = currentStep[r]
      BY <1>0, <1>8, <2>3 DEF AutoReadRequest, Typed, TypeOK, CallStates
    <3>2. CallInv(c)'
      BY <2>0, <2>1, <2>3, <3>1 DEF CallInv, HasRow, Progressed, StepReached
    <3> QED
      BY <2>1, <2>2, <3>2, ReadOnly
  <2>4. CASE status[r] # "pending"
    <3>1. call'[c] = Idle
      BY <1>8, <2>4 DEF AutoReadRequest, Typed, TypeOK
    <3> QED
      BY <2>1, <2>2, <3>1, IdleInv, ReadOnly
  <2> QED
    BY <2>3, <2>4
<1>9. CASE AutoReadApproval(c)
  <2>0. k.pc = "auto_approval" /\ r \in Requests
    BY <1>0, <1>9 DEF AutoReadApproval
  <2>1. UNCHANGED <<status, currentStep, result, audit>>
    BY <1>9 DEF AutoReadApproval, db
  <2>2. \A d \in Calls : d # c => call'[d] = call[d]
    BY <1>9 DEF AutoReadApproval, Typed, TypeOK
  <2>3. CASE k.step \in Steps /\ result[r][k.step] = "pending"
    <3>1. call'[c].pc = "auto_plan" /\ call'[c].req = r /\ call'[c].step = k.step
      BY <1>0, <1>9, <2>3 DEF AutoReadApproval, Typed, TypeOK, CallStates
    <3>2. CallInv(c)'
      BY <1>0, <2>0, <2>1, <2>3, <3>1 DEF CallInv, Working, Waits, Holding
    <3> QED
      BY <2>1, <2>2, <3>2, ReadOnly
  <2>4. CASE ~(k.step \in Steps /\ result[r][k.step] = "pending")
    <3>1. call'[c] = Idle
      BY <1>9, <2>4 DEF AutoReadApproval, Typed, TypeOK
    <3> QED
      BY <2>1, <2>2, <3>1, IdleInv, ReadOnly
  <2> QED
    BY <2>3, <2>4
<1>10. CASE CancelWrite(c)
  <2>1. k.pc = "cancel_write" /\ r \in Requests
    BY <1>0, <1>10 DEF CancelWrite
  <2>2. status[r] # "none"
    BY <1>0, <2>1 DEF CallInv, Working, Waits
  <2>3. /\ UNCHANGED <<currentStep, result, audit>>
        /\ \A q \in Requests : q # r => status'[q] = status[q]
    BY <1>10 DEF CancelWrite, Typed, TypeOK
  <2>4. currentStep'[r] >= 1 /\ Reached(audit'[r], currentStep'[r])
    BY <2>1, <2>2, <2>3 DEF Progressed, StepReached
  <2>5. call'[c].pc = "cancel_audit" /\ call'[c].req = r
    BY <1>0, <1>10 DEF CancelWrite, Typed, TypeOK, CallStates
  <2>6. CallInv(c)'
    BY <2>1, <2>2, <2>5 DEF CallInv, Holding, HasRow, Persists
  <2>7. \A d \in Calls : d # c => call'[d] = call[d]
    BY <1>10 DEF CancelWrite, Typed, TypeOK
  <2> QED
    BY <2>1, <2>2, <2>3, <2>4, <2>6, <2>7, Written
<1>11. CASE CancelAudit(c)
  <2>1. k.pc = "cancel_audit" /\ r \in Requests
    BY <1>0, <1>11 DEF CancelAudit
  <2>2. status[r] # "none"
    BY <1>0, <2>1 DEF CallInv, Working, Waits
  <2>3. /\ UNCHANGED <<status, currentStep, result>>
        /\ \A q \in Requests : q # r => audit'[q] = audit[q]
    BY <1>11 DEF CancelAudit, Typed, TypeOK
  <2>4. currentStep'[r] >= 1 /\ Reached(audit'[r], currentStep'[r])
    BY <2>1, <2>2, <2>3, ReachedGrows DEF Progressed, StepReached, Persists
  <2>5. call'[c] = Idle /\ \A d \in Calls : d # c => call'[d] = call[d]
    BY <1>11 DEF CancelAudit, Typed, TypeOK
  <2> QED
    BY <2>1, <2>2, <2>3, <2>4, <2>5, IdleInv, Written
<1> QED
  BY <1>1, <1>2, <1>3, <1>4, <1>5, <1>6, <1>7, <1>8, <1>9, <1>10, <1>11 DEF Continue

LEMMA StartProgressed ==
  ASSUME Typed, Progressed, Persists, NEW c \in Calls, Start(c)
  PROVE  Progressed'
<1>1. ASSUME NEW r \in Requests, StartCreate(c, r)
      PROVE  Progressed'
  <2>1. UNCHANGED <<status, currentStep, result, audit>>
    BY <1>1 DEF StartCreate, db
  <2>2. call'[c].pc = "create_plan" /\ \A d \in Calls : d # c => call'[d] = call[d]
    BY <1>1 DEF StartCreate, Typed, TypeOK, Idle
  <2>3. CallInv(c)'
    BY <2>2 DEF CallInv, Working, Holding, HasRow
  <2> QED
    BY <2>1, <2>2, <2>3, ReadOnly
<1>2. ASSUME NEW r \in Requests, StartCancel(c, r)
      PROVE  Progressed'
  <2>1. UNCHANGED <<status, currentStep, result, audit>> /\ status[r] # "none"
    BY <1>2 DEF StartCancel, db
  <2>2. /\ call'[c].pc = "cancel_write" /\ call'[c].req = r
        /\ \A d \in Calls : d # c => call'[d] = call[d]
    BY <1>2 DEF StartCancel, Typed, TypeOK, Idle
  <2>3. CallInv(c)'
    BY <2>1, <2>2 DEF CallInv, Holding, HasRow
  <2> QED
    BY <2>1, <2>2, <2>3, ReadOnly
<1>3. ASSUME NEW u \in Users, NEW r \in Requests, NEW s \in Steps, NEW v \in Verdicts,
             StartAct(c, u, r, s, v)
      PROVE  Progressed'
  <2>1. UNCHANGED <<status, currentStep, result, audit>> /\ result[r][s] # "none"
    BY <1>3 DEF StartAct, db
  <2>2. status[r] # "none"
    BY <2>1 DEF Progressed, Fresh
  <2>3. /\ call'[c].pc = "act_read" /\ call'[c].req = r
        /\ \A d \in Calls : d # c => call'[d] = call[d]
    BY <1>3 DEF StartAct, Typed, TypeOK, Idle
  <2>4. CallInv(c)'
    BY <2>1, <2>2, <2>3 DEF CallInv, Holding, HasRow
  <2> QED
    BY <2>1, <2>3, <2>4, ReadOnly
<1> QED
  BY <1>1, <1>2, <1>3 DEF Start

LEMMA NextProgressed ==
  ASSUME Typed, Progressed, [Next]_vars
  PROVE  Progressed'
<1>1. Persists
  BY StepPersists
<1>2. ASSUME NEW c \in Calls, Crash(c)
      PROVE  Progressed'
  <2>1. UNCHANGED <<status, currentStep, result, audit>>
    BY <1>2 DEF Crash, db
  <2>2. call'[c] = Idle /\ \A d \in Calls : d # c => call'[d] = call[d]
    BY <1>2 DEF Crash, Typed, TypeOK
  <2> QED
    BY <1>1, <2>1, <2>2, IdleInv, ReadOnly
<1>3. CASE Administer \/ UNCHANGED vars
  <2>1. UNCHANGED <<status, currentStep, result, audit, call>>
    BY <1>3 DEF Administer, CreateRoute, UpdateRoute, RemoveRoute, UpdateMember, db, vars
  <2> QED
    BY <2>1 DEF Progressed, Fresh, StepReached, CallInv
<1> QED
  BY <1>1, <1>2, <1>3, StartProgressed, ContinueProgressed DEF Next

LEMMA HandlerStarts ==
  ASSUME Typed, NEW c \in Calls, Start(c)
  PROVE  /\ call[c].pc = "idle"
         /\ call'[c].pc \in {"create_plan", "cancel_write", "act_read"}
         /\ \A d \in Calls : d # c => call'[d] = call[d]
<1>1. ASSUME NEW r \in Requests, StartCreate(c, r)
      PROVE  call[c].pc = "idle" /\ call'[c].pc = "create_plan"
             /\ \A d \in Calls : d # c => call'[d] = call[d]
  BY <1>1 DEF StartCreate, Typed, TypeOK, Idle
<1>2. ASSUME NEW r \in Requests, StartCancel(c, r)
      PROVE  call[c].pc = "idle" /\ call'[c].pc = "cancel_write"
             /\ \A d \in Calls : d # c => call'[d] = call[d]
  BY <1>2 DEF StartCancel, Typed, TypeOK, Idle
<1>3. ASSUME NEW u \in Users, NEW r \in Requests, NEW s \in Steps, NEW v \in Verdicts,
             StartAct(c, u, r, s, v)
      PROVE  call[c].pc = "idle" /\ call'[c].pc = "act_read"
             /\ \A d \in Calls : d # c => call'[d] = call[d]
  BY <1>3 DEF StartAct, Typed, TypeOK, Idle
<1> QED
  BY <1>1, <1>2, <1>3 DEF Start

(* A decision changes what a row says, not which rows there are.            *)
LEMMA DecisionKeepsRows ==
  ASSUME Typed, Progressed, NEW c \in Calls, call[c].pc = "decide", WriteDecision(call[c])
  PROVE  /\ call[c].req \in Requests /\ status[call[c].req] # "none"
         /\ call[c].step \in Steps /\ call[c].step >= 1
         /\ result[call[c].req][call[c].step] # "none"
         /\ \A q \in Requests, s \in Steps : result'[q][s] # "none" <=> result[q][s] # "none"
<1> DEFINE k == call[c]
<1>1. k.req \in Requests /\ k.step \in Steps /\ k.verdict \in Verdicts
  BY DEF Typed, TypeOK, Placed, Deciding, CallStates
<1>2. status[k.req] # "none" /\ k.step >= 1 /\ result[k.req][k.step] # "none"
  BY DEF Progressed, CallInv, Working, Waits, Holding, HasRow
<1>3. result' = [result EXCEPT ![k.req] = [@ EXCEPT ![k.step] = k.verdict]]
  BY DEF WriteDecision
<1>4. ASSUME NEW q \in Requests, NEW s \in Steps
      PROVE  result'[q][s] # "none" <=> result[q][s] # "none"
  BY <1>1, <1>2, <1>3 DEF Typed, TypeOK, Verdicts
<1> QED
  BY <1>1, <1>2, <1>4

-----------------------------------------------------------------------------
(* What is appended to the log                                              *)

(* A step leaves a request's log alone or appends one entry; a decision it  *)
(* appends is that of a handler whose earlier steps are all approved.       *)
Appends(q) ==
  \/ audit'[q] = audit[q]
  \/ \E e \in AuditRows :
       /\ audit'[q] = Append(audit[q], e)
       /\ e.action \in Decisions =>
            e.step \in Steps /\ e.step >= 1 /\ Reached(audit[q], e.step)

LEMMA DecisionAppends ==
  ASSUME Typed, Progressed, NEW c \in Calls, call[c].pc = "decide", WriteDecision(call[c])
  PROVE  \A q \in Requests : Appends(q)
<1> DEFINE k == call[c]
           e == Entry(DecisionAction(k), k.step, k.actor)
<1>1. k \in CallStates /\ k.req \in Requests
  BY DEF Typed, TypeOK, Placed
<1>2. e \in AuditRows /\ e.step = k.step /\ audit' = [audit EXCEPT ![k.req] = Append(@, e)]
  BY <1>1, DecisionGrows
<1>3. k.step \in Steps /\ k.step >= 1 /\ Reached(audit[k.req], k.step)
  BY DEF Progressed, CallInv, Holding, Typed, Placed, Deciding
<1> HIDE DEF e, k
<1>4. ASSUME NEW q \in Requests, q # k.req
      PROVE  audit'[q] = audit[q]
  BY <1>2, <1>4 DEF Typed, TypeOK
<1>5. audit'[k.req] = Append(audit[k.req], e)
  BY <1>1, <1>2 DEF Typed, TypeOK
<1>6. Appends(k.req)
  BY <1>2, <1>3, <1>5 DEF Appends
<1> QED
  BY <1>4, <1>6 DEF Appends

LEMMA StepAppends ==
  ASSUME Typed, Progressed, [Next]_vars
  PROVE  \A q \in Requests : Appends(q)
<1>0. ASSUME UNCHANGED audit
      PROVE  \A q \in Requests : Appends(q)
  BY <1>0 DEF Appends
<1>1. ASSUME NEW c \in Calls, Continue(c)
      PROVE  \A q \in Requests : Appends(q)
  <2> DEFINE k == call[c]
  <2>0. k \in CallStates /\ (k.pc # "idle" => k.req \in Requests)
    BY DEF Typed, TypeOK, Placed
  <2>1. CASE CreateRows(c) \/ CancelAudit(c)
    <3>1. PICK a \in {"request.create", "request.cancel"} :
            audit' = [audit EXCEPT ![k.req] = Append(@, Entry(a, 0, k.actor))]
      BY <2>1 DEF CreateRows, CancelAudit
    <3> DEFINE e == Entry(a, 0, k.actor)
    <3>2. e \in AuditRows /\ e.action \notin Decisions
      BY <2>0, EntryType DEF Entry, AuditActions, Decisions, Approvals, CallStates
    <3> HIDE DEF e, k
    <3>3. \A q \in Requests : audit'[q] = audit[q] \/ audit'[q] = Append(audit[q], e)
      BY <3>1 DEF e, Typed, TypeOK
    <3> QED
      BY <3>2, <3>3 DEF Appends
  <2>2. CASE RecordRejection(c) \/ RecordFinalApproval(c) \/ RecordAdvance(c)
    <3>1. k.pc = "decide" /\ WriteDecision(k)
      BY <2>2 DEF RecordRejection, RecordFinalApproval, RecordAdvance
    <3> QED
      BY <3>1, DecisionAppends
  <2>3. CASE CancelWrite(c) \/ CreatePlan(c) \/ ActRead(c) \/ ActCheck(c)
             \/ RecomputePunchFix(c) \/ AutoReadRequest(c) \/ AutoReadApproval(c)
             \/ AutoDecide(c)
    BY <1>0, <2>3 DEF CancelWrite, CreatePlan, ActRead, ActCheck, RecomputePunchFix,
                      AutoReadRequest, AutoReadApproval, AutoDecide, db
  <2> QED
    BY <1>1, <2>1, <2>2, <2>3 DEF Continue
<1>2. ASSUME NEW c \in Calls, Start(c) \/ Crash(c)
      PROVE  \A q \in Requests : Appends(q)
  BY <1>0, <1>2 DEF Start, StartCreate, StartCancel, StartAct, Crash, db
<1>3. CASE Administer
  BY <1>0, <1>3 DEF Administer, CreateRoute, UpdateRoute, RemoveRoute, UpdateMember, db
<1>4. CASE UNCHANGED vars
  BY <1>0, <1>4 DEF vars
<1> QED
  BY <1>1, <1>2, <1>3, <1>4 DEF Next

(* NoStepSkipped of one log.                                                *)
InOrder(log) ==
  \A i \in DOMAIN log :
    log[i].action \in Decisions /\ log[i].step # 1
      => \E j \in 1..(i - 1) : log[j].action \in Approvals /\ log[j].step = log[i].step - 1

LEMMA InOrderIsNoStepSkipped == NoStepSkipped <=> \A q \in Requests : InOrder(audit[q])
BY DEF NoStepSkipped, InOrder, ApprovedBefore

(* One entry more leaves the entries before it as they were.                *)
LEMMA AppendInOrder ==
  ASSUME NEW log \in Seq(AuditRows), InOrder(log), NEW e \in AuditRows,
         e.action \in Decisions => e.step >= 1 /\ Reached(log, e.step)
  PROVE  InOrder(Append(log, e))
<1> DEFINE n == Len(log)
           new == Append(log, e)
<1>1. /\ n \in Nat /\ DOMAIN log = 1..n /\ DOMAIN new = 1..(n + 1)
      /\ \A i \in 1..n : new[i] = log[i]
      /\ new[n + 1] = e
  OBVIOUS
<1> HIDE DEF n, new
<1>2. ASSUME NEW i \in 1..n, new[i].action \in Decisions, new[i].step # 1
      PROVE  \E j \in 1..(i - 1) : new[j].action \in Approvals /\ new[j].step = new[i].step - 1
  <2>1. new[i] = log[i]
    BY <1>1
  <2>2. PICK j \in 1..(i - 1) : log[j].action \in Approvals /\ log[j].step = log[i].step - 1
    BY <1>1, <1>2, <2>1 DEF InOrder
  <2>3. new[j] = log[j]
    BY <1>1, <2>2
  <2> QED
    BY <2>1, <2>2, <2>3
<1>3. ASSUME e.action \in Decisions, e.step # 1
      PROVE  \E j \in 1..n : new[j].action \in Approvals /\ new[j].step = e.step - 1
  <2>1. e.step \in Nat /\ e.step >= 1 /\ Reached(log, e.step)
    BY <1>3 DEF AuditRows
  <2>2. e.step - 1 \in Nat /\ 1 <= e.step - 1 /\ e.step - 1 < e.step
    BY <1>3, <2>1
  <2>3. ApprovedIn(log, e.step - 1)
    BY <2>1, <2>2 DEF Reached
  <2> QED
    BY <1>1, <2>3 DEF ApprovedIn
<1>4. (n + 1) - 1 = n /\ \A i \in DOMAIN new : i \in 1..n \/ i = n + 1
  BY <1>1
<1>5. InOrder(new)
  BY <1>1, <1>2, <1>3, <1>4 DEF InOrder
<1> QED
  BY <1>5 DEF new

LEMMA NextSkipsNone ==
  ASSUME Typed, Progressed, NoStepSkipped, [Next]_vars
  PROVE  NoStepSkipped'
<1>1. \A q \in Requests : Appends(q)
  BY StepAppends
<1>2. \A q \in Requests : InOrder(audit[q])
  BY InOrderIsNoStepSkipped
<1>3. ASSUME NEW q \in Requests
      PROVE  InOrder(audit'[q])
  <2>1. audit[q] \in Seq(AuditRows)
    BY DEF Typed, TypeOK
  <2> QED
    BY <1>1, <1>2, <2>1, AppendInOrder DEF Appends
<1> QED
  BY <1>3 DEF InOrder, NoStepSkipped, ApprovedBefore

(* The inductive invariant: what every handler in flight relies on holds of *)
(* the database whatever the other handlers committed since it read.        *)
THEOREM HandlersProgressed == Spec => []Progressed
<1>1. Typed /\ Progressed /\ [Next]_vars => Progressed'
  BY NextProgressed
<1>2. Spec => []Typed
  BY TypeCorrect DEF Typed
<1> QED
  BY <1>1, <1>2, InitProgressed, PTL DEF Spec

(* For any routes, any number of steps, handlers and requests, crashes and  *)
(* administration included: a decision of step s + 1 is only ever recorded  *)
(* after an approval of step s.                                             *)
THEOREM StepsInOrder == Spec => []NoStepSkipped
<1>1. Init => NoStepSkipped
  BY DEF Init, NoStepSkipped
<1>2. Typed /\ Progressed /\ NoStepSkipped /\ [Next]_vars => NoStepSkipped'
  BY NextSkipsNone
<1>3. Spec => []Typed
  BY TypeCorrect DEF Typed
<1> QED
  BY <1>1, <1>2, <1>3, HandlersProgressed, PTL DEF Spec

-----------------------------------------------------------------------------
(* Rows and log                                                             *)

DecidedIn(log, s) == \E i \in DOMAIN log : log[i].action \in Decisions /\ log[i].step = s

(* RowsMatchAudit of one request.                                           *)
Matches(rows, log) == \A s \in Steps : rows[s] \in Verdicts <=> DecidedIn(log, s)

LEMMA MatchesIsRowsMatchAudit ==
  RowsMatchAudit <=> \A q \in Requests : Matches(result[q], audit[q])
BY DEF RowsMatchAudit, Matches, DecidedIn, DecidedAt

LEMMA AppendDecides ==
  ASSUME NEW log \in Seq(AuditRows), NEW e \in AuditRows, NEW s \in Steps
  PROVE  DecidedIn(Append(log, e), s)
           <=> DecidedIn(log, s) \/ (e.action \in Decisions /\ e.step = s)
<1> DEFINE n == Len(log)
           new == Append(log, e)
<1>1. /\ n \in Nat /\ DOMAIN log = 1..n /\ DOMAIN new = 1..(n + 1)
      /\ \A i \in 1..n : new[i] = log[i]
      /\ new[n + 1] = e
  OBVIOUS
<1> HIDE DEF n, new
<1>2. \A i : i \in DOMAIN new <=> i \in DOMAIN log \/ i = n + 1
  BY <1>1
<1>3. DecidedIn(new, s) <=> DecidedIn(log, s) \/ (e.action \in Decisions /\ e.step = s)
  BY <1>1, <1>2 DEF DecidedIn
<1> QED
  BY <1>3 DEF new

(* A decision sets the row of its step and records that step.               *)
LEMMA DecisionMatches ==
  ASSUME Typed, RowsMatchAudit, NEW k \in CallStates, k.req \in Requests,
         k.step \in Steps, WriteDecision(k)
  PROVE  RowsMatchAudit'
<1> DEFINE e == Entry(DecisionAction(k), k.step, k.actor)
<1>1. /\ e \in AuditRows /\ e.step = k.step /\ e.action \in Decisions
      /\ audit' = [audit EXCEPT ![k.req] = Append(@, e)]
  BY DecisionGrows
<1> HIDE DEF e
<1>2. audit'[k.req] = Append(audit[k.req], e) /\ audit[k.req] \in Seq(AuditRows)
  BY <1>1 DEF Typed, TypeOK
<1>3. \A q \in Requests : q # k.req => audit'[q] = audit[q] /\ result'[q] = result[q]
  BY <1>1 DEF WriteDecision, Typed, TypeOK
<1>4. /\ result'[k.req][k.step] \in Verdicts
      /\ \A s \in Steps : s # k.step => result'[k.req][s] = result[k.req][s]
  BY DEF WriteDecision, Typed, TypeOK, CallStates
<1>5. \A s \in Steps : DecidedIn(audit'[k.req], s) <=> DecidedIn(audit[k.req], s) \/ s = k.step
  BY <1>1, <1>2, AppendDecides
<1>6. \A q \in Requests : Matches(result[q], audit[q])
  BY MatchesIsRowsMatchAudit
<1>7. Matches(result'[k.req], audit'[k.req])
  BY <1>4, <1>5, <1>6 DEF Matches
<1>8. \A q \in Requests : Matches(result'[q], audit'[q])
  BY <1>3, <1>6, <1>7
<1> QED
  BY <1>8 DEF RowsMatchAudit, Matches, DecidedIn, DecidedAt

(* An entry that is no decision leaves the rows matched, be they as they    *)
(* were or those of a request filed with nothing decided.                   *)
LEMMA OtherEntryMatches ==
  ASSUME Typed, RowsMatchAudit, NEW r \in Requests, NEW e \in AuditRows,
         e.action \notin Decisions,
         audit' = [audit EXCEPT ![r] = Append(@, e)],
         \A q \in Requests, s \in Steps :
           result'[q][s] \in Verdicts <=> result[q][s] \in Verdicts
  PROVE  RowsMatchAudit'
<1>1. audit'[r] = Append(audit[r], e) /\ audit[r] \in Seq(AuditRows)
  BY DEF Typed, TypeOK
<1>2. \A q \in Requests : q # r => audit'[q] = audit[q]
  BY DEF Typed, TypeOK
<1>3. \A s \in Steps : DecidedIn(audit'[r], s) <=> DecidedIn(audit[r], s)
  BY <1>1, AppendDecides
<1>4. \A q \in Requests : Matches(result[q], audit[q])
  BY MatchesIsRowsMatchAudit
<1>5. \A q \in Requests : Matches(result'[q], audit'[q])
  BY <1>2, <1>3, <1>4 DEF Matches
<1> QED
  BY <1>5 DEF RowsMatchAudit, Matches, DecidedIn, DecidedAt

LEMMA NextMatches ==
  ASSUME Typed, Progressed, RowsMatchAudit, [Next]_vars
  PROVE  RowsMatchAudit'
<1>0. ASSUME UNCHANGED <<result, audit>>
      PROVE  RowsMatchAudit'
  BY <1>0 DEF RowsMatchAudit, DecidedAt
<1>1. ASSUME NEW c \in Calls, Continue(c)
      PROVE  RowsMatchAudit'
  <2> DEFINE k == call[c]
  <2>0. /\ k \in CallStates /\ (k.pc # "idle" => k.req \in Requests)
        /\ k.pc \in Deciding => k.step \in Steps
    BY DEF Typed, TypeOK, Placed
  <2>1. CASE CreateRows(c)
    <3> DEFINE e == Entry("request.create", 0, k.actor)
    <3>1. /\ k.req \in Requests /\ status[k.req] = "none"
          /\ audit' = [audit EXCEPT ![k.req] = Append(@, e)]
      BY <2>0, <2>1 DEF CreateRows
    <3>2. e \in AuditRows /\ e.action \notin Decisions
      BY <2>0, EntryType DEF Entry, AuditActions, Decisions, Approvals, CallStates
    <3>3. \A s \in Steps : result[k.req][s] = "none"
      BY <3>1 DEF Progressed, Fresh
    <3>4. /\ \A s \in Steps : result'[k.req][s] \in {"none", "pending"}
          /\ \A q \in Requests : q # k.req => result'[q] = result[q]
      BY <2>1, <3>1 DEF CreateRows, Typed, TypeOK
    <3>5. \A q \in Requests, s \in Steps :
            result'[q][s] \in Verdicts <=> result[q][s] \in Verdicts
      BY <3>3, <3>4 DEF Verdicts
    <3> HIDE DEF e
    <3> QED
      BY <3>1, <3>2, <3>5, OtherEntryMatches
  <2>2. CASE CancelAudit(c)
    <3> DEFINE e == Entry("request.cancel", 0, k.actor)
    <3>1. /\ k.req \in Requests /\ result' = result
          /\ audit' = [audit EXCEPT ![k.req] = Append(@, e)]
      BY <2>0, <2>2 DEF CancelAudit
    <3>2. e \in AuditRows /\ e.action \notin Decisions
      BY <2>0, EntryType DEF Entry, AuditActions, Decisions, Approvals, CallStates
    <3> HIDE DEF e
    <3> QED
      BY <3>1, <3>2, OtherEntryMatches
  <2>3. CASE RecordRejection(c) \/ RecordFinalApproval(c) \/ RecordAdvance(c)
    <3>1. k.pc = "decide" /\ WriteDecision(k)
      BY <2>3 DEF RecordRejection, RecordFinalApproval, RecordAdvance
    <3>2. k.req \in Requests /\ k.step \in Steps
      BY <2>0, <3>1 DEF Deciding
    <3> QED
      BY <2>0, <3>1, <3>2, DecisionMatches
  <2>4. CASE CancelWrite(c) \/ CreatePlan(c) \/ ActRead(c) \/ ActCheck(c)
             \/ RecomputePunchFix(c) \/ AutoReadRequest(c) \/ AutoReadApproval(c)
             \/ AutoDecide(c)
    BY <1>0, <2>4 DEF CancelWrite, CreatePlan, ActRead, ActCheck, RecomputePunchFix,
                      AutoReadRequest, AutoReadApproval, AutoDecide, db
  <2> QED
    BY <1>1, <2>1, <2>2, <2>3, <2>4 DEF Continue
<1>2. ASSUME NEW c \in Calls, Start(c) \/ Crash(c)
      PROVE  RowsMatchAudit'
  BY <1>0, <1>2 DEF Start, StartCreate, StartCancel, StartAct, Crash, db
<1>3. CASE Administer
  BY <1>0, <1>3 DEF Administer, CreateRoute, UpdateRoute, RemoveRoute, UpdateMember, db
<1>4. CASE UNCHANGED vars
  BY <1>0, <1>4 DEF vars
<1> QED
  BY <1>1, <1>2, <1>3, <1>4 DEF Next

(* However many handlers decide, cancel and are lost at the same time, a    *)
(* row that says approved or rejected has its decision in the audit log and *)
(* a recorded decision shows in its row: recordDecision's two writes are of *)
(* one transaction, and nothing turns a decided row back into a pending one. *)
THEOREM RowsAlwaysMatch == Spec => []RowsMatchAudit
<1>1. Init => RowsMatchAudit
  BY DEF Init, RowsMatchAudit, DecidedAt, Verdicts
<1>2. Typed /\ Progressed /\ RowsMatchAudit /\ [Next]_vars => RowsMatchAudit'
  BY NextMatches
<1>3. Spec => []Typed
  BY TypeCorrect DEF Typed
<1> QED
  BY <1>1, <1>2, <1>3, HandlersProgressed, PTL DEF Spec

-----------------------------------------------------------------------------
(* Who decides                                                              *)

EntitledTo(actor, q, s) ==
  /\ assigned[q][s] \in {NoUser, actor}
  /\ actor = Owner[q] => \E o \in GoverningRoutes(Kind[q]) : o.allowSelf

RoutesKnown == routes \subseteq InitRoutes \cup RouteOptions

(* Until it is decided a row names the approver it was created for.         *)
PendingAsAssigned ==
  \A q \in Requests, s \in Steps :
    result[q][s] = "pending" => approverId[q][s] = assigned[q][s]

(* What the checks a handler has passed came to. The rows, routes and roles *)
(* they were made on may be others by now; what the request was created for *)
(* and the routes there ever were are not.                                  *)
DeciderInv(d) ==
  LET k == call[d] IN
  /\ k.pc \in {"auto_request", "auto_approval", "auto_plan"} => k.actor = NoUser
  /\ k.pc = "act_check" => k.fixed = assigned[k.req][k.step]
  /\ k.pc = "decide" /\ k.actor # NoUser => EntitledTo(k.actor, k.req, k.step)

Deserved == RoutesKnown /\ PendingAsAssigned /\ \A d \in Calls : DeciderInv(d)

LEMMA InitDeserved == Init => Deserved
BY DEF Init, Deserved, RoutesKnown, PendingAsAssigned, DeciderInv, Idle

LEMMA RoutesStayKnown ==
  ASSUME RoutesKnown, [Next]_vars
  PROVE  RoutesKnown'
<1>1. ASSUME NEW c \in Calls, Start(c) \/ Continue(c) \/ Crash(c)
      PROVE  routes' = routes
  BY <1>1 DEF Start, StartCreate, StartCancel, StartAct, Crash, Continue, CreatePlan,
              CreateRows, ActRead, ActCheck, RecordRejection, RecordFinalApproval,
              RecordAdvance, WriteDecision, RecomputePunchFix, AutoReadRequest,
              AutoReadApproval, AutoDecide, CancelWrite, CancelAudit, conf
<1>2. CASE Administer
  BY <1>2 DEF Administer, CreateRoute, UpdateRoute, RemoveRoute, UpdateMember, RoutesKnown
<1>3. CASE UNCHANGED vars
  BY <1>3 DEF vars, RoutesKnown
<1> QED
  BY <1>1, <1>2, <1>3 DEF Next, RoutesKnown

LEMMA PendingStaysAssigned ==
  ASSUME Typed, PendingAsAssigned, [Next]_vars
  PROVE  PendingAsAssigned'
<1>0. ASSUME UNCHANGED <<result, approverId, assigned>>
      PROVE  PendingAsAssigned'
  BY <1>0 DEF PendingAsAssigned
<1>1. ASSUME NEW c \in Calls, Continue(c)
      PROVE  PendingAsAssigned'
  <2> DEFINE k == call[c]
  <2>1. CASE CreateRows(c)
    <3>1. \A q \in Requests : q # k.req =>
            /\ result'[q] = result[q] /\ approverId'[q] = approverId[q]
            /\ assigned'[q] = assigned[q]
      BY <2>1 DEF CreateRows, Typed, TypeOK
    <3>2. k.req \in Requests => assigned'[k.req] = approverId'[k.req]
      BY <2>1 DEF CreateRows, Typed, TypeOK
    <3> QED
      BY <3>1, <3>2 DEF PendingAsAssigned
  <2>2. CASE RecordRejection(c) \/ RecordFinalApproval(c) \/ RecordAdvance(c)
    <3>1. WriteDecision(k) /\ k.verdict # "pending"
      BY <2>2 DEF RecordRejection, RecordFinalApproval, RecordAdvance
    <3>2. ASSUME NEW q \in Requests, NEW s \in Steps, result'[q][s] = "pending"
          PROVE  /\ result[q][s] = "pending" /\ approverId'[q][s] = approverId[q][s]
                 /\ assigned' = assigned
      BY <3>1, <3>2 DEF WriteDecision, Typed, TypeOK
    <3> QED
      BY <3>2 DEF PendingAsAssigned
  <2>3. CASE CreatePlan(c) \/ ActRead(c) \/ ActCheck(c) \/ RecomputePunchFix(c)
             \/ AutoReadRequest(c) \/ AutoReadApproval(c) \/ AutoDecide(c)
             \/ CancelWrite(c) \/ CancelAudit(c)
    BY <1>0, <2>3 DEF CreatePlan, ActRead, ActCheck, RecomputePunchFix, AutoReadRequest,
                      AutoReadApproval, AutoDecide, CancelWrite, CancelAudit, db
  <2> QED
    BY <1>1, <2>1, <2>2, <2>3 DEF Continue
<1>2. ASSUME NEW c \in Calls, Start(c) \/ Crash(c)
      PROVE  PendingAsAssigned'
  BY <1>0, <1>2 DEF Start, StartCreate, StartCancel, StartAct, Crash, db
<1>3. CASE Administer
  BY <1>0, <1>3 DEF Administer, CreateRoute, UpdateRoute, RemoveRoute, UpdateMember, db
<1>4. CASE UNCHANGED vars
  BY <1>0, <1>4 DEF vars
<1> QED
  BY <1>1, <1>2, <1>3, <1>4 DEF Next

(* A handler that does not move keeps what its checks came to.              *)
LEMMA OtherDeciders ==
  ASSUME Typed, Persists, NEW d \in Calls, CallInv(d), DeciderInv(d), call'[d] = call[d]
  PROVE  DeciderInv(d)'
<1> DEFINE k == call[d]
<1>1. k.pc \in {"act_check", "decide"} =>
        k.req \in Requests /\ assigned'[k.req] = assigned[k.req]
  BY DEF Typed, Placed, CallInv, Working, Waits, Persists
<1> QED
  BY <1>1 DEF DeciderInv, EntitledTo

(* The checks of act give a handler the right to decide.                    *)
LEMMA ChecksEntitle ==
  ASSUME Typed, Deserved, NEW c \in Calls, call[c].pc = "act_check",
         NEW plan \in ResolvePlan(routes, Kind[call[c].req]),
         LET k == call[c] IN MayDecide(plan, k.actor, Owner[k.req], k.fixed, k.sees)
  PROVE  EntitledTo(call[c].actor, call[c].req, call[c].step)
<1> DEFINE k == call[c]
<1>1. assigned[k.req][k.step] \in {NoUser, k.actor}
  BY DEF MayDecide, Deserved, DeciderInv
<1>2. ASSUME k.actor = Owner[k.req]
      PROVE  \E o \in GoverningRoutes(Kind[k.req]) : o.allowSelf
  <2>1. plan.allowSelf
    BY <1>2 DEF MayDecide
  <2>2. \E o \in routes : o.appliesTo \in {Kind[k.req], "all"} /\ o.allowSelf
    BY <2>1, SelfApprovalComesFromRoute
  <2> QED
    BY <2>2 DEF Deserved, RoutesKnown, GoverningRoutes
<1> QED
  BY <1>1, <1>2 DEF EntitledTo

LEMMA MovingDecider ==
  ASSUME Typed, Progressed, Deserved, Persists, NEW c \in Calls, Start(c) \/ Continue(c) \/ Crash(c)
  PROVE  \A d \in Calls : DeciderInv(d)'
<1> DEFINE k == call[c]
<1>0. /\ k \in CallStates
      /\ k.pc # "idle" => k.req \in Requests
      /\ CallInv(c) /\ DeciderInv(c)
  BY DEF Typed, TypeOK, Placed, Progressed, Deserved
<1>1. \A d \in Calls : d # c => call'[d] = call[d]
  BY DEF Start, StartCreate, StartCancel, StartAct, Crash, Continue, CreatePlan,
         CreateRows, ActRead, ActCheck, RecordRejection, RecordFinalApproval,
         RecordAdvance, RecomputePunchFix, AutoReadRequest,
         AutoReadApproval, AutoDecide, CancelWrite, CancelAudit, Typed, TypeOK
<1>2. ASSUME call'[c].pc \notin {"auto_request", "auto_approval", "auto_plan", "act_check", "decide"}
      PROVE  DeciderInv(c)'
  BY <1>2 DEF DeciderInv
<1>3. ASSUME call'[c].actor = NoUser, call'[c].pc # "act_check"
      PROVE  DeciderInv(c)'
  BY <1>3 DEF DeciderInv
<1>4. Idle.pc = "idle" /\ Idle.actor = NoUser
  BY DEF Idle
<1>5. ASSUME Start(c)
      PROVE  DeciderInv(c)'
  <2>1. call'[c].pc \in {"create_plan", "cancel_write", "act_read"}
    <3>1. ASSUME NEW r \in Requests, StartCreate(c, r)
          PROVE  call'[c].pc = "create_plan"
      BY <3>1 DEF StartCreate, Typed, TypeOK, Idle
    <3>2. ASSUME NEW r \in Requests, StartCancel(c, r)
          PROVE  call'[c].pc = "cancel_write"
      BY <3>2 DEF StartCancel, Typed, TypeOK, Idle
    <3>3. ASSUME NEW u \in Users, NEW r \in Requests, NEW s \in Steps, NEW v \in Verdicts,
                 StartAct(c, u, r, s, v)
          PROVE  call'[c].pc = "act_read"
      BY <3>3 DEF StartAct, Typed, TypeOK, Idle
    <3> QED
      BY <1>5, <3>1, <3>2, <3>3 DEF Start
  <2> QED
    BY <1>2, <2>1
<1>6. ASSUME Crash(c) \/ RecordRejection(c) \/ RecomputePunchFix(c) \/ CancelAudit(c)
      PROVE  DeciderInv(c)'
  <2>1. call'[c] = Idle
    BY <1>6 DEF Crash, RecordRejection, RecomputePunchFix, CancelAudit, Typed, TypeOK
  <2> QED
    BY <1>2, <1>4, <2>1
<1>7. ASSUME CreatePlan(c) \/ CancelWrite(c) \/ RecordFinalApproval(c)
      PROVE  DeciderInv(c)'
  <2>1. call'[c].pc \in {"idle", "create_rows", "cancel_audit", "recompute"}
    <3>1. CASE CreatePlan(c)
      BY <1>0, <3>1 DEF CreatePlan, Typed, TypeOK, Idle, CallStates
    <3>2. CASE CancelWrite(c)
      BY <1>0, <3>2 DEF CancelWrite, Typed, TypeOK, CallStates
    <3>3. CASE RecordFinalApproval(c)
      <4>1. call'[c] \in {Idle, [Idle EXCEPT !.pc = "recompute", !.req = k.req]}
        BY <3>3 DEF RecordFinalApproval, Typed, TypeOK
      <4>2. [Idle EXCEPT !.pc = "recompute", !.req = k.req].pc = "recompute"
        BY DEF Idle
      <4> QED
        BY <1>4, <4>1, <4>2
    <3> QED
      BY <1>7, <3>1, <3>2, <3>3
  <2> QED
    BY <1>2, <2>1
<1>8. ASSUME CreateRows(c) \/ RecordAdvance(c)
      PROVE  DeciderInv(c)'
  <2>1. call'[c].actor = NoUser /\ call'[c].pc # "act_check"
    <3>1. CASE CreateRows(c)
      BY <3>1 DEF CreateRows, Typed, TypeOK, Idle
    <3>2. CASE RecordAdvance(c)
      <4>1. call'[c] = AfterAdvance(k)
        BY <3>2 DEF RecordAdvance, Typed, TypeOK
      <4>2. AfterAdvance(k).actor = NoUser /\ AfterAdvance(k).pc # "act_check"
        BY DEF AfterAdvance, Idle
      <4> QED
        BY <4>1, <4>2
    <3> QED
      BY <1>8, <3>1, <3>2
  <2> QED
    BY <1>3, <2>1
<1>9. ASSUME ActRead(c)
      PROVE  DeciderInv(c)'
  <2>1. CASE Actionable(k.req, k.step)
    <3>1. /\ call'[c] = [k EXCEPT !.pc = "act_check",
                            !.fixed = approverId[k.req][k.step],
                            !.sees = IsVisible(k.scope, k.actor, k.depts, Owner[k.req],
                                               dir.dept[Owner[k.req]])]
          /\ k.pc = "act_read" /\ UNCHANGED assigned
      BY <1>9, <2>1 DEF ActRead, Typed, TypeOK, db
    <3>2. /\ call'[c].pc = "act_check" /\ call'[c].req = k.req /\ call'[c].step = k.step
          /\ call'[c].fixed = approverId[k.req][k.step]
      BY <1>0, <3>1 DEF CallStates
    <3>3. k.req \in Requests /\ k.step \in Steps /\ result[k.req][k.step] = "pending"
      BY <2>1, <3>1 DEF Typed, Placed, Deciding, Actionable
    <3>4. approverId[k.req][k.step] = assigned[k.req][k.step]
      BY <3>3 DEF Deserved, PendingAsAssigned
    <3> QED
      BY <3>1, <3>2, <3>4 DEF DeciderInv
  <2>2. CASE ~Actionable(k.req, k.step)
    BY <1>2, <1>4, <1>9, <2>2 DEF ActRead, Typed, TypeOK
  <2> QED
    BY <2>1, <2>2
<1>10. ASSUME ActCheck(c)
      PROVE  DeciderInv(c)'
  <2>1. PICK plan \in ResolvePlan(routes, Kind[k.req]) :
          call' = [call EXCEPT ![c] =
            IF MayDecide(plan, k.actor, Owner[k.req], k.fixed, k.sees)
              THEN [k EXCEPT !.pc = "decide"] ELSE Idle]
    BY <1>10 DEF ActCheck
  <2>2. CASE MayDecide(plan, k.actor, Owner[k.req], k.fixed, k.sees)
    <3>1. k.pc = "act_check" /\ UNCHANGED assigned
      BY <1>10 DEF ActCheck, db
    <3>2. EntitledTo(k.actor, k.req, k.step)
      BY <2>2, <3>1, ChecksEntitle
    <3>3. call'[c] = [k EXCEPT !.pc = "decide"]
      BY <2>1, <2>2 DEF Typed, TypeOK
    <3>4. /\ call'[c].pc = "decide" /\ call'[c].req = k.req /\ call'[c].step = k.step
          /\ call'[c].actor = k.actor
      BY <1>0, <3>3 DEF CallStates
    <3> QED
      BY <3>1, <3>2, <3>4 DEF DeciderInv, EntitledTo
  <2>3. CASE ~MayDecide(plan, k.actor, Owner[k.req], k.fixed, k.sees)
    BY <1>2, <1>4, <2>1, <2>3 DEF Typed, TypeOK
  <2> QED
    BY <2>2, <2>3
<1>11. ASSUME AutoReadRequest(c) \/ AutoReadApproval(c) \/ AutoDecide(c)
      PROVE  DeciderInv(c)'
  <2>1. k.actor = NoUser
    BY <1>0, <1>11 DEF AutoReadRequest, AutoReadApproval, AutoDecide, DeciderInv
  <2>2. call'[c].actor = NoUser /\ call'[c].pc # "act_check"
    <3>1. CASE AutoReadRequest(c)
      BY <1>0, <1>4, <2>1, <3>1 DEF AutoReadRequest, CallStates, Typed, TypeOK
    <3>2. CASE AutoReadApproval(c)
      BY <1>0, <1>4, <2>1, <3>2 DEF AutoReadApproval, CallStates, Typed, TypeOK
    <3>3. CASE AutoDecide(c)
      BY <1>0, <1>4, <2>1, <3>3 DEF AutoDecide, CallStates, Typed, TypeOK
    <3> QED
      BY <1>11, <3>1, <3>2, <3>3
  <2> QED
    BY <1>3, <2>2
<1>12. DeciderInv(c)'
  BY <1>5, <1>6, <1>7, <1>8, <1>9, <1>10, <1>11 DEF Continue
<1>13. ASSUME NEW d \in Calls, d # c
       PROVE  DeciderInv(d)'
  BY <1>1, <1>13, OtherDeciders DEF Progressed, Deserved
<1> QED
  BY <1>12, <1>13

LEMMA NextDeserved ==
  ASSUME Typed, Progressed, Deserved, [Next]_vars
  PROVE  Deserved'
<1>1. Persists
  BY StepPersists
<1>2. CASE Administer \/ UNCHANGED vars
  <2>1. UNCHANGED call
    BY <1>2 DEF Administer, CreateRoute, UpdateRoute, RemoveRoute, UpdateMember, vars
  <2>2. \A d \in Calls : DeciderInv(d)'
    BY <1>1, <2>1, OtherDeciders DEF Progressed, Deserved
  <2> QED
    BY <2>2, RoutesStayKnown, PendingStaysAssigned DEF Deserved
<1>3. ASSUME NEW c \in Calls, Start(c) \/ Continue(c) \/ Crash(c)
      PROVE  Deserved'
  BY <1>1, <1>3, MovingDecider, RoutesStayKnown, PendingStaysAssigned DEF Deserved
<1> QED
  BY <1>2, <1>3 DEF Next

LEMMA AlwaysDeserved == Spec => []Deserved
<1>1. Typed /\ Progressed /\ Deserved /\ [Next]_vars => Deserved'
  BY NextDeserved
<1>2. Spec => []Typed
  BY TypeCorrect DEF Typed
<1> QED
  BY <1>1, <1>2, InitDeserved, HandlersProgressed, PTL DEF Spec

(* A step adds nothing to a log but entries of which a decision is of a     *)
(* step of the request, by the system or by somebody entitled to it.        *)
AppendsEntitled(q) ==
  \/ audit'[q] = audit[q]
  \/ \E e \in AuditRows :
       /\ audit'[q] = Append(audit[q], e)
       /\ e.action \in Decisions =>
            /\ status[q] # "none" /\ e.step \in Steps
            /\ e.actor # NoUser => EntitledTo(e.actor, q, e.step)

LEMMA StepAppendsEntitled ==
  ASSUME Typed, Progressed, Deserved, [Next]_vars
  PROVE  \A q \in Requests : AppendsEntitled(q)
<1>0. ASSUME UNCHANGED audit
      PROVE  \A q \in Requests : AppendsEntitled(q)
  BY <1>0 DEF AppendsEntitled
<1>1. ASSUME NEW c \in Calls, Continue(c)
      PROVE  \A q \in Requests : AppendsEntitled(q)
  <2> DEFINE k == call[c]
  <2>0. /\ k \in CallStates /\ (k.pc # "idle" => k.req \in Requests)
        /\ k.pc \in Deciding => k.step \in Steps
        /\ CallInv(c) /\ DeciderInv(c)
    BY DEF Typed, TypeOK, Placed, Progressed, Deserved
  <2>1. CASE CreateRows(c) \/ CancelAudit(c)
    <3>1. PICK a \in {"request.create", "request.cancel"} :
            audit' = [audit EXCEPT ![k.req] = Append(@, Entry(a, 0, k.actor))]
      BY <2>1 DEF CreateRows, CancelAudit
    <3> DEFINE e == Entry(a, 0, k.actor)
    <3>2. e \in AuditRows /\ e.action \notin Decisions
      BY <2>0, EntryType DEF Entry, AuditActions, Decisions, Approvals, CallStates
    <3> HIDE DEF e, k
    <3>3. \A q \in Requests : audit'[q] = audit[q] \/ audit'[q] = Append(audit[q], e)
      BY <3>1 DEF e, Typed, TypeOK
    <3> QED
      BY <3>2, <3>3 DEF AppendsEntitled
  <2>2. CASE RecordRejection(c) \/ RecordFinalApproval(c) \/ RecordAdvance(c)
    <3> DEFINE e == Entry(DecisionAction(k), k.step, k.actor)
    <3>1. k.pc = "decide" /\ WriteDecision(k)
      BY <2>2 DEF RecordRejection, RecordFinalApproval, RecordAdvance
    <3>2. /\ e \in AuditRows /\ e.step = k.step /\ e.actor = k.actor
          /\ audit' = [audit EXCEPT ![k.req] = Append(@, e)]
      BY <2>0, <3>1, DecisionGrows
    <3>3. /\ status[k.req] # "none" /\ k.step \in Steps
          /\ k.actor # NoUser => EntitledTo(k.actor, k.req, k.step)
      BY <2>0, <3>1 DEF CallInv, Working, Waits, DeciderInv, Deciding
    <3> HIDE DEF e, k
    <3>4. \A q \in Requests : q # k.req => audit'[q] = audit[q]
      BY <3>2 DEF Typed, TypeOK
    <3>5. k.req \in Requests => audit'[k.req] = Append(audit[k.req], e)
      BY <3>2 DEF Typed, TypeOK
    <3>6. k.req \in Requests => AppendsEntitled(k.req)
      BY <3>2, <3>3, <3>5 DEF AppendsEntitled
    <3> QED
      BY <3>4, <3>6 DEF AppendsEntitled
  <2>3. CASE CancelWrite(c) \/ CreatePlan(c) \/ ActRead(c) \/ ActCheck(c)
             \/ RecomputePunchFix(c) \/ AutoReadRequest(c) \/ AutoReadApproval(c)
             \/ AutoDecide(c)
    BY <1>0, <2>3 DEF CancelWrite, CreatePlan, ActRead, ActCheck, RecomputePunchFix,
                      AutoReadRequest, AutoReadApproval, AutoDecide, db
  <2> QED
    BY <1>1, <2>1, <2>2, <2>3 DEF Continue
<1>2. ASSUME NEW c \in Calls, Start(c) \/ Crash(c)
      PROVE  \A q \in Requests : AppendsEntitled(q)
  BY <1>0, <1>2 DEF Start, StartCreate, StartCancel, StartAct, Crash, db
<1>3. CASE Administer
  BY <1>0, <1>3 DEF Administer, CreateRoute, UpdateRoute, RemoveRoute, UpdateMember, db
<1>4. CASE UNCHANGED vars
  BY <1>0, <1>4 DEF vars
<1> QED
  BY <1>1, <1>2, <1>3, <1>4 DEF Next

(* DecidersEntitled of one entry.                                           *)
EntryEntitled(q, e) ==
  e.action \in Decisions /\ e.step \in Steps /\ e.actor # NoUser
    => EntitledTo(e.actor, q, e.step)

LEMMA EntriesAreDeciders ==
  DecidersEntitled <=> \A q \in Requests : \A i \in DOMAIN audit[q] : EntryEntitled(q, audit[q][i])
BY DEF DecidersEntitled, EntryEntitled, EntitledTo, DecidedAt

LEMMA NextEntitled ==
  ASSUME Typed, Progressed, Deserved, DecidersEntitled, [Next]_vars
  PROVE  DecidersEntitled'
<1>1. Persists /\ \A q \in Requests : AppendsEntitled(q)
  BY StepPersists, StepAppendsEntitled
<1>2. ASSUME NEW q \in Requests, NEW i \in DOMAIN audit'[q]
      PROVE  EntryEntitled(q, audit[q][i])'
  <2>1. audit[q] \in Seq(AuditRows)
    BY DEF Typed, TypeOK
  <2>2. status[q] # "none" => assigned'[q] = assigned[q]
    BY <1>1 DEF Persists
  <2>3. CASE i \in DOMAIN audit[q]
    <3>1. audit'[q][i] = audit[q][i]
      BY <1>1, <2>3 DEF Persists, Grows
    <3>2. status[q] # "none"
      BY <2>3 DEF Progressed, Fresh
    <3>3. EntryEntitled(q, audit[q][i])
      BY <2>3, EntriesAreDeciders
    <3> QED
      BY <2>2, <3>1, <3>2, <3>3 DEF EntryEntitled, EntitledTo
  <2>4. CASE i \notin DOMAIN audit[q]
    <3>1. PICK e \in AuditRows :
            /\ audit'[q] = Append(audit[q], e)
            /\ e.action \in Decisions =>
                 /\ status[q] # "none" /\ e.step \in Steps
                 /\ e.actor # NoUser => EntitledTo(e.actor, q, e.step)
      BY <1>1, <1>2, <2>4 DEF AppendsEntitled
    <3>2. audit'[q][i] = e
      BY <1>2, <2>1, <2>4, <3>1
    <3> QED
      BY <2>2, <3>1, <3>2 DEF EntryEntitled, EntitledTo
  <2> QED
    BY <2>3, <2>4
<1> QED
  BY <1>2 DEF EntryEntitled, EntitledTo, DecidersEntitled, DecidedAt

(* Whatever routes are saved, roles are changed and other handlers commit   *)
(* between the checks of act and the write of its decision: a step fixed to *)
(* somebody is decided by nobody else, and an applicant decides only where  *)
(* some route for that kind of request allows it.                           *)
THEOREM DecidersAlwaysEntitled == Spec => []DecidersEntitled
<1>1. Init => DecidersEntitled
  BY DEF Init, DecidersEntitled
<1>2. Typed /\ Progressed /\ Deserved /\ DecidersEntitled /\ [Next]_vars => DecidersEntitled'
  BY NextEntitled
<1>3. Spec => []Typed
  BY TypeCorrect DEF Typed
<1> QED
  BY <1>1, <1>2, <1>3, AlwaysDeserved, HandlersProgressed, PTL DEF Spec

-----------------------------------------------------------------------------
(* What an approval rests on                                                *)

(* Decisions are of steps that routes can have.                             *)
DecidedSteps ==
  \A q \in Requests : \A i \in DOMAIN audit[q] :
    audit[q][i].action \in Decisions => audit[q][i].step \in Steps

LEMMA NextDecidedSteps ==
  ASSUME Typed, Progressed, DecidedSteps, [Next]_vars
  PROVE  DecidedSteps'
<1>1. Persists /\ \A q \in Requests : Appends(q)
  BY StepPersists, StepAppends
<1>2. ASSUME NEW q \in Requests, NEW i \in DOMAIN audit'[q],
             audit'[q][i].action \in Decisions
      PROVE  audit'[q][i].step \in Steps
  <2>1. audit[q] \in Seq(AuditRows)
    BY DEF Typed, TypeOK
  <2>2. CASE i \in DOMAIN audit[q]
    BY <1>1, <1>2, <2>2 DEF Persists, Grows, DecidedSteps
  <2>3. CASE i \notin DOMAIN audit[q]
    <3>1. PICK e \in AuditRows :
            /\ audit'[q] = Append(audit[q], e)
            /\ e.action \in Decisions => e.step \in Steps
      BY <1>1, <1>2, <2>3 DEF Appends
    <3>2. audit'[q][i] = e
      BY <1>2, <2>1, <2>3, <3>1
    <3> QED
      BY <1>2, <3>1, <3>2
  <2> QED
    BY <2>2, <2>3
<1> QED
  BY <1>2 DEF DecidedSteps

(* The steps approved on the way to step k.step are k.step - 1 different    *)
(* rows, and k.step is one more: if there are no more rows than k.step they *)
(* are all the rows there are, whatever numbers the route gave its steps.   *)
LEMMA FinalStepIsLast ==
  ASSUME Typed, Progressed, RowsMatchAudit, DecidedSteps,
         NEW c \in Calls, call[c].pc = "decide", call[c].step >= TotalSteps(call[c].req)
  PROVE  \A s \in Steps : result[call[c].req][s] # "none" => s \in 1..call[c].step
<1> DEFINE k == call[c]
           r == call[c].req
           S == {s \in Steps : result[r][s] # "none"}
           T == 1..k.step
<1>1. /\ r \in Requests /\ k.step \in Steps /\ k.step \in Nat
      /\ k.step >= 1 /\ Reached(audit[r], k.step) /\ result[r][k.step] # "none"
  BY WorkflowAssumption DEF Typed, Placed, Deciding, Progressed, CallInv, Holding, HasRow
<1>2. ASSUME NEW m \in T
      PROVE  m \in S
  <2>1. CASE m = k.step
    BY <1>1, <2>1
  <2>2. CASE m # k.step
    <3>1. m \in Nat /\ 1 <= m /\ m < k.step
      BY <1>1, <1>2, <2>2
    <3>2. PICK i \in DOMAIN audit[r] : audit[r][i].action \in Approvals /\ audit[r][i].step = m
      BY <1>1, <3>1 DEF Reached, ApprovedIn
    <3>3. m \in Steps /\ DecidedAt(r, i, m)
      BY <1>1, <3>2 DEF DecidedSteps, Decisions, DecidedAt
    <3>4. result[r][m] \in Verdicts
      BY <1>1, <3>2, <3>3 DEF RowsMatchAudit
    <3> QED
      BY <3>3, <3>4 DEF Verdicts
  <2> QED
    BY <2>1, <2>2
<1>3. IsFiniteSet(S)
  BY WorkflowAssumption, FS_Subset
<1>4. Cardinality(T) = k.step
  BY <1>1, FS_Interval
<1>5. Cardinality(S) <= k.step
  BY DEF TotalSteps
<1>6. T \in SUBSET S
  BY <1>2
<1> HIDE DEF S, T
<1>7. Cardinality(T) <= Cardinality(S) /\ (Cardinality(S) = Cardinality(T) => S = T)
  BY <1>3, <1>6, FS_Subset
<1>8. Cardinality(S) \in Nat
  BY <1>3, FS_CardinalityType
<1>9. S = T
  BY <1>1, <1>4, <1>5, <1>7, <1>8
<1> QED
  BY <1>9 DEF S, T

(* ApprovedIsComplete of one request.                                       *)
Complete(q) ==
  status[q] = "approved" =>
    effects[q] > 0 /\ \A s \in Steps : result[q][s] # "none" => ApprovedIn(audit[q], s)

LEMMA CompleteIsApprovedIsComplete ==
  ApprovedIsComplete <=> \A q \in Requests : Complete(q)
BY DEF ApprovedIsComplete, Complete, ApprovedIn

(* An approved request stays complete while its log grows and its rows are  *)
(* decided over again, as long as no row is added.                          *)
LEMMA CompleteStays ==
  ASSUME Persists, NEW q \in Requests, Complete(q),
         status'[q] = status[q], effects'[q] = effects[q],
         \A s \in Steps : result'[q][s] # "none" => result[q][s] # "none"
  PROVE  Complete(q)'
BY DEF Persists, Grows, Complete, ApprovedIn

LEMMA FinalApprovalCompletes ==
  ASSUME Typed, Progressed, RowsMatchAudit, DecidedSteps, Persists,
         NEW c \in Calls, RecordFinalApproval(c), NEW r \in Requests, r = call[c].req
  PROVE  Complete(r)'
<1> DEFINE k == call[c]
           e == Entry(DecisionAction(k), k.step, k.actor)
<1>1. /\ k.pc = "decide" /\ k.verdict = "approved" /\ k.step >= TotalSteps(r)
      /\ WriteDecision(k) /\ effects' = [effects EXCEPT ![r] = @ + 1]
  BY DEF RecordFinalApproval
<1>2. /\ k \in CallStates /\ r \in Requests /\ k.step \in Steps
      /\ Reached(audit[r], k.step) /\ result[r][k.step] # "none"
  BY <1>1 DEF Typed, TypeOK, Placed, Deciding, Progressed, CallInv, Holding, HasRow
<1>3. /\ e \in AuditRows /\ e.step = k.step /\ e.action \in Approvals
      /\ audit' = [audit EXCEPT ![r] = Append(@, e)]
  BY <1>1, <1>2, DecisionGrows
<1>4. ApprovedIn(audit'[r], k.step)
  <2> HIDE DEF e
  <2>1. /\ Len(audit[r]) + 1 \in DOMAIN audit'[r]
        /\ audit'[r][Len(audit[r]) + 1] = e
    <3>0. audit \in [Requests -> Seq(AuditRows)] /\ r \in Requests
      BY <1>1, <1>2 DEF Typed, TypeOK
    <3>1. /\ Len(audit[r]) \in Nat
          /\ DOMAIN audit'[r] = 1..(Len(audit[r]) + 1)
          /\ audit'[r][Len(audit[r]) + 1] = e
      BY <1>3, <3>0
    <3> QED
      BY <3>1
  <2> QED
    BY <1>3, <2>1 DEF ApprovedIn
<1>5. Reached(audit'[r], k.step)
  BY <1>2, ReachedGrows DEF Persists
<1>6. ASSUME NEW s \in Steps, result'[r][s] # "none"
      PROVE  ApprovedIn(audit'[r], s)
  <2>1. result[r][s] # "none"
    BY <1>1, <1>2, <1>6 DEF WriteDecision, Typed, TypeOK
  <2>2. s \in 1..k.step
    BY <1>1, <2>1, FinalStepIsLast
  <2>3. k.step \in Nat
    BY <1>2, WorkflowAssumption
  <2>4. s = k.step \/ (s \in Nat /\ 1 <= s /\ s < k.step)
    BY <2>2, <2>3
  <2> QED
    BY <1>4, <1>5, <2>4 DEF Reached
<1>7. effects'[r] > 0
  BY <1>1, <1>2 DEF Typed, TypeOK
<1> QED
  BY <1>6, <1>7 DEF Complete

LEMMA NextComplete ==
  ASSUME Typed, Progressed, RowsMatchAudit, DecidedSteps, ApprovedIsComplete, [Next]_vars
  PROVE  ApprovedIsComplete'
<1>0. Persists /\ \A q \in Requests : Complete(q)
  BY StepPersists, CompleteIsApprovedIsComplete
<1>1. SUFFICES ASSUME NEW q \in Requests
               PROVE  Complete(q)'
  BY DEF ApprovedIsComplete, Complete, ApprovedIn
<1>2. ASSUME UNCHANGED <<status, effects, result>>
      PROVE  Complete(q)'
  BY <1>0, <1>2, CompleteStays
<1>3. ASSUME NEW c \in Calls, Continue(c)
      PROVE  Complete(q)'
  <2> DEFINE k == call[c]
  <2>0. /\ k.pc # "idle" => k.req \in Requests
        /\ k.pc = "decide" => result[k.req][k.step] # "none"
    BY DEF Typed, Placed, Progressed, CallInv, HasRow
  <2>1. CASE CreateRows(c) \/ RecordRejection(c) \/ CancelWrite(c)
    <3>1. CASE q = k.req
      <4>1. status'[q] # "approved"
        BY <2>1, <3>1 DEF CreateRows, RecordRejection, CancelWrite, Typed, TypeOK
      <4> QED
        BY <4>1 DEF Complete
    <3>2. CASE q # k.req
      <4>1. status'[q] = status[q] /\ effects'[q] = effects[q] /\ result'[q] = result[q]
        BY <2>1, <3>2 DEF CreateRows, RecordRejection, CancelWrite, WriteDecision, Typed, TypeOK
      <4> QED
        BY <1>0, <4>1, CompleteStays
    <3> QED
      BY <3>1, <3>2
  <2>2. CASE RecordFinalApproval(c)
    <3>1. CASE q = k.req
      BY <1>0, <2>2, <3>1, FinalApprovalCompletes
    <3>2. CASE q # k.req
      <4>1. status'[q] = status[q] /\ effects'[q] = effects[q] /\ result'[q] = result[q]
        BY <2>2, <3>2 DEF RecordFinalApproval, WriteDecision, Typed, TypeOK
      <4> QED
        BY <1>0, <4>1, CompleteStays
    <3> QED
      BY <3>1, <3>2
  <2>3. CASE RecordAdvance(c)
    <3>1. /\ k.pc = "decide" /\ WriteDecision(k)
          /\ status' = status /\ effects' = effects
      BY <2>3 DEF RecordAdvance
    <3>2. \A s \in Steps : result'[q][s] # "none" => result[q][s] # "none"
      <4>1. result'[q] \in {result[q], [result[q] EXCEPT ![k.step] = k.verdict]}
        BY <3>1 DEF WriteDecision, Typed, TypeOK
      <4>2. q # k.req => result'[q] = result[q]
        BY <3>1 DEF WriteDecision, Typed, TypeOK
      <4>3. q = k.req => result[q][k.step] # "none"
        BY <2>0, <3>1
      <4>4. result[q] \in [Steps -> Results]
        BY DEF Typed, TypeOK
      <4> QED
        BY <4>1, <4>2, <4>3, <4>4
    <3> QED
      BY <1>0, <3>1, <3>2, CompleteStays
  <2>4. CASE CreatePlan(c) \/ ActRead(c) \/ ActCheck(c) \/ RecomputePunchFix(c)
             \/ AutoReadRequest(c) \/ AutoReadApproval(c) \/ AutoDecide(c)
             \/ CancelAudit(c)
    BY <1>2, <2>4 DEF CreatePlan, ActRead, ActCheck, RecomputePunchFix, AutoReadRequest,
                      AutoReadApproval, AutoDecide, CancelAudit, db
  <2> QED
    BY <1>3, <2>1, <2>2, <2>3, <2>4 DEF Continue
<1>4. ASSUME NEW c \in Calls, Start(c) \/ Crash(c)
      PROVE  Complete(q)'
  BY <1>2, <1>4 DEF Start, StartCreate, StartCancel, StartAct, Crash, db
<1>5. CASE Administer
  BY <1>2, <1>5 DEF Administer, CreateRoute, UpdateRoute, RemoveRoute, UpdateMember, db
<1>6. CASE UNCHANGED vars
  BY <1>2, <1>6 DEF vars
<1> QED
  BY <1>3, <1>4, <1>5, <1>6 DEF Next

(* However decisions of several handlers overlap, and even where a step is  *)
(* decided twice: a request is approved only after each of its steps was,   *)
(* and with its effects. recordDecision compares the number of the step it  *)
(* decides with the number of rows, and that is enough because the rows of  *)
(* the steps before it have all been approved.                              *)
THEOREM ApprovedAlwaysComplete == Spec => []ApprovedIsComplete
<1>1. Init => ApprovedIsComplete /\ DecidedSteps
  BY DEF Init, ApprovedIsComplete, DecidedSteps
<1>2. Typed /\ Progressed /\ DecidedSteps /\ [Next]_vars => DecidedSteps'
  BY NextDecidedSteps
<1>3. Typed /\ Progressed /\ RowsMatchAudit /\ DecidedSteps /\ ApprovedIsComplete /\ [Next]_vars
        => ApprovedIsComplete'
  BY NextComplete
<1>4. Spec => []Typed
  BY TypeCorrect DEF Typed
<1> QED
  BY <1>1, <1>2, <1>3, <1>4, AlwaysDeserved, RowsAlwaysMatch, HandlersProgressed, PTL DEF Spec

-----------------------------------------------------------------------------
(* One handler after another: the contract of RequestLifecycle              *)

OneHandler == \A c, d \in Calls : c = d

(* Every route has a step with a number requests may have.                  *)
RoutesWithin ==
  /\ 1 \in Steps
  /\ \A o \in InitRoutes \cup RouteOptions :
       o.steps = <<>> \/ \E i \in DOMAIN o.steps : o.steps[i].step \in Steps

(* The same of the routes as they are, wherever they come from.             *)
RoutesUsable ==
  /\ 1 \in Steps
  /\ \A o \in routes :
       o.steps = <<>> \/ \E i \in DOMAIN o.steps : o.steps[i].step \in Steps

SomeRow(rows) == \E s \in Steps : rows[s] # NoRow

(* Alone, what a handler read is what there is.                             *)
StillTrue(c) ==
  LET k == call[c] IN
  /\ k.pc \in Holding => status[k.req] = "pending" /\ k.step = currentStep[k.req]
  /\ k.pc = "cancel_write" => status[k.req] = "pending"
  /\ k.pc = "create_rows" => SomeRow(k.rows)

Undisturbed == \A c \in Calls : StillTrue(c)

LEMMA PlanHasRow ==
  ASSUME RoutesUsable, Typed, NEW kind, NEW plan \in ResolvePlan(routes, kind), NEW d
  PROVE  SomeRow(PlannedRows(plan, d))
<1>1. PICK s \in Steps : \E i \in DOMAIN plan.steps : plan.steps[i].step = s
  <2>1. ScopeStep(1).step = 1 /\ DOMAIN <<ScopeStep(1)>> = {1} /\ <<ScopeStep(1)>>[1] = ScopeStep(1)
    BY DEF ScopeStep
  <2>2. CASE plan.steps = <<ScopeStep(1)>>
    BY <2>1, <2>2 DEF RoutesUsable
  <2>3. CASE \E o \in routes : o.steps # <<>> /\ plan.steps = o.steps
    BY <2>3 DEF RoutesUsable
  <2>4. plan = DefaultPlan \/ \E o \in routes : plan = PlanOf(o)
    BY DEF ResolvePlan, FirstRoutes
  <2> QED
    BY <2>2, <2>3, <2>4 DEF DefaultPlan, PlanOf, ParseSteps
<1>2. FixedApprover(dir, StepOf(plan, s), d) # NoRow
  BY FixedApproverType, WorkflowAssumption DEF ApproverIds, Typed, TypeOK
<1>3. PlannedRows(plan, d)[s] # NoRow
  BY <1>1, <1>2 DEF PlannedRows
<1> QED
  BY <1>3 DEF SomeRow

LEMMA NextUndisturbed ==
  ASSUME OneHandler, RoutesUsable, Typed, Undisturbed, [Next]_vars
  PROVE  Undisturbed'
<1>1. ASSUME NEW c \in Calls, StillTrue(c)'
      PROVE  Undisturbed'
  BY <1>1 DEF OneHandler, Undisturbed
<1>2. ASSUME NEW c \in Calls, Continue(c)
      PROVE  StillTrue(c)'
  <2> DEFINE k == call[c]
  <2>0. /\ k \in CallStates /\ call \in [Calls -> CallStates]
        /\ k.pc # "idle" => k.req \in Requests
        /\ StillTrue(c)
    BY DEF Typed, TypeOK, Placed, Undisturbed
  <2>1. ASSUME call'[c].pc \in {"idle", "auto_request", "recompute", "cancel_audit"}
        PROVE  StillTrue(c)'
    BY <2>1 DEF StillTrue, Holding
  <2>2. CASE CreatePlan(c)
    <3>1. PICK plan \in ResolvePlan(routes, Kind[k.req]) : call' = [call EXCEPT ![c] =
            IF StepsDistinct(plan)
              THEN [@ EXCEPT !.pc = "create_rows",
                             !.rows = PlannedRows(plan, dir.dept[Owner[call[c].req]])]
              ELSE Idle]
      BY <2>2 DEF CreatePlan
    <3> DEFINE rows == PlannedRows(plan, dir.dept[Owner[k.req]])
               next == [k EXCEPT !.pc = "create_rows", !.rows = rows]
    <3>2. SomeRow(rows)
      BY <3>1, PlanHasRow
    <3>3. next.rows = rows /\ next.pc = "create_rows"
      <4> HIDE DEF rows
      <4> QED
        BY <2>0 DEF CallStates
    <3>4. call' = [call EXCEPT ![c] = next] \/ call' = [call EXCEPT ![c] = Idle]
      BY <3>1
    <3> HIDE DEF next, rows
    <3>5. call'[c] = next \/ call'[c] = Idle
      BY <2>0, <3>4
    <3> QED
      BY <3>2, <3>3, <3>5 DEF StillTrue, Holding, Idle
  <2>3. CASE CreateRows(c) \/ RecomputePunchFix(c) \/ CancelAudit(c) \/ RecordRejection(c)
             \/ RecordFinalApproval(c)
    <3> DEFINE next(w) == [Idle EXCEPT !.pc = w, !.req = k.req]
    <3>1. \/ call' = [call EXCEPT ![c] = Idle]
          \/ \E w \in {"auto_request", "recompute"} : call' = [call EXCEPT ![c] = next(w)]
      BY <2>3 DEF CreateRows, RecomputePunchFix, CancelAudit, RecordRejection,
                  RecordFinalApproval
    <3>2. Idle.pc = "idle" /\ \A w \in {"auto_request", "recompute"} : next(w).pc = w
      BY DEF Idle
    <3> HIDE DEF next
    <3>3. call'[c].pc \in {"idle", "auto_request", "recompute", "cancel_audit"}
      BY <2>0, <3>1, <3>2
    <3> QED
      BY <2>1, <3>3
  <2>4. CASE RecordAdvance(c)
    <3>1. call'[c] = AfterAdvance(k) /\ k.req \in Requests
      BY <2>0, <2>4 DEF RecordAdvance
    <3> QED
      BY <2>0, <2>1, <3>1, AfterAdvanceType
  <2>5. CASE CancelWrite(c)
    <3>1. call'[c].pc = "cancel_audit"
      BY <2>0, <2>5 DEF CancelWrite, CallStates
    <3> QED
      BY <2>1, <3>1
  <2>6. CASE ActRead(c)
    <3>1. UNCHANGED <<status, currentStep>> /\ k.pc = "act_read"
      BY <2>6 DEF ActRead, db
    <3>2. \/ call'[c].pc = "idle"
          \/ /\ call'[c].pc = "act_check" /\ call'[c].req = k.req /\ call'[c].step = k.step
             /\ Actionable(k.req, k.step)
      BY <2>0, <2>6 DEF ActRead, CallStates, Idle
    <3> QED
      BY <2>1, <3>1, <3>2 DEF StillTrue, Holding, Actionable
  <2>7. CASE ActCheck(c) \/ AutoDecide(c)
    <3>1. UNCHANGED <<status, currentStep>> /\ k.pc \in {"act_check", "auto_plan"}
      BY <2>7 DEF ActCheck, AutoDecide, db
    <3>2. \/ call' = [call EXCEPT ![c] = Idle]
          \/ call' = [call EXCEPT ![c] = [k EXCEPT !.pc = "decide"]]
      BY <2>7 DEF ActCheck, AutoDecide
    <3>3. \/ call'[c].pc = "idle"
          \/ call'[c].pc = "decide" /\ call'[c].req = k.req /\ call'[c].step = k.step
      BY <2>0, <3>2 DEF CallStates, Idle
    <3> QED
      BY <2>0, <2>1, <3>1, <3>3 DEF StillTrue, Holding
  <2>8. CASE AutoReadRequest(c)
    <3>1. UNCHANGED <<status, currentStep>> /\ k.pc = "auto_request"
      BY <2>8 DEF AutoReadRequest, db
    <3>2. \/ call'[c].pc = "idle"
          \/ /\ call'[c].pc = "auto_approval" /\ call'[c].req = k.req
             /\ call'[c].step = currentStep[k.req] /\ status[k.req] = "pending"
      BY <2>0, <2>8 DEF AutoReadRequest, CallStates, Idle
    <3> QED
      BY <2>1, <3>1, <3>2 DEF StillTrue, Holding
  <2>9. CASE AutoReadApproval(c)
    <3>1. UNCHANGED <<status, currentStep>> /\ k.pc = "auto_approval"
      BY <2>9 DEF AutoReadApproval, db
    <3>2. \/ call'[c].pc = "idle"
          \/ call'[c].pc = "auto_plan" /\ call'[c].req = k.req /\ call'[c].step = k.step
      BY <2>0, <2>9 DEF AutoReadApproval, CallStates, Idle
    <3> QED
      BY <2>0, <2>1, <3>1, <3>2 DEF StillTrue, Holding
  <2> QED
    BY <1>2, <2>2, <2>3, <2>4, <2>5, <2>6, <2>7, <2>8, <2>9 DEF Continue
<1>3. ASSUME NEW c \in Calls, Start(c)
      PROVE  StillTrue(c)'
  <2>1. ASSUME NEW r \in Requests, StartCancel(c, r)
        PROVE  StillTrue(c)'
    <3>1. call'[c].pc = "cancel_write" /\ call'[c].req = r /\ status'[r] = "pending"
      BY <2>1 DEF StartCancel, Typed, TypeOK, Idle, db
    <3> QED
      BY <3>1 DEF StillTrue, Holding
  <2>2. ASSUME call'[c].pc \in {"create_plan", "act_read"}
        PROVE  StillTrue(c)'
    BY <2>2 DEF StillTrue, Holding
  <2>3. ASSUME NEW r \in Requests, StartCreate(c, r)
        PROVE  call'[c].pc = "create_plan"
    BY <2>3 DEF StartCreate, Typed, TypeOK, Idle
  <2>4. ASSUME NEW u, NEW r, NEW s, NEW v, StartAct(c, u, r, s, v)
        PROVE  call'[c].pc = "act_read"
    BY <2>4 DEF StartAct, Typed, TypeOK, Idle
  <2> QED
    BY <1>3, <2>1, <2>2, <2>3, <2>4 DEF Start
<1>4. ASSUME NEW c \in Calls, Crash(c)
      PROVE  StillTrue(c)'
  BY <1>4 DEF Crash, Typed, TypeOK, Idle, StillTrue, Holding
<1>5. CASE Administer \/ UNCHANGED vars
  <2>1. UNCHANGED <<status, currentStep, call>>
    BY <1>5 DEF Administer, CreateRoute, UpdateRoute, RemoveRoute, UpdateMember, db, vars
  <2> QED
    BY <2>1 DEF Undisturbed, StillTrue
<1> QED
  BY <1>1, <1>2, <1>3, <1>4, <1>5 DEF Next

(* The steps of a request are counted by the rows it has.                   *)
LEMMA SameRowsSameTotal ==
  ASSUME NEW q \in Requests,
         \A s \in Steps : result'[q][s] # "none" <=> result[q][s] # "none"
  PROVE  TotalSteps(q)' = TotalSteps(q)
BY DEF TotalSteps

(* A decision as the contract knows it.                                     *)
LEMMA DecisionRefines ==
  ASSUME OneHandler, Typed, Progressed, RowsMatchAudit, DecidedSteps, Undisturbed,
         NEW c \in Calls, call[c].pc = "decide", WriteDecision(call[c])
  PROVE  /\ call[c].req \in Requests
         /\ status[call[c].req] = "pending"
         /\ currentStep[call[c].req] = call[c].step
         /\ \A q \in Requests : TotalSteps(q)' = TotalSteps(q)
         /\ call[c].step >= TotalSteps(call[c].req) => call[c].step = TotalSteps(call[c].req)
<1> DEFINE k == call[c]
           r == call[c].req
           S == {s \in Steps : result[r][s] # "none"}
<1>1. /\ r \in Requests /\ k.step \in Steps /\ k.step >= 1
      /\ \A q \in Requests, s \in Steps : result'[q][s] # "none" <=> result[q][s] # "none"
  BY DecisionKeepsRows
<1>2. status[r] = "pending" /\ currentStep[r] = k.step
  BY DEF Undisturbed, StillTrue, Holding
<1>3. \A q \in Requests : TotalSteps(q)' = TotalSteps(q)
  BY <1>1, SameRowsSameTotal
<1>4. ASSUME k.step >= TotalSteps(r)
      PROVE  k.step = TotalSteps(r)
  <2>1. S \subseteq 1..k.step
    BY <1>4, FinalStepIsLast
  <2>2. 1..k.step \subseteq S
    <3>1. Reached(audit[r], k.step) /\ result[r][k.step] # "none"
      BY DEF Progressed, CallInv, Holding, HasRow
    <3>2. ASSUME NEW m \in 1..k.step, m # k.step
          PROVE  m \in S
      <4>0. k.step \in Nat
        BY <1>1, WorkflowAssumption
      <4>1. m \in Nat /\ 1 <= m /\ m < k.step
        BY <3>2, <4>0
      <4>2. PICK i \in DOMAIN audit[r] : audit[r][i].action \in Approvals /\ audit[r][i].step = m
        BY <3>1, <4>1 DEF Reached, ApprovedIn
      <4>3. m \in Steps /\ DecidedAt(r, i, m)
        BY <1>1, <4>2 DEF DecidedSteps, Decisions, DecidedAt
      <4>4. result[r][m] \in Verdicts
        BY <1>1, <4>2, <4>3 DEF RowsMatchAudit
      <4> QED
        BY <4>3, <4>4 DEF Verdicts
    <3> QED
      BY <1>1, <3>1, <3>2
  <2>3. S = 1..k.step /\ k.step \in Nat
    BY <1>1, <2>1, <2>2, WorkflowAssumption
  <2> HIDE DEF S
  <2>4. Cardinality(S) = k.step
    BY <1>1, <2>3, FS_Interval
  <2> QED
    BY <2>4 DEF S, TotalSteps
<1> QED
  BY <1>1, <1>2, <1>3, <1>4

LEMMA StepRefines ==
  ASSUME OneHandler, Typed, Progressed, RowsMatchAudit, DecidedSteps, Undisturbed, [Next]_vars
  PROVE  [Lifecycle!Next]_(Lifecycle!vars)
<1> DEFINE total == [q \in Requests |-> TotalSteps(q)]
           Stutters == UNCHANGED <<status, currentStep, total, effects>>
<1>0. /\ status \in [Requests -> RequestStatuses]
      /\ currentStep \in [Requests -> Nat] /\ effects \in [Requests -> Nat]
  BY DEF Typed, TypeOK
<1>1. ASSUME UNCHANGED <<status, currentStep, result, effects>>
      PROVE  Stutters
  <2>1. total' = total
    BY <1>1 DEF TotalSteps
  <2> QED
    BY <1>1, <2>1
<1>2. Stutters => [Lifecycle!Next]_(Lifecycle!vars)
  BY DEF Lifecycle!vars
<1>3. ASSUME NEW c \in Calls, CreateRows(c)
      PROVE  Lifecycle!Next
  <2> DEFINE k == call[c]
             r == call[c].req
  <2>1. k.pc = "create_rows" /\ r \in Requests /\ status[r] = "none"
    BY <1>3 DEF CreateRows, Typed, Placed
  <2>2. /\ status' = [status EXCEPT ![r] = "pending"]
        /\ currentStep' = [currentStep EXCEPT ![r] = 1]
        /\ effects' = effects
    BY <1>3 DEF CreateRows
  <2>3. /\ \A s \in Steps : result'[r][s] = IF k.rows[s] = NoRow THEN "none" ELSE "pending"
        /\ \A q \in Requests : q # r => result'[q] = result[q]
    BY <1>3, <2>1 DEF CreateRows, Typed, TypeOK
  <2>4. ASSUME NEW q \in Requests, q # r
        PROVE  TotalSteps(q)' = TotalSteps(q)
    BY <2>3, <2>4 DEF TotalSteps
  <2> DEFINE S == {s \in Steps : result'[r][s] # "none"}
             new == Cardinality(S)
  <2>5. new \in Nat \ {0}
    <3>1. PICK s \in Steps : k.rows[s] # NoRow
      BY <2>1 DEF Undisturbed, StillTrue, SomeRow
    <3>2. s \in S
      BY <2>3, <3>1
    <3>3. IsFiniteSet(S)
      BY WorkflowAssumption, FS_Subset
    <3> HIDE DEF S
    <3> QED
      BY <3>2, <3>3, FS_CardinalityType, FS_EmptySet
  <2>6. ASSUME NEW q \in Requests, q = r
        PROVE  TotalSteps(q)' = new
    BY <2>6 DEF TotalSteps
  <2> HIDE DEF new
  <2>7. total' = [total EXCEPT ![r] = new] /\ total'[r] = new
    BY <2>1, <2>4, <2>6
  <2>8. Lifecycle!File(r)
    BY <2>1, <2>2, <2>5, <2>7 DEF Lifecycle!File
  <2> QED
    BY <2>1, <2>8 DEF Lifecycle!Next
<1>4. ASSUME NEW c \in Calls,
             RecordRejection(c) \/ RecordFinalApproval(c) \/ RecordAdvance(c)
      PROVE  Lifecycle!Next
  <2> DEFINE k == call[c]
             r == call[c].req
  <2>1. k.pc = "decide" /\ WriteDecision(k)
    BY <1>4 DEF RecordRejection, RecordFinalApproval, RecordAdvance
  <2>2. /\ r \in Requests /\ status[r] = "pending" /\ currentStep[r] = k.step
        /\ \A q \in Requests : TotalSteps(q)' = TotalSteps(q)
        /\ k.step >= TotalSteps(r) => k.step = TotalSteps(r)
    BY <2>1, DecisionRefines
  <2>3. total' = total /\ total[r] = TotalSteps(r)
    BY <2>2
  <2>4. CASE RecordRejection(c)
    <3>1. Lifecycle!Refuse(r, "rejected")
      BY <2>2, <2>3, <2>4 DEF RecordRejection, Lifecycle!Refuse
    <3> QED
      BY <2>2, <3>1 DEF Lifecycle!Next
  <2>5. CASE RecordFinalApproval(c)
    <3>1. Lifecycle!Approve(r)
      BY <2>2, <2>3, <2>5 DEF RecordFinalApproval, Lifecycle!Approve
    <3> QED
      BY <2>2, <3>1 DEF Lifecycle!Next
  <2>6. CASE RecordAdvance(c)
    <3>1. currentStep' = [currentStep EXCEPT ![r] = @ + 1]
      BY <2>2, <2>6 DEF RecordAdvance
    <3>2. Lifecycle!Advance(r)
      BY <2>2, <2>3, <2>6, <3>1 DEF RecordAdvance, Lifecycle!Advance
    <3> QED
      BY <2>2, <3>2 DEF Lifecycle!Next
  <2> QED
    BY <1>4, <2>4, <2>5, <2>6
<1>5. ASSUME NEW c \in Calls, CancelWrite(c)
      PROVE  Lifecycle!Next
  <2> DEFINE r == call[c].req
  <2>1. r \in Requests /\ status[r] = "pending"
    BY <1>5 DEF CancelWrite, Typed, Placed, Undisturbed, StillTrue
  <2>2. /\ status' = [status EXCEPT ![r] = "canceled"]
        /\ UNCHANGED <<currentStep, result, effects>>
    BY <1>5 DEF CancelWrite
  <2>3. total' = total
    BY <2>2 DEF TotalSteps
  <2>4. Lifecycle!Refuse(r, "canceled")
    BY <2>1, <2>2, <2>3 DEF Lifecycle!Refuse
  <2> QED
    BY <2>1, <2>4 DEF Lifecycle!Next
<1>6. ASSUME NEW c \in Calls,
             \/ CreatePlan(c) \/ ActRead(c) \/ ActCheck(c) \/ RecomputePunchFix(c)
             \/ AutoReadRequest(c) \/ AutoReadApproval(c) \/ AutoDecide(c) \/ CancelAudit(c)
             \/ Start(c) \/ Crash(c)
      PROVE  UNCHANGED <<status, currentStep, result, effects>>
  BY <1>6 DEF CreatePlan, ActRead, ActCheck, RecomputePunchFix, AutoReadRequest,
       AutoReadApproval, AutoDecide, CancelAudit, Start, StartCreate, StartCancel, StartAct,
       Crash, db
<1>7. ASSUME Administer \/ UNCHANGED vars
      PROVE  UNCHANGED <<status, currentStep, result, effects>>
  BY <1>7 DEF Administer, CreateRoute, UpdateRoute, RemoveRoute, UpdateMember, db, vars
<1> QED
  BY <1>1, <1>2, <1>3, <1>4, <1>5, <1>6, <1>7 DEF Next, Continue

LEMMA InitRefines == Init => Lifecycle!Init
<1> SUFFICES ASSUME Init
             PROVE  Lifecycle!Init
  OBVIOUS
<1>1. ASSUME NEW q \in Requests
      PROVE  TotalSteps(q) = 0
  <2>1. {s \in Steps : result[q][s] # "none"} = {}
    BY DEF Init
  <2> QED
    BY <2>1, FS_EmptySet DEF TotalSteps
<1> QED
  BY <1>1 DEF Init, Lifecycle!Init

(* Handlers that run one after another, lost or not, under routes with at   *)
(* least one usable step: the workflow is the contract of a request's life. *)
(* A request is filed with the steps its plan has, passes them one by one,  *)
(* and ends once, its effects applied exactly if it was approved.           *)
THEOREM AloneImplementsLifecycle == OneHandler /\ RoutesWithin => (Spec => ImplementsLifecycle)
<1> SUFFICES ASSUME OneHandler, RoutesWithin
             PROVE  Spec => ImplementsLifecycle
  OBVIOUS
<1>1. Init => Lifecycle!Init
  BY InitRefines
<1>2. Init => Undisturbed /\ DecidedSteps
  BY DEF Init, Idle, Undisturbed, StillTrue, Holding, DecidedSteps
<1>3. Typed /\ RoutesUsable /\ Undisturbed /\ [Next]_vars => Undisturbed'
  BY NextUndisturbed
<1>4. Typed /\ Progressed /\ DecidedSteps /\ [Next]_vars => DecidedSteps'
  BY NextDecidedSteps
<1>5. Typed /\ Progressed /\ RowsMatchAudit /\ DecidedSteps /\ Undisturbed /\ [Next]_vars
        => [Lifecycle!Next]_(Lifecycle!vars)
  BY StepRefines
<1>6. Spec => []Typed
  BY TypeCorrect DEF Typed
<1>7. Deserved => RoutesUsable
  BY DEF Deserved, RoutesKnown, RoutesWithin, RoutesUsable
<1> QED
  BY <1>1, <1>2, <1>3, <1>4, <1>5, <1>6, <1>7, HandlersProgressed, RowsAlwaysMatch,
     AlwaysDeserved, PTL DEF Spec, ImplementsLifecycle, Lifecycle!Spec
-----------------------------------------------------------------------------
(* A request nobody works on waits for somebody                             *)

(* Nothing changes under the requests: no administration, no handler lost,  *)
(* routes that leave no choice of plan and have fewer steps than autoResolve *)
(* has iterations. And whoever a step is fixed to may approve and see the   *)
(* applicant: the property fails without (see the README).                  *)
Settled ==
  /\ RouteOptions = {} /\ MemberOptions = {} /\ ~MayCrash
  /\ Cardinality(Steps) < LoopLimit
  /\ \A q \in Requests : \A p1, p2 \in ResolvePlan(InitRoutes, Kind[q]) : p1 = p2
  /\ \A d \in InitDirectories, q \in Requests, s \in Steps :
       \A plan \in ResolvePlan(InitRoutes, Kind[q]) :
         FixedApprover(d, StepOf(plan, s), d.dept[Owner[q]])
           \in EligibleApprovers(d, Owner[q], d.dept[Owner[q]]) \cup {NoUser}

Unchanging == dir \in InitDirectories /\ routes = InitRoutes

(* u is the approver step s of request q is fixed to.                       *)
AsFixed(q, s, u) ==
  \A plan \in ResolvePlan(routes, Kind[q]) :
    u = FixedApprover(dir, StepOf(plan, s), dir.dept[Owner[q]])

RowsAsFixed ==
  \A q \in Requests, s \in Steps : result[q][s] = "pending" => AsFixed(q, s, approverId[q][s])

DecidedRows(q) == {s \in Steps : result[q][s] \in Verdicts}

Automatic(k) == k.pc = "auto_plan" \/ (k.pc = "decide" /\ k.actor = NoUser)

(* autoResolve works with the department the applicant is in, and has not   *)
(* gone through its loop more often than steps are decided.                 *)
AutoInv(d) ==
  LET k == call[d] IN
  /\ k.pc = "create_rows" =>
       \A s \in Steps : k.rows[s] # NoRow => AsFixed(k.req, s, k.rows[s])
  /\ k.pc \in {"auto_request", "auto_approval", "auto_plan"} => k.actor = NoUser
  /\ k.pc \in {"auto_approval", "auto_plan"} => k.dept = dir.dept[Owner[k.req]]
  /\ k.pc \in {"auto_request", "auto_approval"} =>
       k.guard <= Cardinality(DecidedRows(k.req))
  /\ Automatic(k) => k.guard <= Cardinality(DecidedRows(k.req) \ {k.step})

(* A handler that will look at the current step of request q.               *)
Attends(d, q) ==
  LET k == call[d] IN
  /\ k.req = q
  /\ \/ k.pc = "auto_request"
     \/ k.step = currentStep[q] /\ (k.pc = "auto_approval" \/ Automatic(k))

Attended == \A q \in Requests : Orphaned(q) => \E d \in Calls : Attends(d, q)

SettledInv ==
  Unchanging /\ RowsAsFixed /\ (\A d \in Calls : AutoInv(d)) /\ Attended

LEMMA ConfStays ==
  ASSUME Settled, [Next]_vars
  PROVE  UNCHANGED conf /\ ~\E c \in Calls : Crash(c)
<1>1. ASSUME NEW c \in Calls, Start(c) \/ Continue(c)
      PROVE  UNCHANGED conf
  <2>1. CASE Start(c)
    <3>1. ASSUME NEW r \in Requests, StartCreate(c, r) \/ StartCancel(c, r)
          PROVE  UNCHANGED conf
      BY <3>1 DEF StartCreate, StartCancel
    <3>2. ASSUME NEW u \in Users, NEW r \in Requests, NEW s \in Steps, NEW v \in Verdicts,
                 StartAct(c, u, r, s, v)
          PROVE  UNCHANGED conf
      BY <3>2 DEF StartAct
    <3> QED
      BY <2>1, <3>1, <3>2 DEF Start
  <2>2. CASE CreatePlan(c) \/ ActRead(c) \/ ActCheck(c) \/ CreateRows(c)
    <3>1. CASE ActRead(c)
      BY <3>1 DEF ActRead
    <3>2. CASE ActCheck(c)
      BY <3>2 DEF ActCheck
    <3>3. CASE CreatePlan(c)
      BY <3>3 DEF CreatePlan
    <3>4. CASE CreateRows(c)
      BY <3>4 DEF CreateRows
    <3> QED
      BY <2>2, <3>1, <3>2, <3>3, <3>4
  <2>3. CASE RecordRejection(c) \/ RecordFinalApproval(c) \/ RecordAdvance(c)
    BY <2>3 DEF RecordRejection, RecordFinalApproval, RecordAdvance, WriteDecision
  <2>4. CASE RecomputePunchFix(c) \/ AutoReadRequest(c) \/ AutoReadApproval(c)
             \/ AutoDecide(c) \/ CancelWrite(c) \/ CancelAudit(c)
    BY <2>4 DEF RecomputePunchFix, AutoReadRequest, AutoReadApproval, AutoDecide,
                CancelWrite, CancelAudit
  <2> QED
    BY <1>1, <2>1, <2>2, <2>3, <2>4 DEF Continue
<1>2. ~\E c \in Calls : Crash(c)
  BY DEF Settled, Crash
<1>3. ~Administer
  BY DEF Settled, Administer
<1>4. CASE UNCHANGED vars
  BY <1>2, <1>4 DEF vars, conf
<1> QED
  BY <1>1, <1>2, <1>3, <1>4 DEF Next

LEMMA OneMoves ==
  ASSUME Typed, NEW c \in Calls, Continue(c)
  PROVE  \A d \in Calls : d # c => call'[d] = call[d]
<1>0. call \in [Calls -> CallStates]
  BY DEF Typed, TypeOK
<1>1. \E k : call' = [call EXCEPT ![c] = k]
  <2>1. CASE CreatePlan(c) \/ ActRead(c) \/ ActCheck(c)
    <3>1. CASE ActRead(c)
      BY <3>1 DEF ActRead
    <3>2. CASE ActCheck(c)
      BY <3>2 DEF ActCheck
    <3>3. CASE CreatePlan(c)
      BY <3>3 DEF CreatePlan
    <3> QED
      BY <2>1, <3>1, <3>2, <3>3
  <2>2. CASE RecordRejection(c) \/ RecordAdvance(c) \/ CancelAudit(c) \/ CreateRows(c)
    BY <2>2 DEF CreateRows, RecordRejection, RecordAdvance, CancelAudit
  <2>3. CASE RecordFinalApproval(c) \/ RecomputePunchFix(c)
    BY <2>3 DEF RecordFinalApproval, RecomputePunchFix
  <2>4. CASE AutoReadRequest(c) \/ AutoReadApproval(c) \/ AutoDecide(c) \/ CancelWrite(c)
    BY <2>4 DEF AutoReadRequest, AutoReadApproval, AutoDecide, CancelWrite
  <2> QED
    BY <2>1, <2>2, <2>3, <2>4 DEF Continue
<1> QED
  BY <1>0, <1>1

(* Only two kinds of steps write approval rows.                             *)
LEMMA RowWriters ==
  ASSUME Typed, NEW c \in Calls, Continue(c)
  PROVE  \/ UNCHANGED <<result, approverId>>
         \/ CreateRows(c)
         \/ call[c].pc = "decide" /\ WriteDecision(call[c])
<1>1. CASE CreatePlan(c) \/ ActRead(c) \/ ActCheck(c) \/ RecomputePunchFix(c)
           \/ AutoReadRequest(c) \/ AutoReadApproval(c) \/ AutoDecide(c)
  <2>1. UNCHANGED db
    <3>1. CASE ActRead(c)
      BY <3>1 DEF ActRead
    <3>2. CASE ActCheck(c)
      BY <3>2 DEF ActCheck
    <3>3. CASE CreatePlan(c)
      BY <3>3 DEF CreatePlan
    <3>4. CASE RecomputePunchFix(c) \/ AutoReadRequest(c)
      BY <3>4 DEF RecomputePunchFix, AutoReadRequest
    <3>5. CASE AutoReadApproval(c) \/ AutoDecide(c)
      BY <3>5 DEF AutoReadApproval, AutoDecide
    <3> QED
      BY <1>1, <3>1, <3>2, <3>3, <3>4, <3>5
  <2> QED
    BY <2>1 DEF db
<1>2. CASE CancelWrite(c) \/ CancelAudit(c)
  BY <1>2 DEF CancelWrite, CancelAudit
<1>3. CASE RecordRejection(c) \/ RecordFinalApproval(c) \/ RecordAdvance(c)
  BY <1>3 DEF RecordRejection, RecordFinalApproval, RecordAdvance
<1> QED
  BY <1>1, <1>2, <1>3 DEF Continue

LEMMA QuietSteps ==
  ASSUME Settled, [Next]_vars, ~\E c \in Calls : Continue(c)
  PROVE  UNCHANGED <<db, conf>>
<1>1. UNCHANGED conf /\ ~\E c \in Calls : Crash(c)
  BY ConfStays
<1>2. ASSUME NEW c \in Calls, Start(c)
      PROVE  UNCHANGED db
  <2>1. ASSUME NEW r \in Requests, StartCreate(c, r) \/ StartCancel(c, r)
        PROVE  UNCHANGED db
    BY <2>1 DEF StartCreate, StartCancel
  <2>2. ASSUME NEW u \in Users, NEW r \in Requests, NEW s \in Steps, NEW v \in Verdicts,
               StartAct(c, u, r, s, v)
        PROVE  UNCHANGED db
    BY <2>2 DEF StartAct
  <2> QED
    BY <1>2, <2>1, <2>2 DEF Start
<1>3. ~Administer
  BY DEF Settled, Administer
<1>4. CASE UNCHANGED vars
  <2>1. UNCHANGED db
    BY <1>4 DEF vars, db
  <2> QED
    BY <1>1, <2>1
<1> QED
  BY <1>1, <1>2, <1>3, <1>4 DEF Next

LEMMA DecidedRowsGrow ==
  ASSUME Settled, Typed, Progressed, [Next]_vars
  PROVE  \A q \in Requests, s \in Steps : result[q][s] \in Verdicts => result'[q][s] \in Verdicts
<1>0. CASE UNCHANGED result
  BY <1>0
<1>1. ASSUME NEW c \in Calls, CreateRows(c)
      PROVE  \A q \in Requests, s \in Steps :
               result[q][s] \in Verdicts => result'[q][s] \in Verdicts
  <2>1. status[call[c].req] = "none" /\ \A q \in Requests : q # call[c].req => result'[q] = result[q]
    BY <1>1 DEF CreateRows, Typed, TypeOK
  <2>2. \A s \in Steps : call[c].req \in Requests => result[call[c].req][s] \notin Verdicts
    BY <2>1 DEF Progressed, Fresh, Verdicts
  <2> QED
    BY <2>1, <2>2
<1>2. ASSUME NEW c \in Calls, call[c].pc = "decide", WriteDecision(call[c])
      PROVE  \A q \in Requests, s \in Steps :
               result[q][s] \in Verdicts => result'[q][s] \in Verdicts
  <2>1. call[c].verdict \in Verdicts
    BY DEF Typed, TypeOK, CallStates
  <2> QED
    BY <1>2, <2>1 DEF WriteDecision, Typed, TypeOK
<1>3. CASE ~\E c \in Calls : Continue(c)
  BY <1>0, <1>3, QuietSteps DEF db
<1> QED
  BY <1>0, <1>1, <1>2, <1>3, RowWriters

LEMMA StepSets ==
  ASSUME NEW T \in SUBSET Steps, NEW U \in SUBSET T
  PROVE  /\ IsFiniteSet(T) /\ Cardinality(T) \in Nat /\ Cardinality(T) <= Cardinality(Steps)
         /\ Cardinality(U) \in Nat /\ Cardinality(U) <= Cardinality(T)
<1>1. IsFiniteSet(T) /\ Cardinality(T) <= Cardinality(Steps)
  BY WorkflowAssumption, FS_Subset
<1> QED
  BY <1>1, FS_Subset, FS_CardinalityType

(* The set of decided rows as it is and as it will be.                      *)
LEMMA DecidedCount ==
  ASSUME Settled, Typed, Progressed, [Next]_vars, NEW q \in Requests, NEW s
  PROVE  /\ Cardinality(DecidedRows(q)) \in Nat
         /\ Cardinality(DecidedRows(q)) <= Cardinality(DecidedRows(q)')
         /\ Cardinality(DecidedRows(q)') \in Nat
         /\ Cardinality(DecidedRows(q) \ {s}) <= Cardinality(DecidedRows(q)' \ {s})
         /\ Cardinality(DecidedRows(q)' \ {s}) \in Nat
         /\ Cardinality(DecidedRows(q) \ {s}) \in Nat
<1>1. DecidedRows(q) \in SUBSET DecidedRows(q)' /\ DecidedRows(q)' \in SUBSET Steps
  BY DecidedRowsGrow DEF DecidedRows
<1> DEFINE D == DecidedRows(q)
           E == DecidedRows(q)'
<1>2. E \in SUBSET Steps /\ D \in SUBSET E /\ D \ {s} \in SUBSET (E \ {s}) /\ E \ {s} \in SUBSET Steps
  BY <1>1
<1> HIDE DEF D, E
<1>3. Cardinality(D) \in Nat /\ Cardinality(D) <= Cardinality(E) /\ Cardinality(E) \in Nat
  BY <1>2, StepSets
<1>4. Cardinality(D \ {s}) \in Nat /\ Cardinality(D \ {s}) <= Cardinality(E \ {s}) /\ Cardinality(E \ {s}) \in Nat
  BY <1>2, StepSets
<1> QED
  BY <1>3, <1>4 DEF D, E

LEMMA AsFixedStays ==
  ASSUME UNCHANGED conf, NEW q, NEW s, NEW u, AsFixed(q, s, u)
  PROVE  AsFixed(q, s, u)'
BY DEF AsFixed, conf

(* A handler that does not move.                                            *)
LEMMA OtherAuto ==
  ASSUME Settled, Typed, Progressed, [Next]_vars, UNCHANGED conf,
         NEW d \in Calls, AutoInv(d), call'[d] = call[d]
  PROVE  AutoInv(d)'
<1>1. PICK k \in CallStates : k = call[d]
  BY DEF Typed, TypeOK
<1>2. k.pc # "idle" => k.req \in Requests
  BY <1>1 DEF Typed, Placed
<1>3. ASSUME k.pc = "create_rows", NEW s \in Steps, k.rows[s] # NoRow
      PROVE  AsFixed(k.req, s, k.rows[s])'
  BY <1>1, <1>3, AsFixedStays DEF AutoInv
<1>4. dir' = dir
  BY DEF conf
<1>5. k.guard \in Nat
  BY DEF CallStates
<1>6. k.pc \in {"auto_request", "auto_approval"} => k.guard <= Cardinality(DecidedRows(k.req)')
  <2>1. SUFFICES ASSUME k.pc \in {"auto_request", "auto_approval"}
                 PROVE  k.guard <= Cardinality(DecidedRows(k.req)')
    OBVIOUS
  <2>2. k.guard <= Cardinality(DecidedRows(k.req)) /\ k.req \in Requests
    BY <1>1, <1>2, <2>1 DEF AutoInv
  <2>3. /\ Cardinality(DecidedRows(k.req)) \in Nat
        /\ Cardinality(DecidedRows(k.req)) <= Cardinality(DecidedRows(k.req)')
        /\ Cardinality(DecidedRows(k.req)') \in Nat
    BY <2>2, DecidedCount
  <2> QED
    BY <1>5, <2>2, <2>3
<1>7. Automatic(k) => k.guard <= Cardinality(DecidedRows(k.req)' \ {k.step})
  <2>1. SUFFICES ASSUME Automatic(k)
                 PROVE  k.guard <= Cardinality(DecidedRows(k.req)' \ {k.step})
    OBVIOUS
  <2>2. k.guard <= Cardinality(DecidedRows(k.req) \ {k.step}) /\ k.req \in Requests
    BY <1>1, <1>2, <2>1 DEF AutoInv, Automatic
  <2>3. /\ Cardinality(DecidedRows(k.req) \ {k.step}) <= Cardinality(DecidedRows(k.req)' \ {k.step})
        /\ Cardinality(DecidedRows(k.req)' \ {k.step}) \in Nat
        /\ Cardinality(DecidedRows(k.req) \ {k.step}) \in Nat
    BY <2>2, DecidedCount
  <2> QED
    BY <1>5, <2>2, <2>3
<1> QED
  BY <1>1, <1>3, <1>4, <1>6, <1>7 DEF AutoInv

(* One plan for a request of each kind.                                     *)
LEMMA OnePlan ==
  ASSUME Settled, Unchanging, NEW q \in Requests
  PROVE  /\ ResolvePlan(routes, Kind[q]) # {}
         /\ \A p1, p2 \in ResolvePlan(routes, Kind[q]) : p1 = p2
<1>1. \A p1, p2 \in ResolvePlan(routes, Kind[q]) : p1 = p2
  BY DEF Settled, Unchanging
<1>2. ResolvePlan(routes, Kind[q]) # {}
  BY DEF ResolvePlan
<1> QED
  BY <1>1, <1>2

LEMMA RowsStayFixed ==
  ASSUME Settled, Typed, RowsAsFixed, \A d \in Calls : AutoInv(d), [Next]_vars
  PROVE  RowsAsFixed'
<1>0. UNCHANGED conf
  BY ConfStays
<1>1. ASSUME \A q \in Requests, s \in Steps : result'[q][s] = "pending" =>
               AsFixed(q, s, approverId'[q][s])
      PROVE  RowsAsFixed'
  BY <1>0, <1>1, AsFixedStays DEF RowsAsFixed
<1>2. CASE UNCHANGED <<result, approverId>>
  BY <1>1, <1>2 DEF RowsAsFixed
<1>3. ASSUME NEW c \in Calls, CreateRows(c)
      PROVE  RowsAsFixed'
  <2>1. PICK r \in Requests : r = call[c].req
    BY <1>3 DEF CreateRows, Typed, Placed
  <2>2. PICK rows \in [Steps -> ApproverIds \cup {NoRow}] : rows = call[c].rows
    BY DEF Typed, TypeOK, CallStates
  <2>3. /\ result'[r] = [s \in Steps |-> IF rows[s] = NoRow THEN "none" ELSE "pending"]
        /\ approverId'[r] = [s \in Steps |-> IF rows[s] = NoRow THEN NoUser ELSE rows[s]]
        /\ \A q \in Requests : q # r => result'[q] = result[q] /\ approverId'[q] = approverId[q]
    BY <1>3, <2>1, <2>2 DEF CreateRows, Typed, TypeOK
  <2>4. \A s \in Steps : rows[s] # NoRow => AsFixed(r, s, rows[s])
    BY <1>3, <2>1, <2>2 DEF AutoInv, CreateRows
  <2>5. \A s \in Steps : result'[r][s] = "pending" => AsFixed(r, s, approverId'[r][s])
    BY <2>3, <2>4
  <2>6. \A q \in Requests, s \in Steps : q # r /\ result'[q][s] = "pending" =>
          AsFixed(q, s, approverId'[q][s])
    BY <2>3 DEF RowsAsFixed
  <2> QED
    BY <1>1, <2>5, <2>6
<1>4. ASSUME NEW c \in Calls, call[c].pc = "decide", WriteDecision(call[c])
      PROVE  RowsAsFixed'
  <2>1. call[c].verdict # "pending"
    BY DEF Typed, TypeOK, CallStates, Verdicts
  <2>2. ASSUME NEW q \in Requests, NEW s \in Steps, result'[q][s] = "pending"
        PROVE  result[q][s] = "pending" /\ approverId'[q][s] = approverId[q][s]
    BY <1>4, <2>1, <2>2 DEF WriteDecision, Typed, TypeOK
  <2> QED
    BY <1>1, <2>2 DEF RowsAsFixed
<1>5. CASE ~\E c \in Calls : Continue(c)
  BY <1>2, <1>5, QuietSteps DEF db
<1> QED
  BY <1>2, <1>3, <1>4, <1>5, RowWriters

(* A handler in a wait of which AutoInv says nothing.                       *)
LEMMA SilentAuto ==
  ASSUME NEW d \in Calls,
         call'[d].pc \in {"idle", "recompute", "cancel_write", "cancel_audit", "create_plan",
                          "act_read", "act_check"}
  PROVE  AutoInv(d)'
BY DEF AutoInv, Automatic

(* After a decision autoResolve is not yet at the end of its loop.          *)
LEMMA LoopGoesOn ==
  ASSUME Settled, Typed, Progressed, SettledInv, [Next]_vars,
         NEW c \in Calls, RecordAdvance(c)
  PROVE  /\ call'[c].pc = "auto_request" /\ call'[c].req = call[c].req
         /\ call'[c].actor = NoUser
         /\ call'[c].guard <= Cardinality(DecidedRows(call[c].req)')
<1>1. PICK k \in CallStates : k = call[c] /\ k.pc = "decide" /\ k.verdict = "approved"
  BY DEF Typed, TypeOK, RecordAdvance
<1>2. PICK q \in Requests : q = k.req /\ k.step \in Steps
  BY <1>1 DEF Typed, Placed, Deciding
<1> DEFINE D == DecidedRows(q)
           E == DecidedRows(q)'
           iteration == IF k.actor = NoUser THEN k.guard + 1 ELSE 0
           next == [Idle EXCEPT !.pc = "auto_request", !.req = k.req, !.guard = iteration]
<1>3. k.step \in E
  <2>1. result' = [result EXCEPT ![k.req] = [@ EXCEPT ![k.step] = k.verdict]]
    BY <1>1 DEF RecordAdvance, WriteDecision
  <2>2. result'[q][k.step] = "approved"
    BY <1>1, <1>2, <2>1 DEF Typed, TypeOK
  <2> QED
    BY <1>2, <2>2 DEF DecidedRows, Verdicts
<1>4. k.actor = NoUser => k.guard <= Cardinality(E \ {k.step})
  <2>1. SUFFICES ASSUME k.actor = NoUser
                 PROVE  k.guard <= Cardinality(E \ {k.step})
    OBVIOUS
  <2>2. k.guard <= Cardinality(D \ {k.step})
    BY <1>1, <1>2, <2>1 DEF SettledInv, AutoInv, Automatic
  <2>3. /\ Cardinality(D \ {k.step}) <= Cardinality(E \ {k.step})
        /\ Cardinality(E \ {k.step}) \in Nat /\ Cardinality(D \ {k.step}) \in Nat
    BY DecidedCount
  <2>4. k.guard \in Nat
    BY DEF CallStates
  <2> QED
    BY <2>2, <2>3, <2>4
<1>5. E \in SUBSET Steps
  BY DEF DecidedRows
<1> HIDE DEF D, E
<1>6. Cardinality(E) = Cardinality(E \ {k.step}) + 1 /\ Cardinality(E \ {k.step}) \in Nat
  <2>1. IsFiniteSet(E) /\ Cardinality(E) \in Nat
    BY <1>5, StepSets
  <2>2. Cardinality(E \ {k.step}) = Cardinality(E) - 1
    BY <1>3, <2>1, FS_RemoveElement
  <2>3. Cardinality(E \ {k.step}) \in Nat
    BY <1>5, StepSets
  <2> QED
    BY <2>1, <2>2, <2>3
<1>7. Cardinality(E) \in Nat /\ Cardinality(E) <= Cardinality(Steps)
  BY <1>5, StepSets
<1>8. Cardinality(Steps) \in Nat /\ Cardinality(Steps) < LoopLimit /\ LoopLimit \in Nat
  BY WorkflowAssumption, FS_CardinalityType DEF Settled
<1>9. iteration \in Nat /\ iteration <= Cardinality(E) /\ iteration < LoopLimit
  <2>1. k.guard \in Nat
    BY DEF CallStates
  <2>2. CASE k.actor = NoUser
    BY <1>4, <1>6, <1>7, <1>8, <2>1, <2>2
  <2>3. CASE k.actor # NoUser
    BY <1>7, <1>8, <2>3
  <2> QED
    BY <2>2, <2>3
<1>10. /\ next.pc = "auto_request" /\ next.req = q /\ next.actor = NoUser
       /\ next.guard = iteration
  <2> HIDE DEF iteration
  <2> QED
    BY <1>2 DEF Idle
<1>11. AfterAdvance(k) = next
  BY <1>9 DEF AfterAdvance
<1> HIDE DEF next, iteration
<1>12. call'[c] = next
  BY <1>1, <1>11 DEF RecordAdvance, Typed, TypeOK
<1> QED
  BY <1>1, <1>2, <1>9, <1>10, <1>12 DEF E

LEMMA MovingAuto ==
  ASSUME Settled, Typed, Progressed, SettledInv, [Next]_vars,
         NEW c \in Calls, Continue(c)
  PROVE  AutoInv(c)'
<1>0. UNCHANGED conf
  BY ConfStays
<1>k. PICK k \in CallStates : k = call[c]
  BY DEF Typed, TypeOK
<1>c. call \in [Calls -> CallStates]
  BY DEF Typed, TypeOK
<1>d. dir' = dir
  BY <1>0 DEF conf
<1>i. Idle.pc = "idle"
  BY DEF Idle
<1>1. CASE ActRead(c)
  <2>1. call'[c].pc \in {"idle", "act_check"}
    BY <1>1, <1>c, <1>i DEF ActRead, CallStates
  <2> QED
    BY <2>1, SilentAuto
<1>2. CASE RecordRejection(c) \/ RecomputePunchFix(c) \/ CancelAudit(c)
  <2>1. call'[c] = Idle
    BY <1>2, <1>c DEF RecordRejection, RecomputePunchFix, CancelAudit
  <2> QED
    BY <1>i, <2>1, SilentAuto
<1>3. CASE RecordFinalApproval(c)
  <2> DEFINE next == [Idle EXCEPT !.pc = "recompute", !.req = k.req]
  <2>1. call' = [call EXCEPT ![c] = next] \/ call' = [call EXCEPT ![c] = Idle]
    BY <1>3, <1>k DEF RecordFinalApproval
  <2>2. next.pc = "recompute"
    BY DEF Idle
  <2> HIDE DEF next
  <2>3. call'[c] = next \/ call'[c] = Idle
    BY <1>c, <2>1
  <2> QED
    BY <1>i, <2>2, <2>3, SilentAuto
<1>4. CASE CancelWrite(c)
  <2>1. call'[c].pc = "cancel_audit"
    BY <1>4, <1>c DEF CancelWrite, CallStates
  <2> QED
    BY <2>1, SilentAuto
<1>5. CASE ActCheck(c)
  <2>1. k.pc = "act_check" /\ k.actor # NoUser
    BY <1>5, <1>k, NullsAreNotIds DEF ActCheck, Typed, Placed
  <2>2. call' = [call EXCEPT ![c] = Idle] \/ call' = [call EXCEPT ![c] = [k EXCEPT !.pc = "decide"]]
    BY <1>5, <1>k DEF ActCheck
  <2>3. call'[c] = Idle \/ (call'[c].pc = "decide" /\ call'[c].actor = k.actor)
    BY <1>c, <2>2 DEF CallStates
  <2>4. CASE call'[c] = Idle
    BY <1>i, <2>4, SilentAuto
  <2>5. CASE call'[c].pc = "decide" /\ call'[c].actor = k.actor
    BY <2>1, <2>5 DEF AutoInv, Automatic
  <2> QED
    BY <2>3, <2>4, <2>5
<1>6. CASE CreatePlan(c)
  <2>1. PICK q \in Requests : q = k.req
    BY <1>6, <1>k DEF CreatePlan, Typed, Placed
  <2>2. PICK plan \in ResolvePlan(routes, Kind[call[c].req]) : call' = [call EXCEPT ![c] =
          IF StepsDistinct(plan)
            THEN [@ EXCEPT !.pc = "create_rows",
                           !.rows = PlannedRows(plan, dir.dept[Owner[call[c].req]])]
            ELSE Idle]
    BY <1>6, Zenon DEF CreatePlan
  <2>3. PICK rows : rows = PlannedRows(plan, dir.dept[Owner[q]])
    OBVIOUS
  <2> DEFINE next == [k EXCEPT !.pc = "create_rows", !.rows = rows]
  <2>4. next.pc = "create_rows" /\ next.rows = rows /\ next.req = q
    BY <2>1 DEF CallStates
  <2>5. call' = [call EXCEPT ![c] = next] \/ call' = [call EXCEPT ![c] = Idle]
    BY <1>k, <2>1, <2>2, <2>3
  <2> HIDE DEF next
  <2>6. call'[c] = next \/ call'[c] = Idle
    BY <1>c, <2>5
  <2>7. ASSUME NEW s \in Steps, rows[s] # NoRow
        PROVE  AsFixed(q, s, rows[s])
    <3>1. rows[s] = FixedApprover(dir, StepOf(plan, s), dir.dept[Owner[q]])
      BY <2>3, <2>7 DEF PlannedRows
    <3>2. \A other \in ResolvePlan(routes, Kind[q]) : other = plan
      BY <1>k, <2>1, <2>2, OnePlan DEF SettledInv
    <3> QED
      BY <3>1, <3>2 DEF AsFixed
  <2>8. \A s \in Steps : rows[s] # NoRow => AsFixed(q, s, rows[s])'
    BY <1>0, <2>7, AsFixedStays
  <2>9. CASE call'[c] = next
    BY <2>4, <2>8, <2>9 DEF AutoInv, Automatic
  <2> QED
    BY <1>i, <2>6, <2>9, SilentAuto
<1>7. CASE CreateRows(c)
  <2>1. PICK q \in Requests : q = k.req
    BY <1>7, <1>k DEF CreateRows, Typed, Placed
  <2> DEFINE next == [Idle EXCEPT !.pc = "auto_request", !.req = q]
  <2>2. next.pc = "auto_request" /\ next.req = q /\ next.actor = NoUser /\ next.guard = 0
    BY DEF Idle
  <2>3. call' = [call EXCEPT ![c] = next]
    BY <1>7, <1>k, <2>1 DEF CreateRows
  <2> HIDE DEF next
  <2>4. call'[c] = next
    BY <1>c, <2>3
  <2>5. 0 <= Cardinality(DecidedRows(q)')
    <3>1. Cardinality(DecidedRows(q)') \in Nat
      BY DecidedCount
    <3> QED
      BY <3>1
  <2> QED
    BY <2>2, <2>4, <2>5 DEF AutoInv, Automatic
<1>8. CASE RecordAdvance(c)
  <2>1. PICK q \in Requests : q = call[c].req
    BY <1>8 DEF RecordAdvance, Typed, Placed
  <2>2. /\ call'[c].pc = "auto_request" /\ call'[c].req = q /\ call'[c].actor = NoUser
        /\ call'[c].guard <= Cardinality(DecidedRows(q)')
    BY <1>8, <2>1, LoopGoesOn
  <2> QED
    BY <2>2 DEF AutoInv, Automatic
<1>9. ASSUME AutoReadRequest(c) \/ AutoReadApproval(c) \/ AutoDecide(c)
      PROVE  AutoInv(c)'
  <2>1. PICK q \in Requests : q = k.req
    BY <1>9, <1>k DEF AutoReadRequest, AutoReadApproval, AutoDecide, Typed, Placed
  <2>2. result' = result /\ k.actor = NoUser /\ k.guard \in Nat
    BY <1>9, <1>k DEF AutoReadRequest, AutoReadApproval, AutoDecide, SettledInv, AutoInv,
                      db, CallStates
  <2>3. DecidedRows(q)' = DecidedRows(q)
    BY <2>2 DEF DecidedRows
  <2>4. CASE AutoReadRequest(c)
    <3> DEFINE next == [k EXCEPT !.pc = "auto_approval", !.step = currentStep[q],
                                 !.dept = dir.dept[Owner[q]]]
    <3>1. k.guard <= Cardinality(DecidedRows(q))
      BY <1>k, <2>1, <2>4 DEF AutoReadRequest, SettledInv, AutoInv
    <3>2. call' = [call EXCEPT ![c] = next] \/ call' = [call EXCEPT ![c] = Idle]
      BY <1>k, <2>1, <2>4 DEF AutoReadRequest
    <3>3. /\ next.pc = "auto_approval" /\ next.req = q /\ next.actor = k.actor
          /\ next.dept = dir.dept[Owner[q]] /\ next.guard = k.guard
      BY <2>1 DEF CallStates
    <3> HIDE DEF next
    <3>4. call'[c] = next \/ call'[c] = Idle
      BY <1>c, <3>2
    <3>5. CASE call'[c] = next
      BY <1>d, <2>2, <2>3, <3>1, <3>3, <3>5 DEF AutoInv, Automatic
    <3> QED
      BY <1>i, <3>4, <3>5, SilentAuto
  <2>5. CASE AutoReadApproval(c)
    <3> DEFINE next == [k EXCEPT !.pc = "auto_plan"]
               stays == k.step \in Steps /\ result[q][k.step] = "pending"
    <3>1. k.guard <= Cardinality(DecidedRows(q)) /\ k.dept = dir.dept[Owner[q]]
      BY <1>k, <2>1, <2>5 DEF AutoReadApproval, SettledInv, AutoInv
    <3>2. \/ call' = [call EXCEPT ![c] = next] /\ stays
          \/ call' = [call EXCEPT ![c] = Idle]
      BY <1>k, <2>1, <2>5 DEF AutoReadApproval
    <3>3. /\ next.pc = "auto_plan" /\ next.req = q /\ next.actor = k.actor
          /\ next.dept = k.dept /\ next.guard = k.guard /\ next.step = k.step
      BY <2>1 DEF CallStates
    <3> HIDE DEF next
    <3>4. (call'[c] = next /\ stays) \/ call'[c] = Idle
      BY <1>c, <3>2
    <3>5. CASE call'[c] = next /\ stays
      <4>1. DecidedRows(q) \ {k.step} = DecidedRows(q)
        BY <3>5 DEF DecidedRows, Verdicts
      <4>2. k.guard <= Cardinality(DecidedRows(q)' \ {k.step})
        BY <2>3, <3>1, <4>1
      <4> QED
        BY <1>d, <2>2, <3>1, <3>3, <3>5, <4>2 DEF AutoInv, Automatic
    <3> QED
      BY <1>i, <3>4, <3>5, SilentAuto
  <2>6. CASE AutoDecide(c)
    <3> DEFINE next == [k EXCEPT !.pc = "decide"]
    <3>1. k.guard <= Cardinality(DecidedRows(q) \ {k.step})
      BY <1>k, <2>1, <2>6 DEF AutoDecide, SettledInv, AutoInv, Automatic
    <3>2. call' = [call EXCEPT ![c] = next] \/ call' = [call EXCEPT ![c] = Idle]
      BY <1>k, <2>6 DEF AutoDecide
    <3>3. /\ next.pc = "decide" /\ next.req = q /\ next.guard = k.guard
          /\ next.step = k.step
      BY <2>1 DEF CallStates
    <3> HIDE DEF next
    <3>4. call'[c] = next \/ call'[c] = Idle
      BY <1>c, <3>2
    <3>5. CASE call'[c] = next
      BY <2>3, <3>1, <3>3, <3>5 DEF AutoInv, Automatic
    <3> QED
      BY <1>i, <3>4, <3>5, SilentAuto
  <2> QED
    BY <1>9, <2>4, <2>5, <2>6
<1> QED
  BY <1>1, <1>2, <1>3, <1>4, <1>5, <1>6, <1>7, <1>8, <1>9 DEF Continue

(* Handlers that do not touch a request leave it attended.                  *)
LEMMA StillAttended ==
  ASSUME Attended, UNCHANGED conf, NEW c \in Calls,
         \A d \in Calls : d # c => call'[d] = call[d],
         NEW q \in Requests,
         status'[q] = status[q], currentStep'[q] = currentStep[q], result'[q] = result[q],
         Orphaned(q) /\ Attends(c, q) => Attends(c, q)',
         Orphaned(q)'
  PROVE  \E d \in Calls : Attends(d, q)'
<1>1. dir' = dir /\ routes' = routes
  BY DEF conf
<1>2. DecisionOfCurrentStep(q)' = DecisionOfCurrentStep(q)
  BY <1>1 DEF DecisionOfCurrentStep, StepDecision
<1>3. Orphaned(q)
  BY <1>2 DEF Orphaned
<1>4. PICK d \in Calls : Attends(d, q)
  BY <1>3 DEF Attended
<1>5. CASE d = c
  BY <1>3, <1>4, <1>5
<1>6. CASE d # c
  BY <1>4, <1>6 DEF Attends
<1> QED
  BY <1>5, <1>6

(* The step of a handler that works on a request, for that request.         *)
LEMMA WorkerAttends ==
  ASSUME Settled, Typed, Progressed, SettledInv, [Next]_vars,
         NEW c \in Calls, Continue(c), NEW q \in Requests, q = call[c].req, Orphaned(q)'
  PROVE  \E d \in Calls : Attends(d, q)'
<1>0. UNCHANGED conf /\ Attended /\ \A d \in Calls : d # c => call'[d] = call[d]
  BY ConfStays, OneMoves DEF SettledInv
<1>k. PICK k \in CallStates : k = call[c] /\ k.req = q
  BY DEF Typed, TypeOK
<1>c. call \in [Calls -> CallStates] /\ status'[q] = "pending"
  BY DEF Typed, TypeOK, Orphaned
<1>s. ASSUME status'[q] = status[q], currentStep'[q] = currentStep[q], result'[q] = result[q],
             Orphaned(q) /\ Attends(c, q) => Attends(c, q)'
      PROVE  \E d \in Calls : Attends(d, q)'
  BY <1>0, <1>s, StillAttended
<1>a. ASSUME call'[c].pc = "auto_request", call'[c].req = q
      PROVE  \E d \in Calls : Attends(d, q)'
  BY <1>a DEF Attends
<1>1. CASE CreateRows(c)
  <2> DEFINE next == [Idle EXCEPT !.pc = "auto_request", !.req = q]
  <2>1. next.pc = "auto_request" /\ next.req = q
    BY DEF Idle
  <2>2. call' = [call EXCEPT ![c] = next]
    BY <1>1, <1>k DEF CreateRows
  <2> HIDE DEF next
  <2>3. call'[c] = next
    BY <1>c, <2>2
  <2> QED
    BY <1>a, <2>1, <2>3
<1>2. CASE RecordAdvance(c)
  BY <1>2, <1>a, LoopGoesOn
<1>3. CASE RecordRejection(c) \/ RecordFinalApproval(c) \/ CancelWrite(c)
  BY <1>3, <1>c, <1>k DEF RecordRejection, RecordFinalApproval, CancelWrite, Typed, TypeOK
<1>4. CASE CreatePlan(c) \/ RecomputePunchFix(c) \/ CancelAudit(c)
  <2>1. ~Attends(c, q)
    <3>1. call[c].pc \in {"create_plan", "recompute", "cancel_audit"}
      BY <1>4, Zenon DEF CreatePlan, RecomputePunchFix, CancelAudit
    <3> QED
      BY <3>1 DEF Attends, Automatic
  <2>2. UNCHANGED <<status, currentStep, result>>
    <3>1. CASE CreatePlan(c)
      <4>1. UNCHANGED db
        BY <3>1 DEF CreatePlan
      <4> QED
        BY <4>1 DEF db
    <3>2. CASE RecomputePunchFix(c) \/ CancelAudit(c)
      BY <3>2 DEF RecomputePunchFix, CancelAudit, db
    <3> QED
      BY <1>4, <3>1, <3>2
  <2> QED
    BY <1>s, <2>1, <2>2
<1>5. CASE ActRead(c)
  <2>1. ~Attends(c, q)
    BY <1>5 DEF ActRead, Attends, Automatic
  <2>2. UNCHANGED db
    BY <1>5 DEF ActRead
  <2> QED
    BY <1>s, <2>1, <2>2 DEF db
<1>6. CASE ActCheck(c)
  <2>1. ~Attends(c, q)
    BY <1>6 DEF ActCheck, Attends, Automatic
  <2>2. UNCHANGED db
    BY <1>6 DEF ActCheck
  <2> QED
    BY <1>s, <2>1, <2>2 DEF db
<1>7. CASE AutoReadRequest(c)
  <2> DEFINE next == [k EXCEPT !.pc = "auto_approval", !.step = currentStep[q],
                               !.dept = dir.dept[Owner[q]]]
  <2>1. UNCHANGED <<status, currentStep, result>>
    BY <1>7 DEF AutoReadRequest, db
  <2>2. call' = [call EXCEPT ![c] = next]
    BY <1>7, <1>c, <1>k, <2>1 DEF AutoReadRequest
  <2>3. next.pc = "auto_approval" /\ next.req = q /\ next.step = currentStep[q]
    BY <1>k DEF CallStates
  <2> HIDE DEF next
  <2>4. call'[c] = next
    BY <1>c, <2>2
  <2>5. Attends(c, q)'
    BY <2>1, <2>3, <2>4 DEF Attends
  <2> QED
    BY <2>5
<1>8. CASE AutoReadApproval(c)
  <2> DEFINE next == [k EXCEPT !.pc = "auto_plan"]
  <2>1. UNCHANGED <<status, currentStep, result>>
    BY <1>8 DEF AutoReadApproval, db
  <2>2. ASSUME Orphaned(q), Attends(c, q)
        PROVE  Attends(c, q)'
    <3>1. k.step = currentStep[q] /\ k.step \in Steps /\ result[q][k.step] = "pending"
      BY <1>8, <1>k, <2>2 DEF AutoReadApproval, Attends, Orphaned
    <3>2. call' = [call EXCEPT ![c] = next]
      BY <1>8, <1>k, <3>1 DEF AutoReadApproval
    <3>3. next.pc = "auto_plan" /\ next.req = q /\ next.step = k.step
      BY <1>k DEF CallStates
    <3> HIDE DEF next
    <3>4. call'[c] = next
      BY <1>c, <3>2
    <3> QED
      BY <2>1, <3>1, <3>3, <3>4 DEF Attends, Automatic
  <2> QED
    BY <1>s, <2>1, <2>2
<1>9. CASE AutoDecide(c)
  <2> DEFINE next == [k EXCEPT !.pc = "decide"]
  <2>1. UNCHANGED <<status, currentStep, result>>
    BY <1>9 DEF AutoDecide, db
  <2>2. ASSUME Orphaned(q), Attends(c, q)
        PROVE  Attends(c, q)'
    <3>1. /\ k.step = currentStep[q] /\ k.actor = NoUser /\ k.dept = dir.dept[Owner[q]]
          /\ k.pc = "auto_plan"
      BY <1>9, <1>k, <2>2 DEF AutoDecide, Attends, SettledInv, AutoInv
    <3>2. \A plan \in ResolvePlan(routes, Kind[q]) :
            StepDecision(plan, k.step, Owner[q], k.dept) = "auto_approve"
      BY <2>2, <3>1 DEF Orphaned, DecisionOfCurrentStep
    <3>3. call' = [call EXCEPT ![c] = next]
      BY <1>9, <1>k, <3>2 DEF AutoDecide
    <3>4. next.pc = "decide" /\ next.req = q /\ next.step = k.step /\ next.actor = k.actor
      BY <1>k DEF CallStates
    <3> HIDE DEF next
    <3>5. call'[c] = next
      BY <1>c, <3>3
    <3> QED
      BY <2>1, <3>1, <3>4, <3>5 DEF Attends, Automatic
  <2> QED
    BY <1>s, <2>1, <2>2
<1> QED
  BY <1>1, <1>2, <1>3, <1>4, <1>5, <1>6, <1>7, <1>8, <1>9 DEF Continue

(* What a handler writes is the row of its own request.                     *)
LEMMA OwnRequestOnly ==
  ASSUME Typed, NEW c \in Calls, Continue(c), NEW q \in Requests, q # call[c].req
  PROVE  status'[q] = status[q] /\ currentStep'[q] = currentStep[q] /\ result'[q] = result[q]
<1>1. CASE CreateRows(c) \/ CancelWrite(c) \/ CancelAudit(c) \/ RecomputePunchFix(c)
  BY <1>1 DEF CreateRows, CancelWrite, CancelAudit, RecomputePunchFix, db, Typed, TypeOK
<1>2. CASE RecordRejection(c) \/ RecordFinalApproval(c) \/ RecordAdvance(c)
  BY <1>2 DEF RecordRejection, RecordFinalApproval, RecordAdvance, WriteDecision, Typed, TypeOK
<1>3. CASE CreatePlan(c) \/ ActRead(c) \/ ActCheck(c) \/ AutoReadRequest(c)
           \/ AutoReadApproval(c) \/ AutoDecide(c)
  <2>1. UNCHANGED db
    <3>1. CASE ActRead(c)
      BY <3>1 DEF ActRead
    <3>2. CASE ActCheck(c)
      BY <3>2 DEF ActCheck
    <3>3. CASE CreatePlan(c)
      BY <3>3 DEF CreatePlan
    <3>4. CASE AutoReadRequest(c) \/ AutoReadApproval(c) \/ AutoDecide(c)
      BY <3>4 DEF AutoReadRequest, AutoReadApproval, AutoDecide
    <3> QED
      BY <1>3, <3>1, <3>2, <3>3, <3>4
  <2> QED
    BY <2>1 DEF db
<1> QED
  BY <1>1, <1>2, <1>3 DEF Continue

LEMMA NextSettled ==
  ASSUME Settled, Typed, Progressed, SettledInv, [Next]_vars
  PROVE  SettledInv'
<1>0. UNCHANGED conf /\ ~\E c \in Calls : Crash(c)
  BY ConfStays
<1>1. Unchanging'
  BY <1>0 DEF conf, Unchanging, SettledInv
<1>2. RowsAsFixed'
  BY RowsStayFixed DEF SettledInv
<1>3. ASSUME NEW c \in Calls, Continue(c)
      PROVE  SettledInv'
  <2>1. \A d \in Calls : d # c => call'[d] = call[d]
    BY <1>3, OneMoves
  <2>2. \A d \in Calls : AutoInv(d)'
    BY <1>0, <1>3, <2>1, MovingAuto, OtherAuto DEF SettledInv
  <2>3. ASSUME NEW q \in Requests, Orphaned(q)'
        PROVE  \E d \in Calls : Attends(d, q)'
    <3>1. CASE q = call[c].req
      BY <1>3, <2>3, <3>1, WorkerAttends
    <3>2. CASE q # call[c].req
      <4>1. ~Attends(c, q)
        BY <3>2 DEF Attends
      <4> QED
        BY <1>0, <1>3, <2>1, <2>3, <3>2, <4>1, OwnRequestOnly, StillAttended DEF SettledInv
    <3> QED
      BY <3>1, <3>2
  <2>4. Attended'
    BY <2>3 DEF Attended
  <2> QED
    BY <1>1, <1>2, <2>2, <2>4 DEF SettledInv
<1>4. ASSUME NEW c \in Calls, Start(c)
      PROVE  SettledInv'
  <2>1. /\ call[c].pc = "idle" /\ call'[c].pc \in {"create_plan", "cancel_write", "act_read"}
        /\ \A d \in Calls : d # c => call'[d] = call[d]
    BY <1>4, HandlerStarts
  <2>2. UNCHANGED <<status, currentStep, result>>
    <3>1. ASSUME NEW r \in Requests, StartCreate(c, r) \/ StartCancel(c, r)
          PROVE  UNCHANGED db
      BY <3>1 DEF StartCreate, StartCancel
    <3>2. ASSUME NEW u \in Users, NEW r \in Requests, NEW s \in Steps, NEW v \in Verdicts,
                 StartAct(c, u, r, s, v)
          PROVE  UNCHANGED db
      BY <3>2 DEF StartAct
    <3> QED
      BY <1>4, <3>1, <3>2 DEF Start, db
  <2>3. \A d \in Calls : AutoInv(d)'
    BY <1>0, <2>1, SilentAuto, OtherAuto DEF SettledInv
  <2>4. \A q \in Requests : ~Attends(c, q)
    BY <2>1 DEF Attends, Automatic
  <2>5. ASSUME NEW q \in Requests, Orphaned(q)'
        PROVE  \E d \in Calls : Attends(d, q)'
    BY <1>0, <2>1, <2>2, <2>4, <2>5, StillAttended DEF SettledInv
  <2>6. Attended'
    BY <2>5 DEF Attended
  <2> QED
    BY <1>1, <1>2, <2>3, <2>6 DEF SettledInv
<1>5. CASE UNCHANGED vars
  <2>1. UNCHANGED <<status, currentStep, result, call, dir, routes>>
    BY <1>5 DEF vars
  <2>2. \A d \in Calls : AutoInv(d)'
    BY <1>0, <2>1, OtherAuto DEF SettledInv
  <2>3. Attended'
    BY <2>1 DEF SettledInv, Attended, Attends, Orphaned, DecisionOfCurrentStep, StepDecision
  <2> QED
    BY <1>1, <1>2, <2>2, <2>3 DEF SettledInv
<1>6. ~Administer
  BY DEF Settled, Administer
<1> QED
  BY <1>0, <1>3, <1>4, <1>5, <1>6 DEF Next

LEMMA InitSettled == Init => SettledInv
<1> SUFFICES ASSUME Init
             PROVE  SettledInv
  OBVIOUS
<1>1. Unchanging /\ RowsAsFixed
  BY DEF Init, Unchanging, RowsAsFixed
<1>2. \A d \in Calls : AutoInv(d)
  BY DEF Init, Idle, AutoInv, Automatic
<1>3. Attended
  BY DEF Init, Attended, Orphaned
<1> QED
  BY <1>1, <1>2, <1>3 DEF SettledInv

(* Whoever may decide a step that is left to humans is shown it.            *)
LEMMA SomebodyIsAsked ==
  ASSUME Settled, Typed, SettledInv, NEW q \in Requests, NEW s \in Steps,
         status[q] = "pending", s = currentStep[q], result[q][s] = "pending",
         \A o \in GoverningRoutes(Kind[q]) : ~o.allowSelf,
         NEW plan \in ResolvePlan(routes, Kind[q]),
         StepDecision(plan, s, Owner[q], dir.dept[Owner[q]]) \notin {"block", "auto_approve"}
  PROVE  \E u \in Users : Accepts(u, q, s) /\ PendingFor(u, q, s)
<1> DEFINE owner == Owner[q]
           dept == dir.dept[Owner[q]]
           fixed == FixedApprover(dir, StepOf(plan, s), dept)
           candidates == CandidateApprovers(dir, StepOf(plan, s), owner, dept)
<1>1. ~plan.allowSelf
  <2>1. ASSUME plan.allowSelf
        PROVE  FALSE
    <3>1. PICK o \in routes : o.appliesTo \in {Kind[q], "all"} /\ o.allowSelf
      BY <2>1, SelfApprovalComesFromRoute
    <3>2. o \in GoverningRoutes(Kind[q])
      BY <3>1 DEF GoverningRoutes, SettledInv, Unchanging
    <3> QED
      BY <3>1, <3>2
  <2> QED
    BY <2>1
<1>2. PICK u \in candidates : u # owner
  <2>1. DecideStep(plan, candidates, owner) \notin {"block", "auto_approve"}
    BY DEF StepDecision
  <2>2. EligibleIds(plan, candidates, owner) # {}
    BY <2>1 DEF DecideStep
  <2>3. EligibleIds(plan, candidates, owner) = candidates \ {owner}
    BY <1>1 DEF EligibleIds
  <2> QED
    BY <2>2, <2>3
<1>3. fixed \in EligibleApprovers(dir, owner, dept) \cup {NoUser}
  BY DEF Settled, SettledInv, Unchanging
<1>4. u \in EligibleApprovers(dir, owner, dept) /\ fixed \in {u, NoUser}
  <2>1. CASE StepOf(plan, s).approverType = "scope"
    BY <1>2, <2>1 DEF CandidateApprovers, FixedApprover
  <2>2. CASE StepOf(plan, s).approverType # "scope"
    BY <1>2, <1>3, <2>2 DEF CandidateApprovers
  <2> QED
    BY <2>1, <2>2
<1>5. approverId[q][s] = fixed
  BY DEF SettledInv, RowsAsFixed, AsFixed
<1> HIDE DEF candidates, fixed
<1>6. /\ u \in dir.active /\ ResolveScope(dir.grants[u]) # NoScope
      /\ IsVisible(ResolveScope(dir.grants[u]), u,
                   AccessibleDepts(dir, dir.dept[u], ResolveScope(dir.grants[u])), owner, dept)
  BY <1>4 DEF EligibleApprovers
<1>7. u \in Users
  BY <1>6 DEF Typed, TypeOK, Directories
<1>8. \A p \in ResolvePlan(routes, Kind[q]) : p = plan
  BY OnePlan DEF SettledInv
<1>9. Accepts(u, q, s)
  BY <1>2, <1>4, <1>5, <1>6, <1>8 DEF Accepts, MayUseApprovals, MayDecide
<1>10. PendingFor(u, q, s)
  BY <1>2, <1>4, <1>5, <1>6 DEF PendingFor
<1> QED
  BY <1>7, <1>9, <1>10

(* A request nobody works on never waits for nobody: its step is blocked by  *)
(* the route's policy or listed for a user whose decision is accepted,       *)
(* however the handlers that brought it there overlapped.                    *)
THEOREM SomebodyAlwaysAsked == Settled => (Spec => []WaitingIsListed)
<1> SUFFICES ASSUME Settled
             PROVE  Spec => []WaitingIsListed
  OBVIOUS
<1>1. Typed /\ Progressed /\ SettledInv /\ [Next]_vars => SettledInv'
  BY NextSettled
<1>2. ASSUME Typed, SettledInv
      PROVE  WaitingIsListed
  <2> SUFFICES ASSUME NEW q \in Requests,
                      status[q] = "pending", Quiet(q), currentStep[q] \in Steps,
                      result[q][currentStep[q]] = "pending",
                      "block" \notin DecisionOfCurrentStep(q),
                      \A o \in GoverningRoutes(Kind[q]) : ~o.allowSelf
               PROVE  \E u \in Users : Accepts(u, q, currentStep[q])
                                       /\ PendingFor(u, q, currentStep[q])
    BY DEF WaitingIsListed
  <2>1. PICK s \in Steps : s = currentStep[q]
    OBVIOUS
  <2>2. ~Orphaned(q)
    BY <1>2 DEF SettledInv, Attended, Attends, Quiet
  <2>3. PICK plan \in ResolvePlan(routes, Kind[q]) :
          StepDecision(plan, s, Owner[q], dir.dept[Owner[q]]) # "auto_approve"
    <3>1. ResolvePlan(routes, Kind[q]) # {}
      BY <1>2, OnePlan DEF SettledInv
    <3> QED
      BY <2>1, <2>2, <3>1 DEF Orphaned, DecisionOfCurrentStep
  <2>4. StepDecision(plan, s, Owner[q], dir.dept[Owner[q]]) # "block"
    BY <2>1 DEF DecisionOfCurrentStep
  <2> QED
    BY <1>2, <2>1, <2>3, <2>4, SomebodyIsAsked
<1>3. Spec => []Typed
  BY TypeCorrect DEF Typed
<1> QED
  BY <1>1, <1>2, <1>3, InitSettled, HandlersProgressed, PTL DEF Spec
=============================================================================
