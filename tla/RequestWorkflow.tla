--------------------------- MODULE RequestWorkflow ---------------------------
(***************************************************************************)
(* The life of a request: requests/requests.service.ts (create, cancel) and *)
(* approvals/approvals.service.ts (act, autoResolve, recordDecision) over   *)
(* the tables request, approval and audit_log.                              *)
(*                                                                          *)
(* Every HTTP call is a handler that runs between two awaits without being  *)
(* interrupted and keeps what it read in local variables; call[c] holds the *)
(* await handler c stands at (`pc`) and those variables. A $transaction     *)
(* commits in one step: its writes are unconditional and PostgreSQL shows   *)
(* them to the other handlers together.                                     *)
(***************************************************************************)
EXTENDS ApprovalRouting

CONSTANTS Requests,       \* request ids, each filed at most once
          Calls,          \* handlers that may be in flight at the same time
          Steps,          \* step numbers that occur in routes
          Owner,          \* Owner[r]: the applicant of request r
          Kind,           \* Kind[r]: its request type
          InitDirectories, \* members, departments, permissions at the start
          InitRoutes,     \* approval routes at the start
          RouteOptions,   \* routes an administrator may save
          MemberOptions,  \* member updates an administrator may make
          MayCrash,       \* whether a handler may be lost between two awaits
          LoopLimit,      \* bound of the loop in autoResolve (100)
          NoRow,          \* no approval row planned for a step
          NoRequest       \* an idle handler's request

ASSUME WorkflowAssumption ==
  /\ Steps \subseteq Nat /\ IsFiniteSet(Steps)
  /\ Owner \in [Requests -> Users]
  /\ Kind \in [Requests -> RequestTypes]
  /\ InitDirectories \subseteq Directories
  /\ MemberOptions \subseteq [user : Users, active : BOOLEAN,
                              dept : Depts \cup {NoDept}, grants : SUBSET Scopes]
  /\ MayCrash \in BOOLEAN
  /\ LoopLimit \in Nat \ {0}
  /\ NoRow \notin Users \cup {NoUser}
  /\ NoRequest \notin Requests

VARIABLES dir,          \* directory record: app_user, department, role
          routes,       \* rows of approval_route
          status,       \* request.status, "none" before it is filed
          currentStep,  \* request.current_step
          result,       \* approval.result by request and step, "none": no row
          approverId,   \* approval.approver_id by request and step
          audit,        \* audit_log rows by request, oldest first
          effects,      \* times applyEffects was committed for a request
          assigned,     \* history: approver_id as the request was created
          call          \* the handlers

db   == <<status, currentStep, result, approverId, audit, effects, assigned>>
conf == <<dir, routes>>
vars == <<dir, routes, status, currentStep, result, approverId, audit, effects,
          assigned, call>>

RequestStatuses == {"none", "pending", "approved", "rejected", "canceled"}
Results == {"none", "pending", "approved", "rejected"}
Verdicts == {"approved", "rejected"}
AuditActions == {"request.create", "request.cancel", "approval.approved",
                 "approval.rejected", "approval.auto_approved"}
Waits == {"idle", "act_read", "act_check", "decide", "auto_request",
          "auto_approval", "auto_plan", "recompute", "create_plan",
          "create_rows", "cancel_write", "cancel_audit"}

Entry(action, step, actor) == [action |-> action, step |-> step, actor |-> actor]

Idle ==
  [pc |-> "idle", req |-> NoRequest, step |-> 0, actor |-> NoUser,
   verdict |-> "approved", scope |-> NoScope, depts |-> {}, fixed |-> NoUser,
   sees |-> FALSE, dept |-> NoDept, rows |-> [s \in Steps |-> NoRow], guard |-> 0]

Init ==
  /\ dir \in InitDirectories
  /\ routes = InitRoutes
  /\ status = [r \in Requests |-> "none"]
  /\ currentStep = [r \in Requests |-> 0]
  /\ result = [r \in Requests |-> [s \in Steps |-> "none"]]
  /\ approverId = [r \in Requests |-> [s \in Steps |-> NoUser]]
  /\ audit = [r \in Requests |-> <<>>]
  /\ effects = [r \in Requests |-> 0]
  /\ assigned = [r \in Requests |-> [s \in Steps |-> NoUser]]
  /\ call = [c \in Calls |-> Idle]

-----------------------------------------------------------------------------
(* Filing a request. r stands for the row the call will insert, so no two   *)
(* calls file the same one.                                                 *)

StartCreate(c, r) ==
  /\ call[c].pc = "idle"
  /\ status[r] = "none"
  /\ Owner[r] \in dir.active
  /\ \A d \in Calls : call[d].req # r
  /\ call' = [call EXCEPT ![c] =
       [Idle EXCEPT !.pc = "create_plan", !.req = r, !.actor = Owner[r]]]
  /\ UNCHANGED <<db, conf>>

(* One row per step of the plan; two steps with the same number violate the *)
(* unique key of approval and the transaction fails as a whole.             *)
PlannedRows(plan, ownerDept) ==
  [s \in Steps |->
     IF \E i \in DOMAIN plan.steps : plan.steps[i].step = s
       THEN FixedApprover(dir, StepOf(plan, s), ownerDept)
       ELSE NoRow]

StepsDistinct(plan) ==
  \A i, j \in DOMAIN plan.steps : plan.steps[i].step = plan.steps[j].step => i = j

CreatePlan(c) ==
  /\ call[c].pc = "create_plan"
  /\ \E plan \in ResolvePlan(routes, Kind[call[c].req]) :
       call' = [call EXCEPT ![c] =
         IF StepsDistinct(plan)
           THEN [@ EXCEPT !.pc = "create_rows",
                          !.rows = PlannedRows(plan, dir.dept[Owner[call[c].req]])]
           ELSE Idle]
  /\ UNCHANGED <<db, conf>>

CreateRows(c) ==
  LET k == call[c]
      r == call[c].req
  IN
  /\ k.pc = "create_rows"
  /\ status[r] = "none"
  /\ status' = [status EXCEPT ![r] = "pending"]
  /\ currentStep' = [currentStep EXCEPT ![r] = 1]
  /\ result' = [result EXCEPT ![r] =
       [s \in Steps |-> IF k.rows[s] = NoRow THEN "none" ELSE "pending"]]
  /\ approverId' = [approverId EXCEPT ![r] =
       [s \in Steps |-> IF k.rows[s] = NoRow THEN NoUser ELSE k.rows[s]]]
  /\ assigned' = [assigned EXCEPT ![r] = approverId'[r]]
  /\ audit' = [audit EXCEPT ![r] = Append(@, Entry("request.create", 0, k.actor))]
  /\ call' = [call EXCEPT ![c] = [Idle EXCEPT !.pc = "auto_request", !.req = r]]
  /\ UNCHANGED <<effects, conf>>

-----------------------------------------------------------------------------
(* Deciding a step                                                          *)

(* mutant: only the rows still to be decided are counted                    *)
PendingSteps(r) == Cardinality({s \in Steps : result[r][s] = "pending"})

(* approval.count of the request: its rows never change in number.          *)
TotalSteps(r) == Cardinality({s \in Steps : result[r][s] # "none"})

(* PermissionsGuard: an active user with approval:approve at some scope.    *)
StartAct(c, u, r, s, v) ==
  /\ call[c].pc = "idle"
  /\ u \in dir.active
  /\ ResolveScope(dir.grants[u]) # NoScope
  /\ result[r][s] # "none"
  /\ LET scope == ResolveScope(dir.grants[u])
     IN  call' = [call EXCEPT ![c] =
           [Idle EXCEPT !.pc = "act_read", !.req = r, !.step = s, !.actor = u,
                        !.verdict = v, !.scope = scope,
                        !.depts = AccessibleDepts(dir, dir.dept[u], scope)]]
  /\ UNCHANGED <<db, conf>>

(* mutants: the step is not compared with the current one; a request that   *)
(* is no longer pending is not refused                                      *)
ActionableAtAnyStep(r, s) == status[r] = "pending" /\ result[r][s] = "pending"
ActionableInAnyStatus(r, s) == result[r][s] = "pending" /\ s = currentStep[r]

Actionable(r, s) ==
  /\ status[r] = "pending"
  /\ result[r][s] = "pending"
  /\ s = currentStep[r]

(* The approval with its request and applicant, and the checks on them that *)
(* come before the next await.                                              *)
ActRead(c) ==
  LET k == call[c]
      r == call[c].req
  IN
  /\ k.pc = "act_read"
  /\ call' = [call EXCEPT ![c] =
       IF Actionable(r, k.step)
         THEN [k EXCEPT !.pc = "act_check",
                        !.fixed = approverId[r][k.step],
                        !.sees = IsVisible(k.scope, k.actor, k.depts, Owner[r],
                                           dir.dept[Owner[r]])]
         ELSE Idle]
  /\ UNCHANGED <<db, conf>>

(* mutant: without the check of the fixed approver                          *)
MayDecideForAnother(plan, actor, owner, fixed, sees) ==
  (actor = owner => plan.allowSelf) /\ sees

(* What act asks of the approver, given the plan and what was read.         *)
MayDecide(plan, actor, owner, fixed, sees) ==
  /\ actor = owner => plan.allowSelf
  /\ fixed = NoUser \/ fixed = actor
  /\ fixed = NoUser => sees

ActCheck(c) ==
  LET k == call[c] IN
  /\ k.pc = "act_check"
  /\ \E plan \in ResolvePlan(routes, Kind[k.req]) :
       call' = [call EXCEPT ![c] =
         IF MayDecide(plan, k.actor, Owner[k.req], k.fixed, k.sees)
           THEN [k EXCEPT !.pc = "decide"]
           ELSE Idle]
  /\ UNCHANGED <<db, conf>>

(* The writes every decision makes: the approval row and the audit record.  *)
DecisionAction(k) ==
  IF k.actor = NoUser
    THEN "approval.auto_approved"
    ELSE IF k.verdict = "approved" THEN "approval.approved" ELSE "approval.rejected"

(* mutant: a rejection is not recorded in the audit log                     *)
WriteUnauditedRejection(k) ==
  /\ result' = [result EXCEPT ![k.req] = [@ EXCEPT ![k.step] = k.verdict]]
  /\ approverId' = [approverId EXCEPT ![k.req] = [@ EXCEPT ![k.step] = k.actor]]
  /\ audit' = IF k.verdict = "rejected" THEN audit
              ELSE [audit EXCEPT ![k.req] =
                      Append(@, Entry(DecisionAction(k), k.step, k.actor))]
  /\ UNCHANGED <<assigned, conf>>

WriteDecision(k) ==
  /\ result' = [result EXCEPT ![k.req] = [@ EXCEPT ![k.step] = k.verdict]]
  /\ approverId' = [approverId EXCEPT ![k.req] = [@ EXCEPT ![k.step] = k.actor]]
  /\ audit' = [audit EXCEPT ![k.req] =
                 Append(@, Entry(DecisionAction(k), k.step, k.actor))]
  /\ UNCHANGED <<assigned, conf>>

RecordRejection(c) ==
  LET k == call[c] IN
  /\ k.pc = "decide"
  /\ k.verdict = "rejected"
  /\ WriteDecision(k)
  /\ status' = [status EXCEPT ![k.req] = "rejected"]
  /\ call' = [call EXCEPT ![c] = Idle]
  /\ UNCHANGED <<currentStep, effects>>

(* `dated`: the payload of a correction has a target_date, which the API     *)
(* does not ask for; without one nothing is recomputed.                      *)
RecordFinalApproval(c) ==
  LET k == call[c] IN
  /\ k.pc = "decide"
  /\ k.verdict = "approved"
  /\ k.step >= TotalSteps(k.req)
  /\ WriteDecision(k)
  /\ status' = [status EXCEPT ![k.req] = "approved"]
  /\ effects' = [effects EXCEPT ![k.req] = @ + 1]
  /\ \E dated \in BOOLEAN :
       call' = [call EXCEPT ![c] =
         IF Kind[k.req] = "punch_fix" /\ dated
           THEN [Idle EXCEPT !.pc = "recompute", !.req = k.req]
           ELSE Idle]
  /\ UNCHANGED currentStep

(* mutant: the loop ends after one automatic step                           *)
AfterOneAdvance(k) ==
  IF k.actor = NoUser
    THEN Idle
    ELSE [Idle EXCEPT !.pc = "auto_request", !.req = k.req]

(* After a human decision autoResolve starts from its first iteration; after *)
(* an automatic one it goes on with the next, up to the loop's bound.       *)
AfterAdvance(k) ==
  LET iteration == IF k.actor = NoUser THEN k.guard + 1 ELSE 0
  IN  IF iteration < LoopLimit
        THEN [Idle EXCEPT !.pc = "auto_request", !.req = k.req, !.guard = iteration]
        ELSE Idle

RecordAdvance(c) ==
  LET k == call[c] IN
  /\ k.pc = "decide"
  /\ k.verdict = "approved"
  /\ k.step < TotalSteps(k.req)
  /\ WriteDecision(k)
  /\ currentStep' = [currentStep EXCEPT ![k.req] = k.step + 1]
  /\ call' = [call EXCEPT ![c] = AfterAdvance(k)]
  /\ UNCHANGED <<status, effects>>

(* recomputeIfPunchFix, after the transaction: the handler is busy with the  *)
(* summary of the target date, which is a table of AttendanceClose.          *)
RecomputePunchFix(c) ==
  /\ call[c].pc = "recompute"
  /\ call' = [call EXCEPT ![c] = Idle]
  /\ UNCHANGED <<db, conf>>

-----------------------------------------------------------------------------
(* autoResolve                                                              *)

AutoReadRequest(c) ==
  LET k == call[c] IN
  /\ k.pc = "auto_request"
  /\ call' = [call EXCEPT ![c] =
       IF status[k.req] = "pending"
         THEN [k EXCEPT !.pc = "auto_approval", !.step = currentStep[k.req],
                        !.dept = dir.dept[Owner[k.req]]]
         ELSE Idle]
  /\ UNCHANGED <<db, conf>>

AutoReadApproval(c) ==
  LET k == call[c] IN
  /\ k.pc = "auto_approval"
  /\ call' = [call EXCEPT ![c] =
       IF k.step \in Steps /\ result[k.req][k.step] = "pending"
         THEN [k EXCEPT !.pc = "auto_plan"]
         ELSE Idle]
  /\ UNCHANGED <<db, conf>>

StepDecision(plan, s, owner, ownerDept) ==
  DecideStep(plan, CandidateApprovers(dir, StepOf(plan, s), owner, ownerDept), owner)

AutoDecide(c) ==
  LET k == call[c] IN
  /\ k.pc = "auto_plan"
  /\ \E plan \in ResolvePlan(routes, Kind[k.req]) :
       call' = [call EXCEPT ![c] =
         IF StepDecision(plan, k.step, Owner[k.req], k.dept) = "auto_approve"
           THEN [k EXCEPT !.pc = "decide"]
           ELSE Idle]
  /\ UNCHANGED <<db, conf>>

-----------------------------------------------------------------------------
(* Canceling: read and check, then an unconditional write, then the audit   *)

StartCancel(c, r) ==
  /\ call[c].pc = "idle"
  /\ Owner[r] \in dir.active
  /\ status[r] = "pending"
  /\ call' = [call EXCEPT ![c] =
       [Idle EXCEPT !.pc = "cancel_write", !.req = r, !.actor = Owner[r]]]
  /\ UNCHANGED <<db, conf>>

CancelWrite(c) ==
  /\ call[c].pc = "cancel_write"
  /\ status' = [status EXCEPT ![call[c].req] = "canceled"]
  /\ call' = [call EXCEPT ![c].pc = "cancel_audit"]
  /\ UNCHANGED <<currentStep, result, approverId, audit, effects, assigned, conf>>

CancelAudit(c) ==
  LET k == call[c] IN
  /\ k.pc = "cancel_audit"
  /\ audit' = [audit EXCEPT ![k.req] = Append(@, Entry("request.cancel", 0, k.actor))]
  /\ call' = [call EXCEPT ![c] = Idle]
  /\ UNCHANGED <<status, currentStep, result, approverId, effects, assigned, conf>>

-----------------------------------------------------------------------------
(* A handler is lost: the process stops or the database call fails. What it *)
(* had not committed is rolled back, what it still had to do is not done.   *)
Crash(c) ==
  /\ MayCrash
  /\ call[c].pc # "idle"
  /\ call' = [call EXCEPT ![c] = Idle]
  /\ UNCHANGED <<db, conf>>

(* Administration while requests are under way.                             *)
CreateRoute(new) ==
  /\ new \notin routes
  /\ routes' = routes \cup {new}
  /\ UNCHANGED <<db, dir, call>>

UpdateRoute(old, new) ==
  /\ old \in routes
  /\ new \notin routes
  /\ routes' = (routes \ {old}) \cup {new}
  /\ UNCHANGED <<db, dir, call>>

RemoveRoute(old) ==
  /\ old \in routes
  /\ routes' = routes \ {old}
  /\ UNCHANGED <<db, dir, call>>

(* users.update (status, department, roles) of one member.                  *)
UpdateMember(m) ==
  /\ dir' = [dir EXCEPT
       !.active = IF m.active THEN @ \cup {m.user} ELSE @ \ {m.user},
       !.dept   = [@ EXCEPT ![m.user] = m.dept],
       !.grants = [@ EXCEPT ![m.user] = m.grants]]
  /\ dir' # dir
  /\ UNCHANGED <<db, routes, call>>

-----------------------------------------------------------------------------
(* The awaits of a handler that has been started.                           *)
Continue(c) ==
  \/ CreatePlan(c)
  \/ CreateRows(c)
  \/ ActRead(c)
  \/ ActCheck(c)
  \/ RecordRejection(c)
  \/ RecordFinalApproval(c)
  \/ RecordAdvance(c)
  \/ RecomputePunchFix(c)
  \/ AutoReadRequest(c)
  \/ AutoReadApproval(c)
  \/ AutoDecide(c)
  \/ CancelWrite(c)
  \/ CancelAudit(c)

Start(c) ==
  \/ \E r \in Requests : StartCreate(c, r)
  \/ \E r \in Requests : StartCancel(c, r)
  \/ \E u \in Users, r \in Requests, s \in Steps, v \in Verdicts :
       StartAct(c, u, r, s, v)

Administer ==
  \/ \E new \in RouteOptions : CreateRoute(new)
  \/ \E old \in InitRoutes \cup RouteOptions, new \in RouteOptions : UpdateRoute(old, new)
  \/ \E old \in RouteOptions : RemoveRoute(old)
  \/ \E m \in MemberOptions : UpdateMember(m)

Next ==
  \/ \E c \in Calls : Start(c) \/ Continue(c) \/ Crash(c)
  \/ Administer

Spec == Init /\ [][Next]_vars

(* Node.js resumes a handler when its await settles.                        *)
FairSpec == Spec /\ \A c \in Calls : WF_vars(Continue(c))

-----------------------------------------------------------------------------
(* Properties. Only TypeOK speaks of types; the others relate what several  *)
(* handlers wrote.                                                          *)

ApproverIds == Users \cup {NoUser}

CallStates ==
  [pc : Waits, req : Requests \cup {NoRequest}, step : Nat, actor : ApproverIds,
   verdict : Verdicts, scope : Scopes \cup {NoScope}, depts : SUBSET Depts,
   fixed : ApproverIds, sees : BOOLEAN, dept : Depts \cup {NoDept},
   rows : [Steps -> ApproverIds \cup {NoRow}], guard : Nat]

AuditRows == [action : AuditActions, step : Nat, actor : ApproverIds]

(* The values every variable may take.                                      *)
TypeOK ==
  /\ dir \in Directories
  /\ status \in [Requests -> RequestStatuses]
  /\ currentStep \in [Requests -> Nat]
  /\ result \in [Requests -> [Steps -> Results]]
  /\ approverId \in [Requests -> [Steps -> ApproverIds]]
  /\ audit \in [Requests -> Seq(AuditRows)]
  /\ effects \in [Requests -> Nat]
  /\ assigned \in [Requests -> [Steps -> ApproverIds]]
  /\ call \in [Calls -> CallStates]

Approvals == {"approval.approved", "approval.auto_approved"}
Decisions == Approvals \cup {"approval.rejected"}

DecidedAt(r, i, s) == audit[r][i].action \in Decisions /\ audit[r][i].step = s

ApprovedBefore(r, i, s) ==
  \E j \in 1..(i - 1) : audit[r][j].action \in Approvals /\ audit[r][j].step = s

(* No step is skipped: whatever handlers overlap or are lost, the audit log *)
(* has an approval of step s before any decision of step s+1 (the check of  *)
(* currentStep in act and autoResolve, the step + 1 in recordDecision).     *)
NoStepSkipped ==
  \A r \in Requests : \A i \in DOMAIN audit[r] :
    audit[r][i].action \in Decisions /\ audit[r][i].step # 1
      => ApprovedBefore(r, i, audit[r][i].step - 1)

(* An approval row and the audit log agree: a row is pending exactly when   *)
(* no decision of its step is on record (recordDecision writes both in one  *)
(* transaction), so a decision is never lost and never unrecorded.          *)
RowsMatchAudit ==
  \A r \in Requests, s \in Steps :
    result[r][s] \in Verdicts <=> \E i \in DOMAIN audit[r] : DecidedAt(r, i, s)

(* The routes that ever govern requests of a kind.                          *)
GoverningRoutes(kind) ==
  {o \in InitRoutes \cup RouteOptions : o.appliesTo \in {kind, "all"}}

(* A step is decided by the system or by somebody entitled to: by the       *)
(* approver it was created for, if it has one, although recordDecision      *)
(* overwrites approver_id and a second handler may still hold what it read  *)
(* before; by the applicant only if some route for the kind of request      *)
(* allows it, although the route may change between check and commit.       *)
DecidersEntitled ==
  \A r \in Requests, s \in Steps : \A i \in DOMAIN audit[r] :
    LET actor == audit[r][i].actor IN
    DecidedAt(r, i, s) /\ actor # NoUser =>
      /\ assigned[r][s] \in {NoUser, actor}
      /\ actor = Owner[r] => \E o \in GoverningRoutes(Kind[r]) : o.allowSelf

(* A request is approved only once every one of its steps has been approved *)
(* and its effects (corrected punches, consumed leave) are in the database. *)
ApprovedIsComplete ==
  \A r \in Requests :
    status[r] = "approved" =>
      /\ effects[r] > 0
      /\ \A s \in Steps : result[r][s] # "none" =>
           \E i \in DOMAIN audit[r] :
             audit[r][i].action \in Approvals /\ audit[r][i].step = s

-----------------------------------------------------------------------------
(* What the screens and the API offer in the current state                  *)

(* pendingFor: step s of request r is in u's list of steps to decide.       *)
PendingFor(u, r, s) ==
  /\ s \in Steps
  /\ result[r][s] = "pending"
  /\ approverId[r][s] \in {NoUser, u}
  /\ status[r] = "pending"
  /\ s = currentStep[r]
  /\ Owner[r] # u
  /\ LET scope == ResolveScope(dir.grants[u])
     IN  IsVisible(scope, u, AccessibleDepts(dir, dir.dept[u], scope),
                   Owner[r], dir.dept[Owner[r]])

MayUseApprovals(u) == u \in dir.active /\ ResolveScope(dir.grants[u]) # NoScope

(* An act by u on step s of r that nothing interrupts is accepted.          *)
Accepts(u, r, s) ==
  /\ MayUseApprovals(u)
  /\ status[r] = "pending"
  /\ s = currentStep[r]
  /\ s \in Steps
  /\ result[r][s] = "pending"
  /\ LET scope == ResolveScope(dir.grants[u])
         sees  == IsVisible(scope, u, AccessibleDepts(dir, dir.dept[u], scope),
                            Owner[r], dir.dept[Owner[r]])
     IN  \A plan \in ResolvePlan(routes, Kind[r]) :
           MayDecide(plan, u, Owner[r], approverId[r][s], sees)

Quiet(r) == \A c \in Calls : call[c].req # r

DecisionOfCurrentStep(r) ==
  {StepDecision(plan, currentStep[r], Owner[r], dir.dept[Owner[r]]) :
     plan \in ResolvePlan(routes, Kind[r])}

(* A request nobody works on never waits for nobody: unless the route's     *)
(* policy blocks its step, the step is in the list of a user whose decision *)
(* would be accepted. What decideStep takes for a candidate, what act asks  *)
(* of the approver and what pendingFor lists are worked out from different  *)
(* data. Left out are routes that allow self-approval, because pendingFor   *)
(* never lists a user's own requests, and a current_step set back to a step *)
(* already decided (see the README on overlapping decisions).               *)
WaitingIsListed ==
  \A r \in Requests :
    /\ status[r] = "pending" /\ Quiet(r)
    /\ currentStep[r] \in Steps /\ result[r][currentStep[r]] = "pending"
    /\ "block" \notin DecisionOfCurrentStep(r)
    /\ \A o \in GoverningRoutes(Kind[r]) : ~o.allowSelf
    => \E u \in Users : Accepts(u, r, currentStep[r]) /\ PendingFor(u, r, currentStep[r])

(* Every request the workflow handles goes through the life the contract    *)
(* describes: it ends once, its steps only move forward by one, its effects *)
(* are applied exactly when it is approved.                                 *)
Lifecycle ==
  INSTANCE RequestLifecycle
    WITH step <- currentStep, total <- [r \in Requests |-> TotalSteps(r)]

ImplementsLifecycle == Lifecycle!Spec

(* A step is decided at most once.                                          *)
DecidedOnce ==
  \A r \in Requests : \A i, j \in DOMAIN audit[r] :
    DecidedAt(r, i, audit[r][i].step) /\ DecidedAt(r, j, audit[r][i].step) => i = j

-----------------------------------------------------------------------------
(* Liveness, under FairSpec and without crashes                             *)

Orphaned(r) ==
  /\ status[r] = "pending"
  /\ currentStep[r] \in Steps
  /\ result[r][currentStep[r]] = "pending"
  /\ DecisionOfCurrentStep(r) = {"auto_approve"}

(* A step nobody may decide does not stay: autoResolve gets to every such   *)
(* step, one after another.                                                 *)
OrphansMoveOn ==
  \A r \in Requests, s \in Steps :
    (Orphaned(r) /\ currentStep[r] = s) ~> ~(Orphaned(r) /\ currentStep[r] = s)
=============================================================================
