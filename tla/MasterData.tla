----------------------------- MODULE MasterData -----------------------------
(***************************************************************************)
(* How an organization comes into being and how its master data is edited:  *)
(* the container's start (docker-entrypoint.sh, seed.ts), the first-time    *)
(* setup (setup.service.ts) and the handlers of departments.module.ts,      *)
(* work-patterns.module.ts, leave.module.ts, users.controller.ts,           *)
(* users.service.ts, shifts.module.ts, csv.module.ts and                    *)
(* organization.module.ts that create, change, move, assign and remove rows *)
(* other rows refer to; of requests.service.ts the filing of a leave.       *)
(*                                                                          *)
(* A handler is a list of checks, each a query of its own behind an await,  *)
(* then one write, then the audit record, which nothing here reads. Between *)
(* a check and the write other handlers run, and the database's constraints *)
(* are the last defence. Columns nobody here reads (names, kinds, figures,  *)
(* the active flag) are left out: of an update that writes only those remain*)
(* its checks, its failure on a row that is gone and its record.            *)
(***************************************************************************)
EXTENDS DeptTree, Sequences

CONSTANTS Calls,           \* handlers that may be in flight at the same time
          Inputs,          \* the requests people send
          ScopeOf,         \* ScopeOf[u]: the scope of u's permissions
          MaxRequests,     \* bound: requests of one behaviour
          MaxBoots,        \* bound: starts of the container
          CutAt,           \* bound: statements at which the seed may be cut short
          Seeding,         \* the values of AUTO_SEED considered
          hq, dev, std, paid, comp, taro, jiro, hana, demo  \* the seeded rows

(* assignWorkPattern refuses a period that ends before it starts.           *)
ASSUME InputAssumption ==
  \A r \in Inputs : r.op = "user.assignWorkPattern" =>
    r.span \in Nat \X Nat /\ r.span[1] <= r.span[2]

ASSUME SeedAssumption == taro # jiro /\ taro # hana /\ jiro # hana

VARIABLES boot,     \* the container: what it runs, how often it was started
          orgs,     \* organization rows
          admins,   \* organizations with an administrator who can log in
          exists,   \* departments, members, patterns and types in their tables
          used,     \* ids given out so far: a UUID is never given twice
          above,    \* department.parent_id
          home,     \* app_user.dept_id
          rules,    \* patterns with a work_rule row
          assigned, \* user_work_pattern rows
          balances, \* leave_balance rows: member and type
          planned,  \* members with a planned shift
          leaves,   \* leave requests filed: member and type
          call,     \* the handlers
          sent      \* requests sent so far

tables == <<orgs, admins, exists, above, home, rules, assigned, balances, planned,
            leaves>>
walk == <<parent, root, stack, seen>>
dataVars == <<walk, boot, tables, used, call, sent>>

Start0 == [pc |-> "down", row |-> 0, starts |-> 0, cut |-> FALSE, seed |-> FALSE]
NoInput == [op |-> "none", id |-> NoUser, ref |-> NoDept, span |-> <<0, 0>>]
Idle == [pc |-> 0, req |-> NoInput, n |-> 0, alone |-> TRUE, found |-> FALSE,
         at |-> NoDept, from |-> NoDept]

DataInit ==
  /\ boot \in {[Start0 EXCEPT !.seed = s] : s \in Seeding}
  /\ orgs = {} /\ admins = {} /\ exists = {} /\ used = {}
  /\ above = [d \in Depts |-> NoDept]
  /\ home = [u \in Users |-> NoDept]
  /\ rules = {} /\ assigned = {} /\ balances = {} /\ planned = {}
  /\ leaves = {}
  /\ call = [c \in Calls |-> Idle]
  /\ sent = 0
  /\ parent = above /\ root = NoDept /\ stack = {} /\ seen = Subtree(parent, root)

(* One INSERT. A pattern is created together with its rule.                 *)
Insert(t, id, ref, span, n) ==
  LET into(table, S, x) == IF t = table THEN S \cup {x} ELSE S
      withId == t \in {"department", "app_user", "work_pattern", "leave_type", "csv_mapping"}
  IN
  /\ orgs' = into("organization", orgs, id)
  /\ admins' = into("user_role", admins, id)
  /\ exists' = IF withId THEN exists \cup {id} ELSE exists
  /\ above' = IF t = "department" THEN [above EXCEPT ![id] = ref] ELSE above
  /\ home' = IF t = "app_user" THEN [home EXCEPT ![id] = ref] ELSE home
  /\ rules' = IF t \in {"work_pattern", "work_rule"} THEN rules \cup {id} ELSE rules
  /\ assigned' = into("user_work_pattern", assigned,
                      [user |-> id, pattern |-> ref, span |-> span, by |-> n])
  /\ balances' = into("leave_balance", balances, <<id, ref>>)
  /\ planned' = into("shift", planned, id)
  /\ leaves' = into("request", leaves, <<id, ref>>)

-----------------------------------------------------------------------------
(* The start of the container                                               *)

Always == <<1, 99>>  \* from 2026-01-01 on, without end

Row(table, id, ref) == [table |-> table, id |-> id, ref |-> ref]
NoReader(table) == Row(table, NoUser, NoDept)  \* a row nothing here reads

SeedRows ==
  << Row("organization", demo, NoDept), NoReader("closing_period"), NoReader("role"),
     Row("department", hq, NoDept), Row("department", dev, hq),
     NoReader("employment_type"), Row("work_pattern", std, NoDept),
     Row("app_user", taro, hq), Row("user_role", demo, NoDept),
     Row("app_user", jiro, dev), NoReader("role_of_manager"),
     NoReader("department.manager_user_id"),
     Row("app_user", hana, dev), NoReader("role_of_employee"),
     Row("user_work_pattern", taro, std), Row("user_work_pattern", jiro, std),
     Row("user_work_pattern", hana, std),
     Row("leave_type", paid, NoDept), Row("leave_type", comp, NoDept),
     Row("leave_balance", jiro, paid), Row("leave_balance", hana, paid) >>

Resting == \A c \in Calls : call[c].pc = 0

(* The seed runs before the server, unless there is an organization already. *)
Boot ==
  /\ boot.pc = "down"
  /\ boot.starts < MaxBoots
  /\ boot' = [boot EXCEPT !.starts = @ + 1,
                          !.pc = IF boot.seed /\ orgs = {} THEN "seed" ELSE "up",
                          !.row = IF boot.seed /\ orgs = {} THEN 1 ELSE @]
  /\ UNCHANGED <<walk, tables, used, call, sent>>

(* Every row is a statement that commits by itself.                         *)
Seed ==
  LET r == SeedRows[boot.row] IN
  /\ boot.pc = "seed"
  /\ Insert(r.table, r.id, r.ref, Always, 0)
  /\ boot' = IF boot.row = Len(SeedRows) THEN [boot EXCEPT !.pc = "up"]
             ELSE [boot EXCEPT !.row = @ + 1]
  /\ UNCHANGED <<walk, used, call, sent>>

(* A statement fails, and the entrypoint starts the server all the same, or  *)
(* the container is stopped.                                                *)
CutSeed ==
  /\ boot.pc = "seed" /\ boot.row \in CutAt
  /\ \E pc \in {"up", "down"} : boot' = [boot EXCEPT !.pc = pc, !.cut = @ \/ boot.row > 1]
  /\ UNCHANGED <<walk, tables, used, call, sent>>

(* The server stops; its handlers are lost at whatever await they are.      *)
Stop ==
  /\ boot.pc = "up" /\ stack = {}
  /\ boot' = [boot EXCEPT !.pc = "down"]
  /\ call' = [c \in Calls |-> Idle]
  /\ UNCHANGED <<walk, tables, used, sent>>

-----------------------------------------------------------------------------
(* The checks a handler makes before it writes                              *)

Checks(op) ==
  CASE op = "setup" -> <<"uninitialized", "hash">>
    [] op = "department.create" -> <<"ref">>
    [] op = "department.update" -> <<"id", "ref">>
    [] op = "department.delete" -> <<"id", "no children", "no members">>
    [] op = "member.create" -> <<"no such email", "hash">>
    [] op \in {"member.update", "workPattern.update", "leaveType.update",
               "csvMapping.update", "csvMapping.delete"} -> <<"id">>
    [] op = "workRule.set" -> <<"id", "existing rule">>
    [] op = "workPattern.delete" -> <<"id", "not assigned">>
    [] op = "user.assignWorkPattern" -> <<"id", "ref", "no overlap">>
    [] op = "leaveType.delete" -> <<"id", "no balance">>
    [] op = "leaveBalance.grant" -> <<"ref", "id">>
    [] op = "request.create" -> <<"ref">>
    [] op = "shift" -> <<"target", "departments", "visible">>
    [] OTHER -> <<>>

(* mutant: periods that share their last and first day do not overlap       *)
PeriodsMeet(p, q) == p[1] < q[2] /\ q[1] < p[2]

PeriodsOverlap(p, q) == p[1] <= q[2] /\ q[1] <= p[2]

Sees(k) ==
  LET actor == k.req.ref
      depts == IF ScopeOf[actor] = "org" THEN Depts
               ELSE IF k.from = NoDept THEN {} ELSE seen
  IN IsVisible(ScopeOf[actor], actor, depts, k.req.id, k.at)

IsInitialized == orgs # {}

(* mutant: members are not counted                                          *)
NotCounted(d) == TRUE

NoMembers(d) == \A u \in Users : home[u] # d

Passes(k, check) ==
  LET r == k.req IN
  CASE check = "uninitialized" -> ~IsInitialized
    [] check = "id" -> r.id \in exists
    [] check = "ref" -> r.ref \in (exists \cup {NoDept}) \ {r.id}
    [] check = "no children" -> \A d \in Depts : above[d] # r.id
    [] check = "no members" -> NoMembers(r.id)
    [] check = "no such email" -> r.id \notin exists
    [] check = "not assigned" -> \A a \in assigned : a.pattern # r.id
    [] check = "no overlap" ->
         \A a \in assigned : a.user = r.id => ~PeriodsOverlap(r.span, a.span)
    [] check = "no balance" -> \A b \in balances : b[2] # r.id
    [] check = "target" -> r.id \in exists
    [] check = "visible" -> Sees(k)
    [] OTHER -> TRUE

(* The JavaScript that walks the tree and tests the result does not await.  *)
AtCheck(c, check) ==
  LET checks == Checks(call[c].req.op) IN
  call[c].pc \in DOMAIN checks /\ checks[call[c].pc] = check

Turn(c) == stack = {} /\ \A b \in Calls \ {c} : ~AtCheck(b, "visible")

-----------------------------------------------------------------------------
(* Who sees whom: a single read asks isVisible, the lists have filters of   *)
(* their own.                                                               *)

Members == Users \cap exists

AccessibleTo(u) == AccessibleDepts([parent |-> above], home[u], ScopeOf[u])

(* What resolveTarget lets u read of one member.                            *)
ResolveTarget(u, t) ==
  t \in Members /\ (t = u \/ IsVisible(ScopeOf[u], u, AccessibleTo(u), t, home[t]))

(* mutant: the list of members without the one who asks                     *)
WithoutOneself(u) ==
  LET depts == AccessibleTo(u) IN
  CASE ScopeOf[u] = "org" -> Members
    [] ScopeOf[u] = "self" -> {u}
    [] OTHER -> {t \in Members : home[t] \in depts}

BuildScopeWhere(u) ==
  LET depts == AccessibleTo(u) IN
  CASE ScopeOf[u] = "org" -> Members
    [] ScopeOf[u] = "self" -> {u}
    [] OTHER -> {t \in Members : t = u \/ home[t] \in depts}

(* The members whose shifts are shown, to whoever asks for one or for all.  *)
ResolveUserIds(u, asked) ==
  LET depts == AccessibleTo(u) IN
  IF asked # NoUser
    THEN {t \in Members \cap {asked} : IsVisible(ScopeOf[u], u, depts, t, home[t])}
    ELSE CASE ScopeOf[u] = "self" -> {u}
           [] ScopeOf[u] = "org" -> Members
           [] OTHER -> {t \in Members : t = u \/ home[t] \in depts}

-----------------------------------------------------------------------------
(* The handlers                                                             *)

NewIds(r) ==
  IF r.op \in {"department.create", "workPattern.create", "leaveType.create",
              "csvMapping.create"}
    THEN {r.id} ELSE {}

(* An id is that of one row of one table; the seed's rows have ids of their *)
(* own, an assignment, a grant and a leave name the pattern or the type.    *)
ASSUME IdAssumption ==
  /\ ScopeOf \in [Users -> Scopes]
  /\ Users \cap Depts = {} /\ NoDept \notin Users
  /\ {hq, dev} \subseteq Depts /\ {taro, jiro, hana} \subseteq Users
  /\ {std, paid, comp} \cap (Users \cup Depts \cup {NoDept}) = {}
  /\ \A r \in Inputs :
       /\ r.op \in {"department.create", "department.update", "department.delete"}
            => r.id \in Depts /\ r.ref \in Depts \cup {NoDept}
       /\ r.op \in {"member.create", "member.update"}
            => r.id \in Users /\ r.ref \in Depts \cup {NoDept}
       /\ r.op \in {"workPattern.create", "workPattern.delete", "leaveType.create",
                    "leaveType.delete", "csvMapping.create", "csvMapping.delete"}
            => r.id \notin Users \cup Depts \cup {NoDept}
       /\ r.op \in {"user.assignWorkPattern", "leaveBalance.grant", "request.create"}
            => r.ref # NoDept
       /\ NewIds(r) \cap {hq, dev, std, paid, comp} = {}

(* Ids of new rows are new; everything but the setup needs an administrator *)
(* (and is followed in an instance of one organization only).               *)
MaySend(r) ==
  /\ NewIds(r) \cap used = {}
  /\ r.op # "setup" => admins # {} /\ Cardinality(orgs) = 1

(* Which of the idle handlers takes a request makes no difference.           *)
Send(c, r) ==
  /\ boot.pc = "up" /\ Turn(c)
  /\ call[c].pc = 0 /\ c = CHOOSE b \in Calls : call[b].pc = 0
  /\ sent < MaxRequests
  /\ MaySend(r)
  /\ sent' = sent + 1
  /\ used' = used \cup NewIds(r)
  /\ call' = [b \in Calls |->
       IF b = c
         THEN [Idle EXCEPT !.pc = 1, !.req = r, !.n = sent + 1, !.alone = Resting,
                           !.from = IF r.op = "shift" THEN home[r.ref] ELSE NoDept]
         ELSE [call[b] EXCEPT !.alone = call[b].pc = 0]]
  /\ UNCHANGED <<walk, boot, tables>>

Check(c) ==
  LET k == call[c]
      check == Checks(k.req.op)[k.pc]
  IN
  /\ Turn(c)
  /\ k.pc \in DOMAIN Checks(k.req.op)
  /\ check # "departments"
  /\ call' = [call EXCEPT ![c] =
       IF ~Passes(k, check) THEN Idle
       ELSE [k EXCEPT !.pc = @ + 1,
                      !.at = IF check = "target" THEN home[k.req.id] ELSE @,
                      !.found = IF check = "existing rule"
                                  THEN k.req.id \in rules ELSE @]]
  /\ UNCHANGED <<walk, boot, tables, used, sent>>

(* accessibleDeptIds: no query for an actor who sees everything or has no   *)
(* department; otherwise one, then the walk.                                *)
ReadDepartments(c) ==
  LET k == call[c]
      walks == ScopeOf[k.req.ref] # "org" /\ k.from # NoDept
  IN
  /\ Turn(c)
  /\ AtCheck(c, "departments")
  /\ call' = [call EXCEPT ![c].pc = @ + 1]
  /\ IF walks THEN parent' = above /\ root' = k.from /\ stack' = {k.from} /\ seen' = {}
              ELSE UNCHANGED walk
  /\ UNCHANGED <<boot, tables, used, sent>>

Walk ==
  /\ \E d \in stack : Visit(d)
  /\ UNCHANGED <<boot, tables, used, call, sent>>

AtWrite(c, op) == call[c].req.op = op /\ call[c].pc = Len(Checks(op)) + 1
Writing(c) == call[c].pc = Len(Checks(call[c].req.op)) + 1

(* mutant: date ranges without their last day                               *)
DatesMeetBefore(p, q) == \E d \in p[1]..(p[2] - 1) : d \in q[1]..(q[2] - 1)

(* user_work_pattern_no_overlap: date ranges that include both their ends.  *)
DatesMeet(p, q) == \E d \in p[1]..p[2] : d \in q[1]..q[2]

(* What the database refuses: a row that is gone, a reference to one that   *)
(* is, a second e-mail, overlapping assignments, the removal of a pattern   *)
(* or leave type in use.                                                    *)
Constraints(k) ==
  LET r == k.req IN
  CASE r.op = "department.create" -> r.ref \in exists \cup {NoDept}
    [] r.op = "department.update" -> r.id \in exists /\ r.ref \in exists \cup {NoDept}
    [] r.op \in {"department.delete", "workPattern.update", "leaveType.update",
                 "csvMapping.update", "csvMapping.delete"} -> r.id \in exists
    [] r.op = "member.create" -> r.id \notin exists /\ r.ref \in exists \cup {NoDept}
    [] r.op = "member.update" -> r.ref \in exists
    [] r.op = "workRule.set" ->
         IF k.found THEN r.id \in rules ELSE r.id \in exists
    [] r.op = "workPattern.delete" ->
         r.id \in exists /\ \A a \in assigned : a.pattern # r.id
    [] r.op = "user.assignWorkPattern" ->
         /\ r.ref \in exists
         /\ \A a \in assigned : a.user = r.id => ~DatesMeet(r.span, a.span)
    [] r.op = "leaveType.delete" -> r.id \in exists /\ \A b \in balances : b[2] # r.id
    [] r.op \in {"leaveBalance.grant", "request.create"} -> r.ref \in exists
    [] OTHER -> TRUE

(* DELETE with the foreign keys' actions: SET NULL for departments and the  *)
(* type of a leave request, CASCADE for the rules of a pattern.             *)
Delete(id) ==
  /\ exists' = exists \ {id}
  /\ above' = [d \in Depts |-> IF id \in {d, above[d]} THEN NoDept ELSE above[d]]
  /\ home' = [u \in Users |-> IF home[u] = id THEN NoDept ELSE home[u]]
  /\ rules' = rules \ {id}
  /\ leaves' = {IF l[2] = id THEN <<l[1], NoDept>> ELSE l : l \in leaves}
  /\ UNCHANGED <<orgs, admins, assigned, balances, planned>>

InsertFor(c, table) ==
  LET k == call[c] IN Insert(table, k.req.id, k.req.ref, k.req.span, k.n)

CreateDepartment(c) == AtWrite(c, "department.create") /\ InsertFor(c, "department")

UpdateDepartment(c) ==
  LET r == call[c].req IN
  /\ AtWrite(c, "department.update")
  /\ above' = IF r.ref = NoDept THEN above ELSE [above EXCEPT ![r.id] = r.ref]
  /\ UNCHANGED <<orgs, admins, exists, home, rules, assigned, balances, planned, leaves>>

RemoveDepartment(c) == AtWrite(c, "department.delete") /\ Delete(call[c].req.id)

CreateMember(c) == AtWrite(c, "member.create") /\ InsertFor(c, "app_user")

MoveMember(c) ==
  LET r == call[c].req IN
  /\ AtWrite(c, "member.update")
  /\ home' = [home EXCEPT ![r.id] = r.ref]
  /\ UNCHANGED <<orgs, admins, exists, above, rules, assigned, balances, planned, leaves>>

CreatePattern(c) == AtWrite(c, "workPattern.create") /\ InsertFor(c, "work_pattern")

UpdatePattern(c) == AtWrite(c, "workPattern.update") /\ UNCHANGED tables

(* The rule found is rewritten in place; only a pattern without one gets a  *)
(* row.                                                                     *)
SetRule(c) ==
  /\ AtWrite(c, "workRule.set")
  /\ IF call[c].found THEN UNCHANGED tables ELSE InsertFor(c, "work_rule")

RemovePattern(c) == AtWrite(c, "workPattern.delete") /\ Delete(call[c].req.id)

AssignWorkPattern(c) ==
  AtWrite(c, "user.assignWorkPattern") /\ InsertFor(c, "user_work_pattern")

CreateType(c) == AtWrite(c, "leaveType.create") /\ InsertFor(c, "leave_type")

UpdateType(c) == AtWrite(c, "leaveType.update") /\ UNCHANGED tables

RemoveType(c) == AtWrite(c, "leaveType.delete") /\ Delete(call[c].req.id)

GrantBalance(c) == AtWrite(c, "leaveBalance.grant") /\ InsertFor(c, "leave_balance")

(* Of a leave request: its type. Its life is the subject of RequestWorkflow. *)
FileLeave(c) == AtWrite(c, "request.create") /\ InsertFor(c, "request")

CreateMapping(c) == AtWrite(c, "csvMapping.create") /\ InsertFor(c, "csv_mapping")

UpdateMapping(c) == AtWrite(c, "csvMapping.update") /\ UNCHANGED tables

RemoveMapping(c) == AtWrite(c, "csvMapping.delete") /\ Delete(call[c].req.id)

UpdateOrganization(c) == AtWrite(c, "organization.update") /\ UNCHANGED tables

PlanShift(c) == AtWrite(c, "shift") /\ InsertFor(c, "shift")

(* mutant: the administrator is left to a later statement                   *)
SetupInParts(c) ==
  /\ AtWrite(c, "setup")
  /\ orgs' = orgs \cup {call[c].n}
  /\ UNCHANGED <<admins, exists, above, home, rules, assigned, balances, planned, leaves>>

(* One transaction for the organization, its roles and its administrator.   *)
Setup(c) ==
  /\ AtWrite(c, "setup")
  /\ orgs' = orgs \cup {call[c].n} /\ admins' = admins \cup {call[c].n}
  /\ UNCHANGED <<exists, above, home, rules, assigned, balances, planned, leaves>>

(* Two handlers write their record in the transaction of the write, the     *)
(* others after it or never.                                                *)
InTransaction == {"setup", "request.create"}

Audited(op) ==
  op \notin InTransaction \cup
    {"shift", "leaveType.update", "leaveType.delete",
     "csvMapping.create", "csvMapping.update", "csvMapping.delete"}

Write(c) ==
  LET k == call[c] IN
  /\ Turn(c)
  /\ Writing(c) /\ Constraints(k)
  /\ \/ CreateDepartment(c) \/ UpdateDepartment(c) \/ RemoveDepartment(c)
     \/ CreateMember(c) \/ MoveMember(c)
     \/ CreatePattern(c) \/ UpdatePattern(c) \/ SetRule(c) \/ RemovePattern(c)
     \/ AssignWorkPattern(c)
     \/ CreateType(c) \/ UpdateType(c) \/ RemoveType(c) \/ GrantBalance(c) \/ FileLeave(c)
     \/ CreateMapping(c) \/ UpdateMapping(c) \/ RemoveMapping(c)
     \/ PlanShift(c)
     \/ UpdateOrganization(c) \/ Setup(c)
  /\ call' = [call EXCEPT ![c] = IF Audited(k.req.op) THEN [k EXCEPT !.pc = @ + 1] ELSE Idle]
  /\ UNCHANGED <<walk, boot, used, sent>>

(* The error goes to the client as a conflict, a missing row or a fault.     *)
Refused(c) ==
  /\ Turn(c)
  /\ Writing(c) /\ ~Constraints(call[c])
  /\ call' = [call EXCEPT ![c] = Idle]
  /\ UNCHANGED <<walk, boot, tables, used, sent>>

Record(c) ==
  LET k == call[c] IN
  /\ Turn(c)
  /\ k.pc = Len(Checks(k.req.op)) + 2
  /\ call' = [call EXCEPT ![c] = Idle]
  /\ UNCHANGED <<walk, boot, tables, used, sent>>

-----------------------------------------------------------------------------
Handle(c) == Check(c) \/ ReadDepartments(c) \/ Write(c) \/ Refused(c) \/ Record(c)

DataNext ==
  \/ Boot \/ Seed \/ CutSeed \/ Stop
  \/ Walk
  \/ \E c \in Calls : Handle(c) \/ \E r \in Inputs : Send(c, r)

DataSpec == DataInit /\ [][DataNext]_dataVars /\ WF_dataVars(Walk)

-----------------------------------------------------------------------------
(* Properties                                                               *)

(* Whatever the order in which setups and starts of the container come, an  *)
(* organization has its administrator, unless the seed was cut short: the   *)
(* setup is a transaction and the seed is not.                              *)
InitializedHasAdmin == boot.pc # "seed" /\ ~boot.cut => orgs \subseteq admins

(* A member loses his department, and a department its parent, only to a    *)
(* removal that overlapped another request; the database then clears the    *)
(* reference without a word.                                                *)
NobodyStripped ==
  [][(\E u \in Users : home[u] # NoDept /\ home'[u] = NoDept)
       \/ (\E d \in Depts : above[d] # NoDept /\ above'[d] = NoDept /\ d \in exists')
     => \E c \in Calls : AtWrite(c, "department.delete") /\ ~call[c].alone]_dataVars

(* The checks in the code leave the database nothing to refuse when requests *)
(* do not overlap; only the department of a member is never looked up.      *)
LoneRequestsSucceed ==
  \A c \in Calls :
    LET k == call[c] IN
    Writing(c) /\ k.alone /\ ~Constraints(k)
      => k.req.op \in {"member.create", "member.update"} /\ k.req.ref \notin exists

(* A list shows exactly the members of whom a single read is allowed, to    *)
(* every member and however the tree was moved about: the visibility rule   *)
(* is written down once and the filters of two lists repeat it as queries.  *)
ListsAgree ==
  Resting => \A u \in Members :
    LET readable == {t \in Members : ResolveTarget(u, t)} IN
    /\ BuildScopeWhere(u) = readable
    /\ ResolveUserIds(u, NoUser) = readable
    /\ \A t \in Users : ResolveUserIds(u, t) = readable \cap {t}

(* On no day do two work patterns apply to a member, although two requests  *)
(* may both find the period free.                                           *)
AssignmentsDisjoint ==
  \A a, b \in assigned :
    a.user = b.user /\ a # b => ~PeriodsOverlap(a.span, b.span)
=============================================================================
