--------------------------- MODULE Administration ---------------------------
(***************************************************************************)
(* Roles and members: roles.module.ts and users.controller.ts, with the     *)
(* permission check in front of them, the administrators' count that guards *)
(* role changes and the connection pool the transactions share.             *)
(*                                                                          *)
(* Every await is a step. What a transaction has written is kept in its     *)
(* call until the commit applies it: READ COMMITTED shows it to nobody      *)
(* else, and others that need the same row, role name or reference wait.    *)
(***************************************************************************)
EXTENDS Naturals, FiniteSets

CONSTANTS Users,     \* members; a member stands for its e-mail address
          Roles,     \* role ids; the bound on roles ever created
          Names,     \* role names
          PermSets,  \* permission lists a caller may send
          RoleSets,  \* lists of role ids a caller may send
          Calls,     \* requests made; each is used once
          PoolSize,  \* connections of the Prisma client's pool
          Keep,      \* an optional field left out of the body
          Nobody, NoRole,
          InitUser, InitRole, InitHeld

Scopes == {"self", "department", "location", "org"}
Permissions == [can : {"role.manage", "member.create", "member.edit"},
                scope : Scopes]

(* An unused row has no name and no permissions yet.                        *)
RoleRows ==
  [at : {"unused", "here", "gone"}, name : Names \cup {Keep}, perms : PermSets \cup {Keep}]

ASSUME AdministrationAssumption ==
  /\ PermSets \subseteq SUBSET Permissions
  /\ RoleSets \subseteq SUBSET Roles
  /\ PoolSize \in Nat \ {0}
  /\ Keep \notin Names \cup PermSets \cup RoleSets
  /\ Nobody \notin Users /\ NoRole \notin Roles

(* The tables the model starts from obey the database's constraints: unique *)
(* names, and references to rows that exist.                                *)
ASSUME InitAssumption ==
  /\ InitRole \in [Roles -> RoleRows]
  /\ InitUser \in [Users -> {"absent", "active", "suspended"}]
  /\ InitHeld \subseteq Users \X Roles
  /\ \A r, s \in Roles :
       /\ InitRole[r].at = "here" /\ InitRole[s].at = "here"
       /\ InitRole[r].name = InitRole[s].name
       => r = s
  /\ \A h \in InitHeld : InitUser[h[1]] # "absent" /\ InitRole[h[2]].at = "here"

VARIABLES role,   \* the role table: unused ids, roles and deleted roles
          user,   \* app_user.status, "absent" before the member exists
          held,   \* user_role
          audit,  \* audit_log
          call    \* the requests and their transactions

vars == <<role, user, held, audit, call>>

Dir == INSTANCE Directory WITH Depts <- {}, NoUser <- Nobody, NoDept <- Keep

Idle == [pc |-> "idle", op |-> "none", role |-> NoRole, member |-> Nobody,
         name |-> Keep, perms |-> Keep, status |-> Keep, roles |-> Keep,
         rest |-> FALSE, replaced |-> {}, admins |-> {}]
Done == [Idle EXCEPT !.pc = "done"]

Init ==
  /\ role = InitRole
  /\ user = InitUser
  /\ held = InitHeld
  /\ audit = {}
  /\ call = [c \in Calls |-> Idle]

Here(r) == r \in Roles /\ role[r].at = "here"

RolesOf(u) == {r \in Roles : <<u, r>> \in held}

(* The scopes at which the roles of a member grant something.               *)
Granted(u, can) ==
  {p.scope : p \in {q \in UNION {role[r].perms : r \in RolesOf(u)} : q.can = can}}

(* The session keeps the member's id; the row is read with every request.   *)
SignedIn(u) == user[u] = "active"

MayDo(u, can) == SignedIn(u) /\ Dir!ResolveScope(Granted(u, can)) # Dir!NoScope

Admins ==
  {u \in Users : user[u] = "active"
                 /\ Dir!ResolveScope(Granted(u, "role.manage")) = "org"}

-----------------------------------------------------------------------------
(* The pool and the locks                                                   *)

InTx(c) == call[c].pc \in {"write", "roles", "deleting", "create", "count", "finish"}
Wrote(c) == InTx(c) /\ call[c].pc # "write"

ConnectionFree == Cardinality({c \in Calls : InTx(c)}) < PoolSize

Others(c) == {d \in Calls \ {c} : Wrote(d)}

Deletes(d, r) == call[d].op = "role.delete" /\ call[d].role = r
Renames(d, r) ==
  /\ call[d].op = "role.update" /\ call[d].role = r
  /\ call[d].name \notin {Keep, role[r].name}

(* user_role rows a transaction has inserted or deleted.                    *)
Inserts(d, m, r) ==
  /\ call[d].op = "member.update" /\ call[d].pc = "finish"
  /\ call[d].member = m /\ call[d].roles # Keep /\ r \in call[d].roles
Removes(d, m, r) ==
  \/ Deletes(d, r)
  \/ /\ call[d].op = "member.update" /\ call[d].pc \in {"create", "finish"}
     /\ call[d].member = m /\ r \in call[d].replaced

RowBusy(c, r) == \E d \in Others(c) : call[d].role = r
MemberBusy(c, m) == \E d \in Others(c) : call[d].member = m /\ call[d].rest
NameBusy(c, n) ==
  \E d \in Others(c) :
    \/ call[d].op = "role.update" /\ call[d].name = n
    \/ \E r \in Roles : role[r].name = n /\ (Deletes(d, r) \/ Renames(d, r))
NameTaken(n, r) == \E s \in Roles \ {r} : Here(s) /\ role[s].name = n

(* A reference to a role waits for a transaction that may take it away.     *)
ReferenceBusy(c, rs) ==
  \E d \in Others(c), r \in rs : Deletes(d, r) \/ Renames(d, r)

-----------------------------------------------------------------------------
(* The permission guard lets a request in                                   *)

Admit(c, u, can, k) ==
  /\ call[c].pc = "idle"
  /\ ConnectionFree
  /\ MayDo(u, can)
  /\ call' = [call EXCEPT ![c] = k]
  /\ UNCHANGED <<role, user, held, audit>>

StartCreateRole(c) ==
  \E u \in Users, n \in Names, ps \in PermSets :
    Admit(c, u, "role.manage",
          [Idle EXCEPT !.pc = "check", !.op = "role.create", !.name = n, !.perms = ps])

StartDuplicateRole(c) ==
  \E u \in Users, r \in Roles, n \in Names :
    /\ role[r].at # "unused"
    /\ Admit(c, u, "role.manage",
             [Idle EXCEPT !.pc = "load", !.op = "role.duplicate", !.role = r, !.name = n])

StartUpdateRole(c) ==
  \E u \in Users, r \in Roles, n \in Names \cup {Keep}, ps \in PermSets \cup {Keep} :
    /\ role[r].at # "unused"
    /\ Admit(c, u, "role.manage",
             [Idle EXCEPT !.pc = "load", !.op = "role.update", !.role = r,
                          !.name = n, !.perms = ps])

StartDeleteRole(c) ==
  \E u \in Users, r \in Roles :
    /\ role[r].at # "unused"
    /\ Admit(c, u, "role.manage",
             [Idle EXCEPT !.pc = "load", !.op = "role.delete", !.role = r])

StartCreateMember(c) ==
  \E u, m \in Users, rs \in RoleSets :
    Admit(c, u, "member.create",
          [Idle EXCEPT !.pc = "check", !.op = "member.create", !.member = m, !.roles = rs])

(* `rest`: the body has another field than roleIds.                         *)
StartUpdateMember(c) ==
  \E u, m \in Users, st \in {"active", "suspended", Keep}, rs \in RoleSets \cup {Keep},
     rest \in BOOLEAN :
    /\ user[m] # "absent"
    /\ st # Keep => rest
    /\ Admit(c, u, "member.edit",
             [Idle EXCEPT !.pc = "load", !.op = "member.update", !.member = m,
                          !.status = st, !.roles = rs, !.rest = rest])

-----------------------------------------------------------------------------
(* Reads before the write                                                   *)

GoTo(c, pc) == call' = [call EXCEPT ![c].pc = pc]
End(c) == call' = [call EXCEPT ![c] = Done]

(* get and assertSameOrg: 404 ends the request. A copy takes the            *)
(* permissions as they are now.                                             *)
Load(c) ==
  LET k == call[c] IN
  /\ k.pc = "load"
  /\ ConnectionFree
  /\ \/ k.op = "member.update" /\ GoTo(c, "open")
     \/ k.role # NoRole /\ ~Here(k.role) /\ End(c)
     \/ /\ k.op = "role.duplicate" /\ Here(k.role)
        /\ call' = [call EXCEPT ![c] =
             [k EXCEPT !.pc = "check", !.role = NoRole, !.perms = role[k.role].perms]]
     \/ /\ k.op \in {"role.update", "role.delete"} /\ Here(k.role)
        /\ GoTo(c, IF k.name = Keep THEN "open" ELSE "check")
  /\ UNCHANGED <<role, user, held, audit>>

(* assertUniqueName and the search for the e-mail address: 409 ends it.     *)
Check(c) ==
  LET k == call[c]
      conflict == IF k.op = "member.create" THEN user[k.member] # "absent"
                                            ELSE NameTaken(k.name, k.role)
  IN
  /\ k.pc = "check"
  /\ ConnectionFree
  /\ IF conflict THEN End(c)
                 ELSE GoTo(c, IF k.op = "role.update" THEN "open" ELSE "insert")
  /\ UNCHANGED <<role, user, held, audit>>

-----------------------------------------------------------------------------
(* Single statements                                                        *)

(* mutant: a role table without @@unique([orgId, name])                     *)
InsertRoleUnconstrained(c) ==
  LET k == call[c] IN
  /\ k.pc = "insert" /\ k.op \in {"role.create", "role.duplicate"}
  /\ ConnectionFree
  /\ \E r \in Roles :
       /\ role[r].at = "unused"
       /\ role' = [role EXCEPT ![r] = [at |-> "here", name |-> k.name, perms |-> k.perms]]
       /\ call' = [call EXCEPT ![c] = [k EXCEPT !.pc = "audit", !.role = r]]
  /\ UNCHANGED <<user, held, audit>>

(* role.create; the unique index refuses a name that was taken meanwhile.   *)
InsertRole(c) ==
  LET k == call[c] IN
  /\ k.pc = "insert" /\ k.op \in {"role.create", "role.duplicate"}
  /\ ConnectionFree
  /\ ~NameBusy(c, k.name)
  /\ \/ NameTaken(k.name, NoRole) /\ End(c) /\ UNCHANGED role
     \/ /\ ~NameTaken(k.name, NoRole)
        /\ \E r \in Roles :
             /\ role[r].at = "unused"
             /\ role' = [role EXCEPT ![r] =
                           [at |-> "here", name |-> k.name, perms |-> k.perms]]
             /\ call' = [call EXCEPT ![c] = [k EXCEPT !.pc = "audit", !.role = r]]
  /\ UNCHANGED <<user, held, audit>>

(* appUser.create with its user_role rows: all of them or none.             *)
InsertMember(c) ==
  LET k == call[c]
      refused == user[k.member] # "absent" \/ \E r \in k.roles : ~Here(r)
  IN
  /\ k.pc = "insert" /\ k.op = "member.create"
  /\ ConnectionFree
  /\ ~ReferenceBusy(c, k.roles)
  /\ IF refused
       THEN End(c) /\ UNCHANGED <<user, held>>
       ELSE /\ user' = [user EXCEPT ![k.member] = "active"]
            /\ held' = held \cup ({k.member} \X k.roles)
            /\ GoTo(c, "audit")
  /\ UNCHANGED <<role, audit>>

-----------------------------------------------------------------------------
(* Transactions                                                             *)

(* $transaction takes a connection and keeps it.                            *)
Open(c) ==
  /\ call[c].pc = "open"
  /\ ConnectionFree
  /\ GoTo(c, "write")
  /\ UNCHANGED <<role, user, held, audit>>

(* tx.role.update, or tx.userRole.deleteMany and tx.role.delete. A role     *)
(* deleted meanwhile, or a name taken meanwhile, ends the transaction.      *)
WriteRole(c) ==
  LET k == call[c]
      renamed == k.op = "role.update" /\ k.name # Keep /\ k.name # role[k.role].name
      lost == ~Here(k.role) \/ (renamed /\ NameTaken(k.name, k.role))
  IN
  /\ k.pc = "write" /\ k.op \in {"role.update", "role.delete"}
  /\ ~RowBusy(c, k.role)
  /\ renamed => ~NameBusy(c, k.name)
  /\ k.op = "role.delete" \/ renamed =>
       ~\E d \in Others(c), m \in Users : Inserts(d, m, k.role)
  /\ k.op = "role.delete" => ~\E d \in Others(c), m \in Users : Removes(d, m, k.role)
  /\ IF lost THEN End(c) ELSE GoTo(c, "count")
  /\ UNCHANGED <<role, user, held, audit>>

(* rbac.countAdmins runs on the client, not on the transaction: it needs a  *)
(* second connection and reads what is committed, the change not included.  *)
Count(c) ==
  /\ call[c].pc = "count"
  /\ ConnectionFree
  /\ call' = [call EXCEPT ![c].pc = "finish", ![c].admins = Admins]
  /\ UNCHANGED <<role, user, held, audit>>

CommitRole(c) ==
  LET k == call[c] IN
  /\ k.pc = "finish" /\ k.admins # {}
  /\ \/ /\ k.op = "role.update"
        /\ role' = [role EXCEPT
             ![k.role].name  = IF k.name = Keep THEN @ ELSE k.name,
             ![k.role].perms = IF k.perms = Keep THEN @ ELSE k.perms]
        /\ UNCHANGED held
     \/ /\ k.op = "role.delete"
        /\ role' = [role EXCEPT ![k.role].at = "gone"]
        /\ held' = {h \in held : h[2] # k.role}
  /\ GoTo(c, "audit")
  /\ UNCHANGED <<user, audit>>

(* mutant: the exception of a refused change is swallowed                    *)
RefuseQuietly(c) ==
  /\ call[c].pc = "finish" /\ call[c].op # "member.update"
  /\ call[c].admins = {}
  /\ GoTo(c, "audit")
  /\ UNCHANGED <<role, user, held, audit>>

(* No administrator was counted: last_admin, and the transaction ends.      *)
Refuse(c) ==
  /\ call[c].pc = "finish" /\ call[c].op # "member.update"
  /\ call[c].admins = {}
  /\ End(c)
  /\ UNCHANGED <<role, user, held, audit>>

(* tx.appUser.update locks the member's row, but an update clause without a *)
(* value is no UPDATE: with roleIds alone nothing is locked.                *)
WriteMember(c) ==
  LET k == call[c] IN
  /\ k.pc = "write" /\ k.op = "member.update"
  /\ k.rest => ~MemberBusy(c, k.member)
  /\ GoTo(c, IF k.roles = Keep THEN "finish" ELSE "roles")
  /\ UNCHANGED <<role, user, held, audit>>

(* tx.userRole.deleteMany finds the rows committed when it starts ...       *)
FindRoles(c) ==
  /\ call[c].pc = "roles"
  /\ call' = [call EXCEPT ![c].pc = "deleting", ![c].replaced = RolesOf(call[c].member)]
  /\ UNCHANGED <<role, user, held, audit>>

(* ... and waits for those that another transaction has deleted.            *)
DeleteRoles(c) ==
  LET k == call[c] IN
  /\ k.pc = "deleting"
  /\ ~\E d \in Others(c), r \in k.replaced : Removes(d, k.member, r)
  /\ GoTo(c, IF k.roles = {} THEN "finish" ELSE "create")
  /\ UNCHANGED <<role, user, held, audit>>

(* mutant: user_role without its foreign key on role                         *)
CreateRolesUnconstrained(c) ==
  LET k == call[c] IN
  /\ k.pc = "create"
  /\ ~\E d \in Others(c), r \in k.roles :
        Inserts(d, k.member, r) \/ (Removes(d, k.member, r) /\ ~Deletes(d, r))
  /\ IF \E r \in k.roles : r \in RolesOf(k.member) \ k.replaced
       THEN End(c) ELSE GoTo(c, "finish")
  /\ UNCHANGED <<role, user, held, audit>>

(* createMany waits for transactions that may take a role away and for      *)
(* those that have inserted or deleted the same row. A role not there, and  *)
(* a row that is there although this transaction deleted what it had found, *)
(* end the transaction.                                                     *)
CreateRoles(c) ==
  LET k == call[c] IN
  /\ k.pc = "create"
  /\ ~ReferenceBusy(c, k.roles)
  /\ ~\E d \in Others(c), r \in k.roles : Inserts(d, k.member, r) \/ Removes(d, k.member, r)
  /\ IF \E r \in k.roles : ~Here(r) \/ r \in RolesOf(k.member) \ k.replaced
       THEN End(c) ELSE GoTo(c, "finish")
  /\ UNCHANGED <<role, user, held, audit>>

(* All writes of the transaction become visible together; a deleteMany that *)
(* waited for its deleted rows finds them gone.                             *)
CommitMember(c) ==
  LET k == call[c] IN
  /\ k.pc = "finish" /\ k.op = "member.update"
  /\ user' = [user EXCEPT ![k.member] = IF k.status = Keep THEN @ ELSE k.status]
  /\ held' = IF k.roles = Keep
               THEN held
               ELSE (held \ ({k.member} \X k.replaced)) \cup ({k.member} \X k.roles)
  /\ call' = [d \in Calls |->
       IF d = c THEN [k EXCEPT !.pc = "audit"]
       ELSE IF call[d].pc = "deleting" /\ call[d].member = k.member
         THEN [call[d] EXCEPT !.replaced = @ \ k.replaced]
         ELSE call[d]]
  /\ UNCHANGED <<role, audit>>

(* audit.record, after the commit and outside of it.                        *)
Audit(c) ==
  LET k == call[c] IN
  /\ k.pc = "audit"
  /\ ConnectionFree
  /\ audit' = audit \cup {[action |-> k.op, role |-> k.role, member |-> k.member]}
  /\ End(c)
  /\ UNCHANGED <<role, user, held>>

-----------------------------------------------------------------------------
(* mutant: transactions may take as long as they like                        *)
NoTxTimeout(c) == FALSE /\ UNCHANGED vars

(* Prisma rolls an interactive transaction back after five seconds.         *)
TxTimeout(c) ==
  /\ InTx(c)
  /\ End(c)
  /\ UNCHANGED <<role, user, held, audit>>

(* A query that gets no connection for ten seconds fails. The rest of the   *)
(* server uses the pool too, so this may happen at any time.                *)
PoolTimeout(c) ==
  /\ call[c].pc \in {"load", "check", "insert", "open", "audit"}
  /\ End(c)
  /\ UNCHANGED <<role, user, held, audit>>

Start(c) ==
  \/ StartCreateRole(c)
  \/ StartDuplicateRole(c)
  \/ StartUpdateRole(c)
  \/ StartDeleteRole(c)
  \/ StartCreateMember(c)
  \/ StartUpdateMember(c)

Continue(c) ==
  \/ Load(c)
  \/ Check(c)
  \/ InsertRole(c)
  \/ InsertMember(c)
  \/ Open(c)
  \/ WriteRole(c)
  \/ Count(c)
  \/ CommitRole(c)
  \/ Refuse(c)
  \/ WriteMember(c)
  \/ FindRoles(c)
  \/ DeleteRoles(c)
  \/ CreateRoles(c)
  \/ CommitMember(c)
  \/ Audit(c)

Next == \E c \in Calls : Start(c) \/ Continue(c) \/ TxTimeout(c) \/ PoolTimeout(c)

Spec == Init /\ [][Next]_vars

(* A step whose connection and locks are free is taken, and no transaction  *)
(* outlives its five seconds. Nobody has to make a request.                 *)
FairSpec ==
  Spec /\ \A c \in Calls : WF_vars(Continue(c)) /\ WF_vars(TxTimeout(c))

-----------------------------------------------------------------------------
(* Properties                                                               *)

Ops == {"none", "role.create", "role.duplicate", "role.update", "role.delete",
        "member.create", "member.update"}

CallStates ==
  [pc : {"idle", "load", "check", "insert", "open", "write", "roles", "deleting",
         "create", "count", "finish", "audit", "done"},
   op : Ops,
   role : Roles \cup {NoRole}, member : Users \cup {Nobody},
   name : Names \cup {Keep}, perms : PermSets \cup {Keep},
   status : {"active", "suspended", Keep}, roles : RoleSets \cup {Keep},
   rest : BOOLEAN, replaced : SUBSET Roles, admins : SUBSET Users]

(* The tables and the requests under way keep their types.                  *)
TypeOK ==
  /\ role \in [Roles -> RoleRows]
  /\ user \in [Users -> {"absent", "active", "suspended"}]
  /\ held \subseteq Users \X Roles
  /\ audit \subseteq [action : Ops, role : Roles \cup {NoRole},
                      member : Users \cup {Nobody}]
  /\ call \in [Calls -> CallStates]

(* Two roles never have the same name, although each request only looked    *)
(* for the name before it wrote it.                                         *)
NamesUnique ==
  \A r, s \in Roles : Here(r) /\ Here(s) /\ role[r].name = role[s].name => r = s

(* Nobody holds a role that was removed, although members are given roles   *)
(* while roles are being removed.                                           *)
HeldRolesExist == \A h \in held : Here(h[2])

Tells(a) ==
  /\ a.action = "role.delete" => role[a.role].at = "gone"
  /\ a.action \in {"role.create", "role.duplicate"} => role[a.role].at # "unused"
  /\ a.action = "member.create" => user[a.member] # "absent"

(* The audit log names only changes that were committed.                    *)
AuditTellsTruth == \A a \in audit : Tells(a)

RoleCommits(c) ==
  /\ call[c].op \in {"role.update", "role.delete"}
  /\ call[c].pc = "finish" /\ call'[c].pc = "audit"

(* roles.module.ts:114: a change that leaves no active user with            *)
(* role:manage@org is refused. It is not: the count does not see it.        *)
AdminRemains == [][\A c \in Calls : RoleCommits(c) => Admins' # {}]_vars

(* A request ends, although role changes keep one connection of the pool    *)
(* while they wait for another.                                             *)
ChangesEnd == \A c \in Calls : call[c].pc = "open" ~> call[c].pc = "done"
=============================================================================
