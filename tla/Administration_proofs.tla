------------------------ MODULE Administration_proofs ------------------------
(***************************************************************************)
(* What holds of roles and members for any number of them, of requests and  *)
(* of connections. The argument is about the transactions that have written *)
(* and not yet committed: each of them relies on what it found when it      *)
(* wrote, and the locks keep the others from taking it away.                *)
(***************************************************************************)
EXTENDS Administration, TLAPS

RoleChanges == {"role.update", "role.delete"}
NewRoles == {"role.create", "role.duplicate"}

(* What the program counter of a request says of its other fields.          *)
Place(k) ==
  /\ k.op \in RoleChanges => k.role \in Roles
  /\ k.op \in NewRoles /\ k.pc = "audit" => k.role \in Roles
  /\ k.op = "member.create" => k.member \in Users /\ k.roles \in RoleSets
  /\ k.op = "member.update" => k.member \in Users /\ k.roles \in RoleSets \cup {Keep}
  /\ k.pc \in {"roles", "deleting", "create"} => k.op = "member.update" /\ k.roles # Keep
  /\ k.pc = "count" => k.op \in RoleChanges
  /\ k.pc = "finish" => k.op \in RoleChanges \cup {"member.update"}

Placed == \A c \in Calls : Place(call[c])
TypeInv == TypeOK /\ Placed

(* A change of a role between its write and its commit; one that gives it a *)
(* name; a change of a member's roles before its commit.                    *)
Locking(k) == k.op \in RoleChanges /\ k.pc \in {"count", "finish"}
Naming(k) == Locking(k) /\ k.op = "role.update" /\ k.name # Keep
Giving(k) == k.op = "member.update" /\ k.pc = "finish" /\ k.roles # Keep

LockedHere == \A c \in Calls : Locking(call[c]) => Here(call[c].role)
LockedOnce ==
  \A c, d \in Calls : c # d /\ Locking(call[c]) /\ Locking(call[d])
                      => call[c].role # call[d].role
NamesFree ==
  \A c \in Calls : Naming(call[c]) => ~NameTaken(call[c].name, call[c].role)
NamedOnce ==
  \A c, d \in Calls : c # d /\ Naming(call[c]) /\ Naming(call[d])
                      => call[c].name # call[d].name
GivenHere == \A c \in Calls : Giving(call[c]) => \A r \in call[c].roles : Here(r)
GivenKept ==
  \A c, d \in Calls :
    Giving(call[c]) /\ Locking(call[d]) /\ call[d].op = "role.delete"
    => call[d].role \notin call[c].roles

LockInv == LockedHere /\ LockedOnce /\ NamesFree /\ NamedOnce /\ GivenHere /\ GivenKept
TableInv == NamesUnique /\ HeldRolesExist
AdminInv == TypeInv /\ LockInv /\ TableInv

-----------------------------------------------------------------------------
(* Types                                                                    *)

LEMMA IdleType == Idle \in CallStates /\ Place(Idle) /\ Done \in CallStates /\ Place(Done)
                  /\ ~Locking(Done) /\ ~Giving(Done) /\ Done.pc = "done"
BY DEF Idle, Done, CallStates, Ops, Place, RoleChanges, NewRoles, Locking, Giving

(* A request that moves on without touching a table.                        *)
LEMMA CallTypes ==
  ASSUME TypeInv, NEW c \in Calls, NEW k \in CallStates, Place(k),
         call' = [call EXCEPT ![c] = k]
  PROVE  call' \in [Calls -> CallStates] /\ Placed'
BY DEF TypeInv, TypeOK, Placed

LEMMA GoToTypes ==
  ASSUME TypeInv, NEW c \in Calls,
         NEW pc \in {"load", "check", "insert", "open", "write", "roles", "deleting",
                     "create", "count", "finish", "audit", "done"},
         GoTo(c, pc), Place([call[c] EXCEPT !.pc = pc])
  PROVE  call' \in [Calls -> CallStates] /\ Placed'
<1> DEFINE k == [call[c] EXCEPT !.pc = pc]
<1>1. call[c] \in CallStates
  BY DEF TypeInv, TypeOK
<1>2. k \in CallStates
  BY <1>1 DEF CallStates
<1>3. call' = [call EXCEPT ![c] = k]
  BY DEF GoTo
<1> HIDE DEF k
<1>4. Place(k)
  BY DEF k
<1> QED
  BY <1>2, <1>3, <1>4, CallTypes

LEMMA EndTypes ==
  ASSUME TypeInv, NEW c \in Calls, End(c)
  PROVE  call' \in [Calls -> CallStates] /\ Placed'
BY IdleType, CallTypes DEF End

LEMMA StartTypes ==
  ASSUME TypeInv, NEW c \in Calls, Start(c)
  PROVE  TypeInv'
<1>1. ASSUME NEW u, NEW can, NEW k \in CallStates, Place(k), Admit(c, u, can, k)
      PROVE  TypeInv'
  BY <1>1, CallTypes DEF Admit, TypeInv, TypeOK
<1>2. CASE StartCreateRole(c)
  <2>1. PICK u \in Users, n \in Names, ps \in PermSets :
          Admit(c, u, "role.manage", [Idle EXCEPT !.pc = "check", !.op = "role.create",
                                                  !.name = n, !.perms = ps])
    BY <1>2 DEF StartCreateRole
  <2> DEFINE k == [Idle EXCEPT !.pc = "check", !.op = "role.create",
                               !.name = n, !.perms = ps]
  <2>2. k \in CallStates /\ Place(k)
    BY DEF Idle, CallStates, Ops, Place, RoleChanges, NewRoles
  <2> QED
    BY <1>1, <2>1, <2>2
<1>3. CASE StartDuplicateRole(c)
  <2>1. PICK u \in Users, r \in Roles, n \in Names :
          Admit(c, u, "role.manage", [Idle EXCEPT !.pc = "load", !.op = "role.duplicate",
                                                  !.role = r, !.name = n])
    BY <1>3 DEF StartDuplicateRole
  <2> DEFINE k == [Idle EXCEPT !.pc = "load", !.op = "role.duplicate",
                               !.role = r, !.name = n]
  <2>2. k \in CallStates /\ Place(k)
    BY DEF Idle, CallStates, Ops, Place, RoleChanges, NewRoles
  <2> QED
    BY <1>1, <2>1, <2>2
<1>4. CASE StartUpdateRole(c)
  <2>1. PICK u \in Users, r \in Roles, n \in Names \cup {Keep}, ps \in PermSets \cup {Keep} :
          Admit(c, u, "role.manage", [Idle EXCEPT !.pc = "load", !.op = "role.update",
                                        !.role = r, !.name = n, !.perms = ps])
    BY <1>4 DEF StartUpdateRole
  <2> DEFINE k == [Idle EXCEPT !.pc = "load", !.op = "role.update",
                               !.role = r, !.name = n, !.perms = ps]
  <2>2. k \in CallStates /\ Place(k)
    BY DEF Idle, CallStates, Ops, Place, RoleChanges, NewRoles
  <2> QED
    BY <1>1, <2>1, <2>2
<1>5. CASE StartDeleteRole(c)
  <2>1. PICK u \in Users, r \in Roles :
          Admit(c, u, "role.manage", [Idle EXCEPT !.pc = "load", !.op = "role.delete",
                                                  !.role = r])
    BY <1>5 DEF StartDeleteRole
  <2> DEFINE k == [Idle EXCEPT !.pc = "load", !.op = "role.delete", !.role = r]
  <2>2. k \in CallStates /\ Place(k)
    BY DEF Idle, CallStates, Ops, Place, RoleChanges, NewRoles
  <2> QED
    BY <1>1, <2>1, <2>2
<1>6. CASE StartCreateMember(c)
  <2>1. PICK u \in Users, m \in Users, rs \in RoleSets :
          Admit(c, u, "member.create", [Idle EXCEPT !.pc = "check", !.op = "member.create",
                                                    !.member = m, !.roles = rs])
    BY <1>6 DEF StartCreateMember
  <2> DEFINE k == [Idle EXCEPT !.pc = "check", !.op = "member.create",
                               !.member = m, !.roles = rs]
  <2>2. k \in CallStates /\ Place(k)
    BY DEF Idle, CallStates, Ops, Place, RoleChanges, NewRoles
  <2> QED
    BY <1>1, <2>1, <2>2
<1>7. CASE StartUpdateMember(c)
  <2>1. PICK u \in Users, m \in Users, st \in {"active", "suspended", Keep},
             rs \in RoleSets \cup {Keep}, rest \in BOOLEAN :
          Admit(c, u, "member.edit", [Idle EXCEPT !.pc = "load", !.op = "member.update",
                                        !.member = m, !.status = st, !.roles = rs,
                                        !.rest = rest])
    BY <1>7 DEF StartUpdateMember
  <2> DEFINE k == [Idle EXCEPT !.pc = "load", !.op = "member.update",
                               !.member = m, !.status = st, !.roles = rs, !.rest = rest]
  <2>2. k \in CallStates /\ Place(k)
    BY DEF Idle, CallStates, Ops, Place, RoleChanges, NewRoles
  <2> QED
    BY <1>1, <2>1, <2>2
<1> QED
  BY <1>2, <1>3, <1>4, <1>5, <1>6, <1>7 DEF Start

(* Steps that leave the tables alone.                                       *)
Tables == <<role, user, held, audit>>
QuietStep(c) ==
  Load(c) \/ Check(c) \/ Open(c) \/ WriteRole(c) \/ Count(c) \/ Refuse(c)
  \/ WriteMember(c) \/ FindRoles(c) \/ DeleteRoles(c) \/ CreateRoles(c)
  \/ TxTimeout(c) \/ PoolTimeout(c)

LEMMA QuietTypes ==
  ASSUME TypeInv, NEW c \in Calls, QuietStep(c)
  PROVE  TypeInv' /\ UNCHANGED Tables
<1> USE DEF Place, RoleChanges, NewRoles
<1>0. call[c] \in CallStates /\ Place(call[c])
  BY DEF TypeInv, TypeOK, Placed
<1>1. UNCHANGED Tables
  BY DEF QuietStep, Tables, Load, Check, Open, WriteRole, Count, Refuse, WriteMember,
         FindRoles, DeleteRoles, CreateRoles, TxTimeout, PoolTimeout
<1>2. SUFFICES call' \in [Calls -> CallStates] /\ Placed'
  BY <1>1 DEF TypeInv, TypeOK, Tables
<1>3. CASE Load(c)
  <2>1. CASE call[c].op = "member.update" /\ GoTo(c, "open")
    BY <1>0, <2>1, GoToTypes
  <2>2. CASE End(c)
    BY <2>2, EndTypes
  <2>3. CASE /\ call[c].op = "role.duplicate" /\ Here(call[c].role)
             /\ call' = [call EXCEPT ![c] = [call[c] EXCEPT !.pc = "check",
                          !.role = NoRole, !.perms = role[call[c].role].perms]]
    <3>1. PICK ps \in PermSets \cup {Keep} : ps = role[call[c].role].perms
      BY <2>3 DEF TypeInv, TypeOK, RoleRows, Here
    <3> DEFINE k == [call[c] EXCEPT !.pc = "check", !.role = NoRole, !.perms = ps]
    <3>2. k \in CallStates
      BY <1>0 DEF CallStates
    <3>3. Place(k)
      BY <1>0, <2>3 DEF CallStates
    <3> QED
      BY <2>3, <3>1, <3>2, <3>3, CallTypes
  <2>4. CASE /\ call[c].op \in RoleChanges
             /\ GoTo(c, IF call[c].name = Keep THEN "open" ELSE "check")
    BY <1>0, <2>4, GoToTypes
  <2> QED
    BY <1>3, <2>1, <2>2, <2>3, <2>4 DEF Load
<1>4. CASE Check(c)
  <2>1. CASE End(c)
    BY <2>1, EndTypes
  <2>2. CASE GoTo(c, IF call[c].op = "role.update" THEN "open" ELSE "insert")
    BY <1>0, <2>2, GoToTypes
  <2> QED
    BY <1>4, <2>1, <2>2 DEF Check
<1>5. CASE Open(c)
  BY <1>0, <1>5, GoToTypes DEF Open
<1>6. CASE WriteRole(c)
  BY <1>0, <1>6, GoToTypes, EndTypes DEF WriteRole
<1>7. CASE Count(c)
  <2> DEFINE k == [call[c] EXCEPT !.pc = "finish", !.admins = Admins]
  <2>1. k \in CallStates /\ Place(k)
    BY <1>0, <1>7 DEF CallStates, Count, Admins
  <2>2. call' = [call EXCEPT ![c] = k]
    BY <1>7 DEF Count, TypeInv, TypeOK
  <2> QED
    BY <2>1, <2>2, CallTypes
<1>8. CASE Refuse(c)
  BY <1>8, EndTypes DEF Refuse
<1>9. CASE WriteMember(c)
  BY <1>0, <1>9, GoToTypes DEF WriteMember
<1>10. CASE FindRoles(c)
  <2> DEFINE k == [call[c] EXCEPT !.pc = "deleting", !.replaced = RolesOf(call[c].member)]
  <2>1. k \in CallStates /\ Place(k)
    BY <1>0, <1>10 DEF CallStates, FindRoles, RolesOf
  <2>2. call' = [call EXCEPT ![c] = k]
    BY <1>10 DEF FindRoles, TypeInv, TypeOK
  <2> QED
    BY <2>1, <2>2, CallTypes
<1>12. CASE DeleteRoles(c)
  BY <1>0, <1>12, GoToTypes DEF DeleteRoles
<1>13. CASE CreateRoles(c)
  BY <1>0, <1>13, GoToTypes, EndTypes DEF CreateRoles
<1>11. CASE TxTimeout(c) \/ PoolTimeout(c)
  BY <1>11, EndTypes DEF TxTimeout, PoolTimeout
<1> QED
  BY <1>3, <1>4, <1>5, <1>6, <1>7, <1>8, <1>9, <1>10, <1>11, <1>12, <1>13 DEF QuietStep

(* Steps that write a table.                                                *)
LEMMA WriteTypes ==
  ASSUME TypeInv, NEW c \in Calls,
         InsertRole(c) \/ InsertMember(c) \/ CommitRole(c) \/ CommitMember(c) \/ Audit(c)
  PROVE  TypeInv'
<1> USE DEF Place, RoleChanges, NewRoles
<1>0. call[c] \in CallStates /\ Place(call[c])
  BY DEF TypeInv, TypeOK, Placed
<1>1. CASE InsertRole(c)
  <2>1. CASE End(c) /\ UNCHANGED role
    BY <1>1, <2>1, EndTypes DEF InsertRole, TypeInv, TypeOK
  <2>2. ASSUME NEW r \in Roles,
               role' = [role EXCEPT ![r] =
                          [at |-> "here", name |-> call[c].name, perms |-> call[c].perms]],
               call' = [call EXCEPT ![c] = [call[c] EXCEPT !.pc = "audit", !.role = r]]
        PROVE  TypeInv'
    <3> DEFINE k == [call[c] EXCEPT !.pc = "audit", !.role = r]
    <3>1. k \in CallStates /\ Place(k)
      BY <1>0, <1>1 DEF CallStates, InsertRole
    <3>2. role' \in [Roles -> RoleRows]
      BY <1>0, <2>2 DEF TypeInv, TypeOK, RoleRows, CallStates
    <3>3. call' \in [Calls -> CallStates] /\ Placed'
      BY <2>2, <3>1, CallTypes
    <3> QED
      BY <1>1, <3>2, <3>3 DEF TypeInv, TypeOK, InsertRole
  <2> QED
    BY <1>1, <2>1, <2>2 DEF InsertRole
<1>2. CASE InsertMember(c)
  <2>1. CASE End(c) /\ UNCHANGED <<user, held>>
    BY <1>2, <2>1, EndTypes DEF InsertMember, TypeInv, TypeOK
  <2>2. CASE /\ user' = [user EXCEPT ![call[c].member] = "active"]
             /\ held' = held \cup ({call[c].member} \X call[c].roles)
             /\ GoTo(c, "audit")
    <3>1. call[c].member \in Users /\ call[c].roles \subseteq Roles
      BY <1>0, <1>2, AdministrationAssumption DEF InsertMember
    <3>2. held' \subseteq Users \X Roles
      BY <2>2, <3>1 DEF TypeInv, TypeOK
    <3>3. call' \in [Calls -> CallStates] /\ Placed'
      BY <1>0, <1>2, <2>2, GoToTypes DEF InsertMember
    <3> QED
      BY <1>2, <2>2, <3>1, <3>2, <3>3 DEF TypeInv, TypeOK, InsertMember
  <2> QED
    BY <1>2, <2>1, <2>2 DEF InsertMember
<1>3. CASE CommitRole(c)
  <2>1. call' \in [Calls -> CallStates] /\ Placed'
    BY <1>0, <1>3, GoToTypes DEF CommitRole
  <2>2. role' \in [Roles -> RoleRows]
    <3>1. call[c].role \in Roles
      BY <1>0, <1>3 DEF CommitRole
    <3>2. role[call[c].role] \in RoleRows
      BY <3>1 DEF TypeInv, TypeOK
    <3>3. CASE call[c].op = "role.update"
      <4> DEFINE n == IF call[c].name = Keep THEN role[call[c].role].name ELSE call[c].name
                 ps == IF call[c].perms = Keep THEN role[call[c].role].perms
                                               ELSE call[c].perms
      <4>1. n \in Names \cup {Keep} /\ ps \in PermSets \cup {Keep}
        BY <1>0, <3>2 DEF CallStates, RoleRows
      <4>2. [role[call[c].role] EXCEPT !.name = n, !.perms = ps] \in RoleRows
        BY <4>1, <3>2 DEF RoleRows
      <4>3. role' = [role EXCEPT ![call[c].role] =
                       [role[call[c].role] EXCEPT !.name = n, !.perms = ps]]
        BY <1>3, <3>3, <3>1, <3>2 DEF CommitRole, TypeInv, TypeOK, RoleRows
      <4> HIDE DEF n, ps
      <4> QED
        BY <4>2, <4>3, <3>1 DEF TypeInv, TypeOK
    <3>4. CASE role' = [role EXCEPT ![call[c].role].at = "gone"]
      BY <3>1, <3>2, <3>4 DEF TypeInv, TypeOK, RoleRows
    <3> QED
      BY <1>3, <3>3, <3>4 DEF CommitRole
  <2>3. held' \subseteq held
    BY <1>3 DEF CommitRole
  <2> QED
    BY <1>3, <2>1, <2>2, <2>3 DEF TypeInv, TypeOK, CommitRole
<1>4. CASE CommitMember(c)
  <2>1. call' \in [Calls -> CallStates] /\ Placed'
    <3>1. ASSUME NEW d \in Calls
          PROVE  call'[d] \in CallStates /\ Place(call'[d])
      <4>0. call[d] \in CallStates /\ Place(call[d])
        BY DEF TypeInv, TypeOK, Placed
      <4>1. CASE call'[d] = [call[c] EXCEPT !.pc = "audit"]
        BY <1>0, <1>4, <4>1 DEF CommitMember, CallStates
      <4>2. CASE call'[d] = [call[d] EXCEPT !.replaced = @ \ call[c].replaced]
        BY <4>0, <4>2 DEF CallStates
      <4> QED
        BY <1>4, <4>0, <4>1, <4>2 DEF CommitMember
    <3>2. call' = [d \in Calls |-> call'[d]]
      BY <1>4 DEF CommitMember
    <3> QED
      BY <3>1, <3>2 DEF Placed
  <2>2. user' \in [Users -> {"absent", "active", "suspended"}]
    <3>1. call[c].member \in Users /\ call[c].status \in {"active", "suspended", Keep}
      BY <1>0, <1>4 DEF CommitMember, CallStates
    <3> QED
      BY <1>4, <3>1 DEF CommitMember, TypeInv, TypeOK
  <2>3. held' \subseteq Users \X Roles
    <3>1. CASE call[c].roles = Keep
      BY <1>4, <3>1 DEF CommitMember, TypeInv, TypeOK
    <3>2. CASE call[c].roles # Keep
      <4>1. call[c].member \in Users /\ call[c].roles \subseteq Roles
        BY <1>0, <1>4, <3>2, AdministrationAssumption DEF CommitMember
      <4> QED
        BY <1>4, <3>2, <4>1 DEF CommitMember, TypeInv, TypeOK
    <3> QED
      BY <3>1, <3>2
  <2> QED
    BY <1>4, <2>1, <2>2, <2>3 DEF TypeInv, TypeOK, CommitMember
<1>5. CASE Audit(c)
  <2>1. call' \in [Calls -> CallStates] /\ Placed'
    BY <1>5, EndTypes DEF Audit
  <2>2. [action |-> call[c].op, role |-> call[c].role, member |-> call[c].member]
          \in [action : Ops, role : Roles \cup {NoRole}, member : Users \cup {Nobody}]
    BY <1>0 DEF CallStates
  <2> QED
    BY <1>5, <2>1, <2>2 DEF TypeInv, TypeOK, Audit
<1> QED
  BY <1>1, <1>2, <1>3, <1>4, <1>5

LEMMA InitTypes == Init => TypeInv
<1> SUFFICES ASSUME Init
             PROVE  TypeInv
  OBVIOUS
<1>1. TypeOK
  BY IdleType, InitAssumption DEF Init, TypeOK
<1>2. Placed
  BY IdleType DEF Init, Placed
<1> QED
  BY <1>1, <1>2 DEF TypeInv

LEMMA StepTypes == TypeInv /\ [Next]_vars => TypeInv'
<1> SUFFICES ASSUME TypeInv, [Next]_vars
             PROVE  TypeInv'
  OBVIOUS
<1>1. CASE UNCHANGED vars
  BY <1>1 DEF vars, TypeInv, TypeOK, Placed
<1>2. ASSUME NEW c \in Calls,
             Start(c) \/ Continue(c) \/ TxTimeout(c) \/ PoolTimeout(c)
      PROVE  TypeInv'
  BY <1>2, StartTypes, QuietTypes, WriteTypes DEF Continue, QuietStep
<1> QED
  BY <1>1, <1>2 DEF Next

(* The tables and the requests under way keep their types, and a request    *)
(* holds what the point it has reached needs.                               *)
THEOREM TypeCorrect == Spec => [](TypeOK /\ Placed)
<1>1. Spec => []TypeInv
  BY InitTypes, StepTypes, PTL DEF Spec
<1> QED
  BY <1>1, PTL DEF TypeInv

-----------------------------------------------------------------------------
(* Names, references and the locks that keep them                           *)

(* A step of one request that neither takes a lock nor writes a table.      *)
LEMMA QuietLocks ==
  ASSUME AdminInv, TypeInv', NEW c \in Calls, NEW k,
         call' = [call EXCEPT ![c] = k],
         UNCHANGED <<role, held>>,
         Locking(k) => /\ Locking(call[c])
                       /\ k.op = call[c].op /\ k.role = call[c].role /\ k.name = call[c].name,
         Giving(k) => (Giving(call[c]) /\ k.roles = call[c].roles) \/ k.roles = {}
  PROVE  AdminInv'
<1>1. /\ call'[c] = k
      /\ \A d \in Calls : d # c => call'[d] = call[d]
  BY DEF AdminInv, TypeInv, TypeOK
<1>2. \A r : Here(r)' <=> Here(r)
  BY DEF Here
<1>3. \A n, r : NameTaken(n, r)' <=> NameTaken(n, r)
  BY DEF NameTaken, Here
<1>4. LockedHere' /\ LockedOnce'
  BY <1>1, <1>2 DEF AdminInv, LockInv, LockedHere, LockedOnce
<1>5. NamesFree' /\ NamedOnce'
  BY <1>1, <1>3 DEF AdminInv, LockInv, NamesFree, NamedOnce, Naming
<1>6. GivenHere' /\ GivenKept'
  BY <1>1, <1>2 DEF AdminInv, LockInv, GivenHere, GivenKept
<1>7. TableInv'
  BY <1>2 DEF AdminInv, TableInv, NamesUnique, HeldRolesExist
<1> QED
  BY <1>4, <1>5, <1>6, <1>7 DEF AdminInv, LockInv

LEMMA EndLocks ==
  ASSUME AdminInv, TypeInv', NEW c \in Calls, End(c), UNCHANGED <<role, held>>
  PROVE  AdminInv'
BY IdleType, QuietLocks DEF End

LEMMA GoToLocks ==
  ASSUME AdminInv, TypeInv', NEW c \in Calls, UNCHANGED <<role, held>>,
         NEW pc, GoTo(c, pc), pc \notin {"count", "finish"}
  PROVE  AdminInv'
<1> DEFINE k == [call[c] EXCEPT !.pc = pc]
<1>1. call[c] \in CallStates
  BY DEF AdminInv, TypeInv, TypeOK
<1>2. call' = [call EXCEPT ![c] = k]
  BY DEF GoTo
<1>3. ~Locking(k) /\ ~Giving(k)
  BY <1>1 DEF Locking, Giving, CallStates
<1> HIDE DEF k
<1> QED
  BY <1>2, <1>3, QuietLocks

LEMMA StartLocks ==
  ASSUME AdminInv, TypeInv', NEW c \in Calls, Start(c)
  PROVE  AdminInv'
<1>1. ASSUME NEW u, NEW can, NEW k, Admit(c, u, can, k), k.pc \in {"check", "load"}
      PROVE  AdminInv'
  BY <1>1, QuietLocks DEF Admit, Locking, Giving
<1> USE DEF Idle
<1>2. CASE StartCreateRole(c)
  BY <1>1, <1>2 DEF StartCreateRole
<1>3. CASE StartDuplicateRole(c)
  BY <1>1, <1>3 DEF StartDuplicateRole
<1>4. CASE StartUpdateRole(c)
  BY <1>1, <1>4 DEF StartUpdateRole
<1>5. CASE StartDeleteRole(c)
  BY <1>1, <1>5 DEF StartDeleteRole
<1>6. CASE StartCreateMember(c)
  BY <1>1, <1>6 DEF StartCreateMember
<1>7. CASE StartUpdateMember(c)
  BY <1>1, <1>7 DEF StartUpdateMember
<1> QED
  BY <1>2, <1>3, <1>4, <1>5, <1>6, <1>7 DEF Start

(* A change of a role that is written found the role there, its name free   *)
(* and no other transaction at the role or the name.                        *)
LEMMA WriteRoleLocks ==
  ASSUME AdminInv, TypeInv', NEW c \in Calls, WriteRole(c)
  PROVE  AdminInv'
<1> DEFINE k == call[c]
           r == call[c].role
           renamed == k.op = "role.update" /\ k.name # Keep /\ k.name # role[r].name
<1>0. UNCHANGED <<role, held>>
  BY DEF WriteRole
<1>1. CASE End(c)
  BY <1>0, <1>1, EndLocks
<1>2. CASE /\ Here(r) /\ GoTo(c, "count") /\ k.op \in RoleChanges
           /\ renamed => ~NameTaken(k.name, r) /\ ~NameBusy(c, k.name)
           /\ ~RowBusy(c, r)
           /\ k.op = "role.delete" => \A d \in Others(c), m \in Users : ~Inserts(d, m, r)
  <2>1. /\ call'[c] = [call[c] EXCEPT !.pc = "count"]
        /\ \A d \in Calls : d # c => call'[d] = call[d]
    BY <1>2 DEF GoTo, AdminInv, TypeInv, TypeOK
  <2>2. call[c] \in CallStates /\ r \in Roles
    BY <1>2 DEF AdminInv, TypeInv, TypeOK, Placed, Place
  <2>3. /\ Locking(call'[c]) /\ ~Giving(call'[c])
        /\ call'[c].op = k.op /\ call'[c].role = r /\ call'[c].name = k.name
    BY <1>2, <2>1, <2>2 DEF CallStates, Locking, Giving
  <2>4. ASSUME NEW d \in Calls, d # c, Locking(call[d])
        PROVE  d \in Others(c) /\ call[d].role # r
    BY <1>2, <2>4 DEF Others, Wrote, InTx, Locking, RowBusy
  <2>5. LockedHere'
    BY <1>0, <1>2, <2>1, <2>3 DEF AdminInv, LockInv, LockedHere, Here
  <2>6. LockedOnce'
    BY <2>1, <2>3, <2>4 DEF AdminInv, LockInv, LockedOnce
  <2>7. k.op = "role.update" /\ k.name # Keep => ~NameTaken(k.name, r)
    BY <1>2, <2>2 DEF NameTaken, AdminInv, TableInv, NamesUnique
  <2>70. /\ Naming(call'[c]) => k.op = "role.update" /\ k.name # Keep
        /\ \A d \in Calls : d # c => call'[d] = call[d]
    BY <2>1, <2>3 DEF Naming
  <2>8. NamesFree'
    <3> SUFFICES ASSUME NEW d \in Calls, Naming(call'[d])
                 PROVE  ~NameTaken(call'[d].name, call'[d].role)
      BY <1>0 DEF NamesFree, Naming, Locking, NameTaken, Here
    <3>2. CASE d = c
      BY <2>3, <2>7, <2>70, <3>2
    <3>3. CASE d # c
      BY <2>70, <3>3 DEF AdminInv, LockInv, NamesFree
    <3> QED
      BY <3>2, <3>3
  <2>9. ASSUME NEW d \in Calls, d # c, Naming(call[d]), k.op = "role.update", k.name # Keep
        PROVE  call[d].name # k.name
    <3>1. CASE renamed
      BY <1>2, <2>4, <2>9, <3>1 DEF NameBusy, Naming
    <3>2. CASE ~renamed
      <4>1. k.name = role[r].name /\ ~NameTaken(call[d].name, call[d].role)
        BY <2>9, <3>2 DEF AdminInv, LockInv, NamesFree
      <4>2. r # call[d].role
        BY <2>4, <2>9 DEF Naming
      <4> QED
        BY <1>2, <2>2, <4>1, <4>2 DEF NameTaken
    <3> QED
      BY <3>1, <3>2
  <2>10. NamedOnce'
    <3> SUFFICES ASSUME NEW d \in Calls, NEW e \in Calls, d # e,
                        Naming(call'[d]), Naming(call'[e])
                 PROVE  call'[d].name # call'[e].name
      BY DEF NamedOnce, Naming, Locking
    <3>1. CASE d # c /\ e # c
      BY <2>70, <3>1 DEF AdminInv, LockInv, NamedOnce
    <3>2. CASE d = c
      BY <2>3, <2>70, <2>9, <3>2
    <3>3. CASE e = c
      BY <2>3, <2>70, <2>9, <3>3
    <3> QED
      BY <3>1, <3>2, <3>3
  <2>11. GivenHere'
    BY <1>0, <2>1, <2>3 DEF AdminInv, LockInv, GivenHere, Here
  <2>12. ASSUME NEW d \in Calls, d # c, Giving(call[d]), k.op = "role.delete"
         PROVE  r \notin call[d].roles
    <3>1. call[d].member \in Users
      BY <2>12 DEF AdminInv, TypeInv, Placed, Place, Giving
    <3> QED
      BY <1>2, <2>12, <3>1 DEF Others, Wrote, InTx, Giving, Inserts
  <2>13. GivenKept'
    BY <2>1, <2>3, <2>12 DEF AdminInv, LockInv, GivenKept
  <2>14. TableInv'
    BY <1>0 DEF AdminInv, TableInv, NamesUnique, HeldRolesExist, Here
  <2> QED
    BY <2>5, <2>6, <2>8, <2>10, <2>11, <2>13, <2>14 DEF AdminInv, LockInv
<1> QED
  BY <1>1, <1>2 DEF WriteRole, RoleChanges

(* A member's new roles exist and nobody is removing them.                  *)
LEMMA CreateRolesLocks ==
  ASSUME AdminInv, TypeInv', NEW c \in Calls, CreateRoles(c)
  PROVE  AdminInv'
<1> DEFINE k == [call[c] EXCEPT !.pc = "finish"]
<1>0. UNCHANGED <<role, held>>
  BY DEF CreateRoles
<1>1. CASE End(c)
  BY <1>0, <1>1, EndLocks
<1>2. CASE /\ call' = [call EXCEPT ![c] = k]
           /\ ~ReferenceBusy(c, call[c].roles)
           /\ \A r \in call[c].roles : Here(r)
  <2>1. call[c] \in CallStates /\ call[c].op = "member.update"
    BY DEF AdminInv, TypeInv, TypeOK, Placed, Place, CreateRoles
  <2>2. k.roles = call[c].roles /\ ~Locking(k)
    BY <2>1 DEF CallStates, Locking, RoleChanges
  <2> HIDE DEF k
  <2>3. call'[c] = k /\ \A d \in Calls : d # c => call'[d] = call[d]
    BY <1>2 DEF AdminInv, TypeInv, TypeOK
  <2>4. LockedHere' /\ LockedOnce'
    BY <1>0, <2>2, <2>3 DEF AdminInv, LockInv, LockedHere, LockedOnce, Here
  <2>5. NamesFree' /\ NamedOnce'
    BY <1>0, <2>2, <2>3
    DEF AdminInv, LockInv, NamesFree, NamedOnce, Naming, NameTaken, Here
  <2>6. GivenHere'
    BY <1>0, <1>2, <2>2, <2>3 DEF AdminInv, LockInv, GivenHere, Here
  <2>7. ASSUME NEW d \in Calls, d # c, Locking(call[d]), call[d].op = "role.delete"
        PROVE  call[d].role \notin call[c].roles
    BY <1>2, <2>7 DEF ReferenceBusy, Others, Wrote, InTx, Locking, Deletes
  <2>8. GivenKept'
    BY <2>2, <2>3, <2>7 DEF AdminInv, LockInv, GivenKept
  <2>9. TableInv'
    BY <1>0 DEF AdminInv, TableInv, NamesUnique, HeldRolesExist, Here
  <2> QED
    BY <2>4, <2>5, <2>6, <2>8, <2>9 DEF AdminInv, LockInv
<1>3. GoTo(c, "finish") => call' = [call EXCEPT ![c] = k]
  BY DEF GoTo
<1> QED
  BY <1>1, <1>2, <1>3 DEF CreateRoles

(* The other steps without a write.                                         *)
LEMMA QuietStepLocks ==
  ASSUME AdminInv, TypeInv', NEW c \in Calls, QuietStep(c)
  PROVE  AdminInv'
<1>0. TypeInv /\ UNCHANGED <<role, held>>
  BY QuietTypes DEF AdminInv, Tables
<1>1. CASE Load(c)
  <2>1. CASE call' = [call EXCEPT ![c] = [call[c] EXCEPT !.pc = "check",
                        !.role = NoRole, !.perms = role[call[c].role].perms]]
    <3> DEFINE k == [call[c] EXCEPT !.pc = "check", !.role = NoRole,
                                    !.perms = role[call[c].role].perms]
    <3>1. ~Locking(k) /\ ~Giving(k)
      BY <1>0 DEF TypeInv, TypeOK, CallStates, Locking, Giving
    <3> HIDE DEF k
    <3> QED
      BY <1>0, <2>1, <3>1, QuietLocks DEF k
  <2> QED
    BY <1>0, <1>1, <2>1, GoToLocks, EndLocks DEF Load
<1>2. CASE Check(c)
  BY <1>0, <1>2, GoToLocks, EndLocks DEF Check
<1>3. CASE Open(c)
  BY <1>0, <1>3, GoToLocks DEF Open
<1>4. CASE WriteRole(c)
  BY <1>4, WriteRoleLocks
<1>5. CASE Count(c)
  <2> DEFINE k == [call[c] EXCEPT !.pc = "finish", !.admins = Admins]
  <2>1. call[c] \in CallStates /\ call[c].op \in RoleChanges /\ call[c].pc = "count"
    BY <1>5 DEF AdminInv, TypeInv, TypeOK, Placed, Place, Count
  <2>2. /\ Locking(call[c]) /\ ~Giving(k)
        /\ k.op = call[c].op /\ k.role = call[c].role /\ k.name = call[c].name
    BY <2>1 DEF CallStates, Locking, Giving, RoleChanges
  <2>3. call' = [call EXCEPT ![c] = k]
    BY <1>0, <1>5 DEF Count, TypeInv, TypeOK
  <2> HIDE DEF k
  <2> QED
    BY <1>0, <2>2, <2>3, QuietLocks
<1>6. CASE Refuse(c)
  BY <1>0, <1>6, EndLocks DEF Refuse
<1>7. CASE WriteMember(c)
  <2>1. CASE GoTo(c, "roles")
    BY <1>0, <2>1, GoToLocks
  <2>2. CASE call[c].roles = Keep /\ GoTo(c, "finish")
    <3> DEFINE k == [call[c] EXCEPT !.pc = "finish"]
    <3>1. call[c] \in CallStates /\ call[c].op = "member.update"
      BY <1>0, <1>7 DEF TypeInv, TypeOK, WriteMember
    <3>2. ~Locking(k) /\ ~Giving(k)
      BY <2>2, <3>1 DEF CallStates, Locking, Giving, RoleChanges
    <3>3. call' = [call EXCEPT ![c] = k]
      BY <2>2 DEF GoTo
    <3> HIDE DEF k
    <3> QED
      BY <1>0, <3>2, <3>3, QuietLocks
  <2> QED
    BY <1>7, <2>1, <2>2 DEF WriteMember
<1>8. CASE CreateRoles(c)
  BY <1>8, CreateRolesLocks
<1>10. CASE FindRoles(c)
  <2> DEFINE k == [call[c] EXCEPT !.pc = "deleting", !.replaced = RolesOf(call[c].member)]
  <2>1. call[c] \in CallStates
    BY <1>0 DEF TypeInv, TypeOK
  <2>2. ~Locking(k) /\ ~Giving(k)
    BY <2>1 DEF CallStates, Locking, Giving
  <2>3. call' = [call EXCEPT ![c] = k]
    BY <1>0, <1>10 DEF FindRoles, TypeInv, TypeOK
  <2> HIDE DEF k
  <2> QED
    BY <1>0, <2>2, <2>3, QuietLocks
<1>11. CASE DeleteRoles(c)
  <2>1. CASE GoTo(c, "create")
    BY <1>0, <2>1, GoToLocks
  <2>2. CASE call[c].roles = {} /\ GoTo(c, "finish")
    <3> DEFINE k == [call[c] EXCEPT !.pc = "finish"]
    <3>1. call[c] \in CallStates /\ call[c].op = "member.update"
      BY <1>0, <1>11 DEF TypeInv, TypeOK, Placed, Place, DeleteRoles
    <3>2. ~Locking(k) /\ k.roles = {}
      BY <2>2, <3>1 DEF CallStates, Locking, RoleChanges
    <3>3. call' = [call EXCEPT ![c] = k]
      BY <2>2 DEF GoTo
    <3> HIDE DEF k
    <3> QED
      BY <1>0, <3>2, <3>3, QuietLocks
  <2> QED
    BY <1>11, <2>1, <2>2 DEF DeleteRoles
<1>9. CASE TxTimeout(c) \/ PoolTimeout(c)
  BY <1>0, <1>9, EndLocks DEF TxTimeout, PoolTimeout
<1> QED
  BY <1>1, <1>2, <1>3, <1>4, <1>5, <1>6, <1>7, <1>8, <1>9, <1>10, <1>11 DEF QuietStep

(* A new role's name is in nobody's hands.                                  *)
LEMMA InsertRoleLocks ==
  ASSUME AdminInv, TypeInv', NEW c \in Calls, InsertRole(c)
  PROVE  AdminInv'
<1>1. CASE End(c) /\ UNCHANGED role
  BY <1>1, EndLocks DEF InsertRole
<1>2. ASSUME ~NameTaken(call[c].name, NoRole), NEW r \in Roles, role[r].at = "unused",
             role' = [role EXCEPT ![r] =
                        [at |-> "here", name |-> call[c].name, perms |-> call[c].perms]],
             call' = [call EXCEPT ![c] = [call[c] EXCEPT !.pc = "audit", !.role = r]]
      PROVE  AdminInv'
  <2>1. /\ ~Locking(call'[c]) /\ ~Giving(call'[c])
        /\ \A d \in Calls : d # c => call'[d] = call[d]
    BY <1>2 DEF AdminInv, TypeInv, TypeOK, CallStates, Locking, Giving
  <2>2. /\ ~Here(r)
        /\ role'[r].at = "here" /\ role'[r].name = call[c].name
        /\ \A s \in Roles : s # r => role'[s] = role[s]
        /\ \A s \in Roles : Here(s) => s # r
    BY <1>2 DEF AdminInv, TypeInv, TypeOK, Here
  <2>3. \A s : Here(s) => Here(s)' /\ role'[s] = role[s]
    BY <2>2 DEF Here
  <2>4. \A s \in Roles : Here(s) => role[s].name # call[c].name
    BY <1>2, AdministrationAssumption DEF NameTaken
  <2>5. \A d \in Calls : d # c /\ Naming(call[d]) => call[d].name # call[c].name
    BY DEF InsertRole, NameBusy, Others, Wrote, InTx, Naming, Locking
  <2>6. LockedHere' /\ LockedOnce'
    BY <2>1, <2>3 DEF AdminInv, LockInv, LockedHere, LockedOnce
  <2>7. NamesFree'
    <3> SUFFICES ASSUME NEW d \in Calls, d # c, Naming(call[d]),
                        NEW s \in Roles \ {call[d].role}, role'[s].at = "here"
                 PROVE  role'[s].name # call[d].name
      BY <2>1 DEF NamesFree, Naming, NameTaken, Here
    <3>1. CASE s = r
      BY <2>2, <2>5, <3>1
    <3>2. CASE s # r
      BY <2>2, <3>2 DEF AdminInv, LockInv, NamesFree, NameTaken, Here
    <3> QED
      BY <3>1, <3>2
  <2>8. NamedOnce'
    BY <2>1 DEF AdminInv, LockInv, NamedOnce, Naming
  <2>9. GivenHere' /\ GivenKept'
    BY <2>1, <2>3 DEF AdminInv, LockInv, GivenHere, GivenKept
  <2>10. NamesUnique'
    <3> SUFFICES ASSUME NEW s \in Roles, NEW t \in Roles, s # t,
                        role'[s].at = "here", role'[t].at = "here"
                 PROVE  role'[s].name # role'[t].name
      BY DEF NamesUnique, Here
    <3>1. CASE s # r /\ t # r
      BY <2>2, <3>1 DEF AdminInv, TableInv, NamesUnique, Here
    <3>2. CASE s = r \/ t = r
      BY <2>2, <2>4, <3>2 DEF Here
    <3> QED
      BY <3>1, <3>2
  <2>11. HeldRolesExist'
    BY <2>3 DEF AdminInv, TableInv, HeldRolesExist, InsertRole
  <2> QED
    BY <2>6, <2>7, <2>8, <2>9, <2>10, <2>11 DEF AdminInv, LockInv, TableInv
<1> QED
  BY <1>1, <1>2 DEF InsertRole

LEMMA InsertMemberLocks ==
  ASSUME AdminInv, TypeInv', NEW c \in Calls, InsertMember(c)
  PROVE  AdminInv'
<1>1. CASE End(c) /\ UNCHANGED <<user, held>>
  BY <1>1, EndLocks DEF InsertMember
<1>2. CASE /\ \A r \in call[c].roles : Here(r)
           /\ held' = held \cup ({call[c].member} \X call[c].roles)
           /\ GoTo(c, "audit")
  <2>1. /\ ~Locking(call'[c]) /\ ~Giving(call'[c])
        /\ \A d \in Calls : d # c => call'[d] = call[d]
    BY <1>2 DEF AdminInv, TypeInv, TypeOK, CallStates, Locking, Giving, GoTo
  <2>2. role' = role
    BY DEF InsertMember
  <2>3. LockedHere' /\ LockedOnce' /\ GivenHere' /\ GivenKept'
    BY <2>1, <2>2
    DEF AdminInv, LockInv, LockedHere, LockedOnce, GivenHere, GivenKept, Here
  <2>4. NamesFree' /\ NamedOnce'
    BY <2>1, <2>2 DEF AdminInv, LockInv, NamesFree, NamedOnce, Naming, NameTaken, Here
  <2>5. NamesUnique'
    BY <2>2 DEF AdminInv, TableInv, NamesUnique, Here
  <2>6. HeldRolesExist'
    BY <1>2, <2>2 DEF AdminInv, TableInv, HeldRolesExist, Here
  <2> QED
    BY <2>3, <2>4, <2>5, <2>6 DEF AdminInv, LockInv, TableInv
<1> QED
  BY <1>1, <1>2 DEF InsertMember

(* A commit gives a role the name its transaction found free, or takes away *)
(* a role that nobody is being given.                                       *)
LEMMA CommitRoleLocks ==
  ASSUME AdminInv, TypeInv', NEW c \in Calls, CommitRole(c)
  PROVE  AdminInv'
<1> DEFINE k == call[c]
           r == call[c].role
<1>1. /\ ~Locking(call'[c]) /\ ~Giving(call'[c])
      /\ \A d \in Calls : d # c => call'[d] = call[d]
  BY DEF AdminInv, TypeInv, TypeOK, CallStates, Locking, Giving, GoTo, CommitRole
<1>2. Locking(k) /\ Here(r) /\ r \in Roles /\ role[r] \in RoleRows
  BY DEF CommitRole, Locking, RoleChanges, AdminInv, LockInv, LockedHere, Here,
         TypeInv, TypeOK
<1>3. \A d \in Calls : d # c /\ Locking(call[d]) => call[d].role # r
  BY <1>2 DEF AdminInv, LockInv, LockedOnce
<1>4. \A s \in Roles : s # r => role'[s] = role[s]
  BY <1>2 DEF CommitRole, AdminInv, TypeInv, TypeOK
<1>5. LockedOnce' /\ NamedOnce' /\ GivenKept'
  BY <1>1 DEF AdminInv, LockInv, LockedOnce, NamedOnce, Naming, GivenKept
<1>6. LockedHere'
  BY <1>1, <1>3, <1>4 DEF AdminInv, LockInv, LockedHere, Here
<1>7. CASE k.op = "role.update"
  <2>1. /\ role'[r].at = "here" /\ UNCHANGED held
        /\ role'[r].name = IF k.name = Keep THEN role[r].name ELSE k.name
    BY <1>2, <1>7 DEF CommitRole, AdminInv, TypeInv, TypeOK, RoleRows, Here
  <2>2. \A s \in Roles : (role'[s].at = "here") = (role[s].at = "here")
    BY <1>2, <1>4, <2>1 DEF Here
  <2>3. \A s \in Roles : s # r /\ Here(s) => role[s].name # role'[r].name
    <3> SUFFICES ASSUME NEW s \in Roles, s # r, Here(s)
                 PROVE  role[s].name # role'[r].name
      OBVIOUS
    <3>1. CASE k.name = Keep
      BY <1>2, <2>1, <3>1 DEF AdminInv, TableInv, NamesUnique
    <3>2. CASE k.name # Keep
      BY <1>2, <1>7, <2>1, <3>2 DEF AdminInv, LockInv, NamesFree, Naming, NameTaken
    <3> QED
      BY <3>1, <3>2
  <2>4. NamesUnique'
    <3> SUFFICES ASSUME NEW s \in Roles, NEW t \in Roles, s # t,
                        role'[s].at = "here", role'[t].at = "here"
                 PROVE  role'[s].name # role'[t].name
      BY DEF NamesUnique, Here
    <3>1. CASE s # r /\ t # r
      BY <1>4, <3>1 DEF AdminInv, TableInv, NamesUnique, Here
    <3>2. CASE s = r \/ t = r
      BY <1>4, <2>3, <3>2 DEF Here
    <3> QED
      BY <3>1, <3>2
  <2>5. ASSUME NEW d \in Calls, d # c, Naming(call[d])
        PROVE  role'[r].name # call[d].name
    <3>1. ~NameTaken(call[d].name, call[d].role) /\ call[d].role # r
      BY <1>3, <2>5 DEF AdminInv, LockInv, NamesFree, Naming
    <3>2. CASE k.name = Keep
      BY <1>2, <2>1, <3>1, <3>2 DEF NameTaken
    <3>3. CASE k.name # Keep
      BY <1>2, <1>7, <2>1, <2>5, <3>3 DEF AdminInv, LockInv, NamedOnce, Naming
    <3> QED
      BY <3>2, <3>3
  <2>6. NamesFree'
    <3> SUFFICES ASSUME NEW d \in Calls, d # c, Naming(call[d]),
                        NEW s \in Roles \ {call[d].role}, role'[s].at = "here"
                 PROVE  role'[s].name # call[d].name
      BY <1>1 DEF NamesFree, Naming, NameTaken, Here
    <3>1. CASE s = r
      BY <2>5, <3>1
    <3>2. CASE s # r
      BY <1>4, <3>2 DEF AdminInv, LockInv, NamesFree, NameTaken, Here
    <3> QED
      BY <3>1, <3>2
  <2>7. GivenHere'
    BY <1>1, <2>2 DEF AdminInv, LockInv, GivenHere, Here
  <2>8. HeldRolesExist'
    BY <2>1, <2>2 DEF AdminInv, TableInv, HeldRolesExist, Here
  <2> QED
    BY <1>5, <1>6, <2>4, <2>6, <2>7, <2>8 DEF AdminInv, LockInv, TableInv
<1>8. CASE k.op = "role.delete"
  <2>1. role'[r].at = "gone" /\ held' = {h \in held : h[2] # r}
    BY <1>2, <1>8 DEF CommitRole, AdminInv, TypeInv, TypeOK, RoleRows
  <2>2. /\ \A s \in Roles : Here(s) /\ s # r => role'[s].at = "here"
        /\ \A s \in Roles : role'[s].at = "here" => Here(s) /\ s # r
    BY <1>4, <2>1 DEF Here
  <2>3. NamesUnique'
    BY <1>4, <2>2 DEF AdminInv, TableInv, NamesUnique, Here
  <2>4. NamesFree'
    <3> SUFFICES ASSUME NEW d \in Calls, d # c, Naming(call[d]),
                        NEW s \in Roles \ {call[d].role}, role'[s].at = "here"
                 PROVE  role'[s].name # call[d].name
      BY <1>1 DEF NamesFree, Naming, NameTaken, Here
    <3> QED
      BY <1>4, <2>2 DEF AdminInv, LockInv, NamesFree, NameTaken
  <2>5. GivenHere'
    <3> SUFFICES ASSUME NEW d \in Calls, d # c, Giving(call[d]), NEW s \in call[d].roles
                 PROVE  s \in Roles /\ role'[s].at = "here"
      BY <1>1 DEF GivenHere, Here
    <3>1. Here(s) /\ s # r
      BY <1>2, <1>8 DEF AdminInv, LockInv, GivenHere, GivenKept
    <3> QED
      BY <2>2, <3>1 DEF Here
  <2>6. HeldRolesExist'
    BY <2>1, <2>2 DEF AdminInv, TableInv, HeldRolesExist, Here
  <2> QED
    BY <1>5, <1>6, <2>3, <2>4, <2>5, <2>6 DEF AdminInv, LockInv, TableInv
<1> QED
  BY <1>7, <1>8 DEF CommitRole

LEMMA CommitMemberLocks ==
  ASSUME AdminInv, TypeInv', NEW c \in Calls, CommitMember(c)
  PROVE  AdminInv'
<1>1. /\ ~Locking(call'[c]) /\ ~Giving(call'[c])
      /\ \A d \in Calls : d # c =>
           /\ Locking(call'[d]) <=> Locking(call[d])
           /\ Naming(call'[d]) <=> Naming(call[d])
           /\ Giving(call'[d]) <=> Giving(call[d])
           /\ call'[d].op = call[d].op /\ call'[d].role = call[d].role
           /\ call'[d].name = call[d].name /\ call'[d].roles = call[d].roles
  <2>1. ~Locking(call'[c]) /\ ~Giving(call'[c])
    BY DEF AdminInv, TypeInv, TypeOK, CallStates, Locking, Giving, CommitMember
  <2>2. ASSUME NEW d \in Calls, d # c
        PROVE  /\ call'[d].pc = call[d].pc
               /\ call'[d].op = call[d].op /\ call'[d].role = call[d].role
               /\ call'[d].name = call[d].name /\ call'[d].roles = call[d].roles
    BY <2>2 DEF AdminInv, TypeInv, TypeOK, CallStates, CommitMember
  <2> QED
    BY <2>1, <2>2 DEF Locking, Naming, Giving
<1>2. role' = role
  BY DEF CommitMember
<1>3. LockedHere' /\ LockedOnce' /\ GivenHere' /\ GivenKept'
  BY <1>1, <1>2 DEF AdminInv, LockInv, LockedHere, LockedOnce, GivenHere, GivenKept, Here
<1>4. NamesFree' /\ NamedOnce'
  <2>1. ~Naming(call'[c])
    BY <1>1 DEF Naming
  <2> QED
    BY <1>1, <1>2, <2>1 DEF AdminInv, LockInv, NamesFree, NamedOnce, NameTaken, Here
<1>5. NamesUnique'
  BY <1>2 DEF AdminInv, TableInv, NamesUnique, Here
<1>6. HeldRolesExist'
  <2>1. call[c].roles # Keep => \A r \in call[c].roles : Here(r)
    BY DEF AdminInv, LockInv, GivenHere, Giving, CommitMember
  <2> SUFFICES ASSUME NEW h \in held'
               PROVE  Here(h[2])
    BY <1>2 DEF HeldRolesExist, Here
  <2>2. h \in held \/ (call[c].roles # Keep /\ h \in {call[c].member} \X call[c].roles)
    BY DEF CommitMember
  <2> QED
    BY <2>1, <2>2 DEF AdminInv, TableInv, HeldRolesExist
<1> QED
  BY <1>3, <1>4, <1>5, <1>6 DEF AdminInv, LockInv, TableInv

LEMMA AdminStep == AdminInv /\ [Next]_vars => AdminInv'
<1> SUFFICES ASSUME AdminInv, [Next]_vars
             PROVE  AdminInv'
  OBVIOUS
<1>1. TypeInv'
  BY StepTypes DEF AdminInv
<1>2. CASE UNCHANGED vars
  <2>1. LockInv'
    BY <1>2 DEF vars, AdminInv, LockInv, LockedHere, LockedOnce, NamesFree, NamedOnce,
                GivenHere, GivenKept, Naming, NameTaken, Here
  <2>2. TableInv'
    BY <1>2 DEF vars, AdminInv, TableInv, NamesUnique, HeldRolesExist, Here
  <2> QED
    BY <1>1, <2>1, <2>2 DEF AdminInv
<1>3. ASSUME NEW c \in Calls,
             Start(c) \/ Continue(c) \/ TxTimeout(c) \/ PoolTimeout(c)
      PROVE  AdminInv'
  <2>1. CASE Audit(c)
    BY <1>1, <2>1, EndLocks DEF Audit
  <2> QED
    BY <1>1, <1>3, <2>1, StartLocks, QuietStepLocks, InsertRoleLocks, InsertMemberLocks,
       CommitRoleLocks, CommitMemberLocks DEF Continue, QuietStep
<1> QED
  BY <1>2, <1>3 DEF Next

LEMMA InitAdmin == Init => AdminInv
<1> SUFFICES ASSUME Init
             PROVE  AdminInv
  OBVIOUS
<1>1. \A c \in Calls : ~Locking(call[c]) /\ ~Giving(call[c])
  BY DEF Init, Idle, Locking, Giving, RoleChanges
<1>2. LockInv
  BY <1>1 DEF LockInv, LockedHere, LockedOnce, NamesFree, NamedOnce, Naming,
              GivenHere, GivenKept
<1>3. TableInv
  BY InitAssumption DEF Init, TableInv, NamesUnique, HeldRolesExist, Here
<1> QED
  BY <1>2, <1>3, InitTypes DEF AdminInv

(* Two roles never have the same name, whatever requests create, copy and   *)
(* rename roles at the same time.                                           *)
THEOREM NamesStayUnique == Spec => []NamesUnique
<1>1. Spec => []AdminInv
  BY InitAdmin, AdminStep, PTL DEF Spec
<1> QED
  BY <1>1, PTL DEF AdminInv, TableInv

(* Nobody ever holds a role that was removed, whatever requests remove      *)
(* roles and give them to members at the same time.                         *)
THEOREM HeldRolesStay == Spec => []HeldRolesExist
<1>1. Spec => []AdminInv
  BY InitAdmin, AdminStep, PTL DEF Spec
<1> QED
  BY <1>1, PTL DEF AdminInv, TableInv

-----------------------------------------------------------------------------
(* The audit log                                                            *)

(* A record that tells the truth about rows there are.                      *)
Sound(a) ==
  /\ Tells(a)
  /\ a.action \in NewRoles \cup {"role.delete"} => a.role \in Roles
  /\ a.action = "member.create" => a.member \in Users

Record(k) == [action |-> k.op, role |-> k.role, member |-> k.member]

AuditInv ==
  /\ \A a \in audit : Sound(a)
  /\ \A c \in Calls : call[c].pc = "audit" => Sound(Record(call[c]))

(* What a record says stays true: rows come into being and go, never back.  *)
Onward ==
  /\ \A r \in Roles : /\ role[r].at = "gone" => role'[r].at = "gone"
                      /\ role[r].at # "unused" => role'[r].at # "unused"
  /\ \A u \in Users : user[u] # "absent" => user'[u] # "absent"

LEMMA StillSound ==
  ASSUME Onward, NEW a, Sound(a)
  PROVE  Sound(a)'
BY DEF Onward, Sound, Tells, NewRoles

LEMMA QuietOnward == UNCHANGED <<role, user>> => Onward
BY DEF Onward

(* Only a write or a commit puts a request in front of its audit record.    *)
LEMMA QuietUnaudited ==
  ASSUME TypeInv, NEW c \in Calls, Start(c) \/ QuietStep(c) \/ Audit(c)
  PROVE  /\ call'[c].pc # "audit"
         /\ \A d \in Calls : d # c => call'[d] = call[d]
<1>1. ASSUME NEW k, k.pc # "audit", call' = [call EXCEPT ![c] = k]
      PROVE  call'[c].pc # "audit" /\ \A d \in Calls : d # c => call'[d] = call[d]
  BY <1>1 DEF TypeInv, TypeOK
<1>2. End(c) => call'[c].pc # "audit" /\ \A d \in Calls : d # c => call'[d] = call[d]
  BY <1>1, IdleType DEF End
<1>3. ASSUME NEW pc, pc # "audit", GoTo(c, pc)
      PROVE  call'[c].pc # "audit" /\ \A d \in Calls : d # c => call'[d] = call[d]
  BY <1>3 DEF TypeInv, TypeOK, CallStates, GoTo
<1>4. CASE Start(c)
  <2>1. ASSUME NEW u, NEW can, NEW k, k.pc # "audit", Admit(c, u, can, k)
        PROVE  call'[c].pc # "audit" /\ \A d \in Calls : d # c => call'[d] = call[d]
    BY <1>1, <2>1 DEF Admit
  <2> USE DEF Idle
  <2>2. CASE StartCreateRole(c)
    BY <2>1, <2>2 DEF StartCreateRole
  <2>3. CASE StartDuplicateRole(c)
    BY <2>1, <2>3 DEF StartDuplicateRole
  <2>4. CASE StartUpdateRole(c)
    BY <2>1, <2>4 DEF StartUpdateRole
  <2>5. CASE StartDeleteRole(c)
    BY <2>1, <2>5 DEF StartDeleteRole
  <2>6. CASE StartCreateMember(c)
    BY <2>1, <2>6 DEF StartCreateMember
  <2>7. CASE StartUpdateMember(c)
    BY <2>1, <2>7 DEF StartUpdateMember
  <2> QED
    BY <1>4, <2>2, <2>3, <2>4, <2>5, <2>6, <2>7 DEF Start
<1>5. CASE Load(c)
  <2>1. CASE call' = [call EXCEPT ![c] = [call[c] EXCEPT !.pc = "check",
                        !.role = NoRole, !.perms = role[call[c].role].perms]]
    BY <2>1 DEF TypeInv, TypeOK, CallStates
  <2> QED
    BY <1>2, <1>3, <1>5, <2>1 DEF Load
<1>6. CASE Check(c) \/ Open(c) \/ WriteRole(c) \/ Refuse(c) \/ WriteMember(c)
           \/ TxTimeout(c) \/ PoolTimeout(c) \/ Audit(c)
  BY <1>2, <1>3, <1>6
  DEF Check, Open, WriteRole, Refuse, WriteMember, TxTimeout, PoolTimeout, Audit
<1>7. CASE Count(c)
  BY <1>7 DEF TypeInv, TypeOK, CallStates, Count
<1>8. CASE FindRoles(c)
  BY <1>8 DEF TypeInv, TypeOK, CallStates, FindRoles
<1>9. CASE DeleteRoles(c) \/ CreateRoles(c)
  BY <1>2, <1>3, <1>9 DEF DeleteRoles, CreateRoles
<1> QED
  BY <1>4, <1>5, <1>6, <1>7, <1>8, <1>9 DEF QuietStep

(* A request that ends, or that has written what its record will say.       *)
LEMMA AuditNext ==
  ASSUME AuditInv, Onward, NEW c \in Calls, audit' = audit,
         \A d \in Calls : d # c => call'[d].pc = call[d].pc
                                  /\ Record(call'[d]) = Record(call[d]),
         call'[c].pc = "audit" => Sound(Record(call[c]))'
  PROVE  AuditInv'
<1>1. \A a \in audit' : Sound(a)'
  BY StillSound DEF AuditInv
<1>2. ASSUME NEW d \in Calls, d # c, call'[d].pc = "audit"
      PROVE  Sound(Record(call[d]))'
  <2>1. Sound(Record(call[d])) /\ Record(call[d])' = Record(call[d])
    BY <1>2 DEF AuditInv
  <2>2. PICK a : a = Record(call[d])
    OBVIOUS
  <2>3. Sound(a)'
    BY <2>1, <2>2, StillSound
  <2> QED
    BY <2>1, <2>2, <2>3 DEF Sound, Tells
<1> QED
  BY <1>1, <1>2 DEF AuditInv

LEMMA AuditStep == AdminInv /\ TypeInv' /\ AuditInv /\ [Next]_vars => AuditInv'
<1> SUFFICES ASSUME AdminInv, TypeInv', AuditInv, [Next]_vars
             PROVE  AuditInv'
  OBVIOUS
<1>0. TypeInv
  BY DEF AdminInv
<1>1. CASE UNCHANGED vars
  BY <1>1 DEF vars, AuditInv, Sound, Tells, Record
<1>2. ASSUME NEW c \in Calls,
             Start(c) \/ Continue(c) \/ TxTimeout(c) \/ PoolTimeout(c)
      PROVE  AuditInv'
  <2>0. call[c] \in CallStates /\ Place(call[c])
    BY <1>0 DEF TypeInv, TypeOK, Placed
  <2>1. CASE Start(c) \/ QuietStep(c)
    <3>1. UNCHANGED <<role, user, audit>>
      BY <1>0, <2>1, QuietTypes DEF Tables, Start, StartCreateRole, StartDuplicateRole,
         StartUpdateRole, StartDeleteRole, StartCreateMember, StartUpdateMember, Admit
    <3> QED
      BY <1>0, <2>1, <3>1, QuietUnaudited, QuietOnward, AuditNext
  <2>2. ASSUME End(c), UNCHANGED <<role, user, audit>>
        PROVE  AuditInv'
    <3>1. call'[c].pc # "audit" /\ \A d \in Calls : d # c => call'[d] = call[d]
      BY <1>0, <2>2, IdleType DEF End, TypeInv, TypeOK
    <3> QED
      BY <2>2, <3>1, QuietOnward, AuditNext
  <2>3. ASSUME GoTo(c, "audit")
        PROVE  /\ \A d \in Calls : d # c => call'[d] = call[d]
               /\ Record(call[c])' = Record(call[c])
    BY <1>0, <2>3 DEF GoTo, TypeInv, TypeOK, CallStates, Record
  <2>4. CASE InsertRole(c)
    <3>1. ASSUME NEW r \in Roles, role[r].at = "unused",
                 role' = [role EXCEPT ![r] =
                            [at |-> "here", name |-> call[c].name, perms |-> call[c].perms]],
                 call' = [call EXCEPT ![c] = [call[c] EXCEPT !.pc = "audit", !.role = r]]
          PROVE  AuditInv'
      <4>1. Onward
        BY <1>0, <2>4, <3>1 DEF Onward, InsertRole, TypeInv, TypeOK
      <4>2. /\ \A d \in Calls : d # c => call'[d] = call[d]
            /\ call'[c].op = call[c].op /\ call'[c].role = r
            /\ role'[r].at = "here"
        BY <1>0, <2>0, <3>1 DEF TypeInv, TypeOK, CallStates
      <4>3. Sound(Record(call[c]))'
        BY <2>4, <4>2 DEF Sound, Tells, Record, InsertRole, NewRoles
      <4> QED
        BY <2>4, <4>1, <4>2, <4>3, AuditNext DEF InsertRole
    <3> QED
      BY <2>2, <2>4, <3>1 DEF InsertRole
  <2>5. CASE InsertMember(c)
    <3>1. CASE user' = [user EXCEPT ![call[c].member] = "active"] /\ GoTo(c, "audit")
      <4>1. call[c].op = "member.create" /\ call[c].member \in Users
        BY <2>0, <2>5 DEF Place, InsertMember
      <4>2. Onward /\ user'[call[c].member] = "active"
        BY <1>0, <2>5, <3>1, <4>1 DEF Onward, InsertMember, TypeInv, TypeOK
      <4>3. Sound(Record(call[c]))'
        BY <2>3, <3>1, <4>1, <4>2 DEF Sound, Tells, Record, NewRoles
      <4> QED
        BY <2>3, <2>5, <3>1, <4>2, <4>3, AuditNext DEF InsertMember
    <3> QED
      BY <2>2, <2>5, <3>1 DEF InsertMember
  <2>6. CASE CommitRole(c)
    <3>1. call[c].op \in RoleChanges /\ call[c].role \in Roles
      BY <2>0, <2>6 DEF Place, CommitRole, RoleChanges
    <3>2. Onward /\ (call[c].op = "role.delete" => role'[call[c].role].at = "gone")
      <4>1. CASE call[c].op = "role.update"
        BY <1>0, <2>6, <3>1, <4>1 DEF Onward, CommitRole, TypeInv, TypeOK, RoleRows
      <4>2. CASE call[c].op = "role.delete"
        BY <1>0, <2>6, <3>1, <4>2 DEF Onward, CommitRole, TypeInv, TypeOK, RoleRows
      <4> QED
        BY <3>1, <4>1, <4>2 DEF RoleChanges
    <3>3. GoTo(c, "audit") /\ audit' = audit
      BY <2>6 DEF CommitRole
    <3>4. Sound(Record(call[c]))'
      BY <2>3, <3>1, <3>2, <3>3 DEF Sound, Tells, Record, NewRoles, RoleChanges
    <3> QED
      BY <2>3, <3>2, <3>3, <3>4, AuditNext
  <2>7. CASE CommitMember(c)
    <3>1. Onward
      BY <1>0, <2>0, <2>7 DEF Onward, CommitMember, TypeInv, TypeOK, CallStates
    <3>2. audit' = audit /\ call[c].op = "member.update"
      BY <2>7 DEF CommitMember
    <3>3. \A d \in Calls : Record(call'[d]) = Record(call[d])
      BY <1>0, <2>7 DEF CommitMember, TypeInv, TypeOK, CallStates, Record
    <3>4. \A d \in Calls : d # c => call'[d].pc = call[d].pc
      BY <1>0, <2>7 DEF CommitMember, TypeInv, TypeOK, CallStates
    <3>5. Sound(Record(call[c]))'
      BY <3>2, <3>3 DEF Sound, Tells, Record, NewRoles
    <3> QED
      BY <3>1, <3>2, <3>3, <3>4, <3>5, AuditNext
  <2>8. CASE Audit(c)
    <3>1. UNCHANGED <<role, user>> /\ audit' = audit \cup {Record(call[c])}
      BY <2>8 DEF Audit, Record
    <3>2. Sound(Record(call[c]))
      BY <2>8 DEF AuditInv, Audit
    <3>3. \A a \in audit' : Sound(a)'
      BY <3>1, <3>2, StillSound, QuietOnward DEF AuditInv
    <3>4. ASSUME NEW d \in Calls, call'[d].pc = "audit"
          PROVE  Sound(Record(call[d]))'
      <4>1. d # c /\ call'[d] = call[d]
        BY <1>0, <2>8, <3>4, QuietUnaudited
      <4> QED
        BY <3>1, <3>4, <4>1 DEF AuditInv, Sound, Tells, Record
    <3> QED
      BY <3>3, <3>4 DEF AuditInv
  <2> QED
    BY <1>2, <2>1, <2>4, <2>5, <2>6, <2>7, <2>8 DEF Continue, QuietStep
<1> QED
  BY <1>1, <1>2 DEF Next

LEMMA InitAudit == Init => AuditInv
BY DEF Init, AuditInv, Idle

(* The audit log never names a change that was refused, timed out or lost.  *)
THEOREM AuditStaysTrue == Spec => []AuditTellsTruth
<1>1. Spec => [](AdminInv /\ TypeInv)
  <2>1. Spec => []AdminInv
    BY InitAdmin, AdminStep, PTL DEF Spec
  <2> QED
    BY <2>1, PTL DEF AdminInv
<1>2. AuditInv => AuditTellsTruth
  BY DEF AuditInv, AuditTellsTruth, Sound
<1> QED
  BY <1>1, <1>2, InitAudit, AuditStep, PTL DEF Spec
=============================================================================
