----------------------------- MODULE Directory -----------------------------
(***************************************************************************)
(* Who may see and approve whose data: the pure rules of common/rbac.ts and *)
(* the lookups of rbac/rbac.service.ts, as operators on a directory record  *)
(*   [active, dept, parent, manager, grants].                               *)
(* `grants[u]` is the set of scopes at which the merged permissions of all  *)
(* of u's roles grant one feature x action pair (approval:approve here);    *)
(* every other entry of a role's permission list is abstracted away.        *)
(***************************************************************************)
EXTENDS Naturals, FiniteSets

CONSTANTS Users,    \* app_user ids
          Depts,    \* department ids
          NoUser,   \* a null user reference
          NoDept    \* a null department reference

ASSUME NullsAreNotIds == NoUser \notin Users /\ NoDept \notin Depts

Scopes == {"self", "department", "location", "org"}
NoScope == "none"

SCOPE_RANK == [self |-> 0, department |-> 1, location |-> 2, org |-> 3]

Directories ==
  [active  : SUBSET Users,
   dept    : [Users -> Depts \cup {NoDept}],
   parent  : [Depts -> Depts \cup {NoDept}],
   manager : [Depts -> Users \cup {NoUser}],
   grants  : [Users -> SUBSET Scopes]]

(* The widest scope among the granted ones, NoScope when there is none.     *)
ResolveScope(granted) ==
  IF granted = {}
    THEN NoScope
    ELSE CHOOSE s \in granted : \A t \in granted : SCOPE_RANK[t] <= SCOPE_RANK[s]

ClosedUnder(parent, S) == \A d \in Depts : parent[d] \in S => d \in S

(* A department and all its descendants: the least set that holds it and is *)
(* closed under "child of". Module DeptTree checks that the stack walk of   *)
(* the code computes this set, cycles in `parent` included.                 *)
Subtree(parent, root) ==
  {d \in Depts : \A S \in SUBSET Depts :
                   root \in S /\ ClosedUnder(parent, S) => d \in S}

AccessibleDepts(dir, actorDept, scope) ==
  CASE scope = "self"      -> {}
    [] scope = "org"       -> Depts
    [] scope \in {"department", "location"} ->
         IF actorDept = NoDept THEN {} ELSE Subtree(dir.parent, actorDept)

IsVisible(scope, actor, accessible, owner, ownerDept) ==
  \/ scope = "org"
  \/ owner = actor
  \/ scope \in {"department", "location"} /\ ownerDept \in accessible

(* Active users holding approval:approve at a scope that shows the owner's  *)
(* data; the owner himself is included.                                     *)
EligibleApprovers(dir, owner, ownerDept) ==
  {u \in dir.active :
     LET scope == ResolveScope(dir.grants[u])
     IN  /\ scope # NoScope
         /\ IsVisible(scope, u, AccessibleDepts(dir, dir.dept[u], scope),
                      owner, ownerDept)}

(* The active manager of a department, NoUser when there is none.           *)
DepartmentManagerOf(dir, dept) ==
  IF dept # NoDept /\ dir.manager[dept] \in dir.active
    THEN dir.manager[dept]
    ELSE NoUser
=============================================================================
