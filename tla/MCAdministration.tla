-------------------------- MODULE MCAdministration --------------------------
(***************************************************************************)
(* An organization just set up: a system administrator, a manager who may   *)
(* edit roles for his department only, and a member still to be created.    *)
(***************************************************************************)
EXTENDS Administration, TLC

CONSTANTS admin, manager, newcomer, ra, rm, rn, na, nm

May(can, scope) == [can |-> can, scope |-> scope]

AdminPerms == {May("role.manage", "org"), May("member.create", "org"),
               May("member.edit", "org")}
ManagerPerms == {May("role.manage", "department"), May("member.edit", "department")}

MCPermSets == {AdminPerms, ManagerPerms}
MCRoleSets == {{}, {ra}, {rm}}

MCUser == admin :> "active" @@ manager :> "active" @@ newcomer :> "absent"
MCRole == ra :> [at |-> "here", name |-> na, perms |-> AdminPerms]
       @@ rm :> [at |-> "here", name |-> nm, perms |-> ManagerPerms]
       @@ rn :> [at |-> "unused", name |-> Keep, perms |-> Keep]
MCHeld == {<<admin, ra>>, <<manager, rm>>}
=============================================================================
