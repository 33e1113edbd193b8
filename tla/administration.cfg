\* Two requests at a time over a pool of two connections.
SPECIFICATION FairSpec
CONSTANTS
  admin = admin  manager = manager  newcomer = newcomer
  ra = ra  rm = rm  rn = rn  na = na  nm = nm
  Keep = Keep  Nobody = Nobody  NoRole = NoRole
  Users = {admin, manager, newcomer}
  Roles = {ra, rm, rn}
  Names = {na, nm, nx}
  PermSets <- MCPermSets
  RoleSets <- MCRoleSets
  Calls = {c1, c2}
  PoolSize = 2
  InitUser <- MCUser
  InitRole <- MCRole
  InitHeld <- MCHeld
INVARIANTS
  NamesUnique
  HeldRolesExist
  AuditTellsTruth
PROPERTY
  ChangesEnd
\* Every request is made and over in the end.
CHECK_DEADLOCK FALSE
