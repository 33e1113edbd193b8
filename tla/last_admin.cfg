\* One request on an organization with a single administrator.
SPECIFICATION FairSpec
CONSTANTS
  admin = admin  manager = manager  newcomer = newcomer
  ra = ra  rm = rm  rn = rn  na = na  nm = nm
  Keep = Keep  Nobody = Nobody  NoRole = NoRole
  Users = {admin, manager, newcomer}
  Roles = {ra, rm, rn}
  Names = {na, nm}
  PermSets <- MCPermSets
  RoleSets <- MCRoleSets
  Calls = {c1, c2}
  PoolSize = 3
  InitUser <- MCUser
  InitRole <- MCRole
  InitHeld <- MCHeld
PROPERTY
  AdminRemains
CHECK_DEADLOCK FALSE
