\* Starts of the container, with and without the seed, and three requests.
SPECIFICATION DataSpec
CONSTANTS
  hq = hq  dev = dev  ops = ops  std = std  alt = alt
  paid = paid  comp = comp  extra = extra  csv = csv
  taro = taro  jiro = jiro  hana = hana  mina = mina  demo = demo
  NoUser = NoUser  NoDept = NoDept
  Users <- MCUsers
  Depts <- MCDepts
  Calls = {c1, c2}
  Inputs <- MCInputs
  ScopeOf <- MCScope
  MaxRequests = 3
  MaxBoots = 2
  CutAt = {1, 2}
  Seeding = {TRUE, FALSE}
INVARIANTS
  InitializedHasAdmin
  
  AssignmentsDisjoint
  WalkFindsSubtree
  
PROPERTIES
  
  WalkEnds
\* The container may stay down, and requests are bounded.
CHECK_DEADLOCK FALSE
