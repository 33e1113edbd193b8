\* Two handlers at a time on one three-step request, any of them lost at any
\* await, while the route is edited and the last step's approver retires.
SPECIFICATION Spec
CONSTANTS
  taro = taro  mana = mana  hana = hana  head = head  dev = dev  r1 = r1  r2 = r2
  NoUser = NoUser  NoDept = NoDept  NoRow = NoRow  NoRequest = NoRequest
  Users <- MCUsers
  Depts <- MCDepts
  Requests = {r1}
  Calls = {c1, c2}
  Steps = {1, 2, 3}
  Owner <- TaroFiles
  Kind <- AllPunchFix
  InitDirectories <- Busy
  InitRoutes <- ThreeSteps
  RouteOptions <- OwnRoute
  MemberOptions <- HeadRetires
  MayCrash = TRUE
  LoopLimit = 4
INVARIANTS
  NoStepSkipped
  RowsMatchAudit
  ApprovedIsComplete
  DecidersEntitled
SYMMETRY CallSymmetry
