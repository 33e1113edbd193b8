\* Two approvers answer the same step at the same time.
SPECIFICATION Spec
CONSTANTS
  taro = taro  mana = mana  hana = hana  head = head  dev = dev  r1 = r1  r2 = r2
  NoUser = NoUser  NoDept = NoDept  NoRow = NoRow  NoRequest = NoRequest
  Users <- MCUsers
  Depts <- MCDepts
  Requests = {r1}
  Calls = {c1, c2}
  Steps = {1, 2}
  Owner <- TaroFiles
  Kind <- AllPunchFix
  InitDirectories <- Busy
  InitRoutes <- TwoSteps
  RouteOptions = {}
  MemberOptions = {}
  MayCrash = FALSE
  LoopLimit = 4
INVARIANT
  DecidedOnce
