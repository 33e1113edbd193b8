\* One handler at a time, lost or not: two requests under routes put together on
\* the page, and the page on which the manager decides them.
SPECIFICATION MCSpec
CONSTANTS
  taro = taro  mana = mana  hana = hana  head = head  dev = dev  r1 = r1  r2 = r2
  NoUser = NoUser  NoDept = NoDept  NoRow = NoRow  NoRequest = NoRequest
  Users <- MCUsers
  Depts <- MCDepts
  Requests = {r1, r2}
  Calls = {c1}
  Steps = {1, 2}
  Owner <- TaroFiles
  Kind <- AllPunchFix
  InitDirectories <- ManagerOnly
  InitRoutes <- TwoScopes
  RouteOptions = {}
  MemberOptions = {}
  MayCrash = TRUE
  LoopLimit = 4
  FormMembers = {mana}
  FormKinds = {"all"}
  MaxFormSteps = 2
  MaxRoutes = 1
  Approver = mana
  p1 = p1  p2 = p2
  Presses = {p1, p2}
  MaxLost = 1
  NoCall = NoCall
INVARIANTS
  WaitsAtAStep
  OneStepPerPress
PROPERTIES
  ImplementsLifecycle
SYMMETRY Symmetry
