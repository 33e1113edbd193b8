\* Two approvals of different requests at the same time.
SPECIFICATION Spec
CONSTANTS
  r1 = r1  r2 = r2  r3 = r3  NoRequest = NoRequest
  LastRow = 2
  Requests = {r1, r2, r3}
  Minutes <- ThreeThreeNegative
  Calls = {c1, c2}
  MaxDecisions = 1
  Granted <- TwoThenThree
  GrantOptions = {}
  MaxGranted = 4
  MayFail = FALSE
INVARIANTS
  NothingLost
\* Every request is approved and every row full in the end.
CHECK_DEADLOCK FALSE
