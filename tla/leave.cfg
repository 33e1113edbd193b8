\* Two approvals and a grant at the same time, transactions rolled back or not.
SPECIFICATION MCSpec
CONSTANTS
  r1 = r1  r2 = r2  r3 = r3  NoRequest = NoRequest
  LastRow = 2
  Requests = {r1, r2, r3}
  Minutes <- ThreeThreeNegative
  Calls = {c1, c2}
  MaxDecisions = 2
  Granted <- TwoThenThree
  GrantOptions = {1}
  MaxGranted = 3
  MayFail = TRUE
  Followed = {r1}
INVARIANTS
  UsedWithinGranted
  EarliestFirst
  SpendsExactly
  OneNoticeEach
PROPERTIES
  ApprovalsEnd
  MailFollows
\* Every request is approved and every row full in the end.
CHECK_DEADLOCK FALSE
