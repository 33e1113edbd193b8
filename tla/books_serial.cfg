\* One handler at a time, lost or not: two days, closing and reopening, the
\* page on which the first day is punched, and corrections with records on
\* other days than the one they name.
SPECIFICATION MCSpec
CONSTANTS
  d1 = d1  d2 = d2  f1 = f1  f2 = f2  NoDay = NoDay  NoFix = NoFix
  Days = {d1, d2}
  Calls = {c1}
  Fixes = {f1, f2}
  FixTarget <- NamedDay
  FixRecords <- Forgotten
  MaxPunches = 2
  MayCrash = TRUE
  Today = d1
  p1 = p1  p2 = p2
  Presses = {p1, p2}
  Load = Load
  NoCall = NoCall
INVARIANTS
  ValidPunches
  ExactUnlessMissed
  ButtonsAgree
PROPERTIES
  CloseCountsAll
  ConfirmedIsBooked
SYMMETRY PressSymmetry
