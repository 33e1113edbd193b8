\* Two handlers that overlap, none lost, and an export of the month.
SPECIFICATION CsvSpec
CONSTANTS
  d1 = d1  d2 = d2  f1 = f1  NoDay = NoDay  NoFix = NoFix
  Days = {d1, d2}
  Calls = {c1, c2}
  Fixes = {f1}
  FixTarget <- ForFirstDay
  FixRecords <- ForgottenClockIn
  MaxPunches = 1
  MayCrash = FALSE
  Exports = {e1}
  Members <- MCMembers
  DaysOf <- MCDaysOf
INVARIANTS
  ClosedUnderClose
  FileAsLocked
PROPERTIES
  CloseEnds
