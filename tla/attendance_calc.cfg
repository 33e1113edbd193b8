\* Every day of up to six records, one of them a correction, under every rule.
SPECIFICATION Spec
CONSTANTS
  Nothing = Nothing
  TicksPerMinute = 2
  Day = 8
  NightEnd = 2
  NightStart = 6
  DefaultRule <- MCDefaultRule
  Plans <- MCPlans
  MaxRecords = 6
  MaxCorrections = 1
INVARIANTS
  WorkedAsPunched
  NightAsPunched
  KeptShift
\* The day's records are bounded.
CHECK_DEADLOCK FALSE
