-------------------------- MODULE MCAttendanceCalc --------------------------
(***************************************************************************)
(* A day of four minutes of two ticks, one minute of night at each end, and *)
(* members without a pattern, with fixed hours, and with planned shifts,    *)
(* one of which ends the next morning.                                      *)
(***************************************************************************)
EXTENDS AttendanceCalc

Rule(scheduled, breaks, unit, method) ==
  [scheduled |-> scheduled, breaks |-> breaks, unit |-> unit, method |-> method]

MCDefaultRule == Rule(2, 1, 1, "none")
MCRules ==
  {MCDefaultRule, Rule(2, 1, 1, "up"), Rule(1, 1, 2, "up"), Rule(2, 0, 2, "down"),
   Rule(2, 1, 3, "nearest")}

DayShift == [start |-> 2, end |-> 6]
NightShift == [start |-> 6, end |-> 2]

MCPlans ==
  {[pattern |-> "none", rule |-> MCDefaultRule, shift |-> Nothing],
   [pattern |-> "shift", rule |-> MCDefaultRule, shift |-> Nothing],
   [pattern |-> "shift", rule |-> MCDefaultRule, shift |-> NightShift]}
  \cup [pattern : {"fixed"}, rule : MCRules \ {MCDefaultRule}, shift : {Nothing}]
  \cup [pattern : {"shift"}, rule : MCRules, shift : {DayShift}]
=============================================================================
