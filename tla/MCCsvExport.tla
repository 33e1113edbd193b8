---------------------------- MODULE MCCsvExport -----------------------------
(***************************************************************************)
(* Two members with a day each, and a clock-in of the first that an approved *)
(* correction adds.                                                         *)
(***************************************************************************)
EXTENDS CsvExport

CONSTANTS d1, d2, f1

ForFirstDay == [f \in Fixes |-> d1]
ForgottenClockIn ==
  [f \in Fixes |-> [d \in Days |->
     IF d = d1 THEN {[type |-> "clock_in", at |-> 0, corrected |-> TRUE]} ELSE {}]]

MCMembers == <<"m1", "m2">>
MCDaysOf == [m \in {"m1", "m2"} |-> IF m = "m1" THEN {d1} ELSE {d2}]
=============================================================================
