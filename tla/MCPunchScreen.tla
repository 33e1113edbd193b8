---------------------------- MODULE MCPunchScreen ----------------------------
(***************************************************************************)
(* One member's page, two days and two corrections: a clock-in for the      *)
(* first day, which the payload names, with a clock-out for the second; a   *)
(* later clock-out for the second day without a target date.                *)
(***************************************************************************)
EXTENDS PunchScreen, TLC

CONSTANTS d1, d2, f1, f2, p1, p2

ClockIn == [type |-> "clock_in", at |-> 0, corrected |-> TRUE]
ClockOut(time) == [type |-> "clock_out", at |-> time, corrected |-> TRUE]

NamedDay == [f \in Fixes |-> IF f = f1 THEN d1 ELSE NoDay]
Forgotten ==
  [f \in Fixes |-> [d \in Days |->
     CASE f = f1 -> IF d = d1 THEN {ClockIn} ELSE {ClockOut(2)}
       [] f = f2 -> IF d = d2 THEN {ClockOut(3)} ELSE {}]]

PressSymmetry == Permutations(Presses)

-----------------------------------------------------------------------------
(* The specification with a history: the days that got a record whose       *)
(* handler did not go on to compute their summary, because it was lost or   *)
(* because a correction named another date or none.                         *)
VARIABLE missed

Recomputing(c) == call[c].pc \in {"sum_status", "sum_records", "sum_upsert"}

MCInit == ScreenInit /\ missed = {}

MCNext ==
  \/ Screen /\ UNCHANGED missed
  \/ \E c \in Calls :
       \/ /\ Others(c) /\ UNCHANGED clock
          /\ missed' = missed \cup {d \in Days : records'[d] # records[d] /\ call'[c].day # d}
       \/ /\ Serve(c)
          /\ missed' = IF call[c].pc = "sum_upsert" THEN missed \ {call[c].day} ELSE missed
       \/ /\ Lose(c)
          /\ missed' = IF Recomputing(c) THEN missed \cup {call[c].day} ELSE missed

MCSpec == MCInit /\ [][MCNext]_<<screenVars, missed>>

(* In a month never closed, whenever nothing is under way, the summary of a *)
(* day counts exactly its records, unless a handler that stored a record of *)
(* the day was lost before the recompute or recomputed another day only     *)
(* (a punch recomputes its day, an approval the target date). The check     *)
(* before the close then counts a row for each of these days with a record. *)
ExactUnlessMissed ==
  Quiet /\ month = "none" =>
    /\ \A d \in Days \ missed : summary[d].counted = records[d]
    /\ Cardinality({d \in Days \ missed : records[d] # {}}) <= Precheck.openSummaries
=============================================================================
