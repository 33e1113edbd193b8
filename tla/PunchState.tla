----------------------------- MODULE PunchState -----------------------------
(***************************************************************************)
(* The pure rules of punch-state.ts: the state a day's punches leave a      *)
(* person in, and which punch that state allows. A punch is a record with   *)
(* fields `type` and `at`; a day's punches are a set, ordered by time.      *)
(***************************************************************************)
EXTENDS Naturals, Folds

PunchTypes == {"clock_in", "clock_out", "break_start", "break_end"}

AfterPunch(state, type) ==
  CASE type = "clock_in"    -> "in"
    [] type = "clock_out"   -> "out"
    [] type = "break_start" -> IF state = "in" THEN "break" ELSE state
    [] type = "break_end"   -> IF state = "break" THEN "in" ELSE state

Latest(punches) == CHOOSE p \in punches : \A q \in punches : q.at <= p.at

FoldInOrder(op(_, _), base, punches) ==
  MapThenFoldSet(LAMBDA p, before : op(before, p), base, LAMBDA p : p, Latest, punches)

DeriveState(punches) ==
  FoldInOrder(LAMBDA state, p : AfterPunch(state, p.type), "out", punches)

ValidatePunch(state, type) ==
  CASE type = "clock_in"    -> state = "out"
    [] type = "clock_out"   -> state \in {"in", "break"}
    [] type = "break_start" -> state = "in"
    [] type = "break_end"   -> state = "break"
=============================================================================
