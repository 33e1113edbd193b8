--------------------------- MODULE MCLeaveLedger ---------------------------
(***************************************************************************)
(* Two balance rows, requests that empty the first and reach into the       *)
(* second, and one for a negative number of days, which nothing refuses.    *)
(* One minute here stands for half a day.                                   *)
(***************************************************************************)
EXTENDS LeaveLedger, TLC

CONSTANTS r1, r2, r3

TwoThenThree == (1 :> 2 @@ 2 :> 3)

Halves(n) == LeaveMinutes([halfCount |-> n], "half", 2)
ThreeThreeNegative == (r1 :> Halves(3) @@ r2 :> Halves(3) @@ r3 :> Halves(-1))
=============================================================================
