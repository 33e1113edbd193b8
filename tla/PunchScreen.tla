---------------------------- MODULE PunchScreen -----------------------------
(***************************************************************************)
(* The punch page of one member (frontend/lib/usePunch.ts and               *)
(* frontend/app/(app)/punch/page.tsx) on top of AttendanceClose: what it    *)
(* shows was queried some time ago, a button asks for the position before   *)
(* it sends anything and may be pressed again meanwhile, and a request      *)
(* whose handler is lost fails although its punch may be stored.            *)
(***************************************************************************)
EXTENDS AttendanceClose

CONSTANTS Today,    \* the member's day
          Presses,  \* buttons pressed that may be under way at the same time
          Load,     \* the query made when the page opens
          NoCall    \* no handler

ASSUME ScreenAssumption == Today \in Days /\ Load \notin Presses /\ NoCall \notin Calls

VARIABLES shown,  \* the records the page shows
          busy,   \* whether its buttons are disabled
          press   \* the presses and the first query

screenVars == <<vars, shown, busy, press>>

Released == [pc |-> "idle", type |-> "clock_in", by |-> NoCall, seen |-> {}]

ScreenInit ==
  /\ Init
  /\ shown = {}
  /\ busy = FALSE
  /\ press = [p \in Presses \cup {Load} |->
       IF p = Load THEN [Released EXCEPT !.pc = "refresh"] ELSE Released]

(* deriveState of usePunch.ts.                                              *)
ScreenState ==
  FoldInOrder(LAMBDA state, r :
      IF r.type = "clock_in" THEN "in"
      ELSE IF r.type = "clock_out" THEN "out"
      ELSE IF r.type = "break_start" /\ state = "in" THEN "break"
      ELSE IF r.type = "break_end" /\ state = "break" THEN "in"
      ELSE state,
    "out", shown)

(* mutant: no clocking out from a break                                     *)
OfferNoEarlyEnd(type) ==
  CASE type = "clock_in"    -> ScreenState = "out"
    [] type = "clock_out"   -> ScreenState = "in"
    [] type = "break_start" -> ScreenState = "in"
    [] type = "break_end"   -> ScreenState = "break"

(* punchButtons                                                             *)
Offered(type) ==
  CASE type = "clock_in"    -> ScreenState = "out"
    [] type = "clock_out"   -> ScreenState \in {"in", "break"}
    [] type = "break_start" -> ScreenState = "in"
    [] type = "break_end"   -> ScreenState = "break"

-----------------------------------------------------------------------------
(* doPunch: the position is awaited before the buttons are disabled.        *)
Press(p, type) ==
  /\ press[p].pc = "idle" /\ ~busy /\ Offered(type)
  /\ press' = [press EXCEPT ![p] = [Released EXCEPT !.pc = "locate", !.type = type]]
  /\ UNCHANGED <<vars, shown, busy>>

(* punch: the buttons are disabled, the server takes the request up.        *)
Post(p, c) ==
  /\ press[p].pc = "locate"
  /\ StartPunch(c, Today, press[p].type)
  /\ press' = [press EXCEPT ![p].pc = "wait", ![p].by = c]
  /\ busy' = TRUE
  /\ UNCHANGED shown

(* mutant: the answer does not wait for the recompute                       *)
AnsweredEarly(c, ok) ==
  LET waiting == {p \in Presses : press[p].by = c /\ call'[c].pc \in {"idle", "sum_status"}} IN
  /\ press' = [p \in DOMAIN press |->
       IF p \notin waiting THEN press[p]
       ELSE IF ok THEN [press[p] EXCEPT !.pc = "refresh", !.by = NoCall] ELSE Released]
  /\ busy' = (busy /\ (ok \/ waiting = {}))
  /\ UNCHANGED shown

(* A handler ends, and the press that waits for it gets its answer: a punch *)
(* refused or a handler lost is an error, shown without a new query.        *)
Answered(c, ok) ==
  LET waiting == {p \in Presses : press[p].by = c /\ call'[c].pc = "idle"} IN
  /\ press' = [p \in DOMAIN press |->
       IF p \notin waiting THEN press[p]
       ELSE IF ok THEN [press[p] EXCEPT !.pc = "refresh", !.by = NoCall] ELSE Released]
  /\ busy' = (busy /\ (ok \/ waiting = {}))
  /\ UNCHANGED shown

Serve(c) == Continue(c) /\ Answered(c, call[c].pc # "punch_read")

Lose(c) == Crash(c) /\ Answered(c, FALSE)

(* GET /time-records without a period: the member's records of today.       *)
TodaysRecords == records[Today]

(* refresh: a query that fails counts as an empty day.                      *)
Refresh(p) ==
  /\ press[p].pc = "refresh"
  /\ \E answer \in {TodaysRecords} \cup (IF MayCrash THEN {{}} ELSE {}) :
       press' = [press EXCEPT ![p].pc = "show", ![p].seen = answer]
  /\ UNCHANGED <<vars, shown, busy>>

Show(p) ==
  /\ press[p].pc = "show"
  /\ shown' = press[p].seen
  /\ busy' = (busy /\ p = Load)
  /\ press' = [press EXCEPT ![p] = Released]
  /\ UNCHANGED vars

-----------------------------------------------------------------------------
Screen ==
  \/ \E p \in Presses :
       \/ \E type \in PunchTypes : Press(p, type)
       \/ \E c \in Calls : Post(p, c)
  \/ \E p \in DOMAIN press : Refresh(p) \/ Show(p)

(* Other devices, other members and the administration.                     *)
Others(c) == Start(c) /\ UNCHANGED <<shown, busy, press>>

ScreenNext == Screen \/ \E c \in Calls : Others(c) \/ Serve(c) \/ Lose(c)

ScreenSpec == ScreenInit /\ [][ScreenNext]_screenVars

-----------------------------------------------------------------------------
(* Properties                                                               *)

(* The page offers a punch exactly when the server would take it for the    *)
(* records shown: two programs work the state out of the same records.      *)
ButtonsAgree ==
  \A type \in PunchTypes : Offered(type) <=> ValidatePunch(DeriveState(shown), type)

Confirmed(p) == press[p].pc = "wait" /\ press'[p].pc = "refresh"

(* A punch the page reports as recorded is in the member's summary when the *)
(* answer comes, unless the day was locked by then: the answer waits for    *)
(* the recompute.                                                           *)
ConfirmedIsBooked ==
  [][\A p \in Presses :
       Confirmed(p) =>
         \/ call[press[p].by].rec \in summary'[Today].counted
         \/ summary[Today].status = "closed"]_screenVars
=============================================================================
