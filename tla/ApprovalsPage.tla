---------------------------- MODULE ApprovalsPage ----------------------------
(***************************************************************************)
(* The approvals page of one member (frontend/app/(app)/approvals/page.tsx) *)
(* on top of RouteForm and RequestWorkflow: its list was queried some time  *)
(* ago, a row has two buttons that are disabled while the row's own request *)
(* is under way, and one button approves the whole list, row after row,     *)
(* whatever becomes of each. Both may be pressed while others are at work,  *)
(* and an answer may be lost.                                               *)
(***************************************************************************)
EXTENDS RouteForm

CONSTANTS Approver, \* whose page it is
          Presses,  \* buttons pressed that may be under way at the same time
          MaxLost,  \* bound: handlers and answers lost
          NoCall    \* no handler

ASSUME PageAssumption == Approver \in Users /\ NoCall \notin Calls /\ MaxLost \in Nat

VARIABLES items,   \* the rows listed: request and step
          loading, \* whether the page shows a spinner in place of the list
          busy,    \* the row whose buttons are disabled, as a set
          press,   \* the presses
          lost     \* handlers and answers lost so far

pageVars == <<formVars, items, loading, busy, press, lost>>

Released == [pc |-> "idle", all |-> FALSE, verdict |-> "approved", todo |-> {},
             by |-> NoCall, did |-> {}]

PageInit ==
  /\ Init
  /\ form = EmptyForm
  /\ items = {} /\ loading = FALSE /\ busy = {}
  /\ press = [p \in Presses |-> Released]
  /\ lost = 0

Listed == {row \in Requests \X Steps : PendingFor(Approver, row[1], row[2])}

-----------------------------------------------------------------------------
Open(p) ==
  /\ press[p].pc = "idle"
  /\ press' = [press EXCEPT ![p] = [Released EXCEPT !.pc = "load"]]
  /\ loading' = TRUE
  /\ UNCHANGED <<formVars, items, busy, lost>>

(* act. A rejection without a comment is not sent.                          *)
Press(p, row, v) ==
  /\ press[p].pc = "idle"
  /\ ~loading /\ row \in items \ busy
  /\ busy' = {row}
  /\ press' = [press EXCEPT ![p] =
       [Released EXCEPT !.pc = "post", !.verdict = v, !.todo = {row}]]
  /\ UNCHANGED <<formVars, items, loading, lost>>

(* approveAll: offered for more than one row, never disabled, and not hidden *)
(* by the spinner.                                                          *)
PressAll(p) ==
  /\ press[p].pc = "idle"
  /\ Cardinality(items) > 1
  /\ press' = [press EXCEPT ![p] =
       [Released EXCEPT !.pc = "post", !.all = TRUE, !.todo = items]]
  /\ UNCHANGED <<formVars, items, loading, busy, lost>>

(* The rows go out in the list's order; which of two that is makes no       *)
(* difference here.                                                         *)
Post(p, c) ==
  \E row \in press[p].todo :
    /\ press[p].pc = "post"
    /\ StartAct(c, Approver, row[1], row[2], press[p].verdict)
    /\ press' = [press EXCEPT ![p].pc = "wait", ![p].by = c, ![p].todo = @ \ {row}]
    /\ UNCHANGED <<form, items, loading, busy, lost>>

(* mutant: the loop goes over the list as it is now                         *)
RestOfList(p) == IF press[p].all THEN items \ press[p].did ELSE {}

Rest(p) == press[p].todo

(* After an answer: the loop goes on with its next row, a single act        *)
(* queries the list again when it succeeded or came too late (409).         *)
AfterAnswer(p, how) ==
  IF press[p].all
    THEN IF Rest(p) # {} THEN "post" ELSE "load"
    ELSE IF how = "error" THEN "idle" ELSE "load"

Answered(c, how) ==
  LET waiting == {p \in Presses : press[p].by = c}
      ends    == call'[c].pc = "idle"
      decides == IF call[c].pc = "decide" /\ call[c].actor = Approver /\ how # "error"
                   THEN {<<call[c].req, call[c].step>>} ELSE {}
      did(p)  == IF press[p].all THEN press[p].did \cup decides ELSE {}
      next(p) == AfterAnswer(p, how)
      ended(p) == [Released EXCEPT !.pc = next(p), !.all = press[p].all /\ next(p) # "idle",
                                   !.todo = Rest(p), !.did = did(p)]
  IN
  /\ press' = [p \in Presses |->
       IF p \notin waiting THEN press[p]
       ELSE IF ends THEN ended(p) ELSE [press[p] EXCEPT !.did = did(p)]]
  /\ busy' = IF ends /\ how = "error" /\ \E p \in waiting : ~press[p].all THEN {} ELSE busy
  /\ loading' = (loading \/ (ends /\ \E p \in waiting : next(p) = "load"))
  /\ UNCHANGED <<form, items>>

(* A handler that ends in its first checks refuses.                         *)
Outcome(c) ==
  CASE call[c].pc = "act_read" -> "conflict"
    [] call[c].pc = "act_check" -> "error"
    [] OTHER -> "ok"

Serve(c) == Continue(c) /\ Answered(c, Outcome(c)) /\ UNCHANGED lost

Lose(c) ==
  /\ lost < MaxLost
  /\ lost' = lost + 1
  /\ Crash(c) /\ Answered(c, "error")

(* load; one that fails leaves the old list, and the first of several to    *)
(* end takes the spinner away. Its answer is shown when it is read: one     *)
(* that arrives later shows a list that is out of date, as every list is    *)
(* after a while.                                                           *)
Load(p) ==
  /\ press[p].pc = "load"
  /\ \/ items' = Listed /\ UNCHANGED lost
     \/ MayCrash /\ lost < MaxLost /\ lost' = lost + 1 /\ UNCHANGED items
  /\ loading' = FALSE
  /\ busy' = IF press[p].all THEN busy ELSE {}
  /\ press' = [press EXCEPT ![p] = Released]
  /\ UNCHANGED formVars

-----------------------------------------------------------------------------
Page ==
  \E p \in Presses :
    \/ Open(p) \/ PressAll(p) \/ Load(p)
    \/ \E row \in items, v \in Verdicts : Press(p, row, v)
    \/ \E c \in Calls : Post(p, c)

(* The other members, by whatever way they send their requests.             *)
Others(c) ==
  /\ Start(c)
  /\ call'[c].actor # Approver \/ call'[c].pc # "act_read"
  /\ UNCHANGED <<form, items, loading, busy, press, lost>>

PageNext ==
  \/ Page
  \/ EditRoutes /\ UNCHANGED <<items, loading, busy, press, lost>>
  \/ \E c \in Calls : Others(c) \/ Serve(c) \/ Lose(c)

PageSpec == PageInit /\ [][PageNext]_pageVars

-----------------------------------------------------------------------------
(* Properties                                                               *)

(* One press approves at most one step of each request, also when the       *)
(* member may decide the next step as well, the list has shown it meanwhile *)
(* and the button has been pressed twice.                                   *)
OneStepPerPress ==
  \A p \in Presses : \A a, b \in press[p].did : a[1] = b[1] => a = b
=============================================================================
