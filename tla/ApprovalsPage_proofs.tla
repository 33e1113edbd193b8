------------------------- MODULE ApprovalsPage_proofs -------------------------
(***************************************************************************)
(* What the two pages add to the workflow, for any members, requests,       *)
(* presses and handlers, handlers lost or not: routes put together on the   *)
(* form number their steps so that a request that waits always stands at a  *)
(* step it has a row for, and one press on the approvals page never decides *)
(* two steps of a request.                                                  *)
(***************************************************************************)
EXTENDS ApprovalsPage, RequestWorkflow_proofs

-----------------------------------------------------------------------------
(* The pages and the workflow                                               *)

Rows == Requests \X Steps

PressStates ==
  [pc : {"idle", "load", "post", "wait"}, all : BOOLEAN, verdict : Verdicts,
   todo : SUBSET Rows, by : Calls \cup {NoCall}, did : SUBSET Rows]

PageTyped == items \subseteq Rows /\ press \in [Presses -> PressStates]

LEMMA ReleasedType ==
  /\ Released \in PressStates
  /\ Released.pc = "idle" /\ Released.all = FALSE /\ Released.verdict = "approved"
  /\ Released.todo = {} /\ Released.by = NoCall /\ Released.did = {}
BY DEF Released, PressStates, Verdicts

(* What an answer makes of a press that waited for it.                      *)
Decided(c, how) ==
  IF call[c].pc = "decide" /\ call[c].actor = Approver /\ how # "error"
    THEN {<<call[c].req, call[c].step>>} ELSE {}

LEMMA AnswerMeets ==
  ASSUME PageTyped, NEW c \in Calls, NEW how, Answered(c, how), NEW p \in Presses,
         Decided(c, how) \subseteq Rows
  PROVE  /\ items' = items
         /\ press' = [q \in Presses |-> press'[q]]
         /\ press'[p] \in PressStates
         /\ press[p].by # c => press'[p] = press[p]
         /\ press[p].by = c =>
              /\ press'[p].all = press[p].all \/ (~press'[p].all /\ ~press[p].all)
              /\ press'[p].todo = press[p].todo
              /\ press'[p].did = IF press[p].all THEN press[p].did \cup Decided(c, how) ELSE {}
              /\ call'[c].pc # "idle" => press'[p].by = c /\ press'[p].pc = press[p].pc
              /\ call'[c].pc = "idle" => press'[p].by = NoCall
<1> DEFINE did == IF press[p].all THEN press[p].did \cup Decided(c, how) ELSE {}
           next == AfterAnswer(p, how)
           over == [Released EXCEPT !.pc = next, !.all = press[p].all /\ next # "idle",
                                    !.todo = press[p].todo, !.did = did]
           more == [press[p] EXCEPT !.did = did]
<1>1. press[p] \in PressStates
  BY DEF PageTyped
<1>2. did \in SUBSET Rows
  BY <1>1 DEF PressStates
<1>3. next \in {"idle", "load", "post"} /\ (press[p].all => next # "idle")
  BY DEF AfterAnswer
<1>4. press[p].all \in BOOLEAN /\ press[p].todo \in SUBSET Rows
  BY <1>1 DEF PressStates
<1>5. /\ over \in PressStates
      /\ over.all = (press[p].all /\ next # "idle") /\ over.todo = press[p].todo
      /\ over.did = did /\ over.by = NoCall
  <2> HIDE DEF did, next
  <2> QED
    BY <1>2, <1>3, <1>4, ReleasedType DEF PressStates, Released
<1>6. /\ more \in PressStates
      /\ more.all = press[p].all /\ more.todo = press[p].todo
      /\ more.did = did /\ more.by = press[p].by /\ more.pc = press[p].pc
  <2> HIDE DEF did
  <2> QED
    BY <1>1, <1>2 DEF PressStates
<1>7. /\ items' = items
      /\ press' = [q \in Presses |-> press'[q]]
      /\ press'[p] = IF press[p].by # c THEN press[p]
                     ELSE IF call'[c].pc = "idle" THEN over ELSE more
  BY DEF Answered, Decided, Rest
<1> HIDE DEF over, more, did, next
<1>8. CASE press[p].by # c
  BY <1>1, <1>7, <1>8
<1>9. CASE press[p].by = c /\ call'[c].pc = "idle"
  <2>1. press'[p] = over
    BY <1>7, <1>9
  <2> QED
    BY <1>3, <1>4, <1>5, <1>7, <1>9, <2>1 DEF did
<1>10. CASE press[p].by = c /\ call'[c].pc # "idle"
  <2>1. press'[p] = more
    BY <1>7, <1>10
  <2> QED
    BY <1>6, <1>7, <1>10, <2>1 DEF did
<1> QED
  BY <1>8, <1>9, <1>10

LEMMA DecidedType ==
  ASSUME Typed, NEW c \in Calls, NEW how
  PROVE  Decided(c, how) \subseteq Rows
BY DEF Typed, Placed, Deciding, Decided, Rows

(* To the handlers and the tables a step of the pages is a step of the      *)
(* workflow, or a change of the routes, which no handler in flight holds.   *)
Aside == UNCHANGED <<dir, db, call>>

LEMMA PostStarts ==
  ASSUME PageTyped, NEW p \in Presses, NEW c \in Calls, Post(p, c)
  PROVE  \E row \in press[p].todo :
           /\ row = <<row[1], row[2]>> /\ row[1] \in Requests /\ row[2] \in Steps
           /\ StartAct(c, Approver, row[1], row[2], press[p].verdict)
           /\ press[p].pc = "post"
           /\ press' = [press EXCEPT ![p].pc = "wait", ![p].by = c,
                                     ![p].todo = press[p].todo \ {row}]
           /\ Start(c)
<1>1. PICK row \in press[p].todo :
        /\ press[p].pc = "post"
        /\ StartAct(c, Approver, row[1], row[2], press[p].verdict)
        /\ press' = [press EXCEPT ![p].pc = "wait", ![p].by = c,
                                  ![p].todo = press[p].todo \ {row}]
  BY DEF Post
<1>2. press[p] \in PressStates
  BY DEF PageTyped
<1>3. row \in Rows /\ press[p].verdict \in Verdicts
  BY <1>1, <1>2 DEF PressStates
<1>4. row = <<row[1], row[2]>> /\ row[1] \in Requests /\ row[2] \in Steps
  BY <1>3 DEF Rows
<1>5. Start(c)
  BY <1>1, <1>3, <1>4, PageAssumption DEF Start
<1> QED
  BY <1>1, <1>4, <1>5

LEMMA PageSteps ==
  ASSUME PageTyped, [PageNext]_pageVars
  PROVE  (\E c \in Calls : Start(c) \/ Continue(c) \/ Crash(c)) \/ Aside
<1>1. ASSUME NEW p \in Presses, NEW c \in Calls, Post(p, c)
      PROVE  Start(c)
  BY <1>1, PostStarts
<1>2. ASSUME NEW p \in Presses, Open(p) \/ PressAll(p) \/ Load(p)
                                \/ \E row \in items, v \in Verdicts : Press(p, row, v)
      PROVE  Aside
  BY <1>2 DEF Open, PressAll, Load, Press, Aside, formVars, vars, db
<1>3. CASE EditRoutes
  BY <1>3 DEF EditRoutes, AddStep, ChooseType, ChooseMember, RemoveStep, CreateFromForm,
              RefuseForm, RemoveListed, CreateRoute, RemoveRoute, Aside, formVars, vars, db
<1>4. ASSUME NEW c \in Calls, Others(c) \/ Serve(c) \/ Lose(c)
      PROVE  Start(c) \/ Continue(c) \/ Crash(c)
  BY <1>4 DEF Others, Serve, Lose
<1>5. CASE UNCHANGED pageVars
  BY <1>5 DEF pageVars, formVars, vars, db, Aside
<1> QED
  BY <1>1, <1>2, <1>3, <1>4, <1>5 DEF PageNext, Page

LEMMA PageNextTyped ==
  ASSUME Typed, PageTyped, [PageNext]_pageVars
  PROVE  PageTyped'
<1>0. ASSUME UNCHANGED <<items, press>>
      PROVE  PageTyped'
  BY <1>0 DEF PageTyped
<1>1. ASSUME NEW p \in Presses, NEW c \in Calls, Post(p, c)
      PROVE  PageTyped'
  <2>1. PICK row :
          /\ press' = [press EXCEPT ![p].pc = "wait", ![p].by = c,
                                    ![p].todo = press[p].todo \ {row}]
    BY <1>1, PostStarts
  <2>2. items' = items
    BY <1>1 DEF Post
  <2> DEFINE left == press[p].todo \ {row}
             k == [press[p] EXCEPT !.pc = "wait", !.by = c, !.todo = left]
  <2>3. left \in SUBSET Rows
    BY DEF PageTyped, PressStates
  <2>4. k \in PressStates
    <3> HIDE DEF left
    <3> QED
      BY <2>3 DEF PageTyped, PressStates
  <2>5. press' = [press EXCEPT ![p] = k]
    BY <2>1 DEF PageTyped
  <2> HIDE DEF k
  <2> QED
    BY <2>2, <2>4, <2>5 DEF PageTyped
<1>2. ASSUME NEW p \in Presses, Open(p)
      PROVE  PageTyped'
  BY <1>2, ReleasedType DEF Open, PageTyped, PressStates
<1>3. ASSUME NEW p \in Presses, PressAll(p)
      PROVE  PageTyped'
  BY <1>3, ReleasedType DEF PressAll, PageTyped, PressStates
<1>4. ASSUME NEW p \in Presses, NEW row \in items, NEW v \in Verdicts, Press(p, row, v)
      PROVE  PageTyped'
  BY <1>4, ReleasedType DEF Press, PageTyped, PressStates
<1>5. ASSUME NEW p \in Presses, Load(p)
      PROVE  PageTyped'
  <2>1. items' \subseteq Rows
    BY <1>5 DEF Load, Listed, PageTyped, Rows
  <2> QED
    BY <1>5, <2>1, ReleasedType DEF Load, PageTyped
<1>6. ASSUME NEW c \in Calls, NEW how, Answered(c, how)
      PROVE  PageTyped'
  <2>1. Decided(c, how) \subseteq Rows
    BY DecidedType
  <2>2. \A p \in Presses : press'[p] \in PressStates
    BY <1>6, <2>1, AnswerMeets
  <2>3. items' = items /\ press' = [q \in Presses |-> press'[q]]
    BY <1>6 DEF Answered
  <2> QED
    BY <2>2, <2>3 DEF PageTyped
<1>7. CASE UNCHANGED pageVars
  BY <1>0, <1>7 DEF pageVars
<1> QED
  BY <1>0, <1>1, <1>2, <1>3, <1>4, <1>5, <1>6, <1>7 DEF PageNext, Page, Others, Serve, Lose

(* What holds of the workflow's handlers holds on the pages as well.        *)
LEMMA PageNextProgressed ==
  ASSUME Typed, Progressed, PageTyped, [PageNext]_pageVars
  PROVE  Typed' /\ Progressed'
<1>1. CASE Aside
  BY <1>1 DEF Aside, db, Typed, TypeOK, Placed, Progressed, Fresh, StepReached, CallInv
<1>2. CASE \E c \in Calls : Start(c) \/ Continue(c) \/ Crash(c)
  BY <1>2, NextType, NextProgressed DEF Next, Typed
<1> QED
  BY <1>1, <1>2, PageSteps

Sound == Typed /\ Progressed /\ PageTyped

LEMMA InitSound == PageInit => Sound
<1>1. PageInit => PageTyped
  BY ReleasedType DEF PageInit, PageTyped
<1>2. PageInit => Typed /\ Progressed
  BY InitType, InitPlaced, InitProgressed DEF PageInit, Typed
<1> QED
  BY <1>1, <1>2 DEF Sound

LEMMA AlwaysSound == PageSpec => []Sound
<1>1. Sound /\ [PageNext]_pageVars => Sound'
  BY PageNextTyped, PageNextProgressed DEF Sound
<1> QED
  BY <1>1, InitSound, PTL DEF PageSpec

-----------------------------------------------------------------------------
(* One press, one step of each request                                      *)

Functional(S) == \A a, b \in S : a[1] = b[1] => a = b

(* The system and not the approver decides in autoResolve.                  *)
SystemActs ==
  \A c \in Calls :
    call[c].pc \in {"auto_request", "auto_approval", "auto_plan"} => call[c].actor = NoUser

(* What handler d may still decide for the approver.                        *)
Underway(d) ==
  IF d \in Calls /\ call[d].actor = Approver THEN {<<call[d].req, call[d].step>>} ELSE {}

(* The steps a press has decided, is deciding and has yet to send are those *)
(* of the list it was made on, at most one of each request.                 *)
PressInv(p) ==
  /\ press[p].by \in Calls => call[press[p].by].pc # "idle"
  /\ ~press[p].all => press[p].did = {}
  /\ press[p].all => Functional(press[p].todo \cup press[p].did \cup Underway(press[p].by))

Disjoint == SystemActs /\ Functional(items) /\ \A p \in Presses : PressInv(p)

LEMMA FunctionalSubset ==
  ASSUME NEW S, NEW T \in SUBSET S, Functional(S)
  PROVE  Functional(T)
BY DEF Functional

(* A handler works on one step for its actor; it goes on to others for the  *)
(* system only.                                                             *)
LEMMA HandlerStays ==
  ASSUME Typed, SystemActs, NEW c \in Calls, Continue(c)
  PROVE  /\ call' = [call EXCEPT ![c] = call'[c]]
         /\ call'[c].pc \in {"auto_request", "auto_approval", "auto_plan"}
              => call'[c].actor = NoUser
         /\ \/ call'[c].actor = NoUser
            \/ /\ call'[c].actor = call[c].actor
               /\ call'[c].req = call[c].req
               /\ call'[c].step = call[c].step
<1> DEFINE k == call[c]
           Stays(n) == n.actor = k.actor /\ n.req = k.req /\ n.step = k.step
           Hands(n) == n.actor = NoUser
           OK(n) == /\ n.pc \in {"auto_request", "auto_approval", "auto_plan"} => Hands(n)
                    /\ Hands(n) \/ Stays(n)
<1>0. k \in CallStates /\ call \in [Calls -> CallStates]
  BY DEF Typed, TypeOK
<1>1. OK(Idle)
  BY DEF Idle
<1>2. ASSUME NEW n, call' = [call EXCEPT ![c] = n]
      PROVE  call'[c] = n /\ call' = [call EXCEPT ![c] = call'[c]]
  BY <1>0, <1>2
<1>3. CASE CreatePlan(c)
  <2>1. PICK rows : call' = [call EXCEPT ![c] = [k EXCEPT !.pc = "create_rows", !.rows = rows]]
                    \/ call' = [call EXCEPT ![c] = Idle]
    BY <1>3 DEF CreatePlan
  <2>2. OK([k EXCEPT !.pc = "create_rows", !.rows = rows])
    BY <1>0 DEF CallStates
  <2> HIDE DEF OK
  <2>3. OK(call'[c]) /\ call' = [call EXCEPT ![c] = call'[c]]
    BY <1>1, <1>2, <2>1, <2>2
  <2> QED
    BY <2>3 DEF OK
<1>4. CASE CreateRows(c) \/ RecordFinalApproval(c) \/ RecordAdvance(c)
           \/ RecordRejection(c) \/ RecomputePunchFix(c) \/ CancelAudit(c)
  <2>a. PICK w \in {"auto_request", "recompute"} : \E g :
             \/ call' = [call EXCEPT ![c] = Idle]
             \/ call' = [call EXCEPT ![c] = [Idle EXCEPT !.pc = w, !.req = k.req]]
             \/ call' = [call EXCEPT ![c] =
                           [Idle EXCEPT !.pc = "auto_request", !.req = k.req, !.guard = g]]
    <3>1. CASE CreateRows(c)
      BY <3>1 DEF CreateRows
    <3>2. CASE RecordFinalApproval(c)
      BY <3>2 DEF RecordFinalApproval
    <3>3. CASE RecordAdvance(c)
      BY <3>3 DEF RecordAdvance, AfterAdvance
    <3>4. CASE RecordRejection(c) \/ RecomputePunchFix(c) \/ CancelAudit(c)
      BY <3>4 DEF RecordRejection, RecomputePunchFix, CancelAudit
    <3> QED
      BY <1>4, <3>1, <3>2, <3>3, <3>4
  <2>1. PICK g :
             \/ call' = [call EXCEPT ![c] = Idle]
             \/ call' = [call EXCEPT ![c] = [Idle EXCEPT !.pc = w, !.req = k.req]]
             \/ call' = [call EXCEPT ![c] =
                           [Idle EXCEPT !.pc = "auto_request", !.req = k.req, !.guard = g]]
    BY <2>a
  <2>2. /\ OK([Idle EXCEPT !.pc = w, !.req = k.req])
        /\ OK([Idle EXCEPT !.pc = "auto_request", !.req = k.req, !.guard = g])
    BY DEF Idle
  <2> HIDE DEF OK
  <2>3. OK(call'[c]) /\ call' = [call EXCEPT ![c] = call'[c]]
    BY <1>1, <1>2, <2>1, <2>2
  <2> QED
    BY <2>3 DEF OK
<1>5. CASE ActRead(c) \/ ActCheck(c) \/ AutoDecide(c) \/ CancelWrite(c)
  <2>a. PICK w \in {"act_check", "decide", "cancel_audit"} : \E f, g :
             \/ call' = [call EXCEPT ![c] = Idle]
             \/ call' = [call EXCEPT ![c] = [k EXCEPT !.pc = w]]
             \/ call' = [call EXCEPT ![c] = [k EXCEPT !.pc = w, !.fixed = f, !.sees = g]]
    <3>1. CASE ActRead(c)
      BY <3>1 DEF ActRead
    <3>2. CASE ActCheck(c) \/ AutoDecide(c)
      BY <3>2 DEF ActCheck, AutoDecide
    <3>3. CASE CancelWrite(c)
      BY <1>0, <3>3 DEF CancelWrite
    <3> QED
      BY <1>5, <3>1, <3>2, <3>3
  <2>1. PICK f, g :
             \/ call' = [call EXCEPT ![c] = Idle]
             \/ call' = [call EXCEPT ![c] = [k EXCEPT !.pc = w]]
             \/ call' = [call EXCEPT ![c] = [k EXCEPT !.pc = w, !.fixed = f, !.sees = g]]
    BY <2>a
  <2>2. /\ OK([k EXCEPT !.pc = w])
        /\ OK([k EXCEPT !.pc = w, !.fixed = f, !.sees = g])
    BY <1>0 DEF CallStates
  <2> HIDE DEF OK
  <2>3. OK(call'[c]) /\ call' = [call EXCEPT ![c] = call'[c]]
    BY <1>1, <1>2, <2>1, <2>2
  <2> QED
    BY <2>3 DEF OK
<1>6. CASE AutoReadRequest(c) \/ AutoReadApproval(c)
  <2>0. k.actor = NoUser
    BY <1>6 DEF SystemActs, AutoReadRequest, AutoReadApproval
  <2>a. PICK w \in {"auto_approval", "auto_plan"} : \E s, d :
             \/ call' = [call EXCEPT ![c] = Idle]
             \/ call' = [call EXCEPT ![c] = [k EXCEPT !.pc = w]]
             \/ call' = [call EXCEPT ![c] = [k EXCEPT !.pc = w, !.step = s, !.dept = d]]
    BY <1>6 DEF AutoReadRequest, AutoReadApproval
  <2>1. PICK s, d :
             \/ call' = [call EXCEPT ![c] = Idle]
             \/ call' = [call EXCEPT ![c] = [k EXCEPT !.pc = w]]
             \/ call' = [call EXCEPT ![c] = [k EXCEPT !.pc = w, !.step = s, !.dept = d]]
    BY <2>a
  <2>2. /\ OK([k EXCEPT !.pc = w])
        /\ OK([k EXCEPT !.pc = w, !.step = s, !.dept = d])
    BY <1>0, <2>0 DEF CallStates
  <2> HIDE DEF OK
  <2>3. OK(call'[c]) /\ call' = [call EXCEPT ![c] = call'[c]]
    BY <1>1, <1>2, <2>1, <2>2
  <2> QED
    BY <2>3 DEF OK
<1> QED
  BY <1>3, <1>4, <1>5, <1>6 DEF Continue

(* A press nobody touches keeps its claim while its handler stands still.   *)
LEMMA PressKeeps ==
  ASSUME NEW p \in Presses, PressInv(p), press'[p] = press[p],
         press[p].by \in Calls => call'[press[p].by] = call[press[p].by]
  PROVE  PressInv(p)'
BY DEF PressInv, Underway

LEMMA PostDisjoint ==
  ASSUME Typed, PageTyped, Disjoint, NEW p \in Presses, NEW c \in Calls, Post(p, c)
  PROVE  Disjoint'
<1>1. PICK row \in press[p].todo :
        /\ row = <<row[1], row[2]>>
        /\ StartAct(c, Approver, row[1], row[2], press[p].verdict)
        /\ press' = [press EXCEPT ![p].pc = "wait", ![p].by = c,
                                  ![p].todo = press[p].todo \ {row}]
        /\ Start(c)
  BY PostStarts
<1>2. /\ call'[c].req = row[1] /\ call'[c].step = row[2] /\ call'[c].pc = "act_read"
      /\ call[c].pc = "idle" /\ \A d \in Calls : d # c => call'[d] = call[d]
  BY <1>1 DEF StartAct, Typed, TypeOK, Idle
<1>3. /\ press'[p].by = c /\ press'[p].all = press[p].all
      /\ press'[p].todo = press[p].todo \ {row} /\ press'[p].did = press[p].did
      /\ \A q \in Presses : q # p => press'[q] = press[q]
  BY <1>1 DEF PageTyped, PressStates
<1>4. SystemActs'
  BY <1>2 DEF Disjoint, SystemActs
<1>5. items' = items
  BY DEF Post
<1>6. ASSUME NEW q \in Presses, q # p
      PROVE  PressInv(q)'
  BY <1>2, <1>3, <1>6, PressKeeps DEF Disjoint, PressInv
<1>7. PressInv(p)'
  <2> DEFINE old == press[p].todo \cup press[p].did \cup Underway(press[p].by)
             new == press'[p].todo \cup press'[p].did \cup Underway(press[p].by)'
  <2>0. Underway(press[p].by)' \subseteq {row}
    BY <1>1, <1>2, <1>3 DEF Underway
  <2> HIDE DEF Underway
  <2>1. new \subseteq old
    BY <1>3, <2>0
  <2>2. press[p].all => Functional(old)
    BY DEF Disjoint, PressInv
  <2>3. press[p].all => Functional(new)
    BY <2>1, <2>2, FunctionalSubset
  <2> QED
    BY <1>2, <1>3, <2>3 DEF Disjoint, PressInv, Underway
<1> QED
  BY <1>4, <1>5, <1>6, <1>7 DEF Disjoint, Functional

LEMMA AnswerDisjoint ==
  ASSUME Typed, PageTyped, Disjoint, NEW c \in Calls, NEW how, Answered(c, how),
         call[c].pc # "idle",
         Continue(c) \/ (how = "error" /\ Crash(c))
  PROVE  Disjoint'
<1>1. /\ \A d \in Calls : d # c => call'[d] = call[d]
      /\ call'[c].pc \in {"auto_request", "auto_approval", "auto_plan"}
           => call'[c].actor = NoUser
      /\ \/ call'[c].actor = NoUser
         \/ /\ call'[c].actor = call[c].actor
            /\ call'[c].req = call[c].req
            /\ call'[c].step = call[c].step
  <2>1. CASE Continue(c)
    BY <2>1, HandlerStays DEF Disjoint, Typed, TypeOK
  <2>2. CASE Crash(c)
    BY <2>2 DEF Crash, Idle, Typed, TypeOK
  <2> QED
    BY <2>1, <2>2
<1>2. Decided(c, how) \subseteq Rows
  BY DecidedType
<1>3. SystemActs'
  BY <1>1 DEF Disjoint, SystemActs
<1>4. items' = items
  BY DEF Answered
<1>5. ASSUME NEW p \in Presses
      PROVE  PressInv(p)'
  <2>1. CASE press[p].by # c
    <3>1. press'[p] = press[p]
      BY <1>2, <2>1, AnswerMeets
    <3> QED
      BY <1>1, <2>1, <3>1, PressKeeps DEF Disjoint
  <2>2. CASE press[p].by = c
    <3>1. /\ press'[p].all = press[p].all \/ (~press'[p].all /\ ~press[p].all)
          /\ press'[p].todo = press[p].todo
          /\ press'[p].did = IF press[p].all THEN press[p].did \cup Decided(c, how) ELSE {}
          /\ call'[c].pc # "idle" => press'[p].by = c
          /\ call'[c].pc = "idle" => press'[p].by = NoCall
      BY <1>2, <2>2, AnswerMeets
    <3>2. Decided(c, how) \subseteq Underway(c)
      BY DEF Decided, Underway
    <3>3. Underway(press[p].by)' \subseteq Underway(c)
      BY <1>1, <3>1, PageAssumption, NullsAreNotIds DEF Underway
    <3> DEFINE old == press[p].todo \cup press[p].did \cup Underway(c)
               new == press'[p].todo \cup press'[p].did \cup Underway(press[p].by)'
    <3>4. press[p].all => new \subseteq old
      BY <3>1, <3>2, <3>3
    <3>5. press[p].all => Functional(old)
      BY <2>2 DEF Disjoint, PressInv
    <3>6. press[p].all => Functional(new)
      BY <3>4, <3>5, FunctionalSubset
    <3>7. press'[p].all => press[p].all
      BY <3>1
    <3>8. press'[p].by \in Calls => press'[p].by = c /\ call'[c].pc # "idle"
      BY <3>1, PageAssumption
    <3>9. ~press'[p].all => press'[p].did = {}
      BY <3>1
    <3> QED
      BY <3>6, <3>7, <3>8, <3>9 DEF PressInv, Underway
  <2> QED
    BY <2>1, <2>2
<1> QED
  BY <1>3, <1>4, <1>5 DEF Disjoint, Functional

LEMMA NextDisjoint ==
  ASSUME Typed, PageTyped, Disjoint, [PageNext]_pageVars
  PROVE  Disjoint'
<1>1. ASSUME NEW p \in Presses, NEW c \in Calls, Post(p, c)
      PROVE  Disjoint'
  BY <1>1, PostDisjoint
<1>2. ASSUME NEW p \in Presses, NEW k, k.by = NoCall, k.did = {}, k.all => k.todo = items,
             press' = [press EXCEPT ![p] = k], call' = call, Functional(items')
      PROVE  Disjoint'
  <2>1. press'[p] = k /\ \A q \in Presses : q # p => press'[q] = press[q]
    BY <1>2 DEF PageTyped
  <2>2. PressInv(p)'
    BY <1>2, <2>1, PageAssumption DEF PressInv, Underway, Disjoint, Functional
  <2>3. ASSUME NEW q \in Presses, q # p
        PROVE  PressInv(q)'
    BY <1>2, <2>1, <2>3, PressKeeps DEF Disjoint
  <2> QED
    BY <1>2, <2>2, <2>3 DEF Disjoint, SystemActs, Functional
<1>3. UNCHANGED items => Functional(items')
  BY DEF Disjoint
<1>4. ASSUME NEW p \in Presses, Open(p)
      PROVE  Disjoint'
  <2>1. /\ press' = [press EXCEPT ![p] = [Released EXCEPT !.pc = "load"]]
        /\ call' = call /\ items' = items
    BY <1>4 DEF Open, formVars, vars
  <2> QED
    BY <1>2, <1>3, <2>1 DEF Released
<1>5. ASSUME NEW p \in Presses, PressAll(p)
      PROVE  Disjoint'
  <2>1. /\ press' = [press EXCEPT ![p] =
             [Released EXCEPT !.pc = "post", !.all = TRUE, !.todo = items]]
        /\ call' = call /\ items' = items
    BY <1>5 DEF PressAll, formVars, vars
  <2> QED
    BY <1>2, <1>3, <2>1 DEF Released
<1>6. ASSUME NEW p \in Presses, NEW row \in items, NEW v \in Verdicts, Press(p, row, v)
      PROVE  Disjoint'
  <2>1. /\ press' = [press EXCEPT ![p] =
             [Released EXCEPT !.pc = "post", !.verdict = v, !.todo = {row}]]
        /\ call' = call /\ items' = items
    BY <1>6 DEF Press, formVars, vars
  <2> QED
    BY <1>2, <1>3, <2>1 DEF Released
<1>7. ASSUME NEW p \in Presses, Load(p)
      PROVE  Disjoint'
  <2>1. press' = [press EXCEPT ![p] = Released] /\ call' = call
    BY <1>7 DEF Load, formVars, vars
  <2>2. Functional(Listed)
    BY DEF Functional, Listed, PendingFor
  <2>3. Functional(items')
    BY <1>3, <1>7, <2>2 DEF Load
  <2> QED
    BY <1>2, <2>1, <2>3 DEF Released
<1>8. ASSUME NEW c \in Calls, Others(c)
      PROVE  Disjoint'
  <2>1. UNCHANGED <<items, press>>
    BY <1>8 DEF Others
  <2>2. /\ call[c].pc = "idle"
        /\ call'[c].pc \in {"create_plan", "cancel_write", "act_read"}
        /\ \A d \in Calls : d # c => call'[d] = call[d]
    BY <1>8, HandlerStarts DEF Others
  <2>3. ASSUME NEW p \in Presses
        PROVE  PressInv(p)'
    BY <2>1, <2>2, PressKeeps DEF Disjoint, PressInv
  <2> QED
    BY <2>1, <2>2, <2>3 DEF Disjoint, SystemActs, Functional
<1>9. ASSUME NEW c \in Calls, Serve(c)
      PROVE  Disjoint'
  <2>1. call[c].pc # "idle"
    BY <1>9 DEF Serve, Continue, CreatePlan, CreateRows, ActRead, ActCheck, RecordRejection,
         RecordFinalApproval, RecordAdvance, RecomputePunchFix, AutoReadRequest,
         AutoReadApproval, AutoDecide, CancelWrite, CancelAudit
  <2> QED
    BY <1>9, <2>1, AnswerDisjoint DEF Serve
<1>10. ASSUME NEW c \in Calls, Lose(c)
       PROVE  Disjoint'
  BY <1>10, AnswerDisjoint DEF Lose, Crash
<1>11. CASE (EditRoutes /\ UNCHANGED <<items, press>>) \/ UNCHANGED pageVars
  <2>1. UNCHANGED <<call, items, press>>
    BY <1>11 DEF EditRoutes, AddStep, ChooseType, ChooseMember, RemoveStep, CreateFromForm,
         RefuseForm, RemoveListed, CreateRoute, RemoveRoute, formVars, vars, pageVars
  <2> QED
    BY <2>1 DEF Disjoint, SystemActs, Functional, PressInv, Underway
<1> QED
  BY <1>1, <1>4, <1>5, <1>6, <1>7, <1>8, <1>9, <1>10, <1>11 DEF PageNext, Page

(* Whatever the list has shown meanwhile, however often the buttons have    *)
(* been pressed and whichever answers were lost, one press on the approvals *)
(* page approves at most one step of each request.                          *)
THEOREM PressDecidesOne == PageSpec => []OneStepPerPress
<1>1. PageInit => Disjoint
  BY ReleasedType, PageAssumption
     DEF PageInit, Init, Idle, Disjoint, SystemActs, Functional, PressInv
<1>2. Sound /\ Disjoint /\ [PageNext]_pageVars => Disjoint'
  BY NextDisjoint DEF Sound
<1>3. Disjoint => OneStepPerPress
  BY DEF Disjoint, PressInv, Functional, OneStepPerPress
<1> QED
  BY <1>1, <1>2, <1>3, AlwaysSound, PTL DEF PageSpec

-----------------------------------------------------------------------------
(* Numbers of steps                                                         *)

Run(n) == n \in Nat \ {0} /\ 1..n \subseteq Steps

(* A route's steps are numbered from 1 without a gap.                       *)
Numbered(steps) ==
  steps = <<>> \/ \E n : Run(n) /\ DOMAIN steps = 1..n /\ \A i \in 1..n : steps[i].step = i

(* Steps reaches as far as the form and the default route do, and the       *)
(* routes there are at the start number their steps as the form does.       *)
FormFits ==
  /\ Run(1)
  /\ MaxFormSteps # 0 => Run(MaxFormSteps)
  /\ \A o \in InitRoutes : Numbered(o.steps)

FormSteps == [step : Nat, approverType : FormTypes, ref : Users \cup {NoUser}]

FormCounts ==
  /\ form \in Seq(FormSteps)
  /\ Run(Len(form))
  /\ \A i \in 1..Len(form) : form[i].step = i

RoutesCount == \A o \in routes : Numbered(o.steps)

(* The rows to be created are those of the steps 1 to n.                    *)
PlanCounts(rows) == \E n : Run(n) /\ \A s \in Steps : rows[s] # NoRow <=> s \in 1..n

RowsCount(c) == call[c].pc = "create_rows" => PlanCounts(call[c].rows)

Stands(q) ==
  status[q] # "none" =>
    \E n : /\ Run(n) /\ currentStep[q] \in 1..n
           /\ \A s \in Steps : result[q][s] # "none" <=> s \in 1..n

Counted ==
  /\ FormCounts /\ RoutesCount
  /\ \A c \in Calls : RowsCount(c)
  /\ \A q \in Requests : Stands(q)

(* Adding a step numbers it next, removing one renumbers those that follow. *)
LEMMA FormKeepsCount ==
  ASSUME FormFits, Counted, EditRoutes
  PROVE  FormCounts'
<1>0. /\ form \in Seq(FormSteps) /\ Len(form) \in Nat \ {0}
      /\ DOMAIN form = 1..Len(form) /\ 1..Len(form) \subseteq Steps
      /\ \A i \in 1..Len(form) : form[i].step = i /\ form[i] \in FormSteps
  BY DEF Counted, FormCounts, Run
<1>1. CASE AddStep
  <2> DEFINE n == Len(form) + 1
             e == NewStep(n)
  <2>1. e \in FormSteps /\ e.step = n
    BY <1>0 DEF NewStep, FormSteps, FormTypes
  <2>2. /\ n \in Nat \ {0} /\ n <= MaxFormSteps /\ MaxFormSteps \in Nat
        /\ form' = Append(form, e)
    BY <1>0, <1>1, FormAssumption DEF AddStep
  <2>3. Run(n)
    BY <2>2 DEF FormFits, Run
  <2> HIDE DEF e
  <2>4. /\ form' \in Seq(FormSteps) /\ Len(form') = n
        /\ \A i \in 1..n : form'[i] = IF i = n THEN e ELSE form[i]
    BY <1>0, <2>1, <2>2
  <2> QED
    BY <1>0, <2>1, <2>3, <2>4 DEF FormCounts
<1>2. ASSUME NEW i \in DOMAIN form, NEW k \in FormSteps, k.step = i,
             form' = [form EXCEPT ![i] = k]
      PROVE  FormCounts'
  <2>1. form' \in Seq(FormSteps) /\ Len(form') = Len(form)
    BY <1>0, <1>2
  <2> QED
    BY <1>0, <1>2, <2>1 DEF FormCounts, Counted
<1>3. ASSUME NEW i \in DOMAIN form, NEW type \in FormTypes, ChooseType(i, type)
      PROVE  FormCounts'
  <2> DEFINE k == [form[i] EXCEPT !.approverType = type, !.ref = NoUser]
  <2>1. k \in FormSteps /\ k.step = i
    <3>1. form[i] \in FormSteps /\ form[i].step = i
      BY <1>0, <1>3
    <3> QED
      BY <1>3, <3>1 DEF FormSteps
  <2>2. form' = [form EXCEPT ![i] = k]
    BY <1>0, <1>3 DEF ChooseType
  <2> QED
    BY <1>2, <2>1, <2>2
<1>4. ASSUME NEW i \in DOMAIN form, NEW u \in FormMembers, ChooseMember(i, u)
      PROVE  FormCounts'
  <2> DEFINE k == [form[i] EXCEPT !.ref = u]
  <2>1. k \in FormSteps /\ k.step = i
    BY <1>0, <1>4, FormAssumption DEF FormSteps
  <2>2. form' = [form EXCEPT ![i] = k]
    BY <1>0, <1>4 DEF ChooseMember
  <2> QED
    BY <1>2, <2>1, <2>2
<1>5. ASSUME NEW i \in DOMAIN form, RemoveStep(i)
      PROVE  FormCounts'
  <2> DEFINE n == Len(form) - 1
             kept(j) == [Without(i)[j] EXCEPT !.step = j]
  <2>1. n \in Nat \ {0} /\ form' = [j \in 1..n |-> kept(j)]
    BY <1>0, <1>5 DEF RemoveStep
  <2>2. ASSUME NEW j \in 1..n
        PROVE  kept(j) \in FormSteps /\ kept(j).step = j
    <3>1. Without(i)[j] \in FormSteps
      BY <1>0, <2>2 DEF Without
    <3> QED
      BY <2>1, <2>2, <3>1 DEF FormSteps
  <2> HIDE DEF kept
  <2>3. form' \in Seq(FormSteps) /\ Len(form') = n
    BY <2>1, <2>2
  <2>4. Run(n)
    BY <1>0, <2>1 DEF Run
  <2> QED
    BY <2>1, <2>2, <2>3, <2>4 DEF FormCounts
<1>6. ASSUME form' = EmptyForm
      PROVE  FormCounts'
  <2>1. NewStep(1) \in FormSteps /\ NewStep(1).step = 1
    BY DEF NewStep, FormSteps, FormTypes
  <2> QED
    BY <1>6, <2>1 DEF FormCounts, EmptyForm, FormFits
<1>7. ASSUME UNCHANGED form
      PROVE  FormCounts'
  BY <1>7 DEF Counted, FormCounts
<1> QED
  BY <1>1, <1>3, <1>4, <1>5, <1>6, <1>7
     DEF EditRoutes, CreateFromForm, RefuseForm, RemoveListed, formVars

LEMMA RoutesKeepCount ==
  ASSUME Counted, EditRoutes
  PROVE  RoutesCount'
<1>1. Numbered(form)
  <2>1. DOMAIN form = 1..Len(form)
    BY DEF Counted, FormCounts
  <2> QED
    BY <2>1 DEF Counted, FormCounts, Numbered
<1>2. ASSUME NEW kind, CreateFromForm(kind)
      PROVE  RoutesCount'
  <2> DEFINE o == [appliesTo |-> kind, steps |-> form,
                   onNoApprover |-> "auto_approve", allowSelf |-> FALSE]
  <2>1. routes' = routes \cup {o} /\ o.steps = form
    BY <1>2 DEF CreateFromForm, CreateRoute
  <2> HIDE DEF o
  <2> QED
    BY <1>1, <2>1 DEF Counted, RoutesCount
<1>3. ASSUME NEW old, RemoveListed(old)
      PROVE  RoutesCount'
  BY <1>3 DEF RemoveListed, RemoveRoute, Counted, RoutesCount
<1>4. ASSUME UNCHANGED routes
      PROVE  RoutesCount'
  BY <1>4 DEF Counted, RoutesCount
<1> QED
  BY <1>2, <1>3, <1>4
     DEF EditRoutes, AddStep, ChooseType, ChooseMember, RemoveStep, RefuseForm, formVars, vars

(* The rows created for a plan are those of the steps it numbers.           *)
LEMMA PlanNumbersRows ==
  ASSUME FormFits, RoutesCount, dir \in Directories, NEW kind,
         NEW plan \in ResolvePlan(routes, kind), NEW d
  PROVE  PlanCounts(PlannedRows(plan, d))
<1>1. PICK raw : Numbered(raw) /\ plan.steps = ParseSteps(raw)
  <2>1. Numbered(<<>>)
    BY DEF Numbered
  <2>2. plan = DefaultPlan \/ \E o \in routes : plan = PlanOf(o)
    BY DEF ResolvePlan, FirstRoutes
  <2> QED
    BY <2>1, <2>2 DEF DefaultPlan, PlanOf, RoutesCount
<1>2. PICK n : /\ Run(n) /\ DOMAIN plan.steps = 1..n
               /\ \A i \in 1..n : plan.steps[i].step = i
  <2>1. CASE raw = <<>>
    <3>1. plan.steps = <<ScopeStep(1)>> /\ ScopeStep(1).step = 1
      BY <1>1, <2>1 DEF ParseSteps, ScopeStep
    <3> QED
      BY <3>1 DEF FormFits
  <2>2. CASE raw # <<>>
    BY <1>1, <2>2 DEF ParseSteps, Numbered
  <2> QED
    BY <2>1, <2>2
<1>3. ASSUME NEW s \in Steps
      PROVE  PlannedRows(plan, d)[s] # NoRow <=> s \in 1..n
  <2>1. (\E i \in DOMAIN plan.steps : plan.steps[i].step = s) <=> s \in 1..n
    BY <1>2
  <2>2. FixedApprover(dir, StepOf(plan, s), d) # NoRow
    BY FixedApproverType, WorkflowAssumption DEF ApproverIds
  <2> QED
    BY <2>1, <2>2 DEF PlannedRows
<1> QED
  BY <1>2, <1>3 DEF PlanCounts

(* A handler that reads only, and leaves nothing to be created.             *)
LEMMA ReadingCounts ==
  ASSUME Counted, NEW c \in Calls, call'[c].pc # "create_rows",
         \A d \in Calls : d # c => call'[d] = call[d],
         UNCHANGED <<status, currentStep, result>>
  PROVE  (\A d \in Calls : RowsCount(d)') /\ (\A q \in Requests : Stands(q)')
<1>1. ASSUME NEW d \in Calls
      PROVE  RowsCount(d)'
  BY <1>1 DEF Counted, RowsCount
<1>2. ASSUME NEW q \in Requests
      PROVE  Stands(q)'
  BY <1>2 DEF Counted, Stands
<1> QED
  BY <1>1, <1>2

(* A handler that writes to request r, filed before, without changing which *)
(* rows it has.                                                             *)
LEMMA WritingCounts ==
  ASSUME Counted, NEW c \in Calls, NEW r \in Requests,
         call'[c].pc # "create_rows",
         \A d \in Calls : d # c => call'[d] = call[d],
         \A q \in Requests : q # r => status'[q] = status[q] /\ currentStep'[q] = currentStep[q],
         \A q \in Requests, s \in Steps : result'[q][s] # "none" <=> result[q][s] # "none",
         status[r] # "none",
         \A n : /\ Run(n) /\ currentStep[r] \in 1..n
                /\ \A s \in Steps : result[r][s] # "none" <=> s \in 1..n
                => currentStep'[r] \in 1..n
  PROVE  (\A d \in Calls : RowsCount(d)') /\ (\A q \in Requests : Stands(q)')
<1>1. ASSUME NEW d \in Calls
      PROVE  RowsCount(d)'
  BY <1>1 DEF Counted, RowsCount
<1>2. ASSUME NEW q \in Requests, status'[q] # "none"
      PROVE  \E n : /\ Run(n) /\ currentStep'[q] \in 1..n
                    /\ \A s \in Steps : result'[q][s] # "none" <=> s \in 1..n
  <2>1. PICK n : /\ Run(n) /\ currentStep[q] \in 1..n
                 /\ \A s \in Steps : result[q][s] # "none" <=> s \in 1..n
    BY <1>2 DEF Counted, Stands
  <2>2. currentStep'[q] \in 1..n
    BY <2>1
  <2> QED
    BY <2>1, <2>2
<1> QED
  BY <1>1, <1>2 DEF Stands

LEMMA HandlerCounts ==
  ASSUME FormFits, Typed, Progressed, Counted, NEW c \in Calls,
         Start(c) \/ Continue(c) \/ Crash(c)
  PROVE  (\A d \in Calls : RowsCount(d)') /\ (\A q \in Requests : Stands(q)')
<1> DEFINE k == call[c]
           r == call[c].req
           Goal == (\A d \in Calls : RowsCount(d)') /\ (\A q \in Requests : Stands(q)')
<1>0. k \in CallStates /\ call \in [Calls -> CallStates] /\ (k.pc # "idle" => r \in Requests)
  BY DEF Typed, TypeOK, Placed
<1>1. ASSUME Start(c)
      PROVE  Goal
  <2>1. UNCHANGED <<status, currentStep, result>>
    BY <1>1 DEF Start, StartCreate, StartCancel, StartAct, db
  <2>2. call'[c].pc # "create_rows" /\ \A d \in Calls : d # c => call'[d] = call[d]
    BY <1>1, HandlerStarts
  <2> QED
    BY <2>1, <2>2, ReadingCounts
<1>2. ASSUME Crash(c) \/ RecomputePunchFix(c) \/ CancelAudit(c)
      PROVE  Goal
  <2>1. UNCHANGED <<status, currentStep, result>> /\ call' = [call EXCEPT ![c] = Idle]
    BY <1>2 DEF Crash, RecomputePunchFix, CancelAudit, db
  <2>2. call'[c].pc # "create_rows" /\ \A d \in Calls : d # c => call'[d] = call[d]
    BY <1>0, <2>1 DEF Idle
  <2> QED
    BY <2>1, <2>2, ReadingCounts
<1>3. ASSUME ActRead(c) \/ ActCheck(c) \/ AutoDecide(c) \/ AutoReadRequest(c)
             \/ AutoReadApproval(c)
      PROVE  Goal
  <2>1. UNCHANGED <<status, currentStep, result>>
    BY <1>3 DEF ActRead, ActCheck, AutoDecide, AutoReadRequest, AutoReadApproval, db
  <2>2. call'[c].pc # "create_rows" /\ \A d \in Calls : d # c => call'[d] = call[d]
    <3>1. CASE ActRead(c)
      BY <1>0, <3>1 DEF ActRead, CallStates, Idle
    <3>2. CASE ActCheck(c)
      BY <1>0, <3>2 DEF ActCheck, CallStates, Idle
    <3>3. CASE AutoDecide(c)
      BY <1>0, <3>3 DEF AutoDecide, CallStates, Idle
    <3>4. CASE AutoReadRequest(c)
      BY <1>0, <3>4 DEF AutoReadRequest, CallStates, Idle
    <3>5. CASE AutoReadApproval(c)
      BY <1>0, <3>5 DEF AutoReadApproval, CallStates, Idle
    <3> QED
      BY <1>3, <3>1, <3>2, <3>3, <3>4, <3>5
  <2> QED
    BY <2>1, <2>2, ReadingCounts
<1>4. ASSUME CreatePlan(c)
      PROVE  Goal
  <2>1. UNCHANGED <<status, currentStep, result>>
    BY <1>4 DEF CreatePlan, db
  <2>2. PICK plan \in ResolvePlan(routes, Kind[r]) : call' = [call EXCEPT ![c] =
          IF StepsDistinct(plan)
            THEN [@ EXCEPT !.pc = "create_rows",
                           !.rows = PlannedRows(plan, dir.dept[Owner[call[c].req]])]
            ELSE Idle]
    BY <1>4 DEF CreatePlan
  <2> DEFINE rows == PlannedRows(plan, dir.dept[Owner[r]])
             next == [k EXCEPT !.pc = "create_rows", !.rows = rows]
  <2>3. PlanCounts(rows)
    BY <2>2, PlanNumbersRows DEF Counted, Typed, TypeOK
  <2>4. next.rows = rows
    <3> HIDE DEF rows
    <3> QED
      BY <1>0 DEF CallStates
  <2>5. call' = [call EXCEPT ![c] = next] \/ call' = [call EXCEPT ![c] = Idle]
    BY <2>2
  <2> HIDE DEF next, rows
  <2>6. /\ call'[c] \in {next, Idle}
        /\ \A d \in Calls : d # c => call'[d] = call[d]
    BY <1>0, <2>5
  <2>7. RowsCount(c)'
    BY <2>3, <2>4, <2>6 DEF RowsCount, Idle
  <2>8. \A d \in Calls : RowsCount(d)'
    BY <2>6, <2>7 DEF Counted, RowsCount
  <2>9. ASSUME NEW q \in Requests
        PROVE  Stands(q)'
    BY <2>1, <2>9 DEF Counted, Stands
  <2> QED
    BY <2>8, <2>9
<1>5. ASSUME CreateRows(c)
      PROVE  Goal
  <2>1. PICK n : Run(n) /\ \A s \in Steps : k.rows[s] # NoRow <=> s \in 1..n
    BY <1>5 DEF CreateRows, Counted, RowsCount, PlanCounts
  <2>2. r \in Requests
    BY <1>0, <1>5 DEF CreateRows
  <2>3. /\ currentStep'[r] = 1
        /\ \A s \in Steps : result'[r][s] = IF k.rows[s] = NoRow THEN "none" ELSE "pending"
        /\ \A q \in Requests : q # r => /\ status'[q] = status[q]
                                        /\ currentStep'[q] = currentStep[q]
                                        /\ result'[q] = result[q]
    BY <1>5, <2>2 DEF CreateRows, Typed, TypeOK
  <2>4. 1 \in 1..n
    BY <2>1 DEF Run
  <2>5. ASSUME NEW q \in Requests, q = r
        PROVE  Stands(q)'
    <3>1. \A s \in Steps : result'[q][s] # "none" <=> s \in 1..n
      BY <2>1, <2>3, <2>5
    <3> QED
      BY <2>1, <2>3, <2>4, <2>5, <3>1 DEF Stands
  <2>6. ASSUME NEW q \in Requests, q # r
        PROVE  Stands(q)'
    <3>1. Stands(q)
      BY DEF Counted
    <3> QED
      BY <2>3, <2>6, <3>1 DEF Stands
  <2>7. call'[c].pc # "create_rows" /\ \A d \in Calls : d # c => call'[d] = call[d]
    BY <1>0, <1>5 DEF CreateRows, Idle
  <2>8. \A d \in Calls : RowsCount(d)'
    BY <2>7 DEF Counted, RowsCount
  <2> QED
    BY <2>5, <2>6, <2>8
<1>6. ASSUME RecordRejection(c) \/ RecordFinalApproval(c)
      PROVE  Goal
  <2>1. k.pc = "decide" /\ WriteDecision(k) /\ UNCHANGED currentStep
    BY <1>6 DEF RecordRejection, RecordFinalApproval
  <2>2. /\ r \in Requests /\ status[r] # "none"
        /\ \A q \in Requests, s \in Steps : result'[q][s] # "none" <=> result[q][s] # "none"
    BY <2>1, DecisionKeepsRows
  <2>3. \A q \in Requests : q # r => status'[q] = status[q]
    BY <1>6 DEF RecordRejection, RecordFinalApproval, Typed, TypeOK
  <2>4. \/ call' = [call EXCEPT ![c] = Idle]
        \/ call' = [call EXCEPT ![c] = [Idle EXCEPT !.pc = "recompute", !.req = r]]
    BY <1>6 DEF RecordRejection, RecordFinalApproval
  <2> DEFINE next == [Idle EXCEPT !.pc = "recompute", !.req = r]
  <2>5. call'[c].pc # "create_rows" /\ \A d \in Calls : d # c => call'[d] = call[d]
    <3>1. next.pc # "create_rows" /\ Idle.pc # "create_rows"
      BY DEF Idle
    <3> HIDE DEF next
    <3>2. call'[c] \in {next, Idle} /\ \A d \in Calls : d # c => call'[d] = call[d]
      BY <1>0, <2>4 DEF next
    <3> QED
      BY <3>1, <3>2
  <2> QED
    BY <2>1, <2>2, <2>3, <2>5, WritingCounts
<1>7. ASSUME RecordAdvance(c)
      PROVE  Goal
  <2>1. k.pc = "decide" /\ WriteDecision(k) /\ UNCHANGED status /\ k.step < TotalSteps(r)
    BY <1>7 DEF RecordAdvance
  <2>2. /\ r \in Requests /\ status[r] # "none"
        /\ k.step \in Nat /\ k.step >= 1
        /\ \A q \in Requests, s \in Steps : result'[q][s] # "none" <=> result[q][s] # "none"
    BY <2>1, DecisionKeepsRows, WorkflowAssumption
  <2>3. /\ currentStep'[r] = k.step + 1
        /\ \A q \in Requests : q # r => currentStep'[q] = currentStep[q]
    BY <1>7, <2>2 DEF RecordAdvance, Typed, TypeOK
  <2>4. call'[c] = AfterAdvance(k) /\ \A d \in Calls : d # c => call'[d] = call[d]
    BY <1>0, <1>7 DEF RecordAdvance
  <2>5. call'[c].pc # "create_rows"
    BY <1>0, <2>2, <2>4, AfterAdvanceType
  <2>6. ASSUME NEW n, Run(n), \A s \in Steps : result[r][s] # "none" <=> s \in 1..n
        PROVE  currentStep'[r] \in 1..n
    <3>1. {s \in Steps : result[r][s] # "none"} = 1..n /\ n \in Nat
      BY <2>6 DEF Run
    <3>2. Cardinality(1..n) = n
      BY <2>6, FS_Interval DEF Run
    <3>3. TotalSteps(r) = n
      BY <3>1, <3>2 DEF TotalSteps
    <3> QED
      BY <2>1, <2>2, <2>3, <3>1, <3>3
  <2> QED
    BY <2>1, <2>2, <2>3, <2>4, <2>5, <2>6, WritingCounts
<1>8. ASSUME CancelWrite(c)
      PROVE  Goal
  <2>1. /\ r \in Requests /\ status[r] # "none"
        /\ UNCHANGED <<currentStep, result>>
    BY <1>0, <1>8 DEF CancelWrite, Progressed, CallInv, Working, Waits
  <2>2. \A q \in Requests : q # r => status'[q] = status[q]
    BY <1>8 DEF CancelWrite, Typed, TypeOK
  <2>3. call'[c].pc # "create_rows" /\ \A d \in Calls : d # c => call'[d] = call[d]
    BY <1>0, <1>8 DEF CancelWrite, CallStates
  <2> QED
    BY <2>1, <2>2, <2>3, WritingCounts
<1> QED
  BY <1>1, <1>2, <1>3, <1>4, <1>5, <1>6, <1>7, <1>8 DEF Continue

LEMMA NextCounted ==
  ASSUME FormFits, Sound, Counted, [PageNext]_pageVars
  PROVE  Counted'
<1>1. (\A d \in Calls : RowsCount(d)') /\ (\A q \in Requests : Stands(q)')
  <2>1. CASE Aside
    BY <2>1 DEF Aside, db, Counted, RowsCount, Stands
  <2>2. CASE \E c \in Calls : Start(c) \/ Continue(c) \/ Crash(c)
    BY <2>2, HandlerCounts DEF Sound
  <2> QED
    BY <2>1, <2>2, PageSteps DEF Sound
<1>2. CASE EditRoutes
  BY <1>1, <1>2, FormKeepsCount, RoutesKeepCount DEF Counted
<1>3. CASE UNCHANGED <<form, routes>>
  BY <1>1, <1>3 DEF Counted, FormCounts, RoutesCount
<1>4. ASSUME NEW c \in Calls, Start(c) \/ Continue(c) \/ Crash(c)
      PROVE  UNCHANGED routes
  BY <1>4 DEF Start, StartCreate, StartCancel, StartAct, Crash, Continue, CreatePlan,
       CreateRows, ActRead, ActCheck, RecordRejection, RecordFinalApproval, RecordAdvance,
       RecomputePunchFix, AutoReadRequest, AutoReadApproval, AutoDecide, CancelWrite,
       CancelAudit, WriteDecision, conf
<1>5. ASSUME NEW c \in Calls, Others(c) \/ Serve(c) \/ Lose(c)
      PROVE  UNCHANGED <<form, routes>>
  BY <1>4, <1>5 DEF Others, Serve, Lose, Answered
<1>6. ASSUME NEW p \in Presses, NEW c \in Calls, Post(p, c)
      PROVE  UNCHANGED <<form, routes>>
  BY <1>6 DEF Post, StartAct, conf
<1>7. ASSUME NEW p \in Presses, Open(p) \/ PressAll(p) \/ Load(p)
                                \/ \E row \in items, v \in Verdicts : Press(p, row, v)
      PROVE  UNCHANGED <<form, routes>>
  BY <1>7 DEF Open, PressAll, Load, Press, formVars, vars
<1> QED
  BY <1>2, <1>3, <1>5, <1>6, <1>7 DEF PageNext, Page, pageVars, formVars, vars

LEMMA AlwaysCounted == FormFits => (PageSpec => []Counted)
<1> SUFFICES ASSUME FormFits
             PROVE  PageSpec => []Counted
  OBVIOUS
<1>1. PageInit => Counted
  <2> SUFFICES ASSUME PageInit
               PROVE  Counted
    OBVIOUS
  <2>1. form = <<NewStep(1)>> /\ NewStep(1) \in FormSteps /\ NewStep(1).step = 1
    BY DEF PageInit, EmptyForm, NewStep, FormSteps, FormTypes
  <2>2. FormCounts
    BY <2>1 DEF FormCounts, FormFits
  <2> QED
    BY <2>2 DEF PageInit, Init, Idle, FormFits, Counted, RoutesCount, RowsCount, Stands
<1>2. Sound /\ Counted /\ [PageNext]_pageVars => Counted'
  BY NextCounted
<1> QED
  BY <1>1, <1>2, AlwaysSound, PTL DEF PageSpec

(* Whatever was added to and removed from the form, whenever a route was    *)
(* replaced and however requests, decisions and lost handlers overlap: a    *)
(* request that waits stands at a step that has an approval row. What it    *)
(* needs of the routes that were there before is that they count as well.   *)
THEOREM WaitingStands == FormFits => (PageSpec => []WaitsAtAStep)
<1>1. Counted => WaitsAtAStep
  BY DEF Counted, Stands, Run, WaitsAtAStep
<1> QED
  BY <1>1, AlwaysCounted, PTL

-----------------------------------------------------------------------------
(* The contract of a request's life with the pages on top                   *)

(* A handler that works for a page is one of the workflow's.                *)
LEMMA PageStepIsWorkflowStep ==
  ASSUME PageTyped, [PageNext]_pageVars
  PROVE  [Next]_vars \/ Aside
BY PageSteps DEF Next

(* What the workflow's steps keep of rows, log and handlers is kept by the  *)
(* pages, whose form is the only one to change the routes.                  *)
Lone == RowsMatchAudit /\ DecidedSteps /\ Undisturbed

LEMMA NextLone ==
  ASSUME OneHandler, FormFits, Sound, Counted, Lone, [PageNext]_pageVars
  PROVE  Lone'
<1>1. CASE Aside
  BY <1>1 DEF Aside, db, Lone, RowsMatchAudit, DecidedAt, DecidedSteps, Undisturbed,
              StillTrue, SomeRow
<1>2. CASE [Next]_vars
  <2>1. RoutesUsable
    <3>1. ASSUME NEW o \in routes, o.steps # <<>>
          PROVE  \E i \in DOMAIN o.steps : o.steps[i].step \in Steps
      BY <3>1 DEF Counted, RoutesCount, Numbered, Run
    <3> QED
      BY <3>1 DEF FormFits, Run, RoutesUsable
  <2>2. RowsMatchAudit' /\ DecidedSteps'
    BY <1>2, NextMatches, NextDecidedSteps DEF Sound, Lone
  <2>3. Undisturbed'
    BY <1>2, <2>1, NextUndisturbed DEF Sound, Lone
  <2> QED
    BY <2>2, <2>3 DEF Lone
<1> QED
  BY <1>1, <1>2, PageStepIsWorkflowStep DEF Sound

LEMMA PageStepRefines ==
  ASSUME OneHandler, Sound, Lone, [PageNext]_pageVars
  PROVE  [Lifecycle!Next]_(Lifecycle!vars)
<1>1. CASE Aside
  BY <1>1 DEF Aside, db, TotalSteps, Lifecycle!vars
<1>2. CASE [Next]_vars
  BY <1>2, StepRefines DEF Sound, Lone
<1> QED
  BY <1>1, <1>2, PageStepIsWorkflowStep DEF Sound

(* With routes saved from the form and decisions sent from the page, single *)
(* ones and the whole list, handlers and answers lost: as long as handlers  *)
(* run one after another, the workflow keeps the contract of a request's    *)
(* life. Every route the form saves gives a request a row to start with.    *)
THEOREM PagesImplementLifecycle == OneHandler /\ FormFits => (PageSpec => ImplementsLifecycle)
<1> SUFFICES ASSUME OneHandler, FormFits
             PROVE  PageSpec => ImplementsLifecycle
  OBVIOUS
<1>1. PageInit => Lone /\ Lifecycle!Init
  <2>1. Init => RowsMatchAudit
    BY DEF Init, RowsMatchAudit, DecidedAt, Verdicts
  <2>2. Init => Undisturbed /\ DecidedSteps
    BY DEF Init, Idle, Undisturbed, StillTrue, Holding, DecidedSteps
  <2> QED
    BY <2>1, <2>2, InitRefines DEF PageInit, Lone
<1>2. Sound /\ Counted /\ Lone /\ [PageNext]_pageVars => Lone'
  BY NextLone
<1>3. Sound /\ Lone /\ [PageNext]_pageVars => [Lifecycle!Next]_(Lifecycle!vars)
  BY PageStepRefines
<1> QED
  BY <1>1, <1>2, <1>3, AlwaysSound, AlwaysCounted, PTL
     DEF PageSpec, ImplementsLifecycle, Lifecycle!Spec
=============================================================================
