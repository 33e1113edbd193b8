--------------------------- MODULE AttendanceClose ---------------------------
(***************************************************************************)
(* Punches, the daily summaries computed from them and the monthly close    *)
(* that locks them: time-records.module.ts, punch-state.ts, recompute of    *)
(* summaries.service.ts, closings.service.ts, and what a punch correction   *)
(* (filed in requests.service.ts, approved in approvals.service.ts) does to *)
(* the same tables.                                                         *)
(*                                                                          *)
(* The days are the work days of an organization's members within one       *)
(* period (org x month). As in RequestWorkflow call[c] is a handler between *)
(* two awaits. What a summary says is abstracted to the set of records it   *)
(* was computed from; working it out is the subject of attendance-calc.ts.  *)
(***************************************************************************)
EXTENDS PunchState, Naturals, FiniteSets

CONSTANTS Days,        \* (user, date) pairs of one period
          Calls,       \* handlers that may be in flight at the same time
          Fixes,       \* punch_fix requests
          FixTarget,   \* FixTarget[f]: its payload's target_date, or NoDay
          FixRecords,  \* FixRecords[f]: the records it adds to each day
          MaxPunches,  \* bound: punches started per day
          MayCrash,    \* whether a handler may be lost between two awaits
          NoDay,       \* no date, or one outside the period
          NoFix        \* no correction

Records == [type : PunchTypes, at : Nat, corrected : BOOLEAN]

(* The payload of a correction is whatever object its applicant sent: the   *)
(* date it names may be missing, and no record has to be of that date.      *)
ASSUME CloseAssumption ==
  /\ FixTarget \in [Fixes -> Days \cup {NoDay}]
  /\ FixRecords \in [Fixes -> [Days -> SUBSET {r \in Records : r.corrected}]]
  /\ \A f \in Fixes, d \in Days : IsFiniteSet(FixRecords[f][d])
  /\ IsFiniteSet(Days)
  /\ MaxPunches \in Nat
  /\ MayCrash \in BOOLEAN
  /\ NoDay \notin Days /\ NoFix \notin Fixes

VARIABLES records,  \* time_record by day
          clock,    \* the time of the last punch started on a day
          summary,  \* daily_summary by day, status "none": no row
          month,    \* monthly_close.status, "none": no row
          filed,    \* corrections filed
          approved, \* corrections approved
          call      \* the handlers

vars == <<records, clock, summary, month, filed, approved, call>>

NoSummary == [status |-> "none", counted |-> {}]
NoRecord == [type |-> "clock_in", at |-> 0, corrected |-> FALSE]

Idle == [pc |-> "idle", day |-> NoDay, fix |-> NoFix, rec |-> NoRecord,
         seen |-> {}, closing |-> FALSE, todo |-> {}]

Init ==
  /\ records = [d \in Days |-> {}]
  /\ clock = [d \in Days |-> 0]
  /\ summary = [d \in Days |-> NoSummary]
  /\ month = "none"
  /\ filed = {}
  /\ approved = {}
  /\ call = [c \in Calls |-> Idle]

-----------------------------------------------------------------------------
(* Punching                                                                 *)

(* `now` is taken before the day's punches are queried.                     *)
StartPunch(c, d, type) ==
  /\ call[c].pc = "idle"
  /\ clock[d] < MaxPunches
  /\ clock' = [clock EXCEPT ![d] = @ + 1]
  /\ call' = [call EXCEPT ![c] =
       [Idle EXCEPT !.pc = "punch_read", !.day = d,
                    !.rec = [type |-> type, at |-> clock[d] + 1, corrected |-> FALSE]]]
  /\ UNCHANGED <<records, summary, month, filed, approved>>

(* mutant: the punch is stored without a look at the ones before it         *)
PunchUnchecked(c) ==
  /\ call[c].pc = "punch_read"
  /\ call' = [call EXCEPT ![c].pc = "punch_insert"]
  /\ UNCHANGED <<records, clock, summary, month, filed, approved>>

PunchRead(c) ==
  LET k == call[c] IN
  /\ k.pc = "punch_read"
  /\ call' = [call EXCEPT ![c] =
       IF ValidatePunch(DeriveState(records[k.day]), k.rec.type)
         THEN [k EXCEPT !.pc = "punch_insert"]
         ELSE Idle]
  /\ UNCHANGED <<records, clock, summary, month, filed, approved>>

PunchInsert(c) ==
  LET k == call[c] IN
  /\ k.pc = "punch_insert"
  /\ records' = [records EXCEPT ![k.day] = @ \cup {k.rec}]
  /\ call' = [call EXCEPT ![c].pc = "sum_status"]
  /\ UNCHANGED <<clock, summary, month, filed, approved>>

-----------------------------------------------------------------------------
(* recompute, called by a punch, an approved correction and a close         *)

(* mutant: the day just recomputed stays on the list                        *)
RepeatDay(k) ==
  IF ~k.closing
    THEN {Idle}
    ELSE IF k.todo = {}
      THEN {[k EXCEPT !.pc = "close_commit"]}
      ELSE {[k EXCEPT !.pc = "sum_status", !.day = d] : d \in k.todo}

(* Where a handler goes after a recompute: a close takes the next day of    *)
(* its list, in no particular order.                                        *)
AfterRecompute(k) ==
  IF ~k.closing
    THEN {Idle}
    ELSE IF k.todo = {}
      THEN {[k EXCEPT !.pc = "close_commit"]}
      ELSE {[k EXCEPT !.pc = "sum_status", !.day = d, !.todo = @ \ {d}] : d \in k.todo}

(* mutant: closed summaries are recomputed like the others                  *)
SumAnyStatus(c) ==
  /\ call[c].pc = "sum_status"
  /\ call' = [call EXCEPT ![c].pc = "sum_records"]
  /\ UNCHANGED <<records, clock, summary, month, filed, approved>>

SumStatus(c) ==
  LET k == call[c] IN
  /\ k.pc = "sum_status"
  /\ \E next \in IF summary[k.day].status = "closed"
                   THEN AfterRecompute(k)
                   ELSE {[k EXCEPT !.pc = "sum_records"]} :
       call' = [call EXCEPT ![c] = next]
  /\ UNCHANGED <<records, clock, summary, month, filed, approved>>

SumRecords(c) ==
  LET k == call[c] IN
  /\ k.pc = "sum_records"
  /\ call' = [call EXCEPT ![c] = [k EXCEPT !.pc = "sum_upsert", !.seen = records[k.day]]]
  /\ UNCHANGED <<records, clock, summary, month, filed, approved>>

(* mutant: only a row that exists is written                                *)
UpdateOnly(c) ==
  LET k == call[c] IN
  /\ k.pc = "sum_upsert"
  /\ summary' = IF summary[k.day].status = "none" THEN summary
                ELSE [summary EXCEPT ![k.day].counted = k.seen]
  /\ \E next \in AfterRecompute([k EXCEPT !.seen = {}]) : call' = [call EXCEPT ![c] = next]
  /\ UNCHANGED <<records, clock, month, filed, approved>>

(* A new row is open; an existing one keeps its status.                     *)
SumUpsert(c) ==
  LET k == call[c] IN
  /\ k.pc = "sum_upsert"
  /\ summary' = [summary EXCEPT ![k.day] =
       [status  |-> IF @.status = "none" THEN "open" ELSE @.status,
        counted |-> k.seen]]
  /\ \E next \in AfterRecompute([k EXCEPT !.seen = {}]) : call' = [call EXCEPT ![c] = next]
  /\ UNCHANGED <<records, clock, month, filed, approved>>

-----------------------------------------------------------------------------
(* Corrections. Deciding them is the subject of RequestWorkflow: here they  *)
(* are filed, after a look at the month, and at some time approved.         *)

StartFile(c, f) ==
  /\ call[c].pc = "idle"
  /\ f \notin filed
  /\ \A d \in Calls : call[d].fix # f
  /\ month # "closed"
  /\ call' = [call EXCEPT ![c] = [Idle EXCEPT !.pc = "file_insert", !.fix = f]]
  /\ UNCHANGED <<records, clock, summary, month, filed, approved>>

FileInsert(c) ==
  /\ call[c].pc = "file_insert"
  /\ filed' = filed \cup {call[c].fix}
  /\ call' = [call EXCEPT ![c] = Idle]
  /\ UNCHANGED <<records, clock, summary, month, approved>>

(* The transaction of the final approval stores each record on the day of   *)
(* its own punched_at; the recompute that follows is of the target date,    *)
(* and there is none without a target date (recomputeIfPunchFix).           *)
ApproveFix(c, f) ==
  /\ call[c].pc = "idle"
  /\ f \in filed \ approved
  /\ approved' = approved \cup {f}
  /\ records' = [d \in Days |-> records[d] \cup FixRecords[f][d]]
  /\ call' = [call EXCEPT ![c] =
       IF FixTarget[f] = NoDay THEN Idle
       ELSE [Idle EXCEPT !.pc = "sum_status", !.day = FixTarget[f]]]
  /\ UNCHANGED <<clock, summary, month, filed>>

-----------------------------------------------------------------------------
(* Closing and reopening the month                                          *)

StartClose(c) ==
  /\ call[c].pc = "idle"
  /\ month # "closed"
  /\ call' = [call EXCEPT ![c] = [Idle EXCEPT !.pc = "close_list", !.closing = TRUE]]
  /\ UNCHANGED <<records, clock, summary, month, filed, approved>>

(* precheck, asked for by the page before a close and by the close for its  *)
(* warnings. Requests are counted whatever month they are about.            *)
Precheck ==
  [status          |-> IF month = "none" THEN "open" ELSE month,
   pendingRequests |-> Cardinality(filed \ approved),
   openSummaries   |-> Cardinality({d \in Days : summary[d].status = "open"})]

(* mutant: the summaries are locked as they are                             *)
CloseUnseen(c) ==
  /\ call[c].pc = "close_list"
  /\ call' = [call EXCEPT ![c].pc = "close_commit"]
  /\ UNCHANGED <<records, clock, summary, month, filed, approved>>

CloseList(c) ==
  LET k == call[c]
      open == {d \in Days : summary[d].status = "open"}
  IN
  /\ k.pc = "close_list"
  /\ \E next \in AfterRecompute([k EXCEPT !.todo = open]) :
       call' = [call EXCEPT ![c] = next]
  /\ UNCHANGED <<records, clock, summary, month, filed, approved>>

WithStatus(s) ==
  [d \in Days |-> IF summary[d].status = "none" THEN NoSummary
                  ELSE [summary[d] EXCEPT !.status = s]]

CloseCommit(c) ==
  /\ call[c].pc = "close_commit"
  /\ summary' = WithStatus("closed")
  /\ month' = "closed"
  /\ call' = [call EXCEPT ![c] = Idle]
  /\ UNCHANGED <<records, clock, filed, approved>>

StartReopen(c) ==
  /\ call[c].pc = "idle"
  /\ month # "none"
  /\ call' = [call EXCEPT ![c] = [Idle EXCEPT !.pc = "reopen_commit"]]
  /\ UNCHANGED <<records, clock, summary, month, filed, approved>>

(* mutant: the month is opened, its summaries stay locked                    *)
ReopenMonthOnly(c) ==
  /\ call[c].pc = "reopen_commit"
  /\ month' = "open"
  /\ call' = [call EXCEPT ![c] = Idle]
  /\ UNCHANGED <<records, clock, summary, filed, approved>>

ReopenCommit(c) ==
  /\ call[c].pc = "reopen_commit"
  /\ summary' = WithStatus("open")
  /\ month' = "open"
  /\ call' = [call EXCEPT ![c] = Idle]
  /\ UNCHANGED <<records, clock, filed, approved>>

(* A handler is lost; what it had committed stays.                          *)
Crash(c) ==
  /\ MayCrash
  /\ call[c].pc # "idle"
  /\ call' = [call EXCEPT ![c] = Idle]
  /\ UNCHANGED <<records, clock, summary, month, filed, approved>>

-----------------------------------------------------------------------------
Start(c) ==
  \/ \E d \in Days, type \in PunchTypes : StartPunch(c, d, type)
  \/ \E f \in Fixes : StartFile(c, f) \/ ApproveFix(c, f)
  \/ StartClose(c)
  \/ StartReopen(c)

Continue(c) ==
  \/ PunchRead(c)
  \/ PunchInsert(c)
  \/ SumStatus(c)
  \/ SumRecords(c)
  \/ SumUpsert(c)
  \/ FileInsert(c)
  \/ CloseList(c)
  \/ CloseCommit(c)
  \/ ReopenCommit(c)

Next == \E c \in Calls : Start(c) \/ Continue(c) \/ Crash(c)

Spec == Init /\ [][Next]_vars

(* Node.js resumes a handler when its await settles.                        *)
FairSpec == Spec /\ \A c \in Calls : WF_vars(Continue(c))

-----------------------------------------------------------------------------
(* Properties                                                               *)

Statuses == {"none", "open", "closed"}
Waits == {"idle", "punch_read", "punch_insert", "sum_status", "sum_records",
          "sum_upsert", "file_insert", "close_list", "close_commit", "reopen_commit"}

CallStates ==
  [pc : Waits, day : Days \cup {NoDay}, fix : Fixes \cup {NoFix}, rec : Records,
   seen : SUBSET Records, closing : BOOLEAN, todo : SUBSET Days]

TypeOK ==
  /\ records \in [Days -> SUBSET Records]
  /\ clock \in [Days -> Nat]
  /\ summary \in [Days -> [status : Statuses, counted : SUBSET Records]]
  /\ month \in Statuses
  /\ filed \subseteq Fixes
  /\ approved \subseteq Fixes
  /\ call \in [Calls -> CallStates]

Quiet == \A c \in Calls : call[c].pc = "idle"

(* The punches of a day make sense: the first is a clock-in and each of the *)
(* others may follow the one before it, so none was entered twice           *)
(* (deriveState and validatePunch together).                                *)
MayFollow == [clock_in    |-> {"clock_out", "break_start"},
              break_start |-> {"break_end", "clock_out"},
              break_end   |-> {"break_start", "clock_out"},
              clock_out   |-> {"clock_in"}]

JustBefore(r, q, day) == q.at < r.at /\ \A p \in day : p.at < r.at => p.at <= q.at

InTurn(day) ==
  \A r \in day :
    /\ (\A q \in day : q.at >= r.at) => r.type = "clock_in"
    /\ \A q \in day : JustBefore(r, q, day) => r.type \in MayFollow[q.type]

ValidPunches ==
  \A d \in Days : (\A r \in records[d] : ~r.corrected) => InTurn(records[d])

(* A month is closed with summaries that count every record of their days,  *)
(* also when a handler was lost between a punch and its recompute: close    *)
(* recomputes the open days before it locks them.                           *)
CloseCountsAll ==
  [][month # "closed" /\ month' = "closed" =>
       \A d \in Days : summary[d].status # "none" => summary'[d].counted = records[d]]_vars

(* A day is locked only while its month is: recompute never locks a row and *)
(* reopening leaves none locked, whatever overlaps or is lost.              *)
ClosedUnderClose ==
  \A d \in Days : summary[d].status = "closed" => month = "closed"

(* A close that was accepted gets to its end, however many days it has to   *)
(* recompute and whatever is punched meanwhile.                             *)
CloseEnds == \A c \in Calls : call[c].pc = "close_list" ~> month = "closed"
=============================================================================
