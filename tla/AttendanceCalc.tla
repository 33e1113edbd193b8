--------------------------- MODULE AttendanceCalc ---------------------------
(***************************************************************************)
(* What a daily summary says: attendance-calc.ts and the choice of the rule *)
(* in summaries.service.ts. The records of one day grow by punches, which   *)
(* punch-state.ts checks, and by approved corrections, which nothing        *)
(* checks; each is followed by recompute. AttendanceClose treats when that  *)
(* happens, this module what comes out.                                     *)
(*                                                                          *)
(* Time is counted in ticks, several to the minute, so that minutes have    *)
(* fractions for the code to round.                                         *)
(***************************************************************************)
EXTENDS Integers, FiniteSetsExt, PunchState

CONSTANTS TicksPerMinute,
          Day,            \* ticks of a day
          NightEnd,       \* the early band is [0, NightEnd),
          NightStart,     \* the late one [NightStart, Day)
          DefaultRule,    \* the rule of a member without a work pattern
          Plans,          \* work patterns and planned shifts of the member
          MaxRecords,     \* bound: records of the day
          MaxCorrections, \* bound: corrections among them
          Nothing         \* a missing shift or time

RoundingMethods == {"none", "up", "down", "nearest"}
WorkRules == [scheduled : Nat, breaks : Nat, unit : Nat \ {0}, method : RoundingMethods]

ASSUME CalcAssumption ==
  /\ TicksPerMinute \in Nat \ {0} /\ Day \in Nat
  /\ NightEnd \in 0..Day /\ NightStart \in 0..Day /\ NightEnd <= NightStart
  /\ DefaultRule \in WorkRules
  /\ \A plan \in Plans :
       /\ plan.pattern \in {"none", "fixed", "shift"} /\ plan.rule \in WorkRules
       /\ plan.shift = Nothing \/ plan.shift \in [start : Nat, end : Nat]
  /\ Nothing \notin Nat
  /\ MaxRecords \in Nat /\ MaxCorrections \in Nat

VARIABLES records, \* the day's time_record rows
          plan,    \* what the member is assigned to on the day
          summary  \* the day's daily_summary

vars == <<records, plan, summary>>

NotBelowZero(n) == IF n < 0 THEN 0 ELSE n

-----------------------------------------------------------------------------
(* The rule of the day                                                      *)

(* mutant: the shift's own break is forgotten                                *)
ResolveRuleNoBreak(p) ==
  LET rule == IF p.pattern = "none" THEN DefaultRule ELSE p.rule
      timed == p.pattern = "shift" /\ p.shift # Nothing
  IN
  [unit |-> rule.unit, method |-> rule.method,
   start |-> IF timed THEN p.shift.start ELSE Nothing,
   end |-> IF timed THEN p.shift.end ELSE Nothing,
   scheduled |-> IF timed
                   THEN NotBelowZero((p.shift.end - p.shift.start) \div TicksPerMinute)
                   ELSE rule.scheduled]

(* A planned shift sets the times and, less the break, the minutes to work. *)
(* Shifts are given in whole minutes. isHoliday is never set.               *)
ResolveRule(p) ==
  LET rule == IF p.pattern = "none" THEN DefaultRule ELSE p.rule
      timed == p.pattern = "shift" /\ p.shift # Nothing
      span == (p.shift.end - p.shift.start) \div TicksPerMinute
  IN
  [unit |-> rule.unit, method |-> rule.method,
   start |-> IF timed THEN p.shift.start ELSE Nothing,
   end |-> IF timed THEN p.shift.end ELSE Nothing,
   scheduled |-> IF timed THEN NotBelowZero(span - rule.breaks) ELSE rule.scheduled]

-----------------------------------------------------------------------------
(* Intervals and their lengths                                              *)

(* One punch of buildIntervals: a start is remembered, an end without a     *)
(* start ignored, and clocking out leaves an open break open.               *)
Extend(b, p) ==
  CASE p.type = "clock_in" -> [b EXCEPT !.workStart = p.at]
    [] p.type = "clock_out" ->
         IF b.workStart = Nothing THEN b
         ELSE [b EXCEPT !.work = @ \cup {[start |-> b.workStart, end |-> p.at]},
                        !.workStart = Nothing]
    [] p.type = "break_start" -> [b EXCEPT !.breakStart = p.at]
    [] p.type = "break_end" ->
         IF b.breakStart = Nothing THEN b
         ELSE [b EXCEPT !.breaks = @ \cup {[start |-> b.breakStart, end |-> p.at]},
                        !.breakStart = Nothing]

BuildIntervals(punches) ==
  FoldInOrder(Extend, [work |-> {}, breaks |-> {}, workStart |-> Nothing, breakStart |-> Nothing],
              punches)

Duration(intervals) == MapThenSumSet(LAMBDA i : NotBelowZero(i.end - i.start), intervals)

Overlap(i, from, to) == NotBelowZero(Min({i.end, to}) - Max({i.start, from}))

(* mutant: only the band before midnight                                     *)
NightOverlapLate(i) ==
  LET midnight(n) == Day * ((i.start \div Day) + n)
  IN  MapThenSumSet(LAMBDA n : Overlap(i, midnight(n) + NightStart, midnight(n + 1)), 0..2)

(* The bands of the day the interval starts on and of the two after it.     *)
NightOverlap(i) ==
  LET midnight(n) == Day * ((i.start \div Day) + n)
  IN  MapThenSumSet(LAMBDA n : Overlap(i, midnight(n), midnight(n) + NightEnd)
                               + Overlap(i, midnight(n) + NightStart, midnight(n + 1)),
                    0..2)

NightOf(intervals) == MapThenSumSet(NightOverlap, intervals)

-----------------------------------------------------------------------------
(* Rounding and the summary                                                 *)

Quotients(n, d) == [up |-> (n + d - 1) \div d, down |-> n \div d,
                    nearest |-> (2 * n + d) \div (2 * d)]

WholeMinutes(ticks) == Quotients(ticks, TicksPerMinute).nearest

(* mutant: rounding up goes to the next unit even from a full one            *)
RoundMinutesPast(ticks, unit, method) ==
  IF unit <= 1 \/ method = "none"
    THEN WholeMinutes(ticks)
    ELSE unit * IF method = "up" THEN ticks \div (unit * TicksPerMinute) + 1
                ELSE Quotients(ticks, unit * TicksPerMinute)[method]

RoundMinutes(ticks, unit, method) ==
  IF unit <= 1 \/ method = "none"
    THEN WholeMinutes(ticks)
    ELSE unit * Quotients(ticks, unit * TicksPerMinute)[method]

Net(work, breaks) == NotBelowZero(Duration(work) - Duration(breaks))

ComputeDailySummary(punches, rule) ==
  LET b == BuildIntervals(punches)
      worked == RoundMinutes(Net(b.work, b.breaks), rule.unit, rule.method)
      firstIn == Min({i.start : i \in b.work})
      lastOut == Max({i.end : i \in b.work})
      short(given, ticks) ==
        IF given = Nothing \/ b.work = {} THEN 0
        ELSE RoundMinutes(NotBelowZero(ticks), rule.unit, rule.method)
  IN
  [workedMinutes |-> worked,
   overtimeMinutes |-> NotBelowZero(worked - rule.scheduled),
   lateNightMinutes |->
     NotBelowZero(WholeMinutes(NightOf(b.work) - NightOf(b.breaks))),
   holidayMinutes |-> 0,
   lateMinutes |-> short(rule.start, firstIn - rule.start),
   earlyLeaveMinutes |-> short(rule.end, rule.end - lastOut)]

-----------------------------------------------------------------------------
Recomputed(rs) == ComputeDailySummary(rs, ResolveRule(plan))

Init ==
  /\ records = {}
  /\ plan \in Plans
  /\ summary = Recomputed({})

Store(type, at, corrected) ==
  /\ Cardinality(records) < MaxRecords
  /\ \A p \in records : p.at # at
  /\ records' = records \cup {[type |-> type, at |-> at, corrected |-> corrected]}
  /\ summary' = Recomputed(records')
  /\ UNCHANGED plan

(* A punch is stored with the current time, after every other punch.        *)
Punch(type, at) ==
  /\ \A p \in records : ~p.corrected => p.at < at
  /\ ValidatePunch(DeriveState(records), type)
  /\ Store(type, at, FALSE)

(* An approved punch_fix adds a record wherever the request says.           *)
Correct(type, at) ==
  /\ Cardinality({p \in records : p.corrected}) < MaxCorrections
  /\ Store(type, at, TRUE)

Next ==
  \E type \in PunchTypes, at \in 0..(Day - 1) : Punch(type, at) \/ Correct(type, at)

Spec == Init /\ [][Next]_vars

-----------------------------------------------------------------------------
(* Properties                                                               *)

Minutes == {"workedMinutes", "overtimeMinutes", "lateNightMinutes", "holidayMinutes",
            "lateMinutes", "earlyLeaveMinutes"}

(* The reference: the ticks a day's punches say somebody worked, read off   *)
(* the punch state tick by tick. A break that is ended by clocking out      *)
(* counts as work.                                                          *)
StateAt(t) == DeriveState({p \in records : p.at <= t})

NextPunch(t) ==
  LET later == {p \in records : p.at > t}
  IN  {p \in later : \A q \in later : p.at <= q.at}

Worked ==
  {t \in 0..(Day - 1) :
     \/ StateAt(t) = "in" /\ \E p \in records : p.type = "clock_out" /\ p.at > t
     \/ StateAt(t) = "break" /\ \E p \in NextPunch(t) : p.type = "clock_out"}

AtNight == {t \in 0..(Day - 1) : t < NightEnd \/ t >= NightStart}

(* `minutes` is a value the rule allows for that many ticks: the nearest    *)
(* whole minute where the unit is one, whatever the method.                 *)
Rounds(minutes, ticks, unit, method) ==
  LET length == unit * TicksPerMinute
      given == minutes * TicksPerMinute
      nearest(l) == 2 * given <= 2 * ticks + l /\ 2 * ticks <= 2 * given + l
  IN
  IF unit = 1 \/ method = "none"
    THEN nearest(TicksPerMinute)
    ELSE /\ minutes % unit = 0
         /\ CASE method = "up"      -> ticks <= given /\ given < ticks + length
              [] method = "down"    -> given <= ticks /\ ticks < given + length
              [] method = "nearest" -> nearest(length)

Uncorrected == \A p \in records : ~p.corrected
ClockedOut == DeriveState(records) = "out"

(* Once somebody has clocked out, the summary gives the time the punch      *)
(* states give, rounded as the rule says; before that it never gives more.  *)
WorkedAsPunched ==
  LET rule == ResolveRule(plan) IN
  Uncorrected =>
    IF ClockedOut
      THEN Rounds(summary.workedMinutes, Cardinality(Worked), rule.unit, rule.method)
      ELSE summary.workedMinutes <= RoundMinutes(Cardinality(Worked), rule.unit, rule.method)

(* The night minutes are those of the worked time that lie in the night.    *)
NightAsPunched ==
  Uncorrected /\ ClockedOut =>
    Rounds(summary.lateNightMinutes, Cardinality(Worked \cap AtNight), 1, "none")

(* Whoever is there from the start to the end of the planned shift, but for *)
(* the break, is neither late nor leaves early nor works too little.        *)
KeptShift ==
  plan.pattern = "shift" /\ plan.shift # Nothing /\ Uncorrected /\ ClockedOut =>
    LET shift == plan.shift
        missed == (shift.start..(shift.end - 1)) \ Worked
    IN
    (/\ shift.start < shift.end
     /\ \E t \in Worked : t <= shift.start
     /\ \E t \in Worked : t >= shift.end - 1
     /\ Cardinality(missed) <= plan.rule.breaks * TicksPerMinute)
    => /\ summary.lateMinutes = 0 /\ summary.earlyLeaveMinutes = 0
       /\ plan.rule.method \in {"none", "up"} =>
            summary.workedMinutes >= ResolveRule(plan).scheduled

=============================================================================
