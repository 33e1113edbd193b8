-------------------------- MODULE Attendance_proofs --------------------------
(***************************************************************************)
(* The books for any number of days, members, handlers, punches,            *)
(* corrections, presses and exports. A day is locked only while its month   *)
(* is. When one handler runs at a time a month is closed with all it counts *)
(* and a day's punches make sense; recompute and punch read in one query    *)
(* and write in another, so these need that assumption, and the runs show   *)
(* what overlapping handlers do. The punch page and the CSV export take only *)
(* the steps of AttendanceClose, so what is proved of it holds of them: a   *)
(* punch that the page reports was carried by its handler into the day's    *)
(* summary, the page offers what the server would take, and a file has the  *)
(* days as they were locked.                                                *)
(***************************************************************************)
EXTENDS MCPunchScreen, CsvExport, Folding_proofs

OnADay == {"punch_read", "punch_insert", "sum_status", "sum_records", "sum_upsert"}
Computing == {"sum_records", "sum_upsert"}

PlacedAt(k) ==
  /\ k.pc \in OnADay => k.day \in Days
  /\ k.pc = "file_insert" => k.fix \in Fixes

Placed == \A c \in Calls : PlacedAt(call[c])

OneAtATime == \A c, d \in Calls : c = d

Typed == TypeOK /\ Placed

LEMMA IdleType == Idle \in CallStates /\ PlacedAt(Idle) /\ Idle.pc = "idle"
BY DEF Idle, CallStates, Waits, NoRecord, Records, PunchTypes, PlacedAt, OnADay

LEMMA CallChange ==
  ASSUME Typed, NEW c \in Calls, NEW k \in CallStates, PlacedAt(k),
         call' = [call EXCEPT ![c] = k]
  PROVE  call' \in [Calls -> CallStates] /\ Placed'
BY DEF Typed, TypeOK, Placed, PlacedAt

(* Where a handler goes after a recompute.                                  *)
LEMMA AfterRecomputeType ==
  ASSUME NEW k \in CallStates, NEW next \in AfterRecompute(k)
  PROVE  next \in CallStates /\ PlacedAt(next) /\ next.pc \notin Computing
<1>1. CASE next = Idle
  BY <1>1, IdleType DEF Computing
<1>2. CASE next # Idle
  <2>1. CASE next = [k EXCEPT !.pc = "close_commit"]
    BY <2>1 DEF CallStates, Waits, PlacedAt, OnADay, Computing
  <2>2. CASE \E d \in k.todo :
               next = [k EXCEPT !.pc = "sum_status", !.day = d, !.todo = @ \ {d}]
    <3>1. PICK d \in k.todo :
            next = [k EXCEPT !.pc = "sum_status", !.day = d, !.todo = @ \ {d}]
      BY <2>2
    <3>2. d \in Days /\ k.todo \ {d} \in SUBSET Days
      BY <3>1 DEF CallStates
    <3>3. next.pc = "sum_status" /\ next.day = d
      BY <3>1 DEF CallStates
    <3>4. next \in CallStates
      BY <3>1, <3>2 DEF CallStates, Waits
    <3> QED
      BY <3>2, <3>3, <3>4 DEF PlacedAt, OnADay, Computing
  <2> QED
    BY <1>2, <2>1, <2>2 DEF AfterRecompute
<1> QED
  BY <1>1, <1>2

LEMMA InitTyped == Init => Typed
<1> SUFFICES ASSUME Init
             PROVE  Typed
  OBVIOUS
<1>1. TypeOK
  BY IdleType DEF Init, TypeOK, NoSummary, Statuses
<1>2. Placed
  BY IdleType DEF Init, Placed
<1> QED
  BY <1>1, <1>2 DEF Typed

(* A handler that moves on and leaves the tables alone.                     *)
LEMMA MoveTyped ==
  ASSUME Typed, NEW c \in Calls, NEW k \in CallStates, PlacedAt(k),
         call' = [call EXCEPT ![c] = k],
         UNCHANGED <<records, summary, month, filed, approved>>,
         clock' \in [Days -> Nat]
  PROVE  Typed'
BY CallChange DEF Typed, TypeOK

LEMMA StartTyped ==
  ASSUME Typed, NEW c \in Calls, Start(c)
  PROVE  Typed'
<1>1. ASSUME NEW d \in Days, NEW type \in PunchTypes, StartPunch(c, d, type)
      PROVE  Typed'
  <2> DEFINE r == [type |-> type, at |-> clock[d] + 1, corrected |-> FALSE]
             k == [Idle EXCEPT !.pc = "punch_read", !.day = d, !.rec = r]
  <2>1. r \in Records
    BY DEF Typed, TypeOK, Records
  <2>2. k \in CallStates /\ PlacedAt(k)
    BY <2>1, IdleType DEF Idle, CallStates, Waits, PlacedAt, OnADay
  <2>3. call' = [call EXCEPT ![c] = k]
    BY <1>1 DEF StartPunch
  <2>4. clock' \in [Days -> Nat] /\ UNCHANGED <<records, summary, month, filed, approved>>
    BY <1>1 DEF StartPunch, Typed, TypeOK
  <2> HIDE DEF k
  <2> QED
    BY <2>2, <2>3, <2>4, MoveTyped
<1>2. ASSUME NEW f \in Fixes, StartFile(c, f)
      PROVE  Typed'
  <2> DEFINE k == [Idle EXCEPT !.pc = "file_insert", !.fix = f]
  <2>1. k \in CallStates /\ PlacedAt(k)
    BY IdleType DEF Idle, CallStates, Waits, PlacedAt, OnADay
  <2>2. call' = [call EXCEPT ![c] = k]
    BY <1>2 DEF StartFile
  <2>3. clock' \in [Days -> Nat] /\ UNCHANGED <<records, summary, month, filed, approved>>
    BY <1>2 DEF StartFile, Typed, TypeOK
  <2> HIDE DEF k
  <2> QED
    BY <2>1, <2>2, <2>3, MoveTyped
<1>3. ASSUME NEW f \in Fixes, ApproveFix(c, f)
      PROVE  Typed'
  <2> DEFINE n == [Idle EXCEPT !.pc = "sum_status", !.day = FixTarget[f]]
             k == IF FixTarget[f] = NoDay THEN Idle ELSE n
  <2>1. /\ FixTarget[f] \in Days \cup {NoDay}
        /\ \A d \in Days : FixRecords[f][d] \subseteq Records
    BY CloseAssumption
  <2>2. k \in CallStates /\ PlacedAt(k)
    <3>1. FixTarget[f] # NoDay => n \in CallStates /\ PlacedAt(n)
      BY <2>1, IdleType DEF Idle, CallStates, Waits, PlacedAt, OnADay
    <3> HIDE DEF n
    <3> QED
      BY <3>1, IdleType
  <2>3. call' = [call EXCEPT ![c] = k]
    BY <1>3 DEF ApproveFix
  <2> HIDE DEF k
  <2>4. call' \in [Calls -> CallStates] /\ Placed'
    BY <2>2, <2>3, CallChange
  <2>5. records' \in [Days -> SUBSET Records]
    BY <1>3, <2>1 DEF ApproveFix, Typed, TypeOK
  <2> QED
    BY <1>3, <2>4, <2>5 DEF ApproveFix, Typed, TypeOK
<1>4. CASE StartClose(c)
  <2> DEFINE k == [Idle EXCEPT !.pc = "close_list", !.closing = TRUE]
  <2>1. k \in CallStates /\ PlacedAt(k)
    BY IdleType DEF Idle, CallStates, Waits, PlacedAt, OnADay
  <2>2. call' = [call EXCEPT ![c] = k]
    BY <1>4 DEF StartClose
  <2>3. clock' \in [Days -> Nat] /\ UNCHANGED <<records, summary, month, filed, approved>>
    BY <1>4 DEF StartClose, Typed, TypeOK
  <2> HIDE DEF k
  <2> QED
    BY <2>1, <2>2, <2>3, MoveTyped
<1>5. CASE StartReopen(c)
  <2> DEFINE k == [Idle EXCEPT !.pc = "reopen_commit"]
  <2>1. k \in CallStates /\ PlacedAt(k)
    BY IdleType DEF Idle, CallStates, Waits, PlacedAt, OnADay
  <2>2. call' = [call EXCEPT ![c] = k]
    BY <1>5 DEF StartReopen
  <2>3. clock' \in [Days -> Nat] /\ UNCHANGED <<records, summary, month, filed, approved>>
    BY <1>5 DEF StartReopen, Typed, TypeOK
  <2> HIDE DEF k
  <2> QED
    BY <2>1, <2>2, <2>3, MoveTyped
<1> QED
  BY <1>1, <1>2, <1>3, <1>4, <1>5 DEF Start

LEMMA WithStatusType ==
  ASSUME Typed, NEW s \in {"open", "closed"}
  PROVE  WithStatus(s) \in [Days -> [status : Statuses, counted : SUBSET Records]]
BY DEF Typed, TypeOK, WithStatus, NoSummary, Statuses

LEMMA ContinueTyped ==
  ASSUME Typed, NEW c \in Calls, Continue(c)
  PROVE  Typed'
<1> DEFINE k == call[c]
<1>0. k \in CallStates /\ PlacedAt(k)
  BY DEF Typed, TypeOK, Placed
<1>1. CASE PunchRead(c)
  <2> DEFINE next == IF ValidatePunch(DeriveState(records[k.day]), k.rec.type)
                       THEN [k EXCEPT !.pc = "punch_insert"] ELSE Idle
  <2>1. [k EXCEPT !.pc = "punch_insert"] \in CallStates
        /\ PlacedAt([k EXCEPT !.pc = "punch_insert"])
    BY <1>0, <1>1 DEF PunchRead, CallStates, Waits, PlacedAt, OnADay
  <2>2. next \in CallStates /\ PlacedAt(next)
    BY <2>1, IdleType
  <2>3. call' = [call EXCEPT ![c] = next]
    BY <1>1 DEF PunchRead
  <2>4. clock' \in [Days -> Nat] /\ UNCHANGED <<records, summary, month, filed, approved>>
    BY <1>1 DEF PunchRead, Typed, TypeOK
  <2> HIDE DEF next
  <2> QED
    BY <2>2, <2>3, <2>4, MoveTyped
<1>2. CASE PunchInsert(c)
  <2> DEFINE next == [k EXCEPT !.pc = "sum_status"]
  <2>1. next \in CallStates /\ PlacedAt(next) /\ k.rec \in Records /\ k.day \in Days
    BY <1>0, <1>2 DEF PunchInsert, CallStates, Waits, PlacedAt, OnADay
  <2>2. call' = [call EXCEPT ![c] = next]
    BY <1>2 DEF PunchInsert
  <2>3. records' \in [Days -> SUBSET Records]
    BY <1>2, <2>1 DEF PunchInsert, Typed, TypeOK
  <2> HIDE DEF next
  <2>4. call' \in [Calls -> CallStates] /\ Placed'
    BY <2>1, <2>2, CallChange
  <2> QED
    BY <1>2, <2>3, <2>4 DEF PunchInsert, Typed, TypeOK
<1>3. CASE SumStatus(c)
  <2> DEFINE on == [k EXCEPT !.pc = "sum_records"]
  <2>1. on \in CallStates /\ PlacedAt(on)
    BY <1>0, <1>3 DEF SumStatus, CallStates, Waits, PlacedAt, OnADay
  <2>2. PICK next \in AfterRecompute(k) \cup {on} : call' = [call EXCEPT ![c] = next]
    BY <1>3 DEF SumStatus
  <2>3. next \in CallStates /\ PlacedAt(next)
    BY <1>0, <2>1, <2>2, AfterRecomputeType
  <2>4. clock' \in [Days -> Nat] /\ UNCHANGED <<records, summary, month, filed, approved>>
    BY <1>3 DEF SumStatus, Typed, TypeOK
  <2> QED
    BY <2>2, <2>3, <2>4, MoveTyped
<1>4. CASE SumRecords(c)
  <2> DEFINE next == [k EXCEPT !.pc = "sum_upsert", !.seen = records[k.day]]
  <2>1. k.day \in Days /\ records[k.day] \in SUBSET Records
    BY <1>0, <1>4 DEF SumRecords, PlacedAt, OnADay, Typed, TypeOK
  <2>2. next \in CallStates /\ PlacedAt(next)
    BY <1>0, <2>1 DEF CallStates, Waits, PlacedAt, OnADay
  <2>3. call' = [call EXCEPT ![c] = next]
    BY <1>4 DEF SumRecords
  <2>4. clock' \in [Days -> Nat] /\ UNCHANGED <<records, summary, month, filed, approved>>
    BY <1>4 DEF SumRecords, Typed, TypeOK
  <2> HIDE DEF next
  <2> QED
    BY <2>2, <2>3, <2>4, MoveTyped
<1>5. CASE SumUpsert(c)
  <2> DEFINE base == [k EXCEPT !.seen = {}]
  <2>1. base \in CallStates /\ k.day \in Days /\ k.seen \in SUBSET Records
    BY <1>0, <1>5 DEF SumUpsert, CallStates, PlacedAt, OnADay
  <2>2. PICK next \in AfterRecompute(base) : call' = [call EXCEPT ![c] = next]
    BY <1>5 DEF SumUpsert
  <2> HIDE DEF base
  <2>3. call' \in [Calls -> CallStates] /\ Placed'
    BY <2>1, <2>2, AfterRecomputeType, CallChange
  <2>4. summary' \in [Days -> [status : Statuses, counted : SUBSET Records]]
    BY <1>5, <2>1 DEF SumUpsert, Typed, TypeOK, Statuses
  <2> QED
    BY <1>5, <2>3, <2>4 DEF SumUpsert, Typed, TypeOK
<1>6. CASE FileInsert(c)
  <2>1. k.fix \in Fixes /\ call' = [call EXCEPT ![c] = Idle]
    BY <1>0, <1>6 DEF FileInsert, PlacedAt
  <2>2. call' \in [Calls -> CallStates] /\ Placed'
    BY <2>1, IdleType, CallChange
  <2> QED
    BY <1>6, <2>1, <2>2 DEF FileInsert, Typed, TypeOK
<1>7. CASE CloseList(c)
  <2> DEFINE open == {d \in Days : summary[d].status = "open"}
             base == [k EXCEPT !.todo = open]
  <2>1. base \in CallStates
    BY <1>0 DEF CallStates
  <2>2. PICK next \in AfterRecompute(base) : call' = [call EXCEPT ![c] = next]
    BY <1>7 DEF CloseList
  <2> HIDE DEF base
  <2>3. next \in CallStates /\ PlacedAt(next)
    BY <2>1, <2>2, AfterRecomputeType
  <2>4. clock' \in [Days -> Nat] /\ UNCHANGED <<records, summary, month, filed, approved>>
    BY <1>7 DEF CloseList, Typed, TypeOK
  <2> QED
    BY <2>2, <2>3, <2>4, MoveTyped
<1>8. CASE CloseCommit(c) \/ ReopenCommit(c)
  <2>1. PICK s \in {"open", "closed"} : summary' = WithStatus(s) /\ month' = s
    BY <1>8 DEF CloseCommit, ReopenCommit
  <2>2. call' = [call EXCEPT ![c] = Idle] /\ UNCHANGED <<records, clock, filed, approved>>
    BY <1>8 DEF CloseCommit, ReopenCommit
  <2>3. call' \in [Calls -> CallStates] /\ Placed'
    BY <2>2, IdleType, CallChange
  <2> QED
    BY <2>1, <2>2, <2>3, WithStatusType DEF Typed, TypeOK, Statuses
<1> QED
  BY <1>1, <1>2, <1>3, <1>4, <1>5, <1>6, <1>7, <1>8 DEF Continue

LEMMA NextTyped ==
  ASSUME Typed, [Next]_vars
  PROVE  Typed'
<1>1. CASE UNCHANGED vars
  BY <1>1 DEF vars, Typed, TypeOK, Placed, PlacedAt
<1>2. ASSUME NEW c \in Calls, Crash(c)
      PROVE  Typed'
  <2>1. clock' \in [Days -> Nat] /\ UNCHANGED <<records, summary, month, filed, approved>>
        /\ call' = [call EXCEPT ![c] = Idle]
    BY <1>2 DEF Crash, Typed, TypeOK
  <2> QED
    BY <2>1, IdleType, MoveTyped
<1> QED
  BY <1>1, <1>2, StartTyped, ContinueTyped DEF Next

(* The variables keep their types and a handler its day.                    *)
THEOREM TypeCorrect == Spec => [](TypeOK /\ Placed)
<1>1. Typed /\ [Next]_vars => Typed'
  BY NextTyped
<1> QED
  BY <1>1, InitTyped, PTL DEF Spec, Typed

-----------------------------------------------------------------------------
(* Every table change of the module, by who makes it.                       *)
LEMMA StepTables ==
  ASSUME NEW c \in Calls, Start(c) \/ Continue(c) \/ Crash(c)
  PROVE  \/ UNCHANGED <<summary, month>>
         \/ SumUpsert(c)
         \/ CloseCommit(c)
         \/ ReopenCommit(c)
BY DEF Start, Continue, Crash, StartPunch, StartFile, ApproveFix, StartClose, StartReopen,
       PunchRead, PunchInsert, SumStatus, SumRecords, FileInsert, CloseList

(* A day is locked only while its month is: a recompute, which may be       *)
(* halfway in any number of handlers when the month is closed or reopened,  *)
(* writes no lock of its own.                                               *)
THEOREM LockFollowsMonth == Spec => []ClosedUnderClose
<1>1. Init => ClosedUnderClose
  BY DEF Init, ClosedUnderClose, NoSummary
<1>2. ASSUME Typed, ClosedUnderClose, [Next]_vars
      PROVE  ClosedUnderClose'
  <2>1. CASE UNCHANGED <<summary, month>>
    BY <1>2, <2>1 DEF ClosedUnderClose
  <2>2. ASSUME NEW c \in Calls, SumUpsert(c)
        PROVE  ClosedUnderClose'
    <3>1. \A d \in Days : summary'[d].status = "closed" => summary[d].status = "closed"
      BY <1>2, <2>2 DEF SumUpsert, Typed, TypeOK, Statuses
    <3>2. month' = month
      BY <2>2 DEF SumUpsert
    <3> QED
      BY <1>2, <3>1, <3>2 DEF ClosedUnderClose
  <2>3. ASSUME NEW c \in Calls, CloseCommit(c)
        PROVE  ClosedUnderClose'
    BY <2>3 DEF CloseCommit, ClosedUnderClose
  <2>4. ASSUME NEW c \in Calls, ReopenCommit(c)
        PROVE  ClosedUnderClose'
    <3>1. \A d \in Days : summary'[d].status # "closed"
      BY <1>2, <2>4 DEF ReopenCommit, WithStatus, NoSummary, Typed, TypeOK, Statuses
    <3> QED
      BY <3>1 DEF ClosedUnderClose
  <2>5. CASE Next
    <3>1. PICK c \in Calls : Start(c) \/ Continue(c) \/ Crash(c)
      BY <2>5 DEF Next
    <3> QED
      BY <2>1, <2>2, <2>3, <2>4, <3>1, StepTables
  <2>6. CASE UNCHANGED vars
    BY <2>1, <2>6 DEF vars
  <2> QED
    BY <1>2, <2>5, <2>6
<1>3. Typed /\ [Next]_vars => Typed'
  BY NextTyped
<1> QED
  BY <1>1, <1>2, <1>3, InitTyped, PTL DEF Spec

-----------------------------------------------------------------------------
(* An approval leads to a recompute or to nothing.                          *)
LEMMA ApproveStarts ==
  ASSUME Typed, NEW c \in Calls, NEW f \in Fixes, ApproveFix(c, f)
  PROVE  call'[c].pc \in {"idle", "sum_status"} /\ call'[c].closing = FALSE
<1>1. CASE FixTarget[f] = NoDay
  <2>1. call'[c] = Idle
    BY <1>1 DEF ApproveFix, Typed, TypeOK
  <2> QED
    BY <2>1 DEF Idle
<1>2. CASE FixTarget[f] # NoDay
  <2>1. call'[c] = [Idle EXCEPT !.pc = "sum_status", !.day = FixTarget[f]]
    BY <1>2 DEF ApproveFix, Typed, TypeOK
  <2> QED
    BY <2>1 DEF Idle
<1> QED
  BY <1>1, <1>2

(* A handler starts to compute a day only when it finds the day not locked. *)
LEMMA IntoComputing ==
  ASSUME Typed, NEW c \in Calls, Start(c) \/ Continue(c) \/ Crash(c),
         call'[c].pc \in Computing
  PROVE  /\ call'[c].day = call[c].day /\ summary' = summary
         /\ call[c].pc \in Computing \/ summary[call[c].day].status # "closed"
<1>1. call[c] \in CallStates /\ DOMAIN call = Calls
  BY DEF Typed, TypeOK
<1>2. CASE Crash(c)
  BY <1>1, <1>2 DEF Crash, Idle, Computing
<1>3. CASE Start(c)
  BY <1>1, <1>3, ApproveStarts DEF Start, StartPunch, StartFile, StartClose, StartReopen,
         Idle, Computing
<1>4. CASE PunchRead(c) \/ PunchInsert(c) \/ FileInsert(c) \/ CloseCommit(c)
           \/ ReopenCommit(c)
  BY <1>1, <1>4 DEF PunchRead, PunchInsert, FileInsert, CloseCommit, ReopenCommit,
         Idle, CallStates, Computing
<1>5. CASE SumStatus(c)
  <2>1. CASE summary[call[c].day].status = "closed"
    <3>1. PICK next \in AfterRecompute(call[c]) : call' = [call EXCEPT ![c] = next]
      BY <1>5, <2>1 DEF SumStatus
    <3> QED
      BY <1>1, <3>1, AfterRecomputeType
  <2>2. CASE summary[call[c].day].status # "closed"
    <3>1. call' = [call EXCEPT ![c] = [call[c] EXCEPT !.pc = "sum_records"]]
          /\ summary' = summary
      BY <1>5, <2>2 DEF SumStatus
    <3>2. call'[c].day = call[c].day
      BY <1>1, <3>1 DEF CallStates
    <3> QED
      BY <2>2, <3>1, <3>2
  <2> QED
    BY <2>1, <2>2
<1>6. CASE SumRecords(c)
  BY <1>1, <1>6 DEF SumRecords, CallStates, Computing
<1>7. CASE SumUpsert(c)
  <2> DEFINE base == [call[c] EXCEPT !.seen = {}]
  <2>1. base \in CallStates
    BY <1>1 DEF CallStates
  <2>2. PICK next \in AfterRecompute(base) : call' = [call EXCEPT ![c] = next]
    BY <1>7 DEF SumUpsert
  <2> HIDE DEF base
  <2> QED
    BY <1>1, <2>1, <2>2, AfterRecomputeType
<1>8. CASE CloseList(c)
  <2> DEFINE base == [call[c] EXCEPT !.todo = {d \in Days : summary[d].status = "open"}]
  <2>1. base \in CallStates
    BY <1>1 DEF CallStates
  <2>2. PICK next \in AfterRecompute(base) : call' = [call EXCEPT ![c] = next]
    BY <1>8 DEF CloseList
  <2> HIDE DEF base
  <2> QED
    BY <1>1, <2>1, <2>2, AfterRecomputeType
<1> QED
  BY <1>2, <1>3, <1>4, <1>5, <1>6, <1>7, <1>8 DEF Continue

-----------------------------------------------------------------------------
(* One handler at a time                                                    *)

-----------------------------------------------------------------------------
(* What the close does between its list and its commit: the days it still   *)
(* has to recompute are those on its list and the one it is at.             *)
CloseStages == {"close_list", "sum_status", "sum_records", "sum_upsert", "close_commit"}

Exact(d) == summary[d].status = "none" \/ summary[d].counted = records[d]

Closes(k) ==
  /\ k.closing => k.pc \in CloseStages /\ month # "closed"
  /\ k.pc \in {"close_list", "close_commit"} => k.closing
  /\ k.pc = "sum_upsert" => k.seen = records[k.day]
  /\ k.pc = "close_commit" => k.todo = {}
  /\ k.closing /\ k.pc # "close_list" =>
       \A d \in Days : d \in k.todo \/ Exact(d) \/ (k.pc # "close_commit" /\ d = k.day)

ClosesInOrder == \A c \in Calls : Closes(call[c])

(* After a recompute the close goes on with what its list still has.        *)
LEMMA CloseGoesOn ==
  ASSUME NEW k \in CallStates, NEW next \in AfterRecompute(k)
  PROVE  \/ ~k.closing /\ next = Idle
         \/ /\ k.closing /\ k.todo = {}
            /\ next.closing /\ next.pc = "close_commit" /\ next.todo = {}
         \/ /\ k.closing /\ next.closing /\ next.pc = "sum_status"
            /\ \A d \in k.todo : d \in next.todo \/ d = next.day
<1>1. CASE ~k.closing
  BY <1>1 DEF AfterRecompute
<1>2. CASE k.closing /\ k.todo = {}
  <2>1. next = [k EXCEPT !.pc = "close_commit"]
    BY <1>2 DEF AfterRecompute
  <2> QED
    BY <1>2, <2>1 DEF CallStates
<1>3. CASE k.closing /\ k.todo # {}
  <2>1. PICK d \in k.todo :
          next = [k EXCEPT !.pc = "sum_status", !.day = d, !.todo = @ \ {d}]
    BY <1>3 DEF AfterRecompute
  <2>2. /\ next.pc = "sum_status" /\ next.closing = k.closing
        /\ next.todo = k.todo \ {d} /\ next.day = d
    BY <2>1 DEF CallStates
  <2> QED
    BY <1>3, <2>2
<1> QED
  BY <1>1, <1>2, <1>3

LEMMA AloneCloses ==
  ASSUME OneAtATime, Typed, ClosedUnderClose, ClosesInOrder, [Next]_vars
  PROVE  ClosesInOrder'
<1>1. CASE UNCHANGED vars
  BY <1>1 DEF vars, ClosesInOrder, Closes, Exact
<1>2. CASE Next
  <2>1. PICK c \in Calls : Start(c) \/ Continue(c) \/ Crash(c)
    BY <1>2 DEF Next
  <2>2. \A d \in Calls : d = c
    BY <2>1 DEF OneAtATime
  <2> DEFINE k == call[c]
  <2>3. k \in CallStates /\ PlacedAt(k) /\ Closes(k) /\ DOMAIN call = Calls
    BY DEF Typed, TypeOK, Placed, ClosesInOrder
  <2> SUFFICES Closes(call[c])'
    BY <2>2 DEF ClosesInOrder
  <2>4. ASSUME call'[c].closing = FALSE,
               call'[c].pc \notin {"close_list", "close_commit", "sum_upsert"}
        PROVE  Closes(call[c])'
    BY <2>4 DEF Closes
  <2>5. CASE Start(c)
    <3>1. CASE StartClose(c)
      <4>1. call'[c].pc = "close_list" /\ call'[c].closing /\ month' # "closed"
        BY <2>3, <3>1 DEF StartClose, Idle
      <4> QED
        BY <4>1 DEF Closes, CloseStages
    <3>2. CASE ~StartClose(c)
      <4>1. /\ call'[c].closing = FALSE
            /\ call'[c].pc \in {"idle", "punch_read", "file_insert", "sum_status", "reopen_commit"}
        BY <2>3, <2>5, <3>2, ApproveStarts DEF Start, StartPunch, StartFile, StartReopen, Idle
      <4> QED
        BY <2>4, <4>1
    <3> QED
      BY <3>1, <3>2
  <2>6. CASE Crash(c) \/ FileInsert(c) \/ CloseCommit(c) \/ ReopenCommit(c)
    <3>1. call'[c] = Idle
      BY <2>3, <2>6 DEF Crash, FileInsert, CloseCommit, ReopenCommit
    <3> QED
      BY <2>4, <3>1 DEF Idle
  <2>7. CASE PunchRead(c) \/ PunchInsert(c)
    <3>1. k.closing = FALSE
      BY <2>3, <2>7 DEF PunchRead, PunchInsert, Closes, CloseStages, CallStates
    <3>2. call'[c].closing = FALSE /\ call'[c].pc \in {"punch_insert", "sum_status", "idle"}
      BY <2>3, <2>7, <3>1 DEF PunchRead, PunchInsert, Idle, CallStates
    <3> QED
      BY <2>4, <3>2
  <2>8. CASE SumStatus(c)
    <3>0. UNCHANGED <<records, summary, month>> /\ k.day \in Days /\ k.pc = "sum_status"
      BY <2>3, <2>8 DEF SumStatus, PlacedAt, OnADay
    <3>1. CASE summary[k.day].status = "closed"
      <4>1. PICK next \in AfterRecompute(k) : call' = [call EXCEPT ![c] = next]
        BY <2>8, <3>1 DEF SumStatus
      <4>2. ~k.closing
        BY <2>3, <3>0, <3>1 DEF ClosedUnderClose, Closes
      <4>3. next = Idle
        BY <4>1, <4>2 DEF AfterRecompute
      <4> QED
        BY <2>3, <2>4, <4>1, <4>3 DEF Idle
    <3>2. CASE summary[k.day].status # "closed"
      <4> DEFINE next == [k EXCEPT !.pc = "sum_records"]
      <4>1. call' = [call EXCEPT ![c] = next]
        BY <2>8, <3>2 DEF SumStatus
      <4>2. /\ next.pc = "sum_records" /\ next.closing = k.closing
            /\ next.todo = k.todo /\ next.day = k.day
        BY <2>3 DEF CallStates
      <4> HIDE DEF next
      <4>3. call'[c] = next
        BY <2>3, <4>1
      <4> QED
        BY <2>3, <3>0, <4>2, <4>3 DEF Closes, CloseStages, Exact
    <3> QED
      BY <3>1, <3>2
  <2>9. CASE SumRecords(c)
    <3>0. UNCHANGED <<records, summary, month>> /\ k.pc = "sum_records"
      BY <2>9 DEF SumRecords
    <3> DEFINE next == [k EXCEPT !.pc = "sum_upsert", !.seen = records[k.day]]
    <3>1. call' = [call EXCEPT ![c] = next]
      BY <2>9 DEF SumRecords
    <3>2. /\ next.pc = "sum_upsert" /\ next.closing = k.closing /\ next.todo = k.todo
          /\ next.day = k.day /\ next.seen = records[k.day]
      BY <2>3 DEF CallStates
    <3> HIDE DEF next
    <3>3. call'[c] = next
      BY <2>3, <3>1
    <3> QED
      BY <2>3, <3>0, <3>2, <3>3 DEF Closes, CloseStages, Exact
  <2>10. CASE SumUpsert(c)
    <3> DEFINE base == [k EXCEPT !.seen = {}]
    <3>0. /\ UNCHANGED <<records, month>> /\ k.pc = "sum_upsert" /\ k.day \in Days
          /\ summary'[k.day].counted = k.seen
          /\ \A d \in Days : d # k.day => summary'[d] = summary[d]
      BY <2>3, <2>10 DEF SumUpsert, PlacedAt, OnADay, Typed, TypeOK
    <3>1. base \in CallStates /\ base.closing = k.closing /\ base.todo = k.todo
      BY <2>3 DEF CallStates
    <3>2. PICK next \in AfterRecompute(base) : call' = [call EXCEPT ![c] = next]
      BY <2>10 DEF SumUpsert
    <3>3. k.closing => month # "closed" /\ \A d \in Days : d \in k.todo \/ Exact(d)'
      BY <2>3, <3>0 DEF Closes, Exact
    <3> HIDE DEF base
    <3>4. call'[c] = next
      BY <2>3, <3>2
    <3>5. CASE ~base.closing
      <4>1. call'[c] = Idle
        BY <3>1, <3>2, <3>4, <3>5, CloseGoesOn
      <4> QED
        BY <2>4, <4>1 DEF Idle
    <3>6. CASE base.closing
      BY <3>0, <3>1, <3>2, <3>3, <3>4, <3>6, CloseGoesOn DEF Closes, CloseStages
    <3> QED
      BY <3>5, <3>6
  <2>11. CASE CloseList(c)
    <3> DEFINE open == {d \in Days : summary[d].status = "open"}
               base == [k EXCEPT !.todo = open]
    <3>0. UNCHANGED <<records, summary, month>> /\ k.pc = "close_list"
      BY <2>11 DEF CloseList
    <3>1. base \in CallStates /\ base.todo = open /\ base.closing
      BY <2>3, <3>0 DEF CallStates, Closes
    <3>2. PICK next \in AfterRecompute(base) : call' = [call EXCEPT ![c] = next]
      BY <2>11 DEF CloseList
    <3>3. month # "closed"
      BY <2>3, <3>0 DEF Closes
    <3>4. \A d \in Days : d \in open \/ summary[d].status = "none"
      BY <3>3 DEF ClosedUnderClose, Typed, TypeOK, Statuses
    <3> HIDE DEF base, open
    <3>5. call'[c] = next
      BY <2>3, <3>2
    <3> QED
      BY <3>0, <3>1, <3>2, <3>3, <3>4, <3>5, CloseGoesOn DEF Closes, CloseStages, Exact
  <2> QED
    BY <2>1, <2>5, <2>6, <2>7, <2>8, <2>9, <2>10, <2>11 DEF Continue
<1> QED
  BY <1>1, <1>2

(* When handlers do not overlap, a month is closed with summaries that      *)
(* count every record of their days, whatever recompute was lost before:    *)
(* the close recomputes each day that has one and then locks them.          *)
THEOREM AloneCloseCountsAll == OneAtATime => (Spec => CloseCountsAll)
<1> SUFFICES ASSUME OneAtATime
             PROVE  Spec => CloseCountsAll
  OBVIOUS
<1> DEFINE CountsAll ==
             month # "closed" /\ month' = "closed" =>
               \A d \in Days : summary[d].status # "none" => summary'[d].counted = records[d]
<1>1. Init => ClosesInOrder /\ ClosedUnderClose
  BY DEF Init, ClosesInOrder, Closes, Idle, ClosedUnderClose, NoSummary
<1>2. ClosesInOrder /\ ClosedUnderClose /\ Typed /\ [Next]_vars => ClosesInOrder'
  BY AloneCloses
<1>3. Typed /\ [Next]_vars => Typed'
  BY NextTyped
<1>4. ASSUME ClosesInOrder, Typed, Next
      PROVE  CountsAll
  <2>1. PICK c \in Calls : Start(c) \/ Continue(c) \/ Crash(c)
    BY <1>4 DEF Next
  <2>2. CASE CloseCommit(c)
    <3>1. \A d \in Days : Exact(d)
      BY <1>4, <2>2 DEF CloseCommit, ClosesInOrder, Closes
    <3>2. \A d \in Days :
            summary[d].status # "none" => summary'[d].counted = summary[d].counted
      BY <1>4, <2>2 DEF CloseCommit, WithStatus, Typed, TypeOK
    <3> QED
      BY <3>1, <3>2 DEF Exact
  <2>3. CASE ReopenCommit(c)
    BY <2>3 DEF ReopenCommit
  <2>4. CASE SumUpsert(c)
    BY <2>4 DEF SumUpsert
  <2> QED
    BY <2>1, <2>2, <2>3, <2>4, StepTables
<1>5. ClosesInOrder /\ Typed /\ [Next]_vars => [CountsAll]_vars
  BY <1>4
<1> QED
  BY <1>1, <1>2, <1>3, <1>5, InitTyped, LockFollowsMonth, PTL DEF Spec, CloseCountsAll

-----------------------------------------------------------------------------
(* The punches of a day: where they are in turn the last one alone tells the *)
(* state that deriveState comes to.                                          *)
LEMMA RecordsPunched ==
  ASSUME NEW day \in SUBSET Records, IsFiniteSet(day)
  PROVE  \A s \in SUBSET day : Punched(s)
BY FS_Subset DEF Records, Punched

Distinct(day) == \A p, q \in day : p.at = q.at => p = q

StateAfter == [clock_in |-> "in", break_start |-> "break", break_end |-> "in", clock_out |-> "out"]

LEMMA BeforeLatest ==
  ASSUME NEW day \in SUBSET Records, IsFiniteSet(day), Distinct(day), InTurn(day),
         day # {}, day \ {Latest(day)} # {}
  PROVE  Latest(day).type \in MayFollow[Latest(day \ {Latest(day)}).type]
<1> DEFINE rest == day \ {Latest(day)}
<1>1. Latest(day) \in day /\ \A q \in day : q.at <= Latest(day).at
  BY LatestIsLast, RecordsPunched
<1>2. Latest(rest) \in rest /\ \A q \in rest : q.at <= Latest(rest).at
  BY LatestIsLast, RecordsPunched
<1>3. \A r \in day : r.at \in Nat
  BY DEF Records
<1>4. JustBefore(Latest(day), Latest(rest), day)
  <2>1. Latest(rest).at < Latest(day).at
    BY <1>1, <1>2, <1>3 DEF Distinct
  <2>2. ASSUME NEW p \in day, p.at < Latest(day).at
        PROVE  p.at <= Latest(rest).at
    <3>1. p # Latest(day)
      BY <1>1, <1>3, <2>2
    <3>2. p \in rest
      BY <3>1
    <3> QED
      BY <1>2, <3>2
  <2> QED
    BY <2>1, <2>2 DEF JustBefore
<1> QED
  BY <1>1, <1>2, <1>4 DEF InTurn

LEMMA RestInTurn ==
  ASSUME NEW day \in SUBSET Records, IsFiniteSet(day), Distinct(day), InTurn(day), day # {}
  PROVE  Distinct(day \ {Latest(day)}) /\ InTurn(day \ {Latest(day)})
<1> DEFINE rest == day \ {Latest(day)}
<1>1. Latest(day) \in day /\ \A q \in day : q.at <= Latest(day).at
  BY LatestIsLast, RecordsPunched
<1>2. \A r \in day : r.at \in Nat
  BY DEF Records
<1>3. ASSUME NEW r \in rest
      PROVE  /\ (\A q \in rest : q.at >= r.at) => \A q \in day : q.at >= r.at
             /\ \A q \in rest : JustBefore(r, q, rest) => JustBefore(r, q, day)
  BY <1>1, <1>2 DEF JustBefore
<1> QED
  BY <1>3 DEF Distinct, InTurn

LEMMA StateOfTurns ==
  ASSUME NEW day \in SUBSET Records, IsFiniteSet(day), Distinct(day), InTurn(day)
  PROVE  DeriveState(day) = IF day = {} THEN "out" ELSE StateAfter[Latest(day).type]
<1> DEFINE Good(s) ==
             StatesOf(day)[s] = IF s = {} THEN "out" ELSE StateAfter[Latest(s).type]
           Bad == {s \in SUBSET day : Distinct(s) /\ InTurn(s) /\ ~Good(s)}
<1>e. StateEquations(day)
  BY StatesEquation, RecordsPunched
<1>1. Bad = {}
  <2> SUFFICES ASSUME Bad # {}
               PROVE  FALSE
    OBVIOUS
  <2>1. PICK m \in Bad : \A u \in Bad : u \subseteq m => u = m
    <3>1. Bad \in SUBSET SUBSET day
      OBVIOUS
    <3> HIDE DEF Bad
    <3> QED
      BY <3>1, MinimalSet
  <2>2. m \in SUBSET Records /\ m \subseteq day /\ Distinct(m) /\ InTurn(m) /\ ~Good(m)
    BY <2>1
  <2>3. m # {}
    BY <1>e, <2>2 DEF StateEquations
  <2>4. IsFiniteSet(m)
    BY <2>2, FS_Subset
  <2>5. PICK last \in m : last = Latest(m) /\ \A q \in m : q.at <= last.at
    BY <2>2, <2>3, <2>4, LatestIsLast, RecordsPunched
  <2> DEFINE rest == m \ {last}
  <2>6. rest \in SUBSET day /\ rest # m /\ rest \subseteq m /\ Distinct(rest) /\ InTurn(rest)
    BY <2>2, <2>3, <2>4, <2>5, RestInTurn
  <2>7. Good(rest)
    <3>1. rest \notin Bad
      BY <2>1, <2>6
    <3> QED
      BY <2>6, <3>1
  <2>8. StatesOf(day)[m] = AfterPunch(StatesOf(day)[rest], last.type)
    BY <1>e, <2>2, <2>3, <2>5 DEF StateEquations
  <2>9. last.type \in PunchTypes
    BY <2>2, <2>5 DEF Records
  <2>10. AfterPunch(StatesOf(day)[rest], last.type) = StateAfter[last.type]
    <3>1. CASE rest = {}
      <4>1. \A q \in m : q.at >= last.at
        <5>1. m = {last}
          BY <2>5, <3>1
        <5>2. last.at \in Nat
          BY <2>2, <2>5 DEF Records
        <5> QED
          BY <5>1, <5>2
      <4>2. last.type = "clock_in"
        BY <2>2, <2>5, <4>1 DEF InTurn
      <4> QED
        BY <4>2 DEF AfterPunch, StateAfter
    <3>2. CASE rest # {}
      <4>1. last.type \in MayFollow[Latest(rest).type]
        BY <2>2, <2>3, <2>4, <2>5, <3>2, BeforeLatest
      <4>2. PICK t \in PunchTypes : t = Latest(rest).type
        <5>1. IsFiniteSet(rest) /\ rest \in SUBSET Records
          BY <2>2, <2>4, FS_Subset
        <5>2. Latest(rest) \in Records
          BY <3>2, <5>1, LatestIsLast, RecordsPunched
        <5> QED
          BY <5>2 DEF Records
      <4>3. StatesOf(day)[rest] = StateAfter[t]
        BY <2>7, <3>2, <4>2
      <4>4. PICK u \in PunchTypes : u = last.type
        BY <2>9
      <4>5. AfterPunch(StateAfter[t], u) = StateAfter[u]
        BY <4>1, <4>2, <4>4 DEF AfterPunch, StateAfter, PunchTypes, MayFollow
      <4> QED
        BY <4>3, <4>4, <4>5
    <3> QED
      BY <3>1, <3>2
  <2> QED
    BY <2>2, <2>3, <2>5, <2>8, <2>10
<1>2. day \in SUBSET day /\ Good(day)
  BY <1>1
<1>3. DeriveState(day) = StatesOf(day)[day]
  BY DeriveIsStates
<1> QED
  BY <1>2, <1>3

(* A punch the state allows, later than all others, is in turn.             *)
LEMMA NextInTurn ==
  ASSUME NEW day \in SUBSET Records, IsFiniteSet(day), Distinct(day), InTurn(day),
         NEW n \in Records, \A r \in day : r.at < n.at,
         ValidatePunch(DeriveState(day), n.type)
  PROVE  Distinct(day \cup {n}) /\ InTurn(day \cup {n})
<1>1. \A r \in day \cup {n} : r.at \in Nat
  BY DEF Records
<1>2. Distinct(day \cup {n})
  BY <1>1 DEF Distinct
<1>3. ASSUME NEW r \in day
      PROVE  /\ (\A q \in day \cup {n} : q.at >= r.at) => r.type = "clock_in"
             /\ \A q \in day \cup {n} : JustBefore(r, q, day \cup {n}) => r.type \in MayFollow[q.type]
  <2>1. ASSUME NEW q \in day \cup {n}, JustBefore(r, q, day \cup {n})
        PROVE  q \in day /\ JustBefore(r, q, day)
    BY <1>1, <2>1 DEF JustBefore
  <2> QED
    BY <2>1 DEF InTurn
<1>4. (\A q \in day \cup {n} : q.at >= n.at) => n.type = "clock_in"
  <2> SUFFICES ASSUME \A q \in day \cup {n} : q.at >= n.at
               PROVE  n.type = "clock_in"
    OBVIOUS
  <2>1. day = {}
    BY <1>1
  <2>2. DeriveState(day) = "out"
    BY <2>1, StateOfTurns
  <2>3. n.type \in PunchTypes
    BY DEF Records
  <2> QED
    BY <2>2, <2>3 DEF ValidatePunch, PunchTypes
<1>5. ASSUME NEW q \in day \cup {n}, JustBefore(n, q, day \cup {n})
      PROVE  n.type \in MayFollow[q.type]
  <2>1. q \in day /\ \A p \in day : p.at <= q.at
    BY <1>1, <1>5 DEF JustBefore
  <2>2. Latest(day) \in day /\ \A p \in day : p.at <= Latest(day).at
    BY <2>1, LatestIsLast, RecordsPunched
  <2>3. q = Latest(day)
    BY <1>1, <2>1, <2>2 DEF Distinct
  <2>4. DeriveState(day) = StateAfter[q.type]
    BY <2>1, <2>3, StateOfTurns
  <2>5. PICK t \in PunchTypes, u \in PunchTypes : t = q.type /\ u = n.type
    BY <2>1 DEF Records
  <2>6. ValidatePunch(StateAfter[t], u)
    BY <2>4, <2>5
  <2>7. u \in MayFollow[t]
    <3>1. \/ StateAfter[t] = "out" /\ u = "clock_in"
          \/ StateAfter[t] = "in" /\ u \in {"clock_out", "break_start"}
          \/ StateAfter[t] = "break" /\ u \in {"break_end", "clock_out"}
      BY <2>6 DEF ValidatePunch, PunchTypes
    <3>2. /\ t = "clock_in" => StateAfter[t] = "in"
          /\ t = "break_start" => StateAfter[t] = "break"
          /\ t = "break_end" => StateAfter[t] = "in"
          /\ t = "clock_out" => StateAfter[t] = "out"
      BY DEF StateAfter
    <3> QED
      BY <3>1, <3>2 DEF PunchTypes, MayFollow
  <2> QED
    BY <2>5, <2>7
<1> QED
  BY <1>2, <1>3, <1>4, <1>5 DEF InTurn

(* What a handler does to the punches of a day.                             *)
LEMMA Elsewhere ==
  ASSUME Typed, NEW c \in Calls, Start(c) \/ Continue(c) \/ Crash(c),
         \A d \in Days, type \in PunchTypes : ~StartPunch(c, d, type),
         \A f \in Fixes : ~ApproveFix(c, f), ~PunchRead(c), ~PunchInsert(c)
  PROVE  UNCHANGED <<records, clock>> /\ call'[c].pc \notin {"punch_read", "punch_insert"}
<1>1. call[c] \in CallStates /\ DOMAIN call = Calls
  BY DEF Typed, TypeOK
<1>2. ASSUME NEW k \in CallStates, NEW next \in AfterRecompute(k)
      PROVE  next.pc \in {"idle", "close_commit", "sum_status"}
  <2>1. CASE next = Idle
    BY <2>1 DEF Idle
  <2>2. CASE next = [k EXCEPT !.pc = "close_commit"]
    BY <2>2 DEF CallStates
  <2>3. CASE \E d \in k.todo :
               next = [k EXCEPT !.pc = "sum_status", !.day = d, !.todo = @ \ {d}]
    BY <2>3 DEF CallStates
  <2> QED
    BY <1>2, <2>1, <2>2, <2>3 DEF AfterRecompute
<1>3. CASE Start(c)
  BY <1>1, <1>3 DEF Start, StartFile, StartClose, StartReopen, Idle
<1>4. CASE Crash(c) \/ FileInsert(c) \/ CloseCommit(c) \/ ReopenCommit(c)
  BY <1>1, <1>4 DEF Crash, FileInsert, CloseCommit, ReopenCommit, Idle
<1>5. CASE SumStatus(c)
  <2>1. PICK next : /\ call' = [call EXCEPT ![c] = next] /\ UNCHANGED <<records, clock>>
                    /\ next \in AfterRecompute(call[c]) \/ next = [call[c] EXCEPT !.pc = "sum_records"]
    BY <1>5 DEF SumStatus
  <2>2. next.pc \notin {"punch_read", "punch_insert"}
    BY <1>1, <1>2, <2>1 DEF CallStates
  <2> QED
    BY <1>1, <2>1, <2>2
<1>6. CASE SumRecords(c)
  BY <1>1, <1>6 DEF SumRecords, CallStates
<1>7. CASE SumUpsert(c)
  <2> DEFINE base == [call[c] EXCEPT !.seen = {}]
  <2>1. base \in CallStates
    BY <1>1 DEF CallStates
  <2>2. /\ UNCHANGED <<records, clock>>
        /\ \E next \in AfterRecompute(base) : call' = [call EXCEPT ![c] = next]
    BY <1>7 DEF SumUpsert
  <2> HIDE DEF base
  <2> QED
    BY <1>1, <1>2, <2>1, <2>2
<1>8. CASE CloseList(c)
  <2> DEFINE base == [call[c] EXCEPT !.todo = {d \in Days : summary[d].status = "open"}]
  <2>1. base \in CallStates
    BY <1>1 DEF CallStates
  <2>2. /\ UNCHANGED <<records, clock>>
        /\ \E next \in AfterRecompute(base) : call' = [call EXCEPT ![c] = next]
    BY <1>8 DEF CloseList
  <2> HIDE DEF base
  <2> QED
    BY <1>1, <1>2, <2>1, <2>2
<1> QED
  BY <1>3, <1>4, <1>5, <1>6, <1>7, <1>8 DEF Continue

(* A day has finitely many records.                                         *)
BooksFinite == \A d \in Days : IsFiniteSet(records[d])

LEMMA NextFinite ==
  ASSUME Typed, BooksFinite, [Next]_vars
  PROVE  BooksFinite'
<1>1. ASSUME NEW d \in Days, NEW r, records' = [records EXCEPT ![d] = @ \cup {r}]
      PROVE  BooksFinite'
  <2>1. \A e \in Days : records'[e] = records[e] \/ records'[e] = records[e] \cup {r}
    BY <1>1 DEF Typed, TypeOK
  <2>2. ASSUME NEW e \in Days
        PROVE  IsFiniteSet(records[e]) /\ IsFiniteSet(records[e] \cup {r})
    BY FS_AddElement DEF BooksFinite
  <2> QED
    BY <2>1, <2>2 DEF BooksFinite
<1>2. ASSUME UNCHANGED records
      PROVE  BooksFinite'
  BY <1>2 DEF BooksFinite
<1>3. ASSUME NEW c \in Calls, NEW f \in Fixes, ApproveFix(c, f)
      PROVE  BooksFinite'
  <2>1. \A d \in Days : records'[d] = records[d] \cup FixRecords[f][d]
    BY <1>3 DEF ApproveFix
  <2>2. \A d \in Days : IsFiniteSet(records[d]) /\ IsFiniteSet(FixRecords[f][d])
    BY CloseAssumption DEF BooksFinite
  <2>3. ASSUME NEW d \in Days
        PROVE  IsFiniteSet(records[d] \cup FixRecords[f][d])
    BY <2>2, FS_Union
  <2> QED
    BY <2>1, <2>3 DEF BooksFinite
<1>4. ASSUME NEW c \in Calls, PunchInsert(c)
      PROVE  BooksFinite'
  <2>1. call[c].day \in Days
    BY <1>4 DEF PunchInsert, Typed, Placed, PlacedAt, OnADay
  <2> QED
    BY <1>1, <1>4, <2>1 DEF PunchInsert
<1>5. ASSUME NEW c \in Calls, Start(c) \/ Continue(c) \/ Crash(c)
      PROVE  BooksFinite'
  <2>1. CASE \E d \in Days, type \in PunchTypes : StartPunch(c, d, type)
    BY <1>2, <2>1 DEF StartPunch
  <2>2. CASE PunchRead(c)
    BY <1>2, <2>2 DEF PunchRead
  <2> QED
    BY <1>2, <1>3, <1>4, <1>5, <2>1, <2>2, Elsewhere
<1> QED
  BY <1>2, <1>5 DEF Next, vars

(* Only one handler: a punch under way is later than all that were stored,   *)
(* and what its check found still holds when it is stored.                   *)
Plain(day) == \A r \in day : ~r.corrected

Stamped(k) ==
  k.pc \in {"punch_read", "punch_insert"} =>
    /\ ~k.rec.corrected /\ k.rec.at <= clock[k.day]
    /\ \A r \in records[k.day] : ~r.corrected => r.at < k.rec.at

Allowed(k) ==
  k.pc = "punch_insert" /\ Plain(records[k.day]) =>
    ValidatePunch(DeriveState(records[k.day]), k.rec.type)

DayInv(d) ==
  /\ \A r \in records[d] : ~r.corrected => r.at <= clock[d]
  /\ Plain(records[d]) => Distinct(records[d]) /\ InTurn(records[d])

PunchInv ==
  /\ \A d \in Days : DayInv(d)
  /\ \A c \in Calls : Stamped(call[c]) /\ Allowed(call[c])

LEMMA InitPunches == Init => BooksFinite /\ PunchInv
<1> SUFFICES ASSUME Init
             PROVE  BooksFinite /\ PunchInv
  OBVIOUS
<1>1. \A d \in Days : records[d] = {}
  BY DEF Init
<1>2. \A c \in Calls : call[c].pc = "idle"
  BY DEF Init, Idle
<1> QED
  BY <1>1, <1>2, FS_EmptySet DEF BooksFinite, PunchInv, DayInv, Stamped, Allowed, Distinct, InTurn

LEMMA InsertPunches ==
  ASSUME OneAtATime, Typed, BooksFinite, PunchInv, NEW c \in Calls, PunchInsert(c)
  PROVE  PunchInv'
<1>1. PICK d \in Days, n \in Records :
        /\ d = call[c].day /\ n = call[c].rec
        /\ records' = [records EXCEPT ![d] = @ \cup {n}] /\ clock' = clock
  <2>1. call[c].day \in Days /\ call[c].rec \in Records
    BY DEF PunchInsert, Typed, TypeOK, CallStates, Placed, PlacedAt, OnADay
  <2> QED
    BY <2>1 DEF PunchInsert
<1>2. /\ ~n.corrected /\ n.at <= clock[d]
      /\ \A r \in records[d] : ~r.corrected => r.at < n.at
  BY <1>1 DEF PunchInv, Stamped, PunchInsert
<1>3. Plain(records[d]) => ValidatePunch(DeriveState(records[d]), n.type)
  BY <1>1 DEF PunchInv, Allowed, PunchInsert
<1>4. records[d] \in SUBSET Records /\ IsFiniteSet(records[d]) /\ DayInv(d)
  BY DEF Typed, TypeOK, BooksFinite, PunchInv
<1>5. records'[d] = records[d] \cup {n} /\ \A e \in Days : e # d => records'[e] = records[e]
  BY <1>1 DEF Typed, TypeOK
<1>6. ASSUME Plain(records'[d])
      PROVE  Distinct(records'[d]) /\ InTurn(records'[d])
  <2>1. Plain(records[d])
    BY <1>5, <1>6 DEF Plain
  <2>2. \A r \in records[d] : r.at < n.at
    BY <1>2, <2>1, Zenon DEF Plain
  <2> QED
    BY <1>3, <1>4, <1>5, <2>1, <2>2, NextInTurn DEF DayInv
<1>7. DayInv(d)'
  <2>1. \A r \in records'[d] : ~r.corrected => r.at <= clock'[d]
    <3>1. ASSUME NEW r \in records'[d], ~r.corrected
          PROVE  r.at <= clock'[d]
      BY <1>1, <1>2, <1>4, <1>5, <3>1, Zenon DEF DayInv
    <3> QED
      BY <3>1
  <2> QED
    BY <1>6, <2>1 DEF DayInv
<1>8. ASSUME NEW e \in Days, e # d
      PROVE  DayInv(e)'
  BY <1>1, <1>5, <1>8 DEF PunchInv, DayInv
<1>9. \A b \in Calls : call'[b].pc = "sum_status"
  <2>1. call[c] \in CallStates /\ DOMAIN call = Calls /\ \A b \in Calls : b = c
    BY DEF Typed, TypeOK, OneAtATime
  <2> QED
    BY <2>1 DEF PunchInsert, CallStates
<1> QED
  BY <1>7, <1>8, <1>9 DEF PunchInv, Stamped, Allowed

LEMMA StartPunches ==
  ASSUME OneAtATime, Typed, PunchInv, NEW c \in Calls, NEW d \in Days, NEW type \in PunchTypes,
         StartPunch(c, d, type)
  PROVE  PunchInv'
<1> DEFINE n == [type |-> type, at |-> clock[d] + 1, corrected |-> FALSE]
<1>1. /\ call'[c].pc = "punch_read" /\ call'[c].day = d /\ call'[c].rec = n
      /\ UNCHANGED records /\ clock' = [clock EXCEPT ![d] = @ + 1]
  BY DEF StartPunch, Idle, Typed, TypeOK
<1>2. clock \in [Days -> Nat] /\ \A e \in Days : records[e] \in SUBSET Records
  BY DEF Typed, TypeOK
<1>3. n.at = clock[d] + 1 /\ ~n.corrected
  BY Zenon
<1> HIDE DEF n
<1>4. ASSUME NEW e \in Days
      PROVE  DayInv(e)'
  <2>1. clock[e] \in Nat /\ clock'[e] \in Nat /\ clock[e] <= clock'[e]
    BY <1>1, <1>2
  <2>2. ASSUME NEW r \in records[e], ~r.corrected
        PROVE  r.at <= clock'[e]
    <3>1. r.at <= clock[e]
      BY <2>2, Zenon DEF PunchInv, DayInv
    <3>2. r.at \in Nat
      BY <1>2 DEF Records
    <3> QED
      BY <2>1, <3>1, <3>2
  <2>3. Plain(records[e]) => Distinct(records[e]) /\ InTurn(records[e])
    BY Zenon DEF PunchInv, DayInv
  <2> QED
    BY <1>1, <2>2, <2>3, Zenon DEF DayInv
<1>5. Stamped(call[c])'
  <2>1. clock'[d] = clock[d] + 1 /\ clock[d] \in Nat
    BY <1>1, <1>2
  <2>2. n.at <= clock'[d]
    BY <1>3, <2>1
  <2>3. ASSUME NEW r \in records[d], ~r.corrected
        PROVE  r.at < n.at
    <3>1. r.at <= clock[d]
      BY <2>3, Zenon DEF PunchInv, DayInv
    <3>2. r.at \in Nat
      BY <1>2 DEF Records
    <3> QED
      BY <1>3, <2>1, <3>1, <3>2
  <2> QED
    BY <1>1, <1>3, <2>2, <2>3, Zenon DEF Stamped
<1>6. \A b \in Calls : b = c
  BY DEF OneAtATime
<1> QED
  BY <1>1, <1>4, <1>5, <1>6, Zenon DEF PunchInv, Allowed

LEMMA NextPunches ==
  ASSUME OneAtATime, Typed, BooksFinite, PunchInv, [Next]_vars
  PROVE  PunchInv'
<1>1. ASSUME UNCHANGED vars
      PROVE  PunchInv'
  BY <1>1 DEF vars, PunchInv, DayInv, Stamped, Allowed, Plain
<1>2. ASSUME NEW c \in Calls, UNCHANGED <<records, clock>>,
             call'[c].pc \notin {"punch_read", "punch_insert"}
      PROVE  PunchInv'
  <2>1. \A b \in Calls : call'[b].pc \notin {"punch_read", "punch_insert"}
    BY <1>2 DEF OneAtATime
  <2> QED
    BY <1>2, <2>1 DEF PunchInv, DayInv, Stamped, Allowed, Plain
<1>3. ASSUME NEW c \in Calls, NEW f \in Fixes, ApproveFix(c, f)
      PROVE  PunchInv'
  <2>1. /\ \A d \in Days : records'[d] = records[d] \cup FixRecords[f][d]
        /\ \A d \in Days : \A r \in FixRecords[f][d] : r.corrected
        /\ clock' = clock
        /\ call'[c].pc \in {"idle", "sum_status"}
    BY <1>3, CloseAssumption DEF ApproveFix, Idle, Typed, TypeOK
  <2>2. \A b \in Calls : call'[b].pc \in {"idle", "sum_status"}
    BY <2>1 DEF OneAtATime
  <2>3. ASSUME NEW d \in Days
        PROVE  DayInv(d)'
    <3>1. records'[d] = records[d] \cup FixRecords[f][d]
      BY <2>1
    <3>2. \A r \in records'[d] : ~r.corrected => r \in records[d]
      BY <2>1, <3>1, Zenon
    <3>3. CASE FixRecords[f][d] = {}
      <4>1. records'[d] = records[d]
        BY <3>1, <3>3
      <4> QED
        BY <2>1, <4>1 DEF PunchInv, DayInv
    <3>4. CASE FixRecords[f][d] # {}
      <4>1. ~Plain(records'[d])
        BY <2>1, <3>1, <3>4, Zenon DEF Plain
      <4> QED
        BY <2>1, <3>2, <4>1, Zenon DEF PunchInv, DayInv
    <3> QED
      BY <3>3, <3>4
  <2> QED
    BY <2>2, <2>3 DEF PunchInv, Stamped, Allowed
<1>4. ASSUME NEW c \in Calls, PunchRead(c)
      PROVE  PunchInv'
  <2>1. CASE ~ValidatePunch(DeriveState(records[call[c].day]), call[c].rec.type)
    <3>1. call'[c].pc = "idle" /\ UNCHANGED <<records, clock>>
      BY <1>4, <2>1 DEF PunchRead, Idle, Typed, TypeOK
    <3> QED
      BY <1>2, <3>1
  <2>2. CASE ValidatePunch(DeriveState(records[call[c].day]), call[c].rec.type)
    <3>1. /\ call'[c].day = call[c].day /\ call'[c].rec = call[c].rec
          /\ call[c].pc = "punch_read" /\ UNCHANGED <<records, clock>>
      BY <1>4, <2>2 DEF PunchRead, CallStates, Typed, TypeOK
    <3>2. Stamped(call[c])' /\ Allowed(call[c])'
      BY <2>2, <3>1, Zenon DEF PunchInv, Stamped, Allowed
    <3>3. \A d \in Days : DayInv(d)'
      BY <3>1 DEF PunchInv, DayInv
    <3>4. \A b \in Calls : b = c
      BY DEF OneAtATime
    <3> QED
      BY <3>2, <3>3, <3>4, Zenon DEF PunchInv
  <2> QED
    BY <2>1, <2>2
<1>5. ASSUME NEW c \in Calls, Start(c) \/ Continue(c) \/ Crash(c)
      PROVE  PunchInv'
  BY <1>2, <1>3, <1>4, <1>5, Elsewhere, StartPunches, InsertPunches
<1> QED
  BY <1>1, <1>5 DEF Next

(* When handlers do not overlap, the punches of a day that was not corrected *)
(* make sense: no day starts with anything but a clock-in and none was       *)
(* entered twice, whatever is closed, reopened or lost in between.           *)
THEOREM AlonePunchesInTurn == OneAtATime => (Spec => []ValidPunches)
<1> SUFFICES ASSUME OneAtATime
             PROVE  Spec => []ValidPunches
  OBVIOUS
<1>1. Typed /\ [Next]_vars => Typed'
  BY NextTyped
<1>2. Typed /\ BooksFinite /\ [Next]_vars => BooksFinite'
  BY NextFinite
<1>3. Typed /\ BooksFinite /\ PunchInv /\ [Next]_vars => PunchInv'
  BY NextPunches
<1>4. PunchInv => ValidPunches
  BY Zenon DEF PunchInv, DayInv, Plain, ValidPunches
<1> QED
  BY <1>1, <1>2, <1>3, <1>4, InitTyped, InitPunches, PTL DEF Spec

-----------------------------------------------------------------------------
(* Facts about the steps of a handler                                       *)

LEMMA StepOfOne ==
  ASSUME Typed, NEW c \in Calls, Start(c) \/ Continue(c) \/ Crash(c)
  PROVE  /\ \A d \in Calls \ {c} : call'[d] = call[d]
         /\ \A d \in Days : records[d] \subseteq records'[d]
<1>1. CASE Start(c)
  <2>1. PICK k : call' = [call EXCEPT ![c] = k]
    BY <1>1 DEF Start, StartPunch, StartFile, ApproveFix, StartClose, StartReopen
  <2>2. \A d \in Days : records[d] \subseteq records'[d]
    <3>1. ASSUME NEW f \in Fixes, ApproveFix(c, f)
          PROVE  \A d \in Days : records[d] \subseteq records'[d]
      BY <3>1, CloseAssumption DEF ApproveFix, Typed, TypeOK
    <3> QED
      BY <1>1, <3>1 DEF Start, StartPunch, StartFile, StartClose, StartReopen
  <2> QED
    BY <2>1, <2>2 DEF Typed, TypeOK
<1>2. CASE Continue(c) \/ Crash(c)
  <2>1. \A d \in Calls \ {c} : call'[d] = call[d]
    BY <1>2 DEF Continue, Crash, PunchRead, PunchInsert, SumStatus, SumRecords, SumUpsert,
           FileInsert, CloseList, CloseCommit, ReopenCommit, Typed, TypeOK
  <2>2. \A d \in Days : records[d] \subseteq records'[d]
    BY <1>2 DEF Continue, Crash, PunchRead, PunchInsert, SumStatus, SumRecords, SumUpsert,
           FileInsert, CloseList, CloseCommit, ReopenCommit, Typed, TypeOK
  <2> QED
    BY <2>1, <2>2
<1> QED
  BY <1>1, <1>2

LEMMA StartsIdle ==
  ASSUME NEW c \in Calls, Start(c)
  PROVE  call[c].pc = "idle"
BY DEF Start, StartPunch, StartFile, ApproveFix, StartClose, StartReopen

-----------------------------------------------------------------------------
(* The punch page                                                           *)

(* A handler that works for the page has today's punch and, from its insert *)
(* on, finds it among the day's records.                                    *)
Carries(k) ==
  /\ k.pc \in OnADay /\ k.day = Today /\ ~k.closing
  /\ k.pc \notin {"punch_read", "punch_insert"} => k.rec \in records[Today]
  /\ k.pc = "sum_upsert" => k.rec \in k.seen

Served(p) == press[p].pc = "wait" => press[p].by \in Calls /\ Carries(call[press[p].by])

PressStates ==
  [pc : {"idle", "locate", "wait", "refresh", "show"}, type : PunchTypes,
   by : Calls \cup {NoCall}, seen : SUBSET Records]

PressesTyped == press \in [Presses \cup {Load} -> PressStates]

ScreenInv == Typed /\ PressesTyped /\ \A p \in Presses : Served(p)

LEMMA ScreenStepIsClose ==
  ASSUME PressesTyped, [ScreenNext]_screenVars
  PROVE  [Next]_vars
<1>1. ASSUME NEW p \in Presses, NEW c \in Calls, Post(p, c)
      PROVE  Next
  <2>1. Today \in Days /\ press[p].type \in PunchTypes
    BY ScreenAssumption DEF PressesTyped, PressStates
  <2>2. Start(c)
    BY <1>1, <2>1 DEF Post, Start
  <2> QED
    BY <2>2 DEF Next
<1>2. ASSUME NEW c \in Calls, Others(c) \/ Serve(c) \/ Lose(c)
      PROVE  Next
  BY <1>2 DEF Others, Serve, Lose, Next
<1> QED
  BY <1>1, <1>2 DEF ScreenNext, Screen, Press, Refresh, Show, screenVars

LEMMA ReleasedType == Released \in PressStates /\ Released.pc = "idle"
BY DEF Released, PressStates, PunchTypes

LEMMA InitScreen == ScreenInit => ScreenInv
<1> SUFFICES ASSUME ScreenInit
             PROVE  ScreenInv
  OBVIOUS
<1>1. [Released EXCEPT !.pc = "refresh"] \in PressStates
  BY ReleasedType DEF PressStates
<1>2. \A p \in Presses : press[p].pc = "idle"
  BY ScreenAssumption, ReleasedType DEF ScreenInit
<1>3. PressesTyped
  BY <1>1, ReleasedType DEF ScreenInit, PressesTyped
<1> QED
  BY <1>2, <1>3, InitTyped DEF ScreenInit, ScreenInv, Served

(* A handler of the page goes on with its punch, or ends.                   *)
LEMMA CarriesOn ==
  ASSUME Typed, NEW c \in Calls, Continue(c), Carries(call[c]), call'[c].pc # "idle"
  PROVE  Carries(call[c])'
<1> DEFINE k == call[c]
<1>1. k \in CallStates /\ Today \in Days /\ DOMAIN call = Calls
  BY ScreenAssumption DEF Typed, TypeOK
<1>2. k.pc \in OnADay /\ k.day = Today /\ ~k.closing
  BY DEF Carries
<1>3. CASE PunchRead(c)
  <2>1. call' = [call EXCEPT ![c] = [k EXCEPT !.pc = "punch_insert"]]
    BY <1>1, <1>3 DEF PunchRead, Idle
  <2>2. /\ call'[c].pc = "punch_insert" /\ call'[c].day = k.day
        /\ call'[c].closing = k.closing
    BY <1>1, <2>1 DEF CallStates
  <2> QED
    BY <1>2, <2>2 DEF Carries, OnADay
<1>4. CASE PunchInsert(c)
  <2>1. /\ call'[c].pc = "sum_status" /\ call'[c].day = k.day
        /\ call'[c].closing = k.closing /\ call'[c].rec = k.rec
    BY <1>1, <1>4 DEF PunchInsert, CallStates
  <2>2. k.rec \in records'[Today]
    BY <1>1, <1>2, <1>4 DEF PunchInsert, Typed, TypeOK
  <2> QED
    BY <1>2, <2>1, <2>2 DEF Carries, OnADay
<1>5. CASE SumStatus(c)
  <2>1. AfterRecompute(k) = {Idle}
    BY <1>2 DEF AfterRecompute
  <2>2. call' = [call EXCEPT ![c] = [k EXCEPT !.pc = "sum_records"]] /\ records' = records
    <3>1. CASE summary[k.day].status = "closed"
      <4>1. call' = [call EXCEPT ![c] = Idle]
        BY <1>5, <2>1, <3>1 DEF SumStatus
      <4> QED
        BY <1>1, <4>1 DEF Idle
    <3>2. CASE summary[k.day].status # "closed"
      BY <1>5, <3>2 DEF SumStatus
    <3> QED
      BY <3>1, <3>2
  <2>3. /\ call'[c].pc = "sum_records" /\ call'[c].day = k.day
        /\ call'[c].closing = k.closing /\ call'[c].rec = k.rec
    BY <1>1, <2>2 DEF CallStates
  <2>4. k.rec \in records[Today]
    BY <1>5 DEF Carries, SumStatus
  <2> QED
    BY <1>2, <2>2, <2>3, <2>4 DEF Carries, OnADay
<1>6. CASE SumRecords(c)
  <2>1. /\ call'[c].pc = "sum_upsert" /\ call'[c].day = k.day
        /\ call'[c].closing = k.closing /\ call'[c].rec = k.rec
        /\ call'[c].seen = records[k.day] /\ records' = records
    BY <1>1, <1>6 DEF SumRecords, CallStates
  <2>2. k.rec \in records[Today]
    BY <1>6 DEF Carries, SumRecords
  <2> QED
    BY <1>2, <2>1, <2>2 DEF Carries, OnADay
<1>7. CASE SumUpsert(c)
  <2> DEFINE base == [k EXCEPT !.seen = {}]
  <2>1. ~base.closing
    BY <1>1, <1>2 DEF CallStates
  <2> HIDE DEF base
  <2>2. AfterRecompute(base) = {Idle}
    BY <2>1 DEF AfterRecompute
  <2>3. call' = [call EXCEPT ![c] = Idle]
    BY <1>7, <2>2 DEF SumUpsert, base
  <2> QED
    BY <1>1, <2>3 DEF Idle
<1>8. CASE FileInsert(c) \/ CloseList(c) \/ CloseCommit(c) \/ ReopenCommit(c)
  BY <1>2, <1>8 DEF FileInsert, CloseList, CloseCommit, ReopenCommit, OnADay
<1> QED
  BY <1>3, <1>4, <1>5, <1>6, <1>7, <1>8 DEF Continue

(* When it ends without an error, the punch is in the summary or the day is  *)
(* locked.                                                                   *)
LEMMA CarriesHome ==
  ASSUME Typed, NEW c \in Calls, Continue(c), Carries(call[c]),
         call'[c].pc = "idle", call[c].pc # "punch_read"
  PROVE  call[c].rec \in summary'[Today].counted \/ summary[Today].status = "closed"
<1> DEFINE k == call[c]
<1>1. k \in CallStates /\ Today \in Days /\ DOMAIN call = Calls
  BY ScreenAssumption DEF Typed, TypeOK
<1>2. k.pc \in OnADay /\ k.day = Today
  BY DEF Carries
<1>3. CASE PunchInsert(c) \/ SumRecords(c)
  BY <1>1, <1>3 DEF PunchInsert, SumRecords, CallStates
<1>4. CASE SumStatus(c)
  <2>1. CASE summary[Today].status # "closed"
    <3>1. call' = [call EXCEPT ![c] = [k EXCEPT !.pc = "sum_records"]]
      BY <1>2, <1>4, <2>1 DEF SumStatus
    <3> QED
      BY <1>1, <3>1 DEF CallStates
  <2> QED
    BY <2>1
<1>5. CASE SumUpsert(c)
  <2>1. k.rec \in k.seen
    BY <1>5 DEF Carries, SumUpsert
  <2>2. summary'[Today].counted = k.seen
    BY <1>1, <1>2, <1>5 DEF SumUpsert, Typed, TypeOK
  <2> QED
    BY <2>1, <2>2
<1>6. CASE FileInsert(c) \/ CloseList(c) \/ CloseCommit(c) \/ ReopenCommit(c)
  BY <1>2, <1>6 DEF FileInsert, CloseList, CloseCommit, ReopenCommit, OnADay
<1> QED
  BY <1>3, <1>4, <1>5, <1>6 DEF Continue, PunchRead

LEMMA NextScreen ==
  ASSUME ScreenInv, [ScreenNext]_screenVars
  PROVE  ScreenInv'
<1> USE DEF ScreenInv
<1>1. [Next]_vars
  BY ScreenStepIsClose
<1>2. Typed'
  BY <1>1, NextTyped
<1>3. CASE UNCHANGED vars /\ UNCHANGED press
  BY <1>2, <1>3 DEF vars, PressesTyped, Served, Carries
<1>4. ASSUME NEW p \in Presses \cup {Load}, NEW k \in PressStates,
             press' = [press EXCEPT ![p] = k], k.pc # "wait", UNCHANGED vars
      PROVE  ScreenInv'
  <2>1. PressesTyped'
    BY <1>4 DEF PressesTyped
  <2>2. ASSUME NEW q \in Presses
        PROVE  Served(q)'
    <3>1. CASE q = p
      BY <1>4, <3>1 DEF PressesTyped, Served
    <3>2. CASE q # p
      BY <1>4, <3>2 DEF vars, PressesTyped, Served, Carries
    <3> QED
      BY <3>1, <3>2
  <2> QED
    BY <1>2, <2>1, <2>2
<1>5. ASSUME NEW p \in Presses, NEW type \in PunchTypes, Press(p, type)
      PROVE  ScreenInv'
  <2> DEFINE k == [Released EXCEPT !.pc = "locate", !.type = type]
  <2>1. k \in PressStates /\ k.pc = "locate"
    BY ReleasedType DEF PressStates, Released
  <2>2. press' = [press EXCEPT ![p] = k] /\ UNCHANGED vars
    BY <1>5 DEF Press
  <2> HIDE DEF k
  <2> QED
    BY <1>4, <2>1, <2>2
<1>6. ASSUME NEW p \in Presses \cup {Load}, Refresh(p)
      PROVE  ScreenInv'
  <2>1. PICK answer \in {TodaysRecords, {}} :
          press' = [press EXCEPT ![p].pc = "show", ![p].seen = answer]
    BY <1>6 DEF Refresh
  <2> DEFINE k == [press[p] EXCEPT !.pc = "show", !.seen = answer]
  <2>2. answer \in SUBSET Records
    BY ScreenAssumption DEF TodaysRecords, Typed, TypeOK
  <2>3. k \in PressStates /\ k.pc = "show"
    BY <2>2 DEF PressesTyped, PressStates
  <2>4. press' = [press EXCEPT ![p] = k] /\ UNCHANGED vars
    BY <1>6, <2>1 DEF Refresh, PressesTyped
  <2> HIDE DEF k
  <2> QED
    BY <1>4, <2>3, <2>4
<1>7. ASSUME NEW p \in Presses \cup {Load}, Show(p)
      PROVE  ScreenInv'
  BY <1>4, <1>7, ReleasedType DEF Show
<1>8. ASSUME NEW c \in Calls, Start(c), NEW q \in Presses, Served(q), UNCHANGED press[q]
      PROVE  Served(q)'
  <2>1. call[c].pc = "idle"
    BY <1>8, StartsIdle
  <2>2. press[q].pc = "wait" => press[q].by \in Calls \ {c}
    BY <1>8, <2>1 DEF Served, Carries, OnADay
  <2>3. /\ \A d \in Calls \ {c} : call'[d] = call[d]
        /\ \A d \in Days : records[d] \subseteq records'[d]
    BY <1>8, StepOfOne
  <2> QED
    BY <1>8, <2>2, <2>3, ScreenAssumption DEF Served, Carries
<1>9. ASSUME NEW c \in Calls, Others(c)
      PROVE  ScreenInv'
  BY <1>2, <1>8, <1>9 DEF Others, PressesTyped
<1>10. ASSUME NEW p \in Presses, NEW c \in Calls, Post(p, c)
       PROVE  ScreenInv'
  <2> DEFINE k == [press[p] EXCEPT !.pc = "wait", !.by = c]
  <2>1. /\ StartPunch(c, Today, press[p].type) /\ Start(c)
        /\ press' = [press EXCEPT ![p] = k]
    BY <1>10, ScreenAssumption DEF Post, Start, PressesTyped, PressStates
  <2>2. k \in PressStates /\ k.pc = "wait" /\ k.by = c
    BY DEF PressesTyped, PressStates
  <2>3. Carries(call[c])'
    BY <2>1 DEF StartPunch, Idle, Carries, OnADay, Typed, TypeOK
  <2> HIDE DEF k
  <2>4. PressesTyped'
    BY <2>1, <2>2 DEF PressesTyped
  <2>5. ASSUME NEW q \in Presses
        PROVE  Served(q)'
    <3>1. CASE q = p
      BY <2>1, <2>2, <2>3, <3>1 DEF PressesTyped, Served
    <3>2. CASE q # p
      BY <1>8, <2>1, <3>2 DEF PressesTyped
    <3> QED
      BY <3>1, <3>2
  <2> QED
    BY <1>2, <2>4, <2>5
<1>11. ASSUME NEW c \in Calls, Serve(c) \/ Lose(c)
       PROVE  ScreenInv'
  <2>1. Continue(c) \/ Crash(c)
    BY <1>11 DEF Serve, Lose
  <2>2. PICK ok \in BOOLEAN : Answered(c, ok)
    BY <1>11 DEF Serve, Lose
  <2>3. PressesTyped'
    <3>1. ASSUME NEW p \in Presses \cup {Load}
          PROVE  press'[p] \in PressStates
      <4>1. press'[p] \in {press[p], Released, [press[p] EXCEPT !.pc = "refresh", !.by = NoCall]}
        BY <2>2 DEF Answered, PressesTyped
      <4> QED
        BY <4>1, ReleasedType DEF PressesTyped, PressStates
    <3> QED
      BY <2>2, <3>1 DEF Answered, PressesTyped
  <2>4. ASSUME NEW q \in Presses, press'[q].pc = "wait"
        PROVE  press'[q].by \in Calls /\ Carries(call[press[q].by])' /\ press'[q] = press[q]
    <3>1. press'[q] = press[q] /\ ~(press[q].by = c /\ call'[c].pc = "idle")
      BY <2>2, <2>4, ReleasedType DEF Answered, PressesTyped, PressStates
    <3>2. press[q].by \in Calls /\ Carries(call[press[q].by])
      BY <2>4, <3>1 DEF Served
    <3>3. CASE press[q].by = c
      <4>1. Continue(c)
        BY <2>1, <3>1, <3>3 DEF Crash, Idle, Typed, TypeOK
      <4>2. Carries(call[c])'
        BY <3>1, <3>2, <3>3, <4>1, CarriesOn
      <4> QED
        BY <3>1, <3>3, <4>2
    <3>4. CASE press[q].by # c
      <4>1. /\ \A d \in Calls \ {c} : call'[d] = call[d]
            /\ \A d \in Days : records[d] \subseteq records'[d]
        BY <2>1, StepOfOne
      <4> QED
        BY <3>1, <3>2, <3>4, <4>1, ScreenAssumption DEF Carries
    <3> QED
      BY <3>3, <3>4
  <2> QED
    BY <1>2, <2>3, <2>4 DEF Served
<1>12. CASE ScreenNext
  BY <1>5, <1>6, <1>7, <1>9, <1>10, <1>11, <1>12 DEF ScreenNext, Screen, PressesTyped
<1> QED
  BY <1>3, <1>12 DEF screenVars

(* The page takes only the steps of the time clock behind it, so every      *)
(* property of AttendanceClose holds with any number of pages in use.       *)
THEOREM ScreenImplementsClose == ScreenSpec => Spec
<1>1. ScreenInit => Init
  BY DEF ScreenInit
<1>2. ScreenInv /\ [ScreenNext]_screenVars => [Next]_vars
  BY ScreenStepIsClose DEF ScreenInv
<1> QED
  BY <1>1, <1>2, InitScreen, NextScreen, PTL DEF ScreenSpec, Spec

(* A punch that the page reports as recorded is in the day's summary at     *)
(* that moment or the day was locked, whatever other handlers do to the     *)
(* same day.                                                                *)
THEOREM PageTellsTruth == ScreenSpec => ConfirmedIsBooked
<1> DEFINE Booked ==
             \A p \in Presses :
               Confirmed(p) =>
                 \/ call[press[p].by].rec \in summary'[Today].counted
                 \/ summary[Today].status = "closed"
<1>1. ASSUME ScreenInv, ScreenNext
      PROVE  Booked
  <2> SUFFICES ASSUME NEW p \in Presses, Confirmed(p)
               PROVE  \/ call[press[p].by].rec \in summary'[Today].counted
                      \/ summary[Today].status = "closed"
    OBVIOUS
  <2>1. press[p].pc = "wait" /\ press'[p].pc = "refresh" /\ PressesTyped
    BY <1>1 DEF Confirmed, ScreenInv
  <2>2. PICK c \in Calls : Serve(c) \/ Lose(c)
    <3>1. ASSUME NEW q \in DOMAIN press, Refresh(q) \/ Show(q)
          PROVE  FALSE
      <4>1. q = p => press[p].pc # "wait"
        BY <3>1 DEF Refresh, Show
      <4>2. q # p => press'[p] = press[p]
        BY <2>1, <3>1 DEF Refresh, Show, PressesTyped
      <4> QED
        BY <2>1, <4>1, <4>2
    <3>2. ASSUME NEW q \in Presses, \E type \in PunchTypes : Press(q, type)
          PROVE  FALSE
      <4>1. q = p => press[p].pc # "wait"
        BY <3>2 DEF Press
      <4>2. q # p => press'[p] = press[p]
        BY <2>1, <3>2 DEF Press, PressesTyped
      <4> QED
        BY <2>1, <4>1, <4>2
    <3>3. ASSUME NEW q \in Presses, \E c \in Calls : Post(q, c)
          PROVE  FALSE
      <4>1. q = p => press[p].pc # "wait"
        BY <3>3 DEF Post
      <4>2. q # p => press'[p] = press[p]
        BY <2>1, <3>3 DEF Post, PressesTyped
      <4> QED
        BY <2>1, <4>1, <4>2
    <3>4. ASSUME NEW c \in Calls, Others(c)
          PROVE  FALSE
      BY <2>1, <3>4 DEF Others
    <3> QED
      BY <1>1, <3>1, <3>2, <3>3, <3>4 DEF ScreenNext, Screen
  <2>3. press[p].by = c /\ call'[c].pc = "idle"
    BY <2>1, <2>2 DEF Serve, Lose, Answered, PressesTyped
  <2>4. CASE Lose(c)
    BY <2>1, <2>3, <2>4, ReleasedType DEF Lose, Answered, PressesTyped
  <2>5. CASE Serve(c)
    <3>1. Continue(c) /\ call[c].pc # "punch_read"
      BY <2>1, <2>3, <2>5, ReleasedType DEF Serve, Answered, PressesTyped
    <3>2. Carries(call[c]) /\ Typed
      BY <1>1, <2>1, <2>3 DEF ScreenInv, Served
    <3> QED
      BY <2>3, <3>1, <3>2, CarriesHome
  <2> QED
    BY <2>2, <2>4, <2>5
<1>2. ScreenInv /\ [ScreenNext]_screenVars => [Booked]_screenVars
  BY <1>1
<1> QED
  BY <1>2, InitScreen, NextScreen, PTL DEF ScreenSpec, ConfirmedIsBooked

(* What the page shows is a finite set of records, so it works its state out *)
(* as the server does.                                                       *)
ScreenStep(h) ==
  [s \in SUBSET shown |-> IF s = {} THEN "out"
     ELSE IF Latest(s).type = "clock_in" THEN "in"
     ELSE IF Latest(s).type = "clock_out" THEN "out"
     ELSE IF Latest(s).type = "break_start" /\ h[s \ {Latest(s)}] = "in" THEN "break"
     ELSE IF Latest(s).type = "break_end" /\ h[s \ {Latest(s)}] = "break" THEN "in"
     ELSE h[s \ {Latest(s)}]]

LEMMA StatesAgree ==
  ASSUME shown \in SUBSET Records, IsFiniteSet(shown)
  PROVE  ScreenState = DeriveState(shown)
<1>1. ScreenState = (CHOOSE h : h = ScreenStep(h))[shown]
  BY DEF ScreenState, FoldInOrder, MapThenFoldSet, ScreenStep
<1>2. ASSUME NEW h
      PROVE  ScreenStep(h) = StateStep(shown, h)
  <2>1. ASSUME NEW s \in SUBSET shown, s # {}
        PROVE  Latest(s).type \in PunchTypes
    <3>1. Latest(s) \in s
      BY <2>1, LatestIsLast, RecordsPunched
    <3> QED
      BY <3>1 DEF Records
  <2>2. ASSUME NEW type \in PunchTypes, NEW v
        PROVE  AfterPunch(v, type) =
                 IF type = "clock_in" THEN "in"
                 ELSE IF type = "clock_out" THEN "out"
                 ELSE IF type = "break_start" /\ v = "in" THEN "break"
                 ELSE IF type = "break_end" /\ v = "break" THEN "in"
                 ELSE v
    BY DEF AfterPunch, PunchTypes
  <2> QED
    BY <2>1, <2>2 DEF ScreenStep, StateStep
<1>3. (CHOOSE h : h = ScreenStep(h)) = (CHOOSE h : h = StateStep(shown, h))
  BY <1>2
<1> QED
  BY <1>1, <1>3, DeriveIsStates DEF StatesOf

ShownFinite ==
  /\ shown \in SUBSET Records /\ IsFiniteSet(shown)
  /\ \A p \in Presses \cup {Load} : IsFiniteSet(press[p].seen)

LEMMA InitShown == ScreenInit => ShownFinite
BY FS_EmptySet DEF ScreenInit, ShownFinite, Released

LEMMA NextShown ==
  ASSUME ScreenInv, BooksFinite, ShownFinite, [ScreenNext]_screenVars
  PROVE  ShownFinite'
<1>0. press \in [Presses \cup {Load} -> PressStates] /\ IsFiniteSet({})
  BY FS_EmptySet DEF ScreenInv, PressesTyped
<1>1. ASSUME UNCHANGED shown,
             \A p \in Presses \cup {Load} : press'[p].seen \in {press[p].seen, {}, records[Today]}
      PROVE  ShownFinite'
  BY <1>0, <1>1, ScreenAssumption DEF ShownFinite, BooksFinite
<1>2. ASSUME NEW p \in Presses \cup {Load}, NEW k, press' = [press EXCEPT ![p] = k],
             k.seen \in {press[p].seen, {}, records[Today]}, UNCHANGED shown
      PROVE  ShownFinite'
  BY <1>0, <1>1, <1>2
<1>3. ASSUME NEW p \in Presses, NEW type \in PunchTypes, Press(p, type)
      PROVE  ShownFinite'
  <2> DEFINE k == [Released EXCEPT !.pc = "locate", !.type = type]
  <2>1. press' = [press EXCEPT ![p] = k] /\ k.seen = {} /\ UNCHANGED shown
    BY <1>3 DEF Press, Released
  <2> HIDE DEF k
  <2> QED
    BY <1>2, <2>1
<1>4. ASSUME NEW p \in Presses, NEW c \in Calls, Post(p, c)
      PROVE  ShownFinite'
  <2> DEFINE k == [press[p] EXCEPT !.pc = "wait", !.by = c]
  <2>1. press' = [press EXCEPT ![p] = k] /\ k.seen = press[p].seen /\ UNCHANGED shown
    BY <1>0, <1>4 DEF Post, PressStates
  <2> HIDE DEF k
  <2> QED
    BY <1>2, <2>1
<1>5. ASSUME NEW p \in Presses \cup {Load}, Refresh(p)
      PROVE  ShownFinite'
  <2>1. PICK answer \in {records[Today], {}} :
          press' = [press EXCEPT ![p].pc = "show", ![p].seen = answer]
    BY <1>5 DEF Refresh, TodaysRecords
  <2> DEFINE k == [press[p] EXCEPT !.pc = "show", !.seen = answer]
  <2>2. press' = [press EXCEPT ![p] = k] /\ k.seen = answer /\ UNCHANGED shown
    BY <1>0, <1>5, <2>1 DEF Refresh, PressStates
  <2> HIDE DEF k
  <2> QED
    BY <1>2, <2>1, <2>2
<1>6. ASSUME NEW p \in Presses \cup {Load}, Show(p)
      PROVE  ShownFinite'
  <2>1. shown' = press[p].seen /\ press' = [press EXCEPT ![p] = Released]
    BY <1>6 DEF Show
  <2>2. press[p].seen \in SUBSET Records /\ IsFiniteSet(press[p].seen)
    BY <1>0 DEF PressStates, ShownFinite
  <2>3. \A q \in Presses \cup {Load} : press'[q].seen \in {press[q].seen, {}}
    BY <1>0, <2>1 DEF Released
  <2> QED
    BY <1>0, <2>1, <2>2, <2>3 DEF ShownFinite
<1>7. ASSUME NEW c \in Calls, Serve(c) \/ Lose(c)
      PROVE  ShownFinite'
  <2>1. PICK ok \in BOOLEAN : Answered(c, ok)
    BY <1>7 DEF Serve, Lose
  <2>2. ASSUME NEW p \in Presses \cup {Load}
        PROVE  press'[p].seen \in {press[p].seen, {}}
    <3>1. press'[p] \in {press[p], Released, [press[p] EXCEPT !.pc = "refresh", !.by = NoCall]}
      BY <1>0, <2>1 DEF Answered
    <3>2. [press[p] EXCEPT !.pc = "refresh", !.by = NoCall].seen = press[p].seen
      BY <1>0 DEF PressStates
    <3>3. Released.seen = {}
      BY DEF Released
    <3> QED
      BY <3>1, <3>2, <3>3, Zenon
  <2> QED
    BY <1>1, <2>1, <2>2 DEF Answered
<1>8. ASSUME UNCHANGED <<shown, press>>
      PROVE  ShownFinite'
  BY <1>1, <1>8
<1>9. CASE ScreenNext
  BY <1>0, <1>3, <1>4, <1>5, <1>6, <1>7, <1>8, <1>9 DEF ScreenNext, Screen, Others
<1> QED
  BY <1>8, <1>9 DEF screenVars

(* The page offers exactly the punches the server would take for the records *)
(* it shows, whatever they are: two programs that work the state out of the  *)
(* same records come to the same.                                            *)
THEOREM ButtonsAlwaysAgree == ScreenSpec => []ButtonsAgree
<1>1. ScreenInit => BooksFinite
  BY InitPunches DEF ScreenInit
<1>2. ScreenInv /\ [ScreenNext]_screenVars => ScreenInv'
  BY NextScreen
<1>3. ScreenInv /\ BooksFinite /\ [ScreenNext]_screenVars => BooksFinite'
  BY ScreenStepIsClose, NextFinite DEF ScreenInv
<1>4. ScreenInv /\ BooksFinite /\ ShownFinite /\ [ScreenNext]_screenVars => ShownFinite'
  BY NextShown
<1>5. ShownFinite => ButtonsAgree
  <2> SUFFICES ASSUME ShownFinite, NEW type \in PunchTypes
               PROVE  Offered(type) <=> ValidatePunch(DeriveState(shown), type)
    BY DEF ButtonsAgree
  <2>1. ScreenState = DeriveState(shown)
    BY StatesAgree DEF ShownFinite
  <2> QED
    BY <2>1 DEF Offered, ValidatePunch, PunchTypes
<1> QED
  BY <1>1, <1>2, <1>3, <1>4, <1>5, InitScreen, InitShown, PTL DEF ScreenSpec

-----------------------------------------------------------------------------
(* The summaries of a month never closed, when handlers do not overlap      *)

SumStages == {"sum_status", "sum_records", "sum_upsert"}

(* A day without a row counts nothing.                                      *)
RowsFollow == \A d \in Days : summary[d].status = "none" => summary[d].counted = {}

(* A day whose summary is behind is being computed, or nobody set about it.  *)
Counted(d) == summary[d].counted = records[d]
WorksOn(c, d) == call[c].pc \in SumStages /\ call[c].day = d

Behind ==
  month = "none" => \A d \in Days \ missed : Counted(d) \/ \E c \in Calls : WorksOn(c, d)

LEMMA NextFollows ==
  ASSUME Typed, RowsFollow, NEW c \in Calls, Start(c) \/ Continue(c) \/ Crash(c)
  PROVE  RowsFollow'
<1>1. CASE UNCHANGED <<summary, month>>
  BY <1>1 DEF RowsFollow
<1>2. CASE SumUpsert(c)
  <2>1. \A d \in Days : summary'[d] = summary[d] \/ summary'[d].status # "none"
    BY <1>2 DEF SumUpsert, Typed, TypeOK
  <2> QED
    BY <2>1 DEF RowsFollow
<1>3. CASE CloseCommit(c) \/ ReopenCommit(c)
  <2>1. PICK s \in {"open", "closed"} : summary' = WithStatus(s)
    BY <1>3 DEF CloseCommit, ReopenCommit
  <2>2. \A d \in Days : summary'[d] = IF summary[d].status = "none" THEN NoSummary
                                    ELSE [summary[d] EXCEPT !.status = s]
    BY <2>1 DEF WithStatus
  <2> QED
    BY <2>2 DEF RowsFollow, NoSummary, Typed, TypeOK
<1> QED
  BY <1>1, <1>2, <1>3, StepTables

(* One step of the only handler, with what it means for the history.        *)
MissedBy(c) ==
  \/ /\ Start(c)
     /\ missed' = missed \cup {e \in Days : records'[e] # records[e] /\ call'[c].day # e}
  \/ /\ Continue(c)
     /\ missed' = IF call[c].pc = "sum_upsert" THEN missed \ {call[c].day} ELSE missed
  \/ /\ Crash(c)
     /\ missed' = IF Recomputing(c) THEN missed \cup {call[c].day} ELSE missed

LEMMA StepBehind ==
  ASSUME OneAtATime, Typed, ClosedUnderClose, ClosesInOrder, Behind,
         NEW c \in Calls, MissedBy(c)
  PROVE  Behind'
<1> DEFINE k == call[c]
<1>1. /\ k \in CallStates /\ PlacedAt(k) /\ DOMAIN call = Calls /\ Closes(k)
  BY DEF Typed, TypeOK, Placed, ClosesInOrder
<1>2. month = "none" \/ month' # "none"
  <2>1. CASE UNCHANGED <<summary, month>>
    BY <2>1
  <2> QED
    BY <2>1, StepTables DEF MissedBy, SumUpsert, CloseCommit, ReopenCommit
<1> SUFFICES ASSUME month' = "none", NEW d \in Days, d \notin missed'
             PROVE  Counted(d)' \/ WorksOn(c, d)'
  BY DEF Behind
<1>3. d \notin missed => Counted(d) \/ WorksOn(c, d)
  BY <1>2 DEF Behind, OneAtATime
<1>4. CASE /\ Start(c)
           /\ missed' = missed \cup {e \in Days : records'[e] # records[e] /\ call'[c].day # e}
  <2>1. d \notin missed /\ (records'[d] = records[d] \/ call'[c].day = d)
    BY <1>4
  <2>2. Counted(d) /\ summary' = summary
    BY <1>3, <1>4, <2>1, StartsIdle DEF WorksOn, SumStages, Start, StartPunch, StartFile,
       ApproveFix, StartClose, StartReopen
  <2>3. CASE \E f \in Fixes : ApproveFix(c, f)
    <3>1. PICK f \in Fixes : ApproveFix(c, f)
      BY <2>3
    <3>2. CASE FixTarget[f] # NoDay
      BY <1>1, <2>1, <2>2, <3>1, <3>2 DEF ApproveFix, WorksOn, SumStages, Idle, Counted
    <3>3. CASE FixTarget[f] = NoDay
      <4>1. call'[c].day = NoDay
        BY <1>1, <3>1, <3>3 DEF ApproveFix, Idle
      <4> QED
        BY <2>1, <2>2, <4>1, CloseAssumption DEF Counted
    <3> QED
      BY <3>2, <3>3
  <2>4. CASE ~\E f \in Fixes : ApproveFix(c, f)
    <3>1. records' = records
      BY <1>4, <2>4 DEF Start, StartPunch, StartFile, StartClose, StartReopen
    <3> QED
      BY <2>2, <3>1 DEF Counted
  <2> QED
    BY <2>3, <2>4
<1>5. CASE Crash(c) /\ missed' = IF Recomputing(c) THEN missed \cup {k.day} ELSE missed
  <2>1. d \notin missed /\ ~WorksOn(c, d)
    BY <1>5 DEF WorksOn, Recomputing, SumStages
  <2> QED
    BY <1>3, <1>5, <2>1 DEF Crash, Counted
<1>6. CASE Continue(c) /\ missed' = IF k.pc = "sum_upsert" THEN missed \ {k.day} ELSE missed
  <2>1. CASE SumUpsert(c)
    <3>1. k.pc = "sum_upsert" /\ k.seen = records[k.day] /\ k.day \in Days
      BY <1>1, <2>1 DEF SumUpsert, Closes, PlacedAt, OnADay
    <3>2. CASE d = k.day
      BY <1>1, <2>1, <3>1, <3>2 DEF SumUpsert, Counted, Typed, TypeOK
    <3>3. CASE d # k.day
      <4>1. Counted(d)
        BY <1>3, <1>6, <3>1, <3>3 DEF WorksOn
      <4> QED
        BY <2>1, <3>3, <4>1 DEF SumUpsert, Counted, Typed, TypeOK
    <3> QED
      BY <3>2, <3>3
  <2>2. CASE PunchInsert(c)
    <3>1. k.day \in Days /\ d \notin missed /\ ~WorksOn(c, d)
      BY <1>1, <1>6, <2>2 DEF PunchInsert, PlacedAt, OnADay, WorksOn, SumStages
    <3>2. CASE d = k.day
      <4>1. call'[c].pc = "sum_status" /\ call'[c].day = k.day
        BY <1>1, <2>2 DEF PunchInsert, CallStates
      <4> QED
        BY <3>2, <4>1 DEF WorksOn, SumStages
    <3>3. CASE d # k.day
      BY <1>3, <2>2, <3>1, <3>3 DEF PunchInsert, Counted, Typed, TypeOK
    <3> QED
      BY <3>2, <3>3
  <2>3. CASE SumStatus(c)
    <3>0. k.day \in Days /\ d \notin missed /\ records' = records /\ summary' = summary
      BY <1>1, <1>6, <2>3 DEF SumStatus, PlacedAt, OnADay
    <3>1. summary[k.day].status # "closed"
      BY <1>2, <3>0 DEF ClosedUnderClose
    <3>2. call' = [call EXCEPT ![c] = [k EXCEPT !.pc = "sum_records"]]
      BY <2>3, <3>1 DEF SumStatus
    <3>3. call'[c].pc = "sum_records" /\ call'[c].day = k.day
      BY <1>1, <3>2 DEF CallStates
    <3> QED
      BY <1>3, <3>0, <3>3 DEF WorksOn, SumStages, Counted
  <2>4. CASE SumRecords(c)
    <3>1. /\ call'[c].pc = "sum_upsert" /\ call'[c].day = k.day /\ d \notin missed
          /\ records' = records /\ summary' = summary
      BY <1>1, <1>6, <2>4 DEF SumRecords, CallStates
    <3> QED
      BY <1>3, <3>1 DEF WorksOn, SumStages, Counted
  <2>5. CASE PunchRead(c) \/ FileInsert(c) \/ CloseList(c)
    <3>1. /\ d \notin missed /\ ~WorksOn(c, d)
          /\ records' = records /\ summary' = summary
      BY <1>6, <2>5 DEF PunchRead, FileInsert, CloseList, WorksOn, SumStages
    <3> QED
      BY <1>3, <3>1 DEF Counted
  <2>6. CASE CloseCommit(c) \/ ReopenCommit(c)
    BY <2>6 DEF CloseCommit, ReopenCommit
  <2> QED
    BY <1>6, <2>1, <2>2, <2>3, <2>4, <2>5, <2>6 DEF Continue
<1> QED
  BY <1>4, <1>5, <1>6 DEF MissedBy

historyVars == <<screenVars, missed>>

LEMMA HistorySteps ==
  ASSUME PressesTyped, [MCNext]_historyVars
  PROVE  UNCHANGED <<vars, missed>> \/ \E c \in Calls : MissedBy(c)
<1>1. CASE Screen /\ UNCHANGED missed
  <2>1. ASSUME NEW p \in Presses, NEW c \in Calls, Post(p, c)
        PROVE  MissedBy(c)
    <3>1. Today \in Days /\ press[p].type \in PunchTypes
      BY ScreenAssumption DEF PressesTyped, PressStates
    <3> QED
      BY <1>1, <2>1, <3>1 DEF Post, StartPunch, Start, MissedBy
  <2> QED
    BY <1>1, <2>1 DEF Screen, Press, Refresh, Show
<1>2. ASSUME NEW c \in Calls, Others(c),
             missed' = missed \cup {d \in Days : records'[d] # records[d] /\ call'[c].day # d}
      PROVE  MissedBy(c)
  BY <1>2 DEF Others, MissedBy
<1>3. ASSUME NEW c \in Calls, Serve(c),
             missed' = IF call[c].pc = "sum_upsert" THEN missed \ {call[c].day} ELSE missed
      PROVE  MissedBy(c)
  BY <1>3 DEF Serve, MissedBy
<1>4. ASSUME NEW c \in Calls, Lose(c),
             missed' = IF Recomputing(c) THEN missed \cup {call[c].day} ELSE missed
      PROVE  MissedBy(c)
  BY <1>4 DEF Lose, MissedBy
<1> QED
  BY <1>1, <1>2, <1>3, <1>4 DEF MCNext, historyVars, screenVars

(* When handlers do not overlap, a month never closed has, whenever nothing *)
(* is under way, the exact summary of every day but those that got a record *)
(* whose handler was lost before the recompute or recomputed another day,   *)
(* and the check before a close finds a row for each of the others that has *)
(* a record.                                                                *)
THEOREM AloneExactUnlessMissed == OneAtATime => (MCSpec => []ExactUnlessMissed)
<1> SUFFICES ASSUME OneAtATime
             PROVE  MCSpec => []ExactUnlessMissed
  OBVIOUS
<1> DEFINE Inv == ScreenInv /\ ClosedUnderClose /\ ClosesInOrder /\ RowsFollow /\ Behind
<1>1. MCInit => ScreenInit /\ RowsFollow /\ Behind
  BY DEF MCInit, ScreenInit, Init, RowsFollow, NoSummary, Behind, Counted
<1>2. ScreenInv /\ [MCNext]_historyVars => [ScreenNext]_screenVars
  BY DEF MCNext, ScreenNext, historyVars
<1>3. ScreenInv /\ [ScreenNext]_screenVars => [Next]_vars
  BY ScreenStepIsClose DEF ScreenInv
<1>4. ScreenInv /\ [MCNext]_historyVars /\ RowsFollow => RowsFollow'
  <2> SUFFICES ASSUME ScreenInv, [MCNext]_historyVars, RowsFollow
               PROVE  RowsFollow'
    OBVIOUS
  <2>1. CASE UNCHANGED <<vars, missed>>
    BY <2>1 DEF vars, RowsFollow
  <2> QED
    BY <2>1, HistorySteps, NextFollows DEF ScreenInv, MissedBy
<1>5. ScreenInv /\ ClosedUnderClose /\ ClosesInOrder /\ [MCNext]_historyVars /\ Behind => Behind'
  <2> SUFFICES ASSUME ScreenInv, ClosedUnderClose, ClosesInOrder, [MCNext]_historyVars, Behind
               PROVE  Behind'
    OBVIOUS
  <2>1. CASE UNCHANGED <<vars, missed>>
    BY <2>1 DEF vars, Behind, Counted, WorksOn
  <2> QED
    BY <2>1, HistorySteps, StepBehind DEF ScreenInv
<1>6. ScreenInv /\ ClosedUnderClose /\ RowsFollow /\ Behind => ExactUnlessMissed
  <2> SUFFICES ASSUME ScreenInv, ClosedUnderClose, RowsFollow, Behind, Quiet, month = "none"
               PROVE  /\ \A d \in Days \ missed : summary[d].counted = records[d]
                      /\ Cardinality({d \in Days \ missed : records[d] # {}})
                           <= Precheck.openSummaries
    BY DEF ExactUnlessMissed
  <2> DEFINE punched == {d \in Days \ missed : records[d] # {}}
             open == {d \in Days : summary[d].status = "open"}
  <2>1. \A d \in Days \ missed : summary[d].counted = records[d]
    BY DEF Quiet, Behind, Counted, WorksOn, SumStages
  <2>2. punched \subseteq open
    BY <2>1 DEF RowsFollow, ClosedUnderClose, ScreenInv, Typed, TypeOK, Statuses
  <2>3. IsFiniteSet(open)
    BY CloseAssumption, FS_Subset
  <2>4. Precheck.openSummaries = Cardinality(open)
    BY DEF Precheck
  <2>5. Cardinality(punched) <= Cardinality(open)
    BY <2>2, <2>3, FS_Subset
  <2> QED
    BY <2>1, <2>4, <2>5
<1>7. Init => ClosesInOrder
  BY DEF Init, ClosesInOrder, Closes, Idle
<1>8. ClosesInOrder /\ ClosedUnderClose /\ Typed /\ [Next]_vars => ClosesInOrder'
  BY AloneCloses
<1>9. ScreenInit => Init
  BY DEF ScreenInit
<1>10. ScreenInv /\ [ScreenNext]_screenVars => ScreenInv'
  BY NextScreen
<1>11. ScreenInv => Typed
  BY DEF ScreenInv
<1>12. MCSpec => MCInit /\ [][MCNext]_historyVars
  BY DEF MCSpec, historyVars
<1> QED
  BY <1>1, <1>2, <1>3, <1>4, <1>5, <1>6, <1>7, <1>8, <1>9, <1>10, <1>11, <1>12, InitScreen,
     LockFollowsMonth, PTL DEF Spec

-----------------------------------------------------------------------------
(* The CSV export                                                           *)

MemberCount == Len(Members)

(* A day found locked while nobody was computing stays as it was: whoever   *)
(* looks at it later leaves it alone. A member's days are in the file once   *)
(* the member was read.                                                     *)
Stays(base, d) ==
  /\ summary[d] = base[d]
  /\ \A c \in Calls : call[c].pc \in Computing => call[c].day # d

ReadBefore(n, d) == \E i \in 1..MemberCount : i < n /\ d \in DaysOf[Members[i]]

Faithful(x) ==
  \A d \in Days : x.basis[d].status = "closed" =>
    /\ Stays(x.basis, d)
    /\ x.pc \in {"member", "audit"} /\ ReadBefore(x.next, d) => x.file[d] = x.basis[d]

Placing(x) ==
  /\ x.pc \in {"idle", "status", "setting", "member"} => x.next \in 1..MemberCount
  /\ x.pc = "audit" => x.next = MemberCount + 1
  /\ x.pc \in {"idle", "status", "setting"} => x.next = 1

DayTable == [Days -> [status : Statuses, counted : SUBSET Records]]

ExportStates ==
  [pc : {"idle", "status", "setting", "member", "audit"}, status : Statuses, next : Nat,
   file : DayTable, basis : DayTable]

ExportsTyped == export \in [Exports -> ExportStates]

CsvInv ==
  /\ Typed /\ ExportsTyped
  /\ \A e \in Exports : Placing(export[e]) /\ Faithful(export[e])

LEMMA MemberFacts ==
  /\ MemberCount \in Nat /\ MemberCount >= 1
  /\ \A i \in 1..MemberCount : Members[i] \in Range(Members)
BY ExportAssumption DEF MemberCount

LEMMA NoExportType ==
  /\ NoExport \in ExportStates /\ Placing(NoExport) /\ Faithful(NoExport)
  /\ NoExport.pc = "idle" /\ NoExport.next = 1
  /\ \A d \in Days : NoExport.basis[d].status = "none"
BY MemberFacts DEF NoExport, ExportStates, DayTable, NoSummary, Statuses, Placing, Faithful

LEMMA InitCsv == CsvInit => CsvInv
BY InitTyped, NoExportType DEF CsvInit, CsvInv, ExportsTyped

(* The step of one export, the tables left alone.                           *)
LEMMA ExportMoves ==
  ASSUME CsvInv, NEW e \in Exports, NEW x \in ExportStates, Placing(x), Faithful(x),
         export' = [export EXCEPT ![e] = x], UNCHANGED vars
  PROVE  CsvInv'
<1>1. Typed' /\ ExportsTyped'
  BY DEF CsvInv, vars, Typed, TypeOK, Placed, PlacedAt, ExportsTyped
<1>2. ASSUME NEW f \in Exports
      PROVE  (Placing(export[f]) /\ Faithful(export[f]))'
  <2>1. export'[f] = IF f = e THEN x ELSE export[f]
    BY DEF CsvInv, ExportsTyped
  <2>2. Placing(export'[f]) /\ Faithful(export'[f])
    BY <2>1 DEF CsvInv
  <2> QED
    BY <2>2 DEF vars, Placing, Faithful, Stays
<1> QED
  BY <1>1, <1>2 DEF CsvInv

LEMMA ExportKeeps ==
  ASSUME CsvInv, NEW e \in Exports, StartExport(e) \/ ExportStep(e)
  PROVE  CsvInv'
<1> DEFINE x == export[e]
<1>1. x \in ExportStates /\ Placing(x) /\ Faithful(x)
  BY DEF CsvInv, ExportsTyped
<1>2. UNCHANGED vars
  BY DEF StartExport, ExportStep, ReadStatus, ReadSetting, ReadMember, Send
<1>3. CASE StartExport(e)
  <2> DEFINE y == [NoExport EXCEPT !.pc = "status"]
  <2>1. /\ y \in ExportStates /\ y.pc = "status" /\ y.next = 1
        /\ \A d \in Days : y.basis[d].status = "none"
    BY NoExportType DEF ExportStates
  <2>2. export' = [export EXCEPT ![e] = y]
    BY <1>3 DEF StartExport
  <2> HIDE DEF y
  <2>3. Placing(y) /\ Faithful(y)
    BY <2>1, MemberFacts DEF Placing, Faithful
  <2> QED
    BY <1>2, <2>1, <2>2, <2>3, ExportMoves
<1>4. CASE ReadStatus(e)
  <2> DEFINE locked == [d \in Days |-> IF summary[d].status = "closed"
                                         THEN summary[d] ELSE NoSummary]
             base == IF \E c \in Calls : Recompute(c) THEN x.basis ELSE locked
             y == [x EXCEPT !.pc = "setting", !.status = month, !.basis = base]
  <2>1. x.pc = "status" /\ export' = [export EXCEPT ![e] = y]
    <3>1. CASE \E c \in Calls : Recompute(c)
      BY <1>4, <3>1 DEF ReadStatus
    <3>2. CASE ~\E c \in Calls : Recompute(c)
      BY <1>4, <3>2 DEF ReadStatus
    <3> QED
      BY <3>1, <3>2
  <2>2. locked \in DayTable /\ month \in Statuses
    BY DEF CsvInv, Typed, TypeOK, DayTable, NoSummary, Statuses
  <2>3. base \in DayTable
    BY <1>1, <2>2 DEF ExportStates
  <2>4. \A d \in Days : base[d].status = "closed" => Stays(base, d)
    <3>1. CASE \E c \in Calls : Recompute(c)
      BY <1>1, <3>1 DEF Faithful, Stays
    <3>2. CASE ~\E c \in Calls : Recompute(c)
      BY <3>2 DEF Recompute, Computing, Stays, NoSummary
    <3> QED
      BY <3>1, <3>2
  <2> HIDE DEF base
  <2>5. /\ y \in ExportStates /\ y.pc = "setting" /\ y.next = x.next /\ y.basis = base
    BY <1>1, <2>2, <2>3 DEF ExportStates
  <2> HIDE DEF y
  <2>6. Placing(y)
    BY <1>1, <2>1, <2>5 DEF Placing
  <2>7. Faithful(y)
    BY <2>4, <2>5 DEF Faithful, Stays
  <2> QED
    BY <1>2, <2>1, <2>5, <2>6, <2>7, ExportMoves
<1>5. CASE ReadSetting(e)
  <2> DEFINE y == [x EXCEPT !.pc = "member", !.status = "none"]
  <2>1. x.pc = "setting" /\ \E z \in {y, NoExport} : export' = [export EXCEPT ![e] = z]
    BY <1>5 DEF ReadSetting
  <2>2. /\ y \in ExportStates /\ y.pc = "member" /\ y.next = x.next /\ y.basis = x.basis
    BY <1>1 DEF ExportStates, Statuses
  <2> HIDE DEF y
  <2>3. Placing(y)
    BY <1>1, <2>1, <2>2 DEF Placing
  <2>4. Faithful(y)
    BY <1>1, <2>1, <2>2 DEF Faithful, Stays, Placing, ReadBefore
  <2> QED
    BY <1>2, <2>1, <2>2, <2>3, <2>4, NoExportType, ExportMoves
<1>6. CASE ReadMember(e)
  <2> DEFINE rows == [d \in Days |-> IF d \in DaysOf[Members[x.next]]
                                       THEN summary[d] ELSE x.file[d]]
             stage == IF x.next = MemberCount THEN "audit" ELSE x.pc
             y == [x EXCEPT !.pc = stage, !.next = @ + 1, !.file = rows]
  <2>1. x.pc = "member" /\ export' = [export EXCEPT ![e] = y]
    BY <1>6 DEF ReadMember, MemberCount
  <2>2. rows \in DayTable
    BY <1>1 DEF CsvInv, Typed, TypeOK, DayTable, ExportStates
  <2>3. x.next \in 1..MemberCount
    BY <1>1, <2>1 DEF Placing
  <2>4. stage \in {"member", "audit"} /\ (stage = "audit" <=> x.next = MemberCount)
    BY <2>1
  <2> HIDE DEF rows, stage
  <2>5. /\ y \in ExportStates /\ y.pc = stage /\ y.next = x.next + 1
        /\ y.basis = x.basis /\ y.file = rows
    <3>1. x.next \in Nat /\ x.next + 1 \in Nat
      BY <1>1 DEF ExportStates
    <3>2. /\ y.pc = stage /\ y.next = x.next + 1 /\ y.basis = x.basis /\ y.file = rows
      BY <1>1 DEF ExportStates
    <3> QED
      BY <1>1, <2>2, <2>4, <3>1, <3>2 DEF ExportStates
  <2> HIDE DEF y
  <2>6. Placing(y)
    BY <2>3, <2>4, <2>5, MemberFacts DEF Placing
  <2>7. ASSUME NEW d \in Days, x.basis[d].status = "closed", ReadBefore(x.next + 1, d)
        PROVE  rows[d] = x.basis[d]
    <3>1. Stays(x.basis, d)
      BY <1>1, <2>7 DEF Faithful
    <3>2. CASE d \in DaysOf[Members[x.next]]
      BY <3>1, <3>2 DEF Stays, rows
    <3>3. CASE d \notin DaysOf[Members[x.next]]
      <4>1. PICK i \in 1..MemberCount : i < x.next + 1 /\ d \in DaysOf[Members[i]]
        BY <2>7 DEF ReadBefore
      <4>2. i < x.next
        BY <2>3, <3>3, <4>1, MemberFacts
      <4>3. x.file[d] = x.basis[d]
        BY <1>1, <2>1, <2>7, <4>1, <4>2 DEF Faithful, ReadBefore
      <4> QED
        BY <3>3, <4>3 DEF rows
    <3> QED
      BY <3>2, <3>3
  <2>8. Faithful(y)
    BY <1>1, <2>5, <2>7 DEF Faithful, Stays
  <2> QED
    BY <1>2, <2>1, <2>5, <2>6, <2>8, ExportMoves
<1>7. CASE Send(e)
  BY <1>2, <1>7, NoExportType, ExportMoves DEF Send
<1> QED
  BY <1>3, <1>4, <1>5, <1>6, <1>7 DEF ExportStep

(* A locked day that nobody is computing stays so until it is reopened.     *)
LEMMA LockedStays ==
  ASSUME Typed, NEW c \in Calls, Start(c) \/ Continue(c) \/ Crash(c),
         NEW base, NEW d \in Days, base[d].status = "closed", Stays(base, d),
         summary'[d].status # "open"
  PROVE  Stays(base, d)'
<1>1. /\ \A b \in Calls \ {c} : call'[b] = call[b]
      /\ call \in [Calls -> CallStates] /\ PlacedAt(call[c])
  BY StepOfOne DEF Typed, TypeOK, Placed
<1>2. summary'[d] = summary[d]
  <2>1. CASE SumUpsert(c)
    <3>1. call[c].day # d
      BY <2>1 DEF Stays, SumUpsert, Computing
    <3> QED
      BY <2>1, <3>1 DEF SumUpsert, Typed, TypeOK
  <2>2. CASE CloseCommit(c)
    <3>1. summary[d] \in [status : Statuses, counted : SUBSET Records]
          /\ summary[d].status = "closed"
      BY DEF Typed, TypeOK, Stays
    <3> QED
      BY <2>2, <3>1 DEF CloseCommit, WithStatus
  <2>3. CASE ReopenCommit(c)
    <3>1. summary'[d].status = "open"
      BY <2>3 DEF ReopenCommit, WithStatus, Stays, Typed, TypeOK
    <3> QED
      BY <3>1
  <2> QED
    BY <2>1, <2>2, <2>3, StepTables
<1>3. ASSUME call'[c].pc \in Computing
      PROVE  call'[c].day # d
  BY <1>3, IntoComputing DEF Stays
<1> QED
  BY <1>1, <1>2, <1>3 DEF Stays

LEMMA BooksKeep ==
  ASSUME CsvInv, Books
  PROVE  CsvInv'
<1>1. PICK c \in Calls : Start(c) \/ Continue(c) \/ Crash(c)
  BY DEF Books, Next
<1>2. Typed'
  BY NextTyped DEF CsvInv, Books
<1> DEFINE reopened == \E d \in Days : summary[d].status = "closed" /\ summary'[d].status = "open"
<1>3. CASE reopened
  <2>1. export' = [e \in Exports |-> [export[e] EXCEPT !.basis = NoExport.basis]]
    BY <1>3 DEF Books, Track
  <2>2. NoExport.basis \in DayTable /\ \A d \in Days : NoExport.basis[d].status = "none"
    BY NoExportType DEF ExportStates
  <2>3. ASSUME NEW e \in Exports
        PROVE  export'[e] \in ExportStates /\ Placing(export'[e]) /\ Faithful(export[e])'
    <3>1. /\ export[e] \in ExportStates /\ Placing(export[e])
          /\ export'[e] = [export[e] EXCEPT !.basis = NoExport.basis]
      BY <2>1 DEF CsvInv, ExportsTyped
    <3>2. /\ export'[e] \in ExportStates /\ export'[e].pc = export[e].pc
          /\ export'[e].next = export[e].next /\ export'[e].basis = NoExport.basis
      BY <2>2, <3>1 DEF ExportStates
    <3> QED
      BY <2>2, <3>1, <3>2 DEF Placing, Faithful
  <2>4. ExportsTyped'
    BY <2>1, <2>3 DEF ExportsTyped
  <2> QED
    BY <1>2, <2>3, <2>4 DEF CsvInv, Placing
<1>4. CASE ~reopened
  <2>1. export' = export
    BY <1>4 DEF Books, Track
  <2>2. ASSUME NEW e \in Exports, NEW d \in Days, export[e].basis[d].status = "closed"
        PROVE  Stays(export[e].basis, d)'
    <3>1. Stays(export[e].basis, d) /\ summary[d].status = "closed"
      BY <2>2 DEF CsvInv, Faithful, Stays
    <3>2. summary'[d].status # "open"
      BY <1>4, <3>1
    <3>3. summary'[d] = summary[d] /\ \A b \in Calls : call'[b].pc \in Computing => call'[b].day # d
      BY <1>1, <2>2, <3>1, <3>2, LockedStays DEF CsvInv, Stays
    <3> QED
      BY <2>1, <3>1, <3>3 DEF Stays
  <2>3. ASSUME NEW e \in Exports
        PROVE  (Placing(export[e]) /\ Faithful(export[e]))'
    BY <2>1, <2>2, <2>3 DEF CsvInv, Placing, Faithful
  <2> QED
    BY <1>2, <2>1, <2>3 DEF CsvInv, ExportsTyped
<1> QED
  BY <1>3, <1>4

LEMMA NextCsv ==
  ASSUME CsvInv, [CsvNext]_csvVars
  PROVE  CsvInv'
<1>1. CASE UNCHANGED csvVars
  BY <1>1 DEF csvVars, vars, CsvInv, Typed, TypeOK, Placed, PlacedAt, ExportsTyped,
         Placing, Faithful, Stays
<1> QED
  BY <1>1, BooksKeep, ExportKeeps DEF CsvNext

(* With exports going on, the time clock still takes only its own steps.    *)
THEOREM ExportImplementsClose == CsvSpec => Init /\ [][Next]_vars
<1>1. CsvInit => Init
  BY DEF CsvInit
<1>2. [CsvNext]_csvVars => [Next]_vars
  BY DEF CsvNext, Books, StartExport, ExportStep, ReadStatus, ReadSetting, ReadMember, Send,
         csvVars
<1> QED
  BY <1>1, <1>2, PTL DEF CsvSpec

(* A file has every locked day of every member as the close locked it,      *)
(* however many exports, members and handlers there are and whatever runs   *)
(* between two of the export's queries, unless the month is reopened.       *)
THEOREM FilesAsLocked == CsvSpec => []FileAsLocked
<1>1. CsvInv => FileAsLocked
  <2> SUFFICES ASSUME CsvInv, NEW e \in Exports, export[e].pc = "audit", NEW d \in Days,
                      export[e].basis[d].status = "closed"
               PROVE  export[e].file[d] = export[e].basis[d]
    BY DEF FileAsLocked
  <2>1. export[e].next = MemberCount + 1 /\ Faithful(export[e])
    BY DEF CsvInv, Placing
  <2>2. ReadBefore(export[e].next, d)
    BY <2>1, MemberFacts, ExportAssumption DEF ReadBefore, MemberCount
  <2> QED
    BY <2>1, <2>2 DEF Faithful
<1> QED
  BY <1>1, InitCsv, NextCsv, PTL DEF CsvSpec
=============================================================================
