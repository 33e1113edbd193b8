----------------------------- MODULE LeaveLedger -----------------------------
(***************************************************************************)
(* Leave balances: applyEffects of approvals.service.ts consumes them when  *)
(* a leave request gets its final approval, grant of leave.module.ts adds   *)
(* to them. The module goes below the granularity of RequestWorkflow, into  *)
(* the transaction: its statements run at READ COMMITTED, so a query sees   *)
(* what others committed before it, an update waits for the row's lock and  *)
(* then writes the value computed from the earlier query, and locks are     *)
(* held until the end.                                                      *)
(*                                                                          *)
(* Rows are the balance rows of one user and leave type in order of expiry; *)
(* one with nothing granted stands for a row not created yet.               *)
(***************************************************************************)
EXTENDS Integers, FiniteSets, FiniteSetsExt

CONSTANTS LastRow,      \* number of balance rows
          Requests,     \* leave requests against these balances
          Minutes,      \* Minutes[r]: computeLeaveMinutes of the request
          Calls,        \* approvals that may be in flight at the same time
          MaxDecisions, \* bound: final approvals started per request
          Granted,      \* Granted[b]: granted minutes at the start
          GrantOptions, \* amounts granted in one call
          MaxGranted,   \* bound of granted minutes per row
          MayFail,      \* whether a transaction may be rolled back
          NoRequest     \* an idle call's request

Rows == 1..LastRow

ASSUME LedgerAssumption ==
  /\ LastRow \in Nat /\ IsFiniteSet(Requests)
  /\ Minutes \in [Requests -> Int]
  /\ Granted \in [Rows -> Nat]
  /\ GrantOptions \subseteq Nat
  /\ MaxDecisions \in Nat /\ MaxGranted \in Nat
  /\ MayFail \in BOOLEAN
  /\ NoRequest \notin Requests

VARIABLES granted,  \* leave_balance.granted_minutes
          used,     \* leave_balance.used_minutes
          started,  \* final approvals started by request
          taken,    \* history: minutes taken by committed approvals
          tx        \* the transactions

vars == <<granted, used, started, taken, tx>>

None == -1  \* no value written to a row yet

Idle == [pc |-> "idle", req |-> NoRequest, avail |-> [b \in Rows |-> 0],
         read |-> [b \in Rows |-> 0], row |-> 1, remaining |-> 0,
         write |-> [b \in Rows |-> None]]

Init ==
  /\ granted = Granted
  /\ used = [b \in Rows |-> 0]
  /\ started = [r \in Requests |-> 0]
  /\ taken = [r \in Requests |-> 0]
  /\ tx = [c \in Calls |-> Idle]

(* computeLeaveMinutes, without fractions of a minute: a field the unit does *)
(* not ask for is not looked at, one that is missing has a default.         *)
LeaveMinutes(payload, unit, scheduled) ==
  LET field(f, default) == IF f \in DOMAIN payload THEN payload[f] ELSE default IN
  CASE unit = "hour" -> field("hours", 0) * 60
    [] unit = "half" -> field("halfCount", field("half", 0)) * (scheduled \div 2)
    [] OTHER -> field("days", 1) * scheduled

LesserOf(m, n) == IF m <= n THEN m ELSE n

(* The row locks: a transaction holds those of the rows it has written, and *)
(* that of the approval it decides from its first statement on.             *)
RowLocked(b) == \E c \in Calls : tx[c].write[b] # None
Decided(r) == \E c \in Calls : tx[c].req = r /\ tx[c].pc # "begin"

-----------------------------------------------------------------------------
(* A handler that passed the checks of act opens its transaction.           *)
StartApproval(c, r) ==
  /\ tx[c].pc = "idle"
  /\ started[r] < MaxDecisions
  /\ started' = [started EXCEPT ![r] = @ + 1]
  /\ tx' = [tx EXCEPT ![c] = [Idle EXCEPT !.pc = "begin", !.req = r]]
  /\ UNCHANGED <<granted, used, taken>>

(* approval.update and request.update: the rows of the request.             *)
WriteDecision(c) ==
  /\ tx[c].pc = "begin"
  /\ ~Decided(tx[c].req)
  /\ tx' = [tx EXCEPT ![c].pc = "read"]
  /\ UNCHANGED <<granted, used, started, taken>>

(* leaveBalance.findMany; what is left of each row is worked out from it.   *)
ReadBalances(c) ==
  LET k == tx[c] IN
  /\ k.pc = "read"
  /\ tx' = [tx EXCEPT ![c] =
       [k EXCEPT !.pc = "consume", !.remaining = Minutes[k.req], !.read = used,
                 !.avail = [b \in Rows |-> granted[b] - used[b]]]]
  /\ UNCHANGED <<granted, used, started, taken>>

Consuming(c) == tx[c].pc = "consume" /\ tx[c].remaining > 0 /\ tx[c].row \in Rows

SkipRow(c) ==
  /\ Consuming(c)
  /\ tx[c].avail[tx[c].row] <= 0
  /\ tx' = [tx EXCEPT ![c].row = @ + 1]
  /\ UNCHANGED <<granted, used, started, taken>>

(* mutants: the whole rest is taken from a row; only half of what is left;  *)
(* what was left of the row counts as taken; the rows are not taken in one  *)
(* order                                                                    *)
TakeAllFromRow(c) ==
  LET k == tx[c] IN
  /\ Consuming(c)
  /\ k.avail[k.row] > 0
  /\ ~RowLocked(k.row)
  /\ tx' = [tx EXCEPT ![c] =
       [k EXCEPT !.write[k.row] = k.read[k.row] + k.remaining, !.remaining = 0,
                 !.row = @ + 1]]
  /\ UNCHANGED <<granted, used, started, taken>>

TakeHalfOfRow(c) ==
  LET k == tx[c]
      amount == LesserOf((k.avail[k.row] + 1) \div 2, k.remaining)
  IN
  /\ Consuming(c)
  /\ k.avail[k.row] > 0
  /\ ~RowLocked(k.row)
  /\ tx' = [tx EXCEPT ![c] =
       [k EXCEPT !.write[k.row] = k.read[k.row] + amount,
                 !.remaining = @ - amount, !.row = @ + 1]]
  /\ UNCHANGED <<granted, used, started, taken>>

TakeMiscounted(c) ==
  LET k == tx[c]
      amount == LesserOf(k.avail[k.row], k.remaining)
  IN
  /\ Consuming(c)
  /\ k.avail[k.row] > 0
  /\ ~RowLocked(k.row)
  /\ tx' = [tx EXCEPT ![c] =
       [k EXCEPT !.write[k.row] = k.read[k.row] + amount,
                 !.remaining = @ - k.avail[k.row], !.row = @ + 1]]
  /\ UNCHANGED <<granted, used, started, taken>>

TakeFromAnyRow(c) ==
  LET k == tx[c] IN
  /\ Consuming(c)
  /\ \E b \in Rows :
       LET amount == LesserOf(k.avail[b], k.remaining) IN
       /\ k.avail[b] > 0 /\ k.write[b] = None
       /\ ~RowLocked(b)
       /\ tx' = [tx EXCEPT ![c] =
            [k EXCEPT !.write[b] = k.read[b] + amount, !.remaining = @ - amount,
                      !.row = @ + 1]]
  /\ UNCHANGED <<granted, used, started, taken>>

(* leaveBalance.update with a value computed from the query's row.          *)
TakeFromRow(c) ==
  LET k == tx[c]
      amount == LesserOf(k.avail[k.row], k.remaining)
  IN
  /\ Consuming(c)
  /\ k.avail[k.row] > 0
  /\ ~RowLocked(k.row)
  /\ tx' = [tx EXCEPT ![c] =
       [k EXCEPT !.write[k.row] = k.read[k.row] + amount,
                 !.remaining = @ - amount, !.row = @ + 1]]
  /\ UNCHANGED <<granted, used, started, taken>>

Done(c) == tx[c].pc = "consume" /\ ~Consuming(c)

(* Notification, audit record and COMMIT. A request for more than there is  *)
(* takes what there is.                                                     *)
Commit(c) ==
  LET k == tx[c]
      rest == IF k.remaining > 0 THEN k.remaining ELSE 0
      total == IF Minutes[k.req] > 0 THEN Minutes[k.req] ELSE 0
  IN
  /\ Done(c)
  /\ used' = [b \in Rows |-> IF k.write[b] = None THEN used[b] ELSE k.write[b]]
  /\ taken' = [taken EXCEPT ![k.req] = @ + total - rest]
  /\ tx' = [tx EXCEPT ![c] = Idle]
  /\ UNCHANGED <<granted, started>>

Rollback(c) ==
  /\ MayFail
  /\ tx[c].pc # "idle"
  /\ tx' = [tx EXCEPT ![c] = Idle]
  /\ UNCHANGED <<granted, used, started, taken>>

(* grant: one upsert that adds to the row's own value.                      *)
Grant(b, n) ==
  /\ ~RowLocked(b)
  /\ granted[b] + n <= MaxGranted
  /\ granted' = [granted EXCEPT ![b] = @ + n]
  /\ UNCHANGED <<used, started, taken, tx>>

-----------------------------------------------------------------------------
Continue(c) ==
  \/ WriteDecision(c)
  \/ ReadBalances(c)
  \/ SkipRow(c)
  \/ TakeFromRow(c)
  \/ Commit(c)

Next ==
  \/ \E c \in Calls, r \in Requests : StartApproval(c, r)
  \/ \E c \in Calls : Continue(c) \/ Rollback(c)
  \/ \E b \in Rows, n \in GrantOptions : Grant(b, n)

Spec == Init /\ [][Next]_vars

(* PostgreSQL runs every statement whose lock is free.                      *)
FairSpec == Spec /\ \A c \in Calls : WF_vars(Continue(c))

-----------------------------------------------------------------------------
(* Properties                                                               *)

TxStates ==
  [pc : {"idle", "begin", "read", "consume"}, req : Requests \cup {NoRequest},
   avail : [Rows -> Int], read : [Rows -> Nat], row : Nat, remaining : Int,
   write : [Rows -> Nat \cup {None}]]

TypeOK ==
  /\ granted \in [Rows -> Nat]
  /\ used \in [Rows -> Nat]
  /\ started \in [Requests -> Nat]
  /\ taken \in [Requests -> Nat]
  /\ tx \in [Calls -> TxStates]

(* No balance goes negative: what is used of a row was granted, although an *)
(* approval writes a value worked out from a query that other approvals and *)
(* grants may have outdated.                                                *)
UsedWithinGranted == \A b \in Rows : used[b] <= granted[b]

Total(f) == MapThenSumSet(LAMBDA x : f[x], DOMAIN f)

(* What approved requests took is what the balances say was used: no        *)
(* approval overwrites the consumption of another.                          *)
NothingLost == Total(used) = Total(taken)

(* An approval draws on a row only when it has emptied, as far as it can    *)
(* see, every row that expires before it.                                   *)
EarliestFirst ==
  \A c \in Calls : \A a, b \in Rows :
    a < b /\ tx[c].write[b] # None /\ tx[c].avail[a] > 0
      => tx[c].write[a] = tx[c].read[a] + tx[c].avail[a]

TakenFrom(c) ==
  [b \in Rows |-> IF tx[c].write[b] = None THEN 0 ELSE tx[c].write[b] - tx[c].read[b]]

(* What an approval adds to the rows and what it has still to find make up  *)
(* the request, however many rows it is spread over.                        *)
SpendsExactly ==
  \A c \in Calls :
    tx[c].pc = "consume" =>
      Total(TakenFrom(c)) + tx[c].remaining = Minutes[tx[c].req]

(* Approvals of the same balances do not wait for each other forever: every *)
(* one takes the rows' locks in the order of expiry.                        *)
ApprovalsEnd == \A c \in Calls : tx[c].pc = "begin" ~> tx[c].pc = "idle"
=============================================================================
