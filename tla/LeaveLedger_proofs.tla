------------------------- MODULE LeaveLedger_proofs -------------------------
(***************************************************************************)
(* No balance is overdrawn, for any number of balance rows, requests,       *)
(* approvals in flight and grants. An approval works with what it read; the *)
(* argument is that granted minutes only grow, so what it read as left of a *)
(* row, added to what it read as used, stays within what is granted. Each   *)
(* approval also empties the rows in the order of their expiry: the rows    *)
(* behind it are emptied as long as it has still something to find, and     *)
(* what it took from them and has still to find make up its request. With   *)
(* the notifications on top the ledger takes the same steps, and each       *)
(* committed approval has one notification.                                 *)
(***************************************************************************)
EXTENDS DecisionMail, Folding_proofs

(* What a transaction may write to a row is within what is granted.         *)
Bounded(c) ==
  \A b \in Rows :
    /\ tx[c].pc = "consume" => tx[c].read[b] + tx[c].avail[b] <= granted[b]
    /\ tx[c].write[b] <= granted[b]

(* It takes at most what its request asks for.                              *)
Owed(c) ==
  /\ tx[c].pc # "idle" => tx[c].req \in Requests
  /\ tx[c].pc = "consume" => tx[c].remaining <= Minutes[tx[c].req]

LedgerInv == TypeOK /\ UsedWithinGranted /\ \A c \in Calls : Bounded(c) /\ Owed(c)

LEMMA RowsAreNat == Rows \subseteq Nat /\ 1 \in Nat
BY LedgerAssumption DEF Rows

LEMMA IdleType == Idle \in TxStates
BY DEF Idle, TxStates, None

LEMMA IdleBounded ==
  ASSUME TypeOK, NEW c \in Calls, tx'[c] = Idle, granted' = granted
  PROVE  Bounded(c)' /\ Owed(c)'
BY DEF Bounded, Owed, Idle, None, TypeOK

LEMMA InitLedger == Init => LedgerInv
<1> SUFFICES ASSUME Init
             PROVE  LedgerInv
  OBVIOUS
<1>1. TypeOK
  BY IdleType, LedgerAssumption DEF Init, TypeOK
<1>2. UsedWithinGranted
  BY LedgerAssumption DEF Init, UsedWithinGranted
<1>3. \A c \in Calls : Bounded(c) /\ Owed(c)
  BY LedgerAssumption DEF Init, Bounded, Owed, Idle, None
<1> QED
  BY <1>1, <1>2, <1>3 DEF LedgerInv

(* A transaction that moves on without touching the balances.               *)
LEMMA TxStep ==
  ASSUME LedgerInv, NEW c \in Calls, NEW k \in TxStates,
         tx' = [tx EXCEPT ![c] = k],
         UNCHANGED <<granted, used, taken>>,
         started' \in [Requests -> Nat],
         Bounded(c)', Owed(c)'
  PROVE  LedgerInv'
<1>1. TypeOK'
  BY DEF LedgerInv, TypeOK
<1>2. UsedWithinGranted'
  BY DEF LedgerInv, UsedWithinGranted
<1>3. ASSUME NEW d \in Calls, d # c
      PROVE  Bounded(d)' /\ Owed(d)'
  BY <1>3 DEF LedgerInv, TypeOK, Bounded, Owed
<1> QED
  BY <1>1, <1>2, <1>3 DEF LedgerInv

LEMMA StartLedger ==
  ASSUME LedgerInv, NEW c \in Calls, NEW r \in Requests, StartApproval(c, r)
  PROVE  LedgerInv'
<1> DEFINE k == [Idle EXCEPT !.pc = "begin", !.req = r]
<1>1. k \in TxStates /\ k.pc = "begin" /\ k.req = r /\ k.write = [b \in Rows |-> None]
  BY IdleType DEF Idle, TxStates
<1>2. tx' = [tx EXCEPT ![c] = k] /\ UNCHANGED <<granted, used, taken>>
  BY DEF StartApproval
<1>3. started' \in [Requests -> Nat]
  BY DEF StartApproval, LedgerInv, TypeOK
<1> HIDE DEF k
<1>4. Bounded(c)' /\ Owed(c)'
  BY <1>1, <1>2 DEF Bounded, Owed, LedgerInv, TypeOK, None
<1> QED
  BY <1>1, <1>2, <1>3, <1>4, TxStep

LEMMA CommitLedger ==
  ASSUME LedgerInv, NEW c \in Calls, Commit(c)
  PROVE  LedgerInv'
<1> DEFINE k == tx[c]
<1>0. k \in TxStates /\ Bounded(c) /\ Owed(c) /\ k.pc = "consume" /\ used \in [Rows -> Nat] /\ granted \in [Rows -> Nat]
  BY DEF LedgerInv, TypeOK, Commit, Done
<1>1. UNCHANGED <<granted, started>> /\ tx' = [tx EXCEPT ![c] = Idle]
  BY DEF Commit
<1>2. \A b \in Rows : used'[b] \in Nat /\ used'[b] <= granted[b]
  <2> SUFFICES ASSUME NEW b \in Rows
               PROVE  used'[b] \in Nat /\ used'[b] <= granted[b]
    OBVIOUS
  <2>1. used'[b] = IF k.write[b] = None THEN used[b] ELSE k.write[b]
    BY DEF Commit
  <2>2. k.write[b] \in Nat \cup {None} /\ k.write[b] <= granted[b]
    BY <1>0 DEF Bounded, TxStates
  <2>3. used[b] \in Nat /\ used[b] <= granted[b]
    BY <1>0 DEF LedgerInv, UsedWithinGranted
  <2> QED
    BY <2>1, <2>2, <2>3
<1>3. used' \in [Rows -> Nat]
  BY <1>2 DEF Commit
<1>4. taken' \in [Requests -> Nat]
  <2> DEFINE rest == IF k.remaining > 0 THEN k.remaining ELSE 0
             total == IF Minutes[k.req] > 0 THEN Minutes[k.req] ELSE 0
  <2>1. taken' = [taken EXCEPT ![k.req] = @ + total - rest]
    BY DEF Commit
  <2>2. /\ k.req \in Requests /\ k.remaining \in Int /\ Minutes[k.req] \in Int
        /\ k.remaining <= Minutes[k.req]
    BY <1>0, LedgerAssumption DEF TxStates, Owed
  <2>3. rest \in Nat /\ total \in Nat /\ rest <= total
    BY <2>2
  <2> HIDE DEF rest, total
  <2>4. \A r \in Requests : taken[r] \in Nat /\ taken[r] + total - rest \in Nat
    BY <2>3 DEF LedgerInv, TypeOK
  <2> QED
    BY <2>1, <2>2, <2>4 DEF LedgerInv, TypeOK
<1>5. TypeOK'
  BY <1>1, <1>3, <1>4, IdleType DEF LedgerInv, TypeOK
<1>6. UsedWithinGranted'
  BY <1>1, <1>2 DEF UsedWithinGranted
<1>7. ASSUME NEW d \in Calls
      PROVE  Bounded(d)' /\ Owed(d)'
  <2>1. CASE d = c
    BY <1>1, <2>1, IdleBounded DEF LedgerInv, TypeOK
  <2>2. CASE d # c
    BY <1>1, <2>2 DEF LedgerInv, TypeOK, Bounded, Owed
  <2> QED
    BY <2>1, <2>2
<1> QED
  BY <1>5, <1>6, <1>7 DEF LedgerInv

LEMMA TakeLedger ==
  ASSUME LedgerInv, NEW c \in Calls, TakeFromRow(c)
  PROVE  LedgerInv'
<1> DEFINE k == tx[c]
           b == k.row
           amount == LesserOf(k.avail[b], k.remaining)
           next == [k EXCEPT !.write[b] = k.read[b] + amount,
                             !.remaining = @ - amount, !.row = @ + 1]
<1>0. /\ k \in TxStates /\ Bounded(c) /\ Owed(c)
      /\ k.pc = "consume" /\ b \in Rows /\ k.remaining > 0 /\ k.avail[b] > 0
      /\ tx' = [tx EXCEPT ![c] = next] /\ UNCHANGED <<granted, used, started, taken>>
  BY DEF LedgerInv, TypeOK, TakeFromRow, Consuming
<1>1. /\ k.remaining \in Int /\ k.avail[b] \in Int /\ k.read[b] \in Nat
      /\ b \in Nat /\ granted[b] \in Nat
  BY <1>0, RowsAreNat DEF TxStates, LedgerInv, TypeOK
<1>2. amount \in Nat /\ amount <= k.avail[b] /\ amount <= k.remaining
  BY <1>0, <1>1 DEF LesserOf
<1> HIDE DEF amount
<1>3. k.read[b] + amount \in Nat /\ k.read[b] + amount <= granted[b]
  BY <1>0, <1>1, <1>2 DEF Bounded
<1>4. /\ next.pc = k.pc /\ next.req = k.req /\ next.read = k.read /\ next.avail = k.avail
      /\ next.remaining = k.remaining - amount /\ next.row = k.row + 1
      /\ next.write = [k.write EXCEPT ![b] = k.read[b] + amount]
  BY <1>0 DEF TxStates
<1>5. next \in TxStates
  <2>1. k.remaining - amount \in Int /\ k.row + 1 \in Nat
    BY <1>1, <1>2
  <2>2. [k.write EXCEPT ![b] = k.read[b] + amount] \in [Rows -> Nat \cup {None}]
    BY <1>0, <1>3 DEF TxStates
  <2> QED
    BY <1>0, <2>1, <2>2 DEF TxStates
<1> HIDE DEF next, k
<1>6. tx'[c] = next /\ granted' = granted
  BY <1>0 DEF LedgerInv, TypeOK
<1>7. Bounded(c)'
  <2>1. \A a \in Rows : next.write[a] <= granted[a]
    <3> SUFFICES ASSUME NEW a \in Rows
                 PROVE  next.write[a] <= granted[a]
      OBVIOUS
    <3>1. CASE a = b
      BY <1>0, <1>3, <1>4, <3>1 DEF TxStates
    <3>2. CASE a # b
      BY <1>0, <1>4, <3>2 DEF TxStates, Bounded, k
    <3> QED
      BY <3>1, <3>2
  <2> QED
    BY <1>0, <1>4, <1>6, <2>1 DEF Bounded, k
<1>8. Owed(c)'
  <2>1. k.req \in Requests /\ k.remaining <= Minutes[k.req] /\ Minutes[k.req] \in Int
    BY <1>0, LedgerAssumption DEF Owed, k
  <2>2. k.remaining - amount <= Minutes[k.req]
    BY <1>1, <1>2, <2>1
  <2> QED
    BY <1>4, <1>6, <2>1, <2>2 DEF Owed
<1>9. started' \in [Requests -> Nat]
  BY <1>0 DEF LedgerInv, TypeOK
<1> QED
  BY <1>0, <1>5, <1>7, <1>8, <1>9, TxStep

LEMMA ReadLedger ==
  ASSUME LedgerInv, NEW c \in Calls, ReadBalances(c)
  PROVE  LedgerInv'
<1> DEFINE k == tx[c]
           left == [b \in Rows |-> granted[b] - used[b]]
           next == [k EXCEPT !.pc = "consume", !.remaining = Minutes[k.req],
                             !.read = used, !.avail = left]
<1>0. /\ k \in TxStates /\ Bounded(c) /\ Owed(c) /\ k.pc = "read"
      /\ tx' = [tx EXCEPT ![c] = next] /\ UNCHANGED <<granted, used, started, taken>>
      /\ granted \in [Rows -> Nat] /\ used \in [Rows -> Nat]
  BY DEF LedgerInv, TypeOK, ReadBalances
<1>1. k.req \in Requests /\ Minutes[k.req] \in Int /\ left \in [Rows -> Int]
  BY <1>0, LedgerAssumption DEF Owed
<1>2. /\ next.pc = "consume" /\ next.req = k.req /\ next.read = used /\ next.avail = left
      /\ next.remaining = Minutes[k.req] /\ next.row = k.row /\ next.write = k.write
  BY <1>0 DEF TxStates
<1>3. next \in TxStates
  BY <1>0, <1>1 DEF TxStates
<1>4. \A b \in Rows : used[b] + left[b] <= granted[b]
  BY <1>0
<1> HIDE DEF next, k, left
<1>5. tx'[c] = next /\ granted' = granted
  BY <1>0 DEF LedgerInv, TypeOK
<1>6. Bounded(c)'
  BY <1>0, <1>2, <1>4, <1>5 DEF Bounded, k
<1>7. Owed(c)'
  BY <1>1, <1>2, <1>5 DEF Owed
<1>8. started' \in [Requests -> Nat]
  BY <1>0 DEF LedgerInv, TypeOK
<1> QED
  BY <1>0, <1>3, <1>6, <1>7, <1>8, TxStep

LEMMA MoveLedger ==
  ASSUME LedgerInv, NEW c \in Calls, WriteDecision(c) \/ SkipRow(c) \/ Rollback(c)
  PROVE  LedgerInv'
<1>0. /\ tx[c] \in TxStates /\ Bounded(c) /\ Owed(c)
      /\ UNCHANGED <<granted, used, started, taken>>
      /\ started' \in [Requests -> Nat]
  BY DEF LedgerInv, TypeOK, WriteDecision, SkipRow, Rollback
<1>1. CASE WriteDecision(c)
  <2> DEFINE next == [tx[c] EXCEPT !.pc = "read"]
  <2>1. tx' = [tx EXCEPT ![c] = next] /\ tx[c].pc = "begin"
    BY <1>1 DEF WriteDecision
  <2>2. next \in TxStates /\ next.pc = "read" /\ next.req = tx[c].req /\ next.write = tx[c].write
    BY <1>0 DEF TxStates
  <2> HIDE DEF next
  <2>3. tx'[c] = next
    BY <2>1 DEF LedgerInv, TypeOK
  <2>4. Bounded(c)' /\ Owed(c)'
    BY <1>0, <2>1, <2>2, <2>3 DEF Bounded, Owed
  <2> QED
    BY <1>0, <2>1, <2>2, <2>4, TxStep
<1>2. CASE SkipRow(c)
  <2> DEFINE next == [tx[c] EXCEPT !.row = @ + 1]
  <2>1. tx' = [tx EXCEPT ![c] = next]
    BY <1>2 DEF SkipRow
  <2>2. /\ next \in TxStates /\ next.pc = tx[c].pc /\ next.req = tx[c].req
        /\ next.write = tx[c].write /\ next.read = tx[c].read
        /\ next.avail = tx[c].avail /\ next.remaining = tx[c].remaining
    BY <1>0 DEF TxStates
  <2> HIDE DEF next
  <2>3. tx'[c] = next
    BY <2>1 DEF LedgerInv, TypeOK
  <2>4. Bounded(c)' /\ Owed(c)'
    BY <1>0, <2>2, <2>3 DEF Bounded, Owed
  <2> QED
    BY <1>0, <2>1, <2>2, <2>4, TxStep
<1>3. CASE Rollback(c)
  <2>1. tx' = [tx EXCEPT ![c] = Idle]
    BY <1>3 DEF Rollback
  <2>2. tx'[c] = Idle
    BY <2>1 DEF LedgerInv, TypeOK
  <2> QED
    BY <1>0, <2>1, <2>2, IdleType, IdleBounded, TxStep DEF LedgerInv
<1> QED
  BY <1>1, <1>2, <1>3

LEMMA GrantLedger ==
  ASSUME LedgerInv, NEW b \in Rows, NEW n \in GrantOptions, Grant(b, n)
  PROVE  LedgerInv'
<1>1. n \in Nat
  BY LedgerAssumption
<1>2. \A a \in Rows : granted'[a] \in Nat /\ granted[a] <= granted'[a]
  BY <1>1 DEF Grant, LedgerInv, TypeOK
<1>3. UNCHANGED <<used, started, taken, tx>>
  BY DEF Grant
<1>4. granted' \in [Rows -> Nat]
  BY <1>2 DEF Grant, LedgerInv, TypeOK
<1>5. TypeOK'
  BY <1>3, <1>4 DEF LedgerInv, TypeOK
<1>6. UsedWithinGranted'
  BY <1>2, <1>3 DEF LedgerInv, UsedWithinGranted, TypeOK
<1>7. ASSUME NEW c \in Calls
      PROVE  Bounded(c)' /\ Owed(c)'
  <2>1. tx[c] \in TxStates /\ Bounded(c) /\ Owed(c)
    BY DEF LedgerInv, TypeOK
  <2>2. ASSUME NEW a \in Rows
        PROVE  /\ tx[c].pc = "consume" => tx[c].read[a] + tx[c].avail[a] <= granted'[a]
               /\ tx[c].write[a] <= granted'[a]
    <3>1. /\ tx[c].read[a] \in Nat /\ tx[c].avail[a] \in Int
          /\ tx[c].write[a] \in Nat \cup {None}
          /\ granted[a] \in Nat
      BY <2>1 DEF TxStates, LedgerInv, TypeOK
    <3> QED
      BY <1>2, <2>1, <3>1 DEF Bounded, None
  <2> QED
    BY <1>3, <2>1, <2>2 DEF Bounded, Owed
<1> QED
  BY <1>5, <1>6, <1>7 DEF LedgerInv

LEMMA NextLedger ==
  ASSUME LedgerInv, [Next]_vars
  PROVE  LedgerInv'
<1>1. CASE UNCHANGED vars
  BY <1>1 DEF vars, LedgerInv, TypeOK, UsedWithinGranted, Bounded, Owed
<1>2. CASE Next
  BY <1>2, StartLedger, CommitLedger, TakeLedger, ReadLedger, MoveLedger, GrantLedger
     DEF Next, Continue
<1> QED
  BY <1>1, <1>2

(* Whatever approvals and grants overlap, no balance row has more minutes   *)
(* used than granted.                                                       *)
THEOREM NeverOverdrawn == Spec => []UsedWithinGranted
<1>1. LedgerInv /\ [Next]_vars => LedgerInv'
  BY NextLedger
<1>2. LedgerInv => UsedWithinGranted
  BY DEF LedgerInv
<1> QED
  BY <1>1, <1>2, InitLedger, PTL DEF Spec
-----------------------------------------------------------------------------
(* Where a transaction is among the rows, and what it left behind it.       *)
Emptied(c, a) == tx[c].write[a] = tx[c].read[a] + tx[c].avail[a]

Ordered(c) ==
  /\ tx[c].pc # "consume" => tx[c].row = 1 /\ \A b \in Rows : tx[c].write[b] = None
  /\ \A b \in Rows : tx[c].write[b] # None => b < tx[c].row
  /\ \A a \in Rows :
       a < tx[c].row /\ tx[c].avail[a] > 0 /\ tx[c].remaining > 0 => Emptied(c, a)
  /\ \A a, b \in Rows :
       a < b /\ tx[c].write[b] # None /\ tx[c].avail[a] > 0 => Emptied(c, a)

OrderInv == \A c \in Calls : Ordered(c)

LEMMA IdleOrdered ==
  ASSUME NEW c \in Calls, tx'[c] = Idle
  PROVE  Ordered(c)'
BY RowsAreNat DEF Ordered, Emptied, Idle, None, Rows

LEMMA InitOrder == Init => OrderInv
<1> SUFFICES ASSUME Init, NEW c \in Calls
             PROVE  Ordered(c)
  BY DEF OrderInv
<1>1. tx[c] = Idle
  BY DEF Init
<1> QED
  BY <1>1, RowsAreNat DEF Ordered, Emptied, Idle, None, Rows

(* A step of one transaction keeps the order of all if it keeps its own.    *)
LEMMA OrderStep ==
  ASSUME LedgerInv, OrderInv, NEW c \in Calls, NEW k, tx' = [tx EXCEPT ![c] = k],
         Ordered(c)'
  PROVE  OrderInv'
<1>1. ASSUME NEW d \in Calls, d # c
      PROVE  Ordered(d)'
  BY <1>1 DEF OrderInv, Ordered, Emptied, LedgerInv, TypeOK
<1> QED
  BY <1>1 DEF OrderInv

LEMMA StartOrder ==
  ASSUME LedgerInv, OrderInv, NEW c \in Calls, NEW r \in Requests, StartApproval(c, r)
  PROVE  OrderInv'
<1> DEFINE k == [Idle EXCEPT !.pc = "begin", !.req = r]
<1>1. tx' = [tx EXCEPT ![c] = k] /\ tx'[c] = k
  BY DEF StartApproval, LedgerInv, TypeOK
<1>2. /\ k.pc = "begin" /\ k.row = 1 /\ \A b \in Rows : k.write[b] = None
      /\ \A b \in Rows : k.avail[b] = 0
  BY DEF Idle
<1> HIDE DEF k
<1>3. Ordered(c)'
  BY <1>1, <1>2 DEF Ordered, Emptied, Rows
<1> QED
  BY <1>1, <1>3, OrderStep

LEMMA ReadOrder ==
  ASSUME LedgerInv, OrderInv, NEW c \in Calls, WriteDecision(c) \/ ReadBalances(c)
  PROVE  OrderInv'
<1>1. PICK k : /\ tx' = [tx EXCEPT ![c] = k] /\ tx'[c] = k
               /\ k.row = tx[c].row /\ k.write = tx[c].write
  <2>1. CASE WriteDecision(c)
    <3> DEFINE k == [tx[c] EXCEPT !.pc = "read"]
    <3>1. tx' = [tx EXCEPT ![c] = k] /\ k.row = tx[c].row /\ k.write = tx[c].write
      BY <2>1 DEF WriteDecision, LedgerInv, TypeOK, TxStates
    <3> HIDE DEF k
    <3> QED
      BY <3>1 DEF LedgerInv, TypeOK
  <2>2. CASE ReadBalances(c)
    <3> DEFINE k == [tx[c] EXCEPT !.pc = "consume", !.remaining = Minutes[tx[c].req],
                                  !.read = used,
                                  !.avail = [b \in Rows |-> granted[b] - used[b]]]
    <3>1. tx' = [tx EXCEPT ![c] = k] /\ k.row = tx[c].row /\ k.write = tx[c].write
      BY <2>2 DEF ReadBalances, LedgerInv, TypeOK, TxStates
    <3> HIDE DEF k
    <3> QED
      BY <3>1 DEF LedgerInv, TypeOK
  <2> QED
    BY <2>1, <2>2
<1>2. tx[c].row = 1 /\ \A b \in Rows : tx[c].write[b] = None
  BY DEF WriteDecision, ReadBalances, OrderInv, Ordered
<1>3. Ordered(c)'
  BY <1>1, <1>2 DEF Ordered, Emptied, Rows
<1> QED
  BY <1>1, <1>3, OrderStep

LEMMA SkipOrder ==
  ASSUME LedgerInv, OrderInv, NEW c \in Calls, SkipRow(c)
  PROVE  OrderInv'
<1> DEFINE k == [tx[c] EXCEPT !.row = @ + 1]
<1>1. tx' = [tx EXCEPT ![c] = k] /\ tx'[c] = k
  BY DEF SkipRow, LedgerInv, TypeOK
<1>2. /\ k.row = tx[c].row + 1 /\ k.pc = tx[c].pc /\ k.write = tx[c].write
      /\ k.read = tx[c].read /\ k.avail = tx[c].avail /\ k.remaining = tx[c].remaining
  BY DEF LedgerInv, TypeOK, TxStates
<1> HIDE DEF k
<1>3. /\ tx[c].pc = "consume" /\ tx[c].remaining > 0 /\ tx[c].row \in Rows
      /\ tx[c].avail[tx[c].row] <= 0 /\ tx[c].row \in Nat
      /\ tx[c].avail \in [Rows -> Int]
  BY RowsAreNat DEF SkipRow, Consuming, LedgerInv, TypeOK, TxStates
<1>4. Ordered(c)
  BY DEF OrderInv
<1>5. Ordered(c)'
  <2>1. \A b \in Rows : k.write[b] # None => b < k.row
    BY <1>2, <1>3, <1>4 DEF Ordered, Rows
  <2>2. ASSUME NEW a \in Rows, a < k.row, k.avail[a] > 0
        PROVE  a < tx[c].row
    <3>1. a \in Nat /\ a <= tx[c].row
      BY <1>2, <1>3, <2>2 DEF Rows
    <3>2. a # tx[c].row
      BY <1>2, <1>3, <2>2
    <3> QED
      BY <1>3, <3>1, <3>2
  <2> QED
    BY <1>1, <1>2, <1>3, <1>4, <2>1, <2>2 DEF Ordered, Emptied
<1> QED
  BY <1>1, <1>5, OrderStep

LEMMA TakeOrder ==
  ASSUME LedgerInv, OrderInv, NEW c \in Calls, TakeFromRow(c)
  PROVE  OrderInv'
<1> DEFINE o == tx[c]
           r == o.row
           amount == LesserOf(o.avail[r], o.remaining)
           k == [o EXCEPT !.write[r] = o.read[r] + amount,
                          !.remaining = @ - amount, !.row = @ + 1]
<1>1. tx' = [tx EXCEPT ![c] = k] /\ tx'[c] = k
  BY DEF TakeFromRow, LedgerInv, TypeOK
<1>2. o \in TxStates /\ o.pc = "consume" /\ r \in Rows /\ o.remaining > 0 /\ o.avail[r] > 0
  BY DEF TakeFromRow, Consuming, LedgerInv, TypeOK
<1>3. /\ r \in Nat /\ o.remaining \in Int /\ o.avail[r] \in Int /\ o.read[r] \in Nat
      /\ o.write \in [Rows -> Nat \cup {None}]
  BY <1>2, RowsAreNat DEF TxStates
<1>4. /\ amount \in Nat
      /\ o.remaining - amount > 0 => amount = o.avail[r]
  BY <1>2, <1>3 DEF LesserOf
<1> HIDE DEF amount
<1>5. /\ k.row = r + 1 /\ k.pc = "consume" /\ k.read = o.read /\ k.avail = o.avail
      /\ k.remaining = o.remaining - amount
      /\ k.write = [o.write EXCEPT ![r] = o.read[r] + amount]
  BY <1>2 DEF TxStates
<1>6. /\ k.write[r] = o.read[r] + amount
      /\ \A b \in Rows : b # r => k.write[b] = o.write[b]
  BY <1>2, <1>3, <1>5
<1>7. Ordered(c)
  BY DEF OrderInv
<1> HIDE DEF k
<1>8. \A b \in Rows : k.write[b] # None => b < k.row
  BY <1>2, <1>3, <1>5, <1>6, <1>7 DEF Ordered, Rows
<1>9. ASSUME NEW a \in Rows, a < r, k.avail[a] > 0
      PROVE  k.write[a] = k.read[a] + k.avail[a]
  <2>1. a # r /\ a \in Nat
    BY <1>3, <1>9 DEF Rows
  <2> QED
    BY <1>2, <1>5, <1>6, <1>7, <1>9, <2>1 DEF Ordered, Emptied
<1>10. ASSUME NEW a \in Rows, a < k.row, k.avail[a] > 0, k.remaining > 0
       PROVE  k.write[a] = k.read[a] + k.avail[a]
  <2>1. CASE a = r
    BY <1>4, <1>5, <1>6, <1>10, <2>1
  <2>2. CASE a # r
    BY <1>3, <1>5, <1>9, <1>10, <2>2 DEF Rows
  <2> QED
    BY <2>1, <2>2
<1>11. ASSUME NEW a \in Rows, NEW b \in Rows, a < b, k.write[b] # None, k.avail[a] > 0
       PROVE  k.write[a] = k.read[a] + k.avail[a]
  <2>1. a < r
    BY <1>3, <1>5, <1>8, <1>11 DEF Rows
  <2> QED
    BY <1>9, <1>11, <2>1
<1>12. Ordered(c)'
  BY <1>1, <1>5, <1>8, <1>10, <1>11 DEF Ordered, Emptied
<1> QED
  BY <1>1, <1>12, OrderStep

LEMMA NextOrder ==
  ASSUME LedgerInv, OrderInv, [Next]_vars
  PROVE  OrderInv'
<1>1. ASSUME NEW c \in Calls, Commit(c) \/ Rollback(c)
      PROVE  OrderInv'
  <2>1. tx' = [tx EXCEPT ![c] = Idle] /\ tx'[c] = Idle
    BY <1>1 DEF Commit, Rollback, LedgerInv, TypeOK
  <2> QED
    BY <2>1, IdleOrdered, OrderStep
<1>2. ASSUME UNCHANGED tx
      PROVE  OrderInv'
  BY <1>2 DEF OrderInv, Ordered, Emptied
<1>3. CASE UNCHANGED vars
  BY <1>2, <1>3 DEF vars
<1>4. CASE \E b \in Rows, n \in GrantOptions : Grant(b, n)
  BY <1>2, <1>4 DEF Grant
<1> QED
  BY <1>1, <1>3, <1>4, StartOrder, ReadOrder, SkipOrder, TakeOrder DEF Next, Continue

(* An approval takes leave from the rows in the order of their expiry: it    *)
(* draws on one only when it has emptied, as far as it could see, those that *)
(* expire before it.                                                         *)
THEOREM EmptiedInOrder == Spec => []EarliestFirst
<1>1. LedgerInv /\ [Next]_vars => LedgerInv'
  BY NextLedger
<1>2. LedgerInv /\ OrderInv /\ [Next]_vars => OrderInv'
  BY NextOrder
<1>3. OrderInv => EarliestFirst
  BY DEF OrderInv, Ordered, Emptied, EarliestFirst
<1> QED
  BY <1>1, <1>2, <1>3, InitLedger, InitOrder, PTL DEF Spec
-----------------------------------------------------------------------------
(* Totals over the rows and the requests are sums over their domains.       *)
LEMMA TotalIsSum == ASSUME NEW g PROVE Total(g) = Sums(g)[DOMAIN g]
BY DEF Total, MapThenSumSet, MapThenFoldSet, Pick, SumStep, Sums

LEMMA TotalSums ==
  ASSUME NEW S, IsFiniteSet(S), NEW g \in [S -> Int]
  PROVE  Total(g) = Sums(g)[S]
<1>1. DOMAIN g = S
  OBVIOUS
<1> QED
  BY <1>1, TotalIsSum

LEMMA TotalAdd ==
  ASSUME NEW S, IsFiniteSet(S), NEW f \in [S -> Int], NEW g \in [S -> Int], NEW h \in [S -> Int],
         \A x \in S : h[x] = f[x] + g[x]
  PROVE  Total(h) = Total(f) + Total(g)
BY SumsAdd, TotalSums

LEMMA TotalType ==
  ASSUME NEW S, IsFiniteSet(S), NEW g \in [S -> Int]
  PROVE  Total(g) \in Int
BY TotalSums, SumsType

LEMMA TotalOfZeros ==
  ASSUME NEW S, IsFiniteSet(S), NEW g \in [S -> Int], \A x \in S : g[x] = 0
  PROVE  Total(g) = 0
<1>1. \A x \in S : g[x] = g[x] + g[x]
  OBVIOUS
<1>2. Total(g) = Total(g) + Total(g)
  BY <1>1, TotalAdd
<1>3. Total(g) \in Int
  BY TotalType
<1>4. \A t \in Int : t = t + t => t = 0
  OBVIOUS
<1> QED
  BY <1>2, <1>3, <1>4, Zenon

(* One element changes.                                                     *)
LEMMA TotalChange ==
  ASSUME NEW S, IsFiniteSet(S), NEW f \in [S -> Int], NEW b \in S, NEW n \in Int
  PROVE  Total([f EXCEPT ![b] = @ + n]) = Total(f) + n
<1> DEFINE g == [x \in S |-> IF x = b THEN n ELSE 0]
           h == [f EXCEPT ![b] = @ + n]
<1>1. g \in [S -> Int] /\ h \in [S -> Int] /\ \A x \in S : h[x] = f[x] + g[x]
  OBVIOUS
<1>2. Total(h) = Total(f) + Total(g)
  <2> HIDE DEF g, h
  <2> QED
    BY <1>1, TotalAdd
<1>3. Total(g) = n
  <2>1. \A s \in SUBSET S : b \notin s => Sums(g)[s] = 0
    <3> DEFINE Bad == {s \in SUBSET S : b \notin s /\ Sums(g)[s] # 0}
    <3> SUFFICES ASSUME Bad # {}
                 PROVE  FALSE
      OBVIOUS
    <3>1. PICK m \in Bad : \A u \in Bad : u \subseteq m => u = m
      <4>1. Bad \in SUBSET SUBSET S
        OBVIOUS
      <4> HIDE DEF Bad, g
      <4> QED
        BY <4>1, MinimalSet
    <3>e. SumEquations(g, S)
      BY <1>1, SumsEquation
    <3>p. PICK p : p = Pick(m)
      OBVIOUS
    <3>2. m \in SUBSET S /\ p \in m /\ Sums(g)[m] = g[p] + Sums(g)[m \ {p}]
      BY <3>1, <3>e, <3>p DEF SumEquations
    <3>3. g[p] = 0
      BY <3>1, <3>2
    <3>4. Sums(g)[m \ {p}] = 0
      BY <3>1, <3>2
    <3> QED
      BY <3>1, <3>2, <3>3, <3>4
  <2>2. Sums(g)[S] = g[b] + Sums(g)[S \ {b}]
    BY <1>1, SumsTakeOut
  <2>3. Sums(g)[S \ {b}] = 0
    BY <2>1
  <2>4. g[b] = n
    OBVIOUS
  <2>5. Total(g) = Sums(g)[S]
    BY <1>1, TotalSums
  <2> QED
    BY <2>2, <2>3, <2>4, <2>5
<1> QED
  BY <1>2, <1>3
-----------------------------------------------------------------------------
(* What is taken from the rows: a row is written once, from nothing to the  *)
(* amount that leaves what is still to find.                                *)
LEMMA RowsFinite == IsFiniteSet(Rows)
BY LedgerAssumption, FS_Interval, 1 \in Int DEF Rows

LEMMA TakenType ==
  ASSUME LedgerInv, NEW c \in Calls
  PROVE  TakenFrom(c) \in [Rows -> Int] /\ Total(TakenFrom(c)) \in Int
<1>1. tx[c] \in TxStates
  BY DEF LedgerInv, TypeOK
<1>2. ASSUME NEW b \in Rows
      PROVE  (IF tx[c].write[b] = None THEN 0 ELSE tx[c].write[b] - tx[c].read[b]) \in Int
  BY <1>1 DEF TxStates, None
<1>3. TakenFrom(c) \in [Rows -> Int]
  BY <1>2 DEF TakenFrom
<1> QED
  BY <1>3, RowsFinite, TotalType

LEMMA NothingTaken ==
  ASSUME NEW c \in Calls, \A b \in Rows : tx[c].write[b] = None
  PROVE  Total(TakenFrom(c)) = 0
<1>1. TakenFrom(c) \in [Rows -> Int] /\ \A b \in Rows : TakenFrom(c)[b] = 0
  BY DEF TakenFrom
<1> QED
  BY <1>1, RowsFinite, TotalOfZeros

LEMMA InitSpends == Init => SpendsExactly
BY DEF Init, SpendsExactly, Idle

(* What a transaction has taken depends on its own state only.              *)
LEMMA OthersSpend ==
  ASSUME LedgerInv, SpendsExactly, NEW c \in Calls, NEW k, tx' = [tx EXCEPT ![c] = k],
         k.pc = "consume" => Total(TakenFrom(c)') + k.remaining = Minutes[k.req]
  PROVE  SpendsExactly'
<1>1. tx'[c] = k
  BY DEF LedgerInv, TypeOK
<1>2. ASSUME NEW d \in Calls, d # c
      PROVE  tx'[d] = tx[d] /\ TakenFrom(d)' = TakenFrom(d)
  <2>1. tx'[d] = tx[d]
    BY <1>2 DEF LedgerInv, TypeOK
  <2> QED
    BY <2>1 DEF TakenFrom
<1> QED
  BY <1>1, <1>2 DEF SpendsExactly

LEMMA ReadSpends ==
  ASSUME LedgerInv, OrderInv, SpendsExactly, NEW c \in Calls, ReadBalances(c)
  PROVE  SpendsExactly'
<1> DEFINE k == [tx[c] EXCEPT !.pc = "consume", !.remaining = Minutes[tx[c].req],
                              !.read = used,
                              !.avail = [b \in Rows |-> granted[b] - used[b]]]
<1>0. tx[c] \in TxStates /\ tx[c].pc = "read" /\ tx[c].req \in Requests
  BY DEF LedgerInv, TypeOK, ReadBalances, Owed
<1>1. tx' = [tx EXCEPT ![c] = k]
  BY DEF ReadBalances
<1>2. k.remaining = Minutes[k.req] /\ k.write = tx[c].write /\ Minutes[k.req] \in Int
  BY <1>0, LedgerAssumption DEF TxStates
<1> HIDE DEF k
<1>3. tx'[c] = k
  BY <1>1 DEF LedgerInv, TypeOK
<1>4. \A b \in Rows : k.write[b] = None
  BY <1>0, <1>2 DEF OrderInv, Ordered
<1>5. Total(TakenFrom(c)') = 0
  <2>1. TakenFrom(c)' = [b \in Rows |-> 0]
    BY <1>3, <1>4 DEF TakenFrom
  <2>2. [b \in Rows |-> 0] \in [Rows -> Int] /\ \A b \in Rows : [a \in Rows |-> 0][b] = 0
    OBVIOUS
  <2>3. Total([b \in Rows |-> 0]) = 0
    BY <2>2, RowsFinite, TotalOfZeros
  <2> QED
    BY <2>1, <2>3
<1>6. 0 + k.remaining = Minutes[k.req]
  BY <1>2
<1> QED
  BY <1>1, <1>5, <1>6, OthersSpend

LEMMA TakeSpends ==
  ASSUME LedgerInv, OrderInv, SpendsExactly, NEW c \in Calls, TakeFromRow(c)
  PROVE  SpendsExactly'
<1>0. PICK b \in Rows : b = tx[c].row
  BY DEF TakeFromRow, Consuming
<1>1. PICK amount \in Int :
        /\ amount = LesserOf(tx[c].avail[b], tx[c].remaining) /\ amount >= 0
        /\ tx' = [tx EXCEPT ![c] =
                   [tx[c] EXCEPT !.write[b] = tx[c].read[b] + amount,
                                 !.remaining = tx[c].remaining - amount,
                                 !.row = tx[c].row + 1]]
  <2>1. tx[c].avail[b] \in Int /\ tx[c].remaining \in Int
    BY DEF LedgerInv, TypeOK, TxStates
  <2>2. tx[c].avail[b] > 0 /\ tx[c].remaining > 0
    BY <1>0 DEF TakeFromRow, Consuming
  <2>3. LesserOf(tx[c].avail[b], tx[c].remaining) \in Int
        /\ LesserOf(tx[c].avail[b], tx[c].remaining) >= 0
    BY <2>1, <2>2 DEF LesserOf
  <2> QED
    BY <1>0, <2>3 DEF TakeFromRow
<1> DEFINE k == [tx[c] EXCEPT !.write[b] = tx[c].read[b] + amount,
                              !.remaining = tx[c].remaining - amount,
                              !.row = tx[c].row + 1]
<1>2. tx[c] \in TxStates /\ tx[c].pc = "consume"
  BY DEF LedgerInv, TypeOK, TakeFromRow, Consuming
<1>3. /\ k.remaining = tx[c].remaining - amount /\ k.req = tx[c].req
      /\ k.read = tx[c].read /\ k.write = [tx[c].write EXCEPT ![b] = tx[c].read[b] + amount]
  BY <1>2 DEF TxStates
<1>4. tx' = [tx EXCEPT ![c] = k]
  BY <1>1
<1> HIDE DEF k
<1>5. tx'[c] = k
  BY <1>4 DEF LedgerInv, TypeOK
<1>6. /\ tx[c].write[b] = None /\ tx[c].read[b] \in Nat /\ tx[c].remaining \in Int
      /\ tx[c].write \in [Rows -> Nat \cup {None}]
  BY <1>0, <1>2, RowsAreNat DEF OrderInv, Ordered, TxStates
<1>7. TakenFrom(c)' = [TakenFrom(c) EXCEPT ![b] = @ + amount]
  <2>1. ASSUME NEW a \in Rows
        PROVE  (IF k.write[a] = None THEN 0 ELSE k.write[a] - k.read[a])
                 = [TakenFrom(c) EXCEPT ![b] = @ + amount][a]
    <3>1. CASE a = b
      <4>1. k.write[a] = tx[c].read[b] + amount /\ k.read[a] = tx[c].read[b]
        BY <1>3, <1>6, <3>1
      <4>2. k.write[a] # None /\ k.write[a] - k.read[a] = amount
        BY <1>1, <1>6, <4>1 DEF None
      <4>3. TakenFrom(c)[b] = 0
        BY <1>6 DEF TakenFrom
      <4>4. [TakenFrom(c) EXCEPT ![b] = @ + amount][a] = amount
        BY <1>1, <3>1, <4>3 DEF TakenFrom
      <4> QED
        BY <4>2, <4>4
    <3>2. CASE a # b
      <4>1. k.write[a] = tx[c].write[a] /\ k.read[a] = tx[c].read[a]
        BY <1>3, <1>6, <3>2
      <4> QED
        BY <3>2, <4>1 DEF TakenFrom
    <3> QED
      BY <3>1, <3>2
  <2>2. TakenFrom(c)' = [a \in Rows |-> IF k.write[a] = None THEN 0 ELSE k.write[a] - k.read[a]]
    BY <1>5 DEF TakenFrom
  <2>3. [TakenFrom(c) EXCEPT ![b] = @ + amount]
          = [a \in Rows |-> [TakenFrom(c) EXCEPT ![b] = @ + amount][a]]
    BY DEF TakenFrom
  <2> QED
    BY <2>1, <2>2, <2>3
<1>8. Total(TakenFrom(c)') = Total(TakenFrom(c)) + amount
  <2>1. TakenFrom(c) \in [Rows -> Int]
    BY TakenType
  <2>2. Total([TakenFrom(c) EXCEPT ![b] = @ + amount]) = Total(TakenFrom(c)) + amount
    BY <2>1, RowsFinite, TotalChange
  <2> QED
    BY <1>7, <2>2
<1>9. Total(TakenFrom(c)) + tx[c].remaining = Minutes[tx[c].req]
  BY <1>2 DEF SpendsExactly
<1>10. \A t, m, n \in Int : (t + n) + (m - n) = t + m
  OBVIOUS
<1>11. (Total(TakenFrom(c)) + amount) + (tx[c].remaining - amount)
         = Total(TakenFrom(c)) + tx[c].remaining
  BY <1>1, <1>6, <1>10, TakenType, Zenon
<1>12. Total(TakenFrom(c)') + k.remaining = Minutes[k.req]
  BY <1>3, <1>8, <1>9, <1>11, Zenon
<1> QED
  BY <1>4, <1>12, OthersSpend

LEMMA NextSpends ==
  ASSUME LedgerInv, OrderInv, SpendsExactly, [Next]_vars
  PROVE  SpendsExactly'
<1>1. ASSUME UNCHANGED tx
      PROVE  SpendsExactly'
  BY <1>1 DEF SpendsExactly, TakenFrom
<1>2. ASSUME NEW c \in Calls, Commit(c) \/ Rollback(c)
      PROVE  SpendsExactly'
  <2>1. tx' = [tx EXCEPT ![c] = Idle] /\ Idle.pc # "consume"
    BY <1>2 DEF Commit, Rollback, Idle
  <2> QED
    BY <2>1, OthersSpend
<1>3. ASSUME NEW c \in Calls, NEW r \in Requests, StartApproval(c, r)
      PROVE  SpendsExactly'
  <2> DEFINE k == [Idle EXCEPT !.pc = "begin", !.req = r]
  <2>1. tx' = [tx EXCEPT ![c] = k] /\ k.pc # "consume"
    BY <1>3 DEF StartApproval, Idle
  <2> HIDE DEF k
  <2> QED
    BY <2>1, OthersSpend
<1>4. ASSUME NEW c \in Calls, WriteDecision(c)
      PROVE  SpendsExactly'
  <2> DEFINE k == [tx[c] EXCEPT !.pc = "read"]
  <2>1. tx' = [tx EXCEPT ![c] = k] /\ k.pc # "consume"
    BY <1>4 DEF WriteDecision, LedgerInv, TypeOK, TxStates
  <2> HIDE DEF k
  <2> QED
    BY <2>1, OthersSpend
<1>5. ASSUME NEW c \in Calls, SkipRow(c)
      PROVE  SpendsExactly'
  <2> DEFINE k == [tx[c] EXCEPT !.row = @ + 1]
  <2>1. tx[c] \in TxStates /\ tx[c].pc = "consume" /\ tx' = [tx EXCEPT ![c] = k]
    BY <1>5 DEF SkipRow, Consuming, LedgerInv, TypeOK
  <2>2. /\ k.remaining = tx[c].remaining /\ k.req = tx[c].req
        /\ k.read = tx[c].read /\ k.write = tx[c].write
    BY <2>1 DEF TxStates
  <2> HIDE DEF k
  <2>3. tx'[c] = k
    BY <2>1 DEF LedgerInv, TypeOK
  <2>4. TakenFrom(c)' = TakenFrom(c)
    BY <2>2, <2>3 DEF TakenFrom
  <2>5. Total(TakenFrom(c)) + tx[c].remaining = Minutes[tx[c].req]
    BY <2>1 DEF SpendsExactly
  <2> QED
    BY <2>1, <2>2, <2>4, <2>5, OthersSpend
<1>6. CASE UNCHANGED vars
  BY <1>1, <1>6 DEF vars
<1>7. CASE \E b \in Rows, n \in GrantOptions : Grant(b, n)
  BY <1>1, <1>7 DEF Grant
<1> QED
  BY <1>2, <1>3, <1>4, <1>5, <1>6, <1>7, ReadSpends, TakeSpends DEF Next, Continue

(* What an approval has taken from the rows and what it has still to find    *)
(* make up the minutes of its request, over however many rows it is spread   *)
(* and whatever others do to them in the meantime.                           *)
THEOREM SpentExactly == Spec => []SpendsExactly
<1>1. LedgerInv /\ [Next]_vars => LedgerInv'
  BY NextLedger
<1>2. LedgerInv /\ OrderInv /\ [Next]_vars => OrderInv'
  BY NextOrder
<1>3. LedgerInv /\ OrderInv /\ SpendsExactly /\ [Next]_vars => SpendsExactly'
  BY NextSpends
<1> QED
  BY <1>1, <1>2, <1>3, InitLedger, InitOrder, InitSpends, PTL DEF Spec
-----------------------------------------------------------------------------
(* The notifications: the end of the transaction taken apart is still a step *)
(* of the ledger, and all that the ledger's proofs use of it.                *)
Notices == [row : {"uncommitted", "stored", "undone"},
            job : {"none", "queued", "mailed", "failed"}]

NoticeInv ==
  /\ notices \in [Requests -> Seq(Notices)]
  /\ decided \in [Requests -> Nat]
  /\ OneNoticeEach

LEMMA InitNotice == MailInit => LedgerInv /\ NoticeInv
<1> SUFFICES ASSUME MailInit
             PROVE  LedgerInv /\ NoticeInv
  OBVIOUS
<1>1. notices \in [Requests -> Seq(Notices)] /\ decided \in [Requests -> Nat]
  BY DEF MailInit
<1>2. ASSUME NEW r \in Requests
      PROVE  Cardinality(Stored(r)) = decided[r]
  <2>1. Stored(r) = {} /\ decided[r] = 0
    BY DEF MailInit, Stored
  <2> QED
    BY <2>1, FS_EmptySet
<1> QED
  BY <1>1, <1>2, InitLedger DEF MailInit, NoticeInv, OneNoticeEach

LEMMA MailStepsLedger == [MailNext]_mailVars => [Next]_vars
<1>1. ASSUME NEW c \in Calls, Decide(c) \/ RollbackDecision(c)
      PROVE  [Next]_vars
  BY <1>1 DEF Decide, CreateNotice, Enqueue, CommitDecision, RollbackDecision, Next, Continue
<1>2. ASSUME NEW r \in Requests, Work(r)
      PROVE  UNCHANGED vars
  BY <1>2 DEF Work, Deliver, GiveUp, Finish
<1> QED
  BY <1>1, <1>2 DEF MailNext, mailVars, Next

(* The request a transaction at its end decides.                            *)
LEMMA DoneRequest ==
  ASSUME LedgerInv, NEW c \in Calls, Done(c)
  PROVE  tx[c].req \in Requests
BY DEF LedgerInv, Owed, Done

LEMMA RowIsLast ==
  ASSUME NoticeInv, NEW r \in Requests, HasRow(r)
  PROVE  /\ Len(notices[r]) \in DOMAIN notices[r] /\ Len(notices[r]) \in Nat
         /\ DOMAIN notices[r] = 1..Len(notices[r])
         /\ notices[r][Len(notices[r])].row = "uncommitted"
BY DEF NoticeInv, HasRow, Last

(* A notification that gets another row state or job, but is not stored.    *)
LEMMA NoticeChanges ==
  ASSUME NoticeInv, NEW r \in Requests, NEW i \in DOMAIN notices[r], NEW n \in Notices,
         notices' = [notices EXCEPT ![r][i] = n], UNCHANGED decided,
         n.row = "stored" <=> notices[r][i].row = "stored"
  PROVE  NoticeInv'
<1>1. notices' \in [Requests -> Seq(Notices)]
  BY DEF NoticeInv
<1>2. ASSUME NEW s \in Requests
      PROVE  Stored(s)' = Stored(s)
  <2>1. CASE s = r
    <3>1. notices'[s] = [notices[r] EXCEPT ![i] = n]
      BY <2>1 DEF NoticeInv
    <3> QED
      BY <2>1, <3>1 DEF Stored, NoticeInv
  <2>2. CASE s # r
    BY <2>2 DEF Stored, NoticeInv
  <2> QED
    BY <2>1, <2>2
<1> QED
  BY <1>1, <1>2 DEF NoticeInv, OneNoticeEach

LEMMA CreateKeeps ==
  ASSUME LedgerInv, NoticeInv, NEW c \in Calls, CreateNotice(c)
  PROVE  NoticeInv'
<1> DEFINE r == tx[c].req
           n == [row |-> "uncommitted", job |-> "none"]
<1>1. r \in Requests /\ n \in Notices /\ UNCHANGED decided
  BY DoneRequest DEF CreateNotice, Notices
<1>2. notices' = [notices EXCEPT ![r] = Append(@, n)]
  BY DEF CreateNotice
<1> HIDE DEF r
<1>3. notices' \in [Requests -> Seq(Notices)]
  BY <1>1, <1>2 DEF NoticeInv
<1>4. ASSUME NEW s \in Requests
      PROVE  Stored(s)' = Stored(s)
  <2>1. CASE s = r
    <3>1. notices'[s] = Append(notices[r], n) /\ notices[r] \in Seq(Notices)
      BY <1>1, <1>2, <2>1 DEF NoticeInv
    <3> QED
      BY <2>1, <3>1 DEF Stored
  <2>2. CASE s # r
    BY <1>2, <2>2 DEF Stored, NoticeInv
  <2> QED
    BY <2>1, <2>2
<1> QED
  BY <1>1, <1>3, <1>4 DEF NoticeInv, OneNoticeEach

(* Whether it is in the end stored or undone, what changes is the last one. *)
LEMMA LastChanges ==
  ASSUME NoticeInv, NEW r \in Requests, HasRow(r), NEW n \in Notices,
         notices' = [notices EXCEPT ![r][Len(notices[r])] = n], UNCHANGED decided,
         n.row # "stored"
  PROVE  NoticeInv'
<1>1. notices[r][Len(notices[r])].row # "stored" /\ Len(notices[r]) \in DOMAIN notices[r]
  BY RowIsLast
<1> QED
  BY <1>1, NoticeChanges

LEMMA EnqueueKeeps ==
  ASSUME LedgerInv, NoticeInv, NEW c \in Calls, Enqueue(c)
  PROVE  NoticeInv'
<1> DEFINE r == tx[c].req
           n == [notices[r][Len(notices[r])] EXCEPT !.job = "queued"]
<1>1. r \in Requests /\ HasRow(r) /\ UNCHANGED decided
  BY DoneRequest DEF Enqueue
<1>2. notices[r][Len(notices[r])] \in Notices
  BY <1>1, RowIsLast DEF NoticeInv
<1>3. n \in Notices /\ n.row # "stored"
  BY <1>1, <1>2, RowIsLast DEF Notices
<1>4. notices' = [notices EXCEPT ![r][Len(notices[r])] = n]
  BY <1>1, <1>2, RowIsLast DEF Enqueue, SetLast, NoticeInv
<1> QED
  BY <1>1, <1>3, <1>4, LastChanges

LEMMA RollbackKeeps ==
  ASSUME LedgerInv, NoticeInv, NEW c \in Calls, RollbackDecision(c)
  PROVE  NoticeInv'
<1> DEFINE r == tx[c].req
           n == [notices[r][Len(notices[r])] EXCEPT !.row = "undone"]
<1>0. UNCHANGED decided
  BY DEF RollbackDecision
<1>1. CASE Done(c) /\ HasRow(r)
  <2>1. r \in Requests
    BY <1>1, DoneRequest
  <2>2. notices[r][Len(notices[r])] \in Notices
    BY <1>1, <2>1, RowIsLast DEF NoticeInv
  <2>3. n \in Notices /\ n.row # "stored"
    BY <2>2 DEF Notices
  <2>4. notices' = [notices EXCEPT ![r][Len(notices[r])] = n]
    BY <1>1, <2>1, <2>2, RowIsLast DEF RollbackDecision, SetLast, NoticeInv
  <2> QED
    BY <1>0, <1>1, <2>1, <2>3, <2>4, LastChanges
<1>2. CASE ~(Done(c) /\ HasRow(r))
  <2>1. UNCHANGED notices
    BY <1>2 DEF RollbackDecision
  <2> QED
    BY <1>0, <2>1 DEF NoticeInv, OneNoticeEach, Stored
<1> QED
  BY <1>1, <1>2

LEMMA CommitStores ==
  ASSUME LedgerInv, NoticeInv, NEW c \in Calls, CommitDecision(c)
  PROVE  NoticeInv'
<1>1. PICK r \in Requests : r = tx[c].req /\ HasRow(r)
  BY DoneRequest DEF CommitDecision, Commit
<1> DEFINE last == Len(notices[r])
           n == [notices[r][last] EXCEPT !.row = "stored"]
<1>2. /\ last \in DOMAIN notices[r] /\ DOMAIN notices[r] = 1..last
      /\ notices[r][last] \in Notices /\ notices[r][last].row = "uncommitted"
  BY <1>1, RowIsLast DEF NoticeInv
<1>3. n \in Notices /\ n.row = "stored"
  BY <1>2 DEF Notices
<1>4. /\ notices' = [notices EXCEPT ![r][last] = n]
      /\ decided' = [decided EXCEPT ![r] = @ + 1]
  BY <1>1, <1>2 DEF CommitDecision, SetLast, NoticeInv
<1> HIDE DEF n
<1>5. notices' \in [Requests -> Seq(Notices)] /\ decided' \in [Requests -> Nat]
  BY <1>1, <1>2, <1>3, <1>4 DEF NoticeInv
<1>6. ASSUME NEW s \in Requests
      PROVE  Cardinality(Stored(s))' = decided'[s]
  <2>1. CASE s = r
    <3>1. notices'[r] = [notices[r] EXCEPT ![last] = n] /\ decided'[r] = decided[r] + 1
      BY <1>1, <1>4 DEF NoticeInv
    <3>2. Stored(r)' = Stored(r) \cup {last} /\ last \notin Stored(r)
      BY <1>1, <1>2, <1>3, <3>1 DEF Stored, NoticeInv
    <3>3. IsFiniteSet(Stored(r))
      <4>1. Stored(r) \subseteq 1..last /\ last \in Nat
        BY <1>1, <1>2 DEF Stored, NoticeInv
      <4>2. IsFiniteSet(1..last)
        BY <4>1, FS_Interval
      <4> QED
        BY <4>1, <4>2, FS_Subset
    <3>4. Cardinality(Stored(r) \cup {last}) = Cardinality(Stored(r)) + 1
      BY <3>2, <3>3, FS_AddElement
    <3> QED
      BY <1>1, <2>1, <3>1, <3>2, <3>4 DEF NoticeInv, OneNoticeEach
  <2>2. CASE s # r
    <3>1. notices'[s] = notices[s] /\ decided'[s] = decided[s]
      BY <1>4, <2>2 DEF NoticeInv
    <3> QED
      BY <3>1 DEF Stored, NoticeInv, OneNoticeEach
  <2> QED
    BY <2>1, <2>2
<1> QED
  BY <1>5, <1>6 DEF NoticeInv, OneNoticeEach

LEMMA WorkKeeps ==
  ASSUME NoticeInv, NEW r \in Requests, Work(r)
  PROVE  NoticeInv'
<1>1. PICK i \in DOMAIN notices[r], how \in {"mailed", "failed"} : Finish(r, i, how)
  BY DEF Work, Deliver, GiveUp
<1> DEFINE n == [notices[r][i] EXCEPT !.job = how]
<1>2. notices[r][i] \in Notices
  BY <1>1 DEF NoticeInv
<1>3. n \in Notices /\ n.row = notices[r][i].row
  BY <1>2 DEF Notices
<1>4. notices' = [notices EXCEPT ![r][i] = n] /\ UNCHANGED decided
  BY <1>1, <1>2 DEF Finish, NoticeInv
<1> QED
  BY <1>3, <1>4, NoticeChanges

LEMMA NextNotice ==
  ASSUME LedgerInv, NoticeInv, [MailNext]_mailVars
  PROVE  NoticeInv'
<1>1. ASSUME UNCHANGED <<notices, decided>>
      PROVE  NoticeInv'
  BY <1>1 DEF NoticeInv, OneNoticeEach, Stored
<1>2. ASSUME NEW c \in Calls, Decide(c)
      PROVE  NoticeInv'
  BY <1>1, <1>2, CreateKeeps, EnqueueKeeps, CommitStores DEF Decide
<1> QED
  BY <1>1, <1>2, RollbackKeeps, WorkKeeps DEF MailNext, mailVars

(* The applicant finds one notification for each final approval that was     *)
(* committed and none for one that was rolled back, whatever the other       *)
(* approvals, the grants and the mail worker do in between.                  *)
THEOREM NoticePerDecision == MailSpec => []OneNoticeEach
<1>1. LedgerInv /\ [MailNext]_mailVars => LedgerInv'
  BY MailStepsLedger, NextLedger
<1>2. LedgerInv /\ NoticeInv /\ [MailNext]_mailVars => NoticeInv'
  BY NextNotice
<1>3. NoticeInv => OneNoticeEach
  BY DEF NoticeInv
<1> QED
  BY <1>1, <1>2, <1>3, InitNotice, PTL DEF MailSpec

(* Taken apart for the notifications, the transactions of approvals are      *)
(* still those of the ledger: every step of the one is a step of the other   *)
(* or leaves the balances alone.                                             *)
THEOREM MailImplementsLedger == MailSpec => Spec
<1>1. MailInit => Init
  BY DEF MailInit
<1> QED
  BY <1>1, MailStepsLedger, PTL DEF MailSpec, Spec
=============================================================================
