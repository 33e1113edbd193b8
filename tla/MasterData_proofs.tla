-------------------------- MODULE MasterData_proofs --------------------------
(***************************************************************************)
(* For any organization, requests and starts of the container: whoever set  *)
(* the organization up left an administrator, no member has two work        *)
(* patterns on a day, nobody loses his department unasked, the database     *)
(* refuses nothing that a request nobody overlapped has checked, and lists  *)
(* show whom a single read may see. The invariant says how far the seed has *)
(* got by its row and that it has the database to itself (the handlers are  *)
(* lost with the server, and the seed only runs while there is no           *)
(* organization), which rows there are, and that what a handler alone has   *)
(* checked is still so when it writes. Last, the walk of accessibleDeptIds  *)
(* in a table of departments of any shape.                                  *)
(***************************************************************************)
EXTENDS MasterData, FiniteSetTheorems, TLAPS

(* Facts about the constants of the module: the lists of checks, the first  *)
(* state of the container and the rows of the seed.                         *)
LEMMA ChecksLength ==
  ASSUME NEW op
  PROVE  Len(Checks(op)) \in Nat
BY DEF Checks

LEMMA Start0Fields == DOMAIN Start0 = {"pc", "row", "starts", "cut", "seed"}
BY DEF Start0

LEMMA Rows ==
  ASSUME NEW i \in 1..21
  PROVE  /\ i = 1 <=> SeedRows[i].table = "organization"
         /\ i = 9 <=> SeedRows[i].table = "user_role"
         /\ i \in 15..17 <=> SeedRows[i].table = "user_work_pattern"
         /\ i \in {1, 9} => SeedRows[i].id = demo
         /\ SeedRows[15].id = taro /\ SeedRows[16].id = jiro /\ SeedRows[17].id = hana
<1> SeedRows[15].id = taro /\ SeedRows[16].id = jiro /\ SeedRows[17].id = hana
  BY DEF SeedRows, Row
<1>1. CASE i = 1
  BY <1>1 DEF SeedRows, Row, NoReader
<1>2. CASE i = 2
  BY <1>2 DEF SeedRows, Row, NoReader
<1>3. CASE i = 3
  BY <1>3 DEF SeedRows, Row, NoReader
<1>4. CASE i = 4
  BY <1>4 DEF SeedRows, Row, NoReader
<1>5. CASE i = 5
  BY <1>5 DEF SeedRows, Row, NoReader
<1>6. CASE i = 6
  BY <1>6 DEF SeedRows, Row, NoReader
<1>7. CASE i = 7
  BY <1>7 DEF SeedRows, Row, NoReader
<1>8. CASE i = 8
  BY <1>8 DEF SeedRows, Row, NoReader
<1>9. CASE i = 9
  BY <1>9 DEF SeedRows, Row, NoReader
<1>10. CASE i = 10
  BY <1>10 DEF SeedRows, Row, NoReader
<1>11. CASE i = 11
  BY <1>11 DEF SeedRows, Row, NoReader
<1>12. CASE i = 12
  BY <1>12 DEF SeedRows, Row, NoReader
<1>13. CASE i = 13
  BY <1>13 DEF SeedRows, Row, NoReader
<1>14. CASE i = 14
  BY <1>14 DEF SeedRows, Row, NoReader
<1>15. CASE i = 15
  BY <1>15 DEF SeedRows, Row, NoReader
<1>16. CASE i = 16
  BY <1>16 DEF SeedRows, Row, NoReader
<1>17. CASE i = 17
  BY <1>17 DEF SeedRows, Row, NoReader
<1>18. CASE i = 18
  BY <1>18 DEF SeedRows, Row, NoReader
<1>19. CASE i = 19
  BY <1>19 DEF SeedRows, Row, NoReader
<1>20. CASE i = 20
  BY <1>20 DEF SeedRows, Row, NoReader
<1>21. CASE i = 21
  BY <1>21 DEF SeedRows, Row, NoReader
<1> QED
  BY <1>1, <1>2, <1>3, <1>4, <1>5, <1>6, <1>7, <1>8, <1>9, <1>10, <1>11, <1>12, <1>13, <1>14, <1>15, <1>16, <1>17, <1>18, <1>19, <1>20, <1>21

LEMMA SeedLength == Len(SeedRows) = 21
BY DEF SeedRows
-----------------------------------------------------------------------------
(* The inductive invariant                                                  *)

BootTyped ==
  /\ DOMAIN boot = {"pc", "row", "starts", "cut", "seed"}
  /\ boot.pc \in {"down", "seed", "up"}
  /\ boot.pc = "seed" => boot.row \in 1..21

CallsTyped ==
  /\ DOMAIN call = Calls
  /\ \A c \in Calls :
       /\ DOMAIN call[c] = DOMAIN Idle
       /\ call[c].pc \in Nat
       /\ call[c].pc > 0 => call[c].req \in Inputs

(* Handlers are lost with the server, and before there is an organization   *)
(* nothing but a setup is accepted: the seed has the database to itself.    *)
Alone ==
  /\ boot.pc # "up" => \A c \in Calls : call[c].pc = 0
  /\ orgs = {} => /\ assigned = {}
                   /\ \A c \in Calls : call[c].pc > 0 => call[c].req.op = "setup"

(* How far the seed has got, by its row.                                    *)
Seeded ==
  boot.pc = "seed" =>
    /\ orgs = IF boot.row = 1 THEN {} ELSE {demo}
    /\ boot.row > 9 => demo \in admins
    /\ boot.row <= 15 => assigned = {}
    /\ boot.row = 16 => \A a \in assigned : a.user = taro
    /\ boot.row = 17 => \A a \in assigned : a.user \in {taro, jiro}

Spans == \A a \in assigned : a.span \in Nat \X Nat /\ a.span[1] <= a.span[2]

DataInv ==
  /\ BootTyped /\ CallsTyped /\ Alone /\ Seeded /\ Spans
  /\ InitializedHasAdmin /\ AssignmentsDisjoint

LEMMA InitData == DataInit => DataInv
<1> SUFFICES ASSUME DataInit PROVE DataInv
  OBVIOUS
<1>1. PICK s \in Seeding : boot = [Start0 EXCEPT !.seed = s]
  BY DEF DataInit
<1>2. BootTyped /\ boot.pc = "down"
  BY <1>1, Start0Fields DEF Start0, BootTyped
<1>3. CallsTyped
  BY DEF DataInit, CallsTyped, Idle
<1>4. Alone /\ Seeded /\ Spans /\ InitializedHasAdmin /\ AssignmentsDisjoint
  BY <1>2 DEF DataInit, Alone, Idle, Seeded, Spans, InitializedHasAdmin, AssignmentsDisjoint
<1> QED
  BY <1>2, <1>3, <1>4 DEF DataInv

-----------------------------------------------------------------------------
(* The steps that leave the tables alone                                    *)

Untouched == orgs' = orgs /\ admins' = admins /\ assigned' = assigned

LEMMA TablesKept ==
  ASSUME UNCHANGED tables
  PROVE  Untouched
BY DEF tables, Untouched

(* Of the tables nothing changes, of the calls only what is allowed: the    *)
(* rest of the invariant follows.                                           *)
LEMMA QuietStep ==
  ASSUME DataInv, Untouched, CallsTyped', UNCHANGED boot,
         \A c \in Calls : call'[c].pc > 0 =>
           /\ boot.pc = "up"
           /\ orgs = {} => call'[c].req.op = "setup"
  PROVE  DataInv'
<1>1. BootTyped' /\ Seeded' /\ Spans' /\ InitializedHasAdmin' /\ AssignmentsDisjoint'
  BY DEF DataInv, Untouched, BootTyped, Seeded, Spans, InitializedHasAdmin,
         AssignmentsDisjoint, PeriodsOverlap
<1>2. Alone'
  BY DEF DataInv, Untouched, Alone, CallsTyped
<1> QED
  BY <1>1, <1>2 DEF DataInv

LEMMA BootStep ==
  ASSUME DataInv, Boot
  PROVE  DataInv'
<1>1. Untouched /\ UNCHANGED call
  BY TablesKept DEF Boot
<1>2. BootTyped' /\ CallsTyped'
  BY <1>1 DEF Boot, DataInv, BootTyped, CallsTyped
<1>3. boot'.cut = boot.cut /\ boot'.pc \in {"seed", "up"}
      /\ (boot'.pc = "seed" => orgs = {} /\ boot'.row = 1)
  BY DEF Boot, DataInv, BootTyped
<1>4. Alone'
  BY <1>1, <1>3 DEF Boot, DataInv, Alone, Untouched
<1>5. Seeded' /\ Spans' /\ AssignmentsDisjoint' /\ InitializedHasAdmin'
  BY <1>1, <1>3 DEF Boot, DataInv, Untouched, Alone, Seeded, Spans, AssignmentsDisjoint,
                    PeriodsOverlap, InitializedHasAdmin
<1> QED
  BY <1>2, <1>4, <1>5 DEF DataInv

LEMMA CutSeedStep ==
  ASSUME DataInv, CutSeed
  PROVE  DataInv'
<1>1. Untouched /\ UNCHANGED call
  BY TablesKept DEF CutSeed
<1>2. PICK pc \in {"up", "down"} :
        boot' = [boot EXCEPT !.pc = pc, !.cut = @ \/ boot.row > 1]
  BY DEF CutSeed
<1>3. BootTyped' /\ CallsTyped' /\ boot'.pc = pc
  BY <1>1, <1>2 DEF DataInv, BootTyped, CallsTyped
<1>4. Alone' /\ Seeded' /\ Spans' /\ AssignmentsDisjoint'
  BY <1>1, <1>3 DEF CutSeed, DataInv, Untouched, Alone, Seeded, Spans, AssignmentsDisjoint,
                    PeriodsOverlap
<1>5. InitializedHasAdmin'
  <2>1. CASE boot.row = 1
    BY <1>1, <2>1 DEF CutSeed, DataInv, Seeded, Untouched, InitializedHasAdmin
  <2>2. CASE boot.row # 1
    <3>1. boot.row > 1
      BY <2>2 DEF CutSeed, DataInv, BootTyped
    <3>2. boot'.cut
      BY <1>2, <3>1 DEF DataInv, BootTyped
    <3> QED
      BY <3>2 DEF InitializedHasAdmin
  <2> QED
    BY <2>1, <2>2
<1> QED
  BY <1>3, <1>4, <1>5 DEF DataInv

LEMMA StopStep ==
  ASSUME DataInv, Stop
  PROVE  DataInv'
<1>1. Untouched
  BY TablesKept DEF Stop
<1>2. BootTyped' /\ CallsTyped' /\ boot'.cut = boot.cut /\ boot'.pc = "down"
  BY DEF Stop, DataInv, BootTyped, CallsTyped, Idle
<1>3. Alone'
  BY <1>1 DEF Stop, Idle, DataInv, Alone, Untouched
<1>4. Seeded' /\ Spans' /\ AssignmentsDisjoint' /\ InitializedHasAdmin'
  BY <1>1, <1>2 DEF Stop, DataInv, Untouched, Seeded, Spans, AssignmentsDisjoint,
                    PeriodsOverlap, InitializedHasAdmin
<1> QED
  BY <1>2, <1>3, <1>4 DEF DataInv
-----------------------------------------------------------------------------
(* The handlers                                                             *)

(* A call that moves on keeps its request and its shape.                    *)
LEMMA CallStep ==
  ASSUME DataInv, Untouched, UNCHANGED boot, NEW c \in Calls, NEW k,
         call' = [call EXCEPT ![c] = k],
         DOMAIN k = DOMAIN Idle, k.pc \in Nat,
         k.pc > 0 => call[c].pc > 0 /\ k.req = call[c].req
  PROVE  DataInv'
<1>1. CallsTyped'
  BY DEF DataInv, CallsTyped
<1>2. \A d \in Calls : call'[d].pc > 0 =>
        boot.pc = "up" /\ (orgs = {} => call'[d].req.op = "setup")
  BY DEF DataInv, CallsTyped, Alone
<1> QED
  BY <1>1, <1>2, QuietStep

LEMMA IdleShape ==
  /\ DOMAIN Idle = {"pc", "req", "n", "alone", "found", "at", "from"}
  /\ Idle.pc = 0
BY DEF Idle

LEMMA IdleStep ==
  ASSUME DataInv, Untouched, UNCHANGED boot, NEW c \in Calls,
         call' = [call EXCEPT ![c] = Idle]
  PROVE  DataInv'
<1> DEFINE k == Idle
<1>1. DOMAIN k = DOMAIN Idle /\ k.pc \in Nat /\ ~(k.pc > 0)
  BY IdleShape
<1>2. call' = [call EXCEPT ![c] = k]
  OBVIOUS
<1> HIDE DEF k
<1> QED
  BY <1>1, <1>2, CallStep

LEMMA NoCardinality == ~(Cardinality({}) = 1)
BY FS_EmptySet

LEMMA SendStep ==
  ASSUME DataInv, NEW c \in Calls, NEW r \in Inputs, Send(c, r)
  PROVE  DataInv'
<1>1. Untouched /\ UNCHANGED boot /\ boot.pc = "up"
  BY TablesKept DEF Send
<1>2. orgs = {} => r.op = "setup"
  BY NoCardinality DEF Send, MaySend
<1>3. CallsTyped' /\ \A d \in Calls : call'[d].pc > 0 =>
                       (orgs = {} => call'[d].req.op = "setup")
  BY <1>2 DEF Send, DataInv, CallsTyped, Idle, Alone
<1> QED
  BY <1>1, <1>3, QuietStep

LEMMA CheckStep ==
  ASSUME DataInv, NEW c \in Calls, Check(c)
  PROVE  DataInv'
<1>1. Untouched /\ UNCHANGED boot
  BY TablesKept DEF Check
<1>2. call[c].pc \in Nat /\ call[c].pc > 0 /\ DOMAIN call[c] = DOMAIN Idle
  BY ChecksLength DEF Check, DataInv, CallsTyped
<1> DEFINE check == Checks(call[c].req.op)[call[c].pc]
           at == IF check = "target" THEN home[call[c].req.id] ELSE call[c].at
           found == IF check = "existing rule" THEN call[c].req.id \in rules ELSE call[c].found
           k == [call[c] EXCEPT !.pc = @ + 1, !.at = at, !.found = found]
<1>3. CASE ~Passes(call[c], check)
  <2>1. call' = [call EXCEPT ![c] = Idle]
    BY <1>3 DEF Check
  <2> QED
    BY <1>1, <2>1, IdleStep
<1>4. CASE Passes(call[c], check)
  <2>1. call' = [call EXCEPT ![c] = k]
    BY <1>4, Zenon DEF Check
  <2>2. DOMAIN k = DOMAIN Idle /\ k.pc \in Nat /\ k.req = call[c].req
    <3> HIDE DEF at, found
    <3> QED
      BY <1>2, IdleShape
  <2> HIDE DEF k
  <2> QED
    BY <1>1, <1>2, <2>1, <2>2, CallStep
<1> QED
  BY <1>3, <1>4

LEMMA DepartmentsStep ==
  ASSUME DataInv, NEW c \in Calls, ReadDepartments(c)
  PROVE  DataInv'
<1>1. Untouched /\ UNCHANGED boot
  BY TablesKept DEF ReadDepartments
<1>2. call[c].pc \in Nat /\ call[c].pc > 0 /\ DOMAIN call[c] = DOMAIN Idle
  BY ChecksLength DEF ReadDepartments, AtCheck, DataInv, CallsTyped
<1> DEFINE k == [call[c] EXCEPT !.pc = @ + 1]
<1>3. call' = [call EXCEPT ![c] = k]
  BY DEF ReadDepartments
<1>4. DOMAIN k = DOMAIN Idle /\ k.pc \in Nat /\ k.req = call[c].req
  BY <1>2, IdleShape
<1> HIDE DEF k
<1> QED
  BY <1>1, <1>2, <1>3, <1>4, CallStep

LEMMA RefusedStep ==
  ASSUME DataInv, NEW c \in Calls, Refused(c)
  PROVE  DataInv'
<1>1. Untouched /\ UNCHANGED boot
  BY TablesKept DEF Refused
<1>2. call' = [call EXCEPT ![c] = Idle]
  BY DEF Refused
<1> QED
  BY <1>1, <1>2, IdleStep

LEMMA RecordStep ==
  ASSUME DataInv, NEW c \in Calls, Record(c)
  PROVE  DataInv'
<1>1. Untouched /\ UNCHANGED boot
  BY TablesKept DEF Record
<1>2. call' = [call EXCEPT ![c] = Idle]
  BY DEF Record
<1> QED
  BY <1>1, <1>2, IdleStep

LEMMA WalkStep ==
  ASSUME DataInv, Walk
  PROVE  DataInv'
<1>1. Untouched /\ UNCHANGED <<boot, call>>
  BY TablesKept DEF Walk
<1>2. CallsTyped' /\ \A d \in Calls : call'[d].pc > 0 =>
        boot.pc = "up" /\ (orgs = {} => call'[d].req.op = "setup")
  BY <1>1 DEF DataInv, CallsTyped, Alone
<1> QED
  BY <1>1, <1>2, QuietStep
-----------------------------------------------------------------------------
(* The seed and the writes                                                  *)

Assignment(u, p, span, n) == [user |-> u, pattern |-> p, span |-> span, by |-> n]

LEMMA InsertEffect ==
  ASSUME NEW t, NEW id, NEW ref, NEW span, NEW n, Insert(t, id, ref, span, n)
  PROVE  /\ orgs' = IF t = "organization" THEN orgs \cup {id} ELSE orgs
         /\ admins' = IF t = "user_role" THEN admins \cup {id} ELSE admins
         /\ assigned' = IF t = "user_work_pattern"
                          THEN assigned \cup {Assignment(id, ref, span, n)} ELSE assigned
BY DEF Insert, Assignment

LEMMA OverlapMeets ==
  ASSUME NEW p \in Nat \X Nat, NEW q \in Nat \X Nat,
         p[1] <= p[2], q[1] <= q[2], PeriodsOverlap(p, q)
  PROVE  DatesMeet(p, q)
<1>1. CASE p[1] <= q[1]
  <2>1. q[1] \in p[1]..p[2] /\ q[1] \in q[1]..q[2]
    BY <1>1 DEF PeriodsOverlap
  <2> QED
    BY <2>1 DEF DatesMeet
<1>2. CASE q[1] <= p[1]
  <2>1. p[1] \in p[1]..p[2] /\ p[1] \in q[1]..q[2]
    BY <1>2 DEF PeriodsOverlap
  <2> QED
    BY <2>1 DEF DatesMeet
<1> QED
  BY <1>1, <1>2

LEMMA MeetOverlaps ==
  ASSUME NEW p \in Nat \X Nat, NEW q \in Nat \X Nat, ~PeriodsOverlap(p, q)
  PROVE  ~DatesMeet(p, q)
<1>1. p[1] \in Nat /\ p[2] \in Nat /\ q[1] \in Nat /\ q[2] \in Nat
  OBVIOUS
<1>2. ASSUME NEW d \in p[1]..p[2], d \in q[1]..q[2]
      PROVE  p[1] <= q[2] /\ q[1] <= p[2]
  BY <1>1, <1>2
<1> QED
  BY <1>2 DEF PeriodsOverlap, DatesMeet

LEMMA OverlapSymmetric ==
  ASSUME NEW p, NEW q, PeriodsOverlap(p, q)
  PROVE  PeriodsOverlap(q, p)
BY DEF PeriodsOverlap

(* One more assignment keeps them disjoint when the member had none on its  *)
(* days.                                                                    *)
LEMMA OneMore ==
  ASSUME Spans, AssignmentsDisjoint, NEW u, NEW p, NEW span \in Nat \X Nat, NEW n,
         span[1] <= span[2],
         \A a \in assigned : a.user = u => ~DatesMeet(span, a.span),
         assigned' = assigned \cup {Assignment(u, p, span, n)}
  PROVE  Spans' /\ AssignmentsDisjoint'
<1> DEFINE x == Assignment(u, p, span, n)
<1>1. x.user = u /\ x.span = span
  BY DEF Assignment
<1> HIDE DEF x
<1>2. Spans'
  BY <1>1 DEF Spans, x
<1>3. \A a \in assigned : a.user = x.user => ~PeriodsOverlap(x.span, a.span)
  BY <1>1, OverlapMeets DEF Spans
<1>4. AssignmentsDisjoint'
  <2> SUFFICES ASSUME NEW a \in assigned', NEW b \in assigned', a.user = b.user, a # b
               PROVE  ~PeriodsOverlap(a.span, b.span)
    BY DEF AssignmentsDisjoint, PeriodsOverlap
  <2>1. CASE a = x
    BY <1>3, <2>1 DEF x
  <2>2. CASE b = x
    BY <1>3, <2>2, OverlapSymmetric DEF x
  <2>3. CASE a # x /\ b # x
    BY <2>3 DEF AssignmentsDisjoint, x
  <2> QED
    BY <2>1, <2>2, <2>3
<1> QED
  BY <1>2, <1>4

LEMMA AlwaysSpan == Always \in Nat \X Nat /\ Always[1] <= Always[2]
BY DEF Always

LEMMA SeedStep ==
  ASSUME DataInv, Seed
  PROVE  DataInv'
<1> DEFINE i == boot.row
           r == SeedRows[i]
<1>1. i \in 1..21 /\ boot.pc = "seed" /\ UNCHANGED call
  BY DEF Seed, DataInv, BootTyped
<1>2. Insert(r.table, r.id, r.ref, Always, 0)
  BY DEF Seed
<1>3. /\ i = 1 <=> r.table = "organization"
      /\ i = 9 <=> r.table = "user_role"
      /\ i \in 15..17 <=> r.table = "user_work_pattern"
      /\ i \in {1, 9} => r.id = demo
      /\ (i = 15 => r.id = taro) /\ (i = 16 => r.id = jiro) /\ (i = 17 => r.id = hana)
  BY <1>1, Rows
<1> DEFINE x == Assignment(r.id, r.ref, Always, 0)
<1> HIDE DEF r
<1>4. /\ orgs' = IF i = 1 THEN orgs \cup {demo} ELSE orgs
      /\ admins' = IF i = 9 THEN admins \cup {demo} ELSE admins
      /\ assigned' = IF i \in 15..17 THEN assigned \cup {x} ELSE assigned
  BY <1>2, <1>3, InsertEffect
<1>5. /\ boot'.cut = boot.cut
      /\ DOMAIN boot' = DOMAIN boot
      /\ IF i = 21 THEN boot'.pc = "up" ELSE boot'.pc = "seed" /\ boot'.row = i + 1
  BY <1>1, SeedLength DEF Seed, DataInv, BootTyped
<1>6. BootTyped' /\ CallsTyped'
  BY <1>1, <1>5 DEF DataInv, BootTyped, CallsTyped
<1>7. Spans' /\ AssignmentsDisjoint'
  <2>1. CASE i \in 15..17
    <3>1. \A a \in assigned : a.user # r.id
      BY <1>1, <1>3, <2>1, SeedAssumption DEF DataInv, Seeded
    <3>2. assigned' = assigned \cup {x}
      BY <1>4, <2>1
    <3> QED
      BY <3>1, <3>2, AlwaysSpan, OneMore DEF DataInv
  <2>2. CASE i \notin 15..17
    BY <1>4, <2>2 DEF DataInv, Spans, AssignmentsDisjoint, PeriodsOverlap
  <2> QED
    BY <2>1, <2>2
<1>8. \A c \in Calls : call'[c].pc = 0
  BY <1>1 DEF DataInv, Alone
<1>9. orgs' = {demo} /\ (i >= 9 => demo \in admins')
  BY <1>1, <1>4 DEF DataInv, Seeded
<1>10. Alone'
  BY <1>8, <1>9, <1>6 DEF Alone, CallsTyped
<1>11. boot'.pc = "seed" => boot'.row = i + 1 /\ i # 21
  BY <1>5
<1>12. Seeded'
  <2> SUFFICES ASSUME boot'.pc = "seed" PROVE Seeded'
    BY DEF Seeded
  <2>1. boot'.row <= 15 => assigned' = {}
    BY <1>1, <1>4, <1>11 DEF DataInv, Seeded
  <2>2. boot'.row = 16 => \A a \in assigned' : a.user = taro
    BY <1>1, <1>3, <1>4, <1>11 DEF DataInv, Seeded, Assignment
  <2>3. boot'.row = 17 => \A a \in assigned' : a.user \in {taro, jiro}
    BY <1>1, <1>3, <1>4, <1>11 DEF DataInv, Seeded, Assignment
  <2>4. boot'.row > 9 => demo \in admins'
    BY <1>1, <1>9, <1>11
  <2> QED
    BY <1>1, <1>9, <1>11, <2>1, <2>2, <2>3, <2>4 DEF Seeded
<1>13. InitializedHasAdmin'
  BY <1>1, <1>5, <1>9 DEF InitializedHasAdmin
<1> QED
  BY <1>6, <1>7, <1>10, <1>12, <1>13 DEF DataInv

-----------------------------------------------------------------------------
LEMMA WriteEffect ==
  ASSUME DataInv, NEW c \in Calls, Write(c)
  PROVE  LET r == call[c].req
             n == call[c].n
         IN
         /\ \/ orgs' = orgs /\ admins' = admins
            \/ r.op = "setup" /\ orgs' = orgs \cup {n} /\ admins' = admins \cup {n}
         /\ \/ assigned' = assigned
            \/ /\ r.op = "user.assignWorkPattern"
               /\ assigned' = assigned \cup {Assignment(r.id, r.ref, r.span, n)}
<1> DEFINE r == call[c].req
           n == call[c].n
<1>1. ASSUME NEW t, InsertFor(c, t), t \notin {"organization", "user_role"}
      PROVE  /\ orgs' = orgs /\ admins' = admins
             /\ assigned' = IF t = "user_work_pattern"
                              THEN assigned \cup {Assignment(r.id, r.ref, r.span, n)}
                              ELSE assigned
  BY <1>1, InsertEffect DEF InsertFor
<1>2. CASE UNCHANGED tables
  BY <1>2 DEF tables
<1>3. CASE Delete(r.id)
  BY <1>3 DEF Delete
<1>4. CASE UpdateDepartment(c) \/ MoveMember(c)
  BY <1>4 DEF UpdateDepartment, MoveMember
<1>5. CASE Setup(c)
  BY <1>5 DEF Setup, AtWrite
<1>6. CASE AssignWorkPattern(c)
  BY <1>1, <1>6 DEF AssignWorkPattern, AtWrite
<1>7. CASE \E t \in {"department", "app_user", "work_pattern", "work_rule", "leave_type",
                     "leave_balance", "request", "csv_mapping", "shift"} : InsertFor(c, t)
  BY <1>1, <1>7
<1>8. \/ UNCHANGED tables \/ Delete(r.id) \/ UpdateDepartment(c) \/ MoveMember(c)
      \/ Setup(c) \/ AssignWorkPattern(c)
      \/ \E t \in {"department", "app_user", "work_pattern", "work_rule", "leave_type",
                   "leave_balance", "request", "csv_mapping", "shift"} : InsertFor(c, t)
  BY DEF Write, CreateDepartment, RemoveDepartment, CreateMember, CreatePattern,
         UpdatePattern, SetRule, RemovePattern, CreateType, UpdateType, RemoveType,
         GrantBalance, FileLeave, CreateMapping, UpdateMapping, RemoveMapping, PlanShift,
         UpdateOrganization
<1> QED
  BY <1>2, <1>3, <1>4, <1>5, <1>6, <1>7, <1>8

LEMMA WriteStep ==
  ASSUME DataInv, NEW c \in Calls, Write(c)
  PROVE  DataInv'
<1> DEFINE r == call[c].req
           n == call[c].n
<1>1. /\ \/ orgs' = orgs /\ admins' = admins
         \/ r.op = "setup" /\ orgs' = orgs \cup {n} /\ admins' = admins \cup {n}
      /\ \/ assigned' = assigned
         \/ /\ r.op = "user.assignWorkPattern"
            /\ assigned' = assigned \cup {Assignment(r.id, r.ref, r.span, n)}
  BY WriteEffect
<1>2. call[c].pc > 0 /\ call[c].pc \in Nat /\ r \in Inputs /\ Constraints(call[c])
      /\ UNCHANGED boot
  BY ChecksLength DEF Write, Writing, DataInv, CallsTyped
<1>3. boot.pc = "up" /\ (orgs = {} => r.op = "setup")
  BY <1>2 DEF DataInv, BootTyped, Alone
<1>4. BootTyped' /\ Seeded'
  BY <1>2, <1>3 DEF DataInv, BootTyped, Seeded
<1>5. InitializedHasAdmin'
  BY <1>1, <1>2, <1>3 DEF DataInv, InitializedHasAdmin
<1>6. Spans' /\ AssignmentsDisjoint'
  <2>1. CASE assigned' = assigned
    BY <2>1 DEF DataInv, Spans, AssignmentsDisjoint, PeriodsOverlap
  <2>2. CASE /\ r.op = "user.assignWorkPattern"
             /\ assigned' = assigned \cup {Assignment(r.id, r.ref, r.span, n)}
    <3>1. \A a \in assigned : a.user = r.id => ~DatesMeet(r.span, a.span)
      BY <1>2, <2>2 DEF Constraints
    <3>2. r.span \in Nat \X Nat /\ r.span[1] <= r.span[2]
      BY <1>2, <2>2, InputAssumption
    <3> HIDE DEF r, n
    <3> QED
      BY <2>2, <3>1, <3>2, OneMore DEF DataInv
  <2> QED
    BY <1>1, <2>1, <2>2
<1>7. CallsTyped' /\ \A d \in Calls : call'[d].pc > 0 => call[d].pc > 0 /\ call'[d].req = call[d].req
  <2> DEFINE k == [call[c] EXCEPT !.pc = @ + 1]
  <2>1. call' = [call EXCEPT ![c] = k] \/ call' = [call EXCEPT ![c] = Idle]
    BY DEF Write
  <2>2. DOMAIN k = DOMAIN Idle /\ k.pc \in Nat /\ k.req = r
    BY <1>2, IdleShape DEF DataInv, CallsTyped
  <2> HIDE DEF k
  <2> QED
    BY <1>2, <2>1, <2>2, IdleShape DEF DataInv, CallsTyped
<1>8. Alone'
  BY <1>1, <1>2, <1>3, <1>7 DEF DataInv, Alone, CallsTyped
<1> QED
  BY <1>4, <1>5, <1>6, <1>7, <1>8 DEF DataInv

-----------------------------------------------------------------------------
LEMMA NextData ==
  ASSUME DataInv, [DataNext]_dataVars
  PROVE  DataInv'
<1>1. CASE UNCHANGED dataVars
  BY <1>1 DEF dataVars, tables, DataInv, BootTyped, CallsTyped, Alone, Seeded, Spans,
              InitializedHasAdmin, AssignmentsDisjoint, PeriodsOverlap
<1>2. CASE Boot \/ Seed \/ CutSeed \/ Stop \/ Walk
  BY <1>2, BootStep, SeedStep, CutSeedStep, StopStep, WalkStep
<1>3. ASSUME NEW c \in Calls, Handle(c)
      PROVE  DataInv'
  BY <1>3, CheckStep, DepartmentsStep, WriteStep, RefusedStep, RecordStep DEF Handle
<1>4. ASSUME NEW c \in Calls, NEW r \in Inputs, Send(c, r)
      PROVE  DataInv'
  BY <1>4, SendStep
<1> QED
  BY <1>1, <1>2, <1>3, <1>4 DEF DataNext

LEMMA DataAlways == DataSpec => []DataInv
<1>1. DataInv /\ [DataNext]_dataVars => DataInv'
  BY NextData
<1> QED
  BY <1>1, InitData, PTL DEF DataSpec

(* Whatever setups, starts of the container and requests overlap, and       *)
(* wherever the seed's rows are read: an organization has its administrator *)
(* unless the seed was cut short.                                           *)
THEOREM AdminWithOrganization == DataSpec => []InitializedHasAdmin
<1>1. DataInv => InitializedHasAdmin
  BY DEF DataInv
<1> QED
  BY <1>1, DataAlways, PTL

(* For any number of members, patterns and overlapping requests: no two     *)
(* work patterns of a member share a day. The check of assignWorkPattern is *)
(* not what it rests on but the exclusion constraint, whose date ranges     *)
(* include both their ends as the periods do.                               *)
THEOREM PatternsDisjoint == DataSpec => []AssignmentsDisjoint
<1>1. DataInv => AssignmentsDisjoint
  BY DEF DataInv
<1> QED
  BY <1>1, DataAlways, PTL

-----------------------------------------------------------------------------
(* Which rows there are, and what a handler alone has found out             *)

Steps(op) == Len(Checks(op))

(* Rows that are not there refer to nothing.                                *)
RowsTyped ==
  /\ home \in [Users -> Depts \cup {NoDept}]
  /\ above \in [Depts -> Depts \cup {NoDept}]
  /\ NoDept \notin exists
  /\ \A u \in Users : u \notin exists => home[u] = NoDept
  /\ \A d \in Depts : d \notin exists => above[d] = NoDept

(* Until the seed inserts its departments there are no rows.                *)
SeedFirst ==
  /\ orgs = {} => exists = {}
  /\ boot.pc = "seed" /\ boot.row <= 4 => exists = {}

(* The id of a department to be created is given to no row and to no other  *)
(* request.                                                                 *)
SeededIds == {hq, dev, std, paid, comp}

Pending(c) == call[c].pc \in 1..(Steps(call[c].req.op) + 1)

NewIdsFree ==
  /\ exists \subseteq used \cup Users \cup SeededIds
  /\ \A c \in Calls :
       call[c].pc > 0 =>
         /\ NewIds(call[c].req) \subseteq used
         /\ \A b \in Calls \ {c} :
              call[b].pc > 0 => NewIds(call[b].req) \cap NewIds(call[c].req) = {}
         /\ Pending(c) => NewIds(call[c].req) \cap exists = {}

(* Members are never removed: the one looked up is still there.             *)
MemberFound(k) == k.pc > 1 /\ k.req.op = "member.update" => k.req.id \in exists

MembersFound == \A c \in Calls : \A k \in {call[c]} : MemberFound(k)

(* What a handler nobody overlapped has checked is still so when it writes. *)
Found(k) ==
  /\ \A i \in 1..Steps(k.req.op) :
       i < k.pc /\ Checks(k.req.op)[i] # "visible" => Passes(k, Checks(k.req.op)[i])
  /\ \A i \in 1..Steps(k.req.op) :
       i < k.pc /\ Checks(k.req.op)[i] = "existing rule" => k.found = (k.req.id \in rules)

LoneFinds ==
  \A c \in Calls :
    call[c].pc > 0 /\ call[c].alone =>
      /\ \A b \in Calls \ {c} : call[b].pc = 0
      /\ \A k \in {call[c]} : Pending(c) => Found(k)

RowInv == RowsTyped /\ SeedFirst /\ NewIdsFree /\ MembersFound /\ LoneFinds

LEMMA PassesByRequest ==
  ASSUME NEW k, NEW n, n.req = k.req, NEW check, check # "visible"
  PROVE  Passes(n, check) <=> Passes(k, check)
BY DEF Passes

LEMMA FoundKept ==
  ASSUME NEW k, UNCHANGED tables
  PROVE  Found(k)' <=> Found(k)
<1>1. ASSUME NEW check, check # "visible"
      PROVE  Passes(k, check)' <=> Passes(k, check)
  BY <1>1 DEF Passes, IsInitialized, NoMembers, tables
<1>2. rules' = rules
  BY DEF tables
<1> QED
  BY <1>1, <1>2 DEF Found

LEMMA StepsNat ==
  ASSUME NEW op
  PROVE  Steps(op) \in Nat
BY ChecksLength DEF Steps

(* What a check leaves behind: whether the pattern has a rule.              *)
Looked(k, n) ==
  n.found = IF Checks(k.req.op)[k.pc] = "existing rule" THEN k.req.id \in rules ELSE k.found

(* One check more.                                                          *)
LEMMA FoundMore ==
  ASSUME NEW k, NEW n, Found(k), n.req = k.req,
         k.pc \in 1..Steps(k.req.op), n.pc = k.pc + 1,
         Checks(k.req.op)[k.pc] # "visible" => Passes(k, Checks(k.req.op)[k.pc]),
         Looked(k, n)
  PROVE  Found(n)
<1> DEFINE op == k.req.op
<1>1. ASSUME NEW i \in 1..Steps(op), i < n.pc
      PROVE  i < k.pc \/ i = k.pc
  BY <1>1, StepsNat
<1>2. ASSUME NEW i \in 1..Steps(op), i < n.pc, Checks(op)[i] # "visible"
      PROVE  Passes(n, Checks(op)[i])
  <2>1. Passes(k, Checks(op)[i])
    BY <1>1, <1>2 DEF Found
  <2> QED
    BY <1>2, <2>1, PassesByRequest
<1>3. ASSUME NEW i \in 1..Steps(op), i < n.pc, Checks(op)[i] = "existing rule"
      PROVE  n.found = (n.req.id \in rules)
  BY <1>1, <1>3 DEF Found, Looked
<1> QED
  BY <1>2, <1>3 DEF Found

LEMMA InitRows == DataInit => RowInv
BY DEF DataInit, Start0, Idle, RowInv, RowsTyped, SeedFirst, NewIdsFree, LoneFinds, Pending,
       MembersFound, MemberFound

(* Steps of one handler that leave the tables alone.                        *)
LEMMA CallRows ==
  ASSUME DataInv, RowInv, UNCHANGED <<boot, tables, used>>, NEW c \in Calls, NEW k,
         call' = [call EXCEPT ![c] = k], k.pc \in Nat, MemberFound(k),
         k.pc > 0 => /\ call[c].pc > 0
                     /\ k.req = call[c].req /\ k.alone = call[c].alone
                     /\ k.pc >= call[c].pc
                     /\ k.alone /\ k.pc \in 1..(Steps(k.req.op) + 1) => Found(k)
  PROVE  RowInv'
<1>1. RowsTyped' /\ SeedFirst'
  BY DEF RowInv, RowsTyped, SeedFirst, tables
<1>2. /\ call'[c] = k
      /\ \A b \in Calls : b # c => call'[b] = call[b]
  BY DEF DataInv, CallsTyped
<1>3. \A b \in Calls : call'[b].pc > 0 => call[b].pc > 0 /\ call'[b].req = call[b].req
  BY <1>2
<1>4. \A b \in Calls : call'[b].pc > 0 /\ Pending(b)' => Pending(b)
  BY <1>2, ChecksLength DEF Pending, Steps, DataInv, CallsTyped
<1>5. NewIdsFree'
  BY <1>3, <1>4 DEF RowInv, NewIdsFree, tables
<1>6. ASSUME NEW b \in Calls, call'[b].pc > 0, call'[b].alone
      PROVE  /\ \A d \in Calls \ {b} : call'[d].pc = 0
             /\ \A n \in {call'[b]} : Pending(b)' => Found(n)'
  <2>1. call[b].pc > 0 /\ call[b].alone
    BY <1>2, <1>6
  <2>2. \A d \in Calls \ {b} : call[d].pc = 0
    BY <2>1 DEF RowInv, LoneFinds
  <2>3. \A d \in Calls \ {b} : call'[d].pc = 0
    BY <1>2, <2>1, <2>2 DEF DataInv, CallsTyped
  <2>4. ASSUME NEW n, n = call'[b], Pending(b)'
        PROVE  Found(n)
    <3>1. CASE b = c
      BY <1>2, <1>6, <2>4, <3>1 DEF Pending
    <3>2. CASE b # c
      BY <1>2, <1>4, <1>6, <2>1, <2>4, <3>2 DEF RowInv, LoneFinds
    <3> QED
      BY <3>1, <3>2
  <2> QED
    BY <2>3, <2>4, FoundKept
<1>7. LoneFinds'
  BY <1>6 DEF LoneFinds
<1>8. MembersFound'
  <2> SUFFICES ASSUME NEW b \in Calls, NEW n, n = call'[b]
               PROVE  MemberFound(n)'
    BY DEF MembersFound
  <2>1. MemberFound(n)
    BY <1>2 DEF RowInv, MembersFound
  <2> QED
    BY <2>1 DEF MemberFound, tables
<1> QED
  BY <1>1, <1>5, <1>7, <1>8 DEF RowInv

(* The ids of a request that creates a row are no members and not the seed's. *)
LEMMA NewIdsAreNew ==
  ASSUME NEW r \in Inputs
  PROVE  NewIds(r) \cap (Users \cup SeededIds) = {}
<1>1. NewIds(r) \cap SeededIds = {}
  BY IdAssumption DEF SeededIds
<1>2. ASSUME NEW x \in NewIds(r)
      PROVE  x \notin Users
  BY <1>2, IdAssumption DEF NewIds
<1> QED
  BY <1>1, <1>2

LEMMA SendRows ==
  ASSUME DataInv, RowInv, NEW c \in Calls, NEW r \in Inputs, Send(c, r)
  PROVE  RowInv'
<1>1. UNCHANGED <<boot, tables>> /\ used' = used \cup NewIds(r)
  BY DEF Send
<1>2. RowsTyped' /\ SeedFirst'
  BY <1>1 DEF RowInv, RowsTyped, SeedFirst, tables
<1> DEFINE k == [Idle EXCEPT !.pc = 1, !.req = r, !.n = sent + 1, !.alone = Resting,
                            !.from = IF r.op = "shift" THEN home[r.ref] ELSE NoDept]
<1>a. k.pc = 1 /\ k.req = r
  BY DEF Idle
<1>b. k.alone = Resting
  <2> DEFINE z == Resting
  <2>1. ASSUME NEW x PROVE [Idle EXCEPT !.pc = 1, !.req = r, !.n = sent + 1, !.alone = x,
                            !.from = IF r.op = "shift" THEN home[r.ref] ELSE NoDept].alone = x
    BY DEF Idle
  <2> HIDE DEF z
  <2> QED
    BY <2>1
<1>c. call[c].pc = 0 /\ call'[c] = k
  BY DEF Send
<1>d. ASSUME NEW b \in Calls, b # c
      PROVE  /\ call'[b].pc = call[b].pc /\ call'[b].req = call[b].req
             /\ call'[b].alone => call[b].pc = 0
  <2> DEFINE y == (call[b].pc = 0)
  <2>1. call'[b] = [call[b] EXCEPT !.alone = y]
    BY <1>d DEF Send
  <2>2. DOMAIN call[b] = DOMAIN Idle
    BY DEF DataInv, CallsTyped
  <2> HIDE DEF y
  <2>3. call'[b].pc = call[b].pc /\ call'[b].req = call[b].req /\ call'[b].alone = y
    BY <2>1, <2>2, IdleShape
  <2>4. call'[b].alone => y
    BY <2>3, Zenon
  <2> QED
    BY <2>3, <2>4 DEF y
<1>e. ASSUME NEW b \in Calls, call'[b].pc > 0, call'[b].alone
      PROVE  b = c
  BY <1>d, <1>e
<1> HIDE DEF k
<1>3. /\ call[c].pc = 0 /\ call'[c].pc = 1 /\ call'[c].req = r
      /\ \A b \in Calls \ {c} : call'[b].pc = call[b].pc /\ call'[b].req = call[b].req
  BY <1>a, <1>c, <1>d
<1>4. NewIds(r) \cap used = {} /\ NewIds(r) \cap exists = {}
  BY NewIdsAreNew DEF Send, MaySend, RowInv, NewIdsFree
<1>5. NewIdsFree'
  <2>1. exists' \subseteq used' \cup Users \cup SeededIds
    BY <1>1 DEF RowInv, NewIdsFree, tables
  <2>2. ASSUME NEW b \in Calls, call'[b].pc > 0
        PROVE  /\ NewIds(call'[b].req) \subseteq used'
               /\ \A d \in Calls \ {b} :
                    call'[d].pc > 0 => NewIds(call'[d].req) \cap NewIds(call'[b].req) = {}
               /\ Pending(b)' => NewIds(call'[b].req) \cap exists' = {}
    <3>1. CASE b = c
      BY <1>1, <1>3, <1>4, <3>1 DEF RowInv, NewIdsFree, tables
    <3>2. CASE b # c
      <4>1. call[b].pc > 0 /\ call'[b].req = call[b].req /\ (Pending(b)' <=> Pending(b))
        BY <1>3, <2>2, <3>2 DEF Pending
      <4> QED
        BY <1>1, <1>3, <1>4, <3>2, <4>1 DEF RowInv, NewIdsFree, tables
    <3> QED
      BY <3>1, <3>2
  <2> QED
    BY <2>1, <2>2 DEF NewIdsFree
<1>6. LoneFinds'
  <2> SUFFICES ASSUME NEW b \in Calls, call'[b].pc > 0, call'[b].alone
               PROVE  /\ \A d \in Calls \ {b} : call'[d].pc = 0
                      /\ \A x \in {call'[b]} : Pending(b)' => Found(x)'
    BY DEF LoneFinds
  <2>1. b = c
    BY <1>e
  <2>2. \A d \in Calls \ {b} : call'[d].pc = 0
    BY <1>b, <1>c, <1>3, <2>1 DEF Resting
  <2>3. ASSUME NEW x, x = call'[b]
        PROVE  Found(x)'
    <3>1. \A i \in 1..Steps(x.req.op) : ~(i < x.pc)
      BY <1>3, <2>1, <2>3, StepsNat
    <3> QED
      BY <3>1, Zenon DEF Found
  <2> QED
    BY <2>2, <2>3
<1>7. MembersFound'
  <2> SUFFICES ASSUME NEW b \in Calls, NEW x, x = call'[b]
               PROVE  MemberFound(x)'
    BY DEF MembersFound
  <2>1. CASE b = c
    BY <1>3, <2>1 DEF MemberFound
  <2>2. CASE b # c
    BY <1>1, <1>3, <2>2 DEF RowInv, MembersFound, MemberFound, tables
  <2> QED
    BY <2>1, <2>2
<1> QED
  BY <1>2, <1>5, <1>6, <1>7 DEF RowInv

(* A handler that gives up or is done.                                      *)
LEMMA IdleRows ==
  ASSUME DataInv, RowInv, UNCHANGED <<boot, tables, used>>, NEW c \in Calls,
         call' = [call EXCEPT ![c] = Idle]
  PROVE  RowInv'
<1> DEFINE k == Idle
<1>1. k.pc \in Nat /\ ~(k.pc > 0) /\ MemberFound(k)
  BY IdleShape DEF MemberFound
<1>2. call' = [call EXCEPT ![c] = k]
  OBVIOUS
<1> HIDE DEF k
<1> QED
  BY <1>1, <1>2, CallRows

(* A handler that passes a check.                                           *)
LEMMA PassRows ==
  ASSUME DataInv, RowInv, UNCHANGED <<boot, tables, used>>, NEW c \in Calls,
         NEW k, NEW n, k = call[c], k.pc \in 1..Steps(k.req.op),
         call' = [call EXCEPT ![c] = n], n.req = k.req, n.alone = k.alone,
         n.pc = k.pc + 1, Passes(k, Checks(k.req.op)[k.pc]),
         Looked(k, n)
  PROVE  RowInv'
<1>1. k.pc \in Nat /\ k.pc > 0 /\ Steps(k.req.op) \in Nat
  BY StepsNat
<1>2. k.alone => Found(k)
  BY <1>1 DEF RowInv, LoneFinds, Pending
<1>3. k.alone => Found(n)
  BY <1>2, FoundMore
<1>4. n.alone => Found(n)
  BY <1>3, Zenon
<1>5. /\ call[c].pc > 0 /\ n.req = call[c].req /\ n.alone = call[c].alone
      /\ n.pc \in Nat /\ n.pc >= call[c].pc
  BY <1>1
<1>6. MemberFound(n)
  <2> SUFFICES ASSUME k.req.op = "member.update" PROVE k.req.id \in exists
    BY DEF MemberFound
  <2>1. CASE k.pc = 1
    <3>1. Checks("member.update") = <<"id">>
      BY DEF Checks
    <3>2. Passes(k, "id")
      BY <2>1, <3>1
    <3> QED
      BY <3>2 DEF Passes
  <2>2. CASE k.pc # 1
    BY <1>1, <2>2 DEF RowInv, MembersFound, MemberFound
  <2> QED
    BY <2>1, <2>2
<1> QED
  BY <1>4, <1>5, <1>6, CallRows, Zenon

LEMMA CheckRows ==
  ASSUME DataInv, RowInv, NEW c \in Calls, Check(c)
  PROVE  RowInv'
<1>1. UNCHANGED <<boot, tables, used>>
  BY DEF Check
<1>2. call[c].pc \in 1..Steps(call[c].req.op) /\ DOMAIN call[c] = DOMAIN Idle
  BY ChecksLength DEF Check, Steps, DataInv, CallsTyped
<1> DEFINE check == Checks(call[c].req.op)[call[c].pc]
           at == IF check = "target" THEN home[call[c].req.id] ELSE call[c].at
           found == IF check = "existing rule" THEN call[c].req.id \in rules ELSE call[c].found
           n == [call[c] EXCEPT !.pc = @ + 1, !.at = at, !.found = found]
<1>3. CASE ~Passes(call[c], check)
  <2>1. call' = [call EXCEPT ![c] = Idle]
    BY <1>3 DEF Check
  <2> QED
    BY <1>1, <2>1, IdleRows
<1>4. CASE Passes(call[c], check)
  <2>1. call' = [call EXCEPT ![c] = n]
    BY <1>4, Zenon DEF Check
  <2>2. n.req = call[c].req /\ n.alone = call[c].alone /\ n.pc = call[c].pc + 1
        /\ n.found = found
    <3> HIDE DEF at, found
    <3> QED
      BY <1>2, IdleShape
  <2> HIDE DEF n
  <2>3. Looked(call[c], n)
    BY <2>2 DEF Looked
  <2> QED
    BY <1>1, <1>2, <1>4, <2>1, <2>2, <2>3, PassRows, Zenon
<1> QED
  BY <1>3, <1>4

LEMMA DepartmentsRows ==
  ASSUME DataInv, RowInv, NEW c \in Calls, ReadDepartments(c)
  PROVE  RowInv'
<1>1. UNCHANGED <<boot, tables, used>>
  BY DEF ReadDepartments
<1>2. call[c].pc \in 1..Steps(call[c].req.op) /\ DOMAIN call[c] = DOMAIN Idle
      /\ Checks(call[c].req.op)[call[c].pc] = "departments"
  BY ChecksLength DEF ReadDepartments, AtCheck, Steps, DataInv, CallsTyped
<1>3. ASSUME NEW k PROVE Passes(k, "departments")
  BY DEF Passes
<1> DEFINE n == [call[c] EXCEPT !.pc = @ + 1]
<1>4. call' = [call EXCEPT ![c] = n]
  BY DEF ReadDepartments
<1>5. n.req = call[c].req /\ n.alone = call[c].alone /\ n.pc = call[c].pc + 1
      /\ n.found = call[c].found
  BY <1>2, IdleShape
<1> HIDE DEF n
<1>6. Looked(call[c], n)
  BY <1>2, <1>5 DEF Looked
<1> QED
  BY <1>1, <1>2, <1>3, <1>4, <1>5, <1>6, PassRows, Zenon

(* Steps that leave the tables and the handlers alone.                      *)
LEMMA QuietRows ==
  ASSUME DataInv, RowInv, UNCHANGED <<tables, used, call>>,
         boot'.pc = "seed" /\ boot'.row <= 4 => orgs = {} \/ boot = boot'
  PROVE  RowInv'
<1>1. RowsTyped' /\ NewIdsFree'
  BY DEF RowInv, RowsTyped, NewIdsFree, Pending, tables
<1>2. SeedFirst'
  BY DEF RowInv, SeedFirst, tables
<1>3. ASSUME NEW k PROVE Found(k)' <=> Found(k)
  BY FoundKept
<1>4. LoneFinds'
  BY <1>3 DEF RowInv, LoneFinds, Pending
<1>5. MembersFound'
  BY DEF RowInv, MembersFound, MemberFound, tables
<1> QED
  BY <1>1, <1>2, <1>4, <1>5 DEF RowInv

LEMMA BootRows ==
  ASSUME DataInv, RowInv, Boot \/ CutSeed \/ Walk
  PROVE  RowInv'
<1>1. CASE Boot
  <2>1. UNCHANGED <<tables, used, call>> /\ (boot'.pc = "seed" => orgs = {})
    BY <1>1 DEF Boot, DataInv, BootTyped
  <2> QED
    BY <2>1, QuietRows
<1>2. CASE CutSeed
  <2>1. UNCHANGED <<tables, used, call>> /\ boot'.pc # "seed"
    BY <1>2 DEF CutSeed, DataInv, BootTyped
  <2> QED
    BY <2>1, QuietRows
<1>3. CASE Walk
  BY <1>3, QuietRows DEF Walk
<1> QED
  BY <1>1, <1>2, <1>3

(* No handler is left.                                                      *)
LEMMA RestingRows ==
  ASSUME RowsTyped', SeedFirst', exists' \subseteq used' \cup Users \cup SeededIds,
         \A c \in Calls : call'[c].pc = 0
  PROVE  RowInv'
BY DEF RowInv, NewIdsFree, LoneFinds, MembersFound, MemberFound

LEMMA StopRows ==
  ASSUME DataInv, RowInv, Stop
  PROVE  RowInv'
<1>1. UNCHANGED <<tables, used>> /\ boot'.pc = "down"
  BY DEF Stop, DataInv, BootTyped
<1>2. \A c \in Calls : call'[c].pc = 0
  BY IdleShape DEF Stop
<1>3. RowsTyped' /\ SeedFirst' /\ exists' \subseteq used' \cup Users \cup SeededIds
  BY <1>1 DEF RowInv, RowsTyped, SeedFirst, NewIdsFree, tables
<1> QED
  BY <1>2, <1>3, RestingRows

-----------------------------------------------------------------------------
(* The tables whose rows have ids others refer to.                          *)
WithId == {"department", "app_user", "work_pattern", "leave_type", "csv_mapping"}

LEMMA InsertRows ==
  ASSUME NEW t, NEW id, NEW ref, NEW span, NEW n, Insert(t, id, ref, span, n)
  PROVE  /\ exists' = IF t \in WithId THEN exists \cup {id} ELSE exists
         /\ above' = IF t = "department" THEN [above EXCEPT ![id] = ref] ELSE above
         /\ home' = IF t = "app_user" THEN [home EXCEPT ![id] = ref] ELSE home
BY DEF Insert, WithId

LEMMA SeededRows ==
  ASSUME NEW i \in 1..21
  PROVE  /\ i <= 3 => SeedRows[i].table \notin WithId
         /\ SeedRows[i].table \in WithId =>
              SeedRows[i].id \in (Users \cup SeededIds) \ {NoDept}
         /\ SeedRows[i].table = "department" =>
              \/ i = 4 /\ SeedRows[i].id \in Depts /\ SeedRows[i].ref = NoDept
              \/ SeedRows[i].id \in Depts /\ SeedRows[i].ref \in Depts
         /\ SeedRows[i].table = "app_user" =>
              SeedRows[i].id \in Users /\ SeedRows[i].ref \in Depts
<1>1. CASE i = 1
  BY <1>1, IdAssumption, NullsAreNotIds DEF SeedRows, Row, NoReader, WithId, SeededIds
<1>2. CASE i = 2
  BY <1>2, IdAssumption, NullsAreNotIds DEF SeedRows, Row, NoReader, WithId, SeededIds
<1>3. CASE i = 3
  BY <1>3, IdAssumption, NullsAreNotIds DEF SeedRows, Row, NoReader, WithId, SeededIds
<1>4. CASE i = 4
  BY <1>4, IdAssumption, NullsAreNotIds DEF SeedRows, Row, NoReader, WithId, SeededIds
<1>5. CASE i = 5
  BY <1>5, IdAssumption, NullsAreNotIds DEF SeedRows, Row, NoReader, WithId, SeededIds
<1>6. CASE i = 6
  BY <1>6, IdAssumption, NullsAreNotIds DEF SeedRows, Row, NoReader, WithId, SeededIds
<1>7. CASE i = 7
  BY <1>7, IdAssumption, NullsAreNotIds DEF SeedRows, Row, NoReader, WithId, SeededIds
<1>8. CASE i = 8
  BY <1>8, IdAssumption, NullsAreNotIds DEF SeedRows, Row, NoReader, WithId, SeededIds
<1>9. CASE i = 9
  BY <1>9, IdAssumption, NullsAreNotIds DEF SeedRows, Row, NoReader, WithId, SeededIds
<1>10. CASE i = 10
  BY <1>10, IdAssumption, NullsAreNotIds DEF SeedRows, Row, NoReader, WithId, SeededIds
<1>11. CASE i = 11
  BY <1>11, IdAssumption, NullsAreNotIds DEF SeedRows, Row, NoReader, WithId, SeededIds
<1>12. CASE i = 12
  BY <1>12, IdAssumption, NullsAreNotIds DEF SeedRows, Row, NoReader, WithId, SeededIds
<1>13. CASE i = 13
  BY <1>13, IdAssumption, NullsAreNotIds DEF SeedRows, Row, NoReader, WithId, SeededIds
<1>14. CASE i = 14
  BY <1>14, IdAssumption, NullsAreNotIds DEF SeedRows, Row, NoReader, WithId, SeededIds
<1>15. CASE i = 15
  BY <1>15, IdAssumption, NullsAreNotIds DEF SeedRows, Row, NoReader, WithId, SeededIds
<1>16. CASE i = 16
  BY <1>16, IdAssumption, NullsAreNotIds DEF SeedRows, Row, NoReader, WithId, SeededIds
<1>17. CASE i = 17
  BY <1>17, IdAssumption, NullsAreNotIds DEF SeedRows, Row, NoReader, WithId, SeededIds
<1>18. CASE i = 18
  BY <1>18, IdAssumption, NullsAreNotIds DEF SeedRows, Row, NoReader, WithId, SeededIds
<1>19. CASE i = 19
  BY <1>19, IdAssumption, NullsAreNotIds DEF SeedRows, Row, NoReader, WithId, SeededIds
<1>20. CASE i = 20
  BY <1>20, IdAssumption, NullsAreNotIds DEF SeedRows, Row, NoReader, WithId, SeededIds
<1>21. CASE i = 21
  BY <1>21, IdAssumption, NullsAreNotIds DEF SeedRows, Row, NoReader, WithId, SeededIds
<1> QED
  BY <1>1, <1>2, <1>3, <1>4, <1>5, <1>6, <1>7, <1>8, <1>9, <1>10, <1>11, <1>12, <1>13, <1>14, <1>15, <1>16, <1>17, <1>18, <1>19, <1>20, <1>21

LEMMA OneRowMore ==
  ASSUME RowsTyped, NEW id, id # NoDept, exists' = exists \cup {id},
         \/ above' = above
         \/ id \in Depts /\ \E ref \in Depts \cup {NoDept} : above' = [above EXCEPT ![id] = ref],
         \/ home' = home
         \/ id \in Users /\ \E ref \in Depts \cup {NoDept} : home' = [home EXCEPT ![id] = ref]
  PROVE  RowsTyped'
<1>1. above' \in [Depts -> Depts \cup {NoDept}] /\ home' \in [Users -> Depts \cup {NoDept}]
  BY DEF RowsTyped
<1>2. \A d \in Depts : d # id => above'[d] = above[d]
  BY DEF RowsTyped
<1>3. \A u \in Users : u # id => home'[u] = home[u]
  BY DEF RowsTyped
<1> QED
  BY <1>1, <1>2, <1>3 DEF RowsTyped

(* The seed strips nobody: its only reference to nothing is that of the     *)
(* first department, which is new.                                          *)
Stripped ==
  \/ \E u \in Users : home[u] # NoDept /\ home'[u] = NoDept
  \/ \E d \in Depts : above[d] # NoDept /\ above'[d] = NoDept /\ d \in exists'

LEMMA SeedRowsKept ==
  ASSUME DataInv, RowInv, Seed
  PROVE  RowInv' /\ ~Stripped
<1>0. PICK i \in 1..21 : i = boot.row
  BY DEF Seed, DataInv, BootTyped
<1> DEFINE r == SeedRows[i]
<1>1. i \in 1..21 /\ i = boot.row /\ boot.pc = "seed" /\ UNCHANGED <<call, used>>
  BY <1>0 DEF Seed
<1>2. Insert(r.table, r.id, r.ref, Always, 0)
  BY <1>0 DEF Seed
<1>3. /\ i <= 3 => r.table \notin WithId
      /\ r.table \in WithId => r.id \in (Users \cup SeededIds) \ {NoDept}
      /\ r.table = "department" =>
           \/ i = 4 /\ r.id \in Depts /\ r.ref = NoDept
           \/ r.id \in Depts /\ r.ref \in Depts
      /\ r.table = "app_user" => r.id \in Users /\ r.ref \in Depts
  BY SeededRows
<1>4. /\ i = 1 <=> r.table = "organization"
      /\ i = 1 => r.id = demo
  BY Rows
<1> HIDE DEF r
<1>5. /\ exists' = IF r.table \in WithId THEN exists \cup {r.id} ELSE exists
      /\ above' = IF r.table = "department" THEN [above EXCEPT ![r.id] = r.ref] ELSE above
      /\ home' = IF r.table = "app_user" THEN [home EXCEPT ![r.id] = r.ref] ELSE home
  BY <1>2, InsertRows
<1>6. orgs' = {demo}
  <2>1. orgs' = IF r.table = "organization" THEN orgs \cup {r.id} ELSE orgs
    BY <1>2, InsertEffect
  <2> QED
    BY <1>1, <1>4, <2>1 DEF DataInv, Seeded
<1>7. boot'.pc = "seed" => boot'.row = i + 1
  BY <1>1, SeedLength DEF Seed, DataInv, BootTyped
<1>8. RowsTyped'
  <2>1. CASE r.table \in WithId
    BY <1>3, <1>5, <2>1, OneRowMore DEF RowInv
  <2>2. CASE r.table \notin WithId
    <3>1. r.table # "department" /\ r.table # "app_user"
      BY <2>2 DEF WithId
    <3> QED
      BY <1>5, <2>2, <3>1 DEF RowInv, RowsTyped
  <2> QED
    BY <2>1, <2>2
<1>9. SeedFirst'
  <2>1. boot'.pc = "seed" /\ boot'.row <= 4 => exists' = {}
    BY <1>1, <1>3, <1>5, <1>7 DEF RowInv, SeedFirst
  <2> QED
    BY <1>6, <2>1 DEF SeedFirst
<1>10. exists' \subseteq used' \cup Users \cup SeededIds
  BY <1>1, <1>3, <1>5 DEF RowInv, NewIdsFree
<1>11. \A c \in Calls : call'[c].pc = 0
  BY <1>1 DEF DataInv, Alone
<1>12. \A u \in Users : home[u] # NoDept => home'[u] # NoDept
  BY <1>3, <1>5, NullsAreNotIds DEF RowInv, RowsTyped
<1>13. \A d \in Depts : above[d] # NoDept => above'[d] # NoDept
  <2>1. i = 4 => exists = {}
    BY <1>1 DEF RowInv, SeedFirst
  <2>2. i = 4 => \A d \in Depts : above[d] = NoDept
    BY <2>1 DEF RowInv, RowsTyped
  <2> QED
    BY <1>3, <1>5, <2>2, NullsAreNotIds DEF RowInv, RowsTyped
<1> QED
  BY <1>8, <1>9, <1>10, <1>11, <1>12, <1>13, RestingRows DEF Stripped

Links == <<exists, above, home>>

(* What one write does to the rows others refer to, by its request.         *)
LEMMA WriteRowEffect ==
  ASSUME NEW c \in Calls, NEW r, r = call[c].req, Write(c)
  PROVE  \/ UNCHANGED Links
         \/ /\ r.op = "department.create"
            /\ exists' = exists \cup {r.id} /\ home' = home
            /\ above' = [above EXCEPT ![r.id] = r.ref]
         \/ /\ r.op = "department.update" /\ exists' = exists /\ home' = home
            /\ above' = IF r.ref = NoDept THEN above ELSE [above EXCEPT ![r.id] = r.ref]
         \/ /\ r.op = "member.create"
            /\ exists' = exists \cup {r.id} /\ above' = above
            /\ home' = [home EXCEPT ![r.id] = r.ref]
         \/ /\ r.op = "member.update" /\ exists' = exists /\ above' = above
            /\ home' = [home EXCEPT ![r.id] = r.ref]
         \/ /\ r.op \in {"workPattern.create", "leaveType.create", "csvMapping.create"}
            /\ exists' = exists \cup {r.id} /\ above' = above /\ home' = home
         \/ /\ r.op \in {"department.delete", "workPattern.delete", "leaveType.delete",
                         "csvMapping.delete"}
            /\ Delete(r.id)
<1>1. ASSUME NEW t, InsertFor(c, t)
      PROVE  /\ exists' = IF t \in WithId THEN exists \cup {r.id} ELSE exists
             /\ above' = IF t = "department" THEN [above EXCEPT ![r.id] = r.ref] ELSE above
             /\ home' = IF t = "app_user" THEN [home EXCEPT ![r.id] = r.ref] ELSE home
  BY <1>1, InsertRows DEF InsertFor
<1>2. CASE CreateDepartment(c)
  BY <1>1, <1>2 DEF CreateDepartment, AtWrite, WithId
<1>3. CASE UpdateDepartment(c)
  BY <1>3 DEF UpdateDepartment, AtWrite
<1>4. CASE CreateMember(c)
  BY <1>1, <1>4 DEF CreateMember, AtWrite, WithId
<1>5. CASE MoveMember(c)
  BY <1>5 DEF MoveMember, AtWrite
<1>6. CASE CreatePattern(c) \/ CreateType(c) \/ CreateMapping(c)
  BY <1>1, <1>6 DEF CreatePattern, CreateType, CreateMapping, AtWrite, WithId
<1>7. CASE RemoveDepartment(c) \/ RemovePattern(c) \/ RemoveType(c) \/ RemoveMapping(c)
  BY <1>7 DEF RemoveDepartment, RemovePattern, RemoveType, RemoveMapping, AtWrite
<1>8. CASE SetRule(c) \/ AssignWorkPattern(c) \/ GrantBalance(c) \/ FileLeave(c) \/ PlanShift(c)
  <2>1. UNCHANGED tables
        \/ \E t \in {"work_rule", "user_work_pattern", "leave_balance", "request", "shift"} :
             InsertFor(c, t)
    BY <1>8 DEF SetRule, AssignWorkPattern, GrantBalance, FileLeave, PlanShift
  <2>2. UNCHANGED tables => UNCHANGED Links
    BY DEF tables, Links
  <2> QED
    BY <1>1, <2>1, <2>2 DEF Links, WithId
<1>9. CASE UpdatePattern(c) \/ UpdateType(c) \/ UpdateMapping(c) \/ UpdateOrganization(c)
  BY <1>9 DEF UpdatePattern, UpdateType, UpdateMapping, UpdateOrganization, tables, Links
<1>10. CASE Setup(c)
  BY <1>10 DEF Setup, Links
<1> QED
  BY <1>2, <1>3, <1>4, <1>5, <1>6, <1>7, <1>8, <1>9, <1>10 DEF Write

(* What the rows keep through a write, given what it does to them.          *)
RowsAfter(r) ==
  /\ RowsTyped'
  /\ exists' \subseteq exists \cup NewIds(r) \cup Users
  /\ exists \cap Users \subseteq exists'
  /\ orgs = {} => UNCHANGED exists

LEMMA WriteRows ==
  ASSUME DataInv, RowInv, NEW c \in Calls, NEW r, r = call[c].req, Write(c)
  PROVE  RowsAfter(r)
<1>1. /\ r \in Inputs /\ Constraints(call[c])
      /\ call[c].pc > 0 /\ (orgs = {} => r.op = "setup")
  BY ChecksLength DEF Write, Writing, DataInv, CallsTyped, Alone
<1>2. RowsTyped
  BY DEF RowInv
<1>3. CASE UNCHANGED Links
  BY <1>2, <1>3 DEF Links, RowsTyped, RowsAfter
<1>4. CASE /\ r.op = "department.create"
           /\ exists' = exists \cup {r.id} /\ home' = home
           /\ above' = [above EXCEPT ![r.id] = r.ref]
  <2>1. r.id \in Depts /\ r.ref \in Depts \cup {NoDept} /\ r.id # NoDept
    BY <1>1, <1>4, IdAssumption, NullsAreNotIds
  <2>2. RowsTyped'
    BY <1>2, <1>4, <2>1, OneRowMore
  <2> QED
    BY <1>1, <1>4, <2>2 DEF RowsAfter, NewIds
<1>5. CASE /\ r.op = "department.update" /\ exists' = exists /\ home' = home
           /\ above' = IF r.ref = NoDept THEN above ELSE [above EXCEPT ![r.id] = r.ref]
  <2>1. r.id \in Depts /\ r.ref \in Depts \cup {NoDept}
    BY <1>1, <1>5, IdAssumption
  <2>2. r.id \in exists
    BY <1>1, <1>5 DEF Constraints
  <2> QED
    BY <1>1, <1>2, <1>5, <2>1, <2>2 DEF RowsAfter, RowsTyped
<1>6. CASE /\ r.op = "member.create"
           /\ exists' = exists \cup {r.id} /\ above' = above
           /\ home' = [home EXCEPT ![r.id] = r.ref]
  <2>1. r.id \in Users /\ r.ref \in Depts \cup {NoDept} /\ r.id # NoDept
    BY <1>1, <1>6, IdAssumption
  <2>2. RowsTyped'
    BY <1>2, <1>6, <2>1, OneRowMore
  <2> QED
    BY <1>1, <1>6, <2>1, <2>2 DEF RowsAfter
<1>7. CASE /\ r.op = "member.update" /\ exists' = exists /\ above' = above
           /\ home' = [home EXCEPT ![r.id] = r.ref]
  <2>1. r.id \in Users /\ r.ref \in Depts \cup {NoDept}
    BY <1>1, <1>7, IdAssumption
  <2>2. Checks("member.update") = <<"id">>
    BY DEF Checks
  <2>3. r.id \in exists
    BY <1>7, <2>2 DEF Write, Writing, RowInv, MembersFound, MemberFound
  <2> QED
    BY <1>1, <1>2, <1>7, <2>1, <2>3 DEF RowsAfter, RowsTyped
<1>8. CASE /\ r.op \in {"workPattern.create", "leaveType.create", "csvMapping.create"}
           /\ exists' = exists \cup {r.id} /\ above' = above /\ home' = home
  <2>1. r.id # NoDept
    BY <1>1, <1>8, IdAssumption
  <2>2. RowsTyped'
    BY <1>2, <1>8, <2>1, OneRowMore
  <2> QED
    BY <1>1, <1>8, <2>2 DEF RowsAfter, NewIds
<1>9. CASE /\ r.op \in {"department.delete", "workPattern.delete", "leaveType.delete",
                        "csvMapping.delete"}
           /\ Delete(r.id)
  <2>1. r.id \notin Users
    BY <1>1, <1>9, IdAssumption
  <2>2. /\ exists' = exists \ {r.id}
        /\ above' \in [Depts -> Depts \cup {NoDept}] /\ home' \in [Users -> Depts \cup {NoDept}]
        /\ \A d \in Depts : above[d] = NoDept \/ d = r.id => above'[d] = NoDept
        /\ \A u \in Users : home[u] = NoDept => home'[u] = NoDept
    BY <1>2, <1>9 DEF Delete, RowsTyped
  <2>3. RowsTyped'
    BY <1>2, <2>1, <2>2 DEF RowsTyped
  <2> QED
    BY <1>1, <1>9, <2>1, <2>2, <2>3 DEF RowsAfter
<1> QED
  BY WriteRowEffect, <1>3, <1>4, <1>5, <1>6, <1>7, <1>8, <1>9

LEMMA WriteRowInv ==
  ASSUME DataInv, RowInv, NEW c \in Calls, Write(c)
  PROVE  RowInv'
<1> DEFINE r == call[c].req
<1>1. /\ UNCHANGED <<boot, used>> /\ call[c].pc \in Nat /\ call[c].pc > 0 /\ r \in Inputs
      /\ call[c].pc = Steps(r.op) + 1 /\ Steps(r.op) \in Nat
  BY StepsNat DEF Write, Writing, Steps, DataInv, CallsTyped
<1>2. RowsAfter(r)
  BY WriteRows
<1>3. /\ \A b \in Calls \ {c} : call'[b] = call[b]
      /\ ~Pending(c)' /\ call'[c].pc \in Nat
      /\ call'[c].pc > 0 => call'[c].req = r /\ call'[c].alone = call[c].alone
  <2> DEFINE k == [call[c] EXCEPT !.pc = @ + 1]
  <2>1. call' = [call EXCEPT ![c] = k] \/ call' = [call EXCEPT ![c] = Idle]
    BY DEF Write
  <2>2. k.req = r /\ k.alone = call[c].alone /\ k.pc = Steps(r.op) + 2
    BY <1>1, IdleShape DEF DataInv, CallsTyped
  <2> HIDE DEF k
  <2>3. \A b \in Calls \ {c} : call'[b] = call[b]
    BY <2>1 DEF DataInv, CallsTyped
  <2>4. call'[c] = k \/ call'[c] = Idle
    BY <2>1 DEF DataInv, CallsTyped
  <2>5. CASE call'[c] = k
    BY <1>1, <2>2, <2>3, <2>5 DEF Pending
  <2>6. CASE call'[c] = Idle
    BY <2>3, <2>6, IdleShape DEF Pending
  <2> QED
    BY <2>4, <2>5, <2>6
<1>4. SeedFirst'
  <2>1. orgs' = {} => orgs = {}
    BY WriteEffect
  <2>2. boot.pc = "up"
    BY <1>1 DEF DataInv, Alone
  <2> QED
    BY <1>1, <1>2, <2>1, <2>2 DEF RowInv, SeedFirst, RowsAfter
<1>5. NewIdsFree'
  <2>1. exists' \subseteq used' \cup Users \cup SeededIds
    BY <1>1, <1>2 DEF RowInv, NewIdsFree, RowsAfter
  <2>2. ASSUME NEW b \in Calls, call'[b].pc > 0
        PROVE  /\ NewIds(call'[b].req) \subseteq used'
               /\ \A d \in Calls \ {b} :
                    call'[d].pc > 0 => NewIds(call'[d].req) \cap NewIds(call'[b].req) = {}
               /\ Pending(b)' => NewIds(call'[b].req) \cap exists' = {}
    <3>1. call[b].pc > 0 /\ call'[b].req = call[b].req
      BY <1>1, <1>3, <2>2
    <3>2. \A d \in Calls : call'[d].pc > 0 => call[d].pc > 0 /\ call'[d].req = call[d].req
      BY <1>1, <1>3
    <3>3. ASSUME Pending(b)'
          PROVE  NewIds(call'[b].req) \cap exists' = {}
      <4>1. b # c /\ Pending(b)
        BY <1>3, <3>3 DEF Pending
      <4>2. call[b].req \in Inputs
        BY <3>1 DEF DataInv, CallsTyped
      <4>3. NewIds(call[b].req) \cap Users = {}
        BY <4>2, NewIdsAreNew
      <4>4. NewIds(call[b].req) \cap (exists \cup NewIds(r)) = {}
        BY <1>1, <3>1, <4>1 DEF RowInv, NewIdsFree
      <4> QED
        BY <1>2, <3>1, <4>3, <4>4 DEF RowsAfter
    <3> QED
      BY <1>1, <3>1, <3>2, <3>3 DEF RowInv, NewIdsFree
  <2> QED
    BY <2>1, <2>2 DEF NewIdsFree
<1>6. MembersFound'
  <2> SUFFICES ASSUME NEW b \in Calls, NEW x, x = call'[b],
                      x.pc > 1, x.req.op = "member.update"
               PROVE  x.req.id \in exists'
    BY DEF MembersFound, MemberFound
  <2>1. call[b].pc > 1 /\ call[b].req = x.req
    <3>1. CASE b = c
      <4>1. call[c].req = x.req
        BY <1>3, <3>1
      <4>2. Steps("member.update") = 1
        BY DEF Steps, Checks
      <4> QED
        BY <1>1, <3>1, <4>1, <4>2
    <3>2. CASE b # c
      BY <1>3, <3>2
    <3> QED
      BY <3>1, <3>2
  <2>2. x.req.id \in exists /\ x.req \in Inputs
    BY <2>1 DEF RowInv, MembersFound, MemberFound, DataInv, CallsTyped
  <2>3. x.req.id \in Users
    BY <2>2, IdAssumption
  <2> QED
    BY <1>2, <2>2, <2>3 DEF RowsAfter
<1>7. LoneFinds'
  <2> SUFFICES ASSUME NEW b \in Calls, call'[b].pc > 0, call'[b].alone
               PROVE  /\ \A d \in Calls \ {b} : call'[d].pc = 0
                      /\ \A k \in {call'[b]} : Pending(b)' => Found(k)'
    BY DEF LoneFinds
  <2>1. b = c
    BY <1>1, <1>3 DEF RowInv, LoneFinds
  <2>2. call[c].alone
    BY <1>3, <2>1, Zenon
  <2>3. \A d \in Calls \ {c} : call[d].pc = 0
    BY <1>1, <2>2 DEF RowInv, LoneFinds
  <2> QED
    BY <1>3, <2>1, <2>3
<1> QED
  BY <1>2, <1>4, <1>5, <1>6, <1>7 DEF RowInv, RowsAfter

LEMMA NextRows ==
  ASSUME DataInv, RowInv, [DataNext]_dataVars
  PROVE  RowInv'
<1>1. CASE UNCHANGED dataVars
  BY <1>1, QuietRows DEF dataVars
<1>2. CASE Boot \/ Seed \/ CutSeed \/ Stop \/ Walk
  BY <1>2, BootRows, SeedRowsKept, StopRows
<1>3. ASSUME NEW c \in Calls, Handle(c)
      PROVE  RowInv'
  <2>1. CASE Refused(c)
    BY <2>1, IdleRows DEF Refused
  <2>2. CASE Record(c)
    BY <2>2, IdleRows DEF Record
  <2> QED
    BY <1>3, <2>1, <2>2, CheckRows, DepartmentsRows, WriteRowInv DEF Handle
<1>4. ASSUME NEW c \in Calls, NEW r \in Inputs, Send(c, r)
      PROVE  RowInv'
  BY <1>4, SendRows
<1> QED
  BY <1>1, <1>2, <1>3, <1>4 DEF DataNext

LEMMA RowsAlways == DataSpec => [](DataInv /\ RowInv)
<1>1. DataInv /\ RowInv /\ [DataNext]_dataVars => (DataInv /\ RowInv)'
  BY NextData, NextRows
<1> QED
  BY <1>1, InitData, InitRows, PTL DEF DataSpec

-----------------------------------------------------------------------------
(* What a handler alone has found out is so when it writes.                 *)
LEMMA AllPassed ==
  ASSUME DataInv, RowInv, NEW c \in Calls, Writing(c), call[c].alone,
         NEW i \in 1..Steps(call[c].req.op)
  PROVE  LET k == call[c] IN
         /\ Checks(k.req.op)[i] # "visible" => Passes(k, Checks(k.req.op)[i])
         /\ Checks(k.req.op)[i] = "existing rule" => k.found = (k.req.id \in rules)
<1>1. call[c].pc = Steps(call[c].req.op) + 1 /\ Steps(call[c].req.op) \in Nat
  BY StepsNat DEF Writing, Steps
<1>2. Found(call[c])
  BY <1>1 DEF RowInv, LoneFinds, Pending
<1>3. i < call[c].pc
  BY <1>1
<1> QED
  BY <1>2, <1>3 DEF Found

LEMMA LoneRemovalStripsNobody ==
  ASSUME DataInv, RowInv, NEW c \in Calls, NEW k, k = call[c], NEW r, r = k.req,
         Writing(c), k.alone, r.op = "department.delete", Delete(r.id)
  PROVE  ~Stripped
<1>1. /\ Checks(r.op)[2] = "no children" /\ Checks(r.op)[3] = "no members"
      /\ 2 \in 1..Steps(r.op) /\ 3 \in 1..Steps(r.op)
  BY DEF Checks, Steps
<1>2. ASSUME NEW i \in 1..Steps(r.op), NEW check, check = Checks(r.op)[i], check # "visible"
      PROVE  Passes(k, check)
  BY <1>2, AllPassed
<1>3. Passes(k, "no children") /\ Passes(k, "no members")
  BY <1>1, <1>2
<1>4. \A d \in Depts : above[d] # r.id
  BY <1>3 DEF Passes
<1>5. \A u \in Users : home[u] # r.id
  BY <1>3 DEF Passes, NoMembers
<1>6. \A u \in Users : home'[u] = home[u]
  BY <1>5 DEF Delete
<1>7. \A d \in Depts : d \in exists' => above'[d] = above[d]
  BY <1>4 DEF Delete
<1> QED
  BY <1>6, <1>7 DEF Stripped

LEMMA WriteStripsNobody ==
  ASSUME DataInv, RowInv, NEW c \in Calls, NEW r, r = call[c].req, Write(c), Stripped
  PROVE  AtWrite(c, "department.delete") /\ ~call[c].alone
<1>1. /\ r \in Inputs /\ Constraints(call[c]) /\ Writing(c)
      /\ call[c].pc > 0 /\ Pending(c)
  BY ChecksLength DEF Write, Writing, Pending, Steps, DataInv, CallsTyped
<1>2. RowsTyped
  BY DEF RowInv
<1>3. CASE UNCHANGED Links
  BY <1>3 DEF Links, Stripped
<1>4. CASE /\ r.op = "department.create"
           /\ exists' = exists \cup {r.id} /\ home' = home
           /\ above' = [above EXCEPT ![r.id] = r.ref]
  <2>1. r.id \in Depts /\ r.id \notin exists
    BY <1>1, <1>4, IdAssumption DEF RowInv, NewIdsFree, NewIds
  <2> QED
    BY <1>2, <1>4, <2>1 DEF RowsTyped, Stripped
<1>5. CASE /\ r.op = "department.update" /\ exists' = exists /\ home' = home
           /\ above' = IF r.ref = NoDept THEN above ELSE [above EXCEPT ![r.id] = r.ref]
  BY <1>2, <1>5 DEF RowsTyped, Stripped
<1>6. CASE /\ r.op = "member.create"
           /\ exists' = exists \cup {r.id} /\ above' = above
           /\ home' = [home EXCEPT ![r.id] = r.ref]
  <2>1. r.id \in Users
    BY <1>1, <1>6, IdAssumption
  <2>2. r.id \notin exists
    BY <1>1, <1>6 DEF Constraints
  <2> QED
    BY <1>2, <1>6, <2>1, <2>2 DEF RowsTyped, Stripped
<1>7. CASE /\ r.op = "member.update" /\ exists' = exists /\ above' = above
           /\ home' = [home EXCEPT ![r.id] = r.ref]
  <2>1. r.ref \in exists
    BY <1>1, <1>7 DEF Constraints
  <2> QED
    BY <1>2, <1>7, <2>1 DEF RowsTyped, Stripped
<1>8. CASE /\ r.op \in {"workPattern.create", "leaveType.create", "csvMapping.create"}
           /\ exists' = exists \cup {r.id} /\ above' = above /\ home' = home
  BY <1>8 DEF Stripped
<1>9. CASE r.op \in {"workPattern.delete", "leaveType.delete", "csvMapping.delete"} /\ Delete(r.id)
  <2>1. r.id \notin Users \cup Depts \cup {NoDept}
    BY <1>1, <1>9, IdAssumption
  <2>2. \A u \in Users : home'[u] = home[u]
    BY <1>2, <1>9, <2>1 DEF Delete, RowsTyped
  <2>3. \A d \in Depts : above'[d] = above[d]
    BY <1>2, <1>9, <2>1 DEF Delete, RowsTyped
  <2> QED
    BY <2>2, <2>3 DEF Stripped
<1>10. CASE r.op = "department.delete" /\ Delete(r.id)
  <2>1. ~call[c].alone
    BY <1>1, <1>10, LoneRemovalStripsNobody
  <2> QED
    BY <1>1, <1>10, <2>1 DEF Writing, AtWrite
<1> QED
  BY WriteRowEffect, <1>3, <1>4, <1>5, <1>6, <1>7, <1>8, <1>9, <1>10

LEMMA NextStrips ==
  ASSUME DataInv, RowInv, [DataNext]_dataVars, Stripped
  PROVE  \E c \in Calls : AtWrite(c, "department.delete") /\ ~call[c].alone
<1>1. CASE UNCHANGED tables
  BY <1>1 DEF tables, Stripped
<1>2. CASE UNCHANGED dataVars
  BY <1>1, <1>2 DEF dataVars
<1>3. CASE Boot \/ CutSeed \/ Stop \/ Walk
  BY <1>1, <1>3 DEF Boot, CutSeed, Stop, Walk
<1>4. CASE Seed
  BY <1>4, SeedRowsKept
<1>5. ASSUME NEW c \in Calls, Handle(c)
      PROVE  UNCHANGED tables \/ Write(c)
  BY <1>5 DEF Handle, Check, ReadDepartments, Refused, Record
<1>6. ASSUME NEW c \in Calls, NEW r \in Inputs, Send(c, r)
      PROVE  UNCHANGED tables
  BY <1>6 DEF Send
<1> QED
  BY <1>1, <1>2, <1>3, <1>4, <1>5, <1>6, WriteStripsNobody DEF DataNext

(* For any tables, people and overlapping requests: a member loses his      *)
(* department, and a department its parent, only when a department is       *)
(* removed by a handler another request overlapped. With no overlap the two *)
(* counts of departments.remove are what the SET NULL of the foreign keys   *)
(* would otherwise do in silence.                                           *)
THEOREM NobodyIsStripped == DataSpec => NobodyStripped
<1>1. DataInv /\ RowInv /\ [DataNext]_dataVars =>
        [(\E u \in Users : home[u] # NoDept /\ home'[u] = NoDept)
           \/ (\E d \in Depts : above[d] # NoDept /\ above'[d] = NoDept /\ d \in exists')
         => \E c \in Calls : AtWrite(c, "department.delete") /\ ~call[c].alone]_dataVars
  BY NextStrips DEF Stripped
<1> QED
  BY <1>1, RowsAlways, PTL DEF DataSpec, NobodyStripped

-----------------------------------------------------------------------------
(* What the database would refuse, the checks have refused.                 *)
LEMMA LooksForId ==
  ASSUME NEW op, op \in {"department.update", "department.delete", "member.update",
                        "workPattern.update", "leaveType.update", "csvMapping.update",
                        "csvMapping.delete", "workRule.set", "workPattern.delete",
                        "user.assignWorkPattern", "leaveType.delete"}
  PROVE  1 \in 1..Steps(op) /\ Checks(op)[1] = "id"
<1>1. CASE op = "department.update"
  BY <1>1 DEF Checks, Steps
<1>2. CASE op = "department.delete"
  BY <1>2 DEF Checks, Steps
<1>3. CASE op = "workRule.set"
  BY <1>3 DEF Checks, Steps
<1>4. CASE op = "workPattern.delete"
  BY <1>4 DEF Checks, Steps
<1>5. CASE op = "user.assignWorkPattern"
  BY <1>5 DEF Checks, Steps
<1>6. CASE op = "leaveType.delete"
  BY <1>6 DEF Checks, Steps
<1>7. CASE op = "member.update"
  BY <1>7 DEF Checks, Steps
<1>8. CASE op = "workPattern.update"
  BY <1>8 DEF Checks, Steps
<1>9. CASE op = "leaveType.update"
  BY <1>9 DEF Checks, Steps
<1>10. CASE op = "csvMapping.update"
  BY <1>10 DEF Checks, Steps
<1>11. CASE op = "csvMapping.delete"
  BY <1>11 DEF Checks, Steps
<1> QED
  BY <1>1, <1>2, <1>3, <1>4, <1>5, <1>6, <1>7, <1>8, <1>9, <1>10, <1>11

LEMMA LooksForRef ==
  ASSUME NEW op, op \in {"department.create", "department.update", "user.assignWorkPattern",
                        "leaveBalance.grant", "request.create"}
  PROVE  \E i \in 1..Steps(op) : Checks(op)[i] = "ref"
<1>1. CASE op = "department.create"
  <2>1. 1 \in 1..Steps(op) /\ Checks(op)[1] = "ref"
    BY <1>1 DEF Checks, Steps
  <2> QED
    BY <2>1
<1>2. CASE op = "department.update"
  <2>1. 2 \in 1..Steps(op) /\ Checks(op)[2] = "ref"
    BY <1>2 DEF Checks, Steps
  <2> QED
    BY <2>1
<1>3. CASE op = "user.assignWorkPattern"
  <2>1. 2 \in 1..Steps(op) /\ Checks(op)[2] = "ref"
    BY <1>3 DEF Checks, Steps
  <2> QED
    BY <2>1
<1>4. CASE op = "leaveBalance.grant"
  <2>1. 1 \in 1..Steps(op) /\ Checks(op)[1] = "ref"
    BY <1>4 DEF Checks, Steps
  <2> QED
    BY <2>1
<1>5. CASE op = "request.create"
  <2>1. 1 \in 1..Steps(op) /\ Checks(op)[1] = "ref"
    BY <1>5 DEF Checks, Steps
  <2> QED
    BY <2>1
<1> QED
  BY <1>1, <1>2, <1>3, <1>4, <1>5

LEMMA LoneWriteSucceeds ==
  ASSUME DataInv, RowInv, NEW c \in Calls, NEW k, k = call[c], Writing(c), k.alone,
         ~Constraints(k)
  PROVE  k.req.op \in {"member.create", "member.update"} /\ k.req.ref \notin exists
<1> DEFINE r == k.req
           op == k.req.op
<1>1. r \in Inputs
  BY ChecksLength DEF Writing, DataInv, CallsTyped
<1>2. ASSUME NEW i \in 1..Steps(op), NEW check, check = Checks(op)[i]
      PROVE  /\ check # "visible" => Passes(k, check)
             /\ check = "existing rule" => k.found = (r.id \in rules)
  BY <1>2, AllPassed
<1>3. ASSUME op \in {"department.update", "department.delete", "member.update",
                     "workPattern.update", "leaveType.update", "csvMapping.update",
                     "csvMapping.delete", "workRule.set", "workPattern.delete",
                     "user.assignWorkPattern", "leaveType.delete"}
      PROVE  r.id \in exists
  <2>1. Checks(op)[1] = "id" /\ 1 \in 1..Steps(op)
    BY <1>3, LooksForId
  <2>2. Passes(k, "id")
    BY <1>2, <2>1
  <2> QED
    BY <2>2 DEF Passes
<1>4. ASSUME op \in {"department.create", "department.update", "user.assignWorkPattern",
                     "leaveBalance.grant", "request.create"}
      PROVE  r.ref \in exists \cup {NoDept}
  <2>1. \E i \in 1..Steps(op) : Checks(op)[i] = "ref"
    BY <1>4, LooksForRef
  <2>2. Passes(k, "ref")
    BY <1>2, <2>1
  <2> QED
    BY <2>2 DEF Passes
<1>5. op = "member.create" => r.id \notin exists
  <2>1. op = "member.create" => Checks(op)[1] = "no such email" /\ 1 \in 1..Steps(op)
    BY DEF Checks, Steps
  <2>2. op = "member.create" => Passes(k, "no such email")
    BY <1>2, <2>1
  <2> QED
    BY <2>2 DEF Passes
<1>6. op = "workPattern.delete" => \A a \in assigned : a.pattern # r.id
  <2>1. op = "workPattern.delete" => Checks(op)[2] = "not assigned" /\ 2 \in 1..Steps(op)
    BY DEF Checks, Steps
  <2>2. op = "workPattern.delete" => Passes(k, "not assigned")
    BY <1>2, <2>1
  <2> QED
    BY <2>2 DEF Passes
<1>7. op = "leaveType.delete" => \A b \in balances : b[2] # r.id
  <2>1. op = "leaveType.delete" => Checks(op)[2] = "no balance" /\ 2 \in 1..Steps(op)
    BY DEF Checks, Steps
  <2>2. op = "leaveType.delete" => Passes(k, "no balance")
    BY <1>2, <2>1
  <2> QED
    BY <2>2 DEF Passes
<1>8. op = "user.assignWorkPattern" => \A a \in assigned : a.user = r.id => ~DatesMeet(r.span, a.span)
  <2> SUFFICES ASSUME op = "user.assignWorkPattern", NEW a \in assigned, a.user = r.id
               PROVE  ~DatesMeet(r.span, a.span)
    OBVIOUS
  <2>1. Checks(op)[3] = "no overlap" /\ 3 \in 1..Steps(op)
    BY DEF Checks, Steps
  <2>2. Passes(k, "no overlap")
    BY <1>2, <2>1
  <2>3. ~PeriodsOverlap(r.span, a.span)
    BY <2>2 DEF Passes
  <2>4. r.span \in Nat \X Nat /\ a.span \in Nat \X Nat
    BY <1>1, InputAssumption DEF DataInv, Spans
  <2> QED
    BY <2>3, <2>4, MeetOverlaps
<1>9. op = "workRule.set" => k.found = (r.id \in rules)
  <2>1. op = "workRule.set" => Checks(op)[2] = "existing rule" /\ 2 \in 1..Steps(op)
    BY DEF Checks, Steps
  <2> QED
    BY <1>2, <2>1
<1>10. op \in {"user.assignWorkPattern", "leaveBalance.grant", "request.create"} => r.ref # NoDept
  BY <1>1, IdAssumption
<1>11. CASE op = "workRule.set"
  <2>1. r.id \in exists
    BY <1>3, <1>11
  <2>2. ~IF k.found THEN r.id \in rules ELSE r.id \in exists
    BY <1>11 DEF Constraints
  <2>3. k.found /\ r.id \notin rules
    BY <2>1, <2>2
  <2> QED
    BY <1>9, <1>11, <2>3, Zenon
<1>12. CASE op # "workRule.set"
  BY <1>3, <1>4, <1>5, <1>6, <1>7, <1>8, <1>10, <1>12 DEF Constraints
<1> QED
  BY <1>11, <1>12

(* For any organization: of the requests nobody overlapped the database     *)
(* refuses only those that name a department that is not there for a        *)
(* member, which the code never looks up.                                   *)
THEOREM LoneRequestsGoThrough == DataSpec => []LoneRequestsSucceed
<1>1. DataInv /\ RowInv => LoneRequestsSucceed
  BY LoneWriteSucceeds DEF LoneRequestsSucceed
<1> QED
  BY <1>1, RowsAlways, PTL

(* The filters follow the rule for every scope a member may have.           *)
LEMMA ListsAgreeAnyway == ListsAgree
<1> SUFFICES ASSUME NEW u \in Members
             PROVE  LET readable == {t \in Members : ResolveTarget(u, t)} IN
                    /\ BuildScopeWhere(u) = readable
                    /\ ResolveUserIds(u, NoUser) = readable
                    /\ \A t \in Users : ResolveUserIds(u, t) = readable \cap {t}
  BY DEF ListsAgree
<1>1. ScopeOf[u] \in Scopes
  BY IdAssumption DEF Members
<1>2. \A t \in Users : t # NoUser
  BY NullsAreNotIds
<1>3. CASE ScopeOf[u] = "org"
  <2>1. {t \in Members : ResolveTarget(u, t)} = Members
    BY <1>3 DEF ResolveTarget, IsVisible
  <2>2. BuildScopeWhere(u) = Members
    BY <1>3 DEF BuildScopeWhere
  <2>3. ResolveUserIds(u, NoUser) = Members
    BY <1>3 DEF ResolveUserIds
  <2>4. ASSUME NEW t \in Users
        PROVE  ResolveUserIds(u, t) = Members \cap {t}
    <3>1. ResolveUserIds(u, t)
            = {s \in Members \cap {t} : IsVisible(ScopeOf[u], u, AccessibleTo(u), s, home[s])}
      BY <1>2 DEF ResolveUserIds
    <3> QED
      BY <3>1, <1>3 DEF IsVisible
  <2> QED
    BY <2>1, <2>2, <2>3, <2>4
<1>4. CASE ScopeOf[u] = "self"
  <2>1. {t \in Members : ResolveTarget(u, t)} = {u}
    BY <1>4 DEF ResolveTarget, IsVisible
  <2>2. BuildScopeWhere(u) = {u}
    BY <1>4 DEF BuildScopeWhere
  <2>3. ResolveUserIds(u, NoUser) = {u}
    BY <1>4 DEF ResolveUserIds
  <2>4. ASSUME NEW t \in Users
        PROVE  ResolveUserIds(u, t) = {u} \cap {t}
    <3>1. ResolveUserIds(u, t)
            = {s \in Members \cap {t} : IsVisible(ScopeOf[u], u, AccessibleTo(u), s, home[s])}
      BY <1>2 DEF ResolveUserIds
    <3> QED
      BY <3>1, <1>4 DEF IsVisible
  <2> QED
    BY <2>1, <2>2, <2>3, <2>4
<1>5. CASE ScopeOf[u] \in {"department", "location"}
  BY <1>2, <1>5 DEF BuildScopeWhere, ResolveUserIds, ResolveTarget, IsVisible, Members
<1> QED
  BY <1>1, <1>3, <1>4, <1>5 DEF Scopes

(* For any tree of departments and every scope the two lists show exactly   *)
(* the members of whom a single read is allowed.                            *)
THEOREM ListsShowTheReadable == DataSpec => []ListsAgree
BY ListsAgreeAnyway, PTL

-----------------------------------------------------------------------------
(* The walk of accessibleDeptIds: it stays in the subtree, and a child of a  *)
(* department seen is itself seen or still on the stack.                     *)

Inside == stack \cup seen \subseteq Subtree(parent, root)

Covered ==
  /\ root \in stack \cup seen
  /\ \A d \in seen : Children(d) \subseteq stack \cup seen

WalkInv == TypeOK /\ Inside /\ Covered

LEMMA SubtreeHasRoot ==
  ASSUME NEW p, NEW r \in Depts
  PROVE  r \in Subtree(p, r)
BY DEF Subtree

LEMMA SubtreeHasChildren ==
  ASSUME NEW p, NEW r \in Depts, NEW d \in Subtree(p, r), NEW c \in Depts, p[c] = d
  PROVE  c \in Subtree(p, r)
BY DEF Subtree, ClosedUnder

(* Any set that holds the root and its members' children holds the subtree. *)
LEMMA SubtreeIsLeast ==
  ASSUME NEW p, NEW r, NEW S \in SUBSET Depts, r \in S, ClosedUnder(p, S)
  PROVE  Subtree(p, r) \subseteq S
BY DEF Subtree

LEMMA InitWalk == Init => WalkInv
BY SubtreeHasRoot DEF Init, WalkInv, TypeOK, Inside, Covered

LEMMA NextWalk ==
  ASSUME WalkInv, [Next]_vars
  PROVE  WalkInv'
<1>1. CASE UNCHANGED vars
  BY <1>1 DEF vars, WalkInv, TypeOK, Inside, Covered, Children
<1>2. ASSUME NEW d \in stack, Visit(d)
      PROVE  WalkInv'
  <2>1. d \in Depts /\ parent' = parent /\ root' = root /\ Children(d) \subseteq Depts
    BY <1>2 DEF WalkInv, TypeOK, Visit, Children
  <2>2. TypeOK'
    BY <1>2, <2>1 DEF WalkInv, TypeOK, Visit
  <2>3. Inside'
    <3>1. Children(d) \subseteq Subtree(parent, root)
      BY <1>2, SubtreeHasChildren DEF WalkInv, TypeOK, Inside, Children
    <3> QED
      BY <1>2, <2>1, <3>1 DEF WalkInv, Inside, Visit
  <2>4. Covered'
    <3>1. root' \in stack' \cup seen'
      BY <1>2, <2>1 DEF WalkInv, Covered, Visit
    <3>2. ASSUME NEW e \in seen'
          PROVE  Children(e) \subseteq stack' \cup seen'
      <4>1. CASE e \in seen
        BY <1>2, <4>1 DEF WalkInv, Covered, Visit
      <4>2. CASE e \notin seen
        BY <1>2, <3>2, <4>2 DEF Visit
      <4> QED
        BY <4>1, <4>2
    <3> QED
      BY <2>1, <3>1, <3>2 DEF Covered, Children
  <2> QED
    BY <2>2, <2>3, <2>4 DEF WalkInv
<1> QED
  BY <1>1, <1>2 DEF Next

LEMMA WalkInvIsEnough == WalkInv => TypeOK /\ WalkFindsSubtree
<1> SUFFICES ASSUME WalkInv, stack = {}
             PROVE  seen = Subtree(parent, root)
  BY DEF WalkInv, WalkFindsSubtree
<1>1. seen \subseteq Subtree(parent, root)
  BY DEF WalkInv, Inside
<1>2. ClosedUnder(parent, seen) /\ root \in seen /\ seen \in SUBSET Depts
  BY DEF WalkInv, TypeOK, Covered, ClosedUnder, Children
<1>3. Subtree(parent, root) \subseteq seen
  BY <1>2, SubtreeIsLeast
<1> QED
  BY <1>1, <1>3

(* Partial correctness of the walk for every department table: when it has  *)
(* nothing left to look at, its result is the subtree of its root.          *)
THEOREM WalkCorrect == Spec => []WalkFindsSubtree
<1>1. WalkInv /\ [Next]_vars => WalkInv'
  BY NextWalk
<1> QED
  BY <1>1, InitWalk, WalkInvIsEnough, PTL DEF Spec
=============================================================================
