------------------------ MODULE AttendanceCalc_proofs ------------------------
(***************************************************************************)
(* What a daily summary says, for any number of punches, any length of day  *)
(* and of night, and any rule: the time of a day whose last punch is a      *)
(* clock_out is the time the punch states give, rounded as the rule says,   *)
(* and before that it is never more; its night minutes are those of that    *)
(* time that lie in the night; and a kept shift is neither late, left early *)
(* nor short.                                                               *)
(*                                                                          *)
(* buildIntervals and deriveState go through the same punches each in their *)
(* own way. What ties them together is kept by every punch: the ticks of    *)
(* the work intervals that are in no break are the ticks worked, and a      *)
(* break that is not yet ended is the one the state tells of.               *)
(***************************************************************************)
EXTENDS AttendanceCalc, Folding_proofs

-----------------------------------------------------------------------------
(* Quotients                                                                *)

LEMMA DivBounds ==
  ASSUME NEW n \in Nat, NEW d \in Nat \ {0}
  PROVE  n \div d \in Nat /\ d * (n \div d) <= n /\ n < d * (n \div d) + d
OBVIOUS

LEMMA ProductsInOrder ==
  ASSUME NEW a \in Nat, NEW b \in Nat, NEW d \in Nat \ {0}
  PROVE  /\ a < b => d * a + d <= d * b
         /\ a <= b => d * a <= d * b
OBVIOUS

LEMMA DivInOrder ==
  ASSUME NEW a \in Nat, NEW b \in Nat, NEW d \in Nat \ {0}, a <= b
  PROVE  a \div d <= b \div d
<1> DEFINE p == a \div d
           q == b \div d
<1>1. p \in Nat /\ d * p <= a /\ a < d * p + d
  BY DivBounds
<1>2. q \in Nat /\ d * q <= b /\ b < d * q + d
  BY DivBounds
<1> HIDE DEF p, q
<1>3. q < p => d * q + d <= d * p
  BY <1>1, <1>2, ProductsInOrder
<1>4. d * p \in Nat /\ d * q \in Nat
  BY <1>1, <1>2
<1>5. p <= q
  BY <1>1, <1>2, <1>3, <1>4
<1> QED
  BY <1>5 DEF p, q

(* Each quotient with the ticks it may stand for.                           *)
LEMMA QuotientsBound ==
  ASSUME NEW n \in Nat, NEW d \in Nat \ {0}
  PROVE  LET q == Quotients(n, d) IN
         /\ q.up \in Nat /\ n <= d * q.up /\ d * q.up < n + d
         /\ q.down \in Nat /\ d * q.down <= n /\ n < d * q.down + d
         /\ q.nearest \in Nat
         /\ 2 * (d * q.nearest) <= 2 * n + d /\ 2 * n < 2 * (d * q.nearest) + d
<1>1. /\ Quotients(n, d).up = (n + d - 1) \div d
      /\ Quotients(n, d).down = n \div d
      /\ Quotients(n, d).nearest = (2 * n + d) \div (2 * d)
  BY DEF Quotients
<1> DEFINE u == (n + d - 1) \div d
           v == (2 * n + d) \div (2 * d)
<1>2. u \in Nat /\ d * u <= n + d - 1 /\ n + d - 1 < d * u + d
  <2>1. n + d - 1 \in Nat
    OBVIOUS
  <2> QED
    BY <2>1, DivBounds
<1>3. v \in Nat /\ (2 * d) * v <= 2 * n + d /\ 2 * n + d < (2 * d) * v + 2 * d
  <2>1. 2 * n + d \in Nat /\ 2 * d \in Nat \ {0}
    OBVIOUS
  <2> QED
    BY <2>1, DivBounds
<1>4. n \div d \in Nat /\ d * (n \div d) <= n /\ n < d * (n \div d) + d
  BY DivBounds
<1> HIDE DEF u, v
<1>5. (2 * d) * v = 2 * (d * v) /\ d * v \in Nat /\ d * u \in Nat
  BY <1>2, <1>3
<1>6. n <= d * u /\ d * u < n + d
  BY <1>2, <1>5
<1>7. 2 * (d * v) <= 2 * n + d /\ 2 * n < 2 * (d * v) + d
  BY <1>3, <1>5
<1> QED
  BY <1>1, <1>2, <1>3, <1>4, <1>6, <1>7 DEF u, v

LEMMA QuotientsInOrder ==
  ASSUME NEW a \in Nat, NEW b \in Nat, NEW d \in Nat \ {0}, a <= b
  PROVE  /\ Quotients(a, d).up <= Quotients(b, d).up
         /\ Quotients(a, d).down <= Quotients(b, d).down
         /\ Quotients(a, d).nearest <= Quotients(b, d).nearest
<1>1. (a + d - 1) \div d <= (b + d - 1) \div d
  <2>1. a + d - 1 \in Nat /\ b + d - 1 \in Nat /\ a + d - 1 <= b + d - 1
    OBVIOUS
  <2> QED
    BY <2>1, DivInOrder
<1>2. a \div d <= b \div d
  BY DivInOrder
<1>3. (2 * a + d) \div (2 * d) <= (2 * b + d) \div (2 * d)
  <2>1. 2 * a + d \in Nat /\ 2 * b + d \in Nat /\ 2 * a + d <= 2 * b + d /\ 2 * d \in Nat \ {0}
    OBVIOUS
  <2> QED
    BY <2>1, DivInOrder
<1> QED
  BY <1>1, <1>2, <1>3 DEF Quotients

LEMMA NoQuotients ==
  ASSUME NEW d \in Nat \ {0}
  PROVE  Quotients(0, d).up = 0 /\ Quotients(0, d).down = 0 /\ Quotients(0, d).nearest = 0
<1>1. ASSUME NEW q \in Nat, d * q < d
      PROVE  q = 0
  BY <1>1, ProductsInOrder
<1>2. ASSUME NEW q \in Nat, 2 * (d * q) <= d
      PROVE  q = 0
  <2>1. d * q \in Nat
    OBVIOUS
  <2>2. d * q < d
    BY <2>1, <1>2
  <2> QED
    BY <2>2, <1>1
<1>3. 0 \in Nat
  OBVIOUS
<1>4. ASSUME NEW q \in Nat, d * q <= 0
      PROVE  q = 0
  BY <1>4, ProductsInOrder
<1> DEFINE q == Quotients(0, d)
<1>5. /\ q.up \in Nat /\ d * q.up < 0 + d
      /\ q.down \in Nat /\ d * q.down <= 0
      /\ q.nearest \in Nat /\ 2 * (d * q.nearest) <= 2 * 0 + d
  BY <1>3, QuotientsBound
<1> HIDE DEF q
<1>6. q.up = 0 /\ q.down = 0 /\ q.nearest = 0
  BY <1>1, <1>2, <1>4, <1>5
<1> QED
  BY <1>6 DEF q

-----------------------------------------------------------------------------
(* Rounding                                                                 *)
LEMMA RulesRound ==
  ASSUME NEW unit \in Nat \ {0}
  PROVE  /\ TicksPerMinute \in Nat \ {0}
         /\ unit * TicksPerMinute \in Nat \ {0}
         /\ unit <= 1 <=> unit = 1
<1>1. TicksPerMinute \in Nat \ {0}
  BY CalcAssumption
<1>2. \A a, b \in Nat \ {0} : a * b \in Nat \ {0}
  OBVIOUS
<1> QED
  BY <1>1, <1>2

(* What roundMinutes comes to.                                              *)
LEMMA RoundingCases ==
  ASSUME NEW ticks \in Nat, NEW unit \in Nat \ {0}, NEW method \in RoundingMethods
  PROVE  LET whole == unit = 1 \/ method = "none"
             q == Quotients(ticks, unit * TicksPerMinute)
             r == RoundMinutes(ticks, unit, method)
         IN
         /\ whole => r = Quotients(ticks, TicksPerMinute).nearest
         /\ ~whole /\ method = "up" => r = unit * q.up
         /\ ~whole /\ method = "down" => r = unit * q.down
         /\ ~whole /\ method = "nearest" => r = unit * q.nearest
         /\ whole \/ method \in {"up", "down", "nearest"}
<1>1. unit <= 1 <=> unit = 1
  BY RulesRound
<1> QED
  BY <1>1 DEF RoundMinutes, WholeMinutes, RoundingMethods

LEMMA Reordered ==
  ASSUME NEW a \in Nat, NEW b \in Nat, NEW q \in Nat
  PROVE  (a * q) * b = (a * b) * q /\ a * q \in Nat
OBVIOUS

(* roundMinutes rounds as the rule says.                                    *)
LEMMA RoundsAsRuled ==
  ASSUME NEW ticks \in Nat, NEW unit \in Nat \ {0}, NEW method \in RoundingMethods
  PROVE  /\ RoundMinutes(ticks, unit, method) \in Nat
         /\ Rounds(RoundMinutes(ticks, unit, method), ticks, unit, method)
<1> DEFINE T == TicksPerMinute
           d == unit * T
           q == Quotients(ticks, d)
           w == Quotients(ticks, T).nearest
           r == RoundMinutes(ticks, unit, method)
<1>1. T \in Nat \ {0} /\ d \in Nat \ {0}
  BY RulesRound
<1>2. /\ q.up \in Nat /\ ticks <= d * q.up /\ d * q.up < ticks + d
      /\ q.down \in Nat /\ d * q.down <= ticks /\ ticks < d * q.down + d
      /\ q.nearest \in Nat
      /\ 2 * (d * q.nearest) <= 2 * ticks + d /\ 2 * ticks < 2 * (d * q.nearest) + d
  <2> HIDE DEF d
  <2> QED
    BY <1>1, QuotientsBound
<1>3. w \in Nat /\ 2 * (T * w) <= 2 * ticks + T /\ 2 * ticks < 2 * (T * w) + T
  BY <1>1, QuotientsBound
<1>4. T * w = w * T /\ T * w \in Nat
  BY <1>1, <1>3
<1>5. ASSUME NEW n \in Nat
      PROVE  /\ (unit * n) * T = d * n /\ unit * n \in Nat /\ (unit * n) % unit = 0
             /\ d * n \in Nat
  <2>1. (unit * n) * T = (unit * T) * n /\ unit * n \in Nat
    BY <1>1, Reordered
  <2>2. (unit * n) % unit = 0
    OBVIOUS
  <2>3. (unit * n) * T \in Nat
    BY <1>1, <2>1
  <2> QED
    BY <2>1, <2>2, <2>3
<1>6. CASE unit = 1 \/ method = "none"
  <2>1. r = w
    BY <1>6, RoundingCases
  <2> HIDE DEF r, w
  <2>2. 2 * (w * T) <= 2 * ticks + T /\ 2 * ticks <= 2 * (w * T) + T
    BY <1>1, <1>3, <1>4
  <2> QED
    BY <1>3, <1>6, <2>1, <2>2 DEF Rounds, r
<1>7. CASE ~(unit = 1 \/ method = "none") /\ method = "up"
  <2> DEFINE n == q.up
  <2>1. r = unit * n
    BY <1>7, RoundingCases
  <2>2. n \in Nat /\ ticks <= d * n /\ d * n < ticks + d
    BY <1>2
  <2> HIDE DEF n, d
  <2>3. (unit * n) * T = d * n /\ unit * n \in Nat /\ (unit * n) % unit = 0
    BY <1>5, <2>2
  <2> HIDE DEF r
  <2> QED
    BY <1>7, <2>1, <2>2, <2>3 DEF Rounds, r, d
<1>8. CASE ~(unit = 1 \/ method = "none") /\ method = "down"
  <2> DEFINE n == q.down
  <2>1. r = unit * n
    BY <1>8, RoundingCases
  <2>2. n \in Nat /\ d * n <= ticks /\ ticks < d * n + d
    BY <1>2
  <2> HIDE DEF n, d
  <2>3. (unit * n) * T = d * n /\ unit * n \in Nat /\ (unit * n) % unit = 0
    BY <1>5, <2>2
  <2> HIDE DEF r
  <2> QED
    BY <1>8, <2>1, <2>2, <2>3 DEF Rounds, r, d
<1>9. CASE ~(unit = 1 \/ method = "none") /\ method = "nearest"
  <2> DEFINE n == q.nearest
  <2>1. r = unit * n
    BY <1>9, RoundingCases
  <2>2. n \in Nat /\ 2 * (d * n) <= 2 * ticks + d /\ 2 * ticks < 2 * (d * n) + d
    BY <1>2
  <2> HIDE DEF n, d
  <2>3. (unit * n) * T = d * n /\ unit * n \in Nat /\ (unit * n) % unit = 0 /\ d * n \in Nat
    BY <1>5, <2>2
  <2>4. 2 * ticks <= 2 * (d * n) + d
    BY <1>1, <2>2, <2>3
  <2> HIDE DEF r
  <2> QED
    BY <1>9, <2>1, <2>2, <2>3, <2>4 DEF Rounds, r, d
<1> QED
  BY <1>6, <1>7, <1>8, <1>9, RoundingCases

LEMMA RoundingInOrder ==
  ASSUME NEW a \in Nat, NEW b \in Nat, a <= b,
         NEW unit \in Nat \ {0}, NEW method \in RoundingMethods
  PROVE  RoundMinutes(a, unit, method) <= RoundMinutes(b, unit, method)
<1> DEFINE T == TicksPerMinute
           d == unit * T
           p == Quotients(a, d)
           q == Quotients(b, d)
           v == Quotients(a, T)
           w == Quotients(b, T)
<1>1. T \in Nat \ {0} /\ d \in Nat \ {0}
  BY RulesRound
<1>2. v.nearest <= w.nearest
  BY <1>1, QuotientsInOrder
<1>3. /\ p.up <= q.up /\ p.down <= q.down /\ p.nearest <= q.nearest
      /\ p.up \in Nat /\ p.down \in Nat /\ p.nearest \in Nat
      /\ q.up \in Nat /\ q.down \in Nat /\ q.nearest \in Nat
  <2> HIDE DEF d
  <2>1. p.up <= q.up /\ p.down <= q.down /\ p.nearest <= q.nearest
    BY <1>1, QuotientsInOrder
  <2>2. p.up \in Nat /\ p.down \in Nat /\ p.nearest \in Nat
    BY <1>1, QuotientsBound
  <2>3. q.up \in Nat /\ q.down \in Nat /\ q.nearest \in Nat
    BY <1>1, QuotientsBound
  <2> QED
    BY <2>1, <2>2, <2>3
<1>4. unit * p.up <= unit * q.up /\ unit * p.down <= unit * q.down /\ unit * p.nearest <= unit * q.nearest
  <2> HIDE DEF p, q
  <2> QED
    BY <1>3, ProductsInOrder
<1>5. CASE unit = 1 \/ method = "none"
  BY <1>2, <1>5, RoundingCases
<1>6. CASE ~(unit = 1 \/ method = "none")
  <2> HIDE DEF p, q
  <2>1. /\ method = "up" =>
             RoundMinutes(a, unit, method) = unit * p.up /\ RoundMinutes(b, unit, method) = unit * q.up
        /\ method = "down" =>
             RoundMinutes(a, unit, method) = unit * p.down /\ RoundMinutes(b, unit, method) = unit * q.down
        /\ method = "nearest" =>
             /\ RoundMinutes(a, unit, method) = unit * p.nearest
             /\ RoundMinutes(b, unit, method) = unit * q.nearest
        /\ method \in {"up", "down", "nearest"}
    BY <1>6, RoundingCases DEF p, q
  <2> QED
    BY <1>4, <2>1
<1> QED
  BY <1>5, <1>6

LEMMA NothingRounds ==
  ASSUME NEW unit \in Nat \ {0}, NEW method \in RoundingMethods
  PROVE  RoundMinutes(0, unit, method) = 0
<1> DEFINE T == TicksPerMinute
           d == unit * T
<1>1. T \in Nat \ {0} /\ d \in Nat \ {0} /\ 0 \in Nat /\ unit * 0 = 0
  BY RulesRound
<1>2. Quotients(0, T).nearest = 0
  BY <1>1, NoQuotients
<1>3. Quotients(0, d).up = 0 /\ Quotients(0, d).down = 0 /\ Quotients(0, d).nearest = 0
  <2> HIDE DEF d
  <2> QED
    BY <1>1, NoQuotients
<1>4. CASE unit = 1 \/ method = "none"
  BY <1>1, <1>2, <1>4, RoundingCases
<1>5. CASE ~(unit = 1 \/ method = "none")
  BY <1>1, <1>3, <1>5, RoundingCases
<1> QED
  BY <1>4, <1>5

(* Rounding to minutes, or up, takes no whole minute away.                  *)
LEMMA WholeMinutesKept ==
  ASSUME NEW k \in Nat, NEW ticks \in Nat, k * TicksPerMinute <= ticks,
         NEW unit \in Nat \ {0}, NEW method \in {"none", "up"}
  PROVE  RoundMinutes(ticks, unit, method) >= k
<1> DEFINE T == TicksPerMinute
           d == unit * T
           r == RoundMinutes(ticks, unit, method)
<1>1. T \in Nat \ {0} /\ d \in Nat \ {0} /\ k * T = T * k /\ T * k \in Nat
  BY RulesRound
<1>2. method \in RoundingMethods
  BY DEF RoundingMethods
<1>3. CASE unit = 1 \/ method = "none"
  <2> DEFINE q == Quotients(ticks, T).nearest
  <2>1. r = q
    BY <1>2, <1>3, RoundingCases
  <2>2. q \in Nat /\ 2 * ticks < 2 * (T * q) + T
    BY <1>1, QuotientsBound
  <2> HIDE DEF q, r
  <2>3. q < k => T * q + T <= T * k
    BY <1>1, <2>2, ProductsInOrder
  <2>4. T * q \in Nat
    BY <1>1, <2>2
  <2>5. q >= k
    BY <1>1, <2>2, <2>3, <2>4
  <2> QED
    BY <2>1, <2>5 DEF r
<1>4. CASE ~(unit = 1 \/ method = "none")
  <2> DEFINE q == Quotients(ticks, d).up
             n == unit * q
  <2>1. r = n
    BY <1>2, <1>4, RoundingCases
  <2>2. q \in Nat /\ ticks <= d * q
    <3> HIDE DEF d
    <3> QED
      BY <1>1, QuotientsBound
  <2> HIDE DEF q, r
  <2>3. (unit * q) * T = (unit * T) * q /\ n \in Nat
    BY <1>1, <2>2, Reordered
  <2>4. ticks <= n * T
    BY <2>2, <2>3
  <2> HIDE DEF n
  <2>5. n < k => T * n + T <= T * k
    BY <1>1, <2>3, ProductsInOrder
  <2>6. n * T = T * n /\ T * n \in Nat
    BY <1>1, <2>3
  <2>7. n >= k
    BY <1>1, <2>3, <2>4, <2>5, <2>6
  <2> QED
    BY <2>1, <2>7 DEF r
<1> QED
  BY <1>3, <1>4

-----------------------------------------------------------------------------
(* A later punch                                                            *)

Later(p, day) ==
  Punched(day \cup {p}) /\ \A q \in day : q.at < p.at

LEMMA LaterIsLatest ==
  ASSUME NEW day, NEW p, Later(p, day)
  PROVE  /\ Punched(day) /\ p \notin day /\ Latest(day \cup {p}) = p
         /\ (day \cup {p}) \ {p} = day
<1> DEFINE more == day \cup {p}
<1>1. p.at \in Nat /\ \A q \in day : q.at \in Nat /\ q.at < p.at
  BY DEF Later, Punched
<1>2. Latest(more) \in more /\ \A q \in more : q.at <= Latest(more).at
  BY LatestIsLast DEF Later
<1>3. Latest(more) = p
  BY <1>1, <1>2
<1>4. p \notin day
  BY <1>1
<1>5. day \in SUBSET more
  OBVIOUS
<1>6. Punched(day)
  BY <1>5, FS_Subset DEF Later, Punched
<1> QED
  BY <1>3, <1>4, <1>6

(* What deriveState makes of it.                                            *)
LEMMA NextState ==
  ASSUME NEW day, NEW p, Later(p, day)
  PROVE  DeriveState(day \cup {p}) = AfterPunch(DeriveState(day), p.type)
<1> DEFINE more == day \cup {p}
           h == StatesOf(day)
           k == StatesOf(more)
           pick == [s \in SUBSET more |-> Latest(s)]
<1>1. /\ Punched(day) /\ Punched(more) /\ IsFiniteSet(day)
      /\ Latest(more) = p /\ more \ {p} = day
  BY LaterIsLatest DEF Later, Punched
<1>2. StateEquations(day) /\ StateEquations(more)
  BY <1>1, StatesEquation
<1>3. h[{}] = k[{}]
  BY <1>2 DEF StateEquations
<1>4. ASSUME NEW s \in SUBSET day, s # {}
      PROVE  pick[s] \in s /\ (h[s \ {pick[s]}] = k[s \ {pick[s]}] => h[s] = k[s])
  <2>1. s \in SUBSET more /\ Punched(s)
    BY <1>1, FS_Subset DEF Punched
  <2>2. pick[s] = Latest(s) /\ Latest(s) \in s
    BY <2>1, <1>4, LatestIsLast
  <2> HIDE DEF h, k, pick
  <2>3. /\ h[s] = AfterPunch(h[s \ {Latest(s)}], Latest(s).type)
        /\ k[s] = AfterPunch(k[s \ {Latest(s)}], Latest(s).type)
    BY <1>2, <1>4, <2>1 DEF StateEquations, h, k
  <2> QED
    BY <2>2, <2>3
<1>5. h[day] = k[day]
  <2> HIDE DEF h, k, pick
  <2> QED
    BY <1>1, <1>3, <1>4, FoldsAgree
<1>6. k[more] = AfterPunch(k[day], p.type)
  BY <1>1, <1>2 DEF StateEquations
<1> QED
  BY <1>5, <1>6, DeriveIsStates

LEMMA NoPunches == DeriveState({}) = "out"
<1>1. Punched({})
  BY FS_EmptySet DEF Punched
<1>2. StateEquations({})
  BY <1>1, StatesEquation
<1> QED
  BY <1>2, DeriveIsStates DEF StateEquations

(* What buildIntervals makes of it.                                         *)
Spans == [start : Nat, end : Nat]
Times == Nat \cup {Nothing}
Tallies == [work : SUBSET Spans, breaks : SUBSET Spans, workStart : Times, breakStart : Times]

NoTally == [work |-> {}, breaks |-> {}, workStart |-> Nothing, breakStart |-> Nothing]

TallyStep(day, h) ==
  [s \in SUBSET day |-> IF s = {} THEN NoTally ELSE Extend(h[s \ {Latest(s)}], Latest(s))]

TalliesOf(day) == CHOOSE h : h = TallyStep(day, h)

LEMMA IntervalsAreTallies == ASSUME NEW day PROVE BuildIntervals(day) = TalliesOf(day)[day]
BY DEF BuildIntervals, FoldInOrder, MapThenFoldSet, TallyStep, TalliesOf, NoTally

LEMMA ExtendType ==
  ASSUME NEW b \in Tallies, NEW p, p.type \in PunchTypes, p.at \in Nat
  PROVE  Extend(b, p) \in Tallies
<1>1. CASE p.type = "clock_in"
  BY <1>1 DEF Extend, Tallies, Times
<1>2. CASE p.type = "clock_out"
  <2>1. b.workStart # Nothing => [start |-> b.workStart, end |-> p.at] \in Spans
    BY DEF Tallies, Times, Spans
  <2> QED
    BY <1>2, <2>1 DEF Extend, Tallies, Times
<1>3. CASE p.type = "break_start"
  BY <1>3 DEF Extend, Tallies, Times
<1>4. CASE p.type = "break_end"
  <2>1. b.breakStart # Nothing => [start |-> b.breakStart, end |-> p.at] \in Spans
    BY DEF Tallies, Times, Spans
  <2> QED
    BY <1>4, <2>1 DEF Extend, Tallies, Times
<1> QED
  BY <1>1, <1>2, <1>3, <1>4 DEF PunchTypes

TallyEquations(day) ==
  \A s \in SUBSET day :
    TalliesOf(day)[s] = IF s = {} THEN NoTally
                        ELSE Extend(TalliesOf(day)[s \ {Latest(s)}], Latest(s))

LEMMA TalliesEquation ==
  ASSUME NEW day, Punched(day)
  PROVE  TallyEquations(day)
<1> DEFINE F == [p \in day |-> [b \in Tallies |-> Extend(b, p)]]
           pick == [s \in SUBSET day |-> Latest(s)]
<1>1. \A s \in SUBSET day : s # {} => Latest(s) \in s
  BY LatestIsLast, FS_Subset DEF Punched
<1>2. \A s \in SUBSET day : s # {} => pick[s] \in s
  BY <1>1
<1>3. \A p \in day : p.type \in PunchTypes /\ p.at \in Nat
  BY DEF Punched
<1>4. NoTally \in Tallies
  BY DEF NoTally, Tallies, Times
<1>5. \A x \in day, b \in Tallies : F[x][b] \in Tallies
  BY <1>3, ExtendType
<1>6. PICK h : h = FoldStep(F, NoTally, pick, day, h)
  <2> HIDE DEF F, pick
  <2>1. Foldable(F, NoTally, pick, day)
    BY <1>2, FoldExists DEF Punched
  <2> QED
    BY <2>1 DEF Foldable
<1>7. \A s \in SUBSET day : h[s] \in Tallies
  <2> HIDE DEF F, pick
  <2> QED
    BY <1>2, <1>4, <1>5, <1>6, FoldType DEF Punched
<1>8. h = [s \in SUBSET day |-> IF s = {} THEN NoTally ELSE F[pick[s]][h[s \ {pick[s]}]]]
  <2> HIDE DEF F, pick
  <2> QED
    BY <1>6 DEF FoldStep
<1>9. ASSUME NEW s \in SUBSET day, s # {}
      PROVE  F[pick[s]][h[s \ {pick[s]}]] = Extend(h[s \ {Latest(s)}], Latest(s))
  <2>1. Latest(s) \in day /\ h[s \ {Latest(s)}] \in Tallies
    BY <1>1, <1>7, <1>9
  <2> QED
    BY <2>1
<1>10. h = TallyStep(day, h)
  <2> HIDE DEF F, pick
  <2> QED
    BY <1>8, <1>9 DEF TallyStep
<1>11. TalliesOf(day) = TallyStep(day, TalliesOf(day))
  BY <1>10 DEF TalliesOf
<1> QED
  <2> DEFINE k == TalliesOf(day)
  <2>1. k = [s \in SUBSET day |-> IF s = {} THEN NoTally ELSE Extend(k[s \ {Latest(s)}], Latest(s))]
    BY <1>11 DEF TallyStep
  <2> HIDE DEF k
  <2>2. \A s \in SUBSET day :
          k[s] = IF s = {} THEN NoTally ELSE Extend(k[s \ {Latest(s)}], Latest(s))
    BY <2>1
  <2> QED
    BY <2>2 DEF k, TallyEquations

LEMMA NextTally ==
  ASSUME NEW day, NEW p, Later(p, day)
  PROVE  BuildIntervals(day \cup {p}) = Extend(BuildIntervals(day), p)
<1> DEFINE more == day \cup {p}
           h == TalliesOf(day)
           k == TalliesOf(more)
           pick == [s \in SUBSET more |-> Latest(s)]
<1>1. /\ Punched(day) /\ Punched(more) /\ IsFiniteSet(day)
      /\ Latest(more) = p /\ more \ {p} = day
  BY LaterIsLatest DEF Later, Punched
<1>2. TallyEquations(day) /\ TallyEquations(more)
  BY <1>1, TalliesEquation
<1>3. h[{}] = k[{}]
  BY <1>2 DEF TallyEquations
<1>4. ASSUME NEW s \in SUBSET day, s # {}
      PROVE  pick[s] \in s /\ (h[s \ {pick[s]}] = k[s \ {pick[s]}] => h[s] = k[s])
  <2>1. s \in SUBSET more /\ Punched(s)
    BY <1>1, FS_Subset DEF Punched
  <2>2. pick[s] = Latest(s) /\ Latest(s) \in s
    BY <2>1, <1>4, LatestIsLast
  <2> HIDE DEF h, k, pick
  <2>3. /\ h[s] = Extend(h[s \ {Latest(s)}], Latest(s))
        /\ k[s] = Extend(k[s \ {Latest(s)}], Latest(s))
    BY <1>2, <1>4, <2>1 DEF TallyEquations, h, k
  <2> QED
    BY <2>2, <2>3
<1>5. h[day] = k[day]
  <2> HIDE DEF h, k, pick
  <2> QED
    BY <1>1, <1>3, <1>4, FoldsAgree
<1>6. k[more] = Extend(k[day], p)
  BY <1>1, <1>2 DEF TallyEquations
<1> QED
  BY <1>5, <1>6, IntervalsAreTallies

LEMMA NoIntervals == BuildIntervals({}) = NoTally
<1>1. Punched({})
  BY FS_EmptySet DEF Punched
<1>2. TallyEquations({})
  BY <1>1, TalliesEquation
<1> QED
  BY <1>2, IntervalsAreTallies DEF TallyEquations

-----------------------------------------------------------------------------
(* Lengths of intervals as numbers of ticks                                 *)

Ticks(i) == i.start..(i.end - 1)

Cover(intervals) == UNION {Ticks(i) : i \in intervals}

Apart(intervals) ==
  \A i, j \in intervals : i # j => Ticks(i) \cap Ticks(j) = {}

(* What the intervals of buildIntervals are like.                           *)
Proper(intervals) ==
  /\ IsFiniteSet(intervals) /\ Apart(intervals)
  /\ \A i \in intervals :
       i.start \in Nat /\ i.end \in Nat /\ i.start < i.end /\ i.end <= Day

LEMMA DurationCounts ==
  ASSUME NEW intervals, Proper(intervals)
  PROVE  IsFiniteSet(Cover(intervals)) /\ Duration(intervals) = Cardinality(Cover(intervals))
<1> DEFINE g == [i \in intervals |-> NotBelowZero(i.end - i.start)]
           C == [i \in intervals |-> Ticks(i)]
<1>1. ASSUME NEW i \in intervals
      PROVE  /\ g[i] \in Int /\ IsFiniteSet(C[i]) /\ g[i] = Cardinality(C[i])
  <2>1. i.start \in Int /\ i.end \in Int /\ i.end - 1 \in Int /\ i.start < i.end
    BY DEF Proper
  <2> DEFINE a == i.start
             e == i.end - 1
  <2>2. IsFiniteSet(a..e) /\ Cardinality(a..e) = IF a > e THEN 0 ELSE e - a + 1
    <3> HIDE DEF a, e
    <3> QED
      BY <2>1, FS_Interval DEF a, e
  <2>3. C[i] = a..e
    BY DEF Ticks
  <2>4. g[i] = i.end - i.start
    BY <2>1 DEF NotBelowZero, Proper
  <2>5. (IF a > e THEN 0 ELSE e - a + 1) = i.end - i.start
    BY <2>1 DEF Proper
  <2> QED
    BY <2>1, <2>2, <2>3, <2>4
<1>2. g \in [intervals -> Int]
  BY <1>1
<1>3. \A i, j \in intervals : i # j => C[i] \cap C[j] = {}
  BY DEF Proper, Apart
<1>4. UNION {C[i] : i \in intervals} = Cover(intervals)
  BY DEF Cover
<1>5. IsFiniteSet(Cover(intervals)) /\ Sums(g)[intervals] = Cardinality(Cover(intervals))
  <2> HIDE DEF g, C
  <2>1. IsFiniteSet(intervals)
    BY DEF Proper
  <2> QED
    BY <1>1, <1>2, <1>3, <1>4, <2>1, SumsOfSizes
<1>6. Duration(intervals) = Sums(g)[intervals]
  <2> DEFINE step(h) ==
        [s \in SUBSET intervals |->
           IF s = {} THEN 0
           ELSE NotBelowZero(Pick(s).end - Pick(s).start) + h[s \ {Pick(s)}]]
  <2>1. Duration(intervals) = (CHOOSE h : h = step(h))[intervals]
    BY DEF Duration, MapThenSumSet, MapThenFoldSet, Pick
  <2>2. ASSUME NEW h
        PROVE  step(h) = SumStep(g, h)
    <3>1. \A s \in SUBSET intervals : s # {} => Pick(s) \in intervals
      BY DEF Pick
    <3> QED
      BY <3>1 DEF SumStep
  <2>3. (CHOOSE h : h = step(h)) = (CHOOSE h : h = SumStep(g, h))
    <3> HIDE DEF step, g
    <3> QED
      BY <2>2
  <2> QED
    BY <2>1, <2>3 DEF Sums
<1> QED
  BY <1>5, <1>6

LEMMA MinOfTwo ==
  ASSUME NEW a \in Int, NEW b \in Int
  PROVE  /\ Min({a, b}) = IF a <= b THEN a ELSE b
         /\ Max({a, b}) = IF a >= b THEN a ELSE b
<1>1. \E x \in {a, b} : \A y \in {a, b} : x <= y
  BY a <= b \/ b <= a
<1>2. \E x \in {a, b} : \A y \in {a, b} : x >= y
  BY a <= b \/ b <= a
<1>3. Min({a, b}) \in {a, b} /\ Min({a, b}) <= a /\ Min({a, b}) <= b
  BY <1>1 DEF Min
<1>4. Max({a, b}) \in {a, b} /\ Max({a, b}) >= a /\ Max({a, b}) >= b
  BY <1>2 DEF Max
<1> QED
  BY <1>3, <1>4

(* An overlap counts the ticks in common.                                   *)
LEMMA OverlapCounts ==
  ASSUME NEW i, i.start \in Nat, i.end \in Nat, NEW from \in Nat, NEW to \in Nat
  PROVE  LET common == Ticks(i) \cap (from..(to - 1))
         IN  IsFiniteSet(common) /\ Overlap(i, from, to) = Cardinality(common)
<1> DEFINE b == IF i.end <= to THEN i.end ELSE to
           a == IF i.start >= from THEN i.start ELSE from
           e == b - 1
<1>1. Overlap(i, from, to) = NotBelowZero(b - a)
  <2>1. Min({i.end, to}) = b
    <3>1. \A m, n \in Int : Min({m, n}) = IF m <= n THEN m ELSE n
      BY MinOfTwo
    <3> QED
      BY <3>1
  <2>2. Max({i.start, from}) = a
    <3>1. \A m, n \in Int : Max({m, n}) = IF m >= n THEN m ELSE n
      BY MinOfTwo
    <3> QED
      BY <3>1
  <2> QED
    BY <2>1, <2>2 DEF Overlap
<1>2. Ticks(i) \cap (from..(to - 1)) = a..e
  BY DEF Ticks
<1>3. a \in Int /\ b \in Int /\ e \in Int
  OBVIOUS
<1>4. NotBelowZero(b - a) = IF a > e THEN 0 ELSE e - a + 1
  BY DEF NotBelowZero
<1>5. IsFiniteSet(a..e) /\ Cardinality(a..e) = IF a > e THEN 0 ELSE e - a + 1
  <2> HIDE DEF a, e
  <2> QED
    BY <1>3, FS_Interval
<1> QED
  BY <1>1, <1>2, <1>4, <1>5

LEMMA SumOfThree ==
  ASSUME NEW x, NEW y, NEW z, x # y, y # z, x # z, NEW S, IsFiniteSet(S), S = {x, y, z},
         NEW g \in [S -> Int]
  PROVE  Sums(g)[S] = g[x] + g[y] + g[z]
<1>2. Sums(g)[{}] = 0
  BY SumsEquation DEF SumEquations
<1>3. Sums(g)[{z}] = g[z] + Sums(g)[{}]
  <2>1. {z} \in SUBSET S /\ {z} \ {z} = {}
    OBVIOUS
  <2> QED
    BY <2>1, SumsTakeOut
<1>4. Sums(g)[{y, z}] = g[y] + Sums(g)[{z}]
  <2>1. {z} \in SUBSET S /\ y \in S /\ y \notin {z}
    OBVIOUS
  <2>2. Sums(g)[{z} \cup {y}] = g[y] + Sums(g)[{z}]
    BY <2>1, SumsExtend
  <2>3. {z} \cup {y} = {y, z}
    OBVIOUS
  <2> QED
    BY <2>2, <2>3, Zenon
<1>5. Sums(g)[S] = g[x] + Sums(g)[{y, z}]
  <2>1. S \in SUBSET S /\ S \ {x} = {y, z} /\ x \in S
    OBVIOUS
  <2> QED
    BY <2>1, SumsTakeOut
<1>6. g[x] \in Int /\ g[y] \in Int /\ g[z] \in Int
  OBVIOUS
<1> QED
  BY <1>2, <1>3, <1>4, <1>5, <1>6

LEMMA ZeroToTwo == IsFiniteSet(0..2) /\ 0..2 = {0, 1, 2}
<1>1. 0..2 = {0, 1, 2}
  OBVIOUS
<1>2. IsFiniteSet({0})
  BY FS_Singleton
<1>3. IsFiniteSet({0} \cup {1})
  BY <1>2, FS_AddElement
<1>4. IsFiniteSet(({0} \cup {1}) \cup {2})
  BY <1>3, FS_AddElement
<1>5. ({0} \cup {1}) \cup {2} = {0, 1, 2}
  OBVIOUS
<1> QED
  BY <1>1, <1>4, <1>5, Zenon

(* Of the bands nightOverlap looks at an interval of the day meets only     *)
(* those of the day.                                                        *)
LEMMA NightOverlapCounts ==
  ASSUME NEW i, i.start \in Nat, i.end \in Nat, i.start < i.end, i.end <= Day
  PROVE  LET common == Ticks(i) \cap AtNight
         IN  IsFiniteSet(common) /\ NightOverlap(i) = Cardinality(common)
<1> DEFINE midnight(n) == Day * ((i.start \div Day) + n)
           band(n) == Overlap(i, midnight(n), midnight(n) + NightEnd)
                        + Overlap(i, midnight(n) + NightStart, midnight(n + 1))
           g == [n \in 0..2 |-> band(n)]
           early == Ticks(i) \cap (0..(NightEnd - 1))
           late == Ticks(i) \cap (NightStart..(Day - 1))
<1>0. /\ Day \in Nat \ {0} /\ NightEnd \in Nat /\ NightStart \in Nat
      /\ NightEnd <= NightStart /\ NightStart <= Day
  BY CalcAssumption
<1>1. i.start \div Day = 0
  BY <1>0
<1>2. midnight(0) = 0 /\ midnight(1) = Day /\ midnight(2) = 2 * Day /\ midnight(3) = 3 * Day
  <2>1. /\ Day * (0 + 0) = 0 /\ Day * (0 + 1) = Day
        /\ Day * (0 + 2) = 2 * Day /\ Day * (0 + 3) = 3 * Day
    BY <1>0
  <2> QED
    BY <1>1, <2>1, Zenon
<1>3. /\ band(0) = Overlap(i, 0, NightEnd) + Overlap(i, NightStart, Day)
      /\ band(1) = Overlap(i, Day, Day + NightEnd) + Overlap(i, Day + NightStart, 2 * Day)
      /\ band(2) = Overlap(i, 2 * Day, 2 * Day + NightEnd)
                     + Overlap(i, 2 * Day + NightStart, 3 * Day)
  <2>1. 0 + 1 = 1 /\ 1 + 1 = 2 /\ 2 + 1 = 3
    OBVIOUS
  <2>2. 0 + NightEnd = NightEnd /\ 0 + NightStart = NightStart
    BY <1>0
  <2> HIDE DEF midnight
  <2> QED
    BY <1>2, <2>1, <2>2
<1>4. ASSUME NEW from \in Nat, NEW to \in Nat, from >= Day
      PROVE  Overlap(i, from, to) = 0
  <2>1. Ticks(i) \cap (from..(to - 1)) = {}
    BY <1>0, <1>4 DEF Ticks
  <2> QED
    BY <2>1, OverlapCounts, FS_EmptySet
<1>5. band(1) = 0 /\ band(2) = 0
  <2>1. /\ Overlap(i, Day, Day + NightEnd) = 0
        /\ Overlap(i, Day + NightStart, 2 * Day) = 0
        /\ Overlap(i, 2 * Day, 2 * Day + NightEnd) = 0
        /\ Overlap(i, 2 * Day + NightStart, 3 * Day) = 0
    BY <1>0, <1>4
  <2> QED
    BY <1>3, <2>1
<1>6. /\ IsFiniteSet(early) /\ Overlap(i, 0, NightEnd) = Cardinality(early)
      /\ IsFiniteSet(late) /\ Overlap(i, NightStart, Day) = Cardinality(late)
  BY <1>0, OverlapCounts
<1>7. Ticks(i) \cap AtNight = early \cup late /\ early \cap late = {}
  BY <1>0 DEF Ticks, AtNight
<1>8. /\ IsFiniteSet(early \cup late)
      /\ Cardinality(early \cup late) = Cardinality(early) + Cardinality(late)
      /\ Cardinality(early) \in Nat /\ Cardinality(late) \in Nat
  <2>1. early \cap late = {}
    BY <1>7
  <2> HIDE DEF early, late
  <2>2. Cardinality(early) \in Nat /\ Cardinality(late) \in Nat
    BY <1>6, FS_CardinalityType
  <2>3. /\ IsFiniteSet(early \cup late)
        /\ Cardinality(early \cup late)
             = Cardinality(early) + Cardinality(late) - Cardinality(early \cap late)
    BY <1>6, FS_Union
  <2> QED
    BY <2>1, <2>2, <2>3, FS_EmptySet
<1>9. g[0] = Cardinality(Ticks(i) \cap AtNight) /\ g[1] = 0 /\ g[2] = 0 /\ g[0] \in Int
  <2>1. g[0] = band(0) /\ g[1] = band(1) /\ g[2] = band(2)
    OBVIOUS
  <2> HIDE DEF g, band, early, late
  <2>2. band(0) = Cardinality(early) + Cardinality(late)
    BY <1>3, <1>6, Zenon
  <2>3. Cardinality(Ticks(i) \cap AtNight) = Cardinality(early) + Cardinality(late)
    BY <1>7, <1>8, Zenon
  <2>4. Cardinality(early) + Cardinality(late) \in Int
    BY <1>8
  <2> QED
    BY <1>5, <2>1, <2>2, <2>3, <2>4, Zenon
<1>10. NightOverlap(i) = Sums(g)[0..2]
  <2> DEFINE step(h) ==
        [s \in SUBSET (0..2) |-> IF s = {} THEN 0 ELSE band(Pick(s)) + h[s \ {Pick(s)}]]
  <2>1. NightOverlap(i) = (CHOOSE h : h = step(h))[0..2]
    BY DEF NightOverlap, MapThenSumSet, MapThenFoldSet, Pick
  <2> HIDE DEF band
  <2>2. ASSUME NEW h
        PROVE  step(h) = SumStep(g, h)
    <3>1. \A s \in SUBSET (0..2) : s # {} => Pick(s) \in 0..2
      BY DEF Pick
    <3> QED
      BY <3>1 DEF SumStep
  <2>3. (CHOOSE h : h = step(h)) = (CHOOSE h : h = SumStep(g, h))
    <3> HIDE DEF step, g
    <3> QED
      BY <2>2
  <2> QED
    BY <2>1, <2>3 DEF Sums
<1>11. g \in [0..2 -> Int]
  <2> HIDE DEF band
  <2>1. \A n \in 0..2 : n = 0 \/ n = 1 \/ n = 2
    OBVIOUS
  <2>2. \A n \in 0..2 : g[n] \in Int
    BY <1>9, <2>1
  <2> QED
    BY <2>2
<1>12. Sums(g)[0..2] = g[0] + g[1] + g[2]
  <2> HIDE DEF g
  <2> QED
    BY <1>11, ZeroToTwo, SumOfThree
<1>13. NightOverlap(i) = g[0]
  <2> HIDE DEF g
  <2> QED
    BY <1>9, <1>10, <1>12
<1> QED
  BY <1>7, <1>8, <1>9, <1>13

LEMMA NightCounts ==
  ASSUME NEW intervals, Proper(intervals)
  PROVE  LET common == Cover(intervals) \cap AtNight
         IN  IsFiniteSet(common) /\ NightOf(intervals) = Cardinality(common)
<1> DEFINE g == [i \in intervals |-> NightOverlap(i)]
           C == [i \in intervals |-> Ticks(i) \cap AtNight]
<1>1. ASSUME NEW i \in intervals
      PROVE  IsFiniteSet(C[i]) /\ g[i] = Cardinality(C[i]) /\ g[i] \in Int
  <2>1. i.start \in Nat /\ i.end \in Nat /\ i.start < i.end /\ i.end <= Day
    BY DEF Proper
  <2>2. IsFiniteSet(Ticks(i) \cap AtNight) /\ NightOverlap(i) = Cardinality(Ticks(i) \cap AtNight)
    BY <2>1, NightOverlapCounts
  <2> QED
    BY <2>2, FS_CardinalityType
<1>2. g \in [intervals -> Int]
  BY <1>1
<1>3. \A i, j \in intervals : i # j => C[i] \cap C[j] = {}
  BY DEF Proper, Apart
<1>4. UNION {C[i] : i \in intervals} = Cover(intervals) \cap AtNight
  BY DEF Cover
<1>5. LET common == Cover(intervals) \cap AtNight
      IN  IsFiniteSet(common) /\ Sums(g)[intervals] = Cardinality(common)
  <2> HIDE DEF g, C
  <2>1. IsFiniteSet(intervals)
    BY DEF Proper
  <2> QED
    BY <1>1, <1>2, <1>3, <1>4, <2>1, SumsOfSizes
<1>6. NightOf(intervals) = Sums(g)[intervals]
  <2> DEFINE step(h) ==
        [s \in SUBSET intervals |->
           IF s = {} THEN 0 ELSE NightOverlap(Pick(s)) + h[s \ {Pick(s)}]]
  <2>1. NightOf(intervals) = (CHOOSE h : h = step(h))[intervals]
    BY DEF NightOf, MapThenSumSet, MapThenFoldSet, Pick
  <2>2. ASSUME NEW h
        PROVE  step(h) = SumStep(g, h)
    <3>1. \A s \in SUBSET intervals : s # {} => Pick(s) \in intervals
      BY DEF Pick
    <3> QED
      BY <3>1 DEF SumStep
  <2>3. (CHOOSE h : h = step(h)) = (CHOOSE h : h = SumStep(g, h))
    <3> HIDE DEF step, g
    <3> QED
      BY <2>2
  <2> QED
    BY <2>1, <2>3 DEF Sums
<1> QED
  BY <1>5, <1>6

(* Taking the breaks out of the work takes their ticks out.                 *)
LEMMA TakenOut ==
  ASSUME NEW W, IsFiniteSet(W), NEW B, IsFiniteSet(B)
  PROVE  /\ IsFiniteSet(W \ B) /\ Cardinality(W \ B) \in Nat
         /\ Cardinality(W) \in Nat /\ Cardinality(B) \in Nat
         /\ Cardinality(W) - Cardinality(B) <= Cardinality(W \ B)
         /\ B \subseteq W => Cardinality(W) - Cardinality(B) = Cardinality(W \ B)
<1>1. IsFiniteSet(W \ B) /\ IsFiniteSet(W \cap B) /\ Cardinality(W \cap B) <= Cardinality(B)
  BY FS_Subset, FS_Intersection
<1>2. (W \ B) \cup (W \cap B) = W /\ (W \ B) \cap (W \cap B) = {}
  OBVIOUS
<1>3. Cardinality(W) = Cardinality(W \ B) + Cardinality(W \cap B) - Cardinality({})
  BY <1>1, <1>2, FS_Union
<1>4. Cardinality({}) = 0
  BY FS_EmptySet
<1>5. /\ Cardinality(W) \in Nat /\ Cardinality(B) \in Nat
      /\ Cardinality(W \ B) \in Nat /\ Cardinality(W \cap B) \in Nat
  BY <1>1, FS_CardinalityType
<1>6. Cardinality(W) - Cardinality(B) <= Cardinality(W \ B)
  BY <1>1, <1>3, <1>4, <1>5
<1>7. ASSUME B \subseteq W
      PROVE  Cardinality(W) - Cardinality(B) = Cardinality(W \ B)
  <2>1. Cardinality(W \cap B) = Cardinality(B)
    <3>1. W \cap B = B
      BY <1>7
    <3> QED
      BY <3>1, Zenon
  <2> QED
    BY <2>1, <1>3, <1>4, <1>5
<1> QED
  BY <1>1, <1>5, <1>6, <1>7

-----------------------------------------------------------------------------
(* The intervals and the punch states of a day                              *)

DayPunches == [type : PunchTypes, at : 0..(Day - 1), corrected : BOOLEAN]

StateOn(day, t) == DeriveState({p \in day : p.at <= t})

StillToCome(day, t) == {p \in day : p.at > t}

Ended(day, t) == \E p \in day : p.type = "clock_out" /\ p.at > t

EndsNext(day, t) ==
  \E p \in StillToCome(day, t) :
    p.type = "clock_out" /\ \A q \in StillToCome(day, t) : p.at <= q.at

WorkedOn(day) ==
  {t \in 0..(Day - 1) :
     \/ StateOn(day, t) = "in" /\ Ended(day, t)
     \/ StateOn(day, t) = "break" /\ EndsNext(day, t)}

LEMMA WorkedIsOn == Worked = WorkedOn(records)
<1>1. \A t : /\ StateAt(t) = StateOn(records, t)
             /\ (\E p \in records : p.type = "clock_out" /\ p.at > t) <=> Ended(records, t)
             /\ (\E p \in NextPunch(t) : p.type = "clock_out") <=> EndsNext(records, t)
  BY DEF StateAt, StateOn, Ended, NextPunch, EndsNext, StillToCome
<1> QED
  BY <1>1 DEF Worked, WorkedOn

(* A later punch does not change what the states before it are.             *)
LEMMA StateBefore ==
  ASSUME NEW day, NEW p, Later(p, day), NEW t \in Nat
  PROVE  /\ t < p.at => StateOn(day \cup {p}, t) = StateOn(day, t)
         /\ t >= p.at => StateOn(day \cup {p}, t) = DeriveState(day \cup {p})
<1> DEFINE more == day \cup {p}
<1>1. p.at \in Nat /\ \A q \in day : q.at \in Nat /\ q.at < p.at
  BY DEF Later, Punched
<1>2. t < p.at => {q \in more : q.at <= t} = {q \in day : q.at <= t}
  BY <1>1
<1>3. t >= p.at => {q \in more : q.at <= t} = more
  BY <1>1
<1> QED
  BY <1>2, <1>3 DEF StateOn

LEMMA EndsBefore ==
  ASSUME NEW day, NEW p, Later(p, day), NEW t \in Nat
  PROVE  LET more == day \cup {p}
             last == p.type = "clock_out" /\ t < p.at
         IN
         /\ Ended(more, t) <=> Ended(day, t) \/ last
         /\ (\E q \in day : q.at > t) => (EndsNext(more, t) <=> EndsNext(day, t))
         /\ ~(\E q \in day : q.at > t) =>
              ~Ended(day, t) /\ ~EndsNext(day, t) /\ (EndsNext(more, t) <=> last)
<1> DEFINE more == day \cup {p}
           last == p.type = "clock_out" /\ t < p.at
<1>1. p.at \in Nat /\ \A q \in day : q.at \in Nat /\ q.at < p.at
  BY DEF Later, Punched
<1>2. Ended(more, t) <=> Ended(day, t) \/ last
  BY <1>1 DEF Ended
<1>3. ASSUME NEW q \in day, q.at > t
      PROVE  EndsNext(more, t) <=> EndsNext(day, t)
  <2>1. StillToCome(more, t) = StillToCome(day, t) \cup {p} /\ q \in StillToCome(day, t)
    BY <1>1, <1>3 DEF StillToCome
  <2>2. \A r \in StillToCome(day, t) : r \in day
    BY DEF StillToCome
  <2>3. ~(p.at <= q.at)
    BY <1>1
  <2>4. ASSUME NEW r \in StillToCome(day, t)
        PROVE  r.at <= p.at
    BY <1>1, <2>2
  <2> QED
    BY <2>1, <2>3, <2>4 DEF EndsNext
<1>4. ASSUME ~(\E q \in day : q.at > t)
      PROVE  ~Ended(day, t) /\ ~EndsNext(day, t) /\ (EndsNext(more, t) <=> last)
  <2>1. StillToCome(day, t) = {} /\ StillToCome(more, t) = IF t < p.at THEN {p} ELSE {}
    BY <1>1, <1>4 DEF StillToCome
  <2>2. ~Ended(day, t)
    BY <1>4 DEF Ended
  <2>3. ~EndsNext(day, t)
    BY <2>1 DEF EndsNext
  <2>4. EndsNext(more, t) <=> last
    <3>1. p.at <= p.at
      BY <1>1
    <3>2. CASE t < p.at
      <4>1. StillToCome(more, t) = {p}
        BY <2>1, <3>2
      <4> QED
        BY <3>1, <3>2, <4>1 DEF EndsNext
    <3>3. CASE ~(t < p.at)
      <4>1. StillToCome(more, t) = {}
        BY <2>1, <3>3
      <4> QED
        BY <3>3, <4>1 DEF EndsNext
    <3> QED
      BY <3>2, <3>3
  <2> QED
    BY <2>2, <2>3, <2>4
<1> QED
  BY <1>2, <1>3, <1>4

(* What is worked changes only by clocking out.                             *)
LEMMA WorkedSame ==
  ASSUME NEW day, NEW p, Later(p, day), p.type # "clock_out"
  PROVE  WorkedOn(day \cup {p}) = WorkedOn(day)
<1> DEFINE more == day \cup {p}
<1>1. p.at \in Nat /\ \A q \in day : q.at \in Nat /\ q.at < p.at
  BY DEF Later, Punched
<1>2. ASSUME NEW t \in Nat
      PROVE  /\ Ended(more, t) <=> Ended(day, t)
             /\ EndsNext(more, t) <=> EndsNext(day, t)
             /\ t < p.at => StateOn(more, t) = StateOn(day, t)
             /\ t >= p.at => ~Ended(day, t) /\ ~EndsNext(day, t)
  <2>1. t >= p.at => ~(\E q \in day : q.at > t)
    BY <1>1
  <2> QED
    BY <2>1, StateBefore, EndsBefore
<1>3. ASSUME NEW t \in 0..(Day - 1)
      PROVE  t \in WorkedOn(more) <=> t \in WorkedOn(day)
  <2>1. t \in Nat /\ (t < p.at \/ t >= p.at)
    BY <1>1, CalcAssumption
  <2> QED
    BY <1>2, <2>1 DEF WorkedOn
<1>4. \A t : t \in WorkedOn(more) \/ t \in WorkedOn(day) => t \in 0..(Day - 1)
  BY DEF WorkedOn
<1> QED
  BY <1>3, <1>4

-----------------------------------------------------------------------------
(* What a punch keeps                                                       *)

Stamped(day, at) == \E p \in day : p.at = at

Open(b) == b.workStart # Nothing

(* The intervals have a length, lie apart and end with a punch.             *)
Shaped(day, b) ==
  /\ b \in Tallies /\ Proper(b.work) /\ Proper(b.breaks)
  /\ \A i \in b.work \cup b.breaks : Stamped(day, i.end)

(* Where the intervals and the state say somebody is.                       *)
InSession(day, b, state) ==
  /\ state \in States
  /\ state = "out" <=> ~Open(b)
  /\ Open(b) =>
       /\ Stamped(day, b.workStart)
       /\ \A i \in b.work : i.end <= b.workStart
       /\ \A p \in day : p.type = "clock_out" => p.at <= b.workStart
  /\ state = "break" =>
       /\ Stamped(day, b.breakStart) /\ b.workStart <= b.breakStart
       /\ \A p \in day : p.at <= b.breakStart

(* Of a session that is open the states tell the breaks.                    *)
BreaksTold(day, b, state) ==
  Open(b) =>
    \A t \in Nat : t >= b.workStart =>
      /\ StateOn(day, t) \in {"in", "break"}
      /\ StateOn(day, t) = "break"
           <=> t \in Cover(b.breaks) \/ (state = "break" /\ t >= b.breakStart)

(* Whoever was in before it clocked out later.                              *)
SessionsEnded(day, b) ==
  \A t \in Nat :
    (Open(b) => t < b.workStart) /\ StateOn(day, t) = "in" => Ended(day, t)

BreaksInWork(b) ==
  \A t \in Cover(b.breaks) : t \in Cover(b.work) \/ (Open(b) /\ t >= b.workStart)

Told(day, b, state) ==
  /\ Shaped(day, b) /\ InSession(day, b, state)
  /\ BreaksTold(day, b, state) /\ SessionsEnded(day, b) /\ BreaksInWork(b)
  /\ WorkedOn(day) = Cover(b.work) \ Cover(b.breaks)

LEMMA CoverIs ==
  ASSUME NEW intervals, Proper(intervals)
  PROVE  \A t : t \in Cover(intervals)
                  <=> t \in Nat /\ \E i \in intervals : i.start <= t /\ t < i.end
<1>1. \A i \in intervals : i.start \in Nat /\ i.end \in Nat
  BY DEF Proper
<1>2. \A i \in intervals : \A t :
        t \in Ticks(i) <=> t \in Nat /\ i.start <= t /\ t < i.end
  BY <1>1 DEF Ticks
<1> QED
  BY <1>2 DEF Cover

(* One more interval, after the others.                                     *)
LEMMA IntervalAdded ==
  ASSUME NEW intervals, Proper(intervals),
         NEW i, i.start \in Nat, i.end \in Nat, i.start < i.end, i.end <= Day,
         \A j \in intervals : j.end <= i.start
  PROVE  /\ Proper(intervals \cup {i})
         /\ \A t : t \in Cover(intervals \cup {i})
                     <=> t \in Cover(intervals) \/ (t \in Nat /\ i.start <= t /\ t < i.end)
<1> DEFINE all == intervals \cup {i}
<1>1. IsFiniteSet(all)
  BY FS_AddElement DEF Proper
<1>2. \A j \in intervals : j.start \in Nat /\ j.end \in Nat
  BY DEF Proper
<1>3. \A j \in intervals : Ticks(j) \cap Ticks(i) = {} /\ Ticks(i) \cap Ticks(j) = {}
  BY <1>2 DEF Ticks
<1>4. Apart(all)
  BY <1>3 DEF Apart, Proper
<1>5. Proper(all)
  BY <1>1, <1>4 DEF Proper
<1>6. \A t : t \in Ticks(i) <=> t \in Nat /\ i.start <= t /\ t < i.end
  BY DEF Ticks
<1>7. Cover(all) = Cover(intervals) \cup Ticks(i)
  BY DEF Cover
<1> QED
  BY <1>5, <1>6, <1>7

(* What the four punches have in common.                                    *)
LEMMA LaterTimes ==
  ASSUME NEW day \in SUBSET DayPunches, NEW p \in DayPunches, Later(p, day)
  PROVE  /\ p.at \in Nat /\ p.at < Day /\ p.type \in PunchTypes
         /\ \A q \in day : q.at \in Nat /\ q.at < p.at
         /\ \A x : Stamped(day, x) => x \in Nat /\ x < p.at /\ Stamped(day \cup {p}, x)
         /\ Stamped(day \cup {p}, p.at)
<1>1. p.at \in 0..(Day - 1) /\ p.type \in PunchTypes
  BY DEF DayPunches
<1>2. p.at \in Nat /\ p.at < Day
  BY <1>1, CalcAssumption
<1>3. \A q \in day : q.at \in Nat /\ q.at < p.at
  BY DEF Later, Punched
<1> QED
  BY <1>1, <1>2, <1>3 DEF Stamped

LEMMA ClockInTold ==
  ASSUME NEW day \in SUBSET DayPunches, NEW p \in DayPunches, Later(p, day),
         NEW b, Told(day, b, "out"), p.type = "clock_in"
  PROVE  Told(day \cup {p}, Extend(b, p), "in")
<1> DEFINE more == day \cup {p}
           c == Extend(b, p)
<1>1. /\ p.at \in Nat /\ p.at < Day
      /\ \A q \in day : q.at \in Nat /\ q.at < p.at
      /\ \A x : Stamped(day, x) => x \in Nat /\ x < p.at /\ Stamped(more, x)
      /\ Stamped(more, p.at)
  BY LaterTimes
<1>2. /\ b \in Tallies /\ Proper(b.work) /\ Proper(b.breaks) /\ ~Open(b)
      /\ \A i \in b.work \cup b.breaks : Stamped(day, i.end)
      /\ WorkedOn(day) = Cover(b.work) \ Cover(b.breaks)
  BY DEF Told, Shaped, InSession
<1>3. /\ c.work = b.work /\ c.breaks = b.breaks
      /\ c.workStart = p.at /\ c.breakStart = b.breakStart /\ c \in Tallies
  BY <1>1, <1>2 DEF Extend, Tallies, Times
<1>4. Open(c)
  BY <1>1, <1>3, CalcAssumption DEF Open
<1> HIDE DEF c
<1>5. Shaped(more, c)
  BY <1>1, <1>2, <1>3 DEF Shaped
<1>6. InSession(more, c, "in")
  <2>1. \A i \in c.work : i.end <= c.workStart
    BY <1>1, <1>2, <1>3
  <2>2. \A q \in more : q.type = "clock_out" => q.at <= c.workStart
    BY <1>1, <1>3
  <2> QED
    BY <1>1, <1>3, <1>4, <2>1, <2>2 DEF InSession, States
<1>7. BreaksTold(more, c, "in")
  <2>1. DeriveState(more) = "in"
    <3>1. DeriveState(more) = AfterPunch(DeriveState(day), p.type)
      BY NextState
    <3> QED
      BY <3>1 DEF AfterPunch
  <2>2. ASSUME NEW t \in Nat, t >= p.at
        PROVE  StateOn(more, t) = "in" /\ t \notin Cover(c.breaks)
    <3>1. StateOn(more, t) = "in"
      BY <2>1, <2>2, StateBefore
    <3>2. \A i \in b.breaks : i.end < p.at /\ i.end \in Nat
      BY <1>1, <1>2
    <3>3. t \notin Cover(b.breaks)
      BY <1>1, <1>2, <2>2, <3>2, CoverIs
    <3> QED
      BY <1>3, <3>1, <3>3
  <2> QED
    BY <1>3, <2>2 DEF BreaksTold
<1>8. SessionsEnded(more, c)
  <2>1. ASSUME NEW t \in Nat, t < p.at, StateOn(more, t) = "in"
        PROVE  Ended(more, t)
    <3>1. StateOn(day, t) = "in"
      BY <2>1, StateBefore
    <3>2. Ended(day, t)
      BY <1>2, <3>1 DEF Told, SessionsEnded
    <3> QED
      BY <3>2, EndsBefore
  <2> QED
    BY <1>3, <1>4, <2>1 DEF SessionsEnded
<1>9. BreaksInWork(c)
  BY <1>2, <1>3 DEF Told, BreaksInWork
<1>10. WorkedOn(more) = Cover(c.work) \ Cover(c.breaks)
  BY <1>2, <1>3, WorkedSame
<1> QED
  BY <1>5, <1>6, <1>7, <1>8, <1>9, <1>10 DEF Told, c

LEMMA BreakStartTold ==
  ASSUME NEW day \in SUBSET DayPunches, NEW p \in DayPunches, Later(p, day),
         NEW b, Told(day, b, "in"), DeriveState(day) = "in", p.type = "break_start"
  PROVE  Told(day \cup {p}, Extend(b, p), "break")
<1> DEFINE more == day \cup {p}
           c == Extend(b, p)
<1>1. /\ p.at \in Nat /\ p.at < Day
      /\ \A q \in day : q.at \in Nat /\ q.at < p.at
      /\ \A x : Stamped(day, x) => x \in Nat /\ x < p.at /\ Stamped(more, x)
      /\ Stamped(more, p.at)
  BY LaterTimes
<1>2. /\ b \in Tallies /\ Proper(b.work) /\ Proper(b.breaks) /\ Open(b)
      /\ \A i \in b.work \cup b.breaks : Stamped(day, i.end)
      /\ WorkedOn(day) = Cover(b.work) \ Cover(b.breaks)
      /\ Stamped(day, b.workStart)
      /\ \A i \in b.work : i.end <= b.workStart
      /\ \A q \in day : q.type = "clock_out" => q.at <= b.workStart
  BY DEF Told, Shaped, InSession
<1>3. /\ c.work = b.work /\ c.breaks = b.breaks
      /\ c.workStart = b.workStart /\ c.breakStart = p.at /\ c \in Tallies
  BY <1>1, <1>2 DEF Extend, Tallies, Times
<1>4. Open(c) /\ b.workStart \in Nat /\ b.workStart < p.at
  BY <1>1, <1>2, <1>3 DEF Open
<1> HIDE DEF c
<1>5. Shaped(more, c)
  BY <1>1, <1>2, <1>3 DEF Shaped
<1>6. InSession(more, c, "break")
  <2>1. \A q \in more : q.type = "clock_out" => q.at <= c.workStart
    BY <1>2, <1>3
  <2>2. \A q \in more : q.at <= c.breakStart
    BY <1>1, <1>3
  <2>3. Stamped(more, c.workStart) /\ Stamped(more, c.breakStart) /\ c.workStart <= c.breakStart
    <3>1. b.workStart <= p.at
      BY <1>1, <1>4
    <3>2. Stamped(more, b.workStart)
      BY <1>1, <1>2
    <3> HIDE DEF more
    <3> QED
      BY <1>1, <1>3, <3>1, <3>2
  <2>4. "break" \in States /\ "break" # "out"
    BY DEF States
  <2> QED
    BY <1>2, <1>3, <1>4, <2>1, <2>2, <2>3, <2>4 DEF InSession
<1>7. BreaksTold(more, c, "break")
  <2>1. DeriveState(more) = "break"
    <3>1. DeriveState(more) = AfterPunch(DeriveState(day), p.type)
      BY NextState
    <3> QED
      BY <3>1 DEF AfterPunch
  <2>2. ASSUME NEW t \in Nat, t >= b.workStart
        PROVE  /\ StateOn(more, t) \in {"in", "break"}
               /\ StateOn(more, t) = "break" <=> t \in Cover(b.breaks) \/ t >= p.at
    <3>1. CASE t >= p.at
      BY <2>1, <3>1, StateBefore
    <3>2. CASE t < p.at
      <4>1. StateOn(more, t) = StateOn(day, t)
        BY <3>2, StateBefore
      <4>2. /\ StateOn(day, t) \in {"in", "break"}
            /\ StateOn(day, t) = "break" <=> t \in Cover(b.breaks)
        BY <1>2, <2>2 DEF Told, BreaksTold
      <4>3. ~(t >= p.at)
        BY <1>1, <3>2
      <4> QED
        BY <4>1, <4>2, <4>3
    <3> QED
      BY <1>1, <3>1, <3>2
  <2> QED
    BY <1>3, <2>2 DEF BreaksTold
<1>8. SessionsEnded(more, c)
  <2>1. ASSUME NEW t \in Nat, t < b.workStart, StateOn(more, t) = "in"
        PROVE  Ended(more, t)
    <3>1. t < p.at
      BY <1>1, <1>4, <2>1
    <3>2. StateOn(day, t) = "in"
      BY <2>1, <3>1, StateBefore
    <3>3. Ended(day, t)
      BY <2>1, <3>2 DEF Told, SessionsEnded
    <3> QED
      BY <3>3, EndsBefore
  <2> QED
    BY <1>3, <1>4, <2>1 DEF SessionsEnded
<1>9. BreaksInWork(c)
  BY <1>2, <1>3, <1>4 DEF Told, BreaksInWork
<1>10. WorkedOn(more) = Cover(c.work) \ Cover(c.breaks)
  BY <1>2, <1>3, WorkedSame
<1> QED
  BY <1>5, <1>6, <1>7, <1>8, <1>9, <1>10 DEF Told, c

LEMMA BreakEndTold ==
  ASSUME NEW day \in SUBSET DayPunches, NEW p \in DayPunches, Later(p, day),
         NEW b, Told(day, b, "break"), DeriveState(day) = "break", p.type = "break_end"
  PROVE  Told(day \cup {p}, Extend(b, p), "in")
<1> DEFINE more == day \cup {p}
           c == Extend(b, p)
           i == [start |-> b.breakStart, end |-> p.at]
<1>1. /\ p.at \in Nat /\ p.at < Day
      /\ \A q \in day : q.at \in Nat /\ q.at < p.at
      /\ \A x : Stamped(day, x) => x \in Nat /\ x < p.at /\ Stamped(more, x)
      /\ Stamped(more, p.at)
  BY LaterTimes
<1>2. /\ b \in Tallies /\ Proper(b.work) /\ Proper(b.breaks) /\ Open(b)
      /\ \A j \in b.work \cup b.breaks : Stamped(day, j.end)
      /\ WorkedOn(day) = Cover(b.work) \ Cover(b.breaks)
      /\ Stamped(day, b.workStart) /\ Stamped(day, b.breakStart)
      /\ b.workStart <= b.breakStart
      /\ \A j \in b.work : j.end <= b.workStart
      /\ \A q \in day : q.type = "clock_out" => q.at <= b.workStart
      /\ \A q \in day : q.at <= b.breakStart
  BY DEF Told, Shaped, InSession
<1>3. /\ b.workStart \in Nat /\ b.workStart < p.at
      /\ b.breakStart \in Nat /\ b.breakStart < p.at /\ b.breakStart # Nothing
  BY <1>1, <1>2, CalcAssumption
<1>4. c \in Tallies
  BY <1>1, <1>2, ExtendType DEF PunchTypes
<1>5. /\ c.work = b.work /\ c.breaks = b.breaks \cup {i}
      /\ c.workStart = b.workStart /\ c.breakStart = Nothing
  BY <1>2, <1>3 DEF Extend, Tallies
<1>6. i.start = b.breakStart /\ i.end = p.at
  OBVIOUS
<1>7. \A j \in b.breaks : j.end \in Nat /\ j.end < p.at /\ j.end <= b.breakStart
  BY <1>1, <1>2 DEF Stamped
<1>8. /\ Proper(c.breaks)
      /\ \A t : t \in Cover(c.breaks)
                  <=> t \in Cover(b.breaks) \/ (t \in Nat /\ b.breakStart <= t /\ t < p.at)
  <2> HIDE DEF i, c
  <2>1. /\ i.start \in Nat /\ i.end \in Nat /\ i.start < i.end /\ i.end <= Day
        /\ \A j \in b.breaks : j.end <= i.start
    BY <1>1, <1>3, <1>6, <1>7, CalcAssumption
  <2>2. /\ Proper(b.breaks \cup {i})
        /\ \A t : t \in Cover(b.breaks \cup {i})
                    <=> t \in Cover(b.breaks) \/ (t \in Nat /\ i.start <= t /\ t < i.end)
    BY <1>2, <2>1, IntervalAdded
  <2> QED
    BY <1>5, <1>6, <2>2
<1>9. Open(c)
  BY <1>2, <1>5 DEF Open
<1> HIDE DEF c
<1>10. Shaped(more, c)
  <2>1. \A j \in c.work \cup c.breaks : j \in b.work \cup b.breaks \/ j = i
    BY <1>5
  <2>2. \A j \in c.work \cup c.breaks : Stamped(more, j.end)
    BY <1>1, <1>2, <1>6, <2>1
  <2> HIDE DEF i, more
  <2> QED
    BY <1>2, <1>4, <1>5, <1>8, <2>2 DEF Shaped
<1>11. InSession(more, c, "in")
  <2>1. \A q \in more : q.type = "clock_out" => q.at <= c.workStart
    BY <1>2, <1>5
  <2>2. Stamped(more, c.workStart) /\ \A j \in c.work : j.end <= c.workStart
    BY <1>1, <1>2, <1>5
  <2> QED
    BY <1>9, <2>1, <2>2 DEF InSession, States
<1>12. BreaksTold(more, c, "in")
  <2>1. DeriveState(more) = "in"
    <3>1. DeriveState(more) = AfterPunch(DeriveState(day), p.type)
      BY NextState
    <3> QED
      BY <3>1 DEF AfterPunch
  <2>2. ASSUME NEW t \in Nat, t >= b.workStart
        PROVE  /\ StateOn(more, t) \in {"in", "break"}
               /\ StateOn(more, t) = "break" <=> t \in Cover(c.breaks)
    <3>1. CASE t >= p.at
      <4>1. StateOn(more, t) = "in"
        BY <2>1, <3>1, StateBefore
      <4>2. t \notin Cover(b.breaks)
        BY <1>1, <1>2, <1>7, <3>1, CoverIs
      <4>3. t \notin Cover(c.breaks)
        BY <1>1, <1>8, <3>1, <4>2
      <4> QED
        BY <4>1, <4>3
    <3>2. CASE t < p.at
      <4>1. StateOn(more, t) = StateOn(day, t)
        BY <3>2, StateBefore
      <4>2. /\ StateOn(day, t) \in {"in", "break"}
            /\ StateOn(day, t) = "break" <=> t \in Cover(b.breaks) \/ t >= b.breakStart
        BY <1>2, <2>2 DEF Told, BreaksTold
      <4>3. t \in Cover(c.breaks) <=> t \in Cover(b.breaks) \/ t >= b.breakStart
        BY <1>3, <1>8, <3>2
      <4> QED
        BY <4>1, <4>2, <4>3
    <3> QED
      BY <1>1, <3>1, <3>2
  <2> QED
    BY <1>5, <2>2 DEF BreaksTold
<1>13. SessionsEnded(more, c)
  <2>1. ASSUME NEW t \in Nat, t < b.workStart, StateOn(more, t) = "in"
        PROVE  Ended(more, t)
    <3>1. t < p.at
      BY <1>1, <1>3, <2>1
    <3>2. StateOn(day, t) = "in"
      BY <2>1, <3>1, StateBefore
    <3>3. Ended(day, t)
      BY <2>1, <3>2 DEF Told, SessionsEnded
    <3> QED
      BY <3>3, EndsBefore
  <2> QED
    BY <1>5, <1>9, <2>1 DEF SessionsEnded
<1>14. BreaksInWork(c)
  <2>1. ASSUME NEW t \in Cover(c.breaks)
        PROVE  t \in Cover(c.work) \/ t >= c.workStart
    <3>1. CASE t \in Cover(b.breaks)
      BY <1>2, <1>5, <3>1 DEF Told, BreaksInWork
    <3>2. CASE t \in Nat /\ b.breakStart <= t
      BY <1>2, <1>3, <1>5, <3>2
    <3> QED
      BY <1>5, <1>8, <3>1, <3>2
  <2> QED
    BY <1>9, <2>1 DEF BreaksInWork
<1>15. WorkedOn(more) = Cover(c.work) \ Cover(c.breaks)
  <2>1. WorkedOn(more) = WorkedOn(day)
    BY WorkedSame
  <2>2. \A j \in b.work : j.end \in Nat /\ j.end <= b.breakStart
    BY <1>1, <1>2, <1>3
  <2>3. ASSUME NEW t \in Cover(b.work)
        PROVE  t \in Nat /\ t < b.breakStart
    BY <1>2, <1>3, <2>2, CoverIs
  <2>4. \A t : t \in Cover(b.work) => (t \in Cover(c.breaks) <=> t \in Cover(b.breaks))
    BY <1>3, <1>8, <2>3
  <2> QED
    BY <1>2, <1>5, <2>1, <2>4
<1> QED
  BY <1>10, <1>11, <1>12, <1>13, <1>14, <1>15 DEF Told, c

LEMMA ClockOutTold ==
  ASSUME NEW day \in SUBSET DayPunches, NEW p \in DayPunches, Later(p, day),
         NEW b, NEW state \in {"in", "break"}, Told(day, b, state), DeriveState(day) = state,
         p.type = "clock_out"
  PROVE  Told(day \cup {p}, Extend(b, p), "out")
<1> DEFINE more == day \cup {p}
           c == Extend(b, p)
           i == [start |-> b.workStart, end |-> p.at]
<1>1. /\ p.at \in Nat /\ p.at < Day
      /\ \A q \in day : q.at \in Nat /\ q.at < p.at
      /\ \A x : Stamped(day, x) => x \in Nat /\ x < p.at /\ Stamped(more, x)
      /\ Stamped(more, p.at)
  BY LaterTimes
<1>2. /\ b \in Tallies /\ Proper(b.work) /\ Proper(b.breaks) /\ Open(b)
      /\ \A j \in b.work \cup b.breaks : Stamped(day, j.end)
      /\ WorkedOn(day) = Cover(b.work) \ Cover(b.breaks)
      /\ Stamped(day, b.workStart)
      /\ \A j \in b.work : j.end <= b.workStart
      /\ \A q \in day : q.type = "clock_out" => q.at <= b.workStart
      /\ state = "break" => /\ Stamped(day, b.breakStart)
                            /\ \A q \in day : q.at <= b.breakStart
  BY DEF Told, Shaped, InSession
<1>3. b.workStart \in Nat /\ b.workStart < p.at /\ b.workStart # Nothing
  BY <1>1, <1>2, CalcAssumption
<1>4. c \in Tallies
  BY <1>1, <1>2, ExtendType DEF PunchTypes
<1>5. /\ c.work = b.work \cup {i} /\ c.breaks = b.breaks
      /\ c.workStart = Nothing /\ c.breakStart = b.breakStart
  BY <1>2, <1>3 DEF Extend, Tallies
<1>6. i.start = b.workStart /\ i.end = p.at
  OBVIOUS
<1>7. \A j \in b.work \cup b.breaks : j.end \in Nat /\ j.end < p.at
  BY <1>1, <1>2
<1>8. /\ Proper(c.work)
      /\ \A t : t \in Cover(c.work)
                  <=> t \in Cover(b.work) \/ (t \in Nat /\ b.workStart <= t /\ t < p.at)
  <2> HIDE DEF i, c
  <2>1. /\ i.start \in Nat /\ i.end \in Nat /\ i.start < i.end /\ i.end <= Day
        /\ \A j \in b.work : j.end <= i.start
    BY <1>1, <1>2, <1>3, <1>6, CalcAssumption
  <2>2. /\ Proper(b.work \cup {i})
        /\ \A t : t \in Cover(b.work \cup {i})
                    <=> t \in Cover(b.work) \/ (t \in Nat /\ i.start <= t /\ t < i.end)
    BY <1>2, <2>1, IntervalAdded
  <2> QED
    BY <1>5, <1>6, <2>2
<1>9. ~Open(c)
  BY <1>5 DEF Open
<1> HIDE DEF c
<1>10. Shaped(more, c)
  <2>1. \A j \in c.work \cup c.breaks : j \in b.work \cup b.breaks \/ j = i
    BY <1>5
  <2>2. \A j \in c.work \cup c.breaks : Stamped(more, j.end)
    BY <1>1, <1>2, <1>6, <2>1
  <2> HIDE DEF i, more
  <2> QED
    BY <1>2, <1>4, <1>5, <1>8, <2>2 DEF Shaped
<1>11. InSession(more, c, "out")
  BY <1>9 DEF InSession, States
<1>12. BreaksTold(more, c, "out")
  BY <1>9 DEF BreaksTold
<1>13. DeriveState(more) = "out"
  <2>1. DeriveState(more) = AfterPunch(DeriveState(day), p.type)
    BY NextState
  <2> QED
    BY <2>1 DEF AfterPunch
<1>14. SessionsEnded(more, c)
  <2>1. ASSUME NEW t \in Nat, StateOn(more, t) = "in"
        PROVE  Ended(more, t)
    <3>1. t < p.at
      <4>1. t >= p.at => StateOn(more, t) = "out"
        BY <1>13, StateBefore
      <4> QED
        BY <1>1, <2>1, <4>1
    <3> QED
      BY <3>1, EndsBefore
  <2> QED
    BY <2>1 DEF SessionsEnded
<1>15. BreaksInWork(c)
  <2>1. ASSUME NEW t \in Cover(b.breaks)
        PROVE  t \in Cover(c.work)
    <3>1. t \in Nat /\ t < p.at
      BY <1>1, <1>2, <1>7, CoverIs
    <3>2. t \in Cover(b.work) \/ t >= b.workStart
      BY <1>2 DEF Told, BreaksInWork
    <3> QED
      BY <1>3, <1>8, <3>1, <3>2
  <2> QED
    BY <1>5, <2>1 DEF BreaksInWork
<1>16. ASSUME NEW t \in 0..(Day - 1)
       PROVE  t \in WorkedOn(more) <=> t \in Cover(c.work) /\ t \notin Cover(c.breaks)
  <2>0. t \in Nat /\ t \in 0..(Day - 1)
    BY CalcAssumption
  <2>1. CASE t >= p.at
    <3>1. ~Ended(more, t) /\ ~EndsNext(more, t)
      <4>1. ~(\E q \in day : q.at > t)
        BY <1>1, <2>0, <2>1
      <4>2. ~(t < p.at)
        BY <1>1, <2>0, <2>1
      <4> QED
        BY <2>0, <4>1, <4>2, EndsBefore
    <3>2. t \notin Cover(b.work)
      BY <1>1, <1>2, <1>7, <2>0, <2>1, CoverIs
    <3>3. t \notin Cover(c.work)
      BY <1>1, <1>8, <2>0, <2>1, <3>2
    <3> QED
      BY <3>1, <3>3 DEF WorkedOn
  <2>2. CASE t < b.workStart
    <3>0. t < p.at
      BY <1>1, <1>3, <2>0, <2>2
    <3>1. StateOn(more, t) = StateOn(day, t) /\ t < p.at
      BY <2>0, <3>0, StateBefore
    <3>2. \E q \in day : q.at > t
      BY <1>2, <1>3, <2>0, <2>2 DEF Stamped
    <3>3. Ended(more, t) /\ (EndsNext(more, t) <=> EndsNext(day, t))
      BY <2>0, <3>1, <3>2, EndsBefore
    <3>4. StateOn(day, t) = "in" => Ended(day, t)
      BY <2>0, <2>2 DEF Told, SessionsEnded
    <3>5. t \in WorkedOn(more) <=> t \in WorkedOn(day)
      BY <3>1, <3>3, <3>4 DEF WorkedOn
    <3>6. t \in Cover(c.work) <=> t \in Cover(b.work)
      BY <1>3, <1>8, <2>0, <2>2
    <3> QED
      BY <1>2, <1>5, <3>5, <3>6
  <2>3. CASE b.workStart <= t /\ t < p.at
    <3>1. StateOn(more, t) = StateOn(day, t)
      BY <2>0, <2>3, StateBefore
    <3>2. /\ StateOn(day, t) \in {"in", "break"}
          /\ StateOn(day, t) = "break"
               <=> t \in Cover(b.breaks) \/ (state = "break" /\ t >= b.breakStart)
      <4>1. t >= b.workStart
        BY <1>3, <2>0, <2>3
      <4> QED
        BY <1>2, <2>0, <4>1 DEF Told, BreaksTold
    <3>3. t \in Cover(c.work)
      BY <1>3, <1>8, <2>0, <2>3
    <3>4. Ended(more, t)
      BY <2>0, <2>3, EndsBefore
    <3>5. CASE t \in Cover(b.breaks)
      <4>1. \E q \in day : q.at > t
        <5>1. PICK j \in b.breaks : t < j.end
          BY <1>2, <3>5, CoverIs
        <5>2. PICK q \in day : q.at = j.end
          BY <1>2 DEF Stamped
        <5> QED
          BY <1>1, <2>0, <5>1, <5>2
      <4>2. ~EndsNext(day, t)
        <5>1. \A q \in day : q.type = "clock_out" => ~(q.at > t)
          BY <1>1, <1>2, <1>3, <2>0, <2>3
        <5> QED
          BY <5>1 DEF EndsNext, StillToCome
      <4>3. ~EndsNext(more, t)
        BY <2>0, <4>1, <4>2, EndsBefore
      <4>4. StateOn(more, t) = "break"
        BY <3>1, <3>2, <3>5
      <4> QED
        BY <1>5, <3>5, <4>3, <4>4 DEF WorkedOn
    <3>6. CASE t \notin Cover(b.breaks) /\ StateOn(day, t) = "break"
      <4>1. state = "break" /\ t >= b.breakStart
        BY <3>2, <3>6
      <4>2. ~(\E q \in day : q.at > t)
        <5>1. b.breakStart \in Nat /\ \A q \in day : q.at <= b.breakStart
          BY <1>1, <1>2, <4>1
        <5> QED
          BY <1>1, <2>0, <4>1, <5>1
      <4>3. EndsNext(more, t)
        BY <2>0, <2>3, <4>2, EndsBefore
      <4> QED
        BY <1>5, <2>0, <3>1, <3>3, <3>6, <4>3 DEF WorkedOn
    <3>7. CASE t \notin Cover(b.breaks) /\ StateOn(day, t) = "in"
      BY <1>5, <2>0, <3>1, <3>3, <3>4, <3>7 DEF WorkedOn
    <3> QED
      BY <3>2, <3>5, <3>6, <3>7
  <2> QED
    BY <1>1, <1>3, <2>0, <2>1, <2>2, <2>3
<1>17. WorkedOn(more) = Cover(c.work) \ Cover(c.breaks)
  <2>1. \A t : t \in WorkedOn(more) => t \in 0..(Day - 1)
    BY DEF WorkedOn
  <2>2. \A t : t \in Cover(c.work) => t \in 0..(Day - 1)
    <3>1. \A j \in c.work : j.end \in Nat /\ j.end < Day
      BY <1>1, <1>5, <1>6, <1>7, CalcAssumption
    <3>2. Proper(c.work)
      BY <1>5, <1>8
    <3>3. ASSUME NEW t \in Cover(c.work)
          PROVE  t \in 0..(Day - 1)
      <4>1. t \in Nat /\ \E j \in c.work : t < j.end
        BY <3>2, CoverIs
      <4> QED
        BY <3>1, <4>1, CalcAssumption
    <3> QED
      BY <3>3
  <2> QED
    BY <1>16, <2>1, <2>2
<1> QED
  BY <1>10, <1>11, <1>12, <1>14, <1>15, <1>17 DEF Told, c

LEMMA PunchTold ==
  ASSUME NEW day \in SUBSET DayPunches, NEW p \in DayPunches, Later(p, day),
         Told(day, BuildIntervals(day), DeriveState(day)), ValidatePunch(DeriveState(day), p.type)
  PROVE  Told(day \cup {p}, BuildIntervals(day \cup {p}), DeriveState(day \cup {p}))
<1> DEFINE more == day \cup {p}
           b == BuildIntervals(day)
           state == DeriveState(day)
<1>1. /\ BuildIntervals(more) = Extend(b, p)
      /\ DeriveState(more) = AfterPunch(state, p.type)
  BY NextTally, NextState
<1>2. p.type \in PunchTypes
  BY DEF DayPunches
<1> HIDE DEF more, b
<1>3. CASE p.type = "clock_in"
  <2>1. state = "out" /\ AfterPunch(state, p.type) = "in"
    BY <1>3 DEF ValidatePunch, AfterPunch
  <2>2. Told(more, Extend(b, p), "in")
    BY <1>3, <2>1, ClockInTold DEF more, b
  <2> QED
    BY <1>1, <2>1, <2>2 DEF more
<1>4. CASE p.type = "break_start"
  <2>1. state = "in" /\ AfterPunch(state, p.type) = "break"
    BY <1>4 DEF ValidatePunch, AfterPunch
  <2>2. Told(more, Extend(b, p), "break")
    BY <1>4, <2>1, BreakStartTold DEF more, b
  <2> QED
    BY <1>1, <2>1, <2>2 DEF more
<1>5. CASE p.type = "break_end"
  <2>1. state = "break" /\ AfterPunch(state, p.type) = "in"
    BY <1>5 DEF ValidatePunch, AfterPunch
  <2>2. Told(more, Extend(b, p), "in")
    BY <1>5, <2>1, BreakEndTold DEF more, b
  <2> QED
    BY <1>1, <2>1, <2>2 DEF more
<1>6. CASE p.type = "clock_out"
  <2>1. state \in {"in", "break"} /\ AfterPunch(state, p.type) = "out"
    BY <1>6 DEF ValidatePunch, AfterPunch
  <2>2. Told(more, Extend(b, p), "out")
    BY <1>6, <2>1, ClockOutTold DEF more, b
  <2> QED
    BY <1>1, <2>1, <2>2 DEF more
<1> QED
  BY <1>2, <1>3, <1>4, <1>5, <1>6 DEF PunchTypes

LEMMA NothingTold == Told({}, BuildIntervals({}), DeriveState({}))
<1>1. BuildIntervals({}) = NoTally /\ DeriveState({}) = "out"
  BY NoIntervals, NoPunches
<1>2. /\ NoTally.work = {} /\ NoTally.breaks = {} /\ ~Open(NoTally)
      /\ NoTally \in Tallies
  BY DEF NoTally, Tallies, Times, Open
<1>3. Proper({}) /\ Cover({}) = {}
  BY FS_EmptySet DEF Proper, Apart, Cover
<1>4. \A t : StateOn({}, t) = "out" /\ ~EndsNext({}, t)
  <2>1. \A t : {p \in {} : p.at <= t} = {}
    OBVIOUS
  <2> QED
    BY <1>1, <2>1 DEF StateOn, EndsNext, StillToCome
<1>5. WorkedOn({}) = {}
  BY <1>4 DEF WorkedOn
<1>6. Shaped({}, NoTally) /\ InSession({}, NoTally, "out")
  BY <1>2, <1>3 DEF Shaped, InSession, States
<1>7. /\ BreaksTold({}, NoTally, "out") /\ SessionsEnded({}, NoTally)
      /\ BreaksInWork(NoTally)
  BY <1>2, <1>3, <1>4 DEF BreaksTold, SessionsEnded, BreaksInWork
<1> QED
  BY <1>1, <1>2, <1>3, <1>5, <1>6, <1>7 DEF Told

CalcInv ==
  /\ records \in SUBSET DayPunches /\ IsFiniteSet(records)
  /\ plan \in Plans /\ summary = Recomputed(records)
  /\ Uncorrected => Told(records, BuildIntervals(records), DeriveState(records))

LEMMA InitCalc == Init => CalcInv
BY NothingTold, FS_EmptySet DEF Init, CalcInv

LEMMA StoreTyped ==
  ASSUME CalcInv, NEW type \in PunchTypes, NEW at \in 0..(Day - 1), NEW corrected \in BOOLEAN,
         Store(type, at, corrected)
  PROVE  LET p == [type |-> type, at |-> at, corrected |-> corrected]
         IN  /\ p \in DayPunches /\ records' = records \cup {p}
             /\ (records \in SUBSET DayPunches)' /\ IsFiniteSet(records')
             /\ plan' \in Plans /\ (summary = Recomputed(records))'
             /\ Uncorrected' => Uncorrected /\ ~corrected
<1> DEFINE p == [type |-> type, at |-> at, corrected |-> corrected]
<1>1. p \in DayPunches /\ p.corrected = corrected
  BY DEF DayPunches
<1>2. /\ records' = records \cup {p} /\ plan' = plan
      /\ summary' = Recomputed(records')
  BY DEF Store
<1> HIDE DEF p
<1>3. (records \in SUBSET DayPunches)' /\ IsFiniteSet(records') /\ plan' \in Plans
  BY <1>1, <1>2, FS_AddElement DEF CalcInv
<1>4. (summary = Recomputed(records))'
  BY <1>2 DEF Recomputed
<1>5. Uncorrected' => Uncorrected /\ ~corrected
  BY <1>1, <1>2 DEF Uncorrected
<1> QED
  BY <1>1, <1>2, <1>3, <1>4, <1>5 DEF p

LEMMA NextCalc == CalcInv /\ [Next]_vars => CalcInv'
<1> SUFFICES ASSUME CalcInv, [Next]_vars
             PROVE  CalcInv'
  OBVIOUS
<1>1. ASSUME NEW type \in PunchTypes, NEW at \in 0..(Day - 1), Correct(type, at)
      PROVE  CalcInv'
  <2>1. Store(type, at, TRUE)
    BY <1>1 DEF Correct
  <2> QED
    BY <2>1, StoreTyped DEF CalcInv
<1>2. ASSUME NEW type \in PunchTypes, NEW at \in 0..(Day - 1), Punch(type, at)
      PROVE  CalcInv'
  <2> DEFINE p == [type |-> type, at |-> at, corrected |-> FALSE]
  <2>1. /\ Store(type, at, FALSE) /\ ValidatePunch(DeriveState(records), type)
        /\ \A q \in records : ~q.corrected => q.at < at
    BY <1>2 DEF Punch
  <2>2. p.type = type /\ p.at = at
    OBVIOUS
  <2>3. /\ p \in DayPunches /\ records' = records \cup {p}
        /\ (records \in SUBSET DayPunches)' /\ IsFiniteSet(records')
        /\ plan' \in Plans /\ (summary = Recomputed(records))'
        /\ Uncorrected' => Uncorrected
    BY <2>1, StoreTyped
  <2> HIDE DEF p
  <2>4. ASSUME Uncorrected'
        PROVE  Told(records', BuildIntervals(records'), DeriveState(records'))
    <3>1. Uncorrected /\ records \in SUBSET DayPunches
      BY <2>3, <2>4 DEF CalcInv
    <3>2. \A q \in records : q.at < p.at
      BY <2>1, <2>2, <3>1 DEF Uncorrected
    <3>3. Punched(records')
      <4>1. \A q \in records' : q.type \in PunchTypes /\ q.at \in 0..(Day - 1)
        BY <2>3 DEF DayPunches
      <4> QED
        BY <2>3, <4>1, CalcAssumption DEF Punched
    <3>4. Later(p, records)
      BY <2>3, <3>2, <3>3 DEF Later
    <3>5. Told(records, BuildIntervals(records), DeriveState(records))
      BY <3>1 DEF CalcInv
    <3> QED
      BY <2>1, <2>2, <2>3, <3>1, <3>4, <3>5, PunchTold
  <2> QED
    BY <2>3, <2>4 DEF CalcInv
<1>3. CASE UNCHANGED vars
  BY <1>3 DEF CalcInv, vars, Uncorrected, Recomputed
<1> QED
  BY <1>1, <1>2, <1>3 DEF Next

LEMMA AlwaysCalc == Spec => []CalcInv
BY InitCalc, NextCalc, PTL DEF Spec

-----------------------------------------------------------------------------
(* What the summary says                                                    *)

LEMMA RuleOfTheDay ==
  ASSUME NEW p \in Plans
  PROVE  LET rule == ResolveRule(p)
             timed == p.pattern = "shift" /\ p.shift # Nothing
         IN
         /\ rule.unit \in Nat \ {0} /\ rule.method \in RoundingMethods /\ rule.scheduled \in Nat
         /\ timed =>
              /\ p.shift.start \in Nat /\ p.shift.end \in Nat
              /\ rule.start = p.shift.start /\ rule.end = p.shift.end
              /\ rule.unit = p.rule.unit /\ rule.method = p.rule.method
              /\ p.rule.breaks \in Nat
              /\ rule.scheduled =
                   NotBelowZero(((p.shift.end - p.shift.start) \div TicksPerMinute) - p.rule.breaks)
<1> DEFINE base == IF p.pattern = "none" THEN DefaultRule ELSE p.rule
           timed == p.pattern = "shift" /\ p.shift # Nothing
           span == (p.shift.end - p.shift.start) \div TicksPerMinute
<1>1. base \in WorkRules
  BY CalcAssumption
<1>2. timed => base = p.rule /\ p.shift \in [start : Nat, end : Nat]
  BY CalcAssumption
<1>3. timed => span \in Int
  <2>1. \A a, d \in Nat, e \in Nat \ {0} : (a - d) \div e \in Int
    OBVIOUS
  <2> QED
    BY <1>2, <2>1, CalcAssumption
<1>4. /\ ResolveRule(p).unit = base.unit /\ ResolveRule(p).method = base.method
      /\ ResolveRule(p).scheduled = IF timed THEN NotBelowZero(span - base.breaks) ELSE base.scheduled
      /\ timed => ResolveRule(p).start = p.shift.start /\ ResolveRule(p).end = p.shift.end
  BY DEF ResolveRule
<1>5. /\ base.unit \in Nat \ {0} /\ base.method \in RoundingMethods
      /\ base.scheduled \in Nat /\ base.breaks \in Nat
  <2> HIDE DEF base
  <2> QED
    BY <1>1 DEF WorkRules
<1> HIDE DEF base, span
<1>6. ResolveRule(p).scheduled \in Nat
  <2>1. timed => NotBelowZero(span - base.breaks) \in Nat
    BY <1>3, <1>5 DEF NotBelowZero
  <2> QED
    BY <1>4, <1>5, <2>1
<1> QED
  BY <1>2, <1>4, <1>5, <1>6 DEF span

(* The measure of the intervals and of the ticks worked.                    *)
LEMMA Measured ==
  ASSUME NEW day, NEW b, NEW state, Told(day, b, state)
  PROVE  LET n == Cardinality(WorkedOn(day))
             night == Cardinality(WorkedOn(day) \cap AtNight)
         IN
         /\ IsFiniteSet(WorkedOn(day)) /\ n \in Nat
         /\ Net(b.work, b.breaks) \in Nat /\ Net(b.work, b.breaks) <= n
         /\ state = "out" =>
              /\ Net(b.work, b.breaks) = n
              /\ night \in Nat /\ NightOf(b.work) - NightOf(b.breaks) = night
<1> DEFINE W == Cover(b.work)
           B == Cover(b.breaks)
           n == Cardinality(WorkedOn(day))
<1>1. /\ Proper(b.work) /\ Proper(b.breaks) /\ WorkedOn(day) = W \ B
      /\ state = "out" => ~Open(b)
  BY DEF Told, Shaped, InSession
<1>2. /\ IsFiniteSet(W) /\ Duration(b.work) = Cardinality(W)
      /\ IsFiniteSet(B) /\ Duration(b.breaks) = Cardinality(B)
  BY <1>1, DurationCounts
<1>3. /\ IsFiniteSet(W \cap AtNight) /\ NightOf(b.work) = Cardinality(W \cap AtNight)
      /\ IsFiniteSet(B \cap AtNight) /\ NightOf(b.breaks) = Cardinality(B \cap AtNight)
  BY <1>1, NightCounts
<1>4. state = "out" => B \subseteq W
  BY <1>1 DEF Told, BreaksInWork
<1> HIDE DEF W, B
<1>5. /\ IsFiniteSet(W \ B) /\ Cardinality(W \ B) \in Nat
      /\ Cardinality(W) \in Nat /\ Cardinality(B) \in Nat
      /\ Cardinality(W) - Cardinality(B) <= Cardinality(W \ B)
      /\ B \subseteq W => Cardinality(W) - Cardinality(B) = Cardinality(W \ B)
  BY <1>2, TakenOut
<1>6. state = "out" =>
        LET v == W \cap AtNight
            c == B \cap AtNight
        IN  Cardinality(v) - Cardinality(c) = Cardinality(v \ c) /\ Cardinality(v \ c) \in Nat
  <2>1. B \subseteq W => B \cap AtNight \subseteq W \cap AtNight
    OBVIOUS
  <2> QED
    BY <1>3, <1>4, <2>1, TakenOut
<1>7. (W \cap AtNight) \ (B \cap AtNight) = WorkedOn(day) \cap AtNight
  BY <1>1
<1>8. Net(b.work, b.breaks) = NotBelowZero(Cardinality(W) - Cardinality(B))
  BY <1>2 DEF Net
<1>9. IsFiniteSet(WorkedOn(day)) /\ n = Cardinality(W \ B) /\ n \in Nat
  BY <1>1, <1>5
<1> HIDE DEF n
<1>10. Net(b.work, b.breaks) \in Nat /\ Net(b.work, b.breaks) <= n
  BY <1>5, <1>8, <1>9 DEF NotBelowZero
<1>11. state = "out" => Net(b.work, b.breaks) = n
  BY <1>4, <1>5, <1>8, <1>9 DEF NotBelowZero
<1>12. state = "out" =>
         LET night == Cardinality(WorkedOn(day) \cap AtNight)
         IN  night \in Nat /\ NightOf(b.work) - NightOf(b.breaks) = night
  BY <1>3, <1>6, <1>7
<1> QED
  BY <1>9, <1>10, <1>11, <1>12 DEF n

(* What the invariant says of an uncorrected day.                           *)
LEMMA UncorrectedDay ==
  ASSUME CalcInv, Uncorrected
  PROVE  LET b == BuildIntervals(records)
             rule == ResolveRule(plan)
             n == Cardinality(Worked)
             night == Cardinality(Worked \cap AtNight)
         IN
         /\ Told(records, b, DeriveState(records))
         /\ Worked = Cover(b.work) \ Cover(b.breaks)
         /\ IsFiniteSet(Worked) /\ n \in Nat
         /\ Net(b.work, b.breaks) \in Nat /\ Net(b.work, b.breaks) <= n
         /\ summary.workedMinutes = RoundMinutes(Net(b.work, b.breaks), rule.unit, rule.method)
         /\ ClockedOut =>
              /\ Net(b.work, b.breaks) = n
              /\ night \in Nat /\ summary.lateNightMinutes = NotBelowZero(WholeMinutes(night))
<1> DEFINE b == BuildIntervals(records)
<1>1. Told(records, b, DeriveState(records)) /\ Worked = WorkedOn(records)
  BY WorkedIsOn DEF CalcInv
<1>2. summary = ComputeDailySummary(records, ResolveRule(plan))
  BY DEF CalcInv, Recomputed
<1>3. /\ summary.workedMinutes =
           RoundMinutes(Net(b.work, b.breaks), ResolveRule(plan).unit, ResolveRule(plan).method)
      /\ summary.lateNightMinutes =
           NotBelowZero(WholeMinutes(NightOf(b.work) - NightOf(b.breaks)))
  BY <1>2 DEF ComputeDailySummary
<1> HIDE DEF b
<1>4. Worked = Cover(b.work) \ Cover(b.breaks)
  BY <1>1 DEF Told
<1>5. LET n == Cardinality(Worked)
          night == Cardinality(Worked \cap AtNight)
      IN
      /\ IsFiniteSet(Worked) /\ n \in Nat
      /\ Net(b.work, b.breaks) \in Nat /\ Net(b.work, b.breaks) <= n
      /\ DeriveState(records) = "out" =>
           /\ Net(b.work, b.breaks) = n
           /\ night \in Nat /\ NightOf(b.work) - NightOf(b.breaks) = night
  BY <1>1, Measured
<1> QED
  BY <1>1, <1>3, <1>4, <1>5 DEF b, ClockedOut

(* Once somebody has clocked out, the worked minutes are the time the punch *)
(* states of the day give, rounded as the rule says, and before that never  *)
(* more: computeDailySummary counts every tick once, whatever breaks were   *)
(* left open or sessions not ended.                                         *)
THEOREM HoursAsPunched == Spec => []WorkedAsPunched
<1>1. ASSUME CalcInv
      PROVE  WorkedAsPunched
  <2> SUFFICES ASSUME Uncorrected
               PROVE  WorkedAsPunched
    BY DEF WorkedAsPunched
  <2> DEFINE b == BuildIntervals(records)
             rule == ResolveRule(plan)
             n == Cardinality(Worked)
             net == Net(b.work, b.breaks)
  <2>1. /\ n \in Nat /\ net \in Nat /\ net <= n
        /\ summary.workedMinutes = RoundMinutes(net, rule.unit, rule.method)
        /\ ClockedOut => net = n
    BY <1>1, UncorrectedDay
  <2>2. rule.unit \in Nat \ {0} /\ rule.method \in RoundingMethods
    BY <1>1, RuleOfTheDay DEF CalcInv
  <2> HIDE DEF rule, n, net
  <2>3. Rounds(RoundMinutes(n, rule.unit, rule.method), n, rule.unit, rule.method)
    BY <2>1, <2>2, RoundsAsRuled
  <2>4. RoundMinutes(net, rule.unit, rule.method) <= RoundMinutes(n, rule.unit, rule.method)
    BY <2>1, <2>2, RoundingInOrder
  <2> QED
    BY <2>1, <2>3, <2>4 DEF WorkedAsPunched, rule, n
<1> QED
  BY <1>1, AlwaysCalc, PTL

(* The late-night minutes of a day somebody clocked out on are those of the *)
(* time worked that lie before the early or after the late hour, to the     *)
(* nearest minute: nightOverlap meets every such tick in one band, and what *)
(* it takes off for the breaks was in the work.                             *)
THEOREM NightsAsPunched == Spec => []NightAsPunched
<1>1. ASSUME CalcInv
      PROVE  NightAsPunched
  <2> SUFFICES ASSUME Uncorrected, ClockedOut
               PROVE  NightAsPunched
    BY DEF NightAsPunched
  <2> DEFINE n == Cardinality(Worked \cap AtNight)
  <2>1. n \in Nat /\ summary.lateNightMinutes = NotBelowZero(WholeMinutes(n))
    BY <1>1, UncorrectedDay
  <2> HIDE DEF n
  <2>2. 1 \in Nat \ {0} /\ "none" \in RoundingMethods
    BY DEF RoundingMethods
  <2>3. RoundMinutes(n, 1, "none") \in Nat /\ Rounds(RoundMinutes(n, 1, "none"), n, 1, "none")
    BY <2>1, <2>2, RoundsAsRuled
  <2>4. RoundMinutes(n, 1, "none") = WholeMinutes(n)
    BY DEF RoundMinutes
  <2>5. NotBelowZero(WholeMinutes(n)) = WholeMinutes(n)
    BY <2>3, <2>4 DEF NotBelowZero
  <2> QED
    BY <2>1, <2>3, <2>4, <2>5 DEF NightAsPunched, n
<1> QED
  BY <1>1, AlwaysCalc, PTL

(* The first start and the last end of the work.                            *)
LEMMA FirstAndLast ==
  ASSUME NEW intervals, Proper(intervals), NEW i \in intervals
  PROVE  LET first == Min({j.start : j \in intervals})
             last == Max({j.end : j \in intervals})
         IN  first \in Nat /\ first <= i.start /\ last \in Nat /\ i.end <= last
<1> DEFINE S == {j.start : j \in intervals}
           E == {j.end : j \in intervals}
<1>1. Day \in Nat
  BY CalcAssumption
<1>2. S \in SUBSET (0..Day) /\ i.start \in S
  BY <1>1 DEF Proper
<1>3. E \in SUBSET (0..Day) /\ i.end \in E
  BY <1>1 DEF Proper
<1> HIDE DEF S, E
<1>4. \E m \in S : \A n \in S : m <= n
  BY <1>1, <1>2, LeastNatural
<1>5. \E m \in E : \A n \in E : n <= m
  BY <1>1, <1>3, GreatestNatural
<1>6. Min(S) \in S /\ Min(S) <= i.start
  BY <1>2, <1>4 DEF Min
<1>7. Max(E) \in E /\ i.end <= Max(E)
  <2>1. \E m \in E : \A n \in E : m >= n
    BY <1>1, <1>3, <1>5
  <2>2. Max(E) \in E /\ Max(E) >= i.end
    BY <1>3, <2>1 DEF Max
  <2> QED
    BY <1>1, <1>3, <2>2
<1> QED
  BY <1>2, <1>3, <1>6, <1>7 DEF S, E

(* Minutes to work that the span less the break leaves.                     *)
LEMMA MinutesOfShift ==
  ASSUME NEW from \in Nat, NEW to \in Nat, from < to, NEW breaks \in Nat, NEW ticks \in Nat,
         to - from - breaks * TicksPerMinute <= ticks
  PROVE  LET k == NotBelowZero(((to - from) \div TicksPerMinute) - breaks)
         IN  k \in Nat /\ k * TicksPerMinute <= ticks
<1> DEFINE T == TicksPerMinute
           s == (to - from) \div T
           k == NotBelowZero(s - breaks)
<1>1. T \in Nat \ {0} /\ to - from \in Nat
  BY CalcAssumption
<1>2. s \in Nat /\ T * s <= to - from
  BY <1>1, DivBounds
<1> HIDE DEF s
<1>3. k \in Nat
  BY <1>2 DEF NotBelowZero
<1>4. CASE s <= breaks
  <2>1. k = 0
    BY <1>2, <1>4 DEF NotBelowZero
  <2>2. 0 * T <= ticks
    BY <1>1
  <2> QED
    BY <1>3, <2>1, <2>2 DEF s
<1>5. CASE breaks < s
  <2>1. k = s - breaks
    BY <1>2, <1>5 DEF NotBelowZero
  <2>2. (s - breaks) * T = T * s - breaks * T /\ T * s \in Nat /\ breaks * T \in Nat
    BY <1>1, <1>2
  <2>3. (s - breaks) * T <= ticks
    BY <1>1, <1>2, <2>2
  <2> QED
    BY <1>3, <2>1, <2>3 DEF s
<1> QED
  BY <1>2, <1>4, <1>5

(* Whoever works from the start to the end of the planned shift, but for at *)
(* most its break, is neither late nor leaves early, and where minutes are  *)
(* not rounded down works all that is scheduled.                            *)
THEOREM ShiftsKept == Spec => []KeptShift
<1>1. ASSUME CalcInv
      PROVE  KeptShift
  <2> DEFINE shift == plan.shift
             missed == (shift.start..(shift.end - 1)) \ Worked
             rule == ResolveRule(plan)
             b == BuildIntervals(records)
             n == Cardinality(Worked)
             Kept == /\ shift.start < shift.end
                     /\ \E t \in Worked : t <= shift.start
                     /\ \E t \in Worked : t >= shift.end - 1
                     /\ Cardinality(missed) <= plan.rule.breaks * TicksPerMinute
  <2> SUFFICES ASSUME plan.pattern = "shift", plan.shift # Nothing, Uncorrected, ClockedOut, Kept
               PROVE  /\ summary.lateMinutes = 0 /\ summary.earlyLeaveMinutes = 0
                      /\ plan.rule.method \in {"none", "up"} =>
                           summary.workedMinutes >= rule.scheduled
    BY DEF KeptShift
  <2>1. /\ rule.unit \in Nat \ {0} /\ rule.method \in RoundingMethods
        /\ shift.start \in Nat /\ shift.end \in Nat
        /\ rule.start = shift.start /\ rule.end = shift.end
        /\ rule.method = plan.rule.method /\ plan.rule.breaks \in Nat
        /\ rule.scheduled =
             NotBelowZero(((shift.end - shift.start) \div TicksPerMinute) - plan.rule.breaks)
    BY <1>1, RuleOfTheDay DEF CalcInv
  <2>2. /\ Told(records, b, DeriveState(records))
        /\ Worked = Cover(b.work) \ Cover(b.breaks) /\ IsFiniteSet(Worked) /\ n \in Nat
        /\ summary.workedMinutes = RoundMinutes(n, rule.unit, rule.method)
    BY <1>1, UncorrectedDay
  <2>3. Proper(b.work)
    BY <2>2 DEF Told, Shaped
  <2>4. summary = ComputeDailySummary(records, rule)
    BY <1>1 DEF CalcInv, Recomputed
  <2> DEFINE firstIn == Min({i.start : i \in b.work})
             lastOut == Max({i.end : i \in b.work})
  <2> HIDE DEF rule
  <2>5. PICK i \in b.work : i.start <= shift.start
    <3>1. PICK t \in Worked : t <= shift.start
      OBVIOUS
    <3>2. PICK i \in b.work : t \in Nat /\ i.start <= t /\ i.start \in Nat
      BY <2>2, <2>3, CoverIs DEF Proper
    <3> QED
      BY <2>1, <3>1, <3>2
  <2>6. PICK j \in b.work : j.end >= shift.end
    <3>1. PICK t \in Worked : t >= shift.end - 1
      OBVIOUS
    <3>2. PICK j \in b.work : t \in Nat /\ t < j.end /\ j.end \in Nat
      BY <2>2, <2>3, CoverIs DEF Proper
    <3> QED
      BY <2>1, <3>1, <3>2
  <2>7. firstIn \in Nat /\ firstIn <= shift.start
    <3>1. firstIn \in Nat /\ firstIn <= i.start /\ i.start \in Nat
      BY <2>3, FirstAndLast DEF Proper
    <3> HIDE DEF firstIn
    <3> QED
      BY <2>1, <2>5, <3>1
  <2>8. lastOut \in Nat /\ lastOut >= shift.end
    <3>1. lastOut \in Nat /\ j.end <= lastOut /\ j.end \in Nat
      BY <2>3, FirstAndLast DEF Proper
    <3> HIDE DEF lastOut
    <3> QED
      BY <2>1, <2>6, <3>1
  <2>9. /\ summary.lateMinutes =
             IF rule.start = Nothing \/ b.work = {} THEN 0
             ELSE RoundMinutes(NotBelowZero(firstIn - rule.start), rule.unit, rule.method)
        /\ summary.earlyLeaveMinutes =
             IF rule.end = Nothing \/ b.work = {} THEN 0
             ELSE RoundMinutes(NotBelowZero(rule.end - lastOut), rule.unit, rule.method)
    BY <2>4 DEF ComputeDailySummary
  <2> HIDE DEF firstIn, lastOut
  <2>10. NotBelowZero(firstIn - rule.start) = 0 /\ NotBelowZero(rule.end - lastOut) = 0
    BY <2>1, <2>7, <2>8 DEF NotBelowZero
  <2>11. summary.lateMinutes = 0 /\ summary.earlyLeaveMinutes = 0
    <3>1. RoundMinutes(0, rule.unit, rule.method) = 0
      BY <2>1, NothingRounds
    <3> QED
      BY <2>9, <2>10, <3>1
  <2>12. shift.end - shift.start - plan.rule.breaks * TicksPerMinute <= n
    <3> DEFINE a == shift.start
               e == shift.end - 1
               I == a..e
               m == Cardinality(missed)
               r == plan.rule.breaks * TicksPerMinute
    <3>1. a \in Int /\ e \in Int /\ a <= e
      BY <2>1
    <3>2. IsFiniteSet(I) /\ Cardinality(I) = IF a > e THEN 0 ELSE e - a + 1
      <4> HIDE DEF a, e
      <4> QED
        BY <3>1, FS_Interval
    <3>3. Cardinality(I) = shift.end - shift.start
      BY <2>1, <3>1, <3>2
    <3>4. /\ Cardinality(I) - n <= Cardinality(I \ Worked)
          /\ Cardinality(I) \in Nat /\ Cardinality(I \ Worked) \in Nat
      <4> HIDE DEF I
      <4> QED
        BY <2>2, <3>2, TakenOut
    <3>5. Cardinality(I \ Worked) <= r /\ r \in Nat
      <4>1. TicksPerMinute \in Nat
        BY CalcAssumption
      <4> QED
        BY <2>1, <4>1
    <3> HIDE DEF I, r, n
    <3>6. Cardinality(I) - r <= n
      BY <2>2, <3>4, <3>5
    <3> QED
      BY <3>3, <3>6 DEF r
  <2>13. ASSUME plan.rule.method \in {"none", "up"}
         PROVE  summary.workedMinutes >= rule.scheduled
    <3> HIDE DEF n
    <3>1. rule.scheduled \in Nat /\ rule.scheduled * TicksPerMinute <= n
      BY <2>1, <2>2, <2>12, MinutesOfShift
    <3>2. RoundMinutes(n, rule.unit, rule.method) >= rule.scheduled
      BY <2>1, <2>2, <2>13, <3>1, WholeMinutesKept
    <3> QED
      BY <2>2, <3>2
  <2> QED
    BY <2>11, <2>13
<1> QED
  BY <1>1, AlwaysCalc, PTL
=============================================================================
