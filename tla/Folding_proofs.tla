--------------------------- MODULE Folding_proofs ---------------------------
(***************************************************************************)
(* Facts the other proofs need of folds over finite sets (a day's punches   *)
(* in order of time, the minutes taken from the balance rows, the length of *)
(* a day's intervals): the function a fold is defined by exists and has its *)
(* type, a sum may be taken in any order, and a sum of sizes is a size. In  *)
(* place of an induction they take the smallest set, or number, that a      *)
(* claim fails for.                                                         *)
(***************************************************************************)
EXTENDS Integers, FiniteSets, PunchState, FiniteSetTheorems, TLAPS

(* Among subsets of a finite set one includes no other.                     *)
LEMMA MinimalSet ==
  ASSUME NEW S, IsFiniteSet(S), NEW T \in SUBSET SUBSET S, T # {}
  PROVE  \E m \in T : \A u \in T : u \subseteq m => u = m
<1>1. IsWellFoundedOn(StrictSubsetOrdering(S), SUBSET S)
  BY FS_StrictSubsetOrderingWellFounded, FS_FiniteSubsetsOfFinite
<1>2. PICK m \in T : \A u \in T : <<u, m>> \notin StrictSubsetOrdering(S)
  BY <1>1, WFMin
<1> QED
  BY <1>2 DEF StrictSubsetOrdering

(* Numbers up to a bound have a least one.                                  *)
LEMMA LeastNatural ==
  ASSUME NEW N \in Nat, NEW T \in SUBSET (0..N), T # {}
  PROVE  \E m \in T : \A n \in T : m <= n
<1> DEFINE D == 0..N
           U == {0..n : n \in T}
<1>0. IsFiniteSet(D)
  BY FS_Interval
<1>1. U \in SUBSET SUBSET D /\ U # {}
  <2>1. \A n \in T : 0..n \subseteq D
    OBVIOUS
  <2> HIDE DEF D
  <2> QED
    BY <2>1
<1>2. PICK u \in U : \A v \in U : v \subseteq u => v = u
  <2> HIDE DEF U, D
  <2> QED
    BY <1>0, <1>1, MinimalSet
<1>3. PICK m \in T : u = 0..m
  BY <1>2
<1>4. ASSUME NEW n \in T, n < m
      PROVE  FALSE
  <2>1. 0..n \in U /\ 0..n \subseteq 0..m /\ m \in 0..m /\ m \notin 0..n
    BY <1>4
  <2> QED
    BY <2>1, <1>2, <1>3
<1> QED
  BY <1>4

LEMMA GreatestNatural ==
  ASSUME NEW N \in Nat, NEW T \in SUBSET (0..N), T # {}
  PROVE  \E m \in T : \A n \in T : n <= m
<1> DEFINE U == {N - n : n \in T}
<1>1. U \in SUBSET (0..N) /\ U # {}
  <2>1. \A n \in 0..N : N - n \in 0..N
    OBVIOUS
  <2>2. \A n \in T : n \in 0..N
    OBVIOUS
  <2> QED
    BY <2>1, <2>2
<1>2. PICK u \in U : \A v \in U : u <= v
  <2> HIDE DEF U
  <2> QED
    BY <1>1, LeastNatural
<1>3. PICK m \in T : u = N - m
  BY <1>2
<1>4. \A n \in T : N - m <= N - n
  BY <1>2, <1>3
<1>5. \A n \in T : n \in 0..N
  OBVIOUS
<1> QED
  BY <1>3, <1>4, <1>5

(* What holds of the empty set, and of a set with one more element whenever *)
(* it does of the set, holds of a finite set.                               *)
LEMMA SubsetInduction ==
  ASSUME NEW S, IsFiniteSet(S), NEW G, {} \in G,
         \A s \in SUBSET S, x \in S : s \in G /\ x \notin s => s \cup {x} \in G
  PROVE  \A s \in SUBSET S : s \in G
<1> DEFINE Bad == {s \in SUBSET S : s \notin G}
<1> SUFFICES ASSUME Bad # {}
             PROVE  FALSE
  OBVIOUS
<1>1. PICK m \in Bad : \A u \in Bad : u \subseteq m => u = m
  <2>1. Bad \in SUBSET SUBSET S
    OBVIOUS
  <2> HIDE DEF Bad
  <2> QED
    BY <2>1, MinimalSet
<1>2. PICK x : x \in m
  BY <1>1
<1>3. m \ {x} \in SUBSET S /\ m \ {x} \notin Bad /\ x \in S
  BY <1>1, <1>2
<1>4. (m \ {x}) \cup {x} \in G
  BY <1>3
<1>5. (m \ {x}) \cup {x} = m
  BY <1>2
<1> QED
  BY <1>1, <1>4, <1>5

-----------------------------------------------------------------------------
(* What a fold says of every subset, when pick[s] is the element it takes   *)
(* last from s.                                                             *)
FoldStep(F, base, pick, S, h) ==
  [s \in SUBSET S |-> IF s = {} THEN base ELSE F[pick[s]][h[s \ {pick[s]}]]]

Foldable(F, base, pick, S) == \E h : h = FoldStep(F, base, pick, S, h)

LEMMA FoldExists ==
  ASSUME NEW S, IsFiniteSet(S), NEW F, NEW base, NEW pick,
         \A s \in SUBSET S : s # {} => pick[s] \in s
  PROVE  Foldable(F, base, pick, S)
<1> DEFINE Step(h) == FoldStep(F, base, pick, S, h)
           Upto(n) == \E h : \A s \in SUBSET S : Cardinality(s) <= n => h[s] = Step(h)[s]
           Bad == {n \in 0..Cardinality(S) : ~Upto(n)}
<1>1. \A s \in SUBSET S : IsFiniteSet(s) /\ Cardinality(s) \in Nat /\ Cardinality(s) <= Cardinality(S)
  BY FS_Subset, FS_CardinalityType
<1>2. \A s \in SUBSET S : s # {} => pick[s] \in s /\ Cardinality(s \ {pick[s]}) = Cardinality(s) - 1
  BY <1>1, FS_RemoveElement
<1>3. ASSUME NEW h, NEW n \in Nat, \A s \in SUBSET S : Cardinality(s) <= n => h[s] = Step(h)[s]
      PROVE  Upto(n + 1)
  <2> DEFINE k == Step(h)
  <2>1. ASSUME NEW s \in SUBSET S, Cardinality(s) <= n + 1
        PROVE  k[s] = Step(k)[s]
    <3>1. CASE s = {}
      BY <3>1 DEF FoldStep
    <3>2. CASE s # {}
      <4>1. s \ {pick[s]} \in SUBSET S /\ Cardinality(s \ {pick[s]}) <= n
        BY <1>1, <1>2, <2>1, <3>2
      <4>2. h[s \ {pick[s]}] = k[s \ {pick[s]}]
        BY <1>3, <4>1
      <4> HIDE DEF k
      <4>3. Step(k)[s] = F[pick[s]][k[s \ {pick[s]}]]
        BY <3>2 DEF FoldStep
      <4>4. k[s] = F[pick[s]][h[s \ {pick[s]}]]
        BY <3>2 DEF FoldStep, k
      <4> QED
        BY <4>2, <4>3, <4>4
    <3> QED
      BY <3>1, <3>2
  <2> HIDE DEF k
  <2> QED
    BY <2>1
<1>4. Upto(0)
  <2>1. \A s \in SUBSET S : Cardinality(s) <= 0 => s = {}
    BY <1>1, FS_EmptySet
  <2>2. \A h : Step(h)[{}] = base
    BY DEF FoldStep
  <2>3. Step({})[{}] = Step(Step({}))[{}]
    BY <2>2
  <2> QED
    BY <2>1, <2>3
<1>5. Bad = {}
  <2> SUFFICES ASSUME Bad # {}
               PROVE  FALSE
    OBVIOUS
  <2>1. PICK m \in Bad : \A n \in Bad : m <= n
    <3>1. Bad \in SUBSET (0..Cardinality(S)) /\ Cardinality(S) \in Nat
      BY FS_CardinalityType
    <3> HIDE DEF Bad
    <3> QED
      BY <3>1, LeastNatural
  <2>2. m \in 0..Cardinality(S) /\ ~Upto(m)
    BY <2>1
  <2>3. m # 0
    BY <1>4, <2>2
  <2>4. m - 1 \in 0..Cardinality(S) /\ m - 1 \notin Bad
    BY <2>1, <2>2, <2>3, FS_CardinalityType
  <2>5. Upto(m - 1)
    BY <2>4
  <2>6. Upto((m - 1) + 1)
    BY <1>3, <2>4, <2>5
  <2> QED
    BY <2>2, <2>6
<1>6. Upto(Cardinality(S))
  BY <1>1, <1>5
<1>7. PICK h : \A s \in SUBSET S : h[s] = Step(h)[s]
  BY <1>1, <1>6
<1>8. Step(h) = Step(Step(h))
  <2> DEFINE k == Step(h)
  <2>1. \A s \in SUBSET S : s # {} => h[s \ {pick[s]}] = k[s \ {pick[s]}]
    BY <1>7
  <2>2. k = [s \in SUBSET S |-> IF s = {} THEN base ELSE F[pick[s]][h[s \ {pick[s]}]]]
    BY DEF FoldStep
  <2> HIDE DEF k
  <2>3. Step(k) = [s \in SUBSET S |-> IF s = {} THEN base ELSE F[pick[s]][k[s \ {pick[s]}]]]
    BY DEF FoldStep
  <2> QED
    BY <2>1, <2>2, <2>3 DEF k
<1> QED
  BY <1>8 DEF Foldable

(* If every step stays in V so does the fold.                               *)
LEMMA FoldType ==
  ASSUME NEW S, IsFiniteSet(S), NEW V, NEW F, NEW base \in V, NEW pick,
         \A s \in SUBSET S : s # {} => pick[s] \in s,
         \A x \in S, v \in V : F[x][v] \in V,
         NEW h, h = FoldStep(F, base, pick, S, h)
  PROVE  \A s \in SUBSET S : h[s] \in V
<1> DEFINE Bad == {s \in SUBSET S : h[s] \notin V}
<1> SUFFICES ASSUME Bad # {}
             PROVE  FALSE
  OBVIOUS
<1>1. PICK m \in Bad : \A u \in Bad : u \subseteq m => u = m
  <2>1. Bad \in SUBSET SUBSET S
    OBVIOUS
  <2> HIDE DEF Bad
  <2> QED
    BY <2>1, MinimalSet
<1>2. \A s \in SUBSET S : h[s] = IF s = {} THEN base ELSE F[pick[s]][h[s \ {pick[s]}]]
  BY DEF FoldStep
<1>3. m \in SUBSET S /\ m # {}
  BY <1>1, <1>2
<1>4. pick[m] \in m /\ h[m] = F[pick[m]][h[m \ {pick[m]}]]
  BY <1>2, <1>3
<1>5. h[m \ {pick[m]}] \in V
  BY <1>1, <1>3, <1>4
<1> QED
  BY <1>1, <1>3, <1>4, <1>5

(* Two folds that take the same last elements and make the same of them     *)
(* agree, whatever else they are defined on.                                *)
LEMMA FoldsAgree ==
  ASSUME NEW S, IsFiniteSet(S), NEW h, NEW k, NEW pick, h[{}] = k[{}],
         \A s \in SUBSET S : s # {} =>
           pick[s] \in s /\ (h[s \ {pick[s]}] = k[s \ {pick[s]}] => h[s] = k[s])
  PROVE  \A s \in SUBSET S : h[s] = k[s]
<1> DEFINE Bad == {s \in SUBSET S : h[s] # k[s]}
<1> SUFFICES ASSUME Bad # {}
             PROVE  FALSE
  OBVIOUS
<1>1. PICK m \in Bad : \A u \in Bad : u \subseteq m => u = m
  <2>1. Bad \in SUBSET SUBSET S
    OBVIOUS
  <2> HIDE DEF Bad
  <2> QED
    BY <2>1, MinimalSet
<1>2. m \in SUBSET S /\ m # {} /\ h[m] # k[m]
  BY <1>1
<1>3. m \ {pick[m]} \in SUBSET S /\ m \ {pick[m]} \notin Bad
  BY <1>1, <1>2
<1> QED
  BY <1>2, <1>3

-----------------------------------------------------------------------------
(* Sums over a finite set, taken out one element after another.             *)
Pick(s) == CHOOSE x \in s : TRUE

SumStep(g, h) ==
  [s \in SUBSET DOMAIN g |-> IF s = {} THEN 0 ELSE g[Pick(s)] + h[s \ {Pick(s)}]]

Sums(g) == CHOOSE h : h = SumStep(g, h)

LEMMA SumsExist ==
  ASSUME NEW S, IsFiniteSet(S), NEW g \in [S -> Int]
  PROVE  Sums(g) = SumStep(g, Sums(g))
<1> DEFINE F == [x \in S |-> [v \in Int |-> g[x] + v]]
           pick == [s \in SUBSET S |-> Pick(s)]
<1>0. DOMAIN g = S
  OBVIOUS
<1>1. \A s \in SUBSET S : s # {} => pick[s] \in s
  BY DEF Pick
<1>2. \A x \in S, v \in Int : F[x][v] = g[x] + v /\ F[x][v] \in Int
  OBVIOUS
<1>3. PICK h : h = FoldStep(F, 0, pick, S, h)
  <2> HIDE DEF F, pick
  <2>1. Foldable(F, 0, pick, S)
    BY <1>1, FoldExists
  <2> QED
    BY <2>1 DEF Foldable
<1>4. \A s \in SUBSET S : h[s] \in Int
  <2> HIDE DEF F, pick
  <2>1. 0 \in Int /\ \A x \in S, v \in Int : F[x][v] \in Int
    BY <1>2
  <2> QED
    BY <1>1, <1>3, <2>1, FoldType
<1>5. h = [s \in SUBSET S |-> IF s = {} THEN 0 ELSE F[pick[s]][h[s \ {pick[s]}]]]
  <2> HIDE DEF F, pick
  <2> QED
    BY <1>3 DEF FoldStep
<1>6. ASSUME NEW s \in SUBSET S, s # {}
      PROVE  F[pick[s]][h[s \ {pick[s]}]] = g[Pick(s)] + h[s \ {Pick(s)}]
  BY <1>1, <1>2, <1>4, <1>6
<1>7. h = SumStep(g, h)
  <2> HIDE DEF F, pick
  <2> QED
    BY <1>0, <1>5, <1>6 DEF SumStep
<1> QED
  BY <1>7 DEF Sums

SumEquations(g, S) ==
  /\ Sums(g)[{}] = 0
  /\ \A s \in SUBSET S : s # {} =>
       Pick(s) \in s /\ Sums(g)[s] = g[Pick(s)] + Sums(g)[s \ {Pick(s)}]

LEMMA SumsEquation ==
  ASSUME NEW S, IsFiniteSet(S), NEW g \in [S -> Int]
  PROVE  SumEquations(g, S)
<1>1. DOMAIN g = S /\ Sums(g) = SumStep(g, Sums(g))
  BY SumsExist
<1> DEFINE h == Sums(g)
<1>2. h = [s \in SUBSET S |-> IF s = {} THEN 0 ELSE g[Pick(s)] + h[s \ {Pick(s)}]]
  BY <1>1 DEF SumStep
<1> HIDE DEF h
<1>3. h[{}] = 0 /\ \A s \in SUBSET S : s # {} => h[s] = g[Pick(s)] + h[s \ {Pick(s)}]
  BY <1>2
<1> QED
  BY <1>3 DEF h, Pick, SumEquations

LEMMA SumsType ==
  ASSUME NEW S, IsFiniteSet(S), NEW g \in [S -> Int]
  PROVE  \A s \in SUBSET S : Sums(g)[s] \in Int
<1> DEFINE Bad == {s \in SUBSET S : Sums(g)[s] \notin Int}
<1> SUFFICES ASSUME Bad # {}
             PROVE  FALSE
  OBVIOUS
<1>1. PICK m \in Bad : \A u \in Bad : u \subseteq m => u = m
  <2>1. Bad \in SUBSET SUBSET S
    OBVIOUS
  <2> HIDE DEF Bad
  <2> QED
    BY <2>1, MinimalSet
<1>e. SumEquations(g, S)
  BY SumsEquation
<1>z. Sums(g)[{}] \in Int
  BY <1>e DEF SumEquations
<1>n. m \in SUBSET S /\ m # {}
  BY <1>1, <1>z
<1>2. Pick(m) \in m /\ Sums(g)[m] = g[Pick(m)] + Sums(g)[m \ {Pick(m)}]
  BY <1>e, <1>n DEF SumEquations
<1>3. Sums(g)[m \ {Pick(m)}] \in Int
  BY <1>1, <1>2, <1>n
<1>4. g[Pick(m)] \in Int
  BY <1>2, <1>n
<1> QED
  BY <1>1, <1>2, <1>3, <1>4

(* Any element may be taken out first.                                      *)
LEMMA SumsTakeOut ==
  ASSUME NEW S, IsFiniteSet(S), NEW g \in [S -> Int]
  PROVE  \A s \in SUBSET S : \A x \in s : Sums(g)[s] = g[x] + Sums(g)[s \ {x}]
<1> DEFINE H == Sums(g)
           Bad == {s \in SUBSET S : ~\A x \in s : H[s] = g[x] + H[s \ {x}]}
<1> SUFFICES ASSUME Bad # {}
             PROVE  FALSE
  OBVIOUS
<1>1. PICK m \in Bad : \A u \in Bad : u \subseteq m => u = m
  <2>1. Bad \in SUBSET SUBSET S
    OBVIOUS
  <2> HIDE DEF Bad
  <2> QED
    BY <2>1, MinimalSet
<1>2. PICK x \in m : H[m] # g[x] + H[m \ {x}]
  BY <1>1
<1>e. SumEquations(g, S)
  BY SumsEquation
<1>p. PICK p : p = Pick(m)
  OBVIOUS
<1>3. m \in SUBSET S /\ p \in m /\ H[m] = g[p] + H[m \ {p}]
  BY <1>1, <1>2, <1>e, <1>p DEF SumEquations
<1>4. x # p
  BY <1>2, <1>3
<1>5. H[m \ {p}] = g[x] + H[(m \ {p}) \ {x}]
  BY <1>1, <1>2, <1>3, <1>4
<1>6. H[m \ {x}] = g[p] + H[(m \ {x}) \ {p}]
  BY <1>1, <1>2, <1>3, <1>4
<1>7. (m \ {p}) \ {x} = (m \ {x}) \ {p}
  BY Zenon
<1>8. g[x] \in Int /\ g[p] \in Int
  BY <1>2, <1>3
<1>9. H[(m \ {x}) \ {p}] \in Int
  BY <1>3, SumsType
<1>10. \A i, j, k \in Int : i + (j + k) = j + (i + k)
  OBVIOUS
<1>11. H[m] = g[x] + H[m \ {x}]
  <2> DEFINE k == H[(m \ {x}) \ {p}]
  <2>1. H[m] = g[p] + (g[x] + k)
    BY <1>3, <1>5, <1>7, Zenon
  <2>2. g[p] + (g[x] + k) = g[x] + (g[p] + k)
    BY <1>8, <1>9, <1>10, Zenon
  <2> QED
    BY <2>1, <2>2, <1>6, Zenon
<1> QED
  BY <1>2, <1>11

LEMMA SumsAdd ==
  ASSUME NEW S, IsFiniteSet(S), NEW f \in [S -> Int], NEW g \in [S -> Int], NEW h \in [S -> Int],
         \A x \in S : h[x] = f[x] + g[x]
  PROVE  Sums(h)[S] = Sums(f)[S] + Sums(g)[S]
<1> DEFINE Bad == {s \in SUBSET S : Sums(h)[s] # Sums(f)[s] + Sums(g)[s]}
<1>1. Bad = {}
  <2> SUFFICES ASSUME Bad # {}
               PROVE  FALSE
    OBVIOUS
  <2>1. PICK m \in Bad : \A u \in Bad : u \subseteq m => u = m
    <3>1. Bad \in SUBSET SUBSET S
      OBVIOUS
    <3> HIDE DEF Bad
    <3> QED
      BY <3>1, MinimalSet
  <2>f. SumEquations(f, S)
    BY SumsEquation
  <2>g. SumEquations(g, S)
    BY SumsEquation
  <2>h. SumEquations(h, S)
    BY SumsEquation
  <2>0. Sums(f)[{}] = 0 /\ Sums(g)[{}] = 0 /\ Sums(h)[{}] = 0
    BY <2>f, <2>g, <2>h DEF SumEquations
  <2>2. m \in SUBSET S /\ m # {}
    <3>1. Sums(h)[{}] = Sums(f)[{}] + Sums(g)[{}]
      BY <2>0
    <3> QED
      BY <2>1, <3>1
  <2>p. PICK p : p = Pick(m)
    OBVIOUS
  <2> DEFINE r == m \ {p}
  <2>3. /\ p \in m
        /\ Sums(f)[m] = f[p] + Sums(f)[r]
        /\ Sums(g)[m] = g[p] + Sums(g)[r]
        /\ Sums(h)[m] = h[p] + Sums(h)[r]
    BY <2>2, <2>f, <2>g, <2>h, <2>p DEF SumEquations
  <2>4. Sums(h)[r] = Sums(f)[r] + Sums(g)[r]
    BY <2>1, <2>2, <2>3
  <2>5. /\ f[p] \in Int /\ g[p] \in Int /\ h[p] = f[p] + g[p]
        /\ r \in SUBSET S
    BY <2>2, <2>3
  <2>6. Sums(f)[r] \in Int
    BY <2>5, SumsType
  <2>7. Sums(g)[r] \in Int
    BY <2>5, SumsType
  <2> QED
    BY <2>1, <2>3, <2>4, <2>5, <2>6, <2>7
<1> QED
  BY <1>1

(* One more element.                                                        *)
LEMMA SumsExtend ==
  ASSUME NEW S, IsFiniteSet(S), NEW g \in [S -> Int], NEW s \in SUBSET S, NEW x \in S, x \notin s
  PROVE  Sums(g)[s \cup {x}] = g[x] + Sums(g)[s]
<1>1. s \cup {x} \in SUBSET S /\ x \in s \cup {x} /\ (s \cup {x}) \ {x} = s
  OBVIOUS
<1> QED
  BY <1>1, SumsTakeOut

(* The sizes of sets that have nothing in common add up to that of all.     *)
LEMMA SumsOfSizes ==
  ASSUME NEW S, IsFiniteSet(S), NEW g \in [S -> Int], NEW C,
         \A x \in S : IsFiniteSet(C[x]) /\ g[x] = Cardinality(C[x]),
         \A x, y \in S : x # y => C[x] \cap C[y] = {}
  PROVE  LET all == UNION {C[x] : x \in S}
         IN  IsFiniteSet(all) /\ Sums(g)[S] = Cardinality(all)
<1> DEFINE All(s) == UNION {C[x] : x \in s}
           G == {s \in SUBSET S : IsFiniteSet(All(s)) /\ Sums(g)[s] = Cardinality(All(s))}
<1>1. {} \in G
  <2>1. Sums(g)[{}] = 0
    BY SumsEquation DEF SumEquations
  <2>2. All({}) = {}
    OBVIOUS
  <2> QED
    BY <2>1, <2>2, FS_EmptySet
<1>2. ASSUME NEW s \in SUBSET S, NEW x \in S, s \in G, x \notin s
      PROVE  s \cup {x} \in G
  <2>1. All(s \cup {x}) = All(s) \cup C[x] /\ All(s) \cap C[x] = {}
    BY <1>2
  <2>2. IsFiniteSet(All(s)) /\ Sums(g)[s] = Cardinality(All(s))
    BY <1>2
  <2>3. Sums(g)[s \cup {x}] = g[x] + Sums(g)[s]
    BY <1>2, SumsExtend
  <2> DEFINE a == All(s)
             c == C[x]
  <2>4. IsFiniteSet(c) /\ g[x] = Cardinality(c)
    OBVIOUS
  <2> HIDE DEF a, c
  <2>5. /\ IsFiniteSet(a \cup c)
        /\ Cardinality(a \cup c) = Cardinality(a) + Cardinality(c) - Cardinality(a \cap c)
    BY <2>2, <2>4, FS_Union DEF a
  <2>6. Cardinality(a \cap c) = 0
    BY <2>1, FS_EmptySet DEF a, c
  <2>7. Cardinality(a) \in Nat /\ Cardinality(c) \in Nat
    BY <2>2, <2>4, FS_CardinalityType DEF a
  <2>8. Cardinality(a \cup c) = Cardinality(c) + Cardinality(a)
    BY <2>5, <2>6, <2>7
  <2> QED
    BY <2>1, <2>2, <2>3, <2>4, <2>5, <2>8 DEF a, c
<1>3. S \in G
  <2> HIDE DEF G
  <2> QED
    BY <1>1, <1>2, SubsetInduction
<1> QED
  BY <1>3

-----------------------------------------------------------------------------
(* The punches of a day, which deriveState takes in order of time.          *)
Punched(day) == IsFiniteSet(day) /\ \A p \in day : p.type \in PunchTypes /\ p.at \in Nat

States == {"out", "in", "break"}

StateStep(day, h) ==
  [s \in SUBSET day |-> IF s = {} THEN "out"
                        ELSE AfterPunch(h[s \ {Latest(s)}], Latest(s).type)]

StatesOf(day) == CHOOSE h : h = StateStep(day, h)

LEMMA DeriveIsStates == ASSUME NEW day PROVE DeriveState(day) = StatesOf(day)[day]
BY DEF DeriveState, FoldInOrder, MapThenFoldSet, StateStep, StatesOf

LEMMA LatestIsLast ==
  ASSUME NEW day, Punched(day), day # {}
  PROVE  Latest(day) \in day /\ \A q \in day : q.at <= Latest(day).at
<1> DEFINE After(p) == {q \in day : p.at <= q.at}
           T == {After(p) : p \in day}
<1>1. T \in SUBSET SUBSET day /\ T # {}
  OBVIOUS
<1>2. PICK m \in T : \A u \in T : u \subseteq m => u = m
  <2> HIDE DEF T
  <2> QED
    BY <1>1, MinimalSet DEF Punched
<1>3. PICK p \in day : m = After(p)
  BY <1>2
<1>4. ASSUME NEW q \in day
      PROVE  q.at <= p.at
  <2> SUFFICES ASSUME ~(q.at <= p.at)
               PROVE  FALSE
    OBVIOUS
  <2>1. \A r \in day : r.at \in Nat
    BY DEF Punched
  <2>2. After(q) \subseteq After(p) /\ p \in After(p) /\ p \notin After(q)
    BY <2>1
  <2>3. After(q) \in T
    OBVIOUS
  <2> HIDE DEF After, T
  <2> QED
    BY <1>2, <1>3, <2>2, <2>3
<1> QED
  BY <1>4 DEF Latest

StateEquations(day) ==
  \A s \in SUBSET day :
    StatesOf(day)[s] = IF s = {} THEN "out"
                       ELSE AfterPunch(StatesOf(day)[s \ {Latest(s)}], Latest(s).type)

LEMMA StatesEquation ==
  ASSUME NEW day, Punched(day)
  PROVE  StateEquations(day)
<1> DEFINE F == [p \in day |-> [v \in States |-> AfterPunch(v, p.type)]]
           pick == [s \in SUBSET day |-> Latest(s)]
<1>1. \A s \in SUBSET day : s # {} => Latest(s) \in s
  BY LatestIsLast, FS_Subset DEF Punched
<1>2. \A s \in SUBSET day : s # {} => pick[s] \in s
  BY <1>1
<1>3. \A p \in day : p.type \in PunchTypes
  BY DEF Punched
<1>4. \A v \in States, type \in PunchTypes : AfterPunch(v, type) \in States
  BY DEF States, PunchTypes, AfterPunch
<1>5. "out" \in States /\ \A x \in day, v \in States : F[x][v] \in States
  BY <1>3, <1>4 DEF States
<1>6. PICK h : h = FoldStep(F, "out", pick, day, h)
  <2> HIDE DEF F, pick
  <2>1. Foldable(F, "out", pick, day)
    BY <1>2, FoldExists DEF Punched
  <2> QED
    BY <2>1 DEF Foldable
<1>7. \A s \in SUBSET day : h[s] \in States
  <2> HIDE DEF F, pick
  <2> QED
    BY <1>2, <1>5, <1>6, FoldType DEF Punched
<1>8. h = [s \in SUBSET day |-> IF s = {} THEN "out" ELSE F[pick[s]][h[s \ {pick[s]}]]]
  <2> HIDE DEF F, pick
  <2> QED
    BY <1>6 DEF FoldStep
<1>9. ASSUME NEW s \in SUBSET day, s # {}
      PROVE  F[pick[s]][h[s \ {pick[s]}]] = AfterPunch(h[s \ {Latest(s)}], Latest(s).type)
  <2>1. Latest(s) \in day /\ h[s \ {Latest(s)}] \in States
    BY <1>1, <1>7, <1>9
  <2> QED
    BY <2>1
<1>10. h = StateStep(day, h)
  <2> HIDE DEF F, pick
  <2> QED
    BY <1>8, <1>9 DEF StateStep
<1>11. StatesOf(day) = StateStep(day, StatesOf(day))
  BY <1>10 DEF StatesOf
<1> QED
  <2> DEFINE k == StatesOf(day)
  <2>1. k = [s \in SUBSET day |-> IF s = {} THEN "out"
                                  ELSE AfterPunch(k[s \ {Latest(s)}], Latest(s).type)]
    BY <1>11 DEF StateStep
  <2> HIDE DEF k
  <2>2. \A s \in SUBSET day :
          k[s] = IF s = {} THEN "out" ELSE AfterPunch(k[s \ {Latest(s)}], Latest(s).type)
    BY <2>1
  <2> QED
    BY <2>2 DEF k, StateEquations
=============================================================================
