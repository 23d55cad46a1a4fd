--------------------------- MODULE MainLoop_proofs ---------------------------
(***************************************************************************)
(* The polling plan and the main loop, for any devices, any configurations *)
(* and any delays.                                                         *)
(* The plan: w1_gcd and w1_lcm are a recursive function and folds, so what *)
(* they compute for every input needs an induction over numbers and one    *)
(* over the subsets of the devices.  Both are made of a least              *)
(* counterexample: a non-empty set of naturals has a least element.  The   *)
(* recursive definitions are CHOOSEs, which say nothing until a function   *)
(* that satisfies the equation is shown to exist; for Euclid it is the one *)
(* that picks a greatest common divisor, for a fold it is built subset by  *)
(* subset.                                                                 *)
(* The loop: it implements the plan (LoopPlans), so that what holds of the *)
(* plan holds of it.  The wake-up value divides every interval; between    *)
(* two multiples of it no multiple of an interval lies, so a sleep passes  *)
(* over no due time but the one it ends at, and the count of due times a   *)
(* device is behind is the count of those main was busy in.                *)
(***************************************************************************)
EXTENDS MainLoop, FiniteSetTheorems, TLAPS

\* Intervals, delays and divisors are positive.
Pos == Nat \ {0}

-----------------------------------------------------------------------------
\* A non-empty set of naturals has a least element: what every induction here
\* rests on.
LEMMA LeastNumber ==
    ASSUME NEW S \in SUBSET Nat, S # {}
    PROVE  \E m \in S : \A k \in S : m <= k
<1> DEFINE R == {ss \in Nat \X Nat : ss[1] < ss[2]}
<1>1. IsWellFoundedOn(R, Nat)
  BY NatLessThanWellFounded DEF OpToRel
<1>2. \A k, m \in Nat : <<k, m>> \in R <=> k < m
  OBVIOUS
<1> HIDE DEF R
<1>3. PICK m \in S : \A k \in S : ~(<<k, m>> \in R)
  BY <1>1, WFMin
<1>4. ASSUME NEW k \in S PROVE m <= k
  <2>1. k \in Nat /\ m \in Nat
    OBVIOUS
  <2>2. ~(k < m)
    BY <1>2, <1>3, <2>1
  <2> QED
    BY <2>1, <2>2
<1> QED
  BY <1>4

\* C's / and % on unsigned numbers: quotient and remainder, as in w1sensors.c.
LEMMA Division ==
    ASSUME NEW n \in Nat, NEW d \in Pos
    PROVE  /\ n \div d \in Nat
           /\ n % d \in Nat /\ n % d < d
           /\ n = (n \div d) * d + (n % d)
  BY DEF Pos

\* Quotient and remainder are determined by q * d + r.
LEMMA DivisionUnique ==
    ASSUME NEW d \in Pos, NEW q \in Nat, NEW r \in 0 .. d - 1
    PROVE  (q * d + r) \div d = q /\ (q * d + r) % d = r
  BY DEF Pos

\* Multiplying by a positive number keeps the order.
LEMMA ProductOrder ==
    ASSUME NEW a \in Nat, NEW b \in Nat, NEW d \in Pos
    PROVE  a * d <= b * d <=> a <= b
<1>1. ASSUME NEW x \in Nat, NEW y \in Nat, x < y PROVE x * d < y * d
  <2>1. PICK c \in Pos : y = x + c
    <3>1. y - x \in Pos /\ y = x + (y - x)
      BY <1>1 DEF Pos
    <3> QED
      BY <3>1
  <2>2. y * d = x * d + c * d /\ x * d \in Nat
    BY <2>1 DEF Pos
  <2>3. c * d \in Pos
    BY DEF Pos
  <2> QED
    BY <2>2, <2>3 DEF Pos
<1>2. a * d \in Nat /\ b * d \in Nat
  BY DEF Pos
<1>3. CASE a < b
  BY <1>1, <1>2, <1>3
<1>4. CASE b < a
  BY <1>1, <1>2, <1>4
<1>5. CASE a = b
  BY <1>2, <1>5
<1> QED
  BY <1>3, <1>4, <1>5

\* A number is divided by d exactly when it is a multiple of d.
LEMMA MultipleOf ==
    ASSUME NEW n \in Nat, NEW d \in Pos
    PROVE  Divides(d, n) <=> \E k \in Nat : n = k * d
<1>1. ASSUME Divides(d, n) PROVE n = (n \div d) * d /\ n \div d \in Nat
  BY <1>1, Division DEF Divides, Pos
<1>2. ASSUME NEW k \in Nat, n = k * d PROVE Divides(d, n)
  <2>1. 0 \in 0 .. d - 1 /\ k * d + 0 = n
    BY <1>2 DEF Pos
  <2> QED
    BY <2>1, DivisionUnique DEF Divides
<1> QED
  BY <1>1, <1>2

\* A divisor of a positive number is at most that number.
LEMMA DividesAtMost ==
    ASSUME NEW n \in Pos, NEW d \in Pos, Divides(d, n)
    PROVE  d <= n
<1>1. PICK k \in Nat : n = k * d
  BY MultipleOf DEF Pos
<1>2. k >= 1
  BY <1>1 DEF Pos
<1> QED
  BY <1>1, <1>2 DEF Pos

\* A divisor of a number divides its multiples.
LEMMA DividesMultiple ==
    ASSUME NEW n \in Nat, NEW d \in Pos, NEW k \in Nat, Divides(d, n)
    PROVE  Divides(d, k * n)
<1>1. PICK j \in Nat : n = j * d
  BY MultipleOf
<1>2. k * n = (k * j) * d /\ k * j \in Nat /\ k * n \in Nat
  BY <1>1 DEF Pos
<1> QED
  BY <1>2, MultipleOf

\* A divisor of a divisor is a divisor.
LEMMA DividesTransitive ==
    ASSUME NEW n \in Nat, NEW d \in Pos, NEW c \in Pos, Divides(c, d), Divides(d, n)
    PROVE  Divides(c, n)
<1>1. PICK k \in Nat : n = k * d
  BY MultipleOf
<1> QED
  BY <1>1, DividesMultiple DEF Pos

\* The step of Euclid's algorithm keeps the common divisors: when d divides n, it
\* divides m exactly when it divides m % n.
LEMMA DividesRemainder ==
    ASSUME NEW m \in Nat, NEW n \in Pos, NEW d \in Pos, Divides(d, n)
    PROVE  m % n \in Nat /\ (Divides(d, m) <=> Divides(d, m % n))
<1>1. PICK q \in Nat, r \in Nat : r = m % n /\ m = q * n + r
  BY Division DEF Pos
<1>2. PICK j \in Nat : n = j * d
  BY MultipleOf DEF Pos
<1>3. PICK p \in Nat : q * n = p * d
  <2>1. q * n = (q * j) * d /\ q * j \in Nat
    BY <1>1, <1>2 DEF Pos
  <2> QED
    BY <2>1
<1>4. ASSUME Divides(d, m) PROVE Divides(d, r)
  <2>1. PICK k \in Nat : m = k * d
    BY <1>4, MultipleOf
  <2>2. k * d = p * d + r
    BY <1>1, <1>3, <2>1
  <2>3. p * d <= k * d
    BY <1>1, <2>2 DEF Pos
  <2>4. p <= k
    BY <2>3, ProductOrder
  <2>5. PICK c \in Nat : k = p + c
    <3>1. k - p \in Nat /\ k = p + (k - p)
      BY <2>4
    <3> QED
      BY <3>1
  <2>6. k * d = p * d + c * d /\ p * d \in Nat /\ c * d \in Nat
    BY <2>5 DEF Pos
  <2>7. r = c * d
    BY <2>2, <2>6
  <2> QED
    BY <2>7, MultipleOf
<1>5. ASSUME Divides(d, r) PROVE Divides(d, m)
  <2>1. PICK k \in Nat : r = k * d
    BY <1>1, <1>5, MultipleOf
  <2>2. m = (k + p) * d /\ k + p \in Nat
    BY <1>1, <1>3, <2>1 DEF Pos
  <2> QED
    BY <2>2, MultipleOf
<1> QED
  BY <1>1, <1>4, <1>5

-----------------------------------------------------------------------------
\* g has as divisors the common divisors of m and n.
IsGcd(g, m, n) ==
    g \in Nat /\ \A d \in Pos : Divides(d, g) <=> Divides(d, m) /\ Divides(d, n)

\* _w1_gcd(m, n) and _w1_gcd(n, m % n) are asked for the same number.
LEMMA GcdStep ==
    ASSUME NEW g, NEW m \in Nat, NEW n \in Pos
    PROVE  IsGcd(g, m, n) <=> IsGcd(g, n, m % n)
<1>1. ASSUME NEW d \in Pos
      PROVE  Divides(d, m) /\ Divides(d, n) <=> Divides(d, n) /\ Divides(d, m % n)
  BY DividesRemainder
<1> QED
  BY <1>1 DEF IsGcd

\* Everything divides 0, the start of the fold of w1_gcd.
LEMMA DividesZero ==
    ASSUME NEW d \in Pos
    PROVE  Divides(d, 0)
  BY DEF Divides, Pos

\* There is one such number at most.
LEMMA GcdUnique ==
    ASSUME NEW m, NEW n, NEW g, NEW h, IsGcd(g, m, n), IsGcd(h, m, n)
    PROVE  g = h
<1>1. g \in Nat /\ h \in Nat /\ \A d \in Pos : Divides(d, g) <=> Divides(d, h)
  BY DEF IsGcd
<1>2. ASSUME NEW x \in Nat, NEW y \in Nat, \A d \in Pos : Divides(d, x) <=> Divides(d, y),
             x < y
      PROVE  FALSE
  <2>1. y \in Pos /\ y + 1 \in Pos /\ Divides(y, y)
    <3>1. y = 1 * y /\ y \in Pos /\ y + 1 \in Pos
      BY <1>2 DEF Pos
    <3> QED
      BY <3>1, MultipleOf
  <2>2. CASE x = 0
    BY <2>1, <2>2, <1>2, DividesZero, DividesAtMost DEF Pos
  <2>3. CASE x # 0
    BY <2>1, <2>3, <1>2, DividesAtMost DEF Pos
  <2> QED
    BY <2>2, <2>3
<1>3. ~(g < h) /\ ~(h < g)
  BY <1>1, <1>2
<1> QED
  BY <1>1, <1>3

\* There is such a number for all m and n: in a least counterexample n a step of
\* the algorithm leads to a smaller one.
LEMMA GcdExists ==
    ASSUME NEW m \in Nat, NEW n \in Nat
    PROVE  \E g : IsGcd(g, m, n)
<1> DEFINE B == {k \in Nat : \E i \in Nat : \A g : ~IsGcd(g, i, k)}
<1>1. ASSUME B # {} PROVE FALSE
  <2>1. PICK k \in B : \A j \in B : k <= j
    BY <1>1, LeastNumber
  <2>2. k \in Nat
    OBVIOUS
  <2>3. PICK i \in Nat : \A g : ~IsGcd(g, i, k)
    OBVIOUS
  <2>4. CASE k = 0
    <3>1. IsGcd(i, i, 0)
      BY DividesZero DEF IsGcd
    <3> QED
      BY <2>3, <2>4, <3>1
  <2>5. CASE k # 0
    <3>1. k \in Pos /\ i % k \in Nat /\ i % k < k
      BY <2>2, <2>5, Division DEF Pos
    <3>2. i % k \notin B
      BY <2>1, <2>2, <3>1
    <3>3. PICK g : IsGcd(g, k, i % k)
      BY <2>2, <3>1, <3>2
    <3> QED
      BY <2>3, <3>1, <3>3, GcdStep
  <2> QED
    BY <2>4, <2>5
<1> QED
  BY <1>1

\* The function Euclid satisfies its defining equation: a function that does so
\* exists, the one that picks the greatest common divisor.
LEMMA EuclidEquation ==
    \A m, n \in Nat :
        Euclid[<<m, n>>] = IF n = 0 THEN m ELSE Euclid[<<n, m % n>>]
<1> DEFINE Step(f, mn) == IF mn[2] = 0 THEN mn[1] ELSE f[<<mn[2], mn[1] % mn[2]>>]
           G == [mn \in Nat \X Nat |-> CHOOSE g : IsGcd(g, mn[1], mn[2])]
<1>1. ASSUME NEW m \in Nat, NEW n \in Nat
      PROVE  IsGcd(G[<<m, n>>], m, n)
  <2>1. G[<<m, n>>] = CHOOSE g : IsGcd(g, m, n)
    OBVIOUS
  <2> QED
    BY <2>1, GcdExists
<1>2. ASSUME NEW mn \in Nat \X Nat
      PROVE  G[mn] = Step(G, mn)
  <2>1. PICK m \in Nat, n \in Nat : mn = <<m, n>>
    OBVIOUS
  <2>2. CASE n = 0
    <3>1. IsGcd(m, m, 0)
      BY DividesZero DEF IsGcd
    <3>2. G[<<m, 0>>] = m
      BY <1>1, <2>2, <3>1, GcdUnique
    <3> QED
      BY <2>1, <2>2, <3>2
  <2>3. CASE n # 0
    <3>1. n \in Pos /\ m % n \in Nat
      BY <2>3, Division DEF Pos
    <3>2. IsGcd(G[<<n, m % n>>], m, n)
      BY <1>1, <3>1, GcdStep
    <3>3. G[<<m, n>>] = G[<<n, m % n>>]
      BY <1>1, <3>2, GcdUnique
    <3> QED
      BY <2>1, <2>3, <3>3
  <2> QED
    BY <2>2, <2>3
<1>3. \E f : f = [mn \in Nat \X Nat |-> Step(f, mn)]
  <2>1. G = [mn \in Nat \X Nat |-> Step(G, mn)]
    <3> HIDE DEF Step
    <3> QED
      BY <1>2
  <2> QED
    BY <2>1
<1>4. Euclid = CHOOSE f : f = [mn \in Nat \X Nat |-> Step(f, mn)]
  BY DEF Euclid
<1>5. Euclid = [mn \in Nat \X Nat |-> Step(Euclid, mn)]
  <2> HIDE DEF Step, G
  <2> QED
    BY <1>3, <1>4
<1> QED
  <2> TAKE m, n \in Nat
  <2>1. <<m, n>> \in Nat \X Nat
    OBVIOUS
  <2>2. Euclid[<<m, n>>] = Step(Euclid, <<m, n>>)
    <3> HIDE DEF Step
    <3> QED
      BY <1>5, <2>1
  <2> QED
    BY <2>2

\* _w1_gcd(m, n) is the greatest common divisor of m and n.
LEMMA EuclidIsGcd ==
    ASSUME NEW m \in Nat, NEW n \in Nat
    PROVE  IsGcd(Euclid[<<m, n>>], m, n)
<1> DEFINE B == {k \in Nat : \E i \in Nat : ~IsGcd(Euclid[<<i, k>>], i, k)}
<1>1. ASSUME B # {} PROVE FALSE
  <2>1. PICK k \in B : \A j \in B : k <= j
    BY <1>1, LeastNumber
  <2>2. k \in Nat
    OBVIOUS
  <2>3. PICK i \in Nat : ~IsGcd(Euclid[<<i, k>>], i, k)
    OBVIOUS
  <2>4. CASE k = 0
    <3>1. IsGcd(i, i, 0)
      BY DividesZero DEF IsGcd
    <3> QED
      BY <2>3, <2>4, <3>1, EuclidEquation
  <2>5. CASE k # 0
    <3>1. k \in Pos /\ i % k \in Nat /\ i % k < k
      BY <2>2, <2>5, Division DEF Pos
    <3>2. i % k \notin B
      BY <2>1, <2>2, <3>1
    <3>3. IsGcd(Euclid[<<k, i % k>>], k, i % k)
      BY <2>2, <3>1, <3>2
    <3>4. Euclid[<<i, k>>] = Euclid[<<k, i % k>>]
      BY <2>2, <2>5, EuclidEquation
    <3> QED
      BY <2>3, <3>1, <3>3, <3>4, GcdStep
  <2> QED
    BY <2>4, <2>5
<1> QED
  BY <1>1

-----------------------------------------------------------------------------
\* A set that holds the empty set, and a subset of S as soon as it holds it less
\* any one element, holds every subset of the finite set S.
LEMMA SubsetInduction ==
    ASSUME NEW S, IsFiniteSet(S), NEW J, {} \in J,
           \A s \in SUBSET S : s # {} /\ (\A x \in s : s \ {x} \in J) => s \in J
    PROVE  SUBSET S \subseteq J
<1> DEFINE B == {n \in Nat : \E s \in SUBSET S : Cardinality(s) = n /\ s \notin J}
<1>1. \A s \in SUBSET S : IsFiniteSet(s) /\ Cardinality(s) \in Nat
  BY FS_Subset, FS_CardinalityType
<1>2. ASSUME B # {} PROVE FALSE
  <2>1. PICK n \in B : \A j \in B : n <= j
    BY <1>2, LeastNumber
  <2>2. PICK s \in SUBSET S : Cardinality(s) = n /\ s \notin J
    OBVIOUS
  <2>3. PICK x \in s : s \ {x} \notin J
    BY <2>2
  <2>4. s \ {x} \in SUBSET S /\ Cardinality(s \ {x}) = n - 1
    BY <1>1, <2>2, FS_RemoveElement
  <2>5. n - 1 \in B
    BY <1>1, <2>3, <2>4
  <2> QED
    BY <2>1, <2>5
<1> QED
  BY <1>1, <1>2

\* The element the folds of the library take out of a set.
Any(s) == CHOOSE x \in s : TRUE

\* it maps every subset of S to the fold of Op over it.
IsFold(it, S, base, Op) ==
    \A s \in SUBSET S :
        it[s] = IF s = {} THEN base ELSE Op[<<it[s \ {Any(s)}], Any(s)>>]

\* A fold over a finite set is defined: a function that satisfies the recursive
\* equation exists on all its subsets.
LEMMA FoldExists ==
    ASSUME NEW S, IsFiniteSet(S), NEW T, NEW base \in T, NEW Op \in [T \X S -> T]
    PROVE  \E it \in [SUBSET S -> T] : IsFold(it, S, base, Op)
<1> DEFINE F(it, s) == IF s = {} THEN base ELSE Op[<<it[s \ {Any(s)}], Any(s)>>]
           B == {n \in Nat : ~ \E it \in [SUBSET S -> T] :
                    \A s \in SUBSET S : Cardinality(s) <= n => it[s] = F(it, s)}
<1>1. \A s \in SUBSET S : IsFiniteSet(s) /\ Cardinality(s) \in Nat
  BY FS_Subset, FS_CardinalityType
<1>2. \A s \in SUBSET S : s # {} =>
          Any(s) \in s /\ s \ {Any(s)} \in SUBSET S
            /\ Cardinality(s \ {Any(s)}) = Cardinality(s) - 1
  <2> SUFFICES ASSUME NEW s \in SUBSET S, s # {}
               PROVE  Any(s) \in s /\ s \ {Any(s)} \in SUBSET S
                        /\ Cardinality(s \ {Any(s)}) = Cardinality(s) - 1
    OBVIOUS
  <2>1. Any(s) \in s
    BY DEF Any
  <2> QED
    BY <1>1, <2>1, FS_RemoveElement
<1>3. ASSUME NEW it \in [SUBSET S -> T], NEW s \in SUBSET S
      PROVE  F(it, s) \in T
  BY <1>2
<1>4. ASSUME B # {} PROVE FALSE
  <2>1. PICK n \in B : \A j \in B : n <= j
    BY <1>4, LeastNumber
  <2>2. n \in Nat
    OBVIOUS
  <2>3. CASE n = 0
    <3> DEFINE it == [s \in SUBSET S |-> base]
    <3>1. it \in [SUBSET S -> T]
      OBVIOUS
    <3>2. \A s \in SUBSET S : Cardinality(s) <= n => it[s] = F(it, s)
      BY <1>1, <2>3, FS_EmptySet
    <3> HIDE DEF it, F
    <3> QED
      BY <3>1, <3>2
  <2>4. CASE n # 0
    <3>1. n - 1 \in Nat /\ n - 1 \notin B
      <4> HIDE DEF B
      <4> QED
        BY <2>1, <2>2, <2>4
    <3>2. PICK it \in [SUBSET S -> T] :
             \A s \in SUBSET S : Cardinality(s) <= n - 1 => it[s] = F(it, s)
      <4> HIDE DEF F
      <4> QED
        BY <3>1
    <3> DEFINE more == [s \in SUBSET S |-> F(it, s)]
    <3>3. more \in [SUBSET S -> T]
      <4> HIDE DEF F
      <4> QED
        BY <1>3
    <3>4. ASSUME NEW s \in SUBSET S, Cardinality(s) <= n
          PROVE  more[s] = F(more, s)
      <4>1. CASE s = {}
        BY <4>1
      <4>2. CASE s # {}
        <5> DEFINE u == s \ {Any(s)}
        <5>1. u \in SUBSET S /\ Cardinality(u) <= n - 1
          BY <1>1, <1>2, <2>2, <3>4, <4>2
        <5>2. it[u] = F(it, u)
          BY <3>2, <5>1
        <5>3. more[u] = F(it, u)
          <6> HIDE DEF F, u
          <6> QED
            BY <5>1
        <5>4. more[s] = Op[<<it[u], Any(s)>>]
          BY <4>2
        <5>5. F(more, s) = Op[<<more[u], Any(s)>>]
          <6> HIDE DEF more
          <6> QED
            BY <4>2
        <5> HIDE DEF F, more, u
        <5> QED
          BY <5>2, <5>3, <5>4, <5>5
      <4> QED
        BY <4>1, <4>2
    <3> HIDE DEF more, F
    <3> QED
      BY <3>3, <3>4
  <2> QED
    BY <2>3, <2>4
<1>5. Cardinality(S) \in Nat /\ Cardinality(S) \notin B
  BY <1>1, <1>4
<1>6. PICK it \in [SUBSET S -> T] :
         \A s \in SUBSET S : Cardinality(s) <= Cardinality(S) => it[s] = F(it, s)
  BY <1>5
<1>7. \A s \in SUBSET S : Cardinality(s) <= Cardinality(S)
  BY FS_Subset
<1> QED
  BY <1>6, <1>7 DEF IsFold

\* w1_gcd(a) is divided by exactly what divides every number of the array.
LEMMA HighestFactor ==
    ASSUME NEW S, IsFiniteSet(S), NEW a \in [S -> Nat]
    PROVE  /\ w1_gcd(a) \in Nat
           /\ \A d \in Pos : Divides(d, w1_gcd(a)) <=> \A x \in S : Divides(d, a[x])
<1> DEFINE E(it, s) == IF s = {} THEN 0 ELSE Euclid[<<it[s \ {Any(s)}], a[Any(s)]>>]
           it == CHOOSE f : f = [s \in SUBSET S |-> E(f, s)]
<1>1. w1_gcd(a) = it[S]
  BY DEF w1_gcd, FoldFunction, FoldFunctionOnSet, MapThenFoldSet, Any
<1>2. \A s \in SUBSET S : s # {} => Any(s) \in s
  BY DEF Any
<1>3. \E f : f = [s \in SUBSET S |-> E(f, s)]
  <2> DEFINE Op == [p \in Nat \X S |-> Euclid[<<p[1], a[p[2]]>>]]
  <2>1. ASSUME NEW n \in Nat, NEW x \in S
        PROVE  Euclid[<<n, a[x]>>] \in Nat /\ Op[<<n, x>>] = Euclid[<<n, a[x]>>]
    BY EuclidIsGcd DEF IsGcd
  <2>2. Op \in [Nat \X S -> Nat]
    <3>1. ASSUME NEW p \in Nat \X S PROVE Euclid[<<p[1], a[p[2]]>>] \in Nat
      BY <2>1
    <3> QED
      BY <3>1
  <2> HIDE DEF Op
  <2>3. PICK f \in [SUBSET S -> Nat] : IsFold(f, S, 0, Op)
    <3>1. 0 \in Nat
      OBVIOUS
    <3> QED
      BY <2>2, <3>1, FoldExists
  <2>4. ASSUME NEW s \in SUBSET S PROVE f[s] = E(f, s)
    BY <1>2, <2>1, <2>3 DEF IsFold
  <2>5. f = [s \in SUBSET S |-> E(f, s)]
    <3> HIDE DEF E
    <3> QED
      BY <2>4
  <2> HIDE DEF E
  <2> QED
    BY <2>5
<1>4. \A s \in SUBSET S : it[s] = E(it, s)
  <2>1. it = [s \in SUBSET S |-> E(it, s)]
    <3> HIDE DEF E
    <3> QED
      BY <1>3
  <2> HIDE DEF E, it
  <2> QED
    BY <2>1
<1> HIDE DEF it
<1> DEFINE Right(s) == /\ it[s] \in Nat
                       /\ \A d \in Pos : Divides(d, it[s]) <=> \A x \in s : Divides(d, a[x])
           J == {s \in SUBSET S : Right(s)}
<1>5. {} \in J
  <2>1. it[{}] = 0
    BY <1>4
  <2>2. Right({})
    BY <2>1, DividesZero
  <2> QED
    BY <2>2
<1>6. ASSUME NEW s \in SUBSET S, s # {}, \A x \in s : s \ {x} \in J
      PROVE  s \in J
  <2>1. Any(s) \in s /\ Any(s) \in S
    BY <1>2, <1>6
  <2>2. Right(s \ {Any(s)}) /\ s \ {Any(s)} \in SUBSET S
    BY <1>6, <2>1
  <2>3. IsGcd(it[s], it[s \ {Any(s)}], a[Any(s)])
    BY <1>4, <1>6, <2>1, <2>2, EuclidIsGcd
  <2>4. Right(s)
    BY <2>1, <2>2, <2>3 DEF IsGcd
  <2> QED
    BY <2>4
<1>7. S \in J
  <2> HIDE DEF J
  <2> QED
    BY <1>5, <1>6, SubsetInduction
<1> QED
  BY <1>1, <1>7

\* it maps every subset of S to the product of a over it.
IsProduct(it, S, a) ==
    \A s \in SUBSET S :
        it[s] = IF s = {} THEN 1 ELSE a[Any(s)] * it[s \ {Any(s)}]

\* The same in unsigned long arithmetic.
IsWordProduct(it, S, a) ==
    \A s \in SUBSET S :
        it[s] = IF s = {} THEN 1 ELSE (it[s \ {Any(s)}] * a[Any(s)]) % Word

\* TrueProduct is such a product, over the domain of the array.
LEMMA TrueProductFold ==
    ASSUME NEW S, IsFiniteSet(S), NEW a \in [S -> Pos]
    PROVE  \E it : TrueProduct(a) = it[S] /\ IsProduct(it, S, a)
<1> DEFINE E(it, s) == IF s = {} THEN 1 ELSE a[Any(s)] * it[s \ {Any(s)}]
           it == CHOOSE f : f = [s \in SUBSET S |-> E(f, s)]
<1>1. TrueProduct(a) = it[S]
  BY DEF TrueProduct, FoldFunctionOnSet, MapThenFoldSet, Any
<1>2. \A s \in SUBSET S : s # {} => Any(s) \in s
  BY DEF Any
<1>3. \E f : f = [s \in SUBSET S |-> E(f, s)]
  <2> DEFINE Op == [p \in Nat \X S |-> a[p[2]] * p[1]]
  <2>1. \A n \in Nat, x \in S : a[x] \in Nat /\ Op[<<n, x>>] = a[x] * n
    BY DEF Pos
  <2>2. Op \in [Nat \X S -> Nat]
    BY <2>1 DEF Pos
  <2> HIDE DEF Op
  <2>3. PICK f \in [SUBSET S -> Nat] : IsFold(f, S, 1, Op)
    BY <2>2, FoldExists
  <2>4. ASSUME NEW s \in SUBSET S PROVE f[s] = E(f, s)
    BY <1>2, <2>1, <2>3 DEF IsFold
  <2>5. f = [s \in SUBSET S |-> E(f, s)]
    <3> HIDE DEF E
    <3> QED
      BY <2>4
  <2> HIDE DEF E
  <2> QED
    BY <2>5
<1>4. \A s \in SUBSET S : it[s] = E(it, s)
  <2>1. it = [s \in SUBSET S |-> E(it, s)]
    <3> HIDE DEF E
    <3> QED
      BY <1>3
  <2> HIDE DEF E, it
  <2> QED
    BY <2>1
<1> HIDE DEF it
<1> QED
  BY <1>1, <1>4 DEF IsProduct

\* Product, the first loop of w1_lcm, is such a product in unsigned long.
LEMMA WordProductFold ==
    ASSUME NEW S, IsFiniteSet(S), NEW a \in [S -> Pos]
    PROVE  \E it : Product(a) = it[S] /\ IsWordProduct(it, S, a)
<1> DEFINE E(it, s) == IF s = {} THEN 1 ELSE (it[s \ {Any(s)}] * a[Any(s)]) % Word
           it == CHOOSE f : f = [s \in SUBSET S |-> E(f, s)]
<1>1. Product(a) = it[S]
  BY DEF Product, FoldFunction, FoldFunctionOnSet, MapThenFoldSet, Any
<1>2. \A s \in SUBSET S : s # {} => Any(s) \in s
  BY DEF Any
<1>3. \E f : f = [s \in SUBSET S |-> E(f, s)]
  <2> DEFINE Op == [p \in Nat \X S |-> (p[1] * a[p[2]]) % Word]
  <2>1. \A n \in Nat, x \in S : a[x] \in Nat /\ Op[<<n, x>>] = (n * a[x]) % Word
    BY DEF Pos
  <2>2. Op \in [Nat \X S -> Nat]
    BY <2>1, WordAssumption, Division DEF Pos
  <2> HIDE DEF Op
  <2>3. PICK f \in [SUBSET S -> Nat] : IsFold(f, S, 1, Op)
    BY <2>2, FoldExists
  <2>4. ASSUME NEW s \in SUBSET S PROVE f[s] = E(f, s)
    BY <1>2, <2>1, <2>3 DEF IsFold
  <2>5. f = [s \in SUBSET S |-> E(f, s)]
    <3> HIDE DEF E
    <3> QED
      BY <2>4
  <2> HIDE DEF E
  <2> QED
    BY <2>5
<1>4. \A s \in SUBSET S : it[s] = E(it, s)
  <2>1. it = [s \in SUBSET S |-> E(it, s)]
    <3> HIDE DEF E
    <3> QED
      BY <1>3
  <2> HIDE DEF E, it
  <2> QED
    BY <2>1
<1> HIDE DEF it
<1> QED
  BY <1>1, <1>4 DEF IsWordProduct

\* A factor may be reduced modulo the word before a product is.
LEMMA ProductModulo ==
    ASSUME NEW x \in Nat, NEW y \in Nat, NEW w \in Pos
    PROVE  (x * y) % w = ((x % w) * y) % w
<1>1. PICK q \in Nat, r \in Nat : r = x % w /\ x = q * w + r
  BY Division
<1>2. r * y \in Nat /\ x * y \in Nat
  BY <1>1
<1>3. PICK p \in Nat, t \in Nat : t = (r * y) % w /\ t < w /\ r * y = p * w + t
  BY <1>2, Division
<1>4. PICK c \in Nat : c = q * y
  OBVIOUS
<1>5. x * y = (c + p) * w + t
  <2>1. x * y = (q * w) * y + r * y
    BY <1>1 DEF Pos
  <2>2. (q * w) * y = c * w
    BY <1>4 DEF Pos
  <2>3. (c + p) * w = c * w + p * w /\ c * w \in Nat /\ p * w \in Nat
    BY DEF Pos
  <2> QED
    BY <1>2, <1>3, <2>1, <2>2, <2>3
<1>6. (x * y) % w = t
  <2>1. c + p \in Nat /\ t \in 0 .. w - 1
    BY <1>3 DEF Pos
  <2> QED
    BY <1>5, <2>1, DivisionUnique
<1> QED
  BY <1>1, <1>3, <1>6

\* The product of the intervals is a multiple of each of them, and w1_lcm has it
\* modulo the word.
LEMMA Products ==
    ASSUME NEW S, IsFiniteSet(S), NEW a \in [S -> Pos]
    PROVE  /\ TrueProduct(a) \in Pos
           /\ \A x \in S : Divides(a[x], TrueProduct(a))
           /\ Product(a) = TrueProduct(a) % Word
<1>1. PICK it : TrueProduct(a) = it[S] /\ IsProduct(it, S, a)
  BY TrueProductFold
<1>2. PICK wd : Product(a) = wd[S] /\ IsWordProduct(wd, S, a)
  BY WordProductFold
<1> DEFINE Right(s) == /\ it[s] \in Pos
                       /\ \A x \in s : Divides(a[x], it[s])
                       /\ wd[s] = it[s] % Word
           J == {s \in SUBSET S : Right(s)}
<1>3. {} \in J
  <2>1. it[{}] = 1 /\ wd[{}] = 1
    BY <1>1, <1>2 DEF IsProduct, IsWordProduct
  <2>2. 1 % Word = 1
    <3>1. 1 \in 0 .. Word - 1 /\ Word \in Pos /\ 0 * Word + 1 = 1 /\ 0 \in Nat
      BY WordAssumption DEF Pos
    <3> QED
      BY <3>1, DivisionUnique
  <2>3. Right({})
    BY <2>1, <2>2 DEF Pos
  <2> QED
    BY <2>3
<1>4. ASSUME NEW s \in SUBSET S, s # {}, \A x \in s : s \ {x} \in J
      PROVE  s \in J
  <2>1. Any(s) \in s /\ Any(s) \in S /\ a[Any(s)] \in Pos
    BY <1>4 DEF Any
  <2> DEFINE u == s \ {Any(s)}
  <2>2. Right(u)
    BY <1>4, <2>1
  <2>3. it[s] = a[Any(s)] * it[u] /\ wd[s] = (wd[u] * a[Any(s)]) % Word
    BY <1>1, <1>2, <1>4 DEF IsProduct, IsWordProduct
  <2> HIDE DEF u
  <2>4. it[s] \in Pos /\ it[s] = it[u] * a[Any(s)]
    BY <2>1, <2>2, <2>3 DEF Pos
  <2>5. wd[s] = it[s] % Word
    <3>1. Word \in Pos
      BY WordAssumption DEF Pos
    <3> QED
      BY <2>1, <2>2, <2>3, <2>4, <3>1, ProductModulo DEF Pos
  <2>6. ASSUME NEW x \in s PROVE Divides(a[x], it[s])
    <3>1. CASE x = Any(s)
      BY <2>1, <2>2, <2>4, <3>1, MultipleOf DEF Pos
    <3>2. CASE x # Any(s)
      <4>1. x \in u /\ a[x] \in Pos
        BY <3>2 DEF u
      <4> QED
        BY <2>1, <2>2, <2>3, <4>1, DividesMultiple DEF Pos
    <3> QED
      BY <3>1, <3>2
  <2> QED
    BY <2>4, <2>5, <2>6
<1>5. S \in J
  <2> HIDE DEF J
  <2> QED
    BY <1>3, <1>4, SubsetInduction
<1> QED
  BY <1>1, <1>2, <1>5

-----------------------------------------------------------------------------
\* Smallest is in the set and below all of it.
LEMMA SmallestOf ==
    ASSUME NEW S \in SUBSET Nat, S # {}
    PROVE  Smallest(S) \in S /\ \A x \in S : Smallest(S) <= x
  BY LeastNumber DEF Smallest

\* Largest(Range(a)), amax of w1_lcm, is one of the numbers and no less than any.
LEMMA LargestOf ==
    ASSUME NEW S, IsFiniteSet(S), S # {}, NEW a \in [S -> Pos]
    PROVE  \E z \in S : Largest(Range(a)) = a[z] /\ \A x \in S : a[x] <= a[z]
<1> DEFINE U == {n \in Nat : \A x \in S : a[x] <= n}
<1>1. U # {}
  <2>1. TrueProduct(a) \in Pos /\ \A x \in S : a[x] <= TrueProduct(a)
    BY Products, DividesAtMost
  <2> QED
    BY <2>1 DEF Pos
<1>2. PICK m \in U : \A n \in U : m <= n
  BY <1>1, LeastNumber
<1>3. PICK z \in S : a[z] = m
  <2>1. PICK x \in S : TRUE
    OBVIOUS
  <2>2. a[x] <= m /\ a[x] \in Pos /\ m \in Nat
    BY <1>2
  <2>3. m - 1 \in Nat /\ m - 1 \notin U
    <3> HIDE DEF U
    <3> QED
      BY <1>2, <2>2 DEF Pos
  <2>4. PICK z \in S : ~(a[z] <= m - 1)
    BY <2>3
  <2>5. a[z] \in Pos /\ a[z] <= m
    BY <1>2
  <2> QED
    BY <2>2, <2>4, <2>5 DEF Pos
<1>4. \A x \in S : a[x] <= a[z] /\ a[x] \in Nat
  BY <1>2, <1>3 DEF Pos
<1>5. Range(a) = {a[x] : x \in S}
  BY DEF Range
<1>6. \E y \in Range(a) : \A x \in Range(a) : y >= x
  BY <1>4, <1>5
<1>7. PICK y \in Range(a) : y = Largest(Range(a)) /\ \A x \in Range(a) : y >= x
  <2> HIDE DEF U
  <2> QED
    BY <1>6 DEF Largest
<1>8. y = a[z]
  <2>1. y >= a[z] /\ y <= a[z] /\ y \in Nat /\ a[z] \in Nat
    BY <1>4, <1>5, <1>7
  <2> QED
    BY <2>1
<1> QED
  BY <1>4, <1>7, <1>8

\* n is the lowest common multiple of the array.
LowestCommon(n, a) ==
    n \in Pos /\ Common(n, a) /\ \A k \in 1 .. n - 1 : ~Common(k, a)

\* The second loop of w1_lcm finds the lowest common multiple, or returns -1 and
\* there is none up to the limit.
LEMMA SearchRight ==
    ASSUME NEW S, IsFiniteSet(S), S # {}, NEW a \in [S -> Pos], NEW limit \in Nat
    PROVE  \/ LowestCommon(Search(a, limit), a)
           \/ Search(a, limit) = -1 /\ \A n \in 1 .. limit : ~Common(n, a)
<1>1. PICK z \in S : Largest(Range(a)) = a[z]
  BY LargestOf
<1> DEFINE top == a[z]
           tries == 1 .. limit \div top
           common == {k \in tries : \A d \in S : Divides(a[d], k * top)}
<1>2. Search(a, limit) = IF common = {} THEN -1 ELSE Smallest(common) * top
  BY <1>1 DEF Search
<1>3. top \in Pos /\ limit \div top \in Nat
  BY Division
<1>4. ASSUME NEW n \in Pos, Common(n, a)
      PROVE  \E k \in Pos : n = k * top
  <2>1. Divides(top, n)
    BY <1>4 DEF Common
  <2>2. PICK k \in Nat : n = k * top
    BY <1>3, <2>1, MultipleOf DEF Pos
  <2>3. k # 0
    BY <1>3, <2>2 DEF Pos
  <2> QED
    BY <2>2, <2>3 DEF Pos
<1>5. ASSUME NEW k \in Pos, k * top <= limit, Common(k * top, a)
      PROVE  k \in common
  <2>1. PICK q \in Nat, r \in Nat : q = limit \div top /\ r < top /\ limit = q * top + r
    BY <1>3, Division
  <2>2. ~(q + 1 <= k)
    <3>1. ASSUME q + 1 <= k PROVE FALSE
      <4>1. (q + 1) * top <= k * top
        BY <1>3, <3>1, ProductOrder DEF Pos
      <4>2. (q + 1) * top = q * top + top /\ q * top \in Nat /\ k * top \in Nat
        BY <1>3 DEF Pos
      <4> HIDE DEF top
      <4> QED
        BY <1>3, <1>5, <2>1, <4>1, <4>2 DEF Pos
    <3> QED
      BY <3>1
  <2>3. k \in tries
    BY <2>1, <2>2 DEF Pos
  <2> QED
    BY <1>5, <2>3 DEF Common
<1> HIDE DEF top
<1>6. CASE common = {}
  <2>1. ASSUME NEW n \in 1 .. limit, Common(n, a) PROVE FALSE
    <3>1. n \in Pos /\ n <= limit
      BY DEF Pos
    <3>2. PICK k \in Pos : n = k * top
      BY <1>4, <2>1, <3>1
    <3> HIDE DEF common
    <3> QED
      BY <1>5, <1>6, <2>1, <3>1, <3>2
  <2> HIDE DEF common
  <2> QED
    BY <1>2, <1>6, <2>1
<1>7. CASE common # {}
  <2> DEFINE m == Smallest(common)
  <2>1. m \in common /\ \A k \in common : m <= k
    <3>1. common \in SUBSET Nat
      BY <1>3
    <3> HIDE DEF common
    <3> QED
      BY <1>7, <3>1, SmallestOf
  <2>2. m \in Pos /\ m <= limit \div top /\ \A d \in S : Divides(a[d], m * top)
    BY <1>3, <2>1 DEF Pos
  <2> HIDE DEF m
  <2>3. m * top \in Pos /\ m * top <= limit
    <3>1. PICK q \in Nat, r \in Nat : q = limit \div top /\ limit = q * top + r
      BY <1>3, Division
    <3>2. m * top <= q * top
      BY <1>3, <2>2, <3>1, ProductOrder DEF Pos
    <3>3. m * top \in Pos /\ q * top \in Nat
      BY <1>3, <2>2 DEF Pos
    <3> QED
      BY <3>1, <3>2, <3>3 DEF Pos
  <2>4. Common(m * top, a)
    BY <2>2 DEF Common
  <2>5. ASSUME NEW n \in 1 .. m * top - 1, Common(n, a) PROVE FALSE
    <3>1. n \in Pos /\ n < m * top /\ n <= limit
      BY <2>3 DEF Pos
    <3>2. PICK k \in Pos : n = k * top
      BY <1>4, <2>5, <3>1
    <3>3. k \in common
      <4> HIDE DEF common
      <4> QED
        BY <1>5, <2>5, <3>1, <3>2
    <3>4. m <= k
      <4> HIDE DEF common
      <4> QED
        BY <2>1, <3>3
    <3>5. m * top <= k * top
      BY <1>3, <2>2, <3>4, ProductOrder DEF Pos
    <3> QED
      BY <2>3, <3>1, <3>2, <3>5 DEF Pos
  <2>6. Search(a, limit) = m * top
    <3> HIDE DEF common
    <3> QED
      BY <1>2, <1>7 DEF m
  <2> QED
    BY <2>3, <2>4, <2>5, <2>6 DEF LowestCommon
<1> QED
  BY <1>6, <1>7

\* w1_lcm returns the lowest common multiple, unless the product of the intervals
\* does not fit in an int; then it is -1, or no common multiple fits either.
LEMMA CycleOf ==
    ASSUME NEW S, IsFiniteSet(S), S # {}, NEW a \in [S -> Pos], NEW c \in w1_lcm(a)
    PROVE  /\ c \in Int
           /\ \/ LowestCommon(c, a)
              \/ /\ TrueProduct(a) > IntMax
                 /\ c = -1 \/ \A n \in 1 .. IntMax : ~Common(n, a)
<1> DEFINE prod  == Product(a)
           limit == IF prod <= IntMax THEN prod ELSE IntMax
           s     == Search(a, limit)
<1>1. Word \in Pos /\ IntMax \in Pos /\ IntMax < Word
  BY WordAssumption DEF Pos
<1>2. /\ TrueProduct(a) \in Pos /\ Common(TrueProduct(a), a)
      /\ prod = TrueProduct(a) % Word
  BY Products DEF Common
<1>3. PICK q \in Nat : prod \in Nat /\ prod < Word /\ TrueProduct(a) = q * Word + prod
  BY <1>1, <1>2, Division DEF Pos
<1>4. prod <= TrueProduct(a) /\ (TrueProduct(a) <= IntMax => prod = TrueProduct(a))
  <2>1. q * Word \in Nat /\ (q # 0 => q * Word >= Word)
    BY <1>1 DEF Pos
  <2> HIDE DEF prod
  <2> QED
    BY <1>1, <1>2, <1>3, <2>1 DEF Pos
<1>5. limit \in Nat
  BY <1>1, <1>3 DEF Pos
<1> HIDE DEF prod
<1>6. \/ LowestCommon(s, a) /\ s # -1 /\ s \in Int
      \/ s = -1 /\ \A n \in 1 .. limit : ~Common(n, a)
  <2>1. \/ LowestCommon(s, a)
        \/ s = -1 /\ \A n \in 1 .. limit : ~Common(n, a)
    <3> HIDE DEF limit
    <3> QED
      BY <1>5, SearchRight
  <2> QED
    BY <2>1 DEF LowestCommon, Pos
<1>7. c \in IF s # -1 \/ prod <= IntMax THEN {s} ELSE {-1, AsInt(Search(a, prod))}
  BY DEF w1_lcm, prod
<1> HIDE DEF limit, s
<1>8. CASE s # -1
  BY <1>6, <1>7, <1>8
<1>9. CASE s = -1 /\ prod <= IntMax
  <2>1. c = -1 /\ limit = prod
    BY <1>7, <1>9 DEF limit
  <2>2. ~(TrueProduct(a) <= IntMax)
    BY <1>2, <1>4, <1>6, <1>9, <2>1 DEF Pos
  <2> QED
    BY <1>1, <1>2, <2>1, <2>2 DEF Pos
<1>10. CASE s = -1 /\ ~(prod <= IntMax)
  <2>1. limit = IntMax /\ \A n \in 1 .. IntMax : ~Common(n, a)
    BY <1>6, <1>10 DEF limit, LowestCommon, Pos
  <2>2. TrueProduct(a) > IntMax
    BY <1>1, <1>2, <1>3, <1>4, <1>10 DEF Pos
  <2>3. Search(a, prod) \in Int
    BY <1>3, SearchRight DEF LowestCommon, Pos
  <2>4. AsInt(Search(a, prod)) \in Int
    BY <1>1, <2>3 DEF AsInt, Pos
  <2> QED
    BY <1>7, <1>10, <2>1, <2>2, <2>4
<1> QED
  BY <1>8, <1>9, <1>10

-----------------------------------------------------------------------------
\* The first loop of w1_verify_intervals leaves an interval between 1 and the delay.
LEMMA ClampedRange ==
    ASSUME NEW delay \in Pos, NEW i \in Nat
    PROVE  Clamped(delay, i) \in Pos /\ Clamped(delay, i) <= delay
  BY DEF Clamped, W1_MIN_INTVL, Pos

\* The second loop goes down to a multiple of the smallest interval, by less than
\* that interval.
LEMMA RoundedNear ==
    ASSUME NEW m \in Pos, NEW i \in Pos, m <= i
    PROVE  /\ Rounded(m, i) \in Pos
           /\ Rounded(m, i) <= i /\ Rounded(m, i) + m > i
           /\ Divides(m, Rounded(m, i))
<1>1. PICK q \in Nat, r \in Nat : q = i \div m /\ r < m /\ i = q * m + r
  BY Division DEF Pos
<1>2. q # 0
  BY <1>1 DEF Pos
<1>3. q * m \in Pos
  BY <1>2 DEF Pos
<1>4. Rounded(m, i) = q * m
  BY <1>1, <1>2 DEF Rounded
<1>5. Divides(m, q * m)
  BY <1>3, MultipleOf DEF Pos
<1> QED
  BY <1>1, <1>3, <1>4, <1>5 DEF Pos

\* The intervals w1_verify_intervals leaves: positive, at most what was wanted, by
\* less than the smallest interval below it, and multiples of the smallest.
LEMMA Verified ==
    ASSUME NEW S, NEW delay \in Pos, NEW t \in [S -> Nat]
    PROVE  /\ MinIntvl(delay, t) \in Pos
           /\ VerifiedIntvl(delay, t) \in [S -> Pos]
           /\ \A d \in S : LET v == VerifiedIntvl(delay, t)[d] IN
                 /\ v <= Clamped(delay, t[d])
                 /\ v + MinIntvl(delay, t) > Clamped(delay, t[d])
                 /\ Divides(MinIntvl(delay, t), v)
<1> DEFINE C == {delay} \cup {Clamped(delay, t[d]) : d \in S}
           m == Smallest(C)
<1>1. \A d \in S : Clamped(delay, t[d]) \in Pos /\ Clamped(delay, t[d]) \in C
  BY ClampedRange
<1>2. C \in SUBSET Pos /\ C # {}
  BY <1>1
<1>3. m \in C /\ \A x \in C : m <= x
  <2> HIDE DEF C
  <2> QED
    BY <1>2, SmallestOf DEF Pos
<1>4. MinIntvl(delay, t) = m
  BY DEF MinIntvl
<1> HIDE DEF m, C
<1>5. m \in Pos /\ \A d \in S : m <= Clamped(delay, t[d])
  BY <1>1, <1>2, <1>3
<1>6. VerifiedIntvl(delay, t) = [d \in S |-> Rounded(m, Clamped(delay, t[d]))]
  BY <1>4 DEF VerifiedIntvl
<1> QED
  BY <1>1, <1>4, <1>5, <1>6, RoundedNear

\* n is the highest common factor of the array.
HighestOf(n, a) ==
    /\ n \in Pos
    /\ \A d \in Pos : Divides(d, n) <=> \A x \in DOMAIN a : Divides(d, a[x])

\* w1_gcd of intervals is their highest common factor: the wake-up value.
LEMMA WakeOf ==
    ASSUME NEW S, IsFiniteSet(S), S # {}, NEW a \in [S -> Pos]
    PROVE  HighestOf(w1_gcd(a), a)
<1>1. a \in [S -> Nat]
  BY DEF Pos
<1>2. /\ w1_gcd(a) \in Nat
      /\ \A d \in Pos : Divides(d, w1_gcd(a)) <=> \A x \in S : Divides(d, a[x])
  BY <1>1, HighestFactor
<1>3. w1_gcd(a) # 0
  <2>1. PICK x \in S : a[x] \in Pos /\ a[x] + 1 \in Pos
    BY DEF Pos
  <2>2. ~Divides(a[x] + 1, a[x])
    BY <2>1, DividesAtMost DEF Pos
  <2> QED
    BY <1>2, <2>1, <2>2, DividesZero
<1> QED
  BY <1>2, <1>3 DEF HighestOf, Pos

\* What w1_verify_intervals leaves is a plan: its intervals are the verified ones,
\* its delay their highest common factor, its cycle what CycleOf says.
LEMMA PlanOf ==
    ASSUME NEW delay \in Pos, NEW t \in [Devs -> Nat], NEW p \in Plans(delay, t)
    PROVE  /\ p \in PlanType
           /\ p.intvl = VerifiedIntvl(delay, t)
           /\ p.delay = w1_gcd(p.intvl)
           /\ HighestOf(p.delay, p.intvl)
           /\ \/ LowestCommon(p.cycle, p.intvl)
              \/ /\ TrueProduct(p.intvl) > IntMax
                 /\ p.cycle = -1 \/ \A n \in 1 .. IntMax : ~Common(n, p.intvl)
<1> DEFINE v == VerifiedIntvl(delay, t)
<1>1. v \in [Devs -> Pos]
  BY Verified
<1>2. PICK c \in w1_lcm(v) : p = [delay |-> w1_gcd(v), intvl |-> v, cycle |-> c]
  BY DEF Plans
<1> HIDE DEF v
<1>3. HighestOf(w1_gcd(v), v)
  BY <1>1, WakeOf, PlanAssumption
<1>4. /\ c \in Int
      /\ \/ LowestCommon(c, v)
         \/ /\ TrueProduct(v) > IntMax
            /\ c = -1 \/ \A n \in 1 .. IntMax : ~Common(n, v)
  BY <1>1, CycleOf, PlanAssumption
<1> QED
  BY <1>1, <1>2, <1>3, <1>4 DEF PlanType, HighestOf, Pos, v

-----------------------------------------------------------------------------
\* The inductive invariant: the plan in force was made from the device table in
\* force for some positive delay, which is that of the file when the file names one
\* and the command line named none.  Positive is what a reload needs: it starts from
\* the delay of the plan when the file is silent.
PlanInv ==
    /\ option \in Delays /\ file \in Delays /\ table \in Tables
    /\ \E delay \in Pos : plan \in Plans(delay, table)
    /\ file # 0 /\ option = 0 => plan \in Plans(file, table)

\* A delay that is set, or kept when the setting is absent, is positive.
LEMMA DelayPositive ==
    ASSUME NEW opt \in Delays, NEW delay \in Pos
    PROVE  Set(opt, delay) \in Pos
  BY PlanAssumption DEF Set, Pos

\* What a plan in force is.
LEMMA PlanInvGives ==
    ASSUME PlanInv
    PROVE  /\ PlanTypeOK
           /\ HighestOf(plan.delay, plan.intvl)
           /\ \/ LowestCommon(plan.cycle, plan.intvl)
              \/ /\ TrueProduct(plan.intvl) > IntMax
                 /\ plan.cycle = -1 \/ \A n \in 1 .. IntMax : ~Common(n, plan.intvl)
<1>1. table \in [Devs -> Nat]
  BY PlanAssumption DEF PlanInv
<1>2. PICK delay \in Pos : plan \in Plans(delay, table)
  BY DEF PlanInv
<1> QED
  BY <1>1, <1>2, PlanOf DEF PlanInv, PlanTypeOK

\* read_config, the command line and do_init make such a plan.
LEMMA StartPlanned == StartPlan => PlanInv
<1> SUFFICES ASSUME StartPlan PROVE PlanInv
  OBVIOUS
<1>1. W1_DEFAULT_INTVL \in Pos
  BY DEF W1_DEFAULT_INTVL, Pos
<1>2. Set(option, Set(file, W1_DEFAULT_INTVL)) \in Pos
  BY <1>1, DelayPositive DEF StartPlan
<1>3. file # 0 /\ option = 0 => Set(option, Set(file, W1_DEFAULT_INTVL)) = file
  BY DEF Set
<1> QED
  BY <1>2, <1>3 DEF StartPlan, PlanInv

\* A reload makes such a plan.
LEMMA ReloadPlanned ==
    ASSUME PlanInv, NEW f \in Delays, NEW t \in Tables, Reload(f, t)
    PROVE  PlanInv'
<1>1. Set(f, plan.delay) \in Pos
  BY PlanInvGives, DelayPositive DEF HighestOf
<1>2. plan' \in Plans(Set(f, plan.delay), t) /\ file' = f /\ table' = t /\ option' = option
  BY DEF Reload
<1>3. f # 0 => Set(f, plan.delay) = f
  BY DEF Set
<1> QED
  BY <1>1, <1>2, <1>3 DEF PlanInv

\* Every step keeps the invariant.
LEMMA NextPlanned == PlanInv /\ [NextPlan]_planVars => PlanInv'
<1> SUFFICES ASSUME PlanInv, [NextPlan]_planVars PROVE PlanInv'
  OBVIOUS
<1>1. CASE NextPlan
  BY <1>1, ReloadPlanned DEF NextPlan
<1>2. CASE UNCHANGED planVars
  BY <1>2 DEF planVars, PlanInv
<1> QED
  BY <1>1, <1>2

\* From the start on and after any number of reloads, the plan in force is one that
\* w1_verify_intervals made from the device table last read and a positive delay.
THEOREM PlanInvariant == PlanSpec => []PlanInv
  BY StartPlanned, NextPlanned, PTL DEF PlanSpec

\* The delay and the intervals stay positive integers, whatever the files and the
\* device tables say: no modulo by zero in w1_read_all_sensors or the main loop.
THEOREM PlanTypes == PlanSpec => []PlanTypeOK
<1>1. PlanInv => PlanTypeOK
  BY PlanInvGives
<1> QED
  BY <1>1, PlanInvariant, PTL

\* The wake-up value is the highest common factor of the intervals, and the cycle
\* their lowest common multiple when their product fits in an int (w1_gcd, w1_lcm).
THEOREM PlanRight == PlanSpec => []WakeAndCycleRight
<1>1. ASSUME PlanInv PROVE WakeIsHighestFactor
  <2>1. HighestOf(plan.delay, plan.intvl) /\ PlanTypeOK
    BY <1>1, PlanInvGives
  <2>2. plan.delay \in Pos /\ plan.intvl \in [Devs -> Pos] /\ DOMAIN plan.intvl = Devs
    BY <2>1 DEF PlanTypeOK, PlanType, Pos
  <2>3. Divides(plan.delay, plan.delay)
    BY <2>2, MultipleOf DEF Pos
  <2>4. \A d \in Devs : Divides(plan.delay, plan.intvl[d])
    BY <2>1, <2>2, <2>3 DEF HighestOf
  <2>5. ASSUME NEW n \in Pos, \A d \in Devs : Divides(n, plan.intvl[d])
        PROVE  n <= plan.delay
    <3>1. Divides(n, plan.delay)
      BY <2>1, <2>2, <2>5 DEF HighestOf
    <3> QED
      BY <2>2, <3>1, DividesAtMost
  <2>6. plan.delay \in 1 .. plan.delay * 2
    BY <2>2 DEF Pos
  <2> QED
    BY <2>4, <2>5, <2>6 DEF WakeIsHighestFactor, Pos
<1>2. ASSUME PlanInv PROVE CycleRight
  <2>1. CASE LowestCommon(plan.cycle, plan.intvl)
    BY <2>1 DEF LowestCommon, CycleRight, Pos
  <2>2. CASE /\ TrueProduct(plan.intvl) > IntMax
             /\ plan.cycle = -1 \/ \A n \in 1 .. IntMax : ~Common(n, plan.intvl)
    BY <2>2 DEF CycleRight
  <2> QED
    BY <1>2, <2>1, <2>2, PlanInvGives
<1> QED
  BY <1>1, <1>2, PlanInvariant, PTL DEF WakeAndCycleRight

\* The interval wanted for a device is what the first loop of w1_verify_intervals
\* leaves.
LEMMA WantedIsClamped ==
    ASSUME NEW delay \in Pos, NEW i \in Nat
    PROVE  (IF i = 0 THEN delay ELSE Smallest({delay, Largest({i, W1_MIN_INTVL})}))
              = Clamped(delay, i)
<1>1. ASSUME NEW x \in Nat, NEW y \in Nat
      PROVE  Smallest({x, y}) = IF x <= y THEN x ELSE y
  <2>1. Smallest({x, y}) \in {x, y} /\ \A z \in {x, y} : Smallest({x, y}) <= z
    <3>1. {x, y} \in SUBSET Nat /\ {x, y} # {}
      OBVIOUS
    <3> QED
      BY <3>1, SmallestOf
  <2> QED
    BY <2>1
<1>2. ASSUME NEW x \in Nat, NEW y \in Nat
      PROVE  Largest({x, y}) = IF x >= y THEN x ELSE y
  <2>1. \E z \in {x, y} : \A u \in {x, y} : z >= u
    OBVIOUS
  <2>2. Largest({x, y}) \in {x, y} /\ \A z \in {x, y} : Largest({x, y}) >= z
    BY <2>1 DEF Largest
  <2> QED
    BY <2>2
<1>3. Largest({i, 10}) = IF i >= 10 THEN i ELSE 10
  BY <1>2
<1>4. Smallest({delay, Largest({i, 10})})
        = IF delay <= Largest({i, 10}) THEN delay ELSE Largest({i, 10})
  BY <1>1, <1>3 DEF Pos
<1> QED
  BY <1>3, <1>4 DEF Clamped, W1_MIN_INTVL, Pos

\* The action of IntervalsNearWanted.
NearWanted ==
    \A d \in Devs :
        LET limit  == IF file' # 0 THEN file' ELSE plan.delay
            wanted == IF table'[d] = 0 THEN limit
                      ELSE Smallest({limit, Largest({table'[d], W1_MIN_INTVL})})
        IN  /\ plan'.intvl[d] <= wanted
            /\ plan'.intvl[d] + plan'.delay > wanted

\* A reload gives every device an interval near the one wanted.
LEMMA ReloadNear ==
    ASSUME PlanInv, NEW f \in Delays, NEW t \in Tables, Reload(f, t)
    PROVE  NearWanted
<1> DEFINE limit == Set(f, plan.delay)
           v     == VerifiedIntvl(limit, t)
           m     == MinIntvl(limit, t)
<1>1. limit \in Pos /\ t \in [Devs -> Nat]
  BY PlanInvGives, DelayPositive, PlanAssumption DEF HighestOf
<1>2. plan' \in Plans(limit, t) /\ file' = f /\ table' = t
  BY DEF Reload
<1>3. limit = IF file' # 0 THEN file' ELSE plan.delay
  BY <1>2 DEF Set
<1> HIDE DEF limit
<1>4. plan'.intvl = v /\ HighestOf(plan'.delay, v)
  BY <1>1, <1>2, PlanOf
<1>5. /\ m \in Pos
      /\ v \in [Devs -> Pos]
      /\ \A d \in Devs : /\ v[d] <= Clamped(limit, t[d])
                         /\ v[d] + m > Clamped(limit, t[d])
                         /\ Divides(m, v[d])
  BY <1>1, Verified
<1> HIDE DEF v, m
<1>6. m <= plan'.delay
  <2>1. Divides(m, plan'.delay)
    BY <1>4, <1>5 DEF HighestOf
  <2> QED
    BY <1>4, <1>5, <2>1, DividesAtMost DEF HighestOf
<1>7. ASSUME NEW d \in Devs
      PROVE  /\ plan'.intvl[d] <= Clamped(limit, t[d])
             /\ plan'.intvl[d] + plan'.delay > Clamped(limit, t[d])
  <2>1. plan'.delay \in Pos /\ Clamped(limit, t[d]) \in Pos /\ v[d] \in Pos
    BY <1>1, <1>4, <1>5, ClampedRange DEF HighestOf
  <2> QED
    BY <1>4, <1>5, <1>6, <2>1 DEF Pos
<1>8. ASSUME NEW d \in Devs
      PROVE  (IF table'[d] = 0 THEN limit
              ELSE Smallest({limit, Largest({table'[d], W1_MIN_INTVL})}))
                = Clamped(limit, t[d])
  BY <1>1, <1>2, WantedIsClamped
<1> QED
  BY <1>3, <1>7, <1>8 DEF NearWanted

\* After every reload a device is polled no less often than its row and the delay
\* ask for, and by less than one wake-up more often (w1_verify_intervals).
THEOREM PlanNearWanted == PlanSpec => IntervalsNearWanted
<1>1. PlanInv /\ [NextPlan]_planVars => [NearWanted]_planVars
  BY ReloadNear DEF NextPlan
<1>2. PlanSpec => [][NearWanted]_planVars
  BY <1>1, PlanInvariant, PTL DEF PlanSpec
<1> QED
  BY <1>2 DEF IntervalsNearWanted, NearWanted

\* The action of SameFileSamePlan.
SamePlan ==
    file' # 0 /\ file' = file /\ table' = table /\ option = 0
      => plan'.intvl = plan.intvl /\ plan'.delay = plan.delay

\* A reload of the same file and table makes the same intervals and wake-up value.
LEMMA ReloadSame ==
    ASSUME PlanInv, NEW f \in Delays, NEW t \in Tables, Reload(f, t)
    PROVE  SamePlan
<1> SUFFICES ASSUME file' # 0, file' = file, table' = table, option = 0
             PROVE  plan'.intvl = plan.intvl /\ plan'.delay = plan.delay
  BY DEF SamePlan
<1>1. f = file /\ t = table /\ file \in Pos /\ table \in [Devs -> Nat]
  BY PlanAssumption DEF Reload, Pos, PlanInv
<1>2. plan \in Plans(file, table) /\ plan' \in Plans(file, table)
  BY <1>1 DEF PlanInv, Reload, Set
<1> QED
  BY <1>1, <1>2, PlanOf

\* A SIGHUP with an unchanged file that names the delay, and no -t, changes neither
\* the intervals nor the wake-up value, however many reloads came before.
THEOREM PlanKept == PlanSpec => SameFileSamePlan
<1>1. PlanInv /\ [NextPlan]_planVars => [SamePlan]_planVars
  BY ReloadSame DEF NextPlan
<1>2. PlanSpec => [][SamePlan]_planVars
  BY <1>1, PlanInvariant, PTL DEF PlanSpec
<1> QED
  BY <1>2 DEF SameFileSamePlan, SamePlan

-----------------------------------------------------------------------------
\* A step of the main loop reloads the plan or leaves it alone.
LEMMA LoopStepPlan == [Next]_vars => [NextPlan]_planVars
<1> SUFFICES ASSUME [Next]_vars PROVE [NextPlan]_planVars
  OBVIOUS
<1>1. ASSUME NEW c \in Configs, Reconf(c) PROVE [NextPlan]_planVars
  <2>1. c.delay \in Delays /\ c.table \in Tables
    BY LoopAssumption DEF ConfigType
  <2>2. CASE W1_RECONF \in sigme
    BY <1>1, <2>1, <2>2 DEF Reconf, NextPlan
  <2>3. CASE W1_RECONF \notin sigme
    BY <1>1, <2>3 DEF Reconf
  <2> QED
    BY <2>2, <2>3
<1>2. CASE ReadDue \/ NoRead \/ Show \/ Arm \/ Wake \/ TakeTime
  BY <1>2 DEF ReadDue, NoRead, Show, Arm, Wake, TakeTime, setting, planVars
<1>3. CASE \E nv \in BOOLEAN : Log(nv) \/ ReadAll(nv)
  BY <1>3 DEF Log, ReadAll, setting, planVars
<1>4. CASE Work \/ Doze \/ \E f \in Flags : Signal(f)
  BY <1>4 DEF Work, Doze, Signal, setting, planVars
<1>5. CASE UNCHANGED vars
  BY <1>5 DEF vars, planVars
<1> QED
  BY <1>1, <1>2, <1>3, <1>4, <1>5 DEF Next, Main

\* The main loop implements the polling plan: its start is a start of the plan, a
\* SIGHUP that is served is a reload, and no other step touches the plan.
THEOREM LoopPlans == Spec => PlanSpec
<1>1. Init => StartPlan
  BY DEF Init
<1> QED
  BY <1>1, LoopStepPlan, PTL DEF Spec, PlanSpec

\* The invariant of the plan, in the main loop.
LEMMA LoopPlanInv == Spec => []PlanInv
  BY LoopPlans, PlanInvariant, PTL

-----------------------------------------------------------------------------
\* Of two numbers the smaller has the smaller quotient.
LEMMA DivisionMonotone ==
    ASSUME NEW x \in Nat, NEW y \in Nat, x <= y, NEW d \in Pos
    PROVE  x \div d <= y \div d
<1>1. PICK p \in Nat, r \in Nat : p = x \div d /\ x = p * d + r
  BY Division
<1>2. PICK q \in Nat, s \in Nat : q = y \div d /\ s < d /\ y = q * d + s
  BY Division
<1>3. ~(q + 1 <= p)
  <2> SUFFICES ASSUME q + 1 <= p PROVE FALSE
    OBVIOUS
  <2>1. (q + 1) * d <= p * d
    BY ProductOrder
  <2>2. (q + 1) * d = q * d + d /\ q * d \in Nat /\ p * d \in Nat
    BY DEF Pos
  <2> QED
    BY <1>1, <1>2, <2>1, <2>2 DEF Pos
<1> QED
  BY <1>1, <1>2, <1>3

\* A quotient grows by one exactly at the multiples of the divisor.
LEMMA DivisionStep ==
    ASSUME NEW n \in Nat, NEW d \in Pos
    PROVE  (n + 1) \div d = (n \div d) + IF Divides(d, n + 1) THEN 1 ELSE 0
<1>1. PICK q \in Nat, r \in Nat : q = n \div d /\ r < d /\ n = q * d + r
  BY Division
<1>2. CASE r + 1 < d
  <2>1. r + 1 \in 0 .. d - 1 /\ n + 1 = q * d + (r + 1)
    BY <1>1, <1>2 DEF Pos
  <2>2. (n + 1) \div d = q /\ (n + 1) % d = r + 1
    BY <2>1, DivisionUnique
  <2> QED
    BY <1>1, <2>2 DEF Divides
<1>3. CASE r + 1 = d
  <2>1. (q + 1) * d = q * d + d /\ q * d \in Nat
    BY DEF Pos
  <2>2. 0 \in 0 .. d - 1 /\ n + 1 = (q + 1) * d + 0
    BY <1>1, <1>3, <2>1 DEF Pos
  <2>3. (n + 1) \div d = q + 1 /\ (n + 1) % d = 0
    BY <2>2, DivisionUnique
  <2> QED
    BY <1>1, <2>3 DEF Divides
<1> QED
  BY <1>1, <1>2, <1>3 DEF Pos

\* The wake-up value d divides the interval i.  Between a number less than d before
\* a multiple of d and that multiple there is no multiple of i.
LEMMA NoneBetween ==
    ASSUME NEW i \in Pos, NEW d \in Pos, Divides(d, i),
           NEW end \in Nat, Divides(d, end),
           NEW x \in Nat, NEW y \in Nat, end <= x + d, x <= y, y < end
    PROVE  y \div i = x \div i
<1>1. PICK q \in Nat, r \in Nat : q = y \div i /\ y = q * i + r
  BY Division
<1>2. PICK p \in Nat, s \in Nat : p = x \div i /\ s < i /\ x = p * i + s
  BY Division
<1>3. p <= q
  BY <1>1, <1>2, DivisionMonotone
<1>4. q * i \in Nat /\ p * i \in Nat
  BY DEF Pos
<1>5. q * i <= x
  <2>1. Divides(d, q * i)
    BY DividesMultiple DEF Pos
  <2>2. PICK j \in Nat : q * i = j * d
    BY <1>4, <2>1, MultipleOf
  <2>3. PICK k \in Nat : end = k * d
    BY MultipleOf
  <2>4. ~(k * d <= j * d)
    BY <1>1, <1>4, <2>2, <2>3
  <2>5. j + 1 <= k
    BY <2>4, ProductOrder
  <2>6. (j + 1) * d <= k * d
    BY <2>5, ProductOrder
  <2>7. (j + 1) * d = j * d + d /\ j * d \in Nat /\ k * d \in Nat
    BY DEF Pos
  <2> QED
    BY <1>4, <2>2, <2>3, <2>6, <2>7 DEF Pos
<1>6. ~(p + 1 <= q)
  <2> SUFFICES ASSUME p + 1 <= q PROVE FALSE
    OBVIOUS
  <2>1. (p + 1) * i <= q * i
    BY ProductOrder
  <2>2. (p + 1) * i = p * i + i
    BY DEF Pos
  <2> QED
    BY <1>2, <1>4, <1>5, <2>1, <2>2 DEF Pos
<1> QED
  BY <1>1, <1>2, <1>3, <1>6

\* Up to the multiple of d itself there is one if that is a multiple of i.
LEMMA OneAtTheEnd ==
    ASSUME NEW i \in Pos, NEW d \in Pos, Divides(d, i),
           NEW end \in Nat, Divides(d, end), NEW x \in Nat, end <= x + d, x < end
    PROVE  end \div i = (x \div i) + IF Divides(i, end) THEN 1 ELSE 0
<1>1. end - 1 \in Nat /\ x <= end - 1 /\ end - 1 < end /\ (end - 1) + 1 = end
  OBVIOUS
<1>2. (end - 1) \div i = x \div i
  BY <1>1, NoneBetween
<1>3. end \div i = ((end - 1) \div i) + IF Divides(i, end) THEN 1 ELSE 0
  BY <1>1, DivisionStep
<1> QED
  BY <1>2, <1>3

\* A device read at x that has at most m due times behind it at y, and one more if y
\* is a due time, was read at most (1 + m) intervals ago.
LEMMA AgeOfCount ==
    ASSUME NEW i \in Pos, NEW x \in Nat, NEW y \in Nat, NEW m \in Nat,
           (y \div i) - (x \div i) <= m + IF Divides(i, y) THEN 1 ELSE 0
    PROVE  y - x <= (1 + m) * i
<1>1. PICK p \in Nat, r \in Nat : p = x \div i /\ x = p * i + r
  BY Division
<1>2. PICK q \in Nat, s \in Nat : q = y \div i /\ s = y % i /\ s < i /\ y = q * i + s
  BY Division
<1>3. p * i \in Nat /\ q * i \in Nat
  BY DEF Pos
<1>4. CASE Divides(i, y)
  <2>1. s = 0 /\ q <= p + (1 + m)
    BY <1>1, <1>2, <1>4 DEF Divides
  <2>2. q * i <= (p + (1 + m)) * i
    BY <2>1, ProductOrder
  <2>3. (p + (1 + m)) * i = p * i + (1 + m) * i /\ (1 + m) * i \in Nat
    BY DEF Pos
  <2> QED
    BY <1>1, <1>2, <1>3, <2>1, <2>2, <2>3
<1>5. CASE ~Divides(i, y)
  <2>1. q <= p + m
    BY <1>1, <1>2, <1>5
  <2>2. q * i <= (p + m) * i
    BY <2>1, ProductOrder
  <2>3. (p + m) * i = p * i + m * i /\ (1 + m) * i = m * i + i /\ m * i \in Nat
    BY DEF Pos
  <2> QED
    BY <1>1, <1>2, <1>3, <2>2, <2>3 DEF Pos
<1> QED
  BY <1>4, <1>5

-----------------------------------------------------------------------------
\* The wake-up value and the intervals are positive, and it divides each of them.
LEMMA IntervalsTyped ==
    ASSUME PlanInv
    PROVE  /\ plan.delay \in Pos
           /\ plan.intvl \in [Devs -> Pos]
           /\ \A d \in Devs : Divides(plan.delay, plan.intvl[d])
<1>1. HighestOf(plan.delay, plan.intvl) /\ PlanTypeOK
  BY PlanInvGives
<1>2. plan.delay \in Pos /\ plan.intvl \in [Devs -> Pos] /\ DOMAIN plan.intvl = Devs
  BY <1>1 DEF PlanTypeOK, PlanType, Pos
<1>3. Divides(plan.delay, plan.delay)
  BY <1>2, MultipleOf DEF Pos
<1> QED
  BY <1>1, <1>2, <1>3 DEF HighestOf

\* The sleep of the main loop ends after now, within one wake-up value, at a
\* multiple of it.
LEMMA NextWakeIs ==
    ASSUME PlanInv, clock \in Nat
    PROVE  /\ NextWake \in Nat /\ clock < NextWake /\ NextWake <= clock + plan.delay
           /\ Divides(plan.delay, NextWake)
<1>1. plan.delay \in Pos
  BY IntervalsTyped
<1>2. PICK q \in Nat, r \in Nat :
         q = clock \div plan.delay /\ r < plan.delay /\ clock = q * plan.delay + r
  BY <1>1, Division
<1>3. PICK e \in Nat : e = q * plan.delay
  BY <1>1 DEF Pos
<1>4. NextWake = (q + 1) * plan.delay /\ NextWake = e + plan.delay
  BY <1>1, <1>2, <1>3 DEF NextWake, Pos
<1>5. NextWake \in Nat /\ clock < NextWake /\ NextWake <= clock + plan.delay
  BY <1>1, <1>2, <1>3, <1>4 DEF Pos
<1>6. Divides(plan.delay, NextWake)
  BY <1>1, <1>4, <1>5, MultipleOf DEF Pos
<1> QED
  BY <1>5, <1>6

\* Due times are not counted backwards.
LEMMA DueTimesNat ==
    ASSUME PlanInv, NEW d \in Devs, NEW x \in Nat, NEW y \in Nat, x <= y
    PROVE  DueTimes(d, x, y) \in Nat
<1>1. plan.intvl[d] \in Pos
  BY IntervalsTyped
<1>2. x \div plan.intvl[d] \in Nat /\ y \div plan.intvl[d] \in Nat
  BY <1>1, Division
<1> QED
  BY <1>1, <1>2, DivisionMonotone DEF DueTimes

\* The types hold at the start.
LEMMA LoopStartTyped == Init => TypeOK
<1> SUFFICES ASSUME Init PROVE TypeOK
  OBVIOUS
<1>1. PlanTypeOK /\ plan.delay \in Pos
  BY StartPlanned, PlanInvGives, IntervalsTyped DEF Init
<1>2. logtmp \in BOOLEAN /\ release \in BOOLEAN
  BY LoopAssumption DEF Init, ConfigType
<1>3. clock \in Nat
  BY <1>1, LoopAssumption DEF Init, Pos
<1> QED
  BY <1>1, <1>2, <1>3 DEF Init, TypeOK

\* Every step of the main loop keeps the types.
LEMMA LoopStepTyped == TypeOK /\ PlanInv /\ PlanInv' /\ [Next]_vars => TypeOK'
<1> SUFFICES ASSUME TypeOK, PlanInv, PlanInv', [Next]_vars PROVE TypeOK'
  OBVIOUS
<1>0. PlanTypeOK'
  BY PlanInvGives, PTL
<1> USE DEF TypeOK
<1>1. CASE Work
  <2>1. clock' \in Nat /\ clock <= clock' /\ busy' \in Nat
    BY <1>1, LoopAssumption DEF Work
  <2>2. missed' \in [Devs -> Nat]
    <3>1. \A d \in Devs : DueTimes(d, clock, clock') \in Nat
      BY <2>1, DueTimesNat
    <3> HIDE DEF TypeOK
    <3>2. missed' = [d \in Devs |-> missed[d] + DueTimes(d, clock, clock')]
      BY <1>1 DEF Work
    <3>3. missed \in [Devs -> Nat]
      BY DEF TypeOK
    <3> QED
      BY <3>1, <3>2, <3>3
  <2> QED
    BY <1>0, <1>1, <2>1, <2>2 DEF Work, setting, Busy
<1>2. CASE Doze
  <2>1. clock' \in Nat /\ clock' <= target
    BY <1>2, LoopAssumption DEF Doze
  <2> QED
    BY <1>0, <1>2, <2>1 DEF Doze, setting
<1>3. ASSUME NEW f \in Flags, Signal(f) PROVE TypeOK'
  BY <1>0, <1>3 DEF Signal, setting
<1>4. CASE ReadDue
  BY <1>0, <1>4 DEF ReadDue, Acquired, setting, Busy
<1>5. CASE NoRead
  BY <1>0, <1>5 DEF NoRead, setting, time
<1>6. ASSUME NEW nv \in BOOLEAN, Log(nv) PROVE TypeOK'
  BY <1>0, <1>6 DEF Log, setting, time
<1>7. ASSUME NEW nv \in BOOLEAN, ReadAll(nv) PROVE TypeOK'
  BY <1>0, <1>7 DEF ReadAll, Acquired, setting, time, Busy
<1>8. ASSUME NEW c \in Configs, Reconf(c) PROVE TypeOK'
  <2>1. c.logtmp \in BOOLEAN /\ c.release \in BOOLEAN
    BY LoopAssumption DEF ConfigType
  <2>2. CASE W1_RECONF \in sigme
    <3>1. /\ logtmp' = c.logtmp /\ release' = c.release
          /\ seen' = [d \in Devs |-> clock] /\ missed' = [d \in Devs |-> 0]
          /\ sigme' \subseteq Flags
          /\ pc' \in {"show", "exit"} /\ port' \in BOOLEAN
      BY <1>8, <2>2 DEF Reconf, Acquired
    <3>2. UNCHANGED <<clock, immed, once, now, logtime, target, due, tmp, busy>>
      BY <1>8 DEF Reconf
    <3> QED
      BY <1>0, <2>1, <3>1, <3>2 DEF Busy
  <2>3. CASE W1_RECONF \notin sigme
    BY <1>0, <1>8, <2>3 DEF Reconf, Busy
  <2> QED
    BY <2>2, <2>3
<1>9. CASE Show
  BY <1>0, <1>9 DEF Show, setting, time, Busy
<1>10. CASE Arm
  BY <1>0, <1>10, NextWakeIs DEF Arm, setting, time
<1>11. CASE Wake
  BY <1>0, <1>11 DEF Wake, setting, Busy
<1>12. CASE TakeTime
  BY <1>0, <1>12 DEF TakeTime, setting
<1>13. CASE UNCHANGED vars
  BY <1>0, <1>13 DEF vars
<1> QED
  BY <1>1, <1>2, <1>3, <1>4, <1>5, <1>6, <1>7, <1>8, <1>9, <1>10, <1>11, <1>12, <1>13
     DEF Next, Main

\* The types of the main loop hold in every state, and it never sleeps past its
\* target.
THEOREM LoopTypes == Spec => []TypeOK
  BY LoopStartTyped, LoopStepTyped, LoopPlanInv, PTL DEF Spec

-----------------------------------------------------------------------------
\* A sleep ends at the first multiple of the wake-up value after it was armed;
\* --wait only skips the pass at start, before any time went by; nothing is read in
\* the future.
SleepInv ==
    /\ pc = "sleep" => /\ clock <= target /\ target <= clock + plan.delay
                       /\ Divides(plan.delay, target)
    /\ pc = "woken" => target <= clock
    /\ ~immed => pc = "top" /\ \A d \in Devs : seen[d] = clock
    /\ \A d \in Devs : seen[d] <= clock

\* The due times of a device since it was read.
Passed(d) == DueTimes(d, seen[d], clock)

\* The one due time a device may be behind that is not counted as missed: the sleep
\* has reached it, or the pass at it is about to begin.
Owed(d) ==
    \/ pc \in {"sleep", "woken"} /\ target <= clock /\ Divides(plan.intvl[d], target)
    \/ pc = "top" /\ IsDue(d)

\* No device is more due times behind than main was busy in, and the one that is
\* owed.
CountInv ==
    pc # "exit" =>
        \A d \in Devs : Passed(d) <= missed[d] + IF Owed(d) THEN 1 ELSE 0

\* SleepInv holds at the start.
LEMMA LoopStartAsleep == Init => SleepInv
<1> SUFFICES ASSUME Init PROVE SleepInv
  OBVIOUS
<1>1. TypeOK
  BY LoopStartTyped
<1>2. pc = "top" /\ seen = [d \in Devs |-> clock] /\ clock \in Nat
  BY <1>1 DEF Init, TypeOK
<1> QED
  BY <1>2 DEF SleepInv

\* Every step of the main loop keeps SleepInv.
LEMMA LoopStepAsleep ==
    TypeOK /\ TypeOK' /\ PlanInv /\ SleepInv /\ [Next]_vars => SleepInv'
<1> SUFFICES ASSUME TypeOK, TypeOK', PlanInv, SleepInv, [Next]_vars PROVE SleepInv'
  OBVIOUS
<1>0. /\ clock \in Nat /\ clock' \in Nat /\ target \in Nat /\ target' \in Nat
      /\ plan.delay \in Nat /\ plan'.delay \in Nat
      /\ seen \in [Devs -> Nat] /\ seen' \in [Devs -> Nat]
  BY DEF TypeOK, PlanTypeOK, PlanType
<1>1. CASE Work
  <2>1. clock <= clock' /\ pc # "sleep" /\ pc' = pc /\ pc # "top"
    BY <1>0, <1>1, LoopAssumption DEF Work, Busy
  <2>2. UNCHANGED <<target, plan, immed, seen>>
    BY <1>1 DEF Work, setting, planVars
  <2> QED
    BY <1>0, <2>1, <2>2 DEF SleepInv
<1>2. CASE Doze
  <2>1. clock <= clock' /\ clock' <= target /\ pc = "sleep" /\ pc' = pc
    BY <1>0, <1>2, LoopAssumption DEF Doze
  <2>2. UNCHANGED <<target, plan, immed, seen>>
    BY <1>2 DEF Doze, setting, planVars
  <2> QED
    BY <1>0, <2>1, <2>2 DEF SleepInv
<1>3. ASSUME NEW f \in Flags, Signal(f) PROVE SleepInv'
  <2>1. UNCHANGED <<clock, target, plan, immed, seen>>
    BY <1>3 DEF Signal, setting, planVars
  <2>2. pc' = pc \/ (pc = "sleep" /\ pc' = "readall")
    BY <1>3 DEF Signal
  <2> QED
    BY <2>1, <2>2 DEF SleepInv
<1>4. CASE ReadDue
  <2>1. UNCHANGED <<clock, target, plan, immed>> /\ immed /\ pc' \in {"log", "exit"}
    BY <1>4 DEF ReadDue, Acquired, setting, planVars
  <2>2. \A d \in Devs : seen'[d] <= clock
    BY <1>0, <1>4 DEF ReadDue, SleepInv
  <2> QED
    BY <2>1, <2>2 DEF SleepInv
<1>5. CASE NoRead
  <2>1. UNCHANGED <<clock, target, plan, seen>> /\ immed' /\ pc' \in {"readall", "exit"}
    BY <1>5 DEF NoRead, setting, planVars, time
  <2> QED
    BY <2>1 DEF SleepInv
<1>6. ASSUME NEW nv \in BOOLEAN, Log(nv) PROVE SleepInv'
  <2>1. /\ UNCHANGED <<clock, target, plan, immed, seen>>
        /\ pc = "log" /\ pc' \in {"readall", "exit"}
    BY <1>6 DEF Log, setting, planVars, time
  <2> QED
    BY <2>1 DEF SleepInv
<1>7. ASSUME NEW nv \in BOOLEAN, ReadAll(nv) PROVE SleepInv'
  <2>1. /\ UNCHANGED <<clock, target, plan, immed, seen>>
        /\ pc = "readall" /\ pc' \in {"reconf", "exit"}
    BY <1>7 DEF ReadAll, Acquired, setting, planVars, time
  <2> QED
    BY <2>1 DEF SleepInv
<1>8. ASSUME NEW c \in Configs, Reconf(c) PROVE SleepInv'
  <2>1. /\ UNCHANGED <<clock, target, immed>>
        /\ pc = "reconf" /\ pc' \in {"show", "exit"}
    BY <1>8 DEF Reconf, Acquired
  <2>2. \A d \in Devs : seen'[d] <= clock
    <3>1. seen' = [d \in Devs |-> clock] \/ seen' = seen
      BY <1>8 DEF Reconf
    <3> QED
      BY <1>0, <3>1 DEF SleepInv
  <2> QED
    BY <2>1, <2>2 DEF SleepInv
<1>9. CASE Show
  <2>1. UNCHANGED <<clock, target, plan, immed, seen>> /\ pc = "show" /\ pc' = "arm"
    BY <1>9 DEF Show, setting, planVars, time
  <2> QED
    BY <2>1 DEF SleepInv
<1>10. CASE Arm
  <2>1. /\ UNCHANGED <<clock, plan, immed, seen>>
        /\ pc = "arm" /\ pc' = "sleep" /\ target' = NextWake
    BY <1>10 DEF Arm, setting, planVars, time
  <2>2. clock <= target' /\ target' <= clock + plan.delay /\ Divides(plan.delay, target')
    BY <1>0, <2>1, NextWakeIs
  <2> QED
    BY <2>1, <2>2 DEF SleepInv
<1>11. CASE Wake
  <2>1. /\ UNCHANGED <<clock, target, plan, immed, seen>>
        /\ pc = "sleep" /\ pc' = "woken" /\ clock = target
    BY <1>11 DEF Wake, setting, planVars
  <2> QED
    BY <1>0, <2>1 DEF SleepInv
<1>12. CASE TakeTime
  <2>1. UNCHANGED <<clock, target, plan, immed, seen>> /\ pc = "woken" /\ pc' = "top"
    BY <1>12 DEF TakeTime, setting, planVars
  <2> QED
    BY <2>1 DEF SleepInv
<1>13. CASE UNCHANGED vars
  BY <1>13 DEF vars, planVars, SleepInv
<1> QED
  BY <1>1, <1>2, <1>3, <1>4, <1>5, <1>6, <1>7, <1>8, <1>9, <1>10, <1>11, <1>12, <1>13
     DEF Next, Main

\* No due time passes in no time.
LEMMA PassedAtOnce ==
    ASSUME PlanInv, NEW d \in Devs, NEW x \in Nat
    PROVE  DueTimes(d, x, x) = 0
<1>1. x \div plan.intvl[d] \in Nat
  BY IntervalsTyped, Division
<1> QED
  BY <1>1 DEF DueTimes

\* A count of due times is an integer.
LEMMA PassedInt ==
    ASSUME PlanInv, NEW d \in Devs, NEW x \in Nat, NEW y \in Nat
    PROVE  DueTimes(d, x, y) \in Int
<1>1. x \div plan.intvl[d] \in Nat /\ y \div plan.intvl[d] \in Nat
  BY IntervalsTyped, Division
<1> QED
  BY <1>1 DEF DueTimes

\* While main sleeps no due time passes, but for the end of the sleep if it is one.
LEMMA PassedAsleep ==
    ASSUME PlanInv, NEW d \in Devs, NEW x \in Nat, NEW y \in Nat, NEW end \in Nat,
           x <= y, y <= end, x < end, end <= x + plan.delay, Divides(plan.delay, end)
    PROVE  DueTimes(d, x, y) =
               IF y = end /\ Divides(plan.intvl[d], end) THEN 1 ELSE 0
<1>1. plan.delay \in Pos /\ plan.intvl[d] \in Pos /\ Divides(plan.delay, plan.intvl[d])
  BY IntervalsTyped
<1>2. x \div plan.intvl[d] \in Nat /\ y \div plan.intvl[d] \in Nat
  BY <1>1, Division
<1>3. CASE y < end
  BY <1>1, <1>2, <1>3, NoneBetween DEF DueTimes
<1>4. CASE y = end
  BY <1>1, <1>2, <1>4, OneAtTheEnd DEF DueTimes
<1> QED
  BY <1>3, <1>4

\* A device that has just been read is not behind.
LEMMA NothingOwed ==
    ASSUME PlanInv, NEW d \in Devs, NEW m \in Nat, seen[d] \in Nat, seen[d] = clock
    PROVE  Passed(d) <= m + IF Owed(d) THEN 1 ELSE 0
  BY PassedAtOnce DEF Passed

\* CountInv holds at the start.
LEMMA LoopStartCounted == Init => CountInv
<1> SUFFICES ASSUME Init PROVE CountInv
  OBVIOUS
<1>1. TypeOK /\ PlanInv
  BY LoopStartTyped, StartPlanned DEF Init
<1>2. \A d \in Devs : seen[d] = clock /\ seen[d] \in Nat /\ missed[d] \in Nat
  BY <1>1 DEF Init, TypeOK
<1> QED
  BY <1>1, <1>2, NothingOwed DEF CountInv

\* Every step of the main loop keeps CountInv.  Time that goes by while main is busy
\* is counted; a sleep adds the due time it ends at, which is owed until the pass; a
\* wake-up that comes late turns it into a missed one.
LEMMA LoopStepCounted ==
    TypeOK /\ TypeOK' /\ PlanInv /\ PlanInv' /\ SleepInv /\ CountInv /\ [Next]_vars
        => CountInv'
<1> SUFFICES ASSUME TypeOK, TypeOK', PlanInv, PlanInv', SleepInv, CountInv, [Next]_vars,
                    pc' # "exit", NEW d \in Devs
             PROVE  Passed(d)' <= missed'[d] + IF Owed(d)' THEN 1 ELSE 0
  BY DEF CountInv
<1>a. /\ clock \in Nat /\ clock' \in Nat /\ target \in Nat /\ target' \in Nat
      /\ seen[d] \in Nat /\ seen'[d] \in Nat /\ missed[d] \in Nat /\ missed'[d] \in Nat
  BY DEF TypeOK
<1>b. Passed(d) \in Int
  BY <1>a, PassedInt DEF Passed
<1>c. pc # "exit" => Passed(d) <= missed[d] + IF Owed(d) THEN 1 ELSE 0
  BY DEF CountInv
<1>d. ASSUME UNCHANGED <<clock, plan, seen>> PROVE Passed(d)' = Passed(d)
  BY <1>d DEF Passed, DueTimes
<1>e. pc \notin {"sleep", "woken", "top"} => ~Owed(d)
  BY DEF Owed
<1>f. /\ seen[d] \div plan.intvl[d] \in Nat /\ clock \div plan.intvl[d] \in Nat
      /\ clock' \div plan.intvl[d] \in Nat
  BY <1>a, IntervalsTyped, Division
<1>1. CASE Work
  <2>1. UNCHANGED <<pc, plan, target, seen, now>> /\ pc \in Busy /\ clock <= clock'
    BY <1>1, <1>a, LoopAssumption DEF Work, setting, planVars
  <2>2. missed'[d] = missed[d] + DueTimes(d, clock, clock')
    BY <1>1 DEF Work
  <2>3. /\ Passed(d)' = Passed(d) + DueTimes(d, clock, clock')
        /\ DueTimes(d, clock, clock') \in Int
    BY <1>f, <2>1 DEF Passed, DueTimes
  <2>4. Owed(d) => Owed(d)'
    BY <1>a, <2>1 DEF Owed, Busy, SleepInv
  <2>5. pc # "exit"
    BY <2>1 DEF Busy
  <2> QED
    BY <1>a, <1>b, <1>c, <2>2, <2>3, <2>4, <2>5
<1>2. CASE Doze
  <2>1. /\ UNCHANGED <<pc, plan, target, seen, missed>> /\ pc = "sleep"
        /\ clock < target /\ clock <= clock' /\ clock' <= target
    BY <1>2, <1>a, LoopAssumption DEF Doze, setting, planVars
  <2>2. ~Owed(d)
    BY <1>a, <2>1 DEF Owed
  <2>3. Owed(d)' <=> clock' = target /\ Divides(plan.intvl[d], target)
    BY <1>a, <2>1 DEF Owed
  <2>4. target <= clock + plan.delay /\ Divides(plan.delay, target)
    BY <2>1 DEF SleepInv
  <2>5. DueTimes(d, clock, clock') = IF Owed(d)' THEN 1 ELSE 0
    BY <1>a, <2>1, <2>3, <2>4, PassedAsleep
  <2>6. Passed(d)' = Passed(d) + DueTimes(d, clock, clock')
    BY <1>f, <2>1 DEF Passed, DueTimes
  <2> QED
    BY <1>a, <1>b, <1>c, <2>1, <2>2, <2>5, <2>6
<1>3. ASSUME NEW f \in Flags, Signal(f)
      PROVE  Passed(d)' <= missed'[d] + IF Owed(d)' THEN 1 ELSE 0
  <2>1. UNCHANGED <<clock, plan, seen, missed, target, now>> /\ pc # "exit"
    BY <1>3 DEF Signal, setting, planVars
  <2>2. pc' = pc \/ (pc = "sleep" /\ clock < target)
    BY <1>3 DEF Signal
  <2>3. Owed(d) => Owed(d)'
    BY <1>a, <2>1, <2>2 DEF Owed, IsDue
  <2> QED
    BY <1>a, <1>b, <1>c, <1>d, <2>1, <2>3
<1>4. CASE ReadDue
  <2>1. UNCHANGED <<clock, plan>> /\ pc = "top" /\ due' = {x \in Devs : IsDue(x)}
    BY <1>4 DEF ReadDue, setting, planVars
  <2>2. /\ seen'[d] = IF d \in due' THEN clock ELSE seen[d]
        /\ missed'[d] = IF d \in due' THEN 0 ELSE missed[d]
    BY <1>4 DEF ReadDue
  <2>3. CASE IsDue(d)
    <3>1. Passed(d)' = DueTimes(d, clock, clock)
      BY <2>1, <2>2, <2>3 DEF Passed, DueTimes
    <3> QED
      BY <1>a, <3>1, PassedAtOnce
  <2>4. CASE ~IsDue(d)
    <3>1. ~Owed(d) /\ seen'[d] = seen[d] /\ missed'[d] = missed[d]
      BY <2>1, <2>2, <2>4 DEF Owed
    <3>2. Passed(d)' = Passed(d)
      BY <2>1, <3>1 DEF Passed, DueTimes
    <3> QED
      BY <1>a, <1>b, <1>c, <2>1, <3>1, <3>2
  <2> QED
    BY <2>3, <2>4
<1>5. CASE NoRead
  <2>1. UNCHANGED <<clock, plan, seen, missed>> /\ ~immed
    BY <1>5 DEF NoRead, setting, planVars, time
  <2>2. Passed(d) = 0
    BY <1>a, <2>1, PassedAtOnce DEF SleepInv, Passed
  <2> QED
    BY <1>a, <1>d, <2>1, <2>2
<1>6. ASSUME NEW nv \in BOOLEAN, Log(nv)
      PROVE  Passed(d)' <= missed'[d] + IF Owed(d)' THEN 1 ELSE 0
  <2>1. UNCHANGED <<clock, plan, seen, missed>> /\ pc = "log"
    BY <1>6 DEF Log, setting, planVars, time
  <2> QED
    BY <1>a, <1>b, <1>c, <1>d, <1>e, <2>1
<1>7. ASSUME NEW nv \in BOOLEAN, ReadAll(nv)
      PROVE  Passed(d)' <= missed'[d] + IF Owed(d)' THEN 1 ELSE 0
  <2>1. UNCHANGED <<clock, plan, seen, missed>> /\ pc = "readall"
    BY <1>7 DEF ReadAll, setting, planVars, time
  <2> QED
    BY <1>a, <1>b, <1>c, <1>d, <1>e, <2>1
<1>8. ASSUME NEW c \in Configs, Reconf(c)
      PROVE  Passed(d)' <= missed'[d] + IF Owed(d)' THEN 1 ELSE 0
  <2>1. clock' = clock /\ pc = "reconf"
    BY <1>8 DEF Reconf
  <2>2. CASE W1_RECONF \in sigme
    <3>1. seen'[d] = clock
      BY <1>8, <2>2 DEF Reconf
    <3>2. plan'.intvl[d] \in Pos
      BY DEF TypeOK, PlanTypeOK, PlanType, Pos
    <3>3. Passed(d)' = 0
      <4>1. clock \div plan'.intvl[d] \in Nat
        BY <1>a, <3>2, Division
      <4> QED
        BY <2>1, <3>1, <4>1 DEF Passed, DueTimes
    <3> QED
      BY <1>a, <3>3
  <2>3. CASE W1_RECONF \notin sigme
    <3>1. UNCHANGED <<plan, seen, missed>>
      BY <1>8, <2>3 DEF Reconf, planVars
    <3> QED
      BY <1>a, <1>b, <1>c, <1>d, <1>e, <2>1, <3>1
  <2> QED
    BY <2>2, <2>3
<1>9. CASE Show \/ Arm
  <2>1. UNCHANGED <<clock, plan, seen, missed>> /\ pc \in {"show", "arm"}
    BY <1>9 DEF Show, Arm, setting, planVars, time
  <2> QED
    BY <1>a, <1>b, <1>c, <1>d, <1>e, <2>1
<1>10. CASE Wake
  <2>1. /\ UNCHANGED <<clock, plan, seen, missed, target>>
        /\ pc = "sleep" /\ pc' = "woken"
    BY <1>10 DEF Wake, setting, planVars
  <2>2. Owed(d)' <=> Owed(d)
    BY <2>1 DEF Owed
  <2> QED
    BY <1>a, <1>b, <1>c, <1>d, <2>1, <2>2
<1>11. CASE TakeTime
  <2>1. /\ UNCHANGED <<clock, plan, seen, target>>
        /\ pc = "woken" /\ pc' = "top" /\ now' = clock
    BY <1>11 DEF TakeTime, setting, planVars
  <2>2. missed'[d] = IF clock # target /\ Divides(plan.intvl[d], target)
                     THEN missed[d] + 1 ELSE missed[d]
    BY <1>11 DEF TakeTime, Divides
  <2>3. Owed(d) => Divides(plan.intvl[d], target)
    BY <2>1 DEF Owed
  <2>4. clock = target /\ Divides(plan.intvl[d], target) => Owed(d)'
    BY <2>1 DEF Owed, IsDue, Divides
  <2> QED
    BY <1>a, <1>b, <1>c, <1>d, <2>1, <2>2, <2>3, <2>4
<1>12. CASE UNCHANGED vars
  <2>1. UNCHANGED <<clock, plan, seen, missed, target, pc, now>>
    BY <1>12 DEF vars, planVars
  <2>2. Owed(d)' <=> Owed(d)
    BY <2>1 DEF Owed, IsDue
  <2> QED
    BY <1>a, <1>b, <1>c, <1>d, <2>1, <2>2
<1> QED
  BY <1>1, <1>2, <1>3, <1>4, <1>5, <1>6, <1>7, <1>8, <1>9, <1>10, <1>11, <1>12
     DEF Next, Main

\* The inductive invariant of the main loop.
LoopInv == TypeOK /\ PlanInv /\ SleepInv /\ CountInv

\* The invariant of the main loop holds in every state.
THEOREM LoopInvariant == Spec => []LoopInv
<1>1. Init => LoopInv
  BY LoopStartTyped, StartPlanned, LoopStartAsleep, LoopStartCounted DEF Init, LoopInv
<1>2. LoopInv /\ PlanInv' /\ [Next]_vars => LoopInv'
  BY LoopStepTyped, LoopStepAsleep, LoopStepCounted DEF LoopInv
<1> QED
  BY <1>1, <1>2, LoopPlanInv, PTL DEF Spec

\* While main sleeps, the count bounds the age of a reading.
LEMMA LoopInvBoundsAge == LoopInv => AgeBounded
<1> SUFFICES ASSUME LoopInv, pc = "sleep", NEW d \in Devs
             PROVE  clock - seen[d] <= (1 + missed[d]) * plan.intvl[d]
  BY DEF AgeBounded
<1>1. /\ clock \in Nat /\ target \in Nat /\ seen[d] \in Nat /\ missed[d] \in Nat
      /\ plan.intvl[d] \in Pos
  BY IntervalsTyped DEF LoopInv, TypeOK
<1>2. Owed(d) => Divides(plan.intvl[d], clock)
  BY <1>1 DEF LoopInv, SleepInv, Owed
<1>3. Passed(d) <= missed[d] + IF Owed(d) THEN 1 ELSE 0
  BY DEF LoopInv, CountInv
<1>4. Passed(d) \in Int
  BY <1>1, PassedInt DEF LoopInv, Passed
<1>5. Passed(d) <= missed[d] + IF Divides(plan.intvl[d], clock) THEN 1 ELSE 0
  BY <1>1, <1>2, <1>3, <1>4
<1> QED
  BY <1>1, <1>5, AgeOfCount DEF Passed, DueTimes

\* While main sleeps, no reading of a device is older than its interval, but for
\* the due times that passed while main was busy: sleeping to the next multiple of
\* the wake-up value (w1retap.c, before clock_nanosleep) skips no due time, over
\* any reloads, signals and late wake-ups.
THEOREM LoopAges == Spec => []AgeBounded
  BY LoopInvariant, LoopInvBoundsAge, PTL

-----------------------------------------------------------------------------
\* The pass under way reads the devices that are due at its wake-up, and the log
\* file in /tmp is of all devices or has not been written.
TmpInv ==
    /\ tmp \in {{}, Devs}
    /\ pc = "log" => due = {d \in Devs : IsDue(d)}

\* The product of the intervals fits in an int, so that w1_lcm finds the cycle.
ProductFits == TrueProduct(plan.intvl) <= IntMax

\* At a multiple of the cycle, and at start, every device is due.
LEMMA CycleMeetsAll ==
    ASSUME PlanInv, ProductFits, TypeOK, AtCycle
    PROVE  {d \in Devs : IsDue(d)} = Devs
<1>1. /\ plan.intvl \in [Devs -> Pos] /\ DOMAIN plan.intvl = Devs /\ now \in Nat
  BY IntervalsTyped DEF TypeOK
<1>2. plan.cycle \in Pos /\ Common(plan.cycle, plan.intvl)
  <2>1. LowestCommon(plan.cycle, plan.intvl) \/ TrueProduct(plan.intvl) > IntMax
    BY PlanInvGives
  <2>2. TrueProduct(plan.intvl) \in Int /\ IntMax \in Nat
    BY <1>1, PlanAssumption, WordAssumption, Products DEF Pos
  <2> QED
    BY <2>1, <2>2 DEF LowestCommon, ProductFits, Pos
<1>3. Divides(plan.cycle, now)
  BY <1>2 DEF AtCycle, Divides, Pos
<1>4. ASSUME NEW d \in Devs PROVE IsDue(d)
  <2>1. plan.intvl[d] \in Pos /\ Divides(plan.intvl[d], plan.cycle)
    BY <1>1, <1>2 DEF Common
  <2>2. Divides(plan.intvl[d], now)
    BY <1>1, <1>2, <1>3, <2>1, DividesTransitive DEF Pos
  <2> QED
    BY <2>2 DEF IsDue, Divides
<1> QED
  BY <1>4

\* As long as the product fits, every step keeps TmpInv.
LEMMA LoopStepLogged ==
    PlanInv /\ TypeOK /\ ProductFits /\ TmpInv /\ [Next]_vars => TmpInv'
<1> SUFFICES ASSUME PlanInv, TypeOK, ProductFits, TmpInv, [Next]_vars PROVE TmpInv'
  OBVIOUS
<1>1. ASSUME UNCHANGED <<now, plan, due, tmp>>, pc' = "log" => pc = "log"
      PROVE  TmpInv'
  BY <1>1 DEF TmpInv, IsDue
<1>2. CASE NoRead \/ Show \/ Arm \/ Wake \/ Work \/ Doze
  BY <1>1, <1>2 DEF NoRead, Show, Arm, Wake, Work, Doze, setting, planVars
<1>3. ASSUME NEW f \in Flags, Signal(f) PROVE TmpInv'
  BY <1>1, <1>3 DEF Signal, setting, planVars
<1>4. CASE ReadDue
  <2>1. due' = {d \in Devs : IsDue(d)} /\ UNCHANGED <<now, plan, tmp>>
    BY <1>4 DEF ReadDue, setting, planVars
  <2> QED
    BY <2>1 DEF TmpInv, IsDue
<1>5. ASSUME NEW nv \in BOOLEAN, Log(nv) PROVE TmpInv'
  <2>1. tmp' = tmp \/ (AtCycle /\ tmp' = due)
    BY <1>5 DEF Log
  <2>2. pc = "log" /\ pc' \in {"readall", "exit"}
    BY <1>5 DEF Log
  <2> QED
    BY <2>1, <2>2, CycleMeetsAll DEF TmpInv
<1>6. ASSUME NEW nv \in BOOLEAN, ReadAll(nv) PROVE TmpInv'
  <2>1. tmp' \in {tmp, Devs} /\ pc' \in {"reconf", "exit"}
    BY <1>6 DEF ReadAll, Acquired
  <2> QED
    BY <2>1 DEF TmpInv
<1>7. ASSUME NEW c \in Configs, Reconf(c) PROVE TmpInv'
  <2>1. tmp' = tmp /\ pc' \in {"show", "exit"}
    BY <1>7 DEF Reconf, Acquired
  <2> QED
    BY <2>1 DEF TmpInv
<1>8. CASE TakeTime
  <2>1. tmp' = tmp /\ pc' = "top"
    BY <1>8 DEF TakeTime
  <2> QED
    BY <2>1 DEF TmpInv
<1>9. CASE UNCHANGED vars
  BY <1>1, <1>9 DEF vars, planVars
<1> QED
  BY <1>2, <1>3, <1>4, <1>5, <1>6, <1>7, <1>8, <1>9 DEF Next, Main

\* The log file in /tmp is written when all sensors are read and only then, as long
\* as the product of the intervals fits in an int.  Without that the cycle may be -1
\* and every pass writes the file.
THEOREM LoopLogs == Spec /\ []ProductFits => []TmpComplete
<1>1. Init => TmpInv
  BY DEF Init, TmpInv
<1>2. TmpInv => TmpComplete
  BY DEF TmpInv, TmpComplete
<1> QED
  BY <1>1, <1>2, LoopStepLogged, LoopTypes, LoopPlanInv, PTL DEF Spec


\* At a multiple of the cycle every device is due, as the documentation of the log
\* file in /tmp has it, after any number of reloads in which the product of the
\* intervals fits in an int (w1_lcm).
THEOREM CycleIsOfAll == PlanSpec /\ []ProductFits => []CycleReadsAll
<1>1. ASSUME PlanInv, ProductFits PROVE CycleReadsAll
  <2>1. plan.intvl \in [Devs -> Pos]
    BY <1>1, IntervalsTyped
  <2>2. TrueProduct(plan.intvl) \in Int /\ IntMax \in Nat
    BY <2>1, PlanAssumption, WordAssumption, Products DEF Pos
  <2>3. LowestCommon(plan.cycle, plan.intvl)
    BY <1>1, <2>2, PlanInvGives DEF ProductFits
  <2> QED
    BY <2>3 DEF LowestCommon, CycleReadsAll, Pos
<1> QED
  BY <1>1, PlanInvariant, PTL

-----------------------------------------------------------------------------
\* The last log time is past, and a sleep ends after it.
LogTimeInv ==
    /\ logtime <= clock
    /\ pc = "sleep" => logtime < target
    /\ pc = "woken" => logtime < clock

\* At start the log time is the clock.
LEMMA LogTimeStart == TypeOK /\ Init => LogTimeInv
  BY DEF Init, TypeOK, LogTimeInv

\* Every step keeps LogTimeInv: a sleep is armed to end after the clock, and main
\* takes the time after it has ended.
LEMMA LogTimeStep ==
    TypeOK /\ TypeOK' /\ PlanInv /\ LogTimeInv /\ [Next]_vars => LogTimeInv'
<1> SUFFICES ASSUME TypeOK, TypeOK', PlanInv, LogTimeInv, [Next]_vars
             PROVE  LogTimeInv'
  OBVIOUS
<1>0. /\ clock \in Nat /\ clock' \in Nat /\ logtime \in Nat /\ logtime' \in Nat
      /\ target \in Nat /\ target' \in Nat
  BY DEF TypeOK
<1>1. ASSUME UNCHANGED <<clock, logtime>>,
             pc' \notin {"sleep", "woken"} \/ UNCHANGED <<pc, target>>
      PROVE  LogTimeInv'
  BY <1>1 DEF LogTimeInv
<1>2. CASE Work
  <2>1. UNCHANGED <<pc, logtime>> /\ clock < clock' /\ pc # "sleep"
    BY <1>0, <1>2, LoopAssumption DEF Work, Busy
  <2> QED
    BY <1>0, <2>1 DEF LogTimeInv
<1>3. CASE Doze
  <2>1. UNCHANGED <<pc, logtime, target>> /\ clock < clock' /\ pc = "sleep"
    BY <1>0, <1>3, LoopAssumption DEF Doze
  <2> QED
    BY <1>0, <2>1 DEF LogTimeInv
<1>4. ASSUME NEW f \in Flags, Signal(f) PROVE LogTimeInv'
  <2>1. UNCHANGED <<clock, logtime, target>> /\ pc' \in {pc, "readall"}
    BY <1>4 DEF Signal
  <2> QED
    BY <1>1, <2>1
<1>5. CASE ReadDue
  <2>1. UNCHANGED <<clock, logtime>> /\ pc' \in {"log", "exit"}
    BY <1>5 DEF ReadDue, Acquired
  <2> QED
    BY <1>1, <2>1
<1>6. CASE NoRead
  <2>1. UNCHANGED <<clock, logtime>> /\ pc' \in {"readall", "exit"}
    BY <1>6 DEF NoRead, time
  <2> QED
    BY <1>1, <2>1
<1>7. ASSUME NEW nv \in BOOLEAN, Log(nv) PROVE LogTimeInv'
  <2>1. UNCHANGED <<clock, logtime>> /\ pc' \in {"readall", "exit"}
    BY <1>7 DEF Log, time
  <2> QED
    BY <1>1, <2>1
<1>8. ASSUME NEW nv \in BOOLEAN, ReadAll(nv) PROVE LogTimeInv'
  <2>1. UNCHANGED <<clock, logtime>> /\ pc' \in {"reconf", "exit"}
    BY <1>8 DEF ReadAll, Acquired, time
  <2> QED
    BY <1>1, <2>1
<1>9. ASSUME NEW c \in Configs, Reconf(c) PROVE LogTimeInv'
  <2>1. UNCHANGED <<clock, logtime>> /\ pc' \in {"show", "exit"}
    BY <1>9 DEF Reconf, Acquired
  <2> QED
    BY <1>1, <2>1
<1>10. CASE Show
  <2>1. UNCHANGED <<clock, logtime>> /\ pc' = "arm"
    BY <1>10 DEF Show, time
  <2> QED
    BY <1>1, <2>1
<1>11. CASE Arm
  <2>1. UNCHANGED <<clock, logtime>> /\ pc' = "sleep" /\ target' = NextWake
    BY <1>11 DEF Arm, time
  <2>2. clock < target'
    BY <1>0, <2>1, NextWakeIs
  <2> QED
    BY <1>0, <2>1, <2>2 DEF LogTimeInv
<1>12. CASE Wake
  <2>1. UNCHANGED <<clock, logtime>> /\ pc = "sleep" /\ pc' = "woken" /\ clock = target
    BY <1>12 DEF Wake
  <2> QED
    BY <1>0, <2>1 DEF LogTimeInv
<1>13. CASE TakeTime
  <2>1. clock' = clock /\ logtime' = clock /\ pc' = "top"
    BY <1>13 DEF TakeTime
  <2> QED
    BY <1>0, <2>1 DEF LogTimeInv
<1>14. CASE UNCHANGED vars
  BY <1>1, <1>14 DEF vars
<1> QED
  BY <1>2, <1>3, <1>4, <1>5, <1>6, <1>7, <1>8, <1>9, <1>10, <1>11, <1>12, <1>13, <1>14
     DEF Next, Main

\* The action of LogTimesGrow.
LaterLogTime ==
    /\ logtime' >= logtime
    /\ pc # "top" /\ pc' = "top" => logtime' > logtime

\* Only main's taking the time after a sleep leads to another pass.
LEMMA LogTimeMoves == TypeOK /\ LogTimeInv /\ [Next]_vars => LaterLogTime
<1> SUFFICES ASSUME TypeOK, LogTimeInv, [Next]_vars PROVE LaterLogTime
  OBVIOUS
<1>0. clock \in Nat /\ logtime \in Nat
  BY DEF TypeOK
<1>1. CASE TakeTime
  <2>1. logtime' = clock /\ pc = "woken"
    BY <1>1 DEF TakeTime
  <2> QED
    BY <1>0, <2>1 DEF LogTimeInv, LaterLogTime
<1>2. CASE ~TakeTime
  <2>1. logtime' = logtime
    BY <1>2 DEF Next, Main, vars, Work, Doze, Signal, ReadDue, NoRead, Show, Arm, Wake,
       Log, ReadAll, Reconf
  <2>2. CASE Work \/ Doze \/ UNCHANGED vars
    <3>1. pc' = pc
      BY <2>2 DEF Work, Doze, vars
    <3> QED
      BY <1>0, <2>1, <3>1 DEF LaterLogTime
  <2>3. CASE \E f \in Flags : Signal(f)
    <3>1. pc' \in {pc, "readall"}
      BY <2>3 DEF Signal
    <3> QED
      BY <1>0, <2>1, <3>1 DEF LaterLogTime
  <2>4. CASE Main
    <3>1. pc' \in {"log", "exit", "readall", "reconf", "show", "arm", "sleep", "woken"}
      BY <1>2, <2>4 DEF Main, ReadDue, NoRead, Show, Arm, Wake, Log, ReadAll, Reconf,
         Acquired
    <3> QED
      BY <1>0, <2>1, <3>1 DEF LaterLogTime
  <2> QED
    BY <2>2, <2>3, <2>4 DEF Next
<1> QED
  BY <1>1, <1>2

\* Every pass for the loggers has a log time later than any before, over any signals,
\* reloads, interrupted sleeps and late wake-ups (w1retap.c, clock_nanosleep to the
\* next multiple of the delay and gettimeofday after it).
THEOREM LogTimesAreNew == Spec => LogTimesGrow
<1>1. Spec => []LogTimeInv
  BY LogTimeStart, LogTimeStep, LoopTypes, LoopPlanInv, PTL DEF Spec
<1>2. TypeOK /\ LogTimeInv /\ [Next]_vars => [LaterLogTime]_vars
  BY LogTimeMoves
<1>3. Spec => [][LaterLogTime]_vars
  BY <1>1, <1>2, LoopTypes, PTL DEF Spec
<1> QED
  BY <1>3 DEF LogTimesGrow, LaterLogTime
=============================================================================
