-------------------------- MODULE ArithmeticProofs --------------------------
(***************************************************************************)
(* Calls on numbers give the right answer, for integers of any width, any  *)
(* numbers and whatever the compiler knows of them, as long as the calls   *)
(* of Mishandled are not made (Defects = FALSE).                           *)
(*                                                                         *)
(* The proof goes up with the code: gcd and fractions; what an operation   *)
(* on the heap consumes; each overload and its conversions; packed words;  *)
(* the choice of the overload and the folding of constants; the program.   *)
(***************************************************************************)
EXTENDS Arithmetic, FiniteSetTheorems, NaturalsInduction, WellFoundedInduction, TLAPS

(***************************************************************************)
(* Euclid's algorithm.  The recursion of gcd ends, because the second      *)
(* number shrinks, so there is a function that satisfies it.  Induction is *)
(* by the smallest counterexample.                                         *)
(***************************************************************************)
LessNat == {p \in Nat \X Nat : p[1] < p[2]}

(* A set of natural numbers has a smallest element.                        *)
LEMMA SmallestOf ==
  ASSUME NEW T \in SUBSET Nat, T # {}
  PROVE  \E n \in T : \A m \in T : n <= m
<1>1. OpToRel(<, Nat) = LessNat
  BY Zenon DEF OpToRel, LessNat
<1>2. PICK n \in T : \A m \in T : ~(<<m, n>> \in LessNat)
  BY <1>1, NatLessThanWellFounded, WFMin
<1>3. ASSUME NEW m \in T
      PROVE  n <= m
  <2>1. <<m, n>> \in Nat \X Nat /\ ~(<<m, n>> \in LessNat)
    BY <1>2
  <2>2. ~(<<m, n>>[1] < <<m, n>>[2])
    BY <2>1 DEF LessNat
  <2>. QED  BY <2>2
<1>. QED  BY <1>3

Pairs == Int \X Int

(* One turn of the loop of gcd.                                            *)
Euclid(f, p) == IF p[2] = 0 THEN p[1] ELSE f[<<p[2], CRem(p[1], p[2])>>]

(* f computes what gcd does as long as the second number is below n.       *)
Solves(f, n) ==
  /\ f \in [Pairs -> Int]
  /\ \A p \in Pairs : Abs(p[2]) < n => f[p] = Euclid(f, p)

(* The remainder is closer to zero than the divisor.                       *)
LEMMA RemLess ==
  ASSUME NEW a \in Int, NEW b \in Int, b # 0
  PROVE  /\ CRem(a, b) \in Int
         /\ Abs(CRem(a, b)) < Abs(b)
         /\ a >= 0 => CRem(a, b) >= 0
<1>1. Abs(a) \in Nat /\ Abs(b) \in Nat /\ Abs(b) > 0
  BY DEF Abs
<1>2. Abs(a) % Abs(b) \in 0 .. Abs(b) - 1
  BY <1>1
<1>. QED  BY <1>1, <1>2 DEF CRem, Sign, Abs

LEMMA EuclidType ==
  ASSUME NEW f \in [Pairs -> Int], NEW p \in Pairs
  PROVE  /\ Euclid(f, p) \in Int
         /\ p[2] # 0 => /\ <<p[2], CRem(p[1], p[2])>> \in Pairs
                        /\ Abs(<<p[2], CRem(p[1], p[2])>>[2]) < Abs(p[2])
<1>1. p[1] \in Int /\ p[2] \in Int
  BY DEF Pairs
<1>2. p[2] # 0 => /\ <<p[2], CRem(p[1], p[2])>> \in Pairs
                  /\ Abs(<<p[2], CRem(p[1], p[2])>>[2]) < Abs(p[2])
  BY <1>1, RemLess DEF Pairs
<1>. QED  BY <1>1, <1>2 DEF Euclid

LEMMA SolutionsExtend ==
  ASSUME NEW n \in Nat, NEW f, Solves(f, n)
  PROVE  Solves([p \in Pairs |-> Euclid(f, p)], n + 1)
<1>. DEFINE g == [p \in Pairs |-> Euclid(f, p)]
<1>1. f \in [Pairs -> Int] /\ \A p \in Pairs : Abs(p[2]) < n => f[p] = Euclid(f, p)
  BY DEF Solves
<1>2. g \in [Pairs -> Int]
  BY <1>1, EuclidType
<1>3. ASSUME NEW p \in Pairs, Abs(p[2]) < n + 1
      PROVE  g[p] = Euclid(g, p)
  <2>. DEFINE q == <<p[2], CRem(p[1], p[2])>>
  <2>1. g[p] = Euclid(f, p)
    OBVIOUS
  <2>2. CASE p[2] = 0
    BY <2>1, <2>2 DEF Euclid
  <2>3. CASE p[2] # 0
    <3>1. q \in Pairs /\ Abs(q[2]) < Abs(p[2])
      BY <2>3, <1>1, EuclidType
    <3>2. p[2] \in Int /\ q[2] \in Int
      BY <3>1 DEF Pairs
    <3>3. Abs(q[2]) < n
      BY <3>1, <3>2, <1>3 DEF Abs
    <3>4. f[q] = Euclid(f, q) /\ g[q] = Euclid(f, q)
      BY <3>1, <3>3, <1>1
    <3>. QED  BY <2>1, <2>3, <3>4 DEF Euclid
  <2>. QED  BY <2>2, <2>3
<1>. QED  BY <1>2, <1>3 DEF Solves

LEMMA SolutionsExist ==
  ASSUME NEW n \in Nat
  PROVE  \E f : Solves(f, n)
<1>. DEFINE T == {k \in Nat : ~\E f : Solves(f, k)}
<1>1. CASE T = {}
  BY <1>1
<1>2. CASE T # {}
  <2>1. PICK k \in T : \A m \in T : k <= m
    BY <1>2, SmallestOf
  <2>2. Solves([p \in Pairs |-> 0], 0)
    BY DEF Solves, Pairs, Abs
  <2>3. k # 0 /\ k - 1 \in Nat /\ k - 1 \notin T
    BY <2>1, <2>2
  <2>4. PICK f : Solves(f, k - 1)
    BY <2>3
  <2>5. \E g : Solves(g, (k - 1) + 1)
    BY <2>3, <2>4, SolutionsExtend
  <2>. QED  BY <2>1, <2>5
<1>. QED  BY <1>1, <1>2

LEMMA SolutionsAgree ==
  ASSUME NEW m \in Nat, NEW n \in Nat, NEW f, NEW g, Solves(f, m), Solves(g, n),
         NEW p \in Pairs, Abs(p[2]) < m, Abs(p[2]) < n
  PROVE  f[p] = g[p]
<1>. DEFINE T == {k \in Nat : \E q \in Pairs : /\ k = Abs(q[2]) /\ k < m /\ k < n
                                               /\ f[q] # g[q]}
<1>0. SUFFICES T = {}
  <2>1. Abs(p[2]) \in Nat
    BY DEF Pairs, Abs
  <2>. QED  BY <2>1
<1>. SUFFICES ASSUME T # {} PROVE FALSE
  OBVIOUS
<1>1. PICK k \in T : \A j \in T : k <= j
  BY SmallestOf
<1>2. PICK q \in Pairs : k = Abs(q[2]) /\ k < m /\ k < n /\ f[q] # g[q]
  BY <1>1
<1>3. f[q] = Euclid(f, q) /\ g[q] = Euclid(g, q) /\ f \in [Pairs -> Int]
  BY <1>2 DEF Solves
<1>. DEFINE r == <<q[2], CRem(q[1], q[2])>>
<1>4. q[2] # 0 /\ f[r] # g[r]
  BY <1>2, <1>3 DEF Euclid
<1>5. r \in Pairs /\ Abs(r[2]) < k
  BY <1>2, <1>3, <1>4, EuclidType
<1>6. Abs(r[2]) \in Nat
  BY <1>5 DEF Pairs, Abs
<1>7. Abs(r[2]) \in T
  BY <1>2, <1>4, <1>5, <1>6
<1>. QED  BY <1>1, <1>5, <1>6, <1>7

(* gcd satisfies its recursion.                                            *)
LEMMA GcdUnfolds ==
  /\ gcd \in [Pairs -> Int]
  /\ \A p \in Pairs : gcd[p] = Euclid(gcd, p)
<1>. DEFINE S(k) == CHOOSE f : Solves(f, k)
            F == [p \in Pairs |-> S(Abs(p[2]) + 1)[p]]
<1>1. ASSUME NEW k \in Nat  PROVE  Solves(S(k), k)
  BY SolutionsExist
<1>. HIDE DEF S
<1>2. ASSUME NEW p \in Pairs
      PROVE  /\ Abs(p[2]) \in Nat
             /\ Solves(S(Abs(p[2]) + 1), Abs(p[2]) + 1)
  <2>1. Abs(p[2]) \in Nat
    BY DEF Pairs, Abs
  <2>. QED  BY <1>1, <2>1
<1>3. F \in [Pairs -> Int]
  BY <1>2 DEF Solves
<1>4. ASSUME NEW p \in Pairs
      PROVE  F[p] = Euclid(F, p)
  <2>. DEFINE f == S(Abs(p[2]) + 1)
              q == <<p[2], CRem(p[1], p[2])>>
  <2>1. f \in [Pairs -> Int] /\ F[p] = f[p] /\ f[p] = Euclid(f, p)
    BY <1>2 DEF Solves
  <2>2. CASE p[2] = 0
    BY <2>1, <2>2 DEF Euclid
  <2>3. CASE p[2] # 0
    <3>1. q \in Pairs /\ Abs(q[2]) < Abs(p[2])
      BY <2>1, <2>3, EuclidType
    <3>2. Abs(q[2]) \in Nat /\ Abs(p[2]) \in Nat
      BY <3>1, <1>2
    <3>3. Solves(S(Abs(q[2]) + 1), Abs(q[2]) + 1) /\ Solves(f, Abs(p[2]) + 1)
      BY <3>1, <1>2
    <3>4. /\ Abs(q[2]) + 1 \in Nat /\ Abs(p[2]) + 1 \in Nat
          /\ Abs(q[2]) < Abs(q[2]) + 1 /\ Abs(q[2]) < Abs(p[2]) + 1
      BY <3>1, <3>2
    <3>5. S(Abs(q[2]) + 1)[q] = f[q]
      <4>. HIDE DEF f, q
      <4>. QED  BY <3>1, <3>3, <3>4, SolutionsAgree
    <3>. QED  BY <2>1, <2>3, <3>1, <3>5 DEF Euclid
  <2>. QED  BY <2>2, <2>3
<1>. HIDE DEF F
<1>5. \E f : f = [p \in Pairs |-> IF p[2] = 0 THEN p[1] ELSE f[<<p[2], CRem(p[1], p[2])>>]]
  <2>1. F = [p \in Pairs |-> IF p[2] = 0 THEN p[1] ELSE F[<<p[2], CRem(p[1], p[2])>>]]
    BY <1>3, <1>4 DEF Euclid
  <2>. QED  BY <2>1
<1>6. gcd = [p \in Pairs |-> IF p[2] = 0 THEN p[1] ELSE gcd[<<p[2], CRem(p[1], p[2])>>]]
  BY <1>5 DEF gcd, Pairs
<1>7. \A p \in Pairs : gcd[p] = Euclid(gcd, p)
  BY <1>6 DEF Euclid
<1>. DEFINE T == {k \in Nat : \E p \in Pairs : k = Abs(p[2]) /\ gcd[p] \notin Int}
<1>8. T = {}
  <2>. SUFFICES ASSUME T # {} PROVE FALSE
    OBVIOUS
  <2>1. PICK k \in T : \A j \in T : k <= j
    BY SmallestOf
  <2>2. PICK p \in Pairs : k = Abs(p[2]) /\ gcd[p] \notin Int
    BY <2>1
  <2>. DEFINE q == <<p[2], CRem(p[1], p[2])>>
  <2>3. p[2] # 0 /\ gcd[q] \notin Int
    BY <2>2, <1>7 DEF Euclid, Pairs
  <2>4. q \in Pairs /\ Abs(q[2]) < k
    BY <2>2, <2>3, <1>3, EuclidType
  <2>5. Abs(q[2]) \in Nat
    BY <2>4 DEF Pairs, Abs
  <2>. QED  BY <2>1, <2>3, <2>4, <2>5
<1>9. ASSUME NEW p \in Pairs  PROVE  gcd[p] \in Int
  BY <1>2, <1>8
<1>10. gcd = [p \in Pairs |-> gcd[p]]
  BY <1>6
<1>. QED  BY <1>7, <1>9, <1>10

Divides(d, n) == \E k \in Int : n = k * d

(* The result of gcd is a common divisor of the two numbers that every     *)
(* other one divides; its sign is the program's own affair.                *)
GcdRight(p) ==
  /\ Divides(gcd[p], p[1]) /\ Divides(gcd[p], p[2])
  /\ \A d \in Int : Divides(d, p[1]) /\ Divides(d, p[2]) => Divides(d, gcd[p])
  /\ p[1] >= 0 /\ p[2] >= 0 => gcd[p] >= 0

LEMMA DivMod ==
  ASSUME NEW m \in Int, NEW n \in Int, n > 0
  PROVE  m \div n \in Int /\ m % n \in 0 .. n - 1 /\ m = (m \div n) * n + (m % n)
<1>1. m = (m \div n) * n + (m % n)
  OBVIOUS
<1>. QED  BY <1>1

LEMMA Distribute ==
  ASSUME NEW x \in Int, NEW y \in Int, NEW z \in Int
  PROVE  x * (y + z) = x * y + x * z
OBVIOUS

LEMMA DivisionWithRest ==
  ASSUME NEW a \in Int, NEW b \in Int, b # 0
  PROVE  CDiv(a, b) \in Int /\ a = CDiv(a, b) * b + CRem(a, b)
<1>. DEFINE m == Abs(a)
            n == Abs(b)
            t == m \div n
            r == m % n
<1>1. m \in Int /\ n \in Int /\ n > 0
  BY DEF Abs
<1>2. a = Sign(a) * m /\ b = Sign(b) * n /\ Sign(b) * Sign(b) = 1
  BY DEF Abs, Sign
<1>3. Sign(a) \in Int /\ Sign(b) \in Int
  BY DEF Sign
<1>4. CDiv(a, b) = Sign(a) * Sign(b) * t /\ CRem(a, b) = Sign(a) * r
  BY DEF CDiv, CRem
<1>. HIDE DEF m, n
<1>5. t \in Int /\ r \in Int /\ m = t * n + r
  BY <1>1, DivMod
<1>. HIDE DEF t, r
<1>6. a = Sign(a) * (t * n) + Sign(a) * r
  <2>1. t * n \in Int
    BY <1>1, <1>5
  <2>2. Sign(a) * (t * n + r) = Sign(a) * (t * n) + Sign(a) * r
    BY <1>3, <1>5, <2>1, Distribute
  <2>. QED  BY <1>2, <1>5, <2>2
<1>7. (Sign(a) * Sign(b) * t) * b = Sign(a) * (t * n)
  <2>1. (Sign(a) * Sign(b) * t) * (Sign(b) * n) = Sign(a) * (Sign(b) * Sign(b)) * (t * n)
    BY <1>1, <1>3, <1>5
  <2>2. Sign(a) * 1 * (t * n) = Sign(a) * (t * n)
    BY <1>1, <1>3, <1>5
  <2>. QED  BY <2>1, <2>2, <1>2
<1>8. Sign(a) * Sign(b) * t \in Int
  BY <1>3, <1>5
<1>. QED  BY <1>4, <1>6, <1>7, <1>8

LEMMA DividesSum ==
  ASSUME NEW d \in Int, NEW m \in Int, NEW n \in Int, NEW k \in Int,
         Divides(d, m), Divides(d, n)
  PROVE  Divides(d, k * m + n) /\ Divides(d, n - k * m)
<1>1. PICK i \in Int : m = i * d
  BY DEF Divides
<1>2. PICK j \in Int : n = j * d
  BY DEF Divides
<1>3. k * m + n = (k * i + j) * d /\ n - k * m = (j - k * i) * d
  BY <1>1, <1>2
<1>4. k * i + j \in Int /\ j - k * i \in Int
  OBVIOUS
<1>. QED  BY <1>3, <1>4 DEF Divides

LEMMA GcdStep ==
  ASSUME NEW p \in Pairs, p[2] # 0, GcdRight(<<p[2], CRem(p[1], p[2])>>)
  PROVE  GcdRight(p)
<1>. DEFINE a == p[1]
            b == p[2]
            r == CRem(a, b)
            g == gcd[<<b, r>>]
<1>1. a \in Int /\ b \in Int /\ b # 0
  BY DEF Pairs
<1>2. r \in Int /\ (a >= 0 => r >= 0)
  BY <1>1, RemLess
<1>3. gcd[p] = g /\ g \in Int
  <2>1. <<b, r>> \in Pairs
    BY <1>1, <1>2 DEF Pairs
  <2>. QED  BY <2>1, GcdUnfolds DEF Euclid
<1>4. /\ Divides(g, b) /\ Divides(g, r)
      /\ \A d \in Int : Divides(d, b) /\ Divides(d, r) => Divides(d, g)
      /\ b >= 0 /\ r >= 0 => g >= 0
  BY DEF GcdRight
<1>5. CDiv(a, b) \in Int /\ a = CDiv(a, b) * b + r
  BY <1>1, DivisionWithRest
<1>. HIDE DEF a, b, r, g
<1>6. Divides(g, a)
  BY <1>1, <1>2, <1>3, <1>4, <1>5, DividesSum
<1>7. ASSUME NEW d \in Int, Divides(d, a), Divides(d, b)
      PROVE  Divides(d, g)
  <2>1. Divides(d, a - CDiv(a, b) * b)
    BY <1>1, <1>5, <1>7, DividesSum
  <2>2. a - CDiv(a, b) * b = r
    BY <1>1, <1>2, <1>5
  <2>. QED  BY <1>4, <1>7, <2>1, <2>2
<1>. QED  BY <1>2, <1>3, <1>4, <1>6, <1>7 DEF GcdRight, a, b

LEMMA GcdIsRight ==
  ASSUME NEW p \in Pairs
  PROVE  gcd[p] \in Int /\ GcdRight(p)
<1>. DEFINE T == {k \in Nat : \E q \in Pairs : k = Abs(q[2]) /\ ~GcdRight(q)}
<1>1. T = {}
  <2>. SUFFICES ASSUME T # {} PROVE FALSE
    OBVIOUS
  <2>1. PICK k \in T : \A j \in T : k <= j
    BY SmallestOf
  <2>2. PICK q \in Pairs : k = Abs(q[2]) /\ ~GcdRight(q)
    BY <2>1
  <2>3. q[1] \in Int /\ q[2] \in Int
    BY DEF Pairs
  <2>4. CASE q[2] = 0
    <3>1. gcd[q] = q[1]
      BY <2>4, GcdUnfolds DEF Euclid
    <3>2. q[1] = 1 * q[1] /\ q[2] = 0 * q[1]
      BY <2>3, <2>4
    <3>. QED  BY <2>2, <2>3, <3>1, <3>2 DEF GcdRight, Divides
  <2>5. CASE q[2] # 0
    <3>. DEFINE r == <<q[2], CRem(q[1], q[2])>>
    <3>1. r \in Pairs /\ Abs(r[2]) < k
      BY <2>2, <2>5, GcdUnfolds, EuclidType
    <3>2. Abs(r[2]) \in Nat
      BY <3>1 DEF Pairs, Abs
    <3>3. ~GcdRight(r)
      BY <2>2, <2>5, GcdStep
    <3>. QED  BY <2>1, <3>1, <3>2, <3>3
  <2>. QED  BY <2>4, <2>5
<1>2. Abs(p[2]) \in Nat
  BY DEF Pairs, Abs
<1>. QED  BY <1>1, <1>2, GcdUnfolds
(***************************************************************************)
(* Fractions.                                                              *)
(***************************************************************************)
Rational == {q \in Pairs : q[2] >= 1 /\ (q[1] = 0 => q[2] = 1)}

LEMMA DividesBounds ==
  ASSUME NEW d \in Int, NEW n \in Int, Divides(d, n), n # 0
  PROVE  d # 0 /\ Abs(d) <= Abs(n)
<1>1. PICK k \in Int : n = k * d
  BY DEF Divides
<1>2. k # 0 /\ d # 0
  BY <1>1
<1>3. CASE k > 0 /\ d > 0
  BY <1>1, <1>3 DEF Abs
<1>4. CASE k > 0 /\ d < 0
  BY <1>1, <1>4 DEF Abs
<1>5. CASE k < 0 /\ d > 0
  BY <1>1, <1>5 DEF Abs
<1>6. CASE k < 0 /\ d < 0
  BY <1>1, <1>6 DEF Abs
<1>. QED  BY <1>2, <1>3, <1>4, <1>5, <1>6

LEMMA DivideBack ==
  ASSUME NEW k \in Int, NEW d \in Int, d > 0
  PROVE  (k * d) \div d = k
OBVIOUS

(* The divisor that lowest terms are found with.                           *)
LEMMA GcdOfNats ==
  ASSUME NEW m \in Nat, NEW n \in Nat, n > 0
  PROVE  /\ gcd[<<m, n>>] \in Int /\ gcd[<<m, n>>] >= 1
         /\ \E i \in Nat, j \in Nat : /\ j >= 1 /\ (i = 0 <=> m = 0)
                                      /\ m = i * gcd[<<m, n>>] /\ n = j * gcd[<<m, n>>]
         /\ \A d \in Int : Divides(d, m) /\ Divides(d, n) => Divides(d, gcd[<<m, n>>])
<1>. DEFINE g == gcd[<<m, n>>]
<1>1. /\ g \in Int /\ g >= 0 /\ Divides(g, m) /\ Divides(g, n)
      /\ \A d \in Int : Divides(d, m) /\ Divides(d, n) => Divides(d, g)
  <2>1. <<m, n>> \in Pairs
    BY DEF Pairs
  <2>2. g \in Int /\ GcdRight(<<m, n>>)
    BY <2>1, GcdIsRight
  <2>. QED  BY <2>2 DEF GcdRight
<1>. HIDE DEF g
<1>2. g # 0
  BY <1>1, DividesBounds
<1>3. PICK i \in Int : m = i * g
  BY <1>1 DEF Divides
<1>4. PICK j \in Int : n = j * g
  BY <1>1 DEF Divides
<1>5. i >= 0 /\ (i = 0 <=> m = 0)
  BY <1>1, <1>2, <1>3
<1>6. j >= 1
  BY <1>1, <1>2, <1>4
<1>. QED  BY <1>1, <1>2, <1>3, <1>4, <1>5, <1>6 DEF g

(* A fraction in lowest terms: d > 0, and zero is 0/1.                     *)
LEMMA FracRight ==
  ASSUME NEW n \in Int, NEW d \in Int, d # 0
  PROVE  /\ Frac(n, d) \in Rational
         /\ Frac(n, d)[1] = 0 <=> n = 0
<1>. DEFINE g == gcd[<<Abs(n), Abs(d)>>]
<1>1. Abs(n) \in Nat /\ Abs(d) \in Nat /\ Abs(d) > 0
  BY DEF Abs
<1>2. /\ g \in Int /\ g >= 1
      /\ \E i \in Nat, j \in Nat : /\ j >= 1 /\ (i = 0 <=> Abs(n) = 0)
                                   /\ Abs(n) = i * g /\ Abs(d) = j * g
      /\ \A e \in Int : Divides(e, Abs(n)) /\ Divides(e, Abs(d)) => Divides(e, g)
  BY <1>1, GcdOfNats
<1>3. PICK i \in Nat, j \in Nat : /\ j >= 1 /\ (i = 0 <=> Abs(n) = 0)
                                  /\ Abs(n) = i * g /\ Abs(d) = j * g
  BY <1>2
<1>4. Frac(n, d) = <<(Sign(d) * n) \div g, Abs(d) \div g>>
  BY DEF Frac, Reduced
<1>. HIDE DEF g
<1>5. Abs(d) \div g = j
  BY <1>2, <1>3, DivideBack
<1>. DEFINE s == Sign(d) * Sign(n)
<1>6. s \in Int /\ Sign(d) * n = s * Abs(n) /\ (n # 0 => s \in {1, -1})
  BY DEF Sign, Abs
<1>. HIDE DEF s
<1>7. Sign(d) * n = (s * i) * g /\ s * i \in Int
  BY <1>2, <1>3, <1>6
<1>8. (Sign(d) * n) \div g = s * i
  BY <1>2, <1>7, DivideBack
<1>9. s * i = 0 <=> n = 0
  BY <1>3, <1>6 DEF Abs
<1>10. n = 0 => j = 1
  <2>. SUFFICES ASSUME n = 0 PROVE j = 1
    OBVIOUS
  <2>1. Divides(Abs(d), Abs(n)) /\ Divides(Abs(d), Abs(d))
    <3>1. Abs(n) = 0 * Abs(d) /\ Abs(d) = 1 * Abs(d)
      BY <1>1 DEF Abs
    <3>. QED  BY <3>1 DEF Divides
  <2>2. Divides(Abs(d), g)
    BY <1>1, <1>2, <2>1
  <2>3. Abs(Abs(d)) <= Abs(g)
    BY <1>1, <1>2, <2>2, DividesBounds
  <2>4. Abs(d) <= g
    BY <1>1, <1>2, <2>3 DEF Abs
  <2>. QED  BY <1>1, <1>2, <1>3, <2>4
<1>11. Frac(n, d) = <<s * i, j>>
  BY <1>4, <1>5, <1>8
<1>. QED  BY <1>3, <1>7, <1>9, <1>10, <1>11 DEF Rational, Pairs

LEMMA FracWhole ==
  ASSUME NEW n \in Int
  PROVE  Frac(n, 1) = <<n, 1>>
<1>. DEFINE m == Abs(n)
            g == gcd[<<m, 1>>]
<1>1. m \in Nat /\ Abs(1) = 1
  BY DEF Abs
<1>2. Frac(n, 1) = <<(Sign(1) * n) \div g, Abs(1) \div g>>
  BY <1>1 DEF Frac, Reduced
<1>. HIDE DEF m
<1>3. /\ g \in Int /\ g >= 1
      /\ \E i \in Nat, j \in Nat : /\ j >= 1 /\ (i = 0 <=> m = 0)
                                   /\ m = i * g /\ 1 = j * g
  <2>1. 1 \in Nat /\ 1 > 0
    OBVIOUS
  <2>. QED  BY <1>1, <2>1, GcdOfNats, Zenon
<1>. HIDE DEF g
<1>4. g = 1
  <2>1. PICK j \in Nat : 1 = j * g
    BY <1>3
  <2>. QED  BY <1>3, <2>1
<1>. QED  BY <1>1, <1>2, <1>4 DEF Sign

(* Integer_div divides both numbers by what gcd gives, which may be        *)
(* negative: the quotients are the fraction in lowest terms but for the    *)
(* sign of the denominator.                                                *)
LEMMA QuotientsRight ==
  ASSUME NEW num \in Int, NEW den \in Int, num # 0, den # 0
  PROVE  LET g == gcd[<<num, den>>]
             n == CDiv(num, g)
             d == CDiv(den, g)
         IN  /\ n \in Int /\ d \in Int /\ n # 0 /\ d # 0
             /\ Frac(num, den) = <<Sign(d) * n, Abs(d)>>
             /\ d > 0 => Frac(n, d) = <<n, d>>
             /\ n * den = num * d
<1>. DEFINE g == gcd[<<num, den>>]
            n == CDiv(num, g)
            d == CDiv(den, g)
            G == gcd[<<Abs(num), Abs(den)>>]
            c == gcd[<<Abs(n), Abs(d)>>]
<1>1. /\ g \in Int /\ Divides(g, num) /\ Divides(g, den)
      /\ \A e \in Int : Divides(e, num) /\ Divides(e, den) => Divides(e, g)
  <2>1. <<num, den>> \in Pairs
    BY DEF Pairs
  <2>2. g \in Int /\ GcdRight(<<num, den>>)
    BY <2>1, GcdIsRight
  <2>. QED  BY <2>2 DEF GcdRight
<1>2. g # 0
  BY <1>1, DividesBounds
<1>3. n \in Int /\ d \in Int /\ num = n * g /\ den = d * g
  <2>. HIDE DEF g
  <2>1. ASSUME NEW e \in Int, Divides(g, e)
        PROVE  CDiv(e, g) \in Int /\ e = CDiv(e, g) * g
    <3>1. PICK k \in Int : e = k * g
      BY <2>1 DEF Divides
    <3>2. CDiv(e, g) \in Int /\ e = CDiv(e, g) * g + CRem(e, g)
      BY <1>1, <1>2, DivisionWithRest
    <3>3. CRem(e, g) \in Int /\ Abs(CRem(e, g)) < Abs(g)
      BY <1>1, <1>2, RemLess
    <3>4. Divides(g, CRem(e, g))
      <4>1. CRem(e, g) = (k - CDiv(e, g)) * g
        BY <1>1, <3>1, <3>2, <3>3
      <4>. QED  BY <3>2, <4>1 DEF Divides
    <3>5. CRem(e, g) = 0
      BY <1>1, <3>3, <3>4, DividesBounds DEF Abs
    <3>. QED  BY <1>1, <3>2, <3>5
  <2>. QED  BY <1>1, <2>1
<1>4. n # 0 /\ d # 0
  <2>. HIDE DEF n, d, g
  <2>. QED  BY <1>1, <1>3
<1>5. Abs(num) \in Nat /\ Abs(den) \in Nat /\ Abs(den) > 0
  BY DEF Abs
<1>6. /\ G \in Int /\ G >= 1
      /\ \E i \in Nat, j \in Nat : /\ j >= 1 /\ (i = 0 <=> Abs(num) = 0)
                                   /\ Abs(num) = i * G /\ Abs(den) = j * G
      /\ \A e \in Int : Divides(e, Abs(num)) /\ Divides(e, Abs(den)) => Divides(e, G)
  BY <1>5, GcdOfNats
<1>. HIDE DEF n, d, g, G
<1>7. ASSUME NEW e \in Int, NEW m \in Int
      PROVE  Divides(e, m) <=> Divides(e, Abs(m))
  <2>1. ASSUME NEW k \in Int, m = k * e  PROVE  -m = (-k) * e /\ -k \in Int
    BY <2>1
  <2>2. ASSUME NEW k \in Int, -m = k * e  PROVE  m = (-k) * e /\ -k \in Int
    BY <2>2
  <2>. QED  BY <2>1, <2>2 DEF Divides, Abs
<1>8. Abs(g) = G
  <2>1. Divides(g, G)
    BY <1>1, <1>6, <1>7
  <2>2. Divides(G, num) /\ Divides(G, den)
    <3>1. Divides(G, Abs(num)) /\ Divides(G, Abs(den))
      BY <1>6 DEF Divides
    <3>. QED  BY <1>6, <1>7, <3>1
  <2>3. Divides(G, g)
    BY <1>1, <1>6, <2>2
  <2>4. Abs(g) <= Abs(G) /\ Abs(G) <= Abs(g)
    BY <1>1, <1>2, <1>6, <2>1, <2>3, DividesBounds
  <2>. QED  BY <1>1, <1>6, <2>4 DEF Abs
<1>9. Frac(num, den) = <<Sign(d) * n, Abs(d)>>
  <2>1. Frac(num, den) = <<(Sign(den) * num) \div G, Abs(den) \div G>>
    BY DEF Frac, Reduced, G
  <2>2. CASE g > 0
    <3>1. g = G
      BY <1>1, <1>8, <2>2 DEF Abs
    <3>2. Sign(den) = Sign(d)
      BY <1>1, <1>3, <2>2 DEF Sign
    <3>3. Sign(den) * num = (Sign(d) * n) * G /\ Sign(d) * n \in Int
      BY <1>1, <1>3, <3>1, <3>2 DEF Sign
    <3>4. Abs(den) = Abs(d) * G /\ Abs(d) \in Int
      BY <1>1, <1>3, <2>2, <3>1 DEF Abs
    <3>. QED  BY <1>6, <2>1, <3>3, <3>4, DivideBack
  <2>3. CASE g < 0
    <3>1. g = -G
      BY <1>1, <1>8, <2>3 DEF Abs
    <3>2. Sign(den) = -Sign(d)
      BY <1>1, <1>3, <2>3 DEF Sign
    <3>3. Sign(den) * num = (Sign(d) * n) * G /\ Sign(d) * n \in Int
      BY <1>1, <1>3, <1>6, <3>1, <3>2 DEF Sign
    <3>4. Abs(den) = Abs(d) * G /\ Abs(d) \in Int
      BY <1>1, <1>3, <1>6, <2>3, <3>1 DEF Abs
    <3>. QED  BY <1>6, <2>1, <3>3, <3>4, DivideBack
  <2>. QED  BY <1>1, <1>2, <2>2, <2>3
<1>10. d > 0 => Frac(n, d) = <<n, d>>
  <2>. SUFFICES ASSUME d > 0 PROVE Frac(n, d) = <<n, d>>
    OBVIOUS
  <2>1. Abs(n) \in Nat /\ Abs(d) = d /\ d \in Nat
    BY <1>3 DEF Abs
  <2>2. /\ c \in Int /\ c >= 1
        /\ \E i \in Nat, j \in Nat : Abs(n) = i * c /\ d = j * c
    BY <2>1, GcdOfNats
  <2>3. Frac(n, d) = <<(Sign(d) * n) \div c, Abs(d) \div c>>
    BY DEF Frac, Reduced
  <2>. HIDE DEF c
  <2>4. PICK i \in Nat, j \in Nat : Abs(n) = i * c /\ d = j * c
    BY <2>2
  <2>5. Divides(c, n) /\ Divides(c, d)
    <3>1. Divides(c, Abs(n)) /\ Divides(c, d)
      BY <2>4 DEF Divides
    <3>. QED  BY <1>3, <1>7, <2>2, <3>1
  <2>6. Divides(c * g, num) /\ Divides(c * g, den)
    <3>1. ASSUME NEW m \in Int, Divides(c, m)
          PROVE  Divides(c * g, m * g)
      <4>1. PICK k \in Int : m = k * c
        BY <3>1 DEF Divides
      <4>2. m * g = k * (c * g)
        BY <1>1, <2>2, <4>1
      <4>. QED  BY <4>2 DEF Divides
    <3>. QED  BY <1>3, <2>5, <3>1
  <2>7. c * g \in Int /\ Divides(c * g, g)
    BY <1>1, <2>2, <2>6
  <2>8. PICK k \in Int : g = k * (c * g)
    BY <2>7 DEF Divides
  <2>9. (k * c - 1) * g = 0 /\ k * c - 1 \in Int
    BY <1>1, <2>2, <2>8
  <2>10. k * c = 1
    BY <1>1, <1>2, <2>2, <2>9
  <2>11. c = 1
    BY <2>2, <2>10
  <2>. QED  BY <1>3, <2>1, <2>3, <2>11 DEF Sign
<1>11. n * den = num * d
  BY <1>1, <1>3
<1>. QED  BY <1>3, <1>4, <1>9, <1>10, <1>11 DEF g, n, d
LEMMA ExactRight ==
  ASSUME NEW op \in MathOps, NEW p \in Rational, NEW q \in Rational,
         op = "div" => q # Zero
  PROVE  /\ Exact(op, p, q) \in Rational
         /\ op # "div" /\ p[2] = 1 /\ q[2] = 1 => Exact(op, p, q)[2] = 1
<1>1. /\ p[1] \in Int /\ p[2] \in Int /\ p[2] >= 1 /\ q[1] \in Int /\ q[2] \in Int /\ q[2] >= 1
      /\ q = <<q[1], q[2]>> /\ (q[1] = 0 => q[2] = 1)
  BY DEF Rational, Pairs
<1>2. /\ p[1] * q[2] + q[1] * p[2] \in Int /\ p[1] * q[2] - q[1] * p[2] \in Int
      /\ p[1] * q[1] \in Int /\ p[1] * q[2] \in Int
  BY <1>1
<1>3. CASE op # "div"
  <2>1. p[2] * q[2] \in Int /\ p[2] * q[2] >= 1
    BY <1>1
  <2>. DEFINE n == CASE op = "add" -> p[1] * q[2] + q[1] * p[2]
                     [] op = "sub" -> p[1] * q[2] - q[1] * p[2]
                     [] op = "mul" -> p[1] * q[1]
                     [] op = "div" -> p[1] * q[2]
  <2>2. n \in Int
    BY <1>2, <1>3 DEF MathOps
  <2>3. Exact(op, p, q) = Frac(n, p[2] * q[2])
    BY <1>3 DEF Exact
  <2>. HIDE DEF n
  <2>4. Exact(op, p, q) \in Rational
    BY <2>1, <2>2, <2>3, FracRight
  <2>5. p[2] = 1 /\ q[2] = 1 => Exact(op, p, q) = <<n, 1>>
    BY <2>2, <2>3, FracWhole
  <2>. QED  BY <2>4, <2>5
<1>4. CASE op = "div"
  <2>1. q[1] # 0
    BY <1>1, <1>4 DEF Zero
  <2>2. p[2] * q[1] \in Int /\ p[2] * q[1] # 0
    BY <1>1, <2>1
  <2>3. Exact(op, p, q) = Frac(p[1] * q[2], p[2] * q[1])
    BY <1>4 DEF Exact
  <2>. QED  BY <1>2, <1>4, <2>2, <2>3, FracRight
<1>. QED  BY <1>3, <1>4

LEMMA WrapRight ==
  ASSUME NEW n \in Int
  PROVE  /\ Wrap(n) \in Int32
         /\ n \in Int32 => Wrap(n) = n /\ n % Words \in Int /\ Wrap(n % Words) = n
<1>1. Half \in Int /\ Half > 1 /\ Words = 2 * Half /\ MinInt = -Half /\ Words > 0
  BY HalfAssumption DEF Words, MinInt
<1>2. (n + Half) % Words \in 0 .. Words - 1
  BY <1>1
<1>3. n - MinInt = n + Half
  BY <1>1
<1>4. Wrap(n) \in Int32
  BY <1>1, <1>2, <1>3 DEF Wrap, Int32
<1>5. ASSUME NEW m \in Int, 0 <= m, m < Words  PROVE  m % Words = m
  BY <1>1, <1>5
<1>6. ASSUME n \in Int32
      PROVE  Wrap(n) = n /\ n % Words \in Int /\ Wrap(n % Words) = n
  <2>1. n >= -Half /\ n < Half
    BY <1>1, <1>6 DEF Int32
  <2>2. Wrap(n) = n
    BY <1>1, <1>3, <1>5, <2>1 DEF Wrap
  <2>3. CASE n >= 0
    <3>1. n % Words = n
      BY <1>1, <1>5, <2>1, <2>3
    <3>. QED  BY <2>2, <3>1
  <2>4. CASE n < 0
    <3>1. n % Words = n + Words
      BY <1>1, <2>1, <2>4
    <3>2. (n + Words) - MinInt = (n + Half) + Words
      BY <1>1
    <3>3. ((n + Half) + Words) % Words = n + Half
      <4>. DEFINE m == n + Half
      <4>1. m \in Int /\ 0 <= m /\ m < Words
        BY <1>1, <2>1
      <4>. HIDE DEF m
      <4>2. (m + Words) % Words = m
        BY <1>1, <4>1
      <4>. QED  BY <4>2 DEF m
    <3>4. Wrap(n + Words) = n
      BY <1>1, <3>2, <3>3 DEF Wrap
    <3>. QED  BY <1>1, <2>2, <3>1, <3>4
  <2>. QED  BY <2>3, <2>4
<1>. QED  BY <1>4, <1>6
(***************************************************************************)
(* Heaps of numbers.  A cell is free or has owners; a big integer is a     *)
(* whole number, and a ratio may be one only while a call works on it.     *)
(***************************************************************************)
Cell == [tag : {"free", "B", "R", "S"}, rc : Nat, kids : {<<>>}, info : Pairs \cup {<<>>}]

Kind(t, q) ==
  \/ t = "B" /\ q \in Rational /\ q[2] = 1
  \/ t = "R" /\ q \in Rational
  \/ t = "S" /\ q = Zero

GoodHeap(h) ==
  /\ h \in [Addr -> Cell]
  /\ \A a \in Addr : h[a].tag = "free" <=> h[a].rc = 0
  /\ \A a \in Addr : h[a].rc > 0 => Kind(h[a].tag, h[a].info)

(* The values of a program: what the word holds itself, and references.    *)
Scalar(v) ==
  \/ v = Immediate("I", v.q) /\ v.q \in Int32 \X {1}
  \/ v = Immediate("D", v.q)
  \/ v = Box(TRUE) \/ v = Box(FALSE)
  \/ v = Immediate("N", Zero) \/ v = Immediate("K", Zero)

Reference(h, v) == v = Pointer(v.a) /\ v.a \in Addr /\ h[v.a].rc > 0

Good(h, v) == Scalar(v) \/ Reference(h, v)

Takes(v, a) == IF v.a = a THEN 1 ELSE 0

Nothing == Immediate("N", Zero)

(* A call starts with a reference for each of its operands.                *)
Holds(h, x, y) ==
  /\ GoodHeap(h) /\ Good(h, x) /\ Good(h, y)
  /\ \A a \in Addr : h[a].rc >= Takes(x, a) + Takes(y, a)

Unchanged(h, g, a) == g[a].tag = h[a].tag /\ g[a].info = h[a].info

(* What a call does to the heap: it takes one reference of each operand,   *)
(* gives one to its result, and leaves alone what others refer to.         *)
Consumes(h, x, y, call) ==
  /\ GoodHeap(call.h)
  /\ call.r = Exception \/ Good(call.h, call.r)
  /\ \A a \in Addr :
       call.h[a].rc = h[a].rc - Takes(x, a) - Takes(y, a) + Takes(call.r, a)
  /\ \A a \in Addr : h[a].rc > Takes(x, a) + Takes(y, a) => Unchanged(h, call.h, a)

(* Its result.                                                             *)
Is(call, t, q) ==
  /\ call.r # Exception
  /\ TypeOf(call.h, call.r) = t /\ ValueOf(call.h, call.r) = q

Dropped(h, v, g) ==
  /\ GoodHeap(g)
  /\ \A a \in Addr : /\ g[a].rc = h[a].rc - Takes(v, a)
                     /\ g[a].rc > 0 => Unchanged(h, g, a)

LEMMA Addresses == Addr \subseteq Nat \ {0} /\ Null \notin Addr /\ Null = 0
BY MaxObjAssumption DEF Addr, Null

LEMMA ValueFacts ==
  ASSUME NEW h, NEW v, Good(h, v)
  PROVE  /\ v.a \in Addr \cup {Null}
         /\ v # Exception
         /\ v.a = Null <=> Scalar(v)
         /\ v.a = Null => v.t # "throws"
         /\ v.a # Null => v = Pointer(v.a) /\ v.a \in Addr /\ h[v.a].rc > 0
<1>1. CASE Scalar(v)
  BY <1>1, Addresses DEF Scalar, Immediate, Box, Exception, Pointer
<1>2. CASE Reference(h, v)
  BY <1>2, Addresses DEF Reference, Scalar, Immediate, Box, Exception, Pointer
<1>. QED  BY <1>1, <1>2 DEF Good

LEMMA CellFacts ==
  ASSUME NEW h, GoodHeap(h), NEW a \in Addr
  PROVE  /\ h[a] \in Cell /\ h[a].rc \in Nat /\ h[a].tag \in {"free", "B", "R", "S"}
         /\ h[a].kids = <<>>
         /\ h[a].rc > 0 => Kind(h[a].tag, h[a].info) /\ h[a].tag # "free"
         /\ h[a].tag = "free" <=> h[a].rc = 0
BY DEF GoodHeap, Cell

LEMMA DropRight ==
  ASSUME NEW h, GoodHeap(h), NEW v, v.a \in Addr \cup {Null},
         v.a # Null => h[v.a].rc > 0
  PROVE  Dropped(h, v, Drop(h, v))
<1>1. CASE v.a = Null
  <2>1. Drop(h, v) = h
    BY <1>1 DEF Drop, Release, IsPtr, Null
  <2>2. \A a \in Addr : Takes(v, a) = 0 /\ h[a].rc \in Nat
    BY <1>1, Addresses, CellFacts DEF Takes
  <2>. QED  BY <2>1, <2>2 DEF Dropped, Unchanged
<1>2. CASE v.a \in Addr /\ h[v.a].rc = 1
  <2>1. Drop(h, v) = [h EXCEPT ![v.a] = Free]
    BY <1>2, Addresses DEF Drop, Release, IsPtr
  <2>2. Free \in Cell /\ Free.rc = 0 /\ Free.tag = "free"
    BY DEF Free, Cell
  <2>3. GoodHeap(Drop(h, v))
    BY <2>1, <2>2, <1>2 DEF GoodHeap
  <2>. QED  BY <2>1, <2>2, <2>3, <1>2, CellFacts DEF Dropped, Takes, Unchanged, GoodHeap
<1>3. CASE v.a \in Addr /\ h[v.a].rc # 1
  <2>1. Drop(h, v) = [h EXCEPT ![v.a].rc = h[v.a].rc - 1]
    BY <1>3, Addresses DEF Drop, Release, IsPtr
  <2>2. h[v.a] \in Cell /\ h[v.a].rc > 1 /\ h \in [Addr -> Cell]
    <3>1. h[v.a] \in Cell /\ h[v.a].rc \in Nat /\ v.a # Null
      BY <1>3, Addresses, CellFacts
    <3>. QED  BY <1>3, <3>1 DEF GoodHeap
  <2>. DEFINE c == [h[v.a] EXCEPT !.rc = h[v.a].rc - 1]
  <2>3. /\ c \in Cell /\ c.rc = h[v.a].rc - 1 /\ c.tag = h[v.a].tag /\ c.info = h[v.a].info
    BY <2>2 DEF Cell
  <2>4. Drop(h, v) = [h EXCEPT ![v.a] = c]
    BY <2>1, <2>2
  <2>. HIDE DEF c
  <2>5. GoodHeap(Drop(h, v))
    <3>1. Drop(h, v) \in [Addr -> Cell]
      BY <2>2, <2>3, <2>4, <1>3
    <3>2. ASSUME NEW a \in Addr
          PROVE  /\ Drop(h, v)[a].tag = "free" <=> Drop(h, v)[a].rc = 0
                 /\ Drop(h, v)[a].rc > 0 => Kind(Drop(h, v)[a].tag, Drop(h, v)[a].info)
      <4>1. CASE a = v.a
        <5>1. Drop(h, v)[a] = c /\ h[a].rc \in Nat
          BY <2>2, <2>4, <4>1, CellFacts
        <5>. QED  BY <4>1, <5>1, <2>2, <2>3, CellFacts
      <4>2. CASE a # v.a
        <5>1. Drop(h, v)[a] = h[a]
          BY <2>2, <2>4, <4>2
        <5>. QED  BY <5>1, CellFacts
      <4>. QED  BY <4>1, <4>2
    <3>. QED  BY <3>1, <3>2 DEF GoodHeap
  <2>. QED  BY <2>2, <2>3, <2>4, <2>5, <1>3, CellFacts DEF Dropped, Takes, Unchanged
<1>. QED  BY <1>1, <1>2, <1>3
(* Memory: cells in use, and how many more a call may need.                *)
Used(h) == {a \in Addr : h[a].rc > 0}

Room(h, n) == Cardinality(Used(h)) + n <= MaxObj

LEMMA UsedFacts ==
  ASSUME NEW h
  PROVE  /\ IsFiniteSet(Used(h)) /\ Cardinality(Used(h)) \in Nat
         /\ IsFiniteSet(Addr) /\ Cardinality(Addr) = MaxObj
<1>1. IsFiniteSet(Addr) /\ Cardinality(Addr) = MaxObj
  <2>1. IsFiniteSet(1 .. MaxObj) /\ Cardinality(1 .. MaxObj) = IF 1 > MaxObj THEN 0 ELSE MaxObj - 1 + 1
    BY MaxObjAssumption, FS_Interval
  <2>. QED  BY <2>1, MaxObjAssumption DEF Addr
<1>2. Used(h) \subseteq Addr
  BY DEF Used
<1>3. IsFiniteSet(Used(h))
  BY <1>1, <1>2, FS_Subset
<1>. QED  BY <1>1, <1>3, FS_CardinalityType

LEMMA SomeFree ==
  ASSUME NEW h, GoodHeap(h), Room(h, 1)
  PROVE  Min(FreeCells(h)) \in Addr /\ h[Min(FreeCells(h))].rc = 0
<1>1. FreeCells(h) # {}
  <2>. SUFFICES ASSUME FreeCells(h) = {} PROVE FALSE
    OBVIOUS
  <2>1. ASSUME NEW a \in Addr  PROVE  h[a].rc > 0
    BY CellFacts DEF FreeCells
  <2>2. Used(h) = Addr
    BY <2>1 DEF Used
  <2>. QED  BY <2>2, UsedFacts, MaxObjAssumption DEF Room
<1>2. FreeCells(h) \in SUBSET Nat /\ FreeCells(h) \subseteq Addr
  BY Addresses DEF FreeCells
<1>3. \E n \in FreeCells(h) : \A m \in FreeCells(h) : n <= m
  BY <1>1, <1>2, SmallestOf
<1>4. Min(FreeCells(h)) \in FreeCells(h)
  BY <1>3 DEF Min
<1>. QED  BY <1>2, <1>4 DEF FreeCells

(* A call leaves at most one more cell in use.                             *)
LEMMA RoomLeft ==
  ASSUME NEW h, NEW x, NEW y, NEW call, GoodHeap(h), Consumes(h, x, y, call),
         NEW n \in Nat, Room(h, n + 1)
  PROVE  Room(call.h, n)
<1>1. Used(call.h) \subseteq Used(h) \cup {call.r.a}
  <2>. SUFFICES ASSUME NEW a \in Addr, call.h[a].rc > 0, a # call.r.a
                PROVE  h[a].rc > 0
    BY DEF Used
  <2>1. call.h[a].rc = h[a].rc - Takes(x, a) - Takes(y, a) + Takes(call.r, a)
    BY DEF Consumes
  <2>2. h[a].rc \in Nat /\ call.h[a].rc \in Nat
    BY CellFacts DEF Consumes
  <2>. QED  BY <2>1, <2>2 DEF Takes
<1>2. /\ IsFiniteSet(Used(h) \cup {call.r.a})
      /\ Cardinality(Used(h) \cup {call.r.a}) <= Cardinality(Used(h)) + 1
      /\ Cardinality(Used(h) \cup {call.r.a}) \in Nat
  <2>1. IsFiniteSet(Used(h) \cup {call.r.a})
    BY UsedFacts, FS_AddElement
  <2>2. \/ Cardinality(Used(h) \cup {call.r.a}) = Cardinality(Used(h)) + 1
        \/ Cardinality(Used(h) \cup {call.r.a}) = Cardinality(Used(h))
    BY UsedFacts, FS_AddElement
  <2>. QED  BY <2>1, <2>2, UsedFacts
<1>3. Cardinality(Used(call.h)) <= Cardinality(Used(h) \cup {call.r.a})
  BY <1>1, <1>2, FS_Subset
<1>. QED  BY <1>2, <1>3, UsedFacts, MaxObjAssumption DEF Room

LEMMA StoreRight ==
  ASSUME NEW h, GoodHeap(h), NEW a \in Addr, NEW c \in Cell,
         c.rc > 0, Kind(c.tag, c.info), c.tag # "free"
  PROVE  GoodHeap([h EXCEPT ![a] = c])
<1>1. h \in [Addr -> Cell] /\ c.rc \in Nat
  BY DEF GoodHeap, Cell
<1>2. [h EXCEPT ![a] = c] \in [Addr -> Cell]
  BY <1>1
<1>3. ASSUME NEW b \in Addr
      PROVE  [h EXCEPT ![a] = c][b] = IF a = b THEN c ELSE h[b]
  BY <1>1
<1>4. ASSUME NEW b \in Addr
      PROVE  /\ [h EXCEPT ![a] = c][b].tag = "free" <=> [h EXCEPT ![a] = c][b].rc = 0
             /\ [h EXCEPT ![a] = c][b].rc > 0 =>
                  Kind([h EXCEPT ![a] = c][b].tag, [h EXCEPT ![a] = c][b].info)
  <2>1. CASE a = b
    BY <2>1, <1>1, <1>3
  <2>2. CASE a # b
    BY <2>2, <1>3, CellFacts
  <2>. QED  BY <2>1, <2>2
<1>. QED  BY <1>2, <1>4 DEF GoodHeap

LEMMA KindFacts ==
  ASSUME NEW t, NEW q, Kind(t, q)
  PROVE  t \in {"B", "R", "S"} /\ q \in Pairs /\ q \in Rational
BY DEF Kind, Rational, Pairs, Zero

(* A new number has one owner, the result.                                 *)
LEMMA NewRight ==
  ASSUME NEW h, GoodHeap(h), Room(h, 1), NEW t, NEW q, Kind(t, q)
  PROVE  /\ Consumes(h, Nothing, Nothing, New(h, t, q))
         /\ Is(New(h, t, q), t, q)
         /\ New(h, t, q).r.a # Null
<1>. DEFINE b == Min(FreeCells(h))
            c == [tag |-> t, rc |-> 1, kids |-> <<>>, info |-> q]
            n == New(h, t, q)
<1>1. b \in Addr /\ h[b].rc = 0
  BY SomeFree
<1>2. n.h = [h EXCEPT ![b] = c] /\ n.r = Pointer(b)
  BY DEF New, Pointing, Give, Alloc, StoreAt
<1>3. c \in Cell /\ c.rc = 1 /\ c.tag = t /\ c.info = q /\ t # "free"
  BY KindFacts DEF Cell
<1>. HIDE DEF n, c, b
<1>4. GoodHeap(n.h)
  BY <1>1, <1>2, <1>3, StoreRight
<1>5. h \in [Addr -> Cell]
  BY DEF GoodHeap
<1>6. ASSUME NEW a \in Addr
      PROVE  n.h[a] = IF a = b THEN c ELSE h[a]
  BY <1>1, <1>2, <1>5
<1>7. n.r.a = b /\ n.r = Pointer(n.r.a) /\ b # Null /\ n.r # Exception
  BY <1>1, <1>2, Addresses DEF Pointer, Exception, Immediate
<1>8. Reference(n.h, n.r)
  BY <1>1, <1>3, <1>6, <1>7 DEF Reference
<1>9. ASSUME NEW a \in Addr
      PROVE  /\ n.h[a].rc = h[a].rc - Takes(Nothing, a) - Takes(Nothing, a) + Takes(n.r, a)
             /\ h[a].rc > Takes(Nothing, a) + Takes(Nothing, a) => Unchanged(h, n.h, a)
  <2>1. Takes(Nothing, a) = 0 /\ h[a].rc \in Nat
    BY Addresses, CellFacts DEF Takes, Nothing, Immediate
  <2>. QED  BY <2>1, <1>1, <1>3, <1>6, <1>7 DEF Takes, Unchanged
<1>10. TypeOf(n.h, n.r) = t /\ ValueOf(n.h, n.r) = q
  BY <1>1, <1>3, <1>6, <1>7 DEF TypeOf, ValueOf
<1>. QED  BY <1>4, <1>7, <1>8, <1>9, <1>10 DEF Consumes, Good, Is, n
(***************************************************************************)
(* Calls that follow one another.                                          *)
(***************************************************************************)
SameResult(c, d) ==
  /\ d.r = c.r
  /\ TypeOf(d.h, d.r) = TypeOf(c.h, c.r) /\ ValueOf(d.h, d.r) = ValueOf(c.h, c.r)

LEMMA TakesFacts ==
  ASSUME NEW v, NEW a
  PROVE  Takes(v, a) \in {0, 1} /\ (Takes(v, a) = 1 <=> v.a = a)
BY DEF Takes

LEMMA TakesNothing ==
  ASSUME NEW a \in Addr
  PROVE  Takes(Nothing, a) = 0 /\ Takes(Exception, a) = 0
BY Addresses DEF Takes, Nothing, Exception, Immediate

LEMMA NothingHeld ==
  ASSUME NEW h, GoodHeap(h)
  PROVE  Holds(h, Nothing, Nothing) /\ Good(h, Nothing)
BY TakesNothing, CellFacts DEF Holds, Good, Scalar, Nothing

LEMMA Swapped ==
  ASSUME NEW h, GoodHeap(h), NEW x, NEW y, NEW c
  PROVE  /\ Holds(h, x, y) => Holds(h, y, x)
         /\ Holds(h, x, y) => Holds(h, x, Nothing) /\ Holds(h, Nothing, y)
         /\ Consumes(h, x, y, c) => Consumes(h, y, x, c)
<1>1. ASSUME NEW a \in Addr
      PROVE  /\ Takes(x, a) + Takes(y, a) = Takes(y, a) + Takes(x, a)
             /\ h[a].rc - Takes(x, a) - Takes(y, a) = h[a].rc - Takes(y, a) - Takes(x, a)
             /\ h[a].rc >= Takes(x, a) + Takes(y, a) =>
                  /\ h[a].rc >= Takes(x, a) + Takes(Nothing, a)
                  /\ h[a].rc >= Takes(Nothing, a) + Takes(y, a)
  <2>1. Takes(x, a) \in {0, 1} /\ Takes(y, a) \in {0, 1} /\ h[a].rc \in Nat
    BY TakesFacts, CellFacts
  <2>. QED  BY <2>1, TakesNothing
<1>. QED  BY <1>1, NothingHeld DEF Holds, Consumes

LEMMA DropNext ==
  ASSUME NEW h, NEW x, NEW y, Holds(h, x, y), NEW c, Consumes(h, x, Nothing, c)
  PROVE  /\ Consumes(h, x, y, Give(Drop(c.h, y), c.r))
         /\ SameResult(c, Give(Drop(c.h, y), c.r))
<1>. DEFINE g == Drop(c.h, y)
            d == Give(g, c.r)
<1>0. d.h = g /\ d.r = c.r
  BY DEF Give
<1>1. GoodHeap(h) /\ GoodHeap(c.h) /\ Good(h, y)
  BY DEF Holds, Consumes
<1>2. ASSUME NEW a \in Addr
      PROVE  /\ h[a].rc \in Nat /\ h[a].rc >= Takes(x, a) + Takes(y, a)
             /\ c.h[a].rc = h[a].rc - Takes(x, a) + Takes(c.r, a)
             /\ h[a].rc > Takes(x, a) => Unchanged(h, c.h, a)
             /\ Takes(x, a) \in {0, 1} /\ Takes(y, a) \in {0, 1} /\ Takes(c.r, a) \in {0, 1}
  <2>1. /\ c.h[a].rc = h[a].rc - Takes(x, a) - Takes(Nothing, a) + Takes(c.r, a)
        /\ h[a].rc > Takes(x, a) + Takes(Nothing, a) => Unchanged(h, c.h, a)
        /\ h[a].rc >= Takes(x, a) + Takes(y, a)
    BY DEF Consumes, Holds
  <2>2. /\ Takes(x, a) \in {0, 1} /\ Takes(y, a) \in {0, 1} /\ Takes(c.r, a) \in {0, 1}
        /\ h[a].rc \in Nat
    BY <1>1, TakesFacts, CellFacts
  <2>. QED  BY <2>1, <2>2, TakesNothing
<1>3. Dropped(c.h, y, g)
  <2>1. y.a \in Addr \cup {Null}
    BY <1>1, ValueFacts
  <2>2. y.a # Null => c.h[y.a].rc > 0
    BY <2>1, <1>2, TakesFacts
  <2>. QED  BY <1>1, <2>1, <2>2, DropRight
<1>. HIDE DEF g
<1>4. ASSUME NEW a \in Addr
      PROVE  /\ g[a].rc = h[a].rc - Takes(x, a) - Takes(y, a) + Takes(c.r, a)
             /\ h[a].rc > Takes(x, a) + Takes(y, a) => Unchanged(h, g, a)
             /\ g[a].rc > 0 => Unchanged(c.h, g, a)
  <2>1. g[a].rc = c.h[a].rc - Takes(y, a) /\ (g[a].rc > 0 => Unchanged(c.h, g, a))
    BY <1>3 DEF Dropped
  <2>. QED  BY <1>2, <2>1 DEF Unchanged
<1>5. /\ c.r = Exception \/ Good(g, c.r)
      /\ TypeOf(g, c.r) = TypeOf(c.h, c.r) /\ ValueOf(g, c.r) = ValueOf(c.h, c.r)
  <2>1. CASE c.r = Exception
    BY <2>1 DEF Exception, Immediate, TypeOf, ValueOf
  <2>2. CASE c.r # Exception /\ c.r.a = Null
    <3>1. Good(c.h, c.r)
      BY <2>2 DEF Consumes
    <3>2. Scalar(c.r)
      BY <2>2, <3>1, ValueFacts
    <3>. QED  BY <2>2, <3>2 DEF Good, TypeOf, ValueOf
  <2>3. CASE c.r # Exception /\ c.r.a # Null
    <3>1. Good(c.h, c.r)
      BY <2>3 DEF Consumes
    <3>2. c.r = Pointer(c.r.a) /\ c.r.a \in Addr
      BY <2>3, <3>1, ValueFacts
    <3>3. Takes(c.r, c.r.a) = 1
      BY DEF Takes
    <3>4. g[c.r.a].rc > 0
      BY <1>2, <1>4, <3>2, <3>3
    <3>. QED  BY <1>4, <2>3, <3>2, <3>4 DEF Good, Reference, TypeOf, ValueOf, Unchanged
  <2>. QED  BY <2>1, <2>2, <2>3
<1>6. GoodHeap(g)
  BY <1>3 DEF Dropped
<1>. HIDE DEF d
<1>. QED  BY <1>0, <1>4, <1>5, <1>6 DEF Consumes, SameResult, d, g

(* A result that takes nothing, and then the release of both operands.     *)
LEMMA ReleasingRight ==
  ASSUME NEW h, NEW x, NEW y, Holds(h, x, y), NEW c, Consumes(h, Nothing, Nothing, c)
  PROVE  /\ Consumes(h, x, y, Releasing(c, x, y))
         /\ SameResult(c, Releasing(c, x, y))
<1>. DEFINE d == Give(Drop(c.h, x), c.r)
            e == Give(Drop(d.h, y), d.r)
<1>0. GoodHeap(h)
  BY DEF Holds
<1>1. Consumes(h, Nothing, x, d) /\ SameResult(c, d)
  <2>1. Holds(h, Nothing, x)
    BY <1>0, Swapped
  <2>. QED  BY <2>1, DropNext
<1>2. Consumes(h, x, Nothing, d)
  BY <1>0, <1>1, Swapped
<1>. HIDE DEF d
<1>3. Consumes(h, x, y, e) /\ SameResult(d, e)
  BY <1>2, DropNext
<1>4. Releasing(c, x, y) = e
  BY DEF d, Releasing, DropBoth, Give
<1>. QED  BY <1>1, <1>3, <1>4 DEF SameResult

LEMMA ImmediateRight ==
  ASSUME NEW h, GoodHeap(h), NEW v, Scalar(v) \/ v = Exception
  PROVE  Consumes(h, Nothing, Nothing, Give(h, v))
<1>1. v.a = Null
  BY DEF Scalar, Immediate, Exception, Box
<1>2. \A a \in Addr : Takes(v, a) = 0 /\ h[a].rc \in Nat
  BY <1>1, Addresses, CellFacts DEF Takes
<1>3. \A a \in Addr : Unchanged(h, h, a)
  BY DEF Unchanged
<1>4. Give(h, v).h = h /\ Give(h, v).r = v
  BY DEF Give
<1>. QED  BY <1>2, <1>3, <1>4, TakesNothing DEF Consumes, Good

(* A value that is itself the result.                                      *)
LEMMA SelfRight ==
  ASSUME NEW h, NEW v, Holds(h, v, Nothing)
  PROVE  Consumes(h, v, Nothing, Give(h, v))
<1>1. GoodHeap(h) /\ Good(h, v)
  BY DEF Holds
<1>2. ASSUME NEW a \in Addr
      PROVE  /\ h[a].rc = h[a].rc - Takes(v, a) - Takes(Nothing, a) + Takes(v, a)
             /\ Unchanged(h, h, a)
  BY <1>1, TakesFacts, TakesNothing, CellFacts DEF Unchanged
<1>3. Give(h, v).h = h /\ Give(h, v).r = v
  BY DEF Give
<1>. QED  BY <1>1, <1>2, <1>3 DEF Consumes
(* Two conversions and then an operation on what they gave.                *)
LEMMA Conversions ==
  ASSUME NEW h, NEW x, NEW y, Holds(h, x, y),
         NEW c, Consumes(h, x, Nothing, c), c.r # Exception,
         NEW d, Consumes(c.h, y, Nothing, d), d.r # Exception
  PROVE  /\ Holds(d.h, c.r, d.r)
         /\ TypeOf(d.h, c.r) = TypeOf(c.h, c.r) /\ ValueOf(d.h, c.r) = ValueOf(c.h, c.r)
         /\ \A e : Consumes(d.h, c.r, d.r, e) => Consumes(h, x, y, e)
<1>1. /\ GoodHeap(h) /\ GoodHeap(c.h) /\ GoodHeap(d.h) /\ Good(c.h, c.r) /\ Good(d.h, d.r)
  BY DEF Holds, Consumes
<1>2. ASSUME NEW a \in Addr
      PROVE  /\ h[a].rc \in Nat /\ h[a].rc >= Takes(x, a) + Takes(y, a)
             /\ c.h[a].rc = h[a].rc - Takes(x, a) + Takes(c.r, a)
             /\ h[a].rc > Takes(x, a) => Unchanged(h, c.h, a)
             /\ d.h[a].rc = h[a].rc - Takes(x, a) + Takes(c.r, a) - Takes(y, a) + Takes(d.r, a)
             /\ c.h[a].rc > Takes(y, a) => Unchanged(c.h, d.h, a)
             /\ Takes(x, a) \in {0, 1} /\ Takes(y, a) \in {0, 1}
             /\ Takes(c.r, a) \in {0, 1} /\ Takes(d.r, a) \in {0, 1}
  <2>1. /\ c.h[a].rc = h[a].rc - Takes(x, a) - Takes(Nothing, a) + Takes(c.r, a)
        /\ h[a].rc > Takes(x, a) + Takes(Nothing, a) => Unchanged(h, c.h, a)
        /\ d.h[a].rc = c.h[a].rc - Takes(y, a) - Takes(Nothing, a) + Takes(d.r, a)
        /\ c.h[a].rc > Takes(y, a) + Takes(Nothing, a) => Unchanged(c.h, d.h, a)
        /\ h[a].rc >= Takes(x, a) + Takes(y, a)
    BY DEF Consumes, Holds
  <2>2. /\ Takes(x, a) \in {0, 1} /\ Takes(y, a) \in {0, 1} /\ Takes(c.r, a) \in {0, 1}
        /\ Takes(d.r, a) \in {0, 1} /\ h[a].rc \in Nat
    BY <1>1, TakesFacts, CellFacts
  <2>3. Takes(Nothing, a) = 0
    BY TakesNothing
  <2>. QED  BY <2>1, <2>2, <2>3
<1>3. ASSUME NEW a \in Addr
      PROVE  d.h[a].rc >= Takes(c.r, a) + Takes(d.r, a)
  BY <1>2
<1>6. Good(d.h, c.r) /\ TypeOf(d.h, c.r) = TypeOf(c.h, c.r) /\ ValueOf(d.h, c.r) = ValueOf(c.h, c.r)
  <2>1. c.r.a = Null => Good(d.h, c.r)
    BY <1>1, ValueFacts DEF Good
  <2>2. c.r.a # Null => Good(d.h, c.r)
    <3>. SUFFICES ASSUME c.r.a # Null PROVE Good(d.h, c.r)
      OBVIOUS
    <3>1. c.r = Pointer(c.r.a) /\ c.r.a \in Addr
      BY <1>1, ValueFacts
    <3>2. Takes(c.r, c.r.a) = 1
      BY DEF Takes
    <3>. QED  BY <1>2, <3>1, <3>2 DEF Good, Reference
  <2>3. TypeOf(d.h, c.r) = TypeOf(c.h, c.r) /\ ValueOf(d.h, c.r) = ValueOf(c.h, c.r)
    <3>1. c.r.a # Null => Unchanged(c.h, d.h, c.r.a)
      <4>. SUFFICES ASSUME c.r.a # Null PROVE Unchanged(c.h, d.h, c.r.a)
        OBVIOUS
      <4>1. c.r.a \in Addr
        BY <1>1, ValueFacts
      <4>2. Takes(c.r, c.r.a) = 1
        BY DEF Takes
      <4>. QED  BY <1>2, <4>1, <4>2
    <3>. QED  BY <3>1 DEF TypeOf, ValueOf, Unchanged
  <2>. QED  BY <2>1, <2>2, <2>3
<1>7. Holds(d.h, c.r, d.r)
  BY <1>1, <1>3, <1>6 DEF Holds
<1>8. ASSUME NEW e, Consumes(d.h, c.r, d.r, e)
      PROVE  Consumes(h, x, y, e)
  <2>1. ASSUME NEW a \in Addr
        PROVE  /\ e.h[a].rc = h[a].rc - Takes(x, a) - Takes(y, a) + Takes(e.r, a)
               /\ h[a].rc > Takes(x, a) + Takes(y, a) => Unchanged(h, e.h, a)
    <3>1. /\ e.h[a].rc = d.h[a].rc - Takes(c.r, a) - Takes(d.r, a) + Takes(e.r, a)
          /\ d.h[a].rc > Takes(c.r, a) + Takes(d.r, a) => Unchanged(d.h, e.h, a)
          /\ Takes(e.r, a) \in {0, 1}
      BY <1>8, TakesFacts DEF Consumes
    <3>2. h[a].rc > Takes(x, a) + Takes(y, a) =>
            /\ Unchanged(h, c.h, a) /\ Unchanged(c.h, d.h, a) /\ Unchanged(d.h, e.h, a)
      BY <1>2, <3>1
    <3>. QED  BY <1>2, <3>1, <3>2 DEF Unchanged
  <2>. QED  BY <1>8, <2>1 DEF Consumes
<1>. QED  BY <1>6, <1>7, <1>8
(***************************************************************************)
(* Types of values, and the conversions.                                   *)
(***************************************************************************)
LEMMA WholeRational ==
  ASSUME NEW n \in Int
  PROVE  <<n, 1>> \in Rational
BY DEF Rational, Pairs

LEMMA TypeFacts ==
  ASSUME NEW h, GoodHeap(h), NEW v, Good(h, v)
  PROVE  /\ TypeOf(h, v) \in {"I", "D", "Z", "N", "K", "B", "R", "S"}
         /\ TypeOf(h, v) \in {"B", "R", "S"} <=> v.a # Null
         /\ v.a = Null => TypeOf(h, v) = v.t /\ ValueOf(h, v) = v.q /\ Scalar(v)
         /\ v.a # Null => Kind(TypeOf(h, v), ValueOf(h, v))
         /\ TypeOf(h, v) = "I" => /\ v.q \in Int32 \X {1} /\ v.q[1] \in Int32
                                  /\ v.q = <<v.q[1], 1>> /\ v = Immediate("I", v.q)
         /\ TypeOf(h, v) = "D" => v = Immediate("D", v.q)
         /\ TypeOf(h, v) \in {"I", "B", "R"} => ValueOf(h, v) \in Rational
         /\ TypeOf(h, v) \in {"I", "B"} => ValueOf(h, v)[2] = 1
<1>1. CASE v.a = Null
  <2>1. Scalar(v) /\ TypeOf(h, v) = v.t /\ ValueOf(h, v) = v.q
    BY <1>1, ValueFacts DEF TypeOf, ValueOf
  <2>2. v.t \in {"I", "D", "Z", "N", "K"}
    BY <2>1 DEF Scalar, Immediate, Box
  <2>3. v.t = "I" => v = Immediate("I", v.q) /\ v.q \in Int32 \X {1}
    BY <2>1 DEF Scalar, Immediate, Box
  <2>4. v.t = "D" => v = Immediate("D", v.q)
    BY <2>1 DEF Scalar, Immediate, Box
  <2>5. v.t = "I" => /\ v.q[1] \in Int32 /\ v.q = <<v.q[1], 1>> /\ v.q[2] = 1
                     /\ v.q \in Rational
    <3>1. Int32 \subseteq Int
      BY HalfAssumption DEF Int32, MinInt
    <3>. SUFFICES ASSUME v.t = "I"
                  PROVE  /\ v.q[1] \in Int32 /\ v.q = <<v.q[1], 1>> /\ v.q[2] = 1
                         /\ v.q \in Rational
      OBVIOUS
    <3>2. v.q[1] \in Int32 /\ v.q[2] = 1 /\ v.q = <<v.q[1], 1>>
      BY <2>3
    <3>3. <<v.q[1], 1>> \in Rational
      BY <3>1, <3>2, WholeRational
    <3>. QED  BY <3>2, <3>3
  <2>. QED  BY <1>1, <2>1, <2>2, <2>3, <2>4, <2>5
<1>2. CASE v.a # Null
  <2>1. v.a \in Addr /\ h[v.a].rc > 0
    BY <1>2, ValueFacts
  <2>2. TypeOf(h, v) = h[v.a].tag /\ ValueOf(h, v) = h[v.a].info
    BY <1>2 DEF TypeOf, ValueOf
  <2>3. Kind(TypeOf(h, v), ValueOf(h, v))
    BY <2>1, <2>2, CellFacts
  <2>. QED  BY <1>2, <2>3 DEF Kind
<1>. QED  BY <1>1, <1>2

LEMMA DropScalar ==
  ASSUME NEW h, NEW v, v.a = Null
  PROVE  Drop(h, v) = h
BY DEF Drop, Release, IsPtr, Null

LEMMA UnaryRight ==
  ASSUME NEW h, NEW v, Holds(h, v, Nothing), NEW c, Consumes(h, Nothing, Nothing, c)
  PROVE  /\ Consumes(h, v, Nothing, Give(Drop(c.h, v), c.r))
         /\ SameResult(c, Give(Drop(c.h, v), c.r))
<1>1. GoodHeap(h)
  BY DEF Holds
<1>2. Holds(h, Nothing, v)
  BY <1>1, Swapped
<1>3. /\ Consumes(h, Nothing, v, Give(Drop(c.h, v), c.r))
      /\ SameResult(c, Give(Drop(c.h, v), c.r))
  BY <1>2, DropNext
<1>. QED  BY <1>1, <1>3, Swapped

LEMMA IsSame ==
  ASSUME NEW c, NEW d, NEW t, NEW q, Is(c, t, q), SameResult(c, d)
  PROVE  Is(d, t, q)
BY DEF Is, SameResult

LEMMA GiveScalar ==
  ASSUME NEW h, NEW v, Scalar(v)
  PROVE  Is(Give(h, v), v.t, v.q) /\ Give(h, v).h = h /\ Give(h, v).r = v /\ v.a = Null
<1>1. v.a = Null /\ v # Exception
  BY DEF Scalar, Immediate, Box, Exception
<1>. QED  BY <1>1 DEF Is, Give, TypeOf, ValueOf

(* What is given back in a word is all that remains of an operand.         *)
LEMMA ScalarRight ==
  ASSUME NEW h, NEW v, Holds(h, v, Nothing), NEW r, Scalar(r)
  PROVE  /\ Consumes(h, v, Nothing, Give(Drop(h, v), r))
         /\ Is(Give(Drop(h, v), r), r.t, r.q)
<1>1. GoodHeap(h)
  BY DEF Holds
<1>2. Consumes(h, Nothing, Nothing, Give(h, r)) /\ Is(Give(h, r), r.t, r.q)
  BY <1>1, ImmediateRight, GiveScalar
<1>3. Give(h, r).h = h /\ Give(h, r).r = r
  BY DEF Give
<1>. QED  BY <1>2, <1>3, UnaryRight, IsSame

LEMMA toDoubleRight ==
  ASSUME NEW h, NEW v, Holds(h, v, Nothing), TypeOf(h, v) \in Numeric
  PROVE  LET c == Numbers_toDouble(h, v)
             q == IF TypeOf(h, v) \in {"B", "R"} THEN Truncated(ValueOf(h, v)) ELSE ValueOf(h, v)
         IN  /\ Consumes(h, v, Nothing, c) /\ Is(c, "D", q)
             /\ c.r = Immediate("D", q)
<1>. DEFINE c == Numbers_toDouble(h, v)
            q == IF TypeOf(h, v) \in {"B", "R"} THEN Truncated(ValueOf(h, v)) ELSE ValueOf(h, v)
            r == Immediate("D", q)
<1>1. GoodHeap(h) /\ Good(h, v)
  BY DEF Holds
<1>2. Scalar(r) /\ r.t = "D" /\ r.q = q
  BY DEF Scalar, Immediate
<1>3. c = Give(Drop(h, v), r)
  <2>1. CASE TypeOf(h, v) \in {"B", "R"}
    BY <2>1 DEF Numbers_toDouble
  <2>2. CASE TypeOf(h, v) \in {"I", "D"}
    <3>1. Drop(h, v) = h
      BY <1>1, <2>2, TypeFacts, DropScalar
    <3>. QED  BY <2>2, <3>1 DEF Numbers_toDouble
  <2>. QED  BY <2>1, <2>2 DEF Numeric
<1>4. c.r = r
  BY <1>3 DEF Give
<1>. HIDE DEF c, q, r
<1>5. Consumes(h, v, Nothing, c) /\ Is(c, "D", q)
  BY <1>2, <1>3, ScalarRight
<1>. QED  BY <1>4, <1>5 DEF c, q, r

LEMMA toRatioRight ==
  ASSUME NEW h, NEW v, Holds(h, v, Nothing), TypeOf(h, v) \in {"I", "B", "R"}, Room(h, 1)
  PROVE  Consumes(h, v, Nothing, toRatio(h, v)) /\ Is(toRatio(h, v), "R", ValueOf(h, v))
<1>1. GoodHeap(h) /\ Good(h, v) /\ v # Exception
  BY ValueFacts DEF Holds
<1>2. ValueOf(h, v) \in Rational /\ Kind("R", ValueOf(h, v))
  BY <1>1, TypeFacts DEF Kind
<1>. DEFINE n == New(h, "R", ValueOf(h, v))
<1>3. Consumes(h, Nothing, Nothing, n) /\ Is(n, "R", ValueOf(h, v))
  BY <1>1, <1>2, NewRight
<1>4. /\ Consumes(h, v, Nothing, Give(Drop(n.h, v), n.r))
      /\ Is(Give(Drop(n.h, v), n.r), "R", ValueOf(h, v))
  BY <1>3, UnaryRight, IsSame
<1>5. CASE TypeOf(h, v) = "R"
  <2>1. toRatio(h, v) = Give(h, v)
    BY <1>5 DEF toRatio
  <2>. QED  BY <1>1, <1>5, <2>1, SelfRight DEF Is, Give
<1>6. CASE TypeOf(h, v) = "I"
  <2>1. ValueOf(h, v) = <<v.q[1], 1>> /\ v.a = Null
    BY <1>1, <1>6, TypeFacts
  <2>2. toRatio(h, v) = n
    BY <1>6, <2>1 DEF toRatio, Ratio_createFromInt
  <2>3. Give(Drop(n.h, v), n.r) = n
    BY <2>1, DropScalar DEF New, Pointing, Give
  <2>. QED  BY <1>4, <2>2, <2>3
<1>7. CASE TypeOf(h, v) = "B"
  <2>1. toRatio(h, v) = Give(Drop(n.h, v), n.r)
    BY <1>7 DEF toRatio, Ratio_createFromBigInteger, Replaces
  <2>. QED  BY <1>4, <2>1
<1>. QED  BY <1>5, <1>6, <1>7

LEMMA toBigIntRight ==
  ASSUME NEW h, NEW v, Holds(h, v, Nothing), TypeOf(h, v) \in {"I", "B"}, Room(h, 1)
  PROVE  Consumes(h, v, Nothing, toBigInt(h, v)) /\ Is(toBigInt(h, v), "B", ValueOf(h, v))
<1>1. GoodHeap(h) /\ Good(h, v) /\ v # Exception
  BY ValueFacts DEF Holds
<1>2. ValueOf(h, v) \in Rational /\ Kind("B", ValueOf(h, v))
  BY <1>1, TypeFacts DEF Kind
<1>. DEFINE n == New(h, "B", ValueOf(h, v))
<1>3. Consumes(h, Nothing, Nothing, n) /\ Is(n, "B", ValueOf(h, v))
  BY <1>1, <1>2, NewRight
<1>4. /\ Consumes(h, v, Nothing, Give(Drop(n.h, v), n.r))
      /\ Is(Give(Drop(n.h, v), n.r), "B", ValueOf(h, v))
  BY <1>3, UnaryRight, IsSame
<1>5. CASE TypeOf(h, v) = "B"
  <2>1. toBigInt(h, v) = Give(h, v)
    BY <1>5 DEF toBigInt
  <2>. QED  BY <1>1, <1>5, <2>1, SelfRight DEF Is, Give
<1>6. CASE TypeOf(h, v) = "I"
  <2>1. ValueOf(h, v) = <<v.q[1], 1>> /\ v.a = Null
    BY <1>1, <1>6, TypeFacts
  <2>2. toBigInt(h, v) = n
    BY <1>6, <2>1 DEF toBigInt, BigInteger_createFromInt
  <2>3. Give(Drop(n.h, v), n.r) = n
    BY <2>1, DropScalar DEF New, Pointing, Give
  <2>. QED  BY <1>4, <2>2, <2>3
<1>. QED  BY <1>5, <1>6

(***************************************************************************)
(* The operations.  A call that gives a number of a type, and one that     *)
(* throws; in both cases the operands are consumed.                        *)
(***************************************************************************)
Gives(h, x, y, call, t, q) == Consumes(h, x, y, call) /\ Is(call, t, q)
Fails(h, x, y, call) == Consumes(h, x, y, call) /\ call.r = Exception

LEMMA BoxScalar ==
  ASSUME NEW b
  PROVE  Scalar(Box(b)) /\ Box(b).t = "Z" /\ Box(b).a = Null
BY DEF Scalar, Box, Immediate

LEMMA ThrowsRight ==
  ASSUME NEW h, NEW x, NEW y, Holds(h, x, y)
  PROVE  Fails(h, x, y, ThrowsReleasing(h, x, y))
<1>1. Consumes(h, Nothing, Nothing, Give(h, Exception))
  BY ImmediateRight DEF Holds
<1>2. Releasing(Give(h, Exception), x, y) = ThrowsReleasing(h, x, y)
  BY DEF Releasing, ThrowsReleasing, Give
<1>3. ThrowsReleasing(h, x, y).r = Exception
  BY DEF ThrowsReleasing, Give
<1>. QED  BY <1>1, <1>2, <1>3, ReleasingRight DEF Fails

LEMMA TestRight ==
  ASSUME NEW h, NEW x, NEW y, Holds(h, x, y), NEW b
  PROVE  Gives(h, x, y, Give(DropBoth(h, x, y), Box(b)), "Z", Box(b).q)
<1>1. Consumes(h, Nothing, Nothing, Give(h, Box(b))) /\ Is(Give(h, Box(b)), "Z", Box(b).q)
  BY BoxScalar, ImmediateRight, GiveScalar DEF Holds
<1>2. Releasing(Give(h, Box(b)), x, y) = Give(DropBoth(h, x, y), Box(b))
  BY DEF Releasing, Give
<1>. QED  BY <1>1, <1>2, ReleasingRight, IsSame DEF Gives

(* A number that has no other owner is overwritten.                        *)
LEMMA ReuseRight ==
  ASSUME NEW h, NEW x, NEW y, Holds(h, x, y), x.a # Null, h[x.a].rc = 1,
         NEW q, Kind(h[x.a].tag, q)
  PROVE  Gives(h, x, y, Give(Drop([h EXCEPT ![x.a].info = q], y), x), h[x.a].tag, q)
<1>. DEFINE g == [h EXCEPT ![x.a].info = q]
            c == [h[x.a] EXCEPT !.info = q]
<1>1. GoodHeap(h) /\ Good(h, x) /\ x.a \in Addr /\ x = Pointer(x.a) /\ x # Exception
  BY ValueFacts DEF Holds
<1>2. h \in [Addr -> Cell] /\ h[x.a] \in Cell
  BY <1>1 DEF GoodHeap
<1>3. /\ c \in Cell /\ c.rc = 1 /\ c.tag = h[x.a].tag /\ c.info = q /\ c.tag # "free"
  BY <1>2, KindFacts DEF Cell
<1>4. g = [h EXCEPT ![x.a] = c]
  BY <1>1, <1>2
<1>. HIDE DEF g, c
<1>5. GoodHeap(g)
  <2>1. c.rc > 0 /\ Kind(c.tag, c.info)
    BY <1>3
  <2>. QED  BY <1>1, <1>3, <1>4, <2>1, StoreRight
<1>6. ASSUME NEW a \in Addr
      PROVE  g[a] = IF a = x.a THEN c ELSE h[a]
  BY <1>1, <1>2, <1>4
<1>7. Give(g, x).h = g /\ Give(g, x).r = x
  BY DEF Give
<1>8. Good(g, x)
  BY <1>1, <1>3, <1>6 DEF Good, Reference
<1>9. ASSUME NEW a \in Addr
      PROVE  /\ g[a].rc = h[a].rc - Takes(x, a) - Takes(Nothing, a) + Takes(x, a)
             /\ h[a].rc > Takes(x, a) + Takes(Nothing, a) => Unchanged(h, g, a)
  <2>1. h[a].rc \in Nat /\ Takes(Nothing, a) = 0 /\ Takes(x, a) \in {0, 1}
    BY <1>1, CellFacts, TakesNothing, TakesFacts
  <2>2. CASE a = x.a
    BY <2>1, <2>2, <1>3, <1>6 DEF Takes
  <2>3. CASE a # x.a
    <3>1. g[a] = h[a]
      BY <2>3, <1>6
    <3>. QED  BY <2>1, <3>1 DEF Unchanged
  <2>. QED  BY <2>2, <2>3
<1>10. Consumes(h, x, Nothing, Give(g, x))
  BY <1>5, <1>7, <1>8, <1>9 DEF Consumes
<1>11. Is(Give(g, x), h[x.a].tag, q)
  BY <1>1, <1>3, <1>6, <1>7 DEF Is, TypeOf, ValueOf
<1>12. Give(Drop(Give(g, x).h, y), Give(g, x).r) = Give(Drop(g, y), x)
  BY <1>7
<1>13. Consumes(h, x, y, Give(Drop(g, y), x)) /\ SameResult(Give(g, x), Give(Drop(g, y), x))
  BY <1>10, <1>12, DropNext
<1>. QED  BY <1>11, <1>13, IsSame DEF Gives, g

LEMMA IntoRight ==
  ASSUME NEW h, NEW x, NEW y, Holds(h, x, y), Room(h, 1), NEW t, NEW q, Kind(t, q),
         TypeOf(h, x) = t, TypeOf(h, y) = t, x.a # Null, y.a # Null
  PROVE  Gives(h, x, y, IntoReusable(h, x, y, t, q), t, q)
<1>1. h[x.a].tag = t /\ h[y.a].tag = t /\ GoodHeap(h)
  BY DEF TypeOf, Holds
<1>2. CASE IsReusable(h, x.a)
  <2>1. IntoReusable(h, x, y, t, q) = Give(Drop([h EXCEPT ![x.a].info = q], y), x)
    BY <1>2 DEF IntoReusable
  <2>. QED  BY <1>1, <1>2, <2>1, ReuseRight DEF IsReusable
<1>3. CASE ~IsReusable(h, x.a) /\ IsReusable(h, y.a)
  <2>1. IntoReusable(h, x, y, t, q) = Give(Drop([h EXCEPT ![y.a].info = q], x), y)
    BY <1>3 DEF IntoReusable
  <2>2. Holds(h, y, x)
    BY <1>1, Swapped
  <2>3. Gives(h, y, x, IntoReusable(h, x, y, t, q), t, q)
    BY <1>1, <1>3, <2>1, <2>2, ReuseRight DEF IsReusable
  <2>. QED  BY <1>1, <2>3, Swapped DEF Gives
<1>4. CASE ~IsReusable(h, x.a) /\ ~IsReusable(h, y.a)
  <2>1. IntoReusable(h, x, y, t, q) = Releasing(New(h, t, q), x, y)
    BY <1>4 DEF IntoReusable
  <2>. QED  BY <1>1, <2>1, NewRight, ReleasingRight, IsSame DEF Gives
<1>. QED  BY <1>2, <1>3, <1>4

(* A step that continues with the result of a call.                        *)
LEMMA Continues ==
  ASSUME NEW h, NEW x, NEW y, Holds(h, x, y), NEW c, Consumes(h, x, y, c), c.r # Exception
  PROVE  /\ Holds(c.h, c.r, Nothing)
         /\ \A d : Consumes(c.h, c.r, Nothing, d) => Consumes(h, x, y, d)
<1>1. GoodHeap(h) /\ GoodHeap(c.h) /\ Good(c.h, c.r)
  BY DEF Holds, Consumes
<1>2. ASSUME NEW a \in Addr
      PROVE  /\ h[a].rc \in Nat /\ h[a].rc >= Takes(x, a) + Takes(y, a)
             /\ c.h[a].rc = h[a].rc - Takes(x, a) - Takes(y, a) + Takes(c.r, a)
             /\ h[a].rc > Takes(x, a) + Takes(y, a) => Unchanged(h, c.h, a)
             /\ Takes(x, a) \in {0, 1} /\ Takes(y, a) \in {0, 1} /\ Takes(c.r, a) \in {0, 1}
             /\ Takes(Nothing, a) = 0
  BY <1>1, TakesFacts, TakesNothing, CellFacts DEF Consumes, Holds
<1>3. Holds(c.h, c.r, Nothing)
  <2>1. ASSUME NEW a \in Addr
        PROVE  c.h[a].rc >= Takes(c.r, a) + Takes(Nothing, a)
    BY <1>2
  <2>. QED  BY <1>1, <2>1, NothingHeld DEF Holds
<1>4. ASSUME NEW d, Consumes(c.h, c.r, Nothing, d)
      PROVE  Consumes(h, x, y, d)
  <2>1. ASSUME NEW a \in Addr
        PROVE  /\ d.h[a].rc = h[a].rc - Takes(x, a) - Takes(y, a) + Takes(d.r, a)
               /\ h[a].rc > Takes(x, a) + Takes(y, a) => Unchanged(h, d.h, a)
    <3>1. /\ d.h[a].rc = c.h[a].rc - Takes(c.r, a) - Takes(Nothing, a) + Takes(d.r, a)
          /\ c.h[a].rc > Takes(c.r, a) + Takes(Nothing, a) => Unchanged(c.h, d.h, a)
          /\ Takes(d.r, a) \in {0, 1}
      BY <1>4, TakesFacts DEF Consumes
    <3>2. h[a].rc > Takes(x, a) + Takes(y, a) =>
            (Unchanged(h, c.h, a) /\ Unchanged(c.h, d.h, a))
      BY <1>2, <3>1
    <3>. QED  BY <1>2, <3>1, <3>2 DEF Unchanged
  <2>. QED  BY <1>4, <2>1 DEF Consumes
<1>. QED  BY <1>3, <1>4

(* A ratio that turned out whole, and a big integer that fits a word.      *)
LEMMA SimplifyRight ==
  ASSUME NEW h, NEW v, Holds(h, v, Nothing), TypeOf(h, v) = "R", Room(h, 1)
  PROVE  Gives(h, v, Nothing, Ratio_simplify(h, v),
               IF ValueOf(h, v)[2] = 1 THEN "B" ELSE "R", ValueOf(h, v))
<1>. DEFINE q == ValueOf(h, v)
            n == New(h, "B", q)
<1>1. GoodHeap(h) /\ Good(h, v) /\ v # Exception /\ q \in Rational
  BY ValueFacts, TypeFacts DEF Holds
<1>2. CASE q[2] = 1
  <2>1. Kind("B", q)
    BY <1>1, <1>2 DEF Kind
  <2>2. Ratio_simplify(h, v) = Give(Drop(n.h, v), n.r)
    BY <1>2 DEF Ratio_simplify, Replaces
  <2>3. Consumes(h, Nothing, Nothing, n) /\ Is(n, "B", q)
    BY <1>1, <2>1, NewRight
  <2>. HIDE DEF n
  <2>. QED  BY <1>2, <2>2, <2>3, UnaryRight, IsSame DEF Gives
<1>3. CASE q[2] # 1
  <2>1. Ratio_simplify(h, v) = Give(h, v)
    BY <1>3 DEF Ratio_simplify
  <2>2. Is(Give(h, v), "R", q)
    BY <1>1 DEF Is, Give
  <2>. QED  BY <1>3, <2>1, <2>2, SelfRight DEF Gives
<1>. QED  BY <1>2, <1>3

LEMMA NarrowRight ==
  ASSUME NEW h, NEW v, Holds(h, v, Nothing)
  PROVE  Gives(h, v, Nothing, narrowBigInt(h, v),
               IF TypeOf(h, v) = "B" /\ ValueOf(h, v)[1] \in Int32 THEN "I" ELSE TypeOf(h, v),
               ValueOf(h, v))
<1>. DEFINE q == ValueOf(h, v)
            r == Immediate("I", q)
<1>1. GoodHeap(h) /\ Good(h, v) /\ v # Exception
  BY ValueFacts DEF Holds
<1>2. CASE TypeOf(h, v) = "B" /\ q[1] \in Int32
  <2>1. q \in Rational /\ q[2] = 1
    BY <1>1, <1>2, TypeFacts
  <2>2. q \in Int32 \X {1}
    BY <1>2, <2>1 DEF Rational, Pairs
  <2>3. Scalar(r) /\ r.t = "I" /\ r.q = q
    BY <2>2 DEF Scalar, Immediate
  <2>4. narrowBigInt(h, v) = Give(Drop(h, v), r)
    BY <1>2 DEF narrowBigInt
  <2>. HIDE DEF r
  <2>. QED  BY <1>2, <2>3, <2>4, ScalarRight DEF Gives
<1>3. CASE ~(TypeOf(h, v) = "B" /\ q[1] \in Int32)
  <2>1. narrowBigInt(h, v) = Give(h, v)
    BY <1>3 DEF narrowBigInt
  <2>2. Is(Give(h, v), TypeOf(h, v), q)
    BY <1>1 DEF Is, Give
  <2>. QED  BY <1>3, <2>1, <2>2, SelfRight DEF Gives
<1>. QED  BY <1>2, <1>3

(* BigInteger_add ..., and Ratio_add ...; r is the exact result.           *)
LEMMA BigIntegerRight ==
  ASSUME NEW h, NEW x, NEW y, Holds(h, x, y), Room(h, 1), NEW op \in MathOps,
         TypeOf(h, x) = "B", TypeOf(h, y) = "B"
  PROVE  LET q == ValueOf(h, y)
             r == Exact(op, ValueOf(h, x), q)
             c == BigInteger_op(h, op, x, y)
         IN  /\ op = "div" /\ q = Zero => Fails(h, x, y, c)
             /\ ~(op = "div" /\ q = Zero) =>
                  Gives(h, x, y, c, IF r[2] = 1 THEN "B" ELSE "R", r)
<1>. DEFINE q == ValueOf(h, y)
            r == Exact(op, ValueOf(h, x), q)
            c == BigInteger_op(h, op, x, y)
<1>1. /\ GoodHeap(h) /\ ValueOf(h, x) \in Rational /\ q \in Rational
      /\ x.a # Null /\ y.a # Null
  BY TypeFacts DEF Holds
<1>2. CASE op = "div" /\ q = Zero
  <2>1. c = ThrowsReleasing(h, x, y)
    BY <1>2 DEF BigInteger_op
  <2>. QED  BY <1>2, <2>1, ThrowsRight
<1>3. CASE ~(op = "div" /\ q = Zero)
  <2>1. r \in Rational
    BY <1>1, <1>3, ExactRight
  <2>2. c = BigIntegerResult(h, x, y, r)
    BY <1>3 DEF BigInteger_op
  <2>3. CASE r[2] = 1
    <3>1. Kind("B", r)
      BY <2>1, <2>3 DEF Kind
    <3>2. c = IntoReusable(h, x, y, "B", r)
      BY <2>2, <2>3 DEF BigIntegerResult
    <3>. HIDE DEF r, c
    <3>3. Gives(h, x, y, c, "B", r)
      BY <1>1, <3>1, <3>2, IntoRight
    <3>. QED  BY <1>3, <2>3, <3>3 DEF r, c
  <2>4. CASE r[2] # 1
    <3>1. Kind("R", r)
      BY <2>1 DEF Kind
    <3>2. c = Releasing(New(h, "R", r), x, y)
      BY <2>2, <2>4 DEF BigIntegerResult
    <3>. HIDE DEF r, c
    <3>3. Gives(h, x, y, c, "R", r)
      BY <1>1, <3>1, <3>2, NewRight, ReleasingRight, IsSame DEF Gives
    <3>. QED  BY <1>3, <2>4, <3>3 DEF r, c
  <2>. QED  BY <2>3, <2>4
<1>. QED  BY <1>2, <1>3

LEMMA RatioRight ==
  ASSUME NEW h, NEW x, NEW y, Holds(h, x, y), Room(h, 2), NEW op \in MathOps,
         TypeOf(h, x) = "R", TypeOf(h, y) = "R"
  PROVE  LET q == ValueOf(h, y)
             r == Exact(op, ValueOf(h, x), q)
             c == Ratio_op(h, op, x, y)
         IN  /\ op = "div" /\ q = Zero => Fails(h, x, y, c)
             /\ ~(op = "div" /\ q = Zero) =>
                  Gives(h, x, y, c, IF r[2] = 1 THEN "B" ELSE "R", r)
<1>. DEFINE q == ValueOf(h, y)
            r == Exact(op, ValueOf(h, x), q)
            c == Ratio_op(h, op, x, y)
            i == IntoReusable(h, x, y, "R", r)
<1>1. /\ GoodHeap(h) /\ ValueOf(h, x) \in Rational /\ q \in Rational
      /\ x.a # Null /\ y.a # Null
  BY TypeFacts DEF Holds
<1>2. CASE op = "div" /\ q = Zero
  <2>1. c = ThrowsReleasing(h, x, y)
    BY <1>2 DEF Ratio_op
  <2>. QED  BY <1>2, <2>1, ThrowsRight
<1>3. CASE ~(op = "div" /\ q = Zero)
  <2>1. r \in Rational /\ Kind("R", r)
    BY <1>1, <1>3, ExactRight DEF Kind
  <2>2. c = Ratio_simplify(i.h, i.r)
    BY <1>3 DEF Ratio_op, Simplified
  <2>3. Room(h, 1)
    BY UsedFacts, MaxObjAssumption DEF Room
  <2>. HIDE DEF r, c
  <2>4. Gives(h, x, y, i, "R", r)
    BY <1>1, <2>1, <2>3, IntoRight
  <2>. HIDE DEF i
  <2>5. /\ Holds(i.h, i.r, Nothing) /\ TypeOf(i.h, i.r) = "R" /\ ValueOf(i.h, i.r) = r
        /\ \A d : Consumes(i.h, i.r, Nothing, d) => Consumes(h, x, y, d)
    BY <2>4, Continues DEF Gives, Is
  <2>6. Room(i.h, 1)
    <3>1. 1 \in Nat /\ Room(h, 1 + 1)
      OBVIOUS
    <3>2. Consumes(h, x, y, i)
      BY <2>4 DEF Gives
    <3>. QED  BY <1>1, <3>1, <3>2, RoomLeft, Zenon
  <2>7. Gives(i.h, i.r, Nothing, c, IF r[2] = 1 THEN "B" ELSE "R", r)
    BY <2>2, <2>5, <2>6, SimplifyRight
  <2>8. Gives(h, x, y, c, IF r[2] = 1 THEN "B" ELSE "R", r)
    BY <2>5, <2>7 DEF Gives
  <2>. QED  BY <1>3, <2>8 DEF r, c
<1>. QED  BY <1>2, <1>3

(***************************************************************************)
(* Operands of two types: each is converted first.                         *)
(***************************************************************************)
AsDouble(t, q) == IF t \in {"B", "R"} THEN Truncated(q) ELSE q

(* The first conversion leaves the other operand alone.                    *)
LEMMA SecondHeld ==
  ASSUME NEW h, NEW x, NEW y, Holds(h, x, y), NEW c, Consumes(h, x, Nothing, c)
  PROVE  /\ Holds(c.h, y, Nothing)
         /\ TypeOf(c.h, y) = TypeOf(h, y) /\ ValueOf(c.h, y) = ValueOf(h, y)
<1>1. GoodHeap(h) /\ GoodHeap(c.h) /\ Good(h, y)
  BY DEF Holds, Consumes
<1>2. ASSUME NEW a \in Addr
      PROVE  /\ h[a].rc \in Nat /\ c.h[a].rc >= Takes(y, a) + Takes(Nothing, a)
             /\ y.a = a => Unchanged(h, c.h, a) /\ c.h[a].rc > 0
  <2>1. /\ h[a].rc \in Nat /\ Takes(Nothing, a) = 0 /\ h[a].rc >= Takes(x, a) + Takes(y, a)
        /\ c.h[a].rc = h[a].rc - Takes(x, a) - Takes(Nothing, a) + Takes(c.r, a)
        /\ h[a].rc > Takes(x, a) + Takes(Nothing, a) => Unchanged(h, c.h, a)
    BY <1>1, TakesNothing, CellFacts DEF Consumes, Holds
  <2>2. /\ Takes(x, a) \in {0, 1} /\ Takes(y, a) \in {0, 1} /\ Takes(c.r, a) \in {0, 1}
        /\ y.a = a => Takes(y, a) = 1
    BY TakesFacts
  <2>. QED  BY <2>1, <2>2
<1>3. CASE y.a = Null
  <2>1. Scalar(y)
    BY <1>1, <1>3, ValueFacts
  <2>. QED  BY <1>1, <1>2, <1>3, <2>1, NothingHeld DEF Holds, Good, TypeOf, ValueOf
<1>4. CASE y.a # Null
  <2>1. y = Pointer(y.a) /\ y.a \in Addr
    BY <1>1, <1>4, ValueFacts
  <2>2. c.h[y.a].rc > 0 /\ Unchanged(h, c.h, y.a)
    BY <1>2, <2>1
  <2>3. Good(c.h, y)
    BY <2>1, <2>2 DEF Good, Reference
  <2>. QED  BY <1>1, <1>2, <1>4, <2>2, <2>3, NothingHeld DEF Holds, TypeOf, ValueOf, Unchanged
<1>. QED  BY <1>3, <1>4

LEMMA BothConverted ==
  ASSUME NEW h, NEW x, NEW y, Holds(h, x, y),
         NEW a, NEW t, NEW p, Gives(h, x, Nothing, a, t, p),
         NEW b, NEW u, NEW q, Gives(a.h, y, Nothing, b, u, q)
  PROVE  /\ Holds(b.h, a.r, b.r)
         /\ TypeOf(b.h, a.r) = t /\ ValueOf(b.h, a.r) = p
         /\ TypeOf(b.h, b.r) = u /\ ValueOf(b.h, b.r) = q
         /\ \A e : Consumes(b.h, a.r, b.r, e) => Consumes(h, x, y, e)
<1>1. /\ Consumes(h, x, Nothing, a) /\ a.r # Exception
      /\ TypeOf(a.h, a.r) = t /\ ValueOf(a.h, a.r) = p
  BY DEF Gives, Is
<1>2. /\ Consumes(a.h, y, Nothing, b) /\ b.r # Exception
      /\ TypeOf(b.h, b.r) = u /\ ValueOf(b.h, b.r) = q
  BY DEF Gives, Is
<1>. QED  BY <1>1, <1>2, Conversions

LEMMA DoublesRight ==
  ASSUME NEW h, NEW x, NEW y, Holds(h, x, y),
         TypeOf(h, x) \in Numeric, TypeOf(h, y) \in Numeric
  PROVE  LET a == Numbers_toDouble(h, x)
             b == Numbers_toDouble(a.h, y)
         IN  /\ a.r = Immediate("D", AsDouble(TypeOf(h, x), ValueOf(h, x)))
             /\ b.r = Immediate("D", AsDouble(TypeOf(h, y), ValueOf(h, y)))
             /\ \A r : Scalar(r) => Gives(h, x, y, Give(b.h, r), r.t, r.q)
<1>. DEFINE a == Numbers_toDouble(h, x)
            b == Numbers_toDouble(a.h, y)
            p == AsDouble(TypeOf(h, x), ValueOf(h, x))
            q == AsDouble(TypeOf(h, y), ValueOf(h, y))
<1>1. GoodHeap(h) /\ Holds(h, x, Nothing)
  BY Swapped DEF Holds
<1>2. Gives(h, x, Nothing, a, "D", p) /\ a.r = Immediate("D", p)
  BY <1>1, toDoubleRight DEF Gives, AsDouble
<1>. HIDE DEF a
<1>3. Holds(a.h, y, Nothing) /\ TypeOf(a.h, y) = TypeOf(h, y) /\ ValueOf(a.h, y) = ValueOf(h, y)
  BY <1>2, SecondHeld DEF Gives
<1>4. Gives(a.h, y, Nothing, b, "D", q) /\ b.r = Immediate("D", q)
  BY <1>3, toDoubleRight DEF Gives, AsDouble
<1>. HIDE DEF b, p, q
<1>5. /\ Holds(b.h, a.r, b.r)
      /\ \A e : Consumes(b.h, a.r, b.r, e) => Consumes(h, x, y, e)
  BY <1>2, <1>4, BothConverted
<1>6. a.r.a = Null /\ b.r.a = Null
  BY <1>2, <1>4 DEF Immediate
<1>7. ASSUME NEW r, Scalar(r)
      PROVE  Gives(h, x, y, Give(b.h, r), r.t, r.q)
  <2>1. Consumes(b.h, Nothing, Nothing, Give(b.h, r)) /\ Is(Give(b.h, r), r.t, r.q)
    BY <1>5, <1>7, ImmediateRight, GiveScalar DEF Holds
  <2>2. Releasing(Give(b.h, r), a.r, b.r) = Give(b.h, r)
    BY <1>6, DropScalar DEF Releasing, DropBoth, Give
  <2>3. Consumes(b.h, a.r, b.r, Give(b.h, r))
    BY <1>5, <2>1, <2>2, ReleasingRight
  <2>. QED  BY <1>5, <2>1, <2>3 DEF Gives
<1>. QED  BY <1>2, <1>4, <1>7 DEF a, b, p, q

LEMMA MoreRoom ==
  ASSUME NEW h, NEW n \in Nat, Room(h, n), NEW m \in Nat, m <= n
  PROVE  Room(h, m)
BY UsedFacts, MaxObjAssumption DEF Room

LEMMA RatiosRight ==
  ASSUME NEW h, NEW x, NEW y, Holds(h, x, y), Room(h, 4),
         TypeOf(h, x) \in {"I", "B", "R"}, TypeOf(h, y) \in {"I", "B", "R"}
  PROVE  LET a == toRatio(h, x)
             b == toRatio(a.h, y)
         IN  /\ Holds(b.h, a.r, b.r) /\ Room(b.h, 2)
             /\ TypeOf(b.h, a.r) = "R" /\ ValueOf(b.h, a.r) = ValueOf(h, x)
             /\ TypeOf(b.h, b.r) = "R" /\ ValueOf(b.h, b.r) = ValueOf(h, y)
             /\ \A e : Consumes(b.h, a.r, b.r, e) => Consumes(h, x, y, e)
<1>. DEFINE a == toRatio(h, x)
            b == toRatio(a.h, y)
<1>1. GoodHeap(h) /\ Holds(h, x, Nothing)
  BY Swapped DEF Holds
<1>2. Room(h, 1) /\ 3 \in Nat /\ Room(h, 3 + 1) /\ 2 \in Nat
  BY MoreRoom
<1>3. Gives(h, x, Nothing, a, "R", ValueOf(h, x))
  BY <1>1, <1>2, toRatioRight DEF Gives
<1>. HIDE DEF a
<1>4. Holds(a.h, y, Nothing) /\ TypeOf(a.h, y) = TypeOf(h, y) /\ ValueOf(a.h, y) = ValueOf(h, y)
  BY <1>3, SecondHeld DEF Gives
<1>5. Room(a.h, 3)
  <2>1. Consumes(h, x, Nothing, a)
    BY <1>3 DEF Gives
  <2>. QED  BY <1>1, <1>2, <2>1, RoomLeft, Zenon
<1>6. Gives(a.h, y, Nothing, b, "R", ValueOf(h, y))
  <2>1. Room(a.h, 1)
    BY <1>5, MoreRoom
  <2>. QED  BY <1>4, <2>1, toRatioRight DEF Gives
<1>. HIDE DEF b
<1>7. Room(b.h, 2)
  <2>1. Consumes(a.h, y, Nothing, b) /\ GoodHeap(a.h)
    BY <1>4, <1>6 DEF Gives, Holds
  <2>2. Room(a.h, 2 + 1)
    BY <1>5
  <2>. QED  BY <1>2, <2>1, <2>2, RoomLeft, Zenon
<1>. QED  BY <1>3, <1>6, <1>7, BothConverted DEF a, b

LEMMA BigIntsRight ==
  ASSUME NEW h, NEW x, NEW y, Holds(h, x, y), Room(h, 4),
         TypeOf(h, x) \in {"I", "B"}, TypeOf(h, y) \in {"I", "B"}
  PROVE  LET a == toBigInt(h, x)
             b == toBigInt(a.h, y)
         IN  /\ Holds(b.h, a.r, b.r) /\ Room(b.h, 2)
             /\ TypeOf(b.h, a.r) = "B" /\ ValueOf(b.h, a.r) = ValueOf(h, x)
             /\ TypeOf(b.h, b.r) = "B" /\ ValueOf(b.h, b.r) = ValueOf(h, y)
             /\ \A e : Consumes(b.h, a.r, b.r, e) => Consumes(h, x, y, e)
<1>. DEFINE a == toBigInt(h, x)
            b == toBigInt(a.h, y)
<1>1. GoodHeap(h) /\ Holds(h, x, Nothing)
  BY Swapped DEF Holds
<1>2. Room(h, 1) /\ 3 \in Nat /\ Room(h, 3 + 1) /\ 2 \in Nat
  BY MoreRoom
<1>3. Gives(h, x, Nothing, a, "B", ValueOf(h, x))
  BY <1>1, <1>2, toBigIntRight DEF Gives
<1>. HIDE DEF a
<1>4. Holds(a.h, y, Nothing) /\ TypeOf(a.h, y) = TypeOf(h, y) /\ ValueOf(a.h, y) = ValueOf(h, y)
  BY <1>3, SecondHeld DEF Gives
<1>5. Room(a.h, 3)
  <2>1. Consumes(h, x, Nothing, a)
    BY <1>3 DEF Gives
  <2>. QED  BY <1>1, <1>2, <2>1, RoomLeft, Zenon
<1>6. Gives(a.h, y, Nothing, b, "B", ValueOf(h, y))
  <2>1. Room(a.h, 1)
    BY <1>5, MoreRoom
  <2>. QED  BY <1>4, <2>1, toBigIntRight DEF Gives
<1>. HIDE DEF b
<1>7. Room(b.h, 2)
  <2>1. Consumes(a.h, y, Nothing, b) /\ GoodHeap(a.h)
    BY <1>4, <1>6 DEF Gives, Holds
  <2>2. Room(a.h, 2 + 1)
    BY <1>5
  <2>. QED  BY <1>2, <2>1, <2>2, RoomLeft, Zenon
<1>. QED  BY <1>3, <1>6, <1>7, BothConverted DEF a, b

(***************************************************************************)
(* What a call should give, case by case.                                  *)
(***************************************************************************)
Exacts == {"I", "B", "R"}

LEMMA OpKinds ==
  ASSUME NEW op \in Ops
  PROVE  /\ op \in MathOps <=> op \notin CmpOps \cup {"equiv"}
         /\ op \in MathOps \cup CmpOps \cup {"equiv"}
         /\ op = "equiv" => op \notin MathOps /\ op \notin CmpOps
         /\ op \in CmpOps => op # "equiv"
         /\ op \in MathOps => op # "equiv" /\ op \in {"add", "sub", "mul", "div"}
BY DEF Ops, MathOps, CmpOps

LEMMA AnswerOfDoubles ==
  ASSUME NEW op \in Ops, NEW t \in Numeric, NEW p, NEW u \in Numeric, NEW q, "D" \in {t, u}
  PROVE  LET c == AsDouble(t, p)
             d == AsDouble(u, q)
         IN  Answer(op, t, p, u, q) = IF op \in MathOps THEN Immediate("D", Float(op, c, d))
                                      ELSE Box(Compare(op, c, d))
<1>1. {t, u} \subseteq Numeric
  OBVIOUS
<1>2. ~({t, u} \subseteq Numeric \ {"D"}) /\ {t, u} # {"I"}
  OBVIOUS
<1>3. CASE op = "equiv"
  BY <1>1, <1>3, OpKinds DEF Answer, AsDouble
<1>4. CASE op \in CmpOps
  BY <1>1, <1>4, OpKinds DEF Answer, AsDouble
<1>5. CASE op \in MathOps
  BY <1>1, <1>2, <1>5, OpKinds DEF Answer, AsDouble
<1>. QED  BY <1>3, <1>4, <1>5, OpKinds

LEMMA AnswerOfExacts ==
  ASSUME NEW op \in MathOps, NEW t \in Exacts, NEW p, NEW u \in Exacts, NEW q,
         ~(op = "div" /\ q = Zero), op = "div" \/ t # "I" \/ u # "I" \/ Exact(op, p, q)[1] \in Int32
  PROVE  Answer(op, t, p, u, q) = Immediate("exact", Exact(op, p, q))
<1>1. {t, u} \subseteq Numeric /\ {t, u} \subseteq Numeric \ {"D"} /\ "D" \notin {t, u}
  BY DEF Exacts, Numeric
<1>2. op # "equiv" /\ op \notin CmpOps
  BY OpKinds DEF Ops
<1>3. CASE op = "div"
  BY <1>1, <1>2, <1>3 DEF Answer
<1>4. CASE op # "div"
  BY <1>1, <1>2, <1>4 DEF Answer
<1>. QED  BY <1>3, <1>4

LEMMA AnswerOfFailures ==
  ASSUME NEW op \in MathOps, NEW t \in Exacts, NEW p, NEW u \in Exacts, NEW q,
         \/ op = "div" /\ q = Zero
         \/ op # "div" /\ t = "I" /\ u = "I" /\ Exact(op, p, q)[1] \notin Int32
  PROVE  Answer(op, t, p, u, q) = Exception
<1>1. {t, u} \subseteq Numeric /\ {t, u} \subseteq Numeric \ {"D"} /\ "D" \notin {t, u}
  BY DEF Exacts, Numeric
<1>2. op # "equiv" /\ op \notin CmpOps
  BY OpKinds DEF Ops
<1>3. CASE op = "div"
  BY <1>1, <1>2, <1>3 DEF Answer
<1>4. CASE op # "div"
  BY <1>1, <1>2, <1>4 DEF Answer
<1>. QED  BY <1>3, <1>4

LEMMA AnswerOfTests ==
  ASSUME NEW op \in CmpOps, NEW t \in Exacts, NEW p, NEW u \in Exacts, NEW q
  PROVE  Answer(op, t, p, u, q) = Box(Compare(op, p, q))
<1>1. {t, u} \subseteq Numeric /\ "D" \notin {t, u}
  BY DEF Exacts, Numeric
<1>2. op # "equiv" /\ op \notin MathOps
  BY OpKinds DEF Ops
<1>. QED  BY <1>1, <1>2 DEF Answer

LEMMA AnswerOfOthers ==
  ASSUME NEW op \in Ops, op # "equiv", NEW t, NEW p, NEW u, NEW q,
         ~({t, u} \subseteq Numeric)
  PROVE  Answer(op, t, p, u, q) = Exception
<1>1. ~({t, u} \subseteq Numeric \ {"D"}) /\ {t, u} # {"I"}
  BY DEF Numeric
<1>. QED  BY <1>1 DEF Answer

LEMMA AnswerOfEquals ==
  ASSUME NEW op, op = "equiv", NEW t, t # "D", NEW p, NEW u, u = t, NEW q
  PROVE  Answer(op, t, p, u, q) = Box(p = q)
<1>1. op \notin CmpOps /\ op \notin MathOps
  BY DEF CmpOps, MathOps
<1>2. CASE {t, u} \subseteq Numeric
  BY <1>1, <1>2 DEF Answer, Box
<1>3. CASE ~({t, u} \subseteq Numeric)
  BY <1>1, <1>3 DEF Answer, Box
<1>. QED  BY <1>2, <1>3

(***************************************************************************)
(* A result that is what the call should give.                             *)
(***************************************************************************)
Matching(call, answer) ==
  /\ call.r = Exception <=> answer = Exception
  /\ ValueOf(call.h, call.r) = answer.q
  /\ answer.t \in {"D", "Z"} => call.r.t = answer.t
  /\ TypeOf(call.h, call.r) = "R" => ValueOf(call.h, call.r)[2] > 1

AnswerTo(h, op, x, y) ==
  Answer(op, TypeOf(h, x), ValueOf(h, x), TypeOf(h, y), ValueOf(h, y))

Right(h, op, x, y, call) == Consumes(h, x, y, call) /\ Matching(call, AnswerTo(h, op, x, y))

LEMMA FailsMatches ==
  ASSUME NEW h, NEW x, NEW y, NEW op, NEW c, Fails(h, x, y, c),
         AnswerTo(h, op, x, y) = Exception
  PROVE  Right(h, op, x, y, c)
BY DEF Fails, Right, Matching, Exception, Immediate, TypeOf, ValueOf

LEMMA GivesMatches ==
  ASSUME NEW h, NEW x, NEW y, NEW op, NEW c, NEW t, NEW v, Gives(h, x, y, c, t, v),
         AnswerTo(h, op, x, y) # Exception, AnswerTo(h, op, x, y).q = v,
         AnswerTo(h, op, x, y).t \in {"D", "Z"} => t = AnswerTo(h, op, x, y).t,
         t = "R" => v[2] > 1
  PROVE  Right(h, op, x, y, c)
<1>. DEFINE ans == AnswerTo(h, op, x, y)
<1>1. /\ Consumes(h, x, y, c) /\ c.r # Exception
      /\ TypeOf(c.h, c.r) = t /\ ValueOf(c.h, c.r) = v
  BY DEF Gives, Is
<1>2. GoodHeap(c.h) /\ Good(c.h, c.r)
  BY <1>1 DEF Consumes
<1>3. t \in {"D", "Z"} => c.r.t = t
  BY <1>1, <1>2, TypeFacts
<1>. HIDE DEF ans
<1>. QED  BY <1>1, <1>3 DEF Right, Matching, ans

LEMMA BoxIsAnswer ==
  ASSUME NEW b
  PROVE  Box(b) # Exception /\ Box(b).t = "Z"
BY DEF Box, Immediate, Exception

LEMMA ImmediateIsAnswer ==
  ASSUME NEW t, t # "throws", NEW q
  PROVE  Immediate(t, q) # Exception /\ Immediate(t, q).t = t /\ Immediate(t, q).q = q
BY DEF Immediate, Exception

(* ... and of the type that the compiler counts on.                        *)
Yields(h, op, x, y, call, t) ==
  /\ Right(h, op, x, y, call)
  /\ t = "any" \/ call.r = Exception \/ TypeOf(call.h, call.r) = t

LEMMA TestYields ==
  ASSUME NEW h, NEW op, NEW x, NEW y, NEW c, NEW b, Gives(h, x, y, c, "Z", Box(b).q),
         AnswerTo(h, op, x, y) = Box(b)
  PROVE  Yields(h, op, x, y, c, "Z")
<1>1. Right(h, op, x, y, c)
  BY BoxIsAnswer, GivesMatches
<1>. QED  BY <1>1 DEF Yields, Gives, Is

LEMMA DoubleYields ==
  ASSUME NEW h, NEW x, NEW y, Holds(h, x, y), NEW op \in Ops,
         TypeOf(h, x) \in Numeric, TypeOf(h, y) \in Numeric,
         "D" \in {TypeOf(h, x), TypeOf(h, y)}
  PROVE  /\ op \in MathOps => Yields(h, op, x, y, DoubleMath(h, op, x, y), "D")
         /\ op \notin MathOps => Yields(h, op, x, y, DoubleCmp(h, op, x, y), "Z")
<1>. DEFINE a == Numbers_toDouble(h, x)
            b == Numbers_toDouble(a.h, y)
            p == AsDouble(TypeOf(h, x), ValueOf(h, x))
            q == AsDouble(TypeOf(h, y), ValueOf(h, y))
            ans == AnswerTo(h, op, x, y)
<1>1. /\ a.r = Immediate("D", p) /\ b.r = Immediate("D", q)
      /\ \A r : Scalar(r) => Gives(h, x, y, Give(b.h, r), r.t, r.q)
  BY DoublesRight
<1>2. ans = IF op \in MathOps THEN Immediate("D", Float(op, p, q)) ELSE Box(Compare(op, p, q))
  BY AnswerOfDoubles DEF AnswerTo
<1>3. /\ DoubleMath(h, op, x, y) = Double_op(b.h, op, a.r, b.r)
      /\ DoubleCmp(h, op, x, y) = Double_cmp(b.h, op, a.r, b.r)
  BY DEF DoubleMath, DoubleCmp, Converted, ToD
<1>5. a.r.q = p /\ b.r.q = q
  BY <1>1 DEF Immediate
<1>. HIDE DEF a, b, p, q
<1>6. /\ Double_op(b.h, op, a.r, b.r) = Give(b.h, Immediate("D", Float(op, p, q)))
      /\ Double_cmp(b.h, op, a.r, b.r) = Give(b.h, Box(Compare(op, p, q)))
  BY <1>5 DEF Double_op, Double_cmp
<1>7. ASSUME op \in MathOps
      PROVE  Yields(h, op, x, y, DoubleMath(h, op, x, y), "D")
  <2>. DEFINE r == Immediate("D", Float(op, p, q))
              c == Give(b.h, r)
  <2>1. Scalar(r) /\ r.t = "D" /\ r # Exception
    BY DEF Scalar, Immediate, Exception
  <2>2. Gives(h, x, y, c, "D", r.q)
    BY <1>1, <2>1
  <2>3. AnswerTo(h, op, x, y) = r
    BY <1>2, <1>7
  <2>. HIDE DEF r, c
  <2>4. Right(h, op, x, y, c)
    BY <2>1, <2>2, <2>3, GivesMatches
  <2>. QED  BY <1>3, <1>6, <2>2, <2>4 DEF Yields, Gives, Is, c, r
<1>8. ASSUME op \notin MathOps
      PROVE  Yields(h, op, x, y, DoubleCmp(h, op, x, y), "Z")
  <2>1. Gives(h, x, y, Give(b.h, Box(Compare(op, p, q))), "Z", Box(Compare(op, p, q)).q)
    BY <1>1, BoxScalar
  <2>. QED  BY <1>2, <1>3, <1>6, <1>8, <2>1, TestYields
<1>. QED  BY <1>7, <1>8

(* An exact result in lowest terms, as a big integer or a ratio.           *)
LEMMA ExactYields ==
  ASSUME NEW h, NEW op \in MathOps, NEW x, NEW y, NEW c,
         NEW r \in Rational, NEW t, Gives(h, x, y, c, t, r), t = "R" => r[2] # 1,
         AnswerTo(h, op, x, y) = Immediate("exact", r)
  PROVE  Yields(h, op, x, y, c, t)
<1>1. r[2] \in Int /\ r[2] >= 1
  BY DEF Rational, Pairs
<1>2. t = "R" => r[2] > 1
  BY <1>1
<1>3. /\ AnswerTo(h, op, x, y) # Exception /\ AnswerTo(h, op, x, y).q = r
      /\ AnswerTo(h, op, x, y).t = "exact"
  BY ImmediateIsAnswer
<1>4. Right(h, op, x, y, c)
  BY <1>2, <1>3, GivesMatches
<1>. QED  BY <1>4 DEF Yields, Gives, Is

LEMMA ExactValues ==
  ASSUME NEW h, NEW x, NEW y, Holds(h, x, y),
         TypeOf(h, x) \in Exacts, TypeOf(h, y) \in Exacts
  PROVE  ValueOf(h, x) \in Rational /\ ValueOf(h, y) \in Rational /\ GoodHeap(h)
BY TypeFacts DEF Holds, Exacts

LEMMA RatioYields ==
  ASSUME NEW h, NEW x, NEW y, Holds(h, x, y), Room(h, 4), NEW op \in MathOps,
         TypeOf(h, x) \in Exacts, TypeOf(h, y) \in Exacts
  PROVE  LET q == ValueOf(h, y)
             r == Exact(op, ValueOf(h, x), q)
             c == RatioMath(h, op, x, y)
         IN  /\ op = "div" /\ q = Zero => Fails(h, x, y, c)
             /\ ~(op = "div" /\ q = Zero) =>
                  Gives(h, x, y, c, IF r[2] = 1 THEN "B" ELSE "R", r)
             /\ {TypeOf(h, x), TypeOf(h, y)} # {"I"} \/ op = "div" =>
                  Yields(h, op, x, y, c, "any")
<1>. DEFINE a == toRatio(h, x)
            b == toRatio(a.h, y)
            q == ValueOf(h, y)
            r == Exact(op, ValueOf(h, x), q)
            c == RatioMath(h, op, x, y)
            t == IF r[2] = 1 THEN "B" ELSE "R"
<1>1. /\ Holds(b.h, a.r, b.r) /\ Room(b.h, 2)
      /\ TypeOf(b.h, a.r) = "R" /\ ValueOf(b.h, a.r) = ValueOf(h, x)
      /\ TypeOf(b.h, b.r) = "R" /\ ValueOf(b.h, b.r) = q
      /\ \A e : Consumes(b.h, a.r, b.r, e) => Consumes(h, x, y, e)
  BY RatiosRight DEF Exacts
<1>2. c = Ratio_op(b.h, op, a.r, b.r)
  BY DEF RatioMath, Converted
<1>3. ValueOf(h, x) \in Rational /\ q \in Rational
  BY ExactValues
<1>. HIDE DEF a, b, c
<1>4. /\ op = "div" /\ q = Zero => Fails(b.h, a.r, b.r, c)
      /\ ~(op = "div" /\ q = Zero) => Gives(b.h, a.r, b.r, c, t, r)
  BY <1>1, <1>2, RatioRight
<1>5. /\ op = "div" /\ q = Zero => Fails(h, x, y, c)
      /\ ~(op = "div" /\ q = Zero) => Gives(h, x, y, c, t, r)
  BY <1>1, <1>4 DEF Fails, Gives
<1>6. ~(op = "div" /\ q = Zero) => r \in Rational
  BY <1>3, ExactRight
<1>. HIDE DEF q, r, t
<1>7. ASSUME {TypeOf(h, x), TypeOf(h, y)} # {"I"} \/ op = "div"
      PROVE  Yields(h, op, x, y, c, "any")
  <2>1. CASE op = "div" /\ q = Zero
    <3>1. AnswerTo(h, op, x, y) = Exception
      BY <2>1, AnswerOfFailures DEF AnswerTo, q
    <3>. QED  BY <1>5, <2>1, <3>1, FailsMatches DEF Yields
  <2>2. CASE ~(op = "div" /\ q = Zero)
    <3>1. AnswerTo(h, op, x, y) = Immediate("exact", r)
      <4>1. op = "div" \/ TypeOf(h, x) # "I" \/ TypeOf(h, y) # "I"
        BY <1>7
      <4>2. ~(op = "div" /\ ValueOf(h, y) = Zero)
        BY <2>2 DEF q
      <4>3. Answer(op, TypeOf(h, x), ValueOf(h, x), TypeOf(h, y), ValueOf(h, y)) =
              Immediate("exact", Exact(op, ValueOf(h, x), ValueOf(h, y)))
        BY <4>1, <4>2, AnswerOfExacts
      <4>. QED  BY <4>3 DEF AnswerTo, q, r
    <3>2. t = "R" => r[2] # 1
      BY DEF t
    <3>3. Yields(h, op, x, y, c, t)
      BY <1>5, <1>6, <2>2, <3>1, <3>2, ExactYields
    <3>. QED  BY <3>3 DEF Yields
  <2>. QED  BY <2>1, <2>2
<1>. QED  BY <1>5, <1>7 DEF q, r, c, t

LEMMA BigIntegerYields ==
  ASSUME NEW h, NEW x, NEW y, Holds(h, x, y), Room(h, 4), NEW op \in MathOps,
         TypeOf(h, x) \in {"I", "B"}, TypeOf(h, y) \in {"I", "B"},
         "B" \in {TypeOf(h, x), TypeOf(h, y)}
  PROVE  Yields(h, op, x, y, BigIntegerMath(h, op, x, y), IF op = "div" THEN "any" ELSE "B")
<1>. DEFINE a == toBigInt(h, x)
            b == toBigInt(a.h, y)
            q == ValueOf(h, y)
            r == Exact(op, ValueOf(h, x), q)
            c == BigIntegerMath(h, op, x, y)
            t == IF r[2] = 1 THEN "B" ELSE "R"
<1>1. /\ Holds(b.h, a.r, b.r) /\ Room(b.h, 2)
      /\ TypeOf(b.h, a.r) = "B" /\ ValueOf(b.h, a.r) = ValueOf(h, x)
      /\ TypeOf(b.h, b.r) = "B" /\ ValueOf(b.h, b.r) = q
      /\ \A e : Consumes(b.h, a.r, b.r, e) => Consumes(h, x, y, e)
  BY BigIntsRight
<1>2. c = BigInteger_op(b.h, op, a.r, b.r)
  BY DEF BigIntegerMath, Converted
<1>3. /\ ValueOf(h, x) \in Rational /\ q \in Rational
      /\ ValueOf(h, x)[2] = 1 /\ q[2] = 1
      /\ TypeOf(h, x) \in Exacts /\ TypeOf(h, y) \in Exacts
  BY TypeFacts DEF Holds, Exacts
<1>. HIDE DEF a, b, c
<1>4. /\ op = "div" /\ q = Zero => Fails(b.h, a.r, b.r, c)
      /\ ~(op = "div" /\ q = Zero) => Gives(b.h, a.r, b.r, c, t, r)
  <2>1. Room(b.h, 1)
    BY <1>1, MoreRoom
  <2>. QED  BY <1>1, <1>2, <2>1, BigIntegerRight
<1>5. /\ op = "div" /\ q = Zero => Fails(h, x, y, c)
      /\ ~(op = "div" /\ q = Zero) => Gives(h, x, y, c, t, r)
  BY <1>1, <1>4 DEF Fails, Gives
<1>6. ~(op = "div" /\ q = Zero) => r \in Rational
  BY <1>3, ExactRight
<1>7. op # "div" => r[2] = 1
  BY <1>3, ExactRight
<1>. HIDE DEF q, r, t
<1>8. CASE op = "div" /\ q = Zero
  <2>1. AnswerTo(h, op, x, y) = Exception
    BY <1>3, <1>8, AnswerOfFailures DEF AnswerTo, q
  <2>. QED  BY <1>5, <1>8, <2>1, FailsMatches DEF Yields, c
<1>9. CASE ~(op = "div" /\ q = Zero)
  <2>1. AnswerTo(h, op, x, y) = Immediate("exact", r)
    <3>1. TypeOf(h, x) # "I" \/ TypeOf(h, y) # "I"
      OBVIOUS
    <3>2. ~(op = "div" /\ ValueOf(h, y) = Zero)
      BY <1>9 DEF q
    <3>3. Answer(op, TypeOf(h, x), ValueOf(h, x), TypeOf(h, y), ValueOf(h, y)) =
            Immediate("exact", Exact(op, ValueOf(h, x), ValueOf(h, y)))
      BY <1>3, <3>1, <3>2, AnswerOfExacts
    <3>. QED  BY <3>3 DEF AnswerTo, q, r
  <2>2. t = "R" => r[2] # 1
    BY DEF t
  <2>3. Yields(h, op, x, y, c, t)
    BY <1>5, <1>6, <1>9, <2>1, <2>2, ExactYields
  <2>4. op # "div" => t = "B"
    BY <1>7 DEF t
  <2>. QED  BY <2>3, <2>4 DEF Yields, c
<1>. QED  BY <1>8, <1>9

LEMMA ExactTestsYield ==
  ASSUME NEW h, NEW x, NEW y, Holds(h, x, y), Room(h, 4), NEW op \in CmpOps,
         TypeOf(h, x) \in Exacts, TypeOf(h, y) \in Exacts
  PROVE  /\ Yields(h, op, x, y, Object_cmp(h, op, x, y), "Z")
         /\ Yields(h, op, x, y, RatioCmp(h, op, x, y), "Z")
         /\ "R" \notin {TypeOf(h, x), TypeOf(h, y)} =>
              Yields(h, op, x, y,
                Object_cmp(toBigInt(toBigInt(h, x).h, y).h, op, toBigInt(h, x).r,
                           toBigInt(toBigInt(h, x).h, y).r), "Z")
<1>1. AnswerTo(h, op, x, y) = Box(Compare(op, ValueOf(h, x), ValueOf(h, y)))
  BY AnswerOfTests DEF AnswerTo
<1>2. Yields(h, op, x, y, Object_cmp(h, op, x, y), "Z")
  <2>1. Gives(h, x, y, Object_cmp(h, op, x, y), "Z",
              Box(Compare(op, ValueOf(h, x), ValueOf(h, y))).q)
    BY TestRight DEF Object_cmp
  <2>. QED  BY <1>1, <2>1, TestYields
<1>3. ASSUME NEW a, NEW b, Holds(b.h, a.r, b.r),
             ValueOf(b.h, a.r) = ValueOf(h, x), ValueOf(b.h, b.r) = ValueOf(h, y),
             \A e : Consumes(b.h, a.r, b.r, e) => Consumes(h, x, y, e)
      PROVE  Yields(h, op, x, y, Object_cmp(b.h, op, a.r, b.r), "Z")
  <2>1. Gives(b.h, a.r, b.r, Object_cmp(b.h, op, a.r, b.r), "Z",
              Box(Compare(op, ValueOf(h, x), ValueOf(h, y))).q)
    BY <1>3, TestRight DEF Object_cmp
  <2>2. Gives(h, x, y, Object_cmp(b.h, op, a.r, b.r), "Z",
              Box(Compare(op, ValueOf(h, x), ValueOf(h, y))).q)
    BY <1>3, <2>1 DEF Gives
  <2>. QED  BY <1>1, <2>2, TestYields
<1>4. Yields(h, op, x, y, RatioCmp(h, op, x, y), "Z")
  <2>. DEFINE a == toRatio(h, x)
              b == toRatio(a.h, y)
  <2>1. RatioCmp(h, op, x, y) = Object_cmp(b.h, op, a.r, b.r)
    BY DEF RatioCmp, Converted
  <2>2. /\ Holds(b.h, a.r, b.r) /\ ValueOf(b.h, a.r) = ValueOf(h, x)
        /\ ValueOf(b.h, b.r) = ValueOf(h, y)
        /\ \A e : Consumes(b.h, a.r, b.r, e) => Consumes(h, x, y, e)
    BY RatiosRight DEF Exacts
  <2>. HIDE DEF a, b
  <2>. QED  BY <1>3, <2>1, <2>2
<1>5. ASSUME "R" \notin {TypeOf(h, x), TypeOf(h, y)}
      PROVE  Yields(h, op, x, y,
                Object_cmp(toBigInt(toBigInt(h, x).h, y).h, op, toBigInt(h, x).r,
                           toBigInt(toBigInt(h, x).h, y).r), "Z")
  <2>. DEFINE a == toBigInt(h, x)
              b == toBigInt(a.h, y)
  <2>1. TypeOf(h, x) \in {"I", "B"} /\ TypeOf(h, y) \in {"I", "B"}
    BY <1>5 DEF Exacts
  <2>2. /\ Holds(b.h, a.r, b.r) /\ ValueOf(b.h, a.r) = ValueOf(h, x)
        /\ ValueOf(b.h, b.r) = ValueOf(h, y)
        /\ \A e : Consumes(b.h, a.r, b.r, e) => Consumes(h, x, y, e)
    BY <2>1, BigIntsRight
  <2>. HIDE DEF a, b
  <2>3. Yields(h, op, x, y, Object_cmp(b.h, op, a.r, b.r), "Z")
    BY <1>3, <2>2
  <2>. QED  BY <2>3 DEF a, b
<1>. QED  BY <1>2, <1>4, <1>5

(***************************************************************************)
(* Integers: nothing is owned, and results must fit the word.              *)
(***************************************************************************)
LEMMA WordsHeld ==
  ASSUME NEW h, NEW x, NEW y, Holds(h, x, y), x.a = Null, y.a = Null,
         NEW g, NEW r, Consumes(h, Nothing, Nothing, Give(g, r))
  PROVE  Consumes(h, x, y, Give(g, r))
<1>1. Releasing(Give(g, r), x, y) = Give(g, r)
  BY DropScalar DEF Releasing, DropBoth, Give
<1>. QED  BY <1>1, ReleasingRight

LEMMA IntegerOpYields ==
  ASSUME NEW h, NEW x, NEW y, Holds(h, x, y), NEW op \in MathOps, op # "div",
         TypeOf(h, x) = "I", TypeOf(h, y) = "I"
  PROVE  Yields(h, op, x, y, Integer_op(h, op, x.q[1], y.q[1]), "I")
<1>. DEFINE r == Exact(op, <<x.q[1], 1>>, <<y.q[1], 1>>)
            c == Integer_op(h, op, x.q[1], y.q[1])
<1>1. /\ GoodHeap(h) /\ x.a = Null /\ y.a = Null
      /\ ValueOf(h, x) = <<x.q[1], 1>> /\ ValueOf(h, y) = <<y.q[1], 1>>
      /\ ValueOf(h, x) \in Rational /\ ValueOf(h, y) \in Rational
      /\ ValueOf(h, x)[2] = 1 /\ ValueOf(h, y)[2] = 1
      /\ TypeOf(h, x) \in Exacts /\ TypeOf(h, y) \in Exacts
  BY TypeFacts DEF Holds, Exacts
<1>2. r = Exact(op, ValueOf(h, x), ValueOf(h, y))
  BY <1>1
<1>3. r \in Rational /\ r[2] = 1
  BY <1>1, <1>2, ExactRight
<1>. HIDE DEF r
<1>4. CASE r[1] \in Int32
  <2>1. c = Give(h, Immediate("I", r))
    BY <1>4 DEF Integer_op, r
  <2>2. r \in Int32 \X {1}
    BY <1>3, <1>4 DEF Rational, Pairs
  <2>3. Scalar(Immediate("I", r)) /\ Immediate("I", r).t = "I" /\ Immediate("I", r).q = r
    BY <2>2 DEF Scalar, Immediate
  <2>4. Consumes(h, Nothing, Nothing, c) /\ Is(c, "I", r)
    BY <1>1, <2>1, <2>3, ImmediateRight, GiveScalar
  <2>5. Gives(h, x, y, c, "I", r)
    BY <1>1, <2>1, <2>4, WordsHeld DEF Gives
  <2>6. Answer(op, TypeOf(h, x), ValueOf(h, x), TypeOf(h, y), ValueOf(h, y)) =
          Immediate("exact", Exact(op, ValueOf(h, x), ValueOf(h, y)))
    BY <1>1, <1>2, <1>4, AnswerOfExacts
  <2>7. AnswerTo(h, op, x, y) = Immediate("exact", r)
    BY <1>2, <2>6 DEF AnswerTo
  <2>. HIDE DEF c
  <2>8. Yields(h, op, x, y, c, "I")
    BY <1>3, <2>5, <2>7, ExactYields
  <2>. QED  BY <2>8 DEF c
<1>5. CASE r[1] \notin Int32
  <2>1. c = Give(h, Exception)
    BY <1>5 DEF Integer_op, r
  <2>2. Consumes(h, Nothing, Nothing, c) /\ c.r = Exception
    BY <1>1, <2>1, ImmediateRight DEF Give
  <2>3. Fails(h, x, y, c)
    BY <1>1, <2>1, <2>2, WordsHeld DEF Fails
  <2>4. Answer(op, TypeOf(h, x), ValueOf(h, x), TypeOf(h, y), ValueOf(h, y)) = Exception
    BY <1>1, <1>2, <1>5, AnswerOfFailures
  <2>. HIDE DEF c
  <2>5. Right(h, op, x, y, c) /\ c.r = Exception
    BY <2>3, <2>4, FailsMatches DEF AnswerTo, Fails
  <2>. QED  BY <2>5 DEF Yields, c
<1>. QED  BY <1>4, <1>5

LEMMA IntegerTestYields ==
  ASSUME NEW h, NEW x, NEW y, Holds(h, x, y), NEW op \in Ops, op \notin MathOps,
         TypeOf(h, x) = "I", TypeOf(h, y) = "I"
  PROVE  Yields(h, op, x, y, Give(h, Box(Compare(op, x.q, y.q))), "Z")
<1>. DEFINE b == Compare(op, x.q, y.q)
<1>1. /\ GoodHeap(h) /\ x.a = Null /\ y.a = Null /\ Good(h, x) /\ Good(h, y)
      /\ ValueOf(h, x) = x.q /\ ValueOf(h, y) = y.q
      /\ TypeOf(h, x) \in Exacts /\ TypeOf(h, y) \in Exacts
  BY TypeFacts DEF Holds, Exacts
<1>2. Consumes(h, Nothing, Nothing, Give(h, Box(b))) /\ Is(Give(h, Box(b)), "Z", Box(b).q)
  BY <1>1, BoxScalar, ImmediateRight, GiveScalar
<1>3. Gives(h, x, y, Give(h, Box(b)), "Z", Box(b).q)
  BY <1>1, <1>2, WordsHeld DEF Gives
<1>4. AnswerTo(h, op, x, y) = Box(b)
  <2>1. CASE op \in CmpOps
    BY <1>1, <2>1, AnswerOfTests DEF AnswerTo
  <2>2. CASE op = "equiv"
    <3>1. AnswerTo(h, op, x, y) = Box(x.q = y.q)
      BY <1>1, <2>2, AnswerOfEquals DEF AnswerTo
    <3>2. /\ x.q[1] \in Int32 /\ y.q[1] \in Int32 /\ x.q = <<x.q[1], 1>> /\ y.q = <<y.q[1], 1>>
          /\ x.q[2] = 1 /\ y.q[2] = 1
      BY <1>1, TypeFacts
    <3>3. x.q[1] \in Int /\ y.q[1] \in Int
      BY <3>2, HalfAssumption DEF Int32, MinInt
    <3>4. b <=> x.q = y.q
      BY <2>2, <3>2, <3>3 DEF Compare, NaN
    <3>. QED  BY <3>1, <3>4 DEF Box
  <2>. QED  BY <2>1, <2>2, OpKinds
<1>. HIDE DEF b
<1>5. Yields(h, op, x, y, Give(h, Box(b)), "Z")
  BY <1>3, <1>4, TestYields
<1>. QED  BY <1>5 DEF b

(* A quotient of integers is an integer, unless the smallest is divided by *)
(* minus one.                                                              *)
LEMMA QuotientFits ==
  ASSUME NEW n \in Int, NEW num \in Int32, NEW den \in Int, den # 0, n * den = num,
         ~(num = MinInt /\ den = -1)
  PROVE  n \in Int32
<1>1. Half \in Int /\ Half > 1 /\ MinInt = -Half /\ num \in Int /\ -Half <= num /\ num <= Half - 1
  BY HalfAssumption DEF Int32, MinInt
<1>2. CASE n >= Half
  <2>1. CASE den >= 1
    <3>1. n * den >= n
      BY <1>1, <1>2, <2>1
    <3>. QED  BY <1>1, <1>2, <3>1
  <2>2. CASE den <= -1
    <3>1. CASE den = -1
      <4>1. n * den = -n
        BY <3>1
      <4>. QED  BY <1>1, <1>2, <3>1, <4>1
    <3>2. CASE den <= -2
      <4>1. n * (-den) >= n * 2
        BY <1>1, <1>2, <3>2
      <4>2. n * (-den) = -num
        OBVIOUS
      <4>. QED  BY <1>1, <1>2, <4>1, <4>2
    <3>. QED  BY <2>2, <3>1, <3>2
  <2>. QED  BY <2>1, <2>2
<1>3. CASE n < -Half
  <2>1. CASE den >= 1
    <3>1. (-n) * den >= -n
      BY <1>1, <1>3, <2>1
    <3>2. (-n) * den = -num
      OBVIOUS
    <3>. QED  BY <1>1, <1>3, <3>1, <3>2
  <2>2. CASE den <= -1
    <3>1. (-n) * (-den) >= -n
      BY <1>1, <1>3, <2>2
    <3>2. (-n) * (-den) = num
      OBVIOUS
    <3>. QED  BY <1>1, <1>3, <3>1, <3>2
  <2>. QED  BY <2>1, <2>2
<1>. QED  BY <1>1, <1>2, <1>3 DEF Int32

(* The cases in which Integer_div goes wrong, see Mishandled.              *)
BadQuotient(p, q) ==
  /\ p # Zero /\ q # Zero
  /\ CDiv(q[1], gcd[<<p[1], q[1]>>]) < -1 \/ (p[1] = MinInt /\ q[1] = -1)

LEMMA IntegerDivGives ==
  ASSUME NEW h, GoodHeap(h), Room(h, 1), NEW num \in Int32, NEW den \in Int32, den # 0,
         ~BadQuotient(<<num, 1>>, <<den, 1>>)
  PROVE  LET r == Frac(num, den)
             c == Integer_div(h, num, den)
         IN  /\ Consumes(h, Nothing, Nothing, c)
             /\ Is(c, IF r[2] = 1 THEN "I" ELSE "R", r)
<1>. DEFINE r == Frac(num, den)
            c == Integer_div(h, num, den)
            g == gcd[<<num, den>>]
            n == CDiv(num, g)
            d == CDiv(den, g)
<1>1. num \in Int /\ den \in Int /\ Half \in Int /\ Half > 1
  BY HalfAssumption DEF Int32, MinInt
<1>2. r \in Rational /\ (r[1] = 0 <=> num = 0)
  BY <1>1, FracRight
<1>3. ASSUME NEW i \in Int32, r = <<i, 1>>, c = Give(h, Immediate("I", r))
      PROVE  Consumes(h, Nothing, Nothing, c) /\ Is(c, IF r[2] = 1 THEN "I" ELSE "R", r)
  <2>. HIDE DEF r, c
  <2>1. Scalar(Immediate("I", r)) /\ Immediate("I", r).t = "I" /\ Immediate("I", r).q = r
    BY <1>3 DEF Scalar, Immediate
  <2>2. r[2] = 1
    BY <1>3
  <2>. QED  BY <1>3, <2>1, <2>2, ImmediateRight, GiveScalar
<1>4. CASE num = 0
  <2>1. r = <<0, 1>> /\ 0 \in Int32
    BY <1>1, <1>2, <1>4 DEF Rational, Pairs, Int32, MinInt
  <2>2. c = Give(h, Immediate("I", r))
    BY <1>4, <2>1 DEF Integer_div, Zero
  <2>. QED  BY <1>3, <2>1, <2>2
<1>5. CASE num # 0
  <2>1. /\ n \in Int /\ d \in Int /\ n # 0 /\ d # 0
        /\ r = <<Sign(d) * n, Abs(d)>>
        /\ d > 0 => Frac(n, d) = <<n, d>>
        /\ n * den = num * d
    BY <1>1, <1>5, QuotientsRight
  <2>2. c = Quotient(h, n, d)
    BY <1>5 DEF Integer_div
  <2>3. ~(d < -1) /\ ~(num = MinInt /\ den = -1)
    BY <1>1, <1>5 DEF BadQuotient, Zero
  <2>. HIDE DEF n, d, g
  <2>4. CASE d = 1
    <3>1. r = <<n, 1>> /\ n * den = num
      BY <1>1, <2>1, <2>4 DEF Sign, Abs
    <3>2. n \in Int32
      BY <1>1, <2>1, <2>3, <3>1, QuotientFits
    <3>3. Wrap(n) = n
      BY <2>1, <3>2, WrapRight
    <3>4. c = Give(h, Immediate("I", r))
      BY <2>2, <2>4, <3>1, <3>3 DEF Quotient
    <3>. QED  BY <1>3, <3>1, <3>2, <3>4
  <2>5. CASE d = -1
    <3>1. r = <<-n, 1>> /\ (-n) * den = num /\ -n \in Int
      <4>1. Sign(d) * n = -n /\ Abs(d) = 1 /\ num * d = -num /\ -n \in Int
        <5>1. Sign(d) = -1 /\ Abs(d) = 1
          <6>1. d < 0 /\ -d = 1
            <7>1. d \in Int /\ d + 1 = 0
              BY <2>1, <2>5
            <7>. QED  BY <7>1
          <6>. QED  BY <6>1 DEF Sign, Abs
        <5>2. (-1) * n = -n /\ num * (-1) = -num /\ -n \in Int
          BY <1>1, <2>1
        <5>. QED  BY <2>5, <5>1, <5>2
      <4>2. n * den = -num
        BY <2>1, <4>1
      <4>3. (-n) * den = num
        BY <1>1, <2>1, <4>2
      <4>. QED  BY <2>1, <4>1, <4>3
    <3>2. -n \in Int32
      BY <1>1, <2>3, <3>1, QuotientFits
    <3>3. Wrap(-n) = -n
      BY <3>1, <3>2, WrapRight
    <3>4. c = Give(h, Immediate("I", r))
      <4>1. d # 1
        BY <2>5
      <4>2. Quotient(h, n, d) = Give(h, Immediate("I", <<Wrap(-n), 1>>))
        BY <2>5, <4>1 DEF Quotient
      <4>. QED  BY <2>2, <3>1, <3>3, <4>2
    <3>. QED  BY <1>3, <3>1, <3>2, <3>4
  <2>6. CASE d > 1
    <3>1. r = <<n, d>> /\ Frac(n, d) = r /\ r[2] # 1
      BY <2>1, <2>6 DEF Sign, Abs
    <3>2. c = New(h, "R", r)
      <4>1. ~(d < 0) /\ d # 1 /\ d # -1
        BY <2>1, <2>6
      <4>. QED  BY <2>2, <3>1, <4>1 DEF Quotient, Ratio_createFromInts
    <3>3. Kind("R", r)
      BY <1>2 DEF Kind
    <3>. HIDE DEF r, c
    <3>4. Consumes(h, Nothing, Nothing, c) /\ Is(c, "R", r)
      BY <3>2, <3>3, NewRight
    <3>. QED  BY <3>1, <3>4 DEF r, c
  <2>. QED  BY <2>1, <2>3, <2>4, <2>5, <2>6
<1>. QED  BY <1>4, <1>5

LEMMA IntegerDivYields ==
  ASSUME NEW h, NEW x, NEW y, Holds(h, x, y), Room(h, 1), NEW op, op = "div",
         TypeOf(h, x) = "I", TypeOf(h, y) = "I", ~BadQuotient(ValueOf(h, x), ValueOf(h, y))
  PROVE  Yields(h, op, x, y, Integer_div(h, x.q[1], y.q[1]), "any")
<1>. DEFINE n == x.q[1]
            m == y.q[1]
            r == Frac(n, m)
            c == Integer_div(h, n, m)
<1>1. /\ GoodHeap(h) /\ x.a = Null /\ y.a = Null /\ n \in Int32 /\ m \in Int32
      /\ ValueOf(h, x) = <<n, 1>> /\ ValueOf(h, y) = <<m, 1>>
      /\ TypeOf(h, x) \in Exacts /\ TypeOf(h, y) \in Exacts /\ op \in MathOps
  BY TypeFacts DEF Holds, Exacts, MathOps
<1>. HIDE DEF n, m
<1>2. n \in Int /\ m \in Int
  BY <1>1, HalfAssumption DEF Int32, MinInt
<1>3. CASE m = 0
  <2>1. c = Give(h, Exception)
    BY <1>3 DEF Integer_div
  <2>2. Consumes(h, Nothing, Nothing, c) /\ c.r = Exception
    BY <1>1, <2>1, ImmediateRight DEF Give
  <2>3. Fails(h, x, y, c)
    BY <1>1, <2>1, <2>2, WordsHeld DEF Fails
  <2>4. ValueOf(h, y) = Zero
    BY <1>1, <1>3 DEF Zero
  <2>5. Answer(op, TypeOf(h, x), ValueOf(h, x), TypeOf(h, y), ValueOf(h, y)) = Exception
    BY <1>1, <2>4, AnswerOfFailures
  <2>. HIDE DEF c
  <2>6. Right(h, op, x, y, c)
    BY <2>3, <2>5, FailsMatches DEF AnswerTo
  <2>. QED  BY <2>6 DEF Yields, c, n, m
<1>4. CASE m # 0
  <2>1. ValueOf(h, y) # Zero
    BY <1>1, <1>4 DEF Zero
  <2>2. Exact(op, ValueOf(h, x), ValueOf(h, y)) = r
    <3>1. Exact(op, <<n, 1>>, <<m, 1>>) = Frac(n * 1, 1 * m)
      BY DEF Exact
    <3>. QED  BY <1>1, <1>2, <3>1
  <2>3. r \in Rational
    BY <1>2, <1>4, FracRight
  <2>4. Consumes(h, Nothing, Nothing, c) /\ Is(c, IF r[2] = 1 THEN "I" ELSE "R", r)
    BY <1>1, <1>4, IntegerDivGives
  <2>5. c = Give(c.h, c.r)
    BY DEF Integer_div, Quotient, Ratio_createFromInts, New, Pointing, Give
  <2>6. Consumes(h, x, y, c)
    BY <1>1, <2>4, <2>5, WordsHeld
  <2>7. Answer(op, TypeOf(h, x), ValueOf(h, x), TypeOf(h, y), ValueOf(h, y)) =
          Immediate("exact", Exact(op, ValueOf(h, x), ValueOf(h, y)))
    BY <1>1, <2>1, AnswerOfExacts
  <2>8. AnswerTo(h, op, x, y) = Immediate("exact", r)
    BY <2>2, <2>7 DEF AnswerTo
  <2>. HIDE DEF c, r
  <2>9. Gives(h, x, y, c, IF r[2] = 1 THEN "I" ELSE "R", r)
    BY <2>4, <2>6 DEF Gives
  <2>10. Yields(h, op, x, y, c, IF r[2] = 1 THEN "I" ELSE "R")
    BY <1>1, <2>3, <2>8, <2>9, ExactYields
  <2>. QED  BY <2>10 DEF Yields, c, n, m
<1>. QED  BY <1>3, <1>4

(***************************************************************************)
(* The functions that take any value.                                      *)
(***************************************************************************)
LEMMA TypeCases ==
  ASSUME NEW t, NEW u
  PROVE  LET types == {t, u}
         IN  \/ ~(types \subseteq Numeric)
             \/ types \subseteq Numeric /\ "D" \in types /\ t \in Numeric /\ u \in Numeric
             \/ /\ types \subseteq Numeric /\ "D" \notin types
                /\ types \subseteq Numeric \ {"D"} /\ t \in Exacts /\ u \in Exacts
BY DEF Numeric, Exacts

LEMMA Numbers_opYields ==
  ASSUME NEW h, NEW x, NEW y, Holds(h, x, y), Room(h, 4), NEW op \in MathOps
  PROVE  Yields(h, op, x, y, Numbers_op(h, op, x, y), "any")
<1>. DEFINE t == TypeOf(h, x)
            u == TypeOf(h, y)
            types == {t, u}
            c == Numbers_op(h, op, x, y)
<1>1. op \in Ops /\ op # "equiv"
  BY DEF Ops, MathOps
<1>2. CASE ~(types \subseteq Numeric)
  <2>1. c = ThrowsReleasing(h, x, y)
    <3>1. ~(types \subseteq Numeric \ {"D"}) /\ ~(types \subseteq {"I", "B"}) /\ types # {"I"}
      BY <1>2 DEF Numeric
    <3>. QED  BY <1>2, <3>1 DEF Numbers_op
  <2>2. AnswerTo(h, op, x, y) = Exception
    BY <1>1, <1>2, AnswerOfOthers DEF AnswerTo
  <2>3. Right(h, op, x, y, c)
    BY <2>1, <2>2, ThrowsRight, FailsMatches
  <2>. QED  BY <2>3 DEF Yields
<1>3. CASE types \subseteq Numeric /\ "D" \in types /\ t \in Numeric /\ u \in Numeric
  <2>1. c = DoubleMath(h, op, x, y)
    <3>1. ~(types \subseteq Numeric \ {"D"}) /\ ~(types \subseteq {"I", "B"}) /\ types # {"I"}
      BY <1>3 DEF Numeric
    <3>. QED  BY <1>3, <3>1 DEF Numbers_op, DoubleMath, Converted, ToD
  <2>2. Yields(h, op, x, y, DoubleMath(h, op, x, y), "D")
    BY <1>1, <1>3, DoubleYields
  <2>. QED  BY <2>1, <2>2 DEF Yields
<1>4. CASE /\ types \subseteq Numeric /\ "D" \notin types
           /\ types \subseteq Numeric \ {"D"} /\ t \in Exacts /\ u \in Exacts
  <2>1. CASE op = "div"
    <3>. DEFINE q == ValueOf(h, y)
                r == Exact(op, ValueOf(h, x), q)
                d == RatioMath(h, op, x, y)
                w == IF r[2] = 1 THEN "B" ELSE "R"
                n == IF w = "B" /\ r[1] \in Int32 THEN "I" ELSE w
    <3>1. c = simplifyResult(d)
      BY <1>4, <2>1 DEF Numbers_op, RatioMath, Converted
    <3>2. /\ op = "div" /\ q = Zero => Fails(h, x, y, d)
          /\ ~(op = "div" /\ q = Zero) => Gives(h, x, y, d, w, r)
          /\ Yields(h, op, x, y, d, "any")
      BY <1>4, <2>1, RatioYields
    <3>. HIDE DEF c, d
    <3>3. CASE q = Zero
      <4>1. d.r = Exception
        BY <2>1, <3>2, <3>3 DEF Fails
      <4>2. c = d
        BY <3>1, <4>1 DEF simplifyResult
      <4>. QED  BY <3>2, <4>2 DEF c
    <3>4. CASE q # Zero
      <4>1. Gives(h, x, y, d, w, r)
        BY <3>2, <3>4
      <4>2. r \in Rational
        BY <1>4, <2>1, <3>4, ExactValues, ExactRight
      <4>. HIDE DEF q, r, w
      <4>3. /\ Holds(d.h, d.r, Nothing) /\ TypeOf(d.h, d.r) = w /\ ValueOf(d.h, d.r) = r
            /\ \A e : Consumes(d.h, d.r, Nothing, e) => Consumes(h, x, y, e)
            /\ d.r # Exception
        BY <4>1, Continues DEF Gives, Is
      <4>4. c = narrowBigInt(d.h, d.r)
        BY <3>1, <4>3 DEF simplifyResult
      <4>5. Gives(h, x, y, c, n, r)
        BY <4>3, <4>4, NarrowRight DEF Gives
      <4>6. n = "R" => r[2] # 1
        BY DEF w
      <4>7. Answer(op, TypeOf(h, x), ValueOf(h, x), TypeOf(h, y), ValueOf(h, y)) =
              Immediate("exact", Exact(op, ValueOf(h, x), ValueOf(h, y)))
        BY <1>4, <2>1, <3>4, AnswerOfExacts DEF q
      <4>8. AnswerTo(h, op, x, y) = Immediate("exact", r)
        BY <4>7 DEF AnswerTo, q, r
      <4>. HIDE DEF n
      <4>9. Yields(h, op, x, y, c, n)
        BY <4>2, <4>5, <4>6, <4>8, ExactYields
      <4>. QED  BY <4>9 DEF Yields, c
    <3>. QED  BY <3>3, <3>4
  <2>2. CASE op # "div" /\ "R" \in types
    <3>1. c = RatioMath(h, op, x, y)
      <4>1. ~(types \subseteq {"I", "B"}) /\ types # {"I"}
        BY <2>2
      <4>. QED  BY <1>4, <2>2, <4>1 DEF Numbers_op, RatioMath, Converted
    <3>2. types # {"I"}
      BY <2>2
    <3>. QED  BY <1>4, <3>1, <3>2, RatioYields
  <2>3. CASE op # "div" /\ "R" \notin types /\ "B" \in types
    <3>1. types \subseteq {"I", "B"} /\ types # {"I"} /\ t \in {"I", "B"} /\ u \in {"I", "B"}
      BY <1>4, <2>3 DEF Exacts
    <3>2. c = BigIntegerMath(h, op, x, y)
      BY <1>4, <2>3, <3>1 DEF Numbers_op, BigIntegerMath, Converted
    <3>3. Yields(h, op, x, y, c, IF op = "div" THEN "any" ELSE "B")
      BY <2>3, <3>1, <3>2, BigIntegerYields
    <3>. QED  BY <3>3 DEF Yields
  <2>4. CASE op # "div" /\ "R" \notin types /\ "B" \notin types
    <3>1. types = {"I"} /\ t = "I" /\ u = "I"
      BY <1>4, <2>4 DEF Exacts
    <3>2. c = Integer_op(h, op, x.q[1], y.q[1])
      BY <1>4, <2>4, <3>1 DEF Numbers_op
    <3>3. Yields(h, op, x, y, c, "I")
      BY <2>4, <3>1, <3>2, IntegerOpYields
    <3>. QED  BY <3>3 DEF Yields
  <2>. QED  BY <2>1, <2>2, <2>3, <2>4
<1>. QED  BY <1>2, <1>3, <1>4, TypeCases

LEMMA Numbers_cmpYields ==
  ASSUME NEW h, NEW x, NEW y, Holds(h, x, y), Room(h, 4), NEW op \in CmpOps
  PROVE  Yields(h, op, x, y, Numbers_cmp(h, op, x, y), "Z")
<1>. DEFINE t == TypeOf(h, x)
            u == TypeOf(h, y)
            types == {t, u}
            c == Numbers_cmp(h, op, x, y)
<1>1. op \in Ops /\ op # "equiv" /\ op \notin MathOps
  BY DEF Ops, MathOps, CmpOps
<1>2. CASE ~(types \subseteq Numeric)
  <2>1. c = ThrowsReleasing(h, x, y)
    <3>1. ~(types \subseteq Numeric \ {"D"}) /\ ~(types \subseteq {"I", "B"}) /\ types # {"I"}
      BY <1>2 DEF Numeric
    <3>. QED  BY <1>2, <3>1 DEF Numbers_cmp
  <2>2. AnswerTo(h, op, x, y) = Exception
    BY <1>1, <1>2, AnswerOfOthers DEF AnswerTo
  <2>3. Right(h, op, x, y, c) /\ c.r = Exception
    BY <2>1, <2>2, ThrowsRight, FailsMatches DEF Fails
  <2>. QED  BY <2>3 DEF Yields
<1>3. CASE types \subseteq Numeric /\ "D" \in types /\ t \in Numeric /\ u \in Numeric
  <2>1. c = DoubleCmp(h, op, x, y)
    <3>1. ~(types \subseteq Numeric \ {"D"}) /\ ~(types \subseteq {"I", "B"}) /\ types # {"I"}
      BY <1>3 DEF Numeric
    <3>. QED  BY <1>3, <3>1 DEF Numbers_cmp, DoubleCmp, Converted, ToD
  <2>. QED  BY <1>1, <1>3, <2>1, DoubleYields
<1>4. CASE /\ types \subseteq Numeric /\ "D" \notin types
           /\ types \subseteq Numeric \ {"D"} /\ t \in Exacts /\ u \in Exacts
  <2>1. CASE "R" \in types
    <3>1. c = RatioCmp(h, op, x, y)
      <4>1. ~(types \subseteq {"I", "B"}) /\ types # {"I"}
        BY <2>1
      <4>. QED  BY <1>4, <2>1, <4>1 DEF Numbers_cmp, RatioCmp, Converted
    <3>. QED  BY <1>4, <3>1, ExactTestsYield
  <2>2. CASE "R" \notin types /\ "B" \in types
    <3>1. types \subseteq {"I", "B"} /\ types # {"I"}
      BY <1>4, <2>2 DEF Exacts
    <3>2. c = Object_cmp(toBigInt(toBigInt(h, x).h, y).h, op, toBigInt(h, x).r,
                         toBigInt(toBigInt(h, x).h, y).r)
      BY <1>4, <2>2, <3>1 DEF Numbers_cmp, Converted
    <3>. QED  BY <1>4, <2>2, <3>2, ExactTestsYield
  <2>3. CASE "R" \notin types /\ "B" \notin types
    <3>1. types = {"I"} /\ t = "I" /\ u = "I"
      BY <1>4, <2>3 DEF Exacts
    <3>2. c = Give(h, Box(Compare(op, x.q, y.q)))
      BY <1>4, <2>3, <3>1 DEF Numbers_cmp
    <3>. QED  BY <1>1, <3>1, <3>2, IntegerTestYields
  <2>. QED  BY <2>1, <2>2, <2>3
<1>. QED  BY <1>2, <1>3, <1>4, TypeCases

(* Equality of two values of one type, doubles excepted.                   *)
LEMMA EqualsYields ==
  ASSUME NEW h, NEW x, NEW y, Holds(h, x, y), NEW op, op = "equiv",
         TypeOf(h, x) = TypeOf(h, y), TypeOf(h, x) # "D"
  PROVE  Yields(h, op, x, y, equals_managed(h, x, y), "Z")
<1>. DEFINE p == ValueOf(h, x)
            q == ValueOf(h, y)
            same == \/ x = y
                    \/ x.a # Null /\ y.a # Null /\ TypeOf(h, x) = TypeOf(h, y) /\ p = q
<1>1. GoodHeap(h) /\ Good(h, x) /\ Good(h, y)
  BY DEF Holds
<1>2. AnswerTo(h, op, x, y) = Box(p = q)
  BY AnswerOfEquals DEF AnswerTo
<1>3. same <=> p = q
  <2>1. CASE x.a = Null
    <3>1. /\ y.a = Null /\ x.t = y.t /\ p = x.q /\ q = y.q /\ Scalar(x) /\ Scalar(y)
      BY <1>1, <2>1, TypeFacts
    <3>2. x = Immediate(x.t, x.q) /\ y = Immediate(y.t, y.q)
      BY <3>1 DEF Scalar, Box, Immediate
    <3>. QED  BY <2>1, <3>1, <3>2
  <2>2. CASE x.a # Null
    <3>1. y.a # Null
      BY <1>1, <2>2, TypeFacts
    <3>. QED  BY <2>2, <3>1
  <2>. QED  BY <2>1, <2>2
<1>4. equals_managed(h, x, y) = Give(DropBoth(h, x, y), Box(p = q))
  BY <1>3 DEF equals_managed, Box
<1>5. Gives(h, x, y, equals_managed(h, x, y), "Z", Box(p = q).q)
  BY <1>4, TestRight
<1>. QED  BY <1>2, <1>5, TestYields

(***************************************************************************)
(* The overloads.                                                          *)
(***************************************************************************)
LEMMA RangeOfPair ==
  ASSUME NEW t, NEW u
  PROVE  Range(<<t, u>>) = {t, u}
BY DEF Range

(* What the class table holds.                                             *)
InTable(op, sig) ==
  /\ sig = <<sig[1], sig[2]>> /\ sig[1] \in Numeric /\ sig[2] \in Numeric
  /\ sig \in {<<"I","B">>, <<"B","I">>} => op \in {"add", "sub", "mul", "equiv"}
  /\ op = "equiv" /\ sig[1] = sig[2] => sig[1] \in {"I", "D"}

LEMMA TableShape ==
  ASSUME NEW op \in Ops, NEW i \in DOMAIN Overloads(op)
  PROVE  Overloads(op)[i] = Generic \/ InTable(op, Overloads(op)[i])
<1>1. CASE op \in {"add", "sub", "mul"}
  <2>1. Overloads(op) =
         << <<"D","D">>, <<"I","I">>, <<"I","D">>, <<"D","I">>, <<"I","B">>,
            <<"B","I">>, <<"B","D">>, <<"D","B">>, <<"R","D">>, <<"D","R">>,
            <<"B","R">>, <<"R","B">>, <<"I","R">>, <<"R","I">>, <<"B","B">>,
            <<"R","R">>, <<"any","any">> >>
    BY <1>1 DEF Overloads
  <2>2. i \in 1 .. 17
    BY <2>1
  <2>. QED  BY <1>1, <2>1, <2>2 DEF InTable, Generic, Numeric
<1>2. CASE op = "equiv"
  <2>1. Overloads(op) =
         << <<"I","I">>, <<"D","D">>, <<"B","D">>, <<"B","I">>, <<"I","B">>,
            <<"D","B">>, <<"R","D">>, <<"D","R">>, <<"I","D">>, <<"D","I">>,
            <<"any","any">> >>
    BY <1>2 DEF Overloads
  <2>2. i \in 1 .. 11
    BY <2>1
  <2>. QED  BY <1>2, <2>1, <2>2 DEF InTable, Generic, Numeric
<1>3. CASE op \notin {"add", "sub", "mul", "equiv"}
  <2>1. Overloads(op) =
         << <<"D","D">>, <<"I","I">>, <<"I","D">>, <<"D","I">>, <<"B","D">>,
            <<"D","B">>, <<"R","D">>, <<"D","R">>, <<"B","R">>, <<"R","B">>,
            <<"I","R">>, <<"R","I">>, <<"B","B">>, <<"R","R">>, <<"any","any">> >>
    BY <1>3 DEF Overloads
  <2>2. i \in 1 .. 15
    BY <2>1
  <2>. QED  BY <1>3, <2>1, <2>2 DEF InTable, Generic, Numeric
<1>. QED  BY <1>1, <1>2, <1>3

(* The calls that the code answers as it should: not those of Mishandled.  *)
Handled(h, op, sig, x, y) ==
  /\ TypeOf(h, y) = "R" => ValueOf(h, y) # Zero
  /\ op = "div" /\ sig = <<"I","I">> => ~BadQuotient(ValueOf(h, x), ValueOf(h, y))
  /\ ~(op = "mul" /\ sig = <<"D","B">>)
  /\ ~(op = "div" /\ ValueOf(h, y) = Zero /\ sig \in {<<"R","I">>, <<"R","B">>})
  /\ op = "equiv" =>
       /\ TypeOf(h, x) = TypeOf(h, y)
       /\ sig = Generic => TypeOf(h, x) # "D"

LEMMA GenericYields ==
  ASSUME NEW h, NEW x, NEW y, Holds(h, x, y), Room(h, 4), NEW op \in Ops,
         Handled(h, op, Generic, x, y)
  PROVE  Yields(h, op, x, y, GenericCall(h, op, x, y), IF op \in MathOps THEN "any" ELSE "Z")
<1>1. CASE op \in MathOps
  <2>1. GenericCall(h, op, x, y) = Numbers_op(h, op, x, y)
    BY <1>1, OpKinds DEF GenericCall
  <2>. QED  BY <1>1, <2>1, Numbers_opYields
<1>2. CASE op \in CmpOps
  <2>1. GenericCall(h, op, x, y) = Numbers_cmp(h, op, x, y) /\ op \notin MathOps
    BY <1>2, OpKinds DEF GenericCall
  <2>. QED  BY <1>2, <2>1, Numbers_cmpYields
<1>3. CASE op = "equiv"
  <2>1. GenericCall(h, op, x, y) = equals_managed(h, x, y) /\ op \notin MathOps
    BY <1>3, OpKinds DEF GenericCall
  <2>. QED  BY <1>3, <2>1, EqualsYields DEF Handled
<1>. QED  BY <1>1, <1>2, <1>3, OpKinds

(* The overloads for operands of known types.                              *)
LEMMA SpecialisedYields ==
  ASSUME NEW h, NEW x, NEW y, Holds(h, x, y), Room(h, 4), NEW op \in Ops,
         NEW sig, sig = <<TypeOf(h, x), TypeOf(h, y)>>, InTable(op, sig),
         Handled(h, op, sig, x, y)
  PROVE  Yields(h, op, x, y, SpecialisedCall(h, op, sig, x, y), ReturnType(op, sig))
<1>. DEFINE t == TypeOf(h, x)
            u == TypeOf(h, y)
            types == {t, u}
            c == SpecialisedCall(h, op, sig, x, y)
<1>1. /\ Range(sig) = types /\ sig # Generic /\ sig[1] = t /\ sig[2] = u
      /\ t \in Numeric /\ u \in Numeric
  BY RangeOfPair DEF InTable, Generic, Numeric
<1>2. CASE "D" \in types
  <2>1. types # {"I"} /\ types # {"I", "B"} /\ types # {"B"} /\ sig # <<"I", "I">>
    BY <1>1, <1>2
  <2>2. CASE op \in MathOps
    <3>1. c = DoubleMath(h, op, x, y)
      BY <1>1, <1>2, <2>1, <2>2, OpKinds DEF SpecialisedCall, Handled
    <3>2. ReturnType(op, sig) = "D"
      BY <1>1, <1>2, <2>1, <2>2 DEF ReturnType
    <3>. QED  BY <1>1, <1>2, <2>2, <3>1, <3>2, DoubleYields
  <2>3. CASE op \notin MathOps
    <3>1. c = DoubleCmp(h, op, x, y)
      <4>1. op # "mul"
        BY <2>3 DEF MathOps
      <4>. QED  BY <1>1, <1>2, <2>1, <2>3, <4>1 DEF SpecialisedCall
    <3>2. ReturnType(op, sig) = "Z"
      BY <2>3 DEF ReturnType, MathOps
    <3>. QED  BY <1>1, <1>2, <2>3, <3>1, <3>2, DoubleYields
  <2>. QED  BY <2>2, <2>3
<1>3. CASE t = "I" /\ u = "I"
  <2>1. types = {"I"} /\ types # {"I", "B"} /\ types # {"B"} /\ "D" \notin types /\ "R" \notin types
    BY <1>3
  <2>2. sig # <<"D", "B">> /\ sig = <<"I", "I">>
    BY <1>1, <1>3
  <2>3. CASE op \in MathOps
    <3>1. c = IntegerMath(h, op, x, y)
      BY <1>1, <2>1, <2>2, <2>3, OpKinds DEF SpecialisedCall
    <3>2. CASE op = "div"
      <4>1. c = Integer_div(h, x.q[1], y.q[1]) /\ ~BadQuotient(ValueOf(h, x), ValueOf(h, y))
        BY <2>2, <3>1, <3>2 DEF IntegerMath, Handled
      <4>2. ReturnType(op, sig) = "any"
        BY <1>1, <2>1, <3>2 DEF ReturnType, MathOps
      <4>3. Room(h, 1)
        BY MoreRoom
      <4>. QED  BY <1>3, <3>2, <4>1, <4>2, <4>3, IntegerDivYields
    <3>3. CASE op # "div"
      <4>1. c = Integer_op(h, op, x.q[1], y.q[1])
        BY <3>1, <3>3 DEF IntegerMath
      <4>2. ReturnType(op, sig) = "I"
        BY <1>1, <2>1, <2>2, <2>3, <3>3 DEF ReturnType, MathOps
      <4>. QED  BY <1>3, <2>3, <3>3, <4>1, <4>2, IntegerOpYields
    <3>. QED  BY <3>2, <3>3
  <2>4. CASE op \notin MathOps
    <3>1. c = Give(h, Box(Compare(op, x.q, y.q)))
      BY <1>1, <2>1, <2>2, <2>4 DEF SpecialisedCall, IntegerCmp
    <3>2. ReturnType(op, sig) = "Z"
      BY <2>4 DEF ReturnType, MathOps
    <3>. QED  BY <1>3, <2>4, <3>1, <3>2, IntegerTestYields
  <2>. QED  BY <2>3, <2>4
<1>4. CASE "D" \notin types /\ "R" \in types
  <2>1. /\ types # {"I"} /\ types # {"I", "B"} /\ types # {"B"} /\ sig # <<"D", "B">>
        /\ sig # <<"I", "I">> /\ t \in Exacts /\ u \in Exacts
    BY <1>1, <1>4 DEF Numeric, Exacts
  <2>2. CASE op \in MathOps
    <3>1. c = RatioMath(h, op, x, y)
      BY <1>1, <1>4, <2>1, <2>2, OpKinds DEF SpecialisedCall
    <3>2. ReturnType(op, sig) = "any"
      BY <1>1, <1>4, <2>1, <2>2 DEF ReturnType
    <3>. QED  BY <2>1, <2>2, <3>1, <3>2, RatioYields
  <2>3. CASE op \notin MathOps
    <3>1. op \in CmpOps
      <4>1. op # "equiv"
        BY <1>1, <1>4 DEF Handled, InTable
      <4>. QED  BY <2>3, <4>1, OpKinds
    <3>2. c = RatioCmp(h, op, x, y)
      BY <1>1, <1>4, <2>1, <2>3 DEF SpecialisedCall
    <3>3. ReturnType(op, sig) = "Z"
      BY <2>3 DEF ReturnType, MathOps
    <3>. QED  BY <2>1, <3>1, <3>2, <3>3, ExactTestsYield
  <2>. QED  BY <2>2, <2>3
<1>5. CASE "D" \notin types /\ "R" \notin types /\ ~(t = "I" /\ u = "I")
  <2>1. /\ types # {"I"} /\ types \in {{"B"}, {"I", "B"}} /\ "B" \in types
        /\ sig # <<"I", "I">> /\ sig # <<"D", "B">> /\ t \in {"I", "B"} /\ u \in {"I", "B"}
    BY <1>1, <1>5 DEF Numeric
  <2>2. CASE op \in MathOps
    <3>1. c = BigIntegerMath(h, op, x, y)
      BY <1>1, <1>5, <2>1, <2>2, OpKinds DEF SpecialisedCall
    <3>2. ReturnType(op, sig) = IF op = "div" THEN "any" ELSE "B"
      BY <1>1, <1>5, <2>1, <2>2 DEF ReturnType, MathOps
    <3>. QED  BY <2>1, <2>2, <3>1, <3>2, BigIntegerYields
  <2>3. CASE op \notin MathOps
    <3>1. op \in CmpOps /\ t = "B" /\ u = "B"
      <4>1. op # "equiv"
        BY <1>1, <1>5, <2>1 DEF Handled, InTable
      <4>2. op \notin {"add", "sub", "mul", "equiv"}
        BY <2>3, <4>1 DEF MathOps
      <4>3. sig # <<"I", "B">> /\ sig # <<"B", "I">>
        BY <4>2 DEF InTable
      <4>. QED  BY <1>1, <1>5, <2>1, <2>3, <4>1, <4>3, OpKinds
    <3>2. c = Object_cmp(h, op, x, y)
      <4>1. types = {"B"} /\ types # {"I", "B"} /\ op # "equiv" /\ op # "mul"
        BY <2>3, <3>1, OpKinds DEF MathOps
      <4>. QED  BY <1>1, <1>5, <2>1, <2>3, <4>1 DEF SpecialisedCall, BigIntegerCmp
    <3>3. ReturnType(op, sig) = "Z"
      BY <2>3 DEF ReturnType, MathOps
    <3>. QED  BY <3>1, <3>2, <3>3, ExactTestsYield DEF Exacts
  <2>. QED  BY <2>2, <2>3
<1>. QED  BY <1>2, <1>3, <1>4, <1>5

LEMMA UnwindsRight ==
  ASSUME NEW h, NEW x, NEW y, Holds(h, x, y), NEW op \in Ops,
         NEW sig, sig = <<TypeOf(h, x), TypeOf(h, y)>>, InTable(op, sig),
         Handled(h, op, sig, x, y), IsIntrinsic(op, sig),
         AnswerTo(h, op, x, y) = Exception
  PROVE  TypeOf(h, x) = "I" /\ TypeOf(h, y) = "I" /\ op \in MathOps /\ op # "div"
<1>. DEFINE t == TypeOf(h, x)
            u == TypeOf(h, y)
            q == ValueOf(h, y)
<1>1. t \in Numeric /\ u \in Numeric /\ sig[1] = t /\ sig[2] = u
  BY DEF InTable
<1>2. "D" \notin {t, u}
  <2>. SUFFICES ASSUME "D" \in {t, u} PROVE FALSE
    OBVIOUS
  <2>. DEFINE c == AsDouble(t, ValueOf(h, x))
              d == AsDouble(u, q)
  <2>1. AnswerTo(h, op, x, y) = IF op \in MathOps THEN Immediate("D", Float(op, c, d))
                                ELSE Box(Compare(op, c, d))
    BY <1>1, AnswerOfDoubles DEF AnswerTo
  <2>. QED  BY <2>1, BoxIsAnswer, ImmediateIsAnswer
<1>3. t \in Exacts /\ u \in Exacts
  BY <1>1, <1>2 DEF Numeric, Exacts
<1>4. op \in MathOps
  <2>. SUFFICES ASSUME op \notin MathOps PROVE FALSE
    OBVIOUS
  <2>1. CASE op \in CmpOps
    BY <1>3, <2>1, AnswerOfTests, BoxIsAnswer DEF AnswerTo
  <2>2. CASE op = "equiv"
    BY <1>2, <2>2, AnswerOfEquals, BoxIsAnswer DEF AnswerTo, Handled
  <2>. QED  BY <2>1, <2>2, OpKinds
<1>5. CASE op = "div" /\ q = Zero
  <2>1. u # "R"
    BY <1>5 DEF Handled
  <2>2. u \in {"I", "B"} /\ t \in {"I", "B"}
    BY <1>3, <1>5, <2>1 DEF Handled, Exacts
  <2>3. sig \notin {<<"B", "B">>, <<"I", "I">>}
    BY <1>5 DEF IsIntrinsic
  <2>4. sig \in {<<"I", "B">>, <<"B", "I">>}
    BY <2>2, <2>3
  <2>. QED  BY <1>5, <2>4 DEF InTable
<1>6. CASE ~(op = "div" /\ q = Zero)
  <2>1. op # "div" /\ t = "I" /\ u = "I"
    <3>. SUFFICES ASSUME op = "div" \/ t # "I" \/ u # "I" PROVE FALSE
      OBVIOUS
    <3>1. Answer(op, t, ValueOf(h, x), u, q) = Immediate("exact", Exact(op, ValueOf(h, x), q))
      BY <1>3, <1>4, <1>6, AnswerOfExacts
    <3>. QED  BY <3>1, ImmediateIsAnswer DEF AnswerTo
  <2>. QED  BY <1>4, <2>1
<1>. QED  BY <1>5, <1>6

LEMMA IntrinsicYields ==
  ASSUME NEW h, NEW x, NEW y, Holds(h, x, y), Room(h, 4), NEW op \in Ops, NEW sig,
         sig = Generic \/ (sig = <<TypeOf(h, x), TypeOf(h, y)>> /\ InTable(op, sig)),
         Handled(h, op, sig, x, y)
  PROVE  Yields(h, op, x, y, generateIntrinsic(h, op, sig, x, y), ReturnType(op, sig))
<1>. DEFINE c == SpecialisedCall(h, op, sig, x, y)
            d == generateIntrinsic(h, op, sig, x, y)
<1>1. CASE sig = Generic
  <2>1. c = GenericCall(h, op, x, y)
    <3>1. Range(sig) = {"any"} /\ sig # <<"D", "B">>
      BY <1>1, RangeOfPair DEF Generic
    <3>2. /\ "D" \notin {"any"} /\ "R" \notin {"any"} /\ {"any"} # {"I"} /\ {"any"} # {"I", "B"}
          /\ {"any"} # {"B"}
      OBVIOUS
    <3>. QED  BY <1>1, <3>1, <3>2 DEF SpecialisedCall
  <2>2. d = c
    BY <1>1 DEF generateIntrinsic, Unwound, IsIntrinsic
  <2>3. ReturnType(op, sig) = IF op \in MathOps THEN "any" ELSE "Z"
    <3>1. Range(sig) = {"any"} /\ sig # <<"I", "I">>
      BY <1>1, RangeOfPair DEF Generic
    <3>2. "D" \notin {"any"} /\ {"any"} # {"B"} /\ {"any"} # {"I", "B"}
      OBVIOUS
    <3>. QED  BY <3>1, <3>2 DEF ReturnType, MathOps
  <2>. QED  BY <1>1, <2>1, <2>2, <2>3, GenericYields
<1>2. CASE sig # Generic
  <2>1. Yields(h, op, x, y, c, ReturnType(op, sig))
    BY <1>2, SpecialisedYields
  <2>2. d = c
    <3>1. CASE ~(c.r = Exception /\ IsIntrinsic(op, sig))
      BY <3>1 DEF generateIntrinsic, Unwound
    <3>2. CASE c.r = Exception /\ IsIntrinsic(op, sig)
      <4>1. AnswerTo(h, op, x, y) = Exception
        BY <2>1, <3>2 DEF Yields, Right, Matching
      <4>2. TypeOf(h, x) = "I" /\ TypeOf(h, y) = "I" /\ op \in MathOps /\ op # "div"
        BY <1>2, <3>2, <4>1, UnwindsRight
      <4>3. x.a = Null /\ y.a = Null
        BY <4>2, TypeFacts DEF Holds
      <4>4. c = Integer_op(h, op, x.q[1], y.q[1])
        <5>1. /\ Range(sig) = {"I"} /\ {"I"} # {"I", "B"} /\ {"I"} # {"B"}
              /\ "D" \notin {"I"} /\ "R" \notin {"I"} /\ sig # <<"D", "B">>
          BY <1>2, <4>2, RangeOfPair
        <5>. QED  BY <1>2, <4>2, <5>1, OpKinds DEF SpecialisedCall, IntegerMath
      <4>5. c = Give(c.h, Exception)
        BY <3>2, <4>4 DEF Integer_op, Give
      <4>6. DropBoth(c.h, x, y) = c.h
        BY <4>3, DropScalar DEF DropBoth
      <4>. QED  BY <3>2, <4>5, <4>6 DEF generateIntrinsic, Unwound
    <3>. QED  BY <3>1, <3>2
  <2>. QED  BY <2>1, <2>2
<1>. QED  BY <1>1, <1>2

(***************************************************************************)
(* Words: what is packed is unpacked again, and its type can be told.      *)
(***************************************************************************)
Types == {"I", "D", "Z", "N", "K", "B", "R", "S"}
Objects == {"B", "R", "S"}

LEMMA TypeNumbers ==
  /\ TypeNumber["S"] = 1 /\ TypeNumber["D"] = 2 /\ TypeNumber["B"] = 8 /\ TypeNumber["K"] = 11
  /\ TypeNumber["N"] = 12 /\ TypeNumber["Z"] = 13 /\ TypeNumber["I"] = 15 /\ TypeNumber["R"] = 16
BY DEF TypeNumber, stringType, doubleType, bigIntegerType, keywordType, nilType, booleanType,
       integerType, ratioType

LEMMA TypesDiffer ==
  ASSUME NEW t \in Types, NEW u \in Types, TypeNumber[t] = TypeNumber[u]
  PROVE  t = u
BY TypeNumbers DEF Types

LEMMA DeterminedFacts ==
  ASSUME NEW n
  PROVE  LET s == Determined(n)
             b == boxed(s)
         IN  /\ ~s.boxed /\ b.boxed
             /\ isUnboxedPointer(s) <=> n \notin Scalars
             /\ \A k : isUnboxedType(s, k) <=> k = n
             /\ isBoxedPointer(b) <=> n \notin Scalars
             /\ \A k : isBoxedType(b, k) <=> k = n
<1>. DEFINE s == Determined(n)
            b == boxed(s)
<1>1. s.types = {n} /\ ~s.boxed /\ ~s.all
  BY DEF Determined
<1>2. b.types = {n} /\ b.boxed /\ ~b.all
  BY DEF Determined, boxed
<1>3. Cardinality({n}) = 1
  BY FS_Singleton
<1>4. (CHOOSE k \in {n} : TRUE) = n
  OBVIOUS
<1>. HIDE DEF s, b
<1>5. isDetermined(s) /\ isDetermined(b)
  BY <1>1, <1>2, <1>3 DEF isDetermined
<1>6. (IsScalarType(s) <=> n \in Scalars) /\ (IsScalarType(b) <=> n \in Scalars)
  BY <1>1, <1>2, <1>4, <1>5 DEF IsScalarType, determinedType
<1>7. /\ isUnboxedPointer(s) <=> n \notin Scalars
      /\ isBoxedPointer(b) <=> n \notin Scalars
  BY <1>1, <1>2, <1>5, <1>6 DEF isUnboxedPointer, isBoxedPointer
<1>8. ASSUME NEW k
      PROVE  (isUnboxedType(s, k) <=> k = n) /\ (isBoxedType(b, k) <=> k = n)
  BY <1>1, <1>2, <1>5 DEF isUnboxedType, isBoxedType
<1>. QED  BY <1>1, <1>2, <1>7, <1>8 DEF s, b

LEMMA DynamicFacts ==
  /\ dynamicType.boxed /\ ~isBoxedPointer(dynamicType)
  /\ \A k : ~isBoxedType(dynamicType, k)
<1>1. dynamicType.boxed /\ dynamicType.all
  BY DEF dynamicType, all
<1>2. ~isDetermined(dynamicType)
  BY <1>1 DEF isDetermined
<1>. QED  BY <1>1, <1>2 DEF isBoxedPointer, isBoxedType

(* The word of a value.                                                    *)
WordOf(t, v) ==
  CASE t \in Objects -> RT_boxPtr(v.a)
    [] t = "D" -> RT_boxDouble(v.q)
    [] t = "I" -> RT_boxInt32(v.q[1])
    [] t = "Z" -> RT_boxBool(v.q)
    [] t = "K" -> RT_boxKeyword(v.q[1])
    [] t = "N" -> RT_boxNil

LEMMA BoxRight ==
  ASSUME NEW t \in Types, NEW v
  PROVE  LET b == box(TypedValue(Determined(TypeNumber[t]), v))
         IN  b.value = WordOf(t, v) /\ b.type = boxed(Determined(TypeNumber[t]))
<1>. DEFINE n == TypeNumber[t]
            s == Determined(n)
            w == TypedValue(s, v)
<1>1. /\ w.type = s /\ w.value = v /\ ~s.boxed /\ (isUnboxedPointer(s) <=> n \notin Scalars)
      /\ \A k : isUnboxedType(s, k) <=> k = n
  BY DeterminedFacts DEF TypedValue
<1>2. Scalars = {2, 11, 12, 13, 15}
  BY DEF Scalars, integerType, booleanType, doubleType, nilType, keywordType
<1>3. CASE t \in Objects
  <2>1. n \in {1, 8, 16}
    BY <1>3, TypeNumbers DEF Objects
  <2>. HIDE DEF n, s, w
  <2>2. box(w) = boxPointer(w)
    BY <1>1, <1>2, <2>1 DEF box, doubleType, integerType, booleanType, keywordType, nilType
  <2>3. WordOf(t, v) = RT_boxPtr(v.a)
    BY <1>3 DEF WordOf, Objects
  <2>. QED  BY <1>1, <2>2, <2>3 DEF boxPointer, TypedValue, n, s, w
<1>4. CASE t = "D"
  <2>1. n = 2
    BY <1>4, TypeNumbers
  <2>. HIDE DEF n, s, w
  <2>2. box(w) = boxDouble(w)
    BY <1>1, <1>2, <2>1 DEF box, doubleType, integerType, booleanType, keywordType, nilType
  <2>3. WordOf(t, v) = RT_boxDouble(v.q)
    BY <1>4 DEF WordOf, Objects
  <2>. QED  BY <1>1, <2>2, <2>3 DEF boxDouble, TypedValue, n, s, w
<1>5. CASE t = "I"
  <2>1. n = 15
    BY <1>5, TypeNumbers
  <2>. HIDE DEF n, s, w
  <2>2. box(w) = boxInt32(w)
    BY <1>1, <1>2, <2>1 DEF box, doubleType, integerType, booleanType, keywordType, nilType
  <2>3. WordOf(t, v) = RT_boxInt32(v.q[1])
    BY <1>5 DEF WordOf, Objects
  <2>. QED  BY <1>1, <2>2, <2>3 DEF boxInt32, TypedValue, n, s, w
<1>6. CASE t = "Z"
  <2>1. n = 13
    BY <1>6, TypeNumbers
  <2>. HIDE DEF n, s, w
  <2>2. box(w) = boxBool(w)
    BY <1>1, <1>2, <2>1 DEF box, doubleType, integerType, booleanType, keywordType, nilType
  <2>3. WordOf(t, v) = RT_boxBool(v.q)
    BY <1>6 DEF WordOf, Objects
  <2>. QED  BY <1>1, <2>2, <2>3 DEF boxBool, TypedValue, n, s, w
<1>7. CASE t = "K"
  <2>1. n = 11
    BY <1>7, TypeNumbers
  <2>. HIDE DEF n, s, w
  <2>2. box(w) = boxKeyword(w)
    BY <1>1, <1>2, <2>1 DEF box, doubleType, integerType, booleanType, keywordType, nilType
  <2>3. WordOf(t, v) = RT_boxKeyword(v.q[1])
    BY <1>7 DEF WordOf, Objects
  <2>. QED  BY <1>1, <2>2, <2>3 DEF boxKeyword, TypedValue, n, s, w
<1>8. CASE t = "N"
  <2>1. n = 12
    BY <1>8, TypeNumbers
  <2>. HIDE DEF n, s, w
  <2>2. box(w) = boxNil
    BY <1>1, <1>2, <2>1 DEF box, doubleType, integerType, booleanType, keywordType, nilType
  <2>3. WordOf(t, v) = RT_boxNil
    BY <1>8 DEF WordOf, Objects
  <2>. QED  BY <1>1, <2>1, <2>2, <2>3 DEF boxNil, nilType, TypedValue, n, s, w
<1>. QED  BY <1>3, <1>4, <1>5, <1>6, <1>7, <1>8 DEF Types, Objects

(* Doubles stay below the tags of the others.                              *)
LEMMA Tags ==
  ASSUME NEW t \in Types, NEW v
  PROVE  LET w == WordOf(t, v)
         IN  /\ w.tag \in Nat
             /\ t = "D" <=> w.tag < RT_TAG_DOUBLE_START
             /\ t = "I" <=> w.tag = RT_TAG_INT32
             /\ t = "Z" <=> w.tag = RT_TAG_BOOL
             /\ t = "N" <=> w.tag = RT_TAG_NIL
             /\ t = "K" <=> w.tag = RT_TAG_KEYWORD
             /\ t \in Objects <=> w.tag = RT_TAG_PTR
             /\ t \in Objects => w.bits = v.a
             /\ t = "D" => w.bits = v.q
             /\ t = "I" => w.bits = v.q[1] % Words
             /\ t = "Z" => w.bits = IF v.q = Zero THEN 0 ELSE 1
             /\ t = "K" => w.bits = v.q[1]
             /\ t = "N" => w.bits = 0
<1>. DEFINE w == WordOf(t, v)
<1>1. CASE t \in Objects
  <2>1. w = Word(RT_TAG_PTR, v.a) /\ t \notin {"D", "I", "Z", "K", "N"}
    BY <1>1 DEF WordOf, Objects, RT_boxPtr
  <2>. HIDE DEF w
  <2>2. w.tag = 65534 /\ w.bits = v.a
    BY <2>1 DEF Word, RT_TAG_PTR
  <2>. QED  BY <1>1, <2>1, <2>2 DEF RT_TAG_DOUBLE_START, RT_TAG_KEYWORD, RT_TAG_NIL, RT_TAG_BOOL,
              RT_TAG_PTR, RT_TAG_INT32, w
<1>2. CASE t = "D"
  <2>1. w = RT_boxDouble(v.q) /\ t \notin Objects
    BY <1>2 DEF WordOf, Objects
  <2>. HIDE DEF w
  <2>2. w.tag \in {32760, 65520, 32752, 32768, 0} /\ w.bits = v.q
    <3>1. CASE v.q = NaN
      BY <2>1, <3>1 DEF RT_boxDouble, Word
    <3>2. CASE v.q # NaN
      <4>1. w = DoubleBits(v.q)
        BY <2>1, <3>2 DEF RT_boxDouble
      <4>. QED  BY <3>2, <4>1 DEF DoubleBits, Word
    <3>. QED  BY <3>1, <3>2
  <2>. QED  BY <1>2, <2>1, <2>2 DEF RT_TAG_DOUBLE_START, RT_TAG_KEYWORD, RT_TAG_NIL, RT_TAG_BOOL,
              RT_TAG_PTR, RT_TAG_INT32, w
<1>3. CASE t = "I"
  <2>1. w = Word(RT_TAG_INT32, v.q[1] % Words) /\ t \notin Objects
    BY <1>3 DEF WordOf, Objects, RT_boxInt32
  <2>. HIDE DEF w
  <2>2. w.tag = 65535 /\ w.bits = v.q[1] % Words
    BY <2>1 DEF Word, RT_TAG_INT32
  <2>. QED  BY <1>3, <2>1, <2>2 DEF RT_TAG_DOUBLE_START, RT_TAG_KEYWORD, RT_TAG_NIL, RT_TAG_BOOL,
              RT_TAG_PTR, RT_TAG_INT32, w
<1>4. CASE t = "Z"
  <2>1. w = Word(RT_TAG_BOOL, IF v.q = Zero THEN 0 ELSE 1) /\ t \notin Objects
    BY <1>4 DEF WordOf, Objects, RT_boxBool
  <2>. HIDE DEF w
  <2>2. w.tag = 65533 /\ w.bits = IF v.q = Zero THEN 0 ELSE 1
    BY <2>1 DEF Word, RT_TAG_BOOL
  <2>. QED  BY <1>4, <2>1, <2>2 DEF RT_TAG_DOUBLE_START, RT_TAG_KEYWORD, RT_TAG_NIL, RT_TAG_BOOL,
              RT_TAG_PTR, RT_TAG_INT32, w
<1>5. CASE t = "K"
  <2>1. w = Word(RT_TAG_KEYWORD, v.q[1]) /\ t \notin Objects
    BY <1>5 DEF WordOf, Objects, RT_boxKeyword
  <2>. HIDE DEF w
  <2>2. w.tag = 65531 /\ w.bits = v.q[1]
    BY <2>1 DEF Word, RT_TAG_KEYWORD
  <2>. QED  BY <1>5, <2>1, <2>2 DEF RT_TAG_DOUBLE_START, RT_TAG_KEYWORD, RT_TAG_NIL, RT_TAG_BOOL,
              RT_TAG_PTR, RT_TAG_INT32, w
<1>6. CASE t = "N"
  <2>1. w = Word(RT_TAG_NIL, 0) /\ t \notin Objects
    BY <1>6 DEF WordOf, Objects, RT_boxNil
  <2>. HIDE DEF w
  <2>2. w.tag = 65532 /\ w.bits = 0
    BY <2>1 DEF Word, RT_TAG_NIL
  <2>. QED  BY <1>6, <2>1, <2>2 DEF RT_TAG_DOUBLE_START, RT_TAG_KEYWORD, RT_TAG_NIL, RT_TAG_BOOL,
              RT_TAG_PTR, RT_TAG_INT32, w
<1>. QED  BY <1>1, <1>2, <1>3, <1>4, <1>5, <1>6 DEF Types, Objects

LEMMA TagNumbers ==
  /\ RT_TAG_DOUBLE_START = 65521 /\ RT_TAG_KEYWORD = 65531 /\ RT_TAG_NIL = 65532
  /\ RT_TAG_BOOL = 65533 /\ RT_TAG_PTR = 65534 /\ RT_TAG_INT32 = 65535
BY DEF RT_TAG_DOUBLE_START, RT_TAG_KEYWORD, RT_TAG_NIL, RT_TAG_BOOL, RT_TAG_PTR, RT_TAG_INT32

LEMMA WordType ==
  ASSUME NEW h, GoodHeap(h), NEW v, Good(h, v)
  PROVE  /\ TypeOf(h, v) \in Types
         /\ getType(h, WordOf(TypeOf(h, v), v)) = TypeNumber[TypeOf(h, v)]
<1>. DEFINE t == TypeOf(h, v)
            w == WordOf(t, v)
<1>1. t \in Types /\ (t \in Objects <=> v.a # Null)
  BY TypeFacts DEF Types, Objects
<1>. HIDE DEF w, t
<1>2. /\ w.tag \in Nat /\ (t = "D" <=> w.tag < 65521) /\ (t = "I" <=> w.tag = 65535)
      /\ (t = "Z" <=> w.tag = 65533) /\ (t = "N" <=> w.tag = 65532)
      /\ (t = "K" <=> w.tag = 65531) /\ (t \in Objects <=> w.tag = 65534)
      /\ t \in Objects => w.bits = v.a
  BY <1>1, Tags, TagNumbers DEF w
<1>3. CASE t \in Objects
  <2>1. h[v.a].tag = t
    BY <1>1, <1>3 DEF TypeOf, t
  <2>2. ~(w.tag < 65521)
    BY <1>2, <1>3
  <2>. QED  BY <1>1, <1>2, <1>3, <2>1, <2>2, TagNumbers DEF getType, RT_unboxPtr, w, t
<1>4. CASE t = "D"
  <2>1. w.tag < 65521 /\ w.tag # 65534 /\ ~(w.tag >= 65521)
    BY <1>2, <1>4
  <2>2. getType(h, w) = doubleType
    BY <2>1, TagNumbers DEF getType
  <2>. QED  BY <1>1, <1>4, <2>2, TypeNumbers DEF doubleType, w, t
<1>5. CASE t \in {"I", "Z", "N", "K"}
  <2>1. ~(w.tag < 65521) /\ w.tag >= 65521 /\ w.tag # 65534
    BY <1>2, <1>5 DEF Objects
  <2>2. getType(h, w) = w.tag % 16
    BY <2>1, TagNumbers DEF getType
  <2>3. 65535 % 16 = 15 /\ 65533 % 16 = 13 /\ 65532 % 16 = 12 /\ 65531 % 16 = 11
    OBVIOUS
  <2>4. getType(h, w) = TypeNumber[t]
    BY <1>2, <1>5, <2>2, <2>3, TypeNumbers
  <2>. QED  BY <1>1, <2>4 DEF w, t
<1>. QED  BY <1>1, <1>3, <1>4, <1>5 DEF Types, Objects

(* unbox undoes box.                                                       *)
LEMMA ReadBack ==
  ASSUME NEW h, GoodHeap(h), NEW v, Good(h, v)
  PROVE  LET t == TypeOf(h, v)
         IN  unbox(TypedValue(boxed(Determined(TypeNumber[t])), WordOf(t, v))).value = v
<1>. DEFINE t == TypeOf(h, v)
            w == WordOf(t, v)
            n == TypeNumber[t]
            s == boxed(Determined(n))
            u == unbox(TypedValue(s, w)).value
<1>1. t \in Types /\ (t \in Objects <=> v.a # Null)
  BY TypeFacts DEF Types, Objects
<1>2. /\ t \in Objects => w.bits = v.a
      /\ t = "D" => w.bits = v.q
      /\ t = "I" => w.bits = v.q[1] % Words
      /\ t = "Z" => w.bits = IF v.q = Zero THEN 0 ELSE 1
      /\ t = "K" => w.bits = v.q[1]
  BY <1>1, Tags
<1>3. /\ s.boxed /\ (isBoxedPointer(s) <=> n \notin Scalars)
      /\ \A k : isBoxedType(s, k) <=> k = n
  BY DeterminedFacts
<1>4. Scalars = {2, 11, 12, 13, 15}
  BY DEF Scalars, integerType, booleanType, doubleType, nilType, keywordType
<1>. HIDE DEF w, s
<1>5. u = CASE isBoxedPointer(s) -> unboxPointer(w)
            [] isBoxedType(s, doubleType) -> unboxDouble(w)
            [] isBoxedType(s, integerType) -> unboxInt32(w)
            [] isBoxedType(s, booleanType) -> unboxBool(w)
            [] isBoxedType(s, keywordType) -> unboxKeyword(w)
            [] isBoxedType(s, nilType) -> Immediate("N", Zero)
  BY <1>3 DEF unbox, TypedValue
<1>6. /\ v.a = Null => v.t = t /\ v.q = ValueOf(h, v) /\ Scalar(v)
      /\ v.a # Null => v = Pointer(v.a)
      /\ t = "I" => v.q[1] \in Int32 /\ v = Immediate("I", <<v.q[1], 1>>)
      /\ t = "D" => v = Immediate("D", v.q)
  BY TypeFacts, ValueFacts
<1>. HIDE DEF u, n, t
<1>7. CASE t \in Objects
  <2>1. n \in {1, 8, 16}
    BY <1>7, TypeNumbers DEF Objects, n
  <2>2. u = unboxPointer(w)
    BY <1>3, <1>4, <1>5, <2>1 DEF doubleType, integerType, booleanType, keywordType, nilType
  <2>3. u = v
    BY <1>1, <1>2, <1>6, <1>7, <2>2 DEF unboxPointer, RT_unboxPtr
  <2>. QED  BY <2>3 DEF u, s, n, w, t
<1>8. CASE t = "D"
  <2>1. n = 2
    BY <1>8, TypeNumbers DEF n
  <2>2. u = unboxDouble(w)
    BY <1>3, <1>4, <1>5, <2>1 DEF doubleType, integerType, booleanType, keywordType, nilType
  <2>3. u = v
    BY <1>2, <1>6, <1>8, <2>2 DEF unboxDouble, RT_unboxDouble
  <2>. QED  BY <2>3 DEF u, s, n, w, t
<1>9. CASE t = "I"
  <2>1. n = 15
    BY <1>9, TypeNumbers DEF n
  <2>2. u = unboxInt32(w)
    BY <1>3, <1>4, <1>5, <2>1 DEF doubleType, integerType, booleanType, keywordType, nilType
  <2>3. v.q[1] \in Int /\ Wrap(v.q[1] % Words) = v.q[1]
    BY <1>6, <1>9, WrapRight, HalfAssumption DEF Int32, MinInt
  <2>4. u = v
    BY <1>2, <1>6, <1>9, <2>2, <2>3 DEF unboxInt32, RT_unboxInt32
  <2>. QED  BY <2>4 DEF u, s, n, w, t
<1>10. CASE t = "Z"
  <2>1. n = 13
    BY <1>10, TypeNumbers DEF n
  <2>2. u = unboxBool(w)
    BY <1>3, <1>4, <1>5, <2>1 DEF doubleType, integerType, booleanType, keywordType, nilType
  <2>3. v = Box(TRUE) \/ v = Box(FALSE)
    <3>1. Scalar(v) /\ v.t = "Z"
      BY <1>1, <1>6, <1>10 DEF Objects
    <3>2. \A t1, q1 : v = Immediate(t1, q1) => t1 = "Z"
      BY <3>1 DEF Immediate
    <3>. QED  BY <3>1, <3>2 DEF Scalar
  <2>4. v.q = <<1, 1>> \/ v.q = Zero
    BY <2>3 DEF Box, Immediate
  <2>5. <<1, 1>> # Zero /\ 1 % 2 = 1 /\ 0 % 2 = 0
    BY DEF Zero
  <2>6. u = v
    <3>1. CASE v = Box(TRUE)
      <4>1. v.q = <<1, 1>>
        BY <3>1 DEF Box, Immediate
      <4>2. w.bits = 1
        BY <1>2, <1>10, <2>5, <4>1
      <4>. QED  BY <2>2, <2>5, <3>1, <4>2 DEF unboxBool, RT_unboxBool, Box
    <3>2. CASE v = Box(FALSE)
      <4>1. v.q = Zero
        BY <3>2 DEF Box, Immediate
      <4>2. w.bits = 0
        BY <1>2, <1>10, <4>1
      <4>. QED  BY <2>2, <2>5, <3>2, <4>2 DEF unboxBool, RT_unboxBool, Box
    <3>. QED  BY <2>3, <3>1, <3>2
  <2>. QED  BY <2>6 DEF u, s, n, w, t
<1>11. CASE t = "K"
  <2>1. n = 11
    BY <1>11, TypeNumbers DEF n
  <2>2. u = unboxKeyword(w)
    BY <1>3, <1>4, <1>5, <2>1 DEF doubleType, integerType, booleanType, keywordType, nilType
  <2>3. v = Immediate("K", Zero)
    BY <1>1, <1>6, <1>11 DEF Scalar, Immediate, Box, Objects
  <2>4. w.bits = 0
    BY <1>2, <1>11, <2>3 DEF Immediate, Zero
  <2>5. u = v
    BY <2>2, <2>3, <2>4 DEF unboxKeyword, RT_unboxKeyword, Zero
  <2>. QED  BY <2>5 DEF u, s, n, w, t
<1>12. CASE t = "N"
  <2>1. n = 12
    BY <1>12, TypeNumbers DEF n
  <2>2. u = Immediate("N", Zero)
    BY <1>3, <1>4, <1>5, <2>1 DEF doubleType, integerType, booleanType, keywordType, nilType
  <2>3. v = Immediate("N", Zero)
    BY <1>1, <1>6, <1>12 DEF Scalar, Immediate, Box, Objects
  <2>. QED  BY <2>2, <2>3 DEF u, s, n, w, t
<1>. QED  BY <1>1, <1>7, <1>8, <1>9, <1>10, <1>11, <1>12 DEF Types, Objects

(***************************************************************************)
(* A call in compiled code: arguments reach the overload as they are.      *)
(***************************************************************************)
LEMMA Packed ==
  ASSUME NEW h, GoodHeap(h), NEW v, Good(h, v)
  PROVE  LET w == WordOf(TypeOf(h, v), v)
         IN  /\ box(Unpacked(h, v)).value = w
             /\ box(Unpacked(h, v)).type = boxed(Determined(TypeNumber[TypeOf(h, v)]))
             /\ Read(h, w) = v
             /\ getType(h, w) = TypeNumber[TypeOf(h, v)]
             /\ \A k : box(Argument(k, h, v)).value = w
<1>. DEFINE t == TypeOf(h, v)
            w == WordOf(t, v)
<1>1. t \in Types /\ getType(h, w) = TypeNumber[t]
  BY WordType
<1>2. /\ box(Unpacked(h, v)).value = w
      /\ box(Unpacked(h, v)).type = boxed(Determined(TypeNumber[t]))
  BY <1>1, BoxRight DEF Unpacked
<1>3. Read(h, w) = v
  BY <1>1, ReadBack DEF Read
<1>4. ASSUME NEW k
      PROVE  box(Argument(k, h, v)).value = w
  <2>1. CASE k = "any"
    <3>1. Argument(k, h, v) = TypedValue(dynamicType, w)
      BY <1>2, <2>1 DEF Argument
    <3>. HIDE DEF w
    <3>2. TypedValue(dynamicType, w).type = dynamicType /\ TypedValue(dynamicType, w).value = w
      BY DEF TypedValue
    <3>3. ~isUnboxedPointer(dynamicType) /\ \A j : ~isUnboxedType(dynamicType, j)
      BY DynamicFacts DEF isUnboxedPointer, isUnboxedType
    <3>4. box(TypedValue(dynamicType, w)) = TypedValue(dynamicType, w)
      BY <3>2, <3>3, DynamicFacts DEF box
    <3>. QED  BY <3>1, <3>2, <3>4
  <2>2. CASE k # "any"
    BY <1>2, <2>2 DEF Argument
  <2>. QED  BY <2>1, <2>2
<1>. QED  BY <1>1, <1>2, <1>3, <1>4

LEMMA PassesRight ==
  ASSUME NEW h, GoodHeap(h), NEW v, Good(h, v), NEW k, NEW t, t \in {"any", TypeOf(h, v)}
  PROVE  Passes(h, t, Argument(k, h, v)) = v
<1>. DEFINE arg == Argument(k, h, v)
            w == WordOf(TypeOf(h, v), v)
<1>0. TypeOf(h, v) # "any"
  BY WordType DEF Types
<1>1. CASE t = "any"
  BY <1>1, Packed DEF Passes
<1>2. CASE t # "any" /\ k = "any"
  <2>1. arg = TypedValue(dynamicType, w)
    BY <1>2, Packed DEF Argument
  <2>2. arg.type.boxed /\ arg.value = w
    BY <2>1, DynamicFacts DEF TypedValue
  <2>. HIDE DEF arg
  <2>3. Passes(h, t, arg) =
          unbox(TypedValue(boxed(Determined(TypeNumber[t])), w)).value
    BY <1>2, <2>2 DEF Passes
  <2>. QED  BY <1>2, <2>3, ReadBack DEF arg
<1>3. CASE t # "any" /\ k # "any"
  <2>1. arg = TypedValue(Determined(TypeNumber[TypeOf(h, v)]), v)
    BY <1>3 DEF Argument, Unpacked
  <2>2. ~arg.type.boxed /\ arg.value = v
    BY <2>1, DeterminedFacts DEF TypedValue
  <2>. HIDE DEF arg
  <2>3. Passes(h, t, arg) = unbox(arg).value
    BY <1>3, <2>2 DEF Passes
  <2>. QED  BY <2>2, <2>3 DEF unbox, arg
<1>. QED  BY <1>1, <1>2, <1>3

LEMMA MatchesRight ==
  ASSUME NEW h, GoodHeap(h), NEW v, Good(h, v), NEW k, NEW t \in Numeric
  PROVE  Matches(h, t, Argument(k, h, v)) <=> t = TypeOf(h, v)
<1>1. t # "any" /\ t \in Types /\ TypeOf(h, v) \in Types
  BY WordType DEF Numeric, Types
<1>2. getType(h, box(Argument(k, h, v)).value) = TypeNumber[TypeOf(h, v)]
  BY Packed
<1>3. Matches(h, t, Argument(k, h, v)) <=> TypeNumber[TypeOf(h, v)] = TypeNumber[t]
  BY <1>1, <1>2 DEF Matches
<1>. QED  BY <1>1, <1>3, TypesDiffer

(* The branches of a dispatch meet without a change.                       *)
LEMMA MergedYields ==
  ASSUME NEW h, NEW op, NEW x, NEW y, NEW c, NEW t, Yields(h, op, x, y, c, t)
  PROVE  Yields(h, op, x, y, Merged(c), t)
<1>1. CASE c.r = Exception
  BY <1>1 DEF Merged
<1>2. CASE c.r # Exception
  <2>1. GoodHeap(c.h) /\ Good(c.h, c.r)
    BY <1>2 DEF Yields, Right, Consumes
  <2>2. Merged(c) = Give(c.h, c.r)
    BY <1>2, <2>1, Packed DEF Merged
  <2>. DEFINE d == Give(c.h, c.r)
  <2>3. d.h = c.h /\ d.r = c.r
    BY DEF Give
  <2>. HIDE DEF d
  <2>4. Consumes(h, x, y, c) /\ Matching(c, AnswerTo(h, op, x, y))
    BY DEF Yields, Right
  <2>5. Consumes(h, x, y, d)
    BY <2>3, <2>4 DEF Consumes
  <2>6. Matching(d, AnswerTo(h, op, x, y))
    BY <2>3, <2>4 DEF Matching
  <2>7. Yields(h, op, x, y, d, t)
    BY <2>3, <2>5, <2>6 DEF Yields, Right
  <2>. QED  BY <2>2, <2>7 DEF d
<1>. QED  BY <1>1, <1>2

(* The tests that compiled code makes.                                     *)
LEMMA TestsRight ==
  ASSUME NEW h, GoodHeap(h), NEW v, Good(h, v)
  PROVE  TestsTell(h, v)
<1>. DEFINE t == TypeOf(h, v)
            n == TypeNumber[t]
            u == WordOf(t, v)
<1>1. t \in Types /\ (t \in Objects <=> v.a # Null) /\ (v.a # Null => h[v.a].tag = t)
  BY TypeFacts DEF Types, Objects, TypeOf
<1>2. /\ (t = "D" <=> u.tag < RT_TAG_DOUBLE_START) /\ (t = "I" <=> u.tag = RT_TAG_INT32)
      /\ (t = "Z" <=> u.tag = RT_TAG_BOOL) /\ (t = "N" <=> u.tag = RT_TAG_NIL)
      /\ (t = "K" <=> u.tag = RT_TAG_KEYWORD) /\ (t \in Objects <=> u.tag = RT_TAG_PTR)
      /\ (t \in Objects => u.bits = v.a) /\ (t = "N" => u.bits = 0)
  BY <1>1, Tags
<1>3. /\ box(Unpacked(h, v)).value = u /\ box(Unpacked(h, v)).type = boxed(Determined(n))
  BY Packed
<1>4. /\ n = doubleType <=> t = "D"
      /\ n = integerType <=> t = "I"
      /\ n = booleanType <=> t = "Z"
      /\ n = nilType <=> t = "N"
      /\ n = keywordType <=> t = "K"
      /\ n = bigIntegerType <=> t = "B"
      /\ n = ratioType <=> t = "R"
      /\ n \notin Scalars <=> t \in Objects
  BY <1>1, TypeNumbers DEF Types, Objects, Scalars, doubleType, integerType, booleanType, nilType,
                          keywordType, bigIntegerType, ratioType
<1>. HIDE DEF t, n, u
<1>5. ASSUME NEW w, w.value = u,
             \A j : isBoxedType(w.type, j) => j = n,
             isBoxedPointer(w.type) => n \notin Scalars
      PROVE  /\ isDouble(w) <=> t = "D"
             /\ isInt32(w) <=> t = "I"
             /\ isBool(w) <=> t = "Z"
             /\ isNil(w) <=> t = "N"
             /\ isKeyword(w) <=> t = "K"
             /\ isPointer(w) <=> t \in {"B", "R", "S"}
             /\ isBigInt(h, w) <=> t = "B"
             /\ isRatio(h, w) <=> t = "R"
  <2>1. isDouble(w) <=> t = "D"
    BY <1>2, <1>4, <1>5 DEF isDouble
  <2>2. isInt32(w) <=> t = "I"
    BY <1>2, <1>4, <1>5 DEF isInt32
  <2>3. isBool(w) <=> t = "Z"
    BY <1>2, <1>4, <1>5 DEF isBool
  <2>4. isNil(w) <=> t = "N"
    BY <1>2, <1>4, <1>5 DEF isNil
  <2>5. isKeyword(w) <=> t = "K"
    BY <1>2, <1>4, <1>5 DEF isKeyword
  <2>6. isPointer(w) <=> t \in Objects
    BY <1>2, <1>4, <1>5 DEF isPointer
  <2>7. isPointer(w) => h[RT_unboxPtr(w.value)].tag = t
    BY <1>1, <1>2, <1>5, <2>6 DEF RT_unboxPtr
  <2>8. isBigInt(h, w) <=> t = "B"
    BY <1>4, <1>5, <2>6, <2>7 DEF isBigInt, Objects
  <2>9. isRatio(h, w) <=> t = "R"
    BY <1>4, <1>5, <2>6, <2>7 DEF isRatio, Objects
  <2>. QED  BY <2>1, <2>2, <2>3, <2>4, <2>5, <2>6, <2>8, <2>9 DEF Objects
<1>6. ASSUME NEW k \in {"any", "type"}
      PROVE  LET w == TypedValue(IF k = "any" THEN dynamicType ELSE box(Unpacked(h, v)).type,
                                 box(Unpacked(h, v)).value)
             IN  /\ w.value = u
                 /\ \A j : isBoxedType(w.type, j) => j = n
                 /\ isBoxedPointer(w.type) => n \notin Scalars
  <2>. DEFINE s == IF k = "any" THEN dynamicType ELSE boxed(Determined(n))
              w == TypedValue(s, u)
  <2>1. w.type = s /\ w.value = u
    BY DEF TypedValue
  <2>2. CASE k = "any"
    BY <1>3, <2>1, <2>2, DynamicFacts
  <2>3. CASE k # "any"
    BY <1>3, <2>1, <2>3, DeterminedFacts
  <2>. QED  BY <2>2, <2>3
<1>. QED  BY <1>5, <1>6 DEF TestsTell, t

(***************************************************************************)
(* fabs of any value.                                                      *)
(***************************************************************************)
LEMMA AbsRight ==
  ASSUME NEW h, NEW v, Holds(h, v, Nothing)
  PROVE  LET c == Numbers_abs(h, v)
             q == ValueOf(h, v)
             d == IF TypeOf(h, v) \in {"B", "R"} THEN Truncated(q) ELSE q
         IN  /\ Consumes(h, v, Nothing, c)
             /\ TypeOf(h, v) \in Numeric => c.r = Immediate("D", <<Abs(d[1]), d[2]>>)
             /\ TypeOf(h, v) \notin Numeric => c.r = Exception
<1>. DEFINE q == ValueOf(h, v)
            d == IF TypeOf(h, v) \in {"B", "R"} THEN Truncated(q) ELSE q
            e == Numbers_toDouble(h, v)
            r == Immediate("D", <<Abs(d[1]), d[2]>>)
<1>1. CASE TypeOf(h, v) \in Numeric
  <2>1. Consumes(h, v, Nothing, e) /\ e.r = Immediate("D", d)
    BY <1>1, toDoubleRight
  <2>2. e.r # Exception /\ e.r.q = d /\ e.r.a = Null
    BY <2>1 DEF Immediate, Exception
  <2>. HIDE DEF e, d
  <2>3. Numbers_abs(h, v) = Give(e.h, r)
    BY <2>2 DEF Numbers_abs, Fabs, e
  <2>4. r.a = Null /\ Scalar(r)
    BY DEF Scalar, Immediate
  <2>5. Give(e.h, r).h = e.h /\ Give(e.h, r).r = r
    BY DEF Give
  <2>6. \A a \in Addr : Takes(r, a) = 0 /\ Takes(e.r, a) = 0
    BY <2>2, <2>4, Addresses DEF Takes
  <2>. HIDE DEF r
  <2>7. Consumes(h, v, Nothing, Give(e.h, r))
    BY <2>1, <2>4, <2>5, <2>6 DEF Consumes, Good
  <2>. QED  BY <1>1, <2>3, <2>5, <2>7 DEF r, d
<1>2. CASE TypeOf(h, v) \notin Numeric
  <2>1. e = Give(Drop(h, v), Exception)
    BY <1>2 DEF Numbers_toDouble, Numeric
  <2>2. Numbers_abs(h, v) = Give(Drop(h, v), Exception)
    BY <2>1 DEF Numbers_abs, Fabs, Give
  <2>. DEFINE c == Give(h, Exception)
  <2>3. c.h = h /\ c.r = Exception
    BY DEF Give
  <2>4. Consumes(h, Nothing, Nothing, c)
    BY ImmediateRight DEF Holds
  <2>. HIDE DEF c
  <2>5. Consumes(h, v, Nothing, Give(Drop(h, v), Exception))
    BY <2>3, <2>4, UnaryRight
  <2>. QED  BY <1>2, <2>2, <2>5 DEF Give
<1>. QED  BY <1>1, <1>2

(***************************************************************************)
(* The choice of an overload.                                              *)
(***************************************************************************)
LEMMA MinRight ==
  ASSUME NEW T \in SUBSET Nat, T # {}
  PROVE  Min(T) \in T /\ \A m \in T : Min(T) <= m
<1>1. \E n \in T : \A m \in T : n <= m
  BY SmallestOf
<1>. QED  BY <1>1 DEF Min

(* The first and the last overload of each operation.                      *)
LEMMA TableEnds ==
  ASSUME NEW op \in Ops
  PROVE  /\ \E n \in Nat : /\ n >= 11 /\ DOMAIN Overloads(op) = 1 .. n
                          /\ Overloads(op)[n] = Generic
         /\ Overloads(op)[1] \in {<<"D","D">>, <<"I","I">>}
         /\ Overloads(op)[2] \in {<<"D","D">>, <<"I","I">>}
         /\ op = "equiv" => /\ DOMAIN Overloads(op) = 1 .. 11
                            /\ Overloads(op)[1] = <<"I","I">> /\ Overloads(op)[2] = <<"D","D">>
                            /\ Overloads(op)[3] = <<"B","D">> /\ Overloads(op)[6] = <<"D","B">>
                            /\ Overloads(op)[11] = Generic
<1>1. CASE op \in {"add", "sub", "mul"}
  <2>1. Overloads(op) =
         << <<"D","D">>, <<"I","I">>, <<"I","D">>, <<"D","I">>, <<"I","B">>,
            <<"B","I">>, <<"B","D">>, <<"D","B">>, <<"R","D">>, <<"D","R">>,
            <<"B","R">>, <<"R","B">>, <<"I","R">>, <<"R","I">>, <<"B","B">>,
            <<"R","R">>, <<"any","any">> >>
    BY <1>1 DEF Overloads
  <2>2. DOMAIN Overloads(op) = 1 .. 17 /\ Overloads(op)[17] = Generic /\ 17 \in Nat /\ 17 >= 11
    BY <2>1 DEF Generic
  <2>3. Overloads(op)[1] = <<"D","D">> /\ Overloads(op)[2] = <<"I","I">>
    BY <2>1
  <2>. QED  BY <1>1, <2>2, <2>3
<1>2. CASE op = "equiv"
  <2>1. Overloads(op) =
         << <<"I","I">>, <<"D","D">>, <<"B","D">>, <<"B","I">>, <<"I","B">>,
            <<"D","B">>, <<"R","D">>, <<"D","R">>, <<"I","D">>, <<"D","I">>,
            <<"any","any">> >>
    BY <1>2 DEF Overloads
  <2>2. DOMAIN Overloads(op) = 1 .. 11 /\ Overloads(op)[11] = Generic /\ 11 \in Nat /\ 11 >= 11
    BY <2>1 DEF Generic
  <2>3. /\ Overloads(op)[1] = <<"I","I">> /\ Overloads(op)[2] = <<"D","D">>
        /\ Overloads(op)[3] = <<"B","D">> /\ Overloads(op)[6] = <<"D","B">>
    BY <2>1
  <2>. QED  BY <2>2, <2>3
<1>3. CASE op \notin {"add", "sub", "mul", "equiv"}
  <2>1. Overloads(op) =
         << <<"D","D">>, <<"I","I">>, <<"I","D">>, <<"D","I">>, <<"B","D">>,
            <<"D","B">>, <<"R","D">>, <<"D","R">>, <<"B","R">>, <<"R","B">>,
            <<"I","R">>, <<"R","I">>, <<"B","B">>, <<"R","R">>, <<"any","any">> >>
    BY <1>3 DEF Overloads
  <2>2. DOMAIN Overloads(op) = 1 .. 15 /\ Overloads(op)[15] = Generic /\ 15 \in Nat /\ 15 >= 11
    BY <2>1 DEF Generic
  <2>3. Overloads(op)[1] = <<"D","D">> /\ Overloads(op)[2] = <<"I","I">>
    BY <2>1
  <2>. QED  BY <1>3, <2>2, <2>3
<1>. QED  BY <1>1, <1>2, <1>3

(* An overload that fits operands of two types.                            *)
Fits(op, sig, t, u) == sig = Generic \/ (sig = <<t, u>> /\ InTable(op, sig))

LEMMA PossibleFits ==
  ASSUME NEW op \in Ops, NEW t, NEW u, t # "any", u # "any"
  PROVE  LET sig == First(op, Possibles(op, t, u))
         IN  /\ Fits(op, sig, t, u)
             /\ op = "equiv" /\ t = "D" /\ u = "D" => sig # Generic
<1>. DEFINE possible == Possibles(op, t, u)
            i == Min(possible)
            sig == Overloads(op)[i]
<1>1. PICK n \in Nat : /\ n >= 11 /\ DOMAIN Overloads(op) = 1 .. n
                       /\ Overloads(op)[n] = Generic
  BY TableEnds
<1>2. n \in possible /\ possible \in SUBSET Nat /\ possible # {}
  BY <1>1 DEF Possibles, Possible, Generic
<1>3. i \in possible /\ \A m \in possible : i <= m
  BY <1>2, MinRight
<1>4. i \in DOMAIN Overloads(op) /\ Possible(t, sig[1]) /\ Possible(u, sig[2])
  BY <1>3 DEF Possibles
<1>5. sig = Generic \/ InTable(op, sig)
  BY <1>4, TableShape
<1>. HIDE DEF sig
<1>6. Fits(op, sig, t, u)
  BY <1>4, <1>5 DEF Fits, Possible, InTable, Numeric
<1>7. ASSUME op = "equiv", t = "D", u = "D"
      PROVE  sig # Generic
  <2>1. /\ DOMAIN Overloads(op) = 1 .. 11
        /\ Overloads(op)[1] = <<"I","I">> /\ Overloads(op)[2] = <<"D","D">>
    BY <1>7, TableEnds
  <2>2. 2 \in possible /\ 1 \notin possible
    BY <1>7, <2>1 DEF Possibles, Possible
  <2>3. i = 2
    BY <1>2, <1>3, <2>2, <2>1, <1>4
  <2>. QED  BY <2>1, <2>3 DEF sig, Generic
<1>. QED  BY <1>6, <1>7 DEF First, sig

LEMMA IntervalSize ==
  ASSUME NEW k \in Nat
  PROVE  IsFiniteSet(1 .. k) /\ Cardinality(1 .. k) = k
<1>1. IsFiniteSet(1 .. k) /\ Cardinality(1 .. k) = IF 1 > k THEN 0 ELSE k - 1 + 1
  BY FS_Interval
<1>. QED  BY <1>1

(* With nothing known, only the first two overloads are tested for; and    *)
(* the second one, if it is possible, always is.                           *)
LEMMA TestedFirst ==
  ASSUME NEW n \in Nat, n >= 11, NEW T \in SUBSET (1 .. n)
  PROVE  /\ T = 1 .. n => Tested(T) \subseteq {1, 2}
         /\ 2 \in T /\ Cardinality(T) >= 3 => 2 \in Tested(T)
<1>1. IsFiniteSet(1 .. n) /\ Cardinality(1 .. n) = n
  BY IntervalSize
<1>2. IsFiniteSet(T) /\ Cardinality(T) \in Nat
  BY <1>1, FS_Subset, FS_CardinalityType
<1>3. ASSUME T = 1 .. n, NEW i \in Tested(T)
      PROVE  i \in {1, 2}
  <2>1. i \in 1 .. n /\ Cardinality({j \in 1 .. n : j <= i}) <= 2
    BY <1>1, <1>3 DEF Tested
  <2>2. {j \in 1 .. n : j <= i} = 1 .. i /\ i \in Nat
    BY <2>1
  <2>3. Cardinality(1 .. i) = i
    BY <2>2, IntervalSize
  <2>4. Cardinality({j \in 1 .. n : j <= i}) = i
    BY <2>2, <2>3
  <2>5. i <= 2 /\ i >= 1
    BY <2>1, <2>4
  <2>. QED  BY <2>2, <2>5
<1>4. ASSUME 2 \in T, Cardinality(T) >= 3
      PROVE  2 \in Tested(T)
  <2>. DEFINE U == {j \in T : j <= 2}
  <2>1. \A j \in U : j \in 1 .. 2
    OBVIOUS
  <2>2. IsFiniteSet(1 .. 2) /\ Cardinality(1 .. 2) = 2
    <3>1. 2 \in Nat
      OBVIOUS
    <3>. QED  BY <3>1, IntervalSize, Zenon
  <2>. HIDE DEF U
  <2>3. IsFiniteSet(U) /\ Cardinality(U) <= 2
    <3>1. U \in SUBSET (1 .. 2)
      BY <2>1
    <3>2. IsFiniteSet(U) /\ Cardinality(U) <= Cardinality(1 .. 2)
      BY <2>2, <3>1, FS_Subset
    <3>. QED  BY <2>2, <3>2
  <2>4. Cardinality(U) \in Nat
    BY <2>3, FS_CardinalityType
  <2>5. Cardinality(U) <= IF Cardinality(T) > 3 THEN 2 ELSE Cardinality(T) - 1
    BY <1>2, <1>4, <2>3, <2>4
  <2>. QED  BY <1>4, <2>5 DEF Tested, U
<1>. QED  BY <1>3, <1>4

(* What the types of the operands leave possible.                          *)
LEMMA PossibleFacts ==
  ASSUME NEW op \in Ops, NEW t, NEW u
  PROVE  LET possible == Possibles(op, t, u)
         IN  /\ possible \subseteq DOMAIN Overloads(op) /\ possible \subseteq Nat
             /\ t = "any" /\ u = "any" => Tested(possible) \subseteq {1, 2}
             /\ /\ op = "equiv" /\ t \in {"any", "D"} /\ u \in {"any", "D"}
                /\ t = "any" \/ u = "any"
                => 2 \in Tested(possible) /\ Overloads(op)[2] = <<"D","D">>
                                         /\ Overloads(op)[1] = <<"I","I">>
<1>. DEFINE possible == Possibles(op, t, u)
<1>1. PICK n \in Nat : /\ n >= 11 /\ DOMAIN Overloads(op) = 1 .. n
                       /\ Overloads(op)[n] = Generic
  BY TableEnds
<1>2. possible \subseteq 1 .. n
  BY <1>1 DEF Possibles
<1>3. t = "any" /\ u = "any" => possible = 1 .. n
  BY <1>1 DEF Possibles, Possible
<1>4. ASSUME op = "equiv", t \in {"any", "D"}, u \in {"any", "D"}, t = "any" \/ u = "any"
      PROVE  2 \in Tested(possible) /\ Overloads(op)[2] = <<"D","D">> /\ Overloads(op)[1] = <<"I","I">>
  <2>1. /\ DOMAIN Overloads(op) = 1 .. 11
        /\ Overloads(op)[1] = <<"I","I">> /\ Overloads(op)[2] = <<"D","D">>
        /\ Overloads(op)[3] = <<"B","D">> /\ Overloads(op)[6] = <<"D","B">>
        /\ Overloads(op)[11] = <<"any","any">>
    BY <1>4, TableEnds DEF Generic
  <2>2. 2 \in possible /\ 11 \in possible /\ (3 \in possible \/ 6 \in possible)
    BY <1>4, <2>1 DEF Possibles, Possible
  <2>3. PICK k \in {3, 6} : k \in possible
    BY <2>2
  <2>. DEFINE U == {2} \cup {k}
              V == U \cup {11}
  <2>4. IsFiniteSet({2}) /\ Cardinality({2}) = 1
    BY FS_Singleton, Zenon
  <2>5. k \notin {2} /\ 11 \notin U
    OBVIOUS
  <2>6. IsFiniteSet(U) /\ Cardinality(U) = 1 + 1
    <3>1. Cardinality(U) = Cardinality({2}) + 1 /\ IsFiniteSet(U)
      BY <2>4, <2>5, FS_AddElement, ZenonT(30)
    <3>. QED  BY <2>4, <3>1, Zenon
  <2>. HIDE DEF U
  <2>7. IsFiniteSet(V) /\ Cardinality(V) = (1 + 1) + 1
    <3>1. Cardinality(V) = Cardinality(U) + 1 /\ IsFiniteSet(V)
      BY <2>5, <2>6, FS_AddElement, Zenon
    <3>. QED  BY <2>6, <3>1
  <2>8. V \subseteq possible
    BY <2>2, <2>3 DEF U
  <2>. HIDE DEF V, possible
  <2>9. IsFiniteSet(possible) /\ Cardinality(possible) \in Nat
    BY <1>2, IntervalSize, FS_Subset, FS_CardinalityType
  <2>10. Cardinality(V) <= Cardinality(possible)
    BY <2>8, <2>9, FS_Subset
  <2>11. Cardinality(possible) >= 3
    BY <2>7, <2>9, <2>10
  <2>. QED  BY <1>1, <1>2, <2>1, <2>2, <2>11, TestedFirst
<1>. HIDE DEF possible
<1>5. ASSUME t = "any", u = "any" PROVE Tested(possible) \subseteq {1, 2}
  BY <1>1, <1>2, <1>3, <1>5, TestedFirst
<1>6. possible \subseteq DOMAIN Overloads(op) /\ possible \subseteq Nat
  BY <1>1, <1>2
<1>. QED  BY <1>4, <1>5, <1>6 DEF possible

(* What the tests at run time choose.                                      *)
LEMMA HitsFit ==
  ASSUME NEW h, GoodHeap(h), NEW x, Good(h, x), NEW y, Good(h, y), NEW op \in Ops,
         NEW kx, NEW ky, kx = "any" \/ ky = "any"
  PROVE  LET possible == Possibles(op, Known(kx, h, x), Known(ky, h, y))
             hits == {i \in Tested(possible) :
                        /\ Matches(h, Overloads(op)[i][1], Argument(kx, h, x))
                        /\ Matches(h, Overloads(op)[i][2], Argument(ky, h, y))}
             sig == IF hits = {} THEN Generic ELSE First(op, hits)
         IN  /\ Fits(op, sig, TypeOf(h, x), TypeOf(h, y))
             /\ kx = "any" /\ ky = "any" => sig \in {<<"D","D">>, <<"I","I">>, Generic}
             /\ op = "equiv" /\ TypeOf(h, x) = "D" /\ TypeOf(h, y) = "D" => sig # Generic
<1>. DEFINE tx == TypeOf(h, x)
            ty == TypeOf(h, y)
            t == Known(kx, h, x)
            u == Known(ky, h, y)
            possible == Possibles(op, t, u)
            hit(i) == /\ Matches(h, Overloads(op)[i][1], Argument(kx, h, x))
                      /\ Matches(h, Overloads(op)[i][2], Argument(ky, h, y))
            hits == {i \in Tested(possible) : hit(i)}
            sig == IF hits = {} THEN Generic ELSE First(op, hits)
<1>1. tx # "any" /\ ty # "any"
  BY WordType DEF Types
<1>2. /\ kx = "any" => t = "any"
      /\ kx # "any" => t = tx
      /\ ky = "any" => u = "any"
      /\ ky # "any" => u = ty
  BY DEF Known
<1>3. /\ possible \subseteq DOMAIN Overloads(op) /\ possible \subseteq Nat
      /\ t = "any" /\ u = "any" => Tested(possible) \subseteq {1, 2}
      /\ /\ op = "equiv" /\ t \in {"any", "D"} /\ u \in {"any", "D"}
         /\ t = "any" \/ u = "any"
         => 2 \in Tested(possible) /\ Overloads(op)[2] = <<"D","D">>
                                  /\ Overloads(op)[1] = <<"I","I">>
  BY PossibleFacts
<1>4. Tested(possible) \subseteq possible
  BY DEF Tested
<1>5. ASSUME NEW i \in DOMAIN Overloads(op)
      PROVE  hit(i) <=> Fits(op, Overloads(op)[i], tx, ty)
  <2>. DEFINE s == Overloads(op)[i]
  <2>1. CASE s = Generic
    <3>1. s[1] = "any" /\ s[2] = "any"
      BY <2>1 DEF Generic
    <3>. QED  BY <2>1, <3>1 DEF Fits, Matches
  <2>2. CASE s # Generic
    <3>1. InTable(op, s)
      BY <2>2, TableShape
    <3>. HIDE DEF s
    <3>2. s[1] \in Numeric /\ s[2] \in Numeric /\ s = <<s[1], s[2]>>
      BY <3>1 DEF InTable
    <3>3. /\ Matches(h, s[1], Argument(kx, h, x)) <=> s[1] = tx
          /\ Matches(h, s[2], Argument(ky, h, y)) <=> s[2] = ty
      BY <3>2, MatchesRight
    <3>4. (s[1] = tx /\ s[2] = ty) <=> s = <<tx, ty>>
      BY <3>2
    <3>. QED  BY <2>2, <3>1, <3>3, <3>4 DEF Fits, s
  <2>. QED  BY <2>1, <2>2
<1>. HIDE DEF tx, ty, t, u, possible, hit
<1>6. CASE hits = {}
  <2>1. sig = Generic
    BY <1>6
  <2>2. ~(op = "equiv" /\ tx = "D" /\ ty = "D")
    <3>. SUFFICES ASSUME op = "equiv", tx = "D", ty = "D" PROVE FALSE
      OBVIOUS
    <3>1. 2 \in Tested(possible) /\ Overloads(op)[2] = <<"D","D">>
      BY <1>2, <1>3
    <3>2. 2 \in DOMAIN Overloads(op) /\ Overloads(op)[2] # Generic
      BY <1>3, <1>4, <3>1 DEF Generic
    <3>3. InTable(op, Overloads(op)[2])
      BY <3>2, TableShape
    <3>4. Fits(op, Overloads(op)[2], tx, ty)
      BY <3>1, <3>3 DEF Fits
    <3>. QED  BY <1>5, <1>6, <3>1, <3>2, <3>4
  <2>. QED  BY <2>1, <2>2 DEF Fits, tx, ty, t, u, possible, hit
<1>7. CASE hits # {}
  <2>. DEFINE i == Min(hits)
              s == Overloads(op)[i]
  <2>1. hits \in SUBSET Nat
    BY <1>3, <1>4
  <2>2. i \in hits /\ \A m \in hits : i <= m
    BY <1>7, <2>1, MinRight
  <2>3. sig = s
    BY <1>7 DEF First
  <2>4. i \in Tested(possible) /\ i \in DOMAIN Overloads(op) /\ i \in Nat /\ hit(i)
    BY <1>3, <1>4, <2>2
  <2>5. Fits(op, s, tx, ty)
    BY <1>5, <2>4
  <2>6. kx = "any" /\ ky = "any" => s \in {<<"D","D">>, <<"I","I">>}
    BY <1>2, <1>3, <2>4, TableEnds
  <2>7. ASSUME op = "equiv", tx = "D", ty = "D"
        PROVE  s # Generic
    <3>1. 2 \in Tested(possible) /\ Overloads(op)[2] = <<"D","D">> /\ Overloads(op)[1] = <<"I","I">>
      BY <1>2, <1>3, <2>7
    <3>2. 2 \in DOMAIN Overloads(op) /\ Overloads(op)[2] # Generic
      BY <1>3, <1>4, <3>1 DEF Generic
    <3>3. InTable(op, Overloads(op)[2])
      BY <3>2, TableShape
    <3>4. Fits(op, Overloads(op)[2], tx, ty)
      BY <2>7, <3>1, <3>3 DEF Fits
    <3>5. 2 \in hits
      BY <1>5, <3>1, <3>2, <3>4
    <3>6. i <= 2 /\ i >= 1
      <4>1. i # 0
        BY <2>4, TableEnds
      <4>. QED  BY <2>2, <2>4, <3>5, <4>1
    <3>7. i \in {1, 2}
      BY <2>4, <3>6
    <3>. QED  BY <3>1, <3>7 DEF Generic
  <2>. HIDE DEF i, s
  <2>. QED  BY <2>3, <2>5, <2>6, <2>7 DEF tx, ty, t, u, possible, hit
<1>. QED  BY <1>6, <1>7

LEMMA HandledUnless ==
  ASSUME NEW h, NEW x, NEW y, NEW op, NEW kx, NEW ky, ~Mishandled(h, op, x, y, kx, ky),
         TypeOf(h, y) = "R" => ValueOf(h, y)[2] > 1,
         NEW sig, Fits(op, sig, TypeOf(h, x), TypeOf(h, y)),
         kx = "any" /\ ky = "any" => sig \in {<<"D","D">>, <<"I","I">>, Generic},
         op = "equiv" /\ TypeOf(h, x) = "D" /\ TypeOf(h, y) = "D" => sig # Generic
  PROVE  Handled(h, op, sig, x, y)
<1>. DEFINE tx == TypeOf(h, x)
            ty == TypeOf(h, y)
            p == ValueOf(h, x)
            q == ValueOf(h, y)
            d == CDiv(q[1], gcd[<<p[1], q[1]>>])
<1>1. /\ ~(/\ {tx, ty} = {"I"} /\ op = "div" /\ q # Zero /\ p # Zero
           /\ (d < -1 \/ (p[1] = MinInt /\ q[1] = -1)))
      /\ ~(op = "mul" /\ tx = "D" /\ ty = "B" /\ {kx, ky} # {"any"})
      /\ ~(op = "div" /\ q = Zero /\ tx = "R" /\ ty \in {"I", "B"} /\ {kx, ky} # {"any"})
      /\ op = "equiv" => tx = ty
  BY DEF Mishandled
<1>2. sig # Generic => sig = <<tx, ty>>
  BY DEF Fits
<1>3. {kx, ky} = {"any"} => kx = "any" /\ ky = "any"
  OBVIOUS
<1>4. \A a, b : <<a, b>> = sig => a = sig[1] /\ b = sig[2]
  OBVIOUS
<1>5. Generic[1] = "any" /\ Generic = <<"any", "any">>
  BY DEF Generic
<1>. HIDE DEF d
<1>6. ASSUME op = "div", sig = <<"I","I">>
      PROVE  ~BadQuotient(p, q)
  <2>1. tx = "I" /\ ty = "I"
    BY <1>2, <1>4, <1>5, <1>6
  <2>2. {tx, ty} = {"I"}
    BY <2>1
  <2>3. BadQuotient(p, q) <=> /\ p # Zero /\ q # Zero
                              /\ (d < -1 \/ (p[1] = MinInt /\ q[1] = -1))
    BY DEF BadQuotient, d
  <2>. QED  BY <1>1, <1>6, <2>2, <2>3
<1>7. ~(op = "mul" /\ sig = <<"D","B">>)
  <2>. SUFFICES ASSUME op = "mul", sig = <<"D","B">> PROVE FALSE
    OBVIOUS
  <2>1. tx = "D" /\ ty = "B"
    BY <1>2, <1>4, <1>5
  <2>2. ~(kx = "any" /\ ky = "any")
    BY <1>5
  <2>. QED  BY <1>1, <1>3, <2>1, <2>2
<1>8. ~(op = "div" /\ q = Zero /\ sig \in {<<"R","I">>, <<"R","B">>})
  <2>. SUFFICES ASSUME op = "div", q = Zero, sig \in {<<"R","I">>, <<"R","B">>} PROVE FALSE
    OBVIOUS
  <2>1. tx = "R" /\ ty \in {"I", "B"}
    BY <1>2, <1>4, <1>5
  <2>2. ~(kx = "any" /\ ky = "any")
    BY <1>5
  <2>. QED  BY <1>1, <1>3, <2>1, <2>2
<1>9. ty = "R" => q # Zero
  BY DEF Zero
<1>. QED  BY <1>1, <1>6, <1>7, <1>8, <1>9 DEF Handled

(* A call of compiled code, whatever the compiler knew of its operands.    *)
LEMMA StaticRight ==
  ASSUME NEW h, NEW x, NEW y, Holds(h, x, y), Room(h, 4), NEW op \in Ops, NEW kx, NEW ky,
         ~Mishandled(h, op, x, y, kx, ky), TypeOf(h, y) = "R" => ValueOf(h, y)[2] > 1
  PROVE  LET s == StaticCall(h, op, x, y, kx, ky)
         IN  Yields(h, op, x, y, s.call, s.type)
<1>. DEFINE tx == TypeOf(h, x)
            ty == TypeOf(h, y)
            ax == Argument(kx, h, x)
            ay == Argument(ky, h, y)
            possible == Possibles(op, Known(kx, h, x), Known(ky, h, y))
            hits == {i \in Tested(possible) : /\ Matches(h, Overloads(op)[i][1], ax)
                                              /\ Matches(h, Overloads(op)[i][2], ay)}
            call(g) == generateIntrinsic(h, op, g, Passes(h, g[1], ax), Passes(h, g[2], ay))
            s == StaticCall(h, op, x, y, kx, ky)
<1>1. GoodHeap(h) /\ Good(h, x) /\ Good(h, y)
  BY DEF Holds
<1>2. tx # "any" /\ ty # "any"
  BY <1>1, WordType DEF Types
<1>3. ASSUME NEW sig, Fits(op, sig, tx, ty),
             kx = "any" /\ ky = "any" => sig \in {<<"D","D">>, <<"I","I">>, Generic},
             op = "equiv" /\ tx = "D" /\ ty = "D" => sig # Generic
      PROVE  Yields(h, op, x, y, call(sig), ReturnType(op, sig))
  <2>1. Handled(h, op, sig, x, y)
    BY <1>3, HandledUnless
  <2>2. sig[1] \in {"any", tx} /\ sig[2] \in {"any", ty}
    BY <1>3 DEF Fits, Generic
  <2>3. Passes(h, sig[1], ax) = x /\ Passes(h, sig[2], ay) = y
    BY <1>1, <2>2, PassesRight
  <2>4. call(sig) = generateIntrinsic(h, op, sig, x, y)
    BY <2>3
  <2>5. Yields(h, op, x, y, generateIntrinsic(h, op, sig, x, y), ReturnType(op, sig))
    BY <1>3, <2>1, IntrinsicYields DEF Fits
  <2>. QED  BY <2>4, <2>5
<1>4. CASE "any" \notin {kx, ky}
  <2>. DEFINE sig == First(op, possible)
  <2>1. possible = Possibles(op, tx, ty)
    BY <1>4 DEF Known
  <2>2. /\ Fits(op, sig, tx, ty)
        /\ op = "equiv" /\ tx = "D" /\ ty = "D" => sig # Generic
    BY <1>2, <2>1, PossibleFits
  <2>3. s = [call |-> call(sig), type |-> ReturnType(op, sig)]
    BY <1>4 DEF StaticCall
  <2>. HIDE DEF sig, call, s
  <2>4. s.call = call(sig) /\ s.type = ReturnType(op, sig)
    BY <2>3
  <2>5. Yields(h, op, x, y, call(sig), ReturnType(op, sig))
    BY <1>3, <1>4, <2>2
  <2>. QED  BY <2>4, <2>5 DEF s
<1>5. CASE "any" \in {kx, ky}
  <2>. DEFINE sig == IF hits = {} THEN Generic ELSE First(op, hits)
  <2>1. /\ Fits(op, sig, tx, ty)
        /\ kx = "any" /\ ky = "any" => sig \in {<<"D","D">>, <<"I","I">>, Generic}
        /\ op = "equiv" /\ tx = "D" /\ ty = "D" => sig # Generic
    <3>1. kx = "any" \/ ky = "any"
      BY <1>5
    <3>. QED  BY <1>1, <3>1, HitsFit
  <2>2. s = [call |-> Merged(call(sig)), type |-> "any"]
    BY <1>5 DEF StaticCall
  <2>. HIDE DEF sig, call, s
  <2>3. s.call = Merged(call(sig)) /\ s.type = "any"
    BY <2>2
  <2>4. Yields(h, op, x, y, Merged(call(sig)), ReturnType(op, sig))
    BY <1>3, <2>1, MergedYields
  <2>5. Yields(h, op, x, y, Merged(call(sig)), "any")
    BY <2>4 DEF Yields
  <2>. QED  BY <2>3, <2>5 DEF s
<1>. QED  BY <1>4, <1>5

(***************************************************************************)
(* Constant folding.                                                       *)
(***************************************************************************)
LEMMA NotNaN ==
  ASSUME NEW p \in Rational
  PROVE  p # NaN /\ p = <<p[1], p[2]>> /\ p[1] \in Int
BY DEF Rational, Pairs, NaN

LEMMA ConstantFacts ==
  ASSUME NEW t \in Numeric, NEW p, NEW c, c = NoConst \/ c = Immediate(t, p)
  PROVE  /\ c # NoConst => c.t = t /\ c.q = p /\ c = Immediate(t, p)
         /\ t \in Exacts /\ getQ(c) # NaN => c # NoConst /\ getQ(c) = p
         /\ t \in {"I", "B"} /\ getZ(c) # NaN => c # NoConst /\ getZ(c) = p
         /\ c # NoConst => getD(c) = AsDouble(t, p)
<1>1. CASE c = NoConst
  <2>1. c.t = "none"
    BY <1>1 DEF NoConst, Immediate
  <2>. QED  BY <1>1, <2>1 DEF getQ, getZ
<1>2. CASE c # NoConst
  <2>1. c.t = t /\ c.q = p
    BY <1>2 DEF Immediate
  <2>. QED  BY <1>2, <2>1 DEF getQ, getZ, getD, AsDouble, Exacts, Numeric
<1>. QED  BY <1>1, <1>2

LEMMA CreateRight ==
  ASSUME NEW r \in Rational, r[2] = 1 => r[1] \in Int32
  PROVE  createQ(r).q = r
<1>1. r = <<r[1], r[2]>> /\ r[1] \in Int
  BY NotNaN
<1>2. r[2] = 1 => Wrap(r[1]) = r[1]
  BY <1>1, WrapRight
<1>3. r[2] = 1 => createZ(r[1]).q = r
  BY <1>1, <1>2 DEF createZ, Immediate
<1>. QED  BY <1>3 DEF createQ, Immediate

LEMMA FoldedExacts ==
  ASSUME NEW op \in MathOps, NEW t \in Exacts, NEW u \in Exacts,
         NEW p \in Rational, NEW q \in Rational,
         op = "div" \/ t # "I" \/ u # "I",
         ~(op = "div" /\ q = Zero) /\ Exact(op, p, q)[2] = 1 => Exact(op, p, q)[1] \in Int32,
         FoldQ(op, p, q) # NoConst
  PROVE  FoldQ(op, p, q).q = Answer(op, t, p, u, q).q
<1>1. ~(op = "div" /\ q = Zero)
  BY DEF FoldQ
<1>2. FoldQ(op, p, q) = createQ(Exact(op, p, q))
  BY <1>1, NotNaN DEF FoldQ
<1>3. Exact(op, p, q) \in Rational
  BY <1>1, ExactRight
<1>4. createQ(Exact(op, p, q)).q = Exact(op, p, q)
  BY <1>1, <1>3, CreateRight
<1>5. Answer(op, t, p, u, q) = Immediate("exact", Exact(op, p, q))
  BY <1>1, AnswerOfExacts
<1>. QED  BY <1>2, <1>4, <1>5 DEF Immediate

LEMMA FoldRight ==
  ASSUME NEW op \in Ops, NEW t \in Numeric, NEW u \in Numeric, NEW p, NEW q,
         t \in Exacts => p \in Rational, u \in Exacts => q \in Rational,
         t = "I" => p[2] = 1, u = "I" => q[2] = 1,
         NEW c, c = NoConst \/ c = Immediate(t, p),
         NEW d, d = NoConst \/ d = Immediate(u, q),
         InTable(op, <<t, u>>), op = "equiv" => t = u,
         "D" \in {t, u} /\ t # u => c # NoConst /\ d # NoConst,
         /\ op \in MathOps /\ c # NoConst /\ d # NoConst /\ t \in Exacts /\ u \in Exacts
         /\ ~(op = "div" /\ q = Zero) /\ Exact(op, p, q)[2] = 1
         => Exact(op, p, q)[1] \in Int32,
         Answer(op, t, p, u, q) # Exception,
         foldIntrinsic(op, <<t, u>>, c, d) # NoConst
  PROVE  foldIntrinsic(op, <<t, u>>, c, d).q = Answer(op, t, p, u, q).q
<1>. DEFINE sig == <<t, u>>
            types == {t, u}
            f == foldIntrinsic(op, sig, c, d)
            answer == Answer(op, t, p, u, q)
            special == op = "equiv" /\ types = {"I", "B"}
<1>1. Range(sig) = types
  BY RangeOfPair
<1>2. sig # Generic
  BY DEF Generic, Numeric
<1>3. /\ c # NoConst => c.q = p
      /\ d # NoConst => d.q = q
      /\ c # NoConst => getD(c) = AsDouble(t, p)
      /\ d # NoConst => getD(d) = AsDouble(u, q)
      /\ t \in Exacts /\ getQ(c) # NaN => c # NoConst /\ getQ(c) = p
      /\ u \in Exacts /\ getQ(d) # NaN => d # NoConst /\ getQ(d) = q
      /\ t \in {"I", "B"} /\ getZ(c) # NaN => c # NoConst /\ getZ(c) = p
      /\ u \in {"I", "B"} /\ getZ(d) # NaN => d # NoConst /\ getZ(d) = q
  BY ConstantFacts
<1>4. ~special
  OBVIOUS
<1>5. \A x, y : Immediate(x, y).q = y
  BY DEF Immediate
<1>. HIDE DEF sig
<1>6. CASE types = {"D"}
  <2>1. t = "D" /\ u = "D" /\ AsDouble(t, p) = p /\ AsDouble(u, q) = q /\ "D" \in types
    BY <1>6 DEF AsDouble
  <2>2. types # {"I"} /\ "R" \notin types
    BY <1>6
  <2>3. answer = IF op \in MathOps THEN Immediate("D", Float(op, p, q)) ELSE Box(Compare(op, p, q))
    <3>1. answer = IF op \in MathOps THEN Immediate("D", Float(op, AsDouble(t, p), AsDouble(u, q)))
                   ELSE Box(Compare(op, AsDouble(t, p), AsDouble(u, q)))
      BY <2>1, AnswerOfDoubles
    <3>. QED  BY <2>1, <3>1
  <2>4. CASE op \in MathOps
    <3>1. f = FoldDouble(op, c, d)
      BY <1>1, <1>2, <1>4, <1>6, <2>1, <2>2, <2>4, OpKinds DEF foldIntrinsic
    <3>2. f = Immediate("D", Float(op, c.q, d.q)) /\ c # NoConst /\ d # NoConst
      BY <3>1 DEF FoldDouble, sig
    <3>. QED  BY <1>3, <2>3, <2>4, <3>2 DEF sig
  <2>5. CASE op \notin MathOps
    <3>1. f = FoldDoubleCmp(op, c, d)
      BY <1>1, <1>2, <1>4, <1>6, <2>1, <2>2, <2>5, OpKinds DEF foldIntrinsic
    <3>2. f = Box(Compare(op, c.q, d.q)) /\ c # NoConst /\ d # NoConst
      BY <3>1 DEF FoldDoubleCmp, sig
    <3>. QED  BY <1>3, <2>3, <2>5, <3>2 DEF sig
  <2>. QED  BY <2>4, <2>5
<1>7. CASE "D" \in types /\ types # {"D"}
  <2>1. c # NoConst /\ d # NoConst /\ types # {"I"}
    BY <1>7
  <2>2. answer = IF op \in MathOps THEN Immediate("D", Float(op, getD(c), getD(d)))
                 ELSE Box(Compare(op, getD(c), getD(d)))
    BY <1>3, <1>7, <2>1, AnswerOfDoubles
  <2>3. CASE op \in MathOps
    <3>1. f = FoldMixedD(op, c, d)
      BY <1>1, <1>2, <1>4, <1>7, <2>1, <2>3, OpKinds DEF foldIntrinsic
    <3>. QED  BY <2>2, <2>3, <3>1 DEF FoldMixedD, sig
  <2>4. CASE op \notin MathOps
    <3>1. f = FoldMixedDCmp(op, c, d)
      BY <1>1, <1>2, <1>4, <1>7, <2>1, <2>4, OpKinds DEF foldIntrinsic
    <3>. QED  BY <2>2, <2>4, <3>1 DEF FoldMixedDCmp, sig
  <2>. QED  BY <2>3, <2>4
<1>8. CASE types = {"I"}
  <2>1. t = "I" /\ u = "I" /\ "D" \notin types /\ "R" \notin types /\ types # {"D"}
    BY <1>8
  <2>2. t \in Exacts /\ u \in Exacts /\ p \in Rational /\ q \in Rational
    BY <2>1 DEF Exacts
  <2>3. p = <<p[1], 1>> /\ q = <<q[1], 1>> /\ p[1] \in Int /\ q[1] \in Int /\ p[2] = 1 /\ q[2] = 1
    BY <2>1, <2>2, NotNaN
  <2>4. CASE op \in MathOps /\ op # "div"
    <3>1. f = FoldInteger(op, c, d)
      BY <1>1, <1>2, <1>4, <1>8, <2>1, <2>4, OpKinds DEF foldIntrinsic
    <3>2. f = Immediate("I", <<Wrap(Exact(op, c.q, d.q)[1]), 1>>) /\ c # NoConst /\ d # NoConst
      BY <3>1 DEF FoldInteger, sig
    <3>3. f.q = <<Wrap(Exact(op, p, q)[1]), 1>>
      BY <1>3, <1>5, <3>2
    <3>4. Exact(op, p, q)[1] \in Int32
      BY <2>1, <2>2, <2>4, AnswerOfFailures
    <3>5. Exact(op, p, q) \in Rational /\ Exact(op, p, q)[2] = 1
      BY <2>2, <2>3, <2>4, ExactRight
    <3>. DEFINE r == Exact(op, p, q)
    <3>. HIDE DEF r
    <3>6. r = <<r[1], 1>> /\ r[1] \in Int /\ r[1] \in Int32
      BY <3>4, <3>5, NotNaN DEF r
    <3>7. Wrap(r[1]) = r[1]
      BY <3>6, WrapRight
    <3>8. answer = Immediate("exact", r)
      BY <2>2, <2>4, <3>4, AnswerOfExacts DEF r
    <3>9. f.q = <<Wrap(r[1]), 1>>
      BY <3>3 DEF r
    <3>. QED  BY <1>5, <3>6, <3>7, <3>8, <3>9 DEF sig
  <2>5. CASE op \in MathOps /\ op = "div"
    <3>1. f = FoldMixZ(op, c, d)
      BY <1>1, <1>2, <1>4, <1>8, <2>1, <2>5, OpKinds DEF foldIntrinsic
    <3>2. f = FoldQ(op, getQ(c), getQ(d))
      BY <2>5, <3>1 DEF FoldMixZ
    <3>3. getQ(c) # NaN /\ getQ(d) # NaN
      BY <3>2 DEF FoldQ, sig
    <3>4. c # NoConst /\ d # NoConst /\ f = FoldQ(op, p, q)
      BY <1>3, <2>2, <3>2, <3>3
    <3>5. FoldQ(op, p, q) # NoConst
      BY <3>4 DEF sig
    <3>6. FoldQ(op, p, q).q = answer.q
      BY <2>2, <2>5, <3>4, <3>5, FoldedExacts
    <3>. QED  BY <3>4, <3>6 DEF sig
  <2>6. CASE op \notin MathOps
    <3>1. f = FoldIntegerCmp(op, c, d)
      BY <1>1, <1>2, <1>4, <1>8, <2>1, <2>6, OpKinds DEF foldIntrinsic
    <3>2. f = Box(Compare(op, c.q, d.q)) /\ c # NoConst /\ d # NoConst
      BY <3>1 DEF FoldIntegerCmp, sig
    <3>3. f = Box(Compare(op, p, q))
      BY <1>3, <3>2
    <3>4. CASE op \in CmpOps
      BY <2>2, <3>3, <3>4, AnswerOfTests DEF sig
    <3>5. CASE op = "equiv"
      <4>1. answer = Box(p = q)
        BY <2>1, <3>5, AnswerOfEquals
      <4>2. Compare(op, p, q) <=> p = q
        BY <2>3, <3>5 DEF Compare, NaN
      <4>. QED  BY <3>3, <4>1, <4>2 DEF Box, sig
    <3>. QED  BY <2>6, <3>4, <3>5, OpKinds
  <2>. QED  BY <2>4, <2>5, <2>6
<1>9. CASE "D" \notin types /\ types # {"I"}
  <2>1. t \in Exacts /\ u \in Exacts /\ p \in Rational /\ q \in Rational /\ types # {"D"}
    BY <1>9 DEF Exacts, Numeric
  <2>2. t # "I" \/ u # "I"
    BY <1>9
  <2>3. ASSUME op \in MathOps, c # NoConst, d # NoConst, f = FoldQ(op, p, q)
        PROVE  f.q = answer.q
    <3>1. FoldQ(op, p, q) # NoConst
      BY <2>3 DEF sig
    <3>. QED  BY <2>1, <2>2, <2>3, <3>1, FoldedExacts
  <2>4. CASE op \in MathOps /\ "R" \notin types
    <3>1. t \in {"I", "B"} /\ u \in {"I", "B"}
      BY <2>1, <2>4 DEF Exacts
    <3>2. types \in {{"B"}, {"I", "B"}}
      BY <1>9, <3>1
    <3>3. f = FoldMixZ(op, c, d)
      BY <1>1, <1>2, <1>4, <1>9, <2>1, <2>4, <3>2, OpKinds DEF foldIntrinsic
    <3>4. c # NoConst /\ d # NoConst /\ f = FoldQ(op, p, q)
      <4>1. CASE op = "div"
        <5>1. f = FoldQ(op, getQ(c), getQ(d))
          BY <3>3, <4>1 DEF FoldMixZ
        <5>2. getQ(c) # NaN /\ getQ(d) # NaN
          BY <5>1 DEF FoldQ, sig
        <5>. QED  BY <1>3, <2>1, <5>1, <5>2
      <4>2. CASE op # "div"
        <5>1. f = FoldQ(op, getZ(c), getZ(d))
          BY <3>3, <4>2 DEF FoldMixZ
        <5>2. getZ(c) # NaN /\ getZ(d) # NaN
          BY <5>1 DEF FoldQ, sig
        <5>. QED  BY <1>3, <3>1, <5>1, <5>2
      <4>. QED  BY <4>1, <4>2
    <3>. QED  BY <2>3, <2>4, <3>4 DEF sig
  <2>5. CASE op \in MathOps /\ "R" \in types
    <3>1. f = FoldMixQ(op, c, d)
      BY <1>1, <1>2, <1>4, <1>9, <2>1, <2>5, OpKinds DEF foldIntrinsic
    <3>2. f = FoldQ(op, getQ(c), getQ(d))
      BY <3>1 DEF FoldMixQ
    <3>3. getQ(c) # NaN /\ getQ(d) # NaN
      BY <3>2 DEF FoldQ, sig
    <3>4. c # NoConst /\ d # NoConst /\ f = FoldQ(op, p, q)
      BY <1>3, <2>1, <3>2, <3>3
    <3>. QED  BY <2>3, <2>5, <3>4 DEF sig
  <2>6. CASE op \notin MathOps
    <3>1. op \in CmpOps
      <4>1. op # "equiv"
        BY <1>9, <2>1 DEF InTable, Exacts
      <4>. QED  BY <2>6, <4>1, OpKinds
    <3>2. f = FoldQCmp(op, c, d)
      BY <1>1, <1>2, <1>4, <1>9, <2>1, <2>6, OpKinds DEF foldIntrinsic
    <3>3. getQ(c) # NaN /\ getQ(d) # NaN /\ f = Box(Compare(op, getQ(c), getQ(d)))
      BY <3>2 DEF FoldQCmp, sig
    <3>4. f = Box(Compare(op, p, q))
      BY <1>3, <2>1, <3>3
    <3>. QED  BY <2>1, <3>1, <3>4, AnswerOfTests DEF sig
  <2>. QED  BY <2>4, <2>5, <2>6
<1>. QED  BY <1>6, <1>7, <1>8, <1>9

(* A result that the compiler computed is the result of the call.          *)
LEMMA FoldedRight ==
  ASSUME NEW h, GoodHeap(h), NEW x, Good(h, x), NEW y, Good(h, y), NEW op \in Ops,
         NEW kx \in {"const", "type", "any"}, NEW ky \in {"const", "type", "any"},
         ~Mishandled(h, op, x, y, kx, ky), AnswerTo(h, op, x, y) # Exception,
         Folded(h, op, x, y, kx, ky) # NoConst
  PROVE  Folded(h, op, x, y, kx, ky).q = AnswerTo(h, op, x, y).q
<1>. DEFINE t == TypeOf(h, x)
            u == TypeOf(h, y)
            p == ValueOf(h, x)
            q == ValueOf(h, y)
            c == Constant(kx, h, x)
            d == Constant(ky, h, y)
            sig == First(op, Possibles(op, t, u))
            f == foldIntrinsic(op, sig, c, d)
<1>1. "any" \notin {kx, ky} /\ Folded(h, op, x, y, kx, ky) = f
  BY DEF Folded
<1>2. t # "any" /\ u # "any"
  BY WordType DEF Types
<1>3. Fits(op, sig, t, u)
  BY <1>2, PossibleFits
<1>4. sig # Generic
  <2>. SUFFICES ASSUME sig = Generic PROVE FALSE
    OBVIOUS
  <2>. HIDE DEF sig, c, d
  <2>1. Range(Generic) = {"any"}
    BY RangeOfPair DEF Generic
  <2>2. {"any"} # {"D"} /\ {"any"} # {"I"} /\ "D" \notin {"any"} /\ "R" \notin {"any"}
    OBVIOUS
  <2>3. f = NoConst
    BY <2>1, <2>2 DEF foldIntrinsic
  <2>. QED  BY <1>1, <2>3
<1>5. sig = <<t, u>> /\ InTable(op, <<t, u>>) /\ t \in Numeric /\ u \in Numeric
  BY <1>3, <1>4 DEF Fits, InTable
<1>6. /\ t \in Exacts => p \in Rational
      /\ u \in Exacts => q \in Rational
      /\ t = "I" => p[2] = 1
      /\ u = "I" => q[2] = 1
  BY TypeFacts DEF Exacts
<1>7. /\ c = NoConst \/ c = Immediate(t, p)
      /\ d = NoConst \/ d = Immediate(u, q)
      /\ c # NoConst => kx = "const"
      /\ d # NoConst => ky = "const"
  BY DEF Constant
<1>8. kx = "const" => c # NoConst
  BY <1>5 DEF Constant, NoConst, Immediate, Numeric
<1>9. ky = "const" => d # NoConst
  BY <1>5 DEF Constant, NoConst, Immediate, Numeric
<1>10. /\ op = "equiv" => t = u
       /\ "D" \in {t, u} /\ t # u => kx = "const" /\ ky = "const"
       /\ /\ op \in MathOps /\ kx = "const" /\ ky = "const" /\ "D" \notin {t, u} /\ p # NaN
          /\ ~(op = "div" /\ q = Zero) /\ Exact(op, p, q)[2] = 1
          => Exact(op, p, q)[1] \in Int32
  <2>1. {t, u} \subseteq Numeric
    BY <1>5
  <2>. QED  BY <1>1, <2>1 DEF Mishandled
<1>11. t \in Exacts /\ u \in Exacts => "D" \notin {t, u} /\ p # NaN
  BY <1>6, NotNaN DEF Exacts
<1>12. Answer(op, t, p, u, q) # Exception
  BY DEF AnswerTo
<1>13. foldIntrinsic(op, <<t, u>>, c, d) # NoConst
  BY <1>1, <1>5
<1>. HIDE DEF c, d, sig, t, u, p, q
<1>14. foldIntrinsic(op, <<t, u>>, c, d).q = Answer(op, t, p, u, q).q
  BY <1>5, <1>6, <1>7, <1>8, <1>9, <1>10, <1>11, <1>12, <1>13, FoldRight
<1>. QED  BY <1>1, <1>5, <1>14 DEF AnswerTo, t, u, p, q

(***************************************************************************)
(* The program.                                                            *)
(***************************************************************************)
LEMMA RetainRight ==
  ASSUME NEW h, GoodHeap(h), NEW v, Good(h, v)
  PROVE  LET g == Retain(h, v.a)
         IN  /\ GoodHeap(g)
             /\ \A a \in Addr : g[a].rc = h[a].rc + Takes(v, a) /\ Unchanged(h, g, a)
<1>. DEFINE g == Retain(h, v.a)
<1>1. CASE v.a = Null
  <2>1. g = h
    BY <1>1 DEF Retain, IsPtr, Null
  <2>2. \A a \in Addr : Takes(v, a) = 0 /\ h[a].rc \in Nat
    BY <1>1, Addresses, CellFacts DEF Takes
  <2>. QED  BY <2>1, <2>2 DEF Unchanged
<1>2. CASE v.a # Null
  <2>1. v.a \in Addr /\ h[v.a].rc > 0 /\ IsPtr(v.a)
    BY <1>2, ValueFacts, Addresses DEF IsPtr
  <2>2. g = [h EXCEPT ![v.a] = [h[v.a] EXCEPT !.rc = @ + 1]]
    BY <2>1 DEF Retain
  <2>. DEFINE e == [h[v.a] EXCEPT !.rc = @ + 1]
  <2>3. h[v.a] \in Cell /\ h[v.a].rc \in Nat /\ Kind(h[v.a].tag, h[v.a].info) /\ h[v.a].tag # "free"
    BY <2>1, CellFacts
  <2>4. e \in Cell /\ e.rc = h[v.a].rc + 1 /\ e.tag = h[v.a].tag /\ e.info = h[v.a].info
    BY <2>3 DEF Cell
  <2>. HIDE DEF e
  <2>5. GoodHeap(g)
    <3>1. e.rc > 0 /\ Kind(e.tag, e.info) /\ e.tag # "free"
      BY <2>3, <2>4
    <3>2. g = [h EXCEPT ![v.a] = e]
      BY <2>2 DEF e
    <3>. HIDE DEF g
    <3>. QED  BY <2>1, <2>4, <3>1, <3>2, StoreRight
  <2>6. h \in [Addr -> Cell]
    BY DEF GoodHeap
  <2>7. ASSUME NEW a \in Addr
        PROVE  g[a].rc = h[a].rc + Takes(v, a) /\ Unchanged(h, g, a)
    <3>1. h[a].rc \in Nat
      BY CellFacts
    <3>2. g[a] = IF a = v.a THEN e ELSE h[a]
      BY <2>2, <2>6 DEF e
    <3>. QED  BY <2>4, <3>1, <3>2 DEF Takes, Unchanged
  <2>. QED  BY <2>5, <2>7
<1>. QED  BY <1>1, <1>2

(* What holds of a value that is still referred to.                        *)
LEMMA StillGood ==
  ASSUME NEW h, NEW g, NEW v, Good(h, v),
         v.a \in Addr => g[v.a].rc > 0 /\ Unchanged(h, g, v.a)
  PROVE  Good(g, v) /\ TypeOf(g, v) = TypeOf(h, v) /\ ValueOf(g, v) = ValueOf(h, v)
<1>1. CASE Scalar(v)
  <2>1. v.a = Null
    BY <1>1, ValueFacts
  <2>. QED  BY <1>1, <2>1 DEF Good, TypeOf, ValueOf
<1>2. CASE Reference(h, v)
  <2>1. v = Pointer(v.a) /\ v.a \in Addr /\ v.a # Null
    BY <1>2, Addresses DEF Reference
  <2>. QED  BY <2>1 DEF Good, Reference, TypeOf, ValueOf, Unchanged
<1>. QED  BY <1>1, <1>2 DEF Good

(* The heap in which a call starts.                                        *)
LEMMA PassedRight ==
  ASSUME NEW h, GoodHeap(h), NEW u, Good(h, u), NEW v, Good(h, v),
         NEW w, w = Exception \/ Good(h, w)
  PROVE  LET g == Release(Retain(Retain(h, u.a), v.a), w.a)
         IN  /\ Holds(g, u, v) /\ Used(g) \subseteq Used(h)
             /\ \A a \in Addr :
                  /\ g[a].rc = h[a].rc + Takes(u, a) + Takes(v, a) - Takes(w, a)
                  /\ g[a].rc > 0 => Unchanged(h, g, a)
             /\ TypeOf(g, u) = TypeOf(h, u) /\ ValueOf(g, u) = ValueOf(h, u)
             /\ TypeOf(g, v) = TypeOf(h, v) /\ ValueOf(g, v) = ValueOf(h, v)
<1>. DEFINE e == Retain(h, u.a)
            f == Retain(e, v.a)
            g == Release(f, w.a)
<1>1. /\ GoodHeap(e)
      /\ \A a \in Addr : e[a].rc = h[a].rc + Takes(u, a) /\ Unchanged(h, e, a)
  BY RetainRight
<1>. HIDE DEF e
<1>2. \A a \in Addr : h[a].rc \in Nat /\ Takes(u, a) \in {0, 1} /\ Takes(v, a) \in {0, 1}
                      /\ Takes(w, a) \in {0, 1}
  BY CellFacts, TakesFacts
<1>3. Good(e, v)
  <2>1. v.a \in Addr => h[v.a].rc > 0
    BY ValueFacts, Addresses
  <2>. QED  BY <1>1, <1>2, <2>1, StillGood
<1>4. /\ GoodHeap(f)
      /\ \A a \in Addr : f[a].rc = e[a].rc + Takes(v, a) /\ Unchanged(e, f, a)
  BY <1>1, <1>3, RetainRight
<1>. HIDE DEF f
<1>5. \A a \in Addr : /\ f[a].rc = h[a].rc + Takes(u, a) + Takes(v, a)
                      /\ Unchanged(h, f, a)
  BY <1>1, <1>4, <1>2 DEF Unchanged
<1>6. w.a \in Addr \cup {Null} /\ (w.a # Null => h[w.a].rc > 0)
  <2>1. CASE w = Exception
    BY <2>1 DEF Exception, Immediate
  <2>2. CASE Good(h, w)
    BY <2>2, ValueFacts
  <2>. QED  BY <2>1, <2>2
<1>7. w.a # Null => f[w.a].rc > 0
  BY <1>2, <1>5, <1>6
<1>8. Dropped(f, w, g)
  BY <1>4, <1>6, <1>7, DropRight DEF Drop
<1>. HIDE DEF g
<1>9. ASSUME NEW a \in Addr
      PROVE  /\ g[a].rc = h[a].rc + Takes(u, a) + Takes(v, a) - Takes(w, a)
             /\ g[a].rc > 0 => Unchanged(h, g, a)
             /\ h[a].rc >= Takes(w, a) /\ h[a].rc >= Takes(u, a) /\ h[a].rc >= Takes(v, a)
  <2>1. g[a].rc = f[a].rc - Takes(w, a) /\ (g[a].rc > 0 => Unchanged(f, g, a))
    BY <1>8 DEF Dropped
  <2>2. (u.a = a => h[a].rc > 0) /\ (v.a = a => h[a].rc > 0) /\ (w.a = a => h[a].rc > 0)
    BY <1>6, ValueFacts, Addresses
  <2>. QED  BY <1>2, <1>5, <2>1, <2>2, TakesFacts DEF Unchanged
<1>10. GoodHeap(g)
  BY <1>8 DEF Dropped
<1>11. ASSUME NEW t, t = u \/ t = v
       PROVE  Good(g, t) /\ TypeOf(g, t) = TypeOf(h, t) /\ ValueOf(g, t) = ValueOf(h, t)
  <2>1. ASSUME t.a \in Addr PROVE g[t.a].rc > 0
    <3>1. Takes(u, t.a) + Takes(v, t.a) > 0
      BY <1>2, <1>11, <2>1, TakesFacts
    <3>. QED  BY <1>2, <1>9, <2>1, <3>1
  <2>2. Good(h, t)
    BY <1>11
  <2>. QED  BY <1>9, <2>1, <2>2, StillGood
<1>12. ASSUME NEW a \in Addr
       PROVE  g[a].rc >= Takes(u, a) + Takes(v, a) /\ (g[a].rc > 0 => h[a].rc > 0)
  BY <1>2, <1>9, TakesFacts
<1>13. Used(g) \subseteq Used(h)
  BY <1>12 DEF Used
<1>14. Holds(g, u, v)
  BY <1>10, <1>11, <1>12 DEF Holds
<1>. QED  BY <1>9, <1>11, <1>13, <1>14 DEF g, f, e

(* Who owns an object: the variables that name it, and the module.         *)
Holders(a) == {x \in Vars : val[x].a = a}
ByModule(a) == IF a \in constants THEN 1 ELSE 0

HeapInv ==
  /\ GoodHeap(heap)
  /\ \A a \in Addr : heap[a].rc = Cardinality(Holders(a)) + ByModule(a)

ValueInv(x) ==
  \/ val[x] = Exception
  \/ /\ Good(heap, val[x]) /\ ValueOf(heap, val[x]) = want[x]
     /\ TypeOf(heap, val[x]) = "R" => want[x][2] > 1

(* The last call gave what it should, of the type that it was given.       *)
LastInv ==
  /\ last.should # NoValue =>
       /\ last.is = Exception <=> last.should = Exception
       /\ last.value = last.should.q
       /\ last.should.t \in {"D", "Z"} => last.is.t = last.should.t
  /\ last.is # Exception =>
       /\ last.type # "any" => TypeOf(heap, last.is) = last.type
       /\ last.folded # NoConst => last.folded.q = last.value

ArithmeticInv ==
  /\ HeapInv
  /\ val = [x \in Vars |-> val[x]] /\ want = [x \in Vars |-> want[x]]
  /\ \A x \in Vars : ValueInv(x)
  /\ literal \subseteq Vars
  /\ constants \subseteq Addr /\ Cardinality(constants) <= Cardinality(Vars)
  /\ ops \in 0 .. MaxOps
  /\ LastInv

LEMMA HolderFacts ==
  ASSUME NEW a
  PROVE  IsFiniteSet(Holders(a)) /\ Cardinality(Holders(a)) \in Nat
<1>1. IsFiniteSet(Vars) /\ Holders(a) \in SUBSET Vars
  BY MemoryAssumption DEF Holders
<1>. QED  BY <1>1, FS_Subset, FS_CardinalityType

(* The memory assumption leaves four cells for a call.                     *)
LEMMA EnoughRoom ==
  ASSUME ArithmeticInv
  PROVE  \A g : Used(g) \subseteq Used(heap) => Room(g, 4)
<1>. DEFINE named == {val[x].a : x \in Vars}
            f == [x \in Vars |-> val[x].a]
<1>1. IsFiniteSet(Vars) /\ Cardinality(Vars) \in Nat
  BY MemoryAssumption, FS_CardinalityType
<1>2. f \in Surjection(Vars, named)
  BY DEF Surjection
<1>3. IsFiniteSet(named) /\ Cardinality(named) <= Cardinality(Vars)
  BY <1>1, <1>2, FS_Surjection
<1>4. IsFiniteSet(constants) /\ Cardinality(constants) <= Cardinality(Vars)
  BY UsedFacts, FS_Subset DEF ArithmeticInv
<1>5. Cardinality(named) \in Nat /\ Cardinality(constants) \in Nat
  BY <1>3, <1>4, FS_CardinalityType
<1>. HIDE DEF named
<1>6. IsFiniteSet(named \cup constants) /\ Cardinality(named \cup constants) <= 2 * Cardinality(Vars)
  <2>1. /\ IsFiniteSet(named \cup constants)
        /\ Cardinality(named \cup constants) =
             Cardinality(named) + Cardinality(constants) - Cardinality(named \cap constants)
    BY <1>3, <1>4, FS_Union
  <2>2. IsFiniteSet(named \cap constants)
    BY <1>3, FS_Subset
  <2>3. Cardinality(named \cap constants) \in Nat
    BY <2>2, FS_CardinalityType
  <2>. QED  BY <1>1, <1>3, <1>4, <1>5, <2>1, <2>3
<1>7. Used(heap) \subseteq named \cup constants
  <2>. SUFFICES ASSUME NEW a \in Addr, heap[a].rc > 0, a \notin constants
                PROVE  a \in named
    BY DEF Used
  <2>1. heap[a].rc = Cardinality(Holders(a)) + ByModule(a)
    BY DEF ArithmeticInv, HeapInv
  <2>2. Cardinality(Holders(a)) # 0
    BY <2>1, HolderFacts DEF ByModule
  <2>3. Holders(a) # {}
    BY <2>2, FS_EmptySet
  <2>. QED  BY <2>3 DEF Holders, named
<1>8. ASSUME NEW g, Used(g) \subseteq Used(heap)
      PROVE  Room(g, 4)
  <2>1. Used(g) \in SUBSET (named \cup constants)
    BY <1>7, <1>8
  <2>2. Cardinality(Used(g)) <= Cardinality(named \cup constants)
    BY <1>6, <2>1, FS_Subset
  <2>3. Cardinality(Used(g)) \in Nat /\ Cardinality(named \cup constants) \in Nat
    BY <1>6, UsedFacts, FS_CardinalityType
  <2>. QED  BY <1>1, <1>6, <2>2, <2>3, MemoryAssumption, MaxObjAssumption DEF Room
<1>. QED  BY <1>8

(* What a call must do, whatever it calls, to leave a good state behind.   *)
Replaced(z, call) ==
  /\ GoodHeap(call.h)
  /\ call.r = Exception \/ Good(call.h, call.r)
  /\ \A a \in Addr : call.h[a].rc = heap[a].rc - Takes(val[z], a) + Takes(call.r, a)
  /\ \A a \in Addr : heap[a].rc > Takes(val[z], a) => Unchanged(heap, call.h, a)

LEMMA ReturnedRight ==
  ASSUME ArithmeticInv, NEW z \in Vars, NEW c, NEW should, NEW t, NEW f,
         ops < MaxOps, Returned(z, c, should, t, f), Replaced(z, c),
         Matching(c, should),
         c.r # Exception /\ t # "any" => TypeOf(c.h, c.r) = t,
         c.r # Exception /\ f # NoConst => f.q = should.q
  PROVE  ArithmeticInv'
<1>1. /\ heap' = c.h
      /\ val' = [val EXCEPT ![z] = c.r]
      /\ literal' = literal \ {z}
      /\ constants' = constants
      /\ want' = [want EXCEPT ![z] = should.q]
      /\ last' = [is |-> c.r, value |-> ValueOf(c.h, c.r), should |-> should,
                  type |-> t, folded |-> f]
      /\ ops' = ops + 1
  BY DEF Returned
<1>2. /\ val = [x \in Vars |-> val[x]] /\ want = [x \in Vars |-> want[x]]
      /\ \A x \in Vars : ValueInv(x)
      /\ GoodHeap(heap)
      /\ \A a \in Addr : heap[a].rc = Cardinality(Holders(a)) + ByModule(a)
  BY DEF ArithmeticInv, HeapInv
<1>3. val'[z] = c.r /\ want'[z] = should.q
  BY <1>1, <1>2
<1>4. \A x \in Vars : x # z => val'[x] = val[x] /\ want'[x] = want[x]
  BY <1>1, <1>2
<1>5. val' = [x \in Vars |-> val'[x]] /\ want' = [x \in Vars |-> want'[x]]
  BY <1>1, <1>2
<1>6. /\ GoodHeap(c.h)
      /\ c.r = Exception \/ Good(c.h, c.r)
      /\ \A a \in Addr : c.h[a].rc = heap[a].rc - Takes(val[z], a) + Takes(c.r, a)
      /\ \A a \in Addr : heap[a].rc > Takes(val[z], a) => Unchanged(heap, c.h, a)
  BY DEF Replaced
<1>7. ASSUME NEW a \in Addr
      PROVE  heap'[a].rc = Cardinality(Holders(a)') + ByModule(a)'
  <2>. DEFINE S == Holders(a)
              T == S \ {z}
  <2>1. IsFiniteSet(S) /\ Cardinality(S) \in Nat
    BY HolderFacts
  <2>2. Holders(a)' = {x \in Vars : val'[x].a = a}
    BY DEF Holders
  <2>3. Holders(a)' = IF c.r.a = a THEN T \cup {z} ELSE T
    BY <1>3, <1>4, <2>2 DEF Holders
  <2>4. z \in S <=> val[z].a = a
    BY DEF Holders
  <2>. HIDE DEF S
  <2>5. IsFiniteSet(T) /\ Cardinality(T) = Cardinality(S) - Takes(val[z], a)
    <3>1. IsFiniteSet(T) /\ Cardinality(T) = IF z \in S THEN Cardinality(S) - 1 ELSE Cardinality(S)
      BY <2>1, FS_RemoveElement
    <3>. QED  BY <2>1, <2>4, <3>1 DEF Takes
  <2>6. Cardinality(Holders(a)') = Cardinality(S) - Takes(val[z], a) + Takes(c.r, a)
    <3>1. z \notin T
      OBVIOUS
    <3>. HIDE DEF T
    <3>2. Cardinality(T \cup {z}) = Cardinality(T) + 1 /\ Cardinality(T) \in Nat
      BY <2>5, <3>1, FS_AddElement, FS_CardinalityType
    <3>. QED  BY <2>3, <2>5, <3>2 DEF Takes
  <2>7. ByModule(a)' = ByModule(a) /\ ByModule(a) \in Nat
    BY <1>1 DEF ByModule
  <2>8. heap[a].rc = Cardinality(S) + ByModule(a)
    BY <1>2 DEF S
  <2>9. Takes(val[z], a) \in {0, 1} /\ Takes(c.r, a) \in {0, 1}
    BY TakesFacts
  <2>10. heap'[a].rc = heap[a].rc - Takes(val[z], a) + Takes(c.r, a)
    BY <1>1, <1>6
  <2>. QED  BY <2>1, <2>6, <2>7, <2>8, <2>9, <2>10
<1>8. HeapInv'
  BY <1>1, <1>6, <1>7 DEF HeapInv, GoodHeap
<1>9. ASSUME NEW x \in Vars, x # z
      PROVE  ValueInv(x)'
  <2>. DEFINE v == val[x]
  <2>1. CASE v = Exception
    BY <1>4, <1>9, <2>1 DEF ValueInv
  <2>2. CASE v # Exception
    <3>1. Good(heap, v) /\ ValueOf(heap, v) = want[x] /\ (TypeOf(heap, v) = "R" => want[x][2] > 1)
      BY <1>2, <2>2 DEF ValueInv
    <3>2. ASSUME v.a \in Addr
          PROVE  c.h[v.a].rc > 0 /\ Unchanged(heap, c.h, v.a)
      <4>. DEFINE a == v.a
                  S == Holders(a)
      <4>1. x \in S /\ IsFiniteSet(S) /\ Cardinality(S) \in Nat
        BY HolderFacts DEF Holders
      <4>2. val[z].a = a => {x, z} \subseteq S
        BY DEF Holders
      <4>3. Cardinality(S) > Takes(val[z], a)
        <5>1. Cardinality({x}) = 1 /\ IsFiniteSet({x})
          BY FS_Singleton, Zenon
        <5>2. Cardinality({x} \cup {z}) = Cardinality({x}) + 1
          <6>1. z \notin {x}
            BY <1>9
          <6>. QED  BY <5>1, <6>1, FS_AddElement, Zenon
        <5>3. CASE val[z].a = a
          <6>1. ({x} \cup {z}) \in SUBSET S
            BY <4>2, <5>3
          <6>2. Cardinality({x} \cup {z}) <= Cardinality(S)
            BY <4>1, <6>1, FS_Subset
          <6>. QED  BY <4>1, <5>1, <5>2, <5>3, <6>2 DEF Takes
        <5>4. CASE val[z].a # a
          <6>1. {x} \in SUBSET S
            BY <4>1
          <6>2. Cardinality({x}) <= Cardinality(S)
            BY <4>1, <6>1, FS_Subset
          <6>. QED  BY <4>1, <5>1, <5>4, <6>2 DEF Takes
        <5>. QED  BY <5>3, <5>4
      <4>4. heap[a].rc = Cardinality(S) + ByModule(a) /\ ByModule(a) \in {0, 1}
        BY <1>2, <3>2 DEF ByModule
      <4>. HIDE DEF S
      <4>5. heap[a].rc > Takes(val[z], a) /\ heap[a].rc \in Nat
        BY <4>1, <4>3, <4>4, TakesFacts
      <4>6. Takes(val[z], a) \in {0, 1} /\ Takes(c.r, a) \in {0, 1}
        BY TakesFacts
      <4>. QED  BY <1>6, <3>2, <4>5, <4>6
    <3>3. Good(c.h, v) /\ TypeOf(c.h, v) = TypeOf(heap, v) /\ ValueOf(c.h, v) = ValueOf(heap, v)
      BY <3>1, <3>2, StillGood
    <3>4. heap' = c.h /\ val'[x] = v /\ want'[x] = want[x]
      BY <1>1, <1>4, <1>9
    <3>. HIDE DEF v
    <3>5. \/ val'[x] = Exception
          \/ /\ Good(heap', val'[x]) /\ ValueOf(heap', val'[x]) = want'[x]
             /\ TypeOf(heap', val'[x]) = "R" => want'[x][2] > 1
      BY <3>1, <3>3, <3>4
    <3>. QED  BY <3>5 DEF ValueInv, Good, Reference, TypeOf, ValueOf
  <2>. QED  BY <2>1, <2>2
<1>10. ValueInv(z)'
  <2>1. ValueOf(c.h, c.r) = should.q /\ (TypeOf(c.h, c.r) = "R" => ValueOf(c.h, c.r)[2] > 1)
    BY DEF Matching
  <2>2. \/ val'[z] = Exception
        \/ /\ Good(heap', val'[z]) /\ ValueOf(heap', val'[z]) = want'[z]
           /\ TypeOf(heap', val'[z]) = "R" => want'[z][2] > 1
    BY <1>1, <1>3, <1>6, <2>1
  <2>. QED  BY <2>2 DEF ValueInv, Good, Reference, TypeOf, ValueOf
<1>11. LastInv'
  <2>1. /\ c.r = Exception <=> should = Exception
        /\ ValueOf(c.h, c.r) = should.q
        /\ should.t \in {"D", "Z"} => c.r.t = should.t
    BY DEF Matching
  <2>2. /\ last'.is = c.r /\ last'.value = ValueOf(c.h, c.r) /\ last'.should = should
        /\ last'.type = t /\ last'.folded = f /\ heap' = c.h
    BY <1>1
  <2>3. /\ last'.should # NoValue =>
             /\ last'.is = Exception <=> last'.should = Exception
             /\ last'.value = last'.should.q
             /\ last'.should.t \in {"D", "Z"} => last'.is.t = last'.should.t
        /\ last'.is # Exception =>
             /\ last'.type # "any" => TypeOf(heap', last'.is) = last'.type
             /\ last'.folded # NoConst => last'.folded.q = last'.value
    BY <2>1, <2>2
  <2>. QED  BY <2>3 DEF LastInv, TypeOf
<1>12. ops' \in 0 .. MaxOps
  BY <1>1, ArithmeticAssumption DEF ArithmeticInv
<1>13. /\ literal' \subseteq Vars
       /\ constants' \subseteq Addr /\ Cardinality(constants') <= Cardinality(Vars)
  BY <1>1 DEF ArithmeticInv
<1>14. \A x \in Vars : ValueInv(x)'
  BY <1>9, <1>10
<1>. QED  BY <1>5, <1>8, <1>11, <1>12, <1>13, <1>14 DEF ArithmeticInv

LEMMA UsableValues ==
  ASSUME ArithmeticInv, NEW x \in Vars, Usable(x)
  PROVE  /\ GoodHeap(heap) /\ Good(heap, val[x]) /\ ValueOf(heap, val[x]) = want[x]
         /\ TypeOf(heap, val[x]) = "R" => want[x][2] > 1
BY DEF ArithmeticInv, HeapInv, ValueInv, Usable

(* A call that consumes its operands, with the references that it was      *)
(* passed, leaves everything else alone.                                   *)
LEMMA ConsumesReplaces ==
  ASSUME GoodHeap(heap), NEW z \in Vars, NEW u, NEW v, NEW g, NEW c, Consumes(g, u, v, c),
         \A a \in Addr :
           /\ g[a].rc = heap[a].rc + Takes(u, a) + Takes(v, a) - Takes(val[z], a)
           /\ g[a].rc > 0 => Unchanged(heap, g, a)
  PROVE  Replaced(z, c)
<1>1. ASSUME NEW a \in Addr
      PROVE  /\ c.h[a].rc = heap[a].rc - Takes(val[z], a) + Takes(c.r, a)
             /\ heap[a].rc > Takes(val[z], a) => Unchanged(heap, c.h, a)
  <2>1. /\ heap[a].rc \in Nat /\ Takes(u, a) \in {0, 1} /\ Takes(v, a) \in {0, 1}
        /\ Takes(val[z], a) \in {0, 1} /\ Takes(c.r, a) \in {0, 1}
    BY CellFacts, TakesFacts
  <2>2. /\ c.h[a].rc = g[a].rc - Takes(u, a) - Takes(v, a) + Takes(c.r, a)
        /\ g[a].rc > Takes(u, a) + Takes(v, a) => Unchanged(g, c.h, a)
    BY DEF Consumes
  <2>3. c.h[a].rc = heap[a].rc - Takes(val[z], a) + Takes(c.r, a)
    BY <2>1, <2>2
  <2>4. heap[a].rc > Takes(val[z], a) => g[a].rc > Takes(u, a) + Takes(v, a) /\ g[a].rc > 0
    BY <2>1
  <2>. QED  BY <2>2, <2>3, <2>4 DEF Unchanged
<1>. QED  BY <1>1 DEF Replaced, Consumes

LEMMA MishandledSame ==
  ASSUME NEW h, NEW g, NEW x, NEW y, NEW op, NEW kx, NEW ky,
         TypeOf(g, x) = TypeOf(h, x), ValueOf(g, x) = ValueOf(h, x),
         TypeOf(g, y) = TypeOf(h, y), ValueOf(g, y) = ValueOf(h, y)
  PROVE  /\ Mishandled(g, op, x, y, kx, ky) <=> Mishandled(h, op, x, y, kx, ky)
         /\ AnswerTo(g, op, x, y) = AnswerTo(h, op, x, y)
<1>1. Mishandled(g, op, x, y, kx, ky) <=> Mishandled(h, op, x, y, kx, ky)
  BY ZenonT(60) DEF Mishandled
<1>2. AnswerTo(g, op, x, y) = AnswerTo(h, op, x, y)
  BY Zenon DEF AnswerTo
<1>. QED  BY <1>1, <1>2

LEMMA CallStep ==
  ASSUME ArithmeticInv, Defects = FALSE,
         NEW op \in Ops, NEW x \in Vars, NEW y \in Vars, NEW z \in Vars, Call(op, x, y, z)
  PROVE  ArithmeticInv'
<1>. DEFINE u == val[x]
            v == val[y]
            g == Passed(x, y, z)
            answer == AnswerTo(heap, op, u, v)
<1>1. ops < MaxOps /\ Usable(x) /\ Usable(y)
  BY DEF Call
<1>2. PICK kx \in Knowledge(x), ky \in Knowledge(y) :
        /\ ~Mishandled(heap, op, u, v, kx, ky)
        /\ \E s \in {StaticCall(g, op, u, v, kx, ky)} :
             Returned(z, s.call, Answer(op, TypeOf(heap, u), want[x], TypeOf(heap, v), want[y]),
                      s.type, Folded(heap, op, u, v, kx, ky))
  BY DEF Call
<1>. DEFINE s == StaticCall(g, op, u, v, kx, ky)
            f == Folded(heap, op, u, v, kx, ky)
<1>3. /\ GoodHeap(heap) /\ Good(heap, u) /\ ValueOf(heap, u) = want[x]
      /\ Good(heap, v) /\ ValueOf(heap, v) = want[y]
      /\ TypeOf(heap, v) = "R" => want[y][2] > 1
  BY <1>1, UsableValues
<1>4. Answer(op, TypeOf(heap, u), want[x], TypeOf(heap, v), want[y]) = answer
  BY <1>3 DEF AnswerTo
<1>5. Returned(z, s.call, answer, s.type, f)
  BY <1>2, <1>4
<1>6. val[z] = Exception \/ Good(heap, val[z])
  BY DEF ArithmeticInv, ValueInv
<1>7. /\ Holds(g, u, v) /\ Used(g) \subseteq Used(heap)
      /\ \A a \in Addr :
           /\ g[a].rc = heap[a].rc + Takes(u, a) + Takes(v, a) - Takes(val[z], a)
           /\ g[a].rc > 0 => Unchanged(heap, g, a)
      /\ TypeOf(g, u) = TypeOf(heap, u) /\ ValueOf(g, u) = ValueOf(heap, u)
      /\ TypeOf(g, v) = TypeOf(heap, v) /\ ValueOf(g, v) = ValueOf(heap, v)
  <2>1. g = Release(Retain(Retain(heap, u.a), v.a), val[z].a)
    BY DEF Passed, Replacing, Retained
  <2>. HIDE DEF g, u, v
  <2>. QED  BY <1>3, <1>6, <2>1, PassedRight
<1>8. Room(g, 4)
  BY <1>7, EnoughRoom
<1>. HIDE DEF g, u, v
<1>9. ~Mishandled(g, op, u, v, kx, ky) /\ AnswerTo(g, op, u, v) = answer
  BY <1>2, <1>7, MishandledSame
<1>10. Yields(g, op, u, v, s.call, s.type)
  BY <1>3, <1>7, <1>8, <1>9, StaticRight
<1>. HIDE DEF s, f, answer
<1>11. /\ Consumes(g, u, v, s.call) /\ Matching(s.call, answer)
       /\ s.call.r # Exception /\ s.type # "any" => TypeOf(s.call.h, s.call.r) = s.type
  BY <1>9, <1>10 DEF Yields, Right
<1>12. Replaced(z, s.call)
  BY <1>3, <1>7, <1>11, ConsumesReplaces
<1>13. s.call.r # Exception /\ f # NoConst => f.q = answer.q
  <2>1. s.call.r # Exception => answer # Exception
    BY <1>11 DEF Matching
  <2>2. kx \in {"const", "type", "any"} /\ ky \in {"const", "type", "any"}
    BY DEF Knowledge
  <2>. QED  BY <1>2, <1>3, <2>1, <2>2, FoldedRight DEF f, answer
<1>. QED  BY <1>1, <1>5, <1>11, <1>12, <1>13, ReturnedRight

LEMMA MathStep ==
  ASSUME ArithmeticInv, NEW x \in Vars, NEW z \in Vars, MathCall(x, z)
  PROVE  ArithmeticInv'
<1>. DEFINE v == val[x]
            t == TypeOf(heap, v)
            d == IF t \in {"B", "R"} THEN Truncated(want[x]) ELSE want[x]
            g == Replacing(Retained(heap, x), z)
            c == Numbers_abs(g, v)
            r == <<Abs(d[1]), d[2]>>
            should == IF t \in Numeric THEN Immediate("D", r) ELSE Exception
<1>1. ops < MaxOps /\ Usable(x) /\ Returned(z, c, should, "D", NoConst)
  BY DEF MathCall
<1>2. GoodHeap(heap) /\ Good(heap, v) /\ ValueOf(heap, v) = want[x]
  BY <1>1, UsableValues
<1>3. val[z] = Exception \/ Good(heap, val[z])
  BY DEF ArithmeticInv, ValueInv
<1>4. Good(heap, Nothing)
  BY <1>2, NothingHeld
<1>5. g = Release(Retain(Retain(heap, v.a), Nothing.a), val[z].a)
  <2>1. Nothing.a = 0 /\ ~IsPtr(Nothing.a)
    BY DEF Nothing, Immediate, Null, IsPtr
  <2>2. \A h : Retain(h, Nothing.a) = h
    BY <2>1 DEF Retain
  <2>. QED  BY <2>2 DEF Replacing, Retained
<1>. HIDE DEF g, v
<1>6. /\ Holds(g, v, Nothing)
      /\ \A a \in Addr :
           /\ g[a].rc = heap[a].rc + Takes(v, a) + Takes(Nothing, a) - Takes(val[z], a)
           /\ g[a].rc > 0 => Unchanged(heap, g, a)
      /\ TypeOf(g, v) = t /\ ValueOf(g, v) = want[x]
  BY <1>2, <1>3, <1>4, <1>5, PassedRight
<1>7. /\ Consumes(g, v, Nothing, c)
      /\ t \in Numeric => c.r = Immediate("D", r)
      /\ t \notin Numeric => c.r = Exception
  BY <1>6, AbsRight
<1>. HIDE DEF c, t, r
<1>8. Replaced(z, c)
  BY <1>2, <1>6, <1>7, ConsumesReplaces
<1>9. c.r = should
  BY <1>7
<1>10. should.a = Null /\ should.t # "R" /\ (should # Exception => should.t = "D")
  BY DEF Immediate, Exception
<1>. HIDE DEF should
<1>11. TypeOf(c.h, c.r) = should.t /\ ValueOf(c.h, c.r) = should.q
  BY <1>9, <1>10 DEF TypeOf, ValueOf
<1>12. Matching(c, should)
  BY <1>9, <1>10, <1>11 DEF Matching
<1>. QED  BY <1>1, <1>8, <1>9, <1>10, <1>11, <1>12, ReturnedRight

(* The variables start with an object each at most.                        *)
LEMMA PlaceRight ==
  /\ \A x \in Vars : Place[x] \in Addr
  /\ \A x, y \in Vars : Place[x] = Place[y] => x = y
<1>. DEFINE n == Cardinality(Vars)
<1>1. n \in Nat /\ ExistsBijection(1 .. n, Vars)
  BY MemoryAssumption, FS_CardinalityType
<1>2. PICK f : f \in Bijection(1 .. n, Vars)
  BY <1>1 DEF ExistsBijection
<1>3. f \in [1 .. n -> Vars] /\ \A x \in Vars : \E i \in 1 .. n : f[i] = x
  BY <1>2 DEF Bijection, Surjection
<1>. DEFINE p == [x \in Vars |-> CHOOSE i \in 1 .. n : f[i] = x]
<1>4. \A x \in Vars : p[x] \in 1 .. n /\ f[p[x]] = x
  BY <1>3
<1>5. p \in [Vars -> 1 .. n]
  BY <1>4
<1>6. IsInjective(p)
  BY <1>4 DEF IsInjective
<1>. HIDE DEF p
<1>7. Place \in [Vars -> 1 .. n] /\ IsInjective(Place)
  BY <1>5, <1>6 DEF Place
<1>. HIDE DEF n
<1>8. 1 .. n \subseteq Addr
  BY <1>1, MemoryAssumption, MaxObjAssumption DEF Addr, n
<1>. QED  BY <1>7, <1>8 DEF IsInjective

LEMMA OperandFacts ==
  ASSUME NEW o \in Operands
  PROVE  /\ o[1] \in Types
         /\ o[1] \in Objects => Kind(o[1], o[2])
         /\ o[1] \notin Objects => Scalar(Immediate(o[1], o[2]))
         /\ o[1] = "R" => o[2][2] > 1
<1>1. CASE \E n \in Integers_ : o = <<"I", <<n, 1>>>>
  <2>1. PICK n \in Integers_ : o = <<"I", <<n, 1>>>>
    BY <1>1
  <2>2. o[1] = "I" /\ o[2] = <<n, 1>> /\ n \in Int32
    BY <2>1, OperandsAssumption
  <2>3. Immediate("I", <<n, 1>>).q = <<n, 1>> /\ <<n, 1>> \in Int32 \X {1}
    BY <2>2 DEF Immediate
  <2>4. Scalar(Immediate("I", <<n, 1>>))
    BY <2>3 DEF Scalar
  <2>. QED  BY <2>2, <2>4 DEF Types, Objects
<1>2. CASE \E q \in Doubles_ : o = <<"D", q>>
  <2>1. PICK q \in Doubles_ : o = <<"D", q>>
    BY <1>2
  <2>2. o[1] = "D" /\ o[2] = q
    BY <2>1
  <2>3. Immediate("D", q).q = q
    BY DEF Immediate
  <2>. QED  BY <2>2, <2>3 DEF Types, Objects, Scalar
<1>3. CASE \E n \in BigInts_ : o = <<"B", <<n, 1>>>>
  <2>1. PICK n \in BigInts_ : o = <<"B", <<n, 1>>>>
    BY <1>3
  <2>2. o[1] = "B" /\ o[2] = <<n, 1>> /\ n \in Int
    BY <2>1, OperandsAssumption
  <2>. QED  BY <2>2, WholeRational DEF Types, Objects, Kind
<1>4. CASE \E q \in Ratios_ : o = <<"R", q>>
  <2>1. PICK q \in Ratios_ : o = <<"R", q>>
    BY <1>4
  <2>2. o[1] = "R" /\ o[2] = q /\ q \in Int \X Int /\ q[1] # 0 /\ q[2] > 1
    BY <2>1, OperandsAssumption
  <2>. QED  BY <2>2 DEF Types, Objects, Kind, Rational, Pairs
<1>5. CASE \E t \in Others_ : o = <<t, Zero>>
  <2>1. PICK t \in Others_ : o = <<t, Zero>>
    BY <1>5
  <2>2. o[1] = t /\ o[2] = Zero /\ t \in {"S", "Z", "N", "K"}
    BY <2>1, OperandsAssumption
  <2>3. Immediate("Z", Zero) = Box(FALSE)
    BY DEF Box
  <2>. QED  BY <2>2, <2>3 DEF Types, Objects, Scalar, Kind
<1>. QED  BY <1>1, <1>2, <1>3, <1>4, <1>5 DEF Operands

LEMMA InitRight ==
  ASSUME Init
  PROVE  ArithmeticInv
<1>1. PICK start \in [Vars -> Operands] :
       /\ heap = [a \in Addr |->
                    IF \E x \in Vars : Place[x] = a
                    THEN LET x == CHOOSE x \in Vars : Place[x] = a
                         IN  Loaded(start[x], x, literal)
                    ELSE Free]
       /\ val = [x \in Vars |-> IF start[x][1] \notin {"B", "R", "S"}
                                THEN Immediate(start[x][1], start[x][2])
                                ELSE Pointer(Place[x])]
       /\ want = [x \in Vars |-> start[x][2]]
  BY DEF Init
<1>2. /\ literal \subseteq Vars /\ constants = {val[x].a : x \in literal} \ {Null}
      /\ last = NoCall /\ ops = 0
  BY DEF Init
<1>3. ASSUME NEW x \in Vars
      PROVE  heap[Place[x]] = Loaded(start[x], x, literal)
  <2>1. (CHOOSE y \in Vars : Place[y] = Place[x]) = x
    BY PlaceRight
  <2>2. Place[x] \in Addr /\ \E y \in Vars : Place[y] = Place[x]
    BY PlaceRight
  <2>. QED  BY <1>1, <2>1, <2>2
<1>4. ASSUME NEW a \in Addr, \A x \in Vars : Place[x] # a
      PROVE  heap[a] = Free
  BY <1>1, <1>4
<1>5. ASSUME NEW x \in Vars
      PROVE  /\ start[x] \in Operands /\ want[x] = start[x][2]
             /\ start[x][1] \in Objects => val[x] = Pointer(Place[x])
             /\ start[x][1] \notin Objects => val[x] = Immediate(start[x][1], start[x][2])
             /\ start[x][1] \in Objects => val[x].a = Place[x]
             /\ start[x][1] \notin Objects => val[x].a = Null
  BY <1>1 DEF Objects, Pointer, Immediate
<1>6. ASSUME NEW x \in Vars
      PROVE  /\ start[x][1] \notin Objects => heap[Place[x]] = Free
             /\ start[x][1] \in Objects =>
                  /\ heap[Place[x]] \in Cell
                  /\ heap[Place[x]].tag = start[x][1] /\ heap[Place[x]].info = start[x][2]
                  /\ heap[Place[x]].rc = IF x \in literal THEN 2 ELSE 1
  <2>. DEFINE o == start[x]
              l == Loaded(o, x, literal)
  <2>1. heap[Place[x]] = l
    BY <1>3
  <2>2. o[1] \notin Objects => l = Free
    BY DEF Loaded, Objects
  <2>3. ASSUME o[1] \in Objects
        PROVE  l = [tag |-> o[1], rc |-> IF x \in literal THEN 2 ELSE 1, kids |-> <<>>, info |-> o[2]]
    BY <2>3 DEF Loaded, Objects, Free
  <2>4. o[1] \in Objects => o[2] \in Pairs
    BY <1>5, OperandFacts, KindFacts
  <2>. HIDE DEF l, o
  <2>5. o[1] \in Objects => /\ l \in Cell
                            /\ l.tag = o[1] /\ l.info = o[2]
                            /\ l.rc = IF x \in literal THEN 2 ELSE 1
    BY <2>3, <2>4 DEF Cell, Objects
  <2>. QED  BY <2>1, <2>2, <2>5 DEF o
<1>7. Free \in Cell /\ Free.rc = 0 /\ Free.tag = "free"
  BY DEF Free, Cell
<1>8. ASSUME NEW a \in Addr
      PROVE  /\ heap[a] \in Cell
             /\ heap[a].tag = "free" <=> heap[a].rc = 0
             /\ heap[a].rc > 0 => Kind(heap[a].tag, heap[a].info)
  <2>1. CASE \A x \in Vars : Place[x] # a
    BY <1>4, <1>7, <2>1
  <2>2. CASE \E x \in Vars : Place[x] = a
    <3>1. PICK x \in Vars : Place[x] = a
      BY <2>2
    <3>2. CASE start[x][1] \in Objects
      <4>1. Kind(start[x][1], start[x][2]) /\ start[x][1] # "free"
        BY <1>5, <3>2, OperandFacts DEF Objects
      <4>. QED  BY <1>6, <3>1, <3>2, <4>1
    <3>3. CASE start[x][1] \notin Objects
      BY <1>6, <1>7, <3>1, <3>3
    <3>. QED  BY <3>2, <3>3
  <2>. QED  BY <2>1, <2>2
<1>9. GoodHeap(heap)
  <2>1. heap \in [Addr -> Cell]
    BY <1>1, <1>8
  <2>. QED  BY <1>8, <2>1 DEF GoodHeap
<1>10. ASSUME NEW a \in Addr
       PROVE  heap[a].rc = Cardinality(Holders(a)) + ByModule(a)
  <2>1. ASSUME NEW x \in Vars
        PROVE  val[x].a = a <=> start[x][1] \in Objects /\ Place[x] = a
    BY <1>5, Addresses
  <2>2. a \in constants <=> \E x \in literal : val[x].a = a
    BY <1>2, Addresses
  <2>3. CASE \A x \in Vars : val[x].a # a
    <3>1. Holders(a) = {} /\ a \notin constants
      BY <1>2, <2>2, <2>3 DEF Holders
    <3>2. Cardinality(Holders(a)) = 0 /\ ByModule(a) = 0
      BY <3>1, FS_EmptySet DEF ByModule
    <3>3. heap[a].rc = 0
      <4>1. CASE \A x \in Vars : Place[x] # a
        BY <1>4, <1>7, <4>1
      <4>2. CASE \E x \in Vars : Place[x] = a
        BY <1>6, <1>7, <2>1, <2>3, <4>2
      <4>. QED  BY <4>1, <4>2
    <3>. QED  BY <3>2, <3>3
  <2>4. CASE \E x \in Vars : val[x].a = a
    <3>1. PICK x \in Vars : val[x].a = a
      BY <2>4
    <3>2. start[x][1] \in Objects /\ Place[x] = a
      BY <2>1, <3>1
    <3>3. \A y \in Vars : val[y].a = a => y = x
      BY <2>1, <3>2, PlaceRight
    <3>4. Holders(a) = {x}
      BY <3>1, <3>3 DEF Holders
    <3>5. Cardinality(Holders(a)) = 1
      <4>1. Cardinality({x}) = 1
        BY FS_Singleton, Zenon
      <4>. QED  BY <3>4, <4>1
    <3>6. a \in constants <=> x \in literal
      BY <1>2, <2>2, <3>1, <3>3
    <3>7. heap[a].rc = IF x \in literal THEN 2 ELSE 1
      BY <1>6, <3>2
    <3>. QED  BY <3>5, <3>6, <3>7 DEF ByModule
  <2>. QED  BY <2>3, <2>4
<1>11. HeapInv
  BY <1>9, <1>10 DEF HeapInv
<1>12. ASSUME NEW x \in Vars
       PROVE  ValueInv(x)
  <2>. DEFINE o == start[x]
  <2>1. /\ o[1] \in Objects => Kind(o[1], o[2])
        /\ o[1] \notin Objects => Scalar(Immediate(o[1], o[2]))
        /\ o[1] = "R" => o[2][2] > 1
    BY <1>5, OperandFacts
  <2>2. CASE o[1] \in Objects
    <3>1. val[x] = Pointer(Place[x]) /\ val[x].a = Place[x] /\ Place[x] \in Addr /\ Place[x] # Null
      BY <1>5, <2>2, PlaceRight, Addresses
    <3>2. heap[Place[x]].rc > 0 /\ heap[Place[x]].tag = o[1] /\ heap[Place[x]].info = want[x]
      BY <1>5, <1>6, <2>2
    <3>3. Good(heap, val[x])
      BY <3>1, <3>2 DEF Good, Reference
    <3>4. TypeOf(heap, val[x]) = o[1] /\ ValueOf(heap, val[x]) = want[x]
      BY <3>1, <3>2 DEF TypeOf, ValueOf
    <3>. QED  BY <1>5, <2>1, <3>3, <3>4 DEF ValueInv
  <2>3. CASE o[1] \notin Objects
    <3>1. val[x] = Immediate(o[1], o[2]) /\ val[x].a = Null /\ want[x] = o[2]
      BY <1>5, <2>3
    <3>2. TypeOf(heap, val[x]) = o[1] /\ ValueOf(heap, val[x]) = o[2]
      BY <3>1 DEF TypeOf, ValueOf, Immediate
    <3>3. Good(heap, val[x])
      BY <2>1, <2>3, <3>1 DEF Good
    <3>. QED  BY <2>1, <3>1, <3>2, <3>3 DEF ValueInv
  <2>. QED  BY <2>2, <2>3
<1>13. constants \subseteq Addr
  BY <1>2, <1>5, PlaceRight
<1>14. Cardinality(constants) <= Cardinality(Vars)
  <2>. DEFINE named == {val[x].a : x \in Vars}
              f == [x \in Vars |-> val[x].a]
  <2>1. IsFiniteSet(Vars) /\ Cardinality(Vars) \in Nat
    BY MemoryAssumption, FS_CardinalityType
  <2>2. f \in Surjection(Vars, named)
    BY DEF Surjection
  <2>3. IsFiniteSet(named) /\ Cardinality(named) <= Cardinality(Vars)
    BY <2>1, <2>2, FS_Surjection
  <2>4. constants \in SUBSET named
    BY <1>2
  <2>. HIDE DEF named
  <2>5. IsFiniteSet(constants) /\ Cardinality(constants) <= Cardinality(named)
    BY <2>3, <2>4, FS_Subset
  <2>6. Cardinality(constants) \in Nat /\ Cardinality(named) \in Nat
    BY <2>3, <2>5, FS_CardinalityType
  <2>. QED  BY <2>1, <2>3, <2>5, <2>6
<1>15. LastInv
  <2>1. /\ NoCall.is = NoValue /\ NoCall.should = NoValue /\ NoCall.type = "any"
        /\ NoCall.folded = NoConst
    BY DEF NoCall
  <2>. QED  BY <1>2, <2>1 DEF LastInv
<1>16. val = [x \in Vars |-> val[x]] /\ want = [x \in Vars |-> want[x]]
  BY <1>1
<1>17. ops \in 0 .. MaxOps
  BY <1>2, ArithmeticAssumption
<1>. QED  BY <1>2, <1>11, <1>12, <1>13, <1>14, <1>15, <1>16, <1>17 DEF ArithmeticInv

(***************************************************************************)
(* Programs that make only the calls that the code handles (Mishandled     *)
(* lists the others), over any numbers, of any width of integers.          *)
(***************************************************************************)
(* The inductive invariant: an object has its variables and the module for *)
(* owners, each variable has a value of the right type that is what it     *)
(* should be, and there is always memory for another call.  It is about    *)
(* programs without the calls of Mishandled (Defects = FALSE).             *)
THEOREM ArithmeticInvariant ==
  ASSUME Defects = FALSE
  PROVE  Spec => []ArithmeticInv
<1>1. Init => ArithmeticInv
  BY InitRight
<1>2. ArithmeticInv /\ [Next]_vars => ArithmeticInv'
  <2>. SUFFICES ASSUME ArithmeticInv, [Next]_vars PROVE ArithmeticInv'
    OBVIOUS
  <2>1. ASSUME NEW x \in Vars, NEW z \in Vars, NEW op \in Ops, NEW y \in Vars, Call(op, x, y, z)
        PROVE  ArithmeticInv'
    BY <2>1, CallStep
  <2>2. ASSUME NEW x \in Vars, NEW z \in Vars, MathCall(x, z)
        PROVE  ArithmeticInv'
    BY <2>2, MathStep
  <2>3. CASE UNCHANGED vars
    BY <2>3 DEF vars, ArithmeticInv, HeapInv, ValueInv, LastInv, Holders, ByModule,
                GoodHeap, Good, Reference, TypeOf, ValueOf
  <2>. QED  BY <2>1, <2>2, <2>3 DEF Next
<1>. QED  BY <1>1, <1>2, PTL DEF Spec

LEMMA LiveValues ==
  ASSUME ArithmeticInv, NEW x \in Live
  PROVE  /\ x \in Vars /\ GoodHeap(heap) /\ Good(heap, val[x])
         /\ ValueOf(heap, val[x]) = want[x]
         /\ TypeOf(heap, val[x]) = "R" => want[x][2] > 1
BY DEF ArithmeticInv, HeapInv, ValueInv, Live

(* Whichever overload the compiler chooses, a call gives the exact answer, *)
(* rounded if an operand is a double, or throws exactly where there is     *)
(* none; a ratio that is a whole number never gets out.  The calls of      *)
(* Mishandled are not made.                                                *)
THEOREM AnswersAreAlwaysRight ==
  ASSUME Defects = FALSE
  PROVE  Spec => []AnswersAreRight
<1>1. ArithmeticInv => AnswersAreRight
  BY LiveValues DEF AnswersAreRight, ArithmeticInv, LastInv
<1>. QED  BY <1>1, ArithmeticInvariant, PTL

(* No call changes a number that some variable still names, although       *)
(* results are written into operands that nobody else owns; and every path *)
(* through a call, exceptions included, consumes each operand once, in     *)
(* programs without the calls of Mishandled; the divisions by zero of      *)
(* Div_RI and Div_RB, which release their operands twice, are among those. *)
THEOREM NumbersStayIntact ==
  ASSUME Defects = FALSE
  PROVE  Spec => []NumbersAreIntact
<1>1. ArithmeticInv => NumbersAreIntact
  <2>. SUFFICES ASSUME ArithmeticInv PROVE NumbersAreIntact
    OBVIOUS
  <2>1. \A x \in Live : ValueOf(heap, val[x]) = want[x]
    BY LiveValues
  <2>2. \A a \in Addr : heap[a].rc = Cardinality({x \in Vars : val[x].a = a}) +
                                    (IF a \in constants THEN 1 ELSE 0)
    BY DEF ArithmeticInv, HeapInv, Holders, ByModule
  <2>. QED  BY <2>1, <2>2 DEF NumbersAreIntact
<1>. QED  BY <1>1, ArithmeticInvariant, PTL

(* The type and the constant that the compiler gives a call are those of   *)
(* its result, and the tests that it emits tell the type of any word, in   *)
(* programs without the calls of Mishandled, which has the folds that the  *)
(* compiler gets wrong.                                                    *)
THEOREM StaticsAlwaysAgree ==
  ASSUME Defects = FALSE
  PROVE  Spec => []StaticsAgree
<1>1. ArithmeticInv => StaticsAgree
  BY LiveValues, TestsRight DEF StaticsAgree, ArithmeticInv, LastInv
<1>. QED  BY <1>1, ArithmeticInvariant, PTL
=============================================================================
