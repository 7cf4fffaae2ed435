----------------------------- MODULE NatLemmas -----------------------------
(***************************************************************************)
(* Facts about integers that the proofs of several modules need: division, *)
(* products, induction and recursive functions.  The rule of induction is  *)
(* stated about a set of numbers.                                          *)
(***************************************************************************)
EXTENDS FiniteSetTheorems, Integers, TLAPS

LEMMA DivMod ==
  ASSUME NEW a \in Int, NEW n \in Nat \ {0}
  PROVE  /\ a \div n \in Int
         /\ a % n \in 0 .. n - 1
         /\ a = (a \div n) * n + (a % n)
  OBVIOUS

LEMMA DivModNat ==
  ASSUME NEW a \in Nat, NEW n \in Nat \ {0}
  PROVE  /\ a \div n \in Nat
         /\ a % n \in 0 .. n - 1
         /\ a = (a \div n) * n + (a % n)
  OBVIOUS

LEMMA DivModUnique ==
  ASSUME NEW n \in Nat \ {0}, NEW q \in Int, NEW r \in 0 .. n - 1
  PROVE  (q * n + r) \div n = q /\ (q * n + r) % n = r
  OBVIOUS

LEMMA ModOfSum ==
  ASSUME NEW n \in Nat \ {0}, NEW a \in Int, NEW k \in Int
  PROVE  (a + k * n) % n = a % n /\ (a + k * n) \div n = (a \div n) + k
<1> DEFINE q == a \div n
           r == a % n
<1>1. q \in Int /\ r \in 0 .. n - 1 /\ a = q * n + r
  BY DivMod
<1> HIDE DEF q, r
<1>2. a + k * n = (q + k) * n + r
  BY <1>1
<1>3. ((q + k) * n + r) \div n = q + k /\ ((q + k) * n + r) % n = r
  BY <1>1, DivModUnique
<1>4. QED
  BY <1>2, <1>3 DEF q, r

LEMMA ModOnce ==
  ASSUME NEW n \in Nat \ {0}, NEW r \in 0 .. n - 1
  PROVE  (r + n) % n = r
<1>1. 1 \in Int /\ 1 * n + r = r + n
  OBVIOUS
<1>2. (1 * n + r) % n = r
  BY <1>1, DivModUnique
<1>3. QED
  BY <1>1, <1>2

\* The sum and the difference of multiples are multiples.
LEMMA ModZero ==
  ASSUME NEW n \in Nat \ {0}, NEW a \in Int, NEW b \in Int, a % n = 0, b % n = 0
  PROVE  (a + b) % n = 0 /\ (a - b) % n = 0
<1> DEFINE p == a \div n
           q == b \div n
<1>1. p \in Int /\ q \in Int /\ a = p * n /\ b = q * n
  BY DivMod
<1> HIDE DEF p, q
<1>2. a + b = (p + q) * n + 0 /\ a - b = (p - q) * n + 0
  BY <1>1
<1>3. QED
  BY <1>1, <1>2, DivModUnique

LEMMA ProductMonotonic ==
  ASSUME NEW a \in Nat, NEW b \in Nat, NEW c \in Nat, a <= b
  PROVE  a * c <= b * c
  OBVIOUS

LEMMA ProductStep ==
  ASSUME NEW d \in Nat, NEW t \in Nat, NEW r \in Nat, d < t
  PROVE  d * r + r <= t * r
<1> DEFINE k == t - d - 1
<1>1. k \in Nat /\ t = d + 1 + k
  OBVIOUS
<1>2. k * r \in Nat
  BY <1>1
<1>3. t * r = d * r + r + k * r
  BY <1>1
<1>4. QED
  BY <1>2, <1>3

\* A set of numbers that is not empty has a least one: there is no descending
\* sequence of intervals 0 .. n - 1, which are finite sets.
LEMMA LeastNumber ==
  ASSUME NEW T \in SUBSET Nat, T # {}
  PROVE  \E x \in T : \A y \in T : x <= y
<1> DEFINE R == {p \in Nat \X Nat : p[1] < p[2]}
<1>1. IsWellFoundedOn(R, Nat)
  <2> SUFFICES ASSUME NEW f \in [Nat -> Nat],
                      \A n \in Nat : <<f[n + 1], f[n]>> \in R
               PROVE  FALSE
    BY DEF IsWellFoundedOn
  <2> DEFINE g == [n \in Nat |-> 0 .. f[n] - 1]
  <2>1. \A n \in Nat : f[n + 1] < f[n]
    OBVIOUS
  <2>2. \A n \in Nat : g[n] \in SUBSET Nat /\ IsFiniteSet(g[n])
    BY FS_Interval
  <2>3. g \in [Nat -> FiniteSubsetsOf(Nat)]
    BY <2>2 DEF FiniteSubsetsOf
  <2>4. ASSUME NEW n \in Nat
        PROVE  <<g[n + 1], g[n]>> \in StrictSubsetOrdering(Nat)
    <3>1. n + 1 \in Nat /\ f[n] \in Nat /\ f[n + 1] \in Nat
      OBVIOUS
    <3>2. g[n] = 0 .. f[n] - 1 /\ g[n + 1] = 0 .. f[n + 1] - 1
      BY <3>1
    <3>3. /\ f[n + 1] \in 0 .. f[n] - 1
          /\ f[n + 1] \notin 0 .. f[n + 1] - 1
          /\ 0 .. f[n + 1] - 1 \subseteq 0 .. f[n] - 1
      <4> HIDE DEF g, R
      <4>1. QED
        BY <2>1, <3>1
    <3>4. g[n] \in SUBSET Nat /\ g[n + 1] \in SUBSET Nat
      BY <2>2, <3>1
    <3> HIDE DEF g
    <3>5. QED
      BY <3>2, <3>3, <3>4 DEF StrictSubsetOrdering
  <2>5. QED
    BY <2>3, <2>4, FS_StrictSubsetOrderingWellFounded DEF IsWellFoundedOn
<1>2. PICK x \in T : \A y \in T : ~ (<<y, x>> \in R)
  <2> HIDE DEF R
  <2>1. QED
    BY <1>1, WFMin
<1>3. ASSUME NEW y \in T PROVE x <= y
  <2>1. x \in Nat /\ y \in Nat
    OBVIOUS
  <2>2. ~ (y < x)
    BY <1>2, <2>1
  <2> HIDE DEF R
  <2>3. QED
    BY <2>1, <2>2
<1>4. QED
  BY <1>3

\* Induction.
LEMMA Induction ==
  ASSUME NEW S, 0 \in S, \A n \in Nat : n \in S => n + 1 \in S
  PROVE  Nat \subseteq S
<1> SUFFICES ASSUME NEW m \in Nat, m \notin S PROVE FALSE
  OBVIOUS
<1>1. PICK x \in Nat \ S : \A y \in Nat \ S : x <= y
  <2>1. Nat \ S \in SUBSET Nat /\ Nat \ S # {}
    OBVIOUS
  <2>2. QED
    BY <2>1, LeastNumber
<1>2. x - 1 \in Nat /\ x - 1 \in S
  BY <1>1
<1>3. QED
  BY <1>1, <1>2

\* A recursive definition over 0 .. N has a solution: with it the recursive
\* functions of the models are what their equations say.
Follows(f, x, next, N) == f[0] = x /\ \A n \in 1 .. N : f[n] = next[<<f[n - 1], n>>]

LEMMA Recursion ==
  ASSUME NEW S, NEW x, NEW next, NEW N, x \in S, next \in [S \X Nat -> S], N \in Nat
  PROVE  \E f \in [0 .. N -> S] : Follows(f, x, next, N)
<1> USE DEF Follows
<1> DEFINE Good == {M \in Nat : \E f \in [0 .. M -> S] : Follows(f, x, next, M)}
<1>1. 0 \in Good
  <2>1. [n \in 0 .. 0 |-> x] \in [0 .. 0 -> S] /\ Follows([n \in 0 .. 0 |-> x], x, next, 0)
    OBVIOUS
  <2>2. QED
    BY <2>1
<1>2. ASSUME NEW M \in Nat, M \in Good PROVE M + 1 \in Good
  <2>1. PICK f \in [0 .. M -> S] : Follows(f, x, next, M)
    BY <1>2
  <2> DEFINE g == [n \in 0 .. M + 1 |-> IF n = M + 1 THEN next[<<f[M], M + 1>>] ELSE f[n]]
  <2>2. M \in 0 .. M /\ f[M] \in S /\ M + 1 \in Nat
    OBVIOUS
  <2>3. next[<<f[M], M + 1>>] \in S
    BY <2>2
  <2>4. g \in [0 .. M + 1 -> S]
    BY <2>3
  <2>5. g[0] = x
    BY <2>1
  <2>6. ASSUME NEW n \in 1 .. M + 1 PROVE g[n] = next[<<g[n - 1], n>>]
    <3>1. CASE n = M + 1
      <4>1. g[n - 1] = f[M] /\ g[n] = next[<<f[M], M + 1>>]
        BY <3>1
      <4>2. QED
        BY <3>1, <4>1
    <3>2. CASE n \in 1 .. M
      <4>1. g[n - 1] = f[n - 1] /\ g[n] = f[n]
        BY <3>2
      <4>2. QED
        BY <2>1, <3>2, <4>1
    <3>3. QED
      BY <3>1, <3>2
  <2> HIDE DEF g
  <2>7. Follows(g, x, next, M + 1)
    BY <2>5, <2>6
  <2>8. QED
    BY <2>4, <2>7
<1>3. N \in Good
  <2> HIDE DEF Good
  <2>1. QED
    BY <1>1, <1>2, Induction
<1>4. QED
  BY <1>3
-----------------------------------------------------------------------------
(* Powers of two.  2^n is the number of the subsets of 1 .. n.             *)

LEMMA PowerType ==
  ASSUME NEW n \in Nat PROVE 2^n \in Nat \ {0}
<1>1. IsFiniteSet(1 .. n) /\ Cardinality(1 .. n) = n
  BY FS_Interval
<1>2. IsFiniteSet(SUBSET (1 .. n)) /\ Cardinality(SUBSET (1 .. n)) = 2^n
  BY <1>1, FS_SUBSET
<1>3. SUBSET (1 .. n) # {}
  OBVIOUS
<1>4. QED
  BY <1>2, <1>3, FS_CardinalityType, FS_EmptySet

LEMMA PowerNext ==
  ASSUME NEW n \in Nat PROVE 2^(n + 1) = 2 * 2^n
<1> DEFINE S == 1 .. n
           T == 1 .. n + 1
           f == [A \in SUBSET T |-> <<A \ {n + 1}, IF n + 1 \in A THEN 1 ELSE 0>>]
<1>1. IsFiniteSet(S) /\ Cardinality(S) = n /\ IsFiniteSet(T) /\ Cardinality(T) = n + 1
  BY FS_Interval
<1>2. /\ IsFiniteSet(SUBSET S) /\ Cardinality(SUBSET S) = 2^n
      /\ IsFiniteSet(SUBSET T) /\ Cardinality(SUBSET T) = 2^(n + 1)
  <2> HIDE DEF S, T
  <2>1. QED
    BY <1>1, FS_SUBSET
<1>3. IsFiniteSet(0 .. 1) /\ Cardinality(0 .. 1) = 2
  <2>1. 0 \in Int /\ 1 \in Int /\ ~(0 > 1) /\ 1 - 0 + 1 = 2
    OBVIOUS
  <2>2. QED
    BY <2>1, FS_Interval
<1>4. T = S \cup {n + 1} /\ n + 1 \notin S
  OBVIOUS
<1> HIDE DEF S, T
<1>5. f \in [SUBSET T -> (SUBSET S) \X (0 .. 1)]
  BY <1>4
<1>6. \A A, B \in SUBSET T : f[A] = f[B] => A = B
  OBVIOUS
<1>7. \A A \in SUBSET S : f[A] = <<A, 0>> /\ f[A \cup {n + 1}] = <<A, 1>>
  BY <1>4
<1>8. \A p \in (SUBSET S) \X (0 .. 1) : \E A \in SUBSET T : f[A] = p
  <2> SUFFICES ASSUME NEW p \in (SUBSET S) \X (0 .. 1)
               PROVE  \E A \in SUBSET T : f[A] = p
    OBVIOUS
  <2>0. PICK A \in SUBSET S, i \in 0 .. 1 : p = <<A, i>>
    OBVIOUS
  <2>1. A \in SUBSET T /\ A \cup {n + 1} \in SUBSET T
    BY <1>4
  <2>2. i = 0 \/ i = 1
    OBVIOUS
  <2> HIDE DEF f
  <2>3. QED
    BY <1>7, <2>0, <2>1, <2>2
<1> HIDE DEF f
<1>9. f \in Bijection(SUBSET T, (SUBSET S) \X (0 .. 1))
  BY <1>5, <1>6, <1>8 DEF Bijection, Injection, Surjection, IsInjective
<1>10. Cardinality((SUBSET S) \X (0 .. 1)) = Cardinality(SUBSET T)
  BY <1>2, <1>9, FS_Bijection DEF ExistsBijection
<1>11. Cardinality((SUBSET S) \X (0 .. 1)) = Cardinality(SUBSET S) * Cardinality(0 .. 1)
  BY <1>2, <1>3, FS_Product
<1>12. 2^n \in Nat
  BY PowerType
<1>13. QED
  BY <1>2, <1>3, <1>10, <1>11, <1>12

LEMMA PowerSum ==
  ASSUME NEW a \in Nat, NEW b \in Nat PROVE 2^(a + b) = 2^a * 2^b
<1> DEFINE Good == {k \in Nat : 2^(a + k) = 2^a * 2^k}
<1>1. 0 \in Good
  <2>1. 2^0 = 1 /\ a + 0 = a
    OBVIOUS
  <2>2. 2^a \in Nat
    BY PowerType
  <2>3. QED
    BY <2>1, <2>2
<1>2. ASSUME NEW k \in Nat, k \in Good PROVE k + 1 \in Good
  <2>1. 2^(a + (k + 1)) = 2 * 2^(a + k)
    <3>1. a + k \in Nat /\ a + (k + 1) = (a + k) + 1
      OBVIOUS
    <3>2. QED
      BY <3>1, PowerNext
  <2>2. 2^(k + 1) = 2 * 2^k
    BY PowerNext
  <2>3. 2^a \in Nat /\ 2^k \in Nat /\ 2^(a + k) \in Nat
    BY PowerType
  <2>4. 2 * (2^a * 2^k) = 2^a * (2 * 2^k)
    <3> DEFINE x == 2^a
               y == 2^k
    <3>1. x \in Nat /\ y \in Nat
      BY <2>3
    <3> HIDE DEF x, y
    <3>2. 2 * (x * y) = x * (2 * y)
      BY <3>1
    <3>3. QED
      BY <3>2 DEF x, y
  <2>5. QED
    BY <1>2, <2>1, <2>2, <2>4
<1>3. Nat \subseteq Good
  <2> HIDE DEF Good
  <2>1. QED
    BY <1>1, <1>2, Induction
<1>4. QED
  BY <1>3
-----------------------------------------------------------------------------
(* Binary digits.                                                          *)

BinaryDigit(x, n) == (x \div 2^n) % 2

\* A number below p is its own remainder.
LEMMA BelowModulus ==
  ASSUME NEW p \in Nat \ {0}, NEW x \in 0 .. p - 1
  PROVE  x % p = x /\ x \div p = 0
<1>1. 0 * p + x = x /\ 0 \in Int
  OBVIOUS
<1>2. QED
  BY <1>1, DivModUnique

\* The powers of two are ordered, and a smaller one divides a larger one.
LEMMA PowerDivides ==
  ASSUME NEW k \in Nat, NEW n \in Nat, k <= n
  PROVE  \E c \in Nat \ {0} : 2^n = c * 2^k /\ 2^k <= 2^n
<1>1. PICK d \in Nat : n = d + k
  <2>1. n - k \in Nat /\ n = (n - k) + k
    OBVIOUS
  <2>2. QED
    BY <2>1
<1>2. PICK c \in Nat \ {0} : c = 2^d
  BY PowerType
<1>3. PICK p \in Nat \ {0} : p = 2^k
  BY PowerType
<1>4. 2^n = c * p
  BY <1>1, <1>2, <1>3, PowerSum
<1>5. p <= c * p
  OBVIOUS
<1>6. QED
  BY <1>3, <1>4, <1>5

\* Digit n of x is what x % 2^(n + 1) has and x % 2^n has not.
LEMMA DigitStep ==
  ASSUME NEW x \in Nat, NEW n \in Nat
  PROVE  /\ BinaryDigit(x, n) \in 0 .. 1
         /\ x % 2^(n + 1) = (x % 2^n) + BinaryDigit(x, n) * 2^n
         /\ x % 2^n \in 0 .. 2^n - 1
<1>1. PICK p \in Nat \ {0} : p = 2^n
  BY PowerType
<1>2. 2^(n + 1) = 2 * p
  BY <1>1, PowerNext
<1>3. PICK q \in Nat, r \in 0 .. p - 1 : x \div p = q /\ x % p = r /\ x = q * p + r
  BY DivModNat
<1>4. PICK h \in Nat, b \in 0 .. 1 : q % 2 = b /\ q = h * 2 + b
  <2>1. 2 \in Nat \ {0} /\ 2 - 1 = 1
    OBVIOUS
  <2>2. q \div 2 \in Nat /\ q % 2 \in 0 .. 1 /\ q = (q \div 2) * 2 + (q % 2)
    BY <2>1, DivModNat
  <2>3. QED
    BY <2>2
<1>5. BinaryDigit(x, n) = b
  BY <1>1, <1>3, <1>4 DEF BinaryDigit
<1>6. b = 0 \/ b = 1
  BY <1>4
<1>7. b * p + r \in 0 .. 2 * p - 1
  BY <1>6
<1>8. x = h * (2 * p) + (b * p + r)
  <2>1. (h * 2 + b) * p = h * (2 * p) + b * p
    OBVIOUS
  <2>2. QED
    BY <1>3, <1>4, <2>1
<1>9. (h * (2 * p) + (b * p + r)) % (2 * p) = b * p + r
  <2>1. PICK w \in Nat \ {0} : w = 2 * p
    OBVIOUS
  <2>2. PICK s \in 0 .. w - 1 : s = b * p + r
    BY <1>7, <2>1
  <2>3. (h * w + s) % w = s
    BY DivModUnique
  <2>4. QED
    BY <2>1, <2>2, <2>3
<1>10. x % (2 * p) = r + b * p
  <2>1. b * p + r = r + b * p
    BY <1>6
  <2>2. QED
    BY <1>8, <1>9, <2>1
<1>11. QED
  BY <1>1, <1>2, <1>3, <1>5, <1>10

\* The digits of 2^k - 1 are k ones.
LEMMA DigitsOfMask ==
  ASSUME NEW k \in Nat, NEW n \in Nat
  PROVE  /\ 2^k - 1 \in Nat
         /\ BinaryDigit(2^k - 1, n) = IF n < k THEN 1 ELSE 0
<1>1. PICK w \in Nat \ {0} : w = 2^k
  BY PowerType
<1>2. PICK p \in Nat \ {0} : p = 2^n
  BY PowerType
<1>3. 2^(n + 1) = 2 * p
  BY <1>2, PowerNext
<1>4. w - 1 \in Nat
  BY <1>1
<1>5. CASE n < k
  <2>1. n + 1 \in Nat /\ n + 1 <= k
    BY <1>5
  <2>2. PICK c \in Nat \ {0} : w = c * 2^(n + 1)
    BY <1>1, <2>1, PowerDivides
  <2>3. w = c * (2 * p)
    BY <1>3, <2>2
  <2>4. (w - 1) \div p = 2 * c - 1
    <3>1. 2 * c - 1 \in Int /\ p - 1 \in 0 .. p - 1
      OBVIOUS
    <3>2. (2 * c - 1) * p + (p - 1) = w - 1
      <4>1. (2 * c - 1) * p = (2 * c) * p - p /\ (2 * c) * p = c * (2 * p)
        OBVIOUS
      <4>2. QED
        BY <2>3, <4>1
    <3>3. ((2 * c - 1) * p + (p - 1)) \div p = 2 * c - 1
      BY <3>1, DivModUnique
    <3>4. QED
      BY <3>2, <3>3
  <2>5. (2 * c - 1) % 2 = 1
    <3>1. 2 \in Nat \ {0} /\ c - 1 \in Int /\ 1 \in 0 .. 2 - 1 /\ (c - 1) * 2 + 1 = 2 * c - 1
      OBVIOUS
    <3>2. ((c - 1) * 2 + 1) % 2 = 1
      BY <3>1, DivModUnique
    <3>3. QED
      BY <3>1, <3>2
  <2>6. QED
    BY <1>1, <1>2, <1>4, <1>5, <2>4, <2>5 DEF BinaryDigit
<1>6. CASE ~ (n < k)
  <2>1. w <= p
    <3>1. k <= n
      BY <1>6
    <3>2. QED
      BY <1>1, <1>2, <3>1, PowerDivides
  <2>2. w - 1 \in 0 .. p - 1
    BY <2>1
  <2>3. (w - 1) \div p = 0
    BY <2>2, BelowModulus
  <2>4. QED
    BY <1>1, <1>2, <1>4, <1>6, <2>3 DEF BinaryDigit
<1>7. QED
  BY <1>5, <1>6

\* A number whose last k digits are zeros is a multiple of 2^k.
ZeroDigits(x, k) == \A n \in 0 .. k - 1 : BinaryDigit(x, n) = 0

LEMMA ZeroDigitsDivide ==
  ASSUME NEW x \in Nat, NEW k \in Nat
  PROVE  ZeroDigits(x, k) <=> x % 2^k = 0
<1> DEFINE Good == {m \in Nat : ZeroDigits(x, m) <=> x % 2^m = 0}
<1>1. 0 \in Good
  <2>1. ZeroDigits(x, 0)
    BY DEF ZeroDigits
  <2>2. 2^0 = 1
    OBVIOUS
  <2>3. x % 1 = 0
    <3>1. x % 1 \in 0 .. 1 - 1
      BY DivModNat
    <3>2. QED
      BY <3>1
  <2>4. QED
    BY <2>1, <2>2, <2>3
<1>2. ASSUME NEW m \in Nat, m \in Good PROVE m + 1 \in Good
  <2>1. PICK b, r, p : b = BinaryDigit(x, m) /\ r = x % 2^m /\ p = 2^m
    OBVIOUS
  <2>2. /\ b \in 0 .. 1 /\ p \in Nat \ {0} /\ r \in 0 .. p - 1
        /\ x % 2^(m + 1) = r + b * p
    BY <2>1, DigitStep, PowerType
  <2>3. ZeroDigits(x, m + 1) <=> ZeroDigits(x, m) /\ b = 0
    <3>1. \A n : n \in 0 .. (m + 1) - 1 <=> n \in 0 .. m - 1 \/ n = m
      OBVIOUS
    <3>2. QED
      BY <2>1, <3>1 DEF ZeroDigits
  <2>4. r + b * p = 0 <=> r = 0 /\ b = 0
    <3>1. CASE b = 0
      BY <2>2, <3>1
    <3>2. CASE b = 1
      BY <2>2, <3>2
    <3>3. QED
      BY <2>2, <3>1, <3>2
  <2>5. ZeroDigits(x, m) <=> r = 0
    BY <1>2, <2>1
  <2>6. ZeroDigits(x, m + 1) <=> x % 2^(m + 1) = 0
    BY <2>2, <2>3, <2>4, <2>5
  <2>7. QED
    BY <2>6
<1>3. Nat \subseteq Good
  <2> HIDE DEF Good
  <2>1. QED
    BY <1>1, <1>2, Induction
<1>4. QED
  BY <1>3
=============================================================================
