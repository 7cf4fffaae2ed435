-------------------------- MODULE NandIdentProofs --------------------------
(***************************************************************************)
(* Proofs about NandIdent: for every device, geometry, offset and length    *)
(* whose sums fit an unsigned.  First the bits: what the masks of           *)
(* _ALIGN_UP and _ALIGN_DOWN keep, for any size and for a power of two, and *)
(* what generic_ffs finds.                                                  *)
(***************************************************************************)
EXTENDS NandIdent, NatLemmas

LEMMA BitsType == Bits \in Nat /\ 20 <= Bits /\ Bits <= 32
  BY IdentAssumption

\* Bit n of x is what x % 2^(n + 1) has and x % 2^n has not.
LEMMA BitStep ==
  ASSUME NEW x \in Nat, NEW n \in Nat
  PROVE  /\ Bit(x, n) \in 0 .. 1
         /\ x % 2^(n + 1) = (x % 2^n) + Bit(x, n) * 2^n
         /\ x % 2^n \in 0 .. 2^n - 1
  BY DigitStep DEF Bit, BinaryDigit

LEMMA PowerZero == 2^0 = 1
  OBVIOUS

\* A number below 2^n is the sum of its n low bits.
LEMMA SmallMod ==
  ASSUME NEW p \in Nat \ {0}, NEW x \in 0 .. p - 1
  PROVE  x % p = x /\ x \div p = 0
  BY BelowModulus

\* The powers of two are ordered, and a smaller one divides a larger one.
LEMMA PowerOrder ==
  ASSUME NEW k \in Nat, NEW n \in Nat, k <= n
  PROVE  \E c \in Nat \ {0} : 2^n = c * 2^k /\ 2^k <= 2^n
  BY PowerDivides

-----------------------------------------------------------------------------
(* x & ~m.                                                                 *)

\* The sum that AndNot computes exists, and goes bit by bit.
LEMMA AndNotSum ==
  ASSUME NEW x \in Nat, NEW m \in Nat
  PROVE  \E low : /\ AndNot(x, m) = low[Bits]
                  /\ low[0] = 0
                  /\ \A n \in 0 .. Bits - 1 :
                        low[n + 1] = low[n] + (IF Bit(x, n) > Bit(m, n) THEN 2^n ELSE 0)
<1> DEFINE Term(n) == IF Bit(x, n - 1) > Bit(m, n - 1) THEN 2^(n - 1) ELSE 0
           Body(f, N) == [n \in 0 .. N |-> IF n = 0 THEN 0 ELSE f[n - 1] + Term(n)]
           Good == {N \in Nat : \E f : f = Body(f, N)}
<1>1. 0 \in Good
  <2> DEFINE f == [n \in 0 .. 0 |-> 0]
  <2> HIDE DEF Term
  <2>1. f = Body(f, 0)
    OBVIOUS
  <2> HIDE DEF f, Body
  <2>2. QED
    BY <2>1
<1>2. ASSUME NEW N \in Nat, N \in Good PROVE N + 1 \in Good
  <2> HIDE DEF Term
  <2>1. PICK f : f = Body(f, N)
    BY <1>2
  <2> DEFINE g == [n \in 0 .. N + 1 |-> IF n = N + 1 THEN f[N] + Term(N + 1) ELSE f[n]]
  <2>2. ASSUME NEW n \in 0 .. N + 1
        PROVE  g[n] = IF n = 0 THEN 0 ELSE g[n - 1] + Term(n)
    <3>1. CASE n = 0
      <4>1. g[0] = f[0] /\ f[0] = 0
        BY <2>1
      <4>2. QED
        BY <3>1, <4>1
    <3>2. CASE n = N + 1
      <4>1. n - 1 = N /\ n # 0 /\ N \in 0 .. N + 1 /\ N # N + 1
        BY <3>2
      <4>2. g[N] = f[N] /\ g[n] = f[N] + Term(N + 1)
        BY <3>2, <4>1
      <4>3. QED
        BY <3>2, <4>1, <4>2
    <3>3. CASE n \in 1 .. N
      <4>1. g[n] = f[n] /\ g[n - 1] = f[n - 1] /\ n # 0
        BY <3>3
      <4>2. f[n] = f[n - 1] + Term(n)
        BY <2>1, <3>3
      <4>3. QED
        BY <4>1, <4>2
    <3>4. QED
      BY <3>1, <3>2, <3>3
  <2>3. g = Body(g, N + 1)
    <3>1. g = [n \in 0 .. N + 1 |-> g[n]]
      OBVIOUS
    <3> HIDE DEF g
    <3>2. QED
      BY <2>2, <3>1
  <2> HIDE DEF g, Body
  <2>4. QED
    BY <2>3
<1>3. Bits \in Good
  <2> HIDE DEF Good
  <2>1. Bits \in Nat
    BY BitsType
  <2>2. QED
    BY <1>1, <1>2, <2>1, Induction
<1> DEFINE low == CHOOSE f : f = Body(f, Bits)
<1>4. low = Body(low, Bits)
  <2>1. \E f : f = Body(f, Bits)
    BY <1>3
  <2> HIDE DEF Body, Good
  <2>2. QED
    BY <2>1, Zenon
<1>5. AndNot(x, m) = low[Bits]
  BY DEF AndNot
<1> HIDE DEF low, Term
<1>6. low[0] = 0
  BY <1>4, BitsType
<1>7. ASSUME NEW n \in 0 .. Bits - 1
      PROVE  low[n + 1] = low[n] + (IF Bit(x, n) > Bit(m, n) THEN 2^n ELSE 0)
  <2>1. n + 1 \in 0 .. Bits /\ n + 1 # 0 /\ (n + 1) - 1 = n
    BY BitsType
  <2>2. low[n + 1] = low[(n + 1) - 1] + Term(n + 1)
    BY <1>4, <2>1
  <2>3. Term(n + 1) = IF Bit(x, n) > Bit(m, n) THEN 2^n ELSE 0
    BY <2>1, Zenon DEF Term
  <2>4. QED
    BY <2>1, <2>2, <2>3
<1>8. QED
  BY <1>5, <1>6, <1>7

\* An interval of induction: what holds at 0 and goes one up holds to the end.
LEMMA UpTo ==
  ASSUME NEW S, NEW N \in Nat, 0 \in S, \A n \in 0 .. N - 1 : n \in S => n + 1 \in S
  PROVE  0 .. N \subseteq S
<1> DEFINE T == {n \in Nat : n <= N => n \in S}
<1>1. 0 \in T
  OBVIOUS
<1>2. \A n \in Nat : n \in T => n + 1 \in T
  OBVIOUS
<1>3. Nat \subseteq T
  <2> HIDE DEF T
  <2>1. QED
    BY <1>1, <1>2, Induction
<1>4. QED
  BY <1>3

\* x & ~m takes no more than m from x, and adds nothing to it.
LEMMA AndNotBounds ==
  ASSUME NEW x \in 0 .. 2^Bits - 1, NEW m \in 0 .. 2^Bits - 1
  PROVE  AndNot(x, m) \in Nat /\ AndNot(x, m) <= x /\ x <= AndNot(x, m) + m
<1>0. x \in Nat /\ m \in Nat /\ 2^Bits \in Nat \ {0}
  BY BitsType, PowerType
<1>1. PICK low : /\ AndNot(x, m) = low[Bits]
                 /\ low[0] = 0
                 /\ \A n \in 0 .. Bits - 1 :
                      low[n + 1] = low[n] + (IF Bit(x, n) > Bit(m, n) THEN 2^n ELSE 0)
  BY <1>0, AndNotSum
<1> DEFINE Good == {n \in Nat : /\ low[n] \in Nat
                                /\ low[n] <= x % 2^n
                                /\ x % 2^n <= low[n] + (m % 2^n)}
<1>2. 0 \in Good
  <2>1. x % 1 = 0 /\ m % 1 = 0
    <3>1. 1 \in Nat \ {0} /\ 1 - 1 = 0
      OBVIOUS
    <3>2. x % 1 \in 0 .. 0 /\ m % 1 \in 0 .. 0
      BY <1>0, <3>1, DivModNat
    <3>3. QED
      BY <3>2
  <2>2. low[0] \in Nat /\ low[0] <= x % 2^0 /\ x % 2^0 <= low[0] + (m % 2^0)
    BY <1>1, <2>1, PowerZero
  <2>3. QED
    BY <2>2
<1>3. ASSUME NEW n \in 0 .. Bits - 1, n \in Good PROVE n + 1 \in Good
  <2>1. n \in Nat
    BY BitsType
  <2>2. PICK l, p, b, c, r, s :
          /\ l = low[n] /\ p = 2^n /\ b = Bit(x, n) /\ c = Bit(m, n)
          /\ r = x % 2^n /\ s = m % 2^n
    OBVIOUS
  <2>3. p \in Nat \ {0}
    BY <2>1, <2>2, PowerType
  <2>4. b \in 0 .. 1 /\ r \in 0 .. p - 1 /\ x % 2^(n + 1) = r + b * p
    BY <1>0, <2>1, <2>2, BitStep
  <2>5. c \in 0 .. 1 /\ s \in 0 .. p - 1 /\ m % 2^(n + 1) = s + c * p
    BY <1>0, <2>1, <2>2, BitStep
  <2>6. low[n + 1] = l + (IF b > c THEN p ELSE 0)
    BY <1>1, <2>2
  <2>7. l \in Nat /\ l <= r /\ r <= l + s
    BY <1>3, <2>2
  <2>8. (b = 0 \/ b = 1) /\ (c = 0 \/ c = 1)
    BY <2>4, <2>5
  <2>9. PICK l1 : l1 = l + (IF b > c THEN p ELSE 0)
    OBVIOUS
  <2>10. l1 \in Nat /\ l1 <= r + b * p /\ r + b * p <= l1 + (s + c * p)
    <3>1. CASE b = 1 /\ c = 0
      BY <2>3, <2>4, <2>5, <2>7, <2>9, <3>1
    <3>2. CASE b = 1 /\ c = 1
      BY <2>3, <2>4, <2>5, <2>7, <2>9, <3>2
    <3>3. CASE b = 0 /\ c = 0
      BY <2>3, <2>4, <2>5, <2>7, <2>9, <3>3
    <3>4. CASE b = 0 /\ c = 1
      BY <2>3, <2>4, <2>5, <2>7, <2>9, <3>4
    <3>5. QED
      BY <2>8, <3>1, <3>2, <3>3, <3>4
  <2>11. QED
    BY <2>1, <2>4, <2>5, <2>6, <2>9, <2>10
<1>4. Bits \in Good
  <2> HIDE DEF Good
  <2>1. 0 .. Bits \subseteq Good
    BY <1>2, <1>3, BitsType, UpTo
  <2>2. QED
    BY <2>1, BitsType
<1>5. x % 2^Bits = x /\ m % 2^Bits = m
  BY <1>0, SmallMod
<1>6. QED
  BY <1>1, <1>4, <1>5

\* The bits of 2^k - 1: k ones.
LEMMA MaskBits ==
  ASSUME NEW k \in Nat, NEW n \in Nat
  PROVE  /\ 2^k - 1 \in Nat
         /\ Bit(2^k - 1, n) = IF n < k THEN 1 ELSE 0
  BY DigitsOfMask DEF Bit, BinaryDigit

\* With the mask of a power of two, x & ~m is x without its remainder.
LEMMA AndNotPower ==
  ASSUME NEW x \in 0 .. 2^Bits - 1, NEW k \in 0 .. Bits
  PROVE  AndNot(x, 2^k - 1) = x - (x % 2^k)
<1> DEFINE m == 2^k - 1
<1>0. x \in Nat /\ m \in Nat /\ 2^Bits \in Nat \ {0} /\ k \in Nat
  BY BitsType, PowerType, MaskBits
<1>1. PICK low : /\ AndNot(x, m) = low[Bits]
                 /\ low[0] = 0
                 /\ \A n \in 0 .. Bits - 1 :
                      low[n + 1] = low[n] + (IF Bit(x, n) > Bit(m, n) THEN 2^n ELSE 0)
  <2> HIDE DEF m
  <2>1. QED
    BY <1>0, AndNotSum
<1> DEFINE Good == {n \in Nat : /\ n <= k => low[n] = 0
                                /\ k <= n => low[n] + (x % 2^k) = x % 2^n
                                /\ low[n] \in Nat}
<1>2. 0 \in Good
  <2>1. x % 1 = 0
    <3>1. 1 \in Nat \ {0} /\ 1 - 1 = 0
      OBVIOUS
    <3>2. x % 1 \in 0 .. 0
      BY <1>0, <3>1, DivModNat
    <3>3. QED
      BY <3>2
  <2>2. k <= 0 => k = 0
    BY <1>0
  <2>3. 0 <= k => low[0] = 0
    BY <1>1
  <2>4. k <= 0 => low[0] + (x % 2^k) = x % 2^0
    BY <1>1, <2>1, <2>2, PowerZero
  <2>5. QED
    BY <1>1, <2>3, <2>4
<1>3. ASSUME NEW n \in 0 .. Bits - 1, n \in Good PROVE n + 1 \in Good
  <2>1. n \in Nat
    BY BitsType
  <2>2. PICK l, p, b, r, t :
          /\ l = low[n] /\ p = 2^n /\ b = Bit(x, n) /\ r = x % 2^n /\ t = x % 2^k
    OBVIOUS
  <2>3. p \in Nat \ {0} /\ t \in Int
    <3>1. 2^k \in Nat \ {0}
      BY <1>0, PowerType
    <3>2. t \in 0 .. 2^k - 1
      BY <1>0, <2>2, BitStep
    <3>3. QED
      BY <2>1, <2>2, <3>1, <3>2, PowerType
  <2>4. b \in 0 .. 1 /\ r \in 0 .. p - 1 /\ x % 2^(n + 1) = r + b * p
    BY <1>0, <2>1, <2>2, BitStep
  <2>5. Bit(m, n) = IF n < k THEN 1 ELSE 0
    BY <1>0, <2>1, MaskBits
  <2>6. low[n + 1] = l + (IF b > Bit(m, n) THEN p ELSE 0)
    BY <1>1, <2>2
  <2>7. b = 0 \/ b = 1
    BY <2>4
  <2>8. /\ n <= k => l = 0
        /\ k <= n => l + t = r
        /\ l \in Nat
    BY <1>3, <2>2
  <2> HIDE DEF m
  <2>9. CASE n < k
    <3>1. low[n + 1] = l /\ l = 0
      BY <1>0, <2>1, <2>5, <2>6, <2>7, <2>8, <2>9
    <3>2. k <= n + 1 => 2^k = 2^(n + 1)
      <4>1. k <= n + 1 => k = n + 1
        BY <1>0, <2>1, <2>9
      <4>2. QED
        BY <4>1
    <3>3. k <= n + 1 => low[n + 1] + t = x % 2^(n + 1)
      BY <2>2, <2>3, <3>1, <3>2
    <3>4. QED
      BY <2>1, <2>2, <3>1, <3>3
  <2>10. CASE ~ (n < k)
    <3>1. k <= n /\ ~ (n + 1 <= k)
      BY <1>0, <2>1, <2>10
    <3>2. PICK l1 : l1 = l + (IF b > 0 THEN p ELSE 0)
      OBVIOUS
    <3>3. low[n + 1] = l1
      BY <2>5, <2>6, <2>10, <3>2
    <3>4. l1 \in Nat /\ l1 + t = r + b * p
      <4>1. CASE b = 0
        BY <2>3, <2>4, <2>8, <3>1, <3>2, <4>1
      <4>2. CASE b = 1
        BY <2>3, <2>4, <2>8, <3>1, <3>2, <4>2
      <4>3. QED
        BY <2>7, <4>1, <4>2
    <3>5. low[n + 1] \in Nat /\ low[n + 1] + (x % 2^k) = x % 2^(n + 1)
      BY <2>2, <2>4, <3>3, <3>4
    <3>6. n + 1 \in Nat
      BY <2>1
    <3>7. QED
      BY <3>1, <3>5, <3>6
  <2>11. QED
    BY <2>9, <2>10
<1>4. Bits \in Good
  <2> HIDE DEF Good
  <2>1. 0 .. Bits \subseteq Good
    BY <1>2, <1>3, BitsType, UpTo
  <2>2. QED
    BY <2>1, BitsType
<1>5. x % 2^Bits = x
  BY <1>0, SmallMod
<1>6. x % 2^k \in Int
  <2>1. 2^k \in Nat \ {0} /\ x % 2^k \in 0 .. 2^k - 1
    BY <1>0, PowerType, BitStep
  <2>2. QED
    BY <2>1
<1>7. AndNot(x, m) + (x % 2^k) = x /\ AndNot(x, m) \in Nat
  <2> HIDE DEF m
  <2>1. QED
    BY <1>1, <1>4, <1>5
<1> HIDE DEF m
<1>8. AndNot(x, m) = x - (x % 2^k)
  BY <1>0, <1>6, <1>7
<1>9. QED
  BY <1>8 DEF m

LEMMA AlignPower ==
  ASSUME NEW x \in Nat, NEW k \in 0 .. Bits, x + (2^k - 1) \in 0 .. 2^Bits - 1
  PROVE  /\ AlignDown(x, 2^k) = x - (x % 2^k)
         /\ AlignUp(x, 2^k) = (x + (2^k - 1)) - ((x + (2^k - 1)) % 2^k)
<1>1. PICK p \in Nat \ {0} : p = 2^k
  BY PowerType, BitsType
<1>2. x \in 0 .. 2^Bits - 1
  <2>1. 2^Bits \in Nat
    BY PowerType, BitsType
  <2>2. QED
    BY <1>1, <2>1
<1>3. AndNot(x, 2^k - 1) = x - (x % 2^k)
  BY <1>2, AndNotPower
<1>4. AndNot(x + (2^k - 1), 2^k - 1) = (x + (2^k - 1)) - ((x + (2^k - 1)) % 2^k)
  BY AndNotPower
<1>5. (x + 2^k) - 1 = x + (2^k - 1) /\ 2^k # 0
  BY <1>1
<1>6. AlignUp(x, 2^k) = AndNot(x + (2^k - 1), 2^k - 1)
  BY <1>5 DEF AlignUp
<1>7. QED
  BY <1>3, <1>4, <1>5, <1>6 DEF AlignDown

LEMMA AlignUpBounds ==
  ASSUME NEW x \in Nat, NEW size \in Nat, x + size <= 2^Bits
  PROVE  /\ AlignUp(x, size) \in Nat
         /\ size # 0 => x <= AlignUp(x, size) /\ AlignUp(x, size) < x + size
<1>0. 2^Bits \in Nat \ {0}
  BY PowerType, BitsType
<1>1. CASE size = 0
  BY <1>1 DEF AlignUp
<1>2. CASE size # 0
  <2>1. PICK y \in 0 .. 2^Bits - 1, m \in 0 .. 2^Bits - 1 : y = x + size - 1 /\ m = size - 1
    BY <1>0, <1>2
  <2>2. AndNot(y, m) \in Nat /\ AndNot(y, m) <= y /\ y <= AndNot(y, m) + m
    BY AndNotBounds
  <2>3. AlignUp(x, size) = AndNot(y, m)
    BY <1>2, <2>1 DEF AlignUp
  <2>4. PICK a \in Nat : a = AndNot(y, m)
    BY <2>2
  <2>5. y \in Nat /\ x <= a /\ a < x + size
    BY <1>0, <1>2, <2>1, <2>2, <2>4
  <2>6. QED
    BY <2>3, <2>4, <2>5
<1>3. QED
  BY <1>1, <1>2

\* A multiple of the size is rounded up to itself, as far as the quotient goes,
\* although the mask of a size that is no power of two has holes.
LEMMA PagesExact ==
  ASSUME NEW x \in Nat, NEW size \in Nat \ {0}, x + size <= 2^Bits, x % size = 0
  PROVE  (AlignUp(x, size) \div size) * size = x
<1>1. PICK q \in Nat : x = q * size
  <2>1. x \div size \in Nat /\ x = (x \div size) * size + (x % size)
    BY DivModNat
  <2>2. QED
    BY <2>1
<1>2. PICK a \in Nat : a = AlignUp(x, size)
  BY AlignUpBounds
<1>3. x <= a /\ a < x + size
  BY <1>2, AlignUpBounds
<1>4. a - x \in 0 .. size - 1 /\ a = q * size + (a - x)
  BY <1>1, <1>3
<1>5. a \div size = q
  BY <1>4, DivModUnique
<1>6. QED
  BY <1>1, <1>2, <1>5
-----------------------------------------------------------------------------
(* generic_ffs.                                                            *)

LEMMA FfsExists ==
  ASSUME NEW x \in 1 .. 2^Bits - 1
  PROVE  \E k \in 0 .. Bits - 1 : x % 2^k = 0 /\ Bit(x, k) = 1
<1>0. x \in Nat /\ 2^Bits \in Nat \ {0}
  BY BitsType, PowerType
<1> SUFFICES ASSUME \A k \in 0 .. Bits - 1 : ~ (x % 2^k = 0 /\ Bit(x, k) = 1) PROVE FALSE
  OBVIOUS
<1> DEFINE Good == {n \in Nat : x % 2^n = 0}
<1>1. 0 \in Good
  <2>1. 1 \in Nat \ {0} /\ 1 - 1 = 0
    OBVIOUS
  <2>2. x % 1 \in 0 .. 0
    BY <1>0, <2>1, DivModNat
  <2>3. QED
    BY <2>2, PowerZero
<1>2. ASSUME NEW n \in 0 .. Bits - 1, n \in Good PROVE n + 1 \in Good
  <2>1. n \in Nat /\ n + 1 \in Nat /\ x % 2^n = 0
    BY <1>2
  <2>2. Bit(x, n) \in 0 .. 1 /\ x % 2^(n + 1) = (x % 2^n) + Bit(x, n) * 2^n
    BY <1>0, <2>1, BitStep
  <2>3. Bit(x, n) = 0
    BY <2>1, <2>2
  <2>4. 2^n \in Nat
    BY <2>1, PowerType
  <2>5. QED
    BY <2>1, <2>2, <2>3, <2>4
<1>3. Bits \in Good
  <2> HIDE DEF Good
  <2>1. 0 .. Bits \subseteq Good
    BY <1>1, <1>2, BitsType, UpTo
  <2>2. QED
    BY <2>1, BitsType
<1>4. x % 2^Bits = x
  BY <1>0, SmallMod
<1>5. QED
  BY <1>3, <1>4

LEMMA FfsType ==
  ASSUME NEW x \in 0 .. 2^Bits - 1
  PROVE  Ffs(x) \in 0 .. Bits /\ (x # 0 => Ffs(x) # 0)
<1>1. CASE x = 0
  BY <1>1, BitsType DEF Ffs
<1>2. CASE x # 0
  <2>1. x \in 1 .. 2^Bits - 1
    BY <1>2, BitsType, PowerType
  <2>2. PICK k : k = CHOOSE j \in 0 .. Bits - 1 : x % 2^j = 0 /\ Bit(x, j) = 1
    OBVIOUS
  <2>3. k \in 0 .. Bits - 1
    BY <2>1, <2>2, FfsExists, Zenon
  <2>4. Ffs(x) = 1 + k
    BY <1>2, <2>2 DEF Ffs
  <2>5. QED
    BY <2>3, <2>4, BitsType
<1>3. QED
  BY <1>1, <1>2

\* Only bit k of 2^k is set.
LEMMA FfsPower ==
  ASSUME NEW k \in 0 .. Bits - 1 PROVE Ffs(2^k) = k + 1
<1>0. k \in Nat /\ Bits \in Nat
  BY BitsType
<1>1. PICK p \in Nat \ {0} : p = 2^k
  BY <1>0, PowerType
<1>2. p % p = 0 /\ Bit(p, k) = 1
  <2>1. 1 * p + 0 = p /\ 1 \in Int /\ 0 \in 0 .. p - 1
    OBVIOUS
  <2>2. p \div p = 1 /\ p % p = 0
    BY <2>1, DivModUnique
  <2>3. 1 % 2 = 1
    OBVIOUS
  <2>4. QED
    BY <1>1, <2>2, <2>3 DEF Bit
<1>3. ASSUME NEW j \in 0 .. Bits - 1, p % 2^j = 0, Bit(p, j) = 1 PROVE j = k
  <2>0. j \in Nat
    OBVIOUS
  <2>1. PICK q \in Nat \ {0} : q = 2^j
    BY <2>0, PowerType
  <2>2. CASE j < k
    <3>1. j + 1 \in Nat /\ j + 1 <= k
      BY <1>0, <2>0, <2>2
    <3>2. PICK c \in Nat \ {0} : p = c * 2^(j + 1)
      BY <1>0, <1>1, <3>1, PowerOrder
    <3>3. 2^(j + 1) = 2 * q
      BY <2>0, <2>1, PowerNext
    <3>4. p = (2 * c) * q + 0 /\ 2 * c \in Int /\ 0 \in 0 .. q - 1
      BY <3>2, <3>3
    <3>5. p \div q = 2 * c
      BY <3>4, DivModUnique
    <3>6. (2 * c) % 2 = 0
      OBVIOUS
    <3>7. QED
      BY <1>3, <2>1, <3>5, <3>6 DEF Bit
  <2>3. CASE k < j
    <3>1. k + 1 \in Nat /\ k + 1 <= j
      BY <1>0, <2>0, <2>3
    <3>2. 2^(k + 1) <= q /\ 2^(k + 1) = 2 * p
      BY <1>0, <1>1, <2>0, <2>1, <3>1, PowerOrder, PowerNext
    <3>3. p \in 0 .. q - 1
      BY <3>2
    <3>4. p % q = p
      BY <3>3, SmallMod
    <3>5. QED
      BY <1>3, <2>1, <3>4
  <2>4. QED
    BY <1>0, <2>0, <2>2, <2>3
<1>4. k = CHOOSE j \in 0 .. Bits - 1 : p % 2^j = 0 /\ Bit(p, j) = 1
  <2>1. p % 2^k = 0 /\ Bit(p, k) = 1
    BY <1>1, <1>2
  <2>2. QED
    BY <1>3, <2>1, Zenon
<1>5. Ffs(p) = 1 + CHOOSE j \in 0 .. Bits - 1 : p % 2^j = 0 /\ Bit(p, j) = 1
  <2>1. p # 0
    OBVIOUS
  <2>2. QED
    BY <2>1, Zenon DEF Ffs
<1>6. Ffs(p) = 1 + k
  BY <1>4, <1>5, Zenon
<1>7. QED
  BY <1>0, <1>1, <1>6
-----------------------------------------------------------------------------
(* The sizes of the identification.                                        *)

LEMMA Powers ==
  /\ 2^3 = 8 /\ 2^9 = 512 /\ 2^10 = 1024 /\ 2^11 = 2048 /\ 2^12 = 4096 /\ 2^13 = 8192
  /\ 2^16 = 65536 /\ 2^17 = 131072 /\ 2^18 = 262144 /\ 2^19 = 524288
  /\ 2^0 = 1 /\ 2^1 = 2 /\ 2^2 = 4 /\ 2^7 = 128 /\ 2^20 = 1048576
  BY SMT

LEMMA Room19 == 2^19 <= 2^(Bits - 1) /\ 2^Bits = 2 * 2^(Bits - 1) /\ 2^(Bits - 1) \in Nat \ {0}
<1>1. Bits - 1 \in Nat /\ 19 \in Nat /\ 19 <= Bits - 1 /\ (Bits - 1) + 1 = Bits
  BY BitsType, SMT
<1>2. PICK c \in Nat \ {0} : 2^(Bits - 1) = c * 2^19 /\ 2^19 <= 2^(Bits - 1)
  BY <1>1, PowerOrder
<1>3. 2^((Bits - 1) + 1) = 2 * 2^(Bits - 1) /\ 2^(Bits - 1) \in Nat \ {0}
  BY <1>1, PowerNext, PowerType
<1>4. QED
  BY <1>1, <1>2, <1>3

\* The shifts of the page and the block size of a device are 10 + e and 16 + f.
FoundShifts(id, e, f) ==
    /\ ExtPagesize(id) = 2^(10 + e)
    /\ ExtBlocksize(id) = 2^(16 + f)
    /\ ExtOobsize(id) \in 0 .. 256
    /\ ExtBlocksize(id) % ExtPagesize(id) = 0
    /\ ExtPagesize(id) \in {1024, 2048, 4096, 8192}
    /\ ExtBlocksize(id) \in {65536, 131072, 262144, 524288}

LEMMA FoundSizes ==
  ASSUME NEW id \in Ids
  PROVE  \E e \in 0 .. 3, f \in 0 .. 3 : FoundShifts(id, e, f)
<1>1. id.ext \in Nat
  BY IdentAssumption, SMT
<1>2. PICK e \in 0 .. 3 : e = id.ext % 4
  BY <1>1, SMT
<1>3. PICK f \in 0 .. 3 : f = (id.ext \div 16) % 4
  BY <1>1, SMT
<1>4. (e = 0 \/ e = 1 \/ e = 2 \/ e = 3) /\ (f = 0 \/ f = 1 \/ f = 2 \/ f = 3)
  BY SMT
<1>5. /\ ExtPagesize(id) = 1024 * 2^e
      /\ 1024 * 2^e = 2^(10 + e)
      /\ 1024 * 2^e \in {1024, 2048, 4096, 8192}
  <2>1. ExtPagesize(id) = 1024 * 2^e
    BY <1>2, SMT DEF ExtPagesize
  <2>2. CASE e = 0
    <3>1. 10 + e = 10
      BY <2>2, SMT
    <3>2. QED
      BY <2>1, <2>2, <3>1, Powers, SMT
  <2>3. CASE e = 1
    <3>1. 10 + e = 11
      BY <2>3, SMT
    <3>2. QED
      BY <2>1, <2>3, <3>1, Powers, SMT
  <2>4. CASE e = 2
    <3>1. 10 + e = 12
      BY <2>4, SMT
    <3>2. QED
      BY <2>1, <2>4, <3>1, Powers, SMT
  <2>5. CASE e = 3
    <3>1. 10 + e = 13
      BY <2>5, SMT
    <3>2. QED
      BY <2>1, <2>5, <3>1, Powers, SMT
  <2>6. QED
    BY <1>4, <2>2, <2>3, <2>4, <2>5, SMT
<1>6. /\ ExtBlocksize(id) = 65536 * 2^f
      /\ 65536 * 2^f = 2^(16 + f)
      /\ 65536 * 2^f \in {65536, 131072, 262144, 524288}
  <2>1. ExtBlocksize(id) = 65536 * 2^f
    BY <1>3, SMT DEF ExtBlocksize, KiB
  <2>2. CASE f = 0
    <3>1. 16 + f = 16
      BY <2>2, SMT
    <3>2. QED
      BY <2>1, <2>2, <3>1, Powers, SMT
  <2>3. CASE f = 1
    <3>1. 16 + f = 17
      BY <2>3, SMT
    <3>2. QED
      BY <2>1, <2>3, <3>1, Powers, SMT
  <2>4. CASE f = 2
    <3>1. 16 + f = 18
      BY <2>4, SMT
    <3>2. QED
      BY <2>1, <2>4, <3>1, Powers, SMT
  <2>5. CASE f = 3
    <3>1. 16 + f = 19
      BY <2>5, SMT
    <3>2. QED
      BY <2>1, <2>5, <3>1, Powers, SMT
  <2>6. QED
    BY <1>4, <2>2, <2>3, <2>4, <2>5, SMT
<1>7. PICK p \in {1024, 2048, 4096, 8192}, b \in {65536, 131072, 262144, 524288} :
        p = ExtPagesize(id) /\ b = ExtBlocksize(id)
  BY <1>5, <1>6, SMT
<1>8. b % p = 0
  BY SMT
<1>9. ExtOobsize(id) \in 0 .. 256
  <2>1. PICK c \in 0 .. 1 : c = Bit(id.ext, 2)
    BY <1>1, BitStep, SMT
  <2>2. 2^c \in {1, 2}
    <3>1. c = 0 \/ c = 1
      BY SMT
    <3>2. CASE c = 0
      BY <3>2, Powers, SMT
    <3>3. CASE c = 1
      BY <3>3, Powers, SMT
    <3>4. QED
      BY <3>1, <3>2, <3>3, SMT
  <2>3. PICK w \in {1, 2} : w = 2^c
    BY <2>2, SMT
  <2>4. p \div 512 \in {2, 4, 8, 16}
    BY SMT
  <2>5. ExtOobsize(id) = 8 * w * (p \div 512)
    BY <1>7, <2>1, <2>3, SMT DEF ExtOobsize
  <2>6. QED
    BY <2>3, <2>4, <2>5, SMT
<1>10. ExtPagesize(id) = 2^(10 + e) /\ ExtBlocksize(id) = 2^(16 + f)
  BY <1>5, <1>6, SMT
<1>11. /\ ExtPagesize(id) \in {1024, 2048, 4096, 8192}
       /\ ExtBlocksize(id) \in {65536, 131072, 262144, 524288}
  BY <1>7, SMT
<1>12. ExtBlocksize(id) % ExtPagesize(id) = 0
  BY <1>7, <1>8, SMT
<1>13. FoundShifts(id, e, f)
  BY <1>9, <1>10, <1>11, <1>12, SMT DEF FoundShifts
<1>14. QED
  BY <1>13, SMT
-----------------------------------------------------------------------------
(* The state.                                                              *)

ChipFields ==
    {"page_shift", "block_shift", "chip_shift", "pagemask", "pages_per_block",
     "row_cycles", "column_cycles", "freeoob_bytes", "badblockpos", "scan"}

ChipTyped(c) ==
    /\ DOMAIN c = ChipFields
    /\ c.page_shift \in {0} \cup 9 .. 13
    /\ c.chip_shift \in Nat
    /\ c.pagemask \in Int /\ c.pagemask >= -1
    /\ c.pages_per_block \in Nat

InfoType ==
    [pagesize : Nat, blocksize : Nat, chipsize : Nat, buswidth16 : Nat, chips : Nat,
     oobsize : Nat]

\* The sizes of info can be added to an offset or a length.
SizesFit(inf) ==
    /\ inf.pagesize + inf.oobsize <= 2^(Bits - 1) /\ inf.blocksize <= 2^(Bits - 1)
    /\ inf.chipsize <= 2^(Bits - 1)

\* The page sizes setinfo accepts, and the page mask it computes.
PagesKnown == {512, 2048, 4096}
MaskOf(m, p) == ((m * 1024) \div p) * 1024 - 1

\* What the fields of an identified chip are to its geometry.
Derived(c, inf) ==
    /\ inf.pagesize = 2^c.page_shift
    /\ inf.pagesize \in Nat \ {0}
    /\ c.pages_per_block * inf.pagesize = inf.blocksize
    /\ \/ c.pagemask = -1 /\ c.chip_shift = 7
       \/ /\ c.pagemask = MaskOf(inf.chipsize, inf.pagesize)
          /\ c.chip_shift = 20 + Ffs(inf.chipsize) - 1
          /\ inf.pagesize \in PagesKnown

LEMMA Found ==
  ASSUME NEW id \in Ids
  PROVE  /\ InfoFound(id) \in InfoType /\ SizesFit(InfoFound(id))
         /\ ChipTyped(ChipFound(id)) /\ Derived(ChipFound(id), InfoFound(id))
<1>0. PICK e \in 0 .. 3, f \in 0 .. 3 : FoundShifts(id, e, f)
  BY FoundSizes, SMT
<1>1. /\ ExtPagesize(id) = 2^(10 + e)
      /\ ExtBlocksize(id) = 2^(16 + f)
      /\ ExtOobsize(id) \in 0 .. 256
      /\ ExtBlocksize(id) % ExtPagesize(id) = 0
      /\ ExtPagesize(id) \in {1024, 2048, 4096, 8192}
      /\ ExtBlocksize(id) \in {65536, 131072, 262144, 524288}
  BY <1>0, SMT DEF FoundShifts
<1>2. PICK p \in {1024, 2048, 4096, 8192}, b \in {65536, 131072, 262144, 524288}, spare \in 0 .. 256 :
         p = ExtPagesize(id) /\ b = ExtBlocksize(id) /\ spare = ExtOobsize(id) /\ b % p = 0
  <2>1. PICK p \in {1024, 2048, 4096, 8192} : p = ExtPagesize(id)
    BY <1>1, SMT
  <2>2. PICK b \in {65536, 131072, 262144, 524288} : b = ExtBlocksize(id)
    BY <1>1, SMT
  <2>3. PICK spare \in 0 .. 256 : spare = ExtOobsize(id)
    BY <1>1, SMT
  <2>4. b % p = 0
    BY <1>1, <2>1, <2>2, SMT
  <2>5. QED
    BY <2>1, <2>2, <2>3, <2>4, SMTT(30)
<1>3. Ffs(p) = 11 + e /\ Ffs(b) = 17 + f /\ Ffs(128) = 8
  <2>1. 10 + e \in 0 .. Bits - 1 /\ 16 + f \in 0 .. Bits - 1 /\ 7 \in 0 .. Bits - 1
    BY BitsType, SMT
  <2>2. PICK k \in 0 .. Bits - 1, l \in 0 .. Bits - 1, j \in 0 .. Bits - 1 :
           k = 10 + e /\ l = 16 + f /\ j = 7
    BY <2>1, SMT
  <2>3. Ffs(2^k) = k + 1 /\ Ffs(2^l) = l + 1 /\ Ffs(2^j) = j + 1
    BY FfsPower, SMT
  <2>4. QED
    BY <1>1, <1>2, <2>2, <2>3, Powers, SMT
<1>4. /\ InfoFound(id).pagesize = p /\ InfoFound(id).blocksize = b
      /\ InfoFound(id).oobsize = spare /\ InfoFound(id).chipsize = 128
      /\ InfoFound(id) \in InfoType
  BY <1>2, SMT DEF InfoFound, TableChipsize, InfoType
<1>5. SizesFit(InfoFound(id))
  <2>1. p + spare <= 2^19 /\ b <= 2^19 /\ 128 <= 2^19
    BY Powers, SMT
  <2>2. QED
    BY <1>4, <2>1, Room19, Powers, SMT DEF SizesFit
<1>6. b \div p \in Nat /\ (b \div p) * p = b
  <2>1. b \in Nat /\ p \in Nat \ {0}
    BY SMT
  <2>2. b \div p \in Nat /\ b = (b \div p) * p + (b % p)
    BY <2>1, DivModNat, SMT
  <2>3. PICK q \in Nat : q = b \div p
    BY <2>2, SMT
  <2>4. b = q * p + 0
    BY <1>2, <2>2, <2>3, SMT
  <2>5. QED
    BY <2>3, <2>4, SMT
<1>7. 128 \div p = 0
  BY SMT
<1> DEFINE c == ChipFound(id)
<1>9. /\ c.page_shift = 10 + e /\ c.block_shift = 16 + f /\ c.chip_shift = 7
      /\ c.pagemask = -1 /\ c.pages_per_block = b \div p
  <2>1. /\ c.page_shift = Ffs(p) - 1 /\ c.block_shift = Ffs(b) - 1 /\ c.chip_shift = Ffs(128) - 1
        /\ c.pagemask = (128 \div p) - 1 /\ c.pages_per_block = b \div p
    BY <1>2, SMT DEF ChipFound, NoChip, TableChipsize
  <2>2. QED
    BY <1>3, <1>7, <2>1, SMT
<1>10. DOMAIN c = ChipFields
  <2>1. DOMAIN NoChip = ChipFields
    BY SMT DEF NoChip, ChipFields
  <2> HIDE DEF NoChip
  <2>2. QED
    BY <2>1, SMT DEF ChipFound
<1> HIDE DEF c
<1>11. ChipTyped(c)
  <2>1. 10 + e \in {0} \cup 9 .. 13
    BY SMT
  <2>2. QED
    BY <1>6, <1>9, <1>10, <2>1, SMT DEF ChipTyped
<1>12. Derived(c, InfoFound(id))
  <2>1. p = 2^c.page_shift
    BY <1>1, <1>2, <1>9, SMT
  <2>2. QED
    BY <1>4, <1>6, <1>9, <2>1, SMT DEF Derived
<1>13. QED
  BY <1>4, <1>5, <1>11, <1>12, SMT DEF c

InfoGiven(i) ==
    [pagesize |-> i.pagesize, blocksize |-> i.blocksize, chipsize |-> i.chipsize,
     buswidth16 |-> i.buswidth16, chips |-> i.chips, oobsize |-> (i.pagesize \div 512) * 16]

LEMMA Given ==
  ASSUME NEW i \in Infos, Supported(i), ChipTyped(chip)
  PROVE  /\ InfoGiven(i) \in InfoType /\ SizesFit(InfoGiven(i))
         /\ ChipTyped(ChipFrom(i)) /\ Derived(ChipFrom(i), InfoGiven(i))
<1>1. /\ i.pagesize \in {512, 2048, 4096} /\ i.blocksize \in Nat /\ i.chipsize \in Nat
      /\ i.buswidth16 \in Nat /\ i.chips \in Nat
      /\ i.blocksize % i.pagesize = 0
      /\ i.blocksize <= 2^(Bits - 1) /\ i.chipsize * 1024 <= 2^(Bits - 1)
  BY IdentAssumption, SMT DEF Supported, Words5
<1>2. PICK p \in {512, 2048, 4096}, b \in Nat, m \in Nat :
         p = i.pagesize /\ b = i.blocksize /\ m = i.chipsize
  BY <1>1, SMT
<1>3. PICK e \in {9, 11, 12} : p = 2^e /\ Ffs(p) = e + 1
  <2>1. 9 \in 0 .. Bits - 1 /\ 11 \in 0 .. Bits - 1 /\ 12 \in 0 .. Bits - 1
    BY BitsType, SMT
  <2>2. PICK k9 \in 0 .. Bits - 1, k11 \in 0 .. Bits - 1, k12 \in 0 .. Bits - 1 :
           k9 = 9 /\ k11 = 11 /\ k12 = 12
    BY <2>1, SMT
  <2>3. Ffs(2^k9) = k9 + 1 /\ Ffs(2^k11) = k11 + 1 /\ Ffs(2^k12) = k12 + 1
    BY FfsPower, SMT
  <2>4. CASE p = 512
    BY <2>2, <2>3, <2>4, Powers, SMT
  <2>5. CASE p = 2048
    BY <2>2, <2>3, <2>5, Powers, SMT
  <2>6. CASE p = 4096
    BY <2>2, <2>3, <2>6, Powers, SMT
  <2>7. QED
    BY <2>4, <2>5, <2>6, SMT
<1>4. Ffs(m) \in Nat
  <2>1. m \in 0 .. 2^Bits - 1
    BY <1>1, <1>2, Room19, SMT
  <2>2. QED
    BY <2>1, FfsType, BitsType, SMT
<1>5. InfoGiven(i) \in InfoType /\ InfoGiven(i).pagesize = p /\ InfoGiven(i).blocksize = b
      /\ InfoGiven(i).chipsize = m /\ InfoGiven(i).oobsize = (p \div 512) * 16
  <2>1. (p \div 512) * 16 \in Nat
    BY SMT
  <2>2. QED
    BY <1>1, <1>2, <2>1, SMT DEF InfoGiven, InfoType
<1>6. SizesFit(InfoGiven(i))
  <2>1. p + (p \div 512) * 16 <= 2^19
    BY Powers, SMT
  <2>2. QED
    BY <1>1, <1>2, <1>5, <2>1, Room19, SMT DEF SizesFit
<1>7. PICK q \in Nat : q = b \div p /\ q * p = b
  <2>1. p \in Nat \ {0} /\ b % p = 0
    BY <1>1, <1>2, SMT
  <2>2. b \div p \in Nat /\ b = (b \div p) * p + (b % p)
    BY <2>1, DivModNat, SMT
  <2>3. PICK r \in Nat : r = b \div p
    BY <2>2, SMT
  <2>4. b = r * p + 0
    BY <2>1, <2>2, <2>3, SMT
  <2>5. QED
    BY <2>3, <2>4, SMT
<1>8. PICK n \in Nat : n = (m * 1024) \div p
  BY SMT
<1> DEFINE c == ChipFrom(i)
<1>9. /\ c.page_shift = Ffs(p) - 1 /\ c.chip_shift = 20 + Ffs(m) - 1
      /\ c.pagemask = n * 1024 - 1 /\ c.pages_per_block = q
      /\ DOMAIN c = ChipFields
  BY <1>2, <1>7, <1>8, SMT DEF ChipFrom, ChipTyped, ChipFields
<1> HIDE DEF c
<1>10. ChipTyped(c)
  BY <1>3, <1>4, <1>9, SMT DEF ChipTyped
<1>11. Derived(c, InfoGiven(i))
  <2>1. c.page_shift = e
    BY <1>3, <1>9, SMT
  <2>2. p = 2^c.page_shift
    BY <1>3, <2>1
  <2>3. QED
    BY <1>5, <1>7, <1>8, <1>9, <2>2, SMT DEF Derived, MaskOf, PagesKnown
<1>12. QED
  BY <1>5, <1>6, <1>10, <1>11 DEF c

\* What the driver has been called with, as long as it is at it.
EraseCall(inf, c, offset, size) ==
    [op |-> "erase", offset |-> offset, size |-> size,
     first |-> Lludiv(offset, inf.blocksize) * c.pages_per_block,
     total |-> Lludiv(AlignUp(size, inf.blocksize), inf.blocksize),
     unit |-> inf.blocksize, chipnr |-> offset \div 2^c.chip_shift]

ReadCall(inf, c, offset, size, real) ==
    [op |-> "read", offset |-> offset, size |-> size,
     first |-> Masked(offset \div 2^c.page_shift, c.pagemask),
     total |-> PagesOf(size, real), unit |-> real,
     chipnr |-> offset \div 2^c.chip_shift]

WriteCall(inf, c, offset, size, real) ==
    [op |-> "write", offset |-> offset, size |-> size,
     first |-> Masked(offset \div 2^c.page_shift, c.pagemask),
     total |-> RoundsOf(size, real), unit |-> real,
     chipnr |-> offset \div 2^c.chip_shift]

Aligned(offset, size, block) == offset = AlignDown(offset, block) /\ size = AlignUp(size, block)

CallOf(inf, c, cl) ==
    \/ cl = NoCall
    \/ \E offset \in Offsets, size \in Lengths :
         \/ cl = EraseCall(inf, c, offset, size) /\ Aligned(offset, size, inf.blocksize)
         \/ \E real \in {inf.pagesize, inf.pagesize + inf.oobsize} :
              \/ cl = ReadCall(inf, c, offset, size, real)
              \/ cl = WriteCall(inf, c, offset, size, real)

DerivedIfIdentified(c, inf) == c.pages_per_block > 0 => Derived(c, inf)

IdentInv ==
    /\ started \in BOOLEAN
    /\ info \in InfoType /\ SizesFit(info)
    /\ ChipTyped(chip)
    /\ ~started => call = NoCall /\ chip = NoChip
    /\ DerivedIfIdentified(chip, info)
    /\ CallOf(info, chip, call)

LEMMA IdentStep ==
  ASSUME IdentInv, [Next]_vars
  PROVE  IdentInv'
<1>0. /\ info \in InfoType /\ SizesFit(info) /\ ChipTyped(chip)
      /\ DerivedIfIdentified(chip, info) /\ CallOf(info, chip, call)
      /\ started \in BOOLEAN /\ (~ started => chip = NoChip)
  BY DEF IdentInv
<1>1. ASSUME started' = TRUE, call' = NoCall,
             NEW inf, NEW c, info' = inf, chip' = c,
             inf \in InfoType, SizesFit(inf), ChipTyped(c), DerivedIfIdentified(c, inf)
      PROVE  IdentInv'
  <2>1. CallOf(inf, c, NoCall)
    BY Zenon DEF CallOf
  <2>2. CallOf(info', chip', call')
    BY <1>1, <2>1, Zenon
  <2>3. info' \in InfoType /\ SizesFit(info') /\ ChipTyped(chip')
        /\ DerivedIfIdentified(chip', info')
    BY <1>1, Zenon
  <2>4. started' \in BOOLEAN /\ (~ started' => call' = NoCall /\ chip' = NoChip)
    BY <1>1, Zenon
  <2>5. QED
    BY <2>2, <2>3, <2>4, Zenon DEF IdentInv
<1>2. ASSUME InitNotFound PROVE IdentInv'
  <2>1. call = NoCall
    BY <1>2, Zenon DEF InitNotFound, IdentInv
  <2>2. started' = TRUE /\ call' = NoCall /\ info' = info /\ chip' = chip
    BY <1>2, <2>1, Zenon DEF InitNotFound
  <2>3. QED
    BY <1>0, <1>1, <2>2, Zenon
<1>3. ASSUME NEW id \in Ids, InitBusWidth(id) PROVE IdentInv'
  <2> DEFINE inf == [InfoFound(id) EXCEPT !.chips = 0]
  <2>1. call = NoCall
    BY <1>3, Zenon DEF InitBusWidth, IdentInv
  <2>2. started' = TRUE /\ call' = NoCall /\ info' = inf /\ chip' = chip
    BY <1>3, <2>1, Zenon DEF InitBusWidth
  <2>3. InfoFound(id) \in InfoType /\ SizesFit(InfoFound(id))
    BY Found
  <2>4. inf \in InfoType /\ SizesFit(inf)
    BY <2>3, SMT DEF InfoType, SizesFit
  <2>5. DerivedIfIdentified(chip, inf)
    <3>1. chip = NoChip
      BY <1>3, Zenon DEF InitBusWidth, IdentInv
    <3>2. NoChip.pages_per_block = 0 /\ ~ (0 > 0)
      BY SMT DEF NoChip
    <3>3. QED
      BY <3>1, <3>2, Zenon DEF DerivedIfIdentified
  <2> HIDE DEF inf
  <2>6. QED
    BY <1>0, <1>1, <2>2, <2>4, <2>5, Zenon
<1>4. ASSUME NEW id \in Ids, InitFound(id) PROVE IdentInv'
  <2>1. call = NoCall
    BY <1>4, Zenon DEF InitFound, IdentInv
  <2>2. started' = TRUE /\ call' = NoCall /\ info' = InfoFound(id) /\ chip' = ChipFound(id)
    BY <1>4, <2>1, Zenon DEF InitFound
  <2>3. QED
    BY <1>1, <2>2, Found, Zenon DEF DerivedIfIdentified
<1>5. ASSUME NEW i \in Infos, SetInfo(i) PROVE IdentInv'
  <2>1. started' = TRUE /\ call' = NoCall
    <3>1. started /\ call = NoCall /\ started' = started /\ call' = call
      BY <1>5, Zenon DEF SetInfo
    <3>2. QED
      BY <1>0, <3>1, Zenon
  <2>2. CASE info' = info /\ chip' = chip
    BY <1>0, <1>1, <2>1, <2>2, Zenon
  <2>3. CASE Supported(i) /\ info' = InfoGiven(i) /\ chip' = ChipFrom(i)
    BY <1>0, <1>1, <2>1, <2>3, Given, Zenon DEF DerivedIfIdentified
  <2>4. QED
    BY <1>5, <2>2, <2>3, ZenonT(30) DEF SetInfo, InfoGiven
<1>6. ASSUME UNCHANGED <<started, info, chip>>, CallOf(info, chip, call'), started \/ call' = NoCall
      PROVE  IdentInv'
  <2>1. CallOf(info', chip', call')
    BY <1>6, Zenon
  <2>2. info' \in InfoType /\ SizesFit(info') /\ ChipTyped(chip')
        /\ DerivedIfIdentified(chip', info')
    BY <1>0, <1>6, Zenon
  <2>3. started' \in BOOLEAN /\ (~ started' => call' = NoCall /\ chip' = NoChip)
    BY <1>0, <1>6, Zenon
  <2>4. QED
    BY <2>1, <2>2, <2>3, Zenon DEF IdentInv
<1>7. ASSUME NEW offset \in Offsets, NEW size \in Lengths, Erase(offset, size) PROVE IdentInv'
  <2>1. call' = EraseCall(info, chip, offset, size) /\ Accepts(offset, size)
    BY <1>7, Zenon DEF Erase, EraseCall, Chipnr
  <2>2. CallOf(info, chip, call')
    BY <2>1, Zenon DEF CallOf, Accepts, Aligned
  <2>3. QED
    BY <1>6, <1>7, <2>2, Zenon DEF Erase
<1>8. ASSUME NEW offset \in Offsets, NEW size \in Lengths, NEW withoob \in BOOLEAN,
             Read(offset, size, withoob)
      PROVE  IdentInv'
  <2>1. call' = ReadCall(info, chip, offset, size, RealPageSize(withoob))
    BY <1>8, Zenon DEF Read, ReadCall, Chipnr
  <2>2. RealPageSize(withoob) \in {info.pagesize, info.pagesize + info.oobsize}
    BY Zenon DEF RealPageSize
  <2>3. CallOf(info, chip, call')
    BY <2>1, <2>2, Zenon DEF CallOf
  <2>4. QED
    BY <1>6, <1>8, <2>3, Zenon DEF Read
<1>9. ASSUME NEW offset \in Offsets, NEW size \in Lengths, NEW withoob \in BOOLEAN,
             Write(offset, size, withoob)
      PROVE  IdentInv'
  <2>1. call' = WriteCall(info, chip, offset, size, RealPageSize(withoob))
    BY <1>9, Zenon DEF Write, WriteCall, Chipnr
  <2>2. RealPageSize(withoob) \in {info.pagesize, info.pagesize + info.oobsize}
    BY Zenon DEF RealPageSize
  <2>3. CallOf(info, chip, call')
    BY <2>1, <2>2, Zenon DEF CallOf
  <2>4. QED
    BY <1>6, <1>9, <2>3, Zenon DEF Write
<1>10. ASSUME Return PROVE IdentInv'
  <2>1. CallOf(info, chip, NoCall)
    BY Zenon DEF CallOf
  <2>2. QED
    BY <1>6, <1>10, <2>1, Zenon DEF Return
<1>11. ASSUME UNCHANGED vars PROVE IdentInv'
  BY <1>0, <1>6, <1>11, Zenon DEF vars, IdentInv
<1>12. QED
  BY <1>2, <1>3, <1>4, <1>5, <1>7, <1>8, <1>9, <1>10, <1>11, Zenon
  DEF Next, PlatformInitNand, Commands

LEMMA IdentInvariant == Spec => []IdentInv
<1>1. Init => IdentInv
  <2> SUFFICES ASSUME Init PROVE IdentInv
    OBVIOUS
  <2>1. NoInfo \in InfoType /\ SizesFit(NoInfo)
    BY Room19, SMT DEF NoInfo, InfoType, SizesFit
  <2>2. ChipTyped(NoChip) /\ DerivedIfIdentified(NoChip, NoInfo)
    BY SMT DEF NoChip, ChipTyped, ChipFields, DerivedIfIdentified
  <2>3. CallOf(NoInfo, NoChip, NoCall)
    BY Zenon DEF CallOf
  <2>4. QED
    BY <2>1, <2>2, <2>3, Zenon DEF Init, IdentInv
<1>2. QED
  BY <1>1, IdentStep, PTL DEF Spec
-----------------------------------------------------------------------------
(* What follows from the invariant.                                        *)

\* The fields the driver derives agree with the geometry in force, for every
\* device that answers and every geometry that is given.
THEOREM GeometryCorrect == Spec => []GeometryAgrees
<1>1. ASSUME IdentInv PROVE GeometryAgrees
  BY <1>1, Zenon DEF IdentInv, GeometryAgrees, Identified, DerivedIfIdentified, Derived
<1>2. QED
  BY <1>1, IdentInvariant, PTL

LEMMA Fits ==
  ASSUME NEW x \in 0 .. 2^(Bits - 1) - 1, NEW size \in Nat, size <= 2^(Bits - 1)
  PROVE  x \in Nat /\ x + size <= 2^Bits /\ x + (size - 1) \in -1 .. 2^Bits - 1
  BY Room19, SMT

\* The number of units of a call is a number, or -1 for a division by zero.
LEMMA TotalType ==
  ASSUME IdentInv PROVE call.total \in Int /\ call.total >= -1
                        /\ call.op \in {"none", "erase", "read", "write"}
<1>1. info \in InfoType /\ SizesFit(info) /\ CallOf(info, chip, call)
  BY DEF IdentInv
<1>2. /\ info.blocksize \in Nat /\ info.pagesize \in Nat /\ info.oobsize \in Nat
      /\ info.blocksize <= 2^(Bits - 1)
      /\ info.pagesize <= 2^(Bits - 1) /\ info.pagesize + info.oobsize <= 2^(Bits - 1)
  BY <1>1, Room19, SMT DEF InfoType, SizesFit
<1>3. ASSUME NEW size \in Lengths, NEW real \in Nat, real <= 2^(Bits - 1)
      PROVE  AlignUp(size, real) \in Nat
  <2>1. size \in 0 .. 2^(Bits - 1) - 1
    BY IdentAssumption
  <2>2. size \in Nat /\ size + real <= 2^Bits
    BY <1>3, <2>1, Fits
  <2>3. QED
    BY <2>2, AlignUpBounds
<1>4. ASSUME NEW x \in Nat, NEW y \in Nat \ {0} PROVE x \div y \in Nat
  BY DivModNat
<1>5. CASE call = NoCall
  BY <1>5, SMT DEF NoCall
<1>6. ASSUME NEW offset \in Offsets, NEW size \in Lengths,
             call = EraseCall(info, chip, offset, size)
      PROVE  call.total \in Int /\ call.total >= -1 /\ call.op = "erase"
  <2>1. call.total = Lludiv(AlignUp(size, info.blocksize), info.blocksize) /\ call.op = "erase"
    BY <1>6 DEF EraseCall
  <2>2. AlignUp(size, info.blocksize) \in Nat
    BY <1>2, <1>3
  <2>3. QED
    BY <1>2, <1>4, <2>1, <2>2 DEF Lludiv, Forever
<1>7. ASSUME NEW offset \in Offsets, NEW size \in Lengths, NEW real \in Nat,
             real <= 2^(Bits - 1), call = ReadCall(info, chip, offset, size, real)
      PROVE  call.total \in Int /\ call.total >= -1 /\ call.op = "read"
  <2>1. call.total = PagesOf(size, real) /\ call.op = "read"
    BY <1>7 DEF ReadCall
  <2>2. AlignUp(size, real) \in Nat
    BY <1>3, <1>7
  <2>3. QED
    BY <1>4, <2>1, <2>2 DEF PagesOf, Uidiv
<1>8. ASSUME NEW offset \in Offsets, NEW size \in Lengths, NEW real \in Nat,
             call = WriteCall(info, chip, offset, size, real)
      PROVE  call.total \in Int /\ call.total >= -1 /\ call.op = "write"
  <2>1. call.total = RoundsOf(size, real) /\ call.op = "write"
    BY <1>8 DEF WriteCall
  <2>2. size \in Nat
    BY IdentAssumption, Room19, SMT
  <2>3. CASE size = 0
    BY <2>1, <2>3 DEF RoundsOf
  <2>4. CASE size # 0 /\ real = 0
    BY <2>1, <2>4 DEF RoundsOf, Forever
  <2>5. CASE size # 0 /\ real # 0
    <3>1. (size - 1) \div real \in Nat
      BY <1>4, <2>2, <2>5
    <3>2. QED
      BY <2>1, <2>5, <3>1 DEF RoundsOf
  <2>6. QED
    BY <2>3, <2>4, <2>5
<1>9. info.pagesize \in Nat /\ info.pagesize + info.oobsize \in Nat
  BY <1>2
<1>10. CASE \E offset \in Offsets, size \in Lengths :
             call = EraseCall(info, chip, offset, size)
  BY <1>6, <1>10
<1>11. CASE \E offset \in Offsets, size \in Lengths :
            \E real \in {info.pagesize, info.pagesize + info.oobsize} :
               call = ReadCall(info, chip, offset, size, real)
  BY <1>2, <1>7, <1>9, <1>11
<1>12. CASE \E offset \in Offsets, size \in Lengths :
            \E real \in {info.pagesize, info.pagesize + info.oobsize} :
               call = WriteCall(info, chip, offset, size, real)
  BY <1>2, <1>8, <1>9, <1>12
<1>13. QED
  BY <1>1, <1>5, <1>10, <1>11, <1>12, Zenon DEF CallOf

\* Type correctness.
THEOREM TypeCorrect == Spec => []TypeOK
<1>1. ASSUME IdentInv PROVE TypeOK
  <2>1. started \in BOOLEAN /\ info \in InfoType /\ ChipTyped(chip)
    BY <1>1 DEF IdentInv
  <2>2. DOMAIN chip = DOMAIN NoChip
    BY <2>1, SMT DEF ChipTyped, ChipFields, NoChip
  <2>3. call.total >= Forever /\ call.op \in {"none", "erase", "read", "write"}
    BY <1>1, TotalType DEF Forever
  <2>4. info \in [pagesize : Nat, blocksize : Nat, chipsize : Nat,
                  buswidth16 : Nat, chips : Nat, oobsize : Nat]
    BY <2>1 DEF InfoType
  <2>5. chip.page_shift \in {0} \cup 9 .. 13 /\ chip.pagemask >= -1
    BY <2>1 DEF ChipTyped
  <2>6. QED
    BY <2>1, <2>2, <2>3, <2>4, <2>5, Zenon DEF TypeOK
<1>2. QED
  BY <1>1, IdentInvariant, PTL

LEMMA PowerOf ==
  ASSUME NEW x \in Nat, x <= 2^(Bits - 1), IsPowerOfTwo(x)
  PROVE  \E k \in 0 .. Bits - 1 : x = 2^k /\ Ffs(x) = k + 1
<1>1. x \in 0 .. 2^Bits - 1 /\ x # 0
  BY Room19, SMT DEF IsPowerOfTwo
<1>2. Ffs(x) \in 0 .. Bits /\ Ffs(x) # 0
  BY <1>1, FfsType
<1>3. Ffs(x) - 1 \in 0 .. Bits - 1 /\ Ffs(x) = (Ffs(x) - 1) + 1
  BY <1>2, BitsType
<1>4. x = 2^(Ffs(x) - 1)
  BY DEF IsPowerOfTwo
<1>5. QED
  BY <1>3, <1>4, Zenon

\* With a block size that is a power of two, an erase that is accepted is one of
\* whole blocks.
LEMMA WholeBlocks ==
  ASSUME NEW offset \in Offsets, NEW size \in Lengths, NEW block \in Nat,
         block <= 2^(Bits - 1), IsPowerOfTwo(block), Aligned(offset, size, block)
  PROVE  /\ block \in Nat \ {0}
         /\ \E a, n \in Nat : offset = a * block /\ size = n * block
<1>1. PICK k \in 0 .. Bits - 1 : block = 2^k
  BY PowerOf
<1>2. k \in 0 .. Bits /\ block \in Nat \ {0}
  BY <1>1, BitsType DEF IsPowerOfTwo
<1>3. offset \in Nat /\ offset + (block - 1) \in 0 .. 2^Bits - 1
  <2>1. offset \in 0 .. 2^(Bits - 1) - 1
    BY IdentAssumption
  <2>2. offset \in Nat /\ offset + (block - 1) \in -1 .. 2^Bits - 1
    BY <2>1, Fits
  <2>3. QED
    BY <1>2, <2>2
<1>4. size \in Nat /\ size + (block - 1) \in 0 .. 2^Bits - 1
  <2>1. size \in 0 .. 2^(Bits - 1) - 1
    BY IdentAssumption
  <2>2. size \in Nat /\ size + (block - 1) \in -1 .. 2^Bits - 1
    BY <2>1, Fits
  <2>3. QED
    BY <1>2, <2>2
<1>5. offset = offset - (offset % block)
  BY <1>1, <1>2, <1>3, AlignPower DEF Aligned
<1>6. PICK y \in Nat : y = size + (block - 1)
  BY <1>2, <1>4
<1>7. size = y - (y % block)
  BY <1>1, <1>2, <1>4, <1>6, AlignPower DEF Aligned
<1>8. PICK a \in Nat, r \in 0 .. block - 1 : r = offset % block /\ offset = a * block + r
  <2>1. PICK x \in Nat : x = offset
    BY <1>3
  <2>2. PICK a \in Nat, r \in 0 .. block - 1 : r = x % block /\ x = a * block + r
    BY <1>2, DivModNat
  <2>3. QED
    BY <2>1, <2>2
<1>9. PICK n \in Nat, t \in 0 .. block - 1 : t = y % block /\ y = n * block + t
  BY <1>2, DivModNat
<1>10. offset = a * block
  BY <1>2, <1>3, <1>5, <1>8
<1>11. size = n * block
  BY <1>2, <1>7, <1>9
<1>12. QED
  BY <1>2, <1>10, <1>11

LEMMA Quotient ==
  ASSUME NEW a \in Nat, NEW d \in Nat \ {0} PROVE (a * d) \div d = a /\ (a * d) % d = 0
<1>1. a * d + 0 = a * d /\ 0 \in 0 .. d - 1
  OBVIOUS
<1>2. QED
  BY <1>1, DivModUnique

\* What the erase command is about to erase, read or write is exactly what it was
\* asked for: the number of its units times their size is the size given, for
\* whole units, also where the unit is a page with its spare area, which is no
\* power of two as _ALIGN_UP expects.
THEOREM TotalCorrect == Spec => []TotalExact
<1>1. ASSUME IdentInv PROVE TotalExact
  <2>0. /\ info \in InfoType /\ SizesFit(info) /\ CallOf(info, chip, call)
        /\ DerivedIfIdentified(chip, info)
    BY <1>1 DEF IdentInv
  <2>1. /\ info.blocksize \in Nat /\ info.pagesize \in Nat /\ info.oobsize \in Nat
        /\ info.blocksize <= 2^(Bits - 1)
        /\ info.pagesize <= 2^(Bits - 1) /\ info.pagesize + info.oobsize <= 2^(Bits - 1)
    BY <2>0, Room19, SMT DEF InfoType, SizesFit
  <2>2. CASE call = NoCall
    BY <2>2, Zenon DEF TotalExact, NoCall
  <2>3. ASSUME NEW offset \in Offsets, NEW size \in Lengths,
               call = EraseCall(info, chip, offset, size),
               Aligned(offset, size, info.blocksize)
        PROVE  TotalExact
    <3>1. /\ call.op = "erase" /\ call.offset = offset /\ call.size = size
          /\ call.unit = info.blocksize
          /\ call.total = Lludiv(AlignUp(size, info.blocksize), info.blocksize)
      BY <2>3 DEF EraseCall
    <3>2. CASE ~ PowersOfTwo
      BY <3>1, <3>2, Zenon DEF TotalExact
    <3>3. CASE PowersOfTwo
      <4>1. PICK block \in Nat : block = info.blocksize
        BY <2>1
      <4>2. block <= 2^(Bits - 1) /\ IsPowerOfTwo(block)
        BY <2>1, <3>3, <4>1 DEF PowersOfTwo
      <4>3. block \in Nat \ {0} /\ \E a, n \in Nat : offset = a * block /\ size = n * block
        <5>1. Aligned(offset, size, block)
          BY <2>3, <4>1, Zenon
        <5>2. block <= 2^(Bits - 1)
          BY <4>2
        <5>3. IsPowerOfTwo(block)
          BY <4>2
        <5>4. QED
          BY <5>1, <5>2, <5>3, WholeBlocks
      <4>4. PICK a, n \in Nat : offset = a * block /\ size = n * block
        BY <4>3
      <4>5. size \div block = n /\ offset % block = 0
        BY <4>3, <4>4, Quotient
      <4>6. call.total = n
        BY <2>3, <3>1, <4>1, <4>3, <4>5 DEF Lludiv, Aligned
      <4>7. call.total * call.unit = call.size /\ call.offset % call.unit = 0
        BY <3>1, <4>1, <4>4, <4>5, <4>6
      <4>8. QED
        BY <4>7, Zenon DEF TotalExact
    <3>4. QED
      BY <3>2, <3>3
  <2>4. ASSUME NEW size \in Lengths, NEW real \in Nat \ {0}, real <= 2^(Bits - 1),
               call.op # "erase", call.size = size, call.unit = real,
               \/ call.total = PagesOf(size, real)
               \/ call.total = RoundsOf(size, real)
        PROVE  TotalExact
    <3>1. CASE call.size % call.unit # 0
      <4>1. call.op \in {"none", "read", "write"}
        BY <1>1, <2>4, TotalType
      <4>2. QED
        BY <3>1, <4>1, Zenon DEF TotalExact
    <3>2. CASE call.size % call.unit = 0
      <4>1. size \in Nat /\ size + real <= 2^Bits
        <5>1. size \in 0 .. 2^(Bits - 1) - 1
          BY IdentAssumption
        <5>2. QED
          BY <2>4, <5>1, Fits
      <4>2. PICK n \in Nat : size = n * real
        <5>1. size % real = 0
          BY <2>4, <3>2
        <5>2. size \div real \in Nat /\ size = (size \div real) * real + (size % real)
          BY <4>1, DivModNat
        <5>3. PICK n \in Nat, r \in Nat : n = size \div real /\ r = size % real
          BY <5>1, <5>2
        <5>4. size = n * real + r /\ r = 0
          BY <5>1, <5>2, <5>3
        <5>5. size = n * real
          BY <5>4
        <5>6. QED
          BY <5>5
      <4>3. call.total * real = size
        <5>1. CASE call.total = PagesOf(size, real)
          <6>1. call.total = AlignUp(size, real) \div real
            BY <5>1 DEF PagesOf, Uidiv
          <6>2. (AlignUp(size, real) \div real) * real = size
            BY <2>4, <3>2, <4>1, PagesExact
          <6>3. QED
            BY <6>1, <6>2
        <5>2. CASE call.total = RoundsOf(size, real) /\ size = 0
          BY <5>2 DEF RoundsOf
        <5>3. CASE call.total = RoundsOf(size, real) /\ size # 0
          <6>1. n - 1 \in Nat
            BY <4>2, <5>3
          <6>2. size - 1 = (n - 1) * real + (real - 1) /\ real - 1 \in 0 .. real - 1
            <7>1. (n - 1) * real = n * real - real
              BY <6>1
            <7>2. QED
              BY <4>2, <7>1
          <6>3. (size - 1) \div real = n - 1
            <7>1. PICK q \in Int, r \in 0 .. real - 1 : q = n - 1 /\ r = real - 1
              BY <6>1, <6>2
            <7>2. (q * real + r) \div real = q
              BY DivModUnique
            <7>3. QED
              BY <6>2, <7>1, <7>2
          <6>4. call.total = n
            BY <5>3, <6>3 DEF RoundsOf
          <6>5. QED
            BY <4>2, <6>4
        <5>4. QED
          BY <2>4, <5>1, <5>2, <5>3
      <4>4. call.total * call.unit = call.size
        BY <2>4, <4>3
      <4>5. QED
        BY <2>4, <4>4, Zenon DEF TotalExact
    <3>3. QED
      BY <3>1, <3>2
  <2>5. CASE ~ Identified
    BY <2>5, Zenon DEF TotalExact
  <2>6. ASSUME Identified, NEW offset \in Offsets, NEW size \in Lengths,
               NEW real \in {info.pagesize, info.pagesize + info.oobsize},
               \/ call = ReadCall(info, chip, offset, size, real)
               \/ call = WriteCall(info, chip, offset, size, real)
        PROVE  TotalExact
    <3>1. info.pagesize \in Nat \ {0}
      BY <2>0, <2>6 DEF DerivedIfIdentified, Identified, Derived
    <3>2. real \in Nat \ {0} /\ real <= 2^(Bits - 1)
      BY <2>1, <3>1
    <3>3. call.size = size /\ call.unit = real /\ call.op # "erase"
      BY <2>6 DEF ReadCall, WriteCall
    <3>4. call.total = PagesOf(size, real) \/ call.total = RoundsOf(size, real)
      BY <2>6 DEF ReadCall, WriteCall
    <3>5. QED
      BY <2>4, <3>2, <3>3, <3>4
  <2>7. QED
    BY <2>0, <2>2, <2>3, <2>5, <2>6, Zenon DEF CallOf
<1>2. QED
  BY <1>1, IdentInvariant, PTL

\* The page mask of a geometry keeps every page of the device, for sizes that are
\* powers of two.
LEMMA MaskKeeps ==
  ASSUME NEW offset \in Nat, NEW j \in Nat, NEW p \in PagesKnown,
         offset \div KiB(1) < KiB(2^j)
  PROVE  Masked(offset \div p, MaskOf(2^j, p)) = offset \div p
<1>0. PICK m \in Nat, q \in Nat :
         m = 2^j /\ q = offset \div p /\ offset \div KiB(1) < KiB(m)
  <2>1. 2^j \in Nat
    BY PowerType
  <2>2. offset \div p \in Nat
    BY SMT DEF PagesKnown
  <2>3. QED
    BY <2>1, <2>2, Zenon
<1> SUFFICES Masked(q, MaskOf(m, p)) = q
  BY <1>0, Zenon
<1>1. PICK k \in Nat, n \in Nat \ {0} : n = p /\ n = 2^k
  <2>1. PICK n \in Nat \ {0} : n = p /\ n \in {512, 2048, 4096}
    BY SMT DEF PagesKnown
  <2>2. n = 2^9 \/ n = 2^11 \/ n = 2^12
    BY <2>1, Powers, SMT
  <2>3. \E k \in Nat : n = 2^k
    <3>1. 9 \in Nat /\ 11 \in Nat /\ 12 \in Nat
      BY SMT
    <3>2. QED
      BY <2>2, <3>1, Zenon
  <2>4. QED
    BY <2>1, <2>3
<1>2. PICK w \in Nat \ {0} : w = m * 1024
  <2>1. m \in Nat \ {0}
    BY <1>0, PowerType, SMT
  <2>2. QED
    BY <2>1, SMT
<1>3. PICK h \in Nat : w = 2^h
  <2>1. PICK t \in Nat : t = 10
    BY SMT
  <2>2. j + t \in Nat /\ 2^(j + t) = 2^j * 2^t
    BY PowerSum, SMT
  <2>3. 2^t = 1024
    BY <2>1, Powers, SMT
  <2>4. w = 2^(j + t)
    BY <1>0, <1>2, <2>2, <2>3, SMT
  <2>5. QED
    BY <2>2, <2>4
<1>4. w \div n \in Nat
  BY DivModNat
<1>5. CASE w < n
  <2>1. w \in 0 .. n - 1
    BY <1>5
  <2>2. w \div n = 0
    BY <2>1, SmallMod
  <2>3. MaskOf(m, p) = -1
    BY <1>1, <1>2, <2>2, SMT DEF MaskOf
  <2>4. QED
    BY <2>3, SMT DEF Masked
<1>6. CASE n <= w
  <2>1. k <= h
    <3>1. CASE h < k
      <4>1. h + 1 \in Nat /\ h + 1 <= k
        BY <3>1
      <4>2. 2^(h + 1) <= 2^k /\ 2^(h + 1) = 2 * w
        BY <1>3, <4>1, PowerOrder, PowerNext
      <4>3. QED
        BY <1>1, <1>6, <4>2
    <3>2. QED
      BY <3>1
  <2>2. PICK c \in Nat \ {0} : w = c * n
    <3>1. \E c \in Nat \ {0} : 2^h = c * 2^k /\ 2^k <= 2^h
      BY <2>1, PowerOrder
    <3>2. QED
      BY <1>1, <1>3, <3>1
  <2>3. w \div n = c
    BY <2>2, Quotient
  <2>4. MaskOf(m, p) = c * 1024 - 1
    BY <1>1, <1>2, <2>3, SMT DEF MaskOf
  <2>5. q \in Nat /\ q * n <= offset
    <3>1. offset \div n \in Nat /\ offset % n \in 0 .. n - 1
          /\ offset = (offset \div n) * n + (offset % n)
      BY DivModNat
    <3>2. PICK r \in Nat : r = offset % n
      BY <3>1
    <3>3. q = offset \div n
      BY <1>0, <1>1
    <3>4. offset = q * n + r /\ q \in Nat
      BY <3>1, <3>2, <3>3
    <3>5. q * n \in Nat
      BY <3>4
    <3>6. QED
      BY <3>4, <3>5
  <2>6. offset < w * 1024
    <3>1. PICK a \in Nat, r \in 0 .. 1023 : a = offset \div 1024 /\ offset = a * 1024 + r
      BY SMT
    <3>2. a < w
      <4>1. offset \div 1024 < m * 1024
        BY <1>0, SMT DEF KiB
      <4>2. QED
        BY <1>2, <3>1, <4>1, SMT
    <3>3. QED
      BY <3>1, <3>2, SMT
  <2>7. q < c * 1024
    <3>1. q * n < (c * 1024) * n
      <4>1. w * 1024 = (c * 1024) * n
        BY <2>2, SMT
      <4>2. q * n \in Nat
        BY <2>5
      <4>3. QED
        BY <2>5, <2>6, <4>1, <4>2, SMT
    <3>2. CASE c * 1024 <= q
      <4>1. PICK d \in Nat : d = c * 1024
        BY SMT
      <4>2. d * n <= q * n
        BY <2>5, <3>2, <4>1, ProductMonotonic
      <4>3. d * n \in Nat /\ q * n \in Nat /\ q * n < d * n
        BY <2>5, <3>1, <4>1
      <4>4. QED
        BY <4>2, <4>3
    <3>3. QED
      BY <2>5, <3>2, SMT
  <2>8. PICK d \in Nat \ {0} : d = c * 1024
    BY SMT
  <2>9. q \in 0 .. d - 1 /\ d - 1 # -1 /\ (d - 1) + 1 = d
    BY <2>5, <2>7, <2>8
  <2>10. Masked(q, d - 1) = q
    BY <2>9, SmallMod DEF Masked
  <2>11. QED
    BY <2>4, <2>8, <2>10
<1>7. QED
  BY <1>1, <1>5, <1>6

\* A command begins at the page of the offset it was given, and a geometry given
\* by setinfo addresses chip 0, for every device and every geometry whose block
\* and chip size are powers of two.
THEOREM AddressCorrect == Spec => []Addressed
<1>1. ASSUME IdentInv PROVE Addressed
  <2> SUFFICES ASSUME Identified, PowersOfTwo, call.op # "none",
                      call.offset \div KiB(1) < KiB(info.chipsize)
               PROVE  /\ call.first = call.offset \div info.pagesize
                      /\ chip.chip_shift >= 20 => call.chipnr = 0
    BY Zenon DEF Addressed
  <2>0. /\ info \in InfoType /\ SizesFit(info) /\ CallOf(info, chip, call)
        /\ Derived(chip, info) /\ ChipTyped(chip)
    BY <1>1 DEF IdentInv, DerivedIfIdentified, Identified
  <2>1. /\ info.blocksize \in Nat /\ info.chipsize \in Nat
        /\ info.blocksize <= 2^(Bits - 1) /\ info.chipsize <= 2^(Bits - 1)
        /\ info.pagesize \in Nat \ {0} /\ info.pagesize = 2^chip.page_shift
        /\ chip.pages_per_block * info.pagesize = info.blocksize
        /\ chip.pages_per_block \in Nat /\ chip.chip_shift \in Nat
    BY <2>0, SMT DEF InfoType, SizesFit, Derived, ChipTyped
  <2>2. PICK m \in Nat, page \in Nat \ {0}, block \in Nat, ppb \in Nat :
           /\ m = info.chipsize /\ page = info.pagesize /\ block = info.blocksize
           /\ ppb = chip.pages_per_block /\ ppb * page = block
    BY <2>1
  <2>3. IsPowerOfTwo(m) /\ IsPowerOfTwo(block)
    <3>1. IsPowerOfTwo(info.chipsize) /\ IsPowerOfTwo(info.blocksize)
      BY DEF PowersOfTwo
    <3>2. QED
      BY <2>2, <3>1
  <2>4. call # NoCall
    <3>1. NoCall.op = "none"
      BY SMT DEF NoCall
    <3>2. QED
      BY <3>1, Zenon
  <2>5. \E offset \in Offsets :
           /\ offset = call.offset
           /\ call.chipnr = offset \div 2^chip.chip_shift
           /\ \/ /\ call.first = Lludiv(offset, block) * ppb
                 /\ block \in Nat \ {0} /\ \E n \in Nat : offset = n * block
              \/ call.first = Masked(offset \div page, chip.pagemask)
    <3>1. ASSUME NEW offset \in Offsets, NEW size \in Lengths,
                 call = EraseCall(info, chip, offset, size), Aligned(offset, size, info.blocksize)
          PROVE  /\ offset = call.offset
                 /\ call.chipnr = offset \div 2^chip.chip_shift
                 /\ call.first = Lludiv(offset, block) * ppb
                 /\ block \in Nat \ {0} /\ \E n \in Nat : offset = n * block
      <4>1. /\ offset = call.offset
            /\ call.chipnr = offset \div 2^chip.chip_shift
            /\ call.first = Lludiv(offset, info.blocksize) * chip.pages_per_block
        BY <3>1, Zenon DEF EraseCall
      <4>2. block <= 2^(Bits - 1)
        BY <2>1, <2>2
      <4>3. Aligned(offset, size, block)
        BY <2>2, <3>1
      <4>4. block \in Nat \ {0} /\ \E a, n \in Nat : offset = a * block /\ size = n * block
        <5>1. IsPowerOfTwo(block) /\ block \in Nat
          BY <2>3
        <5>2. QED
          BY <4>2, <4>3, <5>1, WholeBlocks
      <4>5. QED
        BY <2>2, <4>1, <4>4, Zenon
    <3>2. ASSUME NEW offset \in Offsets, NEW size \in Lengths,
                 NEW real \in {info.pagesize, info.pagesize + info.oobsize},
                 \/ call = ReadCall(info, chip, offset, size, real)
                 \/ call = WriteCall(info, chip, offset, size, real)
          PROVE  /\ offset = call.offset
                 /\ call.chipnr = offset \div 2^chip.chip_shift
                 /\ call.first = Masked(offset \div page, chip.pagemask)
      <4>1. /\ offset = call.offset
            /\ call.chipnr = offset \div 2^chip.chip_shift
            /\ call.first = Masked(offset \div 2^chip.page_shift, chip.pagemask)
        <5>1. CASE call = ReadCall(info, chip, offset, size, real)
          BY <5>1, Zenon DEF ReadCall
        <5>2. CASE call = WriteCall(info, chip, offset, size, real)
          BY <5>2, Zenon DEF WriteCall
        <5>3. QED
          BY <3>2, <5>1, <5>2, Zenon
      <4>2. QED
        BY <2>1, <2>2, <4>1, Zenon
    <3>3. QED
      BY <2>0, <2>4, <3>1, <3>2, Zenon DEF CallOf
  <2>6. PICK offset \in Offsets :
           /\ offset = call.offset
           /\ call.chipnr = offset \div 2^chip.chip_shift
           /\ \/ /\ call.first = Lludiv(offset, block) * ppb
                 /\ block \in Nat \ {0} /\ \E n \in Nat : offset = n * block
              \/ call.first = Masked(offset \div page, chip.pagemask)
    BY <2>5, Zenon
  <2>7. offset \in Nat /\ offset \div KiB(1) < KiB(m) /\ offset \div 1024 < m * 1024
    <3>1. offset \in Nat
      BY IdentAssumption, Room19, SMT
    <3>2. call.offset \div KiB(1) < KiB(m)
      BY <2>2, Zenon
    <3>3. QED
      BY <2>6, <3>1, <3>2, SMT DEF KiB
  <2>8. PICK j \in Nat : m = 2^j /\ Ffs(m) = j + 1
    <3>1. m <= 2^(Bits - 1)
      BY <2>1, <2>2
    <3>2. PICK k \in 0 .. Bits - 1 : m = 2^k /\ Ffs(m) = k + 1
      BY <2>3, <3>1, PowerOf
    <3>3. QED
      BY <3>2
  <2>9. call.first = offset \div page
    <3>1. CASE call.first = Lludiv(offset, block) * ppb /\ block \in Nat \ {0}
               /\ \E n \in Nat : offset = n * block
      <4>1. PICK n \in Nat : offset = n * block
        BY <3>1
      <4>2. offset \div block = n
        BY <3>1, <4>1, Quotient
      <4>3. call.first = n * ppb
        BY <3>1, <4>2 DEF Lludiv
      <4>4. offset = (n * ppb) * page /\ n * ppb \in Nat
        BY <2>2, <4>1
      <4>5. PICK a \in Nat : a = n * ppb
        BY <4>4
      <4>6. (a * page) \div page = a
        BY Quotient
      <4>7. QED
        BY <4>3, <4>4, <4>5, <4>6
    <3>2. CASE call.first = Masked(offset \div page, chip.pagemask) /\ chip.pagemask = -1
      BY <3>2 DEF Masked
    <3>3. CASE /\ call.first = Masked(offset \div page, chip.pagemask)
               /\ chip.pagemask = MaskOf(m, page) /\ page \in PagesKnown
      <4>1. PICK q : q = offset \div page
        OBVIOUS
      <4>2. Masked(q, MaskOf(m, page)) = q
        <5>1. offset \in Nat /\ offset \div KiB(1) < KiB(m)
          BY <2>7
        <5>2. m = 2^j
          BY <2>8
        <5>3. QED
          <6>1. offset \in Nat /\ offset \div KiB(1) < KiB(2^j)
            BY <5>1, <5>2, Zenon
          <6>2. page \in PagesKnown
            BY <3>3
          <6>3. Masked(offset \div page, MaskOf(2^j, page)) = offset \div page
            BY <6>1, <6>2, MaskKeeps, Zenon
          <6>4. QED
            BY <4>1, <5>2, <6>3, Zenon
      <4>3. QED
        BY <3>3, <4>1, <4>2
    <3>4. \/ chip.pagemask = -1
          \/ chip.pagemask = MaskOf(m, page) /\ page \in PagesKnown
      <4>1. \/ chip.pagemask = -1
            \/ chip.pagemask = MaskOf(info.chipsize, info.pagesize) /\ info.pagesize \in PagesKnown
        BY <2>0, SMT DEF Derived
      <4>2. m = info.chipsize /\ page = info.pagesize
        BY <2>2
      <4>3. QED
        BY <4>1, <4>2, Zenon
    <3>5. QED
      BY <2>6, <3>1, <3>2, <3>3, <3>4, Zenon
  <2>10. chip.chip_shift >= 20 => call.chipnr = 0
    <3> SUFFICES ASSUME chip.chip_shift >= 20 PROVE call.chipnr = 0
      OBVIOUS
    <3>1. chip.chip_shift = 20 + j
      <4>1. chip.chip_shift = 7 \/ chip.chip_shift = 20 + Ffs(info.chipsize) - 1
        BY <2>0 DEF Derived
      <4>2. ~ (7 >= 20)
        BY SMT
      <4>3. chip.chip_shift = 20 + Ffs(info.chipsize) - 1
        BY <4>1, <4>2, Zenon
      <4>4. chip.chip_shift = 20 + Ffs(m) - 1
        BY <2>2, <4>3, Zenon
      <4>5. QED
        BY <2>8, <4>4, SMT
    <3>2. PICK c \in Nat : c = 20
      BY SMT
    <3>3. c + j \in Nat /\ 2^(c + j) = 2^c * 2^j
      BY PowerSum
    <3>4. 2^c = 1024 * 1024
      BY <3>2, Powers, SMT
    <3>5. PICK n \in Nat : n = 2^(c + j) /\ n = 1024 * 1024 * m
      BY <2>8, <3>3, <3>4, SMT
    <3>6. offset < n
      <4>1. PICK a \in Nat, r \in 0 .. 1023 : a = offset \div 1024 /\ offset = a * 1024 + r
        BY <2>7, SMT
      <4>2. a < m * 1024
        BY <2>7, <4>1, SMT
      <4>3. QED
        BY <3>5, <4>1, <4>2, SMT
    <3>7. offset \in 0 .. n - 1 /\ n \in Nat \ {0}
      BY <2>7, <3>5, <3>6
    <3>8. offset \div n = 0
      BY <3>7, SmallMod
    <3>9. n = 2^chip.chip_shift
      BY <3>1, <3>2, <3>5
    <3>10. QED
      BY <2>6, <3>8, <3>9
  <2>11. QED
    BY <2>2, <2>6, <2>9, <2>10, Zenon
<1>2. QED
  BY <1>1, IdentInvariant, PTL
=============================================================================
