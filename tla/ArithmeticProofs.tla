-------------------------- MODULE ArithmeticProofs --------------------------
(***************************************************************************)
(* Proofs about the division routines and about numbers in text: every     *)
(* quotient and remainder is exact, for registers of every width and all   *)
(* operands, and every text is taken for the number it is, for integers of *)
(* every width.                                                            *)
(***************************************************************************)
EXTENDS Division, NumberText, NatLemmas, SequenceTheorems

LEMMA WidthType ==
  /\ Width \in Nat \ {0} /\ Width - 1 \in Nat
  /\ 2^Width \in Nat \ {0} /\ 2^(Width - 1) \in Nat \ {0}
  /\ 2^Width = 2 * 2^(Width - 1)
  /\ Operands \subseteq 0 .. 2^Width - 1
<1>1. PICK w \in Nat : w = Width - 1 /\ Width = w + 1
  <2>1. Width - 1 \in Nat /\ Width = (Width - 1) + 1
    BY DivisionAssumption
  <2>2. QED
    BY <2>1
<1>2. 2^(w + 1) = 2 * 2^w /\ 2^w \in Nat \ {0} /\ 2^(w + 1) \in Nat \ {0}
  BY PowerNext, PowerType
<1>3. QED
  BY <1>1, <1>2, DivisionAssumption

LEMMA PowerOrder ==
  ASSUME NEW k \in Nat, NEW n \in Nat, k <= n
  PROVE  2^k <= 2^n
<1>1. PICK d \in Nat : n = k + d
  <2>1. n - k \in Nat /\ n = k + (n - k)
    OBVIOUS
  <2>2. QED
    BY <2>1
<1>2. PICK c \in Nat \ {0} : c = 2^d
  BY PowerType
<1>3. PICK p \in Nat \ {0} : p = 2^k
  BY PowerType
<1>4. 2^n = p * c
  BY <1>1, <1>2, <1>3, PowerSum
<1>5. p <= p * c
  OBVIOUS
<1>6. QED
  BY <1>3, <1>4, <1>5

-----------------------------------------------------------------------------
(* Leading zeros and shifts.                                               *)

\* Clz finds the first bit: bit l.
LEMMA FirstBit ==
  ASSUME NEW x \in 1 .. 2^Width - 1
  PROVE  \E l \in 0 .. Width - 1 : Clz(x) = Width - 1 - l /\ 2^l <= x /\ x < 2^(l + 1)
<1> DEFINE T == {s \in Nat : x < 2^s}
<1>0. x \in Nat /\ x >= 1 /\ x < 2^Width /\ Width \in Nat \ {0}
  BY WidthType
<1>1. T \in SUBSET Nat /\ Width \in T
  BY <1>0
<1>2. PICK s \in T : \A y \in T : s <= y
  <2> HIDE DEF T
  <2>1. QED
    BY <1>1, LeastNumber
<1>3. s \in Nat /\ x < 2^s /\ s <= Width
  BY <1>1, <1>2
<1>4. s # 0
  <2>1. 2^0 = 1
    OBVIOUS
  <2>2. ~(x < 2^0)
    BY <1>0, <2>1
  <2>3. QED
    BY <1>3, <2>2, Zenon
<1>5. PICK l \in Nat : s = l + 1
  <2>1. s - 1 \in Nat /\ s = (s - 1) + 1
    BY <1>3, <1>4
  <2>2. QED
    BY <2>1
<1>6. 2^l <= x
  <2>1. l \notin T
    <3>1. ~(s <= l)
      BY <1>5
    <3>2. QED
      BY <1>2, <3>1
  <2>2. 2^l \in Nat
    BY PowerType
  <2>3. QED
    BY <1>0, <2>1, <2>2
<1> DEFINE Leading(n) == x < 2^(Width - n) /\ (n < Width => x >= 2^(Width - n - 1))
<1>7. Leading(Width - s) /\ Width - s \in 0 .. Width
  <2>1. Width - (Width - s) = s /\ (Width - (Width - s)) - 1 = l /\ Width - s \in 0 .. Width
    BY <1>0, <1>3, <1>5
  <2>2. QED
    BY <1>3, <1>6, <2>1
<1>8. Clz(x) \in 0 .. Width /\ Leading(Clz(x))
  <2>1. \E n \in 0 .. Width : Leading(n)
    BY <1>7
  <2>2. QED
    BY <2>1, Zenon DEF Clz
<1>9. PICK c \in 0 .. Width : c = Clz(x) /\ Leading(c)
  BY <1>8
<1>10. c # Width
  <2>1. Width - Width = 0 /\ 2^0 = 1
    BY <1>0
  <2>2. ~(x < 2^(Width - Width))
    BY <1>0, <2>1
  <2>3. QED
    BY <1>9, <2>2, Zenon
<1>11. PICK k \in 0 .. Width - 1 : c = Width - 1 - k
  <2>1. Width - 1 - c \in 0 .. Width - 1 /\ c = Width - 1 - (Width - 1 - c)
    BY <1>0, <1>10
  <2>2. QED
    BY <2>1
<1>12. Width - c = k + 1 /\ Width - c - 1 = k /\ c < Width
  BY <1>0, <1>11
<1>13. QED
  BY <1>9, <1>11, <1>12

\* The shift that puts the first bit of n under that of a larger m.
LEMMA Aligned ==
  ASSUME NEW m \in 1 .. 2^Width - 1, NEW n \in 1 .. 2^Width - 1, n < m
  PROVE  \E s \in 0 .. Width - 1 :
            Clz(n) - Clz(m) = s /\ m < 2 * (n * 2^s) /\ n * 2^s < 2^Width
<1>0. Width \in Nat \ {0} /\ n \in Nat /\ m \in Nat
  BY WidthType
<1>1. PICK k \in 0 .. Width - 1 : Clz(m) = Width - 1 - k /\ 2^k <= m /\ m < 2^(k + 1)
  BY FirstBit
<1>2. PICK l \in 0 .. Width - 1 : Clz(n) = Width - 1 - l /\ 2^l <= n /\ n < 2^(l + 1)
  BY FirstBit
<1>3. k \in Nat /\ l \in Nat
  BY <1>0
<1>4. 2^(k + 1) = 2 * 2^k /\ 2^(l + 1) = 2 * 2^l /\ 2^k \in Nat \ {0} /\ 2^l \in Nat \ {0}
  BY <1>3, PowerNext, PowerType
<1>5. l <= k
  <2> SUFFICES ASSUME ~(l <= k) PROVE FALSE
    OBVIOUS
  <2>1. k + 1 \in Nat /\ k + 1 <= l
    BY <1>3
  <2>2. 2^(k + 1) <= 2^l
    BY <1>3, <2>1, PowerOrder
  <2>3. QED
    BY <1>0, <1>1, <1>2, <1>4, <2>2
<1>6. PICK s \in Nat : k = l + s
  <2>1. k - l \in Nat /\ k = l + (k - l)
    BY <1>3, <1>5
  <2>2. QED
    BY <2>1
<1>7. PICK p \in Nat \ {0}, q \in Nat \ {0}, z \in Nat :
         p = 2^l /\ q = 2^s /\ z = n * q
  BY <1>3, <1>4, PowerType
<1>8. 2^k = p * q
  BY <1>3, <1>6, <1>7, PowerSum
<1>9. p <= n /\ n + 1 <= 2 * p
  BY <1>0, <1>2, <1>4, <1>7
<1>10. p * q <= n * q /\ (n + 1) * q <= (2 * p) * q
  <2>1. PICK u \in Nat, v \in Nat : u = n + 1 /\ v = 2 * p
    BY <1>0
  <2>2. p * q <= n * q
    BY <1>0, <1>9, ProductMonotonic
  <2>3. u * q <= v * q
    BY <1>9, <2>1, ProductMonotonic
  <2>4. QED
    BY <2>1, <2>2, <2>3
<1>11. PICK y \in Nat : y = p * q
  OBVIOUS
<1>12. (n + 1) * q = z + q /\ (2 * p) * q = 2 * y
  BY <1>0, <1>7, <1>11
<1>13. m < 2 * y /\ y <= z /\ z + q <= 2 * y
  BY <1>1, <1>4, <1>7, <1>8, <1>10, <1>11, <1>12
<1>14. 2 * y <= 2^Width
  <2>1. k + 1 \in Nat /\ k + 1 <= Width
    BY <1>0
  <2>2. 2^(k + 1) <= 2^Width
    BY <1>0, <2>1, PowerOrder
  <2>3. QED
    BY <1>4, <1>8, <1>11, <2>2
<1>15. s \in 0 .. Width - 1 /\ Clz(n) - Clz(m) = s
  BY <1>0, <1>1, <1>2, <1>3, <1>6
<1>16. m < 2 * z /\ z < 2^Width
  BY <1>0, <1>13, <1>14, WidthType
<1>17. QED
  BY <1>7, <1>15, <1>16

LEMMA LsrType ==
  ASSUME NEW x \in Nat, NEW k \in Nat
  PROVE  Lsr(x, k) \in Nat /\ Lsr(x, k) <= x
<1>1. PICK p \in Nat \ {0} : p = 2^k
  BY PowerType
<1>2. PICK q \in Nat, r \in 0 .. p - 1 : q = x \div p /\ x = q * p + r
  BY DivModNat
<1>3. q <= q * p
  OBVIOUS
<1>4. PICK z \in Nat : z = q * p
  OBVIOUS
<1>5. q <= x
  BY <1>2, <1>3, <1>4
<1>6. QED
  BY <1>1, <1>2, <1>5 DEF Lsr

\* A shifted product shifts back, and a small power is shifted out.
LEMMA LsrBack ==
  ASSUME NEW n \in Nat, NEW s \in Nat, NEW k \in Nat, k <= s
  PROVE  Lsr(n * 2^s, k) = n * 2^(s - k)
<1>1. PICK d \in Nat : d = s - k /\ s = d + k
  BY SMT
<1>2. PICK p \in Nat \ {0}, q \in Nat \ {0} : p = 2^k /\ q = 2^d
  BY PowerType
<1>3. 2^s = q * p
  BY <1>1, <1>2, PowerSum
<1>4. PICK z \in Nat : z = n * q
  OBVIOUS
<1>5. n * (q * p) = z * p + 0
  BY <1>4
<1>6. (z * p + 0) \div p = z
  BY DivModUnique
<1>7. QED
  BY <1>1, <1>2, <1>3, <1>4, <1>5, <1>6 DEF Lsr

LEMMA LsrOut ==
  ASSUME NEW s \in Nat, NEW k \in Nat, s < k
  PROVE  Lsr(2^s, k) = 0
<1>1. PICK p \in Nat \ {0}, q \in Nat \ {0} : p = 2^k /\ q = 2^s
  BY PowerType
<1>2. 2 * q <= p
  <2>1. s + 1 \in Nat /\ s + 1 <= k
    OBVIOUS
  <2>2. 2^(s + 1) = 2 * 2^s /\ 2^(s + 1) <= 2^k
    BY <2>1, PowerNext, PowerOrder
  <2>3. QED
    BY <1>1, <2>2
<1>3. (0 * p + q) \div p = 0 /\ 0 * p + q = q
  <2>1. q \in 0 .. p - 1
    BY <1>2
  <2>2. (0 * p + q) \div p = 0
    BY <2>1, DivModUnique
  <2>3. QED
    BY <2>2
<1>4. QED
  BY <1>1, <1>3 DEF Lsr

-----------------------------------------------------------------------------
(* One pass.                                                               *)

Settling == [rest : Nat, bits : Nat]

\* What a place never does.
LEMMA SettleType ==
  ASSUME divisor \in Nat, curbit \in Nat, NEW acc \in Settling, NEW k \in Nat
  PROVE  /\ Settle(acc, k) \in Settling
         /\ Settle(acc, k).rest <= acc.rest
         /\ Lsr(curbit, k) = 0 => Settle(acc, k).bits = acc.bits
<1>1. PICK d \in Nat, c \in Nat : d = Lsr(divisor, k) /\ c = Lsr(curbit, k)
  BY LsrType
<1>2. PICK r \in Nat, t \in Nat : acc = [rest |-> r, bits |-> t]
  BY DEF Settling
<1>3. Settle(acc, k) = IF r >= d THEN [rest |-> r - d, bits |-> t + c] ELSE acc
  BY <1>1, <1>2 DEF Settle
<1>4. CASE r >= d
  <2>1. Settle(acc, k) = [rest |-> r - d, bits |-> t + c]
    BY <1>3, <1>4
  <2>2. PICK x \in Nat, y \in Nat : x = r - d /\ y = t + c
    BY <1>4
  <2>3. x <= r /\ (c = 0 => y = t)
    BY <2>2
  <2>4. QED
    BY <1>1, <1>2, <2>1, <2>2, <2>3 DEF Settling
<1>5. CASE ~(r >= d)
  BY <1>2, <1>3, <1>5
<1>6. QED
  BY <1>4, <1>5

\* The place of n * p, with the multiple q of n that has been taken from m before
\* and the multiple x after it.
Due(m, n, acc, k, p, q) ==
    Lsr(divisor, k) = n * p /\ m = n * q + acc.rest /\ acc.rest < 2 * (n * p)
Done(m, n, acc, k, p, q, x) ==
    /\ m = n * x + Settle(acc, k).rest
    /\ Settle(acc, k).rest < n * p
    /\ (Lsr(curbit, k) = p /\ q = acc.bits) => x = Settle(acc, k).bits

LEMMA SettleRight ==
  ASSUME divisor \in Nat, curbit \in Nat, NEW acc \in Settling, NEW k \in Nat,
         NEW m \in Nat, NEW n \in Nat, NEW p \in Nat, NEW q \in Nat,
         Due(m, n, acc, k, p, q)
  PROVE  \E x \in Nat : Done(m, n, acc, k, p, q, x)
<1> USE DEF Due, Done
<1>1. PICK d \in Nat, c \in Nat : d = Lsr(divisor, k) /\ c = Lsr(curbit, k) /\ d = n * p
  BY LsrType
<1>2. PICK r \in Nat, t \in Nat : acc = [rest |-> r, bits |-> t]
  BY DEF Settling
<1>3. Settle(acc, k) = IF r >= d THEN [rest |-> r - d, bits |-> t + c] ELSE acc
  BY <1>1, <1>2 DEF Settle
<1>4. PICK z \in Nat : z = n * q /\ m = z + r /\ r < 2 * d
  BY <1>1, <1>2
<1>5. CASE r >= d
  <2>1. Settle(acc, k).rest = r - d /\ Settle(acc, k).bits = t + c
    BY <1>3, <1>5
  <2>2. n * (q + p) = z + d
    BY <1>1, <1>4
  <2>3. m = n * (q + p) + (r - d) /\ r - d < d
    BY <1>4, <2>2
  <2>4. (c = p /\ q = t) => q + p = t + c
    OBVIOUS
  <2>5. q + p \in Nat
    OBVIOUS
  <2>6. acc.bits = t
    BY <1>2
  <2>7. QED
    BY <1>1, <2>1, <2>3, <2>4, <2>5, <2>6
<1>6. CASE ~(r >= d)
  <2>1. Settle(acc, k) = acc
    BY <1>3, <1>6
  <2>2. acc.rest = r /\ r < d
    BY <1>2, <1>6
  <2>3. acc.rest < n * p
    BY <1>1, <2>2
  <2>4. QED
    BY <2>1, <2>3, Zenon
<1>7. QED
  BY <1>5, <1>6

\* The divisor of a pass is n at place s, and what is left of the dividend m is
\* less than twice that.
PassMod(m, n, dd, ds, s) ==
    ds = n * 2^s /\ dd < 2 * ds /\ \E q \in Nat : m = n * q + dd
PassDiv(m, n, dd, ds, r, c, s) ==
    ds = n * 2^s /\ dd < 2 * ds /\ m = n * r + dd /\ c = 2^s

\* The first places of a pass, as far as there are any: after place s - k the
\* rest is less than the divisor there.
Left(m, n, acc, p) == acc.rest < n * p /\ \E q \in Nat : m = n * q + acc.rest
LeftDiv(m, n, acc, p) == acc.rest < n * p /\ m = n * acc.bits + acc.rest

LEMMA PlaceMod ==
  ASSUME divisor \in Nat, curbit \in Nat, NEW acc \in Settling,
         NEW m \in Nat, NEW n \in Nat, NEW s \in Nat, NEW k \in 0 .. s,
         divisor = n * 2^s, Left(m, n, acc, 2 * 2^(s - k))
  PROVE  Left(m, n, Settle(acc, k), 2^(s - k))
<1>0. k \in Nat /\ k <= s
  OBVIOUS
<1>1. PICK p \in Nat : p = 2^(s - k)
  BY <1>0, PowerType
<1>2. Lsr(divisor, k) = n * p
  BY <1>0, <1>1, LsrBack
<1>3. PICK q \in Nat : m = n * q + acc.rest
  BY DEF Left
<1>4. acc.rest < 2 * (n * p)
  <2>1. n * (2 * p) = 2 * (n * p)
    OBVIOUS
  <2>2. acc.rest < n * (2 * p)
    BY <1>1 DEF Left
  <2>3. QED
    BY <2>1, <2>2
<1>5. Due(m, n, acc, k, p, q)
  BY <1>2, <1>3, <1>4, Zenon DEF Due
<1>6. PICK x \in Nat : Done(m, n, acc, k, p, q, x)
  BY <1>0, <1>5, SettleRight
<1>7. QED
  BY <1>1, <1>6, Zenon DEF Left, Done

LEMMA PlaceDiv ==
  ASSUME divisor \in Nat, NEW acc \in Settling,
         NEW m \in Nat, NEW n \in Nat, NEW s \in Nat, NEW k \in 0 .. s,
         divisor = n * 2^s, curbit = 2^s, LeftDiv(m, n, acc, 2 * 2^(s - k))
  PROVE  LeftDiv(m, n, Settle(acc, k), 2^(s - k))
<1>0. k \in Nat /\ k <= s
  OBVIOUS
<1>1. PICK p \in Nat : p = 2^(s - k)
  BY <1>0, PowerType
<1>2. Lsr(divisor, k) = n * p
  BY <1>0, <1>1, LsrBack
<1>3. Lsr(curbit, k) = p /\ curbit \in Nat
  <2>1. Lsr(1 * 2^s, k) = 1 * 2^(s - k)
    BY <1>0, LsrBack, ZenonT(30)
  <2>2. PICK y \in Nat : y = 2^s
    BY PowerType
  <2>3. 1 * y = y /\ 1 * p = p
    OBVIOUS
  <2>4. QED
    BY <1>1, <2>1, <2>2, <2>3
<1>4. acc.rest < 2 * (n * p)
  <2>1. n * (2 * p) = 2 * (n * p)
    OBVIOUS
  <2>2. acc.rest < n * (2 * p)
    BY <1>1 DEF LeftDiv
  <2>3. QED
    BY <2>1, <2>2
<1>5. PICK q \in Nat : q = acc.bits
  BY DEF Settling
<1>6. m = n * q + acc.rest
  BY <1>5 DEF LeftDiv
<1>7. Due(m, n, acc, k, p, q)
  BY <1>2, <1>4, <1>6, Zenon DEF Due
<1>8. PICK x \in Nat : Done(m, n, acc, k, p, q, x)
  BY <1>0, <1>3, <1>7, SettleRight
<1>9. QED
  BY <1>1, <1>3, <1>5, <1>8, Zenon DEF LeftDiv, Done

\* What is left after a place is what is left before the next.
LEMMA NextPlace ==
  ASSUME NEW s \in Nat
  PROVE  /\ s >= 1 => 2^(s - 0) = 2 * 2^(s - 1)
         /\ s >= 2 => 2^(s - 1) = 2 * 2^(s - 2)
         /\ s >= 3 => 2^(s - 2) = 2 * 2^(s - 3)
<1>1. s >= 1 => 2^(s - 0) = 2 * 2^(s - 1)
  <2> SUFFICES ASSUME s >= 1 PROVE 2^(s - 0) = 2 * 2^(s - 1)
    OBVIOUS
  <2>1. PICK d \in Nat : d = s - 1 /\ s - 0 = d + 1
    OBVIOUS
  <2>2. 2^(d + 1) = 2 * 2^d
    BY PowerNext
  <2>3. QED
    BY <2>1, <2>2
<1>2. s >= 2 => 2^(s - 1) = 2 * 2^(s - 2)
  <2> SUFFICES ASSUME s >= 2 PROVE 2^(s - 1) = 2 * 2^(s - 2)
    OBVIOUS
  <2>1. PICK d \in Nat : d = s - 2 /\ s - 1 = d + 1
    OBVIOUS
  <2>2. 2^(d + 1) = 2 * 2^d
    BY PowerNext
  <2>3. QED
    BY <2>1, <2>2
<1>3. s >= 3 => 2^(s - 2) = 2 * 2^(s - 3)
  <2> SUFFICES ASSUME s >= 3 PROVE 2^(s - 2) = 2 * 2^(s - 3)
    OBVIOUS
  <2>1. PICK d \in Nat : d = s - 3 /\ s - 2 = d + 1
    OBVIOUS
  <2>2. 2^(d + 1) = 2 * 2^d
    BY PowerNext
  <2>3. QED
    BY <2>1, <2>2
<1>4. QED
  BY <1>1, <1>2, <1>3

LEMMA UnsettledType ==
  ASSUME dividend \in Nat, result \in Nat
  PROVE  /\ Unsettled \in Settling /\ Unsettled.rest = dividend /\ Unsettled.bits = result
  BY DEF Unsettled, Settling

\* A pass of the remainder loop, and the places of its tail.
LEMMA PassModRight ==
  ASSUME dividend \in Nat, result \in Nat, divisor \in Nat, curbit \in Nat,
         NEW m \in Nat, NEW n \in Nat, NEW s \in Nat, PassMod(m, n, dividend, divisor, s)
  PROVE  LET one == Settle(Unsettled, 0)
             two == Settle(one, 1)
             three == Settle(two, 2)
         IN  /\ one \in Settling /\ two \in Settling /\ three \in Settling /\ Batch \in Settling
             /\ one.rest <= dividend /\ two.rest <= dividend /\ three.rest <= dividend
             /\ Batch.rest <= dividend
             /\ Left(m, n, one, 2^s)
             /\ s >= 1 => Left(m, n, two, 2^(s - 1))
             /\ s >= 2 => Left(m, n, three, 2^(s - 2))
             /\ s >= 3 => Left(m, n, Batch, 2^(s - 3))
<1> DEFINE one == Settle(Unsettled, 0)
           two == Settle(one, 1)
           three == Settle(two, 2)
           four == Settle(three, 3)
<1>0. Batch = four
  BY DEF Batch
<1>1. Unsettled \in Settling /\ Unsettled.rest = dividend
  BY UnsettledType
<1>2. one \in Settling /\ one.rest <= dividend
  BY <1>1, SettleType
<1>3. two \in Settling /\ two.rest <= one.rest
  <2> HIDE DEF one
  <2>1. QED
    BY <1>2, SettleType
<1>4. three \in Settling /\ three.rest <= two.rest
  <2> HIDE DEF two
  <2>1. QED
    BY <1>3, SettleType
<1>5. four \in Settling /\ four.rest <= three.rest
  <2> HIDE DEF three
  <2>1. QED
    BY <1>4, SettleType
<1>6. divisor = n * 2^s
  BY DEF PassMod
<1>7. Left(m, n, Unsettled, 2 * 2^(s - 0))
  <2>1. PICK p \in Nat, d \in Nat : p = 2^s /\ d = n * p /\ s - 0 = s
    BY PowerType
  <2>2. n * (2 * p) = 2 * d
    BY <2>1
  <2>3. dividend < 2 * d
    BY <2>1 DEF PassMod
  <2>4. \E q \in Nat : m = n * q + dividend
    BY DEF PassMod
  <2>5. Unsettled.rest < n * (2 * 2^(s - 0))
    BY <1>1, <2>1, <2>2, <2>3
  <2>6. QED
    BY <1>1, <2>4, <2>5, Zenon DEF Left
<1>8. Left(m, n, one, 2^(s - 0)) /\ s - 0 = s
  BY <1>1, <1>6, <1>7, PlaceMod
<1> HIDE DEF one
<1>9. s >= 1 => Left(m, n, two, 2^(s - 1))
  <2> SUFFICES ASSUME s >= 1 PROVE Left(m, n, two, 2^(s - 1))
    OBVIOUS
  <2>1. 2^(s - 0) = 2 * 2^(s - 1)
    BY NextPlace
  <2>2. 1 \in 0 .. s
    OBVIOUS
  <2>3. Left(m, n, one, 2 * 2^(s - 1))
    BY <1>8, <2>1
  <2>4. QED
    BY <1>2, <1>6, <2>2, <2>3, PlaceMod
<1> HIDE DEF two
<1>10. s >= 2 => Left(m, n, three, 2^(s - 2))
  <2> SUFFICES ASSUME s >= 2 PROVE Left(m, n, three, 2^(s - 2))
    OBVIOUS
  <2>1. 2^(s - 1) = 2 * 2^(s - 2)
    BY NextPlace
  <2>2. 2 \in 0 .. s
    OBVIOUS
  <2>3. Left(m, n, two, 2 * 2^(s - 2))
    BY <1>9, <2>1
  <2>4. QED
    BY <1>3, <1>6, <2>2, <2>3, PlaceMod
<1> HIDE DEF three
<1>11. s >= 3 => Left(m, n, four, 2^(s - 3))
  <2> SUFFICES ASSUME s >= 3 PROVE Left(m, n, four, 2^(s - 3))
    OBVIOUS
  <2>1. 2^(s - 2) = 2 * 2^(s - 3)
    BY NextPlace
  <2>2. 3 \in 0 .. s
    OBVIOUS
  <2>3. Left(m, n, three, 2 * 2^(s - 3))
    BY <1>10, <2>1
  <2>4. QED
    BY <1>4, <1>6, <2>2, <2>3, PlaceMod
<1>12. two.rest <= dividend /\ three.rest <= dividend /\ four.rest <= dividend
  <2>1. /\ one.rest \in Nat /\ two.rest \in Nat /\ three.rest \in Nat /\ four.rest \in Nat
    BY <1>2, <1>3, <1>4, <1>5 DEF Settling
  <2> HIDE DEF four
  <2>2. QED
    BY <1>2, <1>3, <1>4, <1>5, <2>1
<1>13. QED
  BY <1>0, <1>2, <1>3, <1>4, <1>5, <1>8, <1>9, <1>10, <1>11, <1>12 DEF one, two, three

\* What is left below n at place 0 makes the bits the quotient.
LEMMA LastPlace ==
  ASSUME NEW m \in Nat, NEW n \in Nat \ {0}, NEW acc \in Settling,
         LeftDiv(m, n, acc, 2^0)
  PROVE  acc.bits = m \div n
<1>1. PICK q \in Nat, t \in Nat : q = acc.bits /\ t = acc.rest
  BY DEF Settling
<1>2. m = q * n + t
  <2>1. m = n * q + t
    BY <1>1 DEF LeftDiv
  <2>2. n * q = q * n
    OBVIOUS
  <2>3. QED
    BY <2>1, <2>2
<1>3. t \in 0 .. n - 1
  <2>1. 2^0 = 1 /\ n * 1 = n
    OBVIOUS
  <2>2. t < n * 2^0
    BY <1>1, Zenon DEF LeftDiv
  <2>3. t < n
    BY <2>1, <2>2, Zenon
  <2>4. QED
    BY <2>3
<1>4. (q * n + t) \div n = q
  BY <1>3, DivModUnique
<1>5. QED
  BY <1>1, <1>2, <1>4, Zenon

\* A pass of the quotient loop: with places to come the bits and the rest account
\* for the dividend; in the last pass the bits are the quotient.
LEMMA PassDivRight ==
  ASSUME dividend \in Nat, result \in Nat, divisor \in Nat, curbit \in Nat,
         NEW m \in Nat, NEW n \in Nat \ {0}, NEW s \in Nat,
         PassDiv(m, n, dividend, divisor, result, curbit, s)
  PROVE  /\ Batch \in Settling /\ Batch.rest <= dividend
         /\ s >= 3 => LeftDiv(m, n, Batch, 2^(s - 3))
         /\ s <= 3 => Batch.bits = m \div n
<1> DEFINE one == Settle(Unsettled, 0)
           two == Settle(one, 1)
           three == Settle(two, 2)
           four == Settle(three, 3)
<1>0. Batch = four
  BY DEF Batch
<1>1. Unsettled \in Settling /\ Unsettled.rest = dividend /\ Unsettled.bits = result
  BY UnsettledType
<1>2. one \in Settling /\ one.rest <= dividend
  BY <1>1, SettleType
<1>3. two \in Settling /\ two.rest <= one.rest /\ (Lsr(curbit, 1) = 0 => two.bits = one.bits)
  <2> HIDE DEF one
  <2>1. QED
    BY <1>2, SettleType
<1>4. three \in Settling /\ three.rest <= two.rest /\ (Lsr(curbit, 2) = 0 => three.bits = two.bits)
  <2> HIDE DEF two
  <2>1. QED
    BY <1>3, SettleType
<1>5. four \in Settling /\ four.rest <= three.rest /\ (Lsr(curbit, 3) = 0 => four.bits = three.bits)
  <2> HIDE DEF three
  <2>1. QED
    BY <1>4, SettleType
<1>6. divisor = n * 2^s /\ curbit = 2^s
  BY DEF PassDiv
<1>7. LeftDiv(m, n, Unsettled, 2 * 2^(s - 0))
  <2>1. PICK p \in Nat, d \in Nat : p = 2^s /\ d = n * p /\ s - 0 = s
    BY PowerType
  <2>2. n * (2 * p) = 2 * d
    BY <2>1
  <2>3. dividend < 2 * d
    BY <2>1 DEF PassDiv
  <2>4. m = n * result + dividend
    BY DEF PassDiv
  <2>5. Unsettled.rest < n * (2 * 2^(s - 0))
    BY <1>1, <2>1, <2>2, <2>3
  <2>6. QED
    BY <1>1, <2>4, <2>5, Zenon DEF LeftDiv
<1>8. LeftDiv(m, n, one, 2^(s - 0)) /\ s - 0 = s
  <2>1. 0 \in 0 .. s
    OBVIOUS
  <2>2. QED
    BY <1>1, <1>6, <1>7, <2>1, PlaceDiv
<1> HIDE DEF one
<1>9. s >= 1 => LeftDiv(m, n, two, 2^(s - 1))
  <2> SUFFICES ASSUME s >= 1 PROVE LeftDiv(m, n, two, 2^(s - 1))
    OBVIOUS
  <2>1. 2^(s - 0) = 2 * 2^(s - 1)
    BY NextPlace
  <2>2. 1 \in 0 .. s
    OBVIOUS
  <2>3. LeftDiv(m, n, one, 2 * 2^(s - 1))
    BY <1>8, <2>1
  <2>4. QED
    BY <1>2, <1>6, <2>2, <2>3, PlaceDiv
<1> HIDE DEF two
<1>10. s >= 2 => LeftDiv(m, n, three, 2^(s - 2))
  <2> SUFFICES ASSUME s >= 2 PROVE LeftDiv(m, n, three, 2^(s - 2))
    OBVIOUS
  <2>1. 2^(s - 1) = 2 * 2^(s - 2)
    BY NextPlace
  <2>2. 2 \in 0 .. s
    OBVIOUS
  <2>3. LeftDiv(m, n, two, 2 * 2^(s - 2))
    BY <1>9, <2>1
  <2>4. QED
    BY <1>3, <1>6, <2>2, <2>3, PlaceDiv
<1> HIDE DEF three
<1>11. s >= 3 => LeftDiv(m, n, four, 2^(s - 3))
  <2> SUFFICES ASSUME s >= 3 PROVE LeftDiv(m, n, four, 2^(s - 3))
    OBVIOUS
  <2>1. 2^(s - 2) = 2 * 2^(s - 3)
    BY NextPlace
  <2>2. 3 \in 0 .. s
    OBVIOUS
  <2>3. LeftDiv(m, n, three, 2 * 2^(s - 3))
    BY <1>10, <2>1
  <2>4. QED
    BY <1>4, <1>6, <2>2, <2>3, PlaceDiv
<1> HIDE DEF four
<1>12. four.rest <= dividend
  <2>1. /\ one.rest \in Nat /\ two.rest \in Nat /\ three.rest \in Nat /\ four.rest \in Nat
    BY <1>2, <1>3, <1>4, <1>5 DEF Settling
  <2>2. QED
    BY <1>2, <1>3, <1>4, <1>5, <2>1
<1>13. s < 3 => Lsr(curbit, 3) = 0
  BY <1>6, LsrOut
<1>14. s < 2 => Lsr(curbit, 2) = 0
  BY <1>6, LsrOut
<1>15. s < 1 => Lsr(curbit, 1) = 0
  BY <1>6, LsrOut
<1>16. s = 3 => four.bits = m \div n
  <2> SUFFICES ASSUME s = 3 PROVE four.bits = m \div n
    OBVIOUS
  <2>1. LeftDiv(m, n, four, 2^0)
    BY <1>11
  <2>2. QED
    BY <1>5, <2>1, LastPlace
<1>17. s = 2 => four.bits = m \div n
  <2> SUFFICES ASSUME s = 2 PROVE four.bits = m \div n
    OBVIOUS
  <2>1. LeftDiv(m, n, three, 2^0)
    BY <1>10
  <2>2. three.bits = m \div n
    BY <1>4, <2>1, LastPlace
  <2>3. QED
    BY <1>5, <1>13, <2>2
<1>18. s = 1 => four.bits = m \div n
  <2> SUFFICES ASSUME s = 1 PROVE four.bits = m \div n
    OBVIOUS
  <2>1. LeftDiv(m, n, two, 2^0)
    BY <1>9
  <2>2. two.bits = m \div n
    BY <1>3, <2>1, LastPlace
  <2>3. QED
    BY <1>4, <1>5, <1>13, <1>14, <2>2
<1>19. s = 0 => four.bits = m \div n
  <2> SUFFICES ASSUME s = 0 PROVE four.bits = m \div n
    OBVIOUS
  <2>1. LeftDiv(m, n, one, 2^0)
    BY <1>8
  <2>2. one.bits = m \div n
    BY <1>2, <2>1, LastPlace
  <2>3. QED
    BY <1>3, <1>4, <1>5, <1>13, <1>14, <1>15, <2>2
<1>20. s <= 3 => four.bits = m \div n
  <2>1. s <= 3 => s = 0 \/ s = 1 \/ s = 2 \/ s = 3
    OBVIOUS
  <2>2. QED
    BY <1>16, <1>17, <1>18, <1>19, <2>1
<1>21. QED
  BY <1>0, <1>5, <1>11, <1>12, <1>20

-----------------------------------------------------------------------------
(* Signs.                                                                  *)

M == 2^Width
Registers == 0 .. M - 1

LEMMA Modulus ==
  M \in Nat \ {0} /\ M = 2 * 2^(Width - 1) /\ 2^(Width - 1) \in Nat \ {0}
  BY WidthType DEF M

\* The magnitude and the number of an operand, for the routine f.
Mag(f, x) == IF f \in Signed THEN Magnitude(x) ELSE x
Num(f, x) == IF f \in Signed /\ Negative(x) THEN x - 2^Width ELSE x
Minus(f, x) == f \in Signed /\ Negative(x)

LEMMA WrapRight ==
  ASSUME NEW x \in Int
  PROVE  /\ Wrap(x) \in 0 .. M - 1
         /\ x \in 0 .. M - 1 => Wrap(x) = x
         /\ \E k \in Int : Wrap(x) = x + k * M
         /\ \A k \in Int : Wrap(x + k * M) = Wrap(x)
<1>1. Wrap(x) = x % M /\ M \in Nat \ {0}
  BY Modulus DEF Wrap, M
<1>2. PICK q \in Int, t \in 0 .. M - 1 : q = x \div M /\ t = x % M /\ x = q * M + t
  BY <1>1, DivMod
<1>3. PICK y \in Int, z \in Int : y = -q /\ z = q * M /\ y * M = -z
  <2>1. PICK h \in Nat : h = M
    BY <1>1
  <2>2. (-q) * h = -(q * h) /\ q * h \in Int
    OBVIOUS
  <2>3. QED
    BY <2>1, <2>2
<1>4. t = x + y * M
  <2>1. PICK u \in Int : u = y * M /\ u = -z
    BY <1>3
  <2>2. x = z + t
    BY <1>2, <1>3
  <2>3. t = x + u
    BY <2>1, <2>2
  <2>4. QED
    BY <2>1, <2>3
<1>5. x \in 0 .. M - 1 => x % M = x
  <2> SUFFICES ASSUME x \in 0 .. M - 1 PROVE x % M = x
    OBVIOUS
  <2>1. 0 * M + x = x /\ (0 * M + x) % M = x
    BY <1>1, DivModUnique
  <2>2. QED
    BY <2>1
<1>6. ASSUME NEW k \in Int PROVE Wrap(x + k * M) = Wrap(x)
  <2>1. (x + k * M) % M = x % M
    BY <1>1, ModOfSum
  <2>2. QED
    BY <2>1 DEF Wrap, M
<1>7. QED
  BY <1>1, <1>2, <1>4, <1>5, <1>6

LEMMA NegRight ==
  ASSUME NEW x \in 0 .. M - 1
  PROVE  Neg(x) = Wrap(-x) /\ Neg(x) \in 0 .. M - 1 /\ (x > 0 => Neg(x) = M - x)
<1>1. Neg(x) = Wrap(M - x) /\ M \in Nat \ {0}
  BY Modulus DEF Neg, M
<1>2. PICK y \in Int : y = -x
  BY <1>1
<1>3. y + 1 * M = M - x
  BY <1>1, <1>2
<1>4. Wrap(y + 1 * M) = Wrap(y) /\ Wrap(y) \in 0 .. M - 1
  <2>1. Wrap(y) \in 0 .. M - 1 /\ (\A k \in Int : Wrap(y + k * M) = Wrap(y))
    BY WrapRight, Zenon
  <2>2. 1 \in Int
    OBVIOUS
  <2>3. QED
    BY <2>1, <2>2, Zenon
<1>5. x > 0 => Wrap(M - x) = M - x
  <2> SUFFICES ASSUME x > 0 PROVE Wrap(M - x) = M - x
    OBVIOUS
  <2>1. PICK z \in 0 .. M - 1 : z = M - x
    BY <1>1
  <2>2. QED
    BY <2>1, WrapRight
<1>6. QED
  BY <1>1, <1>2, <1>3, <1>4, <1>5

\* An operand, its magnitude and its number.
LEMMA NumRight ==
  ASSUME NEW f, NEW x \in 0 .. M - 1
  PROVE  /\ Mag(f, x) \in 0 .. M - 1
         /\ Minus(f, x) => Mag(f, x) >= 1
         /\ Num(f, x) = IF Minus(f, x) THEN -Mag(f, x) ELSE Mag(f, x)
         /\ Mag(f, x) = 0 <=> x = 0
         /\ x = Num(f, x) + (IF Minus(f, x) THEN M ELSE 0)
<1>1. PICK h \in Nat \ {0} : h = 2^(Width - 1) /\ M = 2 * h
  BY Modulus
<1>2. CASE Minus(f, x)
  <2>1. f \in Signed /\ Negative(x) /\ x >= h
    BY <1>1, <1>2 DEF Minus, Negative
  <2>2. Neg(x) = M - x
    BY <1>1, <2>1, NegRight
  <2>3. Mag(f, x) = M - x /\ Num(f, x) = x - M
    BY <2>1, <2>2 DEF Mag, Magnitude, Num, M
  <2>4. QED
    BY <1>1, <1>2, <2>1, <2>3
<1>3. CASE ~Minus(f, x)
  <2>1. Mag(f, x) = x /\ Num(f, x) = x
    BY <1>3, Modulus DEF Minus, Mag, Magnitude, Num
  <2>2. QED
    BY <1>3, <2>1
<1>4. QED
  BY <1>2, <1>3

\* The quotient of C, from the magnitudes.
LEMMA TruncatedRight ==
  ASSUME NEW f,
         NEW x \in 0 .. M - 1, NEW y \in 0 .. M - 1, y # 0
  PROVE  Truncated(Num(f, x), Num(f, y)) =
            IF Minus(f, x) # Minus(f, y) THEN -(Mag(f, x) \div Mag(f, y))
            ELSE Mag(f, x) \div Mag(f, y)
<1>1. PICK m \in Nat, v \in Int : m = Mag(f, x) /\ v = Num(f, x)
  <2>1. Mag(f, x) \in 0 .. M - 1 /\ Num(f, x) \in Int
    BY NumRight, Modulus
  <2>2. QED
    BY <2>1
<1>2. PICK n \in Nat \ {0}, w \in Int : n = Mag(f, y) /\ w = Num(f, y)
  <2>1. Mag(f, y) \in 0 .. M - 1 /\ Mag(f, y) # 0 /\ Num(f, y) \in Int
    BY NumRight, Modulus
  <2>2. QED
    BY <2>1
<1>3. Minus(f, x) => v < 0 /\ -v = m
  BY <1>1, NumRight
<1>4. ~Minus(f, x) => ~(v < 0) /\ v = m
  BY <1>1, NumRight
<1>5. Minus(f, y) => w < 0 /\ -w = n
  BY <1>2, NumRight
<1>6. ~Minus(f, y) => ~(w < 0) /\ w = n
  BY <1>2, NumRight
<1>7. w # 0
  BY <1>5, <1>6
<1>8. (IF v < 0 THEN -v ELSE v) = m /\ (IF w < 0 THEN -w ELSE w) = n
  BY <1>3, <1>4, <1>5, <1>6, Zenon
<1>9. Truncated(v, w) = IF (v < 0) # (w < 0) THEN -(m \div n) ELSE m \div n
  BY <1>7, <1>8, Zenon DEF Truncated
<1>10. ((v < 0) # (w < 0)) <=> (Minus(f, x) # Minus(f, y))
  <2>1. Minus(f, x) \in BOOLEAN /\ Minus(f, y) \in BOOLEAN
    BY DEF Minus, Negative
  <2>2. QED
    BY <1>3, <1>4, <1>5, <1>6, <2>1
<1>11. QED
  BY <1>1, <1>2, <1>9, <1>10, Zenon

\* A product of registers is that of the numbers, modulo M.
Residue(x, v, e, k) == x = v + e * k

LEMMA ProductWraps ==
  ASSUME NEW v \in Int, NEW q \in Int, NEW w \in Int,
         NEW e \in Int, NEW g \in Int, NEW h \in Int, NEW k \in Nat,
         NEW x \in Int, NEW r \in Int, NEW y \in Int,
         Residue(x, v, e, k), Residue(r, q, g, k), Residue(y, w, h, k)
  PROVE  \E c \in Int : Residue(x - (r * y), v - (q * w), c, k)
<1> USE DEF Residue
<1>1. r * y = r * w + (r * h) * k
  BY SMT
<1>2. r * w = q * w + (g * w) * k
  BY SMT
<1>3. PICK c \in Int : c = e - ((g * w) + (r * h))
  OBVIOUS
<1>4. c * k = e * k - ((g * w) * k + (r * h) * k)
  <2>1. PICK i \in Int, j \in Int : i = g * w /\ j = r * h
    OBVIOUS
  <2>2. c = e - (i + j)
    BY <1>3, <2>1
  <2>3. c * k = e * k - (i * k + j * k)
    BY <2>2
  <2>4. QED
    BY <2>1, <2>3
<1>5. PICK i \in Int, j \in Int, l \in Int, o \in Int, t \in Int :
         i = e * k /\ j = (g * w) * k /\ l = (r * h) * k /\ o = q * w /\ t = r * y
  OBVIOUS
<1>6. t = (o + j) + l /\ x = v + i /\ c * k = i - (j + l)
  <2>1. r * w = o + j
    BY <1>2, <1>5
  <2>2. t = r * w + l
    BY <1>1, <1>5
  <2>3. x = v + i /\ c * k = i - (j + l)
    BY <1>4, <1>5
  <2>4. QED
    BY <2>1, <2>2, <2>3
<1>7. x - t = (v - o) + c * k
  <2>1. PICK u \in Int : u = c * k
    OBVIOUS
  <2>2. QED
    BY <1>6, <2>1
<1>8. QED
  BY <1>5, <1>7

\* The quotient or remainder of numbers with the sign that C gives it.
Signum(neg, r) == IF neg THEN -r ELSE r

\* DivisionExact for the result r of the routine f.
Exact(f, x, y, r) ==
    LET q == Truncated(Num(f, x), Num(f, y))
    IN  IF f \in Divides
        THEN /\ r = Wrap(q)
             /\ y # 0 => Wrap(x - r * y) = Wrap(Num(f, x) - q * Num(f, y))
        ELSE r = IF y = 0 THEN 0 ELSE Wrap(Num(f, x) - q * Num(f, y))

Functions == Signed \cup {"udivsi3", "umodsi3"}

\* Sign puts the sign on.
LEMMA SignRight ==
  ASSUME NEW f \in Functions, NEW x \in Registers, NEW y \in Registers, NEW r \in Registers
  PROVE  /\ Sign(f, x, y, r) \in Registers
         /\ f \in Divides => Sign(f, x, y, r) = Wrap(Signum(Minus(f, x) # Minus(f, y), r))
         /\ f \notin Divides => Sign(f, x, y, r) = Wrap(Signum(Minus(f, x), r))
<1>1. /\ Neg(r) = Wrap(-r) /\ Neg(r) \in Registers
  BY NegRight DEF Registers
<1>2. Wrap(r) = r
  <2>1. r \in Int
    BY Modulus DEF Registers
  <2>2. QED
    BY <2>1, WrapRight DEF Registers
<1>3. f \in Divides =>
        Sign(f, x, y, r) = IF Minus(f, x) # Minus(f, y) THEN Neg(r) ELSE r
  <2>1. CASE f = "divsi3"
    <3>1. Minus(f, x) = Negative(x) /\ Minus(f, y) = Negative(y)
      BY <2>1 DEF Minus, Negative, Signed
    <3>2. Sign(f, x, y, r) = IF Negative(x) # Negative(y) THEN Neg(r) ELSE r
      BY <2>1 DEF Sign
    <3>3. QED
      BY <3>1, <3>2
  <2>2. CASE f = "udivsi3"
    BY <2>2 DEF Sign, Minus, Divides, Signed
  <2>3. QED
    BY <2>1, <2>2 DEF Divides
<1>4. f \notin Divides => Sign(f, x, y, r) = IF Minus(f, x) THEN Neg(r) ELSE r
  <2>1. CASE f = "modsi3"
    BY <2>1 DEF Sign, Minus, Divides, Signed
  <2>2. CASE f = "umodsi3"
    BY <2>2 DEF Sign, Minus, Divides, Signed
  <2>3. QED
    BY <2>1, <2>2 DEF Divides, Functions, Signed
<1>5. f \in Divides \/ f \notin Divides
  OBVIOUS
<1>6. QED
  BY <1>1, <1>2, <1>3, <1>4, <1>5, Zenon DEF Signum

\* The magnitudes of the results.
QuotientOf(f, x, y) == IF y = 0 THEN 0 ELSE Mag(f, x) \div Mag(f, y)
RemainderOf(f, x, y) == IF y = 0 THEN 0 ELSE Mag(f, x) % Mag(f, y)

LEMMA DivideExact ==
  ASSUME NEW f \in Functions, f \in Divides, NEW x \in Registers, NEW y \in Registers,
         NEW d \in Registers,
         d = QuotientOf(f, x, y)
  PROVE  Exact(f, x, y, Sign(f, x, y, d))
<1>0. PICK k \in Nat \ {0} : k = M
  BY Modulus
<1>1. PICK r \in Registers : r = Sign(f, x, y, d) /\ r = Wrap(Signum(Minus(f, x) # Minus(f, y), d))
  <2>1. Sign(f, x, y, d) \in Registers
    BY SignRight
  <2>2. Sign(f, x, y, d) = Wrap(Signum(Minus(f, x) # Minus(f, y), d))
    BY SignRight, ZenonT(60)
  <2>3. QED
    BY <2>1, <2>2, Zenon
<1>2. CASE y = 0
  <2>1. d = 0
    BY <1>2 DEF QuotientOf
  <2>2. Signum(Minus(f, x) # Minus(f, y), d) = 0
    <3>1. PICK t \in Int : t = d /\ -t = 0
      BY <2>1, SMT
    <3>2. QED
      BY <2>1, <3>1, Zenon DEF Signum
  <2>3. Num(f, y) = 0
    <3>1. Mag(f, y) = 0 /\ Num(f, y) = IF Minus(f, y) THEN -Mag(f, y) ELSE Mag(f, y)
      BY <1>2, NumRight DEF Registers
    <3>2. PICK t \in Int : t = Mag(f, y) /\ -t = 0
      BY <3>1, SMT
    <3>3. QED
      BY <3>1, <3>2, Zenon
  <2>4. Truncated(Num(f, x), Num(f, y)) = 0
    BY <2>3 DEF Truncated
  <2>5. QED
    BY <1>1, <1>2, <2>2, <2>4, Zenon DEF Exact
<1>3. CASE y # 0
  <2>1. PICK q \in Int : q = Truncated(Num(f, x), Num(f, y)) /\ q = Signum(Minus(f, x) # Minus(f, y), d)
    <3>1. d \in Int
      BY Modulus DEF Registers
    <3>2. Truncated(Num(f, x), Num(f, y)) = Signum(Minus(f, x) # Minus(f, y), d)
      BY <1>3, TruncatedRight DEF Registers, Signum, QuotientOf
    <3>3. Signum(Minus(f, x) # Minus(f, y), d) \in Int
      BY <3>1 DEF Signum
    <3>4. QED
      BY <3>2, <3>3
  <2>2. PICK v \in Int, e \in Int : v = Num(f, x) /\ Residue(x, v, e, k)
    <3>1. Num(f, x) \in Int /\ x = Num(f, x) + (IF Minus(f, x) THEN M ELSE 0)
      BY NumRight, Modulus DEF Registers
    <3>2. PICK v \in Int : v = Num(f, x)
      BY <3>1
    <3>3. x = v + 1 * k \/ x = v + 0 * k
      BY <1>0, <3>1, <3>2
    <3>4. 0 \in Int /\ 1 \in Int
      OBVIOUS
    <3>5. QED
      BY <3>2, <3>3, <3>4, Zenon DEF Residue
  <2>3. PICK w \in Int, h \in Int : w = Num(f, y) /\ Residue(y, w, h, k)
    <3>1. Num(f, y) \in Int /\ y = Num(f, y) + (IF Minus(f, y) THEN M ELSE 0)
      BY NumRight, Modulus DEF Registers
    <3>2. PICK w \in Int : w = Num(f, y)
      BY <3>1
    <3>3. y = w + 1 * k \/ y = w + 0 * k
      BY <1>0, <3>1, <3>2
    <3>4. 0 \in Int /\ 1 \in Int
      OBVIOUS
    <3>5. QED
      BY <3>2, <3>3, <3>4, Zenon DEF Residue
  <2>4. r = Wrap(q)
    BY <1>1, <2>1
  <2>5. PICK g \in Int : Residue(r, q, g, k)
    <3>1. \E g \in Int : Wrap(q) = q + g * M
      BY WrapRight
    <3>2. QED
      BY <1>0, <2>4, <3>1, Zenon DEF Residue
  <2>6. x \in Int /\ r \in Int /\ y \in Int
    BY Modulus DEF Registers
  <2>7. PICK c \in Int : Residue(x - (r * y), v - (q * w), c, k)
    BY <2>2, <2>3, <2>5, <2>6, ProductWraps, Zenon
  <2>8. Wrap(x - (r * y)) = Wrap(v - (q * w))
    <3>1. PICK z \in Int : z = v - (q * w)
      OBVIOUS
    <3>2. Wrap(z + c * M) = Wrap(z)
      BY WrapRight
    <3>3. QED
      BY <1>0, <2>7, <3>1, <3>2, Zenon DEF Residue
  <2>9. QED
    BY <1>1, <2>1, <2>2, <2>3, <2>4, <2>8, Zenon DEF Exact
<1>4. QED
  BY <1>2, <1>3

LEMMA RemainderExact ==
  ASSUME NEW f \in Functions, f \notin Divides, NEW x \in Registers, NEW y \in Registers,
         NEW d \in Registers, d = RemainderOf(f, x, y)
  PROVE  Exact(f, x, y, Sign(f, x, y, d))
<1>1. PICK r \in Registers : r = Sign(f, x, y, d) /\ r = Wrap(Signum(Minus(f, x), d))
  <2>1. Sign(f, x, y, d) \in Registers
    BY SignRight
  <2>2. Sign(f, x, y, d) = Wrap(Signum(Minus(f, x), d))
    BY SignRight, ZenonT(60)
  <2>3. QED
    BY <2>1, <2>2, Zenon
<1>2. CASE y = 0
  <2>1. d = 0
    BY <1>2 DEF RemainderOf
  <2>2. Signum(Minus(f, x), d) = 0
    <3>1. PICK t \in Int : t = d /\ -t = 0
      BY <2>1, SMT
    <3>2. QED
      BY <2>1, <3>1, Zenon DEF Signum
  <2>3. Wrap(0) = 0
    <3>1. 0 \in Int /\ 0 \in 0 .. M - 1
      BY Modulus
    <3>2. QED
      BY <3>1, WrapRight
  <2>4. QED
    BY <1>1, <1>2, <2>2, <2>3, Zenon DEF Exact
<1>3. CASE y # 0
  <2>1. PICK m \in Nat, v \in Int : m = Mag(f, x) /\ v = Num(f, x)
    <3>1. Mag(f, x) \in Nat /\ Num(f, x) \in Int
      BY NumRight, Modulus DEF Registers
    <3>2. QED
      BY <3>1
  <2>2. PICK n \in Nat \ {0}, w \in Int : n = Mag(f, y) /\ w = Num(f, y)
    <3>1. Mag(f, y) \in Nat \ {0} /\ Num(f, y) \in Int
      BY <1>3, NumRight, Modulus DEF Registers
    <3>2. QED
      BY <3>1
  <2>3. PICK q \in Nat, t \in 0 .. n - 1 : q = m \div n /\ t = m % n /\ m = q * n + t
    BY DivModNat
  <2>4. t = d
    BY <1>3, <2>1, <2>2, <2>3 DEF RemainderOf
  <2>5. Truncated(v, w) = IF Minus(f, x) # Minus(f, y) THEN -q ELSE q
    <3>1. Truncated(Num(f, x), Num(f, y)) =
            IF Minus(f, x) # Minus(f, y) THEN -(Mag(f, x) \div Mag(f, y))
            ELSE Mag(f, x) \div Mag(f, y)
      BY <1>3, TruncatedRight DEF Registers
    <3>2. QED
      BY <2>1, <2>2, <2>3, <3>1, Zenon
  <2>6. v = (IF Minus(f, x) THEN -m ELSE m) /\ w = (IF Minus(f, y) THEN -n ELSE n)
    <3>1. /\ Num(f, x) = IF Minus(f, x) THEN -Mag(f, x) ELSE Mag(f, x)
          /\ Num(f, y) = IF Minus(f, y) THEN -Mag(f, y) ELSE Mag(f, y)
      BY NumRight DEF Registers
    <3>2. QED
      BY <2>1, <2>2, <3>1, Zenon
  <2>7. PICK z \in Nat : z = q * n /\ m = z + t
    <3>1. PICK z \in Nat : z = q * n
      OBVIOUS
    <3>2. QED
      BY <2>3, <3>1
  <2>8. (-q) * n = -z /\ q * (-n) = -z /\ (-q) * (-n) = z
    BY <2>7
  <2>9. v - (Truncated(v, w) * w) = Signum(Minus(f, x), t)
    <3>1. CASE Minus(f, x) /\ Minus(f, y)
      <4>1. v = -m /\ w = -n /\ Truncated(v, w) = q /\ Signum(Minus(f, x), t) = -t
        BY <2>5, <2>6, <3>1, Zenon DEF Signum
      <4>2. Truncated(v, w) * w = -z
        BY <2>8, <4>1
      <4>3. QED
        BY <2>7, <4>1, <4>2
    <3>2. CASE Minus(f, x) /\ ~Minus(f, y)
      <4>1. v = -m /\ w = n /\ Truncated(v, w) = -q /\ Signum(Minus(f, x), t) = -t
        BY <2>5, <2>6, <3>2, Zenon DEF Signum
      <4>2. Truncated(v, w) * w = -z
        BY <2>8, <4>1
      <4>3. QED
        BY <2>7, <4>1, <4>2
    <3>3. CASE ~Minus(f, x) /\ Minus(f, y)
      <4>1. v = m /\ w = -n /\ Truncated(v, w) = -q /\ Signum(Minus(f, x), t) = t
        BY <2>5, <2>6, <3>3, Zenon DEF Signum
      <4>2. Truncated(v, w) * w = z
        BY <2>8, <4>1
      <4>3. QED
        BY <2>7, <4>1, <4>2
    <3>4. CASE ~Minus(f, x) /\ ~Minus(f, y)
      <4>1. v = m /\ w = n /\ Truncated(v, w) = q /\ Signum(Minus(f, x), t) = t
        <5>1. Minus(f, x) = FALSE /\ Minus(f, y) = FALSE
          BY <3>4, Zenon DEF Minus, Negative
        <5>2. QED
          BY <2>5, <2>6, <5>1, Zenon DEF Signum
      <4>2. Truncated(v, w) * w = z
        BY <2>7, <4>1
      <4>3. QED
        BY <2>7, <4>1, <4>2
    <3>5. QED
      BY <3>1, <3>2, <3>3, <3>4, Zenon
  <2>10. QED
    BY <1>1, <1>3, <2>1, <2>2, <2>4, <2>9, Zenon DEF Exact
<1>4. QED
  BY <1>2, <1>3

\* What the tests before the loops answer.
LEMMA ShortRight ==
  ASSUME NEW f \in Functions, NEW m \in Registers, NEW n \in Registers, IsShort(m, n)
  PROVE  /\ Short(f, m, n) \in Registers
         /\ f \in Divides => Short(f, m, n) = IF n = 0 THEN 0 ELSE m \div n
         /\ f \notin Divides => Short(f, m, n) = IF n = 0 THEN 0 ELSE m % n
<1>0. m \in Nat /\ n \in Nat /\ m < M /\ n < M /\ M \in Nat \ {0}
  BY Modulus DEF Registers
<1>1. n = 1 => m \div n = m /\ m % n = 0
  <2> SUFFICES ASSUME n = 1 PROVE m \div 1 = m /\ m % 1 = 0
    OBVIOUS
  <2>1. m * 1 + 0 = m /\ 1 \in Nat \ {0} /\ 0 \in 0 .. 1 - 1
    BY <1>0
  <2>2. (m * 1 + 0) \div 1 = m /\ (m * 1 + 0) % 1 = 0
    BY <1>0, <2>1, DivModUnique
  <2>3. QED
    BY <2>1, <2>2
<1>2. n # 0 /\ m = n => m \div n = 1 /\ m % n = 0
  <2> SUFFICES ASSUME n # 0, m = n PROVE n \div n = 1 /\ n % n = 0
    OBVIOUS
  <2>1. 1 * n + 0 = n /\ n \in Nat \ {0} /\ 0 \in 0 .. n - 1
    BY <1>0
  <2>2. (1 * n + 0) \div n = 1 /\ (1 * n + 0) % n = 0
    BY <2>1, DivModUnique
  <2>3. QED
    BY <2>1, <2>2
<1>3. n # 0 /\ m < n => m \div n = 0 /\ m % n = m
  <2> SUFFICES ASSUME n # 0, m < n PROVE m \div n = 0 /\ m % n = m
    OBVIOUS
  <2>1. 0 * n + m = m /\ n \in Nat \ {0} /\ m \in 0 .. n - 1
    BY <1>0
  <2>2. (0 * n + m) \div n = 0 /\ (0 * n + m) % n = m
    BY <2>1, DivModUnique
  <2>3. QED
    BY <2>1, <2>2
<1>4. n # 0 => m \div n \in Registers /\ m % n \in Registers
  <2> SUFFICES ASSUME n # 0 PROVE m \div n \in Registers /\ m % n \in Registers
    OBVIOUS
  <2>1. n \in Nat \ {0}
    BY <1>0
  <2>2. PICK q \in Nat, t \in 0 .. n - 1 : q = m \div n /\ t = m % n /\ m = q * n + t
    BY <1>0, <2>1, DivModNat
  <2>3. q <= q * n
    BY <2>1
  <2>4. PICK z \in Nat : z = q * n
    BY <2>1
  <2>5. m = z + t /\ q <= z
    BY <2>2, <2>3, <2>4
  <2>6. q < M /\ t < M
    BY <1>0, <2>5
  <2>7. q \in Registers /\ t \in Registers
    BY <1>0, <2>6 DEF Registers
  <2>8. QED
    BY <2>2, <2>7
<1>5. 0 \in Registers
  BY <1>0 DEF Registers
<1>6. m <= n /\ m # n => m < n
  BY <1>0
<1>7. ~(m <= n) => ~(m < n) /\ m # n
  BY <1>0
<1>8. PowerOfTwo(n) => Lsr(m, Width - 1 - Clz(n)) = m \div n
  BY Zenon DEF PowerOfTwo, Lsr
<1>9. CASE f \in Divides
  <2>1. CASE n = 0
    BY <1>5, <1>9, <2>1, Zenon DEF Short
  <2>2. CASE n # 0 /\ n = 1
    BY <1>1, <1>9, <2>2, Zenon DEF Short
  <2>3. CASE n # 0 /\ n # 1 /\ m <= n
    BY <1>2, <1>3, <1>4, <1>6, <1>9, <2>3, Zenon DEF Short
  <2>4. CASE n # 0 /\ n # 1 /\ ~(m <= n)
    <3>1. PowerOfTwo(n)
      BY <2>4, Zenon DEF IsShort
    <3>2. QED
      BY <1>4, <1>8, <1>9, <2>4, <3>1, Zenon DEF Short
  <2>5. QED
    BY <2>1, <2>2, <2>3, <2>4, Zenon
<1>10. CASE f \notin Divides
  <2>1. CASE n = 0
    BY <1>5, <1>10, <2>1, Zenon DEF Short
  <2>2. CASE n # 0 /\ n = 1
    BY <1>1, <1>5, <1>10, <2>2, Zenon DEF Short
  <2>3. CASE n # 0 /\ n # 1 /\ m <= n
    BY <1>2, <1>3, <1>5, <1>6, <1>10, <2>3, Zenon DEF Short
  <2>4. CASE n # 0 /\ n # 1 /\ ~(m <= n)
    BY <1>4, <1>7, <1>10, <2>4, Zenon DEF Short
  <2>5. QED
    BY <2>1, <2>2, <2>3, <2>4, Zenon
<1>11. QED
  BY <1>9, <1>10, Zenon

-----------------------------------------------------------------------------
(* The invariant.                                                          *)

Looping(f, x, y) == f \in Functions /\ 1 <= Mag(f, y) /\ Mag(f, y) < Mag(f, x)

\* In a loop what is left is less than twice the divisor, which is at a place of
\* n; at the end the result is the exact one.
State(f, x, y, where, dd, ds, r, c, o, res) ==
    /\ f \in {"none"} \cup Functions
    /\ where \in {"div", "mod", "tail", "over"}
    /\ x \in Registers /\ y \in Registers /\ dd \in Registers /\ ds \in Registers
    /\ r \in Registers /\ c \in Registers /\ res \in Registers
    /\ o \in -4 .. Width
    /\ where # "over" => Looping(f, x, y)
    /\ where = "div" => /\ f \in Divides
                        /\ \E s \in Nat : PassDiv(Mag(f, x), Mag(f, y), dd, ds, r, c, s)
    /\ where \in {"mod", "tail"} =>
         f \notin Divides /\ o + 3 \in Nat /\ PassMod(Mag(f, x), Mag(f, y), dd, ds, o + 3)
    /\ where = "mod" => o >= 0
    /\ where = "tail" => o \in -3 .. -1
    /\ where = "over" /\ f # "none" => Exact(f, x, y, res)

DivInv ==
    State(fn, num, den, loop, dividend, divisor, result, curbit, order, quotient)

\* The magnitudes of a division that loops, as numbers.
LEMMA LoopingNumbers ==
  ASSUME NEW f, NEW x \in Registers, NEW y \in Registers, Looping(f, x, y)
  PROVE  \E m \in Nat, n \in Nat \ {0} :
            m = Mag(f, x) /\ n = Mag(f, y) /\ m < M /\ n < m /\ y # 0
<1>1. Mag(f, x) \in 0 .. M - 1 /\ Mag(f, y) \in 0 .. M - 1 /\ (Mag(f, y) = 0 <=> y = 0)
  BY NumRight DEF Registers
<1>2. 1 <= Mag(f, y) /\ Mag(f, y) < Mag(f, x)
  BY DEF Looping
<1>3. QED
  BY <1>1, <1>2, Modulus

\* Registers hold what shifts and places leave.
LEMMA Smaller ==
  ASSUME NEW x \in Registers, NEW y \in Nat, y <= x
  PROVE  y \in Registers
  BY Modulus DEF Registers

LEMMA RegisterType ==
  ASSUME NEW x \in Registers
  PROVE  x \in Nat /\ x < M /\ Lsr(x, 4) \in Registers
<1>1. x \in Nat /\ x < M
  BY Modulus DEF Registers
<1>2. Lsr(x, 4) \in Nat /\ Lsr(x, 4) <= x
  BY <1>1, LsrType
<1>3. QED
  BY <1>1, <1>2, Smaller

\* A shift by the four places of a pass.
LEMMA ShiftPass ==
  ASSUME NEW n \in Nat, NEW s \in Nat, s >= 4
  PROVE  /\ Lsr(n * 2^s, 4) = n * 2^(s - 4)
         /\ Lsr(2^s, 4) = 2^(s - 4)
         /\ n * 2^(s - 3) = 2 * (n * 2^(s - 4))
         /\ s - 4 \in Nat
<1>1. PICK d \in Nat : d = s - 4 /\ s - 3 = d + 1
  <2>1. s - 4 \in Nat /\ s - 3 = (s - 4) + 1
    OBVIOUS
  <2>2. QED
    BY <2>1
<1>2. Lsr(n * 2^s, 4) = n * 2^(s - 4)
  BY LsrBack
<1>3. Lsr(1 * 2^s, 4) = 1 * 2^(s - 4)
  <2>1. PICK o \in Nat : o = 1
    OBVIOUS
  <2>2. Lsr(o * 2^s, 4) = o * 2^(s - 4)
    BY LsrBack
  <2>3. QED
    BY <2>1, <2>2, Zenon
<1>4. PICK p \in Nat, u \in Nat : p = 2^d /\ u = 2^s
  BY PowerType, SMTT(30)
<1>5. 2^(d + 1) = 2 * p
  BY <1>4, PowerNext
<1>6. n * (2 * p) = 2 * (n * p) /\ 1 * p = p /\ 1 * u = u
  OBVIOUS
<1>7. QED
  BY <1>1, <1>2, <1>3, <1>4, <1>5, <1>6

-----------------------------------------------------------------------------
(* The steps.                                                              *)

LEMMA RoutineNames ==
  /\ "none" \notin Functions /\ "none" \notin Divides /\ Divides \subseteq Functions
  BY DEF Functions, Divides, Signed

LEMMA ShortStep ==
  ASSUME DivInv, NEW f \in Functions, NEW x \in Operands, NEW y \in Operands, CallShort(f, x, y)
  PROVE  DivInv'
<1>1. x \in Registers /\ y \in Registers
  BY WidthType DEF Registers, M
<1>2. PICK m \in Registers, n \in Registers : m = Mag(f, x) /\ n = Mag(f, y)
  BY <1>1, NumRight DEF Registers
<1>3. IsShort(m, n) /\ quotient' = Sign(f, x, y, Short(f, m, n))
  BY <1>2, Zenon DEF CallShort, Mag
<1>4. (n = 0) <=> (y = 0)
  BY <1>1, <1>2, NumRight DEF Registers
<1>5. PICK d \in Registers : d = Short(f, m, n)
  BY <1>3, ShortRight
<1>6. f \in Divides => d = QuotientOf(f, x, y)
  BY <1>2, <1>3, <1>4, <1>5, ShortRight, ZenonT(60) DEF QuotientOf
<1>7. f \notin Divides => d = RemainderOf(f, x, y)
  BY <1>2, <1>3, <1>4, <1>5, ShortRight, ZenonT(60) DEF RemainderOf
<1>8. Exact(f, x, y, Sign(f, x, y, d))
  BY <1>1, <1>6, <1>7, DivideExact, RemainderExact, Zenon
<1>9. Sign(f, x, y, d) \in Registers
  BY <1>1, SignRight
<1>10. State(f, x, y, "over", dividend, divisor, result, curbit, order, Sign(f, x, y, d))
  BY <1>1, <1>8, <1>9 DEF DivInv, State
<1>11. /\ fn' = f /\ num' = x /\ den' = y /\ loop' = "over" /\ dividend' = dividend
       /\ divisor' = divisor /\ result' = result /\ curbit' = curbit /\ order' = order
       /\ quotient' = Sign(f, x, y, d)
  BY <1>3, <1>5, Zenon DEF CallShort
<1>12. QED
  BY <1>10, <1>11, Zenon DEF DivInv

\* The first state of a loop.
LEMMA FirstPass ==
  ASSUME NEW m \in Nat, NEW n \in Nat, NEW s \in Nat, m < 2 * (n * 2^s)
  PROVE  PassMod(m, n, m, n * 2^s, s) /\ PassDiv(m, n, m, n * 2^s, 0, 2^s, s)
<1>1. m = n * 0 + m
  OBVIOUS
<1>2. \E q \in Nat : m = n * q + m
  <2>1. 0 \in Nat
    OBVIOUS
  <2>2. QED
    BY <1>1, <2>1, Zenon
<1>3. QED
  BY <1>1, <1>2, Zenon DEF PassMod, PassDiv

LEMMA LoopStep ==
  ASSUME DivInv, NEW f \in Functions, NEW x \in Operands, NEW y \in Operands, CallLoop(f, x, y)
  PROVE  DivInv'
<1>1. x \in Registers /\ y \in Registers
  BY WidthType DEF Registers, M
<1>2. PICK m \in Registers, n \in Registers : m = Mag(f, x) /\ n = Mag(f, y)
  BY <1>1, NumRight DEF Registers
<1> DEFINE shift == Clz(n) - Clz(m)
<1>3. /\ ~IsShort(m, n) /\ fn' = f /\ num' = x /\ den' = y
      /\ dividend' = m /\ divisor' = n * 2^shift /\ result' = 0 /\ quotient' = quotient
      /\ f \in Divides => loop' = "div" /\ curbit' = 2^shift /\ order' = order
      /\ f \notin Divides => /\ loop' = IF shift - 3 < 0 THEN "tail" ELSE "mod"
                             /\ order' = shift - 3 /\ curbit' = curbit
  BY <1>2, Zenon DEF CallLoop, Mag
<1> HIDE DEF shift
<1>4. m \in Nat /\ n \in Nat /\ 1 <= n /\ n < m
  <2>1. n # 0 /\ n # 1 /\ ~(m <= n)
    BY <1>3, Zenon DEF IsShort
  <2>2. m \in Nat /\ n \in Nat
    BY RegisterType
  <2>3. QED
    BY <2>1, <2>2
<1>5. PICK s \in 0 .. Width - 1 : shift = s /\ m < 2 * (n * 2^s) /\ n * 2^s < 2^Width
  <2>1. m \in 1 .. 2^Width - 1 /\ n \in 1 .. 2^Width - 1
    BY <1>4 DEF Registers, M
  <2>2. QED
    BY <1>4, <2>1, Aligned DEF shift
<1>6. s \in Nat /\ Width \in Nat
  BY WidthType
<1>7. Looping(f, x, y)
  BY <1>2, <1>4, Zenon DEF Looping
<1>8. n * 2^s \in Registers /\ 2^s \in Registers /\ 0 \in Registers
  <2>1. PICK p \in Nat \ {0}, z \in Nat : p = 2^s /\ z = n * p /\ z < M
    BY <1>4, <1>5, <1>6, PowerType DEF M
  <2>2. p <= n * p
    BY <1>4
  <2>3. p < M /\ 0 < M
    BY <2>1, <2>2, Modulus
  <2>4. p \in Registers /\ z \in Registers /\ 0 \in Registers
    BY <2>1, <2>3, Modulus DEF Registers
  <2>5. QED
    BY <2>1, <2>4
<1>9. PassMod(m, n, m, n * 2^s, s) /\ PassDiv(m, n, m, n * 2^s, 0, 2^s, s)
  BY <1>4, <1>5, <1>6, FirstPass
<1>10. CASE f \in Divides
  <2>1. \E t \in Nat : PassDiv(Mag(f, x), Mag(f, y), m, n * 2^s, 0, 2^s, t)
    BY <1>2, <1>6, <1>9, Zenon
  <2>2. State(f, x, y, "div", m, n * 2^s, 0, 2^s, order, quotient)
    BY <1>1, <1>7, <1>8, <1>10, <2>1 DEF DivInv, State
  <2>3. /\ fn' = f /\ num' = x /\ den' = y /\ dividend' = m /\ divisor' = n * 2^s /\ result' = 0
        /\ quotient' = quotient /\ loop' = "div" /\ curbit' = 2^s /\ order' = order
    BY <1>3, <1>5, <1>10, Zenon
  <2>4. QED
    BY <2>2, <2>3, Zenon DEF DivInv
<1>11. CASE f \notin Divides
  <2>1. PICK o \in Int, w \in {"tail", "mod"} : o = s - 3 /\ o + 3 = s /\ w = IF o < 0 THEN "tail" ELSE "mod"
    BY <1>6
  <2>2. PassMod(Mag(f, x), Mag(f, y), m, n * 2^s, o + 3) /\ o + 3 \in Nat
    BY <1>2, <1>6, <1>9, <2>1, Zenon
  <2>3. o \in -4 .. Width /\ (o < 0 => o \in -3 .. -1) /\ (~(o < 0) => o >= 0)
    BY <1>6, <2>1
  <2>4. State(f, x, y, w, m, n * 2^s, 0, curbit, o, quotient)
    <3>1. CASE o < 0
      <4>1. w = "tail"
        BY <2>1, <3>1
      <4>2. QED
        BY <1>1, <1>7, <1>8, <1>11, <2>2, <2>3, <3>1, <4>1 DEF DivInv, State
    <3>2. CASE ~(o < 0)
      <4>1. w = "mod"
        BY <2>1, <3>2
      <4>2. QED
        BY <1>1, <1>7, <1>8, <1>11, <2>2, <2>3, <3>2, <4>1 DEF DivInv, State
    <3>3. QED
      BY <3>1, <3>2
  <2>5. /\ fn' = f /\ num' = x /\ den' = y /\ dividend' = m /\ divisor' = n * 2^s /\ result' = 0
        /\ quotient' = quotient /\ curbit' = curbit /\ order' = o /\ loop' = w
    BY <1>3, <1>5, <1>11, <2>1, Zenon
  <2>6. QED
    BY <2>4, <2>5, Zenon DEF DivInv
<1>12. QED
  BY <1>10, <1>11

LEMMA DivStep ==
  ASSUME DivInv, DivLoop
  PROVE  DivInv'
<1>1. /\ loop = "div" /\ fn \in Divides /\ fn \in Functions /\ Looping(fn, num, den)
      /\ num \in Registers /\ den \in Registers /\ dividend \in Registers /\ divisor \in Registers
      /\ result \in Registers /\ curbit \in Registers /\ quotient \in Registers
      /\ order \in -4 .. Width
  BY RoutineNames DEF DivInv, State, DivLoop
<1>2. PICK s \in Nat :
         PassDiv(Mag(fn, num), Mag(fn, den), dividend, divisor, result, curbit, s)
  BY <1>1, Zenon DEF DivInv, State
<1>3. PICK m \in Nat, n \in Nat \ {0} :
         m = Mag(fn, num) /\ n = Mag(fn, den) /\ m < M /\ n < m /\ den # 0
  BY <1>1, LoopingNumbers
<1>4. dividend \in Nat /\ divisor \in Nat /\ result \in Nat /\ curbit \in Nat
  BY <1>1, RegisterType
<1>5. PassDiv(m, n, dividend, divisor, result, curbit, s)
  BY <1>2, <1>3, Zenon
<1>6. /\ Batch \in Settling /\ Batch.rest <= dividend
      /\ s >= 3 => LeftDiv(m, n, Batch, 2^(s - 3))
      /\ s <= 3 => Batch.bits = m \div n
  BY <1>4, <1>5, PassDivRight
<1>7. PICK u \in Nat, v \in Nat : u = Batch.rest /\ v = Batch.bits
  BY <1>6 DEF Settling
<1>8. u \in Registers
  BY <1>1, <1>6, <1>7, Smaller
<1>9. s >= 3 => u < n * 2^(s - 3) /\ m = n * v + u
  BY <1>6, <1>7, Zenon DEF LeftDiv
<1>10. v \in Registers
  <2>1. CASE s <= 3
    <3>1. v = m \div n
      BY <1>6, <1>7, <2>1
    <3>2. PICK q \in Nat, t \in 0 .. n - 1 : q = m \div n /\ m = q * n + t
      BY DivModNat
    <3>3. PICK z \in Nat : z = q * n /\ q <= z
      OBVIOUS
    <3>4. q <= m
      BY <3>2, <3>3
    <3>5. QED
      BY <1>3, <3>1, <3>2, <3>4, Modulus DEF Registers
  <2>2. CASE s > 3
    <3>1. m = n * v + u
      BY <1>9, <2>2
    <3>2. PICK z \in Nat : z = n * v /\ v <= z
      OBVIOUS
    <3>3. v <= m
      BY <3>1, <3>2
    <3>4. QED
      BY <1>3, <3>3, Modulus DEF Registers
  <2>3. QED
    BY <2>1, <2>2
<1>11. divisor = n * 2^s /\ curbit = 2^s
  BY <1>5 DEF PassDiv
<1>12. ASSUME u # 0, Lsr(curbit, 4) # 0
       PROVE  State(fn, num, den, "div", u, Lsr(divisor, 4), v, Lsr(curbit, 4), order, quotient)
  <2>1. s >= 4
    <3>1. CASE s < 4
      BY <1>11, <1>12, <3>1, LsrOut
    <3>2. QED
      BY <3>1
  <2>2. /\ Lsr(divisor, 4) = n * 2^(s - 4) /\ Lsr(curbit, 4) = 2^(s - 4)
        /\ n * 2^(s - 3) = 2 * (n * 2^(s - 4)) /\ s - 4 \in Nat
    BY <1>11, <2>1, ShiftPass
  <2>3. u < 2 * (n * 2^(s - 4)) /\ m = n * v + u
    BY <1>9, <2>1, <2>2
  <2>4. PassDiv(m, n, u, Lsr(divisor, 4), v, Lsr(curbit, 4), s - 4)
    BY <2>2, <2>3, Zenon DEF PassDiv
  <2>5. \E t \in Nat : PassDiv(Mag(fn, num), Mag(fn, den), u, Lsr(divisor, 4), v, Lsr(curbit, 4), t)
    BY <1>3, <2>2, <2>4, Zenon
  <2>6. Lsr(divisor, 4) \in Registers /\ Lsr(curbit, 4) \in Registers
    BY <1>1, RegisterType
  <2>7. QED
    BY <1>1, <1>8, <1>10, <2>5, <2>6 DEF State
<1>13. ASSUME ~(u # 0 /\ Lsr(curbit, 4) # 0)
       PROVE  State(fn, num, den, "over", u, divisor, v, curbit, order, Sign(fn, num, den, v))
  <2>1. v = m \div n
    <3>1. CASE s <= 3
      BY <1>6, <1>7, <3>1
    <3>2. CASE s > 3
      <4>1. s >= 4
        BY <3>2
      <4>2. Lsr(curbit, 4) = 2^(s - 4) /\ s - 4 \in Nat
        BY <1>11, <4>1, ShiftPass
      <4>3. u = 0
        BY <1>13, <4>2, PowerType
      <4>4. m = n * v + 0
        BY <1>9, <3>2, <4>3
      <4>5. m = v * n + 0 /\ 0 \in 0 .. n - 1
        BY <4>4
      <4>6. (v * n + 0) \div n = v
        BY <4>5, DivModUnique
      <4>7. QED
        BY <4>5, <4>6, Zenon
    <3>3. QED
      BY <3>1, <3>2
  <2>2. v = QuotientOf(fn, num, den)
    BY <1>3, <2>1, Zenon DEF QuotientOf
  <2>3. Exact(fn, num, den, Sign(fn, num, den, v))
    BY <1>1, <1>10, <2>2, DivideExact
  <2>4. Sign(fn, num, den, v) \in Registers
    BY <1>1, <1>10, SignRight
  <2>5. QED
    BY <1>1, <1>8, <1>10, <2>3, <2>4 DEF State
<1>14. CASE u # 0 /\ Lsr(curbit, 4) # 0
  <2>1. /\ fn' = fn /\ num' = num /\ den' = den /\ loop' = "div" /\ dividend' = u
        /\ divisor' = Lsr(divisor, 4) /\ result' = v /\ curbit' = Lsr(curbit, 4)
        /\ order' = order /\ quotient' = quotient
    BY <1>1, <1>7, <1>14, Zenon DEF DivLoop
  <2>2. QED
    BY <1>12, <1>14, <2>1, Zenon DEF DivInv
<1>15. CASE ~(u # 0 /\ Lsr(curbit, 4) # 0)
  <2>1. /\ fn' = fn /\ num' = num /\ den' = den /\ loop' = "over" /\ dividend' = u
        /\ divisor' = divisor /\ result' = v /\ curbit' = curbit
        /\ order' = order /\ quotient' = Sign(fn, num, den, v)
    BY <1>1, <1>7, <1>15, Zenon DEF DivLoop
  <2>2. QED
    BY <1>13, <1>15, <2>1, Zenon DEF DivInv
<1>16. QED
  BY <1>14, <1>15, Zenon

\* What is left below n is the remainder, and so is 0.
LEMMA RemainderLeft ==
  ASSUME NEW m \in Nat, NEW n \in Nat \ {0}, NEW u \in Nat, NEW q \in Nat,
         m = n * q + u, u < n
  PROVE  u = m % n
<1>1. m = q * n + u /\ u \in 0 .. n - 1
  <2>1. n * q = q * n
    OBVIOUS
  <2>2. m = q * n + u
    BY <2>1, Zenon
  <2>3. QED
    BY <2>2
<1>2. (q * n + u) % n = u
  BY <1>1, DivModUnique
<1>3. QED
  BY <1>1, <1>2, Zenon

\* The end of a remainder routine.
LEMMA RemainderEnds ==
  ASSUME NEW f \in Functions, f \notin Divides, NEW x \in Registers, NEW y \in Registers,
         y # 0, NEW u \in Registers, u = Mag(f, x) % Mag(f, y),
         NEW ds \in Registers, NEW r \in Registers, NEW c \in Registers, NEW o \in -4 .. Width
  PROVE  State(f, x, y, "over", u, ds, r, c, o, Sign(f, x, y, u))
<1>1. u = RemainderOf(f, x, y)
  BY Zenon DEF RemainderOf
<1>2. Exact(f, x, y, Sign(f, x, y, u))
  BY <1>1, RemainderExact
<1>3. Sign(f, x, y, u) \in Registers
  BY SignRight
<1>4. QED
  BY <1>2, <1>3 DEF State

LEMMA ModStep ==
  ASSUME DivInv, ModLoop
  PROVE  DivInv'
<1>1. /\ loop = "mod" /\ fn \notin Divides /\ fn \in Functions /\ Looping(fn, num, den)
      /\ num \in Registers /\ den \in Registers /\ dividend \in Registers /\ divisor \in Registers
      /\ result \in Registers /\ curbit \in Registers /\ quotient \in Registers
      /\ order \in -4 .. Width /\ order >= 0
      /\ PassMod(Mag(fn, num), Mag(fn, den), dividend, divisor, order + 3)
  BY DEF DivInv, State, ModLoop, Looping
<1>2. PICK s \in Nat, o \in Nat : s = order + 3 /\ o = order /\ o <= Width /\ s - 3 = o
  BY <1>1, WidthType
<1>3. PICK m \in Nat, n \in Nat \ {0} :
         m = Mag(fn, num) /\ n = Mag(fn, den) /\ m < M /\ n < m /\ den # 0
  BY <1>1, LoopingNumbers
<1>4. dividend \in Nat /\ divisor \in Nat /\ result \in Nat /\ curbit \in Nat
  BY <1>1, RegisterType
<1>5. PassMod(m, n, dividend, divisor, s)
  BY <1>1, <1>2, <1>3, Zenon
<1>6. /\ Batch \in Settling /\ Batch.rest <= dividend
      /\ Left(m, n, Batch, 2^(s - 3))
  <2>1. s >= 3
    BY <1>2
  <2>2. QED
    BY <1>4, <1>5, <2>1, PassModRight
<1>7. PICK u \in Nat : u = Batch.rest
  BY <1>6 DEF Settling
<1>8. u \in Registers
  BY <1>1, <1>6, <1>7, Smaller
<1>9. PICK q \in Nat : m = n * q + u
  BY <1>6, <1>7, Zenon DEF Left
<1>10. u < n * 2^o
  BY <1>2, <1>6, <1>7, Zenon DEF Left
<1>11. divisor = n * 2^s
  BY <1>5 DEF PassMod
<1>12. Lsr(divisor, 4) \in Registers
  BY <1>1, RegisterType
<1>13. PICK l \in Int : l = IF u >= 1 THEN order - 4 ELSE order
  BY <1>2
<1>14. l \in -4 .. Width
  <2>1. l = o - 4 \/ l = o
    BY <1>2, <1>13
  <2>2. QED
    BY <1>2, <2>1, WidthType
<1>15. ASSUME u # 0, o # 0
       PROVE  l + 3 \in Nat /\ PassMod(Mag(fn, num), Mag(fn, den), u, Lsr(divisor, 4), l + 3)
  <2>1. s >= 4 /\ l + 3 = s - 4
    BY <1>2, <1>13, <1>15
  <2>2. /\ Lsr(divisor, 4) = n * 2^(s - 4) /\ n * 2^(s - 3) = 2 * (n * 2^(s - 4))
        /\ s - 4 \in Nat
    BY <1>11, <2>1, ShiftPass
  <2>3. u < 2 * (n * 2^(s - 4))
    BY <1>2, <1>10, <2>2, Zenon
  <2>4. PassMod(m, n, u, Lsr(divisor, 4), s - 4)
    BY <1>9, <2>2, <2>3, Zenon DEF PassMod
  <2>5. QED
    BY <1>3, <2>1, <2>2, <2>4, Zenon
<1>16. o = 0 => u < n
  <2> SUFFICES ASSUME o = 0 PROVE u < n
    OBVIOUS
  <2>1. 2^0 = 1 /\ n * 1 = n
    OBVIOUS
  <2>2. u < n * 2^0
    BY <1>10, Zenon
  <2>3. QED
    BY <2>1, <2>2, Zenon
<1>17. u = 0 => u < n
  OBVIOUS
<1>18. u < n => u = m % n
  BY <1>9, RemainderLeft
<1>19. ASSUME u = 0 \/ o = 0
       PROVE  State(fn, num, den, "over", u, Lsr(divisor, 4), result, curbit, l, Sign(fn, num, den, u))
  <2>1. u = Mag(fn, num) % Mag(fn, den)
    BY <1>3, <1>16, <1>17, <1>18, <1>19, Zenon
  <2>2. QED
    BY <1>1, <1>3, <1>8, <1>12, <1>14, <2>1, RemainderEnds
<1>20. /\ fn' = fn /\ num' = num /\ den' = den /\ dividend' = u /\ divisor' = Lsr(divisor, 4)
       /\ order' = l /\ result' = result /\ curbit' = curbit
       /\ IF u >= 1 /\ l >= 0
          THEN loop' = loop /\ quotient' = quotient
          ELSE IF l % 4 = 0 \/ u = 0
          THEN loop' = "over" /\ quotient' = Sign(fn, num, den, u)
          ELSE loop' = "tail" /\ quotient' = quotient
  BY <1>7, <1>13, Zenon DEF ModLoop
<1>21. CASE u = 0
  <2>1. loop' = "over" /\ quotient' = Sign(fn, num, den, u)
    <3>1. ~(u >= 1)
      BY <1>21
    <3>2. QED
      BY <1>20, <1>21, <3>1, Zenon
  <2>2. QED
    BY <1>19, <1>20, <1>21, <2>1, Zenon DEF DivInv
<1>22. CASE u # 0 /\ l >= 0
  <2>1. u >= 1 /\ o # 0
    BY <1>2, <1>13, <1>22
  <2>2. loop' = "mod" /\ quotient' = quotient
    BY <1>1, <1>20, <1>22, <2>1, Zenon
  <2>3. State(fn, num, den, "mod", u, Lsr(divisor, 4), result, curbit, l, quotient)
    BY <1>1, <1>8, <1>12, <1>14, <1>15, <1>22, <2>1 DEF State
  <2>4. QED
    BY <1>20, <2>2, <2>3, Zenon DEF DivInv
<1>23. CASE u # 0 /\ ~(l >= 0)
  <2>1. u >= 1 /\ l = o - 4 /\ o \in 0 .. 3
    BY <1>2, <1>13, <1>23
  <2>2. CASE o = 0
    <3>1. l % 4 = 0
      BY <2>1, <2>2
    <3>2. loop' = "over" /\ quotient' = Sign(fn, num, den, u)
      BY <1>20, <1>23, <3>1, Zenon
    <3>3. QED
      BY <1>19, <1>20, <2>2, <3>2, Zenon DEF DivInv
  <2>3. CASE o # 0
    <3>1. l \in -3 .. -1 /\ l % 4 # 0
      BY <2>1, <2>3
    <3>2. loop' = "tail" /\ quotient' = quotient
      BY <1>20, <1>23, <3>1, Zenon
    <3>3. State(fn, num, den, "tail", u, Lsr(divisor, 4), result, curbit, l, quotient)
      BY <1>1, <1>8, <1>12, <1>14, <1>15, <1>23, <2>3, <3>1 DEF State
    <3>4. QED
      BY <1>20, <3>2, <3>3, Zenon DEF DivInv
  <2>4. QED
    BY <2>2, <2>3, Zenon
<1>24. QED
  BY <1>21, <1>22, <1>23, Zenon

LEMMA TailStep ==
  ASSUME DivInv, ModTail
  PROVE  DivInv'
<1>1. /\ loop = "tail" /\ fn \notin Divides /\ fn \in Functions /\ Looping(fn, num, den)
      /\ num \in Registers /\ den \in Registers /\ dividend \in Registers /\ divisor \in Registers
      /\ result \in Registers /\ curbit \in Registers /\ order \in -4 .. Width
      /\ order \in -3 .. -1
      /\ PassMod(Mag(fn, num), Mag(fn, den), dividend, divisor, order + 3)
  BY DEF DivInv, State, ModTail, Looping
<1>2. PICK s \in Nat : s = order + 3 /\ s \in 0 .. 2
  BY <1>1
<1>3. PICK m \in Nat, n \in Nat \ {0} :
         m = Mag(fn, num) /\ n = Mag(fn, den) /\ m < M /\ n < m /\ den # 0
  BY <1>1, LoopingNumbers
<1>4. dividend \in Nat /\ divisor \in Nat /\ result \in Nat /\ curbit \in Nat
  BY <1>1, RegisterType
<1>5. PassMod(m, n, dividend, divisor, s)
  BY <1>1, <1>2, <1>3, Zenon
<1> DEFINE one == Settle(Unsettled, 0)
           two == Settle(one, 1)
           three == Settle(two, 2)
<1>6. /\ one \in Settling /\ two \in Settling /\ three \in Settling
      /\ one.rest <= dividend /\ two.rest <= dividend /\ three.rest <= dividend
      /\ Left(m, n, one, 2^s)
      /\ s >= 1 => Left(m, n, two, 2^(s - 1))
      /\ s >= 2 => Left(m, n, three, 2^(s - 2))
  BY <1>4, <1>5, PassModRight, Zenon
<1> DEFINE u == IF order = -3 THEN one.rest ELSE IF order = -2 THEN two.rest ELSE three.rest
<1>7. /\ fn' = fn /\ num' = num /\ den' = den /\ loop' = "over" /\ dividend' = u /\ divisor' = divisor
      /\ result' = result /\ curbit' = curbit /\ order' = order
      /\ quotient' = Sign(fn, num, den, u)
  BY Zenon DEF ModTail
<1>8. PICK acc \in Settling : u = acc.rest /\ acc.rest <= dividend /\ Left(m, n, acc, 2^0)
  <2> HIDE DEF one, two, three
  <2>1. CASE s = 0
    <3>1. u = one.rest
      BY <1>1, <1>2, <2>1
    <3>2. Left(m, n, one, 2^0)
      BY <1>6, <2>1
    <3>3. QED
      BY <1>6, <3>1, <3>2, Zenon
  <2>2. CASE s = 1
    <3>1. u = two.rest /\ s >= 1 /\ s - 1 = 0
      BY <1>1, <1>2, <2>2
    <3>2. QED
      BY <1>6, <3>1, Zenon
  <2>3. CASE s = 2
    <3>1. u = three.rest /\ s >= 2 /\ s - 2 = 0
      BY <1>1, <1>2, <2>3
    <3>2. QED
      BY <1>6, <3>1, Zenon
  <2>4. QED
    BY <1>2, <2>1, <2>2, <2>3
<1> HIDE DEF u, one, two, three
<1>9. u \in Nat /\ u \in Registers
  <2>1. u \in Nat
    BY <1>8 DEF Settling
  <2>2. QED
    BY <1>1, <1>8, <2>1, Smaller
<1>10. u < n /\ \E q \in Nat : m = n * q + u
  <2>1. 2^0 = 1 /\ n * 1 = n
    OBVIOUS
  <2>2. u < n * 2^0 /\ \E q \in Nat : m = n * q + u
    BY <1>8, Zenon DEF Left
  <2>3. QED
    BY <2>1, <2>2, Zenon
<1>11. u = Mag(fn, num) % Mag(fn, den)
  BY <1>3, <1>9, <1>10, RemainderLeft, Zenon
<1>12. State(fn, num, den, "over", u, divisor, result, curbit, order, Sign(fn, num, den, u))
  BY <1>1, <1>3, <1>9, <1>11, RemainderEnds
<1>13. QED
  BY <1>7, <1>12, Zenon DEF DivInv

LEMMA ZeroState ==
  ASSUME NEW o \in -4 .. Width
  PROVE  State("none", 0, 0, "over", 0, 0, 0, 0, 0, 0)
<1>1. 0 \in Registers /\ 0 \in -4 .. Width
  BY Modulus, WidthType DEF Registers
<1>2. QED
  BY <1>1 DEF State

LEMMA DivisionInvariant == DivisionSpec => []DivInv
<1>0. 0 \in -4 .. Width
  BY WidthType
<1>1. DivisionInit => DivInv
  BY <1>0, ZeroState, Zenon DEF DivisionInit, DivInv
<1>2. ASSUME DivInv, [DivisionNext]_divVars PROVE DivInv'
  <2>1. ASSUME NEW f \in Functions, NEW x \in Operands, NEW y \in Operands,
               CallShort(f, x, y) \/ CallLoop(f, x, y)
        PROVE  DivInv'
    BY <1>2, <2>1, ShortStep, LoopStep
  <2>2. CASE DivLoop
    BY <1>2, <2>2, DivStep
  <2>3. CASE ModLoop
    BY <1>2, <2>3, ModStep
  <2>4. CASE ModTail
    BY <1>2, <2>4, TailStep
  <2>5. CASE DivisionReturn
    <3>1. /\ fn' = "none" /\ num' = 0 /\ den' = 0 /\ loop' = "over" /\ dividend' = 0
          /\ divisor' = 0 /\ result' = 0 /\ curbit' = 0 /\ order' = 0 /\ quotient' = 0
      BY <2>5, Zenon DEF DivisionReturn
    <3>2. QED
      BY <1>0, <3>1, ZeroState, Zenon DEF DivInv
  <2>6. CASE UNCHANGED divVars
    <3>1. /\ fn' = fn /\ num' = num /\ den' = den /\ loop' = loop /\ dividend' = dividend
          /\ divisor' = divisor /\ result' = result /\ curbit' = curbit /\ order' = order
          /\ quotient' = quotient
      BY <2>6 DEF divVars
    <3>2. QED
      BY <1>2, <3>1, Zenon DEF DivInv
  <2>7. QED
    BY <1>2, <2>1, <2>2, <2>3, <2>4, <2>5, <2>6, Zenon
       DEF DivisionNext, DivisionRun, Functions
<1>3. QED
  BY <1>1, <1>2, PTL DEF DivisionSpec

\* The registers of the division routines hold Width bits, the count of places of
\* the remainder loop is one that its tail knows.
THEOREM DivisionTypeCorrect == DivisionSpec => []DivisionTypeOK
<1>1. ASSUME DivInv PROVE DivisionTypeOK
  <2>1. {"none"} \cup Functions = {"none", "udivsi3", "umodsi3"} \cup Signed
    BY DEF Functions
  <2>2. QED
    BY <1>1, <2>1 DEF DivInv, State, DivisionTypeOK, Registers, M
<1>2. QED
  BY <1>1, DivisionInvariant, PTL

\* Every quotient and remainder is the one of C (lib1funcs.S, __udivsi3,
\* __umodsi3, __divsi3, __modsi3 and the routines that call them), for registers of
\* every width and all operands and signs.
THEOREM DivisionCorrect == DivisionSpec => []DivisionExact
<1>1. ASSUME DivInv PROVE DivisionExact
  <2>1. Value(num) = Num(fn, num) /\ Value(den) = Num(fn, den)
    BY DEF Value, Num
  <2>2. AbsA = Mag(fn, num) /\ AbsB = Mag(fn, den)
    BY DEF AbsA, AbsB, Mag
  <2>3. (fn # "none" /\ loop = "over") => Exact(fn, num, den, quotient)
    BY <1>1, Zenon DEF DivInv, State
  <2>4. loop = "div" => AbsA = AbsB * result + dividend /\ divisor = AbsB * curbit
    <3> SUFFICES ASSUME loop = "div"
                 PROVE  AbsA = AbsB * result + dividend /\ divisor = AbsB * curbit
      OBVIOUS
    <3>1. PICK s \in Nat :
             PassDiv(Mag(fn, num), Mag(fn, den), dividend, divisor, result, curbit, s)
      BY <1>1, Zenon DEF DivInv, State
    <3>2. QED
      BY <2>2, <3>1, Zenon DEF PassDiv
  <2>5. QED
    BY <2>1, <2>3, <2>4, Zenon DEF DivisionExact, Exact, Rest
<1>2. QED
  BY <1>1, DivisionInvariant, PTL
-----------------------------------------------------------------------------
(* Numbers in text: the value of a text is found a digit at a time, so its *)
(* proofs are inductions over the number of digits.                        *)

\* The value of the characters so far, one more of them at a time.
LEMMA ValueSteps ==
  ASSUME NEW cp \in Seq(Nat), NEW base \in Nat
  PROVE  /\ ValueTo(cp, base, 0) = 0
         /\ \A n \in 0 .. Len(cp) : ValueTo(cp, base, n) \in 0 .. ULongLong - 1
         /\ \A n \in 1 .. Len(cp) :
               ValueTo(cp, base, n) = (ValueTo(cp, base, n - 1) * base + DigitValue(cp[n])) % ULongLong
<1> DEFINE S == 0 .. ULongLong - 1
           d == [k \in 1 .. Len(cp) |-> DigitValue(cp[k])]
           next == [a \in S \X Nat |->
                      IF a[2] \in 1 .. Len(cp) THEN (a[1] * base + d[a[2]]) % ULongLong ELSE 0]
           Cut(f) == [k \in 0 .. Len(cp) |->
                          IF k = 0 THEN 0 ELSE (f[k - 1] * base + DigitValue(cp[k])) % ULongLong]
<1>1. ULongLong \in Nat \ {0} /\ 0 \in S /\ Len(cp) \in Nat
  BY NumbersAssumption
<1>2. \A x \in S, c \in Int : (x * base + c) % ULongLong \in S
  <2> SUFFICES ASSUME NEW x \in S, NEW c \in Int PROVE (x * base + c) % ULongLong \in S
    OBVIOUS
  <2>1. PICK y \in Int : y = x * base + c
    OBVIOUS
  <2>2. y % ULongLong \in S
    BY <1>1, DivMod
  <2>3. QED
    BY <2>1, <2>2
<1>3. d \in [1 .. Len(cp) -> Int]
  <2>1. \A c \in Nat : DigitValue(c) \in Int
    BY DEF DigitValue, IsDigit
  <2>2. \A k \in 1 .. Len(cp) : cp[k] \in Nat
    OBVIOUS
  <2>3. QED
    BY <2>1, <2>2
<1>4. \A k \in 1 .. Len(cp) : d[k] = DigitValue(cp[k])
  OBVIOUS
<1> HIDE DEF d, S
<1>5. next \in [S \X Nat -> S]
  <2>1. ASSUME NEW a \in S \X Nat, a[2] \in 1 .. Len(cp) PROVE (a[1] * base + d[a[2]]) % ULongLong \in S
    <3>1. a[1] \in S /\ d[a[2]] \in Int
      BY <1>3, <2>1
    <3>2. QED
      BY <1>2, <3>1
  <2>2. QED
    BY <1>1, <2>1
<1>6. \A x \in S, k \in 1 .. Len(cp) : next[<<x, k>>] = (x * base + d[k]) % ULongLong
  <2> SUFFICES ASSUME NEW x \in S, NEW k \in 1 .. Len(cp)
               PROVE  next[<<x, k>>] = (x * base + d[k]) % ULongLong
    OBVIOUS
  <2>1. k \in Nat
    BY <1>1
  <2>2. QED
    BY <2>1
<1> HIDE DEF next
<1>7. PICK f \in [0 .. Len(cp) -> S] : Follows(f, 0, next, Len(cp))
  BY <1>1, <1>5, Recursion
<1>8. \A n \in 1 .. Len(cp) : f[n] = (f[n - 1] * base + DigitValue(cp[n])) % ULongLong
  <2> SUFFICES ASSUME NEW n \in 1 .. Len(cp)
               PROVE  f[n] = (f[n - 1] * base + DigitValue(cp[n])) % ULongLong
    OBVIOUS
  <2>1. f[n - 1] \in S
    <3>1. n - 1 \in 0 .. Len(cp)
      BY <1>1
    <3>2. QED
      BY <3>1
  <2>2. QED
    BY <1>4, <1>6, <1>7, <2>1, Zenon DEF Follows
<1>9. f = Cut(f)
  <2>1. f = [k \in 0 .. Len(cp) |-> f[k]]
    OBVIOUS
  <2>2. ASSUME NEW k \in 0 .. Len(cp)
        PROVE  f[k] = IF k = 0 THEN 0 ELSE (f[k - 1] * base + DigitValue(cp[k])) % ULongLong
    <3>1. k = 0 \/ (k # 0 /\ k \in 1 .. Len(cp))
      BY <1>1
    <3>2. QED
      BY <1>7, <1>8, <3>1, Zenon DEF Follows
  <2>3. QED
    BY <2>1, <2>2, Zenon
<1> DEFINE value == CHOOSE g : g = Cut(g)
<1>10. value = Cut(value)
  <2> HIDE DEF Cut
  <2>1. QED
    BY <1>9
<1>11. \A n : ValueTo(cp, base, n) = value[n]
  BY DEF ValueTo
<1> HIDE DEF value
<1>12. /\ value[0] = 0
       /\ \A n \in 1 .. Len(cp) : value[n] = (value[n - 1] * base + DigitValue(cp[n])) % ULongLong
  <2>1. ASSUME NEW n \in 0 .. Len(cp)
        PROVE  value[n] = IF n = 0 THEN 0 ELSE (value[n - 1] * base + DigitValue(cp[n])) % ULongLong
    BY <1>10, Zenon
  <2>2. 0 \in 0 .. Len(cp) /\ \A n \in 1 .. Len(cp) : n \in 0 .. Len(cp) /\ n # 0
    BY <1>1
  <2>3. QED
    BY <2>1, <2>2, Zenon
<1> DEFINE Good == {k \in Nat : k <= Len(cp) => value[k] \in S}
<1>13. 0 \in Good
  BY <1>1, <1>12
<1>14. ASSUME NEW k \in Nat, k \in Good PROVE k + 1 \in Good
  <2> SUFFICES ASSUME k + 1 <= Len(cp) PROVE value[k + 1] \in S
    OBVIOUS
  <2>1. k + 1 \in 1 .. Len(cp) /\ (k + 1) - 1 = k /\ k <= Len(cp)
    BY <1>1
  <2>2. value[k] \in S /\ DigitValue(cp[k + 1]) \in Int
    <3>1. DigitValue(cp[k + 1]) = d[k + 1] /\ d[k + 1] \in Int
      BY <1>3, <1>4, <2>1
    <3>2. QED
      BY <1>14, <2>1, <3>1
  <2>3. QED
    BY <1>2, <1>12, <2>1, <2>2, Zenon
<1>15. Nat \subseteq Good
  <2> HIDE DEF Good
  <2>1. QED
    BY <1>13, <1>14, Induction
<1>16. \A n \in 0 .. Len(cp) : value[n] \in S
  BY <1>1, <1>15
<1>17. QED
  BY <1>11, <1>12, <1>16, Zenon DEF S

\* What each of the digits counts, from the last one, and what the last k amount to.
Weighs(weight, base, N) ==
    /\ weight[0] = 1
    /\ \A k \in 1 .. N : weight[k] = base * weight[k - 1]
AddsUp(sum, weight, v, N) ==
    /\ sum[0] = 0
    /\ \A k \in 1 .. N : sum[k] = sum[k - 1] + v[N + 1 - k] * weight[k - 1]
\* What the first k amount to.
Grows(h, v, base, N) ==
    /\ h[0] = 0
    /\ \A k \in 1 .. N : h[k] = h[k - 1] * base + v[k]

\* The positional value, one more digit at a time from the last.
LEMMA PositionalSteps ==
  ASSUME NEW base \in Nat, NEW D \in Seq(Nat), NEW v \in [1 .. Len(D) -> Nat],
         \A k \in 1 .. Len(D) : v[k] = DigitValue(D[k])
  PROVE  \E weight, sum \in [0 .. Len(D) -> Nat] :
            /\ Weighs(weight, base, Len(D))
            /\ AddsUp(sum, weight, v, Len(D))
            /\ Positional(base, D) = sum[Len(D)]
<1>1. PICK N \in Nat : N = Len(D)
  OBVIOUS
<1>2. v \in [1 .. N -> Nat] /\ \A k \in 1 .. N : v[k] = DigitValue(D[k])
  BY <1>1
<1> DEFINE Weight(f) == [k \in 0 .. Len(D) |-> IF k = 0 THEN 1 ELSE base * f[k - 1]]
           weight == CHOOSE g : g = Weight(g)
           Total(f) == [k \in 0 .. Len(D) |->
                          IF k = 0 THEN 0
                          ELSE f[k - 1] + DigitValue(D[Len(D) + 1 - k]) * weight[k - 1]]
           sum == CHOOSE g : g = Total(g)
<1>3. Positional(base, D) = sum[Len(D)]
  BY DEF Positional
<1>4. weight \in [0 .. N -> Nat] /\ Weighs(weight, base, N)
  <2> DEFINE next == [a \in Nat \X Nat |-> base * a[1]]
  <2>1. next \in [Nat \X Nat -> Nat]
    OBVIOUS
  <2>2. \A x \in Nat, k \in 1 .. N : next[<<x, k>>] = base * x
    OBVIOUS
  <2> HIDE DEF next
  <2>3. 1 \in Nat
    OBVIOUS
  <2>4. PICK f \in [0 .. N -> Nat] : Follows(f, 1, next, N)
    BY <2>1, <2>3, Recursion
  <2>5. f[0] = 1 /\ \A k \in 1 .. N : f[k] = base * f[k - 1]
    <3>1. ASSUME NEW k \in 1 .. N PROVE f[k - 1] \in Nat
      <4>1. k - 1 \in 0 .. N
        OBVIOUS
      <4>2. QED
        BY <4>1
    <3>2. QED
      BY <2>2, <2>4, <3>1, Zenon DEF Follows
  <2>6. f = Weight(f)
    <3>1. f = [k \in 0 .. N |-> f[k]]
      OBVIOUS
    <3>2. ASSUME NEW k \in 0 .. N PROVE f[k] = IF k = 0 THEN 1 ELSE base * f[k - 1]
      <4>1. k = 0 \/ (k # 0 /\ k \in 1 .. N)
        OBVIOUS
      <4>2. QED
        BY <2>5, <4>1, Zenon
    <3>3. QED
      BY <1>1, <3>1, <3>2, Zenon
  <2>7. weight = Weight(weight)
    <3> HIDE DEF Weight
    <3>1. QED
      BY <2>6
  <2> HIDE DEF weight
  <2>8. weight[0] = 1 /\ \A k \in 1 .. N : weight[k] = base * weight[k - 1]
    <3>1. ASSUME NEW k \in 0 .. N PROVE weight[k] = IF k = 0 THEN 1 ELSE base * weight[k - 1]
      BY <1>1, <2>7, Zenon
    <3>2. 0 \in 0 .. N /\ \A k \in 1 .. N : k \in 0 .. N /\ k # 0
      OBVIOUS
    <3>3. QED
      BY <3>1, <3>2, Zenon
  <2>9. weight = [k \in 0 .. N |-> weight[k]]
    BY <1>1, <2>7
  <2> DEFINE Good == {k \in Nat : k <= N => weight[k] \in Nat}
  <2>10. 0 \in Good
    BY <2>8
  <2>11. ASSUME NEW k \in Nat, k \in Good PROVE k + 1 \in Good
    <3> SUFFICES ASSUME k + 1 <= N PROVE weight[k + 1] \in Nat
      OBVIOUS
    <3>1. k + 1 \in 1 .. N /\ (k + 1) - 1 = k /\ k <= N
      OBVIOUS
    <3>2. weight[k] \in Nat
      BY <2>11, <3>1
    <3>3. weight[k + 1] = base * weight[k]
      BY <2>8, <3>1, Zenon
    <3>4. QED
      BY <3>2, <3>3
  <2>12. Nat \subseteq Good
    <3> HIDE DEF Good
    <3>1. QED
      BY <2>10, <2>11, Induction
  <2>13. \A k \in 0 .. N : weight[k] \in Nat
    BY <2>12
  <2>14. QED
    BY <2>8, <2>9, <2>13, Zenon DEF Weighs
<1> HIDE DEF weight
<1>5. sum \in [0 .. N -> Nat] /\ AddsUp(sum, weight, v, N)
  <2> DEFINE c == [k \in 1 .. N |-> v[N + 1 - k] * weight[k - 1]]
             next == [a \in Nat \X Nat |-> IF a[2] \in 1 .. N THEN a[1] + c[a[2]] ELSE 0]
  <2>1. \A k \in 1 .. N : c[k] \in Nat /\ c[k] = v[N + 1 - k] * weight[k - 1]
    <3> SUFFICES ASSUME NEW k \in 1 .. N
                 PROVE  c[k] \in Nat /\ c[k] = v[N + 1 - k] * weight[k - 1]
      OBVIOUS
    <3>1. N + 1 - k \in 1 .. N /\ k - 1 \in 0 .. N
      OBVIOUS
    <3>2. v[N + 1 - k] \in Nat /\ weight[k - 1] \in Nat
      BY <1>2, <1>4, <3>1
    <3>3. \A x, y \in Nat : x * y \in Nat
      OBVIOUS
    <3>4. QED
      BY <3>2, <3>3
  <2> HIDE DEF c
  <2>2. next \in [Nat \X Nat -> Nat]
    BY <2>1
  <2>3. \A x \in Nat, k \in 1 .. N : next[<<x, k>>] = x + c[k]
    OBVIOUS
  <2> HIDE DEF next
  <2>4. 0 \in Nat
    OBVIOUS
  <2>5. PICK f \in [0 .. N -> Nat] : Follows(f, 0, next, N)
    BY <2>2, <2>4, Recursion
  <2>6. f[0] = 0 /\ \A k \in 1 .. N : f[k] = f[k - 1] + c[k]
    <3>1. ASSUME NEW k \in 1 .. N PROVE f[k - 1] \in Nat
      <4>1. k - 1 \in 0 .. N
        OBVIOUS
      <4>2. QED
        BY <4>1
    <3>2. QED
      BY <2>3, <2>5, <3>1, Zenon DEF Follows
  <2>7. \A k \in 1 .. N : c[k] = DigitValue(D[N + 1 - k]) * weight[k - 1]
    <3> SUFFICES ASSUME NEW k \in 1 .. N
                 PROVE  c[k] = DigitValue(D[N + 1 - k]) * weight[k - 1]
      OBVIOUS
    <3>1. N + 1 - k \in 1 .. N
      OBVIOUS
    <3>2. QED
      BY <1>2, <2>1, <3>1, Zenon
  <2>8. f = Total(f)
    <3>1. f = [k \in 0 .. N |-> f[k]]
      OBVIOUS
    <3>2. ASSUME NEW k \in 0 .. N
          PROVE  f[k] = IF k = 0 THEN 0 ELSE f[k - 1] + DigitValue(D[N + 1 - k]) * weight[k - 1]
      <4>1. k = 0 \/ (k # 0 /\ k \in 1 .. N)
        OBVIOUS
      <4>2. QED
        BY <2>6, <2>7, <4>1, Zenon
    <3>3. QED
      BY <1>1, <3>1, <3>2, Zenon
  <2>9. sum = Total(sum)
    <3> HIDE DEF Total
    <3>1. QED
      BY <2>8
  <2> HIDE DEF sum
  <2>10. sum[0] = 0 /\ \A k \in 1 .. N : sum[k] = sum[k - 1] + c[k]
    <3>1. ASSUME NEW k \in 0 .. N
          PROVE  sum[k] = IF k = 0 THEN 0 ELSE sum[k - 1] + DigitValue(D[N + 1 - k]) * weight[k - 1]
      BY <1>1, <2>9, Zenon
    <3>2. 0 \in 0 .. N /\ \A k \in 1 .. N : k \in 0 .. N /\ k # 0
      OBVIOUS
    <3>3. QED
      BY <2>7, <3>1, <3>2, Zenon
  <2>11. sum = [k \in 0 .. N |-> sum[k]]
    BY <1>1, <2>9
  <2> DEFINE Good == {k \in Nat : k <= N => sum[k] \in Nat}
  <2>12. 0 \in Good
    BY <2>10
  <2>13. ASSUME NEW k \in Nat, k \in Good PROVE k + 1 \in Good
    <3> SUFFICES ASSUME k + 1 <= N PROVE sum[k + 1] \in Nat
      OBVIOUS
    <3>1. k + 1 \in 1 .. N /\ (k + 1) - 1 = k /\ k <= N
      OBVIOUS
    <3>2. sum[k] \in Nat /\ c[k + 1] \in Nat
      BY <2>1, <2>13, <3>1
    <3>3. sum[k + 1] = sum[k] + c[k + 1]
      BY <2>10, <3>1, Zenon
    <3>4. QED
      BY <3>2, <3>3
  <2>14. Nat \subseteq Good
    <3> HIDE DEF Good
    <3>1. QED
      BY <2>12, <2>13, Induction
  <2>15. \A k \in 0 .. N : sum[k] \in Nat
    BY <2>14
  <2>16. QED
    BY <2>1, <2>10, <2>11, <2>15, Zenon DEF AddsUp
<1> HIDE DEF sum
<1>6. QED
  BY <1>1, <1>3, <1>4, <1>5, Zenon

\* Counted from the first digit or from the last, the number is the same.
LEMMA Horner ==
  ASSUME NEW N, NEW base, NEW v, NEW weight, NEW sum, NEW h,
         N \in Nat, base \in Nat, v \in [1 .. N -> Nat],
         weight \in [0 .. N -> Nat], sum \in [0 .. N -> Nat], h \in [0 .. N -> Nat],
         Weighs(weight, base, N), AddsUp(sum, weight, v, N), Grows(h, v, base, N)
  PROVE  sum[N] = h[N]
<1> DEFINE Good == {k \in Nat : k <= N => h[N - k] * weight[k] + sum[k] = h[N]}
<1>1. 0 \in Good
  <2>1. h[N] \in Nat /\ N - 0 = N
    OBVIOUS
  <2>2. \A x \in Nat : x * 1 + 0 = x
    OBVIOUS
  <2>3. h[N - 0] * weight[0] + sum[0] = h[N]
    BY <2>1, <2>2, Zenon DEF Weighs, AddsUp
  <2>4. QED
    BY <2>3
<1>2. ASSUME NEW k \in Nat, k \in Good PROVE k + 1 \in Good
  <2> SUFFICES ASSUME k + 1 <= N PROVE h[N - (k + 1)] * weight[k + 1] + sum[k + 1] = h[N]
    OBVIOUS
  <2>1. PICK j \in 1 .. N, i \in 0 .. N, l \in 1 .. N :
           j = k + 1 /\ j - 1 = k /\ i = N - j /\ l = N + 1 - j /\ l - 1 = i /\ l = N - k
    OBVIOUS
  <2>2. PICK x \in Nat, y \in Nat, w \in Nat, s \in Nat :
           x = h[i] /\ y = v[l] /\ w = weight[k] /\ s = sum[k]
    <3>1. k \in 0 .. N
      OBVIOUS
    <3>2. h[i] \in Nat /\ v[l] \in Nat /\ weight[k] \in Nat /\ sum[k] \in Nat
      BY <2>1, <3>1
    <3>3. QED
      BY <3>2
  <2>3. h[l] * w + s = h[N]
    <3>1. h[N - k] * weight[k] + sum[k] = h[N]
      BY <1>2
    <3>2. QED
      BY <2>1, <2>2, <3>1, Zenon
  <2>4. h[l] = x * base + y
    BY <2>1, <2>2, Zenon DEF Grows
  <2>5. weight[j] = base * w /\ sum[j] = s + y * w
    BY <2>1, <2>2, Zenon DEF Weighs, AddsUp
  <2>6. x * (base * w) + (s + y * w) = (x * base + y) * w + s
    <3>1. x * (base * w) = (x * base) * w
      OBVIOUS
    <3>2. (x * base + y) * w = (x * base) * w + y * w
      <4>1. PICK z \in Nat : z = x * base
        OBVIOUS
      <4>2. (z + y) * w = z * w + y * w
        OBVIOUS
      <4>3. QED
        BY <4>1, <4>2, Zenon
    <3>4. (x * base) * w \in Nat /\ y * w \in Nat
      <4>1. \A a, b \in Nat : a * b \in Nat
        OBVIOUS
      <4>2. QED
        BY <4>1, Zenon
    <3>5. PICK a \in Nat, c \in Nat : a = (x * base) * w /\ c = y * w
      BY <3>4
    <3>6. a + (s + c) = (a + c) + s
      OBVIOUS
    <3>7. QED
      BY <3>1, <3>2, <3>5, <3>6, Zenon
  <2>7. QED
    BY <2>1, <2>2, <2>3, <2>4, <2>5, <2>6, Zenon
<1>3. Nat \subseteq Good
  <2> HIDE DEF Good
  <2>1. QED
    BY <1>1, <1>2, Induction
<1>4. h[N - N] * weight[N] + sum[N] = h[N]
  BY <1>3
<1>5. N - N = 0 /\ sum[N] \in Nat /\ weight[N] \in Nat
  OBVIOUS
<1>6. \A x, y \in Nat : 0 * x + y = y
  OBVIOUS
<1>7. QED
  BY <1>4, <1>5, <1>6, Zenon DEF Grows

\* What the first k amount to, cut to an unsigned long long each time.
CutAtEach(value, v, base, N) ==
    /\ value[0] = 0
    /\ \A k \in 1 .. N : value[k] = (value[k - 1] * base + v[k]) % ULongLong

IsCut(value, h, N) == value[N] = h[N] % ULongLong

\* Cutting the number at every digit is cutting it once.
LEMMA CutOnce ==
  ASSUME NEW N, NEW base, NEW v, NEW h, NEW value,
         N \in Nat, base \in Nat, v \in [1 .. N -> Nat], h \in [0 .. N -> Nat], Grows(h, v, base, N),
         CutAtEach(value, v, base, N)
  PROVE  IsCut(value, h, N)
<1> DEFINE Good == {k \in Nat : k <= N => value[k] = h[k] % ULongLong}
<1>1. PICK n \in Nat \ {0} : n = ULongLong
  BY NumbersAssumption
<1>2. 0 \in Good
  <2>1. 0 % n = 0
    OBVIOUS
  <2>2. value[0] = h[0] % ULongLong
    BY <1>1, <2>1, Zenon DEF Grows, CutAtEach
  <2>3. QED
    BY <2>2
<1>3. ASSUME NEW k \in Nat, k \in Good PROVE k + 1 \in Good
  <2> SUFFICES ASSUME k + 1 <= N PROVE value[k + 1] = h[k + 1] % ULongLong
    OBVIOUS
  <2>1. PICK j \in 1 .. N : j = k + 1 /\ j - 1 = k
    OBVIOUS
  <2>2. PICK x \in Nat, y \in Nat : x = h[k] /\ y = v[j]
    <3>1. k \in 0 .. N
      OBVIOUS
    <3>2. h[k] \in Nat /\ v[j] \in Nat
      BY <3>1
    <3>3. QED
      BY <3>2
  <2>3. PICK q \in Int, r \in Nat : x % n = r /\ x = q * n + r
    <3>1. x \div n \in Int /\ x % n \in 0 .. n - 1 /\ x = (x \div n) * n + (x % n)
      BY DivMod
    <3>2. x % n \in Nat
      BY <3>1
    <3>3. QED
      BY <3>1, <3>2, Zenon
  <2>4. value[k] = r
    <3>1. value[k] = h[k] % ULongLong
      BY <1>3
    <3>2. QED
      BY <1>1, <2>2, <2>3, <3>1, Zenon
  <2>5. value[j] = (r * base + y) % n
    BY <1>1, <2>1, <2>2, <2>4, Zenon DEF CutAtEach
  <2>6. h[j] = x * base + y
    BY <2>1, <2>2, Zenon DEF Grows
  <2>7. PICK a \in Int, m \in Int : a = r * base + y /\ m = q * base
    OBVIOUS
  <2>8. x * base + y = a + m * n
    <3>1. (q * n + r) * base = (q * base) * n + r * base
      OBVIOUS
    <3>2. PICK b \in Int, c \in Int : b = m * n /\ c = r * base
      OBVIOUS
    <3>3. (b + c) + y = (c + y) + b
      OBVIOUS
    <3>4. QED
      BY <2>3, <2>7, <3>1, <3>2, <3>3, Zenon
  <2>9. (a + m * n) % n = a % n
    BY ModOfSum
  <2>10. QED
    BY <1>1, <2>1, <2>5, <2>6, <2>7, <2>8, <2>9, Zenon
<1>4. Nat \subseteq Good
  <2> HIDE DEF Good
  <2>1. QED
    BY <1>2, <1>3, Induction
<1>5. QED
  BY <1>4 DEF IsCut

\* A text begins with digits.
BeginsWith(t, D, N) == \A k \in 1 .. N : t[k] = D[k] /\ DigitValue(D[k]) \in Nat

\* What simple_strtoull makes of digits is their positional value, cut once.
LEMMA ValueOf ==
  ASSUME NEW base, NEW D, NEW t, NEW N,
         base \in Nat, D \in Seq(Nat), t \in Seq(Nat), N \in Nat,
         N = Len(D), N <= Len(t), BeginsWith(t, D, N)
  PROVE  Positional(base, D) \in Nat /\ ValueTo(t, base, N) = Positional(base, D) % ULongLong
<1> DEFINE v == [k \in 1 .. N |-> DigitValue(D[k])]
           next == [a \in Nat \X Nat |-> IF a[2] \in 1 .. N THEN a[1] * base + v[a[2]] ELSE 0]
           value == [k \in 0 .. N |-> ValueTo(t, base, k)]
<1>0. \A k \in 1 .. N : t[k] = D[k] /\ DigitValue(D[k]) \in Nat
  BY DEF BeginsWith
<1>1. v \in [1 .. N -> Nat] /\ \A k \in 1 .. N : v[k] = DigitValue(D[k])
  BY <1>0
<1> HIDE DEF v
<1>2. next \in [Nat \X Nat -> Nat]
  <2>1. \A x \in Nat, k \in 1 .. N : x * base + v[k] \in Nat
    <3>1. \A x \in Nat : x * base \in Nat
      OBVIOUS
    <3>2. \A x, y \in Nat : x + y \in Nat
      OBVIOUS
    <3>3. \A k \in 1 .. N : v[k] \in Nat
      BY <1>1
    <3>4. QED
      BY <3>1, <3>2, <3>3, Zenon
  <2>2. QED
    BY <2>1
<1>3. \A x \in Nat, k \in 1 .. N : next[<<x, k>>] = x * base + v[k]
  OBVIOUS
<1> HIDE DEF next
<1>4. 0 \in Nat
  OBVIOUS
<1>5. PICK h \in [0 .. N -> Nat] : Follows(h, 0, next, N)
  BY <1>2, <1>4, Recursion
<1>6. Grows(h, v, base, N)
  <2>1. ASSUME NEW k \in 1 .. N PROVE h[k - 1] \in Nat
    <3>1. k - 1 \in 0 .. N
      OBVIOUS
    <3>2. QED
      BY <3>1
  <2>2. QED
    BY <1>3, <1>5, <2>1, Zenon DEF Follows, Grows
<1>7. PICK weight \in [0 .. N -> Nat], sum \in [0 .. N -> Nat] :
         /\ Weighs(weight, base, N)
         /\ AddsUp(sum, weight, v, N)
         /\ Positional(base, D) = sum[N]
  BY <1>1, PositionalSteps, Zenon
<1>8. sum[N] = h[N]
  <2>1. /\ N \in Nat /\ base \in Nat /\ v \in [1 .. N -> Nat]
        /\ weight \in [0 .. N -> Nat] /\ sum \in [0 .. N -> Nat] /\ h \in [0 .. N -> Nat]
        /\ Weighs(weight, base, N) /\ AddsUp(sum, weight, v, N) /\ Grows(h, v, base, N)
    BY <1>1, <1>6, <1>7, Zenon
  <2>2. QED
    BY <2>1, Horner, ZenonT(30)
<1>9. CutAtEach(value, v, base, N)
  <2>1. /\ ValueTo(t, base, 0) = 0
        /\ \A n \in 1 .. Len(t) :
              ValueTo(t, base, n) = (ValueTo(t, base, n - 1) * base + DigitValue(t[n])) % ULongLong
    BY ValueSteps
  <2>2. 0 \in 0 .. N /\ \A k \in 1 .. N : k \in 1 .. Len(t) /\ k \in 0 .. N /\ k - 1 \in 0 .. N
    OBVIOUS
  <2>3. \A k \in 0 .. N : value[k] = ValueTo(t, base, k)
    OBVIOUS
  <2> HIDE DEF value
  <2>4. value[0] = 0
    BY <2>1, <2>2, <2>3, Zenon
  <2>5. ASSUME NEW k \in 1 .. N PROVE value[k] = (value[k - 1] * base + v[k]) % ULongLong
    <3>1. value[k] = ValueTo(t, base, k) /\ value[k - 1] = ValueTo(t, base, k - 1)
      BY <2>2, <2>3, Zenon
    <3>2. v[k] = DigitValue(t[k])
      BY <1>0, <1>1, Zenon
    <3>3. QED
      BY <2>1, <2>2, <3>1, <3>2, Zenon
  <2>6. QED
    BY <2>4, <2>5, Zenon DEF CutAtEach
<1> HIDE DEF value
<1>10. value[N] = h[N] % ULongLong
  <2>1. N \in Nat /\ base \in Nat /\ v \in [1 .. N -> Nat] /\ h \in [0 .. N -> Nat]
    BY <1>1, Zenon
  <2>2. IsCut(value, h, N)
    BY <1>6, <1>9, <2>1, CutOnce, Zenon
  <2>3. QED
    BY <2>2, Zenon DEF IsCut
<1>11. N \in 0 .. N
  OBVIOUS
<1>12. QED
  <2>1. value[N] = ValueTo(t, base, N) /\ sum[N] \in Nat
    BY <1>11 DEF value
  <2>2. QED
    BY <1>7, <1>8, <1>10, <2>1, Zenon

\* The digits of a value that is cut to an unsigned long long and then to an
\* unsigned long are those of the value cut to an unsigned long.
LEMMA TwoCuts ==
  ASSUME NEW x \in Int
  PROVE  (x % ULongLong) % ULong = x % ULong
<1>1. PICK m \in Nat \ {0}, n \in Nat \ {0} : m = ULongLong /\ n = ULong /\ m % n = 0
  BY NumbersAssumption
<1>2. PICK q \in Int, r \in Int : r = x % m /\ x = q * m + r
  <2>1. x \div m \in Int /\ x % m \in 0 .. m - 1 /\ x = (x \div m) * m + (x % m)
    BY DivMod
  <2>2. x % m \in Int
    BY <2>1
  <2>3. QED
    BY <2>1, <2>2, Zenon
<1>3. PICK p \in Int : m = p * n
  <2>1. m \div n \in Int /\ m = (m \div n) * n + (m % n)
    BY DivMod
  <2>2. \A y \in Int : y * n + 0 = y * n
    OBVIOUS
  <2>3. QED
    BY <1>1, <2>1, <2>2, Zenon
<1>4. PICK k \in Int : k = q * p
  OBVIOUS
<1>5. x = r + k * n
  <2>1. q * (p * n) = (q * p) * n
    OBVIOUS
  <2>2. PICK z \in Int : z = k * n
    OBVIOUS
  <2>3. z + r = r + z
    OBVIOUS
  <2>4. QED
    BY <1>2, <1>3, <1>4, <2>1, <2>2, <2>3, Zenon
<1>6. (r + k * n) % n = r % n
  BY ModOfSum
<1>7. QED
  BY <1>1, <1>2, <1>5, <1>6, Zenon

Digit(c, base) == IsXDigit(c) /\ DigitValue(c) < base

\* What is a digit of a base, a suffix or neither.
LEMMA DigitOf ==
  ASSUME NEW c \in Nat, NEW base \in {8, 10, 16}
  PROVE  /\ Digit(c, base) <=> c \in DigitSet(base)
         /\ Digit(c, base) => DigitValue(c) \in Nat /\ IsXDigit(c)
         /\ IsXDigit(c) => Digit(c, 16)
         /\ ~Digit(0, base) /\ Digit(48, base)
         /\ Digit(c, base) => ~IsX(c) /\ c \notin SuffixKeys
         /\ c \in SuffixKeys <=> Shifts(c) > 0
         /\ c \notin SuffixKeys => Shifts(c) = 0
         /\ c \in SuffixKeys => c # 48 /\ ~IsX(c)
BY DEF Digit, DigitSet, IsXDigit, DigitValue, IsDigit, IsX, SuffixKeys, Shifts

\* The beginning of a text that is taken for digits is as long as it can be.
LEMMA LongestDigits ==
  ASSUME NEW t \in Seq(Nat), NEW base \in {8, 10, 16}
  PROVE  \E len \in 0 .. Len(t) :
            /\ len = CHOOSE n \in Digits(t, base) : \A m \in Digits(t, base) : m <= n
            /\ \A k \in 1 .. len : Digit(t[k], base)
            /\ len < Len(t) => ~Digit(t[len + 1], base)
<1>1. PICK L \in Nat : L = Len(t)
  OBVIOUS
<1>2. \A n : n \in Digits(t, base) <=> n \in 0 .. L /\ \A k \in 1 .. n : Digit(t[k], base)
  BY <1>1 DEF Digits, Digit
<1> DEFINE Good == {d \in Nat : d <= L =>
                      \E m \in Digits(t, base) : m <= d /\ \A j \in Digits(t, base) : j <= d => j <= m}
<1>3. 0 \in Good
  <2>1. 0 \in Digits(t, base)
    BY <1>2
  <2>2. \A j \in Digits(t, base) : j <= 0 => j <= 0
    OBVIOUS
  <2>3. QED
    BY <2>1, <2>2
<1>4. ASSUME NEW d \in Nat, d \in Good PROVE d + 1 \in Good
  <2> SUFFICES ASSUME d + 1 <= L
               PROVE  \E m \in Digits(t, base) :
                         m <= d + 1 /\ \A j \in Digits(t, base) : j <= d + 1 => j <= m
    OBVIOUS
  <2>1. PICK m \in Digits(t, base) : m <= d /\ \A j \in Digits(t, base) : j <= d => j <= m
    BY <1>4
  <2>2. \A j \in Digits(t, base) : j \in Nat
    BY <1>2
  <2>3. CASE d + 1 \in Digits(t, base)
    BY <2>3
  <2>4. CASE d + 1 \notin Digits(t, base)
    <3>1. \A j \in Digits(t, base) : j <= d + 1 => j <= d
      BY <2>2, <2>4
    <3>2. m <= d + 1
      BY <2>1, <2>2
    <3>3. QED
      BY <2>1, <3>1, <3>2
  <2>5. QED
    BY <2>3, <2>4
<1>5. Nat \subseteq Good
  <2> HIDE DEF Good
  <2>1. QED
    BY <1>3, <1>4, Induction
<1>6. PICK m \in Digits(t, base) : m <= L /\ \A j \in Digits(t, base) : j <= L => j <= m
  BY <1>5
<1>7. m \in 0 .. L /\ \A j \in Digits(t, base) : j \in 0 .. L /\ j <= m
  BY <1>2, <1>6
<1>8. \A n \in Digits(t, base) : (\A j \in Digits(t, base) : j <= n) => n = m
  BY <1>7
<1>9. m = CHOOSE n \in Digits(t, base) : \A j \in Digits(t, base) : j <= n
  BY <1>7, <1>8, Zenon
<1>10. \A k \in 1 .. m : Digit(t[k], base)
  BY <1>2
<1>11. ASSUME m < L, Digit(t[m + 1], base) PROVE FALSE
  <2>1. m + 1 \in 0 .. L /\ \A k \in 1 .. m + 1 : k \in 1 .. m \/ k = m + 1
    BY <1>7, <1>11
  <2>2. m + 1 \in Digits(t, base)
    BY <1>2, <1>10, <1>11, <2>1, Zenon
  <2>3. ~(m + 1 <= m)
    BY <1>7
  <2>4. QED
    BY <1>7, <2>2, <2>3, Zenon
<1>12. QED
  BY <1>1, <1>7, <1>9, <1>10, <1>11, Zenon

\* What the first three characters say of the base.
LEMMA GuessOf ==
  ASSUME NEW cp \in Seq(Nat)
  PROVE  /\ GuessBase(cp) \in {8, 10, 16}
         /\ GuessBase(cp) = 10 <=> (Len(cp) = 0 \/ cp[1] # 48)
         /\ GuessBase(cp) = 16 <=> (Len(cp) >= 3 /\ cp[1] = 48 /\ IsX(cp[2]) /\ IsXDigit(cp[3]))
<1>1. /\ At(cp, 0) = IF 0 < Len(cp) THEN cp[1] ELSE 0
      /\ At(cp, 1) = IF 1 < Len(cp) THEN cp[2] ELSE 0
      /\ At(cp, 2) = IF 2 < Len(cp) THEN cp[3] ELSE 0
  BY DEF At
<1>2. ~IsX(0) /\ ~IsXDigit(0)
  BY DEF IsX, IsXDigit, IsDigit
<1>3. PICK L \in Nat : L = Len(cp)
  OBVIOUS
<1>4. QED
  BY <1>1, <1>2, <1>3 DEF GuessBase

\* What simple_strtoull takes of a text.
Scanned(cp, base, pre, len, t) ==
    /\ base \in {8, 10, 16} /\ base = GuessBase(cp)
    /\ pre = IF base = 16 THEN 2 ELSE 0
    /\ len \in Nat /\ pre + len <= Len(cp)
    /\ \A k \in 1 .. len : Digit(cp[pre + k], base)
    /\ pre + len < Len(cp) => ~Digit(cp[pre + (len + 1)], base)
    /\ t \in Seq(Nat) /\ Len(t) + pre = Len(cp)
    /\ \A k \in 1 .. Len(t) : t[k] = cp[pre + k]
    /\ Strtoull(cp) = [value |-> ValueTo(t, base, len), length |-> pre + len]

\* simple_strtoull reads a prefix, then as many digits as there are.
LEMMA ScanOf ==
  ASSUME NEW cp \in Seq(Nat)
  PROVE  \E base, pre, len, t : Scanned(cp, base, pre, len, t)
<1>1. PICK base \in {8, 10, 16} : base = GuessBase(cp)
  BY GuessOf
<1>2. PICK pre \in {0, 2} : pre = (IF base = 16 THEN 2 ELSE 0)
  OBVIOUS
<1>3. PICK L \in Nat : L = Len(cp)
  OBVIOUS
<1>4. pre <= L
  <2>1. base = 16 => L >= 3
    BY <1>1, <1>3, GuessOf, Zenon
  <2>2. QED
    BY <1>2, <2>1
<1>5. PICK t : t = SubSeq(cp, pre + 1, Len(cp))
  OBVIOUS
<1>6. /\ t \in Seq(Nat) /\ Len(t) + pre = L
      /\ \A k \in 1 .. Len(t) : t[k] = cp[pre + k]
  <2>1. PICK i \in 1 .. L + 1 : i = pre + 1
    BY <1>4
  <2>2. /\ SubSeq(cp, i, L) \in Seq(Nat)
        /\ Len(SubSeq(cp, i, L)) = IF i <= L THEN L - i + 1 ELSE 0
        /\ \A k \in 1 .. L - i + 1 : SubSeq(cp, i, L)[k] = cp[i + k - 1]
    BY <1>3, SubSeqProperties
  <2>3. PICK l \in Nat : l = Len(t) /\ l = L - i + 1
    <3>1. PICK j \in Nat : j = L - i + 1 /\ (IF i <= L THEN L - i + 1 ELSE 0) = j
      OBVIOUS
    <3>2. Len(t) = j
      BY <1>3, <1>5, <2>1, <2>2, <3>1, Zenon
    <3>3. QED
      BY <3>1, <3>2, Zenon
  <2>4. \A k \in 1 .. l : i + k - 1 = pre + k
    BY <2>1
  <2>5. t = SubSeq(cp, i, L)
    BY <1>3, <1>5, <2>1, Zenon
  <2>6. \A k \in 1 .. Len(t) : t[k] = cp[pre + k]
    BY <2>2, <2>3, <2>4, <2>5, Zenon
  <2>7. l + pre = L
    BY <2>1, <2>3
  <2>8. QED
    BY <2>2, <2>3, <2>5, <2>6, <2>7, Zenon
<1>7. PICK len \in 0 .. Len(t) :
         /\ len = CHOOSE n \in Digits(t, base) : \A m \in Digits(t, base) : m <= n
         /\ \A k \in 1 .. len : Digit(t[k], base)
         /\ len < Len(t) => ~Digit(t[len + 1], base)
  BY <1>6, LongestDigits
<1>8. Strtoull(cp) = [value |-> ValueTo(t, base, len), length |-> pre + len]
  BY <1>1, <1>2, <1>5, <1>7, Zenon DEF Strtoull
<1>9. PICK l \in Nat : l = Len(t) /\ l + pre = L
  BY <1>6
<1>10. len \in Nat /\ pre + len <= Len(cp)
  BY <1>3, <1>9
<1>11. \A k \in 1 .. len : Digit(cp[pre + k], base)
  <2>1. \A k \in 1 .. len : k \in 1 .. Len(t)
    BY <1>9
  <2>2. QED
    BY <1>6, <1>7, <2>1, Zenon
<1>12. ASSUME pre + len < Len(cp) PROVE ~Digit(cp[pre + (len + 1)], base)
  <2>1. len < Len(t) /\ len + 1 \in 1 .. Len(t)
    BY <1>3, <1>9, <1>12
  <2>2. QED
    BY <1>6, <1>7, <2>1, Zenon
<1>13. Scanned(cp, base, pre, len, t)
  BY <1>1, <1>2, <1>3, <1>6, <1>8, <1>10, <1>11, <1>12, Zenon DEF Scanned
<1>14. QED
  BY <1>13

\* How a text that has a form is put together.
Formed(cp, base, digits, pre, n, suf) ==
    /\ base \in {8, 10, 16} /\ pre = (IF base = 16 THEN 2 ELSE 0)
    /\ n \in Nat \ {0} /\ suf \in {0, 1}
    /\ digits \in Seq(Nat) /\ Len(digits) = n
    /\ (pre + n) + suf = Len(cp)
    /\ suf = 1 <=> cp[Len(cp)] \in SuffixKeys
    /\ \A k \in 1 .. n : digits[k] = cp[pre + k] /\ Digit(cp[pre + k], base)
    /\ base = 10 <=> cp[1] # 48
    /\ base = 16 => IsX(cp[2])

\* The text without its suffix.
Unsuffixed(text) ==
    IF text # <<>> /\ text[Len(text)] \in SuffixKeys
    THEN SubSeq(text, 1, Len(text) - 1) ELSE text

\* A text without the suffix in its last place.
LEMMA UnsuffixedOf ==
  ASSUME NEW cp \in Seq(Nat)
  PROVE  \E suf \in {0, 1} :
            /\ Unsuffixed(cp) \in Seq(Nat)
            /\ Len(Unsuffixed(cp)) + suf = Len(cp)
            /\ \A k \in 1 .. Len(Unsuffixed(cp)) : Unsuffixed(cp)[k] = cp[k]
            /\ suf = 1 <=> (cp # <<>> /\ cp[Len(cp)] \in SuffixKeys)
<1>1. CASE cp # <<>> /\ cp[Len(cp)] \in SuffixKeys
  <2>1. Unsuffixed(cp) = SubSeq(cp, 1, Len(cp) - 1)
    BY <1>1 DEF Unsuffixed
  <2>2. PICK L \in Nat : L = Len(cp) - 1 /\ Len(cp) = L + 1
    BY <1>1
  <2>3. PICK b : b = SubSeq(cp, 1, L) /\ b \in Seq(Nat) /\ Len(b) = L /\ \A k \in 1 .. L : b[k] = cp[k]
    <3>1. 1 \in 1 .. Len(cp) + 1 /\ L \in 0 .. Len(cp) /\ (IF 1 <= L THEN L - 1 + 1 ELSE 0) = L
          /\ L - 1 + 1 = L /\ \A k \in 1 .. L : 1 + k - 1 = k
      BY <2>2
    <3>2. /\ SubSeq(cp, 1, L) \in Seq(Nat)
          /\ Len(SubSeq(cp, 1, L)) = IF 1 <= L THEN L - 1 + 1 ELSE 0
          /\ \A k \in 1 .. L - 1 + 1 : SubSeq(cp, 1, L)[k] = cp[1 + k - 1]
      BY <3>1, SubSeqProperties
    <3>3. QED
      BY <3>1, <3>2, Zenon
  <2>4. b = Unsuffixed(cp) /\ Len(b) + 1 = Len(cp)
    BY <2>1, <2>2, <2>3, Zenon
  <2>5. 1 \in {0, 1} /\ (1 = 1 <=> (cp # <<>> /\ cp[Len(cp)] \in SuffixKeys))
    BY <1>1
  <2>6. QED
    BY <2>3, <2>4, <2>5, Zenon
<1>2. CASE ~(cp # <<>> /\ cp[Len(cp)] \in SuffixKeys)
  <2>1. Unsuffixed(cp) = cp
    BY <1>2, Zenon DEF Unsuffixed
  <2>2. Len(cp) + 0 = Len(cp) /\ ~(0 = 1)
    OBVIOUS
  <2>3. QED
    BY <1>2, <2>1, <2>2, Zenon
<1>3. QED
  BY <1>1, <1>2

\* A form is a base with digits that are all of that base, behind what its base
\* asks for.
FormsIn(text, f) ==
    /\ f.digits # <<>>
    /\ \A k \in 1 .. Len(f.digits) : f.digits[k] \in DigitSet(f.base)
    /\ \/ f = [base |-> 10, digits |-> Unsuffixed(text)] /\ Unsuffixed(text)[1] # 48
       \/ f = [base |-> 8, digits |-> Unsuffixed(text)] /\ Unsuffixed(text)[1] = 48
       \/ /\ f = [base |-> 16, digits |-> SubSeq(Unsuffixed(text), 3, Len(Unsuffixed(text)))]
          /\ Unsuffixed(text)[1] = 48 /\ Unsuffixed(text)[2] \in {88, 120}

\* The forms of a text, with the digits named.
LEMMA FormsAre ==
  ASSUME NEW text, NEW f
  PROVE  f \in Forms(text) <=> FormsIn(text, f)
<1>1. PICK b : b = Unsuffixed(text)
  OBVIOUS
<1>2. f \in Forms(text) <=>
         /\ f \in {[base |-> 10, digits |-> b], [base |-> 8, digits |-> b]}
                    \cup {[base |-> 16, digits |-> SubSeq(b, 3, Len(b))]}
         /\ f.digits # <<>>
         /\ \A k \in 1 .. Len(f.digits) : f.digits[k] \in DigitSet(f.base)
         /\ CASE f.base = 10 -> b[1] # 48
              [] f.base = 8 -> b[1] = 48
              [] f.base = 16 -> b[1] = 48 /\ b[2] \in {88, 120}
  BY <1>1, Zenon DEF Forms, Unsuffixed
<1>3. QED
  <2> PICK t : t = SubSeq(b, 3, Len(b))
    OBVIOUS
  <2>1. f \in Forms(text) <=>
         /\ f \in {[base |-> 10, digits |-> b], [base |-> 8, digits |-> b], [base |-> 16, digits |-> t]}
         /\ f.digits # <<>>
         /\ \A k \in 1 .. Len(f.digits) : f.digits[k] \in DigitSet(f.base)
         /\ CASE f.base = 10 -> b[1] # 48
              [] f.base = 8 -> b[1] = 48
              [] f.base = 16 -> b[1] = 48 /\ b[2] \in {88, 120}
    BY <1>2
  <2>2. FormsIn(text, f) <=>
         /\ f.digits # <<>>
         /\ \A k \in 1 .. Len(f.digits) : f.digits[k] \in DigitSet(f.base)
         /\ \/ f = [base |-> 10, digits |-> b] /\ b[1] # 48
            \/ f = [base |-> 8, digits |-> b] /\ b[1] = 48
            \/ f = [base |-> 16, digits |-> t] /\ b[1] = 48 /\ b[2] \in {88, 120}
    BY <1>1, Zenon DEF FormsIn
  <2>3. CASE f = [base |-> 10, digits |-> b]
    <3>1. f # [base |-> 8, digits |-> b] /\ f # [base |-> 16, digits |-> t] /\ f.base = 10
      BY <2>3
    <3>2. (CASE f.base = 10 -> b[1] # 48
             [] f.base = 8 -> b[1] = 48
             [] f.base = 16 -> b[1] = 48 /\ b[2] \in {88, 120}) <=> b[1] # 48
      BY <3>1
    <3>3. QED
      BY <2>1, <2>2, <2>3, <3>1, <3>2, Zenon
  <2>4. CASE f = [base |-> 8, digits |-> b]
    <3>1. f # [base |-> 10, digits |-> b] /\ f # [base |-> 16, digits |-> t] /\ f.base = 8
      BY <2>4
    <3>2. (CASE f.base = 10 -> b[1] # 48
             [] f.base = 8 -> b[1] = 48
             [] f.base = 16 -> b[1] = 48 /\ b[2] \in {88, 120}) <=> b[1] = 48
      BY <3>1
    <3>3. QED
      BY <2>1, <2>2, <2>4, <3>1, <3>2, Zenon
  <2>5. CASE f = [base |-> 16, digits |-> t]
    <3>1. f # [base |-> 10, digits |-> b] /\ f # [base |-> 8, digits |-> b] /\ f.base = 16
      BY <2>5
    <3>2. (CASE f.base = 10 -> b[1] # 48
             [] f.base = 8 -> b[1] = 48
             [] f.base = 16 -> b[1] = 48 /\ b[2] \in {88, 120})
               <=> b[1] = 48 /\ b[2] \in {88, 120}
      BY <3>1
    <3>3. QED
      BY <2>1, <2>2, <2>5, <3>1, <3>2, Zenon
  <2>6. CASE ~(f \in {[base |-> 10, digits |-> b], [base |-> 8, digits |-> b], [base |-> 16, digits |-> t]})
    BY <2>1, <2>2, <2>6, Zenon
  <2>7. QED
    BY <2>3, <2>4, <2>5, <2>6

\* A form of a text: a prefix, digits and perhaps a suffix.
LEMMA FormOf ==
  ASSUME NEW cp \in Seq(Nat), NEW f, f \in Forms(cp)
  PROVE  \E pre, n, suf : Formed(cp, f.base, f.digits, pre, n, suf)
<1>1. FormsIn(cp, f)
  BY FormsAre
<1>0. PICK b : b = Unsuffixed(cp)
  OBVIOUS
<1>2. PICK suf \in {0, 1} :
         /\ b = Unsuffixed(cp)
         /\ b \in Seq(Nat)
         /\ Len(b) + suf = Len(cp)
         /\ \A k \in 1 .. Len(b) : b[k] = cp[k]
         /\ suf = 1 <=> (cp # <<>> /\ cp[Len(cp)] \in SuffixKeys)
  BY <1>0, UnsuffixedOf, Zenon
<1>3. PICK B \in Nat, L \in Nat : B = Len(b) /\ L = Len(cp)
  BY <1>2
<1>4. CASE f.base # 16
  <2>1. f.digits = b /\ f.base \in {8, 10} /\ (f.base = 10 <=> b[1] # 48)
    BY <1>1, <1>2, <1>4 DEF FormsIn
  <2>2. b # <<>> /\ \A k \in 1 .. B : b[k] \in DigitSet(f.base)
    BY <1>1, <1>3, <2>1, Zenon DEF FormsIn
  <2>3. B # 0
    BY <1>2, <1>3, <2>2
  <2>4. 1 \in 1 .. B /\ B \in Nat \ {0} /\ L # 0
    BY <1>2, <1>3, <2>3
  <2>5. b[1] = cp[1] /\ cp # <<>>
    BY <1>2, <1>3, <2>4
  <2>6. \A k \in 1 .. B : 0 + k = k /\ b[k] = cp[k]
    BY <1>2, <1>3
  <2>7. \A k \in 1 .. B : Digit(b[k], f.base)
    <3> SUFFICES ASSUME NEW k \in 1 .. B PROVE Digit(b[k], f.base)
      OBVIOUS
    <3>1. b[k] \in Nat
      BY <1>2, <1>3
    <3>2. f.base \in {8, 10, 16}
      BY <2>1
    <3>3. QED
      BY <2>2, <3>1, <3>2, DigitOf, Zenon
  <2>8. (0 + B) + suf = Len(cp)
    BY <1>2, <1>3
  <2>9. f.base \in {8, 10, 16} /\ 0 = (IF f.base = 16 THEN 2 ELSE 0)
    BY <2>1
  <2>10. Formed(cp, f.base, f.digits, 0, B, suf)
    BY <1>2, <1>3, <1>4, <2>1, <2>4, <2>5, <2>6, <2>7, <2>8, <2>9, ZenonT(30) DEF Formed
  <2>11. QED
    BY <2>10
<1>5. CASE f.base = 16
  <2>1. f.digits = SubSeq(b, 3, Len(b)) /\ b[1] = 48 /\ b[2] \in {88, 120} /\ f.digits # <<>>
    BY <1>1, <1>2, <1>5 DEF FormsIn
  <2>2. B >= 3
    <3>1. CASE B < 3
      BY <1>2, <1>3, <2>1, <3>1, SubSeqEmpty
    <3>2. QED
      BY <3>1
  <2>3. PICK n \in Nat \ {0} : n = B - 2 /\ n = B - 3 + 1 /\ n + 2 = B
    BY <2>2
  <2>4. /\ SubSeq(b, 3, B) \in Seq(Nat)
        /\ Len(SubSeq(b, 3, B)) = IF 3 <= B THEN B - 3 + 1 ELSE 0
        /\ \A k \in 1 .. B - 3 + 1 : SubSeq(b, 3, B)[k] = b[3 + k - 1]
    <3>1. \A i \in 3 .. B : b[i] \in Nat
      BY <1>2, <1>3
    <3>2. 3 \in Int /\ B \in Int
      OBVIOUS
    <3>3. QED
      BY <3>1, <3>2, SubSeqProperties
  <2>5. \A k \in 1 .. n : 3 + k - 1 = 2 + k /\ 2 + k \in 1 .. B
    BY <2>3
  <2>6. /\ f.digits \in Seq(Nat) /\ Len(f.digits) = n
        /\ \A k \in 1 .. n : f.digits[k] = cp[2 + k]
    <3>1. f.digits = SubSeq(b, 3, B)
      BY <1>3, <2>1, Zenon
    <3>2. Len(f.digits) = n
      BY <2>2, <2>3, <2>4, <3>1, Zenon
    <3>3. ASSUME NEW k \in 1 .. n PROVE f.digits[k] = cp[2 + k]
      <4>1. SubSeq(b, 3, B)[k] = b[2 + k]
        BY <2>3, <2>4, <2>5, Zenon
      <4>2. QED
        BY <1>2, <1>3, <2>5, <3>1, <4>1, Zenon
    <3>4. QED
      BY <2>4, <3>1, <3>2, <3>3, Zenon
  <2>7. \A k \in 1 .. n : Digit(cp[2 + k], 16)
    <3> SUFFICES ASSUME NEW k \in 1 .. n PROVE Digit(cp[2 + k], 16)
      OBVIOUS
    <3>1. f.digits[k] \in Nat
      BY <2>6
    <3>2. f.digits[k] \in DigitSet(16)
      BY <1>1, <1>5, <2>6, Zenon DEF FormsIn
    <3>3. 16 \in {8, 10, 16}
      OBVIOUS
    <3>4. QED
      BY <2>6, <3>1, <3>2, <3>3, DigitOf, Zenon
  <2>8. 1 \in 1 .. B /\ 2 \in 1 .. B /\ (2 + n) + suf = Len(cp) /\ cp # <<>>
    BY <1>2, <1>3, <2>2, <2>3
  <2>9. b[1] = cp[1] /\ b[2] = cp[2]
    BY <1>2, <1>3, <2>8, Zenon
  <2>10. IsX(cp[2])
    BY <2>1, <2>9 DEF IsX
  <2>11. f.base \in {8, 10, 16} /\ 2 = (IF f.base = 16 THEN 2 ELSE 0) /\ f.base # 10
    BY <1>5
  <2>12. Formed(cp, f.base, f.digits, 2, n, suf)
    BY <1>2, <1>5, <2>1, <2>6, <2>7, <2>8, <2>9, <2>10, <2>11, Zenon DEF Formed
  <2>13. QED
    BY <2>12
<1>6. QED
  BY <1>4, <1>5

\* The base of a text that has a form is guessed.
LEMMA FormGuess ==
  ASSUME NEW cp, NEW base, NEW digits, NEW pre, NEW n, NEW suf,
         cp \in Seq(Nat), Formed(cp, base, digits, pre, n, suf)
  PROVE  GuessBase(cp) = base
<1>1. PICK L \in Nat : L = Len(cp)
  OBVIOUS
<1>2. /\ base \in {8, 10, 16} /\ pre = (IF base = 16 THEN 2 ELSE 0)
      /\ n \in Nat \ {0} /\ suf \in {0, 1}
      /\ (pre + n) + suf = L
      /\ suf = 1 <=> cp[L] \in SuffixKeys
      /\ \A k \in 1 .. n : Digit(cp[pre + k], base)
      /\ base = 10 <=> cp[1] # 48
      /\ base = 16 => IsX(cp[2])
  BY <1>1, Zenon DEF Formed
<1>3. L >= 1
  BY <1>2
<1>4. CASE base = 10
  BY <1>1, <1>2, <1>3, <1>4, GuessOf
<1>5. CASE base = 16
  <2>1. L >= 3 /\ 1 \in 1 .. n /\ pre + 1 = 3 /\ 3 \in 1 .. Len(cp)
    BY <1>1, <1>2, <1>5
  <2>2. cp[3] \in Nat /\ Digit(cp[3], base)
    <3>1. cp[3] \in Nat
      BY <2>1
    <3>2. QED
      BY <1>2, <2>1, <3>1, Zenon
  <2>3. IsXDigit(cp[3])
    BY <1>2, <2>2, DigitOf
  <2>4. QED
    BY <1>1, <1>2, <1>5, <2>1, <2>3, GuessOf
<1>6. CASE base = 8
  <2>1. cp[1] = 48 /\ GuessBase(cp) # 10
    BY <1>1, <1>2, <1>3, <1>6, GuessOf
  <2>2. ASSUME L >= 3 PROVE ~IsX(cp[2])
    <3>1. 2 \in 1 .. Len(cp) /\ 2 \in 1 .. n /\ pre + 2 = 2
      BY <1>1, <1>2, <1>6, <2>2
    <3>2. cp[2] \in Nat /\ Digit(cp[2], base)
      BY <1>2, <3>1
    <3>3. QED
      BY <1>2, <3>2, DigitOf
  <2>3. GuessBase(cp) # 16
    BY <1>1, <2>2, GuessOf, Zenon
  <2>4. QED
    BY <1>6, <2>1, <2>3, GuessOf
<1>7. QED
  BY <1>2, <1>4, <1>5, <1>6

Scaled(x, shifts) == (x * (1024^shifts % ULongLong)) % ULongLong

Takes(cp, v, m, c) == Strtoull(cp).value = v /\ Strtoull(cp).length = m /\ At(cp, m) = c

\* memparse, given what simple_strtoull takes and the character behind it.
LEMMA MemparseOf ==
  ASSUME NEW cp, NEW v, NEW m, NEW c,
         Takes(cp, v, m, c)
  PROVE  /\ Memparse(cp).length = m + (IF Shifts(c) > 0 THEN 1 ELSE 0)
         /\ Memparse(cp).value = Scaled(v % ULong, Shifts(c))
<1>1. PICK a, l : /\ a = Scaled(Strtoull(cp).value % ULong, Shifts(At(cp, Strtoull(cp).length)))
                  /\ l = Strtoull(cp).length + (IF Shifts(At(cp, Strtoull(cp).length)) > 0 THEN 1 ELSE 0)
  OBVIOUS
<1>2. Memparse(cp) = [value |-> a, length |-> l]
  BY <1>1, ZenonT(30) DEF Memparse, Scaled
<1>3. Memparse(cp).value = a /\ Memparse(cp).length = l
  BY <1>2
<1>4. QED
  BY <1>1, <1>3, Zenon DEF Takes

\* A text that has a form is taken, and for the number it is.
LEMMA FormTaken ==
  ASSUME NEW cp, NEW base, NEW digits, NEW pre, NEW n, NEW suf,
         cp \in Seq(Nat), Formed(cp, base, digits, pre, n, suf)
  PROVE  /\ cp # <<>>
         /\ Memparse(cp).length = Len(cp)
         /\ Memparse(cp).value = Scaled(Positional(base, digits) % ULong, Shifts(cp[Len(cp)]))
<1>1. PICK L \in Nat : L = Len(cp)
  OBVIOUS
<1>2. /\ base \in {8, 10, 16} /\ pre = (IF base = 16 THEN 2 ELSE 0)
      /\ n \in Nat \ {0} /\ suf \in {0, 1}
      /\ digits \in Seq(Nat) /\ Len(digits) = n
      /\ (pre + n) + suf = L
      /\ suf = 1 <=> cp[L] \in SuffixKeys
      /\ \A k \in 1 .. n : digits[k] = cp[pre + k] /\ Digit(cp[pre + k], base)
  BY <1>1, Zenon DEF Formed
<1>3. PICK base0, pre0, len, t : Scanned(cp, base0, pre0, len, t)
  BY ScanOf
<1>4. base0 = base /\ pre0 = pre
  BY <1>2, <1>3, FormGuess, Zenon DEF Scanned
<1>5. /\ len \in Nat /\ pre + len <= L
      /\ \A k \in 1 .. len : Digit(cp[pre + k], base)
      /\ pre + len < L => ~Digit(cp[pre + (len + 1)], base)
      /\ t \in Seq(Nat) /\ Len(t) + pre = L
      /\ \A k \in 1 .. Len(t) : t[k] = cp[pre + k]
      /\ Strtoull(cp) = [value |-> ValueTo(t, base, len), length |-> pre + len]
  BY <1>1, <1>3, <1>4, Zenon DEF Scanned
<1>6. pre \in {0, 2} /\ L >= 1 /\ cp[L] \in Nat
  <2>1. pre \in {0, 2} /\ L \in 1 .. L
    BY <1>2
  <2>2. QED
    BY <1>1, <2>1
<1>7. len = n
  <2>0. /\ len \in Nat /\ n \in Nat /\ pre \in Nat /\ suf \in Nat /\ (pre + n) + suf = L
        /\ pre + len <= L
    <3>1. {0, 2} \subseteq Nat /\ {0, 1} \subseteq Nat
      OBVIOUS
    <3>2. QED
      BY <1>2, <1>5, <1>6, <3>1, Zenon
  <2>1. CASE len < n
    <3>1. len + 1 \in 1 .. n /\ pre + len < L
      BY <2>0, <2>1
    <3>2. QED
      BY <1>2, <1>5, <3>1, Zenon
  <2>2. CASE len > n
    <3>1. suf = 1
      <4>1. suf # 0
        BY <2>0, <2>2
      <4>2. QED
        BY <1>2, <4>1
    <3>2. n + 1 \in 1 .. len
      BY <2>0, <2>2
    <3>3. pre + (n + 1) = L
      BY <2>0, <3>1
    <3>4. Digit(cp[L], base) /\ cp[L] \in SuffixKeys
      BY <1>2, <1>5, <3>1, <3>2, <3>3, Zenon
    <3>5. QED
      BY <1>2, <1>6, <3>4, DigitOf, Zenon
  <2>3. QED
    BY <2>0, <2>1, <2>2
<1>8. PICK m \in Nat : m = pre + n /\ m + suf = L
  BY <1>2, <1>6
<1>9. PICK v : v = ValueTo(t, base, n)
  OBVIOUS
<1>10. Strtoull(cp).value = v /\ Strtoull(cp).length = m
  <2>1. Strtoull(cp) = [value |-> v, length |-> m]
    BY <1>5, <1>7, <1>8, <1>9, Zenon
  <2>2. QED
    BY <2>1
<1>11. v % ULong = Positional(base, digits) % ULong
  <2>1. base \in Nat
    BY <1>2
  <2>2. PICK l \in Nat : l = Len(t) /\ l + pre = L
    <3>1. t \in Seq(Nat) /\ Len(t) + pre = L
      BY <1>5, Zenon
    <3>2. Len(t) \in Nat
      BY <3>1
    <3>3. QED
      BY <3>1, <3>2, Zenon
  <2>3. n <= l
    <3>1. {0, 2} \subseteq Nat /\ {0, 1} \subseteq Nat
      OBVIOUS
    <3>2. n \in Nat /\ pre \in Nat /\ suf \in Nat /\ (pre + n) + suf = L
      BY <1>2, <1>6, <3>1, Zenon
    <3>3. QED
      BY <2>2, <3>2
  <2>4. \A k \in 1 .. n : t[k] = digits[k] /\ DigitValue(digits[k]) \in Nat
    <3> SUFFICES ASSUME NEW k \in 1 .. n
                 PROVE  t[k] = digits[k] /\ DigitValue(digits[k]) \in Nat
      OBVIOUS
    <3>1. k \in 1 .. l
      BY <1>2, <2>3
    <3>2. digits[k] \in Nat
      BY <1>2
    <3>3. t[k] = digits[k] /\ Digit(digits[k], base)
      BY <1>2, <1>5, <2>2, <3>1, Zenon
    <3>4. QED
      BY <1>2, <3>2, <3>3, DigitOf, Zenon
  <2>5. n \in Nat /\ n = Len(digits) /\ n <= Len(t)
    BY <1>2, <2>2, <2>3
  <2>6. /\ Positional(base, digits) \in Nat
        /\ ValueTo(t, base, n) = Positional(base, digits) % ULongLong
    <3>1. /\ base \in Nat /\ digits \in Seq(Nat) /\ t \in Seq(Nat) /\ n \in Nat
          /\ n = Len(digits) /\ n <= Len(t)
          /\ \A k \in 1 .. n : t[k] = digits[k] /\ DigitValue(digits[k]) \in Nat
      BY <1>2, <1>5, <2>1, <2>4, <2>5, Zenon
    <3>2. BeginsWith(t, digits, n)
      BY <3>1, Zenon DEF BeginsWith
    <3>3. QED
      BY <3>1, <3>2, ValueOf, Zenon
  <2>7. PICK x \in Int : x = Positional(base, digits)
    BY <2>6
  <2>8. (x % ULongLong) % ULong = x % ULong
    BY TwoCuts
  <2>9. QED
    BY <1>9, <2>6, <2>7, <2>8, Zenon
<1>12. PICK c : c = At(cp, m)
  OBVIOUS
<1>13. Shifts(c) = Shifts(cp[L]) /\ m + (IF Shifts(c) > 0 THEN 1 ELSE 0) = L
  <2>1. CASE suf = 1
    <3>1. m < Len(cp) /\ m + 1 = L
      BY <1>1, <1>8, <2>1
    <3>2. c = cp[L]
      BY <1>12, <3>1, Zenon DEF At
    <3>3. Shifts(cp[L]) > 0
      BY <1>2, <1>6, <2>1, DigitOf, Zenon
    <3>4. QED
      BY <3>1, <3>2, <3>3, Zenon
  <2>2. CASE suf = 0
    <3>1. ~(m < Len(cp)) /\ m = L /\ suf # 1 /\ L + 0 = L
      BY <1>1, <1>8, <2>2
    <3>2. c = 0
      BY <1>12, <3>1, Zenon DEF At
    <3>3. Shifts(0) = 0 /\ ~(0 > 0)
      BY DEF Shifts
    <3>4. Shifts(cp[L]) = 0
      BY <1>2, <1>6, <3>1, DigitOf, Zenon
    <3>5. QED
      BY <3>1, <3>2, <3>3, <3>4, Zenon
  <2>3. QED
    BY <1>2, <2>1, <2>2, Zenon
<1>14. /\ Memparse(cp).length = m + (IF Shifts(c) > 0 THEN 1 ELSE 0)
       /\ Memparse(cp).value = Scaled(v % ULong, Shifts(c))
  <2>1. Takes(cp, v, m, c)
    BY <1>10, <1>12, Zenon DEF Takes
  <2>2. QED
    BY <2>1, MemparseOf, Zenon
<1>15. cp # <<>>
  BY <1>1, <1>6
<1>16. QED
  BY <1>1, <1>11, <1>13, <1>14, <1>15, Zenon

\* A text that is taken has a form, or is a suffix by itself.
LEMMA OffsetFormed ==
  ASSUME NEW cp \in Seq(Nat), IsOffset(cp)
  PROVE  Forms(cp) # {} \/ (Len(cp) = 1 /\ cp[1] \in SuffixKeys)
<1>1. PICK L \in Nat : L = Len(cp) /\ L >= 1
  BY DEF IsOffset
<1>2. PICK base, pre, len, t : Scanned(cp, base, pre, len, t)
  BY ScanOf
<1>3. /\ base \in {8, 10, 16} /\ base = GuessBase(cp)
      /\ pre = (IF base = 16 THEN 2 ELSE 0)
      /\ len \in Nat /\ pre + len <= L
      /\ \A k \in 1 .. len : Digit(cp[pre + k], base)
      /\ pre + len < L => ~Digit(cp[pre + (len + 1)], base)
      /\ Strtoull(cp) = [value |-> ValueTo(t, base, len), length |-> pre + len]
  BY <1>1, <1>2, Zenon DEF Scanned
<1>4. PICK m \in Nat : m = pre + len /\ m <= L
  BY <1>3
<1>5. PICK c : c = At(cp, m)
  OBVIOUS
<1>6. m + (IF Shifts(c) > 0 THEN 1 ELSE 0) = L
  <2>1. PICK v : v = ValueTo(t, base, len)
    OBVIOUS
  <2>2. Strtoull(cp) = [value |-> v, length |-> m]
    BY <1>3, <1>4, <2>1, Zenon
  <2>3. Strtoull(cp).value = v /\ Strtoull(cp).length = m
    BY <2>2
  <2>4. Takes(cp, v, m, c)
    BY <1>5, <2>3, Zenon DEF Takes
  <2>5. Memparse(cp).length = m + (IF Shifts(c) > 0 THEN 1 ELSE 0)
    BY <2>4, MemparseOf, Zenon
  <2>6. Memparse(cp).length = L
    BY <1>1, Zenon DEF IsOffset
  <2>7. QED
    BY <2>5, <2>6, Zenon
<1>7. L \in 1 .. L /\ cp[L] \in Nat
  <2>1. L \in 1 .. L
    BY <1>1
  <2>2. QED
    BY <1>1, <2>1
<1>8. (base = 16 <=> L >= 3 /\ cp[1] = 48 /\ IsX(cp[2]) /\ IsXDigit(cp[3])) /\ (base = 10 <=> cp[1] # 48)
  <2>1. ~(L = 0)
    BY <1>1
  <2>2. QED
    BY <1>1, <1>3, <2>1, GuessOf, Zenon
<1>9. PICK suf \in {0, 1} : m + suf = L /\ (suf = 1 <=> cp[L] \in SuffixKeys)
  <2>1. CASE Shifts(c) > 0
    <3>1. m + 1 = L /\ m < Len(cp)
      BY <1>1, <1>6, <2>1
    <3>2. c = cp[L]
      BY <1>5, <3>1, Zenon DEF At
    <3>3. cp[L] \in SuffixKeys
      BY <1>7, <2>1, <3>2, DigitOf
    <3>4. QED
      BY <3>1, <3>3
  <2>2. CASE ~(Shifts(c) > 0)
    <3>1. m = L /\ m + 0 = L
      BY <1>6, <2>2
    <3>2. len \in 1 .. len
      BY <1>1, <1>3, <1>4, <1>8, <3>1
    <3>3. Digit(cp[L], base)
      BY <1>3, <1>4, <3>1, <3>2, Zenon
    <3>4. cp[L] \notin SuffixKeys
      BY <1>3, <1>7, <3>3, DigitOf, Zenon
    <3>5. QED
      BY <3>1, <3>4
  <2>3. QED
    BY <2>1, <2>2
<1>10. PICK b : b = Unsuffixed(cp)
  OBVIOUS
<1>11. /\ b \in Seq(Nat) /\ Len(b) = m
       /\ \A k \in 1 .. m : b[k] = cp[k]
  <2>1. PICK s \in {0, 1} :
           /\ b \in Seq(Nat)
           /\ Len(b) + s = Len(cp)
           /\ \A k \in 1 .. Len(b) : b[k] = cp[k]
           /\ s = 1 <=> (cp # <<>> /\ cp[Len(cp)] \in SuffixKeys)
    BY <1>10, UnsuffixedOf, Zenon
  <2>2. cp # <<>>
    BY <1>1
  <2>3. s = 1 <=> suf = 1
    BY <1>1, <1>9, <2>1, <2>2, Zenon
  <2>4. PICK B \in Nat : B = Len(b)
    BY <2>1
  <2>5. B = m
    BY <1>1, <1>9, <2>1, <2>3, <2>4
  <2>6. QED
    BY <2>1, <2>4, <2>5, Zenon
<1>12. ASSUME len = 0 PROVE Len(cp) = 1 /\ cp[1] \in SuffixKeys
  <2>1. base # 16
    <3>1. ASSUME base = 16 PROVE FALSE
      <4>1. pre = 2 /\ pre + len < L /\ pre + (len + 1) = 3 /\ IsXDigit(cp[3]) /\ 3 \in 1 .. Len(cp)
        BY <1>1, <1>3, <1>8, <1>12, <3>1
      <4>2. cp[3] \in Nat
        BY <4>1
      <4>3. Digit(cp[3], 16)
        BY <4>1, <4>2, DigitOf
      <4>4. QED
        BY <1>3, <3>1, <4>1, <4>3, Zenon
    <3>2. QED
      BY <3>1
  <2>2. pre = 0 /\ m = 0 /\ suf = 1 /\ L = 1
    BY <1>1, <1>3, <1>4, <1>9, <1>12, <2>1
  <2>3. QED
    BY <1>1, <1>9, <2>2, Zenon
<1>13. ASSUME len # 0 PROVE \E f : FormsIn(cp, f)
  <2>1. \A k \in 1 .. len : k \in Nat /\ pre + k \in 1 .. m
    BY <1>3, <1>4
  <2>2. \A k \in 1 .. len : b[pre + k] \in DigitSet(base)
    <3> SUFFICES ASSUME NEW k \in 1 .. len PROVE b[pre + k] \in DigitSet(base)
      OBVIOUS
    <3>1. Digit(b[pre + k], base)
      BY <1>3, <1>11, <2>1, Zenon
    <3>2. b[pre + k] \in Nat
      BY <1>11, <2>1
    <3>3. QED
      BY <1>3, <3>1, <3>2, DigitOf, Zenon
  <2>3. 1 \in 1 .. m /\ m # 0
    BY <1>3, <1>4, <1>13
  <2>4. b[1] = cp[1] /\ b # <<>>
    BY <1>11, <2>3
  <2>5. CASE base # 16
    <3>1. PICK f : f = [base |-> base, digits |-> b]
      OBVIOUS
    <3>2. f.base = base /\ f.digits = b
      BY <3>1
    <3>3. pre = 0 /\ len = m
      BY <1>3, <1>4, <2>5
    <3>4. \A k \in 1 .. Len(b) : b[k] \in DigitSet(base)
      <4>1. \A k \in 1 .. m : 0 + k = k
        OBVIOUS
      <4>2. QED
        BY <1>11, <2>2, <3>3, <4>1, Zenon
    <3>5. CASE base = 10
      BY <1>8, <1>10, <2>4, <3>1, <3>2, <3>4, <3>5, Zenon DEF FormsIn
    <3>6. CASE base = 8
      <4>1. base # 10
        BY <3>6
      <4>2. QED
        BY <1>8, <1>10, <2>4, <3>1, <3>2, <3>4, <3>6, <4>1, Zenon DEF FormsIn
    <3>7. QED
      BY <1>3, <2>5, <3>5, <3>6
  <2>6. CASE base = 16
    <3>1. PICK d, f : d = SubSeq(b, 3, Len(b)) /\ f = [base |-> 16, digits |-> d]
      OBVIOUS
    <3>2. f.base = 16 /\ f.digits = d
      BY <3>1
    <3>3. pre = 2 /\ 2 + len = m /\ 3 <= m /\ m - 3 + 1 = len
      BY <1>3, <1>4, <1>13, <2>6
    <3>4. /\ d \in Seq(Nat) /\ Len(d) = len
          /\ \A k \in 1 .. len : d[k] = b[2 + k]
      <4>1. 3 \in Int /\ m \in Int /\ \A i \in 3 .. m : b[i] \in Nat
        BY <1>11
      <4>2. /\ SubSeq(b, 3, m) \in Seq(Nat)
            /\ Len(SubSeq(b, 3, m)) = IF 3 <= m THEN m - 3 + 1 ELSE 0
            /\ \A k \in 1 .. m - 3 + 1 : SubSeq(b, 3, m)[k] = b[3 + k - 1]
        BY <4>1, SubSeqProperties
      <4>3. \A k \in 1 .. len : 3 + k - 1 = 2 + k
        OBVIOUS
      <4>4. d = SubSeq(b, 3, m)
        BY <1>11, <3>1, Zenon
      <4>5. Len(d) = len
        BY <3>3, <4>2, <4>4, Zenon
      <4>6. QED
        BY <3>3, <4>2, <4>3, <4>4, <4>5, Zenon
    <3>5. d # <<>>
      BY <1>13, <3>4
    <3>6. \A k \in 1 .. Len(d) : d[k] \in DigitSet(16)
      BY <2>2, <2>6, <3>3, <3>4, Zenon
    <3>7. 2 \in 1 .. m
      BY <3>3
    <3>8. b[1] = 48 /\ b[2] \in {88, 120}
      <4>1. b[2] = cp[2] /\ IsX(cp[2]) /\ cp[1] = 48
        BY <1>8, <1>11, <2>6, <3>7, Zenon
      <4>2. QED
        BY <2>4, <4>1 DEF IsX
    <3>9. QED
      BY <1>10, <3>1, <3>2, <3>5, <3>6, <3>8, Zenon DEF FormsIn
  <2>7. QED
    BY <2>5, <2>6
<1>14. QED
  <2>1. ASSUME NEW f, FormsIn(cp, f) PROVE Forms(cp) # {}
    <3>1. f \in Forms(cp)
      BY <2>1, FormsAre
    <3>2. QED
      BY <3>1
  <2>2. QED
    BY <1>12, <1>13, <2>1, Zenon

\* A suffix by itself is taken.
LEMMA LoneSuffix ==
  ASSUME NEW cp \in Seq(Nat), Len(cp) = 1, cp[1] \in SuffixKeys
  PROVE  IsOffset(cp)
<1>1. PICK base, pre, len, t : Scanned(cp, base, pre, len, t)
  BY ScanOf
<1>2. /\ base \in {8, 10, 16} /\ base = GuessBase(cp)
      /\ pre = (IF base = 16 THEN 2 ELSE 0)
      /\ len \in Nat /\ pre + len <= Len(cp)
      /\ \A k \in 1 .. len : Digit(cp[pre + k], base)
      /\ Strtoull(cp) = [value |-> ValueTo(t, base, len), length |-> pre + len]
  BY <1>1, Zenon DEF Scanned
<1>3. PICK c \in Nat : c = cp[1]
  <2>1. PICK L \in Nat : L = Len(cp) /\ L = 1
    OBVIOUS
  <2>2. cp[1] \in Nat
    <3>1. 1 \in 1 .. L
      BY <2>1
    <3>2. QED
      BY <2>1, <3>1, ElementOfSeq, Zenon
  <2>3. QED
    BY <2>2
<1>4. pre = 0
  BY <1>2
<1>5. len = 0
  <2>1. CASE len >= 1
    <3>1. 1 \in 1 .. len /\ pre + 1 = 1
      BY <1>2, <1>4, <2>1
    <3>2. Digit(c, base)
      BY <1>2, <1>3, <3>1, Zenon
    <3>3. QED
      BY <1>2, <1>3, <3>2, DigitOf, Zenon
  <2>2. QED
    BY <1>2, <2>1
<1>6. PICK v : v = ValueTo(t, base, len)
  OBVIOUS
<1>7. pre + len = 0
  BY <1>4, <1>5
<1>8. Strtoull(cp) = [value |-> v, length |-> 0]
  BY <1>2, <1>6, <1>7, Zenon
<1>9. At(cp, 0) = c
  BY <1>3 DEF At
<1>10. Takes(cp, v, 0, c)
  BY <1>8, <1>9 DEF Takes
<1>11. Memparse(cp).length = 0 + (IF Shifts(c) > 0 THEN 1 ELSE 0)
  BY <1>10, MemparseOf, Zenon
<1>12. Shifts(c) > 0
  BY <1>3, DigitOf
<1>13. Memparse(cp).length = 1
  BY <1>11, <1>12
<1>14. cp # <<>>
  <2>1. Len(<<>>) # 1
    OBVIOUS
  <2>2. QED
    BY <2>1, Zenon
<1>15. QED
  BY <1>13, <1>14, Zenon DEF IsOffset

\* An argument is taken for an offset exactly when it is a number, and is then that
\* number.
LEMMA OffsetMeans ==
  ASSUME NEW cp \in Seq(Nat)
  PROVE  /\ IsOffset(cp) <=> (Forms(cp) # {} \/ (Len(cp) = 1 /\ cp[1] \in SuffixKeys))
         /\ \A f \in Forms(cp) :
              Memparse(cp).value = Scaled(Positional(f.base, f.digits) % ULong, Shifts(cp[Len(cp)]))
<1>1. ASSUME NEW f \in Forms(cp)
      PROVE  /\ IsOffset(cp)
             /\ Memparse(cp).value = Scaled(Positional(f.base, f.digits) % ULong, Shifts(cp[Len(cp)]))
  <2>1. PICK pre, n, suf : Formed(cp, f.base, f.digits, pre, n, suf)
    BY FormOf
  <2>2. QED
    BY <2>1, FormTaken, Zenon DEF IsOffset
<1>2. QED
  BY <1>1, OffsetFormed, LoneSuffix, Zenon

\* For every text and every width of unsigned long and unsigned long long: arg_off
\* (simple_strtoull, memparse) takes a text exactly if it is a number with at most one
\* suffix or a suffix alone, and what it makes of it is the positional value of the
\* digits, cut to an unsigned long, times the power of 1024 that the suffix says, cut to
\* an unsigned long long.
THEOREM NumberCorrect == NumberSpec => []OffsetMeansText
<1> DEFINE Typed == typed \in Seq(Nat)
<1>1. NumberInit => Typed
  BY DEF NumberInit
<1>2. Typed /\ [NumberNext]_typed => Typed'
  <2> SUFFICES ASSUME Typed, [NumberNext]_typed PROVE Typed'
    OBVIOUS
  <2>1. ASSUME NEW c \in Keys, Type(c) PROVE Typed'
    <3>1. c \in Nat
      BY NumberTextAssumption
    <3>2. QED
      BY <2>1, <3>1 DEF Type
  <2>2. CASE Enter
    BY <2>2 DEF Enter
  <2>3. CASE UNCHANGED typed
    BY <2>3
  <2>4. QED
    BY <2>1, <2>2, <2>3 DEF NumberNext
<1>3. Typed => OffsetMeansText
  <2> SUFFICES ASSUME Typed PROVE OffsetMeansText
    OBVIOUS
  <2>1. /\ IsOffset(typed) <=> (Forms(typed) # {} \/ (Len(typed) = 1 /\ typed[1] \in SuffixKeys))
        /\ \A f \in Forms(typed) :
              Memparse(typed).value
                = Scaled(Positional(f.base, f.digits) % ULong, Shifts(typed[Len(typed)]))
    BY OffsetMeans
  <2>2. \A x, shifts : Scaled(x, shifts) = (x * (1024^shifts % ULongLong)) % ULongLong
    BY Zenon DEF Scaled
  <2>3. ASSUME NEW f \in Forms(typed)
        PROVE  Memparse(typed).value =
                 ((Positional(f.base, f.digits) % ULong) * (1024^Shifts(typed[Len(typed)]) % ULongLong))
                     % ULongLong
    <3>1. PICK x, y : x = Positional(f.base, f.digits) % ULong /\ y = Shifts(typed[Len(typed)])
      OBVIOUS
    <3>2. Memparse(typed).value = Scaled(x, y)
      BY <2>1, <3>1, Zenon
    <3>3. QED
      BY <2>2, <3>1, <3>2, ZenonT(30)
  <2>4. QED
    BY <2>1, <2>3, Zenon DEF OffsetMeansText
<1>4. QED
  BY <1>1, <1>2, <1>3, PTL DEF NumberSpec
=============================================================================
