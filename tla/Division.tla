------------------------------ MODULE Division ------------------------------
(***************************************************************************)
(* The division routines of src/src/lib/arm/lib1funcs.S, which the         *)
(* compiler calls for every / and % of the program, as they are built for  *)
(* an ARM v7 (__LINUX_ARM_ARCH__ is 7: alignment by clz).  One step is one *)
(* pass of a division loop, which settles four bits; the tests before the  *)
(* loops and the signs are the step that begins or ends a call.            *)
(*                                                                         *)
(* Registers hold 0 .. 2^Width - 1.  __aeabi_uidivmod and __aeabi_idivmod  *)
(* are the divisions followed by remainder = a - q * b, which rest gives.  *)
(***************************************************************************)
EXTENDS Integers

CONSTANTS
    Width,      \* bits of a register
    Operands    \* bound: the operands used

ASSUME DivisionAssumption ==
    /\ Width \in Nat \ {0}
    /\ Operands \subseteq 0 .. 2^Width - 1

VARIABLES
    fn,         \* the routine called, "none" between calls
    num, den,   \* history: its operands
    loop,       \* "div", "mod", "tail" or "over"
    dividend, divisor, result, curbit, order,
    quotient    \* r0 on return

divVars == <<fn, num, den, loop, dividend, divisor, result, curbit, order, quotient>>
-----------------------------------------------------------------------------
Wrap(x) == x % 2^Width
Neg(x) == Wrap(2^Width - x)
Negative(x) == x >= 2^(Width - 1)
Magnitude(x) == IF Negative(x) THEN Neg(x) ELSE x
Lsr(x, n) == x \div 2^n

\* The number of leading zeros.
Clz(x) == CHOOSE n \in 0 .. Width : x < 2^(Width - n) /\ (n < Width => x >= 2^(Width - n - 1))

PowerOfTwo(x) == x # 0 /\ x = 2^(Width - 1 - Clz(x))

Signed == {"divsi3", "modsi3"}
Divides == {"udivsi3", "divsi3"}

\* A mutation: the sign of the divisor is forgotten.
SignOfDividend(f, x, y, r) ==
    IF f \in Signed /\ Negative(x) THEN Neg(r) ELSE r
\* The sign put on a result: that of ip = r0 eor r1, or of the dividend.
Sign(f, x, y, r) ==
    IF \/ f = "divsi3" /\ Negative(x) # Negative(y)
       \/ f = "modsi3" /\ Negative(x)
    THEN Neg(r) ELSE r

DivisionInit ==
    /\ fn = "none"
    /\ num = 0 /\ den = 0
    /\ loop = "over"
    /\ dividend = 0 /\ divisor = 0 /\ result = 0 /\ curbit = 0 /\ order = 0
    /\ quotient = 0
-----------------------------------------------------------------------------
\* What the tests before the loop return for magnitudes m and n: a divisor of
\* 0 (Ldiv0) or 1, a dividend that is not above the divisor, or a power of two.
Short(f, m, n) ==
    IF f \in Divides
    THEN IF n = 0 THEN 0
         ELSE IF n = 1 THEN m
         ELSE IF m <= n THEN (IF m = n THEN 1 ELSE 0)
         ELSE Lsr(m, Width - 1 - Clz(n))
    ELSE IF n = 0 \/ n = 1 \/ m = n THEN 0
         ELSE IF m < n THEN m ELSE m % n

IsShort(m, n) == n \in {0, 1} \/ m <= n \/ PowerOfTwo(n)

\* A call that a test before the loop answers.  Ldiv0 leaves no sign.
CallShort(f, x, y) ==
    LET m == IF f \in Signed THEN Magnitude(x) ELSE x
        n == IF f \in Signed THEN Magnitude(y) ELSE y
    IN  /\ fn = "none"
        /\ IsShort(m, n)
        /\ fn' = f /\ num' = x /\ den' = y
        /\ loop' = "over"
        /\ quotient' = Sign(f, x, y, Short(f, m, n))
        /\ UNCHANGED <<dividend, divisor, result, curbit, order>>

\* ARM_DIV_BODY and ARM_MOD_BODY up to their loops: the divisor is shifted
\* until its first bit is under the dividend's.
CallLoop(f, x, y) ==
    LET m == IF f \in Signed THEN Magnitude(x) ELSE x
        n == IF f \in Signed THEN Magnitude(y) ELSE y
        shift == Clz(n) - Clz(m)
    IN  /\ fn = "none"
        /\ ~IsShort(m, n)
        /\ fn' = f /\ num' = x /\ den' = y
        /\ dividend' = m
        /\ divisor' = n * 2^shift
        /\ result' = 0
        /\ IF f \in Divides
           THEN loop' = "div" /\ curbit' = 2^shift /\ UNCHANGED order
           ELSE /\ loop' = IF shift - 3 < 0 THEN "tail" ELSE "mod"
                /\ order' = shift - 3
                /\ UNCHANGED curbit
        /\ UNCHANGED quotient
-----------------------------------------------------------------------------
\* A place of the divisor: compare, subtract and set the bit.
Settle(acc, k) ==
    IF acc.rest >= Lsr(divisor, k)
    THEN [rest |-> acc.rest - Lsr(divisor, k), bits |-> acc.bits + Lsr(curbit, k)]
    ELSE acc

Unsettled == [rest |-> dividend, bits |-> result]

\* A mutation: three of the four places.
ThreePlaces == Settle(Settle(Settle(Unsettled, 0), 1), 2)
\* The four places of one pass.
Batch == Settle(Settle(Settle(Settle(Unsettled, 0), 1), 2), 3)

DivLoop ==
    /\ loop = "div"
    /\ dividend' = Batch.rest
    /\ result' = Batch.bits
    /\ IF Batch.rest # 0 /\ Lsr(curbit, 4) # 0
       THEN /\ curbit' = Lsr(curbit, 4)
            /\ divisor' = Lsr(divisor, 4)
            /\ UNCHANGED <<loop, quotient>>
       ELSE /\ loop' = "over"
            /\ quotient' = Sign(fn, num, den, Batch.bits)
            /\ UNCHANGED <<curbit, divisor>>
    /\ UNCHANGED <<fn, num, den, order>>

\* The comparison with 1 is a signed one: the rest has lost its top bit.
ModLoop ==
    LET rest == Batch.rest
        more == rest >= 1
        left == IF more THEN order - 4 ELSE order
    IN  /\ loop = "mod"
        /\ dividend' = rest
        /\ divisor' = Lsr(divisor, 4)
        /\ order' = left
        /\ IF more /\ left >= 0
           THEN UNCHANGED <<loop, quotient>>
           ELSE IF left % 4 = 0 \/ rest = 0
           THEN loop' = "over" /\ quotient' = Sign(fn, num, den, rest)
           ELSE loop' = "tail" /\ UNCHANGED quotient
        /\ UNCHANGED <<fn, num, den, result, curbit>>

\* The one, two or three comparisons that are left for order -3, -2 or -1.
ModTail ==
    LET one == Settle(Unsettled, 0)
        two == Settle(one, 1)
        rest == IF order = -3 THEN one.rest
                ELSE IF order = -2 THEN two.rest ELSE Settle(two, 2).rest
    IN  /\ loop = "tail"
        /\ dividend' = rest
        /\ loop' = "over"
        /\ quotient' = Sign(fn, num, den, rest)
        /\ UNCHANGED <<fn, num, den, divisor, result, curbit, order>>

\* The registers are scratch between calls.
DivisionReturn ==
    /\ fn # "none" /\ loop = "over"
    /\ fn' = "none"
    /\ num' = 0 /\ den' = 0 /\ quotient' = 0
    /\ dividend' = 0 /\ divisor' = 0 /\ result' = 0 /\ curbit' = 0 /\ order' = 0
    /\ UNCHANGED loop

DivisionRun == DivLoop \/ ModLoop \/ ModTail \/ DivisionReturn

DivisionNext ==
    \/ \E f \in Signed \cup {"udivsi3", "umodsi3"}, x \in Operands, y \in Operands :
          CallShort(f, x, y) \/ CallLoop(f, x, y)
    \/ DivisionRun

DivisionSpec ==
    DivisionInit /\ [][DivisionNext]_divVars /\ WF_divVars(DivisionRun)
-----------------------------------------------------------------------------
(* Properties.                                                             *)

DivisionTypeOK ==
    /\ fn \in {"none", "udivsi3", "umodsi3"} \cup Signed
    /\ loop \in {"div", "mod", "tail", "over"}
    /\ {num, den, dividend, divisor, result, curbit, quotient} \subseteq 0 .. 2^Width - 1
    /\ order \in -4 .. Width

\* The number a register stands for.
Value(x) == IF fn \in Signed /\ Negative(x) THEN x - 2^Width ELSE x

\* Division truncates towards 0, as C has it; the result of a division by 0
\* is 0.
Truncated(x, y) ==
    IF y = 0 THEN 0
    ELSE LET q == (IF x < 0 THEN -x ELSE x) \div (IF y < 0 THEN -y ELSE y)
         IN  IF (x < 0) # (y < 0) THEN -q ELSE q

\* rest of __aeabi_uidivmod and __aeabi_idivmod: mul and sub.
Rest == Wrap(num - quotient * den)

\* The magnitudes that a routine divides.
AbsA == IF fn \in Signed THEN Magnitude(num) ELSE num
AbsB == IF fn \in Signed THEN Magnitude(den) ELSE den

\* Every division returns the quotient of C and every remainder routine the
\* remainder, for all signs, and a division by 0 returns 0; so the remainder
\* that the divmod routines compute from the quotient is the same.  In a
\* division loop the quotient so far and what is left of the dividend always
\* account for the dividend.
DivisionExact ==
    /\ (fn # "none" /\ loop = "over") =>
         LET q == Truncated(Value(num), Value(den))
         IN  IF fn \in Divides
             THEN /\ quotient = Wrap(q)
                  /\ den # 0 => Rest = Wrap(Value(num) - q * Value(den))
             ELSE quotient = IF den = 0 THEN 0 ELSE Wrap(Value(num) - q * Value(den))
    /\ loop = "div" =>
         AbsA = AbsB * result + dividend /\ divisor = AbsB * curbit
=============================================================================
