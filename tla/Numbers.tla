------------------------------ MODULE Numbers ------------------------------
(***************************************************************************)
(* Text to numbers: simple_strtoull (src/src/lib/vsprintf.c), memparse and *)
(* arg_off (src/src/cmd/cmd_nand.c).  A string is the sequence of its      *)
(* character codes without the NUL.  ULong is the number of values of an   *)
(* unsigned long and ULongLong that of an unsigned long long.              *)
(***************************************************************************)
EXTENDS Integers, Sequences

CONSTANTS ULong, ULongLong

ASSUME NumbersAssumption ==
    /\ ULong \in Nat \ {0}
    /\ ULongLong \in Nat \ {0}
    /\ ULongLong % ULong = 0

\* cp[k], the NUL and what is behind it included.
At(cp, k) == IF k < Len(cp) THEN cp[k + 1] ELSE 0

IsDigit(c) == c \in 48 .. 57
IsXDigit(c) == IsDigit(c) \/ c \in 97 .. 102 \/ c \in 65 .. 70
IsX(c) == c \in {88, 120}
DigitValue(c) ==
    IF IsDigit(c) THEN c - 48 ELSE IF c >= 97 THEN c - 87 ELSE c - 55

\* simple_guess_base
GuessBase(cp) ==
    IF At(cp, 0) # 48 THEN 10
    ELSE IF IsX(At(cp, 1)) /\ IsXDigit(At(cp, 2)) THEN 16 ELSE 8

\* A mutation: a digit of a higher base is not the end of the number.
DigitsOfAnyBase(cp, base) ==
    {n \in 0 .. Len(cp) : \A k \in 1 .. n : IsXDigit(cp[k])}
\* The lengths of the beginnings of cp that are all digits of the base.
Digits(cp, base) ==
    {n \in 0 .. Len(cp) : \A k \in 1 .. n : IsXDigit(cp[k]) /\ DigitValue(cp[k]) < base}

\* The first n characters as a number, which an unsigned long long holds.
ValueTo(cp, base, n) ==
    LET value[k \in 0 .. Len(cp)] ==
            IF k = 0 THEN 0 ELSE (value[k - 1] * base + DigitValue(cp[k])) % ULongLong
    IN  value[n]

\* simple_strtoull with base 0: the number, and the number of characters it
\* takes.  Nothing looks at an overflow.
Strtoull(cp) ==
    LET base == GuessBase(cp)
        prefix == IF base = 16 THEN 2 ELSE 0
        tail == SubSeq(cp, prefix + 1, Len(cp))
        len == CHOOSE n \in Digits(tail, base) : \A m \in Digits(tail, base) : m <= n
    IN  [value |-> ValueTo(tail, base, len), length |-> prefix + len]

\* simple_strtoul
Strtoul(cp) == Strtoull(cp).value % ULong

\* The shifts a suffix falls through: K once, M twice, G three times.
Shifts(c) ==
    CASE c \in {71, 103} -> 3
      [] c \in {77, 109} -> 2
      [] c \in {75, 107} -> 1
      [] OTHER -> 0

\* A mutation: the suffix is not stepped over.
MemparseKeepsSuffix(cp) ==
    LET n == Strtoull(cp)
    IN  [value |-> ((n.value % ULong) * (1024^Shifts(At(cp, n.length)) % ULongLong)) % ULongLong,
         length |-> n.length]
Memparse(cp) ==
    LET n == Strtoull(cp)
        shifts == Shifts(At(cp, n.length))
    IN  [value |-> ((n.value % ULong) * (1024^shifts % ULongLong)) % ULongLong,
         length |-> n.length + (IF shifts > 0 THEN 1 ELSE 0)]

\* str2off: an argument is an offset if all of it was taken.
IsOffset(cp) == cp # <<>> /\ Memparse(cp).length = Len(cp)
=============================================================================
