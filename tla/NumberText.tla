----------------------------- MODULE NumberText -----------------------------
(***************************************************************************)
(* A number typed at the console, a character at a time, and what arg_off  *)
(* of src/src/cmd/cmd_nand.c makes of it: the module Numbers on every text *)
(* of up to TextMax characters.                                            *)
(***************************************************************************)
EXTENDS Numbers

CONSTANTS
    Keys,       \* bound: the characters typed
    TextMax     \* bound: the length of the text

\* A character is its code.
ASSUME NumberTextAssumption == TextMax \in Nat /\ Keys \subseteq Nat

VARIABLE typed

NumberInit == typed = <<>>

Type(c) == Len(typed) < TextMax /\ typed' = Append(typed, c)

Enter == typed # <<>> /\ typed' = <<>>

NumberNext == (\E c \in Keys : Type(c)) \/ Enter

NumberSpec == NumberInit /\ [][NumberNext]_typed
-----------------------------------------------------------------------------
(* Properties.                                                             *)

\* The suffixes and the digits of a base.
SuffixKeys == {71, 103, 77, 109, 75, 107}
DigitSet(base) == {c \in 48 .. 102 : IsXDigit(c) /\ DigitValue(c) < base}

\* The ways to write a number: base, what stands before the digits, and digits.
Forms(text) ==
    LET body == IF text # <<>> /\ text[Len(text)] \in SuffixKeys
                THEN SubSeq(text, 1, Len(text) - 1) ELSE text
    IN  {f \in {[base |-> 10, digits |-> body],
                [base |-> 8, digits |-> body]}
               \cup {[base |-> 16, digits |-> SubSeq(body, 3, Len(body))]} :
            /\ f.digits # <<>>
            /\ \A k \in 1 .. Len(f.digits) : f.digits[k] \in DigitSet(f.base)
            /\ CASE f.base = 10 -> body[1] # 48
                 [] f.base = 8 -> body[1] = 48
                 [] f.base = 16 -> body[1] = 48 /\ body[2] \in {88, 120}}

\* Positional value: the last digit counts once, the one before it base times
\* and so on.
Positional(base, digits) ==
    LET weight[k \in 0 .. Len(digits)] == IF k = 0 THEN 1 ELSE base * weight[k - 1]
        sum[k \in 0 .. Len(digits)] ==
            IF k = 0 THEN 0
            ELSE sum[k - 1] + DigitValue(digits[Len(digits) + 1 - k]) * weight[k - 1]
    IN  sum[Len(digits)]

\* An argument is taken for an offset or a size exactly when it is a decimal,
\* octal (0) or hexadecimal (0x) number with at most one suffix, and is then the
\* number, cut to an unsigned long, times 1024, 1024^2 or 1024^3, cut to an
\* unsigned long long; only a suffix by itself is taken for 0 too.
OffsetMeansText ==
    /\ IsOffset(typed) <=> (Forms(typed) # {} \/ (Len(typed) = 1 /\ typed[1] \in SuffixKeys))
    /\ \A f \in Forms(typed) :
         Memparse(typed).value =
            ((Positional(f.base, f.digits) % ULong) * (1024^Shifts(typed[Len(typed)]) % ULongLong))
                % ULongLong
=============================================================================
