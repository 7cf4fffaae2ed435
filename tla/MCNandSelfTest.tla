--------------------------- MODULE MCNandSelfTest ---------------------------
(***************************************************************************)
(* NandSelfTest for TLC: five blocks of two pages, the test in the third;  *)
(* the erase covers two blocks and the pattern, whose cells all differ,    *)
(* fills one.                                                              *)
(***************************************************************************)
EXTENDS NandSelfTest

CONSTANTS a, b, c, d, erased, mixed

MCData == {a, b, c, d}
MCBufs == {}
MCPattern(i) == <<a, b, c, d>>[(i % 4) + 1]
=============================================================================
