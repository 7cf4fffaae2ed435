--------------------------- MODULE MCNandDriver ---------------------------
(***************************************************************************)
(* NandDriver for TLC: two blocks of two pages, one data cell and one      *)
(* spare cell a page, calls of up to two units, so that a transfer         *)
(* crosses the block boundary, wraps at the end of the device and goes on  *)
(* after a failure.                                                        *)
(***************************************************************************)
EXTENDS NandDriver

CONSTANTS a, b, erased, mixed

MCData == {a, b}
\* One page, two pages of different contents, a page with its spare area, two such pages.
MCBufs == { <<a>>, <<a, b>>, <<a, erased>>, <<a, b, b, erased>> }

MCDataOne == {a}
MCBufsOne == { <<a>>, <<a, a>> }

\* The same for pages of two data cells, of which a command queue moves one.
MCBufsWide == { <<a, a>>, <<a, a, a, a>> }
=============================================================================
