------------------------------ MODULE MCConsole ------------------------------
(***************************************************************************)
(* Console for TLC.  Up to TypedMax characters in all: many short lines,   *)
(* so that the history ring goes round, or one long line for the           *)
(* tokenizer, so that there are words that do not fit a slot and more      *)
(* words than slots.                                                       *)
(***************************************************************************)
EXTENDS Console

CONSTANTS x, blank
MCTwo == {x, blank}
MCUnset == <<"unset">>
=============================================================================
