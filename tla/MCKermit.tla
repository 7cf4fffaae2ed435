------------------------------ MODULE MCKermit ------------------------------
(***************************************************************************)
(* Kermit for TLC: a session of two files in nine packets with packet      *)
(* numbers modulo 4, so that the numbers wrap twice, and a line that holds *)
(* up to three packets in each direction.                                  *)
(***************************************************************************)
EXTENDS Kermit

P(type, data) == [type |-> type, data |-> data]
MCScript == << P("S", 0), P("F", 0), P("D", 1), P("D", 2), P("Z", 0),
               P("F", 0), P("D", 3), P("Z", 0), P("B", 0) >>
MCGarbled == [type |-> "?", seq |-> NoSeq, data |-> 0]
=============================================================================
