---------------------------- MODULE FileTransfer ----------------------------
(***************************************************************************)
(* What loadb promises: the payloads that the other side sends arrive in   *)
(* memory in the order they were sent, each once, one behind the other,    *)
(* and the command returns when all of them are there.                     *)
(***************************************************************************)
EXTENDS Sequences, Naturals

CONSTANT Payloads   \* what the other side sends, a sequence

VARIABLES
    stored,   \* what is in memory at the load address
    running   \* the command has not returned

Init == stored = <<>> /\ running = TRUE

Store ==
    /\ running
    /\ Len(stored) < Len(Payloads)
    /\ stored' = Append(stored, Payloads[Len(stored) + 1])
    /\ UNCHANGED running

Finish ==
    /\ running
    /\ stored = Payloads
    /\ running' = FALSE
    /\ UNCHANGED stored

Next == Store \/ Finish

Spec == Init /\ [][Next]_<<stored, running>>
=============================================================================
