----------------------------- MODULE NandStore ------------------------------
(***************************************************************************)
(* What nand_flash_erase, nand_flash_write and nand_flash_read promise     *)
(* their callers, without the controller, its DMA buffer and the bad block *)
(* check: a call moves the units first, first + 1, first + 2, ... (blocks  *)
(* for an erase, pages otherwise) one at a time and in that order, and     *)
(* touches nothing else.  A failed unit is passed over and the next one is *)
(* tried, which for a write means that the data moves on by one page.      *)
(***************************************************************************)
EXTENDS NandChip

VARIABLES
    flash,   \* the pages of the device
    job,     \* the call that runs: its kind and its arguments
    done,    \* units moved
    failed,  \* units passed over because the device reported a failure
    out      \* what a read has delivered so far

vars == <<flash, job, done, failed, out>>

Idle == [kind |-> "idle"]

\* Cells a call moves per page.
RealPageSize(withoob) == IF withoob THEN PageSize + OobSize ELSE PageSize

\* The n-th page of a caller's buffer, padded with FF to a whole page.
PageOf(buf, n, withoob) ==
    [c \in Cells |-> IF c < RealPageSize(withoob)
                     THEN buf[n * RealPageSize(withoob) + c + 1]
                     ELSE FF]

\* What a read of page contents delivers.
Delivered(contents, withoob) ==
    [i \in 1 .. RealPageSize(withoob) |-> contents[i - 1]]

Jobs == [kind : {"erase", "write", "read"}, first : Nat, total : Nat,
         withoob : BOOLEAN, buf : Seq(Val)]

Init ==
    /\ flash \in [Pages -> PageContents]
    /\ job = Idle
    /\ done = 0
    /\ failed = 0
    /\ out = <<>>

Begin ==
    /\ job = Idle
    /\ job' \in Jobs
    /\ done' = 0
    /\ failed' = 0
    /\ out' = <<>>
    /\ UNCHANGED flash

\* An erase ends when every block was tried, a transfer when all is moved.
End ==
    /\ job # Idle
    /\ job' = Idle
    /\ job.total = IF job.kind = "erase" THEN done + failed ELSE done
    /\ UNCHANGED <<flash, done, failed, out>>

Unit == job.first + done + failed

\* A unit is moved (ok) or fails; the device may have done the work all the
\* same when it reports a failure.
Account(ok) ==
    /\ done' = IF ok THEN done + 1 ELSE done
    /\ failed' = IF ok THEN failed ELSE failed + 1

Erase(ok) ==
    /\ job # Idle
    /\ job.kind = "erase"
    /\ done + failed < job.total
    /\ \/ flash' = EraseAt(flash, Row(Unit * PagesPerBlock))
       \/ ~ok /\ UNCHANGED flash
    /\ Account(ok)
    /\ UNCHANGED <<job, out>>

Write(ok) ==
    /\ job # Idle
    /\ job.kind = "write"
    /\ done < job.total
    /\ \/ flash' = [flash EXCEPT ![Row(Unit)] =
                      ProgramCells(@, PageOf(job.buf, done, job.withoob), Cells)]
       \/ ~ok /\ UNCHANGED flash
    /\ Account(ok)
    /\ UNCHANGED <<job, out>>

Read ==
    /\ job # Idle
    /\ job.kind = "read"
    /\ done < job.total
    /\ out' = out \o Delivered(flash[Row(Unit)], job.withoob)
    /\ Account(TRUE)
    /\ UNCHANGED <<job, flash>>

Next ==
    \/ Begin \/ End \/ Read
    \/ \E ok \in BOOLEAN : Erase(ok) \/ Write(ok)

Spec == Init /\ [][Next]_vars
=============================================================================
