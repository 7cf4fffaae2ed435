---------------------------- MODULE NandSelfTest ----------------------------
(***************************************************************************)
(* The commands test_nand_write and test_nand_write_oob of                 *)
(* src/src/cmd/cmd_nand.c: erase a range, write two pages of a pattern at  *)
(* its start, read them back and compare.  Each call runs the driver of    *)
(* NandDriver from start to return.                                        *)
(***************************************************************************)
EXTENDS NandDriver

CONSTANTS
    TestBlock,   \* the block at 52 MiB
    EraseBlocks, \* the blocks of the 8 MiB that are erased
    TestPages,   \* the pages of 4096 bytes
    WithOob,     \* test_nand_write (FALSE) or test_nand_write_oob (TRUE)
    Pattern(_)   \* the i-th cell of the pattern, from 0

ASSUME SelfTestAssumption ==
    /\ TestBlock \in Blocks
    /\ EraseBlocks \in 1 .. MaxTotal
    /\ TestPages \in 1 .. MaxTotal
    /\ WithOob \in BOOLEAN
    /\ \A i \in 0 .. TestPages * RealPageSize(WithOob) - 1 : Pattern(i) \in Val

VARIABLES
    phase,   \* the call the command makes next, or "end"
    result   \* "success", "failed", or "none" before the end

testvars == <<vars, phase, result>>

TestFrom == TestBlock * PagesPerBlock
TestBuf == [i \in 1 .. TestPages * RealPageSize(WithOob) |-> Pattern(i - 1)]

TestInit == Init /\ phase = "boot" /\ result = "none"

StartTest ==
    /\ phase = "boot"
    /\ CallErase(TestFrom, EraseBlocks)
    /\ phase' = "erase"
    /\ UNCHANGED result

GiveUp ==
    /\ phase' = "end"
    /\ result' = "failed"
    /\ UNCHANGED vars

\* A negative return of the erase ends the command.
AfterErase ==
    /\ phase = "erase"
    /\ pc = "idle"
    /\ IF ret < 0 THEN GiveUp
       ELSE /\ CallWrite(TestFrom, TestPages, WithOob, TestBuf)
            /\ phase' = "write"
            /\ UNCHANGED result

AfterWrite ==
    /\ phase = "write"
    /\ pc = "idle"
    /\ IF ret # 0 THEN GiveUp
       ELSE /\ CallRead(TestFrom, TestPages, WithOob)
            /\ phase' = "read"
            /\ UNCHANGED result

\* nand_flash_read returns 0 in every case; compare what it stored.
AfterRead ==
    /\ phase = "read"
    /\ pc = "idle"
    /\ phase' = "end"
    /\ result' = IF out = TestBuf THEN "success" ELSE "failed"
    /\ UNCHANGED vars

DriverStep == Step /\ UNCHANGED <<phase, result>>

Test == StartTest \/ AfterErase \/ AfterWrite \/ AfterRead

TestNext == Test \/ DriverStep

TestSpec == TestInit /\ [][TestNext]_testvars
FairTestSpec == TestSpec /\ WF_testvars(Test) /\ WF_testvars(DriverStep)
-----------------------------------------------------------------------------
\* A write that reported no error is read back as it was written: the test
\* prints "read back compare failed" otherwise (cmd_nand.c:367-369).
ReadBackEqual == phase = "end" /\ pc = "idle" /\ ret = 0 => result = "success"

\* The command ends and prints its verdict (cmd_nand.c:378-383, 527-532).
TestEnds == <>(phase = "end")
=============================================================================
