------------------------------ MODULE NandChip ------------------------------
(***************************************************************************)
(* The NAND device behind the P4A NAND flash controller (NFC), as the      *)
(* driver src/src/drivers/nand/nand.c uses it: its geometry, what a page   *)
(* program, a page read and a block erase do to the cells, and the status  *)
(* byte they leave.  The device is not part of the repository; this module *)
(* states what the driver relies on.                                       *)
(*                                                                         *)
(* A page is a function over Cells: the cells 0..PageSize-1 are its data   *)
(* area, the next OobSize cells its spare (OOB) area.  A cell stands for a *)
(* run of bytes that the driver always moves together.  The first spare    *)
(* cell holds the bad block marker (badblockpos = 0 on large pages).       *)
(***************************************************************************)
EXTENDS Integers, Sequences, FiniteSets

CONSTANTS
    NumBlocks,      \* erase blocks of the device
    PagesPerBlock,  \* pages of an erase block
    PageSize,       \* cells of the data area of a page
    OobSize,        \* cells of the spare area of a page
    Data,           \* contents a caller may store in a cell
    FF,             \* the erased contents (all bits one)
    Mixed           \* contents of a cell programmed twice without an erase

Val == Data \cup {FF, Mixed}

ASSUME GeometryAssumption ==
    /\ NumBlocks \in Nat \ {0}
    /\ PagesPerBlock \in Nat \ {0}
    /\ PageSize \in Nat \ {0}
    /\ OobSize \in Nat \ {0}
    /\ NumBlocks * PagesPerBlock \in Nat \ {0}
    /\ FF # Mixed

NumPages == NumBlocks * PagesPerBlock
Pages == 0 .. NumPages - 1
Blocks == 0 .. NumBlocks - 1
Cells == 0 .. PageSize + OobSize - 1
SpareCells == PageSize .. PageSize + OobSize - 1
MarkerCell == PageSize
PageContents == [Cells -> Val]
ErasedPage == [c \in Cells |-> FF]

(***************************************************************************)
(* The row address: the driver sends page & 0xFF and (page >> 8) & 0xFF,   *)
(* and the one device of nand_flash_ids has 2^16 pages, so that a page     *)
(* number past the end of the device selects a page at its start.          *)
(***************************************************************************)
Row(page) == page % NumPages

BlockOf(page) == page \div PagesPerBlock

\* Programming only clears bits: an erased cell takes the new contents, a
\* cell programmed with FF or with its own contents keeps them.
ProgramCell(old, new) ==
    IF new = FF \/ new = old THEN old ELSE IF old = FF THEN new ELSE Mixed

\* The page old after its cells in touched are programmed from new.
ProgramCells(old, new, touched) ==
    [c \in Cells |->
        IF c \in touched THEN ProgramCell(old[c], new[c]) ELSE old[c]]

\* The whole device after an erase of the block that holds row.
EraseAt(flash, row) ==
    [p \in Pages |-> IF BlockOf(p) = BlockOf(row) THEN ErasedPage ELSE flash[p]]

(***************************************************************************)
(* The status byte of the device (NAND_CMD_STATUS): ready and not write    *)
(* protected, with bit 0 set when the last program or erase failed.  Zero  *)
(* is the content of the controller's status field before any command.     *)
(***************************************************************************)
StatusNone == 0
StatusReady == 224
StatusFailed == 225
StatusBytes == {StatusNone, StatusReady, StatusFailed}
StatusFail(status) == status = StatusFailed
=============================================================================
