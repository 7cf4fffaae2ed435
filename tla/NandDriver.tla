----------------------------- MODULE NandDriver -----------------------------
(***************************************************************************)
(* The NAND driver, src/src/drivers/nand/nand.c: erase, write and read of  *)
(* page ranges and the bad block mark, one action per iteration of their   *)
(* loops.  The driver is polled and single threaded; what is outside its   *)
(* control is the device, which may fail a program or an erase ("fail") or *)
(* answer after the 4000 polls of wait_condition ("late").                 *)
(*                                                                         *)
(* All transfers go through one DMA buffer at NAND_BUFFER_PHY_ADDRESS.     *)
(* chip->wOffset, the place where nand_write_buf puts the next bytes, is   *)
(* left behind by one operation and used by the next.  A command queue     *)
(* moves 2048 + 64 bytes, or 512 + 16 for pages of 512, whatever the page  *)
(* size is: DmaData and DmaOob cells.                                      *)
(***************************************************************************)
EXTENDS NandChip

CONSTANTS
    Ops,           \* the entry points callers use
    Faults,        \* subset of {"fail", "late"}: what the device may do
    MaxTotal,      \* bound: units (pages or blocks) of one call
    MaxFailed,     \* bound: failed units of one call
    PageSpan,      \* page numbers before the unsigned page counter wraps
    Bufs,          \* bound: the buffers callers write from
    BadMark,       \* contents of the marker cell of a block marked bad
    ScanLastPage,  \* NAND_BBT_SCANLASTPAGE: the marker is in the last page
    Scan2ndPage,   \* NAND_BBT_SCAN2NDPAGE: the marker is in two pages
    ScanByte1And6, \* NAND_BBT_SCANBYTE1AND6: a second marker in each page
    Byte6,         \* the spare cell of the second marker
    OobPageLimit,  \* chipsize / pagesize as write_oob computes it
    DmaData,       \* cells of the 2048 (512) bytes of a command queue
    DmaOob,        \* cells of the 64 (16) bytes it moves behind them
    MaxOob         \* cells of NAND_MAX_OOBSIZE

ASSUME DriverAssumption ==
    /\ Ops \subseteq {"erase", "write", "read", "mark"}
    /\ Faults \subseteq {"fail", "late"}
    /\ MaxTotal \in Nat \ {0}
    /\ MaxFailed \in Nat
    /\ PageSpan \in Nat
    /\ NumPages + PagesPerBlock + 2 * MaxTotal + MaxFailed <= PageSpan
    /\ Bufs \subseteq Seq(Val)
    /\ BadMark \in Val \ {FF}
    /\ ScanLastPage \in BOOLEAN
    /\ Scan2ndPage \in BOOLEAN
    /\ ScanByte1And6 \in BOOLEAN
    /\ Byte6 \in 0 .. OobSize - 1
    /\ OobPageLimit \in Nat
    /\ DmaData \in Nat \ {0}
    /\ DmaOob \in Nat \ {0}
    /\ MaxOob \in Nat \ {0}

VARIABLES
    flash,     \* the device: page contents by row
    dma,       \* the DMA buffer
    wOffset,   \* chip->wOffset
    selected,  \* NFC_CE: whether a chip is selected
    status,    \* the status byte in NFC_STATUS
    pc,        \* the entry point that runs, "second_mark" or "idle"
    req,       \* its arguments
    page,      \* the loop variable: a page (a block for an erase)
    done,      \* ei->done, or pages transferred (retlen / real_pagesize)
    failed,    \* ei->fail, or program_page calls that returned -1
    out,       \* what a read has stored at ri->buf so far
    ret,       \* the return value: 0, -1 or a status byte
    reported   \* blocks reported by "block %d is bad" during the call

vars == <<flash, dma, wOffset, selected, status, pc, req, page, done, failed,
          out, ret, reported>>

-----------------------------------------------------------------------------
\* The geometries whose pages fit the command queues and whose blocks fit the
\* masks: 2048 + 64 (or 512 + 16) bytes and a power of two of pages, into
\* which the page counter wraps evenly.  nand_flash_set_flashinfo takes
\* others, pages of 4096 among them (nand.c:1206).
Fits ==
    /\ PageSize = DmaData
    /\ OobSize <= DmaOob
    /\ \E n \in 0 .. PagesPerBlock : PagesPerBlock = 2^n
    /\ PageSpan % PagesPerBlock = 0

\* The DMA buffer reaches past a page: see wOffset in WriteOob.
DmaArea == 0 .. PageSize + OobSize + DmaData + DmaOob - 1

RealPageSize(withoob) == IF withoob THEN PageSize + OobSize ELSE PageSize

NoRequest == [from |-> 0, total |-> 0, withoob |-> FALSE, buf |-> <<>>]

\* is_first_page_of_block: page & ~(pages_per_block - 1) is page.
Bit(x, k) == (x \div 2^k) % 2
FirstPageOfBlock(p) ==
    \A k \in 0 .. PagesPerBlock - 1 : Bit(PagesPerBlock - 1, k) = 1 => Bit(p, k) = 0

\* A mutation: a block is stepped over by one page.
AdvanceOnePage(p, n) == IF p + 1 < PageSpan THEN p + 1 ELSE 0

\* page += n in an unsigned.
Advance(p, n) == IF p + n < PageSpan THEN p + n ELSE p + n - PageSpan

\* nand_block_bad looks at ofs, or at its last page of the block from there.
MarkerPage(from) == IF ScanLastPage THEN from + PagesPerBlock - 1 ELSE from

\* The block is marked: what nand_block_bad finds when the device answers.
Marked(from) == flash[Row(MarkerPage(from))][MarkerCell] # FF

\* What the device does with one command queue.
ProgramOutcomes ==
    {"ok"} \cup (IF failed < MaxFailed THEN Faults ELSE {})
ReadOutcomes == {"ok"} \cup (Faults \ {"fail"})

\* A mutation: the status byte is not looked at.
StatusIgnored(o) == StatusReady

\* nand_waitfunc: a late command leaves the status of an earlier one.
StatusAfter(o) ==
    CASE o = "ok"   -> StatusReady
      [] o = "fail" -> StatusFailed
      [] o = "late" -> status

\* Mutations of the buffer handling: no memset; the caller's buffer is always
\* read from its start.
StagedOverOld(buf, first, n) ==
    [i \in DmaArea |-> IF i \in wOffset .. wOffset + n - 1
                       THEN buf[first + i - wOffset] ELSE dma[i]]
StagedFromStart(buf, first, n) ==
    [i \in DmaArea |-> IF i \in wOffset .. wOffset + n - 1
                       THEN buf[1 + i - wOffset] ELSE FF]

\* nand_write_buf after memset(0xFF) of all of the buffer.
Staged(buf, first, n) ==
    [i \in DmaArea |-> IF i \in wOffset .. wOffset + n - 1
                       THEN buf[first + i - wOffset] ELSE FF]

\* A queue that starts at a column behind DmaData moves DmaOob cells, any other
\* DmaData + DmaOob of them.
QueueCells(column) == IF column >= DmaData THEN DmaOob ELSE DmaData + DmaOob

\* chip->wOffset after nfc_page_program at a column, from where the queue takes
\* the cells too.  The mutation leaves it where it was moved to.
OffsetNotReset(column) == wOffset + PageSize
OffsetAfter(column) == IF column >= DmaData THEN DmaData ELSE 0

\* The cells of a page that the queue programs, and what from: what it moves
\* past the end of the page is lost.
Touched(column) == Cells \cap (column .. column + QueueCells(column) - 1)
Moved(column, buffer) ==
    [c \in Cells |-> IF c \in Touched(column)
                     THEN buffer[OffsetAfter(column) + c - column] ELSE FF]

\* nfc_page_program from the buffer; a command that was not reported done may
\* have programmed the page or not.
PageProgram(o, p, column, buffer) ==
    \/ flash' = [flash EXCEPT ![Row(p)] =
                   ProgramCells(@, Moved(column, buffer), Touched(column))]
    \/ o # "ok" /\ UNCHANGED flash

\* nfc_page_read at a column, to the start of the buffer.  Past the end of the
\* page the device is taken to give ones.
PageRead(o, p, column, buffer) ==
    IF o = "ok"
    THEN [i \in DmaArea |->
            IF i >= QueueCells(column) THEN buffer[i]
            ELSE IF column + i \in Cells THEN flash[Row(p)][column + i] ELSE FF]
    ELSE buffer

\* chip->rOffset, from where nand_read_buf copies the result.
ReadOffset(column) == IF column >= DmaData THEN column - DmaData ELSE column

\* The bad block check at the head of the read and write loops: it is made
\* at the first page of every block, and always examines req.from.
Checked(o) ==
    IF FirstPageOfBlock(page) THEN PageRead(o, MarkerPage(req.from), PageSize, dma)
                              ELSE dma
\* A mutation: the marker is looked for where a page read would leave it.
FoundBadNoAdjust(o) == FirstPageOfBlock(page) /\ Checked(o)[PageSize] # FF
\* A mutation: the comparison with 0xFF the other way round.
FoundBadInverted(o) == FirstPageOfBlock(page) /\ Checked(o)[ReadOffset(PageSize)] = FF
FoundBad(o) == FirstPageOfBlock(page) /\ Checked(o)[ReadOffset(PageSize)] # FF
-----------------------------------------------------------------------------
Init ==
    /\ \E bad \in SUBSET Blocks :
         flash = [p \in Pages |->
                    [c \in Cells |->
                       IF /\ c = MarkerCell
                          /\ \E b \in bad : p = MarkerPage(b * PagesPerBlock)
                       THEN BadMark ELSE FF]]
    /\ dma = [i \in DmaArea |-> FF]
    /\ wOffset = 0
    /\ selected = FALSE
    /\ status = StatusNone
    /\ pc = "idle"
    /\ req = NoRequest
    /\ page = 0
    /\ done = 0
    /\ failed = 0
    /\ out = <<>>
    /\ ret = 0
    /\ reported = {}

\* The part common to the entry points: chip_select(chipnr) and the loop
\* variables.
Call(op, from, total, withoob, buf, firstunit) ==
    /\ pc = "idle"
    /\ op \in Ops
    /\ pc' = op
    /\ req' = [from |-> from, total |-> total, withoob |-> withoob, buf |-> buf]
    /\ page' = firstunit
    /\ done' = 0
    /\ failed' = 0
    /\ out' = <<>>
    /\ ret' = 0
    /\ reported' = {}
    /\ selected' = TRUE
    /\ UNCHANGED <<flash, dma, wOffset, status>>

\* nand_flash_erase: the first block is from / blocksize.
CallErase(from, total) ==
    Call("erase", from, total, FALSE, <<>>, BlockOf(from))

CallWrite(from, total, withoob, buf) ==
    /\ Len(buf) = total * RealPageSize(withoob)
    /\ Call("write", from, total, withoob, buf, from)

CallRead(from, total, withoob) ==
    Call("read", from, total, withoob, <<>>, from)

\* nand_block_markbad: nand_reset changes nothing the driver looks at.
CallMark(from) == Call("mark", from, 1, FALSE, <<>>, MarkerPage(from))

\* chip_select(-1) and return.
Return ==
    /\ pc' = "idle"
    /\ selected' = FALSE

\* One block of nand_flash_erase; the marker is not consulted, and erase_block
\* sends no command for a page that the mask does not take for the first of
\* its block.  The return value is the status of the last block.
EraseBlock(o) ==
    LET sent == FirstPageOfBlock(page * PagesPerBlock) IN
    /\ pc = "erase"
    /\ done + failed < req.total
    /\ \/ sent /\ flash' = EraseAt(flash, Row(page * PagesPerBlock))
       \/ (~sent \/ o # "ok") /\ UNCHANGED flash
    /\ status' = IF sent THEN StatusAfter(o) ELSE status
    /\ IF ~sent \/ StatusFail(status')
       THEN ret' = -1 /\ failed' = failed + 1 /\ UNCHANGED done
       ELSE ret' = 0 /\ done' = done + 1 /\ UNCHANGED failed
    /\ page' = Advance(page, 1)
    /\ UNCHANGED <<dma, wOffset, selected, pc, req, out, reported>>

EraseReturn ==
    /\ pc = "erase"
    /\ done + failed = req.total
    /\ Return
    /\ UNCHANGED <<flash, dma, wOffset, status, req, page, done, failed, out,
                   ret, reported>>

\* The branch of the read and write loops that steps over a block.
SkipBlock(o) ==
    /\ pc \in {"read", "write"}
    /\ done < req.total
    /\ FoundBad(o)
    /\ dma' = Checked(o)
    /\ reported' = reported \cup {BlockOf(page)}
    /\ page' = Advance(page, PagesPerBlock)
    /\ UNCHANGED <<flash, wOffset, selected, status, pc, req, done, failed, out,
                   ret>>

\* program_page: fill the buffer, start the queue (which resets wOffset),
\* look at the status.  The page number moves on after a failure too.
WritePage(o, chk) ==
    /\ pc = "write"
    /\ done < req.total
    /\ ~FoundBad(chk)
    /\ dma' = Staged(req.buf, done * RealPageSize(req.withoob) + 1,
                     RealPageSize(req.withoob))
    /\ PageProgram(o, page, 0, dma')
    /\ wOffset' = OffsetAfter(0)
    /\ status' = StatusAfter(o)
    /\ IF StatusFail(status')
       THEN ret' = -1 /\ failed' = failed + 1 /\ UNCHANGED done
       ELSE ret' = 0 /\ done' = done + 1 /\ UNCHANGED failed
    /\ page' = Advance(page, 1)
    /\ UNCHANGED <<selected, pc, req, out, reported>>

\* read_page: the data area, and for withoob a second command for the spare
\* area; the results of both commands are ignored.
ReadPage(o1, o2, chk) ==
    LET whole == PageRead(o1, page, 0, Checked(chk))
        spare == IF req.withoob THEN PageRead(o2, page, PageSize, whole) ELSE whole
    IN
    /\ pc = "read"
    /\ done < req.total
    /\ ~FoundBad(chk)
    /\ dma' = spare
    /\ out' = out \o [i \in 1 .. RealPageSize(req.withoob) |->
                        IF i <= PageSize
                        THEN whole[ReadOffset(0) + i - 1]
                        ELSE spare[ReadOffset(PageSize) + i - PageSize - 1]]
    /\ done' = done + 1
    /\ page' = Advance(page, 1)
    /\ UNCHANGED <<flash, wOffset, selected, status, pc, req, failed, ret,
                   reported>>

TransferReturn ==
    /\ pc \in {"read", "write"}
    /\ done = req.total
    /\ Return
    /\ UNCHANGED <<flash, dma, wOffset, status, req, page, done, failed, out,
                   ret, reported>>

\* write_oob of the two marker bytes.  Only the start of the buffer is cleared,
\* and the bytes go to wOffset + pagesize + ooboffs.
WriteOob(o, ooboffs) ==
    LET marker == wOffset + PageSize + ooboffs IN
    IF page > OobPageLimit
    THEN ret' = -1 /\ UNCHANGED <<flash, dma, wOffset, status>>
    ELSE /\ dma' = [i \in DmaArea |-> IF i = marker THEN BadMark
                                     ELSE IF i < MaxOob THEN FF ELSE dma[i]]
         /\ PageProgram(o, page, PageSize, dma')
         /\ wOffset' = OffsetAfter(PageSize)
         /\ status' = StatusAfter(o)
         /\ ret' = IF StatusFail(status') THEN -1 ELSE status'

\* The loop of nand_block_markbad.  The status byte is the result of write_oob,
\* so that a success (not 0) ends the loop too and leaves out the second marker.
MarkPage(o) ==
    /\ pc = "mark"
    /\ done < (IF Scan2ndPage THEN 2 ELSE 1)
    /\ ret = 0
    /\ WriteOob(o, 0)
    /\ IF ret' = 0 /\ ScanByte1And6
       THEN pc' = "second_mark" /\ UNCHANGED <<done, page>>
       ELSE UNCHANGED pc /\ done' = done + 1 /\ page' = Advance(page, 1)
    /\ UNCHANGED <<selected, req, failed, out, reported>>

SecondMark(o) ==
    /\ pc = "second_mark"
    /\ WriteOob(o, Byte6)
    /\ pc' = "mark"
    /\ done' = done + 1
    /\ page' = Advance(page, 1)
    /\ UNCHANGED <<selected, req, failed, out, reported>>

MarkReturn ==
    /\ pc = "mark"
    /\ ret # 0 \/ done = IF Scan2ndPage THEN 2 ELSE 1
    /\ Return
    /\ UNCHANGED <<flash, dma, wOffset, status, req, page, done, failed, out,
                   ret, reported>>

\* The steps of the entry point that runs.
Step ==
    \/ \E o \in ProgramOutcomes : EraseBlock(o) \/ MarkPage(o) \/ SecondMark(o)
    \/ \E o \in ProgramOutcomes, chk \in ReadOutcomes : WritePage(o, chk)
    \/ \E o1, o2, chk \in ReadOutcomes : ReadPage(o1, o2, chk)
    \/ \E chk \in ReadOutcomes : SkipBlock(chk)
    \/ EraseReturn \/ TransferReturn \/ MarkReturn

\* The callers: cmd_nand.c passes any offset and any length.
Client ==
    \E from \in Pages, total \in 0 .. MaxTotal :
        \/ CallErase(from, total)
        \/ \E withoob \in BOOLEAN :
              \/ CallRead(from, total, withoob)
              \/ \E buf \in Bufs : CallWrite(from, total, withoob, buf)
        \/ total = 1 /\ CallMark(from)

Next == Client \/ Step

Spec == Init /\ [][Next]_vars

\* The processor runs the loop it is in; callers may stop calling.
FairSpec == Spec /\ WF_vars(Step)
-----------------------------------------------------------------------------
TypeOK ==
    /\ flash \in [Pages -> PageContents]
    /\ dma \in [DmaArea -> Val]
    /\ wOffset \in {0, DmaData}
    /\ selected \in BOOLEAN
    /\ status \in StatusBytes
    /\ pc \in {"idle", "second_mark"} \cup Ops
    /\ req \in [from : Pages, total : 0 .. MaxTotal, withoob : BOOLEAN,
               buf : Seq(Val)]
    /\ page \in 0 .. PageSpan - 1
    /\ done \in 0 .. MaxTotal + 1
    /\ failed \in 0 .. MaxFailed + MaxTotal
    /\ out \in Seq(Val)
    /\ ret \in {-1} \cup StatusBytes
    /\ reported \subseteq Nat

\* Where the loops are.  A transfer is at from + done + failed until it meets
\* a block whose start block is marked; then it steps from block to block.
PositionOK ==
    /\ pc = "erase" => page = BlockOf(req.from) + done + failed
    /\ pc \in {"read", "write"} =>
         IF reported = {} THEN page = req.from + done + failed
                          ELSE FirstPageOfBlock(page) /\ Marked(req.from)

\* A write without withoob changes no spare area, whatever the buffer held
\* before and wherever an earlier operation left chip->wOffset: the buffer is
\* cleared and wOffset reset so that the marker of no block is touched.
WriteKeepsOob ==
    [][pc = "write" /\ ~req.withoob =>
         \A p \in Pages, c \in SpareCells : flash'[p][c] = flash[p][c]]_vars

\* A mark leaves chip->wOffset in the spare area, and the next write fills the
\* buffer from there: only its first page can store data as a marker.
StaleOffsetOnce ==
    [][pc = "write" /\ ~req.withoob /\ done + failed > 0 =>
         \A p \in Pages, c \in SpareCells : flash'[p][c] = flash[p][c]]_vars

\* The blocks among first, first + 1, ... , n of them, that are not erased.
Missed(contents, first, n) ==
    {b \in Blocks :
        /\ \E k \in 0 .. n - 1 : b = (first + k) % NumBlocks
        /\ \E p \in Pages : BlockOf(p) = b /\ contents[p] # ErasedPage}

\* Every block that an erase went over and that is not erased is in ei->fail
\* (cmd_nand_erase prints "erase %d blocks, %d failed").
EraseTruthful ==
    pc = "erase" => Cardinality(Missed(flash, BlockOf(req.from), done + failed)) <= failed

\* A call whose start block is not marked, and that stores no markers itself,
\* returns, or it is a write for which the device has failed MaxFailed programs:
\* nothing in nand_flash_write bounds them (nand.c:1135), so that a device that
\* fails them all keeps it for ever.
GoodCallReturns ==
    (pc # "idle" /\ ~Marked(req.from) /\ ~req.withoob)
      ~> (pc = "idle" \/ (pc = "write" /\ failed = MaxFailed))

\* A block reported by "block %d is bad" (nand.c:1052 and 1129) is marked bad.
ReportedBadIsBad ==
    \A b \in reported : Marked((b * PagesPerBlock) % NumPages)

\* nand_block_markbad, "mark a block bad" (nand.c:907): when it returns, the
\* marker of the block it was called for is there.
MarkMarks == [][MarkReturn => Marked(req.from)]_vars

(***************************************************************************)
(* The driver implements the transfer specification: the DMA buffer, the   *)
(* write offset, the chip select, the status byte and the bad block check  *)
(* are hidden; a call that steps over a block moves nothing from then on.  *)
(***************************************************************************)
StoreJob ==
    IF pc \in {"erase", "write", "read"}
    THEN [kind |-> pc,
          first |-> IF pc = "erase" THEN BlockOf(req.from) ELSE req.from,
          total |-> req.total, withoob |-> req.withoob, buf |-> req.buf]
    ELSE [kind |-> "idle"]

Store == INSTANCE NandStore WITH job <- StoreJob

\* Calls move the units first, first + 1, ... in order and touch no others.
StoreSpec == Store!Spec
=============================================================================
