# Verification of the P4A boot loader (qboot)

qboot is the boot loader of Innofidei's P4A ARM chips. It starts from reset,
moves itself to memory, sets up clocks, pins and a UART, and then either boots
a Linux image that is already in memory or, if a `c` was typed, offers a
console whose commands read, write and erase NAND flash, load files over the
serial line and boot Linux. It is one thread of control, without interrupts:
everything is polled. What can go wrong is in what the code keeps from one
step to the next (buffers, offsets, status bytes, rings, packet numbers) and
in what the world does between two steps (a page that fails, a device that
answers late, a line that loses packets, a user who edits).

This directory holds TLA+ models of those parts, TLC configurations for them
and machine-checked proofs. Paths below are relative to the repository.

## 1. Inventory

| Component | State | Operations | What makes it correct |
|---|---|---|---|
| NAND driver, transfers: `src/drivers/nand/nand.c` 135-1152 | the flash; one DMA buffer at `NAND_BUFFER_PHY_ADDRESS`; `chip->wOffset`, `chip->rOffset`; the status field of the controller; the chip select; `ei->done/fail`, `retlen` | `nand_flash_erase`, `nand_flash_write`, `nand_flash_read`, `nand_flash_readoob`, `nand_block_markbad` | units move in order and nothing else changes; spare areas survive data writes; failures are counted; calls return |
| NAND driver, identification: `nand.c` 1154-1618 | `chip` (page and block sizes, shifts, masks, options) | `platform_init_nand`, `nand_get_flash_type`, `nand_scan_ident`, `nand_flash_set_flashinfo`, `nand_flash_hwecc` | the derived fields agree with the sizes; a failed detection is visible |
| NAND commands: `src/cmd/cmd_nand.c` | `flash_info`, `test_buf` | `nand erase/read/write/readid/getinfo/setinfo`, `test_nand_write`, `test_nand_write_oob` | arguments are parsed or refused; a written range is read back |
| Kermit receiver: `src/cmd/cmd_kermit.c` | `kermit_seq`, `kermit_handler`, `kermit_size`, memory | `loadb` | every payload stored once, in order; the command returns |
| Console: `src/console.c`, `src/cmd/command.c` | the line, the cursor, a ring of 16 lines, `hst_pos`, `argv` | keys, Enter, command look-up | the history is the lines entered; a line runs its own first word; no string overruns its buffer |
| Linux command and boot flow: `src/cmd/cmd_bootlinux.c`, `src/main.c` | machine id, ATAG address, kernel address, command line (kept between calls) | `linux`, `boot_linux`, `main` | the ATAG list is well formed; options set what they name, for this line only what it names; nothing is stored behind the buffer |
| UART: `src/drivers/uart/` | `serial_port`; the hardware's queues | `serial_puts`, `uart_getc`, `uart_getc_timeout`, `uart_putc`, `uart_tstc`, `uart_init` | an even timeout expires; nothing sent is lost to a full queue; output ends |
| Timer: `src/drivers/timer/timer.c`, `src/delay.c` | a free-running counter | `udelay` | waits for all the whole ticks of what was asked (102 of 102.4 a microsecond), and ends |
| Clocks: `src/clock.c` | PLL and divider registers | `get_uart_clk`, `get_timer_clk` | the serial match register is the one of the exact clock |
| Pins: `src/iomux.c`, `src/gpio.c` | register bits | `iomux` setup, `gpio_*` | a table leaves the registers as its pins one by one would |
| Memory commands: `src/cmd/cmd_mem.c`, `cmd_go.c`, `cmd_wdt.c` | memory | dump, poke, `memtest`, `go` | `memtest` finds a cell that does not keep its value |
| Library: `src/lib/` | none | strings, `simple_strtoul`, `printf`, division | a number is what its text means; division is C's |
| Startup: `src/head.S`, `src/board/` | registers, the image | relocation, `.bss`, `p4a_board_init` | the image arrives whole and `.bss` is clear when `main` is called |

How they interact: `main` runs the board set-up, waits 200 ms, looks at the
UART once, and calls `platform_init_nand` and `start_console` or
`boot_linux`. The console looks commands up in a table that the linker
collects (`find_cmd`) and calls them; a command runs to its end before the next
key is read. NAND commands call the driver; the driver shares one buffer, one
write offset and one status field between all its operations; `loadb` reads the
UART directly. The default Makefile builds `command.o`, `cmd_bootlinux.o` and
`cmd_nand.o`; the other commands, Kermit among them, are in the tree and are
enabled by naming them there.

Hard behaviours, by kind (each with its line in `PROJECT.json`, "hazards"):
state left behind by one operation and used by the next (the DMA buffer, the
write offset, the status byte, `argv`, the boot parameters, the history position); a command that
fails or is late in the middle of a loop; loops that must end; lost, garbled
and repeated packets with wrapping numbers; limits checked against the wrong
quantity; sums and products that wrap, sizes rounded with masks, loops that
move more than they were asked to.

## 2. The modules

    NandChip        the device: geometry, program, erase, status     (external)
      NandStore     what a transfer promises                         (abstract)
      NandDriver    nand.c, one action per loop iteration;  implements NandStore
        NandDriverProofs     theorems about NandDriver, its refinement and NandSelfTest
        NandSelfTest         cmd_nand.c's test commands, composed with NandDriver
    FileTransfer    what loadb promises                              (abstract)
      Kermit        cmd_kermit.c, a sender and a line;   implements FileTransfer
        KermitProofs         theorems about Kermit and its refinement
    NandIdent       nand.c: identification and setinfo; cmd_nand.c: the arguments
        NandIdentProofs      theorems about NandIdent
    Console         console.c: editor, history, tokenizer, dispatcher
        ConsoleProofs        theorems about Console
    Numbers         vsprintf.c and memparse: text to numbers         (operators)
      BootLinux     main.c, cmd_bootlinux.c: from main to the tag list
        BootProofs           theorems about BootLinux
      NumberText    Numbers on every short text
    Division        lib1funcs.S: quotient and remainder
        ArithmeticProofs     theorems about Division and NumberText
    Startup         head.S: copy of the image, bss
    Clock           clock.c and uart_init: PLLs to match register
    Iomux           iomux.c with the board's pin table
    Uart            uart.c, serial.c: polled output and input
    Delay           cmd_delay.c, delay.c, timer.c
    MemTest         cmd_mem.c: memtest on a memory that may have a fault
    KermitPacket    cmd_kermit.c: kermit_getpacket byte by byte
        RoutineProofs        theorems about Startup to KermitPacket, and all together
    NatLemmas       arithmetic, induction and recursive functions for the proofs

`MC*` modules give the constants their values for TLC. `MCRoutines` puts the modules
from `Division` to `KermitPacket` and `NumberText` side by side: they share no state,
and its variable `routine` says which of them a behaviour is about, so that their
states add up and do not multiply.

### NandChip and NandDriver

A cell stands for a run of bytes that the driver always moves together: the data area of a page
is `PageSize` cells, the spare area `OobSize`, and the first spare cell holds the bad block
marker. What the command queues move is the same whatever the page size (`nand.c:449-476`,
552-580): `DmaData` and `DmaOob` cells, for 2048 + 64 or 512 + 16 bytes. `PageProgram`,
`PageRead`, `OffsetAfter` and `ReadOffset` count with these, so that of a page of 4096 bytes,
which `setinfo` accepts (`nand.c:1206`), a write programs half and a read of the spare area
finds what the buffer holds. Where cells of a page and cells of a queue differ, both stand for
equal runs of bytes. `Fits` is the hypothesis that they agree and that blocks are a power of two
of pages, so that the mask of `FirstPageOfBlock` rounds to a block. A program only clears bits:
an erased cell takes the new contents, a cell programmed twice with different contents becomes
`Mixed`. The row address that the controller is given has two bytes, and the one device of
`nand_flash_ids` has 2^16 pages, so that a page past the end selects one at the start (`Row`).

`NandDriver` keeps the driver's state under its own names: `dma` is the buffer,
`wOffset` is `chip->wOffset`, `status` the status field, `selected` the chip
select; `pc` names the entry point that runs, `req` its arguments, `page`,
`done`, `failed`, `ret` its local variables, `out` the caller's read buffer.

| Action | Code |
|---|---|
| `CallErase`, `CallWrite`, `CallRead`, `CallMark` | the entry points up to their loops; any offset and length (the commands pass what the user types) |
| `EraseBlock(o)` | one iteration of `nand_flash_erase`: `erase_block`, `nfc_erase_block`, `nand_waitfunc` |
| `SkipBlock(chk)` | `nand_block_bad` found a marker: `page += pages_per_block; continue` |
| `WritePage(o, chk)` | the other branch of `nand_flash_write`: check, `memset`, `nand_write_buf`, `nfc_page_program`, `nand_waitfunc` |
| `ReadPage(o1, o2, chk)` | the other branch of `nand_flash_read`: check, `nfc_page_read` of the page, with `withoob` again of its spare area, `nand_read_buf` |
| `MarkPage(o)`, `SecondMark(o)`, `MarkReturn` | one round of `nand_block_markbad` with `write_oob`; the second one of `NAND_BBT_SCANBYTE1AND6`; its return |
| `EraseReturn`, `TransferReturn` | `chip_select(-1)` and the return value |

The arguments `o`, `chk` are what the device does with a command: `"ok"`, `"fail"`
(the status byte says so; the cells may have changed or not) or `"late"`
(`wait_condition` gave up after 4000 polls: the driver prints a message and
goes on with the status byte and the buffer it has).

`NandStore` has no controller, no buffer, no offset and no bad block check. A
call moves units `first`, `first + 1`, ... in order; a failed unit is passed
over. `StoreSpec` says that `NandDriver` implements it when `job` is computed from
`pc` and `req`. Two things that a caller might not expect are part of this
promise, because the code does them: a write that meets a failed page puts the
same data on the next page, so that everything after it is one page further
on; and a transfer past the last page goes on at page 0.

### NandSelfTest

`test_nand_write` and `test_nand_write_oob` (`WithOob`) as a caller of the driver:
`phase` says which call comes next, and every call runs all of `NandDriver`'s
steps. The range of 64 blocks at 52 MiB is two blocks out of five. `Pattern` gives the
cells of the pattern, which may be any contents.

### Kermit and FileTransfer

The receiver is one action per way through the loop of `kermit_recv`:
`NakGarbled` (check character wrong), `NakAhead` (number above `kermit_seq`),
`AckOld` (number below), `Handle` (the expected packet: acknowledge, advance,
call the handler). `HandlerAfter` and `StoredAfter` are the three handlers. The
comparison of numbers is the code's own, not a modular one. The sender and the
line are external: the sender keeps one packet outstanding, sends it again
after a timeout, and takes a NAK of the next number for an acknowledgement, as
the protocol has it; the line loses and garbles but does not reorder. Packets are
whole here; that a damaged one is refused and an intact one received as it was
meant is what `KermitPacket` shows. `SessionAssumption` says that the other side keeps to
the protocol (a session that is opened, files opened, sent and closed one after the
other, a break at the end) and `GarbledAssumption` that a garbled packet is told from a
sent one; both are assumptions about what is on the line.

### Console

One action per key of `GetMessage`, and `Enter` for the way through `CmdUpdateHistory`,
`TranslateMessage` and `DispatchMessage`. Arrow, Home, End and Delete keys are single keys; the
screen is left out. `intact` is true until a key is inserted into a line that already fills
`szMsg` but for its NUL (`console.c:98`; ConsoleLength shows that this happens): the insertion
then writes on the stack of `start_console`, behind the buffer, and the model takes no further
step of the program (`Overrun`). Everything said of the console is said up to there, and
`TypeOK` says that up to there every slot of the ring and the word buffer of `TranslateMessage`,
all of `MAX_CMD_LEN` bytes, have room for what is copied to them. `Abandon` is Ctrl-C or Enter
on an empty line, which keep `hst_pos`. `argv` lives across lines, as it does in the frame of
`start_console`: a line of blanks has `argc` 0, and the look-up uses what an earlier line left
in `argv[0]`. The words of a line (`Words`) are given by where they start and end, the first
`MaxCmdArg` of them being the ones that are looked at.

### NandIdent

`info` is the structure `chip->info` points to and `chip` the fields of `struct
nand_priv` derived from it. `PlatformInitNand` is the whole of `platform_init_nand`: no device
(`InitNotFound`), a device on a wide bus, which fills `info` in and leaves `chip`
clear (`InitBusWidth`), or a device (`InitFound`). `SetInfo` is
`nand_flash_set_flashinfo` with its checks and its comparison with the geometry in force; `Erase`,
`Read` and `Write` are the commands up to the first unit the driver touches,
which `call` records. Sizes are the real ones. Identification computes `pagemask`
and `chip_shift` from a chip size in MiB (`nand.c:1471`): the mask comes out as -1 and
keeps every page, which is why `Addressed` holds for the page in either case, and for the
chip number only after `setinfo`. `Bits` is the width of an unsigned, 32 in the code and
any width from 20 on in the proofs; geometries, offsets and lengths stay below half of its
range, so that no sum of two of them wraps.

### BootLinux and Numbers

`MainBoot` and `MainConsole` are the two ways through `main`; the areas of `head.S` that a
tool patches are inputs. The command reads its words one step at a time: `TakeNumber` for
`-m`, `-a`, `-k`; `TakeCmdline`, `AppendWord` and `EndWords` for `-c`; `Other` for everything
else. `argv` holds more words than `argc` says, those of earlier lines, and `Place` is where
the tests for `-b` and `-h` look after an option in last place has moved `i`. `cmdline` is
the buffer with the bytes behind it, `tags` the memory of the tag list, which holds any of
`OldMemory` at first; addresses are numbers that nothing is done with.

The assumption `BootAssumption` has the sizes that the code relies on: a line of the console
has at most `MaxCmdArg` words shorter than `MaxCmdArgLen` (8 and 32 in `console.c`), so that
those behind `-c` with their blanks are shorter than the buffer of 256 bytes; an area of
`head.S` is patched with its NUL; the default text leaves room for the blank behind it.

`Numbers` is `simple_strtoull` with its base guessing, `memparse` with the suffixes that
fall through, and `arg_off`, in the widths `ULong` and `ULongLong`, of which the first
divides the second (`NumbersAssumption`; 2^32 and 2^64 in the code). A character is its code.

### The routines

| Module | One step is | What is kept |
|---|---|---|
| Startup | one pass of `copy_loop` or `clear_bss` | memory in words; the image anywhere it and its copy do not overlap |
| Division | one pass of a division loop (four bits) | registers of `Width` bits; the build for ARM v7. `Settle` takes the bits of the quotient that a pass settles, `Batch` the four subtractions of a pass |
| Clock | one call of `uart_init` | register fields; rates modulo `ULongRange`; the uninitialised rate of selector 3 is any of `Garbage` |
| Iomux | one pin of the table | registers as fields of four bits, with the cached one; places are multiples of four (`PinShifts`), as all of `iomux.h` are; the property says of each field of each register that the last pin that names it decides it (`Applied`) |
| Uart | one poll of the status register | both queues of the device, level fields of `LevelBits` bits; the device acts between any two polls |
| Delay | one read of the counter | counter modulo `LongMax`, at `RateHz` ticks a second, up to `Lag` ticks between two reads; `PerUs` is the code's truncated quotient, and the property is about the exact rate |
| MemTest | one word written or read | a memory with no fault, a stuck bit or two addresses of one cell |
| KermitPacket | one pass of the data loop | bytes; the sender's encoding and one flipped bit of the line are external |
| NumberText | one character typed | the text |

## 3. The runs

Bounds are constants of the modules. `MaxTotal`, `Bufs`, `LineMax`, `TypedMax` and `LinesMax`
exist for TLC only; `PageSpan` stands for 2^32, where the unsigned page counter wraps.
`MaxFailed` bounds how many units of one call the device fails. For a write it is more than a
bound: `nand_flash_write` counts only the pages that succeed (`nand.c:1123-1145`), so that a
device that fails every program, a write-protected one, keeps it in its loop for ever.
`GoodCallReturns` says so: a call returns, or it is a write that has met `MaxFailed` failures.

| Run | What it asks | Bounds, and why they are enough |
|---|---|---|
| NandOps | `TypeOK`, `PositionOK`, `WriteKeepsOob`, `StoreSpec` on a device that fails nothing | 2 blocks of 2 pages, one data and one spare cell, two contents, any set of marked blocks, calls of up to 2 units from every page: a call crosses a block boundary, starts in the middle of a block and wraps at the end of the device |
| NandFaults | `EraseTruthful`, `StoreSpec`, `GoodCallReturns` with failures | up to two failed units per call, so that failures fall on the first, the last and both units; marker in the last page of a block; `PageSpan` 12, so that a loop that runs away wraps |
| NandStale | `StaleOffsetOnce` with marks and late devices | writes of 2 pages after a mark: the first and a later page; a geometry that does not fit: pages twice as long as what the queues move, a block of three pages; markers in two bytes |
| SelfTest | `ReadBackEqual`, `TestEnds` | the two pages fill one of the two erased blocks; the cells of the pattern all differ; every set of marked blocks |
| KermitSession | `TypeOK`, `InStep`, `AckedIsStored`, `TransferSpec`, `LoadbReturns` | nine packets in two files, numbers modulo 4 (they wrap twice), three packets on the line each way |
| Console | `TypeOK`, `HistoryHolds`, `RunsFirstWord`, `BrowseShows` | a ring of 4 slots and 5 lines: it goes round; up to 5 characters in all, as many short lines with all orders of typing, browsing, abandoning and entering, or as one line: words that do not fit a slot of 2 bytes, three words for two slots, leading and trailing blanks; one key more, from the middle of a line of 5, overruns the buffer of 6 |
| NandIdent | `TypeOK`, `GeometryAgrees`, `Addressed`, `TotalExact` | real sizes: answers with small and large pages, narrow and wide buses, SLC and MLC; eight geometries, one equal to the one in force, three refused, one no power of two; offsets and lengths around pages, pages with spare area, blocks and the end |
| BootLinux | `ParamsAsAsked`, `KernelSees`, `BootsAsked`, `BufferHeld`, `LineEnds` | a buffer of 32 bytes, seven words of up to five characters (five of them behind "linux" and "-c" fit, as 6 words of 32 fit 256 bytes) and patched command lines of every length up to it; memory erased, filled, and holding pieces of another list; every pair of 23 lines, with options missing their word, repeated, in last place, before and after `-h` |
| Routines | the invariants of the routines, `RoutineReturns` | Startup: an image of 11 words (not a whole number of blocks), before, behind and at its address. Division: 8 bits, 23 operands around the boundaries, all pairs, four routines. Clock: products below and above the width. Iomux: every table of up to four of five pins, and the board's. Uart: queues of 3, ports 1 and 2, limits 2, 3 and 4. Delay: a rate that is no whole number of ticks a microsecond, products that would wrap without slices. MemTest: every pattern of 4 bits, every fault of three words. KermitPacket: bytes that are quoted or look quoted, alone and in pairs, any one bit flipped. NumberText: every text of up to four of eight keys |

Three runs end in a violation; each is a disagreement between the code and what
the tree says about it, listed under "findings":

| Run | Shows |
|---|---|
| NandBadReport | the marker that the loops examine is always that of the start block (`nand.c:1051`, 1128): if it is set, every block is reported bad and the call never returns |
| NandMark | `nand_block_markbad` refuses every page but page 0, because `write_oob` divides MiB by bytes (`nand.c:795`) |
| ConsoleLength | the length limit is checked against the cursor (`console.c:140`) |

Other behaviour of the same kind that the models have and no run is spent on: a write with one
failed page returns 0 although its data is a page further on, so that `ReadBackEqual` fails with
`Faults = {"fail"}`; `test_nand_write_oob` stores a bad block marker in its own block and its
read never returns (`TestEnds` fails with `WithOob`); with `Faults = {"late"}` `EraseTruthful`
fails (a block whose erase timed out counts as erased, `nand.c:641`); after a mark of block 0,
the first page of a write can be stored as the marker of its own block (`wOffset`, `nand.c:802`;
`nand_block_markbad` has no caller in the tree); the first Up key saves the line only up to the
cursor (`console.c:159`); `uart_getc_timeout` with an odd limit never expires and with an even
one does after half its time (`uart.c:224`); `uart_putc` looks at the wrong bits on port 2
(`uart.c:240`); a line of `linux` that ends with an option can boot on a `-b` that an earlier
line left in `argv` (`cmd_bootlinux.c:190`); a suffix by itself is taken for the offset 0
(`cmd_nand.c:73`); a delay of a second ends after 0.996 s (`timer.c:72`, against "delay x
useconds", `timer.c:52`); a memory test started with 0x80000000 tests the first word with one
value for ever (`cmd_mem.c:172`).

Deadlock is checked except where the system really stops: the test commands
end, the Kermit session ends, a kernel is started or `dead_loop` is reached, a receive
waits for a character, and the passes of an endless memory test are followed up to a bound.

### Fairness

`NandDriver!FairSpec`: weak fairness of the driver's steps. The processor runs
the loop it is in; nothing else runs. Callers are not fair: they may stop calling.
`NandSelfTest` adds weak fairness of the command's own steps for the same reason.
`BootSpec` and `RoutinesSpec` have weak fairness of the steps of the command or routine that
was called, and of nothing else: no line need be typed, and the serial device need neither
send nor receive. The timer is not fair by assumption either; every read of the
counter finds it at least one tick on.
`Kermit!FairSpec`: the receiver runs (weak); the sender's timer expires (weak); and
strong fairness of handling and answering packets and of taking replies, which
says that a line that carries packets again and again does not lose or garble all of
them. The last is an assumption about the line and the other side, not about the code.

## 4. The proofs

The theorems hold for every value of the constants that the named assumptions of the
modules allow; TLC evaluates each of these assumptions on an instance. A theorem about
states has the same shape everywhere: an inductive invariant, one lemma per action or
group of actions that says that it is kept, and a last step that combines them (PTL).
Where a run checks a property, the invariant behind it was first found on that run.

`NatLemmas` has what several modules need: quotient and remainder are unique, products
keep order, and two rules of induction, stated about a set of numbers.

### The NAND driver (`NandDriverProofs`)

* `TypeCorrect`: `Spec => [](TypeOK /\ CallOK)`. The conjunction is inductive. `CallOK`
  (counters and arguments of the call agree) is no property of its own; it is needed because the
  type of the staged buffer depends on it: `program_page` copies `RealPageSize` cells from `done
  * RealPageSize` on, and they lie in the caller's buffer only if `done < total` and the buffer
  has `total` pages (`ProductStep` has the arithmetic, `StagedType` the consequence).
* `WriteKeepsOobCorrect`: if no caller marks blocks, `Spec => WriteKeepsOob`. The strengthening
  is `wOffset = 0` (`OffsetCorrect`): with it `Staged` leaves `FF` in every spare cell
  (`SpareStaged`), and programming `FF` changes nothing (`WritePageKeepsOob`). The hypothesis is
  needed: NandStale shows the weaker property that remains with marks. Both hold for every
  geometry, also where the queues do not move the whole page.
* `StaleOffsetOnceCorrect` is that weaker property, with marks and under every fault: after
  the first page of a write the offset is 0 (`OffsetReset`), whatever came before.
* `PositionCorrect`: `PositionOK`, for the geometries of `Fits`, on a device that is never late.
  A late bad block check looks at a buffer that an earlier command filled, so that the block of
  a page may be taken for bad and its page left out: the hypothesis is needed. It is inductive
  with `TypeOK /\ CallOK`; the page counter stays in its block when a block is passed over, even
  where it wraps (`AdvanceBlock`), because `PageSpan` is a multiple of the pages of a block.
* `StoreRefined`: `Spec => StoreSpec`, for the geometries of `Fits`, on a device that is never
  late and without marks (`NandStore` has no operation for them). `EraseBlockRefines`,
  `WritePageRefines` and `ReadPageRefines` are the three steps that map to steps, `CallBegins`
  and `ReturnEnds` begin and end a job, and passing over a bad block is a stutter
  (`SkipStutters`). `PositionOK` gives the unit that the step of `NandStore` moves, `wOffset =
  0` what is staged.
* `EraseReportsFailures`: `EraseTruthful`, on a device that is never late. One block more is
  visited with each iteration; it is erased, or the number of failures grows by one. The
  proof counts sets (`MissedBlocks`), and a block that is visited twice because the call
  goes round the device is one of its cases.

### The test command (`NandDriverProofs`, its last part)

`ReadBackCorrect`: `TestSpec => []ReadBackEqual` if no command of the device fails, the
range lies on the device, no longer pattern is written than is erased (`OnDevice`; the
addresses in the code satisfy it) and the geometry is one of `Fits`, for any pattern and set of
marked blocks. For pages of 4096 bytes it is not true: the queues move half of each. The
invariant `SelfInv` says, for each call, what is done so far: the blocks that are
`Cleared`, the pages that are `Stored` with what is still erased behind them, and what is
read (`Got`). The marker of the start block, which the erase has cleared and no page of the
pattern sets, keeps the loops from passing over blocks (`NothingBad`). The steps on the
device are taken from the lemmas of the refinement.

### The Kermit receiver (`KermitProofs`)

`TypeCorrect`, `InStepCorrect`, `AckedIsStoredCorrect` and `TransferRefined` (`Spec =>
TransferSpec`), for every session, capacity of the line and modulus from 3 to 64. `Inv` says
that there is an index e in the session such that the receiver is before packet e: its number,
its handler and memory (`FileOK`) follow from e; e is the sender's packet or the one after it;
everything on the line to the receiver was sent around e and nothing but packet e comes after
packet e (`LineOK`); the replies tell of the sender's packet or, if the receiver is ahead, of
the next, the latter behind the former (`RepliesOK`). None of these holds without the others:
the comparison of wrapping numbers (`seq` ahead, behind or equal) is right only if the line
holds no packet but those two, which depends on what the sender took for acknowledged.
`TransferSpec` follows with `file = stored`: handling packet e appends its payload or nothing.

### The console (`ConsoleProofs`)

`TypeCorrect`, `HistoryCorrect`, `DispatchCorrect` and `BrowseCorrect`, for every depth of
the ring, limits and alphabet, and until a key is written past the line buffer: past that point
the stack is overwritten and nothing is claimed (`intact`, which never comes back: `StillIntact`).
`TypeCorrect` has the reason why nothing else is overrun: a line that is shorter than the buffer is
what every slot is given. `HistoryHolds` is inductive with `TypeOK` once the ring is
read through its index modulo the depth. `DispatchCorrect` rests on lemmas about the words
of a line: the n-th word exists and is unique (`WordStart` counts what is below a position),
so that the first of them is what `argv[0]` gets, or the error of a word that is too
long. `BrowseCorrect` is an action property.

### Identification (`NandIdentProofs`)

`TypeCorrect`, `GeometryCorrect`, `AddressCorrect` and `TotalCorrect`, for every identifier
a device can answer with, every geometry typed, every offset and length below half of the
range of an unsigned, and unsigned numbers of 20 to 32 bits. `IdentInv` says what the
derived fields are after each of the ways through `platform_init_nand` and
`nand_flash_set_flashinfo`, and what a command has recorded. The work is in the bits: `x & ~y` is
a fold over bits in the model, and `AndNotSum`, `AndNotBounds` and `AndNotPower` say what it is in
arithmetic - for a power of two the multiple below (`AlignPower`), for any size a number
between the bounds that `TotalExact` needs (`AlignUpBounds`). `FfsExists` and `FfsPower` are
the same for `generic_ffs`.

### The boot command (`BootProofs`)

`ParamsAsAskedCorrect`, `KernelSeesCorrect`, `BootsAskedCorrect` and `BufferHeldCorrect`, for
every image, every set of lines, every text and every size of the buffer that
`BootAssumption` allows.

* Memory: `PutRight` says what a copy into memory changes and what it keeps, `StringIs` that a
  string ends at the first NUL, `Appended` and `Ended` what a word, its blank and the last NUL
  leave in the buffer. The text of several words is a recursive function in the model;
  `JoinedSteps` shows that it exists and `JoinedMore` how it grows, both by induction over the
  number of words, so that nothing is assumed of its length or contents.
* `Base` has the types and the shape of the line that is read. For a line of the console the
  text never has more than `(i - 2) * MaxCmdArgLen` characters; the line of `boot_linux` is read at
  a few places only, and one text is ever copied. `RoomForWord` follows: a word and its blank
  fit, so that the loop for `-c` never ends with a full buffer.
* `BufferHeldCorrect` adds `Clean`: nothing behind the buffer is written but one NUL, and that
  only if the patched text fills its area. `BootsAskedCorrect` adds `BootFlag`: `boot` is set
  only if `-b` is among the words or an option stands in last place.
* `ParamsAsAskedCorrect` adds `SoFar`: for each option, either it is not among the places
  read so far and its parameter is the old one, or there is a last such place and the
  parameter is its word. For the text the same, and while it is being read the buffer holds
  the words since `-c` (`TextAppended`). At the end of the line the last place so far is the
  last of the line (`AskedIs`).
* `KernelSeesCorrect`: `TagsAre` follows the three writes of the list, each over the end of the
  one before; `ListIsRead` says that the kernel reads it back. For a boot without console the
  places of the options are those `boot_linux` has put them at (`MainOptionPlaces`).

### The routines (`RoutineProofs`, `ArithmeticProofs`)

Each with variables has a type theorem, and each one for its property. `RoutinesCorrect` and
`RoutinesTypeCorrect` say the same of `RoutinesSpec`, the specification that TLC runs: a step of it
is a step of the routine that was called and leaves the variables of the others alone
(`RoutinesSteps`), so that its behaviours are behaviours of each routine.

* `DelayCorrect`: `EarlyByTruncationOnly`. A second of `udelay` ends after 0.996 s: the code
  waits for 102 ticks a microsecond where the counter makes 102.4, `rate_hz / 1000 / 1000` being
  a whole number. The property is measured at the exact rate and names this loss (`Uncounted`);
  `NestedDivision` gives `PerUs` times 10^6 as the rate less what it leaves out (`WholeTicks`),
  and nothing else is lost. `Enough` is the balance: ticks gone, ticks of the chunk that is
  being waited for and ticks still to come make up what was asked. A read of the counter loses
  none of them although the counter wraps, because a chunk and the lag of a read are below its
  range (`SinceNext`).
* `StartupCorrect`: `StartsClean`. `CopyHolds` says that the words up to r2 are in place and the
  words from r1 on still as they were loaded, in blocks of eight (`BlockMoved`); the assumption that
  image and copy do not overlap is what keeps the second half true. `ClearHolds` does the same for
  `.bss`.
* `PinsCorrect`: `PinsAsGiven`. The invariant is about the registers as they will be once the
  cached one is written back (`Effective`): those are at every pass what the pins so far
  leave.
* `UartCorrect`: `UartOK`. `QueuesHold` bounds both queues by their depth, which is what makes
  the level field tell a full queue from an empty one (`Status`); `LimitHolds` has the
  limit and what was waited in the same sum.
* `MatchCorrect`: `MatchRight`. The code divides three times and each rounds down;
  `FloorNested` shows that the quotient of a floor is the floor of the product of the divisors, so
  that the match register is the one of the exact clock.
* `MemFaultCorrect`: `MemFaultFound`. `WritePass` and `ReadPass` say what is in memory during a
  pass, for a memory that keeps its words and for each kind of fault. A stuck bit can agree
  with the values of one pass and not with those of the next but one, because a pattern
  and its complement differ in every bit (`Complements`, `ThreePasses`).
* `DivisionCorrect`: `DivisionExact`, for registers of any width. In each pass of a loop
  m = n * result + rest with the rest below twice the divisor, and the divisor n shifted by
  the places that are left (`PassDiv`); for the remainder the quotient is only known to
  exist (`PassMod`). The signs are those of `Sign`; `clz` is the least number with a property,
  so that it needs no recursion.
* `PacketCorrect`: `PacketTruthful`, for every payload that fits a packet of 94 bytes and
  whichever bit of the number, the type or the data flips (`PacketAssumption`). The invariant
  (`PacketInv`) relates three texts to what the receiver has: the bytes taken are a beginning of
  the line (`RestOf`), `sum` is the sum of the data bytes among them, and if nothing was damaged
  the bytes decoded so far are a beginning of the payload and those taken its encoding
  (`Decoded`). An encoded byte is one byte or two, so that a quote is never the last byte of the
  data of an intact packet; in a damaged one it can be, and then the loop takes the check
  character for data and the count of bytes to come ends at -1. The packet is refused in that
  case too, because what comes next is the end of the line and no check character. Otherwise it
  is refused for its check character: a flipped bit moves the sum by a power of two
  (`FlipMoves`, `SumMoved`), and folding the two high bits onto the low ones does not undo that
  (`CheckDiffers`).
* `NumberCorrect`: `OffsetMeansText`, for every text. The loop of `simple_strtoull` takes the
  longest beginning of digits (`LongestDigits`) and its result, which is cut at every digit, is
  the exact result cut once (`CutOnce`); the exact result is Horner's form of the sum of digits
  times powers (`Horner`). `FormGuess` shows that the base guessed is the one of the form,
  `FormTaken` that a number is taken, `OffsetFormed` that what is taken is a number,
  `LoneSuffix` that a suffix alone is taken too. That a value is cut to an unsigned long
  afterwards is the same as cutting it once, because the one width divides the other.

The encoding, the sums and the values of digits are recursive functions over the places of a text.
`Recursion` in `NatLemmas` shows, by `Induction` over the set of numbers up to which there is a
solution, that such a function exists; `EncodedSteps`, `SumSteps`, `ValueSteps` and
`PositionalSteps` apply it, and give one step each, for texts of any length.

### What is only model-checked

* Liveness: `GoodCallReturns`, `TestEnds`, `LoadbReturns`, `LineEnds`, `RoutineReturns`. It rests on
  fairness and ENABLED, which the prover does not have. What every safety property of a passing
  run says is proved.
* The three runs that end in a violation: they are counterexamples.

### Inputs that properties exclude

The properties of the routines and of `BootLinux` exclude by name the inputs for which the code
does something else; each exclusion is a hazard or a line of the list above. They are: an option
in last place (`BootsAsked`, `ParamsAsAsked`), the one NUL behind a patched command line that
fills its area (`BufferHeld`), what is sent on port 2 and odd limits (`UartOK`,
`RoutineReturns`), PLL settings whose product overflows and selectors that name no source
(`MatchRight`), the pattern 0x80000000 (`MemFaultFound`), sizes that are no powers of two for a
block erase and lengths that are no whole pages (`TotalExact`), lines of blanks
(`RunsFirstWord`), everything after a key that was written past the line buffer (`HistoryHolds`,
`BrowseShows`, `RunsFirstWord`), and writes that the device goes on failing (`GoodCallReturns`).
On port 2 `MatchRight` is about the clock rounded to whole Hz, which is what the code multiplies
by 16.

## 5. What is left to prove

1. `ReadBackEqual` for `test_nand_write_oob` does not hold: its pattern sets the marker of its own
   block (section 3). A theorem about a pattern that does not would be one about another command.
2. Liveness, which stays with TLC. The measures are in the invariants: blocks and bytes to come in
   a transfer, keys left of a line, ticks still to wait (`Enough`), bytes left of a packet.

## 6. Not modelled

* Formatted output (`stdio.c`), the string functions other than `strncpy`, and
  `eabi.c`: layout and the C library's own functions.
* `gpio.c`, `uart_deinit`, `atag_mem_setup` and `nand_flash_readoob`: no caller in the tree.
* `cmd_wdt.c`, which names functions that the tree does not have, and `cmd_go.c` and the dump and
  poke commands, which are single accesses.
* The FPGA board and its constant clocks: another build. The pads of `iomux.h` that no board
  table names, and the register names of `p4a-regs.h`: data.
* Set-up without a state of its own: processor modes and caches in `head.S`, the serial control
  register.
* `unwind.h` is the compiler's, not the program's.
* In `KermitPacket`, damage to LEN and bytes lost in the middle of a packet; in `Numbers`, the
  width `ULongLong` of a run is smaller than that of `G` suffixes, which it cuts.
