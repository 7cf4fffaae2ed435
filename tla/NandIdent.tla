------------------------------ MODULE NandIdent ------------------------------
(***************************************************************************)
(* Where the NAND driver gets its geometry from, and what the commands     *)
(* make of it: platform_init_nand with the identification it runs          *)
(* (src/src/drivers/nand/nand.c:1288-1618), the command setinfo with       *)
(* nand_flash_set_flashinfo, and the arguments of the commands erase, read *)
(* and write (src/src/cmd/cmd_nand.c) up to the first unit the driver      *)
(* would touch.                                                            *)
(*                                                                         *)
(* info is the struct nandflash_info that chip->info points to; it exists  *)
(* from the start of platform_init_nand on, whether or not a device is     *)
(* found.  chip holds the fields of struct nand_priv derived from it.      *)
(* Sizes are the real ones, in bytes; chipsize is in MiB.  Those below     *)
(* 2^(Bits - 1) do not wrap around when one is added to another.           *)
(***************************************************************************)
EXTENDS Integers

CONSTANTS
    Ids,       \* what READID may answer: records of the bytes 0, 1, 2, 3 and 5
    Infos,     \* bound: the geometries given to setinfo
    Offsets,   \* bound: the offsets given to the commands
    Lengths,   \* bound: the lengths given to the commands
    Bits       \* the bits of an unsigned that are in use

Words5 == [pagesize : Nat, blocksize : Nat, chipsize : Nat,
           buswidth16 : Nat, chips : Nat]

ASSUME IdentAssumption ==
    /\ Ids \subseteq [maf : 0 .. 255, dev : 0 .. 255, cell : 0 .. 255,
                      ext : 0 .. 255, id5 : 0 .. 255]
    /\ Infos \subseteq Words5
    /\ Bits \in 20 .. 32
    /\ \A i \in Infos :
          {i.pagesize, i.blocksize, i.chipsize * 1024} \subseteq 0 .. 2^(Bits - 1)
    /\ Offsets \subseteq 0 .. 2^(Bits - 1) - 1
    /\ Lengths \subseteq 0 .. 2^(Bits - 1) - 1

VARIABLES
    started,  \* platform_init_nand has run
    info,     \* *chip->info
    chip,     \* the other fields of *chip
    call      \* the call the driver got last, by its first unit

vars == <<started, info, chip, call>>
-----------------------------------------------------------------------------
(* Bits.                                                                   *)
KiB(n) == n * 1024
Bit(x, k) == (x \div 2^k) % 2

\* x & ~m, from the low bits on.
AndNot(x, m) ==
    LET low[n \in 0 .. Bits] ==
          IF n = 0 THEN 0
          ELSE low[n - 1] + (IF Bit(x, n - 1) > Bit(m, n - 1) THEN 2^(n - 1) ELSE 0)
    IN  low[Bits]

\* _ALIGN_DOWN and _ALIGN_UP.  With a size of 0 the mask is 0.
AlignDown(x, size) == IF size = 0 THEN 0 ELSE AndNot(x, size - 1)
AlignUp(x, size) == IF size = 0 THEN 0 ELSE AndNot(x + size - 1, size - 1)

\* generic_ffs
Ffs(x) ==
    IF x = 0 THEN 0
    ELSE 1 + CHOOSE k \in 0 .. Bits - 1 : x % 2^k = 0 /\ Bit(x, k) = 1

\* page & chip->pagemask, where -1 is a mask of all ones.
Masked(page, mask) == IF mask = -1 THEN page ELSE page % (mask + 1)
-----------------------------------------------------------------------------
(* The tables.                                                             *)
Toshiba == 152
Samsung == 236
STMicro == 32
Hynix == 173
Micron == 44
Amd == 1

\* nand_flash_ids has one entry, with pagesize 0: "get this information from
\* the extended chip ID".  Its options have no NAND_BUSWIDTH_16.
KnownDevice(id) == id.dev = 241
TableChipsize == 128

\* NAND_CI_CELLTYPE_MSK
Mlc(id) == (id.cell \div 4) % 4 # 0

\* The extended id of the fourth byte, from its low bits on: page size, spare
\* size, block size, bus width.  read_id queues six reads, so that bytes 6 and
\* 7 of its buffer are 0 and never repeat bytes 0 and 1: the "new style" that
\* nand_get_flash_type looks for first is not taken.
ExtPagesize(id) == 1024 * 2^(id.ext % 4)
ExtOobsize(id) == 8 * 2^Bit(id.ext, 2) * (ExtPagesize(id) \div 512)
ExtBlocksize(id) == KiB(64) * 2^((id.ext \div 16) % 4)
ExtBus16(id) == Bit(id.ext, 6) = 1

NoInfo == [pagesize |-> 0, blocksize |-> 0, chipsize |-> 0, buswidth16 |-> 0,
           chips |-> 0, oobsize |-> 0]

NoChip == [page_shift |-> 0, block_shift |-> 0, chip_shift |-> 0,
           pagemask |-> 0, pages_per_block |-> 0, row_cycles |-> 0,
           column_cycles |-> 0, freeoob_bytes |-> 0, badblockpos |-> 0,
           scan |-> {}]

NoCall == [op |-> "none", offset |-> 0, size |-> 0, first |-> 0, total |-> 0,
           unit |-> 0, chipnr |-> 0]

Init ==
    /\ started = FALSE
    /\ info = NoInfo
    /\ chip = NoChip
    /\ call = NoCall
-----------------------------------------------------------------------------
(* Identification.                                                         *)

\* NAND_BBT_SCANLASTPAGE, NAND_BBT_SCAN2NDPAGE and NAND_BBT_SCANBYTE1AND6.
ScanOptions(id) ==
    (IF Mlc(id) /\ id.maf \in {Samsung, Hynix} THEN {"lastpage"}
     ELSE IF \/ ~Mlc(id) /\ id.maf \in {Samsung, Hynix, Toshiba, Amd}
             \/ ExtPagesize(id) = 2048 /\ id.maf = Micron
     THEN {"2ndpage"} ELSE {})
    \cup (IF id.maf = STMicro /\ ExtPagesize(id) = 2048 THEN {"byte1and6"} ELSE {})

InfoFound(id) ==
    [pagesize |-> ExtPagesize(id), blocksize |-> ExtBlocksize(id),
     chipsize |-> TableChipsize, buswidth16 |-> 0, chips |-> 1,
     oobsize |-> ExtOobsize(id)]

\* A mutation: the shift is taken from the block size.
ChipFoundBlockShift(id) ==
    [NoChip EXCEPT !.page_shift = Ffs(ExtBlocksize(id)) - 1]
\* pagemask and chip_shift are computed from a chipsize in MiB.
ChipFound(id) ==
    [NoChip EXCEPT
       !.page_shift = Ffs(ExtPagesize(id)) - 1,
       !.pagemask = (TableChipsize \div ExtPagesize(id)) - 1,
       !.chip_shift = Ffs(TableChipsize) - 1,
       !.badblockpos = IF ExtPagesize(id) > 512 THEN 0 ELSE 5,
       !.scan = ScanOptions(id),
       !.block_shift = Ffs(ExtBlocksize(id)) - 1,
       !.pages_per_block = ExtBlocksize(id) \div ExtPagesize(id)]

\* READID failed, was answered differently the second time, or named a device
\* that is not in the table: the cleared structures stay.
InitNotFound ==
    /\ ~started
    /\ started' = TRUE
    /\ UNCHANGED <<info, chip, call>>

\* "NAND bus width %d instead %d bit": info is filled in, chip is not.
InitBusWidth(id) ==
    /\ ~started
    /\ KnownDevice(id)
    /\ ExtBus16(id)
    /\ started' = TRUE
    /\ info' = [InfoFound(id) EXCEPT !.chips = 0]
    /\ UNCHANGED <<chip, call>>

InitFound(id) ==
    /\ ~started
    /\ KnownDevice(id)
    /\ ~ExtBus16(id)
    /\ started' = TRUE
    /\ info' = InfoFound(id)
    /\ chip' = ChipFound(id)
    /\ UNCHANGED call

\* READID is sent twice; the bus may answer anything.
PlatformInitNand ==
    \/ InitNotFound
    \/ \E id \in Ids : InitBusWidth(id) \/ InitFound(id)
-----------------------------------------------------------------------------
(* setinfo.                                                                *)
FirstFive(i) == [pagesize |-> i.pagesize, blocksize |-> i.blocksize,
                 chipsize |-> i.chipsize, buswidth16 |-> i.buswidth16,
                 chips |-> i.chips]

\* The order of the tests does not matter: each returns -1.
Supported(i) ==
    /\ i.pagesize \in {512, 2048, 4096}
    /\ i.blocksize >= KiB(1)
    /\ i.blocksize % i.pagesize = 0
    /\ (i.chipsize * 1024) % (i.blocksize \div 1024) = 0

\* Row cycles: pages of the chip against 2^16 and 2^24.
RowCycles(i) ==
    IF i.pagesize > 1024
    THEN LET div == i.chipsize \div (i.pagesize \div 2048)
         IN  2 + (IF div > 128 THEN 1 ELSE 0) + (IF div > KiB(32) THEN 1 ELSE 0)
    ELSE 2 + (IF i.chipsize > 32 THEN 1 ELSE 0)

\* A mutation: pages_per_block keeps its old value.
ChipFromStalePages(i) ==
    [chip EXCEPT !.page_shift = Ffs(i.pagesize) - 1,
                 !.pagemask = ((i.chipsize * 1024) \div i.pagesize) * 1024 - 1]
\* A mutation: the mask is computed from MiB.
ChipFromMiB(i) ==
    [chip EXCEPT !.page_shift = Ffs(i.pagesize) - 1,
                 !.pagemask = ((i.chipsize * 1024) \div i.pagesize) - 1,
                 !.pages_per_block = i.blocksize \div i.pagesize]
\* badblockpos and the scan options are left as identification set them.  No
\* ECC is on: nand_flash_hwecc(0).
ChipFrom(i) ==
    [chip EXCEPT
       !.page_shift = Ffs(i.pagesize) - 1,
       !.block_shift = Ffs(i.blocksize) - 1,
       !.chip_shift = 20 + Ffs(i.chipsize) - 1,
       !.pagemask = ((i.chipsize * 1024) \div i.pagesize) * 1024 - 1,
       !.pages_per_block = i.blocksize \div i.pagesize,
       !.row_cycles = RowCycles(i),
       !.column_cycles = IF i.pagesize > 1024 THEN 2 ELSE 1,
       !.freeoob_bytes = (i.pagesize \div 512) * 16]

\* cmd_nand_setinfo ignores the result.  A geometry equal to the one in info
\* is not looked at further, and chip stays as it is.
SetInfo(i) ==
    /\ started /\ call = NoCall
    /\ IF FirstFive(info) = i \/ ~Supported(i)
       THEN UNCHANGED <<info, chip>>
       ELSE /\ info' = [pagesize |-> i.pagesize, blocksize |-> i.blocksize,
                        chipsize |-> i.chipsize, buswidth16 |-> i.buswidth16,
                        chips |-> i.chips,
                        oobsize |-> (i.pagesize \div 512) * 16]
            /\ chip' = ChipFrom(i)
    /\ UNCHANGED <<started, call>>
-----------------------------------------------------------------------------
(* erase, read and write.                                                  *)

\* lludiv, whose result for a divisor of 0 is -1, and the division of the
\* compiler's library, whose result is 0.
Forever == -1
Lludiv(a, b) == IF b = 0 THEN Forever ELSE a \div b
Uidiv(a, b) == IF b = 0 THEN 0 ELSE a \div b

Chipnr(offset) == offset \div 2^chip.chip_shift

\* cmd_nand_erase: "Invalid Arguments" unless whole blocks are erased.
Accepts(offset, size) ==
    /\ offset = AlignDown(offset, info.blocksize)
    /\ size = AlignUp(size, info.blocksize)

\* The first page erase_block is called for.
Erase(offset, size) ==
    /\ started /\ call = NoCall
    /\ Accepts(offset, size)
    /\ call' = [op |-> "erase", offset |-> offset, size |-> size,
                first |-> Lludiv(offset, info.blocksize) * chip.pages_per_block,
                total |-> Lludiv(AlignUp(size, info.blocksize), info.blocksize),
                unit |-> info.blocksize,
                chipnr |-> Chipnr(offset)]
    /\ UNCHANGED <<started, info, chip>>

RealPageSize(withoob) ==
    IF withoob THEN info.pagesize + info.oobsize ELSE info.pagesize

\* A mutation: only aligned down.
PagesRoundedDown(size, real) == Uidiv(AlignDown(size, real), real)
\* _ALIGN_UP works with masks, also for a size that is no power of two.
PagesOf(size, real) == Uidiv(AlignUp(size, real), real)

\* nand_flash_read up to its loop, which runs for total pages.
Read(offset, size, withoob) ==
    /\ started /\ call = NoCall
    /\ call' = [op |-> "read", offset |-> offset, size |-> size,
                first |-> Masked(offset \div 2^chip.page_shift, chip.pagemask),
                total |-> PagesOf(size, RealPageSize(withoob)),
                unit |-> RealPageSize(withoob),
                chipnr |-> Chipnr(offset)]
    /\ UNCHANGED <<started, info, chip>>

\* The rounds of nand_flash_write's loop, which goes on while retlen < len,
\* if no page fails.
RoundsOf(size, real) ==
    IF size = 0 THEN 0
    ELSE IF real = 0 THEN Forever ELSE (size - 1) \div real + 1

Write(offset, size, withoob) ==
    /\ started /\ call = NoCall
    /\ call' = [op |-> "write", offset |-> offset, size |-> size,
                first |-> Masked(offset \div 2^chip.page_shift, chip.pagemask),
                total |-> RoundsOf(size, RealPageSize(withoob)),
                unit |-> RealPageSize(withoob),
                chipnr |-> Chipnr(offset)]
    /\ UNCHANGED <<started, info, chip>>

\* cmd_nand_erase, cmd_nand_read, cmd_nand_write.
Commands ==
    \E offset \in Offsets, size \in Lengths :
        \/ Erase(offset, size)
        \/ \E withoob \in BOOLEAN :
              Read(offset, size, withoob) \/ Write(offset, size, withoob)

\* The command is over.  What it does with its units is NandDriver's.
Return ==
    /\ call # NoCall
    /\ call' = NoCall
    /\ UNCHANGED <<started, info, chip>>

Next ==
    \/ PlatformInitNand
    \/ \E i \in Infos : SetInfo(i)
    \/ Commands
    \/ Return

Spec == Init /\ [][Next]_vars
-----------------------------------------------------------------------------
(* Properties.                                                             *)

\* Types, and the shifts of page sizes the driver knows.
TypeOK ==
    /\ started \in BOOLEAN
    /\ info \in [pagesize : Nat, blocksize : Nat, chipsize : Nat,
                 buswidth16 : Nat, chips : Nat, oobsize : Nat]
    /\ DOMAIN chip = DOMAIN NoChip
    /\ chip.page_shift \in {0} \cup 9 .. 13
    /\ chip.pagemask >= -1
    /\ call.op \in {"none", "erase", "read", "write"}
    /\ call.total >= Forever

Identified == chip.pages_per_block > 0

IsPowerOfTwo(x) == x # 0 /\ x = 2^(Ffs(x) - 1)
PowersOfTwo == IsPowerOfTwo(info.blocksize) /\ IsPowerOfTwo(info.chipsize)

\* The fields that identification and setinfo derive (nand.c:1465-1528 and
\* 1232-1239) belong to the geometry that is in force: pages fill a block, and
\* the shift is the one of the page size, whatever setinfo accepted, refused
\* or found unchanged before.
GeometryAgrees ==
    Identified => /\ chip.pages_per_block * info.pagesize = info.blocksize
                  /\ 2^chip.page_shift = info.pagesize

\* A command for an offset on the device begins at the page of that offset
\* (nand.c:982-989, 1036, 1118), and a geometry that setinfo gave addresses
\* chip 0, if block and chip size are powers of two.
Addressed ==
    (/\ Identified /\ PowersOfTwo
     /\ call.op # "none"
     /\ call.offset \div KiB(1) < KiB(info.chipsize))
    => /\ call.first = call.offset \div info.pagesize
       /\ chip.chip_shift >= 20 => call.chipnr = 0

\* An accepted erase is one of whole blocks, and a read or write of whole
\* pages moves exactly those pages, with or without spare areas, although the
\* masks of _ALIGN_UP are applied to sizes that are no powers of two
\* (nand.c:981, 1040, 1110).
TotalExact ==
    \/ call.op = "none" \/ ~Identified
    \/ call.op = "erase" /\ ~PowersOfTwo
    \/ call.op \in {"read", "write"} /\ call.size % call.unit # 0
    \/ /\ call.total * call.unit = call.size
       /\ call.op = "erase" => call.offset % call.unit = 0
=============================================================================
