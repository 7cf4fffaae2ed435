---------------------------- MODULE MCNandIdent ----------------------------
(***************************************************************************)
(* NandIdent for TLC: answers of several makers with small and large pages *)
(* on narrow and wide buses, geometries that setinfo accepts, refuses and  *)
(* finds unchanged, and offsets and lengths around pages with and without  *)
(* their spare areas, blocks and the end of the device.                    *)
(***************************************************************************)
EXTENDS NandIdent

Id(maf, dev, cell, ext) ==
    [maf |-> maf, dev |-> dev, cell |-> cell, ext |-> ext, id5 |-> 0]

MCIds ==
    {Id(maf, 241, cell, ext) :
        maf \in {Samsung, Micron, STMicro}, cell \in {0, 4}, ext \in {21, 149, 22, 85}}
    \cup {Id(Toshiba, 113, 0, 21)}

Geometry(page, block, mib, bus, n) ==
    [pagesize |-> page, blocksize |-> block, chipsize |-> mib,
     buswidth16 |-> bus, chips |-> n]

MCInfos ==
    {Geometry(2048, KiB(128), 128, 0, 1),    \* what 0x15 stands for
     Geometry(2048, KiB(128), 128, 0, 0),
     Geometry(4096, KiB(256), 512, 0, 1),
     Geometry(512, KiB(16), 64, 1, 2),
     Geometry(512, KiB(6), 3, 0, 1),         \* no power of two
     Geometry(1024, KiB(128), 128, 0, 1),    \* pagesize not supported
     Geometry(2048, 3000, 128, 0, 1),        \* blocksize invalid
     Geometry(2048, KiB(6), 128, 0, 1)}      \* chipsize invalid

MCOffsets == {0, 512, KiB(6), KiB(16), KiB(128) + 2048, KiB(256), KiB(128) * 1023, KiB(KiB(128))}
MCLengths == {0, 1, 2048, 4 * 528, 64 * 2112, KiB(64) + 64 * 128, KiB(8), KiB(256)}
=============================================================================
