------------------------------ MODULE Startup ------------------------------
(***************************************************************************)
(* The start of the program: src/src/head.S with the addresses of          *)
(* src/src/ld.script.in, in words.  The boot ROM has put the image         *)
(* anywhere; the code copies it to the address it is linked for, continues *)
(* there, clears bss, in which the stack is, and calls main.  One step is  *)
(* one pass of a loop.                                                     *)
(***************************************************************************)
EXTENDS Integers, Sequences

CONSTANTS
    Ram,          \* bound: the words of the memory
    ImageWords,   \* __bss_start - __text_start
    BssWords,     \* __bss_end - __bss_start
    LinkAt,       \* __text_start
    LoadAts       \* bound: where the boot ROM may put the image

Block == 8        \* r4-r11

\* The words the copy loop moves: whole blocks.
Copied == ((ImageWords + Block - 1) \div Block) * Block

\* The copy has somewhere to go, and it does not change what it is copying,
\* which is also the code that copies.
ASSUME StartupAssumption ==
    /\ Ram \in Nat /\ LinkAt \in Nat /\ LoadAts \subseteq Nat
    /\ ImageWords \in Nat \ {0} /\ BssWords \in Nat
    /\ LinkAt + Copied <= Ram /\ LinkAt + ImageWords + BssWords <= Ram
    /\ \A l \in LoadAts :
          \/ l = LinkAt
          \/ l + Copied <= LinkAt
          \/ LinkAt + Copied <= l /\ l + Copied <= Ram

VARIABLES
    pc,           \* "off", "start", "copy", "bss", "clear" or "main"
    from, to,     \* r1, r2 of the copy, r1 of clear_bss
    count,        \* r0: the words left to clear
    ram,          \* the memory: image words by number, 0, or -1 for what was there
    loadAt        \* where the image was put

startVars == <<pc, from, to, count, ram, loadAt>>
-----------------------------------------------------------------------------
BssStart == LinkAt + ImageWords
Junk == -1

\* The image alone, its words numbered from 1, at an address.
ImageAt(l) == [w \in 0 .. Ram - 1 |-> IF w \in l .. l + ImageWords - 1 THEN w - l + 1 ELSE Junk]

StartupInit ==
    /\ pc = "off"
    /\ from = 0 /\ to = 0 /\ count = 0
    /\ ram = <<>>
    /\ loadAt = LinkAt

PowerOn(l) ==
    /\ pc = "off"
    /\ pc' = "start"
    /\ ram' = ImageAt(l)
    /\ loadAt' = l
    /\ UNCHANGED <<from, to, count>>

\* adr and ldr of the label 1: code that runs where it was linked is not copied.
CheckPlace ==
    /\ pc = "start"
    /\ IF loadAt = LinkAt
       THEN pc' = "bss" /\ UNCHANGED <<from, to>>
       ELSE pc' = "copy" /\ from' = loadAt /\ to' = LinkAt
    /\ UNCHANGED <<count, ram, loadAt>>

\* A mutation: the loop ends with the last whole block.
MoreToCopyWhole(w) == w + Block <= BssStart
MoreToCopy(w) == w < BssStart

CopyBlock ==
    /\ pc = "copy"
    /\ ram' = [w \in 0 .. Ram - 1 |-> IF w \in to .. to + Block - 1 THEN ram[from + w - to] ELSE ram[w]]
    /\ from' = from + Block /\ to' = to + Block
    /\ pc' = IF MoreToCopy(to + Block) THEN "copy" ELSE "bss"
    /\ UNCHANGED <<count, loadAt>>

\* The code at the label 1, at its linked address.
StartBss ==
    /\ pc = "bss"
    /\ from' = BssStart
    /\ count' = BssWords
    /\ pc' = IF BssWords = 0 THEN "main" ELSE "clear"
    /\ UNCHANGED <<to, ram, loadAt>>

ClearWord ==
    /\ pc = "clear"
    /\ ram' = [ram EXCEPT ![from] = 0]
    /\ from' = from + 1
    /\ count' = count - 1
    /\ pc' = IF count = 1 THEN "main" ELSE "clear"
    /\ UNCHANGED <<to, loadAt>>

\* A reset, from which the memory keeps nothing this model is about.
Reset ==
    /\ pc = "main"
    /\ pc' = "off"
    /\ from' = 0 /\ to' = 0 /\ count' = 0 /\ ram' = <<>> /\ loadAt' = LinkAt

StartupRun == CheckPlace \/ CopyBlock \/ StartBss \/ ClearWord

StartupNext == (\E l \in LoadAts : PowerOn(l)) \/ StartupRun \/ Reset

StartupSpec == StartupInit /\ [][StartupNext]_startVars /\ WF_startVars(StartupRun)
-----------------------------------------------------------------------------
(* Properties.                                                             *)
StartupTypeOK ==
    /\ pc \in {"off", "start", "copy", "bss", "clear", "main"}
    /\ {from, to} \subseteq 0 .. Ram
    /\ count \in 0 .. BssWords

\* When main is called, wherever the image was put, every word of the image is
\* at its linked address and every word of bss is 0: the copy ends in the middle
\* of a block and leaves up to seven words that are not of the image in bss.
StartsClean ==
    pc = "main" =>
        /\ \A k \in 0 .. ImageWords - 1 : ram[LinkAt + k] = k + 1
        /\ \A k \in BssStart .. BssStart + BssWords - 1 : ram[k] = 0
=============================================================================
