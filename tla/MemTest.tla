------------------------------ MODULE MemTest ------------------------------
(***************************************************************************)
(* The memory test, cmd_memtest of src/src/cmd/cmd_mem.c, on a memory that *)
(* may have a fault: a bit that cannot change or two addresses of one      *)
(* cell.  One step writes or reads one word.                               *)
(***************************************************************************)
EXTENDS Integers, Sequences, FiniteSets

CONSTANTS
    WordBits,     \* 32: bits of a word
    Words,        \* bound: end - start
    Patterns,     \* bound: the patterns it is started with
    PassMax       \* bound: passes of the endless loop that are looked at

WordSize == 2^WordBits
Cells == 0 .. Words - 1

ASSUME MemTestAssumption ==
    /\ WordBits \in Nat \ {0} /\ Words \in Nat \ {0}
    /\ Words <= WordSize
    /\ PassMax \in Nat
    /\ Patterns \subseteq 0 .. WordSize - 1

VARIABLES
    mtAt,         \* "idle", "write", "read", "error"
    mem,          \* the words of the memory
    addr,         \* addr - start
    val,          \* the value of the next word
    pattern, incr,
    passes,       \* history: passes that are over
    fault,        \* the fault of the memory
    first         \* history: the pattern it was started with

memVars == <<mtAt, mem, addr, val, pattern, incr, passes, fault, first>>
-----------------------------------------------------------------------------
NoFault == [kind |-> "none", cell |-> 0, bit |-> 0, other |-> 0]
Faults ==
    {NoFault}
    \cup {[kind |-> "stuck", cell |-> c, bit |-> b, other |-> v] :
             c \in Cells, b \in 0 .. WordBits - 1, v \in {0, 1}}
    \cup {[kind |-> "alias", cell |-> c, bit |-> 0, other |-> d] : c \in Cells, d \in Cells}

\* The word that a cell keeps of v.
Kept(f, c, v) ==
    LET was == (v \div 2^f.bit) % 2
    IN  IF f.kind = "stuck" /\ f.cell = c THEN v + (f.other - was) * 2^f.bit ELSE v

\* The cell that an address reaches.
Cell(f, c) == IF f.kind = "alias" /\ f.cell = c THEN f.other ELSE c

MemTestInit ==
    /\ mtAt = "idle"
    /\ mem = [c \in Cells |-> 0]
    /\ addr = 0 /\ val = 0 /\ pattern = 0 /\ incr = 1 /\ passes = 0 /\ first = 0
    /\ fault = NoFault

Memtest(p, f) ==
    /\ mtAt = "idle"
    /\ mtAt' = "write"
    /\ pattern' = p /\ val' = p /\ first' = p
    /\ incr' = 1
    /\ fault' = f
    /\ UNCHANGED <<mem, addr, passes>>

WriteWord ==
    /\ mtAt = "write" /\ addr < Words
    /\ mem' = [mem EXCEPT ![Cell(fault, addr)] = Kept(fault, Cell(fault, addr), val)]
    /\ val' = (val + incr) % WordSize
    /\ addr' = addr + 1
    /\ UNCHANGED <<mtAt, pattern, incr, passes, fault, first>>

StartReading ==
    /\ mtAt = "write" /\ addr = Words
    /\ mtAt' = "read"
    /\ addr' = 0 /\ val' = pattern
    /\ UNCHANGED <<mem, pattern, incr, passes, fault, first>>

ReadWord ==
    /\ mtAt = "read" /\ addr < Words
    /\ IF mem[Cell(fault, addr)] = val
       THEN val' = (val + incr) % WordSize /\ addr' = addr + 1 /\ UNCHANGED mtAt
       ELSE mtAt' = "error" /\ UNCHANGED <<val, addr>>
    /\ UNCHANGED <<mem, pattern, incr, passes, fault, first>>

\* A mutation: the increment keeps its sign.
NextIncrSame(n) == n
NextIncr(n) == (WordSize - n) % WordSize

\* pattern & 0x80000000: -pattern, else ~pattern.
NextPattern(p) ==
    IF p >= 2^(WordBits - 1) THEN (WordSize - p) % WordSize ELSE WordSize - 1 - p

NextPass ==
    /\ mtAt = "read" /\ addr = Words
    /\ passes < PassMax
    /\ mtAt' = "write"
    /\ pattern' = NextPattern(pattern)
    /\ incr' = NextIncr(incr)
    /\ val' = NextPattern(pattern)
    /\ addr' = 0
    /\ passes' = passes + 1
    /\ UNCHANGED <<mem, fault, first>>

\* The command prints the address and returns 1.
MemtestReturn ==
    /\ mtAt = "error"
    /\ mtAt' = "idle"
    /\ mem' = [c \in Cells |-> 0]
    /\ addr' = 0 /\ val' = 0 /\ pattern' = 0 /\ incr' = 1 /\ passes' = 0 /\ first' = 0
    /\ fault' = NoFault

MemTestRun == WriteWord \/ StartReading \/ ReadWord \/ NextPass \/ MemtestReturn

MemTestNext == (\E p \in Patterns, f \in Faults : Memtest(p, f)) \/ MemTestRun

MemTestSpec == MemTestInit /\ [][MemTestNext]_memVars /\ WF_memVars(MemTestRun)
-----------------------------------------------------------------------------
(* Properties.                                                             *)
MemTestTypeOK ==
    /\ mtAt \in {"idle", "write", "read", "error"}
    /\ mem \in [Cells -> 0 .. WordSize - 1]
    /\ {val, pattern, incr, first} \subseteq 0 .. WordSize - 1
    /\ addr \in 0 .. Words /\ passes \in 0 .. PassMax

\* A pattern that is its own negation, with which the first word never changes.
FixedPattern == 2^(WordBits - 1)

\* The test reports an error only on a memory that has a fault, and none stays
\* undiscovered: an address that reaches the cell of another is reported in the
\* first pass and a bit that cannot change by the end of the third, whatever the
\* first pattern; only with 0x80000000, which the flip turns into itself, may a
\* bit of the first word be tested with one value for ever.
MemFaultFound ==
    /\ mtAt = "error" => fault.kind # "none" /\ ~(fault.kind = "alias" /\ fault.cell = fault.other)
    /\ passes >= 1 => (fault.kind = "alias" => fault.cell = fault.other)
    /\ passes >= 3 => (fault.kind = "stuck" => first = FixedPattern)
=============================================================================
