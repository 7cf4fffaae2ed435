------------------------------- MODULE Clock -------------------------------
(***************************************************************************)
(* The clock tree and what the serial ports make of it: src/src/clock.c    *)
(* and uart_init of src/src/drivers/uart/uart.c.  The fields of a register *)
(* are kept apart; the boot ROM has set them.  One step is one call.        *)
(***************************************************************************)
EXTENDS Integers

CONSTANTS
    ULongRange,   \* 2^32: the values of an unsigned long
    Sysin,        \* sysin_clkrate: 19200000
    Baud,         \* 115200
    PllSettings,  \* bound: three PLLs, each [nr, nf, no] up to 31, 127, 3
    PeriFields,   \* bound: [sel, ref, peri] of the peripheral clock
    BusFields,    \* bound: [sel, axi, bus] of the bus clock
    Garbage       \* bound: what an uninitialised rate may hold

ASSUME ClockAssumption ==
    /\ {ULongRange, Sysin, Baud} \subseteq Nat \ {0}
    /\ Garbage \subseteq 0 .. ULongRange - 1
    /\ PllSettings \subseteq [1 .. 3 -> [nr : 0 .. 31, nf : 0 .. 127, no : 0 .. 3]]
    /\ PeriFields \subseteq [sel : 0 .. 3, ref : 0 .. 15, peri : 0 .. 15]
    /\ BusFields \subseteq [sel : 0 .. 7, axi : 0 .. 31, bus : 0 .. 15]

VARIABLES
    tree,         \* the registers of the clock tree
    matchPort,    \* the port that uart_init has set up, -1 between calls
    umr           \* its match register

clockVars == <<tree, matchPort, umr>>
-----------------------------------------------------------------------------
\* A mutation: NO is the field and not its power of two.
OutputDivisorField(pll) == pll.no + 1
OutputDivisor(pll) == 2^pll.no

\* NR, NF and NO of get_pll_clkrate.
Multiplier(pll) == (pll.nf + 1) * 2
Divisor(pll) == (pll.nr + 1) * OutputDivisor(pll)

\* get_pll_clkrate, whose product is an unsigned long.
PllRate(pll) == ((Sysin * Multiplier(pll)) % ULongRange) \div Divisor(pll)

\* get_peri_source_clkrate: selector 3 leaves rate uninitialised.
PeriSource(g) == IF tree.peri.sel \in 0 .. 2 THEN PllRate(tree.pll[tree.peri.sel + 1]) ELSE g

\* get_timer_clk, which is the clock of the ports 0 and 1, and get_hclk.
TimerClk(g) == (PeriSource(g) \div (tree.peri.ref + 1)) \div (tree.peri.peri + 1)

AxiSource ==
    CASE tree.bus.sel = 0 -> Sysin
      [] tree.bus.sel \in 4 .. 6 -> PllRate(tree.pll[tree.bus.sel - 3])
      [] OTHER -> 0

Hclk == (AxiSource \div (tree.bus.axi + 1)) \div (tree.bus.bus + 1)

\* get_uart_clk
UartClk(port, g) == IF port = 2 THEN Hclk ELSE TimerClk(g)

\* What uart_init puts into UMR: whole steps, or steps of a 256th on port 2.
MatchValue(port, clk) ==
    IF port = 2
    THEN (((clk * 16) % ULongRange) \div Baud + ULongRange - 256) % ULongRange
    ELSE ((clk \div 16) \div Baud + ULongRange - 1) % ULongRange

ResetTree ==
    [pll |-> [n \in 1 .. 3 |-> [nr |-> 0, nf |-> 0, no |-> 0]],
     peri |-> [sel |-> 0, ref |-> 0, peri |-> 0],
     bus |-> [sel |-> 0, axi |-> 0, bus |-> 0]]

ClockInit ==
    /\ tree = ResetTree
    /\ matchPort = -1
    /\ umr = 0

\* uart_init of a port, with the clock tree in any of its settings.
InitSerial(port, plls, peri, bus, g) ==
    /\ matchPort = -1
    /\ matchPort' = port
    /\ tree' = [pll |-> plls, peri |-> peri, bus |-> bus]
    /\ umr' = MatchValue(port, UartClk(port, g))'

SerialReturns ==
    /\ matchPort # -1
    /\ matchPort' = -1 /\ umr' = 0
    /\ tree' = ResetTree

ClockNext ==
    \/ \E p \in 0 .. 2, plls \in PllSettings, peri \in PeriFields, bus \in BusFields,
          g \in Garbage : InitSerial(p, plls, peri, bus, g)
    \/ SerialReturns

ClockSpec == ClockInit /\ [][ClockNext]_clockVars
-----------------------------------------------------------------------------
(* Properties.                                                             *)
ClockTypeOK ==
    /\ matchPort \in -1 .. 2
    /\ umr \in 0 .. ULongRange - 1

\* The PLL a selector stands for, and the clock of a port as a fraction.
SourcePll(port) == tree.pll[IF port = 2 THEN tree.bus.sel - 3 ELSE tree.peri.sel + 1]
HasSource(port) ==
    IF port = 2 THEN tree.bus.sel \in {0} \cup 4 .. 6 ELSE tree.peri.sel \in 0 .. 2
FromSysin(port) == port = 2 /\ tree.bus.sel = 0
Numerator(port) ==
    IF FromSysin(port) THEN Sysin ELSE Sysin * (SourcePll(port).nf + 1) * 2
Denominator(port) ==
    (IF FromSysin(port) THEN 1
     ELSE (SourcePll(port).nr + 1)
          * <<1, 2, 4, 8>>[SourcePll(port).no + 1])
    * (IF port = 2 THEN (tree.bus.axi + 1) * (tree.bus.bus + 1)
                   ELSE (tree.peri.ref + 1) * (tree.peri.peri + 1))

\* The match register of a serial port is the whole part of clock / (16 * baud),
\* less one step, for the exact clock of the tree and not only for the clock
\* rounded at each of five divisions: as long as the selector names a source,
\* the product of the PLL and, on port 2, 16 times the clock do not exceed an
\* unsigned long, and the clock is fast enough for one step.  On port 2 the
\* register counts 256ths of a step, of the clock rounded to whole Hz.
MatchRight ==
    (matchPort # -1 /\ HasSource(matchPort) /\ Numerator(matchPort) < ULongRange) =>
        LET n == Numerator(matchPort)
            d == Denominator(matchPort)
        IN  IF matchPort # 2
            THEN n >= 16 * Baud * d =>
                    /\ (umr + 1) * 16 * Baud * d <= n
                    /\ n < (umr + 2) * 16 * Baud * d
            ELSE (n >= 16 * Baud * d /\ 16 * n < ULongRange * d) =>
                    /\ (umr + 256) * Baud <= 16 * (n \div d)
                    /\ 16 * (n \div d) < (umr + 257) * Baud
=============================================================================
