----------------------------- MODULE MCRoutines -----------------------------
(***************************************************************************)
(* The routines at the bottom of the program for TLC: start, division,     *)
(* clocks, pins, serial port, waiting, memory test, packets and numbers.   *)
(* They share no state, so one run checks them all: routine says which of  *)
(* them a behaviour is about, and the states of the routines add up where  *)
(* side by side they would multiply.                                       *)
(***************************************************************************)
EXTENDS Startup, Division, Clock, Iomux, Uart, Delay, MemTest, KermitPacket, NumberText

CONSTANT Routines

VARIABLE routine

routineVars == <<startVars, divVars, clockVars, iomuxVars, uartVars, delayVars, memVars,
                 packetVars, typed, routine>>

RoutinesInit ==
    /\ routine \in Routines
    /\ StartupInit /\ DivisionInit /\ ClockInit /\ IomuxInit /\ UartInit /\ DelayInit
    /\ MemTestInit /\ PacketInit /\ NumberInit

RoutinesNext ==
    \/ /\ routine = "start"
       /\ StartupNext
       /\ UNCHANGED <<routine, divVars, clockVars, iomuxVars, uartVars, delayVars, memVars, packetVars, typed>>
    \/ /\ routine = "divide"
       /\ DivisionNext
       /\ UNCHANGED <<routine, startVars, clockVars, iomuxVars, uartVars, delayVars, memVars, packetVars, typed>>
    \/ /\ routine = "clock"
       /\ ClockNext
       /\ UNCHANGED <<routine, startVars, divVars, iomuxVars, uartVars, delayVars, memVars, packetVars, typed>>
    \/ /\ routine = "pins"
       /\ IomuxNext
       /\ UNCHANGED <<routine, startVars, divVars, clockVars, uartVars, delayVars, memVars, packetVars, typed>>
    \/ /\ routine = "serial"
       /\ UartNext
       /\ UNCHANGED <<routine, startVars, divVars, clockVars, iomuxVars, delayVars, memVars, packetVars, typed>>
    \/ /\ routine = "delay"
       /\ DelayNext
       /\ UNCHANGED <<routine, startVars, divVars, clockVars, iomuxVars, uartVars, memVars, packetVars, typed>>
    \/ /\ routine = "memory"
       /\ MemTestNext
       /\ UNCHANGED <<routine, startVars, divVars, clockVars, iomuxVars, uartVars, delayVars, packetVars, typed>>
    \/ /\ routine = "packet"
       /\ PacketNext
       /\ UNCHANGED <<routine, startVars, divVars, clockVars, iomuxVars, uartVars, delayVars, memVars, typed>>
    \/ /\ routine = "number"
       /\ NumberNext
       /\ UNCHANGED <<routine, startVars, divVars, clockVars, iomuxVars, uartVars, delayVars, memVars, packetVars>>

\* The processor runs the routine that was called.
RoutinesSpec ==
    /\ RoutinesInit
    /\ [][RoutinesNext]_routineVars
    /\ WF_divVars(DivisionRun) /\ WF_uartVars(UartRun) /\ WF_delayVars(DelayRun)
    /\ WF_startVars(StartupRun) /\ WF_iomuxVars(IomuxRun) /\ WF_packetVars(PacketRun)
    /\ WF_memVars(MemTestRun)
-----------------------------------------------------------------------------
\* The variables of every routine hold what their declarations allow.
RoutinesTypeOK ==
    /\ StartupTypeOK /\ DivisionTypeOK /\ ClockTypeOK /\ IomuxTypeOK /\ UartTypeOK
    /\ DelayTypeOK /\ MemTestTypeOK /\ PacketTypeOK

\* Every routine that has been called returns: a division for all operands, a
\* wait although its counter starts again and again, a table of pins, a packet
\* whose quotes take it past its length, the copy of the image, output although
\* the device never takes a character, and a receive with an even limit; a
\* receive with an odd one or with none waits for a character, and a memory
\* test that finds nothing goes on.
RoutineReturns ==
    /\ (fn # "none") ~> (fn = "none")
    /\ (dlAt # "idle") ~> (dlAt = "idle")
    /\ (muxAt # "idle") ~> (muxAt = "idle")
    /\ (at # "idle") ~> (at = "idle")
    /\ (pc = "start") ~> (pc = "main")
    /\ UartEnds
-----------------------------------------------------------------------------
MCOperands == {0, 1, 2, 3, 5, 7, 8, 10, 15, 16, 17, 31, 85, 100, 127, 128, 129, 170, 192, 200, 251, 254, 255}

Pll(r, f, o) == [nr |-> r, nf |-> f, no |-> o]
MCPlls ==
    {<<Pll(0, 1, 0), Pll(2, 1, 3), Pll(0, 30, 0)>>,
     <<Pll(2, 3, 1), Pll(0, 10, 0), Pll(0, 1, 0)>>,
     <<Pll(31, 127, 3), Pll(0, 0, 0), Pll(0, 1, 0)>>,
     <<Pll(0, 7, 2), Pll(0, 30, 0), Pll(0, 1, 0)>>,
     <<Pll(1, 9, 2), Pll(3, 5, 0), Pll(0, 1, 0)>>}
MCPeri == {[sel |-> s, ref |-> r, peri |-> p] : s \in {0, 1, 3}, r \in {0, 2}, p \in {0, 4}}
MCBus == {[sel |-> s, axi |-> x, bus |-> y] : s \in {0, 1, 4, 5}, x \in {0, 2}, y \in {0, 1}}

\* Registers that come back, pins named twice and registers that do not exist.
MCPinTables ==
    {BoardPins} \cup
    UNION {[1 .. n -> {Pin(0, 0, 1), Pin(1, 0, 1), Pin(1, 4, 2), Pin(2, 4, 3), Pin(19, 0, 2)}] :
              n \in 0 .. 4}

MCTexts == {<<10>>, <<65, 66, 67>>}

MCPatterns == 0 .. 15

\* Bytes that are quoted, look like a quote, MARK or a quoted byte, alone and
\* together.
MCPayloads ==
    {<<>>, <<35, 35, 98>>, <<99, 99, 99>>, <<98, 35, 3>>}
    \cup {<<x>> : x \in {0, 13, 31, 35, 63, 64, 65, 95, 98, 127, 128, 163, 191, 255}}
    \cup {<<x, y>> : x \in {1, 35, 63, 65, 255}, y \in {35, 65, 127, 129, 98}}
MCHeaders == {[seq |-> 0, type |-> 83], [seq |-> 63, type |-> 68]}
MCDamages == {{}} \cup {{[place |-> p, bit |-> k]} : p \in 2 .. 9, k \in 0 .. 7}
=============================================================================
