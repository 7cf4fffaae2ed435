------------------------------- MODULE Iomux -------------------------------
(***************************************************************************)
(* Pin multiplexing: p4a_iomux_config of src/src/iomux.c, and the table    *)
(* that p4a_board_init of src/src/board/p4abu/board.c gives it.            *)
(*                                                                         *)
(* A register holds eight fields of four bits; MUX_VALUE packs the number  *)
(* of the register, the place of the field and the mode, which the record  *)
(* of a pin keeps apart; every place in iomux.h is that of a whole field.  *)
(* One step is one pass of the loop: the device may *)
(* not be read again before the fields set so far are written back.        *)
(***************************************************************************)
EXTENDS Integers, Sequences

CONSTANTS
    RegMax,      \* 18: the registers are 1 .. RegMax
    PinTables,   \* bound: the tables given to p4a_iomux_config
    ResetModes   \* bound: what every field of every register may hold before

Fields == 0 .. 7
PinShifts == {4 * f : f \in Fields}

ASSUME IomuxAssumption ==
    /\ RegMax \in Nat \ {0}
    /\ ResetModes \subseteq 0 .. 15
    /\ PinTables \subseteq Seq([regid : Nat, shift : PinShifts, mode : 0 .. 15])

VARIABLES
    muxAt,       \* "idle", "loop" or "return"
    pins,        \* what is left of the table
    cached,      \* cached_regid
    fields,      \* val, as its fields
    cnt,         \* pins put into val
    muxRegs,     \* the registers
    muxCall      \* history: the table of the call, and the registers before

iomuxVars == <<muxAt, pins, cached, fields, cnt, muxRegs, muxCall>>
-----------------------------------------------------------------------------
Pin(r, s, m) == [regid |-> r, shift |-> s, mode |-> m]

\* MP_UART2RX_PAD_UART2_RX and MP_UART2TX_PAD_UART2_TX, MP_UART3RX_PAD_UART3_RX
\* and MP_UART3TX_PAD_UART3_TX.
Uart2Pins == <<Pin(1, 20, 1), Pin(1, 16, 1)>>
Uart3Pins == <<Pin(1, 24, 0), Pin(1, 28, 0)>>
\* The control lines in the order CEN0, RBN0, CLE, ALE, WRN, RDN, and D0 to D7.
NandPins ==
    <<Pin(9, 20, 0), Pin(9, 28, 0), Pin(9, 24, 0), Pin(9, 16, 0), Pin(10, 4, 0), Pin(10, 0, 0)>>
    \o [k \in 1 .. 4 |-> Pin(8, 12 + 4 * k, 0)] \o [k \in 1 .. 4 |-> Pin(9, 4 * k - 4, 0)]

\* muxpins_cfg: two serial ports and the NAND controller.
BoardPins == Uart2Pins \o Uart3Pins \o NandPins

Blank == [f \in Fields |-> 0]
Before(m) == [r \in 1 .. RegMax |-> [f \in Fields |-> m]]
NoCall == [table |-> <<>>, regs |-> Before(0)]

IomuxInit ==
    /\ muxAt = "idle"
    /\ pins = <<>>
    /\ cached = -1 /\ fields = Blank /\ cnt = 0
    /\ muxRegs = Before(0)
    /\ muxCall = NoCall

\* p4a_iomux_config, with the registers as the boot ROM left them.
IomuxConfig(table, m) ==
    /\ muxAt = "idle"
    /\ muxAt' = "loop"
    /\ pins' = table
    /\ muxRegs' = Before(m)
    /\ muxCall' = [table |-> table, regs |-> Before(m)]
    /\ UNCHANGED <<cached, fields, cnt>>

\* A mutation: the register that was cached is not written back on a change.
WrittenOnlyAtEnd == muxRegs
\* The registers with val written back, if it holds a pin.
Written == IF cnt > 0 THEN [muxRegs EXCEPT ![cached] = fields] ELSE muxRegs

\* mode << shift in the place of 0xf << shift.
Put(val, p) == [val EXCEPT ![p.shift \div 4] = p.mode]

SkipPin ==
    /\ muxAt = "loop" /\ pins # <<>>
    /\ Head(pins).regid \notin 1 .. RegMax
    /\ pins' = Tail(pins)
    /\ UNCHANGED <<muxAt, cached, fields, cnt, muxRegs, muxCall>>

SamePinRegister ==
    /\ muxAt = "loop" /\ pins # <<>>
    /\ Head(pins).regid \in 1 .. RegMax
    /\ Head(pins).regid = cached
    /\ fields' = Put(fields, Head(pins))
    /\ cnt' = cnt + 1
    /\ pins' = Tail(pins)
    /\ UNCHANGED <<muxAt, cached, muxRegs, muxCall>>

OtherPinRegister ==
    LET r == Head(pins).regid
    IN  /\ muxAt = "loop" /\ pins # <<>>
        /\ r \in 1 .. RegMax /\ r # cached
        /\ muxRegs' = Written
        /\ cached' = r
        /\ fields' = Put(Written[r], Head(pins))
        /\ cnt' = 1
        /\ pins' = Tail(pins)
        /\ UNCHANGED <<muxAt, muxCall>>

LastWrite ==
    /\ muxAt = "loop" /\ pins = <<>>
    /\ muxRegs' = IF cnt > 0 THEN [muxRegs EXCEPT ![cached] = fields] ELSE muxRegs
    /\ muxAt' = "return"
    /\ UNCHANGED <<pins, cached, fields, cnt, muxCall>>

IomuxReturn ==
    /\ muxAt = "return"
    /\ muxAt' = "idle"
    /\ cached' = -1 /\ fields' = Blank /\ cnt' = 0
    /\ muxRegs' = Before(0) /\ muxCall' = NoCall
    /\ UNCHANGED pins

IomuxRun == SkipPin \/ SamePinRegister \/ OtherPinRegister \/ LastWrite \/ IomuxReturn

IomuxNext ==
    \/ \E table \in PinTables, m \in ResetModes : IomuxConfig(table, m)
    \/ IomuxRun

IomuxSpec == IomuxInit /\ [][IomuxNext]_iomuxVars /\ WF_iomuxVars(IomuxRun)
-----------------------------------------------------------------------------
(* Properties.                                                             *)
IomuxTypeOK ==
    /\ muxAt \in {"idle", "loop", "return"}
    /\ cached \in {-1} \cup 1 .. RegMax
    /\ fields \in [Fields -> 0 .. 15]
    /\ DOMAIN muxRegs = 1 .. RegMax
    /\ cnt \in Nat

\* A pin is this field of this register.
Names(p, r, f) == p.regid = r /\ p.shift \div 4 = f

\* The registers as the first n pins of a table leave them when each is read,
\* changed and written by itself: the last pin that names a field decides it.
Applied(after, before, table, n) ==
    \A r \in 1 .. RegMax, f \in Fields :
        /\ (\A k \in 1 .. n : ~ Names(table[k], r, f)) => after[r][f] = before[r][f]
        /\ \A k \in 1 .. n :
              (Names(table[k], r, f) /\ \A j \in k + 1 .. n : ~ Names(table[j], r, f))
                  => after[r][f] = table[k].mode

\* Whatever the order of the pins in the table, a register that comes back
\* after another or a pin that is named twice included, the call leaves the
\* registers as if every pin had been read, changed and written by itself:
\* no pin is lost in the cached value and no field outside the table changes.
PinsAsGiven ==
    muxAt = "return" => Applied(muxRegs, muxCall.regs, muxCall.table, Len(muxCall.table))
=============================================================================
