-------------------------------- MODULE Uart --------------------------------
(***************************************************************************)
(* The polled serial port: src/src/drivers/uart/uart.c with the layer of   *)
(* src/src/drivers/uart/serial.c on top.  One step is one read of the      *)
(* status register and what the code does with it; the device sends and    *)
(* receives between any two of them.                                       *)
(*                                                                         *)
(* Ports 0 and 1 have queue levels of LevelBits bits in the status         *)
(* register, port 2 (the UART with four wires) levels of one bit more.     *)
(***************************************************************************)
EXTENDS Integers, Sequences, SequencesExt

CONSTANTS
    LevelBits,     \* 6
    MsPolls,       \* 1000: polls in a millisecond of uart_getc_timeout
    PutPolls,      \* 100000: polls of uart_putc
    CounterMax,    \* 2^32: expires_ms is unsigned
    Ports,         \* bound: the ports used, of 0, 1 and 2
    Texts,         \* bound: what serial_puts is called with
    Arrivals,      \* bound: characters that arrive in all
    PutMax,        \* bound: characters sent in all
    Expiries       \* bound: the milliseconds given to uart_getc_timeout

ASSUME UartAssumption ==
    /\ LevelBits \in Nat \ {0}
    /\ MsPolls \in Nat \ {0} /\ PutPolls \in Nat \ {0}
    /\ CounterMax \in Nat \ {0} /\ CounterMax % 2 = 0
    /\ Ports \subseteq 0 .. 2 /\ Arrivals \in Nat /\ PutMax \in Nat
    /\ Expiries \subseteq 0 .. CounterMax - 1

VARIABLES
    port,        \* serial_port
    uop,         \* the call: "none", "puts", "getc" or "timeout"
    text,        \* what serial_puts and serial_putc have still to send
    polls,       \* timeout of uart_putc, mscount of uart_getc_timeout
    expires,     \* expires_ms
    rx, tx,      \* the queues of the device
    arrived,     \* history: the number of characters that came in
    got,         \* history: the characters read from URBR
    wire,        \* history: what the device has sent
    written,     \* history: what was written to UTBR
    asked,       \* history: the milliseconds the call was given
    waited       \* history: the rounds of MsPolls polls that saw no character

uartVars == <<port, uop, text, polls, expires, rx, tx, arrived, got, wire, written,
              asked, waited>>

deviceVars == <<rx, tx, arrived, wire>>
-----------------------------------------------------------------------------
(* The device.                                                             *)
Bits(p) == IF p = 2 THEN LevelBits + 1 ELSE LevelBits

\* What a queue holds: as much as its level field can say, 64 on port 2.
Depth(p) == IF p = 2 THEN 2^LevelBits ELSE 2^LevelBits - 1

\* USR: the receive level in the low bits, the transmit level above it.
StatusRegister == Len(rx) + Len(tx) * 2^Bits(port)

UartInit ==
    /\ port = 1
    /\ uop = "none" /\ text = <<>> /\ polls = 0 /\ expires = 0
    /\ rx = <<>> /\ tx = <<>>
    /\ arrived = 0 /\ got = <<>>
    /\ wire = <<>> /\ written = <<>>
    /\ asked = 0 /\ waited = 0

\* Characters are numbered as they arrive.
DeviceReceives ==
    /\ arrived < Arrivals
    /\ Len(rx) < Depth(port)
    /\ arrived' = arrived + 1
    /\ rx' = Append(rx, arrived + 1)
    /\ UNCHANGED <<port, uop, text, polls, expires, tx, got, wire, written, asked, waited>>

DeviceSends ==
    /\ tx # <<>>
    /\ tx' = Tail(tx)
    /\ wire' = Append(wire, Head(tx))
    /\ UNCHANGED <<port, uop, text, polls, expires, rx, arrived, got, written, asked, waited>>
-----------------------------------------------------------------------------
(* Sending.                                                                *)
CR == 13
LF == 10

\* serial_putc sends a '\r' before a '\n'.
Lines(s) == FoldLeft(LAMBDA out, c : out \o (IF c = LF THEN <<CR, LF>> ELSE <<c>>), <<>>, s)

\* serial_init resets the queues; the board calls it once, before anything else.
SerialInit(p) ==
    /\ uop = "none"
    /\ arrived = 0 /\ written = <<>>
    /\ port' = p
    /\ UNCHANGED <<uop, text, polls, expires, got, written, asked, waited, deviceVars>>

SerialPuts(s) ==
    /\ uop = "none"
    /\ s # <<>>
    /\ Len(written) + Len(Lines(s)) <= PutMax
    /\ uop' = "puts"
    /\ text' = Lines(s)
    /\ polls' = PutPolls
    /\ UNCHANGED <<port, expires, got, written, asked, waited, deviceVars>>

\* A mutation: the level is compared with the 64 of USR_TFLEVEL_FULL.
LooksFullAt64 == (StatusRegister \div 2^LevelBits) % 2^LevelBits = 2^LevelBits
\* (USR & 0xfc0) >> 6 = 0x3f, the transmit level of ports 0 and 1; on port 2 the
\* bits are the top of the receive level and all but the top of the transmit
\* level.
LooksFull == (StatusRegister \div 2^LevelBits) % 2^LevelBits = 2^LevelBits - 1

\* uart_putc is done with the first character of text.
NextCharacter ==
    /\ text' = Tail(text)
    /\ IF Tail(text) = <<>> THEN uop' = "none" /\ polls' = 0
                            ELSE uop' = uop /\ polls' = PutPolls

\* A queue that is full loses what is written to it.
PutWrites ==
    /\ uop = "puts" /\ ~LooksFull
    /\ written' = Append(written, Head(text))
    /\ tx' = IF Len(tx) < Depth(port) THEN Append(tx, Head(text)) ELSE tx
    /\ NextCharacter
    /\ UNCHANGED <<port, expires, rx, arrived, got, wire, asked, waited>>

\* A mutation: uart_putc polls without a limit.
PutPollsForever == uop = "puts" /\ LooksFull /\ UNCHANGED uartVars
PutPollsAgain ==
    /\ uop = "puts" /\ LooksFull /\ polls > 1
    /\ polls' = polls - 1
    /\ UNCHANGED <<port, uop, text, expires, got, written, asked, waited, deviceVars>>

PutDrops ==
    /\ uop = "puts" /\ LooksFull /\ polls = 1
    /\ NextCharacter
    /\ UNCHANGED <<port, expires, got, written, asked, waited, deviceVars>>
-----------------------------------------------------------------------------
(* Receiving.                                                              *)

\* uart_tstc, with the mask of the port.
Tstc == StatusRegister % 2^Bits(port) # 0

ReadCharacter ==
    /\ got' = Append(got, Head(rx))
    /\ rx' = Tail(rx)
    /\ uop' = "none"
    /\ polls' = 0 /\ expires' = 0 /\ asked' = 0 /\ waited' = 0
    /\ UNCHANGED <<port, text, tx, arrived, wire, written>>

\* uart_getc, and uart_getc_timeout when it is given 0, which calls it.
CallGetc ==
    /\ uop = "none"
    /\ uop' = "getc"
    /\ UNCHANGED <<port, text, polls, expires, got, written, asked, waited, deviceVars>>

GetcReads == uop = "getc" /\ Tstc /\ ReadCharacter

CallGetcTimeout(n) ==
    /\ uop = "none" /\ n > 0
    /\ uop' = "timeout"
    /\ expires' = n /\ asked' = n
    /\ polls' = MsPolls
    /\ UNCHANGED <<port, text, got, written, waited, deviceVars>>

TimeoutReads == uop = "timeout" /\ Tstc /\ ReadCharacter

TimeoutPollsAgain ==
    /\ uop = "timeout" /\ ~Tstc /\ polls > 1
    /\ polls' = polls - 1
    /\ UNCHANGED <<port, uop, text, expires, got, written, asked, waited, deviceVars>>

\* A mutation: the counter goes down once, at the end of the round.
LessOnce(n) == (n + CounterMax - 1) % CounterMax
\* A mutation: the counter is signed.
LessTwiceSigned(n) == n - 2
\* expires_ms--, and --expires_ms in the condition of the loop.
LessTwice(n) == (n + CounterMax - 2) % CounterMax

NextMillisecond ==
    /\ uop = "timeout" /\ ~Tstc /\ polls = 1 /\ LessTwice(expires) # 0
    /\ expires' = LessTwice(expires)
    /\ polls' = MsPolls
    /\ waited' = IF waited < CounterMax THEN waited + 1 ELSE waited
    /\ UNCHANGED <<port, uop, text, got, written, asked, deviceVars>>

TimeoutExpires ==
    /\ uop = "timeout" /\ ~Tstc /\ polls = 1 /\ LessTwice(expires) = 0
    /\ uop' = "expired"
    /\ waited' = waited + 1
    /\ UNCHANGED <<port, text, polls, expires, got, written, asked, deviceVars>>

\* The caller sees -1.
ExpiredReturns ==
    /\ uop = "expired"
    /\ uop' = "none"
    /\ polls' = 0 /\ expires' = 0 /\ asked' = 0 /\ waited' = 0
    /\ UNCHANGED <<port, text, got, written, deviceVars>>
-----------------------------------------------------------------------------
UartRun ==
    \/ PutWrites \/ PutPollsAgain \/ PutDrops
    \/ GetcReads
    \/ TimeoutReads \/ TimeoutPollsAgain \/ NextMillisecond \/ TimeoutExpires
    \/ ExpiredReturns

UartCall ==
    \/ \E p \in Ports : SerialInit(p)
    \/ \E s \in Texts : SerialPuts(s)
    \/ CallGetc
    \/ \E n \in Expiries : CallGetcTimeout(n)

UartNext == UartRun \/ UartCall \/ DeviceReceives \/ DeviceSends

\* The processor runs; nothing is assumed of the device.
UartSpec == UartInit /\ [][UartNext]_uartVars /\ WF_uartVars(UartRun)
-----------------------------------------------------------------------------
(* Properties.                                                             *)
UartTypeOK ==
    /\ port \in 0 .. 2
    /\ uop \in {"none", "puts", "getc", "timeout", "expired"}
    /\ polls \in 0 .. MsPolls + PutPolls
    /\ expires \in 0 .. CounterMax - 1
    /\ Len(rx) <= Depth(port) /\ Len(tx) <= Depth(port)

\* On the ports 0 and 1 nothing that is written to the transmit register is
\* lost to a full queue, whenever the device takes characters out of it, and it
\* leaves in the order it was written.  Characters are read once each and in the
\* order of arrival.  A receive with a time limit gives up after half the
\* milliseconds it was given, each of MsPolls polls that saw an empty queue: its
\* counter goes down by two a round.
UartOK ==
    /\ port # 2 => wire \o tx = written
    /\ \A k \in 1 .. Len(got \o rx) : (got \o rx)[k] = k
    /\ Len(got \o rx) = arrived
    /\ uop = "expired" => 2 * waited = asked

\* A call that does not wait for a character without a limit comes to an end.  A
\* limit that is odd is none: the counter passes 0 between the two places where
\* it goes down.
UartEnds ==
    (uop \in {"puts", "expired"} \/ (uop = "timeout" /\ asked % 2 = 0)) ~> (uop = "none")
=============================================================================
