---------------------------- MODULE KermitPacket ----------------------------
(***************************************************************************)
(* The bytes of a Kermit packet: kermit_getpacket,                         *)
(* src/src/cmd/cmd_kermit.c.  The line holds what the sender put on it, a  *)
(* packet whose bytes may have been changed between the end of the one     *)
(* before it and the beginning of the next; one step reads what one pass   *)
(* of the code reads.  The module Kermit is about whole packets, received  *)
(* or refused: this one is about which it is.                              *)
(***************************************************************************)
EXTENDS Integers, Sequences

CONSTANTS
    Payloads,    \* bound: what the sender has to send, as bytes
    Headers,     \* bound: numbers and types, as records [seq, type]
    Damages      \* bound: the damages of a line, sets of places and bits

VARIABLES
    line,        \* bytes on the line
    at,          \* "idle", "mark", "data" or "done"
    packet,      \* *pPacket: seq, type and data
    sum,         \* checksum, a uint8_t
    left,        \* packet_len - 3 - i
    outcome,     \* what kermit_getpacket returned
    sent         \* history: what the sender meant, and if it was damaged

packetVars == <<line, at, packet, sum, left, outcome, sent>>
-----------------------------------------------------------------------------
MARK == 1
EOL == 13
Quote == 35
ToChar(n) == n + 32
UnChar(c) == (c - 32) % 256

BitOf(c, k) == (c \div 2^k) % 2
Flip(c, k) == IF BitOf(c, k) = 1 THEN c - 2^k ELSE c + 2^k

\* The check character of a sum of bytes, which a uint8_t holds.
Check(s) == ToChar((s + s \div 64) % 64)
Add(s, c) == (s + c) % 256

-----------------------------------------------------------------------------
(* The sender.                                                             *)

\* Control characters, with or without the high bit, and the quote itself are
\* sent behind a quote.
Encode(c) ==
    IF c % 128 < 32 \/ c % 128 = 127 THEN <<Quote, Flip(c, 6)>>
    ELSE IF c = Quote THEN <<Quote, Quote>> ELSE <<c>>

\* The first n bytes of a payload, encoded.
EncodedTo(payload, n) ==
    LET text[k \in 0 .. Len(payload)] ==
            IF k = 0 THEN <<>> ELSE text[k - 1] \o Encode(payload[k])
    IN  text[n]
Encoded(payload) == EncodedTo(payload, Len(payload))

\* LEN, SEQ, TYPE and data.
Body(h, payload) ==
    <<ToChar(Len(Encoded(payload)) + 3), ToChar(h.seq), h.type>> \o Encoded(payload)

\* The sum of the first n bytes.
SumTo(bytes, n) ==
    LET total[k \in 0 .. Len(bytes)] == IF k = 0 THEN 0 ELSE Add(total[k - 1], bytes[k])
    IN  total[n]
Sum(bytes) == SumTo(bytes, Len(bytes))

\* A damage flips one bit of SEQ, TYPE or data.
Damaged(body, d) ==
    [k \in 1 .. Len(body) |->
        IF \E e \in d : e.place = k /\ k > 1
        THEN Flip(body[k], (CHOOSE e \in d : e.place = k).bit) ELSE body[k]]

\* The packet before has left its EOL; its own EOL and the MARK and LEN of the
\* packet behind it stand for what follows.
Send(h, payload, d) ==
    LET body == Body(h, payload)
        onLine == Damaged(body, d)
    IN  /\ at = "idle"
        /\ line' = <<EOL, MARK>> \o onLine \o <<Check(Sum(body)), EOL, MARK, ToChar(3)>>
        /\ sent' = [header |-> h, payload |-> payload, intact |-> onLine = body]
        /\ at' = "mark"
        /\ UNCHANGED <<packet, sum, left, outcome>>
-----------------------------------------------------------------------------
(* kermit_getpacket.                                                       *)
NothingSent == [header |-> [seq |-> 0, type |-> 0], payload |-> <<>>, intact |-> TRUE]

\* A payload fits a packet of 94 bytes, a number 64 and a damage is one bit.
ASSUME PacketAssumption ==
    /\ \A payload \in Payloads : /\ payload \in Seq(0 .. 255)
                                /\ Len(Encoded(payload)) + 3 <= 94
    /\ Headers \subseteq [seq : 0 .. 63, type : 0 .. 255]
    /\ \A d \in Damages : /\ d \subseteq [place : Nat, bit : 0 .. 7]
                         /\ \A e, f \in d : e = f

PacketInit ==
    /\ line = <<>>
    /\ at = "idle"
    /\ packet = [seq |-> 0, type |-> 0, data |-> <<>>]
    /\ sum = 0 /\ left = 0
    /\ outcome = "none"
    /\ sent = NothingSent

\* What is not a MARK is passed over.
SkipByte ==
    /\ at = "mark" /\ Head(line) # MARK
    /\ line' = Tail(line)
    /\ UNCHANGED <<at, packet, sum, left, outcome, sent>>

\* MARK, LEN, SEQ and TYPE.
GetHeader ==
    /\ at = "mark" /\ Head(line) = MARK
    /\ packet' = [seq |-> UnChar(line[3]), type |-> line[4], data |-> <<>>]
    /\ sum' = Sum(SubSeq(line, 2, 4))
    /\ left' = UnChar(line[2]) - 3
    /\ line' = SubSeq(line, 5, Len(line))
    /\ at' = "data"
    /\ UNCHANGED <<outcome, sent>>

\* A mutation: a quoted byte is always a control character.
UnquoteAlways(c) == Flip(c, 6)
\* 0x40 of (c & 0x60) is cleared, and a quoted '?' becomes a delete.
Unquote(c) ==
    IF (c \div 32) % 4 = 2 THEN c - 64
    ELSE IF c % 128 = 63 THEN c + 64 ELSE c

\* A mutation: the byte behind a quote is not summed.
SummedOnce(s) == Head(s)
Summed(s) == s[1] + (IF s[1] = Quote THEN s[2] ELSE 0)

\* One pass of the loop: a byte, or a quote and the byte behind it, which may
\* be one that is no longer data.
GetData ==
    /\ at = "data" /\ left > 0
    /\ LET quoted == line[1] = Quote
           n == IF quoted THEN 2 ELSE 1
       IN  /\ packet' = [packet EXCEPT
                           !.data = Append(@, IF quoted THEN Unquote(line[2]) ELSE line[1])]
           /\ sum' = Add(sum, Summed(line))
           /\ left' = left - n
           /\ line' = SubSeq(line, n + 1, Len(line))
    /\ UNCHANGED <<at, outcome, sent>>

GetCheck ==
    /\ at = "data" /\ left <= 0
    /\ outcome' = IF line[1] = Check(sum) THEN "received" ELSE "refused"
    /\ line' = Tail(line)
    /\ at' = "done"
    /\ UNCHANGED <<packet, sum, left, sent>>

PacketReturn ==
    /\ at = "done"
    /\ at' = "idle"
    /\ line' = <<>>
    /\ packet' = [seq |-> 0, type |-> 0, data |-> <<>>]
    /\ sum' = 0 /\ left' = 0 /\ outcome' = "none"
    /\ sent' = NothingSent

PacketRun == SkipByte \/ GetHeader \/ GetData \/ GetCheck \/ PacketReturn

PacketNext ==
    \/ \E h \in Headers, payload \in Payloads, d \in Damages : Send(h, payload, d)
    \/ PacketRun

PacketSpec == PacketInit /\ [][PacketNext]_packetVars /\ WF_packetVars(PacketRun)
-----------------------------------------------------------------------------
(* Properties.                                                             *)
PacketTypeOK ==
    /\ at \in {"idle", "mark", "data", "done"}
    /\ outcome \in {"none", "received", "refused"}
    /\ sum \in 0 .. 255
    /\ left \in Int /\ left >= -1
    /\ packet \in [seq : 0 .. 255, type : 0 .. 255, data : Seq(0 .. 255)]

\* A packet that arrives as it was sent is received with the number, type and
\* bytes the sender meant, and the next byte read is the EOL behind it; one in
\* which one bit of the number, the type or the data has flipped is refused,
\* although a flipped bit may make or unmake a quote and move the end of the
\* data.
PacketTruthful ==
    at = "done" =>
        IF sent.intact
        THEN /\ outcome = "received"
             /\ packet = [seq |-> sent.header.seq, type |-> sent.header.type,
                          data |-> sent.payload]
             /\ Head(line) = EOL
        ELSE outcome = "refused"
=============================================================================
