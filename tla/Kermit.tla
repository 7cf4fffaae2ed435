------------------------------- MODULE Kermit -------------------------------
(***************************************************************************)
(* The Kermit receiver of the loadb command, src/src/cmd/cmd_kermit.c, a   *)
(* sender that follows the Kermit protocol, and the serial line between    *)
(* them.  The receiver is translated from the code, one action per way     *)
(* through the loop of kermit_recv.  The sender and the line are external: *)
(* the sender waits for the acknowledgement of a packet before it sends    *)
(* the next one, sends it again after a timeout, and takes a NAK for the   *)
(* next packet as the acknowledgement of the current one, as the protocol  *)
(* has it; the line loses and garbles packets but keeps their order.       *)
(***************************************************************************)
EXTENDS Integers, Sequences, FiniteSets

CONSTANTS
    SeqMod,      \* packet numbers count modulo 64
    Script,      \* the packets of the session: records with type and data
    LineMax,     \* bound: packets on the line in each direction
    Garbled      \* a packet whose check character does not match

NoSeq == 255     \* kermit_seq = 0xff: no packet seen

ASSUME KermitAssumption ==
    /\ SeqMod \in Nat /\ SeqMod > 2 /\ SeqMod <= 64
    /\ LineMax \in Nat \ {0}
    /\ Script \in Seq([type : {"S", "F", "A", "D", "Z", "B"}, data : Nat])
    /\ Script # <<>>

\* The other side keeps to the protocol: a session that is opened, files that
\* are opened, sent and closed one after the other, and a break at the end.
\* The states are those of the receiver before each packet.
Reads(h) ==
    /\ h[1] = "r"
    /\ \A i \in 1 .. Len(Script) :
          \/ Script[i].type = "S" /\ h[i] = "r"  /\ h[i + 1] = "rf"
          \/ Script[i].type = "F" /\ h[i] = "rf" /\ h[i + 1] = "rd"
          \/ Script[i].type \in {"A", "D"} /\ h[i] = "rd" /\ h[i + 1] = "rd"
          \/ Script[i].type = "Z" /\ h[i] = "rd" /\ h[i + 1] = "rf"
          \/ Script[i].type = "B" /\ h[i] = "rf" /\ h[i + 1] = "rf" /\ i = Len(Script)
Readings == [1 .. Len(Script) + 1 -> {"r", "rf", "rd"}]
ASSUME SessionAssumption == \E h \in Readings : Reads(h)

VARIABLES
    running,   \* kermit_recv has not returned
    seq,       \* kermit_seq
    handler,   \* kermit_handler: "r", "rf" or "rd"
    stored,    \* memory from kermit_addr on, by packet (kermit_size)
    current,   \* sender: index in Script of the packet it sends
    toRecv,    \* the line to the receiver
    toSend     \* the line to the sender

vars == <<running, seq, handler, stored, current, toRecv, toSend>>
receiver == <<running, seq, handler, stored>>

-----------------------------------------------------------------------------
Packet(i) == [seq |-> (i - 1) % SeqMod, type |-> Script[i].type,
              data |-> Script[i].data]

Sent == {Packet(i) : i \in 1 .. Len(Script)}
ASSUME GarbledAssumption == Garbled \notin Sent   \* the check character tells
Packets == Sent \cup {Garbled}

Replies == [type : {"Y", "N"}, seq : 0 .. SeqMod - 1 \cup {NoSeq}]

Init ==
    /\ running = TRUE
    /\ seq = NoSeq
    /\ handler = "r"
    /\ stored = <<>>
    /\ current = 1
    /\ toRecv = <<>>
    /\ toSend = <<>>
-----------------------------------------------------------------------------
(* The receiver.  kermit_getpacket blocks until a packet has come in.      *)

\* kermit_send_ack; a reply that finds the line full is lost.
SendAck(type, s) ==
    toSend' = IF Len(toSend) < LineMax
              THEN Append(toSend, [type |-> type, seq |-> s]) ELSE toSend

Arrived == running /\ toRecv # <<>>
Incoming == Head(toRecv)

\* The number the loop expects after the first packet set it.
Expected(packet) == IF seq = NoSeq THEN packet.seq ELSE seq

\* A mutation: the number is not masked.
NextSeqNoWrap(s) == s + 1
NextSeq(s) == (s + 1) % SeqMod

\* A mutation: the old packet is handled again.
SeqMatchesLoose(packet) == packet.seq <= Expected(packet)
SeqMatches(packet) == packet.seq = Expected(packet)

\* A checksum error.
NakGarbled ==
    /\ Arrived
    /\ Incoming = Garbled
    /\ SendAck("N", seq)
    /\ toRecv' = Tail(toRecv)
    /\ UNCHANGED <<running, seq, handler, stored, current>>

\* packet.seq > kermit_seq
NakAhead ==
    /\ Arrived
    /\ Incoming # Garbled
    /\ Incoming.seq > seq
    /\ SendAck("N", seq)
    /\ toRecv' = Tail(toRecv)
    /\ UNCHANGED <<running, seq, handler, stored, current>>

\* packet.seq < kermit_seq: acknowledged again, not handled.
AckOld ==
    /\ Arrived
    /\ Incoming # Garbled
    /\ Incoming.seq <= seq
    /\ ~SeqMatches(Incoming)
    /\ SendAck("Y", Incoming.seq)
    /\ toRecv' = Tail(toRecv)
    /\ UNCHANGED <<running, seq, handler, stored, current>>

\* A mutation: the end of a file ends the session.
HandlerOneFile(type) ==
    CASE handler = "r"  /\ type = "S" -> "rf"
      [] handler = "rf" /\ type = "F" -> "rd"
      [] handler = "rd" /\ type = "Z" -> "r"
      [] OTHER -> handler
\* kermit_r, kermit_rf and kermit_rd.  A negative result ends nothing: ret is
\* unsigned, so that "ret < 0" is never true.
HandlerAfter(type) ==
    CASE handler = "r"  /\ type = "S" -> "rf"
      [] handler = "rf" /\ type = "F" -> "rd"
      [] handler = "rd" /\ type = "Z" -> "rf"
      [] OTHER -> handler

\* A mutation: kermit_size restarts with every file.
StoredPerFile(packet) ==
    IF packet.type = "F" THEN <<>>
    ELSE IF handler = "rd" /\ packet.type = "D" THEN Append(stored, packet.data) ELSE stored
StoredAfter(packet) ==
    IF handler = "rd" /\ packet.type = "D" THEN Append(stored, packet.data) ELSE stored

Handle ==
    /\ Arrived
    /\ Incoming # Garbled
    /\ Incoming.seq <= seq
    /\ SeqMatches(Incoming)
    /\ SendAck("Y", Incoming.seq)
    /\ seq' = NextSeq(Incoming.seq)
    /\ handler' = HandlerAfter(Incoming.type)
    /\ stored' = StoredAfter(Incoming)
    /\ running' = ~(handler = "rf" /\ Incoming.type = "B")
    /\ toRecv' = Tail(toRecv)
    /\ UNCHANGED current

Receive == NakGarbled \/ NakAhead \/ AckOld \/ Handle
-----------------------------------------------------------------------------
(* The sender.                                                             *)

\* The first transmission of a packet, and its retransmission on a timeout.
Transmit ==
    /\ current <= Len(Script)
    /\ Len(toRecv) < LineMax
    /\ toRecv' = Append(toRecv, Packet(current))
    /\ UNCHANGED <<receiver, current, toSend>>

Acknowledges(reply) ==
    \/ reply.type = "Y" /\ reply.seq = (current - 1) % SeqMod
    \/ reply.type = "N" /\ reply.seq = current % SeqMod

TakeReply ==
    /\ current <= Len(Script)
    /\ toSend # <<>>
    /\ current' = IF Acknowledges(Head(toSend)) THEN current + 1 ELSE current
    /\ toSend' = Tail(toSend)
    /\ UNCHANGED <<receiver, toRecv>>
-----------------------------------------------------------------------------
(* The line.  What it loses or garbles it does so on arrival.              *)
Lose ==
    /\ \/ toRecv # <<>> /\ toRecv' = Tail(toRecv) /\ UNCHANGED toSend
       \/ toSend # <<>> /\ toSend' = Tail(toSend) /\ UNCHANGED toRecv
    /\ UNCHANGED <<receiver, current>>

Garble ==
    /\ toRecv # <<>>
    /\ toRecv' = [toRecv EXCEPT ![1] = Garbled]
    /\ UNCHANGED <<receiver, current, toSend>>

Next == Receive \/ Transmit \/ TakeReply \/ Lose \/ Garble

Spec == Init /\ [][Next]_vars

\* Both ends run, the sender's timer expires, and a line that carries packets
\* again and again does not lose or garble all of them.
Fairness ==
    /\ WF_vars(Receive)
    /\ WF_vars(Transmit)
    /\ SF_vars(Handle)
    /\ SF_vars(NakAhead \/ AckOld)
    /\ SF_vars(TakeReply)

FairSpec == Spec /\ Fairness
-----------------------------------------------------------------------------
TypeOK ==
    /\ running \in BOOLEAN
    /\ seq \in 0 .. SeqMod - 1 \cup {NoSeq}
    /\ handler \in {"r", "rf", "rd"}
    /\ stored \in Seq(Nat)
    /\ current \in 1 .. Len(Script) + 1
    /\ toRecv \in Seq(Packets) /\ Len(toRecv) <= LineMax
    /\ toSend \in Seq(Replies) /\ Len(toSend) <= LineMax

\* The two ends never get more than one packet apart, although numbers wrap
\* and old packets and replies are still on the line: the receiver waits for
\* the packet the sender sends, or for the one after it.
InStep ==
    seq # NoSeq => seq \in {(current - 1) % SeqMod, current % SeqMod}

\* The data packets of the session, and those before the i-th packet.
DataPackets == {k \in 1 .. Len(Script) : Script[k].type = "D"}
DataBefore(i) == {k \in DataPackets : k < i}

\* What the sender takes for acknowledged is in memory: an acknowledgement is
\* never given for a packet that was dropped.
AckedIsStored == Cardinality(DataBefore(current)) <= Len(stored)

\* The payloads of the session, one file behind the other.
Payloads ==
    [n \in 1 .. Cardinality(DataPackets) |->
        Script[CHOOSE i \in DataPackets : Cardinality(DataBefore(i)) = n - 1].data]

Transfer == INSTANCE FileTransfer

\* Memory receives the payloads in order, each once, and loadb returns with
\* all of them, whatever the line loses or garbles.
TransferSpec == Transfer!Spec

\* loadb returns when the other side goes on sending.
LoadbReturns == <>(~running)
=============================================================================
