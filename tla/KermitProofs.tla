---------------------------- MODULE KermitProofs ----------------------------
(***************************************************************************)
(* What is proved of the Kermit receiver, for sessions of any length, lines*)
(* of any length and any modulus above two.  The argument follows the      *)
(* index e of the packet that the receiver waits for.  It is never before  *)
(* the packet that the sender sends and never more than one ahead of it,   *)
(* everything on the line was sent around e, and everything the receiver   *)
(* keeps (its packet number, its handler and memory) follows from e.       *)
(***************************************************************************)
EXTENDS Kermit, NatLemmas

\* The handler that waits for each packet.
Reading == CHOOSE h \in Readings : Reads(h)

\* The number of the packet the receiver waits for.
SeqAt(e) == IF e = 1 THEN NoSeq ELSE (e - 1) % SeqMod

\* On the line to the receiver, while the sender sends packet c: the packet
\* the receiver waits for and the one before it, in this order.
Recent(e, c) == {Packet(i) : i \in {j \in 1 .. Len(Script) : j \in {e - 1, e} /\ j <= c}}
LineOK(line, e, c) ==
    /\ \A i \in 1 .. Len(line) : line[i] \in Recent(e, c) \cup {Garbled}
    /\ e \in 1 .. Len(Script) =>
          \A i, j \in 1 .. Len(line) :
             (i < j /\ line[i] = Packet(e)) => line[j] \in {Garbled, Packet(e)}

\* A reply that the receiver gives while it waits for packet e, and on the
\* line to the sender: replies given at the packet the sender sends, before
\* replies given after it was handled.
GivenAt(reply, e) ==
    \/ reply.type = "N" /\ reply.seq = SeqAt(e)
    \/ reply.type = "Y" /\ e > 1 /\ reply.seq = (e - 2) % SeqMod
RepliesOK(replies, e, c) ==
    /\ \A i \in 1 .. Len(replies) :
          \/ GivenAt(replies[i], c)
          \/ GivenAt(replies[i], c + 1) /\ e = c + 1
    /\ \A i, j \in 1 .. Len(replies) :
          (i < j /\ GivenAt(replies[i], c + 1)) => GivenAt(replies[j], c + 1)

\* Memory holds the payloads of the packets before e.
FileOK(file, e) ==
    /\ Len(file) = Cardinality(DataBefore(e))
    /\ \A n \in 1 .. Len(file) : file[n] = Payloads[n]

InvAt(e) ==
    /\ e \in 1 .. Len(Script) + 1
    /\ e \in {current, current + 1}
    /\ seq = SeqAt(e)
    /\ handler = Reading[e]
    /\ FileOK(stored, e)
    /\ LineOK(toRecv, e, current)
    /\ RepliesOK(toSend, e, current)
    /\ running \/ e = Len(Script) + 1

Inv == TypeOK /\ \E e \in 1 .. Len(Script) + 1 : InvAt(e)
-----------------------------------------------------------------------------
LEMMA SessionType ==
  /\ SeqMod \in Nat /\ SeqMod > 2 /\ SeqMod <= 64
  /\ LineMax \in Nat /\ LineMax > 0
  /\ Len(Script) \in Nat /\ Len(Script) > 0
  /\ \A i \in 1 .. Len(Script) : Script[i].data \in Nat
  /\ NoSeq = 255
<1> DEFINE R == [type : {"S", "F", "A", "D", "Z", "B"}, data : Nat]
<1>1. SeqMod \in Nat /\ SeqMod > 2 /\ SeqMod <= 64 /\ LineMax \in Nat \ {0} /\ Script \in Seq(R) /\ Script # <<>>
  BY KermitAssumption
<1>2. \A r \in R : r.data \in Nat
  OBVIOUS
<1> HIDE DEF R
<1>3. Len(Script) \in Nat /\ Len(Script) > 0 /\ \A i \in 1 .. Len(Script) : Script[i] \in R
  BY <1>1
<1>4. \A i \in 1 .. Len(Script) : Script[i].data \in Nat
  BY <1>2, <1>3
<1>5. LineMax \in Nat /\ LineMax > 0 /\ NoSeq = 255
  BY <1>1 DEF NoSeq
<1>6. QED
  BY <1>1, <1>3, <1>4, <1>5

LEMMA SeqType ==
  ASSUME NEW i \in Int PROVE i % SeqMod \in 0 .. SeqMod - 1
<1>1. SeqMod \in Nat \ {0}
  BY SessionType
<1>2. QED
  BY <1>1, DivMod

\* Neighbouring packets have different numbers, also where the numbers wrap.
LEMMA Neighbours ==
  ASSUME NEW i \in Int
  PROVE  /\ i % SeqMod # (i + 1) % SeqMod
         /\ i % SeqMod # (i + 2) % SeqMod
         /\ ((i % SeqMod) + 1) % SeqMod = (i + 1) % SeqMod
<1> DEFINE q == i \div SeqMod
           r == i % SeqMod
           M == SeqMod
<1>1. M \in Nat \ {0} /\ M > 2 /\ q \in Int /\ r \in 0 .. M - 1 /\ i = q * M + r
  <2>1. M \in Nat \ {0} /\ M > 2
    BY SessionType
  <2>2. q \in Int /\ r \in 0 .. M - 1 /\ i = q * M + r
    <3> HIDE DEF M
    <3>1. QED
      BY <2>1, DivMod DEF q, r, M
  <2>3. QED
    BY <2>1, <2>2
<1>2. \A k \in 0 .. 2 : r + k < M => (i + k) % M = r + k
  <2> HIDE DEF q, r, M
  <2>1. SUFFICES ASSUME NEW k \in 0 .. 2, r + k < M PROVE (i + k) % M = r + k
    OBVIOUS
  <2>2. i + k = q * M + (r + k) /\ r + k \in 0 .. M - 1
    BY <1>1, <2>1
  <2>3. QED
    BY <1>1, <2>2, DivModUnique
<1>3. \A k \in 0 .. 2 : r + k >= M => (i + k) % M = r + k - M
  <2> HIDE DEF q, r, M
  <2>1. SUFFICES ASSUME NEW k \in 0 .. 2, r + k >= M PROVE (i + k) % M = r + k - M
    OBVIOUS
  <2>2. i + k = (q + 1) * M + (r + k - M) /\ r + k - M \in 0 .. M - 1 /\ q + 1 \in Int
    BY <1>1, <2>1
  <2>3. QED
    BY <1>1, <2>2, DivModUnique
<1>4. (r + 1) % M = IF r + 1 < M THEN r + 1 ELSE 0
  <2> HIDE DEF q, r, M
  <2>1. CASE r + 1 < M
    <3>1. r + 1 = 0 * M + (r + 1) /\ r + 1 \in 0 .. M - 1
      BY <1>1, <2>1
    <3>2. QED
      BY <1>1, <2>1, <3>1, DivModUnique
  <2>2. CASE ~(r + 1 < M)
    <3>1. r + 1 = 1 * M + 0 /\ 0 \in 0 .. M - 1
      BY <1>1, <2>2
    <3>2. QED
      BY <1>1, <2>2, <3>1, DivModUnique
  <2>3. QED
    BY <2>1, <2>2
<1> HIDE DEF q, r, M
<1>5. /\ r # (i + 1) % M
      /\ r # (i + 2) % M
      /\ (r + 1) % M = (i + 1) % M
  <2>1. (i + 1) % M = IF r + 1 < M THEN r + 1 ELSE r + 1 - M
    BY <1>1, <1>2, <1>3
  <2>2. (i + 2) % M = IF r + 2 < M THEN r + 2 ELSE r + 2 - M
    BY <1>1, <1>2, <1>3
  <2>3. QED
    BY <1>1, <1>4, <2>1, <2>2
<1>6. QED
  BY <1>5 DEF r, M

\* Neighbours are told apart by what the receiver expects and by what it says.
LEMMA SeqAtFacts ==
  ASSUME NEW e \in Nat \ {0}
  PROVE  /\ SeqAt(e) \in 0 .. SeqMod - 1 \cup {NoSeq}
         /\ e > 1 => SeqAt(e) \in 0 .. SeqMod - 1 /\ SeqAt(e) = (e - 1) % SeqMod
         /\ e > 1 => (e - 2) % SeqMod # SeqAt(e)
         /\ SeqAt(e + 1) = e % SeqMod
         /\ SeqAt(e + 1) # SeqAt(e)
         /\ NextSeq((e - 1) % SeqMod) = SeqAt(e + 1)
<1>1. /\ (e - 1) % SeqMod \in 0 .. SeqMod - 1
      /\ (e - 2) % SeqMod \in 0 .. SeqMod - 1
      /\ e % SeqMod \in 0 .. SeqMod - 1
  BY SeqType
<1>2. /\ (e - 1) % SeqMod # e % SeqMod
      /\ (((e - 1) % SeqMod) + 1) % SeqMod = e % SeqMod
  <2>1. e - 1 \in Int /\ (e - 1) + 1 = e
    OBVIOUS
  <2>2. QED
    BY <2>1, Neighbours
<1>3. (e - 2) % SeqMod # (e - 1) % SeqMod
  <2>1. e - 2 \in Int /\ (e - 2) + 1 = e - 1
    OBVIOUS
  <2>2. QED
    BY <2>1, Neighbours
<1>4. e + 1 # 1 /\ (e + 1) - 1 = e
  OBVIOUS
<1>5. QED
  BY <1>1, <1>2, <1>3, <1>4, SessionType DEF SeqAt, NextSeq

LEMMA GivenApart ==
  ASSUME NEW e \in Nat \ {0}, NEW reply, GivenAt(reply, e)
  PROVE  ~GivenAt(reply, e + 1)
<1>1. (e + 1) - 2 = e - 1
  OBVIOUS
<1>2. e > 1 => (e - 2) % SeqMod # (e - 1) % SeqMod
  BY SeqAtFacts
<1>3. SeqAt(e + 1) # SeqAt(e)
  BY SeqAtFacts
<1>4. QED
  BY <1>1, <1>2, <1>3 DEF GivenAt

\* The sender takes for an acknowledgement what the receiver said after it
\* had handled the packet.
LEMMA AcknowledgesMeans ==
  ASSUME NEW reply, current \in Nat \ {0}
  PROVE  Acknowledges(reply) <=> GivenAt(reply, current + 1)
<1>1. (current + 1) - 2 = current - 1 /\ current + 1 > 1
  OBVIOUS
<1>2. SeqAt(current + 1) = current % SeqMod
  BY SeqAtFacts
<1>3. QED
  BY <1>1, <1>2 DEF GivenAt, Acknowledges

LEMMA PacketFacts ==
  ASSUME NEW i \in 1 .. Len(Script)
  PROVE  /\ Packet(i) \in Packets /\ Packet(i) # Garbled
         /\ Packet(i).seq = (i - 1) % SeqMod
         /\ Packet(i).seq \in 0 .. SeqMod - 1
         /\ Packet(i).type = Script[i].type
         /\ Packet(i).data = Script[i].data
         /\ Packet(i).data \in Nat
<1>1. Packet(i) \in Sent
  BY DEF Sent
<1>2. (i - 1) % SeqMod \in 0 .. SeqMod - 1
  BY SeqType, SMTT(30)
<1>3. QED
  BY <1>1, <1>2, GarbledAssumption, SessionType DEF Packet, Packets
-----------------------------------------------------------------------------
(* Type correctness.                                                       *)

LEMMA SendAckType ==
  ASSUME TypeOK, NEW type \in {"Y", "N"}, NEW s \in 0 .. SeqMod - 1 \cup {NoSeq},
         SendAck(type, s)
  PROVE  toSend' \in Seq(Replies) /\ Len(toSend') <= LineMax
<1>1. [type |-> type, seq |-> s] \in Replies
  BY DEF Replies
<1>2. QED
  BY <1>1, SessionType DEF TypeOK, SendAck

LEMMA IncomingType ==
  ASSUME TypeOK, Arrived
  PROVE  /\ Incoming \in Packets
         /\ Incoming # Garbled => \E i \in 1 .. Len(Script) : Incoming = Packet(i)
         /\ Tail(toRecv) \in Seq(Packets)
         /\ Len(Tail(toRecv)) <= LineMax
  BY SessionType DEF TypeOK, Arrived, Incoming, Packets, Sent

LEMMA TypeInductive == TypeOK /\ [Next]_vars => TypeOK'
<1> SUFFICES ASSUME TypeOK, [Next]_vars PROVE TypeOK'
  OBVIOUS
<1>1. CASE NakGarbled
  <2>1. toSend' \in Seq(Replies) /\ Len(toSend') <= LineMax
    BY <1>1, SendAckType DEF NakGarbled, TypeOK
  <2>2. QED
    BY <1>1, <2>1, IncomingType DEF NakGarbled, TypeOK
<1>2. CASE NakAhead
  <2>1. toSend' \in Seq(Replies) /\ Len(toSend') <= LineMax
    BY <1>2, SendAckType DEF NakAhead, TypeOK
  <2>2. QED
    BY <1>2, <2>1, IncomingType DEF NakAhead, TypeOK
<1>3. CASE AckOld
  <2>1. Incoming.seq \in 0 .. SeqMod - 1
    BY <1>3, IncomingType, PacketFacts DEF AckOld
  <2>2. toSend' \in Seq(Replies) /\ Len(toSend') <= LineMax
    BY <1>3, <2>1, SendAckType DEF AckOld, TypeOK
  <2>3. QED
    BY <1>3, <2>2, IncomingType DEF AckOld, TypeOK
<1>4. CASE Handle
  <2>1. Incoming.seq \in 0 .. SeqMod - 1 /\ Incoming.data \in Nat
    BY <1>4, IncomingType, PacketFacts DEF Handle
  <2>2. toSend' \in Seq(Replies) /\ Len(toSend') <= LineMax
    BY <1>4, <2>1, SendAckType DEF Handle, TypeOK
  <2>3. seq' \in 0 .. SeqMod - 1
    <3>1. Incoming.seq + 1 \in Int
      BY <2>1
    <3>2. QED
      BY <1>4, <3>1, SeqType DEF Handle, NextSeq
  <2>4. stored' \in Seq(Nat)
    BY <1>4, <2>1 DEF Handle, StoredAfter, TypeOK
  <2>5. handler' \in {"r", "rf", "rd"}
    BY <1>4 DEF Handle, HandlerAfter, TypeOK
  <2>6. QED
    BY <1>4, <2>2, <2>3, <2>4, <2>5, IncomingType DEF Handle, TypeOK
<1>5. CASE Transmit
  <2>1. current \in 1 .. Len(Script)
    BY <1>5, SessionType DEF Transmit, TypeOK
  <2>2. toRecv' \in Seq(Packets) /\ Len(toRecv') <= LineMax
    BY <1>5, <2>1, PacketFacts, SessionType DEF Transmit, TypeOK
  <2>3. QED
    BY <1>5, <2>2 DEF Transmit, TypeOK, receiver
<1>6. CASE TakeReply
  BY <1>6, SessionType DEF TakeReply, TypeOK, receiver
<1>7. CASE Lose
  <2>1. CASE toRecv # <<>> /\ toRecv' = Tail(toRecv) /\ UNCHANGED toSend
    BY <1>7, <2>1, SessionType DEF Lose, TypeOK, receiver
  <2>2. CASE toSend # <<>> /\ toSend' = Tail(toSend) /\ UNCHANGED toRecv
    BY <1>7, <2>2, SessionType DEF Lose, TypeOK, receiver
  <2>3. QED
    BY <1>7, <2>1, <2>2 DEF Lose
<1>8. CASE Garble
  <2>1. Garbled \in Packets
    BY DEF Packets
  <2>2. QED
    BY <1>8, <2>1, SessionType DEF Garble, TypeOK, receiver
<1>9. CASE UNCHANGED vars
  BY <1>9 DEF vars, TypeOK
<1>10. QED
  BY <1>1, <1>2, <1>3, <1>4, <1>5, <1>6, <1>7, <1>8, <1>9 DEF Next, Receive

LEMMA TypeInit == Init => TypeOK
  BY SessionType DEF Init, TypeOK

\* Every packet number, handler and reply of a session is one of the kinds
\* the receiver knows, and neither direction of the line overflows.
THEOREM TypeCorrect == Spec => []TypeOK
  BY TypeInit, TypeInductive, PTL DEF Spec
-----------------------------------------------------------------------------
(* The lines.                                                              *)

LEMMA LineTail ==
  ASSUME NEW line \in Seq(Packets), NEW e, NEW c, line # <<>>, LineOK(line, e, c)
  PROVE  LineOK(Tail(line), e, c)
<1>1. /\ Len(Tail(line)) = Len(line) - 1 /\ Len(line) \in Nat
      /\ \A i \in 1 .. Len(Tail(line)) : i + 1 \in 1 .. Len(line) /\ Tail(line)[i] = line[i + 1]
  OBVIOUS
<1>2. \A i, j \in 1 .. Len(Tail(line)) : i < j => i + 1 < j + 1
  BY <1>1
<1>3. QED
  BY <1>1, <1>2 DEF LineOK

LEMMA LineGarble ==
  ASSUME NEW line \in Seq(Packets), NEW e, NEW c, line # <<>>, LineOK(line, e, c)
  PROVE  LineOK([line EXCEPT ![1] = Garbled], e, c)
<1> DEFINE new == [line EXCEPT ![1] = Garbled]
<1>1. /\ Len(new) = Len(line) /\ Len(line) \in Nat
      /\ \A i \in 1 .. Len(line) : new[i] = line[i] \/ (i = 1 /\ new[i] = Garbled)
      /\ \A i \in 1 .. Len(line) : i # 1 => new[i] = line[i]
  OBVIOUS
<1> HIDE DEF new
<1>2. \A i, j \in 1 .. Len(new) : i < j => j # 1
  BY <1>1
<1>3. \A i \in 1 .. Len(new) : new[i] \in Recent(e, c) \cup {Garbled}
  BY <1>1 DEF LineOK
<1>4. ASSUME e \in 1 .. Len(Script), NEW i \in 1 .. Len(new), NEW j \in 1 .. Len(new),
             i < j, new[i] = Packet(e)
      PROVE  new[j] \in {Garbled, Packet(e)}
  <2>1. new[j] = line[j]
    BY <1>1, <1>2, <1>4
  <2>2. CASE new[i] = line[i]
    BY <1>1, <1>4, <2>1, <2>2 DEF LineOK
  <2>3. CASE i = 1 /\ new[i] = Garbled
    BY <1>4, <2>3, PacketFacts
  <2>4. QED
    BY <1>1, <2>2, <2>3
<1>5. QED
  BY <1>3, <1>4 DEF LineOK, new

LEMMA LineAppend ==
  ASSUME NEW line \in Seq(Packets), NEW e \in 1 .. Len(Script) + 1, NEW c \in 1 .. Len(Script),
         e \in {c, c + 1}, LineOK(line, e, c)
  PROVE  LineOK(Append(line, Packet(c)), e, c)
<1> DEFINE new == Append(line, Packet(c))
<1>1. /\ Len(new) = Len(line) + 1 /\ Len(line) \in Nat
      /\ \A i \in 1 .. Len(line) : new[i] = line[i]
      /\ new[Len(line) + 1] = Packet(c)
  BY PacketFacts
<1> HIDE DEF new
<1>2. Packet(c) \in Recent(e, c)
  <2>1. c \in {e - 1, e} /\ c <= c
    OBVIOUS
  <2>2. QED
    BY <2>1 DEF Recent
<1>3. \A i \in 1 .. Len(new) : new[i] \in Recent(e, c) \cup {Garbled}
  BY <1>1, <1>2 DEF LineOK
<1>4. ASSUME e \in 1 .. Len(Script), NEW i \in 1 .. Len(new), NEW j \in 1 .. Len(new),
             i < j, new[i] = Packet(e)
      PROVE  new[j] \in {Garbled, Packet(e)}
  <2>1. i \in 1 .. Len(line) /\ new[i] = line[i]
    BY <1>1, <1>4
  <2>2. CASE j \in 1 .. Len(line)
    BY <1>1, <1>4, <2>1, <2>2 DEF LineOK
  <2>3. CASE j = Len(line) + 1 /\ e = c
    BY <1>1, <2>3
  <2>4. CASE e = c + 1
    <3>1. line[i] \in Recent(e, c) \cup {Garbled}
      BY <2>1 DEF LineOK
    <3>2. PICK k \in 1 .. Len(Script) : line[i] = Packet(k) /\ k = e - 1
      <4>1. line[i] \in Recent(e, c)
        BY <1>4, <2>1, <3>1, PacketFacts
      <4>2. PICK k \in {j1 \in 1 .. Len(Script) : j1 \in {e - 1, e} /\ j1 <= c} : line[i] = Packet(k)
        BY <4>1 DEF Recent
      <4>3. k \in 1 .. Len(Script) /\ k = e - 1
        BY <2>4, <4>2
      <4>4. QED
        BY <4>2, <4>3
    <3>3. Packet(k) # Packet(e)
      <4>1. Packet(k).seq = (e - 2) % SeqMod /\ Packet(e).seq = (e - 1) % SeqMod
        <5>1. k - 1 = e - 2
          BY <3>2
        <5>2. QED
          BY <3>2, <1>4, <5>1, PacketFacts
      <4>2. (e - 2) % SeqMod # (e - 1) % SeqMod
        <5>1. e - 2 \in Int /\ (e - 2) + 1 = e - 1
          OBVIOUS
        <5>2. QED
          BY <5>1, Neighbours
      <4>3. QED
        BY <4>1, <4>2
    <3>4. QED
      BY <1>4, <2>1, <3>2, <3>3
  <2>5. QED
    BY <1>1, <2>2, <2>3, <2>4
<1>5. QED
  BY <1>3, <1>4 DEF LineOK, new

\* Once packet e has been handled, only packet e is left on the line.
LEMMA LineHandled ==
  ASSUME NEW line \in Seq(Packets), NEW e \in 1 .. Len(Script),
         line # <<>>, LineOK(line, e, e), line[1] = Packet(e)
  PROVE  LineOK(Tail(line), e + 1, e)
<1>1. /\ Len(Tail(line)) = Len(line) - 1 /\ Len(line) \in Nat
      /\ \A i \in 1 .. Len(Tail(line)) :
            i + 1 \in 1 .. Len(line) /\ 1 < i + 1 /\ Tail(line)[i] = line[i + 1]
      /\ 1 \in 1 .. Len(line)
  OBVIOUS
<1>2. \A i \in 1 .. Len(Tail(line)) : Tail(line)[i] \in {Garbled, Packet(e)}
  BY <1>1 DEF LineOK
<1>3. Packet(e) \in Recent(e + 1, e)
  <2>1. e \in {(e + 1) - 1, e + 1} /\ e <= e
    OBVIOUS
  <2>2. QED
    BY <2>1 DEF Recent
<1>4. e + 1 \in 1 .. Len(Script) => Packet(e + 1) \notin {Garbled, Packet(e)}
  <2>1. SUFFICES ASSUME e + 1 \in 1 .. Len(Script) PROVE Packet(e + 1) # Garbled /\ Packet(e + 1) # Packet(e)
    OBVIOUS
  <2>2. Packet(e + 1).seq = e % SeqMod /\ Packet(e).seq = (e - 1) % SeqMod
    <3>1. (e + 1) - 1 = e
      OBVIOUS
    <3>2. QED
      BY <2>1, <3>1, PacketFacts
  <2>3. e % SeqMod # (e - 1) % SeqMod
    <3>1. e - 1 \in Int /\ (e - 1) + 1 = e
      OBVIOUS
    <3>2. QED
      BY <3>1, Neighbours
  <2>4. QED
    BY <2>1, <2>2, <2>3, PacketFacts
<1>5. QED
  BY <1>1, <1>2, <1>3, <1>4 DEF LineOK

LEMMA RepliesTail ==
  ASSUME NEW replies \in Seq(Replies), NEW e, NEW c, replies # <<>>, RepliesOK(replies, e, c)
  PROVE  RepliesOK(Tail(replies), e, c)
<1>1. /\ Len(Tail(replies)) = Len(replies) - 1 /\ Len(replies) \in Nat
      /\ \A i \in 1 .. Len(Tail(replies)) :
            i + 1 \in 1 .. Len(replies) /\ Tail(replies)[i] = replies[i + 1]
  OBVIOUS
<1>2. \A i, j \in 1 .. Len(Tail(replies)) : i < j => i + 1 < j + 1
  BY <1>1
<1>3. QED
  BY <1>1, <1>2 DEF RepliesOK

\* Behind an acknowledgement of the current packet come only replies that were
\* given after it was handled.
LEMMA RepliesTaken ==
  ASSUME NEW replies \in Seq(Replies), NEW c \in Nat \ {0}, replies # <<>>,
         RepliesOK(replies, c + 1, c), GivenAt(replies[1], c + 1)
  PROVE  RepliesOK(Tail(replies), c + 1, c + 1)
<1>1. /\ Len(Tail(replies)) = Len(replies) - 1 /\ Len(replies) \in Nat
      /\ \A i \in 1 .. Len(Tail(replies)) :
            i + 1 \in 1 .. Len(replies) /\ 1 < i + 1 /\ Tail(replies)[i] = replies[i + 1]
      /\ 1 \in 1 .. Len(replies)
  OBVIOUS
<1>2. \A i \in 1 .. Len(Tail(replies)) : GivenAt(Tail(replies)[i], c + 1)
  BY <1>1 DEF RepliesOK
<1>3. \A i \in 1 .. Len(Tail(replies)) : ~GivenAt(Tail(replies)[i], (c + 1) + 1)
  BY <1>2, GivenApart
<1>4. QED
  BY <1>2, <1>3 DEF RepliesOK

\* A reply given at e goes behind the others; e may just have become c + 1.
LEMMA RepliesAppend ==
  ASSUME NEW replies \in Seq(Replies), NEW c \in Nat \ {0}, NEW e \in {c, c + 1},
         NEW before \in {c, e}, NEW reply \in Replies,
         RepliesOK(replies, before, c), GivenAt(reply, e)
  PROVE  RepliesOK(Append(replies, reply), e, c)
<1> DEFINE new == Append(replies, reply)
<1>1. /\ Len(new) = Len(replies) + 1 /\ Len(replies) \in Nat
      /\ \A i \in 1 .. Len(replies) : new[i] = replies[i]
      /\ new[Len(replies) + 1] = reply
  OBVIOUS
<1> HIDE DEF new
<1>2. \A i \in 1 .. Len(new) : GivenAt(new[i], c) \/ (GivenAt(new[i], c + 1) /\ e = c + 1)
  BY <1>1 DEF RepliesOK
<1>3. e = c => \A i \in 1 .. Len(new) : ~GivenAt(new[i], c + 1)
  BY <1>2, GivenApart
<1>4. e = c + 1 => GivenAt(new[Len(replies) + 1], c + 1)
  BY <1>1
<1>5. ASSUME NEW i \in 1 .. Len(new), NEW j \in 1 .. Len(new), i < j, GivenAt(new[i], c + 1)
      PROVE  GivenAt(new[j], c + 1)
  <2>1. i \in 1 .. Len(replies) /\ e = c + 1
    BY <1>1, <1>3, <1>5
  <2>2. CASE j \in 1 .. Len(replies)
    BY <1>1, <1>5, <2>1, <2>2 DEF RepliesOK
  <2>3. CASE j = Len(replies) + 1
    BY <1>4, <2>1, <2>3
  <2>4. QED
    BY <1>1, <2>2, <2>3
<1>6. QED
  BY <1>2, <1>5 DEF RepliesOK, new

LEMMA RepliesLater ==
  ASSUME NEW replies, NEW c \in Nat \ {0}, NEW e \in {c, c + 1}, RepliesOK(replies, c, c)
  PROVE  RepliesOK(replies, e, c)
  BY DEF RepliesOK
-----------------------------------------------------------------------------
(* Memory.                                                                 *)

LEMMA DataBeforeFacts ==
  /\ IsFiniteSet(DataPackets)
  /\ \A i \in Nat : /\ IsFiniteSet(DataBefore(i))
                    /\ Cardinality(DataBefore(i)) \in Nat
                    /\ Cardinality(DataBefore(i)) <= Cardinality(DataPackets)
  /\ Cardinality(DataPackets) \in Nat
<1>1. IsFiniteSet(DataPackets)
  <2>1. IsFiniteSet(1 .. Len(Script))
    BY SessionType, FS_Interval
  <2>2. DataPackets \subseteq 1 .. Len(Script)
    BY DEF DataPackets
  <2>3. QED
    BY <2>1, <2>2, FS_Subset
<1>2. \A i \in Nat : DataBefore(i) \subseteq DataPackets
  BY DEF DataBefore
<1>3. QED
  BY <1>1, <1>2, FS_Subset, FS_CardinalityType

LEMMA DataBeforeNext ==
  ASSUME NEW e \in 1 .. Len(Script)
  PROVE  Cardinality(DataBefore(e + 1)) =
           IF e \in DataPackets THEN Cardinality(DataBefore(e)) + 1
                                ELSE Cardinality(DataBefore(e))
<1>1. \A k \in DataPackets : k \in Nat
  BY DEF DataPackets
<1>2. e \in Nat
  OBVIOUS
<1>3. \A k \in DataPackets : k < e + 1 <=> k < e \/ k = e
  BY <1>1, <1>2
<1>4. CASE e \in DataPackets
  <2>1. DataBefore(e + 1) = DataBefore(e) \cup {e} /\ e \notin DataBefore(e)
    <3>1. \A i, k : k \in DataBefore(i) <=> k \in DataPackets /\ k < i
      BY DEF DataBefore
    <3>2. \A k : k \in DataBefore(e + 1) <=> k \in DataBefore(e) \/ k = e
      BY <1>3, <1>4, <3>1
    <3>3. ~(e < e)
      BY <1>2
    <3>4. QED
      BY <3>1, <3>2, <3>3
  <2>2. QED
    BY <1>2, <1>4, <2>1, DataBeforeFacts, FS_AddElement
<1>5. CASE e \notin DataPackets
  <2>1. DataBefore(e + 1) = DataBefore(e)
    BY <1>2, <1>3, <1>5 DEF DataBefore
  <2>2. QED
    BY <1>5, <2>1
<1>6. QED
  BY <1>4, <1>5

\* The data packets are told apart by how many come before them.
LEMMA DataRank ==
  ASSUME NEW i \in DataPackets, NEW k \in DataPackets, i < k
  PROVE  Cardinality(DataBefore(i)) < Cardinality(DataBefore(k))
<1>1. i \in 1 .. Len(Script) /\ i \in Nat /\ k \in Nat
  BY DEF DataPackets
<1>2. Cardinality(DataBefore(i + 1)) = Cardinality(DataBefore(i)) + 1
  BY <1>1, DataBeforeNext
<1>3. DataBefore(i + 1) \subseteq DataBefore(k)
  <2>1. \A m \in DataPackets : m < i + 1 => m < k
    <3>1. \A m \in DataPackets : m \in Nat
      BY DEF DataPackets
    <3>2. QED
      BY <1>1, <3>1
  <2>2. QED
    BY <2>1 DEF DataBefore
<1>4. Cardinality(DataBefore(i + 1)) <= Cardinality(DataBefore(k))
  BY <1>1, <1>3, DataBeforeFacts, FS_Subset
<1>5. QED
  BY <1>1, <1>2, <1>4, DataBeforeFacts

LEMMA PayloadAt ==
  ASSUME NEW e \in DataPackets
  PROVE  /\ Cardinality(DataBefore(e)) + 1 \in 1 .. Cardinality(DataPackets)
         /\ Payloads[Cardinality(DataBefore(e)) + 1] = Script[e].data
<1>1. e \in 1 .. Len(Script) /\ e \in Nat /\ e + 1 \in Nat
  BY DEF DataPackets
<1> DEFINE n == Cardinality(DataBefore(e)) + 1
<1>2. n \in 1 .. Cardinality(DataPackets)
  <2>1. Cardinality(DataBefore(e + 1)) = Cardinality(DataBefore(e)) + 1
    BY <1>1, DataBeforeNext
  <2>2. QED
    BY <1>1, <2>1, DataBeforeFacts
<1>3. n - 1 = Cardinality(DataBefore(e))
  BY <1>1, DataBeforeFacts
<1> HIDE DEF n
<1>4. \A i \in DataPackets : Cardinality(DataBefore(i)) = n - 1 => i = e
  <2>1. \A i \in DataPackets : i \in Nat /\ Cardinality(DataBefore(i)) \in Nat
    BY DataBeforeFacts DEF DataPackets
  <2>2. SUFFICES ASSUME NEW i \in DataPackets, Cardinality(DataBefore(i)) = n - 1, i # e
                 PROVE  FALSE
    OBVIOUS
  <2>3. i < e \/ e < i
    BY <1>1, <2>1, <2>2
  <2>4. Cardinality(DataBefore(i)) < Cardinality(DataBefore(e)) \/ Cardinality(DataBefore(e)) < Cardinality(DataBefore(i))
    BY <2>3, DataRank
  <2>5. QED
    BY <1>3, <2>1, <2>2, <2>4
<1>5. (CHOOSE i \in DataPackets : Cardinality(DataBefore(i)) = n - 1) = e
  BY <1>3, <1>4
<1>6. Payloads[n] = Script[e].data
  BY <1>2, <1>5 DEF Payloads
<1>7. QED
  BY <1>2, <1>6 DEF n

LEMMA FileOther ==
  ASSUME NEW file, NEW e \in 1 .. Len(Script), e \notin DataPackets, FileOK(file, e)
  PROVE  FileOK(file, e + 1)
  BY DataBeforeNext DEF FileOK

LEMMA FileData ==
  ASSUME NEW file \in Seq(Nat), NEW e \in DataPackets, FileOK(file, e)
  PROVE  FileOK(Append(file, Script[e].data), e + 1)
<1>1. e \in 1 .. Len(Script)
  BY DEF DataPackets
<1>2. Script[e].data \in Nat
  BY <1>1, SessionType
<1> DEFINE new == Append(file, Script[e].data)
<1>3. /\ Len(new) = Len(file) + 1 /\ Len(file) \in Nat
      /\ \A n \in 1 .. Len(file) : new[n] = file[n]
      /\ new[Len(file) + 1] = Script[e].data
  BY <1>2
<1> HIDE DEF new
<1>4. Len(new) = Cardinality(DataBefore(e + 1))
  BY <1>1, <1>3, DataBeforeNext DEF FileOK
<1>5. \A n \in 1 .. Len(new) : new[n] = Payloads[n]
  <2>1. Payloads[Len(file) + 1] = Script[e].data
    BY PayloadAt DEF FileOK
  <2>2. \A n \in 1 .. Len(file) : new[n] = Payloads[n]
    BY <1>3 DEF FileOK
  <2>3. \A n \in 1 .. Len(new) : n \in 1 .. Len(file) \/ n = Len(file) + 1
    BY <1>3
  <2>4. QED
    BY <1>3, <2>1, <2>2, <2>3
<1>6. QED
  BY <1>4, <1>5 DEF FileOK, new

\* All of it is there when the receiver is past the last packet.
LEMMA FileWhole ==
  ASSUME NEW file \in Seq(Nat), FileOK(file, Len(Script) + 1)
  PROVE  file = Payloads
<1>1. DataBefore(Len(Script) + 1) = DataPackets
  BY SessionType DEF DataBefore, DataPackets
<1>2. Len(file) = Cardinality(DataPackets)
  BY <1>1 DEF FileOK
<1>3. file = [n \in 1 .. Len(file) |-> file[n]]
  OBVIOUS
<1>4. \A n \in 1 .. Len(file) : file[n] = Payloads[n]
  BY DEF FileOK
<1>5. Payloads = [n \in 1 .. Cardinality(DataPackets) |-> Payloads[n]]
  BY DEF Payloads
<1> HIDE DEF FileOK
<1>6. QED
  BY <1>2, <1>3, <1>4, <1>5
-----------------------------------------------------------------------------
(* The inductive invariant.                                                *)

LEMMA ReadingFacts ==
  /\ Reading \in Readings /\ Reads(Reading)
  /\ Reading[1] = "r"
  /\ \A i \in 1 .. Len(Script) :
        \/ Script[i].type = "S" /\ Reading[i] = "r"  /\ Reading[i + 1] = "rf"
        \/ Script[i].type = "F" /\ Reading[i] = "rf" /\ Reading[i + 1] = "rd"
        \/ Script[i].type \in {"A", "D"} /\ Reading[i] = "rd" /\ Reading[i + 1] = "rd"
        \/ Script[i].type = "Z" /\ Reading[i] = "rd" /\ Reading[i + 1] = "rf"
        \/ /\ Script[i].type = "B" /\ Reading[i] = "rf" /\ Reading[i + 1] = "rf"
           /\ i = Len(Script)
<1>1. Reading \in Readings /\ Reads(Reading)
  BY SessionAssumption DEF Reading
<1>2. QED
  BY <1>1 DEF Reads

LEMMA InvInit == Init => Inv
<1> SUFFICES ASSUME Init PROVE Inv
  OBVIOUS
<1>1. DataBefore(1) = {}
  BY SessionType DEF DataBefore, DataPackets
<1>2. FileOK(stored, 1)
  BY <1>1, FS_EmptySet DEF FileOK, Init
<1>3. LineOK(toRecv, 1, current) /\ RepliesOK(toSend, 1, current)
  BY DEF Init, LineOK, RepliesOK
<1>4. InvAt(1)
  BY <1>2, <1>3, ReadingFacts, SessionType DEF InvAt, Init, SeqAt
<1>5. 1 \in 1 .. Len(Script) + 1
  BY SessionType
<1>6. QED
  BY <1>4, <1>5, TypeInit DEF Inv

\* What the receiver waits for, and what it makes of a packet on the line.
LEMMA Told ==
  ASSUME TypeOK, NEW e \in 1 .. Len(Script) + 1, InvAt(e), Arrived, Incoming # Garbled
  PROVE  /\ SeqMatches(Incoming) =>
              e \in 1 .. Len(Script) /\ current = e /\ Incoming = Packet(e)
         /\ ~SeqMatches(Incoming) => e > 1 /\ Incoming = Packet(e - 1)
         /\ Incoming = toRecv[1]
<1>1. Incoming = toRecv[1] /\ 1 \in 1 .. Len(toRecv)
  BY DEF TypeOK, Arrived, Incoming
<1>2. Incoming \in Recent(e, current)
  BY <1>1 DEF InvAt, LineOK
<1>3. PICK k \in {j \in 1 .. Len(Script) : j \in {e - 1, e} /\ j <= current} : Incoming = Packet(k)
  BY <1>2 DEF Recent
<1>4. k \in 1 .. Len(Script) /\ k \in {e - 1, e} /\ k <= current /\ current \in {e - 1, e} /\ e \in Nat \ {0}
  BY SessionType DEF InvAt, TypeOK
<1>5. Incoming.seq = (k - 1) % SeqMod /\ Incoming.seq \in 0 .. SeqMod - 1
  BY <1>3, <1>4, PacketFacts
<1>6. CASE e = 1
  <2>1. k = e /\ current = e
    BY <1>4, <1>6
  <2>2. SeqMatches(Incoming)
    BY <1>6 DEF InvAt, SeqAt, SeqMatches, Expected
  <2>3. QED
    BY <1>1, <1>3, <1>4, <2>1, <2>2
<1>7. CASE e > 1
  <2>1. seq = (e - 1) % SeqMod /\ seq # NoSeq /\ seq # (e - 2) % SeqMod
    BY <1>4, <1>7, SeqAtFacts, SessionType DEF InvAt
  <2>2. CASE k = e
    <3>1. SeqMatches(Incoming) /\ current = e
      BY <1>4, <1>5, <2>1, <2>2 DEF SeqMatches, Expected
    <3>2. QED
      BY <1>1, <1>3, <1>4, <2>2, <3>1
  <2>3. CASE k = e - 1
    <3>1. k - 1 = e - 2
      BY <1>4, <2>3
    <3>2. ~SeqMatches(Incoming)
      BY <1>5, <2>1, <3>1 DEF SeqMatches, Expected
    <3>3. QED
      BY <1>1, <1>3, <1>7, <2>3, <3>2
  <2>4. QED
    BY <1>4, <2>2, <2>3
<1>8. QED
  BY <1>4, <1>6, <1>7

LEMMA SendAckOK ==
  ASSUME TypeOK, current' = current, NEW e \in {current, current + 1},
         NEW before \in {current, e}, RepliesOK(toSend, before, current),
         NEW type \in {"Y", "N"}, NEW s \in 0 .. SeqMod - 1 \cup {NoSeq},
         SendAck(type, s), GivenAt([type |-> type, seq |-> s], e)
  PROVE  RepliesOK(toSend', e, current')
<1> DEFINE reply == [type |-> type, seq |-> s]
<1>1. reply \in Replies /\ current \in Nat \ {0} /\ toSend \in Seq(Replies)
  BY SessionType DEF Replies, TypeOK
<1>2. RepliesOK(toSend, e, current)
  BY <1>1, RepliesLater
<1>3. CASE toSend' = Append(toSend, reply)
  BY <1>1, <1>3, RepliesAppend
<1>4. CASE toSend' = toSend
  BY <1>2, <1>4
<1>5. QED
  BY <1>3, <1>4 DEF SendAck

\* The packet that was waited for is handled.
LEMMA HandleStep ==
  ASSUME TypeOK, NEW e \in 1 .. Len(Script) + 1, InvAt(e), Handle
  PROVE  /\ e \in 1 .. Len(Script) /\ current = e /\ Incoming = Packet(e)
         /\ InvAt(e + 1)'
         /\ running' <=> Script[e].type # "B"
         /\ stored' = IF e \in DataPackets THEN Append(stored, Script[e].data) ELSE stored
<1>1. e \in 1 .. Len(Script) /\ current = e /\ Incoming = Packet(e) /\ Incoming = toRecv[1]
  BY Told DEF Handle
<1>2. e \in Nat \ {0} /\ e + 1 \in 1 .. Len(Script) + 1 /\ current' = e
  BY <1>1, SessionType DEF Handle
<1>3. /\ Incoming.seq = (e - 1) % SeqMod /\ Incoming.seq \in 0 .. SeqMod - 1
      /\ Incoming.type = Script[e].type /\ Incoming.data = Script[e].data
  BY <1>1, PacketFacts
<1>4. handler = Reading[e]
  BY DEF InvAt
<1>5. seq' = SeqAt(e + 1)
  BY <1>2, <1>3, SeqAtFacts DEF Handle
<1>6. handler' = Reading[e + 1]
  BY <1>1, <1>3, <1>4, ReadingFacts DEF Handle, HandlerAfter
<1>7. running' <=> Script[e].type # "B"
  BY <1>1, <1>3, <1>4, ReadingFacts DEF Handle
<1>8. stored' = IF e \in DataPackets THEN Append(stored, Script[e].data) ELSE stored
  BY <1>1, <1>3, <1>4, ReadingFacts DEF Handle, StoredAfter, DataPackets
<1>9. FileOK(stored', e + 1)
  BY <1>1, <1>8, FileOther, FileData DEF InvAt, TypeOK
<1>10. LineOK(toRecv', e + 1, current')
  BY <1>1, <1>2, LineHandled DEF Handle, Arrived, InvAt, TypeOK
<1>11. RepliesOK(toSend', e + 1, current')
  <2>1. GivenAt([type |-> "Y", seq |-> Incoming.seq], e + 1)
    <3>1. e + 1 > 1 /\ (e + 1) - 2 = e - 1
      BY <1>2
    <3>2. QED
      BY <1>3, <3>1 DEF GivenAt
  <2>2. QED
    BY <1>1, <1>2, <1>3, <2>1, SendAckOK DEF Handle, InvAt
<1>12. running' \/ e + 1 = Len(Script) + 1
  BY <1>1, <1>7, ReadingFacts
<1>13. QED
  BY <1>1, <1>2, <1>5, <1>6, <1>7, <1>8, <1>9, <1>10, <1>11, <1>12 DEF InvAt

\* Every other step leaves the receiver waiting for the same packet.
LEMMA StayStep ==
  ASSUME TypeOK, NEW e \in 1 .. Len(Script) + 1, InvAt(e), [Next]_vars, ~Handle
  PROVE  InvAt(e)' /\ running' = running /\ stored' = stored
<1>1. e \in Nat \ {0} /\ e \in {current, current + 1} /\ current \in Nat \ {0}
      /\ seq = SeqAt(e) /\ SeqAt(e) \in 0 .. SeqMod - 1 \cup {NoSeq}
      /\ toRecv \in Seq(Packets) /\ toSend \in Seq(Replies)
      /\ LineOK(toRecv, e, current) /\ RepliesOK(toSend, e, current)
  <2>1. e \in Nat \ {0} /\ current \in Nat \ {0} /\ toRecv \in Seq(Packets) /\ toSend \in Seq(Replies)
    BY SessionType DEF TypeOK
  <2>2. SeqAt(e) \in 0 .. SeqMod - 1 \cup {NoSeq}
    BY <2>1, SeqAtFacts
  <2>3. QED
    BY <2>1, <2>2 DEF InvAt
<1>2. CASE NakGarbled
  <2>1. RepliesOK(toSend', e, current')
    BY <1>1, <1>2, SendAckOK DEF NakGarbled, GivenAt
  <2>2. LineOK(toRecv', e, current')
    BY <1>1, <1>2, LineTail DEF NakGarbled, Arrived
  <2>3. QED
    BY <1>2, <2>1, <2>2 DEF NakGarbled, InvAt
<1>3. CASE NakAhead
  <2>1. RepliesOK(toSend', e, current')
    BY <1>1, <1>3, SendAckOK DEF NakAhead, GivenAt
  <2>2. LineOK(toRecv', e, current')
    BY <1>1, <1>3, LineTail DEF NakAhead, Arrived
  <2>3. QED
    BY <1>3, <2>1, <2>2 DEF NakAhead, InvAt
<1>4. CASE AckOld
  <2>1. e > 1 /\ Incoming = Packet(e - 1)
    BY <1>4, Told DEF AckOld
  <2>2. Incoming.seq = (e - 2) % SeqMod /\ Incoming.seq \in 0 .. SeqMod - 1
    <3>1. e - 1 \in 1 .. Len(Script) /\ (e - 1) - 1 = e - 2
      BY <1>1, <2>1, SessionType
    <3>2. QED
      BY <2>1, <3>1, PacketFacts
  <2>3. RepliesOK(toSend', e, current')
    BY <1>1, <1>4, <2>1, <2>2, SendAckOK DEF AckOld, GivenAt
  <2>4. LineOK(toRecv', e, current')
    BY <1>1, <1>4, LineTail DEF AckOld, Arrived
  <2>5. QED
    BY <1>4, <2>3, <2>4 DEF AckOld, InvAt
<1>5. CASE Transmit
  <2>1. current \in 1 .. Len(Script)
    BY <1>1, <1>5, SessionType DEF Transmit
  <2>2. LineOK(toRecv', e, current')
    BY <1>1, <1>5, <2>1, LineAppend DEF Transmit
  <2>3. QED
    BY <1>5, <2>2 DEF Transmit, receiver, InvAt
<1>6. CASE TakeReply
  <2>1. UNCHANGED receiver /\ UNCHANGED toRecv /\ toSend' = Tail(toSend) /\ toSend # <<>>
        /\ Head(toSend) = toSend[1] /\ 1 \in 1 .. Len(toSend) /\ current <= Len(Script)
    BY <1>1, <1>6 DEF TakeReply
  <2>2. CASE Acknowledges(Head(toSend))
    <3>1. GivenAt(toSend[1], current + 1)
      BY <1>1, <2>1, <2>2, AcknowledgesMeans
    <3>2. e = current + 1
      BY <1>1, <2>1, <3>1, GivenApart DEF RepliesOK
    <3>3. current' = e
      BY <1>6, <2>2, <3>2 DEF TakeReply
    <3>4. RepliesOK(toSend', e, current')
      BY <1>1, <2>1, <3>1, <3>2, <3>3, RepliesTaken
    <3>5. LineOK(toRecv, e, e)
      <4>1. Recent(e, current) \subseteq Recent(e, e)
        <5>1. \A j : j \in 1 .. Len(Script) /\ j <= current => j <= e
          BY <1>1, <3>2, SessionType
        <5>2. QED
          BY <5>1 DEF Recent
      <4>2. QED
        BY <1>1, <4>1 DEF LineOK
    <3>6. QED
      BY <2>1, <3>3, <3>4, <3>5 DEF InvAt, receiver
  <2>3. CASE ~Acknowledges(Head(toSend))
    <3>1. current' = current
      BY <1>6, <2>3 DEF TakeReply
    <3>2. RepliesOK(toSend', e, current')
      BY <1>1, <2>1, <3>1, RepliesTail
    <3>3. QED
      BY <2>1, <3>1, <3>2 DEF InvAt, receiver
  <2>4. QED
    BY <2>2, <2>3
<1>7. CASE Lose
  <2>1. CASE toRecv # <<>> /\ toRecv' = Tail(toRecv) /\ UNCHANGED toSend
    <3>1. LineOK(toRecv', e, current)
      BY <1>1, <2>1, LineTail
    <3>2. QED
      BY <1>7, <2>1, <3>1 DEF Lose, receiver, InvAt
  <2>2. CASE toSend # <<>> /\ toSend' = Tail(toSend) /\ UNCHANGED toRecv
    <3>1. RepliesOK(toSend', e, current)
      BY <1>1, <2>2, RepliesTail
    <3>2. QED
      BY <1>7, <2>2, <3>1 DEF Lose, receiver, InvAt
  <2>3. QED
    BY <1>7, <2>1, <2>2 DEF Lose
<1>8. CASE Garble
  <2>1. LineOK(toRecv', e, current)
    BY <1>1, <1>8, LineGarble DEF Garble
  <2>2. QED
    BY <1>8, <2>1 DEF Garble, receiver, InvAt
<1>9. CASE UNCHANGED vars
  BY <1>9 DEF vars, InvAt
<1>10. QED
  BY <1>2, <1>3, <1>4, <1>5, <1>6, <1>7, <1>8, <1>9 DEF Next, Receive

LEMMA InvInductive == Inv /\ [Next]_vars => Inv'
<1> SUFFICES ASSUME Inv, [Next]_vars PROVE Inv'
  OBVIOUS
<1>1. PICK e \in 1 .. Len(Script) + 1 : InvAt(e)
  BY DEF Inv
<1>2. TypeOK /\ TypeOK'
  BY TypeInductive DEF Inv
<1>3. \E d \in 1 .. Len(Script) + 1 : InvAt(d)'
  <2>1. CASE Handle
    <3>1. e \in 1 .. Len(Script) /\ InvAt(e + 1)'
      BY <1>1, <1>2, <2>1, HandleStep
    <3>2. e + 1 \in 1 .. Len(Script) + 1
      BY <3>1, SessionType
    <3>3. QED
      BY <3>1, <3>2
  <2>2. CASE ~Handle
    BY <1>1, <1>2, <2>2, StayStep
  <2>3. QED
    BY <2>1, <2>2
<1>4. QED
  BY <1>2, <1>3 DEF Inv

LEMMA InvHolds == Spec => []Inv
  BY InvInit, InvInductive, PTL DEF Spec
-----------------------------------------------------------------------------
(* The theorems.                                                           *)

\* The receiver waits for the packet the sender sends or for the one after
\* it, whatever the line loses and garbles and however long the session is:
\* packet numbers that wrap around are never mistaken for each other.
THEOREM InStepCorrect == Spec => []InStep
<1>1. Inv => InStep
  <2> SUFFICES ASSUME Inv, seq # NoSeq
               PROVE  seq \in {(current - 1) % SeqMod, current % SeqMod}
    BY DEF InStep
  <2>1. PICK e \in 1 .. Len(Script) + 1 : InvAt(e)
    BY DEF Inv
  <2>2. e # 1 /\ seq = (e - 1) % SeqMod /\ e \in {current, current + 1} /\ current \in Nat
    <3>1. seq = SeqAt(e) /\ e \in {current, current + 1}
      BY <2>1 DEF InvAt
    <3>2. current \in Nat
      BY SessionType DEF Inv, TypeOK
    <3>3. QED
      BY <3>1, <3>2 DEF SeqAt
  <2>3. e - 1 = current - 1 \/ e - 1 = current
    BY <2>2
  <2>4. QED
    BY <2>2, <2>3
<1>2. QED
  BY <1>1, InvHolds, PTL

\* No packet that the sender takes for acknowledged is missing in memory.
THEOREM AckedIsStoredCorrect == Spec => []AckedIsStored
<1>1. Inv => AckedIsStored
  <2> SUFFICES ASSUME Inv PROVE Cardinality(DataBefore(current)) <= Len(stored)
    BY DEF AckedIsStored
  <2>1. PICK e \in 1 .. Len(Script) + 1 : InvAt(e)
    BY DEF Inv
  <2>2. Len(stored) = Cardinality(DataBefore(e)) /\ e \in {current, current + 1}
        /\ e \in Nat /\ current \in Nat
    BY <2>1, SessionType DEF InvAt, FileOK, Inv, TypeOK
  <2>3. DataBefore(current) \subseteq DataBefore(e)
    <3>1. \A k \in DataPackets : k \in Nat
      BY DEF DataPackets
    <3>2. \A k \in DataPackets : k < current => k < e
      BY <2>2, <3>1
    <3>3. QED
      BY <3>2 DEF DataBefore
  <2>4. Cardinality(DataBefore(current)) <= Cardinality(DataBefore(e))
    BY <2>2, <2>3, DataBeforeFacts, FS_Subset
  <2>5. QED
    BY <2>2, <2>4
<1>2. QED
  BY <1>1, InvHolds, PTL

\* What loadb leaves in memory: every step of the receiver, the sender and the
\* line is a step of FileTransfer or leaves its variables alone.
THEOREM TransferRefined == Spec => TransferSpec
<1>1. Init => Transfer!Init
  BY DEF Init, Transfer!Init
<1>2. Inv /\ [Next]_vars => [Transfer!Next]_<<stored, running>>
  <2> SUFFICES ASSUME Inv, [Next]_vars
               PROVE  Transfer!Next \/ UNCHANGED <<stored, running>>
    OBVIOUS
  <2>1. PICK e \in 1 .. Len(Script) + 1 : InvAt(e)
    BY DEF Inv
  <2>2. CASE ~Handle
    BY <2>1, <2>2, StayStep DEF Inv
  <2>3. CASE Handle
    <3>1. /\ e \in 1 .. Len(Script) /\ InvAt(e + 1)'
          /\ running' <=> Script[e].type # "B"
          /\ stored' = IF e \in DataPackets THEN Append(stored, Script[e].data) ELSE stored
      BY <2>1, <2>3, HandleStep DEF Inv
    <3>2. running = TRUE /\ running' \in BOOLEAN /\ stored \in Seq(Nat)
      BY <2>3, TypeInductive DEF Handle, Arrived, Inv, TypeOK
    <3>3. CASE e \in DataPackets
      <4>1. /\ Len(stored) + 1 \in 1 .. Cardinality(DataPackets)
            /\ Payloads[Len(stored) + 1] = Script[e].data
        BY <2>1, <3>3, PayloadAt DEF InvAt, FileOK
      <4>2. Script[e].type # "B"
        BY <3>3 DEF DataPackets
      <4>3. Len(Payloads) = Cardinality(DataPackets) /\ Len(stored) \in Nat
        <5>1. Cardinality(DataPackets) \in Nat
          BY DataBeforeFacts
        <5>2. Len(Payloads) = Cardinality(DataPackets)
          BY <5>1 DEF Payloads
        <5>3. QED
          BY <3>2, <5>2
      <4>4. running' = running
        BY <3>1, <3>2, <4>2
      <4>5. Len(stored) < Len(Payloads)
        BY <4>1, <4>3, DataBeforeFacts
      <4>6. Transfer!Store
        BY <3>1, <3>2, <3>3, <4>1, <4>4, <4>5 DEF Transfer!Store
      <4>7. QED
        BY <4>6 DEF Transfer!Next
    <3>4. CASE Script[e].type = "B"
      <4>1. e = Len(Script) /\ e \notin DataPackets
        BY <3>1, <3>4, ReadingFacts DEF DataPackets
      <4>2. FileOK(stored, e + 1)
        BY <2>1, <3>1, <4>1, FileOther DEF InvAt
      <4>3. stored = Payloads
        BY <3>2, <4>1, <4>2, FileWhole
      <4>4. Transfer!Finish
        BY <3>1, <3>2, <3>4, <4>1, <4>3 DEF Transfer!Finish
      <4>5. QED
        BY <4>4 DEF Transfer!Next
    <3>5. CASE e \notin DataPackets /\ Script[e].type # "B"
      BY <3>1, <3>2, <3>5
    <3>6. QED
      BY <3>3, <3>4, <3>5
  <2>4. QED
    BY <2>2, <2>3
<1>3. QED
  BY <1>1, <1>2, InvHolds, PTL DEF Spec, TransferSpec, Transfer!Spec
=============================================================================
