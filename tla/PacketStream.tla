---------------------------- MODULE PacketStream -----------------------------
(***************************************************************************)
(* Packets sent over a connection (erhe/net/socket.cpp): send() queues a    *)
(* header and a payload in the send buffer of one end, send_pending()       *)
(* passes to the operating system what it takes, recv() of the other end    *)
(* collects what has arrived and gives whole packets to a handler.          *)
(*                                                                         *)
(* The two directions of a connection are alike and share nothing but the   *)
(* state of the two sockets: this is one direction of a connection that is  *)
(* established. The bytes under way, wire, are kept by the operating        *)
(* system: it takes and gives any part of what is asked for. The header is  *)
(* two bytes here, the magic and the length.                                *)
(***************************************************************************)
EXTENDS ByteRing, FiniteSets, SequencesExt

CONSTANTS
  Lengths,      \* of the messages
  WireSize,     \* how many bytes the operating system holds
  MaxPackets    \* bound: packets sent on the connection

ASSUME LengthsAssumption == Lengths \subseteq Nat /\ IsFiniteSet(Lengths)
ASSUME WireAssumption == WireSize \in Nat \ {0}
ASSUME PacketsAssumption == MaxPackets \in Nat
(* The bytes of every packet may be stored; the header is two of them.       *)
ASSUME BytesAssumption ==
  \A i \in 1 .. MaxPackets, length \in Lengths :
    \A k \in 1 .. 2 + length : [packet |-> i, place |-> k] \in Byte

VARIABLES
  sender, receiver,   \* the two sockets: state, and the ring of this direction
  wire,
  sent,               \* the lengths of the messages that send() has queued
  delivered,          \* what the handler was called with
  fault               \* a failed ERHE_VERIFY ends the program

packetVars == << sender, receiver, wire, sent, delivered, fault >>

Header == 2

(* A byte, named by the packet it belongs to and its place in it. *)
Place(i, k) == [packet |-> i, place |-> k]
Packet(i, length) == [k \in 1 .. Header + length |-> Place(i, k)]
Payload(packet) == SubSeq(packet, Header + 1, Len(packet))

Connected == [state |-> "CONNECTED", ring |-> NewRing]

(* close() drops both buffers. *)
Closed == [state |-> "CLOSED", ring |-> NewRing]

IsConnected(s) == s.state = "CONNECTED"

PacketInit ==
  /\ sender = Connected /\ receiver = Connected
  /\ wire = << >> /\ sent = << >> /\ delivered = << >>
  /\ fault = "none"

-----------------------------------------------------------------------------
(* Sending. What becomes of the ring, the bytes that go out, and whether     *)
(* there was no error.                                                      *)

Outcome(r, bytes, ok) == [ring |-> r, bytes |-> bytes, ok |-> ok]

(* What a failed call leaves: nothing, and before it the first of the two     *)
(* calls, the one up to the end of the buffer, may have sent its bytes.      *)
Broken(r, room) ==
  {Outcome(NewRing, Peek(r, n), FALSE) :
     n \in {0} \cup {m \in {UsedBeforeWrap(r)} : m <= room /\ UsedAfterWrap(r) > 0}}

(* Mutant: the result of send() is not looked at. *)
SendPendingUnchecked(r, room) ==
  IF IsEmpty(r) THEN {Outcome(r, << >>, TRUE)}
  ELSE {Outcome(EndConsume(r, Size(r)), Peek(r, n), TRUE) : n \in 0 .. Least(room, Size(r))}

(* send_pending(): the system takes some bytes when it has room and is busy  *)
(* when it has none, or the connection is broken.                            *)
SendPending(r, room) ==
  IF IsEmpty(r) THEN {Outcome(r, << >>, TRUE)}
  ELSE Broken(r, room) \cup
       {Outcome(EndConsume(r, n), Peek(r, n), TRUE) :
          n \in IF room = 0 THEN {0} ELSE 1 .. Least(room, Size(r))}

(* Header and payload are written, and what can be sent is sent. *)
Enqueue(r, packet, before, room) ==
  {[queued |-> TRUE, ok |-> o.ok, ring |-> o.ring, bytes |-> before \o o.bytes] :
     o \in SendPending(Write(r, packet), room - Len(before))}

Fits(r, packet) == Len(packet) <= FreeSize(r)

(* send(): when there is no room for the packet, first send what is queued.  *)
SendPacket(r, packet, room) ==
  IF Fits(r, packet) THEN Enqueue(r, packet, << >>, room)
  ELSE UNION {
    IF o.ok /\ Fits(o.ring, packet) THEN Enqueue(o.ring, packet, o.bytes, room)
    ELSE {[queued |-> FALSE, ok |-> o.ok, bytes |-> o.bytes,
           ring |-> IF o.ok THEN EndProduce(o.ring, 0) ELSE o.ring]} :
    o \in SendPending(r, room)}

(* What is sent to an end that has closed is lost. *)
Transmit(bytes) == wire' = IF IsConnected(receiver) THEN wire \o bytes ELSE << >>

Room == WireSize - Len(wire)

Send(length) ==
  /\ fault = "none" /\ IsConnected(sender)
  /\ Len(sent) < MaxPackets
  /\ \E o \in SendPacket(sender.ring, Packet(Len(sent) + 1, length), Room) :
       /\ sender' = IF o.ok THEN [sender EXCEPT !.ring = o.ring] ELSE Closed
       /\ Transmit(o.bytes)
       /\ sent' = IF o.queued THEN Append(sent, length) ELSE sent
  /\ UNCHANGED << receiver, delivered, fault >>

(* poll() of the sending end: send_pending() when there is something to send *)
(* and room; then recv(), which finds the other end closed or nothing.       *)
SenderPoll ==
  /\ fault = "none" /\ IsConnected(sender)
  /\ \E o \in IF Room > 0 THEN SendPending(sender.ring, Room)
              ELSE {Outcome(sender.ring, << >>, TRUE)} :
       /\ sender' = IF o.ok /\ IsConnected(receiver)
                    THEN [sender EXCEPT !.ring = o.ring] ELSE Closed
       /\ Transmit(o.bytes)
  /\ UNCHANGED << receiver, sent, delivered, fault >>

-----------------------------------------------------------------------------
(* Receiving. The ring, the packets delivered, the bytes still to come,      *)
(* whether an assertion failed, whether recv() goes on for another call, and *)
(* whether the socket was closed.                                           *)

(* receive_packet_length(): 0 when there is no whole header. A length that   *)
(* is not one is read as some huge number.                                   *)
PacketLength(r) ==
  LET header == Peek(r, Header)
  IN  IF Len(header) < Header THEN 0
      ELSE IF header[2] = Place(header[1].packet, 2) THEN sent[header[1].packet]
      ELSE MaxSize

MagicIsRight(r) == Size(r) >= Header => r.buffer[r.read].place = 1

Incomplete(r, length) == Size(r) < Header + length

(* The buffer is rotated when the packet goes around its end. *)
Straight(r, length) ==
  IF UsedBeforeWrap(r) < Header + length THEN Rotate(EndConsume(r, 0)) ELSE r

Deliver(a, r, length) ==
  [a EXCEPT !.delivered = Append(@, Payload(Peek(r, Header + length))),
            !.ring = EndConsume(r, Header + length)]

(* One turn of the loop over received packets: the next one is delivered, if *)
(* it is there and no assertion fails.                                       *)
ProcessPacket(a) ==
  LET length == PacketLength(a.ring)
      r == Straight(a.ring, length)
  IN  IF ~MagicIsRight(a.ring) THEN [a EXCEPT !.failed = TRUE]
      ELSE IF length = 0 THEN a
      ELSE IF Incomplete(a.ring, length) THEN [a EXCEPT !.ring = EndConsume(@, 0)]
      ELSE IF UsedBeforeWrap(r) < Header + length THEN [a EXCEPT !.failed = TRUE]
      ELSE Deliver(a, r, length)

(* Mutant: one packet is looked for after each call of recv(). *)
ProcessOnePacket(a) == {ProcessPacket(a)}

(* The loop. Every packet takes a header at least; the turns after the last   *)
(* one change nothing.                                                       *)
ProcessPackets(a) ==
  LET after[k \in Nat] ==
        IF k = 0 THEN {a} ELSE {ProcessPacket(b) : b \in after[k - 1]}
  IN  after[Size(a.ring) \div Header + 1]

(* n bytes arrive. The loop goes on when they filled the buffer up to its    *)
(* end and there is room at its start.                                       *)
Arrive(a, n) ==
  [a EXCEPT
    !.ring = EndProduce(Stored(@, SubSeq(a.coming, 1, n)), n),
    !.coming = SubSeq(@, n + 1, Len(@)),
    !.again = n = FreeBeforeWrap(a.ring) /\ FreeAfterWrap(a.ring) > 0]

(* Nothing is there: the other end has closed, or the call would block. *)
NothingThere(a) ==
  IF IsConnected(sender)
  THEN [a EXCEPT !.ring = EndProduce(@, 0), !.again = FALSE]
  ELSE [a EXCEPT !.closed = TRUE, !.again = FALSE]

Call(a) ==
  IF a.ring.full THEN {[a EXCEPT !.again = FALSE]}
  ELSE IF a.coming = << >> THEN {NothingThere(a)}
  ELSE {[a EXCEPT !.closed = TRUE, !.again = FALSE]} \cup
       UNION {ProcessPackets(b) :
                b \in {Arrive(a, n) :
                         n \in 1 .. Least(FreeBeforeWrap(a.ring), Len(a.coming))}}

(* recv(): at most two calls, before and after the end of the buffer. *)
Recv(a) == UNION {IF b.again /\ ~b.failed THEN Call(b) ELSE {b} : b \in Call(a)}

ReceiverPoll ==
  /\ fault = "none" /\ IsConnected(receiver)
  /\ wire # << >> \/ ~IsConnected(sender)
  /\ \E a \in Recv([ring |-> receiver.ring, delivered |-> delivered, coming |-> wire,
                    failed |-> FALSE, again |-> FALSE, closed |-> FALSE]) :
       /\ receiver' = IF a.closed THEN Closed ELSE [receiver EXCEPT !.ring = a.ring]
       /\ wire' = IF a.closed THEN << >> ELSE a.coming
       /\ delivered' = a.delivered
       /\ fault' = IF a.failed THEN "verify" ELSE "none"
  /\ UNCHANGED << sender, sent >>

-----------------------------------------------------------------------------
(* disconnect() of either end. *)
SenderDisconnect ==
  /\ fault = "none" /\ IsConnected(sender)
  /\ sender' = Closed
  /\ UNCHANGED << receiver, wire, sent, delivered, fault >>

ReceiverDisconnect ==
  /\ fault = "none" /\ IsConnected(receiver)
  /\ receiver' = Closed
  /\ wire' = << >>
  /\ UNCHANGED << sender, sent, delivered, fault >>

PacketNext ==
  \/ \E length \in Lengths : Send(length)
  \/ SenderPoll
  \/ ReceiverPoll
  \/ SenderDisconnect
  \/ ReceiverDisconnect

PacketSpec == PacketInit /\ [][PacketNext]_packetVars

(* Both programs poll their sockets in every frame. *)
FairPackets == PacketSpec /\ WF_packetVars(SenderPoll) /\ WF_packetVars(ReceiverPoll)

-----------------------------------------------------------------------------
(* Properties *)

(* Whatever part of the bytes each call takes or gives, the handler gets the *)
(* messages in order, each one whole and once.                              *)
WholeInOrder ==
  /\ Len(delivered) <= Len(sent)
  /\ \A i \in DOMAIN delivered : delivered[i] = Payload(Packet(i, sent[i]))

Queued(i) == Packet(i, sent[i])
BytesOfPackets(i, j) == FlattenSeq([k \in 1 .. j + 1 - i |-> Queued(i + k - 1)])

(* While both ends are connected, every byte of a message that send() took   *)
(* is in one of the buffers or under way until the message is delivered:     *)
(* send_pending() "Returns true if no error".                               *)
NothingLost ==
  fault = "none" /\ IsConnected(sender) /\ IsConnected(receiver) =>
    Contents(receiver.ring) \o wire \o Contents(sender.ring)
      = BytesOfPackets(Len(delivered) + 1, Len(sent))

(* Connected ends have every byte of every message, each where it belongs:    *)
(* delivered, received, under way, or still to be sent.                      *)
Reliable == WholeInOrder /\ NothingLost

(* "Ring buffer would wrap? Rotate so that it won't": the assertions of        *)
(* recv() hold, that a packet begins with the magic number and that it lies   *)
(* in one piece in the buffer.                                              *)
NoFault == fault = "none"

(* Every message that send() took is delivered, or an end closes.            *)
EachArrives ==
  \A i \in 1 .. MaxPackets :
    Len(sent) >= i ~> \/ Len(delivered) >= i
                      \/ ~IsConnected(sender) \/ ~IsConnected(receiver)
=============================================================================
