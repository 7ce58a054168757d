----------------------------- MODULE RingBuffer ------------------------------
(***************************************************************************)
(* One ring buffer and any sequence of calls of its member functions.      *)
(*                                                                         *)
(* begin_produce() and end_produce() bracket a call of recv(), which fills  *)
(* part of what can be written before the end of the buffer;                *)
(* begin_consume() and end_consume() bracket a call of send(). Each pair     *)
(* moves at least one byte here; module PacketStream has the calls with 0    *)
(* bytes that the socket makes, and rotate().                               *)
(***************************************************************************)
EXTENDS ByteRing

VARIABLES
  ring,
  moved     \* the bytes that the last call stored or gave out

ringVars == << ring, moved >>

Strings(n) == UNION {[1 .. k -> Byte] : k \in 0 .. n}

RingInit == ring = NewRing /\ moved = << >>

WriteBytes(bytes) ==
  /\ ring' = Write(ring, bytes)
  /\ moved' = Accepted(ring, bytes)

Produce(bytes) ==
  /\ Len(bytes) <= FreeBeforeWrap(ring)
  /\ ring' = EndProduce(Stored(ring, bytes), Len(bytes))
  /\ moved' = bytes

Consume(n) ==
  /\ n <= UsedBeforeWrap(ring)
  /\ ring' = EndConsume(ring, n)
  /\ moved' = Peek(ring, n)

(* discard() does the same and throws the bytes away. *)
ReadBytes(n) ==
  /\ ring' = Read(ring, n)
  /\ moved' = Peek(ring, n)

ResetRing == ring' = Reset(ring) /\ moved' = << >>

RingNext ==
  \/ \E bytes \in Strings(MaxSize) : WriteBytes(bytes)
  \/ \E bytes \in Strings(MaxSize) : bytes # << >> /\ Produce(bytes)
  \/ \E n \in 1 .. MaxSize : Consume(n)
  \/ \E n \in 0 .. MaxSize : ReadBytes(n)
  \/ ResetRing

RingSpec == RingInit /\ [][RingNext]_ringVars

-----------------------------------------------------------------------------
(* Properties *)

(* Offsets stay inside the buffer. *)
OffsetsInside == ring \in Ring /\ moved \in Seq(Byte)

(* The ring is a queue: around the end of the buffer, filled up and emptied, *)
(* with calls of both styles in any order, bytes come out as they went in.   *)
Queue == INSTANCE ByteQueue WITH Limit <- MaxSize, queue <- Contents(ring)
IsQueue == Queue!Spec
=============================================================================
