--------------------------- MODULE MCPacketStream ----------------------------
(***************************************************************************)
(* A connection with small buffers for TLC. *)
(***************************************************************************)
EXTENDS PacketStream

Bytes ==
  {Place(0, 0)} \cup
  {Place(i, k) : i \in 1 .. MaxPackets, k \in 1 .. Header + CHOOSE m \in Lengths :
                                                   \A n \in Lengths : n <= m}

NoByte == Place(0, 0)
=============================================================================
