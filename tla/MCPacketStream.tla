--------------------------- MODULE MCPacketStream ---------------------------
(* Answers without and with a body; messages with a length of one and of two bytes, one of *)
(* just the size of the buffer and one that is longer.                                    *)
EXTENDS PacketStream

Packet(type, topic, rest) == [type |-> type, topic |-> topic, rest |-> rest]
MCPackets ==
  {Packet(13, 0, 0), Packet(9, 0, 3), Packet(3, 1, 1), Packet(3, 4, 124), Packet(3, 1, 130),
   Packet(3, 1, 131)}
=============================================================================
