------------------------- MODULE PacketStreamProofs -------------------------
(* What the client sends, and what it reads into its buffer: for every size of the  *)
(* buffer, every text and every way in which the broker's bytes arrive.             *)
EXTENDS PacketStream, SequenceTheorems, TLAPS

-----------------------------------------------------------------------------
(* Sending                                                                 *)

\* The size that a serializer compares with the buffer is never below the true one.
LEMMA LenEnough ==
  ASSUME NEW rem \in Nat
  PROVE  MQTTPacket_len(rem) >= 1 + LengthBytes(rem) + rem
  BY DEF MQTTPacket_len, LengthBytes

\* Where a serializer writes as much as it announces, what it returns fits.
LEMMA SerializedWhole ==
  ASSUME NEW rem \in Nat, NEW s, s = Serialized(rem, rem, MaxPacketSize)
  PROVE  s.rc > 0 => s.rc <= MaxPacketSize /\ s.bytes = s.rem
<1>1. s.rem = rem /\ s.bytes = rem
      /\ s.rc = IF MQTTPacket_len(rem) > MaxPacketSize THEN BufferTooShort
                ELSE 1 + LengthBytes(rem) + rem
  BY DEF Serialized
<1>2. MQTTPacket_len(rem) >= 1 + LengthBytes(rem) + rem
  BY LenEnough
<1>3. MQTTPacket_len(rem) \in Nat /\ LengthBytes(rem) \in Nat /\ MaxPacketSize \in Nat
  BY StreamAssumption DEF MQTTPacket_len, LengthBytes
<1> QED BY <1>1, <1>2, <1>3 DEF BufferTooShort

\* The client gives all its texts as C strings: both halves of a serializer count them
\* in the same way.
LEMMA TextWhole ==
  ASSUME NEW n \in Nat
  PROVE  /\ MQTTstrlen(Text(n)) = n /\ writeMQTTString(Text(n)) = 2 + n
         /\ OptionalLength(Text(n)) = n + 2 /\ OptionalBytes(Text(n)) = n + 2
  BY DEF MQTTstrlen, writeMQTTString, Text, Null, OptionalLength, OptionalBytes, Present

LEMMA ConnectWhole ==
  ASSUME NEW t \in Nat, NEW n \in Nat, NEW v \in {3, 4}
  PROVE  /\ MQTTSerialize_connectLength(Options(t, n, v)) \in Nat
         /\ connectBytes(Options(t, n, v)) = MQTTSerialize_connectLength(Options(t, n, v))
<1> DEFINE o == Options(t, n, v)
<1>1. /\ o.MQTTVersion = v /\ o.clientID = Text(t) /\ o.willFlag /\ o.topic = Text(n)
      /\ o.message = Text(0) /\ o.username = Text(t) /\ o.password = Text(Null)
  BY DEF Options
<1>2. OptionalLength(Text(Null)) = 0 /\ OptionalBytes(Text(Null)) = 0
  BY DEF OptionalLength, OptionalBytes, Present, Text, Null
<1>3. /\ MQTTstrlen(Text(t)) = t /\ MQTTstrlen(Text(n)) = n /\ MQTTstrlen(Text(0)) = 0
      /\ OptionalLength(Text(t)) = t + 2 /\ OptionalBytes(Text(t)) = t + 2
      /\ writeMQTTString(Text(t)) = 2 + t /\ writeMQTTString(Text(n)) = 2 + n
      /\ writeMQTTString(Text(0)) = 2
  <2>1. 0 \in Nat
    OBVIOUS
  <2> QED BY <2>1, TextWhole
<1>4. MQTTSerialize_connectLength(o) =
        (IF v = 3 THEN 12 ELSE 10) + t + 2 + n + 2 + 0 + 2 + t + 2 + 0
  BY <1>1, <1>2, <1>3 DEF MQTTSerialize_connectLength
<1>5. connectBytes(o) = (IF v = 4 THEN 6 ELSE 8) + 4 + 2 + t + 2 + n + 2 + t + 2 + 0
  BY <1>1, <1>2, <1>3 DEF connectBytes
<1> QED BY <1>4, <1>5

LEMMA SerializationsWhole ==
  ASSUME NEW s \in Serializations
  PROVE  s.rc > 0 => s.rc <= MaxPacketSize /\ s.bytes = s.rem
<1>1. PICK t \in Texts, n \in Texts :
        s \in {MQTTSerialize_publish(0, Text(t), n, MaxPacketSize),
               MQTTSerialize_connect(Options(t, n, 3), MaxPacketSize),
               MQTTSerialize_connect(Options(t, n, 4), MaxPacketSize),
               MQTTSerialize_subscribe(Text(t), MaxPacketSize),
               MQTTSerialize_unsubscribe(Text(t), MaxPacketSize),
               MQTTSerialize_ack(MaxPacketSize)}
  BY DEF Serializations
<1>2. t \in Nat /\ n \in Nat
  BY StreamAssumption
<1>3. MQTTstrlen(Text(t)) = t /\ writeMQTTString(Text(t)) = 2 + t
  BY <1>2, TextWhole
<1>4. CASE s = MQTTSerialize_publish(0, Text(t), n, MaxPacketSize)
  <2>1. s = Serialized(2 + t + n + 0, 2 + t + 0 + n, MaxPacketSize)
    BY <1>3, <1>4 DEF MQTTSerialize_publish
  <2>2. 2 + t + n + 0 = 2 + t + 0 + n /\ 2 + t + n + 0 \in Nat
    BY <1>2
  <2> QED BY <2>1, <2>2, SerializedWhole
<1>5. CASE s = MQTTSerialize_connect(Options(t, n, 3), MaxPacketSize)
  <2>1. 3 \in {3, 4}
    OBVIOUS
  <2> QED BY <1>2, <1>5, <2>1, ConnectWhole, SerializedWhole DEF MQTTSerialize_connect
<1>6. CASE s = MQTTSerialize_connect(Options(t, n, 4), MaxPacketSize)
  <2>1. 4 \in {3, 4}
    OBVIOUS
  <2> QED BY <1>2, <1>6, <2>1, ConnectWhole, SerializedWhole DEF MQTTSerialize_connect
<1>7. CASE s = MQTTSerialize_subscribe(Text(t), MaxPacketSize)
  <2>1. s = Serialized(2 + 2 + t + 1, 2 + (2 + t) + 1, MaxPacketSize)
    BY <1>3, <1>7 DEF MQTTSerialize_subscribe
  <2>2. 2 + 2 + t + 1 = 2 + (2 + t) + 1 /\ 2 + 2 + t + 1 \in Nat
    BY <1>2
  <2> QED BY <2>1, <2>2, SerializedWhole
<1>8. CASE s = MQTTSerialize_unsubscribe(Text(t), MaxPacketSize)
  <2>1. s = Serialized(2 + 2 + t, 2 + (2 + t), MaxPacketSize)
    BY <1>3, <1>8 DEF MQTTSerialize_unsubscribe
  <2>2. 2 + 2 + t = 2 + (2 + t) /\ 2 + 2 + t \in Nat
    BY <1>2
  <2> QED BY <2>1, <2>2, SerializedWhole
<1>9. CASE s = MQTTSerialize_ack(MaxPacketSize)
  BY <1>9, StreamAssumption DEF MQTTSerialize_ack, BufferTooShort
<1> QED BY <1>1, <1>4, <1>5, <1>6, <1>7, <1>8, <1>9

LEMMA FreshWhole == Fresh.rc <= MaxPacketSize /\ Fresh.bytes = Fresh.rem
  BY StreamAssumption DEF Fresh, MQTTSerialize_zero, BufferTooShort

\* Whatever texts the program gives, a packet that leaves the client fits in sendbuf and
\* is as long as it says.
THEOREM SentSafe == Spec => []SentWhole
<1>1. Init => SentWhole
  BY FreshWhole DEF Init, SentWhole
<1>2. SentWhole /\ [Next]_vars => SentWhole'
  <2> SUFFICES ASSUME SentWhole, [Next]_vars
               PROVE  sent'.rc > 0 => sent'.rc <= MaxPacketSize /\ sent'.bytes = sent'.rem
    BY DEF SentWhole
  <2>1. CASE sent' = Fresh
    BY <2>1, FreshWhole
  <2>2. CASE sent' = sent
    BY <2>2 DEF SentWhole
  <2>3. CASE send
    BY <2>3, SerializationsWhole DEF send
  <2>4. send \/ sent' = Fresh \/ sent' = sent
    BY DEF Next, BrokerSends, Arrives, ConnectionEnds, Connects, yield, cycle, ReadHeader,
           decodePacket, CheckSize, ReadBody, BodyTimeout, vars
  <2> QED BY <2>1, <2>2, <2>3, <2>4
<1> QED BY <1>1, <1>2, PTL DEF Spec

-----------------------------------------------------------------------------
(* The broker's bytes                                                      *)

Items  == [packet : Packets, start : Nat]
End(w) == w.start + Size(w.packet)

\* One packet behind the other, from the first byte on, and all that arrived is of them.
StreamInv ==
  /\ wire \in Seq(Items)
  /\ wire # <<>> => wire[1].start = 0
  /\ \A k \in 1..Len(wire) : k + 1 <= Len(wire) => wire[k + 1].start = End(wire[k])
  /\ \A j, k \in 1..Len(wire) : j < k => End(wire[j]) <= wire[k].start
  /\ \A q \in 1..Total : \E k \in 1..Len(wire) : wire[k].start < q /\ q <= End(wire[k])
  /\ arrived \in 0..Total /\ pos \in 0..arrived

\* Byte i of a packet.
PacketByte(p, i) ==
  LET n == LengthBytes(Rem(p)) IN
  IF i = 1 THEN 16 * p.type
  ELSE IF i <= 1 + n THEN MQTTPacket_encode(Rem(p))[i - 1]
  ELSE IF p.type = PUBLISH /\ i = 2 + n THEN p.topic \div 256
  ELSE IF p.type = PUBLISH /\ i = 3 + n THEN p.topic % 256
  ELSE Zero

LEMMA LengthBytesRange ==
  ASSUME NEW n \in Nat
  PROVE  LengthBytes(n) \in 1..4
  BY DEF LengthBytes

LEMMA PacketFacts ==
  ASSUME NEW p \in Packets
  PROVE  /\ p.type \in 1..15 /\ p.topic \in Nat /\ p.rest \in Nat
         /\ Rem(p) \in Nat /\ Size(p) \in Nat /\ Size(p) = 1 + LengthBytes(Rem(p)) + Rem(p)
         /\ LengthBytes(Rem(p)) \in 1..4
<1>1. p \in [type : 1..15, topic : Nat, rest : Nat]
  BY StreamAssumption
<1>2. Rem(p) \in Nat
  BY <1>1 DEF Rem
<1>3. LengthBytes(Rem(p)) \in 1..4
  BY <1>2, LengthBytesRange
<1>4. Size(p) = 1 + LengthBytes(Rem(p)) + Rem(p)
  BY DEF Size
<1> QED BY <1>1, <1>2, <1>3, <1>4

LEMMA WeightDivides ==
  ASSUME NEW n \in Nat, NEW i \in 1..4
  PROVE  Weight[i] \in Nat /\ n \div Weight[i] \in Nat
<1>1. n \div 1 \in Nat /\ n \div 128 \in Nat /\ n \div 16384 \in Nat /\ n \div 2097152 \in Nat
  BY SMT
<1>2. Weight[1] = 1 /\ Weight[2] = 128 /\ Weight[3] = 16384 /\ Weight[4] = 2097152
  BY SMT DEF Weight
<1>3. i = 1 \/ i = 2 \/ i = 3 \/ i = 4
  OBVIOUS
<1> QED BY <1>1, <1>2, <1>3, SMT

LEMMA EncodeRange ==
  ASSUME NEW n \in Nat, NEW i \in 1..LengthBytes(n)
  PROVE  /\ MQTTPacket_encode(n)[i] \in Nat
         /\ More(MQTTPacket_encode(n)[i]) <=> i < LengthBytes(n)
<1>1. i \in 1..4 /\ LengthBytes(n) \in 1..4
  BY LengthBytesRange
<1>2. n \div Weight[i] \in Nat
  BY <1>1, WeightDivides
<1> DEFINE d == (n \div Weight[i]) % 128
<1>3. d \in 0..127
  BY <1>2
<1>4. MQTTPacket_encode(n)[i] = d + (IF i < LengthBytes(n) THEN 128 ELSE 0)
  BY DEF MQTTPacket_encode
<1> HIDE DEF d
<1> QED BY <1>1, <1>3, <1>4 DEF More

LEMMA PacketByteNat ==
  ASSUME NEW p \in Packets, NEW i \in Nat, i > 0
  PROVE  PacketByte(p, i) \in Nat
<1>1. /\ p.type \in 1..15 /\ p.topic \in Nat /\ Rem(p) \in Nat /\ LengthBytes(Rem(p)) \in 1..4
  BY PacketFacts
<1>2. CASE i # 1 /\ i <= 1 + LengthBytes(Rem(p))
  <2>1. i - 1 \in 1..LengthBytes(Rem(p))
    BY <1>1, <1>2
  <2>2. MQTTPacket_encode(Rem(p))[i - 1] \in Nat
    BY <1>1, <2>1, EncodeRange
  <2> QED BY <1>2, <2>2 DEF PacketByte
<1>3. CASE i = 1 \/ ~(i <= 1 + LengthBytes(Rem(p)))
  <2>1. 16 * p.type \in Nat /\ p.topic \div 256 \in Nat /\ p.topic % 256 \in Nat
        /\ Zero \in Nat
    BY <1>1 DEF Zero
  <2> QED BY <1>3, <2>1 DEF PacketByte
<1> QED BY <1>2, <1>3

LEMMA ItemFacts ==
  ASSUME StreamInv, NEW k \in 1..Len(wire)
  PROVE  /\ wire[k] \in Items /\ wire[k].packet \in Packets /\ wire[k].start \in Nat
         /\ Size(wire[k].packet) \in Nat /\ Size(wire[k].packet) > 0 /\ End(wire[k]) \in Nat
<1>1. wire[k] \in Items
  BY DEF StreamInv
<1>2. wire[k].packet \in Packets /\ wire[k].start \in Nat
  BY <1>1 DEF Items
<1>3. Size(wire[k].packet) \in Nat /\ Size(wire[k].packet) > 0
  BY <1>2, PacketFacts
<1> QED BY <1>1, <1>2, <1>3 DEF End

\* The byte at a place is that of the packet that lies there.
LEMMA ByteAtPacket ==
  ASSUME StreamInv, NEW k \in 1..Len(wire), NEW q \in Nat,
         wire[k].start < q, q <= End(wire[k])
  PROVE  ByteAt(q) = PacketByte(wire[k].packet, q - wire[k].start)
<1> DEFINE There(w) == w.start < q /\ q <= w.start + Size(w.packet)
           w == CHOOSE w \in {wire[j] : j \in DOMAIN wire} : There(w)
<1>1. DOMAIN wire = 1..Len(wire)
  BY DEF StreamInv
<1>2. wire[k] \in {wire[j] : j \in DOMAIN wire} /\ There(wire[k])
  BY <1>1 DEF End
<1>3. w \in {wire[j] : j \in DOMAIN wire} /\ There(w)
  BY <1>2
<1>4. PICK j \in 1..Len(wire) : w = wire[j]
  BY <1>1, <1>3
<1>5. wire[j].start < q /\ q <= End(wire[j])
  BY <1>3, <1>4 DEF End
<1>6. j = k
  <2>1. j < k => End(wire[j]) <= wire[k].start
    BY DEF StreamInv
  <2>2. k < j => End(wire[k]) <= wire[j].start
    BY DEF StreamInv
  <2>3. wire[j].start \in Nat /\ wire[k].start \in Nat /\ End(wire[j]) \in Nat
        /\ End(wire[k]) \in Nat
    BY ItemFacts
  <2> QED BY <1>5, <2>1, <2>2, <2>3
<1>7. w = wire[k]
  BY <1>4, <1>6
<1>8. ByteAt(q) = PacketByte(w.packet, q - w.start)
  BY DEF ByteAt, PacketByte
<1> HIDE DEF w
<1> QED BY <1>7, <1>8

LEMMA ByteAtNat ==
  ASSUME StreamInv, NEW q \in 1..Total
  PROVE  ByteAt(q) \in Nat
<1>1. PICK k \in 1..Len(wire) : wire[k].start < q /\ q <= End(wire[k])
  BY DEF StreamInv
<1>2. q \in Nat
  OBVIOUS
<1>3. wire[k].start \in Nat /\ wire[k].packet \in Packets
  BY ItemFacts
<1>4. q - wire[k].start \in Nat /\ q - wire[k].start > 0
  BY <1>1, <1>2, <1>3
<1> QED BY <1>1, <1>2, <1>3, <1>4, ByteAtPacket, PacketByteNat

LEMMA TotalNat ==
  ASSUME StreamInv
  PROVE  Total \in Nat /\ \A k \in 1..Len(wire) : End(wire[k]) <= Total
<1>1. CASE wire = <<>>
  BY <1>1 DEF Total
<1>2. CASE wire # <<>>
  <2>1. Len(wire) \in 1..Len(wire)
    BY <1>2, EmptySeq DEF StreamInv
  <2>2. Total = End(wire[Len(wire)])
    BY <1>2 DEF Total, End
  <2>3. ASSUME NEW k \in 1..Len(wire)
        PROVE  End(wire[k]) <= Total
    <3>1. k < Len(wire) => End(wire[k]) <= wire[Len(wire)].start
      BY <2>1 DEF StreamInv
    <3>2. End(wire[k]) \in Nat /\ wire[Len(wire)].start \in Nat
          /\ Size(wire[Len(wire)].packet) \in Nat
      BY <2>1, ItemFacts
    <3>3. Total = wire[Len(wire)].start + Size(wire[Len(wire)].packet)
      BY <2>2 DEF End
    <3>4. k = Len(wire) \/ k < Len(wire)
      BY <2>1
    <3>5. Total \in Nat
      BY <2>1, <2>2, ItemFacts
    <3>6. CASE k = Len(wire)
      BY <2>2, <3>5, <3>6
    <3>7. CASE k < Len(wire)
      BY <3>1, <3>2, <3>3, <3>7
    <3> QED BY <3>4, <3>6, <3>7
  <2> QED BY <2>1, <2>2, <2>3, ItemFacts
<1> QED BY <1>1, <1>2

-----------------------------------------------------------------------------
(* The remaining length                                                    *)

LEMMA DecodeNat ==
  ASSUME NEW f \in Seq(Nat)
  PROVE  MQTTPacket_decode(f) \in Nat
<1> DEFINE Part(i) == IF i <= Len(f) THEN (f[i] % 128) * Weight[i] ELSE 0
<1>1. ASSUME NEW i \in 1..4
      PROVE  Part(i) \in Nat
  <2>1. Weight[i] \in Nat
    BY DEF Weight
  <2>2. CASE i <= Len(f)
    <3>1. f[i] \in Nat
      BY <2>2
    <3>2. f[i] % 128 \in Nat
      BY <3>1
    <3>3. (f[i] % 128) * Weight[i] \in Nat
      BY <2>1, <3>2
    <3> QED BY <2>2, <3>3
  <2>3. CASE ~(i <= Len(f))
    BY <2>3
  <2> QED BY <2>2, <2>3
<1>2. Part(1) \in Nat /\ Part(2) \in Nat /\ Part(3) \in Nat /\ Part(4) \in Nat
  BY <1>1
<1>3. MQTTPacket_decode(f) = Part(1) + Part(2) + Part(3) + Part(4)
  BY DEF MQTTPacket_decode
<1> HIDE DEF Part
<1> QED BY <1>2, <1>3

LEMMA RemainingNat ==
  ASSUME field \in Seq(Nat)
  PROVE  Remaining \in Nat
  BY DecodeNat DEF Remaining

-----------------------------------------------------------------------------
(* The stream                                                              *)

LEMMA StreamInit == Init => StreamInv
<1> SUFFICES ASSUME Init
             PROVE  StreamInv
  OBVIOUS
<1>1. Total = 0
  BY DEF Init, Total
<1>2. wire \in Seq(Items) /\ Len(wire) = 0
  BY DEF Init
<1> QED BY <1>1, <1>2 DEF Init, StreamInv

LEMMA StreamAppend ==
  ASSUME StreamInv, BrokerSends
  PROVE  StreamInv'
<1>1. PICK p \in Packets : wire' = Append(wire, [packet |-> p, start |-> Total])
  BY DEF BrokerSends
<1> DEFINE item == [packet |-> p, start |-> Total]
<1>2. Total \in Nat /\ \A k \in 1..Len(wire) : End(wire[k]) <= Total
  BY TotalNat
<1>3. item \in Items /\ item.start = Total /\ item.packet = p
  BY <1>2 DEF Items
<1>4. wire \in Seq(Items) /\ Len(wire) \in Nat
  BY DEF StreamInv
<1>5. wire' \in Seq(Items) /\ Len(wire') = Len(wire) + 1 /\ wire'[Len(wire) + 1] = item
      /\ \A k \in 1..Len(wire) : wire'[k] = wire[k]
  BY <1>1, <1>3, <1>4
<1>6. Size(p) \in Nat /\ Size(p) > 0
  BY PacketFacts
<1>7. Total' = End(item)
  <2>1. wire' # <<>>
    BY <1>4, <1>5, EmptySeq
  <2> QED BY <1>4, <1>5, <2>1 DEF Total, End
<1>8. Total' = Total + Size(p) /\ Total' \in Nat
  BY <1>2, <1>3, <1>6, <1>7 DEF End
<1>9. wire = <<>> => Total = 0
  BY DEF Total
<1>10. wire # <<>> => Len(wire) \in 1..Len(wire) /\ Total = End(wire[Len(wire)])
  BY <1>4, EmptySeq DEF Total, End
<1> HIDE DEF item
<1>11. wire'[1].start = 0
  <2>1. CASE wire = <<>>
    BY <1>3, <1>5, <1>9, <2>1
  <2>2. CASE wire # <<>>
    BY <1>4, <1>5, <1>10, <2>2 DEF StreamInv
  <2> QED BY <2>1, <2>2
<1>12. ASSUME NEW k \in 1..Len(wire'), k + 1 <= Len(wire')
       PROVE  wire'[k + 1].start = End(wire'[k])
  <2>1. CASE k = Len(wire)
    <3>1. wire # <<>>
      BY <1>4, <2>1, EmptySeq
    <3> QED BY <1>3, <1>5, <1>10, <2>1, <3>1
  <2>2. CASE k + 1 <= Len(wire)
    <3>1. k \in 1..Len(wire) /\ k + 1 \in 1..Len(wire)
      BY <1>4, <2>2
    <3> QED BY <1>5, <2>2, <3>1 DEF StreamInv
  <2> QED BY <1>4, <1>5, <1>12, <2>1, <2>2
<1>13. ASSUME NEW j \in 1..Len(wire'), NEW k \in 1..Len(wire'), j < k
       PROVE  End(wire'[j]) <= wire'[k].start
  <2>1. j \in 1..Len(wire)
    BY <1>4, <1>5, <1>13
  <2>2. CASE k = Len(wire) + 1
    BY <1>2, <1>3, <1>5, <2>1, <2>2
  <2>3. CASE k \in 1..Len(wire)
    BY <1>5, <1>13, <2>1, <2>3 DEF StreamInv
  <2> QED BY <1>4, <1>5, <2>2, <2>3
<1>14. ASSUME NEW q \in 1..Total'
       PROVE  \E k \in 1..Len(wire') : wire'[k].start < q /\ q <= End(wire'[k])
  <2>1. CASE q <= Total
    <3>1. PICK k \in 1..Len(wire) : wire[k].start < q /\ q <= End(wire[k])
      BY <1>2, <2>1 DEF StreamInv
    <3>2. k \in 1..Len(wire') /\ wire'[k] = wire[k]
      BY <1>4, <1>5
    <3> QED BY <3>1, <3>2
  <2>2. CASE q > Total
    <3>1. Len(wire) + 1 \in 1..Len(wire')
      BY <1>4, <1>5
    <3>2. wire'[Len(wire) + 1].start < q
      BY <1>3, <1>5, <2>2
    <3>3. q <= End(wire'[Len(wire) + 1])
      BY <1>5, <1>7, <1>8
    <3> QED BY <3>1, <3>2, <3>3
  <2> QED BY <1>2, <1>8, <2>1, <2>2
<1>15. arrived' \in 0..Total' /\ pos' \in 0..arrived'
  <2>1. arrived' = arrived /\ pos' = pos
    BY DEF BrokerSends
  <2> QED BY <1>2, <1>6, <1>8, <2>1 DEF StreamInv
<1> QED BY <1>5, <1>11, <1>12, <1>13, <1>14, <1>15 DEF StreamInv

LEMMA StreamNext ==
  ASSUME StreamInv, field \in Seq(Nat), [Next]_vars
  PROVE  StreamInv'
<1>1. CASE BrokerSends
  BY <1>1, StreamAppend
<1>2. CASE Connects
  <2>1. wire' = <<>> /\ arrived' = 0 /\ pos' = 0
    BY <1>2 DEF Connects
  <2>2. Total' = 0 /\ wire' \in Seq(Items) /\ Len(wire') = 0
    BY <2>1 DEF Total
  <2> QED BY <2>1, <2>2 DEF StreamInv
<1>3. CASE wire' = wire /\ arrived' \in 0..Total /\ pos' \in 0..arrived'
  <2>1. Total' = Total
    BY <1>3 DEF Total
  <2> QED BY <1>3, <2>1 DEF StreamInv
<1>4. Total \in Nat /\ arrived \in 0..Total /\ pos \in 0..arrived
  BY TotalNat DEF StreamInv
<1>5. CASE Arrives
  <2>1. wire' = wire /\ pos' = pos /\ arrived < arrived' /\ arrived' <= Total
        /\ arrived' \in {wire[Len(wire)].start + c : c \in Cuts} \cup {Total}
    BY <1>5 DEF Arrives
  <2>2. wire # <<>>
    BY <1>4, <1>5 DEF Arrives, Total
  <2>3. Len(wire) \in 1..Len(wire)
    BY <2>2, EmptySeq DEF StreamInv
  <2>4. wire[Len(wire)].start \in Nat
    BY <2>3, ItemFacts
  <2>5. arrived' \in Nat
    BY <1>4, <2>1, <2>4, StreamAssumption
  <2> QED BY <1>3, <1>4, <2>1, <2>5
<1>6. CASE cycle
  <2>1. wire' = wire /\ arrived' = arrived
    BY <1>6 DEF cycle, ReadHeader, decodePacket, CheckSize, ReadBody, BodyTimeout, stream
  <2>2. Remaining \in Nat
    BY RemainingNat
  <2>3. pos' \in 0..arrived
    BY <1>4, <1>6, <2>2
    DEF cycle, ReadHeader, decodePacket, CheckSize, ReadBody, BodyTimeout, stream,
        SomethingThere
  <2> QED BY <1>3, <1>4, <2>1, <2>3
<1>7. CASE ConnectionEnds \/ yield \/ send \/ UNCHANGED vars
  <2>1. wire' = wire /\ arrived' = arrived /\ pos' = pos
    BY <1>7 DEF ConnectionEnds, yield, send, vars, stream
  <2> QED BY <1>3, <1>4, <2>1
<1> QED BY <1>1, <1>2, <1>5, <1>6, <1>7 DEF Next

\* The bytes of the length field are numbers: only with that its value is one.
FieldInv == StreamInv /\ field \in Seq(Nat)

LEMMA FieldNext ==
  ASSUME FieldInv, [Next]_vars
  PROVE  FieldInv'
<1>1. StreamInv'
  BY StreamNext DEF FieldInv
<1>2. CASE decodePacket /\ SomethingThere
  <2>1. pos + 1 \in 1..Total
    <3>1. Total \in Nat
      BY TotalNat DEF FieldInv
    <3> QED BY <1>2, <3>1 DEF FieldInv, StreamInv, SomethingThere
  <2>2. ByteAt(pos + 1) \in Nat
    BY <2>1, ByteAtNat DEF FieldInv
  <2>3. field' = Append(field, ByteAt(pos + 1))
    BY <1>2 DEF decodePacket
  <2>4. field' \in Seq(Nat)
    BY <2>2, <2>3 DEF FieldInv
  <2> QED BY <1>1, <2>4 DEF FieldInv
<1>3. CASE field' = field \/ field' = <<>>
  <2>1. <<>> \in Seq(Nat)
    OBVIOUS
  <2>2. field' \in Seq(Nat)
    BY <1>3, <2>1 DEF FieldInv
  <2> QED BY <1>1, <2>2 DEF FieldInv
<1>4. (decodePacket /\ SomethingThere) \/ field' = field \/ field' = <<>>
  BY DEF Next, BrokerSends, Arrives, ConnectionEnds, Connects, yield, cycle, ReadHeader,
         decodePacket, CheckSize, ReadBody, BodyTimeout, send, vars, input
<1> QED BY <1>2, <1>3, <1>4

LEMMA FieldSafe == Spec => []FieldInv
<1>1. Init => FieldInv
  <2> SUFFICES ASSUME Init PROVE FieldInv
    OBVIOUS
  <2>1. field \in Seq(Nat)
    BY DEF Init
  <2> QED BY <2>1, StreamInit DEF FieldInv
<1> QED BY <1>1, FieldNext, PTL DEF Spec

\* Whatever bytes are taken for a length, also out of step, readPacket() never reads
\* behind the end of readbuf.
THEOREM ReadbufSafe == Spec => []FitsReadbuf
<1>1. Init => FitsReadbuf
  BY DEF Init, FitsReadbuf
<1>2. FieldInv /\ FitsReadbuf /\ [Next]_vars => FitsReadbuf'
  <2> SUFFICES ASSUME FieldInv, FitsReadbuf, [Next]_vars, pc' = "body"
               PROVE  (1 + LengthBytes(Remaining) + Remaining)' <= MaxPacketSize
    BY DEF FitsReadbuf
  <2>1. field' = field /\ (pc = "body" \/ (CheckSize /\ ~TooLong))
    BY DEF Next, BrokerSends, Arrives, ConnectionEnds, Connects, yield, cycle, ReadHeader,
           decodePacket, CheckSize, ReadBody, BodyTimeout, send, vars, input, AfterFailure
  <2>2. Remaining' = Remaining
    BY <2>1 DEF Remaining
  <2>3. Remaining \in Nat /\ LengthBytes(Remaining) \in Nat /\ MaxPacketSize \in Nat
    BY RemainingNat, LengthBytesRange, StreamAssumption DEF FieldInv
  <2>4. 1 + LengthBytes(Remaining) + Remaining <= MaxPacketSize
    BY <2>1, <2>3 DEF TooLong, FitsReadbuf
  <2> QED BY <2>2, <2>4
<1> QED BY <1>1, <1>2, FieldSafe, PTL DEF Spec

-----------------------------------------------------------------------------
(* In step                                                                 *)

\* What a broker that keeps to the protocol sends.
WellFormed ==
  \A p \in Packets : p.topic < 65536 /\ Rem(p) <= MaxLength /\ (p.type # PUBLISH => p.topic = 0)

\* Where the packets end that were taken.
Boundary == IF taken < Len(wire) THEN wire[taken + 1].start ELSE Total

\* Within the next packet: the header byte and these bytes of the length are read.
Reading ==
  /\ taken < Len(wire)
  /\ LET w == wire[taken + 1]
         n == LengthBytes(Rem(w.packet))
     IN  /\ header = 16 * w.packet.type
         /\ Len(field) <= n
         /\ \A i \in 1..Len(field) : field[i] = MQTTPacket_encode(Rem(w.packet))[i]
         /\ pos = w.start + 1 + Len(field)
         /\ pc = "body" => Len(field) = n

StepInv ==
  /\ taken \in Nat
  /\ ~failed =>
       /\ taken <= Len(wire)
       /\ taken > 0 => last = wire[taken].packet
       /\ pc \in {"idle", "header"} => pos = Boundary
       /\ pc \in {"length", "body"} => Reading
       /\ pc # "size"

\* A length is the sum of its digits, of seven bits each; and has as many as its field
\* has bytes.
Digit(n, i) == ((n \div Weight[i]) % 128) * Weight[i]

LEMMA Digits ==
  ASSUME NEW n \in Nat, n <= MaxLength
  PROVE  /\ LengthBytes(n) = 1 => n = Digit(n, 1)
         /\ LengthBytes(n) = 2 => n = Digit(n, 1) + Digit(n, 2)
         /\ LengthBytes(n) = 3 => n = Digit(n, 1) + Digit(n, 2) + Digit(n, 3)
         /\ LengthBytes(n) = 4 => n = Digit(n, 1) + Digit(n, 2) + Digit(n, 3) + Digit(n, 4)
<1>1. /\ Digit(n, 1) = (n \div 1) % 128
      /\ Digit(n, 2) = ((n \div 128) % 128) * 128
      /\ Digit(n, 3) = ((n \div 16384) % 128) * 16384
      /\ Digit(n, 4) = ((n \div 2097152) % 128) * 2097152
  BY SMT DEF Digit, Weight
<1>2. /\ LengthBytes(n) = 1 => n < 128
      /\ LengthBytes(n) = 2 => n < 16384
      /\ LengthBytes(n) = 3 => n < 2097152
      /\ n < 268435456
  BY SMT DEF LengthBytes, MaxLength
<1> DEFINE q1 == n \div 128
           q2 == q1 \div 128
           q3 == q2 \div 128
<1>3. ASSUME NEW m \in Nat
      PROVE  /\ m \div 128 \in Nat /\ m % 128 \in 0..127 /\ m = 128 * (m \div 128) + (m % 128)
             /\ m < 128 => m % 128 = m
  OBVIOUS
<1>4. q1 \in Nat /\ q2 \in Nat /\ q3 \in Nat
  BY <1>3
<1>5. n = 128 * q1 + (n % 128) /\ q1 = 128 * q2 + (q1 % 128) /\ q2 = 128 * q3 + (q2 % 128)
      /\ n % 128 \in 0..127 /\ q1 % 128 \in 0..127 /\ q2 % 128 \in 0..127
  BY <1>3, <1>4
<1> DEFINE r0 == n % 128
           r1 == q1 % 128
           r2 == q2 % 128
<1> HIDE DEF q1, q2, q3, r0, r1, r2
<1>6. n \div 16384 = q2 /\ n \div 2097152 = q3
  BY <1>4, <1>5, SMT DEF r0, r1, r2
<1>7. /\ Digit(n, 1) = r0 /\ Digit(n, 2) = r1 * 128
      /\ Digit(n, 3) = r2 * 16384 /\ Digit(n, 4) = (q3 % 128) * 2097152
  BY <1>1, <1>6, SMT DEF q1, r0, r1, r2
<1>8. n = r0 + 128 * q1 /\ q1 = r1 + 128 * q2 /\ q2 = r2 + 128 * q3
      /\ r0 \in 0..127 /\ r1 \in 0..127 /\ r2 \in 0..127
  BY <1>5, <1>4, SMT DEF r0, r1, r2
<1>9. q3 < 128 => q3 % 128 = q3
  BY <1>3, <1>4
<1> QED BY <1>2, <1>4, <1>7, <1>8, <1>9, SMT

\* The field that encodes a length is decoded to it.
LEMMA DecodeEncode ==
  ASSUME NEW n \in Nat, n <= MaxLength, NEW f \in Seq(Nat), Len(f) = LengthBytes(n),
         \A i \in 1..Len(f) : f[i] = MQTTPacket_encode(n)[i]
  PROVE  MQTTPacket_decode(f) = n
<1> DEFINE Part(i) == IF i <= Len(f) THEN (f[i] % 128) * Weight[i] ELSE 0
<1>1. ASSUME NEW d \in Nat, NEW c \in {0, 128}
      PROVE  ((d % 128) + c) % 128 = d % 128
  OBVIOUS
<1>2. Len(f) \in 1..4
  BY LengthBytesRange
<1>3. ASSUME NEW i \in 1..Len(f)
      PROVE  Part(i) = Digit(n, i) /\ Digit(n, i) \in Nat
  <2>1. n \div Weight[i] \in Nat /\ Weight[i] \in Nat
    <3>1. i \in 1..4
      BY <1>2
    <3> QED BY <3>1, WeightDivides
  <2>2. f[i] = ((n \div Weight[i]) % 128) + (IF i < LengthBytes(n) THEN 128 ELSE 0)
    BY DEF MQTTPacket_encode
  <2>3. (IF i < LengthBytes(n) THEN 128 ELSE 0) \in {0, 128}
    OBVIOUS
  <2>4. f[i] % 128 = (n \div Weight[i]) % 128
    BY <1>1, <2>1, <2>2, <2>3
  <2>5. Part(i) = Digit(n, i)
    BY <2>4 DEF Digit
  <2>6. (n \div Weight[i]) % 128 \in Nat
    BY <2>1
  <2>7. ((n \div Weight[i]) % 128) * Weight[i] \in Nat
    BY <2>1, <2>6
  <2> QED BY <2>5, <2>7 DEF Digit
<1>4. MQTTPacket_decode(f) = Part(1) + Part(2) + Part(3) + Part(4)
  BY DEF MQTTPacket_decode
<1>5. ASSUME NEW i \in 1..4, i > Len(f)
      PROVE  Part(i) = 0
  BY <1>2, <1>5
<1> HIDE DEF Part
<1>6. CASE Len(f) = 1
  <2>1. Part(1) = Digit(n, 1) /\ Part(2) = 0 /\ Part(3) = 0 /\ Part(4) = 0
        /\ Digit(n, 1) \in Nat
    BY <1>3, <1>5, <1>6
  <2>2. MQTTPacket_decode(f) = Digit(n, 1)
    BY <1>4, <2>1
  <2> QED BY <1>6, <2>2, Digits
<1>7. CASE Len(f) = 2
  <2>1. Part(1) = Digit(n, 1) /\ Part(2) = Digit(n, 2) /\ Part(3) = 0 /\ Part(4) = 0
        /\ Digit(n, 1) \in Nat /\ Digit(n, 2) \in Nat
    BY <1>3, <1>5, <1>7
  <2>2. MQTTPacket_decode(f) = Digit(n, 1) + Digit(n, 2)
    BY <1>4, <2>1
  <2> QED BY <1>7, <2>2, Digits
<1>8. CASE Len(f) = 3
  <2>1. Part(1) = Digit(n, 1) /\ Part(2) = Digit(n, 2) /\ Part(3) = Digit(n, 3) /\ Part(4) = 0
        /\ Digit(n, 1) \in Nat /\ Digit(n, 2) \in Nat /\ Digit(n, 3) \in Nat
    BY <1>3, <1>5, <1>8
  <2>2. MQTTPacket_decode(f) = Digit(n, 1) + Digit(n, 2) + Digit(n, 3)
    BY <1>4, <2>1
  <2> QED BY <1>8, <2>2, Digits
<1>9. CASE Len(f) = 4
  <2>1. Part(1) = Digit(n, 1) /\ Part(2) = Digit(n, 2) /\ Part(3) = Digit(n, 3)
        /\ Part(4) = Digit(n, 4)
    BY <1>3, <1>9
  <2> QED BY <1>4, <1>9, <2>1, Digits
<1> QED BY <1>2, <1>6, <1>7, <1>8, <1>9

\* A place within the packet that is next, counted from its first byte.
LEMMA NextByte ==
  ASSUME StreamInv, taken \in Nat, taken < Len(wire), NEW i \in 1..Size(wire[taken + 1].packet)
  PROVE  ByteAt(wire[taken + 1].start + i) = PacketByte(wire[taken + 1].packet, i)
<1>1. Len(wire) \in Nat
  BY DEF StreamInv
<1>2. taken + 1 \in 1..Len(wire)
  BY <1>1
<1> DEFINE w == wire[taken + 1]
           q == w.start + i
<1>3. w.start \in Nat /\ Size(w.packet) \in Nat
  BY <1>2, ItemFacts
<1>4. q \in Nat /\ w.start < q /\ q <= w.start + Size(w.packet) /\ q - w.start = i
  BY <1>3
<1> HIDE DEF q
<1>5. ByteAt(q) = PacketByte(w.packet, q - w.start)
  BY <1>2, <1>4, ByteAtPacket DEF End
<1> QED BY <1>4, <1>5 DEF q

LEMMA StepHeader ==
  ASSUME WellFormed, FieldInv, StepInv, ReadHeader
  PROVE  StepInv'
<1>1. taken' = taken /\ last' = last /\ failed' = failed /\ wire' = wire /\ pc = "header"
  BY DEF ReadHeader, past
<1>2. Boundary' = Boundary
  BY <1>1 DEF Boundary, Total
<1>3. CASE failed
  BY <1>1, <1>3 DEF StepInv
<1>4. CASE ~failed /\ ~SomethingThere
  <2>1. pc' = "idle" /\ pos' = pos
    BY <1>4 DEF ReadHeader, AfterFailure
  <2> QED BY <1>1, <1>2, <1>4, <2>1 DEF StepInv
<1>5. CASE ~failed /\ SomethingThere
  <2>1. pos' = pos + 1 /\ header' = ByteAt(pos + 1) /\ field' = <<>> /\ pc' = "length"
    BY <1>5 DEF ReadHeader
  <2>2. pos = Boundary /\ taken <= Len(wire) /\ taken \in Nat
    BY <1>1, <1>5 DEF StepInv
  <2>3. pos < Total /\ Total \in Nat /\ Len(wire) \in Nat /\ pos \in Nat
    BY <1>5, TotalNat DEF SomethingThere, FieldInv, StreamInv
  <2>4. taken < Len(wire) /\ pos = wire[taken + 1].start
    BY <2>2, <2>3 DEF Boundary
  <2>5. wire[taken + 1].packet \in Packets
    BY <2>2, <2>3, <2>4, ItemFacts DEF FieldInv
  <2>6. 1 \in 1..Size(wire[taken + 1].packet) /\ LengthBytes(Rem(wire[taken + 1].packet)) >= 0
    BY <2>5, PacketFacts
  <2>7. header' = 16 * wire[taken + 1].packet.type
    BY <2>1, <2>2, <2>4, <2>6, NextByte DEF PacketByte, FieldInv
  <2>8. Reading'
    BY <1>1, <2>1, <2>3, <2>4, <2>6, <2>7 DEF Reading
  <2> QED BY <1>1, <2>1, <2>2, <2>8 DEF StepInv
<1> QED BY <1>3, <1>4, <1>5

LEMMA StepDecode ==
  ASSUME WellFormed, FieldInv, StepInv, decodePacket
  PROVE  StepInv'
<1>1. taken' = taken /\ last' = last /\ header' = header /\ wire' = wire /\ pc = "length"
      /\ ~LengthDone
  BY DEF decodePacket
<1>2. CASE failed' 
  BY <1>1, <1>2 DEF StepInv
<1>3. CASE ~failed'
  <2>1. SomethingThere /\ pos' = pos + 1 /\ field' = Append(field, ByteAt(pos + 1))
        /\ pc' = pc /\ failed' = failed
    BY <1>3 DEF decodePacket
  <2>2. Reading /\ taken <= Len(wire) /\ taken \in Nat /\ Len(wire) \in Nat
    BY <1>1, <1>3, <2>1 DEF StepInv, FieldInv, StreamInv
  <2> DEFINE w == wire[taken + 1]
             n == LengthBytes(Rem(w.packet))
             code == MQTTPacket_encode(Rem(w.packet))
  <2>3. taken < Len(wire) /\ taken + 1 \in 1..Len(wire)
    BY <2>2 DEF Reading
  <2>4. w.packet \in Packets /\ w.start \in Nat
    BY <2>3, ItemFacts DEF FieldInv
  <2>5. n \in 1..4 /\ Rem(w.packet) \in Nat /\ Size(w.packet) = 1 + n + Rem(w.packet)
    BY <2>4, PacketFacts
  <2>6. header = 16 * w.packet.type /\ Len(field) <= n
        /\ \A i \in 1..Len(field) : field[i] = code[i]
    BY <2>2 DEF Reading
  <2>7. pos = w.start + 1 + Len(field)
    BY <2>2 DEF Reading
  <2>8. field \in Seq(Nat) /\ Len(field) \in Nat
    BY DEF FieldInv
  <2> HIDE DEF w, n, code
  <2>9. Len(field) < n
    <3>1. CASE field = <<>>
      BY <2>5, <3>1
    <3>2. CASE field # <<>>
      <4>1. More(field[Len(field)])
        BY <1>1, <3>2 DEF LengthDone
      <4>2. Len(field) \in 1..Len(field)
        BY <2>8, <3>2, EmptySeq
      <4>3. field[Len(field)] = code[Len(field)] /\ Len(field) \in 1..n
        BY <2>5, <2>6, <4>2
      <4> QED BY <2>5, <4>1, <4>3, EncodeRange DEF n, code
    <3> QED BY <3>1, <3>2
  <2> DEFINE i == Len(field) + 2
  <2>10. i \in 1..Size(w.packet) /\ i # 1 /\ i <= 1 + n /\ i - 1 = Len(field) + 1
    BY <2>5, <2>8, <2>9
  <2>11. pos + 1 = w.start + i
    BY <2>4, <2>8, <2>7
  <2> HIDE DEF i
  <2>12. ByteAt(pos + 1) = PacketByte(w.packet, i)
    BY <2>2, <2>3, <2>10, <2>11, NextByte DEF FieldInv, w
  <2>13. ByteAt(pos + 1) = code[Len(field) + 1]
    BY <2>10, <2>12 DEF PacketByte, n, code
  <2>14. /\ Len(field') = Len(field) + 1 /\ Len(field') <= n
         /\ \A j \in 1..Len(field') : field'[j] = code[j]
    <3>1. Len(field') = Len(field) + 1 /\ field'[Len(field) + 1] = ByteAt(pos + 1)
          /\ \A j \in 1..Len(field) : field'[j] = field[j]
      BY <2>1, <2>8
    <3>2. Len(field') <= n
      BY <2>5, <2>8, <2>9, <3>1
    <3>3. ASSUME NEW j \in 1..Len(field')
          PROVE  field'[j] = code[j]
      <4>1. CASE j = Len(field) + 1
        BY <2>13, <3>1, <4>1
      <4>2. CASE j \in 1..Len(field)
        BY <2>6, <3>1, <4>2
      <4> QED BY <2>8, <3>1, <4>1, <4>2
    <3> QED BY <3>1, <3>2, <3>3
  <2>15. pos' = w.start + 1 + Len(field')
    <3>1. pos' = pos + 1 /\ Len(field') = Len(field) + 1
      BY <2>1, <2>14
    <3>2. pos + 1 = w.start + 1 + (Len(field) + 1)
      BY <2>4, <2>8, <2>7
    <3> QED BY <3>1, <3>2
  <2>16. Reading'
    BY <1>1, <2>1, <2>3, <2>6, <2>14, <2>15 DEF Reading, w, n, code
  <2> QED BY <1>1, <1>3, <2>1, <2>2, <2>16 DEF StepInv
<1> QED BY <1>2, <1>3

LEMMA StepSize ==
  ASSUME WellFormed, FieldInv, StepInv, CheckSize
  PROVE  StepInv'
<1>1. taken' = taken /\ last' = last /\ header' = header /\ wire' = wire /\ field' = field
      /\ pos' = pos /\ failed' = (failed \/ TooLong)
      /\ pc' = (IF TooLong THEN AfterFailure ELSE "body")
  BY DEF CheckSize, stream
<1>2. CASE failed \/ TooLong
  BY <1>1, <1>2 DEF StepInv
<1>3. CASE ~failed /\ ~TooLong
  <2>1. pc = "length" /\ LengthDone /\ pc' = "body"
    BY <1>1, <1>3 DEF CheckSize, StepInv
  <2>2. Reading /\ taken <= Len(wire) /\ taken \in Nat /\ Len(wire) \in Nat
    BY <1>3, <2>1 DEF StepInv, FieldInv, StreamInv
  <2> DEFINE p == wire[taken + 1].packet
  <2>3. taken < Len(wire) /\ taken + 1 \in 1..Len(wire)
    BY <2>2 DEF Reading
  <2>4. p \in Packets
    BY <2>3, ItemFacts DEF FieldInv
  <2>5. LengthBytes(Rem(p)) \in 1..4 /\ Rem(p) \in Nat
    BY <2>4, PacketFacts
  <2>6. Len(field) \in 1..Len(field) /\ Len(field) \in Nat
    BY <2>1, EmptySeq DEF LengthDone, FieldInv
  <2>7. Len(field) <= LengthBytes(Rem(p)) /\ field[Len(field)] = MQTTPacket_encode(Rem(p))[Len(field)]
    BY <2>2, <2>6 DEF Reading
  <2> HIDE DEF p
  <2>8. Len(field) = LengthBytes(Rem(p))
    <3>1. Len(field) \in 1..LengthBytes(Rem(p))
      BY <2>5, <2>6, <2>7
    <3>2. More(field[Len(field)]) <=> Len(field) < LengthBytes(Rem(p))
      BY <2>5, <2>7, <3>1, EncodeRange
    <3> QED BY <2>1, <2>5, <2>6, <2>7, <3>2 DEF LengthDone
  <2>9. Reading'
    BY <1>1, <2>2, <2>8 DEF Reading, p
  <2> QED BY <1>1, <1>3, <2>1, <2>2, <2>9 DEF StepInv
<1> QED BY <1>2, <1>3

\* What cycle() makes of the packet is what the broker sent.
LEMMA ReadIsPacket ==
  ASSUME WellFormed, FieldInv, taken \in Nat, taken < Len(wire), Reading, pc = "body"
  PROVE  /\ Remaining = Rem(wire[taken + 1].packet)
         /\ Read = wire[taken + 1].packet
<1> DEFINE w == wire[taken + 1]
           p == w.packet
           n == LengthBytes(Rem(p))
<1>1. taken + 1 \in 1..Len(wire)
  BY DEF FieldInv, StreamInv
<1>2. p \in Packets /\ w.start \in Nat
  BY <1>1, ItemFacts DEF FieldInv
<1>3. p \in [type : 1..15, topic : Nat, rest : Nat]
  BY <1>2, StreamAssumption
<1>4. p.topic < 65536 /\ Rem(p) <= MaxLength /\ (p.type # PUBLISH => p.topic = 0)
  BY <1>2 DEF WellFormed
<1>5. n \in 1..4 /\ Rem(p) \in Nat /\ Size(p) = 1 + n + Rem(p)
  BY <1>2, PacketFacts
<1>6. Len(field) = n /\ \A i \in 1..Len(field) : field[i] = MQTTPacket_encode(Rem(p))[i]
  BY DEF Reading
<1>7. pos = w.start + 1 + Len(field)
  BY DEF Reading
<1>8. header = 16 * p.type
  BY DEF Reading
<1>9. Remaining = Rem(p)
  BY <1>4, <1>5, <1>6, DecodeEncode DEF Remaining, FieldInv
<1>10. header \div 16 = p.type
  <2>1. p.type \in 1..15
    BY <1>3
  <2>2. ASSUME NEW t \in 1..15
        PROVE  (16 * t) \div 16 = t
    OBVIOUS
  <2> QED BY <1>8, <2>1, <2>2
<1> DEFINE t == p.topic
<1>11. t \in Nat /\ p.rest \in Nat /\ p = [type |-> p.type, topic |-> t, rest |-> p.rest]
  BY <1>3
<1>12. CASE p.type # PUBLISH
  <2>1. Rem(p) = p.rest
    BY <1>11, <1>12 DEF Rem
  <2>2. Read = [type |-> p.type, topic |-> 0, rest |-> Remaining]
    BY <1>10, <1>12 DEF Read
  <2> QED BY <1>4, <1>9, <1>11, <1>12, <2>1, <2>2
<1>13. CASE p.type = PUBLISH
  <2>1. Rem(p) = 2 + t + p.rest
    BY <1>13 DEF Rem
  <2>2. 2 + n \in 1..Size(p) /\ 3 + n \in 1..Size(p)
    <3>1. Rem(p) >= 2
      BY <1>11, <2>1
    <3> HIDE DEF n, p
    <3> QED BY <1>5, <3>1
  <2>3. pos + 1 = w.start + (2 + n) /\ pos + 2 = w.start + (3 + n)
    BY <1>2, <1>5, <1>6, <1>7
  <2>4. ByteAt(pos + 1) = PacketByte(p, 2 + n)
    BY <2>2, <2>3, NextByte DEF FieldInv
  <2>5. ByteAt(pos + 2) = PacketByte(p, 3 + n)
    BY <2>2, <2>3, NextByte DEF FieldInv
  <2> DEFINE m == MQTTDeserialize_publish(0, TopicLength, Remaining)
  <2>6. Read = IF Remaining <= 1 THEN Nothing
               ELSE IF m.rc THEN [type |-> p.type, topic |-> m.topic, rest |-> m.payload]
               ELSE Nothing
    BY <1>10, <1>13 DEF Read
  <2>7. m.rc = readMQTTLenString(TopicLength, Remaining) /\ m.topic = TopicLength
        /\ m.payload = Remaining - 2 - TopicLength - 0
    BY DEF MQTTDeserialize_publish
  <2> HIDE DEF w, p, n, t, m
  <2>8. PacketByte(p, 2 + n) = t \div 256
    BY <1>5, <1>13 DEF PacketByte, n, p, t
  <2>9. PacketByte(p, 3 + n) = t % 256
    BY <1>5, <1>13 DEF PacketByte, n, p, t
  <2>10. TopicLength = t
    <3>1. 256 * (t \div 256) + (t % 256) = t
      BY <1>11
    <3> QED BY <2>4, <2>5, <2>8, <2>9, <3>1 DEF TopicLength
  <2>11. Remaining = 2 + t + p.rest
    BY <1>9, <2>1
  <2>12. m.rc /\ m.topic = t /\ m.payload = p.rest /\ Remaining > 1
    <3>1. ASSUME NEW r \in Nat
          PROVE  readMQTTLenString(t, 2 + t + r) /\ 2 + t + r - 2 - t - 0 = r /\ 2 + t + r > 1
      BY <1>11 DEF readMQTTLenString
    <3>2. p.rest \in Nat
      BY <1>11
    <3>3. readMQTTLenString(t, 2 + t + p.rest) /\ 2 + t + p.rest - 2 - t - 0 = p.rest
          /\ 2 + t + p.rest > 1
      BY <3>1, <3>2
    <3>4. m.rc = readMQTTLenString(t, 2 + t + p.rest)
      BY <2>7, <2>10, <2>11, Zenon
    <3>5. m.rc /\ m.topic = t
      BY <2>7, <2>10, <3>3, <3>4, Zenon
    <3>6. m.payload = p.rest /\ Remaining > 1
      <4>1. Remaining - 2 - TopicLength - 0 = 2 + t + p.rest - 2 - t - 0
        <5>1. t \in Nat /\ Remaining \in Nat
          BY <1>11, <2>11
        <5> QED BY <2>10, <2>11, <3>2, <5>1
      <4>2. m.payload = Remaining - 2 - TopicLength - 0
        BY <2>7
      <4> QED BY <2>11, <3>3, <4>1, <4>2, Zenon
    <3> QED BY <3>5, <3>6
  <2>13. Read = [type |-> p.type, topic |-> t, rest |-> p.rest]
    BY <1>11, <2>6, <2>11, <2>12
  <2> QED BY <1>9, <1>11, <2>13 DEF p, w
<1> QED BY <1>12, <1>13

LEMMA StepBody ==
  ASSUME WellFormed, FieldInv, StepInv, ReadBody
  PROVE  StepInv'
<1>1. failed' = failed /\ wire' = wire /\ pc = "body" /\ pc' \in {"header", "idle"}
      /\ pos' = pos + Remaining
      /\ taken' = (IF failed THEN 0 ELSE taken + 1)
      /\ last' = (IF failed THEN Nothing ELSE Read)
  BY DEF ReadBody
<1>2. CASE failed
  BY <1>1, <1>2 DEF StepInv
<1>3. CASE ~failed
  <2>1. Reading /\ taken \in Nat
    BY <1>1, <1>3 DEF StepInv
  <2>2. taken < Len(wire) /\ Len(wire) \in Nat
    BY <2>1 DEF Reading, FieldInv, StreamInv
  <2> DEFINE w == wire[taken + 1]
  <2>3. Remaining = Rem(w.packet) /\ Read = w.packet
    BY <1>1, <2>1, <2>2, ReadIsPacket
  <2>4. taken + 1 \in 1..Len(wire)
    BY <2>1, <2>2
  <2>5. w.packet \in Packets /\ w.start \in Nat
    BY <2>4, ItemFacts DEF FieldInv
  <2>6. LengthBytes(Rem(w.packet)) \in 1..4 /\ Rem(w.packet) \in Nat
        /\ Size(w.packet) = 1 + LengthBytes(Rem(w.packet)) + Rem(w.packet)
    BY <2>5, PacketFacts
  <2>7. pos = w.start + 1 + Len(field) /\ Len(field) = LengthBytes(Rem(w.packet))
    BY <1>1, <2>1 DEF Reading
  <2>8. pos' = End(w)
    BY <1>1, <2>3, <2>5, <2>6, <2>7 DEF End
  <2>9. taken' = taken + 1 /\ last' = w.packet
    BY <1>1, <1>3, <2>3
  <2>10. Boundary' = End(w)
    <3>1. Boundary' = IF taken + 1 < Len(wire) THEN wire[taken + 2].start ELSE Total
      BY <1>1, <2>1, <2>9 DEF Boundary, Total
    <3>2. CASE taken + 1 < Len(wire)
      <4>1. taken + 1 + 1 <= Len(wire) /\ taken + 1 + 1 = taken + 2
        BY <2>1, <2>2, <3>2
      <4>2. wire[taken + 1 + 1].start = End(w)
        BY <2>4, <4>1 DEF FieldInv, StreamInv
      <4> QED BY <3>1, <3>2, <4>1, <4>2
    <3>3. CASE ~(taken + 1 < Len(wire))
      <4>1. taken + 1 = Len(wire) /\ wire # <<>>
        BY <2>1, <2>2, <3>3, EmptySeq
      <4>2. Total = End(w)
        BY <4>1 DEF Total, End
      <4> QED BY <3>1, <3>3, <4>2
    <3> QED BY <3>2, <3>3
  <2> QED BY <1>1, <2>1, <2>2, <2>4, <2>8, <2>9, <2>10 DEF StepInv
<1> QED BY <1>2, <1>3

LEMMA StepBroker ==
  ASSUME WellFormed, FieldInv, StepInv, BrokerSends
  PROVE  StepInv'
<1>1. taken' = taken /\ last' = last /\ failed' = failed /\ pos' = pos /\ pc' = pc
      /\ header' = header /\ field' = field
  BY DEF BrokerSends, input, past
<1>2. CASE failed
  BY <1>1, <1>2 DEF StepInv
<1>3. CASE ~failed
  <2>1. PICK p \in Packets : wire' = Append(wire, [packet |-> p, start |-> Total])
    BY DEF BrokerSends
  <2>2. wire \in Seq(Items) /\ Len(wire) \in Nat /\ Total \in Nat
    BY TotalNat DEF FieldInv, StreamInv
  <2>3. [packet |-> p, start |-> Total] \in Items
    BY <2>2 DEF Items
  <2>4. Len(wire') = Len(wire) + 1 /\ (\A k \in 1..Len(wire) : wire'[k] = wire[k])
        /\ wire'[Len(wire) + 1].start = Total
    BY <2>1, <2>2, <2>3
  <2>5. taken \in Nat /\ taken <= Len(wire)
    BY <1>3 DEF StepInv
  <2>6. Boundary' = Boundary
    <3>1. CASE taken < Len(wire)
      <4>1. taken + 1 \in 1..Len(wire) /\ taken < Len(wire')
        BY <2>2, <2>4, <2>5, <3>1
      <4> QED BY <1>1, <2>4, <3>1, <4>1 DEF Boundary
    <3>2. CASE taken = Len(wire)
      <4>1. taken < Len(wire') /\ ~(taken < Len(wire))
        BY <2>2, <2>4, <3>2
      <4> QED BY <1>1, <2>4, <3>2, <4>1 DEF Boundary
    <3> QED BY <2>2, <2>5, <3>1, <3>2
  <2>7. Reading => Reading'
    <3> SUFFICES ASSUME Reading PROVE Reading'
      OBVIOUS
    <3>1. taken < Len(wire)
      BY DEF Reading
    <3>2. taken + 1 \in 1..Len(wire) /\ taken < Len(wire')
      BY <2>2, <2>4, <2>5, <3>1
    <3>3. wire'[taken + 1] = wire[taken + 1]
      BY <2>4, <3>2
    <3> QED BY <1>1, <3>2, <3>3 DEF Reading
  <2>8. taken > 0 => wire'[taken] = wire[taken]
    BY <2>2, <2>4, <2>5
  <2>9. taken <= Len(wire')
    BY <2>2, <2>4, <2>5
  <2> QED BY <1>1, <1>3, <2>6, <2>7, <2>8, <2>9 DEF StepInv
<1> QED BY <1>2, <1>3

LEMMA StepNext ==
  ASSUME WellFormed, FieldInv, StepInv, [Next]_vars
  PROVE  StepInv'
<1>1. CASE BrokerSends
  BY <1>1, StepBroker
<1>2. CASE Connects
  <2>1. pc' = "idle" /\ taken' = 0 /\ pos' = 0 /\ wire' = <<>>
    BY <1>2 DEF Connects, input
  <2>2. Boundary' = 0 /\ Len(wire') = 0
    BY <2>1 DEF Boundary, Total
  <2> QED BY <2>1, <2>2 DEF StepInv
<1>3. CASE ReadHeader
  BY <1>3, StepHeader
<1>4. CASE decodePacket
  BY <1>4, StepDecode
<1>5. CASE CheckSize
  BY <1>5, StepSize
<1>6. CASE ReadBody
  BY <1>6, StepBody
<1>7. CASE BodyTimeout
  BY <1>7 DEF BodyTimeout, StepInv
<1>8. CASE Arrives \/ ConnectionEnds \/ yield \/ send \/ UNCHANGED vars
  <2>1. /\ taken' = taken /\ last' = last /\ failed' = failed /\ pos' = pos /\ wire' = wire
        /\ header' = header /\ field' = field
        /\ pc' = pc \/ (pc = "idle" /\ pc' = "header")
    BY <1>8 DEF Arrives, ConnectionEnds, yield, send, vars, input, past, stream
  <2>2. Boundary' = Boundary
    BY <2>1 DEF Boundary, Total
  <2>3. pc' \in {"length", "body"} /\ Reading => Reading'
    BY <2>1 DEF Reading
  <2> QED BY <2>1, <2>2, <2>3 DEF StepInv
<1> QED BY <1>1, <1>2, <1>3, <1>4, <1>5, <1>6, <1>7, <1>8 DEF Next, cycle

\* As long as no read within a packet has failed the client takes exactly the packets of
\* the broker, however their bytes are cut: for every sequence of packets of any size.
THEOREM InStepSafe ==
  ASSUME WellFormed
  PROVE  Spec => []InStep
<1>1. Init => StepInv
  <2> SUFFICES ASSUME Init PROVE StepInv
    OBVIOUS
  <2>1. Boundary = 0 /\ Len(wire) = 0
    BY DEF Init, Boundary, Total
  <2> QED BY <2>1 DEF Init, StepInv
<1>2. FieldInv /\ StepInv /\ [Next]_vars => StepInv'
  BY StepNext
<1>3. StepInv => InStep
  BY DEF StepInv, InStep, Boundary
<1> QED BY <1>1, <1>2, <1>3, FieldSafe, PTL DEF Spec
=============================================================================
