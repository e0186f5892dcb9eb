----------------------------- MODULE MqttPacket -----------------------------
(***************************************************************************)
(* The packet codes of the MQTT client: the field that tells the remaining  *)
(* length, the serializers and the deserializers, with the bytes of texts   *)
(* left out.  A serializer is what it announces (rem), what it writes       *)
(* behind the length field (bytes) and what it returns (rc).                *)
(***************************************************************************)
EXTENDS Integers, Sequences

BufferTooShort == -2        \* MQTTPACKET_BUFFER_TOO_SHORT

-----------------------------------------------------------------------------
(* The remaining length                                                    *)

MaxLength == 268435455      \* of four bytes
Weight == <<1, 128, 16384, 2097152>>

LengthBytes(n) ==
  IF n < 128 THEN 1 ELSE IF n < 16384 THEN 2 ELSE IF n < 2097152 THEN 3 ELSE 4

\* Seven bits a byte, lowest first; the top bit says that more follow.
MQTTPacket_encode(n) ==
  [i \in 1..LengthBytes(n) |->
     ((n \div Weight[i]) % 128) + (IF i < LengthBytes(n) THEN 128 ELSE 0)]

More(c) == c >= 128

\* The value of a field of at most four bytes.
MQTTPacket_decode(field) ==
  LET Part(i) == IF i <= Len(field) THEN (field[i] % 128) * Weight[i] ELSE 0
  IN  Part(1) + Part(2) + Part(3) + Part(4)

\* Mutant: the header byte is forgotten.
Mut_len(rem) == rem + LengthBytes(rem)

\* The size of a packet, or one more where header byte and length together reach a
\* limit that the length alone does not: it is added before the comparison.
MQTTPacket_len(rem) ==
  rem + 1 + (IF rem + 1 < 128 THEN 1
             ELSE IF rem + 1 < 16384 THEN 2
             ELSE IF rem + 1 < 2097151 THEN 3 ELSE 4)

-----------------------------------------------------------------------------
(* Texts.  An MQTTString points to a C string, to bytes with a length, or   *)
(* to nothing; Null is the length of a C string that there is not.          *)

Null == -1
Text(s) == [cstring |-> s, len |-> 0]

\* The C string comes first here ...
MQTTstrlen(s) == IF s.cstring # Null THEN s.cstring ELSE s.len

\* ... and the bytes with a length come first here.
writeMQTTString(s) == 2 + (IF s.len > 0 THEN s.len
                           ELSE IF s.cstring # Null THEN s.cstring ELSE 0)

Present(s) == s.cstring # Null \/ s.len > 0

-----------------------------------------------------------------------------
(* Serializers                                                             *)

Serialized(rem, bytes, buflen) ==
  [rem |-> rem, bytes |-> bytes,
   rc |-> IF MQTTPacket_len(rem) > buflen THEN BufferTooShort
          ELSE 1 + LengthBytes(rem) + bytes]

MQTTSerialize_publish(qos, topic, payload, buflen) ==
  LET id == IF qos > 0 THEN 2 ELSE 0
  IN  Serialized(2 + MQTTstrlen(topic) + payload + id,
                 writeMQTTString(topic) + id + payload, buflen)

OptionalLength(s) == IF Present(s) THEN MQTTstrlen(s) + 2 ELSE 0
OptionalBytes(s)  == IF Present(s) THEN writeMQTTString(s) ELSE 0

\* Protocol name and level, flags, keep-alive; then the texts.
MQTTSerialize_connectLength(o) ==
  (IF o.MQTTVersion = 3 THEN 12 ELSE IF o.MQTTVersion = 4 THEN 10 ELSE 0)
     + MQTTstrlen(o.clientID) + 2
     + (IF o.willFlag THEN MQTTstrlen(o.topic) + 2 + MQTTstrlen(o.message) + 2 ELSE 0)
     + OptionalLength(o.username) + OptionalLength(o.password)

\* "MQTT" or "MQIsdp" as a text, and four bytes more.
connectBytes(o) ==
  (IF o.MQTTVersion = 4 THEN 2 + 4 ELSE 2 + 6) + 1 + 1 + 2
     + writeMQTTString(o.clientID)
     + (IF o.willFlag THEN writeMQTTString(o.topic) + writeMQTTString(o.message) ELSE 0)
     + OptionalBytes(o.username) + OptionalBytes(o.password)

MQTTSerialize_connect(o, buflen) ==
  Serialized(MQTTSerialize_connectLength(o), connectBytes(o), buflen)

\* The client subscribes to one filter at a time.
MQTTSerialize_subscribe(topic, buflen) ==
  Serialized(2 + 2 + MQTTstrlen(topic) + 1, 2 + writeMQTTString(topic) + 1, buflen)
MQTTSerialize_unsubscribe(topic, buflen) ==
  Serialized(2 + 2 + MQTTstrlen(topic), 2 + writeMQTTString(topic), buflen)

\* These two compare the size with a number.
MQTTSerialize_zero(buflen) ==
  [rem |-> 0, bytes |-> 0, rc |-> IF buflen < 2 THEN BufferTooShort ELSE 2]
MQTTSerialize_ack(buflen) ==
  [rem |-> 2, bytes |-> 2, rc |-> IF buflen < 4 THEN BufferTooShort ELSE 4]

-----------------------------------------------------------------------------
(* Deserializers, of a packet whose first text says that it is topic long   *)

\* readMQTTLenString(): the length itself and the text must lie in the packet.
readMQTTLenString(topic, rem) == rem > 1 /\ 2 + topic <= rem

MQTTDeserialize_publish(qos, topic, rem) ==
  [rc |-> readMQTTLenString(topic, rem), topic |-> topic,
   payload |-> rem - 2 - topic - (IF qos > 0 THEN 2 ELSE 0)]
=============================================================================
