---------------------------- MODULE PacketStream ----------------------------
(***************************************************************************)
(* The MQTT client on its byte stream: yield() takes packets off a stream   *)
(* that delivers their bytes in pieces, and sends packets of its own.       *)
(* CloudSession lets packets arrive whole; this module shows when they may  *)
(* be taken to.                                                             *)
(*                                                                         *)
(* The broker's packets stand in wire, in order and for good; arrived and   *)
(* pos count the bytes that have come and that were read.  The texts of a   *)
(* packet consist of zeros ('0'), which is what a client reads that has     *)
(* lost the boundary between two packets.                                   *)
(***************************************************************************)
EXTENDS MqttPacket

CONSTANTS
  MaxPacketSize,    \* MAX_MQTT_PACKET_SIZE, of readbuf and sendbuf
  Packets,          \* what a broker sends: type, length of the topic and of the rest
  MaxPackets,       \* bound: on one connection
  Cuts,             \* bound: a stream pauses behind so many bytes of a packet, or at its end
  Texts             \* lengths of the topics and payloads that the client sends

ASSUME StreamAssumption ==
  /\ MaxPacketSize \in Nat \ (0..5) /\ MaxPackets \in Nat /\ Texts \subseteq Nat
  /\ Packets \subseteq [type : 1..15, topic : Nat, rest : Nat]
  /\ Cuts \subseteq Nat

PUBLISH == 3
Zero    == 48               \* '0'
Nothing == [type |-> 0, topic |-> 0, rest |-> 0]

VARIABLES
  wire, arrived, pos,       \* the stream
  open,                     \* has the broker not ended the connection?
  pc,                       \* the read that is next, or "idle": out of yield()
  header, field,            \* the header byte, the bytes of the length
  taken,                    \* history: packets taken since the connection was made,
  last,                     \* history: the last of them,
  failed,                   \* history: and has a read inside a packet failed?
  sent                      \* history: what was serialized last

stream == <<wire, arrived, pos, open>>
input  == <<pc, header, field>>
past   == <<taken, last, failed>>
vars   == <<stream, input, past, sent>>

-----------------------------------------------------------------------------
(* The bytes of the broker                                                 *)

\* A PUBLISH has its topic in front, behind two bytes with the length of that.
Rem(p)  == (IF p.type = PUBLISH THEN 2 + p.topic ELSE 0) + p.rest
Size(p) == 1 + LengthBytes(Rem(p)) + Rem(p)

Total == IF wire = <<>> THEN 0
         ELSE wire[Len(wire)].start + Size(wire[Len(wire)].packet)

ByteAt(q) ==
  LET w == CHOOSE w \in {wire[k] : k \in DOMAIN wire} :
             w.start < q /\ q <= w.start + Size(w.packet)
      p == w.packet
      n == LengthBytes(Rem(p))
      i == q - w.start
  IN  IF i = 1 THEN 16 * p.type
      ELSE IF i <= 1 + n THEN MQTTPacket_encode(Rem(p))[i - 1]
      ELSE IF p.type = PUBLISH /\ i = 2 + n THEN p.topic \div 256
      ELSE IF p.type = PUBLISH /\ i = 3 + n THEN p.topic % 256
      ELSE Zero

\* What is sent is forgotten with the next step.
Fresh == MQTTSerialize_zero(MaxPacketSize)

Init ==
  /\ wire = <<>> /\ arrived = 0 /\ pos = 0 /\ open = TRUE
  /\ pc = "idle" /\ header = 0 /\ field = <<>>
  /\ taken = 0 /\ last = Nothing /\ failed = FALSE
  /\ sent = Fresh

\* The client only sees when bytes arrive: the broker sends the next packet when all
\* have.
BrokerSends ==
  /\ open /\ arrived = Total /\ Len(wire) < MaxPackets
  /\ \E p \in Packets : wire' = Append(wire, [packet |-> p, start |-> Total])
  /\ sent' = Fresh
  /\ UNCHANGED <<arrived, pos, open, input, past>>

Arrives ==
  /\ open /\ arrived < Total
  /\ LET w == wire[Len(wire)] IN
     arrived' \in {n \in {w.start + c : c \in Cuts} \cup {Total} : arrived < n /\ n <= Total}
  /\ UNCHANGED <<wire, pos, open, input, past, sent>>

ConnectionEnds ==
  /\ open /\ open' = FALSE
  /\ sent' = Fresh
  /\ UNCHANGED <<wire, arrived, pos, input, past>>

\* poll() makes a new connection once it finds the old one closed and read up.
Connected == open \/ pos < arrived
Connects ==
  /\ pc = "idle" /\ ~Connected
  /\ wire' = <<>> /\ arrived' = 0 /\ pos' = 0 /\ open' = TRUE
  /\ taken' = 0 /\ last' = Nothing /\ failed' = FALSE
  /\ UNCHANGED <<input, sent>>

-----------------------------------------------------------------------------
(* readPacket(), and cycle(), which takes the packet.  Network::read() of a  *)
(* stream that has nothing just now returns 0 at once.                     *)

SomethingThere == pos < arrived

\* Mutant: yield() waits for the next packet.
Mut_Retry == "header"

\* Whatever failed, yield() returns FAILURE and the connection stays.
AfterFailure == "idle"

yield ==
  /\ pc = "idle" /\ pc' = "header"
  /\ sent' = Fresh
  /\ UNCHANGED <<stream, header, field, past>>

ReadHeader ==
  /\ pc = "header"
  /\ IF SomethingThere
     THEN pos' = pos + 1 /\ header' = ByteAt(pos + 1) /\ field' = <<>> /\ pc' = "length"
     ELSE pc' = AfterFailure /\ UNCHANGED <<pos, header, field>>
  /\ UNCHANGED <<wire, arrived, open, past, sent>>

\* Mutant: the weight of a byte is that of the first.
Mut_Remaining == IF field = <<>> THEN 0 ELSE field[1] % 128

Remaining == MQTTPacket_decode(field)

\* decodePacket() stops at a byte that says so, at the fourth, or when there is none;
\* readPacket() does not look why.
LengthDone == field # <<>> /\ (~More(field[Len(field)]) \/ Len(field) = 4)
decodePacket ==
  /\ pc = "length" /\ ~LengthDone
  /\ IF SomethingThere
     THEN /\ pos' = pos + 1 /\ field' = Append(field, ByteAt(pos + 1))
          /\ UNCHANGED <<pc, failed>>
     ELSE pc' = "size" /\ failed' = TRUE /\ UNCHANGED <<pos, field>>
  /\ UNCHANGED <<wire, arrived, open, header, taken, last, sent>>

TooLong == Remaining > MaxPacketSize - (1 + LengthBytes(Remaining))

\* BUFFER_OVERFLOW leaves the rest of the packet in the stream.
CheckSize ==
  /\ pc = "size" \/ (pc = "length" /\ LengthDone)
  /\ pc' = (IF TooLong THEN AfterFailure ELSE "body")
  /\ failed' = (failed \/ TooLong)
  /\ UNCHANGED <<stream, header, field, taken, last, sent>>

\* Type and lengths, as cycle() finds them; a PUBLISH that makes no sense is nothing.
TopicLength == 256 * ByteAt(pos + 1) + ByteAt(pos + 2)
Read ==
  LET type == header \div 16 IN
  IF type # PUBLISH THEN [type |-> type, topic |-> 0, rest |-> Remaining]
  ELSE IF Remaining <= 1 THEN Nothing
  ELSE LET m == MQTTDeserialize_publish(0, TopicLength, Remaining)
       IN  IF m.rc THEN [type |-> type, topic |-> m.topic, rest |-> m.payload] ELSE Nothing

\* The rest of the packet is there, or comes before the time is over.  yield() goes on
\* to the next packet unless its own time is over.
ReadBody ==
  /\ pc = "body" /\ Remaining <= arrived - pos
  /\ pos' = pos + Remaining
  /\ taken' = IF failed THEN 0 ELSE taken + 1
  /\ last' = IF failed THEN Nothing ELSE Read
  /\ pc' \in {"header", "idle"}
  /\ UNCHANGED <<wire, arrived, open, header, field, failed, sent>>

\* Nothing of it is there, or not all of it comes: what came is gone.
BodyTimeout ==
  /\ pc = "body" /\ Remaining > arrived - pos
  /\ pos' = arrived /\ failed' = TRUE
  /\ pc' = AfterFailure
  /\ UNCHANGED <<wire, arrived, open, header, field, taken, last, sent>>

cycle == ReadHeader \/ decodePacket \/ CheckSize \/ ReadBody \/ BodyTimeout

-----------------------------------------------------------------------------
(* What the client sends                                                   *)

Options(t, n, version) ==
  [MQTTVersion |-> version, clientID |-> Text(t), willFlag |-> TRUE,
   topic |-> Text(n), message |-> Text(0), username |-> Text(t), password |-> Text(Null)]

Serializations ==
  UNION {{MQTTSerialize_publish(0, Text(t), n, MaxPacketSize),
          MQTTSerialize_connect(Options(t, n, 3), MaxPacketSize),
          MQTTSerialize_connect(Options(t, n, 4), MaxPacketSize),
          MQTTSerialize_subscribe(Text(t), MaxPacketSize),
          MQTTSerialize_unsubscribe(Text(t), MaxPacketSize),
          MQTTSerialize_ack(MaxPacketSize)} : t \in Texts, n \in Texts}

\* It does not depend on the stream: enough that the client sends on a new connection.
send ==
  /\ pc = "idle" /\ wire = <<>>
  /\ sent' \in Serializations
  /\ UNCHANGED <<stream, input, past>>

Next ==
  \/ BrokerSends \/ Arrives \/ ConnectionEnds \/ Connects
  \/ yield \/ cycle \/ send

Spec == Init /\ [][Next]_vars
FairSpec == Spec /\ WF_vars(cycle)

-----------------------------------------------------------------------------
(* Properties                                                              *)

TypeOK ==
  /\ \A k \in DOMAIN wire : wire[k] \in [packet : Packets, start : Nat]
  /\ arrived \in 0..Total /\ pos \in 0..arrived /\ open \in BOOLEAN
  /\ pc \in {"idle", "header", "length", "size", "body"}
  /\ header \in 0..255 /\ field \in Seq(0..255) /\ Len(field) <= 4
  /\ taken \in Nat /\ last.rest \in Nat /\ failed \in BOOLEAN

\* As long as no read inside a packet has failed, the client takes the broker's packets,
\* every one of them, in order, with the type, topic and payload that they have,
\* however their bytes arrive.
InStep ==
  /\ ~failed /\ taken > 0 => taken <= Len(wire) /\ last = wire[taken].packet
  /\ ~failed /\ pc \in {"idle", "header"} /\ taken < Len(wire) => pos = wire[taken + 1].start

\* Whatever the stream says, also out of step, a packet is read into readbuf only if
\* all of it fits.
FitsReadbuf ==
  pc = "body" => 1 + LengthBytes(Remaining) + Remaining <= MaxPacketSize

\* A packet in sendbuf fits, and has as many bytes behind its length field as the field
\* says: the broker stays in step.
SentWhole ==
  sent.rc > 0 => sent.rc <= MaxPacketSize /\ sent.bytes = sent.rem

\* yield() comes back, in step or not.
YieldReturns == pc # "idle" ~> pc = "idle"
=============================================================================
