---------------------------- MODULE CloudProofs -----------------------------
(***************************************************************************)
(* Theorems about CloudSession and, from "The properties of a thing" on,    *)
(* about CloudProperties: two models of the cloud thing, which share no      *)
(* variables; a theorem is about the one whose specification it names.       *)
(***************************************************************************)
EXTENDS CloudSession, CloudProperties, SequenceTheorems, TLAPS

-----------------------------------------------------------------------------
(* Packets on their way                                                    *)

None(q, type)    == \A i \in 1..Len(q) : q[i].type # type
Single(q, type)  == \A i, j \in 1..Len(q) : q[i].type = type /\ q[j].type = type => i = j
Only(q, type, n) == \A i \in 1..Len(q) : q[i].type = type => q[i].prop = n
Has(q, p)        == \E i \in 1..Len(q) : q[i] = p
HasType(q, type) == \E i \in 1..Len(q) : q[i].type = type

EndOf(s) == s[Len(s)]

LEMMA EndOfAppend ==
  ASSUME NEW S, NEW s \in Seq(S), NEW v \in S
  PROVE  Append(s, v) # <<>> /\ EndOf(Append(s, v)) = v
  BY AppendProperties DEF EndOf

LEMMA EndOfTail ==
  ASSUME NEW S, NEW s \in Seq(S), s # <<>>
  PROVE  EndOf(IF Tail(s) = <<>> THEN <<Head(s)>> ELSE Tail(s)) = EndOf(s)
<1>1. Len(s) \in Nat \ {0} /\ Len(Tail(s)) = Len(s) - 1
  BY HeadTailProperties, EmptySeq
<1>2. CASE Tail(s) = <<>>
  <2>1. Len(Tail(s)) = 0
    BY <1>2, EmptySeq, Zenon
  <2>2. Len(s) = 1
    <3>1. \A n \in Nat \ {0}, m \in {0} : m = n - 1 => n = 1
      OBVIOUS
    <3> QED BY <1>1, <2>1, <3>1, Zenon
  <2>3. EndOf(<<Head(s)>>) = Head(s) /\ Head(s) = s[1]
    BY DEF EndOf
  <2> QED BY <1>2, <2>2, <2>3 DEF EndOf
<1>3. CASE Tail(s) # <<>>
  <2>1. Len(Tail(s)) \in Nat \ {0} /\ \A i \in 1..Len(Tail(s)) : Tail(s)[i] = s[i + 1]
    BY <1>3, HeadTailProperties, EmptySeq
  <2> QED BY <1>1, <1>3, <2>1 DEF EndOf
<1> QED BY <1>2, <1>3

LEMMA AfterAppend ==
  ASSUME NEW S, NEW q \in Seq(S), NEW p \in S
  PROVE  /\ Append(q, p) \in Seq(S) /\ Append(q, p) # <<>>
         /\ Len(q) \in Nat /\ Len(Append(q, p)) = Len(q) + 1
         /\ Append(q, p)[Len(q) + 1] = p
         /\ \A i \in 1..(Len(q) + 1) : i \in 1..Len(q) \/ i = Len(q) + 1
         /\ \A i \in 1..Len(q) : Append(q, p)[i] = q[i] /\ i \in 1..(Len(q) + 1) /\ i # Len(q) + 1
         /\ Len(q) + 1 \in 1..(Len(q) + 1)
<1>1. Len(q) \in Nat
  BY LenProperties
<1> QED BY <1>1, AppendProperties

LEMMA AfterTail ==
  ASSUME NEW S, NEW q \in Seq(S), q # <<>>
  PROVE  /\ Head(q) \in S /\ Tail(q) \in Seq(S) /\ 1 \in 1..Len(q) /\ Head(q) = q[1]
         /\ \A i \in 1..Len(Tail(q)) : Tail(q)[i] = q[i + 1] /\ i + 1 \in 1..Len(q)
              /\ i + 1 # 1 /\ i \in Int
         /\ \A i \in 1..Len(q) : i = 1 \/ (\E j \in 1..Len(Tail(q)) : Tail(q)[j] = q[i])
<1>1. /\ Len(q) \in Nat \ {0} /\ Head(q) \in S /\ Tail(q) \in Seq(S) /\ Len(Tail(q)) = Len(q) - 1
      /\ \A i \in 1..Len(Tail(q)) : Tail(q)[i] = q[i + 1]
  BY HeadTailProperties, EmptySeq, Zenon
<1>2. Head(q) = q[1]
  OBVIOUS
<1> DEFINE n == Len(q)
           m == Len(Tail(q))
<1>3. n \in Nat \ {0} /\ m = n - 1
  BY <1>1
<1> HIDE DEF n, m
<1>4. /\ 1 \in 1..n /\ \A i \in 1..m : i + 1 \in 1..n /\ i + 1 # 1 /\ i \in Int
      /\ \A i \in 1..n : i = 1 \/ (i - 1 \in 1..m /\ (i - 1) + 1 = i)
  BY <1>3
<1>5. \A i \in 1..n : i = 1 \/ (\E j \in 1..m : Tail(q)[j] = q[i])
  <2> SUFFICES ASSUME NEW i \in 1..n, i # 1 PROVE \E j \in 1..m : Tail(q)[j] = q[i]
    OBVIOUS
  <2>1. i - 1 \in 1..m /\ (i - 1) + 1 = i
    BY <1>4
  <2>2. Tail(q)[i - 1] = q[(i - 1) + 1]
    BY <1>1, <2>1, Zenon DEF m
  <2> QED BY <2>1, <2>2, Zenon
<1> QED BY <1>1, <1>2, <1>4, <1>5, Zenon DEF n, m

LEMMA NoneAppend ==
  ASSUME NEW S, NEW q \in Seq(S), NEW p \in S, NEW ty
  PROVE  /\ None(q, ty) /\ p.type # ty => None(Append(q, p), ty)
         /\ None(q, ty) => Single(Append(q, p), ty)
         /\ Single(q, ty) /\ p.type # ty => Single(Append(q, p), ty)
<1> DEFINE r == Append(q, p)
           n == Len(q)
           m == Len(r)
<1>1. /\ m = n + 1 /\ \A i \in 1..(n + 1) : i \in 1..n \/ i = n + 1
      /\ \A i \in 1..n : r[i] = q[i] /\ i \in 1..(n + 1) /\ i # n + 1
      /\ r[n + 1] = p
  BY AfterAppend
<1> HIDE DEF r, m
<1>2. None(q, ty) /\ p.type # ty => None(r, ty)
  BY <1>1, Zenon DEF None, m, n
<1>3. None(q, ty) => Single(r, ty)
  BY <1>1, Zenon DEF None, Single, m, n
<1>4. Single(q, ty) /\ p.type # ty => Single(r, ty)
  BY <1>1, Zenon DEF Single, m, n
<1> QED BY <1>2, <1>3, <1>4 DEF r

LEMMA NoneTail ==
  ASSUME NEW S, NEW q \in Seq(S), q # <<>>, NEW ty
  PROVE  /\ None(q, ty) => None(Tail(q), ty) /\ Head(q).type # ty
         /\ Single(q, ty) => Single(Tail(q), ty)
         /\ Single(q, ty) /\ Head(q).type = ty => None(Tail(q), ty)
<1>1. /\ 1 \in 1..Len(q) /\ Head(q) = q[1]
      /\ \A i \in 1..Len(Tail(q)) : Tail(q)[i] = q[i + 1] /\ i + 1 \in 1..Len(q)
           /\ i + 1 # 1 /\ i \in Int
  BY AfterTail, Zenon
<1>2. None(q, ty) => None(Tail(q), ty) /\ Head(q).type # ty
  BY <1>1, Zenon DEF None
<1>3. Single(q, ty) => Single(Tail(q), ty)
  <2> SUFFICES ASSUME Single(q, ty),
                      NEW i \in 1..Len(Tail(q)), NEW j \in 1..Len(Tail(q)),
                      Tail(q)[i].type = ty, Tail(q)[j].type = ty
               PROVE  i = j
    BY Zenon DEF Single
  <2>1. i + 1 = j + 1 /\ i \in Int /\ j \in Int
    BY <1>1, Zenon DEF Single
  <2> QED BY <2>1, SMT
<1>4. Single(q, ty) /\ Head(q).type = ty => None(Tail(q), ty)
  BY <1>1, Zenon DEF Single, None
<1> QED BY <1>2, <1>3, <1>4

LEMMA OnlyAppend ==
  ASSUME NEW S, NEW q \in Seq(S), NEW p \in S, NEW ty, NEW n
  PROVE  /\ None(q, ty) => Only(q, ty, n)
         /\ Only(q, ty, n) /\ (p.type = ty => p.prop = n) => Only(Append(q, p), ty, n)
<1> DEFINE r == Append(q, p)
           k == Len(q)
           m == Len(r)
<1>1. /\ m = k + 1 /\ \A i \in 1..(k + 1) : i \in 1..k \/ i = k + 1
      /\ \A i \in 1..k : r[i] = q[i] /\ i \in 1..(k + 1) /\ i # k + 1
      /\ r[k + 1] = p
  BY AfterAppend
<1> HIDE DEF r, m
<1>2. Only(q, ty, n) /\ (p.type = ty => p.prop = n) => Only(r, ty, n)
  BY <1>1, Zenon DEF Only, m, k
<1> QED BY <1>2, Zenon DEF r, Only, None

LEMMA OnlyTail ==
  ASSUME NEW S, NEW q \in Seq(S), q # <<>>, NEW ty, NEW n
  PROVE  Only(q, ty, n) => Only(Tail(q), ty, n) /\ (Head(q).type = ty => Head(q).prop = n)
<1>1. /\ 1 \in 1..Len(q) /\ Head(q) = q[1]
      /\ \A i \in 1..Len(Tail(q)) : Tail(q)[i] = q[i + 1] /\ i + 1 \in 1..Len(q)
  BY AfterTail, Zenon
<1> QED BY <1>1, Zenon DEF Only

LEMMA HasAppend ==
  ASSUME NEW S, NEW q \in Seq(S), NEW p \in S
  PROVE  /\ Has(Append(q, p), p) /\ HasType(Append(q, p), p.type)
         /\ \A x : Has(q, x) => Has(Append(q, p), x)
         /\ \A ty : HasType(q, ty) => HasType(Append(q, p), ty)
<1>1. /\ Len(Append(q, p)) = Len(q) + 1 /\ Append(q, p)[Len(q) + 1] = p
      /\ \A i \in 1..Len(q) : Append(q, p)[i] = q[i] /\ i \in 1..(Len(q) + 1)
      /\ Len(q) + 1 \in 1..(Len(q) + 1)
  BY AfterAppend
<1> QED BY <1>1, Zenon DEF Has, HasType

LEMMA HasTail ==
  ASSUME NEW S, NEW q \in Seq(S), q # <<>>
  PROVE  /\ \A x : Has(q, x) /\ Head(q) # x => Has(Tail(q), x)
         /\ \A ty : HasType(q, ty) /\ Head(q).type # ty => HasType(Tail(q), ty)
<1>1. /\ Head(q) = q[1]
      /\ \A i \in 1..Len(q) : i = 1 \/ (\E j \in 1..Len(Tail(q)) : Tail(q)[j] = q[i])
  BY AfterTail, Zenon
<1> QED BY <1>1, Zenon DEF Has, HasType

LEMMA EmptyQueue ==
  /\ \A ty : None(<<>>, ty) /\ Single(<<>>, ty) /\ ~HasType(<<>>, ty) /\ \A n : Only(<<>>, ty, n)
  /\ \A p : ~Has(<<>>, p)
<1>1. Len(<<>>) = 0 /\ 1..0 = {}
  OBVIOUS
<1> QED BY <1>1 DEF None, Single, Only, Has, HasType

-----------------------------------------------------------------------------
(* Type correctness                                                        *)

LEMMA PacketTypes ==
  /\ Connect \in ClientPackets /\ Publish \in ClientPackets /\ Pingreq \in ClientPackets
  /\ Garbage \in ClientPackets /\ \A i \in Props : Subscribe(i) \in ClientPackets
  /\ Publish \in BrokerPackets /\ Pingresp \in BrokerPackets
  /\ \A ok \in BOOLEAN : Pkt("CONNACK", 0, ok) \in BrokerPackets
  /\ \A i \in Props, ok \in BOOLEAN : Pkt("SUBACK", i, ok) \in BrokerPackets
  BY DEF ClientPackets, BrokerPackets

LEMMA PacketFields ==
  /\ Connect.type = "CONNECT" /\ Publish.type = "PUBLISH" /\ Pingreq.type = "PINGREQ"
  /\ Pingresp.type = "PINGRESP" /\ Garbage.type = "GARBAGE"
  /\ \A i : Subscribe(i).type = "SUBSCRIBE" /\ Subscribe(i).prop = i
  /\ \A t, i, ok : Pkt(t, i, ok).type = t /\ Pkt(t, i, ok).prop = i /\ Pkt(t, i, ok).ok = ok
  BY DEF Connect, Publish, Pingreq, Pingresp, Garbage, Subscribe, Pkt

LEMMA ClientPacket ==
  ASSUME NEW p \in ClientPackets
  PROVE  /\ p \in {Connect, Publish, Pingreq, Garbage} \/ (p.prop \in Props
              /\ p = Subscribe(p.prop))
         /\ p.type = "SUBSCRIBE" => p.prop \in Props /\ p = Subscribe(p.prop)
  BY PacketFields DEF ClientPackets

LEMMA BrokerPacket ==
  ASSUME NEW p \in BrokerPackets
  PROVE  /\ p.ok \in BOOLEAN
         /\ p.type \in {"PUBLISH", "PINGRESP", "CONNACK", "SUBACK"}
         /\ p.type = "PINGRESP" => p = Pingresp
<1>1. p \in {Publish, Pingresp} \/ (\E ok \in BOOLEAN : p = Pkt("CONNACK", 0, ok))
                                \/ (\E i \in Props, ok \in BOOLEAN : p = Pkt("SUBACK", i, ok))
  BY DEF BrokerPackets
<1>2. Publish.ok = TRUE /\ Pingresp.ok = TRUE
  BY DEF Publish, Pingresp, Pkt
<1>3. CASE p \in {Publish, Pingresp}
  BY <1>2, <1>3, PacketFields
<1>4. ASSUME NEW i, NEW ok \in BOOLEAN, p = Pkt("CONNACK", i, ok) \/ p = Pkt("SUBACK", i, ok)
      PROVE  p.ok \in BOOLEAN /\ p.type \in {"CONNACK", "SUBACK"}
  BY <1>4, PacketFields
<1> QED BY <1>1, <1>3, <1>4, Zenon

\* What becomes of a packet that is sent.
LEMMA SendEffect ==
  ASSUME TypeOK, NEW p \in ClientPackets, NEW sent \in BOOLEAN, sendPacket(p, sent)
  PROVE  /\ toBroker' \in Seq(ClientPackets)
         /\ toBroker' \in {toBroker, Append(toBroker, p), Append(toBroker, Garbage)}
         /\ lastSent' = IF sent THEN KeepAlive ELSE lastSent
         /\ tcp = "down" => toBroker' = toBroker
         /\ Lost => toBroker' = toBroker
         /\ tcp = "up" /\ sent /\ ~Lost => toBroker' = Append(toBroker, p)
         /\ tcp = "up" => toBroker' # <<>>
         /\ tcp = "up" /\ ~sent => toBroker' # <<>> /\ toBroker'[Len(toBroker')] = Garbage
<1>1. toBroker \in Seq(ClientPackets) /\ Garbage \in ClientPackets
  BY PacketTypes DEF TypeOK
<1>2. /\ Append(toBroker, p) \in Seq(ClientPackets) /\ Append(toBroker, p) # <<>>
      /\ Append(toBroker, Garbage) \in Seq(ClientPackets) /\ Append(toBroker, Garbage) # <<>>
      /\ Append(toBroker, Garbage)[Len(Append(toBroker, Garbage))] = Garbage
  BY <1>1, AfterAppend
<1>3. toBroker' = IF tcp = "down" \/ Lost THEN toBroker
                  ELSE Append(toBroker, IF sent /\ tcp = "up" THEN p ELSE Garbage)
  BY DEF sendPacket
<1>4. lastSent' = IF sent THEN KeepAlive ELSE lastSent
  BY DEF sendPacket
<1>5. CASE tcp = "down" \/ Lost
  BY <1>1, <1>3, <1>4, <1>5 DEF Lost
<1>6. CASE ~(tcp = "down" \/ Lost)
  BY <1>2, <1>3, <1>4, <1>6
<1> QED BY <1>5, <1>6

Cycle == cycleEmpty \/ \E p \in BrokerPackets : cycleRead(p)

\* What cycle() does to the packets that are under way, and to the timers.
LEMMA KeepaliveEffect ==
  ASSUME TypeOK, NEW received, NEW outstanding \in BOOLEAN, keepalive(received, outstanding)
  PROVE  /\ toBroker' \in Seq(ClientPackets)
         /\ toBroker' \in {toBroker, Append(toBroker, Pingreq), Append(toBroker, Garbage)}
         /\ lastSent' \in {lastSent, KeepAlive} /\ pingOutstanding' \in BOOLEAN
         /\ Lost => toBroker' = toBroker
         /\ tcp = "down" => toBroker' = toBroker
         /\ tcp = "up" /\ toBroker' = <<>> => 
              toBroker = <<>> /\ lastSent' = lastSent /\ (lastSent = 0 => outstanding)
         /\ tcp = "up" /\ pingOutstanding' => outstanding \/ Lost
              \/ toBroker' = Append(toBroker, Pingreq)
<1>1. CASE PingDue(received) /\ ~outstanding
  <2>1. PICK sent \in BOOLEAN : sendPacket(Pingreq, sent) /\ pingOutstanding' = sent
    BY <1>1 DEF keepalive
  <2> QED BY <2>1, SendEffect, PacketTypes
<1>2. CASE ~(PingDue(received) /\ ~outstanding)
  <2>1. pingOutstanding' = outstanding /\ toBroker' = toBroker /\ lastSent' = lastSent
    BY <1>2 DEF keepalive
  <2>2. lastSent = 0 => outstanding
    BY <1>2 DEF PingDue
  <2> QED BY <2>1, <2>2 DEF TypeOK
<1> QED BY <1>1, <1>2

LEMMA ReadEffect ==
  ASSUME TypeOK, NEW p \in BrokerPackets, cycleRead(p)
  PROVE  /\ p = Head(toClient) /\ toClient # <<>> /\ toClient' = Tail(toClient)
         /\ toClient' \in Seq(BrokerPackets) /\ lastReceived' = KeepAlive
         /\ StillOutstanding(p) \in BOOLEAN /\ keepalive(KeepAlive, StillOutstanding(p))
  BY AfterTail DEF cycleRead, StillOutstanding, TypeOK

LEMMA CycleEffect ==
  ASSUME TypeOK, Cycle
  PROVE  /\ toBroker' \in Seq(ClientPackets) /\ toClient' \in Seq(BrokerPackets)
         /\ toBroker' \in {toBroker, Append(toBroker, Pingreq), Append(toBroker, Garbage)}
         /\ toClient' = toClient \/ (toClient # <<>> /\ toClient' = Tail(toClient))
         /\ lastSent' \in {lastSent, KeepAlive} /\ pingOutstanding' \in BOOLEAN
         /\ lastReceived' \in {lastReceived, KeepAlive}
         /\ Lost => toBroker' = toBroker
         /\ tcp = "down" => toBroker' = toBroker
<1>1. CASE cycleEmpty
  <2>1. keepalive(lastReceived, pingOutstanding) /\ pingOutstanding \in BOOLEAN
    BY <1>1 DEF cycleEmpty, TypeOK
  <2> QED BY <1>1, <2>1, KeepaliveEffect DEF cycleEmpty, TypeOK
<1>2. ASSUME NEW p \in BrokerPackets, cycleRead(p)
      PROVE  /\ toBroker' \in Seq(ClientPackets) /\ toClient' \in Seq(BrokerPackets)
             /\ toBroker' \in {toBroker, Append(toBroker, Pingreq), Append(toBroker, Garbage)}
             /\ toClient # <<>> /\ toClient' = Tail(toClient)
             /\ lastSent' \in {lastSent, KeepAlive} /\ pingOutstanding' \in BOOLEAN
             /\ lastReceived' = KeepAlive
             /\ Lost => toBroker' = toBroker
             /\ tcp = "down" => toBroker' = toBroker
  BY <1>2, ReadEffect, KeepaliveEffect
<1> QED BY <1>1, <1>2 DEF Cycle

\* The constants as numbers.
LEMMA Bounds ==
  /\ LastProp \in Nat /\ KeepAlive \in Nat \ {0} /\ Command \in Nat \ {0}
  /\ PollGap \in Nat /\ Grace \in Nat /\ KeepAlive + PollGap <= Grace
  /\ KeepAlive \in 0..KeepAlive /\ Command \in 0..Command /\ 0 \in 0..Command
  /\ 0 \in 0..PollGap /\ 0 \in 0..(Grace + 1) /\ 1 \in 1..(LastProp + 1)
  /\ \A n \in 0..KeepAlive : Less(n) \in 0..KeepAlive
  /\ \A n \in 0..Command : Less(n) \in 0..Command
  /\ \A n \in Props : n + 1 \in 1..(LastProp + 1) /\ n \in 1..(LastProp + 1)
  BY SessionAssumption DEF Less, Props

LEMMA TypeInit == Init => TypeOK
<1> SUFFICES ASSUME Init PROVE TypeOK
  OBVIOUS
<1>1. toBroker \in Seq(ClientPackets) /\ toClient \in Seq(BrokerPackets)
  BY EmptySeq, Zenon DEF Init
<1>2. /\ pc = "idle" /\ tcp = "down" /\ toSub \in 1..(LastProp + 1)
      /\ isconnected \in BOOLEAN /\ pingOutstanding \in BOOLEAN /\ session \in BOOLEAN
      /\ subs \subseteq Props
  BY Bounds DEF Init
<1>3. /\ lastSent \in 0..KeepAlive /\ lastReceived \in 0..KeepAlive
      /\ command \in 0..Command /\ gap \in 0..PollGap
      /\ silence \in 0..(Grace + 1) /\ dials \in 0..2
  BY Bounds DEF Init
<1> QED BY <1>1, <1>2, <1>3 DEF TypeOK

\* The connection is gone, with all that was under way on it.
Gone == tcp' = "down" /\ toBroker' = <<>> /\ toClient' = <<>> /\ session' = FALSE /\ subs' = {}

LEMMA ClosedEffect ==
  ASSUME NoAnswer \/ LinkDown \/ LinkNotice \/ BrokerDrops \/ Closed
  PROVE  Gone /\ silence' = 0 /\ UNCHANGED <<pc, toSub, clientVars, timers, dials>>
  BY DEF NoAnswer, LinkDown, LinkNotice, BrokerDrops, Closed, Gone

\* The broker takes the first packet off its queue.
Handled == toBroker' = Tail(toBroker) /\ silence' = 0 /\ UNCHANGED <<pc, toSub, clientVars,
  timers, tcp, dials>>

BrokerConnects ==
  /\ Head(toBroker) = Connect /\ Handled /\ subs' = subs
  /\ \E ok \in BOOLEAN : toClient' = Append(toClient, Pkt("CONNACK", 0, ok)) /\ session' = ok
BrokerSubscribes ==
  /\ session /\ Head(toBroker).type = "SUBSCRIBE" /\ Handled /\ session' = session
  /\ \E ok \in BOOLEAN :
       /\ toClient' = Append(toClient, Pkt("SUBACK", Head(toBroker).prop, ok))
       /\ subs' = IF ok THEN subs \cup {Head(toBroker).prop} ELSE subs
BrokerPings ==
  /\ session /\ Head(toBroker) = Pingreq /\ Handled /\ UNCHANGED <<session, subs>>
  /\ toClient' = Append(toClient, Pingresp)
BrokerTakes ==
  /\ session /\ Head(toBroker) = Publish /\ Handled /\ UNCHANGED <<session, subs, toClient>>

LEMMA BrokerCases ==
  ASSUME TypeOK, Broker
  PROVE  /\ tcp = "up" /\ toBroker # <<>> /\ Head(toBroker) \in ClientPackets
         /\ Tail(toBroker) \in Seq(ClientPackets)
         /\ \/ BrokerConnects \/ BrokerSubscribes \/ BrokerPings \/ BrokerTakes
            \/ Closed /\ (Head(toBroker) = Garbage \/ ~session)
<1>1. tcp = "up" /\ toBroker # <<>> /\ Head(toBroker) \in ClientPackets
        /\ Tail(toBroker) \in Seq(ClientPackets)
  BY AfterTail DEF TypeOK, Broker
<1>2. CASE Head(toBroker) = Connect
            /\ (\E ok \in BOOLEAN : Answer(Pkt("CONNACK", 0, ok)) /\ session' = ok)
                 /\ UNCHANGED subs
  BY <1>1, <1>2 DEF BrokerConnects, Handled, Answer
<1>3. CASE session /\ Head(toBroker).type = "SUBSCRIBE" /\ UNCHANGED session
            /\ (\E ok \in BOOLEAN :
                  /\ Answer(Pkt("SUBACK", Head(toBroker).prop, ok))
                  /\ subs' = IF ok THEN subs \cup {Head(toBroker).prop} ELSE subs)
  BY <1>1, <1>3 DEF BrokerSubscribes, Handled, Answer
<1>4. CASE session /\ Head(toBroker) = Pingreq /\ Answer(Pingresp) /\ UNCHANGED <<session, subs>>
  BY <1>1, <1>4 DEF BrokerPings, Handled, Answer
<1>5. CASE session /\ Head(toBroker) = Publish /\ Handled /\ UNCHANGED <<toClient, session, subs>>
  BY <1>1, <1>5 DEF BrokerTakes
<1>6. CASE (Head(toBroker) = Garbage \/ (~session /\ Head(toBroker) # Connect)) /\ Closed
  BY <1>1, <1>6
<1> QED BY <1>1, <1>2, <1>3, <1>4, <1>5, <1>6 DEF Broker, Handled

LEMMA TypeClosed ==
  ASSUME TypeOK, Gone, silence' = 0,
         UNCHANGED <<pc, toSub, clientVars, timers, dials>>
  PROVE  TypeOK'
<1>1. <<>> \in Seq(ClientPackets) /\ <<>> \in Seq(BrokerPackets) /\ 0 \in 0..(Grace + 1)
  BY EmptySeq, Bounds
<1> QED BY <1>1 DEF TypeOK, Gone, clientVars, timers

LEMMA TypeBroker ==
  ASSUME TypeOK, Broker
  PROVE  TypeOK'
<1>0. 0 \in 0..(Grace + 1) /\ toClient \in Seq(BrokerPackets)
  BY Bounds DEF TypeOK
<1>1. Tail(toBroker) \in Seq(ClientPackets) /\ Head(toBroker) \in ClientPackets
  BY BrokerCases
<1>2. CASE BrokerConnects
  <2>1. toClient' \in Seq(BrokerPackets) /\ session' \in BOOLEAN
    BY <1>0, <1>2, PacketTypes, AfterAppend DEF BrokerConnects
  <2> QED BY <1>0, <1>1, <1>2, <2>1
       DEF BrokerConnects, Handled, TypeOK, clientVars, timers
<1>3. CASE BrokerSubscribes
  <2>1. Head(toBroker).prop \in Props
    BY <1>1, <1>3, ClientPacket DEF BrokerSubscribes
  <2>2. toClient' \in Seq(BrokerPackets) /\ subs' \subseteq Props
    BY <1>0, <1>3, <2>1, PacketTypes, AfterAppend DEF BrokerSubscribes, TypeOK
  <2> QED BY <1>0, <1>1, <1>3, <2>2
       DEF BrokerSubscribes, Handled, TypeOK, clientVars, timers
<1>4. CASE BrokerPings
  <2>1. toClient' \in Seq(BrokerPackets)
    BY <1>0, <1>4, PacketTypes, AfterAppend DEF BrokerPings
  <2> QED BY <1>0, <1>1, <1>4, <2>1 DEF BrokerPings, Handled, TypeOK, clientVars, timers
<1>5. CASE BrokerTakes
  BY <1>0, <1>1, <1>5 DEF BrokerTakes, Handled, TypeOK, clientVars, timers
<1>6. CASE Closed
  BY <1>6, ClosedEffect, TypeClosed
<1> QED BY <1>2, <1>3, <1>4, <1>5, <1>6, BrokerCases

\* A request is waited for only while it is for a property, and in a session.
Asking == pc = "suback" => isconnected /\ toSub \in Props

LEMMA TypeProgram ==
  ASSUME TypeOK, Asking, program \/ publish
  PROVE  TypeOK'
<1>1. CASE poll
  BY <1>1, Bounds DEF poll, TypeOK, brokerVars
<1>2. CASE NoAnswer
  BY <1>2, ClosedEffect, TypeClosed
<1>3. CASE Dial
  <2>1. PICK sent \in BOOLEAN :
          /\ toBroker' = <<IF sent THEN Connect ELSE Garbage>>
          /\ pc' = IF sent THEN "connack" ELSE "dial"
          /\ lastSent' = IF sent THEN KeepAlive ELSE lastSent
          /\ lastReceived' = IF sent THEN KeepAlive ELSE lastReceived
    BY <1>3 DEF Dial
  <2>2. toBroker' \in Seq(ClientPackets) /\ <<>> \in Seq(BrokerPackets)
    BY <2>1, PacketTypes, EmptySeq
  <2>3. dials' \in 0..2 /\ 0 \in 0..(Grace + 1)
    BY <1>3, Bounds DEF Dial
  <2> QED BY <1>3, <2>1, <2>2, <2>3, Bounds DEF Dial, TypeOK, clientVars
<1>4. CASE ConnackTimeout
  BY <1>4 DEF ConnackTimeout, TypeOK, clientVars, timers, brokerVars
<1>5. CASE AwaitConnack
  <2>1. Cycle /\ pc' \in {pc, "online", "dial"} /\ isconnected' \in BOOLEAN
    BY <1>5 DEF AwaitConnack, Cycle, TypeOK
  <2> QED BY <1>5, <2>1, CycleEffect, Bounds DEF AwaitConnack, TypeOK, brokerVars
<1>6. CASE PublishOnline
  <2>1. PICK sent \in BOOLEAN : sendPacket(Publish, sent) /\ isconnected' = sent
    BY <1>6 DEF PublishOnline
  <2>2. toBroker' \in Seq(ClientPackets) /\ lastSent' \in 0..KeepAlive
    BY <2>1, SendEffect, PacketTypes, Bounds DEF TypeOK
  <2> QED BY <1>6, <2>1, <2>2, Bounds DEF PublishOnline, TypeOK, brokerVars
<1>7. CASE mqttSubscribe
  <2>0. toSub \in Props /\ toSub + 1 \in 1..(LastProp + 1)
    BY <1>7, Bounds DEF mqttSubscribe
  <2>1. CASE ~isconnected
    BY <1>7, <2>0, <2>1 DEF mqttSubscribe, TypeOK, brokerVars
  <2>2. CASE isconnected
    <3>1. PICK sent \in BOOLEAN :
            /\ sendPacket(Subscribe(toSub), sent)
            /\ pc' = IF sent THEN "suback" ELSE "sub"
            /\ toSub' = IF sent THEN toSub ELSE toSub + 1
            /\ isconnected' = AfterSubscribe(sent)
            /\ command' = Command
      BY <1>7, <2>2 DEF mqttSubscribe
    <3>2. toBroker' \in Seq(ClientPackets) /\ lastSent' \in 0..KeepAlive
      BY <2>0, <3>1, SendEffect, PacketTypes, Bounds DEF TypeOK
    <3>3. isconnected' \in BOOLEAN
      BY <3>1 DEF AfterSubscribe, TypeOK
    <3> QED BY <1>7, <2>0, <3>1, <3>2, <3>3, Bounds DEF mqttSubscribe, TypeOK, brokerVars
  <2> QED BY <2>1, <2>2
<1>8. CASE SubackTimeout
  <2>1. toSub + 1 \in 1..(LastProp + 1)
    BY <1>8, Bounds DEF Asking, SubackTimeout
  <2> QED BY <1>8, <2>1 DEF SubackTimeout, AfterSubscribe, TypeOK, timers, brokerVars
<1>9. CASE AwaitSuback
  <2>1. Cycle /\ pc' \in {"suback", "sub"} /\ toSub' \in {toSub, toSub + 1}
    BY <1>9 DEF AwaitSuback, Cycle
  <2>2. isconnected' \in BOOLEAN
    BY <1>9 DEF AwaitSuback, AfterSubscribe, TypeOK
  <2>3. toSub' \in 1..(LastProp + 1)
    BY <1>9, <2>1, Bounds DEF AwaitSuback, Asking, TypeOK
  <2> QED BY <1>9, <2>1, <2>2, <2>3, CycleEffect, Bounds
       DEF AwaitSuback, TypeOK, brokerVars
<1>10. CASE Subscribed
  BY <1>10 DEF Subscribed, TypeOK, timers, brokerVars
<1>11. CASE yield
  <2>1. Cycle /\ pc' \in {"yield", "idle"}
    BY <1>11 DEF yield, Cycle
  <2> QED BY <1>11, <2>1, CycleEffect, Bounds DEF yield, TypeOK, brokerVars
<1>12. CASE publish
  <2>1. PICK sent \in BOOLEAN : sendPacket(Publish, sent) /\ isconnected' = sent
    BY <1>12 DEF publish
  <2>2. toBroker' \in Seq(ClientPackets) /\ lastSent' \in 0..KeepAlive
    BY <2>1, SendEffect, PacketTypes, Bounds DEF TypeOK
  <2> QED BY <1>12, <2>1, <2>2 DEF publish, TypeOK, brokerVars
<1> QED BY <1>1, <1>2, <1>3, <1>4, <1>5, <1>6, <1>7, <1>8, <1>9, <1>10, <1>11, <1>12
     DEF program

LEMMA TypeTick ==
  ASSUME TypeOK, Tick
  PROVE  TypeOK'
<1>1. gap' \in 0..PollGap
  <2>1. gap \in 0..PollGap /\ PollGap \in Nat
    BY Bounds DEF TypeOK
  <2>2. (pc = "idle" => gap < PollGap) /\ gap' = IF pc = "idle" THEN gap + 1 ELSE gap
    BY DEF Tick
  <2> QED BY <2>1, <2>2
<1>2. silence' \in 0..(Grace + 1)
  <2>1. silence \in 0..(Grace + 1) /\ Grace \in Nat
    BY Bounds DEF TypeOK
  <2>2. silence' = IF session /\ silence <= Grace THEN silence + 1 ELSE silence
    BY DEF Tick
  <2> QED BY <2>1, <2>2
<1>3. lastSent' \in 0..KeepAlive /\ lastReceived' \in 0..KeepAlive /\ command' \in 0..Command
  BY Bounds DEF Tick, TypeOK
<1> QED BY <1>1, <1>2, <1>3 DEF Tick, TypeOK, clientVars

LEMMA TypeNext == TypeOK /\ Asking /\ [Next]_vars => TypeOK'
<1> SUFFICES ASSUME TypeOK, Asking, [Next]_vars PROVE TypeOK'
  OBVIOUS
<1>1. CASE LinkDies
  <2>1. toBroker' \in Seq(ClientPackets)
    BY <1>1, PacketTypes, EmptySeq DEF LinkDies
  <2> QED BY <1>1, <2>1, Bounds DEF LinkDies, TypeOK, clientVars, timers
<1>2. CASE BrokerPublish
  <2>1. toClient' \in Seq(BrokerPackets)
    BY <1>2, PacketTypes, AfterAppend DEF BrokerPublish, TypeOK
  <2> QED BY <1>2, <2>1 DEF BrokerPublish, TypeOK, clientVars, timers, brokerVars
<1>3. CASE UNCHANGED vars
  BY <1>3 DEF TypeOK, vars, clientVars, timers, brokerVars
<1>4. CASE LinkDown \/ LinkNotice \/ BrokerDrops
  BY <1>4, ClosedEffect, TypeClosed
<1> QED BY <1>1, <1>2, <1>3, <1>4, TypeProgram, TypeTick, TypeBroker DEF Next

-----------------------------------------------------------------------------
(* Requests and their answers                                              *)

\* No SUBSCRIBE and no SUBACK is under way.
NoRequest == None(toBroker, "SUBSCRIBE") /\ None(toClient, "SUBACK")

\* At most one is, and it is about the property that the program waits for.
OneRequest ==
  /\ Single(toBroker, "SUBSCRIBE") /\ Single(toClient, "SUBACK")
  /\ None(toBroker, "SUBSCRIBE") \/ None(toClient, "SUBACK")
  /\ Only(toBroker, "SUBSCRIBE", toSub) /\ Only(toClient, "SUBACK", toSub)

\* A request that was given up ends the session, so that its late answer finds nobody
\* who waits.
AckInv ==
  /\ pc \in {"dial", "connack"} => ~isconnected
  /\ Asking
  /\ pc \in {"connack", "online"} \/ (pc # "suback" /\ isconnected) => NoRequest
  /\ pc = "suback" => OneRequest

LEMMA NoRequestIsOne == NoRequest => OneRequest
  BY DEF NoRequest, OneRequest, None, Single, Only

LEMMA AckInit == Init => AckInv
  BY EmptyQueue DEF Init, AckInv, NoRequest, Asking

\* Steps that send nothing about subscriptions.
LEMMA SendsOther ==
  ASSUME TypeOK, NEW p \in ClientPackets, p.type # "SUBSCRIBE",
         toBroker' \in {toBroker, Append(toBroker, p), Append(toBroker, Garbage)}
  PROVE  /\ None(toBroker, "SUBSCRIBE") => None(toBroker', "SUBSCRIBE")
         /\ Single(toBroker, "SUBSCRIBE") => Single(toBroker', "SUBSCRIBE")
         /\ \A n : Only(toBroker, "SUBSCRIBE", n) => Only(toBroker', "SUBSCRIBE", n)
<1>1. toBroker \in Seq(ClientPackets) /\ Garbage \in ClientPackets /\ Garbage.type # "SUBSCRIBE"
  BY PacketTypes, PacketFields DEF TypeOK
<1>2. ASSUME NEW x \in ClientPackets, x.type # "SUBSCRIBE"
      PROVE  /\ None(toBroker, "SUBSCRIBE") => None(Append(toBroker, x), "SUBSCRIBE")
             /\ Single(toBroker, "SUBSCRIBE") => Single(Append(toBroker, x), "SUBSCRIBE")
             /\ \A n : Only(toBroker, "SUBSCRIBE", n) => Only(Append(toBroker, x), "SUBSCRIBE", n)
  BY <1>1, <1>2, NoneAppend, OnlyAppend, Zenon
<1> QED BY <1>1, <1>2

\* The client reads a packet, or none.
LEMMA ReadsOther ==
  ASSUME TypeOK, toClient' = toClient \/ (toClient # <<>> /\ toClient' = Tail(toClient))
  PROVE  /\ None(toClient, "SUBACK") => None(toClient', "SUBACK")
         /\ Single(toClient, "SUBACK") => Single(toClient', "SUBACK")
         /\ \A n : Only(toClient, "SUBACK", n) => Only(toClient', "SUBACK", n)
<1>1. toClient \in Seq(BrokerPackets)
  BY DEF TypeOK
<1>2. CASE toClient' = toClient
  BY <1>2, Zenon
<1>3. CASE toClient # <<>> /\ toClient' = Tail(toClient)
  BY <1>1, <1>3, NoneTail, OnlyTail, Zenon
<1> QED BY <1>2, <1>3

LEMMA CycleKeeps ==
  ASSUME TypeOK, Cycle
  PROVE  (NoRequest => NoRequest') /\ (toSub' = toSub /\ OneRequest => OneRequest')
<1>1. /\ toBroker' \in {toBroker, Append(toBroker, Pingreq), Append(toBroker, Garbage)}
      /\ toClient' = toClient \/ (toClient # <<>> /\ toClient' = Tail(toClient))
  BY CycleEffect
<1>2. Pingreq \in ClientPackets /\ Pingreq.type # "SUBSCRIBE"
  BY PacketTypes, PacketFields
<1> QED BY <1>1, <1>2, SendsOther, ReadsOther DEF NoRequest, OneRequest

\* Who has read the answer waits for no other.
LEMMA AnswerRead ==
  ASSUME TypeOK, OneRequest, NEW p \in BrokerPackets, cycleRead(p), p.type = "SUBACK"
  PROVE  NoRequest' /\ p.prop = toSub
<1>1. /\ toClient \in Seq(BrokerPackets) /\ toClient # <<>> /\ p = Head(toClient)
      /\ toClient' = Tail(toClient)
  BY ReadEffect DEF TypeOK
<1>2. None(toClient', "SUBACK") /\ p.prop = toSub /\ ~None(toClient, "SUBACK")
  BY <1>1, NoneTail, OnlyTail, Zenon DEF OneRequest
<1>3. None(toBroker', "SUBSCRIBE")
  <2>1. toBroker' \in {toBroker, Append(toBroker, Pingreq), Append(toBroker, Garbage)}
    BY CycleEffect DEF Cycle
  <2> QED BY <1>2, <2>1, SendsOther, PacketTypes, PacketFields DEF OneRequest
<1> QED BY <1>2, <1>3 DEF NoRequest

LEMMA AckGone ==
  ASSUME AckInv, Gone, UNCHANGED <<pc, toSub, clientVars>>
  PROVE  AckInv'
<1>1. NoRequest' /\ OneRequest'
  BY EmptyQueue DEF Gone, NoRequest, OneRequest
<1> QED BY <1>1 DEF AckInv, Asking, clientVars

LEMMA AckProgram ==
  ASSUME TypeOK, AckInv, program \/ publish
  PROVE  AckInv'
<1>1. CASE poll
  BY <1>1 DEF poll, AckInv, Asking, NoRequest
<1>2. CASE NoAnswer
  BY <1>2, ClosedEffect, AckGone
<1>3. CASE Dial
  <2>1. PICK sent \in BOOLEAN :
          /\ toBroker' = <<IF sent THEN Connect ELSE Garbage>>
          /\ pc' = IF sent THEN "connack" ELSE "dial"
    BY <1>3 DEF Dial
  <2>2. None(toBroker', "SUBSCRIBE")
    BY <2>1, PacketFields DEF None
  <2> QED BY <1>3, <2>1, <2>2, EmptyQueue DEF Dial, AckInv, Asking, NoRequest, clientVars
<1>4. CASE ConnackTimeout
  BY <1>4 DEF ConnackTimeout, AckInv, Asking, NoRequest, clientVars
<1>5. CASE AwaitConnack
  <2>1. Cycle /\ pc = "connack"
    BY <1>5 DEF AwaitConnack, Cycle
  <2>2. /\ pc' \in {"connack", "online", "dial"} /\ toSub' = toSub
        /\ pc' # "online" => ~isconnected'
    <3>1. ~isconnected /\ toSub' = toSub
      BY <1>5, <2>1 DEF AwaitConnack, AckInv
    <3>2. CASE UNCHANGED <<pc, isconnected>>
      BY <2>1, <3>1, <3>2
    <3>3. ASSUME NEW p \in BrokerPackets,
                 pc' = IF p.type # "CONNACK" THEN pc ELSE IF p.ok THEN "online" ELSE "dial",
                 isconnected' = (isconnected \/ (p.type = "CONNACK" /\ p.ok))
          PROVE  /\ pc' \in {"connack", "online", "dial"}
                 /\ pc' # "online" => ~isconnected'
      BY <2>1, <3>1, <3>3
    <3> QED BY <1>5, <2>1, <3>1, <3>2, <3>3 DEF AwaitConnack
  <2> QED BY <2>1, <2>2, CycleKeeps DEF AckInv, Asking
<1>6. CASE PublishOnline
  <2>1. PICK sent \in BOOLEAN : sendPacket(Publish, sent) /\ isconnected' = sent
    BY <1>6 DEF PublishOnline
  <2>2. NoRequest'
    BY <1>6, <2>1, SendEffect, SendsOther, PacketTypes, PacketFields
       DEF PublishOnline, AckInv, NoRequest
  <2> QED BY <1>6, <2>2 DEF PublishOnline, AckInv, Asking
<1>7. CASE mqttSubscribe
  <2>1. CASE ~isconnected
    BY <1>7, <2>1 DEF mqttSubscribe, AckInv, Asking
  <2>2. CASE isconnected
    <3>1. PICK sent \in BOOLEAN :
            /\ sendPacket(Subscribe(toSub), sent)
            /\ pc' = IF sent THEN "suback" ELSE "sub"
            /\ toSub' = IF sent THEN toSub ELSE toSub + 1
            /\ isconnected' = AfterSubscribe(sent)
      BY <1>7, <2>2 DEF mqttSubscribe
    <3>2. CASE ~sent
      BY <1>7, <3>1, <3>2 DEF mqttSubscribe, AckInv, Asking, AfterSubscribe
    <3>3. CASE sent
      <4>1. /\ toBroker \in Seq(ClientPackets) /\ Subscribe(toSub) \in ClientPackets
            /\ Garbage \in ClientPackets /\ toSub \in Props
        BY <1>7, PacketTypes DEF mqttSubscribe, TypeOK
      <4>2. toBroker' \in {toBroker, Append(toBroker, Subscribe(toSub)), Append(toBroker,
              Garbage)}
        BY <3>1, <4>1, SendEffect
      <4>3. None(toBroker, "SUBSCRIBE") /\ None(toClient, "SUBACK") /\ toClient' = toClient
        BY <1>7, <2>2 DEF mqttSubscribe, AckInv, NoRequest
      <4>4. Single(toBroker', "SUBSCRIBE") /\ Only(toBroker', "SUBSCRIBE", toSub)
        <5>1. ASSUME NEW x \in {Subscribe(toSub), Garbage}
              PROVE  /\ Single(Append(toBroker, x), "SUBSCRIBE")
                     /\ Only(Append(toBroker, x), "SUBSCRIBE", toSub)
          <6>1. x \in ClientPackets /\ (x.type = "SUBSCRIBE" => x.prop = toSub)
            BY <4>1, <5>1, PacketFields
          <6> QED BY <4>1, <4>3, <6>1, NoneAppend, OnlyAppend, Zenon
        <5>2. Single(toBroker, "SUBSCRIBE") /\ Only(toBroker, "SUBSCRIBE", toSub)
          BY <4>3 DEF None, Single, Only
        <5> QED BY <4>2, <5>1, <5>2
      <4>5. OneRequest'
        BY <3>1, <3>3, <4>3, <4>4 DEF OneRequest, None, Single, Only
      <4> QED BY <2>2, <3>1, <3>3, <4>1, <4>5 DEF AckInv, Asking, AfterSubscribe
    <3> QED BY <3>2, <3>3
  <2> QED BY <2>1, <2>2
<1>8. CASE SubackTimeout
  BY <1>8 DEF SubackTimeout, AckInv, Asking, AfterSubscribe
<1>9. CASE AwaitSuback
  <2>1. pc = "suback" /\ Cycle /\ OneRequest /\ Asking
    BY <1>9 DEF AwaitSuback, Cycle, AckInv
  <2>2. CASE UNCHANGED <<pc, toSub, isconnected>>
    BY <2>1, <2>2, CycleKeeps DEF AckInv, Asking
  <2>3. ASSUME NEW p \in BrokerPackets, cycleRead(p), p.type = "SUBACK", pc' = "sub"
        PROVE  AckInv'
    BY <2>1, <2>3, AnswerRead DEF AckInv, Asking
  <2> QED BY <1>9, <2>2, <2>3 DEF AwaitSuback
<1>10. CASE Subscribed
  BY <1>10 DEF Subscribed, AckInv, Asking, NoRequest
<1>11. CASE yield
  <2>1. Cycle /\ pc = "yield" /\ pc' \in {"yield", "idle"} /\ UNCHANGED <<toSub, isconnected>>
    BY <1>11 DEF yield, Cycle
  <2> QED BY <2>1, CycleKeeps DEF AckInv, Asking
<1>12. CASE publish
  <2>1. PICK sent \in BOOLEAN : sendPacket(Publish, sent) /\ isconnected' = sent
    BY <1>12 DEF publish
  <2>2. NoRequest'
    BY <1>12, <2>1, SendEffect, SendsOther, PacketTypes, PacketFields
       DEF publish, AckInv, NoRequest
  <2> QED BY <1>12, <2>2 DEF publish, AckInv, Asking
<1> QED BY <1>1, <1>2, <1>3, <1>4, <1>5, <1>6, <1>7, <1>8, <1>9, <1>10, <1>11, <1>12
     DEF program

\* A packet that is no SUBACK comes from the broker.
LEMMA BrokerOther ==
  ASSUME TypeOK, NEW p \in BrokerPackets, p.type # "SUBACK",
         toClient' = toClient \/ toClient' = Append(toClient, p)
  PROVE  /\ None(toClient, "SUBACK") => None(toClient', "SUBACK")
         /\ Single(toClient, "SUBACK") => Single(toClient', "SUBACK")
         /\ \A n : Only(toClient, "SUBACK", n) => Only(toClient', "SUBACK", n)
<1>1. toClient \in Seq(BrokerPackets)
  BY DEF TypeOK
<1>2. /\ None(toClient, "SUBACK") => None(Append(toClient, p), "SUBACK")
      /\ Single(toClient, "SUBACK") => Single(Append(toClient, p), "SUBACK")
      /\ \A n : Only(toClient, "SUBACK", n) => Only(Append(toClient, p), "SUBACK", n)
  BY <1>1, NoneAppend, OnlyAppend, Zenon
<1> QED BY <1>2

LEMMA BrokerReads ==
  ASSUME TypeOK, toBroker # <<>>, toBroker' = Tail(toBroker)
  PROVE  /\ None(toBroker, "SUBSCRIBE") => None(toBroker', "SUBSCRIBE")
         /\ Single(toBroker, "SUBSCRIBE") => Single(toBroker', "SUBSCRIBE")
         /\ \A n : Only(toBroker, "SUBSCRIBE", n) => Only(toBroker', "SUBSCRIBE", n)
<1>1. toBroker \in Seq(ClientPackets)
  BY DEF TypeOK
<1> QED BY <1>1, NoneTail, OnlyTail, Zenon

LEMMA AckBroker ==
  ASSUME TypeOK, AckInv, Broker
  PROVE  AckInv'
<1>1. CASE BrokerConnects \/ BrokerPings \/ BrokerTakes
  <2>1. /\ toBroker # <<>> /\ toBroker' = Tail(toBroker) /\ UNCHANGED <<pc, toSub, isconnected>>
        /\ \E p \in BrokerPackets : p.type # "SUBACK" /\ (toClient' = toClient
             \/ toClient' = Append(toClient, p))
    BY <1>1, BrokerCases, PacketTypes, PacketFields
       DEF BrokerConnects, BrokerPings, BrokerTakes, Handled, clientVars
  <2>2. (NoRequest => NoRequest') /\ (OneRequest => OneRequest')
    BY <2>1, BrokerReads, BrokerOther DEF NoRequest, OneRequest
  <2> QED BY <2>1, <2>2 DEF AckInv, Asking
<1>2. CASE BrokerSubscribes
  <2>1. /\ toBroker \in Seq(ClientPackets) /\ toClient \in Seq(BrokerPackets)
        /\ toBroker # <<>> /\ toBroker' = Tail(toBroker)
        /\ UNCHANGED <<pc, toSub, isconnected>> /\ Head(toBroker).type = "SUBSCRIBE"
    BY <1>2, BrokerCases DEF BrokerSubscribes, Handled, clientVars, TypeOK
  <2>2. ~NoRequest
    BY <2>1, NoneTail, Zenon DEF NoRequest
  <2>3. CASE OneRequest
    <3>1. /\ None(toClient, "SUBACK") /\ None(toBroker', "SUBSCRIBE")
          /\ Head(toBroker).prop = toSub
      BY <2>1, <2>3, NoneTail, OnlyTail, Zenon DEF OneRequest
    <3>2. PICK ok \in BOOLEAN : toClient' = Append(toClient, Pkt("SUBACK",
                 Head(toBroker).prop, ok))
      BY <1>2 DEF BrokerSubscribes
    <3>3. Pkt("SUBACK", Head(toBroker).prop, ok) \in BrokerPackets
      BY <2>1, BrokerCases, ClientPacket, PacketTypes
    <3>4. Single(toClient', "SUBACK") /\ Only(toClient', "SUBACK", toSub)
      <4> DEFINE p == Pkt("SUBACK", Head(toBroker).prop, ok)
      <4>1. p \in BrokerPackets /\ p.prop = toSub
        BY <3>1, <3>3, PacketFields
      <4> HIDE DEF p
      <4>2. Single(Append(toClient, p), "SUBACK") /\ Only(toClient, "SUBACK", toSub)
        BY <2>1, <3>1, <4>1, NoneAppend, OnlyAppend, Zenon
      <4>3. Only(Append(toClient, p), "SUBACK", toSub)
        BY <2>1, <4>1, <4>2, OnlyAppend, Zenon
      <4> QED BY <3>2, <4>2, <4>3 DEF p
    <3>5. OneRequest'
      BY <2>1, <3>1, <3>4 DEF OneRequest, None, Single, Only
    <3> QED BY <2>1, <2>2, <3>5 DEF AckInv, Asking
  <2> QED BY <2>1, <2>2, <2>3 DEF AckInv, Asking
<1>3. CASE Closed
  BY <1>3, ClosedEffect, AckGone
<1> QED BY <1>1, <1>2, <1>3, BrokerCases

LEMMA AckNext == TypeOK /\ AckInv /\ [Next]_vars => AckInv'
<1> SUFFICES ASSUME TypeOK, AckInv, [Next]_vars PROVE AckInv'
  OBVIOUS
<1>1. CASE LinkDies
  <2>1. None(toBroker', "SUBSCRIBE") /\ Single(toBroker', "SUBSCRIBE")
          /\ \A n : Only(toBroker', "SUBSCRIBE", n)
    <3>1. \A x \in {<<>>, <<Garbage>>} : None(x, "SUBSCRIBE")
      BY EmptyQueue, PacketFields DEF None
    <3> QED BY <1>1, <3>1 DEF LinkDies, None, Single, Only
  <2> QED BY <1>1, <2>1 DEF LinkDies, AckInv, Asking, NoRequest, OneRequest, clientVars
<1>2. CASE BrokerPublish
  <2>1. (NoRequest => NoRequest') /\ (OneRequest => OneRequest')
    BY <1>2, BrokerOther, PacketTypes, PacketFields
       DEF BrokerPublish, NoRequest, OneRequest
  <2> QED BY <1>2, <2>1 DEF BrokerPublish, AckInv, Asking, clientVars
<1>3. CASE Tick \/ UNCHANGED vars
  BY <1>3 DEF Tick, vars, AckInv, Asking, NoRequest, OneRequest, clientVars
<1>4. CASE LinkDown \/ LinkNotice \/ BrokerDrops
  BY <1>4, ClosedEffect, AckGone
<1> QED BY <1>1, <1>2, <1>3, <1>4, AckProgram, AckBroker DEF Next

TypeInv == TypeOK /\ AckInv

LEMMA TypeInvInit == Init => TypeInv
  BY TypeInit, AckInit DEF TypeInv
LEMMA TypeInvNext == TypeInv /\ [Next]_vars => TypeInv'
  BY TypeNext, AckNext DEF TypeInv, AckInv

\* Timers, positions and packets under way have their types.  That the property that
\* mqttSubscribe() is at stays one of the thing takes the answers it waits for: none is
\* read that was not asked for.
THEOREM TypeCorrect == Spec => []TypeOK
<1>1. TypeInv => TypeOK
  BY DEF TypeInv
<1> QED BY <1>1, TypeInvInit, TypeInvNext, PTL DEF Spec

\* Every SUBACK that mqttSubscribe() takes for an answer answers the SUBSCRIBE it sent
\* last: at any moment at most one of the two is under way.
THEOREM AcksMatchHolds == Spec => AcksMatch
<1>1. TypeInv /\ AwaitSuback /\ pc' = "sub" => Head(toClient).prop = toSub
  <2> SUFFICES ASSUME TypeInv, AwaitSuback, pc' = "sub" PROVE Head(toClient).prop = toSub
    OBVIOUS
  <2>1. pc = "suback" /\ OneRequest
    BY DEF AwaitSuback, TypeInv, AckInv
  <2>2. PICK p \in BrokerPackets : cycleRead(p) /\ p.type = "SUBACK"
    BY <2>1 DEF AwaitSuback
  <2> QED BY <2>1, <2>2, AnswerRead, ReadEffect DEF TypeInv
<1>2. TypeInv /\ [Next]_vars => [AwaitSuback /\ pc' = "sub" => Head(toClient).prop = toSub]_vars
  BY <1>1
<1> QED BY <1>2, TypeInvInit, TypeInvNext, PTL DEF Spec, AcksMatch

-----------------------------------------------------------------------------
(* Sessions and subscriptions                                              *)

\* CONNECT is the first packet on a connection, and CONNACK its answer.
ConnectFirst ==
  \A i \in 1..Len(toBroker) : toBroker[i] = Connect => i = 1 /\ ~session /\ toClient = <<>>
ConnackFirst ==
  \A i \in 1..Len(toClient) : toClient[i].type = "CONNACK" => i = 1 /\ ~isconnected
ConnackTrue ==
  \A i \in 1..Len(toClient) : toClient[i].type = "CONNACK" /\ toClient[i].ok => session
SubackTrue ==
  \A i \in 1..Len(toClient) : toClient[i].type = "SUBACK" /\ toClient[i].ok => toSub \in subs

\* The client that counts as connected has a session, unless its connection broke and it
\* does not know; every property that it has gone past is subscribed to.
SessionInv ==
  /\ ConnackFirst /\ (pc = "online" => isconnected)
  /\ tcp = "up" =>
       /\ ConnectFirst /\ ConnackTrue
       /\ isconnected => session
       /\ isconnected /\ pc \in {"sub", "suback"} => \A n \in Props : n < toSub => n \in subs
       /\ pc = "suback" => SubackTrue
       /\ isconnected /\ pc \in {"idle", "yield"} => subs = Props

LEMMA SessionInit == Init => SessionInv
<1>1. ASSUME toClient = <<>> PROVE ConnackFirst
  BY <1>1 DEF ConnackFirst
<1> QED BY <1>1 DEF Init, SessionInv

LEMMA NoneOfAnswers ==
  ASSUME toClient' = <<>>
  PROVE  ConnackFirst' /\ ConnackTrue' /\ SubackTrue'
  BY DEF ConnackFirst, ConnackTrue, SubackTrue

\* The client sends something else than CONNECT.
LEMMA ConnectSends ==
  ASSUME TypeOK, ConnectFirst, session' = session, toClient = <<>> => toClient' = <<>>,
         NEW p \in ClientPackets, p # Connect,
         toBroker' \in {toBroker, Append(toBroker, p), Append(toBroker, Garbage)}
  PROVE  ConnectFirst'
<1>1. toBroker \in Seq(ClientPackets) /\ Garbage \in ClientPackets /\ Garbage # Connect
  BY PacketTypes, PacketFields DEF TypeOK
<1>2. CASE toBroker' = toBroker
  BY <1>2, Zenon DEF ConnectFirst
<1>3. ASSUME NEW x \in ClientPackets, x # Connect, toBroker' = Append(toBroker, x)
      PROVE  ConnectFirst'
  <2>1. /\ Len(toBroker') = Len(toBroker) + 1 /\ toBroker'[Len(toBroker) + 1] = x
        /\ \A i \in 1..(Len(toBroker) + 1) : i \in 1..Len(toBroker) \/ i = Len(toBroker) + 1
        /\ \A i \in 1..Len(toBroker) : toBroker'[i] = toBroker[i]
    BY <1>1, <1>3, AfterAppend
  <2>2. ASSUME NEW i \in 1..Len(toBroker'), toBroker'[i] = Connect
        PROVE  i = 1 /\ ~session' /\ toClient' = <<>>
    <3>1. i \in 1..Len(toBroker) /\ toBroker[i] = Connect
      BY <1>3, <2>1, <2>2, Zenon
    <3> QED BY <3>1, Zenon DEF ConnectFirst
  <2> QED BY <2>2 DEF ConnectFirst
<1> QED BY <1>1, <1>2, <1>3

\* The client reads.
LEMMA ConnackReads ==
  ASSUME TypeOK, toClient' = toClient \/ (toClient # <<>> /\ toClient' = Tail(toClient))
  PROVE  /\ ConnackFirst /\ isconnected' = isconnected => ConnackFirst'
         /\ ConnackFirst /\ toClient # <<>> /\ toClient' = Tail(toClient) => None(toClient',
              "CONNACK")
         /\ ConnackTrue /\ session' = session => ConnackTrue'
         /\ SubackTrue /\ toSub' = toSub /\ subs' = subs => SubackTrue'
<1>1. toClient \in Seq(BrokerPackets)
  BY DEF TypeOK
<1>2. CASE toClient' = toClient
  BY <1>2, AfterTail DEF ConnackFirst, ConnackTrue, SubackTrue, None
<1>3. CASE toClient # <<>> /\ toClient' = Tail(toClient)
  <2>1. \A i \in 1..Len(toClient') : toClient'[i] = toClient[i + 1]
          /\ i + 1 \in 1..Len(toClient) /\ i + 1 # 1
    BY <1>1, <1>3, AfterTail
  <2>2. ConnackFirst => None(toClient', "CONNACK")
    BY <2>1, Zenon DEF ConnackFirst, None
  <2>3. None(toClient', "CONNACK") => ConnackFirst'
    BY Zenon DEF ConnackFirst, None
  <2>4. ConnackTrue /\ session' = session => ConnackTrue'
    BY <2>1 DEF ConnackTrue
  <2>5. SubackTrue /\ toSub' = toSub /\ subs' = subs => SubackTrue'
    BY <2>1, Zenon DEF SubackTrue
  <2> QED BY <2>2, <2>3, <2>4, <2>5
<1> QED BY <1>2, <1>3

\* The broker sends something else than CONNACK.
LEMMA ConnackSends ==
  ASSUME TypeOK, NEW p \in BrokerPackets, p.type # "CONNACK", toClient' \in {toClient,
           Append(toClient, p)}
  PROVE  /\ ConnackFirst /\ isconnected' = isconnected => ConnackFirst'
         /\ ConnackTrue /\ session' = session => ConnackTrue'
         /\ SubackTrue /\ toSub' = toSub /\ subs \subseteq subs' /\ (p.type = "SUBACK"
              /\ p.ok => toSub \in subs')
              => SubackTrue'
<1>1. toClient \in Seq(BrokerPackets)
  BY DEF TypeOK
<1>2. CASE toClient' = toClient
  BY <1>2 DEF ConnackFirst, ConnackTrue, SubackTrue
<1>3. CASE toClient' = Append(toClient, p)
  <2>1. /\ Len(toClient') = Len(toClient) + 1 /\ toClient'[Len(toClient) + 1] = p
        /\ \A i \in 1..(Len(toClient) + 1) : i \in 1..Len(toClient) \/ i = Len(toClient) + 1
        /\ \A i \in 1..Len(toClient) : toClient'[i] = toClient[i]
    BY <1>1, <1>3, AfterAppend
  <2>2. \A i \in 1..Len(toClient') : (i \in 1..Len(toClient)
          /\ toClient'[i] = toClient[i]) \/ toClient'[i] = p
    BY <2>1, Zenon
  <2>3. ConnackFirst /\ isconnected' = isconnected => ConnackFirst'
    BY <2>2 DEF ConnackFirst
  <2>4. ConnackTrue /\ session' = session => ConnackTrue'
    BY <2>2 DEF ConnackTrue
  <2>5. SubackTrue /\ toSub' = toSub /\ subs \subseteq subs' /\ (p.type = "SUBACK" /\ p.ok
          => toSub \in subs')
          => SubackTrue'
    BY <2>2 DEF SubackTrue
  <2> QED BY <2>3, <2>4, <2>5
<1> QED BY <1>2, <1>3

\* The broker reads something else than CONNECT.
LEMMA ConnectReads ==
  ASSUME TypeOK, ConnectFirst, toBroker # <<>>, toBroker' = Tail(toBroker)
  PROVE  ConnectFirst'
<1>1. \A i \in 1..Len(toBroker') : toBroker'[i] = toBroker[i + 1]
        /\ i + 1 \in 1..Len(toBroker) /\ i + 1 # 1
  BY AfterTail DEF TypeOK
<1> QED BY <1>1, Zenon DEF ConnectFirst

LEMMA SessionGone ==
  ASSUME SessionInv, Gone, UNCHANGED <<pc, isconnected>>
  PROVE  SessionInv'
  BY NoneOfAnswers DEF Gone, SessionInv

LEMMA SessionCycle ==
  ASSUME TypeOK, SessionInv, Cycle, UNCHANGED <<isconnected, toSub, tcp, session, subs>>,
         pc' = pc \/ (pc' \in {"dial", "sub"} /\ ~isconnected) \/ (pc = "yield" /\ pc' = "idle")
  PROVE  SessionInv'
<1>1. /\ toBroker' \in {toBroker, Append(toBroker, Pingreq), Append(toBroker, Garbage)}
      /\ toClient' = toClient \/ (toClient # <<>> /\ toClient' = Tail(toClient))
  BY CycleEffect
<1>2. Pingreq \in ClientPackets /\ Pingreq # Connect
  BY PacketTypes, PacketFields
<1>3. ConnackFirst' /\ (ConnackTrue => ConnackTrue') /\ (SubackTrue => SubackTrue')
  BY <1>1, ConnackReads DEF SessionInv
<1>4. ConnectFirst => ConnectFirst'
  BY <1>1, <1>2, ConnectSends
<1> QED BY <1>3, <1>4 DEF SessionInv

LEMMA SessionSends ==
  ASSUME TypeOK, SessionInv, NEW p \in ClientPackets, p # Connect, NEW sent \in BOOLEAN,
         sendPacket(p, sent), UNCHANGED <<toClient, session>>
  PROVE  ConnectFirst => ConnectFirst'
<1>1. toBroker' \in {toBroker, Append(toBroker, p), Append(toBroker, Garbage)}
  BY SendEffect
<1> QED BY <1>1, ConnectSends

\* Answers that are kept are true as before.
LEMMA SameAnswers ==
  ASSUME UNCHANGED <<toClient, session, subs>>
  PROVE  /\ ConnackTrue => ConnackTrue' /\ (toSub' = toSub /\ SubackTrue => SubackTrue')
         /\ ConnackFirst /\ (isconnected' => isconnected) => ConnackFirst'
         /\ ConnectFirst /\ toBroker' = toBroker => ConnectFirst'
  BY DEF ConnackTrue, SubackTrue, ConnackFirst, ConnectFirst

\* The connection as it is: nothing is sent or read.
LEMMA SessionStays ==
  ASSUME SessionInv, UNCHANGED <<toBroker, toClient, tcp, session, subs>>,
         isconnected' => isconnected, pc' # "online"
  PROVE  /\ ConnackFirst' /\ (pc' = "online" => isconnected')
         /\ tcp' = "up" => ConnectFirst' /\ ConnackTrue' /\ (isconnected' => session')
  BY SameAnswers DEF SessionInv

LEMMA SessionConnack ==
  ASSUME TypeOK, AckInv, SessionInv, AwaitConnack
  PROVE  SessionInv'
<1>1. /\ pc = "connack" /\ ~isconnected /\ UNCHANGED <<toSub, tcp, session, subs>>
  BY DEF AwaitConnack, AckInv, brokerVars
<1>2. CASE cycleEmpty /\ UNCHANGED <<pc, isconnected>>
  BY <1>1, <1>2, SessionCycle DEF Cycle
<1>3. ASSUME NEW p \in BrokerPackets, cycleRead(p), p.type = "CONNACK", p.ok,
             pc' = "online", isconnected'
      PROVE  SessionInv'
  <2>0. Cycle
    BY <1>3 DEF Cycle
  <2>1. /\ toBroker' \in {toBroker, Append(toBroker, Pingreq), Append(toBroker, Garbage)}
        /\ toClient' = Tail(toClient) /\ toClient # <<>> /\ p = Head(toClient)
        /\ toClient \in Seq(BrokerPackets)
    BY <2>0, <1>3, CycleEffect, ReadEffect DEF TypeOK
  <2>2. 1 \in 1..Len(toClient) /\ toClient[1] = p
    BY <2>1, AfterTail, Zenon
  <2>3. None(toClient', "CONNACK")
    BY <2>1, ConnackReads DEF SessionInv
  <2>4. ConnackFirst' /\ ConnackTrue'
    BY <2>3 DEF ConnackFirst, ConnackTrue, None
  <2>5. tcp = "up" => session /\ ConnectFirst'
    <3>1. Pingreq \in ClientPackets /\ Pingreq # Connect
      BY PacketTypes, PacketFields
    <3>2. tcp = "up" => session
      BY <1>3, <2>2 DEF SessionInv, ConnackTrue
    <3>3. tcp = "up" => ConnectFirst'
      BY <1>1, <2>1, <3>1, ConnectSends DEF SessionInv
    <3> QED BY <3>2, <3>3
  <2> QED BY <1>1, <1>3, <2>4, <2>5 DEF SessionInv
<1>4. ASSUME NEW p \in BrokerPackets, cycleRead(p), p.type # "CONNACK" \/ ~p.ok,
             pc' \in {pc, "dial"}, isconnected' = isconnected
      PROVE  SessionInv'
  BY <1>1, <1>4, SessionCycle DEF Cycle
<1>5. CASE \E p \in BrokerPackets :
             /\ cycleRead(p)
             /\ pc' = IF p.type # "CONNACK" THEN pc ELSE IF p.ok THEN "online" ELSE "dial"
             /\ isconnected' = (isconnected \/ (p.type = "CONNACK" /\ p.ok))
  <2>1. PICK p \in BrokerPackets :
             /\ cycleRead(p)
             /\ pc' = IF p.type # "CONNACK" THEN pc ELSE IF p.ok THEN "online" ELSE "dial"
             /\ isconnected' = (isconnected \/ (p.type = "CONNACK" /\ p.ok))
    BY <1>5
  <2>2. CASE p.type = "CONNACK" /\ p.ok
    <3>1. pc' = "online" /\ isconnected'
      BY <2>1, <2>2
    <3> QED BY <1>3, <2>1, <2>2, <3>1
  <2>3. CASE ~(p.type = "CONNACK" /\ p.ok)
    <3>1. pc' \in {pc, "dial"} /\ isconnected' = FALSE /\ isconnected = FALSE
      BY <1>1, <2>1, <2>3 DEF TypeOK
    <3> QED BY <1>4, <2>1, <2>3, <3>1
  <2> QED BY <2>2, <2>3
<1> QED BY <1>2, <1>5 DEF AwaitConnack

LEMMA SessionSuback ==
  ASSUME TypeOK, AckInv, SessionInv, AwaitSuback
  PROVE  SessionInv'
<1>1. pc = "suback" /\ isconnected /\ Cycle /\ UNCHANGED <<tcp, session, subs>> /\ toSub \in Props
  BY DEF AwaitSuback, Cycle, AckInv, Asking, brokerVars
<1>2. CASE UNCHANGED <<pc, toSub, isconnected>>
  BY <1>1, <1>2, SessionCycle
<1>3. ASSUME NEW p \in BrokerPackets, cycleRead(p), p.type = "SUBACK",
             pc' = "sub", toSub' = toSub + 1, isconnected' = AfterSubscribe(p.ok)
      PROVE  SessionInv'
  <2>1. /\ toBroker' \in {toBroker, Append(toBroker, Pingreq), Append(toBroker, Garbage)}
        /\ toClient' = Tail(toClient) /\ toClient # <<>> /\ p = Head(toClient)
        /\ toClient \in Seq(BrokerPackets)
    BY <1>1, <1>3, CycleEffect, ReadEffect DEF TypeOK
  <2>2. 1 \in 1..Len(toClient) /\ toClient[1] = p
    BY <2>1, AfterTail, Zenon
  <2>3. None(toClient', "CONNACK")
    BY <2>1, ConnackReads DEF SessionInv
  <2>4. ConnackFirst' /\ ConnackTrue'
    BY <2>3 DEF ConnackFirst, ConnackTrue, None
  <2>5. Pingreq \in ClientPackets /\ Pingreq # Connect
    BY PacketTypes, PacketFields
  <2>6. tcp = "up" => ConnectFirst'
    BY <1>1, <2>1, <2>5, ConnectSends DEF SessionInv
  <2>7. tcp = "up" /\ isconnected' => \A n \in Props : n < toSub' => n \in subs'
    <3> SUFFICES ASSUME tcp = "up", isconnected', NEW n \in Props, n < toSub' PROVE n \in subs'
      OBVIOUS
    <3>1. p.ok
      BY <1>3 DEF AfterSubscribe
    <3>2. toSub \in subs
      BY <1>1, <1>3, <2>2, <3>1 DEF SessionInv, SubackTrue
    <3>3. n < toSub \/ n = toSub
      BY <1>1, <1>3 DEF Props
    <3> QED BY <1>1, <3>2, <3>3 DEF SessionInv
  <2> QED BY <1>1, <1>3, <2>4, <2>6, <2>7 DEF SessionInv
<1> QED BY <1>1, <1>2, <1>3 DEF AwaitSuback

LEMMA SessionSubscribe ==
  ASSUME TypeOK, AckInv, SessionInv, mqttSubscribe
  PROVE  SessionInv'
<1>1. pc = "sub" /\ toSub \in Props /\ UNCHANGED <<tcp, toClient, session, subs>>
  BY DEF mqttSubscribe, brokerVars
<1>2. CASE ~isconnected
  BY <1>1, <1>2, SessionStays DEF mqttSubscribe, SessionInv
<1>3. CASE isconnected
  <2>1. PICK sent \in BOOLEAN :
          /\ sendPacket(Subscribe(toSub), sent)
          /\ pc' = IF sent THEN "suback" ELSE "sub"
          /\ toSub' = IF sent THEN toSub ELSE toSub + 1
          /\ isconnected' = AfterSubscribe(sent)
    BY <1>3 DEF mqttSubscribe
  <2>2. Subscribe(toSub) \in ClientPackets /\ Subscribe(toSub) # Connect
    BY <1>1, PacketTypes, PacketFields
  <2>3. ConnectFirst => ConnectFirst'
    BY <1>1, <2>1, <2>2, SessionSends
  <2>4. ConnackFirst' /\ (ConnackTrue => ConnackTrue')
    BY <1>1, <1>3, SameAnswers DEF SessionInv
  <2>5. SubackTrue'
    BY <1>1, <1>3 DEF AckInv, NoRequest, None, SubackTrue
  <2> QED BY <1>1, <1>3, <2>1, <2>3, <2>4, <2>5 DEF SessionInv, AfterSubscribe
<1> QED BY <1>2, <1>3

LEMMA SessionProgram ==
  ASSUME TypeOK, AckInv, SessionInv, program \/ publish
  PROVE  SessionInv'
<1>1. CASE poll
  BY <1>1, SessionStays DEF poll, SessionInv, brokerVars
<1>2. CASE NoAnswer
  BY <1>2, ClosedEffect, SessionGone DEF clientVars
<1>3. CASE Dial
  <2>1. PICK sent \in BOOLEAN :
          /\ toBroker' = <<IF sent THEN Connect ELSE Garbage>>
          /\ pc' = IF sent THEN "connack" ELSE "dial"
    BY <1>3 DEF Dial
  <2>2. ~session' /\ toClient' = <<>> /\ ~isconnected'
    BY <1>3 DEF Dial, AckInv, clientVars
  <2>3. \A i \in 1..Len(toBroker') : i = 1
    BY <2>1
  <2> QED BY <2>1, <2>2, <2>3, NoneOfAnswers DEF SessionInv, ConnectFirst
<1>4. CASE ConnackTimeout
  BY <1>4, SessionStays DEF ConnackTimeout, SessionInv, AckInv, clientVars, brokerVars
<1>5. CASE PublishOnline \/ publish
  <2>1. /\ UNCHANGED <<tcp, toClient, session, subs>> /\ isconnected
        /\ pc' \in {"idle", "sub"} /\ (pc' = "idle" => pc = "idle") /\ (pc' = "sub" => toSub' = 1)
    BY <1>5 DEF PublishOnline, publish, SessionInv, brokerVars
  <2>2. PICK sent \in BOOLEAN : sendPacket(Publish, sent) /\ isconnected' = sent
    BY <1>5 DEF PublishOnline, publish
  <2>3. ConnectFirst => ConnectFirst'
    BY <2>1, <2>2, SessionSends, PacketTypes, PacketFields
  <2>4. ConnackFirst' /\ (ConnackTrue => ConnackTrue')
    BY <2>1, SameAnswers DEF SessionInv
  <2>5. \A n \in Props : ~(n < 1)
    BY Bounds DEF Props
  <2> QED BY <2>1, <2>3, <2>4, <2>5 DEF SessionInv
<1>6. CASE SubackTimeout
  BY <1>6, SessionStays DEF SubackTimeout, SessionInv, AfterSubscribe, brokerVars
<1>7. CASE Subscribed
  <2>1. /\ pc = "sub" /\ pc' \in {"yield", "dial"} /\ (pc' = "dial" => ~isconnected)
        /\ isconnected' => isconnected
        /\ UNCHANGED <<toBroker, toClient, tcp, session, subs>>
    BY <1>7 DEF Subscribed, brokerVars
  <2>2. \A n \in Props : n < toSub
    BY <1>7, Bounds DEF Subscribed, Props, TypeOK
  <2>3. tcp = "up" /\ isconnected => subs = Props
    BY <2>1, <2>2 DEF SessionInv, TypeOK
  <2> QED BY <2>1, <2>3, SessionStays DEF SessionInv
<1>8. CASE yield
  <2>1. Cycle /\ pc = "yield" /\ pc' \in {"yield", "idle"} /\ UNCHANGED <<isconnected, toSub,
          tcp, session, subs>>
    BY <1>8 DEF yield, Cycle, brokerVars
  <2> QED BY <2>1, SessionCycle
<1> QED BY <1>1, <1>2, <1>3, <1>4, <1>5, <1>6, <1>7, <1>8, SessionConnack, SessionSuback,
           SessionSubscribe DEF program

LEMMA SessionBroker ==
  ASSUME TypeOK, AckInv, SessionInv, Broker
  PROVE  SessionInv'
<1>1. tcp = "up" /\ toBroker # <<>> /\ 1 \in 1..Len(toBroker) /\ Head(toBroker) = toBroker[1]
  <2>1. toBroker \in Seq(ClientPackets) /\ toBroker # <<>> /\ tcp = "up"
    BY BrokerCases DEF TypeOK
  <2> QED BY <2>1, AfterTail, Zenon
<1>2. CASE BrokerConnects
  <2>1. ~session /\ toClient = <<>> /\ ~isconnected /\ UNCHANGED <<pc, isconnected>>
          /\ toBroker' = Tail(toBroker)
    BY <1>1, <1>2 DEF BrokerConnects, SessionInv, ConnectFirst, Handled, clientVars
  <2>2. PICK ok \in BOOLEAN : toClient' = Append(toClient, Pkt("CONNACK", 0, ok)) /\ session' = ok
    BY <1>2 DEF BrokerConnects
  <2>3. toClient' = <<Pkt("CONNACK", 0, ok)>>
    BY <2>1, <2>2
  <2>4. \A i \in 1..Len(toClient') : i = 1 /\ toClient'[i] = Pkt("CONNACK", 0, ok)
    BY <2>3
  <2>5. ConnackFirst' /\ ConnackTrue'
    BY <2>1, <2>2, <2>4, PacketFields DEF ConnackFirst, ConnackTrue
  <2>6. ConnectFirst'
    BY <1>1, <2>1, ConnectReads DEF SessionInv
  <2>7. pc # "suback"
    BY <2>1 DEF AckInv, Asking
  <2> QED BY <2>1, <2>5, <2>6, <2>7 DEF SessionInv
<1>3. CASE BrokerSubscribes
  <2>1. session /\ UNCHANGED <<pc, isconnected, toSub, tcp, session>>
          /\ toBroker' = Tail(toBroker)
        /\ Head(toBroker).type = "SUBSCRIBE" /\ Head(toBroker) \in ClientPackets
    BY <1>3, BrokerCases DEF BrokerSubscribes, Handled, clientVars
  <2>2. PICK ok \in BOOLEAN :
          /\ toClient' = Append(toClient, Pkt("SUBACK", Head(toBroker).prop, ok))
          /\ subs' = IF ok THEN subs \cup {Head(toBroker).prop} ELSE subs
    BY <1>3 DEF BrokerSubscribes
  <2>3. Head(toBroker).prop \in Props
    BY <2>1, ClientPacket
  <2>4. Pkt("SUBACK", Head(toBroker).prop, ok) \in BrokerPackets
    BY <2>3, PacketTypes
  <2>5. ConnectFirst'
    BY <1>1, <2>1, ConnectReads DEF SessionInv
  <2>6. pc = "suback" => Head(toBroker).prop = toSub
    BY <1>1, <2>1 DEF AckInv, OneRequest, Only
  <2>7. ConnackFirst' /\ ConnackTrue' /\ (pc = "suback" => SubackTrue')
    <3> DEFINE p == Pkt("SUBACK", Head(toBroker).prop, ok)
    <3>1. p \in BrokerPackets /\ p.type = "SUBACK" /\ p.ok = ok
      BY <2>4, PacketFields
    <3>2. pc = "suback" /\ ok => toSub \in subs'
      BY <2>2, <2>6
    <3>3. subs \subseteq subs' /\ toClient' = Append(toClient, p)
      BY <2>2
    <3> HIDE DEF p
    <3> QED BY <1>1, <2>1, <3>1, <3>2, <3>3, ConnackSends DEF SessionInv
  <2>8. subs' \subseteq Props /\ subs \subseteq subs'
    BY <2>2, <2>3 DEF TypeOK
  <2> QED BY <1>1, <2>1, <2>5, <2>7, <2>8 DEF SessionInv
<1>4. CASE BrokerPings \/ BrokerTakes
  <2>1. /\ UNCHANGED <<pc, isconnected, toSub, tcp, session, subs>> /\ toBroker' = Tail(toBroker)
        /\ toClient' \in {toClient, Append(toClient, Pingresp)}
    BY <1>4 DEF BrokerPings, BrokerTakes, Handled, clientVars
  <2>2. ConnackFirst' /\ ConnackTrue' /\ (SubackTrue => SubackTrue')
    BY <1>1, <2>1, ConnackSends, PacketTypes, PacketFields DEF SessionInv
  <2>3. ConnectFirst'
    BY <1>1, <2>1, ConnectReads DEF SessionInv
  <2> QED BY <1>1, <2>1, <2>2, <2>3 DEF SessionInv
<1>5. CASE Closed
  BY <1>5, ClosedEffect, SessionGone DEF clientVars
<1> QED BY <1>2, <1>3, <1>4, <1>5, BrokerCases

LEMMA SessionNext == TypeInv /\ SessionInv /\ [Next]_vars => SessionInv'
<1> SUFFICES ASSUME TypeOK, AckInv, SessionInv, [Next]_vars PROVE SessionInv'
  BY DEF TypeInv
<1>1. CASE LinkDies
  BY <1>1 DEF LinkDies, SessionInv, ConnackFirst, clientVars
<1>2. CASE BrokerPublish
  <2>1. tcp = "up" /\ session /\ toBroker' = toBroker
        /\ UNCHANGED <<pc, isconnected, toSub, tcp, session, subs>>
             /\ toClient' = Append(toClient, Publish)
    BY <1>2 DEF BrokerPublish, clientVars, brokerVars
  <2>2. ConnackFirst' /\ ConnackTrue' /\ (SubackTrue => SubackTrue')
    BY <2>1, ConnackSends, PacketTypes, PacketFields DEF SessionInv
  <2>3. ConnectFirst'
    BY <2>1, Zenon DEF SessionInv, ConnectFirst
  <2> QED BY <2>1, <2>2, <2>3 DEF SessionInv
<1>3. CASE Tick \/ UNCHANGED vars
  <2>1. UNCHANGED <<pc, isconnected, toSub, tcp, toBroker, toClient, session, subs>>
    BY <1>3 DEF Tick, vars, clientVars, brokerVars
  <2> QED BY <2>1, SameAnswers DEF SessionInv
<1>4. CASE LinkDown \/ LinkNotice \/ BrokerDrops
  BY <1>4, ClosedEffect, SessionGone DEF clientVars
<1> QED BY <1>1, <1>2, <1>3, <1>4, SessionProgram, SessionBroker DEF Next

\* A thing whose poll() counts it as online on a live connection has all its
\* subscriptions at the broker: each step of the handshake was answered on the very
\* connection that is still there.
THEOREM SubscribedHolds == Spec => []SubscribedWhenOnline
<1>1. SessionInv => SubscribedWhenOnline
  BY DEF SessionInv, SubscribedWhenOnline
<1> QED BY <1>1, TypeInvInit, TypeInvNext, SessionInit, SessionNext, PTL DEF Spec

-----------------------------------------------------------------------------
(* Keeping the connection alive                                            *)

\* What was asked is under way, or its answer is, or the stream is garbled and will be
\* closed.
PingUnderWay   == Has(toBroker, Pingreq) \/ Has(toClient, Pingresp) \/ Lost
SubackUnderWay == Has(toBroker, Subscribe(toSub)) \/ HasType(toClient, "SUBACK") \/ Lost

\* How far behind its time a ping can be: only the program between two calls of poll()
\* makes it wait.
Overdue == IF lastSent > 0 THEN 0 ELSE IF pc = "idle" THEN gap ELSE PollGap

\* While the client has dialled at most once, a ping that it waits for is not lost; and
\* when nothing is under way to a broker, that has not been silent for longer than since
\* the client sent last.
KeepInv ==
  /\ dials = 0 => ~pingOutstanding /\ pc \in {"idle", "dial"} /\ ~isconnected
  /\ dials <= 1 /\ tcp = "up" /\ pingOutstanding => PingUnderWay
  /\ tcp = "up" /\ pc = "suback" => SubackUnderWay
  /\ tcp = "up" /\ pc = "connack" /\ session =>
       HasType(toClient, "CONNACK") /\ (toBroker = <<>> => silence = 0)
  /\ dials <= 1 /\ isconnected /\ tcp = "up" /\ toBroker = <<>> =>
       silence <= KeepAlive - lastSent + Overdue

LEMMA KeepAliveLeft ==
  ASSUME NEW k \in Nat, NEW n \in 0..k, NEW o \in Nat
  PROVE  0 <= k - n + o
  OBVIOUS

LEMMA KeepInit == Init => KeepInv
  BY DEF Init, KeepInv

\* What is under way stays so when more is sent.
LEMMA MoreSent ==
  ASSUME TypeOK, NEW p \in ClientPackets,
         toBroker' \in {toBroker, Append(toBroker, p), Append(toBroker, Garbage)},
         Lost => toBroker' = toBroker
  PROVE  (\A x : Has(toBroker, x) => Has(toBroker', x)) /\ (Lost => Lost')
<1>1. toBroker \in Seq(ClientPackets) /\ Garbage \in ClientPackets
  BY PacketTypes DEF TypeOK
<1>2. \A y \in ClientPackets : \A x : Has(toBroker, x) => Has(Append(toBroker, y), x)
  BY <1>1, HasAppend, Zenon
<1> QED BY <1>1, <1>2 DEF Lost

\* cycle() keeps it so: the answer to a ping that it reads is no longer waited for.
LEMMA CyclePings ==
  ASSUME TypeOK, Cycle, tcp = "up", pingOutstanding => PingUnderWay
  PROVE  /\ pingOutstanding' => PingUnderWay'
         /\ \A x : Has(toBroker, x) => Has(toBroker', x)
         /\ Lost => Lost'
<1>0. toBroker \in Seq(ClientPackets) /\ toClient \in Seq(BrokerPackets)
        /\ Pingreq \in ClientPackets
  BY PacketTypes DEF TypeOK
<1>1. (\A x : Has(toBroker, x) => Has(toBroker', x)) /\ (Lost => Lost')
  BY <1>0, CycleEffect, MoreSent
<1>2. Has(Append(toBroker, Pingreq), Pingreq)
  BY <1>0, HasAppend, Zenon
<1>3. CASE cycleEmpty
  <2>1. keepalive(lastReceived, pingOutstanding) /\ pingOutstanding \in BOOLEAN
          /\ toClient' = toClient
    BY <1>3 DEF cycleEmpty, TypeOK
  <2>2. pingOutstanding' => pingOutstanding \/ Lost \/ toBroker' = Append(toBroker, Pingreq)
    BY <2>1, KeepaliveEffect
  <2> QED BY <1>1, <1>2, <2>1, <2>2 DEF PingUnderWay
<1>4. ASSUME NEW p \in BrokerPackets, cycleRead(p)
      PROVE  pingOutstanding' => PingUnderWay'
  <2>1. /\ p = Head(toClient) /\ toClient # <<>> /\ toClient' = Tail(toClient)
        /\ StillOutstanding(p) \in BOOLEAN /\ keepalive(KeepAlive, StillOutstanding(p))
    BY <1>4, ReadEffect
  <2>2. pingOutstanding' => StillOutstanding(p) \/ Lost \/ toBroker' = Append(toBroker, Pingreq)
    BY <2>1, KeepaliveEffect
  <2>3. StillOutstanding(p) => pingOutstanding /\ p # Pingresp
    BY PacketFields DEF StillOutstanding
  <2>4. p # Pingresp /\ Has(toClient, Pingresp) => Has(toClient', Pingresp)
    BY <1>0, <2>1, HasTail, Zenon
  <2> QED BY <1>1, <1>2, <2>2, <2>3, <2>4 DEF PingUnderWay
<1> QED BY <1>1, <1>3, <1>4 DEF Cycle

\* A cycle that leaves nothing to the broker has sent nothing, and read nothing that
\* ends the wait for a ping.
LEMMA CycleSilent ==
  ASSUME TypeOK, Cycle, tcp = "up", toBroker' = <<>>
  PROVE  /\ toBroker = <<>> /\ lastSent' = lastSent
         /\ lastSent = 0 => \/ cycleEmpty /\ pingOutstanding
                            \/ \E p \in BrokerPackets : cycleRead(p) /\ StillOutstanding(p)
<1>1. CASE cycleEmpty
  <2>1. keepalive(lastReceived, pingOutstanding) /\ pingOutstanding \in BOOLEAN
    BY <1>1 DEF cycleEmpty, TypeOK
  <2> QED BY <1>1, <2>1, KeepaliveEffect
<1>2. ASSUME NEW p \in BrokerPackets, cycleRead(p)
      PROVE  toBroker = <<>> /\ lastSent' = lastSent /\ (lastSent = 0 => StillOutstanding(p))
  BY <1>2, ReadEffect, KeepaliveEffect
<1> QED BY <1>1, <1>2 DEF Cycle

LEMMA KeepGone ==
  ASSUME KeepInv, tcp' # "up", UNCHANGED <<pc, clientVars, dials>>
  PROVE  KeepInv'
  BY DEF KeepInv, clientVars

\* Something is sent: nothing is silent then.
LEMMA KeepSends ==
  ASSUME TypeOK, KeepInv, NEW p \in ClientPackets, NEW sent \in BOOLEAN, sendPacket(p, sent),
         UNCHANGED <<tcp, toClient, pingOutstanding, dials>>, pc \notin {"dial", "connack",
           "suback"},
         isconnected
  PROVE  /\ dials' # 0
         /\ dials' <= 1 /\ tcp' = "up" /\ pingOutstanding' => PingUnderWay'
         /\ tcp' = "up" => toBroker' # <<>>
         /\ tcp' = "up" /\ sent => Has(toBroker', p) \/ Lost'
<1>1. /\ (\A x : Has(toBroker, x) => Has(toBroker', x)) /\ (Lost => Lost')
      /\ tcp = "up" => toBroker' # <<>>
      /\ tcp = "up" /\ sent /\ ~Lost => toBroker' = Append(toBroker, p)
  BY SendEffect, MoreSent
<1>2. Has(Append(toBroker, p), p)
  BY HasAppend DEF TypeOK
<1> QED BY <1>1, <1>2 DEF KeepInv, PingUnderWay

LEMMA KeepConnack ==
  ASSUME TypeOK, AckInv, SessionInv, KeepInv, AwaitConnack
  PROVE  KeepInv'
<1>1. /\ pc = "connack" /\ ~isconnected /\ UNCHANGED <<tcp, session, silence, dials>> /\ Cycle
  BY DEF AwaitConnack, AckInv, brokerVars, Cycle
<1>2. pc' \in {"connack", "online", "dial"} /\ (pc' = "dial" => ~isconnected')
      /\ (pc' = "connack" => ~isconnected' /\
            (cycleEmpty \/ \E p \in BrokerPackets : cycleRead(p) /\ p.type # "CONNACK"))
      /\ (isconnected' => \E p \in BrokerPackets : cycleRead(p) /\ p.type = "CONNACK" /\ p.ok)
  <2>1. CASE cycleEmpty /\ UNCHANGED <<pc, isconnected>>
    BY <1>1, <2>1
  <2>2. CASE \E p \in BrokerPackets :
             /\ cycleRead(p)
             /\ pc' = IF p.type # "CONNACK" THEN pc ELSE IF p.ok THEN "online" ELSE "dial"
             /\ isconnected' = (isconnected \/ (p.type = "CONNACK" /\ p.ok))
    BY <1>1, <2>2
  <2> QED BY <2>1, <2>2 DEF AwaitConnack
<1>3. dials' # 0
  BY <1>1 DEF KeepInv
<1>4. dials' <= 1 /\ tcp' = "up" /\ pingOutstanding' => PingUnderWay'
  BY <1>1, CyclePings DEF KeepInv
<1>5. ASSUME tcp = "up", toBroker' = <<>>
      PROVE  toBroker = <<>>
  BY <1>1, <1>5, CycleSilent
<1>6. ASSUME tcp' = "up", pc' = "connack", session'
      PROVE  HasType(toClient', "CONNACK") /\ (toBroker' = <<>> => silence' = 0)
  <2>1. HasType(toClient, "CONNACK") /\ (toBroker = <<>> => silence = 0)
    BY <1>1, <1>6 DEF KeepInv
  <2>2. toClient # <<>>
    BY <2>1, EmptyQueue
  <2>3. PICK p \in BrokerPackets : cycleRead(p) /\ p.type # "CONNACK"
    BY <1>2, <1>6, <2>2 DEF cycleEmpty
  <2>4. p = Head(toClient) /\ toClient' = Tail(toClient) /\ toClient \in Seq(BrokerPackets)
    BY <2>3, ReadEffect DEF TypeOK
  <2>5. HasType(toClient', "CONNACK")
    BY <2>1, <2>2, <2>3, <2>4, HasTail, Zenon
  <2> QED BY <1>1, <1>5, <1>6, <2>1, <2>5
<1>7. ASSUME isconnected', tcp' = "up", toBroker' = <<>>
      PROVE  silence' <= KeepAlive - lastSent' + Overdue'
  <2>1. PICK p \in BrokerPackets : cycleRead(p) /\ p.type = "CONNACK" /\ p.ok
    BY <1>2, <1>7
  <2>2. p = Head(toClient) /\ toClient # <<>> /\ toClient \in Seq(BrokerPackets)
    BY <2>1, ReadEffect DEF TypeOK
  <2>3. 1 \in 1..Len(toClient) /\ toClient[1] = p
    BY <2>2, AfterTail, Zenon
  <2>4. session
    BY <1>1, <1>7, <2>1, <2>3 DEF SessionInv, ConnackTrue
  <2>5. silence' = 0
    BY <1>1, <1>5, <1>7, <2>4 DEF KeepInv
  <2>6. lastSent' \in 0..KeepAlive
    BY <1>1, CycleEffect, Bounds DEF TypeOK
  <2>7. Overdue' \in Nat
    <3>1. gap' = gap
      BY DEF AwaitConnack
    <3> QED BY <3>1, Bounds DEF Overdue, TypeOK
  <2>8. 0 <= KeepAlive - lastSent' + Overdue'
    BY <2>6, <2>7, Bounds, KeepAliveLeft, Zenon
  <2> QED BY <2>5, <2>8
<1> QED BY <1>1, <1>2, <1>3, <1>4, <1>6, <1>7 DEF KeepInv

LEMMA KeepSuback ==
  ASSUME TypeOK, AckInv, SessionInv, KeepInv, AwaitSuback
  PROVE  KeepInv'
<1>1. /\ pc = "suback" /\ UNCHANGED <<tcp, session, silence, dials, gap>> /\ Cycle
      /\ pc' \in {"suback", "sub"} /\ (isconnected' => isconnected)
  BY DEF AwaitSuback, AckInv, brokerVars, Cycle, AfterSubscribe
<1>2. dials' # 0
  BY <1>1 DEF KeepInv
<1>3. dials' <= 1 /\ tcp' = "up" /\ pingOutstanding' => PingUnderWay'
  BY <1>1, CyclePings DEF KeepInv
<1>4. ASSUME tcp' = "up", pc' = "suback"
      PROVE  SubackUnderWay'
  <2>1. /\ toSub' = toSub
        /\ \/ toClient' = toClient
           \/ \E p \in BrokerPackets : cycleRead(p) /\ p.type # "SUBACK"
    BY <1>1, <1>4 DEF AwaitSuback, cycleEmpty
  <2>2. HasType(toClient, "SUBACK") => HasType(toClient', "SUBACK")
    <3>1. ASSUME NEW p \in BrokerPackets, cycleRead(p), p.type # "SUBACK"
          PROVE  HasType(toClient, "SUBACK") => HasType(toClient', "SUBACK")
      <4>1. p = Head(toClient) /\ toClient' = Tail(toClient) /\ toClient # <<>>
              /\ toClient \in Seq(BrokerPackets)
        BY <3>1, ReadEffect DEF TypeOK
      <4> QED BY <3>1, <4>1, HasTail, Zenon
    <3> QED BY <2>1, <3>1
  <2>3. (\A x : Has(toBroker, x) => Has(toBroker', x)) /\ (Lost => Lost')
    BY <1>1, CycleEffect, MoreSent, PacketTypes
  <2> QED BY <1>1, <1>4, <2>1, <2>2, <2>3 DEF KeepInv, SubackUnderWay
<1>5. ASSUME dials' <= 1, isconnected', tcp' = "up", toBroker' = <<>>
      PROVE  silence' <= KeepAlive - lastSent' + Overdue'
  <2>1. toBroker = <<>> /\ lastSent' = lastSent
    BY <1>1, <1>5, CycleSilent
  <2>2. Overdue' = Overdue
    BY <1>1, <2>1 DEF Overdue
  <2> QED BY <1>1, <1>5, <2>1, <2>2 DEF KeepInv
<1> QED BY <1>1, <1>2, <1>3, <1>4, <1>5 DEF KeepInv

LEMMA KeepYield ==
  ASSUME TypeOK, AckInv, SessionInv, KeepInv, yield
  PROVE  KeepInv'
<1>1. /\ pc = "yield" /\ UNCHANGED <<tcp, session, silence, dials, gap, isconnected>> /\ Cycle
      /\ pc' \in {"yield", "idle"}
  BY DEF yield, brokerVars, Cycle
<1>2. dials' # 0
  BY <1>1 DEF KeepInv
<1>3. dials' <= 1 /\ tcp' = "up" /\ pingOutstanding' => PingUnderWay'
  BY <1>1, CyclePings DEF KeepInv
<1>4. ASSUME dials' <= 1, isconnected', tcp' = "up", toBroker' = <<>>
      PROVE  silence' <= KeepAlive - lastSent' + Overdue'
  <2>1. toBroker = <<>> /\ lastSent' = lastSent
    BY <1>1, <1>4, CycleSilent
  <2>2. lastSent # 0
    <3> SUFFICES ASSUME lastSent = 0 PROVE FALSE
      OBVIOUS
    <3>1. CASE cycleEmpty /\ pingOutstanding
      <4>1. toClient = <<>> /\ PingUnderWay
        BY <1>1, <1>4, <3>1 DEF cycleEmpty, KeepInv
      <4> QED BY <2>1, <4>1, EmptyQueue DEF PingUnderWay, Lost
    <3>2. ASSUME NEW p \in BrokerPackets, cycleRead(p), StillOutstanding(p)
          PROVE  FALSE
      <4>1. p = Head(toClient) /\ toClient # <<>> /\ toClient \in Seq(BrokerPackets)
        BY <3>2, ReadEffect DEF TypeOK
      <4>2. 1 \in 1..Len(toClient) /\ toClient[1] = p
        BY <4>1, AfterTail, Zenon
      <4>3. p.type # "CONNACK"
        BY <1>1, <1>4, <4>2 DEF SessionInv, ConnackFirst
      <4>4. p.type # "SUBACK"
        BY <1>1, <1>4, <4>2 DEF AckInv, NoRequest, None
      <4>5. p.type \notin {"PINGRESP", "PUBLISH"}
        BY <3>2 DEF StillOutstanding
      <4> QED BY <4>3, <4>4, <4>5, BrokerPacket
    <3> QED BY <1>1, <1>4, <3>1, <3>2, CycleSilent
  <2>3. lastSent > 0 /\ Overdue = 0 /\ Overdue' = 0
    BY <2>1, <2>2 DEF Overdue, TypeOK
  <2> QED BY <1>1, <1>4, <2>1, <2>3 DEF KeepInv
<1> QED BY <1>1, <1>2, <1>3, <1>4 DEF KeepInv

LEMMA KeepProgram ==
  ASSUME TypeOK, AckInv, SessionInv, KeepInv, program \/ publish
  PROVE  KeepInv'
<1>1. CASE poll
  <2>1. /\ pc = "idle" /\ pc' = IF isconnected THEN "yield" ELSE "dial"
        /\ isconnected' => isconnected
        /\ UNCHANGED <<pingOutstanding, lastSent, tcp, toBroker, toClient, session, silence,
             dials>>
    BY <1>1 DEF poll, brokerVars
  <2>2. PingUnderWay' <=> PingUnderWay
    BY <2>1 DEF PingUnderWay, Lost
  <2>3. Overdue' = (IF lastSent > 0 THEN 0 ELSE PollGap) \/ ~isconnected
    BY <2>1 DEF Overdue
  <2>4. isconnected => Overdue <= Overdue' /\ Overdue \in Nat /\ Overdue' \in Nat
    BY <2>1, Bounds DEF Overdue, TypeOK
  <2>5. isconnected /\ silence <= KeepAlive - lastSent + Overdue
          => silence <= KeepAlive - lastSent + Overdue'
    <3>1. lastSent \in Nat /\ silence \in Nat /\ KeepAlive \in Nat
      BY Bounds DEF TypeOK
    <3> QED BY <2>4, <3>1
  <2> QED BY <2>1, <2>2, <2>5 DEF KeepInv
<1>2. CASE NoAnswer
  BY <1>2, ClosedEffect, KeepGone DEF Gone
<1>3. CASE Dial
  <2>1. pc' \in {"connack", "dial"} /\ ~session' /\ ~isconnected' /\ dials' # 0
        /\ (dials' <= 1 => dials = 0) /\ pingOutstanding' = pingOutstanding
    BY <1>3 DEF Dial, AckInv, clientVars
  <2> QED BY <2>1 DEF KeepInv
<1>4. CASE ConnackTimeout
  <2>1. pc = "connack" /\ pc' = "dial" /\ ~isconnected'
        /\ UNCHANGED <<pingOutstanding, tcp, toBroker, toClient, dials>>
    BY <1>4 DEF ConnackTimeout, AckInv, clientVars
  <2>2. PingUnderWay' <=> PingUnderWay
    BY <2>1 DEF PingUnderWay, Lost
  <2> QED BY <2>1, <2>2 DEF KeepInv
<1>5. CASE PublishOnline \/ publish
  <2>1. /\ UNCHANGED <<tcp, toClient, pingOutstanding, dials>> /\ isconnected
        /\ pc \in {"idle", "online"} /\ pc' \in {"idle", "sub"}
    BY <1>5 DEF PublishOnline, publish, SessionInv
  <2>2. PICK sent \in BOOLEAN : sendPacket(Publish, sent) /\ isconnected' = sent
    BY <1>5 DEF PublishOnline, publish
  <2> QED BY <2>1, <2>2, KeepSends, PacketTypes DEF KeepInv
<1>6. CASE mqttSubscribe
  <2>1. CASE ~isconnected
    <3>1. pc = "sub" /\ pc' = "sub" /\ ~isconnected'
          /\ UNCHANGED <<pingOutstanding, tcp, toBroker, toClient, dials>>
      BY <1>6, <2>1 DEF mqttSubscribe
    <3>2. PingUnderWay' <=> PingUnderWay
      BY <3>1 DEF PingUnderWay, Lost
    <3> QED BY <3>1, <3>2 DEF KeepInv
  <2>2. CASE isconnected
    <3>1. PICK sent \in BOOLEAN :
            /\ sendPacket(Subscribe(toSub), sent)
            /\ pc' = IF sent THEN "suback" ELSE "sub"
            /\ toSub' = IF sent THEN toSub ELSE toSub + 1
            /\ isconnected' = AfterSubscribe(sent)
      BY <1>6, <2>2 DEF mqttSubscribe
    <3>2. pc = "sub" /\ Subscribe(toSub) \in ClientPackets
          /\ UNCHANGED <<pingOutstanding, tcp, toClient, dials>>
      BY <1>6, PacketTypes DEF mqttSubscribe
    <3>3. /\ dials' # 0
          /\ dials' <= 1 /\ tcp' = "up" /\ pingOutstanding' => PingUnderWay'
          /\ tcp' = "up" => toBroker' # <<>>
          /\ tcp' = "up" /\ sent => Has(toBroker', Subscribe(toSub)) \/ Lost'
      BY <2>2, <3>1, <3>2, KeepSends
    <3>4. tcp' = "up" /\ pc' = "suback" => SubackUnderWay'
      BY <3>1, <3>3 DEF SubackUnderWay, Subscribe, Pkt
    <3> QED BY <3>1, <3>3, <3>4 DEF KeepInv
  <2> QED BY <2>1, <2>2
<1>7. CASE SubackTimeout
  <2>1. pc = "suback" /\ pc' = "sub" /\ ~isconnected'
        /\ UNCHANGED <<pingOutstanding, tcp, toBroker, toClient, dials>>
    BY <1>7 DEF SubackTimeout, AfterSubscribe
  <2>2. PingUnderWay' <=> PingUnderWay
    BY <2>1 DEF PingUnderWay, Lost
  <2> QED BY <2>1, <2>2 DEF KeepInv
<1>8. CASE Subscribed
  <2>1. /\ pc = "sub" /\ pc' \in {"yield", "dial"} /\ (isconnected' => isconnected)
        /\ UNCHANGED <<pingOutstanding, lastSent, tcp, toBroker, toClient, session, silence,
             dials>>
    BY <1>8 DEF Subscribed, timers, brokerVars
  <2>2. (PingUnderWay' <=> PingUnderWay) /\ Overdue' = Overdue
    BY <2>1 DEF PingUnderWay, Lost, Overdue
  <2> QED BY <2>1, <2>2 DEF KeepInv
<1> QED BY <1>1, <1>2, <1>3, <1>4, <1>5, <1>6, <1>7, <1>8, KeepConnack, KeepSuback,
     KeepYield DEF program

\* Time goes on: not while something is there to read, and what was asked is answered.
LEMMA KeepTick ==
  ASSUME TypeOK, AckInv, KeepInv, Tick
  PROVE  KeepInv'
<1>1. UNCHANGED <<pc, toSub, isconnected, pingOutstanding, tcp, toBroker, toClient, session,
        dials>>
  BY DEF Tick, clientVars
<1>2. (PingUnderWay' <=> PingUnderWay) /\ (SubackUnderWay' <=> SubackUnderWay)
  BY <1>1 DEF PingUnderWay, SubackUnderWay, Lost, Subscribe, Pkt
<1>3. ~(tcp = "up" /\ pc = "connack" /\ session)
  BY EmptyQueue DEF Tick, KeepInv
<1>4. ASSUME dials <= 1, isconnected, tcp = "up", toBroker = <<>>
      PROVE  silence' <= KeepAlive - lastSent' + Overdue'
  <2>1. pc = "idle"
    <3>1. pc # "suback"
      BY <1>4, EmptyQueue DEF Tick, KeepInv, SubackUnderWay, Lost
    <3> QED BY <1>4, <3>1 DEF Tick, AckInv
  <2>2. gap' = gap + 1 /\ silence' \in {silence, silence + 1} /\ lastSent' = Less(lastSent)
    BY <2>1 DEF Tick
  <2>3. silence <= KeepAlive - lastSent + Overdue
    BY <1>4 DEF KeepInv
  <2>4. gap \in Nat /\ lastSent \in Nat /\ silence \in Nat /\ KeepAlive \in Nat
    BY Bounds DEF TypeOK
  <2>5. Overdue = (IF lastSent > 0 THEN 0 ELSE gap)
          /\ Overdue' = IF lastSent' > 0 THEN 0 ELSE gap'
    BY <1>1, <2>1 DEF Overdue
  <2> QED BY <2>2, <2>3, <2>4, <2>5 DEF Less
<1> QED BY <1>1, <1>2, <1>3, <1>4 DEF KeepInv

LEMMA KeepBroker ==
  ASSUME TypeOK, AckInv, SessionInv, KeepInv, Broker
  PROVE  KeepInv'
<1>1. /\ tcp = "up" /\ toBroker # <<>> /\ Head(toBroker) \in ClientPackets
      /\ toBroker \in Seq(ClientPackets) /\ toClient \in Seq(BrokerPackets)
  BY BrokerCases DEF TypeOK
<1>2. CASE Closed
  BY <1>2, ClosedEffect, KeepGone DEF Gone
<1>3. ASSUME Handled, NEW p \in BrokerPackets, toClient' \in {toClient, Append(toClient, p)},
             Head(toBroker) # Garbage,
             Head(toBroker) = Pingreq => toClient' = Append(toClient, Pingresp),
             Head(toBroker).type = "SUBSCRIBE" => toClient' = Append(toClient, p)
               /\ p.type = "SUBACK",
             (session /\ session') \/ (toClient' = Append(toClient, p) /\ p.type = "CONNACK")
      PROVE  KeepInv'
  <2>1. /\ \A x : Has(toBroker, x) /\ Head(toBroker) # x => Has(toBroker', x)
        /\ \A x : Has(toClient, x) => Has(toClient', x)
        /\ \A t : HasType(toClient, t) => HasType(toClient', t)
        /\ toClient' = Append(toClient, p) => HasType(toClient', p.type)
        /\ toClient' = Append(toClient, Pingresp) => Has(toClient', Pingresp)
    <3>1. \A x : Has(toBroker, x) /\ Head(toBroker) # x => Has(toBroker', x)
      BY <1>1, <1>3, HasTail DEF Handled
    <3>2. ASSUME NEW y \in BrokerPackets, toClient' = Append(toClient, y)
          PROVE  /\ \A x : Has(toClient, x) => Has(toClient', x)
                 /\ \A t : HasType(toClient, t) => HasType(toClient', t)
                 /\ Has(toClient', y) /\ HasType(toClient', y.type)
      BY <1>1, <3>2, HasAppend, Zenon
    <3>3. Pingresp \in BrokerPackets
      BY PacketTypes
    <3> QED BY <1>3, <3>1, <3>2, <3>3
  <2>2. Lost => Lost'
    <3>1. EndOf(IF Tail(toBroker) = <<>> THEN <<Head(toBroker)>> ELSE Tail(toBroker)) = EndOf(toBroker)
      BY <1>1, EndOfTail
    <3>2. EndOf(<<Head(toBroker)>>) = Head(toBroker)
      BY DEF EndOf
    <3> QED BY <1>3, <3>1, <3>2 DEF Lost, Handled, EndOf
  <2>3. /\ UNCHANGED <<pc, toSub, isconnected, pingOutstanding, lastSent, gap, tcp, dials>>
        /\ silence' = 0
    BY <1>3 DEF Handled, clientVars, timers
  <2>4. PingUnderWay => PingUnderWay'
    BY <1>3, <2>1, <2>2 DEF PingUnderWay
  <2>5. SubackUnderWay => SubackUnderWay'
    <3>1. Subscribe(toSub)' = Subscribe(toSub)
      BY <2>3 DEF Subscribe, Pkt
    <3>2. Head(toBroker) = Subscribe(toSub) => HasType(toClient', "SUBACK")
      BY <1>3, <2>1, PacketFields
    <3> QED BY <2>1, <2>2, <3>1, <3>2 DEF SubackUnderWay
  <2>6. tcp = "up" /\ pc = "connack" /\ session' => HasType(toClient', "CONNACK")
    BY <1>3, <2>1 DEF KeepInv
  <2>7. 0 <= KeepAlive - lastSent' + Overdue'
    <3>1. Overdue' \in Nat /\ lastSent \in 0..KeepAlive
      BY <2>3, Bounds DEF Overdue, TypeOK
    <3>2. 0 <= KeepAlive - lastSent + Overdue'
      BY <3>1, Bounds, KeepAliveLeft, Zenon
    <3> QED BY <2>3, <3>2
  <2> QED BY <1>1, <2>3, <2>4, <2>5, <2>6, <2>7 DEF KeepInv
<1>4. CASE BrokerConnects
  <2>1. PICK ok \in BOOLEAN : toClient' = Append(toClient, Pkt("CONNACK", 0, ok)) /\ session' = ok
    BY <1>4 DEF BrokerConnects
  <2>2. Head(toBroker) = Connect /\ Handled
    BY <1>4 DEF BrokerConnects
  <2> QED BY <1>3, <2>1, <2>2, PacketTypes, PacketFields
<1>5. CASE BrokerSubscribes
  <2>1. PICK ok \in BOOLEAN : toClient' = Append(toClient, Pkt("SUBACK", Head(toBroker).prop, ok))
    BY <1>5 DEF BrokerSubscribes
  <2>2. Head(toBroker).type = "SUBSCRIBE" /\ Handled /\ session /\ session'
    BY <1>5 DEF BrokerSubscribes
  <2>3. Pkt("SUBACK", Head(toBroker).prop, ok) \in BrokerPackets
    BY <1>1, <2>2, ClientPacket, PacketTypes
  <2> QED BY <1>3, <2>1, <2>2, <2>3, PacketFields
<1>6. CASE BrokerPings
  BY <1>3, <1>6, PacketTypes, PacketFields DEF BrokerPings
<1>7. CASE BrokerTakes
  BY <1>3, <1>7, PacketTypes, PacketFields DEF BrokerTakes
<1> QED BY <1>2, <1>4, <1>5, <1>6, <1>7, BrokerCases

LEMMA KeepNext == TypeInv /\ SessionInv /\ KeepInv /\ [Next]_vars => KeepInv'
<1> SUFFICES ASSUME TypeOK, AckInv, SessionInv, KeepInv, [Next]_vars PROVE KeepInv'
  BY DEF TypeInv
<1>1. CASE LinkDies
  BY <1>1, KeepGone DEF LinkDies
<1>2. CASE BrokerPublish
  <2>1. /\ UNCHANGED <<pc, toSub, isconnected, pingOutstanding, lastSent, gap, tcp, toBroker,
             session,
                       silence, dials>>
        /\ toClient' = Append(toClient, Publish)
    BY <1>2 DEF BrokerPublish, clientVars, timers, brokerVars
  <2>2. /\ \A x : Has(toClient, x) => Has(toClient', x)
        /\ \A t : HasType(toClient, t) => HasType(toClient', t)
    BY <2>1, HasAppend, PacketTypes DEF TypeOK
  <2>3. /\ PingUnderWay => PingUnderWay'
        /\ SubackUnderWay => SubackUnderWay'
        /\ Overdue' = Overdue
    BY <2>1, <2>2 DEF PingUnderWay, SubackUnderWay, Lost, Overdue, Subscribe, Pkt
  <2> QED BY <2>1, <2>2, <2>3 DEF KeepInv
<1>3. CASE UNCHANGED vars
  <2>1. UNCHANGED <<pc, toSub, isconnected, pingOutstanding, lastSent, gap, tcp, toBroker,
          toClient,
                    session, silence, dials>>
    BY <1>3 DEF vars, clientVars, timers, brokerVars
  <2>2. (PingUnderWay' <=> PingUnderWay) /\ (SubackUnderWay' <=> SubackUnderWay)
          /\ Overdue' = Overdue
    BY <2>1 DEF PingUnderWay, SubackUnderWay, Lost, Overdue, Subscribe, Pkt
  <2> QED BY <2>1, <2>2 DEF KeepInv
<1>4. CASE LinkDown \/ LinkNotice \/ BrokerDrops
  BY <1>4, ClosedEffect, KeepGone DEF Gone
<1> QED BY <1>1, <1>2, <1>3, <1>4, KeepProgram, KeepTick, KeepBroker DEF Next

\* On the first connection the broker hears from a client in time if its program calls
\* poll() often enough: when nothing is under way to the broker, the client is not
\* waiting for an answer that will never come, and so pings when its timer runs out.
THEOREM KeptAliveHolds == Spec => []KeptAlive
<1>1. TypeInv /\ KeepInv => KeptAlive
  <2> SUFFICES ASSUME TypeOK, KeepInv, dials <= 1, SilentTooLong PROVE FALSE
    BY DEF TypeInv, KeptAlive
  <2>1. silence <= KeepAlive - lastSent + Overdue /\ silence > Grace
    BY DEF KeepInv, SilentTooLong
  <2>2. Overdue \in 0..PollGap /\ lastSent \in Nat /\ silence \in Nat
    BY Bounds DEF Overdue, TypeOK
  <2> QED BY <2>1, <2>2, Bounds
<1> QED BY <1>1, TypeInvInit, TypeInvNext, SessionInit, SessionNext, KeepInit, KeepNext,
     PTL DEF Spec

-----------------------------------------------------------------------------
(* The properties of a thing                                               *)

LEMMA ModRange ==
  ASSUME NEW n \in Int, NEW m \in Nat \ {0}
  PROVE  n % m \in 0..(m - 1)
  OBVIOUS

LEMMA ModSmall ==
  ASSUME NEW n \in Nat, NEW m \in Nat \ {0}, n < m
  PROVE  n % m = n
  OBVIOUS

\* Until the lapse is over, the clock shows the time since the last publication.
AgeInv ==
  /\ lapse \in {0, Lapse} /\ age \in 0..(ClockMod - 1) /\ since \in 0..Lapse
  /\ since < Lapse => age = since

LEMMA AgeInit == PropertiesInit => AgeInv
<1> SUFFICES ASSUME PropertiesInit PROVE AgeInv
  OBVIOUS
<1>1. lapse \in {0, Lapse}
  BY DEF PropertiesInit
<1>2. 0 \in 0..(ClockMod - 1) /\ 0 \in 0..Lapse
  BY PropertiesAssumption
<1>3. age = 0 /\ since = 0
  BY DEF PropertiesInit
<1> QED BY <1>1, <1>2, <1>3 DEF AgeInv

LEMMA AgeTick ==
  ASSUME AgeInv, ClockTick
  PROVE  AgeInv'
<1>1. age + 1 \in Nat /\ ClockMod \in Nat \ {0} /\ Lapse \in Nat /\ Lapse <= ClockMod
  BY PropertiesAssumption DEF AgeInv
<1>2. (age + 1) % ClockMod \in 0..(ClockMod - 1)
  BY <1>1, ModRange
<1>3. age + 1 < ClockMod => (age + 1) % ClockMod = age + 1
  BY <1>1, ModSmall
<1>4. age' = (age + 1) % ClockMod /\ lapse' = lapse
  BY DEF ClockTick, Older, config
<1>5. since' = IF since < Lapse THEN since + 1 ELSE since
  BY DEF ClockTick
<1> QED BY <1>1, <1>2, <1>3, <1>4, <1>5 DEF AgeInv

LEMMA AgeNext == AgeInv /\ [PropertiesNext]_propertyVars => AgeInv'
<1> SUFFICES ASSUME AgeInv, [PropertiesNext]_propertyVars PROVE AgeInv'
  OBVIOUS
<1>1. CASE ClockTick
  BY <1>1, AgeTick
<1>2. CASE writeProperty
  <2>1. age' = 0 /\ since' = 0 /\ lapse' = lapse
    BY <1>2 DEF writeProperty, Published, config
  <2> QED BY <2>1, PropertiesAssumption DEF AgeInv
<1>3. CASE UNCHANGED <<lapse, age, since>>
  BY <1>3 DEF AgeInv
<1>4. ASSUME push \/ Measure \/ Forward \/ Dashboard \/ UNCHANGED propertyVars
      PROVE  UNCHANGED <<lapse, age, since>>
  BY <1>4 DEF push, Measure, Forward, Dashboard, propertyVars, config
<1>5. ASSUME NEW t \in Things, callback(t) \/ Disconnect(t) \/ Resume(t)
      PROVE  UNCHANGED <<lapse, age, since>>
  BY <1>5 DEF callback, Disconnect, Resume, config
<1> QED BY <1>1, <1>2, <1>3, <1>4, <1>5 DEF PropertiesNext

\* A publication that writeProperty() lets pass comes a lapse after the last one: the
\* difference can only be too small, never too large, while the lapse is at most half
\* of what the clock counts.
THEOREM SpacingHolds == PropertiesSpec => Spacing
<1>1. AgeInv /\ Published => since >= lapse
  <2> SUFFICES ASSUME AgeInv, Elapsed >= lapse PROVE since >= lapse
    BY DEF Published, Due
  <2>1. CASE since = Lapse
    BY <2>1, PropertiesAssumption DEF AgeInv
  <2>2. CASE since < Lapse
    BY <2>2, PropertiesAssumption DEF AgeInv, Elapsed
  <2> QED BY <2>1, <2>2, PropertiesAssumption DEF AgeInv
<1>2. AgeInv /\ [PropertiesNext]_propertyVars => [Published => since >= lapse]_propertyVars
  BY <1>1
<1> QED BY <1>1, <1>2, AgeInit, AgeNext, PTL DEF PropertiesSpec, Spacing

-----------------------------------------------------------------------------
(* Type correctness                                                        *)

LEMMA PropertyTypeInit == PropertiesInit => PropertiesTypeOK
<1> SUFFICES ASSUME PropertiesInit PROVE PropertiesTypeOK
  OBVIOUS
<1>1. permission \in {"R", "RW"} /\ policy \in {"", "on_change", "timed"} /\ lapse \in {0, Lapse}
  BY DEF PropertiesInit
<1>2. measured \in Values /\ value \in [Things -> Texts] /\ online \in [Things -> BOOLEAN]
  BY DEF PropertiesInit, Texts
<1>3. age \in 0..(ClockMod - 1) /\ since \in 0..Lapse
  BY AgeInit DEF AgeInv
<1>4. outbox \in Seq(Texts) /\ inbox \in [Things -> Seq(Texts)]
  BY EmptySeq DEF PropertiesInit
<1>5. last \in Texts /\ missed \subseteq Things
  BY DEF PropertiesInit, Texts
<1> QED BY <1>1, <1>2, <1>3, <1>4, <1>5 DEF PropertiesTypeOK

LEMMA PropertyTypeBroadcast ==
  ASSUME PropertiesTypeOK, NEW v \in Texts, Broadcast(v)
  PROVE  last' \in Texts /\ inbox' \in [Things -> Seq(Texts)] /\ missed' \subseteq Things
<1>1. \A t \in Things : Append(inbox[t], v) \in Seq(Texts) /\ inbox[t] \in Seq(Texts)
  BY AppendProperties DEF PropertiesTypeOK
<1> QED BY <1>1 DEF Broadcast

LEMMA PropertyTypePublish ==
  ASSUME PropertiesTypeOK, NEW v \in Texts, publishValue(v)
  PROVE  outbox' \in Seq(Texts) /\ missed' \subseteq Things
<1>1. outbox \in Seq(Texts) /\ Append(outbox, v) \in Seq(Texts)
  BY AppendProperties DEF PropertiesTypeOK
<1> QED BY <1>1 DEF publishValue, PropertiesTypeOK, Things

\* Clock and lapse are the business of AgeInv.
LEMMA PropertyTypeNext == PropertiesTypeOK /\ AgeInv' /\ [PropertiesNext]_propertyVars => PropertiesTypeOK'
<1> SUFFICES ASSUME PropertiesTypeOK, AgeInv', [PropertiesNext]_propertyVars PROVE PropertiesTypeOK'
  OBVIOUS
<1>0. lapse' \in {0, Lapse} /\ age' \in 0..(ClockMod - 1) /\ since' \in 0..Lapse
  BY DEF AgeInv
<1>1. CASE writeProperty
  <2>1. measured \in Texts /\ publishValue(measured)
    BY <1>1 DEF writeProperty, Published, PropertiesTypeOK, Texts
  <2>2. value' \in [Things -> Texts]
    BY <1>1, <2>1 DEF writeProperty, Published, PropertiesTypeOK
  <2> QED BY <1>0, <1>1, <2>1, <2>2, PropertyTypePublish
       DEF writeProperty, Published, PropertiesTypeOK, config
<1>2. CASE push
  <2>1. value["owner"] \in Texts /\ publishValue(value["owner"])
    BY <1>2 DEF push, PropertiesTypeOK, Things
  <2> QED BY <1>0, <1>2, <2>1, PropertyTypePublish DEF push, PropertiesTypeOK, config
<1>3. CASE Measure
  BY <1>0, <1>3 DEF Measure, PropertiesTypeOK, config
<1>4. CASE Forward
  <2>1. Head(outbox) \in Texts /\ Tail(outbox) \in Seq(Texts)
    BY <1>4, HeadTailProperties DEF Forward, PropertiesTypeOK
  <2> QED BY <1>0, <1>4, <2>1, PropertyTypeBroadcast DEF Forward, PropertiesTypeOK, config
<1>5. CASE Dashboard
  <2>1. PICK v \in Values : Broadcast(v)
    BY <1>5 DEF Dashboard
  <2>2. v \in Texts
    BY DEF Texts
  <2> QED BY <1>0, <1>5, <2>1, <2>2, PropertyTypeBroadcast
       DEF Dashboard, PropertiesTypeOK, config
<1>6. CASE ClockTick
  BY <1>0, <1>6 DEF ClockTick, PropertiesTypeOK, config
<1>7. ASSUME NEW t \in Things, callback(t)
      PROVE  PropertiesTypeOK'
  <2>1. Head(inbox[t]) \in Texts /\ Tail(inbox[t]) \in Seq(Texts)
    BY <1>7, HeadTailProperties DEF callback, PropertiesTypeOK
  <2>2. value' \in [Things -> Texts] /\ inbox' \in [Things -> Seq(Texts)]
    BY <1>7, <2>1 DEF callback, PropertiesTypeOK
  <2> QED BY <1>0, <1>7, <2>2 DEF callback, PropertiesTypeOK, config
<1>8. ASSUME NEW t \in Things, Disconnect(t)
      PROVE  PropertiesTypeOK'
  <2>1. online' \in [Things -> BOOLEAN] /\ inbox' \in [Things -> Seq(Texts)]
    BY <1>8, EmptySeq DEF Disconnect, PropertiesTypeOK
  <2>2. outbox' \in Seq(Texts) /\ missed' \subseteq Things
    BY <1>8, EmptySeq DEF Disconnect, PropertiesTypeOK
  <2> QED BY <1>0, <1>8, <2>1, <2>2 DEF Disconnect, PropertiesTypeOK, config
<1>9. ASSUME NEW t \in Things, Resume(t)
      PROVE  PropertiesTypeOK'
  BY <1>0, <1>9 DEF Resume, PropertiesTypeOK, config
<1>10. CASE UNCHANGED propertyVars
  BY <1>10 DEF propertyVars, PropertiesTypeOK, config
<1> QED BY <1>1, <1>2, <1>3, <1>4, <1>5, <1>6, <1>7, <1>8, <1>9, <1>10 DEF PropertiesNext

\* Values, messages and times have their types.
THEOREM PropertyTypeCorrect == PropertiesSpec => []PropertiesTypeOK
<1> QED BY PropertyTypeInit, PropertyTypeNext, AgeInit, AgeNext, PTL DEF PropertiesSpec

-----------------------------------------------------------------------------
(* Agreed: where the last message is                                       *)

\* A thing has a value, or will have when it has taken in what is under way to it.
Holds(t, v) == IF inbox[t] = <<>> THEN value[t] = v ELSE EndOf(inbox[t]) = v

\* While the owner has published what the broker has not seen yet, its own copy may
\* be ahead of the last message, or be about to fall back to an echo; the end of its
\* queue is the value that it will have.  A property without an echo is never ahead
\* of that.
MirrorHolds == "mirror" \notin missed => Holds("mirror", last)
OwnerHolds  == outbox = <<>> /\ "owner" \notin missed => Holds("owner", last)
NoEcho ==
  permission = "R" =>
    inbox["owner"] = <<>> /\ (outbox # <<>> => value["owner"] = EndOf(outbox))

AgreeInv ==
  /\ ~online["owner"] => outbox = <<>>
  /\ MirrorHolds /\ OwnerHolds /\ NoEcho

LEMMA AgreeInit == PropertiesInit => AgreeInv
  BY DEF PropertiesInit, AgreeInv, MirrorHolds, OwnerHolds, NoEcho, Holds, Things

\* What the owner publishes is at the end of its queue, or lost for itself alone.
LEMMA AgreePublish ==
  ASSUME PropertiesTypeOK, AgreeInv, NEW v \in Texts, publishValue(v),
         value' = [value EXCEPT !["owner"] = v],
         UNCHANGED <<permission, online, inbox, last>>
  PROVE  AgreeInv'
<1>1. "owner" \in Things /\ "mirror" \in Things
  BY DEF Things
<1>2. value'["mirror"] = value["mirror"] /\ value'["owner"] = v
  BY <1>1 DEF PropertiesTypeOK
<1>3. MirrorHolds'
  BY <1>2 DEF AgreeInv, MirrorHolds, Holds, publishValue
<1>4. CASE online["owner"]
  <2>1. outbox' # <<>> /\ EndOf(outbox') = v
    BY <1>4, EndOfAppend DEF publishValue, PropertiesTypeOK
  <2> QED BY <1>2, <1>3, <1>4, <2>1 DEF AgreeInv, OwnerHolds, NoEcho
<1>5. CASE ~online["owner"]
  BY <1>3, <1>5 DEF AgreeInv, OwnerHolds, NoEcho, publishValue
<1> QED BY <1>4, <1>5

\* Who is subscribed and reached has the message at the end of its queue.
LEMMA HoldsBroadcast ==
  ASSUME PropertiesTypeOK, NEW v \in Texts, Broadcast(v), NEW t \in Subscribers, t \in Things,
           online[t]
  PROVE  inbox'[t] # <<>> /\ EndOf(inbox'[t]) = v
<1>1. inbox[t] \in Seq(Texts) /\ inbox'[t] = Append(inbox[t], v)
  BY DEF Broadcast, PropertiesTypeOK
<1> QED BY <1>1, EndOfAppend

LEMMA AgreeBroadcast ==
  ASSUME PropertiesTypeOK, NEW v \in Texts, Broadcast(v)
  PROVE  /\ MirrorHolds'
         /\ permission = "RW" /\ online["owner"] => Holds("owner", last)'
         /\ last' = v /\ ("owner" \notin missed' => online["owner"])
         /\ permission = "R" => inbox'["owner"] = inbox["owner"]
<1>1. "owner" \in Things /\ "mirror" \in Things /\ "mirror" \in Subscribers
  BY DEF Things, Subscribers
<1>2. last' = v /\ ("mirror" \notin missed' => online["mirror"])
                /\ ("owner" \notin missed' => online["owner"])
  BY <1>1 DEF Broadcast
<1>3. MirrorHolds'
  BY <1>1, <1>2, HoldsBroadcast DEF MirrorHolds, Holds
<1>4. ASSUME permission = "RW", online["owner"]
      PROVE  Holds("owner", last)'
  <2>1. "owner" \in Subscribers
    BY <1>4 DEF Subscribers, Things
  <2> QED BY <1>1, <1>2, <1>4, <2>1, HoldsBroadcast DEF Holds
<1>5. ASSUME permission = "R"
      PROVE  inbox'["owner"] = inbox["owner"]
  <2>1. "owner" \notin Subscribers
    BY <1>5 DEF Subscribers
  <2> QED BY <1>1, <2>1 DEF Broadcast
<1> QED BY <1>2, <1>3, <1>4, <1>5

LEMMA AgreeNext == PropertiesTypeOK /\ AgreeInv /\ [PropertiesNext]_propertyVars => AgreeInv'
<1> SUFFICES ASSUME PropertiesTypeOK, AgreeInv, [PropertiesNext]_propertyVars PROVE AgreeInv'
  OBVIOUS
<1>0. "owner" \in Things /\ "mirror" \in Things
  BY DEF Things
<1>1. CASE writeProperty
  <2>1. measured \in Texts
    BY DEF PropertiesTypeOK, Texts
  <2> QED BY <1>1, <2>1, AgreePublish DEF writeProperty, Published, config
<1>2. CASE push
  <2>1. value["owner"] \in Texts /\ value' = [value EXCEPT !["owner"] = value["owner"]]
    BY <1>0, <1>2 DEF push, PropertiesTypeOK
  <2> QED BY <1>2, <2>1, AgreePublish DEF push, config
<1>3. CASE Forward
  <2>1. Head(outbox) \in Texts /\ Broadcast(Head(outbox)) /\ outbox # <<>>
    BY <1>3, HeadTailProperties DEF Forward, PropertiesTypeOK
  <2>2. online["owner"] /\ UNCHANGED <<permission, value, online>> /\ outbox' = Tail(outbox)
    BY <1>3, <2>1 DEF AgreeInv, Forward, config
  <2>3. /\ Tail(outbox) = <<>> => Head(outbox) = EndOf(outbox)
        /\ Tail(outbox) # <<>> => EndOf(Tail(outbox)) = EndOf(outbox)
    <3>1. EndOf(<<Head(outbox)>>) = Head(outbox)
      BY DEF EndOf
    <3> QED BY <2>1, <3>1, EndOfTail DEF PropertiesTypeOK
  <2>4. /\ MirrorHolds' /\ last' = Head(outbox)
        /\ permission = "RW" => Holds("owner", last)'
        /\ permission = "R" => inbox'["owner"] = inbox["owner"]
    BY <2>1, <2>2, AgreeBroadcast
  <2>5. CASE permission = "RW"
    BY <2>2, <2>4, <2>5 DEF AgreeInv, OwnerHolds, NoEcho
  <2>6. CASE permission = "R"
    <3>1. inbox'["owner"] = <<>> /\ value'["owner"] = EndOf(outbox)
      BY <2>1, <2>2, <2>4, <2>6 DEF AgreeInv, NoEcho
    <3> QED BY <2>2, <2>3, <2>4, <3>1 DEF AgreeInv, OwnerHolds, NoEcho, Holds
  <2> QED BY <2>5, <2>6 DEF PropertiesTypeOK
<1>4. CASE Dashboard
  <2>1. PICK v \in Values : Broadcast(v)
    BY <1>4 DEF Dashboard
  <2>2. v \in Texts
    BY DEF Texts
  <2>3. permission = "RW" /\ UNCHANGED <<permission, value, online, outbox>>
    BY <1>4 DEF Dashboard, config
  <2>4. /\ MirrorHolds' /\ ("owner" \notin missed' => online["owner"])
        /\ online["owner"] => Holds("owner", last)'
    BY <2>1, <2>2, <2>3, AgreeBroadcast
  <2> QED BY <2>3, <2>4 DEF AgreeInv, OwnerHolds, NoEcho
<1>5. ASSUME NEW t \in Things, callback(t)
      PROVE  AgreeInv'
  <2>1. UNCHANGED <<permission, online, outbox, last, missed>>
    BY <1>5 DEF callback, config
  <2>2. \A v : Holds(t, v) => Holds(t, v)'
    <3> SUFFICES ASSUME NEW v, Holds(t, v) PROVE Holds(t, v)'
      OBVIOUS
    <3>1. inbox[t] \in Seq(Texts) /\ inbox[t] # <<>> /\ EndOf(inbox[t]) = v
      BY <1>5 DEF callback, Holds, PropertiesTypeOK
    <3>2. inbox'[t] = Tail(inbox[t]) /\ value'[t] = Head(inbox[t])
      BY <1>5 DEF callback, PropertiesTypeOK
    <3>3. EndOf(<<Head(inbox[t])>>) = Head(inbox[t])
      BY DEF EndOf
    <3> QED BY <3>1, <3>2, <3>3, EndOfTail DEF Holds
  <2>3. \A u \in Things \ {t} : \A v : Holds(u, v) => Holds(u, v)'
    BY <1>5 DEF callback, PropertiesTypeOK, Holds
  <2>4. MirrorHolds'
    BY <1>0, <2>1, <2>2, <2>3 DEF AgreeInv, MirrorHolds
  <2>5. OwnerHolds'
    BY <1>0, <2>1, <2>2, <2>3 DEF AgreeInv, OwnerHolds
  <2>6. NoEcho'
    <3>1. permission = "R" => t # "owner"
      BY <1>5 DEF AgreeInv, NoEcho, callback
    <3>2. t # "owner" => value'["owner"] = value["owner"] /\ inbox'["owner"] = inbox["owner"]
      BY <1>0, <1>5 DEF callback, PropertiesTypeOK
    <3> QED BY <2>1, <3>1, <3>2 DEF AgreeInv, NoEcho
  <2> QED BY <2>1, <2>4, <2>5, <2>6 DEF AgreeInv
<1>6. ASSUME NEW t \in Things, Disconnect(t)
      PROVE  AgreeInv'
  <2>1. UNCHANGED <<permission, value, last>>
    BY <1>6 DEF Disconnect, config
  <2>2. missed \subseteq missed' /\ \A u \in Things \ missed' : inbox'[u] = inbox[u]
    BY <1>6 DEF Disconnect, PropertiesTypeOK
  <2>3. "owner" \notin missed' => outbox' = outbox
    BY <1>6 DEF Disconnect
  <2>4. outbox' \in {outbox, <<>>} /\ (~online'["owner"] => outbox' = <<>>)
    BY <1>0, <1>6 DEF Disconnect, AgreeInv, PropertiesTypeOK
  <2>5. inbox'["owner"] \in {inbox["owner"], <<>>}
    BY <1>0, <1>6 DEF Disconnect, PropertiesTypeOK
  <2>6. MirrorHolds' /\ OwnerHolds'
    BY <1>0, <2>1, <2>2, <2>3 DEF AgreeInv, MirrorHolds, OwnerHolds, Holds
  <2>7. NoEcho'
    BY <2>1, <2>4, <2>5 DEF AgreeInv, NoEcho
  <2> QED BY <2>4, <2>6, <2>7 DEF AgreeInv
<1>7. ASSUME NEW t \in Things, Resume(t)
      PROVE  AgreeInv'
  <2>1. UNCHANGED <<permission, value, outbox, inbox, last, missed>>
    BY <1>7 DEF Resume, config
  <2>2. ~online'["owner"] => ~online["owner"]
    BY <1>0, <1>7 DEF Resume, PropertiesTypeOK
  <2> QED BY <2>1, <2>2 DEF AgreeInv, MirrorHolds, OwnerHolds, NoEcho, Holds
<1>8. CASE UNCHANGED <<permission, value, online, outbox, inbox, last, missed>>
  BY <1>8 DEF AgreeInv, MirrorHolds, OwnerHolds, NoEcho, Holds
<1>9. ASSUME Measure \/ ClockTick \/ UNCHANGED propertyVars
      PROVE  UNCHANGED <<permission, value, online, outbox, inbox, last, missed>>
  BY <1>9 DEF Measure, ClockTick, propertyVars, config
<1> QED BY <1>1, <1>2, <1>3, <1>4, <1>5, <1>6, <1>7, <1>8, <1>9 DEF PropertiesNext

\* When nothing is under way every thing that did not miss the last message has the
\* value that it carried: at every moment the end of the queue of a thing tells the
\* value that it will come to, and the end of the owner's own queue is what the broker
\* will pass on last, also to the owner.
THEOREM AgreedHolds == PropertiesSpec => []Agreed
<1>1. AgreeInv => Agreed
  BY DEF AgreeInv, MirrorHolds, OwnerHolds, Holds, Agreed, Quiet, Things
<1> QED BY <1>1, PropertyTypeInit, PropertyTypeNext, AgeInit, AgeNext, AgreeInit,
     AgreeNext, PTL DEF PropertiesSpec
=============================================================================
