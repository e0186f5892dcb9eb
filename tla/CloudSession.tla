---------------------------- MODULE CloudSession ----------------------------
(***************************************************************************)
(* The connection of an ArduinoCloudThing to its broker: poll(), which      *)
(* dials, subscribes and yields, the MQTT client below it, the network      *)
(* wrapper, the TCP connection and the broker.                              *)
(*                                                                         *)
(* The client is one thread: pc tells in which of the blocking loops of     *)
(* poll() it is.  QoS 1 and 2 are compiled out (ArduinoCloudThing.h:14), so *)
(* that a PUBLISH that arrives is handled like a PINGRESP afterwards.       *)
(*                                                                         *)
(* Timers hold the ticks that remain; the wrap-around of millis() is left   *)
(* out.  What a message says is the business of CloudProperties.            *)
(***************************************************************************)
EXTENDS Integers, Sequences

CONSTANTS
  LastProp,     \* the properties to subscribe to are 1..LastProp
  KeepAlive,    \* options.keepAliveInterval
  Command,      \* command_timeout_ms
  PollGap,      \* the program calls poll() again within this time
  Grace,        \* a broker drops a client that is silent for longer
  QueueCap      \* bound: the broker publishes only while fewer packets are under way

ASSUME SessionAssumption ==
  /\ LastProp \in Nat /\ KeepAlive \in Nat \ {0} /\ Command \in Nat \ {0}
  /\ PollGap \in Nat /\ Grace \in Nat /\ QueueCap \in Nat
  /\ KeepAlive + PollGap <= Grace

Props == 1..LastProp

VARIABLES
  pc,                       \* the loop of poll() the program is in
  toSub,                    \* the property that mqttSubscribe() is at
  isconnected, pingOutstanding,
  lastSent, lastReceived, command,     \* the timers of the client
  gap,                      \* time since poll() was last called
  tcp,                      \* "up", "down", or "dead": broken but not noticed
  toBroker, toClient,       \* packets under way
  session, subs, silence,   \* the broker: has it accepted the client, which
                            \* subscriptions, how long has it heard nothing?
  dials                     \* history: connections made (2: at least two)

clientVars == <<isconnected, pingOutstanding>>
timers     == <<lastSent, lastReceived, command, gap>>
brokerVars == <<session, subs, silence>>
vars == <<pc, toSub, clientVars, timers, tcp, toBroker, toClient, brokerVars, dials>>

\* Packets that carry a property number and packets that do not.
Pkt(type, prop, ok) == [type |-> type, prop |-> prop, ok |-> ok]
Connect      == Pkt("CONNECT", 0, TRUE)
Subscribe(i) == Pkt("SUBSCRIBE", i, TRUE)
Publish      == Pkt("PUBLISH", 0, TRUE)
Pingreq      == Pkt("PINGREQ", 0, TRUE)
Pingresp     == Pkt("PINGRESP", 0, TRUE)
Garbage      == Pkt("GARBAGE", 0, FALSE)

ClientPackets == {Connect, Publish, Pingreq, Garbage} \cup {Subscribe(i) : i \in Props}
BrokerPackets == {Publish, Pingresp} \cup {Pkt("CONNACK", 0, ok) : ok \in BOOLEAN}
                   \cup {Pkt("SUBACK", i, ok) : i \in Props, ok \in BOOLEAN}

TypeOK ==
  /\ pc \in {"idle", "dial", "connack", "online", "sub", "suback", "yield"}
  /\ toSub \in 1..(LastProp + 1)
  /\ isconnected \in BOOLEAN /\ pingOutstanding \in BOOLEAN
  /\ lastSent \in 0..KeepAlive /\ lastReceived \in 0..KeepAlive
  /\ command \in 0..Command /\ gap \in 0..PollGap
  /\ tcp \in {"up", "down", "dead"}
  /\ toBroker \in Seq(ClientPackets) /\ toClient \in Seq(BrokerPackets)
  /\ session \in BOOLEAN /\ subs \subseteq Props /\ silence \in 0..(Grace + 1)
  /\ dials \in 0..2

Init ==
  /\ pc = "idle" /\ toSub = 1 /\ isconnected = FALSE /\ pingOutstanding = FALSE
  /\ lastSent = KeepAlive /\ lastReceived = KeepAlive /\ command = 0 /\ gap = 0
  /\ tcp = "down" /\ toBroker = <<>> /\ toClient = <<>>
  /\ session = FALSE /\ subs = {} /\ silence = 0 /\ dials = 0

-----------------------------------------------------------------------------
(* The packet level                                                        *)

\* sendPacket(): a write to a closed connection fails; a write that the network
\* takes only in part is followed by bytes from beyond the packet, and fails too.
\* Behind such garbage, or on a dead connection, it does not matter what is sent.
SendResults == IF tcp = "down" THEN {FALSE} ELSE BOOLEAN

Lost == toBroker # <<>> /\ toBroker[Len(toBroker)] = Garbage

sendPacket(p, sent) ==
  /\ sent \in SendResults
  /\ toBroker' = IF tcp = "down" \/ Lost THEN toBroker
                 ELSE Append(toBroker, IF sent /\ tcp = "up" THEN p ELSE Garbage)
  /\ lastSent' = IF sent THEN KeepAlive ELSE lastSent

\* cycle(): PINGRESP ends the wait for it, and so does PUBLISH, whose case falls
\* through to that of PINGRESP.
StillOutstanding(p) == pingOutstanding /\ p.type \notin {"PINGRESP", "PUBLISH"}

\* Mutant: only received packets count.
Mut_PingDueReceived(received) == received = 0

PingDue(received) == lastSent = 0 \/ received = 0

\* keepalive(), which cycle() calls last.
keepalive(received, outstanding) ==
  IF PingDue(received) /\ ~outstanding
  THEN \E sent \in BOOLEAN : sendPacket(Pingreq, sent) /\ pingOutstanding' = sent
  ELSE pingOutstanding' = outstanding /\ UNCHANGED <<toBroker, lastSent>>

\* cycle() when a packet p is there, and when there is none.
cycleRead(p) ==
  /\ toClient # <<>> /\ p = Head(toClient)
  /\ toClient' = Tail(toClient)
  /\ lastReceived' = KeepAlive
  /\ keepalive(KeepAlive, StillOutstanding(p))
cycleEmpty ==
  /\ toClient = <<>>
  /\ keepalive(lastReceived, pingOutstanding)
  /\ UNCHANGED <<toClient, lastReceived>>

-----------------------------------------------------------------------------
(* poll()                                                                  *)

\* Either the client is not connected and dials, or it yields; it gives up the
\* session first when it finds the connection closed.
poll ==
  /\ pc = "idle"
  /\ pc' = IF isconnected THEN "yield" ELSE "dial"
  /\ isconnected' = (isconnected /\ tcp # "down")
  /\ gap' = 0
  /\ UNCHANGED <<toSub, pingOutstanding, lastSent, lastReceived, command, tcp,
                 toBroker, toClient, brokerVars, dials>>

\* network.connect() makes a new connection, or does not and is tried again.
NoAnswer ==
  /\ pc = "dial"
  /\ tcp' = "down" /\ toBroker' = <<>> /\ toClient' = <<>> /\ session' = FALSE /\ subs' = {}
  /\ silence' = 0
  /\ UNCHANGED <<pc, toSub, clientVars, timers, dials>>

\* ... and then connect() sends CONNECT.  It leaves pingOutstanding as it was.
Dial ==
  /\ pc = "dial"
  /\ tcp' = "up" /\ toClient' = <<>> /\ session' = FALSE /\ subs' = {} /\ silence' = 0
  /\ dials' = IF dials = 0 THEN 1 ELSE 2
  /\ \E sent \in BOOLEAN :
       /\ toBroker' = <<IF sent THEN Connect ELSE Garbage>>
       /\ pc' = IF sent THEN "connack" ELSE "dial"
       /\ lastSent' = IF sent THEN KeepAlive ELSE lastSent
       /\ lastReceived' = IF sent THEN KeepAlive ELSE lastReceived
  /\ command' = Command
  /\ UNCHANGED <<toSub, clientVars, gap>>

\* Mutant: waitfor() has no limit.
Mut_NoLimit == FALSE
Expired == command = 0

\* waitfor(CONNACK) runs out of time: connect() failed and is tried again.
ConnackTimeout ==
  /\ pc = "connack" /\ Expired
  /\ pc' = "dial"
  /\ UNCHANGED <<toSub, clientVars, timers, tcp, toBroker, toClient, brokerVars, dials>>

AwaitConnack ==
  /\ pc = "connack" /\ ~Expired
  /\ \/ cycleEmpty /\ UNCHANGED <<pc, isconnected>>
     \/ \E p \in BrokerPackets :
          /\ cycleRead(p)
          /\ pc' = IF p.type # "CONNACK" THEN pc
                   ELSE IF p.ok THEN "online" ELSE "dial"
          /\ isconnected' = (isconnected \/ (p.type = "CONNACK" /\ p.ok))
  /\ UNCHANGED <<toSub, command, gap, tcp, brokerVars, dials>>

\* The thing publishes that it is online; a failure of that ends the session.
PublishOnline ==
  /\ pc = "online"
  /\ \E sent \in BOOLEAN : sendPacket(Publish, sent) /\ isconnected' = sent
  /\ pc' = "sub" /\ toSub' = 1
  /\ UNCHANGED <<pingOutstanding, lastReceived, command, gap, tcp, toClient,
                 brokerVars, dials>>

\* Mutant: a subscription that failed leaves the session as it is.
Mut_IgnoreFailure(ok) == isconnected
AfterSubscribe(ok) == isconnected /\ ok

\* mqttSubscribe() at a property: subscribe() refuses without a session.
mqttSubscribe ==
  /\ pc = "sub" /\ toSub \in Props
  /\ IF ~isconnected
     THEN toSub' = toSub + 1 /\ UNCHANGED <<pc, isconnected, toBroker, lastSent, command>>
     ELSE \E sent \in BOOLEAN :
            /\ sendPacket(Subscribe(toSub), sent)
            /\ pc' = IF sent THEN "suback" ELSE "sub"
            /\ toSub' = IF sent THEN toSub ELSE toSub + 1
            /\ isconnected' = AfterSubscribe(sent)
            /\ command' = Command
  /\ UNCHANGED <<pingOutstanding, lastReceived, gap, tcp, toClient, brokerVars, dials>>

SubackTimeout ==
  /\ pc = "suback" /\ Expired
  /\ pc' = "sub" /\ toSub' = toSub + 1 /\ isconnected' = AfterSubscribe(FALSE)
  /\ UNCHANGED <<pingOutstanding, timers, tcp, toBroker, toClient, brokerVars, dials>>

\* waitfor(SUBACK): any SUBACK will do; its packet id is read but not compared.
AwaitSuback ==
  /\ pc = "suback" /\ ~Expired
  /\ \/ cycleEmpty /\ UNCHANGED <<pc, toSub, isconnected>>
     \/ \E p \in BrokerPackets :
          /\ cycleRead(p)
          /\ IF p.type # "SUBACK" THEN UNCHANGED <<pc, toSub, isconnected>>
             ELSE pc' = "sub" /\ toSub' = toSub + 1 /\ isconnected' = AfterSubscribe(p.ok)
  /\ UNCHANGED <<command, gap, tcp, brokerVars, dials>>

\* All properties were tried: back to the top of poll()'s loop.
Subscribed ==
  /\ pc = "sub" /\ toSub > LastProp
  /\ pc' = IF isconnected THEN "yield" ELSE "dial"
  /\ isconnected' = (isconnected /\ tcp # "down")
  /\ UNCHANGED <<toSub, pingOutstanding, timers, tcp, toBroker, toClient, brokerVars, dials>>

\* yield() works until nothing is there to read (which counts as a failure), or,
\* after at least one packet, until its time is over.
yield ==
  /\ pc = "yield"
  /\ \/ cycleEmpty /\ pc' = "idle"
     \/ (\E p \in BrokerPackets : cycleRead(p)) /\ pc' \in {"yield", "idle"}
  /\ UNCHANGED <<toSub, isconnected, command, gap, tcp, brokerVars, dials>>

\* publish() by the application, between two calls of poll(); without a session the
\* message is dropped.
publish ==
  /\ pc = "idle" /\ isconnected /\ Len(toBroker) + Len(toClient) < QueueCap
  /\ \E sent \in BOOLEAN : sendPacket(Publish, sent) /\ isconnected' = sent
  /\ UNCHANGED <<pc, toSub, pingOutstanding, lastReceived, command, gap, tcp, toClient,
                 brokerVars, dials>>

program ==
  \/ poll \/ NoAnswer \/ Dial \/ ConnackTimeout \/ AwaitConnack \/ PublishOnline
  \/ mqttSubscribe \/ SubackTimeout \/ AwaitSuback \/ Subscribed \/ yield

-----------------------------------------------------------------------------
(* Time, the network and the broker                                        *)

\* A timer keeps what is left of it: nothing, once it has expired.
Less(n) == IF n = 0 THEN 0 ELSE n - 1

\* Time passes while the program is out of poll(), waits between two attempts to
\* connect, or finds nothing to read.
Tick ==
  /\ \/ pc = "idle" /\ gap < PollGap
     \/ pc = "dial"
     \/ pc \in {"connack", "suback"} /\ toClient = <<>>
  /\ lastSent' = Less(lastSent) /\ lastReceived' = Less(lastReceived)
  /\ command' = Less(command)
  /\ gap' = IF pc = "idle" THEN gap + 1 ELSE gap
  /\ silence' = IF session /\ silence <= Grace THEN silence + 1 ELSE silence
  /\ UNCHANGED <<pc, toSub, clientVars, tcp, toBroker, toClient, session, subs, dials>>

Closed ==
  /\ tcp' = "down" /\ toBroker' = <<>> /\ toClient' = <<>> /\ session' = FALSE /\ subs' = {}
  /\ silence' = 0
  /\ UNCHANGED <<pc, toSub, clientVars, timers, dials>>

\* The connection breaks: both sides know, or the client does not yet.  It finds
\* out when something it sent is not acknowledged.
LinkDown   == tcp = "up" /\ Closed
LinkDies   == tcp = "up" /\ tcp' = "dead" /\ session' = FALSE /\ subs' = {} /\ silence' = 0
                /\ toBroker' = (IF toBroker = <<>> THEN <<>> ELSE <<Garbage>>)
                /\ UNCHANGED <<pc, toSub, clientVars, timers, toClient, dials>>
LinkNotice == tcp = "dead" /\ toBroker # <<>> /\ Closed

Answer(p) ==
  /\ toClient' = Append(toClient, p)
  /\ silence' = 0 /\ toBroker' = Tail(toBroker)
  /\ UNCHANGED <<pc, toSub, clientVars, timers, tcp, dials>>

Broker ==
  /\ tcp = "up" /\ toBroker # <<>>
  /\ LET p == Head(toBroker) IN
     \/ /\ p = Connect
        /\ \E ok \in BOOLEAN : Answer(Pkt("CONNACK", 0, ok)) /\ session' = ok
        /\ UNCHANGED subs
     \/ /\ session /\ p.type = "SUBSCRIBE"
        /\ \E ok \in BOOLEAN :
             /\ Answer(Pkt("SUBACK", p.prop, ok))
             /\ subs' = IF ok THEN subs \cup {p.prop} ELSE subs
        /\ UNCHANGED session
     \/ /\ session /\ p = Pingreq
        /\ Answer(Pingresp) /\ UNCHANGED <<session, subs>>
     \/ /\ session /\ p = Publish
        /\ silence' = 0 /\ toBroker' = Tail(toBroker)
        /\ UNCHANGED <<pc, toSub, clientVars, timers, tcp, toClient, session, subs, dials>>
     \/ /\ p = Garbage \/ (~session /\ p # Connect)
        /\ Closed

BrokerPublish ==
  /\ tcp = "up" /\ session /\ subs # {} /\ Len(toBroker) + Len(toClient) < QueueCap
  /\ toClient' = Append(toClient, Publish)
  /\ UNCHANGED <<pc, toSub, clientVars, timers, tcp, toBroker, brokerVars, dials>>

BrokerDrops == tcp = "up" /\ session /\ silence > Grace /\ Closed

Next ==
  \/ program \/ publish \/ Tick
  \/ LinkDown \/ LinkDies \/ LinkNotice
  \/ Broker \/ BrokerPublish \/ BrokerDrops

Spec == Init /\ [][Next]_vars

-----------------------------------------------------------------------------
(* Safety                                                                  *)

\* When poll() has returned and the client counts as connected, the broker sends it
\* the changes of every property it can be told about: no subscription that was
\* refused, timed out or lost with a connection is taken for granted.
SubscribedWhenOnline ==
  pc \in {"idle", "yield"} /\ isconnected /\ tcp = "up" => session /\ subs = Props

\* subscribe() takes the answer to its own request, although it does not compare
\* packet ids and requests may have timed out before.
AcksMatch == [][AwaitSuback /\ pc' = "sub" => Head(toClient).prop = toSub]_vars

SilentTooLong == isconnected /\ tcp = "up" /\ session /\ toBroker = <<>> /\ silence > Grace

\* The broker hears from the client in time, as long as the program calls poll()
\* often enough, on the first connection: a ping that was outstanding when a connection
\* ended is never answered, and none is sent on the next.
KeptAlive == dials <= 1 => ~SilentTooLong

-----------------------------------------------------------------------------
(* Progress: the program runs and time passes; from some time on the link   *)
(* stays up and takes what is sent, and the broker accepts, and in time.    *)

YieldEnds == yield /\ pc' = "idle"
Failure ==
  \/ LinkDown \/ LinkDies
  \/ ConnackTimeout \/ SubackTimeout
  \/ ~Lost /\ Lost'
  \/ Len(toClient') > Len(toClient) /\ ~toClient'[Len(toClient')].ok
FairSpec ==
  /\ Spec /\ <>[][~Failure]_vars
  /\ WF_vars(program) /\ WF_vars(YieldEnds) /\ WF_vars(Tick)
  /\ SF_vars(Dial) /\ WF_vars(Broker) /\ WF_vars(LinkNotice)

\* poll() comes back, and the thing is online again, once the network and the broker
\* let it.
PollReturns == pc # "idle" ~> pc = "idle"
=============================================================================
