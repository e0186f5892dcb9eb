------------------------------ MODULE WebSocket ------------------------------
(***************************************************************************)
(* WebSocketClient of ArduinoHttpClient, on the connection that HttpClient   *)
(* has opened: parseMessage() takes frames off a stream that delivers their  *)
(* bytes in pieces and answers PING; the program reads and sends messages.   *)
(*                                                                         *)
(* The server's frames stand in wire, in order and for good; arrived and pos *)
(* count the bytes that have come and that were read.  Payload and mask are  *)
(* zeros ('0'), which is what a client reads that has lost the boundary      *)
(* between two frames.                                                     *)
(***************************************************************************)
EXTENDS Integers, Sequences, FiniteSetsExt

CONSTANTS
  BufferSize,       \* of iTxBuffer
  WordSize,         \* of iTxSize
  Huge,             \* stands for the numbers that an iRxSize below 0 wraps to; no frame is
                    \* as long
  Frames,           \* what a server sends: fin, opcode, masked, size of the payload
  MaxFrames,        \* bound: on one connection
  Cuts,             \* bound: a stream pauses behind so many bytes of a frame, or at its end
  Reads, Writes     \* sizes of the program's reads and writes

CONTINUATION == 0
TEXT  == 1
CLOSE == 8
PING  == 9
PONG  == 10
Control == {CLOSE, PING, PONG}

ASSUME WebSocketAssumption ==
  /\ BufferSize \in Nat /\ WordSize \in Nat /\ WordSize < BufferSize
  /\ Huge \in Nat \ {0} /\ Huge \div 65536 < 256 /\ MaxFrames \in Nat
  /\ Frames \subseteq [fin : BOOLEAN, op : {CONTINUATION, TEXT} \cup Control,
                       masked : BOOLEAN, size : 0..(Huge - 1)]
  /\ Cuts \subseteq Nat /\ Reads \subseteq Nat /\ Writes \subseteq Nat

VARIABLES
  wire, arrived, pos,       \* the stream
  open,                     \* has the server not ended the connection?
  upgraded,                 \* iState = eReadingBody: some status came with its headers
  pc,                       \* the read that is next, "idle": the program's turn, or "halted":
                            \* memory behind iTxBuffer is overwritten
  left, value,              \* bytes of the length that are still to be read; what the
                            \* others make
  iRxOpCode, iRxMasked, iRxSize,
  iTxStarted, iTxMessageType, iTxSize,
  out,                      \* history: the frame that the last step has sent,
  parsed,                   \* history: frames whose header was read
  lost                      \* history: was a byte of a header read that had not come, or one
                            \* of a frame that no parseMessage() had found?

stream  == <<wire, arrived, pos, open>>
rx      == <<left, value, iRxOpCode, iRxMasked, iRxSize>>
tx      == <<iTxStarted, iTxMessageType, iTxSize>>
history == <<parsed, lost>>
vars    == <<stream, upgraded, pc, rx, tx, out, history>>

-----------------------------------------------------------------------------
(* The bytes of the server                                                 *)

Zero   == 48                \* '0'
OpCode(f) == f.op + (IF f.fin THEN 128 ELSE 0)
Code(f)   == IF f.size < 126 THEN f.size ELSE IF f.size < 65536 THEN 126 ELSE 127

\* Bytes of the length behind the code.
SizeBytes(code) == IF code < 126 THEN 0 ELSE IF code = 126 THEN 2 ELSE 8
HeaderSize(f)   == 2 + SizeBytes(Code(f)) + (IF f.masked THEN 4 ELSE 0)
Size(f)         == HeaderSize(f) + f.size

End(k) == IF k = 0 THEN 0 ELSE wire[k].start + Size(wire[k].frame)
Total  == End(Len(wire))

\* The i-th byte from the right, of those that a frame of this size has.
SizeByte(n, i) == CASE i = 1 -> n % 256 [] i = 2 -> (n \div 256) % 256
                    [] i = 3 -> (n \div 65536) % 256 [] OTHER -> 0

ByteAt(q) ==
  LET k == CHOOSE k \in DOMAIN wire : wire[k].start < q /\ q <= End(k)
      f == wire[k].frame
      i == q - wire[k].start
      n == SizeBytes(Code(f))
  IN  IF i = 1 THEN OpCode(f)
      ELSE IF i = 2 THEN Code(f) + (IF f.masked THEN 128 ELSE 0)
      ELSE IF i <= 2 + n THEN SizeByte(f.size, n + 3 - i)
      ELSE Zero

\* A message may be sent in fragments; control frames may come between them.
Fragmented ==
  \E k \in DOMAIN wire :
    /\ wire[k].frame.op \notin Control /\ ~wire[k].frame.fin
    /\ \A l \in (k + 1)..Len(wire) : wire[l].frame.op \in Control
Closed == \E k \in DOMAIN wire : wire[k].frame.op = CLOSE
Legal(f) ==
  IF f.op \in Control THEN f.fin ELSE (f.op = CONTINUATION) = Fragmented

\* The client only sees when bytes arrive: the server sends the next frame when all have.
ServerSends ==
  /\ open /\ upgraded /\ ~Closed /\ arrived = Total /\ Len(wire) < MaxFrames
  /\ \E f \in Frames : Legal(f) /\ wire' = Append(wire, [frame |-> f, start |-> Total])
  /\ out' = <<>>
  /\ UNCHANGED <<arrived, pos, open, upgraded, pc, rx, tx, history>>

Arrives ==
  /\ open /\ arrived < Total
  /\ LET w == wire[Len(wire)] IN
     arrived' \in {n \in {w.start + c : c \in Cuts} \cup {Total} : arrived < n /\ n <= Total}
  /\ out' = <<>>
  /\ UNCHANGED <<wire, pos, open, upgraded, pc, rx, tx, history>>

ConnectionEnds ==
  /\ open /\ open' = FALSE
  /\ out' = <<>>
  /\ UNCHANGED <<wire, arrived, pos, upgraded, pc, rx, tx, history>>

Connected == open \/ pos < arrived

-----------------------------------------------------------------------------
(* The connection                                                          *)

Init ==
  /\ wire = <<>> /\ arrived = 0 /\ pos = 0 /\ open = FALSE
  /\ upgraded = FALSE /\ pc = "idle"
  /\ left = 0 /\ value = 0 /\ iRxOpCode = 0 /\ iRxMasked = FALSE /\ iRxSize = 0
  /\ iTxStarted = FALSE /\ iTxMessageType = 0 /\ iTxSize = 0
  /\ out = <<>> /\ parsed = 0 /\ lost = FALSE

NewStream == wire' = <<>> /\ arrived' = 0 /\ pos' = 0 /\ parsed' = 0 /\ lost' = FALSE

\* The upgrade request is HttpClient's.  On a new connection the server answers 101, or
\* something else, or ends the connection, or does nothing; where there is one the
\* request goes into it: the first byte of a frame is no status line (HTTP_ERROR_INVALID_
\* RESPONSE), and a server that has upgraded gives none.  (Bound: where that has failed
\* the program does not try again on the same connection.)  Nothing is forgotten of a
\* message that was begun.
begin ==
  /\ pc = "idle"
  /\ \/ /\ \/ ~Connected /\ open' \in BOOLEAN
           \/ open /\ ~upgraded /\ wire = <<>> /\ UNCHANGED open
        /\ NewStream /\ upgraded' \in BOOLEAN
     \/ /\ Connected /\ upgraded
        /\ pos' = Min({pos + 1, arrived}) /\ upgraded' = FALSE
        /\ UNCHANGED <<wire, arrived, open, history>>
  /\ iRxSize' = 0
  /\ out' = <<>>
  /\ UNCHANGED <<pc, left, value, iRxOpCode, iRxMasked, tx>>

\* HttpClient's stop(): iRxSize stays, but available() no longer asks for it.
stop ==
  /\ pc = "idle"
  /\ NewStream /\ open' = FALSE /\ upgraded' = FALSE
  /\ out' = <<>>
  /\ UNCHANGED <<pc, rx, tx>>

-----------------------------------------------------------------------------
(* Sending                                                                 *)

Stored(n) == IF iTxSize + n > BufferSize THEN WordSize - iTxSize ELSE n

\* The rest of the buffer is not what remains of the word: below 0, it is a size_t that
\* memcpy() does not survive.
Overrun(n) == Stored(n) < 0

Opens(type) ==
  IF iTxStarted THEN UNCHANGED <<iTxStarted, iTxMessageType, iTxSize>>
  ELSE iTxStarted' = TRUE /\ iTxMessageType' = type /\ iTxSize' = 0

\* FIN is always set: a message is one frame.
Sends(n) ==
  /\ out' = IF upgraded /\ open THEN <<[op |-> iTxMessageType, size |-> n]>> ELSE <<>>
  /\ iTxStarted' = FALSE /\ iTxSize' = 0
  /\ UNCHANGED iTxMessageType

beginMessage ==
  /\ pc = "idle" /\ ~iTxStarted
  /\ Opens(TEXT)
  /\ out' = <<>>
  /\ UNCHANGED <<stream, upgraded, pc, rx, history>>

endMessage ==
  /\ pc = "idle" /\ iTxStarted
  /\ Sends(iTxSize)
  /\ UNCHANGED <<stream, upgraded, pc, rx, history>>

write ==
  /\ pc = "idle" /\ upgraded /\ iTxStarted
  /\ \E n \in Writes :
       IF Overrun(n) THEN pc' = "halted" /\ UNCHANGED iTxSize
                     ELSE iTxSize' = iTxSize + Stored(n) /\ UNCHANGED pc
  /\ out' = <<>>
  /\ UNCHANGED <<stream, upgraded, rx, iTxStarted, iTxMessageType, history>>

PingSize == 16

\* beginMessage(), write() and endMessage(); what the first says nobody looks at.
ping ==
  /\ pc = "idle" /\ upgraded
  /\ LET before == IF iTxStarted THEN iTxSize ELSE 0
         type   == IF iTxStarted THEN iTxMessageType ELSE PING
     IN  IF iTxStarted /\ Overrun(PingSize)
         THEN pc' = "halted" /\ out' = <<>> /\ UNCHANGED tx
         ELSE /\ out' = IF open THEN <<[op |-> type,
                                        size |-> before + (IF iTxStarted THEN Stored(PingSize)
                                                           ELSE PingSize)]>>
                        ELSE <<>>
              /\ iTxStarted' = FALSE /\ iTxMessageType' = type /\ iTxSize' = 0
              /\ UNCHANGED pc
  /\ UNCHANGED <<stream, upgraded, rx, history>>

-----------------------------------------------------------------------------
(* Receiving                                                               *)

SomethingThere == pos < arrived
messageType    == iRxOpCode % 16
isFinal        == iRxOpCode >= 128

\* An unsigned number.
Less(n) == IF n > iRxSize \/ iRxSize = Huge THEN Huge ELSE iRxSize - n

Taken(n) == pos' = pos + n /\ iRxSize' = Less(n)

Current == wire[parsed].frame

\* A program may ask for more than the frame has.  Bound: fewer bytes than have come it
\* reads at the front of a frame only.
read ==
  /\ pc = "idle" /\ upgraded /\ SomethingThere
  /\ \E n \in Reads :
       LET count == Min({n, arrived - pos}) IN
       /\ count = arrived - pos \/ (parsed > 0 /\ iRxSize = Current.size)
       /\ Taken(count)
       /\ lost' = (lost \/ count > iRxSize)
  /\ out' = <<>>
  /\ UNCHANGED <<wire, arrived, open, upgraded, pc, left, value, iRxOpCode, iRxMasked, tx, parsed>>

\* What has not come is not waited for: it is taken to be 255, and can be read later.
readString ==
  /\ pc = "idle" /\ upgraded /\ iRxSize \in 1..(Huge - 1)
  /\ Taken(Min({iRxSize, arrived - pos}))
  /\ out' = <<>>
  /\ UNCHANGED <<wire, arrived, open, upgraded, pc, left, value, iRxOpCode, iRxMasked, tx, history>>

\* Mutant: what the program has not read stays in front.
Mut_First == "header"
First == "flush"

parseMessage ==
  /\ pc = "idle" /\ upgraded
  /\ pc' = First
  /\ out' = <<>>
  /\ UNCHANGED <<stream, upgraded, rx, tx, history>>

\* The loop asks iRxSize, not the stream: while nothing comes it goes round.
Flush(next) ==
  IF iRxSize = 0 THEN pc' = next /\ UNCHANGED <<pos, iRxSize>>
  ELSE SomethingThere /\ Taken(Min({iRxSize, arrived - pos})) /\ UNCHANGED pc

flushRx ==
  /\ pc \in {"flush", "pong"}
  /\ Flush(IF pc = "flush" THEN "header" ELSE "idle")
  /\ out' = <<>>
  /\ UNCHANGED <<wire, arrived, open, upgraded, left, value, iRxOpCode, iRxMasked, tx, history>>

\* The rest of a CLOSE frame, and then the end.
FlushAndStop ==
  /\ pc = "close"
  /\ IF iRxSize = 0
     THEN /\ NewStream /\ open' = FALSE /\ upgraded' = FALSE
          /\ pc' = "idle" /\ UNCHANGED iRxSize
     ELSE /\ Flush("close") /\ UNCHANGED <<wire, arrived, open, upgraded, history>>
  /\ out' = <<>>
  /\ UNCHANGED <<left, value, iRxOpCode, iRxMasked, tx>>

\* Mutant: a continuation has an opcode of its own.
Mut_OpCode(c) == c

\* A continuation adds its FIN to the opcode of the frame before it.
NewOpCode(c) ==
  IF c % 16 # 0 THEN c
  ELSE IF c < 128 \/ isFinal THEN iRxOpCode ELSE iRxOpCode + 128

\* Mutant: it waits for a frame.
Mut_NoFrame == "header"
NoFrame == "idle"

ReadHeader ==
  /\ pc = "header"
  /\ IF arrived - pos < 2
     THEN pc' = NoFrame /\ UNCHANGED <<pos, rx, parsed>>
     ELSE LET c == ByteAt(pos + 1)
              l == ByteAt(pos + 2)
          IN  /\ pos' = pos + 2
              /\ iRxOpCode' = NewOpCode(c)
              /\ iRxMasked' = (l >= 128)
              /\ iRxSize' = (IF l % 128 < 126 THEN l % 128 ELSE 0)
              /\ left' = SizeBytes(l % 128) /\ value' = 0
              /\ pc' = (IF l % 128 < 126 THEN "mask" ELSE "size")
              /\ parsed' = IF lost THEN parsed ELSE parsed + 1
  /\ out' = <<>>
  /\ UNCHANGED <<wire, arrived, open, upgraded, tx, lost>>

\* A byte of the length that has not come is -1, and so is all of it then.
ReadSize ==
  /\ pc = "size"
  /\ LET missing == ~SomethingThere
         b == IF missing THEN Huge ELSE ByteAt(pos + 1)
         n == Min({Huge, value * 256 + b})
     IN  /\ pos' = (IF missing THEN pos ELSE pos + 1)
         /\ lost' = (lost \/ missing)
         /\ left' = left - 1
         /\ IF left = 1 THEN iRxSize' = n /\ value' = 0 /\ pc' = "mask"
                        ELSE value' = n /\ UNCHANGED <<iRxSize, pc>>
  /\ out' = <<>>
  /\ UNCHANGED <<wire, arrived, open, upgraded, iRxOpCode, iRxMasked, tx, parsed>>

\* The mask, if there is one, and what the type of the message asks for.
Dispatch ==
  /\ pc = "mask"
  /\ LET n == IF iRxMasked THEN Min({4, arrived - pos}) ELSE 0
     IN  pos' = pos + n /\ lost' = (lost \/ (iRxMasked /\ n < 4))
  /\ pc' = CASE messageType = CLOSE -> "close" [] messageType = PING -> "ping"
             [] messageType = PONG -> "pong" [] OTHER -> "idle"
  /\ IF messageType = PING THEN Opens(PONG) ELSE UNCHANGED tx
  /\ out' = <<>>
  /\ UNCHANGED <<wire, arrived, open, upgraded, rx, parsed>>

\* Mutant: the answer is sent when nothing is there.
Mut_EchoDone == ~SomethingThere
EchoDone == iRxSize = 0

\* The payload of a PING goes out as it comes, behind what the program's message holds; a
\* byte that has not come is 255 and is asked for again.
Echo ==
  /\ pc = "ping"
  /\ IF EchoDone
     THEN /\ Sends(iTxSize)
          /\ pc' = "idle" /\ iRxSize' = 0 /\ UNCHANGED pos
     ELSE /\ IF SomethingThere THEN Taken(1) ELSE UNCHANGED <<pos, iRxSize>>
          /\ IF Overrun(1) THEN pc' = "halted" /\ UNCHANGED iTxSize
                           ELSE iTxSize' = iTxSize + Stored(1) /\ UNCHANGED pc
          /\ out' = <<>> /\ UNCHANGED <<iTxStarted, iTxMessageType>>
  /\ UNCHANGED <<wire, arrived, open, upgraded, left, value, iRxOpCode, iRxMasked, history>>

Parse == flushRx \/ ReadHeader \/ ReadSize \/ Dispatch \/ Echo \/ FlushAndStop

Program ==
  \/ begin \/ stop \/ beginMessage \/ write \/ endMessage \/ ping
  \/ read \/ readString \/ parseMessage

Next == ServerSends \/ Arrives \/ ConnectionEnds \/ Program \/ Parse

Spec == Init /\ [][Next]_vars

\* A call that does not wait for a byte runs on; nothing is said of the server.
FairSpec == Spec /\ WF_vars(Parse)

-----------------------------------------------------------------------------
(* Properties                                                              *)

\* However the bytes arrive and however much of them the program reads: between two
\* calls the client stands in the frame that parseMessage() has found last, and
\* available() tells what is left of it.
InStep ==
  ~lost /\ upgraded /\ pc = "idle" => parsed <= Len(wire) /\ pos + iRxSize = End(parsed)

\* A control frame between the fragments of a message overwrites its opcode.
Between ==
  \E k, l \in 1..parsed : k < l /\ ~wire[k].frame.fin /\ wire[l].frame.op \in Control

\* A fragment has the type of the message that it belongs to, and is final if it is the
\* last one, unless a control frame has come between them.
TypeRight ==
  ~lost /\ upgraded /\ pc = "idle" /\ parsed > 0 /\ Current.op \notin Control /\ ~Between =>
    messageType = TEXT /\ isFinal = Current.fin

\* A PING is answered with the whole of its payload before parseMessage() comes back,
\* however late its bytes arrive and also when the program has a message open.  (The
\* answer may be longer, by bytes of that message and by 255 for each read that found
\* nothing.)
PingAnswered ==
  [][pc = "ping" /\ pc' = "idle" /\ ~lost /\ open =>
       Len(out') = 1 /\ out'[1].size >= Current.size]_vars

\* The rest of a frame that is to be thrown away has not come.
Waits == pc \in {"flush", "pong", "close"} /\ iRxSize > 0 /\ ~SomethingThere

\* Whatever the server sends, or stops sending in the middle, parseMessage() comes back,
\* or runs over the end of iTxBuffer with a PING; the one place where it can wait for
\* ever, as nothing limits the time there, is the rest of a frame that it throws away.
ParseReturns == pc \notin {"idle", "halted"} ~> pc \in {"idle", "halted"} \/ Waits
=============================================================================
