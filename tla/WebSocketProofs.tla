-------------------------- MODULE WebSocketProofs --------------------------
(***************************************************************************)
(* Proofs about WebSocket: where the client stands in the frames of the     *)
(* server, as long as it has read no byte that had not come.               *)
(***************************************************************************)
EXTENDS WebSocket, SequenceTheorems, TLAPS

-----------------------------------------------------------------------------
(* Frames and their bytes                                                  *)

FrameSet == [fin : BOOLEAN, op : {CONTINUATION, TEXT} \cup Control,
             masked : BOOLEAN, size : 0..(Huge - 1)]
Placed   == [frame : Frames, start : Nat]

LEMMA FrameIs ==
  ASSUME NEW f \in Frames
  PROVE  /\ f \in FrameSet /\ f.fin \in BOOLEAN /\ f.masked \in BOOLEAN
         /\ f.op \in {0, 1, 8, 9, 10}
         /\ f.size \in Nat /\ f.size < Huge /\ f.size \div 65536 < 256 /\ Huge \in Nat
<1>1. f \in FrameSet
  BY WebSocketAssumption DEF FrameSet
<1>2. Huge \in Nat /\ Huge \div 65536 < 256
  BY WebSocketAssumption
<1>3. f.op \in {CONTINUATION, TEXT} \cup Control
  BY <1>1 DEF FrameSet
<1>4. f.fin \in BOOLEAN /\ f.masked \in BOOLEAN /\ f.size \in 0..(Huge - 1)
  BY <1>1 DEF FrameSet
<1>5. f.op \in {0, 1, 8, 9, 10}
  BY <1>3 DEF CONTINUATION, TEXT, Control, CLOSE, PING, PONG
<1>6. f.size \in Nat /\ f.size < Huge /\ f.size \div 65536 < 256
  BY <1>2, <1>4
<1> QED  BY <1>1, <1>2, <1>4, <1>5, <1>6

MaskBytes(f) == IF f.masked THEN 4 ELSE 0

LEMMA SizeIs ==
  ASSUME NEW f \in Frames
  PROVE  /\ Code(f) \in 0..127 /\ SizeBytes(Code(f)) \in {0, 2, 8} /\ MaskBytes(f) \in {0, 4}
         /\ Code(f) < 126 => Code(f) = f.size /\ SizeBytes(Code(f)) = 0
         /\ ~(Code(f) < 126) => SizeBytes(Code(f)) \in {2, 8}
         /\ SizeBytes(Code(f)) = 2 => f.size < 65536
         /\ Size(f) = ((2 + SizeBytes(Code(f))) + MaskBytes(f)) + f.size
         /\ Size(f) \in Nat /\ Size(f) >= 2
<1>1. f.size \in Nat
  BY FrameIs
<1>2. /\ Code(f) \in 0..127
      /\ Code(f) < 126 => Code(f) = f.size
      /\ Code(f) = 126 => f.size < 65536
  BY <1>1 DEF Code
<1>3. /\ SizeBytes(Code(f)) \in {0, 2, 8}
      /\ Code(f) < 126 => SizeBytes(Code(f)) = 0
      /\ ~(Code(f) < 126) => SizeBytes(Code(f)) \in {2, 8}
      /\ SizeBytes(Code(f)) = 2 => Code(f) = 126
  BY <1>2 DEF SizeBytes
<1>4. MaskBytes(f) \in {0, 4}
  BY DEF MaskBytes
<1>5. Size(f) = ((2 + SizeBytes(Code(f))) + MaskBytes(f)) + f.size
  BY DEF Size, HeaderSize, MaskBytes
<1> QED  BY <1>1, <1>2, <1>3, <1>4, <1>5

\* What is known of a size when so many of its bytes are still to be read.
Prefix(n, todo) ==
  IF todo = 0 THEN n ELSE IF todo = 1 THEN n \div 256 ELSE IF todo = 2 THEN n \div 65536 ELSE 0

LEMMA Two ==
  ASSUME NEW t \in Int, NEW v \in Int, 0 <= v, v < 65536
  PROVE  (t * 65536 + v) \div 65536 = t
  BY SMT

LEMMA Part ==
  ASSUME NEW n \in Nat
  PROVE  /\ n = (n \div 256) * 256 + (n % 256)
         /\ n \div 256 \in Nat /\ n % 256 \in Int /\ 0 <= n % 256 /\ n % 256 < 256
  BY SMT

LEMMA Regroup ==
  ASSUME NEW t \in Int, NEW u \in Int, NEW r \in Int, 0 <= u, u < 256, 0 <= r, r < 256
  PROVE  /\ (t * 256 + u) * 256 + r = t * 65536 + (u * 256 + r)
         /\ u * 256 + r \in Int /\ 0 <= u * 256 + r /\ u * 256 + r < 65536
  BY SMT

LEMMA Nested ==
  ASSUME NEW n \in Nat
  PROVE  n \div 256 = (n \div 65536) * 256 + ((n \div 256) % 256) /\ n \div 65536 \in Nat
<1>1. PICK m \in Nat : m = n \div 256
  BY Part
<1>2. PICK t, u, r : t = m \div 256 /\ u = m % 256 /\ r = n % 256
  OBVIOUS
<1>3. /\ t \in Nat /\ u \in Int /\ r \in Int /\ 0 <= u /\ u < 256 /\ 0 <= r /\ r < 256
      /\ m = t * 256 + u /\ n = m * 256 + r
  BY <1>1, <1>2, Part
<1>4. n = t * 65536 + (u * 256 + r)
  BY <1>3, Regroup
<1>5. n \div 65536 = t
  <2>1. (t * 65536 + (u * 256 + r)) \div 65536 = t
    BY <1>3, Regroup, Two
  <2> QED BY <1>4, <2>1
<1> QED BY <1>1, <1>2, <1>3, <1>5

LEMMA Digits ==
  ASSUME NEW n \in Nat, n \div 65536 < 256
  PROVE  /\ n = (n \div 256) * 256 + (n % 256)
         /\ n \div 256 = (n \div 65536) * 256 + ((n \div 256) % 256)
         /\ n \div 65536 = (n \div 65536) % 256
         /\ n \div 256 \in Nat /\ n \div 65536 \in Nat
         /\ n \div 256 <= n /\ n \div 65536 <= n
         /\ n < 65536 => n \div 65536 = 0
<1>1. PICK m : m = n \div 65536
  OBVIOUS
<1>2. m \in Nat /\ m < 256
  BY <1>1, Nested
<1>3. m = m % 256
  BY <1>2, SMT
<1>4. n \div 256 <= n /\ n \div 65536 <= n
  BY SMT
<1>5. n < 65536 => n \div 65536 = 0
  BY SMT
<1> QED  BY <1>1, <1>3, <1>4, <1>5, Part, Nested

LEMMA SizeDigits ==
  ASSUME NEW n \in Nat, n \div 65536 < 256, NEW todo \in 1..8
  PROVE  /\ Prefix(n, todo) * 256 + SizeByte(n, todo) = Prefix(n, todo - 1)
         /\ Prefix(n, todo - 1) <= n /\ Prefix(n, todo - 1) \in Nat
<1>1. CASE todo = 1
  BY <1>1, Digits DEF Prefix, SizeByte
<1>2. CASE todo = 2
  BY <1>2, Digits DEF Prefix, SizeByte
<1>3. CASE todo = 3
  BY <1>3, Digits DEF Prefix, SizeByte
<1>4. CASE todo > 3
  BY <1>4 DEF Prefix, SizeByte
<1> QED  BY <1>1, <1>2, <1>3, <1>4

LEMMA Smaller ==
  ASSUME NEW a \in Int, NEW b \in Int
  PROVE  Min({a, b}) = IF a <= b THEN a ELSE b
<1>1. PICK c : c = IF a <= b THEN a ELSE b
  OBVIOUS
<1>2. c \in {a, b} /\ \A y \in {a, b} : c <= y
  BY <1>1
<1>3. \A x \in {a, b} : (\A y \in {a, b} : x <= y) => x = c
  BY <1>2, <1>1
<1> QED  BY <1>1, <1>2, <1>3 DEF Min

-----------------------------------------------------------------------------
(* The stream                                                              *)

\* The frames lie one behind the other, and a continuation comes behind a fragment with
\* only control frames between them.
InOrder ==
  /\ \A k \in 1..Len(wire) : wire[k].start = End(k - 1)
  /\ \A j, k \in 0..Len(wire) : j <= k => End(j) <= End(k)

Fragment(j) == wire[j].frame.op \notin Control /\ ~wire[j].frame.fin

Continues ==
  \A k \in 1..Len(wire) : wire[k].frame.op = CONTINUATION =>
    \E j \in 1..(k - 1) :
      Fragment(j) /\ \A l \in (j + 1)..(k - 1) : wire[l].frame.op \in Control

WireInv == wire \in Seq(Placed) /\ InOrder /\ Continues

\* The i-th byte of a frame.
ByteOf(f, i) ==
  IF i = 1 THEN OpCode(f)
  ELSE IF i = 2 THEN Code(f) + (IF f.masked THEN 128 ELSE 0)
  ELSE IF i <= 2 + SizeBytes(Code(f)) THEN SizeByte(f.size, SizeBytes(Code(f)) + 3 - i)
  ELSE Zero

LEMMA PlacedIs ==
  ASSUME WireInv, NEW k \in 1..Len(wire)
  PROVE  /\ wire[k].frame \in Frames /\ wire[k].start \in Nat
         /\ End(k) = wire[k].start + Size(wire[k].frame) /\ End(k) \in Nat
         /\ wire[k].start = End(k - 1) /\ k \in Nat /\ k # 0 /\ Len(wire) \in Nat
<1>1. wire[k] \in Placed /\ Len(wire) \in Nat
  BY ElementOfSeq, LenProperties DEF WireInv
<1>2. wire[k].frame \in Frames /\ wire[k].start \in Nat /\ k # 0
  BY <1>1 DEF Placed
<1>3. Size(wire[k].frame) \in Nat
  BY <1>2, SizeIs
<1> QED  BY <1>1, <1>2, <1>3 DEF End, WireInv, InOrder

LEMMA EndNat ==
  ASSUME WireInv
  PROVE  /\ Len(wire) \in Nat /\ Total \in Nat
         /\ \A k \in 0..Len(wire) : End(k) \in Nat /\ End(k) <= Total
<1>1. Len(wire) \in Nat
  BY LenProperties DEF WireInv
<1>2. \A k \in 0..Len(wire) : End(k) \in Nat
  <2> TAKE k \in 0..Len(wire)
  <2>1. CASE k = 0
    BY <2>1 DEF End
  <2>2. CASE k # 0
    BY <1>1, <2>2, PlacedIs
  <2> QED  BY <2>1, <2>2
<1>3. Len(wire) \in 0..Len(wire)
  BY <1>1
<1> QED  BY <1>1, <1>2, <1>3 DEF WireInv, InOrder, Total

\* A byte of the stream is of one frame only.
LEMMA ByteAtFrame ==
  ASSUME WireInv, NEW k \in 1..Len(wire), NEW i \in 1..Size(wire[k].frame)
  PROVE  ByteAt(wire[k].start + i) = ByteOf(wire[k].frame, i)
<1>1. PICK q : q = wire[k].start + i
  OBVIOUS
<1>2. /\ wire[k].frame \in Frames /\ wire[k].start \in Nat /\ Size(wire[k].frame) \in Nat
      /\ wire[k].start = End(k - 1) /\ k \in Nat /\ Len(wire) \in Nat
      /\ End(k) = wire[k].start + Size(wire[k].frame)
  BY PlacedIs, SizeIs
<1>3. /\ q \in Nat /\ wire[k].start < q /\ q <= End(k) /\ q - wire[k].start = i
  BY <1>1, <1>2
<1>4. \A j \in 1..Len(wire) : wire[j].start < q /\ q <= End(j) => j = k
  <2> TAKE j \in 1..Len(wire)
  <2> SUFFICES ASSUME wire[j].start < q, q <= End(j), j # k PROVE FALSE
    OBVIOUS
  <2>1. wire[j].start = End(j - 1) /\ End(j) \in Nat /\ wire[j].start \in Nat
    BY PlacedIs
  <2>2. CASE j < k
    <3>1. j \in 0..Len(wire) /\ k - 1 \in 0..Len(wire) /\ j <= k - 1
      BY <1>2, <2>2
    <3>2. End(j) <= End(k - 1)
      BY <3>1 DEF WireInv, InOrder
    <3> QED  BY <1>2, <1>3, <2>1, <3>2
  <2>3. CASE k < j
    <3>1. k \in 0..Len(wire) /\ j - 1 \in 0..Len(wire) /\ k <= j - 1
      BY <1>2, <2>3
    <3>2. End(k) <= End(j - 1)
      BY <3>1 DEF WireInv, InOrder
    <3> QED  BY <1>2, <1>3, <2>1, <3>2
  <2> QED  BY <1>2, <2>2, <2>3
<1>5. DOMAIN wire = 1..Len(wire)
  BY LenProperties DEF WireInv
<1>6. k = CHOOSE j \in DOMAIN wire : wire[j].start < q /\ q <= End(j)
  BY <1>3, <1>4, <1>5
<1>7. ByteAt(q) = ByteOf(wire[k].frame, q - wire[k].start)
  BY <1>6 DEF ByteAt, ByteOf
<1> QED  BY <1>1, <1>3, <1>7

-----------------------------------------------------------------------------
(* The inductive invariant                                                 *)

InFrame == {"size", "mask", "ping", "pong", "close"}

\* Where the client stands, by the read that is next.
PosInv ==
  /\ arrived \in Nat /\ pos \in Nat /\ pos <= arrived /\ arrived <= Total
  /\ parsed \in 0..Len(wire) /\ (pc \in InFrame => parsed # 0)
  /\ pc \in {"idle", "flush", "header", "ping", "pong", "close"} =>
       iRxSize \in 0..(Huge - 1) /\ pos + iRxSize = End(parsed)
  /\ pc = "header" => iRxSize = 0

\* In the length field so many bytes are read, and their value is known, ...
SizeInv ==
  pc = "size" =>
    LET f == Current IN
    /\ left \in 1..SizeBytes(Code(f))
    /\ pos = wire[parsed].start + ((2 + SizeBytes(Code(f))) - left)
    /\ value = Prefix(f.size, left) /\ iRxMasked = f.masked

\* ... and behind it the size is.
MaskInv ==
  pc = "mask" =>
    /\ iRxSize = Current.size /\ iRxMasked = Current.masked
    /\ (pos + MaskBytes(Current)) + iRxSize = End(parsed)

\* What a frame makes of the opcode, unless a control frame has come between fragments.
OpInv ==
  parsed # 0 /\ Current.op \notin Control /\ ~Between =>
    iRxOpCode = TEXT + (IF Current.fin THEN 128 ELSE 0)

\* What was read of a PING is in the buffer.
EchoInv == pc = "ping" => iTxSize + iRxSize >= Current.size

InStepInv == WireInv /\ PosInv /\ SizeInv /\ MaskInv /\ OpInv /\ EchoInv

TxInv ==
  /\ iTxSize \in Nat
  /\ pc \notin {"idle", "halted"} => upgraded

SocketInv == TxInv /\ (~lost /\ upgraded => InStepInv)

\* What is stored is never less than nothing, ...
LEMMA StoredNat ==
  ASSUME iTxSize \in Nat, NEW n \in Nat, ~Overrun(n)
  PROVE  iTxSize + Stored(n) \in Nat
  BY WebSocketAssumption DEF Overrun, Stored

\* ... and a byte that fits is.
LEMMA StoredByte ==
  ASSUME iTxSize \in Nat, ~Overrun(1)
  PROVE  Stored(1) = 1
<1>1. BufferSize \in Nat /\ WordSize \in Nat /\ WordSize < BufferSize
  BY WebSocketAssumption
<1> QED  BY <1>1 DEF Overrun, Stored

LEMMA InitInv == Init => SocketInv
  BY DEF Init, SocketInv, TxInv

\* Primed and unprimed the frames are the same in all steps but two.
LEMMA SameWire ==
  ASSUME wire' = wire
  PROVE  /\ WireInv => WireInv'
         /\ Total' = Total /\ \A k \in Int : End(k)' = End(k)
         /\ parsed' = parsed => Current' = Current /\ End(parsed)' = End(parsed)
                                /\ (Between' <=> Between)
<1>1. Total' = Total /\ \A k \in Int : End(k)' = End(k)
  BY DEF Total, End
<1>2. WireInv => WireInv'
  BY DEF WireInv, InOrder, Continues, Fragment, End
<1>3. parsed' = parsed => Current' = Current /\ End(parsed)' = End(parsed)
        /\ (Between' <=> Between)
  BY DEF Current, End, Between
<1> QED  BY <1>1, <1>2, <1>3

\* A step that does not touch what the client knows of the stream.
LEMMA OutsideInv ==
  ASSUME SocketInv, TxInv',
         UNCHANGED <<wire, arrived, pos, upgraded, rx, history>>,
         pc' = pc \/ (pc = "idle" /\ pc' \in {"flush", "halted"}),
         pc = "ping" => UNCHANGED tx
  PROVE  SocketInv'
<1> USE DEF rx, tx, history
<1>1. SUFFICES ASSUME ~lost', upgraded' PROVE InStepInv'
  BY DEF SocketInv
<1>2. InStepInv /\ ~lost /\ upgraded
  BY <1>1 DEF SocketInv
<1>3. /\ WireInv' /\ Total' = Total /\ Current' = Current /\ End(parsed)' = End(parsed)
      /\ (Between' <=> Between)
  BY <1>2, SameWire DEF InStepInv
<1>4. PosInv'
  BY <1>2, <1>3 DEF InStepInv, PosInv, InFrame
<1>5. SizeInv' /\ MaskInv'
  BY <1>2, <1>3 DEF InStepInv, SizeInv, MaskInv
<1>6. OpInv' /\ EchoInv'
  BY <1>2, <1>3 DEF InStepInv, OpInv, EchoInv
<1> QED  BY <1>3, <1>4, <1>5, <1>6 DEF InStepInv

LEMMA TxSteps ==
  ASSUME SocketInv,
         \/ UNCHANGED vars \/ ConnectionEnds \/ beginMessage \/ endMessage \/ write \/ ping
         \/ parseMessage
  PROVE  SocketInv'
<1> USE DEF stream, rx, tx, history
<1>1. CASE UNCHANGED vars
  BY <1>1, OutsideInv DEF vars, SocketInv, TxInv
<1>2. CASE ConnectionEnds
  BY <1>2, OutsideInv DEF ConnectionEnds, SocketInv, TxInv
<1>3. CASE beginMessage
  BY <1>3, OutsideInv DEF beginMessage, Opens, SocketInv, TxInv
<1>4. CASE endMessage
  BY <1>4, OutsideInv DEF endMessage, Sends, SocketInv, TxInv
<1>5. CASE write
  <2>1. TxInv'
    <3>1. PICK n \in Writes : IF Overrun(n) THEN pc' = "halted" /\ UNCHANGED iTxSize
                              ELSE iTxSize' = iTxSize + Stored(n) /\ UNCHANGED pc
      BY <1>5 DEF write
    <3>2. n \in Nat /\ iTxSize \in Nat
      BY WebSocketAssumption DEF SocketInv, TxInv
    <3>3. iTxSize' \in Nat
      BY <3>1, <3>2, StoredNat
    <3> QED  BY <1>5, <3>3 DEF write, SocketInv, TxInv
  <2> QED  BY <1>5, <2>1, OutsideInv DEF write
<1>6. CASE ping
  BY <1>6, OutsideInv DEF ping, SocketInv, TxInv
<1>7. CASE parseMessage
  BY <1>7, OutsideInv DEF parseMessage, First, SocketInv, TxInv
<1> QED  BY <1>1, <1>2, <1>3, <1>4, <1>5, <1>6, <1>7

-----------------------------------------------------------------------------
(* A new stream                                                            *)

LEMMA NewWire ==
  ASSUME NewStream
  PROVE  WireInv' /\ Total' = 0 /\ Len(wire') = 0 /\ End(0)' = 0
<1>1. wire' = <<>> /\ Len(wire') = 0
  BY EmptySeq, LenProperties DEF NewStream
<1>2. End(0)' = 0
  BY DEF End
<1>3. InOrder'
  <2>1. \A j, k \in 0..0 : End(j)' = 0 /\ End(k)' = 0
    BY <1>2
  <2> QED  BY <1>1, <2>1 DEF InOrder
<1>4. Continues'
  BY <1>1 DEF Continues
<1>5. wire' \in Seq(Placed)
  BY <1>1, EmptySeq
<1> QED  BY <1>1, <1>2, <1>3, <1>4, <1>5 DEF Total, WireInv

LEMMA beginInv ==
  ASSUME SocketInv, begin
  PROVE  SocketInv'
<1> USE DEF tx
<1>1. TxInv'
  BY DEF begin, SocketInv, TxInv
<1> SUFFICES ASSUME upgraded' PROVE InStepInv'
  BY <1>1 DEF SocketInv
<1>2. NewStream /\ pc' = "idle" /\ iRxSize' = 0
  BY DEF begin
<1>3. /\ WireInv' /\ Total' = 0 /\ Len(wire') = 0 /\ End(0)' = 0
      /\ arrived' = 0 /\ pos' = 0 /\ parsed' = 0
  BY <1>2, NewWire DEF NewStream
<1>4. 0 \in 0..(Huge - 1)
  BY WebSocketAssumption
<1>5. PosInv'
  <2>1. End(parsed)' = 0
    BY <1>2, <1>3
  <2> QED  BY <1>2, <1>3, <1>4, <2>1 DEF PosInv, InFrame
<1>6. SizeInv' /\ MaskInv' /\ OpInv' /\ EchoInv'
  BY <1>2, <1>3 DEF SizeInv, MaskInv, OpInv, EchoInv
<1> QED  BY <1>1, <1>3, <1>5, <1>6 DEF SocketInv, InStepInv

LEMMA stopInv ==
  ASSUME SocketInv, stop
  PROVE  SocketInv'
  BY DEF stop, tx, SocketInv, TxInv

\* ServerSends appends one frame.
LEMMA ServerSendsInv ==
  ASSUME SocketInv, ServerSends
  PROVE  SocketInv'
<1> USE DEF rx, tx, history
<1>1. TxInv'
  BY DEF ServerSends, SocketInv, TxInv
<1>2. SUFFICES ASSUME ~lost, upgraded PROVE InStepInv'
  BY <1>1 DEF SocketInv, ServerSends
<1>3. InStepInv
  BY <1>2 DEF SocketInv
<1>4. PICK f \in Frames : Legal(f) /\ wire' = Append(wire, [frame |-> f, start |-> Total])
  BY DEF ServerSends
<1>5. PICK n : n = Len(wire)
  OBVIOUS
<1>6. /\ WireInv /\ n \in Nat /\ Total \in Nat /\ Total = End(n)
      /\ \A k \in 0..n : End(k) \in Nat /\ End(k) <= Total
  BY <1>3, <1>5, EndNat DEF InStepInv, Total
<1>7. /\ wire' \in Seq(Placed) /\ Len(wire') = n + 1
      /\ \A k \in 1..n : wire'[k] = wire[k]
      /\ wire'[n + 1].frame = f /\ wire'[n + 1].start = Total
  <2>1. [frame |-> f, start |-> Total] \in Placed /\ wire \in Seq(Placed)
    BY <1>6 DEF Placed, WireInv
  <2>2. PICK r : r = [frame |-> f, start |-> Total]
    OBVIOUS
  <2>3. wire' = Append(wire, r) /\ r \in Placed /\ r.frame = f /\ r.start = Total
    BY <1>4, <2>1, <2>2
  <2> QED  BY <1>5, <2>1, <2>3, AppendProperties
<1>8. \A k \in 0..n : End(k)' = End(k)
  BY <1>6, <1>7 DEF End
<1>9. End(n + 1)' = Total + Size(f) /\ Size(f) \in Nat
  <2>1. n + 1 # 0
    BY <1>6
  <2> QED  BY <1>7, <2>1, SizeIs DEF End
<1>10. InOrder'
  <2>1. \A k \in 1..(n + 1) : wire'[k].start = End(k - 1)'
    <3> TAKE k \in 1..(n + 1)
    <3>1. CASE k \in 1..n
      <4>1. k - 1 \in 0..n /\ wire[k].start = End(k - 1)
        BY <1>5, <1>6, <3>1 DEF WireInv, InOrder
      <4> QED  BY <1>7, <1>8, <3>1, <4>1
    <3>2. CASE k = n + 1
      <4>1. k - 1 = n /\ n \in 0..n
        BY <1>6, <3>2
      <4> QED  BY <1>6, <1>7, <1>8, <3>2, <4>1
    <3> QED  BY <1>6, <3>1, <3>2
  <2>2. \A j, k \in 0..(n + 1) : j <= k => End(j)' <= End(k)'
    <3> SUFFICES ASSUME NEW j \in 0..(n + 1), NEW k \in 0..(n + 1), j <= k
                 PROVE  End(j)' <= End(k)'
      OBVIOUS
    <3>1. CASE k \in 0..n
      <4>1. j \in 0..n /\ End(j) <= End(k)
        BY <1>5, <1>6, <3>1 DEF WireInv, InOrder
      <4> QED  BY <1>8, <3>1, <4>1
    <3>2. CASE k = n + 1 /\ j \in 0..n
      <4>1. End(j)' = End(j) /\ End(j) \in Nat /\ End(j) <= Total
        BY <1>6, <1>8, <3>2
      <4>2. End(k)' = Total + Size(f)
        BY <1>9, <3>2
      <4> QED  BY <1>6, <1>9, <4>1, <4>2
    <3>3. CASE k = n + 1 /\ j = n + 1
      <4>1. End(k)' = Total + Size(f) /\ End(j)' = Total + Size(f)
        BY <1>9, <3>3
      <4> QED  BY <1>6, <1>9, <4>1
    <3> QED  BY <1>6, <3>1, <3>2, <3>3
  <2> QED  BY <1>7, <2>1, <2>2 DEF InOrder
<1>11. Continues'
  <2> SUFFICES ASSUME NEW k \in 1..(n + 1), wire'[k].frame.op = CONTINUATION
               PROVE  \E j \in 1..(k - 1) :
                        Fragment(j)' /\ \A l \in (j + 1)..(k - 1) : wire'[l].frame.op \in Control
    BY <1>7 DEF Continues
  <2>1. CASE k \in 1..n
    <3>1. PICK j \in 1..(k - 1) :
            Fragment(j) /\ \A l \in (j + 1)..(k - 1) : wire[l].frame.op \in Control
      BY <1>5, <1>6, <1>7, <2>1 DEF WireInv, Continues
    <3>2. j \in 1..n /\ \A l \in (j + 1)..(k - 1) : l \in 1..n
      BY <1>6, <2>1
    <3> QED  BY <1>7, <3>1, <3>2 DEF Fragment
  <2>2. CASE k = n + 1
    <3>1. f.op = CONTINUATION /\ f.op \notin Control
      BY <1>7, <2>2 DEF CONTINUATION, Control, CLOSE, PING, PONG
    <3>2. Fragmented
      BY <1>4, <3>1 DEF Legal
    <3>3. DOMAIN wire = 1..n
      BY <1>5, <1>6, LenProperties DEF WireInv
    <3>4. PICK j \in 1..n :
            Fragment(j) /\ \A l \in (j + 1)..n : wire[l].frame.op \in Control
      BY <1>5, <3>2, <3>3 DEF Fragmented, Fragment
    <3>5. k - 1 = n /\ \A l \in (j + 1)..n : l \in 1..n
      BY <1>6, <2>2
    <3> QED  BY <1>7, <3>4, <3>5 DEF Fragment
  <2> QED  BY <1>6, <2>1, <2>2
<1>12. WireInv'
  BY <1>7, <1>10, <1>11 DEF WireInv
<1>13. /\ parsed \in 0..n /\ parsed' = parsed /\ parsed \in 0..(n + 1)
       /\ End(parsed)' = End(parsed)
       /\ parsed # 0 => wire'[parsed] = wire[parsed]
  <2>1. parsed \in 0..n /\ parsed' = parsed
    BY <1>3, <1>5 DEF InStepInv, PosInv, ServerSends
  <2> QED  BY <1>6, <1>7, <1>8, <2>1
<1>14. parsed # 0 => Current' = Current
  BY <1>13 DEF Current
<1>15. Between' <=> Between
  <2>1. \A k \in 1..parsed : wire'[k] = wire[k]
    BY <1>6, <1>7, <1>13
  <2> QED  BY <1>13, <2>1 DEF Between
<1>16. PosInv'
  <2>1. Total' = Total + Size(f)
    BY <1>7, <1>9 DEF Total
  <2>2. arrived <= Total + Size(f) /\ arrived \in Nat
    BY <1>3, <1>6, <1>9 DEF InStepInv, PosInv
  <2> QED  BY <1>3, <1>7, <1>13, <2>1, <2>2 DEF ServerSends, InStepInv, PosInv
<1>17. SizeInv' /\ MaskInv'
  <2>1. pc \in InFrame => parsed # 0
    BY <1>3 DEF InStepInv, PosInv
  <2> QED  BY <1>3, <1>13, <1>14, <2>1 DEF ServerSends, InStepInv, SizeInv, MaskInv, InFrame
<1>18. OpInv' /\ EchoInv'
  <2>1. pc \in InFrame => parsed # 0
    BY <1>3 DEF InStepInv, PosInv
  <2> QED  BY <1>3, <1>13, <1>14, <1>15, <2>1 DEF ServerSends, InStepInv, OpInv, EchoInv, InFrame
<1> QED  BY <1>12, <1>16, <1>17, <1>18 DEF InStepInv

\* Arrives: no more comes than the server has sent.
LEMMA ArrivesInv ==
  ASSUME SocketInv, Arrives
  PROVE  SocketInv'
<1> USE DEF rx, tx, history
<1>1. TxInv'
  BY DEF Arrives, SocketInv, TxInv
<1>2. SUFFICES ASSUME ~lost, upgraded PROVE InStepInv'
  BY <1>1 DEF SocketInv, Arrives
<1>3. InStepInv
  BY <1>2 DEF SocketInv
<1>4. /\ WireInv' /\ Total' = Total /\ Current' = Current /\ End(parsed)' = End(parsed)
      /\ (Between' <=> Between)
  BY <1>3, SameWire DEF InStepInv, Arrives
<1>5. Total \in Nat /\ Len(wire) \in Nat
  BY <1>3, EndNat DEF InStepInv
<1>6. Len(wire) # 0
  BY <1>3 DEF Arrives, Total, End, InStepInv, PosInv
<1>7. wire[Len(wire)].start \in Nat /\ Cuts \subseteq Nat
  <2>1. Len(wire) \in 1..Len(wire)
    BY <1>5, <1>6
  <2> QED  BY <1>3, <2>1, PlacedIs, WebSocketAssumption DEF InStepInv
<1>8. arrived' \in Nat /\ arrived <= arrived' /\ arrived' <= Total
  BY <1>3, <1>5, <1>7 DEF Arrives, InStepInv, PosInv
<1>9. PosInv'
  BY <1>3, <1>4, <1>8 DEF Arrives, InStepInv, PosInv
<1>10. SizeInv' /\ MaskInv'
  BY <1>3, <1>4 DEF Arrives, InStepInv, SizeInv, MaskInv
<1>11. OpInv' /\ EchoInv'
  BY <1>3, <1>4 DEF Arrives, InStepInv, OpInv, EchoInv
<1> QED  BY <1>4, <1>9, <1>10, <1>11 DEF InStepInv

-----------------------------------------------------------------------------
(* Reading a payload                                                       *)

Standing == {"idle", "flush", "ping", "pong", "close"}

LEMMA SizeKnown ==
  ASSUME InStepInv, pc \in Standing \cup {"header"}
  PROVE  /\ iRxSize \in Nat /\ iRxSize < Huge /\ iRxSize # Huge /\ Huge \in Nat
         /\ pos + iRxSize = End(parsed)
         /\ arrived \in Nat /\ pos \in Nat /\ pos <= arrived
<1>1. Huge \in Nat
  BY WebSocketAssumption
<1>2. iRxSize \in 0..(Huge - 1) /\ pos + iRxSize = End(parsed)
  BY DEF InStepInv, PosInv, Standing
<1> QED  BY <1>1, <1>2 DEF InStepInv, PosInv

\* So much of a payload is taken from it.
LEMMA TakenInv ==
  ASSUME InStepInv, pc \in Standing, EchoInv',
         NEW n \in Nat, n <= iRxSize, n <= arrived - pos, Taken(n),
         UNCHANGED <<wire, arrived, iRxOpCode, parsed>>,
         pc' = pc \/ pc' = "halted"
  PROVE  InStepInv'
<1>1. /\ WireInv' /\ Total' = Total /\ Current' = Current /\ End(parsed)' = End(parsed)
      /\ (Between' <=> Between)
  BY SameWire DEF InStepInv
<1>2. /\ iRxSize \in Nat /\ iRxSize < Huge /\ iRxSize # Huge /\ Huge \in Nat
      /\ pos + iRxSize = End(parsed)
      /\ arrived \in Nat /\ pos \in Nat /\ pos <= arrived
  BY SizeKnown
<1>3. pos' = pos + n /\ iRxSize' = iRxSize - n
  BY <1>2 DEF Taken, Less
<1>4. /\ pos' \in Nat /\ pos' <= arrived /\ iRxSize' \in 0..(Huge - 1)
      /\ pos' + iRxSize' = pos + iRxSize
  BY <1>2, <1>3
<1>5. PosInv'
  BY <1>1, <1>2, <1>4 DEF InStepInv, PosInv, InFrame, Standing
<1>6. SizeInv' /\ MaskInv'
  BY DEF SizeInv, MaskInv, Standing
<1>7. OpInv'
  BY <1>1 DEF InStepInv, OpInv
<1> QED  BY <1>1, <1>5, <1>6, <1>7 DEF InStepInv

\* A call ends, or the next read begins, where one payload ends.
LEMMA NextReadInv ==
  ASSUME InStepInv, pc \in Standing \cup {"header"}, iRxSize = 0 \/ pc = "header",
         pc' \in {"idle", "header"},
         UNCHANGED <<wire, arrived, pos, iRxSize, iRxOpCode, parsed>>
  PROVE  InStepInv'
<1>1. /\ WireInv' /\ Total' = Total /\ Current' = Current /\ End(parsed)' = End(parsed)
      /\ (Between' <=> Between)
  BY SameWire DEF InStepInv
<1>2. PosInv'
  BY <1>1 DEF InStepInv, PosInv, InFrame, Standing
<1>3. SizeInv' /\ MaskInv' /\ EchoInv'
  BY DEF SizeInv, MaskInv, EchoInv
<1>4. OpInv'
  BY <1>1 DEF InStepInv, OpInv
<1> QED  BY <1>1, <1>2, <1>3, <1>4 DEF InStepInv

LEMMA SmallerIs ==
  ASSUME NEW a \in Nat, NEW b \in Nat
  PROVE  Min({a, b}) \in Nat /\ Min({a, b}) <= a /\ Min({a, b}) <= b
  BY Smaller

LEMMA readInv ==
  ASSUME SocketInv, read
  PROVE  SocketInv'
<1> USE DEF tx
<1>1. TxInv'
  BY DEF read, SocketInv, TxInv
<1>2. SUFFICES ASSUME ~lost', upgraded' PROVE InStepInv'
  BY <1>1 DEF SocketInv
<1>3. PICK n \in Reads : /\ Taken(Min({n, arrived - pos}))
                         /\ lost' = (lost \/ Min({n, arrived - pos}) > iRxSize)
  BY DEF read
<1>4. InStepInv /\ pc \in Standing
  BY <1>2, <1>3 DEF SocketInv, read, Standing
<1>5. iRxSize \in Nat /\ arrived - pos \in Nat /\ n \in Nat
  BY <1>4, SizeKnown, WebSocketAssumption
<1>6. PICK m : m = Min({n, arrived - pos})
  OBVIOUS
<1>7. m \in Nat /\ m <= arrived - pos
  BY <1>5, <1>6, SmallerIs
<1>8. m <= iRxSize /\ Taken(m)
  <2>1. ~(m > iRxSize) /\ Taken(m)
    BY <1>2, <1>3, <1>6
  <2> QED  BY <1>5, <1>7, <2>1
<1>9. EchoInv'
  BY DEF read, EchoInv
<1> QED  BY <1>4, <1>7, <1>8, <1>9, TakenInv DEF read

LEMMA readStringInv ==
  ASSUME SocketInv, readString
  PROVE  SocketInv'
<1> USE DEF tx, history
<1>1. TxInv'
  BY DEF readString, SocketInv, TxInv
<1>2. SUFFICES ASSUME ~lost, upgraded PROVE InStepInv'
  BY <1>1 DEF SocketInv, readString
<1>4. InStepInv /\ pc \in Standing
  BY <1>2 DEF SocketInv, readString, Standing
<1>5. iRxSize \in Nat /\ arrived - pos \in Nat
  BY <1>4, SizeKnown
<1>6. PICK m : m = Min({iRxSize, arrived - pos})
  OBVIOUS
<1>7. m \in Nat /\ m <= arrived - pos /\ m <= iRxSize
  BY <1>5, <1>6, SmallerIs
<1>8. Taken(m)
  BY <1>6 DEF readString
<1>9. EchoInv'
  BY DEF readString, EchoInv
<1> QED  BY <1>4, <1>7, <1>8, <1>9, TakenInv DEF readString

\* The two loops that read the rest of a payload.
LEMMA FlushInv ==
  ASSUME InStepInv, pc \in {"flush", "pong", "close"}, NEW next \in {"idle", "header", "close"},
         Flush(next), iRxSize # 0 \/ next # "close",
         UNCHANGED <<wire, arrived, iRxOpCode, parsed>>
  PROVE  InStepInv'
<1>1. pc \in Standing
  BY DEF Standing
<1>2. CASE iRxSize = 0
  BY <1>1, <1>2, NextReadInv DEF Flush
<1>3. CASE iRxSize # 0
  <2>1. iRxSize \in Nat /\ arrived - pos \in Nat
    BY <1>1, SizeKnown
  <2>2. PICK m : m = Min({iRxSize, arrived - pos})
    OBVIOUS
  <2>3. m \in Nat /\ m <= arrived - pos /\ m <= iRxSize
    BY <2>1, <2>2, SmallerIs
  <2>4. Taken(m) /\ pc' = pc
    BY <1>3, <2>2 DEF Flush
  <2>5. EchoInv'
    BY <2>4 DEF EchoInv
  <2> QED  BY <1>1, <2>3, <2>4, <2>5, TakenInv
<1> QED  BY <1>2, <1>3

LEMMA flushRxInv ==
  ASSUME SocketInv, flushRx
  PROVE  SocketInv'
<1> USE DEF tx, history
<1>1. pc' \in {"idle", "header", "flush", "pong"}
  BY DEF flushRx, Flush
<1>2. TxInv'
  BY <1>1 DEF flushRx, SocketInv, TxInv
<1>3. SUFFICES ASSUME ~lost, upgraded PROVE InStepInv'
  BY <1>2 DEF SocketInv, flushRx
<1>4. InStepInv
  BY <1>3 DEF SocketInv
<1>5. PICK next \in {"idle", "header"} : Flush(next)
  BY DEF flushRx
<1> QED  BY <1>4, <1>5, FlushInv DEF flushRx

LEMMA FlushAndStopInv ==
  ASSUME SocketInv, FlushAndStop
  PROVE  SocketInv'
<1> USE DEF tx, history
<1>1. CASE iRxSize = 0
  BY <1>1 DEF FlushAndStop, SocketInv, TxInv, NewStream
<1>2. CASE iRxSize # 0
  <2>1. Flush("close") /\ pc' = pc
    BY <1>2 DEF FlushAndStop, Flush
  <2>2. TxInv'
    BY <1>2, <2>1 DEF FlushAndStop, SocketInv, TxInv
  <2>3. SUFFICES ASSUME ~lost, upgraded PROVE InStepInv'
    BY <1>2, <2>2 DEF SocketInv, FlushAndStop
  <2>4. InStepInv
    BY <2>3 DEF SocketInv
  <2> QED  BY <1>2, <2>1, <2>4, FlushInv DEF FlushAndStop
<1> QED  BY <1>1, <1>2

-----------------------------------------------------------------------------
(* The header of a frame                                                   *)

\* What behind the header of the frame before is read as the header of the next one.
LEMMA HeaderBytes ==
  ASSUME InStepInv, pc = "header", ~(arrived - pos < 2)
  PROVE  /\ parsed \in Nat /\ parsed + 1 \in 1..Len(wire)
         /\ pos = wire[parsed + 1].start /\ wire[parsed + 1].frame \in Frames
         /\ End(parsed + 1) = pos + Size(wire[parsed + 1].frame)
         /\ ByteAt(pos + 1) = OpCode(wire[parsed + 1].frame)
         /\ ByteAt(pos + 2) = Code(wire[parsed + 1].frame)
                              + (IF wire[parsed + 1].frame.masked THEN 128 ELSE 0)
<1>1. /\ WireInv /\ parsed \in 0..Len(wire) /\ arrived <= Total
      /\ arrived \in Nat /\ pos \in Nat /\ Len(wire) \in Nat /\ Total \in Nat
  BY EndNat DEF InStepInv, PosInv
<1>2. pos = End(parsed)
  BY <1>1 DEF InStepInv, PosInv
<1>3. parsed # Len(wire)
  <2>1. End(parsed) # Total
    BY <1>1, <1>2
  <2> QED  BY <2>1 DEF Total
<1>4. PICK k : k = parsed + 1
  OBVIOUS
<1>5. parsed \in Nat /\ k \in 1..Len(wire) /\ k - 1 = parsed
  BY <1>1, <1>3, <1>4
<1>6. /\ wire[k].start = pos /\ wire[k].frame \in Frames
      /\ End(k) = wire[k].start + Size(wire[k].frame)
  BY <1>1, <1>2, <1>5, PlacedIs
<1>7. 1 \in 1..Size(wire[k].frame) /\ 2 \in 1..Size(wire[k].frame)
  BY <1>6, SizeIs
<1>8. /\ ByteAt(wire[k].start + 1) = ByteOf(wire[k].frame, 1)
      /\ ByteAt(wire[k].start + 2) = ByteOf(wire[k].frame, 2)
  BY <1>1, <1>5, <1>7, ByteAtFrame
<1>9. /\ ByteOf(wire[k].frame, 1) = OpCode(wire[k].frame)
      /\ ByteOf(wire[k].frame, 2) = Code(wire[k].frame)
                                    + (IF wire[k].frame.masked THEN 128 ELSE 0)
  BY DEF ByteOf
<1> QED  BY <1>4, <1>5, <1>6, <1>8, <1>9

\* The second byte holds the code and, on top of it, whether there is a mask.
LEMMA CodeByte ==
  ASSUME NEW f \in Frames, NEW l, l = Code(f) + (IF f.masked THEN 128 ELSE 0)
  PROVE  l % 128 = Code(f) /\ (l >= 128) = f.masked
<1>1. Code(f) \in Int /\ 0 <= Code(f) /\ Code(f) < 128 /\ f.masked \in BOOLEAN
  BY SizeIs, FrameIs
<1>2. CASE f.masked
  <2>1. l = Code(f) + 128
    BY <1>2
  <2>2. l % 128 = Code(f) /\ l >= 128
    BY <1>1, <2>1, SMT
  <2> QED  BY <1>1, <1>2, <2>2
<1>3. CASE ~f.masked
  <2>1. l = Code(f)
    BY <1>1, <1>3
  <2>2. l % 128 = Code(f) /\ ~(l >= 128)
    BY <1>1, <2>1, SMT
  <2> QED  BY <1>1, <1>3, <2>2
<1> QED  BY <1>1, <1>2, <1>3

\* The opcode of a text message, and that of its last fragment.
TextCode(f) == TEXT + (IF f.fin THEN 128 ELSE 0)

\* An opcode of the server's, and what NewOpCode makes of it.
LEMMA OpCodeByte ==
  ASSUME NEW f \in Frames
  PROVE  /\ f.op = TEXT => NewOpCode(OpCode(f)) = TextCode(f)
         /\ f.op = CONTINUATION /\ iRxOpCode = TEXT => NewOpCode(OpCode(f)) = TextCode(f)
<1>1. f.fin \in BOOLEAN
  BY FrameIs
<1>2. 1 % 16 = 1 /\ 129 % 16 = 1 /\ 0 % 16 = 0 /\ 128 % 16 = 0
  BY SMT
<1>3. ASSUME f.op = TEXT PROVE NewOpCode(OpCode(f)) = TextCode(f)
  <2>1. OpCode(f) = TextCode(f) /\ OpCode(f) \in {1, 129}
    BY <1>3 DEF OpCode, TextCode, TEXT
  <2> QED  BY <1>2, <2>1 DEF NewOpCode
<1>4. ASSUME f.op = CONTINUATION, iRxOpCode = TEXT PROVE NewOpCode(OpCode(f)) = TextCode(f)
  <2>1. ~isFinal
    BY <1>4 DEF isFinal, TEXT
  <2>2. CASE f.fin
    <3>1. OpCode(f) = 128
      BY <1>4, <2>2 DEF OpCode, CONTINUATION
    <3> QED  BY <1>2, <1>4, <2>1, <2>2, <3>1 DEF NewOpCode, TextCode, TEXT
  <2>3. CASE ~f.fin
    <3>1. OpCode(f) = 0
      BY <1>4, <2>3 DEF OpCode, CONTINUATION
    <3> QED  BY <1>2, <1>4, <2>1, <2>3, <3>1 DEF NewOpCode, TextCode, TEXT
  <2> QED  BY <2>2, <2>3
<1> QED  BY <1>3, <1>4

\* The opcode behind the header of a frame.
LEMMA OpCodeRead ==
  ASSUME InStepInv, wire' = wire, parsed \in Nat, parsed' = parsed + 1,
         parsed' \in 1..Len(wire), iRxOpCode' = NewOpCode(OpCode(wire[parsed'].frame))
  PROVE  OpInv'
<1>1. PICK k : k = parsed'
  OBVIOUS
<1>2. PICK f : f = wire[k].frame
  OBVIOUS
<1>3. Current' = f /\ iRxOpCode' = NewOpCode(OpCode(f))
  BY <1>1, <1>2 DEF Current
<1>4. /\ WireInv /\ k \in 1..Len(wire) /\ f \in Frames /\ k \in Nat
      /\ parsed \in Nat /\ k = parsed + 1 /\ Len(wire) \in Nat
  BY <1>1, <1>2, PlacedIs DEF InStepInv
<1> SUFFICES ASSUME f.op \notin Control, ~Between' PROVE iRxOpCode' = TextCode(f)
  BY <1>3 DEF OpInv, TextCode
<1>5. f.op = TEXT \/ f.op = CONTINUATION
  BY <1>4, FrameIs DEF TEXT, CONTINUATION, Control, CLOSE, PING, PONG
<1>6. CASE f.op = TEXT
  BY <1>3, <1>4, <1>6, OpCodeByte
<1>7. CASE f.op = CONTINUATION
  <2>1. PICK j \in 1..(k - 1) :
          Fragment(j) /\ \A l \in (j + 1)..(k - 1) : wire[l].frame.op \in Control
    BY <1>2, <1>4, <1>7 DEF WireInv, Continues
  <2>2. \A a, b \in 1..k : ~(a < b /\ ~wire[a].frame.fin /\ wire[b].frame.op \in Control)
    BY <1>1 DEF Between
  <2>3. j = parsed
    <3> SUFFICES ASSUME j # parsed PROVE FALSE
      OBVIOUS
    <3>1. j + 1 \in (j + 1)..(k - 1) /\ j \in 1..k /\ j + 1 \in 1..k /\ j < j + 1
      BY <1>4, <2>1
    <3> QED  BY <2>1, <2>2, <3>1 DEF Fragment
  <2>4. parsed # 0 /\ Current.op \notin Control /\ ~Current.fin
    BY <1>4, <2>1, <2>3 DEF Current, Fragment
  <2>5. ~Between
    <3>1. \A a \in 1..parsed : a \in 1..k
      BY <1>4
    <3> QED  BY <2>2, <3>1 DEF Between
  <2>6. iRxOpCode = TEXT
    BY <2>4, <2>5 DEF InStepInv, OpInv, TEXT
  <2> QED  BY <1>3, <1>4, <1>7, <2>6, OpCodeByte
<1> QED  BY <1>5, <1>6, <1>7

LEMMA ReadHeaderInv ==
  ASSUME SocketInv, ReadHeader
  PROVE  SocketInv'
<1> USE DEF tx
<1>1. pc' \in {"idle", "mask", "size"}
  BY DEF ReadHeader, NoFrame
<1>2. TxInv'
  BY <1>1 DEF ReadHeader, SocketInv, TxInv
<1>3. SUFFICES ASSUME ~lost, upgraded PROVE InStepInv'
  BY <1>2 DEF SocketInv, ReadHeader
<1>4. InStepInv /\ pc = "header"
  BY <1>3 DEF SocketInv, ReadHeader
<1>5. CASE arrived - pos < 2
  BY <1>4, <1>5, NextReadInv DEF ReadHeader, NoFrame, rx
<1>6. CASE ~(arrived - pos < 2)
  <2>1. PICK k : k = parsed + 1
    OBVIOUS
  <2>2. PICK f : f = wire[k].frame
    OBVIOUS
  <2>3. /\ parsed \in Nat /\ k \in 1..Len(wire) /\ pos = wire[k].start /\ f \in Frames
        /\ End(k) = pos + Size(f) /\ ByteAt(pos + 1) = OpCode(f)
        /\ ByteAt(pos + 2) = Code(f) + (IF f.masked THEN 128 ELSE 0)
    BY <1>4, <1>6, <2>1, <2>2, HeaderBytes
  <2>4. ByteAt(pos + 2) % 128 = Code(f) /\ (ByteAt(pos + 2) >= 128) = f.masked
    BY <2>3, CodeByte
  <2>5. /\ pos' = pos + 2 /\ iRxOpCode' = NewOpCode(OpCode(f))
        /\ iRxMasked' = f.masked /\ iRxSize' = (IF Code(f) < 126 THEN Code(f) ELSE 0)
        /\ left' = SizeBytes(Code(f)) /\ value' = 0
        /\ pc' = (IF Code(f) < 126 THEN "mask" ELSE "size")
        /\ parsed' = k /\ wire' = wire /\ arrived' = arrived
    BY <1>3, <1>6, <2>1, <2>3, <2>4 DEF ReadHeader
  <2>6. /\ WireInv' /\ Total' = Total /\ End(parsed)' = pos + Size(f)
    <3>1. WireInv' /\ Total' = Total /\ \A m \in Int : End(m)' = End(m)
      BY <1>4, <2>5, SameWire DEF InStepInv
    <3>2. k \in Int /\ End(parsed)' = End(k)'
      BY <2>3, <2>5 DEF End
    <3> QED  BY <2>3, <3>1, <3>2
  <2>7. Current' = f
    BY <2>2, <2>5 DEF Current
  <2>8. /\ Code(f) < 126 => Code(f) = f.size /\ SizeBytes(Code(f)) = 0
        /\ ~(Code(f) < 126) => SizeBytes(Code(f)) \in {2, 8}
        /\ SizeBytes(Code(f)) = 2 => f.size < 65536
        /\ Size(f) = ((2 + SizeBytes(Code(f))) + MaskBytes(f)) + f.size
        /\ MaskBytes(f) \in {0, 4} /\ f.size \in Nat /\ Code(f) \in 0..127
        /\ f.size \div 65536 < 256
    BY <2>3, SizeIs, FrameIs
  <2>9. arrived \in Nat /\ pos \in Nat /\ arrived <= Total /\ Len(wire) \in Nat
    BY <1>4, EndNat DEF InStepInv, PosInv
  <2>10. PosInv'
    <3>1. pos + 2 \in Nat /\ pos + 2 <= arrived /\ k \in 0..Len(wire) /\ k # 0
      BY <1>6, <2>3, <2>9
    <3> QED  BY <2>5, <2>6, <2>9, <3>1 DEF PosInv, InFrame
  <2>11. SizeInv'
    <3> SUFFICES ASSUME ~(Code(f) < 126) PROVE SizeInv'
      BY <2>5 DEF SizeInv
    <3>1. PICK n : n = SizeBytes(Code(f))
      OBVIOUS
    <3>2. n \in {2, 8} /\ (n = 2 => f.size < 65536)
      BY <2>8, <3>1
    <3>3. Prefix(f.size, n) = 0
      BY <2>8, <3>2, Digits DEF Prefix
    <3>4. n \in 1..n /\ pos + 2 = pos + ((2 + n) - n)
      BY <2>9, <3>2
    <3>5. wire'[parsed'].start = pos
      BY <2>3, <2>5
    <3> QED  BY <2>5, <2>7, <3>1, <3>3, <3>4, <3>5 DEF SizeInv
  <2>12. MaskInv'
    <3> SUFFICES ASSUME Code(f) < 126 PROVE MaskInv'
      BY <2>5 DEF MaskInv
    <3>1. iRxSize' = f.size
      BY <2>5, <2>8
    <3>2. ((pos + 2) + MaskBytes(f)) + f.size = pos + Size(f)
      BY <2>8, <2>9
    <3> QED  BY <2>5, <2>6, <2>7, <3>1, <3>2 DEF MaskInv
  <2>13. OpInv'
    BY <1>4, <2>1, <2>2, <2>3, <2>5, OpCodeRead
  <2>14. EchoInv'
    BY <2>5 DEF EchoInv
  <2> QED  BY <2>6, <2>10, <2>11, <2>12, <2>13, <2>14 DEF InStepInv
<1> QED  BY <1>5, <1>6

-----------------------------------------------------------------------------
(* The length and the mask                                                 *)

LEMMA ReadSizeInv ==
  ASSUME SocketInv, ReadSize
  PROVE  SocketInv'
<1> USE DEF tx
<1>1. TxInv'
  BY DEF ReadSize, SocketInv, TxInv
<1>2. SUFFICES ASSUME ~lost', upgraded' PROVE InStepInv'
  BY <1>1 DEF SocketInv
<1>3. InStepInv /\ SomethingThere /\ upgraded
  BY <1>2 DEF SocketInv, ReadSize
<1>4. PICK k : k = parsed
  OBVIOUS
<1>5. PICK f : f = Current
  OBVIOUS
<1>6. PICK n : n = SizeBytes(Code(f))
  OBVIOUS
<1>7. PICK i : i = (n + 3) - left
  OBVIOUS
<1>8. /\ k \in 1..Len(wire) /\ WireInv /\ f = wire[k].frame /\ f \in Frames
      /\ End(k) = wire[k].start + Size(f) /\ wire[k].start \in Nat
  <2>1. k \in 1..Len(wire) /\ WireInv
    BY <1>3, <1>4, EndNat DEF ReadSize, InStepInv, PosInv, InFrame
  <2> QED  BY <1>4, <1>5, <2>1, PlacedIs DEF Current
<1>9. /\ left \in 1..n /\ pos = wire[k].start + ((2 + n) - left)
      /\ value = Prefix(f.size, left) /\ iRxMasked = f.masked
  BY <1>3, <1>4, <1>5, <1>6 DEF ReadSize, InStepInv, SizeInv
<1>10. /\ n \in {0, 2, 8} /\ f.size \in Nat /\ f.size < Huge /\ Huge \in Nat
       /\ f.size \div 65536 < 256 /\ MaskBytes(f) \in {0, 4}
       /\ Size(f) = ((2 + n) + MaskBytes(f)) + f.size
  BY <1>6, <1>8, SizeIs, FrameIs
<1>11. /\ left \in 1..8 /\ i \in 3..(2 + n) /\ i \in 1..Size(f) /\ (n + 3) - i = left
       /\ pos + 1 = wire[k].start + i /\ n \in Int /\ i \in Int
  <2>1. n \in {2, 8} /\ left \in 1..n
    BY <1>9, <1>10
  <2>2. n \in Int /\ left \in Int /\ 1 <= left /\ left <= n /\ n <= 8
    BY <2>1
  <2>3. i \in Int /\ 3 <= i /\ i <= 2 + n /\ (n + 3) - i = left
    BY <1>7, <2>2
  <2>4. Size(f) \in Int /\ 2 + n <= Size(f)
    <3>1. PICK m : m = MaskBytes(f)
      OBVIOUS
    <3>2. m \in {0, 4} /\ Size(f) = ((2 + n) + m) + f.size
      BY <1>10, <3>1
    <3> QED  BY <1>10, <2>2, <3>2
  <2>5. pos + 1 = wire[k].start + i
    BY <1>7, <1>8, <1>9, <2>2
  <2> QED  BY <2>2, <2>3, <2>4, <2>5
<1>12. ByteAt(pos + 1) = SizeByte(f.size, left)
  <2>1. ByteAt(wire[k].start + i) = ByteOf(f, i)
    BY <1>8, <1>11, ByteAtFrame
  <2>2. i # 1 /\ i # 2 /\ i <= 2 + n
    BY <1>10, <1>11
  <2>3. ByteOf(f, i) = SizeByte(f.size, (n + 3) - i)
    BY <1>6, <1>11, <2>2 DEF ByteOf
  <2> QED  BY <1>11, <2>1, <2>3
<1>13. PICK v : v = Prefix(f.size, left - 1)
  OBVIOUS
<1>14. v \in Nat /\ v < Huge /\ value * 256 + ByteAt(pos + 1) = v
  <2>1. /\ Prefix(f.size, left) * 256 + SizeByte(f.size, left) = v
        /\ v <= f.size /\ v \in Nat
    BY <1>10, <1>11, <1>13, SizeDigits
  <2> QED  BY <1>9, <1>10, <1>12, <2>1
<1>15. Min({Huge, value * 256 + ByteAt(pos + 1)}) = v
  <2>1. Min({Huge, v}) = v
    BY <1>10, <1>14, Smaller
  <2> QED  BY <1>14, <2>1
<1>16. /\ pos' = pos + 1 /\ left' = left - 1
       /\ left = 1 => iRxSize' = v /\ pc' = "mask"
       /\ left # 1 => value' = v /\ iRxSize' = iRxSize /\ pc' = "size"
       /\ UNCHANGED <<wire, arrived, iRxOpCode, iRxMasked, parsed>>
  BY <1>3, <1>15 DEF ReadSize
<1>17. /\ WireInv' /\ Total' = Total /\ Current' = f /\ End(parsed)' = End(parsed)
       /\ (Between' <=> Between)
  BY <1>5, <1>8, <1>16, SameWire
<1>18. /\ arrived \in Nat /\ pos \in Nat /\ pos + 1 <= arrived /\ arrived <= Total
       /\ parsed \in 0..Len(wire) /\ parsed # 0
  BY <1>3 DEF ReadSize, InStepInv, PosInv, InFrame, SomethingThere
<1>19. PosInv'
  BY <1>16, <1>17, <1>18 DEF PosInv
<1>20. SizeInv'
  <2> SUFFICES ASSUME left # 1 PROVE SizeInv'
    BY <1>16 DEF SizeInv
  <2>1. left - 1 \in 1..n /\ pos + 1 = wire[k].start + ((2 + n) - (left - 1))
    <3>1. left \in Int /\ 1 <= left /\ left <= n /\ wire[k].start \in Int
      BY <1>8, <1>9, <1>11
    <3>2. left - 1 \in 1..n
      BY <1>11, <3>1
    <3>3. pos + 1 = wire[k].start + ((2 + n) - (left - 1))
      <4>1. pos = wire[k].start + ((2 + n) - left) /\ n \in Int
        BY <1>9, <1>11
      <4>2. PICK s : s = wire[k].start
        OBVIOUS
      <4> QED  BY <3>1, <4>1, <4>2
    <3> QED  BY <3>2, <3>3
  <2>2. wire'[parsed'].start = wire[k].start
    BY <1>4, <1>16
  <2> QED  BY <1>6, <1>9, <1>13, <1>16, <1>17, <2>1, <2>2 DEF SizeInv
<1>21. MaskInv'
  <2> SUFFICES ASSUME left = 1 PROVE MaskInv'
    BY <1>16 DEF MaskInv
  <2>1. v = f.size
    BY <1>13 DEF Prefix
  <2>2. ((pos + 1) + MaskBytes(f)) + f.size = End(k)
    <3>1. PICK m : m = MaskBytes(f)
      OBVIOUS
    <3>2. m \in Int /\ Size(f) = ((2 + n) + m) + f.size /\ f.size \in Int
      BY <1>10, <3>1
    <3>3. pos = wire[k].start + ((2 + n) - 1) /\ wire[k].start \in Int
      BY <1>8, <1>9
    <3>4. ((pos + 1) + m) + f.size = wire[k].start + Size(f)
      BY <1>11, <3>2, <3>3
    <3> QED  BY <1>8, <3>1, <3>4
  <2> QED  BY <1>4, <1>9, <1>16, <1>17, <2>1, <2>2 DEF MaskInv
<1>22. OpInv'
  BY <1>3, <1>5, <1>16, <1>17 DEF InStepInv, OpInv
<1>23. EchoInv'
  BY <1>16 DEF EchoInv
<1> QED  BY <1>17, <1>19, <1>20, <1>21, <1>22, <1>23 DEF InStepInv

LEMMA DispatchInv ==
  ASSUME SocketInv, Dispatch
  PROVE  SocketInv'
<1> USE DEF tx, rx
<1>1. /\ pc' \in {"close", "ping", "pong", "idle"}
      /\ pc' = "ping" <=> messageType = PING
  BY DEF Dispatch, CLOSE, PING, PONG
<1>2. TxInv /\ pc = "mask"
  BY DEF SocketInv, Dispatch
<1>3. TxInv'
  BY <1>1, <1>2 DEF Dispatch, Opens, TxInv
<1>4. SUFFICES ASSUME ~lost', upgraded' PROVE InStepInv'
  BY <1>3 DEF SocketInv
<1>5. InStepInv /\ ~lost
  BY <1>4 DEF SocketInv, Dispatch
<1>6. PICK f : f = Current
  OBVIOUS
<1>7. /\ parsed \in 1..Len(wire) /\ WireInv /\ f \in Frames
      /\ arrived \in Nat /\ pos \in Nat /\ pos <= arrived /\ arrived <= Total
  <2>1. parsed \in 1..Len(wire) /\ WireInv
    BY <1>2, <1>5, EndNat DEF InStepInv, PosInv, InFrame
  <2> QED  BY <1>5, <1>6, <2>1, PlacedIs DEF Current, InStepInv, PosInv
<1>8. /\ iRxSize = f.size /\ iRxMasked = f.masked
      /\ (pos + MaskBytes(f)) + iRxSize = End(parsed)
  BY <1>2, <1>5, <1>6 DEF InStepInv, MaskInv
<1>9. f.size \in Nat /\ f.size < Huge /\ Huge \in Nat /\ f.masked \in BOOLEAN
  BY <1>7, FrameIs
<1>10. pos' = pos + MaskBytes(f) /\ pos' \in Nat /\ pos' <= arrived
  <2>1. CASE f.masked
    <3>1. PICK n : n = Min({4, arrived - pos})
      OBVIOUS
    <3>2. n \in Nat /\ n <= 4 /\ n <= arrived - pos
      BY <1>7, <3>1, SmallerIs
    <3>3. pos' = pos + n /\ ~(n < 4)
      BY <1>4, <1>8, <2>1, <3>1 DEF Dispatch
    <3> QED  BY <1>7, <2>1, <3>2, <3>3 DEF MaskBytes
  <2>2. CASE ~f.masked
    <3>1. pos' = pos + 0
      BY <1>8, <1>9, <2>2 DEF Dispatch
    <3> QED  BY <1>7, <2>2, <3>1 DEF MaskBytes
  <2> QED  BY <2>1, <2>2
<1>11. /\ WireInv' /\ Total' = Total /\ Current' = f /\ End(parsed)' = End(parsed)
       /\ (Between' <=> Between)
  BY <1>6, <1>7, SameWire DEF Dispatch
<1>12. PosInv'
  <2>1. iRxSize \in 0..(Huge - 1) /\ parsed \in 0..Len(wire) /\ parsed # 0
    BY <1>5, <1>7, <1>8, <1>9 DEF InStepInv, PosInv
  <2>2. pos' + iRxSize = End(parsed)
    BY <1>8, <1>10
  <2> QED  BY <1>1, <1>7, <1>10, <1>11, <2>1, <2>2 DEF PosInv, Dispatch
<1>13. SizeInv' /\ MaskInv'
  BY <1>1 DEF SizeInv, MaskInv
<1>14. OpInv'
  BY <1>5, <1>6, <1>11 DEF InStepInv, OpInv, Dispatch
<1>15. EchoInv'
  <2>1. iTxSize' \in Nat /\ iRxSize' = f.size
    BY <1>3, <1>8 DEF Dispatch, TxInv
  <2> QED  BY <1>9, <1>11, <2>1 DEF EchoInv
<1> QED  BY <1>11, <1>12, <1>13, <1>14, <1>15 DEF InStepInv

-----------------------------------------------------------------------------
(* The answer to a PING                                                    *)

LEMMA EchoStepInv ==
  ASSUME SocketInv, Echo
  PROVE  SocketInv'
<1> USE DEF history
<1>1. TxInv /\ pc = "ping" /\ iTxSize \in Nat
  BY DEF SocketInv, TxInv, Echo
<1>2. CASE iRxSize = 0
  <2>1. /\ Sends(iTxSize) /\ pc' = "idle" /\ iRxSize' = iRxSize /\ pos' = pos
        /\ UNCHANGED <<wire, arrived, upgraded, iRxOpCode, parsed, lost>>
    BY <1>2 DEF Echo, EchoDone
  <2>2. TxInv'
    BY <1>1, <2>1 DEF TxInv, Sends
  <2>3. SUFFICES ASSUME ~lost, upgraded PROVE InStepInv'
    BY <2>1, <2>2 DEF SocketInv
  <2>4. InStepInv /\ pc \in Standing
    BY <1>1, <2>3 DEF SocketInv, Standing
  <2> QED  BY <1>2, <2>1, <2>4, NextReadInv
<1>3. CASE iRxSize # 0
  <2>1. /\ IF SomethingThere THEN Taken(1) ELSE UNCHANGED <<pos, iRxSize>>
        /\ IF Overrun(1) THEN pc' = "halted" /\ UNCHANGED iTxSize
                         ELSE iTxSize' = iTxSize + Stored(1) /\ UNCHANGED pc
        /\ UNCHANGED <<wire, arrived, upgraded, iRxOpCode, parsed, lost>>
    BY <1>3 DEF Echo, EchoDone
  <2>2. TxInv'
    <3>1. iTxSize' \in Nat
      BY <1>1, <2>1, StoredNat
    <3> QED  BY <1>1, <2>1, <3>1 DEF TxInv
  <2>3. SUFFICES ASSUME ~lost, upgraded PROVE InStepInv'
    BY <2>1, <2>2 DEF SocketInv
  <2>4. InStepInv /\ pc \in Standing
    BY <1>1, <2>3 DEF SocketInv, Standing
  <2>5. /\ iRxSize \in Nat /\ iRxSize # Huge /\ Huge \in Nat /\ pos \in Nat /\ arrived \in Nat
        /\ pos <= arrived
    BY <2>4, SizeKnown
  <2>6. PICK n \in {0, 1} : Taken(n) /\ n <= iRxSize /\ n <= arrived - pos
    <3>1. CASE SomethingThere
      BY <1>3, <2>1, <2>5, <3>1 DEF SomethingThere
    <3>2. CASE ~SomethingThere
      <4>1. Taken(0)
        BY <2>1, <2>5, <3>2 DEF Taken, Less
      <4> QED  BY <2>5, <4>1
    <3> QED  BY <3>1, <3>2
  <2>7. EchoInv'
    <3> SUFFICES ASSUME pc' = "ping" PROVE EchoInv'
      BY DEF EchoInv
    <3>1. iTxSize + iRxSize >= Current.size /\ Current.size \in Nat
      <4>1. parsed \in 1..Len(wire) /\ WireInv
        BY <1>1, <2>4, EndNat DEF InStepInv, PosInv, InFrame
      <4>2. Current.size \in Nat
        BY <4>1, PlacedIs, FrameIs DEF Current
      <4> QED  BY <1>1, <2>4, <4>2 DEF InStepInv, EchoInv
    <3>2. iTxSize' = iTxSize + 1
      BY <1>1, <2>1, StoredByte
    <3>3. iRxSize' = iRxSize - n
      BY <2>5, <2>6 DEF Taken, Less
    <3>4. iTxSize' + iRxSize' >= Current.size
      BY <1>1, <2>5, <3>1, <3>2, <3>3
    <3>5. Current' = Current
      BY <2>1 DEF Current
    <3> QED  BY <3>4, <3>5 DEF EchoInv
  <2>8. n \in Nat /\ (pc' = pc \/ pc' = "halted")
    BY <2>1
  <2> QED  BY <2>1, <2>4, <2>6, <2>7, <2>8, TakenInv
<1> QED  BY <1>2, <1>3

-----------------------------------------------------------------------------
(* The theorems                                                            *)

LEMMA NextInv == SocketInv /\ [Next]_vars => SocketInv'
<1> SUFFICES ASSUME SocketInv, [Next]_vars PROVE SocketInv'
  OBVIOUS
<1>1. CASE \/ UNCHANGED vars \/ ConnectionEnds \/ beginMessage \/ endMessage \/ write
           \/ ping \/ parseMessage
  BY <1>1, TxSteps
<1>2. CASE begin
  BY <1>2, beginInv
<1>3. CASE stop
  BY <1>3, stopInv
<1>4. CASE ServerSends
  BY <1>4, ServerSendsInv
<1>5. CASE Arrives
  BY <1>5, ArrivesInv
<1>6. CASE read
  BY <1>6, readInv
<1>7. CASE readString
  BY <1>7, readStringInv
<1>8. CASE flushRx
  BY <1>8, flushRxInv
<1>9. CASE FlushAndStop
  BY <1>9, FlushAndStopInv
<1>10. CASE ReadHeader
  BY <1>10, ReadHeaderInv
<1>11. CASE ReadSize
  BY <1>11, ReadSizeInv
<1>12. CASE Dispatch
  BY <1>12, DispatchInv
<1>13. CASE Echo
  BY <1>13, EchoStepInv
<1> QED
  BY <1>1, <1>2, <1>3, <1>4, <1>5, <1>6, <1>7, <1>8, <1>9, <1>10, <1>11, <1>12, <1>13
     DEF Next, Program, Parse

LEMMA SocketInvHolds == Spec => []SocketInv
<1>1. Init => SocketInv
  BY InitInv
<1>2. SocketInv /\ [Next]_vars => SocketInv'
  BY NextInv
<1> QED  BY <1>1, <1>2, PTL DEF Spec

\* parseMessage(), flushRx(), read() and readString() leave the client at the end of what
\* is left of the frame that was found last, however the bytes arrive.
THEOREM InStepHolds == Spec => []InStep
<1>1. SocketInv => InStep
  <2> SUFFICES ASSUME SocketInv, ~lost, upgraded, pc = "idle"
               PROVE  parsed <= Len(wire) /\ pos + iRxSize = End(parsed)
    BY DEF InStep
  <2>1. InStepInv
    BY DEF SocketInv
  <2> QED  BY <2>1, EndNat DEF InStepInv, PosInv
<1> QED  BY <1>1, SocketInvHolds, PTL

\* What parseMessage() makes of the opcode of a fragment is the type of its message, with
\* the fragment's own FIN, unless a control frame has come between.
THEOREM TypeRightHolds == Spec => []TypeRight
<1>1. SocketInv => TypeRight
  <2> SUFFICES ASSUME SocketInv, ~lost, upgraded, pc = "idle", parsed > 0,
                      Current.op \notin Control, ~Between
               PROVE  messageType = TEXT /\ isFinal = Current.fin
    BY DEF TypeRight
  <2>1. InStepInv /\ WireInv /\ parsed \in 0..Len(wire) /\ Len(wire) \in Nat
    BY EndNat DEF SocketInv, InStepInv, PosInv
  <2>2. parsed \in 1..Len(wire)
    BY <2>1
  <2>3. Current.fin \in BOOLEAN
    BY <2>1, <2>2, PlacedIs, FrameIs DEF Current
  <2>4. iRxOpCode = TEXT + (IF Current.fin THEN 128 ELSE 0)
    BY <2>1, <2>2 DEF InStepInv, OpInv
  <2>5. 1 % 16 = 1 /\ 129 % 16 = 1
    BY SMT
  <2>6. CASE Current.fin
    <3>1. iRxOpCode = 129
      BY <2>4, <2>6 DEF TEXT
    <3>2. isFinal <=> TRUE
      BY <3>1 DEF isFinal
    <3> QED  BY <2>3, <2>5, <2>6, <3>1, <3>2 DEF messageType, TEXT
  <2>7. CASE ~Current.fin
    <3>1. iRxOpCode = 1
      BY <2>4, <2>7 DEF TEXT
    <3> QED  BY <2>3, <2>5, <2>7, <3>1 DEF messageType, isFinal, TEXT
  <2> QED  BY <2>6, <2>7
<1> QED  BY <1>1, SocketInvHolds, PTL

\* The answer that parseMessage() sends to a PING has all of its payload, whatever the
\* program has sent or begun before, and however late the bytes of the PING arrive.
THEOREM PingAnsweredHolds == Spec => PingAnswered
<1>1. ASSUME SocketInv, [Next]_vars
      PROVE  [pc = "ping" /\ pc' = "idle" /\ ~lost /\ open =>
                Len(out') = 1 /\ out'[1].size >= Current.size]_vars
  <2> SUFFICES ASSUME Next, pc = "ping", pc' = "idle", ~lost, open
               PROVE  Len(out') = 1 /\ out'[1].size >= Current.size
    BY <1>1
  <2>1. Echo
    BY DEF Next, Program, Parse, ServerSends, Arrives, ConnectionEnds, begin, stop, beginMessage,
           write, endMessage, ping, read, readString, parseMessage, flushRx, ReadHeader,
           ReadSize, Dispatch, FlushAndStop
  <2>2. iRxSize = 0 /\ Sends(iTxSize)
    BY <2>1 DEF Echo, EchoDone
  <2>3. upgraded /\ InStepInv /\ iTxSize \in Nat
    BY <1>1 DEF SocketInv, TxInv
  <2>4. iTxSize >= Current.size
    BY <2>2, <2>3 DEF InStepInv, EchoInv
  <2>5. out' = <<[op |-> iTxMessageType, size |-> iTxSize]>>
    BY <2>2, <2>3 DEF Sends
  <2> QED  BY <2>4, <2>5
<1> QED  BY <1>1, SocketInvHolds, PTL DEF Spec, PingAnswered
=============================================================================
