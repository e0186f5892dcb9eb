-------------------------- MODULE HttpClientProofs --------------------------
(***************************************************************************)
(* Proofs about HttpClient: the answers lie on the stream one behind the    *)
(* other, and the state of the client tells how far it has read the last    *)
(* one.                                                                    *)
(***************************************************************************)
EXTENDS HttpClient, SequenceTheorems, TLAPS

-----------------------------------------------------------------------------
(* The shape of an answer                                                  *)

\* The pieces in front of the status line; the place where the headers of an answer
\* with length n end; and its pieces behind that.
Before       == IF Informational THEN 5 ELSE 0
HeaderEnd(n) == Before + (IF n = NoLength THEN 7 ELSE 10)
BodyLen(n)   == IF n = NoLength THEN 1 ELSE n

\* At place m of an answer with length n there can be a piece of this kind.
KindAt(kind, m, n) ==
  \/ Informational /\ \/ m = 1 /\ kind = "prefix"
                      \/ m = 2 /\ kind = "continue"
                      \/ m = 3 /\ kind = "lf"
                      \/ m = 4 /\ kind = "cr"
                      \/ m = 5 /\ kind = "lf"
  \/ m = Before + 1 /\ kind = "prefix"
  \/ m = Before + 2 /\ kind = "code"
  \/ m = Before + 3 /\ kind = "lf"
  \/ m = Before + 4 /\ kind = "other"
  \/ m = Before + 5 /\ kind = "lf"
  \/ n # NoLength /\ \/ m = Before + 6 /\ kind = "length"
                     \/ m = Before + 7 /\ kind = "digits"
                     \/ m = Before + 8 /\ kind = "lf"
  \/ m = HeaderEnd(n) - 1 /\ kind = "cr"
  \/ m = HeaderEnd(n) /\ kind = "lf"
  \/ m > HeaderEnd(n) /\ m <= HeaderEnd(n) + BodyLen(n) /\ kind = "body"

\* Piece c can be at place m, counted from the answer to request r; in front of that
\* there is what is left of the body of an earlier answer.
Stands(c, m, r, n) ==
  IF m <= 0 THEN c.kind = "body" ELSE c.of = r /\ KindAt(c.kind, m, n)

\* The pieces s can be those that follow d pieces.
Fits(s, d, r, n) == \A i \in 1..Len(s) : Stands(s[i], d + i, r, n)

AllBody(s) == \A i \in 1..Len(s) : s[i].kind = "body"

AnswerLengths == Lengths \cup {NoLength}

LEMMA FitsEmpty ==
  ASSUME NEW d, NEW r, NEW n
  PROVE  Fits(<<>>, d, r, n)
  BY LenProperties DEF Fits

LEMMA FitsTail ==
  ASSUME NEW s \in Seq(Pieces), s # <<>>, NEW d \in Int, NEW r, NEW n, Fits(s, d, r, n)
  PROVE  /\ Head(s) \in Pieces /\ Tail(s) \in Seq(Pieces) /\ Len(Tail(s)) = Len(s) - 1
         /\ Stands(Head(s), d + 1, r, n)
         /\ Fits(Tail(s), d + 1, r, n)
<1>1. Len(s) \in Nat \ {0} /\ Head(s) = s[1] /\ Tail(s) \in Seq(Pieces)
      /\ Len(Tail(s)) = Len(s) - 1
  BY HeadTailProperties, LenProperties, EmptySeq
<1>2. \A i \in 1..Len(Tail(s)) : Tail(s)[i] = s[i + 1]
  BY HeadTailProperties
<1>3. Head(s) \in Pieces
  BY <1>1, ElementOfSeq
<1>4. Stands(Head(s), d + 1, r, n)
  BY <1>1 DEF Fits
<1>5. \A i \in 1..Len(Tail(s)) : Stands(Tail(s)[i], (d + 1) + i, r, n)
  <2> TAKE i \in 1..Len(Tail(s))
  <2>1. i + 1 \in 1..Len(s) /\ d + (i + 1) = (d + 1) + i
    BY <1>1
  <2>2. Stands(s[i + 1], d + (i + 1), r, n)
    BY <2>1 DEF Fits
  <2> QED  BY <1>2, <2>1, <2>2
<1> QED  BY <1>1, <1>3, <1>4, <1>5 DEF Fits

LEMMA FitsAppend ==
  ASSUME NEW s \in Seq(Pieces), NEW c \in Pieces, NEW d \in Int, NEW r, NEW n,
         Fits(s, d, r, n), Stands(c, (d + Len(s)) + 1, r, n)
  PROVE  Fits(Append(s, c), d, r, n)
<1>1. /\ Len(s) \in Nat /\ Len(Append(s, c)) = Len(s) + 1
      /\ \A i \in 1..Len(s) : Append(s, c)[i] = s[i]
      /\ Append(s, c)[Len(s) + 1] = c
  BY AppendProperties, LenProperties
<1>2. \A i \in 1..(Len(s) + 1) : Stands(Append(s, c)[i], d + i, r, n)
  <2> TAKE i \in 1..(Len(s) + 1)
  <2>1. CASE i \in 1..Len(s)
    BY <1>1, <2>1 DEF Fits
  <2>2. CASE i = Len(s) + 1
    <3>1. (d + Len(s)) + 1 = d + i
      BY <1>1, <2>2
    <3> QED  BY <1>1, <2>2, <3>1
  <2> QED  BY <1>1, <2>1, <2>2
<1> QED  BY <1>1, <1>2 DEF Fits

LEMMA FitsConcat ==
  ASSUME NEW s \in Seq(Pieces), NEW t \in Seq(Pieces), NEW d \in Int, NEW r, NEW n,
         Fits(s, d, r, n), Fits(t, d + Len(s), r, n)
  PROVE  Fits(s \o t, d, r, n)
<1>1. /\ Len(s) \in Nat /\ Len(t) \in Nat /\ Len(s \o t) = Len(s) + Len(t)
      /\ \A i \in 1..(Len(s) + Len(t)) :
           (s \o t)[i] = IF i <= Len(s) THEN s[i] ELSE t[i - Len(s)]
  BY ConcatProperties, LenProperties
<1>2. \A i \in 1..(Len(s) + Len(t)) : Stands((s \o t)[i], d + i, r, n)
  <2> TAKE i \in 1..(Len(s) + Len(t))
  <2>1. CASE i <= Len(s)
    <3>1. i \in 1..Len(s) /\ (s \o t)[i] = s[i]
      BY <1>1, <2>1
    <3> QED  BY <3>1 DEF Fits
  <2>2. CASE ~(i <= Len(s))
    <3>1. /\ i - Len(s) \in 1..Len(t) /\ (s \o t)[i] = t[i - Len(s)]
          /\ (d + Len(s)) + (i - Len(s)) = d + i
      BY <1>1, <2>2
    <3>2. Stands(t[i - Len(s)], (d + Len(s)) + (i - Len(s)), r, n)
      BY <3>1 DEF Fits
    <3> QED  BY <3>1, <3>2
  <2> QED  BY <2>1, <2>2
<1> QED  BY <1>1, <1>2 DEF Fits

\* In front of the answer there is nothing else than what is left of a body, ...
LEMMA FitsBody ==
  ASSUME NEW s \in Seq(Pieces), NEW d \in Int, d + Len(s) <= 0, NEW r, NEW n, AllBody(s)
  PROVE  Fits(s, d, r, n)
<1>1. Len(s) \in Nat
  BY LenProperties
<1>2. \A i \in 1..Len(s) : d + i <= 0
  BY <1>1
<1> QED  BY <1>2 DEF Fits, AllBody, Stands

\* ... and behind its headers neither.
LEMMA BodyBehind ==
  ASSUME NEW s \in Seq(Pieces), NEW r, NEW n, NEW d \in Int, d >= HeaderEnd(n), Fits(s, d, r, n)
  PROVE  AllBody(s)
<1>1. Len(s) \in Nat
  BY LenProperties
<1> SUFFICES ASSUME NEW i \in 1..Len(s) PROVE s[i].kind = "body"
  BY DEF AllBody
<1>2. d + i > HeaderEnd(n) /\ d + i \in Int
  BY <1>1 DEF HeaderEnd, Before
<1>3. Stands(s[i], d + i, r, n)
  BY DEF Fits
<1> QED  BY <1>2, <1>3 DEF Stands, KindAt, HeaderEnd, Before

LEMMA LineFits ==
  ASSUME NEW r \in Requests, NEW n, NEW d \in Nat, NEW kinds \in Seq(Kinds),
         \A k \in 1..Len(kinds) : KindAt(kinds[k], d + k, n)
  PROVE  /\ Line(r, kinds) \in Seq(Pieces) /\ Len(Line(r, kinds)) = Len(kinds)
         /\ Fits(Line(r, kinds), d, r, n)
<1>1. Len(kinds) \in Nat
  BY LenProperties
<1>2. \A k \in 1..Len(kinds) : kinds[k] \in Kinds
  BY ElementOfSeq
<1>3. Line(r, kinds) \in [1..Len(kinds) -> Pieces]
  BY <1>2 DEF Line, Piece, Pieces
<1>4. Line(r, kinds) \in Seq(Pieces) /\ Len(Line(r, kinds)) = Len(kinds)
  BY <1>1, <1>3, LenProperties, SeqDef
<1>5. \A k \in 1..Len(kinds) : Stands(Line(r, kinds)[k], d + k, r, n)
  <2> TAKE k \in 1..Len(kinds)
  <2>1. Line(r, kinds)[k].kind = kinds[k] /\ Line(r, kinds)[k].of = r
    BY DEF Line, Piece
  <2>2. ~(d + k <= 0)
    OBVIOUS
  <2> QED  BY <2>1, <2>2 DEF Stands
<1> QED  BY <1>4, <1>5 DEF Fits

LEMMA Join ==
  ASSUME NEW s \in Seq(Pieces), NEW t \in Seq(Pieces), NEW e \in Nat, Len(s) = e, NEW r, NEW n,
         Fits(s, 0, r, n), Fits(t, e, r, n)
  PROVE  s \o t \in Seq(Pieces) /\ Len(s \o t) = e + Len(t) /\ Fits(s \o t, 0, r, n)
<1>1. 0 + Len(s) = e
  OBVIOUS
<1>2. Fits(s \o t, 0, r, n)
  BY <1>1, FitsConcat
<1> QED  BY <1>2, ConcatProperties

\* Every answer has this shape.
LEMMA AnswerFits ==
  ASSUME NEW r \in Requests, length \in [Requests -> AnswerLengths]
  PROVE  Answer(r) \in Seq(Pieces) /\ Fits(Answer(r), 0, r, length[r])
<1> DEFINE n  == length[r]
           A1 == IF Informational THEN Line(r, <<"prefix", "continue", "lf", "cr",
                   "lf">>) ELSE <<>>
           A2 == Line(r, <<"prefix", "code", "lf", "other", "lf">>)
           A3 == IF n = NoLength THEN <<>> ELSE Line(r, <<"length", "digits", "lf">>)
           A4 == Line(r, <<"cr", "lf">>)
           A5 == [k \in 1..BodyLen(n) |-> Piece("body", r)]
<1>0. /\ n \in Nat \/ n = NoLength
      /\ BodyLen(n) \in Nat /\ Before \in Nat /\ HeaderEnd(n) \in Nat
      /\ HeaderEnd(n) - 2 = Before + (IF n = NoLength THEN 5 ELSE 8)
  <2>1. n \in AnswerLengths
    OBVIOUS
  <2>2. n \in Nat \/ n = NoLength
    BY <2>1, HttpAssumption DEF AnswerLengths
  <2>3. BodyLen(n) \in Nat
    BY <2>2 DEF BodyLen
  <2>4. Before \in Nat /\ HeaderEnd(n) \in Nat
    BY DEF Before, HeaderEnd
  <2>5. HeaderEnd(n) - 2 = Before + (IF n = NoLength THEN 5 ELSE 8)
    BY DEF Before, HeaderEnd
  <2> QED  BY <2>2, <2>3, <2>4, <2>5
<1>1. A1 \in Seq(Pieces) /\ Len(A1) = Before /\ Fits(A1, 0, r, n)
  <2>1. CASE Informational
    <3>1. /\ <<"prefix", "continue", "lf", "cr", "lf">> \in Seq(Kinds)
          /\ Len(<<"prefix", "continue", "lf", "cr", "lf">>) = 5
      BY DEF Kinds
    <3>2. \A k \in 1..5 : KindAt(<<"prefix", "continue", "lf", "cr", "lf">>[k], 0 + k, n)
      BY <2>1 DEF KindAt
    <3> QED  BY <2>1, <3>1, <3>2, LineFits DEF Before
  <2>2. CASE ~Informational
    BY <2>2, FitsEmpty, LenProperties, EmptySeq DEF Before
  <2> QED  BY <2>1, <2>2
<1>2. A2 \in Seq(Pieces) /\ Len(A2) = 5 /\ Fits(A2, Before, r, n)
  <2>1. /\ <<"prefix", "code", "lf", "other", "lf">> \in Seq(Kinds)
        /\ Len(<<"prefix", "code", "lf", "other", "lf">>) = 5
    BY DEF Kinds
  <2>2. \A k \in 1..5 : KindAt(<<"prefix", "code", "lf", "other", "lf">>[k], Before + k, n)
    BY DEF KindAt
  <2> QED  BY <1>0, <2>1, <2>2, LineFits
<1>3. /\ A3 \in Seq(Pieces) /\ Len(A3) = (IF n = NoLength THEN 0 ELSE 3)
      /\ Fits(A3, Before + 5, r, n)
  <2>1. CASE n # NoLength
    <3>1. /\ <<"length", "digits", "lf">> \in Seq(Kinds)
          /\ Len(<<"length", "digits", "lf">>) = 3
      BY DEF Kinds
    <3>2. \A k \in 1..3 : KindAt(<<"length", "digits", "lf">>[k], (Before + 5) + k, n)
      BY <1>0, <2>1 DEF KindAt
    <3>3. Before + 5 \in Nat
      BY <1>0
    <3> QED  BY <2>1, <3>1, <3>2, <3>3, LineFits
  <2>2. CASE n = NoLength
    BY <2>2, FitsEmpty, LenProperties, EmptySeq
  <2> QED  BY <2>1, <2>2
<1>4. A4 \in Seq(Pieces) /\ Len(A4) = 2 /\ Fits(A4, HeaderEnd(n) - 2, r, n)
  <2>1. /\ <<"cr", "lf">> \in Seq(Kinds) /\ Len(<<"cr", "lf">>) = 2
    BY DEF Kinds
  <2>2. \A k \in 1..2 : KindAt(<<"cr", "lf">>[k], (HeaderEnd(n) - 2) + k, n)
    BY <1>0 DEF KindAt
  <2>3. HeaderEnd(n) - 2 \in Nat
    BY <1>0 DEF Before
  <2> QED  BY <2>1, <2>2, <2>3, LineFits
<1>5. A5 \in Seq(Pieces) /\ Fits(A5, HeaderEnd(n), r, n)
  <2>1. Piece("body", r) \in Pieces
    BY DEF Piece, Pieces, Kinds
  <2>2. A5 \in [1..BodyLen(n) -> Pieces]
    BY <2>1
  <2>3. A5 \in Seq(Pieces) /\ Len(A5) = BodyLen(n)
    BY <1>0, <2>2, LenProperties, SeqDef
  <2>4. \A i \in 1..BodyLen(n) : Stands(A5[i], HeaderEnd(n) + i, r, n)
    <3> TAKE i \in 1..BodyLen(n)
    <3>1. A5[i].kind = "body" /\ A5[i].of = r
      BY DEF Piece
    <3>2. /\ HeaderEnd(n) + i > HeaderEnd(n) /\ HeaderEnd(n) + i <= HeaderEnd(n) + BodyLen(n)
          /\ ~(HeaderEnd(n) + i <= 0)
      BY <1>0
    <3> QED  BY <3>1, <3>2 DEF Stands, KindAt
  <2> QED  BY <2>3, <2>4 DEF Fits
<1>6. Answer(r) = (((A1 \o A2) \o A3) \o A4) \o A5
  BY DEF Answer, BodyLen
<1> HIDE DEF A1, A2, A3, A4, A5, n
<1>7. /\ A1 \o A2 \in Seq(Pieces) /\ Len(A1 \o A2) = Before + 5 /\ Fits(A1 \o A2, 0, r, n)
  <2>1. Before \in Nat
    BY <1>0
  <2>2. /\ A1 \o A2 \in Seq(Pieces) /\ Len(A1 \o A2) = Before + Len(A2)
        /\ Fits(A1 \o A2, 0, r, n)
    BY <2>1, <1>1, <1>2, Join
  <2> QED  BY <2>2, <1>2
<1>8. /\ (A1 \o A2) \o A3 \in Seq(Pieces) /\ Len((A1 \o A2) \o A3) = HeaderEnd(n) - 2
      /\ Fits((A1 \o A2) \o A3, 0, r, n)
  <2>1. Before + 5 \in Nat
    BY <1>0
  <2>2. /\ (A1 \o A2) \o A3 \in Seq(Pieces) /\ Len((A1 \o A2) \o A3) = (Before + 5) + Len(A3)
        /\ Fits((A1 \o A2) \o A3, 0, r, n)
    BY <2>1, <1>3, <1>7, Join
  <2>3. (Before + 5) + Len(A3) = HeaderEnd(n) - 2
    BY <1>0, <1>3
  <2> QED  BY <2>2, <2>3
<1>9. /\ ((A1 \o A2) \o A3) \o A4 \in Seq(Pieces) /\ Len(((A1 \o A2) \o A3) \o A4) = HeaderEnd(n)
      /\ Fits(((A1 \o A2) \o A3) \o A4, 0, r, n)
  <2>1. HeaderEnd(n) - 2 \in Nat
    BY <1>0
  <2>2. /\ ((A1 \o A2) \o A3) \o A4 \in Seq(Pieces)
        /\ Len(((A1 \o A2) \o A3) \o A4) = (HeaderEnd(n) - 2) + Len(A4)
        /\ Fits(((A1 \o A2) \o A3) \o A4, 0, r, n)
    BY <2>1, <1>4, <1>8, Join
  <2>3. (HeaderEnd(n) - 2) + Len(A4) = HeaderEnd(n)
    BY <1>0, <1>4
  <2> QED  BY <2>2, <2>3
<1>10. Answer(r) \in Seq(Pieces) /\ Fits(Answer(r), 0, r, n)
  <2>1. HeaderEnd(n) \in Nat
    BY <1>0
  <2> DEFINE A == ((A1 \o A2) \o A3) \o A4
  <2>2. A \in Seq(Pieces) /\ Len(A) = HeaderEnd(n) /\ Fits(A, 0, r, n)
    BY <1>9
  <2> HIDE DEF A
  <2>3. A \o A5 \in Seq(Pieces) /\ Fits(A \o A5, 0, r, n)
    BY <2>1, <2>2, <1>5, Join
  <2> QED  BY <2>3, <1>6 DEF A
<1> QED  BY <1>10 DEF n

-----------------------------------------------------------------------------
(* The inductive invariant                                                 *)

Sending == iState \in NotSent

\* The client has read d pieces of the answer to the last request, or there are -d
\* pieces of an earlier one in front of it.
Stream(d) ==
  /\ Fits(rx, d, request, length[request])
  /\ Fits(wire, d + Len(rx), request, length[request])

\* What it makes of them.
ReadingStatus(d) ==
  /\ iState = "ReadingStatusCode" => ~coded /\ (d = Before + 1 \/ (Informational /\ d = 1))
  /\ iState = "StatusCodeRead" /\ ~coded =>
       IF iStatusCode < 200 THEN Informational /\ d = 2 ELSE d = Before + 2

ReadingHeader(d, n) ==
  /\ iState = "StatusCodeRead" /\ coded =>
       d = Before + 3 \/ d = Before + 5 \/ d = HeaderEnd(n) - 2
  /\ iState = "SkipToEndOfHeader" => d = Before + 4
  /\ iState = "ReadingContentLength" => n # NoLength /\ (d = Before + 6 \/ d = Before + 7)
  /\ iState = "LineStartingCRFound" => d = HeaderEnd(n) - 1
  /\ iState = "ReadingBody" => d >= HeaderEnd(n)

Reading(d) == ReadingStatus(d) /\ ReadingHeader(d, length[request])

StreamInv == ~Sending => \E d \in Int : Stream(d) /\ Reading(d)

\* A request is only sent on a connection on which no earlier answer can come: at most
\* the rest of a body.
SendingInv ==
  Sending => /\ ~coded /\ pc = "program" /\ asked = <<>> /\ AllBody(rx) /\ AllBody(wire)
             /\ due \/ iConnectionClose \/ (~open /\ rx = <<>>)

DueInv == due => iState = "RequestStarted" /\ rx = <<>> /\ wire = <<>>

ClosedInv == ~open => wire = <<>> /\ asked = <<>>

RequestInv == request = 0 => ~open /\ rx = <<>>

AskedInv ==
  asked # <<>> => asked = <<request>> /\ iState = "RequestSent" /\ AllBody(rx) /\ AllBody(wire)

InHeaders == {"SkipToEndOfHeader", "ReadingContentLength", "LineStartingCRFound"}

CallInv ==
  /\ coded => iState \in InHeaders \cup {"StatusCodeRead", "ReadingBody"}
  /\ iState \in InHeaders \cup {"ReadingBody"} => coded
  /\ pc = "responseStatusCode" =>
       ~coded /\ iState \in {"RequestSent", "ReadingStatusCode", "StatusCodeRead"}
  /\ pc = "skipResponseHeaders" => coded /\ iState # "ReadingBody"

\* What holds as long as no request was begun in the middle of another exchange, ...
InStep ==
  ~foreign /\ StreamInv /\ SendingInv /\ DueInv /\ ClosedInv /\ RequestInv /\ AskedInv /\ CallInv

\* ... and what always does.
TypeInv == TypeOK /\ (due => request # 0)

HttpInv == TypeInv /\ InStep

LEMMA AllBodyEmpty == AllBody(<<>>)
  BY EmptySeq, LenProperties DEF AllBody

LEMMA InitInv == Init => HttpInv
<1> SUFFICES ASSUME Init PROVE HttpInv
  OBVIOUS
<1>1. TypeInv
  <2>1. 0 \in 0..MaxRequests
    BY HttpAssumption
  <2>2. iState \in States /\ iStatusCode \in {0, 100, 200}
    BY DEF Init, States
  <2>3. rx \in Seq(Pieces) /\ wire \in Seq(Pieces) /\ asked \in Seq(Requests)
    BY EmptySeq DEF Init
  <2> QED  BY <2>1, <2>2, <2>3 DEF Init, TypeInv, TypeOK
<1> QED
  BY <1>1, AllBodyEmpty DEF Init, HttpInv, InStep, StreamInv, SendingInv, DueInv, ClosedInv,
    RequestInv, AskedInv, CallInv, Sending, NotSent, InHeaders

\* What a step that moves no piece and changes no reading keeps.
LEMMA StutterInv == HttpInv /\ UNCHANGED vars => InStep'
<1> SUFFICES ASSUME HttpInv, UNCHANGED vars PROVE InStep'
  OBVIOUS
<1> USE DEF vars, http, config, network, history
<1>1. ~foreign'
  BY DEF HttpInv, TypeInv, TypeOK, InStep
<1>2. StreamInv'
  BY DEF HttpInv, InStep, StreamInv, Sending, NotSent, Stream, Reading, ReadingStatus,
    ReadingHeader
<1>3. SendingInv' /\ DueInv' /\ ClosedInv' /\ RequestInv' /\ AskedInv' /\ CallInv'
  BY DEF HttpInv, InStep, SendingInv, DueInv, ClosedInv, RequestInv, AskedInv, CallInv,
    Sending, NotSent
<1> QED  BY <1>1, <1>2, <1>3 DEF InStep

LEMMA RequestLength ==
  ASSUME TypeInv, request # 0
  PROVE  /\ request \in Requests /\ length[request] \in AnswerLengths
         /\ length[request] \in Nat \/ length[request] = NoLength
<1>1. request \in Requests
  BY HttpAssumption DEF TypeInv, TypeOK, Requests
<1>2. length[request] \in AnswerLengths
  BY <1>1 DEF TypeInv, TypeOK, AnswerLengths
<1> QED  BY <1>1, <1>2, HttpAssumption DEF AnswerLengths

-----------------------------------------------------------------------------
(* The server and the stream                                               *)

LEMMA ServerAnswersInv ==
  ASSUME HttpInv, ServerAnswers
  PROVE  InStep'
<1> USE DEF http, config, network, history
<1>1. asked = <<request>> /\ iState = "RequestSent" /\ AllBody(rx) /\ AllBody(wire)
  BY DEF ServerAnswers, HttpInv, InStep, AskedInv
<1>2. rx \in Seq(Pieces) /\ wire \in Seq(Pieces) /\ Len(rx) \in Nat /\ Len(wire) \in Nat
  BY LenProperties DEF HttpInv, TypeInv, TypeOK, InStep
<1>3. request # 0 /\ ~coded
  BY <1>1 DEF ServerAnswers, HttpInv, InStep, RequestInv, CallInv, InHeaders
<1>4. Answer(request) \in Seq(Pieces) /\ Fits(Answer(request), 0, request, length[request])
  BY <1>3, RequestLength, AnswerFits DEF HttpInv, TypeInv, TypeOK, InStep, AnswerLengths
<1>5. wire' = wire \o Answer(request) /\ asked' = <<>>
  BY <1>1, HeadTailProperties DEF ServerAnswers
<1>6. wire' \in Seq(Pieces)
  BY <1>2, <1>4, <1>5, ConcatProperties
<1>7. PICK d \in Int : (d + Len(rx)) + Len(wire) = 0
  <2>1. -(Len(rx) + Len(wire)) \in Int /\ (-(Len(rx) + Len(wire)) + Len(rx)) + Len(wire) = 0
    BY <1>2
  <2> QED  BY <2>1
<1>8. Fits(rx, d, request, length[request])
  <2>1. d + Len(rx) <= 0
    BY <1>2, <1>7
  <2> QED  BY <1>1, <1>2, <2>1, FitsBody
<1>9. Fits(wire', d + Len(rx), request, length[request])
  <2>1. d + Len(rx) \in Int
    BY <1>2, <1>7
  <2>2. Fits(wire, d + Len(rx), request, length[request])
    BY <1>1, <1>2, <1>7, <2>1, FitsBody
  <2> QED  BY <1>2, <1>4, <1>5, <1>7, <2>1, <2>2, FitsConcat
<1>10. (Stream(d) /\ Reading(d))'
  <2>1. Stream(d)'
    BY <1>8, <1>9 DEF ServerAnswers, Stream
  <2>2. d <= 0
    BY <1>2, <1>7
  <2>3. Reading(d)'
    BY <1>1, <1>3, <2>2 DEF ServerAnswers, Reading, ReadingStatus, ReadingHeader, Before
  <2> QED  BY <2>1, <2>3
<1>11. StreamInv'
  BY <1>3, <1>7, <1>10 DEF StreamInv, ServerAnswers
<1>12. ~foreign'
  BY <1>5, <1>6, EmptySeq DEF HttpInv, TypeInv, TypeOK, InStep, ServerAnswers
<1>13. SendingInv' /\ DueInv' /\ ClosedInv' /\ RequestInv' /\ AskedInv' /\ CallInv'
  BY <1>1, <1>5 DEF ServerAnswers, HttpInv, InStep, SendingInv, DueInv, ClosedInv, RequestInv,
    AskedInv, CallInv, Sending, NotSent
<1> QED  BY <1>11, <1>12, <1>13 DEF InStep

LEMMA ArrivesInv ==
  ASSUME HttpInv, Arrives
  PROVE  InStep'
<1> USE DEF http, config, network, history
<1>1. /\ rx \in Seq(Pieces) /\ wire \in Seq(Pieces) /\ Len(rx) \in Nat /\ wire # <<>>
      /\ rx' = Append(rx, Head(wire)) /\ wire' = Tail(wire)
  BY LenProperties DEF HttpInv, TypeInv, TypeOK, InStep, Arrives
<1>2. /\ Head(wire) \in Pieces /\ Head(wire) = wire[1] /\ Len(wire) \in Nat \ {0}
      /\ Tail(wire) \in Seq(Pieces) /\ Len(Tail(wire)) = Len(wire) - 1
      /\ \A i \in 1..Len(Tail(wire)) : Tail(wire)[i] = wire[i + 1]
  BY <1>1, HeadTailProperties, ElementOfSeq, LenProperties, EmptySeq
<1>3. /\ rx' \in Seq(Pieces) /\ Len(rx') = Len(rx) + 1
      /\ \A i \in 1..Len(rx) : rx'[i] = rx[i]
      /\ rx'[Len(rx) + 1] = Head(wire)
  BY <1>1, <1>2, AppendProperties
<1>4. open /\ ~due
  BY <1>1 DEF HttpInv, InStep, ClosedInv, RequestInv, DueInv
<1>5. StreamInv'
  <2> SUFFICES ASSUME ~Sending PROVE StreamInv'
    BY DEF Arrives, StreamInv, Sending, NotSent
  <2>1. PICK d \in Int : Stream(d) /\ Reading(d)
    BY DEF HttpInv, InStep, StreamInv
  <2>2. /\ Fits(rx, d, request, length[request])
        /\ Fits(wire, d + Len(rx), request, length[request])
    BY <2>1 DEF Stream
  <2>3. d + Len(rx) \in Int /\ (d + Len(rx)) + 1 = d + (Len(rx) + 1)
    BY <1>1
  <2>4. /\ Stands(Head(wire), (d + Len(rx)) + 1, request, length[request])
        /\ Fits(Tail(wire), (d + Len(rx)) + 1, request, length[request])
    BY <1>1, <2>2, <2>3, FitsTail
  <2>5. Fits(Append(rx, Head(wire)), d, request, length[request])
    BY <1>1, <1>2, <2>2, <2>4, FitsAppend
  <2>6. Stream(d)'
    BY <1>1, <1>3, <2>3, <2>4, <2>5 DEF Arrives, Stream
  <2>7. Reading(d)'
    BY <2>1 DEF Arrives, Reading, ReadingStatus, ReadingHeader
  <2> QED  BY <2>6, <2>7 DEF HttpInv, InStep, Arrives, StreamInv
<1>6. AllBody(rx) /\ AllBody(wire) => AllBody(rx') /\ AllBody(wire')
  <2> SUFFICES ASSUME AllBody(rx), AllBody(wire) PROVE AllBody(rx') /\ AllBody(wire')
    OBVIOUS
  <2>1. AllBody(wire')
    BY <1>1, <1>2 DEF AllBody
  <2>2. wire[1].kind = "body"
    BY <1>2 DEF AllBody
  <2>3. \A i \in 1..(Len(rx) + 1) : rx'[i].kind = "body"
    BY <1>1, <1>2, <1>3, <2>2 DEF AllBody
  <2> QED  BY <1>3, <2>1, <2>3 DEF AllBody
<1>7. ~foreign'
  BY <1>1, <1>2, <1>3 DEF Arrives, HttpInv, TypeInv, TypeOK, InStep
<1>8. SendingInv' /\ AskedInv'
  BY <1>4, <1>6 DEF Arrives, HttpInv, InStep, SendingInv, AskedInv, Sending, NotSent
<1>9. DueInv' /\ ClosedInv' /\ RequestInv' /\ CallInv'
  BY <1>4 DEF Arrives, HttpInv, InStep, DueInv, ClosedInv, RequestInv, CallInv
<1> QED  BY <1>5, <1>6, <1>7, <1>8, <1>9 DEF InStep

LEMMA ConnectionEndsInv ==
  ASSUME HttpInv, ConnectionEnds
  PROVE  InStep'
<1> USE DEF http, config, network, history
<1>1. ~foreign'
  BY EmptySeq DEF HttpInv, TypeInv, TypeOK, InStep, ConnectionEnds
<1>2. StreamInv'
  <2> SUFFICES ASSUME ~Sending PROVE StreamInv'
    BY DEF ConnectionEnds, StreamInv, Sending, NotSent
  <2>1. PICK d \in Int : Stream(d) /\ Reading(d)
    BY DEF HttpInv, InStep, StreamInv
  <2>2. Stream(d)'
    BY <2>1, FitsEmpty DEF Stream, ConnectionEnds
  <2>3. Reading(d)'
    BY <2>1 DEF ConnectionEnds, Reading, ReadingStatus, ReadingHeader
  <2> QED  BY <2>2, <2>3 DEF HttpInv, InStep, ConnectionEnds, StreamInv
<1>3. SendingInv' /\ DueInv' /\ ClosedInv' /\ RequestInv' /\ AskedInv' /\ CallInv'
  BY AllBodyEmpty DEF ConnectionEnds, HttpInv, InStep, SendingInv, DueInv, ClosedInv, RequestInv,
    AskedInv, CallInv, Sending, NotSent
<1> QED  BY <1>1, <1>2, <1>3 DEF InStep

-----------------------------------------------------------------------------
(* Sending a request                                                       *)

LEMMA stopInv ==
  ASSUME stop
  PROVE  InStep'
<1>1. stop /\ resetState
  BY DEF stop
<1> QED
  BY <1>1, AllBodyEmpty DEF stop, resetState, InStep, StreamInv, SendingInv, DueInv, ClosedInv,
    RequestInv, AskedInv, CallInv, Sending, NotSent, InHeaders

LEMMA beginRequestInv ==
  ASSUME HttpInv, beginRequest, ~again'
  PROVE  InStep'
<1> USE DEF http, config, network, history, beginRequest
<1>1. Sending /\ Sending'
  BY DEF Sending, NotSent
<1>2. ~foreign' /\ StreamInv' /\ SendingInv' /\ DueInv' /\ AskedInv' /\ CallInv'
  BY <1>1 DEF HttpInv, InStep, StreamInv, SendingInv, DueInv, AskedInv, CallInv, InHeaders
<1>3. ClosedInv' /\ RequestInv'
  BY DEF HttpInv, InStep, ClosedInv, RequestInv
<1> QED  BY <1>2, <1>3 DEF InStep

\* What is still to come when the headers of the last answer were read is body.
LEMMA BodyUnderWay ==
  ASSUME HttpInv, endOfHeadersReached
  PROVE  AllBody(wire)
<1>1. PICK d \in Int : Stream(d) /\ Reading(d)
  BY DEF HttpInv, InStep, StreamInv, Sending, NotSent, endOfHeadersReached
<1>2. wire \in Seq(Pieces) /\ Len(rx) \in Nat
  BY LenProperties DEF HttpInv, TypeInv, TypeOK
<1>3. d + Len(rx) \in Int /\ d + Len(rx) >= HeaderEnd(length[request])
  BY <1>1, <1>2 DEF Reading, ReadingHeader, endOfHeadersReached, HeaderEnd, Before
<1>4. Fits(wire, d + Len(rx), request, length[request])
  BY <1>1 DEF Stream
<1> QED  BY <1>2, <1>3, <1>4, BodyBehind

LEMMA ConnectionFailsInv ==
  ASSUME HttpInv, ConnectionFails
  PROVE  InStep'
<1> USE DEF http, config, network, history
<1>1. /\ pc = "program" /\ ~coded' /\ Sending' /\ asked = <<>> /\ rx' = Flushed
      /\ (due => iState' = iState)
  BY DEF ConnectionFails, MayStart, endOfHeadersReached, HttpInv, InStep, Sending, NotSent,
    SendingInv, AskedInv, DueInv
<1>2. iConnectionClose \/ (~open /\ rx' = <<>>)
  BY <1>1 DEF ConnectionFails, Connect
<1>3. AllBody(rx') /\ AllBody(wire') /\ (due => rx' = <<>>)
  <2>1. CASE endOfHeadersReached
    BY <1>1, <2>1, BodyUnderWay, AllBodyEmpty DEF ConnectionFails, Flushed
  <2>2. CASE ~endOfHeadersReached
    BY <1>1, <2>2 DEF ConnectionFails, Flushed, MayStart, endOfHeadersReached, HttpInv, InStep,
      SendingInv, DueInv, Sending, NotSent
  <2> QED  BY <2>1, <2>2
<1>4. ~foreign' /\ StreamInv' /\ SendingInv' /\ ClosedInv' /\ AskedInv' /\ DueInv' /\ CallInv'
  BY <1>1, <1>2, <1>3 DEF ConnectionFails, HttpInv, InStep, StreamInv, SendingInv, DueInv,
    ClosedInv, AskedInv, CallInv, InHeaders, Sending, NotSent
<1>5. RequestInv'
  BY <1>1 DEF ConnectionFails, HttpInv, InStep, RequestInv, Flushed
<1> QED  BY <1>4, <1>5 DEF InStep

\* What a connection that is kept for a request still carries is the rest of a body.
LEMMA KeptConnection ==
  ASSUME HttpInv, MayStart, ~Connect
  PROVE  /\ Flushed = <<>> /\ AllBody(wire)
         /\ iState = "RequestStarted" => wire = <<>>
<1>1. CASE endOfHeadersReached
  BY <1>1, BodyUnderWay DEF Flushed, endOfHeadersReached
<1>2. CASE ~endOfHeadersReached
  <2>1. due /\ rx = <<>> /\ wire = <<>>
    BY <1>2 DEF MayStart, Connect, Flushed, endOfHeadersReached, HttpInv, InStep, SendingInv,
      DueInv, Sending, NotSent
  <2> QED  BY <1>2, <2>1, AllBodyEmpty DEF Flushed
<1> QED  BY <1>1, <1>2

\* A new connection makes everything good again.
LEMMA startRequestInv ==
  ASSUME TypeInv, NEW hasBody \in BOOLEAN, startRequest(hasBody), Connect \/ InStep
  PROVE  InStep'
<1> USE DEF http, config, network, history
<1>1. /\ pc = "program" /\ MayStart /\ ~coded' /\ ~foreign' /\ pc' = pc
      /\ iState' = IF Finished(hasBody) THEN "RequestSent" ELSE "RequestStarted"
      /\ due' = ~Finished(hasBody) /\ request' = request + 1 /\ length' = length
      /\ request' \in Requests /\ request' # 0
  BY HttpAssumption DEF startRequest, TypeInv, TypeOK, Requests
<1>2. /\ AllBody(wire') /\ wire' \in Seq(Pieces) /\ rx' = <<>> /\ (~open' => wire' = <<>>)
      /\ iState = "RequestStarted" => wire' = <<>>
  <2>1. CASE Connect
    <3>1. rx' = <<>> /\ wire' = <<>>
      BY <2>1 DEF startRequest
    <3> QED  BY <3>1, AllBodyEmpty, EmptySeq
  <2>2. CASE ~Connect
    <3>1. rx' = Flushed /\ open' = open /\ wire' = wire
      BY <2>2 DEF startRequest
    <3>2. HttpInv
      BY <2>2 DEF HttpInv
    <3>3. Flushed = <<>> /\ AllBody(wire) /\ (iState = "RequestStarted" => wire = <<>>)
      BY <1>1, <2>2, <3>2, KeptConnection
    <3> QED  BY <3>1, <3>2, <3>3 DEF HttpInv, InStep, TypeInv, TypeOK, ClosedInv
  <2> QED  BY <2>1, <2>2
<1>3. (IF Connect THEN <<>> ELSE asked) = <<>>
  <2> SUFFICES ASSUME ~Connect, InStep PROVE asked = <<>>
    OBVIOUS
  <2> QED  BY <1>1 DEF InStep, MayStart, SendingInv, AskedInv, Sending, NotSent
<1>4. asked' = IF open' /\ Finished(hasBody) THEN <<request'>> ELSE <<>>
  <2>1. asked' = (IF Connect THEN <<>> ELSE asked)
                   \o (IF open' /\ Finished(hasBody) THEN <<request'>> ELSE <<>>)
    BY DEF startRequest
  <2>2. \A s \in Seq(Requests) : <<>> \o s = s
    BY ConcatEmptySeq
  <2>3. (IF open' /\ Finished(hasBody) THEN <<request'>> ELSE <<>>) \in Seq(Requests)
    BY <1>1, EmptySeq
  <2> QED  BY <1>3, <2>1, <2>2, <2>3
<1>5. StreamInv'
  <2>1. CASE Finished(hasBody)
    <3>1. Len(wire') \in Nat /\ Len(rx') = 0
      BY <1>2, LenProperties, EmptySeq
    <3>2. PICK d \in Int : d + Len(wire') = 0
      <4>1. -Len(wire') \in Int /\ -Len(wire') + Len(wire') = 0
        BY <3>1
      <4> QED  BY <4>1
    <3>3. d + Len(rx') = d /\ d + Len(wire') <= 0
      BY <3>1, <3>2
    <3>4. Fits(wire', d, request', length'[request'])
      BY <1>2, <3>3, FitsBody
    <3>5. Stream(d)'
      BY <1>2, <3>3, <3>4, FitsEmpty DEF Stream
    <3>6. Reading(d)'
      BY <1>1, <2>1 DEF Reading, ReadingStatus, ReadingHeader
    <3> QED  BY <3>5, <3>6 DEF StreamInv
  <2>2. CASE ~Finished(hasBody)
    BY <1>1, <2>2 DEF StreamInv, Sending, NotSent
  <2> QED  BY <2>1, <2>2
<1>6. DueInv'
  BY <1>1, <1>2 DEF DueInv, Finished
<1>7. AllBody(rx')
  BY <1>2, AllBodyEmpty
<1>8. SendingInv' /\ CallInv'
  BY <1>1, <1>2, <1>4, <1>7 DEF SendingInv, CallInv, Sending, NotSent, InHeaders
<1>9. ClosedInv' /\ RequestInv' /\ AskedInv'
  BY <1>1, <1>2, <1>4, <1>7 DEF ClosedInv, RequestInv, AskedInv
<1> QED  BY <1>1, <1>5, <1>6, <1>8, <1>9 DEF InStep

LEMMA endRequestInv ==
  ASSUME HttpInv, endRequest
  PROVE  InStep'
<1> USE DEF http, config, network, history
<1>1. /\ pc = "program" /\ AllBody(rx) /\ AllBody(wire) /\ ~coded /\ asked = <<>>
      /\ iState' = "RequestSent" /\ ~due' /\ rx' = rx /\ wire' = wire /\ coded' = coded
      /\ request' = request /\ length' = length /\ open' = open /\ pc' = pc /\ foreign' = foreign
  BY DEF endRequest, HttpInv, InStep, SendingInv, Sending
<1>2. asked' = IF open /\ due THEN <<request>> ELSE <<>>
  BY <1>1 DEF endRequest
<1>3. StreamInv'
  <2>1. rx \in Seq(Pieces) /\ wire \in Seq(Pieces) /\ Len(rx) \in Nat /\ Len(wire) \in Nat
    BY LenProperties DEF HttpInv, TypeInv, TypeOK
  <2>2. PICK d \in Int : (d + Len(rx)) + Len(wire) = 0
    <3>1. -(Len(rx) + Len(wire)) \in Int /\ (-(Len(rx) + Len(wire)) + Len(rx)) + Len(wire) = 0
      BY <2>1
    <3> QED  BY <3>1
  <2>3. /\ d + Len(rx) \in Int /\ d + Len(rx) <= 0
        /\ (d + Len(rx)) + Len(wire) <= 0
    BY <2>1, <2>2
  <2>4. Fits(rx, d, request, length[request])
    BY <1>1, <2>1, <2>3, FitsBody
  <2>5. Fits(wire, d + Len(rx), request, length[request])
    BY <1>1, <2>1, <2>3, FitsBody
  <2>6. Stream(d)'
    BY <1>1, <2>4, <2>5 DEF Stream
  <2>7. Reading(d)'
    BY <1>1 DEF Reading, ReadingStatus, ReadingHeader
  <2> QED  BY <2>6, <2>7 DEF StreamInv
<1>4. ~foreign' /\ SendingInv' /\ DueInv' /\ CallInv'
  BY <1>1 DEF HttpInv, InStep, SendingInv, DueInv, CallInv, Sending, NotSent, InHeaders
<1>5. ClosedInv' /\ RequestInv' /\ AskedInv'
  BY <1>1, <1>2 DEF HttpInv, InStep, ClosedInv, RequestInv, AskedInv
<1> QED  BY <1>3, <1>4, <1>5 DEF InStep

-----------------------------------------------------------------------------
(* Reading the answer                                                      *)

LEMMA responseStatusCodeInv ==
  ASSUME HttpInv, responseStatusCode
  PROVE  InStep'
<1> USE DEF http, config, network, history
<1>1. ~foreign'
  BY DEF responseStatusCode, HttpInv, TypeInv, TypeOK, InStep, States
<1>2. ~Sending /\ ~Sending' /\ ~coded'
  BY DEF responseStatusCode, Sending, NotSent
<1>3. StreamInv'
  <2>1. PICK d \in Int : Stream(d) /\ Reading(d)
    BY <1>2 DEF HttpInv, InStep, StreamInv
  <2>2. Stream(d)'
    BY <2>1 DEF responseStatusCode, Stream
  <2>3. Reading(d)'
    BY <1>2, <2>1 DEF responseStatusCode, Reading, ReadingStatus, ReadingHeader
  <2> QED  BY <1>2, <2>2, <2>3 DEF responseStatusCode, HttpInv, InStep, StreamInv
<1>4. SendingInv' /\ DueInv' /\ ClosedInv' /\ RequestInv' /\ AskedInv' /\ CallInv'
  BY <1>2 DEF responseStatusCode, HttpInv, InStep, SendingInv, DueInv, ClosedInv, RequestInv,
    AskedInv, CallInv,
    Sending, NotSent, InHeaders
<1> QED  BY <1>1, <1>3, <1>4 DEF InStep

LEMMA StatusTimeoutInv ==
  ASSUME HttpInv, StatusTimeout
  PROVE  InStep'
<1> USE DEF http, config, network, history
<1>1. ~foreign'
  BY DEF StatusTimeout, HttpInv, TypeInv, TypeOK, InStep, States
<1>2. ~Sending /\ ~Sending' /\ ~coded /\ ~coded' /\ (iState' = iState \/ iState' = "RequestSent")
  BY DEF StatusTimeout, HttpInv, InStep, CallInv, Sending, NotSent
<1>3. StreamInv'
  <2>1. PICK d \in Int : Stream(d) /\ Reading(d)
    BY <1>2 DEF HttpInv, InStep, StreamInv
  <2>2. Stream(d)'
    BY <2>1 DEF StatusTimeout, Stream
  <2>3. Reading(d)'
    BY <1>2, <2>1 DEF StatusTimeout, Reading, ReadingStatus, ReadingHeader
  <2> QED  BY <1>2, <2>2, <2>3 DEF StatusTimeout, HttpInv, InStep, StreamInv
<1>4. SendingInv' /\ DueInv' /\ ClosedInv' /\ RequestInv' /\ AskedInv' /\ CallInv'
  BY <1>2 DEF StatusTimeout, HttpInv, InStep, SendingInv, DueInv, ClosedInv, RequestInv,
    AskedInv, CallInv,
    Sending, NotSent, InHeaders
<1> QED  BY <1>1, <1>3, <1>4 DEF InStep

LEMMA skipResponseHeadersInv ==
  ASSUME HttpInv, skipResponseHeaders
  PROVE  InStep'
<1> USE DEF http, config, network, history
<1>1. ~foreign'
  BY DEF skipResponseHeaders, HttpInv, TypeInv, TypeOK, InStep
<1>2. StreamInv'
  BY DEF skipResponseHeaders, HttpInv, InStep, StreamInv, Sending, NotSent, Stream, Reading,
    ReadingStatus,
    ReadingHeader
<1>3. SendingInv' /\ DueInv' /\ ClosedInv' /\ RequestInv' /\ AskedInv' /\ CallInv'
  BY DEF skipResponseHeaders, endOfHeadersReached, HttpInv, InStep, SendingInv, DueInv,
    ClosedInv, RequestInv, AskedInv,
    CallInv, Sending, NotSent, InHeaders
<1> QED  BY <1>1, <1>2, <1>3 DEF InStep

LEMMA HeaderTimeoutInv ==
  ASSUME HttpInv, HeaderTimeout
  PROVE  InStep'
<1> USE DEF http, config, network, history
<1>1. ~foreign'
  BY DEF HeaderTimeout, HttpInv, TypeInv, TypeOK, InStep
<1>2. StreamInv'
  BY DEF HeaderTimeout, HttpInv, InStep, StreamInv, Sending, NotSent, Stream, Reading,
    ReadingStatus,
    ReadingHeader
<1>3. SendingInv' /\ DueInv' /\ ClosedInv' /\ RequestInv' /\ AskedInv' /\ CallInv'
  BY DEF HeaderTimeout, HttpInv, InStep, SendingInv, DueInv, ClosedInv, RequestInv, AskedInv,
    CallInv, Sending, NotSent, InHeaders
<1> QED  BY <1>1, <1>2, <1>3 DEF InStep

\* A piece that the client reads stands at place d + 1, and it is ready for the next.
LEMMA NextPiece ==
  ASSUME HttpInv, ~Sending, rx # <<>>
  PROVE  /\ request # 0 /\ Tail(rx) \in Seq(Pieces) /\ Head(rx) \in Pieces
         /\ length[request] \in Nat \/ length[request] = NoLength
         /\ \E d \in Int :
              /\ Reading(d)
              /\ Stands(Head(rx), d + 1, request, length[request])
              /\ Fits(Tail(rx), d + 1, request, length[request])
              /\ Fits(wire, (d + 1) + Len(Tail(rx)), request, length[request])
<1>1. PICK d \in Int : Stream(d) /\ Reading(d)
  BY DEF HttpInv, InStep, StreamInv
<1>2. rx \in Seq(Pieces) /\ request # 0 /\ Len(rx) \in Nat /\ TypeInv
  BY LenProperties DEF HttpInv, TypeInv, TypeOK, InStep, RequestInv
<1>3. Fits(rx, d, request, length[request]) /\ Fits(wire, d + Len(rx), request, length[request])
  BY <1>1 DEF Stream
<1>4. /\ Head(rx) \in Pieces /\ Tail(rx) \in Seq(Pieces) /\ Len(Tail(rx)) = Len(rx) - 1
      /\ Stands(Head(rx), d + 1, request, length[request])
      /\ Fits(Tail(rx), d + 1, request, length[request])
  BY <1>2, <1>3, FitsTail
<1>5. (d + 1) + Len(Tail(rx)) = d + Len(rx)
  BY <1>2, <1>4
<1> QED  BY <1>1, <1>2, <1>3, <1>4, <1>5, RequestLength

LEMMA TailBody ==
  ASSUME NEW s \in Seq(Pieces), s # <<>>, AllBody(s)
  PROVE  AllBody(Tail(s)) /\ Head(s).kind = "body"
<1>1. /\ Len(s) \in Nat \ {0} /\ Head(s) = s[1] /\ Len(Tail(s)) = Len(s) - 1
      /\ \A i \in 1..Len(Tail(s)) : Tail(s)[i] = s[i + 1]
  BY HeadTailProperties, LenProperties, EmptySeq
<1>2. \A i \in 1..Len(Tail(s)) : i + 1 \in 1..Len(s)
  BY <1>1
<1> QED  BY <1>1, <1>2 DEF AllBody

LEMMA StatusCharacterInv ==
  ASSUME HttpInv, StatusCharacter
  PROVE  InStep'
<1> USE DEF http, config, network, history
<1>0. PICK c, n : c = Head(rx) /\ n = length[request]
  OBVIOUS
<1>1. /\ ~coded /\ ~Sending /\ rx # <<>> /\ rx' = Tail(rx) /\ pc = "responseStatusCode"
      /\ wire' = wire /\ request' = request /\ length' = length /\ taken' = taken
      /\ iBodyLengthConsumed' = iBodyLengthConsumed /\ asked' = asked /\ open' = open
           /\ due' = due
  BY DEF StatusCharacter, HttpInv, InStep, CallInv, Sending, NotSent
<1>2. /\ request # 0 /\ Tail(rx) \in Seq(Pieces) /\ c \in Pieces
      /\ n \in Nat \/ n = NoLength
  BY <1>0, <1>1, NextPiece
<1>3. PICK d \in Int : /\ Reading(d)
                       /\ Stands(c, d + 1, request, n)
                       /\ Fits(Tail(rx), d + 1, request, n)
                       /\ Fits(wire, (d + 1) + Len(Tail(rx)), request, n)
  BY <1>0, <1>1, NextPiece
<1>4. d + 1 \in Int /\ HeaderEnd(n) \in Nat /\ Before \in Nat /\ (Informational => Before = 5)
      /\ HeaderEnd(n) >= Before + 7
  BY DEF HeaderEnd, Before
<1>5. Stream(d + 1)'
  BY <1>0, <1>1, <1>3 DEF Stream
<1>7. asked # <<>> => iState = "RequestSent" /\ c.kind = "body"
  <2> SUFFICES ASSUME asked # <<>> PROVE iState = "RequestSent" /\ c.kind = "body"
    OBVIOUS
  <2>1. rx \in Seq(Pieces) /\ AllBody(rx) /\ iState = "RequestSent"
    BY DEF HttpInv, TypeInv, TypeOK, InStep, AskedInv
  <2> QED  BY <1>0, <1>1, <2>1, TailBody
<1>8. /\ ReadingStatus(d + 1)' /\ ReadingHeader(d + 1, n)'
      /\ ~foreign' /\ CallInv' /\ ~Sending'
      /\ iStatusCode' \in {0, 100, 200} /\ iState' \in States /\ coded' \in BOOLEAN
      /\ (asked # <<>> => iState' = "RequestSent")
  <2> USE DEF ReadingStatus, ReadingHeader, CallInv, Sending, NotSent, InHeaders, States
  <2>0. coded \in BOOLEAN /\ ~foreign /\ iStatusCode \in {0, 100, 200}
          /\ iState \in States /\ CallInv
    BY DEF HttpInv, TypeInv, TypeOK, InStep
  <2>1. CASE /\ iState = "RequestSent" /\ c.kind # "prefix" /\ pc' = "program"
             /\ UNCHANGED <<iState, iStatusCode, coded, foreign>>
    BY <1>1, <1>4, <2>0, <2>1
  <2>2. CASE /\ iState = "RequestSent" /\ c.kind = "prefix" /\ iState' = "ReadingStatusCode"
             /\ UNCHANGED <<iStatusCode, pc, coded, foreign>>
    <3>1. d + 1 = Before + 1 \/ (Informational /\ d + 1 = 1)
      BY <1>3, <1>4, <2>2 DEF Stands, KindAt
    <3> QED  BY <1>1, <1>4, <1>7, <2>0, <2>2, <3>1
  <2>3. CASE /\ iState = "ReadingStatusCode"
             /\ iState' = "StatusCodeRead" /\ iStatusCode' = Code(c.kind)
             /\ UNCHANGED <<pc, coded, foreign>>
    <3>1. d = Before + 1 \/ (Informational /\ d = 1)
      BY <1>0, <1>3, <2>3 DEF Reading
    <3>2. (d = Before + 1 /\ c.kind = "code") \/ (Informational /\ d = 1 /\ c.kind = "continue")
      BY <1>3, <1>4, <3>1 DEF Stands, KindAt
    <3>3. (iStatusCode' = 200 /\ d + 1 = Before + 2) \/ (iStatusCode' = 100
            /\ Informational /\ d + 1 = 2)
      BY <1>4, <2>3, <3>2 DEF Code
    <3> QED  BY <1>1, <1>4, <1>7, <2>0, <2>3, <3>3
  <2>4. CASE /\ ReadInformational /\ c.kind = "lf"
             /\ iState' = "RequestSent" /\ iStatusCode' = 0
             /\ UNCHANGED <<pc, coded, foreign>>
    BY <1>1, <1>4, <2>0, <2>4
  <2>5. CASE /\ iState = "StatusCodeRead" /\ ~ReadInformational /\ c.kind = "lf"
             /\ pc' = "program" /\ coded' = TRUE /\ foreign' = (foreign \/ NotOwn(c))
             /\ UNCHANGED <<iState, iStatusCode>>
    <3>1. d = Before + 2
      BY <1>0, <1>1, <1>3, <2>5 DEF Reading, ReadInformational
    <3>2. c.of = request
      BY <1>3, <1>4, <3>1 DEF Stands
    <3> QED  BY <1>1, <1>4, <1>7, <2>0, <2>5, <3>1, <3>2 DEF NotOwn
  <2> QED  BY <2>1, <2>2, <2>3, <2>4, <2>5, <1>0 DEF StatusCharacter
<1>9. StreamInv'
  BY <1>0, <1>1, <1>2, <1>4, <1>5, <1>8 DEF StreamInv, Reading
<1>10. AskedInv'
  <2> SUFFICES ASSUME asked # <<>> PROVE AllBody(Tail(rx))
    BY <1>1, <1>8 DEF HttpInv, InStep, AskedInv
  <2>1. rx \in Seq(Pieces) /\ AllBody(rx)
    BY DEF HttpInv, TypeInv, TypeOK, InStep, AskedInv
  <2> QED  BY <1>1, <2>1, TailBody
<1>11. SendingInv' /\ DueInv' /\ ClosedInv' /\ RequestInv'
  BY <1>1, <1>2, <1>8 DEF HttpInv, InStep, SendingInv, DueInv, ClosedInv, RequestInv
<1> QED  BY <1>8, <1>9, <1>10, <1>11 DEF InStep

LEMMA HeaderCharacterInv ==
  ASSUME HttpInv, HeaderCharacter
  PROVE  InStep'
<1> USE DEF http, config, network, history
<1>0. PICK c, n : c = Head(rx) /\ n = length[request]
  OBVIOUS
<1>1. /\ coded /\ ~Sending /\ rx # <<>> /\ rx' = Tail(rx) /\ pc = "skipResponseHeaders"
      /\ wire' = wire /\ request' = request /\ length' = length /\ coded' = coded
      /\ asked' = asked /\ open' = open /\ due' = due
      /\ iStatusCode' = iStatusCode
  <2>1. coded /\ pc = "skipResponseHeaders"
    BY DEF HeaderCharacter, HttpInv, InStep, CallInv
  <2>2. ~Sending
    BY <2>1 DEF HttpInv, InStep, CallInv, Sending, NotSent, InHeaders
  <2> QED  BY <2>1, <2>2 DEF HeaderCharacter
<1>2. /\ request # 0 /\ Tail(rx) \in Seq(Pieces) /\ c \in Pieces
      /\ n \in Nat \/ n = NoLength
  BY <1>0, <1>1, NextPiece
<1>3. PICK d \in Int : /\ Reading(d)
                       /\ Stands(c, d + 1, request, n)
                       /\ Fits(Tail(rx), d + 1, request, n)
                       /\ Fits(wire, (d + 1) + Len(Tail(rx)), request, n)
  BY <1>0, <1>1, NextPiece
<1>4. /\ d + 1 \in Int /\ Before \in Nat /\ (Informational => Before = 5)
      /\ (n = NoLength => HeaderEnd(n) = Before + 7) /\ (n # NoLength
           => HeaderEnd(n) = Before + 10)
  BY DEF HeaderEnd, Before
<1>5. Stream(d + 1)'
  BY <1>0, <1>1, <1>3 DEF Stream
<1>6. /\ iState \in InHeaders \cup {"StatusCodeRead"}
      /\ iState = "StatusCodeRead" => d = Before + 3 \/ d = Before + 5 \/ d = HeaderEnd(n) - 2
      /\ iState = "SkipToEndOfHeader" => d = Before + 4
      /\ iState = "ReadingContentLength" => n # NoLength /\ (d = Before + 6 \/ d = Before + 7)
      /\ iState = "LineStartingCRFound" => d = HeaderEnd(n) - 1
  BY <1>0, <1>1, <1>3 DEF HttpInv, InStep, CallInv, Reading, ReadingHeader, InHeaders
<1>7. d \in Nat /\ d < HeaderEnd(n) /\ c.of = request /\ KindAt(c.kind, d + 1, n)
  <2>1. d \in Nat /\ d < HeaderEnd(n)
    BY <1>3, <1>4, <1>6 DEF InHeaders
  <2> QED  BY <2>1, <1>3 DEF Stands
<1>8. asked = <<>> /\ ~foreign
  BY <1>1, <1>6, <1>7 DEF HttpInv, InStep, AskedInv, InHeaders
<1>9. iState' = AfterHeader(c.kind) /\ foreign' = (foreign \/ NotOwn(c) \/ c.kind = "body")
  BY <1>0 DEF HeaderCharacter
\* Where the client stands behind the piece, by what the piece was.
<1>10. \/ iState' = "SkipToEndOfHeader" /\ d + 1 = Before + 4 /\ c.kind = "other"
       \/ /\ iState' = "StatusCodeRead" /\ c.kind = "lf"
          /\ d + 1 = Before + 5 \/ d + 1 = HeaderEnd(n) - 2
       \/ iState' = "ReadingContentLength" /\ n # NoLength /\ d + 1 = Before + 6
            /\ c.kind = "length"
       \/ iState' = "ReadingContentLength" /\ n # NoLength /\ d + 1 = Before + 7
            /\ c.kind = "digits"
       \/ iState' = "LineStartingCRFound" /\ d + 1 = HeaderEnd(n) - 1 /\ c.kind = "cr"
       \/ iState' = "ReadingBody" /\ d + 1 = HeaderEnd(n) /\ c.kind = "lf"
  <2>1. CASE iState = "StatusCodeRead"
    <3>1. \/ d + 1 = Before + 4 /\ c.kind = "other"
          \/ d + 1 = Before + 6 /\ n # NoLength /\ c.kind = "length"
          \/ d + 1 = HeaderEnd(n) - 1 /\ c.kind = "cr"
      BY <1>4, <1>6, <1>7, <2>1 DEF KindAt
    <3> QED  BY <1>9, <2>1, <3>1 DEF AfterHeader, Within
  <2>2. CASE iState = "SkipToEndOfHeader"
    <3>1. d + 1 = Before + 5 /\ c.kind = "lf"
      BY <1>4, <1>6, <1>7, <2>2 DEF KindAt
    <3> QED  BY <1>9, <2>2, <3>1 DEF AfterHeader, Within
  <2>3. CASE iState = "ReadingContentLength"
    <3>1. n # NoLength /\ \/ d + 1 = Before + 7 /\ c.kind = "digits"
                          \/ d + 1 = HeaderEnd(n) - 2 /\ c.kind = "lf"
      BY <1>4, <1>6, <1>7, <2>3 DEF KindAt
    <3> QED  BY <1>9, <2>3, <3>1 DEF AfterHeader, Within
  <2>4. CASE iState = "LineStartingCRFound"
    <3>1. d + 1 = HeaderEnd(n) /\ c.kind = "lf"
      BY <1>4, <1>6, <1>7, <2>4 DEF KindAt
    <3> QED  BY <1>9, <2>4, <3>1 DEF AfterHeader, Within
  <2> QED  BY <1>6, <2>1, <2>2, <2>3, <2>4 DEF InHeaders
<1>11. Reading(d + 1)'
  <2>1. ReadingStatus(d + 1)'
    BY <1>1, <1>10 DEF ReadingStatus
  <2>2. ReadingHeader(d + 1, n)'
    BY <1>4, <1>10 DEF ReadingHeader
  <2> QED  BY <1>0, <1>1, <2>1, <2>2 DEF Reading
<1>12. StreamInv'
  BY <1>1, <1>2, <1>4, <1>5, <1>11 DEF StreamInv
<1>13. CallInv' /\ ~Sending' /\ iState' \in States /\ ~foreign'
  <2>1. pc' = IF iState' = "ReadingBody" THEN "program" ELSE pc
    BY DEF HeaderCharacter
  <2> QED  BY <1>1, <1>7, <1>8, <1>9, <1>10, <2>1 DEF CallInv, Sending, NotSent, InHeaders,
    States, NotOwn
<1>14. SendingInv' /\ DueInv' /\ ClosedInv' /\ RequestInv' /\ AskedInv'
  BY <1>1, <1>8, <1>13 DEF HttpInv, InStep, SendingInv, DueInv, ClosedInv, RequestInv, AskedInv
<1> QED  BY <1>12, <1>13, <1>14 DEF InStep

LEMMA readInv ==
  ASSUME HttpInv, read
  PROVE  InStep'
<1> USE DEF http, config, network, history
<1>0. PICK c, n : c = Head(rx) /\ n = length[request]
  OBVIOUS
<1>1. /\ coded /\ ~Sending /\ rx # <<>> /\ rx' = Tail(rx) /\ iState = "ReadingBody"
      /\ wire' = wire /\ request' = request /\ length' = length
      /\ coded' = coded /\ asked' = asked /\ open' = open /\ due' = due /\ pc' = pc
      /\ iState' = iState /\ iStatusCode' = iStatusCode
  BY DEF read, endOfHeadersReached, Sending, NotSent
<1>2. /\ request # 0 /\ Tail(rx) \in Seq(Pieces) /\ c \in Pieces
      /\ n \in Nat \/ n = NoLength
  BY <1>0, <1>1, NextPiece
<1>3. PICK d \in Int : /\ Reading(d)
                       /\ Stands(c, d + 1, request, n)
                       /\ Fits(Tail(rx), d + 1, request, n)
                       /\ Fits(wire, (d + 1) + Len(Tail(rx)), request, n)
  BY <1>0, <1>1, NextPiece
<1>4. d + 1 \in Int /\ HeaderEnd(n) \in Nat /\ HeaderEnd(n) >= Before + 7 /\ Before \in Nat
  BY DEF HeaderEnd, Before
<1>5. Stream(d + 1)'
  BY <1>0, <1>1, <1>3 DEF Stream
<1>6. d >= HeaderEnd(n)
  BY <1>0, <1>1, <1>3 DEF Reading, ReadingHeader
<1>7. c.of = request /\ c.kind = "body"
  <2>1. d + 1 > HeaderEnd(n)
    BY <1>4, <1>6
  <2>2. c.of = request /\ KindAt(c.kind, d + 1, n)
    BY <1>3, <1>4, <2>1 DEF Stands
  <2> QED  BY <2>1, <2>2, <1>4 DEF KindAt, HeaderEnd, Before
<1>8. asked = <<>> /\ ~foreign'
  <2>1. foreign' = (foreign \/ NotOwn(c) \/ c.kind # "body")
    BY <1>0 DEF read
  <2> QED  BY <1>1, <1>7, <2>1 DEF HttpInv, InStep, AskedInv, NotOwn
<1>9. Reading(d + 1)'
  BY <1>0, <1>1, <1>4, <1>6 DEF Reading, ReadingStatus, ReadingHeader
<1>10. StreamInv'
  BY <1>1, <1>2, <1>4, <1>5, <1>9 DEF StreamInv
<1>11. SendingInv' /\ DueInv' /\ ClosedInv' /\ RequestInv' /\ AskedInv' /\ CallInv'
  BY <1>1, <1>8 DEF HttpInv, InStep, SendingInv, DueInv, ClosedInv, RequestInv, AskedInv,
    CallInv, Sending, NotSent
<1> QED  BY <1>8, <1>10, <1>11 DEF InStep

-----------------------------------------------------------------------------
(* Types, whatever the program does                                        *)

LEMMA AnswerType ==
  ASSUME TypeInv, NEW r \in Requests
  PROVE  Answer(r) \in Seq(Pieces)
  BY AnswerFits DEF TypeInv, TypeOK, AnswerLengths

LEMMA NetworkType ==
  ASSUME TypeInv, ServerAnswers \/ Arrives \/ ConnectionEnds
  PROVE  TypeInv'
<1> USE DEF http, config, network, history
<1>1. CASE ServerAnswers
  <2>1. Head(asked) \in Requests /\ Tail(asked) \in Seq(Requests)
    BY <1>1, HeadTailProperties, ElementOfSeq, EmptySeq, LenProperties
       DEF ServerAnswers, TypeInv, TypeOK
  <2>2. wire' \in Seq(Pieces)
    BY <1>1, <2>1, AnswerType, ConcatProperties DEF ServerAnswers, TypeInv, TypeOK
  <2> QED  BY <1>1, <2>1, <2>2 DEF ServerAnswers, TypeInv, TypeOK
<1>2. CASE Arrives
  <2>1. Head(wire) \in Pieces /\ Tail(wire) \in Seq(Pieces)
    BY <1>2, HeadTailProperties, ElementOfSeq, EmptySeq, LenProperties
       DEF Arrives, TypeInv, TypeOK
  <2>2. rx' \in Seq(Pieces)
    BY <1>2, <2>1, AppendProperties DEF Arrives, TypeInv, TypeOK
  <2> QED  BY <1>2, <2>1, <2>2 DEF Arrives, TypeInv, TypeOK
<1>3. CASE ConnectionEnds
  BY <1>3, EmptySeq DEF ConnectionEnds, TypeInv, TypeOK
<1> QED  BY <1>1, <1>2, <1>3

LEMMA SendingType ==
  ASSUME TypeInv,
         stop \/ beginRequest \/ ConnectionFails \/ endRequest
           \/ \E b \in BOOLEAN : startRequest(b)
  PROVE  TypeInv'
<1> USE DEF http, config, network, history
<1>1. CASE stop
  BY <1>1, EmptySeq DEF stop, resetState, TypeInv, TypeOK, States
<1>2. CASE beginRequest
  BY <1>2 DEF beginRequest, TypeInv, TypeOK, States
<1>3. CASE ConnectionFails
  <2>1. rx' \in Seq(Pieces)
    BY <1>3, EmptySeq DEF ConnectionFails, Flushed, TypeInv, TypeOK
  <2>2. iState' \in States
    BY <1>3 DEF ConnectionFails, TypeInv, TypeOK, States
  <2>3. /\ iStatusCode' \in {0, 100, 200} /\ iContentLength' \in Lengths \cup {0, NoLength}
        /\ iBodyLengthConsumed' \in Nat
    BY <1>3 DEF ConnectionFails, Reset, TypeInv, TypeOK
  <2> QED  BY <1>3, <2>1, <2>2, <2>3 DEF ConnectionFails, TypeInv, TypeOK
<1>4. CASE endRequest
  <2>1. asked' \in Seq(Requests)
    BY <1>4, RequestLength, AppendProperties DEF endRequest, TypeInv, TypeOK
  <2> QED  BY <1>4, <2>1 DEF endRequest, TypeInv, TypeOK, States
<1>5. ASSUME NEW b \in BOOLEAN, startRequest(b) PROVE TypeInv'
  <2>1. request' \in Requests /\ request' # 0 /\ request' \in 0..MaxRequests
    BY <1>5, HttpAssumption DEF startRequest, TypeInv, TypeOK, Requests
  <2>2. rx' \in Seq(Pieces) /\ wire' \in Seq(Pieces)
    <3>1. Flushed \in Seq(Pieces) /\ <<>> \in Seq(Pieces) /\ wire \in Seq(Pieces)
      BY EmptySeq DEF Flushed, TypeInv, TypeOK
    <3> QED  BY <1>5, <3>1 DEF startRequest
  <2>3. asked' \in Seq(Requests)
    <3>1. (IF Connect THEN <<>> ELSE asked) \in Seq(Requests)
      BY EmptySeq DEF TypeInv, TypeOK
    <3>2. (IF open' /\ Finished(b) THEN <<request'>> ELSE <<>>) \in Seq(Requests)
      BY <2>1, EmptySeq
    <3> QED  BY <1>5, <3>1, <3>2, ConcatProperties DEF startRequest
  <2>4. open' \in BOOLEAN /\ again' \in BOOLEAN /\ due' \in BOOLEAN
    BY <1>5 DEF startRequest, TypeInv, TypeOK, Finished
  <2>5. iState' \in States
    BY <1>5 DEF startRequest, States
  <2>6. /\ iStatusCode' \in {0, 100, 200} /\ iContentLength' \in Lengths \cup {0, NoLength}
        /\ iBodyLengthConsumed' \in Nat
    BY <1>5 DEF startRequest, Reset, TypeInv, TypeOK
  <2> QED  BY <1>5, <2>1, <2>2, <2>3, <2>4, <2>5, <2>6 DEF startRequest, TypeInv, TypeOK
<1> QED  BY <1>1, <1>2, <1>3, <1>4, <1>5

LEMMA ReadingType ==
  ASSUME TypeInv, responseStatusCode \/ skipResponseHeaders \/ read \/ Call
  PROVE  TypeInv'
<1> USE DEF http, config, network, history
<1>1. CASE responseStatusCode
  BY <1>1 DEF responseStatusCode, TypeInv, TypeOK, States
<1>2. CASE skipResponseHeaders
  BY <1>2 DEF skipResponseHeaders, TypeInv, TypeOK
<1>3. ASSUME rx # <<>> PROVE Head(rx) \in Pieces /\ Tail(rx) \in Seq(Pieces)
  BY <1>3, HeadTailProperties, ElementOfSeq, EmptySeq, LenProperties DEF TypeInv, TypeOK
<1>4. CASE read
  BY <1>3, <1>4 DEF read, TypeInv, TypeOK, NotOwn
<1>5. CASE StatusCharacter
  <2>0. Code(Head(rx).kind) \in {0, 100, 200}
    BY DEF Code
  <2>1. iState' \in States /\ iStatusCode' \in {0, 100, 200} /\ coded' \in BOOLEAN
    <3>1. iState' \in States
      BY <1>5 DEF StatusCharacter, TypeInv, TypeOK, States
    <3>2. iStatusCode' \in {0, 100, 200}
      <4> HIDE DEF http
      <4>1. \/ iStatusCode' = iStatusCode \/ iStatusCode' = 0
                 \/ iStatusCode' = Code(Head(rx).kind)
        BY <1>5 DEF StatusCharacter
      <4> QED  BY <2>0, <4>1 DEF TypeInv, TypeOK
    <3>3. coded' \in BOOLEAN
      BY <1>5 DEF StatusCharacter, TypeInv, TypeOK
    <3> QED  BY <3>1, <3>2, <3>3
  <2>2. foreign' \in BOOLEAN /\ pc' \in {"program", "responseStatusCode", "skipResponseHeaders"}
    BY <1>5 DEF StatusCharacter, NotOwn, TypeInv, TypeOK
  <2> QED  BY <1>3, <1>5, <2>1, <2>2 DEF StatusCharacter, TypeInv, TypeOK
<1>6. CASE StatusTimeout
  BY <1>6 DEF StatusTimeout, TypeInv, TypeOK, States
<1>7. CASE HeaderCharacter
  <2>1. iContentLength' \in Lengths \cup {0, NoLength}
    <3>1. length[Head(rx).of] \in Lengths \cup {NoLength}
      BY <1>3, <1>7 DEF HeaderCharacter, TypeInv, TypeOK, Pieces
    <3> QED  BY <1>7, <3>1 DEF HeaderCharacter, TypeInv, TypeOK
  <2>2. iState' \in States
    BY <1>7 DEF HeaderCharacter, AfterHeader, Within, TypeInv, TypeOK, States
  <2>3. foreign' \in BOOLEAN /\ pc' \in {"program", "skipResponseHeaders"} /\ taken' \in Nat
    BY <1>7 DEF HeaderCharacter, NotOwn, TypeInv, TypeOK
  <2> QED  BY <1>3, <1>7, <2>1, <2>2, <2>3 DEF HeaderCharacter, TypeInv, TypeOK
<1>8. CASE HeaderTimeout
  BY <1>8 DEF HeaderTimeout, TypeInv, TypeOK
<1> QED  BY <1>1, <1>2, <1>4, <1>5, <1>6, <1>7, <1>8 DEF Call

LEMMA TypeNext ==
  ASSUME TypeInv, [Next]_vars
  PROVE  TypeInv'
<1>1. CASE UNCHANGED vars
  BY <1>1 DEF vars, http, config, network, history, TypeInv, TypeOK
<1> QED  BY <1>1, NetworkType, SendingType, ReadingType DEF Next

-----------------------------------------------------------------------------
(* The theorems                                                            *)

\* What no action does but those that send.
LEMMA SameExchange ==
  ASSUME [Next]_vars, ~beginRequest, ~stop,
         \A b \in BOOLEAN : ~startRequest(b)
  PROVE  again' = again
  BY DEF Next, Call, vars, history, ServerAnswers, Arrives, ConnectionEnds, ConnectionFails,
    endRequest, responseStatusCode, skipResponseHeaders, read, StatusCharacter, StatusTimeout,
    HeaderCharacter, HeaderTimeout

HistoryInv == TypeInv /\ (~again => InStep)

LEMMA NextInv ==
  ASSUME HistoryInv, [Next]_vars
  PROVE  HistoryInv'
<1>1. TypeInv /\ TypeInv'
  BY TypeNext DEF HistoryInv
<1> SUFFICES ASSUME ~again' PROVE InStep'
  BY <1>1 DEF HistoryInv
<1>2. CASE stop
  BY <1>2, stopInv
<1>3. CASE beginRequest
  <2>1. ~again
    BY <1>3 DEF beginRequest
  <2> QED  BY <1>1, <1>3, <2>1, beginRequestInv DEF HistoryInv, HttpInv
<1>4. ASSUME NEW b \in BOOLEAN, startRequest(b) PROVE InStep'
  <2>1. Connect \/ again' = again
    BY <1>4 DEF startRequest
  <2> QED  BY <1>1, <1>4, <2>1, startRequestInv DEF HistoryInv
<1>5. CASE ~stop /\ ~beginRequest /\ \A b \in BOOLEAN : ~startRequest(b)
  <2>1. HttpInv
    BY <1>1, <1>5, SameExchange DEF HistoryInv, HttpInv
  <2>2. CASE UNCHANGED vars
    BY <2>1, <2>2, StutterInv
  <2>3. CASE Next
    BY <1>5, <2>1, <2>3, ServerAnswersInv, ArrivesInv, ConnectionEndsInv, ConnectionFailsInv,
      endRequestInv, responseStatusCodeInv, skipResponseHeadersInv, readInv, StatusCharacterInv,
      StatusTimeoutInv, HeaderCharacterInv, HeaderTimeoutInv DEF Next, Call
  <2> QED  BY <2>2, <2>3
<1> QED  BY <1>2, <1>3, <1>4, <1>5

LEMMA Invariant == Spec => []HistoryInv
<1>1. Init => HistoryInv
  BY InitInv DEF HistoryInv, HttpInv
<1>2. HistoryInv /\ [Next]_vars => HistoryInv'
  BY NextInv
<1> QED  BY <1>1, <1>2, PTL DEF Spec

\* Every variable of the client, the stream and the server has its type, for any number
\* of requests and any lengths, in whatever order the program makes its calls.
THEOREM TypeCorrect == Spec => []TypeOK
<1>1. HistoryInv => TypeOK
  BY DEF HistoryInv, TypeInv
<1> QED  BY <1>1, Invariant, PTL

\* Nothing that a program reads as status, header or body is of an earlier answer or of
\* another part of its own, for any number of requests and lengths of bodies, on every
\* connection, with and without 1xx answers, wherever an answer was left half read and
\* in whatever order the calls come, unless a request was begun in the middle of another
\* exchange on the same connection.
THEOREM OwnAnswerHolds == Spec => []OwnAnswer
<1>1. HistoryInv => OwnAnswer
  BY DEF HistoryInv, InStep, OwnAnswer
<1> QED  BY <1>1, Invariant, PTL
=============================================================================
