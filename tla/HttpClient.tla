----------------------------- MODULE HttpClient -----------------------------
(***************************************************************************)
(* HttpClient of ArduinoHttpClient: one request after the other, on a new   *)
(* connection each or on one that is kept alive, and the state machine that *)
(* reads the answers off a stream which delivers them piece by piece.       *)
(*                                                                         *)
(* The stream is a sequence of the pieces that the state machine tells      *)
(* apart.  "lf" is the end of a line; its CR counts only where the line is  *)
(* empty ("cr").  "length" is the whole header name "Content-Length: ".     *)
(***************************************************************************)
EXTENDS Integers, Sequences

CONSTANTS
  MaxRequests,     \* bound: the program sends this many requests
  Lengths,         \* of bodies
  NoLength,        \* the length of an answer that has no Content-Length header
  Informational    \* does the server send a 1xx answer before the real one?

ASSUME HttpAssumption ==
  /\ MaxRequests \in Nat \ {0} /\ Lengths \subseteq Nat /\ NoLength \notin Nat
  /\ Informational \in BOOLEAN

Requests == 1..MaxRequests
States == {"Idle", "RequestStarted", "RequestSent", "ReadingStatusCode", "StatusCodeRead",
           "ReadingContentLength", "SkipToEndOfHeader", "LineStartingCRFound", "ReadingBody"}
Kinds  == {"prefix", "continue", "code", "length", "digits", "other", "cr", "lf", "body"}
Pieces == [kind : Kinds, of : Requests]

VARIABLES
  iState, iStatusCode, iContentLength, iBodyLengthConsumed, iConnectionClose,
  pc,              \* the program, or the call that waits for the server
  open,            \* is the connection open?
  rx, wire,        \* what has arrived and was not read; what is under way
  asked,           \* requests that the server has to answer
  length,          \* of the body that it answers a request with
  request,         \* history: the last request of the program
  due,             \* history: has startRequest() left the headers to endRequest()?
  coded,           \* history: has the program got the status code?
  taken,           \* history: the bytes that it has read since the headers ended
  foreign,         \* history: was a piece taken for a part of its answer that is not?
  again            \* history: beginRequest() in the middle of another exchange, and
                   \* neither stop() nor a new connection since

http    == <<iState, iStatusCode, iContentLength, iBodyLengthConsumed>>
config  == <<iConnectionClose, length>>
network == <<open, rx, wire, asked>>
history == <<request, due, coded, taken, foreign, again>>
vars == <<http, config, pc, network, history>>

TypeOK ==
  /\ iState \in States /\ iStatusCode \in {0, 100, 200}
  /\ iContentLength \in Lengths \cup {0, NoLength} /\ iBodyLengthConsumed \in Nat
  /\ iConnectionClose \in BOOLEAN
  /\ pc \in {"program", "responseStatusCode", "skipResponseHeaders"}
  /\ open \in BOOLEAN /\ rx \in Seq(Pieces) /\ wire \in Seq(Pieces)
  /\ asked \in Seq(Requests)
  /\ length \in [Requests -> Lengths \cup {NoLength}]
  /\ request \in 0..MaxRequests /\ due \in BOOLEAN /\ coded \in BOOLEAN
  /\ taken \in Nat /\ foreign \in BOOLEAN /\ again \in BOOLEAN

Init ==
  /\ iState = "Idle" /\ iStatusCode = 0 /\ iContentLength = 0 /\ iBodyLengthConsumed = 0
  /\ iConnectionClose \in BOOLEAN
  /\ pc = "program" /\ open = FALSE /\ rx = <<>> /\ wire = <<>> /\ asked = <<>>
  /\ length \in [Requests -> Lengths \cup {NoLength}]
  /\ request = 0 /\ due = FALSE /\ coded = FALSE /\ taken = 0
  /\ foreign = FALSE /\ again = FALSE

-----------------------------------------------------------------------------
(* The server and the stream                                               *)

Piece(kind, r) == [kind |-> kind, of |-> r]
Line(r, kinds) == [k \in 1..Len(kinds) |-> Piece(kinds[k], r)]

Answer(r) ==
  (IF Informational THEN Line(r, <<"prefix", "continue", "lf", "cr", "lf">>) ELSE <<>>)
    \o Line(r, <<"prefix", "code", "lf", "other", "lf">>)
    \o (IF length[r] = NoLength THEN <<>> ELSE Line(r, <<"length", "digits", "lf">>))
    \o Line(r, <<"cr", "lf">>)
    \o [k \in 1..(IF length[r] = NoLength THEN 1 ELSE length[r]) |-> Piece("body", r)]

\* The server answers in the order of the requests.
ServerAnswers ==
  /\ open /\ asked # <<>>
  /\ wire' = wire \o Answer(Head(asked)) /\ asked' = Tail(asked)
  /\ UNCHANGED <<http, config, pc, open, rx, history>>

Arrives ==
  /\ wire # <<>>
  /\ rx' = Append(rx, Head(wire)) /\ wire' = Tail(wire)
  /\ UNCHANGED <<http, config, pc, open, asked, history>>

\* The connection ends; what has arrived can still be read.
ConnectionEnds ==
  /\ open /\ open' = FALSE /\ wire' = <<>> /\ asked' = <<>>
  /\ UNCHANGED <<http, config, pc, rx, history>>

\* connected(), as the network libraries define it.
Connected == open \/ rx # <<>>

-----------------------------------------------------------------------------
(* Sending a request                                                       *)

endOfHeadersReached == iState = "ReadingBody"

\* Mutant: one byte too late.
Mut_EndOfBody    == endOfHeadersReached /\ iBodyLengthConsumed > iContentLength
endOfBodyReached == endOfHeadersReached /\ iBodyLengthConsumed >= iContentLength

resetState ==
  /\ iState' = "Idle" /\ iStatusCode' = 0 /\ iContentLength' = 0 /\ iBodyLengthConsumed' = 0

stop ==
  /\ pc = "program"
  /\ resetState
  /\ open' = FALSE /\ rx' = <<>> /\ wire' = <<>> /\ asked' = <<>>
  /\ due' = FALSE /\ coded' = FALSE /\ foreign' = FALSE /\ again' = FALSE
  /\ UNCHANGED <<config, pc, request, taken>>

NotSent == {"Idle", "RequestStarted"}

\* Called in any state; only the state is changed.
beginRequest ==
  /\ pc = "program"
  /\ iState' = "RequestStarted"
  /\ coded' = FALSE /\ again' = (again \/ iState \notin NotSent)
  /\ UNCHANGED <<iStatusCode, iContentLength, iBodyLengthConsumed, config, pc, network,
                 request, due, taken, foreign>>

\* Mutant: a request may also follow one whose answer was not read.
Mut_MayStart == TRUE

\* After an answer was read, what has arrived is thrown away; in any other state
\* than these two the call is refused (HTTP_ERROR_API) and changes nothing.
MayStart == iState \in NotSent \cup {"ReadingBody"}
Flushed == IF endOfHeadersReached THEN <<>> ELSE rx
Connect == iConnectionClose \/ ~(open \/ Flushed # <<>>)

Reset ==
  IF endOfHeadersReached
  THEN /\ iStatusCode' = 0 /\ iContentLength' = 0 /\ iBodyLengthConsumed' = 0
  ELSE UNCHANGED <<iStatusCode, iContentLength, iBodyLengthConsumed>>

\* connect() returns 0: HTTP_ERROR_CONNECTION_FAILED.
ConnectionFails ==
  /\ pc = "program" /\ MayStart /\ Connect
  /\ Reset /\ iState' = IF endOfHeadersReached THEN "Idle" ELSE iState
  /\ rx' = Flushed
  /\ coded' = FALSE
  /\ UNCHANGED <<config, pc, open, wire, asked, request, due, taken, foreign, again>>

\* A request with a body, or one without beginRequest(), has its headers finished.
Finished(hasBody) == iState # "RequestStarted" \/ hasBody

\* !connect() > 0 is false for an error number below 0, too: the request is then
\* written to a connection that there is not.  A request whose headers were not
\* finished gets the lines of the next one on the same connection: the server sees
\* one request.
startRequest(hasBody) ==
  /\ pc = "program" /\ MayStart /\ request < MaxRequests
  /\ Reset /\ iState' = IF Finished(hasBody) THEN "RequestSent" ELSE "RequestStarted"
  /\ request' = request + 1 /\ due' = ~Finished(hasBody)
  /\ coded' = FALSE /\ taken' = 0 /\ foreign' = FALSE
  /\ \/ Connect /\ open' \in BOOLEAN /\ rx' = <<>> /\ wire' = <<>> /\ again' = FALSE
     \/ ~Connect /\ rx' = Flushed /\ UNCHANGED <<open, wire, again>>
  /\ asked' = (IF Connect THEN <<>> ELSE asked)
                \o (IF open' /\ Finished(hasBody) THEN <<request'>> ELSE <<>>)
  /\ UNCHANGED <<config, pc>>

\* An empty line that ends no headers is not answered.
endRequest ==
  /\ pc = "program" /\ iState \in NotSent
  /\ iState' = "RequestSent" /\ due' = FALSE
  /\ asked' = IF open /\ due THEN Append(asked, request) ELSE asked
  /\ UNCHANGED <<iStatusCode, iContentLength, iBodyLengthConsumed, config, pc, open, rx, wire,
                 request, coded, taken, foreign, again>>

-----------------------------------------------------------------------------
(* responseStatusCode()                                                    *)

\* Refused (HTTP_ERROR_API) before a request was sent.
responseStatusCode ==
  /\ pc = "program" /\ iState \notin NotSent
  /\ pc' = "responseStatusCode"
  /\ iState' = "RequestSent" /\ iStatusCode' = 0
  /\ coded' = FALSE
  /\ UNCHANGED <<iContentLength, iBodyLengthConsumed, config, network, request, due, taken,
                 foreign, again>>

NotOwn(c) == c.of # request

Code(kind) == IF kind = "continue" THEN 100 ELSE 200

\* Mutant: no look at the state, so that there need not be a status at all.
Mut_ReadInformational == iStatusCode < 200
ReadInformational == iState = "StatusCodeRead" /\ iStatusCode < 200

\* Anything else than a status line, also the empty line after a 1xx answer, is
\* HTTP_ERROR_INVALID_RESPONSE.
StatusCharacter ==
  /\ pc = "responseStatusCode" /\ rx # <<>>
  /\ rx' = Tail(rx)
  /\ LET c == Head(rx) IN
     \/ /\ iState = "RequestSent" /\ c.kind # "prefix" /\ pc' = "program"
        /\ UNCHANGED <<iState, iStatusCode, coded, foreign>>
     \/ /\ iState = "RequestSent" /\ c.kind = "prefix" /\ iState' = "ReadingStatusCode"
        /\ UNCHANGED <<iStatusCode, pc, coded, foreign>>
     \/ /\ iState = "ReadingStatusCode"
        /\ iState' = "StatusCodeRead" /\ iStatusCode' = Code(c.kind)
        /\ UNCHANGED <<pc, coded, foreign>>
     \/ /\ ReadInformational /\ c.kind = "lf"
        /\ iState' = "RequestSent" /\ iStatusCode' = 0
        /\ UNCHANGED <<pc, coded, foreign>>
     \/ /\ iState = "StatusCodeRead" /\ ~ReadInformational /\ c.kind = "lf"
        /\ pc' = "program" /\ coded' = TRUE /\ foreign' = (foreign \/ NotOwn(c))
        /\ UNCHANGED <<iState, iStatusCode>>
  /\ UNCHANGED <<iContentLength, iBodyLengthConsumed, config, open, wire, asked,
                 request, due, taken, again>>

\* Nothing has come for iHttpResponseTimeout.
TimedOut == rx = <<>>

StatusTimeout ==
  /\ pc = "responseStatusCode" /\ TimedOut
  /\ IF ReadInformational THEN iState' = "RequestSent" /\ iStatusCode' = 0 /\ UNCHANGED pc
     ELSE pc' = "program" /\ UNCHANGED <<iState, iStatusCode>>
  /\ UNCHANGED <<iContentLength, iBodyLengthConsumed, config, network, history>>

-----------------------------------------------------------------------------
(* Headers and body                                                        *)

\* "MUST be called after responseStatusCode()".
skipResponseHeaders ==
  /\ pc = "program" /\ coded /\ ~endOfHeadersReached
  /\ pc' = "skipResponseHeaders"
  /\ UNCHANGED <<http, config, network, history>>

\* What readHeader() makes of a character, but for the end of a line, ...
Within(kind) ==
  IF iState = "StatusCodeRead"
  THEN IF kind = "length" THEN "ReadingContentLength"
       ELSE IF kind = "cr" THEN "LineStartingCRFound" ELSE "SkipToEndOfHeader"
  ELSE IF iState = "ReadingContentLength" /\ kind # "digits" THEN "SkipToEndOfHeader"
  ELSE IF iState = "LineStartingCRFound" /\ kind = "lf" THEN "ReadingBody"
  ELSE iState

\* ... after which a new one starts.
AfterHeader(kind) ==
  IF kind = "lf" /\ Within(kind) # "ReadingBody" THEN "StatusCodeRead" ELSE Within(kind)

HeaderCharacter ==
  /\ pc = "skipResponseHeaders" /\ rx # <<>>
  /\ rx' = Tail(rx)
  /\ LET c == Head(rx) IN
     /\ iState' = AfterHeader(c.kind)
     /\ iContentLength' = IF iState = "StatusCodeRead" /\ c.kind = "length" THEN 0
                          ELSE IF iState = "ReadingContentLength" /\ c.kind = "digits"
                          THEN length[c.of]
                          ELSE iContentLength
     /\ foreign' = (foreign \/ NotOwn(c) \/ c.kind = "body")
  /\ IF iState' = "ReadingBody" THEN pc' = "program" /\ taken' = 0 ELSE UNCHANGED <<pc, taken>>
  /\ UNCHANGED <<iStatusCode, iBodyLengthConsumed, config, open, wire, asked,
                 request, due, coded, again>>

HeaderTimeout ==
  /\ pc = "skipResponseHeaders" /\ TimedOut
  /\ pc' = "program"
  /\ UNCHANGED <<http, config, network, history>>

\* The program reads the body, one byte after the other or with responseBody().
read ==
  /\ pc = "program" /\ coded /\ endOfHeadersReached /\ rx # <<>>
  /\ rx' = Tail(rx)
  /\ iBodyLengthConsumed' = iBodyLengthConsumed + (IF iContentLength > 0 THEN 1 ELSE 0)
  /\ taken' = taken + 1
  /\ foreign' = (foreign \/ NotOwn(Head(rx)) \/ Head(rx).kind # "body")
  /\ UNCHANGED <<iState, iStatusCode, iContentLength, config, pc, open, wire, asked,
                 request, due, coded, again>>

Call == StatusCharacter \/ StatusTimeout \/ HeaderCharacter \/ HeaderTimeout

Next ==
  \/ ServerAnswers \/ Arrives \/ ConnectionEnds
  \/ stop \/ beginRequest \/ ConnectionFails \/ endRequest
  \/ \E hasBody \in BOOLEAN : startRequest(hasBody)
  \/ responseStatusCode \/ skipResponseHeaders \/ read
  \/ Call

Spec == Init /\ [][Next]_vars

-----------------------------------------------------------------------------
(* Properties                                                              *)

\* The status code, the headers and the body that a program reads are those of the
\* answer to its last request, none of them of an earlier one or of another part,
\* also when it has left an answer half read, timed out, or tried again.  The one
\* exception: it has called beginRequest() on a connection that it still uses for
\* another exchange (line 57), so that what is left of that one is not dropped.
OwnAnswer == foreign => again

OfKnownLength == coded /\ endOfHeadersReached /\ length[request] # NoLength /\ ~foreign

\* A program that reads until endOfBodyReached() does not wait for bytes behind the
\* body: when it has got as many as Content-Length says it is told so, wherever
\* beginRequest() was called before.
EndNotMissed == OfKnownLength /\ taken >= length[request] => endOfBodyReached

\* What HttpClient.h says of endOfBodyReached() for an answer with a Content-Length
\* header: "true if we are now at the end of the body, else false" (line 235).  It is
\* true too early after a beginRequest() that has followed a body: the bytes of that
\* body are still counted (HttpClient.cpp:57 and 65).
EndOfBodyTold == OfKnownLength => (endOfBodyReached <=> taken = length[request])

\* Every call that waits for the server returns, whatever the server sends or not.
FairSpec == Spec /\ WF_vars(Call)
Returns == pc # "program" ~> pc = "program"
=============================================================================
