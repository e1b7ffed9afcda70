------------------------------ MODULE HttpParser ------------------------------
(***************************************************************************)
(* The incremental response parser of the HTTP component                    *)
(* (components/http/src/http.c): HttpParserInit, HttpParserFeed and         *)
(* HttpParserFinish, fed with one response in pieces of any size by a       *)
(* caller that stops at a redirect, a failure or the end of the stream.     *)
(*                                                                          *)
(* An octet is a tuple.  The text of a head line is one octet, named after  *)
(* the field it carries; everything between the lines and in the body is    *)
(* octet for octet, because that is where a piece may end.                  *)
(***************************************************************************)
EXTENDS Naturals, Sequences

CONSTANTS
    Messages,        \* the responses the server may send, see Message
    ResumeOffset,    \* what the request asked to resume at
    Word,            \* 2^32
    MaxPiece,        \* octets one call of HttpParserFeed may be given
    HeaderCapacity,  \* HTTP_HEADER_CAPACITY - 1, in octets
    LineCapacity,    \* sizeof(chunkLine) - 1
    MaxShift,        \* largest chunk size another digit may follow, 0x0fffffff
    Rooms            \* octets the sink may have room for

ASSUME ParserAssumption ==
    /\ {ResumeOffset, Word, MaxPiece, HeaderCapacity, LineCapacity} \subseteq Nat
    /\ MaxShift * 16 + 15 < Word
    /\ Rooms \subseteq Nat

VARIABLES
    message,  \* the response on its way
    wire,     \* the octets of it that have not been fed
    parser,   \* the HttpParser
    sink,     \* what the body callback has been given
    room,     \* what the body callback has room for
    shadow,   \* parser and sink of a caller that feeds one octet at a time
    finish    \* what HttpParserFinish returned, "None" before it is called

vars == <<message, wire, parser, sink, room, shadow, finish>>

CR == <<"CR">>
LF == <<"LF">>
Semicolon == <<"semicolon">>
Digit(n) == <<"digit", n>>
Data(n) == <<"data", n>>

Statuses == {"Ok", "Malformed", "HeadersTooLarge", "UnsupportedEncoding",
             "SinkFailed"}
ChunkStates == {"Size", "Data", "DataCr", "DataLf", "Trailers", "Done"}

Zeroed ==
    [parseStatus |-> "Ok", headersComplete |-> FALSE, headers |-> <<>>,
     statusCode |-> 0, http11 |-> FALSE, redirect |-> FALSE, location |-> "",
     hasContentLength |-> FALSE, contentLength |-> 0, chunked |-> FALSE,
     hasContentRange |-> FALSE, unsatisfiedRange |-> FALSE,
     contentRangeStart |-> 0, contentRangeEnd |-> 0, contentRangeTotal |-> 0,
     connectionClose |-> FALSE, connectionComplete |-> FALSE,
     connectionReusable |-> FALSE, bodyReceived |-> 0,
     chunkState |-> "Size", chunkLine |-> <<>>, chunkRemaining |-> 0,
     trailerMatch |-> 0, trailerHasData |-> FALSE]

(* A call works on the parser and on what the sink holds.                   *)
Start == [parser |-> Zeroed, sink |-> <<>>]
Fail(c, status) == [c EXCEPT !.parser.parseStatus = status]

-----------------------------------------------------------------------------
(* Heads.                                                                   *)

(* ParseUInt32: the value of decimal digits, None when it refuses them.  A  *)
(* product that wraps past the value before it goes unnoticed.              *)
None == Word
RECURSIVE ParseFrom(_, _)
ParseFrom(digits, value) ==
    IF digits = <<>> THEN value
    ELSE LET next == (value * 10 + Head(digits)) % Word
         IN  IF next < value THEN None ELSE ParseFrom(Tail(digits), next)
ParseUInt32(digits) == IF digits = <<>> THEN None ELSE ParseFrom(digits, 0)

(* One head line, with the value its handler reads.                         *)
ParseField(p, line) ==
    LET bad(status) == [p EXCEPT !.parseStatus = status]
    IN
    CASE line[1] = "Content-Length" ->
            LET n == ParseUInt32(line[2])
            IN  IF n = None THEN bad("Malformed")
                ELSE [p EXCEPT !.contentLength = n, !.hasContentLength = TRUE]
      [] line[1] = "Transfer-Encoding" ->
            IF line[2] = "chunked" THEN [p EXCEPT !.chunked = TRUE]
            ELSE bad("UnsupportedEncoding")
      [] line[1] = "Location" -> [p EXCEPT !.location = line[2]]
      [] line[1] = "Unsatisfied-Range" ->
            [p EXCEPT !.contentRangeTotal = line[2], !.hasContentRange = TRUE,
                      !.unsatisfiedRange = TRUE]
      [] line[1] = "Content-Range" ->
            IF line[3] < line[2] THEN bad("Malformed")
            ELSE [p EXCEPT !.contentRangeStart = line[2],
                           !.contentRangeEnd = line[3],
                           !.contentRangeTotal = line[4],
                           !.hasContentRange = TRUE]
      [] line[1] = "Content-Encoding" ->
            IF line[2] = "identity" THEN p ELSE bad("UnsupportedEncoding")
      [] line[1] = "Connection" ->
            [p EXCEPT !.connectionClose = @ \/ line[2] = "close"]
      [] line[1] = "Other" -> p
      [] OTHER -> bad("Malformed")

(* The lines between the status line and the empty one.                     *)
RECURSIVE ParseFields(_, _)
ParseFields(p, lines) ==
    IF lines = <<>> \/ p.parseStatus # "Ok" THEN p
    ELSE ParseFields(ParseField(p, Head(lines)), Tail(lines))

Redirects == {301, 302, 303, 307, 308}

(* What makes a head that parses malformed after all.                       *)
Contradicts(p) ==
    \/ p.redirect /\ p.location = ""
    \/ /\ p.statusCode = 206
       /\ \/ ~p.hasContentRange
          \/ p.contentRangeStart # ResumeOffset
          \/ p.contentRangeEnd >= p.contentRangeTotal
          \/ /\ p.hasContentLength
             /\ p.contentLength # p.contentRangeEnd - p.contentRangeStart + 1
    \/ p.statusCode = 416 /\ (~p.hasContentRange \/ ~p.unsatisfiedRange)

ParseHeaders(p) ==
    LET lines == SelectSeq(p.headers, LAMBDA o : o \notin {CR, LF})
    IN  IF lines = <<>> \/ p.headers[1] # lines[1] \/ lines[1][1] # "HTTP"
        THEN [p EXCEPT !.parseStatus = "Malformed"]
        ELSE LET started == [p EXCEPT !.http11 = (lines[1][2] = 11),
                                      !.statusCode = lines[1][3]]
                 parsed == ParseFields(started, Tail(lines))
                 done == [parsed EXCEPT !.redirect = (parsed.statusCode \in Redirects)]
             IN  IF parsed.parseStatus # "Ok" THEN parsed
                 ELSE IF Contradicts(done)
                 THEN [done EXCEPT !.parseStatus = "Malformed"]
                 ELSE done

(* Mutant of MarkComplete: HTTP/1.0 is taken to keep connections open.      *)
MarkCompleteReusable(p) ==
    [p EXCEPT !.connectionComplete = TRUE,
              !.connectionReusable = /\ ~p.connectionClose
                                     /\ p.hasContentLength \/ p.chunked]

-----------------------------------------------------------------------------
(* Bodies.                                                                  *)

MarkComplete(p) ==
    [p EXCEPT !.connectionComplete = TRUE,
              !.connectionReusable = /\ p.http11
                                     /\ ~p.connectionClose
                                     /\ p.hasContentLength \/ p.chunked]

(* The body callback takes all of the octets or refuses them.               *)
Deliver(c, octets) ==
    IF Len(c.sink) + Len(octets) > room THEN Fail(c, "SinkFailed")
    ELSE [c EXCEPT !.sink = @ \o octets,
                   !.parser.bodyReceived = (@ + Len(octets)) % Word]

(* Mutant of SizeFrom: a size may have as many digits as the line holds.    *)
RECURSIVE SizeFromUnchecked(_, _)
SizeFromUnchecked(line, size) ==
    IF line = <<>> \/ Head(line) = Semicolon THEN size
    ELSE IF Head(line)[1] # "digit" THEN None
    ELSE SizeFromUnchecked(Tail(line), size * 16 + Head(line)[2])

(* The size a complete size line gives, None when it is malformed.          *)
RECURSIVE SizeFrom(_, _)
SizeFrom(line, size) ==
    IF line = <<>> \/ Head(line) = Semicolon THEN size
    ELSE IF Head(line)[1] # "digit" \/ size > MaxShift THEN None
    ELSE SizeFrom(Tail(line), size * 16 + Head(line)[2])
ChunkSize(line) == IF line = <<>> THEN None ELSE SizeFrom(line, 0)

FeedSize(c, octet) ==
    LET p == c.parser
        size == ChunkSize(p.chunkLine)
    IN
    CASE octet = CR -> c
      [] octet = LF ->
            IF size = None THEN Fail(c, "Malformed")
            ELSE [c EXCEPT !.parser.chunkLine = <<>>,
                           !.parser.chunkRemaining = size,
                           !.parser.chunkState = IF size = 0 THEN "Trailers" ELSE "Data"]
      [] OTHER ->
            IF Len(p.chunkLine) < LineCapacity
            THEN [c EXCEPT !.parser.chunkLine = Append(@, octet)]
            ELSE Fail(c, "Malformed")

TrailerEnd == <<CR, LF, CR, LF>>

FeedTrailer(c, octet) ==
    LET p == c.parser
        hasData == p.trailerHasData \/ (p.trailerMatch = 0 /\ octet # CR)
        match == IF octet = TrailerEnd[p.trailerMatch + 1] THEN p.trailerMatch + 1
                 ELSE IF octet = CR THEN 1 ELSE 0
        fed == [p EXCEPT !.trailerHasData = hasData, !.trailerMatch = match]
    IN  IF (~hasData /\ match = 2) \/ match = 4
        THEN [c EXCEPT !.parser = MarkComplete([fed EXCEPT !.chunkState = "Done"])]
        ELSE [c EXCEPT !.parser = fed]

(* The octet that must follow in a fixed place.                             *)
Expect(c, octet, expected, next) ==
    IF octet = expected THEN [c EXCEPT !.parser.chunkState = next]
    ELSE Fail(c, "Malformed")

(* Mutant of FeedChunkData: a chunk counts again from its size in the next   *)
(* piece.                                                                   *)
FeedChunkDataAgain(c, octets) ==
    LET n == IF c.parser.chunkRemaining < Len(octets) THEN c.parser.chunkRemaining
             ELSE Len(octets)
        given == Deliver(c, SubSeq(octets, 1, n))
    IN  IF given.parser.parseStatus # "Ok" \/ n < c.parser.chunkRemaining THEN given
        ELSE [given EXCEPT !.parser.chunkRemaining = 0,
                           !.parser.chunkState = "DataCr"]

(* One iteration of the loop of FeedChunked, and the octets it leaves.      *)
FeedChunkData(c, octets) ==
    LET n == IF c.parser.chunkRemaining < Len(octets) THEN c.parser.chunkRemaining
             ELSE Len(octets)
        given == Deliver(c, SubSeq(octets, 1, n))
    IN  IF given.parser.parseStatus # "Ok" THEN given
        ELSE [given EXCEPT !.parser.chunkRemaining = @ - n,
                           !.parser.chunkState = IF c.parser.chunkRemaining = n
                                                 THEN "DataCr" ELSE "Data"]

FeedOctet(c, octet) ==
    CASE c.parser.chunkState = "Size" -> FeedSize(c, octet)
      [] c.parser.chunkState = "DataCr" -> Expect(c, octet, CR, "DataLf")
      [] c.parser.chunkState = "DataLf" -> Expect(c, octet, LF, "Size")
      [] c.parser.chunkState = "Trailers" -> FeedTrailer(c, octet)

RECURSIVE FeedChunked(_, _)
FeedChunked(c, octets) ==
    IF octets = <<>> \/ c.parser.chunkState = "Done" \/ c.parser.parseStatus # "Ok"
    THEN c
    ELSE IF c.parser.chunkState = "Data"
    THEN LET fed == FeedChunkData(c, octets)
         IN  FeedChunked(fed, SubSeq(octets, Len(fed.sink) - Len(c.sink) + 1, Len(octets)))
    ELSE FeedChunked(FeedOctet(c, Head(octets)), Tail(octets))

(* Mutant of FeedIdentity: delivers what follows the body in a piece.       *)
FeedIdentityAll(c, octets) ==
    LET given == Deliver(c, octets)
    IN  IF /\ c.parser.hasContentLength
           /\ given.parser.bodyReceived >= c.parser.contentLength
        THEN [given EXCEPT !.parser = MarkComplete(@)] ELSE given

(* A body that is not chunked: no more of it than its length, if it has one. *)
FeedIdentity(c, octets) ==
    LET p == c.parser
        n == IF p.hasContentLength /\ (p.bodyReceived + Len(octets)) % Word > p.contentLength
             THEN p.contentLength - p.bodyReceived ELSE Len(octets)
        given == Deliver(c, SubSeq(octets, 1, n))
    IN  IF p.hasContentLength /\ given.parser.bodyReceived = p.contentLength
        THEN [given EXCEPT !.parser = MarkComplete(@)] ELSE given

-----------------------------------------------------------------------------
(* HttpParserFeed.                                                          *)

HeadEnds(headers) ==
    /\ Len(headers) >= 4
    /\ SubSeq(headers, Len(headers) - 3, Len(headers)) = TrailerEnd

(* The head octet by octet, then the rest of the piece as body.             *)
FeedBody(c, octets) ==
    IF octets = <<>> \/ c.parser.connectionComplete THEN c
    ELSE IF c.parser.chunked THEN FeedChunked(c, octets)
    ELSE FeedIdentity(c, octets)

RECURSIVE FeedHead(_, _)
FeedHead(c, octets) ==
    IF octets = <<>> THEN c
    ELSE IF Len(c.parser.headers) >= HeaderCapacity THEN Fail(c, "HeadersTooLarge")
    ELSE LET p == [c.parser EXCEPT !.headers = Append(@, Head(octets))]
             head == ParseHeaders([p EXCEPT !.headersComplete = TRUE])
             empty == head.hasContentLength /\ head.contentLength = 0
         IN  IF ~HeadEnds(p.headers)
             THEN FeedHead([c EXCEPT !.parser = p], Tail(octets))
             ELSE IF head.parseStatus # "Ok" \/ head.redirect
             THEN [c EXCEPT !.parser = head]
             ELSE FeedBody([c EXCEPT !.parser = IF empty THEN MarkComplete(head) ELSE head],
                           Tail(octets))

HttpParserFeed(c, octets) ==
    IF c.parser.parseStatus # "Ok" THEN c
    ELSE IF c.parser.headersComplete THEN FeedBody(c, octets)
    ELSE FeedHead(c, octets)

(* The caller that feeds one octet at a time, and stops at a redirect.      *)
RECURSIVE FeedEach(_, _)
FeedEach(c, octets) ==
    IF octets = <<>> \/ c.parser.redirect THEN c
    ELSE FeedEach(HttpParserFeed(c, <<Head(octets)>>), Tail(octets))

(* Mutant of Unfinished: does not ask for the last chunk.                   *)
UnfinishedLastChunk(p) ==
    \/ ~p.headersComplete
    \/ p.hasContentLength /\ p.bodyReceived # p.contentLength

(* HttpParserFinish.                                                        *)
Unfinished(p) ==
    \/ ~p.headersComplete
    \/ p.chunked /\ p.chunkState # "Done"
    \/ p.hasContentLength /\ p.bodyReceived # p.contentLength

HttpParserFinish(p) ==
    IF p.parseStatus # "Ok" THEN p
    ELSE IF Unfinished(p) THEN [p EXCEPT !.parseStatus = "Malformed"]
    ELSE MarkComplete(p)

-----------------------------------------------------------------------------
(* The server.  A message is a record of                                    *)
(*   head       its head lines                                              *)
(*   framing    "length", "chunked" or "close"                              *)
(*   chunks     the sizes of the chunks, extension what follows each size   *)
(*              on its line, trailer the trailer lines                      *)
(*   body       what it carries                                             *)
(*   after      what follows it on the connection                           *)
(*   good       whether it is a response this request can be answered with  *)

RECURSIVE Lines(_)
Lines(head) ==
    IF head = <<>> THEN <<CR, LF>>
    ELSE <<Head(head), CR, LF>> \o Lines(Tail(head))

RECURSIVE HexDigits(_)
HexDigits(n) ==
    IF n < 16 THEN <<Digit(n)>> ELSE Append(HexDigits(n \div 16), Digit(n % 16))

SizeLine(n, extension) == HexDigits(n) \o extension \o <<CR, LF>>

RECURSIVE Chunks(_, _, _)
Chunks(sizes, body, m) ==
    IF sizes = <<>>
    THEN SizeLine(0, m.extension) \o m.trailer \o <<CR, LF>>
    ELSE LET n == IF Head(sizes) < Len(body) THEN Head(sizes) ELSE Len(body)
         IN  SizeLine(Head(sizes), m.extension) \o SubSeq(body, 1, n) \o <<CR, LF>>
                 \o Chunks(Tail(sizes), SubSeq(body, n + 1, Len(body)), m)

Encoded(m) ==
    Lines(m.head) \o (IF m.framing = "chunked" THEN Chunks(m.chunks, m.body, m)
                      ELSE m.body)

-----------------------------------------------------------------------------

Init ==
    /\ message \in Messages
    /\ wire = Encoded(message) \o message.after
    /\ room \in Rooms
    /\ parser = Zeroed
    /\ sink = <<>>
    /\ shadow = Start
    /\ finish = "None"

Running == finish = "None" /\ parser.parseStatus = "Ok" /\ ~parser.redirect

(* The next piece arrives.                                                  *)
Feed ==
    /\ Running
    /\ \E n \in 1..MaxPiece :
          /\ n <= Len(wire)
          /\ LET piece == SubSeq(wire, 1, n)
                 fed == HttpParserFeed([parser |-> parser, sink |-> sink], piece)
             IN  /\ parser' = fed.parser
                 /\ sink' = fed.sink
                 /\ shadow' = FeedEach(shadow, piece)
                 /\ wire' = SubSeq(wire, n + 1, Len(wire))
    /\ UNCHANGED <<message, room, finish>>

(* The stream ends, wherever the server or the network cuts it.             *)
Finish ==
    /\ Running
    /\ parser' = HttpParserFinish(parser)
    /\ finish' = parser'.parseStatus
    /\ UNCHANGED <<message, wire, sink, room, shadow>>

Next == Feed \/ Finish

Spec == Init /\ [][Next]_vars

-----------------------------------------------------------------------------
(* Properties.                                                              *)

(* The parser's counters and states stay in their types and buffers.        *)
TypeOK ==
    /\ DOMAIN parser = DOMAIN Zeroed
    /\ parser.parseStatus \in Statuses
    /\ parser.chunkState \in ChunkStates
    /\ parser.bodyReceived \in 0..(Word - 1)
    /\ parser.chunkRemaining \in 0..(Word - 1)
    /\ parser.trailerMatch \in 0..4
    /\ Len(parser.chunkLine) <= LineCapacity
    /\ Len(parser.headers) <= HeaderCapacity
    /\ finish \in Statuses \cup {"None"}

Fed == Len(Encoded(message)) + Len(message.after) - Len(wire)
WholeMessageFed == Fed >= Len(Encoded(message))
IsPrefix(s, t) == Len(s) <= Len(t) /\ s = SubSeq(t, 1, Len(s))
Framed == message.framing # "close"

(* HttpParserFeed: where the pieces end makes no difference.  A caller that *)
(* reads in any pieces has the parser and the body of the one that reads    *)
(* octet by octet; only a sink that fails may have been given less.         *)
SplitIndependent ==
    finish = "None" =>
        /\ parser.parseStatus = shadow.parser.parseStatus
        /\ parser.parseStatus # "SinkFailed" => shadow = [parser |-> parser, sink |-> sink]
        /\ IsPrefix(sink, shadow.sink)

(* Deliver: what the sink is given is the beginning of the body, never      *)
(* framing, a trailer or what follows the message on the connection.        *)
DeliversBody ==
    IsPrefix(sink, IF Framed THEN message.body ELSE message.body \o message.after)

(* HttpParserFinish: a response that finishes well is a good one and, when  *)
(* it says where it ends (a length or chunks), has been received as a       *)
(* whole, however the connection was cut; and a good one received as a      *)
(* whole, into a sink with room for it, finishes well.  A response that     *)
(* ends with its connection finishes well wherever the connection was cut:  *)
(* the parser cannot tell, and its caller does not ask (see DownloadStore's *)
(* RecoversTruth).                                                          *)
FinishedIsWhole ==
    /\ finish = "Ok" =>
           /\ message.good
           /\ Framed => (sink = message.body /\ WholeMessageFed)
    /\ (WholeMessageFed /\ message.good /\ room >= Len(message.body \o message.after)) =>
           /\ parser.parseStatus = "Ok"
           /\ Framed => parser.connectionComplete

(* MarkComplete: a connection is offered for another request only when the  *)
(* whole of a message that says where it ends has been read from it, by a   *)
(* server that keeps connections open (HTTP/1.1) and has not said that it   *)
(* closes this one.  Octets read after the message do not take it back.     *)
ReusableAtMessageEnd ==
    parser.connectionReusable =>
        /\ Framed
        /\ WholeMessageFed
        /\ message.head[1][2] = 11
        /\ <<"Connection", "close">> \notin {message.head[i] : i \in DOMAIN message.head}
=============================================================================
