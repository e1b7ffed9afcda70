----------------------------- MODULE MCHttpParser -----------------------------
(* Responses for the parser: every framing, bodies whose octets look like     *)
(* framing, heads and size lines that must be refused.                        *)
EXTENDS HttpParser

Content == <<Data(1), CR, LF, Digit(0), CR, LF, CR, LF, Semicolon, Data(2),
             CR, CR, LF, Digit(15), LF, LF, CR>>
Body(n) == SubSeq(Content, 1, n)
Digits(n) == IF n < 10 THEN <<n>> ELSE <<n \div 10, n % 10>>

Status(version, code) == <<"HTTP", version, code>>
Length(n) == <<"Content-Length", Digits(n)>>
Chunked == <<"Transfer-Encoding", "chunked">>
Range(start, end, total) == <<"Content-Range", start, end, total>>

Plain(head, framing, n) ==
    [head |-> head, framing |-> framing, chunks |-> <<>>, extension |-> <<>>,
     trailer |-> <<>>, body |-> Body(n), after |-> <<>>, good |-> TRUE]
Bad(m) == [m EXCEPT !.good = FALSE]

Afters == {<<>>, <<Data(9), CR, LF>>}
Closes == {<<>>, <<<<"Connection", "close">>>>}

FixedLength ==
    {[Plain(<<Status(v, 200), Length(n)>> \o c, "length", n) EXCEPT !.after = a] :
        v \in {10, 11}, n \in {0, 4}, c \in Closes, a \in Afters}

Extensions == {<<>>, <<Semicolon, CR>>, <<Semicolon, Data(0)>>}
Trailers == {<<>>, <<Data(0), CR, LF>>, <<Data(0), CR, LF, Data(0), Data(0), CR, LF>>}
InChunks ==
    {[Plain(<<Status(11, 200), Chunked>>, "chunked", IF s = <<>> THEN 0 ELSE 7)
        EXCEPT !.chunks = s, !.extension = e, !.trailer = t, !.after = a] :
        s \in {<<>>, <<7>>, <<1, 6>>, <<3, 4>>}, e \in Extensions, t \in Trailers,
        a \in Afters}
        \cup {[Plain(<<Status(v, 200), Chunked>> \o c, "chunked", 17) EXCEPT
               !.chunks = <<17>>] : v \in {10, 11}, c \in Closes}

Delimited == {Plain(<<Status(v, 200), <<"Other">>>>, "close", 4) : v \in {10, 11}}

(* A range is good when it starts where it was asked to, ends inside the      *)
(* file, and is as long as the body that is said to hold it.                  *)
Partial ==
    {[Plain(<<Status(11, 206), Range(start, 4, total), Length(n)>>, "length", n) EXCEPT
        !.good = (start = ResumeOffset /\ total > 4 /\ n = 2)] :
        start \in {2, 3}, total \in {4, 5}, n \in {2, 3}}
        \cup {Plain(<<Status(11, 206), Range(3, 4, 5)>>, "close", 2),
              Bad(Plain(<<Status(11, 206), Length(2)>>, "length", 2)),
              Bad(Plain(<<Status(11, 206), Range(3, 2, 5), Length(0)>>, "length", 0))}

Heads ==
    {Plain(h, "close", 1) : h \in {
        <<Status(11, 416), <<"Unsatisfied-Range", 3>>>>,
        <<Status(11, 200), <<"Content-Encoding", "identity">>>>,
        <<Status(11, 302), <<"Location", "there">>>>}}
    \cup {Bad(Plain(h, "close", 1)) : h \in {
        <<<<"text">>>>,
        <<Status(11, 200), <<"text">>>>,
        <<Status(11, 200), <<"Content-Length", <<>>>>>>,
        <<Status(11, 200), <<"Content-Length", <<2, 6, 0>>>>>>,
        <<Status(11, 200), <<"Content-Encoding", "gzip">>>>,
        <<Status(11, 200), <<"Transfer-Encoding", "gzip">>>>,
        <<Status(11, 200), <<"Other">>, <<"Other">>, <<"Other">>, <<"Other">>>>,
        <<Status(11, 416)>>,
        <<Status(11, 302), <<"Location", "">>>>}}

(* A size that does not fit in a word, and size lines that are too long.      *)
SizeLines ==
    {Bad([Plain(<<Status(11, 200), Chunked>>, "chunked", 4) EXCEPT
            !.chunks = s, !.extension = e]) :
        s \in {<<257>>, <<4>>}, e \in {<<Data(0)>>, <<Semicolon, Data(0), Data(0)>>}}
        \cup {Bad([Plain(<<Status(11, 200), Chunked>>, "chunked", 4) EXCEPT
               !.chunks = <<257>>])}

Anything ==
    FixedLength \cup InChunks \cup Delimited \cup Partial \cup Heads \cup SizeLines
=============================================================================
