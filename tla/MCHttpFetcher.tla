---------------------------- MODULE MCHttpFetcher ----------------------------
(***************************************************************************)
(* HttpFetcher for TLC: responses with each framing, whose bodies have     *)
(* line ends in them, and malformed ones.                                  *)
(***************************************************************************)
EXTENDS HttpFetcher

HeaderBlock == <<72, CR, LF, 72>> \o CRLF \o CRLF

Bodies == {<< >>, <<65, CR, LF, CR>>, <<CR, LF, 48, CR, LF, CR, LF, 65>>}

Make(framing, payload, body, rest, valid) ==
    [framing |-> framing, want |-> Len(body), wire |-> HeaderBlock \o payload \o rest,
     need |-> Len(HeaderBlock \o payload), body |-> body, valid |-> valid]

\* A chunk with an extension, e, of its size line.
AChunk(b, e) == <<48 + Len(b)>> \o e \o CRLF \o b \o CRLF

\* The body in one chunk, or in two of which the second is 17 bytes long.
Long == [i \in 1 .. 17 |-> IF i % 2 = 0 THEN LF ELSE CR]
LongChunk == <<49, 49>> \o CRLF \o Long \o CRLF

Ends == {<<48>> \o CRLF \o CRLF, <<48, 48>> \o CRLF \o <<84>> \o CRLF \o CRLF}

ChunkedOne ==
    {Make("chunked", AChunk(b, e) \o end, b, rest, TRUE) :
        b \in Bodies \ {<< >>}, e \in {<< >>, <<Semicolon, 49>>}, end \in Ends,
        rest \in {<< >>, CRLF}}

ChunkedTwo ==
    {Make("chunked", AChunk(b, << >>) \o LongChunk \o end, b \o Long, << >>, TRUE) :
        b \in Bodies \ {<< >>}, end \in Ends}

\* Other ways to write the size of a chunk of ten bytes: A, 0Xa, " +a" and
\* "a " (in a negative one, -fff6, it is the size that wraps around).
Ten == [i \in 1 .. 10 |-> IF i < 9 THEN 65 ELSE IF i = 9 THEN CR ELSE LF]
Sizes == {<<65>>, <<Zero, 88, 97>>, <<32, Plus, 97>>, <<97, 32>>,
          <<Minus, 102, 102, 102, 54>>}

ChunkedTen ==
    {Make("chunked", size \o CRLF \o Ten \o CRLF \o <<Zero>> \o CRLF \o CRLF, Ten,
          << >>, TRUE) : size \in Sizes}

\* Two bytes announced and three sent; T, ";" and nothing for a size, and a
\* sign and "x" without digits; a size that is out of range (10000), one that
\* is not but far too large (fff0), and two that wrap around (fffe and -2).
Malformed ==
    {Make("chunked", payload, << >>, << >>, FALSE) :
        payload \in {<<50>> \o CRLF \o <<65, 65, 65>> \o CRLF} \cup
                    {size \o CRLF \o <<65, 65>> \o CRLF : size \in
                        {<<84>>, <<Semicolon>>, << >>, <<Minus>>, <<120, 49>>,
                         <<49, 48, 48, 48, 48>>, <<102, 102, 102, 48>>,
                         <<102, 102, 102, 101>>, <<Minus, 50>>}}}
    \cup {Make("badlength", <<65>>, << >>, << >>, FALSE)}

Others ==
    {Make("length", b, b, rest, TRUE) : b \in Bodies, rest \in {<< >>, <<65>>}} \cup
    {Make("close", b, b, << >>, TRUE) : b \in Bodies}

MCResponse == ChunkedOne \cup ChunkedTwo \cup ChunkedTen \cup Malformed \cup Others
=============================================================================
