----------------------------- MODULE HttpFetcher -----------------------------
(***************************************************************************)
(* SimpleHttpFetcher::fetchBytes (http/SimpleHttpFetcher.cpp): it reads a  *)
(* response whose bytes arrive in arbitrary segments, from a server that   *)
(* may stop anywhere, close the connection or keep it open.                *)
(*                                                                         *)
(* The body is framed by chunks, by Content-Length or by the end of the    *)
(* connection.  What the header lines say is the field framing of a        *)
(* response (and want, the content length; "badlength" is one that is no   *)
(* number); in its bytes (wire) only their line ends matter.  The field    *)
(* body is what the server meant.  Sizes of chunks are numbers of SizeT    *)
(* values and are computed modulo SizeT.                                   *)
(***************************************************************************)
EXTENDS Naturals, Sequences

CONSTANTS
    Response,      \* the responses of the server
    MaxRead,       \* size of the buffer of a read; 4096 in the code
    SizeT          \* bound: how many values size_t has; 2^64 in the code

CR == 13
LF == 10
Semicolon == 59
Plus == 43
Minus == 45
Zero == 48
CRLF == <<CR, LF>>

ASSUME ConstantAssumption ==
    /\ MaxRead \in Nat \ {0} /\ SizeT \in Nat \ {0}
    /\ \A r \in Response :
          /\ r.framing \in {"chunked", "length", "badlength", "close"}
          /\ r.want \in Nat
          /\ r.wire \in Seq(Nat) /\ r.body \in Seq(Nat)
          /\ r.need \in 0 .. Len(r.wire)    \* bytes up to the end of the body
          /\ r.valid \in BOOLEAN            \* is the wire well formed, or is
                                            \* the fetcher known to accept it?

VARIABLES
    response,      \* the server's response ...
    sent,          \* ... the number of its bytes that it sends ...
    closes,        \* ... and does it close the connection then?
    unread,        \* the bytes that the fetcher has not read yet
    pc,            \* what fetchBytes does next; "null" and "fault" are
                   \* undefined behaviour
    stash,         \* headerAccum, then stash of the decoder or body
    off, chunkSize,
    out,
    result         \* what fetchBytes returned

server == <<response, sent, closes>>
vars   == <<response, sent, closes, unread, pc, stash, off, chunkSize, out, result>>

nullopt == [ok |-> FALSE, bytes |-> << >>]
Found(b) == [ok |-> TRUE, bytes |-> b]

Init ==
    /\ response \in Response
    /\ sent \in 0 .. Len(response.wire)
    /\ closes \in BOOLEAN
    /\ unread = SubSeq(response.wire, 1, sent)
    /\ pc = "connect"
    /\ stash = << >> /\ off = 0 /\ chunkSize = 0 /\ out = << >>
    /\ result = nullopt

-----------------------------------------------------------------------------
(* Searching and parsing                                                   *)

\* The offsets, from 0, at which a pattern is found in s from offset from on.
Matches(s, from, pattern) ==
    {i \in from .. Len(s) - Len(pattern) : SubSeq(s, i + 1, i + Len(pattern)) = pattern}

First(S) == CHOOSE i \in S : \A j \in S : i <= j

Line(i) == SubSeq(stash, off + 1, i)

Blank == 9 .. 13 \cup {32}
HexDigit == 48 .. 57 \cup 65 .. 70 \cup 97 .. 102

Digit(b) == CASE b <= 57 -> b - 48 [] b \in 65 .. 70 -> b - 55 [] OTHER -> b - 87

\* std::stoul(s, nullptr, 16): after blanks, at sign, there may be a sign and
\* 0x; then the digits begin at digit and go on up to end, exclusively.
At(s, i, S) == i <= Len(s) /\ s[i] \in S

IsNumber(s, sign, digit, end) ==
    LET start == IF At(s, sign, {Plus, Minus}) THEN sign + 1 ELSE sign IN
    /\ \A i \in 1 .. sign - 1 : s[i] \in Blank
    /\ ~At(s, sign, Blank)
    /\ digit = IF /\ At(s, start, {Zero}) /\ At(s, start + 1, {88, 120})
                  /\ At(s, start + 2, HexDigit)
               THEN start + 2 ELSE start
    /\ digit < end
    /\ \A i \in digit .. end - 1 : s[i] \in HexDigit
    /\ ~At(s, end, HexDigit)

Value(s, digit, end) ==
    LET value[i \in digit .. end] ==
            IF i = digit THEN 0 ELSE 16 * value[i - 1] + Digit(s[i - 1])
    IN  value[end]

\* The number, or nothing when stoul throws because there is none or it is
\* out of range.  A negative one is converted to unsigned long.
stoul(s) ==
    LET Place   == 1 .. Len(s) + 1
        numbers == {n \in Place \X Place \X Place :
                       IsNumber(s, n[1], n[2], n[3]) /\ Value(s, n[2], n[3]) < SizeT}
    IN  {IF s[n[1]] = Minus THEN (SizeT - Value(s, n[2], n[3])) % SizeT
         ELSE Value(s, n[2], n[3]) : n \in numbers}

\* The size line without chunk extensions.
hex(line) ==
    LET semicolons == Matches(line, 0, <<Semicolon>>)
    IN  IF semicolons = {} THEN line ELSE SubSeq(line, 1, First(semicolons))

-----------------------------------------------------------------------------
Return(r) == pc' = "done" /\ result' = r

\* context.connect and the request; a connection that cannot be made is a
\* null pointer that connection->write uses.
Connect ==
    /\ pc = "connect"
    /\ pc' = "headers"
    /\ UNCHANGED <<server, unread, stash, off, chunkSize, out, result>>

ConnectFails ==
    /\ pc = "connect"
    /\ pc' = "null"
    /\ UNCHANGED <<server, unread, stash, off, chunkSize, out, result>>

\* fetchBytes returns nullopt, as result is.
WriteFails ==
    /\ pc = "connect"
    /\ pc' = "unsent"
    /\ UNCHANGED <<server, unread, stash, off, chunkSize, out, result>>

EndOfHeaders == Matches(stash, 0, CRLF \o CRLF)

\* Mutant: the bytes that came with the headers are forgotten.
HeadersDropRest ==
    /\ pc = "headers"
    /\ EndOfHeaders # {}
    /\ stash' = << >>
    /\ pc' = response.framing
    /\ UNCHANGED <<server, unread, off, chunkSize, out, result>>

\* The headers are there: the rest of what was read begins the body.
Headers ==
    /\ pc = "headers"
    /\ EndOfHeaders # {}
    /\ stash' = SubSeq(stash, First(EndOfHeaders) + 5, Len(stash))
    /\ pc' = response.framing
    /\ UNCHANGED <<server, unread, off, chunkSize, out, result>>

\* std::stoull does not find a number in Content-Length.
BadLength ==
    /\ pc = "badlength"
    /\ Return(nullopt)
    /\ UNCHANGED <<server, unread, stash, off, chunkSize, out>>

LineEnds == Matches(stash, off, CRLF)

\* decodeChunked: the line with the size of a chunk
SizeLine ==
    /\ pc = "chunked"
    /\ LineEnds # {}
    /\ off' = First(LineEnds) + 2
    /\ \E line \in {hex(Line(First(LineEnds)))} :
          \/ stoul(line) = {} /\ Return(nullopt) /\ UNCHANGED chunkSize
          \/ \E size \in stoul(line) :
                /\ chunkSize' = size
                /\ pc' = IF size = 0 THEN "trailer" ELSE "chunk"
                /\ UNCHANGED result
    /\ UNCHANGED <<server, unread, stash, out>>

\* ensureN is content with a sum that has wrapped around.
ChunkIsThere == Len(stash) >= (off + chunkSize + 2) % SizeT
Wrapped      == off + chunkSize + 2 >= SizeT

\* The chunk is taken to end in front of its beginning.
ChunkOverflows ==
    /\ pc = "chunk"
    /\ ChunkIsThere /\ Wrapped
    /\ pc' = "fault"
    /\ UNCHANGED <<server, unread, stash, off, chunkSize, out, result>>

\* ... its bytes and the CRLF after them
Chunk ==
    /\ pc = "chunk"
    /\ ChunkIsThere /\ ~Wrapped
    /\ out' = out \o SubSeq(stash, off + 1, off + chunkSize)
    /\ IF SubSeq(stash, off + chunkSize + 1, off + chunkSize + 2) = CRLF
       THEN off' = off + chunkSize + 2 /\ pc' = "chunked" /\ UNCHANGED result
       ELSE off' = off + chunkSize /\ Return(nullopt)
    /\ UNCHANGED <<server, unread, stash, chunkSize>>

\* ... and, after the last one, lines up to an empty one
Trailer ==
    /\ pc = "trailer"
    /\ LineEnds # {}
    /\ off' = First(LineEnds) + 2
    /\ IF First(LineEnds) = off THEN Return(Found(out)) ELSE UNCHANGED <<pc, result>>
    /\ UNCHANGED <<server, unread, stash, chunkSize, out>>

\* Mutant: the loop goes on until there is more than what is wanted.
LengthMore ==
    /\ pc = "length"
    /\ Len(stash) > response.want
    /\ Return(Found(SubSeq(stash, 1, response.want)))
    /\ UNCHANGED <<server, unread, stash, off, chunkSize, out>>

\* Content-Length bytes are there, or more of them.
Length ==
    /\ pc = "length"
    /\ Len(stash) >= response.want
    /\ Return(Found(SubSeq(stash, 1, response.want)))
    /\ UNCHANGED <<server, unread, stash, off, chunkSize, out>>

\* The code is at a read.
Reading ==
    \/ pc = "headers" /\ EndOfHeaders = {}
    \/ pc \in {"chunked", "trailer"} /\ LineEnds = {}
    \/ pc = "chunk" /\ ~ChunkIsThere
    \/ pc = "length" /\ Len(stash) < response.want
    \/ pc = "close"

\* No more than what is missing is read of a body with a length.
Read(n) ==
    /\ Reading
    /\ n <= Len(unread)
    /\ pc = "length" => n <= response.want - Len(stash)
    /\ stash' = stash \o SubSeq(unread, 1, n)
    /\ unread' = SubSeq(unread, n + 1, Len(unread))
    /\ UNCHANGED <<server, pc, off, chunkSize, out, result>>

\* read() returns -1: the end, of the body as well if nothing else frames it
ReadEnds ==
    /\ Reading
    /\ unread = << >> /\ closes
    /\ Return(IF pc = "close" THEN Found(stash) ELSE nullopt)
    /\ UNCHANGED <<server, unread, stash, off, chunkSize, out>>

-----------------------------------------------------------------------------
Fetch == \/ Headers \/ BadLength \/ SizeLine \/ Chunk \/ ChunkOverflows \/ Trailer
         \/ Length \/ ReadEnds
         \/ \E n \in 1 .. MaxRead : Read(n)

Next == Fetch \/ Connect \/ ConnectFails \/ WriteFails

Spec == Init /\ [][Next]_vars

FairSpec == Spec /\ WF_vars(Fetch)

-----------------------------------------------------------------------------
(* Properties                                                              *)

\* What a fetch with the request sent should return: the body, if all of it
\* was sent; if not, nothing, or as much as there is where the end of the
\* connection frames the body.
HeadersEnd == First(Matches(response.wire, 0, CRLF \o CRLF)) + 4

Expected ==
    CASE response.valid /\ sent >= response.need -> Found(response.body)
      [] response.valid /\ response.framing = "close" /\ sent >= HeadersEnd ->
            Found(SubSeq(response.wire, HeadersEnd + 1, sent))
      [] OTHER -> nullopt

\* The result depends on the bytes that were sent, not on how they were cut
\* into segments: line ends and chunks that come in two reads, bytes of the
\* body that come with the headers, CR LF within a chunk, chunk extensions,
\* trailers, bytes after the end; and half a body is not taken for a whole,
\* nor a size line with no number or one out of range for a body.  Only a
\* response whose framing is broken leads to undefined behaviour.
FetchesTheBody ==
    /\ pc = "done" => result = Expected
    /\ pc = "fault" => ~response.valid

\* fetchBytes returns when the response is complete, also when the server
\* keeps the connection open, and when the server closes it, unless the size
\* of a chunk wraps around.
FetchReturns ==
    (/\ pc = "headers"
     /\ closes \/ (response.valid /\ response.framing # "close" /\ sent >= response.need))
        ~> pc \in {"done", "fault"}
=============================================================================
