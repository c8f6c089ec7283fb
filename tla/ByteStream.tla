----------------------------- MODULE ByteStream -----------------------------
(***************************************************************************)
(* What a SimpleConnection promises the thread that reads from it: the     *)
(* bytes that arrive come out once, in order, in pieces of any size, and   *)
(* the end is reported only when the stream was closed and everything that *)
(* had arrived has been read.  The reader may give up before.              *)
(***************************************************************************)
EXTENDS Naturals, Sequences

VARIABLES
    stream,   \* the bytes that have arrived
    out,      \* the bytes that were read
    closed,
    end       \* how reading ended: "no", "eof" or "quit"

vars == <<stream, out, closed, end>>

Init == stream = << >> /\ out = << >> /\ closed = FALSE /\ end = "no"

Arrive ==
    /\ ~closed
    /\ Len(stream') > Len(stream)
    /\ SubSeq(stream', 1, Len(stream)) = stream
    /\ UNCHANGED <<out, closed, end>>

Take ==
    /\ end = "no"
    /\ \E n \in Len(out) + 1 .. Len(stream) : out' = SubSeq(stream, 1, n)
    /\ UNCHANGED <<stream, closed, end>>

Close == closed' = TRUE /\ UNCHANGED <<stream, out, end>>

End == end = "no" /\ closed /\ out = stream /\ end' = "eof" /\ UNCHANGED <<stream, out, closed>>

GiveUp == end = "no" /\ end' = "quit" /\ UNCHANGED <<stream, out, closed>>

Next == Arrive \/ Take \/ Close \/ End \/ GiveUp

Spec == Init /\ [][Next]_vars
=============================================================================
