------------------------------ MODULE WsWrapper ------------------------------
(***************************************************************************)
(* MQTT over WebSocket: WsWrapper (mqtt/WsMqttWrapper.hpp), the connection *)
(* a broker handler reads from and writes to, and wsAcceptLoop             *)
(* (mqtt/MQTTBroker.cpp), which connects it to the callbacks of a          *)
(* WebSocket.  One WebSocket client: its listener thread runs the          *)
(* callbacks, a detached handler (handleClient) owns the wrapper and frees *)
(* it at its end, and the thread of wsAcceptLoop removes closed wrappers   *)
(* from the map `connections'.                                             *)
(*                                                                         *)
(* A byte is its position in what the client sends.  The handler's uses of *)
(* the connection are single reads and writes: readExact is a series of    *)
(* reads.  A use of an object that is gone ends the behaviour (broken).    *)
(***************************************************************************)
EXTENDS Naturals, Sequences

CONSTANTS
    MaxBytes,      \* bound: bytes the client sends
    MaxMessage,    \* bound: size of a message
    MaxMessages,   \* bound: messages, empty ones included
    MaxRead,       \* bound: size of the handler's reads
    MaxWrites      \* bound: writes of the handler

ASSUME ConstantAssumption ==
    {MaxBytes, MaxMessage, MaxMessages, MaxRead, MaxWrites} \subseteq Nat \ {0}

VARIABLES
    queue_, closed_,
    signal,        \* is a notify of cv_ due, after the mutex was released?
    wrapper,       \* "none", "alive" or "freed"
    entry,         \* connections[conn]: "none" or "wrapper"
    ws,            \* the WebSocketConnection: "new", "open", "closed", "freed"
    handler,       \* what the handler does next
    size,          \* the size of its read()
    loop,          \* wsAcceptLoop: "sleep", "visit" or "ended"
    stop_,
    broken,        \* the use of an object that is gone
    \* Auxiliary and bounds.
    arrived, out, end, messages, writes

aux   == <<arrived, out, end>>
limit == <<messages, writes>>
vars  == <<queue_, closed_, signal, wrapper, entry, ws, handler, size, loop, stop_,
           broken, arrived, out, end, messages, writes>>

TypeOK ==
    /\ queue_ \in Seq(Seq(1 .. MaxBytes))
    /\ closed_ \in BOOLEAN /\ signal \in BOOLEAN /\ stop_ \in BOOLEAN
    /\ wrapper \in {"none", "alive", "freed"}
    /\ wrapper = "alive" <=> handler \notin {"none", "ended"}
    /\ entry \in {"none", "wrapper"}
    /\ ws \in {"new", "open", "closed", "freed"}
    /\ handler \in {"none", "idle", "check", "asleep", "send", "ended"}
    /\ size \in 0 .. MaxRead
    /\ loop \in {"sleep", "visit", "ended"}
    /\ broken \in {"no", "open", "push", "close", "notify", "send", "visit"}
    /\ arrived \in Seq(1 .. MaxBytes) /\ out \in Seq(1 .. MaxBytes)
    /\ end \in {"no", "eof", "quit"}
    /\ messages \in 0 .. MaxMessages /\ writes \in 0 .. MaxWrites

Init ==
    /\ queue_ = << >> /\ closed_ = FALSE /\ signal = FALSE
    /\ wrapper = "none" /\ entry = "none" /\ ws = "new"
    /\ handler = "none" /\ size = 0
    /\ loop = "sleep" /\ stop_ = FALSE
    /\ broken = "no"
    /\ arrived = << >> /\ out = << >> /\ end = "no"
    /\ messages = 0 /\ writes = 0

-----------------------------------------------------------------------------
(* The callbacks, on the threads of the WebSocket                          *)

OnOpen ==
    /\ ws = "new"
    /\ loop # "ended"
    /\ ws' = "open"
    /\ wrapper' = "alive"
    /\ entry' = "wrapper"
    /\ handler' = "idle"
    /\ UNCHANGED <<queue_, closed_, signal, size, loop, stop_, broken, aux, limit>>

\* connections[conn]-> in a callback finds the wrapper.
Found == loop # "ended" /\ entry = "wrapper" /\ wrapper = "alive"

\* It does not: the wrapper is gone, the entry was removed (operator[] makes
\* a null one), or the map itself, a local of wsAcceptLoop, is.
Lost(use) ==
    /\ ~Found
    /\ broken' = use
    /\ UNCHANGED <<queue_, closed_, signal, wrapper, entry, ws, handler, size, loop,
                   stop_, aux, limit>>

\* The server may still be in the handshake when wsAcceptLoop has ended.
OnOpenLost == ws = "new" /\ loop = "ended" /\ Lost("open")

\* Mutant: push_back does not notify.
PushQuietly(n) ==
    LET msg == [i \in 1 .. n |-> Len(arrived) + i] IN
    /\ ws = "open"
    /\ messages < MaxMessages /\ Len(arrived) + n <= MaxBytes
    /\ Found
    /\ messages' = messages + 1
    /\ queue_' = Append(queue_, msg)
    /\ arrived' = arrived \o msg
    /\ UNCHANGED <<closed_, signal, wrapper, entry, ws, handler, size, loop, stop_,
                   broken, out, end, writes>>

\* onMessage: push_back(msg)
Push(n) ==
    LET msg == [i \in 1 .. n |-> Len(arrived) + i] IN
    /\ ws = "open" /\ ~signal
    /\ messages < MaxMessages /\ Len(arrived) + n <= MaxBytes
    /\ Found
    /\ messages' = messages + 1
    /\ queue_' = Append(queue_, msg)
    /\ arrived' = arrived \o msg
    /\ signal' = TRUE
    /\ UNCHANGED <<closed_, wrapper, entry, ws, handler, size, loop, stop_, broken, out,
                   end, writes>>

PushLost == ws = "open" /\ ~signal /\ messages < MaxMessages /\ Lost("push")

\* Mutant: close() does not notify.
OnCloseQuietly ==
    /\ ws = "open" /\ ~signal
    /\ Found
    /\ closed_' = TRUE
    /\ ws' = "closed"
    /\ UNCHANGED <<queue_, signal, wrapper, entry, handler, size, loop, stop_, broken,
                   aux, limit>>

\* onClose: close()
OnClose ==
    /\ ws = "open" /\ ~signal
    /\ Found
    /\ closed_' = TRUE
    /\ ws' = "closed"
    /\ signal' = TRUE
    /\ UNCHANGED <<queue_, wrapper, entry, handler, size, loop, stop_, broken, aux,
                   limit>>

OnCloseLost == ws = "open" /\ ~signal /\ Lost("close")

\* cv_.notify_one or notify_all, after the mutex was released: one thread at
\* most is waiting.  A handler that was not may have freed cv_ by now.
Notify ==
    /\ signal
    /\ signal' = FALSE
    /\ handler' = IF handler = "asleep" THEN "check" ELSE handler
    /\ broken' = IF wrapper = "freed" THEN "notify" ELSE broken
    /\ UNCHANGED <<queue_, closed_, wrapper, entry, ws, size, loop, stop_, aux, limit>>

\* The server destroys a connection some time after its onClose.
Reap ==
    /\ ws = "closed" /\ ~signal
    /\ ws' = "freed"
    /\ UNCHANGED <<queue_, closed_, signal, wrapper, entry, handler, size, loop, stop_,
                   broken, aux, limit>>

-----------------------------------------------------------------------------
(* The handler                                                             *)

ReadCall(n) ==
    /\ handler = "idle"
    /\ size' = n
    /\ handler' = "check"
    /\ UNCHANGED <<queue_, closed_, signal, wrapper, entry, ws, loop, stop_, broken,
                   aux, limit>>

\* The end of handleClient frees the Client and with it the wrapper.
HandlerEnds(how) ==
    /\ handler' = "ended"
    /\ wrapper' = "freed"
    /\ size' = 0
    /\ end' = how

\* cv_.wait: the predicate is tested under the mutex; a thread that finds it
\* false sleeps until it is notified, and tests again.
ReadSleep ==
    /\ handler = "check"
    /\ ~closed_ /\ queue_ = << >>
    /\ handler' = "asleep"
    /\ UNCHANGED <<queue_, closed_, signal, wrapper, entry, ws, size, loop, stop_,
                   broken, aux, limit>>

\* Mutant: closed_ is tested before the queue.
ReadEofEarly ==
    /\ handler = "check"
    /\ closed_
    /\ HandlerEnds("eof")
    /\ UNCHANGED <<queue_, closed_, signal, entry, ws, loop, stop_, broken, arrived, out,
                   limit>>

\* return -1: readExact fails and the handler ends
ReadEof ==
    /\ handler = "check"
    /\ closed_ /\ queue_ = << >>
    /\ HandlerEnds("eof")
    /\ UNCHANGED <<queue_, closed_, signal, entry, ws, loop, stop_, broken, arrived, out,
                   limit>>

\* The front of the queue, or as much of it as fits.  An empty message makes
\* read() return 0, which readExact takes for the end.
ReadTake ==
    LET msg    == Head(queue_)
        toCopy == IF size < Len(msg) THEN size ELSE Len(msg)
        rest   == SubSeq(msg, toCopy + 1, Len(msg)) IN
    /\ handler = "check"
    /\ queue_ # << >>
    /\ queue_' = IF rest = << >> THEN Tail(queue_) ELSE <<rest>> \o Tail(queue_)
    /\ out' = out \o SubSeq(msg, 1, toCopy)
    /\ IF toCopy = 0
       THEN HandlerEnds("quit")
       ELSE handler' = "idle" /\ size' = 0 /\ UNCHANGED <<wrapper, end>>
    /\ UNCHANGED <<closed_, signal, entry, ws, loop, stop_, broken, arrived, limit>>

\* write(): if (closed_) return false, which ends the handler as a rule ...
WriteCheck ==
    /\ handler = "idle"
    /\ writes < MaxWrites
    /\ writes' = writes + 1
    /\ IF closed_ THEN HandlerEnds("quit")
       ELSE handler' = "send" /\ UNCHANGED <<wrapper, size, end>>
    /\ UNCHANGED <<queue_, closed_, signal, entry, ws, loop, stop_, broken, arrived, out,
                   messages>>

\* ... and then connection->send, by when the connection may be gone.
WriteSend ==
    /\ handler = "send"
    /\ handler' = "idle"
    /\ broken' = IF ws = "freed" THEN "send" ELSE broken
    /\ UNCHANGED <<queue_, closed_, signal, wrapper, entry, ws, size, loop, stop_, aux,
                   limit>>

\* DISCONNECT, stop_, or a packet that ends clientLoop.
Quit ==
    /\ handler = "idle"
    /\ HandlerEnds("quit")
    /\ UNCHANGED <<queue_, closed_, signal, entry, ws, loop, stop_, broken, arrived, out,
                   limit>>

-----------------------------------------------------------------------------
(* wsAcceptLoop after start(), and stop()                                  *)

LoopWake ==
    /\ loop = "sleep"
    /\ loop' = IF stop_ THEN "ended" ELSE "visit"
    /\ UNCHANGED <<queue_, closed_, signal, wrapper, entry, ws, handler, size, stop_,
                   broken, aux, limit>>

\* Mutant: the entries of open connections are removed.
VisitAny ==
    /\ loop = "visit"
    /\ loop' = "sleep"
    /\ entry' = "none"
    /\ UNCHANGED <<queue_, closed_, signal, wrapper, ws, handler, size, stop_, broken,
                   aux, limit>>

\* if (it->second->closed()) erase(it)
Freed == entry = "wrapper" /\ wrapper = "freed"

Visit ==
    /\ loop = "visit" /\ ~Freed
    /\ loop' = "sleep"
    /\ entry' = IF closed_ THEN "none" ELSE entry
    /\ UNCHANGED <<queue_, closed_, signal, wrapper, ws, handler, size, stop_, broken,
                   aux, limit>>

\* ... of a wrapper that its handler has freed.
VisitLost == loop = "visit" /\ Freed /\ Lost("visit")

Stop ==
    /\ ~stop_
    /\ stop_' = TRUE
    /\ UNCHANGED <<queue_, closed_, signal, wrapper, entry, ws, handler, size, loop,
                   broken, aux, limit>>

-----------------------------------------------------------------------------
Callback == \/ OnOpen \/ OnOpenLost \/ OnClose \/ OnCloseLost \/ PushLost
            \/ \E n \in 0 .. MaxMessage : Push(n)

Handle == \/ \E n \in 1 .. MaxRead : ReadCall(n)
          \/ ReadSleep \/ ReadEof \/ ReadTake \/ WriteSend

Next ==
    /\ broken = "no"
    /\ \/ Callback \/ Notify \/ Reap
       \/ Handle \/ WriteCheck \/ Quit
       \/ LoopWake \/ Visit \/ VisitLost \/ Stop

Spec == Init /\ [][Next]_vars

\* Threads that can go on do; the client need not send or close.
FairSpec ==
    /\ Spec
    /\ WF_vars(broken = "no" /\ Handle)
    /\ WF_vars(broken = "no" /\ Notify)

-----------------------------------------------------------------------------
(* Properties                                                              *)

\* The wrapper is a byte stream: the messages of the client come out of
\* read() as one sequence of bytes, none missing, doubled or out of order,
\* also when reads and messages have different sizes, and the handler is
\* told of the end only after it has got everything that arrived before.
Stream == INSTANCE ByteStream WITH stream <- arrived, closed <- closed_

ImplementsByteStream == Stream!Spec

\* The callbacks of a WebSocket find the wrapper of their connection, unless
\* its handler had ended before the connection closed, or wsAcceptLoop had:
\* the loop that removes closed connections does not take it from them.
CallbacksFindWrapper ==
    broken \in {"open", "push", "close"} => (end = "quit" /\ ~closed_) \/ loop = "ended"

\* A handler whose client has closed comes to its end: it is woken when it
\* sleeps, and it does not sleep again.
ClosedEndsHandler == (closed_ /\ broken = "no") ~> (handler = "ended" \/ broken # "no")

\* A message that has arrived is read, or reading has ended: no wake-up is
\* lost between the test of the predicate and the wait.
ArrivedIsRead ==
    \A n \in 1 .. MaxBytes :
        (Len(arrived) >= n) ~> (Len(out) >= n \/ handler = "ended" \/ broken # "no")
=============================================================================
