------------------------- MODULE WebSocketConnection -------------------------
(***************************************************************************)
(* WebSocketConnectionImpl (ws/WebSocketConnection.hpp): one end of a      *)
(* WebSocket connection, from run() to its destruction.  The listener      *)
(* thread reads, parses and answers frames and runs the callbacks; threads *)
(* of the application send and close; close() is also called by the        *)
(* listener itself, by a callback and by the destructor.                   *)
(*                                                                         *)
(* The peer is arbitrary.  A frame arrives in two pieces, its two header   *)
(* bytes and the rest, and read() returns any number of pieces at once:    *)
(* got counts the pieces in rx, parsed the frames taken out of it.  What   *)
(* the peer has sent is chosen when it is read.  A payload is identified   *)
(* by the position of its frame in stream.                                 *)
(***************************************************************************)
EXTENDS Naturals, Sequences, SequencesExt

CONSTANTS
    Role,        \* role_: "Client" or "Server"
    App,         \* threads of the application that use the connection
    Owner,       \* the one of them that calls run() and the destructor
    Listener,    \* thread_
    NoThread,    \* nobody holds tx_mtx_
    PeerFrame,   \* the frames the peer sends
    MaxFrames,   \* bound: frames received
    MaxSends     \* bound: calls of send()

Frame == [op : {"data", "cont", "close", "ping", "pong", "other"}, fin : BOOLEAN,
          maskOk : BOOLEAN]

ASSUME ConstantAssumption ==
    /\ Role \in {"Client", "Server"}
    /\ Owner \in App
    /\ Listener \notin App
    /\ NoThread \notin App \cup {Listener}
    /\ PeerFrame \subseteq Frame
    /\ MaxFrames \in Nat
    /\ MaxSends \in Nat

Thread == App \cup {Listener}

VARIABLES
    closed_, tx_mtx_,
    sock,        \* conn_: "open" or "closed"
    thread_,     \* "none", "running" or "joined"
    freed,       \* has the destructor returned?
    stream,      \* the frames received so far, complete or not
    got, parsed, \* pieces in rx so far, and frames parsed
    continued, message,
    pc,          \* what each thread does next
    call,        \* call[x]: the frame it writes, and where it goes on
    delivered,   \* the arguments of onMessage, in order
    notified,    \* from where each call of onClose came
    closeSent,   \* was a CLOSE frame written?
    sends

rx     == <<stream, got, parsed, continued, message>>
object == <<closed_, sock, thread_, freed>>
trace  == <<delivered, notified>>
vars   == <<closed_, tx_mtx_, sock, thread_, freed, stream, got, parsed, continued,
            message, pc, call, delivered, notified, closeSent, sends>>

\* The steps of close(); "lock" and "write" are those of every write.
CloseSteps == {"c_flag", "c_lock", "c_write", "c_conn", "c_join", "c_notify"}
State == {"none", "run", "start", "idle", "lock", "write", "test", "read",
          "parse", "unlock", "ended", "d_join", "gone"} \cup CloseSteps
Call == [frame : {"none", "text", "close", "pong"}, self : BOOLEAN, next : State]
NoCall == [frame |-> "none", self |-> FALSE, next |-> "idle"]

TypeOK ==
    /\ closed_ \in BOOLEAN
    /\ tx_mtx_ \in Thread \cup {NoThread}
    /\ sock \in {"open", "closed"}
    /\ thread_ \in {"none", "running", "joined"}
    /\ freed \in BOOLEAN
    /\ stream \in Seq(PeerFrame)
    /\ got \in 0 .. 2 * Len(stream)
    /\ parsed \in 0 .. Len(stream)
    /\ continued \in BOOLEAN
    /\ message \in Seq(Nat)
    /\ pc \in [Thread -> State]
    /\ call \in [Thread -> Call]
    /\ delivered \in Seq(Seq(Nat))
    /\ notified \in Seq(State)
    /\ closeSent \in BOOLEAN
    /\ sends \in 0 .. MaxSends

Init ==
    /\ closed_ = FALSE
    /\ tx_mtx_ = NoThread
    /\ sock = "open"
    /\ thread_ = "none"
    /\ freed = FALSE
    /\ stream = << >> /\ got = 0 /\ parsed = 0
    /\ continued = FALSE /\ message = << >>
    /\ pc = [x \in Thread |-> CASE x = Owner -> "run" [] x = Listener -> "none"
                                [] OTHER -> "idle"]
    /\ call = [x \in Thread |-> NoCall]
    /\ delivered = << >>
    /\ notified = << >>
    /\ closeSent = FALSE
    /\ sends = 0

Goto(x, next) == pc' = [pc EXCEPT ![x] = next]

\* x enters a call that goes on at `next' when it returns.
Enter(x, step, frame, self, next) ==
    /\ Goto(x, step)
    /\ call' = [call EXCEPT ![x] = [frame |-> frame, self |-> self, next |-> next]]

Return(x) == Goto(x, call[x].next) /\ call' = [call EXCEPT ![x] = NoCall]

-----------------------------------------------------------------------------
(* Writing: lock_guard lg(tx_mtx_); conn_->write(frame).  A write to a     *)
(* peer that does not read blocks, with the mutex held, and may do so for  *)
(* ever: what could end it, conn_->close(), comes after tx_mtx_ in close().*)
(* That a write failed is noticed by nobody but the caller of send().      *)

Lock(x) ==
    /\ pc[x] \in {"lock", "c_lock"}
    /\ tx_mtx_ = NoThread
    /\ tx_mtx_' = x
    /\ Goto(x, IF pc[x] = "lock" THEN "write" ELSE "c_write")
    /\ UNCHANGED <<object, rx, call, trace, closeSent, sends>>

InWrite(x) == pc[x] \in {"write", "c_write"}

\* send() and PONG
Write(x) ==
    /\ pc[x] = "write"
    /\ call[x].frame # "close"
    /\ tx_mtx_' = NoThread
    /\ Return(x)
    /\ UNCHANGED <<object, rx, trace, closeSent, sends>>

\* The listener's CLOSE, followed by close(false).  The answer to the peer's
\* CLOSE is in a block of its own; on an error the mutex is kept until
\* listen() returns.
WriteClose(x) ==
    /\ pc[x] = "write"
    /\ call[x].frame = "close"
    /\ closeSent' = TRUE
    /\ tx_mtx_' = IF call[x].next = "unlock" THEN tx_mtx_ ELSE NoThread
    /\ Enter(x, "c_flag", "none", FALSE, call[x].next)
    /\ UNCHANGED <<object, rx, trace, sends>>

\* The application sends; afterwards x goes on at `next'.
SendFrom(x, next) ==
    /\ sends < MaxSends
    /\ sends' = sends + 1
    /\ Enter(x, "lock", "text", FALSE, next)

-----------------------------------------------------------------------------
(* close(self)                                                             *)

\* Mutant: closed_ is tested and not set.
CloseFlagRead(x) ==
    /\ pc[x] = "c_flag"
    /\ IF closed_ THEN Return(x)
       ELSE /\ Goto(x, IF call[x].self THEN "c_lock" ELSE "c_conn")
            /\ UNCHANGED call
    /\ UNCHANGED <<object, tx_mtx_, rx, trace, closeSent, sends>>

\* Mutant: close(true) closes the socket without the CLOSE frame.
CloseFlagSilent(x) ==
    /\ pc[x] = "c_flag"
    /\ closed_' = TRUE
    /\ IF closed_ THEN Return(x) ELSE Goto(x, "c_conn") /\ UNCHANGED call
    /\ UNCHANGED <<tx_mtx_, sock, thread_, freed, rx, trace, closeSent, sends>>

\* if (closed_.exchange(true)) return
CloseFlag(x) ==
    /\ pc[x] = "c_flag"
    /\ closed_' = TRUE
    /\ IF closed_ THEN Return(x)
       ELSE /\ Goto(x, IF call[x].self THEN "c_lock" ELSE "c_conn")
            /\ UNCHANGED call
    /\ UNCHANGED <<tx_mtx_, sock, thread_, freed, rx, trace, closeSent, sends>>

\* if (self): the CLOSE frame, under the mutex
CloseWrite(x) ==
    /\ pc[x] = "c_write"
    /\ closeSent' = TRUE
    /\ tx_mtx_' = NoThread
    /\ Goto(x, "c_conn")
    /\ UNCHANGED <<object, rx, call, trace, sends>>

\* Mutant: the socket stays open until the destructor.
CloseConnNot(x) ==
    /\ pc[x] = "c_conn"
    /\ Goto(x, "c_join")
    /\ UNCHANGED <<object, tx_mtx_, rx, call, trace, closeSent, sends>>

CloseConn(x) ==
    /\ pc[x] = "c_conn"
    /\ sock' = "closed"
    /\ Goto(x, "c_join")
    /\ UNCHANGED <<closed_, tx_mtx_, thread_, freed, rx, call, trace, closeSent, sends>>

\* Mutant: close() does not wait for the listener.
CloseJoinNot(x) ==
    /\ pc[x] = "c_join"
    /\ Goto(x, "c_notify")
    /\ UNCHANGED <<object, tx_mtx_, rx, call, trace, closeSent, sends>>

\* The listener is joined, if there is one, unless it is the caller.
CloseJoin(x) ==
    /\ pc[x] = "c_join"
    /\ IF thread_ = "running" /\ x # Listener
       THEN pc[Listener] = "ended" /\ thread_' = "joined"
       ELSE UNCHANGED thread_
    /\ Goto(x, "c_notify")
    /\ UNCHANGED <<closed_, sock, freed, tx_mtx_, rx, call, trace, closeSent, sends>>

\* callbacks_.onClose, which may call send(): close() returns after it.
CloseNotify(x) ==
    /\ pc[x] = "c_notify"
    /\ notified' = Append(notified, call[x].next)
    /\ \/ Return(x) /\ UNCHANGED sends
       \/ SendFrom(x, call[x].next)
    /\ UNCHANGED <<object, tx_mtx_, rx, delivered, closeSent>>

-----------------------------------------------------------------------------
(* The application.  A callback may call send(), and the callbacks of a    *)
(* WebSocketClient its close().                                            *)

InCallback(x, next) ==
    \/ Goto(x, next) /\ UNCHANGED <<call, sends>>
    \/ SendFrom(x, next)
    \/ Role = "Client" /\ Enter(x, "c_flag", "none", TRUE, next) /\ UNCHANGED sends

\* run(): onOpen, and then the listener is started.
OnOpen ==
    /\ pc[Owner] = "run"
    /\ InCallback(Owner, "start")
    /\ UNCHANGED <<object, tx_mtx_, rx, trace, closeSent>>

StartListener ==
    /\ pc[Owner] = "start"
    /\ thread_' = "running"
    /\ pc' = [pc EXCEPT ![Owner] = "idle", ![Listener] = "test"]
    /\ UNCHANGED <<closed_, sock, freed, tx_mtx_, rx, call, trace, closeSent, sends>>

Started == thread_ # "none"

Send(x) ==
    /\ pc[x] = "idle" /\ Started
    /\ SendFrom(x, "idle")
    /\ UNCHANGED <<object, tx_mtx_, rx, trace, closeSent>>

\* WebSocketClient::close()
CloseCall(x) ==
    /\ Role = "Client"
    /\ pc[x] = "idle" /\ Started
    /\ Enter(x, "c_flag", "none", TRUE, "idle")
    /\ UNCHANGED <<object, tx_mtx_, rx, trace, closeSent, sends>>

\* The destructor; no other call of the application is in progress then.
Destroy ==
    /\ Started
    /\ \A x \in App : pc[x] = "idle"
    /\ pc' = [x \in Thread |-> CASE x = Owner -> "c_flag" [] x = Listener -> pc[x]
                                 [] OTHER -> "gone"]
    /\ call' = [call EXCEPT ![Owner] = [frame |-> "none", self |-> TRUE, next |-> "d_join"]]
    /\ UNCHANGED <<object, tx_mtx_, rx, trace, closeSent, sends>>

\* Mutant: the destructor relies on the join in close().
DestroyJoinNot ==
    /\ pc[Owner] = "d_join"
    /\ freed' = TRUE
    /\ Goto(Owner, "gone")
    /\ UNCHANGED <<closed_, sock, thread_, tx_mtx_, rx, call, trace, closeSent, sends>>

DestroyJoin ==
    /\ pc[Owner] = "d_join"
    /\ thread_ = "running" => pc[Listener] = "ended"
    /\ thread_' = "joined"
    /\ freed' = TRUE
    /\ Goto(Owner, "gone")
    /\ UNCHANGED <<closed_, sock, tx_mtx_, rx, call, trace, closeSent, sends>>

-----------------------------------------------------------------------------
(* listen()                                                                *)

ListenTest ==
    /\ pc[Listener] = "test"
    /\ Goto(Listener, IF closed_ THEN "ended" ELSE "read")
    /\ UNCHANGED <<object, tx_mtx_, rx, call, trace, closeSent, sends>>

\* read() returns the rest of a frame, more frames, or the head of one.
Read(new, cut) ==
    /\ pc[Listener] = "read"
    /\ sock = "open"
    /\ Len(stream) + Len(new) <= MaxFrames
    /\ stream' = stream \o new
    /\ got' = 2 * Len(stream') - cut
    /\ got' > got
    /\ Goto(Listener, "parse")
    /\ UNCHANGED <<object, tx_mtx_, parsed, continued, message, call, trace, closeSent, sends>>

\* The peer has gone, or this side has closed the socket: break, and closed_
\* stays as it is.
ReadFails ==
    /\ pc[Listener] = "read"
    /\ Goto(Listener, "ended")
    /\ UNCHANGED <<object, tx_mtx_, rx, call, trace, closeSent, sends>>

HeadThere  == got >= 2 * parsed + 1
FrameThere == got >= 2 * parsed + 2
This       == stream[parsed + 1]

\* Neither the header nor the whole frame is there: back to read().
ParseBreak ==
    /\ pc[Listener] = "parse"
    /\ ~FrameThere
    /\ HeadThere => This.maskOk
    /\ Goto(Listener, "test")
    /\ UNCHANGED <<object, tx_mtx_, rx, call, trace, closeSent, sends>>

\* A frame masked against the rules (seen in its header already), CONT with
\* nothing to continue, or a new message in the middle of one: CLOSE 1002.
Wrong ==
    \/ HeadThere /\ ~This.maskOk
    \/ /\ FrameThere
       /\ This.op = IF continued THEN "data" ELSE "cont"

ParseError ==
    /\ pc[Listener] = "parse"
    /\ Wrong
    /\ Enter(Listener, "lock", "close", FALSE, "unlock")
    /\ UNCHANGED <<object, tx_mtx_, rx, trace, closeSent, sends>>

Parsing == pc[Listener] = "parse" /\ FrameThere /\ ~Wrong

ParseControl ==
    /\ Parsing
    /\ This.op \in {"close", "ping", "pong", "other"}
    /\ parsed' = parsed + 1
    /\ CASE This.op = "close" -> Enter(Listener, "lock", "close", FALSE, "ended")
         [] This.op = "ping"  -> Enter(Listener, "lock", "pong", FALSE, "parse")
         [] OTHER             -> UNCHANGED <<pc, call>>
    /\ UNCHANGED <<object, tx_mtx_, stream, got, continued, message, trace, closeSent, sends>>

\* Mutant: the assembled message is not cleared.
ParseDataKeep ==
    /\ Parsing
    /\ This.op \in {"data", "cont"}
    /\ parsed' = parsed + 1
    /\ message' = Append(message, parsed')
    /\ continued' = ~This.fin
    /\ IF This.fin
       THEN delivered' = Append(delivered, message') /\ InCallback(Listener, "parse")
       ELSE UNCHANGED <<delivered, pc, call, sends>>
    /\ UNCHANGED <<object, tx_mtx_, stream, got, notified, closeSent>>

\* TEXT and BIN, and CONT: the payload is collected, and with FIN the whole
\* message is handed to onMessage.
ParseData ==
    LET whole == Append(message, parsed + 1) IN
    /\ Parsing
    /\ This.op \in {"data", "cont"}
    /\ parsed' = parsed + 1
    /\ continued' = ~This.fin
    /\ message' = IF This.fin THEN << >> ELSE whole
    /\ IF This.fin
       THEN delivered' = Append(delivered, whole) /\ InCallback(Listener, "parse")
       ELSE UNCHANGED <<delivered, pc, call, sends>>
    /\ UNCHANGED <<object, tx_mtx_, stream, got, notified, closeSent>>

\* Mutant: an error path returns with the mutex locked.
ListenUnlockNot ==
    /\ pc[Listener] = "unlock"
    /\ Goto(Listener, "ended")
    /\ UNCHANGED <<object, tx_mtx_, rx, call, trace, closeSent, sends>>

\* return from an error path: the lock_guard goes out of scope.
ListenUnlock ==
    /\ pc[Listener] = "unlock"
    /\ tx_mtx_' = NoThread
    /\ Goto(Listener, "ended")
    /\ UNCHANGED <<object, rx, call, trace, closeSent, sends>>

-----------------------------------------------------------------------------
Close(x) == \/ CloseFlag(x) \/ CloseWrite(x) \/ CloseConn(x) \/ CloseJoin(x)
            \/ CloseNotify(x)

\* What thread x does without waiting for the application.
Step(x) ==
    \/ Lock(x) \/ Write(x) \/ WriteClose(x) \/ Close(x)
    \/ x = Owner /\ (OnOpen \/ StartListener \/ DestroyJoin)
    \/ x = Listener /\ \/ ListenTest \/ ParseBreak \/ ParseError \/ ParseControl
                       \/ ParseData \/ ListenUnlock
                       \/ sock = "closed" /\ ReadFails

Next ==
    \/ \E x \in Thread : Step(x)
    \/ \E x \in App : Send(x) \/ CloseCall(x)
    \/ Destroy
    \/ \E new \in BoundedSeq(PeerFrame, MaxFrames), cut \in {0, 1} : Read(new, cut)
    \/ ReadFails

Spec == Init /\ [][Next]_vars

\* Threads that can go on do.  The peer need not send anything nor read what
\* is written to it, and the application need not call anything.
FairSpec == Spec /\ \A x \in Thread : WF_vars(~InWrite(x) /\ Step(x))

-----------------------------------------------------------------------------
(* Properties                                                              *)

\* onClose runs at most once, although the application's threads, the
\* listener, a callback and the destructor all call close().
OnCloseOnce == Len(notified) <= 1

\* When the destructor returns the listener has ended: it uses neither the
\* members nor the callbacks of a connection that is gone, also when it was
\* itself the one that closed it.
ListenerEndsFirst == freed => pc[Listener] = "ended"

\* No onMessage follows onClose, whoever closed the connection, unless a
\* message callback called close() itself: listen() then goes on with the
\* frames it has read already.
SilentAfterOnClose ==
    [][delivered' # delivered => notified \in {<< >>, <<"parse">>}]_vars

\* This side never closes the socket without a CLOSE frame before.
NoSilentClose == sock = "closed" => closeSent

\* The messages in the first n frames: the payloads from a data frame to the
\* next one with FIN, whatever control frames lie in between.
IsData(i) == stream[i].op \in {"data", "cont"}
MessageEnds(n) == {i \in 1 .. n : IsData(i) /\ stream[i].fin}
MessageEndingAt(i) ==
    {j \in 1 .. i : IsData(j) /\ \A k \in j .. i - 1 : ~(IsData(k) /\ stream[k].fin)}

\* A data frame and the frames that continue it, all of them and in order.
IsMessage(m) ==
    /\ m # << >>
    /\ \A i, j \in 1 .. Len(m) : i < j => m[i] < m[j]
    /\ Range(m) = MessageEndingAt(Last(m))
    /\ \A i \in 1 .. Len(m) : stream[m[i]].op = IF i = 1 THEN "data" ELSE "cont"

\* onMessage gets the messages the peer sent, complete, unmixed, in order and
\* none twice, however the bytes were cut and fragments and control frames
\* interleaved.
MessagesAsSent ==
    /\ \A n \in 1 .. Len(delivered) : IsMessage(delivered[n])
    /\ \A k, n \in 1 .. Len(delivered) : k < n => Last(delivered[k]) < Last(delivered[n])
    /\ {Last(delivered[n]) : n \in 1 .. Len(delivered)} = MessageEnds(parsed)

\* The listener waits for the mutex it has itself: the callback onClose sent
\* something, and an error path had called close(false) under the mutex.
SelfDeadlock == pc[Listener] = "lock" /\ tx_mtx_ = Listener

\* A thread stays in a write that never returns: the peer does not read.
WriteHangs == \E x \in Thread : <>[](InWrite(x))

\* close() returns, wherever the listener is: it is not left in read(), and
\* what it waits for, tx_mtx_ or the listener, it gets.  There are two
\* exceptions: SelfDeadlock, and a write that a peer keeps blocked, its own
\* CLOSE frame's or one that holds tx_mtx_.
CloseReturns ==
    \/ \A x \in App :
          pc[x] = "c_flag" ~> (pc[x] \in {"idle", "start", "d_join"} \/ SelfDeadlock)
    \/ WriteHangs

\* A connection whose peer said CLOSE or broke the protocol is reported
\* closed, and the mutex of its error paths is free again, with the same two
\* exceptions: the listener waits for tx_mtx_ as close() does.
PeerCloseIsReported ==
    \/ (pc[Listener] = "lock" /\ call[Listener].frame = "close")
          ~> (notified # << >> /\ (tx_mtx_ # Listener \/ SelfDeadlock))
    \/ WriteHangs
=============================================================================
