--------------------------- MODULE WebSocketServer ---------------------------
(***************************************************************************)
(* WebSocket::Impl (ws/WebSocket.cpp) and the clients that connect to it   *)
(* (ws/WebSocketClient.cpp).  One thread accepts connections, performs the *)
(* handshake and runs onOpen for one after the other, and destroys the     *)
(* connections that are closed whenever accept() has returned.  Each       *)
(* connection has a listener thread, and the application's thread calls    *)
(* stop() and the destructor.                                              *)
(*                                                                         *)
(* A connection is what WebSocketConnection shows it to be: its listener   *)
(* or its destructor sets closed_, whoever does runs onClose, and the      *)
(* destructor waits for the listener.  A write holds tx_mtx_ and may block *)
(* for ever, as the client need not read.  A client is sent what onOpen    *)
(* sends ("greeting") and other messages: the answer to its own, and what  *)
(* a thread of the application or onMessage of another connection sends.   *)
(* The application uses the pointer that onOpen gives it until onClose:    *)
(* onClose waits for sends that are in progress.  The client's read()      *)
(* returns any number of the frames and responses that are under way.      *)
(***************************************************************************)
EXTENDS Naturals, Sequences, SequencesExt

CONSTANTS
    Conn,      \* connections, each made at most once
    NoConn,
    MaxSends,  \* bound: messages that clients and the application's thread send
    Faults     \* bound: which of "accept" (accept() fails on a listening
               \* socket), "throw" (onOpen or std::thread throws), "bad"
               \* (requests that are refused, and peers that send none), "lost"
               \* (peers that go without CLOSE) and "wrong" (peers that send a
               \* frame against the rules) happen

ASSUME ConstantAssumption ==
    /\ NoConn \notin Conn
    /\ {"free", "app", "run"} \cap Conn = {}
    /\ MaxSends \in Nat
    /\ Faults \subseteq {"accept", "throw", "bad", "lost", "wrong"}

VARIABLES
    stop_, socket,
    pc, current,   \* the thread in run(), and the connection it deals with
    todo,          \* connections the cleanup has not looked at yet
    connections,
    destructor,    \* the application: "running", "stop", "stopped",
                   \* "close", "join" or "done"
    request,       \* request[c]: "none", "valid", "invalid" or "missing"
    listener,      \* the listener thread of c
    closed_,       \* closed_ of c
    tx,            \* tx_mtx_ of c: "free", or who has it: "app", "run", or the
                   \* connection whose listener does
    opens, closes, \* calls of onOpen and onClose for c
    freed,         \* connections that are destroyed
    client,        \* the client of c
    asked,         \* has the client sent its message, and was it answered?
    down,          \* what is under way to a client that is still there
    lost,          \* how many messages the client threw away
    sends          \* bound: messages clients and the application's thread have sent

server == <<stop_, socket, pc, current, todo, connections, destructor>>
state  == <<listener, closed_, opens, closes, freed>>
peer   == <<request, client, asked, down, lost>>
vars   == <<stop_, socket, pc, current, todo, connections, destructor, listener, closed_,
            tx, opens, closes, freed, request, client, asked, down, lost, sends>>

TypeOK ==
    /\ stop_ \in BOOLEAN
    /\ socket \in {"listening", "closed"}
    /\ pc \in {"test", "accept", "handshake", "open", "greet", "start", "throw", "thrown",
               "reap", "drain", "drain_write", "drain_close", "drain_join", "ended"}
    /\ current \in Conn \cup {NoConn}
    /\ connections \in SUBSET Conn
    /\ todo \in SUBSET connections
    /\ destructor \in {"running", "stop", "close", "stopped", "join", "done"}
    /\ request \in [Conn -> {"none", "valid", "invalid", "missing"}]
    /\ listener \in [Conn -> {"none", "listening", "answer", "relay", "close", "error",
                             "notify", "send", "ended"}]
    /\ closed_ \in [Conn -> BOOLEAN]
    /\ tx \in [Conn -> {"free", "app", "run"} \cup Conn]
    /\ opens \in [Conn -> 0 .. 1]
    /\ closes \in [Conn -> Nat]
    /\ freed \in SUBSET Conn
    /\ client \in [Conn -> {"none", "waiting", "open", "failed", "closed", "wrong"}]
    /\ asked \in [Conn -> {"no", "yes", "answered"}]
    /\ down \in [Conn -> Seq({"response", "greeting", "message"})]
    /\ lost \in [Conn -> Nat]
    /\ sends \in 0 .. MaxSends

Init ==
    /\ stop_ = FALSE
    /\ socket = "listening"
    /\ pc = "test" /\ current = NoConn /\ todo = {} /\ connections = {}
    /\ destructor = "running"
    /\ request = [c \in Conn |-> "none"]
    /\ listener = [c \in Conn |-> "none"]
    /\ closed_ = [c \in Conn |-> FALSE]
    /\ tx = [c \in Conn |-> "free"]
    /\ opens = [c \in Conn |-> 0] /\ closes = [c \in Conn |-> 0]
    /\ freed = {}
    /\ client = [c \in Conn |-> "none"]
    /\ asked = [c \in Conn |-> "no"]
    /\ down = [c \in Conn |-> << >>]
    /\ lost = [c \in Conn |-> 0]
    /\ sends = 0

-----------------------------------------------------------------------------
(* The clients                                                             *)

\* connect() up to the request; peers that are not a WebSocketClient may
\* send one that is refused, or nothing.
Connect(c, req) ==
    /\ client[c] = "none"
    /\ socket = "listening"
    /\ req = "valid" \/ "bad" \in Faults
    /\ client' = [client EXCEPT ![c] = "waiting"]
    /\ request' = [request EXCEPT ![c] = req]
    /\ UNCHANGED <<server, state, tx, sends, asked, down, lost>>

\* performHandshake: readHttpHeaderBlock returns everything it has read, and
\* what follows the response in it is never looked at again.  Then run()
\* starts the listener of the client.
ClientHandshake(c, n) ==
    /\ client[c] = "waiting"
    /\ n \in 1 .. Len(down[c])
    /\ client' = [client EXCEPT ![c] = "open"]
    /\ lost' = [lost EXCEPT ![c] = n - 1]
    /\ down' = [down EXCEPT ![c] = SubSeq(@, n + 1, Len(@))]
    /\ UNCHANGED <<server, state, tx, sends, request, asked>>

\* The connection ends before the response: performHandshake throws.
ClientFails(c) ==
    /\ client[c] = "waiting"
    /\ down[c] = << >>
    /\ c \in freed
    /\ client' = [client EXCEPT ![c] = "failed"]
    /\ UNCHANGED <<server, state, tx, sends, request, asked, down, lost>>

\* Mutant: the first frame of a read is handled and the rest forgotten.
ClientReadsFirst(c, n) ==
    /\ client[c] = "open"
    /\ n \in 1 .. Len(down[c])
    /\ lost' = [lost EXCEPT ![c] = @ + n - 1]
    /\ down' = [down EXCEPT ![c] = SubSeq(@, n + 1, Len(@))]
    /\ UNCHANGED <<server, state, tx, sends, request, client, asked>>

\* The client's onMessage is given the messages.
ClientReads(c, n) ==
    /\ client[c] = "open"
    /\ n \in 1 .. Len(down[c])
    /\ down' = [down EXCEPT ![c] = SubSeq(@, n + 1, Len(@))]
    /\ UNCHANGED <<server, state, tx, sends, request, client, asked, lost>>

\* send(), which needs the connection that connect() makes at its end.
ClientSends(c) ==
    /\ client[c] = "open"
    /\ asked[c] = "no" /\ sends < MaxSends
    /\ sends' = sends + 1
    /\ asked' = [asked EXCEPT ![c] = "yes"]
    /\ UNCHANGED <<server, state, tx, request, client, down, lost>>

\* A client that leaves reads nothing any more.
Leaves(c, how) ==
    /\ client' = [client EXCEPT ![c] = how]
    /\ down' = [down EXCEPT ![c] = << >>]
    /\ UNCHANGED <<server, state, tx, sends, request, asked, lost>>

\* close() of the client with its CLOSE frame, or without one.
ClientCloses(c) == client[c] = "open" /\ Leaves(c, "closed")

\* A frame against the rules.
ClientBreaks(c) == "wrong" \in Faults /\ client[c] = "open" /\ Leaves(c, "wrong")

ClientLost(c) == "lost" \in Faults /\ client[c] = "waiting" /\ Leaves(c, "closed")

-----------------------------------------------------------------------------
(* Sending                                                                 *)

\* What is written to c is under way to its client, if that is still there and
\* c is not being closed.
Arrives(c, m) ==
    \/ client[c] \in {"waiting", "open"} /\ down' = [down EXCEPT ![c] = Append(@, m)]
    \/ (client[c] \in {"waiting", "open"} => closed_[c]) /\ UNCHANGED down

\* Between onOpen and onClose any thread may send to c.
Usable(c) == opens[c] = 1 /\ closes[c] = 0

PushBegin(c) ==
    /\ Usable(c) /\ sends < MaxSends
    /\ tx[c] = "free"
    /\ tx' = [tx EXCEPT ![c] = "app"]
    /\ sends' = sends + 1
    /\ UNCHANGED <<server, state, peer>>

PushEnd(c) ==
    /\ tx[c] = "app"
    /\ tx' = [tx EXCEPT ![c] = "free"]
    /\ Arrives(c, "message")
    /\ UNCHANGED <<server, state, sends, request, client, asked, lost>>

-----------------------------------------------------------------------------
(* The listener thread of a connection                                     *)

ListenerTo(c, next) == listener' = [listener EXCEPT ![c] = next]

\* onMessage, which answers, or passes the message on to another connection.
OnMessage(c, next) ==
    /\ listener[c] = "listening"
    /\ asked[c] = "yes"
    /\ asked' = [asked EXCEPT ![c] = "answered"]
    /\ ListenerTo(c, next)
    /\ UNCHANGED <<server, closed_, tx, opens, closes, freed, request, client, down,
                   lost, sends>>

\* CLOSE was read, or a frame against the rules.
ListenerFrame(c) ==
    /\ listener[c] = "listening"
    /\ asked[c] # "yes"
    /\ client[c] \in {"closed", "wrong"}
    /\ ListenerTo(c, IF client[c] = "closed" THEN "close" ELSE "error")
    /\ UNCHANGED <<server, closed_, tx, opens, closes, freed, peer, sends>>

ListenerLock(c) ==
    /\ listener[c] \in {"answer", "close", "error"}
    /\ tx[c] = "free"
    /\ tx' = [tx EXCEPT ![c] = c]
    /\ UNCHANGED <<server, state, peer, sends>>

Answer(c) ==
    /\ listener[c] = "answer" /\ tx[c] = c
    /\ tx' = [tx EXCEPT ![c] = "free"]
    /\ Arrives(c, "message")
    /\ ListenerTo(c, "listening")
    /\ UNCHANGED <<server, closed_, opens, closes, freed, request, client, asked,
                   lost, sends>>

RelayLock(c, d) ==
    /\ listener[c] = "relay"
    /\ d # c /\ Usable(d)
    /\ tx[d] = "free" /\ \A e \in Conn : tx[e] # c
    /\ tx' = [tx EXCEPT ![d] = c]
    /\ UNCHANGED <<server, state, peer, sends>>

Relay(c, d) ==
    /\ listener[c] = "relay"
    /\ d # c /\ tx[d] = c
    /\ tx' = [tx EXCEPT ![d] = "free"]
    /\ Arrives(d, "message")
    /\ ListenerTo(c, "listening")
    /\ UNCHANGED <<server, closed_, opens, closes, freed, request, client, asked,
                   lost, sends>>

\* There is no other connection, or none any more.
RelayNone(c) ==
    /\ listener[c] = "relay"
    /\ \A d \in Conn : d # c => ~Usable(d)
    /\ ListenerTo(c, "listening")
    /\ UNCHANGED <<server, closed_, tx, opens, closes, freed, peer, sends>>

\* The CLOSE frame is written, and close(false) called, which returns when the
\* destructor was faster.  On an error the mutex is kept until the end.
ListenerClose(c) ==
    /\ listener[c] \in {"close", "error"} /\ tx[c] = c
    /\ closed_' = [closed_ EXCEPT ![c] = TRUE]
    /\ ListenerTo(c, IF closed_[c] THEN "ended" ELSE "notify")
    /\ tx' = IF listener[c] = "error" /\ ~closed_[c] THEN tx ELSE [tx EXCEPT ![c] = "free"]
    /\ UNCHANGED <<server, opens, closes, freed, peer, sends>>

\* onClose, which waits for those who are sending, and may send itself.
ListenerOnClose(c, more) ==
    /\ listener[c] = "notify"
    /\ tx[c] \in {"free", c}
    /\ closes' = [closes EXCEPT ![c] = @ + 1]
    /\ ListenerTo(c, IF more THEN "send" ELSE "ended")
    /\ tx' = IF more THEN tx ELSE [tx EXCEPT ![c] = "free"]
    /\ UNCHANGED <<server, closed_, opens, freed, peer, sends>>

\* The socket is closed, and the write fails.  Before, the listener waits for
\* the mutex, which on an error path it has itself.
ListenerSend(c) ==
    /\ listener[c] = "send"
    /\ tx[c] = "free"
    /\ ListenerTo(c, "ended")
    /\ UNCHANGED <<server, closed_, tx, opens, closes, freed, peer, sends>>

\* read() fails: the peer has gone without CLOSE, or the destructor has
\* closed the socket.
ListenerEnds(c) ==
    /\ listener[c] = "listening"
    /\ \/ closed_[c]
       \/ "lost" \in Faults /\ client[c] = "closed"
    /\ ListenerTo(c, "ended")
    /\ UNCHANGED <<server, closed_, tx, opens, closes, freed, peer, sends>>

-----------------------------------------------------------------------------
(* run()                                                                   *)

Goto(next) == pc' = next

AcceptTest ==
    /\ pc = "test"
    /\ Goto(IF stop_ THEN "drain" ELSE "accept")
    /\ UNCHANGED <<stop_, socket, current, todo, connections, destructor, state, tx, sends, peer>>

Accept(c) ==
    /\ pc = "accept"
    /\ socket = "listening"
    /\ request[c] # "none" /\ listener[c] = "none" /\ c \notin freed
    /\ current' = c
    /\ Goto("handshake")
    /\ UNCHANGED <<stop_, socket, todo, connections, destructor, state, tx, sends, peer>>

\* An exception, of which nobody hears: on to the cleanup.
Caught == Goto("reap") /\ todo' = connections /\ current' = NoConn

AcceptThrows ==
    /\ pc = "accept"
    /\ socket = "closed" \/ "accept" \in Faults
    /\ Caught
    /\ UNCHANGED <<stop_, socket, connections, destructor, state, tx, sends, peer>>

\* The response is written first on a new connection: there is room for it.
HandshakeOk ==
    /\ pc = "handshake"
    /\ request[current] = "valid"
    /\ Arrives(current, "response")
    /\ Goto("open")
    /\ UNCHANGED <<stop_, socket, current, todo, connections, destructor, state,
                   tx, sends, request, client, asked, lost>>

\* The request is refused, or the peer goes before it is complete or before
\* the response is written.
HandshakeFails ==
    /\ pc = "handshake"
    /\ request[current] = "invalid" \/ client[current] = "closed"
    /\ freed' = freed \cup {current}
    /\ Caught
    /\ UNCHANGED <<stop_, socket, connections, destructor, listener, closed_, opens,
                   closes, tx, sends, peer>>

\* onOpen, which may send.
OnOpen(greet) ==
    /\ pc = "open"
    /\ opens' = [opens EXCEPT ![current] = 1]
    /\ Goto(IF greet THEN "greet" ELSE "start")
    /\ UNCHANGED <<stop_, socket, current, todo, connections, destructor, listener,
                   closed_, closes, freed, tx, sends, peer>>

\* onOpen throws, or the listener's thread cannot be made: the connection is
\* destroyed again, which closes it.
OnOpenThrows ==
    /\ pc \in {"open", "start"}
    /\ "throw" \in Faults
    /\ opens' = [opens EXCEPT ![current] = 1]
    /\ closed_' = [closed_ EXCEPT ![current] = TRUE]
    /\ Goto("throw")
    /\ UNCHANGED <<stop_, socket, current, todo, connections, destructor, listener,
                   closes, freed, tx, sends, peer>>

\* The writes of this thread: the greeting, and the CLOSE frame of close(true).
RunWrites == {"greet", "throw", "drain_write"}

RunLock ==
    /\ pc \in RunWrites
    /\ tx[current] = "free"
    /\ tx' = [tx EXCEPT ![current] = "run"]
    /\ UNCHANGED <<server, state, peer, sends>>

RunWrite ==
    /\ pc \in RunWrites
    /\ tx[current] = "run"
    /\ tx' = [tx EXCEPT ![current] = "free"]
    /\ IF pc = "greet" THEN Arrives(current, "greeting") ELSE UNCHANGED down
    /\ Goto(CASE pc = "greet" -> "start" [] pc = "throw" -> "thrown"
              [] pc = "drain_write" -> "drain_close")
    /\ UNCHANGED <<stop_, socket, current, todo, connections, destructor, state,
                   request, client, asked, lost, sends>>

\* onClose, and the exception goes on.
OnOpenThrown ==
    /\ pc = "thrown"
    /\ tx[current] = "free"
    /\ closes' = [closes EXCEPT ![current] = @ + 1]
    /\ freed' = freed \cup {current}
    /\ Caught
    /\ UNCHANGED <<stop_, socket, connections, destructor, listener, closed_, opens, tx,
                   sends, peer>>

\* The listener thread, connections.emplace_back, and the cleanup begins.
Start ==
    /\ pc = "start"
    /\ ListenerTo(current, "listening")
    /\ connections' = connections \cup {current}
    /\ todo' = connections'
    /\ current' = NoConn
    /\ Goto("reap")
    /\ UNCHANGED <<stop_, socket, destructor, closed_, opens, closes, freed, tx, sends,
                   peer>>

(* The cleanup looks at each connection once.                              *)

ReapKeep(c) ==
    /\ pc = "reap"
    /\ c \in todo
    /\ ~closed_[c]
    /\ todo' = todo \ {c}
    /\ UNCHANGED <<stop_, socket, pc, current, connections, destructor, state, tx, sends, peer>>

\* Mutant: erase() does not wait for the listener.
ReapEraseNow(c) ==
    /\ pc = "reap"
    /\ c \in todo
    /\ closed_[c]
    /\ todo' = todo \ {c}
    /\ connections' = connections \ {c}
    /\ freed' = freed \cup {c}
    /\ UNCHANGED <<stop_, socket, pc, current, destructor, listener, closed_, opens,
                   closes, tx, sends, peer>>

\* erase: the destructor finds the connection closed, and joins the listener.
ReapErase(c) ==
    /\ pc = "reap"
    /\ c \in todo
    /\ closed_[c]
    /\ listener[c] = "ended"
    /\ todo' = todo \ {c}
    /\ connections' = connections \ {c}
    /\ freed' = freed \cup {c}
    /\ UNCHANGED <<stop_, socket, pc, current, destructor, listener, closed_, opens,
                   closes, tx, sends, peer>>

ReapDone ==
    /\ pc = "reap"
    /\ todo = {}
    /\ Goto("test")
    /\ UNCHANGED <<stop_, socket, current, todo, connections, destructor, state, tx, sends, peer>>

\* The end of run() destroys the vector.  A connection that nobody has
\* closed is closed by its destructor, which runs onClose after the join.
Drain(c) ==
    /\ pc = "drain"
    /\ c \in connections
    /\ current' = c
    /\ closed_' = [closed_ EXCEPT ![c] = TRUE]
    /\ Goto(IF closed_[c] THEN "drain_join" ELSE "drain_write")
    /\ UNCHANGED <<stop_, socket, todo, connections, destructor, listener, opens,
                   closes, freed, tx, sends, peer>>

DrainJoin ==
    /\ pc \in {"drain_join", "drain_close"}
    /\ listener[current] = "ended"
    /\ IF pc = "drain_join" THEN UNCHANGED closes
       ELSE tx[current] = "free" /\ closes' = [closes EXCEPT ![current] = @ + 1]
    /\ connections' = connections \ {current}
    /\ freed' = freed \cup {current}
    /\ current' = NoConn
    /\ Goto("drain")
    /\ UNCHANGED <<stop_, socket, todo, destructor, listener, closed_, opens, tx, sends,
                   peer>>

\* Mutant: the connections are left to nobody.
RunEndsEarly ==
    /\ pc = "drain"
    /\ Goto("ended")
    /\ UNCHANGED <<stop_, socket, current, todo, connections, destructor, state, tx, sends, peer>>

RunEnds ==
    /\ pc = "drain"
    /\ connections = {}
    /\ Goto("ended")
    /\ UNCHANGED <<stop_, socket, current, todo, connections, destructor, state, tx, sends, peer>>

-----------------------------------------------------------------------------
(* The application: stop(), and later the destructor, which calls it again *)

Stop ==
    /\ destructor \in {"running", "stopped"}
    /\ stop_' = TRUE
    /\ destructor' = IF destructor = "running" THEN "stop" ELSE "close"
    /\ UNCHANGED <<socket, pc, current, todo, connections, state, tx, sends, peer>>

\* Mutant: stop() leaves the socket open.
StopCloseNot ==
    /\ destructor \in {"stop", "close"}
    /\ destructor' = IF destructor = "stop" THEN "stopped" ELSE "join"
    /\ UNCHANGED <<stop_, socket, pc, current, todo, connections, state, tx, sends, peer>>

\* socket.close(); connections in the backlog are reset.
StopClose ==
    /\ destructor \in {"stop", "close"}
    /\ socket' = "closed"
    /\ destructor' = IF destructor = "stop" THEN "stopped" ELSE "join"
    /\ freed' = freed \cup {c \in Conn : request[c] # "none" /\ listener[c] = "none"
                                         /\ opens[c] = 0 /\ c # current}
    /\ UNCHANGED <<stop_, pc, current, todo, connections, listener, closed_, opens,
                   closes, tx, sends, peer>>

Join ==
    /\ destructor = "join"
    /\ pc = "ended"
    /\ destructor' = "done"
    /\ UNCHANGED <<stop_, socket, pc, current, todo, connections, state, tx, sends, peer>>

-----------------------------------------------------------------------------
Run == \/ AcceptTest \/ HandshakeOk \/ HandshakeFails
       \/ OnOpen(TRUE) \/ OnOpen(FALSE) \/ RunLock \/ OnOpenThrown \/ Start
       \/ ReapDone \/ DrainJoin \/ RunEnds
       \/ \E c \in Conn : Accept(c) \/ ReapKeep(c) \/ ReapErase(c) \/ Drain(c)

Listen(c) == \/ OnMessage(c, "answer") \/ OnMessage(c, "relay")
             \/ ListenerFrame(c) \/ ListenerLock(c) \/ RelayNone(c)
             \/ ListenerOnClose(c, TRUE) \/ ListenerOnClose(c, FALSE)
             \/ ListenerSend(c) \/ ListenerEnds(c)
             \/ \E d \in Conn : RelayLock(c, d)

\* The ends of the writes to c.
WriteEnd(c) == \/ PushEnd(c) \/ Answer(c) \/ ListenerClose(c)
               \/ \E d \in Conn : Relay(c, d)

ClientStep(c) ==
    \/ \E n \in 1 .. Len(down[c]) : ClientHandshake(c, n) \/ ClientReads(c, n)
    \/ ClientFails(c)

Next ==
    \/ Run \/ RunWrite \/ AcceptThrows \/ OnOpenThrows
    \/ Stop \/ StopClose \/ Join
    \/ \E c \in Conn : \/ Listen(c) \/ WriteEnd(c) \/ PushBegin(c) \/ ClientStep(c)
                       \/ \E req \in {"valid", "invalid", "missing"} : Connect(c, req)
                       \/ ClientSends(c) \/ ClientBreaks(c) \/ ClientCloses(c)
                       \/ ClientLost(c)

Spec == Init /\ [][Next]_vars

\* The server's threads go on when they can, and a destructor that was begun
\* is carried through.  What clients do is up to them, and a write need not
\* end.
FairSpec ==
    /\ Spec
    /\ WF_vars(Run \/ (socket = "closed" /\ AcceptThrows))
    /\ WF_vars(StopClose \/ Join)
    /\ \A c \in Conn : WF_vars(Listen(c))

-----------------------------------------------------------------------------
(* Properties                                                              *)

\* Between onOpen and onClose the pointer the callbacks were given is good:
\* a connection is freed only after its onClose, which runs once, after its
\* listener has ended and with its mutex free, whoever closed it and whether
\* the cleanup, an exception or the end of run() destroys it.
FreedAfterOnClose ==
    \A c \in Conn :
        /\ closes[c] <= opens[c]
        /\ c \in freed => /\ closes[c] = opens[c]
                          /\ listener[c] \in {"none", "ended"}
                          /\ tx[c] = "free"

\* Once the destructor has returned every connection that was opened has
\* been reported closed and is gone, also those whose peers had vanished
\* unnoticed.
NothingSurvives ==
    destructor = "done" =>
        \A c \in Conn : opens[c] = 1 => closes[c] = 1 /\ c \in freed

\* What is sent to a client before it has read the response may be thrown
\* away with it, whoever sends.  Once the client itself has sent something no
\* message to it is, from whatever thread.
NothingIsLostLater ==
    [][\A c \in Conn : asked[c] # "no" => lost'[c] = lost[c]]_vars

\* A write to c is in progress.
Writing(c) ==
    \/ tx[c] \in {"app", "run"} \cup (Conn \ {c})
    \/ tx[c] = c /\ listener[c] \in {"answer", "close", "error"}

\* onClose sends, on a thread that has the mutex already.
SelfDeadlock(c) == tx[c] = c /\ listener[c] = "send"

\* The destructor returns, unless one of three things holds it up for ever: a
\* client that has connected and does not send its request, a client that
\* does not read what is written to it, or an onClose that sends and is run
\* by an error path.
DestructorReturns ==
    \/ destructor = "join" ~> destructor = "done"
    \/ <>[](pc = "handshake" /\ request[current] = "missing")
    \/ \E c \in Conn : <>[](Writing(c) \/ SelfDeadlock(c))

\* A message that onOpen sends reaches the client's onMessage, if the client
\* stays: nothing else takes it off the connection.
GreetingArrives ==
    [][\A c \in Conn :
          Contains(down[c], "greeting") /\ ~Contains(down'[c], "greeting")
              => client[c] = "open" \/ client'[c] = "closed"]_vars
=============================================================================
