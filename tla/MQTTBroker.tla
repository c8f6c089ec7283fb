----------------------------- MODULE MQTTBroker -----------------------------
(***************************************************************************)
(* MQTTBroker::Impl (mqtt/MQTTBroker.cpp) serving TCP clients.  One thread *)
(* accepts connections (acceptLoop), one detached thread per connection    *)
(* runs handleClient, and the application's thread calls stop().  The      *)
(* handlers share subscribers_, a map from topics to vectors of Client     *)
(* pointers, under subsMutex_; a publisher holds that mutex while it       *)
(* writes to one subscriber after the other.                               *)
(*                                                                         *)
(* A packet is read as a whole: what the client has sent is chosen when    *)
(* the handler reads it, so that a packet may be read after the client has *)
(* closed its end.  A write blocks while OutCap packets wait for a client  *)
(* that is connected; to a client that has gone it either is lost in a     *)
(* buffer or fails.  A vector of subscribers is the number of times each   *)
(* Client occurs in it: the order of its elements only decides in which    *)
(* order they are written to, which is left open here.                     *)
(***************************************************************************)
EXTENDS Naturals, Sequences

CONSTANTS
    Client,      \* connections, each made at most once
    Topic,
    NoTopic,     \* the topic of packets that have none
    NoClient,    \* nobody holds subsMutex_
    Sends,       \* the types of packets the clients send
    OutCap,      \* bound: packets waiting in the socket to a client
    MaxPackets,  \* bound: packets the clients send after CONNECT
    Faults       \* bound: which of "stop", "hangup" and "accept" (accept()
                 \* fails on a listening socket) happen

ASSUME ConstantAssumption ==
    /\ NoTopic \notin Topic
    /\ NoClient \notin Client
    /\ Sends \subseteq {"publish", "subscribe", "unsubscribe", "pingreq",
                        "disconnect", "other"}
    /\ OutCap \in Nat \ {0}
    /\ MaxPackets \in Nat
    /\ Faults \subseteq {"stop", "hangup", "accept"}

VARIABLES
    stop_,       \* the flag tested by acceptLoop and clientLoop
    server_,     \* "listening" or "closed"
    listener_,   \* the thread in acceptLoop: "test", "accept" or "ended"
    stopper,     \* the thread that calls stop(): what it does next
    net,         \* net[c]: "none", "open", or "closed" (by either end)
    pc,          \* pc[c]: what the handler of c does next
    req,         \* req[c]: the packet it handles
    sent,        \* packets read from clients after CONNECT
    topics,      \* Client::topics
    keys,        \* the topics that have an entry in subscribers_
    subs,        \* subs[t][c]: occurrences of c in subscribers_[t]
    subsMutex_,  \* who holds it from one step to the next
    todo,        \* todo[p][c]: writes left to do in p's loop over a vector
    room,        \* room[c]: packets that still fit into the socket to c
    delivered,   \* delivered[c]: the PUBLISH packets written to c, in order
    turns        \* auxiliary: loops over subscribers begun so far

life    == <<stop_, server_, listener_, stopper>>
table   == <<topics, keys, subs>>
loop    == <<subsMutex_, todo>>
wire    == <<room, delivered, turns>>
vars    == <<stop_, server_, listener_, stopper, net, pc, req, sent, topics,
             keys, subs, subsMutex_, todo, room, delivered, turns>>

\* A packet: its topic, its sender, the number that identifies it, and (an
\* auxiliary field) when it got its turn to be written to subscribers.
Packet == [topic : Topic \cup {NoTopic}, from : Client, n : 0 .. MaxPackets,
           turn : Nat]
NoPacket(c) == [topic |-> NoTopic, from |-> c, n |-> 0, turn |-> 0]

\* The handler's thread has the Client object in these states ...
Serving == {"loop", "read", "pub_check", "pub_lock", "pub_write", "sub",
            "unsub", "ack", "cleanup"}
\* ... and besides it has not begun, waits for CONNECT, or has freed it.
HandlerState == {"none", "backlog", "connect", "gone"} \cup Serving

Nobody == [c \in Client |-> 0]

TypeOK ==
    /\ stop_ \in BOOLEAN
    /\ server_ \in {"listening", "closed"}
    /\ listener_ \in {"test", "accept", "ended"}
    /\ stopper \in {"running", "close", "join", "stopped"}
    /\ net \in [Client -> {"none", "open", "closed"}]
    /\ pc \in [Client -> HandlerState]
    /\ req \in [Client -> Packet]
    /\ sent \in 0 .. MaxPackets
    /\ topics \in [Client -> SUBSET Topic]
    /\ keys \in SUBSET Topic
    /\ subs \in [Topic -> [Client -> Nat]]
    /\ subsMutex_ \in Client \cup {NoClient}
    /\ todo \in [Client -> [Client -> Nat]]
    /\ room \in [Client -> 0 .. OutCap]
    /\ delivered \in [Client -> Seq(Packet)]
    /\ turns \in Nat

Init ==
    /\ stop_ = FALSE
    /\ server_ = "listening"
    /\ listener_ = "test"
    /\ stopper = "running"
    /\ net = [c \in Client |-> "none"]
    /\ pc = [c \in Client |-> "none"]
    /\ req = [c \in Client |-> NoPacket(c)]
    /\ sent = 0
    /\ topics = [c \in Client |-> {}]
    /\ keys = {}
    /\ subs = [t \in Topic |-> Nobody]
    /\ subsMutex_ = NoClient
    /\ todo = [c \in Client |-> Nobody]
    /\ room = [c \in Client |-> OutCap]
    /\ delivered = [c \in Client |-> << >>]
    /\ turns = 0

-----------------------------------------------------------------------------
(* The clients                                                             *)

Connect(c) ==
    /\ pc[c] = "none"
    /\ server_ = "listening"
    /\ net' = [net EXCEPT ![c] = "open"]
    /\ pc' = [pc EXCEPT ![c] = "backlog"]
    /\ UNCHANGED <<life, req, sent, table, loop, wire>>

\* The client closes its end, with or without DISCONNECT, or is cut off.
Hangup(c) ==
    /\ "hangup" \in Faults
    /\ net[c] = "open"
    /\ net' = [net EXCEPT ![c] = "closed"]
    /\ UNCHANGED <<life, pc, req, sent, table, loop, wire>>

\* The client reads what is waiting.  Only a full socket makes a difference
\* to the broker, so that this is when the step is taken.
ClientRead(c) ==
    /\ net[c] = "open"
    /\ room[c] = 0
    /\ room' = [room EXCEPT ![c] = OutCap]
    /\ UNCHANGED <<life, net, pc, req, sent, table, loop, delivered, turns>>

-----------------------------------------------------------------------------
(* acceptLoop and stop()                                                   *)

AcceptTest ==
    /\ listener_ = "test"
    /\ listener_' = IF stop_ THEN "ended" ELSE "accept"
    /\ UNCHANGED <<stop_, server_, stopper, net, pc, req, sent, table, loop, wire>>

\* accept() returns a connection; its handler is started and detached.
Accept(c) ==
    /\ listener_ = "accept"
    /\ server_ = "listening"
    /\ pc[c] = "backlog"
    /\ pc' = [pc EXCEPT ![c] = "connect"]
    /\ listener_' = "test"
    /\ UNCHANGED <<stop_, server_, stopper, net, req, sent, table, loop, wire>>

\* accept() throws, because stop() closed the socket or because the system
\* is out of descriptors: break in both cases.
AcceptThrows ==
    /\ listener_ = "accept"
    /\ server_ = "closed" \/ "accept" \in Faults
    /\ listener_' = "ended"
    /\ UNCHANGED <<stop_, server_, stopper, net, pc, req, sent, table, loop, wire>>

StopBegin ==
    /\ stopper = "running"
    /\ "stop" \in Faults
    /\ stop_' = TRUE
    /\ stopper' = "close"
    /\ UNCHANGED <<server_, listener_, net, pc, req, sent, table, loop, wire>>

\* Mutant: stop() joins the listener without closing its socket.
StopCloseNot ==
    /\ stopper = "close"
    /\ stopper' = "join"
    /\ UNCHANGED <<stop_, server_, listener_, net, pc, req, sent, table, loop, wire>>

\* server_.close(); connections nobody accepted are reset by the system.
StopClose ==
    /\ stopper = "close"
    /\ server_' = "closed"
    /\ stopper' = "join"
    /\ net' = [c \in Client |-> IF pc[c] = "backlog" THEN "closed" ELSE net[c]]
    /\ pc' = [c \in Client |-> IF pc[c] = "backlog" THEN "gone" ELSE pc[c]]
    /\ UNCHANGED <<stop_, listener_, req, sent, table, loop, wire>>

\* listener_.join()
StopJoin ==
    /\ stopper = "join"
    /\ listener_ = "ended"
    /\ stopper' = "stopped"
    /\ UNCHANGED <<stop_, server_, listener_, net, pc, req, sent, table, loop, wire>>

-----------------------------------------------------------------------------
(* handleClient                                                            *)

Goto(c, next) == pc' = [pc EXCEPT ![c] = next]

\* The end of an iteration of clientLoop: the packet is forgotten.
Iterate(c, next) == Goto(c, next) /\ req' = [req EXCEPT ![c] = NoPacket(c)]

\* write() to the connection of c returns true; it waits while the socket is
\* full and the peer is there.
WriteOk(c) ==
    \/ net[c] = "open" /\ room[c] > 0 /\ room' = [room EXCEPT ![c] = @ - 1]
    \/ net[c] = "closed" /\ UNCHANGED room

\* write() returns false.
WriteFails(c) == net[c] = "closed" /\ UNCHANGED room

\* CONNECT was read and parsed, and CONNACK written.
ConnectAccepted(c) ==
    /\ pc[c] = "connect"
    /\ WriteOk(c)
    /\ Goto(c, "loop")
    /\ UNCHANGED <<life, net, req, sent, table, loop, delivered, turns>>

\* Each early return before clientLoop: nothing to read, not a CONNECT, a
\* CONNECT that is too short, or CONNACK cannot be written.  The Client is
\* freed and its connection closed, without cleanupClient.
ConnectRefused(c) ==
    /\ pc[c] = "connect"
    /\ Goto(c, "gone")
    /\ net' = [net EXCEPT ![c] = "closed"]
    /\ UNCHANGED <<life, req, sent, table, loop, wire>>

\* while (running && !stop_)
LoopTest(c) ==
    /\ pc[c] = "loop"
    /\ Goto(c, IF stop_ THEN "cleanup" ELSE "read")
    /\ UNCHANGED <<life, net, req, sent, table, loop, wire>>

\* The packet types and where the switch leads.  "other" is a packet that
\* clientLoop ignores: an unknown type, wrong flags, a payload too short.
WithTopic    == [publish |-> "pub_check", subscribe |-> "sub", unsubscribe |-> "unsub"]
WithoutTopic == [pingreq |-> "ack", disconnect |-> "cleanup", other |-> "loop"]

ReadPacket(c) ==
    /\ pc[c] = "read"
    /\ sent < MaxPackets
    /\ sent' = sent + 1
    /\ \/ \E type \in Sends \cap DOMAIN WithTopic, t \in Topic :
             /\ req' = [req EXCEPT ![c] = [topic |-> t, from |-> c, n |-> sent',
                                           turn |-> 0]]
             /\ Goto(c, WithTopic[type])
       \/ \E type \in Sends \cap DOMAIN WithoutTopic :
             Goto(c, WithoutTopic[type]) /\ UNCHANGED req
    /\ UNCHANGED <<life, net, table, loop, wire>>

\* readExact returns false: break
ReadFails(c) ==
    /\ pc[c] = "read"
    /\ net[c] = "closed"
    /\ Goto(c, "cleanup")
    /\ UNCHANGED <<life, net, req, sent, table, loop, wire>>

\* SUBACK, UNSUBACK or PINGRESP; running = false when it cannot be written.
Ack(c) ==
    /\ pc[c] = "ack"
    /\ \/ WriteOk(c) /\ Iterate(c, "loop")
       \/ WriteFails(c) /\ Iterate(c, "cleanup")
    /\ UNCHANGED <<life, net, sent, table, loop, delivered, turns>>

-----------------------------------------------------------------------------
(* What runs under subsMutex_.  Only a publisher's loop holds it for more  *)
(* than one step.                                                          *)

MutexFree == subsMutex_ = NoClient

Subscribe(c) ==
    LET t == req[c].topic IN
    /\ pc[c] = "sub"
    /\ MutexFree
    /\ keys' = keys \cup {t}
    /\ subs' = [subs EXCEPT ![t][c] = @ + 1]
    /\ topics' = [topics EXCEPT ![c] = @ \cup {t}]
    /\ Goto(c, "ack")
    /\ UNCHANGED <<life, net, req, sent, loop, wire>>

\* Mutant: only one occurrence is removed from the vector.
UnsubscribeOne(c) ==
    LET t == req[c].topic IN
    /\ pc[c] = "unsub"
    /\ MutexFree
    /\ keys' = keys \cup {t}
    /\ subs' = [subs EXCEPT ![t][c] = IF @ = 0 THEN 0 ELSE @ - 1]
    /\ topics' = [topics EXCEPT ![c] = @ \ {t}]
    /\ Goto(c, "ack")
    /\ UNCHANGED <<life, net, req, sent, loop, wire>>

\* Mutant: the vector's last element is removed, found or not.
UnsubscribeLast(c) ==
    LET t == req[c].topic IN
    /\ pc[c] = "unsub"
    /\ MutexFree
    /\ keys' = keys \cup {t}
    /\ subs' = [subs EXCEPT ![t][c] = @ - 1]
    /\ topics' = [topics EXCEPT ![c] = @ \ {t}]
    /\ Goto(c, "ack")
    /\ UNCHANGED <<life, net, req, sent, loop, wire>>

\* Mutant: UNSUBSCRIBE does not take the mutex.
UnsubscribeUnlocked(c) ==
    LET t == req[c].topic IN
    /\ pc[c] = "unsub"
    /\ keys' = keys \cup {t}
    /\ subs' = [subs EXCEPT ![t][c] = 0]
    /\ topics' = [topics EXCEPT ![c] = @ \ {t}]
    /\ Goto(c, "ack")
    /\ UNCHANGED <<life, net, req, sent, loop, wire>>

\* std::erase removes every occurrence; subscribers_[topic] makes the entry.
Unsubscribe(c) ==
    LET t == req[c].topic IN
    /\ pc[c] = "unsub"
    /\ MutexFree
    /\ keys' = keys \cup {t}
    /\ subs' = [subs EXCEPT ![t][c] = 0]
    /\ topics' = [topics EXCEPT ![c] = @ \ {t}]
    /\ Goto(c, "ack")
    /\ UNCHANGED <<life, net, req, sent, loop, wire>>

\* handlePublish, first critical section: return unless the topic is known.
PublishCheck(c) ==
    /\ pc[c] = "pub_check"
    /\ MutexFree
    /\ IF req[c].topic \in keys
       THEN Goto(c, "pub_lock") /\ UNCHANGED req
       ELSE Iterate(c, "loop")
    /\ UNCHANGED <<life, net, sent, table, loop, wire>>

\* Mutant: the vector is copied, and the loop runs without the mutex.
PublishLockNot(c) ==
    /\ pc[c] = "pub_lock"
    /\ MutexFree
    /\ turns' = turns + 1
    /\ req' = [req EXCEPT ![c].turn = turns']
    /\ todo' = [todo EXCEPT ![c] = subs[req[c].topic]]
    /\ Goto(c, "pub_write")
    /\ UNCHANGED <<life, net, sent, table, subsMutex_, room, delivered>>

\* Second critical section: it lasts until PublishFails or PublishDone.
PublishLock(c) ==
    /\ pc[c] = "pub_lock"
    /\ MutexFree
    /\ subsMutex_' = c
    /\ turns' = turns + 1
    /\ req' = [req EXCEPT ![c].turn = turns']
    /\ todo' = [todo EXCEPT ![c] = subs[req[c].topic]]
    /\ Goto(c, "pub_write")
    /\ UNCHANGED <<life, net, sent, table, room, delivered>>

PublishWrite(c, s) ==
    /\ pc[c] = "pub_write"
    /\ todo[c][s] > 0
    /\ WriteOk(s)
    /\ delivered' = [delivered EXCEPT ![s] = Append(@, req[c])]
    /\ todo' = [todo EXCEPT ![c][s] = @ - 1]
    /\ UNCHANGED <<life, net, pc, req, sent, table, subsMutex_, turns>>

Unlock(c) ==
    /\ subsMutex_' = NoClient
    /\ todo' = [todo EXCEPT ![c] = Nobody]
    /\ Iterate(c, "loop")

\* Mutant: the way out of a failed write leaves the mutex locked.
PublishFailsLocked(c, s) ==
    LET t == req[c].topic IN
    /\ pc[c] = "pub_write"
    /\ todo[c][s] > 0
    /\ WriteFails(s)
    /\ keys' = keys \ {t}
    /\ subs' = [subs EXCEPT ![t] = Nobody]
    /\ todo' = [todo EXCEPT ![c] = Nobody]
    /\ Iterate(c, "loop")
    /\ UNCHANGED <<life, net, sent, topics, subsMutex_, delivered, turns>>

\* A write fails: the whole entry is erased, and the loop ends.
PublishFails(c, s) ==
    LET t == req[c].topic IN
    /\ pc[c] = "pub_write"
    /\ todo[c][s] > 0
    /\ WriteFails(s)
    /\ keys' = keys \ {t}
    /\ subs' = [subs EXCEPT ![t] = Nobody]
    /\ Unlock(c)
    /\ UNCHANGED <<life, net, sent, topics, delivered, turns>>


PublishDone(c) ==
    /\ pc[c] = "pub_write"
    /\ todo[c] = Nobody
    /\ Unlock(c)
    /\ UNCHANGED <<life, net, sent, table, wire>>

\* Mutant: the client's topics are cleared for everyone.
CleanupAll(c) ==
    /\ pc[c] = "cleanup"
    /\ MutexFree
    /\ keys' = keys \ topics[c]
    /\ subs' = [t \in Topic |-> IF t \in topics[c] THEN Nobody ELSE subs[t]]
    /\ topics' = [topics EXCEPT ![c] = {}]
    /\ net' = [net EXCEPT ![c] = "closed"]
    /\ Goto(c, "gone")
    /\ UNCHANGED <<life, req, sent, loop, wire>>

\* cleanupClient, and the end of handleClient, which frees the Client.
Cleanup(c) ==
    /\ pc[c] = "cleanup"
    /\ MutexFree
    /\ keys' = keys \cup topics[c]
    /\ subs' = [t \in Topic |-> IF t \in topics[c]
                                THEN [subs[t] EXCEPT ![c] = 0] ELSE subs[t]]
    /\ topics' = [topics EXCEPT ![c] = {}]
    /\ net' = [net EXCEPT ![c] = "closed"]
    /\ Goto(c, "gone")
    /\ UNCHANGED <<life, req, sent, loop, wire>>

-----------------------------------------------------------------------------
\* What a handler does without waiting for its client to send something.
Handle(c) ==
    \/ LoopTest(c) \/ ReadFails(c) \/ Ack(c)
    \/ Subscribe(c) \/ Unsubscribe(c)
    \/ PublishCheck(c) \/ PublishLock(c) \/ PublishDone(c)
    \/ \E s \in Client : PublishWrite(c, s) \/ PublishFails(c, s)
    \/ Cleanup(c)

Listen == AcceptTest \/ AcceptThrows \/ \E c \in Client : Accept(c)

Next ==
    \/ Listen
    \/ StopBegin \/ StopClose \/ StopJoin
    \/ \E c \in Client : \/ Connect(c) \/ Hangup(c) \/ ClientRead(c)
                         \/ ConnectAccepted(c) \/ ConnectRefused(c)
                         \/ ReadPacket(c) \/ Handle(c)

Spec == Init /\ [][Next]_vars

\* Threads that can go on do, stop() goes on once begun, and the listening
\* and connected sockets work; accept() need not fail before the socket is
\* closed.  Clients need not send anything, but those
\* that stay connected keep reading: a broker thread waits for them in
\* write(), whoever's packet it is.  Packets are finitely many, so a handler
\* that wants subsMutex_ is not overtaken for ever and weak fairness is enough.
FairSpec ==
    /\ Spec
    /\ WF_vars(AcceptTest \/ \E c \in Client : Accept(c))
    /\ WF_vars(server_ = "closed" /\ AcceptThrows)
    /\ WF_vars(StopClose) /\ WF_vars(StopJoin)
    /\ \A c \in Client : /\ WF_vars(Handle(c))
                         /\ WF_vars(net[c] = "closed" /\ ConnectRefused(c))
                         /\ WF_vars(ClientRead(c))

-----------------------------------------------------------------------------
(* Properties                                                              *)

\* The Client pointers in subscribers_, and those a publisher is about to
\* write to, are never pointers to a Client whose handler has freed it: every
\* way out of handleClient has removed all occurrences first, and not while
\* a publisher goes through the vector.
NoDangling ==
    /\ \A t \in Topic, c \in Client : subs[t][c] > 0 => pc[c] \in Serving
    /\ \A p, s \in Client : todo[p][s] > 0 => pc[s] \in Serving

\* The messages written to c; Before compares their places.
Got(c) == {delivered[c][i] : i \in DOMAIN delivered[c]}
Before(c, m, n) ==
    \E i, j \in DOMAIN delivered[c] :
        i < j /\ delivered[c][i] = m /\ delivered[c][j] = n

\* Two clients that both get two messages get them in the same order, also
\* when they come from different publishers and on different topics; and a
\* client subscribed twice never gets another message between the copies.
SameOrder ==
    \A c, d \in Client : \A m, n \in Got(c) \cap Got(d) :
        m # n /\ Before(c, m, n) => ~Before(d, n, m)

\* What the steps keep true.  A publisher in its loop has the mutex ...
MutexInv == \A p \in Client : pc[p] = "pub_write" => subsMutex_ = p

\* ... whoever is in a vector is alive and has the topic among its own,
\* which is where cleanupClient looks ...
TableInv == \A t \in Topic, c \in Client :
               subs[t][c] > 0 => t \in topics[c] /\ pc[c] \in Serving

\* ... a loop has left at most what is still in the vector ...
TopicSteps == {"sub", "unsub", "pub_check", "pub_lock", "pub_write"}
LoopInv == \A p \in Client :
    /\ pc[p] \in TopicSteps => req[p].topic \in Topic
    /\ pc[p] # "pub_write" => todo[p] = Nobody
    /\ pc[p] = "pub_write" =>
          \A s \in Client : todo[p][s] <= subs[req[p].topic][s]

\* ... and messages are written in the order of their turns.
OrderInv ==
    /\ \A c \in Client : \A i, j \in 1 .. Len(delivered[c]) :
          i < j => delivered[c][i].turn <= delivered[c][j].turn
    /\ \A c \in Client : \A i \in 1 .. Len(delivered[c]) :
          delivered[c][i].turn <= turns
    /\ \A c, d \in Client :
       \A i \in 1 .. Len(delivered[c]), j \in 1 .. Len(delivered[d]) :
          delivered[c][i].turn = delivered[d][j].turn =>
              delivered[c][i] = delivered[d][j]
    /\ \A p \in Client : pc[p] = "pub_write" =>
          /\ req[p].turn = turns
          /\ \A c \in Client : \A i \in 1 .. Len(delivered[c]) :
                delivered[c][i].turn = turns => delivered[c][i] = req[p]

IInv == TypeOK /\ MutexInv /\ TableInv /\ LoopInv /\ OrderInv

\* A PUBLISH is written to a client only while it is subscribed to the topic
\* according to its own handler: nothing follows the UNSUBACK of a topic.
OnlyToSubscribers ==
    [][\A c \in Client :
          delivered'[c] # delivered[c] =>
              delivered'[c][Len(delivered'[c])].topic \in topics[c]]_vars

\* A subscription ends by its client's UNSUBSCRIBE of the topic, at the end of
\* its handler, or in the step in which a publisher of the topic leaves its
\* loop because a subscriber it still had to write to has gone away; nothing
\* else that other clients do takes it away, their own ends included.
SubscriptionLostOnlyToFailedWrite ==
    [][\A t \in Topic, c \in Client :
          subs[t][c] > 0 /\ subs'[t][c] = 0 =>
              \/ pc[c] = "unsub" /\ req[c].topic = t /\ pc'[c] # "unsub"
              \/ pc[c] = "cleanup" /\ pc'[c] # "cleanup"
              \/ \E p, d \in Client :
                    /\ pc[p] = "pub_write" /\ req[p].topic = t /\ pc'[p] # "pub_write"
                    /\ todo[p][d] > 0 /\ net[d] = "closed"]_vars

\* stop() returns: the accept loop notices, wherever it was.
StopReturns == stop_ ~> stopper = "stopped"

\* An accepted connection that broke is given up: its handler ends, whatever
\* it was doing, and (NoDangling) it is subscribed to nothing then.
BrokenIsForgotten ==
    \A c \in Client : (net[c] = "closed" /\ pc[c] # "backlog") ~> pc[c] = "gone"

=============================================================================
