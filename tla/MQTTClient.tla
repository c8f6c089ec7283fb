----------------------------- MODULE MQTTClient -----------------------------
(***************************************************************************)
(* MQTTClient::Impl (mqtt/MQTTClient.cpp) and the broker it talks to.  The *)
(* application's thread connects, subscribes, unsubscribes, publishes and  *)
(* closes; the thread that run() starts reads packets and runs the         *)
(* callbacks, with mutex_ held.                                            *)
(*                                                                         *)
(* The broker is what MQTTBroker shows it to be to one client: it handles  *)
(* packets in their order and sends a message published by others on a     *)
(* topic while the client is subscribed.  It may refuse the connection or  *)
(* go away, and it need not send anything.  Packets the client ignores     *)
(* (acknowledgements, PINGRESP, malformed or unknown ones) are "other".    *)
(***************************************************************************)
EXTENDS Naturals, Sequences

CONSTANTS
    Topic,
    NoTopic,
    MaxCalls,      \* bound: subscribe(), unsubscribe() and publish()
    MaxPackets     \* bound: packets the broker sends after CONNACK

ASSUME ConstantAssumption ==
    /\ NoTopic \notin Topic
    /\ MaxCalls \in Nat /\ MaxPackets \in Nat

VARIABLES
    conn_,         \* "none", "open" or "closed"
    main,          \* what the application's thread does next; "fault": it has
                   \* dereferenced a null pointer, which ends the behaviour
    arg,           \* the topic of its call
    stop_, mutex_, \* mutex_: "free" or "reader", from one step to the next
    callbacks_,    \* callbacks_[t]: the call that registered it, 0 for none
    reader,        \* what the thread of run() does next
    packet,        \* the packet it handles
    toBroker, toClient,
    broker,        \* "up" or "gone"
    subscribed,    \* the topics the broker sends
    calls, packets,
    \* Auxiliary.
    active,        \* topics with subscribe() returned, unsubscribe() not begun
    silenced,      \* topics with unsubscribe() returned, subscribe() not begun
    called         \* the messages given to callbacks

app   == <<conn_, main, arg, stop_>>
net   == <<toBroker, toClient, broker, subscribed, packets>>
aux   == <<active, silenced>>
vars  == <<conn_, main, arg, stop_, mutex_, callbacks_, reader, packet, toBroker,
           toClient, broker, subscribed, calls, packets, active, silenced, called>>

\* A packet to the client; live tells (auxiliary) whether it was published
\* while the topic was active.
Packet == [topic : Topic \cup {NoTopic}, n : 0 .. MaxPackets, live : BOOLEAN]
Other  == [topic |-> NoTopic, n |-> 0, live |-> FALSE]

Request == [type : {"subscribe", "unsubscribe", "publish"}, topic : Topic]

TypeOK ==
    /\ conn_ \in {"none", "open", "closed"}
    /\ main \in {"idle", "connack", "ready", "subscribe", "unsubscribe",
                 "join", "disconnect", "closed", "fault"}
    /\ arg \in Topic \cup {NoTopic}
    /\ stop_ \in BOOLEAN
    /\ mutex_ \in {"free", "reader"}
    /\ callbacks_ \in [Topic -> 0 .. MaxCalls]
    /\ reader \in {"none", "test", "read", "lock", "dispatch", "callback", "inside",
                   "self", "ended"}
    /\ mutex_ = "reader" <=> reader \in {"dispatch", "callback", "inside", "self"}
    /\ packet \in Packet
    /\ toBroker \in Seq(Request) /\ toClient \in Seq(Packet)
    /\ broker \in {"up", "gone"}
    /\ subscribed \in SUBSET Topic
    /\ calls \in 0 .. MaxCalls /\ packets \in 0 .. MaxPackets
    /\ active \in SUBSET Topic /\ silenced \in SUBSET Topic
    /\ called \in Seq(Packet)

Init ==
    /\ conn_ = "none" /\ main = "idle" /\ arg = NoTopic /\ stop_ = FALSE
    /\ mutex_ = "free"
    /\ callbacks_ = [t \in Topic |-> 0]
    /\ reader = "none" /\ packet = Other
    /\ toBroker = << >> /\ toClient = << >>
    /\ broker = "up" /\ subscribed = {}
    /\ calls = 0 /\ packets = 0
    /\ active = {} /\ silenced = {} /\ called = << >>

-----------------------------------------------------------------------------
(* The broker                                                              *)

BrokerHandles ==
    /\ broker = "up"
    /\ toBroker # << >>
    /\ LET r == Head(toBroker) IN
       subscribed' = CASE r.type = "subscribe"   -> subscribed \cup {r.topic}
                       [] r.type = "unsubscribe" -> subscribed \ {r.topic}
                       [] OTHER                  -> subscribed
    /\ toBroker' = Tail(toBroker)
    /\ UNCHANGED <<app, mutex_, callbacks_, reader, packet, toClient, broker, calls,
                   packets, aux, called>>

BrokerSends(p) ==
    /\ broker = "up" /\ conn_ = "open"
    /\ packets < MaxPackets
    /\ packets' = packets + 1
    /\ toClient' = Append(toClient, p)
    /\ UNCHANGED <<app, mutex_, callbacks_, reader, packet, toBroker, broker, subscribed,
                   calls, aux, called>>

BrokerPublishes(t) ==
    /\ t \in subscribed
    /\ BrokerSends([topic |-> t, n |-> packets + 1, live |-> t \in active])

BrokerGoes ==
    /\ broker = "up" /\ conn_ # "none"
    /\ broker' = "gone"
    /\ UNCHANGED <<app, mutex_, callbacks_, reader, packet, toBroker, toClient,
                   subscribed, calls, packets, aux, called>>

-----------------------------------------------------------------------------
(* The application's thread                                                *)

\* connect(): CONNECT is written
Connect ==
    /\ main = "idle"
    /\ conn_' = "open"
    /\ main' = "connack"
    /\ UNCHANGED <<arg, stop_, mutex_, callbacks_, reader, packet, net, calls, aux,
                   called>>

\* The context returns no connection, and CONNECT is written to it.
ConnectFails ==
    /\ main = "idle"
    /\ main' = "fault"
    /\ UNCHANGED <<conn_, arg, stop_, mutex_, callbacks_, reader, packet, net, calls, aux,
                   called>>

\* connackHandler: success, or one of its exceptions.  The connection is lost
\* then, but conn_ stays, and so does all that the client can be asked to do.
Connack(ok) ==
    /\ main = "connack"
    /\ ok => broker = "up"
    /\ broker' = IF ok THEN "up" ELSE "gone"
    /\ main' = "ready"
    /\ UNCHANGED <<conn_, arg, stop_, mutex_, callbacks_, reader, packet, toBroker,
                   toClient, subscribed, packets, calls, aux, called>>

\* run()
RunCall ==
    /\ main = "ready" /\ reader = "none"
    /\ reader' = "test"
    /\ UNCHANGED <<app, mutex_, callbacks_, packet, net, calls, aux, called>>

\* What a call writes before it locks mutex_.
WritePacket(type, t) ==
    /\ calls < MaxCalls
    /\ calls' = calls + 1
    /\ toBroker' = Append(toBroker, [type |-> type, topic |-> t])

Subscribe(t) ==
    /\ main = "ready"
    /\ WritePacket("subscribe", t)
    /\ silenced' = silenced \ {t}
    /\ main' = "subscribe" /\ arg' = t
    /\ UNCHANGED <<conn_, stop_, mutex_, callbacks_, reader, packet, toClient, broker,
                   subscribed, packets, active, called>>

\* callbacks_.emplace keeps a callback that is there already.
Register ==
    /\ main = "subscribe"
    /\ mutex_ = "free"
    /\ callbacks_' = [callbacks_ EXCEPT ![arg] = IF @ = 0 THEN calls ELSE @]
    /\ active' = active \cup {arg}
    /\ main' = "ready" /\ arg' = NoTopic
    /\ UNCHANGED <<conn_, stop_, mutex_, reader, packet, net, calls, silenced, called>>

Unsubscribe(t) ==
    /\ main = "ready"
    /\ WritePacket("unsubscribe", t)
    /\ active' = active \ {t}
    /\ main' = "unsubscribe" /\ arg' = t
    /\ UNCHANGED <<conn_, stop_, mutex_, callbacks_, reader, packet, toClient, broker,
                   subscribed, packets, silenced, called>>

\* Mutant: every callback is removed.
EraseAll ==
    /\ main = "unsubscribe"
    /\ mutex_ = "free"
    /\ callbacks_' = [t \in Topic |-> 0]
    /\ silenced' = silenced \cup {arg}
    /\ main' = "ready" /\ arg' = NoTopic
    /\ UNCHANGED <<conn_, stop_, mutex_, reader, packet, net, calls, active, called>>

\* callbacks_.erase
Erase ==
    /\ main = "unsubscribe"
    /\ mutex_ = "free"
    /\ callbacks_' = [callbacks_ EXCEPT ![arg] = 0]
    /\ silenced' = silenced \cup {arg}
    /\ main' = "ready" /\ arg' = NoTopic
    /\ UNCHANGED <<conn_, stop_, mutex_, reader, packet, net, calls, active, called>>

Publish(t) ==
    /\ main = "ready"
    /\ WritePacket("publish", t)
    /\ UNCHANGED <<app, mutex_, callbacks_, reader, packet, toClient, broker, subscribed,
                   packets, aux, called>>

CloseCall ==
    /\ main = "ready"
    /\ stop_' = TRUE
    /\ main' = "join"
    /\ UNCHANGED <<conn_, arg, mutex_, callbacks_, reader, packet, net, calls, aux,
                   called>>

\* Mutant: the socket is closed first, so that a blocked reader ends.
JoinNot ==
    /\ main = "join"
    /\ main' = "disconnect"
    /\ UNCHANGED <<conn_, arg, stop_, mutex_, callbacks_, reader, packet, net, calls,
                   aux, called>>

Join ==
    /\ main = "join"
    /\ reader \in {"none", "ended"}
    /\ main' = "disconnect"
    /\ UNCHANGED <<conn_, arg, stop_, mutex_, callbacks_, reader, packet, net, calls,
                   aux, called>>

\* DISCONNECT is written and the socket closed.
Disconnect ==
    /\ main = "disconnect"
    /\ conn_' = "closed"
    /\ main' = "closed"
    /\ UNCHANGED <<arg, stop_, mutex_, callbacks_, reader, packet, net, calls, aux,
                   called>>

-----------------------------------------------------------------------------
(* The thread of run()                                                     *)

\* Mutant: the loop does not look at stop_.
ReaderTestNot ==
    /\ reader = "test"
    /\ reader' = "read"
    /\ UNCHANGED <<app, mutex_, callbacks_, packet, net, calls, aux, called>>

ReaderTest ==
    /\ reader = "test"
    /\ reader' = IF stop_ THEN "ended" ELSE "read"
    /\ UNCHANGED <<app, mutex_, callbacks_, packet, net, calls, aux, called>>

Read ==
    /\ reader = "read"
    /\ toClient # << >>
    /\ packet' = Head(toClient)
    /\ toClient' = Tail(toClient)
    /\ reader' = IF packet' = Other THEN "test" ELSE "lock"
    /\ UNCHANGED <<app, mutex_, callbacks_, toBroker, broker, subscribed, calls, packets,
                   aux, called>>

\* readExact fails, at the beginning of a packet or within the last one.
ReadFails ==
    /\ reader = "read"
    /\ broker = "gone" /\ Len(toClient) <= 1
    /\ toClient' = << >>
    /\ reader' = "ended"
    /\ UNCHANGED <<app, mutex_, callbacks_, packet, toBroker, broker, subscribed, calls,
                   packets, aux, called>>

ReaderLock ==
    /\ reader = "lock"
    /\ mutex_ = "free"
    /\ mutex_' = "reader"
    /\ reader' = "dispatch"
    /\ UNCHANGED <<app, callbacks_, packet, net, calls, aux, called>>

\* Mutant: the callback is copied and runs without the mutex.
DispatchUnlocked ==
    /\ reader = "dispatch"
    /\ mutex_' = "free"
    /\ reader' = IF callbacks_[packet.topic] # 0 THEN "callback" ELSE "test"
    /\ UNCHANGED <<app, callbacks_, packet, net, calls, aux, called>>

\* if (callbacks_.contains(topic))
Dispatch ==
    /\ reader = "dispatch"
    /\ IF callbacks_[packet.topic] # 0
       THEN reader' = "callback" /\ UNCHANGED mutex_
       ELSE reader' = "test" /\ mutex_' = "free"
    /\ UNCHANGED <<app, callbacks_, packet, net, calls, aux, called>>

Invoke ==
    /\ reader = "callback"
    /\ called' = Append(called, packet)
    /\ reader' = "inside"
    /\ UNCHANGED <<app, mutex_, callbacks_, packet, net, calls, aux>>

\* A callback that publishes, and one that subscribes or unsubscribes: it
\* writes, and then waits for the mutex its own thread holds.
CallbackPublishes(t) ==
    /\ reader = "inside"
    /\ WritePacket("publish", t)
    /\ UNCHANGED <<app, mutex_, callbacks_, reader, packet, toClient, broker, subscribed,
                   packets, aux, called>>

CallbackSubscribes(type, t) ==
    /\ reader = "inside"
    /\ WritePacket(type, t)
    /\ reader' = "self"
    /\ UNCHANGED <<app, mutex_, callbacks_, packet, toClient, broker, subscribed,
                   packets, aux, called>>

CallbackReturns ==
    /\ reader = "inside"
    /\ mutex_' = "free"
    /\ reader' = "test"
    /\ UNCHANGED <<app, callbacks_, packet, net, calls, aux, called>>

-----------------------------------------------------------------------------
Main == Connack(TRUE) \/ Connack(FALSE) \/ Register \/ Erase \/ Join \/ Disconnect

Reader == \/ ReaderTest \/ Read \/ ReadFails \/ ReaderLock \/ Dispatch \/ Invoke
          \/ CallbackReturns

Next ==
    \/ Main \/ Reader
    \/ Connect \/ ConnectFails \/ RunCall \/ CloseCall
    \/ BrokerHandles \/ BrokerSends(Other) \/ BrokerGoes
    \/ \E t \in Topic : \/ Subscribe(t) \/ Unsubscribe(t) \/ Publish(t)
                        \/ BrokerPublishes(t) \/ CallbackPublishes(t)
                        \/ CallbackSubscribes("subscribe", t)
                        \/ CallbackSubscribes("unsubscribe", t)

Spec == Init /\ [][Next]_vars

\* The threads of the client go on when they can.  The broker need not send
\* anything or go away.
FairSpec == Spec /\ WF_vars(Main) /\ WF_vars(Reader)

-----------------------------------------------------------------------------
(* Properties                                                              *)

\* When unsubscribe() has returned, the callback of its topic is not running
\* and is not about to run: the caller may destroy what it refers to.
UnsubscribedIsSilent ==
    \A t \in silenced : ~(reader \in {"callback", "inside", "self"} /\ packet.topic = t)

\* The socket is closed only after the last read from it and the last
\* callback.
ReaderEndsBeforeSocket == conn_ = "closed" => reader \in {"none", "ended"}

\* A message published while its topic was subscribed, with subscribe()
\* returned, is not dropped for want of a callback, unless unsubscribe() of
\* that topic has begun: what the application does with other topics, or a
\* second subscribe() of the same, costs no message.
SubscribedIsCalled ==
    [][(reader = "dispatch" /\ reader' = "test" /\ packet.live)
          => packet.topic \notin active]_vars

\* A callback has called subscribe() or unsubscribe(): its thread waits for
\* the mutex it holds.
SelfDeadlock == reader = "self"

\* close() returns as soon as the broker sends one more packet or goes away:
\* the reader, wherever it is, sees stop_ before it reads again.
CloseReturns ==
    (main = "join" /\ (toClient # << >> \/ broker = "gone"))
        ~> (main = "closed" \/ SelfDeadlock)
=============================================================================
