-------------------------- MODULE MQTTClientProofs --------------------------
(***************************************************************************)
(* Proofs about MQTTClient, for any topics and any number of calls and     *)
(* packets.                                                                *)
(*                                                                         *)
(* None of the properties is inductive.  What they share is how            *)
(* callbacks_ agrees with what the application knows: a topic that is      *)
(* active has a callback, one that is silenced has none (TableInv), which  *)
(* depends on the call the application's thread is in (CallInv).  A        *)
(* callback that runs is in the table, because the reader has the mutex    *)
(* (RunInv), and the packets that reach Dispatch have a topic (PacketInv). *)
(***************************************************************************)
EXTENDS MQTTClient, TLAPS

\* The topic of a call in progress is neither active nor silenced, as far as
\* the call will change that.
CallInv ==
    /\ main \in {"subscribe", "unsubscribe"} => arg \in Topic
    /\ main = "subscribe" => arg \notin silenced /\ calls > 0
    /\ main = "unsubscribe" => arg \notin active

TableInv ==
    /\ \A t \in active : callbacks_[t] # 0
    /\ \A t \in silenced : callbacks_[t] = 0

HasTopic(p) == p = Other \/ p.topic \in Topic

PacketInv ==
    /\ \A i \in 1 .. Len(toClient) : HasTopic(toClient[i])
    /\ reader \in {"lock", "dispatch", "callback", "inside", "self"} =>
          packet.topic \in Topic

RunInv == reader \in {"callback", "inside", "self"} => callbacks_[packet.topic] # 0

\* close() has joined the reader before it comes to the socket.
CloseInv ==
    /\ main \in {"disconnect", "closed"} => reader \in {"none", "ended"}
    /\ conn_ = "closed" => main = "closed"

Parts == CallInv /\ TableInv /\ PacketInv /\ RunInv /\ CloseInv
IInv == TypeOK /\ Parts

LEMMA Basics == Other \in Packet /\ Other.topic = NoTopic
BY ConstantAssumption DEF Other, Packet

LEMMA InitIInv == Init => IInv
<1> SUFFICES ASSUME Init PROVE IInv
    OBVIOUS
<1>1. stop_ \in BOOLEAN
    BY Zenon DEF Init
<1>2. /\ calls \in 0 .. MaxCalls /\ packets \in 0 .. MaxPackets
      /\ callbacks_ \in [Topic -> 0 .. MaxCalls]
    BY ConstantAssumption DEF Init
<1>3. toBroker \in Seq(Request) /\ toClient \in Seq(Packet) /\ called \in Seq(Packet)
    BY DEF Init
<1>4. TypeOK
    BY <1>1, <1>2, <1>3, Basics DEF Init, TypeOK
<1>5. Parts
    BY DEF Init, Parts, CallInv, TableInv, PacketInv, RunInv, CloseInv
<1> QED BY <1>4, <1>5 DEF IInv

-----------------------------------------------------------------------------
(* Types                                                                   *)

LEMMA WriteType ==
    ASSUME TypeOK, NEW t \in Topic,
           NEW type \in {"subscribe", "unsubscribe", "publish"}, WritePacket(type, t)
    PROVE  calls' \in 0 .. MaxCalls /\ calls' > 0 /\ toBroker' \in Seq(Request)
<1>1. [type |-> type, topic |-> t] \in Request
    BY DEF Request
<1> QED BY <1>1, ConstantAssumption DEF WritePacket, TypeOK

LEMMA BrokerType ==
    ASSUME TypeOK,
           \/ BrokerHandles \/ BrokerSends(Other) \/ BrokerGoes
           \/ \E t \in Topic : BrokerPublishes(t)
    PROVE  TypeOK'
<1>1. CASE BrokerHandles
  <2>1. Head(toBroker) \in Request /\ Tail(toBroker) \in Seq(Request)
    BY <1>1 DEF BrokerHandles, TypeOK
  <2>2. subscribed' \in SUBSET Topic
    BY <1>1, <2>1 DEF BrokerHandles, TypeOK, Request
  <2> QED BY <1>1, <2>1, <2>2 DEF BrokerHandles, app, aux, TypeOK
<1>2. ASSUME NEW p \in Packet, BrokerSends(p) PROVE TypeOK'
  <2>1. packets' \in 0 .. MaxPackets /\ toClient' \in Seq(Packet)
    BY <1>2, ConstantAssumption DEF BrokerSends, TypeOK
  <2> QED BY <1>2, <2>1 DEF BrokerSends, app, aux, TypeOK
<1>3. ASSUME NEW t \in Topic, BrokerPublishes(t) PROVE TypeOK'
  <2>1. packets + 1 \in 0 .. MaxPackets /\ (t \in active) \in BOOLEAN
    BY <1>3, ConstantAssumption DEF BrokerPublishes, BrokerSends, TypeOK
  <2>2. [topic |-> t, n |-> packets + 1, live |-> t \in active] \in Packet
    BY <2>1 DEF Packet
  <2> QED BY <1>2, <1>3, <2>2 DEF BrokerPublishes
<1>4. CASE BrokerGoes
    BY <1>4 DEF BrokerGoes, app, aux, TypeOK
<1> QED BY <1>1, <1>2, <1>3, <1>4, Basics

LEMMA MainType ==
    ASSUME TypeOK, CallInv,
           \/ Main \/ Connect \/ ConnectFails \/ CloseCall
           \/ \E t \in Topic : Subscribe(t) \/ Unsubscribe(t) \/ Publish(t)
    PROVE  TypeOK'
<1>1. CASE Register
  <2>1. arg \in Topic /\ callbacks_' \in [Topic -> 0 .. MaxCalls]
    BY <1>1 DEF Register, CallInv, TypeOK
  <2> QED BY <1>1, <2>1 DEF Register, net, TypeOK
<1>2. CASE Erase
  <2>1. arg \in Topic /\ callbacks_' \in [Topic -> 0 .. MaxCalls]
    BY <1>2, ConstantAssumption DEF Erase, CallInv, TypeOK
  <2> QED BY <1>2, <2>1 DEF Erase, net, TypeOK
<1>3. CASE Connack(TRUE) \/ Connack(FALSE)
    BY <1>3 DEF Connack, aux, TypeOK
<1>4. CASE Join \/ Disconnect \/ Connect \/ ConnectFails
    BY <1>4 DEF Join, Disconnect, Connect, ConnectFails, net, aux, TypeOK
<1>5. CASE CloseCall
  <2>1. stop_' \in BOOLEAN
    BY <1>5, Zenon DEF CloseCall
  <2> QED BY <1>5, <2>1 DEF CloseCall, net, aux, TypeOK
<1>6. ASSUME NEW t \in Topic, Subscribe(t) \/ Unsubscribe(t) \/ Publish(t)
      PROVE  TypeOK'
  <2>1. calls' \in 0 .. MaxCalls /\ toBroker' \in Seq(Request)
    BY <1>6, WriteType DEF Subscribe, Unsubscribe, Publish
  <2>2. /\ active' \in SUBSET Topic /\ silenced' \in SUBSET Topic
        /\ arg' \in Topic \cup {NoTopic}
        /\ main' \in {"ready", "subscribe", "unsubscribe"}
        /\ UNCHANGED <<conn_, stop_, mutex_, callbacks_, reader, packet, toClient, broker,
                       subscribed, packets, called>>
    BY <1>6 DEF Subscribe, Unsubscribe, Publish, app, aux, TypeOK
  <2> QED BY <2>1, <2>2, Zenon DEF TypeOK
<1> QED BY <1>1, <1>2, <1>3, <1>4, <1>5, <1>6 DEF Main

LEMMA ReaderType ==
    ASSUME TypeOK,
           \/ Reader \/ RunCall
           \/ \E t \in Topic : \/ CallbackPublishes(t)
                               \/ CallbackSubscribes("subscribe", t)
                               \/ CallbackSubscribes("unsubscribe", t)
    PROVE  TypeOK'
<1>1. CASE Read
  <2>1. packet' \in Packet /\ toClient' \in Seq(Packet)
    BY <1>1 DEF Read, TypeOK
  <2> QED BY <1>1, <2>1 DEF Read, app, aux, TypeOK
<1>2. CASE ReadFails
  <2>1. toClient' \in Seq(Packet)
    BY <1>2 DEF ReadFails
  <2> QED BY <1>2, <2>1 DEF ReadFails, app, aux, TypeOK
<1>3. CASE ReaderTest \/ ReaderLock \/ Dispatch \/ CallbackReturns \/ RunCall
    BY <1>3 DEF ReaderTest, ReaderLock, Dispatch, CallbackReturns, RunCall, app, net, aux,
                TypeOK
<1>4. CASE Invoke
  <2>1. called' \in Seq(Packet)
    BY <1>4 DEF Invoke, TypeOK
  <2> QED BY <1>4, <2>1 DEF Invoke, app, net, aux, TypeOK
<1>5. ASSUME NEW t \in Topic,
             \/ CallbackPublishes(t) \/ CallbackSubscribes("subscribe", t)
             \/ CallbackSubscribes("unsubscribe", t)
      PROVE  TypeOK'
  <2>1. calls' \in 0 .. MaxCalls /\ toBroker' \in Seq(Request)
    BY <1>5, WriteType DEF CallbackPublishes, CallbackSubscribes
  <2> QED BY <1>5, <2>1 DEF CallbackPublishes, CallbackSubscribes, app, aux, TypeOK
<1> QED BY <1>1, <1>2, <1>3, <1>4, <1>5 DEF Reader

-----------------------------------------------------------------------------
(* The other parts                                                         *)

\* The broker touches none of them but the packets under way.
LEMMA BrokerStep ==
    ASSUME IInv,
           \/ BrokerHandles \/ BrokerSends(Other) \/ BrokerGoes
           \/ \E t \in Topic : BrokerPublishes(t)
    PROVE  Parts'
<1>1. UNCHANGED <<conn_, main, arg, callbacks_, reader, packet, calls, active, silenced>>
    BY DEF BrokerHandles, BrokerSends, BrokerPublishes, BrokerGoes, app, aux
<1>2. CASE toClient' = toClient
    BY <1>1, <1>2 DEF IInv, Parts, CallInv, TableInv, PacketInv, RunInv, CloseInv
<1>3. ASSUME NEW p, HasTopic(p), p \in Packet, toClient' = Append(toClient, p)
      PROVE  Parts'
  <2>1. \A i \in 1 .. Len(toClient') : HasTopic(toClient'[i])
    <3>1. toClient \in Seq(Packet) /\ \A i \in 1 .. Len(toClient) : HasTopic(toClient[i])
      BY DEF IInv, TypeOK, Parts, PacketInv
    <3>2. Len(toClient') = Len(toClient) + 1
      BY <1>3, <3>1
    <3>3. \A i \in 1 .. Len(toClient') :
             toClient'[i] = IF i = Len(toClient) + 1 THEN p ELSE toClient[i]
      BY <1>3, <3>1, <3>2
    <3>4. Len(toClient) \in Nat
      BY <3>1
    <3> QED BY <1>3, <3>1, <3>2, <3>3, <3>4
  <2> QED BY <1>1, <2>1 DEF IInv, Parts, CallInv, TableInv, PacketInv, RunInv, CloseInv
<1>4. CASE BrokerSends(Other)
    BY <1>3, <1>4, Basics DEF BrokerSends, HasTopic
<1>5. ASSUME NEW t \in Topic, BrokerPublishes(t) PROVE Parts'
  <2> DEFINE p == [topic |-> t, n |-> packets + 1, live |-> t \in active]
  <2>1. packets + 1 \in 0 .. MaxPackets /\ (t \in active) \in BOOLEAN
    BY <1>5, ConstantAssumption DEF BrokerPublishes, BrokerSends, IInv, TypeOK
  <2>2. p \in Packet /\ HasTopic(p)
    BY <2>1 DEF Packet, HasTopic
  <2>3. toClient' = Append(toClient, p)
    BY <1>5 DEF BrokerPublishes, BrokerSends
  <2> HIDE DEF p
  <2> QED BY <1>3, <2>2, <2>3
<1> QED BY <1>2, <1>4, <1>5 DEF BrokerHandles, BrokerGoes

\* The application's thread changes the table only when it has the mutex, so
\* that no callback is running.
LEMMA MainStep ==
    ASSUME IInv,
           \/ Main \/ Connect \/ ConnectFails \/ CloseCall
           \/ \E t \in Topic : Subscribe(t) \/ Unsubscribe(t) \/ Publish(t)
    PROVE  Parts'
<1>1. UNCHANGED <<reader, packet, toClient>>
    BY DEF Main, Connack, Register, Erase, Join, Disconnect, Connect, ConnectFails,
           CloseCall, Subscribe, Unsubscribe, Publish, app, net
<1>2. PacketInv'
    BY <1>1 DEF IInv, Parts, PacketInv, HasTopic
<1>3. CASE Register
  <2>1. arg \in Topic /\ arg \notin silenced /\ calls > 0 /\ mutex_ = "free"
    BY <1>3 DEF Register, IInv, Parts, CallInv
  <2>2. \A t \in Topic : callbacks_'[t] = IF t = arg /\ callbacks_[t] = 0 THEN calls
                                          ELSE callbacks_[t]
    BY <1>3, <2>1 DEF Register, IInv, TypeOK
  <2>3. TableInv'
    BY <1>3, <2>1, <2>2 DEF Register, IInv, TypeOK, Parts, TableInv
  <2>4. RunInv'
    BY <1>1, <2>1 DEF IInv, TypeOK, RunInv
  <2> QED BY <1>1, <1>2, <1>3, <2>3, <2>4 DEF Register, IInv, Parts, CallInv, CloseInv
<1>4. CASE Erase
  <2>1. arg \in Topic /\ arg \notin active /\ mutex_ = "free"
    BY <1>4 DEF Erase, IInv, Parts, CallInv
  <2>2. \A t \in Topic : callbacks_'[t] = IF t = arg THEN 0 ELSE callbacks_[t]
    BY <1>4, <2>1 DEF Erase, IInv, TypeOK
  <2>3. TableInv'
    BY <1>4, <2>1, <2>2 DEF Erase, IInv, TypeOK, Parts, TableInv
  <2>4. RunInv'
    BY <1>1, <2>1 DEF IInv, TypeOK, RunInv
  <2> QED BY <1>1, <1>2, <1>4, <2>3, <2>4 DEF Erase, IInv, Parts, CallInv, CloseInv
<1>5. ASSUME NEW t \in Topic, Subscribe(t) \/ Unsubscribe(t) \/ Publish(t)
      PROVE  Parts'
  <2>1. calls' > 0
    BY <1>5, WriteType DEF Subscribe, Unsubscribe, Publish, IInv
  <2> QED BY <1>1, <1>2, <1>5, <2>1
          DEF Subscribe, Unsubscribe, Publish, app, aux, IInv, Parts, CallInv, TableInv,
              RunInv, CloseInv
<1>6. CASE \/ Connack(TRUE) \/ Connack(FALSE) \/ Join \/ Disconnect \/ Connect
           \/ ConnectFails \/ CloseCall
    BY <1>1, <1>2, <1>6
       DEF Connack, Join, Disconnect, Connect, ConnectFails, CloseCall, aux, IInv, Parts, CallInv,
           TableInv, RunInv, CloseInv
<1> QED BY <1>3, <1>4, <1>5, <1>6 DEF Main

\* The reader, and the callbacks it runs, leave the table to the application.
LEMMA ReaderStep ==
    ASSUME IInv,
           \/ Reader \/ RunCall
           \/ \E t \in Topic : \/ CallbackPublishes(t)
                               \/ CallbackSubscribes("subscribe", t)
                               \/ CallbackSubscribes("unsubscribe", t)
    PROVE  Parts'
<1>1. UNCHANGED <<conn_, main, arg, callbacks_, active, silenced>>
    BY DEF Reader, ReaderTest, Read, ReadFails, ReaderLock, Dispatch, Invoke,
           CallbackReturns, RunCall, CallbackPublishes, CallbackSubscribes, app, aux
<1>2. calls' = calls \/ calls' > 0
    BY WriteType DEF Reader, ReaderTest, Read, ReadFails, ReaderLock, Dispatch, Invoke,
           CallbackReturns, RunCall, CallbackPublishes, CallbackSubscribes, IInv
<1>3. CallInv' /\ TableInv'
    BY <1>1, <1>2 DEF IInv, Parts, CallInv, TableInv
<1>4. CloseInv'
    BY <1>1 DEF Reader, ReaderTest, Read, ReadFails, ReaderLock, Dispatch, Invoke,
           CallbackReturns, RunCall, CallbackPublishes, CallbackSubscribes, IInv, Parts,
           CloseInv
<1>5. CASE Read
  <2>1. HasTopic(Head(toClient))
    BY <1>5 DEF Read, IInv, TypeOK, Parts, PacketInv
  <2>2. \A i \in 1 .. Len(toClient') : HasTopic(toClient'[i])
    BY <1>5 DEF Read, IInv, TypeOK, Parts, PacketInv
  <2>3. PacketInv' /\ RunInv'
    BY <1>5, <2>1, <2>2 DEF Read, PacketInv, RunInv, HasTopic
  <2> QED BY <1>3, <1>4, <2>3 DEF Parts
<1>6. CASE ReadFails
  <2>1. PacketInv' /\ RunInv'
    BY <1>6 DEF ReadFails, PacketInv, RunInv
  <2> QED BY <1>3, <1>4, <2>1 DEF Parts
<1>7. CASE \/ ReaderTest \/ ReaderLock \/ Dispatch \/ Invoke \/ CallbackReturns \/ RunCall
           \/ \E t \in Topic : \/ CallbackPublishes(t)
                               \/ CallbackSubscribes("subscribe", t)
                               \/ CallbackSubscribes("unsubscribe", t)
  <2>1. UNCHANGED <<toClient, packet>>
    BY <1>7 DEF ReaderTest, ReaderLock, Dispatch, Invoke, CallbackReturns, RunCall,
       CallbackPublishes, CallbackSubscribes, net
  <2>2. PacketInv' /\ RunInv'
    BY <1>1, <1>7, <2>1 DEF ReaderTest, ReaderLock, Dispatch, Invoke, CallbackReturns,
       RunCall, CallbackPublishes, CallbackSubscribes, IInv, Parts, PacketInv, RunInv,
       HasTopic
  <2> QED BY <1>3, <1>4, <2>2 DEF Parts
<1> QED BY <1>5, <1>6, <1>7 DEF Reader

LEMMA NextIInv == IInv /\ [Next]_vars => IInv'
<1> SUFFICES ASSUME IInv, [Next]_vars PROVE IInv'
    OBVIOUS
<1>1. CASE UNCHANGED vars
    BY <1>1 DEF vars, IInv, TypeOK, Parts, CallInv, TableInv, PacketInv, RunInv, CloseInv,
                HasTopic
<1>2. CASE Next
  <2>1. TypeOK'
    BY <1>2, BrokerType, MainType, ReaderType DEF Next, IInv, Parts
  <2>2. Parts'
    BY <1>2, BrokerStep, MainStep, ReaderStep DEF Next
  <2> QED BY <2>1, <2>2 DEF IInv
<1> QED BY <1>1, <1>2

LEMMA Invariance == Spec => []IInv
BY InitIInv, NextIInv, PTL DEF Spec

-----------------------------------------------------------------------------
\* Every state of the client is well typed: mutex_ is locked by the reader
\* exactly while it dispatches a packet.
THEOREM TypeCorrect == Spec => []TypeOK
<1>1. IInv => TypeOK
    BY DEF IInv
<1> QED BY <1>1, Invariance, PTL

\* After unsubscribe() has returned no callback of its topic runs or is about
\* to, for any topics and any sequence of calls.
THEOREM SilenceAfterUnsubscribe == Spec => []UnsubscribedIsSilent
<1>1. IInv => UnsubscribedIsSilent
    BY DEF IInv, Parts, TableInv, RunInv, UnsubscribedIsSilent
<1> QED BY <1>1, Invariance, PTL

\* close() never closes the socket under the thread of run().
THEOREM ReaderBeforeSocket == Spec => []ReaderEndsBeforeSocket
<1>1. IInv => ReaderEndsBeforeSocket
    BY DEF IInv, Parts, CloseInv, ReaderEndsBeforeSocket
<1> QED BY <1>1, Invariance, PTL

\* A message of a topic that is subscribed always meets its callback, whatever
\* happens to other topics and however often subscribe() is repeated.
THEOREM CallbackIsFound == Spec => SubscribedIsCalled
<1> DEFINE A == (reader = "dispatch" /\ reader' = "test" /\ packet.live)
                    => packet.topic \notin active
<1>1. IInv /\ [Next]_vars => [A]_vars
  <2> SUFFICES ASSUME IInv, Next, reader = "dispatch", reader' = "test",
                      packet.topic \in active
               PROVE  FALSE
    OBVIOUS
  <2>1. callbacks_[packet.topic] # 0
    BY DEF IInv, Parts, TableInv
  <2>2. Dispatch
    BY DEF Next, Main, Connack, Register, Erase, Join, Disconnect, Reader, ReaderTest,
           Read, ReadFails, ReaderLock, Invoke, CallbackReturns, Connect, ConnectFails,
           RunCall, CloseCall, BrokerHandles, BrokerSends, BrokerGoes, BrokerPublishes, Subscribe,
           Unsubscribe, Publish, CallbackPublishes, CallbackSubscribes
  <2> QED BY <2>1, <2>2 DEF Dispatch
<1> QED BY <1>1, Invariance, PTL DEF Spec, SubscribedIsCalled
=============================================================================
