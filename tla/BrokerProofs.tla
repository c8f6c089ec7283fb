---------------------------- MODULE BrokerProofs ----------------------------
(***************************************************************************)
(* Proofs about MQTTBroker, for any number of clients, topics and packets. *)
(*                                                                         *)
(* IInv is inductive.  NoDangling alone is not: that cleanupClient removes *)
(* all occurrences of a client depends on the client's own topics covering *)
(* them (TableInv), and that a publisher's loop meets only live clients    *)
(* depends on the loop not outliving the vector (LoopInv), which depends   *)
(* on the mutex (MutexInv).  SameOrder follows from the turns publishers   *)
(* take (OrderInv).                                                        *)
(***************************************************************************)
EXTENDS MQTTBroker, TLAPS

LEMMA Basics ==
    /\ Nobody \in [Client -> Nat]
    /\ \A c \in Client : Nobody[c] = 0
    /\ \A c \in Client : NoPacket(c) \in Packet
BY ConstantAssumption DEF Nobody, NoPacket, Packet

LEMMA InitIInv == Init => IInv
<1> SUFFICES ASSUME Init PROVE IInv
    OBVIOUS
<1>1. TypeOK
  <2>1. stop_ \in BOOLEAN
    BY Zenon DEF Init
  <2>2. sent \in 0 .. MaxPackets /\ room \in [Client -> 0 .. OutCap]
    BY ConstantAssumption DEF Init
  <2>3. delivered \in [Client -> Seq(Packet)]
    BY DEF Init
  <2> QED
    BY <2>1, <2>2, <2>3, Basics DEF Init, TypeOK, HandlerState
<1>2. MutexInv /\ LoopInv
    BY DEF Init, MutexInv, LoopInv, TopicSteps
<1>3. TableInv
    BY Basics DEF Init, TableInv
<1>4. OrderInv
    BY DEF Init, OrderInv
<1> QED BY <1>1, <1>2, <1>3, <1>4 DEF IInv

-----------------------------------------------------------------------------
(* Types                                                                   *)

LEMMA WriteType ==
    ASSUME TypeOK, NEW c \in Client, WriteOk(c) \/ WriteFails(c)
    PROVE  room' \in [Client -> 0 .. OutCap]
<1>1. CASE room' = [room EXCEPT ![c] = @ - 1] /\ room[c] > 0
    BY <1>1, ConstantAssumption DEF TypeOK
<1>2. CASE room' = room
    BY <1>2 DEF TypeOK
<1> QED BY <1>1, <1>2 DEF WriteOk, WriteFails

LEMMA EnvironmentType ==
    ASSUME TypeOK, NEW c \in Client, Connect(c) \/ Hangup(c) \/ ClientRead(c)
    PROVE  TypeOK'
<1>1. CASE Connect(c)
    BY <1>1 DEF Connect, TypeOK, HandlerState, life, table, loop, wire
<1>2. CASE Hangup(c)
    BY <1>2 DEF Hangup, TypeOK, life, table, loop, wire
<1>3. CASE ClientRead(c)
    BY <1>3, ConstantAssumption DEF ClientRead, TypeOK, life, table, loop
<1> QED BY <1>1, <1>2, <1>3

LEMMA LifeType ==
    ASSUME TypeOK,
           AcceptTest \/ AcceptThrows \/ StopBegin \/ StopClose \/ StopJoin
    PROVE  TypeOK'
<1>1. CASE AcceptTest
    BY <1>1 DEF AcceptTest, TypeOK, table, loop, wire
<1>2. CASE AcceptThrows
    BY <1>2 DEF AcceptThrows, TypeOK, table, loop, wire
<1>3. CASE StopBegin
  <2>1. stop_' \in BOOLEAN
    BY <1>3, Zenon DEF StopBegin
  <2> QED BY <1>3, <2>1 DEF StopBegin, TypeOK, table, loop, wire
<1>4. CASE StopClose
    BY <1>4 DEF StopClose, TypeOK, HandlerState, table, loop, wire
<1>5. CASE StopJoin
    BY <1>5 DEF StopJoin, TypeOK, table, loop, wire
<1> QED BY <1>1, <1>2, <1>3, <1>4, <1>5

LEMMA HandlerType ==
    ASSUME TypeOK, NEW c \in Client,
           \/ Accept(c) \/ ConnectAccepted(c) \/ ConnectRefused(c) \/ LoopTest(c)
           \/ ReadPacket(c) \/ ReadFails(c) \/ Ack(c) \/ PublishCheck(c)
    PROVE  TypeOK'
<1> USE DEF Goto, Iterate, HandlerState, Serving, life, table, loop, wire
<1>1. CASE Accept(c)
    BY <1>1 DEF Accept, TypeOK
<1>2. CASE ConnectAccepted(c)
    BY <1>2, WriteType DEF ConnectAccepted, TypeOK
<1>3. CASE ConnectRefused(c)
    BY <1>3 DEF ConnectRefused, TypeOK
<1>4. CASE LoopTest(c)
    BY <1>4 DEF LoopTest, TypeOK
<1>5. CASE ReadPacket(c)
  <2>1. sent' \in 0 .. MaxPackets
    BY <1>5, ConstantAssumption DEF ReadPacket, TypeOK
  <2>2. req' \in [Client -> Packet]
    <3>1. CASE UNCHANGED req
      BY <3>1 DEF TypeOK
    <3>2. ASSUME NEW t \in Topic,
                 req' = [req EXCEPT ![c] = [topic |-> t, from |-> c, n |-> sent', turn |-> 0]]
          PROVE  req' \in [Client -> Packet]
      <4>1. [topic |-> t, from |-> c, n |-> sent', turn |-> 0] \in Packet
        BY <2>1 DEF Packet
      <4> QED BY <3>2, <4>1 DEF TypeOK
    <3> QED BY <1>5, <3>1, <3>2 DEF ReadPacket
  <2>3. pc' \in [Client -> HandlerState]
    <3>1. PICK next \in {"pub_check", "sub", "unsub", "ack", "cleanup", "loop"} : Goto(c, next)
      BY <1>5 DEF ReadPacket, WithTopic, WithoutTopic
    <3> QED BY <3>1 DEF TypeOK
  <2> QED BY <1>5, <2>1, <2>2, <2>3 DEF ReadPacket, TypeOK
<1>6. CASE ReadFails(c)
    BY <1>6 DEF ReadFails, TypeOK
<1>7. CASE Ack(c)
    BY <1>7, WriteType, Basics, ZenonT(60) DEF Ack, TypeOK
<1>8. CASE PublishCheck(c)
    BY <1>8, Basics DEF PublishCheck, TypeOK
<1> QED BY <1>1, <1>2, <1>3, <1>4, <1>5, <1>6, <1>7, <1>8

-----------------------------------------------------------------------------
(* Steps that touch neither subscribers_ nor a loop over it                *)

LEMMA Quiet ==
    ASSUME IInv, UNCHANGED <<topics, subs, subsMutex_, todo, delivered, turns>>,
           \A c \in Client :
               \/ pc'[c] = pc[c] /\ req'[c] = req[c]
               \/ /\ pc[c] # "pub_write" /\ pc'[c] # "pub_write"
                  /\ pc[c] \in Serving => pc'[c] \in Serving
                  /\ pc'[c] \in TopicSteps => req'[c].topic \in Topic
    PROVE  MutexInv' /\ TableInv' /\ LoopInv' /\ OrderInv'
<1>1. MutexInv'
    BY DEF IInv, MutexInv
<1>2. TableInv'
    BY DEF IInv, TableInv
<1>3. LoopInv'
    BY DEF IInv, LoopInv
<1>4. OrderInv'
    BY DEF IInv, OrderInv
<1> QED BY <1>1, <1>2, <1>3, <1>4

LEMMA EnvironmentStep ==
    ASSUME IInv, NEW c \in Client, Connect(c) \/ Hangup(c) \/ ClientRead(c)
    PROVE  IInv'
<1>1. TypeOK'
    BY EnvironmentType DEF IInv
<1>2. MutexInv' /\ TableInv' /\ LoopInv' /\ OrderInv'
  <2>1. CASE Connect(c)
    <3>1. UNCHANGED <<topics, subs, subsMutex_, todo, delivered, turns, req>>
      BY <2>1 DEF Connect, table, loop, wire
    <3>2. /\ pc[c] \notin Serving /\ pc'[c] \notin TopicSteps \cup {"pub_write"}
          /\ \A d \in Client \ {c} : pc'[d] = pc[d]
      BY <2>1 DEF Connect, IInv, TypeOK, Serving, TopicSteps
    <3> QED BY <3>1, <3>2, Quiet DEF Serving
  <2>2. CASE Hangup(c) \/ ClientRead(c)
    <3>1. UNCHANGED <<topics, subs, subsMutex_, todo, delivered, turns, req, pc>>
      BY <2>2 DEF Hangup, ClientRead, table, loop, wire
    <3> QED BY <2>2, <3>1, Quiet
  <2> QED BY <2>1, <2>2
<1> QED BY <1>1, <1>2 DEF IInv
LEMMA LifeStep ==
    ASSUME IInv,
           AcceptTest \/ AcceptThrows \/ StopBegin \/ StopClose \/ StopJoin
    PROVE  IInv'
<1>1. TypeOK'
    BY LifeType DEF IInv
<1>2. UNCHANGED <<topics, subs, subsMutex_, todo, delivered, turns, req>>
    BY DEF AcceptTest, AcceptThrows, StopBegin, StopClose, StopJoin, table, loop, wire
<1>3. \A c \in Client : pc'[c] = pc[c] \/ (pc[c] = "backlog" /\ pc'[c] = "gone")
    BY DEF AcceptTest, AcceptThrows, StopBegin, StopClose, StopJoin, IInv, TypeOK
<1>4. MutexInv' /\ TableInv' /\ LoopInv' /\ OrderInv'
    BY <1>2, <1>3, Quiet DEF Serving, TopicSteps
<1> QED BY <1>1, <1>4 DEF IInv

LEMMA HandlerStep ==
    ASSUME IInv, NEW c \in Client,
           \/ Accept(c) \/ ConnectAccepted(c) \/ ConnectRefused(c) \/ LoopTest(c)
           \/ ReadPacket(c) \/ ReadFails(c) \/ Ack(c) \/ PublishCheck(c)
    PROVE  IInv'
<1>1. TypeOK'
    BY HandlerType DEF IInv
<1>2. UNCHANGED <<topics, subs, subsMutex_, todo, delivered, turns>>
    BY DEF Accept, ConnectAccepted, ConnectRefused, LoopTest, ReadPacket, ReadFails,
           Ack, PublishCheck, table, loop, wire
<1>3. \A d \in Client \ {c} : pc'[d] = pc[d] /\ req'[d] = req[d]
    BY DEF Accept, ConnectAccepted, ConnectRefused, LoopTest, ReadPacket, ReadFails,
           Ack, PublishCheck, Goto, Iterate, IInv, TypeOK
<1>4. /\ pc[c] # "pub_write" /\ pc'[c] # "pub_write"
      /\ pc[c] \in Serving => pc'[c] \in Serving
      /\ pc'[c] \in TopicSteps => req'[c].topic \in Topic
  <2> USE DEF Goto, Iterate, Serving, TopicSteps
  <2>1. CASE Accept(c) \/ ConnectAccepted(c) \/ ConnectRefused(c) \/ LoopTest(c)
             \/ ReadFails(c) \/ Ack(c)
    BY <2>1 DEF Accept, ConnectAccepted, ConnectRefused, LoopTest, ReadFails, Ack,
                IInv, TypeOK
  <2>2. CASE ReadPacket(c)
    <3>1. ASSUME NEW type \in DOMAIN WithTopic, NEW t \in Topic, Goto(c, WithTopic[type]),
                 req' = [req EXCEPT ![c] = [topic |-> t, from |-> c, n |-> sent', turn |-> 0]]
          PROVE  pc'[c] \in TopicSteps \ {"pub_write"} /\ req'[c].topic \in Topic
      BY <3>1 DEF WithTopic, IInv, TypeOK
    <3>2. ASSUME NEW type \in DOMAIN WithoutTopic, Goto(c, WithoutTopic[type])
          PROVE  pc'[c] \in {"ack", "cleanup", "loop"}
      BY <3>2 DEF WithoutTopic, IInv, TypeOK
    <3> QED BY <2>2, <3>1, <3>2 DEF ReadPacket
  <2>3. CASE PublishCheck(c)
    BY <2>3 DEF PublishCheck, IInv, TypeOK, LoopInv
  <2> QED BY <2>1, <2>2, <2>3
<1>5. MutexInv' /\ TableInv' /\ LoopInv' /\ OrderInv'
    BY <1>2, <1>3, <1>4, Quiet
<1> QED BY <1>1, <1>5 DEF IInv

-----------------------------------------------------------------------------
(* Steps under subsMutex_                                                  *)

\* While the mutex is free no loop over subscribers is under way.
LEMMA NoLoop ==
    ASSUME IInv, MutexFree
    PROVE  \A p \in Client : pc[p] # "pub_write"
BY ConstantAssumption DEF IInv, MutexInv, MutexFree

LEMMA SubscribeStep ==
    ASSUME IInv, NEW c \in Client, Subscribe(c) \/ Unsubscribe(c)
    PROVE  IInv'
<1> DEFINE t == req[c].topic
<1>1. t \in Topic /\ MutexFree /\ pc' = [pc EXCEPT ![c] = "ack"] /\ pc[c] \in {"sub", "unsub"}
    BY DEF IInv, LoopInv, TopicSteps, Subscribe, Unsubscribe, Goto
<1>2. UNCHANGED <<subsMutex_, todo, delivered, turns, req>>
    BY DEF Subscribe, Unsubscribe, loop, wire
<1>3. /\ pc'[c] = "ack" /\ \A d \in Client \ {c} : pc'[d] = pc[d]
      /\ \A d \in Client : pc'[d] # "pub_write"
    BY <1>1, NoLoop DEF IInv, TypeOK
<1>4. \E n \in Nat : subs' = [subs EXCEPT ![t][c] = n]
  <2>1. CASE Subscribe(c)
    <3>1. subs' = [subs EXCEPT ![t][c] = subs[t][c] + 1] /\ subs[t][c] + 1 \in Nat
      BY <1>1, <2>1 DEF Subscribe, IInv, TypeOK
    <3> QED BY <3>1
  <2>2. CASE Unsubscribe(c)
    BY <2>2 DEF Unsubscribe
  <2> QED BY <2>1, <2>2
<1>5. TypeOK'
  <2>1. subs' \in [Topic -> [Client -> Nat]]
    BY <1>1, <1>4 DEF IInv, TypeOK
  <2>2. keys' \in SUBSET Topic /\ topics' \in [Client -> SUBSET Topic]
    <3>1. CASE Subscribe(c)
      BY <1>1, <3>1 DEF Subscribe, IInv, TypeOK
    <3>2. CASE Unsubscribe(c)
      BY <1>1, <3>2 DEF Unsubscribe, IInv, TypeOK
    <3> QED BY <3>1, <3>2
  <2>3. pc' \in [Client -> HandlerState]
    BY <1>1 DEF IInv, TypeOK, HandlerState, Serving
  <2> QED
    BY <1>2, <2>1, <2>2, <2>3 DEF Subscribe, Unsubscribe, IInv, TypeOK, life, wire
<1>6. MutexInv' /\ OrderInv'
    BY <1>2, <1>3 DEF IInv, MutexInv, OrderInv
<1>7. LoopInv'
    BY <1>1, <1>2, <1>3, NoLoop DEF IInv, LoopInv, TopicSteps
<1>8. TableInv'
  <2> SUFFICES ASSUME NEW u \in Topic, NEW d \in Client, subs'[u][d] > 0
               PROVE  u \in topics'[d] /\ pc'[d] \in Serving
    BY DEF TableInv
  <2>1. CASE u = t /\ d = c
    <3>1. CASE Subscribe(c)
      BY <1>1, <1>3, <2>1, <3>1 DEF Subscribe, IInv, TypeOK, Serving
    <3>2. CASE Unsubscribe(c)
      BY <1>1, <2>1, <3>2 DEF Unsubscribe, IInv, TypeOK
    <3> QED BY <3>1, <3>2
  <2>2. CASE ~(u = t /\ d = c)
    <3>1. subs'[u][d] = subs[u][d]
      BY <1>1, <1>4, <2>2 DEF IInv, TypeOK
    <3>2. u \in topics[d] /\ pc[d] \in Serving
      BY <3>1 DEF IInv, TableInv
    <3>3. u \in topics'[d]
      BY <1>1, <2>2, <3>2 DEF Subscribe, Unsubscribe, IInv, TypeOK
    <3> QED BY <1>3, <3>2, <3>3 DEF Serving
  <2> QED BY <2>1, <2>2
<1> QED BY <1>5, <1>6, <1>7, <1>8 DEF IInv

LEMMA CleanupStep ==
    ASSUME IInv, NEW c \in Client, Cleanup(c)
    PROVE  IInv'
<1>1. UNCHANGED <<subsMutex_, todo, delivered, turns, req>>
    BY DEF Cleanup, loop, wire
<1>2. /\ pc'[c] = "gone" /\ \A d \in Client \ {c} : pc'[d] = pc[d]
      /\ \A d \in Client : pc[d] # "pub_write" /\ pc'[d] # "pub_write"
    BY NoLoop DEF Cleanup, Goto, IInv, TypeOK
<1>3. TypeOK'
  <2>1. subs' \in [Topic -> [Client -> Nat]]
    BY DEF Cleanup, IInv, TypeOK
  <2>2. keys' \in SUBSET Topic /\ topics' \in [Client -> SUBSET Topic]
    BY DEF Cleanup, IInv, TypeOK
  <2> QED
    BY <1>1, <2>1, <2>2 DEF Cleanup, Goto, IInv, TypeOK, HandlerState, life, wire
<1>4. MutexInv' /\ OrderInv'
    BY <1>1, <1>2 DEF IInv, MutexInv, OrderInv
<1>5. LoopInv'
    BY <1>1, <1>2 DEF IInv, LoopInv, TopicSteps
<1>6. TableInv'
  <2> SUFFICES ASSUME NEW u \in Topic, NEW d \in Client, subs'[u][d] > 0
               PROVE  u \in topics'[d] /\ pc'[d] \in Serving
    BY DEF TableInv
  <2>1. subs[u][d] > 0 /\ u \in topics[d] /\ pc[d] \in Serving
    BY DEF Cleanup, IInv, TypeOK, TableInv
  <2>2. d # c
    BY <2>1 DEF Cleanup, IInv, TypeOK
  <2> QED BY <1>2, <2>1, <2>2 DEF Cleanup, IInv, TypeOK
<1> QED BY <1>3, <1>4, <1>5, <1>6 DEF IInv
LEMMA Entry ==
    ASSUME TypeOK, NEW d \in Client, NEW i \in 1 .. Len(delivered[d])
    PROVE  delivered[d][i] \in Packet /\ delivered[d][i].turn \in Nat
<1>1. delivered[d] \in Seq(Packet)
    BY DEF TypeOK
<1>2. delivered[d][i] \in Packet
    BY <1>1
<1> QED BY <1>2 DEF Packet

LEMMA PublishLockStep ==
    ASSUME IInv, NEW c \in Client, PublishLock(c)
    PROVE  IInv'
<1>1. req[c].topic \in Topic /\ \A d \in Client : pc[d] # "pub_write"
    BY NoLoop DEF PublishLock, IInv, LoopInv, TopicSteps
<1>2. /\ pc'[c] = "pub_write" /\ req'[c].turn = turns + 1
      /\ req'[c].topic = req[c].topic /\ todo'[c] = subs[req[c].topic]
      /\ \A d \in Client \ {c} : pc'[d] = pc[d] /\ req'[d] = req[d] /\ todo'[d] = todo[d]
      /\ UNCHANGED <<subs, topics, delivered>> /\ turns' = turns + 1
    BY DEF PublishLock, Goto, IInv, TypeOK, Packet, table
<1>3. TypeOK'
  <2>1. req' \in [Client -> Packet] /\ turns' \in Nat
    <3>1. turns' \in Nat /\ req[c] \in Packet
      BY DEF PublishLock, IInv, TypeOK
    <3>2. [req[c] EXCEPT !.turn = turns'] \in Packet
      BY <3>1 DEF Packet
    <3> QED BY <3>1, <3>2 DEF PublishLock, IInv, TypeOK
  <2>2. todo' \in [Client -> [Client -> Nat]]
    BY <1>1 DEF PublishLock, IInv, TypeOK
  <2> QED
    BY <2>1, <2>2 DEF PublishLock, Goto, IInv, TypeOK, HandlerState, Serving, life, table
<1>4. MutexInv'
    BY <1>1, <1>2 DEF PublishLock, MutexInv
<1>5. TableInv'
    BY <1>2 DEF IInv, TableInv, Serving
<1>6. LoopInv'
    BY <1>1, <1>2, SMTT(30) DEF IInv, TypeOK, LoopInv, TopicSteps
<1>7. OrderInv'
  <2>1. \A d \in Client : \A i \in 1 .. Len(delivered[d]) :
            delivered[d][i].turn <= turns /\ delivered[d][i].turn \in Nat
    BY Entry DEF IInv, OrderInv
  <2>2. turns \in Nat
    BY DEF IInv, TypeOK
  <2>3. \A d \in Client : \A i \in 1 .. Len(delivered[d]) :
            delivered[d][i].turn <= turns + 1 /\ delivered[d][i].turn # turns + 1
    BY <2>1, <2>2
  <2>4. \A p \in Client : pc'[p] = "pub_write" => p = c
    BY <1>1, <1>2
  <2> QED BY <1>2, <2>3, <2>4 DEF IInv, OrderInv
<1> QED BY <1>3, <1>4, <1>5, <1>6, <1>7 DEF IInv

\* The publisher that holds the mutex appends its message to what s got.
LEMMA PublishWriteStep ==
    ASSUME IInv, NEW c \in Client, NEW s \in Client, PublishWrite(c, s)
    PROVE  IInv'
<1>1. /\ pc[c] = "pub_write" /\ todo[c][s] > 0
      /\ todo' = [todo EXCEPT ![c][s] = @ - 1]
      /\ delivered' = [delivered EXCEPT ![s] = Append(@, req[c])]
      /\ UNCHANGED <<pc, req, topics, keys, subs, subsMutex_, turns>>
    BY DEF PublishWrite, table
<1>2. TypeOK'
  <2>1. delivered' \in [Client -> Seq(Packet)]
    BY <1>1 DEF IInv, TypeOK
  <2>2. todo' \in [Client -> [Client -> Nat]]
    BY <1>1, SMTT(30) DEF IInv, TypeOK
  <2>3. room' \in [Client -> 0 .. OutCap]
    BY WriteType DEF PublishWrite, IInv
  <2> QED BY <1>1, <2>1, <2>2, <2>3 DEF PublishWrite, IInv, TypeOK, life
<1>3. MutexInv' /\ TableInv'
    BY <1>1 DEF IInv, MutexInv, TableInv
<1>4. LoopInv'
  <2> DEFINE left == todo[c]
  <2>1. left \in [Client -> Nat] /\ todo'[c] = [left EXCEPT ![s] = @ - 1] /\ left[s] > 0
    BY <1>1 DEF IInv, TypeOK
  <2>2. /\ \A p \in Client \ {c} : todo'[p] = todo[p]
        /\ \A d \in Client : todo'[c][d] <= todo[c][d] /\ todo'[c][d] \in Nat
    <3>1. \A p \in Client \ {c} : todo'[p] = todo[p]
      BY <1>1 DEF IInv, TypeOK
    <3>2. \A d \in Client : todo'[c][d] <= left[d] /\ todo'[c][d] \in Nat
      BY <2>1
    <3> QED BY <3>1, <3>2
  <2>3. req[c].topic \in Topic
    BY <1>1 DEF IInv, LoopInv, TopicSteps
  <2>4. \A d \in Client : todo'[c][d] <= subs[req[c].topic][d]
    <3>1. subs[req[c].topic] \in [Client -> Nat]
      BY <2>3 DEF IInv, TypeOK
    <3>2. \A d \in Client : left[d] <= subs[req[c].topic][d]
      BY <1>1 DEF IInv, LoopInv
    <3> QED BY <2>1, <2>2, <3>1, <3>2
  <2> QED BY <1>1, <2>2, <2>4 DEF IInv, LoopInv
<1>5. OrderInv'
  <2>1. /\ Len(delivered'[s]) = Len(delivered[s]) + 1
        /\ delivered'[s][Len(delivered[s]) + 1] = req[c]
        /\ \A i \in 1 .. Len(delivered[s]) : delivered'[s][i] = delivered[s][i]
        /\ \A d \in Client \ {s} : delivered'[d] = delivered[d]
        /\ Len(delivered[s]) \in Nat
    BY <1>1, SMTT(30) DEF IInv, TypeOK
  <2>2. \A d \in Client : \A i \in 1 .. Len(delivered'[d]) :
            \/ i \in 1 .. Len(delivered[d]) /\ delivered'[d][i] = delivered[d][i]
            \/ d = s /\ i = Len(delivered[s]) + 1 /\ delivered'[d][i] = req[c]
    <3>1. \A i \in 1 .. Len(delivered[s]) + 1 :
              i \in 1 .. Len(delivered[s]) \/ i = Len(delivered[s]) + 1
      BY <2>1
    <3> QED BY <2>1, <3>1
  <2>3. /\ req[c].turn = turns
        /\ \A d \in Client : \A i \in 1 .. Len(delivered[d]) :
              delivered[d][i].turn = turns => delivered[d][i] = req[c]
    BY <1>1 DEF IInv, OrderInv
  <2>4. \A p \in Client : pc[p] = "pub_write" => p = c
    BY <1>1 DEF IInv, MutexInv
  <2>5. \A d \in Client : \A i, j \in 1 .. Len(delivered'[d]) :
            i < j => delivered'[d][i].turn <= delivered'[d][j].turn
    <3> SUFFICES ASSUME NEW d \in Client, NEW i \in 1 .. Len(delivered'[d]),
                        NEW j \in 1 .. Len(delivered'[d]), i < j
                 PROVE  delivered'[d][i].turn <= delivered'[d][j].turn
      OBVIOUS
    <3>1. i \in 1 .. Len(delivered[d]) /\ delivered'[d][i] = delivered[d][i]
      BY <2>1, <2>2
    <3>2. delivered[d][i].turn <= turns
      BY <3>1 DEF IInv, OrderInv
    <3>3. CASE delivered'[d][j] = req[c]
      BY <2>3, <3>1, <3>2, <3>3
    <3>4. CASE j \in 1 .. Len(delivered[d]) /\ delivered'[d][j] = delivered[d][j]
      BY <3>1, <3>4 DEF IInv, OrderInv
    <3> QED BY <2>2, <3>3, <3>4
  <2>6. \A d \in Client : \A i \in 1 .. Len(delivered'[d]) : delivered'[d][i].turn <= turns
    <3>1. turns <= turns
      BY DEF IInv, TypeOK
    <3> QED BY <2>2, <2>3, <3>1 DEF IInv, OrderInv
  <2>7. \A d, e \in Client :
        \A i \in 1 .. Len(delivered'[d]), j \in 1 .. Len(delivered'[e]) :
            delivered'[d][i].turn = delivered'[e][j].turn =>
                delivered'[d][i] = delivered'[e][j]
    <3> SUFFICES ASSUME NEW d \in Client, NEW e \in Client,
                        NEW i \in 1 .. Len(delivered'[d]), NEW j \in 1 .. Len(delivered'[e]),
                        delivered'[d][i].turn = delivered'[e][j].turn
                 PROVE  delivered'[d][i] = delivered'[e][j]
      OBVIOUS
    <3>1. CASE delivered'[d][i] = req[c] \/ delivered'[e][j] = req[c]
      BY <2>2, <2>3, <3>1
    <3>2. CASE /\ i \in 1 .. Len(delivered[d]) /\ delivered'[d][i] = delivered[d][i]
               /\ j \in 1 .. Len(delivered[e]) /\ delivered'[e][j] = delivered[e][j]
      BY <3>2 DEF IInv, OrderInv
    <3> QED BY <2>2, <3>1, <3>2
  <2>8. \A d \in Client : \A i \in 1 .. Len(delivered'[d]) :
            delivered'[d][i].turn = turns => delivered'[d][i] = req[c]
    BY <2>2, <2>3
  <2> QED BY <1>1, <2>3, <2>4, <2>5, <2>6, <2>7, <2>8, SMTT(30) DEF OrderInv
<1> QED BY <1>2, <1>3, <1>4, <1>5 DEF IInv

LEMMA PublishEndStep ==
    ASSUME IInv, NEW c \in Client,
           PublishDone(c) \/ \E s \in Client : PublishFails(c, s)
    PROVE  IInv'
<1>1. /\ pc[c] = "pub_write" /\ Unlock(c)
      /\ UNCHANGED <<topics, delivered, turns, sent, net>> /\ UNCHANGED life
    BY DEF PublishDone, PublishFails, table, wire
<1>2. req[c].topic \in Topic /\ \A p \in Client \ {c} : pc[p] # "pub_write"
    BY <1>1 DEF IInv, MutexInv, LoopInv, TopicSteps
<1>3. /\ pc'[c] = "loop" /\ todo'[c] = Nobody
      /\ \A d \in Client \ {c} : pc'[d] = pc[d] /\ req'[d] = req[d] /\ todo'[d] = todo[d]
    BY <1>1 DEF Unlock, Iterate, Goto, IInv, TypeOK
<1>4. subs' = subs \/ subs' = [subs EXCEPT ![req[c].topic] = Nobody]
    BY DEF PublishDone, PublishFails, table
<1>5. TypeOK'
  <2>1. room' = room
    BY DEF PublishDone, PublishFails, WriteFails, wire
  <2>2. subs' \in [Topic -> [Client -> Nat]]
    BY <1>4, Basics DEF IInv, TypeOK
  <2>3. keys' \in SUBSET Topic
    BY DEF PublishDone, PublishFails, table, IInv, TypeOK
  <2>4. /\ req' \in [Client -> Packet] /\ todo' \in [Client -> [Client -> Nat]]
        /\ pc' \in [Client -> HandlerState] /\ subsMutex_' \in Client \cup {NoClient}
    BY <1>1, Basics DEF Unlock, Iterate, Goto, IInv, TypeOK, HandlerState, Serving
  <2> QED BY <1>1, <2>1, <2>2, <2>3, <2>4 DEF IInv, TypeOK, life
<1>6. MutexInv'
    BY <1>2, <1>3 DEF MutexInv
<1>7. TableInv'
  <2>1. \A t \in Topic, d \in Client : subs'[t][d] > 0 => subs[t][d] > 0
    <3>1. \A t \in Topic : subs'[t] = subs[t] \/ subs'[t] = Nobody
      BY <1>4 DEF IInv, TypeOK
    <3> QED BY <3>1, Basics
  <2> QED BY <1>1, <1>3, <2>1 DEF IInv, TableInv, Serving
<1>8. LoopInv'
    BY <1>2, <1>3 DEF IInv, LoopInv, TopicSteps
<1>9. OrderInv'
    BY <1>1, <1>2, <1>3 DEF IInv, OrderInv
<1> QED BY <1>5, <1>6, <1>7, <1>8, <1>9 DEF IInv

LEMMA NextIInv == IInv /\ [Next]_vars => IInv'
<1> SUFFICES ASSUME IInv, [Next]_vars PROVE IInv'
    OBVIOUS
<1>1. CASE UNCHANGED vars
  <2>1. TypeOK'
    BY <1>1 DEF vars, IInv, TypeOK
  <2>2. UNCHANGED <<topics, subs, subsMutex_, todo, delivered, turns, pc, req>>
    BY <1>1 DEF vars
  <2> QED BY <2>1, <2>2, Quiet DEF IInv
<1>2. CASE Listen \/ StopBegin \/ StopClose \/ StopJoin
    BY <1>2, LifeStep, HandlerStep DEF Listen
<1>3. ASSUME NEW c \in Client,
             \/ Connect(c) \/ Hangup(c) \/ ClientRead(c) \/ ConnectAccepted(c)
             \/ ConnectRefused(c) \/ ReadPacket(c)
      PROVE  IInv'
    BY <1>3, EnvironmentStep, HandlerStep
<1>4. ASSUME NEW c \in Client, Handle(c) PROVE IInv'
    BY <1>4, HandlerStep, SubscribeStep, PublishLockStep, PublishWriteStep,
       PublishEndStep, CleanupStep DEF Handle
<1> QED BY <1>1, <1>2, <1>3, <1>4 DEF Next

LEMMA Invariance == Spec => []IInv
BY InitIInv, NextIInv, PTL DEF Spec
-----------------------------------------------------------------------------
\* Every state of the broker is well typed: no count goes below zero.
THEOREM TypeCorrect == Spec => []TypeOK
<1>1. IInv => TypeOK
    BY DEF IInv
<1> QED BY <1>1, Invariance, PTL

\* No handler frees a Client that subscribers_ or a publisher's loop still
\* points to, for any number of clients and topics.
THEOREM NoUseAfterFree == Spec => []NoDangling
<1>1. IInv => NoDangling
  <2> SUFFICES ASSUME IInv PROVE NoDangling
    OBVIOUS
  <2>1. \A t \in Topic, c \in Client : subs[t][c] > 0 => pc[c] \in Serving
    BY DEF IInv, TableInv
  <2>2. ASSUME NEW p \in Client, NEW s \in Client, todo[p][s] > 0
        PROVE  pc[s] \in Serving
    <3>1. pc[p] = "pub_write" /\ req[p].topic \in Topic
      BY <2>2, Basics DEF IInv, LoopInv, TopicSteps
    <3>2. subs[req[p].topic][s] > 0
      <4>1. todo[p][s] <= subs[req[p].topic][s]
        BY <3>1 DEF IInv, LoopInv
      <4>2. todo[p][s] \in Nat /\ subs[req[p].topic][s] \in Nat
        BY <3>1 DEF IInv, TypeOK
      <4> QED BY <2>2, <4>1, <4>2
    <3> QED BY <2>1, <3>1, <3>2
  <2> QED BY <2>1, <2>2 DEF NoDangling
<1> QED BY <1>1, Invariance, PTL

\* All clients see the messages they share in one order, for any number of
\* publishers, subscribers and topics.
THEOREM TotalOrder == Spec => []SameOrder
<1>1. IInv => SameOrder
  <2> SUFFICES ASSUME IInv, NEW c \in Client, NEW d \in Client,
                      NEW m \in Got(c), NEW n \in Got(c),
                      m # n, Before(c, m, n), Before(d, n, m)
               PROVE  FALSE
    BY DEF SameOrder
  <2>1. \A e \in Client : DOMAIN delivered[e] = 1 .. Len(delivered[e])
    BY DEF IInv, TypeOK
  <2>2. PICK i, j \in 1 .. Len(delivered[c]) :
            i < j /\ delivered[c][i] = m /\ delivered[c][j] = n
    BY <2>1 DEF Before
  <2>3. PICK k, l \in 1 .. Len(delivered[d]) :
            k < l /\ delivered[d][k] = n /\ delivered[d][l] = m
    BY <2>1 DEF Before
  <2>4. m.turn <= n.turn
    BY <2>2 DEF IInv, OrderInv
  <2>5. n.turn <= m.turn
    BY <2>3 DEF IInv, OrderInv
  <2>6. m.turn \in Nat /\ n.turn \in Nat
    BY <2>2, Entry DEF IInv
  <2>7. m.turn # n.turn
    BY <2>2 DEF IInv, OrderInv
  <2> QED BY <2>4, <2>5, <2>6, <2>7
<1> QED BY <1>1, Invariance, PTL

\* A PUBLISH reaches a client only while it is subscribed to the topic, for
\* any interleaving of publishers, UNSUBSCRIBE and the end of handlers.
THEOREM SubscribersOnly == Spec => OnlyToSubscribers
<1> DEFINE A == \A c \in Client :
                  delivered'[c] # delivered[c] =>
                      delivered'[c][Len(delivered'[c])].topic \in topics[c]
<1>1. IInv /\ [Next]_vars => [A]_vars
  <2> SUFFICES ASSUME IInv, Next PROVE A
    OBVIOUS
  <2>1. ASSUME NEW p \in Client, NEW s \in Client, PublishWrite(p, s) PROVE A
    <3>1. /\ pc[p] = "pub_write" /\ todo[p][s] > 0
          /\ delivered' = [delivered EXCEPT ![s] = Append(@, req[p])]
      BY <2>1 DEF PublishWrite
    <3>2. req[p].topic \in topics[s]
      <4>1. req[p].topic \in Topic /\ todo[p][s] <= subs[req[p].topic][s]
        BY <3>1 DEF IInv, LoopInv, TopicSteps
      <4>2. todo[p][s] \in Nat /\ subs[req[p].topic][s] \in Nat
        BY <4>1 DEF IInv, TypeOK
      <4> QED BY <3>1, <4>1, <4>2 DEF IInv, TableInv
    <3>3. delivered'[s][Len(delivered'[s])] = req[p]
      BY <3>1 DEF IInv, TypeOK
    <3> QED BY <3>1, <3>2, <3>3 DEF IInv, TypeOK
  <2>2. CASE UNCHANGED delivered
    BY <2>2
  <2>3. ASSUME NEW c \in Client, Handle(c) PROVE A
    <3>1. CASE \E s \in Client : PublishWrite(c, s)
      BY <2>1, <3>1
    <3>2. CASE ~\E s \in Client : PublishWrite(c, s)
      BY <2>2, <2>3, <3>2 DEF Handle, LoopTest, ReadFails, Ack, Subscribe, Unsubscribe,
         PublishCheck, PublishLock, PublishDone, PublishFails, Cleanup, wire
    <3> QED BY <3>1, <3>2
  <2>4. CASE Listen \/ StopBegin \/ StopClose \/ StopJoin
    BY <2>2, <2>4 DEF Listen, AcceptTest, AcceptThrows, Accept, StopBegin, StopClose,
                      StopJoin, wire
  <2>5. ASSUME NEW c \in Client,
               \/ Connect(c) \/ Hangup(c) \/ ClientRead(c) \/ ConnectAccepted(c)
               \/ ConnectRefused(c) \/ ReadPacket(c)
        PROVE  A
    BY <2>2, <2>5 DEF Connect, Hangup, ClientRead, ConnectAccepted, ConnectRefused,
                      ReadPacket, wire
  <2> QED BY <2>3, <2>4, <2>5 DEF Next
<1> QED BY <1>1, Invariance, PTL DEF Spec, OnlyToSubscribers

\* Nobody is unsubscribed by what others do, except by a publisher that leaves
\* its loop because the write to a subscriber of the topic has failed:
\* handlePublish erases the whole entry then.
THEOREM SubscriptionsLast == Spec => SubscriptionLostOnlyToFailedWrite
<1> DEFINE Excused(t, c) ==
               \/ pc[c] = "unsub" /\ req[c].topic = t /\ pc'[c] # "unsub"
               \/ pc[c] = "cleanup" /\ pc'[c] # "cleanup"
               \/ \E p, d \in Client :
                     /\ pc[p] = "pub_write" /\ req[p].topic = t /\ pc'[p] # "pub_write"
                     /\ todo[p][d] > 0 /\ net[d] = "closed"
           A == \A t \in Topic, c \in Client :
                  subs[t][c] > 0 /\ subs'[t][c] = 0 => Excused(t, c)
<1>1. IInv /\ [Next]_vars => [A]_vars
  <2> SUFFICES ASSUME IInv, Next PROVE A
    OBVIOUS
  <2>1. /\ subs \in [Topic -> [Client -> Nat]] /\ pc \in [Client -> HandlerState]
        /\ todo \in [Client -> [Client -> Nat]]
    BY DEF IInv, TypeOK
  <2>2. CASE UNCHANGED subs
    BY <2>1, <2>2
  <2>3. ASSUME NEW c \in Client, Subscribe(c) PROVE A
    <3>1. PICK x : subs' = [subs EXCEPT ![x][c] = @ + 1]
      BY <2>3 DEF Subscribe
    <3>2. \A t \in Topic, d \in Client : subs[t][d] > 0 => subs'[t][d] # 0
      BY <2>1, <3>1
    <3> QED BY <3>2
  <2>4. ASSUME NEW c \in Client, Unsubscribe(c) PROVE A
    <3>1. PICK x : x = req[c].topic /\ subs' = [subs EXCEPT ![x][c] = 0]
      BY <2>4 DEF Unsubscribe
    <3>2. \A t \in Topic, d \in Client : ~(d = c /\ t = x) => subs'[t][d] = subs[t][d]
      BY <2>1, <3>1
    <3>3. pc[c] = "unsub" /\ pc'[c] = "ack"
      BY <2>1, <2>4 DEF Unsubscribe, Goto
    <3>4. \A t \in Topic, d \in Client :
             subs[t][d] > 0 /\ subs'[t][d] = 0 => d = c /\ t = x
      BY <2>1, <3>2
    <3> QED BY <3>1, <3>3, <3>4
  <2>5. ASSUME NEW c \in Client, Cleanup(c) PROVE A
    <3>1. subs' = [t \in Topic |-> IF t \in topics[c]
                                   THEN [subs[t] EXCEPT ![c] = 0] ELSE subs[t]]
      BY <2>5 DEF Cleanup
    <3>2. \A t \in Topic, d \in Client : d # c => subs'[t][d] = subs[t][d]
      BY <2>1, <3>1
    <3>3. pc[c] = "cleanup" /\ pc'[c] = "gone"
      BY <2>1, <2>5 DEF Cleanup, Goto
    <3>4. \A t \in Topic, d \in Client :
             subs[t][d] > 0 /\ subs'[t][d] = 0 => d = c
      BY <2>1, <3>2
    <3> QED BY <3>3, <3>4
  <2>6. ASSUME NEW p \in Client, NEW s \in Client, PublishFails(p, s) PROVE A
    <3>1. PICK x : x = req[p].topic
      OBVIOUS
    <3>2. /\ pc[p] = "pub_write" /\ todo[p][s] > 0 /\ net[s] = "closed"
          /\ subs' = [subs EXCEPT ![x] = Nobody]
      BY <2>6, <3>1 DEF PublishFails, WriteFails
    <3>3. pc'[p] = "loop"
      BY <2>1, <2>6 DEF PublishFails, Unlock, Iterate, Goto
    <3>4. \A t \in Topic : t # x => subs'[t] = subs[t]
      BY <2>1, <3>2
    <3>5. \A t \in Topic, c \in Client :
             subs[t][c] > 0 /\ subs'[t][c] = 0 => t = x
      BY <2>1, <3>4
    <3> QED BY <3>1, <3>2, <3>3, <3>5
  <2>7. ASSUME NEW c \in Client, Handle(c) PROVE A
    <3>1. CASE \E s \in Client : PublishFails(c, s)
      BY <2>6, <3>1
    <3>2. CASE Subscribe(c) \/ Unsubscribe(c) \/ Cleanup(c)
      BY <2>3, <2>4, <2>5, <3>2
    <3>3. CASE ~(\E s \in Client : PublishFails(c, s))
               /\ ~(Subscribe(c) \/ Unsubscribe(c) \/ Cleanup(c))
      BY <2>2, <2>7, <3>3 DEF Handle, LoopTest, ReadFails, Ack, PublishCheck, PublishLock,
         PublishWrite, PublishDone, table
    <3> QED BY <3>1, <3>2, <3>3
  <2>8. CASE Listen \/ StopBegin \/ StopClose \/ StopJoin
    BY <2>2, <2>8 DEF Listen, AcceptTest, AcceptThrows, Accept, StopBegin, StopClose,
                      StopJoin, table
  <2>9. ASSUME NEW c \in Client,
               \/ Connect(c) \/ Hangup(c) \/ ClientRead(c) \/ ConnectAccepted(c)
               \/ ConnectRefused(c) \/ ReadPacket(c)
        PROVE  A
    BY <2>2, <2>9 DEF Connect, Hangup, ClientRead, ConnectAccepted, ConnectRefused,
                      ReadPacket, table
  <2> QED BY <2>7, <2>8, <2>9 DEF Next
<1> QED BY <1>1, Invariance, PTL DEF Spec, SubscriptionLostOnlyToFailedWrite
=============================================================================
