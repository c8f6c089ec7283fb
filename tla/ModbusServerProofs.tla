------------------------- MODULE ModbusServerProofs -------------------------
(***************************************************************************)
(* Proofs about ModbusServer, for any number of clients and requests.      *)
(*                                                                         *)
(* ThreadsEndFirst is not inductive: what the destructor joins is the      *)
(* vector clients_, so IInv says that every thread that may still run is   *)
(* in it (Joinable), and that a server which is gone has an empty vector   *)
(* and an accepting thread that will not fill it again (Settled).          *)
(***************************************************************************)
EXTENDS ModbusServer, TLAPS

TypeOK ==
    /\ client \in [Client -> {"new", "connected", "gone"}]
    /\ pending \in SUBSET Client
    /\ listening \in BOOLEAN /\ stop_ \in BOOLEAN
    /\ acceptor \in {"none", "test", "accept", "emplace", "ended"}
    /\ accepted \in Client \cup {NoClient}
    /\ acceptor = "emplace" => accepted \in Client
    /\ thread \in [Client -> {"none", "test", "read", "ended"}]
    /\ clients_ \in SUBSET Client
    /\ main \in {"made", "run", "stop", "joinClients", "joinThread", "gone"}
    /\ fault \in {"no", "race", "terminate"}
    /\ requests \in 0 .. MaxRequests

Ended(c) == thread[c] \in {"none", "ended"}

Joinable == fault = "no" => \A c \in Client : Ended(c) \/ c \in clients_

Settled ==
    (main = "gone" /\ fault = "no") => acceptor \in {"none", "ended"} /\ clients_ = {}

IInv == TypeOK /\ Joinable /\ Settled

LEMMA InitIInv == Init => IInv
<1> SUFFICES ASSUME Init PROVE IInv
    OBVIOUS
<1>1. listening \in BOOLEAN /\ stop_ \in BOOLEAN
    BY Zenon DEF Init
<1>2. requests \in 0 .. MaxRequests
    BY ConstantAssumption DEF Init
<1> QED BY <1>1, <1>2 DEF Init, IInv, TypeOK, Joinable, Settled, Ended

\* Clients change nothing that the threads of the server depend on.
LEMMA ClientStep ==
    ASSUME IInv, NEW c \in Client, Connect(c) \/ Request(c) \/ Hangup(c)
    PROVE  IInv'
<1>1. /\ UNCHANGED <<listening, stop_, acceptor, accepted, thread, clients_, main, fault>>
      /\ requests' \in 0 .. MaxRequests
      /\ pending' \in SUBSET Client
      /\ client' \in [Client -> {"new", "connected", "gone"}]
    BY ConstantAssumption DEF Connect, Request, Hangup, server, IInv, TypeOK
<1>2. TypeOK'
    BY <1>1, Zenon DEF IInv, TypeOK
<1> QED BY <1>1, <1>2 DEF IInv, Joinable, Settled, Ended

\* start(), stop() and the beginning of the destructor leave the threads as
\* they are, but for the one that start() makes.
LEMMA CallStep ==
    ASSUME IInv, Start \/ StopFlag \/ StopClose \/ Destroy
    PROVE  IInv'
<1>1. /\ UNCHANGED <<client, pending, accepted, thread, clients_, fault, requests>>
      /\ main' \in {"run", "stop", "joinClients"}
      /\ acceptor' \in {acceptor, "test"}
    BY DEF Start, StopFlag, StopClose, Destroy
<1>2. listening' \in BOOLEAN /\ stop_' \in BOOLEAN
    BY Zenon DEF Start, StopFlag, StopClose, Destroy, IInv, TypeOK
<1>3. TypeOK'
    BY <1>1, <1>2 DEF IInv, TypeOK
<1> QED BY <1>1, <1>3 DEF IInv, Joinable, Settled, Ended

\* The joins: JoinClients empties the vector when the threads in it have
\* ended, and JoinThread calls std::terminate unless it is still empty.
LEMMA JoinStep ==
    ASSUME IInv, fault = "no", JoinClients \/ JoinThread
    PROVE  IInv'
<1>1. CASE JoinClients
  <2>1. TypeOK'
    BY <1>1, Zenon DEF JoinClients, IInv, TypeOK
  <2>2. Joinable'
    BY <1>1 DEF JoinClients, IInv, Joinable, Ended
  <2>3. Settled'
    BY <1>1 DEF JoinClients, Settled
  <2> QED BY <2>1, <2>2, <2>3 DEF IInv
<1>2. CASE JoinThread
  <2>1. TypeOK'
    BY <1>2, Zenon DEF JoinThread, IInv, TypeOK
  <2>2. Joinable' /\ Settled'
    BY <1>2 DEF JoinThread, IInv, Joinable, Settled, Ended
  <2> QED BY <2>1, <2>2 DEF IInv
<1> QED BY <1>1, <1>2

\* The accepting thread adds a thread to the vector in the same step in which
\* it starts it, and is not there any more when the server is gone.
LEMMA AcceptorStep ==
    ASSUME IInv, fault = "no", Acceptor \/ AcceptThrows \/ EmplaceThrows
    PROVE  IInv'
<1>1. CASE \/ AcceptTest \/ AcceptThrows \/ EmplaceThrows
           \/ \E c \in Client : Accept(c)
  <2>1. /\ UNCHANGED <<client, pending, listening, stop_, thread, clients_, main, fault,
                       requests>>
        /\ acceptor \in {"test", "accept", "emplace"}
        /\ acceptor' \in {"accept", "emplace", "ended"}
        /\ accepted' \in Client \cup {NoClient}
        /\ acceptor' = "emplace" => accepted' \in Client
    BY <1>1 DEF AcceptTest, AcceptThrows, EmplaceThrows, Accept, server, IInv, TypeOK
  <2>2. TypeOK'
    BY <2>1, Zenon DEF IInv, TypeOK
  <2> QED BY <2>1, <2>2 DEF IInv, Joinable, Settled, Ended
<1>2. CASE Emplace
  <2>1. accepted \in Client /\ main # "gone" /\ UNCHANGED <<client, pending, server, requests>>
    BY <1>2 DEF Emplace, IInv, TypeOK, Settled
  <2>2. TypeOK'
    BY <1>2, <2>1 DEF Emplace, server, IInv, TypeOK
  <2>3. Joinable' /\ Settled'
    BY <1>2, <2>1 DEF Emplace, server, IInv, TypeOK, Joinable, Settled, Ended
  <2> QED BY <2>2, <2>3 DEF IInv
<1> QED BY <1>1, <1>2 DEF Acceptor

\* A thread of a connection starts no other, and ends for good.
LEMMA ThreadStep ==
    ASSUME IInv, NEW c \in Client, Thread(c)
    PROVE  IInv'
<1>1. /\ UNCHANGED <<client, server, acceptor, accepted, clients_, fault, requests>>
      /\ pending' \in SUBSET Client
      /\ \E s \in {"test", "read", "ended"} : thread' = [thread EXCEPT ![c] = s]
      /\ ~Ended(c)
    BY DEF Thread, LoopTest, Serve, ReadFails, IInv, TypeOK, Ended
<1>2. TypeOK'
    BY <1>1 DEF server, IInv, TypeOK
<1> QED BY <1>1, <1>2 DEF server, IInv, TypeOK, Joinable, Settled, Ended

LEMMA NextIInv == IInv /\ [Next]_vars => IInv'
<1> SUFFICES ASSUME IInv, [Next]_vars PROVE IInv'
    OBVIOUS
<1>1. CASE UNCHANGED vars
    BY <1>1 DEF vars, IInv, TypeOK, Joinable, Settled, Ended
<1>2. CASE Next
    BY <1>2, ClientStep, CallStep, JoinStep, AcceptorStep, ThreadStep DEF Next, Main
<1> QED BY <1>1, <1>2

LEMMA Invariance == Spec => []IInv
BY InitIInv, NextIInv, PTL DEF Spec

-----------------------------------------------------------------------------
\* Whatever the clients, the application and the threads do, also after a race
\* on clients_ or a std::terminate, every variable keeps its type; emplace_back
\* is only reached with a connection that accept() returned.
THEOREM TypeCorrect == Spec => []TypeOK
<1>1. IInv => TypeOK
    BY DEF IInv
<1> QED BY <1>1, Invariance, PTL

\* ~Impl of the server returns only when the accepting thread and the thread
\* of every connection have ended, for any number of connections, whether
\* stop() was called or not; what it has not joined ends in std::terminate.
THEOREM ThreadsJoined == Spec => []ThreadsEndFirst
<1>1. IInv => ThreadsEndFirst
    BY DEF IInv, Joinable, Settled, Ended, ThreadsEndFirst
<1> QED BY <1>1, Invariance, PTL
=============================================================================
