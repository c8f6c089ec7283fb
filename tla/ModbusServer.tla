---------------------------- MODULE ModbusServer ----------------------------
(***************************************************************************)
(* The threads of ModbusServer::Impl (modbus/ModbusServer.cpp): start(),   *)
(* the thread that accepts connections and makes a thread for each of      *)
(* them, stop() and the destructor, which joins them.  What the threads do *)
(* with a request is in Modbus; here they take it and go on.               *)
(*                                                                         *)
(* The destructor reads the vector clients_ without a lock.  A thread that *)
(* is added while it does so, or after it has, ends the behaviour (fault): *)
(* the first is a data race, and the second leaves a joinable std::thread  *)
(* to the destructor of the vector, which calls std::terminate.            *)
(***************************************************************************)
EXTENDS Naturals

CONSTANTS
    Client,
    NoClient,
    MaxRequests,   \* bound: requests of all clients
    Faults         \* bound: which of "accept" (accept() fails on a listening
                   \* socket) and "thread" (std::thread throws) happen

ASSUME ConstantAssumption ==
    /\ NoClient \notin Client /\ MaxRequests \in Nat
    /\ Faults \subseteq {"accept", "thread"}

VARIABLES
    client,        \* "new", "connected" or "gone"
    pending,       \* the clients with a request that is not taken yet
    listening,     \* is the listening socket open?
    acceptor,      \* what the accepting thread does next
    accepted,      \* the connection that accept() has returned
    thread,        \* what the thread of a connection does next
    clients_, stop_,
    main,          \* what the application's thread does next
    fault,         \* "no", "race" or "terminate"
    requests

server == <<listening, stop_, main>>
vars   == <<client, pending, listening, acceptor, accepted, thread, clients_, stop_,
            main, fault, requests>>

Init ==
    /\ client = [c \in Client |-> "new"]
    /\ pending = {}
    /\ listening = TRUE
    /\ acceptor = "none" /\ accepted = NoClient
    /\ thread = [c \in Client |-> "none"]
    /\ clients_ = {} /\ stop_ = FALSE
    /\ main = "made"
    /\ fault = "no"
    /\ requests = 0

-----------------------------------------------------------------------------
(* The clients                                                             *)

Connect(c) ==
    /\ client[c] = "new" /\ listening
    /\ client' = [client EXCEPT ![c] = "connected"]
    /\ UNCHANGED <<pending, server, acceptor, accepted, thread, clients_, fault, requests>>

Request(c) ==
    /\ client[c] = "connected" /\ c \notin pending
    /\ requests < MaxRequests
    /\ requests' = requests + 1
    /\ pending' = pending \cup {c}
    /\ UNCHANGED <<client, server, acceptor, accepted, thread, clients_, fault>>

Hangup(c) ==
    /\ client[c] = "connected"
    /\ client' = [client EXCEPT ![c] = "gone"]
    /\ UNCHANGED <<pending, server, acceptor, accepted, thread, clients_, fault, requests>>

-----------------------------------------------------------------------------
(* The application's thread                                                *)

Start ==
    /\ main = "made"
    /\ acceptor' = "test"
    /\ main' = "run"
    /\ UNCHANGED <<client, pending, listening, accepted, thread, clients_, stop_, fault,
                   requests>>

StopFlag ==
    /\ main \in {"made", "run"} /\ ~stop_
    /\ stop_' = TRUE
    /\ main' = "stop"
    /\ UNCHANGED <<client, pending, listening, acceptor, accepted, thread, clients_,
                   fault, requests>>

\* Mutant: stop() leaves the socket open.
StopCloseNot ==
    /\ main = "stop"
    /\ main' = "run"
    /\ UNCHANGED <<client, pending, listening, acceptor, accepted, thread, clients_,
                   stop_, fault, requests>>

\* server_.close()
StopClose ==
    /\ main = "stop"
    /\ listening' = FALSE
    /\ main' = "run"
    /\ UNCHANGED <<client, pending, acceptor, accepted, thread, clients_, stop_, fault,
                   requests>>

\* ~Impl, after stop() or without
Destroy ==
    /\ main \in {"made", "run"}
    /\ main' = "joinClients"
    /\ UNCHANGED <<client, pending, listening, acceptor, accepted, thread, clients_,
                   stop_, fault, requests>>

\* Mutant: the accepting thread is the only one that is joined.
JoinClientsNot ==
    /\ main = "joinClients"
    /\ main' = "joinThread"
    /\ clients_' = {}
    /\ UNCHANGED <<client, pending, listening, acceptor, accepted, thread, stop_, fault,
                   requests>>

\* A thread that was joined is no longer joinable.
JoinClients ==
    /\ main = "joinClients"
    /\ \A c \in clients_ : thread[c] = "ended"
    /\ main' = "joinThread"
    /\ clients_' = {}
    /\ UNCHANGED <<client, pending, listening, acceptor, accepted, thread, stop_, fault,
                   requests>>

JoinThread ==
    /\ main = "joinThread"
    /\ acceptor \in {"none", "ended"}
    /\ main' = "gone"
    /\ fault' = IF clients_ = {} THEN "no" ELSE "terminate"
    /\ UNCHANGED <<client, pending, listening, acceptor, accepted, thread, clients_,
                   stop_, requests>>

-----------------------------------------------------------------------------
(* The accepting thread                                                    *)

AcceptTest ==
    /\ acceptor = "test"
    /\ acceptor' = IF stop_ THEN "ended" ELSE "accept"
    /\ UNCHANGED <<client, pending, server, accepted, thread, clients_, fault, requests>>

\* A connection that was hung up meanwhile is accepted as well.
Accept(c) ==
    /\ acceptor = "accept" /\ listening
    /\ client[c] # "new" /\ thread[c] = "none"
    /\ accepted' = c
    /\ acceptor' = "emplace"
    /\ UNCHANGED <<client, pending, server, thread, clients_, fault, requests>>

\* On a socket that is closed, and for want of descriptors or memory on one
\* that listens.
AcceptThrows ==
    /\ acceptor = "accept"
    /\ ~listening \/ "accept" \in Faults
    /\ acceptor' = "ended"
    /\ UNCHANGED <<client, pending, server, accepted, thread, clients_, fault, requests>>

\* clients_.emplace_back
Emplace ==
    /\ acceptor = "emplace"
    /\ thread' = [thread EXCEPT ![accepted] = "test"]
    /\ clients_' = clients_ \cup {accepted}
    /\ fault' = IF main = "joinClients" THEN "race" ELSE "no"
    /\ acceptor' = "test" /\ accepted' = NoClient
    /\ UNCHANGED <<client, pending, server, requests>>

\* The thread cannot be made: the connection is closed with the exception,
\* and the accepting thread ends.
EmplaceThrows ==
    /\ acceptor = "emplace"
    /\ "thread" \in Faults
    /\ acceptor' = "ended" /\ accepted' = NoClient
    /\ UNCHANGED <<client, pending, server, thread, clients_, fault, requests>>

-----------------------------------------------------------------------------
(* clientThread                                                            *)

LoopTest(c) ==
    /\ thread[c] = "test"
    /\ thread' = [thread EXCEPT ![c] = IF stop_ THEN "ended" ELSE "read"]
    /\ UNCHANGED <<client, pending, server, acceptor, accepted, clients_, fault, requests>>

Serve(c) ==
    /\ thread[c] = "read"
    /\ c \in pending
    /\ pending' = pending \ {c}
    /\ thread' = [thread EXCEPT ![c] = "test"]
    /\ UNCHANGED <<client, server, acceptor, accepted, clients_, fault, requests>>

ReadFails(c) ==
    /\ thread[c] = "read"
    /\ c \notin pending /\ client[c] = "gone"
    /\ thread' = [thread EXCEPT ![c] = "ended"]
    /\ UNCHANGED <<client, pending, server, acceptor, accepted, clients_, fault, requests>>

-----------------------------------------------------------------------------
Thread(c) == LoopTest(c) \/ Serve(c) \/ ReadFails(c)

Acceptor == AcceptTest \/ Emplace \/ \E c \in Client : Accept(c)

Main == StopClose \/ JoinClients \/ JoinThread

Next ==
    /\ fault = "no"
    /\ \/ Acceptor \/ AcceptThrows \/ EmplaceThrows
       \/ Main \/ Start \/ StopFlag \/ Destroy
       \/ \E c \in Client : Thread(c) \/ Connect(c) \/ Request(c) \/ Hangup(c)

Spec == Init /\ [][Next]_vars

\* Threads that can go on do, and accept() on a closed socket returns.  Clients
\* need not send or hang up, and nobody need call stop() or destroy the server.
FairSpec ==
    /\ Spec
    /\ WF_vars(fault = "no" /\ (Acceptor \/ (~listening /\ AcceptThrows)))
    /\ WF_vars(fault = "no" /\ Main)
    /\ \A c \in Client : WF_vars(fault = "no" /\ Thread(c))

-----------------------------------------------------------------------------
(* Properties                                                              *)

\* The server, which its threads use, is gone only after they have ended; a
\* thread it has not joined is caught by std::terminate at the latest.
ThreadsEndFirst ==
    (main = "gone" /\ fault = "no") =>
        /\ acceptor \in {"none", "ended"}
        /\ \A c \in Client : thread[c] \in {"none", "ended"}

\* The destructor called after stop() returns once the accepted clients have gone; a
\* client that stays connected and silent keeps it waiting, and so does the
\* accepting thread when stop() was not called.
DestructorReturns ==
    (main = "joinClients" /\ stop_ /\ \A c \in clients_ : client[c] = "gone")
        ~> (main = "gone" \/ fault # "no")
=============================================================================
