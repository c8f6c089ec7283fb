----------------------- MODULE WebSocketServerProofs -----------------------
(***************************************************************************)
(* Proofs about WebSocketServer, for any number of connections and any of  *)
(* the faults.                                                             *)
(*                                                                         *)
(* FreedAfterOnClose is not inductive.  LifeInv follows every connection   *)
(* through its life and says in each phase what its listener does and      *)
(* whether onClose has run; RunInv says in which phase the connection is   *)
(* that run() deals with.  LockInv says of every thread that has the mutex *)
(* of a connection where it is, and that others than the connection's own  *)
(* have it only between onOpen and onClose.  AskInv, for                   *)
(* NothingIsLostLater, orders the first message of a client behind its     *)
(* handshake.                                                              *)
(***************************************************************************)
EXTENDS WebSocketServer, TLAPS

\* The phases in the life of a connection.
Fresh(c) ==
    /\ c \notin connections /\ c \notin freed
    /\ listener[c] = "none" /\ ~closed_[c] /\ opens[c] = 0 /\ closes[c] = 0

\* onOpen has run, and the listener was not started yet.
Starting(c) ==
    /\ c \notin connections /\ c \notin freed
    /\ listener[c] = "none" /\ ~closed_[c] /\ opens[c] = 1 /\ closes[c] = 0
    /\ pc \in {"greet", "start"} /\ current = c

\* onOpen has thrown.
Throwing(c) ==
    /\ c \notin connections /\ c \notin freed
    /\ listener[c] = "none" /\ closed_[c] /\ opens[c] = 1 /\ closes[c] = 0
    /\ pc \in {"throw", "thrown"} /\ current = c

Busy == {"listening", "answer", "relay", "close", "error", "ended"}

\* Nobody has closed it; the listener may have ended unnoticed.
Unclosed(c) == ~closed_[c] /\ listener[c] \in Busy /\ closes[c] = 0

\* Its listener has closed it and runs onClose, or has run it.
SelfClosed(c) ==
    /\ closed_[c]
    /\ \/ listener[c] = "notify" /\ closes[c] = 0
       \/ listener[c] \in {"send", "ended"} /\ closes[c] = 1

\* The destructor has closed it and has not run onClose yet.
Draining(c) ==
    /\ closed_[c] /\ listener[c] \in Busy /\ closes[c] = 0
    /\ pc \in {"drain_write", "drain_close"} /\ current = c

Live(c) ==
    /\ c \in connections /\ c \notin freed /\ opens[c] = 1
    /\ Unclosed(c) \/ SelfClosed(c) \/ Draining(c)

Gone(c) ==
    /\ c \notin connections /\ c \in freed
    /\ listener[c] \in {"none", "ended"} /\ closes[c] = opens[c]

Phase(c) == Fresh(c) \/ Starting(c) \/ Throwing(c) \/ Live(c) \/ Gone(c)

LifeInv == \A c \in Conn : Phase(c)

RunInv ==
    /\ pc \in {"handshake", "open"} => current \in Conn /\ Fresh(current)
    /\ pc \in {"greet", "start"} => current \in Conn /\ Starting(current)
    /\ pc \in {"throw", "thrown"} => current \in Conn /\ Throwing(current)
    /\ pc = "drain_join" => current \in connections /\ SelfClosed(current)
    /\ pc \in {"drain_write", "drain_close"} =>
          current \in connections /\ Draining(current)
    /\ pc # "reap" => todo = {}
    /\ pc = "ended" => connections = {}
    /\ destructor = "done" => pc = "ended"

Holds(c, d) ==
    IF d = c THEN listener[c] \in {"answer", "close", "error", "notify", "send"}
             ELSE listener[d] = "relay" /\ Usable(c)

LockInv ==
    /\ \A c \in Conn : /\ tx[c] = "run" => pc \in RunWrites /\ current = c
                       /\ tx[c] = "app" => Usable(c)
                       /\ tx[c] \in Conn => Holds(c, tx[c])
    /\ \A c, d \in Conn : tx[c] = tx[d] /\ tx[c] \in Conn => c = d

AskInv == \A c \in Conn : client[c] \in {"none", "waiting"} => asked[c] = "no"

IInv == TypeOK /\ LifeInv /\ RunInv /\ LockInv /\ AskInv

-----------------------------------------------------------------------------
LEMMA InitIInv == Init => IInv
<1> SUFFICES ASSUME Init PROVE IInv
    OBVIOUS
<1>1. stop_ \in BOOLEAN /\ closed_ \in [Conn -> BOOLEAN]
    BY Zenon DEF Init
<1>2. /\ opens \in [Conn -> 0 .. 1] /\ closes \in [Conn -> Nat] /\ lost \in [Conn -> Nat]
      /\ sends \in 0 .. MaxSends
    BY ConstantAssumption DEF Init
<1>3. down \in [Conn -> Seq({"response", "greeting", "message"})]
    BY DEF Init
<1>4. TypeOK
    BY <1>1, <1>2, <1>3 DEF Init, TypeOK
<1>5. LifeInv /\ RunInv
    BY DEF Init, LifeInv, Phase, Fresh, RunInv
<1>6. LockInv /\ AskInv
    BY ConstantAssumption DEF Init, LockInv, AskInv
<1> QED BY <1>4, <1>5, <1>6 DEF IInv

-----------------------------------------------------------------------------
(* The life of a connection                                                *)

\* Clients do not change it, and neither do those who wait for a mutex.
LEMMA ClientLife ==
    ASSUME LifeInv, RunInv, UNCHANGED <<server, state>>
    PROVE  LifeInv' /\ RunInv'
BY DEF server, state, LifeInv, Phase, RunInv, Fresh, Starting, Throwing, Live, Unclosed,
       SelfClosed, Draining, Gone

\* What the listener of a connection does before and after it closes it.
Serve(c) ==
    \/ \E next \in {"answer", "relay"} : OnMessage(c, next)
    \/ ListenerFrame(c) \/ Answer(c) \/ RelayNone(c) \/ ListenerEnds(c)
    \/ \E d \in Conn : Relay(c, d)

ListenerStep(c) ==
    \/ Serve(c) \/ ListenerClose(c) \/ ListenerSend(c)
    \/ \E more \in BOOLEAN : ListenerOnClose(c, more)

\* It takes it from Unclosed to SelfClosed, or stays in the phase it finds.
LEMMA ListenerLife ==
    ASSUME TypeOK, LifeInv, RunInv, NEW c \in Conn, ListenerStep(c)
    PROVE  LifeInv' /\ RunInv'
<1>1. /\ UNCHANGED <<server, opens, freed>>
      /\ listener[c] \notin {"none", "ended"}
      /\ \A d \in Conn : d # c => /\ listener'[d] = listener[d] /\ closed_'[d] = closed_[d]
                                  /\ closes'[d] = closes[d]
  <2>1. CASE Serve(c)
    BY <2>1 DEF Serve, OnMessage, ListenerFrame, Answer, RelayNone, ListenerEnds, Relay,
                ListenerTo, TypeOK
  <2>2. CASE ListenerClose(c) \/ ListenerSend(c)
    BY <2>2 DEF ListenerClose, ListenerSend, ListenerTo, TypeOK
  <2>3. CASE \E more \in BOOLEAN : ListenerOnClose(c, more)
    BY <2>3 DEF ListenerOnClose, ListenerTo, TypeOK
  <2> QED BY <2>1, <2>2, <2>3 DEF ListenerStep
<1>2. Live(c)
    BY <1>1 DEF LifeInv, Phase, Fresh, Starting, Throwing, Gone
<1>3. Live(c)' /\ (SelfClosed(c) => SelfClosed(c)') /\ (Draining(c) => Draining(c)')
  <2>1. CASE Serve(c)
    <3>1. /\ listener[c] \in Busy /\ listener'[c] \in Busy
          /\ UNCHANGED <<server, closed_, opens, closes, freed>>
          /\ listener[c] \notin {"notify", "send", "ended"}
      BY <2>1 DEF Serve, OnMessage, ListenerFrame, Answer, RelayNone, ListenerEnds, Relay,
                  ListenerTo, TypeOK, Busy
    <3> QED BY <1>2, <3>1 DEF server, Live, Unclosed, SelfClosed, Draining
  <2>2. CASE ListenerClose(c)
    BY <1>1, <1>2, <2>2 DEF ListenerClose, ListenerTo, server, TypeOK, Live, Unclosed,
                            SelfClosed, Draining, Busy
  <2>3. CASE ListenerSend(c)
    BY <1>1, <1>2, <2>3 DEF ListenerSend, ListenerTo, server, TypeOK, Live, Unclosed,
                            SelfClosed, Draining, Busy
  <2>4. ASSUME NEW more \in BOOLEAN, ListenerOnClose(c, more)
        PROVE  Live(c)' /\ (SelfClosed(c) => SelfClosed(c)') /\ (Draining(c) => Draining(c)')
    BY <1>1, <1>2, <2>4 DEF ListenerOnClose, ListenerTo, server, TypeOK, Live, Unclosed,
                            SelfClosed, Draining, Busy
  <2> QED BY <2>1, <2>2, <2>3, <2>4 DEF ListenerStep
<1>4. \A d \in Conn : d # c => /\ Fresh(d)' = Fresh(d) /\ Starting(d)' = Starting(d)
                               /\ Throwing(d)' = Throwing(d)
                               /\ Live(d)' = Live(d) /\ Gone(d)' = Gone(d)
                               /\ SelfClosed(d)' = SelfClosed(d)
                               /\ Draining(d)' = Draining(d)
    BY <1>1 DEF server, Fresh, Starting, Throwing, Live, Unclosed, SelfClosed, Draining, Gone
<1>5. LifeInv'
    BY <1>3, <1>4 DEF LifeInv, Phase
<1>6. RunInv'
  <2>1. c \in connections
    BY <1>2 DEF Live
  <2> QED BY <1>1, <1>3, <1>4, <2>1 DEF RunInv, server, TypeOK, Fresh, Starting, Throwing
<1> QED BY <1>5, <1>6

\* Steps of run() and of the application that leave the connections alone.
LEMMA ControlLife ==
    ASSUME TypeOK, LifeInv, RunInv,
           \/ AcceptTest \/ AcceptThrows \/ HandshakeOk \/ ReapDone \/ RunEnds
           \/ Stop \/ Join
           \/ \E c \in Conn : Accept(c) \/ ReapKeep(c)
    PROVE  LifeInv' /\ RunInv'
<1> USE DEF LifeInv, Phase, RunInv, Fresh, Starting, Throwing, Live, Unclosed, SelfClosed,
            Draining, Gone, state
<1>1. CASE AcceptTest
    BY <1>1 DEF AcceptTest, Goto, TypeOK
<1>2. CASE AcceptThrows
    BY <1>2 DEF AcceptThrows, Caught, Goto, TypeOK
<1>3. CASE HandshakeOk
    BY <1>3 DEF HandshakeOk, Goto, TypeOK
<1>4. CASE ReapDone
    BY <1>4 DEF ReapDone, Goto, TypeOK
<1>5. CASE RunEnds
    BY <1>5 DEF RunEnds, Goto, TypeOK
<1>6. CASE Stop
    BY <1>6 DEF Stop, TypeOK
<1>7. CASE Join
    BY <1>7 DEF Join, TypeOK
<1>8. ASSUME NEW c \in Conn, Accept(c) PROVE LifeInv' /\ RunInv'
  <2>1. pc = "accept" /\ listener[c] = "none" /\ c \notin freed
    BY <1>8 DEF Accept
  <2>2. Fresh(c)
    BY <2>1 DEF Busy
  <2> QED BY <1>8, <2>2 DEF Accept, Goto, TypeOK
<1>9. ASSUME NEW c \in Conn, ReapKeep(c) PROVE LifeInv' /\ RunInv'
    BY <1>9 DEF ReapKeep, TypeOK
<1> QED BY <1>1, <1>2, <1>3, <1>4, <1>5, <1>6, <1>7, <1>8, <1>9

\* A handshake that fails and an onOpen that has thrown destroy the
\* connection, the latter after onClose.
LEMMA FailureLife ==
    ASSUME TypeOK, LifeInv, RunInv, HandshakeFails \/ OnOpenThrown
    PROVE  LifeInv' /\ RunInv'
<1>0. PICK c : c = current
    OBVIOUS
<1>1. /\ pc \in {"handshake", "thrown"} /\ c \in Conn /\ (Fresh(c) \/ Throwing(c))
      /\ pc' = "reap" /\ todo' = connections
      /\ UNCHANGED <<stop_, socket, connections, destructor, listener, closed_, opens>>
      /\ freed' = freed \cup {c}
    BY <1>0 DEF HandshakeFails, OnOpenThrown, Caught, Goto, RunInv
<1>2. Gone(c)'
  <2>1. CASE HandshakeFails
    BY <1>0, <1>1, <2>1 DEF HandshakeFails, Fresh, Throwing, Gone
  <2>2. CASE OnOpenThrown
    <3>1. closes'[c] = closes[c] + 1 /\ Throwing(c)
      BY <1>0, <2>2 DEF OnOpenThrown, TypeOK, RunInv
    <3> QED BY <1>1, <3>1 DEF Throwing, Gone
  <2> QED BY <2>1, <2>2
<1>3. \A d \in Conn : d # c => closes'[d] = closes[d]
    BY <1>0, <1>1 DEF HandshakeFails, OnOpenThrown, TypeOK
<1>4. \A d \in Conn : d # c => Fresh(d)' \/ Live(d)' \/ Gone(d)'
    BY <1>0, <1>1, <1>3 DEF LifeInv, Phase, Fresh, Starting, Throwing, Live, Unclosed,
                            SelfClosed, Draining, Gone
<1>5. LifeInv'
    BY <1>1, <1>2, <1>4 DEF LifeInv, Phase
<1>6. RunInv'
    BY <1>1 DEF RunInv
<1> QED BY <1>5, <1>6

\* onOpen, and the start of the listener.
LEMMA OpenLife ==
    ASSUME TypeOK, LifeInv, RunInv,
           OnOpen(TRUE) \/ OnOpen(FALSE) \/ OnOpenThrows \/ Start
    PROVE  LifeInv' /\ RunInv'
<1>0. PICK c : c = current
    OBVIOUS
<1>1. CASE OnOpen(TRUE) \/ OnOpen(FALSE)
  <2>1. /\ pc = "open" /\ pc' \in {"greet", "start"} /\ c \in Conn /\ Fresh(c)
        /\ opens' = [opens EXCEPT ![c] = 1] /\ current' = c
        /\ UNCHANGED <<todo, connections, destructor, listener, closed_, closes, freed>>
    BY <1>0, <1>1 DEF OnOpen, Goto, RunInv
  <2>2. Starting(c)'
    BY <2>1 DEF Fresh, Starting, TypeOK
  <2>3. \A d \in Conn : d # c => Fresh(d)' \/ Live(d)' \/ Gone(d)'
    BY <1>0, <2>1 DEF LifeInv, Phase, Fresh, Starting, Throwing, Live, Unclosed, SelfClosed,
                Draining, Gone, TypeOK
  <2> QED BY <2>1, <2>2, <2>3 DEF LifeInv, Phase, RunInv
<1>2. CASE OnOpenThrows
  <2>1. /\ pc \in {"open", "start"} /\ pc' = "throw" /\ c \in Conn
        /\ Fresh(c) \/ Starting(c)
        /\ opens' = [opens EXCEPT ![c] = 1] /\ current' = c
        /\ closed_' = [closed_ EXCEPT ![c] = TRUE]
        /\ UNCHANGED <<todo, connections, destructor, listener, closes, freed>>
    BY <1>0, <1>2 DEF OnOpenThrows, Goto, RunInv
  <2>2. Throwing(c)'
    BY <2>1 DEF Fresh, Starting, Throwing, TypeOK
  <2>3. \A d \in Conn : d # c => Fresh(d)' \/ Live(d)' \/ Gone(d)'
    BY <1>0, <2>1 DEF LifeInv, Phase, Fresh, Starting, Throwing, Live, Unclosed, SelfClosed,
                Draining, Gone, TypeOK
  <2> QED BY <2>1, <2>2, <2>3 DEF LifeInv, Phase, RunInv
<1>3. CASE Start
  <2>1. /\ pc = "start" /\ pc' = "reap" /\ c \in Conn /\ Starting(c)
        /\ listener' = [listener EXCEPT ![c] = "listening"]
        /\ connections' = connections \cup {c}
        /\ UNCHANGED <<destructor, closed_, opens, closes, freed>>
    BY <1>0, <1>3 DEF Start, Goto, RunInv, ListenerTo
  <2>2. Live(c)'
    BY <2>1 DEF Starting, Live, Unclosed, TypeOK, Busy
  <2>3. \A d \in Conn : d # c => Fresh(d)' \/ Live(d)' \/ Gone(d)'
    BY <1>0, <2>1 DEF LifeInv, Phase, Fresh, Starting, Throwing, Live, Unclosed, SelfClosed,
                Draining, Gone, TypeOK
  <2>4. LifeInv'
    BY <2>1, <2>2, <2>3 DEF LifeInv, Phase
  <2>5. RunInv'
    BY <2>1 DEF RunInv
  <2> QED BY <2>4, <2>5
<1> QED BY <1>1, <1>2, <1>3

\* A write of run() ends: its connection stays in its phase.
LEMMA WriteLife ==
    ASSUME TypeOK, LifeInv, RunInv, RunWrite
    PROVE  LifeInv' /\ RunInv'
<1>1. /\ pc \in RunWrites
      /\ pc = "greet" => pc' = "start"
      /\ pc = "throw" => pc' = "thrown"
      /\ pc = "drain_write" => pc' = "drain_close"
      /\ UNCHANGED <<current, todo, connections, destructor, state>>
    BY DEF RunWrite, RunWrites, Goto
<1>2. \A c \in Conn : /\ Fresh(c) => Fresh(c)'
                      /\ Starting(c) => Starting(c)'
                      /\ Throwing(c) => Throwing(c)'
                      /\ Live(c) => Live(c)'
                      /\ Gone(c) => Gone(c)'
                      /\ Draining(c) => Draining(c)'
    BY <1>1 DEF state, RunWrites, Fresh, Starting, Throwing, Live, Unclosed, SelfClosed,
                Draining, Gone
<1>3. LifeInv'
    BY <1>2 DEF LifeInv, Phase
<1>4. RunInv'
    BY <1>1, <1>2 DEF RunInv, RunWrites, TypeOK
<1> QED BY <1>3, <1>4

\* The destruction of a connection that is kept, by the cleanup and at the
\* end of run().
LEMMA DestroyLife ==
    ASSUME TypeOK, LifeInv, RunInv,
           DrainJoin \/ \E c \in Conn : ReapErase(c) \/ Drain(c)
    PROVE  LifeInv' /\ RunInv'
<1>1. ASSUME NEW c \in Conn, ReapErase(c) PROVE LifeInv' /\ RunInv'
  <2>1. /\ pc = "reap" /\ c \in connections /\ closed_[c] /\ listener[c] = "ended"
        /\ UNCHANGED <<pc, current, destructor, listener, closed_, opens, closes>>
        /\ connections' = connections \ {c} /\ freed' = freed \cup {c}
    BY <1>1 DEF ReapErase, TypeOK
  <2>2. Live(c) /\ closes[c] = 1
    BY <2>1 DEF LifeInv, Phase, Fresh, Starting, Throwing, Live, Unclosed, SelfClosed,
                Draining, Gone
  <2>3. Gone(c)'
    BY <2>1, <2>2 DEF Live, Gone
  <2>4. \A d \in Conn : d # c => Phase(d)'
    BY <2>1 DEF LifeInv, Phase, Fresh, Starting, Throwing, Live, Unclosed, SelfClosed,
                Draining, Gone
  <2> QED BY <2>1, <2>3, <2>4 DEF LifeInv, Phase, RunInv
<1>2. ASSUME NEW c \in Conn, Drain(c) PROVE LifeInv' /\ RunInv'
  <2>1. /\ pc = "drain" /\ c \in connections /\ current' = c
        /\ closed_' = [closed_ EXCEPT ![c] = TRUE]
        /\ pc' = IF closed_[c] THEN "drain_join" ELSE "drain_write"
        /\ UNCHANGED <<todo, connections, destructor, listener, opens, closes, freed>>
    BY <1>2 DEF Drain, Goto
  <2>2. Live(c) /\ (Unclosed(c) \/ SelfClosed(c))
    BY <2>1 DEF LifeInv, Phase, Fresh, Starting, Throwing, Live, Draining, Gone
  <2>3. Live(c)' /\ (IF closed_[c] THEN SelfClosed(c)' ELSE Draining(c)')
    BY <2>1, <2>2 DEF Live, Unclosed, SelfClosed, Draining, TypeOK
  <2>4. \A d \in Conn : d # c => Fresh(d)' \/ Live(d)' \/ Gone(d)'
    BY <2>1 DEF LifeInv, Phase, Fresh, Starting, Throwing, Live, Unclosed, SelfClosed,
                Draining, Gone, TypeOK
  <2>5. LifeInv'
    BY <2>3, <2>4 DEF LifeInv, Phase
  <2>6. RunInv'
    BY <2>1, <2>3 DEF RunInv
  <2> QED BY <2>5, <2>6
<1>3. CASE DrainJoin
  <2>0. PICK c : c = current
    OBVIOUS
  <2>1. /\ pc \in {"drain_join", "drain_close"} /\ pc' = "drain" /\ listener[c] = "ended"
        /\ closes' = IF pc = "drain_join" THEN closes ELSE [closes EXCEPT ![c] = @ + 1]
        /\ connections' = connections \ {c} /\ freed' = freed \cup {c}
        /\ UNCHANGED <<todo, destructor, listener, closed_, opens>>
    BY <1>3, <2>0 DEF DrainJoin, Goto
  <2>2. /\ c \in connections /\ c \in Conn
        /\ IF pc = "drain_join" THEN SelfClosed(c) ELSE Draining(c)
    BY <2>0, <2>1 DEF RunInv, TypeOK
  <2>3. opens[c] = 1
    BY <2>2 DEF LifeInv, Phase, Fresh, Starting, Throwing, Live, Gone
  <2>4. Gone(c)'
    BY <2>1, <2>2, <2>3 DEF Gone, SelfClosed, Draining, TypeOK
  <2>5. \A d \in Conn : d # c => Fresh(d)' \/ Live(d)' \/ Gone(d)'
    BY <2>0, <2>1, <2>2 DEF LifeInv, Phase, Fresh, Starting, Throwing, Live, Unclosed,
                            SelfClosed, Draining, Gone, TypeOK
  <2>6. LifeInv'
    BY <2>2, <2>4, <2>5 DEF LifeInv, Phase
  <2>7. RunInv'
    BY <2>1 DEF RunInv
  <2> QED BY <2>6, <2>7
<1> QED BY <1>1, <1>2, <1>3

\* Closing the listening socket frees connections nobody has accepted.
LEMMA StopLife ==
    ASSUME TypeOK, LifeInv, RunInv, StopClose
    PROVE  LifeInv' /\ RunInv'
<1> DEFINE backlog == {c \in Conn : request[c] # "none" /\ listener[c] = "none"
                                    /\ opens[c] = 0 /\ c # current}
<1>1. /\ UNCHANGED <<pc, current, todo, connections, listener, closed_, opens, closes>>
      /\ freed' = freed \cup backlog
      /\ destructor' # "done"
    BY DEF StopClose
<1>2. \A c \in backlog : Fresh(c) \/ Gone(c)
    BY DEF LifeInv, Phase, Fresh, Starting, Throwing, Live, Gone
<1>3. \A c \in Conn : /\ c \in backlog => Gone(c)'
                      /\ c \notin backlog => /\ Fresh(c)' = Fresh(c) /\ Live(c)' = Live(c)
                                             /\ Starting(c)' = Starting(c)
                                             /\ Throwing(c)' = Throwing(c)
                                             /\ Gone(c)' = Gone(c)
    BY <1>1, <1>2 DEF Fresh, Starting, Throwing, Live, Unclosed, SelfClosed, Draining, Gone
<1>4. LifeInv'
    BY <1>3 DEF LifeInv, Phase
<1>5. current \notin backlog
    OBVIOUS
<1>6. RunInv'
    BY <1>1, <1>3, <1>5 DEF RunInv, SelfClosed, Draining
<1> QED BY <1>4, <1>6

-----------------------------------------------------------------------------
(* The mutexes                                                             *)

\* A step that leaves them alone: who has one stays where it is, and as long
\* as that is needed the connection is in use.
LEMMA LockStays ==
    ASSUME LockInv, UNCHANGED tx,
           pc \in RunWrites => UNCHANGED <<pc, current>>,
           \A c \in Conn : tx[c] = "app" => Usable(c)',
           \A c \in Conn : tx[c] \in Conn => Holds(c, tx[c])'
    PROVE  LockInv'
BY DEF LockInv

\* Steps that neither move a thread that has a mutex nor close a connection.
LEMMA LockSame ==
    ASSUME TypeOK, LockInv, UNCHANGED <<tx, listener, closes>>,
           pc \in RunWrites => UNCHANGED <<pc, current>>,
           \A c \in Conn : opens[c] = 1 => opens'[c] = 1
    PROVE  LockInv'
<1>1. \A c \in Conn : Usable(c) => Usable(c)'
    BY DEF Usable
<1>2. \A c \in Conn : tx[c] \in Conn => Holds(c, tx[c])'
    BY <1>1 DEF LockInv, Holds
<1> QED BY <1>1, <1>2, LockStays DEF LockInv

\* run() and the application's stop() and destructor
LEMMA RunLocks ==
    ASSUME TypeOK, LifeInv, RunInv, LockInv,
           \/ Run \/ RunWrite \/ AcceptThrows \/ OnOpenThrows
           \/ Stop \/ StopClose \/ Join
    PROVE  LockInv'
<1>0. PICK e : e = current
    OBVIOUS
<1>1. CASE \/ AcceptTest \/ HandshakeOk \/ HandshakeFails \/ ReapDone \/ RunEnds
           \/ AcceptThrows \/ Stop \/ StopClose \/ Join
           \/ \E c \in Conn : Accept(c) \/ ReapKeep(c) \/ ReapErase(c) \/ Drain(c)
  <2>1. UNCHANGED <<tx, listener, closes, opens>> /\ (pc \in RunWrites => UNCHANGED <<pc, current>>)
    BY <1>1 DEF AcceptTest, HandshakeOk, HandshakeFails, ReapDone, RunEnds, AcceptThrows,
         Stop, StopClose, Join, Accept, ReapKeep, ReapErase, Drain, RunWrites, state
  <2> QED BY <2>1, LockSame
<1>2. CASE OnOpen(TRUE) \/ OnOpen(FALSE) \/ OnOpenThrows
  <2>1. /\ UNCHANGED <<tx, listener, closes>> /\ pc \notin RunWrites
        /\ \A c \in Conn : opens[c] = 1 => opens'[c] = 1
    BY <1>2 DEF OnOpen, OnOpenThrows, RunWrites, TypeOK
  <2> QED BY <2>1, LockSame
<1>3. CASE RunLock
  <2>1. /\ e \in Conn /\ tx[e] = "free" /\ tx' = [tx EXCEPT ![e] = "run"] /\ pc \in RunWrites
        /\ UNCHANGED <<pc, current, listener, opens, closes>>
    BY <1>0, <1>3 DEF RunLock, RunWrites, RunInv, TypeOK, server, state
  <2> QED BY <1>0, <2>1, ConstantAssumption DEF LockInv, Holds, Usable, TypeOK
<1>4. CASE RunWrite
  <2>1. /\ e \in Conn /\ tx[e] = "run" /\ tx' = [tx EXCEPT ![e] = "free"]
        /\ UNCHANGED <<listener, opens, closes>>
    BY <1>0, <1>4 DEF RunWrite, RunWrites, RunInv, TypeOK, state
  <2>2. \A c \in Conn : tx'[c] # "run"
    BY <1>0, <2>1 DEF LockInv, TypeOK
  <2> QED BY <2>1, <2>2, ConstantAssumption DEF LockInv, Holds, Usable, TypeOK
<1>5. CASE OnOpenThrown \/ (DrainJoin /\ pc = "drain_close")
  <2>1. /\ e \in Conn /\ tx[e] = "free" /\ closes' = [closes EXCEPT ![e] = @ + 1]
        /\ UNCHANGED <<tx, listener, opens>> /\ pc \notin RunWrites
    BY <1>0, <1>5 DEF OnOpenThrown, DrainJoin, RunWrites, RunInv, TypeOK
  <2>2. \A c \in Conn : c # e => (Usable(c) => Usable(c)')
    BY <2>1 DEF Usable, TypeOK
  <2>3. \A c \in Conn : tx[c] = "app" => Usable(c)'
    BY <2>1, <2>2 DEF LockInv
  <2>4. \A c \in Conn : tx[c] \in Conn => Holds(c, tx[c])'
    BY <2>1, <2>2, ConstantAssumption DEF LockInv, Holds
  <2> QED BY <2>1, <2>3, <2>4, LockStays
<1>6. CASE DrainJoin /\ pc # "drain_close"
  <2>1. UNCHANGED <<tx, listener, opens, closes>> /\ pc \notin RunWrites
    BY <1>6 DEF DrainJoin, RunWrites
  <2> QED BY <2>1, LockSame
<1>7. CASE Start
  <2>1. /\ e \in Conn /\ listener[e] = "none" /\ listener' = [listener EXCEPT ![e] = "listening"]
        /\ UNCHANGED <<tx, opens, closes>> /\ pc \notin RunWrites
    BY <1>0, <1>7 DEF Start, ListenerTo, RunWrites, RunInv, Starting
  <2>2. \A c \in Conn : tx[c] # e
    BY <2>1 DEF LockInv, Holds
  <2>3. \A c \in Conn : tx[c] \in Conn => Holds(c, tx[c])'
    BY <2>1, <2>2 DEF LockInv, Holds, Usable, TypeOK
  <2>4. \A c \in Conn : tx[c] = "app" => Usable(c)'
    BY <2>1 DEF LockInv, Usable
  <2> QED BY <2>1, <2>3, <2>4, LockStays
<1> QED BY <1>1, <1>2, <1>3, <1>4, <1>5, <1>6, <1>7 DEF Run

\* Threads that begin to send, and the application's that ends.
LEMMA SendLocks ==
    ASSUME TypeOK, LockInv, NEW c \in Conn,
           \/ PushBegin(c) \/ PushEnd(c) \/ ListenerLock(c)
           \/ \E d \in Conn : RelayLock(c, d)
    PROVE  LockInv'
<1> USE ConstantAssumption
<1>1. CASE PushBegin(c)
  <2>1. /\ tx' = [tx EXCEPT ![c] = "app"] /\ Usable(c)
        /\ UNCHANGED <<pc, current, listener, opens, closes>>
    BY <1>1 DEF PushBegin, server, state
  <2> QED BY <2>1 DEF LockInv, Holds, Usable, TypeOK
<1>2. CASE PushEnd(c)
  <2>1. /\ tx' = [tx EXCEPT ![c] = "free"]
        /\ UNCHANGED <<pc, current, listener, opens, closes>>
    BY <1>2 DEF PushEnd, server, state
  <2> QED BY <2>1 DEF LockInv, Holds, Usable, TypeOK
<1>3. CASE ListenerLock(c)
  <2>1. /\ tx' = [tx EXCEPT ![c] = c] /\ listener[c] \in {"answer", "close", "error"}
        /\ UNCHANGED <<pc, current, listener, opens, closes>>
    BY <1>3 DEF ListenerLock, server, state
  <2>2. \A d \in Conn : d # c => tx[d] # c
    BY <2>1 DEF LockInv, Holds
  <2> QED BY <2>1, <2>2 DEF LockInv, Holds, Usable, TypeOK
<1>4. ASSUME NEW d \in Conn, RelayLock(c, d) PROVE LockInv'
  <2>1. /\ tx' = [tx EXCEPT ![d] = c] /\ listener[c] = "relay" /\ d # c /\ Usable(d)
        /\ UNCHANGED <<pc, current, listener, opens, closes>>
        /\ \A e \in Conn : tx[e] # c
    BY <1>4 DEF RelayLock, server, state
  <2> QED BY <2>1 DEF LockInv, Holds, Usable, TypeOK
<1> QED BY <1>1, <1>2, <1>3, <1>4

LEMMA ListenerLocks ==
    ASSUME TypeOK, LockInv, NEW c \in Conn, ListenerStep(c)
    PROVE  LockInv'
<1> USE ConstantAssumption
<1>1. CASE \/ \E next \in {"answer", "relay"} : OnMessage(c, next)
           \/ ListenerFrame(c) \/ RelayNone(c) \/ ListenerSend(c) \/ ListenerEnds(c)
  <2>1. UNCHANGED <<pc, current, tx, opens, closes>>
    BY <1>1 DEF OnMessage, ListenerFrame, RelayNone, ListenerSend, ListenerEnds, server
  <2>2. \A d \in Conn : d # c => listener'[d] = listener[d]
    BY <1>1 DEF OnMessage, ListenerFrame, RelayNone, ListenerSend, ListenerEnds,
                ListenerTo, TypeOK
  <2>3. \A d \in Conn : tx[d] # c
    BY <1>1 DEF OnMessage, ListenerFrame, RelayNone, ListenerSend, ListenerEnds, LockInv,
                Holds
  <2>4. \A d \in Conn : Usable(d)' = Usable(d)
    BY <2>1 DEF Usable
  <2>5. \A d \in Conn : tx[d] \in Conn => Holds(d, tx[d])'
    BY <2>1, <2>2, <2>3, <2>4 DEF LockInv, Holds
  <2> QED BY <2>1, <2>4, <2>5, LockStays DEF LockInv
<1>2. CASE Answer(c) \/ \E d \in Conn : Relay(c, d)
  <2>1. PICK d \in Conn : /\ tx[d] = c /\ tx' = [tx EXCEPT ![d] = "free"]
                          /\ listener' = [listener EXCEPT ![c] = "listening"]
                          /\ UNCHANGED <<pc, current, opens, closes>>
    BY <1>2 DEF Answer, Relay, ListenerTo, server
  <2>2. \A e \in Conn : e # d => tx[e] # c
    BY <2>1 DEF LockInv
  <2>3. \A e \in Conn : Usable(e)' = Usable(e)
    BY <2>1 DEF Usable
  <2> QED BY <2>1, <2>2, <2>3 DEF LockInv, Holds, TypeOK
<1>3. CASE ListenerClose(c)
  <2>1. /\ tx[c] = c /\ UNCHANGED <<pc, current, opens, closes>>
        /\ listener' = [listener EXCEPT ![c] = IF closed_[c] THEN "ended" ELSE "notify"]
        /\ (tx' = tx /\ ~closed_[c]) \/ tx' = [tx EXCEPT ![c] = "free"]
    BY <1>3 DEF ListenerClose, ListenerTo, server
  <2>2. \A e \in Conn : e # c => tx[e] # c
    BY <2>1 DEF LockInv
  <2>3. \A e \in Conn : Usable(e)' = Usable(e)
    BY <2>1 DEF Usable
  <2>4. CASE tx' = tx /\ ~closed_[c]
    BY <2>1, <2>2, <2>3, <2>4 DEF LockInv, Holds, TypeOK
  <2>5. CASE tx' = [tx EXCEPT ![c] = "free"]
    BY <2>1, <2>2, <2>3, <2>5 DEF LockInv, Holds, TypeOK
  <2> QED BY <2>1, <2>4, <2>5
<1>4. ASSUME NEW more \in BOOLEAN, ListenerOnClose(c, more) PROVE LockInv'
  <2>1. /\ tx[c] \in {"free", c} /\ listener[c] = "notify"
        /\ UNCHANGED <<pc, current, opens>> /\ closes' = [closes EXCEPT ![c] = @ + 1]
        /\ listener' = [listener EXCEPT ![c] = IF more THEN "send" ELSE "ended"]
        /\ tx' = IF more THEN tx ELSE [tx EXCEPT ![c] = "free"]
    BY <1>4 DEF ListenerOnClose, ListenerTo, server
  <2>2. \A e \in Conn : e # c => tx[e] # c
    BY <2>1 DEF LockInv, Holds
  <2>3. \A e \in Conn : e # c => Usable(e)' = Usable(e) /\ tx'[e] = tx[e]
    BY <2>1 DEF Usable, TypeOK
  <2>4. tx'[c] \in {"free", c} /\ (tx'[c] = c => listener'[c] = "send")
    BY <2>1 DEF TypeOK
  <2> QED BY <2>1, <2>2, <2>3, <2>4 DEF LockInv, Holds, TypeOK
<1> QED BY <1>1, <1>2, <1>3, <1>4 DEF ListenerStep, Serve

-----------------------------------------------------------------------------
(* Types                                                                   *)

\* The parts of TypeOK: what run() and the application keep, what is kept of
\* a connection, and what its client keeps.
ServerType ==
    /\ stop_ \in BOOLEAN
    /\ socket \in {"listening", "closed"}
    /\ pc \in {"test", "accept", "handshake", "open", "greet", "start", "throw", "thrown",
               "reap", "drain", "drain_write", "drain_close", "drain_join", "ended"}
    /\ current \in Conn \cup {NoConn}
    /\ connections \in SUBSET Conn
    /\ todo \in SUBSET connections
    /\ destructor \in {"running", "stop", "close", "stopped", "join", "done"}

StateType ==
    /\ listener \in [Conn -> {"none", "listening", "answer", "relay", "close", "error",
                             "notify", "send", "ended"}]
    /\ closed_ \in [Conn -> BOOLEAN]
    /\ tx \in [Conn -> {"free", "app", "run"} \cup Conn]
    /\ opens \in [Conn -> 0 .. 1]
    /\ closes \in [Conn -> Nat]
    /\ freed \in SUBSET Conn

PeerType ==
    /\ request \in [Conn -> {"none", "valid", "invalid", "missing"}]
    /\ client \in [Conn -> {"none", "waiting", "open", "failed", "closed", "wrong"}]
    /\ asked \in [Conn -> {"no", "yes", "answered"}]
    /\ down \in [Conn -> Seq({"response", "greeting", "message"})]
    /\ lost \in [Conn -> Nat]
    /\ sends \in 0 .. MaxSends

LEMMA TypeParts == TypeOK <=> ServerType /\ StateType /\ PeerType
BY DEF TypeOK, ServerType, StateType, PeerType

LEMMA RunType ==
    ASSUME ServerType, StateType, RunInv, Run \/ RunWrite \/ AcceptThrows \/ OnOpenThrows
    PROVE  ServerType' /\ StateType'
<1> USE DEF ServerType, StateType, Goto, Caught, state
<1>1. CASE AcceptTest \/ HandshakeOk \/ ReapDone \/ RunEnds \/ AcceptThrows
    BY <1>1 DEF AcceptTest, HandshakeOk, ReapDone, RunEnds, AcceptThrows
<1>2. CASE HandshakeFails
    BY <1>2 DEF HandshakeFails, RunInv
<1>3. CASE OnOpen(TRUE) \/ OnOpen(FALSE)
    BY <1>3 DEF OnOpen
<1>4. CASE Start
    BY <1>4 DEF Start, RunInv, ListenerTo
<1>5. CASE DrainJoin
  <2>1. current \in connections
    BY <1>5 DEF DrainJoin, RunInv
  <2>2. closes' \in [Conn -> Nat]
    BY <1>5, <2>1 DEF DrainJoin
  <2>3. todo = {}
    BY <1>5 DEF DrainJoin, RunInv
  <2> QED BY <1>5, <2>1, <2>2, <2>3 DEF DrainJoin
<1>6. CASE OnOpenThrows
  <2>1. closed_' \in [Conn -> BOOLEAN]
    BY <1>6, Zenon DEF OnOpenThrows
  <2>2. opens' \in [Conn -> 0 .. 1]
    <3>1. opens' = [opens EXCEPT ![current] = 1] /\ 1 \in 0 .. 1
      BY <1>6 DEF OnOpenThrows
    <3> QED BY <3>1
  <2> QED BY <1>6, <2>1, <2>2 DEF OnOpenThrows
<1>7. ASSUME NEW c \in Conn, Accept(c) \/ ReapKeep(c) PROVE ServerType' /\ StateType'
    BY <1>7 DEF Accept, ReapKeep
<1>8. ASSUME NEW c \in Conn, ReapErase(c) PROVE ServerType' /\ StateType'
    BY <1>8 DEF ReapErase
<1>9. ASSUME NEW c \in Conn, Drain(c) PROVE ServerType' /\ StateType'
  <2>1. closed_' \in [Conn -> BOOLEAN]
    BY <1>9, Zenon DEF Drain
  <2> QED BY <1>9, <2>1 DEF Drain
<1>10. CASE RunLock
    BY <1>10 DEF RunLock, server
<1>11. CASE RunWrite
    BY <1>11 DEF RunWrite, RunWrites
<1>12. CASE OnOpenThrown
    BY <1>12 DEF OnOpenThrown, RunInv
<1> QED BY <1>1, <1>2, <1>3, <1>4, <1>5, <1>6, <1>7, <1>8, <1>9, <1>10, <1>11, <1>12 DEF Run

LEMMA StopType ==
    ASSUME ServerType, StateType, Stop \/ StopClose \/ Join
    PROVE  ServerType' /\ StateType'
<1> USE DEF ServerType, StateType, state
<1>1. CASE Stop
    BY <1>1, Zenon DEF Stop
<1>2. CASE StopClose
    BY <1>2 DEF StopClose
<1>3. CASE Join
    BY <1>3 DEF Join
<1> QED BY <1>1, <1>2, <1>3

LEMMA ListenerType ==
    ASSUME ServerType, StateType, NEW c \in Conn,
           \/ ListenerStep(c) \/ PushBegin(c) \/ PushEnd(c) \/ ListenerLock(c)
           \/ \E d \in Conn : RelayLock(c, d)
    PROVE  ServerType' /\ StateType'
<1> USE DEF ServerType, StateType, server, state, ListenerTo
<1>1. CASE ListenerClose(c)
  <2>1. closed_' \in [Conn -> BOOLEAN]
    BY <1>1, Zenon DEF ListenerClose
  <2> QED BY <1>1, <2>1 DEF ListenerClose
<1>2. ASSUME NEW more \in BOOLEAN, ListenerOnClose(c, more) PROVE ServerType' /\ StateType'
    BY <1>2 DEF ListenerOnClose
<1>3. CASE ListenerSend(c)
    BY <1>3 DEF ListenerSend
<1>4. CASE Serve(c)
    BY <1>4 DEF Serve, OnMessage, ListenerFrame, Answer, RelayNone, ListenerEnds, Relay
<1>5. CASE \/ PushBegin(c) \/ PushEnd(c) \/ ListenerLock(c)
           \/ \E d \in Conn : RelayLock(c, d)
    BY <1>5 DEF PushBegin, PushEnd, ListenerLock, RelayLock
<1> QED BY <1>1, <1>2, <1>3, <1>4, <1>5 DEF ListenerStep

-----------------------------------------------------------------------------
(* Messages                                                                *)

Client(c) ==
    \/ \E n \in 1 .. Len(down[c]) : ClientHandshake(c, n) \/ ClientReads(c, n)
    \/ \E req \in {"valid", "invalid", "missing"} : Connect(c, req)
    \/ ClientFails(c) \/ ClientSends(c) \/ ClientBreaks(c) \/ ClientCloses(c)
    \/ ClientLost(c)

LEMMA ClientType ==
    ASSUME PeerType, AskInv, NEW c \in Conn, Client(c)
    PROVE  PeerType' /\ AskInv'
<1> DEFINE M == {"response", "greeting", "message"}
<1>1. ASSUME NEW n \in 1 .. Len(down[c]), ClientHandshake(c, n) \/ ClientReads(c, n)
      PROVE  PeerType' /\ AskInv'
  <2>1. down[c] \in Seq(M) /\ n - 1 \in Nat /\ n + 1 \in Nat
    BY DEF PeerType
  <2>2. SubSeq(down[c], n + 1, Len(down[c])) \in Seq(M)
    BY <2>1
  <2>3. /\ down' = [down EXCEPT ![c] = SubSeq(down[c], n + 1, Len(down[c]))]
        /\ client' = client \/ client' = [client EXCEPT ![c] = "open"]
        /\ lost' = lost \/ lost' = [lost EXCEPT ![c] = n - 1]
        /\ UNCHANGED <<request, asked, sends>>
    BY <1>1 DEF ClientHandshake, ClientReads
  <2>4. PeerType'
    BY <2>1, <2>2, <2>3 DEF PeerType
  <2>5. \A d \in Conn : client'[d] \in {"none", "waiting"} => client[d] = client'[d]
    BY <2>3 DEF PeerType
  <2> QED BY <2>3, <2>4, <2>5 DEF AskInv
<1>2. ASSUME NEW req \in {"valid", "invalid", "missing"}, Connect(c, req)
      PROVE  PeerType' /\ AskInv'
    BY <1>2 DEF Connect, PeerType, AskInv
<1>3. CASE ClientSends(c)
    BY <1>3, ConstantAssumption DEF ClientSends, PeerType, AskInv
<1>4. CASE ClientFails(c)
    BY <1>4 DEF ClientFails, PeerType, AskInv
<1>5. CASE ClientBreaks(c) \/ ClientCloses(c) \/ ClientLost(c)
  <2>1. << >> \in Seq(M)
    OBVIOUS
  <2>2. PICK how \in {"closed", "wrong"} : Leaves(c, how)
    BY <1>5 DEF ClientBreaks, ClientCloses, ClientLost
  <2> QED BY <2>1, <2>2 DEF Leaves, PeerType, AskInv
<1> QED BY <1>1, <1>2, <1>3, <1>4, <1>5 DEF Client

\* Messages of the server change no more than what is under way.
LEMMA ServerMessages ==
    ASSUME PeerType, AskInv, sends' \in 0 .. MaxSends,
           UNCHANGED <<request, client, asked, lost>>,
           \/ UNCHANGED down
           \/ \E c \in Conn, m \in {"response", "greeting", "message"} : Arrives(c, m)
    PROVE  PeerType' /\ AskInv'
<1> DEFINE M == {"response", "greeting", "message"}
<1>1. down' \in [Conn -> Seq(M)]
  <2>1. CASE UNCHANGED down
    BY <2>1 DEF PeerType
  <2>2. ASSUME NEW c \in Conn, NEW m \in M, Arrives(c, m) PROVE down' \in [Conn -> Seq(M)]
    <3>1. Append(down[c], m) \in Seq(M)
      BY DEF PeerType
    <3> QED BY <2>2, <3>1 DEF Arrives, PeerType
  <2> QED BY <2>1, <2>2
<1> QED BY <1>1 DEF PeerType, AskInv

\* OnMessage is the step of a listener that says that the client was heard.
LEMMA HeardType ==
    ASSUME PeerType, AskInv, NEW c \in Conn, NEW next \in {"answer", "relay"},
           OnMessage(c, next)
    PROVE  PeerType' /\ AskInv'
BY DEF OnMessage, PeerType, AskInv

-----------------------------------------------------------------------------
LEMMA NextIInv == IInv /\ [Next]_vars => IInv'
<1> SUFFICES ASSUME IInv, [Next]_vars PROVE IInv'
    OBVIOUS
<1>0. /\ ServerType /\ StateType /\ PeerType /\ TypeOK
      /\ LifeInv /\ RunInv /\ LockInv /\ AskInv
      /\ ServerType' /\ StateType' /\ PeerType' => TypeOK'
    BY TypeParts DEF IInv, TypeOK, ServerType, StateType, PeerType
<1>1. CASE Run \/ RunWrite \/ AcceptThrows \/ OnOpenThrows \/ Stop \/ StopClose \/ Join
  <2>1. ServerType' /\ StateType'
    BY <1>0, <1>1, RunType, StopType
  <2>2. LifeInv' /\ RunInv'
    <3>1. CASE RunLock
      BY <1>0, <3>1, ClientLife DEF RunLock
    <3>2. CASE ~RunLock
      BY <1>0, <1>1, <3>2, ControlLife, FailureLife, OpenLife, WriteLife, DestroyLife,
         StopLife DEF Run
    <3> QED BY <3>1, <3>2
  <2>3. LockInv'
    BY <1>0, <1>1, RunLocks
  <2>4. PeerType' /\ AskInv'
    <3>1. CASE HandshakeOk
      <4>1. current \in Conn
        BY <1>0, <3>1 DEF RunInv, HandshakeOk
      <4>2. Arrives(current, "response") /\ UNCHANGED <<request, client, asked, lost, sends>>
        BY <3>1 DEF HandshakeOk
      <4> QED BY <1>0, <4>1, <4>2, ServerMessages DEF PeerType
    <3>2. CASE RunWrite
      <4>1. current \in Conn
        BY <1>0, <3>2 DEF RunInv, RunWrite, RunWrites, TypeOK
      <4>2. /\ UNCHANGED down \/ Arrives(current, "greeting")
            /\ UNCHANGED <<request, client, asked, lost, sends>>
        BY <3>2 DEF RunWrite
      <4> QED BY <1>0, <4>1, <4>2, ServerMessages DEF PeerType
    <3>3. CASE ~HandshakeOk /\ ~RunWrite
      <4>1. UNCHANGED <<peer, sends>>
        BY <1>1, <3>3 DEF Run, AcceptTest, HandshakeFails, OnOpen, RunLock, OnOpenThrown,
             Start, ReapDone, DrainJoin, RunEnds, Accept, ReapKeep, ReapErase, Drain,
             AcceptThrows, OnOpenThrows, Stop, StopClose, Join
      <4> QED BY <1>0, <4>1, ServerMessages DEF PeerType, peer
    <3> QED BY <3>1, <3>2, <3>3
  <2> QED BY <1>0, <2>1, <2>2, <2>3, <2>4 DEF IInv
<1>2. ASSUME NEW c \in Conn,
             \/ ListenerStep(c) \/ PushBegin(c) \/ PushEnd(c) \/ ListenerLock(c)
             \/ \E d \in Conn : RelayLock(c, d)
      PROVE  IInv'
  <2>1. ServerType' /\ StateType'
    BY <1>0, <1>2, ListenerType
  <2>2. LifeInv' /\ RunInv'
    <3>1. CASE ListenerStep(c)
      BY <1>0, <3>1, ListenerLife
    <3>2. CASE ~ListenerStep(c)
      <4>1. UNCHANGED <<server, state>>
        BY <1>2, <3>2 DEF PushBegin, PushEnd, ListenerLock, RelayLock
      <4> QED BY <1>0, <4>1, ClientLife
    <3> QED BY <3>1, <3>2
  <2>3. LockInv'
    BY <1>0, <1>2, SendLocks, ListenerLocks
  <2>4. PeerType' /\ AskInv'
    <3>1. CASE \E next \in {"answer", "relay"} : OnMessage(c, next)
      BY <1>0, <3>1, HeardType
    <3>2. CASE ~\E next \in {"answer", "relay"} : OnMessage(c, next)
      <4>1. /\ UNCHANGED <<request, client, asked, lost>>
            /\ UNCHANGED sends \/ PushBegin(c)
            /\ UNCHANGED down \/ \E d \in Conn : Arrives(d, "message")
        BY <1>2, <3>2 DEF ListenerStep, Serve, ListenerFrame, Answer, RelayNone,
             ListenerEnds, Relay, ListenerClose, ListenerSend, ListenerOnClose, PushBegin,
             PushEnd, ListenerLock, RelayLock, peer
      <4>2. sends' \in 0 .. MaxSends
        BY <1>0, <4>1, ConstantAssumption DEF PushBegin, PeerType
      <4> QED BY <1>0, <4>1, <4>2, ServerMessages
    <3> QED BY <3>1, <3>2
  <2> QED BY <1>0, <2>1, <2>2, <2>3, <2>4 DEF IInv
<1>3. ASSUME NEW c \in Conn, Client(c) PROVE IInv'
  <2>1. UNCHANGED <<server, state, tx>>
    BY <1>3 DEF Client, ClientHandshake, ClientReads, ClientFails, Connect, ClientSends,
                ClientBreaks, ClientCloses, ClientLost, Leaves
  <2>2. ServerType' /\ StateType'
    BY <1>0, <2>1 DEF server, state, ServerType, StateType
  <2>3. LifeInv' /\ RunInv'
    BY <1>0, <2>1, ClientLife
  <2>4. LockInv'
    BY <1>0, <2>1, LockSame DEF server, state
  <2>5. PeerType' /\ AskInv'
    BY <1>0, <1>3, ClientType
  <2> QED BY <1>0, <2>2, <2>3, <2>4, <2>5 DEF IInv
<1>4. CASE UNCHANGED vars
  <2>1. UNCHANGED <<server, state, tx, peer, sends>>
    BY <1>4 DEF vars, server, state, peer
  <2>2. LifeInv' /\ RunInv'
    BY <1>0, <2>1, ClientLife
  <2>3. LockInv'
    BY <1>0, <2>1, LockSame DEF server, state
  <2>4. ServerType' /\ StateType' /\ PeerType' /\ AskInv'
    BY <1>0, <2>1 DEF server, state, peer, ServerType, StateType, PeerType, AskInv
  <2> QED BY <1>0, <2>2, <2>3, <2>4 DEF IInv
<1>5. ASSUME NEW c \in Conn, Listen(c) \/ WriteEnd(c) \/ PushBegin(c) PROVE IInv'
  <2>1. \/ ListenerStep(c) \/ PushBegin(c) \/ PushEnd(c) \/ ListenerLock(c)
        \/ \E d \in Conn : RelayLock(c, d)
    BY <1>5 DEF Listen, WriteEnd, ListenerStep, Serve
  <2> QED BY <1>2, <2>1
<1>6. ASSUME NEW c \in Conn,
             \/ ClientStep(c)
             \/ \E req \in {"valid", "invalid", "missing"} : Connect(c, req)
             \/ ClientSends(c) \/ ClientBreaks(c) \/ ClientCloses(c) \/ ClientLost(c)
      PROVE  IInv'
  <2>1. Client(c)
    BY <1>6 DEF ClientStep, Client
  <2> QED BY <1>3, <2>1
<1> QED BY <1>1, <1>4, <1>5, <1>6 DEF Next

LEMMA Invariance == Spec => []IInv
BY InitIInv, NextIInv, PTL DEF Spec

\* The variables have their types: in particular onOpen is called once for a
\* connection.
THEOREM TypeCorrect == Spec => []TypeOK
<1>1. IInv => TypeOK
    BY DEF IInv
<1> QED BY <1>1, Invariance, PTL

\* However the handshakes, the cleanup, the listeners and the application
\* interleave, and whichever of them fail, a connection is freed only after
\* its onClose, which runs once, after its listener has ended and when nobody
\* writes to it (WebSocket.cpp, the cleanup and the end of run()).
THEOREM FreedAfterClose == Spec => []FreedAfterOnClose
<1>1. IInv => FreedAfterOnClose
  <2> SUFFICES ASSUME IInv, NEW c \in Conn
               PROVE  /\ closes[c] <= opens[c]
                      /\ c \in freed => /\ closes[c] = opens[c]
                                        /\ listener[c] \in {"none", "ended"}
                                        /\ tx[c] = "free"
      BY DEF FreedAfterOnClose
  <2>1. Phase(c)
    BY DEF IInv, LifeInv
  <2>2. opens[c] \in 0 .. 1 /\ closes[c] \in Nat /\ tx[c] \in {"free", "app", "run"} \cup Conn
    BY DEF IInv, TypeOK
  <2>3. closes[c] <= opens[c]
    BY <2>1, <2>2 DEF Phase, Fresh, Starting, Throwing, Live, Unclosed, SelfClosed,
                      Draining, Gone
  <2>4. ASSUME c \in freed
        PROVE  closes[c] = opens[c] /\ listener[c] \in {"none", "ended"} /\ tx[c] = "free"
    <3>1. Gone(c)
      BY <2>1, <2>4 DEF Phase, Fresh, Starting, Throwing, Live
    <3>2. ~Usable(c)
      BY <3>1 DEF Gone, Usable
    <3>3. tx[c] # "app" /\ tx[c] \notin Conn
      BY <3>1, <3>2 DEF IInv, LockInv, Holds, Gone
    <3>4. tx[c] # "run"
      BY <3>1 DEF IInv, LockInv, RunInv, RunWrites, Gone, Starting, Throwing
    <3> QED BY <2>2, <3>1, <3>3, <3>4 DEF Gone
  <2> QED BY <2>3, <2>4
<1> QED BY <1>1, Invariance, PTL

\* When the server's destructor has returned, every connection that was
\* opened has been reported closed and is destroyed.
THEOREM NothingOutlivesServer == Spec => []NothingSurvives
<1>1. IInv => NothingSurvives
    BY DEF IInv, NothingSurvives, LifeInv, RunInv, Phase, Fresh, Starting, Throwing, Live,
           Gone
<1> QED BY <1>1, Invariance, PTL

\* A client's handshake throws away what is sent to it by then
\* (WebSocketClient.cpp, performHandshake).  Once the client has sent a
\* message none to it is thrown away, whichever thread of the server sends it.
THEOREM LaterMessagesAreNotLost == Spec => NothingIsLostLater
<1>1. IInv /\ [Next]_vars => [\A c \in Conn : asked[c] # "no" => lost'[c] = lost[c]]_vars
  <2> SUFFICES ASSUME IInv, Next, NEW c \in Conn, asked[c] # "no" PROVE lost'[c] = lost[c]
      OBVIOUS
  <2>1. client[c] # "waiting" /\ PeerType
    BY TypeParts DEF IInv, AskInv
  <2>2. ASSUME NEW d \in Conn, NEW n \in 1 .. Len(down[d]), ClientHandshake(d, n)
        PROVE  lost'[c] = lost[c]
    BY <2>1, <2>2 DEF ClientHandshake, PeerType
  <2>3. CASE ~\E d \in Conn : \E n \in 1 .. Len(down[d]) : ClientHandshake(d, n)
    BY <2>3 DEF Next, Run, RunWrite, AcceptThrows, OnOpenThrows, Stop, StopClose, Join,
         AcceptTest, HandshakeOk, HandshakeFails, OnOpen, RunLock, OnOpenThrown, Start,
         ReapDone, DrainJoin, RunEnds, Accept, ReapKeep, ReapErase, Drain,
         Listen, OnMessage, ListenerFrame, ListenerLock, RelayNone, ListenerOnClose,
         ListenerSend, ListenerEnds, RelayLock, WriteEnd, PushEnd, Answer, ListenerClose,
         Relay, PushBegin, ClientStep, ClientReads, ClientFails, Connect, ClientSends,
         ClientBreaks, ClientCloses, ClientLost, Leaves, peer
  <2> QED BY <2>2, <2>3
<1> QED BY <1>1, Invariance, PTL DEF Spec, NothingIsLostLater
=============================================================================
