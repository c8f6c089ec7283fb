---------------------- MODULE WebSocketConnectionProofs ----------------------
(***************************************************************************)
(* Proofs about WebSocketConnection, for either role, any threads of the   *)
(* application, any frames of the peer and any number of them.             *)
(*                                                                         *)
(* None of the properties is inductive.  Control ties them together: where *)
(* each call goes on (CallInv), what the std::thread says of the listener  *)
(* (JoinInv), that one thread at most is past closed_.exchange (FlagInv),  *)
(* that a CLOSE frame comes before close(false) and before the socket is   *)
(* closed (SentInv), and that the listener is done with parsing when       *)
(* another thread runs onClose (QuietInv).  MessageInv says that what has  *)
(* been collected is the message that has begun.                           *)
(***************************************************************************)
EXTENDS WebSocketConnection, TLAPS

\* A thread in a call of send() or close(), or answering a frame.
InCall == {"lock", "write"} \cup CloseSteps

\* A thread that has set closed_ and not yet run onClose.
Closing(x) == pc[x] \in CloseSteps \ {"c_flag"}

\* Calls go on where they were made, and only a call has something to go on to.
CallInv ==
    /\ \A x \in Thread :
          /\ pc[x] \notin InCall => call[x] = NoCall
          /\ call[x].next \in {"idle", "start", "d_join", "parse", "unlock", "ended"}
    /\ pc[Listener] \in InCall => call[Listener].next \in {"parse", "unlock", "ended"}
    /\ pc[Owner] \in {"run", "start"} \/ call[Owner].next = "start" => thread_ = "none"
    /\ pc[Owner] = "d_join" \/ call[Owner].next = "d_join" => thread_ # "none"

\* The std::thread agrees with the thread.
JoinInv ==
    /\ thread_ = "none" => pc[Listener] = "none"
    /\ thread_ = "joined" => pc[Listener] = "ended"
    /\ freed => thread_ = "joined"

\* One thread at most is past closed_.exchange, and until it has run onClose
\* nobody has.
FlagInv ==
    /\ \A x \in Thread : Closing(x) => closed_ /\ notified = << >>
    /\ \A x, y \in Thread : Closing(x) /\ Closing(y) => x = y
    /\ notified # << >> => closed_ /\ Len(notified) = 1

\* close(false) is called after a CLOSE frame, and close(true) sends one.
SentInv ==
    /\ \A x \in Thread :
          \/ pc[x] = "c_flag" /\ ~call[x].self
          \/ pc[x] \in {"c_conn", "c_join", "c_notify"}
          => closeSent
    /\ sock = "closed" => closeSent

\* The listener will not parse another frame, closed_ being set.
ListenerDone ==
    \/ pc[Listener] \in {"none", "test", "unlock", "ended"}
    \/ pc[Listener] \in InCall /\ call[Listener].next \in {"unlock", "ended"}

QuietInv ==
    /\ \A x \in App : pc[x] = "c_notify" => ListenerDone
    /\ notified \notin {<< >>, <<"parse">>} => ListenerDone

Control == CallInv /\ JoinInv /\ FlagInv /\ SentInv /\ QuietInv

-----------------------------------------------------------------------------
LEMMA Threads ==
    /\ Owner \in Thread /\ Listener \in Thread /\ Owner # Listener
    /\ \A x \in App : x \in Thread /\ x # Listener
BY ConstantAssumption DEF Thread

LEMMA InitControl == Init => Control
<1> SUFFICES ASSUME Init PROVE Control
    OBVIOUS
<1>1. /\ pc[Owner] = "run" /\ pc[Listener] = "none"
      /\ \A x \in Thread : pc[x] \in {"run", "none", "idle"} /\ call[x] = NoCall
    BY Threads DEF Init
<1> QED BY <1>1, Threads DEF Init, Control, CallInv, JoinInv, FlagInv, SentInv, QuietInv,
           ListenerDone, Closing, InCall, CloseSteps, NoCall

-----------------------------------------------------------------------------
(* Control.  Each lemma first says what its action does to the thread that *)
(* takes it, and then goes through the parts of the invariant.             *)

\* Writing a frame under tx_mtx_, by whichever thread.
LEMMA WriteControl ==
    ASSUME TypeOK, Control, NEW x \in Thread, Lock(x) \/ Write(x) \/ WriteClose(x)
    PROVE  Control'
<1> USE Threads DEF TypeOK, Control, InCall, CloseSteps, object, trace
<1>1. CASE Lock(x)
  <2>1. /\ UNCHANGED <<closed_, sock, thread_, freed, call, notified, closeSent>>
        /\ \/ pc[x] = "lock" /\ pc' = [pc EXCEPT ![x] = "write"]
           \/ pc[x] = "c_lock" /\ pc' = [pc EXCEPT ![x] = "c_write"]
    BY <1>1 DEF Lock, Goto
  <2>2. CallInv' /\ JoinInv'
    BY <2>1 DEF CallInv, JoinInv
  <2>3. FlagInv' /\ SentInv'
    <3>1. FlagInv'
      BY <2>1 DEF FlagInv, Closing
    <3>2. SentInv'
      BY <2>1 DEF SentInv
    <3> QED BY <3>1, <3>2
  <2>4. QuietInv'
    BY <2>1 DEF QuietInv, ListenerDone
  <2> QED BY <2>2, <2>3, <2>4
<1>2. CASE Write(x)
  <2>1. /\ UNCHANGED <<closed_, sock, thread_, freed, notified, closeSent>>
        /\ pc[x] = "write" /\ pc' = [pc EXCEPT ![x] = call[x].next]
        /\ call' = [call EXCEPT ![x] = NoCall]
    BY <1>2 DEF Write, Return, Goto
  <2>2. CallInv' /\ JoinInv'
    BY <2>1 DEF CallInv, JoinInv, NoCall
  <2>3. FlagInv' /\ SentInv'
    <3>1. FlagInv'
      BY <2>1 DEF CallInv, FlagInv, Closing
    <3>2. SentInv'
      BY <2>1 DEF CallInv, SentInv
    <3> QED BY <3>1, <3>2
  <2>4. QuietInv'
    BY <2>1 DEF CallInv, QuietInv, ListenerDone
  <2> QED BY <2>2, <2>3, <2>4
<1>3. CASE WriteClose(x)
  <2>1. /\ UNCHANGED <<closed_, sock, thread_, freed, notified>>
        /\ pc[x] = "write" /\ pc' = [pc EXCEPT ![x] = "c_flag"]
        /\ call' = [call EXCEPT ![x] = [frame |-> "none", self |-> FALSE,
                                        next |-> call[x].next]]
        /\ closeSent'
    BY <1>3 DEF WriteClose, Enter, Goto
  <2>2. CallInv' /\ JoinInv'
    BY <2>1 DEF CallInv, JoinInv
  <2>3. FlagInv' /\ SentInv'
    <3>1. FlagInv'
      BY <2>1 DEF FlagInv, Closing
    <3>2. SentInv'
      BY <2>1 DEF SentInv
    <3> QED BY <3>1, <3>2
  <2>4. QuietInv'
    BY <2>1 DEF QuietInv, ListenerDone
  <2> QED BY <2>2, <2>3, <2>4
<1> QED BY <1>1, <1>2, <1>3

\* The steps of close() up to the join: the exchange lets one thread past.
LEMMA CloseControl ==
    ASSUME TypeOK, Control, NEW x \in Thread, CloseFlag(x) \/ CloseWrite(x) \/ CloseConn(x)
    PROVE  Control'
<1> USE Threads DEF TypeOK, Control, InCall, CloseSteps, object, trace
<1>1. CASE CloseFlag(x) /\ closed_
  <2>1. /\ UNCHANGED <<sock, thread_, freed, notified, closeSent>> /\ closed_'
        /\ pc[x] = "c_flag" /\ pc' = [pc EXCEPT ![x] = call[x].next]
        /\ call' = [call EXCEPT ![x] = NoCall]
    BY <1>1 DEF CloseFlag, Return, Goto
  <2>2. CallInv' /\ JoinInv'
    BY <2>1 DEF CallInv, JoinInv, NoCall
  <2>3. FlagInv' /\ SentInv'
    <3>1. FlagInv'
      BY <2>1 DEF CallInv, FlagInv, Closing
    <3>2. SentInv'
      BY <2>1 DEF CallInv, SentInv
    <3> QED BY <3>1, <3>2
  <2>4. QuietInv'
    BY <2>1 DEF CallInv, QuietInv, ListenerDone
  <2> QED BY <2>2, <2>3, <2>4
<1>2. CASE CloseFlag(x) /\ ~closed_
  <2>1. /\ UNCHANGED <<sock, thread_, freed, call, notified, closeSent>> /\ closed_'
        /\ pc[x] = "c_flag"
        /\ pc' = [pc EXCEPT ![x] = IF call[x].self THEN "c_lock" ELSE "c_conn"]
    BY <1>2 DEF CloseFlag, Goto
  <2>2. CallInv' /\ JoinInv'
    BY <2>1 DEF CallInv, JoinInv
  <2>3. FlagInv'
    \* Nobody was closing, since closed_ was not set.
    BY <1>2, <2>1 DEF FlagInv, Closing
  <2>4. SentInv' /\ QuietInv'
    BY <2>1 DEF SentInv, QuietInv, ListenerDone
  <2> QED BY <2>2, <2>3, <2>4
<1>3. CASE CloseWrite(x) \/ CloseConn(x)
  <2>1. /\ UNCHANGED <<closed_, thread_, freed, call, notified>>
        /\ \/ pc[x] = "c_write" /\ pc' = [pc EXCEPT ![x] = "c_conn"] /\ closeSent'
              /\ sock' = sock
           \/ pc[x] = "c_conn" /\ pc' = [pc EXCEPT ![x] = "c_join"]
              /\ closeSent' = closeSent
    BY <1>3 DEF CloseWrite, CloseConn, Goto
  <2>2. CallInv' /\ JoinInv'
    BY <2>1 DEF CallInv, JoinInv
  <2>3. FlagInv' /\ SentInv'
    <3>1. FlagInv'
      BY <2>1 DEF FlagInv, Closing
    <3>2. SentInv'
      BY <2>1 DEF SentInv
    <3> QED BY <3>1, <3>2
  <2>4. QuietInv'
    BY <2>1 DEF QuietInv, ListenerDone
  <2> QED BY <2>2, <2>3, <2>4
<1> QED BY <1>1, <1>2, <1>3

\* The join: a thread of the application that is past it knows that the
\* listener has ended, or that there is none yet.
LEMMA JoinControl ==
    ASSUME TypeOK, Control, NEW x \in Thread, CloseJoin(x)
    PROVE  Control'
<1> USE Threads DEF TypeOK, Control, InCall, CloseSteps, trace
<1>1. /\ UNCHANGED <<closed_, sock, freed, call, notified, closeSent>>
      /\ pc[x] = "c_join" /\ pc' = [pc EXCEPT ![x] = "c_notify"]
      /\ \/ thread_' = thread_ /\ (thread_ # "running" \/ x = Listener)
         \/ thread_' = "joined" /\ thread_ = "running" /\ x # Listener
            /\ pc[Listener] = "ended"
    BY DEF CloseJoin, Goto
<1>2. CallInv' /\ JoinInv'
    BY <1>1 DEF CallInv, JoinInv
<1>3. FlagInv' /\ SentInv'
  <2>1. FlagInv'
    BY <1>1 DEF FlagInv, Closing
  <2>2. SentInv'
    BY <1>1 DEF SentInv
  <2> QED BY <2>1, <2>2
<1>4. x # Listener => ListenerDone'
    BY <1>1 DEF JoinInv, ListenerDone
<1>5. QuietInv'
    BY <1>1, <1>4 DEF QuietInv, ListenerDone
<1> QED BY <1>2, <1>3, <1>5

\* onClose, after which close() returns, at once or when onClose has sent
\* something.
LEMMA NotifyControl ==
    ASSUME TypeOK, Control, NEW x \in Thread, CloseNotify(x)
    PROVE  Control'
<1> USE Threads DEF TypeOK, Control, InCall, CloseSteps, object
<1>1. /\ UNCHANGED <<closed_, sock, thread_, freed, closeSent>>
      /\ pc[x] = "c_notify" /\ notified' = Append(notified, call[x].next)
      /\ \/ pc' = [pc EXCEPT ![x] = call[x].next] /\ call' = [call EXCEPT ![x] = NoCall]
         \/ pc' = [pc EXCEPT ![x] = "lock"]
            /\ call' = [call EXCEPT ![x] = [frame |-> "text", self |-> FALSE,
                                            next |-> call[x].next]]
    BY DEF CloseNotify, Return, SendFrom, Enter, Goto
<1>2. closed_ /\ notified' = <<call[x].next>>
  <2>1. closed_ /\ notified = << >>
    BY <1>1 DEF FlagInv, Closing
  <2> QED BY <1>1, <2>1
<1>3. CallInv' /\ JoinInv'
  <2>1. CASE /\ pc' = [pc EXCEPT ![x] = call[x].next]
             /\ call' = [call EXCEPT ![x] = NoCall]
    BY <1>1, <2>1 DEF CallInv, JoinInv, NoCall
  <2>2. CASE /\ pc' = [pc EXCEPT ![x] = "lock"]
             /\ call' = [call EXCEPT ![x] = [frame |-> "text", self |-> FALSE,
                                             next |-> call[x].next]]
    BY <1>1, <2>2 DEF CallInv, JoinInv
  <2> QED BY <1>1, <2>1, <2>2
<1>4. ~Closing(x)' /\ \A y \in Thread : Closing(y)' => Closing(y) /\ y # x
    BY <1>1 DEF CallInv, Closing
<1>5. FlagInv' /\ SentInv'
  <2>1. FlagInv'
    BY <1>1, <1>2, <1>4 DEF CallInv, FlagInv, Closing
  <2>2. SentInv'
    BY <1>1, <1>2, <1>4 DEF CallInv, SentInv
  <2> QED BY <2>1, <2>2
<1>6. x # Listener => ListenerDone'
    BY <1>1 DEF QuietInv, ListenerDone, Thread
<1>7. x = Listener => ListenerDone' \/ notified' = <<"parse">>
  <2> SUFFICES ASSUME x = Listener, notified' # <<"parse">> PROVE ListenerDone'
    OBVIOUS
  <2>1. pc[Listener] = "c_notify" /\ call[Listener].next # "parse"
    BY <1>1, <1>2
  <2> QED
    BY <1>1, <2>1 DEF CallInv, ListenerDone
<1>8. \A y \in App : pc'[y] # "c_notify"
    BY <1>1, <1>4 DEF FlagInv, Closing
<1>9. QuietInv'
    BY <1>6, <1>7, <1>8 DEF QuietInv
<1> QED BY <1>3, <1>5, <1>9

\* A thread of the application, or the listener while it parses, calls send()
\* or close(true), or answers a frame.
LEMMA EnterControl ==
    ASSUME TypeOK, Control, NEW x \in Thread, NEW step, NEW frame, NEW self, NEW next,
           Enter(x, step, frame, self, next),
           UNCHANGED <<closed_, sock, thread_, freed, notified, closeSent>>,
           step = "lock" \/ (step = "c_flag" /\ self),
           \/ x = Listener /\ pc[x] = "parse" /\ next \in {"parse", "unlock", "ended"}
           \/ x \in App /\ pc[x] = "idle" /\ next = "idle"
           \/ x = Owner /\ pc[x] = "run" /\ next = "start"
    PROVE  Control'
<1> USE Threads DEF TypeOK, Control, InCall, CloseSteps
<1>1. /\ pc' = [pc EXCEPT ![x] = step]
      /\ call' = [call EXCEPT ![x] = [frame |-> frame, self |-> self, next |-> next]]
    BY DEF Enter, Goto
<1>2. CallInv' /\ JoinInv'
    BY <1>1 DEF CallInv, JoinInv
<1>3. FlagInv' /\ SentInv'
  <2>1. FlagInv'
    BY <1>1 DEF FlagInv, Closing
  <2>2. SentInv'
    BY <1>1 DEF SentInv
  <2> QED BY <2>1, <2>2
<1>4. QuietInv'
    BY <1>1 DEF QuietInv, ListenerDone
<1> QED BY <1>2, <1>3, <1>4

\* The application: onOpen, the start of the listener, send(), close() and
\* the destructor.
LEMMA AppControl ==
    ASSUME TypeOK, Control,
           \/ OnOpen \/ StartListener \/ Destroy \/ DestroyJoin
           \/ \E x \in App : Send(x) \/ CloseCall(x)
    PROVE  Control'
<1> USE Threads DEF TypeOK, InCall, CloseSteps, object, trace
<1>1. CASE OnOpen
  <2>1. pc[Owner] = "run" /\ UNCHANGED <<closed_, sock, thread_, freed, notified, closeSent>>
    BY <1>1 DEF OnOpen
  <2>2. CASE Goto(Owner, "start") /\ UNCHANGED call
    <3>1. pc' = [pc EXCEPT ![Owner] = "start"]
      BY <2>2 DEF Goto
    <3>2. CallInv' /\ JoinInv'
      BY <2>1, <2>2, <3>1 DEF Control, CallInv, JoinInv
    <3>3. FlagInv' /\ SentInv' /\ QuietInv'
      BY <2>1, <2>2, <3>1 DEF Control, FlagInv, SentInv, Closing, QuietInv, ListenerDone
    <3> QED BY <3>2, <3>3 DEF Control
  <2>3. CASE \/ Enter(Owner, "lock", "text", FALSE, "start")
             \/ Enter(Owner, "c_flag", "none", TRUE, "start")
    BY <2>1, <2>3, EnterControl
  <2> QED BY <1>1, <2>2, <2>3 DEF OnOpen, InCallback, SendFrom
<1>2. CASE StartListener
  <2>1. /\ UNCHANGED <<closed_, sock, freed, call, notified, closeSent>>
        /\ pc[Owner] = "start" /\ thread_' = "running"
        /\ pc' = [pc EXCEPT ![Owner] = "idle", ![Listener] = "test"]
    BY <1>2 DEF StartListener
  <2>2. thread_ = "none" /\ ~freed /\ call[Owner] = NoCall /\ pc[Listener] = "none"
    BY <2>1 DEF Control, CallInv, JoinInv
  <2>3. /\ pc'[Owner] = "idle" /\ pc'[Listener] = "test"
        /\ \A x \in Thread : x # Owner /\ x # Listener => pc'[x] = pc[x]
    BY <2>1
  <2>4. CallInv' /\ JoinInv'
    <3>1. call[Listener] = NoCall /\ NoCall.next = "idle"
      BY <2>2 DEF Control, CallInv, NoCall
    <3> QED BY <2>1, <2>2, <2>3, <3>1 DEF Control, CallInv, JoinInv
  <2>5. FlagInv'
    <3>1. \A x \in Thread : Closing(x)' => Closing(x)
      BY <2>3 DEF Closing
    <3> QED BY <2>1, <3>1 DEF Control, FlagInv
  <2>6. SentInv'
    BY <2>1, <2>3 DEF Control, SentInv
  <2>7. QuietInv'
    BY <2>1, <2>3 DEF Control, QuietInv, ListenerDone
  <2> QED BY <2>4, <2>5, <2>6, <2>7 DEF Control
<1>3. CASE Destroy
  <2>1. /\ UNCHANGED <<closed_, sock, thread_, freed, notified, closeSent>>
        /\ thread_ # "none" /\ \A x \in App : pc[x] = "idle" /\ call[x] = NoCall
        /\ pc' = [x \in Thread |-> CASE x = Owner -> "c_flag" [] x = Listener -> pc[x]
                                     [] OTHER -> "gone"]
        /\ call' = [call EXCEPT ![Owner] = [frame |-> "none", self |-> TRUE,
                                            next |-> "d_join"]]
    BY <1>3 DEF Destroy, Started, Control, CallInv
  <2>2. /\ pc'[Owner] = "c_flag" /\ pc'[Listener] = pc[Listener]
        /\ \A x \in Thread : x # Owner /\ x # Listener => pc'[x] = "gone"
        /\ call'[Owner].self /\ call'[Owner].next = "d_join"
        /\ \A x \in Thread : x # Owner => call'[x] = call[x]
    BY <2>1
  <2>3. CallInv' /\ JoinInv'
    BY <2>1, <2>2 DEF Control, CallInv, JoinInv, Thread
  <2>4. FlagInv' /\ SentInv'
    <3>1. FlagInv'
      BY <2>1, <2>2 DEF Control, FlagInv, Closing
    <3>2. SentInv'
      BY <2>1, <2>2 DEF Control, SentInv
    <3> QED BY <3>1, <3>2
  <2>5. QuietInv'
    BY <2>1, <2>2 DEF Control, QuietInv, ListenerDone
  <2> QED BY <2>3, <2>4, <2>5 DEF Control
<1>4. CASE DestroyJoin
  <2>1. /\ UNCHANGED <<closed_, sock, call, notified, closeSent>>
        /\ pc[Owner] = "d_join" /\ thread_' = "joined"
        /\ thread_ = "running" => pc[Listener] = "ended"
        /\ pc' = [pc EXCEPT ![Owner] = "gone"]
    BY <1>4 DEF DestroyJoin, Goto
  <2>2. pc[Listener] = "ended"
    BY <2>1 DEF Control, CallInv, JoinInv
  <2>3. CallInv' /\ JoinInv'
    BY <2>1, <2>2 DEF Control, CallInv, JoinInv, NoCall
  <2>4. FlagInv' /\ SentInv'
    <3>1. FlagInv'
      BY <2>1 DEF Control, FlagInv, Closing
    <3>2. SentInv'
      BY <2>1 DEF Control, SentInv
    <3> QED BY <3>1, <3>2
  <2>5. QuietInv'
    BY <2>1, <2>2 DEF QuietInv, ListenerDone
  <2> QED BY <2>3, <2>4, <2>5 DEF Control
<1>5. ASSUME NEW x \in App, Send(x) \/ CloseCall(x) PROVE Control'
  <2>1. pc[x] = "idle" /\ UNCHANGED <<closed_, sock, thread_, freed, notified, closeSent>>
    BY <1>5 DEF Send, CloseCall
  <2>2. \/ Enter(x, "lock", "text", FALSE, "idle")
        \/ Enter(x, "c_flag", "none", TRUE, "idle")
    BY <1>5 DEF Send, CloseCall, SendFrom
  <2> QED BY <2>1, <2>2, EnterControl
<1> QED BY <1>1, <1>2, <1>3, <1>4, <1>5

\* listen(): it reads again only while closed_ is not set.
LEMMA ListenControl ==
    ASSUME TypeOK, Control,
           \/ ListenTest \/ ReadFails \/ ParseBreak \/ ParseError \/ ParseControl
           \/ ParseData \/ ListenUnlock
           \/ \E new, cut : Read(new, cut)
    PROVE  Control'
<1> USE Threads DEF TypeOK, InCall, CloseSteps, object, trace
<1>1. ASSUME NEW from, NEW to,
             UNCHANGED <<closed_, sock, thread_, freed, call, notified, closeSent>>,
             pc[Listener] = from, pc' = [pc EXCEPT ![Listener] = to],
             \/ from = "test" /\ to = IF closed_ THEN "ended" ELSE "read"
             \/ from = "read" /\ to \in {"ended", "parse"}
             \/ from = "parse" /\ to \in {"test", "parse"}
             \/ from = "unlock" /\ to = "ended"
      PROVE  Control'
  <2>1. CallInv' /\ JoinInv'
    BY <1>1 DEF Control, CallInv, JoinInv
  <2>2. FlagInv' /\ SentInv'
    <3>1. FlagInv'
      BY <1>1 DEF Control, FlagInv, Closing
    <3>2. SentInv'
      BY <1>1 DEF Control, SentInv
    <3> QED BY <3>1, <3>2
  <2>3. ListenerDone /\ closed_ => ListenerDone'
    BY <1>1 DEF ListenerDone
  <2>4. QuietInv'
    BY <1>1, <2>3 DEF Control, QuietInv, FlagInv, Closing
  <2> QED BY <2>1, <2>2, <2>4 DEF Control
<1>2. CASE ListenTest \/ ReadFails \/ ParseBreak \/ ListenUnlock \/ \E new, cut : Read(new, cut)
    BY <1>1, <1>2 DEF ListenTest, ReadFails, ParseBreak, ListenUnlock, Read, Goto
<1>3. CASE ParseError \/ ParseControl \/ ParseData
  <2>1. pc[Listener] = "parse" /\ UNCHANGED <<closed_, sock, thread_, freed, notified, closeSent>>
    BY <1>3 DEF ParseError, ParseControl, ParseData, Parsing
  <2>2. \/ UNCHANGED call /\ pc' = [pc EXCEPT ![Listener] = "parse"]
        \/ \E frame, next : /\ next \in {"parse", "unlock", "ended"}
                            /\ \/ Enter(Listener, "lock", frame, FALSE, next)
                               \/ Enter(Listener, "c_flag", frame, TRUE, next)
    BY <1>3, <2>1 DEF ParseError, ParseControl, ParseData, InCallback, SendFrom, Goto
  <2> QED BY <1>1, <2>1, <2>2, EnterControl
<1> QED BY <1>2, <1>3

LEMMA NextControl ==
    ASSUME TypeOK, Control, [Next]_vars
    PROVE  Control'
<1>1. CASE UNCHANGED vars
    BY <1>1 DEF vars, Control, CallInv, JoinInv, FlagInv, SentInv, QuietInv, ListenerDone,
                Closing
<1>2. CASE Next
    BY <1>2, WriteControl, CloseControl, JoinControl, NotifyControl, AppControl,
       ListenControl DEF Next, Step, Close
<1> QED BY <1>1, <1>2

-----------------------------------------------------------------------------
(* Messages                                                                *)

\* The frames of a message that has begun in the first n frames and not ended.
Open(n) ==
    {j \in 1 .. n : IsData(j) /\ \A k \in j .. n : ~(IsData(k) /\ stream[k].fin)}

\* What has been collected is the message that has begun.
MessageInv ==
    /\ \A i, j \in 1 .. Len(message) : i < j => message[i] < message[j]
    /\ Range(message) = Open(parsed)
    /\ \A i \in 1 .. Len(message) :
          stream[message[i]].op = IF i = 1 THEN "data" ELSE "cont"
    /\ continued <=> message # << >>
    /\ MessagesAsSent

LEMMA RangeOf ==
    ASSUME NEW s \in Seq(Nat)
    PROVE  Range(s) = {s[i] : i \in 1 .. Len(s)}
BY DEF Range

LEMMA AppendFacts ==
    ASSUME NEW S, NEW s \in Seq(S), NEW e \in S
    PROVE  /\ Append(s, e) \in Seq(S) /\ Len(Append(s, e)) = Len(s) + 1
           /\ Append(s, e) # << >> /\ Append(s, e)[Len(s) + 1] = e
           /\ \A i \in 1 .. Len(s) : Append(s, e)[i] = s[i]
OBVIOUS

LEMMA RangeAppend ==
    ASSUME NEW s \in Seq(Nat), NEW e \in Nat
    PROVE  Range(Append(s, e)) = Range(s) \cup {e}
<1>1. \A x : x \in Range(Append(s, e)) <=> \E i \in 1 .. Len(s) + 1 : Append(s, e)[i] = x
  <2> DEFINE t == Append(s, e)
  <2>1. t \in Seq(Nat) /\ Len(t) = Len(s) + 1
    BY AppendFacts
  <2> HIDE DEF t
  <2>2. \A x : x \in Range(t) <=> \E i \in 1 .. Len(s) + 1 : t[i] = x
    BY <2>1, RangeOf
  <2> QED BY <2>2 DEF t
<1>2. \A x : x \in Range(s) <=> \E i \in 1 .. Len(s) : s[i] = x
    BY RangeOf
<1>3. \A x : (\E i \in 1 .. Len(s) + 1 : Append(s, e)[i] = x) <=>
                (\E i \in 1 .. Len(s) : s[i] = x) \/ x = e
    BY AppendFacts
<1> QED BY <1>1, <1>2, <1>3

\* A frame that has been parsed stays what it is.
LEMMA SameMessage ==
    ASSUME NEW m \in Seq(Nat), NEW n \in Nat, Last(m) \in 1 .. n,
           \A i \in 1 .. n : stream'[i] = stream[i], IsMessage(m)
    PROVE  IsMessage(m)'
<1>1. MessageEndingAt(Last(m))' = MessageEndingAt(Last(m))
    BY DEF MessageEndingAt, IsData
<1>2. \A i \in 1 .. Len(m) : m[i] \in 1 .. n
    BY RangeOf DEF IsMessage, MessageEndingAt
<1> QED BY <1>1, <1>2 DEF IsMessage

LEMMA SameMessages ==
    ASSUME TypeOK, MessageInv, \A i \in 1 .. parsed : stream'[i] = stream[i],
           UNCHANGED <<parsed, continued, message, delivered>>
    PROVE  MessageInv'
<1>1. parsed \in Nat /\ message \in Seq(Nat) /\ delivered \in Seq(Seq(Nat))
    BY DEF TypeOK
<1>2. MessageEnds(parsed)' = MessageEnds(parsed) /\ Open(parsed)' = Open(parsed)
  <2>1. \A i \in 1 .. parsed : IsData(i)' = IsData(i)
    BY DEF IsData
  <2>2. MessageEnds(parsed)' = MessageEnds(parsed)
    BY <2>1 DEF MessageEnds
  <2>3. \A j \in 1 .. parsed : \A k \in j .. parsed : k \in 1 .. parsed
    BY <1>1
  <2>4. Open(parsed)' = Open(parsed)
    BY <2>1, <2>3 DEF Open
  <2> QED BY <2>2, <2>4
<1>3. \A n \in 1 .. Len(delivered) : Last(delivered[n]) \in 1 .. parsed
    BY DEF MessageInv, MessagesAsSent, MessageEnds
<1>4. \A n \in 1 .. Len(delivered) : IsMessage(delivered[n])'
  <2> TAKE n \in 1 .. Len(delivered)
  <2>1. IsMessage(delivered[n]) /\ delivered[n] \in Seq(Nat) /\ delivered'[n] = delivered[n]
    BY <1>1 DEF MessageInv, MessagesAsSent
  <2> QED BY <1>1, <1>3, <2>1, SameMessage
<1>5. MessagesAsSent'
    BY <1>2, <1>4 DEF MessageInv, MessagesAsSent
<1>6. \A i \in 1 .. Len(message) : message[i] \in 1 .. parsed
    BY <1>1, RangeOf DEF MessageInv, Open
<1> QED BY <1>1, <1>2, <1>5, <1>6 DEF MessageInv

\* Parsing a frame that is no part of a message.
LEMMA ControlMessages ==
    ASSUME TypeOK, MessageInv, ParseControl
    PROVE  MessageInv'
<1>1. /\ parsed' = parsed + 1 /\ UNCHANGED <<stream, continued, message, delivered>>
      /\ parsed \in Nat /\ ~IsData(parsed + 1)
    BY DEF ParseControl, trace, TypeOK, This, IsData
<1>2. MessageEnds(parsed)' = MessageEnds(parsed) /\ Open(parsed)' = Open(parsed)
    BY <1>1 DEF MessageEnds, Open, IsData
<1>3. \A m : IsMessage(m)' = IsMessage(m)
    BY <1>1 DEF IsMessage, MessageEndingAt, IsData
<1> QED BY <1>1, <1>2, <1>3 DEF MessageInv, MessagesAsSent

\* Parsing a frame of a message: it is collected, and with FIN what has been
\* collected is a message.
LEMMA DataMessages ==
    ASSUME TypeOK, MessageInv, ParseData
    PROVE  MessageInv'
<1> DEFINE q == parsed + 1
           whole == Append(message, q)
<1>1. /\ parsed' = q /\ stream' = stream /\ q \in Nat /\ IsData(q)
      /\ continued' = ~stream[q].fin
      /\ stream[q].op = IF continued THEN "cont" ELSE "data"
      /\ message' = IF stream[q].fin THEN << >> ELSE whole
      /\ delivered' = IF stream[q].fin THEN Append(delivered, whole) ELSE delivered
    BY DEF ParseData, Parsing, Wrong, This, IsData, TypeOK
<1>2. /\ parsed \in Nat /\ message \in Seq(Nat) /\ delivered \in Seq(Seq(Nat))
      /\ \A i \in 1 .. Len(message) : message[i] \in 1 .. parsed
    BY RangeOf DEF TypeOK, MessageInv, Open
<1>3. /\ whole \in Seq(Nat) /\ Len(whole) = Len(message) + 1 /\ whole # << >>
      /\ whole[Len(message) + 1] = q
      /\ \A i \in 1 .. Len(message) : whole[i] = message[i]
  <2> HIDE DEF q
  <2> QED BY <1>1, <1>2, AppendFacts
<1>4. Range(whole) = Open(parsed) \cup {q}
    BY <1>1, <1>2, RangeAppend DEF MessageInv
<1>5. \A i, j \in 1 .. Len(whole) : i < j => whole[i] < whole[j]
    BY <1>2, <1>3 DEF MessageInv
<1>6. \A i \in 1 .. Len(whole) : stream[whole[i]].op = IF i = 1 THEN "data" ELSE "cont"
    BY <1>1, <1>2, <1>3 DEF MessageInv
<1>7. \A m : IsMessage(m)' = IsMessage(m)
    BY <1>1 DEF IsMessage, MessageEndingAt, IsData
<1>8. CASE ~stream[q].fin
  <2>1. MessageEnds(parsed)' = MessageEnds(parsed)
    BY <1>1, <1>2, <1>8 DEF MessageEnds, IsData
  <2>2. Open(parsed)' = Open(parsed) \cup {q}
    BY <1>1, <1>2, <1>8 DEF Open, IsData
  <2>3. MessagesAsSent'
    BY <1>1, <1>7, <1>8, <2>1 DEF MessageInv, MessagesAsSent
  <2>4. message' = whole /\ continued' /\ stream' = stream
    BY <1>1, <1>8
  <2> HIDE DEF q, whole
  <2> QED BY <1>3, <1>4, <1>5, <1>6, <2>2, <2>3, <2>4 DEF MessageInv
<1>9. CASE stream[q].fin
  <2>1. MessageEnds(parsed)' = MessageEnds(parsed) \cup {q}
    BY <1>1, <1>2, <1>9 DEF MessageEnds, IsData
  <2>2. Open(parsed)' = {}
    BY <1>1, <1>2, <1>9 DEF Open, IsData
  <2>3. MessageEndingAt(q) = Open(parsed) \cup {q}
    BY <1>1, <1>2 DEF MessageEndingAt, Open, IsData
  <2>4. Last(whole) = q
    BY <1>3 DEF Last
  <2>5. IsMessage(whole)
    BY <1>3, <1>4, <1>5, <1>6, <2>3, <2>4 DEF IsMessage
  <2>6. /\ Len(delivered') = Len(delivered) + 1
        /\ delivered'[Len(delivered) + 1] = whole
        /\ \A n \in 1 .. Len(delivered) : delivered'[n] = delivered[n]
    BY <1>1, <1>2, <1>3, <1>9, AppendFacts
  <2>7. \A n \in 1 .. Len(delivered) : Last(delivered[n]) \in 1 .. parsed
    BY DEF MessageInv, MessagesAsSent, MessageEnds
  <2>8. \A n \in 1 .. Len(delivered') : IsMessage(delivered'[n])
    <3>1. \A n \in 1 .. Len(delivered) : IsMessage(delivered[n])
      BY DEF MessageInv, MessagesAsSent
    <3> HIDE DEF whole
    <3> TAKE n \in 1 .. Len(delivered')
    <3>2. n \in 1 .. Len(delivered) \/ n = Len(delivered) + 1
      BY <1>2, <2>6
    <3> QED BY <2>5, <2>6, <3>1, <3>2
  <2>9. \A k, n \in 1 .. Len(delivered') :
            k < n => Last(delivered'[k]) < Last(delivered'[n])
    BY <1>1, <1>2, <2>4, <2>6, <2>7 DEF MessageInv, MessagesAsSent
  <2>10. {Last(delivered'[n]) : n \in 1 .. Len(delivered')} = MessageEnds(parsed) \cup {q}
    <3>1. {Last(delivered[n]) : n \in 1 .. Len(delivered)} = MessageEnds(parsed)
      BY DEF MessageInv, MessagesAsSent
    <3> HIDE DEF whole, q
    <3>2. Len(delivered) \in Nat
      BY <1>2
    <3>3. \A x : (\E n \in 1 .. Len(delivered') : x = Last(delivered'[n])) <=>
                    (\E n \in 1 .. Len(delivered) : x = Last(delivered[n])) \/ x = q
      BY <2>4, <2>6, <3>2
    <3> QED BY <3>1, <3>3
  <2>11. MessagesAsSent'
    BY <1>7, <2>1, <2>8, <2>9, <2>10 DEF MessagesAsSent
  <2>12. message' = << >> /\ ~continued' /\ Range(message') = {}
    <3>1. message' = << >> /\ ~continued'
      BY <1>1, <1>9
    <3>2. Range(<< >>) = {}
      BY DEF Range
    <3> QED BY <3>1, <3>2
  <2> QED BY <2>2, <2>11, <2>12 DEF MessageInv
<1> QED BY <1>8, <1>9

LEMMA InitMessages == Init => MessageInv
BY DEF Init, MessageInv, MessagesAsSent, MessageEnds, Open, Range

-----------------------------------------------------------------------------
(* Types                                                                   *)

TypeObject ==
    /\ closed_ \in BOOLEAN /\ freed \in BOOLEAN /\ closeSent \in BOOLEAN
    /\ tx_mtx_ \in Thread \cup {NoThread}
    /\ sock \in {"open", "closed"}
    /\ thread_ \in {"none", "running", "joined"}

TypeThreads ==
    /\ pc \in [Thread -> State]
    /\ call \in [Thread -> Call]
    /\ notified \in Seq(State)
    /\ sends \in 0 .. MaxSends

TypeRx ==
    /\ stream \in Seq(PeerFrame)
    /\ got \in 0 .. 2 * Len(stream)
    /\ parsed \in 0 .. Len(stream)
    /\ continued \in BOOLEAN
    /\ message \in Seq(Nat)
    /\ delivered \in Seq(Seq(Nat))

LEMMA Types == TypeOK <=> TypeObject /\ TypeThreads /\ TypeRx
BY DEF TypeOK, TypeObject, TypeThreads, TypeRx

LEMMA States ==
    /\ CloseSteps \subseteq State
    /\ {"none", "run", "start", "idle", "lock", "write", "test", "read", "parse",
        "unlock", "ended", "d_join", "gone"} \subseteq State
    /\ NoCall \in Call
    /\ \A frame \in {"none", "text", "close", "pong"}, self \in BOOLEAN, next \in State :
          [frame |-> frame, self |-> self, next |-> next] \in Call
BY DEF State, CloseSteps, NoCall, Call

LEMMA ObjectType ==
    ASSUME TypeOK, [Next]_vars
    PROVE  TypeObject'
<1>1. CASE UNCHANGED vars
    BY <1>1 DEF vars, TypeOK, TypeObject
<1>2. ASSUME NEW x \in Thread, Step(x) PROVE TypeObject'
  <2>1. CASE Lock(x) \/ Write(x) \/ WriteClose(x)
    BY <2>1, Zenon DEF Lock, Write, WriteClose, object, TypeOK, TypeObject
  <2>2. CASE Close(x)
    BY <2>2, Zenon DEF Close, CloseFlag, CloseWrite, CloseConn, CloseJoin, CloseNotify, object,
                TypeOK, TypeObject
  <2>3. CASE OnOpen \/ StartListener \/ DestroyJoin
    BY <2>3, Zenon DEF OnOpen, StartListener, DestroyJoin, object, TypeOK, TypeObject
  <2>4. CASE \/ ListenTest \/ ParseBreak \/ ParseError \/ ParseControl \/ ParseData
             \/ ListenUnlock \/ ReadFails
    BY <2>4, Zenon DEF ListenTest, ParseBreak, ParseError, ParseControl, ParseData, ListenUnlock,
                ReadFails, object, TypeOK, TypeObject
  <2> QED BY <1>2, <2>1, <2>2, <2>3, <2>4 DEF Step
<1>3. CASE Destroy \/ ReadFails \/ \E x \in App : Send(x) \/ CloseCall(x)
    BY <1>3, Zenon DEF Destroy, ReadFails, Send, CloseCall, object, TypeOK, TypeObject
<1>4. ASSUME NEW new, NEW cut, Read(new, cut) PROVE TypeObject'
    BY <1>4, Zenon DEF Read, object, TypeOK, TypeObject
<1> QED BY <1>1, <1>2, <1>3, <1>4 DEF Next

LEMMA EnterType ==
    ASSUME TypeThreads, NEW x \in Thread, NEW step \in State,
           NEW frame \in {"none", "text", "close", "pong"}, NEW self \in BOOLEAN,
           NEW next \in State, Enter(x, step, frame, self, next)
    PROVE  pc' \in [Thread -> State] /\ call' \in [Thread -> Call]
BY States DEF Enter, Goto, TypeThreads

LEMMA CallbackType ==
    ASSUME TypeThreads, NEW x \in Thread, NEW next \in State, InCallback(x, next)
    PROVE  /\ pc' \in [Thread -> State] /\ call' \in [Thread -> Call]
           /\ sends' \in 0 .. MaxSends
<1> USE ConstantAssumption, States
<1>1. CASE Goto(x, next) /\ UNCHANGED <<call, sends>>
    BY <1>1 DEF Goto, TypeThreads
<1>2. CASE SendFrom(x, next)
  <2>1. Enter(x, "lock", "text", FALSE, next) /\ sends < MaxSends /\ sends' = sends + 1
    BY <1>2 DEF SendFrom
  <2>2. sends' \in 0 .. MaxSends
    BY <2>1 DEF TypeThreads
  <2> QED BY <2>1, <2>2, EnterType
<1>3. CASE Enter(x, "c_flag", "none", TRUE, next) /\ UNCHANGED sends
    BY <1>3, EnterType DEF TypeThreads, CloseSteps
<1> QED BY <1>1, <1>2, <1>3 DEF InCallback

LEMMA ThreadsType ==
    ASSUME TypeOK, [Next]_vars
    PROVE  TypeThreads'
<1> USE States, Threads DEF trace
<1>1. TypeThreads
    BY Types
<1>2. \A x \in Thread : call[x].next \in State
    BY <1>1 DEF TypeThreads, Call
<1>3. CASE UNCHANGED vars
    BY <1>1, <1>3 DEF vars, TypeThreads
<1>4. ASSUME NEW x \in Thread, Lock(x) \/ Write(x) \/ WriteClose(x) PROVE TypeThreads'
  <2>1. CASE Lock(x) \/ Write(x)
    BY <1>1, <1>2, <1>4, <2>1 DEF Lock, Write, Return, Goto, CloseSteps, TypeThreads
  <2>2. CASE WriteClose(x)
    BY <1>1, <1>2, <2>2, EnterType DEF WriteClose, CloseSteps, TypeThreads
  <2> QED BY <1>4, <2>1, <2>2
<1>5. ASSUME NEW x \in Thread, Close(x) PROVE TypeThreads'
  <2>1. CASE CloseFlag(x) \/ CloseWrite(x) \/ CloseConn(x) \/ CloseJoin(x)
    BY <1>1, <1>2, <2>1 DEF CloseFlag, CloseWrite, CloseConn, CloseJoin, Return, Goto,
       CloseSteps, TypeThreads
  <2>2. CASE CloseNotify(x)
    <3>1. notified' \in Seq(State)
      BY <1>1, <1>2, <2>2 DEF CloseNotify, TypeThreads
    <3>2. CASE Return(x) /\ UNCHANGED sends
      BY <1>1, <1>2, <3>1, <3>2 DEF Return, Goto, TypeThreads
    <3>3. CASE SendFrom(x, call[x].next)
      BY <1>1, <1>2, <3>1, <3>3, CallbackType DEF InCallback, TypeThreads
    <3> QED BY <2>2, <3>2, <3>3 DEF CloseNotify
  <2> QED BY <1>5, <2>1, <2>2 DEF Close
<1>6. CASE OnOpen \/ StartListener \/ Destroy \/ DestroyJoin
  <2>1. CASE OnOpen
    BY <1>1, <2>1, CallbackType DEF OnOpen, TypeThreads
  <2>2. CASE StartListener \/ DestroyJoin
    BY <1>1, <2>2 DEF StartListener, DestroyJoin, Goto, TypeThreads
  <2>3. CASE Destroy
    BY <1>1, <2>3 DEF Destroy, CloseSteps, TypeThreads
  <2> QED BY <1>6, <2>1, <2>2, <2>3
<1>7. ASSUME NEW x \in App, Send(x) \/ CloseCall(x) PROVE TypeThreads'
  <2>1. CASE Send(x)
    BY <1>1, <2>1, CallbackType DEF Send, InCallback, TypeThreads
  <2>2. CASE CloseCall(x)
    BY <1>1, <2>2, EnterType DEF CloseCall, CloseSteps, TypeThreads
  <2> QED BY <1>7, <2>1, <2>2
<1>8. CASE \/ ListenTest \/ ReadFails \/ ParseBreak \/ ListenUnlock
           \/ \E new, cut : Read(new, cut)
    BY <1>1, <1>8 DEF ListenTest, ReadFails, ParseBreak, ListenUnlock, Read, Goto, TypeThreads
<1>9. CASE ParseError \/ ParseControl \/ ParseData
  <2>1. CASE ParseError
    BY <1>1, <2>1, EnterType DEF ParseError, TypeThreads
  <2>2. CASE ParseControl
    <3>1. \/ UNCHANGED <<pc, call>>
          \/ Enter(Listener, "lock", "close", FALSE, "ended")
          \/ Enter(Listener, "lock", "pong", FALSE, "parse")
      BY <2>2 DEF ParseControl
    <3>2. pc' \in [Thread -> State] /\ call' \in [Thread -> Call]
      BY <1>1, <3>1, EnterType DEF TypeThreads
    <3> QED BY <1>1, <2>2, <3>2 DEF ParseControl, TypeThreads
  <2>3. CASE ParseData
    BY <1>1, <2>3, CallbackType DEF ParseData, TypeThreads
  <2> QED BY <1>9, <2>1, <2>2, <2>3
<1> QED BY <1>3, <1>4, <1>5, <1>6, <1>7, <1>8, <1>9 DEF Next, Step

\* Only listen() touches the buffers of the receiver.
LEMMA RxFrame ==
    ASSUME [Next]_vars,
           ~ParseControl, ~ParseData,
           ~\E new \in BoundedSeq(PeerFrame, MaxFrames), cut \in {0, 1} : Read(new, cut)
    PROVE  UNCHANGED <<rx, delivered>>
BY DEF Next, Step, Lock, Write, WriteClose, Close, CloseFlag, CloseWrite, CloseConn,
       CloseJoin, CloseNotify, OnOpen, StartListener, DestroyJoin, ListenTest, ParseBreak,
       ParseError, ListenUnlock, ReadFails, Send, CloseCall, Destroy, trace, rx, vars

LEMMA ReadFacts ==
    ASSUME TypeRx, NEW new \in BoundedSeq(PeerFrame, MaxFrames), NEW cut \in {0, 1},
           Read(new, cut)
    PROVE  /\ stream' \in Seq(PeerFrame) /\ Len(stream') >= Len(stream)
           /\ \A i \in 1 .. Len(stream) : stream'[i] = stream[i]
           /\ got' \in 0 .. 2 * Len(stream')
           /\ UNCHANGED <<parsed, continued, message, delivered>>
<1>1. new \in Seq(PeerFrame)
    BY ConstantAssumption DEF BoundedSeq, SeqOf
<1>2. stream' = stream \o new /\ got' = 2 * Len(stream') - cut /\ got' > got
    BY DEF Read
<1>3. /\ stream' \in Seq(PeerFrame) /\ Len(stream') = Len(stream) + Len(new)
      /\ \A i \in 1 .. Len(stream) : stream'[i] = stream[i]
    BY <1>1, <1>2 DEF TypeRx
<1> QED BY <1>1, <1>2, <1>3 DEF Read, trace, TypeRx

LEMMA RxType ==
    ASSUME TypeOK, [Next]_vars
    PROVE  TypeRx'
<1>1. TypeRx
    BY Types
<1>2. ASSUME NEW new \in BoundedSeq(PeerFrame, MaxFrames), NEW cut \in {0, 1},
             Read(new, cut)
      PROVE  TypeRx'
    BY <1>1, <1>2, ReadFacts DEF TypeRx
<1>3. CASE ParseControl \/ ParseData
  <2>1. /\ UNCHANGED <<stream, got>> /\ parsed' = parsed + 1 /\ parsed + 1 <= Len(stream)
    <3>1. UNCHANGED <<stream, got>> /\ parsed' = parsed + 1 /\ got >= 2 * parsed + 2
      BY <1>3 DEF ParseControl, ParseData, Parsing, FrameThere
    <3>2. \A g, n, l \in Nat : g >= 2 * n + 2 /\ g <= 2 * l => n + 1 <= l
      OBVIOUS
    <3> QED BY <1>1, <3>1, <3>2 DEF TypeRx
  <2>2. continued' \in BOOLEAN
    BY <1>1, <1>3, Zenon DEF ParseControl, ParseData, TypeRx
  <2>3. message' \in Seq(Nat) /\ delivered' \in Seq(Seq(Nat))
    <3> DEFINE whole == Append(message, parsed + 1)
    <3>1. whole \in Seq(Nat)
      BY <1>1 DEF TypeRx
    <3>2. \/ UNCHANGED <<message, delivered>>
          \/ message' = whole /\ delivered' = delivered
          \/ message' = << >> /\ delivered' = Append(delivered, whole)
      BY <1>3 DEF ParseControl, ParseData, trace
    <3> HIDE DEF whole
    <3>3. << >> \in Seq(Nat) /\ Append(delivered, whole) \in Seq(Seq(Nat))
      BY <1>1, <3>1, AppendFacts DEF TypeRx
    <3> QED BY <1>1, <3>1, <3>2, <3>3 DEF TypeRx
  <2> QED BY <1>1, <2>1, <2>2, <2>3 DEF TypeRx
<1>4. CASE UNCHANGED <<rx, delivered>>
    BY <1>1, <1>4 DEF rx, TypeRx
<1> QED BY <1>2, <1>3, <1>4, RxFrame

-----------------------------------------------------------------------------
IInv == TypeOK /\ Control /\ MessageInv

LEMMA InitIInv == Init => IInv
<1> SUFFICES ASSUME Init PROVE IInv
    OBVIOUS
<1>1. TypeObject
    BY Zenon DEF Init, TypeObject
<1>2. TypeThreads
    BY States, ConstantAssumption DEF Init, TypeThreads
<1>3. TypeRx
  <2>1. continued \in BOOLEAN
    BY Zenon DEF Init
  <2> QED BY <2>1 DEF Init, TypeRx
<1> QED BY <1>1, <1>2, <1>3, Types, InitControl, InitMessages DEF IInv

LEMMA NextIInv == IInv /\ [Next]_vars => IInv'
<1> SUFFICES ASSUME IInv, [Next]_vars PROVE IInv'
    OBVIOUS
<1>1. TypeOK'
  <2>1. TypeOK' <=> TypeObject' /\ TypeThreads' /\ TypeRx'
    BY DEF TypeOK, TypeObject, TypeThreads, TypeRx
  <2> QED BY <2>1, ObjectType, ThreadsType, RxType DEF IInv
<1>2. Control'
    BY NextControl DEF IInv
<1>3. MessageInv'
  <2>1. CASE ParseControl \/ ParseData
    BY <2>1, ControlMessages, DataMessages DEF IInv
  <2>2. ASSUME NEW new \in BoundedSeq(PeerFrame, MaxFrames), NEW cut \in {0, 1},
               Read(new, cut)
        PROVE  MessageInv'
    <3>1. TypeRx
      BY Types DEF IInv
    <3>2. \A i \in 1 .. parsed : i \in 1 .. Len(stream)
      BY <3>1 DEF TypeRx
    <3> QED BY <2>2, <3>1, <3>2, ReadFacts, SameMessages DEF IInv
  <2>3. CASE UNCHANGED <<rx, delivered>>
    BY <2>3, SameMessages DEF rx, IInv
  <2> QED BY <2>1, <2>2, <2>3, RxFrame
<1> QED BY <1>1, <1>2, <1>3 DEF IInv

LEMMA Invariance == Spec => []IInv
BY InitIInv, NextIInv, PTL DEF Spec

-----------------------------------------------------------------------------
\* Every state of the connection is well typed: in particular the listener has
\* parsed no more frames than the peer has sent.
THEOREM TypeCorrect == Spec => []TypeOK
<1>1. IInv => TypeOK
    BY DEF IInv
<1> QED BY <1>1, Invariance, PTL

\* onClose runs at most once, for any number of threads that call close().
THEOREM CloseReportedOnce == Spec => []OnCloseOnce
<1>1. IInv => OnCloseOnce
  <2> SUFFICES ASSUME IInv PROVE Len(notified) <= 1
    BY DEF OnCloseOnce
  <2>1. CASE notified = << >>
    BY <2>1
  <2>2. CASE notified # << >>
    <3>1. Len(notified) = 1
      BY <2>2, Zenon DEF IInv, Control, FlagInv
    <3> QED BY <3>1
  <2> QED BY <2>1, <2>2
<1> QED BY <1>1, Invariance, PTL

\* The destructor returns only after the listener has ended.
THEOREM ListenerJoined == Spec => []ListenerEndsFirst
<1>1. IInv => ListenerEndsFirst
    BY DEF IInv, Control, JoinInv, ListenerEndsFirst
<1> QED BY <1>1, Invariance, PTL

\* The socket is closed only after a CLOSE frame, by whichever thread.
THEOREM CloseIsSaid == Spec => []NoSilentClose
<1>1. IInv => NoSilentClose
    BY DEF IInv, Control, SentInv, NoSilentClose
<1> QED BY <1>1, Invariance, PTL

\* onMessage gets exactly the messages of the peer, for any sequence of
\* frames, any fragmentation and any cuts of the stream.
THEOREM MessagesArriveAsSent == Spec => []MessagesAsSent
<1>1. IInv => MessagesAsSent
    BY DEF IInv, MessageInv
<1> QED BY <1>1, Invariance, PTL

\* After onClose there is no onMessage, unless a message callback closed the
\* connection itself.
THEOREM NoMessageAfterClose == Spec => SilentAfterOnClose
<1> DEFINE A == delivered' # delivered => notified \in {<< >>, <<"parse">>}
<1>1. IInv /\ [Next]_vars => [A]_vars
  <2> SUFFICES ASSUME IInv, [Next]_vars, delivered' # delivered
               PROVE  notified \in {<< >>, <<"parse">>}
    OBVIOUS
  <2>1. ParseData
    BY RxFrame DEF ParseControl, Read, trace
  <2>2. pc[Listener] = "parse"
    BY <2>1 DEF ParseData, Parsing
  <2>3. ~ListenerDone
    BY <2>2 DEF ListenerDone, InCall, CloseSteps
  <2> QED BY <2>3 DEF IInv, Control, QuietInv
<1> QED BY <1>1, Invariance, PTL DEF Spec, SilentAfterOnClose
=============================================================================
