-------------------------------- MODULE Modbus --------------------------------
(***************************************************************************)
(* Requests and responses of ModbusClient, ModbusServer and               *)
(* HoldingRegister (modbus/).  Every client calls its ModbusClient from    *)
(* one thread; the server has one thread per connection and the            *)
(* application's, which writes registers and stops the server.  How the    *)
(* server's threads are started and joined is in ModbusServer.             *)
(*                                                                         *)
(* Frames are sequences of bytes: a client reads a response with one       *)
(* read(), which returns whatever part of it has arrived, and a client     *)
(* that dies may have sent a part of a request.  The lock of               *)
(* HoldingRegister is held for one register at a time by the server's      *)
(* threads, and for a whole value by the application.                      *)
(***************************************************************************)
EXTENDS Integers, Sequences

CONSTANTS
    Client,
    Size,          \* number of registers
    Op,            \* the calls that each client makes
    Value32,       \* values written by the application, as pairs of words
    Unit,
    MaxCalls,      \* bound: calls of each client
    Cut,           \* bound: sizes of the parts in which frames are cut
    MaxSets        \* bound: writes of the application

Byte == 0 .. 255
Word == 0 .. 2^16 - 1

\* A call, with its words.  The client does not look at their number: from
\* 32765 on the length of the request would not fit into its header.
IsCall(op) ==
    /\ op.code \in {3, 6, 16}
    /\ op.address \in Word /\ op.count \in Word \ {0}
    /\ op.values \in Seq(Word)
    /\ Len(op.values) = IF op.code = 3 THEN 0 ELSE op.count
    /\ op.code = 6 => op.count = 1
    /\ op.code = 16 => op.count <= 32764

ASSUME ConstantAssumption ==
    /\ Size \in 2 .. 2^16 - 1
    /\ \A c \in Client : Op[c] # {} /\ \A op \in Op[c] : IsCall(op)
    /\ Value32 \subseteq Word \X Word
    /\ Cut \subseteq Nat
    /\ Unit \in Byte
    /\ MaxCalls \in [Client -> Nat] /\ MaxSets \in Nat

VARIABLES
    registers_,
    \* A client.
    client,        \* "idle", "wait", "dead", or "cut": dead while sending
    call,          \* the call it is in, or the last one
    result,        \* what that returned
    ids,           \* transactions so far: next_transaction_id_ - 1
    \* A connection.
    toServer, toClient,
    \* The server's thread for a connection.
    thread,        \* what it does next
    request, response,
    index,         \* i of its loop over registers
    stop_,
    sets,
    \* Auxiliary.
    clean,         \* had all earlier responses been read when the call began?
    seen,          \* the values every register had during the call
    asked          \* the values written by somebody, for every register

clientVars == <<client, call, result, ids, clean>>
threadVars == <<thread, request, response, index>>
regVars    == <<registers_, seen, asked, sets>>
vars == <<registers_, client, call, result, ids, toServer, toClient, thread, request,
          response, index, stop_, sets, clean, seen, asked>>

Address == 0 .. Size - 1

-----------------------------------------------------------------------------
(* Frames                                                                  *)

\* Words to bytes, the high one first, and back.
Bytes(w) == [i \in 1 .. 2 * Len(w) |->
                IF i % 2 = 1 THEN (w[(i + 1) \div 2] \div 256) % 256 ELSE w[i \div 2] % 256]

Words(b) == [i \in 1 .. Len(b) \div 2 |-> 256 * b[2 * i - 1] + b[2 * i]]

WordAt(b, i) == Words(SubSeq(b, i, i + 1))[1]

\* The data of a call of read_holding_registers (3), write_single_register
\* (6) or write_multiple_registers (16).
Data(op) ==
    CASE op.code = 3  -> Bytes(<<op.address, op.count>>)
      [] op.code = 6  -> Bytes(<<op.address, op.values[1]>>)
      [] op.code = 16 -> Bytes(<<op.address, op.count>>) \o <<(2 * op.count) % 256>>
                             \o Bytes(op.values)

makeRequest(id, op) ==
    Bytes(<<id % 2^16, 0, Len(Data(op)) + 2>>) \o <<Unit, op.code>> \o Data(op)

\* parse_registers_response and validate_write_response: an exception or
\* false, registers, or true.
Failed  == [ok |-> FALSE, words |-> << >>]
Good(w) == [ok |-> TRUE, words |-> w]

parse(op, buffer) ==
    CASE op.code = 3 /\ Len(buffer) >= 9 + 2 * op.count /\ buffer[9] = 2 * op.count ->
            Good(Words(SubSeq(buffer, 10, 9 + 2 * op.count)))
      [] /\ op.code # 3 /\ Len(buffer) >= 12
         /\ WordAt(buffer, 9) = op.address
         /\ WordAt(buffer, 11) = (IF op.code = 6 THEN op.values[1] ELSE op.count) ->
            Good(<< >>)
      [] OTHER -> Failed

\* Fields of a request.
functionCode(r) == r[8]
startAddress(r) == WordAt(r, 9)
quantity(r)     == WordAt(r, 11)

\* byteCount == quantity * 2.  Old bytes in a request that was cut can make
\* it one that goes on behind the end of the vector; what is read there may
\* be any byte.
countMatches(r) ==
    {byteCount = 2 * quantity(r) : byteCount \in IF Len(r) >= 13 THEN {r[13]} ELSE Byte}

Single(r) == functionCode(r) = 6

\* Mutant: the data are taken to begin one byte early.
WordsToWriteEarly(r, i) ==
    IF Single(r) THEN {quantity(r)} ELSE {WordAt(r, 13 + 2 * i)}

\* The word for register i of a write request, counted from 0: the one at its
\* place, or any word where the vector has ended.
WordsToWrite(r, i) ==
    LET k == IF Single(r) THEN 11 ELSE 14 + 2 * i IN
    IF k < Len(r) THEN {WordAt(r, k)} ELSE Word

\* sendException: three bytes without the MBAP header.
Exception(device, code, exception) ==
    <<device, IF code < 128 THEN code + 128 ELSE code, exception>>

\* What was in the vector stays when it is resized.
Resize(v, n) == [i \in 1 .. n |-> IF i <= Len(v) THEN v[i] ELSE 0]

-----------------------------------------------------------------------------
Init ==
    /\ registers_ = [a \in Address |-> 0]
    /\ client = [c \in Client |-> "idle"]
    /\ call = [c \in Client |-> CHOOSE op \in Op[c] : TRUE]
    /\ result = [c \in Client |-> Failed]
    /\ ids = [c \in Client |-> 0]
    /\ toServer = [c \in Client |-> << >>] /\ toClient = [c \in Client |-> << >>]
    /\ thread = [c \in Client |-> "test"]
    /\ request = [c \in Client |-> << >>] /\ response = [c \in Client |-> << >>]
    /\ index = [c \in Client |-> 0]
    /\ stop_ = FALSE /\ sets = 0
    /\ clean = [c \in Client |-> TRUE]
    /\ seen = [c \in Client |-> [a \in Address |-> {}]]
    /\ asked = [a \in Address |-> {0}]

\* A write to some registers, each under its own lock or all under one.
Store(new) ==
    /\ registers_' = new
    /\ seen' = [c \in Client |-> [a \in Address |->
                  IF client[c] = "wait" THEN seen[c][a] \cup {new[a]} ELSE seen[c][a]]]

-----------------------------------------------------------------------------
(* The clients                                                             *)

Gone(c) == client[c] \in {"dead", "cut"}

\* The server has handled all requests of c and c has read all its answers.
Settled(c) ==
    /\ toServer[c] = << >> /\ toClient[c] = << >>
    /\ thread[c] \in {"test", "read", "ended"}

Wanted(op, a) ==
    IF op.code # 3 /\ a \in op.address .. op.address + op.count - 1
    THEN {op.values[a - op.address + 1]} ELSE {}

\* A call writes its request.
Send(c, op) ==
    /\ client[c] = "idle"
    /\ ids[c] < MaxCalls[c]
    /\ ids' = [ids EXCEPT ![c] = @ + 1]
    /\ toServer' = [toServer EXCEPT ![c] = @ \o makeRequest(ids'[c], op)]
    /\ client' = [client EXCEPT ![c] = "wait"]
    /\ call' = [call EXCEPT ![c] = op]
    /\ result' = [result EXCEPT ![c] = Failed]
    /\ clean' = [clean EXCEPT ![c] = Settled(c)]
    /\ seen' = [seen EXCEPT ![c] = [a \in Address |-> {registers_[a]}]]
    /\ asked' = [a \in Address |-> asked[a] \cup Wanted(op, a)]
    /\ UNCHANGED <<toClient, threadVars, stop_, registers_, sets>>

\* The process dies when n bytes of the request have been sent.
SendCut(c, op, n) ==
    LET frame == makeRequest(ids[c] + 1, op) IN
    /\ client[c] = "idle"
    /\ ids[c] < MaxCalls[c]
    /\ n < Len(frame)
    /\ toServer' = [toServer EXCEPT ![c] = @ \o SubSeq(frame, 1, n)]
    /\ client' = [client EXCEPT ![c] = "cut"]
    /\ result' = [result EXCEPT ![c] = Failed]
    /\ UNCHANGED <<call, ids, clean, toClient, threadVars, stop_, regVars>>

\* receive_response: one read into a buffer of 255 bytes
Receive(c, n) ==
    /\ client[c] = "wait"
    /\ n \in 1 .. Len(toClient[c]) /\ n <= 255
    /\ result' = [result EXCEPT ![c] = parse(call[c], SubSeq(toClient[c], 1, n))]
    /\ toClient' = [toClient EXCEPT ![c] = SubSeq(@, n + 1, Len(@))]
    /\ client' = [client EXCEPT ![c] = "idle"]
    /\ UNCHANGED <<call, ids, clean, toServer, threadVars, stop_, regVars>>

\* The server's thread has ended and closed the connection.
ReceiveFails(c) ==
    /\ client[c] = "wait"
    /\ toClient[c] = << >>
    /\ thread[c] = "ended"
    /\ result' = [result EXCEPT ![c] = Failed]
    /\ client' = [client EXCEPT ![c] = "idle"]
    /\ UNCHANGED <<call, ids, clean, toServer, toClient, threadVars, stop_, regVars>>

\* ~ModbusClient
Hangup(c) ==
    /\ client[c] = "idle"
    /\ client' = [client EXCEPT ![c] = "dead"]
    /\ result' = [result EXCEPT ![c] = Failed]
    /\ UNCHANGED <<call, ids, clean, toServer, toClient, threadVars, stop_,
                   regVars>>

-----------------------------------------------------------------------------
(* clientThread                                                            *)

LoopTest(c) ==
    /\ thread[c] = "test"
    /\ thread' = [thread EXCEPT ![c] = IF stop_ THEN "ended" ELSE "read"]
    /\ UNCHANGED <<request, response, index, clientVars, toServer, toClient, stop_,
                   regVars>>

Enter(c, where, frame) ==
    /\ thread' = [thread EXCEPT ![c] = where]
    /\ response' = [response EXCEPT ![c] = frame]

\* processRequest up to its loops over registers: where it goes on and the
\* response as far as it is known then
processRequest(c, r, matches) ==
    LET code == functionCode(r) IN
    CASE code = 3 /\ startAddress(r) + quantity(r) <= Size ->
            Enter(c, "get", SubSeq(r, 1, 4) \o Bytes(<<(3 + 2 * quantity(r)) % 2^16>>)
                               \o <<r[7], code, (2 * quantity(r)) % 256>>)
      [] code = 6 /\ startAddress(r) < Size ->
            Enter(c, "set", r)
      [] /\ code = 16 /\ startAddress(r) + quantity(r) <= Size
         /\ matches ->
            Enter(c, "set", SubSeq(r, 1, 6) \o <<r[8], code>> \o SubSeq(r, 9, 12))
      [] code \notin {3, 6, 16} ->
            Enter(c, "write", Exception(r[1], code, 1))
      [] OTHER ->
            Enter(c, "write", Exception(r[7], code, 2))

\* Both readExact: the result of the second one is not looked at, and what
\* it could not read is what the vector held before.
ReadRequest(c) ==
    LET in     == toServer[c]
        length == WordAt(in, 5)
        got    == IF Len(in) >= 6 + length THEN length ELSE Len(in) - 6
        old    == Resize(request[c], length)
        r      == SubSeq(in, 1, 6 + got) \o SubSeq(old, got + 1, length) IN
    /\ thread[c] = "read"
    /\ Len(in) >= 6
    /\ Len(in) >= 6 + length \/ Gone(c)
    /\ request' = [request EXCEPT ![c] = r]
    /\ toServer' = [toServer EXCEPT ![c] = SubSeq(@, 7 + got, Len(@))]
    /\ \E matches \in countMatches(r) : processRequest(c, r, matches)
    /\ UNCHANGED <<index, clientVars, toClient, stop_, regVars>>

ReadFails(c) ==
    /\ thread[c] = "read"
    /\ Gone(c) /\ Len(toServer[c]) < 6
    /\ thread' = [thread EXCEPT ![c] = "ended"]
    /\ UNCHANGED <<request, response, index, clientVars, toServer, toClient, stop_,
                   regVars>>

\* reg.getUint16
GetRegister(c) ==
    LET a == startAddress(request[c]) + index[c] IN
    /\ thread[c] = "get"
    /\ index[c] < quantity(request[c])
    /\ response' = [response EXCEPT ![c] = @ \o Bytes(<<registers_[a]>>)]
    /\ index' = [index EXCEPT ![c] = @ + 1]
    /\ UNCHANGED <<thread, request, clientVars, toServer, toClient, stop_, regVars>>

\* reg.setUint16
SetRegister(c) ==
    LET r == request[c]
        a == startAddress(r) + index[c] IN
    /\ thread[c] = "set"
    /\ index[c] < IF Single(r) THEN 1 ELSE quantity(r)
    /\ \E w \in WordsToWrite(r, index[c]) : Store([registers_ EXCEPT ![a] = w])
    /\ index' = [index EXCEPT ![c] = @ + 1]
    /\ UNCHANGED <<thread, request, response, clientVars, toServer, toClient, stop_,
                   asked, sets>>

LoopDone(c) ==
    LET r == request[c] IN
    \/ thread[c] = "write"
    \/ thread[c] = "get" /\ index[c] = quantity(r)
    \/ thread[c] = "set" /\ index[c] = IF Single(r) THEN 1 ELSE quantity(r)

\* Mutant: the answer is written before the registers.
RespondEarly(c) ==
    /\ thread[c] \in {"get", "set", "write"}
    /\ toClient' = [toClient EXCEPT ![c] = @ \o response[c]]
    /\ thread' = [thread EXCEPT ![c] = "test"]
    /\ response' = [response EXCEPT ![c] = << >>]
    /\ index' = [index EXCEPT ![c] = 0]
    /\ UNCHANGED <<request, clientVars, toServer, stop_, regVars>>

\* conn.write(response); its result is not looked at
Respond(c) ==
    /\ LoopDone(c)
    /\ toClient' = [toClient EXCEPT ![c] = IF Gone(c) THEN << >>
                                            ELSE @ \o response[c]]
    /\ thread' = [thread EXCEPT ![c] = "test"]
    /\ response' = [response EXCEPT ![c] = << >>]
    /\ index' = [index EXCEPT ![c] = 0]
    /\ UNCHANGED <<request, clientVars, toServer, stop_, regVars>>

-----------------------------------------------------------------------------
(* The application                                                         *)

\* HoldingRegister::setUint32, of the registers 0 and 1
SetUint32(v) ==
    /\ sets < MaxSets
    /\ sets' = sets + 1
    /\ Store([registers_ EXCEPT ![0] = v[1], ![1] = v[2]])
    /\ asked' = [asked EXCEPT ![0] = @ \cup {v[1]}, ![1] = @ \cup {v[2]}]
    /\ UNCHANGED <<clientVars, toServer, toClient, threadVars, stop_>>

Stop ==
    /\ ~stop_
    /\ stop_' = TRUE
    /\ UNCHANGED <<clientVars, toServer, toClient, threadVars, regVars>>

-----------------------------------------------------------------------------
Thread(c) == \/ LoopTest(c) \/ ReadRequest(c) \/ ReadFails(c)
             \/ GetRegister(c) \/ SetRegister(c) \/ Respond(c)

Next ==
    \/ Stop
    \/ \E v \in Value32 : SetUint32(v)
    \/ \E c \in Client :
          \/ Thread(c) \/ Hangup(c) \/ ReceiveFails(c)
          \/ \E op \in Op[c] : Send(c, op) \/ \E n \in Cut : SendCut(c, op, n)
          \/ \E n \in Cut \cup {Len(toClient[c])} : Receive(c, n)

Spec == Init /\ [][Next]_vars

-----------------------------------------------------------------------------
(* Properties                                                              *)

\* A call that returns a value tells the truth: every register it read had
\* the returned value at some moment of the call, and what it wrote was in
\* the registers.  That holds however the response was cut on its way (the
\* call fails then), as long as the responses to earlier calls have been
\* read to their ends: nothing tells the rest of one from a response.
AnswersAreTrue ==
    \A c \in Client :
        LET op == call[c] IN
        (client[c] = "idle" /\ clean[c] /\ result[c].ok) =>
            \A i \in 1 .. op.count :
                (IF op.code = 3 THEN result[c].words[i] ELSE op.values[i])
                    \in seen[c][op.address + i - 1]

\* A register gets only values that somebody wrote to it, with one exception:
\* the request of a client that died while it was sending.
RegistersHoldWrites ==
    (\A a \in Address : registers_[a] \in asked[a])
        \/ \E c \in Client : client[c] = "cut"

\* The loop of clientThread exits when a read fails: the registers get only
\* values of requests that were received as a whole.
WholeRequestsOnly == \A a \in Address : registers_[a] \in asked[a]
=============================================================================
