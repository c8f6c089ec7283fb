----------------------- MODULE SharedMemoryConnection -----------------------
(***************************************************************************)
(* SharedMemoryConnection (SharedMemoryConnection.cpp): two processes      *)
(* exchange messages through a shared memory segment that holds one        *)
(* BufferControl per direction.  Endpoint "A" is the process constructed   *)
(* with isServer = true, endpoint "B" the other; each endpoint writes into *)
(* its own buffer (myBuffer_) and reads from the other's (peerBuffer_).    *)
(* Access to the buffer of direction d is handed over by two named         *)
(* semaphores, wSem[d] (initially 1: the buffer may be written) and        *)
(* rSem[d] (initially 0: the buffer may be read).                          *)
(*                                                                         *)
(* read() and write() may be called by several threads of a process at     *)
(* once; each call is a sequence of steps, one per access to a semaphore   *)
(* or to the shared memory.  A process may die between any two steps and   *)
(* be started again: nothing unlinks the names then, so the segment and    *)
(* the semaphores keep what they held.                                     *)
(*                                                                         *)
(* Not in this module: close() of the server, which unlinks the names.     *)
(***************************************************************************)
EXTENDS Naturals, Sequences, FiniteSets

CONSTANTS
    ServerThread,   \* the threads of the process with isServer = true
    ClientThread,   \* the threads of the other process
    Payload,        \* what messages may contain
    NoPayload,      \* the contents of memory nothing was written to
    BufferSize,     \* bufferSize_: the largest message
    MaxCalls,       \* bound: calls of read() and write()
    MaxCrashes      \* bound: crashes that are not due to the code itself

ASSUME ConstantAssumption ==
    /\ ServerThread \cap ClientThread = {}
    /\ NoPayload \notin Payload
    /\ BufferSize \in Nat \ {0}
    /\ MaxCalls \in Nat
    /\ MaxCrashes \in Nat

Thread   == ServerThread \cup ClientThread
Endpoint == {"A", "B"}

BufferControl == [size : 0 .. BufferSize, data : Payload \cup {NoPayload}]

\* Contents of a message; the zero-filled memory of a new segment is none.
Message   == [size : 1 .. BufferSize, data : Payload]
NoMessage == [size |-> 0, data |-> NoPayload]

\* What callers of write() ask for: also nothing, and one byte too much.
Request == [size : 0 .. BufferSize + 1, data : Payload]

Side(t) == IF t \in ServerThread THEN "A" ELSE "B"
Peer(e) == IF e = "A" THEN "B" ELSE "A"
ThreadsOf(e) == {t \in Thread : Side(t) = e}

VARIABLES
    shm,        \* does the named segment exist?
    conn,       \* conn[e]: "absent", "mapped", or "null" (shm_ is nullptr)
    wSem, rSem, \* the semaphores of the direction written by endpoint e
    buffer,     \* buffer[e]: the BufferControl written by endpoint e
    pc,         \* what thread t does next
    local,      \* local[t]: the message of a write(), the result of a read()
    cap,        \* cap[t]: the argument size of a read()
    \* Auxiliary: they record, and no guard depends on them.
    inflight,   \* inflight[d]: the message handed over and not yet settled
    delivered,  \* delivered[d]: what read() returned, in order
    \* Counters of the bounded exploration.
    calls, crashes

kernel == <<shm, conn>>
aux    == <<inflight, delivered>>
bounds == <<calls, crashes>>
vars   == <<shm, conn, wSem, rSem, buffer, pc, local, cap, inflight,
            delivered, calls, crashes>>

WriteSteps == {"w_wait", "w_size", "w_data", "w_post"}
ReadSteps  == {"r_wait", "r_size", "r_skip", "r_copy", "r_clear", "r_post"}

\* The direction whose buffer thread t works on at a step of a call.
DirAt(t, step) == IF step \in WriteSteps THEN Side(t) ELSE Peer(Side(t))
Dir(t) == DirAt(t, pc[t])

TypeOK ==
    /\ shm \in BOOLEAN
    /\ conn \in [Endpoint -> {"absent", "mapped", "null"}]
    /\ wSem \in [Endpoint -> Nat]
    /\ rSem \in [Endpoint -> Nat]
    /\ buffer \in [Endpoint -> BufferControl]
    /\ pc \in [Thread -> {"idle"} \cup WriteSteps \cup ReadSteps]
    /\ local \in [Thread -> BufferControl]
    /\ cap \in [Thread -> 0 .. BufferSize]
    /\ inflight \in [Endpoint -> Message \cup {NoMessage}]
    /\ delivered \in [Endpoint -> Seq(Message)]
    /\ calls \in 0 .. MaxCalls
    /\ crashes \in 0 .. MaxCrashes

-----------------------------------------------------------------------------
(* sem_open with O_CREAT gives a semaphore its initial value when the name *)
(* is new and leaves an existing one alone.  Whichever process comes first *)
(* creates all four, and no step of this module unlinks them: the initial  *)
(* values are those of the initial state.                                  *)

Init ==
    /\ shm = FALSE
    /\ conn = [e \in Endpoint |-> "absent"]
    /\ wSem = [e \in Endpoint |-> 1]
    /\ rSem = [e \in Endpoint |-> 0]
    /\ buffer = [e \in Endpoint |-> NoMessage]
    /\ pc = [t \in Thread |-> "idle"]
    /\ local = [t \in Thread |-> NoMessage]
    /\ cap = [t \in Thread |-> 0]
    /\ inflight = [e \in Endpoint |-> NoMessage]
    /\ delivered = [e \in Endpoint |-> << >>]
    /\ calls = 0
    /\ crashes = 0

\* Impl::Impl.  The server creates the segment if need be and keeps its
\* contents otherwise; the client only opens it, and goes on with shm_ =
\* nullptr when there is none.
Construct(e) ==
    /\ conn[e] = "absent"
    /\ shm' = (shm \/ e = "A")
    /\ conn' = [conn EXCEPT ![e] = IF shm' THEN "mapped" ELSE "null"]
    /\ UNCHANGED <<wSem, rSem, buffer, pc, local, cap, aux, bounds>>

\* close() of the client: it unmaps the segment and closes its semaphores,
\* and unlinks nothing.  The caller has no read() or write() in progress.
CloseClient ==
    /\ conn["B"] # "absent"
    /\ \A t \in ClientThread : pc[t] = "idle"
    /\ conn' = [conn EXCEPT !["B"] = "absent"]
    /\ UNCHANGED <<shm, wSem, rSem, buffer, pc, local, cap, aux, bounds>>

-----------------------------------------------------------------------------
(* write()                                                                 *)

Goto(t, next) == pc' = [pc EXCEPT ![t] = next]

Return(t) == /\ Goto(t, "idle")
             /\ local' = [local EXCEPT ![t] = NoMessage]
             /\ cap' = [cap EXCEPT ![t] = 0]

\* Mutant: write() without the test of size against bufferSize_.
WriteCallAnySize(t, m) ==
    /\ conn[Side(t)] # "absent"
    /\ pc[t] = "idle"
    /\ calls < MaxCalls
    /\ calls' = calls + 1
    /\ Goto(t, "w_wait")
    /\ local' = [local EXCEPT ![t] = m]
    /\ UNCHANGED <<kernel, wSem, rSem, buffer, cap, aux, crashes>>

\* A message that is empty or larger than the buffer is refused before the
\* first step: write() returns false and nothing changes.
WriteCall(t, m) ==
    /\ conn[Side(t)] # "absent"
    /\ pc[t] = "idle"
    /\ m.size # 0 /\ m.size <= BufferSize
    /\ calls < MaxCalls
    /\ calls' = calls + 1
    /\ Goto(t, "w_wait")
    /\ local' = [local EXCEPT ![t] = m]
    /\ UNCHANGED <<kernel, wSem, rSem, buffer, cap, aux, crashes>>

\* Mutant: write() does not wait for the reader.
WriteWaitNot(t) ==
    /\ pc[t] = "w_wait"
    /\ Goto(t, "w_size")
    /\ UNCHANGED <<kernel, wSem, rSem, buffer, local, cap, aux, bounds>>

\* sem_wait(myWriteSem_)
WriteWait(t) ==
    /\ pc[t] = "w_wait"
    /\ wSem[Side(t)] > 0
    /\ wSem' = [wSem EXCEPT ![Side(t)] = @ - 1]
    /\ Goto(t, "w_size")
    /\ UNCHANGED <<kernel, rSem, buffer, local, cap, aux, bounds>>

WriteSize(t) ==
    /\ pc[t] = "w_size"
    /\ conn[Side(t)] = "mapped"
    /\ buffer' = [buffer EXCEPT ![Side(t)].size = local[t].size]
    /\ Goto(t, "w_data")
    /\ UNCHANGED <<kernel, wSem, rSem, local, cap, aux, bounds>>

WriteData(t) ==
    /\ pc[t] = "w_data"
    /\ buffer' = [buffer EXCEPT ![Side(t)].data = local[t].data]
    /\ Goto(t, "w_post")
    /\ UNCHANGED <<kernel, wSem, rSem, local, cap, aux, bounds>>

\* Mutant: write() posts its own semaphore.
WritePostWrong(t) ==
    /\ pc[t] = "w_post"
    /\ wSem' = [wSem EXCEPT ![Side(t)] = @ + 1]
    /\ inflight' = [inflight EXCEPT ![Side(t)] = local[t]]
    /\ Return(t)
    /\ UNCHANGED <<kernel, rSem, buffer, delivered, bounds>>

\* sem_post(myReadSem_); return true
WritePost(t) ==
    /\ pc[t] = "w_post"
    /\ rSem' = [rSem EXCEPT ![Side(t)] = @ + 1]
    /\ inflight' = [inflight EXCEPT ![Side(t)] = local[t]]
    /\ Return(t)
    /\ UNCHANGED <<kernel, wSem, buffer, delivered, bounds>>

-----------------------------------------------------------------------------
(* read(); the caller's buffer holds n bytes, and n = 0 is refused         *)

ReadCall(t, n) ==
    /\ conn[Side(t)] # "absent"
    /\ pc[t] = "idle"
    /\ n # 0
    /\ calls < MaxCalls
    /\ calls' = calls + 1
    /\ Goto(t, "r_wait")
    /\ cap' = [cap EXCEPT ![t] = n]
    /\ UNCHANGED <<kernel, wSem, rSem, buffer, local, aux, crashes>>

\* Mutant: read() looks at the semaphore and leaves it as it is.
ReadWaitPeek(t) ==
    /\ pc[t] = "r_wait"
    /\ rSem[Dir(t)] > 0
    /\ Goto(t, "r_size")
    /\ UNCHANGED <<kernel, wSem, rSem, buffer, local, cap, aux, bounds>>

\* sem_wait(peerReadSem_)
ReadWait(t) ==
    /\ pc[t] = "r_wait"
    /\ rSem[Dir(t)] > 0
    /\ rSem' = [rSem EXCEPT ![Dir(t)] = @ - 1]
    /\ Goto(t, "r_size")
    /\ UNCHANGED <<kernel, wSem, buffer, local, cap, aux, bounds>>

\* dataSize = peerBuffer_->size, and the test against the caller's buffer
ReadSize(t) ==
    /\ pc[t] = "r_size"
    /\ conn[Side(t)] = "mapped"
    /\ local' = [local EXCEPT ![t].size = buffer[Dir(t)].size]
    /\ Goto(t, IF buffer[Dir(t)].size > cap[t] THEN "r_skip" ELSE "r_copy")
    /\ UNCHANGED <<kernel, wSem, rSem, buffer, cap, aux, bounds>>

\* Mutant: the early return forgets sem_post.
ReadSkipSilently(t) ==
    /\ pc[t] = "r_skip"
    /\ inflight' = [inflight EXCEPT ![Dir(t)] = NoMessage]
    /\ Return(t)
    /\ UNCHANGED <<kernel, wSem, rSem, buffer, delivered, bounds>>

\* Mutant: the path of a message that does not fit has no return.
ReadSkipGoesOn(t) ==
    /\ pc[t] = "r_skip"
    /\ wSem' = [wSem EXCEPT ![Dir(t)] = @ + 1]
    /\ Goto(t, "r_copy")
    /\ UNCHANGED <<kernel, rSem, buffer, local, cap, aux, bounds>>

\* The message does not fit: sem_post(peerWriteSem_); return -1
ReadSkip(t) ==
    /\ pc[t] = "r_skip"
    /\ wSem' = [wSem EXCEPT ![Dir(t)] = @ + 1]
    /\ inflight' = [inflight EXCEPT ![Dir(t)] = NoMessage]
    /\ Return(t)
    /\ UNCHANGED <<kernel, rSem, buffer, delivered, bounds>>

\* memcpy of the dataSize bytes seen before
ReadCopy(t) ==
    /\ pc[t] = "r_copy"
    /\ local' = [local EXCEPT ![t].data = buffer[Dir(t)].data]
    /\ Goto(t, "r_clear")
    /\ UNCHANGED <<kernel, wSem, rSem, buffer, cap, aux, bounds>>

ReadClear(t) ==
    /\ pc[t] = "r_clear"
    /\ buffer' = [buffer EXCEPT ![Dir(t)].size = 0]
    /\ Goto(t, "r_post")
    /\ UNCHANGED <<kernel, wSem, rSem, local, cap, aux, bounds>>

\* Mutant: read() posts the semaphore it waited for.
ReadPostWrong(t) ==
    /\ pc[t] = "r_post"
    /\ rSem' = [rSem EXCEPT ![Dir(t)] = @ + 1]
    /\ inflight' = [inflight EXCEPT ![Dir(t)] = NoMessage]
    /\ delivered' = [delivered EXCEPT ![Dir(t)] = Append(@, local[t])]
    /\ Return(t)
    /\ UNCHANGED <<kernel, wSem, buffer, bounds>>

\* sem_post(peerWriteSem_); return dataSize
ReadPost(t) ==
    /\ pc[t] = "r_post"
    /\ wSem' = [wSem EXCEPT ![Dir(t)] = @ + 1]
    /\ inflight' = [inflight EXCEPT ![Dir(t)] = NoMessage]
    /\ delivered' = [delivered EXCEPT ![Dir(t)] = Append(@, local[t])]
    /\ Return(t)
    /\ UNCHANGED <<kernel, rSem, buffer, bounds>>

-----------------------------------------------------------------------------
(* The death of a process.  Its threads are gone wherever they were, and a *)
(* message one of them was reading is lost with it.                        *)

Reading(t) == pc[t] \in ReadSteps \ {"r_wait"}

Die(e) ==
    /\ conn' = [conn EXCEPT ![e] = "absent"]
    /\ pc' = [t \in Thread |-> IF Side(t) = e THEN "idle" ELSE pc[t]]
    /\ local' = [t \in Thread |-> IF Side(t) = e THEN NoMessage ELSE local[t]]
    /\ cap' = [t \in Thread |-> IF Side(t) = e THEN 0 ELSE cap[t]]
    /\ inflight' = IF \E t \in ThreadsOf(e) : Reading(t)
                   THEN [inflight EXCEPT ![Peer(e)] = NoMessage]
                   ELSE inflight
    /\ UNCHANGED <<shm, wSem, rSem, buffer, delivered, calls>>

Crash(e) ==
    /\ conn[e] # "absent"
    /\ crashes < MaxCrashes
    /\ crashes' = crashes + 1
    /\ Die(e)

\* The first access to the buffer through a null shm_.
SegFault(t) ==
    /\ pc[t] \in {"w_size", "r_size"}
    /\ conn[Side(t)] = "null"
    /\ UNCHANGED crashes
    /\ Die(Side(t))

-----------------------------------------------------------------------------
\* The steps of a call once it was made.
Step(t) == \/ WriteWait(t) \/ WriteSize(t) \/ WriteData(t) \/ WritePost(t)
           \/ ReadWait(t) \/ ReadSize(t) \/ ReadSkip(t) \/ ReadCopy(t)
           \/ ReadClear(t) \/ ReadPost(t) \/ SegFault(t)

Next == \/ \E e \in Endpoint : Construct(e) \/ Crash(e)
        \/ CloseClient
        \/ \E t \in Thread : \/ \E m \in Request : WriteCall(t, m)
                             \/ \E n \in 0 .. BufferSize : ReadCall(t, n)
                             \/ Step(t)

Spec == Init /\ [][Next]_vars

\* A thread that can go on does: the operating system schedules it.  Whether
\* the application calls read() or write() at all is up to the application.
FairSpec == Spec /\ \A t \in Thread : WF_vars(Step(t))

-----------------------------------------------------------------------------
(* Properties                                                              *)

\* Thread t holds the right to access the buffer of direction d.
AccessSteps == (WriteSteps \cup ReadSteps) \ {"w_wait", "r_wait"}
InsideAt(t, step, d) == step \in AccessSteps /\ DirAt(t, step) = d
Inside(t, d) == InsideAt(t, pc[t], d)

Tokens(d) == wSem[d] + rSem[d] + Cardinality({t \in Thread : Inside(t, d)})

\* No two threads, of the same process or not, are ever between sem_wait and
\* sem_post on the same BufferControl: the plain loads, stores and memcpys of
\* read() and write() never race, also after processes died and came back.
ExclusiveAccess ==
    \A d \in Endpoint : \A t, u \in Thread :
        Inside(t, d) /\ Inside(u, d) => t = u

\* What the steps keep true of one direction: at most one of the two
\* semaphores and the threads inside holds the token, and the buffer holds
\* what the holder's progress says it does.
TokenInv ==
    \A d \in Endpoint :
        /\ wSem[d] \in {0, 1} /\ rSem[d] \in {0, 1}
        /\ ~(wSem[d] = 1 /\ rSem[d] = 1)
        /\ \A t \in Thread : Inside(t, d) => wSem[d] = 0 /\ rSem[d] = 0

\* ... when the token is in one of the semaphores
AtRest(w, r, message, buf) ==
    /\ w = 1 => message = NoMessage
    /\ r = 1 => message \in Message /\ buf = message

\* ... when a thread is at a step of a call
AtStep(step, loc, message, buf) ==
    /\ step \in WriteSteps => loc \in Message
    /\ step \in {"w_size", "w_data", "w_post"} => message = NoMessage
    /\ step \in {"w_data", "w_post"} => buf.size = loc.size
    /\ step = "w_post" => buf = loc
    /\ step \in ReadSteps \ {"r_wait"} => message \in Message
    /\ step \in {"r_size", "r_skip", "r_copy"} => buf = message
    /\ step = "r_copy" => loc.size = message.size
    /\ step \in {"r_clear", "r_post"} => loc = message

ContentInv ==
    /\ \A d \in Endpoint : AtRest(wSem[d], rSem[d], inflight[d], buffer[d])
    /\ \A t \in Thread :
          AtStep(pc[t], local[t], inflight[Dir(t)], buffer[Dir(t)])

IInv == TypeOK /\ TokenInv /\ ExclusiveAccess /\ ContentInv

\* Whatever read() hands to its caller is, size and contents, the message of
\* one write() call that completed: never the size of one and the bytes of
\* another, never bytes of a write() cut short by a crash.
ReadsWholeMessage ==
    \A t \in Thread :
        pc[t] \in {"r_clear", "r_post"} =>
            /\ local[t] \in Message
            /\ local[t] = inflight[Dir(t)]

\* The right to access a buffer never multiplies and is only lost with a
\* process that dies holding it: every path through read() and write(), the
\* one for a message that does not fit included, hands it on exactly once.
TokenDiesOnlyWithItsHolder ==
    [][\A d \in Endpoint :
          \/ Tokens(d)' = Tokens(d)
          \/ /\ Tokens(d)' < Tokens(d)
             /\ \E e \in Endpoint : /\ conn[e] # "absent" /\ conn'[e] = "absent"
                                    /\ \E t \in ThreadsOf(e) : Inside(t, d)]_vars

\* The connection is a mailbox per direction: messages arrive unchanged, in
\* the order of the write() calls, at most once, and are lost only by a
\* reader, never overwritten by a writer.
Abstract == INSTANCE Mailbox WITH Direction <- Endpoint, slot <- inflight

ImplementsMailbox == Abstract!Spec

\* A message that was handed over while a reader waits for it is taken, if
\* not by that reader because its process died, and unless the token of the
\* direction is gone.
AwaitedMessageIsTaken ==
    \A d \in Endpoint :
        LET Awaited == \E t \in Thread : pc[t] = "r_wait" /\ Dir(t) = d
        IN  (inflight[d] # NoMessage /\ Awaited)
                ~> (inflight[d] = NoMessage \/ ~Awaited \/ Tokens(d) = 0)

\* A write() that waits while nothing is in the mailbox goes on, or another
\* one does, unless the token of the direction is gone: sem_post cannot be
\* missed by sem_wait.
WriterIsReleased ==
    \A t \in Thread :
        (pc[t] = "w_wait" /\ inflight[Side(t)] = NoMessage)
            ~> \/ pc[t] # "w_wait" \/ inflight[Side(t)] # NoMessage
               \/ Tokens(Side(t)) = 0
=============================================================================
