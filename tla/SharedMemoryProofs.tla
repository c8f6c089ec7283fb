------------------------- MODULE SharedMemoryProofs -------------------------
(***************************************************************************)
(* Proofs about SharedMemoryConnection, for any number of threads, any     *)
(* payloads, any buffer size and any number of calls and crashes.          *)
(*                                                                         *)
(* IInv is inductive: TypeOK, TokenInv (at most one token per direction),  *)
(* ExclusiveAccess, and ContentInv (what the holder of the token finds in  *)
(* the buffer).  The token parts and the contents need each other: that a  *)
(* reader finds the whole message depends on no writer being inside.       *)
(***************************************************************************)
EXTENDS SharedMemoryConnection, FiniteSetTheorems, TLAPS

LEMMA SideType == \A t \in Thread : Side(t) \in Endpoint /\ Peer(Side(t)) \in Endpoint
BY DEF Side, Peer, Endpoint

LEMMA DirType == \A t \in Thread : Dir(t) \in Endpoint
BY DEF Dir, DirAt, Side, Peer, Endpoint

LEMMA MessageFacts ==
    /\ NoMessage \in BufferControl
    /\ NoMessage \notin Message
    /\ Message \subseteq BufferControl
    /\ 0 \in 0 .. BufferSize
BY ConstantAssumption DEF NoMessage, BufferControl, Message

LEMMA InitIInv == Init => IInv
<1> SUFFICES ASSUME Init PROVE IInv
    OBVIOUS
<1>1. TypeOK
  <2>1. calls \in 0 .. MaxCalls /\ crashes \in 0 .. MaxCrashes
    BY ConstantAssumption DEF Init
  <2>2. delivered \in [Endpoint -> Seq(Message)]
    BY DEF Init
  <2> QED
    BY <2>1, <2>2, MessageFacts DEF Init, TypeOK
<1>2. TokenInv
    BY DEF Init, TokenInv, Inside, InsideAt, AccessSteps, WriteSteps, ReadSteps
<1>3. ExclusiveAccess
    BY DEF Init, ExclusiveAccess, Inside, InsideAt, AccessSteps, WriteSteps, ReadSteps
<1>4. ContentInv
    BY DirType DEF Init, ContentInv, AtRest, AtStep, WriteSteps, ReadSteps
<1> QED
    BY <1>1, <1>2, <1>3, <1>4 DEF IInv


\* The thread that accesses a buffer has the token of its direction, and no
\* other thread is inside.
LEMMA Alone ==
    ASSUME TypeOK, TokenInv, ExclusiveAccess, NEW t \in Thread, pc[t] \in AccessSteps
    PROVE  /\ wSem[Dir(t)] = 0 /\ rSem[Dir(t)] = 0
           /\ \A u \in Thread \ {t} : pc[u] \in AccessSteps => Dir(u) # Dir(t)
BY DirType DEF TokenInv, ExclusiveAccess, Inside, InsideAt, Dir

\* A step of t that leaves the semaphores alone and does not enter a buffer.
LEMMA Staying ==
    ASSUME TypeOK, TokenInv, ExclusiveAccess, NEW t \in Thread,
           UNCHANGED <<wSem, rSem>>,
           \A u \in Thread \ {t} : pc'[u] = pc[u],
           \A d \in Endpoint : InsideAt(t, pc'[t], d) => InsideAt(t, pc[t], d)
    PROVE  TokenInv' /\ ExclusiveAccess'
BY DEF TokenInv, ExclusiveAccess, Inside

\* A step of t that leaves a buffer and posts one of its semaphores.
LEMMA Leaving ==
    ASSUME TypeOK, TokenInv, ExclusiveAccess, NEW t \in Thread, pc[t] \in AccessSteps,
           \/ wSem' = [wSem EXCEPT ![Dir(t)] = @ + 1] /\ rSem' = rSem
           \/ rSem' = [rSem EXCEPT ![Dir(t)] = @ + 1] /\ wSem' = wSem,
           pc' = [pc EXCEPT ![t] = "idle"]
    PROVE  TokenInv' /\ ExclusiveAccess'
<1>1. /\ \A u \in Thread \ {t} : pc'[u] = pc[u]
      /\ \A d \in Endpoint : ~InsideAt(t, pc'[t], d)
    BY DEF TypeOK, InsideAt, AccessSteps, WriteSteps, ReadSteps
<1>2. wSem[Dir(t)] = 0 /\ rSem[Dir(t)] = 0
    BY Alone
<1>3. \A u \in Thread \ {t} : ~InsideAt(u, pc[u], Dir(t))
    BY Alone DEF InsideAt, Dir
<1>4. ExclusiveAccess'
    BY <1>1 DEF ExclusiveAccess, Inside
<1>5. TokenInv'
    BY <1>1, <1>2, <1>3, DirType DEF TypeOK, TokenInv, Inside
<1> QED BY <1>4, <1>5

\* A step of t inside a buffer touches that buffer and nothing another thread
\* depends on.
LEMMA Frame ==
    ASSUME TypeOK, TokenInv, ExclusiveAccess, ContentInv,
           NEW t \in Thread, pc[t] \in AccessSteps,
           \A u \in Thread \ {t} : pc'[u] = pc[u] /\ local'[u] = local[u],
           \A d \in Endpoint \ {Dir(t)} :
               /\ wSem'[d] = wSem[d] /\ rSem'[d] = rSem[d]
               /\ inflight'[d] = inflight[d] /\ buffer'[d] = buffer[d],
           AtRest(wSem'[Dir(t)], rSem'[Dir(t)], inflight'[Dir(t)], buffer'[Dir(t)]),
           AtStep(pc'[t], local'[t], inflight'[DirAt(t, pc'[t])],
                  buffer'[DirAt(t, pc'[t])])
    PROVE  ContentInv'
<1>1. \A d \in Endpoint : AtRest(wSem'[d], rSem'[d], inflight'[d], buffer'[d])
    BY DirType DEF ContentInv
<1>2. ASSUME NEW u \in Thread, u # t
      PROVE  AtStep(pc'[u], local'[u], inflight'[DirAt(u, pc'[u])],
                    buffer'[DirAt(u, pc'[u])])
  <2>1. AtStep(pc[u], local[u], inflight[Dir(u)], buffer[Dir(u)])
    BY DEF ContentInv
  <2>2. pc'[u] = pc[u] /\ local'[u] = local[u] /\ DirAt(u, pc'[u]) = Dir(u)
    BY <1>2 DEF Dir
  <2>3. CASE pc[u] \in AccessSteps
    BY <1>2, <2>1, <2>2, <2>3, Alone, DirType
  <2>4. CASE pc[u] \notin AccessSteps
    BY <2>1, <2>2, <2>4 DEF AtStep, AccessSteps, WriteSteps, ReadSteps
  <2> QED BY <2>3, <2>4
<1> QED
    BY <1>1, <1>2 DEF ContentInv, Dir

LEMMA WriteWaitStep ==
    ASSUME IInv, NEW t \in Thread, WriteWait(t)
    PROVE  IInv'
<1> USE SideType DEF WriteWait, Goto, kernel, aux, bounds
<1>0. TypeOK /\ TokenInv /\ ExclusiveAccess /\ ContentInv
    BY DEF IInv
<1>1. TypeOK'
    BY <1>0 DEF TypeOK, WriteSteps
<1>2. \A u \in Thread \ {t} : pc'[u] = pc[u]
    BY <1>0 DEF TypeOK
<1>3. \A d \in Endpoint : ~InsideAt(t, pc[t], d) /\ (InsideAt(t, pc'[t], d) => d = Side(t))
    BY <1>0 DEF TypeOK, InsideAt, AccessSteps, DirAt, WriteSteps, ReadSteps
<1>4. TokenInv'
  <2>1. wSem[Side(t)] = 1 /\ wSem'[Side(t)] = 0 /\ rSem[Side(t)] = 0
    BY <1>0 DEF TypeOK, TokenInv
  <2>2. rSem' = rSem /\ \A d \in Endpoint \ {Side(t)} : wSem'[d] = wSem[d]
    BY <1>0 DEF TypeOK
  <2> HIDE DEF WriteWait
  <2> QED
    BY <1>0, <1>2, <1>3, <2>1, <2>2 DEF TokenInv, Inside
<1>5. ExclusiveAccess'
  <2>1. \A u \in Thread : ~InsideAt(u, pc[u], Side(t))
    BY <1>0 DEF TypeOK, TokenInv, Inside
  <2> QED
    BY <1>0, <1>2, <1>3, <2>1 DEF ExclusiveAccess, Inside
<1>6. ContentInv'
    BY <1>0, <1>2, <1>3 DEF TypeOK, TokenInv, ContentInv, AtRest, AtStep, Dir, DirAt,
           WriteSteps, ReadSteps
<1> QED
    BY <1>1, <1>4, <1>5, <1>6 DEF IInv

LEMMA ReadWaitStep ==
    ASSUME IInv, NEW t \in Thread, ReadWait(t)
    PROVE  IInv'
<1> USE SideType, DirType DEF ReadWait, Goto, kernel, aux, bounds
<1>0. TypeOK /\ TokenInv /\ ExclusiveAccess /\ ContentInv
    BY DEF IInv
<1>1. TypeOK'
    BY <1>0, SMTT(30) DEF TypeOK, ReadSteps
<1>2. \A u \in Thread \ {t} : pc'[u] = pc[u]
    BY <1>0 DEF TypeOK
<1>3. \A d \in Endpoint : ~InsideAt(t, pc[t], d) /\ (InsideAt(t, pc'[t], d) => d = Dir(t))
    BY <1>0 DEF TypeOK, InsideAt, AccessSteps, Dir, DirAt, WriteSteps, ReadSteps
<1>4. \A u \in Thread : ~InsideAt(u, pc[u], Dir(t))
    BY <1>0 DEF TypeOK, TokenInv, Inside
<1>5. TokenInv'
  <2>1. rSem[Dir(t)] = 1 /\ rSem'[Dir(t)] = 0 /\ wSem[Dir(t)] = 0
    BY <1>0 DEF TypeOK, TokenInv
  <2>2. wSem' = wSem /\ \A d \in Endpoint \ {Dir(t)} : rSem'[d] = rSem[d]
    BY <1>0 DEF TypeOK
  <2> HIDE DEF ReadWait
  <2> QED
    BY <1>0, <1>2, <1>3, <2>1, <2>2 DEF TokenInv, Inside
<1>6. ExclusiveAccess'
    BY <1>0, <1>2, <1>3, <1>4 DEF ExclusiveAccess, Inside
<1>7. ContentInv'
    BY <1>0, <1>2, <1>3 DEF TypeOK, TokenInv, ContentInv, AtRest, AtStep, Dir, DirAt,
           WriteSteps, ReadSteps
<1> QED
    BY <1>1, <1>5, <1>6, <1>7 DEF IInv

LEMMA WriteCallStep ==
    ASSUME IInv, NEW t \in Thread, NEW m \in Request, WriteCall(t, m)
    PROVE  IInv'
<1> USE SideType, DirType, MessageFacts DEF WriteCall, Goto, kernel, aux
<1>0. TypeOK /\ TokenInv /\ ExclusiveAccess /\ ContentInv
    BY DEF IInv
<1>1. TypeOK'
  <2>1. m \in BufferControl
    BY ConstantAssumption DEF Request, BufferControl
  <2> QED
    BY <1>0, <2>1, ConstantAssumption DEF TypeOK, WriteSteps
<1>2. \A u \in Thread \ {t} : pc'[u] = pc[u]
    BY <1>0 DEF TypeOK
<1>3. TokenInv' /\ ExclusiveAccess'
  <2>1. \A d \in Endpoint : InsideAt(t, pc'[t], d) => InsideAt(t, pc[t], d)
    BY <1>0 DEF TypeOK, InsideAt, AccessSteps, DirAt, WriteSteps, ReadSteps
  <2> QED
    BY <1>0, <1>2, <2>1, Staying
<1>4. ContentInv'
    BY <1>0, <1>2 DEF TypeOK, ContentInv, AtStep, Dir, DirAt,
           WriteSteps, ReadSteps, Message, Request
<1> QED
    BY <1>1, <1>3, <1>4 DEF IInv

LEMMA ReadCallStep ==
    ASSUME IInv, NEW t \in Thread, NEW n \in 0 .. BufferSize, ReadCall(t, n)
    PROVE  IInv'
<1> USE SideType, DirType, MessageFacts DEF ReadCall, Goto, kernel, aux
<1>0. TypeOK /\ TokenInv /\ ExclusiveAccess /\ ContentInv
    BY DEF IInv
<1>1. TypeOK'
    BY <1>0, ConstantAssumption, SMTT(30) DEF TypeOK, ReadSteps
<1>2. \A u \in Thread \ {t} : pc'[u] = pc[u]
    BY <1>0 DEF TypeOK
<1>3. TokenInv' /\ ExclusiveAccess'
  <2>1. \A d \in Endpoint : InsideAt(t, pc'[t], d) => InsideAt(t, pc[t], d)
    BY <1>0 DEF TypeOK, InsideAt, AccessSteps, DirAt, WriteSteps, ReadSteps
  <2> QED
    BY <1>0, <1>2, <2>1, Staying
<1>4. ContentInv'
    BY <1>0, <1>2 DEF TypeOK, ContentInv, AtStep, Dir, DirAt, WriteSteps, ReadSteps
<1> QED
    BY <1>1, <1>3, <1>4 DEF IInv

LEMMA WriteSizeStep ==
    ASSUME IInv, NEW t \in Thread, WriteSize(t)
    PROVE  IInv'
<1> USE SideType, DirType, MessageFacts DEF WriteSize, Goto, kernel, aux, bounds
<1>0. TypeOK /\ TokenInv /\ ExclusiveAccess /\ ContentInv
    BY DEF IInv
<1>1. TypeOK'
    BY <1>0, ConstantAssumption DEF TypeOK, WriteSteps, BufferControl
<1>2. pc[t] \in AccessSteps /\ \A u \in Thread \ {t} : pc'[u] = pc[u]
    BY <1>0 DEF TypeOK, AccessSteps, WriteSteps, ReadSteps
<1>3. TokenInv' /\ ExclusiveAccess'
  <2>1. \A d \in Endpoint : InsideAt(t, pc'[t], d) => InsideAt(t, pc[t], d)
    BY <1>0 DEF TypeOK, InsideAt, AccessSteps, DirAt, WriteSteps, ReadSteps
  <2> QED
    BY <1>0, <1>2, <2>1, Staying
<1>4. AtStep(pc[t], local[t], inflight[Dir(t)], buffer[Dir(t)])
    BY <1>0 DEF ContentInv
<1>5. AtStep(pc'[t], local'[t], inflight'[DirAt(t, pc'[t])], buffer'[DirAt(t, pc'[t])])
    BY <1>0, <1>4 DEF TypeOK, AtStep, Dir, DirAt, WriteSteps, ReadSteps, BufferControl, Message
<1>6. AtRest(wSem'[Dir(t)], rSem'[Dir(t)], inflight'[Dir(t)], buffer'[Dir(t)])
  <2>1. wSem[Dir(t)] = 0 /\ rSem[Dir(t)] = 0
    BY <1>0, <1>2, Alone
  <2> QED
    BY <1>0, <1>4, <2>1 DEF TypeOK, AtRest, AtStep, Dir, DirAt, WriteSteps
<1>7. ContentInv'
  <2>1. \A u \in Thread \ {t} : pc'[u] = pc[u] /\ local'[u] = local[u]
    BY <1>0, <1>2 DEF TypeOK
  <2>2. \A d \in Endpoint \ {Dir(t)} :
          /\ wSem'[d] = wSem[d] /\ rSem'[d] = rSem[d]
          /\ inflight'[d] = inflight[d] /\ buffer'[d] = buffer[d]
    BY <1>0 DEF TypeOK, Dir, DirAt, WriteSteps
  <2> QED
    BY <1>0, <1>2, <1>5, <1>6, <2>1, <2>2, Frame
<1> QED
    BY <1>1, <1>3, <1>7 DEF IInv

LEMMA WriteDataStep ==
    ASSUME IInv, NEW t \in Thread, WriteData(t)
    PROVE  IInv'
<1> USE SideType, DirType, MessageFacts DEF WriteData, Goto, kernel, aux, bounds
<1>0. TypeOK /\ TokenInv /\ ExclusiveAccess /\ ContentInv
    BY DEF IInv
<1>1. TypeOK'
    BY <1>0, ConstantAssumption DEF TypeOK, WriteSteps, BufferControl
<1>2. pc[t] \in AccessSteps /\ \A u \in Thread \ {t} : pc'[u] = pc[u]
    BY <1>0 DEF TypeOK, AccessSteps, WriteSteps, ReadSteps
<1>3. TokenInv' /\ ExclusiveAccess'
  <2>1. \A d \in Endpoint : InsideAt(t, pc'[t], d) => InsideAt(t, pc[t], d)
    BY <1>0 DEF TypeOK, InsideAt, AccessSteps, DirAt, WriteSteps, ReadSteps
  <2> QED
    BY <1>0, <1>2, <2>1, Staying
<1>4. AtStep(pc[t], local[t], inflight[Dir(t)], buffer[Dir(t)])
    BY <1>0 DEF ContentInv
<1>5. AtStep(pc'[t], local'[t], inflight'[DirAt(t, pc'[t])], buffer'[DirAt(t, pc'[t])])
    BY <1>0, <1>4 DEF TypeOK, AtStep, Dir, DirAt, WriteSteps, ReadSteps, BufferControl, Message
<1>6. AtRest(wSem'[Dir(t)], rSem'[Dir(t)], inflight'[Dir(t)], buffer'[Dir(t)])
  <2>1. wSem[Dir(t)] = 0 /\ rSem[Dir(t)] = 0
    BY <1>0, <1>2, Alone
  <2> QED
    BY <1>0, <1>4, <2>1 DEF TypeOK, AtRest, AtStep, Dir, DirAt, WriteSteps
<1>7. ContentInv'
  <2>1. \A u \in Thread \ {t} : pc'[u] = pc[u] /\ local'[u] = local[u]
    BY <1>0, <1>2 DEF TypeOK
  <2>2. \A d \in Endpoint \ {Dir(t)} :
          /\ wSem'[d] = wSem[d] /\ rSem'[d] = rSem[d]
          /\ inflight'[d] = inflight[d] /\ buffer'[d] = buffer[d]
    BY <1>0 DEF TypeOK, Dir, DirAt, WriteSteps
  <2> QED
    BY <1>0, <1>2, <1>5, <1>6, <2>1, <2>2, Frame
<1> QED
    BY <1>1, <1>3, <1>7 DEF IInv

LEMMA WritePostStep ==
    ASSUME IInv, NEW t \in Thread, WritePost(t)
    PROVE  IInv'
<1> USE SideType, DirType, MessageFacts DEF WritePost, Return, Goto, kernel, bounds
<1>0. TypeOK /\ TokenInv /\ ExclusiveAccess /\ ContentInv
    BY DEF IInv
<1>1. TypeOK'
    BY <1>0, ConstantAssumption, SMTT(30) DEF TypeOK, ContentInv, AtStep, WriteSteps
<1>2. pc[t] \in AccessSteps /\ \A u \in Thread \ {t} : pc'[u] = pc[u]
    BY <1>0 DEF TypeOK, AccessSteps, WriteSteps, ReadSteps
<1>3. TokenInv' /\ ExclusiveAccess'
    BY <1>0, <1>2, Leaving DEF Dir, DirAt, WriteSteps
<1>4. AtStep(pc[t], local[t], inflight[Dir(t)], buffer[Dir(t)])
    BY <1>0 DEF ContentInv
<1>5. AtStep(pc'[t], local'[t], inflight'[DirAt(t, pc'[t])], buffer'[DirAt(t, pc'[t])])
    BY <1>0, <1>4 DEF TypeOK, AtStep, Dir, DirAt, WriteSteps, ReadSteps, BufferControl, Message
<1>6. AtRest(wSem'[Dir(t)], rSem'[Dir(t)], inflight'[Dir(t)], buffer'[Dir(t)])
  <2>1. wSem[Dir(t)] = 0 /\ rSem[Dir(t)] = 0
    BY <1>0, <1>2, Alone
  <2> QED
    BY <1>0, <1>4, <2>1 DEF TypeOK, AtRest, AtStep, Dir, DirAt, WriteSteps
<1>7. ContentInv'
  <2>1. \A u \in Thread \ {t} : pc'[u] = pc[u] /\ local'[u] = local[u]
    BY <1>0, <1>2 DEF TypeOK
  <2>2. \A d \in Endpoint \ {Dir(t)} :
          /\ wSem'[d] = wSem[d] /\ rSem'[d] = rSem[d]
          /\ inflight'[d] = inflight[d] /\ buffer'[d] = buffer[d]
    BY <1>0 DEF TypeOK, Dir, DirAt, WriteSteps
  <2> QED
    BY <1>0, <1>2, <1>5, <1>6, <2>1, <2>2, Frame
<1> QED
    BY <1>1, <1>3, <1>7 DEF IInv

LEMMA ReadSizeStep ==
    ASSUME IInv, NEW t \in Thread, ReadSize(t)
    PROVE  IInv'
<1> USE SideType, DirType, MessageFacts DEF ReadSize, Goto, kernel, aux, bounds
<1>0. TypeOK /\ TokenInv /\ ExclusiveAccess /\ ContentInv
    BY DEF IInv
<1>1. TypeOK'
    BY <1>0, ConstantAssumption DEF TypeOK, ReadSteps, BufferControl
<1>2. pc[t] \in AccessSteps /\ \A u \in Thread \ {t} : pc'[u] = pc[u]
    BY <1>0 DEF TypeOK, AccessSteps, WriteSteps, ReadSteps
<1>3. TokenInv' /\ ExclusiveAccess'
  <2>1. \A d \in Endpoint : InsideAt(t, pc'[t], d) => InsideAt(t, pc[t], d)
    BY <1>0 DEF TypeOK, InsideAt, AccessSteps, DirAt, WriteSteps, ReadSteps
  <2> QED
    BY <1>0, <1>2, <2>1, Staying
<1>4. AtStep(pc[t], local[t], inflight[Dir(t)], buffer[Dir(t)])
    BY <1>0 DEF ContentInv
<1>5. AtStep(pc'[t], local'[t], inflight'[DirAt(t, pc'[t])], buffer'[DirAt(t, pc'[t])])
    BY <1>0, <1>4 DEF TypeOK, AtStep, Dir, DirAt, WriteSteps, ReadSteps, BufferControl, Message
<1>6. AtRest(wSem'[Dir(t)], rSem'[Dir(t)], inflight'[Dir(t)], buffer'[Dir(t)])
  <2>1. wSem[Dir(t)] = 0 /\ rSem[Dir(t)] = 0
    BY <1>0, <1>2, Alone
  <2> QED
    BY <1>0, <1>4, <2>1 DEF TypeOK, AtRest
<1>7. ContentInv'
  <2>1. \A u \in Thread \ {t} : pc'[u] = pc[u] /\ local'[u] = local[u]
    BY <1>0, <1>2 DEF TypeOK
  <2>2. \A d \in Endpoint \ {Dir(t)} :
          /\ wSem'[d] = wSem[d] /\ rSem'[d] = rSem[d]
          /\ inflight'[d] = inflight[d] /\ buffer'[d] = buffer[d]
    BY <1>0 DEF TypeOK, Dir, DirAt, WriteSteps
  <2> QED
    BY <1>0, <1>2, <1>5, <1>6, <2>1, <2>2, Frame
<1> QED
    BY <1>1, <1>3, <1>7 DEF IInv

LEMMA ReadSkipStep ==
    ASSUME IInv, NEW t \in Thread, ReadSkip(t)
    PROVE  IInv'
<1> USE SideType, DirType, MessageFacts DEF ReadSkip, Return, Goto, kernel, bounds
<1>0. TypeOK /\ TokenInv /\ ExclusiveAccess /\ ContentInv
    BY DEF IInv
<1>1. TypeOK'
    BY <1>0, ConstantAssumption, SMTT(30) DEF TypeOK, ReadSteps
<1>2. pc[t] \in AccessSteps /\ \A u \in Thread \ {t} : pc'[u] = pc[u]
    BY <1>0 DEF TypeOK, AccessSteps, WriteSteps, ReadSteps
<1>3. TokenInv' /\ ExclusiveAccess'
    BY <1>0, <1>2, Leaving DEF Dir, DirAt, WriteSteps
<1>4. AtStep(pc[t], local[t], inflight[Dir(t)], buffer[Dir(t)])
    BY <1>0 DEF ContentInv
<1>5. AtStep(pc'[t], local'[t], inflight'[DirAt(t, pc'[t])], buffer'[DirAt(t, pc'[t])])
    BY <1>0, <1>4 DEF TypeOK, AtStep, Dir, DirAt, WriteSteps, ReadSteps, BufferControl, Message
<1>6. AtRest(wSem'[Dir(t)], rSem'[Dir(t)], inflight'[Dir(t)], buffer'[Dir(t)])
  <2>1. wSem[Dir(t)] = 0 /\ rSem[Dir(t)] = 0
    BY <1>0, <1>2, Alone
  <2> QED
    BY <1>0, <1>4, <2>1 DEF TypeOK, AtRest
<1>7. ContentInv'
  <2>1. \A u \in Thread \ {t} : pc'[u] = pc[u] /\ local'[u] = local[u]
    BY <1>0, <1>2 DEF TypeOK
  <2>2. \A d \in Endpoint \ {Dir(t)} :
          /\ wSem'[d] = wSem[d] /\ rSem'[d] = rSem[d]
          /\ inflight'[d] = inflight[d] /\ buffer'[d] = buffer[d]
    BY <1>0 DEF TypeOK, Dir, DirAt, WriteSteps
  <2> QED
    BY <1>0, <1>2, <1>5, <1>6, <2>1, <2>2, Frame
<1> QED
    BY <1>1, <1>3, <1>7 DEF IInv

LEMMA ReadCopyStep ==
    ASSUME IInv, NEW t \in Thread, ReadCopy(t)
    PROVE  IInv'
<1> USE SideType, DirType, MessageFacts DEF ReadCopy, Goto, kernel, aux, bounds
<1>0. TypeOK /\ TokenInv /\ ExclusiveAccess /\ ContentInv
    BY DEF IInv
<1>1. TypeOK'
    BY <1>0, ConstantAssumption DEF TypeOK, ReadSteps, BufferControl
<1>2. pc[t] \in AccessSteps /\ \A u \in Thread \ {t} : pc'[u] = pc[u]
    BY <1>0 DEF TypeOK, AccessSteps, WriteSteps, ReadSteps
<1>3. TokenInv' /\ ExclusiveAccess'
  <2>1. \A d \in Endpoint : InsideAt(t, pc'[t], d) => InsideAt(t, pc[t], d)
    BY <1>0 DEF TypeOK, InsideAt, AccessSteps, DirAt, WriteSteps, ReadSteps
  <2> QED
    BY <1>0, <1>2, <2>1, Staying
<1>4. AtStep(pc[t], local[t], inflight[Dir(t)], buffer[Dir(t)])
    BY <1>0 DEF ContentInv
<1>5. AtStep(pc'[t], local'[t], inflight'[DirAt(t, pc'[t])], buffer'[DirAt(t, pc'[t])])
    BY <1>0, <1>4, ZenonT(60)
        DEF TypeOK, AtStep, Dir, DirAt, WriteSteps, ReadSteps, BufferControl, Message
<1>6. AtRest(wSem'[Dir(t)], rSem'[Dir(t)], inflight'[Dir(t)], buffer'[Dir(t)])
  <2>1. wSem[Dir(t)] = 0 /\ rSem[Dir(t)] = 0
    BY <1>0, <1>2, Alone
  <2> QED
    BY <1>0, <1>4, <2>1 DEF TypeOK, AtRest
<1>7. ContentInv'
  <2>1. \A u \in Thread \ {t} : pc'[u] = pc[u] /\ local'[u] = local[u]
    BY <1>0, <1>2 DEF TypeOK
  <2>2. \A d \in Endpoint \ {Dir(t)} :
          /\ wSem'[d] = wSem[d] /\ rSem'[d] = rSem[d]
          /\ inflight'[d] = inflight[d] /\ buffer'[d] = buffer[d]
    BY <1>0 DEF TypeOK, Dir, DirAt, WriteSteps
  <2> QED
    BY <1>0, <1>2, <1>5, <1>6, <2>1, <2>2, Frame
<1> QED
    BY <1>1, <1>3, <1>7 DEF IInv

LEMMA ReadClearStep ==
    ASSUME IInv, NEW t \in Thread, ReadClear(t)
    PROVE  IInv'
<1> USE SideType, DirType, MessageFacts DEF ReadClear, Goto, kernel, aux, bounds
<1>0. TypeOK /\ TokenInv /\ ExclusiveAccess /\ ContentInv
    BY DEF IInv
<1>1. TypeOK'
    BY <1>0, ConstantAssumption DEF TypeOK, ReadSteps, BufferControl
<1>2. pc[t] \in AccessSteps /\ \A u \in Thread \ {t} : pc'[u] = pc[u]
    BY <1>0 DEF TypeOK, AccessSteps, WriteSteps, ReadSteps
<1>3. TokenInv' /\ ExclusiveAccess'
  <2>1. \A d \in Endpoint : InsideAt(t, pc'[t], d) => InsideAt(t, pc[t], d)
    BY <1>0 DEF TypeOK, InsideAt, AccessSteps, DirAt, WriteSteps, ReadSteps
  <2> QED
    BY <1>0, <1>2, <2>1, Staying
<1>4. AtStep(pc[t], local[t], inflight[Dir(t)], buffer[Dir(t)])
    BY <1>0 DEF ContentInv
<1>5. AtStep(pc'[t], local'[t], inflight'[DirAt(t, pc'[t])], buffer'[DirAt(t, pc'[t])])
    BY <1>0, <1>4 DEF TypeOK, AtStep, Dir, DirAt, WriteSteps, ReadSteps, BufferControl, Message
<1>6. AtRest(wSem'[Dir(t)], rSem'[Dir(t)], inflight'[Dir(t)], buffer'[Dir(t)])
  <2>1. wSem[Dir(t)] = 0 /\ rSem[Dir(t)] = 0
    BY <1>0, <1>2, Alone
  <2> QED
    BY <1>0, <1>4, <2>1 DEF TypeOK, AtRest
<1>7. ContentInv'
  <2>1. \A u \in Thread \ {t} : pc'[u] = pc[u] /\ local'[u] = local[u]
    BY <1>0, <1>2 DEF TypeOK
  <2>2. \A d \in Endpoint \ {Dir(t)} :
          /\ wSem'[d] = wSem[d] /\ rSem'[d] = rSem[d]
          /\ inflight'[d] = inflight[d] /\ buffer'[d] = buffer[d]
    BY <1>0 DEF TypeOK, Dir, DirAt, WriteSteps
  <2> QED
    BY <1>0, <1>2, <1>5, <1>6, <2>1, <2>2, Frame
<1> QED
    BY <1>1, <1>3, <1>7 DEF IInv

LEMMA ReadPostStep ==
    ASSUME IInv, NEW t \in Thread, ReadPost(t)
    PROVE  IInv'
<1> USE SideType, DirType, MessageFacts DEF ReadPost, Return, Goto, kernel, bounds
<1>0. TypeOK /\ TokenInv /\ ExclusiveAccess /\ ContentInv
    BY DEF IInv
<1>1. TypeOK'
  <2>1. local[t] \in Message
    BY <1>0 DEF ContentInv, AtStep, ReadSteps
  <2> QED
    BY <1>0, <2>1, SMTT(30) DEF TypeOK
<1>2. pc[t] \in AccessSteps /\ \A u \in Thread \ {t} : pc'[u] = pc[u]
    BY <1>0 DEF TypeOK, AccessSteps, WriteSteps, ReadSteps
<1>3. TokenInv' /\ ExclusiveAccess'
    BY <1>0, <1>2, Leaving DEF Dir, DirAt, WriteSteps
<1>4. AtStep(pc[t], local[t], inflight[Dir(t)], buffer[Dir(t)])
    BY <1>0 DEF ContentInv
<1>5. AtStep(pc'[t], local'[t], inflight'[DirAt(t, pc'[t])], buffer'[DirAt(t, pc'[t])])
    BY <1>0, <1>4 DEF TypeOK, AtStep, Dir, DirAt, WriteSteps, ReadSteps, BufferControl, Message
<1>6. AtRest(wSem'[Dir(t)], rSem'[Dir(t)], inflight'[Dir(t)], buffer'[Dir(t)])
  <2>1. wSem[Dir(t)] = 0 /\ rSem[Dir(t)] = 0
    BY <1>0, <1>2, Alone
  <2> QED
    BY <1>0, <1>4, <2>1 DEF TypeOK, AtRest
<1>7. ContentInv'
  <2>1. \A u \in Thread \ {t} : pc'[u] = pc[u] /\ local'[u] = local[u]
    BY <1>0, <1>2 DEF TypeOK
  <2>2. \A d \in Endpoint \ {Dir(t)} :
          /\ wSem'[d] = wSem[d] /\ rSem'[d] = rSem[d]
          /\ inflight'[d] = inflight[d] /\ buffer'[d] = buffer[d]
    BY <1>0 DEF TypeOK, Dir, DirAt, WriteSteps
  <2> QED
    BY <1>0, <1>2, <1>5, <1>6, <2>1, <2>2, Frame
<1> QED
    BY <1>1, <1>3, <1>7 DEF IInv

LEMMA ConstructStep ==
    ASSUME IInv, NEW e \in Endpoint, Construct(e) \/ (CloseClient /\ e = "B")
    PROVE  IInv'
<1> USE DEF Construct, CloseClient, aux, bounds
<1>1. TypeOK'
    BY DEF IInv, TypeOK
<1>2. UNCHANGED <<pc, local, wSem, rSem, inflight, buffer>>
    OBVIOUS
<1>3. TokenInv' /\ ExclusiveAccess'
    BY <1>2 DEF IInv, TokenInv, ExclusiveAccess, Inside
<1>4. ContentInv'
    BY <1>2 DEF IInv, ContentInv, Dir
<1> QED BY <1>1, <1>3, <1>4 DEF IInv

\* The death of a process: what it was reading is gone, and so is its token.
LEMMA DieStep ==
    ASSUME IInv, NEW e \in Endpoint, Die(e), crashes' \in 0 .. MaxCrashes
    PROVE  IInv'
<1> USE DEF Die
<1>0. TypeOK /\ TokenInv /\ ExclusiveAccess /\ ContentInv
    BY DEF IInv
<1>1. TypeOK'
    BY <1>0, MessageFacts DEF TypeOK, Peer, Endpoint
<1>2. \A u \in Thread : IF Side(u) = e THEN pc'[u] = "idle"
                        ELSE pc'[u] = pc[u] /\ local'[u] = local[u]
    BY <1>0 DEF TypeOK
<1>3. \A u \in Thread, d \in Endpoint :
          InsideAt(u, pc'[u], d) => pc'[u] = pc[u] /\ InsideAt(u, pc[u], d)
    BY <1>2 DEF InsideAt, AccessSteps, WriteSteps, ReadSteps
<1>4. TokenInv' /\ ExclusiveAccess'
    BY <1>0, <1>3 DEF TokenInv, ExclusiveAccess, Inside
<1>5. ASSUME NEW t \in ThreadsOf(e), Reading(t)
      PROVE  /\ wSem[Peer(e)] = 0 /\ rSem[Peer(e)] = 0
             /\ \A u \in Thread : Side(u) # e /\ pc[u] \in AccessSteps => Dir(u) # Peer(e)
  <2>1. t \in Thread /\ pc[t] \in AccessSteps /\ Dir(t) = Peer(e)
    BY <1>5 DEF ThreadsOf, Reading, Dir, DirAt, AccessSteps, WriteSteps, ReadSteps
  <2>2. \A u \in Thread : Side(u) # e => u # t
    BY <1>5 DEF ThreadsOf
  <2> QED BY <1>0, <2>1, <2>2, Alone
<1>6. \A d \in Endpoint : AtRest(wSem'[d], rSem'[d], inflight'[d], buffer'[d])
  <2>1. CASE \E t \in ThreadsOf(e) : Reading(t)
    <3>1. inflight' = [inflight EXCEPT ![Peer(e)] = NoMessage]
      BY <2>1
    <3>2. wSem[Peer(e)] = 0 /\ rSem[Peer(e)] = 0
      BY <1>5, <2>1
    <3> QED BY <1>0, <3>1, <3>2 DEF TypeOK, ContentInv, AtRest
  <2>2. CASE ~\E t \in ThreadsOf(e) : Reading(t)
    BY <1>0, <2>2 DEF ContentInv
  <2> QED BY <2>1, <2>2
<1>7. ASSUME NEW u \in Thread
      PROVE  AtStep(pc'[u], local'[u], inflight'[DirAt(u, pc'[u])], buffer'[DirAt(u, pc'[u])])
  <2>1. CASE Side(u) = e
    BY <1>2, <2>1 DEF AtStep, WriteSteps, ReadSteps
  <2>2. CASE Side(u) # e
    <3>1. /\ pc'[u] = pc[u] /\ local'[u] = local[u] /\ DirAt(u, pc'[u]) = Dir(u)
          /\ AtStep(pc[u], local[u], inflight[Dir(u)], buffer[Dir(u)])
      BY <1>0, <1>2, <2>2 DEF ContentInv, Dir
    <3>2. CASE pc[u] \notin AccessSteps
      BY <3>1, <3>2 DEF AtStep, AccessSteps, WriteSteps, ReadSteps
    <3>3. CASE pc[u] \in AccessSteps
      <4>1. inflight'[Dir(u)] = inflight[Dir(u)]
        BY <1>0, <1>5, <2>2, <3>3 DEF TypeOK
      <4> QED BY <3>1, <4>1
    <3> QED BY <3>2, <3>3
  <2> QED BY <2>1, <2>2
<1>8. ContentInv'
    BY <1>6, <1>7 DEF ContentInv, Dir
<1> QED BY <1>1, <1>4, <1>8 DEF IInv

LEMMA NextIInv == IInv /\ [Next]_vars => IInv'
<1> SUFFICES ASSUME IInv, [Next]_vars PROVE IInv'
    OBVIOUS
<1>1. CASE UNCHANGED vars
    BY <1>1 DEF vars, IInv, TypeOK, TokenInv, ExclusiveAccess, ContentInv, Inside, Dir
<1>2. ASSUME NEW e \in Endpoint, Construct(e) \/ Crash(e) PROVE IInv'
  <2>1. CASE Crash(e)
    <3>1. crashes' \in 0 .. MaxCrashes /\ Die(e)
      BY <2>1, ConstantAssumption DEF Crash, IInv, TypeOK
    <3> QED BY <3>1, DieStep
  <2> QED BY <1>2, <2>1, ConstructStep
<1>3. CASE CloseClient
    BY <1>3, ConstructStep DEF Endpoint
<1>4. ASSUME NEW t \in Thread, NEW m \in Request, WriteCall(t, m) PROVE IInv'
    BY <1>4, WriteCallStep
<1>5. ASSUME NEW t \in Thread, NEW n \in 0 .. BufferSize, ReadCall(t, n) PROVE IInv'
    BY <1>5, ReadCallStep
<1>6. ASSUME NEW t \in Thread, SegFault(t) PROVE IInv'
  <2>1. crashes' \in 0 .. MaxCrashes /\ Die(Side(t)) /\ Side(t) \in Endpoint
    BY <1>6, SideType DEF SegFault, IInv, TypeOK
  <2> QED BY <2>1, DieStep
<1>7. ASSUME NEW t \in Thread, Step(t) PROVE IInv'
    BY <1>6, <1>7, WriteWaitStep, WriteSizeStep, WriteDataStep, WritePostStep,
       ReadWaitStep, ReadSizeStep, ReadSkipStep, ReadCopyStep, ReadClearStep,
       ReadPostStep DEF Step
<1> QED
    BY <1>1, <1>2, <1>3, <1>4, <1>5, <1>7 DEF Next

LEMMA Invariance == Spec => []IInv
BY InitIInv, NextIInv, PTL DEF Spec

-----------------------------------------------------------------------------
\* Every state of the connection is well typed: no semaphore goes negative,
\* no message is larger than the buffer.
THEOREM TypeCorrect == Spec => []TypeOK
<1>1. IInv => TypeOK
    BY DEF IInv
<1> QED BY <1>1, Invariance, PTL

\* The semaphores of SharedMemoryConnection give exclusive access to a buffer,
\* for any number of threads on both sides and any number of crashes.
THEOREM MutualExclusion == Spec => []ExclusiveAccess
<1>1. IInv => ExclusiveAccess
    BY DEF IInv
<1> QED BY <1>1, Invariance, PTL

\* read() returns whole messages, for any number of threads and crashes.
THEOREM WholeMessages == Spec => []ReadsWholeMessage
<1>1. IInv => ReadsWholeMessage
    BY DEF IInv, ContentInv, AtStep, ReadsWholeMessage, ReadSteps
<1> QED BY <1>1, Invariance, PTL
-----------------------------------------------------------------------------
LEMMA RefinedInit == Init => Abstract!Init
BY DEF Init, Abstract!Init

\* The death of a process maps to the loss of the message it was reading, or
\* to no step at all.
LEMMA RefinedDie ==
    ASSUME IInv, NEW e \in Endpoint, Die(e)
    PROVE  [Abstract!Next]_(Abstract!vars)
<1>1. CASE \E t \in ThreadsOf(e) : Reading(t)
  <2>1. PICK t \in ThreadsOf(e) : Reading(t)
    BY <1>1
  <2>2. t \in Thread /\ Dir(t) = Peer(e) /\ pc[t] \in ReadSteps \ {"r_wait"}
    BY <2>1 DEF ThreadsOf, Reading, Dir, DirAt, WriteSteps, ReadSteps
  <2>3. inflight[Peer(e)] \in Message
    BY <2>2 DEF IInv, ContentInv, AtStep
  <2>4. Abstract!Lose(Peer(e))
    BY <1>1, <2>3, MessageFacts DEF Die, Abstract!Lose
  <2> QED BY <2>4 DEF Abstract!Next, Peer, Endpoint
<1>2. CASE ~\E t \in ThreadsOf(e) : Reading(t)
    BY <1>2 DEF Die, Abstract!vars
<1> QED BY <1>1, <1>2

LEMMA RefinedStep ==
    ASSUME IInv, NEW t \in Thread, Step(t)
    PROVE  [Abstract!Next]_(Abstract!vars)
<1>0. AtStep(pc[t], local[t], inflight[Dir(t)], buffer[Dir(t)])
    BY DEF IInv, ContentInv
<1>1. CASE WritePost(t)
  <2>1. inflight[Side(t)] = NoMessage /\ local[t] \in Message
    BY <1>0, <1>1 DEF WritePost, AtStep, Dir, DirAt, WriteSteps
  <2>2. Abstract!Put(Side(t), local[t])
    BY <1>1, <2>1 DEF WritePost, Abstract!Put
  <2> QED BY <2>1, <2>2, SideType DEF Abstract!Next
<1>2. CASE ReadSkip(t)
  <2>1. inflight[Dir(t)] \in Message
    BY <1>0, <1>2 DEF ReadSkip, AtStep, ReadSteps
  <2>2. Abstract!Lose(Dir(t))
    BY <1>2, <2>1, MessageFacts DEF ReadSkip, Abstract!Lose
  <2> QED BY <2>2, DirType DEF Abstract!Next
<1>3. CASE ReadPost(t)
  <2>1. inflight[Dir(t)] \in Message /\ local[t] = inflight[Dir(t)]
    BY <1>0, <1>3 DEF ReadPost, AtStep, ReadSteps
  <2>2. Abstract!Get(Dir(t))
    BY <1>3, <2>1, MessageFacts DEF ReadPost, Abstract!Get
  <2> QED BY <2>2, DirType DEF Abstract!Next
<1>4. CASE SegFault(t)
    BY <1>4, RefinedDie, SideType DEF SegFault
<1>5. CASE \/ WriteWait(t) \/ WriteSize(t) \/ WriteData(t) \/ ReadWait(t)
           \/ ReadSize(t) \/ ReadCopy(t) \/ ReadClear(t)
    BY <1>5 DEF WriteWait, WriteSize, WriteData, ReadWait, ReadSize, ReadCopy,
                ReadClear, aux, Abstract!vars
<1> QED
    BY <1>1, <1>2, <1>3, <1>4, <1>5 DEF Step

LEMMA RefinedNext == IInv /\ [Next]_vars => [Abstract!Next]_(Abstract!vars)
<1> SUFFICES ASSUME IInv, [Next]_vars PROVE [Abstract!Next]_(Abstract!vars)
    OBVIOUS
<1>1. ASSUME NEW e \in Endpoint, Construct(e) \/ Crash(e)
      PROVE  [Abstract!Next]_(Abstract!vars)
  <2>1. CASE Construct(e)
    BY <2>1 DEF Construct, aux, Abstract!vars
  <2>2. CASE Crash(e)
    BY <2>2, RefinedDie DEF Crash
  <2> QED BY <1>1, <2>1, <2>2
<1>2. CASE CloseClient
    BY <1>2 DEF CloseClient, aux, Abstract!vars
<1>3. ASSUME NEW t \in Thread, NEW m \in Request, WriteCall(t, m)
      PROVE  [Abstract!Next]_(Abstract!vars)
    BY <1>3 DEF WriteCall, aux, Abstract!vars
<1>4. ASSUME NEW t \in Thread, NEW n \in 0 .. BufferSize, ReadCall(t, n)
      PROVE  [Abstract!Next]_(Abstract!vars)
    BY <1>4 DEF ReadCall, aux, Abstract!vars
<1>5. CASE UNCHANGED vars
    BY <1>5 DEF vars, Abstract!vars
<1> QED
    BY <1>1, <1>2, <1>3, <1>4, <1>5, RefinedStep DEF Next

\* SharedMemoryConnection implements the mailbox, for any number of threads,
\* calls and crashes: no message is duplicated, changed or overtaken.
THEOREM Refinement == Spec => ImplementsMailbox
BY RefinedInit, RefinedNext, Invariance, PTL DEF Spec, ImplementsMailbox, Abstract!Spec

-----------------------------------------------------------------------------
(* The tokens                                                              *)

LEMMA AtMostOne ==
    ASSUME NEW S, \A x, y \in S : x = y
    PROVE  Cardinality(S) = IF S = {} THEN 0 ELSE 1
<1>1. CASE S = {}
    BY <1>1, FS_EmptySet
<1>2. CASE S # {}
  <2>1. PICK x : S = {x}
    BY <1>2
  <2> QED BY <2>1, FS_Singleton
<1> QED BY <1>1, <1>2

\* Is a thread inside the buffer of d?
Held(d) == \E t \in Thread : Inside(t, d)

\* Since no two threads are inside, the tokens can be counted without them.
LEMMA TokenCount ==
    ASSUME IInv, IInv', NEW d \in Endpoint
    PROVE  /\ Tokens(d) = wSem[d] + rSem[d] + IF Held(d) THEN 1 ELSE 0
           /\ Tokens(d)' = wSem'[d] + rSem'[d] + IF Held(d)' THEN 1 ELSE 0
<1>1. PICK S, T : S = {t \in Thread : Inside(t, d)} /\ T = {t \in Thread : Inside(t, d)'}
    OBVIOUS
<1>2. (\A x, y \in S : x = y) /\ (\A x, y \in T : x = y)
    BY <1>1 DEF IInv, ExclusiveAccess
<1>3. Cardinality(S) = (IF S = {} THEN 0 ELSE 1) /\ Cardinality(T) = (IF T = {} THEN 0 ELSE 1)
    BY <1>2, AtMostOne
<1>4. (S = {} <=> ~Held(d)) /\ (T = {} <=> ~Held(d)')
    BY <1>1 DEF Held
<1>5. Tokens(d) = wSem[d] + rSem[d] + Cardinality(S)
    BY <1>1 DEF Tokens
<1>6. Tokens(d)' = wSem'[d] + rSem'[d] + Cardinality(T)
    BY <1>1 DEF Tokens
<1> QED BY <1>3, <1>4, <1>5, <1>6

\* A step of t that goes on inside, or stays outside.
LEMMA TokenStays ==
    ASSUME IInv, IInv', NEW t \in Thread, NEW d \in Endpoint, UNCHANGED <<wSem, rSem>>,
           \A u \in Thread \ {t} : pc'[u] = pc[u],
           InsideAt(t, pc'[t], d) <=> InsideAt(t, pc[t], d)
    PROVE  Tokens(d)' = Tokens(d)
<1>1. Held(d)' <=> Held(d)
    BY DEF Held, Inside
<1> QED BY <1>1, TokenCount

\* sem_wait takes the token from a semaphore ...
LEMMA TokenTaken ==
    ASSUME IInv, IInv', NEW t \in Thread, NEW d \in Endpoint,
           \A u \in Thread \ {t} : pc'[u] = pc[u],
           ~InsideAt(t, pc[t], d), InsideAt(t, pc'[t], d),
           \/ wSem[d] > 0 /\ wSem'[d] = wSem[d] - 1 /\ rSem'[d] = rSem[d]
           \/ rSem[d] > 0 /\ rSem'[d] = rSem[d] - 1 /\ wSem'[d] = wSem[d]
    PROVE  Tokens(d)' = Tokens(d)
<1>1. wSem[d] \in {0, 1} /\ rSem[d] \in {0, 1}
    BY DEF IInv, TokenInv
<1>2. ~Held(d)
    BY <1>1 DEF IInv, TokenInv, Held
<1>3. Held(d)'
    BY DEF Held, Inside
<1> QED BY <1>1, <1>2, <1>3, TokenCount

\* ... and sem_post gives it to one.
LEMMA TokenGiven ==
    ASSUME IInv, IInv', NEW t \in Thread, NEW d \in Endpoint,
           \A u \in Thread \ {t} : pc'[u] = pc[u],
           InsideAt(t, pc[t], d), ~InsideAt(t, pc'[t], d),
           \/ wSem'[d] = wSem[d] + 1 /\ rSem'[d] = rSem[d]
           \/ rSem'[d] = rSem[d] + 1 /\ wSem'[d] = wSem[d]
    PROVE  Tokens(d)' = Tokens(d)
<1>1. wSem[d] \in {0, 1} /\ rSem[d] \in {0, 1}
    BY DEF IInv, TokenInv
<1>2. Held(d)
    BY DEF Held, Inside
<1>3. ~Held(d)'
    BY DEF IInv, ExclusiveAccess, Held, Inside
<1> QED BY <1>1, <1>2, <1>3, TokenCount

\* The death of a process takes a token along only if one of its threads is
\* inside.
LEMMA TokenDies ==
    ASSUME IInv, IInv', NEW e \in Endpoint, Die(e), conn[e] # "absent", NEW d \in Endpoint
    PROVE  \/ Tokens(d)' = Tokens(d)
           \/ /\ Tokens(d)' < Tokens(d)
              /\ conn'[e] = "absent" /\ \E t \in ThreadsOf(e) : Inside(t, d)
<1>1. /\ UNCHANGED <<wSem, rSem>> /\ conn'[e] = "absent"
      /\ pc' = [t \in Thread |-> IF Side(t) = e THEN "idle" ELSE pc[t]]
    BY DEF Die, IInv, TypeOK
<1>2. \A t \in Thread : Inside(t, d)' => Inside(t, d) /\ t \notin ThreadsOf(e)
    BY <1>1 DEF Inside, InsideAt, AccessSteps, WriteSteps, ReadSteps, ThreadsOf
<1>3. \A t \in Thread \ ThreadsOf(e) : Inside(t, d) => Inside(t, d)'
    BY <1>1 DEF Inside, InsideAt, ThreadsOf
<1>4. wSem[d] \in Nat /\ rSem[d] \in Nat
    BY DEF IInv, TypeOK
<1>5. CASE Held(d)' <=> Held(d)
    BY <1>1, <1>5, TokenCount
<1>6. CASE Held(d) /\ ~Held(d)'
  <2>1. \E t \in ThreadsOf(e) : Inside(t, d)
    BY <1>3, <1>6 DEF Held
  <2>2. Tokens(d)' < Tokens(d)
    BY <1>1, <1>4, <1>6, TokenCount
  <2> QED BY <1>1, <2>1, <2>2
<1> QED BY <1>2, <1>5, <1>6 DEF Held

LEMMA TokenStep ==
    ASSUME IInv, IInv', NEW t \in Thread, Step(t), ~SegFault(t), NEW d \in Endpoint
    PROVE  Tokens(d)' = Tokens(d)
<1>1. pc \in [Thread -> {"idle"} \cup WriteSteps \cup ReadSteps]
      /\ wSem \in [Endpoint -> Nat] /\ rSem \in [Endpoint -> Nat]
    BY DEF IInv, TypeOK
<1>2. Side(t) \in Endpoint /\ Dir(t) \in Endpoint
    BY SideType, DirType
<1>3. CASE WriteWait(t)
  <2>1. /\ pc[t] = "w_wait" /\ pc' = [pc EXCEPT ![t] = "w_size"] /\ rSem' = rSem
        /\ wSem[Side(t)] > 0 /\ wSem' = [wSem EXCEPT ![Side(t)] = @ - 1]
    BY <1>3 DEF WriteWait, Goto
  <2>2. ~InsideAt(t, pc[t], d) /\ (InsideAt(t, pc'[t], d) <=> d = Side(t))
    BY <1>1, <2>1 DEF InsideAt, AccessSteps, WriteSteps, DirAt
  <2>3. CASE d = Side(t)
    BY <1>1, <2>1, <2>2, <2>3, TokenTaken
  <2>4. CASE d # Side(t)
    <3>1. wSem'[d] = wSem[d] /\ rSem'[d] = rSem[d] /\ (Held(d)' <=> Held(d))
      BY <1>1, <2>1, <2>2, <2>4 DEF Held, Inside
    <3> QED BY <3>1, TokenCount
  <2> QED BY <2>3, <2>4
<1>4. CASE ReadWait(t)
  <2>1. /\ pc[t] = "r_wait" /\ pc' = [pc EXCEPT ![t] = "r_size"] /\ wSem' = wSem
        /\ rSem[Dir(t)] > 0 /\ rSem' = [rSem EXCEPT ![Dir(t)] = @ - 1]
    BY <1>4 DEF ReadWait, Goto
  <2>2. ~InsideAt(t, pc[t], d) /\ (InsideAt(t, pc'[t], d) <=> d = Dir(t))
    BY <1>1, <2>1 DEF InsideAt, AccessSteps, WriteSteps, ReadSteps, DirAt, Dir
  <2>3. CASE d = Dir(t)
    BY <1>1, <2>1, <2>2, <2>3, TokenTaken
  <2>4. CASE d # Dir(t)
    <3>1. wSem'[d] = wSem[d] /\ rSem'[d] = rSem[d] /\ (Held(d)' <=> Held(d))
      BY <1>1, <2>1, <2>2, <2>4 DEF Held, Inside
    <3> QED BY <3>1, TokenCount
  <2> QED BY <2>3, <2>4
<1>5. CASE WritePost(t) \/ ReadSkip(t) \/ ReadPost(t)
  <2>1. /\ pc[t] \in {"w_post", "r_skip", "r_post"} /\ pc' = [pc EXCEPT ![t] = "idle"]
        /\ \/ wSem' = [wSem EXCEPT ![Dir(t)] = @ + 1] /\ rSem' = rSem
           \/ rSem' = [rSem EXCEPT ![Dir(t)] = @ + 1] /\ wSem' = wSem
    BY <1>5 DEF WritePost, ReadSkip, ReadPost, Return, Goto, Dir, DirAt, WriteSteps
  <2>2. ~InsideAt(t, pc'[t], d) /\ (InsideAt(t, pc[t], d) <=> d = Dir(t))
    BY <1>1, <2>1 DEF InsideAt, AccessSteps, WriteSteps, ReadSteps, Dir
  <2>3. CASE d = Dir(t)
    BY <1>1, <2>1, <2>2, <2>3, TokenGiven
  <2>4. CASE d # Dir(t)
    <3>1. wSem'[d] = wSem[d] /\ rSem'[d] = rSem[d] /\ (Held(d)' <=> Held(d))
      BY <1>1, <2>1, <2>2, <2>4 DEF Held, Inside
    <3> QED BY <3>1, TokenCount
  <2> QED BY <2>3, <2>4
<1>6. CASE WriteSize(t) \/ WriteData(t)
  <2>1. /\ pc[t] \in {"w_size", "w_data"} /\ UNCHANGED <<wSem, rSem>>
        /\ \E x \in {"w_data", "w_post"} : pc' = [pc EXCEPT ![t] = x]
    BY <1>6 DEF WriteSize, WriteData, Goto
  <2>2. InsideAt(t, pc'[t], d) <=> InsideAt(t, pc[t], d)
    BY <1>1, <2>1 DEF InsideAt, AccessSteps, WriteSteps, DirAt
  <2> QED BY <1>1, <2>1, <2>2, TokenStays
<1>7. CASE ReadSize(t) \/ ReadCopy(t) \/ ReadClear(t)
  <2>1. /\ pc[t] \in {"r_size", "r_copy", "r_clear"} /\ UNCHANGED <<wSem, rSem>>
        /\ \E x \in {"r_skip", "r_copy", "r_clear", "r_post"} : pc' = [pc EXCEPT ![t] = x]
    BY <1>7 DEF ReadSize, ReadCopy, ReadClear, Goto
  <2>2. InsideAt(t, pc'[t], d) <=> InsideAt(t, pc[t], d)
    BY <1>1, <2>1 DEF InsideAt, AccessSteps, WriteSteps, ReadSteps, DirAt
  <2> QED BY <1>1, <2>1, <2>2, TokenStays
<1> QED BY <1>3, <1>4, <1>5, <1>6, <1>7 DEF Step

\* The right to access a buffer never multiplies, and is lost only with a
\* process that dies inside: every path through read() and write() of
\* SharedMemoryConnection.cpp posts exactly one semaphore.
THEOREM TokensKept == Spec => TokenDiesOnlyWithItsHolder
<1> DEFINE Kept(d) ==
             \/ Tokens(d)' = Tokens(d)
             \/ /\ Tokens(d)' < Tokens(d)
                /\ \E e \in Endpoint : /\ conn[e] # "absent" /\ conn'[e] = "absent"
                                       /\ \E t \in ThreadsOf(e) : Inside(t, d)
           A == \A d \in Endpoint : Kept(d)
<1>1. IInv /\ IInv' /\ [Next]_vars => [A]_vars
  <2> SUFFICES ASSUME IInv, IInv', Next, NEW d \in Endpoint PROVE Kept(d)
    OBVIOUS
  <2>1. ASSUME NEW e \in Endpoint, Crash(e) PROVE Kept(d)
    BY <2>1, TokenDies DEF Crash
  <2>2. CASE \/ \E e \in Endpoint : Construct(e)
             \/ CloseClient
    BY <2>2 DEF Construct, CloseClient, Tokens, Inside
  <2>3. ASSUME NEW t \in Thread,
               \/ \E m \in Request : WriteCall(t, m)
               \/ \E n \in 0 .. BufferSize : ReadCall(t, n)
        PROVE  Kept(d)
    <3>1. /\ pc[t] = "idle" /\ UNCHANGED <<wSem, rSem>>
          /\ \E x \in {"w_wait", "r_wait"} : pc' = [pc EXCEPT ![t] = x]
      BY <2>3 DEF WriteCall, ReadCall, Goto
    <3>2. /\ \A u \in Thread \ {t} : pc'[u] = pc[u]
          /\ ~InsideAt(t, pc[t], d) /\ ~InsideAt(t, pc'[t], d)
      BY <3>1 DEF IInv, TypeOK, InsideAt, AccessSteps, WriteSteps, ReadSteps
    <3> QED BY <3>1, <3>2, TokenStays
  <2>4. ASSUME NEW t \in Thread, Step(t) PROVE Kept(d)
    <3>1. CASE SegFault(t)
      <4>1. Side(t) \in Endpoint /\ Die(Side(t)) /\ conn[Side(t)] # "absent"
        BY <3>1, SideType DEF SegFault
      <4> QED BY <4>1, TokenDies
    <3>2. CASE ~SegFault(t)
      BY <2>4, <3>2, TokenStep
    <3> QED BY <3>1, <3>2
  <2> QED BY <2>1, <2>2, <2>3, <2>4 DEF Next
<1> QED BY <1>1, Invariance, PTL DEF Spec, TokenDiesOnlyWithItsHolder
=============================================================================
