--------------------------- MODULE WsWrapperProofs ---------------------------
(***************************************************************************)
(* Proofs about WsWrapper, for all sizes of messages and reads: what the   *)
(* handler reads is a byte stream, and what the callbacks find.            *)
(*                                                                         *)
(* The refinement needs to know what queue_ holds: StreamInv says that its *)
(* messages are the bytes that have arrived and were not read, cut into    *)
(* pieces.  LifeInv relates the lives of the WebSocket connection, of the  *)
(* wrapper and of the handler.                                             *)
(***************************************************************************)
EXTENDS WsWrapper, TLAPS

\* f says after how many bytes each message of queue_ begins, and the last
\* of f where they end.
Cut(f) ==
    /\ f \in [1 .. Len(queue_) + 1 -> Nat]
    /\ f[1] = Len(out)
    /\ f[Len(queue_) + 1] = Len(arrived)
    /\ \A k \in 1 .. Len(queue_) + 1 : f[k] <= Len(arrived)
    /\ \A k \in 1 .. Len(queue_) :
          /\ f[k + 1] = f[k] + Len(queue_[k])
          /\ \A i \in 1 .. Len(queue_[k]) : queue_[k][i] = f[k] + i

\* A byte is its position, in what has arrived and in what was read.
StreamInv ==
    /\ \A i \in 1 .. Len(arrived) : arrived[i] = i
    /\ \A i \in 1 .. Len(out) : out[i] = i
    /\ \E f \in [1 .. Len(queue_) + 1 -> Nat] : Cut(f)

LifeInv ==
    /\ wrapper = "none" <=> ws = "new"
    /\ wrapper = "freed" <=> handler = "ended"
    /\ end = "no" <=> handler # "ended"
    /\ end = "eof" => closed_
    /\ closed_ => ws \in {"closed", "freed"}
    /\ ws = "open" => entry = "wrapper" \/ wrapper = "freed"
    /\ handler \in {"check", "asleep"} => size # 0
    /\ CallbacksFindWrapper

IInv == TypeOK /\ LifeInv /\ StreamInv

-----------------------------------------------------------------------------
LEMMA InitIInv == Init => IInv
<1> SUFFICES ASSUME Init PROVE IInv
    OBVIOUS
<1> USE ConstantAssumption
<1>1. closed_ \in BOOLEAN /\ signal \in BOOLEAN /\ stop_ \in BOOLEAN
    BY DEF Init
<1>2. /\ queue_ \in Seq(Seq(1 .. MaxBytes)) /\ arrived \in Seq(1 .. MaxBytes)
      /\ out \in Seq(1 .. MaxBytes)
    BY DEF Init
<1>3. TypeOK
    BY <1>1, <1>2 DEF Init, TypeOK
<1>4. LifeInv
    BY DEF Init, LifeInv, CallbacksFindWrapper
<1>5. StreamInv
  <2> DEFINE f == [k \in 1 .. 1 |-> 0]
  <2>1. Len(queue_) = 0 /\ Len(out) = 0 /\ Len(arrived) = 0
    BY DEF Init
  <2>2. f \in [1 .. Len(queue_) + 1 -> Nat] /\ f[1] = 0 /\ \A k \in 1 .. 1 : f[k] = 0
    BY <2>1
  <2> HIDE DEF f
  <2>3. Cut(f)
    BY <2>1, <2>2 DEF Cut
  <2> QED BY <2>1, <2>2, <2>3 DEF StreamInv
<1> QED BY <1>3, <1>4, <1>5 DEF IInv

-----------------------------------------------------------------------------
(* The lives of the connection, the wrapper and the handler                *)

LEMMA CallbackLife ==
    ASSUME TypeOK, LifeInv, broken = "no",
           \/ OnOpen \/ OnOpenLost \/ OnClose \/ OnCloseLost \/ PushLost
           \/ Notify \/ Reap
           \/ \E n \in 0 .. MaxMessage : Push(n)
    PROVE  LifeInv'
<1> USE DEF LifeInv, CallbacksFindWrapper
<1>1. CASE OnOpen
    BY <1>1 DEF OnOpen, TypeOK, aux
<1>2. CASE OnClose
    BY <1>2 DEF OnClose, Found, TypeOK, aux
<1>3. CASE OnOpenLost \/ OnCloseLost \/ PushLost
    BY <1>3 DEF OnOpenLost, OnCloseLost, PushLost, Lost, Found, TypeOK, aux
<1>4. CASE Notify
    BY <1>4 DEF Notify, TypeOK, aux
<1>5. CASE Reap
    BY <1>5 DEF Reap, TypeOK, aux
<1>6. ASSUME NEW n \in 0 .. MaxMessage, Push(n) PROVE LifeInv'
    BY <1>6 DEF Push, TypeOK
<1> QED BY <1>1, <1>2, <1>3, <1>4, <1>5, <1>6

LEMMA HandlerLife ==
    ASSUME TypeOK, LifeInv, broken = "no", Handle \/ WriteCheck \/ Quit
    PROVE  LifeInv'
<1> USE DEF LifeInv, CallbacksFindWrapper, HandlerEnds
<1>1. ASSUME NEW n \in 1 .. MaxRead, ReadCall(n) PROVE LifeInv'
    BY <1>1 DEF ReadCall, TypeOK, aux
<1>2. CASE ReadSleep
    BY <1>2 DEF ReadSleep, TypeOK, aux
<1>3. CASE ReadEof
    BY <1>3 DEF ReadEof, TypeOK
<1>4. CASE ReadTake
    BY <1>4 DEF ReadTake, TypeOK
<1>5. CASE WriteSend
    BY <1>5 DEF WriteSend, TypeOK, aux
<1>6. CASE WriteCheck
    BY <1>6 DEF WriteCheck, TypeOK
<1>7. CASE Quit
    BY <1>7 DEF Quit, TypeOK
<1> QED BY <1>1, <1>2, <1>3, <1>4, <1>5, <1>6, <1>7 DEF Handle

LEMMA LoopLife ==
    ASSUME TypeOK, LifeInv, broken = "no", LoopWake \/ Visit \/ VisitLost \/ Stop
    PROVE  LifeInv'
<1> USE DEF LifeInv, CallbacksFindWrapper, aux
<1>1. CASE LoopWake \/ Stop
    BY <1>1 DEF LoopWake, Stop, TypeOK
<1>2. CASE Visit
    BY <1>2 DEF Visit, TypeOK
<1>3. CASE VisitLost
    BY <1>3 DEF VisitLost, Freed, Lost, TypeOK
<1> QED BY <1>1, <1>2, <1>3

-----------------------------------------------------------------------------
(* The bytes                                                               *)

LEMMA ConcatFacts ==
    ASSUME NEW S, NEW s \in Seq(S), NEW t \in Seq(S)
    PROVE  /\ s \o t \in Seq(S) /\ Len(s \o t) = Len(s) + Len(t)
           /\ \A i \in 1 .. Len(s) : (s \o t)[i] = s[i]
           /\ \A i \in 1 .. Len(t) : (s \o t)[Len(s) + i] = t[i]
OBVIOUS

LEMMA AppendFacts ==
    ASSUME NEW S, NEW s \in Seq(S), NEW e \in S
    PROVE  /\ Append(s, e) \in Seq(S) /\ Len(Append(s, e)) = Len(s) + 1
           /\ Append(s, e)[Len(s) + 1] = e
           /\ \A i \in 1 .. Len(s) : Append(s, e)[i] = s[i]
OBVIOUS

LEMMA PartFacts ==
    ASSUME NEW S, NEW s \in Seq(S), NEW m \in 1 .. Len(s) + 1, NEW n \in m - 1 .. Len(s)
    PROVE  /\ SubSeq(s, m, n) \in Seq(S)
           /\ Len(SubSeq(s, m, n)) = n - m + 1
           /\ \A i \in 1 .. n - m + 1 : SubSeq(s, m, n)[i] = s[m + i - 1]
OBVIOUS

LEMMA TailFacts ==
    ASSUME NEW S, NEW s \in Seq(S), s # << >>
    PROVE  /\ Len(s) \in Nat \ {0} /\ Head(s) = s[1] /\ Head(s) \in S
           /\ Tail(s) \in Seq(S) /\ Len(Tail(s)) = Len(s) - 1
           /\ \A i \in 1 .. Len(s) - 1 : Tail(s)[i] = s[i + 1]
OBVIOUS

LEMMA ConsFacts ==
    ASSUME NEW S, NEW s \in Seq(S), NEW e \in S
    PROVE  /\ <<e>> \o s \in Seq(S) /\ Len(<<e>> \o s) = Len(s) + 1
           /\ (<<e>> \o s)[1] = e
           /\ \A i \in 1 .. Len(s) : (<<e>> \o s)[i + 1] = s[i]
OBVIOUS

\* Sequences of bytes that are their positions are equal when they are
\* equally long.
LEMMA SamePositions ==
    ASSUME NEW S, NEW s \in Seq(S), NEW t \in Seq(S), Len(s) = Len(t),
           \A i \in 1 .. Len(s) : s[i] = i, \A i \in 1 .. Len(t) : t[i] = i
    PROVE  s = t
OBVIOUS

Bytes ==
    /\ queue_ \in Seq(Seq(1 .. MaxBytes))
    /\ arrived \in Seq(1 .. MaxBytes) /\ out \in Seq(1 .. MaxBytes)

\* A message adds a piece at the end.
LEMMA PushStream ==
    ASSUME Bytes, StreamInv, NEW n \in 0 .. MaxMessage, Push(n)
    PROVE  /\ Bytes' /\ StreamInv'
           /\ Len(arrived') = Len(arrived) + n
           /\ \A i \in 1 .. Len(arrived) : arrived'[i] = arrived[i]
           /\ n = 0 => arrived' = arrived
<1>0. MaxBytes \in Nat /\ MaxMessage \in Nat
    BY ConstantAssumption
<1>1. PICK msg : msg = [i \in 1 .. n |-> Len(arrived) + i]
    OBVIOUS
<1>2. /\ queue_' = Append(queue_, msg) /\ arrived' = arrived \o msg /\ out' = out
      /\ Len(arrived) + n <= MaxBytes
    BY <1>1 DEF Push
<1>3. Len(arrived) \in Nat /\ Len(queue_) \in Nat /\ Len(out) \in Nat
    BY DEF Bytes
<1>4. /\ msg \in Seq(1 .. MaxBytes) /\ Len(msg) = n
      /\ \A i \in 1 .. n : msg[i] = Len(arrived) + i
    BY <1>0, <1>1, <1>2, <1>3
<1>5. /\ arrived' \in Seq(1 .. MaxBytes) /\ Len(arrived') = Len(arrived) + n
      /\ \A i \in 1 .. Len(arrived) : arrived'[i] = arrived[i]
      /\ \A i \in 1 .. n : arrived'[Len(arrived) + i] = msg[i]
  <2>1. PICK s \in Seq(1 .. MaxBytes) : s = arrived
    BY DEF Bytes
  <2>2. /\ s \o msg \in Seq(1 .. MaxBytes) /\ Len(s \o msg) = Len(s) + n
        /\ \A i \in 1 .. Len(s) : (s \o msg)[i] = s[i]
        /\ \A i \in 1 .. n : (s \o msg)[Len(s) + i] = msg[i]
    BY <1>4, ConcatFacts
  <2> QED BY <1>2, <2>1, <2>2
<1>6. /\ queue_' \in Seq(Seq(1 .. MaxBytes)) /\ Len(queue_') = Len(queue_) + 1
      /\ \A k \in 1 .. Len(queue_) : queue_'[k] = queue_[k]
      /\ queue_'[Len(queue_) + 1] = msg
    BY <1>2, <1>4, AppendFacts DEF Bytes
<1>7. Bytes'
    BY <1>2, <1>5, <1>6 DEF Bytes
<1>8. \A i \in 1 .. Len(arrived') : arrived'[i] = i
  <2> TAKE i \in 1 .. Len(arrived')
  <2>1. CASE i <= Len(arrived)
    BY <1>3, <1>5, <2>1 DEF StreamInv
  <2>2. CASE i > Len(arrived)
    <3>1. i - Len(arrived) \in 1 .. n /\ Len(arrived) + (i - Len(arrived)) = i
      BY <1>3, <1>5, <2>2
    <3> QED BY <1>4, <1>5, <3>1
  <2> QED BY <1>3, <2>1, <2>2
<1>9. PICK f \in [1 .. Len(queue_) + 1 -> Nat] : Cut(f)
    BY DEF StreamInv
<1> DEFINE q == Len(queue_)
<1>10. PICK g \in [1 .. q + 2 -> Nat] : /\ \A k \in 1 .. q + 1 : g[k] = f[k]
                                        /\ g[q + 2] = Len(arrived) + n
  <2> DEFINE h == [k \in 1 .. q + 2 |-> IF k <= q + 1 THEN f[k] ELSE Len(arrived) + n]
  <2>1. /\ h \in [1 .. q + 2 -> Nat] /\ \A k \in 1 .. q + 1 : h[k] = f[k]
        /\ h[q + 2] = Len(arrived) + n
    BY <1>3, <1>9
  <2> QED BY <2>1
<1>11. \A k \in 1 .. Len(queue_') : /\ g[k + 1] = g[k] + Len(queue_'[k])
                                    /\ \A i \in 1 .. Len(queue_'[k]) : queue_'[k][i] = g[k] + i
  <2> TAKE k \in 1 .. Len(queue_')
  <2>1. CASE k <= q
    <3>1. k \in 1 .. q /\ k \in 1 .. q + 1 /\ k + 1 \in 1 .. q + 1
      BY <1>3, <1>6, <2>1
    <3>2. g[k] = f[k] /\ g[k + 1] = f[k + 1] /\ queue_'[k] = queue_[k]
      BY <1>6, <1>10, <3>1
    <3> QED BY <1>9, <3>1, <3>2 DEF Cut
  <2>2. CASE k = q + 1
    <3>1. q + 1 \in 1 .. q + 1 /\ k + 1 = q + 2
      BY <1>3, <2>2
    <3>2. g[k] = Len(arrived) /\ g[k + 1] = Len(arrived) + n /\ queue_'[k] = msg
      BY <1>6, <1>9, <1>10, <2>2, <3>1 DEF Cut
    <3> QED BY <1>4, <3>2
  <2> QED BY <1>3, <1>6, <2>1, <2>2
<1>12. Cut(g)'
  <2>0. g \in [1 .. Len(queue_') + 1 -> Nat]
    BY <1>3, <1>6, <1>10
  <2>1. g[1] = Len(out') /\ g[Len(queue_') + 1] = Len(arrived')
    BY <1>2, <1>3, <1>5, <1>6, <1>9, <1>10 DEF Cut
  <2>2. \A k \in 1 .. Len(queue_') + 1 : g[k] <= Len(arrived')
    <3> TAKE k \in 1 .. Len(queue_') + 1
    <3>1. CASE k \in 1 .. q + 1
      <4>1. g[k] = f[k] /\ f[k] \in Nat /\ f[k] <= Len(arrived)
        BY <1>9, <1>10, <3>1 DEF Cut
      <4> QED BY <1>3, <1>5, <4>1
    <3>2. CASE k = q + 2
      BY <1>3, <1>5, <1>10, <3>2
    <3> QED BY <1>3, <1>6, <3>1, <3>2
  <2> QED BY <1>11, <2>0, <2>1, <2>2 DEF Cut
<1>13. StreamInv'
  <2>1. \E h \in [1 .. Len(queue_') + 1 -> Nat] : Cut(h)'
    BY <1>12 DEF Cut
  <2> QED BY <1>2, <1>8, <2>1 DEF StreamInv
<1>14. n = 0 => arrived' = arrived
    BY <1>5, <1>8, SamePositions DEF Bytes, StreamInv
<1> QED BY <1>5, <1>7, <1>13, <1>14

\* A read takes the first piece, or cuts it in two.
LEMMA TakeStream ==
    ASSUME Bytes, StreamInv, size \in Nat \ {0}, ReadTake
    PROVE  /\ Bytes' /\ StreamInv'
           /\ Len(out) \in Nat /\ Len(out') \in Len(out) .. Len(arrived)
           /\ handler' = "ended" => out' = out
           /\ handler' # "ended" => Len(out') # Len(out)
<1>0. PICK B : B = 1 .. MaxBytes
    OBVIOUS
<1> DEFINE q == Len(queue_)
<1>1. PICK msg : msg = Head(queue_)
    OBVIOUS
<1>2. /\ q \in Nat \ {0} /\ msg = queue_[1] /\ msg \in Seq(B) /\ Len(msg) \in Nat
      /\ Tail(queue_) \in Seq(Seq(B)) /\ Len(Tail(queue_)) = q - 1
      /\ \A k \in 1 .. q - 1 : Tail(queue_)[k] = queue_[k + 1]
    BY <1>0, <1>1, TailFacts DEF ReadTake, Bytes
<1>3. PICK t : t = IF size < Len(msg) THEN size ELSE Len(msg)
    OBVIOUS
<1>4. t \in 0 .. Len(msg) /\ (t = 0 => Len(msg) = 0)
    BY <1>2, <1>3
<1>5. PICK taken, rest : taken = SubSeq(msg, 1, t) /\ rest = SubSeq(msg, t + 1, Len(msg))
    OBVIOUS
<1>6. /\ queue_' = IF rest = << >> THEN Tail(queue_) ELSE <<rest>> \o Tail(queue_)
      /\ out' = out \o taken /\ arrived' = arrived
      /\ handler' = IF t = 0 THEN "ended" ELSE "idle"
    BY <1>1, <1>3, <1>5 DEF ReadTake, HandlerEnds
<1>7. /\ taken \in Seq(B) /\ Len(taken) = t /\ \A i \in 1 .. t : taken[i] = msg[i]
      /\ rest \in Seq(B) /\ Len(rest) = Len(msg) - t
      /\ \A i \in 1 .. Len(msg) - t : rest[i] = msg[t + i]
  <2>1. /\ taken \in Seq(B) /\ Len(taken) = t - 1 + 1
        /\ \A i \in 1 .. t - 1 + 1 : taken[i] = msg[1 + i - 1]
    <3>1. 1 \in 1 .. Len(msg) + 1 /\ t \in 1 - 1 .. Len(msg)
      BY <1>2, <1>4
    <3> QED BY <1>2, <1>5, <3>1, PartFacts
  <2>2. /\ rest \in Seq(B) /\ Len(rest) = Len(msg) - (t + 1) + 1
        /\ \A i \in 1 .. Len(msg) - (t + 1) + 1 : rest[i] = msg[t + 1 + i - 1]
    <3>1. t + 1 \in 1 .. Len(msg) + 1 /\ Len(msg) \in (t + 1) - 1 .. Len(msg)
      BY <1>2, <1>4
    <3> QED BY <1>2, <1>5, <3>1, PartFacts
  <2> QED BY <1>2, <1>4, <2>1, <2>2
<1>8. PICK f \in [1 .. q + 1 -> Nat] : Cut(f)
    BY DEF StreamInv
<1>9. /\ Len(out) \in Nat /\ Len(arrived) \in Nat
      /\ f[1] = Len(out) /\ f[2] = Len(out) + Len(msg) /\ f[2] <= Len(arrived)
      /\ \A i \in 1 .. Len(msg) : msg[i] = Len(out) + i
  <2>1. 1 \in 1 .. q /\ 1 + 1 = 2 /\ 1 \in 1 .. q + 1 /\ 2 \in 1 .. q + 1
    BY <1>2
  <2>2. Len(out) \in Nat /\ Len(arrived) \in Nat
    BY DEF Bytes
  <2> QED BY <1>2, <1>8, <2>1, <2>2 DEF Cut
<1>10. /\ out' \in Seq(B) /\ Len(out') = Len(out) + t
       /\ \A i \in 1 .. Len(out) : out'[i] = out[i]
       /\ \A i \in 1 .. t : out'[Len(out) + i] = taken[i]
  <2>1. PICK s \in Seq(B) : s = out
    BY <1>0 DEF Bytes
  <2>2. /\ s \o taken \in Seq(B) /\ Len(s \o taken) = Len(s) + t
        /\ \A i \in 1 .. Len(s) : (s \o taken)[i] = s[i]
        /\ \A i \in 1 .. t : (s \o taken)[Len(s) + i] = taken[i]
    <3>1. taken \in Seq(B) /\ Len(taken) = t
      BY <1>7
    <3>2. /\ s \o taken \in Seq(B) /\ Len(s \o taken) = Len(s) + Len(taken)
          /\ \A i \in 1 .. Len(s) : (s \o taken)[i] = s[i]
          /\ \A i \in 1 .. Len(taken) : (s \o taken)[Len(s) + i] = taken[i]
      BY <2>1, <3>1
    <3> QED BY <3>1, <3>2, Zenon
  <2> QED BY <1>6, <2>1, <2>2
<1>11. \A i \in 1 .. Len(out') : out'[i] = i
  <2> TAKE i \in 1 .. Len(out')
  <2>1. CASE i <= Len(out)
    <3>1. i \in 1 .. Len(out)
      BY <1>4, <1>9, <1>10, <2>1
    <3> QED BY <1>10, <3>1 DEF StreamInv
  <2>2. CASE i > Len(out)
    <3>1. PICK j \in 1 .. t : i = Len(out) + j
      <4>1. i - Len(out) \in 1 .. t /\ i = Len(out) + (i - Len(out))
        BY <1>4, <1>9, <1>10, <2>2
      <4> QED BY <4>1
    <3>2. j \in 1 .. Len(msg)
      BY <1>2, <1>4
    <3>3. out'[i] = msg[j] /\ msg[j] = Len(out) + j
      BY <1>7, <1>9, <1>10, <3>1, <3>2
    <3> QED BY <3>1, <3>3
  <2> QED BY <1>4, <1>9, <1>10, <2>1, <2>2
<1>12. Len(rest) = 0 <=> rest = << >>
    BY <1>7
<1>13. queue_' \in Seq(Seq(B)) /\ \E g \in [1 .. Len(queue_') + 1 -> Nat] : Cut(g)'
  <2>1. CASE rest = << >>
    <3>1. /\ queue_' \in Seq(Seq(B)) /\ Len(queue_') = q - 1
          /\ \A k \in 1 .. q - 1 : queue_'[k] = queue_[k + 1]
      BY <1>2, <1>6, <2>1
    <3>2. PICK g \in [1 .. q -> Nat] : \A k \in 1 .. q : g[k] = f[k + 1]
      <4> DEFINE h == [k \in 1 .. q |-> f[k + 1]]
      <4>1. h \in [1 .. q -> Nat] /\ \A k \in 1 .. q : h[k] = f[k + 1]
        BY <1>2, <1>8
      <4> QED BY <4>1
    <3>3. Len(queue_') + 1 = q /\ g[1] = Len(out') /\ g[q] = Len(arrived)
      <4>1. t = Len(msg)
        BY <1>2, <1>4, <1>7, <1>12, <2>1
      <4>2. 1 \in 1 .. q /\ 1 + 1 = 2 /\ q \in 1 .. q /\ Len(queue_') + 1 = q
        BY <1>2, <3>1
      <4>3. g[1] = f[2] /\ g[q] = f[q + 1]
        BY <3>2, <4>2
      <4> QED BY <1>8, <1>9, <1>10, <4>1, <4>2, <4>3 DEF Cut
    <3>4. \A k \in 1 .. q : g[k] <= Len(arrived)
      BY <1>2, <1>8, <3>2 DEF Cut
    <3>5. \A k \in 1 .. Len(queue_') :
             /\ g[k + 1] = g[k] + Len(queue_'[k])
             /\ \A i \in 1 .. Len(queue_'[k]) : queue_'[k][i] = g[k] + i
      <4> TAKE k \in 1 .. Len(queue_')
      <4>1. k \in 1 .. q - 1 /\ k + 1 \in 1 .. q /\ k \in 1 .. q
        BY <1>2, <3>1
      <4>2. g[k] = f[k + 1] /\ g[k + 1] = f[(k + 1) + 1] /\ queue_'[k] = queue_[k + 1]
        BY <3>1, <3>2, <4>1
      <4> QED BY <1>8, <4>1, <4>2 DEF Cut
    <3>6. Cut(g)'
      BY <1>6, <3>2, <3>3, <3>4, <3>5 DEF Cut
    <3> QED BY <3>1, <3>2, <3>3, <3>6
  <2>2. CASE rest # << >>
    <3>1. /\ queue_' \in Seq(Seq(B)) /\ Len(queue_') = q /\ queue_'[1] = rest
          /\ \A k \in 2 .. q : queue_'[k] = queue_[k]
      <4>1. PICK s \in Seq(Seq(B)) : s = Tail(queue_)
        BY <1>2
      <4>2. /\ <<rest>> \o s \in Seq(Seq(B)) /\ Len(<<rest>> \o s) = Len(s) + 1
            /\ (<<rest>> \o s)[1] = rest
            /\ \A k \in 1 .. Len(s) : (<<rest>> \o s)[k + 1] = s[k]
        BY <1>7, ConsFacts
      <4>3. queue_' = <<rest>> \o s /\ Len(s) = q - 1
        BY <1>2, <1>6, <2>2, <4>1
      <4>4. \A k \in 1 .. q - 1 : queue_'[k + 1] = queue_[k + 1]
        BY <1>2, <4>1, <4>2, <4>3
      <4>5. ASSUME NEW k \in 2 .. q PROVE queue_'[k] = queue_[k]
        <5>1. k - 1 \in 1 .. q - 1 /\ (k - 1) + 1 = k
          BY <1>2
        <5> QED BY <4>4, <5>1
      <4>6. Len(s) + 1 = q
        BY <1>2, <4>3
      <4> QED BY <4>2, <4>3, <4>5, <4>6
    <3>2. PICK g \in [1 .. q + 1 -> Nat] : /\ g[1] = f[1] + t
                                          /\ \A k \in 2 .. q + 1 : g[k] = f[k]
      <4> DEFINE h == [f EXCEPT ![1] = f[1] + t]
      <4>1. /\ h \in [1 .. q + 1 -> Nat] /\ h[1] = f[1] + t
            /\ \A k \in 2 .. q + 1 : h[k] = f[k]
        <5>1. 1 \in 1 .. q + 1 /\ f[1] + t \in Nat /\ 1 \notin 2 .. q + 1
          BY <1>2, <1>4, <1>9
        <5>2. \A k \in 2 .. q + 1 : k \in 1 .. q + 1
          BY <1>2
        <5> HIDE DEF q
        <5> QED BY <5>1, <5>2, <1>8
      <4> QED BY <4>1
    <3>3. g[1] = Len(out') /\ g[q + 1] = Len(arrived)
      <4>1. q + 1 \in 2 .. q + 1 /\ g[q + 1] = f[q + 1]
        BY <1>2, <3>2
      <4>2. Len(out') = Len(out) + t
        BY <1>10
      <4> QED BY <1>8, <1>9, <3>2, <4>1, <4>2 DEF Cut
    <3>4. \A k \in 1 .. q + 1 : g[k] <= Len(arrived)
      <4> TAKE k \in 1 .. q + 1
      <4>1. CASE k = 1
        BY <1>2, <1>4, <1>9, <3>2, <4>1
      <4>2. CASE k \in 2 .. q + 1
        BY <1>8, <3>2, <4>2 DEF Cut
      <4> QED BY <1>2, <4>1, <4>2
    <3>5. \A k \in 1 .. q : /\ g[k + 1] = g[k] + Len(queue_'[k])
                            /\ \A i \in 1 .. Len(queue_'[k]) : queue_'[k][i] = g[k] + i
      <4> TAKE k \in 1 .. q
      <4>1. CASE k = 1
        <5>1. 1 + 1 \in 2 .. q + 1 /\ g[1 + 1] = f[2]
          BY <1>2, <3>2
        <5>2. g[1 + 1] = g[1] + Len(rest)
          <6>1. g[1] = Len(out) + t /\ g[1 + 1] = Len(out) + Len(msg)
            BY <1>9, <3>2, <5>1
          <6>2. Len(rest) = Len(msg) - t /\ {t, Len(msg), Len(out)} \subseteq Nat
            BY <1>2, <1>4, <1>7, <1>9
          <6> QED BY <6>1, <6>2
        <5>3. ASSUME NEW i \in 1 .. Len(rest) PROVE rest[i] = g[1] + i
          <6>1. t + i \in 1 .. Len(msg) /\ i \in 1 .. Len(msg) - t
            BY <1>2, <1>4, <1>7
          <6>2. rest[i] = Len(out) + (t + i)
            BY <1>7, <1>9, <6>1
          <6> QED BY <1>4, <1>9, <3>2, <6>2
        <5> QED BY <3>1, <4>1, <5>2, <5>3
      <4>2. CASE k # 1
        <5>1. k \in 2 .. q /\ k \in 2 .. q + 1 /\ k + 1 \in 2 .. q + 1
          BY <1>2, <4>2
        <5> QED BY <1>8, <3>1, <3>2, <5>1 DEF Cut
      <4> QED BY <4>1, <4>2
    <3>6. Cut(g)'
      BY <1>6, <3>1, <3>2, <3>3, <3>4, <3>5 DEF Cut
    <3> QED BY <3>1, <3>2, <3>6
  <2> QED BY <2>1, <2>2
<1>14. Bytes' /\ StreamInv'
    BY <1>0, <1>6, <1>10, <1>11, <1>13 DEF Bytes, StreamInv
<1>15. Len(out') \in Len(out) .. Len(arrived) /\ (t # 0 => Len(out') # Len(out))
    BY <1>2, <1>4, <1>9, <1>10
<1>16. t = 0 => out' = out
  <2> SUFFICES ASSUME t = 0 PROVE out' = out
    OBVIOUS
  <2>1. Len(out') = Len(out) /\ out \in Seq(B) /\ \A i \in 1 .. Len(out) : out[i] = i
    BY <1>0, <1>9, <1>10 DEF Bytes, StreamInv
  <2> QED BY <1>10, <1>11, <2>1, SamePositions
<1> QED BY <1>6, <1>9, <1>14, <1>15, <1>16

LEMMA OtherStream ==
    ASSUME Bytes, StreamInv, UNCHANGED <<queue_, arrived, out>>
    PROVE  Bytes' /\ StreamInv'
BY DEF Bytes, StreamInv, Cut

-----------------------------------------------------------------------------
(* Types                                                                   *)

\* The part of TypeOK that is not Bytes.
Control ==
    /\ closed_ \in BOOLEAN /\ signal \in BOOLEAN /\ stop_ \in BOOLEAN
    /\ wrapper \in {"none", "alive", "freed"}
    /\ wrapper = "alive" <=> handler \notin {"none", "ended"}
    /\ entry \in {"none", "wrapper"}
    /\ ws \in {"new", "open", "closed", "freed"}
    /\ handler \in {"none", "idle", "check", "asleep", "send", "ended"}
    /\ size \in 0 .. MaxRead
    /\ loop \in {"sleep", "visit", "ended"}
    /\ broken \in {"no", "open", "push", "close", "notify", "send", "visit"}
    /\ end \in {"no", "eof", "quit"}
    /\ messages \in 0 .. MaxMessages /\ writes \in 0 .. MaxWrites

LEMMA CallbackType ==
    ASSUME Control, LifeInv, Callback \/ Notify \/ Reap
    PROVE  Control'
<1> USE ConstantAssumption DEF Control, aux, limit
<1>1. CASE OnOpen
    BY <1>1 DEF OnOpen, LifeInv
<1>2. CASE OnClose
    BY <1>2 DEF OnClose
<1>3. CASE OnOpenLost \/ OnCloseLost \/ PushLost
    BY <1>3 DEF OnOpenLost, OnCloseLost, PushLost, Lost
<1>4. ASSUME NEW n \in 0 .. MaxMessage, Push(n) PROVE Control'
    BY <1>4 DEF Push
<1>5. CASE Notify
  <2>1. /\ UNCHANGED <<closed_, wrapper, entry, ws, size, loop, stop_, end, messages, writes>>
        /\ signal' = FALSE
        /\ handler' = handler \/ (handler = "asleep" /\ handler' = "check")
        /\ broken' \in {broken, "notify"}
    BY <1>5 DEF Notify
  <2>2. closed_' \in BOOLEAN /\ signal' \in BOOLEAN /\ stop_' \in BOOLEAN
    BY <2>1, Zenon
  <2> QED BY <2>1, <2>2
<1>6. CASE Reap
    BY <1>6 DEF Reap
<1> QED BY <1>1, <1>2, <1>3, <1>4, <1>5, <1>6 DEF Callback

LEMMA HandlerType ==
    ASSUME Control, LifeInv, Handle \/ WriteCheck \/ Quit
    PROVE  Control'
<1> USE ConstantAssumption DEF Control, aux, limit, HandlerEnds
<1>1. ASSUME NEW n \in 1 .. MaxRead, ReadCall(n) PROVE Control'
    BY <1>1 DEF ReadCall
<1>2. CASE ReadSleep
    BY <1>2 DEF ReadSleep
<1>3. CASE ReadEof
    BY <1>3 DEF ReadEof
<1>4. CASE ReadTake
  <2>1. /\ UNCHANGED <<closed_, signal, entry, ws, loop, stop_, broken, limit>>
        /\ handler = "check"
        /\ HandlerEnds("quit")
           \/ (handler' = "idle" /\ size' = 0 /\ UNCHANGED <<wrapper, end>>)
    BY <1>4 DEF ReadTake
  <2> QED BY <2>1
<1>5. CASE WriteSend
    BY <1>5 DEF WriteSend
<1>6. CASE WriteCheck
    BY <1>6 DEF WriteCheck
<1>7. CASE Quit
    BY <1>7 DEF Quit
<1> QED BY <1>1, <1>2, <1>3, <1>4, <1>5, <1>6, <1>7 DEF Handle

LEMMA LoopType ==
    ASSUME Control, LoopWake \/ Visit \/ VisitLost \/ Stop
    PROVE  Control'
<1> USE DEF Control, aux, limit
<1>1. CASE LoopWake
    BY <1>1 DEF LoopWake
<1>2. CASE Visit
    BY <1>2 DEF Visit
<1>3. CASE Stop
    BY <1>3 DEF Stop
<1>4. CASE VisitLost
    BY <1>4 DEF VisitLost, Lost
<1> QED BY <1>1, <1>2, <1>3, <1>4

-----------------------------------------------------------------------------
LEMMA NextIInv == IInv /\ [Next]_vars => IInv'
<1> SUFFICES ASSUME IInv, [Next]_vars PROVE IInv'
    OBVIOUS
<1>0. /\ Control /\ Bytes /\ TypeOK /\ LifeInv /\ StreamInv
      /\ Control' /\ Bytes' => TypeOK'
    BY DEF IInv, TypeOK, Control, Bytes
<1>1. CASE UNCHANGED vars
  <2>1. Control' /\ LifeInv' /\ UNCHANGED <<queue_, arrived, out>>
    BY <1>0, <1>1 DEF vars, Control, LifeInv, CallbacksFindWrapper
  <2> QED BY <1>0, <2>1, OtherStream DEF IInv
<1>2. CASE Next
  <2>1. Control'
    BY <1>0, <1>2, CallbackType, HandlerType, LoopType DEF Next
  <2>2. LifeInv'
    BY <1>0, <1>2, CallbackLife, HandlerLife, LoopLife DEF Next, Callback
  <2>3. Bytes' /\ StreamInv'
    <3>1. CASE \E n \in 0 .. MaxMessage : Push(n)
      BY <1>0, <3>1, PushStream
    <3>2. CASE ReadTake
      <4>1. size \in Nat \ {0}
        BY <1>0, <3>2, ConstantAssumption DEF TypeOK, LifeInv, ReadTake
      <4> QED BY <1>0, <3>2, <4>1, TakeStream
    <3>3. CASE ~ReadTake /\ ~\E n \in 0 .. MaxMessage : Push(n)
      <4>1. UNCHANGED <<queue_, arrived, out>>
        BY <1>2, <3>3 DEF Next, Callback, Handle, OnOpen, OnOpenLost, OnClose, OnCloseLost, PushLost,
              Lost, Notify, Reap, ReadCall, ReadSleep, ReadEof, WriteSend, WriteCheck,
              Quit, LoopWake, Visit, VisitLost, Stop, aux
      <4> QED BY <1>0, <4>1, OtherStream
    <3> QED BY <3>1, <3>2, <3>3
  <2> QED BY <1>0, <2>1, <2>2, <2>3 DEF IInv
<1> QED BY <1>1, <1>2

LEMMA Invariance == Spec => []IInv
BY InitIInv, NextIInv, PTL DEF Spec

-----------------------------------------------------------------------------
(* The wrapper is a byte stream                                            *)

LEMMA RefinedInit == Init => Stream!Init
BY DEF Init, Stream!Init

\* Of the steps of the wrapper, push_back is the arrival of bytes, unless the
\* message is empty, close() the end of the stream, and a read() that finds
\* something takes it.
LEMMA RefinedNext == IInv /\ [Next]_vars => [Stream!Next]_(Stream!vars)
<1> SUFFICES ASSUME IInv, [Next]_vars PROVE [Stream!Next]_(Stream!vars)
    OBVIOUS
<1>0. Bytes /\ StreamInv /\ LifeInv /\ TypeOK /\ Len(arrived) \in Nat /\ Len(out) \in Nat
    BY DEF IInv, TypeOK, Bytes
<1>1. ASSUME NEW n \in 0 .. MaxMessage, Push(n) PROVE [Stream!Next]_(Stream!vars)
  <2>1. /\ Bytes' /\ Len(arrived') = Len(arrived) + n
        /\ \A i \in 1 .. Len(arrived) : arrived'[i] = arrived[i]
        /\ n = 0 => arrived' = arrived
    BY <1>0, <1>1, PushStream
  <2>2. ~closed_ /\ UNCHANGED <<out, closed_, end>>
    BY <1>0, <1>1 DEF Push, LifeInv
  <2>3. CASE n = 0
    BY <2>1, <2>2, <2>3 DEF Stream!vars
  <2>4. CASE n # 0
    <3>1. Len(arrived') > Len(arrived)
      BY <1>0, <2>1, <2>4, ConstantAssumption
    <3>2. SubSeq(arrived', 1, Len(arrived)) = arrived
      BY <1>0, <2>1, <3>1 DEF Bytes
    <3> QED BY <2>2, <3>1, <3>2 DEF Stream!Next, Stream!Arrive
  <2> QED BY <2>3, <2>4
<1>2. CASE ReadTake
  <2>1. size \in Nat \ {0}
    BY <1>0, <1>2, ConstantAssumption DEF TypeOK, LifeInv, ReadTake
  <2>2. /\ Bytes' /\ StreamInv' /\ Len(out') \in Len(out) .. Len(arrived)
        /\ handler' = "ended" => out' = out
        /\ handler' # "ended" => Len(out') # Len(out)
    BY <1>0, <1>2, <2>1, TakeStream
  <2>3. /\ end = "no" /\ UNCHANGED <<arrived, closed_>>
        /\ \/ handler' = "ended" /\ end' = "quit"
           \/ handler' # "ended" /\ end' = end
    BY <1>0, <1>2 DEF ReadTake, HandlerEnds, LifeInv
  <2>4. CASE handler' = "ended"
    BY <2>2, <2>3, <2>4 DEF Stream!Next, Stream!GiveUp
  <2>5. CASE handler' # "ended"
    <3>1. PICK n \in Len(out) + 1 .. Len(arrived) : n = Len(out')
      BY <1>0, <2>2, <2>5
    <3>2. out' = SubSeq(arrived, 1, n)
      <4>1. out' \in Seq(1 .. MaxBytes) /\ \A i \in 1 .. n : out'[i] = i
        BY <2>2, <3>1 DEF Bytes, StreamInv
      <4>2. arrived \in Seq(1 .. MaxBytes) /\ \A i \in 1 .. Len(arrived) : arrived[i] = i
        BY <1>0 DEF Bytes, StreamInv
      <4>3. n \in 0 .. Len(arrived) /\ \A i \in 1 .. n : out'[i] = arrived[i]
        BY <1>0, <4>1, <4>2
      <4> QED BY <3>1, <4>1, <4>2, <4>3
    <3> QED BY <2>3, <2>5, <3>2 DEF Stream!Next, Stream!Take
  <2> QED BY <2>4, <2>5
<1>3. CASE ReadEof
  <2>1. queue_ = << >> /\ closed_ /\ end = "no" /\ end' = "eof"
        /\ UNCHANGED <<arrived, out, closed_>>
    BY <1>0, <1>3 DEF ReadEof, HandlerEnds, LifeInv
  <2>2. PICK f : Cut(f)
    BY <1>0 DEF StreamInv
  <2>3. Len(out) = Len(arrived)
    BY <2>1, <2>2 DEF Cut
  <2>4. out = arrived
    BY <1>0, <2>3, SamePositions DEF Bytes, StreamInv
  <2> QED BY <2>1, <2>4 DEF Stream!Next, Stream!End
<1>4. CASE OnClose
    BY <1>4 DEF OnClose, aux, Stream!Next, Stream!Close
<1>5. CASE WriteCheck \/ Quit
  <2>1. end = "no" /\ UNCHANGED <<arrived, out, closed_>> /\ (end' = "quit" \/ end' = end)
    BY <1>0, <1>5 DEF WriteCheck, Quit, HandlerEnds, LifeInv
  <2> QED BY <2>1 DEF Stream!Next, Stream!GiveUp, Stream!vars
<1>6. CASE \/ OnOpen \/ OnOpenLost \/ OnCloseLost \/ PushLost \/ Notify \/ Reap
           \/ (\E n \in 1 .. MaxRead : ReadCall(n)) \/ ReadSleep \/ WriteSend
           \/ LoopWake \/ Visit \/ VisitLost \/ Stop \/ UNCHANGED vars
  <2>1. UNCHANGED <<arrived, out, closed_, end>>
    BY <1>6 DEF OnOpen, OnOpenLost, OnCloseLost, PushLost, Lost, Notify, Reap, ReadCall, ReadSleep,
                WriteSend, LoopWake, Visit, VisitLost, Stop, aux, vars
  <2> QED BY <2>1 DEF Stream!vars
<1> QED BY <1>1, <1>2, <1>3, <1>4, <1>5, <1>6 DEF Next, Callback, Handle

-----------------------------------------------------------------------------
\* The variables have their types: in particular the wrapper exists exactly
\* while its handler runs.
THEOREM TypeCorrect == Spec => []TypeOK
<1>1. IInv => TypeOK
    BY DEF IInv
<1> QED BY <1>1, Invariance, PTL

\* A callback of a WebSocket does not find the wrapper of its connection only
\* when the handler gave up while the connection was open, or when
\* wsAcceptLoop has ended (MQTTBroker.cpp): its cleanup never takes it away.
THEOREM CallbacksFind == Spec => []CallbacksFindWrapper
<1>1. IInv => CallbacksFindWrapper
    BY DEF IInv, LifeInv
<1> QED BY <1>1, Invariance, PTL

\* For all sizes of messages and of reads, what read() returns is the bytes of
\* the messages, each once and in order, and the end is reported only behind
\* the last of them (WsMqttWrapper.hpp, push_back, read and close).
THEOREM Refinement == Spec => ImplementsByteStream
BY RefinedInit, RefinedNext, Invariance, PTL DEF Spec, ImplementsByteStream, Stream!Spec
=============================================================================
