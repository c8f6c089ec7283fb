----------------------------- MODULE ModbusProofs -----------------------------
(***************************************************************************)
(* Proofs about Modbus, for any number of clients, any calls and any       *)
(* values: what the server writes into the registers is what somebody      *)
(* asked it to write there, and what a call returns was there.             *)
(*                                                                         *)
(* The argument goes through the bytes.  A request that is encoded and     *)
(* decoded again is the same request (RequestFields); as long as no client *)
(* has died while it was sending, the bytes under way to the server are    *)
(* whole requests one after the other (FrameInv), because a client may     *)
(* send the next one before the server has read the last; and a thread     *)
(* that writes registers has such a request (ThreadInv).                   *)
(*                                                                         *)
(* For the answers, one call is followed from its request to its response  *)
(* (CallInv); that does not ask the other clients to stay alive.           *)
(***************************************************************************)
EXTENDS Modbus, TLAPS


\* No client has died while it was sending.
NoCut == \A c \in Client : client[c] # "cut"

ClientType == client \in [Client -> {"idle", "wait", "dead", "cut"}]

Types ==
    /\ registers_ \in [Address -> Nat]
    /\ asked \in [Address -> SUBSET Nat]
    /\ ids \in [Client -> Nat]
    /\ toServer \in [Client -> Seq(Nat)]
    /\ thread \in [Client -> {"test", "read", "get", "set", "write", "ended"}]
    /\ request \in [Client -> Seq(Nat)]
    /\ index \in [Client -> Nat]

RegisterInv == \A a \in Address : registers_[a] \in asked[a]

\* What op writes has been recorded.
Recorded(op) == \A a \in Address : Wanted(op, a) \subseteq asked[a]

IsRequest(c, r) ==
    \E op \in Op[c] : \E id \in Nat : r = makeRequest(id, op) /\ Recorded(op)

\* The bytes under way from c are the requests fr; f says after how many bytes
\* each of them begins, and the last of f where they end.
Framed(c, fr, f) ==
    /\ fr \in Seq(Seq(Nat))
    /\ f \in [1 .. Len(fr) + 1 -> Nat]
    /\ f[1] = 0
    /\ f[Len(fr) + 1] = Len(toServer[c])
    /\ \A j, k \in 1 .. Len(fr) + 1 : j <= k => f[j] <= f[k]
    /\ \A k \in 1 .. Len(fr) :
          /\ IsRequest(c, fr[k])
          /\ f[k + 1] = f[k] + Len(fr[k])
          /\ \A i \in 1 .. Len(fr[k]) : toServer[c][f[k] + i] = fr[k][i]

FrameInv == \A c \in Client : \E fr, f : Framed(c, fr, f)

\* A thread that writes registers writes those of a request.
Writing(c) ==
    \E op \in Op[c] : \E id \in Nat :
        /\ request[c] = makeRequest(id, op) /\ Recorded(op)
        /\ op.code # 3
        /\ op.address + op.count <= Size
        /\ index[c] \in 0 .. op.count

ThreadInv ==
    \A c \in Client : /\ thread[c] \notin {"get", "set"} => index[c] = 0
                      /\ thread[c] = "set" => Writing(c)

IInv == ClientType /\ (NoCut => Types /\ RegisterInv /\ FrameInv /\ ThreadInv)

-----------------------------------------------------------------------------
(* Requests as bytes                                                       *)

LEMMA PartFacts ==
    ASSUME NEW S, NEW s \in Seq(S), NEW m \in 1 .. Len(s) + 1, NEW n \in m - 1 .. Len(s)
    PROVE  /\ SubSeq(s, m, n) \in Seq(S)
           /\ Len(SubSeq(s, m, n)) = n - m + 1
           /\ \A i \in 1 .. n - m + 1 : SubSeq(s, m, n)[i] = s[m + i - 1]
OBVIOUS

\* Two bytes make a word, the high one first.
LEMMA WordFact ==
    ASSUME NEW b \in Seq(Nat), NEW i \in 1 .. Len(b) - 1
    PROVE  WordAt(b, i) = 256 * b[i] + b[i + 1]
<1>1. PICK s : s = SubSeq(b, i, i + 1)
    OBVIOUS
<1>2. /\ s \in Seq(Nat) /\ Len(s) = (i + 1) - i + 1
      /\ \A j \in 1 .. (i + 1) - i + 1 : s[j] = b[i + j - 1]
  <2>1. i \in 1 .. Len(b) + 1 /\ i + 1 \in i - 1 .. Len(b)
    OBVIOUS
  <2> QED BY <1>1, <2>1, PartFacts
<1>3. Len(s) = 2 /\ (i + 1) - i + 1 = 2
    BY <1>2
<1>4. s[1] = b[i] /\ s[2] = b[i + 1]
  <2>1. i + 1 - 1 = i /\ i + 2 - 1 = i + 1
    OBVIOUS
  <2> QED BY <1>2, <1>3, <2>1
<1>5. 1 \in 1 .. Len(s) \div 2 /\ 2 * 1 - 1 = 1 /\ 2 * 1 = 2
    BY <1>3
<1>6. Words(s)[1] = 256 * s[1] + s[2]
    BY <1>5 DEF Words
<1> QED BY <1>1, <1>4, <1>6 DEF WordAt

LEMMA MakeSeq ==
    ASSUME NEW S, NEW n \in Nat, NEW f \in [1 .. n -> S]
    PROVE  f \in Seq(S) /\ Len(f) = n
OBVIOUS

\* A word becomes two bytes, the high one first.
LEMMA BytesFact ==
    ASSUME NEW w \in Seq(Nat)
    PROVE  /\ Bytes(w) \in Seq(Nat) /\ Len(Bytes(w)) = 2 * Len(w)
           /\ \A k \in 1 .. Len(w) : /\ Bytes(w)[2 * k - 1] = (w[k] \div 256) % 256
                                     /\ Bytes(w)[2 * k] = w[k] % 256
<1>0. PICK n : n = Len(w)
    OBVIOUS
<1>1. n \in Nat /\ \A k \in 1 .. n : w[k] \in Nat
    BY <1>0
<1>2. \A i \in 1 .. 2 * n : /\ i % 2 = 1 => (i + 1) \div 2 \in 1 .. n
                            /\ i % 2 # 1 => i \div 2 \in 1 .. n
    BY <1>1
<1>3. \A x \in Nat : (x \div 256) % 256 \in Nat /\ x % 256 \in Nat
    OBVIOUS
<1>4. \A i \in 1 .. 2 * n :
        (IF i % 2 = 1 THEN (w[(i + 1) \div 2] \div 256) % 256 ELSE w[i \div 2] % 256) \in Nat
    BY <1>1, <1>2, <1>3
<1>5. PICK b : b = Bytes(w)
    OBVIOUS
<1>6. /\ b \in [1 .. 2 * n -> Nat]
      /\ \A i \in 1 .. 2 * n : b[i] =
            IF i % 2 = 1 THEN (w[(i + 1) \div 2] \div 256) % 256 ELSE w[i \div 2] % 256
    BY <1>0, <1>4, <1>5 DEF Bytes
<1>7. b \in Seq(Nat) /\ Len(b) = 2 * n
  <2>1. PICK m \in Nat : m = 2 * n
    BY <1>1
  <2>2. b \in [1 .. m -> Nat]
    BY <1>6, <2>1
  <2> QED BY <2>1, <2>2, MakeSeq
<1>8. ASSUME NEW k \in 1 .. n
      PROVE  b[2 * k - 1] = (w[k] \div 256) % 256 /\ b[2 * k] = w[k] % 256
  <2>1. /\ 2 * k - 1 \in 1 .. 2 * n /\ (2 * k - 1) % 2 = 1 /\ (2 * k - 1 + 1) \div 2 = k
    BY <1>1
  <2>2. /\ 2 * k \in 1 .. 2 * n /\ (2 * k) % 2 = 0 /\ (2 * k) \div 2 = k
    BY <1>1
  <2>3. b[2 * k - 1] = (w[k] \div 256) % 256
    BY <1>6, <2>1
  <2>4. b[2 * k] = w[k] % 256
    BY <1>6, <2>2
  <2> QED BY <2>3, <2>4
<1> QED BY <1>0, <1>5, <1>7, <1>8

LEMMA Limit == 2^16 = 65536
BY SMTT(60)

\* A word is what its two bytes make.
LEMMA RoundTrip ==
    ASSUME NEW x \in Word PROVE x = 256 * ((x \div 256) % 256) + (x % 256)
<1>1. x \in Nat /\ x < 65536
    BY Limit DEF Word
<1>2. PICK q, r : q = x \div 256 /\ r = x % 256
    OBVIOUS
<1>3. q \in 0 .. 255 /\ r \in Nat
    BY <1>1, <1>2
<1>4. x = 256 * q + r
    BY <1>1, <1>2, <1>3
<1>5. q % 256 = q
    BY <1>3
<1> QED BY <1>2, <1>4, <1>5

LEMMA OpFacts ==
    ASSUME NEW c \in Client, NEW op \in Op[c]
    PROVE  IsCall(op)
BY ConstantAssumption

LEMMA WordNat == Word \subseteq Nat
BY Limit DEF Word

LEMMA SizeFact == Size \in Nat /\ Size >= 2
<1>1. Size \in 2 .. 2^16 - 1
    BY ConstantAssumption, Zenon
<1>2. PICK m : m = 2^16
    OBVIOUS
<1>3. m \in Nat /\ Size \in 2 .. m - 1
    BY <1>1, <1>2, Limit
<1> QED BY <1>3

LEMMA WordIs == ASSUME NEW x \in Nat, x < 65536 PROVE x \in Word
BY Limit DEF Word

LEMMA SeqSub ==
    ASSUME NEW S, NEW T, S \subseteq T, NEW s \in Seq(S)
    PROVE  s \in Seq(T)
OBVIOUS

LEMMA PairBytes ==
    ASSUME NEW x \in Word, NEW y \in Word
    PROVE  /\ Bytes(<<x, y>>) \in Seq(Nat) /\ Len(Bytes(<<x, y>>)) = 4
           /\ 256 * Bytes(<<x, y>>)[1] + Bytes(<<x, y>>)[2] = x
           /\ 256 * Bytes(<<x, y>>)[3] + Bytes(<<x, y>>)[4] = y
<1>1. PICK w : w = <<x, y>>
    OBVIOUS
<1>2. w \in Seq(Nat) /\ Len(w) = 2 /\ w[1] = x /\ w[2] = y
    BY <1>1, WordNat
<1>3. PICK b : b = Bytes(w)
    OBVIOUS
<1>4. /\ b \in Seq(Nat) /\ Len(b) = 2 * 2
      /\ \A k \in 1 .. 2 : b[2 * k - 1] = (w[k] \div 256) % 256 /\ b[2 * k] = w[k] % 256
  <2>1. /\ Bytes(w) \in Seq(Nat) /\ Len(Bytes(w)) = 2 * Len(w)
        /\ \A k \in 1 .. Len(w) : /\ Bytes(w)[2 * k - 1] = (w[k] \div 256) % 256
                                  /\ Bytes(w)[2 * k] = w[k] % 256
    BY <1>2, BytesFact, Zenon
  <2> QED BY <1>2, <1>3, <2>1
<1>5. /\ b[2 * 1 - 1] = (x \div 256) % 256 /\ b[2 * 1] = x % 256
      /\ b[2 * 2 - 1] = (y \div 256) % 256 /\ b[2 * 2] = y % 256
    BY <1>2, <1>4
<1>6. 2 * 1 - 1 = 1 /\ 2 * 1 = 2 /\ 2 * 2 - 1 = 3 /\ 2 * 2 = 4
    OBVIOUS
<1>7. x = 256 * ((x \div 256) % 256) + (x % 256) /\ y = 256 * ((y \div 256) % 256) + (y % 256)
    BY RoundTrip
<1>8. /\ b[1] = (x \div 256) % 256 /\ b[2] = x % 256
      /\ b[3] = (y \div 256) % 256 /\ b[4] = y % 256
    BY <1>5, <1>6
<1>9. 256 * b[1] + b[2] = x /\ 256 * b[3] + b[4] = y
    BY <1>7, <1>8
<1> QED BY <1>1, <1>3, <1>4, <1>6, <1>9

\* The data of a request, word by word.
HasData(op, d) ==
    /\ d \in Seq(Nat)
    /\ Len(d) = IF op.code = 16 THEN 5 + 2 * op.count ELSE 4
    /\ 256 * d[1] + d[2] = op.address
    /\ 256 * d[3] + d[4] = IF op.code = 6 THEN op.values[1] ELSE op.count
    /\ op.code = 16 => \A k \in 1 .. op.count :
          256 * d[4 + 2 * k] + d[5 + 2 * k] = op.values[k]

LEMMA DataFields == ASSUME NEW op, IsCall(op) PROVE HasData(op, Data(op))
<1> SUFFICES ASSUME NEW d, d = Data(op) PROVE HasData(op, d)
    OBVIOUS
<1>1. CASE op.code = 3
  <2>1. d = Bytes(<<op.address, op.count>>) /\ op.address \in Word /\ op.count \in Word
    BY <1>1 DEF Data, IsCall
  <2> QED BY <1>1, <2>1, PairBytes DEF HasData
<1>2. CASE op.code = 6
  <2>1. op.values[1] \in Word
    BY <1>2 DEF IsCall
  <2>2. d = Bytes(<<op.address, op.values[1]>>) /\ op.address \in Word
    BY <1>2 DEF Data, IsCall
  <2> QED BY <1>2, <2>1, <2>2, PairBytes DEF HasData
<1>3. CASE op.code = 16
  <2>0. PICK n, a, w : n = op.count /\ a = op.address /\ w = op.values
    OBVIOUS
  <2>1. /\ n \in Word /\ a \in Word /\ w \in Seq(Word) /\ Len(w) = n
    BY <1>3, <2>0 DEF IsCall
  <2>2. n \in Nat /\ \A k \in 1 .. n : w[k] \in Word
    BY <2>1, WordNat
  <2>3. PICK p, q, v : p = Bytes(<<a, n>>) /\ q = <<(2 * n) % 256>> /\ v = Bytes(w)
    OBVIOUS
  <2>4. /\ p \in Seq(Nat) /\ Len(p) = 4
        /\ 256 * p[1] + p[2] = a /\ 256 * p[3] + p[4] = n
    <3>1. /\ Bytes(<<a, n>>) \in Seq(Nat) /\ Len(Bytes(<<a, n>>)) = 4
          /\ 256 * Bytes(<<a, n>>)[1] + Bytes(<<a, n>>)[2] = a
          /\ 256 * Bytes(<<a, n>>)[3] + Bytes(<<a, n>>)[4] = n
      BY <2>1, PairBytes
    <3> QED BY <2>3, <3>1
  <2>5. q \in Seq(Nat) /\ Len(q) = 1
    BY <2>2, <2>3
  <2>6. /\ v \in Seq(Nat) /\ Len(v) = 2 * n
        /\ \A k \in 1 .. n : 256 * v[2 * k - 1] + v[2 * k] = w[k]
    <3>1. w \in Seq(Nat)
      BY <2>1, WordNat, SeqSub
    <3>2. /\ v \in Seq(Nat) /\ Len(v) = 2 * n
          /\ \A k \in 1 .. n : /\ v[2 * k - 1] = (w[k] \div 256) % 256
                               /\ v[2 * k] = w[k] % 256
      <4>1. /\ Bytes(w) \in Seq(Nat) /\ Len(Bytes(w)) = 2 * Len(w)
            /\ \A k \in 1 .. Len(w) : /\ Bytes(w)[2 * k - 1] = (w[k] \div 256) % 256
                                      /\ Bytes(w)[2 * k] = w[k] % 256
        BY <3>1, BytesFact, Zenon
      <4> QED BY <2>1, <2>3, <4>1
    <3>3. ASSUME NEW k \in 1 .. n PROVE 256 * v[2 * k - 1] + v[2 * k] = w[k]
      <4>1. w[k] = 256 * ((w[k] \div 256) % 256) + (w[k] % 256)
        BY <2>2, RoundTrip
      <4> QED BY <3>2, <4>1
    <3> QED BY <3>2, <3>3
  <2>7. PICK h : h = p \o q
    OBVIOUS
  <2>8. h \in Seq(Nat) /\ Len(h) = 5 /\ \A i \in 1 .. 4 : h[i] = p[i]
    <3>1. p \in Seq(Nat) /\ q \in Seq(Nat)
      BY <2>4, <2>5
    <3>2. /\ p \o q \in Seq(Nat) /\ Len(p \o q) = Len(p) + Len(q)
          /\ \A i \in 1 .. Len(p) : (p \o q)[i] = p[i]
      BY <3>1
    <3>3. Len(p) = 4 /\ Len(q) = 1
      BY <2>4, <2>5
    <3>4. h \in Seq(Nat) /\ Len(h) = 4 + 1 /\ \A i \in 1 .. 4 : h[i] = p[i]
      BY <2>7, <3>2, <3>3, Zenon
    <3> QED BY <3>4
  <2>9. d = h \o v
    BY <1>3, <2>0, <2>3, <2>7 DEF Data
  <2>10. /\ d \in Seq(Nat) /\ Len(d) = 5 + 2 * n
         /\ \A i \in 1 .. 5 : d[i] = h[i]
         /\ \A i \in 1 .. 2 * n : d[5 + i] = v[i]
    <3>1. h \in Seq(Nat) /\ v \in Seq(Nat)
      BY <2>6, <2>8
    <3>2. /\ h \o v \in Seq(Nat) /\ Len(h \o v) = Len(h) + Len(v)
          /\ \A i \in 1 .. Len(h) : (h \o v)[i] = h[i]
          /\ \A i \in 1 .. Len(v) : (h \o v)[Len(h) + i] = v[i]
      BY <3>1
    <3>3. Len(h) = 5 /\ Len(v) = 2 * n
      BY <2>6, <2>8
    <3> QED BY <2>9, <3>2, <3>3
  <2>11. d[1] = p[1] /\ d[2] = p[2] /\ d[3] = p[3] /\ d[4] = p[4]
    BY <2>8, <2>10
  <2>12. ASSUME NEW k \in 1 .. n
         PROVE  256 * d[4 + 2 * k] + d[5 + 2 * k] = w[k]
    <3>1. /\ 2 * k - 1 \in 1 .. 2 * n /\ 2 * k \in 1 .. 2 * n
          /\ 5 + (2 * k - 1) = 4 + 2 * k
      BY <2>2
    <3>2. d[4 + 2 * k] = v[2 * k - 1] /\ d[5 + 2 * k] = v[2 * k]
      BY <2>10, <3>1
    <3> QED BY <2>6, <3>2
  <2> QED BY <1>3, <2>0, <2>4, <2>10, <2>11, <2>12 DEF HasData
<1> QED BY <1>1, <1>2, <1>3 DEF IsCall

\* What processRequest finds in a request is what the call put into it.
LEMMA RequestFields ==
    ASSUME NEW op, IsCall(op), NEW id \in Nat, NEW r, r = makeRequest(id, op)
    PROVE  /\ r \in Seq(Nat) /\ Len(r) \in Nat /\ Len(r) >= 12
           /\ Len(r) = 6 + (256 * r[5] + r[6])
           /\ functionCode(r) = op.code
           /\ startAddress(r) = op.address
           /\ quantity(r) = IF op.code = 6 THEN op.values[1] ELSE op.count
           /\ op.code = 16 => Len(r) = 13 + 2 * op.count
           /\ op.code = 16 => \A i \in 0 .. op.count - 1 :
                 WordAt(r, 14 + 2 * i) = op.values[i + 1]
<1>0. Unit \in Nat /\ op.code \in Nat
    BY ConstantAssumption DEF IsCall, Byte
<1>1. PICK d, n : d = Data(op) /\ n = op.count
    OBVIOUS
<1>2. /\ d \in Seq(Nat) /\ Len(d) = (IF op.code = 16 THEN 5 + 2 * n ELSE 4)
      /\ 256 * d[1] + d[2] = op.address
      /\ 256 * d[3] + d[4] = IF op.code = 6 THEN op.values[1] ELSE n
      /\ op.code = 16 => \A k \in 1 .. n : 256 * d[4 + 2 * k] + d[5 + 2 * k] = op.values[k]
  <2>1. HasData(op, d)
    BY <1>1, DataFields
  <2> QED BY <1>1, <2>1 DEF HasData
<1>n. n \in Nat
  <2>1. n \in Word
    BY <1>1 DEF IsCall
  <2> QED BY <2>1, WordNat
<1>3. Len(d) \in Nat /\ Len(d) >= 4 /\ Len(d) + 2 \in Word
  <2>1. Len(d) = (IF op.code = 16 THEN 5 + 2 * n ELSE 4) /\ (op.code = 16 => n <= 32764)
    BY <1>1, <1>2 DEF IsCall
  <2>2. CASE op.code = 16
    <3>1. Len(d) = 5 + 2 * n /\ n <= 32764
      BY <2>1, <2>2
    <3>2. Len(d) \in Nat /\ Len(d) >= 4 /\ Len(d) + 2 \in Nat /\ Len(d) + 2 < 65536
      BY <1>n, <3>1
    <3> QED BY <3>2, WordIs
  <2>3. CASE op.code # 16
    <3>1. Len(d) = 4
      BY <2>1, <2>3
    <3>2. Len(d) \in Nat /\ Len(d) >= 4 /\ Len(d) + 2 \in Nat /\ Len(d) + 2 < 65536
      BY <3>1
    <3> QED BY <3>2, WordIs
  <2> QED BY <2>2, <2>3
<1>4. PICK h : h = Bytes(<<id % 2^16, 0, Len(d) + 2>>)
    OBVIOUS
<1>5. h \in Seq(Nat) /\ Len(h) = 6 /\ 256 * h[5] + h[6] = Len(d) + 2
  <2>1. PICK w : w = <<id % 2^16, 0, Len(d) + 2>>
    OBVIOUS
  <2>2. w \in Seq(Nat) /\ Len(w) = 3 /\ w[3] = Len(d) + 2
    <3>1. id % 2^16 \in Nat
      BY Limit
    <3> QED BY <1>3, <2>1, <3>1
  <2>3. /\ Bytes(w) \in Seq(Nat) /\ Len(Bytes(w)) = 2 * Len(w)
        /\ \A k \in 1 .. Len(w) : /\ Bytes(w)[2 * k - 1] = (w[k] \div 256) % 256
                                  /\ Bytes(w)[2 * k] = w[k] % 256
    BY <2>2, BytesFact, Zenon
  <2>4. /\ h \in Seq(Nat) /\ Len(h) = 2 * 3
        /\ h[2 * 3 - 1] = (w[3] \div 256) % 256 /\ h[2 * 3] = w[3] % 256
    <3>1. h = Bytes(w) /\ Len(w) = 3
      BY <1>4, <2>1, <2>2
    <3>2. /\ h \in Seq(Nat) /\ Len(h) = 2 * 3
          /\ \A k \in 1 .. 3 : h[2 * k - 1] = (w[k] \div 256) % 256 /\ h[2 * k] = w[k] % 256
      BY <2>3, <3>1, Zenon
    <3>3. 3 \in 1 .. 3
      OBVIOUS
    <3> QED BY <3>2, <3>3
  <2>5. w[3] = 256 * ((w[3] \div 256) % 256) + (w[3] % 256)
    BY <1>3, <2>2, RoundTrip
  <2>6. 2 * 3 - 1 = 5 /\ 2 * 3 = 6
    OBVIOUS
  <2>7. h[5] = (w[3] \div 256) % 256 /\ h[6] = w[3] % 256
    BY <2>4, <2>6
  <2> QED BY <2>2, <2>4, <2>5, <2>6, <2>7
<1>6. PICK u : u = <<Unit, op.code>>
    OBVIOUS
<1>7. u \in Seq(Nat) /\ Len(u) = 2 /\ u[2] = op.code
    BY <1>0, <1>6
<1>8. PICK m : m = h \o u
    OBVIOUS
<1>9. /\ m \in Seq(Nat) /\ Len(m) = 8
      /\ m[5] = h[5] /\ m[6] = h[6] /\ m[8] = op.code
  <2>1. h \in Seq(Nat) /\ u \in Seq(Nat)
    BY <1>5, <1>7
  <2>2. /\ h \o u \in Seq(Nat) /\ Len(h \o u) = Len(h) + Len(u)
        /\ \A i \in 1 .. Len(h) : (h \o u)[i] = h[i]
        /\ \A i \in 1 .. Len(u) : (h \o u)[Len(h) + i] = u[i]
    BY <2>1
  <2>3. /\ m \in Seq(Nat) /\ Len(m) = 6 + 2
        /\ \A i \in 1 .. 6 : m[i] = h[i]
        /\ \A i \in 1 .. 2 : m[6 + i] = u[i]
    BY <1>5, <1>7, <1>8, <2>2
  <2>4. m[6 + 2] = u[2] /\ 6 + 2 = 8
    BY <2>3
  <2> QED BY <1>7, <2>3, <2>4
<1>10. r = m \o d
    BY <1>1, <1>4, <1>6, <1>8 DEF makeRequest
<1>11. /\ r \in Seq(Nat) /\ Len(r) = 8 + Len(d)
       /\ \A i \in 1 .. 8 : r[i] = m[i]
       /\ \A i \in 1 .. Len(d) : r[8 + i] = d[i]
  <2>1. m \in Seq(Nat) /\ d \in Seq(Nat)
    BY <1>2, <1>9
  <2>2. /\ m \o d \in Seq(Nat) /\ Len(m \o d) = Len(m) + Len(d)
        /\ \A i \in 1 .. Len(m) : (m \o d)[i] = m[i]
        /\ \A i \in 1 .. Len(d) : (m \o d)[Len(m) + i] = d[i]
    BY <2>1
  <2>3. Len(m) = 8
    BY <1>9
  <2> QED BY <1>10, <2>2, <2>3
<1>r. r \in Seq(Nat)
    BY <1>11
<1>12. /\ r[5] = h[5] /\ r[6] = h[6] /\ r[8] = op.code
       /\ r[9] = d[1] /\ r[10] = d[2] /\ r[11] = d[3] /\ r[12] = d[4]
  <2>1. /\ \A i \in 1 .. 8 : r[i] = m[i]
        /\ \A i \in 1 .. Len(d) : r[8 + i] = d[i]
    BY <1>11
  <2>2. {5, 6, 8} \subseteq 1 .. 8 /\ {1, 2, 3, 4} \subseteq 1 .. Len(d)
    BY <1>3
  <2>3. r[5] = m[5] /\ r[6] = m[6] /\ r[8] = m[8]
    BY <2>1, <2>2, Zenon
  <2>4. r[8 + 1] = d[1] /\ r[8 + 2] = d[2] /\ r[8 + 3] = d[3] /\ r[8 + 4] = d[4]
    BY <2>1, <2>2, Zenon
  <2>5. 8 + 1 = 9 /\ 8 + 2 = 10 /\ 8 + 3 = 11 /\ 8 + 4 = 12
    OBVIOUS
  <2>6. m[5] = h[5] /\ m[6] = h[6] /\ m[8] = op.code
    BY <1>9
  <2> QED BY <2>3, <2>4, <2>5, <2>6
<1>13. Len(r) = 6 + (256 * r[5] + r[6])
  <2>1. 256 * h[5] + h[6] = Len(d) + 2 /\ Len(r) = 8 + Len(d)
    BY <1>5, <1>11
  <2> QED BY <1>3, <1>12, <2>1
<1>14. functionCode(r) = op.code
    BY <1>12 DEF functionCode
<1>15. startAddress(r) = op.address
  <2>1. 9 \in 1 .. Len(r) - 1 /\ 9 + 1 = 10
    BY <1>3, <1>11
  <2>2. WordAt(r, 9) = 256 * r[9] + r[9 + 1]
    BY <1>r, <2>1, WordFact, Zenon
  <2>3. WordAt(r, 9) = 256 * d[1] + d[2]
    BY <1>12, <2>1, <2>2
  <2>4. 256 * d[1] + d[2] = op.address
    BY <1>2
  <2> QED BY <2>3, <2>4 DEF startAddress
<1>16. quantity(r) = IF op.code = 6 THEN op.values[1] ELSE op.count
  <2>1. 11 \in 1 .. Len(r) - 1 /\ 11 + 1 = 12
    BY <1>3, <1>11
  <2>2. WordAt(r, 11) = 256 * r[11] + r[11 + 1]
    BY <1>r, <2>1, WordFact, Zenon
  <2>3. WordAt(r, 11) = 256 * d[3] + d[4]
    BY <1>12, <2>1, <2>2
  <2>4. 256 * d[3] + d[4] = IF op.code = 6 THEN op.values[1] ELSE op.count
    BY <1>1, <1>2
  <2> QED BY <2>3, <2>4 DEF quantity
<1>17. ASSUME op.code = 16, NEW i \in 0 .. n - 1
       PROVE  WordAt(r, 14 + 2 * i) = op.values[i + 1]
  <2>1. /\ Len(d) = 5 + 2 * n /\ i + 1 \in 1 .. n
        /\ 6 + 2 * i \in 1 .. Len(d) /\ 7 + 2 * i \in 1 .. Len(d)
        /\ 14 + 2 * i \in 1 .. Len(r) - 1
    BY <1>2, <1>n, <1>11, <1>17
  <2>2. WordAt(r, 14 + 2 * i) = 256 * r[14 + 2 * i] + r[(14 + 2 * i) + 1]
    BY <1>r, <2>1, WordFact, Zenon
  <2>3. r[8 + (6 + 2 * i)] = d[6 + 2 * i] /\ r[8 + (7 + 2 * i)] = d[7 + 2 * i]
    BY <1>11, <2>1
  <2>4. 256 * d[4 + 2 * (i + 1)] + d[5 + 2 * (i + 1)] = op.values[i + 1]
    BY <1>2, <1>17, <2>1
  <2>5. /\ 8 + (6 + 2 * i) = 14 + 2 * i /\ 8 + (7 + 2 * i) = (14 + 2 * i) + 1
        /\ 4 + 2 * (i + 1) = 6 + 2 * i /\ 5 + 2 * (i + 1) = 7 + 2 * i
    OBVIOUS
  <2> QED BY <2>2, <2>3, <2>4, <2>5
<1>18. Len(r) \in Nat /\ Len(r) >= 12
    BY <1>3, <1>11
<1>19. ASSUME op.code = 16 PROVE Len(r) = 13 + 2 * n
  <2>1. Len(d) = 5 + 2 * n /\ Len(r) = 8 + Len(d)
    BY <1>2, <1>11, <1>19
  <2> QED BY <1>n, <2>1
<1> QED BY <1>1, <1>11, <1>13, <1>14, <1>15, <1>16, <1>17, <1>18, <1>19

-----------------------------------------------------------------------------
(* The steps                                                               *)

LEMMA InitIInv == Init => IInv
<1> SUFFICES ASSUME Init PROVE IInv
    OBVIOUS
<1>1. ClientType
    BY DEF Init, ClientType
<1>2. Types
    BY DEF Init, Types
<1>3. RegisterInv
    BY DEF Init, RegisterInv
<1>4. FrameInv
  <2> SUFFICES ASSUME NEW c \in Client PROVE \E fr, f : Framed(c, fr, f)
    BY DEF FrameInv
  <2>1. PICK f : f = [k \in 1 .. 1 |-> 0]
    OBVIOUS
  <2>2. f \in [1 .. 0 + 1 -> Nat] /\ f[1] = 0 /\ \A k \in 1 .. 0 + 1 : f[k] = 0
    BY <2>1
  <2>3. PICK fr \in Seq(Seq(Nat)) : fr = << >>
    <3>1. << >> \in Seq(Seq(Nat))
      OBVIOUS
    <3> QED BY <3>1
  <2>4. Len(fr) = 0 /\ Len(toServer[c]) = 0
    BY <2>3 DEF Init
  <2>5. Framed(c, fr, f)
    BY <2>2, <2>4 DEF Framed
  <2> QED BY <2>5
<1>5. ThreadInv
    BY DEF Init, ThreadInv
<1> QED BY <1>1, <1>2, <1>3, <1>4, <1>5 DEF IInv

\* A client that is cut stays so.
LEMMA CutStays ==
    ASSUME ClientType, [Next]_vars
    PROVE  ClientType' /\ (NoCut' => NoCut)
<1>1. CASE UNCHANGED client
    BY <1>1 DEF ClientType, NoCut
<1>2. ASSUME NEW c \in Client, client[c] # "cut",
             \E x \in {"idle", "wait", "dead", "cut"} : client' = [client EXCEPT ![c] = x]
      PROVE  ClientType' /\ (NoCut' => NoCut)
    BY <1>2 DEF ClientType, NoCut
<1>3. ASSUME NEW c \in Client, NEW op \in Op[c], Send(c, op) \/ \E n \in Cut : SendCut(c, op, n)
      PROVE  ClientType' /\ (NoCut' => NoCut)
  <2>1. client[c] = "idle" /\ \E x \in {"wait", "cut"} : client' = [client EXCEPT ![c] = x]
    BY <1>3 DEF Send, SendCut
  <2> QED BY <1>2, <2>1
<1>4. ASSUME NEW c \in Client,
             \/ Hangup(c) \/ ReceiveFails(c)
             \/ \E n \in Cut \cup {Len(toClient[c])} : Receive(c, n)
      PROVE  ClientType' /\ (NoCut' => NoCut)
  <2>1. /\ client[c] \in {"idle", "wait"}
        /\ \E x \in {"idle", "dead"} : client' = [client EXCEPT ![c] = x]
    BY <1>4 DEF Hangup, ReceiveFails, Receive
  <2> QED BY <1>2, <2>1
<1>5. CASE \/ Stop \/ (\E v \in Value32 : SetUint32(v))
           \/ (\E c \in Client : Thread(c)) \/ UNCHANGED vars
    BY <1>1, <1>5 DEF Stop, SetUint32, Thread, LoopTest, ReadRequest, ReadFails, GetRegister,
                SetRegister, Respond, clientVars, vars
<1> QED BY <1>3, <1>4, <1>5 DEF Next

LEMMA AskedGrows ==
    ASSUME \A a \in Address : asked[a] \subseteq asked'[a]
    PROVE  /\ \A op : Recorded(op) => Recorded(op)'
           /\ \A c, r : IsRequest(c, r) => IsRequest(c, r)'
<1>1. \A op : Recorded(op) => Recorded(op)'
    BY DEF Recorded, Wanted
<1> QED BY <1>1 DEF IsRequest

LEMMA SameFrames ==
    ASSUME FrameInv, \A a \in Address : asked[a] \subseteq asked'[a],
           NEW c \in Client, toServer'[c] = toServer[c]
    PROVE  \E fr, f : Framed(c, fr, f)'
<1>1. PICK fr, f : Framed(c, fr, f)
    BY DEF FrameInv
<1>2. \A r : IsRequest(c, r) => IsRequest(c, r)'
    BY AskedGrows
<1>3. Framed(c, fr, f)'
    BY <1>1, <1>2 DEF Framed
<1> QED BY <1>3

LEMMA SameThread ==
    ASSUME ThreadInv, \A a \in Address : asked[a] \subseteq asked'[a], NEW c \in Client,
           thread'[c] = thread[c], request'[c] = request[c], index'[c] = index[c]
    PROVE  /\ thread'[c] \notin {"get", "set"} => index'[c] = 0
           /\ thread'[c] = "set" => Writing(c)'
<1>1. thread'[c] \notin {"get", "set"} => index'[c] = 0
    BY DEF ThreadInv
<1>2. \A op : Recorded(op) => Recorded(op)'
    BY AskedGrows
<1>3. Writing(c) => Writing(c)'
    BY <1>2 DEF Writing
<1>4. thread[c] = "set" => Writing(c)
    BY DEF ThreadInv
<1> QED BY <1>1, <1>3, <1>4

\* Steps of the clients that send nothing, and stop().
LEMMA QuietStep ==
    ASSUME Types, RegisterInv, FrameInv, ThreadInv,
           UNCHANGED <<registers_, asked, ids, toServer, thread, request, index>>
    PROVE  Types' /\ RegisterInv' /\ FrameInv' /\ ThreadInv'
<1>1. Types' /\ RegisterInv'
    BY DEF Types, RegisterInv
<1>2. FrameInv'
    BY SameFrames DEF FrameInv
<1>3. ThreadInv'
    BY SameThread DEF ThreadInv
<1> QED BY <1>1, <1>2, <1>3

\* A client appends a request.
LEMMA AddFrame ==
    ASSUME NEW c \in Client, NEW fr, NEW f, Framed(c, fr, f), NEW r \in Seq(Nat),
           toServer[c] \in Seq(Nat), toServer'[c] = toServer[c] \o r,
           IsRequest(c, r)', \A x : IsRequest(c, x) => IsRequest(c, x)'
    PROVE  \E gr, g : Framed(c, gr, g)'
<1>1. PICK in, out : in = toServer[c] /\ out = toServer'[c]
    OBVIOUS
<1>2. /\ in \in Seq(Nat) /\ Len(in) \in Nat /\ out = in \o r /\ Len(r) \in Nat
    BY <1>1
<1>3. /\ out \in Seq(Nat) /\ Len(out) = Len(in) + Len(r)
      /\ \A i \in 1 .. Len(in) : out[i] = in[i]
      /\ \A i \in 1 .. Len(r) : out[Len(in) + i] = r[i]
  <2>1. in \in Seq(Nat) /\ r \in Seq(Nat)
    BY <1>2
  <2>2. /\ in \o r \in Seq(Nat) /\ Len(in \o r) = Len(in) + Len(r)
        /\ \A i \in 1 .. Len(in) : (in \o r)[i] = in[i]
        /\ \A i \in 1 .. Len(r) : (in \o r)[Len(in) + i] = r[i]
    BY <2>1
  <2> QED BY <1>2, <2>2
<1>4. PICK n : n = Len(fr)
    OBVIOUS
<1>5. /\ fr \in Seq(Seq(Nat)) /\ n \in Nat
      /\ f \in [1 .. n + 1 -> Nat] /\ f[1] = 0 /\ f[n + 1] = Len(in)
      /\ \A j, k \in 1 .. n + 1 : j <= k => f[j] <= f[k]
    BY <1>1, <1>4 DEF Framed
<1>6. \A k \in 1 .. n : /\ IsRequest(c, fr[k])
                        /\ f[k + 1] = f[k] + Len(fr[k])
                        /\ \A i \in 1 .. Len(fr[k]) : in[f[k] + i] = fr[k][i]
    BY <1>1, <1>4 DEF Framed
<1>7. PICK gr : gr = Append(fr, r)
    OBVIOUS
<1>8. /\ gr \in Seq(Seq(Nat)) /\ Len(gr) = n + 1
      /\ \A k \in 1 .. n : gr[k] = fr[k]
      /\ gr[n + 1] = r
  <2>1. fr \in Seq(Seq(Nat)) /\ r \in Seq(Nat)
    BY <1>5
  <2> QED BY <1>4, <1>7, <2>1
<1>9. PICK g : g = [k \in 1 .. n + 2 |-> IF k <= n + 1 THEN f[k] ELSE Len(out)]
    OBVIOUS
<1>10. /\ g \in [1 .. n + 2 -> Nat]
       /\ \A k \in 1 .. n + 1 : g[k] = f[k]
       /\ g[n + 2] = Len(out)
  <2>1. \A k \in 1 .. n + 2 : k <= n + 1 => k \in 1 .. n + 1
    BY <1>5
  <2>2. \A k \in 1 .. n + 1 : k \in 1 .. n + 2 /\ k <= n + 1
    BY <1>5
  <2>3. n + 2 \in 1 .. n + 2 /\ ~(n + 2 <= n + 1) /\ Len(out) \in Nat
    BY <1>2, <1>3, <1>5
  <2> QED BY <1>5, <1>9, <2>1, <2>2, <2>3
<1>11. ASSUME NEW j \in 1 .. n + 2, NEW k \in 1 .. n + 2, j <= k PROVE g[j] <= g[k]
  <2>1. CASE k \in 1 .. n + 1
    BY <1>5, <1>10, <1>11, <2>1
  <2>2. CASE k = n + 2 /\ j \in 1 .. n + 1
    <3>1. f[j] <= f[n + 1] /\ f[j] \in Nat
      BY <1>5, <2>2
    <3> QED BY <1>2, <1>3, <1>5, <1>10, <2>2, <3>1
  <2>3. CASE k = n + 2 /\ j = n + 2
    BY <1>10, <2>3
  <2> QED BY <1>5, <2>1, <2>2, <2>3
<1>12. ASSUME NEW k \in 1 .. n
       PROVE  /\ IsRequest(c, gr[k])'
              /\ g[k + 1] = g[k] + Len(gr[k])
              /\ \A i \in 1 .. Len(gr[k]) : out[g[k] + i] = gr[k][i]
  <2>1. gr[k] = fr[k] /\ g[k] = f[k] /\ g[k + 1] = f[k + 1]
    BY <1>5, <1>8, <1>10
  <2>2. /\ IsRequest(c, fr[k])
        /\ f[k + 1] = f[k] + Len(fr[k])
        /\ \A i \in 1 .. Len(fr[k]) : in[f[k] + i] = fr[k][i]
    BY <1>6
  <2>3. f[k] \in Nat /\ f[k + 1] \in Nat /\ f[k + 1] <= Len(in) /\ Len(fr[k]) \in Nat
    BY <1>5
  <2>4. ASSUME NEW i \in 1 .. Len(fr[k]) PROVE f[k] + i \in 1 .. Len(in)
    <3>1. PICK x, l, t : x = f[k] /\ l = Len(fr[k]) /\ t = Len(in)
      OBVIOUS
    <3>2. x \in Nat /\ l \in Nat /\ t \in Nat /\ i \in 1 .. l /\ x + l <= t
      BY <1>2, <2>2, <2>3, <3>1
    <3>3. x + i \in 1 .. t
      BY <3>2
    <3> QED BY <3>1, <3>3
  <2>5. \A i \in 1 .. Len(fr[k]) : out[f[k] + i] = fr[k][i]
    BY <1>3, <2>2, <2>4
  <2>6. IsRequest(c, fr[k])'
    BY <2>2
  <2> QED BY <2>1, <2>2, <2>5, <2>6
<1>13. /\ IsRequest(c, gr[n + 1])'
       /\ g[(n + 1) + 1] = g[n + 1] + Len(gr[n + 1])
       /\ \A i \in 1 .. Len(gr[n + 1]) : out[g[n + 1] + i] = gr[n + 1][i]
  <2>1. n + 1 \in 1 .. n + 1 /\ (n + 1) + 1 = n + 2
    BY <1>5
  <2>2. gr[n + 1] = r /\ g[n + 1] = Len(in) /\ g[n + 2] = Len(in) + Len(r)
    BY <1>3, <1>5, <1>8, <1>10, <2>1
  <2>3. IsRequest(c, gr[n + 1])'
    BY <1>8
  <2> QED BY <1>3, <2>1, <2>2, <2>3
<1>14. \A k \in 1 .. n + 1 : /\ IsRequest(c, gr[k])'
                             /\ g[k + 1] = g[k] + Len(gr[k])
                             /\ \A i \in 1 .. Len(gr[k]) : out[g[k] + i] = gr[k][i]
  <2>1. \A k \in 1 .. n + 1 : k \in 1 .. n \/ k = n + 1
    BY <1>5
  <2> QED BY <1>12, <1>13, <2>1
<1>15. g[1] = 0 /\ g[(n + 1) + 1] = Len(out) /\ (n + 1) + 1 = n + 2
    BY <1>5, <1>10
<1>16. Framed(c, gr, g)'
    BY <1>1, <1>8, <1>10, <1>11, <1>14, <1>15 DEF Framed
<1> QED BY <1>16

\* The server takes the first request from what has arrived.
LEMMA DropFrame ==
    ASSUME NEW c \in Client, NEW fr, NEW f, Framed(c, fr, f), Len(fr) >= 1,
           toServer[c] \in Seq(Nat),
           toServer'[c] = SubSeq(toServer[c], Len(fr[1]) + 1, Len(toServer[c])),
           \A x : IsRequest(c, x) => IsRequest(c, x)'
    PROVE  \E gr, g : Framed(c, gr, g)'
<1>1. PICK in, out : in = toServer[c] /\ out = toServer'[c]
    OBVIOUS
<1>2. PICK n, m : n = Len(fr) - 1 /\ m = Len(fr[1])
    OBVIOUS
<1>3. /\ fr \in Seq(Seq(Nat)) /\ n \in Nat /\ Len(fr) = n + 1
      /\ f \in [1 .. (n + 1) + 1 -> Nat] /\ f[1] = 0 /\ f[(n + 1) + 1] = Len(in)
      /\ \A j, k \in 1 .. (n + 1) + 1 : j <= k => f[j] <= f[k]
  <2>1. fr \in Seq(Seq(Nat)) /\ Len(fr) \in Nat
    BY DEF Framed
  <2>2. n \in Nat /\ Len(fr) = n + 1
    BY <1>2, <2>1
  <2> QED BY <1>1, <2>1, <2>2 DEF Framed
<1>4. \A k \in 1 .. n + 1 : /\ IsRequest(c, fr[k])
                            /\ f[k + 1] = f[k] + Len(fr[k])
                            /\ \A i \in 1 .. Len(fr[k]) : in[f[k] + i] = fr[k][i]
    BY <1>1, <1>3 DEF Framed
<1>5. m \in Nat /\ f[2] = m /\ m <= Len(in) /\ Len(in) \in Nat /\ in \in Seq(Nat)
  <2>1. 1 \in 1 .. n + 1 /\ 1 + 1 = 2
    BY <1>3
  <2>2. f[2] = f[1] + Len(fr[1])
    BY <1>4, <2>1
  <2>3. fr[1] \in Seq(Nat)
    BY <1>3, <2>1
  <2>4. m \in Nat
    BY <1>2, <2>3
  <2>5. f[2] <= f[(n + 1) + 1]
    BY <1>3
  <2> QED BY <1>1, <1>2, <1>3, <2>2, <2>4, <2>5
<1>6. /\ out \in Seq(Nat) /\ Len(out) = Len(in) - m
      /\ \A i \in 1 .. Len(in) - m : out[i] = in[m + i]
  <2>1. out = SubSeq(in, m + 1, Len(in))
    BY <1>1, <1>2
  <2>2. m + 1 \in 1 .. Len(in) + 1 /\ Len(in) \in (m + 1) - 1 .. Len(in)
    BY <1>5
  <2>3. /\ out \in Seq(Nat) /\ Len(out) = Len(in) - (m + 1) + 1
        /\ \A i \in 1 .. Len(in) - (m + 1) + 1 : out[i] = in[(m + 1) + i - 1]
    <3>1. in \in Seq(Nat)
      BY <1>5
    <3>2. /\ SubSeq(in, m + 1, Len(in)) \in Seq(Nat)
          /\ Len(SubSeq(in, m + 1, Len(in))) = Len(in) - (m + 1) + 1
          /\ \A i \in 1 .. Len(in) - (m + 1) + 1 :
                SubSeq(in, m + 1, Len(in))[i] = in[(m + 1) + i - 1]
      BY <2>2, <3>1, PartFacts, Zenon
    <3> QED BY <2>1, <3>2, Zenon
  <2>4. Len(in) - (m + 1) + 1 = Len(in) - m
    BY <1>5
  <2>5. \A i \in 1 .. Len(in) - m : (m + 1) + i - 1 = m + i
    BY <1>5
  <2> QED BY <2>3, <2>4, <2>5
<1>7. PICK gr : gr = SubSeq(fr, 2, n + 1)
    OBVIOUS
<1>8. /\ gr \in Seq(Seq(Nat)) /\ Len(gr) = n
      /\ \A k \in 1 .. n : gr[k] = fr[k + 1]
  <2>1. 2 \in 1 .. Len(fr) + 1 /\ n + 1 \in 2 - 1 .. Len(fr)
    BY <1>3
  <2>2. /\ gr \in Seq(Seq(Nat)) /\ Len(gr) = (n + 1) - 2 + 1
        /\ \A k \in 1 .. (n + 1) - 2 + 1 : gr[k] = fr[2 + k - 1]
    <3>1. fr \in Seq(Seq(Nat))
      BY <1>3
    <3>2. /\ SubSeq(fr, 2, n + 1) \in Seq(Seq(Nat))
          /\ Len(SubSeq(fr, 2, n + 1)) = (n + 1) - 2 + 1
          /\ \A k \in 1 .. (n + 1) - 2 + 1 : SubSeq(fr, 2, n + 1)[k] = fr[2 + k - 1]
      BY <2>1, <3>1, PartFacts, Zenon
    <3> QED BY <1>7, <3>2, Zenon
  <2>3. (n + 1) - 2 + 1 = n /\ \A k \in 1 .. n : 2 + k - 1 = k + 1
    BY <1>3
  <2> QED BY <2>2, <2>3
<1>9. PICK g : g = [k \in 1 .. n + 1 |-> f[k + 1] - m]
    OBVIOUS
<1>10. /\ g \in [1 .. n + 1 -> Nat]
       /\ \A k \in 1 .. n + 1 : g[k] = f[k + 1] - m
  <2>1. ASSUME NEW k \in 1 .. n + 1 PROVE f[k + 1] - m \in Nat
    <3>1. k + 1 \in 1 .. (n + 1) + 1 /\ 2 \in 1 .. (n + 1) + 1 /\ 2 <= k + 1
      BY <1>3
    <3>2. f[2] <= f[k + 1] /\ f[k + 1] \in Nat
      BY <1>3, <3>1
    <3> QED BY <1>5, <3>2
  <2> QED BY <1>9, <2>1
<1>11. ASSUME NEW j \in 1 .. n + 1, NEW k \in 1 .. n + 1, j <= k PROVE g[j] <= g[k]
  <2>1. j + 1 \in 1 .. (n + 1) + 1 /\ k + 1 \in 1 .. (n + 1) + 1 /\ j + 1 <= k + 1
    BY <1>3, <1>11
  <2>2. f[j + 1] <= f[k + 1] /\ f[j + 1] \in Nat /\ f[k + 1] \in Nat
    BY <1>3, <2>1
  <2>3. g[j] = f[j + 1] - m /\ g[k] = f[k + 1] - m
    BY <1>10
  <2> QED BY <1>5, <2>2, <2>3
<1>12. ASSUME NEW k \in 1 .. n
       PROVE  /\ IsRequest(c, gr[k])'
              /\ g[k + 1] = g[k] + Len(gr[k])
              /\ \A i \in 1 .. Len(gr[k]) : out[g[k] + i] = gr[k][i]
  <2>0. /\ k + 1 \in 1 .. n + 1 /\ k \in 1 .. n + 1
        /\ k + 1 \in 1 .. (n + 1) + 1 /\ (k + 1) + 1 \in 1 .. (n + 1) + 1
        /\ (n + 1) + 1 \in 1 .. (n + 1) + 1 /\ (k + 1) + 1 <= (n + 1) + 1
    BY <1>3
  <2>1. gr[k] = fr[k + 1] /\ g[k] = f[k + 1] - m /\ g[k + 1] = f[(k + 1) + 1] - m
    BY <1>8, <1>10, <2>0
  <2>2. /\ IsRequest(c, fr[k + 1])
        /\ f[(k + 1) + 1] = f[k + 1] + Len(fr[k + 1])
        /\ \A i \in 1 .. Len(fr[k + 1]) : in[f[k + 1] + i] = fr[k + 1][i]
    BY <1>4, <2>0
  <2>3. /\ f[k + 1] \in Nat /\ f[(k + 1) + 1] \in Nat /\ f[(k + 1) + 1] <= Len(in)
        /\ g[k] \in Nat
    BY <1>3, <1>10, <2>0
  <2>4. Len(fr[k + 1]) \in Nat
    <3>1. fr[k + 1] \in Seq(Nat)
      BY <1>3, <2>0
    <3> QED BY <3>1
  <2>5. ASSUME NEW i \in 1 .. Len(fr[k + 1]) PROVE out[g[k] + i] = fr[k + 1][i]
    <3>1. g[k] + i \in 1 .. Len(in) - m /\ m + (g[k] + i) = f[k + 1] + i
      <4>1. PICK x, l, t : x = f[k + 1] /\ l = Len(fr[k + 1]) /\ t = Len(in)
        OBVIOUS
      <4>2. f[(k + 1) + 1] = x + l /\ g[k] = x - m /\ i \in 1 .. l
        BY <2>1, <2>2, <4>1
      <4>3. /\ x \in Nat /\ l \in Nat /\ t \in Nat /\ x + l <= t
            /\ x - m \in Nat /\ m \in Nat
        BY <1>5, <2>3, <2>4, <4>1, <4>2
      <4>4. (x - m) + i \in 1 .. t - m /\ m + ((x - m) + i) = x + i
        BY <4>2, <4>3
      <4> QED BY <4>1, <4>2, <4>4
    <3>2. out[g[k] + i] = in[m + (g[k] + i)]
      BY <1>6, <3>1
    <3> QED BY <2>2, <3>1, <3>2
  <2>6. IsRequest(c, gr[k])'
    BY <2>1, <2>2
  <2>7. g[k + 1] = g[k] + Len(gr[k])
    BY <1>5, <2>1, <2>2, <2>3, <2>4
  <2> QED BY <2>1, <2>5, <2>6, <2>7
<1>13. g[1] = 0 /\ g[n + 1] = Len(out)
  <2>1. 1 \in 1 .. n + 1 /\ n + 1 \in 1 .. n + 1 /\ 1 + 1 = 2
    BY <1>3
  <2>2. g[1] = f[2] - m /\ g[n + 1] = f[(n + 1) + 1] - m
    BY <1>10, <2>1
  <2> QED BY <1>3, <1>5, <1>6, <2>2
<1>14. Framed(c, gr, g)'
    BY <1>1, <1>8, <1>10, <1>11, <1>12, <1>13 DEF Framed
<1> QED BY <1>14

LEMMA WantedNat ==
    ASSUME NEW op, IsCall(op), NEW a \in Address
    PROVE  Wanted(op, a) \subseteq Nat
<1>1. CASE op.code # 3 /\ a \in op.address .. op.address + op.count - 1
  <2>1. PICK b, n, w : b = op.address /\ n = op.count /\ w = op.values
    OBVIOUS
  <2>2. b \in Word /\ n \in Word /\ w \in Seq(Word) /\ Len(w) = n
    BY <1>1, <2>1 DEF IsCall
  <2>3. b \in Nat /\ n \in Nat /\ a \in b .. b + n - 1
    BY <1>1, <2>1, <2>2, WordNat
  <2>4. a - b + 1 \in 1 .. n
    BY <2>3
  <2>5. w[a - b + 1] \in Word
    BY <2>2, <2>4
  <2> QED BY <1>1, <2>1, <2>5, WordNat DEF Wanted
<1>2. CASE ~(op.code # 3 /\ a \in op.address .. op.address + op.count - 1)
    BY <1>2 DEF Wanted
<1> QED BY <1>1, <1>2

LEMMA SendStep ==
    ASSUME NEW c \in Client, NEW op \in Op[c], Send(c, op),
           Types, RegisterInv, FrameInv, ThreadInv
    PROVE  Types' /\ RegisterInv' /\ FrameInv' /\ ThreadInv'
<1>0. IsCall(op)
    BY OpFacts
<1>1. PICK id, r : id = ids[c] + 1 /\ r = makeRequest(id, op)
    OBVIOUS
<1>2. id \in Nat /\ ids' = [ids EXCEPT ![c] = id] /\ ids \in [Client -> Nat]
    BY <1>1 DEF Send, Types
<1>3. r \in Seq(Nat)
    BY <1>0, <1>1, <1>2, RequestFields
<1>4. toServer' = [toServer EXCEPT ![c] = toServer[c] \o r] /\ toServer \in [Client -> Seq(Nat)]
  <2>1. ids'[c] = id
    BY <1>2
  <2> QED BY <1>1, <2>1 DEF Send, Types
<1>5. /\ asked' = [a \in Address |-> asked[a] \cup Wanted(op, a)]
      /\ UNCHANGED <<registers_, thread, request, index>>
    BY DEF Send, threadVars
<1>6. \A a \in Address : asked[a] \subseteq asked'[a] /\ Wanted(op, a) \subseteq asked'[a]
    BY <1>5
<1>7. Types'
  <2>1. asked' \in [Address -> SUBSET Nat]
    BY <1>0, <1>5, WantedNat DEF Types
  <2>2. toServer[c] \o r \in Seq(Nat)
    <3>1. toServer[c] \in Seq(Nat)
      BY <1>4
    <3> QED BY <1>3, <3>1
  <2>3. toServer' \in [Client -> Seq(Nat)]
    BY <1>4, <2>2
  <2>4. ids' \in [Client -> Nat]
    BY <1>2
  <2> QED BY <1>5, <2>1, <2>3, <2>4 DEF Types
<1>8. RegisterInv'
    BY <1>5, <1>6 DEF RegisterInv
<1>9. ASSUME NEW d \in Client PROVE \E fr, f : Framed(d, fr, f)'
  <2>1. CASE d # c
    <3>1. toServer'[d] = toServer[d]
      BY <1>4, <2>1
    <3> QED BY <1>6, <3>1, SameFrames
  <2>2. CASE d = c
    <3>1. PICK fr, f : Framed(c, fr, f)
      BY DEF FrameInv
    <3>2. toServer[c] \in Seq(Nat) /\ toServer'[c] = toServer[c] \o r
      BY <1>4
    <3>3. Recorded(op)'
      BY <1>6 DEF Recorded, Wanted
    <3>4. IsRequest(c, r)'
      BY <1>1, <1>2, <3>3 DEF IsRequest
    <3>5. \A x : IsRequest(c, x) => IsRequest(c, x)'
      BY <1>6, AskedGrows
    <3>6. \E gr, g : Framed(c, gr, g)'
      BY <1>3, <3>1, <3>2, <3>4, <3>5, AddFrame, Zenon
    <3> QED BY <2>2, <3>6
  <2> QED BY <2>1, <2>2
<1>10. FrameInv'
    BY <1>9 DEF FrameInv
<1>11. ThreadInv'
    BY <1>5, <1>6, SameThread DEF ThreadInv
<1> QED BY <1>7, <1>8, <1>10, <1>11

\* Steps of a thread that only move it: a thread that writes stays with its
\* request, or has no loop to go on with.
LEMMA ThreadMoves ==
    ASSUME NEW c \in Client, Types, RegisterInv, FrameInv, ThreadInv,
           UNCHANGED <<registers_, asked, ids, toServer, request>>,
           NEW x \in {"test", "read", "get", "write", "ended"}, NEW i \in Nat,
           thread' = [thread EXCEPT ![c] = x], index' = [index EXCEPT ![c] = i],
           x # "get" => i = 0
    PROVE  Types' /\ RegisterInv' /\ FrameInv' /\ ThreadInv'
<1>1. Types' /\ RegisterInv'
    BY DEF Types, RegisterInv
<1>2. FrameInv'
    BY SameFrames DEF FrameInv
<1>3. ASSUME NEW d \in Client
      PROVE  /\ thread'[d] \notin {"get", "set"} => index'[d] = 0
             /\ thread'[d] = "set" => Writing(d)'
  <2>1. CASE d = c
    BY <2>1 DEF Types
  <2>2. CASE d # c
    <3>1. thread'[d] = thread[d] /\ index'[d] = index[d] /\ request'[d] = request[d]
      BY <2>2 DEF Types
    <3> QED BY <3>1, SameThread
  <2> QED BY <2>1, <2>2
<1>4. ThreadInv'
    BY <1>3 DEF ThreadInv
<1> QED BY <1>1, <1>2, <1>4

LEMMA LoopStep ==
    ASSUME NEW c \in Client, Types, RegisterInv, FrameInv, ThreadInv,
           LoopTest(c) \/ ReadFails(c) \/ GetRegister(c) \/ Respond(c)
    PROVE  Types' /\ RegisterInv' /\ FrameInv' /\ ThreadInv'
<1>0. UNCHANGED <<registers_, asked, ids, toServer, request>>
    BY DEF LoopTest, ReadFails, GetRegister, Respond, clientVars, regVars
<1>1. /\ thread \in [Client -> {"test", "read", "get", "set", "write", "ended"}]
      /\ index \in [Client -> Nat] /\ (thread[c] \in {"test", "read"} => index[c] = 0)
    BY DEF Types, ThreadInv
<1>2. CASE LoopTest(c) \/ ReadFails(c)
  <2>1. \E x \in {"read", "ended"} : thread' = [thread EXCEPT ![c] = x]
    BY <1>2 DEF LoopTest, ReadFails
  <2>2. index' = index /\ index[c] = 0
    BY <1>1, <1>2 DEF LoopTest, ReadFails
  <2>3. index' = [index EXCEPT ![c] = 0]
    BY <1>1, <2>2
  <2> QED BY <1>0, <2>1, <2>3, ThreadMoves
<1>3. CASE GetRegister(c)
  <2>1. thread[c] = "get" /\ thread' = thread /\ index' = [index EXCEPT ![c] = index[c] + 1]
    BY <1>3 DEF GetRegister
  <2>2. thread' = [thread EXCEPT ![c] = "get"] /\ index[c] + 1 \in Nat
    BY <1>1, <2>1
  <2> QED BY <1>0, <2>1, <2>2, ThreadMoves
<1>4. CASE Respond(c)
  <2>1. thread' = [thread EXCEPT ![c] = "test"] /\ index' = [index EXCEPT ![c] = 0]
    BY <1>4 DEF Respond
  <2> QED BY <1>0, <2>1, ThreadMoves
<1> QED BY <1>2, <1>3, <1>4

\* When processRequest goes on to write registers, they exist.
LEMMA ProcessFacts ==
    ASSUME NEW c \in Client, NEW r, NEW matches, processRequest(c, r, matches)
    PROVE  \E x \in {"get", "set", "write"} :
              /\ thread' = [thread EXCEPT ![c] = x]
              /\ x = "set" => \/ functionCode(r) = 6 /\ startAddress(r) < Size
                              \/ functionCode(r) = 16 /\ startAddress(r) + quantity(r) <= Size
<1>1. CASE functionCode(r) = 3 /\ startAddress(r) + quantity(r) <= Size
  <2>1. thread' = [thread EXCEPT ![c] = "get"]
    BY <1>1 DEF processRequest, Enter
  <2> QED BY <2>1
<1>2. CASE functionCode(r) = 6 /\ startAddress(r) < Size
  <2>1. thread' = [thread EXCEPT ![c] = "set"]
    BY <1>2 DEF processRequest, Enter
  <2> QED BY <1>2, <2>1
<1>3. CASE /\ functionCode(r) = 16 /\ startAddress(r) + quantity(r) <= Size
           /\ matches
  <2>1. thread' = [thread EXCEPT ![c] = "set"]
    BY <1>3 DEF processRequest, Enter
  <2> QED BY <1>3, <2>1
<1>4. CASE functionCode(r) \notin {3, 6, 16}
  <2>1. thread' = [thread EXCEPT ![c] = "write"]
    BY <1>4 DEF processRequest, Enter
  <2> QED BY <2>1
<1>5. CASE /\ ~(functionCode(r) = 3 /\ startAddress(r) + quantity(r) <= Size)
           /\ ~(functionCode(r) = 6 /\ startAddress(r) < Size)
           /\ ~(/\ functionCode(r) = 16 /\ startAddress(r) + quantity(r) <= Size
                /\ matches)
           /\ functionCode(r) \in {3, 6, 16}
  <2>1. thread' = [thread EXCEPT ![c] = "write"]
    BY <1>5 DEF processRequest, Enter
  <2> QED BY <2>1
<1> QED BY <1>1, <1>2, <1>3, <1>4, <1>5

LEMMA SeqEqual ==
    ASSUME NEW S, NEW s \in Seq(S), NEW t \in Seq(S), Len(s) = Len(t),
           \A i \in 1 .. Len(s) : s[i] = t[i]
    PROVE  s = t
OBVIOUS

\* The bytes in begin with the request q.
Begins(in, q) ==
    /\ in \in Seq(Nat) /\ q \in Seq(Nat)
    /\ Len(q) >= 12 /\ Len(q) <= Len(in)
    /\ Len(q) = 6 + (256 * q[5] + q[6])
    /\ \A i \in 1 .. Len(q) : in[i] = q[i]

Processed(c, r) == \E matches : processRequest(c, r, matches)

\* The thread takes q from in.
Takes(c, in, q) ==
    /\ request' = [request EXCEPT ![c] = q]
    /\ toServer' = [toServer EXCEPT ![c] = SubSeq(in, Len(q) + 1, Len(in))]
    /\ Processed(c, q)

\* When a request has arrived, the two readExact read it and no more.
LEMMA ReadsRequest ==
    ASSUME NEW c \in Client, ReadRequest(c), request[c] \in Seq(Nat),
           NEW in, in = toServer[c], NEW q, Begins(in, q)
    PROVE  Takes(c, in, q)
<1>2. in \in Seq(Nat) /\ Len(in) \in Nat /\ Len(in) >= 6
    BY DEF ReadRequest, Begins
<1>5. \A i \in 1 .. Len(q) : in[i] = q[i]
    BY DEF Begins
<1>7. /\ q \in Seq(Nat) /\ Len(q) \in Nat /\ Len(q) >= 12
      /\ Len(q) = 6 + (256 * q[5] + q[6])
    BY DEF Begins
<1>8. Len(q) <= Len(in)
    BY DEF Begins
<1>9. WordAt(in, 5) = Len(q) - 6
  <2>1. 5 \in 1 .. Len(in) - 1 /\ 5 \in 1 .. Len(q) /\ 6 \in 1 .. Len(q) /\ 5 + 1 = 6
    BY <1>2, <1>7
  <2>2. WordAt(in, 5) = 256 * in[5] + in[5 + 1]
    BY <1>2, <2>1, WordFact, Zenon
  <2>3. in[5] = q[5] /\ in[6] = q[6]
    BY <1>5, <2>1
  <2>4. q[5] \in Nat /\ q[6] \in Nat
    <3>1. q \in Seq(Nat) /\ 5 \in 1 .. Len(q) /\ 6 \in 1 .. Len(q)
      BY <1>7, <2>1
    <3> QED BY <3>1
  <2>5. PICK x \in Nat, y \in Nat : x = q[5] /\ y = q[6]
    BY <2>4
  <2>6. WordAt(in, 5) = 256 * x + y
    BY <2>1, <2>2, <2>3, <2>5
  <2>7. Len(q) = 6 + (256 * x + y) /\ Len(q) \in Nat
    BY <1>7, <2>5
  <2> QED BY <2>6, <2>7
<1>10. PICK l, old : l = WordAt(in, 5) /\ old = Resize(request[c], l)
    OBVIOUS
<1>11. l \in Nat /\ 6 + l = Len(q) /\ Len(in) >= 6 + l
  <2>1. l = Len(q) - 6
    BY <1>9, <1>10
  <2>2. Len(q) \in Nat /\ Len(q) >= 12 /\ Len(in) \in Nat /\ Len(q) <= Len(in)
    BY <1>2, <1>7, <1>8
  <2> QED BY <2>1, <2>2
<1>12. old \in Seq(Nat) /\ Len(old) = l
  <2>2. old \in [1 .. l -> Nat]
    <3>1. \A i \in 1 .. l : i <= Len(request[c]) => request[c][i] \in Nat
      BY <1>11
    <3> QED BY <1>10, <1>11, <3>1 DEF Resize
  <2> QED BY <1>11, <2>2, MakeSeq
<1>13. SubSeq(in, 1, 6 + l) = q
  <2>1. 1 \in 1 .. Len(in) + 1 /\ 6 + l \in 1 - 1 .. Len(in)
    BY <1>2, <1>11
  <2>2. PICK s : s = SubSeq(in, 1, 6 + l)
    OBVIOUS
  <2>3. /\ s \in Seq(Nat) /\ Len(s) = (6 + l) - 1 + 1
        /\ \A i \in 1 .. (6 + l) - 1 + 1 : s[i] = in[1 + i - 1]
    BY <1>2, <2>1, <2>2, PartFacts
  <2>4. (6 + l) - 1 + 1 = Len(q) /\ \A i \in 1 .. Len(q) : 1 + i - 1 = i
    BY <1>7, <1>11
  <2>5. Len(s) = Len(q) /\ \A i \in 1 .. Len(s) : s[i] = q[i]
    BY <1>5, <2>3, <2>4
  <2>6. s = q
    BY <1>7, <2>3, <2>5, SeqEqual
  <2> QED BY <2>2, <2>6
<1>14. SubSeq(old, l + 1, l) \in Seq(Nat) /\ Len(SubSeq(old, l + 1, l)) = 0
  <2>1. l + 1 \in 1 .. Len(old) + 1 /\ l \in (l + 1) - 1 .. Len(old) /\ l - (l + 1) + 1 = 0
    BY <1>11, <1>12
  <2>2. SubSeq(old, l + 1, l) \in Seq(Nat) /\ Len(SubSeq(old, l + 1, l)) = l - (l + 1) + 1
    BY <1>12, <2>1, PartFacts
  <2> QED BY <2>1, <2>2
<1>15. SubSeq(in, 1, 6 + l) \o SubSeq(old, l + 1, l) = q
  <2>1. PICK e : e = SubSeq(old, l + 1, l)
    OBVIOUS
  <2>2. e \in Seq(Nat) /\ Len(e) = 0
    BY <1>14, <2>1
  <2>3. q \o e \in Seq(Nat) /\ Len(q \o e) = Len(q) + Len(e)
        /\ \A i \in 1 .. Len(q) : (q \o e)[i] = q[i]
    BY <1>7, <2>2
  <2>4. Len(q \o e) = Len(q) /\ \A i \in 1 .. Len(q \o e) : (q \o e)[i] = q[i]
    BY <1>7, <2>2, <2>3
  <2>5. q \o e = q
    BY <1>7, <2>3, <2>4, SeqEqual
  <2> QED BY <1>13, <2>1, <2>5
<1>16. /\ request' = [request EXCEPT ![c] = q]
       /\ toServer' = [toServer EXCEPT ![c] = SubSeq(in, 7 + l, Len(in))]
       /\ Processed(c, q)
  <2>1. (IF Len(in) >= 6 + l THEN l ELSE Len(in) - 6) = l
    BY <1>11
  <2> QED BY <1>10, <1>15, <2>1 DEF ReadRequest, Processed
<1>17. 7 + l = Len(q) + 1
    BY <1>7, <1>11
<1> QED BY <1>16, <1>17 DEF Takes

\* What the two readExact read is the first request under way.
LEMMA WholeRequest ==
    ASSUME NEW c \in Client, ReadRequest(c), Types,
           NEW fr, NEW f, Framed(c, fr, f)
    PROVE  /\ Len(fr) >= 1
           /\ request'[c] = fr[1]
           /\ toServer'[c] = SubSeq(toServer[c], Len(fr[1]) + 1, Len(toServer[c]))
           /\ Processed(c, fr[1])
<1>1. PICK in, q : in = toServer[c] /\ q = fr[1]
    OBVIOUS
<1>2. in \in Seq(Nat) /\ Len(in) \in Nat /\ Len(in) >= 6
    BY <1>1 DEF ReadRequest, Types
<1>3. /\ fr \in Seq(Seq(Nat)) /\ Len(fr) \in Nat
      /\ f \in [1 .. Len(fr) + 1 -> Nat] /\ f[1] = 0 /\ f[Len(fr) + 1] = Len(in)
      /\ \A j, k \in 1 .. Len(fr) + 1 : j <= k => f[j] <= f[k]
    BY <1>1 DEF Framed
<1>4. Len(fr) >= 1
  <2>1. Len(fr) # 0
    <3> SUFFICES ASSUME Len(fr) = 0 PROVE FALSE
      OBVIOUS
    <3>1. Len(fr) + 1 = 1
      OBVIOUS
    <3> QED BY <1>2, <1>3, <3>1
  <2> QED BY <1>3, <2>1
<1>5. /\ IsRequest(c, q) /\ f[2] = Len(q)
      /\ \A i \in 1 .. Len(q) : in[i] = q[i]
  <2>1. 1 \in 1 .. Len(fr) /\ 1 + 1 = 2
    BY <1>3, <1>4
  <2>2. /\ IsRequest(c, q) /\ f[1 + 1] = f[1] + Len(q)
        /\ \A i \in 1 .. Len(q) : in[f[1] + i] = q[i]
    BY <1>1, <2>1 DEF Framed
  <2>3. q \in Seq(Nat)
    BY <1>1, <1>3, <2>1
  <2>4. Len(q) \in Nat /\ \A i \in 1 .. Len(q) : 0 + i = i
    BY <2>3
  <2> QED BY <1>3, <2>1, <2>2, <2>4
<1>6. PICK op \in Op[c], id \in Nat : q = makeRequest(id, op)
    BY <1>5 DEF IsRequest
<1>7. /\ q \in Seq(Nat) /\ Len(q) \in Nat /\ Len(q) >= 12
      /\ Len(q) = 6 + (256 * q[5] + q[6])
  <2>1. IsCall(op)
    BY OpFacts
  <2> QED BY <1>6, <2>1, RequestFields
<1>8. Len(q) <= Len(in)
  <2>1. 2 \in 1 .. Len(fr) + 1 /\ Len(fr) + 1 \in 1 .. Len(fr) + 1 /\ 2 <= Len(fr) + 1
    BY <1>3, <1>4
  <2> QED BY <1>3, <1>5, <2>1
<1>9. in \in Seq(Nat) /\ request[c] \in Seq(Nat) /\ in = toServer[c]
    BY <1>1, <1>2 DEF Types
<1>10. Begins(in, q)
    BY <1>5, <1>7, <1>8, <1>9 DEF Begins
<1>11. Takes(c, in, q)
    BY <1>9, <1>10, ReadsRequest, Zenon
<1>12. /\ request' = [request EXCEPT ![c] = q]
       /\ toServer' = [toServer EXCEPT ![c] = SubSeq(in, Len(q) + 1, Len(in))]
       /\ Processed(c, q)
    BY <1>11 DEF Takes
<1> QED BY <1>1, <1>4, <1>12 DEF Types

LEMMA ReadStep ==
    ASSUME NEW c \in Client, ReadRequest(c), Types, RegisterInv, FrameInv, ThreadInv
    PROVE  Types' /\ RegisterInv' /\ FrameInv' /\ ThreadInv'
<1>1. PICK fr, f : Framed(c, fr, f)
    BY DEF FrameInv
<1>2. PICK q : q = fr[1]
    OBVIOUS
<1>3. /\ Len(fr) >= 1 /\ request'[c] = q
      /\ toServer'[c] = SubSeq(toServer[c], Len(fr[1]) + 1, Len(toServer[c]))
      /\ Processed(c, q)
    BY <1>1, <1>2, WholeRequest
<1>4. PICK op \in Op[c], id \in Nat : q = makeRequest(id, op) /\ Recorded(op)
  <2>1. IsRequest(c, fr[1])
    <3>1. Len(fr) \in Nat
      BY <1>1 DEF Framed
    <3>2. 1 \in 1 .. Len(fr)
      BY <1>3, <3>1
    <3> QED BY <1>1, <3>2 DEF Framed
  <2> QED BY <1>2, <2>1 DEF IsRequest
<1>5. IsCall(op)
    BY OpFacts
<1>6. /\ q \in Seq(Nat) /\ functionCode(q) = op.code /\ startAddress(q) = op.address
      /\ quantity(q) = IF op.code = 6 THEN op.values[1] ELSE op.count
    BY <1>4, <1>5, RequestFields
<1>7. PICK x \in {"get", "set", "write"} :
         /\ thread' = [thread EXCEPT ![c] = x]
         /\ x = "set" => \/ functionCode(q) = 6 /\ startAddress(q) < Size
                         \/ functionCode(q) = 16 /\ startAddress(q) + quantity(q) <= Size
    BY <1>3, ProcessFacts, Zenon DEF Processed
<1>8. /\ thread[c] = "read" /\ UNCHANGED <<registers_, asked, ids, index>>
      /\ \E r : request' = [request EXCEPT ![c] = r]
      /\ \E t : toServer' = [toServer EXCEPT ![c] = t]
    BY DEF ReadRequest, clientVars, regVars
<1>9. /\ request \in [Client -> Seq(Nat)] /\ toServer \in [Client -> Seq(Nat)]
      /\ thread \in [Client -> {"test", "read", "get", "set", "write", "ended"}]
    BY DEF Types
<1>10. /\ request' = [request EXCEPT ![c] = q]
       /\ \A d \in Client \ {c} : /\ toServer'[d] = toServer[d] /\ request'[d] = request[d]
                                  /\ thread'[d] = thread[d]
    BY <1>3, <1>7, <1>8, <1>9
<1>11. toServer'[c] \in Seq(Nat)
  <2>1. PICK in : in = toServer[c]
    OBVIOUS
  <2>2. in \in Seq(Nat) /\ Len(in) \in Nat /\ Len(fr[1]) \in Nat
    <3>1. fr[1] \in Seq(Nat)
      BY <1>2, <1>6
    <3> QED BY <1>9, <2>1, <3>1
  <2>3. SubSeq(in, Len(fr[1]) + 1, Len(in)) \in Seq(Nat)
    BY <2>2
  <2> QED BY <1>3, <2>1, <2>3
<1>12. Types'
  <2>1. toServer' \in [Client -> Seq(Nat)]
    BY <1>8, <1>9, <1>11
  <2>2. request' \in [Client -> Seq(Nat)]
    BY <1>6, <1>9, <1>10
  <2>3. thread' \in [Client -> {"test", "read", "get", "set", "write", "ended"}]
    BY <1>7, <1>9
  <2> QED BY <1>8, <2>1, <2>2, <2>3 DEF Types
<1>13. RegisterInv'
    BY <1>8 DEF RegisterInv
<1>14. \A a \in Address : asked[a] \subseteq asked'[a]
    BY <1>8
<1>15. ASSUME NEW d \in Client PROVE \E gr, g : Framed(d, gr, g)'
  <2>1. CASE d = c
    <3>1. \A y : IsRequest(c, y) => IsRequest(c, y)'
      BY <1>14, AskedGrows
    <3>2. toServer[c] \in Seq(Nat)
      BY <1>9
    <3>3. \E gr, g : Framed(c, gr, g)'
      BY <1>1, <1>3, <3>1, <3>2, DropFrame, Zenon
    <3> QED BY <2>1, <3>3
  <2>2. CASE d # c
    <3>1. toServer'[d] = toServer[d]
      BY <1>10, <2>2
    <3> QED BY <1>14, <3>1, SameFrames
  <2> QED BY <2>1, <2>2
<1>16. FrameInv'
    BY <1>15 DEF FrameInv
<1>17. index'[c] = 0
    BY <1>8 DEF ThreadInv
<1>18. thread'[c] = "set" => Writing(c)'
  <2> SUFFICES ASSUME thread'[c] = "set" PROVE Writing(c)'
    OBVIOUS
  <2>1. x = "set"
    BY <1>7, <1>9
  <2>2. op.code # 3 /\ op.address + op.count <= Size
    <3>1. \/ op.code = 6 /\ op.address < Size
          \/ op.code = 16 /\ op.address + quantity(q) <= Size
      BY <1>6, <1>7, <2>1
    <3>2. CASE op.code = 6 /\ op.address < Size
      <4>1. op.count = 1 /\ op.address \in Word
        BY <1>5, <3>2 DEF IsCall
      <4>2. op.address \in Nat /\ Size \in Nat
        BY <4>1, SizeFact, WordNat
      <4> QED BY <3>2, <4>1, <4>2
    <3>3. CASE op.code = 16 /\ op.address + quantity(q) <= Size
      BY <1>6, <3>3
    <3> QED BY <3>1, <3>2, <3>3
  <2>3. op.count \in Nat
    <3>1. op.count \in Word
      BY <1>5 DEF IsCall
    <3> QED BY <3>1, WordNat
  <2>4. index'[c] \in 0 .. op.count
    BY <1>17, <2>3
  <2>5. Recorded(op)'
    BY <1>4, <1>14, AskedGrows
  <2>6. request'[c] = makeRequest(id, op)
    BY <1>3, <1>4
  <2> QED BY <2>2, <2>4, <2>5, <2>6 DEF Writing
<1>19. ASSUME NEW d \in Client
       PROVE  /\ thread'[d] \notin {"get", "set"} => index'[d] = 0
              /\ thread'[d] = "set" => Writing(d)'
  <2>1. CASE d = c
    BY <1>17, <1>18, <2>1
  <2>2. CASE d # c
    <3>1. thread'[d] = thread[d] /\ request'[d] = request[d] /\ index'[d] = index[d]
      BY <1>8, <1>10, <2>2
    <3> QED BY <1>14, <3>1, SameThread
  <2> QED BY <2>1, <2>2
<1>20. ThreadInv'
    BY <1>19 DEF ThreadInv
<1> QED BY <1>12, <1>13, <1>16, <1>20

\* The word that is written to a register is the one that the call has for it.
LEMMA ItsWord ==
    ASSUME NEW op, IsCall(op), op.code # 3, NEW id \in Nat, NEW r, r = makeRequest(id, op),
           NEW i \in Nat, i < op.count
    PROVE  WordsToWrite(r, i) = {op.values[i + 1]}
<1>1. /\ functionCode(r) = op.code /\ Len(r) \in Nat /\ Len(r) >= 12
      /\ quantity(r) = IF op.code = 6 THEN op.values[1] ELSE op.count
      /\ op.code = 16 => Len(r) = 13 + 2 * op.count
      /\ op.code = 16 => \A k \in 0 .. op.count - 1 : WordAt(r, 14 + 2 * k) = op.values[k + 1]
    BY RequestFields
<1>2. op.code \in {6, 16} /\ (op.code = 6 => op.count = 1) /\ op.count \in Nat
  <2>1. op.code \in {6, 16} /\ (op.code = 6 => op.count = 1) /\ op.count \in Word
    BY DEF IsCall
  <2> QED BY <2>1, WordNat
<1>3. CASE op.code = 6
  <2>1. i = 0 /\ 11 < Len(r) /\ i + 1 = 1
    BY <1>1, <1>2, <1>3
  <2>2. WordAt(r, 11) = op.values[1]
    BY <1>1, <1>3 DEF quantity
  <2>3. Single(r)
    BY <1>1, <1>3 DEF Single
  <2> QED BY <2>1, <2>2, <2>3 DEF WordsToWrite
<1>4. CASE op.code = 16
  <2>1. i \in 0 .. op.count - 1 /\ 14 + 2 * i < Len(r)
    BY <1>1, <1>2, <1>4
  <2>2. WordAt(r, 14 + 2 * i) = op.values[i + 1]
    BY <1>1, <1>4, <2>1
  <2>3. ~Single(r)
    BY <1>1, <1>4 DEF Single
  <2> QED BY <2>1, <2>2, <2>3 DEF WordsToWrite
<1> QED BY <1>2, <1>3, <1>4

\* A register that is written gets the value that the request has for it.
LEMMA SetStep ==
    ASSUME NEW c \in Client, SetRegister(c), Types, RegisterInv, FrameInv, ThreadInv
    PROVE  Types' /\ RegisterInv' /\ FrameInv' /\ ThreadInv'
<1>1. PICK r, i : r = request[c] /\ i = index[c]
    OBVIOUS
<1>2. /\ thread[c] = "set"
      /\ i < (IF Single(r) THEN 1 ELSE quantity(r))
      /\ \E v \in WordsToWrite(r, i) : registers_' = [registers_ EXCEPT ![startAddress(r) + i] = v]
      /\ index' = [index EXCEPT ![c] = i + 1]
      /\ UNCHANGED <<thread, request, ids, toServer, asked>>
    BY <1>1 DEF SetRegister, Store, clientVars
<1>3. PICK op \in Op[c], id \in Nat :
         /\ r = makeRequest(id, op) /\ Recorded(op) /\ op.code # 3
         /\ op.address + op.count <= Size /\ i \in 0 .. op.count
    BY <1>1, <1>2 DEF ThreadInv, Writing
<1>4. IsCall(op)
    BY OpFacts
<1>5. /\ functionCode(r) = op.code /\ startAddress(r) = op.address
      /\ quantity(r) = IF op.code = 6 THEN op.values[1] ELSE op.count
      /\ op.code = 16 => \A k \in 0 .. op.count - 1 : WordAt(r, 14 + 2 * k) = op.values[k + 1]
    BY <1>3, <1>4, RequestFields
<1>6. PICK b, n, w : b = op.address /\ n = op.count /\ w = op.values
    OBVIOUS
<1>7. /\ b \in Nat /\ n \in Nat /\ w \in Seq(Nat) /\ Len(w) = n /\ Size \in Nat
      /\ op.code \in {6, 16} /\ (op.code = 6 => n = 1)
  <2>1. /\ b \in Word /\ n \in Word /\ w \in Seq(Word) /\ Len(w) = n
        /\ op.code \in {6, 16} /\ (op.code = 6 => n = 1)
    BY <1>3, <1>4, <1>6 DEF IsCall
  <2>2. w \in Seq(Nat)
    BY <2>1, WordNat, SeqSub
  <2> QED BY <2>1, <2>2, SizeFact, WordNat
<1>8. i \in Nat /\ i < n /\ b + n <= Size
  <2>1. i \in 0 .. n /\ b + n <= Size
    BY <1>3, <1>6
  <2>2. CASE op.code = 6
    BY <1>2, <1>5, <1>7, <2>1, <2>2 DEF Single
  <2>3. CASE op.code = 16
    BY <1>2, <1>5, <1>6, <1>7, <2>1, <2>3 DEF Single
  <2> QED BY <1>7, <2>2, <2>3
<1>9. WordsToWrite(r, i) = {w[i + 1]}
  <2>1. r = makeRequest(id, op) /\ op.code # 3
    BY <1>3
  <2>2. i \in Nat /\ i < op.count
    BY <1>6, <1>8
  <2>3. WordsToWrite(r, i) = {op.values[i + 1]}
    BY <1>4, <2>1, <2>2, ItsWord
  <2> QED BY <1>6, <2>3
<1>10. b + i \in Address /\ b + i \in b .. b + n - 1 /\ (b + i) - b + 1 = i + 1 /\ i + 1 \in 1 .. n
    BY <1>7, <1>8 DEF Address
<1>11. w[i + 1] \in Nat
    BY <1>7, <1>10
<1>12. w[i + 1] \in asked[b + i]
  <2>1. w[(b + i) - b + 1] \in Wanted(op, b + i)
    BY <1>3, <1>6, <1>10 DEF Wanted
  <2>2. Wanted(op, b + i) \subseteq asked[b + i]
    BY <1>3, <1>10 DEF Recorded
  <2> QED BY <1>10, <2>1, <2>2
<1>13. registers_' = [registers_ EXCEPT ![b + i] = w[i + 1]]
    BY <1>2, <1>5, <1>6, <1>9
<1>14. Types'
  <2>1. registers_' \in [Address -> Nat]
    BY <1>11, <1>13 DEF Types
  <2>2. index' \in [Client -> Nat]
    BY <1>2, <1>8 DEF Types
  <2> QED BY <1>2, <2>1, <2>2 DEF Types
<1>15. RegisterInv'
  <2>1. registers_ \in [Address -> Nat] /\ \A a \in Address : registers_[a] \in asked[a]
    BY DEF Types, RegisterInv
  <2>2. \A a \in Address : registers_'[a] = IF a = b + i THEN w[i + 1] ELSE registers_[a]
    BY <1>13, <2>1
  <2>3. \A a \in Address : registers_'[a] \in asked'[a]
    BY <1>2, <1>12, <2>1, <2>2
  <2> QED BY <2>3 DEF RegisterInv
<1>16. \A a \in Address : asked[a] \subseteq asked'[a]
    BY <1>2
<1>17. FrameInv'
    BY <1>2, <1>16, SameFrames DEF FrameInv
<1>18. Writing(c)'
  <2>1. index'[c] \in 0 .. op.count
    BY <1>2, <1>6, <1>7, <1>8 DEF Types
  <2>2. Recorded(op)'
    BY <1>3, <1>16, AskedGrows
  <2>3. request'[c] = makeRequest(id, op)
    BY <1>1, <1>2, <1>3
  <2> QED BY <1>3, <2>1, <2>2, <2>3 DEF Writing
<1>19. ASSUME NEW d \in Client
       PROVE  /\ thread'[d] \notin {"get", "set"} => index'[d] = 0
              /\ thread'[d] = "set" => Writing(d)'
  <2>1. CASE d = c
    BY <1>2, <1>18, <2>1
  <2>2. CASE d # c
    <3>1. thread'[d] = thread[d] /\ request'[d] = request[d] /\ index'[d] = index[d]
      BY <1>2, <2>2 DEF Types
    <3> QED BY <1>16, <3>1, SameThread
  <2> QED BY <2>1, <2>2
<1>20. ThreadInv'
    BY <1>19 DEF ThreadInv
<1> QED BY <1>14, <1>15, <1>17, <1>20

\* A write of the application to the registers 0 and 1.
LEMMA SetUint32Step ==
    ASSUME NEW v \in Value32, SetUint32(v), Types, RegisterInv, FrameInv, ThreadInv
    PROVE  Types' /\ RegisterInv' /\ FrameInv' /\ ThreadInv'
<1>1. v[1] \in Nat /\ v[2] \in Nat /\ 0 \in Address /\ 1 \in Address
  <2>1. v \in Word \X Word
    BY ConstantAssumption
  <2>2. v[1] \in Word /\ v[2] \in Word
    BY <2>1
  <2>3. 0 \in Address /\ 1 \in Address
    BY SizeFact DEF Address
  <2> QED BY <2>2, <2>3, WordNat
<1>2. /\ registers_' = [registers_ EXCEPT ![0] = v[1], ![1] = v[2]]
      /\ asked' = [asked EXCEPT ![0] = @ \cup {v[1]}, ![1] = @ \cup {v[2]}]
      /\ UNCHANGED <<ids, toServer, thread, request, index>>
    BY DEF SetUint32, Store, clientVars, threadVars
<1>3. registers_ \in [Address -> Nat] /\ asked \in [Address -> SUBSET Nat]
    BY DEF Types
<1>4. /\ registers_' \in [Address -> Nat]
      /\ \A a \in Address : registers_'[a] = IF a = 1 THEN v[2] ELSE IF a = 0 THEN v[1]
                                             ELSE registers_[a]
    BY <1>1, <1>2, <1>3
<1>5. /\ asked' \in [Address -> SUBSET Nat]
      /\ \A a \in Address : asked'[a] = IF a = 1 THEN asked[a] \cup {v[2]}
                                        ELSE IF a = 0 THEN asked[a] \cup {v[1]} ELSE asked[a]
    BY <1>1, <1>2, <1>3
<1>6. Types'
    BY <1>2, <1>4, <1>5 DEF Types
<1>7. RegisterInv'
    BY <1>4, <1>5 DEF RegisterInv
<1>8. \A a \in Address : asked[a] \subseteq asked'[a]
    BY <1>5
<1>9. FrameInv'
    BY <1>2, <1>8, SameFrames DEF FrameInv
<1>10. ThreadInv'
    BY <1>2, <1>8, SameThread DEF ThreadInv
<1> QED BY <1>6, <1>7, <1>9, <1>10

LEMMA NextIInv == IInv /\ [Next]_vars => IInv'
<1> SUFFICES ASSUME IInv, [Next]_vars PROVE IInv'
    OBVIOUS
<1>1. ClientType /\ (NoCut => Types /\ RegisterInv /\ FrameInv /\ ThreadInv)
    BY DEF IInv
<1>2. ClientType' /\ (NoCut' => NoCut)
    BY <1>1, CutStays
<1> SUFFICES ASSUME NoCut' PROVE Types' /\ RegisterInv' /\ FrameInv' /\ ThreadInv'
    BY <1>2 DEF IInv
<1>3. Types /\ RegisterInv /\ FrameInv /\ ThreadInv
    BY <1>1, <1>2
<1>4. CASE \E v \in Value32 : SetUint32(v)
    BY <1>3, <1>4, SetUint32Step
<1>5. CASE \E c \in Client : LoopTest(c) \/ ReadFails(c) \/ GetRegister(c) \/ Respond(c)
    BY <1>3, <1>5, LoopStep
<1>6. CASE \E c \in Client : ReadRequest(c)
    BY <1>3, <1>6, ReadStep
<1>7. CASE \E c \in Client : SetRegister(c)
    BY <1>3, <1>7, SetStep
<1>8. CASE \E c \in Client : \E op \in Op[c] : Send(c, op)
    BY <1>3, <1>8, SendStep
<1>9. ASSUME NEW c \in Client, NEW op \in Op[c], NEW n \in Cut, SendCut(c, op, n)
      PROVE  FALSE
  <2>1. client' = [client EXCEPT ![c] = "cut"]
    BY <1>9 DEF SendCut
  <2> QED BY <1>1, <2>1 DEF NoCut, ClientType
<1>10. CASE \/ Stop
            \/ \E c \in Client :
                  \/ Hangup(c) \/ ReceiveFails(c)
                  \/ \E n \in Cut \cup {Len(toClient[c])} : Receive(c, n)
            \/ UNCHANGED vars
  <2>1. UNCHANGED <<registers_, asked, ids, toServer, thread, request, index>>
    BY <1>10 DEF Stop, Hangup, ReceiveFails, Receive, clientVars, threadVars, regVars, vars
  <2> QED BY <1>3, <2>1, QuietStep
<1> QED BY <1>4, <1>5, <1>6, <1>7, <1>8, <1>9, <1>10 DEF Next, Thread

\* RegistersHoldWrites is an invariant: until a client dies while it sends a
\* request, processRequest stores in a register only what a client or the
\* application wrote to it, whatever the words, the number of clients and
\* the interleaving of the threads (the loops that call setUint16 in
\* ModbusServer.cpp).
THEOREM RegistersKeepWrites == Spec => []RegistersHoldWrites
<1>1. IInv => RegistersHoldWrites
    BY DEF IInv, NoCut, RegisterInv, RegistersHoldWrites
<1> QED BY <1>1, InitIInv, NextIInv, PTL DEF Spec

-----------------------------------------------------------------------------
(* The answers                                                             *)
(*                                                                         *)
(* A call that begins when nothing is under way has one request and then   *)
(* one answer under way: CallInv says how far they have come, and that     *)
(* what the answer says so far has been seen in the registers.  Nothing is *)
(* assumed of the other clients; the bytes of a request that was cut only  *)
(* have to be bytes, so that the registers always hold words.              *)

\* What a client takes from the answer b to op: the words in it, or that its
\* own were written.
Told(op, b) ==
    IF op.code = 3
    THEN [i \in 1 .. op.count |-> 256 * b[8 + 2 * i] + b[9 + 2 * i]]
    ELSE op.values

\* The registers of op exist, and the first n of them had the words w.
Shown(op, had, w, n) ==
    /\ op.address + op.count <= Size
    /\ \A i \in 1 .. n : w[i] \in had[op.address + i - 1]

\* The answer b to a read as far as it has n words.
HasWords(op, b, n, had) ==
    /\ op.code = 3 /\ n \in 0 .. op.count
    /\ b \in Seq(Nat) /\ Len(b) = 9 + 2 * n
    /\ Shown(op, had, Told(op, b), n)

Waiting == {"test", "read", "ended"}

\* The request of c is under way, and nothing else.
Sent(c) ==
    /\ toServer[c] = makeRequest(ids[c], call[c]) /\ toClient[c] = << >>
    /\ thread[c] \in Waiting

\* The server has the request and has come to index.
Served(c) ==
    /\ toServer[c] = << >> /\ toClient[c] = << >>
    /\ request[c] = makeRequest(ids[c], call[c])
    /\ response[c] \in Seq(Nat)
    /\ \/ thread[c] = "get" /\ HasWords(call[c], response[c], index[c], seen[c])
       \/ /\ thread[c] = "set" /\ call[c].code # 3
          /\ index[c] \in 0 .. call[c].count
          /\ Shown(call[c], seen[c], call[c].values, index[c])
       \/ thread[c] = "write" /\ Len(response[c]) = 3

\* The length that parse asks for.
Enough(op) == IF op.code = 3 THEN 9 + 2 * op.count ELSE 12

\* The answer is under way, and is true if it is long enough for one.
Answered(c) ==
    /\ toServer[c] = << >> /\ toClient[c] \in Seq(Nat)
    /\ thread[c] \in Waiting
    /\ Len(toClient[c]) >= Enough(call[c]) =>
          Shown(call[c], seen[c], Told(call[c], toClient[c]), call[c].count)

CallInv(c) ==
    /\ thread[c] \notin {"get", "set"} => index[c] = 0
    /\ client[c] = "wait" => \A a \in Address : registers_[a] \in seen[c][a]
    /\ client[c] = "wait" /\ clean[c] => Sent(c) \/ Served(c) \/ Answered(c)
    /\ client[c] = "idle" /\ clean[c] /\ result[c].ok =>
          Shown(call[c], seen[c], IF call[c].code = 3 THEN result[c].words ELSE call[c].values,
                call[c].count)

AnswerTypes ==
    /\ registers_ \in [Address -> Word]
    /\ client \in [Client -> {"idle", "wait", "dead", "cut"}]
    /\ DOMAIN call = Client /\ \A c \in Client : call[c] \in Op[c]
    /\ ids \in [Client -> Nat]
    /\ toServer \in [Client -> Seq(Byte)]
    /\ thread \in [Client -> {"test", "read", "get", "set", "write", "ended"}]
    /\ request \in [Client -> Seq(Byte)]
    /\ index \in [Client -> Nat]
    /\ clean \in [Client -> BOOLEAN]
    /\ DOMAIN result = Client /\ DOMAIN toClient = Client /\ DOMAIN response = Client
    /\ seen \in [Client -> [Address -> SUBSET Word]]

AnswerInv == AnswerTypes /\ \A c \in Client : CallInv(c)

LEMMA ByteNat == Byte \subseteq Nat
BY DEF Byte

LEMMA BytesByte == ASSUME NEW w \in Seq(Nat) PROVE Bytes(w) \in Seq(Byte)
<1>1. PICK n : n = 2 * Len(w)
    OBVIOUS
<1>2. n \in Nat /\ \A i \in 1 .. n : /\ (i % 2 = 1) => ((i + 1) \div 2 \in 1 .. Len(w))
                                     /\ (i % 2 # 1) => (i \div 2 \in 1 .. Len(w))
  <2>1. PICK m \in Nat : m = Len(w)
    OBVIOUS
  <2>2. 2 * m \in Nat /\ \A i \in 1 .. 2 * m : /\ i % 2 = 1 => (i + 1) \div 2 \in 1 .. m
                                               /\ i % 2 # 1 => i \div 2 \in 1 .. m
    BY <2>1
  <2> QED BY <1>1, <2>1, <2>2
<1>3. \A x \in Nat : (x \div 256) % 256 \in Byte /\ x % 256 \in Byte
    BY DEF Byte
<1>4. \A i \in 1 .. n :
        (IF i % 2 = 1 THEN (w[(i + 1) \div 2] \div 256) % 256 ELSE w[i \div 2] % 256) \in Byte
    BY <1>2, <1>3
<1>5. Bytes(w) \in [1 .. n -> Byte]
    BY <1>1, <1>4 DEF Bytes
<1> QED BY <1>2, <1>5, MakeSeq

LEMMA RequestBytes ==
    ASSUME NEW op, IsCall(op), NEW id \in Nat
    PROVE  makeRequest(id, op) \in Seq(Byte)
<1>1. /\ op.code \in {3, 6, 16} /\ op.address \in Nat /\ op.count \in Nat /\ op.values \in Seq(Nat)
      /\ op.code = 6 => op.values[1] \in Nat
  <2>1. /\ op.code \in {3, 6, 16} /\ op.address \in Word /\ op.count \in Word
        /\ op.values \in Seq(Word)
        /\ op.code = 6 => op.values[1] \in Word
    BY DEF IsCall
  <2>2. op.values \in Seq(Nat)
    BY <2>1, WordNat, SeqSub
  <2> QED BY <2>1, <2>2, WordNat
<1>2. PICK d : d = Data(op)
    OBVIOUS
<1>3. d \in Seq(Byte)
  <2>1. CASE op.code = 3
    <3>1. d = Bytes(<<op.address, op.count>>) /\ <<op.address, op.count>> \in Seq(Nat)
      BY <1>1, <1>2, <2>1 DEF Data
    <3> QED BY <3>1, BytesByte
  <2>2. CASE op.code = 6
    <3>1. d = Bytes(<<op.address, op.values[1]>>) /\ <<op.address, op.values[1]>> \in Seq(Nat)
      BY <1>1, <1>2, <2>2 DEF Data
    <3> QED BY <3>1, BytesByte
  <2>3. CASE op.code = 16
    <3>1. PICK p, q, v : /\ p = Bytes(<<op.address, op.count>>) /\ q = <<(2 * op.count) % 256>>
                         /\ v = Bytes(op.values)
      OBVIOUS
    <3>2. p \in Seq(Byte) /\ v \in Seq(Byte)
      <4>1. <<op.address, op.count>> \in Seq(Nat)
        BY <1>1
      <4> QED BY <1>1, <3>1, <4>1, BytesByte
    <3>3. q \in Seq(Byte)
      <4>1. \A n \in Nat : (2 * n) % 256 \in Byte
        BY DEF Byte
      <4>2. (2 * op.count) % 256 \in Byte
        BY <1>1, <4>1, Zenon
      <4> QED BY <3>1, <4>2
    <3>4. (p \o q) \o v \in Seq(Byte)
      BY <3>2, <3>3
    <3>5. d = (p \o q) \o v
      BY <1>2, <2>3, <3>1 DEF Data
    <3> QED BY <3>4, <3>5
  <2> QED BY <1>1, <2>1, <2>2, <2>3
<1>4. PICK h, u : h = Bytes(<<id % 2^16, 0, Len(d) + 2>>) /\ u = <<Unit, op.code>>
    OBVIOUS
<1>5. h \in Seq(Byte)
  <2>1. id % 2^16 \in Nat
    BY Limit
  <2>2. Len(d) + 2 \in Nat
    BY <1>3
  <2>3. <<id % 2^16, 0, Len(d) + 2>> \in Seq(Nat)
    BY <2>1, <2>2
  <2> QED BY <1>4, <2>3, BytesByte
<1>6. u \in Seq(Byte)
  <2>1. Unit \in Byte
    BY ConstantAssumption
  <2>2. op.code \in Byte
    BY <1>1 DEF Byte
  <2> QED BY <1>4, <2>1, <2>2
<1>7. (h \o u) \o d \in Seq(Byte)
    BY <1>3, <1>5, <1>6
<1> QED BY <1>2, <1>4, <1>7 DEF makeRequest

\* What has been seen stays so.
LEMMA ShownLonger ==
    ASSUME NEW op, IsCall(op), NEW s, NEW t, \A a \in Address : s[a] \subseteq t[a],
           NEW w, NEW n \in Nat, n <= op.count, Shown(op, s, w, n)
    PROVE  Shown(op, t, w, n)
<1>1. op.address \in Nat /\ op.count \in Nat /\ Size \in Nat
  <2>1. op.address \in Word /\ op.count \in Word
    BY DEF IsCall
  <2> QED BY <2>1, WordNat, SizeFact
<1>2. op.address + op.count <= Size /\ \A i \in 1 .. n : w[i] \in s[op.address + i - 1]
    BY DEF Shown
<1>3. \A i \in 1 .. n : op.address + i - 1 \in Address
    BY <1>1, <1>2 DEF Address
<1> QED BY <1>2, <1>3 DEF Shown

LEMMA CallFacts ==
    ASSUME AnswerTypes, NEW c \in Client
    PROVE  /\ call[c] \in Op[c] /\ IsCall(call[c])
           /\ call[c].count \in Nat /\ call[c].count >= 1 /\ call[c].address \in Nat
<1>1. call[c] \in Op[c]
    BY DEF AnswerTypes
<1>2. IsCall(call[c])
    BY <1>1, OpFacts
<1>3. PICK n, a : n = call[c].count /\ a = call[c].address
    OBVIOUS
<1>4. n \in Word \ {0} /\ a \in Word
    BY <1>2, <1>3 DEF IsCall
<1>5. n \in Nat /\ n >= 1 /\ a \in Nat
    BY <1>4, WordNat
<1> QED BY <1>1, <1>2, <1>3, <1>5

\* What another client or the application does leaves a call where it is.
Kept(d) ==
    /\ client'[d] = client[d] /\ call'[d] = call[d] /\ result'[d] = result[d]
    /\ ids'[d] = ids[d] /\ clean'[d] = clean[d]
    /\ toServer'[d] = toServer[d] /\ toClient'[d] = toClient[d]
    /\ thread'[d] = thread[d] /\ request'[d] = request[d]
    /\ response'[d] = response[d] /\ index'[d] = index[d]

Grown(d) ==
    /\ \A a \in Address : seen[d][a] \subseteq seen'[d][a]
    /\ client[d] = "wait" => \A a \in Address : registers_'[a] \in seen'[d][a]

LEMMA KeptCall ==
    ASSUME AnswerTypes, NEW d \in Client, CallInv(d), Kept(d), Grown(d)
    PROVE  CallInv(d)'
<1>1. PICK op, s, t : op = call[d] /\ s = seen[d] /\ t = seen'[d]
    OBVIOUS
<1>2. call'[d] = op
    BY <1>1 DEF Kept
<1>3. IsCall(op) /\ op.count \in Nat
    BY <1>1, CallFacts
<1>4. ASSUME NEW w, NEW n \in Nat, n <= op.count, Shown(op, s, w, n)
      PROVE  Shown(op, t, w, n)
  <2>1. \A a \in Address : s[a] \subseteq t[a]
    BY <1>1 DEF Grown
  <2> QED BY <1>3, <1>4, <2>1, ShownLonger
<1>5. Sent(d) => Sent(d)'
    BY DEF Sent, Kept
<1>6. Served(d) => Served(d)'
  <2> SUFFICES ASSUME Served(d) PROVE Served(d)'
    OBVIOUS
  <2>1. PICK b, i, v : b = response[d] /\ i = index[d] /\ v = thread[d]
    OBVIOUS
  <2>2. response'[d] = b /\ index'[d] = i /\ thread'[d] = v
    BY <2>1 DEF Kept
  <2>3. /\ toServer'[d] = << >> /\ toClient'[d] = << >>
        /\ request'[d] = makeRequest(ids'[d], call'[d]) /\ b \in Seq(Nat)
    BY <2>1 DEF Served, Kept
  <2>4. \/ /\ v = "get" /\ op.code = 3 /\ i \in 0 .. op.count /\ Len(b) = 9 + 2 * i
           /\ Shown(op, s, Told(op, b), i)
        \/ v = "set" /\ op.code # 3 /\ i \in 0 .. op.count /\ Shown(op, s, op.values, i)
        \/ v = "write" /\ Len(b) = 3
    BY <1>1, <2>1 DEF Served, HasWords
  <2>5. i \in 0 .. op.count => i \in Nat /\ i <= op.count
    BY <1>3
  <2>6. \/ /\ v = "get" /\ op.code = 3 /\ i \in 0 .. op.count /\ Len(b) = 9 + 2 * i
           /\ Shown(op, t, Told(op, b), i)
        \/ v = "set" /\ op.code # 3 /\ i \in 0 .. op.count /\ Shown(op, t, op.values, i)
        \/ v = "write" /\ Len(b) = 3
    BY <1>4, <2>4, <2>5
  <2> QED BY <1>1, <1>2, <2>2, <2>3, <2>6 DEF Served, HasWords
<1>7. Answered(d) => Answered(d)'
  <2> SUFFICES ASSUME Answered(d) PROVE Answered(d)'
    OBVIOUS
  <2>1. PICK b : b = toClient[d]
    OBVIOUS
  <2>2. /\ toServer'[d] = << >> /\ toClient'[d] = b /\ b \in Seq(Nat) /\ thread'[d] \in Waiting
        /\ Len(b) >= Enough(op) => Shown(op, s, Told(op, b), op.count)
    BY <1>1, <2>1 DEF Answered, Kept
  <2>3. Len(b) >= Enough(op) => Shown(op, t, Told(op, b), op.count)
    BY <1>3, <1>4, <2>2
  <2> QED BY <1>1, <1>2, <2>2, <2>3 DEF Answered
<1>8. PICK x, l, m : x = result[d] /\ l = client[d] /\ m = clean[d]
    OBVIOUS
<1>9. result'[d] = x /\ client'[d] = l /\ clean'[d] = m
    BY <1>8 DEF Kept
<1>10. l = "wait" => \A a \in Address : registers_'[a] \in seen'[d][a]
    BY <1>8 DEF Grown
<1>11. l = "wait" /\ m => Sent(d)' \/ Served(d)' \/ Answered(d)'
    BY <1>5, <1>6, <1>7, <1>8 DEF CallInv
<1>12. l = "idle" /\ m /\ x.ok =>
          Shown(op, t, IF op.code = 3 THEN x.words ELSE op.values, op.count)
  <2>1. l = "idle" /\ m /\ x.ok =>
           Shown(op, s, IF op.code = 3 THEN x.words ELSE op.values, op.count)
    BY <1>1, <1>8 DEF CallInv
  <2>2. op.count <= op.count
    BY <1>3
  <2> QED BY <1>3, <1>4, <2>1, <2>2
<1>13. thread'[d] \notin {"get", "set"} => index'[d] = 0
    BY DEF CallInv, Kept
<1> QED BY <1>1, <1>2, <1>9, <1>10, <1>11, <1>12, <1>13 DEF CallInv

LEMMA OneCall ==
    ASSUME AnswerInv, AnswerTypes', NEW c \in Client, CallInv(c)',
           \A d \in Client \ {c} : Kept(d) /\ Grown(d)
    PROVE  AnswerInv'
<1>1. ASSUME NEW d \in Client PROVE CallInv(d)'
  <2>1. CASE d = c
    BY <2>1
  <2>2. CASE d # c
    BY <2>2, KeptCall DEF AnswerInv
  <2> QED BY <2>1, <2>2
<1> QED BY <1>1 DEF AnswerInv

LEMMA SameSeen ==
    ASSUME NEW d \in Client, CallInv(d), registers_' = registers_, seen'[d] = seen[d]
    PROVE  Grown(d)
BY DEF CallInv, Grown

LEMMA Stores ==
    ASSUME AnswerTypes, NEW new \in [Address -> Word], Store(new)
    PROVE  /\ registers_' \in [Address -> Word]
           /\ seen' \in [Client -> [Address -> SUBSET Word]]
           /\ \A d \in Client : Grown(d)
           /\ \A d \in Client : client[d] = "wait" =>
                 \A a \in Address : seen'[d][a] = seen[d][a] \cup {new[a]}
<1>1. /\ registers_' = new
      /\ seen' = [d \in Client |-> [a \in Address |->
                    IF client[d] = "wait" THEN seen[d][a] \cup {new[a]} ELSE seen[d][a]]]
    BY DEF Store
<1>2. seen \in [Client -> [Address -> SUBSET Word]]
    BY DEF AnswerTypes
<1>3. seen' \in [Client -> [Address -> SUBSET Word]]
    BY <1>1, <1>2
<1>4. ASSUME NEW d \in Client
      PROVE  \A a \in Address : seen'[d][a] =
                IF client[d] = "wait" THEN seen[d][a] \cup {new[a]} ELSE seen[d][a]
    BY <1>1
<1>5. \A d \in Client : Grown(d)
    BY <1>1, <1>4 DEF Grown
<1> QED BY <1>1, <1>3, <1>4, <1>5

LEMMA OthersKept ==
    ASSUME AnswerTypes, NEW c \in Client, NEW d \in Client, d # c,
           \/ Thread(c) \/ Hangup(c) \/ ReceiveFails(c)
           \/ \E op \in Op[c] : Send(c, op) \/ \E n \in Cut : SendCut(c, op, n)
           \/ \E n \in Cut \cup {Len(toClient[c])} : Receive(c, n)
    PROVE  Kept(d)
<1> USE DEF AnswerTypes, Kept, clientVars, threadVars
<1>1. CASE LoopTest(c)
    BY <1>1 DEF LoopTest
<1>2. CASE ReadRequest(c)
  <2>1. PICK r, m : processRequest(c, r, m)
    BY <1>2 DEF ReadRequest
  <2>2. thread'[d] = thread[d] /\ response'[d] = response[d]
    BY <2>1 DEF processRequest, Enter
  <2> QED BY <1>2, <2>2 DEF ReadRequest
<1>3. CASE ReadFails(c)
    BY <1>3 DEF ReadFails
<1>4. CASE GetRegister(c)
    BY <1>4 DEF GetRegister
<1>5. CASE SetRegister(c)
    BY <1>5 DEF SetRegister
<1>6. CASE Respond(c)
    BY <1>6 DEF Respond
<1>7. CASE Hangup(c)
    BY <1>7 DEF Hangup
<1>8. CASE ReceiveFails(c)
    BY <1>8 DEF ReceiveFails
<1>9. ASSUME NEW op \in Op[c], Send(c, op) PROVE Kept(d)
    BY <1>9 DEF Send
<1>10. ASSUME NEW op \in Op[c], NEW n \in Cut, SendCut(c, op, n) PROVE Kept(d)
    BY <1>10 DEF SendCut
<1>11. ASSUME NEW n \in Cut \cup {Len(toClient[c])}, Receive(c, n) PROVE Kept(d)
    BY <1>11 DEF Receive
<1> QED BY <1>1, <1>2, <1>3, <1>4, <1>5, <1>6, <1>7, <1>8, <1>9, <1>10, <1>11 DEF Thread

\* A call begins.
LEMMA SendCall ==
    ASSUME AnswerInv, NEW c \in Client, NEW op \in Op[c], Send(c, op)
    PROVE  AnswerInv'
<1>1. AnswerTypes /\ CallInv(c) /\ IsCall(op)
    BY OpFacts DEF AnswerInv
<1>2. PICK id, r : id = ids[c] + 1 /\ r = makeRequest(id, op)
    OBVIOUS
<1>3. id \in Nat /\ ids' = [ids EXCEPT ![c] = id] /\ ids' \in [Client -> Nat] /\ ids'[c] = id
    BY <1>1, <1>2 DEF Send, AnswerTypes
<1>4. r \in Seq(Byte)
    BY <1>1, <1>2, <1>3, RequestBytes
<1>5. toServer' = [toServer EXCEPT ![c] = toServer[c] \o r] /\ toServer \in [Client -> Seq(Byte)]
    BY <1>1, <1>2, <1>3 DEF Send, AnswerTypes
<1>6. toServer' \in [Client -> Seq(Byte)]
  <2>1. toServer[c] \o r \in Seq(Byte)
    <3>1. toServer[c] \in Seq(Byte)
      BY <1>5
    <3> QED BY <1>4, <3>1
  <2> QED BY <1>5, <2>1
<1>7. /\ client' = [client EXCEPT ![c] = "wait"] /\ call' = [call EXCEPT ![c] = op]
      /\ result' = [result EXCEPT ![c] = Failed] /\ clean' = [clean EXCEPT ![c] = Settled(c)]
      /\ seen' = [seen EXCEPT ![c] = [a \in Address |-> {registers_[a]}]]
      /\ UNCHANGED <<registers_, toClient, thread, request, response, index>>
    BY DEF Send, threadVars
<1>8. [a \in Address |-> {registers_[a]}] \in [Address -> SUBSET Word]
    BY <1>1 DEF AnswerTypes
<1>9. Settled(c) \in BOOLEAN
    BY DEF Settled
<1>10. AnswerTypes'
  <2>1. client' \in [Client -> {"idle", "wait", "dead", "cut"}]
    BY <1>1, <1>7 DEF AnswerTypes
  <2>2. DOMAIN call' = Client /\ \A d \in Client : call'[d] \in Op[d]
    BY <1>1, <1>7 DEF AnswerTypes
  <2>3. clean' \in [Client -> BOOLEAN]
    BY <1>1, <1>7, <1>9 DEF AnswerTypes
  <2>4. seen' \in [Client -> [Address -> SUBSET Word]]
    BY <1>1, <1>7, <1>8 DEF AnswerTypes
  <2>5. DOMAIN result' = Client
    BY <1>1, <1>7 DEF AnswerTypes
  <2> QED BY <1>1, <1>3, <1>6, <1>7, <2>1, <2>2, <2>3, <2>4, <2>5 DEF AnswerTypes
<1>11. /\ client'[c] = "wait" /\ call'[c] = op /\ clean'[c] = Settled(c)
       /\ seen'[c] = [a \in Address |-> {registers_[a]}]
    BY <1>1, <1>7 DEF AnswerTypes
<1>12. CallInv(c)'
  <2>1. thread'[c] \notin {"get", "set"} => index'[c] = 0
    BY <1>1, <1>7 DEF CallInv
  <2>2. \A a \in Address : registers_'[a] \in seen'[c][a]
    BY <1>7, <1>11
  <2>3. clean'[c] => Sent(c)'
    <3> SUFFICES ASSUME Settled(c) PROVE Sent(c)'
      BY <1>11
    <3>1. toServer[c] = << >> /\ toClient[c] = << >> /\ thread[c] \in Waiting
      BY DEF Settled, Waiting
    <3>2. << >> \o r = r
      BY <1>4
    <3>3. toServer'[c] = r
      BY <1>5, <3>1, <3>2
    <3> QED BY <1>2, <1>3, <1>7, <1>11, <3>1, <3>3 DEF Sent
  <2> QED BY <1>11, <2>1, <2>2, <2>3 DEF CallInv
<1>13. ASSUME NEW d \in Client \ {c} PROVE Kept(d) /\ Grown(d)
  <2>1. Kept(d)
    BY <1>1, OthersKept
  <2>2. seen'[d] = seen[d] /\ CallInv(d)
    BY <1>7 DEF AnswerInv, AnswerTypes
  <2> QED BY <1>7, <2>1, <2>2, SameSeen
<1> QED BY <1>10, <1>12, <1>13, OneCall

\* A call that fails, or a client that goes.
LEMMA FailedCall ==
    ASSUME AnswerInv, NEW c \in Client,
           \/ Hangup(c) \/ ReceiveFails(c)
           \/ \E op \in Op[c], n \in Cut : SendCut(c, op, n)
    PROVE  AnswerInv'
<1>1. AnswerTypes /\ CallInv(c)
    BY DEF AnswerInv
<1>2. /\ UNCHANGED <<registers_, seen, call, ids, clean, toClient, thread, request,
                     response, index>>
      /\ \E x \in {"idle", "dead", "cut"} : client' = [client EXCEPT ![c] = x]
      /\ result' = [result EXCEPT ![c] = Failed]
    BY DEF Hangup, ReceiveFails, SendCut, threadVars, regVars
<1>3. toServer' \in [Client -> Seq(Byte)]
  <2>1. CASE toServer' = toServer
    BY <1>1, <2>1 DEF AnswerTypes
  <2>2. ASSUME NEW op \in Op[c], NEW n \in Cut, SendCut(c, op, n)
        PROVE  toServer' \in [Client -> Seq(Byte)]
    <3>1. PICK r : r = makeRequest(ids[c] + 1, op)
      OBVIOUS
    <3>2. r \in Seq(Byte)
      <4>1. IsCall(op) /\ ids[c] + 1 \in Nat
        BY <1>1, OpFacts DEF AnswerTypes
      <4> QED BY <3>1, <4>1, RequestBytes
    <3>3. n < Len(r) /\ toServer' = [toServer EXCEPT ![c] = toServer[c] \o SubSeq(r, 1, n)]
      BY <2>2, <3>1 DEF SendCut
    <3>4. n \in Nat
      BY ConstantAssumption
    <3>5. SubSeq(r, 1, n) \in Seq(Byte)
      BY <3>2, <3>3, <3>4
    <3>6. toServer[c] \in Seq(Byte)
      BY <1>1 DEF AnswerTypes
    <3>7. toServer[c] \o SubSeq(r, 1, n) \in Seq(Byte)
      BY <3>5, <3>6
    <3> QED BY <1>1, <3>3, <3>7 DEF AnswerTypes
  <2> QED BY <2>1, <2>2 DEF Hangup, ReceiveFails
<1>4. AnswerTypes'
    BY <1>1, <1>2, <1>3 DEF AnswerTypes
<1>5. client'[c] # "wait" /\ result'[c] = Failed
    BY <1>1, <1>2 DEF AnswerTypes
<1>6. ~Failed.ok
    BY DEF Failed
<1>7. CallInv(c)'
    BY <1>1, <1>2, <1>5, <1>6 DEF CallInv
<1>8. ASSUME NEW d \in Client \ {c} PROVE Kept(d) /\ Grown(d)
  <2>1. Kept(d)
    BY <1>1, OthersKept
  <2>2. CallInv(d)
    BY DEF AnswerInv
  <2> QED BY <1>2, <2>1, <2>2, SameSeen
<1> QED BY <1>4, <1>7, <1>8, OneCall

\* A response that parse accepts is as long as it has to be, and its words
\* are those of the answer that it is the first part of.
LEMMA ParseTells ==
    ASSUME NEW op, IsCall(op), NEW b \in Seq(Nat), NEW n \in 1 .. Len(b),
           NEW x, x = parse(op, SubSeq(b, 1, n)), x.ok
    PROVE  Len(b) >= Enough(op) /\ (op.code = 3 => x.words = Told(op, b))
<1>1. PICK p, m : p = SubSeq(b, 1, n) /\ m = op.count
    OBVIOUS
<1>2. p \in Seq(Nat) /\ Len(p) = n /\ \A i \in 1 .. n : p[i] = b[i]
  <2>1. n \in Nat /\ 1 \in 1 .. Len(b) + 1 /\ n \in 1 - 1 .. Len(b) /\ n - 1 + 1 = n
    OBVIOUS
  <2>2. /\ SubSeq(b, 1, n) \in Seq(Nat) /\ Len(SubSeq(b, 1, n)) = n - 1 + 1
        /\ \A i \in 1 .. n - 1 + 1 : SubSeq(b, 1, n)[i] = b[1 + i - 1]
    BY <2>1, PartFacts
  <2>3. \A i \in 1 .. n : 1 + i - 1 = i
    OBVIOUS
  <2> QED BY <1>1, <2>1, <2>2, <2>3
<1>3. m \in Nat /\ op.code \in {3, 6, 16}
  <2>1. m \in Word /\ op.code \in {3, 6, 16}
    BY <1>1 DEF IsCall
  <2> QED BY <2>1, WordNat
<1>4. ~Failed.ok
    BY DEF Failed
<1>5. CASE op.code = 3
  <2>1. CASE Len(p) >= 9 + 2 * m /\ p[9] = 2 * m
    <3>1. PICK s : s = SubSeq(p, 10, 9 + 2 * m)
      OBVIOUS
    <3>2. x = Good(Words(s))
      BY <1>1, <1>5, <2>1, <3>1 DEF parse
    <3>3. /\ s \in Seq(Nat) /\ Len(s) = 2 * m
          /\ \A j \in 1 .. 2 * m : s[j] = p[9 + j]
      <4>1. PICK e : e = 9 + 2 * m
        OBVIOUS
      <4>2. s \in Seq(Nat) /\ Len(s) = e - 10 + 1 /\ \A j \in 1 .. e - 10 + 1 : s[j] = p[10 + j - 1]
        <5>1. p \in Seq(Nat) /\ 10 \in 1 .. Len(p) + 1 /\ e \in 10 - 1 .. Len(p)
          BY <1>2, <1>3, <2>1, <4>1
        <5>2. s = SubSeq(p, 10, e)
          BY <3>1, <4>1
        <5> QED BY <5>1, <5>2, PartFacts
      <4>3. e - 10 + 1 = 2 * m /\ \A j \in 1 .. 2 * m : 10 + j - 1 = 9 + j
        BY <1>3, <4>1
      <4> QED BY <4>2, <4>3
    <3>4. Len(s) \div 2 = m
      BY <1>3, <3>3
    <3>5. ASSUME NEW i \in 1 .. m
          PROVE  s[2 * i - 1] = b[8 + 2 * i] /\ s[2 * i] = b[9 + 2 * i]
      <4>1. /\ 2 * i - 1 \in 1 .. 2 * m /\ 2 * i \in 1 .. 2 * m
            /\ 9 + (2 * i - 1) = 8 + 2 * i
            /\ 8 + 2 * i \in 1 .. n /\ 9 + 2 * i \in 1 .. n
        BY <1>2, <1>3, <2>1
      <4>2. s[2 * i - 1] = p[9 + (2 * i - 1)] /\ s[2 * i] = p[9 + 2 * i]
        BY <3>3, <4>1
      <4> QED BY <1>2, <4>1, <4>2
    <3>6. Words(s) = [i \in 1 .. m |-> 256 * b[8 + 2 * i] + b[9 + 2 * i]]
      BY <3>4, <3>5 DEF Words
    <3>7. x.words = Told(op, b)
      <4>1. x.words = Words(s)
        BY <3>2 DEF Good
      <4>2. Told(op, b) = [i \in 1 .. m |-> 256 * b[8 + 2 * i] + b[9 + 2 * i]]
        BY <1>1, <1>5 DEF Told
      <4> QED BY <3>6, <4>1, <4>2
    <3> QED BY <1>1, <1>2, <1>3, <1>5, <2>1, <3>7 DEF Enough
  <2>2. CASE ~(Len(p) >= 9 + 2 * m /\ p[9] = 2 * m)
    <3>1. x = Failed
      BY <1>1, <1>5, <2>2 DEF parse
    <3> QED BY <1>4, <3>1
  <2> QED BY <2>1, <2>2
<1>6. CASE op.code # 3
  <2>1. CASE Len(p) >= 12
    BY <1>2, <1>6, <2>1 DEF Enough
  <2>2. CASE ~(Len(p) >= 12)
    <3>1. x = Failed
      BY <1>1, <1>6, <2>2 DEF parse
    <3> QED BY <1>4, <3>1
  <2> QED BY <2>1, <2>2
<1> QED BY <1>5, <1>6

\* A call gets its answer, or a part of it.
LEMMA ReceiveCall ==
    ASSUME AnswerInv, NEW c \in Client, NEW n \in Cut \cup {Len(toClient[c])}, Receive(c, n)
    PROVE  AnswerInv'
<1>1. AnswerTypes /\ CallInv(c)
    BY DEF AnswerInv
<1>2. PICK op, b, x : op = call[c] /\ b = toClient[c] /\ x = parse(op, SubSeq(b, 1, n))
    OBVIOUS
<1>3. /\ client[c] = "wait" /\ n \in 1 .. Len(b)
      /\ result' = [result EXCEPT ![c] = x]
      /\ client' = [client EXCEPT ![c] = "idle"]
      /\ \E t : toClient' = [toClient EXCEPT ![c] = t]
      /\ UNCHANGED <<registers_, seen, call, ids, clean, toServer, thread, request,
                     response, index>>
    BY <1>2 DEF Receive, threadVars, regVars
<1>4. AnswerTypes'
    BY <1>1, <1>3 DEF AnswerTypes
<1>5. /\ client'[c] = "idle" /\ result'[c] = x /\ call'[c] = op
      /\ clean'[c] = clean[c] /\ seen'[c] = seen[c]
    BY <1>1, <1>2, <1>3 DEF AnswerTypes
<1>6. ASSUME clean[c], x.ok
      PROVE  Shown(op, seen[c], IF op.code = 3 THEN x.words ELSE op.values, op.count)
  <2>1. Answered(c)
    <3>1. b # << >>
      BY <1>3
    <3>2. Sent(c) \/ Served(c) \/ Answered(c)
      BY <1>1, <1>3, <1>6 DEF CallInv
    <3> QED BY <1>2, <3>1, <3>2 DEF Sent, Served
  <2>2. b \in Seq(Nat) /\ (Len(b) >= Enough(op) => Shown(op, seen[c], Told(op, b), op.count))
    BY <1>2, <2>1 DEF Answered
  <2>3. IsCall(op)
    BY <1>1, <1>2, CallFacts
  <2>4. Len(b) >= Enough(op) /\ (op.code = 3 => x.words = Told(op, b))
    BY <1>2, <1>3, <1>6, <2>2, <2>3, ParseTells
  <2>5. op.code # 3 => Told(op, b) = op.values
    BY DEF Told
  <2> QED BY <2>2, <2>4, <2>5
<1>7. CallInv(c)'
    BY <1>1, <1>3, <1>5, <1>6 DEF CallInv
<1>8. ASSUME NEW d \in Client \ {c} PROVE Kept(d) /\ Grown(d)
  <2>1. Kept(d)
    BY <1>1, OthersKept
  <2>2. CallInv(d)
    BY DEF AnswerInv
  <2> QED BY <1>3, <2>1, <2>2, SameSeen
<1> QED BY <1>4, <1>7, <1>8, OneCall

LEMMA LoopCall ==
    ASSUME AnswerInv, NEW c \in Client, LoopTest(c) \/ ReadFails(c)
    PROVE  AnswerInv'
<1>1. AnswerTypes /\ CallInv(c)
    BY DEF AnswerInv
<1>2. /\ thread[c] \in {"test", "read"}
      /\ \E x \in {"read", "ended"} : thread' = [thread EXCEPT ![c] = x]
      /\ UNCHANGED <<registers_, seen, client, call, result, ids, clean, toServer, toClient,
                     request, response, index>>
    BY DEF LoopTest, ReadFails, clientVars, regVars
<1>3. AnswerTypes'
    BY <1>1, <1>2 DEF AnswerTypes
<1>4. /\ thread'[c] \in Waiting /\ thread'[c] \notin {"get", "set"}
      /\ thread[c] \notin {"get", "set", "write"}
    BY <1>1, <1>2 DEF AnswerTypes, Waiting
<1>5. Sent(c) => Sent(c)'
    BY <1>2, <1>4 DEF Sent
<1>6. ~Served(c)
    BY <1>4 DEF Served
<1>7. Answered(c) => Answered(c)'
    BY <1>2, <1>4 DEF Answered
<1>8. CallInv(c)'
    BY <1>1, <1>2, <1>4, <1>5, <1>6, <1>7 DEF CallInv
<1>9. ASSUME NEW d \in Client \ {c} PROVE Kept(d) /\ Grown(d)
  <2>1. Kept(d)
    BY <1>1, OthersKept DEF Thread
  <2>2. CallInv(d)
    BY DEF AnswerInv
  <2> QED BY <1>2, <2>1, <2>2, SameSeen
<1> QED BY <1>3, <1>8, <1>9, OneCall

LEMMA WordBytes ==
    ASSUME NEW v \in Word
    PROVE  /\ Bytes(<<v>>) \in Seq(Nat) /\ Len(Bytes(<<v>>)) = 2
           /\ 256 * Bytes(<<v>>)[1] + Bytes(<<v>>)[2] = v
<1>1. PICK w : w = <<v>>
    OBVIOUS
<1>2. w \in Seq(Nat) /\ Len(w) = 1 /\ w[1] = v
    BY <1>1, WordNat
<1>3. PICK b : b = Bytes(w)
    OBVIOUS
<1>4. /\ b \in Seq(Nat) /\ Len(b) = 2 * 1
      /\ \A k \in 1 .. 1 : b[2 * k - 1] = (w[k] \div 256) % 256 /\ b[2 * k] = w[k] % 256
  <2>1. /\ Bytes(w) \in Seq(Nat) /\ Len(Bytes(w)) = 2 * Len(w)
        /\ \A k \in 1 .. Len(w) : /\ Bytes(w)[2 * k - 1] = (w[k] \div 256) % 256
                                  /\ Bytes(w)[2 * k] = w[k] % 256
    BY <1>2, BytesFact, Zenon
  <2> QED BY <1>2, <1>3, <2>1
<1>5. b[2 * 1 - 1] = (v \div 256) % 256 /\ b[2 * 1] = v % 256
    BY <1>2, <1>4
<1>6. 2 * 1 - 1 = 1 /\ 2 * 1 = 2
    OBVIOUS
<1>7. v = 256 * ((v \div 256) % 256) + (v % 256)
    BY RoundTrip
<1>8. 256 * b[1] + b[2] = v
    BY <1>5, <1>6, <1>7
<1> QED BY <1>1, <1>3, <1>4, <1>6, <1>8

\* An answer with one more word.
LEMMA OneMore ==
    ASSUME NEW op, IsCall(op), NEW b, NEW i, NEW had, HasWords(op, b, i, had), i # op.count,
           NEW v \in Word, v \in had[op.address + i]
    PROVE  HasWords(op, b \o Bytes(<<v>>), i + 1, had)
<1>1. PICK m, a, u : m = op.count /\ a = op.address /\ u = Bytes(<<v>>)
    OBVIOUS
<1>2. /\ m \in Nat /\ a \in Nat /\ i \in Nat /\ i < m /\ i + 1 \in 0 .. m
      /\ op.code = 3 /\ b \in Seq(Nat) /\ Len(b) = 9 + 2 * i
  <2>1. m \in Word /\ a \in Word
    BY <1>1 DEF IsCall
  <2>2. m \in Nat /\ a \in Nat /\ i \in 0 .. m /\ i # m
    BY <1>1, <2>1, WordNat DEF HasWords
  <2>3. i \in Nat /\ i < m /\ i + 1 \in 0 .. m
    BY <2>2
  <2> QED BY <2>2, <2>3 DEF HasWords
<1>3. u \in Seq(Nat) /\ Len(u) = 2 /\ 256 * u[1] + u[2] = v
    BY <1>1, WordBytes
<1>e. PICK e : e = b \o Bytes(<<v>>)
    OBVIOUS
<1>4. /\ e \in Seq(Nat) /\ Len(e) = 9 + 2 * (i + 1)
      /\ \A k \in 1 .. 9 + 2 * i : e[k] = b[k]
      /\ e[(9 + 2 * i) + 1] = u[1] /\ e[(9 + 2 * i) + 2] = u[2]
  <2>1. /\ b \o u \in Seq(Nat) /\ Len(b \o u) = Len(b) + Len(u)
        /\ \A k \in 1 .. Len(b) : (b \o u)[k] = b[k]
        /\ \A k \in 1 .. Len(u) : (b \o u)[Len(b) + k] = u[k]
    <3>1. b \in Seq(Nat) /\ u \in Seq(Nat)
      BY <1>2, <1>3
    <3> QED BY <3>1
  <2>2. Len(b) = 9 + 2 * i /\ Len(u) = 2 /\ e = b \o u
    BY <1>1, <1>2, <1>3, <1>e
  <2>3. 1 \in 1 .. 2 /\ 2 \in 1 .. 2 /\ (9 + 2 * i) + 2 = 9 + 2 * (i + 1)
    BY <1>2
  <2> QED BY <2>1, <2>2, <2>3
<1>5. /\ a + m <= Size
      /\ \A k \in 1 .. i : Told(op, b)[k] \in had[a + k - 1]
    BY <1>1 DEF HasWords, Shown
<1>6. ASSUME NEW k \in 1 .. i + 1 PROVE Told(op, e)[k] \in had[a + k - 1]
  <2>1. Told(op, e)[k] = 256 * e[8 + 2 * k] + e[9 + 2 * k]
    <3>1. k \in 1 .. m
      BY <1>2
    <3> QED BY <1>1, <1>2, <3>1 DEF Told
  <2>2. CASE k \in 1 .. i
    <3>1. Told(op, b)[k] = 256 * b[8 + 2 * k] + b[9 + 2 * k]
      <4>1. k \in 1 .. m
        BY <1>2
      <4> QED BY <1>1, <1>2, <4>1 DEF Told
    <3>2. 8 + 2 * k \in 1 .. 9 + 2 * i /\ 9 + 2 * k \in 1 .. 9 + 2 * i
      BY <1>2, <2>2
    <3>3. e[8 + 2 * k] = b[8 + 2 * k] /\ e[9 + 2 * k] = b[9 + 2 * k]
      BY <1>4, <3>2
    <3>4. Told(op, b)[k] \in had[a + k - 1]
      BY <1>5, <2>2
    <3>5. Told(op, e)[k] = Told(op, b)[k]
      BY <2>1, <3>1, <3>3
    <3> QED BY <3>4, <3>5
  <2>3. CASE k = i + 1
    <3>1. 8 + 2 * k = (9 + 2 * i) + 1 /\ 9 + 2 * k = (9 + 2 * i) + 2 /\ a + k - 1 = a + i
      BY <1>2, <2>3
    <3>2. e[8 + 2 * k] = u[1] /\ e[9 + 2 * k] = u[2]
      BY <1>4, <3>1
    <3>3. Told(op, e)[k] = v
      BY <1>3, <2>1, <3>2
    <3> QED BY <1>1, <3>1, <3>3
  <2> QED BY <1>2, <2>2, <2>3
<1> QED BY <1>1, <1>2, <1>e, <1>4, <1>5, <1>6 DEF HasWords, Shown

\* A register is read into the answer.
LEMMA GetCall ==
    ASSUME AnswerInv, NEW c \in Client, GetRegister(c)
    PROVE  AnswerInv'
<1>1. AnswerTypes /\ CallInv(c)
    BY DEF AnswerInv
<1>2. PICK r, i, b, v : /\ r = request[c] /\ i = index[c] /\ b = response[c]
                        /\ v = registers_[startAddress(r) + i]
    OBVIOUS
<1>3. /\ thread[c] = "get" /\ i < quantity(r) /\ i \in Nat
      /\ response' = [response EXCEPT ![c] = b \o Bytes(<<v>>)]
      /\ index' = [index EXCEPT ![c] = i + 1]
      /\ UNCHANGED <<registers_, seen, client, call, result, ids, clean, toServer, toClient,
                     request, thread>>
    BY <1>1, <1>2 DEF GetRegister, clientVars, regVars, AnswerTypes
<1>4. AnswerTypes'
    BY <1>1, <1>3 DEF AnswerTypes
<1>5. response'[c] = b \o Bytes(<<v>>) /\ index'[c] = i + 1
    BY <1>1, <1>3 DEF AnswerTypes
<1>6. ASSUME client[c] = "wait", clean[c] PROVE Served(c)'
  <2>1. PICK op, had : op = call[c] /\ had = seen[c]
    OBVIOUS
  <2>2. Served(c)
    BY <1>1, <1>3, <1>6 DEF CallInv, Sent, Answered, Waiting
  <2>3. /\ toServer[c] = << >> /\ toClient[c] = << >>
        /\ r = makeRequest(ids[c], op) /\ HasWords(op, b, i, had) /\ op.code = 3
    BY <1>2, <1>3, <2>1, <2>2 DEF Served, HasWords
  <2>4. IsCall(op) /\ op.count \in Nat /\ op.address \in Nat /\ ids[c] \in Nat
    BY <1>1, <2>1, CallFacts DEF AnswerTypes
  <2>5. startAddress(r) = op.address /\ quantity(r) = op.count
    BY <2>3, <2>4, RequestFields
  <2>6. op.address + i \in Address
    <3>1. op.address + op.count <= Size
      BY <2>3 DEF HasWords, Shown
    <3> QED BY <1>3, <2>4, <2>5, <3>1, SizeFact DEF Address
  <2>7. v \in Word /\ v \in had[op.address + i]
    <3>1. v = registers_[op.address + i]
      BY <1>2, <2>5
    <3> QED BY <1>1, <1>6, <2>1, <2>6, <3>1 DEF CallInv, AnswerTypes
  <2>8. PICK e : e = b \o Bytes(<<v>>)
    OBVIOUS
  <2>9. HasWords(op, e, i + 1, had)
    <3>1. i # op.count
      BY <1>3, <2>4, <2>5
    <3> QED BY <2>3, <2>4, <2>7, <2>8, <3>1, OneMore
  <2>10. e \in Seq(Nat)
    BY <2>9 DEF HasWords
  <2>11. response'[c] = e /\ index'[c] = i + 1 /\ call'[c] = op /\ seen'[c] = had
    BY <1>3, <1>5, <2>1, <2>8
  <2> QED BY <1>2, <1>3, <2>1, <2>3, <2>9, <2>10, <2>11 DEF Served
<1>7. CallInv(c)'
    BY <1>1, <1>3, <1>6 DEF CallInv
<1>8. ASSUME NEW d \in Client \ {c} PROVE Kept(d) /\ Grown(d)
  <2>1. Kept(d)
    BY <1>1, OthersKept DEF Thread
  <2>2. CallInv(d)
    BY DEF AnswerInv
  <2> QED BY <1>3, <2>1, <2>2, SameSeen
<1> QED BY <1>4, <1>7, <1>8, OneCall

LEMMA TwoBytes == ASSUME NEW x \in Byte, NEW y \in Byte PROVE 256 * x + y \in Word
<1>1. x \in Nat /\ x <= 255 /\ y \in Nat /\ y <= 255
    BY DEF Byte
<1>2. 256 * x + y \in Nat /\ 256 * x + y < 65536
    BY <1>1
<1> QED BY <1>2, WordIs

LEMMA WordsAreWords ==
    ASSUME NEW r \in Seq(Byte), NEW i \in Nat
    PROVE  WordsToWrite(r, i) \subseteq Word
<1>1. PICK k : k = IF Single(r) THEN 11 ELSE 14 + 2 * i
    OBVIOUS
<1>2. k \in Nat /\ k >= 1
    BY <1>1
<1>3. CASE k < Len(r)
  <2>1. k \in 1 .. Len(r) - 1 /\ k \in 1 .. Len(r) /\ k + 1 \in 1 .. Len(r)
    BY <1>2, <1>3
  <2>2. r \in Seq(Nat)
    BY ByteNat, SeqSub
  <2>3. WordAt(r, k) = 256 * r[k] + r[k + 1]
    BY <2>1, <2>2, WordFact, Zenon
  <2>4. r[k] \in Byte /\ r[k + 1] \in Byte
    BY <2>1
  <2>5. WordAt(r, k) \in Word
    BY <2>3, <2>4, TwoBytes
  <2> QED BY <1>1, <1>3, <2>5 DEF WordsToWrite
<1>4. CASE ~(k < Len(r))
    BY <1>1, <1>4 DEF WordsToWrite
<1> QED BY <1>3, <1>4

\* A register is written.
LEMMA SetCall ==
    ASSUME AnswerInv, NEW c \in Client, SetRegister(c)
    PROVE  AnswerInv'
<1>1. AnswerTypes /\ CallInv(c)
    BY DEF AnswerInv
<1>2. PICK r, i : r = request[c] /\ i = index[c]
    OBVIOUS
<1>3. PICK w \in WordsToWrite(r, i) : Store([registers_ EXCEPT ![startAddress(r) + i] = w])
    BY <1>2 DEF SetRegister
<1>4. PICK new : new = [registers_ EXCEPT ![startAddress(r) + i] = w]
    OBVIOUS
<1>5. new \in [Address -> Word] /\ Store(new)
  <2>1. r \in Seq(Byte) /\ i \in Nat
    BY <1>1, <1>2 DEF AnswerTypes
  <2>2. w \in Word
    BY <2>1, WordsAreWords
  <2> QED BY <1>1, <1>3, <1>4, <2>2 DEF AnswerTypes
<1>6. /\ registers_' \in [Address -> Word] /\ seen' \in [Client -> [Address -> SUBSET Word]]
      /\ \A d \in Client : Grown(d)
      /\ client[c] = "wait" => \A a \in Address : seen'[c][a] = seen[c][a] \cup {new[a]}
    BY <1>1, <1>5, Stores
<1>7. /\ thread[c] = "set" /\ i \in Nat
      /\ i < (IF Single(r) THEN 1 ELSE quantity(r))
      /\ index' = [index EXCEPT ![c] = i + 1]
      /\ UNCHANGED <<client, call, result, ids, clean, toServer, toClient, thread, request,
                     response>>
    BY <1>1, <1>2 DEF SetRegister, clientVars, AnswerTypes
<1>8. AnswerTypes'
    BY <1>1, <1>6, <1>7 DEF AnswerTypes
<1>9. index'[c] = i + 1
    BY <1>1, <1>7 DEF AnswerTypes
<1>10. PICK op, s, t : op = call[c] /\ s = seen[c] /\ t = seen'[c]
    OBVIOUS
<1>11. /\ IsCall(op) /\ op.count \in Nat /\ op.address \in Nat
       /\ \A a \in Address : s[a] \subseteq t[a]
    BY <1>1, <1>6, <1>10, CallFacts DEF Grown
<1>12. ASSUME client[c] = "wait", clean[c] PROVE Served(c)'
  <2>1. Served(c)
    BY <1>1, <1>7, <1>12 DEF CallInv, Sent, Answered, Waiting
  <2>2. /\ toServer[c] = << >> /\ toClient[c] = << >>
        /\ r = makeRequest(ids[c], op) /\ response[c] \in Seq(Nat)
        /\ op.code # 3 /\ i \in 0 .. op.count
        /\ Shown(op, s, op.values, i)
    BY <1>2, <1>7, <1>10, <2>1 DEF Served
  <2>3. op.address + op.count <= Size /\ \A k \in 1 .. i : op.values[k] \in s[op.address + k - 1]
    BY <2>2 DEF Shown
  <2>4. i < op.count
    <3>1. /\ functionCode(r) = op.code
          /\ quantity(r) = IF op.code = 6 THEN op.values[1] ELSE op.count
      <4>1. ids[c] \in Nat
        BY <1>1 DEF AnswerTypes
      <4> QED BY <1>11, <2>2, <4>1, RequestFields
    <3>2. op.code = 6 => op.count = 1
      BY <1>11 DEF IsCall
    <3> QED BY <1>7, <3>1, <3>2 DEF Single
  <2>5. w = op.values[i + 1] /\ startAddress(r) = op.address
    <3>1. ids[c] \in Nat
      BY <1>1 DEF AnswerTypes
    <3>2. WordsToWrite(r, i) = {op.values[i + 1]}
      BY <1>7, <1>11, <2>2, <2>4, <3>1, ItsWord
    <3>3. startAddress(r) = op.address
      BY <1>11, <2>2, <3>1, RequestFields
    <3> QED BY <3>2, <3>3
  <2>6. op.address + i \in Address
    BY <1>7, <1>11, <2>3, <2>4, SizeFact DEF Address
  <2>7. new[op.address + i] = op.values[i + 1]
    BY <1>1, <1>4, <2>5, <2>6 DEF AnswerTypes
  <2>8. op.values[i + 1] \in t[op.address + i]
    BY <1>6, <1>10, <1>12, <2>6, <2>7
  <2>9. Shown(op, t, op.values, i)
    <3>1. i \in Nat /\ i <= op.count
      BY <1>7, <1>11, <2>4
    <3> QED BY <1>11, <2>2, <3>1, ShownLonger
  <2>10. ASSUME NEW k \in 1 .. i + 1 PROVE op.values[k] \in t[op.address + k - 1]
    <3>1. CASE k \in 1 .. i
      BY <2>9, <3>1 DEF Shown
    <3>2. CASE k = i + 1
      <4>1. op.address + k - 1 = op.address + i
        BY <1>7, <1>11, <3>2
      <4> QED BY <2>8, <3>2, <4>1
    <3> QED BY <1>7, <3>1, <3>2
  <2>11. Shown(op, t, op.values, i + 1)
    BY <2>3, <2>10 DEF Shown
  <2>12. i + 1 \in 0 .. op.count
    BY <1>7, <1>11, <2>4
  <2> QED BY <1>2, <1>7, <1>9, <1>10, <2>2, <2>11, <2>12 DEF Served
<1>13. client[c] = "wait" => \A a \in Address : registers_'[a] \in seen'[c][a]
    BY <1>6 DEF Grown
<1>14. ASSUME client[c] = "idle", clean[c], result[c].ok
       PROVE  Shown(op, t, IF op.code = 3 THEN result[c].words ELSE op.values, op.count)
  <2>1. Shown(op, s, IF op.code = 3 THEN result[c].words ELSE op.values, op.count)
    BY <1>1, <1>10, <1>14 DEF CallInv
  <2>2. op.count <= op.count
    BY <1>11
  <2> QED BY <1>11, <2>1, <2>2, ShownLonger
<1>15. CallInv(c)'
    BY <1>7, <1>10, <1>12, <1>13, <1>14 DEF CallInv
<1>16. ASSUME NEW d \in Client \ {c} PROVE Kept(d) /\ Grown(d)
    BY <1>1, <1>6, OthersKept DEF Thread
<1> QED BY <1>8, <1>15, <1>16, OneCall

\* The answer is sent when the loop is done.
LEMMA RespondCall ==
    ASSUME AnswerInv, NEW c \in Client, Respond(c)
    PROVE  AnswerInv'
<1>1. AnswerTypes /\ CallInv(c)
    BY DEF AnswerInv
<1>2. /\ LoopDone(c)
      /\ thread' = [thread EXCEPT ![c] = "test"] /\ index' = [index EXCEPT ![c] = 0]
      /\ toClient' = [toClient EXCEPT ![c] = IF Gone(c) THEN << >> ELSE toClient[c] \o response[c]]
      /\ response' = [response EXCEPT ![c] = << >>]
      /\ UNCHANGED <<registers_, seen, client, call, result, ids, clean, toServer, request>>
    BY DEF Respond, clientVars, regVars
<1>3. AnswerTypes'
    BY <1>1, <1>2 DEF AnswerTypes
<1>4. thread'[c] = "test" /\ index'[c] = 0 /\ thread[c] \in {"get", "set", "write"}
    BY <1>1, <1>2 DEF AnswerTypes, LoopDone
<1>5. ASSUME client[c] = "wait", clean[c] PROVE Answered(c)'
  <2>1. PICK op, had, b, r : op = call[c] /\ had = seen[c] /\ b = response[c] /\ r = request[c]
    OBVIOUS
  <2>2. Served(c)
    BY <1>1, <1>4, <1>5 DEF CallInv, Sent, Answered, Waiting
  <2>3. /\ toServer[c] = << >> /\ toClient[c] = << >> /\ b \in Seq(Nat)
        /\ r = makeRequest(ids[c], op)
        /\ \/ thread[c] = "get" /\ HasWords(op, b, index[c], had)
           \/ thread[c] = "set" /\ op.code # 3 /\ Shown(op, had, op.values, index[c])
           \/ thread[c] = "write" /\ Len(b) = 3
    BY <2>1, <2>2 DEF Served
  <2>4. toClient'[c] = b
    <3>1. ~Gone(c)
      BY <1>5 DEF Gone
    <3>2. << >> \o b = b
      BY <2>3
    <3> QED BY <1>1, <1>2, <2>1, <2>3, <3>1, <3>2 DEF AnswerTypes
  <2>5. IsCall(op) /\ op.count \in Nat /\ op.count >= 1 /\ ids[c] \in Nat
    BY <1>1, <2>1, CallFacts DEF AnswerTypes
  <2>6. /\ functionCode(r) = op.code
        /\ quantity(r) = IF op.code = 6 THEN op.values[1] ELSE op.count
    <3>1. r = makeRequest(ids[c], op)
      BY <2>3
    <3>2. IsCall(op) /\ ids[c] \in Nat
      BY <2>5
    <3> QED BY <3>1, <3>2, RequestFields
  <2>7. Len(b) >= Enough(op) => Shown(op, had, Told(op, b), op.count)
    <3>1. CASE thread[c] = "get" /\ HasWords(op, b, index[c], had)
      <4>1. index[c] = op.count
        BY <1>2, <2>1, <2>6, <3>1 DEF LoopDone, HasWords
      <4> QED BY <3>1, <4>1 DEF HasWords
    <3>2. CASE thread[c] = "set" /\ op.code # 3 /\ Shown(op, had, op.values, index[c])
      <4>1. index[c] = op.count
        <5>1. op.code = 6 => op.count = 1
          BY <2>5 DEF IsCall
        <5> QED BY <1>2, <2>1, <2>6, <3>2, <5>1 DEF LoopDone, Single
      <4> QED BY <3>2, <4>1 DEF Told
    <3>3. CASE thread[c] = "write" /\ Len(b) = 3
      <4>1. ~(3 >= Enough(op))
        BY <2>5 DEF Enough
      <4> QED BY <3>3, <4>1
    <3> QED BY <2>3, <3>1, <3>2, <3>3
  <2>8. thread'[c] \in Waiting
    BY <1>4 DEF Waiting
  <2> QED BY <1>2, <2>1, <2>3, <2>4, <2>7, <2>8 DEF Answered
<1>6. CallInv(c)'
    BY <1>1, <1>2, <1>4, <1>5 DEF CallInv
<1>7. ASSUME NEW d \in Client \ {c} PROVE Kept(d) /\ Grown(d)
  <2>1. Kept(d)
    BY <1>1, OthersKept DEF Thread
  <2>2. CallInv(d)
    BY DEF AnswerInv
  <2> QED BY <1>2, <2>1, <2>2, SameSeen
<1> QED BY <1>3, <1>6, <1>7, OneCall

LEMMA ReadTypes ==
    ASSUME AnswerTypes, NEW c \in Client, ReadRequest(c)
    PROVE  /\ request' \in [Client -> Seq(Byte)] /\ toServer' \in [Client -> Seq(Byte)]
           /\ \E r : Processed(c, r)
<1>1. PICK in : in = toServer[c]
    OBVIOUS
<1>2. PICK l : l = WordAt(in, 5)
    OBVIOUS
<1>3. PICK got : got = IF Len(in) >= 6 + l THEN l ELSE Len(in) - 6
    OBVIOUS
<1>4. PICK old : old = Resize(request[c], l)
    OBVIOUS
<1>5. PICK r : r = SubSeq(in, 1, 6 + got) \o SubSeq(old, got + 1, l)
    OBVIOUS
<1>6. /\ Len(in) >= 6 /\ request' = [request EXCEPT ![c] = r]
      /\ toServer' = [toServer EXCEPT ![c] = SubSeq(in, 7 + got, Len(in))]
      /\ Processed(c, r)
    BY <1>1, <1>2, <1>3, <1>4, <1>5 DEF ReadRequest, Processed
<1>7. in \in Seq(Byte) /\ request[c] \in Seq(Byte)
    BY <1>1 DEF AnswerTypes
<1>8. l \in Nat
  <2>1. in \in Seq(Nat)
    BY <1>7, ByteNat, SeqSub
  <2>2. 5 \in 1 .. Len(in) - 1 /\ 5 \in 1 .. Len(in) /\ 5 + 1 \in 1 .. Len(in)
    BY <1>6, <1>7
  <2>3. WordAt(in, 5) = 256 * in[5] + in[5 + 1]
    BY <2>1, <2>2, WordFact, Zenon
  <2>4. in[5] \in Byte /\ in[5 + 1] \in Byte
    BY <1>7, <2>2
  <2>5. WordAt(in, 5) \in Word
    BY <2>3, <2>4, TwoBytes
  <2> QED BY <1>2, <2>5, WordNat
<1>9. got \in Nat /\ got <= l /\ 6 + got <= Len(in) /\ Len(in) \in Nat
    BY <1>3, <1>6, <1>7, <1>8
<1>10. old \in Seq(Byte) /\ Len(old) = l
  <2>1. 0 \in Byte
    BY DEF Byte
  <2>2. \A i \in 1 .. l : i <= Len(request[c]) => request[c][i] \in Byte
    BY <1>7, <1>8
  <2>3. old \in [1 .. l -> Byte]
    BY <1>4, <2>1, <2>2 DEF Resize
  <2> QED BY <1>8, <2>3, MakeSeq
<1>11. SubSeq(in, 1, 6 + got) \in Seq(Byte)
    BY <1>7, <1>9
<1>12. SubSeq(old, got + 1, l) \in Seq(Byte)
    BY <1>8, <1>9, <1>10
<1>13. r \in Seq(Byte)
    BY <1>5, <1>11, <1>12
<1>14. SubSeq(in, 7 + got, Len(in)) \in Seq(Byte)
    BY <1>7, <1>9
<1> QED BY <1>6, <1>13, <1>14 DEF AnswerTypes

\* Where a thread goes on with op, and with what response.
Ready(op, x, b, had) ==
    /\ b \in Seq(Nat)
    /\ \/ x = "get" /\ HasWords(op, b, 0, had)
       \/ x = "set" /\ op.code # 3 /\ op.address + op.count <= Size
       \/ x = "write" /\ Len(b) = 3

\* processRequest on a request: where it goes on, and with what response.
LEMMA Replies ==
    ASSUME NEW c \in Client, NEW op, IsCall(op), NEW id \in Nat, NEW q, q = makeRequest(id, op),
           Processed(c, q), NEW had
    PROVE  \E x, b :
              /\ thread' = [thread EXCEPT ![c] = x] /\ response' = [response EXCEPT ![c] = b]
              /\ Ready(op, x, b, had)
<1>1. /\ q \in Seq(Nat) /\ Len(q) \in Nat /\ Len(q) >= 12
      /\ functionCode(q) = op.code /\ startAddress(q) = op.address
      /\ quantity(q) = IF op.code = 6 THEN op.values[1] ELSE op.count
    BY RequestFields
<1>2. /\ op.code \in {3, 6, 16} /\ op.count \in Nat /\ op.address \in Nat
      /\ op.code = 6 => op.count = 1
  <2>1. /\ op.code \in {3, 6, 16} /\ op.count \in Word /\ op.address \in Word
        /\ op.code = 6 => op.count = 1
    BY DEF IsCall
  <2> QED BY <2>1, WordNat
<1>3. \A i \in 1 .. 12 : q[i] \in Nat
    BY <1>1
<1>4. PICK m : processRequest(c, q, m)
    BY DEF Processed
<1>5. CASE op.code = 3 /\ op.address + op.count <= Size
  <2>1. PICK n, h, w, u : /\ n = op.count /\ h = SubSeq(q, 1, 4)
                          /\ w = Bytes(<<(3 + 2 * n) % 2^16>>)
                          /\ u = <<q[7], op.code, (2 * n) % 256>>
    OBVIOUS
  <2>2. h \in Seq(Nat) /\ Len(h) = 4
    <3>1. 1 \in 1 .. Len(q) + 1 /\ 4 \in 1 - 1 .. Len(q) /\ 4 - 1 + 1 = 4
      BY <1>1
    <3>2. SubSeq(q, 1, 4) \in Seq(Nat) /\ Len(SubSeq(q, 1, 4)) = 4 - 1 + 1
      BY <1>1, <3>1, PartFacts
    <3> QED BY <2>1, <3>1, <3>2
  <2>3. w \in Seq(Nat) /\ Len(w) = 2
    <3>1. PICK v : v = <<(3 + 2 * n) % 2^16>>
      OBVIOUS
    <3>2. v \in Seq(Nat) /\ Len(v) = 1
      <4>1. \A k \in Nat : (3 + 2 * k) % 65536 \in Nat
        OBVIOUS
      <4>2. (3 + 2 * n) % 2^16 \in Nat
        BY <1>2, <2>1, <4>1, Limit
      <4> QED BY <3>1, <4>2
    <3>3. Bytes(v) \in Seq(Nat) /\ Len(Bytes(v)) = 2 * Len(v)
      BY <3>2, BytesFact
    <3> QED BY <2>1, <3>1, <3>2, <3>3
  <2>4. u \in Seq(Nat) /\ Len(u) = 3
    <3>1. q[7] \in Nat /\ op.code \in Nat
      BY <1>2, <1>3
    <3>2. \A k \in Nat : (2 * k) % 256 \in Nat
      OBVIOUS
    <3>3. (2 * n) % 256 \in Nat
      BY <1>2, <2>1, <3>2
    <3> QED BY <2>1, <3>1, <3>3
  <2>5. PICK b : b = (h \o w) \o u
    OBVIOUS
  <2>6. b \in Seq(Nat) /\ Len(b) = 9 + 2 * 0
    <3>0. h \in Seq(Nat) /\ w \in Seq(Nat) /\ u \in Seq(Nat)
      BY <2>2, <2>3, <2>4
    <3>1. h \o w \in Seq(Nat) /\ Len(h \o w) = Len(h) + Len(w)
      BY <3>0
    <3>2. PICK g : g = h \o w
      OBVIOUS
    <3>3. g \in Seq(Nat) /\ Len(g) = 6
      BY <2>2, <2>3, <3>1, <3>2
    <3>4. g \o u \in Seq(Nat) /\ Len(g \o u) = Len(g) + Len(u)
      <4>1. g \in Seq(Nat) /\ u \in Seq(Nat)
        BY <3>0, <3>3
      <4> QED BY <4>1
    <3> QED BY <2>4, <2>5, <3>2, <3>3, <3>4
  <2>7. thread' = [thread EXCEPT ![c] = "get"] /\ response' = [response EXCEPT ![c] = b]
    <3>1. functionCode(q) = 3 /\ startAddress(q) + quantity(q) <= Size /\ quantity(q) = n
      BY <1>1, <1>5, <2>1
    <3>2. Enter(c, "get", SubSeq(q, 1, 4) \o Bytes(<<(3 + 2 * quantity(q)) % 2^16>>)
                             \o <<q[7], functionCode(q), (2 * quantity(q)) % 256>>)
      BY <1>4, <3>1 DEF processRequest
    <3>3. Enter(c, "get", b)
      BY <1>5, <2>1, <2>5, <3>1, <3>2
    <3> QED BY <3>3 DEF Enter
  <2>8. HasWords(op, b, 0, had)
    <3>1. 0 \in 0 .. op.count /\ \A i \in 1 .. 0 : FALSE
      BY <1>2
    <3>2. Shown(op, had, Told(op, b), 0)
      BY <1>5, <3>1 DEF Shown
    <3> QED BY <1>5, <2>6, <3>1, <3>2 DEF HasWords
  <2>9. Ready(op, "get", b, had)
    BY <2>6, <2>8 DEF Ready
  <2> QED BY <2>7, <2>9
<1>6. CASE op.code = 6 /\ op.address < Size
  <2>1. Enter(c, "set", q)
    BY <1>1, <1>4, <1>6 DEF processRequest
  <2>2. thread' = [thread EXCEPT ![c] = "set"] /\ response' = [response EXCEPT ![c] = q]
    BY <2>1 DEF Enter
  <2>3. op.address + op.count <= Size
    BY <1>2, <1>6, SizeFact
  <2>4. Ready(op, "set", q, had)
    BY <1>1, <1>6, <2>3 DEF Ready
  <2> QED BY <2>2, <2>4
<1>7. CASE op.code = 16 /\ op.address + op.count <= Size /\ m
  <2>1. PICK b : b = SubSeq(q, 1, 6) \o <<q[8], op.code>> \o SubSeq(q, 9, 12)
    OBVIOUS
  <2>2. b \in Seq(Nat)
    <3>1. SubSeq(q, 1, 6) \in Seq(Nat) /\ SubSeq(q, 9, 12) \in Seq(Nat)
      <4>1. /\ 1 \in 1 .. Len(q) + 1 /\ 6 \in 1 - 1 .. Len(q)
            /\ 9 \in 1 .. Len(q) + 1 /\ 12 \in 9 - 1 .. Len(q)
        BY <1>1
      <4>2. q \in Seq(Nat)
        BY <1>1
      <4> QED BY <4>1, <4>2, PartFacts
    <3>2. <<q[8], op.code>> \in Seq(Nat)
      BY <1>2, <1>3
    <3> QED BY <2>1, <3>1, <3>2
  <2>3. functionCode(q) = 16 /\ startAddress(q) + quantity(q) <= Size
    BY <1>1, <1>7
  <2>4. Enter(c, "set", SubSeq(q, 1, 6) \o <<q[8], functionCode(q)>> \o SubSeq(q, 9, 12))
    BY <1>4, <1>7, <2>3 DEF processRequest
  <2>5. Enter(c, "set", b)
    BY <1>1, <2>1, <2>4
  <2>6. thread' = [thread EXCEPT ![c] = "set"] /\ response' = [response EXCEPT ![c] = b]
    BY <2>5 DEF Enter
  <2>7. Ready(op, "set", b, had)
    BY <1>7, <2>2 DEF Ready
  <2> QED BY <2>6, <2>7
<1>8. CASE /\ ~(op.code = 3 /\ op.address + op.count <= Size)
           /\ ~(op.code = 6 /\ op.address < Size)
           /\ ~(op.code = 16 /\ op.address + op.count <= Size /\ m)
  <2>1. Enter(c, "write", Exception(q[7], op.code, 2))
    <3>1. /\ ~(functionCode(q) = 3 /\ startAddress(q) + quantity(q) <= Size)
          /\ ~(functionCode(q) = 6 /\ startAddress(q) < Size)
          /\ ~(functionCode(q) = 16 /\ startAddress(q) + quantity(q) <= Size /\ m)
          /\ functionCode(q) \in {3, 6, 16}
      BY <1>1, <1>2, <1>8
    <3>2. Enter(c, "write", Exception(q[7], functionCode(q), 2))
      BY <1>4, <3>1 DEF processRequest
    <3> QED BY <1>1, <3>2
  <2>2. PICK b : b = Exception(q[7], op.code, 2)
    OBVIOUS
  <2>3. b \in Seq(Nat) /\ Len(b) = 3
    BY <1>2, <1>3, <2>2 DEF Exception
  <2>4. thread' = [thread EXCEPT ![c] = "write"] /\ response' = [response EXCEPT ![c] = b]
    BY <2>1, <2>2 DEF Enter
  <2>5. Ready(op, "write", b, had)
    BY <2>3 DEF Ready
  <2> QED BY <2>4, <2>5
<1> QED BY <1>5, <1>6, <1>7, <1>8

\* The server takes a request.
LEMMA ReadCall ==
    ASSUME AnswerInv, NEW c \in Client, ReadRequest(c)
    PROVE  AnswerInv'
<1>1. AnswerTypes /\ CallInv(c)
    BY DEF AnswerInv
<1>2. /\ request' \in [Client -> Seq(Byte)] /\ toServer' \in [Client -> Seq(Byte)]
      /\ \E r : Processed(c, r)
    BY <1>1, ReadTypes
<1>3. PICK r, m : processRequest(c, r, m)
    BY <1>2 DEF Processed
<1>4. /\ \E x \in {"get", "set", "write"} : thread' = [thread EXCEPT ![c] = x]
      /\ \E b : response' = [response EXCEPT ![c] = b]
  <2>1. \E x \in {"get", "set", "write"} : thread' = [thread EXCEPT ![c] = x]
    BY <1>3, ProcessFacts, Zenon
  <2>2. \E b : response' = [response EXCEPT ![c] = b]
    BY <1>3 DEF processRequest, Enter
  <2> QED BY <2>1, <2>2
<1>5. /\ thread[c] = "read" /\ Len(toServer[c]) >= 6
      /\ UNCHANGED <<registers_, seen, client, call, result, ids, clean, toClient, index>>
    BY DEF ReadRequest, clientVars, regVars
<1>6. AnswerTypes'
    BY <1>1, <1>2, <1>4, <1>5 DEF AnswerTypes
<1>7. index'[c] = 0
    BY <1>1, <1>5 DEF CallInv
<1>8. ASSUME client[c] = "wait", clean[c] PROVE Served(c)'
  <2>1. PICK op, id, q, had : /\ op = call[c] /\ id = ids[c] /\ q = makeRequest(id, op)
                              /\ had = seen[c]
    OBVIOUS
  <2>2. IsCall(op) /\ id \in Nat /\ op.count \in Nat
    BY <1>1, <2>1, CallFacts DEF AnswerTypes
  <2>3. Sent(c)
    <3>1. toServer[c] # << >>
      BY <1>5
    <3> QED BY <1>1, <1>5, <1>8, <3>1 DEF CallInv, Served, Answered
  <2>4. toServer[c] = q /\ toClient[c] = << >>
    BY <2>1, <2>3 DEF Sent
  <2>5. /\ q \in Seq(Nat) /\ Len(q) \in Nat /\ Len(q) >= 12
        /\ Len(q) = 6 + (256 * q[5] + q[6])
    BY <2>1, <2>2, RequestFields
  <2>6. Begins(q, q)
    BY <2>5 DEF Begins
  <2>7. Takes(c, q, q)
    <3>1. request[c] \in Seq(Nat)
      <4>1. request[c] \in Seq(Byte)
        BY <1>1 DEF AnswerTypes
      <4> QED BY <4>1, ByteNat, SeqSub
    <3> QED BY <2>4, <2>6, <3>1, ReadsRequest
  <2>8. /\ request' = [request EXCEPT ![c] = q]
        /\ toServer' = [toServer EXCEPT ![c] = SubSeq(q, Len(q) + 1, Len(q))]
        /\ Processed(c, q)
    BY <2>7 DEF Takes
  <2>9. request'[c] = q /\ toServer'[c] = SubSeq(q, Len(q) + 1, Len(q))
    BY <1>1, <2>8 DEF AnswerTypes
  <2>10. SubSeq(q, Len(q) + 1, Len(q)) = << >>
    <3>1. /\ SubSeq(q, Len(q) + 1, Len(q)) \in Seq(Nat)
          /\ Len(SubSeq(q, Len(q) + 1, Len(q))) = Len(q) - (Len(q) + 1) + 1
      <4>1. Len(q) + 1 \in 1 .. Len(q) + 1 /\ Len(q) \in (Len(q) + 1) - 1 .. Len(q)
        BY <2>5
      <4> QED BY <2>5, <4>1, PartFacts
    <3>2. Len(q) - (Len(q) + 1) + 1 = 0
      BY <2>5
    <3> QED BY <3>1, <3>2
  <2>11. PICK x, b : /\ thread' = [thread EXCEPT ![c] = x]
                     /\ response' = [response EXCEPT ![c] = b]
                     /\ Ready(op, x, b, had)
    BY <2>1, <2>2, <2>8, Replies
  <2>12. thread'[c] = x /\ response'[c] = b
    BY <1>1, <2>11 DEF AnswerTypes
  <2>13. /\ b \in Seq(Nat)
         /\ \/ x = "get" /\ HasWords(op, b, 0, had)
            \/ x = "set" /\ op.code # 3 /\ op.address + op.count <= Size
            \/ x = "write" /\ Len(b) = 3
    BY <2>11 DEF Ready
  <2>14. op.address + op.count <= Size => Shown(op, had, op.values, 0)
    <3>1. \A i \in 1 .. 0 : FALSE
      OBVIOUS
    <3> QED BY <3>1 DEF Shown
  <2>15. 0 \in 0 .. op.count
    BY <2>2
  <2>16. /\ toServer'[c] = << >> /\ toClient'[c] = << >> /\ call'[c] = op /\ seen'[c] = had
         /\ request'[c] = makeRequest(ids'[c], call'[c])
    BY <1>5, <2>1, <2>4, <2>9, <2>10
  <2> QED BY <1>7, <2>12, <2>13, <2>14, <2>15, <2>16 DEF Served
<1>9. CallInv(c)'
    BY <1>1, <1>5, <1>7, <1>8 DEF CallInv
<1>10. ASSUME NEW d \in Client \ {c} PROVE Kept(d) /\ Grown(d)
  <2>1. Kept(d)
    BY <1>1, OthersKept DEF Thread
  <2>2. CallInv(d)
    BY DEF AnswerInv
  <2> QED BY <1>5, <2>1, <2>2, SameSeen
<1> QED BY <1>6, <1>9, <1>10, OneCall

\* The application writes two registers, or stops the server.
LEMMA ApplicationCall ==
    ASSUME AnswerInv, Stop \/ (\E v \in Value32 : SetUint32(v)) \/ UNCHANGED vars
    PROVE  AnswerInv'
<1>1. AnswerTypes /\ \A d \in Client : CallInv(d)
    BY DEF AnswerInv
<1>2. UNCHANGED <<client, call, result, ids, clean, toServer, toClient, thread, request,
                  response, index>>
    BY DEF Stop, SetUint32, vars, clientVars, threadVars
<1>3. \A d \in Client : Kept(d)
    BY <1>2 DEF Kept
<1>4. /\ registers_' \in [Address -> Word] /\ seen' \in [Client -> [Address -> SUBSET Word]]
      /\ \A d \in Client : Grown(d)
  <2>1. CASE Stop \/ UNCHANGED vars
    <3>1. registers_' = registers_ /\ seen' = seen
      BY <2>1 DEF Stop, vars, regVars
    <3> QED BY <1>1, <3>1, SameSeen DEF AnswerTypes
  <2>2. ASSUME NEW v \in Value32, SetUint32(v)
        PROVE  /\ registers_' \in [Address -> Word]
               /\ seen' \in [Client -> [Address -> SUBSET Word]]
               /\ \A d \in Client : Grown(d)
    <3>1. PICK new : new = [registers_ EXCEPT ![0] = v[1], ![1] = v[2]]
      OBVIOUS
    <3>2. v[1] \in Word /\ v[2] \in Word
      <4>1. v \in Word \X Word
        BY ConstantAssumption
      <4> QED BY <4>1
    <3>3. new \in [Address -> Word]
      BY <1>1, <3>1, <3>2 DEF AnswerTypes
    <3>4. Store(new)
      BY <2>2, <3>1 DEF SetUint32
    <3> QED BY <1>1, <3>3, <3>4, Stores
  <2> QED BY <2>1, <2>2
<1>5. AnswerTypes'
    BY <1>1, <1>2, <1>4 DEF AnswerTypes
<1>6. \A d \in Client : CallInv(d)'
    BY <1>1, <1>3, <1>4, KeptCall
<1> QED BY <1>5, <1>6 DEF AnswerInv

LEMMA InitAnswers == Init => AnswerInv
<1> SUFFICES ASSUME Init PROVE AnswerInv
    OBVIOUS
<1>1. registers_ \in [Address -> Word]
  <2>1. 0 \in Word
    BY WordIs
  <2> QED BY <2>1 DEF Init
<1>2. DOMAIN call = Client /\ \A c \in Client : call[c] \in Op[c]
  <2>1. \A c \in Client : Op[c] # {}
    BY ConstantAssumption
  <2>2. ASSUME NEW c \in Client PROVE (CHOOSE op \in Op[c] : TRUE) \in Op[c]
    BY <2>1
  <2>3. call = [c \in Client |-> CHOOSE op \in Op[c] : TRUE]
    BY DEF Init
  <2> QED BY <2>2, <2>3
<1>3. AnswerTypes
  <2>1. /\ client \in [Client -> {"idle", "wait", "dead", "cut"}]
        /\ ids \in [Client -> Nat] /\ index \in [Client -> Nat]
        /\ thread \in [Client -> {"test", "read", "get", "set", "write", "ended"}]
        /\ clean \in [Client -> BOOLEAN]
        /\ DOMAIN result = Client /\ DOMAIN toClient = Client /\ DOMAIN response = Client
    BY DEF Init
  <2>2. toServer \in [Client -> Seq(Byte)] /\ request \in [Client -> Seq(Byte)]
    <3>1. << >> \in Seq(Byte)
      OBVIOUS
    <3> QED BY <3>1 DEF Init
  <2>3. seen \in [Client -> [Address -> SUBSET Word]]
    BY DEF Init
  <2> QED BY <1>1, <1>2, <2>1, <2>2, <2>3 DEF AnswerTypes
<1>4. ASSUME NEW c \in Client PROVE CallInv(c)
  <2>1. client[c] = "idle" /\ result[c] = Failed /\ index[c] = 0
    BY DEF Init
  <2> QED BY <2>1 DEF CallInv, Failed
<1> QED BY <1>3, <1>4 DEF AnswerInv

LEMMA NextAnswers == AnswerInv /\ [Next]_vars => AnswerInv'
<1> SUFFICES ASSUME AnswerInv, [Next]_vars PROVE AnswerInv'
    OBVIOUS
<1>1. CASE Stop \/ (\E v \in Value32 : SetUint32(v)) \/ UNCHANGED vars
    BY <1>1, ApplicationCall
<1>2. ASSUME NEW c \in Client, Thread(c) PROVE AnswerInv'
    BY <1>2, LoopCall, ReadCall, GetCall, SetCall, RespondCall DEF Thread
<1>3. ASSUME NEW c \in Client,
             \/ Hangup(c) \/ ReceiveFails(c)
             \/ \E op \in Op[c], n \in Cut : SendCut(c, op, n)
      PROVE  AnswerInv'
    BY <1>3, FailedCall
<1>4. ASSUME NEW c \in Client, NEW op \in Op[c], Send(c, op) PROVE AnswerInv'
    BY <1>4, SendCall
<1>5. ASSUME NEW c \in Client, NEW n \in Cut \cup {Len(toClient[c])}, Receive(c, n) PROVE AnswerInv'
    BY <1>5, ReceiveCall
<1> QED BY <1>1, <1>2, <1>3, <1>4, <1>5 DEF Next

\* AnswersAreTrue is an invariant: what a call of ModbusClient returns was in
\* the registers while it lasted, and what it wrote too, however the server's
\* threads interleave in processRequest and wherever the responses and the
\* requests of other clients are cut.
THEOREM CallsTellTheTruth == Spec => []AnswersAreTrue
<1>1. AnswerInv => AnswersAreTrue
  <2> SUFFICES ASSUME AnswerInv, NEW c \in Client, NEW i \in 1 .. call[c].count,
                      client[c] = "idle", clean[c], result[c].ok
               PROVE  (IF call[c].code = 3 THEN result[c].words[i] ELSE call[c].values[i])
                          \in seen[c][call[c].address + i - 1]
    BY DEF AnswersAreTrue
  <2>1. Shown(call[c], seen[c], IF call[c].code = 3 THEN result[c].words ELSE call[c].values,
              call[c].count)
    BY DEF AnswerInv, CallInv
  <2> QED BY <2>1 DEF Shown
<1> QED BY <1>1, InitAnswers, NextAnswers, PTL DEF Spec
===============================================================================
