------------------------ MODULE CELLMsgStreamProofs -------------------------
(***************************************************************************)
(* Proofs about CELLMsgStream for any set of fields, any set of logouts    *)
(* and any size of the sender's buffer.                                    *)
(*                                                                         *)
(* The invariant says that the stream holds the fields in kept, laid out   *)
(* one behind the other from its third byte on.  That reading them returns *)
(* them is an induction over the fields, so everything is said of runs:    *)
(* functions from 0..n to the streams that n reads, or n writes, go        *)
(* through.  The answer to a logout takes three of them, one behind the    *)
(* other: the reads of the server, its writes, and the reads of the client *)
(* that the answer comes back to.                                          *)
(***************************************************************************)
EXTENDS CELLMsgStream, SequenceTheorems, WellFoundedInduction, NaturalsInduction, TLAPS

-----------------------------------------------------------------------------
(* Induction up to a number, and sequences of steps *)

\* What holds of 0, and of k + 1 if of k, holds up to n.
LEMMA UpTo ==
  ASSUME NEW n \in Nat, NEW S, 0 \in S, \A k \in 0..n - 1 : k \in S => k + 1 \in S
  PROVE  0..n \subseteq S
  <1> DEFINE R == OpToRel(<, Nat)
             Left == (0..n) \ S
  <1>1. SUFFICES ASSUME Left # {} PROVE FALSE
    OBVIOUS
  <1>2. Left \subseteq Nat
    OBVIOUS
  <1>3. IsWellFoundedOn(R, Nat)
    BY NatLessThanWellFounded, Zenon
  <1>4. PICK m \in Left : \A k \in Left : <<k, m>> \notin R
    <2> HIDE DEF R, Left
    <2> QED BY <1>1, <1>2, <1>3, WFMin, Zenon
  <1>5. R = {p \in Nat \X Nat : p[1] < p[2]}
    BY Zenon DEF OpToRel
  <1> HIDE DEF R
  <1>6. m \in 0..n /\ m \notin S /\ m # 0
    OBVIOUS
  <1>7. m - 1 \in 0..n - 1 /\ m - 1 \notin S
    BY <1>6
  <1>8. m - 1 \in Left /\ <<m - 1, m>> \in R
    BY <1>5, <1>6, <1>7
  <1> QED BY <1>4, <1>8

\* g goes n steps of F from s on, all of them in S.
Steps(g, n, S, s, F) ==
  g \in [0..n -> S] /\ g[0] = s /\ \A k \in 1..n : g[k] = F[<<g[k - 1], k>>]

LEMMA StepsExist ==
  ASSUME NEW n \in Nat, NEW S, NEW s \in S, NEW F \in [S \X (1..n) -> S]
  PROVE  \E g : Steps(g, n, S, s, F)
  <1> DEFINE Walks(k) == {g \in [0..k -> S] : g[0] = s /\ \A j \in 1..k : g[j] = F[<<g[j - 1], j>>]}
             T == {k \in 0..n : Walks(k) # {}}
  <1>1. 0 \in T
    <2>1. [i \in 0..0 |-> s] \in Walks(0)
      OBVIOUS
    <2> QED BY <2>1
  <1>2. ASSUME NEW k \in 0..n - 1, k \in T PROVE k + 1 \in T
    <2>1. PICK g \in Walks(k) : TRUE
      BY <1>2
    <2> DEFINE next == F[<<g[k], k + 1>>]
               h == [i \in 0..k + 1 |-> IF i <= k THEN g[i] ELSE next]
    <2>2. g \in [0..k -> S] /\ g[0] = s /\ \A j \in 1..k : g[j] = F[<<g[j - 1], j>>]
      BY <2>1
    <2>3. next \in S
      BY <2>2
    <2>4. h \in [0..k + 1 -> S] /\ h[0] = s
      <3> HIDE DEF next
      <3> QED BY <2>2, <2>3
    <2>5. ASSUME NEW j \in 1..k + 1 PROVE h[j] = F[<<h[j - 1], j>>]
      <3>1. CASE j <= k
        <4>1. h[j] = g[j] /\ h[j - 1] = g[j - 1]
          BY <3>1
        <4> HIDE DEF h
        <4> QED BY <2>2, <3>1, <4>1
      <3>2. CASE j = k + 1
        <4>1. h[j] = next /\ h[j - 1] = g[k]
          BY <3>2
        <4> QED BY <3>2, <4>1
      <3> QED BY <3>1, <3>2
    <2>6. h \in Walks(k + 1)
      <3> HIDE DEF h
      <3> QED BY <2>4, <2>5
    <2>7. k + 1 \in 0..n /\ Walks(k + 1) # {}
      <3> HIDE DEF Walks
      <3> QED BY <2>6
    <2> HIDE DEF Walks
    <2> QED BY <2>7
  <1>3. n \in T
    <2> HIDE DEF T
    <2>1. 0..n \subseteq T
      BY <1>1, <1>2, UpTo, Zenon
    <2> QED BY <2>1
  <1> QED BY <1>3 DEF Steps

-----------------------------------------------------------------------------
(* Bytes *)

LEMMA Division ==
  ASSUME NEW n \in Nat, NEW m \in Nat \ {0}
  PROVE  n \div m \in Nat /\ (n % m) \in 0..m - 1 /\ n = (m * (n \div m)) + (n % m)
  OBVIOUS

LEMMA Bounds ==
  /\ MaxUint16 \in Nat /\ 256 <= MaxUint16 /\ MaxInt \in Nat /\ (8 * MaxUint16) + 4 <= MaxInt
  /\ \A n \in Nat : n <= MaxInt => Int32(n) = n
  BY DEF MaxInt, MaxUint16, Int32

LEMMA WeightFacts ==
  /\ Weight[1] = 1 /\ Weight[2] = 256 /\ Weight[3] = 256 * 256 /\ Weight[4] = 256 * 256 * 256
  /\ \A i \in 1..4 : Weight[i] \in Nat \ {0}
  BY DEF Weight

LEMMA BytesFacts ==
  ASSUME NEW n \in Nat, NEW width \in {2, 4}
  PROVE  Bytes(n, width) \in Seq(Byte) /\ Len(Bytes(n, width)) = width
  <1>1. ASSUME NEW i \in 1..width PROVE (n \div Weight[i]) % 256 \in Byte
    <2>1. Weight[i] \in Nat \ {0}
      BY WeightFacts
    <2>2. n \div Weight[i] \in Nat
      BY <2>1, Division
    <2> QED BY <2>2 DEF Byte
  <1>2. [i \in 1..width |-> (n \div Weight[i]) % 256] \in Seq(Byte)
    BY <1>1, IsASeq
  <1> QED BY <1>2 DEF Bytes

\* Every number that a message holds comes back from its bytes.
LEMMA NumberOfBytes ==
  ASSUME NEW n \in Lengths, NEW width \in {2, 4}
  PROVE  Number(Bytes(n, width)) = n
  <1>1. n \in Nat /\ n <= 256 * 256 - 1
    <2>1. n \in 0..MaxUint16
      BY Zenon DEF Lengths
    <2>2. PICK top \in Nat : top = MaxUint16 /\ top = 256 * 256 - 1
      BY DEF MaxUint16
    <2> QED BY <2>1, <2>2
  <1>2. /\ Len(Bytes(n, width)) = width
        /\ \A i \in 1..width : Bytes(n, width)[i] = (n \div Weight[i]) % 256
    <2>1. Len(Bytes(n, width)) = width
      BY <1>1, BytesFacts
    <2> QED BY <2>1 DEF Bytes
  <1>3. PICK q \in Nat, r \in 0..255 : q = n \div 256 /\ r = n % 256 /\ n = (256 * q) + r
    <2>1. PICK m \in Nat \ {0} : m = 256
      OBVIOUS
    <2>2. n \div m \in Nat /\ n % m \in 0..m - 1 /\ n = (m * (n \div m)) + (n % m)
      BY <1>1, Division
    <2>3. PICK q \in Nat, r \in 0..m - 1 : q = n \div m /\ r = n % m
      BY <2>2
    <2>4. n = (m * q) + r
      BY <2>2, <2>3, Zenon
    <2>5. q = n \div 256 /\ r = n % 256 /\ n = (256 * q) + r
      BY <2>1, <2>3, <2>4, Zenon
    <2>6. r \in 0..255
      BY <2>1
    <2> QED BY <2>5, <2>6
  <1>4. (n \div 1) % 256 = r /\ q % 256 = q
    BY <1>1, <1>3
  <1>5. (n \div (256 * 256)) % 256 = 0 /\ (n \div (256 * 256 * 256)) % 256 = 0
    <2>1. n \div (256 * 256) = 0
      BY <1>1
    <2>2. n \div (256 * 256 * 256) = 0
      BY <1>1
    <2> QED BY <2>1, <2>2
  <1>6. Bytes(n, width)[1] = r /\ Bytes(n, width)[2] = q
    <2>1. 1 \in 1..width /\ 2 \in 1..width
      OBVIOUS
    <2> QED BY <1>2, <1>3, <1>4, <2>1, WeightFacts
  <1>7. width = 4 => Bytes(n, width)[3] = 0 /\ Bytes(n, width)[4] = 0
    BY <1>2, <1>5, WeightFacts
  <1>8. Weight[3] \in Nat /\ Weight[4] \in Nat
    BY WeightFacts
  <1>9. Number(Bytes(n, width)) = r + (256 * q)
    <2> DEFINE b == Bytes(n, width)
    <2>1. b[1] = r /\ b[2] = q /\ Len(b) = width /\ (width = 4 => b[3] = 0 /\ b[4] = 0)
      BY <1>2, <1>6, <1>7
    <2> HIDE DEF b
    <2>2. Number(b) = r + (256 * q)
      BY <1>8, <2>1 DEF Number
    <2> QED BY <2>2 DEF b
  <1> QED BY <1>3, <1>9

LEMMA NumberType ==
  ASSUME NEW b \in Seq(Byte), Len(b) \in {2, 4}
  PROVE  Number(b) \in Nat
  <1>1. \A i \in 1..Len(b) : b[i] \in Nat
    <2>1. \A i \in 1..Len(b) : b[i] \in Byte
      BY ElementOfSeq
    <2>2. \A x \in Byte : x \in Nat
      BY DEF Byte
    <2> QED BY <2>1, <2>2
  <1>2. b[1] \in Nat /\ b[2] \in Nat /\ (Len(b) = 4 => b[3] \in Nat /\ b[4] \in Nat)
    BY <1>1
  <1>3. Len(b) = 4 => Weight[3] * b[3] \in Nat /\ Weight[4] * b[4] \in Nat
    <2>1. \A x \in Nat, y \in Nat : x * y \in Nat
      OBVIOUS
    <2>2. Weight[3] \in Nat /\ Weight[4] \in Nat
      BY WeightFacts
    <2> QED BY <1>2, <2>1, <2>2, Zenon
  <1>4. b[1] + (256 * b[2]) \in Nat
    BY <1>2
  <1>5. CASE Len(b) = 4
    <2>1. PICK high \in Nat : high = Weight[3] * b[3] + Weight[4] * b[4]
      BY <1>3, <1>5
    <2> QED BY <1>4, <1>5, <2>1 DEF Number
  <1>6. CASE Len(b) = 2
    BY <1>4, <1>6 DEF Number
  <1> QED BY <1>5, <1>6
-----------------------------------------------------------------------------
(* Streams, and what one read does *)

StreamType ==
  [buff : Seq(Byte), nSize : Nat, nWritePos : Nat, nReadPos : Nat, got : Seq(Seq(Byte))]
StreamSet == {s \in StreamType : Len(s.buff) = s.nSize}

\* r is s after a read that passed over d bytes and returned v.
Passed(s, r, d, v) ==
  /\ r \in StreamSet /\ r.buff = s.buff /\ r.nSize = s.nSize /\ r.nWritePos = s.nWritePos
  /\ r.nReadPos = s.nReadPos + d /\ r.got = Append(s.got, v)

\* The bytes v are in b behind the first p.
Holds(b, p, v) == \A i \in 1..Len(v) : b[p + i] = v[i]

LEMMA Fieldwise ==
  ASSUME NEW s \in StreamSet
  PROVE  /\ s.buff \in Seq(Byte) /\ s.nSize \in Nat /\ Len(s.buff) = s.nSize
         /\ s.nWritePos \in Nat /\ s.nReadPos \in Nat /\ s.got \in Seq(Seq(Byte))
         /\ \A d \in Nat : /\ popRead(s, d) \in StreamSet /\ popRead(s, d).buff = s.buff
                           /\ popRead(s, d).nSize = s.nSize /\ popRead(s, d).got = s.got
                           /\ popRead(s, d).nWritePos = s.nWritePos
                           /\ popRead(s, d).nReadPos = s.nReadPos + d
         /\ \A v \in Seq(Byte) : Passed(s, Got(s, v), 0, v)
  <1>1. s \in StreamType /\ Len(s.buff) = s.nSize
    BY DEF StreamSet
  <1>2. /\ s.buff \in Seq(Byte) /\ s.nSize \in Nat
        /\ s.nWritePos \in Nat /\ s.nReadPos \in Nat /\ s.got \in Seq(Seq(Byte))
    BY <1>1 DEF StreamType
  <1>3. ASSUME NEW d \in Nat
        PROVE  /\ popRead(s, d) \in StreamSet /\ popRead(s, d).buff = s.buff
               /\ popRead(s, d).nSize = s.nSize /\ popRead(s, d).got = s.got
               /\ popRead(s, d).nWritePos = s.nWritePos
               /\ popRead(s, d).nReadPos = s.nReadPos + d
    <2>1. PICK x \in Nat : x = s.nReadPos + d
      BY <1>2
    <2>2. [s EXCEPT !.nReadPos = x] \in StreamType
      BY <1>1, <2>1 DEF StreamType
    <2>3. popRead(s, d) = [s EXCEPT !.nReadPos = x]
      BY <2>1 DEF popRead
    <2>4. PICK t \in StreamType : t = [s EXCEPT !.nReadPos = x]
      BY <2>2
    <2>5. /\ t.buff = s.buff /\ t.nSize = s.nSize /\ t.got = s.got
          /\ t.nWritePos = s.nWritePos /\ t.nReadPos = x
      BY <1>1, <2>4 DEF StreamType
    <2>6. t \in StreamSet
      BY <1>1, <2>5 DEF StreamSet
    <2> QED BY <2>1, <2>3, <2>4, <2>5, <2>6
  <1>4. ASSUME NEW v \in Seq(Byte) PROVE Passed(s, Got(s, v), 0, v)
    <2>1. PICK g \in Seq(Seq(Byte)) : g = Append(s.got, v)
      BY <1>2, AppendProperties
    <2>2. [s EXCEPT !.got = g] \in StreamType
      BY <1>1 DEF StreamType
    <2>3. PICK t \in StreamType : t = [s EXCEPT !.got = g]
      BY <2>2
    <2>4. /\ t.buff = s.buff /\ t.nSize = s.nSize /\ t.got = g
          /\ t.nWritePos = s.nWritePos /\ t.nReadPos = s.nReadPos
      BY <1>1, <2>3 DEF StreamType
    <2>5. t \in StreamSet
      BY <1>1, <2>4 DEF StreamSet
    <2>6. Passed(s, t, 0, v)
      BY <1>2, <2>1, <2>4, <2>5 DEF Passed
    <2> QED BY <2>1, <2>3, <2>6 DEF Got
  <1> QED BY <1>1, <1>2, <1>3, <1>4

LEMMA PeekFacts ==
  ASSUME NEW s \in StreamSet, NEW n \in Nat
  PROVE  /\ Peek(s, n) \in Seq(Byte) /\ Len(Peek(s, n)) = n
         /\ \A i \in 1..n : s.nReadPos + i <= s.nSize => Peek(s, n)[i] = s.buff[s.nReadPos + i]
  <1>1. /\ s.buff \in Seq(Byte) /\ s.nSize \in Nat /\ s.nReadPos \in Nat
        /\ Len(s.buff) = s.nSize
    BY Fieldwise
  <1> DEFINE byte(i) == IF s.nReadPos + i <= s.nSize THEN s.buff[s.nReadPos + i] ELSE 0
  <1>2. ASSUME NEW i \in 1..n PROVE byte(i) \in Byte
    <2>1. CASE s.nReadPos + i <= s.nSize
      <3>1. s.nReadPos + i \in 1..Len(s.buff)
        BY <1>1, <2>1
      <3>2. s.buff[s.nReadPos + i] \in Byte
        BY <1>1, <3>1, ElementOfSeq
      <3> QED BY <2>1, <3>2
    <2>2. CASE ~(s.nReadPos + i <= s.nSize)
      BY <2>2 DEF Byte
    <2> QED BY <2>1, <2>2
  <1>3. [i \in 1..n |-> byte(i)] \in Seq(Byte)
    <2> HIDE DEF byte
    <2> QED BY <1>2, IsASeq
  <1>4. Len(Peek(s, n)) = n
    BY DEF Peek
  <1>5. \A i \in 1..n : s.nReadPos + i <= s.nSize => Peek(s, n)[i] = s.buff[s.nReadPos + i]
    BY DEF Peek
  <1> QED BY <1>3, <1>4, <1>5 DEF Peek

\* Where a stream holds v, a reader sees v.
LEMMA PeekHeld ==
  ASSUME NEW s \in StreamSet, NEW v \in Seq(Byte), Holds(s.buff, s.nReadPos, v),
         s.nReadPos + Len(v) <= s.nSize
  PROVE  Peek(s, Len(v)) = v
  <1>1. Len(v) \in Nat /\ s.nSize \in Nat /\ s.nReadPos \in Nat
    BY LenProperties, Fieldwise
  <1>2. PICK w \in Seq(Byte) : w = Peek(s, Len(v))
    BY <1>1, PeekFacts
  <1>3. /\ Len(w) = Len(v)
        /\ \A i \in 1..Len(v) : s.nReadPos + i <= s.nSize => w[i] = s.buff[s.nReadPos + i]
    BY <1>1, <1>2, PeekFacts
  <1>4. \A i \in 1..Len(v) : w[i] = v[i]
    BY <1>1, <1>3 DEF Holds
  <1>5. w = v
    BY <1>3, <1>4, SeqEqual
  <1> QED BY <1>2, <1>5

LEMMA PassedIs ==
  ASSUME NEW s \in StreamSet, NEW d \in Nat, NEW v \in Seq(Byte)
  PROVE  Passed(s, Got(popRead(s, d), v), d, v) /\ Passed(s, Got(s, v), 0, v)
  <1>1. PICK t \in StreamSet : t = popRead(s, d)
    BY Fieldwise
  <1>2. Passed(t, Got(t, v), 0, v) /\ Passed(s, Got(s, v), 0, v)
    BY Fieldwise
  <1>3. /\ t.buff = s.buff /\ t.nSize = s.nSize /\ t.got = s.got
        /\ t.nWritePos = s.nWritePos /\ t.nReadPos = s.nReadPos + d
        /\ s.nReadPos \in Nat
    BY <1>1, Fieldwise
  <1>4. Passed(s, Got(t, v), d, v)
    BY <1>2, <1>3 DEF Passed
  <1> QED BY <1>1, <1>2, <1>4

LEMMA onlyReadType ==
  ASSUME NEW s \in StreamSet
  PROVE  onlyRead(s) \in Nat
  <1>1. Peek(s, 4) \in Seq(Byte) /\ Len(Peek(s, 4)) = 4
    BY PeekFacts
  <1>2. Number(Peek(s, 4)) \in Nat
    BY <1>1, NumberType
  <1> QED BY <1>2 DEF onlyRead

LEMMA TakeArrayIs ==
  ASSUME NEW s \in StreamSet, NEW n \in Nat
  PROVE  /\ popRead(s, 4) \in StreamSet
         /\ Passed(s, TakeArray(s, n), 4 + n, Peek(popRead(s, 4), n))
         /\ Peek(popRead(s, 4), n) \in Seq(Byte)
  <1>1. popRead(s, 4) \in StreamSet
    BY Fieldwise
  <1>2. Peek(popRead(s, 4), n) \in Seq(Byte)
    BY <1>1, PeekFacts
  <1>3. 4 + n \in Nat
    OBVIOUS
  <1>4. Passed(s, Got(popRead(s, 4 + n), Peek(popRead(s, 4), n)), 4 + n, Peek(popRead(s, 4), n))
    BY <1>2, <1>3, PassedIs
  <1> QED BY <1>1, <1>2, <1>4 DEF TakeArray

LEMMA ZerosType ==
  ASSUME NEW n \in Nat
  PROVE  Zeros(n) \in Seq(Byte) /\ Len(Zeros(n)) = n
  <1>1. \A i \in 1..n : 0 \in Byte
    BY DEF Byte
  <1>2. [i \in 1..n |-> 0] \in Seq(Byte)
    BY <1>1, IsASeq
  <1> QED BY <1>2 DEF Zeros

LEMMA WidthFacts ==
  ASSUME NEW w \in Widths
  PROVE  /\ w \in Nat /\ Int32(w) = w
         /\ \A n \in Lengths : w * n \in Nat /\ (w * n) + 4 \in Nat
                               /\ Int32(w * n) = w * n /\ Int32((w * n) + 4) = (w * n) + 4
  <1>1. w = 1 \/ w = 2 \/ w = 4 \/ w = 8
    BY DEF Widths
  <1>2. \A n \in Lengths : n \in Nat /\ n <= MaxUint16
    BY Bounds DEF Lengths
  <1>3. \A n \in Lengths : w * n \in Nat /\ w * n <= 8 * MaxUint16
    BY <1>1, <1>2, Bounds
  <1>4. \A n \in Lengths : (w * n) + 4 \in Nat /\ w * n <= MaxInt /\ (w * n) + 4 <= MaxInt
    BY <1>3, Bounds
  <1>5. w \in Nat /\ w <= MaxInt
    BY <1>1, Bounds
  <1>6. w \in Nat /\ Int32(w) = w
    BY <1>5, Bounds
  <1>7. ASSUME NEW n \in Lengths
        PROVE  Int32(w * n) = w * n /\ Int32((w * n) + 4) = (w * n) + 4
    <2>1. PICK k \in Nat : k = w * n
      BY <1>3
    <2>2. k <= MaxInt /\ k + 4 <= MaxInt /\ k + 4 \in Nat
      BY <1>4, <2>1
    <2>3. Int32(k) = k /\ Int32(k + 4) = k + 4
      BY <2>2, Bounds
    <2> QED BY <2>1, <2>3
  <1> QED BY <1>3, <1>4, <1>6, <1>7

\* A read returns something, and from inside the stream it stays inside.
LEMMA ReadFieldType ==
  ASSUME NEW s \in StreamSet, NEW q \in Field
  PROVE  \E d \in Nat, v \in Seq(Byte) :
           /\ Passed(s, ReadField(s, q), d, v)
           /\ s.nReadPos <= s.nSize /\ CountFits(s, q) => s.nReadPos + d <= s.nSize
  <1>1. q.width \in Widths /\ q.room \in Lengths /\ q.as \in {"scalar", "array", "string"}
    BY DEF Field
  <1>2. s.nSize \in Nat /\ s.nReadPos \in Nat
    BY Fieldwise
  <1>3. PICK n \in Nat : n = onlyRead(s)
    BY onlyReadType
  <1>4. CASE q.as = "scalar"
    <2>1. PICK w \in Nat : w = q.width /\ Int32(w) = w
      BY <1>1, WidthFacts
    <2>2. ReadField(s, q) = Read(s, w)
      BY <1>4, <2>1 DEF ReadField
    <2>3. CASE canRead(s, w)
      <3>1. Passed(s, Got(popRead(s, w), Peek(s, w)), w, Peek(s, w)) /\ Peek(s, w) \in Seq(Byte)
        BY PassedIs, PeekFacts
      <3>2. s.nReadPos + w <= s.nSize
        BY <1>2, <2>1, <2>3 DEF canRead
      <3> QED BY <2>2, <2>3, <3>1, <3>2 DEF Read
    <2>4. CASE ~canRead(s, w)
      <3>1. Passed(s, Got(s, Zeros(w)), 0, Zeros(w)) /\ Zeros(w) \in Seq(Byte)
        BY PassedIs, ZerosType
      <3> QED BY <1>2, <2>2, <2>4, <3>1 DEF Read
    <2> QED BY <2>3, <2>4
  <1>5. /\ Passed(s, Got(s, <<>>), 0, <<>>) /\ <<>> \in Seq(Byte)
        /\ s.nReadPos <= s.nSize => s.nReadPos + 0 <= s.nSize
    <2>1. <<>> \in Seq(Byte)
      BY EmptySeq
    <2>2. Passed(s, Got(s, <<>>), 0, <<>>)
      BY <2>1, PassedIs
    <2>3. s.nReadPos <= s.nSize => s.nReadPos + 0 <= s.nSize
      BY <1>2
    <2> QED BY <2>1, <2>2, <2>3
  <1>6. CASE q.as = "array"
    <2>1. ReadField(s, q) = ReadArray(s, q.width, q.room)
      BY <1>6 DEF ReadField
    <2>2. CASE n <= q.room /\ canRead(s, (q.width * n) + 4)
      <3>1. n \in Lengths
        BY <1>1, <2>2, Bounds DEF Lengths
      <3>2. PICK size \in Nat : size = q.width * n /\ Int32(size + 4) = size + 4
        BY <1>1, <3>1, WidthFacts
      <3>3. ReadField(s, q) = TakeArray(s, size)
        BY <1>3, <2>1, <2>2, <3>2 DEF ReadArray
      <3>4. s.nReadPos + (4 + size) <= s.nSize
        BY <1>2, <2>2, <3>2 DEF canRead
      <3>5. PICK v \in Seq(Byte) : Passed(s, TakeArray(s, size), 4 + size, v)
        BY TakeArrayIs
      <3>6. 4 + size \in Nat
        OBVIOUS
      <3> QED BY <3>3, <3>4, <3>5, <3>6
    <2>3. CASE ~(n <= q.room /\ canRead(s, (q.width * n) + 4))
      <3>1. ReadField(s, q) = Got(s, <<>>)
        BY <1>3, <2>1, <2>3 DEF ReadArray
      <3> QED BY <1>5, <3>1
    <2> QED BY <2>2, <2>3
  <1>7. CASE q.as = "string"
    <2>1. ReadField(s, q) = ReadString(s)
      BY <1>7 DEF ReadField
    <2>2. CASE n > 0 /\ canRead(s, n + 4)
      <3>1. ReadField(s, q) = TakeArray(s, n)
        BY <1>3, <2>1, <2>2 DEF ReadString
      <3>2. ASSUME CountFits(s, q) PROVE s.nReadPos + (4 + n) <= s.nSize
        <4>1. n + 4 \in Nat /\ n + 4 <= MaxInt
          BY <1>3, <1>7, <3>2, Bounds DEF CountFits
        <4>2. Int32(n + 4) = n + 4
          BY <4>1, Bounds
        <4> QED BY <1>2, <2>2, <4>2 DEF canRead
      <3>3. PICK v \in Seq(Byte) : Passed(s, TakeArray(s, n), 4 + n, v)
        BY TakeArrayIs
      <3>4. 4 + n \in Nat
        OBVIOUS
      <3> QED BY <3>1, <3>2, <3>3, <3>4
    <2>3. CASE ~(n > 0 /\ canRead(s, n + 4))
      <3>1. ReadField(s, q) = Got(s, <<>>)
        BY <1>3, <2>1, <2>3 DEF ReadString
      <3> QED BY <1>5, <3>1
    <2> QED BY <2>2, <2>3
  <1> QED BY <1>1, <1>4, <1>6, <1>7

-----------------------------------------------------------------------------
(* What a written field leaves, and what a reader makes of it *)

Extent(f) == IF f.as = "scalar" THEN Len(f.value) ELSE 4 + Len(f.value)

\* The field f is in b behind the first p bytes.
Laid(b, p, f) ==
  IF f.as = "scalar" THEN Holds(b, p, f.value)
                     ELSE Holds(b, p, Bytes(f.n, 4)) /\ Holds(b, p + 4, f.value)

Reads(q, f) == q \in Field /\ q.as = f.as /\ q.width = f.width

Accepts(q, f) ==
  \/ f.as = "scalar"
  \/ f.as = "array" /\ f.n <= q.room
  \/ f.as = "string" /\ f.n > 0

LEMMA FieldFacts ==
  ASSUME NEW f, IsField(f)
  PROVE  /\ f \in Field /\ f.width \in Widths /\ f.n \in Lengths /\ f.n \in Nat /\ f.room \in Lengths
         /\ f.as \in {"scalar", "array", "string"}
         /\ f.value \in Seq(Byte) /\ Len(f.value) \in Nat /\ Len(f.value) = f.width * f.n
         /\ f.as = "scalar" => Len(f.value) = f.width /\ Len(f.value) > 0
         /\ f.as = "string" => Len(f.value) = f.n
         /\ Extent(f) \in Nat /\ Extent(f) > 0
         /\ Int32(Len(f.value)) = Len(f.value) /\ Int32(Len(f.value) + 4) = Len(f.value) + 4
  <1>1. /\ f \in Field /\ f.width \in Widths /\ f.n \in Lengths /\ f.room \in Lengths
        /\ f.value \in Seq(Byte) /\ f.as \in {"scalar", "array", "string"}
    BY DEF IsField, Field
  <1>2. f.n \in Nat /\ f.n <= MaxUint16
    BY <1>1, Bounds DEF Lengths
  <1>3. Len(f.value) \in Nat /\ Len(f.value) = f.width * f.n
    BY <1>1, LenProperties DEF IsField
  <1>4. f.width \in Nat /\ f.width > 0
    BY <1>1 DEF Widths
  <1>5. f.as = "scalar" => Len(f.value) = f.width /\ Len(f.value) > 0
    BY <1>3, <1>4 DEF IsField
  <1>6. f.as = "string" => Len(f.value) = f.n
    BY <1>2, <1>3 DEF IsField
  <1>7. Extent(f) \in Nat /\ Extent(f) > 0
    BY <1>3, <1>5 DEF Extent
  <1>8. Int32(Len(f.value)) = Len(f.value) /\ Int32(Len(f.value) + 4) = Len(f.value) + 4
    BY <1>1, <1>3, WidthFacts
  <1> QED BY <1>1, <1>2, <1>3, <1>5, <1>6, <1>7, <1>8

\* A reader in front of a counted field sees its count.
LEMMA CountRead ==
  ASSUME NEW s \in StreamSet, NEW f, IsField(f), f.as # "scalar",
         Laid(s.buff, s.nReadPos, f), s.nReadPos + Extent(f) <= s.nSize
  PROVE  onlyRead(s) = f.n /\ Peek(popRead(s, 4), Len(f.value)) = f.value
  <1>1. /\ s.nSize \in Nat /\ s.nReadPos \in Nat /\ f.n \in Lengths /\ f.n \in Nat
        /\ f.value \in Seq(Byte) /\ Len(f.value) \in Nat /\ Extent(f) = 4 + Len(f.value)
    BY Fieldwise, FieldFacts DEF Extent
  <1>2. PICK c \in Seq(Byte) : c = Bytes(f.n, 4) /\ Len(c) = 4
    BY <1>1, BytesFacts
  <1>3. Holds(s.buff, s.nReadPos, c) /\ Holds(s.buff, s.nReadPos + 4, f.value)
    BY <1>2 DEF Laid
  <1>4. Peek(s, 4) = c
    <2>1. s.nReadPos + 4 <= s.nSize
      BY <1>1
    <2>2. Peek(s, Len(c)) = c
      BY <1>2, <1>3, <2>1, PeekHeld
    <2> QED BY <1>2, <2>2
  <1>5. canRead(s, 4)
    <2>1. Int32(4) = 4
      BY Bounds
    <2> QED BY <1>1, <2>1 DEF canRead
  <1>6. onlyRead(s) = f.n
    BY <1>1, <1>2, <1>4, <1>5, NumberOfBytes DEF onlyRead
  <1>7. PICK t \in StreamSet : t = popRead(s, 4) /\ t.buff = s.buff /\ t.nSize = s.nSize
                               /\ t.nReadPos = s.nReadPos + 4
    BY Fieldwise
  <1>8. Peek(t, Len(f.value)) = f.value
    <2>1. t.nReadPos + Len(f.value) <= t.nSize
      BY <1>1, <1>7
    <2> QED BY <1>1, <1>3, <1>7, <2>1, PeekHeld
  <1> QED BY <1>6, <1>7, <1>8

\* An array that is longer than the reader's is refused, and not passed over.
LEMMA ReadRefused ==
  ASSUME NEW s \in StreamSet, NEW f, IsField(f), f.as # "scalar",
         Laid(s.buff, s.nReadPos, f), s.nReadPos + Extent(f) <= s.nSize,
         NEW q \in Field, q.as = "array", f.n > q.room
  PROVE  Passed(s, ReadField(s, q), 0, <<>>)
  <1>1. onlyRead(s) = f.n /\ f.n \in Nat /\ q.room \in Nat
    BY CountRead, FieldFacts, Bounds DEF Field, Lengths
  <1>2. ReadField(s, q) = Got(s, <<>>)
    BY <1>1 DEF ReadField, ReadArray
  <1> QED BY <1>2, PassedIs, EmptySeq

\* Reading what was written.
LEMMA ReadOne ==
  ASSUME NEW s \in StreamSet, NEW f, IsField(f), NEW q, Reads(q, f),
         Laid(s.buff, s.nReadPos, f), s.nReadPos + Extent(f) <= s.nSize
  PROVE  IF Accepts(q, f) THEN Passed(s, ReadField(s, q), Extent(f), f.value)
                          ELSE Passed(s, ReadField(s, q), 0, <<>>)
  <1>1. /\ s.nSize \in Nat /\ s.nReadPos \in Nat /\ f.n \in Nat
        /\ f.value \in Seq(Byte) /\ Len(f.value) \in Nat
    BY Fieldwise, FieldFacts
  <1>2. CASE f.as = "scalar"
    <2>1. q.as = "scalar" /\ q.width = Len(f.value) /\ Extent(f) = Len(f.value)
      BY <1>2, FieldFacts DEF Reads, Extent
    <2>2. Peek(s, Len(f.value)) = f.value
      BY <1>1, <1>2, <2>1, PeekHeld DEF Laid
    <2>3. canRead(s, Len(f.value))
      BY <1>1, <2>1, FieldFacts DEF canRead
    <2>4. ReadField(s, q) = Got(popRead(s, Len(f.value)), f.value)
      BY <2>1, <2>2, <2>3 DEF ReadField, Read
    <2> QED BY <1>1, <1>2, <2>1, <2>4, PassedIs DEF Accepts
  <1>3. CASE f.as # "scalar"
    <2>1. /\ onlyRead(s) = f.n /\ Peek(popRead(s, 4), Len(f.value)) = f.value
          /\ Extent(f) = 4 + Len(f.value)
      BY <1>3, CountRead DEF Extent
    <2>2. canRead(s, Len(f.value) + 4)
      BY <1>1, <2>1, FieldFacts DEF canRead
    <2>3. Passed(s, TakeArray(s, Len(f.value)), Extent(f), f.value)
      BY <1>1, <2>1, TakeArrayIs
    <2>4. Passed(s, Got(s, <<>>), 0, <<>>)
      BY PassedIs, EmptySeq
    <2>5. CASE f.as = "array"
      <3>1. ReadField(s, q) = ReadArray(s, f.width, q.room)
        BY <2>5 DEF Reads, ReadField
      <3>2. Len(f.value) = f.width * f.n
        BY FieldFacts
      <3>3. ReadField(s, q) = IF f.n <= q.room THEN TakeArray(s, Len(f.value)) ELSE Got(s, <<>>)
        BY <2>1, <2>2, <3>1, <3>2 DEF ReadArray
      <3> QED BY <2>3, <2>4, <2>5, <3>3 DEF Accepts
    <2>6. CASE f.as = "string"
      <3>1. ReadField(s, q) = ReadString(s)
        BY <2>6 DEF Reads, ReadField
      <3>2. Len(f.value) = f.n
        BY <2>6, FieldFacts
      <3>3. ReadField(s, q) = IF f.n > 0 THEN TakeArray(s, Len(f.value)) ELSE Got(s, <<>>)
        BY <2>1, <2>2, <3>1, <3>2 DEF ReadString
      <3> QED BY <2>3, <2>4, <2>6, <3>3 DEF Accepts
    <2> QED BY <1>3, <2>5, <2>6, FieldFacts
  <1> QED BY <1>2, <1>3

-----------------------------------------------------------------------------
(* Reading field after field *)

\* g are the streams that reading the fields, one after the other, goes through.
ReadRun(g, fields) ==
  /\ g \in [0..Len(fields) -> StreamSet]
  /\ \A k \in 1..Len(fields) : g[k] = ReadField(g[k - 1], fields[k])

LEMMA ReadsRun ==
  ASSUME NEW s \in StreamSet, NEW fields \in Seq(Field)
  PROVE  \E g : ReadRun(g, fields) /\ g[0] = s /\ ReadFields(s, fields) = g[Len(fields)]
  <1>1. PICK n \in Nat : n = Len(fields)
    BY LenProperties
  <1>2. ASSUME NEW t \in StreamSet, NEW k \in 1..n PROVE ReadField(t, fields[k]) \in StreamSet
    <2>1. fields[k] \in Field
      BY <1>1, ElementOfSeq
    <2>2. PICK q \in Field : q = fields[k]
      BY <2>1
    <2>3. PICK d \in Nat, v \in Seq(Byte) : Passed(t, ReadField(t, q), d, v)
      BY ReadFieldType
    <2> QED BY <2>2, <2>3 DEF Passed
  <1> DEFINE F == [p \in StreamSet \X (1..n) |-> ReadField(p[1], fields[p[2]])]
             Walk(h) == [k \in 0..n |-> IF k = 0 THEN s ELSE ReadField(h[k - 1], fields[k])]
  <1>3. F \in [StreamSet \X (1..n) -> StreamSet]
    BY <1>2
  <1>4. PICK g \in [0..n -> StreamSet] :
          g[0] = s /\ \A k \in 1..n : g[k] = F[<<g[k - 1], k>>]
    <2>1. PICK G \in [StreamSet \X (1..n) -> StreamSet] : G = F
      BY <1>3
    <2>2. \E h : Steps(h, n, StreamSet, s, G)
      BY StepsExist
    <2> HIDE DEF F
    <2> QED BY <2>1, <2>2 DEF Steps
  <1>5. \A k \in 1..n : g[k] = ReadField(g[k - 1], fields[k])
    <2>1. ASSUME NEW k \in 1..n PROVE g[k] = ReadField(g[k - 1], fields[k])
      <3>1. g[k - 1] \in StreamSet
        BY <1>4
      <3> QED BY <1>4, <3>1
    <2> QED BY <2>1
  <1>6. g = Walk(g)
    BY <1>4, <1>5
  <1> HIDE DEF F
  <1>7. PICK h : h = Walk(h) /\ ReadFields(s, fields) = h[n]
    <2>1. ReadFields(s, fields) = (CHOOSE h : h = Walk(h))[n]
      BY <1>1 DEF ReadFields
    <2>2. (CHOOSE h : h = Walk(h)) = Walk(CHOOSE h : h = Walk(h))
      <3> HIDE DEF Walk
      <3> QED BY <1>6
    <2> HIDE DEF Walk
    <2> QED BY <2>1, <2>2
  <1>8. h[0] = s /\ \A k \in 1..n : h[k] = ReadField(h[k - 1], fields[k])
    BY <1>7
  <1>9. h \in [0..n -> StreamSet]
    <2> DEFINE T == {k \in 0..n : h[k] \in StreamSet}
    <2>1. 0 \in T
      BY <1>8
    <2>2. ASSUME NEW k \in 0..n - 1, k \in T PROVE k + 1 \in T
      <3>1. k + 1 \in 1..n /\ h[k] \in StreamSet /\ h[k + 1] = ReadField(h[k], fields[k + 1])
        BY <1>8, <2>2
      <3>2. h[k + 1] \in StreamSet
        BY <1>2, <3>1
      <3> QED BY <3>1, <3>2
    <2>3. 0..n \subseteq T
      <3> HIDE DEF T
      <3> QED BY <2>1, <2>2, UpTo, Zenon
    <2>4. \A k \in 0..n : h[k] \in StreamSet
      BY <2>3
    <2>5. PICK w : w = h /\ w = [k \in 0..n |-> IF k = 0 THEN s ELSE ReadField(h[k - 1], fields[k])]
      BY <1>7
    <2>6. w = [k \in 0..n |-> w[k]]
      BY <2>5
    <2> QED BY <2>4, <2>5, <2>6
  <1> HIDE DEF Walk
  <1> QED BY <1>1, <1>7, <1>8, <1>9 DEF ReadRun

\* A stream that has been read has kept its bytes, and everything it has
\* returned stays returned.
StillHas(g, k) ==
  /\ g[k].buff = g[0].buff /\ g[k].nSize = g[0].nSize
  /\ Len(g[k].got) = Len(g[0].got) + k
  /\ \A j \in 0..k : \A i \in 1..Len(g[0].got) + j : g[k].got[i] = g[j].got[i]

LEMMA RunKeeps ==
  ASSUME NEW g, NEW fields \in Seq(Field), ReadRun(g, fields)
  PROVE  \A k \in 0..Len(fields) : StillHas(g, k)
  <1>1. PICK n \in Nat : n = Len(fields)
    BY LenProperties
  <1>2. PICK m \in Nat : m = Len(g[0].got)
    <2>1. PICK s \in StreamSet : s = g[0]
      BY <1>1 DEF ReadRun
    <2>2. s.got \in Seq(Seq(Byte))
      BY Fieldwise
    <2>3. Len(s.got) \in Nat
      BY <2>2, LenProperties
    <2> QED BY <2>1, <2>3
  <1> DEFINE Kept(k) == /\ g[k].buff = g[0].buff /\ g[k].nSize = g[0].nSize
                        /\ Len(g[k].got) = m + k
                        /\ \A j \in 0..k : \A i \in 1..m + j : g[k].got[i] = g[j].got[i]
             T == {k \in 0..n : Kept(k)}
  <1>3. 0 \in T
    BY <1>2
  <1>4. ASSUME NEW k \in 0..n - 1, k \in T PROVE k + 1 \in T
    <2>1. Kept(k) /\ k + 1 \in 1..n
      BY <1>4
    <2>2. PICK s \in StreamSet : s = g[k]
      BY <1>1 DEF ReadRun
    <2>3. PICK q \in Field : q = fields[k + 1]
      BY <1>1, <2>1, ElementOfSeq
    <2>4. PICK r : r = g[k + 1] /\ r = ReadField(s, q)
      BY <1>1, <2>1, <2>2, <2>3 DEF ReadRun
    <2>5. PICK d \in Nat, v \in Seq(Byte) : Passed(s, r, d, v)
      BY <2>4, ReadFieldType
    <2>6. s.got \in Seq(Seq(Byte)) /\ Len(s.got) = m + k
      BY <2>1, <2>2, Fieldwise
    <2>7. Len(r.got) = m + k + 1 /\ \A i \in 1..m + k : r.got[i] = s.got[i]
      <3>1. PICK a \in Seq(Seq(Byte)) : a = s.got
        BY <2>6
      <3>2. Len(Append(a, v)) = Len(a) + 1 /\ \A i \in 1..Len(a) : Append(a, v)[i] = a[i]
        BY AppendProperties
      <3>3. r.got = Append(a, v) /\ Len(a) = m + k
        BY <2>5, <2>6, <3>1 DEF Passed
      <3> QED BY <3>1, <3>2, <3>3
    <2>8. \A j \in 0..k : \A i \in 1..m + j : r.got[i] = g[j].got[i]
      <3>1. ASSUME NEW j \in 0..k, NEW i \in 1..m + j PROVE r.got[i] = g[j].got[i]
        <4>1. i \in 1..m + k
          OBVIOUS
        <4>2. s.got[i] = g[j].got[i]
          BY <2>1, <2>2
        <4> QED BY <2>7, <4>1, <4>2
      <3> QED BY <3>1
    <2>9. r.buff = g[0].buff /\ r.nSize = g[0].nSize
      BY <2>1, <2>2, <2>5 DEF Passed
    <2>10. \A j \in 0..k + 1 : \A i \in 1..m + j : g[k + 1].got[i] = g[j].got[i]
      <3>1. ASSUME NEW j \in 0..k + 1, NEW i \in 1..m + j PROVE g[k + 1].got[i] = g[j].got[i]
        <4>1. CASE j = k + 1
          BY <4>1
        <4>2. CASE j \in 0..k
          BY <2>4, <2>8, <4>2
        <4> QED BY <4>1, <4>2
      <3> QED BY <3>1
    <2>11. Kept(k + 1)
      BY <2>4, <2>7, <2>9, <2>10
    <2> HIDE DEF Kept
    <2> QED BY <2>11
  <1>5. 0..n \subseteq T
    <2> HIDE DEF T
    <2> QED BY <1>3, <1>4, UpTo, Zenon
  <1>6. ASSUME NEW k \in 0..n PROVE StillHas(g, k)
    <2>1. Kept(k)
      BY <1>5
    <2> QED BY <1>2, <2>1 DEF StillHas
  <1> QED BY <1>1, <1>6

LEMMA RunGot ==
  ASSUME NEW g, NEW fields \in Seq(Field), ReadRun(g, fields), NEW k \in 1..Len(fields),
         NEW d, NEW v \in Seq(Byte), Passed(g[k - 1], g[k], d, v)
  PROVE  g[Len(fields)].got[Len(g[0].got) + k] = v
  <1>1. PICK n \in Nat : n = Len(fields)
    BY LenProperties
  <1>2. PICK s \in StreamSet : s = g[k - 1]
    BY <1>1 DEF ReadRun
  <1>3. PICK m \in Nat : m = Len(g[0].got)
    <2>1. PICK t \in StreamSet : t = g[0]
      BY <1>1 DEF ReadRun
    <2>2. t.got \in Seq(Seq(Byte))
      BY Fieldwise
    <2>3. Len(t.got) \in Nat
      BY <2>2, LenProperties
    <2> QED BY <2>1, <2>3
  <1>4. k \in 0..n /\ k - 1 \in 0..n /\ n \in 0..n
    BY <1>1
  <1>5. Len(s.got) = m + (k - 1) /\ \A i \in 1..m + k : g[n].got[i] = g[k].got[i]
    <2>1. StillHas(g, k - 1) /\ StillHas(g, n)
      BY <1>1, <1>4, RunKeeps
    <2>2. Len(s.got) = m + (k - 1)
      BY <1>2, <1>3, <2>1 DEF StillHas
    <2>3. k \in 0..n
      BY <1>4
    <2>4. \A i \in 1..m + k : g[n].got[i] = g[k].got[i]
      BY <1>3, <2>1, <2>3, Zenon DEF StillHas
    <2> QED BY <2>2, <2>4
  <1>6. PICK a \in Seq(Seq(Byte)) : a = s.got
    BY Fieldwise
  <1>7. Append(a, v)[Len(a) + 1] = v /\ Len(a) + 1 = m + k
    <2>1. Append(a, v)[Len(a) + 1] = v
      BY <1>6, AppendProperties
    <2>2. Len(a) = m + (k - 1)
      BY <1>5, <1>6, Zenon
    <2>3. m + (k - 1) + 1 = m + k
      BY <1>3
    <2> QED BY <2>1, <2>2, <2>3, Zenon
  <1>8. g[k].got = Append(a, v)
    BY <1>2, <1>6 DEF Passed
  <1>9. m + k \in 1..m + k
    BY <1>3
  <1>10. g[n].got[m + k] = v
    BY <1>5, <1>7, <1>8, <1>9, Zenon
  <1> QED BY <1>1, <1>3, <1>10, Zenon

\* The fields are in b one behind the other, the k-th from pos[k - 1] to pos[k].
Layout(b, fields, pos) ==
  /\ pos \in [0..Len(fields) -> Nat]
  /\ \A k \in 1..Len(fields) : /\ pos[k] = pos[k - 1] + Extent(fields[k])
                               /\ Laid(b, pos[k - 1], fields[k])

AllFields(fields) == fields \in Seq(Field) /\ \A k \in 1..Len(fields) : IsField(fields[k])

LEMMA LayoutGrows ==
  ASSUME NEW b, NEW fields, AllFields(fields), NEW pos, Layout(b, fields, pos)
  PROVE  \A k \in 0..Len(fields) : \A j \in 0..k : pos[j] <= pos[k]
  <1>1. PICK n \in Nat : n = Len(fields)
    BY LenProperties DEF AllFields
  <1>2. pos \in [0..n -> Nat] /\ \A k \in 1..n : pos[k - 1] <= pos[k]
    <2>1. pos \in [0..n -> Nat]
      BY <1>1 DEF Layout
    <2>2. ASSUME NEW k \in 1..n PROVE pos[k - 1] <= pos[k]
      <3>1. Extent(fields[k]) \in Nat /\ pos[k] = pos[k - 1] + Extent(fields[k])
        BY <1>1, FieldFacts DEF AllFields, Layout
      <3> QED BY <2>1, <3>1
    <2> QED BY <2>1, <2>2
  <1> DEFINE T == {k \in 0..n : \A j \in 0..k : pos[j] <= pos[k]}
  <1>3. 0 \in T
    BY <1>2
  <1>4. ASSUME NEW k \in 0..n - 1, k \in T PROVE k + 1 \in T
    <2>1. pos[k] <= pos[k + 1] /\ pos[k] \in Nat /\ pos[k + 1] \in Nat
      BY <1>2
    <2>2. ASSUME NEW j \in 0..k + 1 PROVE pos[j] <= pos[k + 1]
      <3>1. CASE j = k + 1
        BY <2>1, <3>1
      <3>2. CASE j \in 0..k
        <4>1. pos[j] <= pos[k] /\ pos[j] \in Nat
          BY <1>2, <1>4, <3>2
        <4> QED BY <2>1, <4>1
      <3> QED BY <3>1, <3>2
    <2> QED BY <2>2
  <1>5. 0..n \subseteq T
    <2> HIDE DEF T
    <2> QED BY <1>3, <1>4, UpTo, Zenon
  <1> QED BY <1>1, <1>5

\* Reading back what was written, up to the first field that is not accepted;
\* the readers may be more than the fields.
Arrives(g, pos, rd, w) ==
  \A k \in 1..Len(w) :
    (\A j \in 1..k - 1 : Accepts(rd[j], w[j])) =>
      /\ g[k - 1].nReadPos = pos[k - 1]
      /\ IF Accepts(rd[k], w[k]) THEN Passed(g[k - 1], g[k], Extent(w[k]), w[k].value)
                                 ELSE Passed(g[k - 1], g[k], 0, <<>>)

LEMMA Arrive ==
  ASSUME NEW w, AllFields(w), NEW rd \in Seq(Field), Len(w) <= Len(rd),
         \A k \in 1..Len(w) : Reads(rd[k], w[k]),
         NEW g, ReadRun(g, rd), NEW pos, Layout(g[0].buff, w, pos),
         pos[0] = g[0].nReadPos, pos[Len(w)] <= g[0].nSize
  PROVE  Arrives(g, pos, rd, w)
  <1>1. PICK n \in Nat : n = Len(w)
    BY LenProperties DEF AllFields
  <1>0. PICK size \in Nat : size = Len(rd) /\ n <= size
    BY <1>1, LenProperties
  <1>2. /\ g \in [0..size -> StreamSet] /\ pos \in [0..n -> Nat]
        /\ \A k \in 1..n : pos[k] = pos[k - 1] + Extent(w[k]) /\ Laid(g[0].buff, pos[k - 1], w[k])
        /\ \A k \in 1..n : g[k] = ReadField(g[k - 1], rd[k])
        /\ \A k \in 0..n : pos[k] <= pos[n]
    <2>1. \A k \in 0..Len(w) : \A j \in 0..k : pos[j] <= pos[k]
      BY LayoutGrows
    <2>2. \A k \in 0..n : pos[k] <= pos[n]
      BY <1>1, <2>1
    <2>3. /\ pos \in [0..n -> Nat]
          /\ \A k \in 1..n : pos[k] = pos[k - 1] + Extent(w[k]) /\ Laid(g[0].buff, pos[k - 1], w[k])
      BY <1>1 DEF Layout
    <2>4. g \in [0..size -> StreamSet] /\ \A k \in 1..n : g[k] = ReadField(g[k - 1], rd[k])
      BY <1>0 DEF ReadRun
    <2> QED BY <2>2, <2>3, <2>4
  <1>3. \A k \in 0..n : g[k].buff = g[0].buff /\ g[k].nSize = g[0].nSize
    <2>1. \A k \in 0..Len(rd) : StillHas(g, k)
      BY RunKeeps
    <2>2. \A k \in 0..n : k \in 0..Len(rd)
      BY <1>0
    <2> QED BY <2>1, <2>2, Zenon DEF StillHas
  <1>4. g[0].nSize \in Nat /\ pos[n] <= g[0].nSize
    <2>1. g[0] \in StreamSet
      BY <1>2
    <2> QED BY <1>1, <2>1, Fieldwise
  <1> DEFINE Up(k) == \A j \in 1..k : Accepts(rd[j], w[j])
             T == {k \in 0..n : Up(k) => g[k].nReadPos = pos[k]}
  <1>5. ASSUME NEW k \in 1..n, g[k - 1].nReadPos = pos[k - 1]
        PROVE  IF Accepts(rd[k], w[k]) THEN Passed(g[k - 1], g[k], Extent(w[k]), w[k].value)
                                       ELSE Passed(g[k - 1], g[k], 0, <<>>)
    <2>1. PICK s \in StreamSet : s = g[k - 1]
      <3>1. k - 1 \in 0..size
        BY <1>0
      <3> QED BY <1>2, <3>1
    <2>2. /\ IsField(w[k]) /\ Reads(rd[k], w[k]) /\ g[k] = ReadField(s, rd[k])
      BY <1>1, <1>2, <2>1 DEF AllFields
    <2>3. Laid(s.buff, s.nReadPos, w[k])
      BY <1>2, <1>3, <1>5, <2>1
    <2>4. s.nReadPos + Extent(w[k]) <= s.nSize
      <3>1. pos[k] = pos[k - 1] + Extent(w[k]) /\ pos[k] <= pos[n] /\ pos[k] \in Nat /\ pos[n] \in Nat
        BY <1>2
      <3>2. s.nSize = g[0].nSize /\ s.nReadPos = pos[k - 1]
        BY <1>3, <1>5, <2>1
      <3> QED BY <1>4, <3>1, <3>2
    <2> QED BY <2>1, <2>2, <2>3, <2>4, ReadOne
  <1>6. 0 \in T
    OBVIOUS
  <1>7. ASSUME NEW k \in 0..n - 1, k \in T PROVE k + 1 \in T
    <2>1. ASSUME Up(k + 1) PROVE g[k + 1].nReadPos = pos[k + 1]
      <3>1. Up(k) /\ Accepts(rd[k + 1], w[k + 1]) /\ k + 1 \in 1..n
        BY <2>1
      <3>2. g[k].nReadPos = pos[k]
        BY <1>7, <3>1
      <3>3. Passed(g[k], g[k + 1], Extent(w[k + 1]), w[k + 1].value)
        <4>1. k + 1 \in 1..n /\ (k + 1) - 1 = k
          BY <3>1
        <4> QED BY <1>5, <3>1, <3>2, <4>1
      <3>4. pos[k + 1] = pos[k] + Extent(w[k + 1])
        BY <1>2, <3>1
      <3> QED BY <3>2, <3>3, <3>4 DEF Passed
    <2> QED BY <2>1
  <1>8. 0..n \subseteq T
    <2> HIDE DEF T
    <2> QED BY <1>6, <1>7, UpTo, Zenon
  <1>9. ASSUME NEW k \in 1..n, Up(k - 1) PROVE g[k - 1].nReadPos = pos[k - 1]
    BY <1>8, <1>9
  <1>10. \A k \in 1..n : Up(k - 1) =>
           /\ g[k - 1].nReadPos = pos[k - 1]
           /\ IF Accepts(rd[k], w[k]) THEN Passed(g[k - 1], g[k], Extent(w[k]), w[k].value)
                                      ELSE Passed(g[k - 1], g[k], 0, <<>>)
    <2> HIDE DEF Up
    <2> QED BY <1>5, <1>9, Zenon
  <1> QED BY <1>1, <1>10, Zenon DEF Arrives

-----------------------------------------------------------------------------
(* Writing *)

\* r is s after the bytes v were written behind the first p.
Placed(s, r, p, v) ==
  /\ r \in StreamSet /\ r.nSize = s.nSize /\ r.nReadPos = s.nReadPos /\ r.got = s.got
  /\ r.nWritePos = p + Len(v) /\ Holds(r.buff, p, v)
  /\ \A i \in 1..s.nSize : (i <= p \/ p + Len(v) < i) => r.buff[i] = s.buff[i]

LEMMA WriteIs ==
  ASSUME NEW s \in StreamSet, NEW v \in Seq(Byte), Int32(Len(v)) = Len(v)
  PROVE  IF s.nWritePos + Len(v) <= s.nSize THEN Placed(s, Write(s, v), s.nWritePos, v)
                                            ELSE Write(s, v) = s
  <1>1. /\ s \in StreamType /\ s.buff \in Seq(Byte) /\ s.nSize \in Nat /\ Len(s.buff) = s.nSize
        /\ s.nWritePos \in Nat /\ Len(v) \in Nat
    BY Fieldwise, LenProperties DEF StreamSet
  <1>2. canWrite(s, Len(v)) <=> s.nWritePos + Len(v) <= s.nSize
    BY <1>1 DEF canWrite
  <1>3. CASE s.nWritePos + Len(v) <= s.nSize
    <2>1. PICK p \in Nat, n \in Nat : p = s.nWritePos /\ n = Len(v)
      BY <1>1
    <2> DEFINE byte(i) == IF i - p \in 1..n THEN v[i - p] ELSE s.buff[i]
    <2>2. ASSUME NEW i \in 1..s.nSize PROVE byte(i) \in Byte
      <3>1. s.buff[i] \in Byte
        BY <1>1, ElementOfSeq
      <3>2. i - p \in 1..n => v[i - p] \in Byte
        BY <2>1, ElementOfSeq
      <3> QED BY <3>1, <3>2
    <2>3. PICK b : b = [i \in 1..s.nSize |-> byte(i)]
      OBVIOUS
    <2>4. b \in Seq(Byte) /\ Len(b) = s.nSize
      <3>1. [i \in 1..s.nSize |-> byte(i)] \in Seq(Byte)
        <4> HIDE DEF byte
        <4> QED BY <1>1, <2>2, IsASeq
      <3> HIDE DEF byte
      <3> QED BY <1>1, <2>3, <3>1
    <2>5. \A i \in 1..s.nSize : b[i] = byte(i)
      BY <2>3
    <2>6. PICK t \in StreamType : t = [s EXCEPT !.buff = b, !.nWritePos = p + n]
      <3>1. p + n \in Nat
        OBVIOUS
      <3> QED BY <1>1, <2>4, <3>1 DEF StreamType
    <2>7. /\ t.buff = b /\ t.nSize = s.nSize /\ t.nReadPos = s.nReadPos /\ t.got = s.got
          /\ t.nWritePos = p + n
      BY <1>1, <2>6 DEF StreamType
    <2>8. t \in StreamSet
      BY <2>4, <2>7 DEF StreamSet
    <2>9. Write(s, v) = t
      <3>1. Put(s, v) = [s EXCEPT !.buff = b]
        <4>1. DOMAIN s.buff = 1..s.nSize
          BY <1>1, LenProperties
        <4>2. b = [i \in DOMAIN s.buff |-> IF i - s.nWritePos \in 1..Len(v)
                                           THEN v[i - s.nWritePos] ELSE s.buff[i]]
          BY <2>1, <2>3, <4>1
        <4> QED BY <4>2 DEF Put
      <3>2. push(Put(s, v), Len(v)) = t
        BY <1>1, <2>1, <2>6, <3>1 DEF push, StreamType
      <3> QED BY <1>2, <1>3, <3>2 DEF Write
    <2>10. Holds(b, p, v)
      <3>1. ASSUME NEW i \in 1..n PROVE b[p + i] = v[i]
        <4>1. p + i \in 1..s.nSize /\ (p + i) - p = i
          BY <1>1, <1>3, <2>1
        <4> QED BY <2>5, <4>1
      <3> QED BY <2>1, <3>1 DEF Holds
    <2>11. ASSUME NEW i \in 1..s.nSize, i <= p \/ p + n < i PROVE b[i] = s.buff[i]
      <3>1. i - p \notin 1..n
        BY <1>1, <2>11
      <3> QED BY <2>5, <3>1
    <2>12. Placed(s, t, p, v)
      BY <2>1, <2>7, <2>8, <2>10, <2>11 DEF Placed
    <2> QED BY <1>3, <2>1, <2>9, <2>12
  <1>4. CASE ~(s.nWritePos + Len(v) <= s.nSize)
    BY <1>2, <1>4 DEF Write
  <1> QED BY <1>3, <1>4

\* r is s after the field f was written.
Written(s, r, f) ==
  /\ r \in StreamSet /\ r.nSize = s.nSize /\ r.nReadPos = s.nReadPos /\ r.got = s.got
  /\ r.nWritePos = s.nWritePos + Extent(f) /\ Laid(r.buff, s.nWritePos, f)
  /\ \A i \in 1..s.nWritePos : r.buff[i] = s.buff[i]

\* A field is written whole, or not at all.
LEMMA WriteOne ==
  ASSUME NEW s \in StreamSet, s.nWritePos <= s.nSize, NEW f, IsField(f)
  PROVE  IF s.nWritePos + Extent(f) <= s.nSize THEN Written(s, WriteField(s, f), f)
                                               ELSE WriteField(s, f) = s
  <1>1. /\ s.nSize \in Nat /\ s.nWritePos \in Nat
        /\ f.value \in Seq(Byte) /\ Len(f.value) \in Nat /\ Int32(Len(f.value)) = Len(f.value)
        /\ Int32(Len(f.value) + 4) = Len(f.value) + 4 /\ f.n \in Nat
    BY Fieldwise, FieldFacts
  <1>2. CASE f.as = "scalar"
    <2>1. WriteField(s, f) = Write(s, f.value) /\ Extent(f) = Len(f.value)
      BY <1>2 DEF WriteField, Extent
    <2>2. CASE s.nWritePos + Len(f.value) <= s.nSize
      <3>1. PICK r : r = Write(s, f.value) /\ Placed(s, r, s.nWritePos, f.value)
        BY <1>1, <2>2, WriteIs
      <3>2. Written(s, r, f)
        <4>1. \A i \in 1..s.nWritePos : r.buff[i] = s.buff[i]
          BY <1>1, <2>2, <3>1 DEF Placed
        <4>2. Laid(r.buff, s.nWritePos, f)
          BY <1>2, <3>1 DEF Placed, Laid
        <4> QED BY <2>1, <3>1, <4>1, <4>2 DEF Placed, Written
      <3> QED BY <2>1, <2>2, <3>1, <3>2
    <2>3. CASE ~(s.nWritePos + Len(f.value) <= s.nSize)
      BY <1>1, <2>1, <2>3, WriteIs
    <2> QED BY <2>2, <2>3
  <1>3. CASE f.as # "scalar"
    <2>1. WriteField(s, f) = WriteArray(s, f.n, f.value) /\ Extent(f) = 4 + Len(f.value)
      BY <1>3 DEF WriteField, Extent
    <2>2. PICK c \in Seq(Byte) : c = Bytes(f.n, 4) /\ Len(c) = 4 /\ Int32(Len(c)) = Len(c)
      <3>1. Bytes(f.n, 4) \in Seq(Byte) /\ Len(Bytes(f.n, 4)) = 4
        BY <1>1, BytesFacts
      <3>2. Int32(4) = 4
        BY Bounds
      <3> QED BY <3>1, <3>2
    <2>3. canWrite(s, Len(f.value) + 4) <=> s.nWritePos + Extent(f) <= s.nSize
      BY <1>1, <2>1 DEF canWrite
    <2>4. CASE s.nWritePos + Extent(f) <= s.nSize
      <3>1. WriteField(s, f) = Write(Write(s, c), f.value)
        BY <2>1, <2>2, <2>3, <2>4 DEF WriteArray
      <3>2. PICK t : t = Write(s, c) /\ Placed(s, t, s.nWritePos, c)
        <4>1. s.nWritePos + 4 <= s.nSize
          BY <1>1, <2>1, <2>4
        <4>2. s.nWritePos + Len(c) <= s.nSize
          BY <2>2, <4>1
        <4> QED BY <2>2, <4>2, WriteIs
      <3>3. t \in StreamSet /\ t.nSize = s.nSize /\ t.nWritePos = s.nWritePos + 4
        BY <2>2, <3>2 DEF Placed
      <3>4. PICK r : r = Write(t, f.value) /\ Placed(t, r, t.nWritePos, f.value)
        <4>1. t.nWritePos + Len(f.value) <= t.nSize
          BY <1>1, <2>1, <2>4, <3>3
        <4> QED BY <1>1, <3>3, <4>1, WriteIs
      <3>5. \A i \in 1..s.nWritePos + 4 : r.buff[i] = t.buff[i]
        <4>1. ASSUME NEW i \in 1..s.nWritePos + 4 PROVE r.buff[i] = t.buff[i]
          <5>1. i \in 1..t.nSize /\ i <= t.nWritePos
            BY <1>1, <2>1, <2>4, <3>3
          <5> QED BY <3>4, <5>1 DEF Placed
        <4> QED BY <4>1
      <3>6. \A i \in 1..s.nWritePos : t.buff[i] = s.buff[i]
        <4>1. ASSUME NEW i \in 1..s.nWritePos PROVE t.buff[i] = s.buff[i]
          <5>1. i \in 1..s.nSize /\ i <= s.nWritePos
            BY <1>1, <2>1, <2>4
          <5> QED BY <3>2, <5>1 DEF Placed
        <4> QED BY <4>1
      <3>7. Holds(r.buff, s.nWritePos, c)
        <4>1. Holds(t.buff, s.nWritePos, c)
          BY <3>2 DEF Placed
        <4>2. ASSUME NEW i \in 1..4 PROVE r.buff[s.nWritePos + i] = c[i]
          <5>1. t.buff[s.nWritePos + i] = c[i]
            BY <2>2, <4>1 DEF Holds
          <5>2. s.nWritePos + i \in 1..s.nWritePos + 4
            BY <1>1
          <5> QED BY <3>5, <5>1, <5>2
        <4> QED BY <2>2, <4>2 DEF Holds
      <3>8. Laid(r.buff, s.nWritePos, f)
        BY <1>3, <2>2, <3>3, <3>4, <3>7 DEF Placed, Laid
      <3>9. \A i \in 1..s.nWritePos : r.buff[i] = s.buff[i]
        <4>1. ASSUME NEW i \in 1..s.nWritePos PROVE r.buff[i] = s.buff[i]
          <5>1. i \in 1..s.nWritePos + 4
            BY <1>1
          <5> QED BY <3>5, <3>6, <5>1
        <4> QED BY <4>1
      <3>10. r \in StreamSet /\ r.nSize = s.nSize /\ r.nReadPos = s.nReadPos /\ r.got = s.got
        BY <3>2, <3>4 DEF Placed
      <3>11. r.nWritePos = s.nWritePos + Extent(f)
        <4>1. r.nWritePos = t.nWritePos + Len(f.value)
          BY <3>4 DEF Placed
        <4>2. PICK p \in Nat, n \in Nat : p = s.nWritePos /\ n = Len(f.value)
          BY <1>1
        <4>3. r.nWritePos = (p + 4) + n /\ s.nWritePos + Extent(f) = p + (4 + n)
          BY <2>1, <3>3, <4>1, <4>2
        <4> QED BY <4>3
      <3>12. Written(s, r, f)
        BY <3>8, <3>9, <3>10, <3>11 DEF Written
      <3> QED BY <2>4, <3>1, <3>2, <3>4, <3>12
    <2>5. CASE ~(s.nWritePos + Extent(f) <= s.nSize)
      BY <2>1, <2>3, <2>5 DEF WriteArray
    <2> QED BY <2>4, <2>5
  <1> QED BY <1>2, <1>3

-----------------------------------------------------------------------------
(* A stream, and a message, that holds fields *)

LEMMA LaidMoves ==
  ASSUME NEW f, IsField(f), NEW p \in Nat, NEW b, NEW c, Laid(b, p, f),
         \A i \in p + 1..p + Extent(f) : c[i] = b[i]
  PROVE  Laid(c, p, f)
  <1>1. Len(f.value) \in Nat /\ f.n \in Nat
    BY FieldFacts
  <1>2. CASE f.as = "scalar"
    <2>1. ASSUME NEW i \in 1..Len(f.value) PROVE c[p + i] = f.value[i]
      <3>1. p + i \in p + 1..p + Extent(f)
        BY <1>1, <1>2 DEF Extent
      <3> QED BY <1>2, <3>1 DEF Laid, Holds
    <2> QED BY <1>2, <2>1 DEF Laid, Holds
  <1>3. CASE f.as # "scalar"
    <2>1. Len(Bytes(f.n, 4)) = 4
      BY <1>1, BytesFacts
    <2>2. ASSUME NEW i \in 1..4 PROVE c[p + i] = Bytes(f.n, 4)[i]
      <3>1. p + i \in p + 1..p + Extent(f)
        BY <1>1, <1>3 DEF Extent
      <3>2. b[p + i] = Bytes(f.n, 4)[i]
        BY <1>3, <2>1 DEF Laid, Holds
      <3> QED BY <3>1, <3>2
    <2>3. ASSUME NEW i \in 1..Len(f.value) PROVE c[(p + 4) + i] = f.value[i]
      <3>1. (p + 4) + i \in p + 1..p + Extent(f)
        BY <1>1, <1>3 DEF Extent
      <3>2. b[(p + 4) + i] = f.value[i]
        BY <1>3 DEF Laid, Holds
      <3> QED BY <3>1, <3>2
    <2> QED BY <1>3, <2>1, <2>2, <2>3 DEF Laid, Holds
  <1> QED BY <1>2, <1>3

\* A layout is one of every buffer that has the same bytes.
LEMMA LayoutMoves ==
  ASSUME NEW fields, AllFields(fields), NEW b, NEW c, NEW pos, Layout(b, fields, pos),
         \A i \in pos[0] + 1..pos[Len(fields)] : c[i] = b[i]
  PROVE  Layout(c, fields, pos)
  <1>1. PICK n \in Nat : n = Len(fields)
    BY LenProperties DEF AllFields
  <1>2. pos \in [0..n -> Nat]
    BY <1>1 DEF Layout
  <1>3. \A k \in 0..n : pos[0] <= pos[k] /\ pos[k] <= pos[n]
    <2>1. \A k \in 0..n : \A j \in 0..k : pos[j] <= pos[k]
      BY <1>1, LayoutGrows
    <2> QED BY <1>1, <2>1
  <1>4. ASSUME NEW k \in 1..n PROVE Laid(c, pos[k - 1], fields[k])
    <2>1. PICK f : f = fields[k] /\ IsField(f) /\ Laid(b, pos[k - 1], f)
                   /\ pos[k] = pos[k - 1] + Extent(f)
      BY <1>1 DEF AllFields, Layout
    <2>2. PICK p \in Nat, q \in Nat : p = pos[k - 1] /\ q = pos[k]
      BY <1>2
    <2>3. pos[0] <= p /\ q <= pos[n] /\ pos[0] \in Nat /\ pos[n] \in Nat
      BY <1>2, <1>3, <2>2
    <2>4. \A i \in p + 1..p + Extent(f) : c[i] = b[i]
      <3>1. p + Extent(f) = q
        BY <2>1, <2>2
      <3> QED BY <1>1, <2>3, <3>1
    <2>5. Laid(c, p, f)
      BY <2>1, <2>2, <2>4, LaidMoves
    <2> QED BY <2>1, <2>2, <2>5
  <1> QED BY <1>1, <1>4 DEF Layout

StreamHolds(s, fields) ==
  /\ s \in StreamSet /\ s.nReadPos = 0 /\ s.got = <<>>
  /\ 2 <= s.nWritePos /\ s.nWritePos <= s.nSize /\ s.nSize <= MaxUint16
  /\ AllFields(fields)
  /\ \E pos : /\ Layout(s.buff, fields, pos)
              /\ pos[0] = 2 /\ pos[Len(fields)] = s.nWritePos

LEMMA CELLStreamIs ==
  ASSUME NEW b \in Seq(Byte)
  PROVE  /\ CELLStream(b) \in StreamSet /\ CELLStream(b).buff = b
         /\ CELLStream(b).nSize = Len(b) /\ CELLStream(b).nWritePos = 0
         /\ CELLStream(b).nReadPos = 0 /\ CELLStream(b).got = <<>>
  <1>1. Len(b) \in Nat /\ <<>> \in Seq(Seq(Byte))
    BY LenProperties, EmptySeq
  <1>2. CELLStream(b) \in StreamType
    BY <1>1 DEF CELLStream, StreamType
  <1>3. /\ CELLStream(b).buff = b /\ CELLStream(b).nSize = Len(b)
        /\ CELLStream(b).nWritePos = 0 /\ CELLStream(b).nReadPos = 0
        /\ CELLStream(b).got = <<>>
    BY DEF CELLStream
  <1> QED BY <1>2, <1>3 DEF StreamSet

LEMMA HoldsNone ==
  ASSUME NEW size \in 2..MaxUint16
  PROVE  StreamHolds(CELLWriteStream(size), <<>>) /\ CELLWriteStream(size).nSize = size
         /\ CELLWriteStream(size).nWritePos = 2
  <1>1. size \in Nat /\ 2 <= size /\ size <= MaxUint16
    BY Bounds
  <1>2. Zeros(size) \in Seq(Byte) /\ Len(Zeros(size)) = size
    BY <1>1, ZerosType
  <1>3. PICK s \in StreamSet :
          s = CELLStream(Zeros(size)) /\ s.nSize = size /\ s.nWritePos = 0 /\ s.nReadPos = 0
          /\ s.got = <<>>
    BY <1>2, CELLStreamIs
  <1>4. PICK v \in Seq(Byte) : v = Zeros(2) /\ Len(v) = 2 /\ Int32(Len(v)) = Len(v)
    <2>1. Zeros(2) \in Seq(Byte) /\ Len(Zeros(2)) = 2
      BY ZerosType
    <2>2. Int32(2) = 2
      BY Bounds
    <2> QED BY <2>1, <2>2
  <1>5. PICK r : r = CELLWriteStream(size) /\ Placed(s, r, 0, v)
    <2>1. s.nWritePos + Len(v) <= s.nSize
      <3>1. s.nWritePos + 2 <= s.nSize
        BY <1>1, <1>3
      <3> QED BY <1>4, <3>1
    <2>2. Placed(s, Write(s, v), s.nWritePos, v)
      BY <1>4, <2>1, WriteIs
    <2> QED BY <1>3, <1>4, <2>2 DEF CELLWriteStream
  <1>6. r \in StreamSet /\ r.nSize = size /\ r.nWritePos = 2 /\ r.nReadPos = 0 /\ r.got = <<>>
    <2>1. r.nWritePos = 0 + Len(v)
      BY <1>5 DEF Placed
    <2> QED BY <1>3, <1>4, <1>5, <2>1 DEF Placed
  <1>7. AllFields(<<>>)
    <2>1. <<>> \in Seq(Field) /\ Len(<<>>) = 0
      BY EmptySeq
    <2> QED BY <2>1 DEF AllFields
  <1>8. Layout(r.buff, <<>>, [k \in 0..0 |-> 2])
    <2>1. Len(<<>>) = 0
      OBVIOUS
    <2> QED BY <2>1 DEF Layout
  <1>9. \E pos : Layout(r.buff, <<>>, pos) /\ pos[0] = 2 /\ pos[Len(<<>>)] = r.nWritePos
    <2>1. PICK pos : pos = [k \in 0..0 |-> 2]
      OBVIOUS
    <2>2. pos[0] = 2 /\ Len(<<>>) = 0
      BY <2>1
    <2> QED BY <1>6, <1>8, <2>1, <2>2
  <1> QED BY <1>1, <1>5, <1>6, <1>7, <1>9 DEF StreamHolds

\* A write that fits adds a field, and one that does not leaves the stream alone.
LEMMA HoldsNext ==
  ASSUME NEW s, NEW fields, StreamHolds(s, fields), NEW f, IsField(f)
  PROVE  IF s.nWritePos + Extent(f) <= s.nSize
         THEN /\ StreamHolds(WriteField(s, f), Append(fields, f))
              /\ WriteField(s, f).nWritePos = s.nWritePos + Extent(f)
              /\ WriteField(s, f).nSize = s.nSize /\ WriteField(s, f) # s
         ELSE WriteField(s, f) = s
  <1>1. /\ s \in StreamSet /\ s.nReadPos = 0 /\ s.got = <<>> /\ AllFields(fields)
        /\ 2 <= s.nWritePos /\ s.nWritePos <= s.nSize /\ s.nSize <= MaxUint16
        /\ s.nSize \in Nat /\ s.nWritePos \in Nat /\ Extent(f) \in Nat /\ Extent(f) > 0
    BY Fieldwise, FieldFacts DEF StreamHolds
  <1>2. CASE s.nWritePos + Extent(f) <= s.nSize
    <2>1. PICK r : r = WriteField(s, f) /\ Written(s, r, f)
      BY <1>1, <1>2, WriteOne
    <2>2. PICK pos : Layout(s.buff, fields, pos) /\ pos[0] = 2 /\ pos[Len(fields)] = s.nWritePos
      BY DEF StreamHolds
    <2>3. PICK n \in Nat : n = Len(fields)
      BY <1>1, LenProperties DEF AllFields
    <2>4. Layout(r.buff, fields, pos)
      <3>1. \A i \in pos[0] + 1..pos[Len(fields)] : r.buff[i] = s.buff[i]
        BY <1>1, <2>1, <2>2 DEF Written
      <3> QED BY <1>1, <2>2, <3>1, LayoutMoves
    <2>5. PICK more \in Seq(Field) : /\ more = Append(fields, f) /\ Len(more) = n + 1
                                     /\ more[n + 1] = f /\ \A k \in 1..n : more[k] = fields[k]
      <3>1. f \in Field
        BY FieldFacts
      <3>2. fields \in Seq(Field)
        BY <1>1 DEF AllFields
      <3>3. /\ Append(fields, f) \in Seq(Field) /\ Len(Append(fields, f)) = Len(fields) + 1
            /\ \A k \in 1..Len(fields) : Append(fields, f)[k] = fields[k]
            /\ Append(fields, f)[Len(fields) + 1] = f
        BY <3>1, <3>2, AppendProperties
      <3> QED BY <2>3, <3>3
    <2>6. AllFields(more)
      <3>1. ASSUME NEW k \in 1..n + 1 PROVE IsField(more[k])
        <4>1. CASE k = n + 1
          BY <2>5, <4>1
        <4>2. CASE k \in 1..n
          BY <1>1, <2>3, <2>5, <4>2 DEF AllFields
        <4> QED BY <4>1, <4>2
      <3> QED BY <2>5, <3>1 DEF AllFields
    <2> DEFINE at == [k \in 0..n + 1 |-> IF k <= n THEN pos[k] ELSE r.nWritePos]
    <2>7. r.nWritePos = s.nWritePos + Extent(f) /\ r.nWritePos \in Nat /\ r \in StreamSet
      BY <1>1, <2>1 DEF Written
    <2>8. at \in [0..n + 1 -> Nat] /\ at[0] = 2 /\ at[n + 1] = r.nWritePos
      BY <2>2, <2>3, <2>7 DEF Layout
    <2>9. ASSUME NEW k \in 1..n + 1
          PROVE  at[k] = at[k - 1] + Extent(more[k]) /\ Laid(r.buff, at[k - 1], more[k])
      <3>1. CASE k = n + 1
        <4>1. at[k] = r.nWritePos /\ at[k - 1] = s.nWritePos /\ more[k] = f
          BY <2>2, <2>3, <2>5, <3>1
        <4> HIDE DEF at
        <4> QED BY <2>1, <2>7, <4>1 DEF Written
      <3>2. CASE k \in 1..n
        <4>1. at[k] = pos[k] /\ at[k - 1] = pos[k - 1] /\ more[k] = fields[k]
          BY <2>5, <3>2
        <4> HIDE DEF at
        <4> QED BY <2>3, <2>4, <3>2, <4>1 DEF Layout
      <3> QED BY <3>1, <3>2
    <2> HIDE DEF at
    <2>10. Layout(r.buff, more, at) /\ at[Len(more)] = r.nWritePos
      BY <2>5, <2>8, <2>9 DEF Layout
    <2>11. /\ r.nSize = s.nSize /\ r.nReadPos = 0 /\ r.got = <<>>
           /\ 2 <= r.nWritePos /\ r.nWritePos <= r.nSize /\ r # s
      BY <1>1, <1>2, <2>1, <2>7 DEF Written
    <2>12. StreamHolds(r, more)
      BY <1>1, <2>6, <2>7, <2>8, <2>10, <2>11 DEF StreamHolds
    <2> QED BY <1>2, <2>1, <2>5, <2>7, <2>11, <2>12
  <1>3. CASE ~(s.nWritePos + Extent(f) <= s.nSize)
    BY <1>1, <1>3, WriteOne
  <1> QED BY <1>2, <1>3

MessageHolds(m, fields) ==
  /\ m \in Seq(Byte) /\ Len(m) \in 2..MaxUint16 /\ Holds(m, 0, Bytes(Len(m), 2))
  /\ AllFields(fields)
  /\ \E pos : Layout(m, fields, pos) /\ pos[0] = 2 /\ pos[Len(fields)] = Len(m)

LEMMA setWritePosIs ==
  ASSUME NEW s \in StreamSet, NEW n \in Nat
  PROVE  /\ setWritePos(s, n) \in StreamSet /\ setWritePos(s, n).buff = s.buff
         /\ setWritePos(s, n).nSize = s.nSize /\ setWritePos(s, n).nWritePos = n
         /\ setWritePos(s, n).nReadPos = s.nReadPos /\ setWritePos(s, n).got = s.got
  <1>1. s \in StreamType /\ Len(s.buff) = s.nSize
    BY DEF StreamSet
  <1>2. PICK t \in StreamType : t = [s EXCEPT !.nWritePos = n]
    BY <1>1 DEF StreamType
  <1>3. /\ t.buff = s.buff /\ t.nSize = s.nSize /\ t.nWritePos = n
        /\ t.nReadPos = s.nReadPos /\ t.got = s.got
    BY <1>1, <1>2 DEF StreamType
  <1>4. t \in StreamSet
    BY <1>1, <1>3 DEF StreamSet
  <1> QED BY <1>2, <1>3, <1>4 DEF setWritePos

\* What a finished stream sends holds its own length, and then its fields.
LEMMA SentHolds ==
  ASSUME NEW s, NEW fields, StreamHolds(s, fields)
  PROVE  MessageHolds(Sent(finsh(s)), fields) /\ Len(Sent(finsh(s))) = s.nWritePos
  <1>1. /\ s \in StreamSet /\ AllFields(fields)
        /\ 2 <= s.nWritePos /\ s.nWritePos <= s.nSize /\ s.nSize <= MaxUint16
        /\ s.nSize \in Nat /\ s.nWritePos \in Nat
    BY Fieldwise DEF StreamHolds
  <1>2. PICK n \in Nat : n = s.nWritePos /\ n \in 2..MaxUint16
    BY <1>1, Bounds
  <1>3. PICK v \in Seq(Byte) : v = Bytes(n, 2) /\ Len(v) = 2 /\ Int32(Len(v)) = Len(v)
    <2>1. Bytes(n, 2) \in Seq(Byte) /\ Len(Bytes(n, 2)) = 2
      BY BytesFacts
    <2>2. Int32(2) = 2
      BY Bounds
    <2> QED BY <2>1, <2>2
  <1>4. PICK t \in StreamSet : /\ t = setWritePos(s, 0) /\ t.buff = s.buff /\ t.nSize = s.nSize
                               /\ t.nWritePos = 0
    BY <1>1, setWritePosIs
  <1>5. PICK u : u = Write(t, v) /\ Placed(t, u, 0, v)
    <2>1. t.nWritePos + Len(v) <= t.nSize
      <3>1. t.nWritePos + 2 <= t.nSize
        BY <1>1, <1>4
      <3> QED BY <1>3, <3>1
    <2> QED BY <1>3, <1>4, <2>1, WriteIs
  <1>6. PICK b \in Seq(Byte) : b = u.buff /\ Len(b) = s.nSize
    <2>1. u \in StreamSet /\ u.nSize = s.nSize
      BY <1>4, <1>5 DEF Placed
    <2>2. u.buff \in Seq(Byte) /\ Len(u.buff) = u.nSize
      BY <2>1, Fieldwise
    <2> QED BY <2>1, <2>2
  <1>7. PICK m \in Seq(Byte) : /\ m = Sent(finsh(s)) /\ Len(m) = n
                               /\ \A i \in 1..n : m[i] = b[i]
    <2>1. finsh(s) = setWritePos(u, n)
      BY <1>2, <1>3, <1>4, <1>5 DEF finsh
    <2>2. finsh(s).buff = b /\ finsh(s).nWritePos = n
      <3>1. u \in StreamSet
        BY <1>5 DEF Placed
      <3>2. setWritePos(u, n).buff = u.buff /\ setWritePos(u, n).nWritePos = n
        BY <3>1, setWritePosIs
      <3> QED BY <1>6, <2>1, <3>2
    <2>3. \A i \in 1..n : b[i] \in Byte
      <3>1. \A i \in 1..Len(b) : b[i] \in Byte
        BY ElementOfSeq
      <3> QED BY <1>1, <1>2, <1>6, <3>1
    <2>4. /\ SubSeq(b, 1, n) \in Seq(Byte) /\ Len(SubSeq(b, 1, n)) = n
          /\ \A i \in 1..n : SubSeq(b, 1, n)[i] = b[i]
      <3>1. /\ SubSeq(b, 1, n) \in Seq(Byte)
            /\ Len(SubSeq(b, 1, n)) = IF 1 <= n THEN n - 1 + 1 ELSE 0
            /\ \A i \in 1..n - 1 + 1 : SubSeq(b, 1, n)[i] = b[1 + i - 1]
        BY <2>3, SubSeqProperties
      <3> QED BY <1>2, <3>1
    <2> QED BY <2>2, <2>4 DEF Sent
  <1>8. Holds(m, 0, Bytes(Len(m), 2))
    <2>1. ASSUME NEW i \in 1..2 PROVE m[0 + i] = v[i]
      <3>1. b[0 + i] = v[i]
        BY <1>3, <1>5, <1>6 DEF Placed, Holds
      <3>2. 0 + i \in 1..n
        BY <1>2
      <3> QED BY <1>7, <3>1, <3>2
    <2> QED BY <1>3, <1>7, <2>1 DEF Holds
  <1>9. PICK pos : Layout(s.buff, fields, pos) /\ pos[0] = 2 /\ pos[Len(fields)] = n
    BY <1>2 DEF StreamHolds
  <1>10. Layout(m, fields, pos)
    <2>1. ASSUME NEW i \in 3..n PROVE m[i] = s.buff[i]
      <3>1. i \in 1..t.nSize /\ 2 < i /\ i \in 1..n
        BY <1>1, <1>2, <1>4
      <3>2. 0 + Len(v) < i
        <4>1. 0 + 2 < i
          BY <3>1
        <4> QED BY <1>3, <4>1
      <3>3. b[i] = s.buff[i]
        BY <1>4, <1>5, <1>6, <3>1, <3>2 DEF Placed
      <3> QED BY <1>7, <3>1, <3>3
    <2>2. \A i \in pos[0] + 1..pos[Len(fields)] : m[i] = s.buff[i]
      BY <1>9, <2>1
    <2> QED BY <1>1, <1>9, <2>2, LayoutMoves
  <1>11. MessageHolds(m, fields)
    BY <1>1, <1>2, <1>7, <1>8, <1>9, <1>10 DEF MessageHolds
  <1> QED BY <1>2, <1>7, <1>11

LEMMA CELLReadStreamIs ==
  ASSUME NEW m \in Seq(Byte)
  PROVE  /\ CELLReadStream(m) \in StreamSet /\ CELLReadStream(m).buff = m
         /\ CELLReadStream(m).nSize = Len(m) /\ CELLReadStream(m).nReadPos = 0
         /\ CELLReadStream(m).got = <<>>
  <1>1. Len(m) \in Nat
    BY LenProperties
  <1>2. PICK s \in StreamSet : /\ s = CELLStream(m) /\ s.buff = m /\ s.nSize = Len(m)
                               /\ s.nWritePos = 0 /\ s.nReadPos = 0 /\ s.got = <<>>
    BY CELLStreamIs
  <1>3. s \in StreamType /\ 0 + Len(m) = Len(m)
    BY <1>1, <1>2 DEF StreamSet
  <1>4. CELLReadStream(m) = setWritePos(s, Len(m))
    <2>1. CELLReadStream(m) = [s EXCEPT !.nWritePos = s.nWritePos + Len(m)]
      BY <1>2 DEF CELLReadStream, push
    <2>2. s.nWritePos + Len(m) = Len(m)
      BY <1>2, <1>3
    <2> QED BY <2>1, <2>2 DEF setWritePos
  <1>5. PICK n \in Nat : n = Len(m)
    BY <1>1
  <1>6. PICK r : r = setWritePos(s, n) /\ r \in StreamSet /\ r.buff = m /\ r.nSize = n
                 /\ r.nReadPos = 0 /\ r.got = <<>>
    <2>1. /\ setWritePos(s, n) \in StreamSet /\ setWritePos(s, n).buff = s.buff
          /\ setWritePos(s, n).nSize = s.nSize /\ setWritePos(s, n).nReadPos = s.nReadPos
          /\ setWritePos(s, n).got = s.got
      BY setWritePosIs
    <2> QED BY <1>2, <1>5, <2>1
  <1> QED BY <1>4, <1>5, <1>6

\* The first read of a message returns its length.
LEMMA LengthRead ==
  ASSUME NEW m, NEW fields, MessageHolds(m, fields)
  PROVE  /\ Passed(CELLReadStream(m), Read(CELLReadStream(m), 2), 2, Bytes(Len(m), 2))
         /\ Read(CELLReadStream(m), 2) \in StreamSet
         /\ Read(CELLReadStream(m), 2).buff = m
         /\ Read(CELLReadStream(m), 2).nSize = Len(m)
         /\ Read(CELLReadStream(m), 2).nReadPos = 2
         /\ Len(Read(CELLReadStream(m), 2).got) = 1
         /\ Read(CELLReadStream(m), 2).got[1] = Bytes(Len(m), 2)
  <1>1. m \in Seq(Byte) /\ Len(m) \in Nat /\ Len(m) >= 2
    BY Bounds DEF MessageHolds
  <1>2. PICK s \in StreamSet : /\ s = CELLReadStream(m) /\ s.buff = m /\ s.nSize = Len(m)
                               /\ s.nReadPos = 0 /\ s.got = <<>>
    BY <1>1, CELLReadStreamIs
  <1>3. PICK v \in Seq(Byte) : v = Bytes(Len(m), 2) /\ Len(v) = 2
    BY <1>1, BytesFacts
  <1>4. Peek(s, 2) = v
    <2>1. Holds(s.buff, s.nReadPos, v)
      BY <1>2, <1>3 DEF MessageHolds
    <2>2. s.nReadPos + 2 <= s.nSize
      BY <1>1, <1>2
    <2>3. s.nReadPos + Len(v) <= s.nSize
      BY <1>3, <2>2
    <2>4. Peek(s, Len(v)) = v
      BY <2>1, <2>3, PeekHeld
    <2> QED BY <1>3, <2>4
  <1>5. canRead(s, 2)
    <2>1. Int32(2) = 2
      BY Bounds
    <2> QED BY <1>1, <1>2, <2>1 DEF canRead
  <1>6. PICK r : r = Read(s, 2) /\ Passed(s, r, 2, v)
    <2>1. Read(s, 2) = Got(popRead(s, 2), v)
      BY <1>4, <1>5 DEF Read
    <2>2. Passed(s, Got(popRead(s, 2), v), 2, v)
      BY PassedIs
    <2> QED BY <2>1, <2>2
  <1>7. /\ r \in StreamSet /\ r.buff = m /\ r.nSize = Len(m) /\ r.nReadPos = 2
        /\ Len(r.got) = 1 /\ r.got[1] = v
    <2>1. Len(Append(<<>>, v)) = 1 /\ Append(<<>>, v)[1] = v
      OBVIOUS
    <2>2. r.got = Append(<<>>, v)
      BY <1>2, <1>6 DEF Passed
    <2>3. r \in StreamSet /\ r.buff = m /\ r.nSize = Len(m) /\ r.nReadPos = 2
      BY <1>2, <1>6 DEF Passed
    <2> QED BY <2>1, <2>2, <2>3
  <1> QED BY <1>2, <1>3, <1>6, <1>7

-----------------------------------------------------------------------------
(* The invariant: the stream holds the fields whose writes returned true *)

StreamInv == StreamHolds(stream, kept)

LEMMA StreamInitInv == StreamInit => StreamInv
  <1>1. SUFFICES ASSUME StreamInit PROVE StreamInv
    OBVIOUS
  <1>2. PICK size \in 2..MaxUint16 : stream = CELLWriteStream(size) /\ kept = <<>>
    BY <1>1, StreamAssumption DEF StreamInit
  <1> QED BY <1>2, HoldsNone DEF StreamInv

LEMMA WriteNextInv ==
  ASSUME NEW f, IsField(f), StreamInv, WriteNext(f)
  PROVE  StreamInv'
  <1>1. stream' = WriteField(stream, f)
        /\ kept' = IF stream' = stream THEN kept ELSE Append(kept, f)
    BY DEF WriteNext
  <1> QED BY <1>1, HoldsNext DEF StreamInv

LEMMA StreamNextInv == StreamInv /\ [StreamNext]_streamVars => StreamInv'
  <1> SUFFICES ASSUME StreamInv, [StreamNext]_streamVars PROVE StreamInv'
    OBVIOUS
  <1>1. CASE WriteMore
    <2>1. PICK f \in Fields : WriteNext(f)
      BY <1>1 DEF WriteMore
    <2>2. IsField(f)
      BY <2>1, StreamAssumption
    <2> QED BY <2>1, <2>2, WriteNextInv
  <1>2. CASE WriteLogout
    <2>1. PICK l \in Logouts : Len(kept) < 9 /\ WriteNext(l[Len(kept) + 1])
      BY <1>2 DEF WriteLogout
    <2>2. IsLogout(l) /\ Len(kept) \in Nat
      <3>1. kept \in Seq(Field)
        BY DEF StreamInv, StreamHolds, AllFields
      <3> QED BY <3>1, StreamAssumption, LenProperties
    <2>3. Len(kept) + 1 \in 1..9
      BY <2>1, <2>2
    <2>4. IsField(l[Len(kept) + 1])
      BY <2>2, <2>3 DEF IsLogout
    <2> QED BY <2>1, <2>4, WriteNextInv
  <1>3. CASE UNCHANGED streamVars
    BY <1>3 DEF streamVars, StreamInv
  <1> QED BY <1>1, <1>2, <1>3 DEF StreamNext

\* Whatever fields a sender writes, in whatever order, and whichever do not
\* fit, its stream holds exactly those whose writes have returned true, one
\* behind the other.
THEOREM StreamInvariance == StreamSpec => []StreamInv
  <1>1. StreamInit => StreamInv
    BY StreamInitInv
  <1>2. StreamInv /\ [StreamNext]_streamVars => StreamInv'
    BY StreamNextInv
  <1> QED BY <1>1, <1>2, PTL DEF StreamSpec

LEMMA FieldsDoArrive == StreamInv => FieldsArrive
  <1> SUFFICES ASSUME StreamInv PROVE FieldsArrive
    OBVIOUS
  <1>1. PICK m : m = message
    OBVIOUS
  <1>2. MessageHolds(m, kept) /\ Len(m) = stream.nWritePos
    BY <1>1, SentHolds DEF StreamInv, message
  <1>3. PICK s \in StreamSet : /\ s = Read(CELLReadStream(m), 2) /\ s.buff = m /\ s.nSize = Len(m)
                               /\ s.nReadPos = 2 /\ s.nSize \in Nat
                               /\ Len(s.got) = 1 /\ s.got[1] = Bytes(Len(m), 2)
    BY <1>2, LengthRead, Fieldwise
  <1>4. AllFields(kept) /\ kept \in Seq(Field) /\ Len(kept) \in Nat
    BY <1>2, LenProperties DEF MessageHolds, AllFields
  <1>5. PICK g : ReadRun(g, kept) /\ g[0] = s /\ ReadFields(s, kept) = g[Len(kept)]
    BY <1>4, ReadsRun
  <1>6. PICK pos : Layout(m, kept, pos) /\ pos[0] = 2 /\ pos[Len(kept)] = Len(m)
    BY <1>2 DEF MessageHolds
  <1>7. PICK n \in Nat : n = Len(kept)
    BY <1>4
  <1>8. PICK got : got = g[n].got
    OBVIOUS
  <1>9. Number(got[1]) = Len(m)
    <2>1. 0 \in 0..n /\ n \in 0..n /\ Len(g[0].got) = 1
      BY <1>3, <1>5, <1>7
    <2>2. got[1] = g[0].got[1]
      <3>1. StillHas(g, n)
        BY <1>4, <1>5, <1>7, <2>1, RunKeeps
      <3>2. 1 \in 1..Len(g[0].got) + 0
        BY <2>1
      <3>3. g[n].got[1] = g[0].got[1]
        BY <2>1, <3>1, <3>2, Zenon DEF StillHas
      <3> QED BY <1>8, <3>3
    <2>3. got[1] = Bytes(Len(m), 2)
      BY <1>1, <1>3, <1>5, <2>2
    <2>4. Len(m) \in Lengths
      BY <1>2, Bounds DEF MessageHolds, Lengths
    <2> QED BY <2>3, <2>4, NumberOfBytes
  <1>10. Len(m) <= stream.nSize
    BY <1>2 DEF StreamInv, StreamHolds
  <1>11. ASSUME NEW k \in 1..n, \A j \in 1..k - 1 : Passes(kept[j])
         PROVE  got[k + 1] = IF Passes(kept[k]) THEN kept[k].value ELSE <<>>
    <2>1. \A j \in 1..n : (Passes(kept[j]) <=> Accepts(kept[j], kept[j])) /\ Reads(kept[j], kept[j])
      BY <1>4, <1>7, FieldFacts DEF Passes, Accepts, Reads, AllFields
    <2>2. \A j \in 1..k - 1 : Accepts(kept[j], kept[j])
      BY <1>11, <2>1
    <2>3. IF Accepts(kept[k], kept[k])
          THEN Passed(g[k - 1], g[k], Extent(kept[k]), kept[k].value)
          ELSE Passed(g[k - 1], g[k], 0, <<>>)
      <3>1. /\ Layout(g[0].buff, kept, pos) /\ pos[0] = g[0].nReadPos
            /\ pos[Len(kept)] <= g[0].nSize
        BY <1>3, <1>5, <1>6
      <3>2. \A j \in 1..Len(kept) : Reads(kept[j], kept[j])
        BY <1>7, <2>1
      <3>3. Len(kept) <= Len(kept)
        BY <1>4
      <3>4. Arrives(g, pos, kept, kept)
        BY <1>4, <1>5, <3>1, <3>2, <3>3, Arrive, Zenon
      <3>5. k \in 1..Len(kept)
        BY <1>7
      <3> QED BY <2>2, <3>4, <3>5, Zenon DEF Arrives
    <2>4. PICK d \in Nat, v \in Seq(Byte) :
            Passed(g[k - 1], g[k], d, v) /\ v = IF Passes(kept[k]) THEN kept[k].value ELSE <<>>
      <3>1. kept[k].value \in Seq(Byte) /\ Extent(kept[k]) \in Nat
        BY <1>4, <1>7, FieldFacts DEF AllFields
      <3>2. <<>> \in Seq(Byte)
        BY EmptySeq
      <3>3. Passes(kept[k]) <=> Accepts(kept[k], kept[k])
        BY <2>1
      <3>4. CASE Passes(kept[k])
        <4>1. Passed(g[k - 1], g[k], Extent(kept[k]), kept[k].value)
          BY <2>3, <3>3, <3>4, Zenon
        <4> QED BY <3>1, <3>4, <4>1
      <3>5. CASE ~Passes(kept[k])
        <4>1. Passed(g[k - 1], g[k], 0, <<>>)
          BY <2>3, <3>3, <3>5, Zenon
        <4> QED BY <3>2, <3>5, <4>1
      <3> QED BY <3>4, <3>5
    <2>5. g[n].got[Len(g[0].got) + k] = v
      BY <1>4, <1>5, <1>7, <2>4, RunGot
    <2>6. Len(g[0].got) + k = k + 1
      <3>1. Len(g[0].got) = 1
        BY <1>3, <1>5
      <3>2. 1 + k = k + 1
        OBVIOUS
      <3> QED BY <3>1, <3>2, Zenon
    <2> QED BY <1>8, <2>4, <2>5, <2>6
  <1>12. DOMAIN kept = 1..n
    BY <1>4, <1>7, LenProperties
  <1> QED BY <1>1, <1>3, <1>5, <1>7, <1>8, <1>9, <1>10, <1>11, <1>12 DEF FieldsArrive

\* A finished message says its own length, and reading it back returns every
\* field that was accepted, whatever the fields, their order and the size of
\* the buffer, up to the first that its reader does not go past
\* (CELLStream.hpp:76-247, CELLMsgStream.hpp:36-80).
THEOREM FieldsAlwaysArrive == StreamSpec => []FieldsArrive
  BY StreamInvariance, FieldsDoArrive, PTL

LEMMA ReadsDoStayInside == StreamInv => ReadsStayInside
  <1> SUFFICES ASSUME StreamInv PROVE ReadsStayInside
    OBVIOUS
  <1>1. PICK m \in Seq(Byte) : m = message
    BY SentHolds DEF StreamInv, message, MessageHolds
  <1>2. Len(m) \in Nat
    BY LenProperties
  <1>3. ASSUME NEW cut \in 1..Len(m), NEW f \in Fields, NEW h \in Fields
        PROVE  LET s == CELLReadStream(SubSeq(m, 1, cut))
                   r == ReadField(s, f)
               IN CountFits(s, f) => /\ r.nReadPos <= cut
                                     /\ CountFits(r, h) => ReadField(r, h).nReadPos <= cut
    <2>1. f \in Field /\ h \in Field
      BY StreamAssumption DEF IsField
    <2>2. PICK b \in Seq(Byte) : b = SubSeq(m, 1, cut) /\ Len(b) = cut
      <3>1. \A i \in 1..cut : m[i] \in Byte
        BY <1>2, ElementOfSeq
      <3>2. /\ SubSeq(m, 1, cut) \in Seq(Byte)
            /\ Len(SubSeq(m, 1, cut)) = IF 1 <= cut THEN cut - 1 + 1 ELSE 0
        BY <3>1, SubSeqProperties
      <3>3. PICK b : b = SubSeq(m, 1, cut)
        OBVIOUS
      <3>4. (IF 1 <= cut THEN cut - 1 + 1 ELSE 0) = cut
        BY <1>2
      <3>5. b \in Seq(Byte)
        BY <3>2, <3>3, Zenon
      <3>6. Len(b) = IF 1 <= cut THEN cut - 1 + 1 ELSE 0
        BY <3>2, <3>3, Zenon
      <3>7. Len(b) = cut
        BY <3>4, <3>6
      <3> QED BY <3>3, <3>5, <3>7, Zenon
    <2>3. PICK s \in StreamSet : s = CELLReadStream(b) /\ s.nSize = cut /\ s.nReadPos = 0
      BY <2>2, CELLReadStreamIs
    <2>4. ASSUME CountFits(s, f)
          PROVE  LET r == ReadField(s, f)
                 IN r.nReadPos <= cut /\ (CountFits(r, h) => ReadField(r, h).nReadPos <= cut)
      <3>1. PICK r \in StreamSet : r = ReadField(s, f) /\ r.nSize = cut /\ r.nReadPos <= cut
        <4>1. PICK d \in Nat, v \in Seq(Byte) :
                /\ Passed(s, ReadField(s, f), d, v)
                /\ s.nReadPos <= s.nSize /\ CountFits(s, f) => s.nReadPos + d <= s.nSize
          BY <2>1, ReadFieldType
        <4> QED BY <2>3, <2>4, <4>1 DEF Passed
      <3>2. ASSUME CountFits(r, h) PROVE ReadField(r, h).nReadPos <= cut
        <4>1. PICK d \in Nat, v \in Seq(Byte) :
                /\ Passed(r, ReadField(r, h), d, v)
                /\ r.nReadPos <= r.nSize /\ CountFits(r, h) => r.nReadPos + d <= r.nSize
          BY <2>1, ReadFieldType
        <4> QED BY <3>1, <3>2, <4>1 DEF Passed
      <3> QED BY <3>1, <3>2
    <2> QED BY <2>2, <2>3, <2>4
  <1> QED BY <1>1, <1>3 DEF ReadsStayInside

\* No read of a scalar or an array goes past the end of a message, wherever the
\* message was cut off and whatever was written there; nor does that of a string
\* whose count with its own four bytes fits an int, which is all that is said of
\* strings: with a greater count the read does leave the message (CELLStream.hpp:
\* 50-129, 191-210).
THEOREM ReadsAlwaysInside == StreamSpec => []ReadsStayInside
  BY StreamInvariance, ReadsDoStayInside, PTL

-----------------------------------------------------------------------------
(* The logout handler reads *)

\* The readers behind the length of a message.
LogoutArgs(rooms) ==
  [k \in 1..9 |-> IF k <= 6 THEN Scalar(Zeros(LogoutWidths[k]))
                            ELSE Array(LogoutWidths[k], rooms[k-6], <<>>)]

LEMMA LogoutWidthFacts ==
  /\ LogoutWidths[1] = 2 /\ LogoutWidths[2] = 1 /\ LogoutWidths[3] = 2 /\ LogoutWidths[4] = 4
  /\ LogoutWidths[5] = 4 /\ LogoutWidths[6] = 8 /\ LogoutWidths[7] = 1 /\ LogoutWidths[8] = 1
  /\ LogoutWidths[9] = 4
  /\ \A k \in 1..9 : LogoutWidths[k] \in Widths /\ LogoutWidths[k] \in Nat \ {0}
  BY DEF LogoutWidths, Widths

LEMMA ScalarIs ==
  ASSUME NEW v \in Seq(Byte), Len(v) \in Widths
  PROVE  /\ IsField(Scalar(v)) /\ Scalar(v) \in Field
         /\ Scalar(v).as = "scalar" /\ Scalar(v).width = Len(v) /\ Scalar(v).value = v
         /\ Scalar(v).n = 1 /\ Extent(Scalar(v)) = Len(v)
  <1>1. PICK w \in Widths : w = Len(v)
    OBVIOUS
  <1>2. 1 \in Lengths /\ 0 \in Lengths
    BY Bounds DEF Lengths
  <1>3. PICK f : f = Scalar(v)
    OBVIOUS
  <1>4. f = [as |-> "scalar", width |-> w, n |-> 1, room |-> 0, value |-> v]
    BY <1>1, <1>3 DEF Scalar
  <1>5. f.as = "scalar" /\ f.width = w /\ f.n = 1 /\ f.value = v
    BY <1>4
  <1>6. f \in Field
    BY <1>2, <1>4 DEF Field
  <1>7. w * 1 = w
    BY DEF Widths
  <1>8. IsField(f)
    BY <1>1, <1>5, <1>6, <1>7 DEF IsField
  <1> QED BY <1>1, <1>3, <1>5, <1>6, <1>8 DEF Extent

LEMMA ArrayIs ==
  ASSUME NEW w \in Widths, NEW room \in Lengths, NEW v \in Seq(Byte), NEW n \in Lengths,
         Len(v) = w * n
  PROVE  /\ IsField(Array(w, room, v)) /\ Array(w, room, v) \in Field
         /\ Array(w, room, v).as = "array" /\ Array(w, room, v).width = w
         /\ Array(w, room, v).value = v /\ Array(w, room, v).n = n
         /\ Array(w, room, v).room = room /\ Extent(Array(w, room, v)) = 4 + w * n
  <1>1. n \in Nat /\ w \in Nat \ {0}
    BY Bounds DEF Lengths, Widths
  <1>2. Len(v) \div w = n
    <2>1. (w = 1 \/ w = 2 \/ w = 4 \/ w = 8)
      BY DEF Widths
    <2>2. (1 * n) \div 1 = n /\ (2 * n) \div 2 = n /\ (4 * n) \div 4 = n /\ (8 * n) \div 8 = n
      BY <1>1
    <2> QED BY <2>1, <2>2
  <1>3. PICK f : f = Array(w, room, v)
    OBVIOUS
  <1>4. f = [as |-> "array", width |-> w, n |-> n, room |-> room, value |-> v]
    BY <1>2, <1>3 DEF Array
  <1>5. f.as = "array" /\ f.width = w /\ f.n = n /\ f.room = room /\ f.value = v
    BY <1>4
  <1>6. f \in Field
    BY <1>4 DEF Field
  <1>7. IsField(f)
    BY <1>5, <1>6 DEF IsField
  <1>8. Extent(f) = 4 + w * n
    BY <1>5 DEF Extent
  <1> QED BY <1>3, <1>5, <1>6, <1>7, <1>8

LEMMA LogoutArgsAre ==
  ASSUME NEW rooms \in [1..3 -> Lengths]
  PROVE  /\ LogoutArgs(rooms) \in Seq(Field) /\ Len(LogoutArgs(rooms)) = 9
         /\ \A k \in 1..9 :
              /\ LogoutArgs(rooms)[k] \in Field
              /\ LogoutArgs(rooms)[k].width = LogoutWidths[k]
              /\ k <= 6 => LogoutArgs(rooms)[k].as = "scalar"
              /\ k > 6 => LogoutArgs(rooms)[k].as = "array" /\ LogoutArgs(rooms)[k].room = rooms[k - 6]
  <1>1. ASSUME NEW k \in 1..9
        PROVE  LET q == IF k <= 6 THEN Scalar(Zeros(LogoutWidths[k]))
                                  ELSE Array(LogoutWidths[k], rooms[k-6], <<>>)
               IN  /\ q \in Field /\ q.width = LogoutWidths[k]
                   /\ k <= 6 => q.as = "scalar"
                   /\ k > 6 => q.as = "array" /\ q.room = rooms[k - 6]
    <2>1. PICK w \in Widths : w = LogoutWidths[k] /\ w \in Nat
      BY LogoutWidthFacts
    <2>2. CASE k <= 6
      <3>1. PICK v \in Seq(Byte) : v = Zeros(w) /\ Len(v) = w
        BY <2>1, ZerosType
      <3>2. Scalar(v) \in Field /\ Scalar(v).as = "scalar" /\ Scalar(v).width = w
        BY <3>1, ScalarIs
      <3> QED BY <2>1, <2>2, <3>1, <3>2
    <2>3. CASE ~(k <= 6)
      <3>1. PICK room \in Lengths : room = rooms[k - 6]
        BY <2>3
      <3>2. PICK v \in Seq(Byte) : v = <<>> /\ Len(v) = 0
        BY EmptySeq
      <3>3. 0 \in Lengths /\ Len(v) = w * 0
        BY <2>1, <3>2, Bounds DEF Lengths
      <3>4. /\ Array(w, room, v) \in Field /\ Array(w, room, v).as = "array"
            /\ Array(w, room, v).width = w /\ Array(w, room, v).room = room
        BY <3>3, ArrayIs
      <3> QED BY <2>1, <2>3, <3>1, <3>2, <3>4
    <2> QED BY <2>2, <2>3
  <1> DEFINE arg(k) == IF k <= 6 THEN Scalar(Zeros(LogoutWidths[k]))
                                 ELSE Array(LogoutWidths[k], rooms[k-6], <<>>)
  <1>2. \A k \in 1..9 : arg(k) \in Field
    BY <1>1
  <1>3. [k \in 1..9 |-> arg(k)] \in Seq(Field) /\ Len([k \in 1..9 |-> arg(k)]) = 9
    <2> HIDE DEF arg
    <2> QED BY <1>2, IsASeq
  <1>4. LogoutArgs(rooms) = [k \in 1..9 |-> arg(k)]
    BY DEF LogoutArgs
  <1>5. \A k \in 1..9 : LogoutArgs(rooms)[k] = arg(k)
    BY <1>4
  <1> QED BY <1>1, <1>3, <1>4, <1>5

\* Reading a logout reads its length, and then the rest with these readers.
LEMMA LogoutRun ==
  ASSUME NEW m, NEW fields, MessageHolds(m, fields), NEW rooms \in [1..3 -> Lengths]
  PROVE  \E g : /\ ReadRun(g, LogoutArgs(rooms)) /\ g[0] = Read(CELLReadStream(m), 2)
                /\ ReadLogout(m, rooms) = g[9].got
  <1>1. PICK args \in Seq(Field) : args = LogoutArgs(rooms) /\ Len(args) = 9
    BY LogoutArgsAre
  <1>2. PICK first \in Field : first = Scalar(Zeros(2)) /\ first.as = "scalar" /\ first.width = 2
    <2>1. PICK v \in Seq(Byte) : v = Zeros(2) /\ Len(v) = 2
      BY ZerosType
    <2>2. 2 \in Widths
      BY DEF Widths
    <2> QED BY <2>1, <2>2, ScalarIs
  <1>3. PICK rd : rd = <<first>> \o args
    OBVIOUS
  <1>4. LogoutReader(rooms) = rd
    BY <1>1, <1>2, <1>3 DEF LogoutReader, LogoutArgs
  <1>5. /\ rd \in Seq(Field) /\ Len(rd) = 10 /\ rd[1] = first
        /\ \A k \in 1..9 : rd[k + 1] = args[k]
    <2>1. PICK one \in Seq(Field) : one = <<first>> /\ Len(one) = 1 /\ one[1] = first
      <3>1. <<first>> \in Seq(Field)
        OBVIOUS
      <3>2. Len(<<first>>) = 1 /\ <<first>>[1] = first
        OBVIOUS
      <3> QED BY <3>1, <3>2
    <2>2. /\ one \o args \in Seq(Field) /\ Len(one \o args) = Len(one) + Len(args)
          /\ \A i \in 1..Len(one) + Len(args) :
               (one \o args)[i] = IF i <= Len(one) THEN one[i] ELSE args[i - Len(one)]
      BY ConcatProperties
    <2>3. /\ Len(rd) = 10
          /\ \A i \in 1..10 : rd[i] = IF i <= 1 THEN one[i] ELSE args[i - 1]
      BY <1>1, <1>3, <2>1, <2>2
    <2>4. \A k \in 1..9 : rd[k + 1] = args[k]
      BY <2>3
    <2> QED BY <1>3, <2>1, <2>2, <2>3, <2>4
  <1>6. PICK s \in StreamSet : s = CELLReadStream(m)
    BY CELLReadStreamIs DEF MessageHolds
  <1>7. PICK h : ReadRun(h, rd) /\ h[0] = s /\ ReadFields(s, rd) = h[10]
    <2>1. \E h : ReadRun(h, rd) /\ h[0] = s /\ ReadFields(s, rd) = h[Len(rd)]
      BY <1>5, ReadsRun
    <2> QED BY <1>5, <2>1
  <1> DEFINE g == [k \in 0..9 |-> h[k + 1]]
  <1>8. h \in [0..10 -> StreamSet] /\ \A k \in 1..10 : h[k] = ReadField(h[k - 1], rd[k])
    BY <1>5, <1>7 DEF ReadRun
  <1>9. g \in [0..9 -> StreamSet]
    BY <1>8
  <1>10. ASSUME NEW k \in 1..9 PROVE g[k] = ReadField(g[k - 1], args[k])
    <2>1. g[k] = h[k + 1] /\ g[k - 1] = h[k]
      OBVIOUS
    <2>2. k + 1 \in 1..10 /\ (k + 1) - 1 = k
      OBVIOUS
    <2>3. h[k + 1] = ReadField(h[k], rd[k + 1])
      BY <1>8, <2>2
    <2> HIDE DEF g
    <2> QED BY <1>5, <2>1, <2>3
  <1>11. g[0] = h[1] /\ g[9] = h[10]
    OBVIOUS
  <1>12. h[1] = Read(s, 2)
    <2>1. h[1] = ReadField(s, first)
      BY <1>5, <1>7, <1>8
    <2> QED BY <1>2, <2>1 DEF ReadField
  <1> HIDE DEF g
  <1>13. ReadRun(g, args)
    BY <1>1, <1>9, <1>10 DEF ReadRun
  <1>14. ReadLogout(m, rooms) = g[9].got
    BY <1>4, <1>6, <1>7, <1>11 DEF ReadLogout
  <1> QED BY <1>1, <1>6, <1>11, <1>12, <1>13, <1>14

\* An array is not read behind the end.
LEMMA ReadAtEnd ==
  ASSUME NEW s \in StreamSet, s.nReadPos = s.nSize, NEW q \in Field, q.as = "array"
  PROVE  Passed(s, ReadField(s, q), 0, <<>>)
  <1>1. s.nSize \in Nat /\ q.width \in Widths
    BY Fieldwise DEF Field
  <1>2. Int32(4) = 4
    BY Bounds
  <1>3. ~canRead(s, 4)
    BY <1>1, <1>2 DEF canRead
  <1>4. onlyRead(s) = 0
    BY <1>3 DEF onlyRead
  <1>5. (q.width * 0) + 4 = 4
    BY <1>1 DEF Widths
  <1>6. ReadField(s, q) = Got(s, <<>>)
    BY <1>3, <1>4, <1>5 DEF ReadField, ReadArray
  <1> QED BY <1>6, PassedIs, EmptySeq

\* A logout, or the part of one that fitted into its stream.
LogoutFields(w) ==
  /\ AllFields(w) /\ Len(w) \in 8..9
  /\ \A k \in 1..Len(w) : /\ w[k].width = LogoutWidths[k]
                          /\ w[k].as = IF k <= 6 THEN "scalar" ELSE "array"

\* What reading the logout of a message returns: the scalars, and the arrays
\* up to the first that is refused; all those behind it are refused for the
\* same count.
LogoutReads(got, m, w, rooms) ==
  /\ got \in Seq(Seq(Byte)) /\ Len(got) = 10
  /\ got[1] = Bytes(Len(m), 2) /\ \A k \in 1..6 : got[k + 1] = w[k].value
  /\ got[8] = IF w[7].n <= rooms[1] THEN w[7].value ELSE <<>>
  /\ w[7].n <= rooms[1] => got[9] = IF w[8].n <= rooms[2] THEN w[8].value ELSE <<>>
  /\ w[7].n > rooms[1] /\ w[7].n > rooms[2] /\ w[7].n > rooms[3] =>
       got[9] = <<>> /\ got[10] = <<>>
  /\ w[7].n <= rooms[1] /\ w[8].n > rooms[2] /\ w[8].n > rooms[3] => got[10] = <<>>
  /\ w[7].n <= rooms[1] /\ w[8].n <= rooms[2] =>
       got[10] = IF Len(w) = 9 /\ w[9].n <= rooms[3] THEN w[9].value ELSE <<>>

LEMMA LogoutGot ==
  ASSUME NEW m, NEW w, MessageHolds(m, w), LogoutFields(w), NEW rooms \in [1..3 -> Lengths]
  PROVE  LogoutReads(ReadLogout(m, rooms), m, w, rooms)
  <1>1. PICK args \in Seq(Field) :
          /\ args = LogoutArgs(rooms) /\ Len(args) = 9
          /\ \A k \in 1..9 : /\ args[k] \in Field /\ args[k].width = LogoutWidths[k]
                             /\ k <= 6 => args[k].as = "scalar"
                             /\ k > 6 => args[k].as = "array" /\ args[k].room = rooms[k - 6]
    BY LogoutArgsAre
  <1>2. PICK g : ReadRun(g, args) /\ g[0] = Read(CELLReadStream(m), 2)
                 /\ ReadLogout(m, rooms) = g[9].got
    BY <1>1, LogoutRun
  <1>3. /\ g[0] \in StreamSet /\ g[0].buff = m /\ g[0].nSize = Len(m) /\ g[0].nReadPos = 2
        /\ Len(g[0].got) = 1 /\ g[0].got[1] = Bytes(Len(m), 2) /\ Len(m) \in Nat
    <2>1. Len(m) \in Nat
      BY Bounds DEF MessageHolds
    <2> QED BY <1>2, <2>1, LengthRead
  <1>4. PICK pos : Layout(m, w, pos) /\ pos[0] = 2 /\ pos[Len(w)] = Len(m)
    BY DEF MessageHolds
  <1>5. PICK N \in 8..9 : N = Len(w)
    BY DEF LogoutFields
  <1>6. g \in [0..9 -> StreamSet] /\ \A k \in 1..9 : g[k] = ReadField(g[k - 1], args[k])
    BY <1>1, <1>2 DEF ReadRun
  <1>7. \A k \in 0..9 : g[k].buff = m /\ g[k].nSize = Len(m)
    <2>1. \A k \in 0..9 : StillHas(g, k)
      BY <1>1, <1>2, RunKeeps
    <2>2. g[0].buff = m /\ g[0].nSize = Len(m)
      BY <1>3
    <2> QED BY <2>1, <2>2, Zenon DEF StillHas
  <1>8. \A k \in 1..N : /\ IsField(w[k]) /\ Reads(args[k], w[k])
                        /\ k <= 6 => Accepts(args[k], w[k])
                        /\ k > 6 => w[k].as = "array"
                                    /\ (Accepts(args[k], w[k]) <=> w[k].n <= rooms[k - 6])
    <2>1. ASSUME NEW k \in 1..N
          PROVE  /\ IsField(w[k]) /\ Reads(args[k], w[k])
                 /\ k <= 6 => Accepts(args[k], w[k])
                 /\ k > 6 => w[k].as = "array"
                             /\ (Accepts(args[k], w[k]) <=> w[k].n <= rooms[k - 6])
      <3>1. /\ IsField(w[k]) /\ w[k].width = LogoutWidths[k]
            /\ w[k].as = IF k <= 6 THEN "scalar" ELSE "array"
        BY <1>5 DEF LogoutFields, AllFields
      <3>0. k \in 1..9
        BY <1>5
      <3>2. /\ args[k] \in Field /\ args[k].width = LogoutWidths[k]
            /\ k <= 6 => args[k].as = "scalar"
            /\ k > 6 => args[k].as = "array" /\ args[k].room = rooms[k - 6]
        BY <1>1, <3>0, Zenon
      <3>3. CASE k <= 6
        BY <3>1, <3>2, <3>3 DEF Reads, Accepts
      <3>4. CASE k > 6
        BY <3>1, <3>2, <3>4 DEF Reads, Accepts
      <3> QED BY <3>3, <3>4
    <2> QED BY <2>1
  <1>9. \A k \in 1..N : (\A j \in 1..k - 1 : Accepts(args[j], w[j])) =>
                          /\ g[k - 1].nReadPos = pos[k - 1]
                          /\ IF Accepts(args[k], w[k])
                             THEN Passed(g[k - 1], g[k], Extent(w[k]), w[k].value)
                             ELSE Passed(g[k - 1], g[k], 0, <<>>)
    <2>1. AllFields(w) /\ Len(w) <= Len(args) /\ \A k \in 1..Len(w) : Reads(args[k], w[k])
      <3>1. N <= 9
        OBVIOUS
      <3>2. Len(w) <= Len(args)
        BY <1>1, <1>5, <3>1
      <3> QED BY <1>5, <1>8, <3>2 DEF LogoutFields
    <2>2. Layout(g[0].buff, w, pos) /\ pos[0] = g[0].nReadPos /\ pos[Len(w)] <= g[0].nSize
      BY <1>3, <1>4
    <2>3. Arrives(g, pos, args, w)
      BY <1>2, <2>1, <2>2, Arrive, Zenon
    <2> QED BY <1>5, <2>3, Zenon DEF Arrives
  <1>10. ASSUME NEW k \in 1..9, NEW d, NEW v \in Seq(Byte), Passed(g[k - 1], g[k], d, v)
         PROVE  g[9].got[k + 1] = v
    <2>1. g[9].got[Len(g[0].got) + k] = v
      <3>1. k \in 1..Len(args)
        BY <1>1
      <3>2. g[Len(args)].got[Len(g[0].got) + k] = v
        BY <1>2, <1>10, <3>1, RunGot
      <3> QED BY <1>1, <3>2
    <2>2. 1 + k = k + 1
      OBVIOUS
    <2> QED BY <1>3, <2>1, <2>2, Zenon
  <1>11. \A k \in 1..N : w[k].value \in Seq(Byte) /\ w[k].n \in Nat
    BY <1>8, FieldFacts
  <1>12. PICK got : got = g[9].got
    OBVIOUS
  <1>13. got \in Seq(Seq(Byte)) /\ Len(got) = 10 /\ got[1] = Bytes(Len(m), 2)
    <2>1. g[9] \in StreamSet
      BY <1>6
    <2>2. g[9].got \in Seq(Seq(Byte))
      BY <2>1, Fieldwise
    <2>3. /\ Len(g[9].got) = Len(g[0].got) + 9
          /\ \A j \in 0..9 : \A i \in 1..Len(g[0].got) + j : g[9].got[i] = g[j].got[i]
      <3>1. 9 \in 0..Len(args)
        BY <1>1
      <3>2. StillHas(g, 9)
        BY <1>2, <3>1, RunKeeps, Zenon
      <3> QED BY <3>2, Zenon DEF StillHas
    <2>4. 1 \in 1..Len(g[0].got) + 0
      BY <1>3
    <2>5. g[9].got[1] = g[0].got[1]
      BY <2>3, <2>4
    <2> QED BY <1>3, <1>12, <2>2, <2>3, <2>5
  <1>14. \A k \in 1..6 : got[k + 1] = w[k].value
    <2>1. ASSUME NEW k \in 1..6 PROVE got[k + 1] = w[k].value
      <3>1. k \in 1..N /\ k \in 1..9 /\ \A j \in 1..k - 1 : Accepts(args[j], w[j])
        BY <1>8
      <3>2. Passed(g[k - 1], g[k], Extent(w[k]), w[k].value)
        BY <1>8, <1>9, <3>1
      <3> QED BY <1>10, <1>11, <1>12, <3>1, <3>2
    <2> QED BY <2>1
  <1>15. /\ \A k \in 0..N : pos[k] \in Nat /\ pos[k] <= Len(m)
         /\ \A k \in 1..N : pos[k] = pos[k - 1] + Extent(w[k]) /\ Laid(m, pos[k - 1], w[k])
    <2>1. \A k \in 0..Len(w) : \A j \in 0..k : pos[j] <= pos[k]
      BY <1>4, LayoutGrows DEF LogoutFields
    <2>2. N \in 0..N /\ \A j \in 0..N : pos[j] <= pos[N]
      BY <1>5, <2>1
    <2> QED BY <1>4, <1>5, <2>2 DEF Layout
  <1>16. ASSUME NEW k \in 7..9, NEW j \in 7..8, g[k - 1].nReadPos = pos[j - 1],
                w[j].n > rooms[k - 6]
         PROVE  Passed(g[k - 1], g[k], 0, <<>>)
    <2>1. j \in 1..N /\ j - 1 \in 0..N /\ k \in 1..9 /\ k - 1 \in 0..9
      OBVIOUS
    <2>2. PICK s \in StreamSet : s = g[k - 1] /\ s.nReadPos = pos[j - 1]
                                 /\ s.buff = m /\ s.nSize = Len(m)
      BY <1>6, <1>7, <1>16, <2>1
    <2>3. IsField(w[j]) /\ w[j].as = "array" /\ w[j].as # "scalar"
      BY <1>8, <2>1
    <2>4. Laid(s.buff, s.nReadPos, w[j]) /\ s.nReadPos + Extent(w[j]) <= s.nSize
      <3>1. pos[j] = pos[j - 1] + Extent(w[j]) /\ Laid(m, pos[j - 1], w[j])
        BY <1>15, <2>1
      <3>2. pos[j] <= Len(m)
        BY <1>15, <2>1
      <3> QED BY <2>2, <3>1, <3>2
    <2>5. args[k] \in Field /\ args[k].as = "array" /\ w[j].n > args[k].room
      BY <1>1, <1>16, <2>1
    <2>6. Passed(s, ReadField(s, args[k]), 0, <<>>)
      BY <2>3, <2>4, <2>5, ReadRefused
    <2> QED BY <1>6, <2>1, <2>2, <2>6
  <1>17. PICK none \in Seq(Byte) : none = <<>>
    BY EmptySeq
  <1>18. ASSUME NEW k \in 1..9, NEW d, NEW v \in Seq(Byte), Passed(g[k - 1], g[k], d, v)
         PROVE  got[k + 1] = v /\ g[k].nReadPos = g[k - 1].nReadPos + d
    BY <1>10, <1>12, <1>18 DEF Passed
  <1>19. /\ g[6].nReadPos = pos[6]
         /\ IF w[7].n <= rooms[1] THEN Passed(g[6], g[7], Extent(w[7]), w[7].value)
                                  ELSE Passed(g[6], g[7], 0, none)
    <2>1. 7 \in 1..N /\ 7 - 1 = 6 /\ 7 - 6 = 1 /\ \A j \in 1..7 - 1 : Accepts(args[j], w[j])
      BY <1>8
    <2>2. Accepts(args[7], w[7]) <=> w[7].n <= rooms[1]
      BY <1>8, <2>1
    <2> QED BY <1>9, <1>17, <2>1, <2>2
  <1>20. got[8] = IF w[7].n <= rooms[1] THEN w[7].value ELSE none
    <2>1. 7 \in 1..9 /\ 7 \in 1..N /\ 7 - 1 = 6 /\ 7 + 1 = 8
      OBVIOUS
    <2>2. \A d : \A v \in Seq(Byte) : Passed(g[6], g[7], d, v) => got[8] = v
      BY <1>18, <2>1
    <2> QED BY <1>11, <1>19, <2>1, <2>2
  <1>21. w[7].n <= rooms[1] =>
           /\ g[7].nReadPos = pos[7]
           /\ IF w[8].n <= rooms[2] THEN Passed(g[7], g[8], Extent(w[8]), w[8].value)
                                    ELSE Passed(g[7], g[8], 0, none)
    <2> SUFFICES ASSUME w[7].n <= rooms[1]
                 PROVE  /\ g[7].nReadPos = pos[7]
                        /\ IF w[8].n <= rooms[2] THEN Passed(g[7], g[8], Extent(w[8]), w[8].value)
                                                 ELSE Passed(g[7], g[8], 0, none)
      OBVIOUS
    <2>1. 8 \in 1..N /\ 7 \in 1..N /\ 8 - 1 = 7 /\ 7 - 6 = 1 /\ 8 - 6 = 2
      OBVIOUS
    <2>2. Accepts(args[7], w[7]) /\ (Accepts(args[8], w[8]) <=> w[8].n <= rooms[2])
      BY <1>8, <2>1
    <2>3. \A j \in 1..8 - 1 : Accepts(args[j], w[j])
      BY <1>8, <2>2
    <2> QED BY <1>9, <1>17, <2>1, <2>2, <2>3
  <1>22. w[7].n <= rooms[1] => got[9] = IF w[8].n <= rooms[2] THEN w[8].value ELSE none
    <2>1. 8 \in 1..9 /\ 8 \in 1..N /\ 8 - 1 = 7 /\ 8 + 1 = 9
      OBVIOUS
    <2>2. \A d : \A v \in Seq(Byte) : Passed(g[7], g[8], d, v) => got[9] = v
      BY <1>18, <2>1
    <2> QED BY <1>11, <1>21, <2>1, <2>2
  <1>23. w[7].n > rooms[1] /\ w[7].n > rooms[2] /\ w[7].n > rooms[3] =>
           got[9] = none /\ got[10] = none
    <2> SUFFICES ASSUME w[7].n > rooms[1], w[7].n > rooms[2], w[7].n > rooms[3]
                 PROVE  got[9] = none /\ got[10] = none
      OBVIOUS
    <2>1. 7 \in 7..8 /\ 7 - 1 = 6 /\ 8 \in 7..9 /\ 8 - 1 = 7 /\ 8 - 6 = 2 /\ 8 + 1 = 9
          /\ 9 \in 7..9 /\ 9 - 1 = 8 /\ 9 - 6 = 3 /\ 9 + 1 = 10
          /\ 7 \in 1..9 /\ 8 \in 1..9 /\ 9 \in 1..9
      OBVIOUS
    <2>2. Passed(g[6], g[7], 0, none)
      <3>1. w[7].n \in Nat /\ rooms[1] \in Nat
        BY <1>11 DEF Lengths
      <3>2. ~(w[7].n <= rooms[1])
        BY <3>1
      <3> QED BY <1>19, <3>2
    <2>3. pos[6] \in Nat
      BY <1>15
    <2>4. g[7].nReadPos = pos[6]
      <3>1. g[7].nReadPos = g[6].nReadPos + 0
        BY <2>2 DEF Passed
      <3> QED BY <1>19, <2>3, <3>1
    <2>5. Passed(g[7], g[8], 0, none)
      BY <1>16, <1>17, <2>1, <2>4
    <2>6. g[8].nReadPos = pos[6]
      <3>1. g[8].nReadPos = g[7].nReadPos + 0
        BY <2>5 DEF Passed
      <3> QED BY <2>3, <2>4, <3>1
    <2>7. Passed(g[8], g[9], 0, none)
      BY <1>16, <1>17, <2>1, <2>6
    <2> QED BY <1>18, <2>1, <2>5, <2>7
  <1>24. w[7].n <= rooms[1] /\ w[8].n > rooms[2] /\ w[8].n > rooms[3] => got[10] = none
    <2> SUFFICES ASSUME w[7].n <= rooms[1], w[8].n > rooms[2], w[8].n > rooms[3]
                 PROVE  got[10] = none
      OBVIOUS
    <2>1. 8 \in 7..8 /\ 8 - 1 = 7 /\ 9 \in 7..9 /\ 9 - 1 = 8 /\ 9 - 6 = 3 /\ 9 + 1 = 10
          /\ 9 \in 1..9
      OBVIOUS
    <2>2. Passed(g[7], g[8], 0, none) /\ g[7].nReadPos = pos[7]
      <3>1. w[8].n \in Nat /\ rooms[2] \in Nat
        BY <1>11 DEF Lengths
      <3>2. ~(w[8].n <= rooms[2])
        BY <3>1
      <3> QED BY <1>21, <3>2
    <2>3. pos[7] \in Nat
      BY <1>15
    <2>4. g[8].nReadPos = pos[7]
      <3>1. g[8].nReadPos = g[7].nReadPos + 0
        BY <2>2 DEF Passed
      <3> QED BY <2>2, <2>3, <3>1
    <2>5. Passed(g[8], g[9], 0, none)
      BY <1>16, <1>17, <2>1, <2>4
    <2> QED BY <1>18, <2>1, <2>5
  <1>25. w[7].n <= rooms[1] /\ w[8].n <= rooms[2] =>
           got[10] = IF Len(w) = 9 /\ w[9].n <= rooms[3] THEN w[9].value ELSE none
    <2> SUFFICES ASSUME w[7].n <= rooms[1], w[8].n <= rooms[2]
                 PROVE  got[10] = IF Len(w) = 9 /\ w[9].n <= rooms[3] THEN w[9].value ELSE none
      OBVIOUS
    <2>1. 9 - 1 = 8 /\ 9 + 1 = 10 /\ 9 \in 1..9 /\ 8 \in 1..N /\ 8 - 1 = 7 /\ 8 \in 0..9
          /\ 7 \in 1..N /\ 7 - 6 = 1 /\ 8 - 6 = 2 /\ 9 - 6 = 3
      OBVIOUS
    <2>2. \A d : \A v \in Seq(Byte) : Passed(g[8], g[9], d, v) => got[10] = v
      BY <1>18, <2>1
    <2>3. Passed(g[7], g[8], Extent(w[8]), w[8].value) /\ g[7].nReadPos = pos[7]
      BY <1>21
    <2>4. CASE N = 9
      <3>1. 9 \in 1..N
        BY <2>4
      <3>2. /\ Accepts(args[7], w[7]) /\ Accepts(args[8], w[8])
            /\ (Accepts(args[9], w[9]) <=> w[9].n <= rooms[3])
        BY <1>8, <2>1, <3>1
      <3>3. \A j \in 1..9 - 1 : Accepts(args[j], w[j])
        BY <1>8, <3>2
      <3>4. IF Accepts(args[9], w[9]) THEN Passed(g[8], g[9], Extent(w[9]), w[9].value)
                                      ELSE Passed(g[8], g[9], 0, none)
        BY <1>9, <1>17, <2>1, <3>1, <3>3
      <3>5. w[9].value \in Seq(Byte)
        BY <1>11, <3>1
      <3>6. CASE w[9].n <= rooms[3]
        BY <1>5, <2>2, <2>4, <3>2, <3>4, <3>5, <3>6
      <3>7. CASE ~(w[9].n <= rooms[3])
        BY <2>2, <3>2, <3>4, <3>7
      <3> QED BY <3>6, <3>7
    <2>5. CASE N = 8
      <3>1. g[8].nReadPos = pos[8]
        <4>1. g[8].nReadPos = pos[7] + Extent(w[8])
          BY <2>3 DEF Passed
        <4> QED BY <1>15, <2>1, <4>1
      <3>2. pos[8] = Len(m)
        BY <1>4, <1>5, <2>5
      <3>3. PICK s \in StreamSet : s = g[8] /\ s.nReadPos = s.nSize
        BY <1>6, <1>7, <2>1, <3>1, <3>2
      <3>4. args[9] \in Field /\ args[9].as = "array"
        BY <1>1, <2>1
      <3>5. Passed(s, ReadField(s, args[9]), 0, <<>>)
        BY <3>3, <3>4, ReadAtEnd
      <3>6. g[9] = ReadField(g[8], args[9])
        BY <1>6, <2>1
      <3>7. got[10] = none
        BY <1>17, <2>2, <3>3, <3>5, <3>6
      <3>8. Len(w) # 9
        BY <1>5, <2>5
      <3> QED BY <3>7, <3>8
    <2> QED BY <2>4, <2>5
  <1> QED BY <1>2, <1>12, <1>13, <1>14, <1>17, <1>20, <1>22, <1>23, <1>24, <1>25
          DEF LogoutReads

-----------------------------------------------------------------------------
(* Writing field after field *)

HeldSet == {s \in StreamSet : s.nWritePos <= s.nSize}

\* h are the streams that writing the fields, one after the other, goes through.
WriteRun(h, fields) ==
  /\ h \in [0..Len(fields) -> HeldSet]
  /\ \A k \in 1..Len(fields) : h[k] = WriteField(h[k - 1], fields[k])

LEMMA WriteFieldType ==
  ASSUME NEW t \in HeldSet, NEW f, IsField(f)
  PROVE  WriteField(t, f) \in HeldSet
  <1>1. t \in StreamSet /\ t.nWritePos <= t.nSize
    BY DEF HeldSet
  <1>2. PICK r : r = WriteField(t, f)
    OBVIOUS
  <1>3. IF t.nWritePos + Extent(f) <= t.nSize THEN Written(t, r, f) ELSE r = t
    BY <1>1, <1>2, WriteOne
  <1>4. CASE t.nWritePos + Extent(f) <= t.nSize
    BY <1>2, <1>3, <1>4 DEF Written, HeldSet
  <1>5. CASE ~(t.nWritePos + Extent(f) <= t.nSize)
    BY <1>2, <1>3, <1>5
  <1> QED BY <1>4, <1>5

LEMMA WritesRun ==
  ASSUME NEW s \in HeldSet, NEW fields, AllFields(fields)
  PROVE  \E h : WriteRun(h, fields) /\ h[0] = s /\ WriteFields(s, fields) = h[Len(fields)]
  <1>1. PICK n \in Nat : n = Len(fields)
    BY LenProperties DEF AllFields
  <1>2. ASSUME NEW t \in HeldSet, NEW k \in 1..n PROVE WriteField(t, fields[k]) \in HeldSet
    BY <1>1, WriteFieldType DEF AllFields
  <1> DEFINE F == [p \in HeldSet \X (1..n) |-> WriteField(p[1], fields[p[2]])]
             Walk(h) == [k \in 0..n |-> IF k = 0 THEN s ELSE WriteField(h[k - 1], fields[k])]
  <1>3. F \in [HeldSet \X (1..n) -> HeldSet]
    BY <1>2
  <1>4. PICK g \in [0..n -> HeldSet] :
          g[0] = s /\ \A k \in 1..n : g[k] = F[<<g[k - 1], k>>]
    <2>1. PICK G \in [HeldSet \X (1..n) -> HeldSet] : G = F
      BY <1>3
    <2>2. \E h : Steps(h, n, HeldSet, s, G)
      BY StepsExist
    <2> HIDE DEF F
    <2> QED BY <2>1, <2>2 DEF Steps
  <1>5. \A k \in 1..n : g[k] = WriteField(g[k - 1], fields[k])
    <2>1. ASSUME NEW k \in 1..n PROVE g[k] = WriteField(g[k - 1], fields[k])
      <3>1. g[k - 1] \in HeldSet
        BY <1>4
      <3> QED BY <1>4, <3>1
    <2> QED BY <2>1
  <1>6. g = Walk(g)
    BY <1>4, <1>5
  <1> HIDE DEF F
  <1>7. PICK h : h = Walk(h) /\ WriteFields(s, fields) = h[n]
    <2>1. WriteFields(s, fields) = (CHOOSE h : h = Walk(h))[n]
      BY <1>1 DEF WriteFields
    <2>2. (CHOOSE h : h = Walk(h)) = Walk(CHOOSE h : h = Walk(h))
      <3> HIDE DEF Walk
      <3> QED BY <1>6
    <2> HIDE DEF Walk
    <2> QED BY <2>1, <2>2
  <1>8. h[0] = s /\ \A k \in 1..n : h[k] = WriteField(h[k - 1], fields[k])
    BY <1>7
  <1>9. h \in [0..n -> HeldSet]
    <2> DEFINE T == {k \in 0..n : h[k] \in HeldSet}
    <2>1. 0 \in T
      BY <1>8
    <2>2. ASSUME NEW k \in 0..n - 1, k \in T PROVE k + 1 \in T
      <3>1. k + 1 \in 1..n /\ h[k] \in HeldSet /\ h[k + 1] = WriteField(h[k], fields[k + 1])
        BY <1>8, <2>2
      <3>2. h[k + 1] \in HeldSet
        BY <1>2, <3>1
      <3> QED BY <3>1, <3>2
    <2>3. 0..n \subseteq T
      <3> HIDE DEF T
      <3> QED BY <2>1, <2>2, UpTo, Zenon
    <2>4. \A k \in 0..n : h[k] \in HeldSet
      BY <2>3
    <2>5. PICK w : w = h /\ w = [k \in 0..n |-> IF k = 0 THEN s ELSE WriteField(h[k - 1], fields[k])]
      BY <1>7
    <2>6. w = [k \in 0..n |-> w[k]]
      BY <2>5
    <2> QED BY <2>4, <2>5, <2>6
  <1> HIDE DEF Walk
  <1> QED BY <1>1, <1>7, <1>8, <1>9 DEF WriteRun

First(fields, k) == [i \in 1..k |-> fields[i]]

LEMMA FirstFacts ==
  ASSUME NEW fields, AllFields(fields)
  PROVE  /\ First(fields, 0) = <<>> /\ First(fields, Len(fields)) = fields
         /\ \A k \in 0..Len(fields) - 1 :
              Append(First(fields, k), fields[k + 1]) = First(fields, k + 1)
         /\ \A k \in 0..Len(fields) :
              /\ AllFields(First(fields, k)) /\ Len(First(fields, k)) = k
              /\ \A i \in 1..k : First(fields, k)[i] = fields[i]
  <1>1. PICK n \in Nat : n = Len(fields) /\ fields \in Seq(Field)
                         /\ \A k \in 1..n : fields[k] \in Field /\ IsField(fields[k])
    BY LenProperties, ElementOfSeq DEF AllFields
  <1>2. ASSUME NEW k \in 0..n
        PROVE  /\ First(fields, k) \in Seq(Field) /\ Len(First(fields, k)) = k
               /\ \A i \in 1..k : First(fields, k)[i] = fields[i]
    <2>1. \A i \in 1..k : fields[i] \in Field
      BY <1>1
    <2> QED BY <2>1, IsASeq DEF First
  <1>3. \A k \in 0..n : AllFields(First(fields, k))
    BY <1>1, <1>2 DEF AllFields
  <1>4. First(fields, 0) = <<>>
    <2>1. First(fields, 0) \in Seq(Field) /\ Len(First(fields, 0)) = 0
      BY <1>2
    <2> QED BY <2>1, EmptySeq
  <1>5. First(fields, n) = fields
    BY <1>1, <1>2, SeqEqual
  <1>6. ASSUME NEW k \in 0..n - 1
        PROVE  Append(First(fields, k), fields[k + 1]) = First(fields, k + 1)
    <2>1. PICK p \in Seq(Field) : /\ p = First(fields, k) /\ Len(p) = k
                                  /\ \A i \in 1..k : p[i] = fields[i]
      BY <1>2
    <2>2. PICK q \in Seq(Field) : /\ q = First(fields, k + 1) /\ Len(q) = k + 1
                                  /\ \A i \in 1..k + 1 : q[i] = fields[i]
      BY <1>2
    <2>3. PICK f \in Field : f = fields[k + 1]
      BY <1>1
    <2>4. /\ Append(p, f) \in Seq(Field) /\ Len(Append(p, f)) = k + 1
          /\ \A i \in 1..k : Append(p, f)[i] = p[i]
          /\ Append(p, f)[k + 1] = f
      BY <2>1, AppendProperties
    <2>5. \A i \in 1..k + 1 : Append(p, f)[i] = q[i]
      BY <2>1, <2>2, <2>3, <2>4
    <2>6. Append(p, f) = q
      BY <2>2, <2>4, <2>5, SeqEqual
    <2> QED BY <2>1, <2>2, <2>3, <2>6
  <1> QED BY <1>1, <1>2, <1>3, <1>4, <1>5, <1>6

\* The first K fields, which end at these positions, fit into s.
Fit(s, fields, K, at) ==
  /\ K \in 0..Len(fields) /\ at[0] = s.nWritePos
  /\ \A k \in 1..K : at[k] = at[k - 1] + Extent(fields[k]) /\ at[k] <= s.nSize

\* As long as the fields fit, each is held where the one before it ends.
LEMMA WriteHolds ==
  ASSUME NEW fields, AllFields(fields), NEW h, WriteRun(h, fields), StreamHolds(h[0], <<>>),
         NEW K, NEW at, Fit(h[0], fields, K, at)
  PROVE  StreamHolds(h[K], First(fields, K)) /\ h[K].nWritePos = at[K] /\ h[K].nSize = h[0].nSize
  <1>1. PICK n \in Nat : n = Len(fields) /\ K \in 0..n
    BY LenProperties DEF AllFields, Fit
  <1> DEFINE T == {k \in 0..K : /\ StreamHolds(h[k], First(fields, k))
                                /\ h[k].nWritePos = at[k] /\ h[k].nSize = h[0].nSize}
  <1>2. 0 \in T
    BY <1>1, FirstFacts DEF Fit
  <1>3. ASSUME NEW k \in 0..K - 1, k \in T PROVE k + 1 \in T
    <2>1. /\ StreamHolds(h[k], First(fields, k)) /\ h[k].nWritePos = at[k]
          /\ h[k].nSize = h[0].nSize
      BY <1>3
    <2>2. PICK f : f = fields[k + 1] /\ IsField(f) /\ h[k + 1] = WriteField(h[k], f)
      <3>1. k + 1 \in 1..n /\ (k + 1) - 1 = k
        BY <1>1
      <3> QED BY <1>1, <3>1 DEF AllFields, WriteRun
    <2>3. at[k + 1] = at[k] + Extent(f) /\ at[k + 1] <= h[0].nSize
      <3>1. k + 1 \in 1..K /\ (k + 1) - 1 = k
        BY <1>1
      <3> QED BY <2>2, <3>1 DEF Fit
    <2>4. Append(First(fields, k), f) = First(fields, k + 1)
      <3>1. k \in 0..Len(fields) - 1
        BY <1>1
      <3>2. Append(First(fields, k), fields[k + 1]) = First(fields, k + 1)
        BY <3>1, FirstFacts
      <3> QED BY <2>2, <3>2
    <2>5. /\ StreamHolds(WriteField(h[k], f), Append(First(fields, k), f))
          /\ WriteField(h[k], f).nWritePos = h[k].nWritePos + Extent(f)
          /\ WriteField(h[k], f).nSize = h[k].nSize
      BY <2>1, <2>2, <2>3, HoldsNext
    <2>6. /\ StreamHolds(h[k + 1], First(fields, k + 1))
          /\ h[k + 1].nWritePos = at[k + 1] /\ h[k + 1].nSize = h[0].nSize
      BY <2>1, <2>2, <2>3, <2>4, <2>5
    <2>7. k + 1 \in 0..K
      BY <1>1
    <2> QED BY <2>6, <2>7
  <1>4. 0..K \subseteq T
    <2>1. K \in Nat
      BY <1>1
    <2> HIDE DEF T
    <2> QED BY <1>2, <1>3, <2>1, UpTo, Zenon
  <1>5. K \in T
    <2>1. K \in 0..K
      BY <1>1
    <2> HIDE DEF T
    <2> QED BY <1>4, <2>1
  <1> QED BY <1>5

-----------------------------------------------------------------------------
(* The answer to a logout *)

\* What was read of a logout whose arrays have a, b and c elements.
WasRead(got, a, b, c) ==
  /\ a \in 0..32 /\ b \in 0..32 /\ c \in 0..10
  /\ got \in Seq(Seq(Byte)) /\ Len(got) = 10
  /\ \A i \in 3..7 : Len(got[i]) = LogoutWidths[i - 1]
  /\ Len(got[8]) = a /\ Len(got[9]) = b /\ Len(got[10]) = 4 * c

\* ans are the fields of the answer to it.
IsAnswer(ans, got, a, b, c) ==
  /\ a \in 0..32 /\ b \in 0..32 /\ c \in 0..10
  /\ ans = LogoutAnswer(got) /\ AllFields(ans) /\ Len(ans) = 9
  /\ \A k \in 1..9 : /\ ans[k].width = LogoutWidths[k]
                     /\ ans[k].as = IF k <= 6 THEN "scalar" ELSE "array"
  /\ ans[1].value = CMD_LOGOUT_RESULT
  /\ \A k \in 2..9 : ans[k].value = got[k + 1]
  /\ ans[7].n = a /\ ans[8].n = b /\ ans[9].n = c
  /\ \A k \in 1..6 : Extent(ans[k]) = LogoutWidths[k]
  /\ Extent(ans[7]) = 4 + a /\ Extent(ans[8]) = 4 + b /\ Extent(ans[9]) = 4 + 4 * c

\* f is field k of the answer, and has n elements.
IsPart(f, k, got, n) ==
  /\ IsField(f) /\ f \in Field /\ f.width = LogoutWidths[k] /\ f.n = n
  /\ f.as = (IF k <= 6 THEN "scalar" ELSE "array")
  /\ f.value = (IF k = 1 THEN CMD_LOGOUT_RESULT ELSE got[k + 1])
  /\ Extent(f) = IF k <= 6 THEN LogoutWidths[k] ELSE 4 + LogoutWidths[k] * n

LEMMA PartIs ==
  ASSUME NEW got \in Seq(Seq(Byte)), Len(got) = 10
  PROVE  /\ IsPart(Scalar(CMD_LOGOUT_RESULT), 1, got, 1)
         /\ \A k \in 2..6 : Len(got[k + 1]) = LogoutWidths[k] =>
                               IsPart(Scalar(got[k + 1]), k, got, 1)
         /\ \A k \in 7..9 : \A n \in Lengths : Len(got[k + 1]) = LogoutWidths[k] * n =>
                               IsPart(Array(LogoutWidths[k], 0, got[k + 1]), k, got, n)
  <1>1. IsPart(Scalar(CMD_LOGOUT_RESULT), 1, got, 1)
    <2>1. 13 \in Byte /\ 0 \in Byte
      BY DEF Byte
    <2>2. <<13, 0>> \in Seq(Byte) /\ Len(<<13, 0>>) = 2
      BY <2>1
    <2>3. PICK v \in Seq(Byte) : v = CMD_LOGOUT_RESULT /\ Len(v) = 2
      BY <2>2 DEF CMD_LOGOUT_RESULT
    <2>4. 2 \in Widths
      BY DEF Widths
    <2>5. PICK f : f = Scalar(v)
      OBVIOUS
    <2>6. /\ IsField(f) /\ f \in Field /\ f.as = "scalar" /\ f.width = 2 /\ f.value = v
          /\ f.n = 1 /\ Extent(f) = 2
      BY <2>3, <2>4, <2>5, ScalarIs
    <2> QED BY <2>3, <2>5, <2>6, LogoutWidthFacts DEF IsPart
  <1>2. ASSUME NEW k \in 2..6, Len(got[k + 1]) = LogoutWidths[k]
        PROVE  IsPart(Scalar(got[k + 1]), k, got, 1)
    <2>1. PICK i \in 1..10 : i = k + 1
      OBVIOUS
    <2>2. PICK v \in Seq(Byte) : v = got[i]
      BY ElementOfSeq
    <2>3. Len(v) = LogoutWidths[k] /\ Len(v) \in Widths
      BY <1>2, <2>1, <2>2, LogoutWidthFacts
    <2>4. PICK f : f = Scalar(v)
      OBVIOUS
    <2>5. /\ IsField(f) /\ f \in Field /\ f.as = "scalar" /\ f.width = Len(v) /\ f.value = v
          /\ f.n = 1 /\ Extent(f) = Len(v)
      BY <2>3, <2>4, ScalarIs
    <2> QED BY <2>1, <2>2, <2>3, <2>4, <2>5 DEF IsPart
  <1>3. ASSUME NEW k \in 7..9, NEW n \in Lengths, Len(got[k + 1]) = LogoutWidths[k] * n
        PROVE  IsPart(Array(LogoutWidths[k], 0, got[k + 1]), k, got, n)
    <2>1. PICK i \in 1..10 : i = k + 1
      OBVIOUS
    <2>2. PICK v \in Seq(Byte) : v = got[i]
      BY ElementOfSeq
    <2>3. PICK w \in Widths : w = LogoutWidths[k]
      BY LogoutWidthFacts
    <2>4. 0 \in Lengths
      BY Bounds DEF Lengths
    <2>5. Len(v) = w * n
      BY <1>3, <2>1, <2>2, <2>3
    <2>6. PICK f : f = Array(w, 0, v)
      OBVIOUS
    <2>7. /\ IsField(f) /\ f \in Field /\ f.as = "array" /\ f.width = w /\ f.value = v
          /\ f.n = n /\ Extent(f) = 4 + w * n
      BY <2>4, <2>5, <2>6, ArrayIs
    <2> QED BY <2>1, <2>2, <2>3, <2>6, <2>7 DEF IsPart
  <1> QED BY <1>1, <1>2, <1>3

LEMMA AnswerFields ==
  ASSUME NEW got, NEW a, NEW b, NEW c, WasRead(got, a, b, c)
  PROVE  \E ans : IsAnswer(ans, got, a, b, c)
  <1>1. /\ got \in Seq(Seq(Byte)) /\ Len(got) = 10
        /\ a \in 0..32 /\ b \in 0..32 /\ c \in 0..10
    BY DEF WasRead
  <1> DEFINE part(k) == IF k = 1 THEN Scalar(CMD_LOGOUT_RESULT)
                        ELSE IF k <= 6 THEN Scalar(got[k + 1])
                        ELSE Array(LogoutWidths[k], 0, got[k + 1])
  <1>2. IsPart(part(1), 1, got, 1)
    BY <1>1, PartIs
  <1>3. ASSUME NEW k \in 2..6 PROVE IsPart(part(k), k, got, 1)
    <2>1. k + 1 \in 3..7 /\ (k + 1) - 1 = k
      OBVIOUS
    <2>2. Len(got[k + 1]) = LogoutWidths[(k + 1) - 1]
      BY <2>1 DEF WasRead
    <2>3. Len(got[k + 1]) = LogoutWidths[k]
      BY <2>1, <2>2
    <2>4. part(k) = Scalar(got[k + 1])
      OBVIOUS
    <2> HIDE DEF part
    <2> QED BY <1>1, <2>3, <2>4, PartIs
  <1>4. ASSUME NEW k \in 7..9, NEW n \in Lengths, Len(got[k + 1]) = LogoutWidths[k] * n
        PROVE  IsPart(part(k), k, got, n)
    <2>1. part(k) = Array(LogoutWidths[k], 0, got[k + 1])
      OBVIOUS
    <2> HIDE DEF part
    <2> QED BY <1>1, <1>4, <2>1, PartIs
  <1>5. a \in Lengths /\ b \in Lengths /\ c \in Lengths /\ 1 * a = a /\ 1 * b = b
    BY <1>1, Bounds DEF Lengths
  <1>6. IsPart(part(7), 7, got, a) /\ IsPart(part(8), 8, got, b) /\ IsPart(part(9), 9, got, c)
    <2>1. 7 + 1 = 8 /\ 8 + 1 = 9 /\ 9 + 1 = 10 /\ 7 \in 7..9 /\ 8 \in 7..9 /\ 9 \in 7..9
      OBVIOUS
    <2>2. /\ Len(got[7 + 1]) = LogoutWidths[7] * a /\ Len(got[8 + 1]) = LogoutWidths[8] * b
          /\ Len(got[9 + 1]) = LogoutWidths[9] * c
      BY <1>5, <2>1, LogoutWidthFacts DEF WasRead
    <2> HIDE DEF part
    <2> QED BY <1>4, <1>5, <2>1, <2>2
  <1>7. ASSUME NEW k \in 1..9 PROVE \E n : IsPart(part(k), k, got, n)
    <2>1. k = 1 \/ k \in 2..6 \/ k = 7 \/ k = 8 \/ k = 9
      OBVIOUS
    <2> HIDE DEF part
    <2> QED BY <1>2, <1>3, <1>6, <2>1
  <1> DEFINE all == [k \in 1..9 |-> part(k)]
  <1>8. all = LogoutAnswer(got)
    BY DEF LogoutAnswer
  <1>9. \A k \in 1..9 : all[k] = part(k)
    <2> HIDE DEF part
    <2> QED OBVIOUS
  <1>10. all \in Seq(Field) /\ Len(all) = 9
    <2>1. \A k \in 1..9 : part(k) \in Field
      <3> HIDE DEF part
      <3> QED BY <1>7 DEF IsPart
    <2> HIDE DEF part
    <2> QED BY <2>1, IsASeq
  <1> HIDE DEF all, part
  <1>11. \A k \in 1..9 : \E n : IsPart(all[k], k, got, n)
    BY <1>7, <1>9
  <1>12. AllFields(all)
    BY <1>10, <1>11 DEF AllFields, IsPart
  <1>13. \A k \in 1..9 : /\ all[k].width = LogoutWidths[k]
                         /\ all[k].as = IF k <= 6 THEN "scalar" ELSE "array"
    BY <1>11 DEF IsPart
  <1>14. all[1].value = CMD_LOGOUT_RESULT /\ \A k \in 2..9 : all[k].value = got[k + 1]
    <2>1. \A k \in 1..9 : all[k].value = IF k = 1 THEN CMD_LOGOUT_RESULT ELSE got[k + 1]
      BY <1>11 DEF IsPart
    <2>2. 1 \in 1..9 /\ \A k \in 2..9 : k \in 1..9 /\ k # 1
      OBVIOUS
    <2> QED BY <2>1, <2>2
  <1>15. IsPart(all[7], 7, got, a) /\ IsPart(all[8], 8, got, b) /\ IsPart(all[9], 9, got, c)
    BY <1>6, <1>9
  <1>16. \A k \in 1..6 : Extent(all[k]) = LogoutWidths[k]
    <2>1. \A k \in 1..6 : k \in 1..9
      OBVIOUS
    <2> QED BY <1>11, <2>1 DEF IsPart
  <1>17. /\ all[7].n = a /\ all[8].n = b /\ all[9].n = c
         /\ Extent(all[7]) = 4 + LogoutWidths[7] * a /\ Extent(all[8]) = 4 + LogoutWidths[8] * b
         /\ Extent(all[9]) = 4 + LogoutWidths[9] * c
    BY <1>15 DEF IsPart
  <1>18. Extent(all[7]) = 4 + a /\ Extent(all[8]) = 4 + b /\ Extent(all[9]) = 4 + 4 * c
    BY <1>5, <1>17, LogoutWidthFacts
  <1> QED BY <1>1, <1>8, <1>10, <1>12, <1>13, <1>14, <1>16, <1>17, <1>18 DEF IsAnswer

\* Where each field of the answer ends.
AnswerEndsAt(at, ans, end) ==
  /\ at \in [0..9 -> Nat] /\ at[0] = 2 /\ at[9] = end
  /\ \A k \in 1..9 : at[k] = at[k - 1] + Extent(ans[k])
  /\ \A k \in 1..8 : at[k] <= 128

LEMMA AnswerEnds ==
  ASSUME NEW ans, NEW got, NEW a, NEW b, NEW c,
         IsAnswer(ans, got, a, b, c)
  PROVE  \E at : AnswerEndsAt(at, ans, 35 + a + b + 4 * c)
  <1>1. PICK x, y, z : /\ x = a /\ y = b /\ z = 4 * c
                       /\ x \in 0..32 /\ y \in 0..32 /\ z \in 0..40
    <2>1. a \in 0..32 /\ b \in 0..32 /\ 4 * c \in 0..40
      BY DEF IsAnswer
    <2> QED BY <2>1
  <1>2. PICK d : d = ans
    OBVIOUS
  <1>3. /\ Extent(d[1]) = 2 /\ Extent(d[2]) = 1 /\ Extent(d[3]) = 2 /\ Extent(d[4]) = 4
        /\ Extent(d[5]) = 4 /\ Extent(d[6]) = 8
        /\ Extent(d[7]) = 4 + x /\ Extent(d[8]) = 4 + y /\ Extent(d[9]) = 4 + z
    BY <1>1, <1>2, LogoutWidthFacts DEF IsAnswer
  <1> DEFINE Ends == [k \in 0..9 |->
                       IF k = 0 THEN 2 ELSE IF k = 1 THEN 4 ELSE IF k = 2 THEN 5
                       ELSE IF k = 3 THEN 7 ELSE IF k = 4 THEN 11 ELSE IF k = 5 THEN 15
                       ELSE IF k = 6 THEN 23 ELSE IF k = 7 THEN 27 + x
                       ELSE IF k = 8 THEN 31 + x + y ELSE 35 + x + y + z]
  <1>4. Ends \in [0..9 -> Nat]
    BY <1>1
  <1>5. PICK at \in [0..9 -> Nat] :
          /\ at[0] = 2 /\ at[1] = 4 /\ at[2] = 5 /\ at[3] = 7 /\ at[4] = 11 /\ at[5] = 15
          /\ at[6] = 23 /\ at[7] = 27 + x /\ at[8] = 31 + x + y /\ at[9] = 35 + x + y + z
    <2>1. /\ Ends[0] = 2 /\ Ends[1] = 4 /\ Ends[2] = 5 /\ Ends[3] = 7 /\ Ends[4] = 11
          /\ Ends[5] = 15 /\ Ends[6] = 23 /\ Ends[7] = 27 + x /\ Ends[8] = 31 + x + y
          /\ Ends[9] = 35 + x + y + z
      BY <1>1
    <2> HIDE DEF Ends
    <2> QED BY <1>4, <2>1
  <1> HIDE DEF Ends
  <1>6. ASSUME NEW k \in 1..9 PROVE at[k] = at[k - 1] + Extent(d[k])
    <2>1. k = 1 \/ k = 2 \/ k = 3 \/ k = 4 \/ k = 5 \/ k = 6 \/ k = 7 \/ k = 8 \/ k = 9
      OBVIOUS
    <2>2. CASE k = 1
      BY <1>1, <1>3, <1>5, <2>2
    <2>3. CASE k = 2
      BY <1>1, <1>3, <1>5, <2>3
    <2>4. CASE k = 3
      BY <1>1, <1>3, <1>5, <2>4
    <2>5. CASE k = 4
      BY <1>1, <1>3, <1>5, <2>5
    <2>6. CASE k = 5
      BY <1>1, <1>3, <1>5, <2>6
    <2>7. CASE k = 6
      BY <1>1, <1>3, <1>5, <2>7
    <2>8. CASE k = 7
      BY <1>1, <1>3, <1>5, <2>8
    <2>9. CASE k = 8
      BY <1>1, <1>3, <1>5, <2>9
    <2>10. CASE k = 9
      BY <1>1, <1>3, <1>5, <2>10
    <2> QED BY <2>1, <2>2, <2>3, <2>4, <2>5, <2>6, <2>7, <2>8, <2>9, <2>10
  <1>7. \A k \in 1..8 : at[k] <= 128
    BY <1>1, <1>5
  <1>8. at[9] = 35 + a + b + 4 * c
    BY <1>1, <1>5
  <1> QED BY <1>2, <1>5, <1>6, <1>7, <1>8 DEF AnswerEndsAt

\* The stream of 128 bytes takes the answer, or all of it but the integers.
LEMMA AnswerHolds ==
  ASSUME NEW got, NEW a, NEW b, NEW c, WasRead(got, a, b, c)
  PROVE  \E w, ans :
           /\ MessageHolds(Sent(finsh(WriteFields(CELLWriteStream(128), LogoutAnswer(got)))), w)
           /\ LogoutFields(w) /\ IsAnswer(ans, got, a, b, c)
           /\ Len(w) = (IF 35 + a + b + 4 * c <= 128 THEN 9 ELSE 8)
           /\ \A k \in 1..Len(w) : w[k] = ans[k]
  <1>1. PICK ans : IsAnswer(ans, got, a, b, c)
    BY AnswerFields
  <1>2. /\ ans = LogoutAnswer(got) /\ AllFields(ans) /\ Len(ans) = 9
        /\ \A k \in 1..9 : /\ IsField(ans[k]) /\ ans[k].width = LogoutWidths[k]
                           /\ ans[k].as = IF k <= 6 THEN "scalar" ELSE "array"
    BY <1>1 DEF IsAnswer, AllFields
  <1>3. PICK all : all = 35 + a + b + 4 * c
    OBVIOUS
  <1>11. PICK at : AnswerEndsAt(at, ans, all)
    BY <1>1, <1>3, AnswerEnds
  <1>4. PICK s : /\ s = CELLWriteStream(128) /\ StreamHolds(s, <<>>) /\ s.nSize = 128
                 /\ s.nWritePos = 2 /\ s \in HeldSet
    <2>1. 128 \in 2..MaxUint16
      BY Bounds
    <2>2. PICK t : t = CELLWriteStream(128) /\ StreamHolds(t, <<>>) /\ t.nSize = 128
                   /\ t.nWritePos = 2
      BY <2>1, HoldsNone
    <2>3. t \in StreamSet
      BY <2>2 DEF StreamHolds
    <2>4. t \in HeldSet
      BY <2>2, <2>3 DEF HeldSet
    <2> QED BY <2>2, <2>4
  <1>5. PICK h : WriteRun(h, ans) /\ h[0] = s /\ WriteFields(s, ans) = h[9]
    <2>1. \E h : WriteRun(h, ans) /\ h[0] = s /\ WriteFields(s, ans) = h[Len(ans)]
      <3>1. AllFields(ans) /\ s \in HeldSet
        BY <1>2, <1>4
      <3> QED BY <3>1, WritesRun, Zenon
    <2> QED BY <1>2, <2>1
  <1>6. ASSUME NEW K \in 8..9, at[K] <= 128
        PROVE  StreamHolds(h[K], First(ans, K)) /\ h[K].nWritePos = at[K] /\ h[K].nSize = 128
    <2>1. K \in 0..9 /\ \A k \in 1..K : k \in 1..9 /\ (k \in 1..8 \/ k = K)
      OBVIOUS
    <2>2. \A k \in 1..K : at[k] = at[k - 1] + Extent(ans[k]) /\ at[k] <= 128
      BY <1>11, <1>6, <2>1 DEF AnswerEndsAt
    <2>3. /\ at[0] = h[0].nWritePos /\ StreamHolds(h[0], <<>>) /\ h[0].nSize = 128
      BY <1>11, <1>4, <1>5 DEF AnswerEndsAt
    <2>4. K \in 0..Len(ans)
      BY <1>2, <2>1
    <2>5. Fit(h[0], ans, K, at)
      BY <2>2, <2>3, <2>4 DEF Fit
    <2>6. StreamHolds(h[K], First(ans, K)) /\ h[K].nWritePos = at[K] /\ h[K].nSize = h[0].nSize
      <3>1. AllFields(ans) /\ WriteRun(h, ans)
        BY <1>2, <1>5
      <3>2. StreamHolds(h[0], <<>>)
        BY <2>3
      <3> QED BY <2>5, <3>1, <3>2, WriteHolds, ZenonT(60)
    <2> QED BY <2>3, <2>6
  <1>7. ASSUME NEW K \in 8..9, StreamHolds(h[9], First(ans, K))
        PROVE  \E w : /\ MessageHolds(Sent(finsh(h[9])), w) /\ LogoutFields(w) /\ Len(w) = K
                      /\ \A k \in 1..K : w[k] = ans[k]
    <2>1. K \in 0..9 /\ \A k \in 1..K : k \in 1..9
      OBVIOUS
    <2>2. K \in 0..Len(ans)
      BY <1>2, <2>1
    <2>3. PICK w : /\ w = First(ans, K) /\ AllFields(w) /\ Len(w) = K
                   /\ \A k \in 1..K : w[k] = ans[k]
      <3>1. AllFields(ans)
        BY <1>2
      <3>2. /\ AllFields(First(ans, K)) /\ Len(First(ans, K)) = K
            /\ \A i \in 1..K : First(ans, K)[i] = ans[i]
        BY <2>2, <3>1, FirstFacts
      <3> QED BY <3>2
    <2>4. LogoutFields(w)
      BY <1>2, <2>1, <2>3 DEF LogoutFields
    <2>5. MessageHolds(Sent(finsh(h[9])), w)
      BY <1>7, <2>3, SentHolds
    <2> QED BY <2>3, <2>4, <2>5
  <1>8. at[9] = all /\ at[8] <= 128 /\ at[9] = at[8] + Extent(ans[9])
    <2>1. 9 \in 1..9 /\ 9 - 1 = 8 /\ 8 \in 1..8
      OBVIOUS
    <2> QED BY <1>11, <2>1 DEF AnswerEndsAt
  <1>9. \E w : /\ MessageHolds(Sent(finsh(h[9])), w) /\ LogoutFields(w)
               /\ Len(w) = (IF all <= 128 THEN 9 ELSE 8)
               /\ \A k \in 1..Len(w) : w[k] = ans[k]
    <2>1. CASE all <= 128
      <3>1. at[9] <= 128 /\ 9 \in 8..9
        BY <1>8, <2>1
      <3>2. StreamHolds(h[9], First(ans, 9))
        BY <1>6, <3>1
      <3>3. PICK w : /\ MessageHolds(Sent(finsh(h[9])), w) /\ LogoutFields(w) /\ Len(w) = 9
                     /\ \A k \in 1..9 : w[k] = ans[k]
        BY <1>7, <3>1, <3>2
      <3> QED BY <2>1, <3>3
    <2>2. CASE ~(all <= 128)
      <3>1. at[8] <= 128 /\ 8 \in 8..9
        BY <1>8
      <3>2. StreamHolds(h[8], First(ans, 8)) /\ h[8].nWritePos = at[8] /\ h[8].nSize = 128
        BY <1>6, <3>1
      <3>3. IsField(ans[9]) /\ h[9] = WriteField(h[8], ans[9])
        <4>1. 9 \in 1..9 /\ 9 - 1 = 8
          OBVIOUS
        <4> QED BY <1>2, <1>5, <4>1 DEF WriteRun
      <3>4. ~(h[8].nWritePos + Extent(ans[9]) <= h[8].nSize)
        BY <1>8, <2>2, <3>2
      <3>5. h[9] = h[8]
        BY <3>2, <3>3, <3>4, HoldsNext
      <3>6. PICK w : /\ MessageHolds(Sent(finsh(h[9])), w) /\ LogoutFields(w) /\ Len(w) = 8
                     /\ \A k \in 1..8 : w[k] = ans[k]
        BY <1>7, <3>1, <3>2, <3>5
      <3> QED BY <2>2, <3>6
    <2> QED BY <2>1, <2>2
  <1>10. h[9] = WriteFields(CELLWriteStream(128), LogoutAnswer(got))
    BY <1>2, <1>4, <1>5
  <1> QED BY <1>1, <1>3, <1>9, <1>10

\* The variables that arrays are read into, as a function of which array.
LEMMA Rooms ==
  ASSUME NEW x \in Lengths, NEW y \in Lengths, NEW z \in Lengths
  PROVE  \E rooms \in [1..3 -> Lengths] :
           rooms = <<x, y, z>> /\ rooms[1] = x /\ rooms[2] = y /\ rooms[3] = z
  <1>1. PICK rooms : rooms = <<x, y, z>>
    OBVIOUS
  <1>2. rooms \in Seq(Lengths) /\ Len(rooms) = 3
    BY <1>1
  <1>3. rooms \in [1..3 -> Lengths]
    BY <1>2, LenProperties
  <1> QED BY <1>1, <1>3

\* What was read of the logout l: a, b and c elements of its arrays, each whole
\* or not at all.
LogoutRead(got, l, a, b, c) ==
  LET name == l[7].n <= 32
      pw == name /\ l[8].n <= 32
      ata == pw /\ l[9].n <= 10
  IN
  /\ WasRead(got, a, b, c)
  /\ \A i \in 3..7 : got[i] = l[i - 1].value
  /\ a = (IF name THEN l[7].n ELSE 0) /\ got[8] = (IF name THEN l[7].value ELSE <<>>)
  /\ b = (IF pw THEN l[8].n ELSE 0) /\ got[9] = (IF pw THEN l[8].value ELSE <<>>)
  /\ c = (IF ata THEN l[9].n ELSE 0) /\ got[10] = (IF ata THEN l[9].value ELSE <<>>)

LEMMA LogoutIsRead ==
  ASSUME NEW m, NEW l, MessageHolds(m, l), IsLogout(l)
  PROVE  \E a, b, c : LogoutRead(ReadLogout(m, <<32, 32, 10>>), l, a, b, c)
  <1>1. PICK rooms \in [1..3 -> Lengths] :
          rooms = <<32, 32, 10>> /\ rooms[1] = 32 /\ rooms[2] = 32 /\ rooms[3] = 10
    <2>1. 32 \in Lengths /\ 10 \in Lengths
      BY Bounds DEF Lengths
    <2> QED BY <2>1, Rooms
  <1>2. AllFields(l) /\ Len(l) = 9 /\ LogoutFields(l)
    <2>1. l \in Seq(Field) /\ Len(l) = 9
          /\ \A k \in 1..9 : /\ IsField(l[k]) /\ l[k].width = LogoutWidths[k]
                             /\ l[k].as = IF k <= 6 THEN "scalar" ELSE "array"
      BY DEF IsLogout
    <2> QED BY <2>1 DEF LogoutFields, AllFields
  <1>3. PICK got : got = ReadLogout(m, <<32, 32, 10>>)
    OBVIOUS
  <1>4. PICK n7, n8, n9 : n7 = l[7].n /\ n8 = l[8].n /\ n9 = l[9].n
    OBVIOUS
  <1>5. PICK v7, v8, v9 : v7 = l[7].value /\ v8 = l[8].value /\ v9 = l[9].value
    OBVIOUS
  <1>6. /\ n7 \in Nat /\ n8 \in Nat /\ n9 \in Nat
        /\ Len(v7) = n7 /\ Len(v8) = n8 /\ Len(v9) = 4 * n9
    <2>1. IsField(l[7]) /\ IsField(l[8]) /\ IsField(l[9])
      BY <1>2 DEF AllFields
    <2>2. /\ l[7].width = 1 /\ l[8].width = 1 /\ l[9].width = 4
      BY LogoutWidthFacts DEF IsLogout
    <2>3. /\ n7 \in Nat /\ Len(v7) = 1 * n7 /\ n8 \in Nat /\ Len(v8) = 1 * n8
          /\ n9 \in Nat /\ Len(v9) = 4 * n9
      BY <1>4, <1>5, <2>1, <2>2, FieldFacts
    <2> QED BY <2>3
  <1>7. \A k \in 1..6 : Len(l[k].value) = LogoutWidths[k]
    <2>1. ASSUME NEW k \in 1..6 PROVE Len(l[k].value) = LogoutWidths[k]
      <3>1. IsField(l[k]) /\ l[k].as = "scalar" /\ l[k].width = LogoutWidths[k]
        BY DEF IsLogout
      <3> QED BY <3>1, FieldFacts
    <2> QED BY <2>1
  <1>8. /\ got \in Seq(Seq(Byte)) /\ Len(got) = 10
        /\ got[1] = Bytes(Len(m), 2) /\ \A k \in 1..6 : got[k + 1] = l[k].value
        /\ got[8] = (IF n7 <= 32 THEN v7 ELSE <<>>)
        /\ n7 <= 32 => got[9] = IF n8 <= 32 THEN v8 ELSE <<>>
        /\ n7 > 32 /\ n7 > 32 /\ n7 > 10 => got[9] = <<>> /\ got[10] = <<>>
        /\ n7 <= 32 /\ n8 > 32 /\ n8 > 10 => got[10] = <<>>
        /\ n7 <= 32 /\ n8 <= 32 =>
             got[10] = IF Len(l) = 9 /\ n9 <= 10 THEN v9 ELSE <<>>
    <2>1. LogoutReads(got, m, l, rooms)
      BY <1>1, <1>2, <1>3, LogoutGot
    <2> QED BY <1>1, <1>4, <1>5, <2>1 DEF LogoutReads
  <1>9. /\ got[9] = (IF n7 <= 32 /\ n8 <= 32 THEN v8 ELSE <<>>)
        /\ got[10] = (IF n7 <= 32 /\ n8 <= 32 /\ n9 <= 10 THEN v9 ELSE <<>>)
    <2>1. CASE n7 > 32
      <3>1. n7 > 10 /\ ~(n7 <= 32)
        BY <1>6, <2>1
      <3> QED BY <1>8, <2>1, <3>1
    <2>2. CASE n7 <= 32 /\ n8 > 32
      <3>1. n8 > 10 /\ ~(n8 <= 32)
        BY <1>6, <2>2
      <3> QED BY <1>8, <2>2, <3>1
    <2>3. CASE n7 <= 32 /\ n8 <= 32
      BY <1>2, <1>8, <2>3
    <2>4. n7 > 32 \/ (n7 <= 32 /\ n8 > 32) \/ (n7 <= 32 /\ n8 <= 32)
      BY <1>6
    <2> QED BY <2>1, <2>2, <2>3, <2>4
  <1>10. PICK a, b, c : /\ a = (IF n7 <= 32 THEN n7 ELSE 0)
                        /\ b = (IF n7 <= 32 /\ n8 <= 32 THEN n8 ELSE 0)
                        /\ c = (IF n7 <= 32 /\ n8 <= 32 /\ n9 <= 10 THEN n9 ELSE 0)
    OBVIOUS
  <1>11. a \in 0..32 /\ b \in 0..32 /\ c \in 0..10
    BY <1>6, <1>10
  <1>12. PICK none \in Seq(Byte) : none = <<>> /\ Len(none) = 0
    BY EmptySeq
  <1>13. Len(got[8]) = a /\ Len(got[9]) = b /\ Len(got[10]) = 4 * c
    <2>1. /\ got[8] = (IF n7 <= 32 THEN v7 ELSE none)
          /\ got[9] = (IF n7 <= 32 /\ n8 <= 32 THEN v8 ELSE none)
          /\ got[10] = (IF n7 <= 32 /\ n8 <= 32 /\ n9 <= 10 THEN v9 ELSE none)
      BY <1>8, <1>9, <1>12
    <2>2. Len(got[8]) = a /\ Len(got[9]) = b
      BY <1>6, <1>10, <1>12, <2>1
    <2>3. Len(got[10]) = 4 * c
      <3>1. CASE n7 <= 32 /\ n8 <= 32 /\ n9 <= 10
        BY <1>6, <1>10, <2>1, <3>1
      <3>2. CASE ~(n7 <= 32 /\ n8 <= 32 /\ n9 <= 10)
        <4>1. c = 0 /\ got[10] = none
          BY <1>10, <2>1, <3>2
        <4> QED BY <1>12, <4>1
      <3> QED BY <3>1, <3>2
    <2> QED BY <2>2, <2>3
  <1>14. \A i \in 3..7 : got[i] = l[i - 1].value
    <2>1. ASSUME NEW i \in 3..7 PROVE got[i] = l[i - 1].value
      <3>1. PICK k \in 1..6 : k = i - 1 /\ k + 1 = i
        OBVIOUS
      <3>2. got[k + 1] = l[k].value
        BY <1>8
      <3> QED BY <3>1, <3>2
    <2> QED BY <2>1
  <1>15. \A i \in 3..7 : Len(got[i]) = LogoutWidths[i - 1]
    <2>1. \A i \in 3..7 : i - 1 \in 1..6
      OBVIOUS
    <2> QED BY <1>7, <1>14, <2>1
  <1>16. WasRead(got, a, b, c)
    BY <1>8, <1>11, <1>13, <1>15 DEF WasRead
  <1>17. LogoutRead(got, l, a, b, c)
    <2>1. /\ got[8] = (IF l[7].n <= 32 THEN l[7].value ELSE <<>>)
          /\ a = (IF l[7].n <= 32 THEN l[7].n ELSE 0)
      BY <1>4, <1>5, <1>8, <1>10
    <2>2. /\ got[9] = (IF l[7].n <= 32 /\ l[8].n <= 32 THEN l[8].value ELSE <<>>)
          /\ b = (IF l[7].n <= 32 /\ l[8].n <= 32 THEN l[8].n ELSE 0)
      BY <1>4, <1>5, <1>9, <1>10
    <2>3. /\ got[10] = (IF (l[7].n <= 32 /\ l[8].n <= 32) /\ l[9].n <= 10
                        THEN l[9].value ELSE <<>>)
          /\ c = (IF (l[7].n <= 32 /\ l[8].n <= 32) /\ l[9].n <= 10 THEN l[9].n ELSE 0)
      BY <1>4, <1>5, <1>9, <1>10
    <2> QED BY <1>14, <1>16, <2>1, <2>2, <2>3 DEF LogoutRead
  <1> QED BY <1>3, <1>17

\* What the answer says when it is read with larger variables, out.
LEMMA AnswerIsRead ==
  ASSUME NEW got, NEW a, NEW b, NEW c, WasRead(got, a, b, c), NEW m,
         m = Sent(finsh(WriteFields(CELLWriteStream(128), LogoutAnswer(got))))
  PROVE  LET out == ReadLogout(m, <<99, 99, 99>>) IN
         /\ out \in Seq(Seq(Byte)) /\ Len(out) = 10
         /\ out[1] = Bytes(Len(m), 2) /\ out[2] = CMD_LOGOUT_RESULT
         /\ \A i \in 3..9 : out[i] = got[i]
         /\ out[10] = IF 35 + a + b + 4 * c <= 128 THEN got[10] ELSE <<>>
  <1>1. PICK rooms \in [1..3 -> Lengths] :
          rooms = <<99, 99, 99>> /\ rooms[1] = 99 /\ rooms[2] = 99 /\ rooms[3] = 99
    <2>1. 99 \in Lengths
      BY Bounds DEF Lengths
    <2> QED BY <2>1, Rooms
  <1>2. PICK w, ans :
          /\ MessageHolds(m, w) /\ LogoutFields(w) /\ IsAnswer(ans, got, a, b, c)
          /\ Len(w) = (IF 35 + a + b + 4 * c <= 128 THEN 9 ELSE 8)
          /\ \A k \in 1..Len(w) : w[k] = ans[k]
    BY AnswerHolds
  <1>3. PICK out : out = ReadLogout(m, rooms)
    OBVIOUS
  <1>4. /\ a \in 0..32 /\ b \in 0..32 /\ c \in 0..10
        /\ ans[1].value = CMD_LOGOUT_RESULT /\ \A k \in 2..9 : ans[k].value = got[k + 1]
        /\ ans[7].n = a /\ ans[8].n = b /\ ans[9].n = c
    BY <1>2 DEF IsAnswer
  <1>5. PICK all : all = 35 + a + b + 4 * c
    OBVIOUS
  <1>6. Len(w) = IF all <= 128 THEN 9 ELSE 8
    BY <1>2, <1>5
  <1>7. \A k \in 1..8 : w[k] = ans[k]
    BY <1>2, <1>6
  <1>8. w[7].n = a /\ w[8].n = b /\ a <= 99 /\ b <= 99
    BY <1>4, <1>7
  <1>9. /\ out \in Seq(Seq(Byte)) /\ Len(out) = 10
        /\ out[1] = Bytes(Len(m), 2) /\ \A k \in 1..6 : out[k + 1] = w[k].value
        /\ out[8] = w[7].value /\ out[9] = w[8].value
        /\ out[10] = IF Len(w) = 9 /\ w[9].n <= 99 THEN w[9].value ELSE <<>>
    <2>1. LogoutReads(out, m, w, rooms)
      BY <1>2, <1>3, LogoutGot
    <2> QED BY <1>1, <1>8, <2>1 DEF LogoutReads
  <1>10. out[2] = CMD_LOGOUT_RESULT
    <2>1. 1 \in 1..6 /\ 1 + 1 = 2 /\ 1 \in 1..8
      OBVIOUS
    <2>2. out[1 + 1] = w[1].value
      BY <1>9, <2>1
    <2> QED BY <1>4, <1>7, <2>1, <2>2
  <1>11. ASSUME NEW i \in 3..9 PROVE out[i] = got[i]
    <2>1. PICK k \in 2..8 : k + 1 = i
      <3>1. i - 1 \in 2..8 /\ (i - 1) + 1 = i
        OBVIOUS
      <3> QED BY <3>1
    <2>2. w[k].value = got[i]
      <3>1. k \in 2..9 /\ k \in 1..8
        OBVIOUS
      <3>2. ans[k].value = got[k + 1]
        BY <1>4, <3>1
      <3> QED BY <1>7, <2>1, <3>1, <3>2
    <2>3. out[i] = w[k].value
      <3>1. k \in 1..6 \/ (k = 7 /\ i = 8) \/ (k = 8 /\ i = 9)
        BY <2>1
      <3>2. k \in 1..6 => out[k + 1] = w[k].value
        BY <1>9
      <3> QED BY <1>9, <2>1, <3>1, <3>2
    <2> QED BY <2>2, <2>3
  <1>12. out[10] = IF all <= 128 THEN got[10] ELSE <<>>
    <2>1. CASE ~(all <= 128)
      BY <1>6, <1>9, <2>1
    <2>2. CASE all <= 128
      <3>1. 9 \in 1..Len(w) /\ 9 \in 2..9 /\ 9 + 1 = 10 /\ Len(w) = 9
        BY <1>6, <2>2
      <3>2. w[9] = ans[9]
        BY <1>2, <3>1
      <3>3. w[9].n <= 99 /\ w[9].value = got[9 + 1]
        BY <1>4, <3>1, <3>2
      <3> QED BY <1>9, <2>2, <3>1, <3>3
    <2> QED BY <2>1, <2>2
  <1> QED BY <1>1, <1>3, <1>5, <1>9, <1>10, <1>11, <1>12

\* r is p, of length x, and then q, of length y.
Joins(r, S, p, q, x, y) ==
  /\ r \in Seq(S) /\ Len(r) = x + y
  /\ \A i \in 1..x : r[i] = p[i]
  /\ \A j \in 1..y : r[x + j] = q[j]

LEMMA Joining ==
  ASSUME NEW S, NEW p \in Seq(S), NEW q \in Seq(S), NEW x \in Nat, NEW y \in Nat,
         Len(p) = x, Len(q) = y
  PROVE  Joins(p \o q, S, p, q, x, y)
  <1>1. /\ p \o q \in Seq(S) /\ Len(p \o q) = Len(p) + Len(q)
        /\ \A i \in 1..Len(p) + Len(q) :
             (p \o q)[i] = IF i <= Len(p) THEN p[i] ELSE q[i - Len(p)]
    BY ConcatProperties
  <1>2. PICK r : r = p \o q
    OBVIOUS
  <1>3. \A i \in 1..x + y : r[i] = IF i <= x THEN p[i] ELSE q[i - x]
    BY <1>1, <1>2
  <1>4. \A i \in 1..x : r[i] = p[i]
    BY <1>3
  <1>5. ASSUME NEW j \in 1..y PROVE r[x + j] = q[j]
    <2>1. PICK i \in 1..x + y : i = x + j /\ ~(i <= x) /\ i - x = j
      OBVIOUS
    <2>2. r[i] = q[i - x]
      BY <1>3, <2>1
    <2> QED BY <2>1, <2>2
  <1> QED BY <1>1, <1>2, <1>4, <1>5 DEF Joins

\* out says what p, q and r, of lengths 2, 5 and 3, say one after the other.
InParts(out, S, p, q, r) ==
  /\ p \in Seq(S) /\ q \in Seq(S) /\ r \in Seq(S) /\ Len(p) = 2 /\ Len(q) = 5 /\ Len(r) = 3
  /\ out \in Seq(S) /\ Len(out) = 10
  /\ out[1] = p[1] /\ out[2] = p[2] /\ \A k \in 1..5 : out[k + 2] = q[k]
  /\ out[8] = r[1] /\ out[9] = r[2] /\ out[10] = r[3]

LEMMA ThreeParts ==
  ASSUME NEW S, NEW p, NEW q, NEW r, NEW out, InParts(out, S, p, q, r)
  PROVE  out = p \o q \o r
  <1>1. /\ p \in Seq(S) /\ q \in Seq(S) /\ r \in Seq(S)
        /\ Len(p) = 2 /\ Len(q) = 5 /\ Len(r) = 3
        /\ 2 \in Nat /\ 5 \in Nat /\ 7 \in Nat /\ 3 \in Nat
    BY DEF InParts
  <1>2. Joins(p \o q, S, p, q, 2, 5)
    BY <1>1, Joining, Zenon
  <1>3. PICK h : h = p \o q
    OBVIOUS
  <1>4. /\ h \in Seq(S) /\ Len(h) = 7 /\ \A i \in 1..2 : h[i] = p[i]
        /\ \A k \in 1..5 : h[2 + k] = q[k]
    <2>1. Joins(h, S, p, q, 2, 5)
      BY <1>2, <1>3
    <2>2. h \in Seq(S) /\ Len(h) = 2 + 5
      BY <2>1 DEF Joins
    <2>3. \A i \in 1..2 : h[i] = p[i]
      BY <2>1, Zenon DEF Joins
    <2>4. \A k \in 1..5 : h[2 + k] = q[k]
      BY <2>1, Zenon DEF Joins
    <2> QED BY <2>2, <2>3, <2>4
  <1>5. Joins(h \o r, S, h, r, 7, 3)
    BY <1>1, <1>4, Joining, Zenon
  <1>6. PICK w : w = h \o r
    OBVIOUS
  <1>7. /\ w \in Seq(S) /\ Len(w) = 10 /\ \A i \in 1..7 : w[i] = h[i]
        /\ \A k \in 1..3 : w[7 + k] = r[k]
    <2>1. Joins(w, S, h, r, 7, 3)
      BY <1>5, <1>6
    <2>2. w \in Seq(S) /\ Len(w) = 7 + 3
      BY <2>1 DEF Joins
    <2>3. \A i \in 1..7 : w[i] = h[i]
      BY <2>1, Zenon DEF Joins
    <2>4. \A k \in 1..3 : w[7 + k] = r[k]
      BY <2>1, Zenon DEF Joins
    <2> QED BY <2>2, <2>3, <2>4
  <1>8. w[1] = out[1] /\ w[2] = out[2]
    <2>1. 1 \in 1..2 /\ 2 \in 1..2 /\ 1 \in 1..7 /\ 2 \in 1..7
      OBVIOUS
    <2> QED BY <1>4, <1>7, <2>1 DEF InParts
  <1>9. ASSUME NEW k \in 1..5 PROVE w[k + 2] = out[k + 2]
    <2>1. k + 2 \in 1..7 /\ k + 2 = 2 + k
      OBVIOUS
    <2>2. w[k + 2] = h[k + 2] /\ h[2 + k] = q[k]
      BY <1>4, <1>7, <2>1
    <2>3. out[k + 2] = q[k]
      BY DEF InParts
    <2> QED BY <2>1, <2>2, <2>3
  <1>10. w[8] = out[8] /\ w[9] = out[9] /\ w[10] = out[10]
    <2>1. 7 + 1 = 8 /\ 7 + 2 = 9 /\ 7 + 3 = 10 /\ 1 \in 1..3 /\ 2 \in 1..3 /\ 3 \in 1..3
      OBVIOUS
    <2>2. w[7 + 1] = r[1] /\ w[7 + 2] = r[2] /\ w[7 + 3] = r[3]
      BY <1>7, <2>1
    <2> QED BY <2>1, <2>2 DEF InParts
  <1>11. ASSUME NEW i \in 1..10 PROVE out[i] = w[i]
    <2>1. i = 1 \/ i = 2 \/ (i - 2 \in 1..5 /\ (i - 2) + 2 = i) \/ i = 8 \/ i = 9 \/ i = 10
      OBVIOUS
    <2>2. CASE i - 2 \in 1..5 /\ (i - 2) + 2 = i
      BY <1>9, <2>2
    <2> QED BY <1>8, <1>10, <2>1, <2>2
  <1>12. out = w
    <2>1. out \in Seq(S) /\ Len(out) = Len(w)
      BY <1>7 DEF InParts
    <2>2. \A i \in 1..Len(out) : out[i] = w[i]
      BY <1>7, <1>11, <2>1
    <2> QED BY <1>7, <2>1, <2>2, SeqEqual
  <1> QED BY <1>3, <1>6, <1>12

LEMMA AnswerIsAlwaysWhole == StreamInv => AnswerIsWhole
  <1> SUFFICES ASSUME StreamInv, IsLogout(kept) PROVE AnswerIsWhole
    BY DEF AnswerIsWhole
  <1>1. PICK m : m = message /\ MessageHolds(m, kept)
    BY SentHolds DEF StreamInv, message
  <1>2. PICK got, a, b, c : got = ReadLogout(m, <<32, 32, 10>>) /\ LogoutRead(got, kept, a, b, c)
    BY <1>1, LogoutIsRead
  <1>3. PICK answer : answer = OnLogout(m)
    OBVIOUS
  <1>4. answer = Sent(finsh(WriteFields(CELLWriteStream(128), LogoutAnswer(got))))
    BY <1>2, <1>3 DEF OnLogout
  <1>5. PICK out : out = ReadLogout(answer, <<99, 99, 99>>)
    OBVIOUS
  <1>6. /\ out \in Seq(Seq(Byte)) /\ Len(out) = 10
        /\ out[1] = Bytes(Len(answer), 2) /\ out[2] = CMD_LOGOUT_RESULT
        /\ \A i \in 3..9 : out[i] = got[i]
        /\ out[10] = IF 35 + a + b + 4 * c <= 128 THEN got[10] ELSE <<>>
    <2>1. WasRead(got, a, b, c)
      BY <1>2 DEF LogoutRead
    <2> QED BY <1>4, <1>5, <2>1, AnswerIsRead
  <1>7. /\ \A k \in 1..9 : IsField(kept[k])
        /\ \A k \in 1..9 : kept[k].n \in Nat /\ kept[k].value \in Seq(Byte)
    <2>1. \A k \in 1..9 : IsField(kept[k])
      BY DEF IsLogout
    <2> QED BY <2>1, FieldFacts
  <1> DEFINE n == [k \in 1..3 |-> kept[6 + k].n]
             name == n[1] <= 32
             pw == name /\ n[2] <= 32
             ata == pw /\ n[3] <= 10 /\ 35 + n[1] + n[2] + 4 * n[3] <= 128
             whole == <<name, pw, ata>>
             arrays == [k \in 1..3 |-> IF whole[k] THEN kept[6 + k].value ELSE <<>>]
             scalars == [k \in 1..5 |-> kept[1 + k].value]
             head == <<Bytes(Len(answer), 2), CMD_LOGOUT_RESULT>>
  <1>8. n[1] = kept[7].n /\ n[2] = kept[8].n /\ n[3] = kept[9].n
    OBVIOUS
  <1>9. /\ arrays[1] = (IF name THEN kept[7].value ELSE <<>>)
        /\ arrays[2] = (IF pw THEN kept[8].value ELSE <<>>)
        /\ arrays[3] = (IF ata THEN kept[9].value ELSE <<>>)
    <2>1. whole[1] = name /\ whole[2] = pw /\ whole[3] = ata
      <3> HIDE DEF name, pw, ata
      <3> QED OBVIOUS
    <2>2. /\ arrays[1] = (IF whole[1] THEN kept[7].value ELSE <<>>)
          /\ arrays[2] = (IF whole[2] THEN kept[8].value ELSE <<>>)
          /\ arrays[3] = (IF whole[3] THEN kept[9].value ELSE <<>>)
      <3> HIDE DEF whole
      <3> QED OBVIOUS
    <2> HIDE DEF whole, arrays, name, pw, ata
    <2> QED BY <2>1, <2>2
  <1>10. out[8] = arrays[1] /\ out[9] = arrays[2] /\ out[10] = arrays[3]
    <2>1. 8 \in 3..9 /\ 9 \in 3..9
      OBVIOUS
    <2>2. out[8] = got[8] /\ out[9] = got[9]
      BY <1>6, <2>1
    <2>3. /\ name <=> kept[7].n <= 32
          /\ pw <=> kept[7].n <= 32 /\ kept[8].n <= 32
          /\ ata <=> /\ kept[7].n <= 32 /\ kept[8].n <= 32 /\ kept[9].n <= 10
                     /\ 35 + kept[7].n + kept[8].n + 4 * kept[9].n <= 128
      BY <1>8
    <2> HIDE DEF n, name, pw, ata, whole, arrays, scalars, head
    <2>4. out[8] = arrays[1] /\ out[9] = arrays[2]
      BY <1>2, <1>9, <2>2, <2>3 DEF LogoutRead
    <2>5. out[10] = arrays[3]
      <3>1. PICK x, y, z : /\ x = kept[7].n /\ y = kept[8].n /\ z = kept[9].n
                           /\ x \in Nat /\ y \in Nat /\ z \in Nat
        <4>1. 7 \in 1..9 /\ 8 \in 1..9 /\ 9 \in 1..9
          OBVIOUS
        <4>2. kept[7].n \in Nat /\ kept[8].n \in Nat /\ kept[9].n \in Nat
          BY <1>7, <4>1
        <4> QED BY <4>2
      <3>2. PICK v : v = kept[9].value
        OBVIOUS
      <3>3. /\ a = (IF x <= 32 THEN x ELSE 0) /\ b = (IF x <= 32 /\ y <= 32 THEN y ELSE 0)
            /\ c = (IF x <= 32 /\ y <= 32 /\ z <= 10 THEN z ELSE 0)
            /\ got[10] = (IF x <= 32 /\ y <= 32 /\ z <= 10 THEN v ELSE <<>>)
        BY <1>2, <3>1, <3>2 DEF LogoutRead
      <3>4. arrays[3] = IF /\ x <= 32 /\ y <= 32 /\ z <= 10 /\ 35 + x + y + 4 * z <= 128
                        THEN v ELSE <<>>
        BY <1>9, <2>3, <3>1, <3>2
      <3>5. CASE x <= 32 /\ y <= 32 /\ z <= 10
        <4>1. a = x /\ b = y /\ c = z /\ got[10] = v
          BY <3>3, <3>5
        <4>2. out[10] = IF 35 + x + y + 4 * z <= 128 THEN v ELSE <<>>
          BY <1>6, <4>1
        <4> QED BY <3>4, <3>5, <4>2
      <3>6. CASE ~(x <= 32 /\ y <= 32 /\ z <= 10)
        <4>1. got[10] = <<>> /\ arrays[3] = <<>>
          BY <3>3, <3>4, <3>6
        <4> QED BY <1>6, <4>1
      <3> QED BY <3>5, <3>6
    <2> QED BY <2>4, <2>5
  <1>11. \A k \in 1..5 : out[k + 2] = scalars[k]
    <2>1. ASSUME NEW k \in 1..5 PROVE out[k + 2] = scalars[k]
      <3>1. PICK i \in 3..7 : i = k + 2 /\ i - 1 = 1 + k
        OBVIOUS
      <3>2. i \in 3..9
        OBVIOUS
      <3>3. got[i] = kept[i - 1].value
        BY <1>2 DEF LogoutRead
      <3>4. scalars[k] = kept[1 + k].value
        OBVIOUS
      <3> HIDE DEF scalars
      <3> QED BY <1>6, <3>1, <3>2, <3>3, <3>4
    <2> QED BY <2>1
  <1>12. out = head \o scalars \o arrays
    <2>1. head \in Seq(Seq(Byte)) /\ Len(head) = 2 /\ head[1] = out[1] /\ head[2] = out[2]
      <3>1. PICK x \in Seq(Byte), y \in Seq(Byte) :
              x = Bytes(Len(answer), 2) /\ y = CMD_LOGOUT_RESULT
        <4>1. 1 \in 1..Len(out) /\ 2 \in 1..Len(out)
          BY <1>6
        <4>2. out[1] \in Seq(Byte) /\ out[2] \in Seq(Byte)
          <5>1. out \in Seq(Seq(Byte))
            BY <1>6
          <5> QED BY <4>1, <5>1, ElementOfSeq
        <4> QED BY <1>6, <4>2
      <3>2. PICK p : p = <<x, y>>
        OBVIOUS
      <3>3. p \in Seq(Seq(Byte)) /\ Len(p) = 2 /\ p[1] = x /\ p[2] = y
        BY <3>2
      <3>4. head = p
        BY <3>1, <3>2
      <3> HIDE DEF head
      <3> QED BY <1>6, <3>1, <3>3, <3>4
    <2>2. scalars \in Seq(Seq(Byte)) /\ Len(scalars) = 5
      <3>1. \A k \in 1..5 : kept[1 + k].value \in Seq(Byte)
        <4>1. \A k \in 1..5 : 1 + k \in 1..9
          OBVIOUS
        <4> QED BY <1>7, <4>1
      <3> QED BY <3>1, IsASeq
    <2>3. arrays \in Seq(Seq(Byte)) /\ Len(arrays) = 3
      <3>1. \A k \in 1..3 : (IF whole[k] THEN kept[6 + k].value ELSE <<>>) \in Seq(Byte)
        <4>1. \A k \in 1..3 : 6 + k \in 1..9
          OBVIOUS
        <4>2. <<>> \in Seq(Byte)
          BY EmptySeq
        <4> HIDE DEF whole
        <4> QED BY <1>7, <4>1, <4>2
      <3> HIDE DEF whole
      <3> QED BY <3>1, IsASeq
    <2> HIDE DEF n, name, pw, ata, whole, arrays, scalars, head
    <2>4. out \in Seq(Seq(Byte)) /\ Len(out) = 10
      BY <1>6
    <2>5. InParts(out, Seq(Byte), head, scalars, arrays)
      BY <1>10, <1>11, <2>1, <2>2, <2>3, <2>4 DEF InParts
    <2> QED BY <2>5, ThreeParts, Zenon
  <1> HIDE DEF n, name, pw, ata, whole, arrays, scalars, head
  <1> QED BY <1>1, <1>3, <1>5, <1>12 DEF AnswerIsWhole, n, name, pw, ata, whole, arrays, scalars, head

\* The answer to a logout says its own length and command and repeats the
\* logout, each array whole or not at all, for every logout that fits into the
\* stream of its sender (server.cpp:73-107).
THEOREM AnswerAlwaysWhole == StreamSpec => []AnswerIsWhole
  BY StreamInvariance, AnswerIsAlwaysWhole, PTL

=============================================================================
