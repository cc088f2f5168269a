------------------------- MODULE LoginSessionProofs --------------------------
(***************************************************************************)
(* Proofs about LoginSession for any length of a message, any sizes of the *)
(* buffers and of the kernel's, and any number of logins: what is on its   *)
(* way in one direction is always the messages that are not handled, whole *)
(* and in order, however reads and writes cut it, no buffer overflows, and *)
(* no recv() finds its buffer full.                                        *)
(*                                                                         *)
(* The argument is about whole sequences.  A read, or a part of a send(),  *)
(* moves the border between two of the three parts of a stream and leaves  *)
(* the stream as it is; a message that is written extends it by its units, *)
(* and one that is handled is its first MsgLen units.  A recv() has room   *)
(* because its thread has handled what there was: what is left does not    *)
(* make a message, and the buffer has room for one.                        *)
(***************************************************************************)
EXTENDS LoginSession, SequenceTheorems, TLAPS

MsgUnits == Nat \X (1..MsgLen)

-----------------------------------------------------------------------------
(* Numbers *)

LEMMA DivMod ==
  ASSUME NEW u \in Nat, NEW m \in Nat \ {0}
  PROVE  u \div m \in Nat /\ (u % m) \in 0..m - 1 /\ u = (m * (u \div m)) + (u % m)
  OBVIOUS

LEMMA DivModOf ==
  ASSUME NEW q \in Nat, NEW r \in Nat, NEW m \in Nat \ {0}, r < m
  PROVE  ((m * q) + r) \div m = q /\ ((m * q) + r) % m = r
  OBVIOUS

LEMMA DivModAdd ==
  ASSUME NEW u \in Nat, NEW m \in Nat \ {0}
  PROVE  (u + m) \div m = (u \div m) + 1 /\ (u + m) % m = u % m
  <1>1. PICK q \in Nat, r \in 0..m - 1 :
          q = u \div m /\ r = u % m /\ u = (m * q) + r
    BY DivMod
  <1>2. u + m = (m * (q + 1)) + r
    BY <1>1
  <1>3. ((m * (q + 1)) + r) \div m = q + 1 /\ ((m * (q + 1)) + r) % m = r
    BY DivModOf
  <1>4. (u + m) \div m = q + 1 /\ (u + m) % m = r
    BY <1>2, <1>3
  <1> QED BY <1>1, <1>4

-----------------------------------------------------------------------------
(* Sequences *)

LEMMA PopFacts ==
  ASSUME NEW S, NEW s \in Seq(S), NEW n \in 0..Len(s)
  PROVE  /\ pop(s, n) \in Seq(S) /\ Len(pop(s, n)) = Len(s) - n
         /\ \A i \in 1..Len(s) - n : pop(s, n)[i] = s[n + i]
         /\ pop(s, Len(s)) = <<>>
  <1>1. \A i \in n + 1..Len(s) : s[i] \in S
    BY ElementOfSeq
  <1>2. /\ SubSeq(s, n + 1, Len(s)) \in Seq(S)
        /\ Len(SubSeq(s, n + 1, Len(s))) = IF n + 1 <= Len(s) THEN Len(s) - (n + 1) + 1 ELSE 0
        /\ \A i \in 1..Len(s) - (n + 1) + 1 : SubSeq(s, n + 1, Len(s))[i] = s[(n + 1) + i - 1]
    BY <1>1, SubSeqProperties
  <1>3. SubSeq(s, Len(s) + 1, Len(s)) = <<>>
    BY SubSeqEmpty
  <1> QED BY <1>2, <1>3 DEF pop

\* Concatenation, of two sequences, of three and of four; Same() is how a lemma
\* says that two sequences are equal.
Same(s, t) == s = t

LEMMA ConcatFacts ==
  ASSUME NEW S, NEW s \in Seq(S), NEW t \in Seq(S)
  PROVE  /\ s \o t \in Seq(S) /\ Len(s \o t) = Len(s) + Len(t)
         /\ Len(s) > 0 => (s \o t)[1] = s[1]
  <1>1. s \o t \in Seq(S) /\ Len(s \o t) = Len(s) + Len(t)
    BY ConcatProperties, Zenon
  <1>2. Len(s) > 0 => (s \o t)[1] = s[1]
    OBVIOUS
  <1> QED BY <1>1, <1>2

LEMMA ThreeParts ==
  ASSUME NEW S, NEW s \in Seq(S), NEW t \in Seq(S), NEW u \in Seq(S)
  PROVE  Same((s \o t) \o u, s \o (t \o u))
  BY ConcatAssociative DEF Same

LEMMA FourParts ==
  ASSUME NEW S, NEW s \in Seq(S), NEW t \in Seq(S), NEW u \in Seq(S), NEW v \in Seq(S)
  PROVE  Same((s \o (t \o u)) \o v, (s \o t) \o (u \o v))
  <1>1. s \o (t \o u) = (s \o t) \o u
    BY ConcatAssociative, SMTT(30)
  <1>2. PICK w \in Seq(S) : w = s \o t
    BY ConcatProperties
  <1>3. (w \o u) \o v = w \o (u \o v)
    BY ConcatAssociative, SMTT(30)
  <1> QED BY <1>1, <1>2, <1>3, Zenon DEF Same

\* The first n elements and the rest are the whole.
LEMMA Split ==
  ASSUME NEW S, NEW s \in Seq(S), NEW n \in 0..Len(s)
  PROVE  /\ SubSeq(s, 1, n) \in Seq(S) /\ Len(SubSeq(s, 1, n)) = n
         /\ SubSeq(s, 1, n) \o pop(s, n) = s
  <1>1. SubSeq(s, 1, n) \o SubSeq(s, n + 1, Len(s)) = SubSeq(s, 1, Len(s))
    <2>1. 1 \in 1..Len(s) + 1 /\ n \in 1 - 1..Len(s) /\ Len(s) \in n..Len(s)
      OBVIOUS
    <2> QED BY <2>1, ConcatAdjacentSubSeq, Zenon
  <1>2. SubSeq(s, 1, Len(s)) = s
    BY SubSeqFull
  <1>3. \A i \in 1..n : s[i] \in S
    BY ElementOfSeq
  <1>4. SubSeq(s, 1, n) \in Seq(S) /\ Len(SubSeq(s, 1, n)) = n
    BY <1>3, SubSeqProperties
  <1> QED BY <1>1, <1>2, <1>4 DEF pop

\* What is popped off the front does not touch what was pushed at the end.
LEMMA PopConcat ==
  ASSUME NEW S, NEW s \in Seq(S), NEW t \in Seq(S), NEW n \in 0..Len(s)
  PROVE  pop(s \o t, n) = pop(s, n) \o t
  <1>1. s \o t \in Seq(S) /\ Len(s \o t) = Len(s) + Len(t)
    BY ConcatProperties
  <1>3. /\ pop(s \o t, n) \in Seq(S) /\ Len(pop(s \o t, n)) = Len(s) + Len(t) - n
        /\ \A i \in 1..Len(s) + Len(t) - n : pop(s \o t, n)[i] = (s \o t)[n + i]
    <2>1. PICK w \in Seq(S) : w = s \o t
      BY <1>1
    <2>2. Len(w) = Len(s) + Len(t) /\ n \in 0..Len(w)
      BY <1>1, <2>1
    <2>3. /\ pop(w, n) \in Seq(S) /\ Len(pop(w, n)) = Len(s) + Len(t) - n
          /\ \A i \in 1..Len(s) + Len(t) - n : pop(w, n)[i] = w[n + i]
      <3>1. /\ pop(w, n) \in Seq(S) /\ Len(pop(w, n)) = Len(w) - n
            /\ \A i \in 1..Len(w) - n : pop(w, n)[i] = w[n + i]
        BY <2>2, PopFacts, Zenon
      <3> QED BY <2>2, <3>1
    <2> QED BY <2>1, <2>3, Zenon
  <1>4. /\ pop(s, n) \in Seq(S) /\ Len(pop(s, n)) = Len(s) - n
        /\ \A i \in 1..Len(s) - n : pop(s, n)[i] = s[n + i]
    BY PopFacts
  <1>5. /\ pop(s, n) \o t \in Seq(S) /\ Len(pop(s, n) \o t) = Len(s) - n + Len(t)
        /\ \A i \in 1..Len(s) - n + Len(t) : (pop(s, n) \o t)[i] =
             IF i <= Len(s) - n THEN pop(s, n)[i] ELSE t[i - (Len(s) - n)]
    <2>1. PICK p \in Seq(S) : p = pop(s, n)
      BY <1>4
    <2>2. Len(p) = Len(s) - n
      BY <1>4, <2>1, Zenon
    <2>3. /\ p \o t \in Seq(S) /\ Len(p \o t) = Len(p) + Len(t)
          /\ \A i \in 1..Len(p) + Len(t) :
               (p \o t)[i] = IF i <= Len(p) THEN p[i] ELSE t[i - Len(p)]
      BY ConcatProperties, Zenon
    <2> QED BY <2>1, <2>2, <2>3, Zenon
  <1>6. ASSUME NEW i \in 1..Len(s) + Len(t) - n
        PROVE  pop(s \o t, n)[i] = (pop(s, n) \o t)[i]
    <2>1. (s \o t)[n + i] = IF n + i <= Len(s) THEN s[n + i] ELSE t[n + i - Len(s)]
      BY <1>1, ConcatProperties
    <2>2. CASE n + i <= Len(s)
      BY <1>3, <1>4, <1>5, <2>1, <2>2
    <2>3. CASE ~(n + i <= Len(s))
      <3>1. i - (Len(s) - n) = n + i - Len(s)
        OBVIOUS
      <3> QED BY <1>3, <1>5, <2>1, <2>3, <3>1, SMTT(30)
    <2> QED BY <2>2, <2>3
  <1>7. Len(s) + Len(t) - n = Len(s) - n + Len(t)
    OBVIOUS
  <1> QED BY <1>3, <1>5, <1>6, <1>7, SeqEqual, Zenon

\* Two pops one after the other.
LEMMA PopPop ==
  ASSUME NEW S, NEW s \in Seq(S), NEW m \in 0..Len(s), NEW n \in 0..Len(s) - m
  PROVE  pop(pop(s, m), n) = pop(s, m + n)
  <1>1. /\ pop(s, m) \in Seq(S) /\ Len(pop(s, m)) = Len(s) - m
        /\ \A i \in 1..Len(s) - m : pop(s, m)[i] = s[m + i]
    BY PopFacts
  <1>2. /\ pop(pop(s, m), n) \in Seq(S) /\ Len(pop(pop(s, m), n)) = Len(s) - m - n
        /\ \A i \in 1..Len(s) - m - n : pop(pop(s, m), n)[i] = pop(s, m)[n + i]
    BY <1>1, PopFacts
  <1>3. /\ pop(s, m + n) \in Seq(S) /\ Len(pop(s, m + n)) = Len(s) - (m + n)
        /\ \A i \in 1..Len(s) - (m + n) : pop(s, m + n)[i] = s[(m + n) + i]
    BY PopFacts
  <1>4. ASSUME NEW i \in 1..Len(s) - m - n
        PROVE  pop(pop(s, m), n)[i] = pop(s, m + n)[i]
    <2>1. m + (n + i) = (m + n) + i /\ n + i \in 1..Len(s) - m /\ i \in 1..Len(s) - (m + n)
      OBVIOUS
    <2> QED BY <1>1, <1>2, <1>3, <2>1
  <1> QED BY <1>2, <1>3, <1>4, SeqEqual

\* A stretch of a sequence is moved to the end of the one before it.
LEMMA MoveUnits ==
  ASSUME NEW S, NEW s \in Seq(S), NEW t \in Seq(S), NEW n \in 0..Len(t)
  PROVE  (s \o SubSeq(t, 1, n)) \o pop(t, n) = s \o t
  <1>1. PICK p \in Seq(S) : p = pop(t, n)
    BY PopFacts
  <1>2. PICK m \in Seq(S) : m = SubSeq(t, 1, n)
    BY Split
  <1>3. m \o p = t
    BY <1>1, <1>2, Split, Zenon
  <1>4. Same((s \o m) \o p, s \o (m \o p))
    BY ThreeParts, Zenon
  <1> QED BY <1>1, <1>2, <1>3, <1>4, Zenon DEF Same

-----------------------------------------------------------------------------
(* The three parts of a stream *)

Joined(r, w, s, n) == (r \o w) \o pop(s, n)

LEMMA JoinedType ==
  ASSUME NEW S, NEW r \in Seq(S), NEW w \in Seq(S), NEW s \in Seq(S), NEW n \in 0..Len(s)
  PROVE  Joined(r, w, s, n) \in Seq(S) /\ Len(Joined(r, w, s, n)) >= Len(r)
         /\ (Len(r) > 0 => Joined(r, w, s, n)[1] = r[1])
  <1>1. PICK p \in Seq(S) : p = pop(s, n)
    BY PopFacts
  <1>2. PICK v \in Seq(S) : v = r \o w
    BY ConcatFacts, Zenon
  <1>3. Len(v) = Len(r) + Len(w) /\ (Len(r) > 0 => v[1] = r[1])
    BY <1>2, ConcatFacts, Zenon
  <1>4. /\ v \o p \in Seq(S) /\ Len(v \o p) = Len(v) + Len(p)
        /\ Len(v) > 0 => (v \o p)[1] = v[1]
    BY ConcatFacts
  <1>5. Len(v \o p) >= Len(r) /\ (Len(r) > 0 => (v \o p)[1] = r[1])
    BY <1>3, <1>4
  <1> QED BY <1>1, <1>2, <1>4, <1>5, Zenon DEF Joined

\* recv()
LEMMA JoinedRecv ==
  ASSUME NEW S, NEW r \in Seq(S), NEW w \in Seq(S), NEW s, NEW m, NEW n \in 0..Len(w)
  PROVE  Same(Joined(r \o SubSeq(w, 1, n), pop(w, n), s, m), Joined(r, w, s, m))
  <1>1. (r \o SubSeq(w, 1, n)) \o pop(w, n) = r \o w
    BY MoveUnits
  <1> QED BY <1>1, Zenon DEF Joined, Same

\* A stretch of the send buffer, and what comes after it.
LEMMA SendPart ==
  ASSUME NEW S, NEW s \in Seq(S), NEW m \in 0..Len(s), NEW n \in 0..Len(s) - m
  PROVE  /\ SubSeq(s, m + 1, m + n) \in Seq(S) /\ pop(s, m + n) \in Seq(S)
         /\ Len(SubSeq(s, m + 1, m + n)) = n
         /\ SubSeq(s, m + 1, m + n) \o pop(s, m + n) = pop(s, m)
  <1>1. PICK p \in Seq(S) : p = pop(s, m)
    BY PopFacts
  <1>2. Len(p) = Len(s) - m /\ \A i \in 1..Len(s) - m : p[i] = s[m + i]
    BY <1>1, PopFacts
  <1>3. n \in 0..Len(p)
    BY <1>2
  <1>4. PICK q \in Seq(S) : q = pop(p, n)
    BY <1>3, PopFacts
  <1>5. q = pop(s, m + n)
    BY <1>1, <1>4, PopPop
  <1>6. PICK d \in Seq(S) : d = SubSeq(p, 1, n)
    BY <1>3, Split
  <1>7. d = SubSeq(s, m + 1, m + n)
    <2>1. \A i \in m + 1..m + n : s[i] \in S
      BY ElementOfSeq
    <2>2. SubSeq(s, m + 1, m + n) \in Seq(S)
      BY <2>1, SubSeqProperties
    <2>3. /\ Len(SubSeq(s, m + 1, m + n)) = n
          /\ \A i \in 1..n : SubSeq(s, m + 1, m + n)[i] = s[m + i]
      BY <2>1
    <2>4. /\ Len(d) = n
          /\ \A i \in 1..n : d[i] = p[i]
      BY <1>3, <1>6
    <2>5. \A i \in 1..n : p[i] = s[m + i]
      BY <1>2
    <2>6. Len(d) = Len(SubSeq(s, m + 1, m + n))
      BY <2>3, <2>4, Zenon
    <2>7. \A i \in 1..Len(d) : d[i] = SubSeq(s, m + 1, m + n)[i]
      BY <2>3, <2>4, <2>5, Zenon
    <2> QED BY <2>2, <2>6, <2>7, SeqEqual, Zenon
  <1>8. d \o q = p
    BY <1>3, <1>4, <1>6, Split, Zenon
  <1>9. Len(d) = n
    BY <1>3, <1>6, Split
  <1> QED BY <1>1, <1>5, <1>6, <1>7, <1>8, <1>9, Zenon

\* send()
LEMMA JoinedSend ==
  ASSUME NEW S, NEW r \in Seq(S), NEW w \in Seq(S), NEW s \in Seq(S),
         NEW m \in 0..Len(s), NEW n \in 0..Len(s) - m
  PROVE  Same(Joined(r, w \o SubSeq(s, m + 1, m + n), s, m + n), Joined(r, w, s, m))
  <1>1. PICK d \in Seq(S) : d = SubSeq(s, m + 1, m + n)
    BY SendPart
  <1>2. PICK q \in Seq(S) : q = pop(s, m + n)
    BY SendPart
  <1>3. d \o q = pop(s, m)
    BY <1>1, <1>2, SendPart
  <1>4. Same((r \o (w \o d)) \o q, (r \o w) \o (d \o q))
    BY FourParts, Zenon
  <1> QED BY <1>1, <1>2, <1>3, <1>4, Zenon DEF Joined, Same

\* What is left when send() returns moves to the front of the buffer.
LEMMA JoinedShort ==
  ASSUME NEW S, NEW r, NEW w, NEW s \in Seq(S), NEW m \in 0..Len(s)
  PROVE  Same(Joined(r, w, pop(s, m), 0), Joined(r, w, s, m))
  <1>1. pop(pop(s, m), 0) = pop(s, m + 0)
    BY PopPop
  <1>2. pop(pop(s, m), 0) = pop(s, m)
    BY <1>1
  <1> QED BY <1>2, Zenon DEF Joined, Same

\* A message is written,
LEMMA JoinedPush ==
  ASSUME NEW S, NEW r \in Seq(S), NEW w \in Seq(S), NEW s \in Seq(S),
         NEW t \in Seq(S), NEW m \in 0..Len(s)
  PROVE  Same(Joined(r, w, s \o t, m), Joined(r, w, s, m) \o t)
  <1>1. PICK p \in Seq(S) : p = pop(s, m)
    BY PopFacts
  <1>2. PICK v \in Seq(S) : v = r \o w
    BY ConcatFacts, Zenon
  <1>3. pop(s \o t, m) = p \o t
    BY <1>1, PopConcat
  <1>4. Same((v \o p) \o t, v \o (p \o t))
    BY ThreeParts, Zenon
  <1> QED BY <1>1, <1>2, <1>3, <1>4, Zenon DEF Joined, Same

\* or handled.
LEMMA JoinedPop ==
  ASSUME NEW S, NEW r \in Seq(S), NEW w \in Seq(S), NEW s \in Seq(S),
         NEW m \in 0..Len(s), NEW n \in 0..Len(r)
  PROVE  Same(Joined(pop(r, n), w, s, m), pop(Joined(r, w, s, m), n))
  <1>1. PICK p \in Seq(S) : p = pop(s, m)
    BY PopFacts
  <1>2. PICK v \in Seq(S) : v = r \o w
    BY ConcatFacts, Zenon
  <1>3. n \in 0..Len(v)
    BY <1>2
  <1>4. pop(v \o p, n) = pop(v, n) \o p
    BY <1>3, PopConcat
  <1>5. pop(v, n) = pop(r, n) \o w
    BY <1>2, PopConcat
  <1> QED BY <1>1, <1>2, <1>4, <1>5, Zenon DEF Joined, Same

-----------------------------------------------------------------------------
(* Messages *)

LEMMA UnitsFacts ==
  ASSUME NEW i \in Nat
  PROVE  /\ Units(i) \in Seq(MsgUnits) /\ Len(Units(i)) = MsgLen
         /\ \A k \in 1..MsgLen : Units(i)[k] = <<i, k>>
  BY MsgLenAssumption DEF Units, MsgUnits

\* The units of the messages from i up to j, and the u-th of those from i on.
Size(i, j) == (j - i) * MsgLen
UnitAt(i, u) == <<i + ((u - 1) \div MsgLen), ((u - 1) % MsgLen) + 1>>

LEMMA SizeFacts ==
  ASSUME NEW i \in Nat, NEW j \in Nat, i <= j
  PROVE  /\ Size(i, j) \in Nat /\ Size(i, i) = 0
         /\ Size(i, j + 1) = Size(i, j) + MsgLen
         /\ Size(i, j) > 0 => i < j
         /\ i < j => Size(i, j) = Size(i + 1, j) + MsgLen
  BY MsgLenAssumption DEF Size

LEMMA UnitAtFacts ==
  ASSUME NEW i \in Nat, NEW u \in Nat \ {0}
  PROVE  /\ UnitAt(i, u) \in MsgUnits
         /\ UnitAt(i, MsgLen + u) = UnitAt(i + 1, u)
  <1>1. PICK v \in Nat : v = u - 1
    OBVIOUS
  <1>2. MsgLen \in Nat \ {0}
    BY MsgLenAssumption
  <1>3. PICK q \in Nat : q = v \div MsgLen
    BY <1>2, DivMod
  <1>4. PICK r \in 0..MsgLen - 1 : r = v % MsgLen
    BY <1>2, DivMod
  <1>5. (v + MsgLen) \div MsgLen = q + 1 /\ (v + MsgLen) % MsgLen = r
    BY <1>2, <1>3, <1>4, DivModAdd, Zenon
  <1>6. (MsgLen + u) - 1 = v + MsgLen
    BY <1>1, <1>2
  <1>7. UnitAt(i, MsgLen + u) = <<i + (q + 1), r + 1>>
    BY <1>5, <1>6, Zenon DEF UnitAt
  <1>8. UnitAt(i, u) = <<i + q, r + 1>> /\ UnitAt(i + 1, u) = <<(i + 1) + q, r + 1>>
    BY <1>1, <1>3, <1>4, Zenon DEF UnitAt
  <1>9. i + (q + 1) = (i + 1) + q /\ i + q \in Nat /\ r + 1 \in 1..MsgLen
    BY <1>2
  <1>10. UnitAt(i, u) \in MsgUnits
    BY <1>8, <1>9 DEF MsgUnits
  <1>11. UnitAt(i, MsgLen + u) = UnitAt(i + 1, u)
    BY <1>7, <1>8, <1>9, Zenon
  <1> QED BY <1>10, <1>11

LEMMA UnitOfLast ==
  ASSUME NEW i \in Nat, NEW j \in Nat, i <= j, NEW k \in 1..MsgLen
  PROVE  UnitAt(i, Size(i, j) + k) = <<j, k>>
  <1>1. PICK q \in Nat : q = j - i
    OBVIOUS
  <1>2. PICK r \in Nat : r = k - 1
    OBVIOUS
  <1>3. r < MsgLen /\ MsgLen \in Nat \ {0}
    BY <1>2, MsgLenAssumption
  <1>4. ((MsgLen * q) + r) \div MsgLen = q /\ ((MsgLen * q) + r) % MsgLen = r
    BY <1>3, DivModOf, Zenon
  <1>5. (Size(i, j) + k) - 1 = (MsgLen * q) + r
    BY <1>1, <1>2, <1>3 DEF Size
  <1>6. UnitAt(i, Size(i, j) + k) = <<i + q, r + 1>>
    BY <1>4, <1>5, Zenon DEF UnitAt
  <1> QED BY <1>1, <1>2, <1>6

LEMMA MessagesFacts ==
  ASSUME NEW i \in Nat, NEW j \in Nat, i <= j
  PROVE  /\ Messages(i, j) \in Seq(MsgUnits) /\ Len(Messages(i, j)) = Size(i, j)
         /\ \A u \in 1..Size(i, j) : Messages(i, j)[u] = UnitAt(i, u)
  <1>1. PICK n \in Nat : n = Size(i, j)
    BY SizeFacts
  <1>2. \A u \in 1..n : UnitAt(i, u) \in MsgUnits
    BY UnitAtFacts
  <1>3. Messages(i, j) = [u \in 1..n |-> UnitAt(i, u)]
    BY <1>1, Zenon DEF Messages, Size, UnitAt
  <1>4. /\ Messages(i, j) \in Seq(MsgUnits) /\ Len(Messages(i, j)) = n
        /\ \A u \in 1..n : Messages(i, j)[u] = UnitAt(i, u)
    BY <1>2, <1>3
  <1> QED BY <1>1, <1>4, Zenon

\* The first of some messages begins with its header,
LEMMA MessagesFront ==
  ASSUME NEW i \in Nat, NEW j \in Nat, i <= j, Len(Messages(i, j)) > 0
  PROVE  i < j /\ Messages(i, j)[1] = <<i, 1>>
  <1>1. Size(i, j) > 0 /\ Size(i, j) \in Nat
    BY MessagesFacts, SizeFacts
  <1>2. i < j
    BY <1>1, SizeFacts
  <1>3. Size(i, i) + 1 = 1 /\ 1 \in 1..MsgLen
    BY MsgLenAssumption, SizeFacts
  <1>4. UnitAt(i, 1) = <<i, 1>>
    <2>1. UnitAt(i, Size(i, i) + 1) = <<i, 1>>
      BY <1>3, UnitOfLast
    <2> QED BY <1>3, <2>1, Zenon
  <1>5. 1 \in 1..Size(i, j)
    BY <1>1
  <1> QED BY <1>2, <1>4, <1>5, MessagesFacts

\* another one is written after the last,
LEMMA MessagesPush ==
  ASSUME NEW i \in Nat, NEW j \in Nat, i <= j
  PROVE  Messages(i, j) \o Units(j) = Messages(i, j + 1)
  <1>1. PICK m \in Seq(MsgUnits) : m = Messages(i, j)
    BY MessagesFacts
  <1>2. PICK x \in Seq(MsgUnits) : x = Units(j)
    BY UnitsFacts
  <1>3. PICK n \in Nat : n = Size(i, j)
    BY SizeFacts
  <1>4. Len(m) = n /\ \A u \in 1..n : m[u] = UnitAt(i, u)
    BY <1>1, <1>3, MessagesFacts
  <1>5. Len(x) = MsgLen /\ \A k \in 1..MsgLen : x[k] = <<j, k>>
    BY <1>2, UnitsFacts
  <1>6. PICK w \in Seq(MsgUnits) : w = Messages(i, j + 1)
    BY MessagesFacts
  <1>7. Len(w) = n + MsgLen /\ \A u \in 1..n + MsgLen : w[u] = UnitAt(i, u)
    <2>1. i <= j + 1 /\ j + 1 \in Nat /\ Size(i, j + 1) = n + MsgLen
      BY <1>3, SizeFacts
    <2>2. /\ Len(w) = Size(i, j + 1)
          /\ \A u \in 1..Size(i, j + 1) : w[u] = UnitAt(i, u)
      BY <1>6, <2>1, MessagesFacts, Zenon
    <2> QED BY <2>1, <2>2, Zenon
  <1>8. PICK y \in Seq(MsgUnits) : y = m \o x
    BY ConcatFacts, Zenon
  <1>9. /\ Len(y) = n + MsgLen
        /\ \A u \in 1..n + MsgLen : y[u] = IF u <= n THEN m[u] ELSE x[u - n]
    <2>1. /\ Len(m \o x) = Len(m) + Len(x)
          /\ \A u \in 1..Len(m) + Len(x) : (m \o x)[u] = IF u <= Len(m) THEN m[u] ELSE x[u - Len(m)]
      BY ConcatProperties
    <2> QED BY <1>4, <1>5, <1>8, <2>1, Zenon
  <1>10. ASSUME NEW u \in 1..n + MsgLen PROVE y[u] = w[u]
    <2>1. CASE u <= n
      BY <1>4, <1>7, <1>9, <2>1
    <2>2. CASE ~(u <= n)
      <3>1. PICK k \in 1..MsgLen : u = n + k /\ u - n = k
        BY <2>2, MsgLenAssumption
      <3>2. y[u] = <<j, k>>
        BY <1>5, <1>9, <2>2, <3>1
      <3>3. UnitAt(i, n + k) = <<j, k>>
        BY <1>3, UnitOfLast
      <3> QED BY <1>7, <3>1, <3>2, <3>3
    <2> QED BY <2>1, <2>2
  <1>11. y = w
    BY <1>7, <1>9, <1>10, SeqEqual
  <1> QED BY <1>1, <1>2, <1>6, <1>8, <1>11, Zenon

\* and the first is taken off.
LEMMA MessagesPop ==
  ASSUME NEW i \in Nat, NEW j \in Nat, i < j
  PROVE  /\ MsgLen \in 0..Len(Messages(i, j))
         /\ pop(Messages(i, j), MsgLen) = Messages(i + 1, j)
  <1>1. PICK m \in Seq(MsgUnits) : m = Messages(i, j)
    BY MessagesFacts
  <1>2. PICK n \in Nat : n = Size(i + 1, j)
    BY SizeFacts
  <1>3. Len(m) = n + MsgLen /\ \A u \in 1..n + MsgLen : m[u] = UnitAt(i, u)
    <2>1. i <= j /\ Size(i, j) = n + MsgLen
      BY <1>2, SizeFacts
    <2>2. Len(m) = Size(i, j) /\ \A u \in 1..Size(i, j) : m[u] = UnitAt(i, u)
      BY <1>1, <2>1, MessagesFacts, Zenon
    <2> QED BY <2>1, <2>2, Zenon
  <1>4. PICK w \in Seq(MsgUnits) : w = Messages(i + 1, j)
    BY MessagesFacts
  <1>5. Len(w) = n /\ \A u \in 1..n : w[u] = UnitAt(i + 1, u)
    <2>1. i + 1 <= j /\ i + 1 \in Nat
      OBVIOUS
    <2>2. Len(w) = Size(i + 1, j) /\ \A u \in 1..Size(i + 1, j) : w[u] = UnitAt(i + 1, u)
      BY <1>4, <2>1, MessagesFacts, Zenon
    <2> QED BY <1>2, <2>2, Zenon
  <1>6. MsgLen \in 0..Len(m) /\ Len(m) - MsgLen = n
    BY <1>3, MsgLenAssumption
  <1>7. PICK q \in Seq(MsgUnits) : q = pop(m, MsgLen)
    BY <1>6, PopFacts
  <1>8. Len(q) = n /\ \A u \in 1..n : q[u] = m[MsgLen + u]
    BY <1>6, <1>7, PopFacts
  <1>9. ASSUME NEW u \in 1..n PROVE q[u] = w[u]
    <2>1. UnitAt(i, MsgLen + u) = UnitAt(i + 1, u)
      BY UnitAtFacts
    <2>2. MsgLen + u \in 1..n + MsgLen
      BY MsgLenAssumption
    <2> QED BY <1>3, <1>5, <1>8, <2>1, <2>2
  <1>10. q = w
    BY <1>5, <1>8, <1>9, SeqEqual
  <1> QED BY <1>1, <1>4, <1>6, <1>7, <1>10, Zenon

-----------------------------------------------------------------------------
(* The invariant *)

Shapes ==
  /\ sendBuff \in [Ends -> Seq(MsgUnits)] /\ recvBuff \in [Ends -> Seq(MsgUnits)]
  /\ wire \in [Ends -> Seq(MsgUnits)] /\ sent \in [Ends -> Nat]

BufTypes ==
  \A e \in Ends :
    /\ Len(sendBuff[e]) <= SendSize /\ Len(recvBuff[e]) <= RecvSize
    /\ Len(wire[e]) <= WireCap /\ sent[e] \in 0..Len(sendBuff[e])

CtlTypes ==
  /\ pc \in [Ends -> {"send", "wait", "recv", "handle", "write", "check"}]
  /\ writable \in [Ends -> BOOLEAN]
  /\ nSendMsgID \in [Ends -> Nat \ {0}] /\ nRecvMsgID \in [Ends -> Nat \ {0}]
  /\ nSendCount \in 0..nMsg /\ turn \in 0..nMsg

\* No more is handled than was written.
OrderInv == \A e \in Ends : nRecvMsgID[Peer(e)] <= nSendMsgID[e]

\* A thread that waits or reads has handled what its buffer held, and so has
\* the client's wherever it does not handle: what is left is no whole message.
HandledInv ==
  \A e \in Ends :
    pc[e] \in {"wait", "recv"} \/ (e = "client" /\ pc[e] # "handle") =>
      Len(recvBuff[e]) < MsgLen

IInv == Shapes /\ BufTypes /\ CtlTypes /\ OrderInv /\ StreamIsWhole /\ HandledInv

LEMMA Types == IInv => TypeOK
  BY DEF IInv, Shapes, BufTypes, CtlTypes, TypeOK, MsgUnits

\* The stream that e sends.
WholeAt(e) ==
  Joined(recvBuff[Peer(e)], wire[e], sendBuff[e], sent[e])
    = Messages(nRecvMsgID[Peer(e)], nSendMsgID[e])

LEMMA Streams == StreamIsWhole <=> \A e \in Ends : WholeAt(e)
  BY Zenon DEF StreamIsWhole, WholeAt, Joined

LEMMA Peers ==
  ASSUME NEW e \in Ends
  PROVE  Peer(e) \in Ends /\ Peer(Peer(e)) = e /\ Peer(e) # e
         /\ \A f \in Ends : f = e \/ f = Peer(e)
  BY DEF Ends, Peer

LEMMA EndFacts ==
  ASSUME IInv, NEW e \in Ends
  PROVE  /\ sendBuff[e] \in Seq(MsgUnits) /\ Len(sendBuff[e]) \in 0..SendSize
         /\ recvBuff[e] \in Seq(MsgUnits) /\ Len(recvBuff[e]) \in 0..RecvSize
         /\ wire[e] \in Seq(MsgUnits) /\ Len(wire[e]) \in 0..WireCap
         /\ sent[e] \in 0..Len(sendBuff[e])
         /\ nSendMsgID[e] \in Nat \ {0} /\ nRecvMsgID[e] \in Nat \ {0}
         /\ nRecvMsgID[Peer(e)] <= nSendMsgID[e] /\ WholeAt(e)
  <1>1. nRecvMsgID[Peer(e)] <= nSendMsgID[e] /\ WholeAt(e)
    BY Streams DEF IInv, OrderInv
  <1>2. /\ sendBuff[e] \in Seq(MsgUnits) /\ recvBuff[e] \in Seq(MsgUnits)
        /\ wire[e] \in Seq(MsgUnits)
    BY DEF IInv, Shapes
  <1>3. /\ Len(sendBuff[e]) <= SendSize /\ Len(recvBuff[e]) <= RecvSize
        /\ Len(wire[e]) <= WireCap /\ sent[e] \in 0..Len(sendBuff[e])
        /\ nSendMsgID[e] \in Nat \ {0} /\ nRecvMsgID[e] \in Nat \ {0}
    BY DEF IInv, BufTypes, CtlTypes
  <1>4. /\ Len(sendBuff[e]) \in Nat /\ Len(recvBuff[e]) \in Nat /\ Len(wire[e]) \in Nat
    BY <1>2
  <1>5. SendSize \in Nat /\ RecvSize \in Nat /\ WireCap \in Nat
    BY SessionAssumption
  <1> QED BY <1>1, <1>2, <1>3, <1>4, <1>5

LEMMA MinFacts ==
  ASSUME NEW a \in Int, NEW b \in Int
  PROVE  Min({a, b}) \in {a, b} /\ Min({a, b}) <= a /\ Min({a, b}) <= b
  <1>1. \E x \in {a, b} : \A y \in {a, b} : x <= y
    OBVIOUS
  <1> QED BY <1>1, Zenon DEF Min

\* What is in a receive buffer begins with the first message not handled.
LEMMA Front ==
  ASSUME IInv, NEW e \in Ends, Len(recvBuff[e]) > 0
  PROVE  nRecvMsgID[e] < nSendMsgID[Peer(e)] /\ dataLength(recvBuff[e]) = MsgLen
  <1>1. PICK f \in Ends : f = Peer(e) /\ Peer(f) = e
    BY Peers
  <1>2. PICK r \in Seq(MsgUnits) : r = recvBuff[e]
    BY EndFacts
  <1>3. PICK i \in Nat, j \in Nat : i = nRecvMsgID[e] /\ j = nSendMsgID[f] /\ i <= j
    BY <1>1, EndFacts
  <1>4. Joined(r, wire[f], sendBuff[f], sent[f]) = Messages(i, j)
    BY <1>1, <1>2, <1>3, EndFacts, Zenon DEF WholeAt
  <1>5. /\ wire[f] \in Seq(MsgUnits) /\ sendBuff[f] \in Seq(MsgUnits)
        /\ sent[f] \in 0..Len(sendBuff[f])
    BY EndFacts
  <1>6. /\ Len(Messages(i, j)) >= Len(r)
        /\ Len(r) > 0 => Messages(i, j)[1] = r[1]
    BY <1>4, <1>5, JoinedType
  <1>7. Len(Messages(i, j)) > 0 /\ Messages(i, j)[1] = r[1]
    <2>1. Len(r) \in Nat /\ Len(r) > 0
      BY <1>2
    <2>2. Len(Messages(i, j)) = Size(i, j) /\ Size(i, j) \in Nat
      BY <1>3, MessagesFacts, SizeFacts, Zenon
    <2> QED BY <1>6, <2>1, <2>2
  <1>8. i < j /\ r[1] = <<i, 1>>
    BY <1>3, <1>7, MessagesFront
  <1>9. dataLength(r) = MsgLen
    BY <1>8 DEF dataLength
  <1> QED BY <1>1, <1>2, <1>3, <1>8, <1>9

LEMMA WholeMessage ==
  ASSUME IInv, NEW e \in Ends
  PROVE  /\ hasMsg(recvBuff[e]) => /\ nRecvMsgID[e] < nSendMsgID[Peer(e)]
                                  /\ dataLength(recvBuff[e]) = MsgLen
                                  /\ MsgLen \in 0..Len(recvBuff[e])
         /\ ~hasMsg(recvBuff[e]) => Len(recvBuff[e]) < MsgLen
  <1>1. Len(recvBuff[e]) \in Nat
    BY EndFacts
  <1> QED BY <1>1, Front, MsgLenAssumption DEF hasMsg, HeaderLen

\* What is left when it has been handled.
LEMMA Handled ==
  ASSUME IInv, NEW e \in Ends, hasMsg(recvBuff[e])
  PROVE  /\ pop(recvBuff[e], MsgLen) \in Seq(MsgUnits)
         /\ Len(pop(recvBuff[e], MsgLen)) = Len(recvBuff[e]) - MsgLen
         /\ Joined(pop(recvBuff[e], MsgLen), wire[Peer(e)], sendBuff[Peer(e)], sent[Peer(e)])
              = Messages(nRecvMsgID[e] + 1, nSendMsgID[Peer(e)])
  <1>1. PICK f \in Ends : f = Peer(e) /\ Peer(f) = e
    BY Peers
  <1>2. PICK r \in Seq(MsgUnits) : r = recvBuff[e]
    BY EndFacts
  <1>3. PICK i \in Nat, j \in Nat : i = nRecvMsgID[e] /\ j = nSendMsgID[f]
    BY <1>1, EndFacts
  <1>4. i < j /\ MsgLen \in 0..Len(r)
    BY <1>1, <1>2, <1>3, WholeMessage
  <1>5. Joined(r, wire[f], sendBuff[f], sent[f]) = Messages(i, j)
    BY <1>1, <1>2, <1>3, EndFacts, Zenon DEF WholeAt
  <1>6. /\ wire[f] \in Seq(MsgUnits) /\ sendBuff[f] \in Seq(MsgUnits)
        /\ sent[f] \in 0..Len(sendBuff[f])
    BY EndFacts
  <1>7. Same(Joined(pop(r, MsgLen), wire[f], sendBuff[f], sent[f]),
             pop(Joined(r, wire[f], sendBuff[f], sent[f]), MsgLen))
    BY <1>4, <1>6, JoinedPop, Zenon
  <1>8. pop(Messages(i, j), MsgLen) = Messages(i + 1, j)
    BY <1>4, MessagesPop
  <1>9. /\ pop(r, MsgLen) \in Seq(MsgUnits)
        /\ Len(pop(r, MsgLen)) = Len(r) - MsgLen
    BY <1>4, PopFacts
  <1> QED BY <1>1, <1>2, <1>3, <1>5, <1>7, <1>8, <1>9, Zenon DEF Same

\* What is sent when another message has been written.
LEMMA Written ==
  ASSUME IInv, NEW e \in Ends, NEW r \in Seq(MsgUnits), NEW i \in Nat,
         i <= nSendMsgID[e],
         Joined(r, wire[e], sendBuff[e], sent[e]) = Messages(i, nSendMsgID[e])
  PROVE  /\ sendBuff[e] \o Units(nSendMsgID[e]) \in Seq(MsgUnits)
         /\ Len(sendBuff[e] \o Units(nSendMsgID[e])) = Len(sendBuff[e]) + MsgLen
         /\ Joined(r, wire[e], sendBuff[e] \o Units(nSendMsgID[e]), sent[e])
              = Messages(i, nSendMsgID[e] + 1)
  <1>1. PICK j \in Nat : j = nSendMsgID[e]
    BY EndFacts
  <1>2. PICK s \in Seq(MsgUnits) : s = sendBuff[e]
    BY EndFacts
  <1>3. PICK t \in Seq(MsgUnits) : t = Units(j)
    BY UnitsFacts
  <1>4. wire[e] \in Seq(MsgUnits) /\ sent[e] \in 0..Len(s)
    BY <1>2, EndFacts
  <1>5. Same(Joined(r, wire[e], s \o t, sent[e]), Joined(r, wire[e], s, sent[e]) \o t)
    BY <1>4, JoinedPush, Zenon
  <1>6. Messages(i, j) \o Units(j) = Messages(i, j + 1)
    BY <1>1, MessagesPush
  <1>7. s \o t \in Seq(MsgUnits) /\ Len(s \o t) = Len(s) + Len(t) /\ Len(t) = MsgLen
    BY <1>1, <1>3, ConcatFacts, UnitsFacts, Zenon
  <1> QED BY <1>1, <1>2, <1>3, <1>5, <1>6, <1>7, Zenon DEF Same

-----------------------------------------------------------------------------
LEMMA InitInv == Init => IInv
  <1> SUFFICES ASSUME Init PROVE IInv
    OBVIOUS
  <1>1. Shapes /\ BufTypes /\ CtlTypes
    <2>1. <<>> \in Seq(MsgUnits) /\ Len(<<>>) = 0
      OBVIOUS
    <2> QED BY <2>1, SessionAssumption, MsgLenAssumption DEF Init, Shapes, BufTypes, CtlTypes
  <1>2. OrderInv
    BY Peers DEF Init, OrderInv
  <1>3. HandledInv
    BY MsgLenAssumption DEF Init, HandledInv
  <1>4. ASSUME NEW e \in Ends PROVE WholeAt(e)
    <2>1. Messages(1, 1) = <<>>
      <3>1. Size(1, 1) = 0 /\ Len(Messages(1, 1)) = Size(1, 1)
        BY SizeFacts, MessagesFacts
      <3>2. Messages(1, 1) \in Seq(MsgUnits)
        BY MessagesFacts
      <3> QED BY <3>1, <3>2
    <2>2. pop(<<>>, 0) = <<>>
      BY DEF pop
    <2>3. (<<>> \o <<>>) \o <<>> = <<>>
      OBVIOUS
    <2>4. Peer(e) \in Ends
      BY Peers
    <2> QED BY <2>1, <2>2, <2>3, <2>4 DEF Init, WholeAt, Joined
  <1> QED BY <1>1, <1>2, <1>3, <1>4, Streams DEF IInv

-----------------------------------------------------------------------------
(* The steps *)

\* A stream none of whose parts changes.
LEMMA StillWhole ==
  ASSUME NEW e \in Ends, WholeAt(e),
         recvBuff'[Peer(e)] = recvBuff[Peer(e)], wire'[e] = wire[e],
         sendBuff'[e] = sendBuff[e], sent'[e] = sent[e],
         nRecvMsgID'[Peer(e)] = nRecvMsgID[Peer(e)], nSendMsgID'[e] = nSendMsgID[e]
  PROVE  WholeAt(e)'
  BY Zenon DEF WholeAt

LEMMA StreamsNext ==
  ASSUME \A e \in Ends : WholeAt(e)'
  PROVE  StreamIsWhole'
  BY Zenon DEF StreamIsWhole, WholeAt, Joined

\* Steps that only move a thread.
LEMMA ControlStep ==
  ASSUME IInv, UNCHANGED <<bufVars, idVars>>, CtlTypes', HandledInv'
  PROVE  IInv'
  <1>1. Shapes' /\ BufTypes' /\ OrderInv' /\ StreamIsWhole'
    BY DEF IInv, bufVars, idVars, Shapes, BufTypes, OrderInv, StreamIsWhole
  <1> QED BY <1>1 DEF IInv

LEMMA GoTypes ==
  ASSUME IInv, NEW e \in Ends, NEW from,
         NEW to \in {"send", "wait", "recv", "handle", "write", "check"}, Go(e, from, to)
  PROVE  pc' \in [Ends -> {"send", "wait", "recv", "handle", "write", "check"}]
         /\ pc'[e] = to /\ pc[e] = from /\ \A f \in Ends \ {e} : pc'[f] = pc[f]
  BY DEF IInv, CtlTypes, Go

LEMMA NextPlace ==
  ASSUME IInv, NEW e \in Ends
  PROVE  /\ ToWrite(e) \in {"write", "check", "handle"}
         /\ AfterRecv(e) \in {"write", "handle"} /\ (e = "client" => AfterRecv(e) = "handle")
         /\ AfterHandle(e) \in {"write", "check", "wait"}
         /\ (e # "client" => AfterHandle(e) = "wait")
         /\ AfterWrite(e) \in {"check", "handle"} /\ (e # "client" => AfterWrite(e) = "handle")
  BY DEF Ends, ToWrite, AfterRecv, AfterHandle, AfterWrite

LEMMA SendRoundEndsInv == IInv /\ SendRoundEnds => IInv'
  <1> SUFFICES ASSUME IInv, SendRoundEnds PROVE IInv'
    OBVIOUS
  <1>1. "client" \in Ends /\ Go("client", "send", "wait")
    BY DEF SendRoundEnds, Ends
  <1>2. CtlTypes'
    BY <1>1, GoTypes DEF SendRoundEnds, idVars, paceVars, IInv, CtlTypes
  <1>3. HandledInv'
    BY <1>1, GoTypes DEF SendRoundEnds, bufVars, IInv, HandledInv
  <1> QED BY <1>2, <1>3, ControlStep DEF SendRoundEnds

LEMMA checkSendInv == IInv /\ checkSend => IInv'
  <1> SUFFICES ASSUME IInv, checkSend PROVE IInv'
    OBVIOUS
  <1>1. "client" \in Ends /\ Go("client", "check", "send")
    BY DEF checkSend, Ends
  <1>2. CtlTypes'
    BY <1>1, GoTypes, SessionAssumption DEF checkSend, idVars, IInv, CtlTypes
  <1>3. HandledInv'
    BY <1>1, GoTypes DEF checkSend, bufVars, IInv, HandledInv
  <1> QED BY <1>2, <1>3, ControlStep DEF checkSend

LEMMA WaitInv == ASSUME NEW e \in Ends, IInv, Wait(e) PROVE IInv'
  <1>1. PICK to \in {"recv", "write", "check", "handle"} :
          Go(e, "wait", to) /\ (e # "client" => to \in {"recv", "write", "handle"})
    BY NextPlace DEF Wait
  <1>2. CtlTypes'
    <2>1. writable' \in [Ends -> BOOLEAN]
      <3>1. (needWrite(sendBuff[e]) /\ Len(wire[e]) < WireCap) \in BOOLEAN
        BY Zenon
      <3>2. writable \in [Ends -> BOOLEAN]
        BY DEF IInv, CtlTypes
      <3> QED BY <3>1, <3>2, Zenon DEF Wait
    <2> QED BY <1>1, <2>1, GoTypes DEF Wait, idVars, paceVars, IInv, CtlTypes
  <1>3. HandledInv'
    BY <1>1, GoTypes DEF Wait, bufVars, IInv, HandledInv
  <1> QED BY <1>2, <1>3, ControlStep DEF Wait

LEMMA HandleEndsInv == ASSUME NEW e \in Ends, IInv, HandleEnds(e) PROVE IInv'
  <1>1. PICK to \in {"write", "check", "wait"} : Go(e, "handle", to)
    BY NextPlace DEF HandleEnds
  <1>2. CtlTypes'
    BY <1>1, GoTypes DEF HandleEnds, idVars, paceVars, IInv, CtlTypes
  <1>3. HandledInv'
    <2>1. Len(recvBuff[e]) < MsgLen
      BY WholeMessage DEF HandleEnds
    <2> QED BY <1>1, <2>1, GoTypes DEF HandleEnds, bufVars, IInv, HandledInv
  <1> QED BY <1>2, <1>3, ControlStep DEF HandleEnds

\* recv(): units cross from the wire to the receive buffer.
LEMMA RecvInv == ASSUME NEW e \in Ends, IInv, Recv(e) PROVE IInv'
  <1>1. PICK f \in Ends : f = Peer(e) /\ Peer(f) = e /\ f # e
    BY Peers
  <1>2. PICK n : n = Min({room(recvBuff[e], RecvSize), Len(wire[f])})
    OBVIOUS
  <1>3. n \in 0..Len(wire[f]) /\ n <= RecvSize - Len(recvBuff[e])
    <2>1. /\ Len(recvBuff[e]) \in 0..RecvSize /\ Len(wire[f]) \in Nat
      BY EndFacts
    <2>2. room(recvBuff[e], RecvSize) = RecvSize - Len(recvBuff[e]) /\ RecvSize \in Nat
      BY SessionAssumption DEF room
    <2>3. PICK a \in Int : a = room(recvBuff[e], RecvSize) /\ a = RecvSize - Len(recvBuff[e])
      <3>1. RecvSize - Len(recvBuff[e]) \in Int
        BY <2>1, <2>2
      <3> QED BY <2>2, <3>1, Zenon
    <2>4. PICK b \in Nat : b = Len(wire[f])
      BY <2>1
    <2>5. n = Min({a, b}) /\ a >= 0
      BY <1>2, <2>1, <2>2, <2>3, <2>4
    <2>6. Min({a, b}) \in {a, b} /\ Min({a, b}) <= a /\ Min({a, b}) <= b
      BY MinFacts
    <2>7. n \in 0..b /\ n <= a
      BY <2>5, <2>6
    <2> QED BY <2>3, <2>4, <2>7, Zenon
  <1>4. /\ recvBuff' = [recvBuff EXCEPT ![e] = recvBuff[e] \o SubSeq(wire[f], 1, n)]
        /\ wire' = [wire EXCEPT ![f] = pop(wire[f], n)]
        /\ UNCHANGED <<sendBuff, sent, writable, idVars, paceVars>>
    BY <1>1, <1>2 DEF Recv
  <1>5. PICK r \in Seq(MsgUnits) : r = recvBuff[e] \o SubSeq(wire[f], 1, n)
                                 /\ Len(r) = Len(recvBuff[e]) + n
    <2>1. wire[f] \in Seq(MsgUnits) /\ recvBuff[e] \in Seq(MsgUnits)
      BY EndFacts
    <2>2. SubSeq(wire[f], 1, n) \in Seq(MsgUnits) /\ Len(SubSeq(wire[f], 1, n)) = n
      BY <1>3, <2>1, Split, Zenon
    <2>3. PICK d \in Seq(MsgUnits) : d = SubSeq(wire[f], 1, n) /\ Len(d) = n
      BY <2>2, Zenon
    <2>4. /\ recvBuff[e] \o d \in Seq(MsgUnits)
          /\ Len(recvBuff[e] \o d) = Len(recvBuff[e]) + Len(d)
      BY <2>1, ConcatFacts, Zenon
    <2> QED BY <2>3, <2>4, Zenon
  <1>6. PICK w \in Seq(MsgUnits) : w = pop(wire[f], n) /\ Len(w) = Len(wire[f]) - n
    <2>1. wire[f] \in Seq(MsgUnits)
      BY EndFacts
    <2>2. pop(wire[f], n) \in Seq(MsgUnits) /\ Len(pop(wire[f], n)) = Len(wire[f]) - n
      BY <1>3, <2>1, PopFacts, Zenon
    <2> QED BY <2>2, Zenon
  <1>7. /\ recvBuff' = [recvBuff EXCEPT ![e] = r] /\ wire' = [wire EXCEPT ![f] = w]
        /\ recvBuff'[e] = r /\ wire'[f] = w
        /\ recvBuff'[f] = recvBuff[f] /\ wire'[e] = wire[e]
    BY <1>1, <1>4, <1>5, <1>6 DEF IInv, Shapes
  <1>8. Shapes'
    BY <1>4, <1>7 DEF IInv, Shapes
  <1>9. BufTypes'
    <2>1. Len(recvBuff[e]) \in 0..RecvSize /\ Len(wire[f]) \in 0..WireCap
      BY EndFacts
    <2>2. Len(r) = Len(recvBuff[e]) + n /\ Len(w) = Len(wire[f]) - n
      BY <1>5, <1>6, Zenon
    <2>3. Len(r) <= RecvSize /\ Len(w) <= WireCap
      BY <1>3, <2>1, <2>2, SessionAssumption
    <2>4. \A x \in Ends : x = e \/ x = f
      BY <1>1, Peers
    <2> QED BY <1>4, <1>7, <2>3, <2>4 DEF IInv, BufTypes
  <1>10. PICK to \in {"write", "handle"} :
           Go(e, "recv", to) /\ (e = "client" => to = "handle")
    BY NextPlace DEF Recv
  <1>11. CtlTypes'
    BY <1>4, <1>10, GoTypes DEF idVars, paceVars, IInv, CtlTypes
  <1>12. OrderInv'
    BY <1>4 DEF idVars, IInv, OrderInv
  <1>13. HandledInv'
    <2>1. \A x \in Ends : x = e \/ x = f
      BY <1>1, Peers
    <2> QED BY <1>1, <1>7, <1>10, <2>1, GoTypes DEF IInv, HandledInv
  <1>14. WholeAt(f)'
    <2>1. Same(Joined(r, w, sendBuff[f], sent[f]), Joined(recvBuff[e], wire[f], sendBuff[f], sent[f]))
      BY <1>3, <1>5, <1>6, EndFacts, JoinedRecv
    <2>2. WholeAt(f)
      BY EndFacts
    <2> QED BY <1>1, <1>4, <1>7, <2>1, <2>2, Zenon DEF WholeAt, Same, idVars
  <1>15. WholeAt(e)'
    BY <1>1, <1>4, <1>7, EndFacts, StillWhole DEF idVars
  <1>16. StreamIsWhole'
    <2>1. \A x \in Ends : x = e \/ x = f
      BY <1>1, Peers
    <2> QED BY <1>14, <1>15, <2>1, StreamsNext, Zenon
  <1> QED BY <1>8, <1>9, <1>11, <1>12, <1>13, <1>16 DEF IInv

\* send(), on the way: units cross from the send buffer to the wire.
LEMMA SendSomeInv == ASSUME NEW e \in Ends, IInv, SendSome(e) PROVE IInv'
  <1>1. PICK f \in Ends : f = Peer(e) /\ Peer(f) = e /\ f # e
    BY Peers
  <1>2. PICK s \in Seq(MsgUnits) : s = sendBuff[e]
    BY EndFacts
  <1>3. PICK m \in 0..Len(s) : m = sent[e]
    BY <1>2, EndFacts
  <1>4. PICK n \in 1..Min({WireCap - Len(wire[e]), Len(s) - m}) :
          /\ wire' = [wire EXCEPT ![e] = wire[e] \o SubSeq(s, m + 1, m + n)]
          /\ sent' = [sent EXCEPT ![e] = m + n]
    BY <1>2, <1>3 DEF SendSome
  <1>5. n \in 0..Len(s) - m /\ n <= WireCap - Len(wire[e]) /\ n \in Nat
    <2>1. Len(wire[e]) \in Nat /\ WireCap \in Nat /\ Len(s) \in Nat
      BY EndFacts, SessionAssumption
    <2>2. PICK a \in Int : a = WireCap - Len(wire[e])
      <3>1. WireCap - Len(wire[e]) \in Int
        BY <2>1
      <3> QED BY <3>1, Zenon
    <2>3. PICK b \in Int : b = Len(s) - m
      <3>1. Len(s) - m \in Int
        BY <2>1
      <3> QED BY <3>1, Zenon
    <2>4. n \in 1..Min({a, b})
      BY <2>2, <2>3, Zenon
    <2>5. Min({a, b}) \in {a, b} /\ Min({a, b}) <= a /\ Min({a, b}) <= b
      BY MinFacts
    <2>6. n \in 0..b /\ n <= a /\ n \in Nat
      BY <2>4, <2>5
    <2> QED BY <2>2, <2>3, <2>6, Zenon
  <1>6. UNCHANGED <<sendBuff, recvBuff, pc, writable, idVars, paceVars>>
    BY DEF SendSome
  <1>7. PICK w \in Seq(MsgUnits) : w = wire[e] \o SubSeq(s, m + 1, m + n)
                                 /\ Len(w) = Len(wire[e]) + n
    <2>1. PICK d \in Seq(MsgUnits) : d = SubSeq(s, m + 1, m + n) /\ Len(d) = n
      <3>1. /\ SubSeq(s, m + 1, m + n) \in Seq(MsgUnits)
            /\ Len(SubSeq(s, m + 1, m + n)) = n
        BY <1>5, SendPart
      <3> QED BY <3>1, Zenon
    <2>2. wire[e] \in Seq(MsgUnits)
      BY EndFacts
    <2>3. /\ wire[e] \o d \in Seq(MsgUnits)
          /\ Len(wire[e] \o d) = Len(wire[e]) + Len(d)
      BY <2>2, ConcatFacts, Zenon
    <2> QED BY <2>1, <2>3, Zenon
  <1>8. /\ wire' = [wire EXCEPT ![e] = w] /\ wire'[e] = w /\ wire'[f] = wire[f]
        /\ sent'[e] = m + n /\ sent'[f] = sent[f]
    BY <1>1, <1>4, <1>7 DEF IInv, Shapes
  <1>9. Shapes'
    <2>1. m + n \in Nat
      BY <1>3, <1>5
    <2> QED BY <1>4, <1>6, <1>8, <2>1 DEF IInv, Shapes
  <1>10. \A x \in Ends : x = e \/ x = f
    BY <1>1, Peers
  <1>11. BufTypes'
    <2>1. Len(w) <= WireCap /\ m + n \in 0..Len(s)
      <3>1. Len(wire[e]) \in Nat /\ WireCap \in Nat /\ Len(s) \in Nat
        BY EndFacts, SessionAssumption
      <3>2. Len(w) = Len(wire[e]) + n
        BY <1>7, Zenon
      <3> QED BY <1>3, <1>5, <3>1, <3>2
    <2> QED BY <1>2, <1>6, <1>8, <1>10, <2>1 DEF IInv, BufTypes
  <1>12. CtlTypes' /\ OrderInv' /\ HandledInv'
    BY <1>6 DEF idVars, paceVars, IInv, CtlTypes, OrderInv, HandledInv
  <1>13. WholeAt(e)'
    <2>1. Same(Joined(recvBuff[f], w, s, m + n), Joined(recvBuff[f], wire[e], s, m))
      <3>1. recvBuff[f] \in Seq(MsgUnits) /\ wire[e] \in Seq(MsgUnits)
        BY EndFacts
      <3> QED BY <1>5, <1>7, <3>1, JoinedSend, Zenon
    <2>2. WholeAt(e)
      BY EndFacts
    <2> QED BY <1>1, <1>2, <1>3, <1>6, <1>8, <2>1, <2>2, Zenon DEF WholeAt, Same, idVars
  <1>14. WholeAt(f)'
    BY <1>1, <1>6, <1>8, EndFacts, StillWhole DEF idVars
  <1> QED BY <1>9, <1>10, <1>11, <1>12, <1>13, <1>14, StreamsNext DEF IInv

\* send() returns, having passed on m units: all of the buffer, or a part of it.
LEMMA SentInv ==
  ASSUME NEW e \in Ends, IInv, NEW m \in 0..Len(sendBuff[e]), m = sent[e],
         Go(e, "write", AfterWrite(e)),
         sendBuff' = [sendBuff EXCEPT ![e] = pop(sendBuff[e], m)],
         sent' = [sent EXCEPT ![e] = 0],
         UNCHANGED <<recvBuff, wire, writable, idVars, paceVars>>
  PROVE  IInv'
  <1>1. PICK f \in Ends : f = Peer(e) /\ Peer(f) = e /\ f # e
    BY Peers
  <1>2. PICK s \in Seq(MsgUnits) : s = pop(sendBuff[e], m) /\ Len(s) = Len(sendBuff[e]) - m
    BY EndFacts, PopFacts
  <1>3. /\ sendBuff' = [sendBuff EXCEPT ![e] = s] /\ sendBuff'[e] = s
        /\ sendBuff'[f] = sendBuff[f] /\ sent'[e] = 0 /\ sent'[f] = sent[f]
    BY <1>1, <1>2 DEF IInv, Shapes
  <1>4. \A x \in Ends : x = e \/ x = f
    BY <1>1, Peers
  <1>5. Shapes'
    BY <1>3 DEF IInv, Shapes
  <1>6. BufTypes'
    <2>1. Len(s) <= SendSize /\ 0 \in 0..Len(s)
      <3>1. Len(sendBuff[e]) \in 0..SendSize /\ SendSize \in Nat
        BY EndFacts, SessionAssumption
      <3> QED BY <1>2, <3>1
    <2> QED BY <1>3, <1>4, <2>1 DEF IInv, BufTypes
  <1>7. PICK to \in {"check", "handle"} :
          Go(e, "write", to) /\ (e # "client" => to = "handle")
    BY NextPlace
  <1>8. CtlTypes'
    BY <1>7, GoTypes DEF idVars, paceVars, IInv, CtlTypes
  <1>9. OrderInv'
    BY DEF idVars, IInv, OrderInv
  <1>10. HandledInv'
    BY <1>7, GoTypes DEF IInv, HandledInv
  <1>11. WholeAt(e)'
    <2>1. Same(Joined(recvBuff[f], wire[e], s, 0),
               Joined(recvBuff[f], wire[e], sendBuff[e], m))
      <3>1. sendBuff[e] \in Seq(MsgUnits)
        BY EndFacts
      <3> QED BY <1>2, <3>1, JoinedShort, Zenon
    <2>2. WholeAt(e)
      BY EndFacts
    <2> QED BY <1>1, <1>3, <2>1, <2>2, Zenon DEF WholeAt, Same, idVars
  <1>12. WholeAt(f)'
    BY <1>1, <1>3, EndFacts, StillWhole DEF idVars
  <1> QED BY <1>4, <1>5, <1>6, <1>8, <1>9, <1>10, <1>11, <1>12, StreamsNext DEF IInv

LEMMA SendReturnsInv == ASSUME NEW e \in Ends, IInv, SendReturns(e) PROVE IInv'
  <1>1. sendBuff[e] \in Seq(MsgUnits) /\ Len(sendBuff[e]) \in Nat
    BY EndFacts
  <1>2. pop(sendBuff[e], Len(sendBuff[e])) = <<>>
    <2>1. Len(sendBuff[e]) \in 0..Len(sendBuff[e])
      BY <1>1
    <2> QED BY <1>1, <2>1, PopFacts
  <1>3. Len(sendBuff[e]) \in 0..Len(sendBuff[e]) /\ Len(sendBuff[e]) = sent[e]
    BY <1>1 DEF SendReturns
  <1> QED BY <1>2, <1>3, SentInv DEF SendReturns

LEMMA SendShortInv == ASSUME NEW e \in Ends, IInv, SendShort(e) PROVE IInv'
  <1>1. sent[e] \in 0..Len(sendBuff[e])
    BY EndFacts
  <1> QED BY <1>1, SentInv DEF SendShort

\* The client writes a login, if its pace and its buffer let it.
LEMMA SendTestInv == IInv /\ SendTest => IInv'
  <1> SUFFICES ASSUME IInv, SendTest PROVE IInv'
    OBVIOUS
  <1> DEFINE e == "client"
             f == "server"
             i == nRecvMsgID[f]
             j == nSendMsgID[e]
  <1>1. /\ e \in Ends /\ f \in Ends /\ Peer(e) = f /\ Peer(f) = e /\ e # f
        /\ \A x \in Ends : x = e \/ x = f
    BY DEF Ends, Peer
  <1>2. /\ UNCHANGED <<recvBuff, wire, sent, pc, writable, nRecvMsgID>>
        /\ turn' = turn + 1 /\ turn < nMsg
    BY DEF SendTest
  <1>3. CASE UNCHANGED <<sendBuff, nSendMsgID, nSendCount>>
    <2>1. turn' \in 0..nMsg
      BY <1>2, SessionAssumption DEF IInv, CtlTypes
    <2>2. CtlTypes' /\ HandledInv'
      BY <1>2, <1>3, <2>1 DEF IInv, CtlTypes, HandledInv
    <2> QED BY <1>2, <1>3, <2>2, ControlStep DEF bufVars, idVars
  <1>4. CASE /\ Fits(sendBuff[e], SendSize, Units(j)) /\ nSendCount > 0
             /\ sendBuff' = [sendBuff EXCEPT ![e] = sendBuff[e] \o Units(j)]
             /\ nSendMsgID' = [nSendMsgID EXCEPT ![e] = j + 1]
             /\ nSendCount' = nSendCount - 1
    <2>1. /\ i \in Nat \ {0} /\ j \in Nat \ {0} /\ i <= j /\ WholeAt(e)
          /\ recvBuff[f] \in Seq(MsgUnits)
      BY <1>1, EndFacts
    <2>2. Joined(recvBuff[f], wire[e], sendBuff[e], sent[e]) = Messages(i, j)
      BY <1>1, <2>1, Zenon DEF WholeAt
    <2>3. PICK s \in Seq(MsgUnits) :
            /\ s = sendBuff[e] \o Units(j) /\ Len(s) = Len(sendBuff[e]) + MsgLen
            /\ Joined(recvBuff[f], wire[e], s, sent[e]) = Messages(i, j + 1)
      <3>1. i \in Nat
        BY <2>1
      <3> QED BY <1>1, <2>1, <2>2, <3>1, Written
    <2>4. Len(s) <= SendSize /\ sent[e] \in 0..Len(s)
      <3>1. Len(Units(j)) = MsgLen
        BY <2>1, UnitsFacts
      <3>2. Len(sendBuff[e]) \in Nat /\ sent[e] \in 0..Len(sendBuff[e])
        BY <1>1, EndFacts
      <3>3. MsgLen <= SendSize - Len(sendBuff[e])
        BY <1>4, <3>1 DEF Fits, room
      <3>4. Len(s) = Len(sendBuff[e]) + MsgLen
        BY <2>3, Zenon
      <3> QED BY <3>2, <3>3, <3>4, SessionAssumption, MsgLenAssumption
    <2>5. /\ sendBuff' = [sendBuff EXCEPT ![e] = s] /\ sendBuff'[e] = s
          /\ sendBuff'[f] = sendBuff[f]
          /\ nSendMsgID'[e] = j + 1 /\ nSendMsgID'[f] = nSendMsgID[f]
      BY <1>1, <1>4, <2>3 DEF IInv, Shapes, CtlTypes
    <2>6. Shapes'
      BY <1>2, <2>5 DEF IInv, Shapes
    <2>7. BufTypes'
      BY <1>1, <1>2, <2>4, <2>5 DEF IInv, BufTypes
    <2>8. CtlTypes'
      <3>1. nSendCount' \in 0..nMsg /\ turn' \in 0..nMsg
        BY <1>2, <1>4, SessionAssumption DEF IInv, CtlTypes
      <3>2. PICK k \in Nat \ {0} : k = j + 1
        BY <2>1
      <3>3. nSendMsgID' \in [Ends -> Nat \ {0}]
        BY <1>4, <3>2 DEF IInv, CtlTypes
      <3> QED BY <1>2, <3>1, <3>3 DEF IInv, CtlTypes
    <2>9. OrderInv'
      <3>1. \A x \in Ends : nSendMsgID'[x] >= nSendMsgID[x]
        BY <1>1, <2>1, <2>5, EndFacts, SMTT(30)
      <3> QED BY <1>1, <1>2, <2>1, <2>5, EndFacts DEF OrderInv
    <2>10. HandledInv'
      BY <1>2 DEF IInv, HandledInv
    <2>11. WholeAt(e)'
      BY <1>1, <1>2, <2>3, <2>5, Zenon DEF WholeAt
    <2>12. WholeAt(f)'
      BY <1>1, <1>2, <2>5, EndFacts, StillWhole
    <2> QED BY <1>1, <2>6, <2>7, <2>8, <2>9, <2>10, <2>11, <2>12, StreamsNext DEF IInv
  <1>5. \/ UNCHANGED <<sendBuff, nSendMsgID, nSendCount>>
        \/ /\ Fits(sendBuff[e], SendSize, Units(j)) /\ nSendCount > 0
           /\ sendBuff' = [sendBuff EXCEPT ![e] = sendBuff[e] \o Units(j)]
           /\ nSendMsgID' = [nSendMsgID EXCEPT ![e] = j + 1]
           /\ nSendCount' = nSendCount - 1
    <2>1. /\ [sendBuff EXCEPT ![e] = sendBuff[e]] = sendBuff
          /\ [nSendMsgID EXCEPT ![e] = nSendMsgID[e]] = nSendMsgID
      BY <1>1 DEF IInv, Shapes, CtlTypes
    <2> DEFINE taken == nSendCount > 0 /\ Fits(sendBuff[e], SendSize, Units(j))
    <2>2. CASE taken
      BY <2>2 DEF SendTest
    <2>3. CASE ~taken
      BY <2>1, <2>3 DEF SendTest
    <2> QED BY <2>2, <2>3
  <1> QED BY <1>3, <1>4, <1>5

\* A message is handled at e, whatever else the handler does.
LEMMA TakenOff ==
  ASSUME NEW e \in Ends, IInv, hasMsg(recvBuff[e]),
         recvBuff' = [recvBuff EXCEPT ![e] = pop(recvBuff[e], dataLength(recvBuff[e]))],
         nRecvMsgID' = [nRecvMsgID EXCEPT ![e] = nRecvMsgID[e] + 1]
  PROVE  /\ recvBuff' \in [Ends -> Seq(MsgUnits)] /\ nRecvMsgID' \in [Ends -> Nat \ {0}]
         /\ Len(recvBuff'[e]) <= RecvSize /\ nRecvMsgID'[e] <= nSendMsgID[Peer(e)]
         /\ recvBuff'[Peer(e)] = recvBuff[Peer(e)] /\ nRecvMsgID'[Peer(e)] = nRecvMsgID[Peer(e)]
         /\ Joined(recvBuff'[e], wire[Peer(e)], sendBuff[Peer(e)], sent[Peer(e)])
              = Messages(nRecvMsgID'[e], nSendMsgID[Peer(e)])
  <1>1. PICK f \in Ends : f = Peer(e) /\ f # e
    BY Peers
  <1>2. /\ nRecvMsgID[e] < nSendMsgID[f] /\ dataLength(recvBuff[e]) = MsgLen
        /\ MsgLen \in 0..Len(recvBuff[e])
    BY <1>1, WholeMessage
  <1>3. PICK r \in Seq(MsgUnits) :
          /\ r = pop(recvBuff[e], MsgLen) /\ Len(r) = Len(recvBuff[e]) - MsgLen
          /\ Joined(r, wire[f], sendBuff[f], sent[f]) = Messages(nRecvMsgID[e] + 1, nSendMsgID[f])
    BY <1>1, Handled
  <1>4. /\ recvBuff' = [recvBuff EXCEPT ![e] = r] /\ recvBuff'[e] = r
        /\ recvBuff'[f] = recvBuff[f] /\ recvBuff' \in [Ends -> Seq(MsgUnits)]
    BY <1>1, <1>2, <1>3 DEF IInv, Shapes
  <1>5. PICK k \in Nat \ {0} : k = nRecvMsgID[e] + 1 /\ k <= nSendMsgID[f]
    BY <1>1, <1>2, EndFacts
  <1>6. /\ nRecvMsgID'[e] = k /\ nRecvMsgID'[f] = nRecvMsgID[f]
        /\ nRecvMsgID' \in [Ends -> Nat \ {0}]
    BY <1>1, <1>5 DEF IInv, CtlTypes
  <1>7. Len(r) <= RecvSize
    <2>1. Len(recvBuff[e]) \in 0..RecvSize
      BY EndFacts
    <2>2. Len(r) = Len(recvBuff[e]) - MsgLen
      BY <1>3, Zenon
    <2> QED BY <2>1, <2>2, SessionAssumption, MsgLenAssumption
  <1> QED BY <1>1, <1>3, <1>4, <1>5, <1>6, <1>7, Zenon

LEMMA OnLoginResultInv == IInv /\ OnLoginResult => IInv'
  <1> SUFFICES ASSUME IInv, OnLoginResult PROVE IInv'
    OBVIOUS
  <1> DEFINE e == "client"
             f == "server"
  <1>1. /\ e \in Ends /\ f \in Ends /\ Peer(e) = f /\ Peer(f) = e /\ e # f
        /\ \A x \in Ends : x = e \/ x = f
    BY DEF Ends, Peer
  <1>2. /\ pc[e] = "handle" /\ hasMsg(recvBuff[e])
        /\ recvBuff' = [recvBuff EXCEPT ![e] = pop(recvBuff[e], dataLength(recvBuff[e]))]
        /\ nRecvMsgID' = [nRecvMsgID EXCEPT ![e] = nRecvMsgID[e] + 1]
        /\ UNCHANGED <<sendBuff, wire, sent, pc, writable, nSendMsgID, nSendCount, turn>>
    BY DEF OnLoginResult, paceVars
  <1> HIDE DEF e, f
  <1>3. /\ recvBuff' \in [Ends -> Seq(MsgUnits)] /\ nRecvMsgID' \in [Ends -> Nat \ {0}]
        /\ Len(recvBuff'[e]) <= RecvSize /\ nRecvMsgID'[e] <= nSendMsgID[f]
        /\ recvBuff'[f] = recvBuff[f] /\ nRecvMsgID'[f] = nRecvMsgID[f]
        /\ Joined(recvBuff'[e], wire[f], sendBuff[f], sent[f])
             = Messages(nRecvMsgID'[e], nSendMsgID[f])
    BY <1>1, <1>2, TakenOff
  <1>4. Shapes' /\ BufTypes' /\ CtlTypes'
    BY <1>1, <1>2, <1>3 DEF IInv, Shapes, BufTypes, CtlTypes
  <1>5. OrderInv'
    <2>1. \A x \in Ends : nRecvMsgID'[Peer(x)] <= nSendMsgID[x]
      BY <1>1, <1>3, EndFacts
    <2> QED BY <1>2, <2>1 DEF OrderInv
  <1>6. HandledInv'
    BY <1>1, <1>2, <1>3 DEF IInv, HandledInv, e, f
  <1>7. WholeAt(f)'
    BY <1>1, <1>2, <1>3, Zenon DEF WholeAt
  <1>8. WholeAt(e)'
    BY <1>1, <1>2, <1>3, EndFacts, StillWhole
  <1> QED BY <1>1, <1>4, <1>5, <1>6, <1>7, <1>8, StreamsNext DEF IInv

LEMMA OnLoginInv == IInv /\ OnLogin => IInv'
  <1> SUFFICES ASSUME IInv, OnLogin PROVE IInv'
    OBVIOUS
  <1> DEFINE e == "server"
             f == "client"
             j == nSendMsgID[e]
  <1>1. /\ e \in Ends /\ f \in Ends /\ Peer(e) = f /\ Peer(f) = e /\ e # f
        /\ \A x \in Ends : x = e \/ x = f
    BY DEF Ends, Peer
  <1>2. /\ pc[e] = "handle" /\ hasMsg(recvBuff[e])
        /\ recvBuff' = [recvBuff EXCEPT ![e] = pop(recvBuff[e], dataLength(recvBuff[e]))]
        /\ nRecvMsgID' = [nRecvMsgID EXCEPT ![e] = nRecvMsgID[e] + 1]
        /\ UNCHANGED <<wire, sent, pc, writable, nSendCount, turn>>
    BY DEF OnLogin, paceVars
  \* The answer is written or dropped: in either case the server's own stream
  \* goes on to be whole.
  <1>3. PICK s \in Seq(MsgUnits), k \in Nat \ {0} :
          /\ sendBuff' = [sendBuff EXCEPT ![e] = s] /\ nSendMsgID' = [nSendMsgID EXCEPT ![e] = k]
          /\ Len(s) <= SendSize /\ Len(sendBuff[e]) <= Len(s) /\ k >= j
          /\ Joined(recvBuff[f], wire[e], s, sent[e]) = Messages(nRecvMsgID[f], k)
    <2>1. /\ nRecvMsgID[f] \in Nat /\ j \in Nat \ {0} /\ nRecvMsgID[f] <= j /\ WholeAt(e)
          /\ recvBuff[f] \in Seq(MsgUnits) /\ sendBuff[e] \in Seq(MsgUnits)
          /\ Len(sendBuff[e]) \in 0..SendSize
      BY <1>1, EndFacts
    <2>2. Joined(recvBuff[f], wire[e], sendBuff[e], sent[e]) = Messages(nRecvMsgID[f], j)
      BY <1>1, <2>1, Zenon DEF WholeAt
    <2> DEFINE taken == Fits(sendBuff[e], SendSize, Units(j))
    <2>3. CASE taken
      <3>1. PICK s \in Seq(MsgUnits) :
              /\ s = sendBuff[e] \o Units(j) /\ Len(s) = Len(sendBuff[e]) + MsgLen
              /\ Joined(recvBuff[f], wire[e], s, sent[e]) = Messages(nRecvMsgID[f], j + 1)
        BY <1>1, <2>1, <2>2, Written
      <3>2. Len(s) <= SendSize /\ Len(sendBuff[e]) <= Len(s)
        <4>1. Len(Units(j)) = MsgLen
          BY <2>1, UnitsFacts
        <4>2. MsgLen <= SendSize - Len(sendBuff[e])
          BY <2>3, <4>1 DEF Fits, room
        <4>3. Len(s) = Len(sendBuff[e]) + MsgLen
          BY <3>1, Zenon
        <4> QED BY <2>1, <4>2, <4>3, SessionAssumption, MsgLenAssumption
      <3>3. /\ sendBuff' = [sendBuff EXCEPT ![e] = sendBuff[e] \o Units(j)]
            /\ nSendMsgID' = [nSendMsgID EXCEPT ![e] = j + 1]
        BY <2>3 DEF OnLogin
      <3>4. j + 1 \in Nat \ {0} /\ j + 1 >= j
        BY <2>1
      <3> HIDE DEF j, e, f
      <3> QED BY <3>1, <3>2, <3>3, <3>4, Zenon
    <2>4. CASE ~taken
      <3>1. /\ sendBuff' = [sendBuff EXCEPT ![e] = sendBuff[e]]
            /\ nSendMsgID' = [nSendMsgID EXCEPT ![e] = j]
        BY <2>4 DEF OnLogin
      <3>2. Len(sendBuff[e]) <= SendSize /\ Len(sendBuff[e]) <= Len(sendBuff[e]) /\ j >= j
        BY <2>1, SessionAssumption
      <3> HIDE DEF j, e, f
      <3> QED BY <2>1, <2>2, <3>1, <3>2, Zenon
    <2> QED BY <2>3, <2>4
  <1>4. /\ sendBuff'[e] = s /\ sendBuff'[f] = sendBuff[f]
        /\ nSendMsgID'[e] = k /\ nSendMsgID'[f] = nSendMsgID[f]
        /\ sendBuff' \in [Ends -> Seq(MsgUnits)] /\ nSendMsgID' \in [Ends -> Nat \ {0}]
    BY <1>1, <1>3 DEF IInv, Shapes, CtlTypes
  <1> HIDE DEF j
  <1>5. /\ recvBuff' \in [Ends -> Seq(MsgUnits)] /\ nRecvMsgID' \in [Ends -> Nat \ {0}]
        /\ Len(recvBuff'[e]) <= RecvSize /\ nRecvMsgID'[e] <= nSendMsgID[f]
        /\ recvBuff'[f] = recvBuff[f] /\ nRecvMsgID'[f] = nRecvMsgID[f]
        /\ Joined(recvBuff'[e], wire[f], sendBuff[f], sent[f])
             = Messages(nRecvMsgID'[e], nSendMsgID[f])
    <2> HIDE DEF e, f
    <2> QED BY <1>1, <1>2, TakenOff
  <1> HIDE DEF e, f
  <1>6. Shapes'
    BY <1>2, <1>4, <1>5 DEF IInv, Shapes
  <1>7. BufTypes'
    <2>1. sent[e] \in 0..Len(s) /\ Len(s) <= SendSize
      <3>1. sent[e] \in 0..Len(sendBuff[e]) /\ Len(sendBuff[e]) \in Nat /\ Len(s) \in Nat
        BY <1>1, EndFacts
      <3>2. Len(sendBuff[e]) <= Len(s) /\ Len(s) <= SendSize
        BY <1>3, Zenon
      <3> QED BY <3>1, <3>2
    <2> QED BY <1>1, <1>2, <1>4, <1>5, <2>1 DEF IInv, BufTypes
  <1>8. CtlTypes'
    BY <1>2, <1>4, <1>5 DEF IInv, CtlTypes
  <1>9. OrderInv'
    <2>1. nRecvMsgID[f] <= k
      BY <1>1, <1>3, EndFacts DEF j
    <2> QED BY <1>1, <1>4, <1>5, <2>1 DEF OrderInv
  <1>10. HandledInv'
    BY <1>1, <1>2, <1>5 DEF IInv, HandledInv, e, f
  <1>11. WholeAt(f)'
    BY <1>1, <1>2, <1>4, <1>5, Zenon DEF WholeAt
  <1>12. WholeAt(e)'
    BY <1>1, <1>2, <1>3, <1>4, <1>5, Zenon DEF WholeAt
  <1> QED BY <1>1, <1>6, <1>7, <1>8, <1>9, <1>10, <1>11, <1>12, StreamsNext DEF IInv

LEMMA NextInv == IInv /\ [Next]_vars => IInv'
  <1> SUFFICES ASSUME IInv, [Next]_vars PROVE IInv'
    OBVIOUS
  <1>1. CASE SendTest \/ SendRoundEnds \/ checkSend \/ OnLoginResult \/ OnLogin
    BY <1>1, SendTestInv, SendRoundEndsInv, checkSendInv, OnLoginResultInv, OnLoginInv
  <1>2. CASE \E e \in Ends : EndStep(e) \/ SendShort(e)
    BY <1>2, WaitInv, RecvInv, SendSomeInv, SendReturnsInv, HandleEndsInv, SendShortInv
       DEF EndStep
  <1>3. CASE UNCHANGED vars
    <2>1. CtlTypes' /\ HandledInv'
      BY <1>3 DEF vars, bufVars, idVars, paceVars, IInv, CtlTypes, HandledInv
    <2> QED BY <1>3, <2>1, ControlStep DEF vars
  <1> QED BY <1>1, <1>2, <1>3 DEF Next, ClientStep, ServerStep, Ends

THEOREM SessionInvariance == Spec => []IInv
  BY InitInv, NextInv, PTL DEF Spec

\* No buffer holds more than its size, and the kernel no more than its own,
\* whatever these are and however long a message is (CELLBuffer.hpp:36-124).
THEOREM SessionTypes == Spec => []TypeOK
  BY Types, SessionInvariance, PTL

\* The stream of either direction is whole and in order, for any sizes and any
\* number of messages: both handlers find the numbers they expect
\* (server.cpp:35-47, client.cpp:48-60).
THEOREM StreamAlwaysWhole == Spec => []StreamIsWhole
  <1>1. IInv => StreamIsWhole
    BY DEF IInv
  <1> QED BY <1>1, SessionInvariance, PTL

\* A recv() always has room, as long as a buffer takes one message
\* (CELLBuffer.hpp:110-124).
THEOREM RecvAlwaysHasRoom == Spec => []RoomToRecv
  <1>1. IInv => RoomToRecv
    <2> SUFFICES ASSUME IInv, NEW e \in Ends, pc[e] = "recv"
                 PROVE  room(recvBuff[e], RecvSize) > 0
      BY DEF RoomToRecv
    <2>1. Len(recvBuff[e]) < MsgLen
      BY DEF IInv, HandledInv
    <2>2. Len(recvBuff[e]) \in Nat
      BY EndFacts
    <2> QED BY <2>1, <2>2, SessionAssumption, MsgLenAssumption DEF room
  <1> QED BY <1>1, SessionInvariance, PTL
==============================================================================
