---------------------------- MODULE CELLMsgStream ----------------------------
(***************************************************************************)
(* Messages as byte streams: CELLStream.hpp, CELLMsgStream.hpp, and the    *)
(* logout handler of server.cpp, which reads its message and writes its    *)
(* answer field by field.                                                  *)
(*                                                                         *)
(* A value is the sequence of its bytes, that of an array the bytes of its *)
(* elements, and every operation takes a stream and returns the stream     *)
(* after it, as the code changes it in place; got collects what the reads  *)
(* have returned, in order.                                                *)
(***************************************************************************)
EXTENDS Integers, Sequences

CONSTANTS
  Fields,      \* what a sender may write, and the reader of each
  Logouts,     \* logout messages, as the fields that make them
  MaxFields,   \* bound: fields of one stream
  BuffSizes    \* sizes of the buffers that are written

Byte == 0..255
Widths == {1, 2, 4, 8}

\* The greatest uint16_t, which the length of a message is, and int.
MaxUint16 == 256 * 256 - 1
MaxInt == 127 * (256 * 256 * 256) + (256 * 256 * 256 - 1)

\* No array is longer than the length of a message can say.
Lengths == 0..MaxUint16

\* A scalar, an array or a string of n elements of some width, and the length
\* of the variable that an array is read into.
Field == [as : {"scalar", "array", "string"}, width : Widths, n : Lengths, room : Lengths,
          value : Seq(Byte)]

IsField(f) ==
  /\ f \in Field /\ Len(f.value) = f.width * f.n
  /\ f.as = "scalar" => f.n = 1
  /\ f.as = "string" => f.width = 1

\* The fields of CMD_LOGOUT from its command on.
LogoutWidths == <<2, 1, 2, 4, 4, 8, 1, 1, 4>>
IsLogout(l) ==
  /\ l \in Seq(Field) /\ Len(l) = 9
  /\ \A k \in 1..9 : /\ IsField(l[k]) /\ l[k].width = LogoutWidths[k]
                     /\ l[k].as = IF k <= 6 THEN "scalar" ELSE "array"

ASSUME StreamAssumption ==
  /\ \A f \in Fields : IsField(f)
  /\ \A l \in Logouts : IsLogout(l)
  /\ MaxFields \in Nat /\ BuffSizes \subseteq 2..MaxUint16

\* Little-endian, as memcpy() of an integer of two or four bytes leaves it.
Weight == <<1, 256, 256 * 256, 256 * 256 * 256>>
Bytes(n, width) == [i \in 1..width |-> (n \div Weight[i]) % 256]
Number(bytes) ==
  bytes[1] + 256 * bytes[2]
  + IF Len(bytes) = 4 THEN Weight[3] * bytes[3] + Weight[4] * bytes[4] ELSE 0

Zeros(n) == [i \in 1..n |-> 0]

CELLStream(buff) ==
  [buff |-> buff, nSize |-> Len(buff), nWritePos |-> 0, nReadPos |-> 0, got |-> <<>>]

\* A size as the parameter of canRead() and canWrite(), an int, has it.
Int32(n) == IF n <= MaxInt THEN n ELSE ((n - MaxInt) - MaxInt) - 2

canRead(s, n) == s.nSize - s.nReadPos >= Int32(n)
canWrite(s, n) == s.nSize - s.nWritePos >= Int32(n)

push(s, n) == [s EXCEPT !.nWritePos = @ + n]
popRead(s, n) == [s EXCEPT !.nReadPos = @ + n]
setWritePos(s, n) == [s EXCEPT !.nWritePos = n]

-----------------------------------------------------------------------------
(* Reading *)

\* The bytes beyond the end are no part of the stream; the guards keep reads away.
Peek(s, n) == [i \in 1..n |-> IF s.nReadPos + i <= s.nSize THEN s.buff[s.nReadPos + i] ELSE 0]
Got(s, value) == [s EXCEPT !.got = Append(@, value)]

\* A failed read returns the default, 0, and stays where it is.
Read(s, width) ==
  IF canRead(s, width) THEN Got(popRead(s, width), Peek(s, width))
                       ELSE Got(s, Zeros(width))

onlyRead(s) == IF canRead(s, 4) THEN Number(Peek(s, 4)) ELSE 0

\* The count and the bytes of its elements.
TakeArray(s, size) == Got(popRead(s, 4 + size), Peek(popRead(s, 4), size))

\* Into an array of len elements; an array that is refused is not passed over.
ReadArray(s, width, len) ==
  LET n == onlyRead(s) IN
  IF n <= len /\ canRead(s, width * n + 4) THEN TakeArray(s, width * n) ELSE Got(s, <<>>)

\* Mutant of ReadString: the bytes of the count are not counted.
ReadStringTooFar(s) ==
  LET n == onlyRead(s) IN
  IF n > 0 /\ canRead(s, n) THEN TakeArray(s, n) ELSE Got(s, <<>>)

\* An empty string is not passed over either.
ReadString(s) ==
  LET n == onlyRead(s) IN
  IF n > 0 /\ canRead(s, n + 4) THEN TakeArray(s, n) ELSE Got(s, <<>>)

ReadField(s, f) ==
  CASE f.as = "scalar" -> Read(s, f.width)
    [] f.as = "array" -> ReadArray(s, f.width, f.room)
    [] f.as = "string" -> ReadString(s)

\* One field after the other.
ReadFields(s, fields) ==
  LET after[k \in 0..Len(fields)] == IF k = 0 THEN s ELSE ReadField(after[k-1], fields[k])
  IN after[Len(fields)]

-----------------------------------------------------------------------------
(* Writing *)

Put(s, bytes) ==
  [s EXCEPT !.buff = [i \in DOMAIN @ |-> IF i - s.nWritePos \in 1..Len(bytes)
                                         THEN bytes[i - s.nWritePos] ELSE @[i]]]

Write(s, value) ==
  IF canWrite(s, Len(value)) THEN push(Put(s, value), Len(value)) ELSE s

\* Mutant of WriteArray: only the data is tested to fit.
WriteArrayHalf(s, n, data) ==
  IF canWrite(s, Len(data)) THEN Write(Write(s, Bytes(n, 4)), data) ELSE s

WriteArray(s, n, data) ==
  IF canWrite(s, Len(data) + 4) THEN Write(Write(s, Bytes(n, 4)), data) ELSE s

WriteField(s, f) ==
  IF f.as = "scalar" THEN Write(s, f.value) ELSE WriteArray(s, f.n, f.value)

WriteFields(s, fields) ==
  LET after[k \in 0..Len(fields)] == IF k = 0 THEN s ELSE WriteField(after[k-1], fields[k])
  IN after[Len(fields)]

\* The first two bytes are kept for the length.
CELLWriteStream(nSize) == Write(CELLStream(Zeros(nSize)), Zeros(2))

\* The length goes to the front, and the position back to the end.
finsh(s) == setWritePos(Write(setWritePos(s, 0), Bytes(s.nWritePos, 2)), s.nWritePos)

\* What is sent: data() and length().
Sent(s) == SubSeq(s.buff, 1, s.nWritePos)

CELLReadStream(message) == push(CELLStream(message), Len(message))
-----------------------------------------------------------------------------
(* The logout handler of MyServer::OnNetMsg() *)

CMD_LOGOUT == <<12, 0>>
CMD_LOGOUT_RESULT == <<13, 0>>

Scalar(value) == [as |-> "scalar", width |-> Len(value), n |-> 1, room |-> 0, value |-> value]
Array(width, room, value) ==
  [as |-> "array", width |-> width, n |-> Len(value) \div width, room |-> room, value |-> value]

\* Length and command, then n1 to n5, then three arrays, read into these rooms.
LogoutReader(rooms) ==
  <<Scalar(Zeros(2))>> \o
  [k \in 1..9 |-> IF k <= 6 THEN Scalar(Zeros(LogoutWidths[k]))
                            ELSE Array(LogoutWidths[k], rooms[k-6], <<>>)]

ReadLogout(message, rooms) == ReadFields(CELLReadStream(message), LogoutReader(rooms)).got

\* The answer has its own command and repeats what was read, n.
LogoutAnswer(n) ==
  [k \in 1..9 |-> IF k = 1 THEN Scalar(CMD_LOGOUT_RESULT)
                  ELSE IF k <= 6 THEN Scalar(n[k + 1]) ELSE Array(LogoutWidths[k], 0, n[k + 1])]

\* Mutant of OnLogout: the answer is sent without finsh().
OnLogoutUnfinished(logout) ==
  Sent(WriteFields(CELLWriteStream(128), LogoutAnswer(ReadLogout(logout, <<32, 32, 10>>))))

\* The answer: the same fields, in a stream of 128 bytes.
OnLogout(logout) ==
  Sent(finsh(WriteFields(CELLWriteStream(128),
                         LogoutAnswer(ReadLogout(logout, <<32, 32, 10>>)))))

-----------------------------------------------------------------------------
(* A sender writes a message, and what is promised of it *)

VARIABLES
  stream,    \* the sender's CELLWriteStream
  kept       \* history: the fields whose writes have returned true

streamVars == <<stream, kept>>

StreamInit == kept = <<>> /\ stream \in {CELLWriteStream(size) : size \in BuffSizes}

WriteNext(f) ==
  /\ stream' = WriteField(stream, f)
  /\ kept' = IF stream' = stream THEN kept ELSE Append(kept, f)

WriteMore == Len(kept) < MaxFields /\ \E f \in Fields : WriteNext(f)

WriteLogout ==
  \E l \in Logouts :
    /\ Len(kept) < 9 /\ kept = SubSeq(l, 1, Len(kept))
    /\ WriteNext(l[Len(kept) + 1])

StreamNext == WriteMore \/ WriteLogout

StreamSpec == StreamInit /\ [][StreamNext]_streamVars

message == Sent(finsh(stream))

\* Where a reader does not go past a field, what it reads next is not promised.
Passes(f) ==
  \/ f.as = "scalar"
  \/ f.as = "array" /\ f.n <= f.room
  \/ f.as = "string" /\ f.n > 0

\* A finished stream begins with its own length, and reading back the fields
\* that were accepted, in order, returns each of them, up to the first whose
\* reader does not go past it: an empty string, or an array that is refused.
\* A write without room leaves nothing behind (CELLStream.hpp:76-247,
\* CELLMsgStream.hpp:36-80).
FieldsArrive ==
  LET m == message
      got == ReadFields(Read(CELLReadStream(m), 2), kept).got
  IN
  /\ Number(got[1]) = Len(m) /\ Len(m) <= stream.nSize
  /\ \A k \in DOMAIN kept :
       (\A j \in 1..k-1 : Passes(kept[j])) =>
         got[k + 1] = IF Passes(kept[k]) THEN kept[k].value ELSE <<>>

\* With the four bytes of its count, a longer string does not fit an int.
CountFits(s, f) == f.as = "string" => onlyRead(s) <= MaxInt - 4

\* No read of a scalar or an array goes past the end of a message, wherever it
\* was cut off and whatever was written there; nor does that of a string whose
\* count with its own four bytes fits an int.  Of a string with a greater count
\* nothing is said: canRead() takes the negative size for room (CELLStream.hpp:
\* 50-129, 191-210).
ReadsStayInside ==
  LET m == message IN
  \A cut \in 1..Len(m), f, g \in Fields :
    LET s == CELLReadStream(SubSeq(m, 1, cut))
        r == ReadField(s, f)
    IN CountFits(s, f) =>
         /\ r.nReadPos <= cut
         /\ CountFits(r, g) => ReadField(r, g).nReadPos <= cut

\* The answer to a logout says its own length and command, and repeats the
\* scalars and each array, up to the first that is longer than its variable;
\* the integers are left out, whole, when 128 bytes do not hold them
\* (server.cpp:73-107).
AnswerIsWhole ==
  IsLogout(kept) =>
    LET n == [k \in 1..3 |-> kept[6 + k].n]
        answer == OnLogout(message)
        name == n[1] <= 32
        pw == name /\ n[2] <= 32
        ata == pw /\ n[3] <= 10 /\ 35 + n[1] + n[2] + 4 * n[3] <= 128
        whole == <<name, pw, ata>>
    IN ReadLogout(answer, <<99, 99, 99>>) =
         <<Bytes(Len(answer), 2), CMD_LOGOUT_RESULT>>
         \o [k \in 1..5 |-> kept[1 + k].value]
         \o [k \in 1..3 |-> IF whole[k] THEN kept[6 + k].value ELSE <<>>]
=============================================================================
