----------------------------- MODULE CELLBuffer ------------------------------
(***************************************************************************)
(* depends/include/CELLBuffer.hpp: the byte buffer between a socket and    *)
(* the message handlers, used for both directions of every connection.     *)
(*                                                                         *)
(* A message is MsgLen units, of which the first is its header (it says    *)
(* how long the message is) and the last its msgID field; a unit is the    *)
(* pair of the message's number and the unit's place in it.  _fullCount,   *)
(* which nothing reads, is left out, and memcpy() moves a tail forward     *)
(* even where source and target overlap, as the C library's does.          *)
(***************************************************************************)
EXTENDS Integers, Sequences

CONSTANT MsgLen    \* units of a message

ASSUME MsgLenAssumption == MsgLen \in Nat /\ MsgLen >= 2

HeaderLen == 1

Units(id) == [k \in 1..MsgLen |-> <<id, k>>]

room(buf, size) == size - Len(buf)

\* push(): all of the data, or none of it.
Fits(buf, size, data) == Len(data) <= room(buf, size)

\* pop(), and the tail left by a short write in write2socket().
pop(buf, n) == SubSeq(buf, n + 1, Len(buf))

\* header->dataLength, read from whatever is at the front of the buffer.
dataLength(buf) == IF buf[1][2] = 1 THEN MsgLen ELSE 0

hasMsg(buf) == Len(buf) >= HeaderLen /\ Len(buf) >= dataLength(buf)

frontID(buf) == buf[1][1]

needWrite(buf) == Len(buf) > 0
==============================================================================
