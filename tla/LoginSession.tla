---------------------------- MODULE LoginSession -----------------------------
(***************************************************************************)
(* One connection between the test client (client/client.cpp on            *)
(* EasyEpollClient.hpp) and the server (server/server.cpp on               *)
(* CELLEpollServer.hpp), run with -checkMsgID and -sendback: the client    *)
(* streams numbered logins, the server checks the numbers and answers each *)
(* with a numbered result, which the client checks.                        *)
(*                                                                         *)
(* Both ends write messages into a CELLBuffer and move bytes only when     *)
(* epoll reports the socket ready.  The sockets stay in blocking mode, so  *)
(* that send() returns when the kernel has taken all it was given.         *)
(***************************************************************************)
EXTENDS CELLBuffer, FiniteSetsExt

CONSTANTS
  SendSize,    \* nSendBuffSize, in units
  RecvSize,    \* nRecvBuffSize
  WireCap,     \* what the kernel's buffers hold in one direction
  nMsg,        \* logins the client may write per round
  MaxLogins    \* bound: logins of a behaviour

ASSUME SessionAssumption ==
  /\ SendSize \in Nat /\ SendSize >= MsgLen
  /\ RecvSize \in Nat /\ RecvSize >= MsgLen
  /\ WireCap \in Nat \ {0} /\ nMsg \in Nat \ {0} /\ MaxLogins \in Nat

Ends == {"client", "server"}
Peer(e) == IF e = "client" THEN "server" ELSE "client"

VARIABLES
  sendBuff,      \* sendBuff[e]: _sendBuff
  recvBuff,      \* recvBuff[e]: _recvBuff
  wire,          \* wire[e]: units e has sent and its peer has not received
  sent,          \* sent[e]: units of sendBuff[e] the running send() has passed on
  pc,            \* pc[e]: where the thread of e is
  writable,      \* writable[e]: the last epoll_wait reported EPOLLOUT
  nSendMsgID,    \* nSendMsgID[e]: number of the next message to write
  nRecvMsgID,    \* nRecvMsgID[e]: number the next message should have
  nSendCount,    \* the client's _nSendCount
  turn           \* the client's m: turns of its loop over nMsg

bufVars == <<sendBuff, recvBuff, wire, sent>>
idVars == <<nSendMsgID, nRecvMsgID>>
paceVars == <<nSendCount, turn>>
vars == <<bufVars, pc, writable, idVars, paceVars>>

Init ==
  /\ sendBuff = [e \in Ends |-> <<>>]
  /\ recvBuff = [e \in Ends |-> <<>>]
  /\ wire = [e \in Ends |-> <<>>]
  /\ sent = [e \in Ends |-> 0]
  /\ pc = [e \in Ends |-> IF e = "client" THEN "send" ELSE "wait"]
  /\ writable = [e \in Ends |-> FALSE]
  /\ nSendMsgID = [e \in Ends |-> 1]
  /\ nRecvMsgID = [e \in Ends |-> 1]
  /\ nSendCount = 0
  /\ turn = 0

\* The order of a round: the client handles messages as it receives them, and
\* then writes; the server handles them, in DoMsg(), after its events.
ToWrite(e) == IF writable[e] THEN "write" ELSE IF e = "client" THEN "check" ELSE "handle"
AfterRecv(e) == IF e = "client" THEN "handle" ELSE ToWrite(e)
AfterHandle(e) == IF e = "client" THEN ToWrite(e) ELSE "wait"
AfterWrite(e) == IF e = "client" THEN "check" ELSE "handle"

Go(e, from, to) == pc[e] = from /\ pc' = [pc EXCEPT ![e] = to]

-----------------------------------------------------------------------------
(* The client's work loop *)

\* SendTest(): with sends left, a login is numbered and pushed; the number is
\* used up only if the buffer had room.
SendTest ==
  /\ pc["client"] = "send" /\ turn < nMsg
  /\ turn' = turn + 1
  /\ LET login == Units(nSendMsgID["client"])
         taken == nSendCount > 0 /\ Fits(sendBuff["client"], SendSize, login)
     IN  /\ taken => nSendMsgID["client"] <= MaxLogins
         /\ sendBuff' = [sendBuff EXCEPT !["client"] = IF taken THEN @ \o login ELSE @]
         /\ nSendMsgID' = [nSendMsgID EXCEPT !["client"] = IF taken THEN @ + 1 ELSE @]
         /\ nSendCount' = IF taken THEN nSendCount - 1 ELSE nSendCount
  /\ UNCHANGED <<recvBuff, wire, sent, pc, writable, nRecvMsgID>>

SendRoundEnds ==
  /\ turn = nMsg \/ nSendMsgID["client"] > MaxLogins
  /\ Go("client", "send", "wait")
  /\ UNCHANGED <<bufVars, writable, idVars, paceVars>>

\* checkSend(dt): once nSendSleep has passed, nMsg sends are allowed again.
checkSend ==
  /\ Go("client", "check", "send")
  /\ nSendCount' \in {nSendCount, nMsg}
  /\ turn' = 0
  /\ UNCHANGED <<bufVars, writable, idVars>>

-----------------------------------------------------------------------------
(* Events, at either end *)

\* Mutant of Wait: EPOLLOUT is never asked for.
WaitToRead(e) ==
  /\ writable' = [writable EXCEPT ![e] = FALSE]
  /\ Go(e, "wait", IF wire[Peer(e)] # <<>> THEN "recv" ELSE AfterWrite(e))
  /\ UNCHANGED <<bufVars, idVars, paceVars>>

\* EPOLLOUT is asked for only while there is something to write, and reported
\* only while the kernel has room.
Wait(e) ==
  /\ writable' = [writable EXCEPT ![e] =
                    needWrite(sendBuff[e]) /\ Len(wire[e]) < WireCap]
  /\ Go(e, "wait", IF wire[Peer(e)] # <<>> THEN "recv"
                   ELSE IF writable'[e] THEN "write" ELSE AfterWrite(e))
  /\ UNCHANGED <<bufVars, idVars, paceVars>>

\* Mutant of Recv: the read is not limited by the room left.
RecvWhole(e) ==
  LET n == Len(wire[Peer(e)]) IN
  /\ Go(e, "recv", AfterRecv(e))
  /\ recvBuff' = [recvBuff EXCEPT ![e] = @ \o SubSeq(wire[Peer(e)], 1, n)]
  /\ wire' = [wire EXCEPT ![Peer(e)] = pop(@, n)]
  /\ UNCHANGED <<sendBuff, sent, writable, idVars, paceVars>>

\* read4socket(): with the buffer full, nothing is read and 0 returned.
Recv(e) ==
  LET n == Min({room(recvBuff[e], RecvSize), Len(wire[Peer(e)])}) IN
  /\ Go(e, "recv", AfterRecv(e))
  /\ recvBuff' = [recvBuff EXCEPT ![e] = @ \o SubSeq(wire[Peer(e)], 1, n)]
  /\ wire' = [wire EXCEPT ![Peer(e)] = pop(@, n)]
  /\ UNCHANGED <<sendBuff, sent, writable, idVars, paceVars>>

\* send(sockfd, _pBuff, _nLast): the kernel takes what it has room for ...
SendSome(e) ==
  /\ pc[e] = "write"
  /\ \E n \in 1..Min({WireCap - Len(wire[e]), Len(sendBuff[e]) - sent[e]}) :
       /\ wire' = [wire EXCEPT ![e] = @ \o SubSeq(sendBuff[e], sent[e] + 1, sent[e] + n)]
       /\ sent' = [sent EXCEPT ![e] = @ + n]
  /\ UNCHANGED <<sendBuff, recvBuff, pc, writable, idVars, paceVars>>

\* ... until it has everything.
SendReturns(e) ==
  /\ sent[e] = Len(sendBuff[e])
  /\ Go(e, "write", AfterWrite(e))
  /\ sendBuff' = [sendBuff EXCEPT ![e] = <<>>]
  /\ sent' = [sent EXCEPT ![e] = 0]
  /\ UNCHANGED <<recvBuff, wire, writable, idVars, paceVars>>

\* send() may return short; the tail moves to the front.
SendShort(e) ==
  /\ sent[e] \in 1..Len(sendBuff[e]) - 1
  /\ Go(e, "write", AfterWrite(e))
  /\ sendBuff' = [sendBuff EXCEPT ![e] = pop(@, sent[e])]
  /\ sent' = [sent EXCEPT ![e] = 0]
  /\ UNCHANGED <<recvBuff, wire, writable, idVars, paceVars>>

-----------------------------------------------------------------------------
(* Handlers *)

\* OnNetMsg() of client.cpp: a login result.
OnLoginResult ==
  /\ pc["client"] = "handle" /\ hasMsg(recvBuff["client"])
  /\ recvBuff' = [recvBuff EXCEPT !["client"] = pop(@, dataLength(@))]
  /\ nRecvMsgID' = [nRecvMsgID EXCEPT !["client"] = @ + 1]
  /\ UNCHANGED <<sendBuff, wire, sent, pc, writable, nSendMsgID, paceVars>>

\* Mutant of OnLogin: the answer's number is used up even when it is dropped.
OnLoginAlwaysCounts ==
  /\ pc["server"] = "handle" /\ hasMsg(recvBuff["server"])
  /\ recvBuff' = [recvBuff EXCEPT !["server"] = pop(@, dataLength(@))]
  /\ nRecvMsgID' = [nRecvMsgID EXCEPT !["server"] = @ + 1]
  /\ LET answer == Units(nSendMsgID["server"])
         taken == Fits(sendBuff["server"], SendSize, answer)
     IN  /\ sendBuff' = [sendBuff EXCEPT !["server"] = IF taken THEN @ \o answer ELSE @]
         /\ nSendMsgID' = [nSendMsgID EXCEPT !["server"] = @ + 1]
  /\ UNCHANGED <<wire, sent, pc, writable, paceVars>>

\* OnNetMsg() of server.cpp: a login, whose answer is dropped if it does not
\* fit into the send buffer.
OnLogin ==
  /\ pc["server"] = "handle" /\ hasMsg(recvBuff["server"])
  /\ recvBuff' = [recvBuff EXCEPT !["server"] = pop(@, dataLength(@))]
  /\ nRecvMsgID' = [nRecvMsgID EXCEPT !["server"] = @ + 1]
  /\ LET answer == Units(nSendMsgID["server"])
         taken == Fits(sendBuff["server"], SendSize, answer)
     IN  /\ sendBuff' = [sendBuff EXCEPT !["server"] = IF taken THEN @ \o answer ELSE @]
         /\ nSendMsgID' = [nSendMsgID EXCEPT !["server"] = IF taken THEN @ + 1 ELSE @]
  /\ UNCHANGED <<wire, sent, pc, writable, paceVars>>

\* Mutant of HandleEnds: one message of a batch is handled, the rest waits.
HandleEndsEarly(e) ==
  /\ Go(e, "handle", AfterHandle(e))
  /\ UNCHANGED <<bufVars, writable, idVars, paceVars>>

HandleEnds(e) ==
  /\ ~hasMsg(recvBuff[e])
  /\ Go(e, "handle", AfterHandle(e))
  /\ UNCHANGED <<bufVars, writable, idVars, paceVars>>

-----------------------------------------------------------------------------
EndStep(e) == Wait(e) \/ Recv(e) \/ SendSome(e) \/ SendReturns(e) \/ HandleEnds(e)
ClientStep == SendTest \/ SendRoundEnds \/ checkSend \/ OnLoginResult \/ EndStep("client")
ServerStep == OnLogin \/ EndStep("server")

Next == ClientStep \/ ServerStep \/ \E e \in Ends : SendShort(e)

Spec == Init /\ [][Next]_vars

\* Both work threads are scheduled.  Nothing makes a send() return short.
FairSpec == Spec /\ WF_vars(ClientStep) /\ WF_vars(ServerStep)

-----------------------------------------------------------------------------
TypeOK ==
  /\ \A e \in Ends :
       /\ sendBuff[e] \in Seq(Nat \X (1..MsgLen)) /\ Len(sendBuff[e]) <= SendSize
       /\ recvBuff[e] \in Seq(Nat \X (1..MsgLen)) /\ Len(recvBuff[e]) <= RecvSize
       /\ wire[e] \in Seq(Nat \X (1..MsgLen)) /\ Len(wire[e]) <= WireCap
       /\ sent[e] \in 0..Len(sendBuff[e])
  /\ pc \in [Ends -> {"send", "wait", "recv", "handle", "write", "check"}]
  /\ writable \in [Ends -> BOOLEAN]
  /\ nSendMsgID \in [Ends -> Nat \ {0}] /\ nRecvMsgID \in [Ends -> Nat \ {0}]
  /\ nSendCount \in 0..nMsg /\ turn \in 0..nMsg

\* The messages from number i up to, and without, number j, unit by unit.
Messages(i, j) ==
  [u \in 1..(j - i) * MsgLen |-> <<i + ((u - 1) \div MsgLen), ((u - 1) % MsgLen) + 1>>]

\* What is on its way from e, through both buffers and the wire, is exactly the
\* messages its peer has not handled, whole and in order, whatever the splits
\* of reads and writes: so each handler finds the number it expects.
StreamIsWhole ==
  \A e \in Ends :
    recvBuff[Peer(e)] \o wire[e] \o pop(sendBuff[e], sent[e])
      = Messages(nRecvMsgID[Peer(e)], nSendMsgID[e])

\* recv() is never reached with a full buffer: a reader that spins on a socket
\* that stays readable would serve nobody (CELLBuffer.hpp:110-124).
RoomToRecv == \A e \in Ends : pc[e] = "recv" => room(recvBuff[e], RecvSize) > 0

\* Each end is blocked in send() until the other one reads.
BothBlocked ==
  \A e \in Ends : /\ pc[e] = "write" /\ Len(wire[e]) = WireCap
                  /\ sent[e] < Len(sendBuff[e])

\* Each login that the send buffer took is handled by the server, unless both
\* ends are blocked.
LoginsArrive ==
  \A n \in 1..MaxLogins :
    nSendMsgID["client"] > n ~> (nRecvMsgID["server"] > n \/ BothBlocked)

\* A send() started on EPOLLOUT does not get stuck (README.md:252-257).
SendNeverSticks == \A e \in Ends : pc[e] = "write" ~> pc[e] # "write"
==============================================================================
