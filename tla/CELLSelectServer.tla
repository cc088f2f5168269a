-------------------------- MODULE CELLSelectServer ---------------------------
(***************************************************************************)
(* A service thread with the select back end: CELLSelectServer.hpp and     *)
(* CELLFDSet.hpp under the loop of CELLServer.hpp, the heartbeat clock of  *)
(* CELLClient.hpp, and the accept loop of EasySelectServer.hpp.            *)
(*                                                                         *)
(* The read set is rebuilt only after a change of the table; otherwise the *)
(* backup of the last one is used.  CheckTime() adds the time of a whole   *)
(* turn to every heart clock before the turn's messages are read, and only *)
(* a handled message sets a clock back.                                    *)
(*                                                                         *)
(* A client is known by its socket number, which is its own while it lives *)
(* (module EasyTcpServer); ticks stand for milliseconds, and what the peer *)
(* has sent and the thread has not received is one message.                *)
(***************************************************************************)
EXTENDS Integers, FiniteSetsExt

CONSTANTS
  Fds,         \* socket numbers the kernel hands out
  MaxFd,       \* CELL_MAX_FD
  DeadTime,    \* CLIENT_HREAT_DEAD_TIME
  MaxTurn      \* bound: the longest time from one CheckTime() to the next

ASSUME SelectAssumption ==
  /\ IsFiniteSet(Fds) /\ Fds \subseteq Nat /\ MaxFd \in Nat
  /\ DeadTime \in Nat \ {0} /\ MaxTurn \in Nat

VARIABLES
  client,       \* client[fd]: the living client with this socket, or NoClient
  accepting,    \* the accept thread is in its loop
  run,          \* _isRun of the service thread
  pc,           \* where the service thread is
  change,       \* _clients_change
  fdRead, fdReadBak, fdWrite, maxSock,
  received,     \* clients with a whole message in their _recvBuff
  elapsed       \* now - _oldTime

setVars == <<change, fdRead, fdReadBak, fdWrite, maxSock>>
vars == <<client, accepting, run, pc, setVars, received, elapsed>>

\* at: in _clientsBuff or in _clients; dtHeart: _dtHeart; data: sent by the
\* peer and not received; hup: the peer has closed; needWrite: _sendBuff holds
\* something; quiet: the time since the peer last sent.
NoClient == [at |-> "none", dtHeart |-> 0, data |-> FALSE, hup |-> FALSE,
             needWrite |-> FALSE, quiet |-> 0]
NewClient == [NoClient EXCEPT !.at = "buffer"]

Init ==
  /\ client = [fd \in Fds |-> NoClient]
  /\ accepting = TRUE /\ run = TRUE
  /\ pc = "top"
  /\ change = TRUE
  /\ fdRead = {} /\ fdReadBak = {} /\ fdWrite = {} /\ maxSock = 0
  /\ received = {}
  /\ elapsed = 0

At(place) == {fd \in Fds : client[fd].at = place}
Table == At("table")

Go(from, to) == pc = from /\ pc' = to

\* Mutant of Set: no test of the bound.
SetUnbounded(S) == S

\* CELLFDSet::add() leaves out what the bit array has no place for.
Set(S) == {fd \in S : fd < MaxFd}

\* OnNetLeave(), _clients_change = true, delete, erase.
Leave(gone, others) ==
  /\ client' = [fd \in Fds |-> IF fd \in gone THEN NoClient ELSE others[fd]]
  /\ change' = (change \/ gone # {})

-----------------------------------------------------------------------------
(* The accept thread, the peers, the clock and the main thread *)

\* select() reports the listening socket; Accept() hands the client over.
Accept(fd) ==
  /\ accepting
  /\ client[fd] = NoClient
  /\ client' = [client EXCEPT ![fd] = NewClient]
  /\ UNCHANGED <<accepting, run, pc, setVars, received, elapsed>>

\* Its select() fails, not by EINTR: the loop is left.
AcceptFails ==
  /\ accepting /\ run
  /\ accepting' = FALSE
  /\ UNCHANGED <<client, run, pc, setVars, received, elapsed>>

PeerSends(fd) ==
  /\ client[fd] # NoClient /\ ~client[fd].hup
  /\ client' = [client EXCEPT ![fd].data = TRUE, ![fd].quiet = 0]
  /\ UNCHANGED <<accepting, run, pc, setVars, received, elapsed>>

PeerCloses(fd) ==
  /\ client[fd] # NoClient
  /\ client' = [client EXCEPT ![fd].hup = TRUE]
  /\ UNCHANGED <<accepting, run, pc, setVars, received, elapsed>>

Tick ==
  /\ elapsed < MaxTurn
  /\ elapsed' = elapsed + 1
  /\ client' = [fd \in Fds |-> IF client[fd] = NoClient THEN NoClient
                               ELSE [client[fd] EXCEPT !.quiet = @ + 1]]
  /\ UNCHANGED <<accepting, run, pc, setVars, received>>

\* EasyTcpServer::Close(): the accept thread first.
Close ==
  /\ run
  /\ accepting' = FALSE
  /\ run' = FALSE
  /\ UNCHANGED <<client, pc, setVars, received, elapsed>>

-----------------------------------------------------------------------------
(* OnRun() and CheckTime() *)

\* The buffered clients join; without clients the clock is set and the turn ends.
LoopTop ==
  /\ run
  /\ client' = [fd \in Fds |-> IF client[fd].at = "buffer"
                               THEN [client[fd] EXCEPT !.at = "table"] ELSE client[fd]]
  /\ change' = (change \/ At("buffer") # {})
  /\ IF Table \cup At("buffer") = {}
     THEN Go("top", "top") /\ elapsed' = 0
     ELSE Go("top", "time") /\ UNCHANGED elapsed
  /\ UNCHANGED <<accepting, run, fdRead, fdReadBak, fdWrite, maxSock, received>>

LoopEnds ==
  /\ ~run
  /\ Go("top", "clear")
  /\ UNCHANGED <<client, accepting, run, setVars, received, elapsed>>

\* Mutant of Aged: the time is taken after _oldTime was set.
AgedByNothing(fd) == [client[fd] EXCEPT !.dtHeart = @ + 0]

Aged(fd) == [client[fd] EXCEPT !.dtHeart = @ + elapsed]
checkHeart(fd) == Aged(fd).dtHeart >= DeadTime

\* Mutant of CheckTime: the clocks run on from the start of the process.
CheckTimeKeepsOld ==
  /\ Go("time", "sets")
  /\ Leave({fd \in Table : checkHeart(fd)},
           [fd \in Fds |-> IF fd \in Table THEN Aged(fd) ELSE client[fd]])
  /\ UNCHANGED <<accepting, run, fdRead, fdReadBak, fdWrite, maxSock, received, elapsed>>

CheckTime ==
  /\ Go("time", "sets")
  /\ elapsed' = 0
  /\ Leave({fd \in Table : checkHeart(fd)},
           [fd \in Fds |-> IF fd \in Table THEN Aged(fd) ELSE client[fd]])
  /\ UNCHANGED <<accepting, run, fdRead, fdReadBak, fdWrite, maxSock, received>>

-----------------------------------------------------------------------------
(* DoNetEvents() *)

\* The sets of the call to select().
MakeSets ==
  /\ Table # {}
  /\ Go("sets", "select")
  /\ fdRead' = IF change THEN Set(Table) ELSE fdReadBak
  /\ fdReadBak' = fdRead'
  /\ maxSock' = IF change THEN Max(Table) ELSE maxSock
  /\ change' = FALSE
  /\ fdWrite' = Set({fd \in Table : client[fd].needWrite})
  /\ UNCHANGED <<client, accepting, run, received, elapsed>>

\* CheckTime() has dropped the last client: _clients.begin() is the end of the
\* map, and what _maxSock is read from is not a client.  The process crashes,
\* or select() refuses the number and the thread exits, or nothing comes of it.
EventsOfNobody ==
  /\ Table = {}
  /\ pc = "sets"
  /\ pc' \in {"crashed", "exit", "top"}
  /\ change' = FALSE
  /\ fdRead' = {} /\ fdReadBak' = {} /\ fdWrite' = {}
  /\ UNCHANGED <<client, accepting, run, maxSock, received, elapsed>>

Closed(S) == {fd \in S : client[fd] = NoClient}

\* select() may always be interrupted (the turn goes on with DoMsg()), and it
\* fails for lack of memory or for a socket that is closed.
SelectInterrupted ==
  /\ Closed(fdRead \cup fdWrite) = {}
  /\ Go("select", "msg")
  /\ UNCHANGED <<client, accepting, run, setVars, received, elapsed>>

SelectFails ==
  /\ Go("select", "exit")
  /\ UNCHANGED <<client, accepting, run, setVars, received, elapsed>>

\* The kernel looks at the numbers up to _maxSock; with nothing ready the turn
\* goes on with DoMsg().
Select ==
  /\ Closed(fdRead \cup fdWrite) = {}
  /\ fdRead' = {fd \in fdRead : fd <= maxSock /\ (client[fd].data \/ client[fd].hup)}
  /\ fdWrite' \in SUBSET {fd \in fdWrite : fd <= maxSock}
  /\ Go("select", IF fdRead' \cup fdWrite' = {} THEN "msg" ELSE "read")
  /\ UNCHANGED <<client, accepting, run, change, fdReadBak, maxSock, received, elapsed>>

\* has() reads past the bit array for a socket it has no place for.
Has(set, garbage, fd) == fd \in set \/ (fd >= MaxFd /\ fd \in garbage)

\* Mutant of ReadData: the fd set is not rebuilt after a loss.
ReadDataKeepsSet ==
  /\ Go("read", "write")
  /\ LET ready == {fd \in Table : fd \in fdRead}
         got == {fd \in ready : client[fd].data}
     IN /\ received' = received \cup got
        /\ client' = [fd \in Fds |->
             IF fd \in ready \ got THEN NoClient
             ELSE [client[fd] EXCEPT !.data = IF fd \in got THEN FALSE ELSE @]]
  /\ UNCHANGED <<accepting, run, setVars, elapsed>>

\* ReadData(): a client is received from, or it leaves when recv() fails; a
\* recv() with nothing to receive does not return.
ReadData ==
  \E garbage \in SUBSET Table :
    LET ready == {fd \in Table : Has(fdRead, garbage, fd)}
        got == {fd \in ready : client[fd].data}
    IN /\ IF \A fd \in ready \ got : client[fd].hup
          THEN Go("read", "write") ELSE Go("read", "stuck")
       /\ received' = received \cup got
       /\ Leave({fd \in ready \ got : client[fd].hup},
                [fd \in Fds |-> IF fd \in got THEN [client[fd] EXCEPT !.data = FALSE]
                                ELSE client[fd]])
       /\ UNCHANGED <<accepting, run, fdRead, fdReadBak, fdWrite, maxSock, elapsed>>

\* WriteData(): a client's buffer is sent, whole or in part, or it leaves when
\* send() fails.
WriteData ==
  \E garbage, failed, whole \in SUBSET Table :
    LET ready == {fd \in Table : client[fd].needWrite /\ Has(fdWrite, garbage, fd)} IN
    /\ failed \subseteq {fd \in ready : client[fd].hup}
    /\ whole \subseteq ready \ failed
    /\ Go("write", "msg")
    /\ Leave(failed, [fd \in Fds |-> IF fd \in whole
                                     THEN [client[fd] EXCEPT !.needWrite = FALSE]
                                     ELSE client[fd]])
    /\ UNCHANGED <<accepting, run, fdRead, fdReadBak, fdWrite, maxSock, received, elapsed>>

-----------------------------------------------------------------------------
\* Mutant of DoMsg: the clock is left as it is.
DoMsgNoReset ==
  /\ Go("msg", "top")
  /\ received' = {}
  /\ UNCHANGED <<client, accepting, run, setVars, elapsed>>

\* DoMsg(): login, logout and heartbeat set the clock back; an answer may be
\* written.
DoMsg ==
  \E answered \in SUBSET (received \cap Table) :
    /\ Go("msg", "top")
    /\ client' = [fd \in Fds |->
         IF fd \in received \cap Table
         THEN [client[fd] EXCEPT !.dtHeart = 0, !.needWrite = @ \/ fd \in answered]
         ELSE client[fd]]
    /\ received' = {}
    /\ UNCHANGED <<accepting, run, setVars, elapsed>>

\* DoNetEvents() has returned false.
Exit ==
  /\ Go("exit", "clear")
  /\ run' = FALSE
  /\ UNCHANGED <<client, accepting, setVars, received, elapsed>>

ClearClients ==
  /\ Go("clear", "done")
  /\ client' = [fd \in Fds |-> NoClient]
  /\ UNCHANGED <<accepting, run, setVars, received, elapsed>>

Service ==
  \/ LoopTop \/ LoopEnds \/ CheckTime \/ MakeSets \/ EventsOfNobody
  \/ SelectInterrupted \/ SelectFails \/ Select \/ ReadData \/ WriteData
  \/ DoMsg \/ Exit \/ ClearClients

\* Once the thread has ended, nothing that is modelled here can follow.
Ended == pc \in {"done", "stuck", "crashed"}

Environment ==
  /\ ~Ended
  /\ \/ AcceptFails \/ Tick \/ Close
     \/ \E fd \in Fds : Accept(fd) \/ PeerSends(fd) \/ PeerCloses(fd)

Next == Service \/ Environment

Spec == Init /\ [][Next]_vars

-----------------------------------------------------------------------------
ClientRecord ==
  [at : {"none", "buffer", "table"}, dtHeart : Nat, data : BOOLEAN, hup : BOOLEAN,
   needWrite : BOOLEAN, quiet : Nat]

TypeOK ==
  /\ client \in [Fds -> ClientRecord]
  /\ \A fd \in Fds : client[fd].at = "none" => client[fd] = NoClient
  /\ accepting \in BOOLEAN /\ run \in BOOLEAN /\ change \in BOOLEAN
  /\ pc \in {"top", "time", "sets", "select", "read", "write", "msg", "exit",
             "clear", "done", "stuck", "crashed"}
  /\ \A set \in {fdRead, fdReadBak, fdWrite} : set \subseteq {fd \in Fds : fd < MaxFd}
  /\ maxSock \in Nat
  /\ received \subseteq Fds
  /\ elapsed \in 0..MaxTurn

\* The cached sets are as good as new ones: whenever select() is called, the
\* read set is the table's sockets the set has room for, every number is below
\* the limit passed, and no socket is closed (CELLSelectServer.hpp:17-59).
SetsAreFresh ==
  pc = "select" =>
    /\ fdRead = Set(Table)
    /\ fdWrite \subseteq Table
    /\ \A fd \in Table : fd <= maxSock

\* A silent client is dropped whatever select() reports, but no sooner than
\* the dead time after its last message is handled.  An interrupted select()
\* may put that off for as long again, and a client that connects while
\* CheckTime() is due waits a turn for the table, during which its heart clock
\* does not run (CELLServer.hpp:58-106).
SilentAreDropped ==
  \A fd \in Table : client[fd].quiet <= 2 * (DeadTime - 1 + MaxTurn)

\* CheckTime() drops a client that has sent within the dead time, less one
\* turn, only while the message is still unread (CELLClient.hpp:116-125).
DropIsDue ==
  [][\A fd \in Fds : pc = "time" /\ fd \in Table /\ client'[fd] = NoClient
       => client[fd].data \/ client[fd].quiet + MaxTurn >= DeadTime]_vars
==============================================================================
