------------------------------ MODULE TcpServer -------------------------------
(***************************************************************************)
(* The earlier server (server/bak): TcpServer.h, TcpServer.cpp, CELLTask.  *)
(* hpp and server.cpp.  main() accepts connections and hands them to the   *)
(* CellServer threads, which wait in select() without a time limit, read,  *)
(* and leave each answer as a task to a second thread of their own.        *)
(*                                                                         *)
(* This is the Windows build: the other branch deletes shared pointers and *)
(* does not compile.  A client that is lost is erased from the table and   *)
(* its object goes with the last task that holds it; its socket is never   *)
(* closed, so that its number is not given to another connection.          *)
(*                                                                         *)
(* The search for the least loaded thread is one step, as is the sending   *)
(* of an answer, which only the thread of the tasks does.                  *)
(***************************************************************************)
EXTENDS Integers, SequencesExt, FiniteSetsExt

CONSTANTS
  NCell,          \* nCellServer
  Conns,          \* bound: connections in a behaviour
  Sockets,        \* socket numbers; 0 stands for none
  FdSetSize,      \* FD_SETSIZE
  MaxAsked,       \* bound: logins in a behaviour
  AnswerLen,      \* dataLength of a LoginResult
  SendBuffSize    \* SEND_BUFF_SZIE

\* An answer, of a hundred bytes, is far shorter than the buffer (dataType.h:30,
\* TcpServer.h:40), so that it fills it at most once.
ASSUME TcpServerAssumption ==
  /\ {NCell, FdSetSize, AnswerLen, SendBuffSize} \subseteq Nat \ {0}
  /\ AnswerLen <= SendBuffSize
  /\ IsFiniteSet(Conns) /\ Sockets \subseteq Nat \ {0} /\ MaxAsked \in Nat

Cells == 1..NCell
NoConn == "no connection"

VARIABLES
  mainPc, accepted,    \* where main() is, and the connection it is handing over
  listening,           \* _sock is open
  clientCount,
  sockfd,              \* sockfd[c]: c's socket number; 0 before it is accepted
  open,                \* connections whose socket is open
  peer,                \* what c's peer has done: logins sent and not received,
                       \* whether it has closed or reset the connection, and
                       \* the bytes it was sent
  cellPc,              \* cellPc[s]: where the thread of s is
  clients, clientsBuff, clientsChange,
  fdRead,              \* before select() the set, after it what is left to read
  fdReadBak,
  tasks,               \* what is left to do of _tasks
  tasksBuf,
  sendBuf,             \* _szSendBuf up to _lastSendPos
  asked,               \* history: logins of c that were handled
  cut,                 \* history: connections an answer could not be sent on
  failed               \* history: the select() of a CellServer has failed

mainVars == <<mainPc, accepted, listening>>
connVars == <<sockfd, open>>
cellVars == <<cellPc, clients, clientsBuff, clientsChange, fdRead, fdReadBak>>
taskVars == <<tasks, tasksBuf>>
sendVars == <<sendBuf, cut>>
tcpVars == <<mainVars, connVars, clientCount, peer, cellVars, taskVars, sendVars, asked, failed>>

TcpInit ==
  /\ mainPc = "loop" /\ accepted = NoConn /\ listening = TRUE
  /\ clientCount = 0
  /\ sockfd = [c \in Conns |-> 0] /\ open = {}
  /\ peer = [c \in Conns |-> [logins |-> 0, hup |-> FALSE, got |-> <<>>]]
  /\ cellPc = [s \in Cells |-> "top"]
  /\ clients = [s \in Cells |-> {}] /\ clientsBuff = [s \in Cells |-> {}]
  /\ clientsChange = [s \in Cells |-> TRUE]
  /\ fdRead = [s \in Cells |-> {}] /\ fdReadBak = [s \in Cells |-> {}]
  /\ tasks = [s \in Cells |-> <<>>] /\ tasksBuf = [s \in Cells |-> <<>>]
  /\ sendBuf = [c \in Conns |-> <<>>] /\ cut = {}
  /\ asked = [c \in Conns |-> 0] /\ failed = FALSE

-----------------------------------------------------------------------------
(* main(), in TcpServer::OnRun() *)

\* The next new ClientSocket: which one it is called makes no difference.
NewConn == CHOOSE c \in Conns : sockfd[c] = 0

\* accept() returns a socket with a number that is not in use.
AcceptConn(c, n) ==
  /\ mainPc = "loop" /\ listening
  /\ sockfd[c] = 0 /\ c = NewConn /\ \A d \in open : sockfd[d] # n
  /\ sockfd' = [sockfd EXCEPT ![c] = n]
  /\ open' = open \cup {c}
  /\ mainPc' = "add" /\ accepted' = c
  /\ UNCHANGED <<listening, clientCount, peer, cellVars, taskVars, sendVars, asked, failed>>

getClientCount(s) == Cardinality(clients[s]) + Cardinality(clientsBuff[s])

\* The first of the least loaded threads, ended or not.
addClientToCellServer ==
  LET least == {s \in Cells : \A t \in Cells : getClientCount(s) <= getClientCount(t)} IN
  /\ mainPc = "add"
  /\ clientsBuff' = [clientsBuff EXCEPT ![Min(least)] = @ \cup {accepted}]
  /\ mainPc' = "join"
  /\ UNCHANGED <<accepted, listening, connVars, clientCount, peer, cellPc, clients,
                 clientsChange, fdRead, fdReadBak, taskVars, sendVars, asked, failed>>

OnNetJoin ==
  /\ mainPc = "join"
  /\ clientCount' = clientCount + 1
  /\ mainPc' = "loop" /\ accepted' = NoConn
  /\ UNCHANGED <<listening, connVars, peer, cellVars, taskVars, sendVars, asked, failed>>

\* Its select() fails, or g_bRun is cleared: Close() closes the listening
\* socket, and WSACleanup() all others.  If main() goes on, select() fails again.
TcpServerClose ==
  /\ mainPc = "loop"
  /\ mainPc' = "closed"
  /\ listening' = FALSE /\ open' = {}
  /\ UNCHANGED <<accepted, sockfd, clientCount, peer, cellVars, taskVars, sendVars, asked, failed>>

\* main() returns: the CellServer objects go, and with them threads that nobody
\* has joined, which ends the process by std::terminate().
Terminate ==
  /\ mainPc = "closed"
  /\ mainPc' = "terminated"
  /\ UNCHANGED <<accepted, listening, connVars, clientCount, peer, cellVars, taskVars,
                 sendVars, asked, failed>>

MainThread ==
  \/ \E c \in Conns, n \in Sockets : AcceptConn(c, n)
  \/ addClientToCellServer \/ OnNetJoin \/ TcpServerClose \/ Terminate

-----------------------------------------------------------------------------
(* The thread of a CellServer *)

CellGo(s, from, to) == cellPc[s] = from /\ cellPc' = [cellPc EXCEPT ![s] = to]

\* FD_SET() in the order of the numbers, until the set is full.
FdSet(S) == {c \in S : Cardinality({d \in S : sockfd[d] < sockfd[c]}) < FdSetSize}

\* A turn of OnRun() up to its select(); without a client the thread sleeps.
CellRound(s) ==
  LET all == clients[s] \cup clientsBuff[s]
      change == clientsChange[s] \/ clientsBuff[s] # {}
      set == IF all = {} THEN {} ELSE IF change THEN FdSet(all) ELSE fdReadBak[s]
  IN
  /\ cellPc[s] \in {"top", "read"} /\ fdRead[s] = {}
  /\ cellPc' = [cellPc EXCEPT ![s] = IF all = {} THEN "top" ELSE "select"]
  /\ clients' = [clients EXCEPT ![s] = all]
  /\ clientsBuff' = [clientsBuff EXCEPT ![s] = {}]
  /\ clientsChange' = [clientsChange EXCEPT ![s] = change /\ all = {}]
  /\ fdRead' = [fdRead EXCEPT ![s] = set]
  /\ fdReadBak' = [fdReadBak EXCEPT ![s] = IF all = {} THEN @ ELSE set]
  /\ UNCHANGED <<mainVars, connVars, clientCount, peer, taskVars, sendVars, asked, failed>>

Readable(c) == peer[c].logins > 0 \/ peer[c].hup

\* select() has no time limit.
CellSelect(s) ==
  LET readable == {c \in fdRead[s] : Readable(c)} IN
  /\ mainPc # "closed" /\ readable # {}
  /\ CellGo(s, "select", "read")
  /\ fdRead' = [fdRead EXCEPT ![s] = readable]
  /\ UNCHANGED <<mainVars, connVars, clientCount, peer, clients, clientsBuff, clientsChange,
                 fdReadBak, taskVars, sendVars, asked, failed>>

\* Close(): the clients' sockets and the listening one, and the thread ends.
CellSelectFails(s) ==
  /\ mainPc = "closed" \/ ~failed
  /\ failed' = TRUE
  /\ CellGo(s, "select", "ended")
  /\ open' = open \ clients[s]
  /\ clients' = [clients EXCEPT ![s] = {}]
  /\ listening' = FALSE
  /\ UNCHANGED <<mainPc, accepted, sockfd, clientCount, peer, clientsBuff, clientsChange,
                 fdRead, fdReadBak, taskVars, sendVars, asked>>

\* RecvData(): a whole login, whose answer becomes a task; the recv() may have
\* brought the next one too.
RecvLogin(s, c) ==
  /\ cellPc[s] = "read" /\ c \in fdRead[s] \cap open /\ peer[c].logins > 0
  /\ peer' = [peer EXCEPT ![c].logins = @ - 1]
  /\ asked' = [asked EXCEPT ![c] = @ + 1]
  /\ tasksBuf' = [tasksBuf EXCEPT ![s] = Append(@, <<c, asked'[c]>>)]
  /\ \/ fdRead' = [fdRead EXCEPT ![s] = @ \ {c}]
     \/ peer'[c].logins > 0 /\ UNCHANGED fdRead
  /\ UNCHANGED <<mainVars, connVars, clientCount, cellPc, clients, clientsBuff, clientsChange,
                 fdReadBak, tasks, sendVars, failed>>

\* RecvData() fails: the client leaves, and c of the table goes.  Its peer has
\* closed, or has reset the connection, and then what is not read is lost.
Lost(s, c) ==
  /\ cellPc[s] = "read" /\ c \in fdRead[s]
  /\ c \notin open \/ peer[c].hup
  /\ clients' = [clients EXCEPT ![s] = @ \ {c}]
  /\ fdRead' = [fdRead EXCEPT ![s] = @ \ {c}]
  /\ UNCHANGED <<mainVars, sockfd, peer, cellPc, clientsBuff, fdReadBak, taskVars, sendVars,
                 asked, failed>>

\* Mutant of LeaveConn: the socket is closed with its client.
LeaveConnCloses(s, c) ==
  /\ Lost(s, c)
  /\ clientCount' = clientCount - 1
  /\ clientsChange' = [clientsChange EXCEPT ![s] = TRUE]
  /\ open' = open \ {c}

\* Mutant of LeaveConn: as in the other branch, which clears the flag.
LeaveConnStale(s, c) ==
  /\ Lost(s, c)
  /\ clientCount' = clientCount - 1
  /\ clientsChange' = [clientsChange EXCEPT ![s] = FALSE]
  /\ UNCHANGED open

\* Mutant of LeaveConn: without OnNetLeave().
LeaveConnUncounted(s, c) ==
  /\ Lost(s, c)
  /\ clientsChange' = [clientsChange EXCEPT ![s] = TRUE]
  /\ UNCHANGED <<clientCount, open>>

LeaveConn(s, c) ==
  /\ Lost(s, c)
  /\ clientCount' = clientCount - 1
  /\ clientsChange' = [clientsChange EXCEPT ![s] = TRUE]
  /\ UNCHANGED open

CellThread(s) ==
  \/ CellRound(s) \/ CellSelect(s) \/ CellSelectFails(s)
  \/ \E c \in Conns : RecvLogin(s, c) \/ LeaveConn(s, c)

-----------------------------------------------------------------------------
(* The thread of a CellTaskServer, which never ends *)

\* The buffer, when it is seen not to be empty, is moved to the list.
TakeTasks(s) ==
  /\ tasks[s] = <<>> /\ tasksBuf[s] # <<>>
  /\ tasks' = [tasks EXCEPT ![s] = tasksBuf[s]]
  /\ tasksBuf' = [tasksBuf EXCEPT ![s] = <<>>]
  /\ UNCHANGED <<mainVars, connVars, clientCount, peer, cellVars, sendVars, asked, failed>>

Answer(task) == [i \in 1..AnswerLen |-> task]

\* The connection that has c's socket number: bytes sent for c go there.
Behind(c) == CHOOSE d \in open : sockfd[d] = sockfd[c]

\* ClientSocket::SendData(): the buffer is sent whenever it is full, and what
\* is over stays in it.
SendData(c, task) ==
  LET all == sendBuf[c] \o Answer(task)
      full == (Len(all) \div SendBuffSize) * SendBuffSize
  IN /\ full > 0 => \E d \in open : sockfd[d] = sockfd[c]
     /\ peer' = IF full = 0 THEN peer
                ELSE [peer EXCEPT ![Behind(c)].got = @ \o SubSeq(all, 1, full)]
     /\ sendBuf' = [sendBuf EXCEPT ![c] = SubSeq(all, full + 1, Len(all))]
     /\ UNCHANGED cut

\* send() fails: the buffer and the rest of the answer are dropped.
SendFails(c, task) ==
  /\ Len(sendBuf[c]) + AnswerLen >= SendBuffSize
  /\ c \notin open \/ peer[c].hup
  /\ sendBuf' = [sendBuf EXCEPT ![c] = <<>>]
  /\ cut' = cut \cup {c}
  /\ UNCHANGED peer

\* The list is walked in its order, and cleared after the walk.
doTask(s) ==
  /\ tasks[s] # <<>>
  /\ LET task == Head(tasks[s]) IN SendData(task[1], task) \/ SendFails(task[1], task)
  /\ tasks' = [tasks EXCEPT ![s] = Tail(@)]
  /\ UNCHANGED <<mainVars, connVars, clientCount, cellVars, tasksBuf, asked, failed>>

TaskThread(s) == TakeTasks(s) \/ doTask(s)

-----------------------------------------------------------------------------
\* The peer of a connection that has been accepted.
Asked == SumFunction([c \in Conns |-> asked[c] + peer[c].logins])

PeerLogin(c) ==
  /\ c \in open /\ ~peer[c].hup /\ Asked < MaxAsked
  /\ peer' = [peer EXCEPT ![c].logins = @ + 1]

PeerHup(c) == c \in open /\ ~peer[c].hup /\ peer' = [peer EXCEPT ![c].hup = TRUE]

Peer ==
  /\ \E c \in Conns : PeerLogin(c) \/ PeerHup(c)
  /\ UNCHANGED <<mainVars, connVars, clientCount, cellVars, taskVars, sendVars, asked, failed>>

TcpNext ==
  \/ /\ mainPc # "terminated"
     /\ MainThread \/ Peer \/ \E s \in Cells : CellThread(s) \/ TaskThread(s)
  \/ mainPc = "terminated" /\ UNCHANGED tcpVars

TcpSpec == TcpInit /\ [][TcpNext]_tcpVars

-----------------------------------------------------------------------------
\* The tasks of s, in the order they will be done.
Waiting(s) == tasks[s] \o tasksBuf[s]

\* The tasks for c in q are first..last, each once and in this order.
InOrder(q, c, first, last) ==
  /\ \A i \in DOMAIN q : q[i][1] = c => q[i][2] \in first..last
  /\ \A n \in first..last : \E i \in DOMAIN q : q[i][1] = c /\ q[i][2] = n
  /\ \A i, j \in DOMAIN q : i < j /\ q[i][1] = c /\ q[j][1] = c => q[i][2] < q[j][2]

\* What waits for c are the answers after the first done ones, with one thread.
QueuedInOrder(c, done) ==
  \E s \in Cells :
    /\ InOrder(Waiting(s), c, done + 1, asked[c])
    /\ \A t \in Cells \ {s} : \A i \in DOMAIN Waiting(t) : Waiting(t)[i][1] # c

\* The bytes of the first done answers to c.
Answers(c, done) == [i \in 1..done * AnswerLen |-> <<c, (i - 1) \div AnswerLen + 1>>]

\* A client is sent the answers to its own logins, each once and in order, by
\* the second thread, whether it is still connected or not: what it got and
\* what is in its buffer are its first answers, and the tasks are the others,
\* unless a send() has failed; and nothing that belongs to another one
\* (TcpServer.h:76-114, 147-166, 411-416, CELLTask.hpp:37-80).
AnswersGoHome ==
  \A c \in Conns :
    /\ \A i \in DOMAIN peer[c].got : peer[c].got[i][1] = c
    /\ c \notin cut =>
         \E done \in 0..asked[c] :
           /\ peer[c].got \o sendBuf[c] = Answers(c, done)
           /\ QueuedInOrder(c, done)

\* The count that is printed is the number of clients the threads have, less
\* the one whose OnNetJoin() is still to come, although a client may leave
\* before that; it is wrong for good once a CellServer has closed
\* (TcpServer.cpp:124-137, 206-214, TcpServer.h:190-214).
CountOfClients ==
  LET here == UNION {clients[s] \cup clientsBuff[s] : s \in Cells} IN
  ~failed => clientCount = Cardinality(here) - (IF mainPc = "join" THEN 1 ELSE 0)

\* A thread that goes into select() waits for everybody it has been given by
\* then, in its table or in its buffer, up to the size of the set; and as long
\* as it is blocked, for all its table, by sockets that are open until the
\* server closes.  With no time limit, a client that is left out is not heard
\* until another one is.  Whoever is handed over while the thread is blocked
\* is left out so: it stays in the buffer until select() returns for another
\* client, however long that takes, and only from the next turn on it is waited
\* for (TcpServer.h:233-285, 394-398).
WaitsForAll ==
  [][\A s \in Cells : cellPc'[s] = "select" /\ mainPc' \notin {"closed", "terminated"} =>
       /\ fdRead'[s] = FdSet(clients[s])' /\ fdRead'[s] \subseteq open'
       /\ cellPc[s] # "select" =>
            clients'[s] = clients[s] \cup clientsBuff[s] /\ clientsBuff'[s] = {}]_tcpVars
==============================================================================
