------------------------- MODULE EarlierServerProofs -------------------------
(***************************************************************************)
(* Proofs about the earlier server: TcpServer, for any number of threads   *)
(* and of connections, any socket numbers and any size of a descriptor     *)
(* set, and then the pools of MemoryMgr, for any number of threads and of  *)
(* blocks, any sizes, and whatever is allocated and returned.              *)
(***************************************************************************)
EXTENDS MemoryMgr, TcpServer, FiniteSetTheorems, SequenceTheorems, WellFoundedInduction,
        NaturalsInduction, TLAPS

-----------------------------------------------------------------------------
(* TcpServer: sets of clients *)

\* A non-empty set of naturals has a least element.
LEMMA LeastNatural ==
  ASSUME NEW S \in SUBSET Nat, S # {}
  PROVE  Min(S) \in S /\ \A n \in S : Min(S) <= n
  <1> DEFINE R == OpToRel(<, Nat)
  <1>0. S \subseteq Nat
    OBVIOUS
  <1>1. IsWellFoundedOn(R, Nat)
    BY NatLessThanWellFounded, Zenon
  <1>2. PICK m \in S : \A n \in S : <<n, m>> \notin R
    <2> HIDE DEF R
    <2> QED BY <1>0, <1>1, WFMin, Zenon
  <1>3. \A n \in S : m <= n
    <2>1. \A n \in S : ~(n < m)
      <3>1. R = {p \in Nat \X Nat : p[1] < p[2]}
        BY Zenon DEF OpToRel
      <3> HIDE DEF R
      <3> QED BY <1>0, <1>2, <3>1
    <2> QED BY <1>0, <2>1
  <1> QED BY <1>3 DEF Min

\* The thread that main() chooses for a new connection exists.
LEMMA LeastLoaded ==
  ASSUME \A s \in Cells : clients[s] \subseteq Conns /\ clientsBuff[s] \subseteq Conns
  PROVE  Min({s \in Cells : \A t \in Cells : getClientCount(s) <= getClientCount(t)}) \in Cells
  <1> DEFINE Loads == {getClientCount(s) : s \in Cells}
             Least == {s \in Cells : \A t \in Cells : getClientCount(s) <= getClientCount(t)}
  <1>1. \A s \in Cells : getClientCount(s) \in Nat
    BY TcpServerAssumption, FS_Subset, FS_CardinalityType DEF getClientCount
  <1>2. 1 \in Cells
    BY TcpServerAssumption DEF Cells
  <1>3. Min(Loads) \in Loads /\ \A n \in Loads : Min(Loads) <= n
    <2>1. Loads \in SUBSET Nat /\ Loads # {}
      BY <1>1, <1>2
    <2> HIDE DEF Loads
    <2> QED BY <2>1, LeastNatural
  <1>4. PICK s \in Cells : getClientCount(s) = Min(Loads)
    BY <1>3
  <1>5. s \in Least
    BY <1>3, <1>4
  <1>6. Least \in SUBSET Nat /\ Least # {} /\ Least \subseteq Cells
    BY <1>5 DEF Cells
  <1>7. Min(Least) \in Least
    <2> HIDE DEF Least
    <2> QED BY <1>6, LeastNatural
  <1> QED BY <1>6, <1>7

-----------------------------------------------------------------------------
(* The inductive invariant *)

Where(s) == clients[s] \cup clientsBuff[s]
Accepted(c) == sockfd[c] # 0
Running == mainPc \notin {"closed", "terminated"}

TcpTypeOK ==
  /\ mainPc \in {"loop", "add", "join", "closed", "terminated"}
  /\ listening \in BOOLEAN /\ clientCount \in Int /\ failed \in BOOLEAN
  /\ sockfd \in [Conns -> Nat] /\ open \subseteq Conns
  /\ cellPc \in [Cells -> {"top", "select", "read", "ended"}]
  /\ clients \in [Cells -> SUBSET Conns] /\ clientsBuff \in [Cells -> SUBSET Conns]
  /\ clientsChange \in [Cells -> BOOLEAN]
  /\ fdRead \in [Cells -> SUBSET Conns] /\ fdReadBak \in [Cells -> SUBSET Conns]

\* A connection is with one thread, in its table or in its buffer, and with
\* none before main() has chosen one.
PlaceInv ==
  /\ \A s \in Cells : \A c \in Where(s) : Accepted(c)
  /\ \A s, t \in Cells : \A c \in Where(s) \cap Where(t) : s = t
  /\ \A s \in Cells : clients[s] \cap clientsBuff[s] = {}
  /\ mainPc \in {"add", "join"} => accepted \in Conns
  /\ mainPc = "add" => Accepted(accepted) /\ \A s \in Cells : accepted \notin Where(s)

\* The descriptor set a thread waits with is that of its table, and the copy
\* it keeps is too, unless it knows that the table has changed.
SetInv ==
  \A s \in Cells :
    /\ cellPc[s] \in {"select", "read"} => fdRead[s] \subseteq clients[s]
    /\ cellPc[s] = "select" => fdRead[s] = FdSet(clients[s])
    /\ cellPc[s] # "ended" /\ ~clientsChange[s] => fdReadBak[s] = FdSet(clients[s])

\* A socket is open from its accept() until the server closes; as long as the
\* listening socket is open, no number has been free to be given again.
OpenInv ==
  /\ Running => \A s \in Cells : Where(s) \subseteq open
  /\ Running /\ mainPc = "add" => accepted \in open
  /\ \A c \in open : Accepted(c)
  /\ listening => \A c \in Conns : Accepted(c) => c \in open
  /\ \A c, d \in Conns : Accepted(c) /\ sockfd[c] = sockfd[d] => c = d

TcpInv == TcpTypeOK /\ PlaceInv /\ SetInv /\ OpenInv

-----------------------------------------------------------------------------
(* Steps: where the connections are *)

LEMMA TcpInitInv == TcpInit => TcpInv
  <1> SUFFICES ASSUME TcpInit PROVE TcpInv
    OBVIOUS
  <1>1. clientsChange \in [Cells -> BOOLEAN] /\ listening \in BOOLEAN /\ failed \in BOOLEAN
    BY Zenon DEF TcpInit
  <1>2. TcpTypeOK
    BY <1>1 DEF TcpInit, TcpTypeOK
  <1>3. PlaceInv /\ OpenInv
    BY DEF TcpInit, PlaceInv, OpenInv, Where, Accepted
  <1>4. SetInv
    BY DEF TcpInit, SetInv
  <1> QED BY <1>2, <1>3, <1>4 DEF TcpInv

\* Steps of the tasks and of the peers.
LEMMA TcpUnseen ==
  ASSUME TcpInv, UNCHANGED <<mainVars, connVars, clientCount, cellVars, failed>>
  PROVE  TcpInv'
  <1> USE DEF mainVars, connVars, cellVars
  <1>1. TcpTypeOK'
    BY DEF TcpInv, TcpTypeOK
  <1>2. PlaceInv' /\ OpenInv'
    BY DEF TcpInv, PlaceInv, OpenInv, Where, Accepted, Running
  <1>3. SetInv'
    BY DEF TcpInv, SetInv, FdSet
  <1> QED BY <1>1, <1>2, <1>3 DEF TcpInv

LEMMA FdSetKept ==
  ASSUME NEW S, \A c \in S : sockfd'[c] = sockfd[c]
  PROVE  FdSet(S)' = FdSet(S)
  <1>1. \A c \in S : {d \in S : sockfd'[d] < sockfd'[c]} = {d \in S : sockfd[d] < sockfd[c]}
    OBVIOUS
  <1> QED BY <1>1 DEF FdSet

LEMMA FdSetPart == \A S : FdSet(S) \subseteq S
  BY DEF FdSet

LEMMA AcceptConnNext ==
  ASSUME TcpInv, NEW c \in Conns, NEW n \in Sockets, AcceptConn(c, n)
  PROVE  TcpInv'
  <1>1. /\ mainPc = "loop" /\ mainPc' = "add" /\ accepted' = c /\ listening /\ listening' = listening
        /\ sockfd[c] = 0 /\ sockfd' = [sockfd EXCEPT ![c] = n] /\ open' = open \cup {c}
        /\ \A d \in open : sockfd[d] # n
        /\ UNCHANGED <<clientCount, cellVars, failed>>
    BY DEF AcceptConn
  <1>2. /\ n \in Nat \ {0} /\ sockfd'[c] = n
        /\ \A d \in Conns \ {c} : sockfd'[d] = sockfd[d]
    BY <1>1, TcpServerAssumption DEF TcpInv, TcpTypeOK
  <1>3. TcpTypeOK'
    BY <1>1, <1>2 DEF cellVars, TcpInv, TcpTypeOK
  <1>4. \A s \in Cells : c \notin Where(s) /\ Where(s)' = Where(s)
    BY <1>1 DEF cellVars, TcpInv, PlaceInv, Where, Accepted
  <1>5. PlaceInv'
    BY <1>1, <1>2, <1>4 DEF cellVars, TcpInv, TcpTypeOK, PlaceInv, Where, Accepted
  <1>6. SetInv'
    <2>1. ASSUME NEW s \in Cells PROVE FdSet(clients[s])' = FdSet(clients[s])
      <3>1. PICK S : S = clients[s]
        OBVIOUS
      <3>2. \A d \in S : sockfd'[d] = sockfd[d]
        BY <1>2, <1>4, <3>1 DEF TcpInv, TcpTypeOK, Where
      <3>3. clients'[s] = S
        BY <1>1, <3>1 DEF cellVars
      <3> QED BY <3>1, <3>2, <3>3, FdSetKept
    <2> QED BY <1>1, <2>1 DEF cellVars, TcpInv, SetInv
  <1>7. OpenInv'
    <2>1. \A d \in Conns : Accepted(d) => sockfd[d] # n
      BY <1>1 DEF TcpInv, OpenInv
    <2>2. \A d \in Conns : Accepted(d)' <=> Accepted(d) \/ d = c
      BY <1>2 DEF Accepted
    <2>3. \A d, e \in Conns : Accepted(d)' /\ sockfd'[d] = sockfd'[e] => d = e
      BY <1>2, <2>1, <2>2 DEF TcpInv, OpenInv, Accepted
    <2> QED BY <1>1, <1>4, <2>2, <2>3 DEF TcpInv, TcpTypeOK, OpenInv, Running
  <1> QED BY <1>3, <1>5, <1>6, <1>7 DEF TcpInv

LEMMA HandOverNext ==
  ASSUME TcpInv, addClientToCellServer
  PROVE  /\ TcpInv'
         /\ \E k \in Cells : \A s \in Cells :
              clientsBuff'[s] = IF s = k THEN clientsBuff[s] \cup {accepted} ELSE clientsBuff[s]
  <1> DEFINE Least == {s \in Cells : \A t \in Cells : getClientCount(s) <= getClientCount(t)}
  <1>1. /\ mainPc = "add" /\ mainPc' = "join" /\ UNCHANGED <<accepted, listening, connVars>>
        /\ clientsBuff' = [clientsBuff EXCEPT ![Min(Least)] = @ \cup {accepted}]
        /\ UNCHANGED <<clientCount, cellPc, clients, clientsChange, fdRead, fdReadBak, failed>>
    BY DEF addClientToCellServer
  <1>2. Min(Least) \in Cells
    BY LeastLoaded DEF TcpInv, TcpTypeOK
  <1> HIDE DEF Least
  <1>3. PICK k \in Cells : k = Min(Least)
    BY <1>2
  <1>4. accepted \in Conns
    BY <1>1 DEF TcpInv, PlaceInv
  <1>5. \A s \in Cells :
          clientsBuff'[s] = IF s = k THEN clientsBuff[s] \cup {accepted} ELSE clientsBuff[s]
    BY <1>1, <1>3 DEF TcpInv, TcpTypeOK
  <1>6. TcpTypeOK'
    BY <1>1, <1>3, <1>4 DEF connVars, TcpInv, TcpTypeOK
  <1>7. PlaceInv'
    BY <1>1, <1>4, <1>5 DEF connVars, TcpInv, PlaceInv, Where, Accepted
  <1>8. SetInv'
    BY <1>1 DEF connVars, TcpInv, SetInv, FdSet
  <1>9. OpenInv'
    BY <1>1, <1>5 DEF connVars, TcpInv, OpenInv, Where, Accepted, Running
  <1> QED BY <1>5, <1>6, <1>7, <1>8, <1>9 DEF TcpInv

LEMMA MainNext ==
  ASSUME TcpInv, OnNetJoin \/ TcpServerClose \/ Terminate
  PROVE  TcpInv'
  <1> USE DEF OnNetJoin, TcpServerClose, Terminate, mainVars, connVars, cellVars
  <1>1. TcpTypeOK'
    <2>1. CASE OnNetJoin
      BY <2>1 DEF TcpInv, TcpTypeOK
    <2>2. CASE TcpServerClose
      <3>1. listening' \in BOOLEAN
        BY <2>2, Zenon
      <3> QED BY <2>2, <3>1 DEF TcpInv, TcpTypeOK
    <2>3. CASE Terminate
      BY <2>3 DEF TcpInv, TcpTypeOK
    <2> QED BY <2>1, <2>2, <2>3
  <1>2. PlaceInv' /\ OpenInv'
    BY DEF TcpInv, PlaceInv, OpenInv, Where, Accepted, Running
  <1>3. SetInv'
    BY DEF TcpInv, SetInv, FdSet
  <1> QED BY <1>1, <1>2, <1>3 DEF TcpInv

LEMMA RoundNext ==
  ASSUME TcpInv, NEW s \in Cells, CellRound(s)
  PROVE  TcpInv' /\ \A t \in Cells : Where(t)' = Where(t)
  <1> DEFINE all == Where(s)
             change == clientsChange[s] \/ clientsBuff[s] # {}
             set == IF all = {} THEN {} ELSE IF change THEN FdSet(all) ELSE fdReadBak[s]
  <1>1. /\ cellPc[s] \in {"top", "read"}
        /\ cellPc' = [cellPc EXCEPT ![s] = IF all = {} THEN "top" ELSE "select"]
        /\ clients' = [clients EXCEPT ![s] = all]
        /\ clientsBuff' = [clientsBuff EXCEPT ![s] = {}]
        /\ clientsChange' = [clientsChange EXCEPT ![s] = change /\ all = {}]
        /\ fdRead' = [fdRead EXCEPT ![s] = set]
        /\ fdReadBak' = [fdReadBak EXCEPT ![s] = IF all = {} THEN @ ELSE set]
        /\ UNCHANGED <<mainVars, connVars, clientCount, failed>>
    BY DEF CellRound, Where
  <1>2. set = FdSet(all)
    <2>1. CASE all = {}
      BY <2>1, FdSetPart
    <2>2. CASE all # {} /\ change
      BY <2>2
    <2>3. CASE all # {} /\ ~change
      <3>1. all = clients[s]
        BY <2>3 DEF Where
      <3> QED BY <1>1, <2>3, <3>1 DEF TcpInv, SetInv
    <2> QED BY <2>1, <2>2, <2>3
  <1>3. all \subseteq Conns /\ set \subseteq all
    BY <1>2, FdSetPart DEF Where, TcpInv, TcpTypeOK
  <1>4. change \in BOOLEAN /\ (change /\ all = {}) \in BOOLEAN
    BY Zenon
  <1> HIDE DEF change, all, set
  <1>5. \A t \in Cells :
          /\ cellPc'[t] = IF t = s THEN IF all = {} THEN "top" ELSE "select" ELSE cellPc[t]
          /\ clients'[t] = IF t = s THEN all ELSE clients[t]
          /\ clientsBuff'[t] = IF t = s THEN {} ELSE clientsBuff[t]
          /\ clientsChange'[t] = IF t = s THEN change /\ all = {} ELSE clientsChange[t]
          /\ fdRead'[t] = IF t = s THEN set ELSE fdRead[t]
          /\ fdReadBak'[t] = IF t = s /\ all # {} THEN set ELSE fdReadBak[t]
    BY <1>1 DEF TcpInv, TcpTypeOK
  <1>6. TcpTypeOK'
    BY <1>1, <1>3, <1>4 DEF mainVars, connVars, TcpInv, TcpTypeOK
  <1>7. \A t \in Cells : Where(t)' = Where(t)
    BY <1>5 DEF Where, all
  <1>8. PlaceInv' /\ OpenInv'
    BY <1>1, <1>5, <1>7 DEF mainVars, connVars, TcpInv, PlaceInv, OpenInv, Accepted, Running
  <1>9. SetInv'
    <2>1. \A t \in Cells : FdSet(clients[t])' = FdSet(clients'[t])
      BY <1>1 DEF connVars, FdSet
    <2>2. all = {} => change \/ fdReadBak[s] = FdSet(all)
      BY <1>1 DEF change, all, Where, TcpInv, SetInv
    <2>3. ASSUME NEW t \in Cells
          PROVE  /\ cellPc'[t] \in {"select", "read"} => fdRead'[t] \subseteq clients'[t]
                 /\ cellPc'[t] = "select" => fdRead'[t] = FdSet(clients'[t])
                 /\ cellPc'[t] # "ended" /\ ~clientsChange'[t] => fdReadBak'[t] = FdSet(clients'[t])
      BY <1>2, <1>3, <1>5, <2>2 DEF TcpInv, SetInv
    <2> QED BY <2>1, <2>3 DEF SetInv
  <1> QED BY <1>6, <1>7, <1>8, <1>9 DEF TcpInv

LEMMA SelectNext ==
  ASSUME TcpInv, NEW s \in Cells, CellSelect(s)
  PROVE  TcpInv' /\ UNCHANGED <<clients, clientsBuff>>
  <1>1. /\ cellPc[s] = "select" /\ cellPc' = [cellPc EXCEPT ![s] = "read"]
        /\ \E R \in SUBSET fdRead[s] : fdRead' = [fdRead EXCEPT ![s] = R]
        /\ UNCHANGED <<mainVars, connVars, clientCount, clients, clientsBuff, clientsChange,
                       fdReadBak, failed>>
    BY DEF CellSelect, CellGo
  <1>2. TcpTypeOK'
    BY <1>1 DEF mainVars, connVars, TcpInv, TcpTypeOK
  <1>3. PlaceInv' /\ OpenInv'
    BY <1>1 DEF mainVars, connVars, TcpInv, PlaceInv, OpenInv, Where, Accepted, Running
  <1>4. SetInv'
    BY <1>1 DEF connVars, TcpInv, TcpTypeOK, SetInv, FdSet
  <1> QED BY <1>1, <1>2, <1>3, <1>4 DEF TcpInv

LEMMA SelectFailsNext ==
  ASSUME TcpInv, NEW s \in Cells, CellSelectFails(s)
  PROVE  TcpInv' /\ failed'
  <1>1. /\ cellPc' = [cellPc EXCEPT ![s] = "ended"] /\ failed' = TRUE
        /\ open' = open \ clients[s] /\ clients' = [clients EXCEPT ![s] = {}]
        /\ listening' = FALSE
        /\ UNCHANGED <<mainPc, accepted, sockfd, clientCount, clientsBuff, clientsChange,
                       fdRead, fdReadBak>>
    BY DEF CellSelectFails, CellGo
  <1>2. TcpTypeOK'
    BY <1>1 DEF TcpInv, TcpTypeOK
  <1>3. \A t \in Cells : clients'[t] = IF t = s THEN {} ELSE clients[t]
    BY <1>1 DEF TcpInv, TcpTypeOK
  <1>4. PlaceInv'
    BY <1>1, <1>3 DEF TcpInv, PlaceInv, Where, Accepted
  <1>5. OpenInv'
    BY <1>1, <1>3 DEF TcpInv, PlaceInv, OpenInv, Where, Accepted, Running
  <1>6. SetInv'
    BY <1>1, <1>3 DEF TcpInv, TcpTypeOK, SetInv, FdSet
  <1> QED BY <1>1, <1>2, <1>4, <1>5, <1>6 DEF TcpInv

LEMMA RecvNext ==
  ASSUME TcpInv, NEW s \in Cells, NEW c \in Conns, RecvLogin(s, c)
  PROVE  TcpInv' /\ UNCHANGED <<clients, clientsBuff>>
  <1>1. /\ cellPc[s] = "read"
        /\ \E R \in SUBSET fdRead[s] : fdRead' = [fdRead EXCEPT ![s] = R]
        /\ UNCHANGED <<mainVars, connVars, clientCount, cellPc, clients, clientsBuff,
                       clientsChange, fdReadBak, failed>>
    <2>1. fdRead' = [fdRead EXCEPT ![s] = @ \ {c}] \/ fdRead' = [fdRead EXCEPT ![s] = fdRead[s]]
      BY DEF RecvLogin, TcpInv, TcpTypeOK
    <2> QED BY <2>1 DEF RecvLogin
  <1>2. TcpTypeOK'
    BY <1>1 DEF mainVars, connVars, TcpInv, TcpTypeOK
  <1>3. PlaceInv' /\ OpenInv'
    BY <1>1 DEF mainVars, connVars, TcpInv, PlaceInv, OpenInv, Where, Accepted, Running
  <1>4. SetInv'
    BY <1>1 DEF connVars, TcpInv, TcpTypeOK, SetInv, FdSet
  <1> QED BY <1>1, <1>2, <1>3, <1>4 DEF TcpInv

LEMMA LeaveNext ==
  ASSUME TcpInv, NEW s \in Cells, NEW c \in Conns, LeaveConn(s, c)
  PROVE  /\ TcpInv' /\ c \in clients[s]
         /\ \A t \in Cells : Where(t)' = IF t = s THEN Where(t) \ {c} ELSE Where(t)
  <1>1. /\ cellPc[s] = "read" /\ c \in fdRead[s]
        /\ clients' = [clients EXCEPT ![s] = @ \ {c}]
        /\ fdRead' = [fdRead EXCEPT ![s] = @ \ {c}]
        /\ clientsChange' = [clientsChange EXCEPT ![s] = TRUE]
        /\ clientCount' = clientCount - 1
        /\ UNCHANGED <<mainVars, connVars, cellPc, clientsBuff, fdReadBak, failed>>
    BY DEF LeaveConn, Lost, connVars
  <1>2. c \in clients[s] /\ c \notin clientsBuff[s]
    BY <1>1 DEF TcpInv, PlaceInv, SetInv
  <1>3. \A t \in Cells : clients'[t] = IF t = s THEN clients[t] \ {c} ELSE clients[t]
    BY <1>1 DEF TcpInv, TcpTypeOK
  <1>4. \A t \in Cells : Where(t)' = IF t = s THEN Where(t) \ {c} ELSE Where(t)
    BY <1>1, <1>2, <1>3 DEF Where
  <1>5. TcpTypeOK'
    BY <1>1 DEF mainVars, connVars, TcpInv, TcpTypeOK
  <1>6. PlaceInv' /\ OpenInv'
    BY <1>1, <1>3, <1>4 DEF mainVars, connVars, TcpInv, PlaceInv, OpenInv, Accepted, Running
  <1>7. SetInv'
    <2> SUFFICES ASSUME NEW t \in Cells
                 PROVE  /\ cellPc'[t] \in {"select", "read"} => fdRead'[t] \subseteq clients'[t]
                        /\ cellPc'[t] = "select" => fdRead'[t] = FdSet(clients[t])'
                        /\ cellPc'[t] # "ended" /\ ~clientsChange'[t] =>
                             fdReadBak'[t] = FdSet(clients[t])'
      BY DEF SetInv
    <2>1. /\ fdRead'[t] = IF t = s THEN fdRead[t] \ {c} ELSE fdRead[t]
          /\ clientsChange'[t] = IF t = s THEN TRUE ELSE clientsChange[t]
          /\ UNCHANGED <<cellPc, fdReadBak>>
      BY <1>1 DEF TcpInv, TcpTypeOK
    <2>2. CASE t = s
      <3>1. fdRead[s] \subseteq clients[s]
        BY <1>1 DEF TcpInv, SetInv
      <3>2. /\ cellPc'[t] = "read" /\ clientsChange'[t] = TRUE
            /\ fdRead'[t] = fdRead[s] \ {c} /\ clients'[t] = clients[s] \ {c}
        BY <1>1, <1>3, <2>1, <2>2
      <3> QED BY <3>1, <3>2
    <2>3. CASE t # s
      <3>1. clients'[t] = clients[t] /\ FdSet(clients[t])' = FdSet(clients[t])
        BY <1>1, <1>3, <2>3 DEF connVars, FdSet
      <3> QED BY <2>1, <2>3, <3>1 DEF TcpInv, SetInv
    <2> QED BY <2>2, <2>3
  <1> QED BY <1>2, <1>4, <1>5, <1>6, <1>7 DEF TcpInv

LEMMA TcpStep ==
  ASSUME TcpInv, [TcpNext]_tcpVars
  PROVE  TcpInv'
  <1>1. CASE MainThread
    BY <1>1, AcceptConnNext, HandOverNext, MainNext DEF MainThread
  <1>2. ASSUME NEW s \in Cells, CellThread(s) PROVE TcpInv'
    BY <1>2, RoundNext, SelectNext, SelectFailsNext, RecvNext, LeaveNext DEF CellThread
  <1>3. ASSUME NEW s \in Cells, TaskThread(s) PROVE TcpInv'
    BY <1>3, TcpUnseen DEF TaskThread, TakeTasks, doTask
  <1>4. CASE Peer \/ UNCHANGED tcpVars
    BY <1>4, TcpUnseen DEF Peer, tcpVars
  <1> QED BY <1>1, <1>2, <1>3, <1>4 DEF TcpNext

\* Only at the end of the first half of its turn does a thread go into select().
LEMMA WhoBlocks ==
  ASSUME TcpInv, [TcpNext]_tcpVars, NEW s \in Cells, cellPc[s] # "select", cellPc'[s] = "select"
  PROVE  CellRound(s)
  <1>1. cellPc' # cellPc
    OBVIOUS
  <1>2. PICK t \in Cells : CellThread(t)
    BY <1>1 DEF TcpNext, MainThread, AcceptConn, addClientToCellServer, OnNetJoin, TcpServerClose,
                Terminate, Peer, TaskThread, TakeTasks, doTask, cellVars, tcpVars
  <1>3. CASE CellRound(t)
    <2>1. cellPc' = [cellPc EXCEPT ![t] = cellPc'[t]]
      BY <1>3 DEF CellRound, TcpInv, TcpTypeOK
    <2>2. t = s
      BY <2>1 DEF TcpInv, TcpTypeOK
    <2> QED BY <1>3, <2>2
  <1>4. CASE CellSelect(t) \/ CellSelectFails(t)
    <2>1. \/ cellPc' = [cellPc EXCEPT ![t] = "read"]
          \/ cellPc' = [cellPc EXCEPT ![t] = "ended"]
      BY <1>4 DEF CellSelect, CellSelectFails, CellGo
    <2> QED BY <2>1 DEF TcpInv, TcpTypeOK
  <1>5. CASE \E c \in Conns : RecvLogin(t, c) \/ LeaveConn(t, c)
    BY <1>1, <1>5 DEF RecvLogin, LeaveConn, Lost
  <1> QED BY <1>2, <1>3, <1>4, <1>5 DEF CellThread

\* Of every state of the earlier server: its types, where each connection is,
\* the descriptor sets and the open sockets.
THEOREM TcpInvariance == TcpSpec => []TcpInv
  BY TcpInitInv, TcpStep, PTL DEF TcpSpec

\* A thread that goes into select(), without a time limit, waits for everybody
\* it has been given by then, up to the size of the set, and while it is blocked
\* for all its table, by sockets that are open; not for whoever is put into its
\* buffer meanwhile (TcpServer.h:233-285).
THEOREM AlwaysWaitsForAll == TcpSpec => WaitsForAll
  <1> DEFINE Waits ==
        \A s \in Cells : cellPc'[s] = "select" /\ mainPc' \notin {"closed", "terminated"} =>
          /\ fdRead'[s] = FdSet(clients[s])' /\ fdRead'[s] \subseteq open'
          /\ cellPc[s] # "select" =>
               clients'[s] = clients[s] \cup clientsBuff[s] /\ clientsBuff'[s] = {}
  <1>1. TcpInv /\ TcpInv' /\ [TcpNext]_tcpVars => [Waits]_tcpVars
    <2> SUFFICES ASSUME TcpInv, TcpInv', [TcpNext]_tcpVars, NEW s \in Cells,
                        cellPc'[s] = "select", Running'
                 PROVE  /\ fdRead'[s] = FdSet(clients[s])' /\ fdRead'[s] \subseteq open'
                        /\ cellPc[s] # "select" => /\ clients'[s] = clients[s] \cup clientsBuff[s]
                                                   /\ clientsBuff'[s] = {}
      BY DEF Running
    <2>1. fdRead'[s] = FdSet(clients[s])' /\ fdRead'[s] \subseteq clients'[s]
      BY DEF TcpInv, SetInv
    <2>2. clients'[s] \subseteq open'
      BY DEF TcpInv, OpenInv, Where
    <2>3. ASSUME cellPc[s] # "select" PROVE CellRound(s)
      BY <2>3, WhoBlocks
    <2>4. CellRound(s) => clients'[s] = clients[s] \cup clientsBuff[s] /\ clientsBuff'[s] = {}
      BY DEF CellRound, TcpInv, TcpTypeOK
    <2> QED BY <2>1, <2>2, <2>3, <2>4
  <1>2. QED
    BY <1>1, TcpInvariance, PTL DEF TcpSpec, WaitsForAll

-----------------------------------------------------------------------------
(* The count of clients *)

Here == UNION {clients[s] \cup clientsBuff[s] : s \in Cells}

LEMMA HereIs ==
  ASSUME TcpInv
  PROVE  /\ \A c : c \in Here <=> \E s \in Cells : c \in Where(s)
         /\ IsFiniteSet(Here) /\ Cardinality(Here) \in Nat
  <1>1. \A c : c \in Here <=> \E s \in Cells : c \in Where(s)
    BY DEF Here, Where
  <1>2. Here \subseteq Conns
    BY <1>1 DEF TcpInv, TcpTypeOK, Where
  <1>3. IsFiniteSet(Here)
    BY <1>2, TcpServerAssumption, FS_Subset
  <1> QED BY <1>1, <1>3, FS_CardinalityType

LEMMA TcpCountNext ==
  ASSUME TcpInv, TcpInv', CountOfClients, [TcpNext]_tcpVars
  PROVE  CountOfClients'
  <1> SUFFICES ASSUME ~failed'
               PROVE  clientCount' = Cardinality(Here') - (IF mainPc' = "join" THEN 1 ELSE 0)
    BY DEF CountOfClients, Here
  <1>0. /\ ~failed => clientCount = Cardinality(Here) - (IF mainPc = "join" THEN 1 ELSE 0)
        /\ IsFiniteSet(Here) /\ Cardinality(Here) \in Nat /\ clientCount \in Int
    BY HereIs DEF CountOfClients, Here, TcpInv, TcpTypeOK
  <1>1. ASSUME UNCHANGED <<clientCount, failed>>, (mainPc = "join") <=> (mainPc' = "join"),
               \A s \in Cells : Where(s)' = Where(s)
        PROVE  clientCount' = Cardinality(Here') - (IF mainPc' = "join" THEN 1 ELSE 0)
    <2>1. Here' = Here
      <3>1. \A c : c \in Here' <=> c \in Here
        BY <1>1 DEF Here, Where
      <3> QED BY <3>1
    <2> QED BY <1>0, <1>1, <2>1
  <1>2. CASE addClientToCellServer
    <2>1. /\ mainPc = "add" /\ mainPc' = "join"
          /\ UNCHANGED <<clientCount, failed, clients, accepted>>
          /\ \A s \in Cells : accepted \notin Where(s)
      BY <1>2 DEF addClientToCellServer, TcpInv, PlaceInv
    <2>2. PICK k \in Cells : \A s \in Cells :
            clientsBuff'[s] = IF s = k THEN clientsBuff[s] \cup {accepted} ELSE clientsBuff[s]
      BY <1>2, HandOverNext
    <2>3. Here' = Here \cup {accepted} /\ accepted \notin Here
      <3>1. \A s \in Cells :
              Where(s)' = IF s = k THEN Where(s) \cup {accepted} ELSE Where(s)
        BY <2>1, <2>2 DEF Where
      <3>2. /\ \A c : c \in Here <=> \E s \in Cells : c \in Where(s)
            /\ \A c : c \in Here' <=> \E s \in Cells : c \in Where(s)'
        BY DEF Here, Where
      <3>3. \A c : c \in Here' <=> c \in Here \/ c = accepted
        BY <3>1, <3>2
      <3> QED BY <2>1, <3>2, <3>3
    <2>4. Cardinality(Here') = Cardinality(Here) + 1
      BY <1>0, <2>3, FS_AddElement
    <2> QED BY <1>0, <2>1, <2>4
  <1>3. CASE OnNetJoin
    <2>1. /\ mainPc = "join" /\ mainPc' = "loop" /\ clientCount' = clientCount + 1
          /\ UNCHANGED <<cellVars, failed>>
      BY <1>3 DEF OnNetJoin
    <2>2. Here' = Here
      BY <2>1 DEF cellVars, Here
    <2> QED BY <1>0, <2>1, <2>2
  <1>4. ASSUME NEW s \in Cells, NEW c \in Conns, LeaveConn(s, c)
        PROVE  clientCount' = Cardinality(Here') - (IF mainPc' = "join" THEN 1 ELSE 0)
    <2>1. clientCount' = clientCount - 1 /\ UNCHANGED <<mainVars, failed>>
      BY <1>4 DEF LeaveConn, Lost
    <2>2. /\ c \in Where(s)
          /\ \A t \in Cells : Where(t)' = IF t = s THEN Where(t) \ {c} ELSE Where(t)
      BY <1>4, LeaveNext DEF Where
    <2>3. \A t \in Cells : c \in Where(t) => t = s
      BY <2>2 DEF TcpInv, PlaceInv
    <2>4. \A d : d \in Here' <=> d \in Here /\ d # c
      BY <2>2, <2>3 DEF Here, Where
    <2>5. Here' = Here \ {c} /\ c \in Here
      BY <2>2, <2>4 DEF Here, Where
    <2>6. Cardinality(Here') = Cardinality(Here) - 1
      BY <1>0, <2>5, FS_RemoveElement
    <2> QED BY <1>0, <2>1, <2>6 DEF mainVars
  <1>5. ASSUME NEW s \in Cells, CellRound(s) \/ CellSelect(s)
        PROVE  clientCount' = Cardinality(Here') - (IF mainPc' = "join" THEN 1 ELSE 0)
    <2>1. UNCHANGED <<clientCount, failed, mainVars>>
      BY <1>5 DEF CellRound, CellSelect
    <2>2. \A t \in Cells : Where(t)' = Where(t)
      BY <1>5, RoundNext DEF CellSelect, Where
    <2> QED BY <1>1, <2>1, <2>2 DEF mainVars
  <1>6. ASSUME NEW s \in Cells, TaskThread(s) \/ \E c \in Conns : RecvLogin(s, c)
        PROVE  clientCount' = Cardinality(Here') - (IF mainPc' = "join" THEN 1 ELSE 0)
    BY <1>1, <1>6 DEF TaskThread, TakeTasks, doTask, RecvLogin, mainVars, cellVars, Where
  <1>7. CASE (\E c \in Conns, n \in Sockets : AcceptConn(c, n)) \/ TcpServerClose \/ Terminate
    BY <1>1, <1>7 DEF AcceptConn, TcpServerClose, Terminate, cellVars, Where
  <1>8. CASE Peer \/ UNCHANGED tcpVars
    BY <1>1, <1>8 DEF Peer, tcpVars, mainVars, cellVars, Where
  <1>9. \A s \in Cells : ~CellSelectFails(s)
    BY SelectFailsNext
  <1> QED BY <1>2, <1>3, <1>4, <1>5, <1>6, <1>7, <1>8, <1>9
         DEF TcpNext, MainThread, CellThread

\* The number of clients that is printed is right, although the thread may
\* lose a client before main() has counted it (TcpServer.cpp:124-137).
THEOREM TcpCountIsRight == TcpSpec => []CountOfClients
  <1>1. TcpInit => CountOfClients
    <2> SUFFICES ASSUME TcpInit PROVE CountOfClients
      OBVIOUS
    <2>1. Here = {}
      BY DEF TcpInit, Here
    <2>2. Cardinality(Here) = 0
      BY <2>1, FS_EmptySet
    <2> QED BY <2>2 DEF TcpInit, CountOfClients, Here
  <1>2. TcpInv /\ TcpInv' /\ CountOfClients /\ [TcpNext]_tcpVars => CountOfClients'
    BY TcpCountNext
  <1> QED BY <1>1, <1>2, TcpInvariance, PTL DEF TcpSpec

-----------------------------------------------------------------------------
(* Tasks and answers as sequences *)

Tasks == Conns \X Nat

LEMMA TaskIs ==
  ASSUME NEW q \in Seq(Tasks)
  PROVE  /\ DOMAIN q = 1..Len(q) /\ Len(q) \in Nat
         /\ \A i \in 1..Len(q) : /\ q[i] \in Tasks
                                 /\ q[i][1] \in Conns /\ q[i][2] \in Nat
                                 /\ q[i] = <<q[i][1], q[i][2]>>
  <1>1. DOMAIN q = 1..Len(q) /\ Len(q) \in Nat /\ \A i \in 1..Len(q) : q[i] \in Tasks
    BY LenProperties, ElementOfSeq
  <1>2. \A x \in Tasks : x[1] \in Conns /\ x[2] \in Nat /\ x = <<x[1], x[2]>>
    BY DEF Tasks
  <1> QED BY <1>1, <1>2

Has(q, c, n) == \E i \in DOMAIN q : q[i][1] = c /\ q[i][2] = n

LEMMA OrderIs ==
  ASSUME NEW q, NEW c, NEW first, NEW last
  PROVE  InOrder(q, c, first, last) <=>
           /\ \A i \in DOMAIN q : q[i][1] = c => q[i][2] \in first..last
           /\ \A n \in first..last : Has(q, c, n)
           /\ \A i, j \in DOMAIN q : i < j /\ q[i][1] = c /\ q[j][1] = c => q[i][2] < q[j][2]
  BY Zenon DEF InOrder, Has

\* A task that comes to the end of q is next in order, and disturbs no other.
LEMMA OrderAppend ==
  ASSUME NEW q \in Seq(Tasks), NEW c \in Conns, NEW first \in Nat, NEW last \in Nat,
         first <= last + 1, InOrder(q, c, first, last)
  PROVE  InOrder(Append(q, <<c, last + 1>>), c, first, last + 1)
  <1> DEFINE x == <<c, last + 1>>
  <1>1. x \in Tasks /\ x[1] = c /\ x[2] = last + 1
    BY DEF Tasks
  <1>2. PICK r \in Seq(Tasks) : r = Append(q, x)
    BY <1>1, AppendProperties
  <1>3. Len(r) = Len(q) + 1 /\ (\A i \in 1..Len(q) : r[i] = q[i]) /\ r[Len(q) + 1] = x
    <2> HIDE DEF x
    <2> QED BY <1>1, <1>2, AppendProperties
  <1>4. PICK n \in Nat : n = Len(q)
    BY TaskIs
  <1> HIDE DEF x
  <1>5. /\ DOMAIN q = 1..n /\ DOMAIN r = 1..n + 1
        /\ \A i \in 1..n + 1 : r[i] = IF i = n + 1 THEN x ELSE q[i]
    BY <1>3, <1>4, TaskIs
  <1>6. \A i \in 1..n : q[i][2] \in Nat
    BY <1>4, TaskIs
  <1>7. \A i \in 1..n + 1 : r[i][1] = c => r[i][2] \in first..last + 1
    BY <1>1, <1>5 DEF InOrder
  <1>8. \A m \in first..last + 1 : Has(r, c, m)
    <2>1. \A m : Has(q, c, m) => Has(r, c, m)
      BY <1>5 DEF Has
    <2>2. Has(r, c, last + 1)
      <3>1. n + 1 \in DOMAIN r /\ r[n + 1][1] = c /\ r[n + 1][2] = last + 1
        BY <1>1, <1>5
      <3> QED BY <3>1, Zenon DEF Has
    <2>3. \A m \in first..last + 1 : m \in first..last \/ m = last + 1
      OBVIOUS
    <2> QED BY <2>1, <2>2, <2>3, OrderIs, Zenon
  <1>9. \A i, j \in 1..n + 1 : i < j /\ r[i][1] = c /\ r[j][1] = c => r[i][2] < r[j][2]
    <2>1. \A i, j \in 1..n : i < j /\ q[i][1] = c /\ q[j][1] = c => q[i][2] < q[j][2]
      BY <1>5 DEF InOrder
    <2>2. \A i \in 1..n : q[i][1] = c => q[i][2] < last + 1
      BY <1>5 DEF InOrder
    <2> QED BY <1>1, <1>5, <2>1, <2>2
  <1>10. InOrder(r, c, first, last + 1)
    BY <1>5, <1>7, <1>8, <1>9, OrderIs, Zenon
  <1> QED BY <1>2, <1>10 DEF x

LEMMA OrderOther ==
  ASSUME NEW q \in Seq(Tasks), NEW c \in Conns, NEW first \in Nat, NEW last \in Nat,
         NEW x \in Tasks, x[1] # c, InOrder(q, c, first, last)
  PROVE  InOrder(Append(q, x), c, first, last)
  <1>2. PICK r \in Seq(Tasks) : r = Append(q, x)
    BY AppendProperties
  <1>3. Len(r) = Len(q) + 1 /\ (\A i \in 1..Len(q) : r[i] = q[i]) /\ r[Len(q) + 1] = x
    BY <1>2, AppendProperties
  <1>4. PICK n \in Nat : n = Len(q)
    BY TaskIs
  <1>5. /\ DOMAIN q = 1..n /\ DOMAIN r = 1..n + 1
        /\ \A i \in 1..n + 1 : r[i] = IF i = n + 1 THEN x ELSE q[i]
    BY <1>3, <1>4, TaskIs
  <1>6. \A i \in 1..n + 1 : r[i][1] = c => i \in 1..n /\ r[i] = q[i]
    BY <1>5
  <1>7. \A m \in first..last : Has(r, c, m)
    <2>1. \A m : Has(q, c, m) => Has(r, c, m)
      BY <1>5 DEF Has
    <2> QED BY <2>1, OrderIs, Zenon
  <1>8. \A i \in 1..n + 1 : r[i][1] = c => r[i][2] \in first..last
    BY <1>5, <1>6 DEF InOrder
  <1>9. \A i, j \in 1..n + 1 : i < j /\ r[i][1] = c /\ r[j][1] = c => r[i][2] < r[j][2]
    BY <1>5, <1>6 DEF InOrder
  <1>10. InOrder(r, c, first, last)
    BY <1>5, <1>7, <1>8, <1>9, OrderIs, Zenon
  <1> QED BY <1>2, <1>10

\* The task that is done first is the first one.
LEMMA OrderTail ==
  ASSUME NEW q \in Seq(Tasks), q # <<>>, NEW c \in Conns, NEW first \in Nat, NEW last \in Nat,
         InOrder(q, c, first, last)
  PROVE  /\ q[1][1] = c => q[1] = <<c, first>> /\ first <= last /\ InOrder(Tail(q), c, first + 1, last)
         /\ q[1][1] # c => InOrder(Tail(q), c, first, last)
  <1>1. PICK r \in Seq(Tasks) : r = Tail(q)
    BY HeadTailProperties
  <1>2. Len(r) = Len(q) - 1 /\ \A i \in 1..Len(r) : r[i] = q[i + 1]
    BY <1>1, HeadTailProperties
  <1>3. PICK n \in Nat : n = Len(r) /\ Len(q) = n + 1
    BY <1>2, TaskIs
  <1>4. /\ DOMAIN q = 1..n + 1 /\ DOMAIN r = 1..n
        /\ \A i \in 1..n : r[i] = q[i + 1]
    BY <1>2, <1>3, TaskIs
  <1>5. \A i \in 1..n + 1 : q[i][2] \in Nat /\ q[i] = <<q[i][1], q[i][2]>>
    BY <1>3, TaskIs
  <1>6. /\ \A i \in 1..n + 1 : q[i][1] = c => q[i][2] \in first..last
        /\ \A m \in first..last : Has(q, c, m)
        /\ \A i, j \in 1..n + 1 : i < j /\ q[i][1] = c /\ q[j][1] = c => q[i][2] < q[j][2]
    BY <1>4, OrderIs
  <1>7. \A i, j \in 1..n : i < j /\ r[i][1] = c /\ r[j][1] = c => r[i][2] < r[j][2]
    BY <1>4, <1>6
  <1>8. ASSUME q[1][1] = c
        PROVE  q[1] = <<c, first>> /\ first <= last /\ InOrder(r, c, first + 1, last)
    <2>1. q[1][2] \in first..last /\ first <= last
      BY <1>6, <1>8
    <2>2. PICK i \in 1..n + 1 : q[i][1] = c /\ q[i][2] = first
      <3>1. Has(q, c, first)
        BY <1>6, <2>1
      <3> QED BY <1>4, <3>1 DEF Has
    <2>3. i = 1
      BY <1>6, <1>8, <2>1, <2>2
    <2>4. q[1][2] = first
      BY <2>2, <2>3
    <2>5. \A j \in 1..n : r[j][1] = c => r[j][2] \in first + 1..last
      <3>1. \A j \in 1..n : q[j + 1][1] = c => q[j + 1][2] \in first..last /\ first < q[j + 1][2]
        BY <1>6, <1>8, <2>4
      <3> QED BY <1>4, <3>1, SMTT(30)
    <2>6. \A m \in first + 1..last : Has(r, c, m)
      <3>1. ASSUME NEW m \in first + 1..last, NEW k \in 1..n + 1, q[k][1] = c, q[k][2] = m
            PROVE  Has(r, c, m)
        <4>1. k # 1
          BY <2>4, <3>1
        <4>2. k - 1 \in DOMAIN r /\ r[k - 1] = q[k]
          BY <1>4, <4>1
        <4> QED BY <3>1, <4>2, Zenon DEF Has
      <3>2. \A m \in first + 1..last : Has(q, c, m)
        BY <1>6
      <3>3. \A m : Has(q, c, m) => \E k \in 1..n + 1 : q[k][1] = c /\ q[k][2] = m
        BY <1>4 DEF Has
      <3> QED BY <3>1, <3>2, <3>3, Zenon
    <2>7. InOrder(r, c, first + 1, last)
      BY <1>4, <1>7, <2>5, <2>6, OrderIs, Zenon
    <2>8. q[1] = <<c, first>>
      BY <1>5, <1>8, <2>4
    <2> QED BY <2>1, <2>7, <2>8
  <1>9. ASSUME q[1][1] # c
        PROVE  InOrder(r, c, first, last)
    <2>1. \A j \in 1..n : r[j][1] = c => r[j][2] \in first..last
      BY <1>4, <1>6
    <2>2. \A m \in first..last : Has(r, c, m)
      <3>1. ASSUME NEW m, NEW k \in 1..n + 1, q[k][1] = c, q[k][2] = m
            PROVE  Has(r, c, m)
        <4>1. k # 1
          BY <1>9, <3>1
        <4>2. k - 1 \in DOMAIN r /\ r[k - 1] = q[k]
          BY <1>4, <4>1
        <4> QED BY <3>1, <4>2, Zenon DEF Has
      <3>2. \A m : Has(q, c, m) => \E k \in 1..n + 1 : q[k][1] = c /\ q[k][2] = m
        BY <1>4 DEF Has
      <3> QED BY <1>6, <3>1, <3>2, Zenon
    <2> QED BY <1>4, <1>7, <2>1, <2>2, OrderIs, Zenon
  <1> QED BY <1>1, <1>8, <1>9

To(c) == {c} \X Nat

LEMMA FunctionSeq ==
  ASSUME NEW S, NEW n \in Nat, NEW f \in [1..n -> S]
  PROVE  f \in Seq(S) /\ Len(f) = n
  OBVIOUS

LEMMA AnswerIs ==
  ASSUME NEW c \in Conns, NEW n \in Nat
  PROVE  /\ Answer(<<c, n>>) \in Seq(To(c)) /\ Len(Answer(<<c, n>>)) = AnswerLen
         /\ \A i \in 1..AnswerLen : Answer(<<c, n>>)[i] = <<c, n>>
  <1>1. PICK f \in [1..AnswerLen -> To(c)] : f = Answer(<<c, n>>)
    BY DEF Answer, To
  <1>2. AnswerLen \in Nat
    BY TcpServerAssumption
  <1>3. \A i \in 1..AnswerLen : Answer(<<c, n>>)[i] = <<c, n>>
    BY DEF Answer
  <1> QED BY <1>1, <1>2, <1>3, FunctionSeq, Zenon

LEMMA DivOf ==
  ASSUME NEW q \in Nat, NEW r \in Nat, NEW m \in Nat \ {0}, r < m
  PROVE  ((m * q) + r) \div m = q
  OBVIOUS

LEMMA AnswersAre ==
  ASSUME NEW c \in Conns, NEW done \in Nat
  PROVE  /\ Answers(c, done) \in Seq(To(c)) /\ Len(Answers(c, done)) = done * AnswerLen
         /\ \A i \in 1..done * AnswerLen :
              Answers(c, done)[i] = <<c, (i - 1) \div AnswerLen + 1>>
  <1>1. PICK L \in Nat \ {0} : L = AnswerLen
    BY TcpServerAssumption
  <1>2. PICK n \in Nat : n = done * L
    OBVIOUS
  <1>3. \A i \in 1..n : (i - 1) \div L + 1 \in Nat
    <2>1. \A u \in Nat : u \div L \in Nat
      OBVIOUS
    <2> QED BY <2>1
  <1>4. PICK f \in [1..n -> To(c)] : f = Answers(c, done)
    BY <1>1, <1>2, <1>3 DEF Answers, To
  <1>5. \A i \in 1..done * AnswerLen : Answers(c, done)[i] = <<c, (i - 1) \div AnswerLen + 1>>
    BY DEF Answers
  <1>6. f \in Seq(To(c)) /\ Len(f) = n
    BY FunctionSeq
  <1> QED BY <1>1, <1>2, <1>4, <1>5, <1>6

\* One more answer.
LEMMA AnswersNext ==
  ASSUME NEW c \in Conns, NEW done \in Nat
  PROVE  Answers(c, done) \o Answer(<<c, done + 1>>) = Answers(c, done + 1)
  <1>1. PICK L \in Nat \ {0} : L = AnswerLen
    BY TcpServerAssumption
  <1>2. PICK a \in Seq(To(c)) : a = Answers(c, done)
    BY AnswersAre
  <1>3. PICK b \in Seq(To(c)) : b = Answer(<<c, done + 1>>)
    BY AnswerIs
  <1>4. PICK e \in Seq(To(c)) : e = Answers(c, done + 1)
    BY AnswersAre
  <1>5. PICK n \in Nat : n = done * L
    OBVIOUS
  <1>6. (done + 1) * L = n + L
    BY <1>5
  <1>7. Len(a) = n /\ \A i \in 1..n : a[i] = <<c, (i - 1) \div L + 1>>
    BY <1>1, <1>2, <1>5, AnswersAre
  <1>8. Len(b) = L /\ \A i \in 1..L : b[i] = <<c, done + 1>>
    BY <1>1, <1>3, AnswerIs
  <1>9. Len(e) = n + L /\ \A i \in 1..n + L : e[i] = <<c, (i - 1) \div L + 1>>
    <2>1. done + 1 \in Nat
      OBVIOUS
    <2> QED BY <1>1, <1>4, <1>6, <2>1, AnswersAre
  <1>10. PICK d \in Seq(To(c)) : d = a \o b
    BY ConcatProperties
  <1>11. Len(d) = n + L /\ \A i \in 1..n + L : d[i] = IF i <= n THEN a[i] ELSE b[i - n]
    <2>1. /\ Len(d) = Len(a) + Len(b)
          /\ \A i \in 1..Len(a) + Len(b) : d[i] = IF i <= Len(a) THEN a[i] ELSE b[i - Len(a)]
      BY <1>10, ConcatProperties, Zenon
    <2> QED BY <1>7, <1>8, <2>1
  <1>12. \A i \in n + 1..n + L : (i - 1) \div L = done
    <2> SUFFICES ASSUME NEW i \in n + 1..n + L PROVE (i - 1) \div L = done
      OBVIOUS
    <2>1. PICK r \in Nat : r = i - 1 - n /\ r < L
      OBVIOUS
    <2>2. i - 1 = (L * done) + r
      BY <1>5, <2>1
    <2> QED BY <2>1, <2>2, DivOf
  <1>13. \A i \in 1..n + L : d[i] = e[i]
    <2> SUFFICES ASSUME NEW i \in 1..n + L PROVE d[i] = e[i]
      OBVIOUS
    <2>1. CASE i <= n
      <3>1. i \in 1..n
        BY <2>1
      <3>2. d[i] = a[i]
        BY <1>11, <2>1
      <3>3. a[i] = <<c, (i - 1) \div L + 1>> /\ e[i] = <<c, (i - 1) \div L + 1>>
        BY <1>7, <1>9, <3>1, Zenon
      <3> QED BY <3>2, <3>3
    <2>2. CASE i > n
      <3>1. i - n \in 1..L /\ i \in n + 1..n + L
        BY <2>2
      <3>2. d[i] = <<c, done + 1>>
        BY <1>8, <1>11, <2>2, <3>1
      <3>3. e[i] = <<c, done + 1>>
        BY <1>9, <1>12, <3>1
      <3> QED BY <3>2, <3>3
    <2> QED BY <2>1, <2>2
  <1>14. d = e
    BY <1>9, <1>11, <1>13, SeqEqual
  <1> QED BY <1>2, <1>3, <1>4, <1>10, <1>14

Same(s, t) == s = t

LEMMA ThreeParts ==
  ASSUME NEW S, NEW s \in Seq(S), NEW t \in Seq(S), NEW u \in Seq(S)
  PROVE  Same((s \o t) \o u, s \o (t \o u))
  BY ConcatAssociative DEF Same

\* Parts of what was to be sent: what is sent, and what is over.
LEMMA SentIs ==
  ASSUME NEW S, NEW got \in Seq(S), NEW buf \in Seq(S), NEW answer \in Seq(S),
         NEW all \in Seq(S), all = buf \o answer, NEW full \in 0..Len(all)
  PROVE  /\ SubSeq(all, 1, full) \in Seq(S) /\ SubSeq(all, full + 1, Len(all)) \in Seq(S)
         /\ got \o SubSeq(all, 1, full) \in Seq(S)
         /\ Same((got \o SubSeq(all, 1, full)) \o SubSeq(all, full + 1, Len(all)),
                 (got \o buf) \o answer)
         /\ full = 0 => Same(got \o SubSeq(all, full + 1, Len(all)), (got \o buf) \o answer)
  <1>2. PICK n \in Nat : n = Len(all)
    BY LenProperties
  <1>3. \A i \in 1..n : all[i] \in S
    BY <1>2, ElementOfSeq
  <1>4. PICK l \in Seq(S) : l = SubSeq(all, 1, full)
    <2>1. 1 \in Int /\ full \in Int /\ \A i \in 1..full : all[i] \in S
      BY <1>2, <1>3
    <2>2. SubSeq(all, 1, full) \in Seq(S)
      BY <2>1, SubSeqProperties, Zenon
    <2> QED BY <2>2, Zenon
  <1>5. PICK r \in Seq(S) : r = SubSeq(all, full + 1, Len(all))
    <2>1. full + 1 \in Int /\ n \in Int /\ \A i \in full + 1..n : all[i] \in S
      BY <1>2, <1>3
    <2>2. SubSeq(all, full + 1, n) \in Seq(S)
      BY <2>1, SubSeqProperties, Zenon
    <2> QED BY <1>2, <2>2, Zenon
  <1>6. l \o r = all
    <2>1. 1 \in 1..Len(all) + 1 /\ full \in 1 - 1..Len(all) /\ Len(all) \in full..Len(all)
      BY <1>2
    <2>2. SubSeq(all, 1, full) \o SubSeq(all, full + 1, Len(all)) = SubSeq(all, 1, Len(all))
      BY <2>1, ConcatAdjacentSubSeq, Zenon
    <2>3. SubSeq(all, 1, Len(all)) = all
      BY SubSeqFull
    <2> QED BY <1>4, <1>5, <2>2, <2>3, Zenon
  <1>7. (got \o l) \o r = got \o (l \o r) /\ (got \o buf) \o answer = got \o (buf \o answer)
    <2>1. Same((got \o l) \o r, got \o (l \o r))
      BY ThreeParts, Zenon
    <2>2. Same((got \o buf) \o answer, got \o (buf \o answer))
      BY ThreeParts, Zenon
    <2> QED BY <2>1, <2>2, Zenon DEF Same
  <1>8. got \o l \in Seq(S)
    BY ConcatProperties
  <1>9. full = 0 => r = all
    <2> SUFFICES ASSUME full = 0 PROVE r = all
      OBVIOUS
    <2>1. r = SubSeq(all, 1, Len(all))
      BY <1>5
    <2> QED BY <2>1, SubSeqFull
  <1>10. Same((got \o l) \o r, (got \o buf) \o answer)
    BY <1>6, <1>7, Zenon DEF Same
  <1>11. full = 0 => Same(got \o r, (got \o buf) \o answer)
    BY <1>7, <1>9, Zenon DEF Same
  <1> QED BY <1>4, <1>5, <1>8, <1>10, <1>11, Zenon

-----------------------------------------------------------------------------
(* Where the answers are *)

PeerType == [logins : Int, hup : BOOLEAN, got : Seq(Tasks)]

AnswerTypes ==
  /\ asked \in [Conns -> Nat]
  /\ tasks \in [Cells -> Seq(Tasks)] /\ tasksBuf \in [Cells -> Seq(Tasks)]
  /\ sendBuf \in [Conns -> Seq(Tasks)]
  /\ peer \in [Conns -> PeerType]
  /\ \A c \in Conns : sendBuf[c] \in Seq(To(c)) /\ peer[c].got \in Seq(To(c))

\* A client with a task in s is, or has been, with s.
Home(s, c) ==
  /\ Accepted(c)
  /\ \A t \in Cells \ {s} : c \notin Where(t)
  /\ mainPc = "add" => accepted # c
HomeInv == \A s \in Cells : \A i \in DOMAIN Waiting(s) : Home(s, Waiting(s)[i][1])

Sent(c) == peer[c].got \o sendBuf[c]
Whole(c) == \E done \in 0..asked[c] : Sent(c) = Answers(c, done) /\ QueuedInOrder(c, done)
WholeInv == \A c \in Conns : c \notin cut => Whole(c)

AnswerInv == AnswerTypes /\ HomeInv /\ WholeInv

LEMMA WaitingIs ==
  ASSUME AnswerTypes, NEW s \in Cells
  PROVE  Waiting(s) \in Seq(Tasks)
  BY ConcatProperties DEF AnswerTypes, Waiting

LEMMA AnswerInit ==
  ASSUME TcpInit
  PROVE  AnswerInv
  <1>1. AnswerTypes
    <2>1. \A S : <<>> \in Seq(S)
      BY EmptySeq
    <2>2. \A s \in Cells : tasks[s] = <<>> /\ tasksBuf[s] = <<>>
      BY DEF TcpInit
    <2>3. [logins |-> 0, hup |-> FALSE, got |-> <<>>] \in PeerType
      BY <2>1 DEF PeerType
    <2>4. \A c \in Conns : sendBuf[c] = <<>> /\ peer[c].got = <<>>
      BY DEF TcpInit
    <2>5. peer \in [Conns -> PeerType]
      BY <2>3 DEF TcpInit
    <2>6. /\ tasks \in [Cells -> Seq(Tasks)] /\ tasksBuf \in [Cells -> Seq(Tasks)]
          /\ sendBuf \in [Conns -> Seq(Tasks)] /\ asked \in [Conns -> Nat]
      BY <2>1 DEF TcpInit
    <2> QED BY <2>1, <2>4, <2>5, <2>6 DEF AnswerTypes
  <1>2. \A s \in Cells : Waiting(s) = <<>>
    BY EmptySeq DEF TcpInit, Waiting
  <1>3. HomeInv
    BY <1>2 DEF HomeInv
  <1>4. ASSUME NEW c \in Conns PROVE Whole(c)
    <2>1. asked[c] = 0 /\ Sent(c) = <<>>
      BY DEF TcpInit, Sent
    <2>2. Answers(c, 0) = <<>>
      <3>1. PICK a \in Seq(To(c)) : a = Answers(c, 0)
        BY AnswersAre
      <3>2. Len(a) = 0
        <4>1. 0 * AnswerLen = 0
          BY TcpServerAssumption
        <4> QED BY <3>1, <4>1, AnswersAre
      <3> QED BY <3>1, <3>2, EmptySeq
    <2>3. 1 \in Cells
      BY TcpServerAssumption DEF Cells
    <2>4. QueuedInOrder(c, 0)
      <3>1. DOMAIN Waiting(1) = {}
        BY <1>2, <2>3
      <3>2. InOrder(Waiting(1), c, 0 + 1, asked[c])
        BY <2>1, <3>1 DEF InOrder
      <3>3. \A t \in Cells : \A i \in DOMAIN Waiting(t) : Waiting(t)[i][1] # c
        BY <1>2
      <3> QED BY <2>3, <3>2, <3>3, Zenon DEF QueuedInOrder
    <2>5. 0 \in 0..asked[c]
      BY <2>1
    <2> QED BY <2>1, <2>2, <2>4, <2>5, Zenon DEF Whole
  <1> QED BY <1>1, <1>3, <1>4 DEF AnswerInv, WholeInv

\* How the tasks of c are found in order after a step.
LEMMA QueuedNext ==
  ASSUME NEW c, NEW done, NEW s \in Cells, NEW q, NEW n, Waiting(s)' = q, asked'[c] = n,
         InOrder(q, c, done + 1, n),
         \A t \in Cells \ {s} : \A i \in DOMAIN Waiting(t)' : Waiting(t)'[i][1] # c
  PROVE  QueuedInOrder(c, done)'
  <1>1. InOrder(Waiting(s), c, done + 1, asked[c])'
    BY DEF InOrder
  <1> QED BY <1>1, Zenon DEF QueuedInOrder

\* A step that changes no answer, whatever it does with connections.
LEMMA AnswersKept ==
  ASSUME AnswerInv, UNCHANGED <<sendVars, asked>>,
         tasks' \in [Cells -> Seq(Tasks)], tasksBuf' \in [Cells -> Seq(Tasks)],
         \A s \in Cells : Waiting(s)' = Waiting(s),
         peer' \in [Conns -> PeerType],
         \A c \in Conns : peer'[c].got = peer[c].got,
         \A s \in Cells : \A c \in Conns : Home(s, c) => Home(s, c)'
  PROVE  AnswerInv'
  <1>1. AnswerTypes'
    BY DEF AnswerInv, AnswerTypes, sendVars
  <1>2. \A s \in Cells : Waiting(s)' = Waiting(s)
    OBVIOUS
  <1>3. HomeInv'
    <2> SUFFICES ASSUME NEW s \in Cells, NEW i \in DOMAIN Waiting(s)
                 PROVE  Home(s, Waiting(s)[i][1])'
      BY <1>2 DEF HomeInv
    <2>1. PICK q \in Seq(Tasks) : q = Waiting(s)
      BY WaitingIs DEF AnswerInv
    <2>2. PICK c \in Conns : c = q[i][1]
      BY <2>1, TaskIs
    <2>3. Home(s, c)
      BY <2>1, <2>2 DEF AnswerInv, HomeInv
    <2>4. Home(s, c)'
      BY <2>3
    <2>5. Waiting(s)' = q
      BY <1>2, <2>1
    <2> QED BY <2>2, <2>4, <2>5
  <1>4. ASSUME NEW c \in Conns, Whole(c) PROVE Whole(c)'
    <2>1. Sent(c)' = Sent(c) /\ asked' = asked
      BY DEF Sent, sendVars
    <2>2. PICK done \in 0..asked[c] : Sent(c) = Answers(c, done) /\ QueuedInOrder(c, done)
      BY <1>4 DEF Whole
    <2>3. QueuedInOrder(c, done)'
      <3>1. PICK s \in Cells :
              /\ InOrder(Waiting(s), c, done + 1, asked[c])
              /\ \A t \in Cells \ {s} : \A i \in DOMAIN Waiting(t) : Waiting(t)[i][1] # c
        BY <2>2 DEF QueuedInOrder
      <3>2. \A t \in Cells \ {s} : \A i \in DOMAIN Waiting(t)' : Waiting(t)'[i][1] # c
        BY <1>2, <3>1
      <3>3. PICK q, n : q = Waiting(s) /\ n = asked[c]
        OBVIOUS
      <3>4. Waiting(s)' = q /\ asked'[c] = n /\ InOrder(q, c, done + 1, n)
        BY <1>2, <2>1, <3>1, <3>3
      <3> QED BY <3>2, <3>4, QueuedNext
    <2>4. done \in 0..asked'[c] /\ Sent(c)' = Answers(c, done)
      BY <2>1, <2>2
    <2> QED BY <2>3, <2>4, Zenon DEF Whole, Answers
  <1>5. WholeInv'
    BY <1>4 DEF WholeInv, AnswerInv, sendVars
  <1> QED BY <1>1, <1>3, <1>5 DEF AnswerInv

\* What a peer does, or a recv(), leaves what it got as it is.
LEMMA PeerKept ==
  ASSUME AnswerTypes, NEW c \in Conns,
         \/ peer' = [peer EXCEPT ![c].logins = @ + 1]
         \/ peer' = [peer EXCEPT ![c].logins = @ - 1]
         \/ peer' = [peer EXCEPT ![c].hup = TRUE]
  PROVE  peer' \in [Conns -> PeerType] /\ \A d \in Conns : peer'[d].got = peer[d].got
  <1>1. peer[c] \in PeerType /\ peer \in [Conns -> PeerType]
    BY DEF AnswerTypes
  <1>2. PICK p \in PeerType : p = peer[c]
    BY <1>1
  <1>3. PICK w \in PeerType : w.got = p.got /\ peer' = [peer EXCEPT ![c] = w]
    <2>1. CASE peer' = [peer EXCEPT ![c].logins = @ + 1]
      <3>1. [p EXCEPT !.logins = @ + 1] \in PeerType /\ [p EXCEPT !.logins = @ + 1].got = p.got
        BY DEF PeerType
      <3> QED BY <1>2, <2>1, <3>1
    <2>2. CASE peer' = [peer EXCEPT ![c].logins = @ - 1]
      <3>1. [p EXCEPT !.logins = @ - 1] \in PeerType /\ [p EXCEPT !.logins = @ - 1].got = p.got
        BY DEF PeerType
      <3> QED BY <1>2, <2>2, <3>1
    <2>3. CASE peer' = [peer EXCEPT ![c].hup = TRUE]
      <3>1. [p EXCEPT !.hup = TRUE] \in PeerType /\ [p EXCEPT !.hup = TRUE].got = p.got
        BY DEF PeerType
      <3> QED BY <1>2, <2>3, <3>1
    <2> QED BY <2>1, <2>2, <2>3
  <1> QED BY <1>1, <1>2, <1>3

\* The steps of main(), of select() and of a client that leaves, and the peers.
LEMMA ConnectionsNext ==
  ASSUME TcpInv, AnswerInv,
         \/ MainThread \/ Peer \/ UNCHANGED tcpVars
         \/ \E s \in Cells : \/ CellRound(s) \/ CellSelect(s) \/ CellSelectFails(s)
                             \/ \E c \in Conns : LeaveConn(s, c)
  PROVE  AnswerInv'
  <1> DEFINE Quiet == UNCHANGED <<taskVars, sendVars, asked>>
  <1>1. ASSUME Quiet,
               peer' \in [Conns -> PeerType],
               \A c \in Conns : peer'[c].got = peer[c].got,
               \A s \in Cells : \A c \in Conns : Home(s, c) => Home(s, c)'
        PROVE  AnswerInv'
    <2>1. /\ tasks' \in [Cells -> Seq(Tasks)] /\ tasksBuf' \in [Cells -> Seq(Tasks)]
          /\ \A s \in Cells : Waiting(s)' = Waiting(s)
      BY <1>1 DEF taskVars, AnswerInv, AnswerTypes, Waiting
    <2> QED BY <1>1, <2>1, AnswersKept
  <1>2. ASSUME Quiet, UNCHANGED peer,
               \A s \in Cells : \A c \in Conns : Home(s, c) => Home(s, c)'
        PROVE  AnswerInv'
    BY <1>1, <1>2 DEF AnswerInv, AnswerTypes
  <1>3. ASSUME NEW c \in Conns, NEW n \in Sockets, AcceptConn(c, n) PROVE AnswerInv'
    <2>1. /\ sockfd[c] = 0 /\ sockfd' = [sockfd EXCEPT ![c] = n] /\ accepted' = c
          /\ UNCHANGED <<peer, cellVars>> /\ Quiet
      BY <1>3 DEF AcceptConn
    <2>2. \A s \in Cells : \A d \in Conns : Home(s, d) => Home(s, d)'
      <3>1. \A s \in Cells : Where(s)' = Where(s)
        BY <2>1 DEF cellVars, Where
      <3>2. \A d \in Conns : Accepted(d) => d # c /\ Accepted(d)'
        BY <2>1 DEF TcpInv, TcpTypeOK, Accepted
      <3> QED BY <2>1, <3>1, <3>2 DEF Home
    <2> QED BY <1>2, <2>1, <2>2
  <1>4. CASE addClientToCellServer
    <2>1. /\ mainPc = "add" /\ mainPc' = "join"
          /\ UNCHANGED <<peer, sockfd, clients>> /\ Quiet
      BY <1>4 DEF addClientToCellServer, connVars
    <2>2. PICK k \in Cells : \A s \in Cells :
            clientsBuff'[s] = IF s = k THEN clientsBuff[s] \cup {accepted} ELSE clientsBuff[s]
      BY <1>4, HandOverNext
    <2>3. \A s \in Cells : \A d \in Conns : Home(s, d) => Home(s, d)'
      BY <2>1, <2>2 DEF Home, Where, Accepted
    <2> QED BY <1>2, <2>1, <2>3
  <1>5. CASE OnNetJoin \/ TcpServerClose \/ Terminate
    <2>1. mainPc' # "add" /\ UNCHANGED <<sockfd, cellVars, peer>> /\ Quiet
      BY <1>5 DEF OnNetJoin, TcpServerClose, Terminate, connVars
    <2>2. \A s \in Cells : \A d \in Conns : Home(s, d) => Home(s, d)'
      BY <2>1 DEF Home, Where, Accepted, cellVars
    <2> QED BY <1>2, <2>1, <2>2
  <1>6. ASSUME NEW s \in Cells, CellRound(s) \/ CellSelect(s) PROVE AnswerInv'
    <2>1. UNCHANGED <<mainVars, connVars, peer>> /\ Quiet
      BY <1>6 DEF CellRound, CellSelect
    <2>2. \A t \in Cells : Where(t)' = Where(t)
      BY <1>6, RoundNext DEF CellSelect, Where
    <2>3. \A t \in Cells : \A d \in Conns : Home(t, d) => Home(t, d)'
      BY <2>1, <2>2 DEF Home, Accepted, mainVars, connVars
    <2> QED BY <1>2, <2>1, <2>3
  <1>7. ASSUME NEW s \in Cells, CellSelectFails(s) \/ \E c \in Conns : LeaveConn(s, c)
        PROVE  AnswerInv'
    <2>1. UNCHANGED <<mainPc, accepted, sockfd, clientsBuff, peer>> /\ Quiet
      BY <1>7 DEF CellSelectFails, LeaveConn, Lost, mainVars
    <2>2. \A t \in Cells : clients'[t] \subseteq clients[t]
      BY <1>7 DEF CellSelectFails, LeaveConn, Lost, TcpInv, TcpTypeOK
    <2>3. \A t \in Cells : \A d \in Conns : Home(t, d) => Home(t, d)'
      BY <2>1, <2>2 DEF Home, Where, Accepted
    <2> QED BY <1>2, <2>1, <2>3
  <1>8. CASE Peer
    <2>1. UNCHANGED <<mainVars, connVars, cellVars>> /\ Quiet
      BY <1>8 DEF Peer
    <2>2. PICK c \in Conns :
            \/ peer' = [peer EXCEPT ![c].logins = @ + 1]
            \/ peer' = [peer EXCEPT ![c].hup = TRUE]
      BY <1>8 DEF Peer, PeerLogin, PeerHup
    <2>3. /\ peer' \in [Conns -> PeerType]
          /\ \A d \in Conns : peer'[d].got = peer[d].got
      BY <2>2, PeerKept DEF AnswerInv
    <2>4. \A s \in Cells : \A d \in Conns : Home(s, d) => Home(s, d)'
      BY <2>1 DEF Home, Where, Accepted, mainVars, connVars, cellVars
    <2> QED BY <1>1, <2>1, <2>3, <2>4
  <1>9. CASE UNCHANGED tcpVars
    <2>1. UNCHANGED <<mainVars, connVars, cellVars, peer>> /\ Quiet
      BY <1>9 DEF tcpVars
    <2>2. \A s \in Cells : \A d \in Conns : Home(s, d) => Home(s, d)'
      BY <2>1 DEF Home, Where, Accepted, mainVars, connVars, cellVars
    <2> QED BY <1>2, <2>1, <2>2
  <1> QED BY <1>3, <1>4, <1>5, <1>6, <1>7, <1>8, <1>9 DEF MainThread

LEMMA AppendLast ==
  ASSUME NEW S, NEW s \in Seq(S), NEW t \in Seq(S), NEW x \in S
  PROVE  Same(s \o Append(t, x), Append(s \o t, x))
  <1>1. PICK u \in Seq(S) : u = <<x>>
    <2>1. <<x>> \in Seq(S)
      OBVIOUS
    <2> QED BY <2>1, Zenon
  <1>2. Append(t, x) = t \o u
    BY <1>1, AppendIsConcat
  <1>3. s \o t \in Seq(S)
    BY ConcatProperties
  <1>4. Append(s \o t, x) = (s \o t) \o u
    BY <1>1, <1>3, AppendIsConcat, Zenon
  <1>5. Same((s \o t) \o u, s \o (t \o u))
    BY ThreeParts, Zenon
  <1> QED BY <1>2, <1>4, <1>5, Zenon DEF Same

\* A login that is handled.
LEMMA RecvAnswer ==
  ASSUME TcpInv, AnswerInv, NEW s \in Cells, NEW c \in Conns, RecvLogin(s, c)
  PROVE  AnswerInv'
  <1>1. PICK n \in Nat : n = asked[c]
    BY DEF AnswerInv, AnswerTypes
  <1> DEFINE x == <<c, n + 1>>
  <1>2. x \in Tasks /\ x[1] = c
    BY DEF Tasks
  <1>3. /\ peer' = [peer EXCEPT ![c].logins = @ - 1]
        /\ asked' = [asked EXCEPT ![c] = n + 1]
        /\ tasksBuf' = [tasksBuf EXCEPT ![s] = Append(tasksBuf[s], x)]
        /\ UNCHANGED <<mainVars, connVars, clients, clientsBuff, tasks, sendVars>>
    BY <1>1 DEF RecvLogin, AnswerInv, AnswerTypes
  <1>4. c \in Where(s)
    BY DEF RecvLogin, TcpInv, SetInv, Where
  <1>5. PICK q \in Seq(Tasks) : q = Waiting(s)
    BY WaitingIs DEF AnswerInv
  <1>6. Waiting(s)' = Append(q, x) /\ \A t \in Cells \ {s} : Waiting(t)' = Waiting(t)
    <2>1. PICK a \in Seq(Tasks), b \in Seq(Tasks) : a = tasks[s] /\ b = tasksBuf[s]
      BY DEF AnswerInv, AnswerTypes
    <2>2. tasks'[s] = a /\ tasksBuf'[s] = Append(b, x)
      BY <1>3, <2>1 DEF AnswerInv, AnswerTypes
    <2>3. q = a \o b
      BY <1>5, <2>1 DEF Waiting
    <2>4. Waiting(s)' = a \o Append(b, x)
      BY <2>2, Zenon DEF Waiting
    <2>5. Same(a \o Append(b, x), Append(a \o b, x))
      BY <1>2, AppendLast, Zenon
    <2>6. \A t \in Cells \ {s} : Waiting(t)' = Waiting(t)
      BY <1>3 DEF Waiting, AnswerInv, AnswerTypes
    <2> QED BY <2>3, <2>4, <2>5, <2>6, Zenon DEF Same
  <1>7. PICK r \in Seq(Tasks) : r = Append(q, x)
    BY <1>2, AppendProperties
  <1>8. \A i \in DOMAIN r : r[i] = x \/ (i \in DOMAIN q /\ r[i] = q[i])
    <2> HIDE DEF x
    <2>1. PICK l \in Nat : l = Len(q)
      BY TaskIs
    <2>2. /\ Len(r) = l + 1 /\ (\A i \in 1..l : r[i] = q[i]) /\ r[l + 1] = x
      BY <1>2, <1>7, <2>1, AppendProperties
    <2>3. DOMAIN q = 1..l /\ DOMAIN r = 1..l + 1
      BY <2>1, <2>2, TaskIs
    <2>4. ASSUME NEW i \in 1..l + 1 PROVE r[i] = x \/ (i \in 1..l /\ r[i] = q[i])
      <3>1. CASE i = l + 1
        BY <2>2, <3>1
      <3>2. CASE i \in 1..l
        BY <2>2, <3>2
      <3> QED BY <3>1, <3>2
    <2> QED BY <2>3, <2>4, Zenon
  <1> HIDE DEF x
  <1>9. AnswerTypes'
    <2>1. Append(tasksBuf[s], x) \in Seq(Tasks)
      BY <1>2, AppendProperties DEF AnswerInv, AnswerTypes
    <2>2. tasksBuf' \in [Cells -> Seq(Tasks)] /\ asked' \in [Conns -> Nat]
      BY <1>1, <1>3, <2>1 DEF AnswerInv, AnswerTypes
    <2>3. /\ peer' \in [Conns -> PeerType]
          /\ \A d \in Conns : peer'[d].got = peer[d].got
      BY <1>3, PeerKept DEF AnswerInv
    <2> QED BY <1>3, <2>2, <2>3 DEF AnswerInv, AnswerTypes, sendVars
  <1>10. \A t \in Cells : \A d : Home(t, d)' <=> Home(t, d)
    BY <1>3 DEF Home, Where, Accepted, mainVars, connVars
  <1>11. Home(s, c)
    BY <1>4 DEF Home, TcpInv, PlaceInv
  <1>12. HomeInv'
    <2>1. ASSUME NEW i \in DOMAIN r PROVE Home(s, r[i][1])
      <3>1. CASE r[i] = x
        BY <1>2, <1>11, <3>1
      <3>2. CASE i \in DOMAIN q /\ r[i] = q[i]
        BY <1>5, <3>2 DEF AnswerInv, HomeInv
      <3> QED BY <1>8, <3>1, <3>2
    <2>2. Waiting(s)' = r
      BY <1>6, <1>7
    <2>3. \A i \in DOMAIN Waiting(s)' : Home(s, Waiting(s)'[i][1])
      BY <2>1, <2>2
    <2>4. \A t \in Cells \ {s} : \A i \in DOMAIN Waiting(t)' : Home(t, Waiting(t)'[i][1])
      BY <1>6 DEF AnswerInv, HomeInv
    <2> QED BY <1>10, <2>3, <2>4 DEF HomeInv
  <1>13. ASSUME NEW d \in Conns, Whole(d), d # c PROVE Whole(d)'
    <2>1. PICK done \in 0..asked[d] : Sent(d) = Answers(d, done) /\ QueuedInOrder(d, done)
      BY <1>13 DEF Whole
    <2>2. Sent(d)' = Sent(d) /\ asked'[d] = asked[d]
      BY <1>3, <1>13 DEF Sent, sendVars, AnswerInv, AnswerTypes
    <2>3. PICK t \in Cells :
            /\ InOrder(Waiting(t), d, done + 1, asked[d])
            /\ \A u \in Cells \ {t} : \A i \in DOMAIN Waiting(u) : Waiting(u)[i][1] # d
      BY <2>1 DEF QueuedInOrder
    <2>4. \A u \in Cells \ {t} : \A i \in DOMAIN Waiting(u)' : Waiting(u)'[i][1] # d
      <3>1. s # t => \A i \in DOMAIN r : r[i][1] # d
        BY <1>2, <1>5, <1>8, <1>13, <2>3
      <3> QED BY <1>6, <1>7, <2>3, <3>1
    <2>5. PICK p \in Seq(Tasks), m \in Nat : p = Waiting(t) /\ m = asked[d]
      BY WaitingIs DEF AnswerInv, AnswerTypes
    <2>6. PICK k \in Nat : k = done
      BY <2>5
    <2>7. \E w : Waiting(t)' = w /\ InOrder(w, d, k + 1, m)
      <3>1. CASE t = s
        <4>1. InOrder(q, d, k + 1, m)
          BY <1>5, <2>3, <2>5, <2>6, <3>1
        <4>2. InOrder(Append(q, x), d, k + 1, m)
          <5>1. k + 1 \in Nat
            OBVIOUS
          <5> QED BY <1>2, <1>13, <4>1, <5>1, OrderOther
        <4> QED BY <1>6, <3>1, <4>2
      <3>2. CASE t # s
        BY <1>6, <2>3, <2>5, <2>6, <3>2
      <3> QED BY <3>1, <3>2
    <2>8. QueuedInOrder(d, done)'
      <3>1. PICK w : Waiting(t)' = w /\ InOrder(w, d, done + 1, m)
        BY <2>6, <2>7
      <3> QED BY <2>2, <2>4, <2>5, <3>1, QueuedNext
    <2> QED BY <2>1, <2>2, <2>8 DEF Whole, Answers
  <1>14. ASSUME Whole(c) PROVE Whole(c)'
    <2>1. PICK done \in 0..asked[c] : Sent(c) = Answers(c, done) /\ QueuedInOrder(c, done)
      BY <1>14 DEF Whole
    <2>2. Sent(c)' = Sent(c) /\ asked'[c] = n + 1
      BY <1>3, SMTT(30) DEF Sent, sendVars, AnswerInv, AnswerTypes
    <2>3. PICK t \in Cells :
            /\ InOrder(Waiting(t), c, done + 1, n)
            /\ \A u \in Cells \ {t} : \A i \in DOMAIN Waiting(u) : Waiting(u)[i][1] # c
      BY <1>1, <2>1 DEF QueuedInOrder
    <2>4. PICK k \in 0..n : k = done
      BY <1>1, <2>1
    <2>5. \A u \in Cells \ {s} : \A i \in DOMAIN Waiting(u) : Waiting(u)[i][1] # c
      BY <1>4 DEF AnswerInv, HomeInv, Home
    <2>6. InOrder(q, c, k + 1, n)
      <3>1. CASE t = s
        BY <1>5, <2>3, <2>4, <3>1
      <3>2. CASE t # s
        <4>1. \A i \in DOMAIN q : q[i][1] # c
          BY <1>5, <2>3, <3>2
        <4>2. \A m \in k + 1..n : FALSE
          <5>1. \A m \in k + 1..n : Has(Waiting(t), c, m)
            BY <2>3, <2>4, OrderIs
          <5> QED BY <2>5, <3>2, <5>1 DEF Has
        <4> QED BY <4>1, <4>2, OrderIs
      <3> QED BY <3>1, <3>2
    <2>7. InOrder(Append(q, x), c, k + 1, n + 1)
      <3>1. k + 1 \in Nat /\ k + 1 <= n + 1
        BY <1>1
      <3> QED BY <2>6, <3>1, OrderAppend DEF x
    <2>8. \A u \in Cells \ {s} : \A i \in DOMAIN Waiting(u)' : Waiting(u)'[i][1] # c
      BY <1>6, <2>5
    <2>9. QueuedInOrder(c, done)'
      BY <1>6, <2>2, <2>4, <2>7, <2>8, QueuedNext
    <2>10. done \in 0..asked'[c]
      BY <1>1, <2>1, <2>2
    <2> QED BY <2>1, <2>2, <2>9, <2>10 DEF Whole, Answers
  <1>15. WholeInv'
    BY <1>3, <1>13, <1>14 DEF WholeInv, AnswerInv, sendVars
  <1> QED BY <1>9, <1>12, <1>15 DEF AnswerInv

\* The first task of the list, and what is left after it.
LEMMA TailFirst ==
  ASSUME NEW S, NEW s \in Seq(S), NEW t \in Seq(S), s # <<>>
  PROVE  /\ s \o t # <<>> /\ (s \o t)[1] = Head(s)
         /\ Same(Tail(s) \o t, Tail(s \o t))
  <1>1. PICK u \in Seq(S) : u = s \o t
    BY ConcatProperties
  <1>2. PICK m \in Nat \ {0}, n \in Nat : m = Len(s) /\ n = Len(t)
    BY EmptySeq, LenProperties
  <1>3. Len(u) = m + n /\ \A i \in 1..m + n : u[i] = IF i <= m THEN s[i] ELSE t[i - m]
    <2>1. /\ Len(u) = Len(s) + Len(t)
          /\ \A i \in 1..Len(s) + Len(t) : u[i] = IF i <= Len(s) THEN s[i] ELSE t[i - Len(s)]
      BY <1>1, ConcatProperties, Zenon
    <2> QED BY <1>2, <2>1
  <1>4. u # <<>> /\ u[1] = s[1] /\ s[1] = Head(s)
    BY <1>2, <1>3, EmptySeq
  <1>5. PICK a \in Seq(S) : a = Tail(s)
    BY HeadTailProperties
  <1>6. Len(a) = m - 1 /\ \A i \in 1..m - 1 : a[i] = s[i + 1]
    BY <1>2, <1>5, HeadTailProperties
  <1>7. PICK b \in Seq(S) : b = Tail(u)
    BY <1>4, HeadTailProperties
  <1>8. Len(b) = m + n - 1 /\ \A i \in 1..m + n - 1 : b[i] = u[i + 1]
    BY <1>3, <1>4, <1>7, HeadTailProperties
  <1>9. PICK d \in Seq(S) : d = a \o t
    BY ConcatProperties
  <1>10. Len(d) = m - 1 + n /\ \A i \in 1..m - 1 + n : d[i] = IF i <= m - 1 THEN a[i] ELSE t[i - (m - 1)]
    <2>1. /\ Len(d) = Len(a) + Len(t)
          /\ \A i \in 1..Len(a) + Len(t) : d[i] = IF i <= Len(a) THEN a[i] ELSE t[i - Len(a)]
      BY <1>9, ConcatProperties, Zenon
    <2> QED BY <1>2, <1>6, <2>1
  <1>11. ASSUME NEW i \in 1..m + n - 1 PROVE d[i] = b[i]
    <2>1. CASE i <= m - 1
      <3>1. i \in 1..m - 1 /\ i + 1 \in 1..m + n /\ i + 1 <= m
        BY <2>1
      <3>2. a[i] = s[i + 1] /\ d[i] = a[i]
        BY <1>6, <1>10, <2>1, <3>1
      <3>3. b[i] = u[i + 1] /\ u[i + 1] = s[i + 1]
        BY <1>3, <1>8, <3>1
      <3> QED BY <3>2, <3>3
    <2>2. CASE i > m - 1
      BY <1>3, <1>8, <1>10, <2>2
    <2> QED BY <2>1, <2>2
  <1>12. d = b
    <2>1. m - 1 + n = m + n - 1
      OBVIOUS
    <2>2. Len(d) = m + n - 1 /\ Len(b) = m + n - 1
      BY <1>8, <1>10, <2>1, Zenon
    <2>3. Len(d) = Len(b) /\ \A i \in 1..Len(d) : d[i] = b[i]
      BY <1>11, <2>2, Zenon
    <2> QED BY <2>3, SeqEqual, Zenon
  <1> QED BY <1>1, <1>4, <1>5, <1>7, <1>9, <1>12, Zenon DEF Same

LEMMA TakeAnswer ==
  ASSUME AnswerInv, NEW s \in Cells, TakeTasks(s)
  PROVE  AnswerInv'
  <1>1. /\ tasks[s] = <<>> /\ tasks' = [tasks EXCEPT ![s] = tasksBuf[s]]
        /\ tasksBuf' = [tasksBuf EXCEPT ![s] = <<>>]
        /\ UNCHANGED <<mainVars, connVars, cellVars, peer, sendVars, asked>>
    BY DEF TakeTasks
  <1>2. PICK b \in Seq(Tasks) : b = tasksBuf[s]
    BY DEF AnswerInv, AnswerTypes
  <1>3. <<>> \in Seq(Tasks) /\ <<>> \o b = b /\ b \o <<>> = b
    BY EmptySeq, ConcatEmptySeq
  <1>4. \A t \in Cells : /\ tasks'[t] = IF t = s THEN b ELSE tasks[t]
                         /\ tasksBuf'[t] = IF t = s THEN <<>> ELSE tasksBuf[t]
    BY <1>1, <1>2 DEF AnswerInv, AnswerTypes
  <1>5. ASSUME NEW t \in Cells PROVE Waiting(t)' = Waiting(t)
    <2>1. CASE t = s
      <3>1. Waiting(t)' = b \o <<>>
        BY <1>4, <2>1, Zenon DEF Waiting
      <3>2. Waiting(t) = <<>> \o b
        BY <1>1, <1>2, <2>1, Zenon DEF Waiting
      <3> QED BY <1>3, <3>1, <3>2, Zenon
    <2>2. CASE t # s
      BY <1>4, <2>2 DEF Waiting
    <2> QED BY <2>1, <2>2
  <1>6. tasks' \in [Cells -> Seq(Tasks)] /\ tasksBuf' \in [Cells -> Seq(Tasks)]
    BY <1>1, <1>2, <1>3 DEF AnswerInv, AnswerTypes
  <1>7. \A t \in Cells : \A d \in Conns : Home(t, d) => Home(t, d)'
    BY <1>1 DEF Home, Where, Accepted, mainVars, connVars, cellVars
  <1>8. peer' \in [Conns -> PeerType] /\ \A d \in Conns : peer'[d].got = peer[d].got
    BY <1>1 DEF AnswerInv, AnswerTypes
  <1> QED BY <1>1, <1>5, <1>6, <1>7, <1>8, AnswersKept

LEMMA DivUp ==
  ASSUME NEW u \in Nat, NEW m \in Nat \ {0}
  PROVE  u \div m \in Nat /\ (u % m) \in Nat /\ u = (m * (u \div m)) + (u % m)
  OBVIOUS

\* Only a connection itself has its number.
LEMMA BehindIs ==
  ASSUME TcpInv, NEW c \in Conns, Accepted(c), NEW d \in open, sockfd[d] = sockfd[c]
  PROVE  Behind(c) = c
  <1>1. \A e \in open : sockfd[e] = sockfd[c] => e = c
    BY DEF TcpInv, TcpTypeOK, OpenInv
  <1>2. c \in open
    BY <1>1
  <1> QED BY <1>1, <1>2 DEF Behind

\* What SendData() leaves of an answer: all of it is sent or in the buffer.
LEMMA SendDataIs ==
  ASSUME TcpInv, AnswerTypes, NEW c \in Conns, NEW n \in Nat, Accepted(c),
         SendData(c, <<c, n>>)
  PROVE  /\ sendBuf' \in [Conns -> Seq(Tasks)] /\ peer' \in [Conns -> PeerType]
         /\ sendBuf'[c] \in Seq(To(c)) /\ peer'[c].got \in Seq(To(c))
         /\ \A d \in Conns \ {c} : peer'[d] = peer[d] /\ sendBuf'[d] = sendBuf[d]
         /\ Same(peer'[c].got \o sendBuf'[c], Sent(c) \o Answer(<<c, n>>))
         /\ cut' = cut
  <1>1. PICK buf \in Seq(To(c)), got \in Seq(To(c)) : buf = sendBuf[c] /\ got = peer[c].got
    BY DEF AnswerTypes
  <1>2. PICK answer \in Seq(To(c)) : answer = Answer(<<c, n>>)
    BY AnswerIs
  <1>3. PICK all \in Seq(To(c)) : all = buf \o answer
    BY ConcatProperties
  <1>4. PICK l \in Nat : l = Len(all)
    BY LenProperties
  <1>5. PICK size \in Nat \ {0} : size = SendBuffSize
    BY TcpServerAssumption
  <1>6. PICK full \in 0..l : full = (l \div size) * size
    <2>1. (l \div size) * size \in 0..l
      <3>1. PICK k \in Nat, r \in Nat : k = l \div size /\ l = (size * k) + r
        BY DivUp
      <3>2. k * size \in Nat /\ k * size = size * k
        OBVIOUS
      <3> QED BY <3>1, <3>2
    <2> QED BY <2>1
  <1>7. /\ full > 0 => \E d \in open : sockfd[d] = sockfd[c]
        /\ peer' = IF full = 0 THEN peer
                   ELSE [peer EXCEPT ![Behind(c)].got = @ \o SubSeq(all, 1, full)]
        /\ sendBuf' = [sendBuf EXCEPT ![c] = SubSeq(all, full + 1, l)]
        /\ cut' = cut
    BY <1>1, <1>2, <1>3, <1>4, <1>5, <1>6 DEF SendData
  <1>8. full # 0 => Behind(c) = c
    <2>1. full # 0 => full > 0
      OBVIOUS
    <2> QED BY <1>7, <2>1, BehindIs
  <1>9. PICK front \in Seq(To(c)), rest \in Seq(To(c)) :
          /\ front = SubSeq(all, 1, full) /\ rest = SubSeq(all, full + 1, l)
          /\ got \o front \in Seq(To(c))
          /\ Same((got \o front) \o rest, (got \o buf) \o answer)
          /\ full = 0 => Same(got \o rest, (got \o buf) \o answer)
    <2>1. full \in 0..Len(all)
      BY <1>4
    <2> QED BY <1>3, <1>4, <2>1, SentIs, Zenon
  <1>10. \A q : q \in Seq(To(c)) => q \in Seq(Tasks)
    <2>1. To(c) \subseteq Tasks
      BY DEF To, Tasks
    <2> QED BY <2>1, SeqMonotonic
  <1>11. /\ sendBuf' \in [Conns -> Seq(Tasks)] /\ sendBuf'[c] = rest
         /\ \A d \in Conns \ {c} : sendBuf'[d] = sendBuf[d]
    <2>1. sendBuf' = [sendBuf EXCEPT ![c] = rest]
      BY <1>7, <1>9
    <2>2. rest \in Seq(Tasks)
      BY <1>10
    <2> QED BY <2>1, <2>2 DEF AnswerTypes
  <1>12. CASE full = 0
    <2>1. peer' = peer
      BY <1>7, <1>12
    <2>2. peer'[c].got = got
      BY <1>1, <2>1
    <2>3. Same(peer'[c].got \o sendBuf'[c], Sent(c) \o Answer(<<c, n>>))
      BY <1>1, <1>2, <1>9, <1>11, <1>12, <2>2, Zenon DEF Sent, Same
    <2> QED BY <1>7, <1>11, <2>1, <2>2, <2>3 DEF AnswerTypes
  <1>13. CASE full # 0
    <2>1. PICK p \in PeerType : p = peer[c] /\ p.got = got
      BY <1>1 DEF AnswerTypes
    <2>2. PICK both \in Seq(To(c)) : both = got \o front
      BY <1>9
    <2>3. PICK w \in PeerType : w = [p EXCEPT !.got = both] /\ w.got = both
      <3>1. both \in Seq(Tasks)
        BY <1>10
      <3>2. [p EXCEPT !.got = both] \in PeerType /\ [p EXCEPT !.got = both].got = both
        BY <3>1 DEF PeerType
      <3> QED BY <3>2, Zenon
    <2>4. peer' = [peer EXCEPT ![c] = w]
      <3>1. peer' = [peer EXCEPT ![c].got = @ \o front]
        BY <1>7, <1>8, <1>9, <1>13
      <3>2. peer' = [peer EXCEPT ![c] = [p EXCEPT !.got = got \o front]]
        BY <2>1, <3>1
      <3> QED BY <2>2, <2>3, <3>2
    <2>5. /\ peer' \in [Conns -> PeerType] /\ peer'[c] = w
          /\ \A d \in Conns \ {c} : peer'[d] = peer[d]
      BY <2>4 DEF AnswerTypes
    <2>6. peer'[c].got = both
      BY <2>3, <2>5
    <2>7. Same(peer'[c].got \o sendBuf'[c], Sent(c) \o Answer(<<c, n>>))
      BY <1>1, <1>2, <1>9, <1>11, <2>2, <2>6, Zenon DEF Sent, Same
    <2> QED BY <1>7, <1>11, <2>5, <2>6, <2>7
  <1> QED BY <1>12, <1>13

\* The tasks that wait once the first of them is done.
LEMMA DoneIs ==
  ASSUME AnswerInv, NEW s \in Cells, tasks[s] # <<>>,
         tasks' = [tasks EXCEPT ![s] = Tail(@)], tasksBuf' = tasksBuf
  PROVE  /\ Waiting(s) # <<>> /\ Waiting(s)[1] = Head(tasks[s])
         /\ Waiting(s)' = Tail(Waiting(s))
         /\ \A t \in Cells \ {s} : Waiting(t)' = Waiting(t)
         /\ tasks' \in [Cells -> Seq(Tasks)]
  <1>1. PICK a \in Seq(Tasks), b \in Seq(Tasks) : a = tasks[s] /\ b = tasksBuf[s]
    BY DEF AnswerInv, AnswerTypes
  <1>2. Tail(a) \in Seq(Tasks)
    BY <1>1, HeadTailProperties
  <1>3. \A t \in Cells : tasks'[t] = IF t = s THEN Tail(a) ELSE tasks[t]
    BY <1>1 DEF AnswerInv, AnswerTypes
  <1>4. a # <<>>
    BY <1>1
  <1>5. a \o b # <<>> /\ (a \o b)[1] = Head(a) /\ Same(Tail(a) \o b, Tail(a \o b))
    BY <1>4, TailFirst, Zenon
  <1>6. Waiting(s) = a \o b
    BY <1>1, Zenon DEF Waiting
  <1>7. Waiting(s)' = Tail(a) \o b
    <2>1. tasks'[s] = Tail(a) /\ tasksBuf'[s] = b
      BY <1>1, <1>3
    <2> QED BY <2>1, Zenon DEF Waiting
  <1>8. \A t \in Cells \ {s} : Waiting(t)' = Waiting(t)
    BY <1>3 DEF Waiting
  <1>9. tasks' \in [Cells -> Seq(Tasks)]
    BY <1>1, <1>2 DEF AnswerInv, AnswerTypes
  <1> QED BY <1>1, <1>5, <1>6, <1>7, <1>8, <1>9, Zenon DEF Same

\* An answer that is sent, or dropped.
LEMMA TaskDone ==
  ASSUME TcpInv, AnswerInv, NEW s \in Cells, doTask(s)
  PROVE  AnswerInv'
  <1>1. /\ tasks[s] # <<>> /\ tasks' = [tasks EXCEPT ![s] = Tail(@)]
        /\ UNCHANGED <<mainVars, connVars, cellVars, tasksBuf, asked>>
        /\ SendData(Head(tasks[s])[1], Head(tasks[s])) \/ SendFails(Head(tasks[s])[1], Head(tasks[s]))
    BY DEF doTask
  <1>2. PICK q \in Seq(Tasks) : q = Waiting(s)
    BY WaitingIs DEF AnswerInv
  <1>3. /\ q # <<>> /\ q[1] = Head(tasks[s]) /\ Waiting(s)' = Tail(q)
        /\ \A t \in Cells \ {s} : Waiting(t)' = Waiting(t)
        /\ tasks' \in [Cells -> Seq(Tasks)]
    BY <1>1, <1>2, DoneIs
  <1>4. 1 \in DOMAIN q /\ 1 \in 1..Len(q)
    <2>1. Len(q) \in Nat \ {0}
      BY <1>3, EmptySeq
    <2> QED BY <2>1, TaskIs
  <1>5. PICK c \in Conns, n \in Nat : q[1] = <<c, n>>
    BY <1>4, TaskIs
  <1>6. SendData(c, <<c, n>>) \/ SendFails(c, <<c, n>>)
    <2>1. Head(tasks[s]) = <<c, n>> /\ <<c, n>>[1] = c
      BY <1>3, <1>5
    <2> QED BY <1>1, <2>1, Zenon
  <1>7. q[1][1] = c /\ q[1][2] = n
    BY <1>5
  <1>8. Accepted(c)
    BY <1>2, <1>4, <1>7 DEF AnswerInv, HomeInv, Home
  <1>9. AnswerTypes'
    <2>1. CASE SendData(c, <<c, n>>)
      <3>1. /\ sendBuf' \in [Conns -> Seq(Tasks)] /\ peer' \in [Conns -> PeerType]
            /\ sendBuf'[c] \in Seq(To(c)) /\ peer'[c].got \in Seq(To(c))
            /\ \A d \in Conns \ {c} : peer'[d] = peer[d] /\ sendBuf'[d] = sendBuf[d]
        BY <1>8, <2>1, SendDataIs DEF AnswerInv
      <3>2. \A d \in Conns : sendBuf'[d] \in Seq(To(d)) /\ peer'[d].got \in Seq(To(d))
        BY <3>1 DEF AnswerInv, AnswerTypes
      <3> QED BY <1>1, <1>3, <3>1, <3>2 DEF AnswerInv, AnswerTypes
    <2>2. CASE SendFails(c, <<c, n>>)
      <3>1. sendBuf' = [sendBuf EXCEPT ![c] = <<>>] /\ peer' = peer
        BY <2>2 DEF SendFails
      <3>2. <<>> \in Seq(Tasks) /\ <<>> \in Seq(To(c))
        BY EmptySeq
      <3>3. /\ sendBuf' \in [Conns -> Seq(Tasks)]
            /\ \A d \in Conns : sendBuf'[d] = IF d = c THEN <<>> ELSE sendBuf[d]
        BY <3>1, <3>2 DEF AnswerInv, AnswerTypes
      <3> QED BY <1>1, <1>3, <3>1, <3>2, <3>3 DEF AnswerInv, AnswerTypes
    <2> QED BY <1>6, <2>1, <2>2
  <1>10. /\ c \notin cut' => SendData(c, <<c, n>>) /\ c \notin cut
         /\ \A d \in Conns \ {c} : d \notin cut' => d \notin cut
         /\ \A d \in Conns \ {c} : Sent(d)' = Sent(d)
    <2>1. CASE SendData(c, <<c, n>>)
      <3>1. /\ cut' = cut
            /\ \A d \in Conns \ {c} : peer'[d] = peer[d] /\ sendBuf'[d] = sendBuf[d]
        BY <1>8, <2>1, SendDataIs DEF AnswerInv
      <3> QED BY <2>1, <3>1 DEF Sent
    <2>2. CASE SendFails(c, <<c, n>>)
      <3>1. sendBuf' = [sendBuf EXCEPT ![c] = <<>>] /\ peer' = peer /\ cut' = cut \cup {c}
        BY <2>2 DEF SendFails
      <3>2. \A d \in Conns \ {c} : sendBuf'[d] = sendBuf[d]
        BY <3>1 DEF AnswerInv, AnswerTypes
      <3> QED BY <3>1, <3>2 DEF Sent
    <2> QED BY <1>6, <2>1, <2>2
  <1>11. PICK r \in Seq(Tasks) : r = Tail(q)
    BY <1>3, HeadTailProperties
  <1>12. \A i \in DOMAIN r : i + 1 \in DOMAIN q /\ r[i] = q[i + 1]
    <2>1. Len(r) = Len(q) - 1 /\ \A i \in 1..Len(r) : r[i] = q[i + 1]
      BY <1>3, <1>11, HeadTailProperties
    <2>2. PICK l \in Nat : l = Len(r) /\ Len(q) = l + 1
      BY <2>1, TaskIs
    <2>3. DOMAIN q = 1..l + 1 /\ DOMAIN r = 1..l
      BY <2>2, TaskIs
    <2> QED BY <2>1, <2>2, <2>3
  <1>13. HomeInv'
    <2>1. \A t \in Cells : \A d : Home(t, d)' <=> Home(t, d)
      BY <1>1 DEF Home, Where, Accepted, mainVars, connVars, cellVars
    <2>2. \A i \in DOMAIN r : Home(s, r[i][1])
      BY <1>2, <1>12 DEF AnswerInv, HomeInv
    <2>3. \A i \in DOMAIN Waiting(s)' : Home(s, Waiting(s)'[i][1])
      BY <1>3, <1>11, <2>2
    <2>4. \A t \in Cells \ {s} : \A i \in DOMAIN Waiting(t)' : Home(t, Waiting(t)'[i][1])
      BY <1>3 DEF AnswerInv, HomeInv
    <2> QED BY <2>1, <2>3, <2>4 DEF HomeInv
  <1>14. ASSUME NEW d \in Conns \ {c}, Whole(d) PROVE Whole(d)'
    <2>1. PICK done \in 0..asked[d] : Sent(d) = Answers(d, done) /\ QueuedInOrder(d, done)
      BY <1>14 DEF Whole
    <2>2. PICK t \in Cells :
            /\ InOrder(Waiting(t), d, done + 1, asked[d])
            /\ \A u \in Cells \ {t} : \A i \in DOMAIN Waiting(u) : Waiting(u)[i][1] # d
      BY <2>1 DEF QueuedInOrder
    <2>3. \A u \in Cells \ {t} : \A i \in DOMAIN Waiting(u)' : Waiting(u)'[i][1] # d
      <3>1. s # t => \A i \in DOMAIN r : r[i][1] # d
        BY <1>2, <1>12, <2>2
      <3> QED BY <1>3, <1>11, <2>2, <3>1
    <2>4. PICK m \in Nat, k \in Nat : m = asked[d] /\ k = done
      <3>1. asked[d] \in Nat /\ done \in Nat
        BY DEF AnswerInv, AnswerTypes
      <3> QED BY <3>1
    <2>5. \E w : Waiting(t)' = w /\ InOrder(w, d, k + 1, m)
      <3>1. CASE t = s
        <4>1. InOrder(q, d, k + 1, m)
          BY <1>2, <2>2, <2>4, <3>1
        <4>2. InOrder(Tail(q), d, k + 1, m)
          <5>1. k + 1 \in Nat /\ q[1][1] # d
            BY <1>7
          <5> QED BY <1>3, <4>1, <5>1, OrderTail
        <4> QED BY <1>3, <3>1, <4>2
      <3>2. CASE t # s
        BY <1>3, <2>2, <2>4, <3>2
      <3> QED BY <3>1, <3>2
    <2>6. asked'[d] = m
      BY <1>1, <2>4
    <2>7. QueuedInOrder(d, done)'
      <3>1. PICK w : Waiting(t)' = w /\ InOrder(w, d, done + 1, m)
        BY <2>4, <2>5
      <3> QED BY <2>3, <2>6, <3>1, QueuedNext
    <2>8. Sent(d)' = Answers(d, done) /\ done \in 0..asked'[d]
      BY <1>1, <1>10, <2>1
    <2> QED BY <2>7, <2>8, Zenon DEF Whole, Answers
  <1>15. ASSUME Whole(c), SendData(c, <<c, n>>) PROVE Whole(c)'
    <2>1. PICK done \in 0..asked[c] : Sent(c) = Answers(c, done) /\ QueuedInOrder(c, done)
      BY <1>15 DEF Whole
    <2>2. PICK t \in Cells :
            /\ InOrder(Waiting(t), c, done + 1, asked[c])
            /\ \A u \in Cells \ {t} : \A i \in DOMAIN Waiting(u) : Waiting(u)[i][1] # c
      BY <2>1 DEF QueuedInOrder
    <2>3. t = s
      BY <1>2, <1>4, <1>7, <2>2
    <2>4. PICK m \in Nat, k \in Nat : m = asked[c] /\ k = done
      <3>1. asked[c] \in Nat /\ done \in Nat
        BY DEF AnswerInv, AnswerTypes
      <3> QED BY <3>1
    <2>5. q[1] = <<c, k + 1>> /\ k + 1 <= m /\ InOrder(Tail(q), c, (k + 1) + 1, m)
      <3>1. InOrder(q, c, k + 1, m)
        BY <1>2, <2>2, <2>3, <2>4
      <3>2. k + 1 \in Nat
        OBVIOUS
      <3> QED BY <1>3, <1>7, <3>1, <3>2, OrderTail
    <2>6. n = k + 1
      BY <1>7, <2>5
    <2>7. Sent(c)' = Answers(c, k + 1)
      <3>1. Same(peer'[c].got \o sendBuf'[c], Sent(c) \o Answer(<<c, n>>))
        BY <1>8, <1>15, SendDataIs DEF AnswerInv
      <3>2. Sent(c) \o Answer(<<c, n>>) = Answers(c, k + 1)
        BY <2>1, <2>4, <2>6, AnswersNext
      <3> QED BY <3>1, <3>2, Zenon DEF Same, Sent
    <2>8. asked'[c] = m /\ k + 1 \in 0..asked'[c]
      BY <1>1, <2>4, <2>5
    <2>9. \A u \in Cells \ {s} : \A i \in DOMAIN Waiting(u)' : Waiting(u)'[i][1] # c
      BY <1>3, <2>2, <2>3
    <2>10. QueuedInOrder(c, k + 1)'
      BY <1>3, <2>5, <2>8, <2>9, QueuedNext
    <2> QED BY <2>7, <2>8, <2>10, Zenon DEF Whole, Answers
  <1>16. WholeInv'
    BY <1>10, <1>14, <1>15 DEF AnswerInv, WholeInv
  <1> QED BY <1>9, <1>13, <1>16 DEF AnswerInv

LEMMA AnswerStep ==
  ASSUME TcpInv, AnswerInv, [TcpNext]_tcpVars
  PROVE  AnswerInv'
  <1>1. ASSUME NEW s \in Cells, CellThread(s) PROVE AnswerInv'
    BY <1>1, ConnectionsNext, RecvAnswer DEF CellThread
  <1>2. ASSUME NEW s \in Cells, TaskThread(s) PROVE AnswerInv'
    BY <1>2, TakeAnswer, TaskDone DEF TaskThread
  <1>3. CASE MainThread \/ Peer \/ UNCHANGED tcpVars
    BY <1>3, ConnectionsNext
  <1> QED BY <1>1, <1>2, <1>3 DEF TcpNext

\* Whatever the two threads of a CellServer do, and whoever leaves in the
\* meantime: a client is sent the answers to its own logins, each once and in
\* order, and nothing else (TcpServer.h:76-114, 411-416, CELLTask.hpp:37-80).
THEOREM AnswersAlwaysGoHome == TcpSpec => []AnswersGoHome
  <1>1. AnswerInv => AnswersGoHome
    <2> SUFFICES ASSUME AnswerInv, NEW c \in Conns
                 PROVE  /\ \A i \in DOMAIN peer[c].got : peer[c].got[i][1] = c
                        /\ c \notin cut =>
                             \E done \in 0..asked[c] :
                               /\ peer[c].got \o sendBuf[c] = Answers(c, done)
                               /\ QueuedInOrder(c, done)
      BY DEF AnswersGoHome
    <2>1. PICK got \in Seq(To(c)) : got = peer[c].got
      BY DEF AnswerInv, AnswerTypes
    <2>2. DOMAIN got = 1..Len(got) /\ \A i \in 1..Len(got) : got[i] \in To(c)
      BY LenProperties, ElementOfSeq
    <2>3. \A x \in To(c) : x[1] = c
      BY DEF To
    <2>4. \A i \in DOMAIN got : got[i][1] = c
      BY <2>2, <2>3
    <2>5. c \notin cut => Whole(c)
      BY DEF AnswerInv, WholeInv
    <2> QED BY <2>1, <2>4, <2>5, Zenon DEF Whole, Sent
  <1>2. TcpInit => AnswerInv
    BY AnswerInit
  <1>3. TcpInv /\ AnswerInv /\ [TcpNext]_tcpVars => AnswerInv'
    BY AnswerStep
  <1> QED BY <1>1, <1>2, <1>3, TcpInvariance, PTL DEF TcpSpec

-----------------------------------------------------------------------------
(* MemoryMgr: blocks and sizes *)

LEMMA BlockFacts ==
  /\ \A p \in Pools : BlockNum(p) \in Nat \ {0} /\ Usable(p) \subseteq Blocks(p)
  /\ \A p \in Pools : \A b \in Blocks(p) :
       /\ b[1] = p /\ b[2] \in 0..BlockNum(p) - 1 /\ b = <<p, b[2]>>
       /\ b \in PoolBlocks /\ b # None /\ b \notin HeapBlocks
  /\ \A b \in PoolBlocks : b[1] \in Pools /\ b \in Blocks(b[1])
  /\ \A p \in Pools : \A n \in 0..BlockNum(p) - 1 : <<p, n>> \in Blocks(p)
  /\ None \notin PoolBlocks /\ None \notin HeapBlocks
  <1>1. \A p \in Pools : BlockNum(p) \in Nat \ {0}
    BY PoolAssumption DEF Pools, MemPools, BlockNum
  <1>2. \A p \in Pools : \A n \in 0..BlockNum(p) - 1 : <<p, n>> \in Blocks(p)
    BY DEF Blocks
  <1>3. \A p \in Pools : Usable(p) \subseteq Blocks(p)
    <2>1. <<"obj", 0>> \in Blocks("obj") /\ <<"obj", ObjBlocks - 1>> \in Blocks("obj")
      BY PoolAssumption DEF Blocks, BlockNum
    <2> QED BY <2>1 DEF Usable
  <1>4. ASSUME NEW p \in Pools, NEW b \in Blocks(p)
        PROVE  /\ b[1] = p /\ b[2] \in 0..BlockNum(p) - 1 /\ b = <<p, b[2]>>
               /\ b \in PoolBlocks /\ b # None /\ b \notin HeapBlocks
    <2>1. PICK n \in 0..BlockNum(p) - 1 : b = <<p, n>>
      BY DEF Blocks
    <2>2. p # "none" /\ p # "heap"
      BY DEF Pools, MemPools
    <2>3. b \in PoolBlocks
      BY DEF PoolBlocks
    <2> QED BY <2>1, <2>2, <2>3 DEF None, HeapBlocks
  <1>5. \A b \in PoolBlocks : b[1] \in Pools /\ b \in Blocks(b[1])
    BY <1>4 DEF PoolBlocks
  <1>6. None \notin PoolBlocks
    BY <1>4, <1>5
  <1>7. None \notin HeapBlocks
    BY DEF None, HeapBlocks
  <1> QED BY <1>1, <1>2, <1>3, <1>4, <1>5, <1>6, <1>7

LEMMA SizeFacts ==
  /\ nSize("mem64") = 64 /\ nSize("mem128") = 128 /\ nSize("obj") = ObjSize
  /\ ObjSize \in Nat \ {0} /\ Sizes \subseteq Nat \ {0}
  /\ \A size \in Nat :
       szAlloc(size) \in MemPools \cup {"heap"}
       /\ (szAlloc(size) # "heap" => nSize(szAlloc(size)) >= size)
  <1>1. nSize("mem64") = 64 /\ nSize("mem128") = 128 /\ nSize("obj") = ObjSize
    BY DEF nSize, Rounded
  <1>2. ObjSize \in Nat \ {0} /\ Sizes \subseteq Nat \ {0}
    BY PoolAssumption
  <1> QED BY <1>1, <1>2 DEF szAlloc, MemPools

-----------------------------------------------------------------------------
(* The inductive invariant *)

ThreadStates ==
  [pc : {"idle", "lock", "read", "unlink", "malloc", "lockfree", "link", "publish"},
   pool : Pools \cup {"heap", "none"}, block : PoolBlocks \cup {None},
   size : Sizes \cup {0, ObjSize}]

Allocating(t) == thread[t].size > 0
Returning(t) == thread[t].pc \in {"lockfree", "link", "publish"}

\* What a thread knows at each place: of a block that it allocates the size and
\* a pool whose blocks are large enough, and of one that it returns its pool,
\* which has memory then.
StageOK(r, avail) ==
  /\ r.pc \in {"lock", "read", "unlink", "malloc"} =>
       /\ r.size > 0 /\ r.pool # "none"
       /\ r.pc # "malloc" => r.pool \in Pools
       /\ r.pool \in Pools => nSize(r.pool) >= r.size
       /\ r.pc # "unlink" => r.block = None
  /\ r.pc \in {"idle", "lockfree", "link", "publish"} => r.size = 0
  /\ r.pc = "idle" => r.block = None
  /\ r.pc \in {"lockfree", "link", "publish"} => r.pool \in Pools /\ r.block \in Blocks(r.pool)
  /\ r.pc \notin {"idle", "lock"} /\ r.pool \in Pools => r.pool \in avail

StageInv == \A t \in Threads : StageOK(thread[t], ready)

\* The thread inside a chain holds its mutex, but for the returns to the object
\* pool.
MutexOK(t, r, locks) ==
  /\ r.pc \in {"read", "unlink"} => locks[r.pool] = {t}
  /\ r.pc = "malloc" /\ r.pool \in Pools => locks[r.pool] = {t}
  /\ r.pc \in {"link", "publish"} /\ r.pool # "obj" => locks[r.pool] = {t}

MutexInv == \A t \in Threads : MutexOK(t, thread[t], mutex)

\* Every allocation under way has room, and one that is alive has a block.
RoomInv ==
  /\ Cardinality(FreeSlots) >= Cardinality({t \in Threads : Allocating(t)})
  /\ \A s \in 1..MaxHeld : held[s] = NoAlloc \/ held[s].block # None

RaceInv == raced = Racing

\* b is in use, or a thread is about to return it.
Out(b) ==
  \/ \E s \in 1..MaxHeld : held[s].block = b
  \/ \E t \in Threads : Returning(t) /\ thread[t].block = b

\* A block that is out is so at one place, and has one reference until its
\* return has taken it.
OwnInv(p) ==
  /\ \A s \in 1..MaxHeld : held[s].block \in Blocks(p) => p \in ready /\ held[s].block \in Usable(p)
  /\ \A s, r \in 1..MaxHeld : held[s].block \in Blocks(p) /\ held[s].block = held[r].block => s = r
  /\ \A t \in Threads : Returning(t) /\ Pool(t) = p => thread[t].block \in Usable(p)
  /\ \A t, u \in Threads :
       Returning(t) /\ Returning(u) /\ Pool(t) = p /\ thread[t].block = thread[u].block => t = u
  /\ \A s \in 1..MaxHeld, t \in Threads :
       Returning(t) /\ Pool(t) = p => held[s].block # thread[t].block
  /\ \A b \in Blocks(p) :
       nRef[b] = IF Out(b) /\ \A t \in Threads : thread[t].pc = "publish" => thread[t].block # b
                 THEN 1 ELSE 0

\* f is the chain of p: n different blocks, each with the next one behind it,
\* which are the blocks that are not out.
IsPath(p, n, f) ==
  /\ \A i, j \in 1..n : f[i] = f[j] => i = j
  /\ head[p] = IF n = 0 THEN None ELSE f[1]
  /\ \A i \in 1..n : next[f[i]] = IF i = n THEN None ELSE f[i + 1]
  /\ \A b \in Blocks(p) : (\E i \in 1..n : f[i] = b) <=> b \in Usable(p) /\ ~Out(b)

PathInv(p) == \E n \in Nat : \E f \in [1..n -> Blocks(p)] : IsPath(p, n, f)

\* What a thread has read of the head of the chain is still true.
HeadInv(p) ==
  \A t \in Threads : Pool(t) = p =>
    /\ thread[t].pc = "unlink" => thread[t].block = head[p] /\ head[p] # None
    /\ thread[t].pc = "publish" => next[thread[t].block] = head[p]

PoolInv ==
  /\ TypeOK /\ "obj" \in ready
  /\ StageInv /\ MutexInv /\ RoomInv /\ RaceInv
  /\ \A p \in Pools : OwnInv(p)
  /\ \A p \in ready : PathInv(p) /\ HeadInv(p)

-----------------------------------------------------------------------------
(* New chains *)

\* initMemory() links all the blocks of a pool.
MemChain(p, n, f) ==
  /\ \A i, j \in 1..n : f[i] = f[j] => i = j
  /\ n > 0 /\ f[1] = <<p, 0>>
  /\ \A i \in 1..n : initMemory(f[i]) = IF i = n THEN None ELSE f[i + 1]
  /\ \A b \in Blocks(p) : b \in Usable(p) /\ \E i \in 1..n : f[i] = b

LEMMA NewChain ==
  ASSUME NEW p \in MemPools
  PROVE  \E n \in Nat : \E f \in [1..n -> Blocks(p)] : MemChain(p, n, f)
  <1>1. p \in Pools /\ p # "obj" /\ Usable(p) = Blocks(p)
    BY DEF MemPools, Pools, Usable
  <1>2. PICK n \in Nat \ {0} : n = BlockNum(p)
    BY <1>1, BlockFacts
  <1>3. \A m \in 0..n - 1 : <<p, m>> \in Blocks(p)
    BY <1>1, <1>2, BlockFacts
  <1> DEFINE f == [i \in 1..n |-> <<p, i - 1>>]
  <1>4. \A i \in 1..n : f[i] = <<p, i - 1>>
    OBVIOUS
  <1>5. f \in [1..n -> Blocks(p)]
    BY <1>3
  <1>6. \A i \in 1..n : f[i][1] = p /\ f[i][2] = i - 1
    BY <1>4
  <1> HIDE DEF f
  <1>7. \A i, j \in 1..n : f[i] = f[j] => i = j
    BY <1>6
  <1>8. \A i \in 1..n : initMemory(f[i]) = IF i = n THEN None ELSE f[i + 1]
    BY <1>2, <1>4, <1>6 DEF initMemory
  <1>9. ASSUME NEW b \in Blocks(p) PROVE \E i \in 1..n : f[i] = b
    <2>1. b = <<p, b[2]>> /\ b[2] \in 0..n - 1
      BY <1>1, <1>2, BlockFacts
    <2>2. b[2] + 1 \in 1..n /\ f[b[2] + 1] = b
      BY <1>4, <2>1
    <2> QED BY <2>2
  <1>10. f[1] = <<p, 0>>
    BY <1>4
  <1>11. \A b \in Blocks(p) : b \in Usable(p) /\ \E i \in 1..n : f[i] = b
    BY <1>1, <1>9
  <1>12. MemChain(p, n, f)
    BY <1>7, <1>8, <1>10, <1>11 DEF MemChain
  <1> QED BY <1>5, <1>12

\* initPool() links the first block and the last one.
ObjChain(n, f) ==
  /\ \A i, j \in 1..n : f[i] = f[j] => i = j
  /\ n > 0 /\ f[1] = <<"obj", 0>>
  /\ \A i \in 1..n : initPool(f[i]) = IF i = n THEN None ELSE f[i + 1]
  /\ \A b \in Blocks("obj") : (\E i \in 1..n : f[i] = b) <=> b \in Usable("obj")

LEMMA NewObjChain == \E n \in Nat : \E f \in [1..n -> Blocks("obj")] : ObjChain(n, f)
  <1>1. ObjBlocks \in Nat \ {0} /\ BlockNum("obj") = ObjBlocks
    BY PoolAssumption DEF BlockNum
  <1>2. <<"obj", 0>> \in Blocks("obj") /\ <<"obj", ObjBlocks - 1>> \in Blocks("obj")
    BY <1>1 DEF Blocks
  <1>3. Usable("obj") = {<<"obj", 0>>, <<"obj", ObjBlocks - 1>>}
    BY DEF Usable
  <1>4. CASE ObjBlocks = 1
    <2> DEFINE f == [i \in 1..1 |-> <<"obj", 0>>]
    <2>1. f \in [1..1 -> Blocks("obj")] /\ f[1] = <<"obj", 0>>
      BY <1>2
    <2>2. initPool(f[1]) = None
      BY <1>4 DEF initPool
    <2> HIDE DEF f
    <2>3. \A i \in 1..1 : i = 1
      OBVIOUS
    <2>4. ObjChain(1, f)
      BY <1>3, <1>4, <2>1, <2>2, <2>3 DEF ObjChain
    <2> QED BY <2>1, <2>4
  <1>5. CASE ObjBlocks > 1
    <2> DEFINE f == [i \in 1..2 |-> IF i = 1 THEN <<"obj", 0>> ELSE <<"obj", ObjBlocks - 1>>]
    <2>1. /\ f \in [1..2 -> Blocks("obj")]
          /\ f[1] = <<"obj", 0>> /\ f[2] = <<"obj", ObjBlocks - 1>>
      BY <1>2
    <2> HIDE DEF f
    <2>2. f[1][2] = 0 /\ f[2][2] = ObjBlocks - 1
      BY <2>1
    <2>3. initPool(f[1]) = f[2] /\ initPool(f[2]) = None
      BY <1>5, <1>1, <2>1, <2>2 DEF initPool
    <2>4. \A i \in 1..2 : i = 1 \/ i = 2
      OBVIOUS
    <2>5. \A i, j \in 1..2 : f[i] = f[j] => i = j
      BY <1>1, <1>5, <2>2, <2>4
    <2>6. \A i \in 1..2 : initPool(f[i]) = IF i = 2 THEN None ELSE f[i + 1]
      BY <2>3, <2>4
    <2>7. \A b \in Blocks("obj") : (\E i \in 1..2 : f[i] = b) <=> b \in Usable("obj")
      BY <1>3, <2>1, <2>4
    <2>8. ObjChain(2, f)
      BY <2>1, <2>5, <2>6, <2>7 DEF ObjChain
    <2> QED BY <2>1, <2>8
  <1> QED BY <1>1, <1>4, <1>5

LEMMA PoolInitInv == Init => PoolInv
  <1> SUFFICES ASSUME Init PROVE PoolInv
    OBVIOUS
  <1>0. /\ ready = {"obj"} /\ raced = FALSE
        /\ head = [p \in Pools |-> IF p = "obj" THEN <<p, 0>> ELSE None]
        /\ next = [b \in PoolBlocks |-> IF b[1] = "obj" THEN initPool(b) ELSE None]
        /\ nRef = [b \in PoolBlocks |-> 0]
        /\ mutex = [p \in Pools |-> {}]
        /\ \A t \in Threads : thread[t] = Idle
        /\ \A s \in 1..MaxHeld : held[s].block = None
    BY DEF Init, NoAlloc
  <1>1. /\ \A t \in Threads : thread[t].pc = "idle" /\ thread[t].size = 0
        /\ \A t \in Threads : thread[t].block = None /\ thread[t].pool = "none"
    BY <1>0 DEF Idle
  <1>2. TypeOK
    <2>1. <<"obj", 0>> \in PoolBlocks /\ <<"obj", ObjBlocks - 1>> \in PoolBlocks
      <3>1. "obj" \in Pools /\ BlockNum("obj") = ObjBlocks
        BY DEF Pools, BlockNum
      <3>2. 0 \in 0..ObjBlocks - 1 /\ ObjBlocks - 1 \in 0..ObjBlocks - 1
        BY PoolAssumption
      <3> QED BY <3>1, <3>2, BlockFacts
    <2>2. head \in [Pools -> PoolBlocks \cup {None}]
      BY <1>0, <2>1
    <2>3. next \in [PoolBlocks -> PoolBlocks \cup {None}]
      BY <1>0, <2>1 DEF initPool
    <2>4. held \in [1..MaxHeld ->
            [size : Sizes \cup {0, ObjSize}, block : PoolBlocks \cup HeapBlocks \cup {None}]]
      BY DEF Init, NoAlloc
    <2>5. thread \in [Threads -> ThreadStates]
      BY DEF Init, Idle, ThreadStates
    <2>6. \A s \in 1..MaxHeld : LargeEnough(held[s])
      BY <1>0, BlockFacts DEF LargeEnough
    <2>7. raced \in BOOLEAN
      BY <1>0
    <2>8. ready \subseteq Pools /\ nRef \in [PoolBlocks -> Int] /\ mutex \in [Pools -> SUBSET Threads]
      BY <1>0 DEF Pools
    <2> QED BY <2>2, <2>3, <2>4, <2>5, <2>6, <2>7, <2>8 DEF TypeOK, ThreadStates
  <1>3. StageInv /\ MutexInv
    BY <1>1 DEF StageInv, MutexInv, StageOK, MutexOK
  <1>4. RoomInv
    <2>1. {t \in Threads : Allocating(t)} = {}
      BY <1>1 DEF Allocating
    <2>2. IsFiniteSet(FreeSlots)
      <3>1. IsFiniteSet(1..MaxHeld)
        BY PoolAssumption, FS_Interval
      <3> QED BY <3>1, FS_Subset DEF FreeSlots
    <2>3. Cardinality(FreeSlots) \in Nat /\ Cardinality({t \in Threads : Allocating(t)}) = 0
      BY <2>1, <2>2, FS_EmptySet, FS_CardinalityType
    <2>4. \A s \in 1..MaxHeld : held[s] = NoAlloc
      BY DEF Init
    <2> QED BY <2>3, <2>4 DEF RoomInv
  <1>5. RaceInv
    <2>1. ~Racing
      BY <1>1 DEF Racing, InChain, Pool
    <2>2. Racing = FALSE
      BY <2>1 DEF Racing
    <2> QED BY <1>0, <2>2 DEF RaceInv
  <1>6. \A b \in PoolBlocks : ~Out(b)
    BY <1>0, <1>1, BlockFacts DEF Out, Returning
  <1>7. \A p \in Pools : OwnInv(p)
    BY <1>0, <1>1, <1>6, BlockFacts DEF OwnInv, Returning
  <1>8. ASSUME NEW p \in ready PROVE PathInv(p) /\ HeadInv(p)
    <2>1. p = "obj"
      BY <1>0
    <2>2. HeadInv(p)
      BY <1>1 DEF HeadInv
    <2>3. /\ \A b \in Blocks("obj") : next[b] = initPool(b) /\ ~Out(b)
          /\ head["obj"] = <<"obj", 0>>
      BY <1>0, <1>6, BlockFacts DEF Pools
    <2>4. PathInv("obj")
      <3>1. PICK n \in Nat : \E f \in [1..n -> Blocks("obj")] : ObjChain(n, f)
        BY NewObjChain
      <3>2. PICK f \in [1..n -> Blocks("obj")] : ObjChain(n, f)
        BY <3>1
      <3>3. IsPath("obj", n, f)
        BY <2>3, <3>2 DEF IsPath, ObjChain
      <3> QED BY <3>3 DEF PathInv
    <2> QED BY <2>1, <2>2, <2>4
  <1> QED BY <1>0, <1>2, <1>3, <1>4, <1>5, <1>7, <1>8 DEF PoolInv

-----------------------------------------------------------------------------
(* What a step of one thread leaves as it is *)

LEMMA BecomeFacts ==
  ASSUME TypeOK, NEW t \in Threads, NEW r \in ThreadStates, Become(t, r)
  PROVE  /\ thread' \in [Threads -> ThreadStates]
         /\ \A u \in Threads : thread'[u] = IF u = t THEN r ELSE thread[u]
  <1>1. thread \in [Threads -> ThreadStates]
    BY DEF TypeOK, ThreadStates
  <1> QED BY <1>1 DEF Become

\* The types of what only some of the steps change.
HeldTypes ==
  /\ held \in [1..MaxHeld ->
       [size : Sizes \cup {0, ObjSize}, block : PoolBlocks \cup HeapBlocks \cup {None}]]
  /\ \A s \in 1..MaxHeld : LargeEnough(held[s])
ChainTypes ==
  /\ ready \subseteq Pools
  /\ head \in [Pools -> PoolBlocks \cup {None}]
  /\ next \in [PoolBlocks -> PoolBlocks \cup {None}]
  /\ nRef \in [PoolBlocks -> Int]

LEMMA TypeParts ==
  ASSUME TypeOK
  PROVE  /\ HeldTypes /\ ChainTypes /\ mutex \in [Pools -> SUBSET Threads]
         /\ thread \in [Threads -> ThreadStates]
  BY DEF TypeOK, HeldTypes, ChainTypes, ThreadStates

\* A step of t that makes it r.
LEMMA StepOf ==
  ASSUME PoolInv, NEW t \in Threads, NEW r \in ThreadStates, Become(t, r),
         HeldTypes', ChainTypes', ready \subseteq ready', raced' = Racing',
         mutex' \in [Pools -> SUBSET Threads],
         \A p \in Pools, u \in Threads \ {t} : mutex[p] = {u} => mutex'[p] = {u},
         StageOK(r, ready'), MutexOK(t, r, mutex')
  PROVE  /\ TypeOK' /\ "obj" \in ready' /\ StageInv' /\ MutexInv' /\ RaceInv'
         /\ \A u \in Threads : thread'[u] = IF u = t THEN r ELSE thread[u]
  <1>1. /\ thread' \in [Threads -> ThreadStates]
        /\ \A u \in Threads : thread'[u] = IF u = t THEN r ELSE thread[u]
    BY BecomeFacts DEF PoolInv
  <1>2. RaceInv' /\ raced' \in BOOLEAN
    BY Zenon DEF RaceInv, Racing
  <1>3. TypeOK'
    BY <1>1, <1>2 DEF TypeOK, HeldTypes, ChainTypes, ThreadStates
  <1>4. StageInv'
    <2>1. \A u \in Threads : StageOK(thread[u], ready)
      BY DEF PoolInv, StageInv
    <2>2. \A q : StageOK(q, ready) => StageOK(q, ready')
      BY DEF StageOK
    <2> QED BY <1>1, <2>1, <2>2 DEF StageInv
  <1>5. MutexInv'
    <2>1. ASSUME NEW u \in Threads, u # t PROVE MutexOK(u, thread'[u], mutex')
      <3>1. MutexOK(u, thread[u], mutex) /\ StageOK(thread[u], ready) /\ thread'[u] = thread[u]
        BY <1>1, <2>1 DEF PoolInv, MutexInv, StageInv
      <3>2. \A p \in Pools : mutex[p] = {u} => mutex'[p] = {u}
        BY <2>1
      <3> QED BY <3>1, <3>2 DEF MutexOK, StageOK
    <2> QED BY <1>1, <2>1 DEF MutexInv
  <1> QED BY <1>1, <1>2, <1>3, <1>4, <1>5 DEF PoolInv

LEMMA SlotsFinite ==
  /\ IsFiniteSet(FreeSlots) /\ Cardinality(FreeSlots) \in Nat
  /\ IsFiniteSet({t \in Threads : Allocating(t)})
  /\ Cardinality({t \in Threads : Allocating(t)}) \in Nat
  <1>1. IsFiniteSet(1..MaxHeld) /\ IsFiniteSet(Threads)
    BY PoolAssumption, FS_Interval
  <1>2. IsFiniteSet(FreeSlots)
    BY <1>1, FS_Subset DEF FreeSlots
  <1>3. IsFiniteSet({t \in Threads : Allocating(t)})
    BY <1>1, FS_Subset
  <1> QED BY <1>2, <1>3, FS_CardinalityType

\* No thread begins to allocate.
LEMMA RoomKept ==
  ASSUME RoomInv, \A s \in 1..MaxHeld : held'[s] = held[s] \/ held'[s] = NoAlloc,
         \A u \in Threads : Allocating(u)' => Allocating(u)
  PROVE  RoomInv'
  <1> DEFINE A == {t \in Threads : Allocating(t)}
             B == {t \in Threads : Allocating(t)'}
  <1>1. IsFiniteSet(A) /\ B \subseteq A /\ Cardinality(A) \in Nat
    BY SlotsFinite
  <1>2. Cardinality(B) \in Nat /\ Cardinality(B) <= Cardinality(A)
    <2> HIDE DEF A, B
    <2> QED BY <1>1, FS_Subset, FS_CardinalityType
  <1>3. IsFiniteSet(FreeSlots')
    <2>1. FreeSlots' \subseteq 1..MaxHeld
      BY DEF FreeSlots
    <2>2. IsFiniteSet(1..MaxHeld)
      BY PoolAssumption, FS_Interval
    <2> QED BY <2>1, <2>2, FS_Subset
  <1>4. /\ Cardinality(FreeSlots) \in Nat /\ Cardinality(FreeSlots') \in Nat
        /\ Cardinality(FreeSlots) <= Cardinality(FreeSlots')
    <2>1. FreeSlots \subseteq FreeSlots'
      BY DEF FreeSlots
    <2> QED BY <1>3, <2>1, FS_Subset, FS_CardinalityType, SlotsFinite
  <1>5. Cardinality(FreeSlots) >= Cardinality(A)
    BY DEF RoomInv
  <1>6. B = {t \in Threads : Allocating(t)}'
    OBVIOUS
  <1>7. Cardinality(FreeSlots') >= Cardinality(B)
    <2> HIDE DEF A, B
    <2> QED BY <1>1, <1>2, <1>4, <1>5
  <1> QED BY <1>6, <1>7 DEF RoomInv

\* The blocks that are out, and their references, stay as they are.
LEMMA OwnKept ==
  ASSUME NEW p \in Pools, OwnInv(p), held' = held, nRef' = nRef, ready \subseteq ready',
         NEW t \in Threads, NEW r,
         \A u \in Threads : thread'[u] = IF u = t THEN r ELSE thread[u],
         Returning(t) <=> r.pc \in {"lockfree", "link", "publish"},
         Returning(t) => r.block = thread[t].block /\ r.pool = Pool(t),
         r.pc # "publish" /\ thread[t].pc # "publish"
  PROVE  OwnInv(p)' /\ \A b : Out(b)' <=> Out(b)
  <1>1. \A u \in Threads : Returning(u)' <=> Returning(u)
    BY DEF Returning
  <1>2. \A u \in Threads : Returning(u) => thread'[u].block = thread[u].block /\ Pool(u)' = Pool(u)
    BY DEF Pool
  <1>3. \A u \in Threads : (thread'[u].pc = "publish" <=> thread[u].pc = "publish")
    OBVIOUS
  <1>4. \A b : Out(b)' <=> Out(b)
    BY <1>1, <1>2 DEF Out
  <1>5. \A u \in Threads : thread[u].pc = "publish" => thread'[u].block = thread[u].block
    OBVIOUS
  <1> QED BY <1>1, <1>2, <1>3, <1>4, <1>5 DEF OwnInv

LEMMA PathKept ==
  ASSUME NEW p \in Pools, PathInv(p), head'[p] = head[p],
         \A b \in Blocks(p) : (Out(b)' <=> Out(b)) /\ (Out(b) \/ next'[b] = next[b])
  PROVE  PathInv(p)'
  <1>1. PICK n \in Nat : \E f \in [1..n -> Blocks(p)] : IsPath(p, n, f)
    BY DEF PathInv
  <1>2. PICK f \in [1..n -> Blocks(p)] : IsPath(p, n, f)
    BY <1>1
  <1>3. IsPath(p, n, f)'
    BY <1>2 DEF IsPath
  <1> QED BY <1>3 DEF PathInv

\* Two threads are never inside a chain.
LEMMA AloneInChain ==
  ASSUME PoolInv, ~Racing, NEW t \in Threads, NEW u \in Threads, Pool(t) = Pool(u),
         thread[t].pc \in {"unlink", "publish"}, thread[u].pc \in {"unlink", "publish"}
  PROVE  t = u
  <1>1. CASE Pool(t) = "obj"
    BY <1>1 DEF Racing, InChain
  <1>2. CASE Pool(t) # "obj"
    <2>1. mutex[Pool(t)] = {t} /\ mutex[Pool(u)] = {u}
      BY <1>2 DEF PoolInv, MutexInv, MutexOK, Pool
    <2> QED BY <2>1
  <1> QED BY <1>1, <1>2

LEMMA HeadKept ==
  ASSUME PoolInv, NEW p \in ready, NEW t \in Threads, NEW r,
         \A u \in Threads : thread'[u] = IF u = t THEN r ELSE thread[u],
         head'[p] = head[p],
         \A b \in Blocks(p) :
           next'[b] = next[b] \/ (Returning(t) /\ Pool(t) = p /\ thread[t].block = b),
         r.pool = p /\ r.pc = "unlink" => r.block = head[p] /\ head[p] # None,
         r.pool = p /\ r.pc = "publish" => next'[r.block] = head[p]
  PROVE  HeadInv(p)'
  <1>1. p \in Pools
    BY TypeParts DEF PoolInv, ChainTypes
  <1>2. ASSUME NEW u \in Threads, u # t, thread[u].pool = p, thread[u].pc = "publish"
        PROVE  next'[thread[u].block] = head[p]
    <2>1. thread[u].block \in Blocks(p) /\ Returning(u)
      BY <1>2 DEF PoolInv, StageInv, StageOK, Returning
    <2>2. ~(Returning(t) /\ Pool(t) = p /\ thread[t].block = thread[u].block)
      BY <1>1, <1>2, <2>1 DEF PoolInv, OwnInv
    <2>3. next[thread[u].block] = head[p]
      BY <1>2 DEF PoolInv, HeadInv, Pool
    <2> QED BY <2>1, <2>2, <2>3
  <1>3. \A u \in Threads : u # t /\ thread[u].pool = p /\ thread[u].pc = "unlink" =>
          thread[u].block = head[p] /\ head[p] # None
    BY DEF PoolInv, HeadInv, Pool
  <1> QED BY <1>2, <1>3 DEF HeadInv, Pool

\* A pool without memory has no block out.
LEMMA NotReady ==
  ASSUME PoolInv, NEW p \in Pools, p \notin ready
  PROVE  /\ \A b \in Blocks(p) : ~Out(b)
         /\ p # "obj"
         /\ \A t \in Threads : Pool(t) = p => thread[t].pc \in {"idle", "lock"}
  <1>1. \A s \in 1..MaxHeld : held[s].block \notin Blocks(p)
    BY DEF PoolInv, OwnInv
  <1>2. \A t \in Threads : Pool(t) = p => thread[t].pc \in {"idle", "lock"}
    BY DEF PoolInv, StageInv, StageOK, Pool
  <1>3. \A t \in Threads : Returning(t) => Pool(t) \in Pools \ {p} /\ thread[t].block \in Blocks(Pool(t))
    BY <1>2 DEF PoolInv, StageInv, StageOK, Pool, Returning
  <1>4. \A t \in Threads : Returning(t) => thread[t].block \notin Blocks(p)
    BY <1>3, BlockFacts
  <1> QED BY <1>1, <1>2, <1>4 DEF Out, PoolInv

-----------------------------------------------------------------------------
(* The steps that allocate *)

LEMMA NewNext ==
  ASSUME PoolInv, ~Racing, NEW t \in Threads, NEW p \in Pools \cup {"heap"}, NEW size \in Sizes \cup {ObjSize},
         p \in Pools => nSize(p) >= size, New(t, p, size), raced' = Racing'
  PROVE  PoolInv'
  <1> DEFINE r == [Idle EXCEPT !.pc = IF p = "heap" THEN "malloc" ELSE "lock",
                               !.pool = p, !.size = size]
  <1>1. /\ thread[t].pc = "idle" /\ Room /\ Become(t, r)
        /\ UNCHANGED <<ready, head, next, nRef, mutex, held>>
    BY DEF New, At, poolVars
  <1>2. /\ r \in ThreadStates /\ r.pc = (IF p = "heap" THEN "malloc" ELSE "lock")
        /\ r.pool = p /\ r.size = size /\ r.block = None
    BY DEF Idle, ThreadStates
  <1>3. size > 0 /\ p # "none" /\ "heap" \notin Pools
    BY SizeFacts DEF Pools, MemPools
  <1> HIDE DEF r
  <1>4. /\ TypeOK' /\ "obj" \in ready' /\ StageInv' /\ MutexInv' /\ RaceInv'
        /\ \A u \in Threads : thread'[u] = IF u = t THEN r ELSE thread[u]
    <2>1. HeldTypes' /\ ChainTypes' /\ mutex' \in [Pools -> SUBSET Threads]
      BY <1>1, TypeParts DEF PoolInv, HeldTypes, ChainTypes, LargeEnough
    <2>2. StageOK(r, ready') /\ MutexOK(t, r, mutex')
      BY <1>2, <1>3 DEF StageOK, MutexOK
    <2> QED BY <1>1, <1>2, <2>1, <2>2, StepOf
  <1>9. RoomInv'
    <2> DEFINE A == {u \in Threads : Allocating(u)}
               B == {u \in Threads : Allocating(u)'}
    <2>1. IsFiniteSet(A) /\ Cardinality(A) \in Nat /\ Cardinality(FreeSlots) \in Nat
      BY SlotsFinite
    <2>2. thread[t].size = 0
      BY <1>1 DEF PoolInv, StageInv, StageOK
    <2>3. B = A \cup {t} /\ t \notin A
      BY <1>2, <1>3, <1>4, <2>2 DEF Allocating
    <2>4. Cardinality(FreeSlots) > Cardinality(A)
      BY <1>1 DEF Room, Allocating
    <2>5. FreeSlots' = FreeSlots
      BY <1>1 DEF FreeSlots
    <2>6. B = {u \in Threads : Allocating(u)}'
      OBVIOUS
    <2> HIDE DEF A, B
    <2>7. Cardinality(B) = Cardinality(A) + 1
      BY <2>1, <2>3, FS_AddElement
    <2>8. Cardinality(FreeSlots') >= Cardinality(B)
      BY <2>1, <2>4, <2>5, <2>7
    <2> QED BY <1>1, <2>6, <2>8 DEF PoolInv, RoomInv
  <1>10. ASSUME NEW q \in Pools PROVE OwnInv(q)' /\ \A b : Out(b)' <=> Out(b)
    BY <1>1, <1>2, <1>4, OwnKept DEF PoolInv, Returning
  <1>11. ASSUME NEW q \in ready' PROVE PathInv(q)' /\ HeadInv(q)'
    <2>1. q \in ready /\ q \in Pools
      BY <1>1, TypeParts DEF PoolInv, ChainTypes
    <2>2. PathInv(q)'
      BY <1>1, <1>10, <2>1, PathKept DEF PoolInv
    <2>3. HeadInv(q)'
      BY <1>1, <1>2, <1>4, <2>1 DEF PoolInv, HeadInv, Pool
    <2> QED BY <2>2, <2>3
  <1> QED BY <1>4, <1>9, <1>10, <1>11 DEF PoolInv

LEMMA LockNext ==
  ASSUME PoolInv, ~Racing, NEW t \in Threads, Lock(t), raced' = Racing'
  PROVE  PoolInv'
  <1>1. PICK r : r = [thread[t] EXCEPT !.pc = "read"]
    OBVIOUS
  <1>2. PICK p : p = Pool(t)
    OBVIOUS
  <1>3. /\ thread[t].pc = "lock" /\ Become(t, r) /\ mutex[p] = {}
        /\ mutex' = [mutex EXCEPT ![p] = {t}] /\ ready' = ready \cup {p}
        /\ p \in ready => UNCHANGED <<head, next>>
        /\ p \notin ready =>
             /\ head' = [head EXCEPT ![p] = <<p, 0>>]
             /\ next' = [b \in PoolBlocks |-> IF b[1] = p THEN initMemory(b) ELSE next[b]]
        /\ UNCHANGED <<nRef, held>>
    BY <1>1, <1>2 DEF Lock, At, Acquire
  <1>4. thread[t] \in ThreadStates /\ StageOK(thread[t], ready)
    BY TypeParts DEF PoolInv, StageInv
  <1>5. /\ r \in ThreadStates /\ r.pc = "read" /\ r.pool = p /\ thread[t].pool = p
        /\ r.size = thread[t].size /\ r.block = None
    BY <1>1, <1>2, <1>3, <1>4 DEF ThreadStates, StageOK, Pool
  <1>6. p \in Pools
    BY <1>2, <1>3, <1>4 DEF StageOK, Pool
  <1>7. /\ TypeOK' /\ "obj" \in ready' /\ StageInv' /\ MutexInv' /\ RaceInv'
        /\ \A u \in Threads : thread'[u] = IF u = t THEN r ELSE thread[u]
    <2>1. HeldTypes /\ ChainTypes /\ mutex \in [Pools -> SUBSET Threads]
      BY TypeParts DEF PoolInv
    <2>2. HeldTypes'
      BY <1>3, <2>1 DEF HeldTypes, LargeEnough
    <2>3. ChainTypes'
      <3>1. CASE p \in ready
        BY <1>3, <1>6, <2>1, <3>1 DEF ChainTypes
      <3>2. CASE p \notin ready
        <4>1. <<p, 0>> \in PoolBlocks
          BY <1>6, BlockFacts
        <4>2. \A b \in PoolBlocks : initMemory(b) \in PoolBlocks \cup {None}
          <5>1. ASSUME NEW b \in PoolBlocks, b[2] + 1 < BlockNum(b[1])
                PROVE  <<b[1], b[2] + 1>> \in PoolBlocks
            <6>1. b[1] \in Pools /\ b[2] + 1 \in 0..BlockNum(b[1]) - 1
              BY <5>1, BlockFacts
            <6>2. <<b[1], b[2] + 1>> \in Blocks(b[1])
              BY <6>1, BlockFacts
            <6> QED BY <6>1, <6>2, BlockFacts
          <5> QED BY <5>1 DEF initMemory
        <4> QED BY <1>3, <1>6, <2>1, <3>2, <4>1, <4>2 DEF ChainTypes
      <3> QED BY <3>1, <3>2
    <2>4. /\ mutex' \in [Pools -> SUBSET Threads]
          /\ \A q \in Pools, u \in Threads \ {t} : mutex[q] = {u} => mutex'[q] = {u}
      BY <1>3, <1>6, <2>1
    <2>5. mutex'[p] = {t}
      BY <1>3, <1>6, <2>1
    <2>6. StageOK(r, ready') /\ MutexOK(t, r, mutex')
      BY <1>3, <1>4, <1>5, <1>6, <2>5 DEF StageOK, MutexOK
    <2> QED BY <1>3, <1>5, <2>2, <2>3, <2>4, <2>6, StepOf
  <1>8. RoomInv'
    <2>1. \A u \in Threads : Allocating(u)' => Allocating(u)
      BY <1>5, <1>7 DEF Allocating
    <2>2. \A s \in 1..MaxHeld : held'[s] = held[s]
      BY <1>3
    <2> QED BY <2>1, <2>2, RoomKept DEF PoolInv
  <1>9. \A q \in Pools : OwnInv(q)' /\ \A b : Out(b)' <=> Out(b)
    <2>1. ~Returning(t)
      BY <1>3 DEF Returning
    <2> QED BY <1>3, <1>5, <1>7, <2>1, OwnKept DEF PoolInv
  <1>10. ASSUME NEW q \in ready PROVE PathInv(q)' /\ HeadInv(q)'
    <2>1. q \in Pools
      BY TypeParts DEF PoolInv, ChainTypes
    <2>2. head'[q] = head[q] /\ \A b \in Blocks(q) : next'[b] = next[b]
      <3>1. CASE p \in ready
        BY <1>3, <3>1
      <3>2. CASE p \notin ready
        BY <1>3, <1>6, <2>1, <3>2, BlockFacts, TypeParts DEF PoolInv, ChainTypes
      <3> QED BY <3>1, <3>2
    <2>3. PathInv(q)'
      BY <1>9, <2>1, <2>2, PathKept DEF PoolInv
    <2> QED BY <1>5, <1>7, <2>2, <2>3, HeadKept
  <1>11. ASSUME p \notin ready PROVE PathInv(p)' /\ HeadInv(p)'
    <2>1. p \in MemPools /\ \A b \in Blocks(p) : ~Out(b)
      BY <1>6, <1>11, NotReady DEF Pools
    <2>2. head'[p] = <<p, 0>> /\ \A b \in Blocks(p) : next'[b] = initMemory(b)
      BY <1>3, <1>6, <1>11, BlockFacts, TypeParts DEF PoolInv, ChainTypes
    <2>3. PICK n \in Nat : \E f \in [1..n -> Blocks(p)] : MemChain(p, n, f)
      BY <2>1, NewChain
    <2>4. PICK f \in [1..n -> Blocks(p)] : MemChain(p, n, f)
      BY <2>3
    <2>5. IsPath(p, n, f)'
      BY <1>6, <1>9, <2>1, <2>2, <2>4, SMTT(30) DEF IsPath, MemChain
    <2>6. PathInv(p)'
      BY <2>5 DEF PathInv
    <2>7. HeadInv(p)'
      BY <1>5, <1>6, <1>7, <1>11, NotReady DEF HeadInv, Pool
    <2> QED BY <2>6, <2>7
  <1> QED BY <1>3, <1>7, <1>8, <1>9, <1>10, <1>11 DEF PoolInv

LEMMA ReadHeadNext ==
  ASSUME PoolInv, ~Racing, NEW t \in Threads, ReadHead(t), raced' = Racing'
  PROVE  PoolInv'
  <1>1. PICK p : p = Pool(t)
    OBVIOUS
  <1>2. PICK r : r = [thread[t] EXCEPT !.block = head[p],
                                       !.pc = IF head[p] = None THEN "malloc" ELSE "unlink"]
    OBVIOUS
  <1>3. /\ thread[t].pc = "read" /\ Become(t, r)
        /\ UNCHANGED <<ready, head, next, nRef, mutex, held>>
    BY <1>1, <1>2 DEF ReadHead, At, poolVars
  <1>4. thread[t] \in ThreadStates /\ StageOK(thread[t], ready) /\ MutexOK(t, thread[t], mutex)
    BY TypeParts DEF PoolInv, StageInv, MutexInv
  <1>5. HeldTypes /\ ChainTypes /\ mutex \in [Pools -> SUBSET Threads]
    BY TypeParts DEF PoolInv
  <1>6. p \in Pools /\ p \in ready /\ thread[t].pool = p /\ mutex[p] = {t}
    BY <1>1, <1>3, <1>4 DEF StageOK, MutexOK, Pool
  <1>7. /\ r \in ThreadStates /\ r.pc = (IF head[p] = None THEN "malloc" ELSE "unlink")
        /\ r.pool = p /\ r.size = thread[t].size /\ r.block = head[p]
    BY <1>2, <1>4, <1>5, <1>6 DEF ThreadStates, ChainTypes
  <1>8. /\ TypeOK' /\ "obj" \in ready' /\ StageInv' /\ MutexInv' /\ RaceInv'
        /\ \A u \in Threads : thread'[u] = IF u = t THEN r ELSE thread[u]
    <2>1. HeldTypes' /\ ChainTypes'
      BY <1>3, <1>5 DEF HeldTypes, ChainTypes, LargeEnough
    <2>2. StageOK(r, ready') /\ MutexOK(t, r, mutex')
      BY <1>3, <1>4, <1>6, <1>7 DEF StageOK, MutexOK
    <2> QED BY <1>3, <1>5, <1>7, <2>1, <2>2, StepOf
  <1>9. RoomInv'
    <2>1. \A u \in Threads : Allocating(u)' => Allocating(u)
      BY <1>7, <1>8 DEF Allocating
    <2>2. \A s \in 1..MaxHeld : held'[s] = held[s]
      BY <1>3
    <2> QED BY <2>1, <2>2, RoomKept DEF PoolInv
  <1>10. \A q \in Pools : OwnInv(q)' /\ \A b : Out(b)' <=> Out(b)
    <2>1. ~Returning(t) /\ r.pc \notin {"lockfree", "link", "publish"} /\ thread[t].pc # "publish"
      BY <1>3, <1>7 DEF Returning
    <2> QED BY <1>3, <1>8, <2>1, OwnKept DEF PoolInv
  <1>11. ASSUME NEW q \in ready PROVE PathInv(q)' /\ HeadInv(q)'
    <2>1. q \in Pools
      BY <1>5 DEF ChainTypes
    <2>2. PathInv(q)'
      BY <1>3, <1>10, <2>1, PathKept DEF PoolInv
    <2> QED BY <1>3, <1>7, <1>8, <2>2, HeadKept
  <1> QED BY <1>3, <1>8, <1>9, <1>10, <1>11 DEF PoolInv

\* An allocation ends: its slot was free.
LEMMA ReturnFacts ==
  ASSUME PoolInv, NEW t \in Threads, Allocating(t), NEW b \in PoolBlocks \cup HeapBlocks, Return(t, b)
  PROVE  /\ \E m \in 1..MaxHeld :
              /\ held[m].block = None
              /\ \A s \in 1..MaxHeld :
                   held'[s] = IF s = m THEN [size |-> thread[t].size, block |-> b] ELSE held[s]
         /\ held' \in [1..MaxHeld ->
              [size : Sizes \cup {0, ObjSize}, block : PoolBlocks \cup HeapBlocks \cup {None}]]
         /\ mutex' \in [Pools -> SUBSET Threads]
         /\ \A p \in Pools, u \in Threads \ {t} : mutex[p] = {u} => mutex'[p] = {u}
         /\ RoomInv'
  <1> DEFINE A == {u \in Threads : Allocating(u)}
             B == {u \in Threads : Allocating(u)'}
  <1>1. PICK new : new = [size |-> thread[t].size, block |-> b]
    OBVIOUS
  <1>2. PICK m : m = Min(FreeSlots)
    OBVIOUS
  <1>3. /\ held' = [held EXCEPT ![m] = new] /\ Become(t, Idle)
        /\ mutex' = [p \in Pools |-> mutex[p] \ {t}]
    BY <1>1, <1>2 DEF Return, Release
  <1>4. HeldTypes /\ mutex \in [Pools -> SUBSET Threads] /\ thread \in [Threads -> ThreadStates]
    BY TypeParts DEF PoolInv
  <1>5. /\ IsFiniteSet(A) /\ Cardinality(A) \in Nat /\ t \in A
        /\ IsFiniteSet(FreeSlots) /\ Cardinality(FreeSlots) \in Nat
        /\ Cardinality(FreeSlots) >= Cardinality(A)
    BY SlotsFinite DEF PoolInv, RoomInv
  <1>6. m \in FreeSlots
    <2>1. Cardinality(A) # 0
      <3> HIDE DEF A
      <3> QED BY <1>5, FS_EmptySet
    <2>2. FreeSlots # {} /\ FreeSlots \in SUBSET Nat
      <3>1. Cardinality(FreeSlots) # 0
        <4> HIDE DEF A
        <4> QED BY <1>5, <2>1
      <3> QED BY <3>1, FS_EmptySet DEF FreeSlots
    <2> QED BY <1>2, <2>2, LeastNatural
  <1>7. m \in 1..MaxHeld /\ held[m] = NoAlloc
    BY <1>6 DEF FreeSlots
  <1>8. held[m].block = None
    BY <1>7 DEF NoAlloc
  <1>9. new \in [size : Sizes \cup {0, ObjSize}, block : PoolBlocks \cup HeapBlocks \cup {None}]
    BY <1>1, <1>4 DEF ThreadStates
  <1>10. /\ held' \in [1..MaxHeld ->
              [size : Sizes \cup {0, ObjSize}, block : PoolBlocks \cup HeapBlocks \cup {None}]]
         /\ \A s \in 1..MaxHeld : held'[s] = IF s = m THEN new ELSE held[s]
    BY <1>3, <1>4, <1>9 DEF HeldTypes
  <1>11. new # NoAlloc
    <2>1. new.size > 0
      BY <1>1 DEF Allocating
    <2> QED BY <2>1 DEF NoAlloc
  <1>12. RoomInv'
    <2>1. B = A \ {t}
      BY <1>3, <1>4 DEF Become, Allocating, Idle
    <2>2. FreeSlots' = FreeSlots \ {m}
      <3>1. \A s : s \in FreeSlots' <=> s \in FreeSlots /\ s # m
        BY <1>7, <1>10, <1>11 DEF FreeSlots
      <3> QED BY <3>1
    <2>3. B = {u \in Threads : Allocating(u)}'
      OBVIOUS
    <2> HIDE DEF A, B
    <2>4. Cardinality(B) = Cardinality(A) - 1
      BY <1>5, <2>1, FS_RemoveElement
    <2>5. Cardinality(FreeSlots') = Cardinality(FreeSlots) - 1
      BY <1>5, <1>6, <2>2, FS_RemoveElement
    <2>6. Cardinality(FreeSlots') >= Cardinality(B)
      BY <1>5, <2>4, <2>5
    <2>7. \A s \in 1..MaxHeld : held'[s] = NoAlloc \/ held'[s].block # None
      <3>1. new.block # None
        BY <1>1, BlockFacts
      <3> QED BY <1>10, <3>1 DEF PoolInv, RoomInv
    <2> QED BY <2>3, <2>6, <2>7 DEF RoomInv
  <1>13. /\ mutex' \in [Pools -> SUBSET Threads]
         /\ \A p \in Pools, u \in Threads \ {t} : mutex[p] = {u} => mutex'[p] = {u}
    BY <1>3, <1>4
  <1> QED BY <1>1, <1>7, <1>8, <1>10, <1>12, <1>13

\* It has taken a block that was not out, or one of the heap.
LEMMA OwnTaken ==
  ASSUME PoolInv, NEW t \in Threads, NEW b \in PoolBlocks \cup HeapBlocks, NEW m \in 1..MaxHeld,
         ~Returning(t), held[m].block = None, held'[m].block = b,
         \A s \in 1..MaxHeld : s # m => held'[s] = held[s],
         \A u \in Threads : thread'[u] = IF u = t THEN Idle ELSE thread[u],
         b \in PoolBlocks => ~Out(b) /\ b \in Usable(b[1]) /\ b[1] \in ready,
         \A c \in PoolBlocks : nRef'[c] = IF c = b THEN 1 ELSE nRef[c],
         ready \subseteq ready'
  PROVE  /\ \A p \in Pools : OwnInv(p)'
         /\ \A c \in PoolBlocks : Out(c)' <=> Out(c) \/ c = b
  <1>1. \A u \in Threads : Returning(u)' <=> Returning(u)
    BY DEF Returning, Idle
  <1>2. \A u \in Threads : Returning(u) => thread'[u] = thread[u] /\ Pool(u)' = Pool(u)
    BY DEF Pool
  <1>3. \A u \in Threads : thread'[u].pc = "publish" <=> thread[u].pc = "publish"
    BY DEF Returning, Idle
  <1>4. \A c \in PoolBlocks : Out(c)' <=> Out(c) \/ c = b
    <2>1. \A c \in PoolBlocks : c # None
      BY BlockFacts
    <2>2. \A c \in PoolBlocks : (\E s \in 1..MaxHeld : held'[s].block = c)
                                  <=> (\E s \in 1..MaxHeld : held[s].block = c) \/ c = b
      BY <2>1
    <2> QED BY <1>1, <1>2, <2>2 DEF Out
  <1>5. ASSUME NEW p \in Pools PROVE OwnInv(p)'
    <2>1. OwnInv(p) /\ \A c \in Blocks(p) : c \in PoolBlocks /\ c[1] = p
      BY BlockFacts DEF PoolInv
    <2>2. b \in Blocks(p) => ~Out(b) /\ b \in Usable(p) /\ p \in ready
      BY <2>1
    <2>3. \A s \in 1..MaxHeld :
            held'[s].block \in Blocks(p) => p \in ready' /\ held'[s].block \in Usable(p)
      BY <2>1, <2>2 DEF OwnInv
    <2>4. \A s, q \in 1..MaxHeld :
            held'[s].block \in Blocks(p) /\ held'[s].block = held'[q].block => s = q
      BY <2>1, <2>2 DEF OwnInv, Out
    <2>5. \A u \in Threads : Returning(u) /\ Pool(u) = p => thread[u].block \in Blocks(p)
      BY DEF PoolInv, StageInv, StageOK, Returning, Pool
    <2>6. \A s \in 1..MaxHeld, u \in Threads :
            Returning(u) /\ Pool(u) = p => held'[s].block # thread[u].block
      BY <2>1, <2>2, <2>5 DEF OwnInv, Out
    <2>7. ASSUME NEW c \in Blocks(p)
          PROVE  nRef'[c] = IF Out(c)' /\ \A u \in Threads :
                                 thread'[u].pc = "publish" => thread'[u].block # c THEN 1 ELSE 0
      <3>1. \A u \in Threads : thread[u].pc = "publish" => thread'[u] = thread[u] /\ Returning(u)
        BY DEF Returning
      <3>2. CASE c = b
        <4>1. \A u \in Threads : thread'[u].pc = "publish" => thread'[u].block # b
          BY <1>3, <2>2, <3>1, <3>2 DEF Out
        <4> QED BY <1>4, <2>1, <3>2, <4>1
      <3>3. CASE c # b
        BY <1>3, <1>4, <2>1, <3>1, <3>3 DEF OwnInv
      <3> QED BY <3>2, <3>3
    <2> QED BY <1>1, <1>2, <2>1, <2>3, <2>4, <2>6, <2>7 DEF OwnInv
  <1> QED BY <1>4, <1>5

LEMMA UnlinkNext ==
  ASSUME PoolInv, ~Racing, NEW t \in Threads, Unlink(t), raced' = Racing'
  PROVE  PoolInv'
  <1>1. PICK p, b : p = Pool(t) /\ b = thread[t].block
    OBVIOUS
  <1>2. thread[t].pc = "unlink" /\ Return(t, b) /\ UNCHANGED <<ready, next>>
    BY <1>1 DEF Unlink, At
  <1>3. /\ thread[t] \in ThreadStates /\ StageOK(thread[t], ready)
        /\ HeldTypes /\ ChainTypes /\ mutex \in [Pools -> SUBSET Threads]
    BY TypeParts DEF PoolInv, StageInv
  <1>4. p \in Pools /\ p \in ready /\ thread[t].pool = p /\ Allocating(t) /\ ~Returning(t)
    BY <1>1, <1>2, <1>3 DEF StageOK, Pool, Allocating, Returning
  <1>5. b = head[p] /\ b # None
    BY <1>1, <1>2, <1>4 DEF PoolInv, HeadInv
  <1>6. head' = [head EXCEPT ![p] = next[b]]
    BY <1>1, <1>5 DEF Unlink
  <1>7. PICK n \in Nat : \E f \in [1..n -> Blocks(p)] : IsPath(p, n, f)
    BY <1>4 DEF PoolInv, PathInv
  <1>8. PICK f \in [1..n -> Blocks(p)] : IsPath(p, n, f)
    BY <1>7
  <1>9. n > 0 /\ f[1] = b /\ b \in Blocks(p) /\ b \in Usable(p) /\ ~Out(b)
    BY <1>5, <1>8 DEF IsPath
  <1>10. b \in PoolBlocks /\ b[1] = p
    BY <1>4, <1>9, BlockFacts
  <1>11. /\ nRef' \in [PoolBlocks -> Int]
         /\ \A c \in PoolBlocks : nRef'[c] = IF c = b THEN 1 ELSE nRef[c]
    <2>1. nRef[b] = 0
      BY <1>4, <1>9 DEF PoolInv, OwnInv
    <2>2. nRef' = [nRef EXCEPT ![b] = IF p = "obj" THEN nRef[b] + 1 ELSE 1]
      BY <1>1 DEF Unlink
    <2> QED BY <1>3, <1>10, <2>1, <2>2 DEF ChainTypes
  <1>12. PICK m \in 1..MaxHeld :
           /\ held[m].block = None
           /\ \A s \in 1..MaxHeld :
                held'[s] = IF s = m THEN [size |-> thread[t].size, block |-> b] ELSE held[s]
    BY <1>2, <1>4, <1>10, ReturnFacts
  <1>13. /\ held' \in [1..MaxHeld ->
              [size : Sizes \cup {0, ObjSize}, block : PoolBlocks \cup HeapBlocks \cup {None}]]
         /\ mutex' \in [Pools -> SUBSET Threads] /\ RoomInv'
         /\ \A q \in Pools, u \in Threads \ {t} : mutex[q] = {u} => mutex'[q] = {u}
    BY <1>2, <1>4, <1>10, ReturnFacts
  <1>14. /\ TypeOK' /\ "obj" \in ready' /\ StageInv' /\ MutexInv' /\ RaceInv'
         /\ \A u \in Threads : thread'[u] = IF u = t THEN Idle ELSE thread[u]
    <2>1. HeldTypes'
      <3>1. LargeEnough([size |-> thread[t].size, block |-> b])
        BY <1>2, <1>3, <1>4, <1>10 DEF LargeEnough, StageOK
      <3> QED BY <1>3, <1>12, <1>13, <3>1 DEF HeldTypes, LargeEnough
    <2>2. ChainTypes'
      <3>1. head' \in [Pools -> PoolBlocks \cup {None}]
        BY <1>3, <1>6, <1>10 DEF ChainTypes
      <3> QED BY <1>2, <1>3, <1>11, <3>1 DEF ChainTypes
    <2>3. Idle \in ThreadStates /\ StageOK(Idle, ready') /\ MutexOK(t, Idle, mutex')
      BY DEF Idle, ThreadStates, StageOK, MutexOK, Pools, MemPools
    <2>4. Become(t, Idle)
      BY <1>2 DEF Return
    <2> QED BY <1>2, <1>13, <2>1, <2>2, <2>3, <2>4, StepOf
  <1>15. /\ \A q \in Pools : OwnInv(q)'
         /\ \A c \in PoolBlocks : Out(c)' <=> Out(c) \/ c = b
    <2>1. held'[m].block = b /\ \A s \in 1..MaxHeld : s # m => held'[s] = held[s]
      BY <1>12
    <2> QED BY <1>2, <1>4, <1>9, <1>10, <1>11, <1>12, <1>14, <2>1, OwnTaken, SMTT(30)
  <1>16. ASSUME NEW q \in ready, q # p PROVE PathInv(q)' /\ HeadInv(q)'
    <2>1. q \in Pools /\ head'[q] = head[q]
      BY <1>3, <1>6, <1>16 DEF ChainTypes
    <2>2. \A c \in Blocks(q) : c \in PoolBlocks /\ c # b
      BY <1>10, <1>16, <2>1, BlockFacts
    <2>3. PathInv(q)'
      BY <1>2, <1>15, <2>1, <2>2, PathKept DEF PoolInv
    <2>4. Idle.pc = "idle"
      BY DEF Idle
    <2> QED BY <1>2, <1>14, <2>1, <2>3, <2>4, HeadKept
  <1>17. PathInv(p)'
    <2> DEFINE g == [i \in 1..n - 1 |-> f[i + 1]]
    <2>1. n - 1 \in Nat /\ g \in [1..n - 1 -> Blocks(p)] /\ \A i \in 1..n - 1 : g[i] = f[i + 1]
      BY <1>9
    <2> HIDE DEF g
    <2>2. head'[p] = IF n - 1 = 0 THEN None ELSE g[1]
      <3>1. head'[p] = IF 1 = n THEN None ELSE f[1 + 1]
        BY <1>3, <1>4, <1>6, <1>8, <1>9 DEF ChainTypes, IsPath
      <3> QED BY <1>9, <2>1, <3>1
    <2>3. \A i, j \in 1..n - 1 : g[i] = g[j] => i = j
      BY <1>8, <2>1 DEF IsPath
    <2>4. \A i \in 1..n - 1 : next'[g[i]] = IF i = n - 1 THEN None ELSE g[i + 1]
      BY <1>2, <1>8, <2>1 DEF IsPath
    <2>5. ASSUME NEW c \in Blocks(p)
          PROVE  (\E i \in 1..n - 1 : g[i] = c) <=> c \in Usable(p) /\ ~Out(c)'
      <3>1. Out(c)' <=> Out(c) \/ c = b
        BY <1>4, <1>15, BlockFacts
      <3>2. (\E i \in 1..n : f[i] = c) <=> c \in Usable(p) /\ ~Out(c)
        BY <1>8 DEF IsPath
      <3>3. (\E i \in 1..n - 1 : g[i] = c) <=> (\E i \in 1..n : f[i] = c) /\ c # b
        <4>1. ASSUME NEW i \in 1..n - 1, g[i] = c PROVE (\E j \in 1..n : f[j] = c) /\ c # b
          BY <1>8, <1>9, <2>1, <4>1 DEF IsPath
        <4>2. ASSUME NEW j \in 1..n, f[j] = c, c # b PROVE \E i \in 1..n - 1 : g[i] = c
          <5>1. j - 1 \in 1..n - 1 /\ g[j - 1] = c
            BY <1>9, <2>1, <4>2
          <5> QED BY <5>1
        <4> QED BY <4>1, <4>2
      <3> QED BY <3>1, <3>2, <3>3
    <2>6. IsPath(p, n - 1, g)'
      BY <2>2, <2>3, <2>4, <2>5 DEF IsPath
    <2> QED BY <2>1, <2>6 DEF PathInv
  <1>18. HeadInv(p)'
    <2>1. \A u \in Threads \ {t} : thread[u].pool = p => thread[u].pc \notin {"unlink", "publish"}
      BY <1>1, <1>2, <1>4, AloneInChain DEF Pool
    <2> QED BY <1>14, <2>1 DEF HeadInv, Pool, Idle
  <1> QED BY <1>2, <1>13, <1>14, <1>15, <1>16, <1>17, <1>18 DEF PoolInv

\* malloc() finds a piece of the heap, because there is room.
LEMMA HeapHasRoom ==
  ASSUME PoolInv, NEW t \in Threads, Allocating(t)
  PROVE  AHeapBlock \in HeapBlocks
  <1> DEFINE Taken == {i \in 1..MaxHeld : <<"heap", i>> \in InUse}
             Full == (1..MaxHeld) \ FreeSlots
             Left == {i \in 1..MaxHeld : <<"heap", i>> \notin InUse}
  <1>1. FreeSlots # {}
    <2> DEFINE A == {u \in Threads : Allocating(u)}
    <2>1. /\ IsFiniteSet(A) /\ Cardinality(A) \in Nat /\ t \in A
          /\ Cardinality(FreeSlots) \in Nat /\ Cardinality(FreeSlots) >= Cardinality(A)
      BY SlotsFinite DEF PoolInv, RoomInv
    <2> HIDE DEF A
    <2>2. Cardinality(A) # 0
      BY <2>1, FS_EmptySet
    <2>3. Cardinality(FreeSlots) # 0
      BY <2>1, <2>2
    <2> QED BY <2>3, FS_EmptySet
  <1>2. IsFiniteSet(1..MaxHeld) /\ Cardinality(1..MaxHeld) = MaxHeld /\ MaxHeld \in Nat
    <2>1. MaxHeld \in Nat
      BY PoolAssumption
    <2>2. IsFiniteSet(1..MaxHeld) /\ Cardinality(1..MaxHeld) = IF 1 > MaxHeld THEN 0 ELSE MaxHeld - 1 + 1
      BY <2>1, FS_Interval
    <2> QED BY <2>1, <2>2
  <1>3. FreeSlots \subseteq 1..MaxHeld /\ IsFiniteSet(Full) /\ Full \subseteq 1..MaxHeld
    BY <1>2, FS_Subset DEF FreeSlots
  <1>4. Cardinality(Full) < MaxHeld /\ Cardinality(Full) \in Nat
    <2>1. Full # 1..MaxHeld
      BY <1>1, <1>3
    <2> HIDE DEF Full
    <2>2. Cardinality(Full) \in Nat /\ Cardinality(Full) <= MaxHeld /\ Cardinality(Full) # MaxHeld
      BY <1>2, <1>3, <2>1, FS_Subset, FS_CardinalityType
    <2> QED BY <1>2, <2>2
  <1>5. \A i \in Taken : \E s \in Full : held[s].block = <<"heap", i>>
    <2>1. NoAlloc.block # <<"heap", 1>> /\ \A i : <<"heap", i>> # None
      BY DEF NoAlloc, None
    <2>2. NoAlloc.block = None
      BY DEF NoAlloc
    <2> QED BY <2>1, <2>2 DEF InUse, FreeSlots
  <1>6. Cardinality(Taken) <= Cardinality(Full)
    <2> DEFINE slot == [i \in Taken |-> CHOOSE s \in Full : held[s].block = <<"heap", i>>]
    <2>1. \A i \in Taken : slot[i] \in Full /\ held[slot[i]].block = <<"heap", i>>
      BY <1>5
    <2>2. \A i, j \in Taken : slot[i] = slot[j] => i = j
      <3>1. \A i, j \in Taken : <<"heap", i>> = <<"heap", j>> => i = j
        OBVIOUS
      <3> HIDE DEF slot, Taken, Full
      <3> QED BY <2>1, <3>1
    <2>3. slot \in [Taken -> Full]
      BY <2>1
    <2> HIDE DEF slot, Taken, Full
    <2>4. slot \in Injection(Taken, Full)
      BY <2>2, <2>3 DEF Injection, IsInjective
    <2> QED BY <1>3, <2>4, FS_Injection
  <1>7. Left # {}
    <2> SUFFICES ASSUME Left = {} PROVE FALSE
      OBVIOUS
    <2>1. Taken = 1..MaxHeld
      OBVIOUS
    <2> HIDE DEF Full, Taken
    <2> QED BY <1>2, <1>4, <1>6, <2>1
  <1>8. Left \in SUBSET Nat
    OBVIOUS
  <1>9. Min(Left) \in Left
    <2> HIDE DEF Left
    <2> QED BY <1>7, <1>8, LeastNatural
  <1>10. AHeapBlock = <<"heap", Min(Left)>> /\ Min(Left) \in 1..MaxHeld
    BY <1>9 DEF AHeapBlock
  <1> HIDE DEF Left
  <1> QED BY <1>10 DEF HeapBlocks

LEMMA MallocNext ==
  ASSUME PoolInv, ~Racing, NEW t \in Threads, Malloc(t), raced' = Racing'
  PROVE  PoolInv'
  <1>1. PICK p : p = Pool(t)
    OBVIOUS
  <1>2. thread[t].pc = "malloc" /\ UNCHANGED <<ready, head, next, nRef>>
    BY DEF Malloc, At
  <1>3. /\ thread[t] \in ThreadStates /\ StageOK(thread[t], ready)
        /\ HeldTypes /\ ChainTypes /\ mutex \in [Pools -> SUBSET Threads]
    BY TypeParts DEF PoolInv, StageInv
  <1>4. thread[t].pool = p /\ thread[t].block = None /\ Allocating(t) /\ ~Returning(t)
    BY <1>1, <1>2, <1>3 DEF StageOK, Pool, Allocating, Returning
  <1>5. ChainTypes'
    BY <1>2, <1>3 DEF ChainTypes
  <1>6. CASE p = "obj" /\ szAlloc(ObjSize) # "heap"
    <2>1. PICK q : q = szAlloc(ObjSize)
      OBVIOUS
    <2>2. PICK r : r = [thread[t] EXCEPT !.pc = "lock", !.pool = q]
      OBVIOUS
    <2>3. Become(t, r) /\ UNCHANGED <<mutex, held>>
      BY <1>1, <1>6, <2>1, <2>2 DEF Malloc
    <2>4. q \in MemPools /\ nSize(q) >= ObjSize /\ nSize("obj") = ObjSize /\ "obj" \in Pools
      BY <1>6, <2>1, SizeFacts DEF Pools
    <2>5. /\ r \in ThreadStates /\ r.pc = "lock" /\ r.pool = q
          /\ r.size = thread[t].size /\ r.block = None
      BY <1>3, <1>4, <2>2, <2>4 DEF ThreadStates, Pools
    <2>6. /\ TypeOK' /\ "obj" \in ready' /\ StageInv' /\ MutexInv' /\ RaceInv'
          /\ \A u \in Threads : thread'[u] = IF u = t THEN r ELSE thread[u]
      <3>1. HeldTypes'
        BY <1>3, <2>3 DEF HeldTypes, LargeEnough
      <3>2. nSize(q) >= thread[t].size
        <4>1. ObjSize >= thread[t].size
          BY <1>2, <1>3, <1>4, <1>6, <2>4 DEF StageOK
        <4>2. thread[t].size \in Sizes \cup {0, ObjSize}
          BY <1>3 DEF ThreadStates
        <4>3. thread[t].size \in Int /\ ObjSize \in Int
          <5>1. \A n \in Sizes \cup {0, ObjSize} : n \in Int
            BY SizeFacts
          <5> QED BY <4>2, <5>1, Zenon
        <4>4. nSize(q) = 64 \/ nSize(q) = 128
          BY <2>4, SizeFacts DEF MemPools
        <4> QED BY <2>4, <4>1, <4>3, <4>4
      <3>3. StageOK(r, ready') /\ MutexOK(t, r, mutex')
        BY <1>2, <1>3, <2>4, <2>5, <3>2 DEF StageOK, MutexOK, MemPools, Pools
      <3> QED BY <1>2, <1>3, <1>5, <2>3, <2>5, <3>1, <3>3, StepOf
    <2>7. RoomInv'
      <3>1. \A u \in Threads : Allocating(u)' => Allocating(u)
        BY <2>5, <2>6 DEF Allocating
      <3>2. \A s \in 1..MaxHeld : held'[s] = held[s]
        BY <2>3
      <3> QED BY <3>1, <3>2, RoomKept DEF PoolInv
    <2>8. \A x \in Pools : OwnInv(x)' /\ \A b : Out(b)' <=> Out(b)
      BY <1>2, <1>4, <2>3, <2>5, <2>6, OwnKept DEF PoolInv
    <2>9. ASSUME NEW x \in ready PROVE PathInv(x)' /\ HeadInv(x)'
      <3>1. x \in Pools
        BY <1>3 DEF ChainTypes
      <3>2. PathInv(x)'
        BY <1>2, <2>8, <3>1, PathKept DEF PoolInv
      <3> QED BY <1>2, <2>5, <2>6, <3>2, HeadKept
    <2> QED BY <1>2, <2>6, <2>7, <2>8, <2>9 DEF PoolInv
  <1>7. CASE ~(p = "obj" /\ szAlloc(ObjSize) # "heap")
    <2>1. PICK b : b = AHeapBlock
      OBVIOUS
    <2>2. Return(t, b)
      BY <1>1, <1>7, <2>1 DEF Malloc
    <2>3. b \in HeapBlocks
      BY <1>4, <2>1, HeapHasRoom
    <2>4. b \notin PoolBlocks
      BY <2>3, BlockFacts
    <2>5. PICK m \in 1..MaxHeld :
            /\ held[m].block = None
            /\ \A s \in 1..MaxHeld :
                 held'[s] = IF s = m THEN [size |-> thread[t].size, block |-> b] ELSE held[s]
      BY <1>4, <2>2, <2>3, ReturnFacts
    <2>6. /\ held' \in [1..MaxHeld ->
                [size : Sizes \cup {0, ObjSize}, block : PoolBlocks \cup HeapBlocks \cup {None}]]
          /\ mutex' \in [Pools -> SUBSET Threads] /\ RoomInv'
          /\ \A q \in Pools, u \in Threads \ {t} : mutex[q] = {u} => mutex'[q] = {u}
      BY <1>4, <2>2, <2>3, ReturnFacts
    <2>7. /\ TypeOK' /\ "obj" \in ready' /\ StageInv' /\ MutexInv' /\ RaceInv'
          /\ \A u \in Threads : thread'[u] = IF u = t THEN Idle ELSE thread[u]
      <3>1. HeldTypes'
        BY <1>3, <2>4, <2>5, <2>6 DEF HeldTypes, LargeEnough
      <3>2. Idle \in ThreadStates /\ StageOK(Idle, ready') /\ MutexOK(t, Idle, mutex')
        BY DEF Idle, ThreadStates, StageOK, MutexOK, Pools, MemPools
      <3>3. Become(t, Idle)
        BY <2>2 DEF Return
      <3> QED BY <1>2, <1>5, <2>6, <3>1, <3>2, <3>3, StepOf
    <2>8. /\ \A q \in Pools : OwnInv(q)'
          /\ \A c \in PoolBlocks : Out(c)' <=> Out(c)
      <3>1. held'[m].block = b /\ \A s \in 1..MaxHeld : s # m => held'[s] = held[s]
        BY <2>5
      <3>2. \A c \in PoolBlocks : c # b /\ nRef'[c] = nRef[c]
        BY <1>2, <2>4
      <3>3. /\ \A q \in Pools : OwnInv(q)'
            /\ \A c \in PoolBlocks : Out(c)' <=> Out(c) \/ c = b
        BY <1>2, <1>4, <2>3, <2>4, <2>5, <2>7, <3>1, <3>2, OwnTaken
      <3> QED BY <3>2, <3>3
    <2>9. ASSUME NEW q \in ready PROVE PathInv(q)' /\ HeadInv(q)'
      <3>1. q \in Pools /\ \A c \in Blocks(q) : c \in PoolBlocks
        BY <1>3, BlockFacts DEF ChainTypes
      <3>2. PathInv(q)'
        BY <1>2, <2>8, <3>1, PathKept DEF PoolInv
      <3>3. Idle.pc = "idle"
        BY DEF Idle
      <3> QED BY <1>2, <2>7, <3>2, <3>3, HeadKept
    <2> QED BY <1>2, <2>6, <2>7, <2>8, <2>9 DEF PoolInv
  <1> QED BY <1>6, <1>7

-----------------------------------------------------------------------------
(* The steps that return a block *)

LEMMA DeleteNext ==
  ASSUME PoolInv, ~Racing, NEW t \in Threads, NEW s \in 1..MaxHeld, Delete(t, s), raced' = Racing'
  PROVE  PoolInv'
  <1>1. PICK b : b = held[s].block
    OBVIOUS
  <1>2. PICK r : r = IF b \in HeapBlocks THEN Idle
                     ELSE [Idle EXCEPT !.pc = IF b[1] = "obj" THEN "link" ELSE "lockfree",
                                       !.pool = b[1], !.block = b]
    OBVIOUS
  <1>3. /\ thread[t].pc = "idle" /\ held[s] # NoAlloc /\ held' = [held EXCEPT ![s] = NoAlloc]
        /\ Become(t, r) /\ UNCHANGED <<ready, head, next, nRef, mutex>>
    BY <1>1, <1>2 DEF Delete, At, poolVars
  <1>4. /\ thread[t] \in ThreadStates /\ StageOK(thread[t], ready)
        /\ HeldTypes /\ ChainTypes /\ mutex \in [Pools -> SUBSET Threads]
    BY TypeParts DEF PoolInv, StageInv
  <1>5. b # None /\ b \in PoolBlocks \cup HeapBlocks
    BY <1>1, <1>3, <1>4 DEF PoolInv, RoomInv, HeldTypes
  <1>6. b \notin HeapBlocks => b \in PoolBlocks /\ b[1] \in Pools /\ b \in Blocks(b[1])
    BY <1>5, BlockFacts
  <1>7. /\ r \in ThreadStates /\ r.size = 0
        /\ b \in HeapBlocks => r.pc = "idle" /\ r.block = None
        /\ b \notin HeapBlocks =>
             r.pc \in {"link", "lockfree"} /\ (r.pc = "link" => r.pool = "obj")
             /\ r.pool = b[1] /\ r.block = b
    BY <1>2, <1>6 DEF Idle, ThreadStates
  <1>8. \A x \in 1..MaxHeld : held'[x] = IF x = s THEN NoAlloc ELSE held[x]
    BY <1>3, <1>4 DEF HeldTypes
  <1>9. NoAlloc.block = None
    BY DEF NoAlloc
  <1>10. b \notin HeapBlocks => b[1] \in ready /\ b \in Usable(b[1])
    BY <1>1, <1>6 DEF PoolInv, OwnInv
  <1>11. /\ TypeOK' /\ "obj" \in ready' /\ StageInv' /\ MutexInv' /\ RaceInv'
         /\ \A u \in Threads : thread'[u] = IF u = t THEN r ELSE thread[u]
    <2>1. HeldTypes'
      <3>1. /\ LargeEnough(NoAlloc)
            /\ NoAlloc \in [size : Sizes \cup {0, ObjSize}, block : PoolBlocks \cup HeapBlocks \cup {None}]
        BY BlockFacts DEF LargeEnough, NoAlloc
      <3> QED BY <1>3, <1>4, <1>8, <3>1 DEF HeldTypes, LargeEnough
    <2>2. ChainTypes'
      BY <1>3, <1>4 DEF ChainTypes
    <2>3. StageOK(r, ready') /\ MutexOK(t, r, mutex')
      BY <1>3, <1>6, <1>7, <1>10 DEF StageOK, MutexOK
    <2> QED BY <1>3, <1>4, <1>7, <2>1, <2>2, <2>3, StepOf
  <1>12. RoomInv'
    <2>1. \A u \in Threads : Allocating(u)' => Allocating(u)
      BY <1>7, <1>11 DEF Allocating
    <2> QED BY <1>8, <2>1, RoomKept DEF PoolInv
  <1>13. /\ ~Returning(t) /\ \A u \in Threads \ {t} : Returning(u)' <=> Returning(u)
         /\ Returning(t)' <=> b \notin HeapBlocks
         /\ \A u \in Threads \ {t} : thread'[u] = thread[u] /\ Pool(u)' = Pool(u)
         /\ b \notin HeapBlocks => Pool(t)' = b[1] /\ thread'[t].block = b
    BY <1>3, <1>7, <1>11 DEF Returning, Pool
  <1>14. ASSUME NEW c \in PoolBlocks PROVE Out(c)' <=> Out(c)
    <2>1. c # None /\ c \notin HeapBlocks
      BY BlockFacts
    <2>2. CASE c = b
      BY <1>1, <1>13, <2>1, <2>2 DEF Out
    <2>3. CASE c # b
      <3>1. (\E x \in 1..MaxHeld : held'[x].block = c) <=> (\E x \in 1..MaxHeld : held[x].block = c)
        BY <1>1, <1>8, <1>9, <2>1, <2>3
      <3>2. (\E u \in Threads : Returning(u)' /\ thread'[u].block = c)
              <=> (\E u \in Threads : Returning(u) /\ thread[u].block = c)
        BY <1>13, <2>3
      <3> QED BY <3>1, <3>2 DEF Out
    <2> QED BY <2>2, <2>3
  <1>15. ASSUME NEW q \in Pools PROVE OwnInv(q)'
    <2>1. OwnInv(q) /\ \A c \in Blocks(q) : c \in PoolBlocks /\ c[1] = q /\ c # None /\ c \notin HeapBlocks
      BY BlockFacts DEF PoolInv
    <2>2. \A u \in Threads : Returning(u) /\ Pool(u) = q => thread[u].block \in Blocks(q)
      BY DEF PoolInv, StageInv, StageOK, Returning, Pool
    <2>3. Returning(t)' /\ Pool(t)' = q => b \in Blocks(q) /\ b \in Usable(q)
      BY <1>6, <1>10, <1>13
    <2>4. \A x \in 1..MaxHeld :
            held'[x].block \in Blocks(q) => q \in ready' /\ held'[x].block \in Usable(q)
      BY <1>3, <1>8, <1>9, <2>1 DEF OwnInv
    <2>5. \A x, y \in 1..MaxHeld :
            held'[x].block \in Blocks(q) /\ held'[x].block = held'[y].block => x = y
      BY <1>8, <1>9, <2>1 DEF OwnInv
    <2>6. \A u \in Threads : Returning(u)' /\ Pool(u)' = q => thread'[u].block \in Usable(q)
      BY <1>13, <2>1, <2>3 DEF OwnInv
    <2>7. \A u \in Threads \ {t} : Returning(u) /\ Pool(u) = q => thread[u].block # b
      BY <1>1, <2>1 DEF OwnInv
    <2>8. \A u \in Threads \ {t} : Returning(u) /\ Returning(t)' => thread[u].block # b
      <3>1. ASSUME NEW u \in Threads \ {t}, Returning(u), thread[u].block = b, b \notin HeapBlocks
            PROVE  FALSE
        <4>1. Pool(u) \in Pools /\ b \in Blocks(Pool(u))
          BY <3>1 DEF PoolInv, StageInv, StageOK, Returning, Pool
        <4> QED BY <1>1, <3>1, <4>1 DEF PoolInv, OwnInv
      <3> QED BY <1>13, <3>1
    <2>9. \A u, v \in Threads :
            Returning(u)' /\ Returning(v)' /\ Pool(u)' = q /\ thread'[u].block = thread'[v].block => u = v
      BY <1>13, <2>1, <2>7, <2>8 DEF OwnInv
    <2>10. \A x \in 1..MaxHeld, u \in Threads :
             Returning(u)' /\ Pool(u)' = q => held'[x].block # thread'[u].block
      <3>1. \A x \in 1..MaxHeld : x # s /\ b \in Blocks(q) => held[x].block # b
        BY <1>1, <2>1 DEF OwnInv
      <3>2. \A u \in Threads \ {t} : Returning(u) /\ Pool(u) = q => thread[u].block # None
        BY <2>1, <2>2
      <3> QED BY <1>5, <1>8, <1>9, <1>13, <2>1, <2>3, <3>1, <3>2 DEF OwnInv
    <2>11. \A u \in Threads : thread'[u].pc = "publish" <=> thread[u].pc = "publish"
      BY <1>3, <1>7, <1>11
    <2>12. \A u \in Threads : thread[u].pc = "publish" => thread'[u].block = thread[u].block
      BY <1>3, <1>13
    <2>13. ASSUME NEW c \in Blocks(q)
           PROVE  nRef'[c] = IF Out(c)' /\ \A u \in Threads :
                                  thread'[u].pc = "publish" => thread'[u].block # c THEN 1 ELSE 0
      BY <1>3, <1>14, <2>1, <2>11, <2>12 DEF OwnInv
    <2> QED BY <2>4, <2>5, <2>6, <2>9, <2>10, <2>13 DEF OwnInv
  <1>16. ASSUME NEW q \in ready PROVE PathInv(q)' /\ HeadInv(q)'
    <2>1. q \in Pools /\ \A c \in Blocks(q) : c \in PoolBlocks
      BY <1>4, BlockFacts DEF ChainTypes
    <2>2. PathInv(q)'
      BY <1>3, <1>14, <2>1, PathKept DEF PoolInv
    <2>3. r.pc \notin {"unlink", "publish"}
      BY <1>7
    <2> QED BY <1>3, <1>11, <2>2, <2>3, HeadKept
  <1> QED BY <1>3, <1>11, <1>12, <1>15, <1>16 DEF PoolInv

LEMMA LockFreeNext ==
  ASSUME PoolInv, ~Racing, NEW t \in Threads, LockFree(t), raced' = Racing'
  PROVE  PoolInv'
  <1>1. PICK p, r : p = Pool(t) /\ r = [thread[t] EXCEPT !.pc = "link"]
    OBVIOUS
  <1>2. /\ thread[t].pc = "lockfree" /\ Become(t, r) /\ mutex[p] = {}
        /\ mutex' = [mutex EXCEPT ![p] = {t}]
        /\ UNCHANGED <<ready, head, next, nRef, held>>
    BY <1>1 DEF LockFree, At, Acquire
  <1>3. /\ thread[t] \in ThreadStates /\ StageOK(thread[t], ready)
        /\ HeldTypes /\ ChainTypes /\ mutex \in [Pools -> SUBSET Threads]
    BY TypeParts DEF PoolInv, StageInv
  <1>4. /\ r \in ThreadStates /\ r.pc = "link" /\ r.pool = p /\ thread[t].pool = p
        /\ r.size = thread[t].size /\ r.block = thread[t].block /\ p \in Pools
    BY <1>1, <1>2, <1>3 DEF ThreadStates, StageOK, Pool
  <1>5. /\ TypeOK' /\ "obj" \in ready' /\ StageInv' /\ MutexInv' /\ RaceInv'
        /\ \A u \in Threads : thread'[u] = IF u = t THEN r ELSE thread[u]
    <2>1. HeldTypes' /\ ChainTypes'
      BY <1>2, <1>3 DEF HeldTypes, ChainTypes, LargeEnough
    <2>2. /\ mutex' \in [Pools -> SUBSET Threads] /\ mutex'[p] = {t}
          /\ \A q \in Pools, u \in Threads \ {t} : mutex[q] = {u} => mutex'[q] = {u}
      BY <1>2, <1>3, <1>4
    <2>3. StageOK(r, ready') /\ MutexOK(t, r, mutex')
      BY <1>2, <1>3, <1>4, <2>2 DEF StageOK, MutexOK
    <2> QED BY <1>2, <1>4, <2>1, <2>2, <2>3, StepOf
  <1>6. RoomInv'
    <2>1. \A u \in Threads : Allocating(u)' => Allocating(u)
      BY <1>4, <1>5 DEF Allocating
    <2>2. \A s \in 1..MaxHeld : held'[s] = held[s]
      BY <1>2
    <2> QED BY <2>1, <2>2, RoomKept DEF PoolInv
  <1>7. \A q \in Pools : OwnInv(q)' /\ \A b : Out(b)' <=> Out(b)
    <2>1. Returning(t) /\ r.pool = Pool(t)
      BY <1>1, <1>2, <1>4 DEF Returning
    <2> QED BY <1>2, <1>4, <1>5, <2>1, OwnKept DEF PoolInv
  <1>8. ASSUME NEW q \in ready PROVE PathInv(q)' /\ HeadInv(q)'
    <2>1. q \in Pools
      BY <1>3 DEF ChainTypes
    <2>2. PathInv(q)'
      BY <1>2, <1>7, <2>1, PathKept DEF PoolInv
    <2> QED BY <1>2, <1>4, <1>5, <2>2, HeadKept
  <1> QED BY <1>2, <1>5, <1>6, <1>7, <1>8 DEF PoolInv

LEMMA LinkNext ==
  ASSUME PoolInv, ~Racing, NEW t \in Threads, Link(t), raced' = Racing'
  PROVE  PoolInv'
  <1>1. PICK p, b, r : p = Pool(t) /\ b = thread[t].block /\ r = [thread[t] EXCEPT !.pc = "publish"]
    OBVIOUS
  <1>2. thread[t].pc = "link" /\ UNCHANGED <<ready, head, held>>
    BY DEF Link, At
  <1>3. /\ thread[t] \in ThreadStates /\ StageOK(thread[t], ready) /\ MutexOK(t, thread[t], mutex)
        /\ HeldTypes /\ ChainTypes /\ mutex \in [Pools -> SUBSET Threads]
    BY TypeParts DEF PoolInv, StageInv, MutexInv
  <1>4. /\ r \in ThreadStates /\ r.pc = "publish" /\ r.pool = p /\ thread[t].pool = p
        /\ r.size = thread[t].size /\ r.block = b /\ p \in Pools /\ p \in ready
        /\ b \in Blocks(p) /\ Returning(t)
    BY <1>1, <1>2, <1>3 DEF ThreadStates, StageOK, Pool, Returning
  <1>5. b \in PoolBlocks
    BY <1>4, BlockFacts
  <1>6. \A u \in Threads \ {t} : Returning(u) => thread[u].block # b
    BY <1>1, <1>4 DEF PoolInv, OwnInv
  <1>7. Out(b) /\ nRef[b] = 1
    <2>1. Out(b)
      BY <1>1, <1>4 DEF Out
    <2>2. \A u \in Threads : thread[u].pc = "publish" => thread[u].block # b
      BY <1>2, <1>6 DEF Returning
    <2> QED BY <1>4, <2>1, <2>2 DEF PoolInv, OwnInv
  <1>8. /\ nRef' = [nRef EXCEPT ![b] = 0] /\ next' = [next EXCEPT ![b] = head[p]]
        /\ Become(t, r) /\ UNCHANGED mutex
    BY <1>1, <1>7 DEF Link
  <1>9. /\ \A c \in PoolBlocks : nRef'[c] = IF c = b THEN 0 ELSE nRef[c]
        /\ \A c \in PoolBlocks : next'[c] = IF c = b THEN head[p] ELSE next[c]
        /\ ChainTypes'
    BY <1>2, <1>3, <1>4, <1>5, <1>8 DEF ChainTypes
  <1>10. /\ TypeOK' /\ "obj" \in ready' /\ StageInv' /\ MutexInv' /\ RaceInv'
         /\ \A u \in Threads : thread'[u] = IF u = t THEN r ELSE thread[u]
    <2>1. HeldTypes'
      BY <1>2, <1>3 DEF HeldTypes, LargeEnough
    <2>2. StageOK(r, ready') /\ MutexOK(t, r, mutex')
      BY <1>1, <1>2, <1>3, <1>4, <1>8 DEF StageOK, MutexOK
    <2> QED BY <1>2, <1>3, <1>4, <1>8, <1>9, <2>1, <2>2, StepOf
  <1>11. RoomInv'
    <2>1. \A u \in Threads : Allocating(u)' => Allocating(u)
      BY <1>4, <1>10 DEF Allocating
    <2>2. \A s \in 1..MaxHeld : held'[s] = held[s]
      BY <1>2
    <2> QED BY <2>1, <2>2, RoomKept DEF PoolInv
  <1>12. /\ \A u \in Threads : Returning(u)' <=> Returning(u)
         /\ \A u \in Threads : Pool(u)' = Pool(u) /\ thread'[u].block = thread[u].block
         /\ \A u \in Threads : thread'[u].pc = "publish" <=> thread[u].pc = "publish" \/ u = t
    BY <1>1, <1>2, <1>4, <1>10 DEF Returning, Pool
  <1>13. \A c : Out(c)' <=> Out(c)
    BY <1>2, <1>12 DEF Out
  <1>14. ASSUME NEW q \in Pools PROVE OwnInv(q)'
    <2>1. OwnInv(q) /\ \A c \in Blocks(q) : c \in PoolBlocks
      BY BlockFacts DEF PoolInv
    <2>2. ASSUME NEW c \in Blocks(q)
          PROVE  nRef'[c] = IF Out(c)' /\ \A u \in Threads :
                                 thread'[u].pc = "publish" => thread'[u].block # c THEN 1 ELSE 0
      <3>1. CASE c = b
        BY <1>1, <1>9, <1>12, <2>1, <3>1
      <3>2. CASE c # b
        BY <1>1, <1>9, <1>12, <1>13, <2>1, <3>2 DEF OwnInv
      <3> QED BY <3>1, <3>2
    <2> QED BY <1>2, <1>12, <2>1, <2>2 DEF OwnInv
  <1>15. ASSUME NEW q \in ready PROVE PathInv(q)' /\ HeadInv(q)'
    <2>1. q \in Pools /\ \A c \in Blocks(q) : c \in PoolBlocks
      BY <1>3, BlockFacts DEF ChainTypes
    <2>2. PathInv(q)'
      BY <1>2, <1>7, <1>9, <1>13, <2>1, PathKept DEF PoolInv
    <2>3. \A c \in Blocks(q) :
            next'[c] = next[c] \/ (Returning(t) /\ Pool(t) = q /\ thread[t].block = c)
      <3>1. b \in Blocks(q) => q = p
        BY <1>4, <2>1, BlockFacts
      <3> QED BY <1>1, <1>4, <1>9, <2>1, <3>1
    <2>4. r.pool = q => next'[r.block] = head[q]
      BY <1>4, <1>5, <1>9
    <2> QED BY <1>2, <1>4, <1>10, <2>2, <2>3, <2>4, HeadKept
  <1> QED BY <1>2, <1>10, <1>11, <1>14, <1>15 DEF PoolInv

LEMMA PublishNext ==
  ASSUME PoolInv, ~Racing, NEW t \in Threads, Publish(t), raced' = Racing'
  PROVE  PoolInv'
  <1>1. PICK p, b : p = Pool(t) /\ b = thread[t].block
    OBVIOUS
  <1>2. /\ thread[t].pc = "publish" /\ head' = [head EXCEPT ![p] = b] /\ Become(t, Idle)
        /\ mutex' = [q \in Pools |-> mutex[q] \ {t}] /\ UNCHANGED <<ready, next, nRef, held>>
    BY <1>1 DEF Publish, At, Release
  <1>3. /\ thread[t] \in ThreadStates /\ StageOK(thread[t], ready)
        /\ HeldTypes /\ ChainTypes /\ mutex \in [Pools -> SUBSET Threads]
    BY TypeParts DEF PoolInv, StageInv
  <1>4. /\ thread[t].pool = p /\ p \in Pools /\ p \in ready /\ b \in Blocks(p) /\ Returning(t)
    BY <1>1, <1>2, <1>3 DEF ThreadStates, StageOK, Pool, Returning
  <1>5. b \in PoolBlocks /\ b # None /\ b \notin HeapBlocks
    BY <1>4, BlockFacts
  <1>6. \A u \in Threads \ {t} : Returning(u) => thread[u].block # b
    BY <1>1, <1>4 DEF PoolInv, OwnInv
  <1>7. /\ Out(b) /\ nRef[b] = 0 /\ b \in Usable(p)
        /\ \A s \in 1..MaxHeld : held[s].block # b
    <2>1. Out(b)
      BY <1>1, <1>4 DEF Out
    <2> QED BY <1>1, <1>2, <1>4, <2>1 DEF PoolInv, OwnInv
  <1>8. /\ TypeOK' /\ "obj" \in ready' /\ StageInv' /\ MutexInv' /\ RaceInv'
        /\ \A u \in Threads : thread'[u] = IF u = t THEN Idle ELSE thread[u]
    <2>1. HeldTypes' /\ ChainTypes'
      BY <1>2, <1>3, <1>5 DEF HeldTypes, ChainTypes, LargeEnough
    <2>2. /\ mutex' \in [Pools -> SUBSET Threads]
          /\ \A q \in Pools, u \in Threads \ {t} : mutex[q] = {u} => mutex'[q] = {u}
      BY <1>2, <1>3
    <2>3. Idle \in ThreadStates /\ StageOK(Idle, ready') /\ MutexOK(t, Idle, mutex')
      BY DEF Idle, ThreadStates, StageOK, MutexOK, Pools, MemPools
    <2> QED BY <1>2, <2>1, <2>2, <2>3, StepOf
  <1>9. RoomInv'
    <2>1. \A u \in Threads : Allocating(u)' => Allocating(u)
      BY <1>8 DEF Allocating, Idle
    <2>2. \A s \in 1..MaxHeld : held'[s] = held[s]
      BY <1>2
    <2> QED BY <2>1, <2>2, RoomKept DEF PoolInv
  <1>10. /\ \A u \in Threads : Returning(u)' <=> Returning(u) /\ u # t
         /\ \A u \in Threads \ {t} : thread'[u] = thread[u] /\ Pool(u)' = Pool(u)
         /\ \A u \in Threads : thread'[u].pc = "publish" <=> thread[u].pc = "publish" /\ u # t
    BY <1>8 DEF Returning, Pool, Idle
  <1>11. \A c : Out(c)' <=> Out(c) /\ c # b
    BY <1>1, <1>2, <1>6, <1>7, <1>10 DEF Out
  <1>12. ASSUME NEW q \in Pools PROVE OwnInv(q)'
    <2>1. OwnInv(q)
      BY DEF PoolInv
    <2>2. ASSUME NEW c \in Blocks(q)
          PROVE  nRef'[c] = IF Out(c)' /\ \A u \in Threads :
                                 thread'[u].pc = "publish" => thread'[u].block # c THEN 1 ELSE 0
      <3>1. CASE c = b
        BY <1>2, <1>7, <1>11, <3>1
      <3>2. CASE c # b
        BY <1>1, <1>2, <1>10, <1>11, <2>1, <3>2 DEF OwnInv
      <3> QED BY <3>1, <3>2
    <2> QED BY <1>2, <1>10, <2>1, <2>2 DEF OwnInv
  <1>13. ASSUME NEW q \in ready, q # p PROVE PathInv(q)' /\ HeadInv(q)'
    <2>1. q \in Pools /\ head'[q] = head[q]
      BY <1>2, <1>3, <1>13 DEF ChainTypes
    <2>2. \A c \in Blocks(q) : c # b
      BY <1>4, <1>13, <2>1, BlockFacts
    <2>3. PathInv(q)'
      BY <1>2, <1>11, <2>1, <2>2, PathKept DEF PoolInv
    <2>4. Idle.pc = "idle"
      BY DEF Idle
    <2> QED BY <1>2, <1>8, <2>1, <2>3, <2>4, HeadKept
  <1>14. PathInv(p)'
    <2>1. PICK n \in Nat : \E f \in [1..n -> Blocks(p)] : IsPath(p, n, f)
      BY <1>4 DEF PoolInv, PathInv
    <2>2. PICK f \in [1..n -> Blocks(p)] : IsPath(p, n, f)
      BY <2>1
    <2> DEFINE g == [i \in 1..n + 1 |-> IF i = 1 THEN b ELSE f[i - 1]]
    <2>3. /\ n + 1 \in Nat /\ g \in [1..n + 1 -> Blocks(p)] /\ g[1] = b
          /\ \A i \in 2..n + 1 : g[i] = f[i - 1] /\ i - 1 \in 1..n
      BY <1>4
    <2> HIDE DEF g
    <2>4. next[b] = head[p] /\ head'[p] = b
      BY <1>1, <1>2, <1>3, <1>4 DEF PoolInv, HeadInv, ChainTypes
    <2>5. \A i \in 1..n : f[i] # b
      BY <1>4, <1>7, <2>2 DEF IsPath
    <2>6. \A i, j \in 1..n + 1 : g[i] = g[j] => i = j
      <3>1. \A i \in 1..n + 1 : i = 1 \/ i \in 2..n + 1
        OBVIOUS
      <3>2. \A i, j \in 2..n + 1 : g[i] = g[j] => i = j
        BY <2>2, <2>3 DEF IsPath
      <3>3. \A i \in 2..n + 1 : g[i] # g[1]
        BY <2>3, <2>5
      <3> QED BY <3>1, <3>2, <3>3
    <2>7. \A i \in 1..n + 1 : next'[g[i]] = IF i = n + 1 THEN None ELSE g[i + 1]
      <3>1. next'[g[1]] = IF 1 = n + 1 THEN None ELSE g[1 + 1]
        BY <1>2, <2>2, <2>3, <2>4 DEF IsPath
      <3>2. \A i \in 2..n + 1 : next'[g[i]] = IF i = n + 1 THEN None ELSE g[i + 1]
        BY <1>2, <2>2, <2>3 DEF IsPath
      <3>3. \A i \in 1..n + 1 : i = 1 \/ i \in 2..n + 1
        OBVIOUS
      <3> QED BY <3>1, <3>2, <3>3
    <2>8. ASSUME NEW c \in Blocks(p)
          PROVE  (\E i \in 1..n + 1 : g[i] = c) <=> c \in Usable(p) /\ ~Out(c)'
      <3>1. (\E i \in 1..n : f[i] = c) <=> c \in Usable(p) /\ ~Out(c)
        BY <2>2 DEF IsPath
      <3>2. (\E i \in 1..n + 1 : g[i] = c) <=> c = b \/ \E i \in 1..n : f[i] = c
        <4>1. \A i \in 1..n : i + 1 \in 2..n + 1 /\ g[i + 1] = f[i]
          BY <2>3
        <4>2. \A i \in 1..n + 1 : g[i] = b \/ \E j \in 1..n : g[i] = f[j]
          BY <2>3
        <4> QED BY <2>3, <4>1, <4>2
      <3> QED BY <1>7, <1>11, <3>1, <3>2
    <2>9. IsPath(p, n + 1, g)'
      BY <2>3, <2>4, <2>6, <2>7, <2>8 DEF IsPath
    <2> QED BY <2>3, <2>9 DEF PathInv
  <1>15. HeadInv(p)'
    <2>1. \A u \in Threads \ {t} : thread[u].pool = p => thread[u].pc \notin {"unlink", "publish"}
      BY <1>1, <1>2, <1>4, AloneInChain DEF Pool
    <2> QED BY <1>8, <2>1 DEF HeadInv, Pool, Idle
  <1> QED BY <1>2, <1>8, <1>9, <1>12, <1>13, <1>14, <1>15 DEF PoolInv

-----------------------------------------------------------------------------
(* The chains, as the runs look at them *)
LEMMA PoolStep ==
  ASSUME PoolInv, [Next]_vars
  PROVE  PoolInv'
  <1>1. ASSUME NEW t \in Threads, ThreadStep(t), ~raced, raced' = Racing' PROVE PoolInv'
    <2>1. ~Racing
      BY <1>1 DEF PoolInv, RaceInv
    <2>2. ASSUME NEW size \in Sizes, New(t, szAlloc(size), size) PROVE PoolInv'
      <3>1. szAlloc(size) \in Pools \cup {"heap"} /\ (szAlloc(size) \in Pools => nSize(szAlloc(size)) >= size)
        BY SizeFacts DEF Pools, MemPools
      <3> QED BY <1>1, <2>1, <2>2, <3>1, NewNext
    <2>3. CASE New(t, "obj", ObjSize)
      <3>1. "obj" \in Pools /\ nSize("obj") >= ObjSize
        BY SizeFacts DEF Pools
      <3> QED BY <1>1, <2>1, <2>3, <3>1, NewNext
    <2> QED BY <1>1, <2>1, <2>2, <2>3, LockNext, ReadHeadNext, UnlinkNext, MallocNext, DeleteNext,
               LockFreeNext, LinkNext, PublishNext DEF ThreadStep
  <1>2. CASE UNCHANGED vars
    <2>1. UNCHANGED <<ready, head, next, nRef, mutex, thread, held, raced>>
      BY <1>2 DEF vars, poolVars
    <2>2. TypeOK' /\ "obj" \in ready' /\ StageInv' /\ MutexInv'
      BY <2>1 DEF PoolInv, TypeOK, LargeEnough, StageInv, MutexInv
    <2>3. RoomInv'
      BY <2>1 DEF PoolInv, RoomInv, FreeSlots, Allocating
    <2>4. RaceInv'
      <3>1. Racing' = Racing
        BY <2>1 DEF Racing, InChain, Pool
      <3> QED BY <2>1, <3>1 DEF PoolInv, RaceInv
    <2>5. \A c : Out(c)' <=> Out(c)
      BY <2>1 DEF Out, Returning
    <2>6. \A q \in Pools : OwnInv(q)'
      BY <2>1, <2>5 DEF PoolInv, OwnInv, Returning, Pool
    <2>7. ASSUME NEW q \in ready PROVE PathInv(q)' /\ HeadInv(q)'
      <3>1. q \in Pools
        BY TypeParts DEF PoolInv, ChainTypes
      <3>2. PathInv(q)'
        BY <2>1, <2>5, <3>1, PathKept DEF PoolInv
      <3> QED BY <2>1, <3>2 DEF PoolInv, HeadInv, Pool
    <2> QED BY <2>1, <2>2, <2>3, <2>4, <2>6, <2>7 DEF PoolInv
  <1> QED BY <1>1, <1>2 DEF Next, Raced

\* Of every state of the pools: who has each block, and that each chain is a
\* path through the blocks that nobody has.
THEOREM PoolInvariance == Spec => []PoolInv
  BY PoolInitInv, PoolStep, PTL DEF Spec

\* The pools keep their types, and what is handed out is large enough
\* (MemoryMgr.hpp:175-247).
THEOREM PoolTypes == Spec => []TypeOK
  <1>1. PoolInv => TypeOK
    BY DEF PoolInv
  <1> QED BY <1>1, PoolInvariance, PTL

\* Walking a chain of n blocks passes them in their order, and then nothing.
LEMMA WalkIs ==
  ASSUME NEW p \in Pools, NEW n \in Nat, NEW f \in [1..n -> Blocks(p)], IsPath(p, n, f)
  PROVE  \A i \in 0..BlockNum(p) : Chain(p)[i] = IF i < n THEN f[i + 1] ELSE None
  <1>1. PICK N \in Nat : N = BlockNum(p)
    BY BlockFacts
  <1> DEFINE Walk(g) == [i \in 0..N |-> IF i = 0 THEN head[p]
                                        ELSE IF g[i - 1] = None THEN None ELSE next[g[i - 1]]]
             w == [i \in 0..N |-> IF i < n THEN f[i + 1] ELSE None]
  <1>2. Chain(p) = CHOOSE g : g = Walk(g)
    BY <1>1 DEF Chain
  <1>3. \A i \in 1..n : f[i] # None
    BY BlockFacts
  <1>4. ASSUME NEW i \in 0..N PROVE w[i] = Walk(w)[i]
    <2>1. w[i] = IF i < n THEN f[i + 1] ELSE None
      OBVIOUS
    <2>2. CASE i = 0
      BY <2>1, <2>2 DEF IsPath
    <2>3. CASE i > 0
      <3>1. i - 1 \in 0..N /\ w[i - 1] = IF i - 1 < n THEN f[i] ELSE None
        BY <2>3
      <3>2. Walk(w)[i] = IF w[i - 1] = None THEN None ELSE next[w[i - 1]]
        BY <2>3
      <3> HIDE DEF w, Walk
      <3>3. CASE i - 1 < n
        <4>1. w[i - 1] = f[i] /\ f[i] # None /\ i \in 1..n
          BY <1>3, <2>3, <3>1, <3>3
        <4>2. next[f[i]] = IF i = n THEN None ELSE f[i + 1]
          BY <4>1 DEF IsPath
        <4> QED BY <2>1, <2>3, <3>2, <3>3, <4>1, <4>2
      <3>4. CASE ~(i - 1 < n)
        BY <2>1, <2>3, <3>1, <3>2, <3>4
      <3> QED BY <3>3, <3>4
    <2> QED BY <2>2, <2>3
  <1>5. w = Walk(w)
    BY <1>4
  <1>6. ASSUME NEW g, g = Walk(g) PROVE \A i \in 0..N : g[i] = w[i]
    <2> DEFINE Bad == {i \in 0..N : g[i] # w[i]}
    <2>1. SUFFICES ASSUME Bad # {} PROVE FALSE
      OBVIOUS
    <2>2. Bad \in SUBSET Nat
      OBVIOUS
    <2>3. PICK i \in Bad : \A j \in Bad : i <= j
      <3> HIDE DEF Bad
      <3> QED BY <2>1, <2>2, LeastNatural
    <2>4. i \in 0..N /\ g[i] # w[i]
      OBVIOUS
    <2>5. i # 0 => i - 1 \in 0..N /\ g[i - 1] = w[i - 1]
      BY <2>3, <2>4
    <2>6. Walk(g)[i] = Walk(w)[i]
      <3> HIDE DEF w
      <3> QED BY <2>4, <2>5
    <2> HIDE DEF Walk, w
    <2> QED BY <1>5, <1>6, <2>4, <2>6
  <1>7. \A i \in 0..N : Chain(p)[i] = w[i]
    <2>1. \E g : g = Walk(g)
      BY <1>5
    <2>2. Chain(p) = Walk(Chain(p))
      <3> HIDE DEF Walk, w
      <3> QED BY <1>2, <2>1
    <2> HIDE DEF Walk, w
    <2> QED BY <1>6, <2>2
  <1> QED BY <1>1, <1>7

\* No chain is longer than its pool.
LEMMA PathShort ==
  ASSUME NEW p \in Pools, NEW n \in Nat, NEW f \in [1..n -> Blocks(p)], IsPath(p, n, f)
  PROVE  n <= BlockNum(p)
  <1>1. PICK N \in Nat \ {0} : N = BlockNum(p)
    BY BlockFacts
  <1> DEFINE g == [i \in 1..n |-> f[i][2]]
  <1>2. \A i \in 1..n : f[i] = <<p, g[i]>> /\ g[i] \in 0..N - 1
    BY <1>1, BlockFacts
  <1>3. \A i, j \in 1..n : g[i] = g[j] => i = j
    <2> HIDE DEF g
    <2> SUFFICES ASSUME NEW i \in 1..n, NEW j \in 1..n, g[i] = g[j] PROVE i = j
      OBVIOUS
    <2>1. f[i] = f[j]
      BY <1>2
    <2> QED BY <2>1 DEF IsPath
  <1>4. g \in [1..n -> 0..N - 1]
    BY <1>2
  <1>5. g \in Injection(1..n, 0..N - 1)
    <2> HIDE DEF g
    <2> QED BY <1>3, <1>4 DEF Injection, IsInjective
  <1>6. IsFiniteSet(0..N - 1) /\ Cardinality(0..N - 1) = N
    <2>1. /\ IsFiniteSet(0..N - 1)
          /\ Cardinality(0..N - 1) = IF 0 > N - 1 THEN 0 ELSE (N - 1) - 0 + 1
      BY FS_Interval
    <2> QED BY <2>1
  <1>7. Cardinality(1..n) = n
    <2>1. Cardinality(1..n) = IF 1 > n THEN 0 ELSE n - 1 + 1
      BY FS_Interval
    <2> QED BY <2>1
  <1>8. Cardinality(1..n) <= Cardinality(0..N - 1)
    <2> HIDE DEF g
    <2> QED BY <1>5, <1>6, FS_Injection
  <1> QED BY <1>1, <1>6, <1>7, <1>8

\* A set without two elements.
LEMMA AtMostOne ==
  ASSUME NEW S, \A x, y \in S : x = y
  PROVE  S = {} \/ \E x : S = {x}
  <1>1. CASE S # {}
    <2>1. PICK x \in S : TRUE
      BY <1>1
    <2>2. \A y : y \in S <=> y \in {x}
      BY <2>1
    <2>3. S = {x}
      BY <2>2
    <2> QED BY <2>3
  <1> QED BY <1>1

LEMMA OwnersAre ==
  ASSUME PoolInv, NEW p \in ready, NEW b \in Blocks(p)
  PROVE  Owners(b) <= 1 /\ (b \in Usable(p) => Owners(b) >= 1)
  <1> DEFINE W == {n \in 0..BlockNum(p) : Chain(p)[n] = b}
             H == {s \in 1..MaxHeld : held[s].block = b}
             R == {t \in Threads : thread[t].block = b
                                     /\ thread[t].pc \in {"lockfree", "link", "publish"}}
  <1>1. p \in Pools /\ b[1] = p /\ b # None
    BY BlockFacts, TypeParts DEF PoolInv, ChainTypes
  <1>2. Owners(b) = Cardinality(W) + Cardinality(H) + Cardinality(R)
    BY <1>1 DEF Owners
  <1>3. PICK n \in Nat : \E f \in [1..n -> Blocks(p)] : IsPath(p, n, f)
    BY DEF PoolInv, PathInv
  <1>4. PICK f \in [1..n -> Blocks(p)] : IsPath(p, n, f)
    BY <1>3
  <1>5. /\ \A i \in 0..BlockNum(p) : Chain(p)[i] = IF i < n THEN f[i + 1] ELSE None
        /\ n <= BlockNum(p) /\ BlockNum(p) \in Nat
    <2>1. n <= BlockNum(p) /\ BlockNum(p) \in Nat
      BY <1>1, <1>4, PathShort, BlockFacts
    <2> HIDE DEF W, H, R
    <2>2. \A i \in 0..BlockNum(p) : Chain(p)[i] = IF i < n THEN f[i + 1] ELSE None
      BY <1>1, <1>4, WalkIs
    <2> QED BY <2>1, <2>2
  <1>6. (\E i \in 1..n : f[i] = b) <=> b \in Usable(p) /\ ~Out(b)
    BY <1>4 DEF IsPath
  <1>7. (\A i \in 1..n : f[i] # b) => W = {}
    <2>1. \A i \in W : i < n /\ f[i + 1] = b
      BY <1>1, <1>5
    <2> HIDE DEF W
    <2>2. W \subseteq Nat
      BY DEF W
    <2> QED BY <2>1, <2>2
  <1>8. (\E i \in 1..n : f[i] = b) => \E i : W = {i}
    <2> SUFFICES ASSUME NEW i \in 1..n, f[i] = b PROVE W = {i - 1}
      OBVIOUS
    <2>1. i - 1 \in W
      BY <1>5
    <2>2. \A j \in W : j = i - 1
      <3>1. \A j \in W : j < n /\ f[j + 1] = b /\ j \in Nat
        BY <1>1, <1>5
      <3> HIDE DEF W
      <3> QED BY <1>4, <3>1 DEF IsPath
    <2> QED BY <2>1, <2>2
  <1>9. Out(b) <=> H # {} \/ R # {}
    BY DEF Out, Returning
  <1>10. \A t \in R : Returning(t) /\ Pool(t) = p
    <2>1. \A t \in R : Returning(t) /\ Pool(t) \in Pools /\ b \in Blocks(Pool(t))
      BY DEF PoolInv, StageInv, StageOK, Returning, Pool
    <2> QED BY <1>1, <2>1, BlockFacts
  <1>11. /\ \A s, r \in H : s = r
         /\ \A t, u \in R : t = u
         /\ H = {} \/ R = {}
    <2>1. OwnInv(p)
      BY <1>1 DEF PoolInv
    <2>2. \A t, u \in R : t = u
      BY <1>10, <2>1 DEF OwnInv
    <2>3. H = {} \/ R = {}
      BY <1>10, <2>1 DEF OwnInv
    <2> QED BY <2>1, <2>2, <2>3 DEF OwnInv
  <1> HIDE DEF W, H, R
  <1>12. /\ H = {} \/ \E s : H = {s}
         /\ R = {} \/ \E t : R = {t}
    BY <1>11, AtMostOne
  <1>13. Cardinality({}) = 0 /\ \A x : Cardinality({x}) = 1
    BY FS_EmptySet, FS_Singleton
  <1>14. CASE Out(b)
    <2>1. W = {}
      BY <1>6, <1>7, <1>14
    <2>2. Cardinality(W) = 0
      BY <1>13, <2>1
    <2>3. CASE H = {}
      <3>1. Cardinality(H) = 0 /\ Cardinality(R) = 1
        BY <1>9, <1>12, <1>13, <1>14, <2>3
      <3> QED BY <1>2, <2>2, <3>1
    <2>4. CASE H # {}
      <3>1. Cardinality(H) = 1 /\ Cardinality(R) = 0
        BY <1>11, <1>12, <1>13, <2>4
      <3> QED BY <1>2, <2>2, <3>1
    <2> QED BY <2>3, <2>4
  <1>15. CASE ~Out(b)
    <2>1. Cardinality(H) = 0 /\ Cardinality(R) = 0
      BY <1>9, <1>13, <1>15
    <2>2. CASE b \in Usable(p)
      <3>1. Cardinality(W) = 1
        BY <1>6, <1>8, <1>13, <1>15, <2>2
      <3> QED BY <1>2, <2>1, <3>1
    <2>3. CASE b \notin Usable(p)
      <3>1. Cardinality(W) = 0
        BY <1>6, <1>7, <1>13, <2>3
      <3> QED BY <1>2, <2>1, <2>3, <3>1
    <2> QED BY <2>2, <2>3
  <1> QED BY <1>14, <1>15

\* No block is handed out twice, however many threads and blocks there are
\* (MemoryMgr.hpp:72-129, CELLObjectPool.hpp:62-116).
THEOREM NeverHandedOutTwice == Spec => []NoBlockTwice
  <1>1. PoolInv => NoBlockTwice
    BY OwnersAre DEF NoBlockTwice, Sound
  <1> QED BY <1>1, PoolInvariance, PTL

\* No block of a chain is lost (MemoryMgr.hpp:131-171, CELLObjectPool.hpp:142-152).
THEOREM NeverLost == Spec => []NoBlockLost
  <1>1. PoolInv => NoBlockLost
    <2> SUFFICES ASSUME PoolInv, NEW p \in Sound, NEW b \in Usable(p) PROVE Owners(b) >= 1
      BY DEF NoBlockLost
    <2>1. p \in ready /\ p \in Pools
      BY TypeParts DEF Sound, PoolInv, ChainTypes
    <2>2. b \in Blocks(p)
      BY <2>1, BlockFacts
    <2> QED BY <2>1, <2>2, OwnersAre
  <1> QED BY <1>1, PoolInvariance, PTL
==============================================================================
