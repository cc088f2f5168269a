------------------------- MODULE EasyTcpServerProofs -------------------------
(***************************************************************************)
(* Proofs about EasyTcpServer for any number of service threads, any       *)
(* finite sets of connections and socket numbers, and any limit.           *)
(***************************************************************************)
EXTENDS EasyTcpServer, FiniteSetTheorems, TLAPS

-----------------------------------------------------------------------------
(* The inductive invariant *)

Alive == {"socket", "object"}

\* The accept thread has a connection in hand only between accept() and the
\* hand-over, and a bare socket is always the one it has in hand.
CurInv ==
  /\ apc = "limit" => cur \in Clients /\ obj[cur] = "socket"
  /\ apc = "scan" => cur \in Clients /\ obj[cur] = "object"
  /\ apc \notin {"limit", "scan"} => cur = NoClient
  /\ \A c \in Clients : obj[c] = "socket" => c = cur

\* Living connections have socket numbers of their own.
SockInv ==
  /\ \A c \in Clients : obj[c] \in Alive => sock[c] \in openFds
  /\ \A c, d \in Clients :
       obj[c] \in Alive /\ obj[d] \in Alive /\ sock[c] = sock[d] => c = d

\* A client in a buffer is a living object, in that buffer only.
PendInv ==
  \A s \in Servers : \A c \in pending[s] :
    /\ obj[c] = "object" /\ c # cur
    /\ \A t \in Servers : /\ c \in pending[t] => s = t
                          /\ victim[t] # c
                          /\ \A f \in Fds : table[t][f] # c

\* A client in a table is there under its own socket, and in no other table;
\* it is a living object unless CheckTime() is about to erase it.
TableInv ==
  \A s \in Servers, f \in Fds : table[s][f] # NoClient =>
    /\ sock[table[s][f]] = f
    /\ table[s][f] # cur
    /\ obj[table[s][f]] = "object" \/ (spc[s] = "erase" /\ victim[s] = table[s][f])
    /\ \A t \in Servers : /\ victim[t] = table[s][f] => s = t
                          /\ table[t][f] = table[s][f] => s = t

\* A thread has a client in hand only while it drops it.
VictimInv ==
  \A s \in Servers :
    /\ spc[s] = "erase" => /\ victim[s] \in Clients
                           /\ obj[victim[s]] = "freed"
                           /\ sock[victim[s]] \in Fds
    /\ spc[s] = "leave" => /\ victim[s] \in Clients
                           /\ obj[victim[s]] = "object"
                           /\ \A f \in Fds : table[s][f] # victim[s]
    /\ spc[s] \notin {"erase", "leave"} => victim[s] = NoClient
    /\ victim[s] # NoClient =>
         /\ victim[s] # cur
         /\ \A t \in Servers : victim[t] = victim[s] => s = t

\* Close() waits for a thread that exists.
MainInv == mpc = "joinServer" => closing \in Servers

Safe == CurInv /\ SockInv /\ PendInv /\ TableInv /\ VictimInv
IInv == TypeOK /\ MainInv /\ Safe

-----------------------------------------------------------------------------
(* Types *)

\* One entry of one table is written.
LEMMA TableUpdate ==
  ASSUME TypeOK, NEW s \in Servers, NEW k, NEW v \in Clients \cup {NoClient},
         table' = [table EXCEPT ![s][k] = v]
  PROVE  /\ table' \in [Servers -> [Fds -> Clients \cup {NoClient}]]
         /\ \A t \in Servers, f \in Fds :
              table'[t][f] = IF t = s /\ f = k THEN v ELSE table[t][f]
  <1> DEFINE row == [table[s] EXCEPT ![k] = v]
  <1>1. table[s] \in [Fds -> Clients \cup {NoClient}]
    BY DEF TypeOK
  <1>2. /\ row \in [Fds -> Clients \cup {NoClient}]
        /\ \A f \in Fds : row[f] = IF f = k THEN v ELSE table[s][f]
    BY <1>1
  <1> HIDE DEF row
  <1> QED BY <1>2 DEF TypeOK

LEMMA InitInv == Init => IInv
  <1> SUFFICES ASSUME Init PROVE IInv
    OBVIOUS
  <1> USE ServerAssumption DEF Init, SInit, ServerAssumption
  <1>1. failed \in BOOLEAN /\ accRun \in BOOLEAN /\ run \in [Servers -> BOOLEAN]
    BY Zenon
  <1>2. TypeOK
    BY <1>1 DEF TypeOK, Servers
  <1>3. CurInv /\ SockInv /\ MainInv
    BY DEF CurInv, SockInv, MainInv, Alive
  <1>4. PendInv /\ TableInv /\ VictimInv
    BY DEF PendInv, TableInv, VictimInv
  <1> QED BY <1>2, <1>3, <1>4 DEF IInv, Safe

LEMMA AcceptTypes ==
  ASSUME TypeOK, MainInv, CurInv,
         \/ AcceptStep \/ AcceptFails
         \/ \E c \in Clients, fd \in Fds : Accept(c, fd)
  PROVE  TypeOK' /\ MainInv'
  <1>1. CASE AcceptTop
    BY <1>1 DEF AcceptTop, TypeOK, MainInv, GoAccept, clientVars, serverVars, mainVars
  <1>2. CASE AcceptIdle
    BY <1>2 DEF AcceptIdle, TypeOK, MainInv, GoAccept, clientVars, serverVars,
       mainVars
  <1>3. CASE AcceptFails
    BY <1>3 DEF AcceptFails, TypeOK, MainInv, GoAccept, clientVars, serverVars,
       mainVars
  <1>4. CASE AcceptExit
    BY <1>4 DEF AcceptExit, TypeOK, MainInv, GoAccept, clientVars, serverVars,
       mainVars
  <1>5. CASE AcceptClient
    BY <1>5, ServerAssumption DEF AcceptClient, TypeOK, MainInv, CurInv, GoAccept,
       serverVars, mainVars, Servers
  <1>6. CASE RefuseClient
    BY <1>6 DEF RefuseClient, TypeOK, MainInv, GoAccept, serverVars, mainVars,
       DeleteClients
  <1>7. CASE ScanServer
    BY <1>7, ServerAssumption DEF ScanServer, TypeOK, MainInv, clientVars, serverVars,
       mainVars, Servers
  <1>8. CASE addClient
    BY <1>8 DEF addClient, TypeOK, MainInv, CurInv, GoAccept, clientVars, mainVars
  <1>9. ASSUME NEW c \in Clients, NEW fd \in Fds, Accept(c, fd) PROVE TypeOK' /\ MainInv'
    BY <1>9 DEF Accept, TypeOK, MainInv, GoAccept, serverVars, mainVars
  <1> QED BY <1>1, <1>2, <1>3, <1>4, <1>5, <1>6, <1>7, <1>8, <1>9 DEF AcceptStep

LEMMA MainTypes ==
  ASSUME TypeOK, MainInv, CloseAccept \/ MainStep
  PROVE  TypeOK' /\ MainInv'
  <1>1. CASE CloseAccept
    BY <1>1 DEF CloseAccept, TypeOK, MainInv, GoMain, clientVars, serverVars
  <1>2. CASE AcceptJoined
    BY <1>2 DEF AcceptJoined, TypeOK, MainInv, GoMain, clientVars, serverVars, accVars
  <1>3. CASE CloseServer
    BY <1>3 DEF CloseServer, TypeOK, MainInv, GoMain, clientVars, accVars
  <1>4. CASE ServerJoined
    BY <1>4, ServerAssumption DEF ServerJoined, TypeOK, MainInv, GoMain, ServerGone,
       clientVars, serverVars, accVars, Servers
  <1>5. CASE ServerSkipped
    BY <1>5, ServerAssumption DEF ServerSkipped, TypeOK, MainInv, GoMain, ServerGone,
       clientVars, serverVars, accVars, Servers
  <1>6. CASE CloseEnds
    BY <1>6 DEF CloseEnds, TypeOK, MainInv, GoMain, clientVars, serverVars, accVars
  <1> QED BY <1>1, <1>2, <1>3, <1>4, <1>5, <1>6 DEF MainStep

LEMMA ServiceTypes ==
  ASSUME TypeOK, MainInv, VictimInv, NEW s \in Servers,
         UNCHANGED <<accVars, mainVars>>,
         ServerStep(s) \/ ExitLocked(s) \/ ServerLoss(s)
  PROVE  TypeOK' /\ MainInv'
  <1>1. CASE LoopTop(s)
    BY <1>1 DEF LoopTop, TypeOK, MainInv, Go, clientVars, accVars, mainVars
  <1>2. CASE PeekBuffer(s)
    BY <1>2 DEF PeekBuffer, TypeOK, MainInv, Go, AfterJoin, clientVars, accVars,
       mainVars
  <1>3. CASE JoinDone(s)
    BY <1>3 DEF JoinDone, TypeOK, MainInv, Go, AfterJoin, clientVars, accVars,
       mainVars
  <1>4. CASE TimeErase(s)
    BY <1>4 DEF TimeErase, TypeOK, MainInv, Go, clientVars, accVars, mainVars
  <1>5. CASE TimeEnd(s)
    BY <1>5 DEF TimeEnd, TypeOK, MainInv, Go, clientVars, accVars, mainVars
  <1>6. CASE OnClientLeave(s)
    BY <1>6 DEF OnClientLeave, TypeOK, MainInv, Go, DeleteClients, accVars, mainVars
  <1>7. CASE EventsEnd(s)
    BY <1>7 DEF EventsEnd, TypeOK, MainInv, Go, clientVars, accVars, mainVars
  <1>8. CASE ClearTable(s)
    BY <1>8 DEF ClearTable, TypeOK, MainInv, Go, DeleteClients, accVars, mainVars
  <1>9. CASE ClearBuffer(s)
    BY <1>9 DEF ClearBuffer, TypeOK, MainInv, Go, DeleteClients, accVars, mainVars
  <1>10. CASE WaitFails(s)
    BY <1>10 DEF WaitFails, TypeOK, MainInv, Go, clientVars, accVars, mainVars
  <1>11. CASE ExitLocked(s)
    BY <1>11 DEF ExitLocked, TypeOK, MainInv, Go, clientVars, accVars, mainVars
  <1>12. ASSUME NEW c \in Clients, JoinOne(s, c) PROVE TypeOK' /\ MainInv'
    <2>1. table' \in [Servers -> [Fds -> Clients \cup {NoClient}]]
      BY <1>12, TableUpdate DEF JoinOne
    <2> QED BY <1>12, <2>1 DEF JoinOne, TypeOK, MainInv, accVars, mainVars
  <1>13. ASSUME NEW fd \in Fds, TimeDead(s, fd) PROVE TypeOK' /\ MainInv'
    BY <1>13 DEF TimeDead, TypeOK, MainInv, Go, DeleteClients, accVars, mainVars
  <1>14. ASSUME NEW fd \in Fds, EventLost(s, fd) PROVE TypeOK' /\ MainInv'
    <2>1. table' \in [Servers -> [Fds -> Clients \cup {NoClient}]]
      BY <1>14, TableUpdate DEF EventLost
    <2> QED BY <1>14, <2>1 DEF EventLost, TypeOK, MainInv, Go, clientVars, accVars,
               mainVars
  <1> QED BY <1>1, <1>2, <1>3, <1>4, <1>5, <1>6, <1>7, <1>8, <1>9, <1>10, <1>11,
             <1>12, <1>13, <1>14 DEF ServerStep, ServerLoss


-----------------------------------------------------------------------------
(* Safety *)

\* Steps that touch no client and no table, and whose change of place is not
\* one the invariant looks at.
Hand == {"limit", "scan"}
Drop == {"erase", "leave"}

LEMMA QuietSafe ==
  ASSUME TypeOK, Safe,
         UNCHANGED <<obj, sock, openFds, table, pending, victim, cur>>,
         apc' = apc \/ (apc \notin Hand /\ apc' \notin Hand),
         \A s \in Servers :
           spc'[s] = spc[s] \/ (spc[s] \notin Drop /\ spc'[s] \notin Drop)
  PROVE  Safe'
  <1>1. CurInv' /\ SockInv'
    BY DEF Safe, CurInv, SockInv, Hand
  <1>2. PendInv'
    BY DEF Safe, PendInv
  <1>3. TableInv'
    BY DEF Safe, TableInv, Drop
  <1>4. VictimInv'
    BY DEF Safe, VictimInv, Drop
  <1> QED BY <1>1, <1>2, <1>3, <1>4 DEF Safe

LEMMA AcceptSafe ==
  ASSUME TypeOK, Safe, NEW c \in Clients, NEW fd \in Fds, Accept(c, fd)
  PROVE  Safe'
  <1>1. CurInv'
    BY ServerAssumption DEF Accept, GoAccept, TypeOK, Safe, CurInv
  <1>2. SockInv'
    BY DEF Accept, TypeOK, Safe, SockInv
  <1>3. PendInv'
    BY DEF Accept, serverVars, Safe, PendInv
  <1>4. TableInv'
    BY DEF Accept, serverVars, Safe, TableInv, VictimInv
  <1>5. VictimInv'
    BY DEF Accept, serverVars, Safe, VictimInv
  <1> QED BY <1>1, <1>2, <1>3, <1>4, <1>5 DEF Safe

LEMMA AcceptClientSafe ==
  ASSUME TypeOK, Safe, AcceptClient
  PROVE  Safe'
  <1>1. CurInv'
    BY DEF AcceptClient, GoAccept, TypeOK, Safe, CurInv
  <1>2. SockInv'
    BY ServerAssumption DEF AcceptClient, Safe, CurInv, SockInv, Alive
  <1>3. PendInv'
    BY DEF AcceptClient, serverVars, Safe, PendInv
  <1>4. TableInv'
    BY DEF AcceptClient, serverVars, Safe, TableInv
  <1>5. VictimInv'
    BY ServerAssumption DEF AcceptClient, serverVars, Safe, VictimInv
  <1> QED BY <1>1, <1>2, <1>3, <1>4, <1>5 DEF Safe

LEMMA RefuseClientSafe ==
  ASSUME TypeOK, Safe, RefuseClient
  PROVE  Safe'
  <1>1. CurInv'
    BY DEF RefuseClient, DeleteClients, GoAccept, Safe, CurInv
  <1>2. SockInv'
    BY DEF RefuseClient, DeleteClients, GoAccept, Safe, CurInv, SockInv, Alive
  <1>3. PendInv'
    BY ServerAssumption DEF RefuseClient, DeleteClients, serverVars, TypeOK, Safe,
       PendInv
  <1>4. TableInv'
    BY DEF RefuseClient, DeleteClients, serverVars, TypeOK, Safe, TableInv
  <1>5. VictimInv'
    BY ServerAssumption DEF RefuseClient, DeleteClients, serverVars, Safe, VictimInv
  <1> QED BY <1>1, <1>2, <1>3, <1>4, <1>5 DEF Safe

LEMMA addClientSafe ==
  ASSUME TypeOK, Safe, addClient
  PROVE  Safe'
  <1>1. CurInv'
    BY DEF addClient, GoAccept, clientVars, Safe, CurInv
  <1>2. SockInv'
    BY DEF addClient, clientVars, Safe, SockInv
  <1>3. PendInv'
    BY ServerAssumption DEF addClient, GoAccept, clientVars, TypeOK, Safe, CurInv,
       PendInv, TableInv, VictimInv
  <1>4. TableInv'
    BY DEF addClient, clientVars, Safe, TableInv
  <1>5. VictimInv'
    BY DEF addClient, clientVars, Safe, VictimInv
  <1> QED BY <1>1, <1>2, <1>3, <1>4, <1>5 DEF Safe

LEMMA JoinOneSafe ==
  ASSUME TypeOK, Safe, NEW s \in Servers, NEW c \in Clients, JoinOne(s, c),
         UNCHANGED <<accVars>>
  PROVE  Safe'
  <1>1. CurInv'
    BY DEF JoinOne, accVars, Safe, CurInv
  <1>2. SockInv'
    BY DEF JoinOne, Safe, SockInv
  <1>3. PendInv'
    BY DEF JoinOne, accVars, TypeOK, Safe, PendInv
  <1>4. TableInv'
    BY DEF JoinOne, accVars, Safe, PendInv, TableInv
  <1>5. VictimInv'
    BY DEF JoinOne, accVars, Safe, VictimInv
  <1> QED BY <1>1, <1>2, <1>3, <1>4, <1>5 DEF Safe

LEMMA TimeDeadSafe ==
  ASSUME TypeOK, Safe, NEW s \in Servers, NEW fd \in Fds, TimeDead(s, fd),
         UNCHANGED <<accVars>>
  PROVE  Safe'
  <1>1. CurInv'
    BY DEF TimeDead, DeleteClients, accVars, Safe, CurInv, TableInv
  <1>2. SockInv'
    BY DEF TimeDead, Go, DeleteClients, TypeOK, Safe, SockInv, TableInv, Alive
  <1>3. PendInv'
    BY DEF TimeDead, DeleteClients, accVars, TypeOK, Safe, PendInv
  <1>4. TableInv'
    BY DEF TimeDead, Go, DeleteClients, accVars, TypeOK, Safe, TableInv
  <1>5. VictimInv'
    BY DEF TimeDead, Go, DeleteClients, accVars, TypeOK, Safe, TableInv, VictimInv
  <1> QED BY <1>1, <1>2, <1>3, <1>4, <1>5 DEF Safe

LEMMA TimeEraseSafe ==
  ASSUME TypeOK, Safe, NEW s \in Servers, TimeErase(s),
         UNCHANGED <<accVars>>
  PROVE  Safe'
  <1>0. \A t \in Servers, f \in Fds :
          table'[t][f] = IF t = s /\ f = sock[victim[s]] THEN NoClient ELSE table[t][f]
    BY TableUpdate DEF TimeErase
  <1>1. CurInv'
    BY DEF TimeErase, clientVars, accVars, Safe, CurInv
  <1>2. SockInv'
    BY DEF TimeErase, clientVars, Safe, SockInv
  <1>3. PendInv'
    BY ServerAssumption DEF TimeErase, clientVars, accVars, TypeOK, Safe, PendInv
  <1>4. TableInv'
    BY <1>0 DEF TimeErase, Go, clientVars, accVars, Safe, TableInv
  <1>5. VictimInv'
    BY DEF TimeErase, Go, clientVars, accVars, TypeOK, Safe, VictimInv
  <1> QED BY <1>1, <1>2, <1>3, <1>4, <1>5 DEF Safe

LEMMA EventLostSafe ==
  ASSUME TypeOK, Safe, NEW s \in Servers, NEW fd \in Fds, EventLost(s, fd),
         UNCHANGED <<accVars>>
  PROVE  Safe'
  <1>1. CurInv'
    BY DEF EventLost, clientVars, accVars, Safe, CurInv
  <1>2. SockInv'
    BY DEF EventLost, clientVars, Safe, SockInv
  <1>3. PendInv'
    BY ServerAssumption DEF EventLost, clientVars, accVars, TypeOK, Safe, PendInv
  <1>4. TableInv'
    BY DEF EventLost, Go, clientVars, accVars, Safe, TableInv
  <1>5. VictimInv'
    BY DEF EventLost, Go, clientVars, accVars, TypeOK, Safe, TableInv, VictimInv
  <1> QED BY <1>1, <1>2, <1>3, <1>4, <1>5 DEF Safe

LEMMA OnClientLeaveSafe ==
  ASSUME TypeOK, Safe, NEW s \in Servers, OnClientLeave(s),
         UNCHANGED <<accVars>>
  PROVE  Safe'
  <1>1. CurInv'
    BY ServerAssumption DEF OnClientLeave, DeleteClients, accVars, Safe, CurInv,
       VictimInv
  <1>2. SockInv'
    BY DEF OnClientLeave, Go, DeleteClients, Safe, SockInv, VictimInv, Alive
  <1>3. PendInv'
    BY ServerAssumption DEF OnClientLeave, DeleteClients, accVars, TypeOK, Safe,
       PendInv
  <1>4. TableInv'
    BY DEF OnClientLeave, Go, DeleteClients, accVars, TypeOK, Safe, TableInv,
       VictimInv
  <1>5. VictimInv'
    BY ServerAssumption DEF OnClientLeave, Go, DeleteClients, accVars, TypeOK, Safe,
       VictimInv
  <1> QED BY <1>1, <1>2, <1>3, <1>4, <1>5 DEF Safe

LEMMA ClearTableSafe ==
  ASSUME TypeOK, Safe, NEW s \in Servers, ClearTable(s),
         UNCHANGED <<accVars>>
  PROVE  Safe'
  <1>1. CurInv'
    BY DEF ClearTable, DeleteClients, Members, Keys, accVars, Safe, CurInv, TableInv
  <1>2. SockInv'
    BY DEF ClearTable, Go, DeleteClients, Members, Keys, TypeOK, Safe, SockInv,
       TableInv, Alive
  <1>3. PendInv'
    BY ServerAssumption DEF ClearTable, DeleteClients, Members, Keys, accVars, TypeOK,
       Safe, PendInv
  <1>4. TableInv'
    BY DEF ClearTable, Go, DeleteClients, Members, Keys, accVars, TypeOK, Safe,
       TableInv
  <1>5. VictimInv'
    BY DEF ClearTable, Go, DeleteClients, Members, Keys, accVars, Safe, TableInv,
       VictimInv
  <1> QED BY <1>1, <1>2, <1>3, <1>4, <1>5 DEF Safe

LEMMA ClearBufferSafe ==
  ASSUME TypeOK, Safe, NEW s \in Servers, ClearBuffer(s),
         UNCHANGED <<accVars>>
  PROVE  Safe'
  <1>1. CurInv'
    BY DEF ClearBuffer, DeleteClients, accVars, Safe, CurInv, PendInv
  <1>2. SockInv'
    BY DEF ClearBuffer, DeleteClients, TypeOK, Safe, SockInv, PendInv, Alive
  <1>3. PendInv'
    BY DEF ClearBuffer, DeleteClients, accVars, TypeOK, Safe, PendInv
  <1>4. TableInv'
    BY DEF ClearBuffer, Go, DeleteClients, accVars, TypeOK, Safe, PendInv, TableInv
  <1>5. VictimInv'
    BY DEF ClearBuffer, Go, DeleteClients, accVars, Safe, PendInv, VictimInv
  <1> QED BY <1>1, <1>2, <1>3, <1>4, <1>5 DEF Safe

-----------------------------------------------------------------------------
(* The theorems *)

LEMMA ServiceSafe ==
  ASSUME TypeOK, Safe, NEW s \in Servers, UNCHANGED <<accVars, mainVars>>,
         ServerStep(s) \/ ExitLocked(s) \/ ServerLoss(s)
  PROVE  Safe'
  <1>1. CASE \/ LoopTop(s) \/ PeekBuffer(s) \/ JoinDone(s) \/ TimeEnd(s)
             \/ EventsEnd(s) \/ WaitFails(s) \/ ExitLocked(s)
    <2>1. UNCHANGED <<obj, sock, openFds, table, pending, victim, cur, apc>>
      BY <1>1 DEF LoopTop, PeekBuffer, JoinDone, TimeEnd, EventsEnd, WaitFails,
         ExitLocked, clientVars, accVars
    <2>2. \A t \in Servers :
            spc'[t] = spc[t] \/ (spc[t] \notin Drop /\ spc'[t] \notin Drop)
      BY <1>1 DEF LoopTop, PeekBuffer, JoinDone, TimeEnd, EventsEnd, WaitFails,
         ExitLocked, Go, AfterJoin, Drop, TypeOK
    <2> QED BY <2>1, <2>2, QuietSafe
  <1>2. CASE \E c \in Clients : JoinOne(s, c)
    BY <1>2, JoinOneSafe
  <1>3. CASE \E fd \in Fds : TimeDead(s, fd) \/ EventLost(s, fd)
    BY <1>3, TimeDeadSafe, EventLostSafe
  <1>4. CASE TimeErase(s) \/ OnClientLeave(s) \/ ClearTable(s) \/ ClearBuffer(s)
    BY <1>4, TimeEraseSafe, OnClientLeaveSafe, ClearTableSafe, ClearBufferSafe
  <1> QED BY <1>1, <1>2, <1>3, <1>4 DEF ServerStep, ServerLoss

LEMMA AcceptSafeAll ==
  ASSUME TypeOK, Safe,
         \/ AcceptStep \/ AcceptFails
         \/ \E c \in Clients, fd \in Fds : Accept(c, fd)
  PROVE  Safe'
  <1>1. CASE AcceptTop \/ AcceptIdle \/ AcceptFails \/ AcceptExit \/ ScanServer
    BY <1>1, QuietSafe DEF AcceptTop, AcceptIdle, AcceptFails, AcceptExit, ScanServer,
       GoAccept, clientVars, serverVars, Hand
  <1>2. CASE AcceptClient \/ RefuseClient \/ addClient
    BY <1>2, AcceptClientSafe, RefuseClientSafe, addClientSafe
  <1>3. CASE \E c \in Clients, fd \in Fds : Accept(c, fd)
    BY <1>3, AcceptSafe
  <1> QED BY <1>1, <1>2, <1>3 DEF AcceptStep

LEMMA MainSafe ==
  ASSUME TypeOK, Safe, CloseAccept \/ MainStep
  PROVE  Safe'
  BY QuietSafe DEF MainStep, CloseAccept, AcceptJoined, CloseServer, ServerJoined,
     ServerSkipped, CloseEnds, ServerGone, clientVars, serverVars, accVars

LEMMA NextInv == IInv /\ [Next]_vars => IInv'
  <1> SUFFICES ASSUME IInv, [Next]_vars PROVE IInv'
    OBVIOUS
  <1> USE DEF IInv
  <1>1. CASE \/ AcceptStep \/ AcceptFails
             \/ \E c \in Clients, fd \in Fds : Accept(c, fd)
    BY <1>1, AcceptTypes, AcceptSafeAll DEF Safe
  <1>2. CASE \E s \in Servers : ServiceStep(s) \/ ServiceExit(s) \/ ServiceLoss(s)
    BY <1>2, ServiceTypes, ServiceSafe DEF Safe, ServiceStep, ServiceExit, ServiceLoss
  <1>3. CASE CloseAccept \/ MainStep
    BY <1>3, MainTypes, MainSafe
  <1>4. CASE UNCHANGED vars
    BY <1>4 DEF vars, clientVars, serverVars, accVars, mainVars, TypeOK, MainInv,
       Safe, CurInv, SockInv, PendInv, TableInv, VictimInv
  <1> QED BY <1>1, <1>2, <1>3, <1>4 DEF Next

THEOREM ServerInvariance == Spec => []IInv
  BY InitInv, NextInv, PTL DEF Spec

\* Types, for any number of threads and connections.
THEOREM ServerTypes == Spec => []TypeOK
  <1>1. IInv => TypeOK
    BY DEF IInv
  <1> QED BY <1>1, ServerInvariance, PTL

\* No thread can follow a pointer to a deleted client: what the tables and
\* buffers of CELLServer.hpp hold is alive, but for the entry being erased.
THEOREM NoClientDangles == Spec => []NoDanglingClient
  <1>1. IInv => NoDanglingClient
    BY DEF IInv, Safe, PendInv, TableInv, VictimInv, NoDanglingClient, Members, Keys
  <1> QED BY <1>1, ServerInvariance, PTL

LEMMA Owners == IInv => OneOwner
  <1> SUFFICES ASSUME IInv, NEW c \in Clients, NEW s \in Servers, Holds(s, c)
               PROVE  /\ cur # c
                      /\ \A t \in Servers : Holds(t, c) => s = t
                      /\ c \in pending[s] => c \notin Members(s) /\ victim[s] # c
    BY DEF OneOwner
  <1>1. \A t \in Servers : c \in Members(t) <=> \E f \in Fds : table[t][f] = c
    BY ServerAssumption DEF Members, Keys
  <1>2. c # NoClient
    BY ServerAssumption
  <1>3. cur # c
    BY <1>1, <1>2 DEF IInv, Safe, PendInv, TableInv, VictimInv, Holds
  <1>4. ASSUME NEW t \in Servers, Holds(t, c) PROVE s = t
    BY <1>1, <1>2, <1>4 DEF IInv, Safe, PendInv, TableInv, VictimInv, Holds
  <1>5. c \in pending[s] => c \notin Members(s) /\ victim[s] # c
    BY <1>1 DEF IInv, Safe, PendInv
  <1> QED BY <1>3, <1>4, <1>5

\* A client object belongs to one thread at a time.
THEOREM EveryClientHasOneOwner == Spec => []OneOwner
  BY Owners, ServerInvariance, PTL

\* The entry a client joins under is free: its socket is its own.
LEMMA FreshEntries == IInv => JoinNeverOverwrites
  <1> SUFFICES ASSUME IInv PROVE JoinNeverOverwrites
    OBVIOUS
  <1>1. ASSUME NEW s \in Servers, spc[s] = "join", NEW c \in pending[s]
        PROVE  table[s][sock[c]] = NoClient
    <2>1. c \in Clients /\ obj[c] = "object" /\ sock[c] \in Fds
      BY DEF IInv, TypeOK, Safe, PendInv, SockInv, Alive
    <2>2. SUFFICES ASSUME table[s][sock[c]] # NoClient PROVE FALSE
      OBVIOUS
    <2>3. /\ table[s][sock[c]] \in Clients
          /\ sock[table[s][sock[c]]] = sock[c]
          /\ obj[table[s][sock[c]]] = "object"
      BY <1>1, <2>1, <2>2 DEF IInv, TypeOK, Safe, TableInv
    <2>4. table[s][sock[c]] = c
      BY <2>1, <2>3 DEF IInv, Safe, SockInv, Alive
    <2> QED BY <2>1, <2>4 DEF IInv, Safe, PendInv
  <1> QED BY <1>1 DEF IInv, Safe, TableInv, JoinNeverOverwrites

\* The reuse of socket numbers never makes the join of CELLServer.hpp:54 write
\* over the entry of another client.
THEOREM JoinsAreFresh == Spec => []JoinNeverOverwrites
  BY FreshEntries, ServerInvariance, PTL

-----------------------------------------------------------------------------
(* The order of Close() *)

\* The service threads are closed after the accept thread has ended, and only
\* an epoll failure makes one of them end before.
OrderInv ==
  /\ mpc = "up" /\ ~accRun => apc = "stopped"
  /\ mpc \in {"servers", "joinServer", "closed"} => apc = "stopped"
  /\ \A s \in Servers : spc[s] = "exit" => failed
  /\ ~failed /\ apc # "stopped" => \A s \in Servers : run[s]

LEMMA OrderInit == Init => OrderInv
  BY DEF Init, SInit, OrderInv

LEMMA OrderNext == TypeOK /\ OrderInv /\ [Next]_vars => OrderInv'
  <1> SUFFICES ASSUME TypeOK, OrderInv, [Next]_vars PROVE OrderInv'
    OBVIOUS
  <1> USE DEF OrderInv
  <1>1. CASE \/ AcceptStep \/ AcceptFails
             \/ \E c \in Clients, fd \in Fds : Accept(c, fd)
    BY <1>1 DEF AcceptStep, AcceptTop, AcceptIdle, AcceptFails, AcceptExit,
       AcceptClient, RefuseClient, ScanServer, addClient, Accept, GoAccept, serverVars,
       mainVars
  <1>2. ASSUME NEW s \in Servers, ServiceStep(s) PROVE OrderInv'
    <2>1. UNCHANGED <<accVars, mainVars, run, failed>>
      BY <1>2 DEF ServiceStep, ServerStep, LoopTop, PeekBuffer, JoinOne, JoinDone,
         TimeErase, TimeEnd, OnClientLeave, EventsEnd, ClearTable, ClearBuffer
    <2>2. \A t \in Servers : spc'[t] = "exit" => spc[t] = "exit"
      BY <1>2 DEF ServiceStep, ServerStep, LoopTop, PeekBuffer, JoinOne, JoinDone,
         TimeErase, TimeEnd, OnClientLeave, EventsEnd, ClearTable, ClearBuffer, Go,
         AfterJoin, TypeOK
    <2> QED BY <2>1, <2>2 DEF accVars, mainVars
  <1>3. ASSUME NEW s \in Servers, ServiceExit(s) PROVE OrderInv'
    BY <1>3 DEF ServiceExit, ExitLocked, Go, accVars, mainVars
  <1>4. ASSUME NEW s \in Servers, ServiceLoss(s) PROVE OrderInv'
    <2>1. CASE WaitFails(s)
      BY <1>4, <2>1 DEF ServiceLoss, WaitFails, accVars, mainVars
    <2>2. ASSUME NEW fd \in Fds, TimeDead(s, fd) \/ EventLost(s, fd) PROVE OrderInv'
      <3>1. UNCHANGED <<accVars, mainVars, run, failed>>
        BY <1>4, <2>2 DEF ServiceLoss, TimeDead, EventLost
      <3>2. \A t \in Servers : spc'[t] = "exit" => spc[t] = "exit"
        BY <2>2 DEF TimeDead, EventLost, Go, TypeOK
      <3> QED BY <3>1, <3>2 DEF accVars, mainVars
    <2> QED BY <1>4, <2>1, <2>2 DEF ServiceLoss, ServerLoss
  <1>5. CASE CloseAccept \/ MainStep
    BY <1>5 DEF MainStep, CloseAccept, AcceptJoined, CloseServer, ServerJoined,
       ServerSkipped, CloseEnds, ServerGone, GoMain, serverVars, accVars
  <1>6. CASE UNCHANGED vars
    BY <1>6 DEF vars, serverVars, accVars, mainVars
  <1> QED BY <1>1, <1>2, <1>3, <1>4, <1>5, <1>6 DEF Next

\* Close() ends the accept thread first (EasyTcpServer.hpp:199), so that no
\* client is handed to a thread that is being closed.
THEOREM HandOverIsLive == Spec => []HandedToTheLiving
  <1>1. OrderInv => HandedToTheLiving
    BY DEF OrderInv, HandedToTheLiving
  <1> QED BY <1>1, OrderInit, OrderNext, ServerTypes, PTL DEF Spec

-----------------------------------------------------------------------------
(* The connection count *)

Leaving == {s \in Servers : spc[s] = "leave"}
Counting == \A s \in Servers : spc[s] \notin {"clearBuffer", "done"}

LEMMA CountedFinite ==
  /\ IsFiniteSet(Counted) /\ Cardinality(Counted) \in Nat
  /\ IsFiniteSet(Leaving) /\ Cardinality(Leaving) \in Nat
  <1>0. IsFiniteSet(Servers) /\ IsFiniteSet(Fds)
    BY ServerAssumption, FS_Interval DEF ServerAssumption, Servers
  <1>1. IsFiniteSet(Servers \X Fds)
    BY <1>0, FS_Product
  <1>2. Counted \subseteq Servers \X Fds /\ Leaving \subseteq Servers
    BY DEF Counted, Leaving
  <1>3. IsFiniteSet(Counted) /\ IsFiniteSet(Leaving)
    BY <1>0, <1>1, <1>2, FS_Subset
  <1> QED BY <1>3, FS_CardinalityType

\* CheckTime() finds the dead client's entry where it left it.
EraseInv == \A s \in Servers : spc[s] = "erase" => table[s][sock[victim[s]]] = victim[s]

LEMMA EraseNext ==
  ASSUME IInv, EraseInv, [Next]_vars
  PROVE  EraseInv'
  <1>1. CASE AcceptStep \/ AcceptFails \/ CloseAccept \/ MainStep \/ UNCHANGED vars
    BY <1>1 DEF EraseInv, AcceptStep, AcceptTop, AcceptIdle, AcceptFails, AcceptExit,
       AcceptClient, RefuseClient, DeleteClients, ScanServer, addClient, CloseAccept,
       MainStep, AcceptJoined, CloseServer, ServerJoined, ServerSkipped, CloseEnds,
       ServerGone, vars, serverVars, clientVars
  <1>2. ASSUME NEW c \in Clients, NEW fd \in Fds, Accept(c, fd) PROVE EraseInv'
    <2>1. /\ UNCHANGED <<table, victim, spc>> /\ sock' = [sock EXCEPT ![c] = fd]
          /\ obj[c] = "none"
      BY <1>2 DEF Accept, serverVars
    <2> QED BY <2>1 DEF EraseInv, IInv, TypeOK, Safe, VictimInv
  <1>3. ASSUME NEW s \in Servers, ServerStep(s) \/ ExitLocked(s) \/ ServerLoss(s)
        PROVE  EraseInv'
    <2>1. UNCHANGED sock
      BY <1>3 DEF ServerStep, ServerLoss, LoopTop, PeekBuffer, JoinDone, TimeErase, TimeEnd,
         OnClientLeave, EventsEnd, ClearTable, ClearBuffer, JoinOne, WaitFails, TimeDead,
         EventLost, ExitLocked, DeleteClients, clientVars
    <2>2. \A t \in Servers : t # s =>
            table'[t] = table[t] /\ victim'[t] = victim[t] /\ spc'[t] = spc[t]
      BY <1>3 DEF ServerStep, ServerLoss, LoopTop, PeekBuffer, JoinDone, TimeErase, TimeEnd,
         OnClientLeave, EventsEnd, ClearTable, ClearBuffer, JoinOne, WaitFails, TimeDead,
         EventLost, ExitLocked, Go, IInv, TypeOK
    <2>3. spc'[s] = "erase" => \E fd \in Fds : TimeDead(s, fd)
      <3>1. LoopTop(s) \/ PeekBuffer(s) \/ JoinDone(s) \/ EventsEnd(s) \/ WaitFails(s)
              \/ ExitLocked(s) => spc'[s] # "erase"
        BY DEF LoopTop, PeekBuffer, JoinDone, EventsEnd, WaitFails, ExitLocked, AfterJoin, Go,
           IInv, TypeOK
      <3>2. TimeErase(s) \/ TimeEnd(s) \/ OnClientLeave(s) \/ ClearTable(s) \/ ClearBuffer(s)
              => spc'[s] # "erase"
        BY DEF TimeErase, TimeEnd, OnClientLeave, ClearTable, ClearBuffer, Go, IInv, TypeOK
      <3>3. (\E c \in Clients : JoinOne(s, c)) \/ (\E fd \in Fds : EventLost(s, fd))
              => spc'[s] # "erase"
        BY DEF JoinOne, EventLost, Go, IInv, TypeOK
      <3> QED BY <1>3, <3>1, <3>2, <3>3 DEF ServerStep, ServerLoss
    <2>4. spc'[s] = "erase" => table'[s][sock'[victim'[s]]] = victim'[s]
      <3> SUFFICES ASSUME spc'[s] = "erase" PROVE table'[s][sock'[victim'[s]]] = victim'[s]
        OBVIOUS
      <3>1. PICK fd \in Fds : TimeDead(s, fd)
        BY <2>3
      <3>2. table[s][fd] # NoClient /\ victim'[s] = table[s][fd] /\ table' = table
        BY <3>1 DEF TimeDead, IInv, TypeOK
      <3>3. sock[table[s][fd]] = fd
        BY <3>2 DEF IInv, Safe, TableInv
      <3> QED BY <2>1, <3>2, <3>3
    <2> QED BY <2>1, <2>2, <2>4 DEF EraseInv
  <1> QED BY <1>1, <1>2, <1>3 DEF Next, ServiceStep, ServiceExit, ServiceLoss

\* A thread that has begun to clear its table never counts again.
LEMMA CountingEnds ==
  ASSUME TypeOK, [Next]_vars, Counting'
  PROVE  Counting
  <1>1. CASE AcceptStep \/ AcceptFails \/ (\E c \in Clients, fd \in Fds : Accept(c, fd))
             \/ CloseAccept \/ MainStep \/ UNCHANGED vars
    BY <1>1 DEF Counting, AcceptStep, AcceptTop, AcceptIdle, AcceptFails, AcceptExit,
       AcceptClient, RefuseClient, ScanServer, addClient, Accept, CloseAccept, MainStep,
       AcceptJoined, CloseServer, ServerJoined, ServerSkipped, CloseEnds, ServerGone,
       vars, serverVars
  <1>2. ASSUME NEW s \in Servers, ServerStep(s) \/ ExitLocked(s) \/ ServerLoss(s)
        PROVE  Counting
    <2>1. \A t \in Servers : t # s => spc'[t] = spc[t]
      BY <1>2 DEF ServerStep, ServerLoss, LoopTop, PeekBuffer, JoinDone, TimeErase, TimeEnd,
         OnClientLeave, EventsEnd, ClearTable, ClearBuffer, JoinOne, WaitFails, TimeDead,
         EventLost, ExitLocked, Go, TypeOK
    <2>2. spc[s] # "done" /\ (spc[s] = "clearBuffer" => spc'[s] = "done")
      BY <1>2 DEF ServerStep, ServerLoss, LoopTop, PeekBuffer, JoinDone, TimeErase, TimeEnd,
         OnClientLeave, EventsEnd, ClearTable, ClearBuffer, JoinOne, WaitFails, TimeDead,
         EventLost, ExitLocked, Go, TypeOK
    <2> QED BY <2>1, <2>2 DEF Counting
  <1> QED BY <1>1, <1>2 DEF Next, ServiceStep, ServiceExit, ServiceLoss

\* A step that leaves the tables, and the places where a client is dropped,
\* as they are leaves the count as it is.
LEMMA CountUnseen ==
  ASSUME UNCHANGED <<table, victim>>,
         \A s \in Servers : spc'[s] = spc[s] \/ (spc[s] \notin Drop /\ spc'[s] \notin Drop)
  PROVE  Counted' = Counted /\ Leaving' = Leaving
  <1>1. \A s \in Servers, f \in Fds : Erasing(s, f)' <=> Erasing(s, f)
    BY DEF Erasing, Drop
  <1> QED BY <1>1 DEF Counted, Leaving, Drop

\* An entry is the client's own: no other one of the table is erased with it.
LEMMA JoinOneCount ==
  ASSUME IInv, NEW s \in Servers, NEW c \in Clients, JoinOne(s, c)
  PROVE  /\ Cardinality(Counted') = Cardinality(Counted) + 1
         /\ Leaving' = Leaving
  <1> DEFINE p == <<s, sock[c]>>
  <1>1. /\ c \in pending[s] /\ spc[s] = "join" /\ UNCHANGED <<spc, victim, sock>>
        /\ table' = [table EXCEPT ![s][sock[c]] = c] /\ c # NoClient
    BY ServerAssumption DEF JoinOne
  <1>2. sock[c] \in Fds
    BY <1>1 DEF IInv, TypeOK, Safe, PendInv, SockInv, Alive
  <1>3. table[s][sock[c]] = NoClient
    BY <1>1, FreshEntries DEF JoinNeverOverwrites
  <1>4. \A t \in Servers, f \in Fds :
          table'[t][f] = IF t = s /\ f = sock[c] THEN c ELSE table[t][f]
    BY <1>1, TableUpdate DEF IInv
  <1>5. Counted' = Counted \cup {p} /\ p \notin Counted
    <2>1. ASSUME NEW t \in Servers, NEW f \in Fds
          PROVE  <<t, f>> \in Counted' <=> <<t, f>> \in Counted \/ <<t, f>> = p
      <3>1. CASE t = s /\ f = sock[c]
        BY <1>1, <1>4, <3>1 DEF Counted, Erasing
      <3>2. CASE ~(t = s /\ f = sock[c])
        BY <1>1, <1>4, <3>2 DEF Counted, Erasing
      <3> QED BY <3>1, <3>2
    <2>2. Counted \subseteq Servers \X Fds /\ Counted' \subseteq Servers \X Fds
          /\ p \in Servers \X Fds
      BY <1>2 DEF Counted
    <2> QED BY <1>3, <2>1, <2>2 DEF Counted
  <1> QED BY <1>1, <1>5, CountedFinite, FS_AddElement DEF Leaving

LEMMA TimeDeadCount ==
  ASSUME IInv, NEW s \in Servers, NEW fd \in Fds, TimeDead(s, fd)
  PROVE  /\ Cardinality(Counted') = Cardinality(Counted) - 1
         /\ Leaving' = Leaving
  <1> DEFINE p == <<s, fd>>
  <1>1. /\ table[s][fd] # NoClient /\ spc[s] = "time" /\ spc' = [spc EXCEPT ![s] = "erase"]
        /\ victim' = [victim EXCEPT ![s] = table[s][fd]] /\ UNCHANGED table
    BY DEF TimeDead, Go
  <1>2. \A f \in Fds : table[s][f] = table[s][fd] => f = fd
    BY <1>1 DEF IInv, Safe, TableInv
  <1>3. Counted' = Counted \ {p} /\ p \in Counted
    BY <1>1, <1>2 DEF IInv, TypeOK, Counted, Erasing
  <1>4. Leaving' = Leaving
    BY <1>1 DEF IInv, TypeOK, Leaving
  <1> QED BY <1>3, <1>4, CountedFinite, FS_RemoveElement

LEMMA TimeEraseCount ==
  ASSUME IInv, EraseInv, NEW s \in Servers, TimeErase(s)
  PROVE  Counted' = Counted /\ Leaving' = Leaving
  <1> DEFINE k == sock[victim[s]]
  <1>1. /\ spc[s] = "erase" /\ spc' = [spc EXCEPT ![s] = "time"]
        /\ victim' = [victim EXCEPT ![s] = NoClient]
        /\ victim[s] \in Clients
    BY DEF TimeErase, Go, IInv, Safe, VictimInv
  <1>2. \A t \in Servers, f \in Fds :
          table'[t][f] = IF t = s /\ f = k THEN NoClient ELSE table[t][f]
    BY TableUpdate DEF TimeErase, IInv
  <1>3. \A f \in Fds : table[s][f] # NoClient => (table[s][f] = victim[s] <=> f = k)
    <2>1. ASSUME NEW f \in Fds, table[s][f] # NoClient, table[s][f] = victim[s] PROVE f = k
      BY <2>1 DEF IInv, Safe, TableInv
    <2>2. table[s][k] = victim[s]
      BY <1>1 DEF EraseInv
    <2> QED BY <2>1, <2>2
  <1>4. Counted' = Counted
    BY <1>1, <1>2, <1>3 DEF IInv, TypeOK, Counted, Erasing
  <1>5. Leaving' = Leaving
    BY <1>1 DEF IInv, TypeOK, Leaving
  <1> QED BY <1>4, <1>5

LEMMA EventLostCount ==
  ASSUME IInv, NEW s \in Servers, NEW fd \in Fds, EventLost(s, fd)
  PROVE  /\ Cardinality(Counted') = Cardinality(Counted) - 1
         /\ Cardinality(Leaving') = Cardinality(Leaving) + 1
  <1> DEFINE p == <<s, fd>>
  <1>1. /\ table[s][fd] # NoClient /\ spc[s] = "events" /\ spc' = [spc EXCEPT ![s] = "leave"]
        /\ victim' = [victim EXCEPT ![s] = table[s][fd]] /\ sock[table[s][fd]] = fd
    BY DEF EventLost, Go, IInv, Safe, TableInv
  <1>2. \A t \in Servers, f \in Fds :
          table'[t][f] = IF t = s /\ f = fd THEN NoClient ELSE table[t][f]
    BY <1>1, TableUpdate DEF EventLost, IInv
  <1>3. Counted' = Counted \ {p} /\ p \in Counted
    BY <1>1, <1>2 DEF IInv, TypeOK, Counted, Erasing
  <1>4. Leaving' = Leaving \cup {s} /\ s \notin Leaving
    BY <1>1 DEF IInv, TypeOK, Leaving
  <1>5. Cardinality(Counted') = Cardinality(Counted) - 1
    BY <1>3, CountedFinite, FS_RemoveElement
  <1>6. Cardinality(Leaving') = Cardinality(Leaving) + 1
    BY <1>4, CountedFinite, FS_AddElement
  <1> QED BY <1>5, <1>6

LEMMA OnClientLeaveCount ==
  ASSUME IInv, NEW s \in Servers, OnClientLeave(s)
  PROVE  /\ Counted' = Counted
         /\ Cardinality(Leaving') = Cardinality(Leaving) - 1
  <1>1. /\ spc[s] = "leave" /\ spc' = [spc EXCEPT ![s] = "events"] /\ UNCHANGED table
        /\ victim' = [victim EXCEPT ![s] = NoClient]
    BY DEF OnClientLeave, Go
  <1>2. Counted' = Counted
    BY <1>1 DEF IInv, TypeOK, Counted, Erasing
  <1>3. Leaving' = Leaving \ {s} /\ s \in Leaving
    BY <1>1 DEF IInv, TypeOK, Leaving
  <1> QED BY <1>2, <1>3, CountedFinite, FS_RemoveElement

LEMMA CountNext ==
  ASSUME IInv, EraseInv, CountIsAccurate, [Next]_vars
  PROVE  CountIsAccurate'
  <1> SUFFICES ASSUME Counting'
               PROVE  clientCount' = Cardinality(Counted') + Cardinality(Leaving')
    BY DEF CountIsAccurate, Counting, Leaving
  <1>0. /\ clientCount = Cardinality(Counted) + Cardinality(Leaving)
        /\ clientCount \in Int
        /\ Cardinality(Counted) \in Nat /\ Cardinality(Leaving) \in Nat
    BY CountingEnds, CountedFinite DEF CountIsAccurate, Counting, Leaving, IInv, TypeOK
  <1>1. CASE AcceptStep \/ AcceptFails \/ (\E c \in Clients, fd \in Fds : Accept(c, fd))
             \/ CloseAccept \/ MainStep \/ UNCHANGED vars
    <2>1. UNCHANGED <<clientCount, table, victim, spc>>
      BY <1>1 DEF AcceptStep, AcceptTop, AcceptIdle, AcceptFails, AcceptExit, AcceptClient,
         RefuseClient, ScanServer, addClient, Accept, CloseAccept, MainStep, AcceptJoined,
         CloseServer, ServerJoined, ServerSkipped, CloseEnds, ServerGone, vars, serverVars,
         clientVars
    <2> QED BY <1>0, <2>1, CountUnseen
  <1>2. ASSUME NEW s \in Servers, LoopTop(s) \/ PeekBuffer(s) \/ JoinDone(s) \/ TimeEnd(s)
                 \/ EventsEnd(s) \/ WaitFails(s) \/ ExitLocked(s) \/ ClearBuffer(s)
        PROVE  clientCount' = Cardinality(Counted') + Cardinality(Leaving')
    <2>1. UNCHANGED <<clientCount, table, victim>>
      BY <1>2 DEF LoopTop, PeekBuffer, JoinDone, TimeEnd, EventsEnd, WaitFails, ExitLocked,
         ClearBuffer, clientVars
    <2>2. \A t \in Servers :
            spc'[t] = spc[t] \/ (spc[t] \notin Drop /\ spc'[t] \notin Drop)
      BY <1>2 DEF LoopTop, PeekBuffer, JoinDone, TimeEnd, EventsEnd, WaitFails, ExitLocked,
         ClearBuffer, Go, AfterJoin, Drop, IInv, TypeOK
    <2> QED BY <1>0, <2>1, <2>2, CountUnseen
  <1>3. ASSUME NEW s \in Servers, NEW c \in Clients, JoinOne(s, c)
        PROVE  clientCount' = Cardinality(Counted') + Cardinality(Leaving')
    <2>1. clientCount' = clientCount + 1
      BY <1>3 DEF JoinOne
    <2> QED BY <1>0, <1>3, <2>1, JoinOneCount
  <1>4. ASSUME NEW s \in Servers, NEW fd \in Fds, TimeDead(s, fd)
        PROVE  clientCount' = Cardinality(Counted') + Cardinality(Leaving')
    <2>1. clientCount' = clientCount - 1
      BY <1>4 DEF TimeDead
    <2> QED BY <1>0, <1>4, <2>1, TimeDeadCount
  <1>5. ASSUME NEW s \in Servers, TimeErase(s)
        PROVE  clientCount' = Cardinality(Counted') + Cardinality(Leaving')
    <2>1. clientCount' = clientCount
      BY <1>5 DEF TimeErase, clientVars
    <2> QED BY <1>0, <1>5, <2>1, TimeEraseCount
  <1>6. ASSUME NEW s \in Servers, NEW fd \in Fds, EventLost(s, fd)
        PROVE  clientCount' = Cardinality(Counted') + Cardinality(Leaving')
    <2>1. clientCount' = clientCount
      BY <1>6 DEF EventLost, clientVars
    <2> QED BY <1>0, <1>6, <2>1, EventLostCount
  <1>7. ASSUME NEW s \in Servers, OnClientLeave(s)
        PROVE  clientCount' = Cardinality(Counted') + Cardinality(Leaving')
    <2>1. clientCount' = clientCount - 1
      BY <1>7 DEF OnClientLeave
    <2> QED BY <1>0, <1>7, <2>1, OnClientLeaveCount
  <1>8. ASSUME NEW s \in Servers, ClearTable(s) PROVE FALSE
    BY <1>8 DEF ClearTable, Go, Counting, IInv, TypeOK
  <1> QED BY <1>1, <1>2, <1>3, <1>4, <1>5, <1>6, <1>7, <1>8
          DEF Next, ServiceStep, ServiceExit, ServiceLoss, ServerStep, ServerLoss

LEMMA CountInit == Init => EraseInv /\ CountIsAccurate
  <1> SUFFICES ASSUME Init PROVE EraseInv /\ CountIsAccurate
    OBVIOUS
  <1>1. Counted = {} /\ Leaving = {} /\ clientCount = 0 /\ EraseInv
    BY DEF Init, SInit, Counted, Leaving, EraseInv
  <1>2. Cardinality({}) = 0
    BY FS_EmptySet
  <1> QED BY <1>1, <1>2 DEF CountIsAccurate, Leaving

\* The connection count of EasyTcpServer.hpp is the number of clients in the
\* tables, for any number of threads, until one of them clears its table.
THEOREM CountAlwaysAccurate == Spec => []CountIsAccurate
  <1>1. Init => EraseInv /\ CountIsAccurate
    BY CountInit
  <1>2. IInv /\ EraseInv /\ CountIsAccurate /\ [Next]_vars => (EraseInv /\ CountIsAccurate)'
    BY EraseNext, CountNext
  <1> QED BY <1>1, <1>2, ServerInvariance, PTL DEF Spec

-----------------------------------------------------------------------------
(* Nothing is lost: CloseReleasesAll *)

\* Every living client is in the hands of the accept thread or of a service
\* thread.
HeldInv ==
  \A c \in Clients : obj[c] = "object" => c = cur \/ \E s \in Servers : Holds(s, c)

\* A thread clears only after its flag, and what it has cleared stays empty;
\* Close() goes through the threads in their order, and without a failure
\* waits for each.
CloseInv ==
  /\ deleted = {s \in Servers : s < closing}
  /\ mpc = "closed" => closing \notin Servers
  /\ \A s \in Servers : spc[s] \in {"clear", "clearBuffer", "done"} => ~run[s]
  /\ \A s \in Servers : spc[s] \in {"clearBuffer", "done"} =>
       \A f \in Fds : table[s][f] = NoClient
  /\ ~failed =>
       /\ \A s \in Servers : spc[s] = "done" => pending[s] = {}
       /\ \A s \in deleted : spc[s] = "done"
       /\ \A s \in Servers : ~run[s] => s \in deleted \/ (mpc = "joinServer" /\ closing = s)

LEMMA MembersOf ==
  ASSUME NEW s \in Servers, NEW c \in Clients
  PROVE  c \in Members(s) <=> \E f \in Fds : table[s][f] = c
  BY ServerAssumption DEF Members, Keys

\* Steps that change no object, and take nothing from what the threads hold.
LEMMA HeldUnseen ==
  ASSUME HeldInv, UNCHANGED obj,
         \A c \in Clients : c = cur => c = cur' \/ \E s \in Servers : c \in pending'[s],
         \A s \in Servers : pending[s] \subseteq pending'[s],
         UNCHANGED <<table, victim>>
  PROVE  HeldInv'
  <1> SUFFICES ASSUME NEW c \in Clients, obj[c] = "object"
               PROVE  c = cur' \/ \E s \in Servers : Holds(s, c)'
    BY DEF HeldInv
  <1>1. CASE c = cur
    BY <1>1 DEF Holds
  <1>2. ASSUME NEW s \in Servers, Holds(s, c) PROVE Holds(s, c)'
    BY <1>2 DEF Holds, Members, Keys
  <1> QED BY <1>1, <1>2 DEF HeldInv

LEMMA AcceptHeld ==
  ASSUME IInv, HeldInv,
         AcceptStep \/ AcceptFails \/ \E c \in Clients, fd \in Fds : Accept(c, fd)
  PROVE  HeldInv'
  <1>1. CASE AcceptTop \/ AcceptIdle \/ AcceptFails \/ AcceptExit \/ ScanServer
    BY <1>1, HeldUnseen DEF AcceptTop, AcceptIdle, AcceptFails, AcceptExit, ScanServer,
       clientVars, serverVars
  <1>2. CASE addClient
    <2>1. /\ cur' = NoClient /\ UNCHANGED <<obj, table, victim>>
          /\ pending' = [pending EXCEPT ![minServer] = @ \cup {cur}]
          /\ minServer \in Servers
      BY <1>2 DEF addClient, clientVars, IInv, TypeOK
    <2>2. cur \in pending'[minServer] /\ \A s \in Servers : pending[s] \subseteq pending'[s]
      BY <2>1 DEF IInv, TypeOK
    <2> QED BY <2>1, <2>2, HeldUnseen
  <1>3. ASSUME UNCHANGED serverVars,
               \A c \in Clients : obj'[c] = "object" => c = cur' \/ (obj[c] = "object" /\ c # cur)
        PROVE  HeldInv'
    <2>1. \A c \in Clients, s \in Servers : Holds(s, c) => Holds(s, c)'
      BY <1>3 DEF serverVars, Holds, Members, Keys
    <2> QED BY <1>3, <2>1 DEF HeldInv
  <1>4. CASE AcceptClient
    BY <1>3, <1>4 DEF AcceptClient, IInv, TypeOK
  <1>5. CASE RefuseClient
    BY <1>3, <1>5 DEF RefuseClient, DeleteClients
  <1>6. ASSUME NEW c \in Clients, NEW fd \in Fds, Accept(c, fd) PROVE HeldInv'
    <2>1. cur = NoClient
      BY <1>6 DEF Accept, GoAccept, IInv, Safe, CurInv
    <2> QED BY <1>3, <1>6, <2>1, ServerAssumption DEF Accept, IInv, TypeOK
  <1> QED BY <1>1, <1>2, <1>4, <1>5, <1>6 DEF AcceptStep

\* The steps of one thread that hand a client on, or delete it.
LEMMA ServiceHeld ==
  ASSUME IInv, EraseInv, HeldInv, NEW s \in Servers, UNCHANGED cur,
         ServerStep(s) \/ ExitLocked(s) \/ ServerLoss(s)
  PROVE  HeldInv'
  <1>1. CASE LoopTop(s) \/ PeekBuffer(s) \/ JoinDone(s) \/ TimeEnd(s) \/ EventsEnd(s)
             \/ WaitFails(s) \/ ExitLocked(s)
    BY <1>1, HeldUnseen DEF LoopTop, PeekBuffer, JoinDone, TimeEnd, EventsEnd, WaitFails,
       ExitLocked, clientVars
  <1>2. ASSUME \A c \in Clients : obj'[c] = "object" =>
                 /\ obj[c] = "object"
                 /\ \A t \in Servers : Holds(t, c) => Holds(t, c)'
        PROVE  HeldInv'
    BY <1>2 DEF HeldInv
  <1>3. ASSUME NEW j \in Clients, JoinOne(s, j) PROVE HeldInv'
    <2>1. /\ sock[j] \in Fds /\ j # NoClient /\ UNCHANGED <<obj, victim>>
          /\ pending' = [pending EXCEPT ![s] = @ \ {j}]
          /\ table[s][sock[j]] = NoClient
      <3>1. spc[s] = "join" /\ j \in pending[s] /\ UNCHANGED <<obj, victim>>
            /\ pending' = [pending EXCEPT ![s] = @ \ {j}]
        BY <1>3 DEF JoinOne
      <3>2. sock[j] \in Fds /\ j # NoClient
        BY <3>1, ServerAssumption DEF IInv, TypeOK, Safe, PendInv, SockInv, Alive
      <3>3. IInv => JoinNeverOverwrites
        BY FreshEntries
      <3>4. table[s][sock[j]] = NoClient
        BY <3>1, <3>3 DEF JoinNeverOverwrites
      <3> QED BY <3>1, <3>2, <3>4
    <2>2. \A t \in Servers, f \in Fds :
            table'[t][f] = IF t = s /\ f = sock[j] THEN j ELSE table[t][f]
      BY <1>3, TableUpdate DEF JoinOne, IInv
    <2>3. ASSUME NEW c \in Clients, NEW t \in Servers, Holds(t, c) PROVE Holds(t, c)'
      <3>1. CASE c \in pending[t]
        <4>1. CASE t = s /\ c = j
          <5>1. table'[s][sock[j]] = j
            BY <2>1, <2>2
          <5>2. j \in Members(s)'
            BY <2>1, <5>1 DEF Members, Keys
          <5> QED BY <4>1, <5>2 DEF Holds
        <4>2. CASE ~(t = s /\ c = j)
          BY <2>1, <3>1, <4>2 DEF Holds, IInv, TypeOK
        <4> QED BY <4>1, <4>2
      <3>2. CASE victim[t] = c
        BY <2>1, <3>2 DEF Holds
      <3>3. CASE c \in Members(t)
        <4>1. PICK f \in Fds : table[t][f] = c
          BY <3>3 DEF Members, Keys
        <4>2. table'[t][f] = c /\ c # NoClient
          BY <2>1, <2>2, <4>1, ServerAssumption
        <4> QED BY <4>2 DEF Holds, Members, Keys
      <3> QED BY <2>3, <3>1, <3>2, <3>3 DEF Holds
    <2> QED BY <1>2, <2>1, <2>3
  <1>4. ASSUME NEW fd \in Fds, TimeDead(s, fd) PROVE HeldInv'
    <2>1. /\ UNCHANGED <<table, pending>> /\ victim' = [victim EXCEPT ![s] = table[s][fd]]
          /\ \A c \in Clients : obj'[c] = "object" => obj[c] = "object"
          /\ victim[s] = NoClient
      BY <1>4 DEF TimeDead, DeleteClients, Go, IInv, Safe, VictimInv
    <2>2. \A c \in Clients, t \in Servers : Holds(t, c) => Holds(t, c)'
      BY <2>1, ServerAssumption DEF Holds, Members, Keys, IInv, TypeOK
    <2> QED BY <1>2, <2>1, <2>2
  <1>5. CASE TimeErase(s)
    <2> DEFINE k == sock[victim[s]]
    <2>1. /\ UNCHANGED <<obj, pending>> /\ victim' = [victim EXCEPT ![s] = NoClient]
          /\ spc[s] = "erase" /\ obj[victim[s]] = "freed" /\ table[s][k] = victim[s]
      BY <1>5 DEF TimeErase, Go, clientVars, IInv, Safe, VictimInv, EraseInv
    <2>2. \A t \in Servers, f \in Fds :
            table'[t][f] = IF t = s /\ f = k THEN NoClient ELSE table[t][f]
      BY <1>5, TableUpdate DEF TimeErase, IInv
    <2>3. ASSUME NEW c \in Clients, obj[c] = "object", NEW t \in Servers, Holds(t, c)
          PROVE  Holds(t, c)'
      <3>1. c # victim[s] /\ c # NoClient
        BY <2>1, <2>3, ServerAssumption
      <3>2. CASE c \in Members(t)
        <4>1. PICK f \in Fds : table[t][f] = c
          BY <3>2 DEF Members, Keys
        <4>2. table'[t][f] = c
          BY <2>1, <2>2, <3>1, <4>1
        <4> QED BY <3>1, <4>2 DEF Holds, Members, Keys
      <3> QED BY <2>1, <2>3, <3>1, <3>2 DEF Holds, IInv, TypeOK
    <2> QED BY <1>2, <2>1, <2>3
  <1>6. ASSUME NEW fd \in Fds, EventLost(s, fd) PROVE HeldInv'
    <2>1. /\ UNCHANGED <<obj, pending>> /\ victim' = [victim EXCEPT ![s] = table[s][fd]]
          /\ victim[s] = NoClient /\ table[s][fd] # NoClient
          /\ sock[table[s][fd]] = fd
      BY <1>6 DEF EventLost, clientVars, Go, IInv, Safe, VictimInv, TableInv
    <2>2. \A t \in Servers, f \in Fds :
            table'[t][f] = IF t = s /\ f = fd THEN NoClient ELSE table[t][f]
      BY <1>6, <2>1, TableUpdate, ZenonT(40) DEF EventLost, IInv
    <2>3. ASSUME NEW c \in Clients, NEW t \in Servers, Holds(t, c) PROVE Holds(t, c)'
      <3>0. c # NoClient
        BY ServerAssumption
      <3>1. CASE c \in Members(t)
        <4>1. PICK f \in Fds : table[t][f] = c
          BY <3>1 DEF Members, Keys
        <4>2. CASE t = s /\ f = fd
          BY <2>1, <4>1, <4>2 DEF Holds, IInv, TypeOK
        <4>3. CASE ~(t = s /\ f = fd)
          <5>1. table'[t][f] = c
            BY <2>2, <4>1, <4>3
          <5> QED BY <3>0, <5>1 DEF Holds, Members, Keys
        <4> QED BY <4>2, <4>3
      <3> QED BY <2>1, <2>3, <3>0, <3>1 DEF Holds, IInv, TypeOK
    <2> QED BY <1>2, <2>1, <2>3
  <1>7. CASE OnClientLeave(s)
    <2>1. /\ UNCHANGED <<table, pending>> /\ victim' = [victim EXCEPT ![s] = NoClient]
          /\ \A c \in Clients : obj'[c] = "object" => obj[c] = "object" /\ c # victim[s]
      BY <1>7 DEF OnClientLeave, DeleteClients
    <2>2. ASSUME NEW c \in Clients, c # victim[s], NEW t \in Servers, Holds(t, c)
          PROVE  Holds(t, c)'
      BY <2>1, <2>2, ServerAssumption DEF Holds, Members, Keys, IInv, TypeOK
    <2> QED BY <1>2, <2>1, <2>2
  <1>8. CASE ClearTable(s)
    <2>1. /\ UNCHANGED <<victim, pending>>
          /\ \A t \in Servers : t # s => table'[t] = table[t]
          /\ \A c \in Clients : obj'[c] = "object" => obj[c] = "object" /\ c \notin Members(s)
      BY <1>8 DEF ClearTable, DeleteClients, IInv, TypeOK
    <2>2. ASSUME NEW c \in Clients, c \notin Members(s), NEW t \in Servers, Holds(t, c)
          PROVE  Holds(t, c)'
      BY <2>1, <2>2 DEF Holds, Members, Keys
    <2> QED BY <1>2, <2>1, <2>2
  <1>9. CASE ClearBuffer(s)
    <2>1. /\ UNCHANGED <<victim, table>> /\ pending' = [pending EXCEPT ![s] = {}]
          /\ \A c \in Clients : obj'[c] = "object" => obj[c] = "object" /\ c \notin pending[s]
      BY <1>9 DEF ClearBuffer, DeleteClients
    <2>2. ASSUME NEW c \in Clients, c \notin pending[s], NEW t \in Servers, Holds(t, c)
          PROVE  Holds(t, c)'
      BY <2>1, <2>2 DEF Holds, Members, Keys, IInv, TypeOK
    <2> QED BY <1>2, <2>1, <2>2
  <1> QED BY <1>1, <1>3, <1>4, <1>5, <1>6, <1>7, <1>8, <1>9 DEF ServerStep, ServerLoss

LEMMA HeldNext ==
  ASSUME IInv, EraseInv, HeldInv, [Next]_vars
  PROVE  HeldInv'
  <1>1. CASE AcceptStep \/ AcceptFails \/ \E c \in Clients, fd \in Fds : Accept(c, fd)
    BY <1>1, AcceptHeld
  <1>2. CASE \E s \in Servers : ServiceStep(s) \/ ServiceExit(s) \/ ServiceLoss(s)
    BY <1>2, ServiceHeld DEF ServiceStep, ServiceExit, ServiceLoss, accVars
  <1>3. CASE CloseAccept \/ MainStep \/ UNCHANGED vars
    BY <1>3, HeldUnseen DEF MainStep, CloseAccept, AcceptJoined, CloseServer, ServerJoined,
       ServerSkipped, CloseEnds, ServerGone, vars, clientVars, serverVars, accVars
  <1> QED BY <1>1, <1>2, <1>3 DEF Next

\* What a step of the service threads may do to the order of the closing.
LEMMA ServiceClose ==
  ASSUME IInv, OrderInv, CloseInv, NEW s \in Servers, UNCHANGED mainVars, s \notin deleted,
         ServerStep(s) \/ ExitLocked(s) \/ ServerLoss(s)
  PROVE  CloseInv'
  <1>1. /\ UNCHANGED <<mpc, closing, deleted>>
        /\ \A t \in Servers : t # s =>
             /\ spc'[t] = spc[t] /\ table'[t] = table[t]
             /\ pending'[t] = pending[t] /\ run'[t] = run[t]
    <2>1. UNCHANGED <<mpc, closing, deleted>>
      BY DEF mainVars
    <2>2. \A t \in Servers : t # s => spc'[t] = spc[t] /\ pending'[t] = pending[t]
      BY DEF ServerStep, ServerLoss, LoopTop, PeekBuffer, JoinDone, TimeErase, TimeEnd,
         OnClientLeave, EventsEnd, ClearTable, ClearBuffer, JoinOne, WaitFails, TimeDead,
         EventLost, ExitLocked, Go, IInv, TypeOK
    <2>3. \A t \in Servers : t # s => table'[t] = table[t]
      <3>1. CASE \E c \in Clients : JoinOne(s, c)
        BY <3>1 DEF JoinOne, IInv, TypeOK
      <3>2. CASE \E fd \in Fds : EventLost(s, fd)
        BY <3>2 DEF EventLost, IInv, TypeOK
      <3>3. CASE TimeErase(s) \/ ClearTable(s)
        BY <3>3 DEF TimeErase, ClearTable, IInv, TypeOK
      <3>4. CASE LoopTop(s) \/ PeekBuffer(s) \/ JoinDone(s) \/ TimeEnd(s) \/ OnClientLeave(s)
                   \/ EventsEnd(s) \/ ClearBuffer(s) \/ ExitLocked(s) \/ WaitFails(s)
                   \/ \E fd \in Fds : TimeDead(s, fd)
        BY <3>4 DEF LoopTop, PeekBuffer, JoinDone, TimeEnd, OnClientLeave, EventsEnd,
           ClearBuffer, ExitLocked, WaitFails, TimeDead
      <3> QED BY <3>1, <3>2, <3>3, <3>4 DEF ServerStep, ServerLoss
    <2>4. \A t \in Servers : t # s => run'[t] = run[t]
      <3>1. ExitLocked(s) => \A t \in Servers : t # s => run'[t] = run[t]
        BY DEF ExitLocked, IInv, TypeOK
      <3>2. ServerStep(s) \/ ServerLoss(s) => run' = run
        BY DEF ServerStep, ServerLoss, LoopTop, PeekBuffer, JoinDone, TimeErase, TimeEnd,
           OnClientLeave, EventsEnd, ClearTable, ClearBuffer, JoinOne, WaitFails, TimeDead,
           EventLost
      <3> QED BY <3>1, <3>2
    <2> QED BY <2>1, <2>2, <2>3, <2>4
  <1>2. ~failed' => ~failed /\ run'[s] = run[s]
    <2>1. ExitLocked(s) \/ WaitFails(s) => failed'
      BY DEF ExitLocked, WaitFails, Go, OrderInv
    <2>2. ServerStep(s) \/ ServerLoss(s) => WaitFails(s) \/ (failed' = failed /\ run' = run)
      BY DEF ServerStep, ServerLoss, LoopTop, PeekBuffer, JoinDone, TimeErase, TimeEnd,
         OnClientLeave, EventsEnd, ClearTable, ClearBuffer, JoinOne, TimeDead, EventLost
    <2> QED BY <2>1, <2>2
  <1>3. spc'[s] \in {"clear", "clearBuffer", "done"} => ~run'[s]
    <2>1. LoopTop(s) \/ WaitFails(s) \/ ExitLocked(s)
            => (spc'[s] \in {"clear", "clearBuffer", "done"} => ~run'[s])
      BY DEF LoopTop, WaitFails, ExitLocked, Go, IInv, TypeOK
    <2>2. ClearTable(s) \/ ClearBuffer(s) => ~run'[s]
      BY DEF ClearTable, ClearBuffer, Go, CloseInv
    <2>3. PeekBuffer(s) \/ JoinDone(s) \/ TimeErase(s) \/ TimeEnd(s) \/ OnClientLeave(s)
            \/ EventsEnd(s) => spc'[s] \notin {"clear", "clearBuffer", "done"}
      BY DEF PeekBuffer, JoinDone, TimeErase, TimeEnd, OnClientLeave, EventsEnd, AfterJoin, Go,
         IInv, TypeOK
    <2>4. (\E c \in Clients : JoinOne(s, c)) \/ (\E fd \in Fds : TimeDead(s, fd) \/ EventLost(s, fd))
            => spc'[s] \notin {"clear", "clearBuffer", "done"}
      BY DEF JoinOne, TimeDead, EventLost, Go, IInv, TypeOK
    <2> QED BY <2>1, <2>2, <2>3, <2>4 DEF ServerStep, ServerLoss
  <1>4. spc'[s] \in {"clearBuffer", "done"} =>
          (ClearTable(s) /\ spc'[s] = "clearBuffer") \/ (ClearBuffer(s) /\ spc'[s] = "done")
    <2>1. LoopTop(s) \/ WaitFails(s) \/ ExitLocked(s) => spc'[s] \notin {"clearBuffer", "done"}
      BY DEF LoopTop, WaitFails, ExitLocked, Go, IInv, TypeOK
    <2>2. PeekBuffer(s) \/ JoinDone(s) \/ TimeErase(s) \/ TimeEnd(s) \/ OnClientLeave(s)
            \/ EventsEnd(s) => spc'[s] \notin {"clearBuffer", "done"}
      BY DEF PeekBuffer, JoinDone, TimeErase, TimeEnd, OnClientLeave, EventsEnd, AfterJoin, Go,
         IInv, TypeOK
    <2>3. (\E c \in Clients : JoinOne(s, c)) \/ (\E fd \in Fds : TimeDead(s, fd) \/ EventLost(s, fd))
            => spc'[s] \notin {"clearBuffer", "done"}
      BY DEF JoinOne, TimeDead, EventLost, Go, IInv, TypeOK
    <2>4. /\ ClearTable(s) => spc'[s] = "clearBuffer"
          /\ ClearBuffer(s) => spc'[s] = "done"
      BY DEF ClearTable, ClearBuffer, Go, IInv, TypeOK
    <2>5. ClearTable(s) \/ ClearBuffer(s) \/ spc'[s] \notin {"clearBuffer", "done"}
      BY <2>1, <2>2, <2>3 DEF ServerStep, ServerLoss
    <2> QED BY <2>4, <2>5
  <1>5. ASSUME spc'[s] \in {"clearBuffer", "done"}, NEW f \in Fds
        PROVE  table'[s][f] = NoClient
    <2>1. CASE ClearTable(s)
      BY <2>1 DEF ClearTable, IInv, TypeOK
    <2>2. CASE ClearBuffer(s)
      BY <2>2 DEF ClearBuffer, Go, CloseInv
    <2> QED BY <1>4, <1>5, <2>1, <2>2
  <1>6. spc'[s] = "done" => pending'[s] = {}
    BY <1>4 DEF ClearBuffer, IInv, TypeOK
  <1>7. /\ \A t \in Servers : spc'[t] \in {"clear", "clearBuffer", "done"} => ~run'[t]
        /\ \A t \in Servers : spc'[t] \in {"clearBuffer", "done"} =>
             \A f \in Fds : table'[t][f] = NoClient
    BY <1>1, <1>3, <1>5 DEF CloseInv
  <1>8. ASSUME ~failed'
        PROVE  /\ \A t \in Servers : spc'[t] = "done" => pending'[t] = {}
               /\ \A t \in deleted' : spc'[t] = "done"
               /\ \A t \in Servers : ~run'[t] => t \in deleted' \/ (mpc' = "joinServer" /\ closing' = t)
    BY <1>1, <1>2, <1>6, <1>8 DEF CloseInv, IInv, TypeOK
  <1> QED BY <1>1, <1>7, <1>8 DEF CloseInv

LEMMA CloseNext ==
  ASSUME IInv, OrderInv, CloseInv, [Next]_vars
  PROVE  CloseInv'
  <1>1. ASSUME UNCHANGED <<deleted, closing, mpc, spc, run, failed, table, pending>>
        PROVE  CloseInv'
    BY <1>1 DEF CloseInv
  <1>2. CASE AcceptStep \/ AcceptFails \/ \E c \in Clients, fd \in Fds : Accept(c, fd)
    <2>1. CASE addClient
      <3>1. /\ apc # "stopped" /\ pending' = [pending EXCEPT ![minServer] = @ \cup {cur}]
            /\ UNCHANGED <<deleted, closing, mpc, spc, run, failed, table>>
        BY <2>1 DEF addClient, GoAccept, mainVars
      <3>2. ~failed => spc[minServer] # "done"
        BY <3>1 DEF OrderInv, CloseInv, IInv, TypeOK
      <3> QED BY <3>1, <3>2 DEF CloseInv, IInv, TypeOK
    <2>2. CASE ~addClient
      BY <1>1, <1>2, <2>2 DEF AcceptStep, AcceptTop, AcceptIdle, AcceptFails, AcceptExit,
         AcceptClient, RefuseClient, ScanServer, Accept, serverVars, mainVars
    <2> QED BY <2>1, <2>2
  <1>3. CASE \E s \in Servers : ServiceStep(s) \/ ServiceExit(s) \/ ServiceLoss(s)
    BY <1>3, ServiceClose DEF ServiceStep, ServiceExit, ServiceLoss
  <1>4. CASE CloseAccept \/ AcceptJoined
    BY <1>4 DEF CloseAccept, AcceptJoined, GoMain, serverVars, CloseInv
  <1>5. CASE CloseServer
    BY <1>5 DEF CloseServer, GoMain, CloseInv, IInv, TypeOK
  <1>6. CASE ServerJoined \/ ServerSkipped
    <2>1. /\ closing \in Servers /\ closing' = closing + 1 /\ deleted' = deleted \cup {closing}
          /\ mpc' = "servers" /\ UNCHANGED <<spc, run, failed, table, pending>>
      BY <1>6 DEF ServerJoined, ServerSkipped, ServerGone, GoMain, serverVars, IInv, MainInv
    <2>2. \A s \in Servers : s < closing + 1 <=> s < closing \/ s = closing
      BY <2>1 DEF Servers
    <2>3. ~failed => spc[closing] = "done"
      <3>1. closing \notin deleted
        BY <2>1 DEF CloseInv, Servers
      <3> QED BY <1>6, <3>1 DEF ServerJoined, ServerSkipped, GoMain, CloseInv
    <2>4. deleted' = {s \in Servers : s < closing'}
      BY <2>1, <2>2 DEF CloseInv
    <2> QED BY <2>1, <2>3, <2>4 DEF CloseInv
  <1>7. CASE CloseEnds
    BY <1>7 DEF CloseEnds, GoMain, serverVars, CloseInv
  <1>8. CASE UNCHANGED vars
    BY <1>1, <1>8 DEF vars, serverVars, mainVars
  <1> QED BY <1>2, <1>3, <1>4, <1>5, <1>6, <1>7, <1>8 DEF Next, MainStep

LEMMA CloseInit == Init => HeldInv /\ CloseInv
  BY ServerAssumption DEF Init, SInit, HeldInv, CloseInv, Servers

\* Close() of the server, after a run without an epoll failure, leaves no
\* client and no socket, and deletes no thread that still runs
\* (EasyTcpServer.hpp:193-216).
THEOREM CloseAlwaysReleases == Spec => []CloseReleasesAll
  <1> DEFINE Inv == IInv /\ EraseInv /\ OrderInv /\ HeldInv /\ CloseInv
  <1>1. Init => Inv
    BY InitInv, CountInit, OrderInit, CloseInit
  <1>2. Inv /\ [Next]_vars => Inv'
    BY NextInv, EraseNext, OrderNext, HeldNext, CloseNext DEF IInv
  <1>3. Inv => CloseReleasesAll
    <2> SUFFICES ASSUME Inv, ~failed, mpc = "closed", NEW c \in Clients,
                        obj[c] \notin {"none", "freed"}
                 PROVE  FALSE
      BY DEF CloseReleasesAll, CloseInv
    <2>1. cur = NoClient /\ obj[c] = "object"
      BY ServerAssumption DEF OrderInv, IInv, TypeOK, Safe, CurInv
    <2>2. PICK s \in Servers : Holds(s, c)
      BY <2>1, ServerAssumption DEF HeldInv
    <2>3. spc[s] = "done"
      <3>1. closing = NServers + 1 /\ s < closing
        BY ServerAssumption DEF ServerAssumption, CloseInv, Servers, IInv, TypeOK
      <3> QED BY <3>1 DEF CloseInv
    <2>4. pending[s] = {} /\ victim[s] = NoClient /\ \A f \in Fds : table[s][f] = NoClient
      BY <2>3 DEF CloseInv, IInv, Safe, VictimInv
    <2> QED BY <2>2, <2>4, MembersOf, ServerAssumption DEF Holds
  <1> QED BY <1>1, <1>2, <1>3, PTL DEF Spec

-----------------------------------------------------------------------------
(* Refinement: the server implements ClientLifecycle *)

\* A name not yet accepted has no socket.
FreshInv == \A c \in Clients : obj[c] = "none" => sock[c] = InvalidSocket

LEMMA FreshNext == IInv /\ FreshInv /\ [Next]_vars => FreshInv'
  <1> SUFFICES ASSUME IInv, FreshInv, [Next]_vars, NEW c \in Clients, obj'[c] = "none"
               PROVE  obj[c] = "none" /\ sock'[c] = sock[c]
    BY DEF FreshInv
  <1>1. CASE AcceptStep \/ AcceptFails \/ \E d \in Clients, fd \in Fds : Accept(d, fd)
    BY <1>1 DEF AcceptStep, AcceptTop, AcceptIdle, AcceptFails, AcceptExit, AcceptClient,
       RefuseClient, ScanServer, addClient, Accept, clientVars, DeleteClients, IInv, TypeOK
  <1>2. CASE \E s \in Servers : ServiceStep(s) \/ ServiceExit(s) \/ ServiceLoss(s)
    BY <1>2 DEF ServiceStep, ServiceExit, ServiceLoss, ServerStep, ServerLoss, LoopTop,
       PeekBuffer, JoinDone, TimeErase, TimeEnd, OnClientLeave, EventsEnd, ClearTable,
       ClearBuffer, JoinOne, WaitFails, TimeDead, EventLost, ExitLocked, clientVars,
       DeleteClients
  <1>3. CASE CloseAccept \/ MainStep \/ UNCHANGED vars
    BY <1>3 DEF MainStep, CloseAccept, AcceptJoined, CloseServer, ServerJoined,
       ServerSkipped, CloseEnds, ServerGone, vars, clientVars
  <1> QED BY <1>1, <1>2, <1>3 DEF Next

\* What the accept thread has in hand, or no thread holds, is not held; what a
\* thread holds, no other does.
LEMMA HoldsOne ==
  ASSUME IInv, NEW c \in Clients, NEW s \in Servers, Holds(s, c)
  PROVE  /\ obj[c] \in {"object", "freed"} /\ cur # c
         /\ \A t \in Servers : Holds(t, c) => s = t
         /\ \A t \in Servers : c \in pending[t] => c \in pending[s]
  <1>1. cur # c /\ \A t \in Servers : Holds(t, c) => s = t
    BY Owners DEF OneOwner
  <1>2. obj[c] \in {"object", "freed"}
    BY MembersOf, ServerAssumption DEF Holds, IInv, Safe, PendInv, TableInv, VictimInv
  <1> QED BY <1>1, <1>2 DEF Holds

PlacedInv ==
  \A c \in Clients, s \in Servers :
    Holds(s, c) /\ obj[c] \in Alive => ServerOf(c) = s

LEMMA Placed == IInv => PlacedInv
  <1> SUFFICES ASSUME IInv, NEW c \in Clients, NEW s \in Servers, Holds(s, c),
                      obj[c] \in Alive
               PROVE  ServerOf(c) = s
    BY DEF PlacedInv
  <1>1. StageOf(c) \in {"queued", "serving"}
    BY DEF StageOf, Alive
  <1>2. \A t \in Servers : Holds(t, c) => t = s
    BY HoldsOne
  <1> QED BY <1>1, <1>2 DEF ServerOf

LEMMA PlacedNext == IInv' => PlacedInv'
  BY Placed, PTL

\* The part of a connection's state that the abstraction sees is left alone.
Kept(c) ==
  /\ obj'[c] = obj[c] \/ (obj[c] \in Alive /\ obj'[c] \in Alive)
  /\ obj[c] \in Alive =>
       \A s \in Servers : /\ (c \in pending'[s]) <=> (c \in pending[s])
                          /\ Holds(s, c)' <=> Holds(s, c)

LEMMA StageKept ==
  ASSUME IInv, IInv', NEW c \in Clients, Kept(c)
  PROVE  StageOf(c)' = StageOf(c) /\ ServerOf(c)' = ServerOf(c)
  <1>1. StageOf(c)' = StageOf(c)
    BY DEF Kept, StageOf, Alive, IInv, TypeOK
  <1>2. CASE StageOf(c) \in {"queued", "serving"}
    <2>1. obj[c] \in Alive /\ obj'[c] \in Alive
      BY <1>2 DEF StageOf, Kept, Alive, IInv, TypeOK
    <2>2. PICK s \in Servers : Holds(s, c)
      BY <1>2, <2>1 DEF StageOf, Alive, Holds
    <2>3. Holds(s, c)'
      BY <2>1, <2>2 DEF Kept
    <2>4. ServerOf(c) = s
      BY <2>1, <2>2, Placed DEF PlacedInv
    <2>5. ServerOf(c)' = s
      BY <2>1, <2>3, PlacedNext DEF PlacedInv
    <2> QED BY <1>1, <2>4, <2>5
  <1>3. CASE StageOf(c) \notin {"queued", "serving"}
    BY <1>1, <1>3 DEF ServerOf
  <1> QED BY <1>1, <1>2, <1>3

\* Steps that the abstraction does not see.
LEMMA Unseen ==
  ASSUME IInv, IInv', UNCHANGED sock, \A c \in Clients : Kept(c),
         \A c \in Clients : obj[c] = "freed" <=> obj'[c] = "freed"
  PROVE  UNCHANGED Lifecycle!lifeVars
  <1>1. \A c \in Clients : StageOf(c)' = StageOf(c) /\ ServerOf(c)' = ServerOf(c)
    BY StageKept
  <1> QED BY <1>1 DEF Lifecycle!lifeVars

\* The deletion of some living clients that disturbs no other.
LEMMA Destroys ==
  ASSUME IInv, IInv', NEW C \in SUBSET Clients, DeleteClients(C),
         \A c \in C : obj[c] \in Alive,
         \A c \in Clients \ C, s \in Servers :
           /\ (c \in pending'[s]) <=> (c \in pending[s])
           /\ Holds(s, c)' <=> Holds(s, c)
  PROVE  Lifecycle!LNext
  <1>1. \A c \in C : StageOf(c) \in {"accepted", "queued", "serving"}
    BY DEF StageOf, Alive
  <1>2. \A c \in C : /\ StageOf(c)' = "gone" /\ ServerOf(c)' = NoServer
                     /\ obj'[c] = "freed"
    BY DEF DeleteClients, StageOf, ServerOf
  <1>3. ASSUME NEW c \in Clients, c \notin C
        PROVE  StageOf(c)' = StageOf(c) /\ ServerOf(c)' = ServerOf(c) /\ obj'[c] = obj[c]
    <2>1. obj'[c] = obj[c]
      BY <1>3 DEF DeleteClients
    <2> QED BY <1>3, <2>1, StageKept DEF Kept
  <1>4. Lifecycle!LDestroy(C)
    BY <1>1, <1>2, <1>3 DEF Lifecycle!LDestroy, DeleteClients
  <1> QED BY <1>4 DEF Lifecycle!LNext

\* The step on the maps follows from what it does to each connection.
LEMMA AcceptRefines ==
  ASSUME IInv, IInv', FreshInv, NEW c \in Clients, NEW fd \in Fds, Accept(c, fd)
  PROVE  Lifecycle!LNext
  <1>1. /\ obj' = [obj EXCEPT ![c] = "socket"] /\ sock' = [sock EXCEPT ![c] = fd]
        /\ UNCHANGED <<table, pending, victim>> /\ obj[c] = "none" /\ fd \notin openFds
    BY DEF Accept, serverVars
  <1>2. \A s \in Servers : ~Holds(s, c)
    BY <1>1, HoldsOne
  <1>3. StageOf(c) = "none" /\ ServerOf(c) = NoServer
    BY <1>1 DEF StageOf, ServerOf
  <1>4. StageOf(c)' = "accepted" /\ ServerOf(c)' = NoServer
    <2>1. obj'[c] = "socket"
      BY <1>1 DEF IInv, TypeOK
    <2>2. \A s \in Servers : c \notin pending'[s] /\ ~Holds(s, c)'
      BY <1>1, <1>2 DEF Holds, Members, Keys
    <2> QED BY <2>1, <2>2 DEF StageOf, ServerOf
  <1>5. ASSUME NEW d \in Clients, d # c
        PROVE  StageOf(d)' = StageOf(d) /\ ServerOf(d)' = ServerOf(d) /\ obj'[d] = obj[d]
    <2>1. obj'[d] = obj[d]
      BY <1>1, <1>5 DEF IInv, TypeOK
    <2>2. \A s \in Servers : Holds(s, d)' <=> Holds(s, d)
      BY <1>1 DEF Holds, Members, Keys
    <2> QED BY <1>1, <2>1, <2>2, StageKept DEF Kept
  <1>6. \A d \in Clients : (IF obj[d] = "freed" THEN InvalidSocket ELSE sock[d]) # fd
    BY <1>1, ServerAssumption DEF ServerAssumption, FreshInv, IInv, TypeOK, Safe, SockInv, Alive
  <1>7. \A d \in Clients : (IF obj'[d] = "freed" THEN InvalidSocket ELSE sock'[d])
          = IF d = c THEN fd ELSE IF obj[d] = "freed" THEN InvalidSocket ELSE sock[d]
    BY <1>1, <1>5 DEF IInv, TypeOK
  <1>8. Lifecycle!LAccept(c, fd)
    BY <1>3, <1>4, <1>5, <1>6, <1>7 DEF Lifecycle!LAccept
  <1> QED BY <1>8 DEF Lifecycle!LNext

LEMMA HandOverRefines ==
  ASSUME IInv, IInv', addClient
  PROVE  Lifecycle!LNext
  <1>1. /\ pending' = [pending EXCEPT ![minServer] = @ \cup {cur}]
        /\ UNCHANGED <<obj, sock, table, victim>>
        /\ cur \in Clients /\ obj[cur] = "object" /\ minServer \in Servers
    BY DEF addClient, GoAccept, clientVars, IInv, TypeOK, Safe, CurInv
  <1>2. PICK c \in Clients : c = cur
    BY <1>1
  <1>3. PICK s \in Servers : s = minServer
    BY <1>1
  <1>4. \A t \in Servers : ~Holds(t, c)
    BY <1>2, HoldsOne
  <1>5. StageOf(c) = "accepted"
    BY <1>1, <1>2, <1>4 DEF StageOf, Holds
  <1>6. StageOf(c)' = "queued" /\ ServerOf(c)' = s
    <2>1. c \in pending'[s]
      BY <1>1, <1>2, <1>3 DEF IInv, TypeOK
    <2>2. StageOf(c)' = "queued"
      BY <1>1, <1>2, <2>1 DEF StageOf
    <2>3. \A t \in Servers : Holds(t, c)' <=> t = s
      BY <1>1, <1>2, <1>3, <1>4 DEF Holds, Members, Keys, IInv, TypeOK
    <2> QED BY <2>2, <2>3 DEF ServerOf
  <1>7. ASSUME NEW d \in Clients, d # c
        PROVE  StageOf(d)' = StageOf(d) /\ ServerOf(d)' = ServerOf(d)
    <2>1. \A t \in Servers : /\ (d \in pending'[t]) <=> (d \in pending[t])
                             /\ Holds(t, d)' <=> Holds(t, d)
      BY <1>1, <1>2, <1>7 DEF Holds, Members, Keys, IInv, TypeOK
    <2> QED BY <1>1, <2>1, StageKept DEF Kept
  <1>8. Lifecycle!LHandOver(c, s)
    BY <1>1, <1>5, <1>6, <1>7 DEF Lifecycle!LHandOver
  <1> QED BY <1>8 DEF Lifecycle!LNext

LEMMA JoinRefines ==
  ASSUME IInv, IInv', NEW s \in Servers, NEW c \in Clients, JoinOne(s, c)
  PROVE  Lifecycle!LNext
  <1>1. /\ pending' = [pending EXCEPT ![s] = @ \ {c}]
        /\ UNCHANGED <<obj, sock, victim>>
        /\ c \in pending[s] /\ obj[c] = "object" /\ sock[c] \in Fds
        /\ table[s][sock[c]] = NoClient
    BY FreshEntries DEF JoinOne, JoinNeverOverwrites, IInv, TypeOK, Safe, PendInv, SockInv, Alive
  <1>2. \A t \in Servers, f \in Fds :
          table'[t][f] = IF t = s /\ f = sock[c] THEN c ELSE table[t][f]
    BY TableUpdate DEF JoinOne, IInv
  <1>3. StageOf(c) = "queued" /\ ServerOf(c) = s
    BY <1>1, Placed DEF StageOf, PlacedInv, Alive, Holds
  <1>4. StageOf(c)' = "serving" /\ ServerOf(c)' = s
    <2>1. \A t \in Servers : c \notin pending'[t]
      BY <1>1 DEF IInv, TypeOK, Safe, PendInv
    <2>2. Holds(s, c)'
      BY <1>1, <1>2, ServerAssumption DEF Holds, Members, Keys
    <2> QED BY <1>1, <2>1, <2>2, PlacedNext DEF StageOf, PlacedInv, Alive
  <1>5. ASSUME NEW d \in Clients, d # c
        PROVE  StageOf(d)' = StageOf(d) /\ ServerOf(d)' = ServerOf(d)
    <2>1. ASSUME NEW t \in Servers PROVE (d \in pending'[t]) <=> (d \in pending[t])
      BY <1>1, <1>5 DEF IInv, TypeOK
    <2>2. ASSUME NEW t \in Servers PROVE d \in Members(t)' <=> d \in Members(t)
      BY <1>1, <1>2, <1>5, ServerAssumption DEF Members, Keys
    <2> QED BY <1>1, <2>1, <2>2, StageKept DEF Kept, Holds
  <1>6. Lifecycle!LJoin(c)
    BY <1>1, <1>3, <1>4, <1>5 DEF Lifecycle!LJoin
  <1> QED BY <1>6 DEF Lifecycle!LNext

\* The four deletions of a thread, and the refusal of the accept thread.
LEMMA DeleteRefines ==
  ASSUME IInv, IInv', NEW s \in Servers,
         \/ \E fd \in Fds : TimeDead(s, fd)
         \/ OnClientLeave(s) \/ ClearTable(s) \/ ClearBuffer(s)
  PROVE  Lifecycle!LNext
  <1>1. ASSUME NEW fd \in Fds, TimeDead(s, fd) PROVE Lifecycle!LNext
    <2>1. /\ UNCHANGED <<table, pending>> /\ victim' = [victim EXCEPT ![s] = table[s][fd]]
          /\ victim[s] = NoClient /\ table[s][fd] # NoClient
          /\ table[s][fd] \in Clients /\ obj[table[s][fd]] = "object"
      BY <1>1 DEF TimeDead, Go, IInv, TypeOK, Safe, TableInv, VictimInv
    <2>2. \A c \in Clients \ {table[s][fd]}, t \in Servers : Holds(t, c)' <=> Holds(t, c)
      BY <2>1, ServerAssumption DEF Holds, Members, Keys, IInv, TypeOK
    <2>3. PICK c \in Clients : c = table[s][fd]
      BY <2>1
    <2>4. DeleteClients({c})
      BY <1>1, <2>3 DEF TimeDead
    <2> QED BY <2>1, <2>2, <2>3, <2>4, Destroys DEF Alive
  <1>2. CASE OnClientLeave(s)
    <2>1. /\ UNCHANGED <<table, pending>> /\ victim' = [victim EXCEPT ![s] = NoClient]
          /\ victim[s] \in Clients /\ obj[victim[s]] = "object"
      BY <1>2 DEF OnClientLeave, Go, IInv, Safe, VictimInv
    <2>2. \A c \in Clients \ {victim[s]}, t \in Servers : Holds(t, c)' <=> Holds(t, c)
      BY <2>1, ServerAssumption DEF Holds, Members, Keys, IInv, TypeOK
    <2>3. PICK c \in Clients : c = victim[s]
      BY <2>1
    <2>4. DeleteClients({c})
      BY <1>2, <2>3 DEF OnClientLeave
    <2> QED BY <2>1, <2>2, <2>3, <2>4, Destroys DEF Alive
  <1>3. CASE ClearTable(s)
    <2>0. Members(s) \subseteq Clients
      BY DEF Members, Keys, IInv, TypeOK
    <2>1. PICK C \in SUBSET Clients : C = Members(s)
      BY <2>0
    <2>2. \A c \in C : obj[c] = "object"
      BY <1>3, <2>1 DEF ClearTable, Go, Members, Keys, IInv, Safe, TableInv
    <2>3. /\ UNCHANGED <<victim, pending>> /\ table' = [table EXCEPT ![s] = [fd \in Fds |-> NoClient]]
          /\ DeleteClients(C)
      BY <1>3, <2>1 DEF ClearTable
    <2>4. \A c \in Clients \ C, t \in Servers : c \in Members(t)' <=> c \in Members(t)
      BY <2>1, <2>3, MembersOf, ServerAssumption DEF Members, Keys, IInv, TypeOK
    <2> QED BY <2>2, <2>3, <2>4, Destroys DEF Holds, Alive
  <1>4. CASE ClearBuffer(s)
    <2>1. PICK C \in SUBSET Clients : C = pending[s]
      BY DEF IInv, TypeOK
    <2>2. \A c \in C : obj[c] = "object"
      BY <2>1 DEF IInv, Safe, PendInv
    <2>3. /\ UNCHANGED <<victim, table>> /\ pending' = [pending EXCEPT ![s] = {}]
          /\ DeleteClients(C)
      BY <1>4, <2>1 DEF ClearBuffer
    <2>4. \A c \in Clients \ C, t \in Servers :
            /\ (c \in pending'[t]) <=> (c \in pending[t])
            /\ Holds(t, c)' <=> Holds(t, c)
      BY <2>1, <2>3 DEF Holds, Members, Keys, IInv, TypeOK
    <2> QED BY <2>2, <2>3, <2>4, Destroys DEF Alive
  <1> QED BY <1>1, <1>2, <1>3, <1>4

LEMMA RefuseRefines ==
  ASSUME IInv, IInv', RefuseClient
  PROVE  Lifecycle!LNext
  <1>1. /\ UNCHANGED <<table, pending, victim>> /\ DeleteClients({cur})
        /\ cur \in Clients /\ obj[cur] = "socket"
    BY DEF RefuseClient, GoAccept, serverVars, IInv, Safe, CurInv
  <1>2. \A c \in Clients, t \in Servers : Holds(t, c)' <=> Holds(t, c)
    BY <1>1 DEF Holds, Members, Keys
  <1>3. PICK c \in Clients : c = cur
    BY <1>1
  <1> QED BY <1>1, <1>2, <1>3, Destroys DEF Alive

LEMMA ServiceUnseen ==
  ASSUME IInv, IInv', EraseInv, NEW s \in Servers,
         \/ LoopTop(s) \/ PeekBuffer(s) \/ JoinDone(s) \/ TimeErase(s) \/ TimeEnd(s)
         \/ EventsEnd(s) \/ WaitFails(s) \/ ExitLocked(s)
         \/ \E fd \in Fds : EventLost(s, fd)
  PROVE  UNCHANGED Lifecycle!lifeVars
  <1>1. CASE \/ LoopTop(s) \/ PeekBuffer(s) \/ JoinDone(s) \/ TimeEnd(s)
             \/ EventsEnd(s) \/ WaitFails(s) \/ ExitLocked(s)
    <2>1. UNCHANGED <<obj, sock, table, pending, victim>>
      BY <1>1 DEF LoopTop, PeekBuffer, JoinDone, TimeEnd, EventsEnd, WaitFails, ExitLocked,
         clientVars
    <2> QED BY <2>1, Unseen DEF Kept, Holds, Members, Keys
  <1>2. CASE TimeErase(s)
    <2>1. /\ UNCHANGED <<obj, sock, pending>> /\ victim' = [victim EXCEPT ![s] = NoClient]
          /\ obj[victim[s]] = "freed" /\ sock[victim[s]] \in Fds
          /\ table[s][sock[victim[s]]] = victim[s]
      BY <1>2 DEF TimeErase, clientVars, Go, EraseInv, IInv, Safe, VictimInv
    <2>2. \A t \in Servers, f \in Fds :
            table'[t][f] = IF t = s /\ f = sock[victim[s]] THEN NoClient ELSE table[t][f]
      BY <1>2, TableUpdate DEF TimeErase, IInv
    <2>3. ASSUME NEW c \in Clients, obj[c] \in Alive, NEW t \in Servers
          PROVE  Holds(t, c)' <=> Holds(t, c)
      <3>1. c # victim[s] /\ c # NoClient
        BY <2>1, <2>3, ServerAssumption DEF Alive
      <3>2. c \in Members(t)' <=> c \in Members(t)
        BY <2>1, <2>2, <3>1 DEF Members, Keys
      <3> QED BY <2>1, <3>1, <3>2 DEF Holds, IInv, TypeOK
    <2> QED BY <2>1, <2>3, Unseen DEF Kept
  <1>3. ASSUME NEW fd \in Fds, EventLost(s, fd) PROVE UNCHANGED Lifecycle!lifeVars
    <2>1. /\ UNCHANGED <<obj, sock, pending>> /\ victim' = [victim EXCEPT ![s] = table[s][fd]]
          /\ victim[s] = NoClient /\ table[s][fd] # NoClient /\ sock[table[s][fd]] = fd
      BY <1>3 DEF EventLost, clientVars, Go, IInv, Safe, VictimInv, TableInv
    <2>2. \A t \in Servers, f \in Fds :
            table'[t][f] = IF t = s /\ f = fd THEN NoClient ELSE table[t][f]
      BY <1>3, <2>1, TableUpdate, ZenonT(40) DEF EventLost, IInv
    <2>3. ASSUME NEW c \in Clients, NEW t \in Servers PROVE Holds(t, c)' <=> Holds(t, c)
      <3>1. c # NoClient
        BY ServerAssumption
      <3>2. CASE t # s
        <4>1. c \in Members(t)' <=> c \in Members(t)
          BY <2>2, <3>2 DEF Members, Keys
        <4> QED BY <2>1, <3>2, <4>1 DEF Holds, IInv, TypeOK
      <3>3. CASE t = s /\ c = table[s][fd]
        <4>1. c \in Members(s) /\ victim'[s] = c
          BY <2>1, <3>1, <3>3 DEF Members, Keys, IInv, TypeOK
        <4> QED BY <3>3, <4>1 DEF Holds
      <3>4. CASE t = s /\ c # table[s][fd]
        <4>1. c \in Members(t)' <=> c \in Members(t)
          BY <2>2, <3>1, <3>4 DEF Members, Keys
        <4> QED BY <2>1, <3>1, <3>4, <4>1 DEF Holds, IInv, TypeOK
      <3> QED BY <3>2, <3>3, <3>4
    <2> QED BY <2>1, <2>3, Unseen DEF Kept
  <1> QED BY <1>1, <1>2, <1>3

LEMMA StepRefines ==
  ASSUME IInv, IInv', EraseInv, FreshInv, [Next]_vars
  PROVE  [Lifecycle!LNext]_(Lifecycle!lifeVars)
  <1>1. ASSUME UNCHANGED <<sock, table, pending, victim>>,
               \A c \in Clients : obj'[c] = obj[c] \/ (obj[c] \in Alive /\ obj'[c] \in Alive)
        PROVE  UNCHANGED Lifecycle!lifeVars
    BY <1>1, Unseen DEF Kept, Holds, Members, Keys, Alive
  <1>2. CASE AcceptStep \/ AcceptFails
    <2>1. CASE AcceptTop \/ AcceptIdle \/ AcceptExit \/ ScanServer \/ AcceptFails
      BY <1>1, <2>1 DEF AcceptTop, AcceptIdle, AcceptExit, ScanServer, AcceptFails,
         clientVars, serverVars
    <2>2. CASE AcceptClient
      BY <1>1, <2>2 DEF AcceptClient, GoAccept, serverVars, Alive, IInv, TypeOK, Safe, CurInv
    <2> QED BY <1>2, <2>1, <2>2, RefuseRefines, HandOverRefines DEF AcceptStep
  <1>3. ASSUME NEW s \in Servers, ServiceStep(s) \/ ServiceExit(s) \/ ServiceLoss(s)
        PROVE  [Lifecycle!LNext]_(Lifecycle!lifeVars)
    BY <1>3, ServiceUnseen, DeleteRefines, JoinRefines
       DEF ServiceStep, ServiceExit, ServiceLoss, ServerStep, ServerLoss
  <1>4. CASE CloseAccept \/ MainStep \/ UNCHANGED vars
    BY <1>1, <1>4 DEF MainStep, CloseAccept, AcceptJoined, CloseServer, ServerJoined,
       ServerSkipped, CloseEnds, ServerGone, vars, clientVars, serverVars
  <1> QED BY <1>2, <1>3, <1>4, AcceptRefines DEF Next

LEMMA InitRefines == Init => FreshInv /\ Lifecycle!LInit
  <1> SUFFICES ASSUME Init PROVE FreshInv /\ Lifecycle!LInit
    OBVIOUS
  <1>1. \A c \in Clients : obj[c] = "none" /\ sock[c] = InvalidSocket
    BY DEF Init, SInit
  <1>2. \A c \in Clients : StageOf(c) = "none" /\ ServerOf(c) = NoServer
    BY <1>1 DEF StageOf, ServerOf
  <1> QED BY <1>1, <1>2 DEF FreshInv, Lifecycle!LInit

\* Whatever the threads of the server do to a connection is a step of its
\* lifecycle: it is handed to one service thread, taken over by that thread
\* only, and destroyed once, and no two living connections share a socket
\* number.
THEOREM ServerImplementsLifecycle == Spec => ImplementsLifecycle
  <1>1. IInv /\ EraseInv /\ FreshInv /\ [Next]_vars => EraseInv' /\ FreshInv'
    BY EraseNext, FreshNext
  <1>2. IInv /\ IInv' /\ EraseInv /\ FreshInv /\ [Next]_vars
          => [Lifecycle!LNext]_(Lifecycle!lifeVars)
    BY StepRefines
  <1>3. Init => EraseInv
    BY CountInit
  <1> QED BY <1>1, <1>2, <1>3, InitRefines, ServerInvariance, PTL
         DEF Spec, ImplementsLifecycle, Lifecycle!LSpec

==============================================================================
