----------------------- MODULE CELLSelectServerProofs ------------------------
(***************************************************************************)
(* Safety of a select service thread for any finite set of sockets, any    *)
(* limit of the sets, any dead time and any length of a turn: the cached   *)
(* sets are fresh at every select(), and the heart clocks drop the clients *)
(* that are due, no others and none too late.                              *)
(*                                                                         *)
(* SetsOwed says what the backup of the read set owes to the table while   *)
(* _clients_change is false.  Clocks relates each client's heart clock to  *)
(* the time since its peer last sent: the two are never a turn apart,      *)
(* except by the dead time once a message has been handled.                *)
(***************************************************************************)
EXTENDS CELLSelectServer, FiniteSetTheorems, WellFoundedInduction, TLAPS

\* Without a change of the table since the last sets were made, they are the
\* table's; between the making and the call nothing is changed.
SetsOwed ==
  /\ pc # "done" /\ ~change =>
       fdReadBak = Set(Table) /\ \A fd \in Table : fd <= maxSock
  /\ pc = "select" => ~change /\ fdRead = fdReadBak /\ fdWrite \subseteq Table

\* A buffered client waits at most for the end of one turn and for another.
Waits(fd) ==
  /\ client[fd].dtHeart = 0
  /\ client[fd].quiet <= elapsed + (IF pc = "time" THEN 0 ELSE MaxTurn)

\* What dtHeart will be when CheckTime() adds the turn to it.
Due(fd) == client[fd].dtHeart + elapsed

Beats(fd) ==
  /\ client[fd].dtHeart < DeadTime
  /\ client[fd].quiet <= DeadTime - 1 + MaxTurn + Due(fd)
  /\ client[fd].data \/ fd \in received => client[fd].quiet <= MaxTurn + Due(fd)
  /\ client[fd].data /\ fd \in received => client[fd].quiet <= elapsed
  /\ ~client[fd].data /\ fd \notin received => Due(fd) <= client[fd].quiet + MaxTurn

Clocks ==
  /\ received # {} => pc \in {"write", "msg", "stuck"}
  /\ \A fd \in Fds : client[fd].at = "buffer" => Waits(fd)
  /\ \A fd \in Fds : client[fd].at = "table" => Beats(fd)

SelectInv == TypeOK /\ SetsOwed /\ Clocks

-----------------------------------------------------------------------------
\* A finite set of numbers has a greatest one: a smallest set without one would
\* have to do with one element less.
LEMMA MaxOfNaturals ==
  ASSUME NEW S, S \subseteq Nat, IsFiniteSet(S), S # {}
  PROVE  Max(S) \in S /\ \A x \in S : x <= Max(S)
  <1> DEFINE HasMax(T) == \E x \in T : \A y \in T : x >= y
             Bad == {T \in SUBSET S : T # {} /\ ~HasMax(T)}
  <1>1. HasMax(S)
    <2>1. SUFFICES ASSUME ~HasMax(S) PROVE FALSE
      OBVIOUS
    <2>2. IsWellFoundedOn(StrictSubsetOrdering(S), SUBSET S)
      BY FS_StrictSubsetOrderingWellFounded, FS_FiniteSubsetsOfFinite, Zenon
    <2>3. S \in Bad /\ Bad \subseteq SUBSET S
      BY <2>1
    <2>4. PICK T \in Bad : \A U \in Bad : <<U, T>> \notin StrictSubsetOrdering(S)
      <3> HIDE DEF Bad
      <3> QED BY <2>2, <2>3, WFMin, Zenon
    <2>5. PICK x \in T : TRUE
      BY <2>4
    <2> DEFINE U == T \ {x}
    <2>6. T \subseteq Nat /\ U \subseteq S /\ U \subseteq T /\ U # T
      BY <2>4, <2>5
    <2>7. U \notin Bad
      BY <2>4, <2>6 DEF StrictSubsetOrdering
    <2>8. CASE U = {}
      <3>1. \A y \in T : x >= y
        BY <2>6, <2>8
      <3> QED BY <2>4, <2>5, <3>1
    <2>9. CASE U # {}
      <3>1. PICK m \in U : \A y \in U : m >= y
        BY <2>6, <2>7, <2>9
      <3>2. CASE m >= x
        BY <2>4, <2>6, <3>1, <3>2
      <3>3. CASE x >= m
        BY <2>4, <2>6, <3>1, <3>3
      <3> QED BY <2>5, <2>6, <3>1, <3>2, <3>3
    <2> QED BY <2>8, <2>9
  <1>2. Max(S) \in S /\ \A y \in S : Max(S) >= y
    BY <1>1 DEF Max
  <1> QED BY <1>2

-----------------------------------------------------------------------------
(* Types *)

ClientTypes ==
  /\ client \in [Fds -> ClientRecord]
  /\ \A fd \in Fds : client[fd].at = "none" => client[fd] = NoClient

\* The clients that leave are none, the others are what they should be.
LEMMA LeaveTypes ==
  ASSUME NEW gone, NEW others, Leave(gone, others),
         \A fd \in Fds : others[fd] \in ClientRecord
                          /\ (others[fd].at = "none" => others[fd] = NoClient)
  PROVE  ClientTypes'
  <1>1. NoClient \in ClientRecord
    BY DEF NoClient, ClientRecord
  <1>2. client' = [fd \in Fds |-> IF fd \in gone THEN NoClient ELSE others[fd]]
    BY DEF Leave
  <1> QED BY <1>1, <1>2 DEF ClientTypes

LEMMA TypeInit == Init => TypeOK
  BY SelectAssumption DEF SelectAssumption, Init, TypeOK, ClientRecord, NoClient

LEMMA ClientTypesNext ==
  ASSUME TypeOK, Next
  PROVE  ClientTypes'
  <1> USE DEF TypeOK
  <1>0. ClientTypes
    BY DEF ClientTypes
  <1>1. NoClient \in ClientRecord /\ NewClient \in ClientRecord /\ NewClient.at = "buffer"
    BY DEF NoClient, NewClient, ClientRecord
  <1>2. elapsed \in Nat
    BY SelectAssumption DEF SelectAssumption
  <1>3. CASE UNCHANGED client
    BY <1>0, <1>3 DEF ClientTypes
  <1>4. ASSUME NEW fd \in Fds, Accept(fd) PROVE ClientTypes'
    BY <1>1, <1>4 DEF Accept, ClientTypes
  <1>5. ASSUME NEW fd \in Fds, PeerSends(fd) PROVE ClientTypes'
    BY <1>5, ZenonT(40) DEF PeerSends, ClientTypes, ClientRecord, NoClient
  <1>6. ASSUME NEW fd \in Fds, PeerCloses(fd) PROVE ClientTypes'
    BY <1>6 DEF PeerCloses, ClientTypes, ClientRecord, NoClient
  <1>7. CASE Tick
    BY <1>1, <1>7, SMTT(30) DEF Tick, ClientTypes, ClientRecord, NoClient
  <1>8. CASE LoopTop
    BY <1>8, ZenonT(40) DEF LoopTop, ClientTypes, ClientRecord, NoClient
  <1>9. CASE CheckTime
    BY <1>2, <1>9, LeaveTypes DEF CheckTime, Aged, Table, At, ClientRecord
  <1>10. CASE ReadData
    <2>1. PICK garbage \in SUBSET Table :
            LET ready == {fd \in Table : Has(fdRead, garbage, fd)}
                got == {fd \in ready : client[fd].data}
            IN Leave({fd \in ready \ got : client[fd].hup},
                     [fd \in Fds |-> IF fd \in got THEN [client[fd] EXCEPT !.data = FALSE]
                                     ELSE client[fd]])
      BY <1>10 DEF ReadData
    <2> DEFINE got == {fd \in {g \in Table : Has(fdRead, garbage, g)} : client[fd].data}
               others == [fd \in Fds |-> IF fd \in got THEN [client[fd] EXCEPT !.data = FALSE]
                                        ELSE client[fd]]
    <2>2. \E gone : Leave(gone, others)
      BY <2>1
    <2>3. \A fd \in got : client[fd].at = "table"
      BY DEF Table, At
    <2>4. \A fd \in Fds : others[fd] \in ClientRecord
                          /\ (others[fd].at = "none" => others[fd] = NoClient)
      BY <2>3 DEF ClientRecord
    <2> HIDE DEF others
    <2> QED BY <2>2, <2>4, LeaveTypes
  <1>11. CASE WriteData
    <2>1. PICK failed, whole \in SUBSET Table :
            Leave(failed, [fd \in Fds |-> IF fd \in whole
                                          THEN [client[fd] EXCEPT !.needWrite = FALSE]
                                          ELSE client[fd]])
      BY <1>11 DEF WriteData
    <2> DEFINE others == [fd \in Fds |-> IF fd \in whole
                                        THEN [client[fd] EXCEPT !.needWrite = FALSE]
                                        ELSE client[fd]]
    <2>2. Leave(failed, others)
      BY <2>1
    <2>3. \A fd \in whole : client[fd].at = "table"
      BY DEF Table, At
    <2>4. \A fd \in Fds : others[fd] \in ClientRecord
                          /\ (others[fd].at = "none" => others[fd] = NoClient)
      BY <2>3 DEF ClientRecord
    <2> HIDE DEF others
    <2> QED BY <2>2, <2>4, LeaveTypes
  <1>12. CASE DoMsg
    <2>1. PICK answered \in SUBSET (received \cap Table) :
            client' = [fd \in Fds |->
              IF fd \in received \cap Table
              THEN [client[fd] EXCEPT !.dtHeart = 0, !.needWrite = @ \/ fd \in answered]
              ELSE client[fd]]
      BY <1>12 DEF DoMsg
    <2>2. ASSUME NEW fd \in Fds
          PROVE  /\ client'[fd] \in ClientRecord
                 /\ client'[fd].at = client[fd].at
                 /\ client'[fd].at = "none" => client'[fd] = client[fd]
      <3>1. (client[fd].needWrite \/ fd \in answered) \in BOOLEAN
        BY Zenon
      <3>2. CASE fd \in received \cap Table
        <4> DEFINE c == [client[fd] EXCEPT !.dtHeart = 0,
                           !.needWrite = client[fd].needWrite \/ fd \in answered]
                   wanted == client[fd].needWrite \/ fd \in answered
        <4>1. client'[fd] = c
          BY <2>1, <3>2, Zenon
        <4>2. c = [client[fd] EXCEPT !.dtHeart = 0, !.needWrite = wanted] /\ wanted \in BOOLEAN
          BY <3>1, Zenon
        <4> HIDE DEF c, wanted
        <4>3. c \in ClientRecord /\ c.at = client[fd].at
          BY <4>2 DEF ClientRecord
        <4>4. client[fd].at = "table"
          BY <3>2 DEF Table, At
        <4> QED BY <4>1, <4>3, <4>4
      <3>3. CASE fd \notin received \cap Table
        BY <2>1, <3>3
      <3> QED BY <3>2, <3>3
    <2>3. client' \in [Fds -> ClientRecord]
      <3>1. client' = [fd \in Fds |-> client'[fd]]
        BY <2>1
      <3> QED BY <2>2, <3>1
    <2> QED BY <2>2, <2>3 DEF ClientTypes
  <1>13. CASE ClearClients
    BY <1>1, <1>13 DEF ClearClients, ClientTypes
  <1>14. UNCHANGED client \/ (\E fd \in Fds : Accept(fd) \/ PeerSends(fd) \/ PeerCloses(fd))
         \/ Tick \/ LoopTop \/ CheckTime \/ ReadData \/ WriteData \/ DoMsg \/ ClearClients
    <2>1. AcceptFails \/ Close \/ LoopEnds \/ Exit => UNCHANGED client
      BY DEF AcceptFails, Close, LoopEnds, Exit
    <2>2. MakeSets \/ EventsOfNobody => UNCHANGED client
      BY DEF MakeSets, EventsOfNobody
    <2>3. SelectInterrupted \/ SelectFails \/ Select => UNCHANGED client
      BY DEF SelectInterrupted, SelectFails, Select
    <2> QED BY <2>1, <2>2, <2>3 DEF Next, Service, Environment
  <1> QED BY <1>3, <1>4, <1>5, <1>6, <1>7, <1>8, <1>9, <1>10, <1>11, <1>12, <1>13, <1>14

LEMMA TypeNext ==
  ASSUME TypeOK, [Next]_vars
  PROVE  TypeOK'
  <1> USE DEF TypeOK
  <1>1. CASE UNCHANGED vars
    BY <1>1 DEF vars, setVars, Table, At
  <1>2. CASE Next
    <2>1. ClientTypes'
      BY <1>2, ClientTypesNext
    <2>2. accepting' \in BOOLEAN /\ run' \in BOOLEAN
      BY <1>2 DEF Next, Service, Environment, Accept, AcceptFails, PeerSends, PeerCloses, Tick,
           Close, LoopTop, LoopEnds, CheckTime, MakeSets, EventsOfNobody, SelectInterrupted,
           SelectFails, Select, ReadData, WriteData, DoMsg, Exit, ClearClients
    <2>3. /\ pc' \in {"top", "time", "sets", "select", "read", "write", "msg", "exit",
                     "clear", "done", "stuck", "crashed"}
          /\ received' \subseteq Fds
      BY <1>2 DEF Next, Service, Environment, Accept, AcceptFails, PeerSends, PeerCloses, Tick,
           Close, LoopTop, LoopEnds, CheckTime, MakeSets, EventsOfNobody, SelectInterrupted,
           SelectFails, Select, ReadData, WriteData, DoMsg, Exit, ClearClients, Go, Table, At
    <2>4. elapsed' \in 0..MaxTurn
      <3>1. elapsed' \in {elapsed, 0} \/ (elapsed < MaxTurn /\ elapsed' = elapsed + 1)
        BY <1>2 DEF Next, Service, Environment, Accept, AcceptFails, PeerSends, PeerCloses,
             Tick, Close, LoopTop, LoopEnds, CheckTime, MakeSets, EventsOfNobody,
             SelectInterrupted, SelectFails, Select, ReadData, WriteData, DoMsg, Exit,
             ClearClients
      <3> QED BY <3>1, SelectAssumption DEF SelectAssumption
    <2>5. change' \in BOOLEAN
      <3>1. ASSUME NEW gone, NEW others, Leave(gone, others) PROVE change' \in BOOLEAN
        BY <3>1, Zenon DEF Leave
      <3>2. CheckTime \/ ReadData \/ WriteData => change' \in BOOLEAN
        BY <3>1, Zenon DEF CheckTime, ReadData, WriteData
      <3>3. LoopTop => change' \in BOOLEAN
        BY Zenon DEF LoopTop
      <3> QED BY <1>2, <3>2, <3>3 DEF Next, Service, Environment, Accept, AcceptFails,
            PeerSends, PeerCloses, Tick, Close, LoopEnds, MakeSets, EventsOfNobody,
            SelectInterrupted, SelectFails, Select, DoMsg, Exit, ClearClients, setVars
    <2>6. /\ \A set \in {fdRead', fdReadBak', fdWrite'} : set \subseteq {fd \in Fds : fd < MaxFd}
          /\ maxSock' \in Nat
      <3>1. CASE MakeSets
        <4>1. Table \subseteq Fds
          BY DEF Table, At
        <4>2. Max(Table) \in Table
          BY <3>1, <4>1, MaxOfNaturals, FS_Subset, SelectAssumption
             DEF SelectAssumption, MakeSets
        <4> QED BY <3>1, <4>1, <4>2, SelectAssumption DEF SelectAssumption, MakeSets, Set
      <3>2. CASE EventsOfNobody \/ Select
        BY <3>2 DEF EventsOfNobody, Select
      <3> QED BY <1>2, <3>1, <3>2 DEF Next, Service, Environment, Accept, AcceptFails,
            PeerSends, PeerCloses, Tick, Close, LoopTop, LoopEnds, CheckTime,
            SelectInterrupted, SelectFails, ReadData, WriteData, DoMsg, Exit, ClearClients,
            setVars
    <2> QED BY <2>1, <2>2, <2>3, <2>4, <2>5, <2>6 DEF ClientTypes
  <1> QED BY <1>1, <1>2

-----------------------------------------------------------------------------
(* The cached sets *)

LEMMA SetsInit == Init => SetsOwed
  BY DEF Init, SetsOwed

\* A step that leaves the sets alone, and does not change the table without
\* _clients_change, keeps what is owed.
LEMMA SetsKept ==
  ASSUME SetsOwed, UNCHANGED <<fdReadBak, maxSock>>, pc # "done", pc' # "select",
         ~change' => ~change /\ Table' = Table
  PROVE  SetsOwed'
  BY DEF SetsOwed, Set

\* So does one that leaves all of the service thread alone.
LEMMA SetsUnseen ==
  ASSUME SetsOwed, UNCHANGED <<pc, change, fdRead, fdReadBak, fdWrite, maxSock>>,
         Table' = Table
  PROVE  SetsOwed'
  BY DEF SetsOwed, Set

LEMMA SameTable ==
  ASSUME \A fd \in Fds : client'[fd].at = "table" <=> client[fd].at = "table"
  PROVE  Table' = Table
  BY DEF Table, At

\* Whoever leaves sets _clients_change.
LEMMA LeaveIsAChange ==
  ASSUME NEW gone, NEW others, Leave(gone, others), change \in BOOLEAN,
         \A fd \in Fds : others[fd].at = client[fd].at
  PROVE  ~change' => ~change /\ Table' = Table
  <1>1. ~change' => ~change /\ gone = {}
    BY DEF Leave
  <1>2. gone = {} => \A fd \in Fds : client'[fd].at = client[fd].at
    BY DEF Leave
  <1> QED BY <1>1, <1>2, SameTable

LEMMA SetsNext ==
  ASSUME TypeOK, SetsOwed, [Next]_vars
  PROVE  SetsOwed'
  <1> USE DEF TypeOK
  <1>1. CASE UNCHANGED vars
    BY <1>1 DEF vars, setVars, SetsOwed, Table, At, Set
  <1>2. CASE AcceptFails \/ Close \/ Tick
    <2>1. \A fd \in Fds : client'[fd].at = "table" <=> client[fd].at = "table"
      BY <1>2 DEF AcceptFails, Close, Tick, NoClient, ClientRecord
    <2> QED BY <1>2, <2>1, SameTable, SetsUnseen DEF AcceptFails, Close, Tick, setVars
  <1>3. ASSUME NEW fd \in Fds, Accept(fd) \/ PeerSends(fd) \/ PeerCloses(fd)
        PROVE  SetsOwed'
    <2>1. \A g \in Fds : client'[g].at = "table" <=> client[g].at = "table"
      BY <1>3 DEF Accept, PeerSends, PeerCloses, NoClient, NewClient, ClientRecord
    <2> QED BY <1>3, <2>1, SameTable, SetsUnseen DEF Accept, PeerSends, PeerCloses, setVars
  <1>4. CASE LoopTop
    <2>1. ~change' => ~change /\ At("buffer") = {}
      BY <1>4 DEF LoopTop
    <2>2. At("buffer") = {} => \A fd \in Fds : client'[fd] = client[fd]
      BY <1>4 DEF LoopTop, At
    <2>3. ~change' => ~change /\ Table' = Table
      BY <2>1, <2>2, SameTable
    <2> QED BY <1>4, <2>3, SetsKept DEF LoopTop, Go
  <1>5. CASE CheckTime
    <2>1. \A fd \in Fds : Aged(fd).at = client[fd].at
      BY DEF Aged, ClientRecord
    <2>2. ~change' => ~change /\ Table' = Table
      BY <1>5, <2>1, LeaveIsAChange DEF CheckTime
    <2> QED BY <1>5, <2>2, SetsKept DEF CheckTime, Go
  <1>6. CASE MakeSets
    <2>1. Table' = Table
      BY <1>6, SameTable DEF MakeSets
    <2>2. Table \subseteq Nat /\ IsFiniteSet(Table) /\ Table # {}
      BY <1>6, SelectAssumption, FS_Subset DEF MakeSets, Table, At, SelectAssumption
    <2>3. \A fd \in Table : fd <= Max(Table)
      BY <2>2, MaxOfNaturals
    <2>4. fdRead' = Set(Table) /\ \A fd \in Table : fd <= maxSock'
      BY <1>6, <2>3 DEF MakeSets, SetsOwed, Go
    <2> QED BY <1>6, <2>1, <2>4 DEF MakeSets, SetsOwed, Go, Set
  <1>7. CASE EventsOfNobody
    <2>1. Table' = {} /\ fdReadBak' = {} /\ pc' # "select"
      BY <1>7, SameTable DEF EventsOfNobody
    <2> QED BY <2>1 DEF SetsOwed, Set
  <1>8. CASE LoopEnds \/ SelectInterrupted \/ SelectFails \/ Select \/ DoMsg \/ Exit
    <2>1. \A fd \in Fds : client'[fd].at = client[fd].at
      BY <1>8 DEF LoopEnds, SelectInterrupted, SelectFails, Select, DoMsg, Exit, ClientRecord
    <2>2. Table' = Table
      BY <2>1, SameTable
    <2>3. pc # "done" /\ pc' # "select" /\ UNCHANGED <<change, fdReadBak, maxSock>>
      BY <1>8 DEF LoopEnds, SelectInterrupted, SelectFails, Select, DoMsg, Exit, Go, setVars
    <2> QED BY <2>2, <2>3, SetsKept
  <1>9. CASE ReadData
    <2>1. \E gone, got : Leave(gone, [fd \in Fds |-> IF fd \in got
                            THEN [client[fd] EXCEPT !.data = FALSE] ELSE client[fd]])
      BY <1>9 DEF ReadData
    <2>2. ~change' => ~change /\ Table' = Table
      BY <2>1, LeaveIsAChange DEF ClientRecord
    <2> QED BY <1>9, <2>2, SetsKept DEF ReadData, Go
  <1>10. CASE WriteData
    <2>1. \E gone, whole : Leave(gone, [fd \in Fds |-> IF fd \in whole
                              THEN [client[fd] EXCEPT !.needWrite = FALSE] ELSE client[fd]])
      BY <1>10 DEF WriteData
    <2>2. ~change' => ~change /\ Table' = Table
      BY <2>1, LeaveIsAChange DEF ClientRecord
    <2> QED BY <1>10, <2>2, SetsKept DEF WriteData, Go
  <1>11. CASE ClearClients
    BY <1>11 DEF ClearClients, Go, SetsOwed
  <1> QED BY <1>1, <1>2, <1>3, <1>4, <1>5, <1>6, <1>7, <1>8, <1>9, <1>10, <1>11
          DEF Next, Service, Environment

-----------------------------------------------------------------------------
(* The heart clocks *)

LEMMA Bounds ==
  TypeOK => /\ elapsed \in Nat /\ elapsed <= MaxTurn
            /\ \A fd \in Fds : client[fd].dtHeart \in Nat /\ client[fd].quiet \in Nat
            /\ DeadTime \in Nat \ {0} /\ MaxTurn \in Nat
  BY SelectAssumption DEF SelectAssumption, TypeOK, ClientRecord, NoClient

LEMMA ClocksInit == Init => Clocks
  BY DEF Init, Clocks, NoClient

\* What the clocks are compared with.
SameClock(fd) ==
  /\ client'[fd].at = client[fd].at /\ client'[fd].data = client[fd].data
  /\ client'[fd].dtHeart = client[fd].dtHeart /\ client'[fd].quiet = client[fd].quiet

\* A step that leaves each client's clock alone or takes the client out.
LEMMA ClocksUnseen ==
  ASSUME Clocks, UNCHANGED <<elapsed, received>>,
         received # {} => pc' \in {"write", "msg", "stuck"}, pc' = "time" => pc = "time",
         pc = "time" => pc' = "time",
         \A fd \in Fds : client'[fd].at = "none" \/ SameClock(fd)
  PROVE  Clocks'
  <1>1. ASSUME NEW fd \in Fds, client'[fd].at # "none" PROVE SameClock(fd)
    BY <1>1
  <1>2. ASSUME NEW fd \in Fds, client'[fd].at = "buffer" PROVE Waits(fd)'
    BY <1>1, <1>2 DEF Clocks, Waits, SameClock
  <1>3. ASSUME NEW fd \in Fds, client'[fd].at = "table" PROVE Beats(fd)'
    BY <1>1, <1>3 DEF Clocks, Beats, Due, SameClock
  <1> QED BY <1>2, <1>3 DEF Clocks

LEMMA EnvironmentClocks ==
  ASSUME TypeOK, Clocks, Environment
  PROVE  Clocks'
  <1>a. client \in [Fds -> ClientRecord]
    BY DEF TypeOK
  <1>b. /\ elapsed \in Nat /\ elapsed <= MaxTurn
        /\ DeadTime \in Nat \ {0} /\ MaxTurn \in Nat
    BY Bounds
  <1>c. \A fd \in Fds : client[fd].dtHeart \in Nat /\ client[fd].quiet \in Nat
    BY Bounds
  <1>1. CASE AcceptFails \/ Close
    BY <1>1, ClocksUnseen DEF AcceptFails, Close, SameClock, Clocks
  <1>2. CASE Tick
    <2>1. /\ elapsed' = elapsed + 1 /\ UNCHANGED <<pc, received>>
          /\ \A fd \in Fds : client[fd].at # "none" =>
               client'[fd] = [client[fd] EXCEPT !.quiet = @ + 1]
      BY <1>2 DEF Tick, NoClient
    <2>2. \A fd \in Fds : client[fd].at = "none" => client'[fd].at = "none"
      BY <1>2 DEF Tick, NoClient
    <2>3. ASSUME NEW fd \in Fds, client[fd].at # "none"
          PROVE  /\ client'[fd].at = client[fd].at /\ client'[fd].data = client[fd].data
                 /\ client'[fd].dtHeart = client[fd].dtHeart
                 /\ client'[fd].quiet = client[fd].quiet + 1
      BY <1>a, <2>1, <2>3, ZenonT(40) DEF ClientRecord
    <2>4. ASSUME NEW fd \in Fds, client'[fd].at = "buffer" PROVE Waits(fd)'
      BY <1>b, <1>c, <2>1, <2>2, <2>3, <2>4 DEF Clocks, Waits
    <2>5. ASSUME NEW fd \in Fds, client'[fd].at = "table" PROVE Beats(fd)'
      BY <1>b, <1>c, <2>1, <2>2, <2>3, <2>5 DEF Clocks, Beats, Due
    <2> QED BY <2>1, <2>4, <2>5 DEF Clocks
  <1>3. ASSUME NEW new \in Fds, Accept(new) PROVE Clocks'
    <2>1. /\ client' = [client EXCEPT ![new] = NewClient]
          /\ UNCHANGED <<elapsed, pc, received>>
      BY <1>3 DEF Accept
    <2>2. /\ client'[new].at = "buffer" /\ client'[new].dtHeart = 0
          /\ client'[new].quiet = 0
          /\ \A fd \in Fds : fd # new => client'[fd] = client[fd]
      BY <1>a, <2>1 DEF NewClient, NoClient
    <2>3. ASSUME NEW fd \in Fds, client'[fd].at = "buffer" PROVE Waits(fd)'
      BY <1>b, <1>c, <2>1, <2>2, <2>3 DEF Clocks, Waits
    <2>4. ASSUME NEW fd \in Fds, client'[fd].at = "table" PROVE Beats(fd)'
      BY <1>b, <1>c, <2>1, <2>2, <2>4 DEF Clocks, Beats, Due
    <2> QED BY <2>1, <2>3, <2>4 DEF Clocks
  <1>4. ASSUME NEW who \in Fds, PeerSends(who) PROVE Clocks'
    <2>1. /\ client' = [client EXCEPT ![who].data = TRUE, ![who].quiet = 0]
          /\ UNCHANGED <<elapsed, pc, received>>
      BY <1>4 DEF PeerSends
    <2>2. /\ client'[who].at = client[who].at /\ client'[who].dtHeart = client[who].dtHeart
          /\ client'[who].quiet = 0 /\ client'[who].data = TRUE
      <3>1. client'[who] = [client[who] EXCEPT !.data = TRUE, !.quiet = 0]
        BY <1>a, <2>1
      <3>2. client[who] \in ClientRecord
        BY <1>a
      <3> QED BY <3>1, <3>2 DEF ClientRecord
    <2>3. \A fd \in Fds : fd # who => client'[fd] = client[fd]
      BY <1>a, <2>1
    <2>4. ASSUME NEW fd \in Fds, client'[fd].at = "buffer" PROVE Waits(fd)'
      <3>1. CASE fd = who
        BY <1>b, <2>1, <2>2, <2>4, <3>1 DEF Clocks, Waits
      <3>2. CASE fd # who
        BY <1>b, <1>c, <2>1, <2>3, <2>4, <3>2 DEF Clocks, Waits
      <3> QED BY <3>1, <3>2
    <2>5. ASSUME NEW fd \in Fds, client'[fd].at = "table" PROVE Beats(fd)'
      <3>1. CASE fd = who
        BY <1>b, <1>c, <2>1, <2>2, <2>5, <3>1 DEF Clocks, Beats, Due
      <3>2. CASE fd # who
        BY <1>b, <1>c, <2>1, <2>3, <2>5, <3>2 DEF Clocks, Beats, Due
      <3> QED BY <3>1, <3>2
    <2> QED BY <2>1, <2>4, <2>5 DEF Clocks
  <1>5. ASSUME NEW who \in Fds, PeerCloses(who) PROVE Clocks'
    <2>1. \A fd \in Fds : SameClock(fd)
      BY <1>a, <1>5 DEF PeerCloses, SameClock, ClientRecord
    <2> QED BY <1>5, <2>1, ClocksUnseen DEF PeerCloses, Clocks
  <1> QED BY <1>1, <1>2, <1>3, <1>4, <1>5 DEF Environment

LEMMA ServiceClocks ==
  ASSUME TypeOK, Clocks, Service
  PROVE  Clocks'
  <1>a. client \in [Fds -> ClientRecord]
    BY DEF TypeOK
  <1>b. /\ elapsed \in Nat /\ elapsed <= MaxTurn
        /\ DeadTime \in Nat \ {0} /\ MaxTurn \in Nat
    BY Bounds
  <1>c. \A fd \in Fds : client[fd].dtHeart \in Nat /\ client[fd].quiet \in Nat
    BY Bounds
  <1>d. NoClient.at = "none"
    BY DEF NoClient
  <1>0. received # {} => pc \in {"write", "msg", "stuck"}
    BY DEF Clocks
  <1>1. CASE LoopTop
    <2>1. pc = "top" /\ received = {} /\ received' = {}
      BY <1>1 DEF LoopTop, Go, Clocks
    <2>2. \A fd \in Fds : client'[fd] = IF client[fd].at = "buffer"
                                        THEN [client[fd] EXCEPT !.at = "table"] ELSE client[fd]
      BY <1>1 DEF LoopTop
    <2>3. ASSUME NEW fd \in Fds
          PROVE  /\ client'[fd].at = "table" <=> client[fd].at \in {"buffer", "table"}
                 /\ client'[fd].at # "buffer"
                 /\ client'[fd].data = client[fd].data
                 /\ client'[fd].dtHeart = client[fd].dtHeart
                 /\ client'[fd].quiet = client[fd].quiet
      BY <1>a, <2>2 DEF ClientRecord
    <2>4. ASSUME NEW fd \in Fds, client'[fd].at = "table" PROVE Beats(fd)'
      <3>1. elapsed' = elapsed
        BY <1>1, <2>3, <2>4 DEF LoopTop, Table, At
      <3>2. CASE client[fd].at = "buffer"
        BY <1>b, <1>c, <2>1, <2>3, <3>1, <3>2 DEF Clocks, Waits, Beats, Due
      <3>3. CASE client[fd].at = "table"
        BY <1>b, <1>c, <2>1, <2>3, <3>1, <3>3 DEF Clocks, Beats, Due
      <3> QED BY <2>3, <2>4, <3>2, <3>3
    <2> QED BY <2>1, <2>3, <2>4 DEF Clocks
  <1>2. CASE CheckTime
    <2>1. /\ pc = "time" /\ pc' = "sets" /\ received = {} /\ received' = {} /\ elapsed' = 0
      BY <1>2 DEF CheckTime, Go, Clocks
    <2>2. \A fd \in Fds :
            client'[fd] = IF fd \in {g \in Table : checkHeart(g)} THEN NoClient
                          ELSE IF fd \in Table THEN Aged(fd) ELSE client[fd]
      BY <1>2 DEF CheckTime, Leave
    <2>3. ASSUME NEW fd \in Fds, client'[fd].at = "buffer" PROVE Waits(fd)'
      <3>1. fd \in Table => Aged(fd).at = "table"
        BY <1>a DEF Table, At, Aged, ClientRecord
      <3>2. client'[fd] = client[fd] /\ client[fd].at = "buffer"
        BY <1>d, <2>2, <2>3, <3>1
      <3> QED BY <1>b, <1>c, <2>1, <3>2 DEF Clocks, Waits
    <2>4. ASSUME NEW fd \in Fds, client'[fd].at = "table" PROVE Beats(fd)'
      <3>1. client[fd].at = "table" /\ fd \in Table /\ ~checkHeart(fd) /\ client'[fd] = Aged(fd)
        BY <1>d, <2>2, <2>4 DEF Table, At
      <3>2. /\ client'[fd].dtHeart = client[fd].dtHeart + elapsed
            /\ client'[fd].quiet = client[fd].quiet /\ client'[fd].data = client[fd].data
        BY <1>a, <3>1 DEF Aged, ClientRecord
      <3>3. client'[fd].dtHeart < DeadTime
        BY <1>b, <1>c, <3>1, <3>2 DEF checkHeart
      <3> QED BY <1>b, <1>c, <2>1, <3>1, <3>2, <3>3 DEF Clocks, Beats, Due
    <2> QED BY <2>1, <2>3, <2>4 DEF Clocks
  <1>3. CASE LoopEnds \/ MakeSets \/ EventsOfNobody \/ SelectInterrupted \/ SelectFails
             \/ Select \/ Exit
    <2>1. received = {} /\ UNCHANGED <<client, elapsed, received>> /\ pc # "time" /\ pc' # "time"
      BY <1>0, <1>3 DEF LoopEnds, MakeSets, EventsOfNobody, SelectInterrupted, SelectFails,
           Select, Exit, Go
    <2> QED BY <2>1, ClocksUnseen DEF SameClock
  <1>4. CASE ReadData
    <2>1. PICK garbage \in SUBSET Table :
            LET ready == {fd \in Table : Has(fdRead, garbage, fd)}
                got == {fd \in ready : client[fd].data}
            IN /\ received' = received \cup got
               /\ Leave({fd \in ready \ got : client[fd].hup},
                        [fd \in Fds |-> IF fd \in got THEN [client[fd] EXCEPT !.data = FALSE]
                                        ELSE client[fd]])
      BY <1>4 DEF ReadData
    <2> DEFINE ready == {fd \in Table : Has(fdRead, garbage, fd)}
               got == {fd \in ready : client[fd].data}
    <2>2. /\ pc = "read" /\ pc' \in {"write", "stuck"} /\ received = {} /\ received' = got
          /\ elapsed' = elapsed
      BY <1>0, <1>4, <2>1 DEF ReadData, Go
    <2>3. ASSUME NEW fd \in Fds
          PROVE  \/ client'[fd] = NoClient
                 \/ fd \in got /\ client'[fd] = [client[fd] EXCEPT !.data = FALSE]
                 \/ fd \notin got /\ client'[fd] = client[fd]
      BY <2>1 DEF Leave
    <2>4. \A fd \in got : client[fd].at = "table" /\ client[fd].data /\ fd \in Fds
      BY DEF Table, At
    <2> HIDE DEF got
    <2>5. ASSUME NEW fd \in Fds, client'[fd].at # "none", fd \in got
          PROVE  /\ client'[fd].at = "table" /\ ~client'[fd].data
                 /\ client'[fd].dtHeart = client[fd].dtHeart
                 /\ client'[fd].quiet = client[fd].quiet
      <3>1. client'[fd] = [client[fd] EXCEPT !.data = FALSE]
        BY <1>d, <2>3, <2>5
      <3>2. client[fd] \in ClientRecord /\ client[fd].at = "table"
        BY <1>a, <2>4, <2>5
      <3> QED BY <3>1, <3>2 DEF ClientRecord
    <2>6. ASSUME NEW fd \in Fds, client'[fd].at # "none", fd \notin got
          PROVE  client'[fd] = client[fd]
      BY <1>d, <2>3, <2>6
    <2>7. ASSUME NEW fd \in Fds, client'[fd].at = "buffer" PROVE Waits(fd)'
      BY <1>b, <1>c, <2>2, <2>5, <2>6, <2>7 DEF Clocks, Waits
    <2>8. ASSUME NEW fd \in Fds, client'[fd].at = "table" PROVE Beats(fd)'
      <3>1. CASE fd \in got
        BY <1>b, <1>c, <2>2, <2>4, <2>5, <2>8, <3>1 DEF Clocks, Beats, Due
      <3>2. CASE fd \notin got
        BY <1>b, <1>c, <2>2, <2>6, <2>8, <3>2 DEF Clocks, Beats, Due
      <3> QED BY <3>1, <3>2
    <2> QED BY <2>2, <2>7, <2>8 DEF Clocks
  <1>5. CASE WriteData
    <2>1. PICK failed, whole \in SUBSET Table :
            Leave(failed, [fd \in Fds |-> IF fd \in whole
                                          THEN [client[fd] EXCEPT !.needWrite = FALSE]
                                          ELSE client[fd]])
      BY <1>5 DEF WriteData
    <2>2. \A fd \in Fds : client'[fd].at = "none" \/ SameClock(fd)
      BY <1>a, <2>1 DEF Leave, SameClock, NoClient, ClientRecord
    <2> QED BY <1>5, <2>2, ClocksUnseen DEF WriteData, Go, Clocks
  <1>6. CASE DoMsg
    <2>1. PICK answered \in SUBSET (received \cap Table) :
            client' = [fd \in Fds |->
              IF fd \in received \cap Table
              THEN [client[fd] EXCEPT !.dtHeart = 0, !.needWrite = @ \/ fd \in answered]
              ELSE client[fd]]
      BY <1>6 DEF DoMsg
    <2>2. pc = "msg" /\ pc' = "top" /\ received' = {} /\ elapsed' = elapsed
      BY <1>6 DEF DoMsg, Go
    <2>3. ASSUME NEW fd \in received \cap Table
          PROVE  /\ client'[fd].at = client[fd].at /\ client'[fd].dtHeart = 0
                 /\ client'[fd].data = client[fd].data
                 /\ client'[fd].quiet = client[fd].quiet
      BY <1>a, <2>1 DEF ClientRecord, Table, At
    <2>4. \A fd \in Fds : fd \notin received \cap Table => client'[fd] = client[fd]
      BY <2>1
    <2>5. ASSUME NEW fd \in Fds, client'[fd].at = "buffer" PROVE Waits(fd)'
      <3>1. fd \notin received \cap Table
        BY <2>3, <2>5 DEF Table, At
      <3> QED BY <1>b, <1>c, <2>2, <2>4, <2>5, <3>1 DEF Clocks, Waits
    <2>6. ASSUME NEW fd \in Fds, client'[fd].at = "table" PROVE Beats(fd)'
      <3>1. CASE fd \in received \cap Table
        BY <1>b, <1>c, <2>2, <2>3, <3>1 DEF Clocks, Beats, Due, Table, At
      <3>2. CASE fd \notin received \cap Table
        BY <1>b, <1>c, <2>2, <2>4, <2>6, <3>2 DEF Clocks, Beats, Due, Table, At
      <3> QED BY <3>1, <3>2
    <2> QED BY <2>2, <2>5, <2>6 DEF Clocks
  <1>7. CASE ClearClients
    <2>1. \A fd \in Fds : client'[fd].at = "none"
      BY <1>7 DEF ClearClients, NoClient
    <2> QED BY <1>0, <1>7, <2>1 DEF ClearClients, Go, Clocks
  <1> QED BY <1>1, <1>2, <1>3, <1>4, <1>5, <1>6, <1>7 DEF Service

LEMMA ClocksNext ==
  ASSUME TypeOK, Clocks, [Next]_vars
  PROVE  Clocks'
  <1>1. CASE UNCHANGED vars
    BY <1>1, ClocksUnseen DEF vars, SameClock, Clocks
  <1> QED BY <1>1, EnvironmentClocks, ServiceClocks DEF Next

-----------------------------------------------------------------------------
\* The table, the cached sets and the clocks stay in step, for any sockets, any
\* size of the sets and any dead time.
THEOREM SelectInvariance == Spec => []SelectInv
  <1>1. Init => SelectInv
    BY TypeInit, SetsInit, ClocksInit DEF SelectInv
  <1>2. SelectInv /\ [Next]_vars => SelectInv'
    BY TypeNext, SetsNext, ClocksNext DEF SelectInv
  <1> QED BY <1>1, <1>2, PTL DEF Spec

\* Type correctness: a client that is gone leaves nothing behind, and no set
\* holds a socket it has no place for.
THEOREM SelectTypes == Spec => []TypeOK
  <1>1. SelectInv => TypeOK
    BY DEF SelectInv
  <1> QED BY <1>1, SelectInvariance, PTL

\* select() is never called with a set of an older table: every step that
\* changes _clients sets _clients_change (CELLSelectServer.hpp:17-59).
THEOREM SetsAlwaysFresh == Spec => []SetsAreFresh
  <1>1. SelectInv => SetsAreFresh
    BY DEF SelectInv, SetsOwed, SetsAreFresh
  <1> QED BY <1>1, SelectInvariance, PTL

\* No client stays in the table silent for more than two dead times and two
\* turns (CELLServer.hpp:58-106).
THEOREM SilentAlwaysDropped == Spec => []SilentAreDropped
  <1>1. SelectInv => SilentAreDropped
    <2> SUFFICES ASSUME SelectInv, NEW fd \in Table
                 PROVE  client[fd].quiet <= 2 * (DeadTime - 1 + MaxTurn)
      BY DEF SilentAreDropped
    <2>1. TypeOK /\ fd \in Fds /\ Beats(fd)
      BY DEF SelectInv, Clocks, Table, At
    <2>2. /\ client[fd].dtHeart \in Nat /\ client[fd].quiet \in Nat
          /\ elapsed \in Nat /\ elapsed <= MaxTurn
          /\ DeadTime \in Nat \ {0} /\ MaxTurn \in Nat
      BY <2>1, Bounds
    <2> QED BY <2>1, <2>2 DEF Beats, Due
  <1> QED BY <1>1, SelectInvariance, PTL

\* CheckTime() drops no client that has sent within the dead time less a turn,
\* unless its message is still unread (CELLClient.hpp:116-125).
THEOREM DropAlwaysDue == Spec => DropIsDue
  <1> DEFINE Drops == \A fd \in Fds : pc = "time" /\ fd \in Table /\ client'[fd] = NoClient
                        => client[fd].data \/ client[fd].quiet + MaxTurn >= DeadTime
  <1>1. SelectInv /\ [Next]_vars => [Drops]_vars
    <2> SUFFICES ASSUME SelectInv, [Next]_vars, NEW fd \in Fds, pc = "time", fd \in Table,
                        client'[fd] = NoClient, ~client[fd].data
                 PROVE  client[fd].quiet + MaxTurn >= DeadTime
      OBVIOUS
    <2>1. /\ TypeOK /\ Beats(fd) /\ received = {} /\ client[fd].at = "table"
          /\ client[fd] \in ClientRecord /\ client \in [Fds -> ClientRecord]
      BY DEF SelectInv, Clocks, Table, At, TypeOK
    <2>2. NoClient.at = "none"
      BY DEF NoClient
    <2>3. CheckTime
      <3>1. client' # client
        BY <2>1, <2>2
      <3>2. ASSUME NEW g \in Fds, Accept(g) \/ PeerSends(g) \/ PeerCloses(g) PROVE FALSE
        BY <2>1, <2>2, <3>2 DEF Accept, PeerSends, PeerCloses, NewClient, NoClient, ClientRecord
      <3>3. CASE Tick
        BY <2>1, <2>2, <3>3 DEF Tick, ClientRecord
      <3> QED BY <3>1, <3>2, <3>3 DEF vars, Next, Service, Environment, AcceptFails, Close,
            LoopTop, LoopEnds, MakeSets, EventsOfNobody, SelectInterrupted, SelectFails,
            Select, ReadData, WriteData, DoMsg, Exit, ClearClients, Go
    <2>4. client'[fd] = IF checkHeart(fd) THEN NoClient ELSE Aged(fd)
      BY <2>3 DEF CheckTime, Leave
    <2>5. Aged(fd).at = "table" /\ Aged(fd).dtHeart = Due(fd)
      BY <2>1 DEF Aged, ClientRecord, Due
    <2>6. Due(fd) >= DeadTime
      BY <2>2, <2>4, <2>5 DEF checkHeart
    <2>7. /\ client[fd].dtHeart \in Nat /\ client[fd].quiet \in Nat /\ elapsed \in Nat
          /\ DeadTime \in Nat \ {0} /\ MaxTurn \in Nat
      BY <2>1, Bounds
    <2> QED BY <2>1, <2>6, <2>7 DEF Beats, Due
  <1> QED BY <1>1, SelectInvariance, PTL DEF Spec, DropIsDue

==============================================================================
