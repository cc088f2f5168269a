------------------------- MODULE EasyTcpClientProofs -------------------------
(***************************************************************************)
(* Proofs about EasyTcpClient for any number of threads and of clients of  *)
(* each, on either back end.                                               *)
(***************************************************************************)
EXTENDS EasyTcpClient, FiniteSetTheorems, TLAPS

-----------------------------------------------------------------------------
(* The inductive invariant *)

States == {"null", "created", "connected", "lost", "deleted"}
Bounded == {"create", "connect", "run", "close"}   \* loops over the clients
Working == {"wait", "top", "run", "close"}         \* counted in readyCount
Early == {"create", "connect", "ready"}

TypeOK ==
  /\ backend \in {"epoll", "select"}
  /\ client \in [Threads -> [Indices -> States]]
  /\ nConnect \in Int /\ readyCount \in Int
  /\ pc \in [Threads -> Early \cup Working \cup {"done"}]
  /\ at \in [Threads -> 1..(nClient + 1)]
  /\ isRun \in [Threads -> BOOLEAN]
  /\ main \in 0..(nThread + 1)
  /\ crashed \in BOOLEAN
  /\ unreported \in Nat /\ failures \in Nat /\ atExit \in Nat

\* A thread connects each client once: no client from the one it is at on is
\* connected yet.
FreshInv ==
  \A t \in Threads :
    /\ pc[t] = "create" => \A n \in Indices : client[t][n] \in {"null", "created"}
    /\ pc[t] = "connect" =>
         \A n \in Indices : n >= at[t] => client[t][n] \in {"null", "created"}

\* A thread has created all its clients, or its flag is cleared for good.
MadeInv ==
  \A t \in Threads :
    /\ pc[t] = "create" => \A n \in Indices : n < at[t] => client[t][n] # "null"
    /\ pc[t] \notin {"create", "run"} =>
         ~isRun[t] \/ \A n \in Indices : client[t][n] # "null"
    /\ pc[t] = "run" => \A n \in Indices : client[t][n] # "null"

AllReady == \A u \in Threads : pc[u] \notin Early

\* readyCount is the number of threads past their connections and not at their
\* end, so that it is nThread only when all have come so far.
ReadyInv ==
  /\ readyCount = Cardinality({t \in Threads : pc[t] \in Working})
  /\ \A t \in Threads : /\ pc[t] = "top" => AllReady \/ ~isRun[t]
                        /\ pc[t] = "run" => AllReady

IInv == TypeOK /\ FreshInv /\ MadeInv /\ ReadyInv /\ CountIsExact

-----------------------------------------------------------------------------
(* Operators *)

\* One client of one thread changes its state.
LEMMA ClientUpdate ==
  ASSUME TypeOK, NEW t \in Threads, at[t] <= nClient, NEW state \in States,
         Becomes(t, state)
  PROVE  /\ at[t] \in Indices
         /\ client' \in [Threads -> [Indices -> States]]
         /\ \A u \in Threads, n \in Indices :
              client'[u][n] = IF u = t /\ n = at[t] THEN state ELSE client[u][n]
  <1> DEFINE row == [client[t] EXCEPT ![at[t]] = state]
  <1>1. client[t] \in [Indices -> States] /\ at[t] \in Indices
    BY ClientAssumption DEF TypeOK, Indices
  <1>2. /\ row \in [Indices -> States]
        /\ \A n \in Indices : row[n] = IF n = at[t] THEN state ELSE client[t][n]
    BY <1>1
  <1>3. client' = [client EXCEPT ![t] = row]
    BY DEF Becomes
  <1> HIDE DEF row
  <1> QED BY <1>1, <1>2, <1>3 DEF TypeOK

LEMMA FiniteParts ==
  /\ IsFiniteSet(Connected) /\ Cardinality(Connected) \in Nat
  /\ IsFiniteSet(Threads) /\ Cardinality(Threads) = nThread
  /\ IsFiniteSet({t \in Threads : pc[t] \in Working})
  /\ Cardinality({t \in Threads : pc[t] \in Working}) \in Nat
  <1>1. /\ IsFiniteSet(Threads) /\ Cardinality(Threads) = nThread
        /\ IsFiniteSet(Indices)
    BY ClientAssumption, FS_Interval DEF Threads, Indices
  <1>2. IsFiniteSet(Threads \X Indices)
    BY <1>1, FS_Product
  <1>3. IsFiniteSet(Connected)
    BY <1>2, FS_Subset DEF Connected
  <1>4. IsFiniteSet({t \in Threads : pc[t] \in Working})
    BY <1>1, FS_Subset
  <1> QED BY <1>1, <1>3, <1>4, FS_CardinalityType

\* What a change of one client does to the number of those connected.
LEMMA ConnectedUpdate ==
  ASSUME TypeOK, NEW t \in Threads, at[t] <= nClient, NEW state \in States,
         Becomes(t, state)
  PROVE  Cardinality(Connected') =
           Cardinality(Connected) + (IF state = "connected" THEN 1 ELSE 0)
                                  - (IF Client(t) = "connected" THEN 1 ELSE 0)
  <1> DEFINE p == <<t, at[t]>>
  <1>1. /\ at[t] \in Indices
        /\ \A u \in Threads, n \in Indices :
             client'[u][n] = IF u = t /\ n = at[t] THEN state ELSE client[u][n]
    BY ClientUpdate
  <1>2. p \in Connected <=> Client(t) = "connected"
    BY <1>1 DEF Connected, Client
  <1>3. IsFiniteSet(Connected) /\ Cardinality(Connected) \in Nat
    BY FiniteParts
  <1>4. \A u \in Threads, n \in Indices :
          /\ <<u, n>> \in Connected <=> client[u][n] = "connected"
          /\ <<u, n>> \in Connected' <=> client'[u][n] = "connected"
          /\ <<u, n>> = p <=> u = t /\ n = at[t]
    BY DEF Connected
  <1>5. Connected \subseteq Threads \X Indices /\ Connected' \subseteq Threads \X Indices
    BY DEF Connected
  <1>6. CASE state = "connected"
    <2>1. \A u \in Threads, n \in Indices :
            <<u, n>> \in Connected' <=> <<u, n>> \in Connected \/ <<u, n>> = p
      BY <1>1, <1>4, <1>6
    <2>2. Connected' = Connected \cup {p}
      BY <1>1, <1>5, <2>1
    <2>3. Cardinality(Connected') =
            IF p \in Connected THEN Cardinality(Connected) ELSE Cardinality(Connected) + 1
      BY <1>3, <2>2, FS_AddElement
    <2> QED BY <1>2, <1>3, <1>6, <2>3
  <1>7. CASE state # "connected"
    <2>1. \A u \in Threads, n \in Indices :
            <<u, n>> \in Connected' <=> <<u, n>> \in Connected /\ <<u, n>> # p
      BY <1>1, <1>4, <1>7
    <2>2. Connected' = Connected \ {p}
      BY <1>1, <1>5, <2>1
    <2>3. Cardinality(Connected') =
            IF p \in Connected THEN Cardinality(Connected) - 1 ELSE Cardinality(Connected)
      BY <1>3, <2>2, FS_RemoveElement
    <2> QED BY <1>2, <1>3, <1>7, <2>3
  <1> QED BY <1>6, <1>7

-----------------------------------------------------------------------------
(* Steps *)

\* The steps of a thread that change no client.
Turning(t) ==
  \/ CreateEnds(t) \/ ConnectEnds(t) \/ WaitEnds(t) \/ Round(t) \/ Run(t) \/ RunEnds(t)

LEMMA InitInv == Init => IInv
  <1> SUFFICES ASSUME Init PROVE IInv
    OBVIOUS
  <1>1. crashed \in BOOLEAN /\ isRun \in [Threads -> BOOLEAN]
    BY Zenon DEF Init
  <1>2. TypeOK
    BY <1>1, ClientAssumption DEF Init, TypeOK, States, Early, Working, Indices
  <1>3. Connected = {} /\ {t \in Threads : pc[t] \in Working} = {}
    BY DEF Init, Connected, Working
  <1>4. FreshInv /\ MadeInv
    BY DEF Init, FreshInv, MadeInv, Indices
  <1>5. ReadyInv /\ CountIsExact
    BY <1>3, FS_EmptySet DEF Init, ReadyInv, CountIsExact
  <1> QED BY <1>2, <1>4, <1>5 DEF IInv

\* A turn of a loop, and its end, keep the counter of the loop in its range.
LEMMA TurnTypes ==
  ASSUME TypeOK, NEW t \in Threads,
         \/ at[t] <= nClient /\ NextTurn(t)
         \/ \E from, to \in Early \cup Working \cup {"done"} : Leave(t, from, to)
  PROVE  /\ pc' \in [Threads -> Early \cup Working \cup {"done"}]
         /\ at' \in [Threads -> 1..(nClient + 1)]
  <1>1. at[t] \in 1..(nClient + 1) /\ nClient \in Nat
    BY ClientAssumption DEF TypeOK
  <1>2. CASE at[t] <= nClient /\ NextTurn(t)
    BY <1>1, <1>2 DEF NextTurn, TypeOK
  <1>3. ASSUME NEW from, NEW to \in Early \cup Working \cup {"done"}, Leave(t, from, to)
        PROVE  /\ pc' \in [Threads -> Early \cup Working \cup {"done"}]
               /\ at' \in [Threads -> 1..(nClient + 1)]
    BY <1>1, <1>3 DEF Leave, TypeOK
  <1> QED BY <1>2, <1>3

LEMMA TypesNext ==
  ASSUME TypeOK, [Next]_vars
  PROVE  TypeOK'
  <1>1. ASSUME NEW t \in Threads, Turning(t) PROVE TypeOK'
    <2>1. \/ at[t] <= nClient /\ NextTurn(t)
          \/ \E from, to \in Early \cup Working \cup {"done"} : Leave(t, from, to)
      BY <1>1 DEF Turning, CreateEnds, ConnectEnds, WaitEnds, Round, Run, RunEnds, Early,
         Working
    <2>2. UNCHANGED <<backend, clientVars, readyCount, isRun, main, crashed>>
      BY <1>1 DEF Turning, CreateEnds, ConnectEnds, WaitEnds, Round, Run, RunEnds
    <2> QED BY <2>1, <2>2, TurnTypes DEF TypeOK, clientVars
  <1>2. ASSUME NEW t \in Threads, Ready(t) \/ CloseEnds(t) PROVE TypeOK'
    <2>1. \E from, to \in Early \cup Working \cup {"done"} : Leave(t, from, to)
      BY <1>2 DEF Ready, CloseEnds, Early, Working
    <2> QED BY <1>2, <2>1, TurnTypes DEF Ready, CloseEnds, clientVars, TypeOK
  <1>3. ASSUME NEW t \in Threads, Create(t) \/ Connect(t) \/ Lose(t) PROVE TypeOK'
    <2>1. client' \in [Threads -> [Indices -> States]]
      BY <1>3, ClientUpdate DEF Create, Connect, Lose, States
    <2>2. at[t] <= nClient /\ NextTurn(t)
      BY <1>3 DEF Create, Connect, Lose
    <2> QED BY <1>3, <2>1, <2>2, TurnTypes DEF Create, Connect, Lose, TypeOK
  <1>4. ASSUME NEW t \in Threads, CloseClient(t) PROVE TypeOK'
    <2>1. crashed' \in BOOLEAN
      BY <1>4, Zenon DEF CloseClient, TypeOK
    <2>2. CASE Client(t) = "null"
      BY <1>4, <2>1, <2>2 DEF CloseClient, TypeOK
    <2>3. CASE Client(t) # "null"
      <3>1. client' \in [Threads -> [Indices -> States]]
        BY <1>4, <2>3, ClientUpdate DEF CloseClient, States
      <3>2. at[t] <= nClient /\ NextTurn(t)
        BY <1>4, <2>3 DEF CloseClient
      <3> QED BY <1>4, <2>1, <2>3, <3>1, <3>2, TurnTypes DEF CloseClient, TypeOK
    <2> QED BY <2>2, <2>3
  <1>5. ASSUME NEW t \in Threads, EpollFails(t) PROVE TypeOK'
    BY <1>5, TurnTypes DEF EpollFails, TypeOK
  <1>6. CASE ExitCommand \/ Closed
    <2>1. isRun' \in [Threads -> BOOLEAN]
      BY <1>6 DEF ExitCommand, Closed, TypeOK
    <2> QED BY <1>6, <2>1, ClientAssumption DEF ExitCommand, Closed, clientVars, threadVars,
               TypeOK, Threads
  <1>7. CASE UNCHANGED vars
    BY <1>7 DEF vars, clientVars, threadVars, TypeOK
  <1> QED BY <1>1, <1>2, <1>3, <1>4, <1>5, <1>6, <1>7 DEF Next, WorkThread, Turning

LEMMA FreshNext ==
  ASSUME TypeOK, FreshInv, [Next]_vars
  PROVE  FreshInv'
  <1>1. ASSUME NEW t \in Threads,
               Turning(t) \/ Ready(t) \/ CloseEnds(t) \/ EpollFails(t)
        PROVE  FreshInv'
    BY <1>1, ClientAssumption DEF Turning, CreateEnds, ConnectEnds, WaitEnds, Round, Run,
       RunEnds, Ready, CloseEnds, EpollFails, Leave, NextTurn, clientVars, TypeOK, FreshInv,
       Indices
  <1>2. ASSUME NEW t \in Threads, Create(t) \/ Connect(t) \/ Lose(t) \/ CloseClient(t)
        PROVE  FreshInv'
    <2>1. CASE UNCHANGED <<client, pc, at>>
      BY <2>1 DEF FreshInv
    <2>2. ASSUME ~UNCHANGED <<client, pc, at>>
          PROVE  FreshInv'
      <3>1. /\ UNCHANGED pc /\ at[t] <= nClient
            /\ at' = [at EXCEPT ![t] = @ + 1]
        BY <1>2, <2>2 DEF Create, Connect, Lose, CloseClient, NextTurn
      <3>2. PICK state \in States : Becomes(t, state) /\ (pc[t] = "create" => state = "created")
        <4>1. Create(t) => Becomes(t, "created")
          BY DEF Create
        <4>2. Connect(t) => Becomes(t, "connected") /\ pc[t] # "create"
          BY DEF Connect
        <4>3. Lose(t) => Becomes(t, "lost") /\ pc[t] # "create"
          BY DEF Lose
        <4>4. CloseClient(t) => Becomes(t, "deleted") /\ pc[t] # "create"
          BY <2>2 DEF CloseClient
        <4> QED BY <1>2, <4>1, <4>2, <4>3, <4>4 DEF States
      <3>3. \A u \in Threads, n \in Indices :
              client'[u][n] = IF u = t /\ n = at[t] THEN state ELSE client[u][n]
        BY <3>1, <3>2, ClientUpdate
      <3>4. /\ at[t] \in Int /\ at'[t] = at[t] + 1
            /\ \A u \in Threads : u # t => at'[u] = at[u]
        BY <3>1, ClientAssumption DEF TypeOK
      <3>5. \A n \in Indices : n \in Int
        BY DEF Indices
      <3> QED BY <3>1, <3>2, <3>3, <3>4, <3>5 DEF FreshInv
    <2> QED BY <2>1, <2>2
  <1>3. CASE ExitCommand \/ Closed \/ UNCHANGED vars
    BY <1>3 DEF ExitCommand, Closed, vars, clientVars, threadVars, FreshInv
  <1> QED BY <1>1, <1>2, <1>3 DEF Next, WorkThread, Turning

LEMMA MadeNext ==
  ASSUME TypeOK, MadeInv, [Next]_vars
  PROVE  MadeInv'
  <1>1. ASSUME NEW t \in Threads,
               Turning(t) \/ Ready(t) \/ CloseEnds(t) \/ EpollFails(t)
        PROVE  MadeInv'
    <2>1. UNCHANGED <<client, isRun>>
      BY <1>1 DEF Turning, CreateEnds, ConnectEnds, WaitEnds, Round, Run, RunEnds, Ready,
         CloseEnds, EpollFails, clientVars
    <2>2. \A u \in Threads : u # t => pc'[u] = pc[u] /\ at'[u] = at[u]
      BY <1>1 DEF Turning, CreateEnds, ConnectEnds, WaitEnds, Round, Run, RunEnds, Ready,
         CloseEnds, EpollFails, Leave, NextTurn, TypeOK
    <2>3. /\ pc'[t] # "create"
          /\ pc[t] = "create" => CreateEnds(t)
          /\ pc'[t] = "run" => pc[t] = "run" \/ (pc[t] = "top" /\ isRun[t])
      BY <1>1 DEF Turning, CreateEnds, ConnectEnds, WaitEnds, Round, Run, RunEnds, Ready,
         CloseEnds, EpollFails, Leave, NextTurn, TypeOK
    <2>4. CreateEnds(t) => at[t] > nClient \/ ~isRun[t]
      BY DEF CreateEnds
    <2> QED BY <2>1, <2>2, <2>3, <2>4, ClientAssumption DEF MadeInv, TypeOK, Indices
  <1>2. ASSUME NEW t \in Threads, Create(t) \/ Connect(t) \/ Lose(t) \/ CloseClient(t)
        PROVE  MadeInv'
    <2>1. CASE UNCHANGED <<client, pc, at>>
      BY <1>2, <2>1 DEF Create, Connect, Lose, CloseClient, MadeInv
    <2>2. ASSUME ~UNCHANGED <<client, pc, at>>
          PROVE  MadeInv'
      <3>1. /\ UNCHANGED <<pc, isRun>> /\ at[t] <= nClient
            /\ at' = [at EXCEPT ![t] = @ + 1]
        BY <1>2, <2>2 DEF Create, Connect, Lose, CloseClient, NextTurn
      <3>2. PICK state \in States \ {"null"} : Becomes(t, state)
        BY <1>2, <2>2 DEF Create, Connect, Lose, CloseClient, States
      <3>3. \A u \in Threads, n \in Indices :
              client'[u][n] = IF u = t /\ n = at[t] THEN state ELSE client[u][n]
        BY <3>1, <3>2, ClientUpdate
      <3> QED BY <3>1, <3>2, <3>3, SMTT(30) DEF MadeInv, TypeOK, Indices
    <2> QED BY <2>1, <2>2
  <1>3. CASE ExitCommand \/ Closed \/ UNCHANGED vars
    <2>1. \A t \in Threads : isRun'[t] => isRun[t]
      BY <1>3 DEF ExitCommand, Closed, vars, TypeOK
    <2> QED BY <1>3, <2>1 DEF ExitCommand, Closed, vars, clientVars, threadVars, MadeInv
  <1> QED BY <1>1, <1>2, <1>3 DEF Next, WorkThread, Turning

LEMMA ReadyNext ==
  ASSUME TypeOK, ReadyInv, [Next]_vars
  PROVE  ReadyInv'
  <1> DEFINE W == {t \in Threads : pc[t] \in Working}
  <1>0. /\ IsFiniteSet(W) /\ Cardinality(W) \in Nat
        /\ readyCount >= nThread => AllReady
    <2>1. /\ IsFiniteSet(W) /\ Cardinality(W) \in Nat
          /\ IsFiniteSet(Threads) /\ Cardinality(Threads) = nThread
      BY FiniteParts
    <2>2. Cardinality(W) <= Cardinality(Threads)
          /\ (Cardinality(Threads) = Cardinality(W) => Threads = W)
      BY <2>1, FS_Subset
    <2>3. Cardinality(W) >= nThread => Threads = W
      BY <2>1, <2>2, ClientAssumption
    <2> QED BY <2>1, <2>3 DEF ReadyInv, AllReady, Early, Working
  <1>1. ASSUME NEW t \in Threads, Turning(t) \/ Create(t) \/ Connect(t) \/ Lose(t)
               \/ EpollFails(t) \/ CloseClient(t)
        PROVE  ReadyInv'
    <2>1. UNCHANGED <<readyCount, isRun>>
      BY <1>1 DEF Turning, CreateEnds, ConnectEnds, WaitEnds, Round, Run, RunEnds, Create,
         Connect, Lose, EpollFails, CloseClient
    <2>2. /\ \A u \in Threads : u # t => pc'[u] = pc[u]
          /\ pc'[t] \in Working <=> pc[t] \in Working
          /\ pc'[t] \in Early => pc[t] \in Early
          /\ pc'[t] = "top" => \/ pc[t] \in {"top", "run"}
                               \/ readyCount >= nThread \/ ~isRun[t]
          /\ pc'[t] = "run" => pc[t] = "run" \/ (pc[t] = "top" /\ isRun[t])
      BY <1>1 DEF Turning, CreateEnds, ConnectEnds, WaitEnds, Round, Run, RunEnds, Create,
         Connect, Lose, EpollFails, CloseClient, Leave, NextTurn, TypeOK, Working, Early
    <2>3. W' = W
      BY <2>2
    <2>4. AllReady => AllReady'
      BY <2>2 DEF AllReady
    <2> QED BY <1>0, <2>1, <2>2, <2>3, <2>4 DEF ReadyInv
  <1>2. ASSUME NEW t \in Threads, Ready(t) PROVE ReadyInv'
    <2>1. /\ pc[t] = "ready" /\ pc' = [pc EXCEPT ![t] = "wait"]
          /\ readyCount' = readyCount + 1 /\ UNCHANGED isRun
      BY <1>2 DEF Ready, Leave
    <2>2. W' = W \cup {t} /\ t \notin W
      BY <2>1 DEF TypeOK, Working
    <2>3. Cardinality(W') = Cardinality(W) + 1
      BY <1>0, <2>2, FS_AddElement
    <2>4. AllReady => AllReady'
      BY <2>1 DEF AllReady, Early, TypeOK
    <2> QED BY <2>1, <2>3, <2>4 DEF ReadyInv, TypeOK
  <1>3. ASSUME NEW t \in Threads, CloseEnds(t) PROVE ReadyInv'
    <2>1. /\ pc[t] = "close" /\ pc' = [pc EXCEPT ![t] = "done"]
          /\ readyCount' = readyCount - 1 /\ UNCHANGED isRun
      BY <1>3 DEF CloseEnds, Leave
    <2>2. W' = W \ {t} /\ t \in W
      BY <2>1 DEF TypeOK, Working
    <2>3. Cardinality(W') = Cardinality(W) - 1
      BY <1>0, <2>2, FS_RemoveElement
    <2>4. AllReady => AllReady'
      BY <2>1 DEF AllReady, Early, TypeOK
    <2> QED BY <2>1, <2>3, <2>4 DEF ReadyInv, TypeOK
  <1>4. CASE ExitCommand \/ Closed \/ UNCHANGED vars
    <2>1. \A t \in Threads : isRun'[t] => isRun[t]
      BY <1>4 DEF ExitCommand, Closed, vars, TypeOK
    <2> QED BY <1>4, <2>1 DEF ExitCommand, Closed, vars, threadVars, ReadyInv, AllReady
  <1> QED BY <1>1, <1>2, <1>3, <1>4 DEF Next, WorkThread, Turning

LEMMA CountNext ==
  ASSUME TypeOK, FreshInv, CountIsExact, [Next]_vars
  PROVE  CountIsExact'
  <1>0. Cardinality(Connected) \in Nat
    BY FiniteParts
  <1>1. CASE UNCHANGED <<backend, clientVars>>
    BY <1>1 DEF clientVars, CountIsExact, Connected
  <1>2. ASSUME NEW t \in Threads, Create(t) PROVE CountIsExact'
    <2>1. Client(t) # "connected"
      BY <1>2, ClientAssumption DEF Create, FreshInv, Client, TypeOK, Indices
    <2>2. Cardinality(Connected') = Cardinality(Connected)
      BY <1>0, <1>2, <2>1, ConnectedUpdate DEF Create, States
    <2> QED BY <1>2, <2>2 DEF Create, CountIsExact
  <1>3. ASSUME NEW t \in Threads, Connect(t) PROVE CountIsExact'
    <2>1. Client(t) # "connected"
      BY <1>3, ClientAssumption DEF Connect, FreshInv, Client, TypeOK, Indices
    <2>2. Cardinality(Connected') = Cardinality(Connected) + 1
      BY <1>0, <1>3, <2>1, ConnectedUpdate DEF Connect, States
    <2> QED BY <1>0, <1>3, <2>2 DEF Connect, CountIsExact, TypeOK
  <1>4. ASSUME NEW t \in Threads, Lose(t) PROVE CountIsExact'
    <2>1. Cardinality(Connected') = Cardinality(Connected) - 1
      BY <1>0, <1>4, ConnectedUpdate DEF Lose, States
    <2> QED BY <1>0, <1>4, <2>1 DEF Lose, CountIsExact, TypeOK
  <1>5. ASSUME NEW t \in Threads, EpollFails(t) PROVE CountIsExact'
    <2>1. Connected' = Connected
      BY <1>5 DEF EpollFails, Connected
    <2> QED BY <1>0, <1>5, <2>1 DEF EpollFails, CountIsExact, TypeOK
  <1>6. ASSUME NEW t \in Threads, CloseClient(t), Client(t) # "null" PROVE CountIsExact'
    <2>1. Cardinality(Connected') =
            Cardinality(Connected) - (IF Client(t) = "connected" THEN 1 ELSE 0)
      BY <1>0, <1>6, ConnectedUpdate DEF CloseClient, States
    <2> QED BY <1>0, <1>6, <2>1 DEF CloseClient, CountIsExact, TypeOK
  <1>7. ASSUME NEW t \in Threads, CloseClient(t), Client(t) = "null"
        PROVE  UNCHANGED <<backend, clientVars>>
    BY <1>7 DEF CloseClient, clientVars
  <1>8. ASSUME NEW t \in Threads, Turning(t) \/ Ready(t) \/ CloseEnds(t)
        PROVE  UNCHANGED <<backend, clientVars>>
    BY <1>8 DEF Turning, CreateEnds, ConnectEnds, WaitEnds, Round, Run, RunEnds, Ready,
       CloseEnds
  <1>9. ExitCommand \/ Closed \/ UNCHANGED vars => UNCHANGED <<backend, clientVars>>
    BY DEF ExitCommand, Closed, vars
  <1> QED BY <1>1, <1>2, <1>3, <1>4, <1>5, <1>6, <1>7, <1>8, <1>9
         DEF Next, WorkThread, Turning

-----------------------------------------------------------------------------
(* Theorems *)

\* Of every state the client can be in: its types, the order of each thread's
\* work, and the two counters.
THEOREM ClientInvariance == Spec => []IInv
  <1>1. IInv /\ [Next]_vars => IInv'
    BY TypesNext, FreshNext, MadeNext, ReadyNext, CountNext DEF IInv
  <1> QED BY <1>1, InitInv, PTL DEF Spec

\* The number logged as connected counts each client once, with the errors of
\* the epoll back end and no others (EasyEpollClient.hpp:22-70).
THEOREM CountAlwaysExact == Spec => []CountIsExact
  <1>1. IInv => CountIsExact
    BY DEF IInv
  <1> QED BY <1>1, ClientInvariance, PTL

\* No thread sends before every thread has made its connections, and none with
\* a client missing (client.cpp:141-171).
THEOREM NoneSendsEarly == Spec => []ReadyToSend
  <1>1. IInv => ReadyToSend
    BY DEF IInv, ReadyInv, MadeInv, AllReady, Early, ReadyToSend
  <1> QED BY <1>1, ClientInvariance, PTL

==============================================================================
