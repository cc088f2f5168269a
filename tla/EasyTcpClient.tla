---------------------------- MODULE EasyTcpClient ----------------------------
(***************************************************************************)
(* The test client: main() and WorkThread() of client/client.cpp, with the *)
(* clients of EasyTcpClient.hpp on either back end, EasyEpollClient.hpp or *)
(* EasySelectClient.hpp.  Each thread creates its clients, connects them,  *)
(* waits until the others have done so, and runs them until it is closed.  *)
(*                                                                         *)
(* What a client sends and receives is module LoginSession's; here a turn  *)
(* of OnRun() has an outcome.  A thread is seen through CELLThread's       *)
(* theorem: Close() clears its flag and waits for its end.                 *)
(***************************************************************************)
EXTENDS Integers, FiniteSets

CONSTANTS
  nThread, nClient,
  MaxFails       \* bound: failures of epoll_wait in a behaviour

ASSUME ClientAssumption ==
  nThread \in Nat \ {0} /\ nClient \in Nat \ {0} /\ MaxFails \in Nat

Threads == 1..nThread
Indices == 1..nClient

VARIABLES
  backend,      \* the base class of MyClient
  client,       \* client[t][n]: "null", "created", "connected", "lost", "deleted"
  nConnect, readyCount,
  pc, at,       \* pc[t], at[t]: where thread t is, and the n of its running loop
  isRun,        \* isRun[t]: _isRun of thread t
  main,         \* the thread main() is closing: 0 before, nThread + 1 after
  crashed,      \* a member was called through a null pointer
  unreported,   \* history: losses OnRun() returned true for
  failures,     \* history: times OnRun() returned false for a living client
  atExit        \* history: clients that were connected when their thread closed them

clientVars == <<client, nConnect, unreported, failures, atExit>>
threadVars == <<pc, at, readyCount>>
vars == <<backend, clientVars, threadVars, isRun, main, crashed>>

Init ==
  /\ backend \in {"epoll", "select"}
  /\ client = [t \in Threads |-> [n \in Indices |-> "null"]]
  /\ nConnect = 0 /\ readyCount = 0
  /\ pc = [t \in Threads |-> "create"]
  /\ at = [t \in Threads |-> 1]
  /\ isRun = [t \in Threads |-> TRUE]
  /\ main = 0
  /\ crashed = FALSE
  /\ unreported = 0 /\ failures = 0 /\ atExit = 0

-----------------------------------------------------------------------------
(* WorkThread() *)

\* The current turn of t's loop is over.
NextTurn(t) == at' = [at EXCEPT ![t] = @ + 1] /\ UNCHANGED pc

\* t's loop is over, by its bound or by a break.
Leave(t, from, to) ==
  pc[t] = from /\ pc' = [pc EXCEPT ![t] = to] /\ at' = [at EXCEPT ![t] = 1]

Client(t) == client[t][at[t]]
Becomes(t, state) == client' = [client EXCEPT ![t][at[t]] = state]

Create(t) ==
  /\ pc[t] = "create" /\ at[t] <= nClient /\ isRun[t]
  /\ Becomes(t, "created")
  /\ NextTurn(t)
  /\ UNCHANGED <<backend, nConnect, unreported, failures, atExit, readyCount, isRun, main, crashed>>

CreateEnds(t) ==
  /\ at[t] > nClient \/ ~isRun[t]
  /\ Leave(t, "create", "connect")
  /\ UNCHANGED <<backend, clientVars, readyCount, isRun, main, crashed>>

\* InitSocket() and Connect() succeed.
Connect(t) ==
  /\ pc[t] = "connect" /\ at[t] <= nClient /\ isRun[t]
  /\ Becomes(t, "connected")
  /\ nConnect' = nConnect + 1
  /\ NextTurn(t)
  /\ UNCHANGED <<backend, unreported, failures, atExit, readyCount, isRun, main, crashed>>

\* No client is left, the flag is cleared, or one of the two calls failed.
ConnectEnds(t) ==
  /\ Leave(t, "connect", "ready")
  /\ UNCHANGED <<backend, clientVars, readyCount, isRun, main, crashed>>

\* Mutant of Ready: counted at the end of the wait.
ReadyAtOnce(t) ==
  /\ Leave(t, "ready", "top")
  /\ readyCount' = readyCount + 1
  /\ UNCHANGED <<backend, clientVars, isRun, main, crashed>>

Ready(t) ==
  /\ Leave(t, "ready", "wait")
  /\ readyCount' = readyCount + 1
  /\ UNCHANGED <<backend, clientVars, isRun, main, crashed>>

\* Mutant of WaitEnds: the flag is not looked at.
WaitEndsReady(t) ==
  /\ readyCount >= nThread
  /\ Leave(t, "wait", "top")
  /\ UNCHANGED <<backend, clientVars, readyCount, isRun, main, crashed>>

WaitEnds(t) ==
  /\ readyCount >= nThread \/ ~isRun[t]
  /\ Leave(t, "wait", "top")
  /\ UNCHANGED <<backend, clientVars, readyCount, isRun, main, crashed>>

\* The head of the loop; a round sends, and then runs each client.
Round(t) ==
  /\ Leave(t, "top", IF isRun[t] THEN "run" ELSE "close")
  /\ UNCHANGED <<backend, clientVars, readyCount, isRun, main, crashed>>

\* OnRun() returns true, its client alive; a client that is not is passed over.
Run(t) ==
  /\ pc[t] = "run" /\ at[t] <= nClient
  /\ NextTurn(t)
  /\ UNCHANGED <<backend, clientVars, readyCount, isRun, main, crashed>>

\* Mutant of Lose: as the epoll client, whatever the back end.
LoseUnreported(t) ==
  /\ pc[t] = "run" /\ at[t] <= nClient /\ Client(t) = "connected"
  /\ Becomes(t, "lost")
  /\ unreported' = unreported + (IF backend = "epoll" THEN 1 ELSE 0)
  /\ NextTurn(t)
  /\ UNCHANGED <<backend, nConnect, failures, atExit, readyCount, isRun, main, crashed>>

\* The connection is lost: Close(), and the select client returns false, as it
\* does when select() fails; the epoll client returns true.
Lose(t) ==
  /\ pc[t] = "run" /\ at[t] <= nClient /\ Client(t) = "connected"
  /\ Becomes(t, "lost")
  /\ IF backend = "select" THEN nConnect' = nConnect - 1 /\ UNCHANGED unreported
                           ELSE unreported' = unreported + 1 /\ UNCHANGED nConnect
  /\ NextTurn(t)
  /\ UNCHANGED <<backend, failures, atExit, readyCount, isRun, main, crashed>>

\* epoll_wait() fails: false, without Close().
EpollFails(t) ==
  /\ pc[t] = "run" /\ at[t] <= nClient /\ Client(t) = "connected"
  /\ backend = "epoll" /\ failures < MaxFails
  /\ failures' = failures + 1
  /\ nConnect' = nConnect - 1
  /\ NextTurn(t)
  /\ UNCHANGED <<backend, client, unreported, atExit, readyCount, isRun, main, crashed>>

RunEnds(t) ==
  /\ at[t] > nClient
  /\ Leave(t, "run", "top")
  /\ UNCHANGED <<backend, clientVars, readyCount, isRun, main, crashed>>

\* clients[n]->Close() and delete, whatever clients[n] is.
CloseClient(t) ==
  /\ pc[t] = "close" /\ at[t] <= nClient
  /\ IF Client(t) = "null"
     THEN crashed' = TRUE /\ UNCHANGED <<client, atExit, pc, at>>
     ELSE /\ Becomes(t, "deleted")
          /\ atExit' = atExit + (IF Client(t) = "connected" THEN 1 ELSE 0)
          /\ NextTurn(t)
          /\ UNCHANGED crashed
  /\ UNCHANGED <<backend, nConnect, unreported, failures, readyCount, isRun, main>>

CloseEnds(t) ==
  /\ at[t] > nClient
  /\ Leave(t, "close", "done")
  /\ readyCount' = readyCount - 1
  /\ UNCHANGED <<backend, clientVars, isRun, main, crashed>>

WorkThread(t) ==
  \/ Create(t) \/ CreateEnds(t) \/ Connect(t) \/ ConnectEnds(t) \/ Ready(t)
  \/ WaitEnds(t) \/ Round(t) \/ Run(t) \/ Lose(t) \/ EpollFails(t) \/ RunEnds(t)
  \/ CloseClient(t) \/ CloseEnds(t)

-----------------------------------------------------------------------------
(* main() *)

\* The command thread has read "exit", and the loop of statistics ends.
ExitCommand ==
  /\ main = 0
  /\ main' = 1
  /\ isRun' = [isRun EXCEPT ![1] = FALSE]
  /\ UNCHANGED <<backend, clientVars, threadVars, crashed>>

\* Close() returns; the next thread is closed.
Closed ==
  /\ main \in Threads /\ pc[main] = "done"
  /\ main' = main + 1
  /\ isRun' = [t \in Threads |-> isRun[t] /\ t # main']
  /\ UNCHANGED <<backend, clientVars, threadVars, crashed>>

Next ==
  /\ ~crashed
  /\ ExitCommand \/ Closed \/ \E t \in Threads : WorkThread(t)

Spec == Init /\ [][Next]_vars

\* The threads are scheduled, and connect(), send() and select() return.
FairSpec ==
  /\ Spec
  /\ WF_vars(~crashed /\ Closed)
  /\ \A t \in Threads : WF_vars(~crashed /\ WorkThread(t))

-----------------------------------------------------------------------------
Connected == {p \in Threads \X Indices : client[p[1]][p[2]] = "connected"}

\* The number that is logged as connected counts each client once, from its
\* connection to its loss, with the select back end; with epoll it is too high
\* by the losses OnRun() did not report, and too low by the failures it
\* reported of living clients, once for each turn.  The clients a thread closes
\* at its end stay counted (client.cpp:152-161, 213-227, EasyEpollClient.hpp:22-70).
CountIsExact ==
  /\ nConnect = Cardinality(Connected) + atExit + unreported - failures
  /\ backend = "select" => unreported = 0 /\ failures = 0

\* No thread sends before each has made its connections, although the threads
\* that end take themselves out of the count; and a thread that sends has all
\* its clients (client.cpp:141-171).
ReadyToSend ==
  \A t \in Threads : pc[t] = "run" =>
    /\ \A u \in Threads : pc[u] \notin {"create", "connect", "ready"}
    /\ \A n \in Indices : client[t][n] # "null"

\* After the exit command main() comes to its end, closing one thread after the
\* other while the others run or wait for it; unless the command came while a
\* thread was creating its clients, which then calls through a null pointer
\* (client.cpp:145-146, 234-238, 302-307).
MainReturns == main > 0 ~> (main > nThread \/ crashed)
==============================================================================
