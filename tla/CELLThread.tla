----------------------------- MODULE CELLThread ------------------------------
(***************************************************************************)
(* depends/include/CELLThread.hpp: a worker thread that runs a callback    *)
(* until it is closed.  Close() clears _isRun and waits on a semaphore     *)
(* that the worker posts when its callbacks have returned; Exit() is the   *)
(* worker's own way out, taken by the run loops of the server when their   *)
(* epoll or select call fails.                                             *)
(*                                                                         *)
(* _isRun is a plain bool that isRun(), Exit() and OnWork() touch without  *)
(* the mutex; every such access is an action of its own.                   *)
(***************************************************************************)
EXTENDS Integers, FiniteSets

CONSTANTS
  Callers,       \* threads that call Start() and Close()
  MaxLives       \* bound: how often Start() creates a worker

ASSUME ThreadAssumption ==
  /\ IsFiniteSet(Callers)
  /\ MaxLives \in Nat \ {0}

Workers == 1..MaxLives

VARIABLES
  isRun,    \* _isRun
  mutex,    \* _mutex: {} or the one caller that holds it
  life,     \* workers created so far; the last one is the worker of _isRun
  wpc,      \* wpc[w]: where worker w is in OnWork
  cpc,      \* cpc[c]: where caller c is in Close
  exited,   \* history: some worker has called Exit() with the flag set
  semWait, semWakeup, asleep, awake   \* _sem

Sem == INSTANCE CELLSemaphore WITH Threads <- Callers, MaxPermits <- MaxLives

semVars == <<semWait, semWakeup, asleep, awake>>
threadVars == <<isRun, mutex, life, wpc, cpc, exited>>
vars == <<isRun, mutex, life, wpc, cpc, exited, semWait, semWakeup, asleep, awake>>

Init ==
  /\ isRun = FALSE
  /\ mutex = {}
  /\ life = 0
  /\ wpc = [w \in Workers |-> "unborn"]
  /\ cpc = [c \in Callers |-> "idle"]
  /\ exited = FALSE
  /\ Sem!SemInit

GoWorker(w, from, to) == wpc[w] = from /\ wpc' = [wpc EXCEPT ![w] = to]
GoCaller(c, from, to) == cpc[c] = from /\ cpc' = [cpc EXCEPT ![c] = to]

\* Start(): the whole body holds _mutex.
Start(c) ==
  /\ cpc[c] = "idle"
  /\ mutex = {}
  /\ ~isRun
  /\ life < MaxLives
  /\ isRun' = TRUE
  /\ life' = life + 1
  /\ wpc' = [wpc EXCEPT ![life + 1] = "run"]
  /\ UNCHANGED <<mutex, cpc, exited, semVars>>

-----------------------------------------------------------------------------
(* Close() *)

CloseLock(c) ==
  /\ mutex = {}
  /\ GoCaller(c, "idle", "test")
  /\ mutex' = {c}
  /\ UNCHANGED <<isRun, life, wpc, exited, semVars>>

CloseTest(c) ==
  /\ isRun
  /\ GoCaller(c, "test", "wait")
  /\ isRun' = FALSE
  /\ UNCHANGED <<mutex, life, wpc, exited, semVars>>

CloseSkip(c) ==
  /\ ~isRun
  /\ GoCaller(c, "test", "unlock")
  /\ UNCHANGED <<isRun, mutex, life, wpc, exited, semVars>>

\* Mutant of CloseWait: Close() does not wait.
CloseNoWait(c) ==
  /\ GoCaller(c, "wait", "unlock")
  /\ UNCHANGED <<isRun, mutex, life, wpc, exited, semVars>>

\* _sem.wait() returns at once, or the caller blocks in it, _mutex in hand.
CloseWait(c) ==
  /\ \/ /\ Sem!WaitPass(c) \/ Sem!WaitTake(c)
        /\ GoCaller(c, "wait", "unlock")
     \/ Sem!WaitSleep(c) /\ GoCaller(c, "wait", "blocked")
  /\ UNCHANGED <<isRun, mutex, life, wpc, exited>>

CloseResume(c) ==
  /\ Sem!Resume(c)
  /\ GoCaller(c, "blocked", "unlock")
  /\ UNCHANGED <<isRun, mutex, life, wpc, exited>>

CloseFalseWake(c) ==
  /\ Sem!SleepAgain(c) \/ Sem!SpuriousWake(c)
  /\ UNCHANGED threadVars

CloseReturn(c) ==
  /\ GoCaller(c, "unlock", "idle")
  /\ mutex' = {}
  /\ UNCHANGED <<isRun, life, wpc, exited, semVars>>

-----------------------------------------------------------------------------
(* OnWork() and the loop of its run callback *)

\* The callback's  while (pThread->isRun())  finds the flag cleared.
RunStops(w) ==
  /\ ~isRun
  /\ GoWorker(w, "run", "destroy")
  /\ UNCHANGED <<isRun, mutex, life, cpc, exited, semVars>>

\* The callback returns without looking at the flag, as the command thread of
\* client.cpp does.
RunReturns(w) ==
  /\ GoWorker(w, "run", "destroy")
  /\ UNCHANGED <<isRun, mutex, life, cpc, exited, semVars>>

\* Exit() tests _isRun before it takes the mutex.
ExitTest(w) ==
  /\ IF isRun THEN GoWorker(w, "run", "exit") ELSE GoWorker(w, "run", "destroy")
  /\ exited' = (exited \/ isRun)
  /\ UNCHANGED <<isRun, mutex, life, cpc, semVars>>

ExitLocked(w) ==
  /\ mutex = {}
  /\ GoWorker(w, "exit", "destroy")
  /\ isRun' = FALSE
  /\ UNCHANGED <<mutex, life, cpc, exited, semVars>>

\* _onDestory returns.
Destroyed(w) ==
  /\ GoWorker(w, "destroy", "wake")
  /\ UNCHANGED <<isRun, mutex, life, cpc, exited, semVars>>

\* Mutant of Wake: the destroy callback has not returned yet.
WakeEarly(w) ==
  /\ Sem!Wakeup
  /\ \/ GoWorker(w, "wake", "clear")
     \/ wpc[w] = "destroy" /\ wpc' = wpc
  /\ UNCHANGED <<isRun, mutex, life, cpc, exited>>

\* Mutant of Wake: the semaphore is not posted.
WakeSilent(w) ==
  /\ GoWorker(w, "wake", "clear")
  /\ UNCHANGED <<isRun, mutex, life, cpc, exited, semVars>>

\* _sem.wakeup()
Wake(w) ==
  /\ Sem!Wakeup
  /\ GoWorker(w, "wake", "clear")
  /\ UNCHANGED <<isRun, mutex, life, cpc, exited>>

\* The trailing  _isRun = false.
Clear(w) ==
  /\ GoWorker(w, "clear", "done")
  /\ isRun' = FALSE
  /\ UNCHANGED <<mutex, life, cpc, exited, semVars>>

-----------------------------------------------------------------------------
CallerStep(c) ==
  \/ CloseTest(c) \/ CloseSkip(c) \/ CloseWait(c) \/ CloseResume(c)
  \/ CloseReturn(c)

WorkerStep(w) ==
  \/ RunStops(w) \/ ExitTest(w) \/ ExitLocked(w)
  \/ Destroyed(w) \/ Wake(w) \/ Clear(w)

Next ==
  \/ \E c \in Callers :
       Start(c) \/ CloseLock(c) \/ CloseFalseWake(c) \/ CallerStep(c)
  \/ \E w \in Workers : WorkerStep(w) \/ RunReturns(w)

Spec == Init /\ [][Next]_vars

\* A caller inside Close() and a worker keep running: the scheduler is fair,
\* the callback's loop comes back to its test, and the callbacks return.
Fairness ==
  /\ \A c \in Callers : WF_vars(CallerStep(c))
  /\ \A w \in Workers : WF_vars(WorkerStep(w))

FairSpec == Spec /\ Fairness

-----------------------------------------------------------------------------
TypeOK ==
  /\ isRun \in BOOLEAN
  /\ mutex \subseteq Callers
  /\ life \in 0..MaxLives
  /\ wpc \in [Workers ->
                {"unborn", "run", "exit", "destroy", "wake", "clear", "done"}]
  /\ cpc \in [Callers -> {"idle", "test", "wait", "blocked", "unlock"}]
  /\ exited \in BOOLEAN
  /\ semWait \in Int /\ semWakeup \in Nat
  /\ asleep \subseteq Callers /\ awake \subseteq Callers

\* Close() is a join: when it returns, no worker is in a callback.
Joined ==
  \A c \in Callers : cpc[c] = "unlock" =>
    \A w \in Workers : wpc[w] \in {"unborn", "clear", "done"}

\* _isRun tells whether the thread is running: a worker in its run callback
\* sees the flag cleared only while some Close() waits for it.
Faithful ==
  \A w \in Workers : wpc[w] = "run" /\ ~isRun =>
    \E c \in Callers : cpc[c] \in {"wait", "blocked"}

\* The use the servers and the clients make of a thread while no epoll or
\* select call fails: one start, and no Exit().
PlainUse == life <= 1 /\ ~exited

\* In plain use Close() is a join, so that the owner may free what the
\* callbacks use (README.md:378, the semaphore makes every thread's exit safe).
CloseJoins == PlainUse => Joined

\* In plain use the flag is what its comment says (CELLThread.hpp:90).
FlagIsFaithful == PlainUse => Faithful

\* Stronger: when Close() returns the worker has made its last access to the
\* CELLThread object, which the owner then deletes (client.cpp:305-306).
CloseIsLastAccess ==
  PlainUse => \A c \in Callers : cpc[c] = "unlock" =>
                \A w \in Workers : wpc[w] \in {"unborn", "done"}

\* A Close() that is blocked has a worker that will still post, or its wake-up
\* is already handed out: at most one Close() waits for each worker, however
\* often the thread is started, closed and left through Exit().
JoinIsPending ==
  \A c \in Callers : cpc[c] = "blocked" =>
    \/ semWakeup > 0
    \/ \E w \in Workers : wpc[w] \in {"run", "exit", "destroy", "wake"}

\* Every Close() returns, although it waits with the mutex in its hand.
CloseReturns == \A c \in Callers : cpc[c] # "idle" ~> cpc[c] = "idle"

\* Every Close() returns, however often the thread is restarted, unless a
\* worker calls Exit().
CloseReturnsUnlessExit ==
  \A c \in Callers : cpc[c] # "idle" ~> (cpc[c] = "idle" \/ exited)
==============================================================================
