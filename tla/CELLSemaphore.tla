---------------------------- MODULE CELLSemaphore ----------------------------
(***************************************************************************)
(* depends/include/CELLSemaphore.hpp: a counting semaphore built from a    *)
(* mutex, a condition variable and two counters.  Each method holds _mutex *)
(* from its first to its last statement, except while it sleeps inside     *)
(* _cv.wait, so a method is one action up to that sleep and another one    *)
(* from the wake-up on.  Spurious wake-ups of the condition variable are   *)
(* an action of their own.                                                 *)
(***************************************************************************)
EXTENDS Integers, FiniteSets

CONSTANTS
  Threads,      \* the threads that call wait() and wakeup()
  MaxPermits    \* bound: wakeup() is called only while fewer permits are left

ASSUME SemAssumption ==
  /\ IsFiniteSet(Threads)
  /\ MaxPermits \in Nat

VARIABLES
  semWait,     \* _wait: permits, or minus the number of calls that block
  semWakeup,   \* _wakeup: wake-ups handed out and not yet taken
  asleep,      \* threads sleeping inside _cv.wait
  awake        \* threads the condition variable has woken, about to test
               \* the predicate  _wakeup > 0

semVars == <<semWait, semWakeup, asleep, awake>>

Blocked == asleep \cup awake

SemInit ==
  /\ semWait = 0
  /\ semWakeup = 0
  /\ asleep = {}
  /\ awake = {}

\* wait() returns at once: "--_wait < 0" is false.
WaitPass(t) ==
  /\ semWait > 0
  /\ semWait' = semWait - 1
  /\ UNCHANGED <<semWakeup, asleep, awake>>

\* wait() enters _cv.wait and finds the predicate true: it takes the wake-up
\* that was handed out for a thread which has not run yet.
WaitTake(t) ==
  /\ semWait <= 0
  /\ semWakeup > 0
  /\ semWait' = semWait - 1
  /\ semWakeup' = semWakeup - 1
  /\ UNCHANGED <<asleep, awake>>

\* wait() enters _cv.wait, finds the predicate false, and sleeps.
WaitSleep(t) ==
  /\ semWait <= 0
  /\ semWakeup = 0
  /\ semWait' = semWait - 1
  /\ asleep' = asleep \cup {t}
  /\ UNCHANGED <<semWakeup, awake>>

\* A woken thread finds the predicate true: --_wakeup, and wait() returns.
Resume(t) ==
  /\ t \in awake
  /\ semWakeup > 0
  /\ semWakeup' = semWakeup - 1
  /\ awake' = awake \ {t}
  /\ UNCHANGED <<semWait, asleep>>

\* A woken thread finds the predicate false and sleeps again.
SleepAgain(t) ==
  /\ t \in awake
  /\ semWakeup = 0
  /\ awake' = awake \ {t}
  /\ asleep' = asleep \cup {t}
  /\ UNCHANGED <<semWait, semWakeup>>

\* The condition variable may wake a sleeper that nobody notified.
SpuriousWake(t) ==
  /\ t \in asleep
  /\ asleep' = asleep \ {t}
  /\ awake' = awake \cup {t}
  /\ UNCHANGED <<semWait, semWakeup>>

\* _cv.notify_one(): one sleeper, if there is any.
NotifyOne ==
  \/ /\ asleep = {}
     /\ UNCHANGED <<asleep, awake>>
  \/ \E t \in asleep : /\ asleep' = asleep \ {t}
                       /\ awake' = awake \cup {t}

\* Mutant of Wakeup: hands out a wake-up only while somebody waits after it.
WakeupStrict ==
  /\ semWait' = semWait + 1
  /\ IF semWait + 1 < 0
     THEN semWakeup' = semWakeup + 1 /\ NotifyOne
     ELSE UNCHANGED <<semWakeup, asleep, awake>>

\* Mutant of Wakeup: forgets notify_one().
WakeupSilent ==
  /\ semWait' = semWait + 1
  /\ IF semWait + 1 <= 0
     THEN semWakeup' = semWakeup + 1 /\ UNCHANGED <<asleep, awake>>
     ELSE UNCHANGED <<semWakeup, asleep, awake>>

\* wakeup()
Wakeup ==
  /\ semWait' = semWait + 1
  /\ IF semWait + 1 <= 0
     THEN semWakeup' = semWakeup + 1 /\ NotifyOne
     ELSE UNCHANGED <<semWakeup, asleep, awake>>

\* A thread that is not inside wait() may call it; a woken one goes on.
Call(t) ==
  /\ t \notin Blocked
  /\ WaitPass(t) \/ WaitTake(t) \/ WaitSleep(t)

Permits == semWait + Cardinality(Blocked)

SemNext ==
  \/ Permits < MaxPermits /\ Wakeup
  \/ \E t \in Threads : Call(t) \/ Resume(t) \/ SleepAgain(t) \/ SpuriousWake(t)

SemSpec == SemInit /\ [][SemNext]_semVars

-----------------------------------------------------------------------------
SemTypeOK ==
  /\ semWait \in Int
  /\ semWakeup \in Nat
  /\ asleep \subseteq Threads
  /\ awake \subseteq Threads
  /\ asleep \cap awake = {}

\* The two counters agree: _wakeup is the number of blocked threads less the
\* ones _wait still owes a wake-up.  It is what makes the test "++_wait <= 0"
\* of wakeup() the right one.
CountersAgree ==
  semWakeup = Cardinality(Blocked) + (IF semWait < 0 THEN semWait ELSE 0)

\* Every wake-up handed out has a thread that is awake to take it: although
\* wakeup() calls notify_one() and another wait() may take the wake-up first,
\* no wake-up is ever left with only sleepers to take it (README.md:404, the
\* section on false wake-ups).
NoLostWakeup == semWakeup <= Cardinality(awake)

\* The counting semaphore this class implements.
Abstract == INSTANCE CountingSemaphore WITH permits <- Permits, waiting <- Blocked
ImplementsSemaphore == Abstract!ASpec
==============================================================================
