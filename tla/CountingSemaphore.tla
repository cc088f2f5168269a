-------------------------- MODULE CountingSemaphore --------------------------
(***************************************************************************)
(* What CELLSemaphore promises its callers: a number of permits, and a     *)
(* wait() that takes one permit, blocking only while there is none.  The   *)
(* two counters, the mutex and the condition variable of the               *)
(* implementation are not part of the promise.                             *)
(***************************************************************************)
EXTENDS Naturals

CONSTANT Threads

VARIABLES
  permits,   \* wakeup() calls not yet consumed by a wait()
  waiting    \* threads inside a wait() that found no permit

avars == <<permits, waiting>>

AInit == permits = 0 /\ waiting = {}

\* wait() takes a permit without blocking.
Acquire(t) ==
  /\ t \notin waiting
  /\ permits > 0
  /\ permits' = permits - 1
  /\ UNCHANGED waiting

\* wait() blocks: allowed only when there is no permit to take.
Block(t) ==
  /\ t \notin waiting
  /\ permits = 0
  /\ waiting' = waiting \cup {t}
  /\ UNCHANGED permits

\* A blocked wait() returns, consuming a permit.
Grant(t) ==
  /\ t \in waiting
  /\ permits > 0
  /\ permits' = permits - 1
  /\ waiting' = waiting \ {t}

\* wakeup() adds a permit.
Post ==
  /\ permits' = permits + 1
  /\ UNCHANGED waiting

ANext == Post \/ \E t \in Threads : Acquire(t) \/ Block(t) \/ Grant(t)

ASpec == AInit /\ [][ANext]_avars
==============================================================================
