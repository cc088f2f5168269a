---------------------------- MODULE WorkerProofs -----------------------------
(***************************************************************************)
(* Proofs about the two parts that a worker thread is made of, the         *)
(* semaphore that joins it and the list of tasks that it works through.    *)
(*                                                                         *)
(* CELLSemaphore, for every finite set of threads and every bound: its     *)
(* safety invariants, and that it implements a counting semaphore.  SemInv *)
(* is inductive; NoLostWakeup alone is not, because a notify_one() that    *)
(* finds nobody asleep relies on CountersAgree to know that somebody is    *)
(* awake.                                                                  *)
(*                                                                         *)
(* CELLTaskServer, for any number of tasks: none is lost, run twice or run *)
(* out of order, and Close() returns after all those added before it was   *)
(* called.  The invariant says where each task number is: the tasks run    *)
(* are 1 to Len(executed), the list being run continues from there, and    *)
(* the buffer from where that list ends.  And about CELLLog, each of whose *)
(* steps is one of its task server: the file that was opened has exactly   *)
(* the lines that were run as tasks.                                       *)
(***************************************************************************)
EXTENDS CELLLog, CELLSemaphore, SequenceTheorems, FiniteSetTheorems, TLAPS

(* CELLSemaphore *)

SemInv == SemTypeOK /\ CountersAgree /\ NoLostWakeup

\* The sets of threads of a state that types are finite, so that their
\* cardinalities are numbers.
LEMMA FiniteThreadSets ==
  ASSUME SemTypeOK
  PROVE  /\ IsFiniteSet(asleep) /\ IsFiniteSet(awake) /\ IsFiniteSet(Blocked)
         /\ Cardinality(asleep) \in Nat /\ Cardinality(awake) \in Nat
         /\ Cardinality(Blocked) \in Nat
  <1>1. asleep \subseteq Threads /\ awake \subseteq Threads /\ Blocked \subseteq Threads
    BY DEF SemTypeOK, Blocked
  <1>2. IsFiniteSet(asleep) /\ IsFiniteSet(awake) /\ IsFiniteSet(Blocked)
    BY <1>1, FS_Subset, SemAssumption DEF SemAssumption
  <1> QED BY <1>2, FS_CardinalityType

\* A sleeper that is woken changes the size of awake and of no other set that
\* the counters count.
LEMMA WakeSleeper ==
  ASSUME SemTypeOK, NEW t \in asleep,
         asleep' = asleep \ {t}, awake' = awake \cup {t}
  PROVE  /\ Blocked' = Blocked
         /\ Cardinality(awake') = Cardinality(awake) + 1
         /\ asleep' \subseteq Threads /\ awake' \subseteq Threads
         /\ asleep' \cap awake' = {}
  <1>1. t \notin awake
    BY DEF SemTypeOK
  <1>2. Cardinality(awake') = Cardinality(awake) + 1
    BY <1>1, FiniteThreadSets, FS_AddElement
  <1> QED BY <1>2 DEF SemTypeOK, Blocked

\* Taking a thread out of a set of blocked threads.
LEMMA RemoveAwake ==
  ASSUME SemTypeOK, NEW t \in awake, awake' = awake \ {t}
  PROVE  Cardinality(awake') = Cardinality(awake) - 1
  BY FiniteThreadSets, FS_RemoveElement

\* _cv.notify_one() moves at most one sleeper, and moves one if there is any.
LEMMA NotifyOneEffect ==
  ASSUME SemTypeOK, NotifyOne
  PROVE  /\ Blocked' = Blocked
         /\ \/ asleep = {} /\ awake' = awake
            \/ Cardinality(awake') = Cardinality(awake) + 1
         /\ asleep' \subseteq Threads /\ awake' \subseteq Threads
         /\ asleep' \cap awake' = {}
  <1>1. CASE asleep = {} /\ UNCHANGED <<asleep, awake>>
    BY <1>1 DEF SemTypeOK, Blocked
  <1>2. CASE \E t \in asleep : asleep' = asleep \ {t} /\ awake' = awake \cup {t}
    <2>1. PICK t \in asleep : asleep' = asleep \ {t} /\ awake' = awake \cup {t}
      BY <1>2
    <2> QED BY <2>1, WakeSleeper
  <1> QED BY <1>1, <1>2 DEF NotifyOne

LEMMA SemInvInit == SemInit => SemInv
  BY FS_EmptySet DEF SemInit, SemInv, SemTypeOK, CountersAgree, NoLostWakeup, Blocked

LEMMA WaitKeepsInv ==
  ASSUME SemInv, NEW t \in Threads, Call(t)
  PROVE  SemInv'
  <1> USE FiniteThreadSets
  <1>1. CASE WaitPass(t)
    BY <1>1 DEF WaitPass, SemInv, SemTypeOK, CountersAgree, NoLostWakeup, Blocked
  <1>2. CASE WaitTake(t)
    BY <1>2 DEF WaitTake, SemInv, SemTypeOK, CountersAgree, NoLostWakeup, Blocked
  <1>3. CASE WaitSleep(t)
    <2>1. Blocked' = Blocked \cup {t} /\ t \notin Blocked
      BY <1>3 DEF WaitSleep, Call, Blocked
    <2>2. Cardinality(Blocked') = Cardinality(Blocked) + 1
      BY <2>1, FS_AddElement DEF SemInv
    <2> QED BY <1>3, <2>1, <2>2
            DEF WaitSleep, SemInv, SemTypeOK, CountersAgree, NoLostWakeup, Blocked
  <1> QED BY <1>1, <1>2, <1>3 DEF Call

LEMMA WokenKeepsInv ==
  ASSUME SemInv, NEW t \in Threads, Resume(t) \/ SleepAgain(t) \/ SpuriousWake(t)
  PROVE  SemInv'
  <1> USE FiniteThreadSets
  <1>1. CASE Resume(t)
    <2>1. Blocked' = Blocked \ {t} /\ t \in Blocked
      BY <1>1 DEF Resume, SemInv, SemTypeOK, Blocked
    <2>2. Cardinality(Blocked') = Cardinality(Blocked) - 1
      BY <2>1, FS_RemoveElement DEF SemInv
    <2>3. Cardinality(awake') = Cardinality(awake) - 1
      BY <1>1, RemoveAwake DEF Resume, SemInv
    <2> QED BY <1>1, <2>2, <2>3
            DEF Resume, SemInv, SemTypeOK, CountersAgree, NoLostWakeup
  <1>2. CASE SleepAgain(t)
    <2>1. Blocked' = Blocked
      BY <1>2 DEF SleepAgain, Blocked
    <2>2. Cardinality(awake') = Cardinality(awake) - 1 /\ Cardinality(awake) # 0
      BY <1>2, RemoveAwake, FS_EmptySet DEF SleepAgain, SemInv
    <2> QED BY <1>2, <2>1, <2>2
            DEF SleepAgain, SemInv, SemTypeOK, CountersAgree, NoLostWakeup
  <1>3. CASE SpuriousWake(t)
    <2>1. /\ Blocked' = Blocked
          /\ Cardinality(awake') = Cardinality(awake) + 1
          /\ asleep' \subseteq Threads /\ awake' \subseteq Threads
          /\ asleep' \cap awake' = {}
      BY <1>3, WakeSleeper DEF SpuriousWake, SemInv
    <2> QED BY <1>3, <2>1
            DEF SpuriousWake, SemInv, SemTypeOK, CountersAgree, NoLostWakeup
  <1> QED BY <1>1, <1>2, <1>3

LEMMA WakeupKeepsInv ==
  ASSUME SemInv, Wakeup
  PROVE  SemInv'
  <1> USE FiniteThreadSets
  <1>1. CASE semWait + 1 <= 0
    <2>1. NotifyOne /\ semWait' = semWait + 1 /\ semWakeup' = semWakeup + 1
      BY <1>1 DEF Wakeup
    <2>2. /\ Blocked' = Blocked
          /\ \/ asleep = {} /\ awake' = awake
             \/ Cardinality(awake') = Cardinality(awake) + 1
          /\ asleep' \subseteq Threads /\ awake' \subseteq Threads
          /\ asleep' \cap awake' = {}
      BY <2>1, NotifyOneEffect DEF SemInv
    <2>3. SemTypeOK' /\ CountersAgree'
      BY <1>1, <2>1, <2>2 DEF SemInv, SemTypeOK, CountersAgree
    <2>4. NoLostWakeup'
      <3>1. CASE asleep = {} /\ awake' = awake
        <4>1. Blocked = awake
          BY <3>1 DEF Blocked
        <4>2. semWakeup + 1 <= Cardinality(awake)
          BY <1>1, <4>1, FiniteThreadSets DEF SemInv, SemTypeOK, CountersAgree
        <4> QED BY <2>1, <3>1, <4>2 DEF NoLostWakeup
      <3>2. CASE Cardinality(awake') = Cardinality(awake) + 1
        BY <2>1, <3>2, FiniteThreadSets DEF SemInv, SemTypeOK, NoLostWakeup
      <3> QED BY <2>2, <3>1, <3>2
    <2> QED BY <2>3, <2>4 DEF SemInv
  <1>2. CASE ~(semWait + 1 <= 0)
    BY <1>2 DEF Wakeup, SemInv, SemTypeOK, CountersAgree, NoLostWakeup, Blocked
  <1> QED BY <1>1, <1>2

LEMMA SemInvStep == SemInv /\ [SemNext]_semVars => SemInv'
  <1> SUFFICES ASSUME SemInv, [SemNext]_semVars PROVE SemInv'
    OBVIOUS
  <1>1. CASE Permits < MaxPermits /\ Wakeup
    BY <1>1, WakeupKeepsInv
  <1>2. ASSUME NEW t \in Threads, Call(t) PROVE SemInv'
    BY <1>2, WaitKeepsInv
  <1>3. ASSUME NEW t \in Threads, Resume(t) \/ SleepAgain(t) \/ SpuriousWake(t)
        PROVE  SemInv'
    BY <1>3, WokenKeepsInv
  <1>4. CASE UNCHANGED semVars
    BY <1>4 DEF semVars, SemInv, SemTypeOK, CountersAgree, NoLostWakeup, Blocked
  <1> QED BY <1>1, <1>2, <1>3, <1>4 DEF SemNext

\* The inductive invariant holds in every reachable state.
THEOREM SemInvariance == SemSpec => []SemInv
  BY SemInvInit, SemInvStep, PTL DEF SemSpec

\* The counters keep their ranges, and the blocked calls are threads' calls.
THEOREM SemaphoreTypes == SemSpec => []SemTypeOK
  <1>1. SemInv => SemTypeOK
    BY DEF SemInv
  <1> QED BY <1>1, SemInvariance, PTL

\* The two counters of CELLSemaphore.hpp:41-44 always describe the same set
\* of blocked calls.
THEOREM CountersAlwaysAgree == SemSpec => []CountersAgree
  <1>1. SemInv => CountersAgree
    BY DEF SemInv
  <1> QED BY <1>1, SemInvariance, PTL

\* No wake-up handed out by wakeup() is left with only sleepers to take it.
THEOREM NoWakeupIsLost == SemSpec => []NoLostWakeup
  <1>1. SemInv => NoLostWakeup
    BY DEF SemInv
  <1> QED BY <1>1, SemInvariance, PTL

-----------------------------------------------------------------------------
LEMMA PermitsCount ==
  ASSUME SemInv
  PROVE  /\ Permits \in Nat
         /\ semWait <= 0 => Permits = semWakeup
         /\ semWakeup > 0 => Permits > 0
  BY FiniteThreadSets DEF SemInv, SemTypeOK, CountersAgree, Permits

LEMMA CallRefines ==
  ASSUME SemInv, NEW t \in Threads, Call(t)
  PROVE  Abstract!Acquire(t) \/ Abstract!Block(t)
  <1> USE FiniteThreadSets, PermitsCount
  <1>1. t \notin Blocked
    BY DEF Call
  <1>2. CASE WaitPass(t)
    <2>1. Blocked' = Blocked
      BY <1>2 DEF WaitPass, Blocked
    <2>2. Permits > 0 /\ Permits' = Permits - 1
      BY <1>2, <2>1 DEF WaitPass, SemInv, SemTypeOK, Permits
    <2> QED BY <1>1, <2>1, <2>2 DEF Abstract!Acquire
  <1>3. CASE WaitTake(t)
    <2>1. Blocked' = Blocked
      BY <1>3 DEF WaitTake, Blocked
    <2>2. Permits > 0 /\ Permits' = Permits - 1
      BY <1>3, <2>1 DEF WaitTake, SemInv, SemTypeOK, Permits
    <2> QED BY <1>1, <2>1, <2>2 DEF Abstract!Acquire
  <1>4. CASE WaitSleep(t)
    <2>1. Blocked' = Blocked \cup {t}
      BY <1>4 DEF WaitSleep, Blocked
    <2>2. Cardinality(Blocked') = Cardinality(Blocked) + 1
      BY <1>1, <2>1, FS_AddElement DEF SemInv
    <2>3. Permits = 0 /\ Permits' = Permits
      BY <1>4, <2>2 DEF WaitSleep, SemInv, SemTypeOK, Permits
    <2> QED BY <1>1, <2>1, <2>3 DEF Abstract!Block
  <1> QED BY <1>2, <1>3, <1>4 DEF Call

LEMMA ResumeRefines ==
  ASSUME SemInv, NEW t \in Threads, Resume(t)
  PROVE  Abstract!Grant(t)
  <1>1. Blocked' = Blocked \ {t} /\ t \in Blocked
    BY DEF Resume, SemInv, SemTypeOK, Blocked
  <1>2. Cardinality(Blocked') = Cardinality(Blocked) - 1
    BY <1>1, FiniteThreadSets, FS_RemoveElement DEF SemInv
  <1>3. Permits > 0 /\ Permits' = Permits - 1
    BY <1>2, FiniteThreadSets, PermitsCount DEF Resume, SemInv, SemTypeOK, Permits
  <1> QED BY <1>1, <1>3 DEF Abstract!Grant

LEMMA WakeupRefines ==
  ASSUME SemInv, Wakeup
  PROVE  Abstract!Post
  <1>1. Blocked' = Blocked
    <2>1. CASE semWait + 1 <= 0
      BY <2>1, NotifyOneEffect DEF Wakeup, SemInv
    <2>2. CASE ~(semWait + 1 <= 0)
      BY <2>2 DEF Wakeup, Blocked
    <2> QED BY <2>1, <2>2
  <1>2. Permits' = Permits + 1
    BY <1>1, FiniteThreadSets DEF Wakeup, SemInv, SemTypeOK, Permits
  <1> QED BY <1>1, <1>2 DEF Abstract!Post

LEMMA StepRefines ==
  SemInv /\ [SemNext]_semVars => [Abstract!ANext]_(Abstract!avars)
  <1> SUFFICES ASSUME SemInv, [SemNext]_semVars
               PROVE  Abstract!ANext \/ UNCHANGED Abstract!avars
    OBVIOUS
  <1>1. CASE Permits < MaxPermits /\ Wakeup
    BY <1>1, WakeupRefines DEF Abstract!ANext
  <1>2. ASSUME NEW t \in Threads, Call(t) PROVE Abstract!ANext
    BY <1>2, CallRefines DEF Abstract!ANext
  <1>3. ASSUME NEW t \in Threads, Resume(t) PROVE Abstract!ANext
    BY <1>3, ResumeRefines DEF Abstract!ANext
  <1>4. ASSUME NEW t \in Threads, SleepAgain(t) \/ SpuriousWake(t)
        PROVE  UNCHANGED Abstract!avars
    <2>1. Blocked' = Blocked /\ semWait' = semWait
      BY <1>4 DEF SleepAgain, SpuriousWake, SemInv, SemTypeOK, Blocked
    <2> QED BY <2>1 DEF Abstract!avars, Permits
  <1>5. CASE UNCHANGED semVars
    BY <1>5 DEF semVars, Abstract!avars, Permits, Blocked
  <1> QED BY <1>1, <1>2, <1>3, <1>4, <1>5 DEF SemNext

\* CELLSemaphore implements the counting semaphore: a wait() blocks only while
\* there is no permit, and every wakeup() is worth exactly one return of a
\* wait(), whatever the condition variable does.
THEOREM SemaphoreRefinement == SemSpec => ImplementsSemaphore
  <1>1. SemInit => Abstract!AInit
    BY FS_EmptySet DEF SemInit, Abstract!AInit, Permits, Blocked
  <1> QED BY <1>1, SemInvariance, StepRefines, PTL
          DEF SemSpec, ImplementsSemaphore, Abstract!ASpec

-----------------------------------------------------------------------------
(* CELLTaskServer *)

\* What is left of the worker's list, and where the unrun part of the buffer
\* begins.
RestLen == IF wpc = "work" THEN Len(tasks) - at + 1 ELSE 0
First == IF wpc \in {"drain", "done"} THEN at ELSE 1
Taken == Len(executed) + RestLen

ExecutedInv == \A n \in 1..Len(executed) : executed[n] = n

TasksInv ==
  /\ wpc \in {"peek", "take"} => at = 1
  /\ wpc # "work" => tasks = <<>>
  /\ wpc = "work" =>
       /\ at <= Len(tasks) + 1
       /\ \A i \in at..Len(tasks) : tasks[i] = Len(executed) + (i - at) + 1

BufInv ==
  /\ First <= Len(tasksBuf) + 1
  /\ \A i \in First..Len(tasksBuf) : tasksBuf[i] = Taken + (i - First) + 1
  /\ Taken + Len(tasksBuf) - First + 1 = added

CloseInv ==
  /\ owner # "up" <=> ~isRun
  /\ wpc \in {"drain", "done"} => owner # "up"
  /\ owner = "closed" => wpc = "done"
  /\ wpc = "done" => Len(executed) >= before

IInv == TypeOK /\ ExecutedInv /\ TasksInv /\ BufInv /\ CloseInv

-----------------------------------------------------------------------------
LEMMA InitInv == Init => IInv
  <1> SUFFICES ASSUME Init PROVE IInv
    OBVIOUS
  <1> USE DEF Init
  <1>2. TypeOK
    BY TaskAssumption DEF TypeOK
  <1>3. ExecutedInv /\ TasksInv /\ BufInv /\ CloseInv
    BY DEF ExecutedInv, TasksInv, BufInv, CloseInv, First, Taken, RestLen
  <1> QED BY <1>2, <1>3 DEF IInv

LEMMA NextTypes ==
  ASSUME IInv, [Next]_vars
  PROVE  TypeOK'
  <1>1. CASE addTask
    BY <1>1, TaskAssumption DEF addTask, IInv, TypeOK
  <1>2. CASE Close
    <2>1. isRun' \in BOOLEAN
      BY <1>2 DEF Close
    <2> QED BY <1>2, <2>1 DEF Close, IInv, TypeOK
  <1>3. CASE CloseReturn
    BY <1>3 DEF CloseReturn, IInv, TypeOK
  <1>4. CASE LoopTop
    BY <1>4 DEF LoopTop, IInv, TypeOK, Go
  <1>5. CASE Peek
    BY <1>5 DEF Peek, IInv, TypeOK, Go
  <1>6. CASE Take
    BY <1>6 DEF Take, IInv, TypeOK, Go
  <1>7. CASE Work
    <2>1. Len(executed) + 1 <= added /\ tasks[at] \in 1..added
      BY <1>7 DEF Work, IInv, TypeOK, BufInv, First, Taken, RestLen
    <2> QED BY <1>7, <2>1 DEF Work, IInv, TypeOK
  <1>8. CASE WorkEnds
    BY <1>8 DEF WorkEnds, IInv, TypeOK, Go
  <1>9. CASE Drain
    <2>1. Len(executed) + 1 <= added /\ tasksBuf[at] \in 1..added
      BY <1>9 DEF Drain, IInv, TypeOK, BufInv, First, Taken, RestLen
    <2> QED BY <1>9, <2>1 DEF Drain, IInv, TypeOK
  <1>10. CASE DrainEnds
    BY <1>10 DEF DrainEnds, IInv, TypeOK, Go
  <1>11. CASE UNCHANGED vars
    BY <1>11 DEF vars, IInv, TypeOK
  <1> QED BY <1>1, <1>2, <1>3, <1>4, <1>5, <1>6, <1>7, <1>8, <1>9, <1>10, <1>11 DEF
             Next, Worker

LEMMA NextInv == IInv /\ [Next]_vars => IInv'
  <1> SUFFICES ASSUME IInv, [Next]_vars PROVE IInv'
    OBVIOUS
  <1>0. TypeOK /\ TypeOK'
    BY NextTypes DEF IInv
  <1>1. CASE addTask
    <2>1. ExecutedInv'
      BY <1>1 DEF addTask, IInv, ExecutedInv
    <2>2. TasksInv'
      BY <1>1 DEF addTask, IInv, TasksInv
    <2>3. BufInv'
      <3>1. First' = First /\ Taken' = Taken /\ added' = added + 1
        BY <1>1 DEF addTask, First, Taken, RestLen
      <3>3. /\ Len(tasksBuf') = Len(tasksBuf) + 1
            /\ \A i \in 1..Len(tasksBuf) : tasksBuf'[i] = tasksBuf[i]
            /\ tasksBuf'[Len(tasksBuf) + 1] = added + 1
        BY <1>1 DEF addTask
      <3>4. First \in Nat \ {0} /\ Taken \in Int /\ Len(tasksBuf) \in Nat
        BY <1>0 DEF First, Taken, RestLen, TypeOK
      <3>5. First' <= Len(tasksBuf') + 1 /\ Taken' + Len(tasksBuf') - First' + 1 = added'
        <4>1. First <= Len(tasksBuf) + 1 /\ Taken + Len(tasksBuf) - First + 1 = added
          BY DEF IInv, BufInv
        <4>2. Len(tasksBuf') = Len(tasksBuf) + 1
          BY <3>3
        <4> QED BY <3>1, <3>4, <4>1, <4>2
      <3>6. ASSUME NEW i \in First'..Len(tasksBuf')
            PROVE  tasksBuf'[i] = Taken' + (i - First') + 1
        <4>1. CASE i \in First..Len(tasksBuf)
          BY <3>1, <3>3, <3>4 DEF IInv, BufInv
        <4>2. CASE i = Len(tasksBuf) + 1
          BY <3>1, <3>3, <3>4 DEF IInv, BufInv
        <4> QED BY <3>1, <3>3, <4>1, <4>2
      <3> QED BY <3>5, <3>6 DEF BufInv
    <2>4. CloseInv'
      BY <1>1 DEF addTask, IInv, CloseInv
    <2> QED BY <1>0, <2>1, <2>2, <2>3, <2>4 DEF IInv
  <1>2. CASE Close
    <2>1. ExecutedInv'
      BY <1>2 DEF Close, IInv, ExecutedInv
    <2>2. TasksInv'
      BY <1>2 DEF Close, IInv, TasksInv
    <2>3. BufInv'
      BY <1>2 DEF Close, IInv, BufInv, First, Taken, RestLen
    <2>4. CloseInv'
      BY <1>2 DEF Close, IInv, CloseInv
    <2> QED BY <1>0, <2>1, <2>2, <2>3, <2>4 DEF IInv
  <1>3. CASE CloseReturn
    <2>1. ExecutedInv'
      BY <1>3 DEF CloseReturn, IInv, ExecutedInv
    <2>2. TasksInv'
      BY <1>3 DEF CloseReturn, IInv, TasksInv
    <2>3. BufInv'
      BY <1>3 DEF CloseReturn, IInv, BufInv, First, Taken, RestLen
    <2>4. CloseInv'
      BY <1>3 DEF CloseReturn, IInv, CloseInv
    <2> QED BY <1>0, <2>1, <2>2, <2>3, <2>4 DEF IInv
  <1>4. CASE LoopTop
    <2>1. ExecutedInv'
      BY <1>4 DEF LoopTop, IInv, ExecutedInv
    <2>2. TasksInv'
      BY <1>4 DEF LoopTop, Go, IInv, TasksInv
    <2>3. BufInv'
      BY <1>4 DEF LoopTop, Go, IInv, BufInv, First, Taken, RestLen
    <2>4. CloseInv'
      BY <1>4 DEF LoopTop, Go, IInv, CloseInv
    <2> QED BY <1>0, <2>1, <2>2, <2>3, <2>4 DEF IInv
  <1>5. CASE Peek
    <2>1. ExecutedInv'
      BY <1>5 DEF Peek, IInv, ExecutedInv
    <2>2. TasksInv'
      BY <1>5 DEF Peek, Go, IInv, TasksInv
    <2>3. BufInv'
      BY <1>5 DEF Peek, Go, IInv, BufInv, First, Taken, RestLen
    <2>4. CloseInv'
      BY <1>5 DEF Peek, Go, IInv, CloseInv
    <2> QED BY <1>0, <2>1, <2>2, <2>3, <2>4 DEF IInv
  <1>6. CASE Take
    <2>1. ExecutedInv'
      BY <1>6 DEF Take, IInv, ExecutedInv
    <2>2. TasksInv'
      BY <1>6 DEF Take, Go, IInv, TasksInv, BufInv, First, Taken, RestLen
    <2>3. BufInv'
      <3>1. at = 1 /\ tasks = <<>>
        BY <1>6 DEF Take, Go, IInv, TasksInv
      <3>3. First = 1 /\ First' = 1 /\ Taken = Len(executed)
        BY <1>6 DEF Take, Go, First, Taken, RestLen
      <3>4. Taken' = Len(executed) + Len(tasksBuf)
        BY <1>6, <3>1 DEF Take, Go, Taken, RestLen
      <3>5. Len(executed) + Len(tasksBuf) = added
        BY <3>3 DEF IInv, BufInv
      <3> QED BY <1>6, <3>3, <3>4, <3>5 DEF Take, BufInv
    <2>4. CloseInv'
      BY <1>6 DEF Take, Go, IInv, CloseInv
    <2> QED BY <1>0, <2>1, <2>2, <2>3, <2>4 DEF IInv
  <1>7. CASE Work
    <2>1. ExecutedInv'
      BY <1>7 DEF Work, IInv, TypeOK, ExecutedInv, TasksInv
    <2>2. TasksInv'
      BY <1>7 DEF Work, IInv, TypeOK, TasksInv
    <2>3. BufInv'
      BY <1>7 DEF Work, IInv, TypeOK, BufInv, First, Taken, RestLen
    <2>4. CloseInv'
      BY <1>7 DEF Work, IInv, CloseInv
    <2> QED BY <1>0, <2>1, <2>2, <2>3, <2>4 DEF IInv
  <1>8. CASE WorkEnds
    <2>1. ExecutedInv'
      BY <1>8 DEF WorkEnds, IInv, ExecutedInv
    <2>2. TasksInv'
      BY <1>8 DEF WorkEnds, Go, TasksInv
    <2>3. BufInv'
      <3>1. at = Len(tasks) + 1
        BY <1>8 DEF WorkEnds, Go, IInv, TasksInv, TypeOK
      <3>2. First' = First /\ Taken' = Taken
        BY <1>8, <3>1 DEF WorkEnds, Go, First, Taken, RestLen
      <3> QED BY <1>8, <3>2 DEF WorkEnds, IInv, BufInv
    <2>4. CloseInv'
      BY <1>8 DEF WorkEnds, Go, IInv, CloseInv
    <2> QED BY <1>0, <2>1, <2>2, <2>3, <2>4 DEF IInv
  <1>9. CASE Drain
    <2>1. ExecutedInv'
      BY <1>9 DEF Drain, IInv, TypeOK, ExecutedInv, BufInv, First, Taken, RestLen
    <2>2. TasksInv'
      BY <1>9 DEF Drain, IInv, TasksInv
    <2>3. BufInv'
      <3>1. First = at /\ First' = at + 1 /\ Taken = Len(executed)
        BY <1>9 DEF Drain, First, Taken, RestLen
      <3>2. Taken' = Len(executed) + 1
        BY <1>9 DEF Drain, Taken, RestLen
      <3>3. UNCHANGED <<tasksBuf, added>> /\ at <= Len(tasksBuf)
        BY <1>9 DEF Drain
      <3> QED BY <3>1, <3>2, <3>3 DEF IInv, BufInv, TypeOK
    <2>4. CloseInv'
      BY <1>9 DEF Drain, IInv, CloseInv
    <2> QED BY <1>0, <2>1, <2>2, <2>3, <2>4 DEF IInv
  <1>10. CASE DrainEnds
    <2>1. ExecutedInv'
      BY <1>10 DEF DrainEnds, IInv, ExecutedInv
    <2>2. TasksInv'
      BY <1>10 DEF DrainEnds, Go, IInv, TasksInv
    <2>3. BufInv'
      BY <1>10 DEF DrainEnds, Go, IInv, BufInv, First, Taken, RestLen
    <2>4. CloseInv'
      BY <1>10 DEF DrainEnds, Go, IInv, TypeOK, BufInv, CloseInv, First, Taken,
         RestLen
    <2> QED BY <1>0, <2>1, <2>2, <2>3, <2>4 DEF IInv
  <1>11. CASE UNCHANGED vars
    BY <1>11 DEF vars, IInv, TypeOK, ExecutedInv, TasksInv, BufInv, CloseInv, First,
       Taken, RestLen
  <1> QED BY <1>1, <1>2, <1>3, <1>4, <1>5, <1>6, <1>7, <1>8, <1>9, <1>10, <1>11 DEF
             Next, Worker

THEOREM TaskInvariance == Spec => []IInv
  BY InitInv, NextInv, PTL DEF Spec

\* Types; no more tasks are run than were added, however many there are.
THEOREM TaskTypes == Spec => []TypeOK
  <1>1. IInv => TypeOK
    BY DEF IInv
  <1> QED BY <1>1, TaskInvariance, PTL

\* The log has every line written before the program closed it
\* (CELLTask.hpp:80-84), however many lines there are.
THEOREM CloseAlwaysFlushes == Spec => []CloseFlushes
  <1>1. IInv => CloseFlushes
    BY DEF IInv, CloseInv, CloseFlushes
  <1> QED BY <1>1, TaskInvariance, PTL

\* Two stretches of numbers, one continuing the other.
LEMMA ConcatStretch ==
  ASSUME NEW S, NEW s \in Seq(S), NEW r \in Seq(S),
         \A i \in 1..Len(s) : s[i] = i,
         \A i \in 1..Len(r) : r[i] = Len(s) + i
  PROVE  /\ s \o r \in Seq(S)
         /\ Len(s \o r) = Len(s) + Len(r)
         /\ \A i \in 1..Len(s \o r) : (s \o r)[i] = i
  <1>3. ASSUME NEW i \in 1..Len(s) + Len(r), ~(i <= Len(s))
        PROVE  r[i - Len(s)] = i
    <2>1. i - Len(s) \in 1..Len(r)
      BY <1>3
    <2> QED BY <2>1
  <1> QED BY <1>3

\* The tail of a sequence from one of its places on, or from just after it.
LEMMA TailFrom ==
  ASSUME NEW S, NEW s \in Seq(S), NEW m \in Nat \ {0}, m <= Len(s) + 1
  PROVE  /\ SubSeq(s, m, Len(s)) \in Seq(S)
         /\ Len(SubSeq(s, m, Len(s))) = Len(s) - m + 1
         /\ \A i \in 1..Len(s) - m + 1 : SubSeq(s, m, Len(s))[i] = s[m + i - 1]
  <1> QED BY SubSeqProperties

\* Every task is run once and in order (CELLTask.hpp:52-86).
THEOREM TasksKeepTheirOrder == Spec => []NoTaskLost
  <1>1. IInv => NoTaskLost
    <2> SUFFICES ASSUME IInv PROVE NoTaskLost
      OBVIOUS
    <2>0. /\ executed \in Seq(1..added) /\ tasks \in Seq(1..added)
          /\ tasksBuf \in Seq(1..added) /\ at \in Nat \ {0} /\ added \in Nat
          /\ Len(executed) \in Nat /\ Len(tasks) \in Nat /\ Len(tasksBuf) \in Nat
      BY DEF IInv, TypeOK
    <2>1. /\ Rest \in Seq(1..added) /\ Len(Rest) = RestLen /\ RestLen \in Nat
          /\ \A i \in 1..Len(Rest) : Rest[i] = Len(executed) + i
      <3>1. CASE wpc = "work"
        <4>1. /\ Rest \in Seq(1..added)
              /\ Len(Rest) = Len(tasks) - at + 1
              /\ \A i \in 1..Len(tasks) - at + 1 : Rest[i] = tasks[at + i - 1]
          BY <2>0, <3>1, SMTT(30) DEF Rest, IInv, TasksInv
        <4>2. RestLen = Len(tasks) - at + 1 /\ RestLen \in Nat
          BY <2>0, <3>1 DEF RestLen, IInv, TasksInv
        <4>3. ASSUME NEW i \in 1..Len(tasks) - at + 1
              PROVE  tasks[at + i - 1] = Len(executed) + i
          <5> QED BY <2>0 DEF IInv, TasksInv
        <4> QED BY <4>1, <4>2, <4>3
      <3>2. CASE wpc # "work"
        BY <3>2 DEF Rest, RestLen
      <3> QED BY <3>1, <3>2
    <2>2. /\ Left \in Seq(1..added) /\ Len(Left) = added - Taken
          /\ \A i \in 1..Len(Left) : Left[i] = Taken + i
      <3>1. Taken \in Nat /\ First \in Nat \ {0}
        BY <2>0, <2>1 DEF Taken, First
      <3>2. /\ First <= Len(tasksBuf) + 1
            /\ Len(tasksBuf) - First + 1 = added - Taken
            /\ \A i \in First..Len(tasksBuf) : tasksBuf[i] = Taken + (i - First) + 1
        BY <3>1 DEF IInv, BufInv
      <3>3. Left = SubSeq(tasksBuf, First, Len(tasksBuf))
        <4>1. SubSeq(tasksBuf, 1, Len(tasksBuf)) = tasksBuf
          BY <2>0
        <4> QED BY <4>1 DEF Left, First
      <3>4. /\ Left \in Seq(1..added)
            /\ Len(Left) = Len(tasksBuf) - First + 1
            /\ \A i \in 1..Len(tasksBuf) - First + 1 : Left[i] = tasksBuf[First + i - 1]
        BY <2>0, <3>1, <3>2, <3>3, TailFrom
      <3>5. ASSUME NEW i \in 1..Len(tasksBuf) - First + 1
            PROVE  tasksBuf[First + i - 1] = Taken + i
        <4> QED BY <3>1, <3>2
      <3> QED BY <3>2, <3>4, <3>5
    <2> DEFINE ran == executed \o Rest
               all == ran \o Left
    <2>3. /\ ran \in Seq(1..added) /\ Len(ran) = Taken
          /\ \A i \in 1..Len(ran) : ran[i] = i
      BY <2>0, <2>1, ConcatStretch DEF IInv, ExecutedInv, Taken
    <2> HIDE DEF ran
    <2>4. /\ all \in Seq(1..added) /\ Len(all) = added
          /\ \A i \in 1..Len(all) : all[i] = i
      <3>2. /\ all \in Seq(1..added) /\ Len(all) = Len(ran) + Len(Left)
            /\ \A i \in 1..Len(all) : all[i] = i
        BY <2>2, <2>3
      <3> QED BY <2>0, <2>2, <2>3, <3>2
    <2>5. all = [n \in 1..added |-> n]
      <3> HIDE DEF all
      <3> QED BY <2>4
    <2> QED BY <2>5 DEF NoTaskLost, ran
  <1> QED BY <1>1, TaskInvariance, PTL

-----------------------------------------------------------------------------
(* CELLLog *)

\* What the task server has run since the file was opened is in it; before
\* setLogPath() there is nothing, and the destructor has added a line of its
\* own after the worker's end.
FileInv ==
  /\ alive = "new" => added = 0 /\ logFile = "null" /\ lines = <<>>
  /\ logFile \in {"open", "closed"} => lines = executed
  /\ logFile = "closed" => alive = "destroyed"
  /\ alive = "destroyed" => owner = "closed"
  /\ alive = "destroyed" /\ logFile = "closed" => Len(executed) < added

LogInv == IInv /\ FileInv

\* Each step of the log is a step of its task server or leaves it alone.
LEMMA LogSteps == [LogNext]_<<vars, logVars>> => [Next]_vars
  <1> SUFFICES ASSUME [LogNext]_<<vars, logVars>> PROVE [Next]_vars
    OBVIOUS
  <1>1. CASE setLogPath \/ Echo \/ LogClose \/ LogCloseReturn
    BY <1>1 DEF setLogPath, Echo, LogClose, LogCloseReturn, Next
  <1>2. CASE LogEnds
    BY <1>2 DEF LogEnds, Next
  <1>3. CASE LogWorker
    BY <1>3 DEF LogWorker, Next, Worker
  <1>4. CASE UNCHANGED <<vars, logVars>>
    BY <1>4
  <1> QED BY <1>1, <1>2, <1>3, <1>4 DEF LogNext

LEMMA LogInitInv == LogInit => LogInv
  BY InitInv DEF LogInit, LogInv, Init, FileInv

LEMMA LogNextInv == LogInv /\ [LogNext]_<<vars, logVars>> => LogInv'
  <1> SUFFICES ASSUME LogInv, [LogNext]_<<vars, logVars>> PROVE FileInv'
    BY LogSteps, NextInv DEF LogInv
  <1>1. CASE setLogPath
    <2>1. executed = <<>>
      BY <1>1 DEF setLogPath, LogInv, FileInv, IInv, TypeOK
    <2> QED BY <1>1, <2>1 DEF setLogPath, addTask, LogInv, FileInv
  <1>2. CASE Echo
    BY <1>2 DEF Echo, addTask, logVars, LogInv, FileInv
  <1>3. CASE LogClose
    BY <1>3 DEF LogClose, Close, logVars, LogInv, FileInv
  <1>4. CASE LogCloseReturn
    BY <1>4 DEF LogCloseReturn, CloseReturn, logVars, LogInv, FileInv
  <1>5. CASE LogEnds
    <2>1. added \in Nat /\ Len(executed) \in Nat /\ Len(executed) <= added
      BY DEF LogInv, IInv, TypeOK
    <2> QED BY <1>5, <2>1 DEF LogEnds, addTask, vars, LogInv, FileInv
  <1>6. CASE LogWorker
    <2>1. CASE (Work \/ Drain) /\ EchoReal
      <3>1. owner # "closed"
        BY <2>1 DEF Work, Drain, LogInv, IInv, CloseInv
      <3>2. PICK n : executed' = Append(executed, n)
        BY <2>1 DEF Work, Drain
      <3>3. executed'[Len(executed')] = n
        BY <3>2 DEF LogInv, IInv, TypeOK
      <3>4. UNCHANGED <<owner, added>> /\ added # 0
        BY <2>1 DEF Work, Drain, LogInv, IInv, TypeOK
      <3> QED BY <2>1, <3>1, <3>2, <3>3, <3>4 DEF EchoReal, LogInv, FileInv
    <2>2. CASE (LoopTop \/ Peek \/ Take \/ WorkEnds \/ DrainEnds) /\ UNCHANGED logVars
      <3>1. UNCHANGED <<owner, added, executed>>
        BY <2>2 DEF LoopTop, Peek, Take, WorkEnds, DrainEnds
      <3> QED BY <2>2, <3>1 DEF logVars, LogInv, FileInv
    <2> QED BY <1>6, <2>1, <2>2 DEF LogWorker
  <1>7. CASE UNCHANGED <<vars, logVars>>
    BY <1>7 DEF vars, logVars, LogInv, FileInv
  <1> QED BY <1>1, <1>2, <1>3, <1>4, <1>5, <1>6, <1>7 DEF LogNext

\* The log is a client of the task server that keeps to its rules: what is
\* proved of the one holds in the other (CELLLog.hpp:52-195).
THEOREM LogUsesTaskServer == LogSpec => Spec
  <1>1. LogInit => Init
    BY DEF LogInit
  <1> QED BY <1>1, LogSteps, PTL DEF LogSpec, Spec

\* The file has every line of the run, in order, up to the destructor's own
\* (CELLLog.hpp:35-43), however many there are.
THEOREM FileAlwaysComplete == LogSpec => []FileIsComplete
  <1>1. LogInv => FileIsComplete
    <2> SUFFICES ASSUME LogInv, alive = "destroyed", logFile = "closed"
                 PROVE  /\ Len(lines) \in before..added - 1
                        /\ lines = [n \in 1..Len(lines) |-> n]
      BY DEF FileIsComplete
    <2>1. lines = executed /\ owner = "closed" /\ Len(executed) < added
      BY DEF LogInv, FileInv
    <2>2. /\ executed \in Seq(1..added) /\ added \in Nat /\ before \in Nat
          /\ \A n \in 1..Len(executed) : executed[n] = n
      BY DEF LogInv, IInv, TypeOK, ExecutedInv
    <2>3. before <= Len(executed)
      BY <2>1, <2>2 DEF LogInv, IInv, CloseInv
    <2> QED BY <2>1, <2>2, <2>3
  <1> QED BY <1>1, LogInitInv, LogNextInv, PTL DEF LogSpec
==============================================================================
