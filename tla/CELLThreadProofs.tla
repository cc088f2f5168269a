-------------------------- MODULE CELLThreadProofs ---------------------------
(***************************************************************************)
(* Safety of CELLThread for any finite set of callers and any number of    *)
(* restarts: in plain use Close() is a join and the flag is faithful, and  *)
(* in any use a blocked Close() has a post to come.                        *)
(*                                                                         *)
(* The invariant counts: the semaphore holds at most one permit per worker *)
(* that has posted (PermitsFromPosts), and at most one Close() ever waits  *)
(* for each worker (WaitsFromStarts).                                      *)
(***************************************************************************)
EXTENDS CELLThread, FiniteSetTheorems, TLAPS

InClose == {"test", "wait", "blocked", "unlock"}

\* The workers that have called wakeup().
Posted == {w \in Workers : wpc[w] \in {"clear", "done"}}
NPosted == Cardinality(Posted)

SomeBlocked == \E c \in Callers : cpc[c] = "blocked"
SomeClosing == isRun \/ \E c \in Callers : cpc[c] = "wait"

\* The mutex is held by the caller inside Close(), and by nobody else; from
\* the moment Close() has cleared the flag nobody sets it again.
MutexInv ==
  /\ \A c \in Callers : c \in mutex <=> cpc[c] \in InClose
  /\ \A c, d \in mutex : c = d
  /\ \A c \in Callers : cpc[c] \in {"wait", "blocked", "unlock"} => ~isRun

LifeInv == \A w \in Workers : wpc[w] = "unborn" <=> w > life

\* At most the closing caller is in the semaphore, so the two counters have
\* few values.
BlockedInv ==
  /\ \A c \in Callers : cpc[c] = "blocked" <=> c \in asleep \cup awake
  /\ asleep \cap awake = {}
  /\ ~SomeBlocked => semWait >= 0 /\ semWakeup = 0
  /\ SomeBlocked => \/ semWait = -1 /\ semWakeup = 0
                    \/ semWait >= 0 /\ semWakeup = 1

PermitsFromPosts == semWait + (IF SomeBlocked THEN 1 ELSE 0) <= NPosted

WaitsFromStarts == semWait >= NPosted - life + (IF SomeClosing THEN 1 ELSE 0)

\* In plain use a worker that has not posted yet is still to be waited for.
PlainInv ==
  PlainUse => /\ wpc[1] # "exit"
              /\ wpc[1] \in {"run", "destroy", "wake"} =>
                   isRun \/ \E c \in Callers : cpc[c] \in {"wait", "blocked"}

ThreadInv ==
  /\ TypeOK
  /\ MutexInv
  /\ LifeInv
  /\ BlockedInv
  /\ PermitsFromPosts
  /\ WaitsFromStarts
  /\ PlainInv

-----------------------------------------------------------------------------
LEMMA PostedFinite ==
  /\ IsFiniteSet(Posted) /\ NPosted \in Nat
  /\ NPosted > 0 => \E w \in Workers : wpc[w] \in {"clear", "done"}
  <1>1. IsFiniteSet(Workers)
    BY FS_Interval, ThreadAssumption DEF Workers, ThreadAssumption
  <1>2. IsFiniteSet(Posted) /\ NPosted \in Nat
    BY <1>1, FS_Subset, FS_CardinalityType DEF Posted, NPosted
  <1>3. NPosted > 0 => Posted # {}
    BY FS_EmptySet DEF NPosted
  <1> QED BY <1>2, <1>3 DEF Posted

\* Fewer posts than starts: some worker that was started has not posted.
LEMMA SomebodyLeft ==
  ASSUME TypeOK, LifeInv, NPosted < life
  PROVE  \E w \in Workers : wpc[w] \in {"run", "exit", "destroy", "wake"}
  <1>1. life \in Nat /\ 1..life \subseteq Workers
    BY ThreadAssumption DEF TypeOK, Workers, ThreadAssumption
  <1>2. IsFiniteSet(1..life) /\ Cardinality(1..life) = life
    BY <1>1, FS_Interval
  <1>3. ~(1..life \subseteq Posted)
    <2>1. SUFFICES ASSUME 1..life \subseteq Posted PROVE FALSE
      OBVIOUS
    <2>2. Cardinality(1..life) <= NPosted
      BY <2>1, PostedFinite, FS_Subset DEF NPosted
    <2> QED BY <1>1, <1>2, <2>2, PostedFinite
  <1>4. PICK w \in 1..life : w \notin Posted
    BY <1>3
  <1>5. w \in Workers /\ wpc[w] # "unborn"
    BY <1>1, <1>4 DEF LifeInv, Workers
  <1> QED BY <1>4, <1>5 DEF Posted, TypeOK

\* With one life at most, the worker that has posted is the first one.
LEMMA PostedIsFirst ==
  ASSUME TypeOK, LifeInv, life <= 1, NPosted > 0
  PROVE  wpc[1] \in {"clear", "done"}
  <1>1. PICK w \in Workers : wpc[w] \in {"clear", "done"}
    BY PostedFinite
  <1>2. w = 1
    BY <1>1 DEF LifeInv, TypeOK, Workers
  <1> QED BY <1>1, <1>2

LEMMA InvInit == Init => ThreadInv
  <1> SUFFICES ASSUME Init PROVE ThreadInv
    OBVIOUS
  <1>1. /\ \A w \in Workers : wpc[w] = "unborn"
        /\ \A c \in Callers : cpc[c] = "idle"
        /\ 1 \in Workers
    BY ThreadAssumption DEF Init, Workers, ThreadAssumption
  <1>2. /\ isRun = FALSE /\ mutex = {} /\ life = 0 /\ exited = FALSE
        /\ semWait = 0 /\ semWakeup = 0 /\ asleep = {} /\ awake = {}
    BY DEF Init, Sem!SemInit
  <1>3. TypeOK
    <2>1. wpc \in [Workers ->
                     {"unborn", "run", "exit", "destroy", "wake", "clear", "done"}]
      BY DEF Init
    <2>2. cpc \in [Callers -> {"idle", "test", "wait", "blocked", "unlock"}]
      BY DEF Init
    <2>3. isRun \in BOOLEAN /\ exited \in BOOLEAN
      BY <1>2, Zenon
    <2>4. life \in 0..MaxLives /\ semWait \in Int /\ semWakeup \in Nat
      BY <1>2, ThreadAssumption DEF ThreadAssumption
    <2>5. mutex \subseteq Callers /\ asleep \subseteq Callers /\ awake \subseteq Callers
      BY <1>2
    <2> QED BY <2>1, <2>2, <2>3, <2>4, <2>5 DEF TypeOK
  <1>4. MutexInv /\ LifeInv /\ PlainInv
    BY <1>1, <1>2 DEF MutexInv, LifeInv, PlainInv, InClose, Workers
  <1>5. BlockedInv
    BY <1>1, <1>2 DEF BlockedInv, SomeBlocked
  <1>6. NPosted = 0
    BY <1>1, FS_EmptySet DEF Posted, NPosted
  <1>7. PermitsFromPosts /\ WaitsFromStarts
    BY <1>1, <1>2, <1>6 DEF PermitsFromPosts, WaitsFromStarts, SomeBlocked, SomeClosing
  <1> QED BY <1>3, <1>4, <1>5, <1>7 DEF ThreadInv

LEMMA InvImpliesSafety ==
  ThreadInv => CloseJoins /\ FlagIsFaithful /\ JoinIsPending
  <1> SUFFICES ASSUME ThreadInv PROVE CloseJoins /\ FlagIsFaithful /\ JoinIsPending
    OBVIOUS
  <1>1. ASSUME PlainUse, NEW w \in Workers, wpc[w] # "unborn" PROVE w = 1
    BY <1>1 DEF PlainUse, ThreadInv, LifeInv, TypeOK, Workers
  <1>2. CloseJoins
    <2> SUFFICES ASSUME PlainUse, NEW c \in Callers, cpc[c] = "unlock",
                        NEW w \in Workers, wpc[w] # "unborn"
                 PROVE  wpc[w] \in {"clear", "done"}
      BY DEF CloseJoins, Joined
    <2>1. ~isRun /\ \A d \in Callers : cpc[d] \notin {"wait", "blocked"}
      BY DEF ThreadInv, MutexInv, InClose
    <2> QED BY <1>1, <2>1 DEF ThreadInv, PlainInv, TypeOK
  <1>3. FlagIsFaithful
    BY <1>1 DEF FlagIsFaithful, Faithful, ThreadInv, PlainInv
  <1>4. JoinIsPending
    <2> SUFFICES ASSUME NEW c \in Callers, cpc[c] = "blocked", ~(semWakeup > 0)
                 PROVE  \E w \in Workers : wpc[w] \in {"run", "exit", "destroy", "wake"}
      BY DEF JoinIsPending
    <2>1. semWait = -1
      BY DEF ThreadInv, BlockedInv, SomeBlocked
    <2>2. NPosted < life
      BY <2>1, PostedFinite DEF ThreadInv, TypeOK, WaitsFromStarts
    <2> QED BY <2>2, SomebodyLeft DEF ThreadInv
  <1> QED BY <1>2, <1>3, <1>4

-----------------------------------------------------------------------------
(* The steps of a caller *)

\* A caller inside Close() is the only one.
LEMMA Alone ==
  ASSUME ThreadInv, NEW c \in Callers, cpc[c] \in InClose
  PROVE  mutex = {c} /\ \A d \in Callers : d # c => cpc[d] = "idle"
  BY DEF ThreadInv, TypeOK, MutexInv, InClose

LEMMA StartStep ==
  ASSUME ThreadInv, NEW c \in Callers, Start(c) PROVE ThreadInv'
  <1> USE DEF ThreadInv, Start, semVars
  <1>1. \A d \in Callers : cpc[d] = "idle"
    BY DEF TypeOK, MutexInv, InClose
  <1>2. life + 1 \in Workers /\ life \in Nat /\ life' = life + 1
    BY ThreadAssumption DEF TypeOK, Workers, ThreadAssumption
  <1>3. \A w \in Workers : wpc'[w] = IF w = life + 1 THEN "run" ELSE wpc[w]
    BY <1>2 DEF TypeOK
  <1>4. TypeOK'
    <2>1. wpc' \in [Workers ->
                      {"unborn", "run", "exit", "destroy", "wake", "clear", "done"}]
      BY <1>2 DEF TypeOK
    <2>2. life' \in 0..MaxLives
      BY <1>2 DEF Workers
    <2> QED BY <2>1, <2>2 DEF TypeOK
  <1>5. MutexInv' /\ LifeInv'
    BY <1>1, <1>2, <1>3 DEF MutexInv, LifeInv, InClose, Workers
  <1>6. BlockedInv'
    BY <1>1 DEF BlockedInv, SomeBlocked
  <1>7. Posted' = Posted /\ NPosted' = NPosted
    <2>1. wpc[life + 1] = "unborn"
      BY <1>2 DEF LifeInv
    <2> QED BY <1>3, <2>1 DEF Posted, NPosted
  <1>8. PermitsFromPosts' /\ WaitsFromStarts'
    BY <1>1, <1>2, <1>7, PostedFinite
       DEF TypeOK, PermitsFromPosts, WaitsFromStarts, SomeBlocked, SomeClosing
  <1>9. PlainInv'
    BY <1>2, <1>3 DEF PlainInv, PlainUse, Workers
  <1> QED BY <1>4, <1>5, <1>6, <1>8, <1>9

LEMMA CloseStep ==
  ASSUME ThreadInv, NEW c \in Callers,
         CloseLock(c) \/ CloseTest(c) \/ CloseSkip(c) \/ CloseReturn(c)
  PROVE  ThreadInv'
  <1> USE DEF ThreadInv, semVars, GoCaller
  <1>1. /\ UNCHANGED <<life, wpc, exited, semWait, semWakeup, asleep, awake>>
        /\ NPosted' = NPosted /\ NPosted \in Nat
        /\ isRun' \in BOOLEAN /\ mutex' \subseteq Callers
        /\ cpc' \in [Callers -> {"idle", "test", "wait", "blocked", "unlock"}]
    BY PostedFinite DEF CloseLock, CloseTest, CloseSkip, CloseReturn, NPosted, Posted, TypeOK
  <1>2. TypeOK' /\ LifeInv'
    BY <1>1 DEF TypeOK, LifeInv
  <1>3. CASE CloseLock(c)
    <2>1. MutexInv'
      BY <1>3 DEF CloseLock, TypeOK, MutexInv, InClose
    <2>2. BlockedInv' /\ PermitsFromPosts' /\ WaitsFromStarts' /\ PlainInv'
      BY <1>1, <1>3 DEF CloseLock, TypeOK, BlockedInv, PermitsFromPosts,
           WaitsFromStarts, PlainInv, PlainUse, SomeBlocked, SomeClosing
    <2> QED BY <1>2, <2>1, <2>2
  <1>4. CASE CloseTest(c)
    <2>1. mutex = {c} /\ \A d \in Callers : d # c => cpc[d] = "idle"
      BY <1>4, Alone DEF CloseTest, InClose
    <2>2. isRun /\ cpc[c] = "test" /\ ~isRun' /\ cpc' = [cpc EXCEPT ![c] = "wait"]
          /\ mutex' = mutex
      BY <1>4 DEF CloseTest
    <2>3. ~SomeBlocked /\ ~SomeBlocked' /\ SomeClosing /\ SomeClosing'
      BY <2>1, <2>2 DEF SomeBlocked, SomeClosing, TypeOK
    <2>4. MutexInv'
      BY <2>1, <2>2 DEF TypeOK, MutexInv, InClose
    <2>5. BlockedInv' /\ PermitsFromPosts' /\ WaitsFromStarts'
      BY <1>1, <2>1, <2>2, <2>3 DEF TypeOK, BlockedInv, PermitsFromPosts, WaitsFromStarts
    <2>6. PlainInv'
      BY <1>1, <2>2 DEF TypeOK, PlainInv, PlainUse
    <2> QED BY <1>2, <2>4, <2>5, <2>6
  <1>5. CASE CloseSkip(c) \/ CloseReturn(c)
    <2>1. mutex = {c} /\ \A d \in Callers : d # c => cpc[d] = "idle"
      BY <1>5, Alone DEF CloseSkip, CloseReturn, InClose
    <2>2. MutexInv'
      BY <1>5, <2>1 DEF CloseSkip, CloseReturn, TypeOK, MutexInv, InClose
    <2>3. BlockedInv' /\ PermitsFromPosts' /\ WaitsFromStarts' /\ PlainInv'
      BY <1>1, <1>5, <2>1 DEF CloseSkip, CloseReturn, TypeOK, BlockedInv,
           PermitsFromPosts, WaitsFromStarts, PlainInv, PlainUse, SomeBlocked, SomeClosing
    <2> QED BY <1>2, <2>2, <2>3
  <1> QED BY <1>3, <1>4, <1>5

LEMMA WaitStep ==
  ASSUME ThreadInv, NEW c \in Callers, CloseWait(c) PROVE ThreadInv'
  <1> USE DEF ThreadInv, CloseWait, GoCaller
  <1>1. /\ cpc[c] = "wait" /\ mutex = {c} /\ ~isRun
        /\ \A d \in Callers : d # c => cpc[d] = "idle"
    BY Alone DEF InClose, MutexInv
  <1>2. /\ ~SomeBlocked /\ SomeClosing /\ semWait >= 0 /\ semWakeup = 0
        /\ asleep = {} /\ awake = {}
    BY <1>1 DEF SomeBlocked, SomeClosing, BlockedInv, TypeOK
  <1>3. NPosted' = NPosted /\ NPosted \in Nat
    BY PostedFinite DEF NPosted, Posted
  <1>4. CASE semWait > 0
    <2>1. /\ cpc' = [cpc EXCEPT ![c] = "unlock"] /\ semWait' = semWait - 1
          /\ UNCHANGED <<isRun, mutex, life, wpc, exited, semWakeup, asleep, awake>>
      BY <1>2, <1>4 DEF Sem!WaitPass, Sem!WaitTake, Sem!WaitSleep, TypeOK
    <2>2. ~SomeBlocked' /\ ~SomeClosing'
      BY <1>1, <2>1 DEF SomeBlocked, SomeClosing, TypeOK
    <2>3. TypeOK' /\ MutexInv' /\ LifeInv'
      BY <1>1, <2>1 DEF TypeOK, MutexInv, LifeInv, InClose
    <2>4. BlockedInv' /\ PermitsFromPosts' /\ WaitsFromStarts'
      BY <1>1, <1>2, <1>3, <1>4, <2>1, <2>2
         DEF TypeOK, BlockedInv, PermitsFromPosts, WaitsFromStarts
    <2>5. NPosted > 0
      BY <1>2, <1>3, <1>4 DEF PermitsFromPosts, TypeOK
    <2>6. PlainInv'
      BY <1>1, <2>1, <2>5, PostedIsFirst DEF PlainInv, PlainUse
    <2> QED BY <2>3, <2>4, <2>6
  <1>5. CASE semWait = 0
    <2>1. /\ cpc' = [cpc EXCEPT ![c] = "blocked"] /\ semWait' = -1
          /\ asleep' = {c} /\ awake' = {} /\ semWakeup' = 0
          /\ UNCHANGED <<isRun, mutex, life, wpc, exited>>
      BY <1>2, <1>5 DEF Sem!WaitPass, Sem!WaitTake, Sem!WaitSleep, TypeOK
    <2>2. SomeBlocked' /\ ~SomeClosing' /\ cpc'[c] = "blocked"
      BY <1>1, <2>1 DEF SomeBlocked, SomeClosing, TypeOK
    <2>3. TypeOK' /\ MutexInv' /\ LifeInv'
      BY <1>1, <2>1 DEF TypeOK, MutexInv, LifeInv, InClose
    <2>4. BlockedInv' /\ PermitsFromPosts' /\ WaitsFromStarts'
      BY <1>1, <1>2, <1>3, <1>5, <2>1, <2>2
         DEF TypeOK, BlockedInv, PermitsFromPosts, WaitsFromStarts
    <2>5. PlainInv'
      BY <1>1, <2>1, <2>2 DEF PlainInv, PlainUse
    <2> QED BY <2>3, <2>4, <2>5
  <1> QED BY <1>2, <1>4, <1>5 DEF TypeOK

LEMMA ResumeStep ==
  ASSUME ThreadInv, NEW c \in Callers, CloseResume(c) \/ CloseFalseWake(c)
  PROVE  ThreadInv'
  <1> USE DEF ThreadInv, semVars, threadVars, GoCaller
  <1>1. NPosted' = NPosted /\ NPosted \in Nat
    BY PostedFinite DEF CloseResume, CloseFalseWake, NPosted, Posted
  <1>2. CASE CloseResume(c)
    <2>1. /\ cpc[c] = "blocked" /\ mutex = {c} /\ ~isRun
          /\ \A d \in Callers : d # c => cpc[d] = "idle"
      BY <1>2, Alone DEF CloseResume, InClose, MutexInv
    <2>2. /\ c \in awake /\ semWakeup = 1 /\ semWait >= 0 /\ SomeBlocked /\ ~SomeClosing
      BY <1>2, <2>1 DEF CloseResume, Sem!Resume, SomeBlocked, SomeClosing, BlockedInv, TypeOK
    <2>3. /\ cpc' = [cpc EXCEPT ![c] = "unlock"] /\ semWakeup' = 0
          /\ awake' = awake \ {c}
          /\ UNCHANGED <<isRun, mutex, life, wpc, exited, semWait, asleep>>
      BY <1>2, <2>2 DEF CloseResume, Sem!Resume
    <2>4. asleep' = {} /\ awake' = {}
      BY <2>1, <2>2, <2>3 DEF BlockedInv, TypeOK
    <2>5. ~SomeBlocked' /\ ~SomeClosing'
      BY <2>1, <2>3 DEF SomeBlocked, SomeClosing, TypeOK
    <2>6. TypeOK' /\ MutexInv' /\ LifeInv'
      BY <2>1, <2>3, <2>4 DEF TypeOK, MutexInv, LifeInv, InClose
    <2>7. BlockedInv' /\ PermitsFromPosts' /\ WaitsFromStarts'
      BY <1>1, <2>1, <2>2, <2>3, <2>4, <2>5
         DEF TypeOK, BlockedInv, PermitsFromPosts, WaitsFromStarts, SomeBlocked
    <2>8. NPosted > 0
      BY <1>1, <2>2 DEF PermitsFromPosts, TypeOK
    <2>9. PlainInv'
      BY <2>1, <2>3, <2>8, PostedIsFirst DEF PlainInv, PlainUse
    <2> QED BY <2>6, <2>7, <2>9
  <1>3. CASE CloseFalseWake(c)
    <2>1. UNCHANGED <<isRun, mutex, life, wpc, cpc, exited, semWait, semWakeup>>
      BY <1>3 DEF CloseFalseWake, Sem!SleepAgain, Sem!SpuriousWake
    <2>2. /\ asleep' \cup awake' = asleep \cup awake /\ asleep' \cap awake' = {}
          /\ asleep' \subseteq Callers /\ awake' \subseteq Callers
      BY <1>3 DEF CloseFalseWake, Sem!SleepAgain, Sem!SpuriousWake, BlockedInv, TypeOK
    <2>3. TypeOK' /\ MutexInv' /\ LifeInv' /\ PlainInv'
      BY <2>1, <2>2 DEF TypeOK, MutexInv, LifeInv, PlainInv, PlainUse
    <2>4. BlockedInv' /\ PermitsFromPosts' /\ WaitsFromStarts'
      BY <1>1, <2>1, <2>2
         DEF BlockedInv, PermitsFromPosts, WaitsFromStarts, SomeBlocked, SomeClosing
    <2> QED BY <2>3, <2>4
  <1> QED BY <1>2, <1>3

-----------------------------------------------------------------------------
(* The steps of a worker *)

\* What a worker that moves was before: started, and in plain use the first.
LEMMA Moving ==
  ASSUME ThreadInv, NEW w \in Workers, wpc[w] # "unborn"
  PROVE  w <= life /\ life >= 1 /\ (PlainUse => w = 1)
  BY DEF ThreadInv, TypeOK, LifeInv, PlainUse, Workers

\* A move that neither posts nor touches the flag.
LEMMA QuietStep ==
  ASSUME ThreadInv, NEW w \in Workers,
         \/ RunStops(w) \/ RunReturns(w) \/ Destroyed(w)
         \/ ExitTest(w)
  PROVE  ThreadInv'
  <1> USE DEF ThreadInv, semVars, GoWorker
  <1>1. /\ wpc[w] \in {"run", "destroy"}
        /\ \E to \in {"exit", "destroy", "wake"} :
              /\ wpc' = [wpc EXCEPT ![w] = to]
              /\ to = "exit" => exited'
        /\ exited => exited'
        /\ exited' \in BOOLEAN
        /\ UNCHANGED <<isRun, mutex, life, cpc, semWait, semWakeup, asleep, awake>>
    <2>1. CASE ExitTest(w)
      <3>1. exited' \in BOOLEAN
        BY <2>1, Zenon DEF ExitTest
      <3>2. CASE isRun
        BY <2>1, <3>1, <3>2 DEF ExitTest
      <3>3. CASE ~isRun
        BY <2>1, <3>1, <3>3 DEF ExitTest
      <3> QED BY <3>2, <3>3
    <2>2. CASE RunStops(w) \/ RunReturns(w) \/ Destroyed(w)
      BY <2>2 DEF RunStops, RunReturns, Destroyed, TypeOK
    <2> QED BY <2>1, <2>2
  <1>2. PICK to \in {"exit", "destroy", "wake"} :
          wpc' = [wpc EXCEPT ![w] = to] /\ (to = "exit" => exited')
    BY <1>1
  <1>3. \A v \in Workers : wpc'[v] = IF v = w THEN to ELSE wpc[v]
    BY <1>2 DEF TypeOK
  <1>4. TypeOK'
    BY <1>1, <1>2 DEF TypeOK
  <1>5. MutexInv' /\ LifeInv' /\ BlockedInv'
    BY <1>1, <1>3 DEF MutexInv, LifeInv, BlockedInv, SomeBlocked
  <1>6. Posted' = Posted /\ NPosted' = NPosted
    BY <1>1, <1>3 DEF Posted, NPosted
  <1>7. PermitsFromPosts' /\ WaitsFromStarts'
    BY <1>1, <1>6 DEF PermitsFromPosts, WaitsFromStarts, SomeBlocked, SomeClosing
  <1>8. PlainInv'
    <2> SUFFICES ASSUME PlainUse' PROVE PlainInv'
      BY DEF PlainInv
    <2>1. PlainUse /\ w = 1 /\ to # "exit"
      BY <1>1, <1>2, Moving DEF PlainUse
    <2> QED BY <1>1, <1>3, <2>1 DEF PlainInv
  <1> QED BY <1>4, <1>5, <1>7, <1>8

LEMMA FlagStep ==
  ASSUME ThreadInv, NEW w \in Workers, ExitLocked(w) \/ Clear(w)
  PROVE  ThreadInv'
  <1> USE DEF ThreadInv, semVars, GoWorker
  <1>1. /\ wpc[w] \in {"exit", "clear"} /\ isRun' = FALSE
        /\ wpc' = [wpc EXCEPT ![w] = IF wpc[w] = "exit" THEN "destroy" ELSE "done"]
        /\ UNCHANGED <<mutex, life, cpc, exited, semWait, semWakeup, asleep, awake>>
    BY DEF ExitLocked, Clear
  <1>2. \A v \in Workers : wpc'[v] =
          IF v = w THEN (IF wpc[w] = "exit" THEN "destroy" ELSE "done") ELSE wpc[v]
    BY <1>1 DEF TypeOK
  <1>3. TypeOK'
    <2>1. isRun' \in BOOLEAN
      BY <1>1, Zenon
    <2> QED BY <1>1, <2>1 DEF TypeOK
  <1>4. MutexInv' /\ LifeInv' /\ BlockedInv'
    BY <1>1, <1>2 DEF MutexInv, LifeInv, BlockedInv, SomeBlocked
  <1>5. Posted' = Posted /\ NPosted' = NPosted /\ NPosted \in Nat
    BY <1>1, <1>2, PostedFinite DEF Posted, NPosted
  <1>6. SomeBlocked' = SomeBlocked /\ (SomeClosing' => SomeClosing)
    BY <1>1 DEF SomeBlocked, SomeClosing
  <1>7. PermitsFromPosts' /\ WaitsFromStarts'
    BY <1>1, <1>5, <1>6 DEF TypeOK, PermitsFromPosts, WaitsFromStarts
  <1>8. PlainInv'
    <2> SUFFICES ASSUME PlainUse' PROVE PlainInv'
      BY DEF PlainInv
    <2>1. PlainUse /\ w = 1 /\ wpc[1] = "clear"
      BY <1>1, Moving DEF PlainUse, PlainInv
    <2>2. wpc'[1] = "done"
      BY <1>2, <2>1
    <2> QED BY <2>2 DEF PlainInv
  <1> QED BY <1>3, <1>4, <1>7, <1>8

\* What wakeup() does when at most one caller is blocked.
LEMMA WakeEffect ==
  ASSUME ThreadInv, Sem!Wakeup, UNCHANGED cpc
  PROVE  /\ semWait' = semWait + 1
         /\ BlockedInv'
         /\ semWait' \in Int /\ semWakeup' \in Nat
         /\ asleep' \subseteq Callers /\ awake' \subseteq Callers
  <1> USE DEF ThreadInv
  <1>1. SomeBlocked' = SomeBlocked
    BY DEF SomeBlocked
  <1>2. CASE semWait + 1 <= 0
    <2>1. SomeBlocked /\ semWait = -1 /\ semWakeup = 0
      BY <1>2 DEF BlockedInv, TypeOK
    <2>2. semWait' = 0 /\ semWakeup' = 1 /\ Sem!NotifyOne
      BY <2>1 DEF Sem!Wakeup
    <2>3. /\ asleep' \cup awake' = asleep \cup awake /\ asleep' \cap awake' = {}
          /\ asleep' \subseteq Callers /\ awake' \subseteq Callers
      BY <2>2 DEF Sem!NotifyOne, BlockedInv, TypeOK
    <2> QED BY <1>1, <2>1, <2>2, <2>3 DEF BlockedInv
  <1>3. CASE ~(semWait + 1 <= 0)
    BY <1>1, <1>3 DEF Sem!Wakeup, BlockedInv, TypeOK
  <1> QED BY <1>2, <1>3

LEMMA WakeStep ==
  ASSUME ThreadInv, NEW w \in Workers, Wake(w) PROVE ThreadInv'
  <1> USE DEF ThreadInv, Wake, GoWorker
  <1>1. \A v \in Workers : wpc'[v] = IF v = w THEN "clear" ELSE wpc[v]
    BY DEF TypeOK
  <1>2. TypeOK' /\ BlockedInv' /\ semWait' = semWait + 1
    BY WakeEffect DEF TypeOK
  <1>3. MutexInv' /\ LifeInv'
    BY <1>1 DEF MutexInv, LifeInv
  <1>4. NPosted' = NPosted + 1 /\ NPosted \in Nat
    <2>1. Posted' = Posted \cup {w} /\ w \notin Posted
      BY <1>1 DEF Posted
    <2> QED BY <2>1, PostedFinite, FS_AddElement DEF NPosted
  <1>5. SomeBlocked' = SomeBlocked /\ SomeClosing' = SomeClosing
    BY DEF SomeBlocked, SomeClosing
  <1>6. PermitsFromPosts' /\ WaitsFromStarts'
    BY <1>2, <1>4, <1>5 DEF TypeOK, PermitsFromPosts, WaitsFromStarts
  <1>7. PlainInv'
    BY <1>1, Moving DEF PlainInv, PlainUse
  <1> QED BY <1>2, <1>3, <1>6, <1>7

-----------------------------------------------------------------------------
LEMMA InvStep == ThreadInv /\ [Next]_vars => ThreadInv'
  <1> SUFFICES ASSUME ThreadInv, [Next]_vars PROVE ThreadInv'
    OBVIOUS
  <1>1. ASSUME NEW c \in Callers,
               Start(c) \/ CloseLock(c) \/ CloseFalseWake(c) \/ CallerStep(c)
        PROVE  ThreadInv'
    BY <1>1, StartStep, CloseStep, WaitStep, ResumeStep DEF CallerStep
  <1>2. ASSUME NEW w \in Workers, WorkerStep(w) \/ RunReturns(w) PROVE ThreadInv'
    BY <1>2, QuietStep, FlagStep, WakeStep DEF WorkerStep
  <1>3. CASE UNCHANGED vars
    BY <1>3 DEF vars, ThreadInv, TypeOK, MutexInv, LifeInv, BlockedInv,
                PermitsFromPosts, WaitsFromStarts, PlainInv, PlainUse,
                SomeBlocked, SomeClosing, Posted, NPosted
  <1> QED BY <1>1, <1>2, <1>3 DEF Next

\* The inductive invariant holds in every reachable state.
THEOREM ThreadInvariance == Spec => []ThreadInv
  BY InvInit, InvStep, PTL DEF Spec

\* Types, for any set of callers and any number of lives of the thread.
THEOREM ThreadTypes == Spec => []TypeOK
  <1>1. ThreadInv => TypeOK
    BY DEF ThreadInv
  <1> QED BY <1>1, ThreadInvariance, PTL

\* For a thread that is started at most once and never leaves through Exit(),
\* Close() returns only when the worker's callbacks have returned, whoever
\* else closes it and however the condition variable wakes its sleepers.
THEOREM CloseIsJoin == Spec => []CloseJoins
  BY ThreadInvariance, InvImpliesSafety, PTL

\* Under the same conditions a worker in its run callback sees _isRun cleared
\* only while some Close() waits for it.
THEOREM FlagAlwaysFaithful == Spec => []FlagIsFaithful
  BY ThreadInvariance, InvImpliesSafety, PTL

\* However often the thread is restarted, a Close() that is blocked has a
\* worker that has not posted yet, or a wake-up waiting for it.
THEOREM JoinAlwaysPending == Spec => []JoinIsPending
  BY ThreadInvariance, InvImpliesSafety, PTL
==============================================================================
