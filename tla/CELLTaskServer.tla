--------------------------- MODULE CELLTaskServer ----------------------------
(***************************************************************************)
(* depends/include/CELLTask.hpp: a worker thread that runs tasks which any *)
(* thread may add, as CELLLog.hpp does with every line of the log.         *)
(*                                                                         *)
(* Tasks are numbered in the order addTask() appends them.  The worker     *)
(* tests the buffer for emptiness, and runs what is left in it after its   *)
(* loop, without the buffer's mutex; a std::list that grows while it is    *)
(* walked shows the new elements to the walk.  The worker thread is seen   *)
(* through CELLThread's theorem: Close() waits for the end of the worker,  *)
(* which never calls Exit().                                               *)
(***************************************************************************)
EXTENDS Integers, Sequences

CONSTANT MaxTasks    \* bound: tasks added in a behaviour

ASSUME TaskAssumption == MaxTasks \in Nat

VARIABLES
  tasksBuf,    \* _tasksBuf
  tasks,       \* _tasks
  at,          \* the element the worker's running loop over a list is at
  wpc,         \* where the worker is in OnRun
  isRun,       \* _isRun of its thread
  owner,       \* Close(): not called, waiting, returned
  added,       \* tasks added so far
  before,      \* history: the tasks added when Close() was called
  executed     \* history: the tasks run, in order

vars == <<tasksBuf, tasks, at, wpc, isRun, owner, added, before, executed>>

Init ==
  /\ tasksBuf = <<>> /\ tasks = <<>>
  /\ at = 1
  /\ wpc = "top"
  /\ isRun = TRUE
  /\ owner = "up"
  /\ added = 0 /\ before = 0
  /\ executed = <<>>

Go(from, to) == wpc = from /\ wpc' = to

-----------------------------------------------------------------------------
\* addTask(), by any thread, before Close(), during it or after it.
addTask ==
  /\ added < MaxTasks
  /\ tasksBuf' = Append(tasksBuf, added + 1)
  /\ added' = added + 1
  /\ UNCHANGED <<tasks, at, wpc, isRun, owner, before, executed>>

Close ==
  /\ owner = "up"
  /\ owner' = "joining"
  /\ isRun' = FALSE
  /\ before' = added
  /\ UNCHANGED <<tasksBuf, tasks, at, wpc, added, executed>>

CloseReturn ==
  /\ owner = "joining" /\ wpc = "done"
  /\ owner' = "closed"
  /\ UNCHANGED <<tasksBuf, tasks, at, wpc, isRun, added, before, executed>>

-----------------------------------------------------------------------------
(* OnRun() *)

\* Mutant of LoopTop: nothing is run after the loop.
LoopTopNoDrain ==
  /\ Go("top", IF isRun THEN "peek" ELSE "done")
  /\ at' = 1
  /\ UNCHANGED <<tasksBuf, tasks, isRun, owner, added, before, executed>>

LoopTop ==
  /\ Go("top", IF isRun THEN "peek" ELSE "drain")
  /\ at' = 1
  /\ UNCHANGED <<tasksBuf, tasks, isRun, owner, added, before, executed>>

\* if (!_tasksBuf.empty()), unlocked; _tasks is empty here, so that with an
\* empty buffer there is nothing to do.
Peek ==
  /\ Go("peek", IF tasksBuf = <<>> THEN "top" ELSE "take")
  /\ UNCHANGED <<tasksBuf, tasks, at, isRun, owner, added, before, executed>>

\* Under the mutex, the buffer is moved to the worker's own list.
Take ==
  /\ Go("take", "work")
  /\ tasks' = tasks \o tasksBuf
  /\ tasksBuf' = <<>>
  /\ UNCHANGED <<at, isRun, owner, added, before, executed>>

Work ==
  /\ wpc = "work" /\ at <= Len(tasks)
  /\ executed' = Append(executed, tasks[at])
  /\ at' = at + 1
  /\ UNCHANGED <<tasksBuf, tasks, wpc, isRun, owner, added, before>>

\* Mutant of WorkEnds: the last task of the list is cleared unrun.
WorkEndsEarly ==
  /\ at >= Len(tasks)
  /\ Go("work", "top")
  /\ tasks' = <<>>
  /\ UNCHANGED <<tasksBuf, at, isRun, owner, added, before, executed>>

\* _tasks.clear()
WorkEnds ==
  /\ at > Len(tasks)
  /\ Go("work", "top")
  /\ tasks' = <<>>
  /\ UNCHANGED <<tasksBuf, at, isRun, owner, added, before, executed>>

\* After the loop, what is in the buffer is run, without the mutex.
Drain ==
  /\ wpc = "drain" /\ at <= Len(tasksBuf)
  /\ executed' = Append(executed, tasksBuf[at])
  /\ at' = at + 1
  /\ UNCHANGED <<tasksBuf, tasks, wpc, isRun, owner, added, before>>

DrainEnds ==
  /\ at > Len(tasksBuf)
  /\ Go("drain", "done")
  /\ UNCHANGED <<tasksBuf, tasks, at, isRun, owner, added, before, executed>>

Worker ==
  \/ LoopTop \/ Peek \/ Take \/ Work \/ WorkEnds \/ Drain \/ DrainEnds

Next == addTask \/ Close \/ CloseReturn \/ Worker

Spec == Init /\ [][Next]_vars

\* The worker is scheduled, its tasks return, and so does a Close() begun.
FairSpec == Spec /\ WF_vars(Worker) /\ WF_vars(CloseReturn)

-----------------------------------------------------------------------------
TypeOK ==
  /\ tasksBuf \in Seq(1..added) /\ tasks \in Seq(1..added)
  /\ at \in Nat \ {0}
  /\ wpc \in {"top", "peek", "take", "work", "drain", "done"}
  /\ isRun \in BOOLEAN
  /\ owner \in {"up", "joining", "closed"}
  /\ added \in 0..MaxTasks /\ before \in 0..added
  /\ executed \in Seq(1..added) /\ Len(executed) <= added

\* What the worker has still to run of the list it is at, and of the buffer.
Rest == IF wpc = "work" THEN SubSeq(tasks, at, Len(tasks)) ELSE <<>>
Left == IF wpc \in {"drain", "done"} THEN SubSeq(tasksBuf, at, Len(tasksBuf))
                                     ELSE tasksBuf

\* No task is lost, run twice or run out of order, whenever it was added:
\* what was run, what is being run and what waits are all tasks in order.
NoTaskLost == executed \o Rest \o Left = [n \in 1..added |-> n]

\* When Close() returns, every task added before it was called has been run:
\* the log has all its lines (CELLTask.hpp:80-84).
CloseFlushes == owner = "closed" => Len(executed) >= before

\* A task added before Close() is called is run in the end.
TasksAreRun ==
  \A n \in 1..MaxTasks : added >= n /\ owner = "up" ~> Len(executed) >= n
==============================================================================
