------------------------------ MODULE CELLLog --------------------------------
(***************************************************************************)
(* depends/include/CELLLog.hpp: the log, a static object with a file and a *)
(* task server of its own.  Every line is a task, which any thread adds    *)
(* and the worker writes; the file is opened by main() before it starts a  *)
(* thread, and closed by the destructor.  Debug() is compiled away in a    *)
(* release; the text of a line, its date and what goes to the terminal are *)
(* left out, and the two lines of a PError() are one, as their task is.    *)
(***************************************************************************)
EXTENDS CELLTaskServer

VARIABLES
  logFile,   \* _logFile: "null", "open", or "closed" by the destructor
  lines,     \* what has been written to it
  alive      \* the static object: not used yet, in use, destroyed

logVars == <<logFile, lines, alive>>

\* Instance(): the constructor starts the task server.
LogInit == Init /\ logFile = "null" /\ lines = <<>> /\ alive = "new"

\* setLogPath(), whose fopen() may fail, and its own line in either case.
setLogPath ==
  /\ alive = "new" /\ alive' = "up"
  /\ logFile' \in {"open", "null"}
  /\ addTask
  /\ UNCHANGED lines

\* Error(), Warring(), Info() and PError(), of any thread, as long as the object
\* exists.  The bound leaves room for the destructor's line.
Echo ==
  /\ alive = "up" /\ added < MaxTasks - 1
  /\ addTask
  /\ UNCHANGED logVars

\* What a task does: EchoReal().
EchoReal ==
  /\ lines' = IF logFile = "open" THEN Append(lines, executed'[Len(executed')]) ELSE lines
  /\ UNCHANGED <<logFile, alive>>

LogWorker ==
  \/ (Work \/ Drain) /\ EchoReal
  \/ (LoopTop \/ Peek \/ Take \/ WorkEnds \/ DrainEnds) /\ UNCHANGED logVars

\* Mutant of LogClose: the file is closed before the task server.
LogCloseFileFirst ==
  /\ alive = "up" /\ Close
  /\ logFile' = IF logFile = "open" THEN "closed" ELSE logFile
  /\ UNCHANGED <<lines, alive>>

\* The destructor first closes the task server,
LogClose == alive = "up" /\ Close /\ UNCHANGED logVars

LogCloseReturn == CloseReturn /\ UNCHANGED logVars

\* then says that it closes the file, which nobody will write, and does so.
LogEnds ==
  /\ alive = "up" /\ owner = "closed"
  /\ alive' = "destroyed"
  /\ IF logFile = "open" THEN addTask /\ logFile' = "closed"
                         ELSE UNCHANGED <<vars, logFile>>
  /\ UNCHANGED lines

LogNext == setLogPath \/ Echo \/ LogClose \/ LogCloseReturn \/ LogEnds \/ LogWorker

LogSpec == LogInit /\ [][LogNext]_<<vars, logVars>>

LogFairSpec ==
  LogSpec /\ WF_<<vars, logVars>>(LogWorker) /\ WF_<<vars, logVars>>(LogCloseReturn)

-----------------------------------------------------------------------------
\* A file that was opened holds, when the log is gone, every line of the run in
\* its order, from setLogPath()'s own to the last one before the destructor;
\* the destructor's own line is not among them (CELLLog.hpp:35-43, 52-82,
\* 162-195).
FileIsComplete ==
  alive = "destroyed" /\ logFile = "closed" =>
    /\ Len(lines) \in before..added - 1
    /\ lines = [n \in 1..Len(lines) |-> n]
==============================================================================
