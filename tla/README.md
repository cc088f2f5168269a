# cppNetworkObj: verification development

TLA+ models of the cppNetworkObj network library (`depends/include`) with its
server (`server/server.cpp`), its test client (`client/client.cpp`) and the earlier
server that the repository keeps (`server/bak`), the TLC runs that check them on small instances, and TLAPS proofs of the properties that
matter most for every instance. File and line numbers are those of the repository.

## 1. The system

| Component | State it keeps | Operations | Talks to |
|---|---|---|---|
| `CELLSemaphore` | `_wait`, `_wakeup`, mutex, condition variable | `wait`, `wakeup` | `CELLThread` |
| `CELLThread` | `_isRun`, `_mutex`, `_sem`, three callbacks | `Start`, `Close`, `Exit`, `isRun`, the worker's `OnWork` | every threaded component |
| `CELLTaskServer`, `CELLLog` | `_tasksBuf` (locked), `_tasks` (the worker's) | `addTask`, `Start`, `Close`, the worker's loop | every thread that logs |
| `CELLServer` with `CELLEpollServer` or `CELLSelectServer` | table of clients by socket, locked buffer of new clients, time of the last check | `addClient`, `OnRun`, `CheckTime`, `DoNetEvents`, `DoMsg`, `ClearClients` | called by the accept thread; calls the server back through `INetEvent` |
| `EasyTcpServer` with `EasyEpollServer` or `EasySelectServer` | listening socket, service threads, `_clientCount`, statistics | `Start`, `Accept`, `addClientToCELLServer`, `Close`, `OnNetJoin/Leave/Msg` | service threads, by `addClient` and by destruction |
| `CELLClient` | socket, two buffers, heartbeat and send timers, message numbers | `SendData`, `RecvData`, `hasMsg`, `front_msg`, `pop_front_msg`, `checkHeart` | owned by one service thread, or by one `EasyTcpClient` |
| `CELLBuffer` | bytes, `_nLast` | `push`, `pop`, `write2socket`, `read4socket`, `hasMsg` | sockets |
| `EasyTcpClient` with its epoll and select versions, `client.cpp` | one `CELLClient`, `_isConnect` | `InitSocket`, `Connect`, `OnRun`, `RecvData`, `Close` | a work thread per group of clients |
| `CELLStream`, `CELLMsgStream` | bytes, read and write positions | `Read`, `Write`, arrays, strings, `finsh` | message handlers |
| `MemoryMgr`, `CELLObjectPool` (`server/bak`) | chains of free blocks, one mutex each | `operator new`, `operator delete`, `allocMemory`, `freeMemory`, `allocObjMemory`, `freeObjMemory` | every thread of the earlier server |
| Earlier server: `TcpServer`, `CellServer`, `CellTaskServer` (`server/bak`) | listening socket, count; per thread a table, a buffer, a cached read set and a list of answers to send | `Accept`, `OnRun`, `RecvData`, `addSendTask`, `SendData`, `Close` | its clients; two threads share a `ClientSocket` |
| `CELLConfig`, `CELLNetWork`, `CELLEpoll`, `CELLFDSet`, `CELLTimestamp` | little or none | wrappers | all |

**What is hard.** Threads share plain fields without the lock that guards their
writers: `_isRun`, `_clientsBuff.empty()`, `_tasksBuf.empty()`, the sizes that
`getClientCount()` adds up. Objects are destroyed by one thread while another may
still use them: clients, service threads, the `CELLThread` itself. Socket numbers
are reused at once. `Close()` waits with a mutex in its hand. An event back end may
fail at any call. Cached descriptor sets and heart clocks are older than the table they
speak of. The test client's threads meet at a barrier that some leave early, and its
back ends report losses differently. Streams are cut anywhere by `send` and `recv`, both
ends run on blocking sockets, and a message may end in the middle of a field. `PROJECT.json` lists each hazard at its line.

**What makes each part correct.** The semaphore loses no wake-up; `Close()` is a
join and returns; every accepted connection has one owner, is never used after its
destruction and is destroyed; the count is the number of clients; nothing is handed
to a thread that will not look; messages arrive whole, in order and numbered; no task
is lost, and the log's file has every line; a select set holds the clients of the table and
no closed socket; silent clients, and only they, are dropped; the client's `main()` returns;
streams give back what was written; a block is never handed out twice or lost; a client of the
earlier server gets the answers to its own logins.

## 2. What is modelled

### CELLSemaphore, and CountingSemaphore above it

State: the two counters (`semWait`, `semWakeup`) and the threads inside
`_cv.wait`, divided into those asleep and those awake that have yet to take the lock
again. `WaitPass`, `WaitTake` and `WaitSleep` are the three ways through `wait()`,
`Resume` and `SleepAgain` what a woken thread finds at the predicate, `Wakeup` is
`wakeup()` with its `notify_one`, and `SpuriousWake` is what a condition variable may
do. Each is atomic because the code holds `_mutex`. `CountingSemaphore` is a
semaphore as a user thinks of it: a number of permits and a set of waiting threads.

### CELLThread

`Start`, `Close` (lock, test, wait, return) by several callers, and the worker's
`OnWork` (run callback, destroy callback, post, last write of `_isRun`) with
`Exit()` (test, then lock and clear). `_isRun` is a `bool` touched without the
mutex, so each access is an action. The semaphore is the module `CELLSemaphore`,
instantiated over the thread's own state: the composition of the two, not a copy.

### CELLServer, EasyTcpServer, and ClientLifecycle above them

`CELLServer` is the service thread on epoll: the unlocked look at the buffer, the
locked loop that takes clients over one by one, `CheckTime()` (which deletes first and
erases next, two actions), the clients lost by events, a failing `epoll_wait` with its
`Exit()`, and `ClearClients()`. `EasyTcpServer` adds the accept thread
(limit, the scan for the least loaded service thread turn by turn, the locked hand-over)
and the main thread's `Close()`: accept thread first, then one service thread after
the other. A client pointer remains a value after its object is deleted and the
kernel may hand out a closed socket number again at once, so that dangling pointers and
stale table keys are states the invariants can see. `Close()` of a thread is seen through
what `CELLThread` establishes (it waits for the callbacks with the mutex in its hand,
and does not wait when `Exit()` has cleared the flag). `ClientLifecycle` is the promise
about one connection: accepted, handed to one thread, taken over by it, destroyed once,
with a socket number no other living connection has.

### CELLBuffer and LoginSession

`CELLBuffer` holds the buffer's operations as operators over sequences of units; a
message is a header unit and a body, and a read of the header at a wrong place gives
nonsense as in C++. `LoginSession` composes both ends of a connection: the client's
work loop (`SendTest`, `OnRun`, `checkSend`), the server's loop (`DoNetEvents`, `DoMsg`,
`OnNetMsg`), numbered logins and results, the drop of an answer that finds the
buffer full, and the kernel's two bounded byte streams. `send()` moves units as the
kernel has room and returns when all are taken, since no socket is ever made
non-blocking; a short return is allowed besides.

### CELLTaskServer and CELLLog

`addTask` by any thread at any time, the worker's unlocked test, its locked move, its
run of the list, and the unlocked walk over what is left after the loop, which sees
the tasks added while it runs. `CELLLog` extends it with the file: `setLogPath()`
(`main()` calls it first, and `fopen` may fail), lines of any thread as tasks, the worker's
`EchoReal`, and the destructor, which closes the task server, adds one more line, and closes
the file.

### CELLSelectServer

The service thread on the select back end: the loop of `CELLServer` around
`DoNetEvents()` with `_clients_change`, the backup of the read set and the highest
socket (`MakeSets`), what `select()` may return (`Select`, `SelectInterrupted`, `SelectFails`),
`WriteData` and `ReadData` with the losses, `DoMsg`, `CheckTime` and the heart clock of each
client in ticks. `CELLFDSet` is in `Set` (a socket above `CELL_MAX_FD` is left out) and `Has`
(which reads at any number). `EventsOfNobody` is the turn in which `CheckTime()` has emptied
the table after the test for an empty one; what `_clients.begin()->second` is then is not
defined, and the model lets the thread crash or go on. A client is known by its socket number, which
`EasyTcpServer` shows to be its own.

### EasyTcpClient and client.cpp

`WorkThread()` statement by statement: create, connect (which may be refused), count in
`readyCount`, wait for the others, run, close, count out. A turn of `OnRun()` has the
outcomes of either back end: a loss that is reported (select) or returned as `true`
(epoll), a failed wait that closes the client (select) or leaves it open and returns
`false` every turn (epoll). `main()` waits for the exit command and closes one thread after
the other. Two numbers of history (`unreported`, `failures`) say by how much the printed
count is wrong, and why.

### CELLMsgStream

A stream is a record of its bytes and two positions; each method of `CELLStream` is an
operator from a stream to a stream, with the tests for room in the order of the
code. A value is its bytes: integers are little-endian, floats and the elements of arrays are
what `memcpy` makes of them. `Int32` is what the `int` parameter of `canRead()` and
`canWrite()` leaves of a size. The state is a sender's `CELLWriteStream`, written field by
field (`WriteMore` takes any of the constant `Fields`, `WriteLogout` the next of a logout in
`Logouts`), with `kept`, the fields whose writes have returned true. `OnLogout` is the handler of
`server.cpp:73-107`: nine fields read, an answer of 128 bytes written, `finsh()`.

### MemoryMgr

The two pools of `MemoryMgr.hpp` and the object pool above them. A pool's chain is
`head` and `next`, and each read or write of it is an action, because `freeObjMemory()`
takes no lock. `initPool()` is modelled as it is written: its first pointer never
advances, so that the chain has two blocks: the run `MCPoolsLost` shows what comes of it
(`HeapOnlyWhenFull`), and `Usable` keeps the lost blocks out of `NoBlockLost`. Once two threads have been inside the object
pool's chain together (`raced`), a data race, the model goes no further.

### TcpServer

The earlier server as it builds on Windows (elsewhere it deletes shared pointers and
does not compile). `main()` accepts, hands over and counts (`AcceptConn`,
`addClientToCellServer`, `OnNetJoin`); each `CellServer` thread makes its set and waits
without a time limit (`CellRound`, `CellSelect`), reads logins and leaves the answers as
tasks (`RecvLogin`), or loses the client (`LeaveConn`) without ever closing its socket; its
task thread sends what fills the send buffer (`SendData`, `SendFails`). Close() of the
server also calls `WSACleanup()`, which ends every socket of the process, and the
end of `main()` destroys threads nobody joined, hence `Terminate`.

## 3. The runs

| Run | Question | Answer |
|---|---|---|
| `MCThread` | Is `Close()` a join, is the flag faithful (one start, no `Exit()`), is a blocked `Close()` always owed a post, does every `Close()` return unless a worker calls `Exit()`? | yes |
| `MCThreadExitStuck` | Does every `Close()` return? | no: `Exit()` blocks on the mutex `Close()` holds while it waits for that worker |
| `MCThreadLastAccess` | Has the worker finished with the object when `Close()` returns? | no: `_isRun = false` (`CELLThread.hpp:80`) follows the post |
| `MCServer` | Pointers, ownership, socket keys, count, hand-over, release, lifecycle, with failures and `Close()` at any time; is a queued client served, does `Close()` end? | yes, up to a failed `epoll_wait` and to the `Exit()` deadlock above |
| `MCServerLimit` | Are at most `_nMaxClient` clients connected? | no: the count rises only when the service thread takes the client over |
| `MCSession` | Whole, ordered, numbered streams of messages; never a `recv` without room; logins arrive unless both ends are blocked. Fields read back as written, no read outside a message cut anywhere, the logout answer whole | holds, of strings with a count that fits an `int`, and up to the first field whose reader does not pass it |
| `MCSessionStuck` | Does a `send()` started on EPOLLOUT always return? | no: both ends may block with full kernel buffers |
| `MCWorker` | The semaphore: do `_wait` and `_wakeup` agree, is every wake-up taken, is this a counting semaphore? The task server and the log: no task lost, repeated or overtaken; `Close()` flushes; tasks added in time are run; the log's file is complete | yes |
| `MCSelect` | Are the cached sets as good as new ones, and are silent clients, and only they, dropped in time? | yes; a client may be dropped with an unread message |
| `MCClient` | Is the printed count what it should be, does nobody send before all are connected, does `main()` return? | yes on select; on epoll the count is off by what `OnRun()` reports wrongly, and a thread that is closed while it creates clients calls through a null pointer |
| `MCEarlier` | No block of a chain handed out twice, lost or too small; answers reach their own client, the count is kept; a thread that goes into `select()` waits for everybody it has been given by then, up to the size of the set | holds, the object pool up to its race; who is handed over while the thread is blocked is not waited for before the next turn |
| `MCPoolsLost` | Does the object pool allocate outside itself only when it is full? | no: `initPool()` links only the first and the last block (`CELLObjectPool.hpp:150-151`), so that the others are never handed out |

**Bounds.** Four threads and five permits: two sleepers, one thief of a wake-up and
one poster at once. Three callers and three lives of a thread: an old worker's last
write and left-over permit meet the next life and a third caller. Two service threads, three
connections, two socket numbers, limit two: a number is used again while its first user
is still being dropped, a batch of two joins, the limit is reached, and the choice of
the least loaded thread has a choice. The session has messages of two units, a
send buffer of three units and a receive buffer and a wire of four, so that a whole message
never fills a send buffer evenly, writes and reads cut messages at every place, two messages
are handled in one batch and the second answer is dropped; what matters are the ratios. `MaxLogins`, `MaxTasks`, `MaxPermits`, `MaxLives` and
`Clients` are the bounds of otherwise endless behaviours; the modules name each.
The select server has one socket below `CELL_MAX_FD` and one at it, a dead time of three
ticks and turns of up to one, so that `DropIsDue` has clients it must keep; the bounds for
longer turns are the theorems'. The test client has three threads of two clients: one
may leave the barrier while another is still before it and a third waits; and one failing wait. Streams have up to three fields of every kind, in buffers that are
too small for them or not, and whole logouts with arrays around each limit. The pools have two
and three blocks for three allocations of two threads: each chain is emptied, and the ends and
a middle of a chain differ. The earlier server has three connections on two threads, so that two
share a thread whose set has room for one; two logins, answers of two units and a send
buffer of three.

`MCWorker`, `MCSession` and `MCEarlier` check two components each that share no state: a behaviour is one
of the one or one of the other. In `EasyTcpServer` and `TcpServer` a new client is always the
first unused name: no property and no action tells the names of connections apart.

**Deadlock** is not checked in `MCServer*`, `MCSelect`, `MCClient`, `MCSession*` and
`MCWorker`: the servers and clients close for good, the task server ends, and a session may end with both ends
blocked in `send()`, which `MCSessionStuck` shows and `LoginsArrive` excepts by name.

**Fairness.** Threads are scheduled, and a mutex that is free again and again
is not at issue since each is held over straight-line code (`Exit()` against `Close()`
being the exception, which is a run of its own). `epoll_wait` has a timeout of 1 or
0 ms, so service and accept loops are weakly fair as a whole: a loop turns, but no
fairness says which event it sees. Callbacks are taken to return. Nothing is assumed of
peers, of the clock, of failures, of the exit command, of `addTask` callers or of
short returns of `send()`. In the session each of the two work threads is weakly fair; in
the test client each work thread and `main()`'s `Close()`, with `connect()`, `send()` and
`select()` taken to return. The select server and the earlier server are checked for safety only.

## 4. The proofs

Every theorem holds for all values of the constants that satisfy the named assumptions
(`ThreadAssumption`, `ServerAssumption`, ...: finite sets, positive counts, null values
outside their sets); nothing else is assumed.

* `WorkerProofs`, the semaphore: `SemInv` (types, `CountersAgree`, `NoLostWakeup`) is
  inductive: a thread asleep or awake is a blocked call, `notify_one` moves one sleeper
  if there is one, so handed-out wake-ups never outnumber the awake. With it each step
  is a step of `CountingSemaphore` or a stutter (`SemaphoreRefinement`).
* `CELLThreadProofs`: the properties are not inductive alone. `ThreadInv` adds that the
  mutex's holder is the one caller inside `Close()`, which workers exist, and the balance
  between posts made, permits taken and workers still to post. From it `CloseIsJoin`,
  `FlagAlwaysFaithful` and `JoinAlwaysPending`. The semaphore enters through its actions.
* `EasyTcpServerProofs`: `IInv` says for each client where it is: in the accept thread's hand
  (`CurInv`), in one buffer (`PendInv`), in one table under its own socket (`TableInv`)
  or being dropped (`VictimInv`), and that living clients have different open sockets
  (`SockInv`). Each action touches one of these places, so that the proof has a lemma per
  action that moves a client and one (`QuietSafe`) for all that move none. From
  it `ServerTypes`, `NoClientDangles`, `EveryClientHasOneOwner` and `JoinsAreFresh`. `HandOverIsLive`
  needs a second invariant, on the order of `Close()`.
* The same module counts: `EraseInv` says that the clients dropped but not yet erased are in
  the table of their thread, so that a drop, an erasure and a hand-over change the printed
  count and the sizes together (`CountAlwaysAccurate`). `HeldInv` and `CloseInv` follow
  `Close()` from thread to thread: a service thread that was joined has empty hands, and
  `CloseAlwaysReleases` adds them up.
* `ServerImplementsLifecycle`, step by step: a step of the accept thread, of a service thread or
  of `Close()` is a step of `ClientLifecycle` for the one connection it touches and a
  stutter for all others. `FreshInv` adds that a connection has no socket before it is accepted.
* `WorkerProofs`, the task server and the log: tasks are numbered by `addTask`; `IInv` says that what was run,
  the worker's list and the buffer are three stretches of 1, 2, ..., `added` that meet,
  and where they meet at each place of the loop. From it `CloseAlwaysFlushes` and
  `TasksKeepTheirOrder`. Each step of `CELLLog` is one of the task server or a stutter
  (`LogUsesTaskServer`), so that `IInv` holds there too; with what the file has at each
  point of the log's life (`FileInv`) it gives `FileAlwaysComplete`.
* `CELLSelectServerProofs`: `SelectInv` says what the cached sets owe to the table at each
  place of the loop (`SetsOwed`: either they are those of the table, or `_clients_change` is
  set and `MakeSets` comes before `Select`) and how far each clock can be (`Clocks`). From it
  `SetsAlwaysFresh`, `SilentAlwaysDropped` and `DropAlwaysDue`. The clocks give the bound of
  `SilentAreDropped`: twice a dead time and a turn, because a message may lie unread for nearly that long
  (`select()` is interrupted turn after turn) and then starts the clock anew.
* `EasyTcpClientProofs`: `IInv` orders each thread's work (what it has made and connected
  by each line of `WorkThread()`) and counts who has passed the barrier and who has
  been counted. A client is counted once, so the printed number differs from the truth by
  `unreported` and `failures` alone (`CountAlwaysExact`).
* `EarlierServerProofs`, the server: `TcpInv` says where each connection is (not accepted,
  in a buffer, in one table, lost), that a table has open sockets only and what the cached
  set lacks. `WaitsForAll` is a property of steps: of the one that goes into `select()`, which
  only `CellRound` is (`WhoBlocks`), and of all that find the thread blocked. `AnswerInv` adds where each answer is: in the worker's list, in the task
  buffer, in the send buffer or sent, in order and each with its client.
* `EarlierServerProofs`, the pools: `PoolInv` says that each chain is an injective path
  through the blocks nobody has, that ends at null. The walk that `NoBlockTwice` and
  `NoBlockLost` take along `next` is a recursive function; two facts about it (it meets every
  block of the path, and none other) are proved by a least counterexample. The path gives up its
  first block or gets a new one in front. What a thread has read of a head stays true until it
  writes (`HeadInv`), because it has the mutex, or because the model stops at the object
  pool's race (`raced`).
* `LoginSessionProofs`: for each direction, what the receiver holds, the wire, the send buffer and the
  part of a `send()` that is done are joined to one sequence, which is that of the messages
  from the receiver's number to the sender's (`StreamIsWhole` itself). Every step cuts, moves or
  extends this one sequence; lemmas on concatenation and subsequences carry it. `HandledInv`
  (a thread that waits has less than a message left) gives `RecvAlwaysHasRoom`.
* `CELLMsgStreamProofs`: `StreamInv` (the invariant: the stream holds the fields of `kept`, laid
  out one behind the other behind the two bytes of the length, and fits its buffer) is kept by a
  write that fails, because it changes nothing, and by one that does not. Reading back
  field after field is an induction over the fields, made by the least field where it fails. A run
  of reads is a function from 0..n to streams (`ReadRun`), that of writes likewise
  (`WriteRun`). `RunKeeps` says that what a run has read stays read, `Arrive` that each reader stands
  where its field begins, up to the first that is refused: `FieldsAlwaysArrive`. One read stays inside
  any stream that says its size (`ReadFieldType`): `ReadsAlwaysInside`. For
  `AnswerAlwaysWhole` three runs follow each other: what the handler reads of the logout
  (`LogoutGot`), how far the answer fits into 128 bytes (`AnswerHolds`: up to the eighth
  field whatever was read, and the ninth as the property says), and what a reader makes of that.
  `ReadsStayInside` excepts a string with a count of more than the greatest `int` less four:
  for that one `Int32` shows `canRead()` a negative size, and the theorem would be false.
* The proof modules of the first four components also prove type invariants that
  no run repeats (`SemaphoreTypes`, `ThreadTypes`, `ServerTypes`, `TaskTypes`).

Only model-checked: everything under fairness (`CloseReturnsUnlessExit`, `QueuedIsServed`,
`CloseTerminates`, `LoginsArrive`, `TasksAreRun`, `MainReturns`), because the prover has no
rules for liveness and ENABLED. Every other property of a passing run is a theorem.

## 5. Abstractions, and what they leave out

* Time: in `CELLServer` any client may be found dead by `CheckTime()`; `CELLSelectServer` has
  the clock, in ticks, with a bound on the length of a turn. In the session `checkSend()` may or
  may not find its interval over.
* Data races on `bool` and list sizes are modelled as single reads and writes. A
  `std::list` appended to while its `empty()` or `size()` is read, or while it is
  walked, is taken to show the old or the new value and never a torn one.
* After `Exit()` and the deletion of its object (`EasyTcpServer.hpp:204`) a service thread
  runs on freed memory: undefined behaviour, not followed further. `CloseReleasesAll`
  is therefore stated for runs without a failing `epoll_wait`.
* `CloseJoins` and `FlagIsFaithful` are stated for one start without `Exit()`; the
  library restarts no thread. Over several lives both fail (the old worker's last write
  clears the new one's flag), as `CELLThread` shows if `PlainUse` is dropped.
* `memcpy` of an overlapping tail (`CELLBuffer.hpp:72, 101`) is taken to move it
  forward correctly. `_fullCount` is not modelled; nothing reads it.
* An accept loop that ends by a failing `epoll_wait` and a closing main thread may meet
  in the same `Exit()` deadlock; `CloseTerminates` names it in `ExitStuck`.
* The search for the least loaded thread is turn by turn in `EasyTcpServer` and one step in
  `TcpServer`, where it decides only how the load is spread.
* A client handed to a thread of the earlier server that is blocked in `select()` stays in
  `clientsBuff` and is not heard before another client of that thread speaks, however long that
  takes: `select()` has no time limit. `WaitsForAll` says so and does not exclude it; nothing in the
  repository promises more.
* An answer of the earlier server fills its send buffer at most once (`AnswerLen <= SendBuffSize`;
  a `LoginResult` has a hundred bytes, the buffer 51200), so that it is never cut between two `send()`.
* In `CheckTime()` (`CELLServer.hpp:97-101`) `OnNetLeave()` and the `delete` that closes the socket
  are one step (`TimeDead`); the erasure is the next. Between the two the count is lower by one
  while the socket is still open. `Accept()` is the only one to look at the count then: it may
  take a client by another number, as it may after the step.
* `CELLSelectServer` follows the reads of `has()` past the bit array; what the kernel itself does
  with a `_maxSock` beyond it is not modelled.
* A client that the earlier server loses keeps its socket open: nothing closes it. The model keeps it
  open as well, and `AnswersGoHome` rests on that.
* What the numbers printed by `time4msg()` and the client's statistics lose between a read and
  the reset to 0 is not followed: they are only printed.
* A second `setLogPath()` would close the file under the worker; no program calls it twice.

## Not modelled

`CELLConfig` (command-line parsing into a map, before any thread is started), `CELLNetWork`,
`CELLEpoll`, `CELLTimestamp` and the interfaces without state (wrappers of system calls, seen
through their callers), the stand-alone samples of system calls under `IOCP` and `epoll`, the
base servers and Windows samples and the client of `bak` (one-file exercises that the
earlier server, which is modelled, grew out of), and the build scripts. Branches for
Windows are modelled only in the earlier server.

## 6. Plan

Done, in this order: `CELLSemaphore` < `CELLThread` (instantiates it);
`CELLServer` < `EasyTcpServer` (extends it; refines `ClientLifecycle`); `CELLBuffer` <
`LoginSession` (extends it); `CELLTaskServer` < `CELLLog` (extends it); `CELLSelectServer` with the
heartbeat; `CELLMsgStream`; `EasyTcpClient`; `MemoryMgr`; `TcpServer`.

Proved, in this order: the semaphore and its refinement, the thread, the server's ownership
and hand-over, the task server; then the select server, the server's count, release and
lifecycle, the test client, the earlier server with its pools, the log, the session; last the
streams, with the logout and its answer.

Left: the liveness properties, when the prover has rules for fairness. The plain bound
`_nMaxClient` does not hold (`MCServerLimit`) and no other takes its place: any number of
clients may be accepted before the service threads take the first of them over.
