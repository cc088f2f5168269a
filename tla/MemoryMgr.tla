------------------------------ MODULE MemoryMgr ------------------------------
(***************************************************************************)
(* The memory of the earlier server (server/bak): every operator new goes  *)
(* through Alloctor.cpp to the two pools of MemoryMgr.hpp, and a class may *)
(* have a pool of objects of its own (CELLObjectPool.hpp), which takes     *)
(* what it has no block for from operator new[].                           *)
(*                                                                         *)
(* A pool is a chain of free blocks with a mutex.  CELLObjectPoll::        *)
(* freeObjMemory() changes its chain without the mutex, so that each read  *)
(* and each write of a chain is an action of its own.  A block is returned *)
(* once, by any thread.  addRef() has no caller; the assertions are not    *)
(* compiled in (NDEBUG).                                                   *)
(***************************************************************************)
EXTENDS Integers, FiniteSetsExt

CONSTANTS
  Threads,
  Mem64Blocks, Mem128Blocks,   \* nBlockNum of the two MemoryAlloctor
  ObjBlocks,    \* nPoolSize of CELLObjectPoll
  Sizes,        \* sizes that are asked for
  ObjSize,      \* sizeof(NodeHeader) + sizeof(Type)
  MaxHeld       \* bound: allocations alive at a time

ASSUME PoolAssumption ==
  /\ IsFiniteSet(Threads)
  /\ {Mem64Blocks, Mem128Blocks, ObjBlocks} \subseteq Nat \ {0}
  /\ Sizes \subseteq Nat \ {0} /\ ObjSize \in Nat \ {0} /\ MaxHeld \in Nat

MemPools == {"mem64", "mem128"}
Pools == MemPools \cup {"obj"}
BlockNum(p) ==
  CASE p = "mem64" -> Mem64Blocks [] p = "mem128" -> Mem128Blocks [] p = "obj" -> ObjBlocks

\* A block is a pool and the number nID, or a piece of the heap.
Blocks(p) == {p} \X (0..BlockNum(p) - 1)
PoolBlocks == UNION {Blocks(p) : p \in Pools}
HeapBlocks == {"heap"} \X (1..MaxHeld)
None == <<"none", 0>>

VARIABLES
  ready,    \* pools with a _pBuf
  head,     \* head[p]: _pHeader
  next,     \* next[b]: pNext
  nRef,     \* nRef[b]
  mutex,    \* mutex[p]: {} or the thread that holds it
  thread,   \* thread[t]: where t is, in which pool, with which block, and the
            \* size it has been asked for
  held,     \* held[s]: the allocations that are alive
  raced     \* history: two threads were inside the chain of the object pool

poolVars == <<ready, head, next, nRef, mutex>>
vars == <<poolVars, thread, held, raced>>

NoAlloc == [size |-> 0, block |-> None]
Idle == [pc |-> "idle", pool |-> "none", block |-> None, size |-> 0]

-----------------------------------------------------------------------------
(* The chains of new pools *)

\* Mutant of initMemory: the loop of CELLObjectPoll::initPool().
initMemoryStuck(b) ==
  IF b[2] = 0 /\ BlockNum(b[1]) > 1 THEN <<b[1], BlockNum(b[1]) - 1>> ELSE None

\* MemoryAlloc::initMemory(): block after block.
initMemory(b) == IF b[2] + 1 < BlockNum(b[1]) THEN <<b[1], b[2] + 1>> ELSE None

\* CELLObjectPoll::initPool(): pTemp1 never moves, so that every turn of the
\* loop hangs its block to the first one, and the last one stays.
initPool(b) == IF b[2] = 0 /\ ObjBlocks > 1 THEN <<"obj", ObjBlocks - 1>> ELSE None

\* The blocks a chain begins with; those that initPool() loses are not among them
\* (HeapOnlyWhenFull).
Usable(p) == IF p = "obj" THEN {<<p, 0>>, <<p, ObjBlocks - 1>>} ELSE Blocks(p)

\* The object pool is built by the first thread that uses it, under the lock
\* of a local static; MemoryAlloc waits for its first block.
Init ==
  /\ ready = {"obj"}
  /\ head = [p \in Pools |-> IF p = "obj" THEN <<p, 0>> ELSE None]
  /\ next = [b \in PoolBlocks |-> IF b[1] = "obj" THEN initPool(b) ELSE None]
  /\ nRef = [b \in PoolBlocks |-> 0]
  /\ mutex = [p \in Pools |-> {}]
  /\ thread = [t \in Threads |-> Idle]
  /\ held = [s \in 1..MaxHeld |-> NoAlloc]
  /\ raced = FALSE

-----------------------------------------------------------------------------
(* Sizes *)

\* _nSize of MemoryAlloctor: rounded up to whole pointers.
Rounded(nSize) == (nSize \div 8) * 8 + (IF nSize % 8 > 0 THEN 8 ELSE 0)
nSize(p) == CASE p = "mem64" -> Rounded(64) [] p = "mem128" -> Rounded(128)
              [] p = "obj" -> ObjSize

\* Mutant of szAlloc: the ranges of init_szAlloc() overlap by one.
szAllocOffByOne(size) ==
  IF size <= 65 THEN "mem64" ELSE IF size <= 128 THEN "mem128" ELSE "heap"

\* _szAlloc, and allocMem() for what is larger.
szAlloc(size) ==
  IF size <= 64 THEN "mem64" ELSE IF size <= 128 THEN "mem128" ELSE "heap"

-----------------------------------------------------------------------------
At(t, pc) == thread[t].pc = pc
Pool(t) == thread[t].pool
Become(t, state) == thread' = [thread EXCEPT ![t] = state]

FreeSlots == {s \in 1..MaxHeld : held[s] = NoAlloc}
InUse == {held[s].block : s \in 1..MaxHeld}

Acquire(t, p) == mutex[p] = {} /\ mutex' = [mutex EXCEPT ![p] = {t}]
Release(t) == mutex' = [p \in Pools |-> mutex[p] \ {t}]

\* t returns from its allocation with block b.
Return(t, b) ==
  /\ held' = [held EXCEPT ![Min(FreeSlots)] = [size |-> thread[t].size, block |-> b]]
  /\ Become(t, Idle)
  /\ Release(t)

AHeapBlock == <<"heap", Min({i \in 1..MaxHeld : <<"heap", i>> \notin InUse})>>

\* Room for everything that is being allocated.
Room == Cardinality(FreeSlots) > Cardinality({t \in Threads : thread[t].size > 0})

\* operator new and operator new[], MemoryMgr::allocMem(), and operator new of
\* a class with an object pool, allocObjMemory().
New(t, p, size) ==
  /\ At(t, "idle") /\ Room
  /\ Become(t, [Idle EXCEPT !.pc = IF p = "heap" THEN "malloc" ELSE "lock",
                            !.pool = p, !.size = size])
  /\ UNCHANGED <<poolVars, held>>

\* The mutex, and the memory of the pool if it has none.
Lock(t) ==
  LET p == Pool(t) IN
  /\ At(t, "lock") /\ Acquire(t, p)
  /\ Become(t, [thread[t] EXCEPT !.pc = "read"])
  /\ ready' = ready \cup {p}
  /\ IF p \in ready THEN UNCHANGED <<head, next>>
     ELSE /\ head' = [head EXCEPT ![p] = <<p, 0>>]
          /\ next' = [b \in PoolBlocks |-> IF b[1] = p THEN initMemory(b) ELSE next[b]]
  /\ UNCHANGED <<nRef, held>>

\* pReturn = _pHeader
ReadHead(t) ==
  /\ At(t, "read")
  /\ LET b == head[Pool(t)] IN
     Become(t, [thread[t] EXCEPT !.block = b, !.pc = IF b = None THEN "malloc" ELSE "unlink"])
  /\ UNCHANGED <<poolVars, held>>

\* _pHeader = _pHeader->pNext, with _pHeader read before or read again.
Unlink(t) ==
  LET p == Pool(t)
      b == thread[t].block
  IN /\ At(t, "unlink")
     /\ \E first \in {b, head[p]} : head' = [head EXCEPT ![p] = next[first]]
     /\ nRef' = [nRef EXCEPT ![b] = IF p = "obj" THEN @ + 1 ELSE 1]
     /\ Return(t, b)
     /\ UNCHANGED <<ready, next>>

\* No block is left: a MemoryAlloc calls malloc(), the object pool new char[],
\* its mutex in hand.
Malloc(t) ==
  /\ At(t, "malloc")
  /\ IF Pool(t) = "obj" /\ szAlloc(ObjSize) # "heap"
     THEN /\ Become(t, [thread[t] EXCEPT !.pc = "lock", !.pool = szAlloc(ObjSize)])
          /\ UNCHANGED <<mutex, held>>
     ELSE Return(t, AHeapBlock)
  /\ UNCHANGED <<ready, head, next, nRef>>

-----------------------------------------------------------------------------
\* delete: freeMem() or freeObjMemory(); what is no block of a pool is freed.
Delete(t, s) ==
  LET b == held[s].block IN
  /\ At(t, "idle") /\ held[s] # NoAlloc
  /\ held' = [held EXCEPT ![s] = NoAlloc]
  /\ Become(t, IF b \in HeapBlocks THEN Idle
               ELSE [Idle EXCEPT !.pc = IF b[1] = "obj" THEN "link" ELSE "lockfree",
                                 !.pool = b[1], !.block = b])
  /\ UNCHANGED poolVars

\* Mutant of LockFree: as freeObjMemory().
LockFreeOpen(t) ==
  /\ At(t, "lockfree")
  /\ Become(t, [thread[t] EXCEPT !.pc = "link"])
  /\ UNCHANGED <<poolVars, held>>

LockFree(t) ==
  /\ At(t, "lockfree") /\ Acquire(t, Pool(t))
  /\ Become(t, [thread[t] EXCEPT !.pc = "link"])
  /\ UNCHANGED <<ready, head, next, nRef, held>>

\* --nRef; a block with references left stays out, for any other one
\* pNext = _pHeader
Link(t) ==
  LET b == thread[t].block IN
  /\ At(t, "link")
  /\ nRef' = [nRef EXCEPT ![b] = @ - 1]
  /\ IF nRef[b] = 1
     THEN /\ next' = [next EXCEPT ![b] = head[Pool(t)]]
          /\ Become(t, [thread[t] EXCEPT !.pc = "publish"])
          /\ UNCHANGED mutex
     ELSE /\ Become(t, Idle) /\ Release(t)
          /\ UNCHANGED next
  /\ UNCHANGED <<ready, head, held>>

\* _pHeader = pBlock
Publish(t) ==
  /\ At(t, "publish")
  /\ head' = [head EXCEPT ![Pool(t)] = thread[t].block]
  /\ Become(t, Idle)
  /\ Release(t)
  /\ UNCHANGED <<ready, next, nRef, held>>

-----------------------------------------------------------------------------
\* Two threads between a read of the object pool's head and the write that
\* goes with it.
InChain(t) == Pool(t) = "obj" /\ thread[t].pc \in {"unlink", "publish"}
Racing == \E t, u \in Threads : t # u /\ InChain(t) /\ InChain(u)

ThreadStep(t) ==
  \/ \E size \in Sizes : New(t, szAlloc(size), size)
  \/ New(t, "obj", ObjSize)
  \/ Lock(t) \/ ReadHead(t) \/ Unlink(t) \/ Malloc(t)
  \/ \E s \in 1..MaxHeld : Delete(t, s)
  \/ LockFree(t) \/ Link(t) \/ Publish(t)

\* What comes of a race in the chain of the object pool is not followed.
Raced == raced /\ UNCHANGED vars

Next ==
  \/ ~raced /\ (\E t \in Threads : ThreadStep(t)) /\ raced' = Racing'
  \/ Raced

Spec == Init /\ [][Next]_vars

-----------------------------------------------------------------------------
\* What is handed out is large enough for what was asked for, although the
\* pool is found by a table of sizes (MemoryMgr.hpp:175-247).
LargeEnough(allocation) ==
  allocation.block \in PoolBlocks => nSize(allocation.block[1]) >= allocation.size

TypeOK ==
  /\ ready \subseteq Pools
  /\ head \in [Pools -> PoolBlocks \cup {None}]
  /\ next \in [PoolBlocks -> PoolBlocks \cup {None}]
  /\ nRef \in [PoolBlocks -> Int]
  /\ mutex \in [Pools -> SUBSET Threads]
  /\ thread \in [Threads ->
       [pc : {"idle", "lock", "read", "unlink", "malloc", "lockfree", "link", "publish"},
        pool : Pools \cup {"heap", "none"}, block : PoolBlocks \cup {None},
        size : Sizes \cup {0, ObjSize}]]
  /\ held \in [1..MaxHeld ->
       [size : Sizes \cup {0, ObjSize}, block : PoolBlocks \cup HeapBlocks \cup {None}]]
  /\ \A s \in 1..MaxHeld : LargeEnough(held[s])
  /\ raced \in BOOLEAN

\* The free blocks of p, in the order they will be handed out.
Chain(p) ==
  LET at[n \in 0..BlockNum(p)] ==
        IF n = 0 THEN head[p] ELSE IF at[n - 1] = None THEN None ELSE next[at[n - 1]]
  IN at

\* How often b is free, in use, or with a thread that returns it.
Owners(b) ==
  Cardinality({n \in 0..BlockNum(b[1]) : Chain(b[1])[n] = b})
  + Cardinality({s \in 1..MaxHeld : held[s].block = b})
  + Cardinality({t \in Threads : thread[t].block = b
                                  /\ thread[t].pc \in {"lockfree", "link", "publish"}})

\* The pools with a mutex, and the object pool until two threads have met in
\* its chain.
Sound == {p \in ready : p # "obj" \/ ~raced}

\* No block is in use twice, or in use and free, or free twice: whatever the
\* threads do in the pools of MemoryMgr, and in the object pool as long as its
\* unlocked free has not met another change (MemoryMgr.hpp:72-129,
\* CELLObjectPool.hpp:62-116).
NoBlockTwice == \A p \in Sound : \A b \in Blocks(p) : Owners(b) <= 1

\* No block is lost: until it is handed out a block of the chain is in it, so
\* that malloc() is called only when all are in use; of the object pool the
\* chain has two blocks from the beginning (MemoryMgr.hpp:131-171,
\* CELLObjectPool.hpp:142-152).
NoBlockLost == \A p \in Sound : \A b \in Usable(p) : Owners(b) >= 1

\* The object pool allocates outside itself only when it is full: then each of
\* its blocks is in use, or with a thread that is returning it.  So its comments
\* say, and the loop that goes through every block; the code does not keep it,
\* for initPool() leaves all blocks but the first and the last out of the chain
\* (CELLObjectPool.hpp:67-77, 140-152).
HeapOnlyWhenFull ==
  \A t \in Threads : ~raced /\ At(t, "malloc") /\ Pool(t) = "obj" =>
    Blocks("obj") \subseteq InUse \cup {thread[u].block : u \in Threads}
==============================================================================
