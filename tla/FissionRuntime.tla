--------------------------- MODULE FissionRuntime ---------------------------
(***************************************************************************)
(* The persistent pools of the CPU runtime and all that launches on them.  *)
(*                                                                         *)
(* A kernel is run by run_threadpool of sarek/sarek/Sarek_cpu_runtime.ml:  *)
(* one with barriers goes to the ThreadPool, one without to the            *)
(* ParallelPool.  It is called by the client's own domain or, for a kernel *)
(* enqueued in a launch queue, by the queue's dispatcher.  The pools are   *)
(* global: every caller launches on the same two.  The call is over when   *)
(* the pool's run is, and raises what it raises.                           *)
(***************************************************************************)
EXTENDS Integers, Sequences

CONSTANTS
    Clients, Queues, Launches, None,
    NumWorkers, \* the size of each pool
    MaxBlocks,  \* bound: blocks of a grid
    MaxThreads, \* bound: threads of a grid without barriers
    Grids,      \* the numbers of blocks launched with barriers
    Ranges,     \* the numbers of threads launched without
    ChunkSize,  \* threads claimed at once
    OneAtATime  \* does the program have at most one kernel running at a time?

ASSUME OneAtATimeAssumption == OneAtATime \in BOOLEAN
ASSUME NoneAssumption == None \notin Launches
ASSUME BoundsAssumption == {MaxBlocks, MaxThreads} \subseteq Nat
ASSUME WorkersAssumption == {NumWorkers, ChunkSize} \subseteq Nat \ {0}
ASSUME SizesAssumption == Grids \subseteq 0..MaxBlocks /\ Ranges \subseteq 0..MaxThreads

VARIABLES
    \* the launch queues and their clients
    queue, pending, dispatcher, executing, client, flushing, enqueued, completed, owed,
    direct, \* the launches the clients called themselves, and
    calling,\* whether a client is in such a call
    \* the ThreadPool
    tWork, tPending, tGeneration, tFirstError, tWorker, tLastGen, tItem, tBlock, tWorkError,
    tLauncher, tCurrent, tOutcome, tRan, tFailed,
    \* the ParallelPool
    pNextChunk, pTotalWork, pCurrentChunk, pWorkFn, pPending, pGeneration, pFirstError, pWorker,
    pLastGen, pFn, pTotal, pChunk, pStart, pWorkError, pLauncher, pCurrent, pRange, pOutcome,
    pRan, pFailed

queueVars  == <<queue, pending, dispatcher, executing, client, flushing, enqueued, completed,
                owed>>
threadVars == <<tWork, tPending, tGeneration, tFirstError, tWorker, tLastGen, tItem, tBlock,
                tWorkError, tLauncher, tCurrent, tOutcome, tRan, tFailed>>
parallelVars == <<pNextChunk, pTotalWork, pCurrentChunk, pWorkFn, pPending, pGeneration,
                  pFirstError, pWorker, pLastGen, pFn, pTotal, pChunk, pStart, pWorkError,
                  pLauncher, pCurrent, pRange, pOutcome, pRan, pFailed>>
callVars == <<direct, calling>>
vars == <<queueVars, callVars, threadVars, parallelVars>>

Workers == 0..(NumWorkers - 1)
Callers == Queues \cup Clients

LQ == INSTANCE LaunchQueue

TP == INSTANCE ThreadPool WITH
    Launchers <- Callers, work <- tWork, pendingWorkers <- tPending, generation <- tGeneration,
    firstError <- tFirstError, worker <- tWorker, lastGen <- tLastGen, item <- tItem,
    block <- tBlock, workError <- tWorkError, launcher <- tLauncher, current <- tCurrent,
    outcome <- tOutcome, ran <- tRan, failed <- tFailed

PP == INSTANCE ParallelPool WITH
    Launchers <- Callers, nextChunk <- pNextChunk, totalWork <- pTotalWork,
    currentChunk <- pCurrentChunk, workFn <- pWorkFn, pendingWorkers <- pPending,
    generation <- pGeneration, firstError <- pFirstError, worker <- pWorker,
    lastGen <- pLastGen, fn <- pFn, total <- pTotal, chunk <- pChunk, start <- pStart,
    workError <- pWorkError, launcher <- pLauncher, current <- pCurrent, range <- pRange,
    outcome <- pOutcome, ran <- pRan, failed <- pFailed

\* A queue's dispatcher is a domain of its own.
ASSUME CallersAssumption == Clients \cap Queues = {}
\* No work item and no work function is the empty slot.
ASSUME SlotsAssumption == None \notin TP!Items /\ None \notin PP!Functions

-----------------------------------------------------------------------------
Init == /\ LQ!Init /\ TP!Init /\ PP!Init
        /\ direct = {} /\ calling = [c \in Clients |-> FALSE]

\* A program that launches one kernel at a time waits for the last to end.
MayCall ==
    OneAtATime => \A x \in Callers : tLauncher[x] = "idle" /\ pLauncher[x] = "idle"

\* run_threadpool: a kernel with barriers, over a grid of so many blocks, or one
\* without, over so many threads.
RunThreadpool(x, k) ==
    /\ MayCall
    /\ \/ /\ \E total \in Grids : TP!RunKernel(x, k, total)
          /\ UNCHANGED parallelVars
       \/ /\ \E n \in Ranges : PP!Begin(x, k, n)
          /\ UNCHANGED threadVars

\* It is over, with this outcome: with no threads to run, parallel_for is at once.
ReturnsAtOnce(x) ==
    /\ tLauncher[x] = "idle" /\ pLauncher[x] = "idle"
    /\ pOutcome[x] = "returned" /\ pRange[x] = 0
    /\ UNCHANGED <<threadVars, parallelVars>>

Ends(x, outcome) ==
    \/ TP!Finish(x) /\ tOutcome'[x] = outcome /\ UNCHANGED parallelVars
    \/ PP!Finish(x) /\ pOutcome'[x] = outcome /\ UNCHANGED threadVars
    \/ ReturnsAtOnce(x) /\ outcome = "returned"

-----------------------------------------------------------------------------
(* Clients *)

\* The launches are made in the order of their numbers: names do not matter.
Made == direct \cup LQ!Enqueued
Fresh(k) == Made = {j \in Launches : j < k}

Enqueue(c, q, k) ==
    /\ ~calling[c] /\ Fresh(k)
    /\ LQ!Enqueue(c, q, k)
    /\ UNCHANGED <<callVars, threadVars, parallelVars>>

\* A client runs a kernel itself.
CallDirectly(c, k) ==
    /\ ~calling[c] /\ client[c] = "idle" /\ Fresh(k)
    /\ RunThreadpool(c, k)
    /\ calling' = [calling EXCEPT ![c] = TRUE]
    /\ direct' = direct \cup {k}
    /\ UNCHANGED queueVars

\* The client's call returns or raises, which the client survives.
DirectCallEnds(c) ==
    /\ calling[c]
    /\ \E outcome \in {"returned", "raised"} : Ends(c, outcome)
    /\ calling' = [calling EXCEPT ![c] = FALSE]
    /\ UNCHANGED <<queueVars, direct>>

Flush(c) ==
    /\ ~calling[c]
    /\ \E qs \in LQ!Flushable : qs # <<>> /\ LQ!Flush(c, qs)
    /\ UNCHANGED <<callVars, threadVars, parallelVars>>

FlushStep(c) == LQ!ClientStep(c) /\ UNCHANGED <<callVars, threadVars, parallelVars>>

-----------------------------------------------------------------------------
(* Dispatchers *)

Dispatch(q) ==
    /\ LQ!Park(q) \/ LQ!Pop(q) \/ LQ!Mark(q)
    /\ UNCHANGED <<callVars, threadVars, parallelVars>>

DispatcherCalls(q) ==
    /\ LQ!Call(q)
    /\ RunThreadpool(q, executing[q])
    /\ UNCHANGED callVars

DispatcherCallEnds(q) ==
    /\ \/ Ends(q, "returned") /\ LQ!KernelReturns(q)
       \/ Ends(q, "raised") /\ LQ!KernelRaises(q)
    /\ UNCHANGED callVars

-----------------------------------------------------------------------------
(* Scheduling *)

\* What a caller does in the pools while its call is in progress.
CallStep(x) ==
    \/ TP!WaitAgain(x) /\ UNCHANGED <<queueVars, callVars, parallelVars>>
    \/ PP!LauncherStep(x) /\ UNCHANGED <<queueVars, callVars, threadVars>>

ClientStep(c) == FlushStep(c) \/ CallStep(c) \/ DirectCallEnds(c)
DispatcherStep(q) == Dispatch(q) \/ DispatcherCalls(q) \/ DispatcherCallEnds(q) \/ CallStep(q)

ThreadWorkerStep(w) == TP!WorkerStep(w) /\ UNCHANGED <<queueVars, callVars, parallelVars>>
ParallelWorkerStep(w) == PP!WorkerStep(w) /\ UNCHANGED <<queueVars, callVars, threadVars>>

\* A caller in a pool is woken for no reason.
Wakeup(x) ==
    \/ TP!WakeLauncher(x) /\ UNCHANGED <<queueVars, callVars, parallelVars>>
    \/ PP!WakeLauncher(x) /\ UNCHANGED <<queueVars, callVars, threadVars>>

Next ==
    \/ \E c \in Clients :
          \/ \E k \in Launches : CallDirectly(c, k) \/ \E q \in Queues : Enqueue(c, q, k)
          \/ Flush(c) \/ ClientStep(c)
    \/ \E q \in Queues : DispatcherStep(q)
    \/ \E w \in Workers : ThreadWorkerStep(w) \/ ParallelWorkerStep(w)
    \/ \E x \in Callers : Wakeup(x)

Spec == Init /\ [][Next]_vars

\* Every domain is scheduled: dispatchers, workers and clients in a flush or in a call
\* keep going.
FairSpec ==
    /\ Spec
    /\ \A q \in Queues : WF_vars(DispatcherStep(q))
    /\ \A w \in Workers : WF_vars(ThreadWorkerStep(w)) /\ WF_vars(ParallelWorkerStep(w))
    /\ \A c \in Clients : WF_vars(ClientStep(c))

-----------------------------------------------------------------------------
(* The service *)

\* A caller is in a call of run_threadpool; items of its grid raised.
InCall(x) == IF x \in Clients THEN calling[x] ELSE dispatcher[x] = "running"
Raising(x) == tFailed[x] \/ pFailed[x]

\* Where a caller is as LaunchService sees it: a dispatcher that waits, pops or marks
\* is free, and a client in a flush is in it whether it is parked or not.
BetweenCalls(x) ==
    IF x \in Clients THEN IF client[x] = "idle" THEN "free" ELSE "flushing"
    ELSE IF dispatcher[x] = "dead" THEN "dead" ELSE "free"
At(x) == IF ~InCall(x) THEN BetweenCalls(x) ELSE IF Raising(x) THEN "raising" ELSE "running"

\* The launches of a queue whose kernel was called: what is popped, but for one that is
\* about to be called.
Called(q) ==
    LET popped == Len(enqueued[q]) - Len(queue[q])
    IN  IF dispatcher[q] = "popped" THEN popped - 1 ELSE popped

\* What has run of a call's grid, in the pool it went to.
Ran(x) == IF tLauncher[x] = "idle" THEN pRan[x] ELSE tRan[x]

Service == INSTANCE LaunchService WITH
    Sizes <- Grids \cup Ranges, called <- [q \in Queues |-> Called(q)],
    at <- [x \in Callers |-> At(x)], ran <- [x \in Callers |-> Ran(x)]

-----------------------------------------------------------------------------
(* Properties *)

\* When one kernel runs at a time, the dispatchers, the pools and their workers are
\* together what LaunchService is: no interleaving of them shows a client a launch out of
\* order, an item run twice, a call that ends early or a flush that does not wait.
ImplementsService == Service!Spec

\* Type correctness of the queues and of both pools.
TypeOK ==
    /\ LQ!TypeOK /\ TP!TypeOK /\ PP!TypeOK
    /\ direct \in SUBSET Launches
    /\ calling \in [Clients -> BOOLEAN]

\* "Same queue_id: kernels execute in order (serialized)", and a flush that returns leaves
\* nothing behind in its queues, what was running when it was called included.
ServedInOrder == LQ!InOrder /\ LQ!FlushWaits

\* Each pool runs every block or thread of a launch once and reports its errors, also
\* after a launch that failed and while the other pool is at work.
RunsItsGridOnce == TP!RunsEveryBlockOnce /\ PP!RunsEveryThreadOnce

\* "Different queue_id: kernels can run in parallel (one dispatcher per queue)": a kernel
\* of a queue has run all its blocks when its call returns, whatever other queues do.
QueuesRunInParallel ==
    [][direct' = {} =>
         \A q \in Queues :
            tCurrent[q] # None /\ tCurrent'[q] = None /\ tOutcome'[q] = "returned"
               => \A b \in DOMAIN tRan[q] : tRan[q][b] = 1]_vars

\* "Wait for a specific queue to complete": a flush comes to an end unless a kernel
\* raised: no lost wakeup and no worker that fails to report keeps a launch pending.
FlushReturnsUnlessDead ==
    \A c \in Clients :
        client[c] = "loop" ~> client[c] = "idle" \/ \E q \in Queues : dispatcher[q] = "dead"
=============================================================================
