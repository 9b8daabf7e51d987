---------------------------- MODULE ParallelPool ----------------------------
(***************************************************************************)
(* The persistent pool that runs kernels without barriers: module          *)
(* ParallelPool of sarek/sarek/Sarek_cpu_runtime_pools.ml.  parallel_for   *)
(* covers the range of the launch's threads: every worker claims chunks    *)
(* with a fetch-and-add on a shared counter until none is left, and        *)
(* parallel_for waits until every worker has reported.                     *)
(*                                                                         *)
(* The counter, the range, the chunk size and the work function are        *)
(* atomics.  parallel_for sets them one after the other before it takes    *)
(* the mutex and a worker reads them after it has released it: each access *)
(* is an action of its own.  What runs under the mutex is one action.      *)
(***************************************************************************)
EXTENDS Integers, FiniteSets

CONSTANTS
    Workers,    \* the pool's domains
    Launchers,  \* the domains that call parallel_for
    Launches,   \* the kernel launches
    MaxThreads, \* bound: threads of a launch
    ChunkSize,  \* threads claimed at once
    None        \* no launch

VARIABLES
    nextChunk,      \* the shared counter
    totalWork,      \* the range
    currentChunk,   \* the chunk size in force
    workFn,         \* the work function: the launch and its launcher
    pendingWorkers, \* the counter of workers yet to report
    generation,     \* launches so far
    firstError,     \* the launch whose exception is kept for parallel_for
    worker,         \* where each worker is
    lastGen,        \* the generation it saw last
    fn,             \* the work function it read
    total,          \* the range it read
    chunk,          \* the chunk size it read
    start,          \* the chunk it claimed
    workError,      \* has the function raised?
    launcher,       \* where each launcher is
    current,        \* the launch it is running
    range,          \* the number of threads of that launch
    outcome,        \* how its last launch ended
    \* History, which no guard reads:
    ran,            \* how often each thread of its launch was run
    failed          \* has the function raised for one of them?

sharedVars == <<nextChunk, totalWork, currentChunk, workFn>>
localVars == <<fn, total, chunk, start>>
launcherVars == <<launcher, current, range, outcome>>
historyVars == <<ran, failed>>
vars == <<sharedVars, pendingWorkers, generation, firstError, worker, lastGen, localVars,
          workError, launcherVars, historyVars>>

-----------------------------------------------------------------------------
Functions == [launch : Launches, by : Launchers]

Woken(who) == [p \in DOMAIN who |-> IF who[p] = "parked" THEN "loop" ELSE who[p]]

NoThreads == [t \in {} |-> 0]

Smaller(m, n) == IF m < n THEN m ELSE n

Init ==
    /\ nextChunk = 0
    /\ totalWork = 0
    /\ currentChunk = ChunkSize
    /\ workFn = None
    /\ pendingWorkers = 0
    /\ generation = 0
    /\ firstError = None
    /\ worker = [w \in Workers |-> "loop"]
    /\ lastGen = [w \in Workers |-> 0]
    /\ fn = [w \in Workers |-> None]
    /\ total = [w \in Workers |-> 0]
    /\ chunk = [w \in Workers |-> 0]
    /\ start = [w \in Workers |-> 0]
    /\ workError = [w \in Workers |-> FALSE]
    /\ launcher = [l \in Launchers |-> "idle"]
    /\ current = [l \in Launchers |-> None]
    /\ range = [l \in Launchers |-> 0]
    /\ outcome = [l \in Launchers |-> "none"]
    /\ ran = [l \in Launchers |-> NoThreads]
    /\ failed = [l \in Launchers |-> FALSE]

-----------------------------------------------------------------------------
Goto(l, to) == launcher' = [launcher EXCEPT ![l] = to]

\* parallel_for begins; an empty range is over at once.
Begin(l, k, n) ==
    /\ launcher[l] = "idle"
    /\ IF n = 0
          THEN /\ outcome' = [outcome EXCEPT ![l] = "returned"]
               /\ UNCHANGED <<launcher, current>>
          ELSE /\ Goto(l, "setCounter")
               /\ current' = [current EXCEPT ![l] = k]
               /\ outcome' = [outcome EXCEPT ![l] = "none"]
    /\ range' = [range EXCEPT ![l] = n]
    /\ ran' = [ran EXCEPT ![l] = [t \in 0..(n - 1) |-> 0]]
    /\ failed' = [failed EXCEPT ![l] = FALSE]
    /\ UNCHANGED <<sharedVars, pendingWorkers, generation, firstError, worker, lastGen,
                   localVars, workError>>

\* (Mutation: the counter goes on from where the last launch left it.)
CounterKept == nextChunk
CounterReset == 0

\* The counter is reset, the range, the chunk size and the function are set.
SetCounter(l) ==
    /\ launcher[l] = "setCounter"
    /\ nextChunk' = CounterReset
    /\ Goto(l, "setTotal")
    /\ UNCHANGED <<totalWork, currentChunk, workFn>>

SetTotal(l) ==
    /\ launcher[l] = "setTotal"
    /\ totalWork' = range[l]
    /\ Goto(l, "setChunk")
    /\ UNCHANGED <<nextChunk, currentChunk, workFn>>

SetChunk(l) ==
    /\ launcher[l] = "setChunk"
    /\ currentChunk' = ChunkSize
    /\ Goto(l, "setFn")
    /\ UNCHANGED <<nextChunk, totalWork, workFn>>

SetFn(l) ==
    /\ launcher[l] = "setFn"
    /\ workFn' = [launch |-> current[l], by |-> l]
    /\ Goto(l, "publish")
    /\ UNCHANGED <<nextChunk, totalWork, currentChunk>>

Store(l) ==
    /\ SetCounter(l) \/ SetTotal(l) \/ SetChunk(l) \/ SetFn(l)
    /\ UNCHANGED <<pendingWorkers, generation, firstError, worker, lastGen, localVars,
                   workError, current, range, outcome, historyVars>>

EveryWorker == Cardinality(Workers)

\* Under the mutex: every worker owes a report for the new generation; wake them, wait.
Publish(l) ==
    /\ launcher[l] = "publish"
    /\ pendingWorkers' = EveryWorker
    /\ generation' = generation + 1
    /\ worker' = Woken(worker)
    /\ Goto(l, "parked")
    /\ UNCHANGED <<sharedVars, firstError, lastGen, localVars, workError, current, range,
                   outcome, historyVars>>

WaitAgain(l) ==
    /\ launcher[l] = "loop"
    /\ pendingWorkers > 0
    /\ Goto(l, "parked")
    /\ UNCHANGED <<sharedVars, pendingWorkers, generation, firstError, worker, lastGen,
                   localVars, workError, current, range, outcome, historyVars>>

\* parallel_for is over: it takes the first error out of the pool and raises it, or returns.
Finish(l) ==
    /\ launcher[l] = "loop"
    /\ pendingWorkers <= 0
    /\ Goto(l, "idle")
    /\ current' = [current EXCEPT ![l] = None]
    /\ outcome' = [outcome EXCEPT ![l] = IF firstError = None THEN "returned" ELSE "raised"]
    /\ firstError' = None
    /\ ran' = [ran EXCEPT ![l] = NoThreads]
    /\ failed' = [failed EXCEPT ![l] = FALSE]
    /\ UNCHANGED <<sharedVars, pendingWorkers, generation, worker, lastGen, localVars,
                   workError, range>>

-----------------------------------------------------------------------------
\* A worker that neither waits nor works: the next four actions and Report hold the mutex.
Move(w, to) == worker' = [worker EXCEPT ![w] = to]

Park(w) ==
    /\ worker[w] = "loop"
    /\ generation = lastGen[w]
    /\ Move(w, "parked")
    /\ UNCHANGED <<sharedVars, pendingWorkers, generation, firstError, lastGen, localVars,
                   workError, launcherVars, historyVars>>

SeeGeneration(w) ==
    /\ worker[w] = "loop"
    /\ generation # lastGen[w]
    /\ lastGen' = [lastGen EXCEPT ![w] = generation]
    /\ Move(w, "loadFn")
    /\ UNCHANGED <<sharedVars, pendingWorkers, generation, firstError, localVars, workError,
                   launcherVars, historyVars>>

\* The worker reads the function, the range and the chunk size, mutex released.
LoadFn(w) ==
    /\ worker[w] = "loadFn"
    /\ fn' = [fn EXCEPT ![w] = workFn]
    /\ Move(w, "loadTotal")
    /\ UNCHANGED <<total, chunk, start>>

LoadTotal(w) ==
    /\ worker[w] = "loadTotal"
    /\ total' = [total EXCEPT ![w] = totalWork]
    /\ Move(w, "loadChunk")
    /\ UNCHANGED <<fn, chunk, start>>

LoadChunk(w) ==
    /\ worker[w] = "loadChunk"
    /\ chunk' = [chunk EXCEPT ![w] = currentChunk]
    /\ Move(w, "claim")
    /\ UNCHANGED <<fn, total, start>>

Load(w) ==
    /\ LoadFn(w) \/ LoadTotal(w) \/ LoadChunk(w)
    /\ UNCHANGED <<sharedVars, pendingWorkers, generation, firstError, lastGen, workError,
                   launcherVars, historyVars>>

\* fetch_and_add: the next chunk is this worker's, unless the range is used up.
Claim(w) ==
    /\ worker[w] = "claim"
    /\ nextChunk' = nextChunk + chunk[w]
    /\ start' = [start EXCEPT ![w] = nextChunk]
    /\ Move(w, IF nextChunk < total[w] THEN "work" ELSE "report")
    /\ UNCHANGED <<totalWork, currentChunk, workFn, pendingWorkers, generation, firstError,
                   lastGen, fn, total, chunk, workError, launcherVars, historyVars>>

Claimed(w) == start[w]..(Smaller(start[w] + chunk[w], total[w]) - 1)

\* (Mutation: a raise leaves the worker without its report.)
ToNothing == "dead"
ToReport == "report"

\* The function runs the threads of the chunk, or some first of them and raises.
Work(w) ==
    LET l == fn[w].by
        Ran(T) == [ran EXCEPT ![l] = [t \in DOMAIN @ |-> IF t \in T THEN @[t] + 1 ELSE @[t]]]
    IN
    /\ worker[w] = "work"
    /\ \/ /\ ran' = Ran(Claimed(w))
          /\ Move(w, "claim")
          /\ UNCHANGED <<workError, failed>>
       \/ \E t \in Claimed(w) :
             /\ ran' = Ran(start[w]..t)
             /\ workError' = [workError EXCEPT ![w] = TRUE]
             /\ failed' = [failed EXCEPT ![l] = TRUE]
             /\ Move(w, ToReport)
    /\ UNCHANGED <<sharedVars, pendingWorkers, generation, firstError, lastGen, localVars,
                   launcherVars>>

\* Back under the mutex, raised or not: keep the first error, count the worker out.
Report(w) ==
    /\ worker[w] = "report"
    /\ firstError' = IF firstError = None /\ workError[w] THEN fn[w].launch ELSE firstError
    /\ pendingWorkers' = pendingWorkers - 1
    /\ \/ /\ pendingWorkers # 1 \/ \A l \in Launchers : launcher[l] # "parked"
          /\ UNCHANGED launcher
       \/ \E l \in Launchers :  \* Condition.signal wakes one
             /\ pendingWorkers = 1
             /\ launcher[l] = "parked"
             /\ launcher' = [launcher EXCEPT ![l] = "loop"]
    /\ Move(w, "loop")
    /\ fn' = [fn EXCEPT ![w] = None]
    /\ total' = [total EXCEPT ![w] = 0]
    /\ chunk' = [chunk EXCEPT ![w] = 0]
    /\ start' = [start EXCEPT ![w] = 0]
    /\ workError' = [workError EXCEPT ![w] = FALSE]
    /\ UNCHANGED <<sharedVars, generation, lastGen, current, range, outcome, historyVars>>

\* A wakeup out of nothing.
WakeLauncher(l) ==
    /\ launcher[l] = "parked"
    /\ Goto(l, "loop")
    /\ UNCHANGED <<sharedVars, pendingWorkers, generation, firstError, worker, lastGen,
                   localVars, workError, current, range, outcome, historyVars>>

WorkerStep(w) ==
    Park(w) \/ SeeGeneration(w) \/ Load(w) \/ Claim(w) \/ Work(w) \/ Report(w)

LauncherStep(l) == Store(l) \/ Publish(l) \/ WaitAgain(l)

Step ==
    \/ \E w \in Workers : WorkerStep(w)
    \/ \E l \in Launchers : LauncherStep(l) \/ WakeLauncher(l)

Next ==
    \/ Step
    \/ \E l \in Launchers :
          Finish(l) \/ \E k \in Launches, n \in 0..MaxThreads : Begin(l, k, n)

Spec == Init /\ [][Next]_vars

-----------------------------------------------------------------------------
(* Properties *)

\* Type correctness of the pool record, its workers and its launchers.
TypeOK ==
    /\ nextChunk \in Nat
    /\ totalWork \in 0..MaxThreads
    /\ currentChunk = ChunkSize
    /\ workFn \in Functions \cup {None}
    /\ pendingWorkers \in 0..Cardinality(Workers)
    /\ generation \in Nat
    /\ firstError \in Launches \cup {None}
    /\ worker \in [Workers -> {"loop", "parked", "loadFn", "loadTotal", "loadChunk", "claim",
                               "work", "report"}]
    /\ lastGen \in [Workers -> Nat]
    /\ fn \in [Workers -> Functions \cup {None}]
    /\ total \in [Workers -> 0..MaxThreads]
    /\ chunk \in [Workers -> {0, ChunkSize}]
    /\ start \in [Workers -> Nat]
    /\ workError \in [Workers -> BOOLEAN]
    /\ launcher \in [Launchers -> {"idle", "setCounter", "setTotal", "setChunk", "setFn",
                                   "publish", "loop", "parked"}]
    /\ current \in [Launchers -> Launches \cup {None}]
    /\ range \in [Launchers -> 0..MaxThreads]
    /\ outcome \in [Launchers -> {"none", "returned", "raised"}]
    /\ \A l \in Launchers : \A t \in DOMAIN ran[l] : ran[l][t] \in Nat
    /\ failed \in [Launchers -> BOOLEAN]

\* parallel_for returns after every thread of the range was run exactly once; it raises
\* instead exactly when the function raised, and never for an earlier launch's error.
RunsEveryThreadOnce ==
    [][\A l \in Launchers :
         current[l] # None /\ current'[l] = None =>
            /\ outcome'[l] = "returned" => \A t \in DOMAIN ran[l] : ran[l][t] = 1
            /\ outcome'[l] = "raised" <=> failed[l]
            /\ \A t \in DOMAIN ran[l] : ran[l][t] <= 1]_vars
=============================================================================
