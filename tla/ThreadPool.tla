----------------------------- MODULE ThreadPool -----------------------------
(***************************************************************************)
(* The persistent pool that runs kernels with barriers: module ThreadPool  *)
(* of sarek/sarek/Sarek_cpu_runtime_pools.ml.  run_kernel gives each       *)
(* worker a contiguous range of the launch's blocks in the worker's slot,  *)
(* publishes them as a new generation and waits until no worker owes it    *)
(* anything.                                                               *)
(*                                                                         *)
(* A critical section under the pool's mutex is one action.  Slots are     *)
(* atomics: a worker reads and clears its own with the mutex released, so  *)
(* these are actions of their own.  A thread that waits on a condition     *)
(* variable is "parked"; when it is woken it is back in its loop's test.   *)
(* A launcher may be woken for no reason; a worker that is would test,     *)
(* outside of any launch, what it tests before it parks.                   *)
(*                                                                         *)
(* A launch is an element of Launches.  Nothing calls shutdown.            *)
(***************************************************************************)
EXTENDS Integers, FiniteSets

CONSTANTS
    NumWorkers, \* the size of the pool
    Launchers,  \* the domains that call run_kernel
    Launches,   \* the kernel launches
    MaxBlocks,  \* bound: blocks of a grid
    None        \* an empty slot, no launch

VARIABLES
    work,           \* the slots
    pendingWorkers, \* the counter of workers yet to finish the launch
    generation,     \* launches so far
    firstError,     \* the launch whose exception is kept for run_kernel
    worker,         \* where each worker is
    lastGen,        \* the generation it saw last
    item,           \* the work item it read from its slot
    block,          \* the next block of the item
    workError,      \* has the item raised?
    launcher,       \* where each launcher is
    current,        \* the launch it is running
    outcome,        \* how its last launch ended
    \* History, which no guard reads:
    ran,            \* how often each block of its launch was run
    failed          \* has one of them raised?

workerVars == <<worker, lastGen, item, block, workError>>
historyVars == <<ran, failed>>
vars == <<work, pendingWorkers, generation, firstError, workerVars, launcher, current, outcome,
          historyVars>>

-----------------------------------------------------------------------------
Workers == 0..(NumWorkers - 1)
Blocks == 0..(MaxBlocks - 1)
Items == [launch : Launches, by : Launchers, start : Blocks, end : 1..MaxBlocks]

NoBlocks == [b \in {} |-> 0]

Smaller(m, n) == IF m < n THEN m ELSE n

(* The range of each worker: ceil(total / workers) blocks, the last one short,
   those past the end without work. *)
BlocksPerWorker(total) == (total + NumWorkers - 1) \div NumWorkers
StartBlock(i, total) == i * BlocksPerWorker(total)
EndBlock(i, total) == Smaller((i + 1) * BlocksPerWorker(total), total)
Active(total) == {i \in Workers : StartBlock(i, total) < total}

\* Condition.broadcast on the workers or the launchers.
Woken(who) == [p \in DOMAIN who |-> IF who[p] = "parked" THEN "loop" ELSE who[p]]

-----------------------------------------------------------------------------
Init ==
    /\ work = [i \in Workers |-> None]
    /\ pendingWorkers = 0
    /\ generation = 0
    /\ firstError = None
    /\ worker = [w \in Workers |-> "loop"]
    /\ lastGen = [w \in Workers |-> 0]
    /\ item = [w \in Workers |-> None]
    /\ block = [w \in Workers |-> 0]
    /\ workError = [w \in Workers |-> FALSE]
    /\ launcher = [l \in Launchers |-> "idle"]
    /\ current = [l \in Launchers |-> None]
    /\ outcome = [l \in Launchers |-> "none"]
    /\ ran = [l \in Launchers |-> NoBlocks]
    /\ failed = [l \in Launchers |-> FALSE]

\* run_kernel fills the slots, publishes the generation, wakes the workers and waits.
\* A slot without a range keeps what it holds.  Without any range it does not wait: the
\* code goes on under the same lock, which here others may take first.
RunKernel(l, k, total) ==
    /\ launcher[l] = "idle"
    /\ work' = [i \in Workers |->
                  IF i \in Active(total)
                  THEN [launch |-> k, by |-> l,
                        start |-> StartBlock(i, total), end |-> EndBlock(i, total)]
                  ELSE work[i]]
    /\ pendingWorkers' = Cardinality(Active(total))
    /\ generation' = generation + 1
    /\ worker' = Woken(worker)
    /\ launcher' = [launcher EXCEPT ![l] = IF Active(total) = {} THEN "loop" ELSE "parked"]
    /\ current' = [current EXCEPT ![l] = k]
    /\ outcome' = [outcome EXCEPT ![l] = "none"]
    /\ ran' = [ran EXCEPT ![l] = [b \in 0..(total - 1) |-> 0]]
    /\ failed' = [failed EXCEPT ![l] = FALSE]
    /\ UNCHANGED <<firstError, lastGen, item, block, workError>>

\* Woken with workers still pending: wait again.
WaitAgain(l) ==
    /\ launcher[l] = "loop"
    /\ pendingWorkers > 0
    /\ launcher' = [launcher EXCEPT ![l] = "parked"]
    /\ UNCHANGED <<work, pendingWorkers, generation, firstError, workerVars, current, outcome,
                   historyVars>>

\* run_kernel is over: it takes the first error out of the pool and raises it, or returns.
Finish(l) ==
    /\ launcher[l] = "loop"
    /\ pendingWorkers <= 0
    /\ launcher' = [launcher EXCEPT ![l] = "idle"]
    /\ current' = [current EXCEPT ![l] = None]
    /\ outcome' = [outcome EXCEPT ![l] = IF firstError = None THEN "returned" ELSE "raised"]
    /\ firstError' = None
    /\ ran' = [ran EXCEPT ![l] = NoBlocks]
    /\ failed' = [failed EXCEPT ![l] = FALSE]
    /\ UNCHANGED <<work, pendingWorkers, generation, workerVars>>

-----------------------------------------------------------------------------
\* No new generation: park.
Park(w) ==
    /\ worker[w] = "loop"
    /\ generation = lastGen[w]
    /\ worker' = [worker EXCEPT ![w] = "parked"]
    /\ UNCHANGED <<work, pendingWorkers, generation, firstError, lastGen, item, block,
                   workError, launcher, current, outcome, historyVars>>

\* A new generation: go and look in the slot, with the mutex released.
SeeGeneration(w) ==
    /\ worker[w] = "loop"
    /\ generation # lastGen[w]
    /\ lastGen' = [lastGen EXCEPT ![w] = generation]
    /\ worker' = [worker EXCEPT ![w] = "fetch"]
    /\ UNCHANGED <<work, pendingWorkers, generation, firstError, item, block, workError,
                   launcher, current, outcome, historyVars>>

\* The slot is empty: nothing to do and nothing to signal.
FetchNothing(w) ==
    /\ worker[w] = "fetch"
    /\ work[w] = None
    /\ worker' = [worker EXCEPT ![w] = "loop"]
    /\ UNCHANGED <<work, pendingWorkers, generation, firstError, lastGen, item, block,
                   workError, launcher, current, outcome, historyVars>>

Fetch(w) ==
    /\ worker[w] = "fetch"
    /\ work[w] # None
    /\ item' = [item EXCEPT ![w] = work[w]]
    /\ block' = [block EXCEPT ![w] = work[w].start]
    /\ worker' = [worker EXCEPT ![w] = "running"]
    /\ UNCHANGED <<work, pendingWorkers, generation, firstError, lastGen, workError,
                   launcher, current, outcome, historyVars>>

\* The next block of the item is run; if it raises, the item's other blocks are not.
RunBlock(w) ==
    LET l == item[w].by IN
    /\ worker[w] = "running"
    /\ ran' = IF block[w] \in DOMAIN ran[l] THEN [ran EXCEPT ![l][block[w]] = @ + 1] ELSE ran
    /\ \/ /\ block' = [block EXCEPT ![w] = @ + 1]
          /\ worker' = [worker EXCEPT ![w] = IF block'[w] < item[w].end THEN @ ELSE "clear"]
          /\ UNCHANGED <<workError, failed>>
       \/ /\ workError' = [workError EXCEPT ![w] = TRUE]
          /\ failed' = [failed EXCEPT ![l] = TRUE]
          /\ worker' = [worker EXCEPT ![w] = "clear"]
          /\ UNCHANGED block
    /\ UNCHANGED <<work, pendingWorkers, generation, firstError, lastGen, item, launcher,
                   current, outcome>>

SlotCleared(w) == [work EXCEPT ![w] = None]

\* The item is through: its slot is emptied.
ClearSlot(w) ==
    /\ worker[w] = "clear"
    /\ work' = SlotCleared(w)
    /\ worker' = [worker EXCEPT ![w] = "signal"]
    /\ UNCHANGED <<pendingWorkers, generation, firstError, lastGen, item, block, workError,
                   launcher, current, outcome, historyVars>>

\* Back under the mutex: keep the first error, count the worker out, wake the launchers
\* when it was the last.
Signal(w) ==
    /\ worker[w] = "signal"
    /\ firstError' = IF firstError = None /\ workError[w] THEN item[w].launch ELSE firstError
    /\ pendingWorkers' = pendingWorkers - 1
    /\ launcher' = IF pendingWorkers = 1 THEN Woken(launcher) ELSE launcher
    /\ worker' = [worker EXCEPT ![w] = "loop"]
    /\ item' = [item EXCEPT ![w] = None]
    /\ block' = [block EXCEPT ![w] = 0]
    /\ workError' = [workError EXCEPT ![w] = FALSE]
    /\ UNCHANGED <<work, generation, lastGen, current, outcome, historyVars>>

\* A wakeup out of nothing.
WakeLauncher(l) ==
    /\ launcher[l] = "parked"
    /\ launcher' = [launcher EXCEPT ![l] = "loop"]
    /\ UNCHANGED <<work, pendingWorkers, generation, firstError, workerVars, current, outcome,
                   historyVars>>

WorkerStep(w) ==
    \/ Park(w) \/ SeeGeneration(w) \/ FetchNothing(w) \/ Fetch(w)
    \/ RunBlock(w) \/ ClearSlot(w) \/ Signal(w)

Step ==
    \/ \E w \in Workers : WorkerStep(w)
    \/ \E l \in Launchers : WaitAgain(l) \/ WakeLauncher(l)

Next ==
    \/ Step
    \/ \E l \in Launchers :
          Finish(l) \/ \E k \in Launches, total \in 0..MaxBlocks : RunKernel(l, k, total)

Spec == Init /\ [][Next]_vars

-----------------------------------------------------------------------------
(* Properties *)

\* Type correctness of the pool record, its workers and its launchers.
TypeOK ==
    /\ work \in [Workers -> Items \cup {None}]
    /\ pendingWorkers \in 0..NumWorkers
    /\ generation \in Nat
    /\ firstError \in Launches \cup {None}
    /\ worker \in [Workers -> {"loop", "parked", "fetch", "running", "clear", "signal"}]
    /\ lastGen \in [Workers -> Nat]
    /\ item \in [Workers -> Items \cup {None}]
    /\ block \in [Workers -> 0..MaxBlocks]
    /\ workError \in [Workers -> BOOLEAN]
    /\ launcher \in [Launchers -> {"idle", "loop", "parked"}]
    /\ current \in [Launchers -> Launches \cup {None}]
    /\ outcome \in [Launchers -> {"none", "returned", "raised"}]
    /\ \A l \in Launchers : \A b \in DOMAIN ran[l] : b \in Blocks /\ ran[l][b] \in Nat
    /\ failed \in [Launchers -> BOOLEAN]

\* run_kernel returns after every block of the launch was run exactly once; it raises
\* instead exactly when one of them raised, and never for an earlier launch's error.
RunsEveryBlockOnce ==
    [][\A l \in Launchers :
         current[l] # None /\ current'[l] = None =>
            /\ outcome'[l] = "returned" => \A b \in DOMAIN ran[l] : ran[l][b] = 1
            /\ outcome'[l] = "raised" <=> failed[l]
            /\ \A b \in DOMAIN ran[l] : ran[l][b] <= 1]_vars
=============================================================================
