----------------------------- MODULE DomainPool -----------------------------
(***************************************************************************)
(* The domain pool of sarek/sarek/Sarek_cpu_runtime_pools.ml and of its    *)
(* twin in sarek/interp/Sarek_ir_interp.ml, with its one kind of client:   *)
(* a launch (run_parallel_with_barriers, run_grid_parallel) that submits a *)
(* task per block and then waits for all of them.                          *)
(*                                                                         *)
(* The pool is global and takes any number of concurrent launchers.  The   *)
(* critical sections run under the pool's mutex and are one action each.   *)
(* Waiting on a condition variable is the state "parked": a parked thread  *)
(* runs again when it is signalled, and then rechecks its condition.       *)
(* Nothing calls the pool's shutdown.                                      *)
(***************************************************************************)
EXTENDS Naturals, Sequences, FiniteSets

CONSTANTS
    Workers,    \* the pool's domains
    Launchers,  \* the domains that launch kernels
    NumBlocks,  \* the blocks of a grid
    MaxLaunches,\* bound: launches of each launcher
    None        \* no task

ASSUME BlocksAssumption == NumBlocks \in Nat /\ MaxLaunches \in Nat

VARIABLES
    taskQueue,   \* the tasks submitted and not yet popped
    activeTasks, \* the counter of tasks popped and not yet finished
    firstError,  \* the task whose exception is kept for wait_all
    worker,      \* where each worker is
    task,        \* the task it popped
    taskError,   \* did that task raise?
    launcher,    \* where each launcher is
    launches,    \* the launches it began
    submitted,   \* the blocks of its launch it submitted
    outcome,     \* how its last launch ended
    \* History, which no guard reads:
    finished,    \* the tasks of the last launches that ran to their end
    failed,      \* those of them that raised
    alone        \* has no other launch overlapped the one in progress?

workerVars == <<worker, task, taskError>>
launcherVars == <<launcher, launches, submitted, outcome>>
vars == <<taskQueue, activeTasks, firstError, workerVars, launcherVars, finished, failed, alone>>

-----------------------------------------------------------------------------
Tasks == [by : Launchers, block : 1..NumBlocks]

TasksOf(l) == {t \in Tasks : t.by = l}

ASSUME WorkersAssumption == IsFiniteSet(Workers) /\ None \notin Tasks

Outcomes == {"none", "returned", "raised"}

\* Condition.broadcast and Condition.signal on a condition variable's waiters.
Woken(who) == [p \in DOMAIN who |-> IF who[p] = "parked" THEN "loop" ELSE who[p]]

WakesOne(who, after) ==
    \/ /\ \A p \in DOMAIN who : who[p] # "parked"
       /\ after = who
    \/ \E p \in DOMAIN who : who[p] = "parked" /\ after = [who EXCEPT ![p] = "loop"]

\* No launch in progress.
Idle(l) == launcher[l] = "idle"

-----------------------------------------------------------------------------
Init ==
    /\ taskQueue = <<>>
    /\ activeTasks = 0
    /\ firstError = None
    /\ worker = [w \in Workers |-> "loop"]
    /\ task = [w \in Workers |-> None]
    /\ taskError = [w \in Workers |-> FALSE]
    /\ launcher = [l \in Launchers |-> "idle"]
    /\ launches = [l \in Launchers |-> 0]
    /\ submitted = [l \in Launchers |-> 0]
    /\ outcome = [l \in Launchers |-> "none"]
    /\ finished = {}
    /\ failed = {}
    /\ alone = [l \in Launchers |-> TRUE]

\* A kernel is launched.
Launch(l) ==
    /\ launcher[l] = "idle"
    /\ launches[l] < MaxLaunches
    /\ launcher' = [launcher EXCEPT ![l] = "submitting"]
    /\ launches' = [launches EXCEPT ![l] = @ + 1]
    /\ submitted' = [submitted EXCEPT ![l] = 0]
    /\ outcome' = [outcome EXCEPT ![l] = "none"]
    /\ alone' = [m \in Launchers |->
                    IF m = l THEN \A o \in Launchers \ {l} : Idle(o)
                             ELSE alone[m] /\ Idle(m)]
    /\ finished' = finished \ TasksOf(l)
    /\ failed' = failed \ TasksOf(l)
    /\ UNCHANGED <<taskQueue, activeTasks, firstError, workerVars>>

\* submit: the block's task goes in the queue and one waiting worker is signalled.
Submit(l) ==
    /\ launcher[l] = "submitting"
    /\ submitted[l] < NumBlocks
    /\ submitted' = [submitted EXCEPT ![l] = @ + 1]
    /\ taskQueue' = Append(taskQueue,
                           [by |-> l, block |-> submitted[l] + 1])
    /\ WakesOne(worker, worker')
    /\ UNCHANGED <<activeTasks, firstError, task, taskError, launcher, launches, outcome,
                   finished, failed, alone>>

\* All the blocks are submitted: on to wait_all.
Submitted(l) ==
    /\ launcher[l] = "submitting"
    /\ submitted[l] = NumBlocks
    /\ launcher' = [launcher EXCEPT ![l] = "loop"]
    /\ UNCHANGED <<taskQueue, activeTasks, firstError, workerVars, launches, submitted,
                   outcome, finished, failed, alone>>

\* The condition of wait_all.
Drained == activeTasks = 0 /\ taskQueue = <<>>

\* wait_all parks while a task is queued or active.
WaitAllParks(l) ==
    /\ launcher[l] = "loop"
    /\ ~Drained
    /\ launcher' = [launcher EXCEPT ![l] = "parked"]
    /\ UNCHANGED <<taskQueue, activeTasks, firstError, workerVars, launches, submitted,
                   outcome, finished, failed, alone>>

\* (Mutation: the error is left for the next launch too.)
KeepError == firstError
TakeError == None

\* wait_all returns, or re-raises the error it takes out of the pool.
WaitAllReturns(l) ==
    /\ launcher[l] = "loop"
    /\ Drained
    /\ launcher' = [launcher EXCEPT ![l] = "idle"]
    /\ outcome' = [outcome EXCEPT ![l] = IF firstError = None THEN "returned" ELSE "raised"]
    /\ firstError' = TakeError
    /\ UNCHANGED <<taskQueue, activeTasks, workerVars, launches, submitted, finished, failed,
                   alone>>

-----------------------------------------------------------------------------
\* A worker finds no task and parks.
WorkerParks(w) ==
    /\ worker[w] = "loop"
    /\ taskQueue = <<>>
    /\ worker' = [worker EXCEPT ![w] = "parked"]
    /\ UNCHANGED <<taskQueue, activeTasks, firstError, task, taskError, launcherVars, finished,
                   failed, alone>>

\* (Mutation: the worker counts in a record that wait_all does not read.)
CountedElsewhere == activeTasks
CountedActive == activeTasks + 1

\* A worker pops a task and counts it active under the same lock.
PopTask(w) ==
    /\ worker[w] = "loop"
    /\ taskQueue # <<>>
    /\ task' = [task EXCEPT ![w] = Head(taskQueue)]
    /\ taskQueue' = Tail(taskQueue)
    /\ activeTasks' = CountedActive
    /\ worker' = [worker EXCEPT ![w] = "running"]
    /\ UNCHANGED <<firstError, taskError, launcherVars, finished, failed, alone>>

\* The task runs, with the mutex released, and may raise.
RunTask(w) ==
    /\ worker[w] = "running"
    /\ worker' = [worker EXCEPT ![w] = "finishing"]
    /\ finished' = finished \cup {task[w]}
    /\ \/ UNCHANGED <<taskError, failed>>
       \/ /\ taskError' = [taskError EXCEPT ![w] = TRUE]
          /\ failed' = failed \cup {task[w]}
    /\ UNCHANGED <<taskQueue, activeTasks, firstError, task, launcherVars, alone>>

\* (Mutation: a work item's exception is swallowed.)
SwallowError(w) == firstError
RecordError(w) == IF firstError = None /\ taskError[w] THEN task[w] ELSE firstError

\* (Mutation: only one launcher is signalled.)
SignalDrained(done) ==
    IF done THEN WakesOne(launcher, launcher') ELSE UNCHANGED launcher
BroadcastDrained(done) ==
    IF done THEN launcher' = Woken(launcher) ELSE UNCHANGED launcher

\* Back under the lock: keep the first error, count the task out, and wake the
\* launchers when it was the last.
FinishTask(w) ==
    /\ worker[w] = "finishing"
    /\ firstError' = RecordError(w)
    /\ activeTasks' = activeTasks - 1
    /\ BroadcastDrained(activeTasks = 1 /\ taskQueue = <<>>)
    /\ worker' = [worker EXCEPT ![w] = "loop"]
    /\ task' = [task EXCEPT ![w] = None]
    /\ taskError' = [taskError EXCEPT ![w] = FALSE]
    /\ UNCHANGED <<taskQueue, launches, submitted, outcome, finished, failed, alone>>

\* The bounds are used up.
Terminated ==
    /\ \A l \in Launchers : launcher[l] = "idle" /\ launches[l] = MaxLaunches
    /\ \A w \in Workers : worker[w] = "parked"
    /\ UNCHANGED vars

WorkerStep(w) == WorkerParks(w) \/ PopTask(w) \/ RunTask(w) \/ FinishTask(w)
LauncherStep(l) == Submit(l) \/ Submitted(l) \/ WaitAllParks(l) \/ WaitAllReturns(l)

Next ==
    \/ \E l \in Launchers : Launch(l) \/ LauncherStep(l)
    \/ \E w \in Workers : WorkerStep(w)
    \/ Terminated

Spec == Init /\ [][Next]_vars

\* Every domain is scheduled: a launch that has begun and each worker keep going.
FairSpec == /\ Spec
            /\ \A l \in Launchers : WF_vars(LauncherStep(l))
            /\ \A w \in Workers : WF_vars(WorkerStep(w))

-----------------------------------------------------------------------------
(* Properties *)

\* Type correctness of the pool record, its workers and its launchers.
TypeOK ==
    /\ taskQueue \in Seq(Tasks)
    /\ activeTasks \in Nat
    /\ firstError \in Tasks \cup {None}
    /\ worker \in [Workers -> {"loop", "parked", "running", "finishing"}]
    /\ task \in [Workers -> Tasks \cup {None}]
    /\ taskError \in [Workers -> BOOLEAN]
    /\ launcher \in [Launchers -> {"idle", "submitting", "loop", "parked"}]
    /\ launches \in [Launchers -> 0..MaxLaunches]
    /\ submitted \in [Launchers -> 0..NumBlocks]
    /\ outcome \in [Launchers -> Outcomes]
    /\ finished \in SUBSET Tasks
    /\ failed \in SUBSET Tasks
    /\ alone \in [Launchers -> BOOLEAN]

\* wait_all returns only after the launch's last block has finished: no block's
\* output is dropped, though the queue is empty while the last block still runs.
NoBlockDropped ==
    \A l \in Launchers : Idle(l) /\ launches[l] > 0 => TasksOf(l) \subseteq finished

\* An error never outlives the launches it was raised in: the next launch on the
\* global pool does not fail for its predecessor's error.
NoStaleError ==
    (\A l \in Launchers : Idle(l)) => firstError = None

\* A launch that had the pool to itself fails exactly when one of its blocks raised:
\* no exception of a block is silently dropped.
ErrorSurfaces ==
    \A l \in Launchers :
        Idle(l) /\ alone[l] /\ launches[l] > 0
            => (outcome[l] = "raised" <=> TasksOf(l) \cap failed # {})

\* Every launch comes to its end, with other launches in the pool too.
LaunchEnds ==
    \A l \in Launchers : launcher[l] = "submitting" ~> launcher[l] = "idle"
=============================================================================
