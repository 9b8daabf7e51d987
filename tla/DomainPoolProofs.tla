-------------------------- MODULE DomainPoolProofs --------------------------
(***************************************************************************)
(* The safety of the domain pool, for any finite set of workers, any set   *)
(* of launchers and any number of blocks and launches.                     *)
(***************************************************************************)
EXTENDS DomainPool, FiniteSetTheorems, TLAPS

-----------------------------------------------------------------------------
(* The inductive invariant *)

\* A worker that holds a task.
Busy(w) == worker[w] \in {"running", "finishing"}
BusyWorkers == {w \in Workers : Busy(w)}

\* The counter of active tasks counts the workers that hold one.
Counted == activeTasks = Cardinality(BusyWorkers)

\* What a worker holds is a task; one that is about to be counted out is among the
\* finished, and only such a one can carry an error.
Holding ==
    \A w \in Workers :
        /\ Busy(w) => task[w] \in Tasks
        /\ worker[w] = "finishing" => task[w] \in finished
        /\ taskError[w] => worker[w] = "finishing"

\* Tasks in the queue or with a worker are of launches in progress.
InProgress ==
    /\ \A i \in DOMAIN taskQueue : ~Idle(taskQueue[i].by)
    /\ \A w \in Workers : Busy(w) => ~Idle(task[w].by)

\* Every block submitted is in the queue, with a worker, or finished, and a launch that
\* waits or is over has submitted them all.
Somewhere(t) ==
    \/ \E i \in DOMAIN taskQueue : taskQueue[i] = t
    \/ \E w \in Workers : Busy(w) /\ task[w] = t
    \/ t \in finished

Accounted ==
    \A l \in Launchers :
        /\ \A b \in 1..submitted[l] : Somewhere([by |-> l, block |-> b])
        /\ launcher[l] \in {"loop", "parked"} => submitted[l] = NumBlocks
        /\ Idle(l) /\ launches[l] > 0 => submitted[l] = NumBlocks

\* A launch that has the pool to itself: one of its blocks raised exactly when its error
\* is kept, or is with the worker that is about to keep it.
AloneHolds ==
    \A l \in Launchers : alone[l] /\ ~Idle(l) =>
        /\ \A o \in Launchers \ {l} : Idle(o)
        /\ TasksOf(l) \cap failed # {} <=> firstError # None \/ \E w \in Workers : taskError[w]

\* An error is kept only while some launch is in progress, which will take it.
ErrorInProgress == firstError # None => \E l \in Launchers : ~Idle(l)

PoolInv ==
    /\ TypeOK /\ Counted /\ Holding /\ InProgress /\ Accounted
    /\ ErrorInProgress /\ AloneHolds /\ ErrorSurfaces

-----------------------------------------------------------------------------
(* Facts about states *)

\* What is queued are tasks of launchers.
LEMMA QueueType ==
    ASSUME TypeOK
    PROVE  \A i \in DOMAIN taskQueue : taskQueue[i] \in Tasks /\ taskQueue[i].by \in Launchers
<1>1. \A i \in DOMAIN taskQueue : taskQueue[i] \in Tasks
  BY DEF TypeOK
<1> QED
  BY <1>1 DEF Tasks

LEMMA BusyFinite == IsFiniteSet(BusyWorkers)
  BY WorkersAssumption, FS_Subset DEF BusyWorkers

\* What wait_all tests: with nothing queued and a count of zero no task is left anywhere.
LEMMA DrainedIsEmpty ==
    ASSUME PoolInv, Drained
    PROVE  DOMAIN taskQueue = {} /\ \A w \in Workers : ~Busy(w)
<1>1. Cardinality(BusyWorkers) = 0
  BY DEF PoolInv, Counted, Drained
<1>2. BusyWorkers = {}
  BY <1>1, BusyFinite, FS_EmptySet
<1>3. DOMAIN taskQueue = {}
  BY DEF Drained
<1> QED
  BY <1>2, <1>3 DEF BusyWorkers

\* A worker that holds a task keeps the counter above zero.
LEMMA BusyIsCounted ==
    ASSUME PoolInv, NEW w \in Workers, Busy(w)
    PROVE  activeTasks \in Nat \ {0}
<1>1. BusyWorkers # {}
  BY DEF BusyWorkers
<1>2. Cardinality(BusyWorkers) # 0 /\ Cardinality(BusyWorkers) \in Nat
  BY <1>1, BusyFinite, FS_EmptySet, FS_CardinalityType
<1> QED
  BY <1>2 DEF PoolInv, Counted

\* With no launch in progress the pool is at rest.
LEMMA AtRest ==
    ASSUME PoolInv, \A l \in Launchers : Idle(l)
    PROVE  /\ firstError = None
           /\ \A w \in Workers : ~Busy(w) /\ ~taskError[w]
<1>1. \A w \in Workers : Busy(w) => task[w].by \in Launchers
  BY DEF PoolInv, Holding, Tasks
<1>2. \A w \in Workers : ~Busy(w)
  BY <1>1 DEF PoolInv, InProgress
<1>3. \A w \in Workers : ~taskError[w]
  BY <1>2 DEF PoolInv, Holding, Busy
<1> QED
  BY <1>2, <1>3 DEF PoolInv, ErrorInProgress

\* Waking a waiter changes nobody else's place.
LEMMA Waking ==
    ASSUME NEW who, NEW after, WakesOne(who, after), NEW S, NEW P, who \in [S -> P], "loop" \in P
    PROVE  /\ after \in [S -> P]
           /\ \A p \in S : after[p] = who[p] \/ (who[p] = "parked" /\ after[p] = "loop")
  BY DEF WakesOne

-----------------------------------------------------------------------------
(* Each action keeps the invariant *)

LEMMA InitHolds == Init => PoolInv
<1> SUFFICES ASSUME Init PROVE PoolInv
  OBVIOUS
<1>1. TypeOK
  <2>1. taskError \in [Workers -> BOOLEAN] /\ alone \in [Launchers -> BOOLEAN]
    BY DEF Init
  <2>2. /\ worker \in [Workers -> {"loop", "parked", "running", "finishing"}]
        /\ launcher \in [Launchers -> {"idle", "submitting", "loop", "parked"}]
        /\ outcome \in [Launchers -> Outcomes]
    BY DEF Init, Outcomes
  <2>3. taskQueue \in Seq(Tasks)
    BY DEF Init
  <2> QED
    BY <2>1, <2>2, <2>3, BlocksAssumption DEF Init, TypeOK
<1>2. \A w \in Workers : ~Busy(w) /\ ~taskError[w]
  BY DEF Init, Busy
<1>3. Counted
  <2>1. BusyWorkers = {}
    BY <1>2 DEF BusyWorkers
  <2> QED
    BY <2>1, FS_EmptySet DEF Init, Counted
<1>4. DOMAIN taskQueue = {}
  BY DEF Init
<1>5. Holding /\ InProgress
  BY <1>2, <1>4 DEF Holding, InProgress, Init, Busy
<1>6. Accounted
  BY DEF Init, Accounted, Idle
<1> QED
  BY <1>1, <1>3, <1>5, <1>6
     DEF Init, PoolInv, ErrorInProgress, AloneHolds, ErrorSurfaces, Idle

\* A launch starts: what is left of the launcher's last one is forgotten, and none of it
\* is in the queue or with a worker.
LEMMA LaunchKeeps ==
    ASSUME PoolInv, NEW l \in Launchers, Launch(l) PROVE PoolInv'
<1> USE DEF PoolInv, workerVars
<1>1. TypeOK'
  <2>1. alone' \in [Launchers -> BOOLEAN]
    <3>1. \A m \in Launchers : (\A o \in Launchers \ {l} : Idle(o)) \in BOOLEAN
                               /\ (alone[m] /\ Idle(m)) \in BOOLEAN
      OBVIOUS
    <3> QED
      BY <3>1 DEF Launch
  <2>2. /\ launcher' \in [Launchers -> {"idle", "submitting", "loop", "parked"}]
        /\ outcome' \in [Launchers -> Outcomes]
    BY DEF TypeOK, Launch, Outcomes
  <2>3. launches' \in [Launchers -> 0..MaxLaunches] /\ submitted' \in [Launchers -> 0..NumBlocks]
    BY BlocksAssumption DEF TypeOK, Launch
  <2> QED
    BY <2>1, <2>2, <2>3 DEF TypeOK, Launch
<1>2. /\ \A o \in Launchers : Idle(o)' <=> Idle(o) /\ o # l
      /\ Idle(l) /\ UNCHANGED <<taskQueue, worker, task, taskError, activeTasks, firstError>>
  BY DEF Launch, Idle, TypeOK
<1>3. Counted'
  BY <1>2 DEF Counted, BusyWorkers, Busy
<1>4. \A w \in Workers : Busy(w) => task[w] \in Tasks /\ task[w].by # l
  BY <1>2 DEF Holding, InProgress
<1>5. Holding'
  BY <1>2, <1>4 DEF Holding, Launch, Busy, TasksOf
<1>6. InProgress'
  <2>1. \A i \in DOMAIN taskQueue : taskQueue[i].by \in Launchers
    BY QueueType
  <2>2. \A w \in Workers : Busy(w) => task[w].by \in Launchers
    BY DEF Holding, Tasks
  <2> QED
    BY <1>2, <2>1, <2>2 DEF InProgress, Busy
<1>7. Accounted'
  <2> SUFFICES ASSUME NEW o \in Launchers
               PROVE  /\ \A b \in 1..submitted'[o] : Somewhere([by |-> o, block |-> b])'
                      /\ launcher'[o] \in {"loop", "parked"} => submitted'[o] = NumBlocks
                      /\ Idle(o)' /\ launches'[o] > 0 => submitted'[o] = NumBlocks
    BY DEF Accounted
  <2>1. CASE o = l
    BY <2>1, <1>2 DEF Launch, TypeOK
  <2>2. CASE o # l
    <3>1. /\ submitted'[o] = submitted[o] /\ launcher'[o] = launcher[o]
          /\ launches'[o] = launches[o]
      BY <2>2 DEF Launch, TypeOK
    <3>2. \A b \in 1..submitted[o] : Somewhere([by |-> o, block |-> b])'
      BY <1>2, <2>2 DEF Accounted, Somewhere, Launch, TasksOf, Busy
    <3> QED
      BY <1>2, <3>1, <3>2 DEF Accounted
  <2> QED
    BY <2>1, <2>2
<1>8. ErrorInProgress'
  BY <1>2 DEF ErrorInProgress
<1>9. AloneHolds'
  <2> SUFFICES ASSUME NEW o \in Launchers, alone'[o], ~Idle(o)'
               PROVE  /\ \A m \in Launchers \ {o} : Idle(m)'
                      /\ TasksOf(o) \cap failed' # {}
                            <=> firstError' # None \/ \E w \in Workers : taskError'[w]
    BY DEF AloneHolds, TasksOf
  <2>1. o = l /\ \A m \in Launchers : Idle(m)
    BY <1>2 DEF Launch, TypeOK
  <2>2. TasksOf(l) \cap failed' = {}
    BY DEF Launch
  <2> QED
    BY <1>2, <2>1, <2>2, AtRest
<1>10. ErrorSurfaces'
  <2> SUFFICES ASSUME NEW o \in Launchers, Idle(o)', alone'[o], launches'[o] > 0
               PROVE  outcome'[o] = "raised" <=> TasksOf(o) \cap failed' # {}
    BY DEF ErrorSurfaces, TasksOf
  <2>1. o # l /\ Idle(o) /\ alone[o] /\ launches'[o] = launches[o] /\ outcome'[o] = outcome[o]
    BY <1>2 DEF Launch, TypeOK
  <2>2. TasksOf(o) \cap failed' = TasksOf(o) \cap failed
    BY <2>1 DEF Launch, TasksOf
  <2> QED
    BY <2>1, <2>2 DEF ErrorSurfaces
<1> QED
  BY <1>1, <1>3, <1>5, <1>6, <1>7, <1>8, <1>9, <1>10

\* A block is submitted: its task is the last of the queue, and its launch is in progress.
LEMMA SubmitKeeps ==
    ASSUME PoolInv, NEW l \in Launchers, Submit(l) PROVE PoolInv'
<1> USE DEF PoolInv
<1>1. PICK t \in Tasks :
         /\ t = [by |-> l, block |-> submitted[l] + 1] /\ t.by = l
         /\ taskQueue' = Append(taskQueue, t)
         /\ submitted' = [submitted EXCEPT ![l] = @ + 1]
  <2>1. submitted[l] + 1 \in 1..NumBlocks
    BY BlocksAssumption DEF Submit, TypeOK
  <2>2. [by |-> l, block |-> submitted[l] + 1] \in Tasks
    BY <2>1 DEF Tasks
  <2> QED
    BY <2>2 DEF Submit
<1>2. /\ UNCHANGED <<activeTasks, firstError, task, taskError, launcher, launches, outcome,
                     finished, failed, alone>>
      /\ launcher[l] = "submitting" /\ submitted[l] < NumBlocks
  BY DEF Submit
<1>3. /\ worker' \in [Workers -> {"loop", "parked", "running", "finishing"}]
      /\ \A w \in Workers : \/ worker'[w] = worker[w]
                            \/ worker[w] = "parked" /\ worker'[w] = "loop"
  <2>1. WakesOne(worker, worker')
    BY DEF Submit
  <2>2. worker \in [Workers -> {"loop", "parked", "running", "finishing"}]
    BY DEF TypeOK
  <2> DEFINE P == {"loop", "parked", "running", "finishing"}
  <2>3. "loop" \in P /\ worker \in [Workers -> P]
    BY <2>2
  <2> HIDE DEF P
  <2>4. /\ worker' \in [Workers -> P]
        /\ \A w \in Workers : worker'[w] = worker[w] \/ (worker[w] = "parked" /\ worker'[w] = "loop")
    BY <2>1, <2>3, Waking
  <2> QED
    BY <2>4 DEF P
<1>4. \A w \in Workers : /\ Busy(w)' <=> Busy(w)
                         /\ worker'[w] = "finishing" <=> worker[w] = "finishing"
  BY <1>3 DEF Busy
<1>5. /\ taskQueue \in Seq(Tasks) /\ taskQueue' \in Seq(Tasks)
      /\ Len(taskQueue) + 1 \in DOMAIN taskQueue' /\ taskQueue'[Len(taskQueue) + 1] = t
      /\ \A i \in DOMAIN taskQueue : i \in DOMAIN taskQueue' /\ taskQueue'[i] = taskQueue[i]
  BY <1>1 DEF TypeOK
<1>6. \A i \in DOMAIN taskQueue' : i \in DOMAIN taskQueue \/ taskQueue'[i] = t
  <2>1. DOMAIN taskQueue = 1..Len(taskQueue) /\ DOMAIN taskQueue' = 1..Len(taskQueue) + 1
    BY <1>1, <1>5
  <2> QED
    BY <1>5, <2>1
<1>7. TypeOK'
  <2>1. submitted' \in [Launchers -> 0..NumBlocks]
    BY <1>1, <1>2, BlocksAssumption DEF TypeOK
  <2> QED
    BY <1>2, <1>3, <1>5, <2>1 DEF TypeOK
<1>8. Counted'
  <2>1. BusyWorkers' = BusyWorkers
    BY <1>4 DEF BusyWorkers
  <2> QED
    BY <1>2, <2>1 DEF Counted
<1>9. Holding'
  BY <1>2, <1>4 DEF Holding
<1>10. InProgress'
  <2>1. \A i \in DOMAIN taskQueue' : taskQueue'[i] = t \/ ~Idle(taskQueue'[i].by)
    BY <1>5, <1>6 DEF InProgress
  <2>2. ~Idle(t.by)
    BY <1>1, <1>2 DEF Idle
  <2> QED
    BY <1>2, <1>4, <2>1, <2>2 DEF InProgress, Idle
<1>11. Accounted'
  <2>1. \A u : Somewhere(u) => Somewhere(u)'
    BY <1>2, <1>4, <1>5 DEF Somewhere
  <2>2. Somewhere(t)'
    BY <1>5 DEF Somewhere
  <2>3. ASSUME NEW o \in Launchers, NEW b \in 1..submitted'[o]
        PROVE  Somewhere([by |-> o, block |-> b])'
    <3>1. b \in 1..submitted[o] \/ (o = l /\ b = submitted[l] + 1)
      BY <1>1, BlocksAssumption DEF TypeOK
    <3> QED
      <4>1. CASE b \in 1..submitted[o]
        BY <2>1, <4>1 DEF Accounted
      <4>2. CASE o = l /\ b = submitted[l] + 1
        BY <1>1, <2>2, <4>2
      <4> QED
        BY <3>1, <4>1, <4>2
  <2>4. \A o \in Launchers : o # l => submitted'[o] = submitted[o]
    BY <1>1 DEF TypeOK
  <2> QED
    BY <1>2, <2>3, <2>4 DEF Accounted, Idle
<1>12. ErrorInProgress' /\ AloneHolds' /\ ErrorSurfaces'
  BY <1>2 DEF ErrorInProgress, AloneHolds, ErrorSurfaces, Idle, TasksOf
<1> QED
  BY <1>7, <1>8, <1>9, <1>10, <1>11, <1>12

\* A launcher goes on to wait_all, or parks in it.
LEMMA WaitingKeeps ==
    ASSUME PoolInv, NEW l \in Launchers, Submitted(l) \/ WaitAllParks(l) PROVE PoolInv'
<1> USE DEF PoolInv, workerVars
<1>1. /\ UNCHANGED <<taskQueue, activeTasks, firstError, worker, task, taskError, launches,
                     submitted, outcome, finished, failed, alone>>
      /\ launcher' \in [Launchers -> {"idle", "submitting", "loop", "parked"}]
      /\ \A o \in Launchers : Idle(o)' <=> Idle(o)
      /\ \A o \in Launchers : o # l => launcher'[o] = launcher[o]
      /\ submitted[l] = NumBlocks /\ ~Idle(l)
  BY DEF Submitted, WaitAllParks, TypeOK, Idle, Accounted
<1>2. TypeOK'
  BY <1>1 DEF TypeOK
<1>3. Counted' /\ Holding'
  BY <1>1 DEF Counted, BusyWorkers, Busy, Holding
<1>4. InProgress'
  <2>1. \A w \in Workers : Busy(w) => task[w].by \in Launchers
    BY DEF Holding, Tasks
  <2> QED
    BY <1>1, <2>1, QueueType DEF InProgress, Busy
<1>5. Accounted'
  BY <1>1 DEF Accounted, Somewhere, Busy
<1>6. ErrorInProgress' /\ AloneHolds' /\ ErrorSurfaces'
  BY <1>1 DEF ErrorInProgress, AloneHolds, ErrorSurfaces, TasksOf
<1> QED
  BY <1>2, <1>3, <1>4, <1>5, <1>6

\* wait_all returns: the pool is empty, so that all blocks have finished, and the error
\* it takes is that of this launch if the launch was alone.
LEMMA ReturnKeeps ==
    ASSUME PoolInv, NEW l \in Launchers, WaitAllReturns(l) PROVE PoolInv'
<1> USE DEF PoolInv, workerVars
<1>1. /\ UNCHANGED <<taskQueue, activeTasks, worker, task, taskError, launches,
                     submitted, finished, failed, alone>>
      /\ firstError' = None /\ Drained
      /\ launcher' = [launcher EXCEPT ![l] = "idle"]
      /\ outcome' = [outcome EXCEPT ![l] = IF firstError = None THEN "returned" ELSE "raised"]
  BY DEF WaitAllReturns, TakeError
<1>2. DOMAIN taskQueue = {} /\ \A w \in Workers : ~Busy(w)
  BY <1>1, DrainedIsEmpty
<1>3. \A w \in Workers : ~taskError[w]
  BY <1>2 DEF Holding, Busy
<1>4. /\ ~Idle(l) /\ Idle(l)' /\ submitted[l] = NumBlocks
      /\ \A o \in Launchers : o # l => /\ launcher'[o] = launcher[o]
                                       /\ Idle(o)' <=> Idle(o)
                                       /\ outcome'[o] = outcome[o]
  BY <1>1 DEF WaitAllReturns, TypeOK, Idle, Accounted
<1>5. TypeOK'
  <2>1. outcome' \in [Launchers -> Outcomes]
    BY <1>1 DEF TypeOK, Outcomes
  <2> QED
    BY <1>1, <2>1 DEF TypeOK
<1>6. Counted' /\ Holding'
  BY <1>1 DEF Counted, BusyWorkers, Busy, Holding
<1>7. InProgress'
  BY <1>1, <1>2 DEF InProgress, Busy
<1>8. Accounted'
  BY <1>1, <1>4 DEF Accounted, Somewhere, Busy
<1>9. ErrorInProgress'
  BY <1>1 DEF ErrorInProgress
<1>10. \A o \in Launchers : alone[o] /\ ~Idle(o) => o = l
  BY <1>4 DEF AloneHolds
<1>11. AloneHolds'
  BY <1>1, <1>4, <1>10 DEF AloneHolds
<1>12. ErrorSurfaces'
  <2> SUFFICES ASSUME NEW o \in Launchers, Idle(o)', alone[o], launches[o] > 0
               PROVE  outcome'[o] = "raised" <=> TasksOf(o) \cap failed # {}
    BY <1>1 DEF ErrorSurfaces, TasksOf
  <2>1. CASE o # l
    BY <1>4, <2>1 DEF ErrorSurfaces
  <2>2. CASE o = l
    <3>1. TasksOf(l) \cap failed # {} <=> firstError # None
      BY <1>3, <1>4, <2>2 DEF AloneHolds
    <3>2. outcome'[l] = IF firstError = None THEN "returned" ELSE "raised"
      BY <1>1 DEF TypeOK
    <3> QED
      BY <2>2, <3>1, <3>2
  <2> QED
    BY <2>1, <2>2
<1> QED
  BY <1>5, <1>6, <1>7, <1>8, <1>9, <1>11, <1>12

\* A worker that finds no task parks.
LEMMA WorkerParksKeeps ==
    ASSUME PoolInv, NEW w \in Workers, WorkerParks(w) PROVE PoolInv'
<1> USE DEF PoolInv, launcherVars
<1>1. /\ UNCHANGED <<taskQueue, activeTasks, firstError, task, taskError, launcher, launches,
                     submitted, outcome, finished, failed, alone>>
      /\ worker' \in [Workers -> {"loop", "parked", "running", "finishing"}]
      /\ \A v \in Workers : /\ Busy(v)' <=> Busy(v)
                            /\ worker'[v] = "finishing" <=> worker[v] = "finishing"
  BY DEF WorkerParks, TypeOK, Busy
<1>2. TypeOK'
  BY <1>1 DEF TypeOK
<1>3. Counted'
  <2>1. BusyWorkers' = BusyWorkers
    BY <1>1 DEF BusyWorkers
  <2> QED
    BY <1>1, <2>1 DEF Counted
<1>4. Holding' /\ InProgress'
  BY <1>1 DEF Holding, InProgress, Idle
<1>5. Accounted'
  BY <1>1 DEF Accounted, Somewhere, Idle
<1>6. ErrorInProgress' /\ AloneHolds' /\ ErrorSurfaces'
  BY <1>1 DEF ErrorInProgress, AloneHolds, ErrorSurfaces, TasksOf, Idle
<1> QED
  BY <1>2, <1>3, <1>4, <1>5, <1>6

\* A worker takes the first task and is counted in the same step.
LEMMA PopTaskKeeps ==
    ASSUME PoolInv, NEW w \in Workers, PopTask(w) PROVE PoolInv'
<1> USE DEF PoolInv, launcherVars
<1>1. /\ UNCHANGED <<firstError, taskError, launcher, launches, submitted, outcome, finished,
                     failed, alone>>
      /\ taskQueue # <<>> /\ taskQueue' = Tail(taskQueue)
      /\ task' = [task EXCEPT ![w] = Head(taskQueue)]
      /\ worker' = [worker EXCEPT ![w] = "running"]
      /\ activeTasks' = activeTasks + 1 /\ worker[w] = "loop"
  BY DEF PopTask, CountedActive
<1>2. /\ taskQueue \in Seq(Tasks) /\ taskQueue' \in Seq(Tasks)
      /\ 1 \in DOMAIN taskQueue /\ Head(taskQueue) = taskQueue[1] /\ Head(taskQueue) \in Tasks
      /\ \A i \in DOMAIN taskQueue' : i + 1 \in DOMAIN taskQueue /\ taskQueue'[i] = taskQueue[i + 1]
      /\ \A i \in DOMAIN taskQueue : i # 1 => i - 1 \in DOMAIN taskQueue' /\ taskQueue'[i - 1] = taskQueue[i]
  BY <1>1 DEF TypeOK
<1>3. /\ Busy(w)' /\ ~Busy(w) /\ task'[w] = taskQueue[1] /\ worker'[w] = "running"
      /\ \A v \in Workers : v # w => /\ Busy(v)' <=> Busy(v)
                                     /\ worker'[v] = worker[v] /\ task'[v] = task[v]
  BY <1>1, <1>2 DEF Busy, TypeOK
<1>4. TypeOK'
  <2>1. activeTasks' \in Nat
    BY <1>1 DEF TypeOK
  <2> QED
    BY <1>1, <1>2, <2>1 DEF TypeOK
<1>5. Counted'
  <2>1. BusyWorkers' = BusyWorkers \cup {w} /\ w \notin BusyWorkers
    BY <1>3 DEF BusyWorkers
  <2>2. Cardinality(BusyWorkers') = Cardinality(BusyWorkers) + 1
    BY <2>1, BusyFinite, FS_AddElement
  <2> QED
    BY <1>1, <2>2 DEF Counted
<1>6. ~taskError[w]
  BY <1>1 DEF Holding
<1>7. Holding'
  BY <1>1, <1>2, <1>3, <1>6 DEF Holding
<1>8. InProgress'
  BY <1>1, <1>2, <1>3 DEF InProgress, Idle
<1>9. Accounted'
  <2>1. ASSUME NEW u, Somewhere(u) PROVE Somewhere(u)'
    <3>1. CASE u \in finished
      BY <1>1, <3>1 DEF Somewhere
    <3>2. CASE \E v \in Workers : Busy(v) /\ task[v] = u
      BY <1>3, <3>2 DEF Somewhere
    <3>3. ASSUME NEW i \in DOMAIN taskQueue, taskQueue[i] = u PROVE Somewhere(u)'
      <4>1. CASE i = 1
        BY <1>3, <3>3, <4>1 DEF Somewhere
      <4>2. CASE i # 1
        BY <1>2, <3>3, <4>2 DEF Somewhere
      <4> QED
        BY <4>1, <4>2
    <3> QED
      BY <2>1, <3>1, <3>2, <3>3 DEF Somewhere
  <2> QED
    BY <1>1, <2>1 DEF Accounted, Idle
<1>10. ErrorInProgress' /\ AloneHolds' /\ ErrorSurfaces'
  BY <1>1 DEF ErrorInProgress, AloneHolds, ErrorSurfaces, TasksOf, Idle
<1> QED
  BY <1>4, <1>5, <1>7, <1>8, <1>9, <1>10

\* A task runs to its end, or raises: it is one of a launch in progress.
LEMMA RunTaskKeeps ==
    ASSUME PoolInv, NEW w \in Workers, RunTask(w) PROVE PoolInv'
<1> USE DEF PoolInv, launcherVars
<1>1. /\ UNCHANGED <<taskQueue, activeTasks, firstError, task, launcher, launches, submitted,
                     outcome, alone>>
      /\ finished' = finished \cup {task[w]}
      /\ worker[w] = "running" /\ worker' = [worker EXCEPT ![w] = "finishing"]
  BY DEF RunTask
<1>2. task[w] \in Tasks /\ task[w].by \in Launchers /\ ~Idle(task[w].by) /\ ~taskError[w]
  <2>1. task[w] \in Tasks /\ ~Idle(task[w].by) /\ ~taskError[w]
    BY <1>1 DEF Holding, InProgress, Busy
  <2> QED
    BY <2>1 DEF Tasks
<1>3. /\ \A v \in Workers : Busy(v)' <=> Busy(v)
      /\ \A v \in Workers : v # w => worker'[v] = worker[v]
      /\ worker'[w] = "finishing"
      /\ worker' \in [Workers -> {"loop", "parked", "running", "finishing"}]
  BY <1>1 DEF Busy, TypeOK
<1>4. Counted'
  <2>1. BusyWorkers' = BusyWorkers
    BY <1>3 DEF BusyWorkers
  <2> QED
    BY <1>1, <2>1 DEF Counted
<1>5. InProgress'
  BY <1>1, <1>3 DEF InProgress, Idle
<1>6. Accounted'
  BY <1>1, <1>3 DEF Accounted, Somewhere, Idle
<1>7. ErrorInProgress'
  BY <1>1 DEF ErrorInProgress, Idle
<1>8. CASE UNCHANGED <<taskError, failed>>
  <2>1. TypeOK'
    BY <1>1, <1>2, <1>3, <1>8 DEF TypeOK
  <2>2. Holding'
    BY <1>1, <1>3, <1>8 DEF Holding
  <2>3. AloneHolds' /\ ErrorSurfaces'
    BY <1>1, <1>8 DEF AloneHolds, ErrorSurfaces, TasksOf, Idle
  <2> QED
    BY <1>4, <1>5, <1>6, <1>7, <2>1, <2>2, <2>3
<1>9. CASE taskError' = [taskError EXCEPT ![w] = TRUE] /\ failed' = failed \cup {task[w]}
  <2>1. TypeOK'
    <3>1. taskError' \in [Workers -> BOOLEAN]
      BY <1>9 DEF TypeOK
    <3> QED
      BY <1>1, <1>2, <1>3, <1>9, <3>1 DEF TypeOK
  <2>2. taskError'[w] /\ \A v \in Workers : v # w => taskError'[v] = taskError[v]
    BY <1>9 DEF TypeOK
  <2>3. Holding'
    BY <1>1, <1>3, <2>2 DEF Holding
  <2>4. AloneHolds'
    <3> SUFFICES ASSUME NEW l \in Launchers, alone[l], ~Idle(l)
                 PROVE  /\ \A o \in Launchers \ {l} : Idle(o)
                        /\ TasksOf(l) \cap failed' # {}
                        /\ \E v \in Workers : taskError'[v]
      BY <1>1 DEF AloneHolds, TasksOf, Idle
    <3>1. \A o \in Launchers \ {l} : Idle(o)
      BY DEF AloneHolds
    <3>2. task[w] \in TasksOf(l) \cap failed'
      BY <1>2, <1>9, <3>1 DEF TasksOf
    <3> QED
      BY <2>2, <3>1, <3>2
  <2>5. ErrorSurfaces'
    <3>1. \A l \in Launchers : Idle(l) => TasksOf(l) \cap failed' = TasksOf(l) \cap failed
      BY <1>2, <1>9 DEF TasksOf
    <3> QED
      BY <1>1, <3>1 DEF ErrorSurfaces, Idle, TasksOf
  <2> QED
    BY <1>4, <1>5, <1>6, <1>7, <2>1, <2>3, <2>4, <2>5
<1> QED
  BY <1>8, <1>9 DEF RunTask

\* A worker counts its task out and leaves the first error behind.
LEMMA FinishTaskKeeps ==
    ASSUME PoolInv, NEW w \in Workers, FinishTask(w) PROVE PoolInv'
<1> USE DEF PoolInv
<1>1. /\ UNCHANGED <<taskQueue, launches, submitted, outcome, finished, failed, alone>>
      /\ firstError' = IF firstError = None /\ taskError[w] THEN task[w] ELSE firstError
      /\ activeTasks' = activeTasks - 1
      /\ worker[w] = "finishing" /\ worker' = [worker EXCEPT ![w] = "loop"]
      /\ task' = [task EXCEPT ![w] = None]
      /\ taskError' = [taskError EXCEPT ![w] = FALSE]
  BY DEF FinishTask, RecordError
<1>2. /\ launcher' \in [Launchers -> {"idle", "submitting", "loop", "parked"}]
      /\ \A l \in Launchers : /\ Idle(l)' <=> Idle(l)
                              /\ launcher'[l] \in {"loop", "parked"} => launcher[l] \in {"loop", "parked"}
  <2>1. launcher' = Woken(launcher) \/ UNCHANGED launcher
    BY DEF FinishTask, BroadcastDrained
  <2>2. launcher \in [Launchers -> {"idle", "submitting", "loop", "parked"}]
    BY DEF TypeOK
  <2>3. CASE launcher' = Woken(launcher)
    BY <2>2, <2>3 DEF Woken, Idle
  <2> QED
    BY <2>1, <2>2, <2>3 DEF Idle
<1>3. /\ task[w] \in Tasks /\ task[w] # None /\ task[w] \in finished
      /\ task[w].by \in Launchers /\ ~Idle(task[w].by)
  <2>1. task[w] \in Tasks /\ task[w] \in finished /\ ~Idle(task[w].by)
    BY <1>1 DEF Holding, InProgress, Busy
  <2> QED
    BY <2>1, WorkersAssumption DEF Tasks
<1>4. /\ Busy(w) /\ ~Busy(w)' /\ worker'[w] = "loop" /\ ~taskError'[w]
      /\ \A v \in Workers : v # w => /\ Busy(v)' <=> Busy(v)
                                     /\ worker'[v] = worker[v] /\ task'[v] = task[v]
                                     /\ taskError'[v] = taskError[v]
  BY <1>1 DEF Busy, TypeOK
<1>5. TypeOK'
  <2>1. activeTasks' \in Nat
    BY <1>1, <1>4, BusyIsCounted
  <2>2. taskError' \in [Workers -> BOOLEAN]
    BY <1>1 DEF TypeOK
  <2>3. firstError' \in Tasks \cup {None} /\ task' \in [Workers -> Tasks \cup {None}]
    BY <1>1, <1>3 DEF TypeOK
  <2> QED
    BY <1>1, <1>2, <2>1, <2>2, <2>3 DEF TypeOK
<1>6. Counted'
  <2>1. BusyWorkers' = BusyWorkers \ {w} /\ w \in BusyWorkers
    BY <1>4 DEF BusyWorkers
  <2>2. Cardinality(BusyWorkers') = Cardinality(BusyWorkers) - 1
    BY <2>1, BusyFinite, FS_RemoveElement
  <2> QED
    BY <1>1, <2>2 DEF Counted
<1>7. Holding'
  BY <1>1, <1>4 DEF Holding
<1>8. InProgress'
  <2>1. \A v \in Workers : Busy(v) => task[v].by \in Launchers
    BY DEF Holding, Tasks
  <2> QED
    BY <1>1, <1>2, <1>4, <2>1, QueueType DEF InProgress
<1>9. Accounted'
  <2>1. ASSUME NEW u, Somewhere(u) PROVE Somewhere(u)'
    BY <1>1, <1>3, <1>4, <2>1 DEF Somewhere
  <2> QED
    BY <1>1, <1>2, <2>1 DEF Accounted
<1>10. ErrorInProgress'
  BY <1>2, <1>3 DEF ErrorInProgress
<1>11. AloneHolds'
  <2> SUFFICES firstError' # None \/ (\E v \in Workers : taskError'[v])
                 <=> firstError # None \/ (\E v \in Workers : taskError[v])
    BY <1>1, <1>2 DEF AloneHolds, TasksOf
  <2>1. CASE taskError[w]
    BY <1>1, <1>3, <2>1
  <2>2. CASE ~taskError[w]
    BY <1>1, <1>4, <2>2
  <2> QED
    BY <2>1, <2>2
<1>12. ErrorSurfaces'
  BY <1>1, <1>2 DEF ErrorSurfaces, TasksOf
<1> QED
  BY <1>5, <1>6, <1>7, <1>8, <1>9, <1>10, <1>11, <1>12

-----------------------------------------------------------------------------
(* Theorems *)

\* The inductive invariant of the pool.
THEOREM Invariance == Spec => []PoolInv
<1>1. PoolInv /\ [Next]_vars => PoolInv'
  <2> SUFFICES ASSUME PoolInv, [Next]_vars PROVE PoolInv'
    OBVIOUS
  <2>1. CASE UNCHANGED vars
    BY <2>1 DEF vars, workerVars, launcherVars, PoolInv, TypeOK, Counted, BusyWorkers, Busy,
                Holding, InProgress, Idle, Accounted, Somewhere, ErrorInProgress, AloneHolds,
                ErrorSurfaces, TasksOf
  <2>2. ASSUME NEW l \in Launchers, Launch(l) \/ LauncherStep(l) PROVE PoolInv'
    BY <2>2, LaunchKeeps, SubmitKeeps, WaitingKeeps, ReturnKeeps DEF LauncherStep
  <2>3. ASSUME NEW w \in Workers, WorkerStep(w) PROVE PoolInv'
    BY <2>3, WorkerParksKeeps, PopTaskKeeps, RunTaskKeeps, FinishTaskKeeps DEF WorkerStep
  <2> QED
    BY <2>1, <2>2, <2>3 DEF Next, Terminated
<1> QED
  BY InitHolds, <1>1, PTL DEF Spec

\* The pool's record, its workers and its launchers are well typed.
THEOREM TypeCorrect == Spec => []TypeOK
<1>1. PoolInv => TypeOK
  BY DEF PoolInv
<1> QED
  BY <1>1, Invariance, PTL

\* A launch that is over has had every block of its grid finished.
THEOREM Completeness == Spec => []NoBlockDropped
<1>1. PoolInv => NoBlockDropped
  <2> SUFFICES ASSUME PoolInv, NEW l \in Launchers, Idle(l), launches[l] > 0,
                      NEW t \in TasksOf(l)
               PROVE  t \in finished
    BY DEF NoBlockDropped
  <2>1. t = [by |-> l, block |-> t.block] /\ t.block \in 1..NumBlocks
    BY DEF TasksOf, Tasks
  <2>2. Somewhere(t)
    BY <2>1 DEF PoolInv, Accounted
  <2>3. \A i \in DOMAIN taskQueue : taskQueue[i] # t
    BY DEF PoolInv, InProgress, TasksOf
  <2>4. \A w \in Workers : Busy(w) => task[w] # t
    BY DEF PoolInv, InProgress, TasksOf
  <2> QED
    BY <2>2, <2>3, <2>4 DEF Somewhere
<1> QED
  BY <1>1, Invariance, PTL

\* No error is left in the pool for a launch that starts when all others are over.
THEOREM NoErrorLeft == Spec => []NoStaleError
<1>1. PoolInv => NoStaleError
  BY AtRest DEF NoStaleError
<1> QED
  BY <1>1, Invariance, PTL

\* A launch that had the pool to itself fails exactly when one of its blocks raised.
THEOREM ErrorsSurface == Spec => []ErrorSurfaces
<1>1. PoolInv => ErrorSurfaces
  BY DEF PoolInv
<1> QED
  BY <1>1, Invariance, PTL
=============================================================================
