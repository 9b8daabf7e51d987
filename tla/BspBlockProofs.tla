--------------------------- MODULE BspBlockProofs ---------------------------
(***************************************************************************)
(* The loops over fibers implement the barrier of a block, in both         *)
(* variants, for any number of threads and of barriers; and the test for a *)
(* lack of progress never fires.                                           *)
(***************************************************************************)
EXTENDS BspBlock, FiniteSetTheorems, TLAPS

-----------------------------------------------------------------------------
(* The invariant *)

Alive(t) == end[t] = "none"

\* The fibers alive that the loop has yet to give their turn, and those it has given it.
Pending == {t \in Threads : t >= tid /\ Alive(t)}
Waiting == {t \in Threads : t < tid /\ Alive(t)}

\* The counter counts the fibers that wait, but for the superstep under way.
CountsWaiting == numWaiting = Cardinality(Waiting)

\* A continuation is stored for exactly the fibers that have started and are alive.
StoredWhileAlive ==
    \A t \in Threads :
        /\ Suspended(t) => Alive(t)
        /\ Alive(t) /\ (t < tid \/ control \in {"superstep", "test"}) => Suspended(t)

Progression ==
    /\ control = "test" => tid = N
    /\ control = "initial" => \A t \in Threads : t >= tid => Alive(t)
    /\ outcome = "none" <=> control # "over"
    /\ control # "over" => (firstError <=> \E t \in Threads : end[t] = "raised")

\* What makes the deep variant's test harmless: the fibers that have completed, with
\* those that wait or have yet to be resumed, are always the whole block or more.
CountsCompleted ==
    ~Shallow =>
        /\ control = "initial" => numCompleted + numWaiting >= tid
        /\ control = "test" => numCompleted + numWaiting >= N
        /\ control = "superstep" => numCompleted + Cardinality(Pending) >= N

Inv == TypeOK /\ CountsWaiting /\ StoredWhileAlive /\ Progression /\ CountsCompleted

-----------------------------------------------------------------------------
(* The sets of fibers *)

LEMMA ThreadsFinite == IsFiniteSet(Threads) /\ Cardinality(Threads) = N
<1>1. IsFiniteSet(0..(N - 1)) /\ Cardinality(0..(N - 1)) = IF 0 > N - 1 THEN 0 ELSE N - 1 - 0 + 1
  BY NAssumption, FS_Interval
<1> QED BY <1>1, NAssumption DEF Threads

LEMMA FibersFinite ==
    /\ IsFiniteSet(Pending) /\ Cardinality(Pending) \in Nat
    /\ IsFiniteSet(Waiting) /\ Cardinality(Waiting) \in Nat
<1>1. Pending \subseteq Threads /\ Waiting \subseteq Threads
  BY DEF Pending, Waiting
<1> QED BY <1>1, ThreadsFinite, FS_Subset, FS_CardinalityType

\* The fibers that have had their turn are at most tid.
LEMMA WaitingBound == ASSUME TypeOK PROVE Cardinality(Waiting) <= tid
<1>1. Waiting \subseteq 0..(tid - 1)
  BY DEF Waiting, Threads, TypeOK
<1>2. IsFiniteSet(0..(tid - 1)) /\ Cardinality(0..(tid - 1)) = IF 0 > tid - 1 THEN 0 ELSE tid - 1 - 0 + 1
  BY FS_Interval DEF TypeOK
<1>3. Cardinality(Waiting) <= Cardinality(0..(tid - 1))
  BY <1>1, <1>2, FS_Subset
<1> QED BY <1>2, <1>3 DEF TypeOK

LEMMA NobodyWaits == ASSUME CountsWaiting PROVE numWaiting = 0 <=> Waiting = {}
  BY FibersFinite, FS_EmptySet DEF CountsWaiting

\* A turn that suspends its fiber, and one that ends it.
LEMMA TurnSuspends ==
    ASSUME TypeOK, tid < N, Alive(tid), tid' = tid + 1, end' = end
    PROVE  /\ Cardinality(Waiting') = Cardinality(Waiting) + 1
           /\ Cardinality(Pending') = Cardinality(Pending) - 1
<1>1. Waiting' = Waiting \cup {tid} /\ tid \notin Waiting
  BY NAssumption DEF Waiting, Alive, Threads, TypeOK
<1>2. Pending' = Pending \ {tid} /\ tid \in Pending
  BY NAssumption DEF Pending, Alive, Threads, TypeOK
<1> QED BY <1>1, <1>2, FibersFinite, FS_AddElement, FS_RemoveElement

LEMMA TurnEnds ==
    ASSUME TypeOK, tid < N, Alive(tid), tid' = tid + 1, NEW how \in {"returned", "raised"},
           end' = [end EXCEPT ![tid] = how]
    PROVE  /\ Waiting' = Waiting
           /\ Cardinality(Pending') = Cardinality(Pending) - 1
<1>1. Waiting' = Waiting
  BY NAssumption DEF Waiting, Alive, Threads, TypeOK
<1>2. Pending' = Pending \ {tid} /\ tid \in Pending
  BY NAssumption DEF Pending, Alive, Threads, TypeOK
<1> QED BY <1>1, <1>2, FibersFinite, FS_RemoveElement

-----------------------------------------------------------------------------
(* One turn of a fiber *)

\* Whose turn it is: the next thread of the initial run, or of a superstep.
Turn(resumed) ==
    /\ control = (IF resumed THEN "superstep" ELSE "initial")
    /\ tid < N
    /\ resumed => Suspended(tid)
    /\ RunFiber(tid, resumed)
    /\ tid' = tid + 1
    /\ UNCHANGED <<variant, toResume>>

LEMMA TurnIsAlive ==
    ASSUME Inv, NEW resumed \in BOOLEAN, Turn(resumed)
    PROVE  tid \in Threads /\ Alive(tid)
  BY NAssumption DEF Turn, Inv, TypeOK, StoredWhileAlive, Progression, Threads

LEMMA SuspendKeeps ==
    ASSUME Inv, NEW resumed \in BOOLEAN, Turn(resumed), Suspend(tid, resumed)
    PROVE  Inv'
<1> USE NAssumption DEF Inv
<1>1. tid \in Threads /\ Alive(tid)
  BY TurnIsAlive
<1>2. /\ Cardinality(Waiting') = Cardinality(Waiting) + 1
      /\ Cardinality(Pending') = Cardinality(Pending) - 1
  BY <1>1, TurnSuspends DEF Turn, Suspend
<1>3. CountsWaiting'
  BY <1>2 DEF CountsWaiting, Suspend
<1>4. numWaiting' \in 0..N
  BY WaitingBound DEF CountsWaiting, TypeOK, Suspend, Turn
<1>5. TypeOK'
  BY <1>1, <1>4 DEF TypeOK, Turn, Suspend, Completed
<1>6. StoredWhileAlive'
  BY <1>1 DEF StoredWhileAlive, TypeOK, Turn, Suspend, Suspended, Alive, Shallow, Threads
<1>7. Progression'
  BY <1>1 DEF Progression, TypeOK, Turn, Suspend, Alive, Threads
<1>8. CountsCompleted'
  BY <1>2, FibersFinite DEF CountsCompleted, TypeOK, Turn, Suspend, Completed, Shallow
<1> QED BY <1>3, <1>5, <1>6, <1>7, <1>8

LEMMA ReturnKeeps ==
    ASSUME Inv, NEW resumed \in BOOLEAN, Turn(resumed), Return(tid, resumed)
    PROVE  Inv'
<1> USE NAssumption DEF Inv
<1>1. tid \in Threads /\ Alive(tid)
  BY TurnIsAlive
<1>2. Waiting' = Waiting /\ Cardinality(Pending') = Cardinality(Pending) - 1
  BY <1>1, TurnEnds DEF Turn, Return, Gone
<1>3. CountsWaiting'
  BY <1>2 DEF CountsWaiting, Return, Gone
<1>4. TypeOK'
  BY <1>1 DEF TypeOK, Turn, Return, Gone, Completed
<1>5. StoredWhileAlive'
  BY <1>1 DEF StoredWhileAlive, TypeOK, Turn, Return, Gone, Suspended, Alive, Shallow, Threads
<1>6. Progression'
  BY <1>1 DEF Progression, TypeOK, Turn, Return, Gone, Alive, Threads
<1>7. CountsCompleted'
  BY <1>2, FibersFinite DEF CountsCompleted, TypeOK, Turn, Return, Gone, Completed, Shallow
<1> QED BY <1>3, <1>4, <1>5, <1>6, <1>7

LEMMA RaiseKeeps ==
    ASSUME Inv, NEW resumed \in BOOLEAN, Turn(resumed), Raise(tid)
    PROVE  Inv'
<1> USE NAssumption DEF Inv
<1>1. tid \in Threads /\ Alive(tid)
  BY TurnIsAlive
<1>2. Waiting' = Waiting /\ Cardinality(Pending') = Cardinality(Pending) - 1
  BY <1>1, TurnEnds DEF Turn, Raise, Gone
<1>3. CountsWaiting'
  BY <1>2 DEF CountsWaiting, Raise, Gone
<1>4. TypeOK'
  <2>1. /\ end' \in [Threads -> {"none", "returned", "raised"}]
        /\ status' \in [Threads -> 0..2]
        /\ conts' \in SUBSET Threads
    BY <1>1 DEF TypeOK, Raise, Gone
  <2>2. numCompleted' \in Nat
    BY DEF TypeOK, Raise
  <2>3. firstError' \in BOOLEAN
    BY Zenon DEF TypeOK, Raise
  <2>4. /\ control' \in {"initial", "superstep", "test", "over"}
        /\ outcome' \in {"none", "returned", "raised", "deadlock"}
    BY DEF TypeOK, Raise
  <2> QED BY <2>1, <2>2, <2>3, <2>4 DEF TypeOK, Turn, Raise, Gone
<1>5. StoredWhileAlive'
  BY <1>1 DEF StoredWhileAlive, TypeOK, Turn, Raise, Gone, Suspended, Alive, Shallow, Threads
<1>6. Progression'
  BY <1>1 DEF Progression, TypeOK, Turn, Raise, Gone, Alive, Threads
<1>7. CountsCompleted'
  BY DEF CountsCompleted, Turn, Raise, Shallow
<1> QED BY <1>3, <1>4, <1>5, <1>6, <1>7

-----------------------------------------------------------------------------
(* The steps of the loops *)

LEMMA StepsAreTurns ==
    /\ Start => Turn(FALSE)
    /\ Resume => Turn(TRUE)
    /\ \A resumed \in BOOLEAN :
          Turn(resumed) => Suspend(tid, resumed) \/ Return(tid, resumed) \/ Raise(tid)
  BY DEF Start, Resume, Turn, RunFiber, LoopEnd

LEMMA TurnKeeps == ASSUME Inv, NEW resumed \in BOOLEAN, Turn(resumed) PROVE Inv'
  BY StepsAreTurns, SuspendKeeps, ReturnKeeps, RaiseKeeps

LEMMA SkipKeeps == ASSUME Inv, Skip PROVE Inv'
<1> USE NAssumption DEF Inv
<1>1. tid \in Threads /\ ~Alive(tid)
  BY DEF Skip, LoopEnd, StoredWhileAlive, TypeOK, Threads
<1>2. Waiting' = Waiting /\ Pending' = Pending
  BY <1>1 DEF Skip, Waiting, Pending, Alive, Threads, TypeOK, threadVars
<1>3. TypeOK'
  BY DEF Skip, TypeOK, threadVars, LoopEnd
<1>4. CountsWaiting' /\ CountsCompleted'
  BY <1>2 DEF CountsWaiting, CountsCompleted, Skip, threadVars, Shallow
<1>5. StoredWhileAlive' /\ Progression'
  BY <1>1 DEF StoredWhileAlive, Progression, Skip, threadVars, Suspended, Alive, Shallow, Threads, TypeOK
<1> QED BY <1>3, <1>4, <1>5

\* At the end of a superstep of the deep variant every thread has completed or more.
LEMMA AlwaysProgress == ASSUME Inv, control = "superstep", tid = N PROVE ~NoProgress
<1>1. Pending = {}
  BY NAssumption DEF Pending, Threads
<1>2. Cardinality(Pending) = 0
  BY <1>1, FS_EmptySet
<1> QED BY <1>2, NAssumption DEF Inv, CountsCompleted, NoProgress, TypeOK

LEMMA EndOfLoopKeeps == ASSUME Inv, EndOfLoop PROVE Inv'
<1> USE NAssumption DEF Inv
<1>1. control' = "test" /\ UNCHANGED <<variant, tid, threadVars, toResume, outcome>> /\ tid = N
  BY AlwaysProgress DEF EndOfLoop, LoopEnd
<1>2. Waiting' = Waiting
  BY <1>1 DEF Waiting, Alive, threadVars
<1>3. TypeOK' /\ CountsWaiting'
  BY <1>1, <1>2 DEF TypeOK, CountsWaiting, threadVars
<1>4. StoredWhileAlive' /\ Progression'
  BY <1>1 DEF StoredWhileAlive, Progression, EndOfLoop, threadVars, Suspended, Alive, Shallow, Threads
<1>5. CountsCompleted'
  <2>1. control = "superstep" => Cardinality(Pending) = 0
    BY <1>1, FS_EmptySet DEF Pending, Threads
  <2> QED BY <1>1, <2>1 DEF CountsCompleted, EndOfLoop, threadVars, Shallow, TypeOK
<1> QED BY <1>3, <1>4, <1>5

LEMMA NextSuperstepKeeps == ASSUME Inv, NextSuperstep PROVE Inv'
<1> USE NAssumption DEF Inv, WaitingReset
<1>1. Waiting' = {} /\ Pending' = Waiting
  BY DEF NextSuperstep, Progression, Waiting, Pending, Alive, Threads
<1>2. TypeOK'
  BY DEF NextSuperstep, TypeOK
<1>3. CountsWaiting'
  BY <1>1, FS_EmptySet DEF CountsWaiting, NextSuperstep
<1>4. StoredWhileAlive' /\ Progression'
  BY DEF StoredWhileAlive, Progression, NextSuperstep, Suspended, Alive, Shallow, Threads
<1>5. CountsCompleted'
  BY <1>1 DEF CountsCompleted, CountsWaiting, NextSuperstep, Shallow
<1> QED BY <1>2, <1>3, <1>4, <1>5

LEMMA BlockDoneKeeps == ASSUME Inv, BlockDone PROVE Inv'
<1> USE DEF Inv
<1>1. Waiting' = Waiting
  BY DEF BlockDone, Waiting, Alive, threadVars
<1>2. TypeOK' /\ CountsWaiting'
  BY <1>1 DEF BlockDone, TypeOK, CountsWaiting, threadVars
<1>3. StoredWhileAlive' /\ Progression' /\ CountsCompleted'
  BY DEF StoredWhileAlive, Progression, CountsCompleted, BlockDone, threadVars, Suspended, Alive, Shallow
<1> QED BY <1>2, <1>3

LEMMA StutterKeeps == ASSUME Inv, UNCHANGED vars PROVE Inv'
<1>1. Waiting' = Waiting /\ Pending' = Pending
  BY DEF Waiting, Pending, Alive, vars, threadVars
<1> QED BY <1>1 DEF Inv, TypeOK, CountsWaiting, StoredWhileAlive, Progression, CountsCompleted,
     Suspended, Alive, Shallow, vars, threadVars

LEMMA InvInit == Init => Inv
<1> SUFFICES ASSUME Init PROVE Inv
  OBVIOUS
<1>1. Waiting = {}
  BY DEF Init, Waiting, Threads
<1>2. TypeOK
  <2>1. firstError \in BOOLEAN
    BY Zenon DEF Init
  <2> QED BY <2>1, NAssumption DEF Init, TypeOK
<1>3. StoredWhileAlive
  BY DEF Init, StoredWhileAlive, Suspended, Alive, Shallow, Threads
<1>4. Progression
  BY DEF Init, Progression, Alive
<1>5. CountsWaiting /\ CountsCompleted
  BY <1>1, FS_EmptySet DEF Init, CountsWaiting, CountsCompleted
<1> QED BY <1>2, <1>3, <1>4, <1>5 DEF Inv

LEMMA InvStep == Inv /\ [Next]_vars => Inv'
<1> SUFFICES ASSUME Inv, [Next]_vars PROVE Inv'
  OBVIOUS
<1>1. CASE Start
  BY <1>1, StepsAreTurns, TurnKeeps
<1>2. CASE Resume
  BY <1>2, StepsAreTurns, TurnKeeps
<1>3. CASE Skip
  BY <1>3, SkipKeeps
<1>4. CASE EndOfLoop
  BY <1>4, EndOfLoopKeeps
<1>5. CASE NextSuperstep
  BY <1>5, NextSuperstepKeeps
<1>6. CASE BlockDone
  BY <1>6, BlockDoneKeeps
<1>7. CASE Over \/ UNCHANGED vars
  BY <1>7, StutterKeeps DEF Over
<1> QED BY <1>1, <1>2, <1>3, <1>4, <1>5, <1>6, <1>7 DEF Next, Step

THEOREM Invariance == Spec => []Inv
  BY InvInit, InvStep, PTL DEF Spec

\* The variables of a block keep their types; no more threads wait than it has.
THEOREM TypeCorrect == Spec => []TypeOK
  BY Invariance, PTL DEF Inv

\* No block is ever accused of a deadlock, whatever barriers its threads reach.
THEOREM NeverAccused == Spec => []NoFalseDeadlock
<1> DEFINE Fine == Inv /\ NoFalseDeadlock
<1>1. Init => Fine
  BY InvInit DEF Init, NoFalseDeadlock
<1>2. Fine /\ [Next]_vars => Fine'
  <2> SUFFICES ASSUME Fine, [Next]_vars PROVE NoFalseDeadlock'
    BY InvStep
  <2>1. ASSUME NEW resumed \in BOOLEAN, Turn(resumed) PROVE NoFalseDeadlock'
    BY <2>1, StepsAreTurns DEF Suspend, Return, Raise, NoFalseDeadlock
  <2>2. CASE Start \/ Resume
    BY <2>1, <2>2, StepsAreTurns
  <2>3. CASE EndOfLoop
    BY <2>3, AlwaysProgress DEF EndOfLoop, LoopEnd, NoFalseDeadlock
  <2>4. CASE Skip \/ NextSuperstep \/ BlockDone \/ Over \/ UNCHANGED vars
    BY <2>4 DEF Skip, NextSuperstep, BlockDone, Over, vars, NoFalseDeadlock
  <2> QED BY <2>2, <2>3, <2>4 DEF Next, Step
<1> QED BY <1>1, <1>2, PTL DEF Spec

-----------------------------------------------------------------------------
(* The refinement *)

\* A turn is a step of its thread.
LEMMA TurnIsAStep ==
    ASSUME Inv, NEW resumed \in BOOLEAN, Turn(resumed)
    PROVE  \E t \in Threads : Barrier!Arrive(t) \/ Barrier!End(t)
<1> USE NAssumption
<1>1. tid \in Threads /\ Alive(tid) /\ TypeOK /\ outcome = "none"
  BY TurnIsAlive DEF Inv, Turn, Progression
<1>2. PICK me \in Threads : me = tid
  BY <1>1
<1>3. At(me) = "running" /\ tid' = me + 1 /\ end[me] = "none"
  BY <1>1, <1>2 DEF At, Alive, Turn, TypeOK
<1>4. ASSUME NEW t \in Threads, t # me, end'[t] = end[t] PROVE At(t)' = At(t)
  BY <1>1, <1>2, <1>3, <1>4 DEF At, Threads, TypeOK
<1>5. ASSUME NEW what, At(me)' = what, \A t \in Threads \ {me} : end'[t] = end[t]
      PROVE  [t \in Threads |-> At(t)'] = [[t \in Threads |-> At(t)] EXCEPT ![me] = what]
  BY <1>4, <1>5
<1>6. CASE Suspend(tid, resumed)
  <2>1. At(me)' = "waiting" /\ \A t \in Threads \ {me} : end'[t] = end[t]
    BY <1>3, <1>6 DEF At, Suspend, Threads
  <2>2. Barrier!Arrive(me)
    BY <1>1, <1>2, <1>3, <1>5, <1>6, <2>1 DEF Barrier!Arrive, Suspend
  <2> QED BY <2>2
<1>7. CASE Return(tid, resumed)
  <2>1. At(me)' = "returned" /\ \A t \in Threads \ {me} : end'[t] = end[t]
    BY <1>1, <1>2, <1>7 DEF At, Return, Gone, TypeOK
  <2>2. Barrier!End(me)
    BY <1>1, <1>2, <1>3, <1>5, <1>7, <2>1 DEF Barrier!End, Return, Gone
  <2> QED BY <2>2
<1>8. CASE Raise(tid)
  <2>1. At(me)' = "raised" /\ \A t \in Threads \ {me} : end'[t] = end[t]
    BY <1>1, <1>2, <1>8 DEF At, Raise, Gone, TypeOK
  <2>2. Barrier!End(me)
    BY <1>1, <1>2, <1>3, <1>5, <1>8, <2>1 DEF Barrier!End, Raise, Gone
  <2> QED BY <2>2
<1> QED BY <1>6, <1>7, <1>8, StepsAreTurns

\* What the barrier sees of the fibers once the loop has given each its turn.
LEMMA AtTheTest ==
    ASSUME Inv, control = "test"
    PROVE  /\ outcome = "none"
           /\ \A t \in Threads : At(t) = IF Alive(t) THEN "waiting" ELSE end[t]
           /\ SomeWaiting <=> \E t \in Threads : At(t) = "waiting"
<1>1. outcome = "none" /\ tid = N
  BY DEF Inv, Progression
<1>2. ASSUME NEW t \in Threads PROVE At(t) = IF Alive(t) THEN "waiting" ELSE end[t]
  BY <1>1, NAssumption DEF At, Alive, Threads
<1>3. numWaiting = 0 <=> Waiting = {}
  BY NobodyWaits DEF Inv
<1>4. ASSUME NEW t \in Threads PROVE Alive(t) <=> At(t) = "waiting"
  BY <1>2 DEF Inv, TypeOK, Alive
<1>5. Waiting = {t \in Threads : Alive(t)}
  BY <1>1, NAssumption DEF Waiting, Threads
<1> QED BY <1>1, <1>2, <1>3, <1>4, <1>5 DEF SomeWaiting, Inv, TypeOK

LEMMA SuperstepIsARelease == ASSUME Inv, NextSuperstep PROVE Barrier!Release
<1> USE NAssumption
<1>1. /\ outcome = "none"
      /\ \A t \in Threads : At(t) # "running"
      /\ \E t \in Threads : At(t) = "waiting"
  BY AtTheTest DEF NextSuperstep, Inv, TypeOK, Alive
<1>2. ASSUME NEW t \in Threads
      PROVE  At(t)' = IF At(t) = "waiting" THEN "running" ELSE At(t)
  BY AtTheTest DEF NextSuperstep, At, Alive, Threads, Inv, TypeOK
<1> QED BY <1>1, <1>2 DEF Barrier!Release, NextSuperstep

LEMMA DoneIsAFinish == ASSUME Inv, BlockDone PROVE Barrier!Finish
<1>1. outcome = "none" /\ \A t \in Threads : At(t) = end[t] /\ At(t) \in Barrier!Ended
  BY AtTheTest DEF BlockDone, Inv, TypeOK, Alive, Barrier!Ended
<1>2. firstError <=> \E t \in Threads : At(t) = "raised"
  BY <1>1 DEF Inv, Progression, BlockDone
<1>3. \A t \in Threads : At(t)' = At(t)
  BY DEF BlockDone, At, threadVars
<1> QED BY <1>1, <1>2, <1>3 DEF Barrier!Finish, BlockDone, threadVars

LEMMA OtherStepsStutter ==
    ASSUME Inv, Skip \/ EndOfLoop \/ Over \/ UNCHANGED vars
    PROVE  UNCHANGED Barrier!vars
<1> USE NAssumption
<1>1. UNCHANGED <<end, arrived, outcome>>
  BY AlwaysProgress DEF Skip, EndOfLoop, Over, vars, threadVars, LoopEnd
<1>2. ASSUME NEW t \in Threads PROVE At(t)' = At(t)
  <2>1. CASE Skip
    <3>1. tid \in Threads /\ ~Alive(tid)
      BY <2>1 DEF Skip, LoopEnd, Inv, StoredWhileAlive, TypeOK, Threads
    <3> QED BY <2>1, <3>1, <1>1 DEF Skip, At, Alive, Threads, Inv, TypeOK
  <2>2. CASE EndOfLoop \/ Over \/ UNCHANGED vars
    BY <2>2, <1>1 DEF EndOfLoop, Over, At, vars
  <2> QED BY <2>1, <2>2
<1> QED BY <1>1, <1>2 DEF Barrier!vars

\* The loops of run_block_bsp, run_block_with_barriers, run_block_sequential_bsp and the
\* interpreter's run_block implement the barrier.
THEOREM Refinement == Spec => ImplementsBarrier
<1>1. Init => Barrier!Init
  BY NAssumption DEF Init, Barrier!Init, At, Threads
<1>2. Inv /\ [Next]_vars => [Barrier!Next]_(Barrier!vars)
  <2> SUFFICES ASSUME Inv, [Next]_vars PROVE [Barrier!Next]_(Barrier!vars)
    OBVIOUS
  <2>1. CASE Start \/ Resume
    BY <2>1, StepsAreTurns, TurnIsAStep DEF Barrier!Next
  <2>2. CASE NextSuperstep
    BY <2>2, SuperstepIsARelease DEF Barrier!Next
  <2>3. CASE BlockDone
    BY <2>3, DoneIsAFinish DEF Barrier!Next
  <2>4. CASE Skip \/ EndOfLoop \/ Over \/ UNCHANGED vars
    BY <2>4, OtherStepsStutter
  <2> QED BY <2>1, <2>2, <2>3, <2>4 DEF Next, Step
<1> QED BY <1>1, <1>2, Invariance, PTL DEF Spec, ImplementsBarrier, Barrier!Spec

-----------------------------------------------------------------------------
(* The barrier *)

\* The threads of a block are at most one barrier apart: those that run have reached
\* the same ones, and those that wait the next one.
InStep ==
    \A t, u \in Threads :
        /\ At(t) = At(u) /\ At(t) \notin Barrier!Ended => arrived[t] = arrived[u]
        /\ At(t) = "running" /\ At(u) = "waiting" => arrived[u] = arrived[t] + 1

\* What a thread that arrives, or that ends, changes: its own place.
LEMMA ArriveMoves ==
    ASSUME NEW t \in Threads, Barrier!TypeOK, Barrier!Arrive(t)
    PROVE  /\ At(t) = "running" /\ At(t)' = "waiting" /\ outcome' = outcome
           /\ \A u \in Threads \ {t} : At(u)' = At(u)
           /\ arrived' = [arrived EXCEPT ![t] = @ + 1]
<1>1. [u \in Threads |-> At(u)'] = [[u \in Threads |-> At(u)] EXCEPT ![t] = "waiting"]
  BY DEF Barrier!Arrive
<1>2. \A u \in Threads : [v \in Threads |-> At(v)'][u] = At(u)'
  OBVIOUS
<1> QED BY <1>1, <1>2 DEF Barrier!Arrive, Barrier!TypeOK

LEMMA EndMoves ==
    ASSUME NEW t \in Threads, Barrier!TypeOK, Barrier!End(t)
    PROVE  /\ At(t) = "running" /\ At(t)' \in {"returned", "raised"}
           /\ outcome' \in {outcome, "raised"}
           /\ \A u \in Threads \ {t} : At(u)' = At(u)
           /\ arrived' = arrived
<1>1. PICK a \in {"returned", "raised"} :
        [u \in Threads |-> At(u)'] = [[u \in Threads |-> At(u)] EXCEPT ![t] = a]
  BY DEF Barrier!End
<1>2. \A u \in Threads : [v \in Threads |-> At(v)'][u] = At(u)'
  OBVIOUS
<1> QED BY <1>1, <1>2 DEF Barrier!End, Barrier!TypeOK

LEMMA BarrierTyped == Barrier!TypeOK /\ [Barrier!Next]_(Barrier!vars) => Barrier!TypeOK'
<1> SUFFICES ASSUME Barrier!TypeOK, [Barrier!Next]_(Barrier!vars) PROVE Barrier!TypeOK'
  OBVIOUS
<1>1. ASSUME NEW t \in Threads, Barrier!Arrive(t) PROVE Barrier!TypeOK'
  BY <1>1, ArriveMoves DEF Barrier!TypeOK, Barrier!Ended
<1>2. ASSUME NEW t \in Threads, Barrier!End(t) PROVE Barrier!TypeOK'
  BY <1>2, EndMoves DEF Barrier!TypeOK, Barrier!Ended
<1>3. CASE Barrier!Release
  BY <1>3 DEF Barrier!TypeOK, Barrier!Release, Barrier!Ended
<1>4. CASE Barrier!Finish
  BY <1>4 DEF Barrier!TypeOK, Barrier!Finish, Barrier!Ended
<1>5. CASE UNCHANGED Barrier!vars
  BY <1>5 DEF Barrier!TypeOK, Barrier!vars
<1> QED BY <1>1, <1>2, <1>3, <1>4, <1>5 DEF Barrier!Next

LEMMA BarrierInStep == Barrier!TypeOK /\ InStep /\ [Barrier!Next]_(Barrier!vars) => InStep'
<1> SUFFICES ASSUME Barrier!TypeOK, InStep, [Barrier!Next]_(Barrier!vars) PROVE InStep'
  OBVIOUS
<1>1. ASSUME NEW t \in Threads, Barrier!Arrive(t) PROVE InStep'
  BY <1>1, ArriveMoves DEF Barrier!TypeOK, InStep, Barrier!Ended
<1>2. ASSUME NEW t \in Threads, Barrier!End(t) PROVE InStep'
  BY <1>2, EndMoves DEF Barrier!TypeOK, InStep, Barrier!Ended
<1>3. CASE Barrier!Release
  BY <1>3 DEF Barrier!TypeOK, InStep, Barrier!Release, Barrier!Ended
<1>4. CASE Barrier!Finish
  BY <1>4 DEF Barrier!TypeOK, InStep, Barrier!Finish, Barrier!Ended
<1>5. CASE UNCHANGED Barrier!vars
  BY <1>5 DEF InStep, Barrier!vars
<1> QED BY <1>1, <1>2, <1>3, <1>4, <1>5 DEF Barrier!Next

\* The abstract barrier: no thread runs past a barrier that another one, still alive, has
\* yet to reach.
THEOREM Synchrony == Barrier!Spec => []Barrier!Synchronised
<1>1. Barrier!Init => Barrier!TypeOK /\ InStep
  BY DEF Barrier!Init, Barrier!TypeOK, InStep, Barrier!Ended
<1>2. Barrier!TypeOK /\ InStep => Barrier!Synchronised
  BY DEF Barrier!TypeOK, InStep, Barrier!Synchronised, Barrier!Ended
<1> QED BY <1>1, <1>2, BarrierTyped, BarrierInStep, PTL DEF Barrier!Spec

\* No fiber runs past a barrier that another one, still alive, has yet to reach.
THEOREM FibersStayTogether == Spec => []Synchronised
<1>1. Barrier!Synchronised => Synchronised
  BY DEF Synchronised
<1> QED BY <1>1, Refinement, Synchrony, PTL DEF ImplementsBarrier
=============================================================================
