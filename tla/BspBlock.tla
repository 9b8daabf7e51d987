------------------------------ MODULE BspBlock ------------------------------
(***************************************************************************)
(* One block of a kernel with barriers on the CPU: the threads of the      *)
(* block are fibers of one domain, and a barrier is the effect Barrier,    *)
(* whose handler stores the fiber's continuation.  A loop over the threads *)
(* starts each; then, superstep by superstep, another resumes each fiber   *)
(* suspended at the barrier.                                               *)
(*                                                                         *)
(* The code has the algorithm in two variants.  "shallow" handlers keep a  *)
(* status per thread, let the others go on when one raises and re-raise at *)
(* the end (run_block_bsp, run_block_with_barriers).  "deep" handlers keep *)
(* continuations only, let the exception out at once, and test for a lack  *)
(* of progress (run_block_sequential_bsp and the interpreter's run_block). *)
(*                                                                         *)
(* A run of a fiber up to its next barrier or its end is one step: nothing *)
(* else runs in the block meanwhile.                                       *)
(***************************************************************************)
EXTENDS Naturals

CONSTANTS N,          \* the threads of the block
          MaxBarriers \* bound: barriers a thread reaches

ASSUME NAssumption == N \in Nat
ASSUME MaxBarriersAssumption == MaxBarriers \in Nat

VARIABLES
    variant,      \* which handlers: "shallow" or "deep"
    control,      \* the loop the block is in
    tid,          \* its loop variable
    status,       \* shallow: 0 running, 1 waiting at the barrier, 2 completed
    conts,        \* the threads whose continuation is stored
    numWaiting,
    numCompleted,
    toResume,     \* deep: numWaiting at the start of the superstep
    firstError,   \* shallow: has an error been recorded?
    outcome,      \* how the block ended
    \* History, which no guard reads but for the bound:
    end,          \* how each thread ended
    arrived       \* the barriers it has reached

threadVars == <<status, conts, numWaiting, numCompleted, firstError, end, arrived>>
vars == <<variant, control, tid, threadVars, toResume, outcome>>

Threads == 0..(N - 1)
Shallow == variant = "shallow"

-----------------------------------------------------------------------------
Init ==
    /\ variant \in {"shallow", "deep"}
    /\ control = "initial"
    /\ tid = 0
    /\ status = [t \in Threads |-> 0]
    /\ conts = {}
    /\ numWaiting = 0
    /\ numCompleted = 0
    /\ toResume = 0
    /\ firstError = FALSE
    /\ outcome = "none"
    /\ end = [t \in Threads |-> "none"]
    /\ arrived = [t \in Threads |-> 0]

\* Is the thread suspended, as the superstep loop tests it?
Suspended(t) == IF Shallow THEN status[t] = 1 ELSE t \in conts

(* What retc adds to numCompleted.  A resumed fiber of the deep variant runs
   under its own handler and under a second one installed to resume it, and the
   retc of that one counts too: once when the fiber suspends, again when it ends. *)
CompletedOnce(resumed, ends) == IF ends THEN 1 ELSE 0
Completed(resumed, ends) ==
    (IF ends THEN 1 ELSE 0) + (IF resumed /\ ~Shallow THEN 1 ELSE 0)

\* The fiber performs Barrier: effc stores its continuation.
Suspend(t, resumed) ==
    /\ arrived[t] < MaxBarriers
    /\ conts' = conts \cup {t}
    /\ status' = IF Shallow THEN [status EXCEPT ![t] = 1] ELSE status
    /\ numWaiting' = numWaiting + 1
    /\ numCompleted' = numCompleted + Completed(resumed, FALSE)
    /\ arrived' = [arrived EXCEPT ![t] = @ + 1]
    /\ UNCHANGED <<firstError, end, control, outcome>>

Gone(t, how) ==
    /\ conts' = conts \ {t}
    /\ status' = IF Shallow THEN [status EXCEPT ![t] = 2] ELSE status
    /\ end' = [end EXCEPT ![t] = how]
    /\ UNCHANGED <<numWaiting, arrived>>

\* The fiber ends.
Return(t, resumed) ==
    /\ Gone(t, "returned")
    /\ numCompleted' = numCompleted + Completed(resumed, TRUE)
    /\ UNCHANGED <<firstError, control, outcome>>

\* The fiber raises: recorded (shallow), or out of the block at once (deep).
Raise(t) ==
    /\ Gone(t, "raised")
    /\ IF Shallow
          THEN /\ firstError' = TRUE
               /\ numCompleted' = numCompleted + 1
               /\ UNCHANGED <<control, outcome>>
          ELSE /\ control' = "over"
               /\ outcome' = "raised"
               /\ UNCHANGED <<firstError, numCompleted>>

RunFiber(t, resumed) == Suspend(t, resumed) \/ Return(t, resumed) \/ Raise(t)

\* The loops over the threads end here.
LoopEnd == N

\* The initial run starts the next thread.
Start ==
    /\ control = "initial" /\ tid < LoopEnd
    /\ RunFiber(tid, FALSE)
    /\ tid' = tid + 1
    /\ UNCHANGED <<variant, toResume>>

\* A superstep resumes the next thread, if it is suspended.
Resume ==
    /\ control = "superstep" /\ tid < LoopEnd
    /\ Suspended(tid)
    /\ RunFiber(tid, TRUE)
    /\ tid' = tid + 1
    /\ UNCHANGED <<variant, toResume>>

Skip ==
    /\ control = "superstep" /\ tid < LoopEnd
    /\ ~Suspended(tid)
    /\ tid' = tid + 1
    /\ UNCHANGED <<variant, control, threadVars, toResume, outcome>>

\* The test for progress at the end of a superstep.
NoProgress == ~Shallow /\ numWaiting = toResume /\ numCompleted < N

\* Every thread has had its turn.
EndOfLoop ==
    /\ control \in {"initial", "superstep"} /\ tid = LoopEnd
    /\ IF control = "superstep" /\ NoProgress
          THEN control' = "over" /\ outcome' = "deadlock"
          ELSE control' = "test" /\ UNCHANGED outcome
    /\ UNCHANGED <<variant, tid, threadVars, toResume>>

\* (Mutations: the counter is not reset; the loop stops once a thread has ended.)
WaitingKept == numWaiting
WaitingReset == 0
AllWaiting == numWaiting = N
SomeWaiting == numWaiting > 0

\* Threads wait at the barrier: the next superstep begins.
NextSuperstep ==
    /\ control = "test" /\ SomeWaiting
    /\ control' = "superstep"
    /\ tid' = 0
    /\ toResume' = numWaiting
    /\ numWaiting' = WaitingReset
    /\ UNCHANGED <<variant, status, conts, numCompleted, firstError, end, arrived, outcome>>

\* None does: the block returns, or re-raises the first error.
BlockDone ==
    /\ control = "test" /\ ~SomeWaiting
    /\ control' = "over"
    /\ outcome' = IF firstError THEN "raised" ELSE "returned"
    /\ UNCHANGED <<variant, tid, threadVars, toResume>>

Over == control = "over" /\ UNCHANGED vars

Step == Start \/ Resume \/ Skip \/ EndOfLoop \/ NextSuperstep \/ BlockDone
Next == Step \/ Over

Spec == Init /\ [][Next]_vars

\* The block's domain keeps running.
FairSpec == Spec /\ WF_vars(Step)

-----------------------------------------------------------------------------
(* Properties *)

\* Type correctness; the counter of waiting threads never exceeds the block.
TypeOK ==
    /\ variant \in {"shallow", "deep"}
    /\ control \in {"initial", "superstep", "test", "over"}
    /\ tid \in 0..N
    /\ status \in [Threads -> 0..2]
    /\ conts \in SUBSET Threads
    /\ numWaiting \in 0..N
    /\ numCompleted \in Nat
    /\ toResume \in 0..N
    /\ firstError \in BOOLEAN
    /\ outcome \in {"none", "returned", "raised", "deadlock"}
    /\ end \in [Threads -> {"none", "returned", "raised"}]
    /\ arrived \in [Threads -> Nat]

\* What each thread is doing, as BspBarrier sees it: a fiber is running while the
\* loop has yet to give it its turn.
At(t) == IF end[t] # "none" THEN end[t] ELSE IF t >= tid THEN "running" ELSE "waiting"

Barrier == INSTANCE BspBarrier WITH at <- [t \in Threads |-> At(t)]

\* The loops over fibers implement the barrier: every step is a step of a thread, the
\* opening of the barrier once all have arrived, the end of the block once all have
\* ended, or no step at all.
ImplementsBarrier == Barrier!Spec

\* The barrier of a block: no fiber runs past a barrier that another one, still alive,
\* has yet to reach.
Synchronised == Barrier!Synchronised

\* The test for a lack of progress never accuses a kernel: every fiber that is resumed
\* makes progress, so threads that all wait at one barrier after another are no deadlock.
NoFalseDeadlock == outcome # "deadlock"

\* The block comes to its end if its threads reach finitely many barriers.
BlockEnds == <>(control = "over")
=============================================================================
