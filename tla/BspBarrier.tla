----------------------------- MODULE BspBarrier -----------------------------
(***************************************************************************)
(* What a block of threads with barriers promises: bulk-synchronous        *)
(* execution.  Threads run between barriers in any order; a thread that    *)
(* has reached a barrier goes on once every thread that has not ended has  *)
(* reached it.  The block fails when a thread raises, at once or when the  *)
(* others have ended, and otherwise returns when all have.                 *)
(***************************************************************************)
EXTENDS Naturals

CONSTANTS Threads,
          MaxBarriers \* bound: barriers a thread reaches

VARIABLES at,      \* what each thread is doing
          arrived, \* the barriers it has reached
          outcome  \* how the block ended

vars == <<at, arrived, outcome>>

Ended == {"returned", "raised"}

Init ==
    /\ at = [t \in Threads |-> "running"]
    /\ arrived = [t \in Threads |-> 0]
    /\ outcome = "none"

Arrive(t) ==
    /\ outcome = "none"
    /\ at[t] = "running"
    /\ arrived[t] < MaxBarriers
    /\ at' = [at EXCEPT ![t] = "waiting"]
    /\ arrived' = [arrived EXCEPT ![t] = @ + 1]
    /\ UNCHANGED outcome

\* The thread ends; a raise may end the block there and then.
End(t) ==
    /\ outcome = "none"
    /\ at[t] = "running"
    /\ \/ at' = [at EXCEPT ![t] = "returned"] /\ UNCHANGED outcome
       \/ at' = [at EXCEPT ![t] = "raised"] /\ outcome' \in {"none", "raised"}
    /\ UNCHANGED arrived

\* Everyone is at the barrier or gone: the barrier opens.
Release ==
    /\ outcome = "none"
    /\ \A t \in Threads : at[t] # "running"
    /\ \E t \in Threads : at[t] = "waiting"
    /\ at' = [t \in Threads |-> IF at[t] = "waiting" THEN "running" ELSE at[t]]
    /\ UNCHANGED <<arrived, outcome>>

Finish ==
    /\ outcome = "none"
    /\ \A t \in Threads : at[t] \in Ended
    /\ outcome' = IF \E t \in Threads : at[t] = "raised" THEN "raised" ELSE "returned"
    /\ UNCHANGED <<at, arrived>>

Next == (\E t \in Threads : Arrive(t) \/ End(t)) \/ Release \/ Finish

Spec == Init /\ [][Next]_vars

-----------------------------------------------------------------------------
TypeOK ==
    /\ at \in [Threads -> {"running", "waiting"} \cup Ended]
    /\ arrived \in [Threads -> Nat]
    /\ outcome \in {"none"} \cup Ended

\* The barrier of a block: nobody runs past a barrier that a thread still alive has
\* yet to reach, so what any thread wrote before the barrier is written.
Synchronised ==
    \A t, u \in Threads :
        at[t] = "running" /\ at[u] \notin Ended => arrived[t] <= arrived[u]
=============================================================================
