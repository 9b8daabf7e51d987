--------------------------- MODULE LaunchService ---------------------------
(***************************************************************************)
(* What the runtime promises those who launch kernels, with no dispatcher, *)
(* pool, worker or lock in it: the queues of the fission API as their      *)
(* client sees them, and calls of run_threadpool.                          *)
(*                                                                         *)
(* A queue calls its kernels one at a time in the order they were          *)
(* enqueued.  A call runs every item (block or thread) of its grid at most *)
(* once, in any order; it returns when all have run, and raises when one   *)
(* has.  A flush returns when what was enqueued before it is complete.     *)
(***************************************************************************)
EXTENDS Naturals, Sequences, SequencesExt

CONSTANTS
    Clients, Queues, Launches,
    Sizes      \* how many items a grid may have

VARIABLES
    enqueued,  \* the launches of each queue, in order
    called,    \* how many of them the queue has called
    completed, \* the launches of queues that returned
    at,        \* where each client and queue is
    ran,       \* how often each item of its call has run
    owed       \* the launches that the client's last flush is to wait for

vars == <<enqueued, called, completed, at, ran, owed>>

Callers == Clients \cup Queues
Nothing == [i \in {} |-> 0]

Init ==
    /\ enqueued = [q \in Queues |-> <<>>]
    /\ called = [q \in Queues |-> 0]
    /\ completed = {}
    /\ at = [x \in Callers |-> "free"]
    /\ ran = [x \in Callers |-> Nothing]
    /\ owed = [c \in Clients |-> {}]

Goes(x, from, to) == at[x] = from /\ at' = [at EXCEPT ![x] = to]

Enqueue(c, q, k) ==
    /\ at[c] = "free"
    /\ \A p \in Queues : k \notin ToSet(enqueued[p])
    /\ enqueued' = [enqueued EXCEPT ![q] = Append(@, k)]
    /\ UNCHANGED <<called, completed, at, ran, owed>>

-----------------------------------------------------------------------------
(* Calls *)

Begin(x) ==
    /\ Goes(x, "free", "running")
    /\ \E n \in Sizes : ran' = [ran EXCEPT ![x] = [i \in 0..(n - 1) |-> 0]]
    /\ UNCHANGED <<enqueued, completed, owed>>

\* A client calls a kernel itself; a queue calls the next of its launches.
CallDirectly(c) == Begin(c) /\ UNCHANGED called
CallNext(q) ==
    /\ called[q] < Len(enqueued[q])
    /\ called' = [called EXCEPT ![q] = @ + 1]
    /\ Begin(q)

\* Some items run that have not run before, and one of them may raise.
NotRun(x) == {i \in DOMAIN ran[x] : ran[x][i] = 0}
RunItems(x, S) ==
    /\ at[x] \in {"running", "raising"}
    /\ ran' = [ran EXCEPT ![x] = [i \in DOMAIN @ |-> IF i \in S THEN 1 ELSE @[i]]]
    /\ at' \in {at, [at EXCEPT ![x] = "raising"]}
    /\ UNCHANGED <<enqueued, called, completed, owed>>

\* All have run, none has raised: the call returns, and a queue's launch is complete.
Return(x) ==
    /\ NotRun(x) = {}
    /\ Goes(x, "running", "free")
    /\ ran' = [ran EXCEPT ![x] = Nothing]
    /\ completed' = IF x \in Queues THEN completed \cup {enqueued[x][called[x]]} ELSE completed
    /\ UNCHANGED <<enqueued, called, owed>>

\* A client goes on after its call raised; nothing of a queue runs any more.
Raise(x) ==
    /\ Goes(x, "raising", IF x \in Queues THEN "dead" ELSE "free")
    /\ ran' = [ran EXCEPT ![x] = Nothing]
    /\ UNCHANGED <<enqueued, called, completed, owed>>

-----------------------------------------------------------------------------
(* Flushes *)

Flush(c, Q) ==
    /\ Goes(c, "free", "flushing")
    /\ owed' = [owed EXCEPT ![c] = UNION {ToSet(enqueued[q]) : q \in Q}]
    /\ UNCHANGED <<enqueued, called, completed, ran>>

FlushReturns(c) ==
    /\ Goes(c, "flushing", "free")
    /\ owed[c] \subseteq completed
    /\ UNCHANGED <<enqueued, called, completed, ran, owed>>

-----------------------------------------------------------------------------
Next ==
    \/ \E c \in Clients :
          \/ CallDirectly(c) \/ FlushReturns(c)
          \/ \E Q \in SUBSET Queues : Flush(c, Q)
          \/ \E q \in Queues, k \in Launches : Enqueue(c, q, k)
    \/ \E q \in Queues : CallNext(q)
    \/ \E x \in Callers :
          \/ Return(x) \/ Raise(x)
          \/ \E S \in SUBSET NotRun(x) : RunItems(x, S)

Spec == Init /\ [][Next]_vars
=============================================================================
