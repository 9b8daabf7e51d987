---------------------------- MODULE LaunchQueue ----------------------------
(***************************************************************************)
(* The asynchronous launch queues of the CPU runtime: module LaunchQueue   *)
(* of sarek/sarek/Sarek_cpu_runtime_pools.ml and the fission queue API of  *)
(* sarek/sarek/Sarek_cpu_runtime.ml.  A queue has a mutex, two condition   *)
(* variables and a dispatcher domain that runs its kernels one at a time;  *)
(* a flush waits until the queue's count of pending launches is zero.      *)
(*                                                                         *)
(* What runs under a queue's mutex is one action; the kernel runs with it  *)
(* released.  The table of queues is not modelled: a queue that is not in  *)
(* it yet behaves as an empty one, whose flush returns at once.  Nothing   *)
(* calls shutdown.                                                         *)
(***************************************************************************)
EXTENDS Naturals, Sequences, FiniteSets, SequencesExt

CONSTANTS
    Clients,  \* the domains that enqueue and flush
    Queues,   \* the queue ids
    Launches, \* the kernel launches, each enqueued at most once
    None      \* no launch

VARIABLES
    queue,      \* the launches not yet popped
    pending,    \* the counter of launches not yet completed
    dispatcher, \* where the dispatcher is; "unborn" before the first enqueue
    executing,  \* the launch it popped and has yet to complete
    client,     \* where each client is: in or out of a flush
    flushing,   \* the queues it has still to flush, the present one first
    \* History, which no guard reads but for the bound on launches:
    enqueued,   \* the launches enqueued, in order
    completed,  \* the launches whose kernel returned
    owed        \* the launches enqueued before the client's last flush began

queueVars == <<queue, pending, dispatcher, executing, enqueued, completed>>
clientVars == <<client, flushing, owed>>
vars == <<queueVars, clientVars>>

-----------------------------------------------------------------------------
Enqueued == UNION {ToSet(enqueued[q]) : q \in Queues}

Init ==
    /\ queue = [q \in Queues |-> <<>>]
    /\ pending = [q \in Queues |-> 0]
    /\ dispatcher = [q \in Queues |-> "unborn"]
    /\ executing = [q \in Queues |-> None]
    /\ client = [c \in Clients |-> "idle"]
    /\ flushing = [c \in Clients |-> <<>>]
    /\ enqueued = [q \in Queues |-> <<>>]
    /\ completed = {}
    /\ owed = [c \in Clients |-> {}]

QueuedLast(q, k) == Append(queue[q], k)

\* enqueue: the dispatcher is spawned if there never was one, else signalled.
Enqueue(c, q, k) ==
    /\ client[c] = "idle"
    /\ k \notin Enqueued
    /\ queue' = [queue EXCEPT ![q] = QueuedLast(q, k)]
    /\ pending' = [pending EXCEPT ![q] = @ + 1]
    /\ dispatcher' = [dispatcher EXCEPT ![q] = IF @ \in {"unborn", "parked"} THEN "loop" ELSE @]
    /\ enqueued' = [enqueued EXCEPT ![q] = Append(@, k)]
    /\ UNCHANGED <<executing, completed, clientVars>>

-----------------------------------------------------------------------------
(* dispatcher_loop *)

Park(q) ==
    /\ dispatcher[q] = "loop"
    /\ queue[q] = <<>>
    /\ dispatcher' = [dispatcher EXCEPT ![q] = "parked"]
    /\ UNCHANGED <<queue, pending, executing, enqueued, completed, clientVars>>

Pop(q) ==
    /\ dispatcher[q] = "loop"
    /\ queue[q] # <<>>
    /\ executing' = [executing EXCEPT ![q] = Head(queue[q])]
    /\ queue' = [queue EXCEPT ![q] = Tail(@)]
    /\ dispatcher' = [dispatcher EXCEPT ![q] = "popped"]
    /\ UNCHANGED <<pending, enqueued, completed, clientVars>>

\* The kernel is called.
Call(q) ==
    /\ dispatcher[q] = "popped"
    /\ dispatcher' = [dispatcher EXCEPT ![q] = "running"]
    /\ UNCHANGED <<queue, pending, executing, enqueued, completed, clientVars>>

KernelReturns(q) ==
    /\ dispatcher[q] = "running"
    /\ completed' = completed \cup {executing[q]}
    /\ dispatcher' = [dispatcher EXCEPT ![q] = "marking"]
    /\ UNCHANGED <<queue, pending, executing, enqueued, clientVars>>

\* Nothing catches an exception of the kernel: it ends the dispatcher's domain, of which
\* the queue goes on to believe that it is there.
KernelRaises(q) ==
    /\ dispatcher[q] = "running"
    /\ dispatcher' = [dispatcher EXCEPT ![q] = "dead"]
    /\ UNCHANGED <<queue, pending, executing, enqueued, completed, clientVars>>

BroadcastDone(q) ==
    client' = [c \in Clients |->
                  IF client[c] = "parked" /\ Head(flushing[c]) = q THEN "loop" ELSE client[c]]

\* The launch is complete; the last pending one wakes the flushes of the queue.
Mark(q) ==
    /\ dispatcher[q] = "marking"
    /\ pending' = [pending EXCEPT ![q] = @ - 1]
    /\ IF pending[q] = 1 THEN BroadcastDone(q) ELSE UNCHANGED client
    /\ executing' = [executing EXCEPT ![q] = None]
    /\ dispatcher' = [dispatcher EXCEPT ![q] = "loop"]
    /\ UNCHANGED <<queue, enqueued, completed, flushing, owed>>

-----------------------------------------------------------------------------
(* flush *)

\* flush_fission_queue names its queue; flush_fission takes those in the table, in any
\* order, and flushes one after the other.
Flush(c, qs) ==
    /\ client[c] = "idle"
    /\ client' = [client EXCEPT ![c] = "loop"]
    /\ flushing' = [flushing EXCEPT ![c] = qs]
    /\ owed' = [owed EXCEPT ![c] = UNION {ToSet(enqueued[q]) : q \in ToSet(qs)}]
    /\ UNCHANGED queueVars

FlushParks(c) ==
    /\ client[c] = "loop"
    /\ flushing[c] # <<>>
    /\ pending[Head(flushing[c])] > 0
    /\ client' = [client EXCEPT ![c] = "parked"]
    /\ UNCHANGED <<queueVars, flushing, owed>>

\* (Mutation: popped launches do not count.)
QueueEmpty(q) == queue[q] = <<>>
NonePending(q) == pending[q] = 0

\* Nothing is pending in the queue: on to the next one, or return.
FlushNext(c) ==
    /\ client[c] = "loop"
    /\ flushing[c] # <<>>
    /\ NonePending(Head(flushing[c]))
    /\ flushing' = [flushing EXCEPT ![c] = Tail(@)]
    /\ client' = [client EXCEPT ![c] = IF Len(flushing[c]) = 1 THEN "idle" ELSE "loop"]
    /\ UNCHANGED <<queueVars, owed>>

\* What a flush is called on: one queue, or all there are.
Flushable == {<<q>> : q \in Queues}
               \cup (Seq(Queues) \cap SetToSeqs({q \in Queues : dispatcher[q] # "unborn"}))

ClientStep(c) == FlushParks(c) \/ FlushNext(c)

Next ==
    \/ \E q \in Queues :
          \/ Park(q) \/ Pop(q) \/ Call(q) \/ KernelReturns(q) \/ KernelRaises(q)
          \/ Mark(q)
    \/ \E c \in Clients :
          \/ ClientStep(c)
          \/ \E q \in Queues, k \in Launches : Enqueue(c, q, k)
          \/ \E qs \in Flushable : qs # <<>> /\ Flush(c, qs)

Spec == Init /\ [][Next]_vars

-----------------------------------------------------------------------------
(* Properties *)

\* Type correctness of the queues, their dispatchers and the flushes.
TypeOK ==
    /\ queue \in [Queues -> Seq(Launches)]
    /\ pending \in [Queues -> Nat]
    /\ dispatcher \in [Queues -> {"unborn", "loop", "parked", "popped", "running", "marking",
                                  "dead"}]
    /\ executing \in [Queues -> Launches \cup {None}]
    /\ client \in [Clients -> {"idle", "loop", "parked"}]
    /\ flushing \in [Clients -> Seq(Queues)]
    /\ enqueued \in [Queues -> Seq(Launches)]
    /\ completed \in SUBSET Launches
    /\ owed \in [Clients -> SUBSET Launches]

\* Kernels of one queue run in the order they were enqueued, one at a time: one that is
\* being executed has every earlier one of its queue complete behind it.
InOrder ==
    \A q \in Queues : \A i, j \in DOMAIN enqueued[q] :
        i < j /\ executing[q] = enqueued[q][j] => enqueued[q][i] \in completed

\* A flush that has returned left nothing behind: what was in its queues when it was
\* called is complete, though it was no longer in the queue while it ran.
FlushWaits ==
    \A c \in Clients : client[c] = "idle" => owed[c] \subseteq completed
=============================================================================
