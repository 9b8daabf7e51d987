------------------------ MODULE FissionRuntimeProofs ------------------------
(***************************************************************************)
(* The launch queues and the pools inside the runtime, for any clients,    *)
(* queues, launches, grids and sizes of the pools.                         *)
(*                                                                         *)
(* Kernels of a queue run in order and a flush that returns left nothing   *)
(* behind.  Which of the pools a kernel runs on, and what else runs there, *)
(* does not matter to the queues: every step of the runtime is one of      *)
(* theirs or leaves them alone, and the invariant is kept by each of their *)
(* operations.                                                             *)
(*                                                                         *)
(* In a program that runs one kernel at a time each pool runs every block  *)
(* or thread of a launch once and reports its errors.  Its invariant says  *)
(* who owes the launch what: the blocks in the slots of the thread pool,   *)
(* the claimed chunks and the rest of the range in the parallel one.       *)
(*                                                                         *)
(* Such a program implements LaunchService.  A caller is in one pool at    *)
(* most, and only while it is in a call: so a step of a worker is items of *)
(* one call, what the pool's books say of a run that ends is said of the   *)
(* call, and a flush that returns is owed nothing by the queues'.          *)
(***************************************************************************)
EXTENDS FissionRuntime, FiniteSetTheorems, TLAPS

-----------------------------------------------------------------------------

\* Every step of the runtime is a step of its launch queues, or leaves them as they are.
LEMMA QueuesStep == Next => LQ!Next \/ UNCHANGED queueVars
<1> SUFFICES ASSUME Next PROVE LQ!Next \/ UNCHANGED queueVars
  OBVIOUS
<1>1. ASSUME NEW c \in Clients, NEW k \in Launches, CallDirectly(c, k)
      PROVE  UNCHANGED queueVars
  BY <1>1 DEF CallDirectly
<1>2. ASSUME NEW c \in Clients, NEW k \in Launches, NEW q \in Queues, Enqueue(c, q, k)
      PROVE  LQ!Next
  BY <1>2 DEF Enqueue, LQ!Next
<1>3. ASSUME NEW c \in Clients, Flush(c)
      PROVE  LQ!Next
  BY <1>3 DEF Flush, LQ!Next
<1>4. ASSUME NEW c \in Clients, ClientStep(c)
      PROVE  LQ!Next \/ UNCHANGED queueVars
  BY <1>4 DEF ClientStep, FlushStep, CallStep, DirectCallEnds, LQ!Next
<1>5. ASSUME NEW q \in Queues, DispatcherStep(q)
      PROVE  LQ!Next \/ UNCHANGED queueVars
  BY <1>5 DEF DispatcherStep, Dispatch, DispatcherCalls, DispatcherCallEnds, CallStep, LQ!Next
<1>6. ASSUME NEW w \in Workers, ThreadWorkerStep(w) \/ ParallelWorkerStep(w)
      PROVE  UNCHANGED queueVars
  BY <1>6 DEF ThreadWorkerStep, ParallelWorkerStep
<1>7. ASSUME NEW x \in Callers, Wakeup(x)
      PROVE  UNCHANGED queueVars
  BY <1>7 DEF Wakeup
<1> QED
  BY <1>1, <1>2, <1>3, <1>4, <1>5, <1>6, <1>7 DEF Next

-----------------------------------------------------------------------------
(* Sequences *)

\* The first element of a sequence, and those of its tail, are all there are.
LEMMA HeadAndTail ==
  ASSUME NEW S, NEW s \in Seq(S), s # <<>>
  PROVE  /\ Head(s) \in S /\ Tail(s) \in Seq(S)
         /\ \A x \in LQ!ToSet(s) : x = Head(s) \/ x \in LQ!ToSet(Tail(s))
<1>1. Head(s) \in S /\ Tail(s) \in Seq(S)
  OBVIOUS
<1>2. ASSUME NEW i \in DOMAIN s PROVE s[i] = Head(s) \/ s[i] \in LQ!ToSet(Tail(s))
  <2>1. CASE i = 1
    BY <2>1
  <2>2. CASE i # 1
    <3>1. i - 1 \in DOMAIN Tail(s) /\ Tail(s)[i - 1] = s[i]
      BY <2>2
    <3> QED BY <3>1 DEF LQ!ToSet
  <2> QED BY <2>1, <2>2
<1> QED BY <1>1, <1>2 DEF LQ!ToSet

\* A flush is called on a sequence of queues.
LEMMA FlushableTyped == ASSUME NEW qs \in LQ!Flushable PROVE qs \in Seq(Queues)
<1>1. \A q \in Queues : <<q>> \in Seq(Queues)
  OBVIOUS
<1> QED BY <1>1 DEF LQ!Flushable

-----------------------------------------------------------------------------
(* The inductive invariant *)

\* Of the launches enqueued, in their order: how many were popped, how many are done with.
Popped(q) == Len(enqueued[q]) - Len(queue[q])
Done(q) == Len(enqueued[q]) - pending[q]

\* Nothing is reordered, dropped or enqueued twice: what is done with is complete, the
\* dispatcher executes the next launch or none, and the queue holds the rest.
QueueKept(q) ==
    /\ Done(q) >= 0
    /\ executing[q] = None => Popped(q) = Done(q)
    /\ executing[q] # None => Popped(q) = Done(q) + 1 /\ executing[q] = enqueued[q][Popped(q)]
    /\ executing[q] # None <=> dispatcher[q] \in {"popped", "running", "marking", "dead"}
    /\ dispatcher[q] = "marking" => executing[q] \in completed
    /\ \A i \in 1..Len(queue[q]) : queue[q][i] = enqueued[q][Popped(q) + i]
    /\ \A i \in 1..Done(q) : enqueued[q][i] \in completed
    /\ \A i, j \in DOMAIN enqueued[q] : enqueued[q][i] = enqueued[q][j] => i = j

\* What a flush owes is complete, or is of a queue it has still to flush.
StillOwed(c, k) == \E q \in LQ!ToSet(flushing[c]) : k \in LQ!ToSet(enqueued[q])
FlushKept(c) ==
    /\ client[c] = "idle" => flushing[c] = <<>>
    /\ \A k \in owed[c] : k \in completed \/ StillOwed(c, k)

QueuesInv ==
    /\ LQ!TypeOK
    /\ \A q \in Queues : QueueKept(q)
    /\ \A c \in Clients : FlushKept(c)

LEMMA InitInv == Init => QueuesInv
<1> SUFFICES ASSUME LQ!Init PROVE QueuesInv
  BY DEF Init
<1>1. LQ!TypeOK
  BY DEF LQ!Init, LQ!TypeOK
<1>2. ASSUME NEW q \in Queues PROVE QueueKept(q)
  BY DEF LQ!Init, QueueKept, Popped, Done
<1>3. ASSUME NEW c \in Clients PROVE FlushKept(c)
  BY DEF LQ!Init, FlushKept
<1> QED BY <1>1, <1>2, <1>3 DEF QueuesInv

\* The counts are numbers, and what is popped is no more than what was enqueued.
LEMMA Counts ==
  ASSUME LQ!TypeOK, NEW q \in Queues, QueueKept(q)
  PROVE  /\ Len(queue[q]) \in Nat /\ Len(enqueued[q]) \in Nat /\ pending[q] \in Nat
         /\ Popped(q) \in Nat /\ Done(q) \in Nat
         /\ Popped(q) + Len(queue[q]) = Len(enqueued[q])
         /\ DOMAIN queue[q] = 1..Len(queue[q]) /\ DOMAIN enqueued[q] = 1..Len(enqueued[q])
<1>1. queue[q] \in Seq(Launches) /\ enqueued[q] \in Seq(Launches) /\ pending[q] \in Nat
  BY DEF LQ!TypeOK
<1>2. Len(queue[q]) \in Nat /\ Len(enqueued[q]) \in Nat
  BY <1>1
<1>3. Done(q) \in Nat /\ Done(q) \in Int
  BY <1>1, <1>2 DEF Done, QueueKept
<1>4. Popped(q) = Done(q) \/ Popped(q) = Done(q) + 1
  BY DEF QueueKept
<1>5. Popped(q) \in Nat
  BY <1>3, <1>4
<1>6. Popped(q) + Len(queue[q]) = Len(enqueued[q])
  BY <1>2 DEF Popped
<1>7. DOMAIN queue[q] = 1..Len(queue[q]) /\ DOMAIN enqueued[q] = 1..Len(enqueued[q])
  BY <1>1
<1> QED BY <1>1, <1>2, <1>3, <1>5, <1>6, <1>7

-----------------------------------------------------------------------------
(* One lemma per operation *)

LEMMA EnqueueInv ==
  ASSUME QueuesInv, NEW c \in Clients, NEW q \in Queues, NEW k \in Launches, LQ!Enqueue(c, q, k)
  PROVE  QueuesInv'
<1> USE DEF QueuesInv, LQ!Enqueue, LQ!QueuedLast, LQ!queueVars, LQ!clientVars
<1>1. LQ!TypeOK'
  BY DEF LQ!TypeOK
<1>2. ASSUME NEW p \in Queues PROVE QueueKept(p)'
  <2>1. CASE p # q
    <3>1. /\ queue'[p] = queue[p] /\ enqueued'[p] = enqueued[p] /\ pending'[p] = pending[p]
          /\ executing'[p] = executing[p] /\ dispatcher'[p] = dispatcher[p]
          /\ completed' = completed
      BY <2>1 DEF LQ!TypeOK
    <3>2. QueueKept(p)
      OBVIOUS
    <3> HIDE DEF QueuesInv, LQ!Enqueue, LQ!Pop, LQ!Mark
    <3>3. Popped(p)' = Popped(p) /\ Done(p)' = Done(p)
      BY <3>1 DEF Popped, Done
    <3> QED BY <3>1, <3>2, <3>3 DEF QueueKept
  <2>2. CASE p = q
    <3>1. /\ queue'[q] = Append(queue[q], k) /\ enqueued'[q] = Append(enqueued[q], k)
          /\ pending'[q] = pending[q] + 1 /\ executing'[q] = executing[q]
          /\ completed' = completed
          /\ dispatcher'[q] = IF dispatcher[q] \in {"unborn", "parked"} THEN "loop" ELSE dispatcher[q]
      BY DEF LQ!TypeOK
    <3>2. /\ queue[q] \in Seq(Launches) /\ enqueued[q] \in Seq(Launches) /\ pending[q] \in Nat
          /\ QueueKept(q)
      BY DEF LQ!TypeOK
    <3>0. /\ Len(queue[q]) \in Nat /\ Len(enqueued[q]) \in Nat /\ pending[q] \in Nat
          /\ Popped(q) \in Nat /\ Done(q) \in Nat
          /\ Popped(q) + Len(queue[q]) = Len(enqueued[q])
          /\ DOMAIN queue[q] = 1..Len(queue[q]) /\ DOMAIN enqueued[q] = 1..Len(enqueued[q])
      BY Counts, <3>2
    <3> HIDE DEF QueuesInv, LQ!Enqueue
    <3>3. /\ Popped(q)' = Popped(q) /\ Done(q)' = Done(q)
          /\ Len(queue'[q]) = Len(queue[q]) + 1 /\ Len(enqueued'[q]) = Len(enqueued[q]) + 1
      <4>1. Len(queue'[q]) = Len(queue[q]) + 1 /\ Len(enqueued'[q]) = Len(enqueued[q]) + 1
        BY <3>1, <3>2
      <4> QED BY <3>1, <3>0, <4>1 DEF Popped, Done
    <3>4. \A i \in DOMAIN enqueued[q] : enqueued'[q][i] = enqueued[q][i] /\ enqueued[q][i] # k
      BY <3>1, <3>2 DEF LQ!Enqueue, LQ!Enqueued, LQ!ToSet
    <3>5. enqueued'[q][Len(enqueued[q]) + 1] = k
      BY <3>1, <3>2
    <3>6. \A i, j \in DOMAIN enqueued'[q] : enqueued'[q][i] = enqueued'[q][j] => i = j
      BY <3>1, <3>2, <3>3, <3>4, <3>5 DEF QueueKept
    <3>7. ASSUME NEW i \in 1..Len(queue'[q]) PROVE queue'[q][i] = enqueued'[q][Popped(q) + i]
      <4>1. CASE i = Len(queue[q]) + 1
        <5>1. queue'[q][i] = k
          BY <3>1, <3>2, <4>1
        <5>2. Popped(q) + i = Len(enqueued[q]) + 1
          <6>1. Popped(q) + (Len(queue[q]) + 1) = Len(enqueued[q]) + 1
            BY <3>0
          <6> QED BY <4>1, <6>1
        <5> QED BY <3>5, <5>1, <5>2
      <4>2. CASE i # Len(queue[q]) + 1
        <5>1. i \in 1..Len(queue[q]) /\ Popped(q) + i \in DOMAIN enqueued[q]
          BY <3>0, <3>3, <4>2
        <5> QED BY <3>1, <3>2, <3>4, <5>1 DEF QueueKept
      <4> QED BY <4>1, <4>2
    <3>8. \A i \in 1..Done(q) : enqueued'[q][i] \in completed
      <4>1. Done(q) <= Len(enqueued[q])
        BY <3>0 DEF Done
      <4>2. 1..Done(q) \subseteq DOMAIN enqueued[q]
        BY <3>0, <4>1
      <4> QED BY <3>2, <3>4, <4>2 DEF QueueKept
    <3>9. executing[q] # None => executing[q] = enqueued'[q][Popped(q)]
      <4>1. executing[q] # None => Popped(q) \in DOMAIN enqueued[q]
        BY <3>0, <3>2 DEF QueueKept
      <4> QED BY <3>2, <3>4, <4>1 DEF QueueKept
    <3> QED BY <2>2, <3>1, <3>2, <3>3, <3>6, <3>7, <3>8, <3>9 DEF QueueKept
  <2> QED BY <2>1, <2>2
<1>3. ASSUME NEW d \in Clients PROVE FlushKept(d)'
  <2>1. ASSUME NEW p \in Queues
        PROVE  LQ!ToSet(enqueued[p]) \subseteq LQ!ToSet(enqueued'[p])
    <3>1. enqueued[p] \in Seq(Launches)
      BY DEF LQ!TypeOK
    <3>2. enqueued'[p] = enqueued[p] \/ enqueued'[p] = Append(enqueued[p], k)
      BY DEF LQ!TypeOK
    <3> HIDE DEF QueuesInv, LQ!Enqueue
    <3> QED BY <3>1, <3>2 DEF LQ!ToSet
  <2>2. LQ!ToSet(flushing[d]) \subseteq Queues
    BY DEF LQ!ToSet, LQ!TypeOK
  <2> QED BY <2>1, <2>2 DEF FlushKept, StillOwed
<1> QED BY <1>1, <1>2, <1>3

LEMMA ParkInv ==
  ASSUME QueuesInv, NEW q \in Queues, LQ!Park(q) PROVE QueuesInv'
<1> USE DEF QueuesInv, LQ!Park, LQ!clientVars
<1>1. LQ!TypeOK'
  BY DEF LQ!TypeOK
<1>2. ASSUME NEW p \in Queues PROVE QueueKept(p)'
  BY DEF QueueKept, Popped, Done, LQ!TypeOK
<1>3. ASSUME NEW d \in Clients PROVE FlushKept(d)'
  BY DEF FlushKept, StillOwed
<1> QED BY <1>1, <1>2, <1>3

LEMMA PopInv ==
  ASSUME QueuesInv, NEW q \in Queues, LQ!Pop(q) PROVE QueuesInv'
<1> USE DEF QueuesInv, LQ!Pop, LQ!clientVars
<1>1. LQ!TypeOK'
  BY DEF LQ!TypeOK
<1>2. ASSUME NEW p \in Queues PROVE QueueKept(p)'
  <2>1. CASE p # q
    <3>1. /\ queue'[p] = queue[p] /\ enqueued'[p] = enqueued[p] /\ pending'[p] = pending[p]
          /\ executing'[p] = executing[p] /\ dispatcher'[p] = dispatcher[p]
          /\ completed' = completed
      BY <2>1 DEF LQ!TypeOK
    <3>2. QueueKept(p)
      OBVIOUS
    <3> HIDE DEF QueuesInv, LQ!Enqueue, LQ!Pop, LQ!Mark
    <3>3. Popped(p)' = Popped(p) /\ Done(p)' = Done(p)
      BY <3>1 DEF Popped, Done
    <3> QED BY <3>1, <3>2, <3>3 DEF QueueKept
  <2>2. CASE p = q
    <3>1. /\ queue'[q] = Tail(queue[q]) /\ executing'[q] = Head(queue[q])
          /\ dispatcher'[q] = "popped"
          /\ enqueued' = enqueued /\ pending' = pending /\ completed' = completed
      BY DEF LQ!TypeOK
    <3>2. /\ queue[q] \in Seq(Launches) /\ enqueued[q] \in Seq(Launches) /\ pending[q] \in Nat
          /\ queue[q] # <<>> /\ QueueKept(q)
      BY DEF LQ!TypeOK
    <3>6. executing[q] = None
      BY <3>2 DEF QueueKept
    <3>0. /\ Len(queue[q]) \in Nat /\ Len(enqueued[q]) \in Nat /\ pending[q] \in Nat
          /\ Popped(q) \in Nat /\ Done(q) \in Nat
          /\ Popped(q) + Len(queue[q]) = Len(enqueued[q])
      BY Counts, <3>2
    <3> HIDE DEF QueuesInv, LQ!Pop
    <3>7. Head(queue[q]) = queue[q][1] /\ Head(queue[q]) \in Launches
      BY <3>2
    <3>3. /\ Popped(q)' = Popped(q) + 1 /\ Done(q)' = Done(q)
          /\ Len(queue'[q]) = Len(queue[q]) - 1
      <4>1. Len(queue'[q]) = Len(queue[q]) - 1
        BY <3>1, <3>2
      <4>2. Popped(q)' = Len(enqueued[q]) - Len(queue'[q]) /\ Done(q)' = Done(q)
        BY <3>1 DEF Popped, Done
      <4>3. Popped(q) = Len(enqueued[q]) - Len(queue[q])
        BY DEF Popped
      <4> QED BY <3>0, <4>1, <4>2, <4>3
    <3>4. Head(queue[q]) = enqueued[q][Popped(q) + 1]
      BY <3>2, <3>7 DEF QueueKept
    <3>5. ASSUME NEW i \in 1..Len(queue'[q])
          PROVE  queue'[q][i] = enqueued[q][Popped(q) + 1 + i]
      <4>1. i + 1 \in 1..Len(queue[q]) /\ queue'[q][i] = queue[q][i + 1]
        BY <3>0, <3>1, <3>2, <3>3
      <4>2. queue[q][i + 1] = enqueued[q][Popped(q) + (i + 1)]
        BY <3>2, <4>1 DEF QueueKept
      <4>3. Popped(q) + (i + 1) = Popped(q) + 1 + i
        BY <3>0
      <4> QED BY <4>1, <4>2, <4>3
    <3> QED BY <2>2, <3>1, <3>2, <3>3, <3>4, <3>5, <3>6, <3>7, NoneAssumption DEF QueueKept
  <2> QED BY <2>1, <2>2
<1>3. ASSUME NEW d \in Clients PROVE FlushKept(d)'
  BY DEF FlushKept, StillOwed
<1> QED BY <1>1, <1>2, <1>3

LEMMA CallInv ==
  ASSUME QueuesInv, NEW q \in Queues, LQ!Call(q) PROVE QueuesInv'
<1> USE DEF QueuesInv, LQ!Call, LQ!clientVars
<1>1. LQ!TypeOK'
  BY DEF LQ!TypeOK
<1>2. ASSUME NEW p \in Queues PROVE QueueKept(p)'
  BY DEF QueueKept, Popped, Done, LQ!TypeOK
<1>3. ASSUME NEW d \in Clients PROVE FlushKept(d)'
  BY DEF FlushKept, StillOwed
<1> QED BY <1>1, <1>2, <1>3

LEMMA KernelReturnsInv ==
  ASSUME QueuesInv, NEW q \in Queues, LQ!KernelReturns(q) PROVE QueuesInv'
<1> USE DEF QueuesInv, LQ!KernelReturns, LQ!clientVars
<1>1. LQ!TypeOK'
  BY DEF LQ!TypeOK, QueueKept
<1>2. ASSUME NEW p \in Queues PROVE QueueKept(p)'
  BY DEF QueueKept, Popped, Done, LQ!TypeOK
<1>3. ASSUME NEW d \in Clients PROVE FlushKept(d)'
  BY DEF FlushKept, StillOwed
<1> QED BY <1>1, <1>2, <1>3

LEMMA KernelRaisesInv ==
  ASSUME QueuesInv, NEW q \in Queues, LQ!KernelRaises(q) PROVE QueuesInv'
<1> USE DEF QueuesInv, LQ!KernelRaises, LQ!clientVars
<1>1. LQ!TypeOK'
  BY DEF LQ!TypeOK
<1>2. ASSUME NEW p \in Queues PROVE QueueKept(p)'
  BY DEF QueueKept, Popped, Done, LQ!TypeOK
<1>3. ASSUME NEW d \in Clients PROVE FlushKept(d)'
  BY DEF FlushKept, StillOwed
<1> QED BY <1>1, <1>2, <1>3

LEMMA MarkInv ==
  ASSUME QueuesInv, NEW q \in Queues, LQ!Mark(q) PROVE QueuesInv'
<1> USE DEF QueuesInv, LQ!Mark
<1>1. ASSUME NEW c \in Clients
      PROVE  client'[c] = client[c] \/ (client'[c] = "loop" /\ client[c] = "parked")
  <2>1. CASE pending[q] = 1
    BY <2>1 DEF LQ!BroadcastDone
  <2>2. CASE pending[q] # 1
    BY <2>2
  <2> QED BY <2>1, <2>2
<1>2. client' \in [Clients -> {"idle", "loop", "parked"}]
  BY DEF LQ!BroadcastDone, LQ!TypeOK
<1>3. pending[q] \in Nat \ {0}
  <2>1. QueueKept(q) /\ executing[q] # None
    BY DEF QueueKept
  <2>2. /\ pending[q] \in Nat /\ Len(enqueued[q]) \in Nat /\ Len(queue[q]) \in Nat
        /\ Popped(q) \in Nat /\ Done(q) \in Nat
        /\ Popped(q) + Len(queue[q]) = Len(enqueued[q])
    BY <2>1, Counts
  <2> HIDE DEF QueuesInv, LQ!Mark
  <2>3. Popped(q) = Done(q) + 1
    BY <2>1 DEF QueueKept
  <2>4. Done(q) = Len(enqueued[q]) - pending[q]
    BY DEF Done
  <2> QED BY <2>2, <2>3, <2>4
<1>4. LQ!TypeOK'
  BY <1>2, <1>3 DEF LQ!TypeOK
<1>5. ASSUME NEW p \in Queues PROVE QueueKept(p)'
  <2>1. CASE p # q
    <3>1. /\ queue'[p] = queue[p] /\ enqueued'[p] = enqueued[p] /\ pending'[p] = pending[p]
          /\ executing'[p] = executing[p] /\ dispatcher'[p] = dispatcher[p]
          /\ completed' = completed
      BY <2>1 DEF LQ!TypeOK
    <3>2. QueueKept(p)
      OBVIOUS
    <3> HIDE DEF QueuesInv, LQ!Enqueue, LQ!Pop, LQ!Mark
    <3>3. Popped(p)' = Popped(p) /\ Done(p)' = Done(p)
      BY <3>1 DEF Popped, Done
    <3> QED BY <3>1, <3>2, <3>3 DEF QueueKept
  <2>2. CASE p = q
    <3>1. /\ executing'[q] = None /\ dispatcher'[q] = "loop" /\ pending'[q] = pending[q] - 1
          /\ queue' = queue /\ enqueued' = enqueued /\ completed' = completed
      BY DEF LQ!TypeOK
    <3>2. /\ queue[q] \in Seq(Launches) /\ enqueued[q] \in Seq(Launches) /\ pending[q] \in Nat
          /\ executing[q] # None /\ executing[q] \in completed
          /\ QueueKept(q)
      BY DEF LQ!TypeOK, QueueKept
    <3>0. /\ Len(queue[q]) \in Nat /\ Len(enqueued[q]) \in Nat /\ pending[q] \in Nat
          /\ Popped(q) \in Nat /\ Done(q) \in Nat
      BY Counts, <3>2
    <3> HIDE DEF QueuesInv, LQ!Mark
    <3>3. Popped(q)' = Popped(q) /\ Done(q)' = Done(q) + 1 /\ Popped(q) = Done(q) + 1
      <4>1. Popped(q) = Done(q) + 1
        BY <3>2 DEF QueueKept
      <4>2. Popped(q)' = Popped(q) /\ Done(q)' = Len(enqueued[q]) - (pending[q] - 1)
        BY <3>1 DEF Popped, Done
      <4>3. Done(q) = Len(enqueued[q]) - pending[q]
        BY DEF Done
      <4> QED BY <3>0, <4>1, <4>2, <4>3
    <3>4. \A i \in 1..Done(q) + 1 : enqueued[q][i] \in completed
      BY <3>0, <3>2, <3>3 DEF QueueKept
    <3>5. Done(q) + 1 >= 0
      BY <3>0
    <3> QED BY <2>2, <3>1, <3>2, <3>3, <3>4, <3>5 DEF QueueKept
  <2> QED BY <2>1, <2>2
<1>6. ASSUME NEW d \in Clients PROVE FlushKept(d)'
  BY <1>1 DEF FlushKept, StillOwed
<1> QED BY <1>4, <1>5, <1>6

LEMMA FlushParksInv ==
  ASSUME QueuesInv, NEW c \in Clients, LQ!FlushParks(c) PROVE QueuesInv'
<1> USE DEF QueuesInv, LQ!FlushParks, LQ!queueVars
<1>1. LQ!TypeOK'
  BY DEF LQ!TypeOK
<1>2. ASSUME NEW p \in Queues PROVE QueueKept(p)'
  BY DEF QueueKept, Popped, Done
<1>3. ASSUME NEW d \in Clients PROVE FlushKept(d)'
  BY DEF FlushKept, StillOwed, LQ!TypeOK
<1> QED BY <1>1, <1>2, <1>3

LEMMA FlushNextInv ==
  ASSUME QueuesInv, NEW c \in Clients, LQ!FlushNext(c) PROVE QueuesInv'
<1> USE DEF QueuesInv, LQ!FlushNext, LQ!NonePending, LQ!queueVars
<1> DEFINE q == Head(flushing[c])
<1>1. /\ flushing[c] \in Seq(Queues) /\ flushing[c] # <<>>
      /\ q \in Queues /\ Tail(flushing[c]) \in Seq(Queues)
      /\ \A p \in LQ!ToSet(flushing[c]) : p = q \/ p \in LQ!ToSet(Tail(flushing[c]))
  BY HeadAndTail DEF LQ!TypeOK
<1>2. LQ!TypeOK'
  BY <1>1 DEF LQ!TypeOK
<1>3. ASSUME NEW p \in Queues PROVE QueueKept(p)'
  BY DEF QueueKept, Popped, Done
<1>4. LQ!ToSet(enqueued[q]) \subseteq completed
  <2>1. Done(q) = Len(enqueued[q]) /\ enqueued[q] \in Seq(Launches)
    BY <1>1 DEF Done, LQ!TypeOK
  <2> QED BY <1>1, <2>1 DEF QueueKept, LQ!ToSet
<1>5. ASSUME NEW d \in Clients PROVE FlushKept(d)'
  <2>1. CASE d # c
    BY <2>1 DEF FlushKept, StillOwed, LQ!TypeOK
  <2>2. CASE d = c
    <3>1. flushing'[c] = Tail(flushing[c])
      BY DEF LQ!TypeOK
    <3>2. client'[c] = "idle" => flushing'[c] = <<>>
      <4>1. client'[c] = "idle" => Len(flushing[c]) = 1
        BY DEF LQ!TypeOK
      <4>2. Len(flushing[c]) = 1 => Tail(flushing[c]) = <<>>
        BY <1>1
      <4> QED BY <3>1, <4>1, <4>2
    <3>3. ASSUME NEW k \in owed[c], StillOwed(c, k)
          PROVE  k \in completed \/ StillOwed(c, k)'
      BY <1>1, <1>4, <3>1, <3>3 DEF StillOwed
    <3> QED BY <2>2, <3>2, <3>3 DEF FlushKept
  <2> QED BY <2>1, <2>2
<1> QED BY <1>2, <1>3, <1>5

LEMMA FlushInv ==
  ASSUME QueuesInv, NEW c \in Clients, NEW qs \in LQ!Flushable, LQ!Flush(c, qs) PROVE QueuesInv'
<1> USE DEF QueuesInv, LQ!Flush, LQ!queueVars
<1>1. qs \in Seq(Queues) /\ LQ!ToSet(qs) \subseteq Queues
  BY FlushableTyped DEF LQ!ToSet
<1>2. \A q \in Queues : LQ!ToSet(enqueued[q]) \subseteq Launches
  BY DEF LQ!ToSet, LQ!TypeOK
<1>3. LQ!TypeOK'
  BY <1>1, <1>2 DEF LQ!TypeOK
<1>4. ASSUME NEW p \in Queues PROVE QueueKept(p)'
  BY DEF QueueKept, Popped, Done
<1>5. ASSUME NEW d \in Clients PROVE FlushKept(d)'
  BY DEF FlushKept, StillOwed, LQ!TypeOK
<1> QED BY <1>3, <1>4, <1>5

-----------------------------------------------------------------------------
\* The inductive invariant of the launch queues, whatever the pools do with the kernels.
THEOREM Invariance == Spec => []QueuesInv
<1>1. Init => QueuesInv
  BY InitInv
<1>2. QueuesInv /\ [Next]_vars => QueuesInv'
  <2> SUFFICES ASSUME QueuesInv, [Next]_vars PROVE QueuesInv'
    OBVIOUS
  <2>1. CASE UNCHANGED queueVars
    <3>1. LQ!TypeOK'
      BY <2>1 DEF queueVars, QueuesInv, LQ!TypeOK
    <3>2. ASSUME NEW q \in Queues PROVE QueueKept(q)'
      <4>1. Popped(q)' = Popped(q) /\ Done(q)' = Done(q)
        BY <2>1 DEF queueVars, Popped, Done
      <4> QED BY <2>1, <4>1 DEF queueVars, QueuesInv, QueueKept
    <3>3. \A c \in Clients : FlushKept(c)'
      BY <2>1 DEF queueVars, QueuesInv, FlushKept, StillOwed
    <3> QED BY <3>1, <3>2, <3>3 DEF QueuesInv
  <2>2. CASE LQ!Next
    BY <2>2, EnqueueInv, ParkInv, PopInv, CallInv, KernelReturnsInv, KernelRaisesInv, MarkInv,
       FlushParksInv, FlushNextInv, FlushInv DEF LQ!Next, LQ!ClientStep
  <2> QED BY <2>1, <2>2, QueuesStep DEF vars
<1> QED BY <1>1, <1>2, PTL DEF Spec

\* Kernels of one queue run in the order they were enqueued, and a flush that returned
\* left nothing of what was enqueued before it.
THEOREM ServesInOrder == Spec => []ServedInOrder
<1>1. QueuesInv => LQ!InOrder
  <2> SUFFICES ASSUME QueuesInv, NEW q \in Queues,
                      NEW i \in DOMAIN enqueued[q], NEW j \in DOMAIN enqueued[q],
                      i < j, executing[q] = enqueued[q][j]
               PROVE  enqueued[q][i] \in completed
    BY DEF LQ!InOrder
  <2>1. /\ enqueued[q] \in Seq(Launches) /\ queue[q] \in Seq(Launches) /\ pending[q] \in Nat
        /\ QueueKept(q)
    BY DEF QueuesInv, LQ!TypeOK
  <2>0. /\ Len(queue[q]) \in Nat /\ Popped(q) \in Nat /\ Done(q) \in Nat
        /\ Popped(q) + Len(queue[q]) = Len(enqueued[q])
        /\ DOMAIN enqueued[q] = 1..Len(enqueued[q]) /\ Len(enqueued[q]) \in Nat
    BY <2>1, Counts DEF QueuesInv
  <2>2. executing[q] \in Launches /\ executing[q] # None
    BY <2>1, NoneAssumption
  <2>3. Popped(q) \in DOMAIN enqueued[q] /\ Popped(q) = Done(q) + 1
    <3>1. Popped(q) = Done(q) + 1
      BY <2>1, <2>2 DEF QueueKept
    <3> QED BY <2>0, <3>1
  <2>4. j = Popped(q)
    BY <2>1, <2>2, <2>3 DEF QueueKept
  <2>5. i \in 1..Done(q)
    BY <2>0, <2>3, <2>4
  <2> QED BY <2>1, <2>5 DEF QueueKept
<1>2. QueuesInv => LQ!FlushWaits
  <2> SUFFICES ASSUME QueuesInv, NEW c \in Clients, client[c] = "idle"
               PROVE  owed[c] \subseteq completed
    BY DEF LQ!FlushWaits
  <2>1. LQ!ToSet(flushing[c]) = {}
    BY DEF QueuesInv, FlushKept, LQ!ToSet
  <2> QED BY <2>1 DEF QueuesInv, FlushKept, StillOwed
<1> QED BY <1>1, <1>2, Invariance, PTL DEF ServedInOrder

-----------------------------------------------------------------------------
(* The ranges of the workers *)

\* What the constants are.
LEMMA ConstantsTyped ==
  /\ NumWorkers \in Nat \ {0} /\ ChunkSize \in Nat \ {0}
  /\ MaxBlocks \in Nat /\ MaxThreads \in Nat
  /\ Workers = 0..(NumWorkers - 1) /\ TP!Workers = Workers
BY WorkersAssumption, BoundsAssumption DEF Workers, TP!Workers

\* There are as many workers as the pool has.
LEMMA WorkersCounted == IsFiniteSet(Workers) /\ Cardinality(Workers) = NumWorkers
<1>1. NumWorkers \in Nat \ {0} /\ Workers = 0..(NumWorkers - 1)
  BY ConstantsTyped
<1>2. IsFiniteSet(0..(NumWorkers - 1))
      /\ Cardinality(0..(NumWorkers - 1)) = IF 0 > NumWorkers - 1 THEN 0 ELSE (NumWorkers - 1) - 0 + 1
  BY <1>1, FS_Interval
<1> QED BY <1>1, <1>2

\* A quotient and what is left of the dividend.
LEMMA DivBounds ==
  ASSUME NEW n \in Nat, NEW m \in Nat \ {0}
  PROVE  n \div m \in Nat /\ m * (n \div m) <= n /\ n < m * (n \div m) + m
OBVIOUS

\* A product is no smaller for a larger factor.
LEMMA MulOrder ==
  ASSUME NEW i \in Nat, NEW j \in Nat, NEW m \in Nat, i <= j
  PROVE  i * m <= j * m
OBVIOUS

\* The shares of all workers together are enough for the grid.
LEMMA ShareCovers ==
  ASSUME NEW total \in Nat
  PROVE  /\ TP!BlocksPerWorker(total) \in Nat
         /\ total <= NumWorkers * TP!BlocksPerWorker(total)
         /\ total > 0 => TP!BlocksPerWorker(total) > 0
<1> DEFINE n == total + NumWorkers - 1
           B == TP!BlocksPerWorker(total)
<1>1. NumWorkers \in Nat \ {0} /\ n \in Nat
  BY ConstantsTyped
<1>2. B = n \div NumWorkers
  BY DEF TP!BlocksPerWorker
<1>3. B \in Nat /\ n < NumWorkers * B + NumWorkers
  BY <1>1, <1>2, DivBounds
<1>4. NumWorkers * B \in Nat
  BY <1>1, <1>3
<1>5. total <= NumWorkers * B
  BY <1>1, <1>3, <1>4
<1>6. ASSUME B = 0 PROVE NumWorkers * B = 0
  BY <1>6, <1>1
<1> HIDE DEF B
<1>7. total > 0 => B > 0
  BY <1>3, <1>5, <1>6
<1> QED BY <1>3, <1>5, <1>7 DEF B

\* A share that starts within the grid has a block, and none past its end.
LEMMA ShareBounds ==
  ASSUME NEW total \in Nat, NEW w \in Workers
  PROVE  /\ w \in Nat
         /\ TP!StartBlock(w, total) \in Nat /\ TP!EndBlock(w, total) \in Nat
         /\ TP!EndBlock(w, total) <= total
         /\ TP!StartBlock(w, total) < total => TP!StartBlock(w, total) < TP!EndBlock(w, total)
<1> DEFINE B == TP!BlocksPerWorker(total)
<1>1. w \in Nat
  BY ConstantsTyped
<1>2. B \in Nat /\ (total > 0 => B > 0)
  BY ShareCovers
<1> HIDE DEF B
<1>3. w * B \in Nat /\ (w + 1) * B = w * B + B
  BY <1>1, <1>2
<1>4. TP!StartBlock(w, total) = w * B /\ TP!EndBlock(w, total) = TP!Smaller((w + 1) * B, total)
  BY DEF TP!StartBlock, TP!EndBlock, B
<1> QED BY <1>1, <1>2, <1>3, <1>4 DEF TP!Smaller

\* A worker's share ends before the next one's starts.
LEMMA SharesApart ==
  ASSUME NEW total \in Nat, NEW v \in Workers, NEW w \in Workers, v < w
  PROVE  TP!EndBlock(v, total) <= TP!StartBlock(w, total)
<1> DEFINE B == TP!BlocksPerWorker(total)
<1>1. v \in Nat /\ w \in Nat
  BY ConstantsTyped
<1>2. B \in Nat
  BY ShareCovers
<1>3. (v + 1) * B \in Nat /\ w * B \in Nat /\ (v + 1) * B <= w * B
  BY <1>1, <1>2, MulOrder
<1>4. TP!StartBlock(w, total) = w * B /\ TP!EndBlock(v, total) = TP!Smaller((v + 1) * B, total)
  BY DEF TP!StartBlock, TP!EndBlock
<1> QED BY <1>3, <1>4 DEF TP!Smaller

\* Every block is in some worker's share.
LEMMA SharesCover ==
  ASSUME NEW total \in Nat, NEW b \in Nat, b < total
  PROVE  \E w \in Workers :
            TP!StartBlock(w, total) <= b /\ b < TP!EndBlock(w, total)
<1> DEFINE B == TP!BlocksPerWorker(total)
           w == b \div B
<1>1. B \in Nat \ {0} /\ total <= NumWorkers * B
  BY ShareCovers
<1>2. NumWorkers \in Nat \ {0}
  BY ConstantsTyped
<1>3. w \in Nat /\ B * w <= b /\ b < B * w + B
  BY <1>1, DivBounds
<1>4. TP!StartBlock(w, total) = w * B /\ TP!EndBlock(w, total) = TP!Smaller((w + 1) * B, total)
  BY DEF TP!StartBlock, TP!EndBlock
<1> HIDE DEF B, w
<1>5. w < NumWorkers
  <2>1. SUFFICES ASSUME NumWorkers <= w PROVE FALSE
    BY <1>2, <1>3
  <2>2. NumWorkers * B <= w * B
    BY <2>1, <1>1, <1>2, <1>3, MulOrder
  <2>3. w * B = B * w /\ w * B \in Nat /\ NumWorkers * B \in Nat
    BY <1>1, <1>2, <1>3
  <2> QED BY <2>2, <2>3, <1>1, <1>3
<1>6. w \in Workers
  BY <1>2, <1>3, <1>5, ConstantsTyped
<1>7. (w + 1) * B = B * w + B /\ w * B = B * w /\ B * w \in Nat
  BY <1>1, <1>3
<1>8. TP!StartBlock(w, total) <= b /\ b < TP!EndBlock(w, total)
  BY <1>1, <1>3, <1>4, <1>7 DEF TP!Smaller
<1> QED BY <1>6, <1>8
\* Both pools count like anyone else.
LEMMA SameCount ==
  ASSUME NEW S
  PROVE  TP!Cardinality(S) = Cardinality(S) /\ PP!Cardinality(S) = Cardinality(S)
<1>1. TP!Cardinality(S) = Cardinality(S)
  BY DEF TP!Cardinality, Cardinality
<1>2. PP!Cardinality(S) = Cardinality(S)
  BY DEF PP!Cardinality, Cardinality
<1> QED BY <1>1, <1>2

-----------------------------------------------------------------------------
(* The invariant of the thread pool *)

\* A caller is in the thread pool.
BusyT(x) == tLauncher[x] # "idle"

\* The workers that owe the launch a report.
OwingT == {w \in Workers : tWork[w] # None \/ tWorker[w] = "signal"}

\* The blocks a worker has yet to run: from the next one on, or its whole slot.
ToRun(w) ==
    {b \in TP!Blocks :
       /\ tWork[w] # None /\ tWorker[w] # "clear"
       /\ b < tWork[w].end
       /\ b >= IF tWorker[w] = "running" THEN tBlock[w] ELSE tWork[w].start}

\* How often each block or thread of a grid ran: not yet, or once.
RunCounts(m) == UNION {[0..(n - 1) -> {0, 1}] : n \in 0..m}

TTyped ==
    /\ tWork \in [Workers -> TP!Items \cup {None}]
    /\ tGeneration \in Nat
    /\ tFirstError \in Launches \cup {None}
    /\ tLastGen \in [Workers -> Nat]
    /\ tWorker \in [Workers -> {"loop", "parked", "fetch", "running", "clear", "signal"}]
    /\ tItem \in [Workers -> TP!Items \cup {None}]
    /\ tBlock \in [Workers -> 0..MaxBlocks]
    /\ tWorkError \in [Workers -> BOOLEAN]
    /\ tLauncher \in [Callers -> {"idle", "loop", "parked"}]
    /\ tCurrent \in [Callers -> Launches \cup {None}]
    /\ tOutcome \in [Callers -> {"none", "returned", "raised"}]
    /\ tRan \in [Callers -> RunCounts(MaxBlocks)]
    /\ tFailed \in [Callers -> BOOLEAN]

\* One caller at most; with none, no error is left for the next.
OneCallerT ==
    /\ \A x, y \in Callers : BusyT(x) /\ BusyT(y) => x = y
    /\ (\A x \in Callers : ~BusyT(x)) => tFirstError = None

\* A slot holds a range of the running launch's grid from its launch to its clearing; the
\* worker that is through with it has an item but no slot.
SlotKept(w) ==
    /\ tWork[w] # None =>
         /\ tWork[w].start < tWork[w].end
         /\ BusyT(tWork[w].by)
         /\ \A b \in TP!Blocks : b < tWork[w].end => b \in DOMAIN tRan[tWork[w].by]
    /\ tWorker[w] \in {"running", "clear"} => tWork[w] # None /\ tItem[w] = tWork[w]
    /\ tWorker[w] = "running" => tWork[w].start <= tBlock[w] /\ tBlock[w] < tWork[w].end
    /\ tWorker[w] = "signal" => tItem[w] # None /\ tWork[w] = None /\ BusyT(tItem[w].by)
    /\ tWorkError[w] => tWorker[w] \in {"clear", "signal"}

\* No block is left to two workers.
Apart == \A v, w \in Workers : v # w => \A b \in ToRun(v) : b \notin ToRun(w)

\* Of the running launch: a block that has not run is left to a worker, unless one raised;
\* the error of one that did is kept, or is with the worker that will hand it in.
GridKept(x) ==
    /\ \A b \in DOMAIN tRan[x] :
         /\ tRan[x][b] = 0 => tFailed[x] \/ \E w \in Workers : b \in ToRun(w)
         /\ \A w \in Workers : b \in ToRun(w) => tRan[x][b] = 0
    /\ tFailed[x] <=> tFirstError # None \/ \E w \in Workers : tWorkError[w]

TInv ==
    /\ TTyped
    /\ OneCallerT
    /\ tPending = Cardinality(OwingT)
    /\ \A w \in Workers : SlotKept(w)
    /\ Apart
    /\ \A x \in Callers : BusyT(x) => GridKept(x)

-----------------------------------------------------------------------------
(* The invariant of the parallel pool *)

\* A caller is in the parallel pool; its launch is published.
BusyP(x) == pLauncher[x] # "idle"
InForceP(x) == pLauncher[x] \in {"loop", "parked"}

\* A worker owes a report while it works, and from the moment it has not seen the launch.
OwesP(w) == pWorker[w] \notin {"loop", "parked"} \/ pLastGen[w] # pGeneration
OwingP == {w \in Workers : OwesP(w)}

\* The threads of the chunk that a worker has claimed and is about to run.
InChunk(w, t) == pWorker[w] = "work" /\ t >= pStart[w] /\ t < pStart[w] + ChunkSize

PTyped ==
    /\ pNextChunk \in Nat
    /\ pTotalWork \in 0..MaxThreads
    /\ pCurrentChunk = ChunkSize
    /\ pWorkFn \in PP!Functions \cup {None}
    /\ pGeneration \in Nat
    /\ pFirstError \in Launches \cup {None}
    /\ pWorker \in [Workers -> {"loop", "parked", "loadFn", "loadTotal", "loadChunk", "claim",
                                "work", "report"}]
    /\ pLastGen \in [Workers -> Nat]
    /\ pFn \in [Workers -> PP!Functions \cup {None}]
    /\ pTotal \in [Workers -> 0..MaxThreads]
    /\ pChunk \in [Workers -> {0, ChunkSize}]
    /\ pStart \in [Workers -> Nat]
    /\ pWorkError \in [Workers -> BOOLEAN]
    /\ pLauncher \in [Callers -> {"idle", "setCounter", "setTotal", "setChunk", "setFn",
                                  "publish", "loop", "parked"}]
    /\ pCurrent \in [Callers -> Launches \cup {None}]
    /\ pRange \in [Callers -> 0..MaxThreads]
    /\ pOutcome \in [Callers -> {"none", "returned", "raised"}]
    /\ pRan \in [Callers -> RunCounts(MaxThreads)]
    /\ pFailed \in [Callers -> BOOLEAN]

\* One caller at most; while no launch is published nobody owes and no error is left.
OneCallerP ==
    /\ \A x, y \in Callers : BusyP(x) /\ BusyP(y) => x = y
    /\ (\A x \in Callers : ~InForceP(x)) => OwingP = {} /\ pFirstError = None
    /\ \A w \in Workers : pWorkError[w] => pWorker[w] = "report"

\* What the caller has stored so far is this launch's, of which no thread has run before it
\* is published.
Staged(x) ==
    /\ DOMAIN pRan[x] = 0..(pRange[x] - 1)
    /\ pCurrent[x] \in Launches
    /\ ~InForceP(x) => ~pFailed[x] /\ \A t \in DOMAIN pRan[x] : pRan[x][t] = 0
    /\ pLauncher[x] \in {"setTotal", "setChunk", "setFn", "publish"} => pNextChunk = 0
    /\ pLauncher[x] \in {"setChunk", "setFn", "publish", "loop", "parked"} => pTotalWork = pRange[x]
    /\ pLauncher[x] \in {"publish", "loop", "parked"} =>
         pWorkFn = [launch |-> pCurrent[x], by |-> x]

\* What a worker has read is what is stored: no launch overtakes a worker.
InStep(w) ==
    /\ pWorker[w] \notin {"loop", "parked"} => pLastGen[w] = pGeneration
    /\ pWorker[w] \in {"loadTotal", "loadChunk", "claim", "work", "report"} => pFn[w] = pWorkFn
    /\ pWorker[w] \in {"loadChunk", "claim", "work", "report"} => pTotal[w] = pTotalWork
    /\ pWorker[w] \in {"claim", "work", "report"} => pChunk[w] = ChunkSize
    /\ pWorker[w] = "work" => pStart[w] < pTotalWork /\ pStart[w] + ChunkSize <= pNextChunk

\* No thread is claimed twice.
ChunksApart ==
    \A v, w \in Workers : v # w => \A t \in Nat : ~(InChunk(v, t) /\ InChunk(w, t))

\* Of the published launch: a thread that has not run is beyond the counter or claimed,
\* unless one raised; a worker reports when the range is used up or one raised; the error of
\* one that did is kept, or is with the worker that will hand it in.
RangeKept(x) ==
    /\ \A t \in DOMAIN pRan[x] :
         /\ pRan[x][t] = 0 =>
              t >= pNextChunk \/ pFailed[x] \/ \E w \in Workers : InChunk(w, t)
         /\ t >= pNextChunk => pRan[x][t] = 0
         /\ \A w \in Workers : InChunk(w, t) => pRan[x][t] = 0
    /\ \A w \in Workers :
         pWorker[w] = "report" \/ ~OwesP(w) => pNextChunk >= pRange[x] \/ pFailed[x]
    /\ pFailed[x] <=> pFirstError # None \/ \E w \in Workers : pWorkError[w]

PInv ==
    /\ PTyped
    /\ OneCallerP
    /\ pPending = Cardinality(OwingP)
    /\ \A w \in Workers : InStep(w)
    /\ ChunksApart
    /\ \A x \in Callers : BusyP(x) => Staged(x)
    /\ \A x \in Callers : InForceP(x) => RangeKept(x)

-----------------------------------------------------------------------------
(* The thread pool *)

\* At the start the pool is empty.
LEMMA TInit == Init => TInv
<1> SUFFICES ASSUME TP!Init PROVE TInv
  BY DEF Init
<1> USE DEF TP!Init
<1>1. TP!NoBlocks \in RunCounts(MaxBlocks)
  BY BoundsAssumption DEF TP!NoBlocks, RunCounts
<1>2. TTyped
  BY <1>1, ConstantsTyped DEF TTyped
<1>3. OneCallerT
  BY DEF OneCallerT, BusyT
<1>4. \A w \in Workers : SlotKept(w) /\ ToRun(w) = {}
  BY ConstantsTyped DEF SlotKept, ToRun
<1>5. OwingT = {}
  BY ConstantsTyped DEF OwingT
<1>6. tPending = Cardinality(OwingT)
  BY <1>5, FS_EmptySet
<1>7. \A x \in Callers : ~BusyT(x)
  BY DEF BusyT
<1> QED BY <1>2, <1>3, <1>4, <1>6, <1>7 DEF TInv, Apart

\* A caller in the pool waits or is woken.
LEMMA TCallerMoves ==
  ASSUME TInv, NEW l \in Callers, TP!WaitAgain(l) \/ TP!WakeLauncher(l)
  PROVE  TInv'
<1> USE DEF TInv, TP!WaitAgain, TP!WakeLauncher, TP!workerVars, TP!historyVars
<1>1. TTyped'
  BY DEF TTyped
<1>2. \A x \in Callers : BusyT(x)' <=> BusyT(x)
  BY DEF BusyT, TTyped
<1>3. OneCallerT'
  BY <1>2 DEF OneCallerT
<1>4. OwingT' = OwingT /\ \A w \in Workers : ToRun(w)' = ToRun(w)
  BY DEF OwingT, ToRun
<1>5. ASSUME NEW w \in Workers PROVE SlotKept(w)'
  <2>1. \A s \in {tWork[w], tItem[w]} : s # None => s.by \in Callers
    BY DEF TTyped, TP!Items
  <2>2. SlotKept(w)
    OBVIOUS
  <2> QED BY <1>2, <2>1, <2>2 DEF SlotKept
<1>6. Apart'
  BY <1>4 DEF Apart
<1>7. ASSUME NEW x \in Callers, BusyT(x)' PROVE GridKept(x)'
  BY <1>2, <1>4, <1>7 DEF GridKept
<1> QED BY <1>1, <1>3, <1>4, <1>5, <1>6, <1>7

\* A worker without an item parks, wakes up, looks and finds its slot empty.
LEMMA TWorkerMoves ==
  ASSUME TInv, NEW w \in Workers, TP!Park(w) \/ TP!SeeGeneration(w) \/ TP!FetchNothing(w)
  PROVE  TInv'
<1> USE DEF TInv, TP!Park, TP!SeeGeneration, TP!FetchNothing, TP!historyVars
<1>1. TTyped'
  BY DEF TTyped
<1>2. \A x \in Callers : BusyT(x)' <=> BusyT(x)
  BY DEF BusyT
<1>3. OneCallerT'
  BY <1>2 DEF OneCallerT
<1>4. /\ \A v \in Workers : tWorker'[v] # tWorker[v] =>
            {tWorker[v], tWorker'[v]} \subseteq {"loop", "parked", "fetch"}
      /\ UNCHANGED <<tWork, tItem, tBlock, tWorkError, tRan, tFailed, tFirstError, tPending,
                     tLauncher>>
  BY DEF TTyped
<1>5. OwingT' = OwingT /\ \A v \in Workers : ToRun(v)' = ToRun(v)
  BY <1>4 DEF OwingT, ToRun
<1>6. ASSUME NEW v \in Workers PROVE SlotKept(v)'
  <2>1. SlotKept(v)
    OBVIOUS
  <2> QED BY <1>4, <2>1 DEF SlotKept, BusyT
<1>7. Apart'
  BY <1>5 DEF Apart
<1>8. ASSUME NEW x \in Callers, BusyT(x)' PROVE GridKept(x)'
  BY <1>2, <1>4, <1>5, <1>8 DEF GridKept
<1> QED BY <1>1, <1>3, <1>4, <1>5, <1>6, <1>7, <1>8

\* A worker reads its slot: the whole of it is left to run.
LEMMA TFetch ==
  ASSUME TInv, NEW w \in Workers, TP!Fetch(w)
  PROVE  TInv'
<1> USE DEF TInv, TP!Fetch, TP!historyVars
<1>1. TTyped'
  <2>1. tWork[w].start \in 0..MaxBlocks
    BY ConstantsTyped DEF TTyped, TP!Items, TP!Blocks
  <2> QED BY <2>1 DEF TTyped
<1>2. \A x \in Callers : BusyT(x)' <=> BusyT(x)
  BY DEF BusyT
<1>3. OneCallerT'
  BY <1>2 DEF OneCallerT
<1>4. /\ \A v \in Workers : v # w =>
            /\ tWorker'[v] = tWorker[v] /\ tItem'[v] = tItem[v] /\ tBlock'[v] = tBlock[v]
      /\ tWorker'[w] = "running" /\ tItem'[w] = tWork[w] /\ tBlock'[w] = tWork[w].start
      /\ tWorker[w] = "fetch" /\ tWork[w] # None
      /\ UNCHANGED <<tWork, tWorkError, tRan, tFailed, tFirstError, tPending, tLauncher>>
  BY DEF TTyped
<1>5. OwingT' = OwingT /\ \A v \in Workers : ToRun(v)' = ToRun(v)
  <2>1. OwingT' = OwingT
    BY <1>4 DEF OwingT
  <2>2. \A v \in Workers : v # w => ToRun(v)' = ToRun(v)
    BY <1>4 DEF ToRun
  <2>3. ToRun(w)' = ToRun(w)
    BY <1>4 DEF ToRun
  <2> QED BY <2>1, <2>2, <2>3
<1>6. ASSUME NEW v \in Workers PROVE SlotKept(v)'
  <2>1. SlotKept(v)
    OBVIOUS
  <2>2. CASE v # w
    BY <1>4, <2>1, <2>2 DEF SlotKept, BusyT
  <2>3. CASE v = w
    <3>1. tWork[w].start \in Nat /\ tWork[w].end \in Nat
      BY <1>4, ConstantsTyped DEF TTyped, TP!Items, TP!Blocks
    <3> QED BY <1>4, <2>1, <2>3, <3>1 DEF SlotKept, BusyT
  <2> QED BY <2>2, <2>3
<1>7. Apart'
  BY <1>5 DEF Apart
<1>8. ASSUME NEW x \in Callers, BusyT(x)' PROVE GridKept(x)'
  BY <1>2, <1>4, <1>5, <1>8 DEF GridKept
<1> QED BY <1>1, <1>3, <1>4, <1>5, <1>6, <1>7, <1>8

\* An item and the function of its blocks.
LEMMA ItemFacts ==
  ASSUME TTyped, NEW w \in Workers, tWork[w] # None
  PROVE  /\ tWork[w].by \in Callers /\ tWork[w].launch \in Launches
         /\ tWork[w].start \in Nat /\ tWork[w].end \in Nat /\ tWork[w].end <= MaxBlocks
BY ConstantsTyped DEF TTyped, TP!Items, TP!Blocks

\* Counting one block more.
LEMMA OneMore ==
  ASSUME NEW m \in Nat, NEW f \in RunCounts(m), NEW b \in DOMAIN f, f[b] = 0
  PROVE  /\ [f EXCEPT ![b] = @ + 1] \in RunCounts(m)
         /\ DOMAIN [f EXCEPT ![b] = @ + 1] = DOMAIN f
         /\ \A c \in DOMAIN f : [f EXCEPT ![b] = @ + 1][c] = IF c = b THEN 1 ELSE f[c]
<1>1. PICK n \in 0..m : f \in [0..(n - 1) -> {0, 1}]
  BY DEF RunCounts
<1>2. [f EXCEPT ![b] = @ + 1] \in [0..(n - 1) -> {0, 1}]
  BY <1>1
<1> QED BY <1>1, <1>2 DEF RunCounts

\* A block or thread ran once or has not run.
LEMMA RunCountsTyped ==
  ASSUME NEW m \in Nat, NEW f \in RunCounts(m)
  PROVE  DOMAIN f \subseteq Nat /\ \A b \in DOMAIN f : f[b] \in {0, 1}
BY DEF RunCounts

\* A block is run, for the first time; it is the worker's last when it raises.
LEMMA TRunBlock ==
  ASSUME TInv, NEW w \in Workers, TP!RunBlock(w)
  PROVE  TInv'
<1> USE DEF TInv
<1> DEFINE l == tItem[w].by
           b == tBlock[w]
<1>1. /\ tWorker[w] = "running" /\ tWork[w] # None /\ tItem[w] = tWork[w]
      /\ tWork[w].start <= b /\ b < tWork[w].end /\ BusyT(l) /\ b \in Nat
      /\ l \in Callers /\ tWork[w].start \in Nat /\ tWork[w].end \in Nat
      /\ tWork[w].end <= MaxBlocks
  BY ItemFacts DEF TP!RunBlock, SlotKept, TTyped
<1>2. b \in ToRun(w) /\ b \in DOMAIN tRan[l] /\ tRan[l][b] = 0
  <2>1. b \in TP!Blocks
    BY <1>1, ConstantsTyped DEF TP!Blocks
  <2>2. b \in ToRun(w) /\ b \in DOMAIN tRan[l]
    BY <1>1, <2>1 DEF ToRun, SlotKept
  <2> QED BY <1>1, <2>2 DEF GridKept
<1>3. /\ tRan' = [tRan EXCEPT ![l][b] = @ + 1]
      /\ UNCHANGED <<tWork, tPending, tGeneration, tFirstError, tLastGen, tItem, tLauncher,
                     tCurrent, tOutcome>>
  BY <1>2 DEF TP!RunBlock
<1>4. /\ tRan'[l] = [tRan[l] EXCEPT ![b] = @ + 1]
      /\ \A x \in Callers : x # l => tRan'[x] = tRan[x]
      /\ tRan' \in [Callers -> RunCounts(MaxBlocks)]
      /\ DOMAIN tRan'[l] = DOMAIN tRan[l]
      /\ \A c \in DOMAIN tRan[l] : tRan'[l][c] = IF c = b THEN 1 ELSE tRan[l][c]
  <2>1. tRan[l] \in RunCounts(MaxBlocks) /\ tRan \in [Callers -> RunCounts(MaxBlocks)]
    BY <1>1 DEF TTyped
  <2> DEFINE f == [tRan[l] EXCEPT ![b] = @ + 1]
  <2>2. /\ f \in RunCounts(MaxBlocks) /\ DOMAIN f = DOMAIN tRan[l]
        /\ \A c \in DOMAIN tRan[l] : f[c] = IF c = b THEN 1 ELSE tRan[l][c]
    BY <1>2, <2>1, OneMore, BoundsAssumption
  <2>3. tRan' = [tRan EXCEPT ![l] = f]
    BY <1>3
  <2> HIDE DEF f
  <2>4. tRan'[l] = f /\ (\A x \in Callers : x # l => tRan'[x] = tRan[x])
        /\ tRan' \in [Callers -> RunCounts(MaxBlocks)]
    BY <1>1, <2>1, <2>2, <2>3
  <2> QED BY <2>2, <2>4 DEF f
<1>5. \/ /\ tBlock' = [tBlock EXCEPT ![w] = @ + 1]
         /\ tWorker' = [tWorker EXCEPT ![w] = IF b + 1 < tItem[w].end THEN @ ELSE "clear"]
         /\ UNCHANGED <<tWorkError, tFailed>>
      \/ /\ tWorkError' = [tWorkError EXCEPT ![w] = TRUE]
         /\ tFailed' = [tFailed EXCEPT ![l] = TRUE]
         /\ tWorker' = [tWorker EXCEPT ![w] = "clear"]
         /\ UNCHANGED tBlock
  BY DEF TP!RunBlock, TTyped
<1> HIDE DEF l, b
<1>6. TTyped'
  <2>1. /\ tBlock' \in [Workers -> 0..MaxBlocks]
        /\ tWorker' \in [Workers -> {"loop", "parked", "fetch", "running", "clear", "signal"}]
        /\ tWorkError' \in [Workers -> BOOLEAN]
        /\ tFailed' \in [Callers -> BOOLEAN]
    <3>0. tBlock[w] + 1 \in 0..MaxBlocks
      BY <1>1, ConstantsTyped DEF b
    <3>1. tBlock' \in [Workers -> 0..MaxBlocks]
      BY <1>5, <3>0 DEF TTyped
    <3>2. tWorker' \in [Workers -> {"loop", "parked", "fetch", "running", "clear", "signal"}]
      BY <1>5 DEF TTyped
    <3>3. tWorkError' \in [Workers -> BOOLEAN]
      BY <1>5, Zenon DEF TTyped
    <3>4. tFailed' \in [Callers -> BOOLEAN]
      BY <1>5, Zenon DEF TTyped
    <3> QED BY <3>1, <3>2, <3>3, <3>4
  <2> QED BY <1>3, <1>4, <2>1 DEF TTyped
<1>7. \A x \in Callers : BusyT(x)' <=> BusyT(x)
  BY <1>3 DEF BusyT
<1>8. OneCallerT'
  BY <1>3, <1>7 DEF OneCallerT
<1>9. \A v \in Workers : v # w =>
        /\ tWorker'[v] = tWorker[v] /\ tBlock'[v] = tBlock[v] /\ tWorkError'[v] = tWorkError[v]
        /\ ToRun(v)' = ToRun(v)
  <2>1. \A v \in Workers : v # w =>
          /\ tWorker'[v] = tWorker[v] /\ tBlock'[v] = tBlock[v]
          /\ tWorkError'[v] = tWorkError[v]
    BY <1>5 DEF TTyped
  <2> QED BY <2>1, <1>3 DEF ToRun
<1>10. /\ tWorker'[w] \in {"running", "clear"}
       /\ tWorker'[w] = "running" => tBlock'[w] = b + 1 /\ b + 1 < tWork[w].end
       /\ tWorkError'[w] => tWorker'[w] = "clear"
  BY <1>1, <1>5 DEF TTyped, SlotKept, b
<1>11. \A c \in ToRun(w)' : c \in ToRun(w) /\ c # b
  BY <1>1, <1>3, <1>10 DEF ToRun, b, TP!Blocks
<1>12. \/ /\ \A c \in ToRun(w) : c = b \/ c \in ToRun(w)'
          /\ UNCHANGED <<tWorkError, tFailed>>
       \/ tFailed'[l] /\ tWorkError'[w] /\ tWorkError'[w] \in BOOLEAN
  <2>1. CASE /\ tBlock' = [tBlock EXCEPT ![w] = @ + 1]
             /\ tWorker' = [tWorker EXCEPT ![w] = IF b + 1 < tItem[w].end THEN @ ELSE "clear"]
             /\ UNCHANGED <<tWorkError, tFailed>>
    <3>1. tBlock'[w] = b + 1
          /\ tWorker'[w] = IF b + 1 < tItem[w].end THEN "running" ELSE "clear"
      BY <1>1, <2>1 DEF TTyped, b
    <3>2. \A c \in ToRun(w) : c \in Nat /\ c >= b /\ c < tWork[w].end
      BY <1>1 DEF ToRun, b, TP!Blocks
    <3>3. \A c \in ToRun(w) : c = b \/ c \in ToRun(w)'
      BY <1>1, <1>3, <3>1, <3>2 DEF ToRun
    <3> QED BY <2>1, <3>3
  <2>2. CASE /\ tWorkError' = [tWorkError EXCEPT ![w] = TRUE]
             /\ tFailed' = [tFailed EXCEPT ![l] = TRUE]
    BY <1>1, <2>2 DEF TTyped
  <2> QED BY <1>5, <2>1, <2>2
<1>13. OwingT' = OwingT
  BY <1>1, <1>3, <1>9, <1>10 DEF OwingT
<1>14. ASSUME NEW v \in Workers PROVE SlotKept(v)'
  <2>1. SlotKept(v)
    OBVIOUS
  <2>2. \A x \in Callers : DOMAIN tRan'[x] = DOMAIN tRan[x]
    BY <1>4
  <2>3. tWork[v] # None => tWork[v].by \in Callers
    BY ItemFacts
  <2>4. CASE v # w
    BY <1>3, <1>7, <1>9, <2>1, <2>2, <2>3, <2>4 DEF SlotKept, BusyT
  <2>5. CASE v = w
    <3>1. tWork[w].start <= b + 1
      BY <1>1 DEF b
    <3> QED BY <1>1, <1>3, <1>7, <1>10, <2>1, <2>2, <2>3, <2>5, <3>1 DEF SlotKept, BusyT
  <2> QED BY <2>4, <2>5
<1>15. Apart'
  <2> SUFFICES ASSUME NEW u \in Workers, NEW v \in Workers, u # v,
                      NEW c \in ToRun(u)'
               PROVE  c \notin ToRun(v)'
    BY DEF Apart
  <2>1. c \in ToRun(u) /\ (c \in ToRun(v)' => c \in ToRun(v))
    BY <1>9, <1>11
  <2> QED BY <2>1 DEF Apart
<1>16. ASSUME NEW x \in Callers, BusyT(x)' PROVE GridKept(x)'
  <2>1. x = l
    BY <1>1, <1>7, <1>16 DEF OneCallerT, l
  <2>2. GridKept(l) /\ l \in Callers
    BY <1>1
  <2>3. ASSUME NEW c \in DOMAIN tRan'[l], tRan'[l][c] = 0
        PROVE  tFailed'[l] \/ \E v \in Workers : c \in ToRun(v)'
    <3>1. c # b /\ tRan[l][c] = 0 /\ c \in DOMAIN tRan[l]
      BY <1>4, <2>3
    <3>2. CASE tFailed[l] \/ tFailed'[l]
      BY <1>5, <2>2, <3>2 DEF TTyped
    <3>3. CASE ~tFailed[l] /\ ~tFailed'[l]
      <4>1. PICK v \in Workers : c \in ToRun(v)
        BY <2>2, <3>1, <3>3 DEF GridKept
      <4> QED BY <4>1, <1>9, <1>12, <3>1, <3>3
    <3> QED BY <3>2, <3>3
  <2>4. ASSUME NEW c \in DOMAIN tRan'[l], NEW v \in Workers, c \in ToRun(v)'
        PROVE  tRan'[l][c] = 0
    <3>1. c \in ToRun(v) /\ c # b
      <4>1. CASE v = w
        BY <1>11, <2>4, <4>1
      <4>2. CASE v # w
        <5>1. c \in ToRun(v)
          BY <1>9, <2>4, <4>2
        <5> QED BY <1>2, <4>2, <5>1 DEF Apart, b
      <4> QED BY <4>1, <4>2
    <3> QED BY <1>4, <2>2, <2>4, <3>1 DEF GridKept
  <2>5. tFailed'[l] <=> tFirstError' # None \/ \E v \in Workers : tWorkError'[v]
    <3>1. CASE UNCHANGED <<tWorkError, tFailed>>
      BY <1>3, <2>2, <3>1 DEF GridKept
    <3>2. CASE tFailed'[l] /\ tWorkError'[w] /\ tWorkError'[w] \in BOOLEAN
      BY <3>2
    <3> QED BY <1>12, <3>1, <3>2
  <2> QED BY <2>1, <2>3, <2>4, <2>5 DEF GridKept
<1> QED BY <1>3, <1>6, <1>8, <1>13, <1>14, <1>15, <1>16

\* A worker that is through empties its slot.
LEMMA TClearSlot ==
  ASSUME TInv, NEW w \in Workers, TP!ClearSlot(w)
  PROVE  TInv'
<1> USE DEF TInv, TP!ClearSlot, TP!SlotCleared, TP!historyVars
<1>1. TTyped'
  BY DEF TTyped
<1>2. \A x \in Callers : BusyT(x)' <=> BusyT(x)
  BY DEF BusyT
<1>3. OneCallerT'
  BY <1>2 DEF OneCallerT
<1>4. /\ \A v \in Workers : v # w => tWorker'[v] = tWorker[v] /\ tWork'[v] = tWork[v]
      /\ tWorker'[w] = "signal" /\ tWork'[w] = None /\ tWorker[w] = "clear"
      /\ UNCHANGED <<tItem, tBlock, tWorkError, tRan, tFailed, tFirstError, tPending, tLauncher>>
  BY DEF TTyped
<1>5. /\ tWork[w] # None /\ tItem[w] = tWork[w] /\ BusyT(tItem[w].by)
  BY <1>4 DEF SlotKept
<1>6. OwingT' = OwingT
  BY <1>4, <1>5 DEF OwingT
<1>7. \A v \in Workers : ToRun(v)' = ToRun(v)
  <2>1. \A v \in Workers : v # w => ToRun(v)' = ToRun(v)
    BY <1>4 DEF ToRun
  <2>2. ToRun(w)' = {} /\ ToRun(w) = {}
    BY <1>4 DEF ToRun
  <2> QED BY <2>1, <2>2
<1>8. ASSUME NEW v \in Workers PROVE SlotKept(v)'
  <2>1. SlotKept(v)
    OBVIOUS
  <2>2. CASE v # w
    BY <1>4, <2>1, <2>2 DEF SlotKept, BusyT
  <2>3. CASE v = w
    BY <1>4, <1>5, <2>1, <2>3 DEF SlotKept, BusyT
  <2> QED BY <2>2, <2>3
<1>9. Apart'
  BY <1>7 DEF Apart
<1>10. ASSUME NEW x \in Callers, BusyT(x)' PROVE GridKept(x)'
  BY <1>2, <1>4, <1>7, <1>10 DEF GridKept
<1> QED BY <1>1, <1>3, <1>4, <1>6, <1>8, <1>9, <1>10

\* Who owes something is finite, and counted.
LEMMA OwingTFinite == IsFiniteSet(OwingT) /\ Cardinality(OwingT) \in Nat
<1>1. OwingT \in SUBSET Workers
  BY DEF OwingT
<1> QED BY <1>1, WorkersCounted, FS_Subset, FS_CardinalityType

\* A worker hands in its error and is counted out.
LEMMA TSignal ==
  ASSUME TInv, NEW w \in Workers, TP!Signal(w)
  PROVE  TInv'
<1> USE DEF TInv
<1>1. /\ tWorker[w] = "signal" /\ tItem[w] # None /\ tWork[w] = None /\ BusyT(tItem[w].by)
      /\ tItem[w].by \in Callers /\ tItem[w].launch \in Launches
  <2>1. tWorker[w] = "signal" /\ tItem[w] # None /\ tWork[w] = None /\ BusyT(tItem[w].by)
    BY DEF TP!Signal, SlotKept
  <2> QED BY <2>1 DEF TTyped, TP!Items
<1>2. /\ UNCHANGED <<tWork, tRan, tFailed, tCurrent, tOutcome, tGeneration, tLastGen>>
      /\ tPending' = tPending - 1
      /\ tWorker' = [tWorker EXCEPT ![w] = "loop"]
      /\ tItem' = [tItem EXCEPT ![w] = None]
      /\ tBlock' = [tBlock EXCEPT ![w] = 0]
      /\ tWorkError' = [tWorkError EXCEPT ![w] = FALSE]
  BY DEF TP!Signal, TP!historyVars
<1>3. /\ tFirstError' \in Launches \cup {None}
      /\ tFirstError' # None <=> tFirstError # None \/ tWorkError[w]
  <2>1. None \notin Launches /\ tFirstError \in Launches \cup {None} /\ tWorkError[w] \in BOOLEAN
    BY NoneAssumption DEF TTyped
  <2>2. tFirstError' =
          IF tFirstError = None /\ tWorkError[w] THEN tItem[w].launch ELSE tFirstError
    BY DEF TP!Signal
  <2> QED BY <1>1, <2>1, <2>2
<1>4. /\ tLauncher' \in [Callers -> {"idle", "loop", "parked"}]
      /\ \A x \in Callers : BusyT(x)' <=> BusyT(x)
  <2>1. CASE tPending = 1
    BY <2>1 DEF TP!Signal, TP!Woken, BusyT, TTyped
  <2>2. CASE tPending # 1
    BY <2>2 DEF TP!Signal, BusyT, TTyped
  <2> QED BY <2>1, <2>2
<1>5. TTyped'
  <2>1. tWorkError' \in [Workers -> BOOLEAN]
    BY <1>2, Zenon DEF TTyped
  <2>2. /\ tWorker' \in [Workers -> {"loop", "parked", "fetch", "running", "clear", "signal"}]
        /\ tItem' \in [Workers -> TP!Items \cup {None}]
        /\ tBlock' \in [Workers -> 0..MaxBlocks]
    BY <1>2, ConstantsTyped DEF TTyped
  <2> QED BY <1>2, <1>3, <1>4, <2>1, <2>2 DEF TTyped
<1>6. OneCallerT'
  BY <1>1, <1>4 DEF OneCallerT
<1>7. /\ \A v \in Workers : v # w =>
            /\ tWorker'[v] = tWorker[v] /\ tItem'[v] = tItem[v] /\ tBlock'[v] = tBlock[v]
            /\ tWorkError'[v] = tWorkError[v]
      /\ tWorker'[w] = "loop" /\ tWorkError'[w] = FALSE
  BY <1>2 DEF TTyped
<1>8. tPending' = Cardinality(OwingT')
  <2>1. OwingT' = OwingT \ {w} /\ w \in OwingT
    BY <1>1, <1>2, <1>7 DEF OwingT
  <2> QED BY <1>2, <2>1, OwingTFinite, FS_RemoveElement
<1>9. \A v \in Workers : ToRun(v)' = ToRun(v)
  <2>1. \A v \in Workers : v # w => ToRun(v)' = ToRun(v)
    BY <1>2, <1>7 DEF ToRun
  <2>2. ToRun(w)' = {} /\ ToRun(w) = {}
    BY <1>1, <1>2 DEF ToRun
  <2> QED BY <2>1, <2>2
<1>10. ASSUME NEW v \in Workers PROVE SlotKept(v)'
  <2>1. SlotKept(v)
    OBVIOUS
  <2>2. CASE v # w
    <3>1. /\ tWork[v] # None => tWork[v].by \in Callers
          /\ tItem[v] # None => tItem[v].by \in Callers
      BY DEF TTyped, TP!Items
    <3> QED BY <1>2, <1>4, <1>7, <2>1, <2>2, <3>1 DEF SlotKept
  <2>3. CASE v = w
    BY <1>1, <1>2, <1>7, <2>3 DEF SlotKept
  <2> QED BY <2>2, <2>3
<1>11. Apart'
  BY <1>9 DEF Apart
<1>12. ASSUME NEW x \in Callers, BusyT(x)' PROVE GridKept(x)'
  <2>1. GridKept(x)
    BY <1>4, <1>12
  <2>2. tFailed'[x] <=> tFirstError' # None \/ \E v \in Workers : tWorkError'[v]
    BY <1>2, <1>3, <1>7, <2>1 DEF GridKept
  <2> QED BY <1>2, <1>9, <2>1, <2>2 DEF GridKept
<1> QED BY <1>5, <1>6, <1>8, <1>10, <1>11, <1>12

\* Nobody owes anything: every slot is empty and no worker has an error to hand in.
LEMMA NothingOwed ==
  ASSUME TInv, OwingT = {}
  PROVE  \A w \in Workers : /\ tWork[w] = None /\ ToRun(w) = {} /\ ~tWorkError[w]
                            /\ tWorker[w] \in {"loop", "parked", "fetch"}
<1> TAKE w \in Workers
<1>1. tWork[w] = None /\ tWorker[w] # "signal"
  BY DEF OwingT
<1>2. tWorker[w] \in {"loop", "parked", "fetch"}
  BY <1>1 DEF TInv, SlotKept, TTyped
<1>3. ~tWorkError[w]
  BY <1>2 DEF TInv, SlotKept
<1>4. ToRun(w) = {}
  BY <1>1 DEF ToRun
<1> QED BY <1>1, <1>2, <1>3, <1>4

\* Without a launch there are no blocks.
LEMMA NoBlocksTyped == TP!NoBlocks \in RunCounts(MaxBlocks)
BY BoundsAssumption DEF TP!NoBlocks, RunCounts

\* The pool is left without callers.
LEMMA TFinish ==
  ASSUME TInv, NEW l \in Callers, TP!Finish(l)
  PROVE  /\ TInv' /\ \A b \in DOMAIN tRan[l] : tRan[l][b] <= 1
         /\ tOutcome'[l] = "raised" <=> tFailed[l]
         /\ tOutcome'[l] = "returned" => \A b \in DOMAIN tRan[l] : tRan[l][b] = 1
<1> USE DEF TInv, TP!Finish, TP!workerVars
<1>1. OwingT = {}
  <2>1. Cardinality(OwingT) = 0
    BY OwingTFinite
  <2> QED BY <2>1, OwingTFinite, FS_EmptySet
<1>2. BusyT(l) /\ GridKept(l) /\ \A x \in Callers : x # l => ~BusyT(x)
  BY DEF BusyT, OneCallerT
<1>3. TTyped'
  <2>1. tFailed' \in [Callers -> BOOLEAN]
    BY Zenon DEF TTyped
  <2>2. /\ tLauncher' \in [Callers -> {"idle", "loop", "parked"}]
        /\ tCurrent' \in [Callers -> Launches \cup {None}]
        /\ tRan' \in [Callers -> RunCounts(MaxBlocks)]
    BY NoBlocksTyped DEF TTyped
  <2>3. tOutcome' \in [Callers -> {"none", "returned", "raised"}]
    BY DEF TTyped
  <2> QED BY <2>1, <2>2, <2>3 DEF TTyped
<1>4. \A x \in Callers : ~BusyT(x)'
  BY <1>2 DEF BusyT, TTyped
<1>5. OneCallerT'
  BY <1>4 DEF OneCallerT
<1>6. OwingT' = OwingT /\ \A v \in Workers : ToRun(v)' = ToRun(v)
  BY DEF OwingT, ToRun
<1>7. ASSUME NEW v \in Workers PROVE SlotKept(v)'
  <2>1. tWork[v] = None /\ tWorker[v] \in {"loop", "parked", "fetch"} /\ ~tWorkError[v]
    BY <1>1, NothingOwed
  <2> QED BY <2>1 DEF SlotKept
<1>8. Apart'
  BY <1>6 DEF Apart
<1>9. tFailed[l] <=> tFirstError # None
  BY <1>1, <1>2, NothingOwed DEF GridKept
<1>10. tOutcome'[l] = IF tFirstError = None THEN "returned" ELSE "raised"
  BY DEF TTyped
<1>11. \A b \in DOMAIN tRan[l] : tRan[l][b] \in {0, 1}
  BY RunCountsTyped, BoundsAssumption DEF TTyped
<1>12. ~tFailed[l] => \A b \in DOMAIN tRan[l] : tRan[l][b] = 1
  BY <1>1, <1>2, <1>11, NothingOwed DEF GridKept
<1>13. TInv'
  BY <1>3, <1>4, <1>5, <1>6, <1>7, <1>8
<1>14. \A b \in DOMAIN tRan[l] : tRan[l][b] <= 1
  BY <1>11
<1>15. tOutcome'[l] = "raised" <=> tFailed[l]
  BY <1>9, <1>10
<1>16. tOutcome'[l] = "returned" => \A b \in DOMAIN tRan[l] : tRan[l][b] = 1
  BY <1>9, <1>10, <1>12
<1> HIDE DEF TInv, TP!Finish
<1> QED BY <1>13, <1>14, <1>15, <1>16

\* The range of a worker that gets one.
Share(w, k, l, total) ==
    [launch |-> k, by |-> l, start |-> TP!StartBlock(w, total), end |-> TP!EndBlock(w, total)]

\* A worker's share is a work item, with a block to run.
LEMMA ShareTyped ==
  ASSUME NEW total \in 0..MaxBlocks, NEW w \in TP!Active(total), NEW k \in Launches,
         NEW l \in Callers
  PROVE  /\ Share(w, k, l, total) \in TP!Items
         /\ Share(w, k, l, total).start < Share(w, k, l, total).end
<1>1. total \in Nat /\ w \in Workers /\ TP!StartBlock(w, total) < total /\ total <= MaxBlocks
  BY ConstantsTyped DEF TP!Active
<1>2. /\ TP!StartBlock(w, total) \in Nat /\ TP!EndBlock(w, total) \in Nat
      /\ TP!EndBlock(w, total) <= total
      /\ TP!StartBlock(w, total) < TP!EndBlock(w, total)
  BY <1>1, ShareBounds
<1>3. TP!StartBlock(w, total) \in TP!Blocks /\ TP!EndBlock(w, total) \in 1..MaxBlocks
  BY <1>1, <1>2, ConstantsTyped DEF TP!Blocks
<1> QED BY <1>2, <1>3 DEF Share, TP!Items

\* A launch on a pool without callers: the grid is shared out.
LEMMA TRunKernel ==
  ASSUME TInv, NEW l \in Callers, NEW k \in Launches, NEW total \in 0..MaxBlocks,
         \A x \in Callers : ~BusyT(x), TP!RunKernel(l, k, total)
  PROVE  TInv'
<1> USE DEF TInv
<1>1. total \in Nat /\ total <= MaxBlocks
  BY ConstantsTyped
<1>1a. \A w \in Workers :
         /\ w \in Nat /\ TP!StartBlock(w, total) \in Nat /\ TP!EndBlock(w, total) \in Nat
         /\ TP!EndBlock(w, total) <= total
  BY <1>1, ShareBounds
<1>1b. \A b \in TP!Blocks : b \in Nat
  BY ConstantsTyped DEF TP!Blocks
<1>2. OwingT = {}
  <2>1. \A w \in Workers : tWork[w] # None => tWork[w].by \in Callers
    BY ItemFacts
  <2>2. \A w \in Workers : tItem[w] # None => tItem[w].by \in Callers
    BY DEF TTyped, TP!Items
  <2>3. \A w \in Workers : tWork[w] = None /\ tWorker[w] # "signal"
    BY <2>1, <2>2 DEF SlotKept
  <2> QED BY <2>3 DEF OwingT
<1>3. \A w \in Workers : /\ tWork[w] = None /\ ~tWorkError[w]
                         /\ tWorker[w] \in {"loop", "parked", "fetch"}
  BY <1>2, NothingOwed
<1>4. tFirstError = None
  BY DEF OneCallerT
<1>5. /\ tWork' = [i \in Workers |->
                     IF i \in TP!Active(total) THEN Share(i, k, l, total) ELSE tWork[i]]
      /\ tPending' = Cardinality(TP!Active(total))
      /\ tWorker' = TP!Woken(tWorker)
      /\ tLauncher' \in {[tLauncher EXCEPT ![l] = "loop"], [tLauncher EXCEPT ![l] = "parked"]}
      /\ tCurrent' = [tCurrent EXCEPT ![l] = k]
      /\ tOutcome' = [tOutcome EXCEPT ![l] = "none"]
      /\ tRan' = [tRan EXCEPT ![l] = [b \in 0..(total - 1) |-> 0]]
      /\ tFailed' = [tFailed EXCEPT ![l] = FALSE]
      /\ UNCHANGED <<tFirstError, tLastGen, tItem, tBlock, tWorkError>>
      /\ tGeneration' = tGeneration + 1
  <2>1. tWork' = [i \in Workers |->
                    IF i \in TP!Active(total) THEN Share(i, k, l, total) ELSE tWork[i]]
    BY Zenon, ConstantsTyped DEF TP!RunKernel, Share
  <2>2. tLauncher' \in {[tLauncher EXCEPT ![l] = "loop"], [tLauncher EXCEPT ![l] = "parked"]}
    BY DEF TP!RunKernel
  <2>3. UNCHANGED <<tFirstError, tLastGen, tItem, tBlock, tWorkError>>
    BY DEF TP!RunKernel
  <2>4. /\ tPending' = Cardinality(TP!Active(total))
        /\ tWorker' = TP!Woken(tWorker)
        /\ tCurrent' = [tCurrent EXCEPT ![l] = k]
        /\ tOutcome' = [tOutcome EXCEPT ![l] = "none"]
        /\ tGeneration' = tGeneration + 1
    BY SameCount DEF TP!RunKernel
  <2>5. tRan' = [tRan EXCEPT ![l] = [b \in 0..(total - 1) |-> 0]]
    BY Zenon DEF TP!RunKernel
  <2>6. tFailed' = [tFailed EXCEPT ![l] = FALSE]
    BY DEF TP!RunKernel
  <2> QED BY <2>1, <2>2, <2>3, <2>4, <2>5, <2>6
<1>6. \A w \in Workers :
        IF w \in TP!Active(total)
        THEN tWork'[w] = Share(w, k, l, total) /\ tWork'[w] # None /\ tWork'[w] \in TP!Items
             /\ tWork'[w].start < tWork'[w].end /\ tWork'[w].by = l
             /\ tWork'[w].start = TP!StartBlock(w, total)
             /\ tWork'[w].end = TP!EndBlock(w, total)
        ELSE tWork'[w] = None
  <2> TAKE w \in Workers
  <2>1. CASE w \in TP!Active(total)
    <3>1. tWork'[w] = Share(w, k, l, total)
      BY <1>5, <2>1
    <3>2. tWork'[w] \in TP!Items /\ tWork'[w].start < tWork'[w].end
      BY <2>1, <3>1, ShareTyped
    <3>3. tWork'[w] # None
      BY <3>2, SlotsAssumption
    <3> QED BY <2>1, <3>1, <3>2, <3>3 DEF Share
  <2>2. CASE w \notin TP!Active(total)
    BY <1>3, <1>5, <2>2
  <2> QED BY <2>1, <2>2
<1>7. \A w \in Workers : tWorker'[w] \in {"loop", "fetch"}
  BY <1>3, <1>5 DEF TP!Woken, TTyped
<1>8. tRan'[l] = [b \in 0..(total - 1) |-> 0] /\ tRan'[l] \in RunCounts(MaxBlocks)
  <2>1. tRan'[l] = [b \in 0..(total - 1) |-> 0]
    BY <1>5 DEF TTyped
  <2>2. [b \in 0..(total - 1) |-> 0] \in [0..(total - 1) -> {0, 1}]
    OBVIOUS
  <2> QED BY <2>1, <2>2, Zenon DEF RunCounts
<1>9. TTyped'
  <2>1. tWork' \in [Workers -> TP!Items \cup {None}]
    BY <1>5, <1>6
  <2>2. tWorker' \in [Workers -> {"loop", "parked", "fetch", "running", "clear", "signal"}]
    BY <1>5 DEF TP!Woken, TTyped
  <2>3. tFailed' \in [Callers -> BOOLEAN]
    BY <1>5, Zenon DEF TTyped
  <2>4. tRan' \in [Callers -> RunCounts(MaxBlocks)]
    BY <1>5, <1>8 DEF TTyped
  <2>5. /\ tLauncher' \in [Callers -> {"idle", "loop", "parked"}]
        /\ tCurrent' \in [Callers -> Launches \cup {None}]
        /\ tOutcome' \in [Callers -> {"none", "returned", "raised"}]
    BY <1>5 DEF TTyped
  <2>6. tGeneration' \in Nat
    BY <1>5 DEF TTyped
  <2> QED BY <1>5, <2>1, <2>2, <2>3, <2>4, <2>5, <2>6 DEF TTyped
<1>10. \A x \in Callers : BusyT(x)' <=> x = l
  BY <1>5 DEF BusyT, TTyped
<1>11. OneCallerT'
  BY <1>4, <1>5, <1>10 DEF OneCallerT
<1>12. tPending' = Cardinality(OwingT')
  <2>1. OwingT' = {w \in Workers : tWork'[w] # None}
    BY <1>7 DEF OwingT
  <2>2. TP!Active(total) \subseteq Workers
    BY ConstantsTyped DEF TP!Active
  <2>3. OwingT' = TP!Active(total)
    BY <1>6, <2>1, <2>2
  <2> QED BY <1>5, <2>3
<1>13. \A w \in Workers, b \in TP!Blocks :
         b \in ToRun(w)' <=>
           w \in TP!Active(total) /\ TP!StartBlock(w, total) <= b /\ b < TP!EndBlock(w, total)
  <2> TAKE w \in Workers, b \in TP!Blocks
  <2>1. b \in ToRun(w)' <=> tWork'[w] # None /\ b < tWork'[w].end /\ b >= tWork'[w].start
    BY <1>7 DEF ToRun
  <2>2. TP!StartBlock(w, total) \in Nat /\ TP!EndBlock(w, total) \in Nat /\ b \in Nat
    BY <1>1a, <1>1b
  <2> QED BY <1>6, <2>1, <2>2
<1>14. \A w \in Workers : \A b \in ToRun(w)' : b \in TP!Blocks /\ b \in Nat /\ b < total
  <2> TAKE w \in Workers
  <2> TAKE b \in ToRun(w)'
  <2>1. b \in TP!Blocks /\ b \in Nat
    BY ConstantsTyped DEF ToRun, TP!Blocks
  <2>2. b < TP!EndBlock(w, total)
    BY <1>13, <2>1
  <2> QED BY <1>1, <2>1, <2>2, ShareBounds
<1>15. ASSUME NEW w \in Workers PROVE SlotKept(w)'
  <2>1. CASE w \in TP!Active(total)
    <3>1. \A b \in TP!Blocks : b < tWork'[w].end => b \in DOMAIN tRan'[l]
      <4>1. tWork'[w].end \in Nat /\ tWork'[w].end <= total
        BY <1>6, <1>1a, <2>1
      <4>2. DOMAIN tRan'[l] = 0..(total - 1)
        BY <1>8
      <4> QED BY <1>1, <1>1b, <4>1, <4>2
    <3> QED BY <1>3, <1>5, <1>6, <1>7, <1>10, <2>1, <3>1 DEF SlotKept
  <2>2. CASE w \notin TP!Active(total)
    BY <1>3, <1>5, <1>6, <1>7, <2>2 DEF SlotKept
  <2> QED BY <2>1, <2>2
<1>16. Apart'
  <2> SUFFICES ASSUME NEW v \in Workers, NEW w \in Workers, v < w,
                      NEW b, b \in ToRun(v)', b \in ToRun(w)'
               PROVE  FALSE
    <3>1. \A v, w \in Workers : v # w => v < w \/ w < v
      BY ConstantsTyped
    <3> QED BY <3>1 DEF Apart
  <2>1. b \in TP!Blocks /\ b \in Nat
    BY <1>14
  <2>2. b < TP!EndBlock(v, total) /\ TP!StartBlock(w, total) <= b
    BY <1>13, <2>1
  <2> QED BY <1>1, <2>1, <2>2, SharesApart, ShareBounds
<1>17. ASSUME NEW x \in Callers, BusyT(x)' PROVE GridKept(x)'
  <2>1. x = l
    BY <1>10, <1>17
  <2>2. ASSUME NEW b \in DOMAIN tRan'[l]
        PROVE  tRan'[l][b] = 0 /\ \E w \in Workers : b \in ToRun(w)'
    <3>1. b \in Nat /\ b < total /\ b \in TP!Blocks
      BY <1>1, <1>8, <2>2, ConstantsTyped DEF TP!Blocks
    <3>2. PICK w \in Workers : TP!StartBlock(w, total) <= b /\ b < TP!EndBlock(w, total)
      BY <1>1, <3>1, SharesCover
    <3>3. w \in TP!Active(total)
      BY <1>1, <1>1a, <3>1, <3>2, ConstantsTyped DEF TP!Active
    <3>4. b \in ToRun(w)'
      BY <1>13, <3>1, <3>2, <3>3
    <3> QED BY <1>8, <2>2, <3>4
  <2>3. tFailed'[l] = FALSE
    BY <1>5 DEF TTyped
  <2>4. tFirstError' = None /\ \A w \in Workers : ~tWorkError'[w]
    BY <1>3, <1>4, <1>5
  <2> QED BY <2>1, <2>2, <2>3, <2>4 DEF GridKept
<1> QED BY <1>9, <1>11, <1>12, <1>15, <1>16, <1>17

-----------------------------------------------------------------------------
(* The parallel pool *)

\* At the start the pool is empty.
LEMMA PInit == Init => PInv
<1> SUFFICES ASSUME PP!Init PROVE PInv
  BY DEF Init
<1> USE DEF PP!Init
<1>1. PP!NoThreads \in RunCounts(MaxThreads)
  BY BoundsAssumption DEF PP!NoThreads, RunCounts
<1>2. PTyped
  BY <1>1, ConstantsTyped DEF PTyped
<1>3. OwingP = {}
  BY DEF OwingP, OwesP
<1>4. OneCallerP
  BY <1>3 DEF OneCallerP, BusyP
<1>5. pPending = Cardinality(OwingP)
  BY <1>3, FS_EmptySet
<1>6. \A w \in Workers : InStep(w)
  BY DEF InStep
<1>7. ChunksApart
  BY DEF ChunksApart, InChunk
<1>8. \A x \in Callers : ~BusyP(x) /\ ~InForceP(x)
  BY DEF BusyP, InForceP
<1> QED BY <1>2, <1>4, <1>5, <1>6, <1>7, <1>8 DEF PInv

\* While no launch is in force the workers rest, and owe nothing.
LEMMA Resting ==
  ASSUME PInv, \A x \in Callers : ~InForceP(x)
  PROVE  /\ pFirstError = None
         /\ \A w \in Workers : /\ pWorker[w] \in {"loop", "parked"}
                               /\ pLastGen[w] = pGeneration /\ ~pWorkError[w]
<1>1. OwingP = {} /\ pFirstError = None
  BY DEF PInv, OneCallerP
<1>2. \A w \in Workers : pWorker[w] \in {"loop", "parked"} /\ pLastGen[w] = pGeneration
  BY <1>1 DEF OwingP, OwesP
<1>3. \A w \in Workers : ~pWorkError[w]
  BY <1>2 DEF PInv, OneCallerP
<1> QED BY <1>1, <1>2, <1>3

\* The caller before it publishes its launch stores what the workers read.
LEMMA PStore ==
  ASSUME PInv, NEW l \in Callers, PP!Store(l)
  PROVE  PInv'
<1> USE DEF PInv
<1>1. /\ UNCHANGED <<pPending, pGeneration, pFirstError, pWorker, pLastGen, pFn, pTotal,
                     pChunk, pStart, pWorkError, pCurrent, pRange, pOutcome, pRan, pFailed>>
      /\ BusyP(l) /\ ~InForceP(l) /\ Staged(l)
  BY DEF PP!Store, PP!SetCounter, PP!SetTotal, PP!SetChunk, PP!SetFn, PP!localVars,
         PP!historyVars, BusyP, InForceP
<1>2. \A x \in Callers : x # l => ~BusyP(x) /\ ~InForceP(x)
  BY <1>1 DEF OneCallerP, BusyP, InForceP
<1>3. \/ pLauncher[l] = "setCounter" /\ pNextChunk' = 0 /\ PP!Goto(l, "setTotal")
         /\ UNCHANGED <<pTotalWork, pCurrentChunk, pWorkFn>>
      \/ pLauncher[l] = "setTotal" /\ pTotalWork' = pRange[l] /\ PP!Goto(l, "setChunk")
         /\ UNCHANGED <<pNextChunk, pCurrentChunk, pWorkFn>>
      \/ pLauncher[l] = "setChunk" /\ pCurrentChunk' = ChunkSize /\ PP!Goto(l, "setFn")
         /\ UNCHANGED <<pNextChunk, pTotalWork, pWorkFn>>
      \/ pLauncher[l] = "setFn" /\ pWorkFn' = [launch |-> pCurrent[l], by |-> l]
         /\ PP!Goto(l, "publish") /\ UNCHANGED <<pNextChunk, pTotalWork, pCurrentChunk>>
  BY DEF PP!Store, PP!SetCounter, PP!SetTotal, PP!SetChunk, PP!SetFn, PP!CounterReset
<1>4. \A w \in Workers : /\ pWorker[w] \in {"loop", "parked"}
                         /\ pLastGen[w] = pGeneration /\ ~pWorkError[w]
  BY <1>1, <1>2, Resting
<1>5. PTyped'
  <2>1. pRange[l] \in 0..MaxThreads /\ [launch |-> pCurrent[l], by |-> l] \in PP!Functions
    BY <1>1, BoundsAssumption DEF PTyped, Staged, PP!Functions
  <2>2. pNextChunk' \in Nat /\ pTotalWork' \in 0..MaxThreads /\ pCurrentChunk' = ChunkSize
        /\ pWorkFn' \in PP!Functions \cup {None}
    BY <1>3, <2>1 DEF PTyped
  <2>3. pLauncher' \in [Callers -> {"idle", "setCounter", "setTotal", "setChunk", "setFn",
                                    "publish", "loop", "parked"}]
    BY <1>3 DEF PTyped, PP!Goto
  <2> QED BY <1>1, <2>2, <2>3 DEF PTyped
<1>6. /\ \A x \in Callers : x # l => pLauncher'[x] = pLauncher[x]
      /\ pLauncher'[l] \in {"setTotal", "setChunk", "setFn", "publish"}
  BY <1>3 DEF PP!Goto, PTyped
<1>7. /\ \A x \in Callers : (BusyP(x)' <=> BusyP(x)) /\ ~InForceP(x)'
      /\ \A x \in Callers : BusyP(x)' <=> x = l
  BY <1>1, <1>2, <1>6 DEF BusyP, InForceP
<1>8. OwingP' = OwingP
  BY <1>1 DEF OwingP, OwesP
<1>9. OneCallerP'
  BY <1>1, <1>2, <1>4, <1>7, <1>8 DEF OneCallerP
<1>10. \A w \in Workers : InStep(w)'
  BY <1>1, <1>4 DEF InStep
<1>11. ChunksApart'
  BY <1>1 DEF ChunksApart, InChunk
<1>12. Staged(l)'
  <2>1. pNextChunk' = 0
    BY <1>1, <1>3 DEF Staged
  <2>2. pLauncher'[l] \in {"setChunk", "setFn", "publish"} => pTotalWork' = pRange'[l]
    BY <1>1, <1>3 DEF Staged, PP!Goto, PTyped
  <2>3. pLauncher'[l] = "publish" => pWorkFn' = [launch |-> pCurrent[l], by |-> l]
    BY <1>3 DEF PP!Goto, PTyped
  <2>4. pLauncher'[l] \notin {"loop", "parked"}
    BY <1>6
  <2> QED BY <1>1, <2>1, <2>2, <2>3, <2>4 DEF Staged, InForceP
<1> QED BY <1>1, <1>5, <1>7, <1>8, <1>9, <1>10, <1>11, <1>12

\* The launch is published: every worker owes a report.
LEMMA PPublish ==
  ASSUME PInv, NEW l \in Callers, PP!Publish(l)
  PROVE  PInv'
<1> USE DEF PInv
<1>1. /\ UNCHANGED <<pNextChunk, pTotalWork, pCurrentChunk, pWorkFn, pFirstError, pLastGen, pFn,
                     pTotal, pChunk, pStart, pWorkError, pCurrent, pRange, pOutcome, pRan,
                     pFailed>>
      /\ pLauncher[l] = "publish" /\ pLauncher' = [pLauncher EXCEPT ![l] = "parked"]
      /\ pGeneration' = pGeneration + 1 /\ pWorker' = PP!Woken(pWorker)
      /\ pPending' = Cardinality(Workers)
  <2>1. pPending' = Cardinality(Workers)
    BY SameCount DEF PP!Publish, PP!EveryWorker
  <2> QED BY <2>1 DEF PP!Publish, PP!sharedVars, PP!localVars, PP!historyVars, PP!Goto
<1>2. BusyP(l) /\ ~InForceP(l) /\ Staged(l)
  BY <1>1 DEF BusyP, InForceP
<1>3. \A x \in Callers : x # l => ~BusyP(x) /\ ~InForceP(x)
  BY <1>2 DEF OneCallerP, BusyP, InForceP
<1>4. /\ \A w \in Workers : /\ pWorker[w] \in {"loop", "parked"}
                            /\ pLastGen[w] = pGeneration /\ ~pWorkError[w]
      /\ pFirstError = None
  BY <1>2, <1>3, Resting
<1>5. \A w \in Workers : pWorker'[w] = "loop" /\ OwesP(w)'
  <2>1. \A w \in Workers : pWorker'[w] = "loop"
    BY <1>1, <1>4 DEF PP!Woken, PTyped
  <2> QED BY <1>1, <1>4, <2>1 DEF OwesP, PTyped
<1>6. PTyped'
  BY <1>1, <1>5 DEF PTyped, PP!Woken
<1>7. \A x \in Callers : (BusyP(x)' <=> x = l) /\ (InForceP(x)' <=> x = l)
  BY <1>1, <1>3 DEF BusyP, InForceP, PTyped
<1>8. OneCallerP'
  BY <1>1, <1>4, <1>7 DEF OneCallerP
<1>9. pPending' = Cardinality(OwingP')
  <2>1. OwingP' = Workers
    BY <1>5 DEF OwingP
  <2> QED BY <1>1, <2>1
<1>10. \A w \in Workers : InStep(w)'
  BY <1>5 DEF InStep
<1>11. ChunksApart'
  BY <1>5 DEF ChunksApart, InChunk
<1>12. Staged(l)'
  BY <1>1, <1>2, <1>7 DEF Staged
<1>13. RangeKept(l)'
  <2>1. \A t \in DOMAIN pRan'[l] : t \in Nat /\ t >= pNextChunk' /\ pRan'[l][t] = 0
    BY <1>1, <1>2, BoundsAssumption DEF Staged, PTyped
  <2>2. ~pFailed'[l] /\ pFirstError' = None /\ \A w \in Workers : ~pWorkError'[w]
    BY <1>1, <1>2, <1>4 DEF Staged
  <2> QED BY <1>5, <2>1, <2>2 DEF RangeKept
<1> QED BY <1>6, <1>7, <1>8, <1>9, <1>10, <1>11, <1>12, <1>13

\* The caller waits, or is woken.
LEMMA PCallerMoves ==
  ASSUME PInv, NEW l \in Callers, PP!WaitAgain(l) \/ PP!WakeLauncher(l)
  PROVE  PInv'
<1> USE DEF PInv
<1>1. /\ UNCHANGED <<pNextChunk, pTotalWork, pCurrentChunk, pWorkFn, pPending, pGeneration,
                     pFirstError, pWorker, pLastGen, pFn, pTotal, pChunk, pStart, pWorkError,
                     pCurrent, pRange, pOutcome, pRan, pFailed>>
      /\ pLauncher[l] \in {"loop", "parked"}
      /\ \E to \in {"loop", "parked"} : pLauncher' = [pLauncher EXCEPT ![l] = to]
  BY DEF PP!WaitAgain, PP!WakeLauncher, PP!sharedVars, PP!localVars, PP!historyVars, PP!Goto
<1>2. /\ pLauncher' \in [Callers -> {"idle", "setCounter", "setTotal", "setChunk", "setFn",
                                     "publish", "loop", "parked"}]
      /\ pLauncher'[l] \in {"loop", "parked"}
      /\ \A x \in Callers : x # l => pLauncher'[x] = pLauncher[x]
  BY <1>1 DEF PTyped
<1>3. PTyped'
  BY <1>1, <1>2 DEF PTyped
<1>4. \A x \in Callers : (BusyP(x)' <=> BusyP(x)) /\ (InForceP(x)' <=> InForceP(x))
  BY <1>1, <1>2 DEF BusyP, InForceP
<1>5. OwingP' = OwingP /\ (\A w \in Workers : OwesP(w)' <=> OwesP(w))
  BY <1>1 DEF OwingP, OwesP
<1>6. OneCallerP'
  BY <1>1, <1>4, <1>5 DEF OneCallerP
<1>7. \A w \in Workers : InStep(w)'
  BY <1>1 DEF InStep
<1>8. ChunksApart'
  BY <1>1 DEF ChunksApart, InChunk
<1>9. ASSUME NEW x \in Callers, BusyP(x)' PROVE Staged(x)'
  <2>1. Staged(x)
    BY <1>4, <1>9
  <2> QED BY <1>1, <1>2, <1>4, <2>1 DEF Staged
<1>10. ASSUME NEW x \in Callers, InForceP(x)' PROVE RangeKept(x)'
  <2>1. RangeKept(x)
    BY <1>4, <1>10
  <2> QED BY <1>1, <1>5, <2>1 DEF RangeKept, InChunk
<1> QED BY <1>1, <1>3, <1>5, <1>6, <1>7, <1>8, <1>9, <1>10

\* A worker parks, sees the new generation, reads what it is to run.
LEMMA PWorkerMoves ==
  ASSUME PInv, NEW w \in Workers, PP!Park(w) \/ PP!SeeGeneration(w) \/ PP!Load(w)
  PROVE  PInv'
<1> USE DEF PInv
<1>1. UNCHANGED <<pNextChunk, pTotalWork, pCurrentChunk, pWorkFn, pPending, pGeneration,
                  pFirstError, pStart, pWorkError, pLauncher, pCurrent, pRange, pOutcome, pRan,
                  pFailed>>
  BY DEF PP!Park, PP!SeeGeneration, PP!Load, PP!LoadFn, PP!LoadTotal, PP!LoadChunk,
         PP!sharedVars, PP!localVars, PP!historyVars, PP!launcherVars
<1>2. \/ /\ pWorker[w] = "loop" /\ pGeneration = pLastGen[w]
         /\ pWorker' = [pWorker EXCEPT ![w] = "parked"]
         /\ UNCHANGED <<pLastGen, pFn, pTotal, pChunk>>
      \/ /\ pWorker[w] = "loop" /\ pGeneration # pLastGen[w]
         /\ pWorker' = [pWorker EXCEPT ![w] = "loadFn"]
         /\ pLastGen' = [pLastGen EXCEPT ![w] = pGeneration]
         /\ UNCHANGED <<pFn, pTotal, pChunk>>
      \/ /\ pWorker[w] = "loadFn" /\ pFn' = [pFn EXCEPT ![w] = pWorkFn]
         /\ pWorker' = [pWorker EXCEPT ![w] = "loadTotal"]
         /\ UNCHANGED <<pLastGen, pTotal, pChunk>>
      \/ /\ pWorker[w] = "loadTotal" /\ pTotal' = [pTotal EXCEPT ![w] = pTotalWork]
         /\ pWorker' = [pWorker EXCEPT ![w] = "loadChunk"]
         /\ UNCHANGED <<pLastGen, pFn, pChunk>>
      \/ /\ pWorker[w] = "loadChunk" /\ pChunk' = [pChunk EXCEPT ![w] = pCurrentChunk]
         /\ pWorker' = [pWorker EXCEPT ![w] = "claim"]
         /\ UNCHANGED <<pLastGen, pFn, pTotal>>
  BY DEF PP!Park, PP!SeeGeneration, PP!Load, PP!LoadFn, PP!LoadTotal, PP!LoadChunk,
         PP!localVars, PP!Move
<1>3. PTyped'
  <2>1. pWorker' \in [Workers -> {"loop", "parked", "loadFn", "loadTotal", "loadChunk", "claim",
                                  "work", "report"}]
    BY <1>2 DEF PTyped
  <2>2. pLastGen' \in [Workers -> Nat] /\ pTotal' \in [Workers -> 0..MaxThreads]
    BY <1>2 DEF PTyped
  <2>3. pChunk' \in [Workers -> {0, ChunkSize}]
    BY <1>2 DEF PTyped
  <2>4. pFn' \in [Workers -> PP!Functions \cup {None}]
    BY <1>2 DEF PTyped
  <2> QED BY <1>1, <2>1, <2>2, <2>3, <2>4 DEF PTyped
<1>4. \A v \in Workers : v # w =>
        /\ pWorker'[v] = pWorker[v] /\ pLastGen'[v] = pLastGen[v] /\ pFn'[v] = pFn[v]
        /\ pTotal'[v] = pTotal[v] /\ pChunk'[v] = pChunk[v]
  BY <1>2 DEF PTyped
<1>5. pWorker[w] \notin {"work", "report"} /\ pWorker'[w] \notin {"work", "report"}
  BY <1>2 DEF PTyped
<1>6. \A v \in Workers : OwesP(v)' <=> OwesP(v)
  <2>1. OwesP(w)' <=> OwesP(w)
    BY <1>1, <1>2 DEF OwesP, PTyped
  <2> QED BY <1>1, <1>4, <2>1 DEF OwesP
<1>7. OwingP' = OwingP
  BY <1>6 DEF OwingP
<1>8. \A x \in Callers : (BusyP(x)' <=> BusyP(x)) /\ (InForceP(x)' <=> InForceP(x))
  BY <1>1 DEF BusyP, InForceP
<1>9. OneCallerP'
  BY <1>1, <1>4, <1>5, <1>7, <1>8 DEF OneCallerP
<1>10. ASSUME NEW v \in Workers PROVE InStep(v)'
  <2>1. InStep(v)
    OBVIOUS
  <2>2. CASE v # w
    BY <1>1, <1>4, <2>1, <2>2 DEF InStep
  <2>3. CASE v = w
    BY <1>1, <1>2, <2>1, <2>3 DEF InStep, PTyped
  <2> QED BY <2>2, <2>3
<1>11. \A v \in Workers : \A t : InChunk(v, t)' <=> InChunk(v, t)
  BY <1>1, <1>4, <1>5 DEF InChunk
<1>12. ChunksApart'
  BY <1>11 DEF ChunksApart
<1>13. ASSUME NEW x \in Callers, BusyP(x)' PROVE Staged(x)'
  BY <1>1, <1>8, <1>13 DEF Staged, InForceP
<1>14. ASSUME NEW x \in Callers, InForceP(x)' PROVE RangeKept(x)'
  <2>1. RangeKept(x)
    BY <1>8, <1>14
  <2>2. \A v \in Workers : pWorker'[v] = "report" => pWorker[v] = "report"
    BY <1>4, <1>5
  <2> QED BY <1>1, <1>6, <1>11, <2>1, <2>2 DEF RangeKept
<1> QED BY <1>1, <1>3, <1>7, <1>9, <1>10, <1>12, <1>13, <1>14

\* A worker that is not at rest works for the launch in force.
LEMMA AtWork ==
  ASSUME PInv, NEW w \in Workers, pWorker[w] \notin {"loop", "parked"}
  PROVE  \E x \in Callers : /\ InForceP(x) /\ BusyP(x) /\ Staged(x) /\ RangeKept(x)
                            /\ \A y \in Callers : InForceP(y) => y = x
<1>1. w \in OwingP
  BY DEF OwingP, OwesP
<1>2. PICK x \in Callers : InForceP(x)
  BY <1>1 DEF PInv, OneCallerP
<1>3. BusyP(x) /\ \A y \in Callers : InForceP(y) => BusyP(y)
  BY <1>2 DEF BusyP, InForceP
<1>4. \A y \in Callers : InForceP(y) => y = x
  BY <1>3 DEF PInv, OneCallerP
<1> QED BY <1>2, <1>3, <1>4 DEF PInv

\* A chunk is claimed from the counter, or the range is found used up.
LEMMA PClaim ==
  ASSUME PInv, NEW w \in Workers, PP!Claim(w)
  PROVE  PInv'
<1> USE DEF PInv
<1>1. /\ UNCHANGED <<pTotalWork, pCurrentChunk, pWorkFn, pPending, pGeneration, pFirstError,
                     pLastGen, pFn, pTotal, pChunk, pWorkError, pLauncher, pCurrent, pRange,
                     pOutcome, pRan, pFailed>>
      /\ pWorker[w] = "claim"
      /\ pNextChunk' = pNextChunk + pChunk[w]
      /\ pStart' = [pStart EXCEPT ![w] = pNextChunk]
      /\ pWorker' = [pWorker EXCEPT ![w] = IF pNextChunk < pTotal[w] THEN "work" ELSE "report"]
  BY DEF PP!Claim, PP!launcherVars, PP!historyVars, PP!Move
<1>2. pChunk[w] = ChunkSize /\ pTotal[w] = pTotalWork /\ pFn[w] = pWorkFn
      /\ pLastGen[w] = pGeneration /\ ~pWorkError[w]
  BY <1>1 DEF InStep, OneCallerP
<1>3. pNextChunk \in Nat /\ ChunkSize \in Nat \ {0} /\ pNextChunk' = pNextChunk + ChunkSize
  BY <1>1, <1>2, ConstantsTyped DEF PTyped
<1>4. PTyped'
  <2>1. pWorker' \in [Workers -> {"loop", "parked", "loadFn", "loadTotal", "loadChunk", "claim",
                                  "work", "report"}]
    BY <1>1 DEF PTyped
  <2>2. pStart' \in [Workers -> Nat]
    BY <1>1, <1>3 DEF PTyped
  <2> QED BY <1>1, <1>3, <2>1, <2>2 DEF PTyped
<1>5. /\ \A v \in Workers : v # w => pWorker'[v] = pWorker[v] /\ pStart'[v] = pStart[v]
      /\ pStart'[w] = pNextChunk
      /\ pWorker'[w] = IF pNextChunk < pTotalWork THEN "work" ELSE "report"
  BY <1>1, <1>2 DEF PTyped
<1>6. \A v \in Workers : OwesP(v)' <=> OwesP(v)
  BY <1>1, <1>5 DEF OwesP
<1>7. OwingP' = OwingP
  BY <1>6 DEF OwingP
<1>8. \A x \in Callers : (BusyP(x)' <=> BusyP(x)) /\ (InForceP(x)' <=> InForceP(x))
  BY <1>1 DEF BusyP, InForceP
<1>9. OneCallerP'
  BY <1>1, <1>2, <1>5, <1>7, <1>8 DEF OneCallerP
<1>10. ASSUME NEW v \in Workers PROVE InStep(v)'
  <2>1. InStep(v) /\ pStart[v] \in Nat
    BY DEF PTyped
  <2>2. CASE v # w
    BY <1>1, <1>3, <1>5, <2>1, <2>2 DEF InStep
  <2>3. CASE v = w
    BY <1>1, <1>2, <1>3, <1>5, <2>3 DEF InStep
  <2> QED BY <2>2, <2>3
<1>11. \A v \in Workers : v # w => \A t : InChunk(v, t)' <=> InChunk(v, t)
  BY <1>5 DEF InChunk
<1>12. \A t : InChunk(w, t)' <=>
               pWorker'[w] = "work" /\ t >= pNextChunk /\ t < pNextChunk + ChunkSize
  BY <1>5 DEF InChunk
<1>13. \A v \in Workers, t \in Nat : InChunk(v, t) => t < pNextChunk
  BY <1>3 DEF InChunk, InStep, PTyped
<1>14. ChunksApart'
  <2> SUFFICES ASSUME NEW u \in Workers, NEW v \in Workers, u # v, NEW t \in Nat,
                      InChunk(u, t)', InChunk(v, t)'
               PROVE  FALSE
    BY DEF ChunksApart
  <2>1. CASE u # w /\ v # w
    BY <1>11, <2>1 DEF ChunksApart
  <2>2. CASE u = w
    BY <1>3, <1>11, <1>12, <1>13, <2>2
  <2>3. CASE v = w
    BY <1>3, <1>11, <1>12, <1>13, <2>3
  <2> QED BY <2>1, <2>2, <2>3
<1>15. ASSUME NEW x \in Callers, BusyP(x)' PROVE Staged(x)'
  <2>1. PICK y \in Callers : InForceP(y) /\ BusyP(y)
    BY <1>1, AtWork
  <2>2. x = y
    BY <1>8, <1>15, <2>1 DEF OneCallerP
  <2>3. Staged(x) /\ InForceP(x)
    BY <2>1, <2>2
  <2> QED BY <1>1, <2>3 DEF Staged, InForceP
<1>16. ASSUME NEW x \in Callers, InForceP(x)' PROVE RangeKept(x)'
  <2>1. RangeKept(x) /\ Staged(x) /\ InForceP(x)
    BY <1>8, <1>16 DEF BusyP, InForceP
  <2>2. pTotalWork = pRange[x] /\ pRange[x] \in Nat /\ DOMAIN pRan[x] = 0..(pRange[x] - 1)
    BY <2>1, BoundsAssumption DEF Staged, InForceP, PTyped
  <2>3. ASSUME NEW t \in DOMAIN pRan[x]
        PROVE  /\ pRan[x][t] = 0 =>
                    t >= pNextChunk' \/ pFailed[x] \/ \E v \in Workers : InChunk(v, t)'
               /\ t >= pNextChunk' => pRan[x][t] = 0
               /\ \A v \in Workers : InChunk(v, t)' => pRan[x][t] = 0
    <3>1. t \in Nat /\ t < pRange[x]
      BY <2>2
    <3>2. /\ pRan[x][t] = 0 =>
               t >= pNextChunk \/ pFailed[x] \/ \E v \in Workers : InChunk(v, t)
          /\ t >= pNextChunk => pRan[x][t] = 0
          /\ \A v \in Workers : InChunk(v, t) => pRan[x][t] = 0
      BY <2>1, <2>3 DEF RangeKept
    <3>3. ~InChunk(w, t)
      BY <1>1 DEF InChunk
    <3>4. ASSUME pRan[x][t] = 0, ~(t >= pNextChunk'), ~pFailed[x]
          PROVE  \E v \in Workers : InChunk(v, t)'
      <4>1. CASE t >= pNextChunk
        <5>1. InChunk(w, t)'
          BY <1>3, <1>5, <1>12, <2>2, <3>1, <3>4, <4>1
        <5> QED BY <5>1
      <4>2. CASE ~(t >= pNextChunk)
        <5>1. PICK v \in Workers : InChunk(v, t)
          BY <3>2, <3>4, <4>2
        <5> QED BY <1>11, <3>3, <5>1
      <4> QED BY <4>1, <4>2
    <3>5. t >= pNextChunk' => pRan[x][t] = 0
      BY <1>3, <3>1, <3>2
    <3>6. \A v \in Workers : InChunk(v, t)' => pRan[x][t] = 0
      BY <1>11, <1>12, <3>2
    <3> QED BY <3>4, <3>5, <3>6
  <2>4. \A v \in Workers :
          pWorker'[v] = "report" \/ ~OwesP(v)' => pNextChunk' >= pRange[x] \/ pFailed[x]
    <3> TAKE v \in Workers
    <3>1. CASE v # w
      BY <1>3, <1>5, <1>6, <2>1, <2>2, <3>1 DEF RangeKept
    <3>2. CASE v = w
      BY <1>1, <1>3, <1>5, <1>6, <2>2, <3>2 DEF OwesP
    <3> QED BY <3>1, <3>2
  <2> QED BY <1>1, <2>1, <2>3, <2>4 DEF RangeKept
<1> QED BY <1>1, <1>4, <1>7, <1>9, <1>10, <1>14, <1>15, <1>16

\* Counting the threads of a set, none of which ran before.
LEMMA SomeMore ==
  ASSUME NEW m \in Nat, NEW f \in RunCounts(m), NEW T, \A t \in DOMAIN f : t \in T => f[t] = 0,
         NEW g, g = [t \in DOMAIN f |-> IF t \in T THEN f[t] + 1 ELSE f[t]]
  PROVE  /\ g \in RunCounts(m) /\ DOMAIN g = DOMAIN f
         /\ \A t \in DOMAIN f : g[t] = IF t \in T THEN 1 ELSE f[t]
<1>1. PICK n \in 0..m : f \in [0..(n - 1) -> {0, 1}]
  BY DEF RunCounts
<1>2. g \in [0..(n - 1) -> {0, 1}]
  BY <1>1
<1> QED BY <1>1, <1>2 DEF RunCounts

\* A worker runs its chunk, or some first threads of it and raises.
LEMMA PWork ==
  ASSUME PInv, NEW w \in Workers, PP!Work(w)
  PROVE  PInv'
<1> USE DEF PInv
<1>1. /\ UNCHANGED <<pNextChunk, pTotalWork, pCurrentChunk, pWorkFn, pPending, pGeneration,
                     pFirstError, pLastGen, pFn, pTotal, pChunk, pStart, pLauncher, pCurrent,
                     pRange, pOutcome>>
      /\ pWorker[w] = "work"
  BY DEF PP!Work, PP!sharedVars, PP!localVars, PP!launcherVars
<1>2. PICK x \in Callers : /\ InForceP(x) /\ BusyP(x) /\ Staged(x) /\ RangeKept(x)
                           /\ \A y \in Callers : InForceP(y) => y = x
  BY <1>1, AtWork
<1>3. /\ pFn[w].by = x /\ pTotal[w] = pRange[x] /\ pChunk[w] = ChunkSize
      /\ pLastGen[w] = pGeneration /\ pStart[w] < pRange[x] /\ ~pWorkError[w]
  BY <1>1, <1>2 DEF InStep, Staged, InForceP, OneCallerP
<1>4. /\ pRange[x] \in Nat /\ pStart[w] \in Nat /\ ChunkSize \in Nat \ {0}
      /\ DOMAIN pRan[x] = 0..(pRange[x] - 1)
  BY <1>2, ConstantsTyped DEF PTyped, Staged
<1> DEFINE RanOf(T) == [pRan EXCEPT ![x] =
                        [t \in DOMAIN pRan[x] |->
                           IF t \in T THEN pRan[x][t] + 1 ELSE pRan[x][t]]]
<1>5. \/ /\ pRan' = RanOf(PP!Claimed(w)) /\ PP!Move(w, "claim")
         /\ UNCHANGED <<pWorkError, pFailed>>
      \/ \E t \in PP!Claimed(w) :
           /\ pRan' = RanOf(pStart[w]..t)
           /\ pWorkError' = [pWorkError EXCEPT ![w] = TRUE]
           /\ pFailed' = [pFailed EXCEPT ![x] = TRUE]
           /\ PP!Move(w, "report")
  <2>1. pRan = [y \in Callers |-> pRan[y]] /\ x \in Callers
    BY DEF PTyped
  <2>2. \A T : RanOf(T) = [pRan EXCEPT ![x] = [t \in DOMAIN @ |->
                           IF t \in T THEN @[t] + 1 ELSE @[t]]]
    BY <2>1
  <2> QED BY <1>3, <2>2 DEF PP!Work, PP!ToReport
<1>6. \A t : t \in PP!Claimed(w) <=> InChunk(w, t) /\ t \in DOMAIN pRan[x]
  <2>1. PP!Claimed(w) = pStart[w]..(PP!Smaller(pStart[w] + ChunkSize, pRange[x]) - 1)
    BY <1>3 DEF PP!Claimed
  <2> QED BY <1>1, <1>4, <2>1 DEF PP!Smaller, InChunk
<1>7. PICK T : /\ pRan' = RanOf(T)
               /\ \A t \in T : InChunk(w, t) /\ t \in DOMAIN pRan[x]
               /\ \/ /\ T = PP!Claimed(w) /\ pWorker' = [pWorker EXCEPT ![w] = "claim"]
                     /\ UNCHANGED <<pWorkError, pFailed>>
                  \/ /\ pWorker' = [pWorker EXCEPT ![w] = "report"]
                     /\ pWorkError' = [pWorkError EXCEPT ![w] = TRUE]
                     /\ pFailed' = [pFailed EXCEPT ![x] = TRUE]
  <2>1. CASE /\ pRan' = RanOf(PP!Claimed(w)) /\ PP!Move(w, "claim")
             /\ UNCHANGED <<pWorkError, pFailed>>
    <3> HIDE DEF RanOf
    <3> QED BY <1>6, <2>1 DEF PP!Move
  <2>2. ASSUME NEW t \in PP!Claimed(w), pRan' = RanOf(pStart[w]..t),
               pWorkError' = [pWorkError EXCEPT ![w] = TRUE],
               pFailed' = [pFailed EXCEPT ![x] = TRUE], PP!Move(w, "report")
        PROVE  \E T : /\ pRan' = RanOf(T)
                      /\ \A s \in T : InChunk(w, s) /\ s \in DOMAIN pRan[x]
                      /\ pWorker' = [pWorker EXCEPT ![w] = "report"]
                      /\ pWorkError' = [pWorkError EXCEPT ![w] = TRUE]
                      /\ pFailed' = [pFailed EXCEPT ![x] = TRUE]
    <3>1. InChunk(w, t) /\ t \in 0..(pRange[x] - 1)
      BY <1>4, <1>6, <2>2
    <3>2. \A s \in pStart[w]..t : InChunk(w, s) /\ s \in DOMAIN pRan[x]
      BY <1>1, <1>4, <3>1 DEF InChunk
    <3>3. pWorker' = [pWorker EXCEPT ![w] = "report"]
      BY <2>2 DEF PP!Move
    <3> HIDE DEF RanOf
    <3> QED BY <2>2, <3>2, <3>3
  <2> HIDE DEF RanOf
  <2> QED BY <1>5, <2>1, <2>2
<1>8. /\ pRan' \in [Callers -> RunCounts(MaxThreads)]
      /\ \A y \in Callers : y # x => pRan'[y] = pRan[y]
      /\ DOMAIN pRan'[x] = DOMAIN pRan[x]
      /\ \A t \in DOMAIN pRan[x] : pRan'[x][t] = IF t \in T THEN 1 ELSE pRan[x][t]
  <2> DEFINE g == [t \in DOMAIN pRan[x] |-> IF t \in T THEN pRan[x][t] + 1 ELSE pRan[x][t]]
  <2>1. pRan' = [pRan EXCEPT ![x] = g]
    BY <1>7
  <2>2. pRan \in [Callers -> RunCounts(MaxThreads)] /\ pRan[x] \in RunCounts(MaxThreads)
    BY DEF PTyped
  <2>3. \A t \in DOMAIN pRan[x] : t \in T => pRan[x][t] = 0
    BY <1>2, <1>7 DEF RangeKept
  <2>4. /\ g \in RunCounts(MaxThreads) /\ DOMAIN g = DOMAIN pRan[x]
        /\ \A t \in DOMAIN pRan[x] : g[t] = IF t \in T THEN 1 ELSE pRan[x][t]
    <3>1. MaxThreads \in Nat
      BY BoundsAssumption
    <3> QED BY <2>2, <2>3, <3>1, SomeMore
  <2> HIDE DEF g
  <2>5. pRan'[x] = g /\ (\A y \in Callers : y # x => pRan'[y] = pRan[y])
        /\ pRan' \in [Callers -> RunCounts(MaxThreads)]
    BY <2>1, <2>2, <2>4
  <2> QED BY <2>4, <2>5
<1> HIDE DEF RanOf
<1>9. PTyped'
  <2>1. pWorker' \in [Workers -> {"loop", "parked", "loadFn", "loadTotal", "loadChunk", "claim",
                                  "work", "report"}]
    BY <1>7 DEF PTyped
  <2>2. pWorkError' \in [Workers -> BOOLEAN]
    BY <1>7, Zenon DEF PTyped
  <2>3. pFailed' \in [Callers -> BOOLEAN]
    BY <1>7, Zenon DEF PTyped
  <2> QED BY <1>1, <1>8, <2>1, <2>2, <2>3 DEF PTyped
<1>10. /\ \A v \in Workers : v # w => pWorker'[v] = pWorker[v] /\ pWorkError'[v] = pWorkError[v]
       /\ \A y \in Callers : y # x => pFailed'[y] = pFailed[y]
       /\ \/ /\ pWorker'[w] = "claim" /\ T = PP!Claimed(w)
             /\ pWorkError'[w] = pWorkError[w] /\ pFailed'[x] = pFailed[x]
          \/ pWorker'[w] = "report" /\ pWorkError'[w] = TRUE /\ pFailed'[x] = TRUE
  BY <1>7 DEF PTyped
<1>11. \A v \in Workers : OwesP(v)' <=> OwesP(v)
  BY <1>1, <1>10 DEF OwesP
<1>12. OwingP' = OwingP
  BY <1>11 DEF OwingP
<1>13. \A y \in Callers : (BusyP(y)' <=> BusyP(y)) /\ (InForceP(y)' <=> InForceP(y))
  BY <1>1 DEF BusyP, InForceP
<1>14. OneCallerP'
  <2>1. \A v \in Workers : pWorkError'[v] => pWorker'[v] = "report"
    BY <1>3, <1>10 DEF OneCallerP
  <2> QED BY <1>1, <1>12, <1>13, <2>1 DEF OneCallerP
<1>15. ASSUME NEW v \in Workers PROVE InStep(v)'
  <2>1. InStep(v) /\ InStep(w)
    OBVIOUS
  <2> QED BY <1>1, <1>10, <2>1 DEF InStep
<1>16. \A v \in Workers : v # w => \A t : InChunk(v, t)' <=> InChunk(v, t)
  BY <1>1, <1>10 DEF InChunk
<1>17. \A t : ~InChunk(w, t)'
  BY <1>10 DEF InChunk
<1>18. ChunksApart'
  BY <1>16, <1>17 DEF ChunksApart
<1>19. ASSUME NEW y \in Callers, BusyP(y)' PROVE Staged(y)'
  <2>1. y = x
    BY <1>2, <1>13, <1>19 DEF OneCallerP
  <2> QED BY <1>1, <1>2, <1>8, <2>1 DEF Staged, InForceP
<1>20. ASSUME NEW y \in Callers, InForceP(y)' PROVE RangeKept(y)'
  <2>1. y = x
    BY <1>2, <1>13, <1>20
  <2>2. \A t \in DOMAIN pRan[x] : t \in T => t \in Nat /\ InChunk(w, t) /\ ~(t >= pNextChunk)
    <3> TAKE t \in DOMAIN pRan[x]
    <3> HAVE t \in T
    <3>1. InChunk(w, t) /\ t \in Nat
      BY <1>4, <1>7
    <3>2. pStart[w] + ChunkSize <= pNextChunk /\ pNextChunk \in Nat
      BY <1>1 DEF InStep, PTyped
    <3> QED BY <1>4, <3>1, <3>2 DEF InChunk
  <2>3. ASSUME NEW t \in DOMAIN pRan[x], pRan'[x][t] = 0
        PROVE  t >= pNextChunk \/ pFailed'[x] \/ \E v \in Workers : InChunk(v, t)'
    <3>1. t \notin T /\ pRan[x][t] = 0
      BY <1>8, <2>3
    <3>2. t >= pNextChunk \/ pFailed[x] \/ \E v \in Workers : InChunk(v, t)
      BY <1>2, <3>1 DEF RangeKept
    <3>3. CASE pWorker'[w] = "report" /\ pWorkError'[w] = TRUE /\ pFailed'[x] = TRUE
      BY <3>3
    <3>4. CASE T = PP!Claimed(w) /\ pFailed'[x] = pFailed[x]
      <4>1. ~InChunk(w, t)
        BY <1>6, <3>1, <3>4
      <4> QED BY <1>16, <3>2, <3>4, <4>1
    <3> QED BY <1>10, <3>3, <3>4
  <2>4. ASSUME NEW t \in DOMAIN pRan[x], t >= pNextChunk
        PROVE  pRan'[x][t] = 0
    BY <1>2, <1>8, <2>2, <2>4 DEF RangeKept
  <2>5. ASSUME NEW t \in DOMAIN pRan[x], NEW v \in Workers, InChunk(v, t)'
        PROVE  pRan'[x][t] = 0
    <3>1. v # w /\ InChunk(v, t) /\ t \in Nat
      BY <1>4, <1>16, <1>17, <2>5
    <3>2. t \notin T
      BY <1>7, <3>1 DEF ChunksApart
    <3> QED BY <1>2, <1>8, <3>1, <3>2 DEF RangeKept
  <2>6. \A v \in Workers :
          pWorker'[v] = "report" \/ ~OwesP(v)' => pNextChunk >= pRange[x] \/ pFailed'[x]
    <3> TAKE v \in Workers
    <3>1. pFailed'[x] = TRUE \/ pFailed'[x] = pFailed[x]
      BY <1>10
    <3>2. OwesP(w)
      BY <1>1 DEF OwesP
    <3> QED BY <1>2, <1>10, <1>11, <3>1, <3>2 DEF RangeKept
  <2>7. pFailed'[x] <=> pFirstError # None \/ \E v \in Workers : pWorkError'[v]
    <3>1. CASE pWorkError'[w] = TRUE /\ pFailed'[x] = TRUE
      BY <3>1
    <3>2. CASE pWorkError'[w] = pWorkError[w] /\ pFailed'[x] = pFailed[x]
      <4>1. \A v \in Workers : pWorkError'[v] = pWorkError[v]
        BY <1>10, <3>2
      <4> QED BY <1>2, <3>2, <4>1 DEF RangeKept
    <3> QED BY <1>10, <3>1, <3>2
  <2> QED BY <1>1, <1>8, <2>1, <2>3, <2>4, <2>5, <2>6, <2>7 DEF RangeKept
<1> QED BY <1>1, <1>9, <1>12, <1>14, <1>15, <1>18, <1>19, <1>20

\* Who owes a report is finite, and counted.
LEMMA OwingPFinite == IsFiniteSet(OwingP) /\ Cardinality(OwingP) \in Nat
<1>1. OwingP \in SUBSET Workers
  BY DEF OwingP
<1> QED BY <1>1, WorkersCounted, FS_Subset, FS_CardinalityType

\* A worker hands in its error and is counted out.
LEMMA PReport ==
  ASSUME PInv, NEW w \in Workers, PP!Report(w)
  PROVE  PInv'
<1> USE DEF PInv
<1>1. /\ UNCHANGED <<pNextChunk, pTotalWork, pCurrentChunk, pWorkFn, pGeneration, pLastGen,
                     pCurrent, pRange, pOutcome, pRan, pFailed>>
      /\ pWorker[w] = "report" /\ pPending' = pPending - 1
      /\ pWorker' = [pWorker EXCEPT ![w] = "loop"]
      /\ pFn' = [pFn EXCEPT ![w] = None] /\ pTotal' = [pTotal EXCEPT ![w] = 0]
      /\ pChunk' = [pChunk EXCEPT ![w] = 0] /\ pStart' = [pStart EXCEPT ![w] = 0]
      /\ pWorkError' = [pWorkError EXCEPT ![w] = FALSE]
  BY DEF PP!Report, PP!sharedVars, PP!historyVars, PP!Move
<1>2. PICK x \in Callers : /\ InForceP(x) /\ BusyP(x) /\ Staged(x) /\ RangeKept(x)
                           /\ \A y \in Callers : InForceP(y) => y = x
  BY <1>1, AtWork
<1>3. pFn[w].launch \in Launches /\ pLastGen[w] = pGeneration
  BY <1>1, <1>2 DEF InStep, Staged, InForceP
<1>4. /\ pFirstError' \in Launches \cup {None}
      /\ pFirstError' # None <=> pFirstError # None \/ pWorkError[w]
  <2>1. None \notin Launches /\ pFirstError \in Launches \cup {None} /\ pWorkError[w] \in BOOLEAN
    BY NoneAssumption DEF PTyped
  <2>2. pFirstError' =
          IF pFirstError = None /\ pWorkError[w] THEN pFn[w].launch ELSE pFirstError
    BY DEF PP!Report
  <2> QED BY <1>3, <2>1, <2>2
<1>5. /\ pLauncher' \in [Callers -> {"idle", "setCounter", "setTotal", "setChunk", "setFn",
                                     "publish", "loop", "parked"}]
      /\ \A y \in Callers : pLauncher'[y] # pLauncher[y] =>
           {pLauncher[y], pLauncher'[y]} \subseteq {"loop", "parked"}
  <2>1. \/ UNCHANGED pLauncher
        \/ \E l \in Callers :
              pLauncher[l] = "parked" /\ pLauncher' = [pLauncher EXCEPT ![l] = "loop"]
    BY DEF PP!Report
  <2> QED BY <2>1 DEF PTyped
<1>6. PTyped'
  <2>1. pWorkError' \in [Workers -> BOOLEAN]
    BY <1>1, Zenon DEF PTyped
  <2>2. /\ pWorker' \in [Workers -> {"loop", "parked", "loadFn", "loadTotal", "loadChunk",
                                     "claim", "work", "report"}]
        /\ pFn' \in [Workers -> PP!Functions \cup {None}]
        /\ pTotal' \in [Workers -> 0..MaxThreads] /\ pChunk' \in [Workers -> {0, ChunkSize}]
        /\ pStart' \in [Workers -> Nat]
    BY <1>1, ConstantsTyped DEF PTyped
  <2> QED BY <1>1, <1>4, <1>5, <2>1, <2>2 DEF PTyped
<1>7. \A y \in Callers : (BusyP(y)' <=> BusyP(y)) /\ (InForceP(y)' <=> InForceP(y))
  BY <1>5 DEF BusyP, InForceP
<1>8. /\ \A v \in Workers : v # w =>
           /\ pWorker'[v] = pWorker[v] /\ pFn'[v] = pFn[v] /\ pTotal'[v] = pTotal[v]
           /\ pChunk'[v] = pChunk[v] /\ pStart'[v] = pStart[v]
           /\ pWorkError'[v] = pWorkError[v]
      /\ pWorker'[w] = "loop" /\ pWorkError'[w] = FALSE
  BY <1>1 DEF PTyped
<1>9. /\ \A v \in Workers : v # w => (OwesP(v)' <=> OwesP(v))
      /\ OwesP(w) /\ ~OwesP(w)'
  BY <1>1, <1>3, <1>8 DEF OwesP
<1>10. pPending' = Cardinality(OwingP')
  <2>1. OwingP' = OwingP \ {w} /\ w \in OwingP
    BY <1>9 DEF OwingP
  <2> QED BY <1>1, <2>1, OwingPFinite, FS_RemoveElement
<1>11. OneCallerP'
  <2>1. InForceP(x)'
    BY <1>2, <1>7
  <2>2. \A v \in Workers : pWorkError'[v] => pWorker'[v] = "report"
    BY <1>8 DEF OneCallerP
  <2> QED BY <1>7, <2>1, <2>2 DEF OneCallerP
<1>12. ASSUME NEW v \in Workers PROVE InStep(v)'
  <2>1. InStep(v)
    OBVIOUS
  <2>2. CASE v # w
    BY <1>1, <1>8, <2>1, <2>2 DEF InStep
  <2>3. CASE v = w
    BY <1>8, <2>3 DEF InStep
  <2> QED BY <2>2, <2>3
<1>13. \A v \in Workers : \A t : InChunk(v, t)' <=> InChunk(v, t)
  BY <1>1, <1>8 DEF InChunk
<1>14. ChunksApart'
  BY <1>13 DEF ChunksApart
<1>15. ASSUME NEW y \in Callers, BusyP(y)' PROVE Staged(y)'
  <2>1. y = x
    BY <1>2, <1>7, <1>15 DEF OneCallerP
  <2>2. InForceP(x) /\ InForceP(x)'
    BY <1>2, <1>7
  <2> QED BY <1>1, <1>2, <2>1, <2>2 DEF Staged, InForceP
<1>16. ASSUME NEW y \in Callers, InForceP(y)' PROVE RangeKept(y)'
  <2>1. y = x
    BY <1>2, <1>7, <1>16
  <2>2. pFailed'[x] <=> pFirstError' # None \/ \E v \in Workers : pWorkError'[v]
    BY <1>1, <1>2, <1>4, <1>8 DEF RangeKept
  <2>3. \A v \in Workers :
          pWorker'[v] = "report" \/ ~OwesP(v)' => pNextChunk >= pRange[x] \/ pFailed[x]
    BY <1>1, <1>2, <1>8, <1>9 DEF RangeKept
  <2> QED BY <1>1, <1>2, <1>13, <2>1, <2>2, <2>3 DEF RangeKept
<1> QED BY <1>6, <1>10, <1>11, <1>12, <1>14, <1>15, <1>16

\* Without a launch there are no threads.
LEMMA NoThreadsTyped == PP!NoThreads \in RunCounts(MaxThreads)
BY BoundsAssumption DEF PP!NoThreads, RunCounts

\* Every worker has reported: the pool is left without callers.
LEMMA PFinish ==
  ASSUME PInv, NEW l \in Callers, PP!Finish(l)
  PROVE  /\ PInv' /\ \A t \in DOMAIN pRan[l] : pRan[l][t] <= 1
         /\ pOutcome'[l] = "raised" <=> pFailed[l]
         /\ pOutcome'[l] = "returned" => \A t \in DOMAIN pRan[l] : pRan[l][t] = 1
<1> USE DEF PInv
<1>1. /\ UNCHANGED <<pNextChunk, pTotalWork, pCurrentChunk, pWorkFn, pPending, pGeneration,
                     pWorker, pLastGen, pFn, pTotal, pChunk, pStart, pWorkError, pRange>>
      /\ pLauncher[l] = "loop" /\ pPending <= 0 /\ pFirstError' = None
      /\ pLauncher' = [pLauncher EXCEPT ![l] = "idle"]
      /\ pCurrent' = [pCurrent EXCEPT ![l] = None]
      /\ pOutcome' = [pOutcome EXCEPT ![l] = IF pFirstError = None THEN "returned" ELSE "raised"]
      /\ pRan' = [pRan EXCEPT ![l] = PP!NoThreads]
      /\ pFailed' = [pFailed EXCEPT ![l] = FALSE]
  BY DEF PP!Finish, PP!sharedVars, PP!localVars, PP!Goto
<1>2. OwingP = {}
  <2>1. Cardinality(OwingP) = 0
    BY <1>1, OwingPFinite
  <2> QED BY <2>1, OwingPFinite, FS_EmptySet
<1>3. /\ InForceP(l) /\ BusyP(l) /\ Staged(l) /\ RangeKept(l)
      /\ \A x \in Callers : x # l => ~BusyP(x)
  BY <1>1 DEF InForceP, BusyP, OneCallerP
<1>4. \A w \in Workers : ~OwesP(w) /\ pWorker[w] \in {"loop", "parked"} /\ ~pWorkError[w]
  <2>1. \A w \in Workers : ~OwesP(w) /\ pWorker[w] \in {"loop", "parked"}
    BY <1>2 DEF OwingP, OwesP
  <2> QED BY <2>1 DEF OneCallerP
<1>5. PTyped'
  <2>1. pFailed' \in [Callers -> BOOLEAN]
    BY <1>1, Zenon DEF PTyped
  <2>2. /\ pLauncher' \in [Callers -> {"idle", "setCounter", "setTotal", "setChunk", "setFn",
                                       "publish", "loop", "parked"}]
        /\ pCurrent' \in [Callers -> Launches \cup {None}]
        /\ pRan' \in [Callers -> RunCounts(MaxThreads)]
    BY <1>1, NoThreadsTyped DEF PTyped
  <2>3. pOutcome' \in [Callers -> {"none", "returned", "raised"}]
    BY <1>1 DEF PTyped
  <2> QED BY <1>1, <2>1, <2>2, <2>3 DEF PTyped
<1>6. \A x \in Callers : ~BusyP(x)' /\ ~InForceP(x)'
  BY <1>1, <1>3 DEF BusyP, InForceP, PTyped
<1>7. OwingP' = OwingP
  BY <1>1 DEF OwingP, OwesP
<1>8. OneCallerP'
  BY <1>1, <1>2, <1>4, <1>6, <1>7 DEF OneCallerP
<1>9. \A w \in Workers : InStep(w)'
  BY <1>1, <1>4 DEF InStep
<1>10. ChunksApart'
  BY <1>1 DEF ChunksApart, InChunk
<1>11. PInv'
  BY <1>1, <1>5, <1>6, <1>7, <1>8, <1>9, <1>10
<1>12. pFailed[l] <=> pFirstError # None
  BY <1>3, <1>4 DEF RangeKept
<1>13. pOutcome'[l] = IF pFirstError = None THEN "returned" ELSE "raised"
  BY <1>1 DEF PTyped
<1>14. \A t \in DOMAIN pRan[l] : pRan[l][t] \in {0, 1}
  BY RunCountsTyped, BoundsAssumption DEF PTyped
<1>15. ASSUME ~pFailed[l], NEW t \in DOMAIN pRan[l] PROVE pRan[l][t] = 1
  <2>1. 0 \in Workers
    BY ConstantsTyped
  <2>2. pNextChunk >= pRange[l]
    BY <1>3, <1>4, <1>15, <2>1 DEF RangeKept
  <2>3. t < pRange[l] /\ t \in Nat /\ pNextChunk \in Nat /\ pRange[l] \in Nat
    BY <1>3, BoundsAssumption DEF Staged, PTyped
  <2>4. ~(t >= pNextChunk) /\ \A w \in Workers : ~InChunk(w, t)
    BY <1>4, <2>2, <2>3 DEF InChunk
  <2> QED BY <1>3, <1>14, <1>15, <2>4 DEF RangeKept
<1>16. \A t \in DOMAIN pRan[l] : pRan[l][t] <= 1
  BY <1>14
<1>17. pOutcome'[l] = "raised" <=> pFailed[l]
  BY <1>12, <1>13
<1>18. pOutcome'[l] = "returned" => \A t \in DOMAIN pRan[l] : pRan[l][t] = 1
  BY <1>12, <1>13, <1>15
<1> HIDE DEF PInv
<1> QED BY <1>11, <1>16, <1>17, <1>18

\* parallel_for is called on a pool without callers.
LEMMA PBegin ==
  ASSUME PInv, NEW l \in Callers, NEW k \in Launches, NEW n \in 0..MaxThreads,
         \A x \in Callers : ~BusyP(x), PP!Begin(l, k, n)
  PROVE  PInv'
<1> USE DEF PInv
<1>1. /\ UNCHANGED <<pNextChunk, pTotalWork, pCurrentChunk, pWorkFn, pPending, pGeneration,
                     pFirstError, pWorker, pLastGen, pFn, pTotal, pChunk, pStart, pWorkError>>
      /\ pRange' = [pRange EXCEPT ![l] = n]
      /\ pFailed' = [pFailed EXCEPT ![l] = FALSE]
      /\ \/ /\ pOutcome' = [pOutcome EXCEPT ![l] = "returned"]
            /\ UNCHANGED <<pLauncher, pCurrent>>
         \/ /\ pLauncher' = [pLauncher EXCEPT ![l] = "setCounter"]
            /\ pCurrent' = [pCurrent EXCEPT ![l] = k]
            /\ pOutcome' = [pOutcome EXCEPT ![l] = "none"]
  BY DEF PP!Begin, PP!sharedVars, PP!localVars, PP!Goto
<1>2. pRan' = [pRan EXCEPT ![l] = [t \in 0..(n - 1) |-> 0]]
  BY Zenon DEF PP!Begin
<1>3. \A x \in Callers : ~InForceP(x)
  BY DEF BusyP, InForceP
<1>4. /\ \A w \in Workers : /\ pWorker[w] \in {"loop", "parked"}
                            /\ pLastGen[w] = pGeneration /\ ~pWorkError[w]
      /\ pFirstError = None
  BY <1>3, Resting
<1>5. pRan'[l] = [t \in 0..(n - 1) |-> 0] /\ pRan' \in [Callers -> RunCounts(MaxThreads)]
  <2>1. [t \in 0..(n - 1) |-> 0] \in RunCounts(MaxThreads)
    <3>1. [t \in 0..(n - 1) |-> 0] \in [0..(n - 1) -> {0, 1}]
      OBVIOUS
    <3> QED BY <3>1, Zenon DEF RunCounts
  <2> QED BY <1>2, <2>1 DEF PTyped
<1>6. PTyped'
  <2>1. pFailed' \in [Callers -> BOOLEAN]
    BY <1>1, Zenon DEF PTyped
  <2>2. pRange' \in [Callers -> 0..MaxThreads]
    BY <1>1 DEF PTyped
  <2>3. /\ pLauncher' \in [Callers -> {"idle", "setCounter", "setTotal", "setChunk", "setFn",
                                       "publish", "loop", "parked"}]
        /\ pCurrent' \in [Callers -> Launches \cup {None}]
        /\ pOutcome' \in [Callers -> {"none", "returned", "raised"}]
    BY <1>1 DEF PTyped
  <2> QED BY <1>1, <1>5, <2>1, <2>2, <2>3 DEF PTyped
<1>7. \A x \in Callers : ~InForceP(x)' /\ (BusyP(x)' => x = l /\ pLauncher'[l] = "setCounter"
                                                        /\ pCurrent'[l] = k)
  BY <1>1, <1>3 DEF InForceP, BusyP, PTyped
<1>8. OwingP' = OwingP
  BY <1>1 DEF OwingP, OwesP
<1>9. OneCallerP'
  BY <1>1, <1>3, <1>4, <1>7, <1>8 DEF OneCallerP
<1>10. \A w \in Workers : InStep(w)'
  BY <1>1, <1>4 DEF InStep
<1>11. ChunksApart'
  BY <1>1 DEF ChunksApart, InChunk
<1>12. ASSUME NEW x \in Callers, BusyP(x)' PROVE Staged(x)'
  <2>1. x = l /\ pLauncher'[l] = "setCounter" /\ pCurrent'[l] = k
    BY <1>7, <1>12
  <2>2. pRange'[l] = n /\ ~pFailed'[l]
    BY <1>1 DEF PTyped
  <2>3. DOMAIN pRan'[l] = 0..(n - 1) /\ \A t \in DOMAIN pRan'[l] : pRan'[l][t] = 0
    BY <1>5
  <2> QED BY <2>1, <2>2, <2>3 DEF Staged, InForceP
<1> QED BY <1>1, <1>6, <1>7, <1>8, <1>9, <1>10, <1>11, <1>12

-----------------------------------------------------------------------------
(* One kernel at a time *)

\* What a step of the runtime is to the thread pool, and to the parallel pool.
ThreadPoolStep ==
    \/ UNCHANGED threadVars
    \/ \E w \in Workers : TP!WorkerStep(w)
    \/ \E x \in Callers : TP!WaitAgain(x) \/ TP!WakeLauncher(x) \/ TP!Finish(x)
    \/ \E x \in Callers, k \in Launches, total \in 0..MaxBlocks :
         /\ TP!RunKernel(x, k, total)
         /\ OneAtATime => \A y \in Callers : ~BusyT(y)

ParallelPoolStep ==
    \/ UNCHANGED parallelVars
    \/ \E w \in Workers : PP!WorkerStep(w)
    \/ \E x \in Callers : PP!LauncherStep(x) \/ PP!WakeLauncher(x) \/ PP!Finish(x)
    \/ \E x \in Callers, k \in Launches, n \in 0..MaxThreads :
         /\ PP!Begin(x, k, n)
         /\ OneAtATime => \A y \in Callers : ~BusyP(y)

\* In a program that runs one at a time, a kernel finds both pools free when it starts.
LEMMA Started ==
  ASSUME NEW x \in Callers, NEW k \in Launches, RunThreadpool(x, k)
  PROVE  ThreadPoolStep /\ ParallelPoolStep
<1>1. OneAtATime => \A y \in Callers : ~BusyT(y) /\ ~BusyP(y)
  BY DEF RunThreadpool, MayCall, BusyT, BusyP
<1>2. \/ (\E total \in Grids : TP!RunKernel(x, k, total)) /\ UNCHANGED parallelVars
      \/ (\E n \in Ranges : PP!Begin(x, k, n)) /\ UNCHANGED threadVars
  BY DEF RunThreadpool
<1> QED BY <1>1, <1>2, SizesAssumption DEF ThreadPoolStep, ParallelPoolStep

\* The end of a call is the end of a pool's run, or changes nothing.
LEMMA Ended ==
  ASSUME NEW x \in Callers, NEW outcome, Ends(x, outcome)
  PROVE  ThreadPoolStep /\ ParallelPoolStep
BY DEF Ends, ReturnsAtOnce, ThreadPoolStep, ParallelPoolStep

\* A caller waits, is woken, or stores what its launch is.
LEMMA CallSteps ==
  ASSUME NEW x \in Callers, CallStep(x) \/ Wakeup(x)
  PROVE  ThreadPoolStep /\ ParallelPoolStep
BY DEF CallStep, Wakeup, ThreadPoolStep, ParallelPoolStep

\* Every step of the runtime, for both pools.
LEMMA PoolSteps ==
  ASSUME QueuesInv, [Next]_vars
  PROVE  ThreadPoolStep /\ ParallelPoolStep
<1>1. ASSUME UNCHANGED <<threadVars, parallelVars>>
      PROVE  ThreadPoolStep /\ ParallelPoolStep
  BY <1>1 DEF ThreadPoolStep, ParallelPoolStep
<1>2. CASE UNCHANGED vars
  BY <1>1, <1>2 DEF vars
<1>3. ASSUME NEW c \in Clients, NEW k \in Launches, CallDirectly(c, k)
      PROVE  ThreadPoolStep /\ ParallelPoolStep
  BY <1>3, Started DEF CallDirectly, Callers
<1>4. ASSUME NEW c \in Clients, NEW k \in Launches, NEW q \in Queues, Enqueue(c, q, k)
      PROVE  ThreadPoolStep /\ ParallelPoolStep
  BY <1>1, <1>4 DEF Enqueue
<1>5. ASSUME NEW c \in Clients, Flush(c)
      PROVE  ThreadPoolStep /\ ParallelPoolStep
  BY <1>1, <1>5 DEF Flush
<1>6. ASSUME NEW c \in Clients, ClientStep(c)
      PROVE  ThreadPoolStep /\ ParallelPoolStep
  <2>1. CASE FlushStep(c)
    BY <1>1, <2>1 DEF FlushStep
  <2>2. CASE CallStep(c)
    BY <2>2, CallSteps DEF Callers
  <2>3. CASE DirectCallEnds(c)
    BY <2>3, Ended DEF DirectCallEnds, Callers
  <2> QED BY <1>6, <2>1, <2>2, <2>3 DEF ClientStep
<1>7. ASSUME NEW q \in Queues, DispatcherStep(q)
      PROVE  ThreadPoolStep /\ ParallelPoolStep
  <2>1. CASE Dispatch(q)
    BY <1>1, <2>1 DEF Dispatch
  <2>2. CASE DispatcherCalls(q)
    <3>1. executing[q] # None
      BY <2>2 DEF DispatcherCalls, LQ!Call, QueuesInv, QueueKept
    <3>2. executing[q] \in Launches
      BY <3>1 DEF QueuesInv, LQ!TypeOK
    <3> QED BY <2>2, <3>2, Started DEF DispatcherCalls, Callers
  <2>3. CASE DispatcherCallEnds(q)
    BY <2>3, Ended DEF DispatcherCallEnds, Callers
  <2>4. CASE CallStep(q)
    BY <2>4, CallSteps DEF Callers
  <2> QED BY <1>7, <2>1, <2>2, <2>3, <2>4 DEF DispatcherStep
<1>8. ASSUME NEW w \in Workers, ThreadWorkerStep(w) \/ ParallelWorkerStep(w)
      PROVE  ThreadPoolStep /\ ParallelPoolStep
  BY <1>8 DEF ThreadWorkerStep, ParallelWorkerStep, ThreadPoolStep, ParallelPoolStep
<1>9. ASSUME NEW x \in Callers, Wakeup(x)
      PROVE  ThreadPoolStep /\ ParallelPoolStep
  BY <1>9, CallSteps
<1> QED BY <1>2, <1>3, <1>4, <1>5, <1>6, <1>7, <1>8, <1>9 DEF Next

\* The runtime implements its parts: the launch queues and each of the pools behave in it
\* as their own modules have it, concurrent launches included.
THEOREM ImplementsItsParts == Spec => LQ!Spec /\ TP!Spec /\ PP!Spec
<1>1. Init => LQ!Init /\ TP!Init /\ PP!Init
  BY DEF Init
<1>2. QueuesInv /\ [Next]_vars => [LQ!Next]_(LQ!vars)
  BY QueuesStep DEF vars, queueVars, LQ!vars, LQ!queueVars, LQ!clientVars
<1>3. ThreadPoolStep => [TP!Next]_(TP!vars)
  BY DEF ThreadPoolStep, threadVars, TP!vars, TP!workerVars, TP!historyVars, TP!Next, TP!Step,
         Workers, TP!Workers
<1>4. ParallelPoolStep => [PP!Next]_(PP!vars)
  BY DEF ParallelPoolStep, parallelVars, PP!vars, PP!sharedVars, PP!localVars,
         PP!launcherVars, PP!historyVars, PP!Next, PP!Step
<1>5. QueuesInv /\ [Next]_vars => [TP!Next]_(TP!vars) /\ [PP!Next]_(PP!vars)
  BY <1>3, <1>4, PoolSteps
<1> QED BY <1>1, <1>2, <1>5, Invariance, PTL DEF Spec, LQ!Spec, TP!Spec, PP!Spec

\* What a call that ends says of its grid, as RunsItsGridOnce has it.
BlocksRanOnce ==
    \A l \in Callers :
      tCurrent[l] # None /\ tCurrent'[l] = None =>
         /\ tOutcome'[l] = "returned" => \A b \in DOMAIN tRan[l] : tRan[l][b] = 1
         /\ tOutcome'[l] = "raised" <=> tFailed[l]
         /\ \A b \in DOMAIN tRan[l] : tRan[l][b] <= 1

ThreadsRanOnce ==
    \A l \in Callers :
      pCurrent[l] # None /\ pCurrent'[l] = None =>
         /\ pOutcome'[l] = "returned" => \A t \in DOMAIN pRan[l] : pRan[l][t] = 1
         /\ pOutcome'[l] = "raised" <=> pFailed[l]
         /\ \A t \in DOMAIN pRan[l] : pRan[l][t] <= 1

\* Each step keeps the pool's books, and a call ends with all its grid run.
LEMMA ThreadPoolKept ==
  ASSUME OneAtATime, TInv, ThreadPoolStep
  PROVE  TInv' /\ BlocksRanOnce
<1>1. ASSUME \A l \in Callers : tCurrent[l] # None => tCurrent'[l] # None
      PROVE  BlocksRanOnce
  BY <1>1 DEF BlocksRanOnce
<1>2. CASE UNCHANGED threadVars
  <2>1. TInv'
    <3>1. /\ UNCHANGED <<tGeneration, tLastGen, tWork, tPending, tFirstError, tWorker, tItem, tBlock,
                         tWorkError, tLauncher, tCurrent, tOutcome, tRan, tFailed>>
      BY <1>2 DEF threadVars
    <3> QED BY <3>1 DEF TInv, TTyped, OneCallerT, SlotKept, Apart, GridKept, ToRun, OwingT,
                        BusyT
  <2> QED BY <1>1, <1>2, <2>1 DEF threadVars
<1>3. ASSUME NEW w \in Workers, TP!WorkerStep(w) PROVE TInv' /\ BlocksRanOnce
  <2>1. UNCHANGED tCurrent
    BY <1>3 DEF TP!WorkerStep, TP!Park, TP!SeeGeneration, TP!FetchNothing, TP!Fetch, TP!RunBlock,
                TP!ClearSlot, TP!Signal
  <2>2. TInv'
    BY <1>3, TWorkerMoves, TFetch, TRunBlock, TClearSlot, TSignal DEF TP!WorkerStep
  <2> QED BY <1>1, <2>1, <2>2
<1>4. ASSUME NEW x \in Callers, TP!WaitAgain(x) \/ TP!WakeLauncher(x)
      PROVE  TInv' /\ BlocksRanOnce
  <2>1. UNCHANGED tCurrent
    BY <1>4 DEF TP!WaitAgain, TP!WakeLauncher
  <2> QED BY <1>1, <1>4, <2>1, TCallerMoves
<1>5. ASSUME NEW x \in Callers, TP!Finish(x) PROVE TInv' /\ BlocksRanOnce
  <2>1. /\ TInv' /\ \A b \in DOMAIN tRan[x] : tRan[x][b] <= 1
        /\ tOutcome'[x] = "raised" <=> tFailed[x]
        /\ tOutcome'[x] = "returned" => \A b \in DOMAIN tRan[x] : tRan[x][b] = 1
    BY <1>5, TFinish
  <2>2. \A l \in Callers : l # x => tCurrent'[l] = tCurrent[l]
    BY <1>5 DEF TP!Finish, TInv, TTyped
  <2> QED BY <2>1, <2>2 DEF BlocksRanOnce
<1>6. ASSUME NEW x \in Callers, NEW k \in Launches, NEW total \in 0..MaxBlocks,
             TP!RunKernel(x, k, total), \A y \in Callers : ~BusyT(y)
      PROVE  TInv' /\ BlocksRanOnce
  <2>1. tCurrent' = [tCurrent EXCEPT ![x] = k]
    BY <1>6, Zenon DEF TP!RunKernel
  <2>2. \A l \in Callers : tCurrent[l] # None => tCurrent'[l] # None
    BY <2>1, NoneAssumption DEF TInv, TTyped
  <2> QED BY <1>1, <1>6, <2>2, TRunKernel
<1> QED BY <1>2, <1>3, <1>4, <1>5, <1>6 DEF ThreadPoolStep

\* The same of the parallel pool.
LEMMA ParallelPoolKept ==
  ASSUME OneAtATime, PInv, ParallelPoolStep
  PROVE  PInv' /\ ThreadsRanOnce
<1>1. ASSUME \A l \in Callers : pCurrent[l] # None => pCurrent'[l] # None
      PROVE  ThreadsRanOnce
  BY <1>1 DEF ThreadsRanOnce
<1>2. CASE UNCHANGED parallelVars
  <2>1. PInv'
    <3>1. /\ UNCHANGED <<pNextChunk, pTotalWork, pCurrentChunk, pWorkFn, pPending, pGeneration,
                         pFirstError, pWorker, pLastGen, pFn, pTotal, pChunk, pStart>>
          /\ UNCHANGED <<pWorkError, pLauncher, pCurrent, pRange, pOutcome, pRan, pFailed>>
      BY <1>2 DEF parallelVars
    <3> QED BY <3>1 DEF PInv, PTyped, OneCallerP, InStep, ChunksApart, Staged, RangeKept,
                        InChunk, OwingP, OwesP, BusyP, InForceP
  <2> QED BY <1>1, <1>2, <2>1 DEF parallelVars
<1>3. ASSUME NEW w \in Workers, PP!WorkerStep(w) PROVE PInv' /\ ThreadsRanOnce
  <2>1. UNCHANGED pCurrent
    BY <1>3 DEF PP!WorkerStep, PP!Park, PP!SeeGeneration, PP!Load, PP!Claim, PP!Work, PP!Report,
                PP!launcherVars
  <2>2. PInv'
    BY <1>3, PWorkerMoves, PClaim, PWork, PReport DEF PP!WorkerStep
  <2> QED BY <1>1, <2>1, <2>2
<1>4. ASSUME NEW x \in Callers, PP!LauncherStep(x) \/ PP!WakeLauncher(x)
      PROVE  PInv' /\ ThreadsRanOnce
  <2>1. UNCHANGED pCurrent
    BY <1>4 DEF PP!LauncherStep, PP!Store, PP!Publish, PP!WaitAgain, PP!WakeLauncher
  <2> QED BY <1>1, <1>4, <2>1, PStore, PPublish, PCallerMoves DEF PP!LauncherStep
<1>5. ASSUME NEW x \in Callers, PP!Finish(x) PROVE PInv' /\ ThreadsRanOnce
  <2>1. /\ PInv' /\ \A t \in DOMAIN pRan[x] : pRan[x][t] <= 1
        /\ pOutcome'[x] = "raised" <=> pFailed[x]
        /\ pOutcome'[x] = "returned" => \A t \in DOMAIN pRan[x] : pRan[x][t] = 1
    BY <1>5, PFinish
  <2>2. \A l \in Callers : l # x => pCurrent'[l] = pCurrent[l]
    BY <1>5 DEF PP!Finish, PInv, PTyped
  <2> QED BY <2>1, <2>2 DEF ThreadsRanOnce
<1>6. ASSUME NEW x \in Callers, NEW k \in Launches, NEW n \in 0..MaxThreads,
             PP!Begin(x, k, n), \A y \in Callers : ~BusyP(y)
      PROVE  PInv' /\ ThreadsRanOnce
  <2>1. pCurrent' = pCurrent \/ pCurrent' = [pCurrent EXCEPT ![x] = k]
    BY <1>6, Zenon DEF PP!Begin
  <2>2. \A l \in Callers : pCurrent[l] # None => pCurrent'[l] # None
    BY <2>1, NoneAssumption DEF PInv, PTyped
  <2> QED BY <1>1, <1>6, <2>2, PBegin
<1> QED BY <1>2, <1>3, <1>4, <1>5, <1>6 DEF ParallelPoolStep

\* In a program that runs one kernel at a time, each pool keeps its books: what is left of
\* the grid is with the workers that owe it, and nothing of an earlier launch is.
THEOREM PoolsInvariance == OneAtATime => (Spec => [](TInv /\ PInv))
<1> SUFFICES ASSUME OneAtATime PROVE Spec => [](TInv /\ PInv)
  OBVIOUS
<1>1. Init => TInv /\ PInv
  BY TInit, PInit
<1>2. QueuesInv /\ TInv /\ PInv /\ [Next]_vars => TInv' /\ PInv'
  BY PoolSteps, ThreadPoolKept, ParallelPoolKept
<1> QED BY <1>1, <1>2, Invariance, PTL DEF Spec

\* run_kernel and parallel_for return after every block or thread of the grid was run
\* exactly once, and raise exactly when one of this launch's raised: run_kernel's slots and
\* parallel_for's chunks leave nothing out and hand nothing out twice, whatever the size of
\* the pool and of the grid, and also after a launch that failed.
THEOREM GridsRunOnce == OneAtATime => (Spec => RunsItsGridOnce)
<1> SUFFICES ASSUME OneAtATime PROVE Spec => RunsItsGridOnce
  OBVIOUS
<1>1. QueuesInv /\ TInv /\ PInv /\ [Next]_vars => BlocksRanOnce /\ ThreadsRanOnce
  BY PoolSteps, ThreadPoolKept, ParallelPoolKept
<1>2. QueuesInv /\ TInv /\ PInv /\ [Next]_vars => [BlocksRanOnce]_(TP!vars)
  BY <1>1
<1>3. QueuesInv /\ TInv /\ PInv /\ [Next]_vars => [ThreadsRanOnce]_(PP!vars)
  BY <1>1
<1>4. Spec => [][BlocksRanOnce]_(TP!vars)
  BY <1>2, Invariance, PoolsInvariance, PTL DEF Spec
<1>5. Spec => [][ThreadsRanOnce]_(PP!vars)
  BY <1>3, Invariance, PoolsInvariance, PTL DEF Spec
<1> QED BY <1>4, <1>5, PTL DEF RunsItsGridOnce, TP!RunsEveryBlockOnce, PP!RunsEveryThreadOnce,
                              BlocksRanOnce, ThreadsRanOnce

\* The clients' own calls.
CallsTyped == direct \in SUBSET Launches /\ calling \in [Clients -> BOOLEAN]

LEMMA CallsKept == CallsTyped /\ [Next]_vars => CallsTyped'
<1> SUFFICES ASSUME CallsTyped, [Next]_vars PROVE CallsTyped'
  OBVIOUS
<1>1. ASSUME UNCHANGED callVars PROVE CallsTyped'
  BY <1>1 DEF callVars, CallsTyped
<1>2. CASE UNCHANGED vars
  BY <1>1, <1>2 DEF vars
<1>3. ASSUME NEW c \in Clients, NEW k \in Launches, CallDirectly(c, k) PROVE CallsTyped'
  <2>1. direct' \in SUBSET Launches
    BY <1>3 DEF CallDirectly, CallsTyped
  <2>2. calling' \in [Clients -> BOOLEAN]
    BY <1>3, Zenon DEF CallDirectly, CallsTyped
  <2> QED BY <2>1, <2>2 DEF CallsTyped
<1>4. ASSUME NEW c \in Clients, DirectCallEnds(c) PROVE CallsTyped'
  <2>1. direct' \in SUBSET Launches
    BY <1>4 DEF DirectCallEnds, CallsTyped
  <2>2. calling' \in [Clients -> BOOLEAN]
    BY <1>4, Zenon DEF DirectCallEnds, CallsTyped
  <2> QED BY <2>1, <2>2 DEF CallsTyped
<1>5. ASSUME NEW c \in Clients, NEW k \in Launches, NEW q \in Queues, Enqueue(c, q, k)
      PROVE  UNCHANGED callVars
  BY <1>5 DEF Enqueue
<1>6. ASSUME NEW c \in Clients, Flush(c) \/ FlushStep(c) PROVE UNCHANGED callVars
  BY <1>6 DEF Flush, FlushStep
<1>7. ASSUME NEW x \in Callers, CallStep(x) \/ Wakeup(x) PROVE UNCHANGED callVars
  BY <1>7 DEF CallStep, Wakeup
<1>8. ASSUME NEW q \in Queues, Dispatch(q) \/ DispatcherCalls(q) \/ DispatcherCallEnds(q)
      PROVE  UNCHANGED callVars
  BY <1>8 DEF Dispatch, DispatcherCalls, DispatcherCallEnds
<1>9. ASSUME NEW w \in Workers, ThreadWorkerStep(w) \/ ParallelWorkerStep(w)
      PROVE  UNCHANGED callVars
  BY <1>9 DEF ThreadWorkerStep, ParallelWorkerStep
<1> QED BY <1>1, <1>2, <1>3, <1>4, <1>5, <1>6, <1>7, <1>8, <1>9
        DEF Next, ClientStep, DispatcherStep, Callers

\* Type correctness of the queues and of both pools, whose counters of workers yet to
\* finish never leave the range of the pool's size.
THEOREM TypeCorrect == OneAtATime => (Spec => []TypeOK)
<1> SUFFICES ASSUME OneAtATime PROVE Spec => []TypeOK
  OBVIOUS
<1>1. Init => CallsTyped
  BY DEF Init, CallsTyped
<1>2. QueuesInv => LQ!TypeOK
  BY DEF QueuesInv
<1>3. TInv => TP!TypeOK
  <2> SUFFICES ASSUME TInv PROVE TP!TypeOK
    OBVIOUS
  <2>1. tPending \in 0..NumWorkers
    <3>1. OwingT \in SUBSET Workers /\ tPending = Cardinality(OwingT)
      BY DEF OwingT, TInv
    <3>2. tPending \in Nat /\ tPending <= NumWorkers
      BY <3>1, OwingTFinite, WorkersCounted, FS_Subset
    <3> QED BY <3>2, ConstantsTyped
  <2>2. \A l \in Callers : \A b \in DOMAIN tRan[l] : b \in TP!Blocks /\ tRan[l][b] \in Nat
    <3> TAKE l \in Callers
    <3>0. tRan[l] \in RunCounts(MaxBlocks)
      BY DEF TInv, TTyped
    <3>1. PICK n \in 0..MaxBlocks : tRan[l] \in [0..(n - 1) -> {0, 1}]
      BY <3>0 DEF RunCounts
    <3> QED BY <3>1, ConstantsTyped DEF TP!Blocks
  <2> QED BY <2>1, <2>2, ConstantsTyped DEF TInv, TTyped, TP!TypeOK
<1>4. PInv => PP!TypeOK
  <2> SUFFICES ASSUME PInv PROVE PP!TypeOK
    OBVIOUS
  <2>1. pPending \in 0..PP!Cardinality(Workers)
    <3>1. OwingP \in SUBSET Workers /\ pPending = Cardinality(OwingP)
      BY DEF OwingP, PInv
    <3>2. pPending \in Nat /\ pPending <= NumWorkers
      BY <3>1, OwingPFinite, WorkersCounted, FS_Subset
    <3> QED BY <3>2, ConstantsTyped, WorkersCounted, SameCount
  <2>2. \A l \in Callers : \A t \in DOMAIN pRan[l] : pRan[l][t] \in Nat
    BY RunCountsTyped, BoundsAssumption DEF PInv, PTyped
  <2> QED BY <2>1, <2>2 DEF PInv, PTyped, PP!TypeOK
<1>5. QueuesInv /\ TInv /\ PInv /\ CallsTyped => TypeOK
  BY <1>2, <1>3, <1>4 DEF TypeOK, CallsTyped
<1>6. Spec => []CallsTyped
  BY <1>1, CallsKept, PTL DEF Spec
<1> QED BY <1>5, <1>6, Invariance, PoolsInvariance, PTL

-----------------------------------------------------------------------------
(* The service *)

\* The pools are apart: a caller is in one of them, and what ran of its last call is
\* forgotten in one that it is not in.
PoolsApart(x) ==
    /\ BusyT(x) => ~BusyP(x)
    /\ ~BusyT(x) => tRan[x] = TP!NoBlocks /\ ~tFailed[x]
    /\ ~BusyP(x) => pRan[x] = PP!NoThreads /\ ~pFailed[x]

\* Who is in a pool is in a call, and who is in a call is in no flush.
InStepWithCalls(x) ==
    /\ BusyT(x) \/ BusyP(x) => InCall(x)
    /\ x \in Clients /\ calling[x] => client[x] = "idle"

CallsInv ==
    /\ CallsTyped
    /\ \A x \in Callers : PoolsApart(x) /\ InStepWithCalls(x)

\* What the service sees of a client and of a queue.
LEMMA Seen ==
  /\ \A c \in Clients :
       At(c) = IF ~calling[c] THEN IF client[c] = "idle" THEN "free" ELSE "flushing"
               ELSE IF Raising(c) THEN "raising" ELSE "running"
  /\ \A q \in Queues :
       /\ q \notin Clients
       /\ At(q) = IF dispatcher[q] # "running" THEN IF dispatcher[q] = "dead" THEN "dead" ELSE "free"
                  ELSE IF Raising(q) THEN "raising" ELSE "running"
  /\ \A x \in Callers : Ran(x) = IF BusyT(x) THEN tRan[x] ELSE pRan[x]
  /\ Callers = Service!Callers
BY CallersAssumption DEF At, InCall, BetweenCalls, Ran, BusyT, Callers, Service!Callers

\* Nothing changes for the service.
LEMMA Unseen ==
  ASSUME UNCHANGED <<enqueued, completed, owed>>,
         \A q \in Queues : Called(q)' = Called(q),
         \A x \in Callers : At(x)' = At(x) /\ Ran(x)' = Ran(x)
  PROVE  UNCHANGED Service!vars
BY DEF Service!vars

\* A call begins.
LEMMA BeginsACall ==
  ASSUME NEW x \in Callers, NEW n \in Grids \cup Ranges,
         UNCHANGED <<enqueued, completed, owed>>,
         At(x) = "free", At(x)' = "running", Ran(x)' = [i \in 0..(n - 1) |-> 0],
         \A y \in Callers : y # x => At(y)' = At(y) /\ Ran(y)' = Ran(y)
  PROVE  Service!Begin(x)
<1>1. [y \in Callers |-> At(y)'] = [[y \in Callers |-> At(y)] EXCEPT ![x] = "running"]
  OBVIOUS
<1>2. [y \in Callers |-> Ran(y)'] =
        [[y \in Callers |-> Ran(y)] EXCEPT ![x] = [i \in 0..(n - 1) |-> 0]]
  OBVIOUS
<1>3. [y \in Callers |-> At(y)][x] = "free"
  OBVIOUS
<1> QED BY <1>1, <1>2, <1>3 DEF Service!Begin, Service!Goes

\* Items of a call run.
LEMMA RunsItems ==
  ASSUME NEW x \in Callers, NEW S,
         UNCHANGED <<enqueued, completed, owed>>,
         \A q \in Queues : Called(q)' = Called(q),
         At(x) \in {"running", "raising"}, At(x)' \in {At(x), "raising"},
         \A i \in S : i \in DOMAIN Ran(x) /\ Ran(x)[i] = 0,
         Ran(x)' = [i \in DOMAIN Ran(x) |-> IF i \in S THEN 1 ELSE Ran(x)[i]],
         \A y \in Callers : y # x => At(y)' = At(y) /\ Ran(y)' = Ran(y)
  PROVE  Service!Next
<1>1. [y \in Callers |-> At(y)'] \in
        {[y \in Callers |-> At(y)], [[y \in Callers |-> At(y)] EXCEPT ![x] = "raising"]}
  <2>1. CASE At(x)' = At(x)
    <3>1. \A y \in Callers : At(y)' = At(y)
      BY <2>1
    <3> QED BY <3>1
  <2>2. CASE At(x)' = "raising"
    BY <2>2
  <2> QED BY <2>1, <2>2
<1> DEFINE R == [y \in Callers |-> Ran(y)]
<1>2. R[x] = Ran(x)
  OBVIOUS
<1>3. [y \in Callers |-> Ran(y)'] =
        [R EXCEPT ![x] = [i \in DOMAIN @ |-> IF i \in S THEN 1 ELSE @[i]]]
  OBVIOUS
<1>4. S \in SUBSET Service!NotRun(x)
  BY <1>2 DEF Service!NotRun
<1>5. [q \in Queues |-> Called(q)'] = [q \in Queues |-> Called(q)]
  OBVIOUS
<1>6. [y \in Callers |-> At(y)][x] \in {"running", "raising"}
  OBVIOUS
<1>7. Service!RunItems(x, S)
  BY <1>1, <1>3, <1>5, <1>6 DEF Service!RunItems
<1> QED BY <1>4, <1>7, Seen DEF Service!Next

\* A call returns: all items ran, none raised.  One that raised ends the queue's service.
LEMMA EndsACall ==
  ASSUME NEW x \in Callers, NEW to,
         UNCHANGED <<enqueued, owed>>,
         \A q \in Queues : Called(q)' = Called(q),
         At(x)' = to, Ran(x)' = PP!NoThreads,
         \A y \in Callers : y # x => At(y)' = At(y) /\ Ran(y)' = Ran(y),
         \/ /\ At(x) = "running" /\ to = "free"
            /\ \A i \in DOMAIN Ran(x) : Ran(x)[i] = 1
            /\ completed' = IF x \in Queues THEN completed \cup {enqueued[x][Called(x)]}
                            ELSE completed
         \/ /\ At(x) = "raising" /\ to = IF x \in Queues THEN "dead" ELSE "free"
            /\ UNCHANGED completed
  PROVE  Service!Next
<1>1. [y \in Callers |-> At(y)'] = [[y \in Callers |-> At(y)] EXCEPT ![x] = to]
  OBVIOUS
<1>2. [y \in Callers |-> Ran(y)'] = [[y \in Callers |-> Ran(y)] EXCEPT ![x] = Service!Nothing]
  BY DEF PP!NoThreads, Service!Nothing
<1>3. [y \in Callers |-> At(y)][x] = At(x) /\ [y \in Callers |-> Ran(y)][x] = Ran(x)
  OBVIOUS
<1>4. [q \in Queues |-> Called(q)'] = [q \in Queues |-> Called(q)]
  OBVIOUS
<1>5. CASE /\ At(x) = "running" /\ to = "free"
           /\ \A i \in DOMAIN Ran(x) : Ran(x)[i] = 1
           /\ completed' = IF x \in Queues THEN completed \cup {enqueued[x][Called(x)]}
                           ELSE completed
  <2>1. Service!NotRun(x) = {}
    BY <1>3, <1>5 DEF Service!NotRun
  <2>2. x \in Queues => [q \in Queues |-> Called(q)][x] = Called(x)
    OBVIOUS
  <2>3. Service!Return(x)
    BY <1>1, <1>2, <1>3, <1>4, <1>5, <2>1, <2>2 DEF Service!Return, Service!Goes
  <2> QED BY <2>3, Seen DEF Service!Next
<1>6. CASE /\ At(x) = "raising" /\ to = IF x \in Queues THEN "dead" ELSE "free"
           /\ UNCHANGED completed
  <2>1. Service!Raise(x)
    BY <1>1, <1>2, <1>3, <1>4, <1>6 DEF Service!Raise, Service!Goes
  <2> QED BY <2>1, Seen DEF Service!Next
<1> QED BY <1>5, <1>6

-----------------------------------------------------------------------------
(* What the pools do to the service *)

\* In the thread pool: a worker's step runs a block that has not run before, or none.
LEMMA ThreadPoolRuns ==
  ASSUME TInv, TInv', NEW w \in Workers, TP!WorkerStep(w)
  PROVE  /\ \A x \in Callers : BusyT(x)' <=> BusyT(x)
         /\ \/ UNCHANGED <<tRan, tFailed>>
            \/ \E x \in Callers : \E S \in SUBSET DOMAIN tRan[x] :
                 /\ BusyT(x)
                 /\ \A b \in S : tRan[x][b] = 0
                 /\ tRan'[x] = [b \in DOMAIN tRan[x] |-> IF b \in S THEN 1 ELSE tRan[x][b]]
                 /\ \A y \in Callers : y # x => tRan'[y] = tRan[y]
                 /\ tFailed' \in {tFailed, [tFailed EXCEPT ![x] = TRUE]}
<1>1. CASE TP!Park(w) \/ TP!SeeGeneration(w) \/ TP!FetchNothing(w) \/ TP!Fetch(w) \/ TP!ClearSlot(w)
  BY <1>1 DEF TP!Park, TP!SeeGeneration, TP!FetchNothing, TP!Fetch, TP!ClearSlot, TP!historyVars,
              BusyT
<1>2. CASE TP!Signal(w)
  BY <1>2 DEF TP!Signal, TP!historyVars, TP!Woken, BusyT, TInv, TTyped
<1>3. CASE TP!RunBlock(w)
  <2> DEFINE x == tItem[w].by
             b == tBlock[w]
  <2>1. tWorker[w] = "running" /\ tWork[w] # None /\ tItem[w] = tWork[w] /\ BusyT(x) /\ x \in Callers
    BY <1>3, ItemFacts DEF TP!RunBlock, SlotKept, TInv
  <2>2. /\ tRan' = IF b \in DOMAIN tRan[x] THEN [tRan EXCEPT ![x][b] = @ + 1] ELSE tRan
        /\ tFailed' \in {tFailed, [tFailed EXCEPT ![x] = TRUE]}
        /\ UNCHANGED tLauncher
    BY <1>3 DEF TP!RunBlock
  <2>3. /\ tRan[x] \in RunCounts(MaxBlocks) /\ tRan'[x] \in RunCounts(MaxBlocks)
        /\ tRan \in [Callers -> RunCounts(MaxBlocks)]
    BY <2>1 DEF TInv, TTyped
  <2>4. \A y \in Callers : BusyT(y)' <=> BusyT(y)
    BY <2>2 DEF BusyT
  <2> HIDE DEF x, b
  <2>5. CASE b \in DOMAIN tRan[x]
    <3>1. tRan' = [tRan EXCEPT ![x] = [tRan[x] EXCEPT ![b] = tRan[x][b] + 1]]
      BY <2>1, <2>2, <2>3, <2>5
    <3>2. /\ tRan'[x] = [tRan[x] EXCEPT ![b] = tRan[x][b] + 1]
          /\ \A y \in Callers : y # x => tRan'[y] = tRan[y]
      BY <2>1, <2>3, <3>1
    <3>3. PICK n \in 0..MaxBlocks : tRan[x] \in [0..(n - 1) -> {0, 1}]
      BY <2>3 DEF RunCounts
    <3>4. tRan'[x][b] \in {0, 1} /\ tRan'[x][b] = tRan[x][b] + 1 /\ tRan[x][b] \in {0, 1}
      BY <2>3, <2>5, <3>2, <3>3 DEF RunCounts
    <3>5. tRan[x][b] = 0
      BY <3>4
    <3>6. tRan'[x] = [c \in DOMAIN tRan[x] |-> IF c \in {b} THEN 1 ELSE tRan[x][c]]
      BY <2>5, <3>2, <3>3, <3>5
    <3>7. {b} \in SUBSET DOMAIN tRan[x] /\ \A c \in {b} : tRan[x][c] = 0
      BY <2>5, <3>5
    <3> QED BY <2>1, <2>2, <2>4, <3>2, <3>6, <3>7
  <2>6. CASE b \notin DOMAIN tRan[x]
    <3>1. PICK n \in 0..MaxBlocks : tRan[x] \in [0..(n - 1) -> {0, 1}]
      BY <2>3 DEF RunCounts
    <3>2. tRan' = tRan /\ tRan'[x] = [c \in DOMAIN tRan[x] |-> IF c \in {} THEN 1 ELSE tRan[x][c]]
      BY <2>2, <2>6, <3>1
    <3>3. \A y \in Callers : tRan'[y] = tRan[y]
      BY <3>2
    <3>4. PICK S \in SUBSET DOMAIN tRan[x] : S = {}
      OBVIOUS
    <3>5. /\ tRan'[x] = [c \in DOMAIN tRan[x] |-> IF c \in S THEN 1 ELSE tRan[x][c]]
          /\ \A c \in S : tRan[x][c] = 0
      BY <3>2, <3>4
    <3> QED BY <2>1, <2>2, <2>4, <3>3, <3>5
  <2> QED BY <2>5, <2>6
<1> QED BY <1>1, <1>2, <1>3 DEF TP!WorkerStep

\* In the parallel pool: some threads of the chunk, or none.
LEMMA ParallelPoolRuns ==
  ASSUME PInv, PInv', NEW w \in Workers, PP!WorkerStep(w)
  PROVE  /\ \A x \in Callers : BusyP(x)' <=> BusyP(x)
         /\ \/ UNCHANGED <<pRan, pFailed>>
            \/ \E x \in Callers : \E S \in SUBSET DOMAIN pRan[x] :
                 /\ BusyP(x)
                 /\ \A t \in S : pRan[x][t] = 0
                 /\ pRan'[x] = [t \in DOMAIN pRan[x] |-> IF t \in S THEN 1 ELSE pRan[x][t]]
                 /\ \A y \in Callers : y # x => pRan'[y] = pRan[y]
                 /\ pFailed' \in {pFailed, [pFailed EXCEPT ![x] = TRUE]}
<1>1. CASE PP!Park(w) \/ PP!SeeGeneration(w) \/ PP!Load(w) \/ PP!Claim(w)
  BY <1>1 DEF PP!Park, PP!SeeGeneration, PP!Load, PP!Claim, PP!launcherVars, PP!historyVars, BusyP
<1>2. CASE PP!Report(w)
  BY <1>2 DEF PP!Report, PP!historyVars, PP!Woken, BusyP, PInv, PTyped
<1>3. CASE PP!Work(w)
  <2>1. PICK x \in Callers : InForceP(x) /\ BusyP(x) /\ Staged(x)
    BY <1>3, AtWork DEF PP!Work
  <2>2. pFn[w].by = x
    BY <1>3, <2>1 DEF PInv, InStep, Staged, InForceP, PP!Work
  <2> DEFINE RanOf(T) == [t \in DOMAIN pRan[x] |-> IF t \in T THEN pRan[x][t] + 1 ELSE pRan[x][t]]
  <2>3. PICK T : /\ pRan' = [pRan EXCEPT ![x] = RanOf(T)]
                 /\ pFailed' \in {pFailed, [pFailed EXCEPT ![x] = TRUE]}
    <3>1. pRan = [y \in Callers |-> pRan[y]]
      BY DEF PInv, PTyped
    <3>2. \A T : [pRan EXCEPT ![x] = [t \in DOMAIN @ |-> IF t \in T THEN @[t] + 1 ELSE @[t]]]
                   = [pRan EXCEPT ![x] = RanOf(T)]
      BY <3>1
    <3>3. \/ /\ pRan' = [pRan EXCEPT ![x] = RanOf(PP!Claimed(w))]
             /\ pFailed' = pFailed
          \/ \E t \in PP!Claimed(w) :
               /\ pRan' = [pRan EXCEPT ![x] = RanOf(pStart[w]..t)]
               /\ pFailed' = [pFailed EXCEPT ![x] = TRUE]
      BY <1>3, <2>2, <3>2 DEF PP!Work
    <3> HIDE DEF RanOf
    <3> QED BY <3>3
  <2>4. /\ pRan[x] \in RunCounts(MaxThreads) /\ pRan'[x] \in RunCounts(MaxThreads)
        /\ pRan'[x] = RanOf(T) /\ \A y \in Callers : y # x => pRan'[y] = pRan[y]
    BY <2>3 DEF PInv, PTyped
  <2>5. \A y \in Callers : BusyP(y)' <=> BusyP(y)
    BY <1>3 DEF PP!Work, PP!launcherVars, BusyP
  <2> DEFINE S == {t \in DOMAIN pRan[x] : t \in T}
  <2>6. PICK n \in 0..MaxThreads : pRan[x] \in [0..(n - 1) -> {0, 1}]
    BY <2>4 DEF RunCounts
  <2>7. \A t \in S : pRan[x][t] = 0
    <3> TAKE t \in S
    <3>1. pRan'[x][t] = pRan[x][t] + 1 /\ t \in DOMAIN pRan'[x]
      BY <2>4
    <3>2. pRan'[x][t] \in {0, 1} /\ pRan[x][t] \in {0, 1}
      <4>1. MaxThreads \in Nat
        BY ConstantsTyped
      <4> QED BY <2>4, <3>1, <4>1, RunCountsTyped
    <3> QED BY <3>1, <3>2
  <2>8. pRan'[x] = [t \in DOMAIN pRan[x] |-> IF t \in S THEN 1 ELSE pRan[x][t]]
    BY <2>4, <2>7
  <2> HIDE DEF S, RanOf
  <2>9. S \in SUBSET DOMAIN pRan[x]
    BY DEF S
  <2> QED BY <2>1, <2>3, <2>4, <2>5, <2>7, <2>8, <2>9
<1> QED BY <1>1, <1>2, <1>3 DEF PP!WorkerStep

\* A launch is begun in one pool, and both were free.
LEMMA Launched ==
  ASSUME OneAtATime, TInv, PInv, CallsInv, NEW x \in Callers, NEW k \in Launches,
         RunThreadpool(x, k)
  PROVE  /\ \A y \in Callers : /\ ~BusyT(y) /\ ~BusyP(y) /\ PoolsApart(y)'
                               /\ y # x => ~BusyT(y)' /\ ~BusyP(y)'
                               /\ y # x => Ran(y)' = Ran(y)
                               /\ ~Raising(y) /\ ~Raising(y)'
         /\ \E n \in Grids \cup Ranges : Ran(x)' = [i \in 0..(n - 1) |-> 0]
<1>1. \A y \in Callers : /\ ~BusyT(y) /\ ~BusyP(y) /\ ~tFailed[y] /\ ~pFailed[y]
                         /\ tRan[y] = TP!NoBlocks /\ pRan[y] = PP!NoThreads
  BY DEF RunThreadpool, MayCall, BusyT, BusyP, CallsInv, PoolsApart
<1>2. \A y \in Callers : ~Raising(y) /\ Ran(y) = PP!NoThreads
  BY <1>1 DEF Raising, Ran, BusyT
<1>3. ASSUME NEW n \in Grids, TP!RunKernel(x, k, n), UNCHANGED parallelVars
      PROVE  /\ \A y \in Callers : /\ PoolsApart(y)'
                                   /\ y # x => ~BusyT(y)' /\ ~BusyP(y)'
                                   /\ y # x => Ran(y)' = Ran(y)
                                   /\ ~Raising(y)'
             /\ Ran(x)' = [i \in 0..(n - 1) |-> 0]
  <2>1. /\ tLauncher'[x] # "idle" /\ \A y \in Callers : y # x => tLauncher'[y] = tLauncher[y]
        /\ tRan'[x] = [i \in 0..(n - 1) |-> 0]
        /\ \A y \in Callers : y # x => tRan'[y] = tRan[y]
        /\ \A y \in Callers : ~tFailed'[y]
    <3>1. tLauncher' = [tLauncher EXCEPT ![x] = "loop"] \/ tLauncher' = [tLauncher EXCEPT ![x] = "parked"]
      BY <1>3 DEF TP!RunKernel
    <3>2. tRan' = [tRan EXCEPT ![x] = [b \in 0..(n - 1) |-> 0]]
      BY <1>3, Zenon DEF TP!RunKernel
    <3>3. tFailed' = [tFailed EXCEPT ![x] = FALSE]
      BY <1>3 DEF TP!RunKernel
    <3>4. tLauncher'[x] # "idle" /\ \A y \in Callers : y # x => tLauncher'[y] = tLauncher[y]
      BY <3>1 DEF TInv, TTyped
    <3>5. tRan'[x] = [i \in 0..(n - 1) |-> 0] /\ \A y \in Callers : y # x => tRan'[y] = tRan[y]
      BY <3>2 DEF TInv, TTyped
    <3>6. \A y \in Callers : ~tFailed'[y]
      BY <1>1, <3>3 DEF TInv, TTyped
    <3> QED BY <3>4, <3>5, <3>6
  <2>2. UNCHANGED <<pLauncher, pRan, pFailed>>
    BY <1>3 DEF parallelVars
  <2>3. \A y \in Callers : PoolsApart(y)'
    BY <1>1, <2>1, <2>2 DEF PoolsApart, BusyT, BusyP
  <2>4. \A y \in Callers : ~Raising(y)'
    BY <1>1, <2>1, <2>2 DEF Raising
  <2>5. Ran(x)' = [i \in 0..(n - 1) |-> 0] /\ \A y \in Callers : y # x => Ran(y)' = Ran(y)
    BY <2>1, <2>2 DEF Ran
  <2>6. \A y \in Callers : y # x => ~BusyT(y)' /\ ~BusyP(y)'
    BY <1>1, <2>1, <2>2 DEF BusyT, BusyP
  <2> QED BY <2>3, <2>4, <2>5, <2>6
<1>4. ASSUME NEW n \in Ranges, PP!Begin(x, k, n), UNCHANGED threadVars
      PROVE  /\ \A y \in Callers : /\ PoolsApart(y)'
                                   /\ y # x => ~BusyT(y)' /\ ~BusyP(y)'
                                   /\ y # x => Ran(y)' = Ran(y)
                                   /\ ~Raising(y)'
             /\ Ran(x)' = [i \in 0..(n - 1) |-> 0]
  <2>1. /\ n # 0 => pLauncher'[x] # "idle"
        /\ \A y \in Callers : y # x => pLauncher'[y] = pLauncher[y]
        /\ pRan'[x] = [i \in 0..(n - 1) |-> 0]
        /\ \A y \in Callers : y # x => pRan'[y] = pRan[y]
        /\ \A y \in Callers : ~pFailed'[y]
    <3>1. IF n = 0 THEN pLauncher' = pLauncher
          ELSE pLauncher' = [pLauncher EXCEPT ![x] = "setCounter"]
      BY <1>4 DEF PP!Begin, PP!Goto
    <3>2. pRan' = [pRan EXCEPT ![x] = [b \in 0..(n - 1) |-> 0]]
      BY <1>4, Zenon DEF PP!Begin
    <3>3. pFailed' = [pFailed EXCEPT ![x] = FALSE]
      BY <1>4 DEF PP!Begin
    <3>4. /\ n # 0 => pLauncher'[x] # "idle"
          /\ \A y \in Callers : y # x => pLauncher'[y] = pLauncher[y]
      BY <3>1 DEF PInv, PTyped
    <3>5. pRan'[x] = [i \in 0..(n - 1) |-> 0] /\ \A y \in Callers : y # x => pRan'[y] = pRan[y]
      BY <3>2 DEF PInv, PTyped
    <3>6. \A y \in Callers : ~pFailed'[y]
      BY <1>1, <3>3 DEF PInv, PTyped
    <3> QED BY <3>4, <3>5, <3>6
  <2>2. UNCHANGED <<tLauncher, tRan, tFailed>>
    BY <1>4 DEF threadVars
  <2>3. n = 0 => pRan'[x] = PP!NoThreads
    BY <2>1 DEF PP!NoThreads
  <2>4. \A y \in Callers : PoolsApart(y)'
    BY <1>1, <2>1, <2>2, <2>3 DEF PoolsApart, BusyT, BusyP
  <2>5. \A y \in Callers : ~Raising(y)'
    BY <1>1, <2>1, <2>2 DEF Raising
  <2>6. Ran(x)' = [i \in 0..(n - 1) |-> 0] /\ \A y \in Callers : y # x => Ran(y)' = Ran(y)
    BY <1>1, <2>1, <2>2 DEF Ran, BusyT
  <2>7. \A y \in Callers : y # x => ~BusyT(y)' /\ ~BusyP(y)'
    BY <1>1, <2>1, <2>2 DEF BusyT, BusyP
  <2> QED BY <2>4, <2>5, <2>6, <2>7
<1>5. \/ (\E n \in Grids : TP!RunKernel(x, k, n)) /\ UNCHANGED parallelVars
      \/ (\E n \in Ranges : PP!Begin(x, k, n)) /\ UNCHANGED threadVars
  BY DEF RunThreadpool
<1> QED BY <1>1, <1>2, <1>3, <1>4, <1>5

\* A call that ends leaves its pool: it returns when all of its grid ran, and raises when
\* some of it did.
LEMMA Left ==
  ASSUME TInv, PInv, CallsInv, NEW x \in Callers, NEW result \in {"returned", "raised"},
         Ends(x, result)
  PROVE  /\ \A y \in Callers : /\ PoolsApart(y)'
                               /\ BusyT(y)' => BusyT(y) /\ y # x
                               /\ BusyP(y)' => BusyP(y) /\ y # x
                               /\ y # x => Ran(y)' = Ran(y) /\ (Raising(y)' <=> Raising(y))
         /\ Ran(x)' = PP!NoThreads
         /\ result = "raised" <=> Raising(x)
         /\ result = "returned" => \A i \in DOMAIN Ran(x) : Ran(x)[i] = 1
<1>1. \A y \in Callers : PoolsApart(y)
  BY DEF CallsInv
<1>2. CASE TP!Finish(x) /\ tOutcome'[x] = result /\ UNCHANGED parallelVars
  <2>1. /\ tLauncher' = [tLauncher EXCEPT ![x] = "idle"]
        /\ tRan' = [tRan EXCEPT ![x] = TP!NoBlocks]
        /\ tFailed' = [tFailed EXCEPT ![x] = FALSE]
        /\ BusyT(x) /\ UNCHANGED <<pLauncher, pRan, pFailed>>
    BY <1>2 DEF TP!Finish, BusyT, parallelVars
  <2>2. /\ tLauncher'[x] = "idle" /\ tRan'[x] = TP!NoBlocks
        /\ \A y \in Callers : y # x => tLauncher'[y] = tLauncher[y] /\ tRan'[y] = tRan[y]
    BY <2>1 DEF TInv, TTyped
  <2>3. ~tFailed'[x] /\ \A y \in Callers : y # x => tFailed'[y] = tFailed[y]
    BY <2>1 DEF TInv, TTyped
  <2>4. ~BusyP(x) /\ ~pFailed[x] /\ pRan[x] = PP!NoThreads
    BY <1>1, <2>1 DEF PoolsApart
  <2>5. /\ result = "raised" <=> tFailed[x]
        /\ result = "returned" => \A b \in DOMAIN tRan[x] : tRan[x][b] = 1
    BY <1>2, TFinish
  <2>6. Ran(x) = tRan[x] /\ Ran(x)' = PP!NoThreads /\ \A y \in Callers : y # x => Ran(y)' = Ran(y)
    BY <2>1, <2>2, <2>4 DEF Ran, BusyT
  <2>7. \A y \in Callers : PoolsApart(y)'
    BY <1>1, <2>1, <2>2, <2>3, <2>4 DEF PoolsApart, BusyT, BusyP
  <2>8. (Raising(x) <=> tFailed[x]) /\ \A y \in Callers : y # x => (Raising(y)' <=> Raising(y))
    BY <2>1, <2>3, <2>4 DEF Raising
  <2>9. \A y \in Callers : (BusyT(y)' => BusyT(y) /\ y # x) /\ (BusyP(y)' => BusyP(y) /\ y # x)
    BY <2>1, <2>2, <2>4 DEF BusyT, BusyP
  <2> QED BY <2>5, <2>6, <2>7, <2>8, <2>9
<1>3. CASE PP!Finish(x) /\ pOutcome'[x] = result /\ UNCHANGED threadVars
  <2>1. /\ pLauncher' = [pLauncher EXCEPT ![x] = "idle"]
        /\ pRan' = [pRan EXCEPT ![x] = PP!NoThreads]
        /\ pFailed' = [pFailed EXCEPT ![x] = FALSE]
        /\ BusyP(x) /\ UNCHANGED <<tLauncher, tRan, tFailed>>
    BY <1>3 DEF PP!Finish, PP!Goto, BusyP, threadVars
  <2>2. /\ pLauncher'[x] = "idle" /\ pRan'[x] = PP!NoThreads
        /\ \A y \in Callers : y # x => pLauncher'[y] = pLauncher[y] /\ pRan'[y] = pRan[y]
    BY <2>1 DEF PInv, PTyped
  <2>3. ~pFailed'[x] /\ \A y \in Callers : y # x => pFailed'[y] = pFailed[y]
    BY <2>1 DEF PInv, PTyped
  <2>4. ~BusyT(x) /\ ~tFailed[x] /\ tRan[x] = TP!NoBlocks
    BY <1>1, <2>1 DEF PoolsApart
  <2>5. /\ result = "raised" <=> pFailed[x]
        /\ result = "returned" => \A b \in DOMAIN pRan[x] : pRan[x][b] = 1
    BY <1>3, PFinish
  <2>6. Ran(x) = pRan[x] /\ Ran(x)' = PP!NoThreads /\ \A y \in Callers : y # x => Ran(y)' = Ran(y)
    BY <2>1, <2>2, <2>4 DEF Ran, BusyT
  <2>7. \A y \in Callers : PoolsApart(y)'
    BY <1>1, <2>1, <2>2, <2>3, <2>4 DEF PoolsApart, BusyT, BusyP
  <2>8. (Raising(x) <=> pFailed[x]) /\ \A y \in Callers : y # x => (Raising(y)' <=> Raising(y))
    BY <2>1, <2>3, <2>4 DEF Raising
  <2>9. \A y \in Callers : (BusyT(y)' => BusyT(y) /\ y # x) /\ (BusyP(y)' => BusyP(y) /\ y # x)
    BY <2>1, <2>2, <2>4 DEF BusyT, BusyP
  <2> QED BY <2>5, <2>6, <2>7, <2>8, <2>9
<1>4. CASE ReturnsAtOnce(x) /\ result = "returned"
  <2>1. /\ UNCHANGED <<tLauncher, tRan, tFailed, pLauncher, pRan, pFailed>>
        /\ ~BusyT(x) /\ ~BusyP(x)
    BY <1>4 DEF ReturnsAtOnce, threadVars, parallelVars, BusyT, BusyP
  <2>2. \A y \in Callers : /\ PoolsApart(y)' /\ Ran(y)' = Ran(y) /\ (Raising(y)' <=> Raising(y))
                           /\ (BusyT(y)' <=> BusyT(y)) /\ (BusyP(y)' <=> BusyP(y))
    BY <1>1, <2>1 DEF PoolsApart, Ran, Raising, BusyT, BusyP
  <2>3. Ran(x) = PP!NoThreads /\ ~Raising(x)
    BY <1>1, <2>1 DEF PoolsApart, Ran, Raising, BusyT
  <2>4. \A i \in DOMAIN Ran(x) : Ran(x)[i] = 1
    BY <2>3 DEF PP!NoThreads
  <2> QED BY <1>4, <2>1, <2>2, <2>3, <2>4
<1> QED BY <1>2, <1>3, <1>4 DEF Ends

-----------------------------------------------------------------------------
(* Every step of the runtime is one of the service, or none *)

ServiceStep == Service!Next \/ UNCHANGED Service!vars

\* Steps of the queues and of flushes, which the pools and calls do not notice.
LEMMA QueuesOnly ==
  ASSUME CallsInv, UNCHANGED <<callVars, threadVars, parallelVars>>,
         \A q \in Queues : /\ dispatcher'[q] = "running" <=> dispatcher[q] = "running"
                           /\ dispatcher'[q] = "dead" <=> dispatcher[q] = "dead",
         \A c \in Clients : calling[c] => client'[c] = client[c]
  PROVE  /\ CallsInv'
         /\ \A x \in Callers : Ran(x)' = Ran(x)
         /\ \A q \in Queues : At(q)' = At(q)
         /\ \A c \in Clients : At(c)' = IF client'[c] = client[c] THEN At(c)
                                        ELSE IF client'[c] = "idle" THEN "free" ELSE "flushing"
<1>1. /\ UNCHANGED <<direct, calling, tLauncher, tRan, tFailed, pLauncher, pRan, pFailed>>
  BY DEF callVars, threadVars, parallelVars
<1>2. \A x \in Callers : /\ Ran(x)' = Ran(x) /\ (Raising(x)' <=> Raising(x))
                         /\ (BusyT(x)' <=> BusyT(x)) /\ (BusyP(x)' <=> BusyP(x))
  BY <1>1 DEF Ran, Raising, BusyT, BusyP
<1>3. \A x \in Callers : InCall(x)' <=> InCall(x)
  BY <1>1 DEF InCall, Callers
<1>4. ASSUME NEW x \in Callers PROVE PoolsApart(x)' /\ InStepWithCalls(x)'
  <2>1. PoolsApart(x) /\ InStepWithCalls(x)
    BY DEF CallsInv
  <2>2. PoolsApart(x)'
    BY <1>1, <2>1 DEF PoolsApart, BusyT, BusyP
  <2>3. InStepWithCalls(x)'
    BY <1>1, <1>2, <1>3, <2>1 DEF InStepWithCalls
  <2> QED BY <2>2, <2>3
<1>5. CallsInv'
  BY <1>1, <1>4 DEF CallsInv, CallsTyped
<1>6. \A q \in Queues : At(q)' = At(q)
  BY <1>2, <1>3, CallersAssumption DEF At, BetweenCalls, Callers
<1>7. \A c \in Clients : At(c)' = IF client'[c] = client[c] THEN At(c)
                                  ELSE IF client'[c] = "idle" THEN "free" ELSE "flushing"
  BY <1>1, <1>2, <1>3 DEF At, InCall, BetweenCalls, Callers
<1> QED BY <1>2, <1>5, <1>6, <1>7

LEMMA EnqueueServes ==
  ASSUME QueuesInv, CallsInv, NEW c \in Clients, NEW q \in Queues, NEW k \in Launches,
         Enqueue(c, q, k)
  PROVE  CallsInv' /\ ServiceStep
<1>1. /\ LQ!Enqueue(c, q, k) /\ ~calling[c] /\ UNCHANGED <<callVars, threadVars, parallelVars>>
      /\ UNCHANGED <<client, flushing, owed, completed>> /\ client[c] = "idle"
      /\ queue' = [queue EXCEPT ![q] = Append(queue[q], k)]
      /\ enqueued' = [enqueued EXCEPT ![q] = Append(@, k)]
  BY DEF Enqueue, LQ!Enqueue, LQ!QueuedLast, LQ!clientVars
<1>2. \A p \in Queues : \/ dispatcher'[p] = dispatcher[p]
                        \/ dispatcher[p] \in {"unborn", "parked"} /\ dispatcher'[p] = "loop"
  BY DEF Enqueue, LQ!Enqueue, QueuesInv, LQ!TypeOK
<1>3. /\ CallsInv' /\ \A x \in Callers : Ran(x)' = Ran(x)
      /\ \A x \in Callers : At(x)' = At(x)
  BY <1>1, <1>2, QueuesOnly DEF Callers
<1>4. ASSUME NEW p \in Queues PROVE Called(p)' = Called(p)
  <2>1. queue[p] \in Seq(Launches) /\ enqueued[p] \in Seq(Launches)
    BY DEF QueuesInv, LQ!TypeOK
  <2>2. \/ queue'[p] = queue[p] /\ enqueued'[p] = enqueued[p]
        \/ queue'[p] = Append(queue[p], k) /\ enqueued'[p] = Append(enqueued[p], k)
    BY <1>1 DEF QueuesInv, LQ!TypeOK
  <2>3. Len(enqueued'[p]) - Len(queue'[p]) = Len(enqueued[p]) - Len(queue[p])
    <3>1. Len(queue[p]) \in Nat /\ Len(enqueued[p]) \in Nat
      BY <2>1
    <3>2. CASE queue'[p] = Append(queue[p], k) /\ enqueued'[p] = Append(enqueued[p], k)
      <4>1. Len(queue'[p]) = Len(queue[p]) + 1 /\ Len(enqueued'[p]) = Len(enqueued[p]) + 1
        BY <2>1, <3>2
      <4> QED BY <3>1, <4>1
    <3> QED BY <2>2, <3>2
  <2>4. dispatcher'[p] = "popped" <=> dispatcher[p] = "popped"
    BY <1>2
  <2> QED BY <2>3, <2>4 DEF Called
<1>5. [y \in Callers |-> At(y)][c] = "free"
  BY <1>1, Seen DEF Callers
<1>6. \A p \in Queues : k \notin Service!ToSet(enqueued[p])
  BY <1>1 DEF LQ!Enqueue, LQ!Enqueued, LQ!ToSet, Service!ToSet
<1>7. /\ [p \in Queues |-> Called(p)'] = [p \in Queues |-> Called(p)]
      /\ [y \in Callers |-> At(y)'] = [y \in Callers |-> At(y)]
      /\ [y \in Callers |-> Ran(y)'] = [y \in Callers |-> Ran(y)]
  BY <1>3, <1>4
<1>8. Service!Enqueue(c, q, k)
  BY <1>1, <1>5, <1>6, <1>7 DEF Service!Enqueue
<1> QED BY <1>3, <1>8 DEF ServiceStep, Service!Next

LEMMA FlushServes ==
  ASSUME QueuesInv, CallsInv, NEW c \in Clients, Flush(c)
  PROVE  CallsInv' /\ ServiceStep
<1>1. PICK qs \in LQ!Flushable : LQ!Flush(c, qs)
  BY DEF Flush
<1>2. /\ ~calling[c] /\ client[c] = "idle" /\ UNCHANGED <<callVars, threadVars, parallelVars>>
      /\ UNCHANGED <<queue, pending, dispatcher, executing, enqueued, completed>>
      /\ client'[c] = "loop" /\ \A d \in Clients : d # c => client'[d] = client[d]
      /\ owed' = [owed EXCEPT ![c] = UNION {LQ!ToSet(enqueued[q]) : q \in LQ!ToSet(qs)}]
  BY <1>1 DEF Flush, LQ!Flush, LQ!queueVars, QueuesInv, LQ!TypeOK
<1>3. /\ CallsInv' /\ \A x \in Callers : Ran(x)' = Ran(x)
      /\ At(c)' = "flushing" /\ \A x \in Callers : x # c => At(x)' = At(x)
  BY <1>2, QueuesOnly DEF Callers
<1>4. \A q \in Queues : Called(q)' = Called(q)
  BY <1>2 DEF Called
<1>5. [y \in Callers |-> At(y)][c] = "free"
  BY <1>2, Seen DEF Callers
<1>6. /\ [q \in Queues |-> Called(q)'] = [q \in Queues |-> Called(q)]
      /\ [y \in Callers |-> At(y)'] = [[y \in Callers |-> At(y)] EXCEPT ![c] = "flushing"]
      /\ [y \in Callers |-> Ran(y)'] = [y \in Callers |-> Ran(y)]
  BY <1>3, <1>4
<1>7. PICK Q \in SUBSET Queues : Q = LQ!ToSet(qs)
  <2>1. qs \in Seq(Queues)
    BY FlushableTyped
  <2>2. LQ!ToSet(qs) \in SUBSET Queues
    BY <2>1 DEF LQ!ToSet
  <2> QED BY <2>2
<1>8. owed' = [owed EXCEPT ![c] = UNION {Service!ToSet(enqueued[q]) : q \in Q}]
  BY <1>2, <1>7 DEF LQ!ToSet, Service!ToSet
<1>9. Service!Flush(c, Q)
  BY <1>2, <1>5, <1>6, <1>8 DEF Service!Flush, Service!Goes
<1> QED BY <1>3, <1>9 DEF ServiceStep, Service!Next

\* A flush parks, goes on to its next queue, or returns: what it owed is complete.
LEMMA FlushStepServes ==
  ASSUME QueuesInv, CallsInv, NEW c \in Clients, FlushStep(c)
  PROVE  CallsInv' /\ ServiceStep
<1>1. /\ UNCHANGED <<callVars, threadVars, parallelVars>>
      /\ UNCHANGED <<queue, pending, dispatcher, executing, enqueued, completed, owed>>
      /\ client[c] = "loop" /\ client'[c] \in {"idle", "loop", "parked"}
      /\ \A d \in Clients : d # c => client'[d] = client[d]
      /\ client'[c] = "idle" => LQ!FlushNext(c)
  BY DEF FlushStep, LQ!ClientStep, LQ!FlushParks, LQ!FlushNext, LQ!queueVars, QueuesInv, LQ!TypeOK
<1>2. c \in Callers /\ ~calling[c]
  BY <1>1 DEF CallsInv, InStepWithCalls, Callers
<1>3. /\ CallsInv' /\ \A x \in Callers : Ran(x)' = Ran(x)
      /\ At(c)' = (IF client'[c] = "idle" THEN "free" ELSE "flushing")
      /\ \A x \in Callers : x # c => At(x)' = At(x)
  <2>1. At(c) = "flushing"
    BY <1>1, <1>2, Seen
  <2> QED BY <1>1, <1>2, <2>1, QueuesOnly DEF Callers
<1>4. \A q \in Queues : Called(q)' = Called(q)
  BY <1>1 DEF Called
<1>5. At(c) = "flushing"
  BY <1>1, <1>2, Seen
<1>6. CASE client'[c] # "idle"
  <2>1. \A x \in Callers : At(x)' = At(x)
    BY <1>3, <1>5, <1>6
  <2> QED BY <1>1, <1>3, <1>4, <2>1, Unseen DEF ServiceStep
<1>7. CASE client'[c] = "idle"
  <2>1. QueuesInv'
    BY <1>1, <1>7, FlushNextInv
  <2>2. owed[c] \subseteq completed
    <3>1. LQ!ToSet(flushing'[c]) = {}
      BY <1>7, <2>1 DEF QueuesInv, FlushKept, LQ!ToSet
    <3> QED BY <1>1, <2>1, <3>1 DEF QueuesInv, FlushKept, StillOwed
  <2>3. /\ [q \in Queues |-> Called(q)'] = [q \in Queues |-> Called(q)]
        /\ [y \in Callers |-> At(y)'] = [[y \in Callers |-> At(y)] EXCEPT ![c] = "free"]
        /\ [y \in Callers |-> Ran(y)'] = [y \in Callers |-> Ran(y)]
    BY <1>3, <1>4, <1>7
  <2>4. [y \in Callers |-> At(y)][c] = "flushing"
    BY <1>2, <1>5
  <2>5. Service!FlushReturns(c)
    BY <1>1, <2>2, <2>3, <2>4 DEF Service!FlushReturns, Service!Goes
  <2> QED BY <1>3, <2>5 DEF ServiceStep, Service!Next
<1> QED BY <1>6, <1>7

\* What a dispatcher does between its calls is its own affair.
LEMMA DispatchServes ==
  ASSUME QueuesInv, CallsInv, NEW q \in Queues, Dispatch(q)
  PROVE  CallsInv' /\ ServiceStep
<1>1. /\ UNCHANGED <<callVars, threadVars, parallelVars>>
      /\ UNCHANGED <<enqueued, completed, owed>>
      /\ \A p \in Queues : p # q => dispatcher'[p] = dispatcher[p] /\ queue'[p] = queue[p]
      /\ \A c \in Clients : client'[c] # client[c] => client[c] = "parked" /\ client'[c] = "loop"
      /\ dispatcher[q] \in {"loop", "marking"} /\ dispatcher'[q] \in {"loop", "parked", "popped"}
      /\ \/ queue'[q] = queue[q] /\ dispatcher'[q] # "popped"
         \/ queue[q] # <<>> /\ queue'[q] = Tail(queue[q]) /\ dispatcher'[q] = "popped"
  <2>1. CASE LQ!Park(q)
    BY <2>1 DEF Dispatch, LQ!Park, LQ!clientVars, QueuesInv, LQ!TypeOK
  <2>2. CASE LQ!Pop(q)
    BY <2>2 DEF Dispatch, LQ!Pop, LQ!clientVars, QueuesInv, LQ!TypeOK
  <2>3. CASE LQ!Mark(q)
    BY <2>3 DEF Dispatch, LQ!Mark, LQ!BroadcastDone, QueuesInv, LQ!TypeOK
  <2> QED BY <2>1, <2>2, <2>3 DEF Dispatch
<1>2. \A c \in Clients : calling[c] => client'[c] = client[c]
  BY <1>1 DEF CallsInv, InStepWithCalls, Callers
<1>3. /\ CallsInv' /\ \A x \in Callers : Ran(x)' = Ran(x)
      /\ \A p \in Queues : At(p)' = At(p)
      /\ \A c \in Clients : At(c)' = IF client'[c] = client[c] THEN At(c)
                                     ELSE IF client'[c] = "idle" THEN "free" ELSE "flushing"
  BY <1>1, <1>2, QueuesOnly
<1>4. \A c \in Clients : At(c)' = At(c)
  <2> TAKE c \in Clients
  <2>1. CASE client'[c] = client[c]
    BY <1>3, <2>1
  <2>2. CASE client'[c] # client[c]
    <3>1. client[c] = "parked" /\ client'[c] = "loop" /\ ~calling[c]
      BY <1>1, <1>2, <2>2
    <3> QED BY <1>3, <3>1, Seen
  <2> QED BY <2>1, <2>2
<1>5. ASSUME NEW p \in Queues PROVE Called(p)' = Called(p)
  <2>1. CASE p # q
    BY <1>1, <2>1 DEF Called
  <2>2. CASE p = q
    <3>1. queue[q] \in Seq(Launches) /\ enqueued[q] \in Seq(Launches)
      BY DEF QueuesInv, LQ!TypeOK
    <3>2. Len(enqueued[q]) \in Nat /\ Len(queue[q]) \in Nat
      BY <3>1
    <3>3. queue[q] # <<>> => Len(Tail(queue[q])) = Len(queue[q]) - 1
      BY <3>1
    <3>4. Called(q) = Len(enqueued[q]) - Len(queue[q])
      BY <1>1 DEF Called
    <3>5. CASE queue'[q] = queue[q] /\ dispatcher'[q] # "popped"
      BY <1>1, <3>4, <3>5 DEF Called
    <3>6. CASE /\ queue[q] # <<>> /\ queue'[q] = Tail(queue[q]) /\ dispatcher'[q] = "popped"
      <4>1. Called(q)' = Len(enqueued[q]) - Len(queue'[q]) - 1
        BY <1>1, <3>6 DEF Called
      <4>2. Len(queue'[q]) = Len(queue[q]) - 1
        BY <3>3, <3>6
      <4> QED BY <2>2, <3>2, <3>4, <4>1, <4>2
    <3> QED BY <1>1, <2>2, <3>5, <3>6
  <2> QED BY <2>1, <2>2
<1> QED BY <1>1, <1>3, <1>4, <1>5, Unseen DEF ServiceStep, Callers

\* A client calls a kernel itself.
LEMMA CallDirectlyServes ==
  ASSUME OneAtATime, TInv, PInv, CallsInv, NEW c \in Clients, NEW k \in Launches,
         CallDirectly(c, k), CallsTyped'
  PROVE  CallsInv' /\ ServiceStep
<1>1. /\ ~calling[c] /\ client[c] = "idle" /\ RunThreadpool(c, k) /\ UNCHANGED queueVars
      /\ calling' = [calling EXCEPT ![c] = TRUE] /\ c \in Callers
  BY DEF CallDirectly, Callers
<1>2. UNCHANGED <<queue, dispatcher, client, enqueued, completed, owed>>
  BY <1>1 DEF queueVars
<1>3. calling'[c] = TRUE /\ \A d \in Clients : d # c => calling'[d] = calling[d]
  BY <1>1 DEF CallsInv, CallsTyped
<1>4. /\ \A y \in Callers : /\ ~BusyT(y) /\ ~BusyP(y) /\ PoolsApart(y)'
                            /\ y # c => ~BusyT(y)' /\ ~BusyP(y)'
                            /\ y # c => Ran(y)' = Ran(y)
                            /\ ~Raising(y) /\ ~Raising(y)'
      /\ \E n \in Grids \cup Ranges : Ran(c)' = [i \in 0..(n - 1) |-> 0]
  BY <1>1, Launched
<1>5. InCall(c)' /\ \A y \in Callers : y # c => (InCall(y)' <=> InCall(y))
  BY <1>2, <1>3 DEF InCall
<1>6. ASSUME NEW y \in Callers PROVE InStepWithCalls(y)'
  <2>1. InStepWithCalls(y)
    BY DEF CallsInv
  <2> QED BY <1>1, <1>2, <1>3, <1>4, <1>5, <2>1 DEF InStepWithCalls
<1>7. CallsInv'
  BY <1>4, <1>6 DEF CallsInv
<1>8. /\ At(c) = "free" /\ At(c)' = "running"
      /\ \A y \in Callers : y # c => At(y)' = At(y)
  BY <1>1, <1>2, <1>4, <1>5 DEF At, BetweenCalls, InCall
<1>9. [q \in Queues |-> Called(q)'] = [q \in Queues |-> Called(q)]
  <2>1. \A q \in Queues : Called(q)' = Called(q)
    BY <1>2 DEF Called
  <2> QED BY <2>1
<1>10. Service!CallDirectly(c)
  BY <1>1, <1>2, <1>4, <1>8, <1>9, BeginsACall DEF Service!CallDirectly
<1> QED BY <1>7, <1>10 DEF ServiceStep, Service!Next

\* A dispatcher calls the kernel it popped, the next of its queue.
LEMMA DispatcherCallServes ==
  ASSUME OneAtATime, QueuesInv, TInv, PInv, CallsInv, NEW q \in Queues, DispatcherCalls(q)
  PROVE  CallsInv' /\ ServiceStep
<1>1. /\ dispatcher[q] = "popped" /\ RunThreadpool(q, executing[q]) /\ UNCHANGED callVars
      /\ dispatcher' = [dispatcher EXCEPT ![q] = "running"]
      /\ UNCHANGED <<queue, client, enqueued, completed, owed>> /\ q \in Callers /\ q \notin Clients
  BY CallersAssumption DEF DispatcherCalls, LQ!Call, LQ!clientVars, Callers
<1>2. dispatcher'[q] = "running" /\ \A p \in Queues : p # q => dispatcher'[p] = dispatcher[p]
  BY <1>1 DEF QueuesInv, LQ!TypeOK
<1>3. QueueKept(q) /\ executing[q] \in Launches
  BY <1>1 DEF QueuesInv, QueueKept, LQ!TypeOK
<1>4. /\ \A y \in Callers : /\ ~BusyT(y) /\ ~BusyP(y) /\ PoolsApart(y)'
                            /\ y # q => ~BusyT(y)' /\ ~BusyP(y)'
                            /\ y # q => Ran(y)' = Ran(y)
                            /\ ~Raising(y) /\ ~Raising(y)'
      /\ \E n \in Grids \cup Ranges : Ran(q)' = [i \in 0..(n - 1) |-> 0]
  BY <1>1, <1>3, Launched
<1>5. UNCHANGED <<direct, calling>>
  BY <1>1 DEF callVars
<1>6. InCall(q)' /\ \A y \in Callers : y # q => (InCall(y)' <=> InCall(y))
  BY <1>1, <1>2, <1>5 DEF InCall, Callers
<1>7. ASSUME NEW y \in Callers PROVE InStepWithCalls(y)'
  <2>1. InStepWithCalls(y)
    BY DEF CallsInv
  <2> QED BY <1>1, <1>4, <1>5, <1>6, <2>1 DEF InStepWithCalls
<1>8. CallsInv'
  BY <1>4, <1>5, <1>7 DEF CallsInv, CallsTyped
<1>9. /\ At(q) = "free" /\ At(q)' = "running"
      /\ \A y \in Callers : y # q => At(y)' = At(y)
  BY <1>1, <1>2, <1>4, <1>5, <1>6 DEF At, BetweenCalls, InCall, Callers
<1>10. Called(q) = Popped(q) - 1 /\ Called(q)' = Popped(q)
  BY <1>1, <1>2 DEF Called, Popped
<1>11. /\ Len(queue[q]) \in Nat /\ Popped(q) \in Nat /\ Len(enqueued[q]) \in Nat
       /\ Popped(q) + Len(queue[q]) = Len(enqueued[q])
  BY <1>3, Counts DEF QueuesInv
<1>12. Called(q) < Len(enqueued[q]) /\ Called(q)' = Called(q) + 1
  BY <1>10, <1>11
<1>13. \A p \in Queues : p # q => Called(p)' = Called(p)
  BY <1>1, <1>2 DEF Called
<1> DEFINE C == [p \in Queues |-> Called(p)]
<1>14. [p \in Queues |-> Called(p)'] = [C EXCEPT ![q] = @ + 1] /\ C[q] < Len(enqueued[q])
  BY <1>12, <1>13
<1>15. Service!Begin(q)
  BY <1>1, <1>4, <1>9, BeginsACall
<1>16. Service!CallNext(q)
  BY <1>14, <1>15 DEF Service!CallNext
<1> QED BY <1>8, <1>16 DEF ServiceStep, Service!Next

\* A client's own call ends.
LEMMA DirectCallEndServes ==
  ASSUME TInv, PInv, CallsInv, NEW c \in Clients, DirectCallEnds(c), CallsTyped'
  PROVE  CallsInv' /\ ServiceStep
<1>1. PICK result \in {"returned", "raised"} : Ends(c, result)
  BY DEF DirectCallEnds
<1>2. /\ calling[c] /\ UNCHANGED queueVars /\ c \in Callers /\ c \notin Queues
      /\ calling' = [calling EXCEPT ![c] = FALSE]
  BY CallersAssumption DEF DirectCallEnds, Callers
<1>3. UNCHANGED <<queue, dispatcher, client, enqueued, completed, owed>>
  BY <1>2 DEF queueVars
<1>4. ~calling'[c] /\ \A d \in Clients : d # c => calling'[d] = calling[d]
  BY <1>2 DEF CallsInv, CallsTyped
<1>5. /\ \A y \in Callers : /\ PoolsApart(y)'
                            /\ BusyT(y)' => BusyT(y) /\ y # c
                            /\ BusyP(y)' => BusyP(y) /\ y # c
                            /\ y # c => Ran(y)' = Ran(y) /\ (Raising(y)' <=> Raising(y))
      /\ Ran(c)' = PP!NoThreads
      /\ result = "raised" <=> Raising(c)
      /\ result = "returned" => \A i \in DOMAIN Ran(c) : Ran(c)[i] = 1
  BY <1>1, <1>2, Left
<1>6. ~InCall(c)' /\ InCall(c) /\ \A y \in Callers : y # c => (InCall(y)' <=> InCall(y))
  BY <1>2, <1>3, <1>4 DEF InCall
<1>7. client[c] = "idle"
  BY <1>2 DEF CallsInv, InStepWithCalls
<1>8. ASSUME NEW y \in Callers PROVE InStepWithCalls(y)'
  <2>1. InStepWithCalls(y)
    BY DEF CallsInv
  <2> QED BY <1>3, <1>4, <1>5, <1>6, <2>1 DEF InStepWithCalls
<1>9. CallsInv'
  BY <1>5, <1>8 DEF CallsInv
<1>10. /\ At(c) = IF Raising(c) THEN "raising" ELSE "running"
       /\ At(c)' = "free"
       /\ \A y \in Callers : y # c => At(y)' = At(y)
  BY <1>2, <1>3, <1>5, <1>6, <1>7 DEF At, BetweenCalls
<1>11. \A q \in Queues : Called(q)' = Called(q)
  BY <1>3 DEF Called
<1>12. Service!Next
  <2>1. CASE result = "returned"
    <3>1. At(c) = "running"
      BY <1>5, <1>10, <2>1
    <3> QED BY <1>2, <1>3, <1>5, <1>10, <1>11, <2>1, <3>1, EndsACall
  <2>2. CASE result = "raised"
    <3>1. At(c) = "raising"
      BY <1>5, <1>10, <2>2
    <3> QED BY <1>2, <1>3, <1>5, <1>10, <1>11, <2>2, <3>1, EndsACall
  <2> QED BY <2>1, <2>2
<1> QED BY <1>9, <1>12 DEF ServiceStep

\* The call of a dispatcher ends: the launch is complete, or the dispatcher dies.
LEMMA DispatcherCallEndServes ==
  ASSUME QueuesInv, TInv, PInv, CallsInv, NEW q \in Queues, DispatcherCallEnds(q)
  PROVE  CallsInv' /\ ServiceStep
<1>1. PICK result \in {"returned", "raised"} :
        /\ Ends(q, result)
        /\ IF result = "returned" THEN LQ!KernelReturns(q) ELSE LQ!KernelRaises(q)
  BY DEF DispatcherCallEnds
<1>2. /\ dispatcher[q] = "running" /\ UNCHANGED callVars /\ q \in Callers /\ q \notin Clients
      /\ UNCHANGED <<queue, client, enqueued, owed>>
      /\ completed' = IF result = "returned" THEN completed \cup {executing[q]} ELSE completed
      /\ dispatcher' = [dispatcher EXCEPT ![q] = IF result = "returned" THEN "marking" ELSE "dead"]
  BY <1>1, CallersAssumption
  DEF DispatcherCallEnds, LQ!KernelReturns, LQ!KernelRaises, LQ!clientVars, Callers
<1>3. UNCHANGED <<direct, calling>>
  BY <1>2 DEF callVars
<1>4. /\ dispatcher'[q] = IF result = "returned" THEN "marking" ELSE "dead"
      /\ \A p \in Queues : p # q => dispatcher'[p] = dispatcher[p]
  BY <1>2 DEF QueuesInv, LQ!TypeOK
<1>5. /\ \A y \in Callers : /\ PoolsApart(y)'
                            /\ BusyT(y)' => BusyT(y) /\ y # q
                            /\ BusyP(y)' => BusyP(y) /\ y # q
                            /\ y # q => Ran(y)' = Ran(y) /\ (Raising(y)' <=> Raising(y))
      /\ Ran(q)' = PP!NoThreads
      /\ result = "raised" <=> Raising(q)
      /\ result = "returned" => \A i \in DOMAIN Ran(q) : Ran(q)[i] = 1
  BY <1>1, <1>2, Left
<1>6. ~InCall(q)' /\ InCall(q) /\ \A y \in Callers : y # q => (InCall(y)' <=> InCall(y))
  BY <1>2, <1>3, <1>4 DEF InCall, Callers
<1>7. ASSUME NEW y \in Callers PROVE InStepWithCalls(y)'
  <2>1. InStepWithCalls(y)
    BY DEF CallsInv
  <2> QED BY <1>2, <1>3, <1>5, <1>6, <2>1 DEF InStepWithCalls
<1>8. CallsInv'
  BY <1>3, <1>5, <1>7 DEF CallsInv, CallsTyped
<1>9. /\ At(q) = IF Raising(q) THEN "raising" ELSE "running"
      /\ At(q)' = IF result = "returned" THEN "free" ELSE "dead"
      /\ \A y \in Callers : y # q => At(y)' = At(y)
  BY <1>2, <1>3, <1>4, <1>5, <1>6 DEF At, BetweenCalls, Callers
<1>10. ASSUME NEW p \in Queues PROVE Called(p)' = Called(p)
  <2>1. dispatcher'[p] = "popped" <=> dispatcher[p] = "popped"
    BY <1>2, <1>4
  <2> QED BY <1>2, <2>1 DEF Called
<1>11. executing[q] = enqueued[q][Called(q)]
  BY <1>2 DEF QueuesInv, QueueKept, Called, Popped
<1>12. Service!Next
  <2>1. CASE result = "returned"
    <3>1. At(q) = "running" /\ At(q)' = "free"
      BY <1>5, <1>9, <2>1
    <3>2. completed' = completed \cup {enqueued[q][Called(q)]}
      BY <1>2, <1>11, <2>1
    <3> QED BY <1>2, <1>5, <1>9, <1>10, <2>1, <3>1, <3>2, EndsACall
  <2>2. CASE result = "raised"
    <3>1. At(q) = "raising" /\ At(q)' = "dead" /\ UNCHANGED completed
      BY <1>2, <1>5, <1>9, <2>2
    <3> QED BY <1>2, <1>5, <1>9, <1>10, <3>1, EndsACall
  <2> QED BY <2>1, <2>2
<1> QED BY <1>8, <1>12 DEF ServiceStep

\* Steps inside the pools: callers stay in the pool and in the call that they are in.
LEMMA PoolsOnly ==
  ASSUME CallsInv, UNCHANGED <<queueVars, callVars>>,
         \A y \in Callers : /\ BusyT(y)' <=> BusyT(y)
                            /\ BusyP(y)' <=> BusyP(y)
                            /\ PoolsApart(y)'
  PROVE  /\ CallsInv'
         /\ UNCHANGED <<enqueued, completed, owed>>
         /\ \A q \in Queues : Called(q)' = Called(q)
         /\ \A y \in Callers : At(y)' = IF ~InCall(y) THEN At(y)
                                        ELSE IF Raising(y)' THEN "raising" ELSE "running"
<1>1. UNCHANGED <<queue, dispatcher, client, enqueued, completed, owed, direct, calling>>
  BY DEF queueVars, callVars
<1>2. \A y \in Callers : InCall(y)' <=> InCall(y)
  BY <1>1 DEF InCall
<1>3. ASSUME NEW y \in Callers PROVE InStepWithCalls(y)'
  <2>1. InStepWithCalls(y)
    BY DEF CallsInv
  <2> QED BY <1>1, <1>2, <2>1 DEF InStepWithCalls
<1>4. CallsInv'
  BY <1>1, <1>3 DEF CallsInv, CallsTyped
<1>5. \A q \in Queues : Called(q)' = Called(q)
  BY <1>1 DEF Called
<1>6. \A y \in Callers : BetweenCalls(y)' = BetweenCalls(y)
  BY <1>1 DEF BetweenCalls
<1>7. ASSUME NEW y \in Callers
      PROVE  At(y)' = IF ~InCall(y) THEN At(y) ELSE IF Raising(y)' THEN "raising" ELSE "running"
  BY <1>2, <1>6 DEF At
<1> QED BY <1>1, <1>4, <1>5, <1>7

\* A step in which nothing runs is not seen.
LEMMA NothingRuns ==
  ASSUME CallsInv, UNCHANGED <<queueVars, callVars, tRan, tFailed, pRan, pFailed>>,
         \A y \in Callers : (BusyT(y)' <=> BusyT(y)) /\ (BusyP(y)' <=> BusyP(y))
  PROVE  CallsInv' /\ ServiceStep
<1>1. \A y \in Callers : PoolsApart(y)' /\ Ran(y)' = Ran(y) /\ (Raising(y)' <=> Raising(y))
  BY DEF CallsInv, PoolsApart, Ran, Raising, BusyT
<1>2. /\ CallsInv' /\ UNCHANGED <<enqueued, completed, owed>>
      /\ \A q \in Queues : Called(q)' = Called(q)
      /\ \A y \in Callers : At(y)' = IF ~InCall(y) THEN At(y)
                                     ELSE IF Raising(y)' THEN "raising" ELSE "running"
  BY <1>1, PoolsOnly
<1>3. \A y \in Callers : At(y)' = At(y)
  BY <1>1, <1>2 DEF At
<1> QED BY <1>1, <1>2, <1>3, Unseen DEF ServiceStep

\* Callers wait, are woken, and store what their launch is.
LEMMA CallerServes ==
  ASSUME TInv, PInv, CallsInv, NEW x \in Callers, CallStep(x) \/ Wakeup(x)
  PROVE  CallsInv' /\ ServiceStep
<1>1. UNCHANGED <<queueVars, callVars, tRan, tFailed, pRan, pFailed>>
  BY DEF CallStep, Wakeup, threadVars, parallelVars, TP!WaitAgain, TP!WakeLauncher, TP!historyVars,
         PP!LauncherStep, PP!Store, PP!Publish, PP!WaitAgain, PP!WakeLauncher, PP!historyVars
<1>2. \/ UNCHANGED tLauncher
      \/ /\ tLauncher[x] # "idle"
         /\ \E to \in {"loop", "parked"} : tLauncher' = [tLauncher EXCEPT ![x] = to]
  BY DEF CallStep, Wakeup, threadVars, TP!WaitAgain, TP!WakeLauncher
<1>3. \/ UNCHANGED pLauncher
      \/ /\ pLauncher[x] # "idle"
         /\ \E to \in {"setTotal", "setChunk", "setFn", "publish", "loop", "parked"} :
               pLauncher' = [pLauncher EXCEPT ![x] = to]
  BY DEF CallStep, Wakeup, parallelVars, PP!LauncherStep, PP!Store, PP!SetCounter, PP!SetTotal,
         PP!SetChunk, PP!SetFn, PP!Publish, PP!WaitAgain, PP!WakeLauncher, PP!Goto
<1>4. \A y \in Callers : BusyT(y)' <=> BusyT(y)
  BY <1>2 DEF BusyT, TInv, TTyped
<1>5. \A y \in Callers : BusyP(y)' <=> BusyP(y)
  BY <1>3 DEF BusyP, PInv, PTyped
<1> QED BY <1>1, <1>4, <1>5, NothingRuns

\* A worker of the thread pool runs a block of the caller's grid.
LEMMA ThreadWorkerServes ==
  ASSUME TInv, TInv', CallsInv, NEW w \in Workers, ThreadWorkerStep(w)
  PROVE  CallsInv' /\ ServiceStep
<1>1. /\ TP!WorkerStep(w) /\ UNCHANGED <<queueVars, callVars>>
      /\ UNCHANGED <<pLauncher, pRan, pFailed>>
  BY DEF ThreadWorkerStep, parallelVars
<1>2. \A y \in Callers : (BusyT(y)' <=> BusyT(y)) /\ (BusyP(y)' <=> BusyP(y))
  BY <1>1, ThreadPoolRuns DEF BusyP
<1>3. CASE UNCHANGED <<tRan, tFailed>>
  BY <1>1, <1>2, <1>3, NothingRuns
<1>4. CASE ~UNCHANGED <<tRan, tFailed>>
  <2>0. PICK x \in Callers : \E S \in SUBSET DOMAIN tRan[x] :
          /\ BusyT(x)
          /\ \A b \in S : tRan[x][b] = 0
          /\ tRan'[x] = [b \in DOMAIN tRan[x] |-> IF b \in S THEN 1 ELSE tRan[x][b]]
          /\ \A y \in Callers : y # x => tRan'[y] = tRan[y]
          /\ tFailed' \in {tFailed, [tFailed EXCEPT ![x] = TRUE]}
    BY <1>1, <1>4, ThreadPoolRuns
  <2>1. PICK S \in SUBSET DOMAIN tRan[x] :
          /\ BusyT(x)
          /\ \A b \in S : tRan[x][b] = 0
          /\ tRan'[x] = [b \in DOMAIN tRan[x] |-> IF b \in S THEN 1 ELSE tRan[x][b]]
          /\ \A y \in Callers : y # x => tRan'[y] = tRan[y]
          /\ tFailed' \in {tFailed, [tFailed EXCEPT ![x] = TRUE]}
    BY <2>0
  <2>2. \A y \in Callers : /\ y # x => tFailed'[y] = tFailed[y]
                           /\ tFailed[y] => tFailed'[y]
    BY <2>1 DEF TInv, TTyped
  <2>3. \A y \in Callers : PoolsApart(y) /\ InStepWithCalls(y)
    BY DEF CallsInv
  <2>4. ~BusyP(x) /\ ~pFailed[x] /\ InCall(x)
    BY <2>1, <2>3 DEF PoolsApart, InStepWithCalls
  <2>5. ASSUME NEW y \in Callers PROVE PoolsApart(y)'
    BY <1>1, <1>2, <2>1, <2>2, <2>3 DEF PoolsApart
  <2>6. /\ CallsInv' /\ UNCHANGED <<enqueued, completed, owed>>
        /\ \A q \in Queues : Called(q)' = Called(q)
        /\ \A y \in Callers : At(y)' = IF ~InCall(y) THEN At(y)
                                       ELSE IF Raising(y)' THEN "raising" ELSE "running"
    BY <1>1, <1>2, <2>5, PoolsOnly
  <2>7. \A y \in Callers : y # x => (Raising(y)' <=> Raising(y)) /\ Ran(y)' = Ran(y)
    <3>1. \A y \in Callers : y # x => (Raising(y)' <=> Raising(y))
      BY <1>1, <2>2 DEF Raising
    <3>2. \A y \in Callers : Ran(y) = IF BusyT(y) THEN tRan[y] ELSE pRan[y]
      BY Seen
    <3>3. \A y \in Callers : Ran(y)' = IF BusyT(y)' THEN tRan'[y] ELSE pRan'[y]
      BY DEF Ran, BusyT
    <3> QED BY <1>1, <1>2, <2>1, <3>1, <3>2, <3>3
  <2>8. \A y \in Callers : y # x => At(y)' = At(y)
    BY <2>6, <2>7 DEF At
  <2>9. At(x) \in {"running", "raising"} /\ At(x)' \in {At(x), "raising"}
    <3>1. At(x) = IF Raising(x) THEN "raising" ELSE "running"
      BY <2>4 DEF At
    <3>2. Raising(x) => Raising(x)'
      BY <1>1, <2>2 DEF Raising
    <3> QED BY <2>4, <2>6, <3>1, <3>2
  <2>10. Ran(x) = tRan[x] /\ Ran(x)' = tRan'[x]
    BY <1>2, <2>1 DEF Ran, BusyT
  <2>11. /\ \A i \in S : i \in DOMAIN Ran(x) /\ Ran(x)[i] = 0
         /\ Ran(x)' = [i \in DOMAIN Ran(x) |-> IF i \in S THEN 1 ELSE Ran(x)[i]]
    BY <2>1, <2>10
  <2>12. Service!Next
    BY <2>6, <2>7, <2>8, <2>9, <2>11, RunsItems
  <2> QED BY <2>6, <2>12 DEF ServiceStep
<1> QED BY <1>3, <1>4

\* A worker of the parallel pool runs a chunk of it, or part of one.
LEMMA ParallelWorkerServes ==
  ASSUME PInv, PInv', CallsInv, NEW w \in Workers, ParallelWorkerStep(w)
  PROVE  CallsInv' /\ ServiceStep
<1>1. /\ PP!WorkerStep(w) /\ UNCHANGED <<queueVars, callVars>>
      /\ UNCHANGED <<tLauncher, tRan, tFailed>>
  BY DEF ParallelWorkerStep, threadVars
<1>2. \A y \in Callers : (BusyT(y)' <=> BusyT(y)) /\ (BusyP(y)' <=> BusyP(y))
  BY <1>1, ParallelPoolRuns DEF BusyT
<1>3. CASE UNCHANGED <<pRan, pFailed>>
  BY <1>1, <1>2, <1>3, NothingRuns
<1>4. CASE ~UNCHANGED <<pRan, pFailed>>
  <2>0. PICK x \in Callers : \E S \in SUBSET DOMAIN pRan[x] :
          /\ BusyP(x)
          /\ \A t \in S : pRan[x][t] = 0
          /\ pRan'[x] = [t \in DOMAIN pRan[x] |-> IF t \in S THEN 1 ELSE pRan[x][t]]
          /\ \A y \in Callers : y # x => pRan'[y] = pRan[y]
          /\ pFailed' \in {pFailed, [pFailed EXCEPT ![x] = TRUE]}
    BY <1>1, <1>4, ParallelPoolRuns
  <2>1. PICK S \in SUBSET DOMAIN pRan[x] :
          /\ BusyP(x)
          /\ \A t \in S : pRan[x][t] = 0
          /\ pRan'[x] = [t \in DOMAIN pRan[x] |-> IF t \in S THEN 1 ELSE pRan[x][t]]
          /\ \A y \in Callers : y # x => pRan'[y] = pRan[y]
          /\ pFailed' \in {pFailed, [pFailed EXCEPT ![x] = TRUE]}
    BY <2>0
  <2>2. \A y \in Callers : /\ y # x => pFailed'[y] = pFailed[y]
                           /\ pFailed[y] => pFailed'[y]
    BY <2>1 DEF PInv, PTyped
  <2>3. \A y \in Callers : PoolsApart(y) /\ InStepWithCalls(y)
    BY DEF CallsInv
  <2>4. ~BusyT(x) /\ ~tFailed[x] /\ InCall(x)
    BY <2>1, <2>3 DEF PoolsApart, InStepWithCalls
  <2>5. ASSUME NEW y \in Callers PROVE PoolsApart(y)'
    BY <1>1, <1>2, <2>1, <2>2, <2>3 DEF PoolsApart
  <2>6. /\ CallsInv' /\ UNCHANGED <<enqueued, completed, owed>>
        /\ \A q \in Queues : Called(q)' = Called(q)
        /\ \A y \in Callers : At(y)' = IF ~InCall(y) THEN At(y)
                                       ELSE IF Raising(y)' THEN "raising" ELSE "running"
    BY <1>1, <1>2, <2>5, PoolsOnly
  <2>7. \A y \in Callers : y # x => (Raising(y)' <=> Raising(y)) /\ Ran(y)' = Ran(y)
    BY <1>1, <2>1, <2>2 DEF Raising, Ran
  <2>8. \A y \in Callers : y # x => At(y)' = At(y)
    BY <2>6, <2>7 DEF At
  <2>9. At(x) \in {"running", "raising"} /\ At(x)' \in {At(x), "raising"}
    <3>1. At(x) = IF Raising(x) THEN "raising" ELSE "running"
      BY <2>4 DEF At
    <3>2. Raising(x) => Raising(x)'
      BY <1>1, <2>2 DEF Raising
    <3> QED BY <2>4, <2>6, <3>1, <3>2
  <2>10. Ran(x) = pRan[x] /\ Ran(x)' = pRan'[x]
    BY <1>1, <2>4 DEF Ran, BusyT
  <2>11. /\ \A i \in S : i \in DOMAIN Ran(x) /\ Ran(x)[i] = 0
         /\ Ran(x)' = [i \in DOMAIN Ran(x) |-> IF i \in S THEN 1 ELSE Ran(x)[i]]
    BY <2>1, <2>10
  <2>12. Service!Next
    BY <2>6, <2>7, <2>8, <2>9, <2>11, RunsItems
  <2> QED BY <2>6, <2>12 DEF ServiceStep
<1> QED BY <1>3, <1>4

-----------------------------------------------------------------------------
(* The runtime is the service *)

\* At the start nothing is enqueued, no call is in progress and no client waits.
LEMMA InitServes == Init => CallsInv /\ Service!Init
<1> SUFFICES ASSUME Init PROVE CallsInv /\ Service!Init
  OBVIOUS
<1>1. /\ direct = {} /\ calling = [c \in Clients |-> FALSE]
      /\ \A q \in Queues : /\ queue[q] = <<>> /\ enqueued[q] = <<>>
                           /\ dispatcher[q] \notin {"running", "popped", "dead"}
      /\ \A c \in Clients : client[c] = "idle"
      /\ enqueued = [q \in Queues |-> <<>>] /\ completed = {} /\ owed = [c \in Clients |-> {}]
  BY DEF Init, LQ!Init
<1>2. \A x \in Callers : /\ ~BusyT(x) /\ tRan[x] = TP!NoBlocks /\ ~tFailed[x]
                         /\ ~BusyP(x) /\ pRan[x] = PP!NoThreads /\ ~pFailed[x]
  BY DEF Init, TP!Init, PP!Init, BusyT, BusyP
<1>3. \A x \in Callers : At(x) = "free" /\ Ran(x) = Service!Nothing
  BY <1>1, <1>2 DEF At, InCall, BetweenCalls, Ran, BusyT, Callers, PP!NoThreads, Service!Nothing
<1>4. CallsInv
  BY <1>1, <1>2 DEF CallsInv, CallsTyped, PoolsApart, InStepWithCalls
<1>5. \A q \in Queues : Called(q) = 0
  <2>1. Len(<<>>) = 0
    OBVIOUS
  <2> QED BY <1>1, <2>1 DEF Called
<1>6. Service!Init
  BY <1>1, <1>3, <1>5, Seen DEF Service!Init
<1> QED BY <1>4, <1>6

\* Every step.
LEMMA StepServes ==
  ASSUME OneAtATime, QueuesInv, TInv, PInv, CallsInv, [Next]_vars
  PROVE  CallsInv' /\ ServiceStep
<1>1. TInv' /\ PInv'
  BY PoolSteps, ThreadPoolKept, ParallelPoolKept
<1>2. CallsTyped'
  BY CallsKept DEF CallsInv
<1>3. CASE UNCHANGED vars
  <2>1. UNCHANGED <<queueVars, callVars, tRan, tFailed, pRan, pFailed>>
    BY <1>3 DEF vars, threadVars, parallelVars
  <2>2. UNCHANGED <<tLauncher, pLauncher>>
    BY <1>3 DEF vars, threadVars, parallelVars
  <2> QED BY <2>1, <2>2, NothingRuns DEF BusyT, BusyP
<1>4. ASSUME NEW c \in Clients, NEW k \in Launches, CallDirectly(c, k)
      PROVE  CallsInv' /\ ServiceStep
  BY <1>2, <1>4, CallDirectlyServes
<1>5. ASSUME NEW c \in Clients, NEW k \in Launches, NEW q \in Queues, Enqueue(c, q, k)
      PROVE  CallsInv' /\ ServiceStep
  BY <1>5, EnqueueServes
<1>6. ASSUME NEW c \in Clients, Flush(c) PROVE CallsInv' /\ ServiceStep
  BY <1>6, FlushServes
<1>7. ASSUME NEW c \in Clients, ClientStep(c) PROVE CallsInv' /\ ServiceStep
  BY <1>2, <1>7, FlushStepServes, CallerServes, DirectCallEndServes DEF ClientStep, Callers
<1>8. ASSUME NEW q \in Queues, DispatcherStep(q) PROVE CallsInv' /\ ServiceStep
  BY <1>8, DispatchServes, DispatcherCallServes, DispatcherCallEndServes, CallerServes
  DEF DispatcherStep, Callers
<1>9. ASSUME NEW w \in Workers, ThreadWorkerStep(w) \/ ParallelWorkerStep(w)
      PROVE  CallsInv' /\ ServiceStep
  BY <1>1, <1>9, ThreadWorkerServes, ParallelWorkerServes
<1>10. ASSUME NEW x \in Callers, Wakeup(x) PROVE CallsInv' /\ ServiceStep
  BY <1>10, CallerServes
<1> QED BY <1>3, <1>4, <1>5, <1>6, <1>7, <1>8, <1>9, <1>10 DEF Next

\* run_threadpool, the launch queues and both pools, for a program that runs one kernel at
\* a time: whatever the interleaving of clients, dispatchers and workers, and whichever
\* kernels raise, those who launch see the launch service and nothing else.
THEOREM ServiceImplemented == OneAtATime => (Spec => ImplementsService)
<1> SUFFICES ASSUME OneAtATime PROVE Spec => ImplementsService
  OBVIOUS
<1>1. Init => CallsInv /\ Service!Init
  BY InitServes
<1>2. QueuesInv /\ TInv /\ PInv /\ CallsInv /\ [Next]_vars => CallsInv' /\ [Service!Next]_(Service!vars)
  BY StepServes DEF ServiceStep
<1> QED BY <1>1, <1>2, Invariance, PoolsInvariance, PTL DEF Spec, ImplementsService, Service!Spec
=============================================================================
