---------------------------- MODULE GuardedCache ----------------------------
(***************************************************************************)
(* The concurrency-safe compilation cache of spoc/framework/               *)
(* Guarded_cache.ml.  Every critical section of the code runs under one    *)
(* mutex (Mutex.protect), so each is one action here.  What runs with the  *)
(* mutex released - the compile, and every call of [destroy] - is an       *)
(* action of its own, so all the interleavings of the unlocked windows of  *)
(* find_or_build, evict_device and clear are explored.                     *)
(*                                                                         *)
(* A value stands for a compiled kernel: it is an element of Values, taken *)
(* fresh by each successful build.  A caller is a domain that has at most  *)
(* one call of this module in progress.                                    *)
(***************************************************************************)
EXTENDS Naturals

CONSTANTS
    Callers,     \* the domains that call the cache
    Keys,        \* the cache keys
    Devices,     \* the device ids passed as ?device_id
    NoDevice,    \* ?device_id not given
    Device,      \* the ?device_id that goes with each key
    Values,      \* the values builds may return
    None,        \* no value
    MaxEpoch,    \* bound: evictions of one device
    MaxGeneration \* bound: clears

ASSUME DeviceAssumption == /\ NoDevice \notin Devices
                           /\ Device \in [Keys -> Devices \cup {NoDevice}]
ASSUME NoneAssumption   == None \notin Values /\ None \notin Keys
ASSUME BoundAssumption  == MaxEpoch \in Nat /\ MaxGeneration \in Nat

VARIABLES
    table,              \* the key -> value table
    keysByDevice,       \* the keys to evict with each device
    epochs,             \* evictions of each device
    generation,         \* clears of the cache
    invalidatedByClear, \* the create-time flag: does this cache borrow?
    pc,                 \* where each caller is
    key,                \* the key of the find_or_build in progress
    seenEpoch,          \* the epoch of its miss snapshot
    seenGeneration,     \* the generation of its miss snapshot
    built,              \* the value its build returned, not yet placed
    victims,            \* the values it unlinked and has yet to destroy
    answer,             \* what its last call returned or raised, once settled
    born,               \* the values some build has returned
    releases,           \* destroy calls made on each value
    \* History, which no guard reads:
    era,                \* teardowns that outdate the builds of each key
    missEra,            \* the era of the key when the call missed
    birthEra            \* the era at the miss each value was built from

cacheVars == <<table, keysByDevice, epochs, generation, invalidatedByClear>>
windowVars == <<key, seenEpoch, seenGeneration, missEra>>
valueVars == <<born, releases, birthEra>>
vars == <<cacheVars, pc, windowVars, built, victims, answer, valueVars, era>>

-----------------------------------------------------------------------------
(* Where a caller is: outside the module, in the unlocked build, back with *)
(* a value and about to re-acquire the mutex, about to destroy the value   *)
(* it must discard, or destroying the victims it unlinked.                 *)
PCs == {"idle", "building", "reacquire", "discard", "destroying"}

Answer(kind, value) == [kind |-> kind, value |-> value]
NoAnswer == Answer("none", None)
Returned(v) == Answer("value", v)
Raised(exn) == Answer(exn, None)

Exceptions == {"Device_destroyed_during_build", "Cache_cleared_during_build",
               "build_failed", "destroy_failed"}

Answers == [kind : {"none", "unit", "value"} \cup Exceptions,
            value : Values \cup {None}]

Cached == {table[k] : k \in Keys} \ {None}

\* What unlinking the keys K yields and leaves: a key without an entry is skipped.
Victims(K) == {table[k] : k \in K} \ {None}

UnlinkNothing(K) == table
Unlinked(K) == [k \in Keys |-> IF k \in K THEN None ELSE table[k]]

\* record_key_for_device: nothing to record when the call names no device.
RecordKeyForDevice(d, k) ==
    [e \in Devices |-> IF e = d THEN keysByDevice[e] \cup {k} ELSE keysByDevice[e]]

\* What a miss on k snapshots: no epoch when the call names no device.
EpochAtMiss(k) == IF Device[k] = NoDevice THEN 0 ELSE epochs[Device[k]]

\* The outcomes of the re-check after the build, in the order the code tries them.
NeverLost(c)  == FALSE
Lost(c)       == table[key[c]] # None
NeverStale(c) == FALSE
Stale(c)      == EpochAtMiss(key[c]) # seenEpoch[c]
Cleared(c)    == invalidatedByClear /\ generation # seenGeneration[c]

-----------------------------------------------------------------------------
Init ==
    /\ table = [k \in Keys |-> None]
    /\ keysByDevice = [d \in Devices |-> {}]
    /\ epochs = [d \in Devices |-> 0]
    /\ generation = 0
    /\ invalidatedByClear \in BOOLEAN
    /\ pc = [c \in Callers |-> "idle"]
    /\ key = [c \in Callers |-> None]
    /\ seenEpoch = [c \in Callers |-> 0]
    /\ seenGeneration = [c \in Callers |-> 0]
    /\ missEra = [c \in Callers |-> 0]
    /\ built = [c \in Callers |-> None]
    /\ victims = [c \in Callers |-> {}]
    /\ answer = [c \in Callers |-> NoAnswer]
    /\ born = {}
    /\ releases = [v \in Values |-> 0]
    /\ era = [k \in Keys |-> 0]
    /\ birthEra = [v \in Values |-> 0]

\* The call of c is over: its locals are gone.
Leave(c) ==
    /\ pc' = [pc EXCEPT ![c] = "idle"]
    /\ key' = [key EXCEPT ![c] = None]
    /\ seenEpoch' = [seenEpoch EXCEPT ![c] = 0]
    /\ seenGeneration' = [seenGeneration EXCEPT ![c] = 0]
    /\ missEra' = [missEra EXCEPT ![c] = 0]

\* find_or_build finds an entry under the lock and returns it.
Hit(c, k) ==
    /\ pc[c] = "idle"
    /\ table[k] # None
    /\ answer' = [answer EXCEPT ![c] = Returned(table[k])]
    /\ UNCHANGED <<cacheVars, pc, windowVars, built, victims, valueVars, era>>

\* find_or_build finds none: it snapshots the device's epoch and the generation
\* under the same lock, and goes on to build with the lock released.
Miss(c, k) ==
    /\ pc[c] = "idle"
    /\ table[k] = None
    /\ pc' = [pc EXCEPT ![c] = "building"]
    /\ key' = [key EXCEPT ![c] = k]
    /\ seenEpoch' = [seenEpoch EXCEPT ![c] = EpochAtMiss(k)]
    /\ seenGeneration' = [seenGeneration EXCEPT ![c] = generation]
    /\ missEra' = [missEra EXCEPT ![c] = era[k]]
    /\ answer' = [answer EXCEPT ![c] = NoAnswer]
    /\ UNCHANGED <<cacheVars, built, victims, valueVars, era>>

\* The build returns a new value.
BuildReturns(c, v) ==
    /\ pc[c] = "building"
    /\ v \notin born
    /\ pc' = [pc EXCEPT ![c] = "reacquire"]
    /\ built' = [built EXCEPT ![c] = v]
    /\ born' = born \cup {v}
    /\ birthEra' = [birthEra EXCEPT ![v] = missEra[c]]
    /\ UNCHANGED <<cacheVars, windowVars, victims, answer, releases, era>>

\* The build raises: nothing was installed and the exception is the caller's.
BuildRaises(c) ==
    /\ pc[c] = "building"
    /\ Leave(c)
    /\ answer' = [answer EXCEPT ![c] = Raised("build_failed")]
    /\ UNCHANGED <<cacheVars, built, victims, valueVars, era>>

\* Re-acquire, no entry and no teardown since the miss: install the value and
\* record its key for the device.
Install(c) ==
    /\ pc[c] = "reacquire"
    /\ ~Lost(c) /\ ~Stale(c) /\ ~Cleared(c)
    /\ table' = [table EXCEPT ![key[c]] = built[c]]
    /\ keysByDevice' = RecordKeyForDevice(Device[key[c]], key[c])
    /\ answer' = [answer EXCEPT ![c] = Returned(built[c])]
    /\ built' = [built EXCEPT ![c] = None]
    /\ Leave(c)
    /\ UNCHANGED <<epochs, generation, invalidatedByClear, victims, valueVars, era>>

\* The loser of a race returns the winner's value.
LoserKeepsItsOwn(c) == Returned(built[c])
WinnerAnswer(c) == Returned(table[key[c]])

\* Re-acquire and give the value up: the outcome is settled under the lock, the
\* value is destroyed once it is released.
GiveUp(c) ==
    /\ pc[c] = "reacquire"
    /\ \/ /\ Lost(c)
          /\ answer' = [answer EXCEPT ![c] = WinnerAnswer(c)]
       \/ /\ ~Lost(c) /\ Stale(c)
          /\ answer' = [answer EXCEPT ![c] = Raised("Device_destroyed_during_build")]
       \/ /\ ~Lost(c) /\ ~Stale(c) /\ Cleared(c)
          /\ answer' = [answer EXCEPT ![c] = Raised("Cache_cleared_during_build")]
    /\ pc' = [pc EXCEPT ![c] = "discard"]
    /\ UNCHANGED <<cacheVars, windowVars, built, victims, valueVars, era>>

\* destroy_discarded: a destroy that raises is swallowed, so it changes nothing more.
Discard(c) ==
    /\ pc[c] = "discard"
    /\ releases' = [releases EXCEPT ![built[c]] = @ + 1]
    /\ built' = [built EXCEPT ![c] = None]
    /\ Leave(c)
    /\ UNCHANGED <<cacheVars, victims, answer, born, birthEra, era>>

\* evict_device, under the lock: bump the epoch, unlink the device's entries.
EvictDevice(c, d) ==
    /\ pc[c] = "idle"
    /\ epochs[d] < MaxEpoch
    /\ epochs' = [epochs EXCEPT ![d] = @ + 1]
    /\ victims' = [victims EXCEPT ![c] = Victims(keysByDevice[d])]
    /\ table' = Unlinked(keysByDevice[d])
    /\ keysByDevice' = [keysByDevice EXCEPT ![d] = {}]
    /\ era' = [k \in Keys |-> IF Device[k] = d THEN era[k] + 1 ELSE era[k]]
    /\ answer' = [answer EXCEPT ![c] = NoAnswer]
    /\ pc' = [pc EXCEPT ![c] = "destroying"]
    /\ UNCHANGED <<generation, invalidatedByClear, windowVars, built, valueVars>>

\* clear, under the lock: bump the generation, unlink everything.  Epochs and
\* generation are not reset.
Clear(c) ==
    /\ pc[c] = "idle"
    /\ generation < MaxGeneration
    /\ generation' = generation + 1
    /\ victims' = [victims EXCEPT ![c] = Victims(Keys)]
    /\ table' = Unlinked(Keys)
    /\ keysByDevice' = [d \in Devices |-> {}]
    /\ era' = [k \in Keys |-> IF invalidatedByClear THEN era[k] + 1 ELSE era[k]]
    /\ answer' = [answer EXCEPT ![c] = NoAnswer]
    /\ pc' = [pc EXCEPT ![c] = "destroying"]
    /\ UNCHANGED <<epochs, invalidatedByClear, windowVars, built, valueVars>>

\* (Mutation: the first exception abandons the other victims.)
DestroyStopsAtFailure(c, v) ==
    /\ pc[c] = "destroying"
    /\ v \in victims[c]
    /\ releases' = [releases EXCEPT ![v] = @ + 1]
    /\ \/ UNCHANGED answer /\ victims' = [victims EXCEPT ![c] = @ \ {v}]
       \/ /\ answer' = [answer EXCEPT ![c] = Raised("destroy_failed")]
          /\ victims' = [victims EXCEPT ![c] = {}]
    /\ UNCHANGED <<cacheVars, pc, windowVars, built, born, birthEra, era>>

\* destroy_all, one victim: a destroy that raises is remembered, the others are
\* still attempted.
DestroyVictim(c, v) ==
    /\ pc[c] = "destroying"
    /\ v \in victims[c]
    /\ victims' = [victims EXCEPT ![c] = @ \ {v}]
    /\ releases' = [releases EXCEPT ![v] = @ + 1]
    /\ \/ UNCHANGED answer
       \/ answer' = [answer EXCEPT ![c] = Raised("destroy_failed")]
    /\ UNCHANGED <<cacheVars, pc, windowVars, built, born, birthEra, era>>

\* destroy_all is through: return, or raise the first exception.
DestroyDone(c) ==
    /\ pc[c] = "destroying"
    /\ victims[c] = {}
    /\ Leave(c)
    /\ answer' = [answer EXCEPT ![c] = IF @ = NoAnswer THEN Answer("unit", None) ELSE @]
    /\ UNCHANGED <<cacheVars, built, victims, valueVars, era>>

Next ==
    \E c \in Callers :
        \/ \E k \in Keys : Hit(c, k) \/ Miss(c, k)
        \/ \E v \in Values : BuildReturns(c, v) \/ DestroyVictim(c, v)
        \/ \E d \in Devices : EvictDevice(c, d)
        \/ BuildRaises(c) \/ Install(c) \/ GiveUp(c) \/ Discard(c)
        \/ Clear(c) \/ DestroyDone(c)

Spec == Init /\ [][Next]_vars

-----------------------------------------------------------------------------
(* Properties *)

\* Type correctness of the cache record and of the calls in progress.
TypeOK ==
    /\ table \in [Keys -> Values \cup {None}]
    /\ keysByDevice \in [Devices -> SUBSET Keys]
    /\ epochs \in [Devices -> Nat]
    /\ generation \in Nat
    /\ invalidatedByClear \in BOOLEAN
    /\ pc \in [Callers -> PCs]
    /\ key \in [Callers -> Keys \cup {None}]
    /\ seenEpoch \in [Callers -> Nat]
    /\ seenGeneration \in [Callers -> Nat]
    /\ missEra \in [Callers -> Nat]
    /\ built \in [Callers -> Values \cup {None}]
    /\ victims \in [Callers -> SUBSET Values]
    /\ answer \in [Callers -> Answers]
    /\ born \in SUBSET Values
    /\ releases \in [Values -> Nat]
    /\ era \in [Keys -> Nat]
    /\ birthEra \in [Values -> Nat]

\* A released handle is never reachable from the table, from a caller that is
\* still to place it, or from another caller's victims: no interleaving of
\* find_or_build, evict_device and clear unloads a module twice, or unloads one
\* the cache will serve again.
ReleasedOnce ==
    \A v \in Values :
        /\ releases[v] <= 1
        /\ releases[v] = 1 =>
              /\ v \notin Cached
              /\ \A c \in Callers : built[c] # v /\ v \notin victims[c]

\* No module leaks: what a build returned is in the table, in the hands of a call
\* that will still release or install it, or released - including the loser of a
\* race, the value of an aborted build and the victims left when a destroy raises.
NoLeak ==
    \A v \in born :
        \/ v \in Cached
        \/ releases[v] > 0
        \/ \E c \in Callers : built[c] = v \/ v \in victims[c]

\* An entry was built from a miss that no teardown has overtaken: evict_device of
\* its device (and, for a borrowing cache, clear) never leaves behind, and never
\* lets in later, a value built for what it tore down.
FreshEntries ==
    \A k \in Keys : table[k] # None => birthEra[table[k]] = era[k]

\* A device's teardown can reach each of its entries: it is in the device's list.
Evictable ==
    \A k \in Keys :
        table[k] # None /\ Device[k] # NoDevice => k \in keysByDevice[Device[k]]

\* "At most one value is ever retained": an entry is never overwritten by a
\* concurrent build of the same key, only unlinked by a teardown.
EntryNeverReplaced ==
    [][\A k \in Keys : table[k] # None => table'[k] \in {table[k], None}]_vars

\* "Every caller observes that single value": what find_or_build returns after a
\* build is the entry of its key at that moment - also for the loser of a race, who
\* must not be handed the copy it is about to destroy.
ServesTheEntry ==
    [][\A c \in Callers :
         pc[c] = "reacquire" /\ answer'[c].kind = "value"
            => answer'[c].value = table'[key[c]]]_vars
=============================================================================
