---------------------------- MODULE KernelCaches ----------------------------
(***************************************************************************)
(* The two levels at which a compiled kernel is memoized, and their        *)
(* teardown (sarek/core/Runtime.ml, sarek/core/Kernel.ml, a backend's      *)
(* kernel cache and Device.destroy as in sarek-cuda/Cuda_api.ml, and       *)
(* spoc/framework/Cache_hooks.ml between them).                            *)
(*                                                                         *)
(* Each level is a GuardedCache.  The backend's OWNS its values: its       *)
(* destroy unloads the module.  The memo of Runtime BORROWS: its values    *)
(* are closures over handles of the backend's cache, its destroy does      *)
(* nothing.  The build of the memo is a whole find_or_build on the         *)
(* backend's cache.  Cache_hooks lets the backend drop memo entries:       *)
(* around_clear notifies before and after a clear, a device destroy        *)
(* notifies once, before it releases anything.                             *)
(*                                                                         *)
(* A caller is a domain with one compile_kernel, clear_cache or            *)
(* Device.destroy in progress.  Hooks are run last registered first, and   *)
(* Runtime (library sarek.core, linked before the backends) registers      *)
(* first: the backend evicts before the memo does.                         *)
(***************************************************************************)
EXTENDS Naturals, FiniteSets

CONSTANTS
    Callers, Keys, Devices, None, NoDevice,
    Device,           \* the device a key is compiled for
    Handles,          \* backend kernels: loaded modules with their function
    Closures,         \* Kernel.t values of the memo (also bounds the compiles)
    Contexts,         \* device contexts (also bounds the destroys)
    MaxClears,        \* bound: calls of clear_cache
    ResolversQuiesced \* does Device.destroy wait for callers holding the device?

ASSUME QuiescedAssumption == ResolversQuiesced \in BOOLEAN
ASSUME DevicesAssumption  == NoDevice \notin Devices /\ Device \in [Keys -> Devices]
ASSUME NothingAssumption  == None \notin Handles \cup Closures \cup Keys \cup Devices \cup Contexts
ASSUME FinitenessAssumption == IsFiniteSet(Contexts) /\ MaxClears \in Nat

VARIABLES
    \* Runtime.kernel_cache
    mTable, mKeysByDevice, mEpochs, mGeneration, mInvalidatedByClear, mPc, mKey,
    mSeenEpoch, mSeenGeneration, mBuilt, mVictims, mAnswer, mBorn, mReleases, mEra, mMissEra,
    mBirthEra,
    \* the backend's Kernel.cache
    bTable, bKeysByDevice, bEpochs, bGeneration, bInvalidatedByClear, bPc, bKey,
    bSeenEpoch, bSeenGeneration, bBuilt, bVictims, bAnswer, bBorn, bReleases, bEra, bMissEra,
    bBirthEra,
    borrows,     \* the handle each closure launches
    step,        \* where each caller is in its compile, clear or destroy
    context,     \* the context of the device it holds
    deviceCache, \* the live context of each device index
    contextOf,   \* the context each handle was loaded in
    home,        \* the device each context was created for
    destroyed    \* the contexts destroyed

Memo == INSTANCE GuardedCache WITH
    Values <- Closures, MaxEpoch <- Cardinality(Contexts), MaxGeneration <- 2 * MaxClears,
    invalidatedByClear <- mInvalidatedByClear, table <- mTable, keysByDevice <- mKeysByDevice,
    epochs <- mEpochs, generation <- mGeneration, pc <- mPc, key <- mKey,
    seenEpoch <- mSeenEpoch, seenGeneration <- mSeenGeneration, built <- mBuilt,
    victims <- mVictims, answer <- mAnswer, born <- mBorn, releases <- mReleases,
    era <- mEra, missEra <- mMissEra, birthEra <- mBirthEra

Backend == INSTANCE GuardedCache WITH
    Values <- Handles, MaxEpoch <- Cardinality(Contexts), MaxGeneration <- MaxClears,
    invalidatedByClear <- bInvalidatedByClear, table <- bTable, keysByDevice <- bKeysByDevice,
    epochs <- bEpochs, generation <- bGeneration, pc <- bPc, key <- bKey,
    seenEpoch <- bSeenEpoch, seenGeneration <- bSeenGeneration, built <- bBuilt,
    victims <- bVictims, answer <- bAnswer, born <- bBorn, releases <- bReleases,
    era <- bEra, missEra <- bMissEra, birthEra <- bBirthEra

memoVars    == <<mTable, mKeysByDevice, mEpochs, mGeneration, mInvalidatedByClear, mPc, mKey,
                 mSeenEpoch, mSeenGeneration, mBuilt, mVictims, mAnswer, mBorn, mReleases, mEra,
                 mMissEra, mBirthEra>>
backendVars == <<bTable, bKeysByDevice, bEpochs, bGeneration, bInvalidatedByClear, bPc, bKey,
                 bSeenEpoch, bSeenGeneration, bBuilt, bVictims, bAnswer, bBorn, bReleases, bEra,
                 bMissEra, bBirthEra>>
deviceVars  == <<deviceCache, home, destroyed>>
vars == <<memoVars, backendVars, deviceVars, borrows, step, context, contextOf>>

-----------------------------------------------------------------------------
\* A compile has missed the memo, holds the device, is in the backend's find_or_build;
\* a clear is in its first notification, in the clear proper, in its second one; a
\* destroy has removed the device, is in the backend's hook, is in the memo's.
CompileSteps == {"missed", "resolved", "calling"}
ClearSteps   == {"dropping", "releasing", "redropping"}
DestroySteps == {"removed", "evicting", "notifying"}
Steps == {"idle"} \cup CompileSteps \cup ClearSteps \cup DestroySteps

Live(h) == bReleases[h] = 0 /\ contextOf[h] \notin destroyed

Init ==
    /\ Memo!Init /\ mInvalidatedByClear = TRUE
    /\ Backend!Init /\ bInvalidatedByClear = FALSE
    /\ borrows = [m \in Closures |-> None]
    /\ step = [c \in Callers |-> "idle"]
    /\ context = [c \in Callers |-> None]
    /\ deviceCache = [d \in Devices |-> None]
    /\ contextOf = [h \in Handles |-> None]
    /\ home = [x \in Contexts |-> None]
    /\ destroyed = {}

Goto(c, s) == step' = [step EXCEPT ![c] = s]

-----------------------------------------------------------------------------
(* compile_kernel *)

\* A hit on the memo ends the call.
MemoHit(c, k) ==
    /\ step[c] = "idle"
    /\ Memo!Hit(c, k)
    /\ UNCHANGED <<backendVars, deviceVars, borrows, step, context, contextOf>>

\* A miss goes on to build; it is only begun while closures are left for it.
MemoMiss(c, k) ==
    /\ step[c] = "idle"
    /\ Cardinality(Closures \ mBorn) > Cardinality({e \in Callers : mKey[e] # None})
    /\ Memo!Miss(c, k)
    /\ Goto(c, "missed")
    /\ UNCHANGED <<backendVars, deviceVars, borrows, context, contextOf>>

\* Kernel.compile_cached: B.Device.get finds the device's context, creates one, or
\* raises because it cannot.
ResolveDevice(c) ==
    LET d == Device[mKey[c]] IN
    /\ step[c] = "missed"
    /\ \/ /\ deviceCache[d] # None
          /\ context' = [context EXCEPT ![c] = deviceCache[d]]
          /\ Goto(c, "resolved")
          /\ UNCHANGED <<memoVars, deviceVars>>
       \/ /\ deviceCache[d] = None
          /\ \E x \in Contexts :
                /\ home[x] = None
                /\ context' = [context EXCEPT ![c] = x]
                /\ deviceCache' = [deviceCache EXCEPT ![d] = x]
                /\ home' = [home EXCEPT ![x] = d]
          /\ Goto(c, "resolved")
          /\ UNCHANGED <<memoVars, destroyed>>
       \/ /\ deviceCache[d] = None
          /\ Memo!BuildRaises(c)
          /\ Goto(c, "idle")
          /\ UNCHANGED <<deviceVars, context>>
    /\ UNCHANGED <<backendVars, borrows, contextOf>>

\* B.Kernel.compile_cached: the lookup in the backend's cache.
BackendLookup(c) ==
    /\ step[c] = "resolved"
    /\ Backend!Hit(c, mKey[c]) \/ Backend!Miss(c, mKey[c])
    /\ Goto(c, "calling")
    /\ UNCHANGED <<memoVars, deviceVars, borrows, context, contextOf>>

LoadedIn(c) == context[c]

\* The compile loads a module in the caller's context - if that still exists.
BackendBuild(c) ==
    /\ step[c] = "calling"
    /\ \/ \E h \in Handles :
            /\ context[c] \notin destroyed
            /\ Backend!BuildReturns(c, h)
            /\ contextOf' = [contextOf EXCEPT ![h] = LoadedIn(c)]
       \/ Backend!BuildRaises(c) /\ UNCHANGED contextOf
    /\ UNCHANGED <<memoVars, deviceVars, borrows, step, context>>

BackendPlace(c) ==
    /\ step[c] = "calling"
    /\ Backend!Install(c) \/ Backend!GiveUp(c) \/ Backend!Discard(c)
    /\ UNCHANGED <<memoVars, deviceVars, borrows, step, context, contextOf>>

\* The backend's find_or_build is over: the memo's build returns a closure over the
\* handle, or raises what the backend raised.
MemoBuild(c) ==
    /\ step[c] = "calling"
    /\ bPc[c] = "idle"
    /\ \/ /\ bAnswer[c].kind = "value"
          /\ \E m \in Closures :
                /\ Memo!BuildReturns(c, m)
                /\ borrows' = [borrows EXCEPT ![m] = bAnswer[c].value]
       \/ /\ bAnswer[c].kind \in Backend!Exceptions
          /\ Memo!BuildRaises(c)
          /\ UNCHANGED borrows
    /\ Goto(c, "idle")
    /\ context' = [context EXCEPT ![c] = None]
    /\ UNCHANGED <<backendVars, deviceVars, contextOf>>

MemoPlace(c) ==
    /\ Memo!Install(c) \/ Memo!GiveUp(c) \/ Memo!Discard(c)
    /\ UNCHANGED <<backendVars, deviceVars, borrows, step, context, contextOf>>

-----------------------------------------------------------------------------
(* Teardown *)

\* The destroy callbacks of the two caches: the memo's does nothing and cannot raise.
MemoRelease(c) ==
    /\ \/ \E m \in Closures : Memo!DestroyVictim(c, m) /\ mAnswer' = mAnswer
       \/ Memo!DestroyDone(c)
    /\ UNCHANGED <<backendVars, deviceVars, borrows, step, context, contextOf>>

BackendRelease(c) ==
    /\ (\E h \in Handles : Backend!DestroyVictim(c, h)) \/ Backend!DestroyDone(c)
    /\ UNCHANGED <<memoVars, deviceVars, borrows, step, context, contextOf>>

\* A caller with no call of either cache in progress.
Quiet(c) == mPc[c] = "idle" /\ bPc[c] = "idle"

\* around_clear notifies: the memo's hook clears it.
NotifyClear(c, from, to) ==
    /\ step[c] = from /\ Quiet(c)
    /\ Memo!Clear(c)
    /\ Goto(c, to)
    /\ UNCHANGED <<backendVars, deviceVars, borrows, context, contextOf>>

\* The first notification; clears begun are bounded, not those under way.
DropMemo(c) ==
    /\ bGeneration + Cardinality({e \in Callers : step[e] = "dropping"}) < MaxClears
    /\ NotifyClear(c, "idle", "dropping")

\* The clear proper.
ReleaseHandles(c) ==
    /\ step[c] = "dropping" /\ Quiet(c)
    /\ Backend!Clear(c)
    /\ Goto(c, "releasing")
    /\ UNCHANGED <<memoVars, deviceVars, borrows, context, contextOf>>

\* (Mutation: the second notification is dropped.)
DropMemoOnce(c) ==
    /\ step[c] = "releasing" /\ Quiet(c)
    /\ Goto(c, "redropping")
    /\ UNCHANGED <<memoVars, backendVars, deviceVars, borrows, context, contextOf>>

\* The second notification.
DropMemoAgain(c) == NotifyClear(c, "releasing", "redropping")

ClearDone(c) ==
    /\ step[c] = "redropping" /\ Quiet(c)
    /\ Goto(c, "idle")
    /\ UNCHANGED <<memoVars, backendVars, deviceVars, borrows, context, contextOf>>

WithoutDevice(d) == [deviceCache EXCEPT ![d] = None]

\* Device.destroy takes the device out of the table first: a later get makes a new
\* context.
RemoveDevice(c, d) ==
    /\ step[c] = "idle" /\ Quiet(c)
    /\ deviceCache[d] # None
    /\ ResolversQuiesced =>
          \A e \in Callers : step[e] = "resolved" => context[e] # deviceCache[d]
    /\ context' = [context EXCEPT ![c] = deviceCache[d]]
    /\ deviceCache' = WithoutDevice(d)
    /\ Goto(c, "removed")
    /\ UNCHANGED <<memoVars, backendVars, home, destroyed, borrows, contextOf>>

\* notify_device_destroy, the backend's hook: unload the device's modules ...
EvictBackend(c) ==
    /\ step[c] = "removed"
    /\ Backend!EvictDevice(c, home[context[c]])
    /\ Goto(c, "evicting")
    /\ UNCHANGED <<memoVars, deviceVars, borrows, context, contextOf>>

\* ... and then, whether or not that raised, the memo's hook: forget the closures.
EvictMemo(c) ==
    /\ step[c] = "evicting" /\ Quiet(c)
    /\ Memo!EvictDevice(c, home[context[c]])
    /\ Goto(c, "notifying")
    /\ UNCHANGED <<backendVars, deviceVars, borrows, context, contextOf>>

\* The hooks are through: the context goes, whatever they raised.
DestroyContext(c) ==
    /\ step[c] = "notifying" /\ Quiet(c)
    /\ destroyed' = destroyed \cup {context[c]}
    /\ context' = [context EXCEPT ![c] = None]
    /\ Goto(c, "idle")
    /\ UNCHANGED <<memoVars, backendVars, deviceCache, home, borrows, contextOf>>

\* The bounds are used up.
Terminated ==
    /\ \A c \in Callers : step[c] = "idle" /\ Quiet(c)
    /\ UNCHANGED vars

Next ==
    \/ \E c \in Callers :
          \/ \E k \in Keys : MemoHit(c, k) \/ MemoMiss(c, k)
          \/ ResolveDevice(c) \/ BackendLookup(c) \/ BackendBuild(c) \/ BackendPlace(c)
          \/ MemoBuild(c) \/ MemoPlace(c) \/ MemoRelease(c) \/ BackendRelease(c)
          \/ DropMemo(c) \/ ReleaseHandles(c) \/ DropMemoAgain(c) \/ ClearDone(c)
          \/ \E d \in Devices : RemoveDevice(c, d)
          \/ EvictBackend(c) \/ EvictMemo(c) \/ DestroyContext(c)
    \/ Terminated

Spec == Init /\ [][Next]_vars

-----------------------------------------------------------------------------
(* Properties *)

\* Type correctness of both caches and of what joins them.
TypeOK ==
    /\ Memo!TypeOK /\ Backend!TypeOK
    /\ borrows \in [Closures -> Handles \cup {None}]
    /\ step \in [Callers -> Steps]
    /\ context \in [Callers -> Contexts \cup {None}]
    /\ deviceCache \in [Devices -> Contexts \cup {None}]
    /\ contextOf \in [Handles -> Contexts \cup {None}]
    /\ home \in [Contexts -> Devices \cup {None}]
    /\ destroyed \in SUBSET Contexts

\* The memo never serves, once teardowns are through, a kernel whose handle was
\* released: a dangling entry exists only while a clear that has released it has its
\* second notification to come, or a device destroy has the memo's hook to come.
MemoNeverDangles ==
    \A k \in Keys :
        mTable[k] # None /\ ~Live(borrows[mTable[k]])
            => \E c \in Callers : step[c] \in {"releasing", "evicting"}

\* The backend's cache only ever serves modules that are loaded in a context that
\* still exists: after the context is recreated under the same index, no handle of
\* the old one is returned.
BackendNeverDangles ==
    \A k \in Keys : bTable[k] # None => Live(bTable[k])

\* No call gets a kernel whose module or context is gone, from either cache.
NothingDangles == MemoNeverDangles /\ BackendNeverDangles
=============================================================================
