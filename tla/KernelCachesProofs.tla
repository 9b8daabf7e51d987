------------------------- MODULE KernelCachesProofs -------------------------
(***************************************************************************)
(* No call is handed a kernel whose module or context is gone, for any     *)
(* number of callers, keys, devices, contexts and kernels, when a          *)
(* Device.destroy waits for the callers that hold the device.              *)
(***************************************************************************)
EXTENDS KernelCaches, FiniteSetTheorems, TLAPS

MemoProofs == INSTANCE GuardedCacheProofs WITH
    Values <- Closures, MaxEpoch <- Cardinality(Contexts), MaxGeneration <- 2 * MaxClears,
    invalidatedByClear <- mInvalidatedByClear, table <- mTable, keysByDevice <- mKeysByDevice,
    epochs <- mEpochs, generation <- mGeneration, pc <- mPc, key <- mKey,
    seenEpoch <- mSeenEpoch, seenGeneration <- mSeenGeneration, built <- mBuilt,
    victims <- mVictims, answer <- mAnswer, born <- mBorn, releases <- mReleases,
    era <- mEra, missEra <- mMissEra, birthEra <- mBirthEra

BackendProofs == INSTANCE GuardedCacheProofs WITH
    Values <- Handles, MaxEpoch <- Cardinality(Contexts), MaxGeneration <- MaxClears,
    invalidatedByClear <- bInvalidatedByClear, table <- bTable, keysByDevice <- bKeysByDevice,
    epochs <- bEpochs, generation <- bGeneration, pc <- bPc, key <- bKey,
    seenEpoch <- bSeenEpoch, seenGeneration <- bSeenGeneration, built <- bBuilt,
    victims <- bVictims, answer <- bAnswer, born <- bBorn, releases <- bReleases,
    era <- bEra, missEra <- bMissEra, birthEra <- bBirthEra

-----------------------------------------------------------------------------
(* How the two levels are linked *)

\* Where a caller is in each cache, by where it is in its call.
StepOf(c) ==
    /\ step[c] = "idle" => bPc[c] = "idle" /\ mPc[c] \in {"idle", "reacquire", "discard"}
    /\ step[c] \in {"missed", "resolved"} => mPc[c] = "building" /\ bPc[c] = "idle"
    /\ step[c] = "calling" =>
          /\ mPc[c] = "building" /\ bPc[c] # "destroying"
          /\ bPc[c] # "idle" => bKey[c] = mKey[c]
    /\ step[c] \in {"dropping", "redropping", "notifying"} =>
          bPc[c] = "idle" /\ mPc[c] \in {"idle", "destroying"}
    /\ step[c] \in {"removed", "releasing", "evicting"} =>
          mPc[c] = "idle" /\ bPc[c] \in {"idle", "destroying"}
StepsMatch == \A c \in Callers : StepOf(c)

\* A device's context in use was created for it, is not destroyed, and no destroy has it.
LiveDevices ==
    \A d \in Devices : deviceCache[d] # None =>
        /\ home[deviceCache[d]] = d
        /\ deviceCache[d] \notin destroyed
        /\ \A c \in Callers : step[c] \in DestroySteps => context[c] # deviceCache[d]

\* A context that is gone was some device's.
DestroyedHadAHome == \A x \in destroyed : home[x] # None

\* A caller that resolved the device holds a context made for it - one that nobody has
\* begun to destroy as long as it has not gone on to the backend's cache.
HoldsContext ==
    \A c \in Callers :
        /\ step[c] \in {"resolved", "calling"} =>
              context[c] # None /\ home[context[c]] = Device[mKey[c]]
        /\ step[c] = "resolved" => deviceCache[Device[mKey[c]]] = context[c]
        /\ step[c] \in DestroySteps => context[c] # None /\ home[context[c]] # None

\* The contexts whose destroy has been through the backend's hook.
Condemned(x) ==
    x \in destroyed \/ \E c \in Callers : step[c] \in {"evicting", "notifying"} /\ context[c] = x

\* A caller that looked its kernel up before the backend's hook knows of the destroy.
BackendOutdated ==
    \A c \in Callers :
        step[c] = "calling" /\ bPc[c] \in {"building", "reacquire"} /\ Condemned(context[c]) =>
            bSeenEpoch[c] < bEpochs[Device[mKey[c]]]

\* A handle is loaded in the context its caller held, and is cached for its device.
LoadedThere ==
    /\ \A c \in Callers : bPc[c] = "reacquire" => contextOf[bBuilt[c]] = context[c]
    /\ \A k \in Keys : bTable[k] # None =>
          /\ contextOf[bTable[k]] # None
          /\ home[contextOf[bTable[k]]] = Device[k]
          /\ ~Condemned(contextOf[bTable[k]])

\* Between unlinking handles of k and telling the memo of it.
Untold(k) ==
    \E c \in Callers : \/ step[c] = "releasing"
                       \/ step[c] = "evicting" /\ home[context[c]] = Device[k]

\* A closure of k launches what the backend caches for k, or the memo has yet to be told.
Launchable(k, h) == h # None /\ (bTable[k] = h \/ Untold(k))

MemoOutdated(c) == \/ mSeenEpoch[c] < mEpochs[Device[mKey[c]]]
                   \/ mSeenGeneration[c] < mGeneration

MemoEntriesLaunch == \A k \in Keys : mTable[k] # None => Launchable(k, borrows[mTable[k]])
MemoBuildsLaunch ==
    \A c \in Callers :
        /\ mPc[c] = "reacquire" => Launchable(mKey[c], borrows[mBuilt[c]]) \/ MemoOutdated(c)
        /\ step[c] = "calling" /\ bAnswer[c].kind = "value" =>
              Launchable(mKey[c], bAnswer[c].value) \/ MemoOutdated(c)

LinkTyped ==
    /\ borrows \in [Closures -> Handles \cup {None}]
    /\ step \in [Callers -> Steps]
    /\ context \in [Callers -> Contexts \cup {None}]
    /\ deviceCache \in [Devices -> Contexts \cup {None}]
    /\ contextOf \in [Handles -> Contexts \cup {None}]
    /\ home \in [Contexts -> Devices \cup {None}]
    /\ destroyed \in SUBSET Contexts

LinkInv ==
    /\ LinkTyped /\ mInvalidatedByClear = TRUE
    /\ StepsMatch
    /\ LiveDevices
    /\ DestroyedHadAHome
    /\ HoldsContext
    /\ BackendOutdated
    /\ LoadedThere
    /\ MemoEntriesLaunch
    /\ MemoBuildsLaunch

-----------------------------------------------------------------------------
(* Each level is a guarded cache: what is proved of one holds of both *)

LEMMA MemoAssumptions ==
    MemoProofs!DeviceAssumption /\ MemoProofs!NoneAssumption /\ MemoProofs!BoundAssumption
  BY DevicesAssumption, NothingAssumption, FinitenessAssumption, FS_CardinalityType
  DEF MemoProofs!DeviceAssumption, MemoProofs!NoneAssumption, MemoProofs!BoundAssumption

LEMMA BackendAssumptions ==
    BackendProofs!DeviceAssumption /\ BackendProofs!NoneAssumption /\ BackendProofs!BoundAssumption
  BY DevicesAssumption, NothingAssumption, FinitenessAssumption, FS_CardinalityType
  DEF BackendProofs!DeviceAssumption, BackendProofs!NoneAssumption, BackendProofs!BoundAssumption

CachesInv ==
    /\ MemoProofs!FreshInv /\ MemoProofs!WindowInv
    /\ BackendProofs!FreshInv /\ BackendProofs!WindowInv /\ BackendProofs!OwnerInv

LEMMA CachesInit == Memo!Init /\ Backend!Init => CachesInv
<1>1. Memo!Init => MemoProofs!Init
  BY DEF Memo!Init, MemoProofs!Init, Memo!NoAnswer, MemoProofs!NoAnswer, Memo!Answer, MemoProofs!Answer
<1>2. Backend!Init => BackendProofs!Init
  BY DEF Backend!Init, BackendProofs!Init, Backend!NoAnswer, BackendProofs!NoAnswer,
     Backend!Answer, BackendProofs!Answer
<1> QED
  BY <1>1, <1>2, MemoAssumptions, BackendAssumptions, MemoProofs!FreshInit, MemoProofs!WindowInit,
     BackendProofs!FreshInit, BackendProofs!WindowInit, BackendProofs!OwnerInit DEF CachesInv

\* The two instances of the cache's module are the same.
LEMMA MemoIsProved == [Memo!Next]_(Memo!vars) => [MemoProofs!Next]_(MemoProofs!vars)
  BY DEF
     Memo!Next, MemoProofs!Next, Memo!vars, MemoProofs!vars, Memo!cacheVars,
     MemoProofs!cacheVars, Memo!windowVars, MemoProofs!windowVars, Memo!valueVars,
     MemoProofs!valueVars, Memo!Hit, MemoProofs!Hit, Memo!Miss, MemoProofs!Miss,
     Memo!BuildReturns, MemoProofs!BuildReturns, Memo!BuildRaises, MemoProofs!BuildRaises,
     Memo!Install, MemoProofs!Install, Memo!GiveUp, MemoProofs!GiveUp, Memo!Discard,
     MemoProofs!Discard, Memo!EvictDevice, MemoProofs!EvictDevice, Memo!Clear, MemoProofs!Clear,
     Memo!DestroyVictim, MemoProofs!DestroyVictim, Memo!DestroyDone, MemoProofs!DestroyDone,
     Memo!Leave, MemoProofs!Leave, Memo!Returned, MemoProofs!Returned, Memo!Raised,
     MemoProofs!Raised, Memo!Answer, MemoProofs!Answer, Memo!NoAnswer, MemoProofs!NoAnswer,
     Memo!EpochAtMiss, MemoProofs!EpochAtMiss, Memo!Lost, MemoProofs!Lost, Memo!Stale,
     MemoProofs!Stale, Memo!Cleared, MemoProofs!Cleared, Memo!WinnerAnswer,
     MemoProofs!WinnerAnswer, Memo!Victims, MemoProofs!Victims, Memo!Unlinked,
     MemoProofs!Unlinked, Memo!RecordKeyForDevice, MemoProofs!RecordKeyForDevice

LEMMA BackendIsProved == [Backend!Next]_(Backend!vars) => [BackendProofs!Next]_(BackendProofs!vars)
  BY DEF
     Backend!Next, BackendProofs!Next, Backend!vars, BackendProofs!vars, Backend!cacheVars,
     BackendProofs!cacheVars, Backend!windowVars, BackendProofs!windowVars, Backend!valueVars,
     BackendProofs!valueVars, Backend!Hit, BackendProofs!Hit, Backend!Miss, BackendProofs!Miss,
     Backend!BuildReturns, BackendProofs!BuildReturns, Backend!BuildRaises,
     BackendProofs!BuildRaises, Backend!Install, BackendProofs!Install, Backend!GiveUp,
     BackendProofs!GiveUp, Backend!Discard, BackendProofs!Discard, Backend!EvictDevice,
     BackendProofs!EvictDevice, Backend!Clear, BackendProofs!Clear, Backend!DestroyVictim,
     BackendProofs!DestroyVictim, Backend!DestroyDone, BackendProofs!DestroyDone, Backend!Leave,
     BackendProofs!Leave, Backend!Returned, BackendProofs!Returned, Backend!Raised,
     BackendProofs!Raised, Backend!Answer, BackendProofs!Answer, Backend!NoAnswer,
     BackendProofs!NoAnswer, Backend!EpochAtMiss, BackendProofs!EpochAtMiss, Backend!Lost,
     BackendProofs!Lost, Backend!Stale, BackendProofs!Stale, Backend!Cleared,
     BackendProofs!Cleared, Backend!WinnerAnswer, BackendProofs!WinnerAnswer, Backend!Victims,
     BackendProofs!Victims, Backend!Unlinked, BackendProofs!Unlinked,
     Backend!RecordKeyForDevice, BackendProofs!RecordKeyForDevice

\* What the two caches' invariants say of the state, in this module's variables.
Known ==
    /\ mTable \in [Keys -> Closures \cup {None}] /\ bTable \in [Keys -> Handles \cup {None}]
    /\ mPc \in [Callers -> Memo!PCs] /\ bPc \in [Callers -> Backend!PCs]
    /\ mKey \in [Callers -> Keys \cup {None}] /\ bKey \in [Callers -> Keys \cup {None}]
    /\ mEpochs \in [Devices -> Nat] /\ bEpochs \in [Devices -> Nat]
    /\ mGeneration \in Nat
    /\ mSeenEpoch \in [Callers -> Nat] /\ bSeenEpoch \in [Callers -> Nat]
    /\ mSeenGeneration \in [Callers -> Nat]
    /\ mBuilt \in [Callers -> Closures \cup {None}] /\ bBuilt \in [Callers -> Handles \cup {None}]
    /\ bAnswer \in [Callers -> Backend!Answers]
    /\ mKeysByDevice \in [Devices -> SUBSET Keys] /\ bKeysByDevice \in [Devices -> SUBSET Keys]
    /\ \A c \in Callers :
          /\ mPc[c] \in {"building", "reacquire", "discard"} => mKey[c] \in Keys
          /\ bPc[c] \in {"building", "reacquire", "discard"} => bKey[c] \in Keys
          /\ mBuilt[c] # None <=> mPc[c] \in {"reacquire", "discard"}
          /\ bBuilt[c] # None <=> bPc[c] \in {"reacquire", "discard"}
          /\ mBuilt[c] # None => mBuilt[c] \in mBorn
          /\ bBuilt[c] # None => bBuilt[c] \in bBorn
          /\ mPc[c] \in {"building", "reacquire"} =>
                /\ mSeenEpoch[c] <= mEpochs[Device[mKey[c]]]
                /\ mSeenGeneration[c] <= mGeneration
          /\ bPc[c] \in {"building", "reacquire"} =>
                /\ bSeenEpoch[c] <= bEpochs[Device[bKey[c]]]
                /\ bAnswer[c].kind = "none"
    /\ \A k \in Keys :
          /\ mTable[k] # None => mTable[k] \in mBorn /\ k \in mKeysByDevice[Device[k]]
          /\ bTable[k] # None =>
                bTable[k] \in bBorn /\ k \in bKeysByDevice[Device[k]] /\ bReleases[bTable[k]] = 0
    /\ \A d \in Devices : \A k \in mKeysByDevice[d] \cup bKeysByDevice[d] : Device[k] = d

LEMMA CachesKnown == CachesInv => Known
<1> SUFFICES ASSUME CachesInv PROVE Known
  OBVIOUS
<1>1. \A k \in Keys : Device[k] \in Devices /\ Device[k] # NoDevice
  BY DevicesAssumption
<1>2. MemoProofs!TypeInv /\ MemoProofs!HeldIsBorn /\ MemoProofs!Evictable
      /\ MemoProofs!SnapshotsLag /\ MemoProofs!OwnKeysOnly
  BY DEF CachesInv, MemoProofs!FreshInv, MemoProofs!WindowInv
<1>3. BackendProofs!TypeInv /\ BackendProofs!HeldIsBorn /\ BackendProofs!Evictable
      /\ BackendProofs!SnapshotsLag /\ BackendProofs!OwnKeysOnly /\ BackendProofs!Unsettled
      /\ BackendProofs!TableOwns
  BY DEF CachesInv, BackendProofs!FreshInv, BackendProofs!WindowInv, BackendProofs!OwnerInv
<1>4. /\ mTable \in [Keys -> Closures \cup {None}]
      /\ mPc \in [Callers -> Memo!PCs]
      /\ mKey \in [Callers -> Keys \cup {None}]
      /\ mEpochs \in [Devices -> Nat] /\ mGeneration \in Nat
      /\ mSeenEpoch \in [Callers -> Nat] /\ mSeenGeneration \in [Callers -> Nat]
      /\ mBuilt \in [Callers -> Closures \cup {None}]
      /\ mKeysByDevice \in [Devices -> SUBSET Keys]
  BY <1>2 DEF MemoProofs!TypeInv, MemoProofs!TypeOK, Memo!PCs, MemoProofs!PCs
<1>5. /\ bTable \in [Keys -> Handles \cup {None}]
      /\ bPc \in [Callers -> Backend!PCs]
      /\ bKey \in [Callers -> Keys \cup {None}]
      /\ bEpochs \in [Devices -> Nat] /\ bSeenEpoch \in [Callers -> Nat]
      /\ bBuilt \in [Callers -> Handles \cup {None}]
      /\ bAnswer \in [Callers -> Backend!Answers]
      /\ bKeysByDevice \in [Devices -> SUBSET Keys]
  BY <1>3 DEF BackendProofs!TypeInv, BackendProofs!TypeOK, Backend!PCs, BackendProofs!PCs,
     Backend!Answers, BackendProofs!Answers, Backend!Exceptions, BackendProofs!Exceptions
<1>6. \A c \in Callers :
          /\ mPc[c] \in {"building", "reacquire", "discard"} => mKey[c] \in Keys
          /\ mBuilt[c] # None <=> mPc[c] \in {"reacquire", "discard"}
          /\ mBuilt[c] # None => mBuilt[c] \in mBorn
          /\ mPc[c] \in {"building", "reacquire"} =>
                /\ mSeenEpoch[c] <= mEpochs[Device[mKey[c]]]
                /\ mSeenGeneration[c] <= mGeneration
  BY <1>1, <1>2 DEF MemoProofs!TypeInv, MemoProofs!KeyInWindow, MemoProofs!HoldsWhatItBuilt,
     MemoProofs!HeldIsBorn, MemoProofs!SnapshotsLag, MemoProofs!EpochAtMiss
<1>7. \A c \in Callers :
          /\ bPc[c] \in {"building", "reacquire", "discard"} => bKey[c] \in Keys
          /\ bBuilt[c] # None <=> bPc[c] \in {"reacquire", "discard"}
          /\ bBuilt[c] # None => bBuilt[c] \in bBorn
          /\ bPc[c] \in {"building", "reacquire"} =>
                /\ bSeenEpoch[c] <= bEpochs[Device[bKey[c]]]
                /\ bAnswer[c].kind = "none"
  BY <1>1, <1>3 DEF BackendProofs!TypeInv, BackendProofs!KeyInWindow, BackendProofs!HoldsWhatItBuilt,
     BackendProofs!HeldIsBorn, BackendProofs!SnapshotsLag, BackendProofs!EpochAtMiss,
     BackendProofs!Unsettled, BackendProofs!NoAnswer, BackendProofs!Answer
<1>8. \A k \in Keys :
          /\ mTable[k] # None => mTable[k] \in mBorn /\ k \in mKeysByDevice[Device[k]]
          /\ bTable[k] # None =>
                bTable[k] \in bBorn /\ k \in bKeysByDevice[Device[k]] /\ bReleases[bTable[k]] = 0
  BY <1>1, <1>2, <1>3 DEF MemoProofs!HeldIsBorn, MemoProofs!Evictable, BackendProofs!HeldIsBorn,
     BackendProofs!Evictable, BackendProofs!TableOwns
<1>9. \A d \in Devices : \A k \in mKeysByDevice[d] \cup bKeysByDevice[d] : Device[k] = d
  BY <1>2, <1>3 DEF MemoProofs!OwnKeysOnly, BackendProofs!OwnKeysOnly
<1> QED BY <1>4, <1>5, <1>6, <1>7, <1>8, <1>9 DEF Known

\* Every step is a step of the memo or leaves it alone, and likewise of the backend.
LEMMA StepsAreCacheSteps ==
    ASSUME Known, LinkTyped, StepsMatch, HoldsContext, [Next]_vars
    PROVE  [Memo!Next]_(Memo!vars) /\ [Backend!Next]_(Backend!vars)
<1>1. UNCHANGED memoVars => UNCHANGED Memo!vars
  BY DEF memoVars, Memo!vars, Memo!cacheVars, Memo!windowVars, Memo!valueVars
<1>2. UNCHANGED backendVars => UNCHANGED Backend!vars
  BY DEF backendVars, Backend!vars, Backend!cacheVars, Backend!windowVars, Backend!valueVars
<1>3. ASSUME NEW c \in Callers, NEW k \in Keys, MemoHit(c, k) \/ MemoMiss(c, k)
      PROVE  Memo!Next /\ UNCHANGED backendVars
  BY <1>3 DEF MemoHit, MemoMiss, Memo!Next
<1>4. ASSUME NEW c \in Callers, ResolveDevice(c)
      PROVE  [Memo!Next]_(Memo!vars) /\ UNCHANGED backendVars
  BY <1>1, <1>4 DEF ResolveDevice, Memo!Next
<1>5. ASSUME NEW c \in Callers, BackendBuild(c) \/ BackendPlace(c) \/ BackendRelease(c)
      PROVE  Backend!Next /\ UNCHANGED memoVars
  BY <1>5 DEF BackendBuild, BackendPlace, BackendRelease, Backend!Next
<1>6. ASSUME NEW c \in Callers, MemoBuild(c) \/ MemoPlace(c) \/ MemoRelease(c)
      PROVE  Memo!Next /\ UNCHANGED backendVars
  BY <1>6 DEF MemoBuild, MemoPlace, MemoRelease, Memo!Next
<1>7. ASSUME NEW c \in Callers, DropMemo(c) \/ DropMemoAgain(c)
      PROVE  Memo!Next /\ UNCHANGED backendVars
  BY <1>7 DEF DropMemo, DropMemoAgain, NotifyClear, Memo!Next
<1>8. ASSUME NEW c \in Callers, ReleaseHandles(c) PROVE Backend!Next /\ UNCHANGED memoVars
  BY <1>8 DEF ReleaseHandles, Backend!Next
<1>9. ASSUME NEW c \in Callers, BackendLookup(c) PROVE Backend!Next /\ UNCHANGED memoVars
  <2>1. mKey[c] \in Keys
    BY <1>9 DEF BackendLookup, StepsMatch, StepOf, Known
  <2> QED BY <1>9, <2>1 DEF BackendLookup, Backend!Next
<1>10. ASSUME NEW c \in Callers, EvictBackend(c) \/ EvictMemo(c) PROVE home[context[c]] \in Devices
  BY <1>10 DEF EvictBackend, EvictMemo, LinkTyped, HoldsContext, DestroySteps
<1>11. ASSUME NEW c \in Callers, EvictBackend(c) PROVE Backend!Next /\ UNCHANGED memoVars
  BY <1>10, <1>11 DEF EvictBackend, Backend!Next
<1>12. ASSUME NEW c \in Callers, EvictMemo(c) PROVE Memo!Next /\ UNCHANGED backendVars
  BY <1>10, <1>12 DEF EvictMemo, Memo!Next
<1>13. ASSUME NEW c \in Callers,
              ClearDone(c) \/ DestroyContext(c) \/ \E d \in Devices : RemoveDevice(c, d)
       PROVE  UNCHANGED <<memoVars, backendVars>>
  BY <1>13 DEF ClearDone, DestroyContext, RemoveDevice
<1>14. CASE UNCHANGED vars
  BY <1>1, <1>2, <1>14 DEF vars
<1>15. CASE Terminated
  BY <1>1, <1>2, <1>15 DEF Terminated, vars
<1> QED
  BY <1>1, <1>2, <1>3, <1>4, <1>5, <1>6, <1>7, <1>8, <1>9, <1>11, <1>12, <1>13, <1>14, <1>15 DEF Next

LEMMA CachesKept ==
    ASSUME CachesInv, LinkTyped, StepsMatch, HoldsContext, [Next]_vars
    PROVE  CachesInv'
  BY CachesKnown, StepsAreCacheSteps, MemoIsProved, BackendIsProved, MemoAssumptions,
     BackendAssumptions, MemoProofs!FreshInductive, MemoProofs!WindowInductive,
     BackendProofs!FreshInductive, BackendProofs!WindowInductive, BackendProofs!OwnerInductive
  DEF CachesInv

-----------------------------------------------------------------------------
(* Each step keeps the links *)

\* What the device and context invariants look at.
LEMMA DevicesUndisturbed ==
    ASSUME LinkInv, UNCHANGED <<deviceVars, context>>,
           \A c \in Callers : /\ step'[c] \in DestroySteps <=> step[c] \in DestroySteps
                              /\ step'[c] = "resolved" => step[c] = "resolved"
                              /\ step'[c] \in {"resolved", "calling"} =>
                                    step[c] \in {"resolved", "calling"} /\ mKey'[c] = mKey[c]
    PROVE  LiveDevices' /\ DestroyedHadAHome' /\ HoldsContext'
  BY DEF LinkInv, LiveDevices, DestroyedHadAHome, HoldsContext, deviceVars

\* A call that ends forgets its own locals only.
LEMMA MemoLeaves ==
    ASSUME mPc \in [Callers -> Memo!PCs], NEW c \in Callers, Memo!Leave(c)
    PROVE  /\ mPc'[c] = "idle"
           /\ \A e \in Callers \ {c} :
                 /\ mPc'[e] = mPc[e] /\ mKey'[e] = mKey[e]
                 /\ mSeenEpoch'[e] = mSeenEpoch[e] /\ mSeenGeneration'[e] = mSeenGeneration[e]
  BY DEF Memo!Leave

LEMMA BackendLeaves ==
    ASSUME bPc \in [Callers -> Backend!PCs], NEW c \in Callers, Backend!Leave(c)
    PROVE  /\ bPc'[c] = "idle"
           /\ \A e \in Callers \ {c} :
                 bPc'[e] = bPc[e] /\ bKey'[e] = bKey[e] /\ bSeenEpoch'[e] = bSeenEpoch[e]
  BY DEF Backend!Leave

\* Who has yet to tell the memo, when nobody begins or ends to owe it that.
LEMMA UntoldUndisturbed ==
    ASSUME \A c \in Callers :
              /\ step'[c] = "releasing" <=> step[c] = "releasing"
              /\ step'[c] = "evicting" <=> step[c] = "evicting"
              /\ step[c] = "evicting" => home'[context'[c]] = home[context[c]],
           NEW k \in Keys
    PROVE  Untold(k)' <=> Untold(k)
  BY DEF Untold

\* What the memo's entries and builds launch, when none is added.
LEMMA LaunchesUndisturbed ==
    ASSUME Known, LinkInv, UNCHANGED <<mTable, bTable, borrows, mEpochs, mGeneration>>,
           \A c \in Callers :
              /\ step'[c] = "releasing" <=> step[c] = "releasing"
              /\ step'[c] = "evicting" <=> step[c] = "evicting"
              /\ step[c] = "evicting" => home'[context'[c]] = home[context[c]]
              /\ mPc'[c] = "reacquire" => mPc[c] = "reacquire" /\ mBuilt'[c] = mBuilt[c]
              /\ step'[c] = "calling" => step[c] = "calling" /\ bAnswer'[c] = bAnswer[c]
              /\ mPc'[c] = "reacquire" \/ step'[c] = "calling" =>
                    /\ mKey'[c] = mKey[c] /\ mKey[c] \in Keys
                    /\ mSeenEpoch'[c] = mSeenEpoch[c] /\ mSeenGeneration'[c] = mSeenGeneration[c]
    PROVE  MemoEntriesLaunch' /\ MemoBuildsLaunch'
<1>1. \A k \in Keys : Untold(k)' <=> Untold(k)
  BY UntoldUndisturbed
<1>2. \A k \in Keys : \A h : Launchable(k, h) => (h # None /\ (bTable'[k] = h \/ Untold(k)'))
  BY <1>1 DEF Launchable
<1>3. MemoEntriesLaunch'
  BY <1>2 DEF LinkInv, MemoEntriesLaunch, Launchable
<1>4. ASSUME NEW c \in Callers, mPc'[c] = "reacquire" \/ step'[c] = "calling"
      PROVE  mKey'[c] = mKey[c] /\ mKey[c] \in Keys /\ MemoOutdated(c)' = MemoOutdated(c)
  BY <1>4 DEF MemoOutdated
<1>5. ASSUME NEW c \in Callers, mPc'[c] = "reacquire"
      PROVE  Launchable(mKey[c], borrows[mBuilt[c]]) \/ MemoOutdated(c)
  BY <1>5 DEF LinkInv, MemoBuildsLaunch
<1>6. ASSUME NEW c \in Callers, step'[c] = "calling", bAnswer'[c].kind = "value"
      PROVE  /\ bAnswer'[c] = bAnswer[c]
             /\ Launchable(mKey[c], bAnswer[c].value) \/ MemoOutdated(c)
  BY <1>6 DEF LinkInv, MemoBuildsLaunch
<1>7. MemoBuildsLaunch'
  <2>1. ASSUME NEW c \in Callers, mPc'[c] = "reacquire"
        PROVE  Launchable(mKey[c], borrows[mBuilt[c]])' \/ MemoOutdated(c)'
    BY <1>2, <1>4, <1>5, <2>1 DEF Launchable
  <2>2. ASSUME NEW c \in Callers, step'[c] = "calling", bAnswer'[c].kind = "value"
        PROVE  Launchable(mKey[c], bAnswer[c].value)' \/ MemoOutdated(c)'
    BY <1>2, <1>4, <1>6, <2>2 DEF Launchable
  <2> QED BY <2>1, <2>2 DEF MemoBuildsLaunch
<1> QED BY <1>3, <1>7

LEMMA MemoHitKeeps ==
    ASSUME Known, LinkInv, NEW c \in Callers, NEW k \in Keys, MemoHit(c, k) PROVE LinkInv'
<1>1. /\ UNCHANGED <<backendVars, deviceVars, borrows, step, context, contextOf>>
      /\ UNCHANGED <<mTable, mKey, mPc, mEpochs, mGeneration, mSeenEpoch, mSeenGeneration, mBuilt,
                     mInvalidatedByClear>>
  BY DEF MemoHit, Memo!Hit, Memo!cacheVars, Memo!windowVars
<1> QED
  BY <1>1 DEF LinkInv, LinkTyped, StepsMatch, StepOf, LiveDevices, DestroyedHadAHome, HoldsContext,
     BackendOutdated, Condemned, LoadedThere, MemoEntriesLaunch, MemoBuildsLaunch, Launchable,
     Untold, MemoOutdated, backendVars, deviceVars

LEMMA MemoMissKeeps ==
    ASSUME Known, LinkInv, NEW c \in Callers, NEW k \in Keys, MemoMiss(c, k) PROVE LinkInv'
<1> USE DEF LinkInv, Known
<1>1. /\ UNCHANGED <<backendVars, deviceVars, borrows, context, contextOf>>
      /\ step[c] = "idle" /\ mPc[c] = "idle"
      /\ step' = [step EXCEPT ![c] = "missed"]
      /\ mPc' = [mPc EXCEPT ![c] = "building"] /\ mKey' = [mKey EXCEPT ![c] = k]
      /\ \A e \in Callers \ {c} : mSeenEpoch'[e] = mSeenEpoch[e]
                                  /\ mSeenGeneration'[e] = mSeenGeneration[e]
      /\ UNCHANGED <<mTable, mEpochs, mGeneration, mBuilt, mInvalidatedByClear>>
  BY DEF MemoMiss, Goto, Memo!Miss, Memo!cacheVars
<1>2. LinkTyped'
  BY <1>1 DEF LinkTyped, Steps, CompileSteps, deviceVars
<1>3. StepsMatch'
  BY <1>1 DEF LinkTyped, StepsMatch, StepOf, backendVars
<1>4. LiveDevices' /\ DestroyedHadAHome' /\ HoldsContext'
  BY <1>1, DevicesUndisturbed DEF LinkTyped, DestroySteps
<1>5. BackendOutdated' /\ LoadedThere'
  BY <1>1 DEF LinkTyped, BackendOutdated, Condemned, LoadedThere, backendVars, deviceVars
<1>6. MemoEntriesLaunch' /\ MemoBuildsLaunch'
  BY <1>1, LaunchesUndisturbed DEF LinkTyped, StepsMatch, StepOf, backendVars, deviceVars
<1> QED BY <1>1, <1>2, <1>3, <1>4, <1>5, <1>6

LEMMA ResolveDeviceKeeps ==
    ASSUME Known, LinkInv, NEW c \in Callers, ResolveDevice(c) PROVE LinkInv'
<1> USE DEF LinkInv, Known
<1> DEFINE d == Device[mKey[c]]
<1>1. /\ step[c] = "missed" /\ mPc[c] = "building" /\ mKey[c] \in Keys /\ d \in Devices
      /\ bPc[c] = "idle"
  BY DevicesAssumption DEF ResolveDevice, StepsMatch, StepOf
<1>2. UNCHANGED <<backendVars, borrows, contextOf, destroyed>>
  BY DEF ResolveDevice, deviceVars
<1>3. CASE deviceCache[d] # None /\ UNCHANGED <<memoVars, deviceVars>>
           /\ context' = [context EXCEPT ![c] = deviceCache[d]]
           /\ step' = [step EXCEPT ![c] = "resolved"]
  <2>1. LinkTyped'
    BY <1>1, <1>2, <1>3 DEF LinkTyped, Steps, CompileSteps, deviceVars
  <2>2. StepsMatch'
    BY <1>1, <1>2, <1>3 DEF LinkTyped, StepsMatch, StepOf, backendVars, memoVars
  <2>3. LiveDevices' /\ DestroyedHadAHome' /\ HoldsContext'
    BY <1>1, <1>2, <1>3 DEF LinkTyped, LiveDevices, DestroyedHadAHome, HoldsContext, DestroySteps,
       deviceVars, memoVars
  <2>4. BackendOutdated' /\ LoadedThere'
    BY <1>1, <1>2, <1>3 DEF LinkTyped, BackendOutdated, Condemned, LoadedThere, backendVars,
       deviceVars, memoVars
  <2>5. MemoEntriesLaunch' /\ MemoBuildsLaunch'
    BY <1>1, <1>2, <1>3, LaunchesUndisturbed DEF LinkTyped, StepsMatch, StepOf, backendVars,
       deviceVars, memoVars
  <2> QED BY <1>3, <2>1, <2>2, <2>3, <2>4, <2>5 DEF memoVars
<1>4. ASSUME NEW x \in Contexts, deviceCache[d] = None, home[x] = None, UNCHANGED memoVars,
             context' = [context EXCEPT ![c] = x],
             deviceCache' = [deviceCache EXCEPT ![d] = x],
             home' = [home EXCEPT ![x] = d],
             step' = [step EXCEPT ![c] = "resolved"]
      PROVE  LinkInv'
  <2>0. x # None /\ d # None
    BY <1>1, NothingAssumption
  <2>1. LinkTyped'
    BY <1>1, <1>2, <1>4 DEF LinkTyped, Steps, CompileSteps
  <2>2. StepsMatch'
    BY <1>1, <1>2, <1>4 DEF LinkTyped, StepsMatch, StepOf, backendVars, memoVars
  <2>3. LiveDevices'
    <3> SUFFICES ASSUME NEW e \in Devices, deviceCache'[e] # None
                 PROVE  /\ home'[deviceCache'[e]] = e
                        /\ deviceCache'[e] \notin destroyed
                        /\ \A f \in Callers : step'[f] \in DestroySteps => context'[f] # deviceCache'[e]
      BY <1>2 DEF LiveDevices
    <3>1. CASE e = d
      BY <1>1, <1>4, <2>0, <3>1 DEF LinkTyped, DestroyedHadAHome, HoldsContext, DestroySteps
    <3>2. CASE e # d
      <4>1. deviceCache'[e] = deviceCache[e] /\ home[deviceCache[e]] = e /\ deviceCache[e] # x
        BY <1>4, <2>0, <3>2, NothingAssumption DEF LinkTyped, LiveDevices
      <4>2. home'[deviceCache[e]] = e
        BY <1>4, <4>1 DEF LinkTyped
      <4>3. ASSUME NEW f \in Callers, step'[f] \in DestroySteps
            PROVE  step[f] \in DestroySteps /\ context'[f] = context[f]
        BY <1>4, <4>3 DEF LinkTyped, DestroySteps
      <4> QED BY <4>1, <4>2, <4>3 DEF LiveDevices
    <3> QED BY <3>1, <3>2
  <2>4. DestroyedHadAHome'
    BY <1>1, <1>2, <1>4, <2>0 DEF LinkTyped, DestroyedHadAHome
  <2>5. HoldsContext'
    BY <1>1, <1>2, <1>4, <2>0, DevicesAssumption, NothingAssumption
    DEF LinkTyped, HoldsContext, DestroySteps, StepsMatch, StepOf, memoVars
  <2>6. BackendOutdated' /\ LoadedThere'
    BY <1>1, <1>2, <1>4, <2>0, DevicesAssumption, NothingAssumption
    DEF LinkTyped, BackendOutdated, Condemned, LoadedThere, backendVars, memoVars
  <2>7. MemoEntriesLaunch' /\ MemoBuildsLaunch'
    BY <1>1, <1>2, <1>4, <2>0, LaunchesUndisturbed DEF LinkTyped, StepsMatch, StepOf, HoldsContext,
       DestroySteps, backendVars, memoVars
  <2> QED BY <1>4, <2>1, <2>2, <2>3, <2>4, <2>5, <2>6, <2>7 DEF memoVars
<1>5. ASSUME Memo!BuildRaises(c), UNCHANGED <<deviceVars, context>>,
             step' = [step EXCEPT ![c] = "idle"]
      PROVE  LinkInv'
  <2>1. /\ mPc' = [mPc EXCEPT ![c] = "idle"]
        /\ \A e \in Callers \ {c} : mSeenEpoch'[e] = mSeenEpoch[e]
                                  /\ mSeenGeneration'[e] = mSeenGeneration[e] /\ mKey'[e] = mKey[e]
        /\ UNCHANGED <<mTable, mEpochs, mGeneration, mBuilt, mInvalidatedByClear>>
    BY <1>5 DEF Memo!BuildRaises, Memo!Leave, Memo!cacheVars
  <2>2. LinkTyped'
    BY <1>1, <1>2, <1>5 DEF LinkTyped, Steps, deviceVars
  <2>3. StepsMatch'
    BY <1>1, <1>2, <1>5, <2>1 DEF LinkTyped, StepsMatch, StepOf, backendVars
  <2>4. LiveDevices' /\ DestroyedHadAHome' /\ HoldsContext'
    BY <1>1, <1>2, <1>5, <2>1, DevicesUndisturbed DEF LinkTyped, DestroySteps
  <2>5. BackendOutdated' /\ LoadedThere'
    BY <1>1, <1>2, <1>5, <2>1 DEF LinkTyped, BackendOutdated, Condemned, LoadedThere, backendVars,
       deviceVars
  <2>6. MemoEntriesLaunch' /\ MemoBuildsLaunch'
    BY <1>1, <1>2, <1>5, <2>1, LaunchesUndisturbed DEF LinkTyped, StepsMatch, StepOf, backendVars,
       deviceVars
  <2> QED BY <2>1, <2>2, <2>3, <2>4, <2>5, <2>6
<1> QED BY <1>3, <1>4, <1>5 DEF ResolveDevice, Goto, deviceVars

LEMMA BackendLookupKeeps ==
    ASSUME Known, LinkInv, NEW c \in Callers, BackendLookup(c) PROVE LinkInv'
<1> USE DEF LinkInv, Known
<1>1. /\ step[c] = "resolved" /\ mPc[c] = "building" /\ bPc[c] = "idle" /\ mKey[c] \in Keys
      /\ Device[mKey[c]] \in Devices
      /\ step' = [step EXCEPT ![c] = "calling"]
      /\ UNCHANGED <<memoVars, deviceVars, borrows, context, contextOf>>
      /\ UNCHANGED <<bTable, bEpochs, bBuilt>>
  BY DevicesAssumption DEF BackendLookup, Goto, StepsMatch, StepOf, Backend!Hit, Backend!Miss,
     Backend!cacheVars
<1>2. \/ /\ UNCHANGED <<bPc, bKey, bSeenEpoch>>
         /\ bTable[mKey[c]] # None
         /\ bAnswer' = [bAnswer EXCEPT ![c] = [kind |-> "value", value |-> bTable[mKey[c]]]]
      \/ /\ bPc' = [bPc EXCEPT ![c] = "building"] /\ bKey' = [bKey EXCEPT ![c] = mKey[c]]
         /\ \A e \in Callers \ {c} : bSeenEpoch'[e] = bSeenEpoch[e]
         /\ bAnswer' = [bAnswer EXCEPT ![c] = [kind |-> "none", value |-> None]]
  BY DEF BackendLookup, Backend!Hit, Backend!Miss, Backend!cacheVars, Backend!windowVars,
     Backend!Returned, Backend!NoAnswer, Backend!Answer
<1>3. LinkTyped'
  BY <1>1 DEF LinkTyped, Steps, CompileSteps, deviceVars
<1>4. StepsMatch'
  BY <1>1, <1>2 DEF LinkTyped, StepsMatch, StepOf, memoVars
<1>5. LiveDevices' /\ DestroyedHadAHome' /\ HoldsContext'
  BY <1>1, DevicesUndisturbed DEF LinkTyped, DestroySteps, memoVars
<1>6. ~Condemned(context[c])
  BY <1>1 DEF HoldsContext, LiveDevices, Condemned, DestroySteps
<1>7. \A x : Condemned(x)' <=> Condemned(x)
  BY <1>1 DEF LinkTyped, Condemned, deviceVars
<1>8. BackendOutdated'
  BY <1>1, <1>2, <1>6, <1>7 DEF LinkTyped, BackendOutdated, memoVars
<1>9. LoadedThere'
  BY <1>1, <1>2, <1>7 DEF LinkTyped, LoadedThere, deviceVars
<1>10. MemoEntriesLaunch' /\ MemoBuildsLaunch'
  <2>1. \A k \in Keys : Untold(k)' <=> Untold(k)
    BY <1>1, UntoldUndisturbed DEF LinkTyped, deviceVars
  <2>2. MemoEntriesLaunch'
    BY <1>1, <2>1 DEF MemoEntriesLaunch, Launchable, memoVars
  <2>3. \A e \in Callers : mPc'[e] = "reacquire" =>
           Launchable(mKey[e], borrows[mBuilt[e]])' \/ MemoOutdated(e)'
    BY <1>1, <2>1 DEF MemoBuildsLaunch, Launchable, MemoOutdated, memoVars
  <2>4. \A e \in Callers : step'[e] = "calling" /\ bAnswer'[e].kind = "value" =>
           Launchable(mKey[e], bAnswer[e].value)' \/ MemoOutdated(e)'
    <3> SUFFICES ASSUME NEW e \in Callers, step'[e] = "calling", bAnswer'[e].kind = "value"
                 PROVE  Launchable(mKey[e], bAnswer[e].value)' \/ MemoOutdated(e)'
      OBVIOUS
    <3>1. CASE e = c
      BY <1>1, <1>2, <3>1 DEF Launchable, memoVars
    <3>2. CASE e # c
      <4>1. step[e] = "calling" /\ bAnswer'[e] = bAnswer[e] /\ mKey[e] \in Keys
        BY <1>1, <1>2, <3>2 DEF LinkTyped, StepsMatch, StepOf
      <4>2. Launchable(mKey[e], bAnswer[e].value) \/ MemoOutdated(e)
        BY <4>1 DEF MemoBuildsLaunch
      <4> QED BY <1>1, <2>1, <4>1, <4>2 DEF Launchable, MemoOutdated, memoVars
    <3> QED BY <3>1, <3>2
  <2> QED BY <2>2, <2>3, <2>4 DEF MemoBuildsLaunch, memoVars
<1> QED BY <1>1, <1>3, <1>4, <1>5, <1>8, <1>9, <1>10 DEF memoVars

LEMMA BackendBuildKeeps ==
    ASSUME Known, LinkInv, NEW c \in Callers, BackendBuild(c) PROVE LinkInv'
<1> USE DEF LinkInv, Known
<1>1. /\ step[c] = "calling" /\ mPc[c] = "building" /\ bPc[c] = "building"
      /\ mKey[c] \in Keys /\ bKey[c] = mKey[c]
      /\ UNCHANGED <<memoVars, deviceVars, borrows, step, context>>
      /\ UNCHANGED <<bTable, bEpochs>>
  BY DEF BackendBuild, StepsMatch, StepOf, Backend!BuildReturns, Backend!BuildRaises, Backend!cacheVars
<1>2. StepsMatch' /\ LiveDevices' /\ DestroyedHadAHome' /\ HoldsContext'
  <2>1. /\ \A e \in Callers \ {c} : bPc'[e] = bPc[e] /\ bKey'[e] = bKey[e]
        /\ bPc'[c] = "reacquire" => bKey'[c] = bKey[c]
        /\ bPc'[c] \in {"idle", "reacquire"}
    <3>1. ASSUME NEW h \in Handles, Backend!BuildReturns(c, h)
          PROVE  bPc' = [bPc EXCEPT ![c] = "reacquire"] /\ bKey' = bKey
      BY <3>1 DEF Backend!BuildReturns, Backend!windowVars
    <3>2. CASE Backend!BuildRaises(c)
      <4>1. Backend!Leave(c)
        BY <3>2 DEF Backend!BuildRaises
      <4> QED BY <4>1, BackendLeaves
    <3> QED BY <3>1, <3>2 DEF BackendBuild
  <2> QED BY <1>1, <2>1, DevicesUndisturbed DEF StepsMatch, StepOf, memoVars
<1>3. \A x : Condemned(x)' <=> Condemned(x)
  BY <1>1 DEF Condemned, deviceVars
<1>4. \A k \in Keys : Untold(k)' <=> Untold(k)
  BY <1>1, UntoldUndisturbed DEF deviceVars
<1>5. MemoEntriesLaunch'
  BY <1>1, <1>4 DEF MemoEntriesLaunch, Launchable, memoVars
<1>6. CASE \E h \in Handles : /\ context[c] \notin destroyed /\ Backend!BuildReturns(c, h)
                              /\ contextOf' = [contextOf EXCEPT ![h] = LoadedIn(c)]
  <2>1. PICK h \in Handles : /\ Backend!BuildReturns(c, h)
                             /\ contextOf' = [contextOf EXCEPT ![h] = context[c]]
    BY <1>6 DEF LoadedIn
  <2>2. /\ h \notin bBorn /\ bPc' = [bPc EXCEPT ![c] = "reacquire"]
        /\ bBuilt' = [bBuilt EXCEPT ![c] = h]
        /\ UNCHANGED <<bKey, bSeenEpoch, bAnswer>>
    BY <2>1 DEF Backend!BuildReturns, Backend!windowVars
  <2>3. LinkTyped'
    BY <1>1, <2>1 DEF LinkTyped, deviceVars
  <2>4. BackendOutdated'
    BY <1>1, <1>3, <2>2 DEF BackendOutdated, memoVars
  <2>5. LoadedThere'
    BY <1>1, <1>3, <2>1, <2>2 DEF LinkTyped, LoadedThere, deviceVars
  <2>6. MemoBuildsLaunch'
    BY <1>1, <2>2, LaunchesUndisturbed DEF StepsMatch, StepOf, memoVars, deviceVars
  <2> QED BY <1>1, <1>2, <1>5, <2>3, <2>4, <2>5, <2>6 DEF memoVars
<1>7. CASE Backend!BuildRaises(c) /\ UNCHANGED contextOf
  <2>1. /\ bPc' = [bPc EXCEPT ![c] = "idle"] /\ bBuilt' = bBuilt
        /\ \A e \in Callers \ {c} : bSeenEpoch'[e] = bSeenEpoch[e]
        /\ bAnswer' = [bAnswer EXCEPT ![c] = [kind |-> "build_failed", value |-> None]]
    BY <1>7 DEF Backend!BuildRaises, Backend!Leave, Backend!Raised, Backend!Answer
  <2>2. LinkTyped'
    BY <1>1, <1>7 DEF LinkTyped, deviceVars
  <2>3. BackendOutdated'
    BY <1>1, <1>3, <2>1 DEF BackendOutdated, memoVars
  <2>4. LoadedThere'
    BY <1>1, <1>3, <1>7, <2>1 DEF LoadedThere, deviceVars
  <2>5. MemoBuildsLaunch'
    <3>1. \A e \in Callers : bAnswer'[e].kind = "value" => bAnswer'[e] = bAnswer[e]
      BY <2>1
    <3> QED BY <1>1, <1>4, <3>1 DEF MemoBuildsLaunch, Launchable, MemoOutdated, StepsMatch, StepOf, memoVars
  <2> QED BY <1>1, <1>2, <1>5, <2>2, <2>3, <2>4, <2>5 DEF memoVars
<1> QED BY <1>6, <1>7 DEF BackendBuild

\* Placing what the backend built: installed, or given up for the winner's or for an
\* exception.
LEMMA BackendPlaceKeeps ==
    ASSUME Known, LinkInv, NEW c \in Callers, BackendPlace(c) PROVE LinkInv'
<1> USE DEF LinkInv, Known
<1>1. /\ step[c] = "calling" /\ mPc[c] = "building" /\ bPc[c] \in {"reacquire", "discard"}
      /\ mKey[c] \in Keys /\ bKey[c] = mKey[c] /\ Device[mKey[c]] \in Devices
      /\ Device[mKey[c]] # NoDevice
      /\ UNCHANGED <<memoVars, deviceVars, borrows, step, context, contextOf, bEpochs>>
  BY DevicesAssumption DEF BackendPlace, StepsMatch, StepOf, Backend!Install, Backend!GiveUp, Backend!Discard,
     Backend!cacheVars
<1>2. \A e \in Callers \ {c} :
         bPc'[e] = bPc[e] /\ bKey'[e] = bKey[e] /\ bSeenEpoch'[e] = bSeenEpoch[e]
         /\ bBuilt'[e] = bBuilt[e] /\ bAnswer'[e] = bAnswer[e]
  <2>1. CASE Backend!Install(c) \/ Backend!Discard(c)
    BY <2>1 DEF Backend!Install, Backend!Discard, Backend!Leave
  <2>2. CASE Backend!GiveUp(c)
    BY <2>2 DEF Backend!GiveUp, Backend!windowVars
  <2> QED BY <2>1, <2>2 DEF BackendPlace
<1>3. bPc'[c] = "idle" \/ (bPc'[c] = "discard" /\ bKey'[c] = bKey[c])
  <2>1. CASE Backend!Install(c) \/ Backend!Discard(c)
    BY <2>1 DEF Backend!Install, Backend!Discard, Backend!Leave
  <2>2. CASE Backend!GiveUp(c)
    BY <2>2 DEF Backend!GiveUp, Backend!windowVars
  <2> QED BY <2>1, <2>2 DEF BackendPlace
<1>4. LinkTyped' /\ StepsMatch' /\ LiveDevices' /\ DestroyedHadAHome' /\ HoldsContext'
  BY <1>1, <1>2, <1>3, DevicesUndisturbed DEF LinkTyped, StepsMatch, StepOf, memoVars, deviceVars
<1>5. \A x : Condemned(x)' <=> Condemned(x)
  BY <1>1 DEF Condemned, deviceVars
<1>6. BackendOutdated'
  BY <1>1, <1>2, <1>3, <1>5 DEF BackendOutdated, memoVars
<1>7. \A k \in Keys : Untold(k)' <=> Untold(k)
  BY <1>1, UntoldUndisturbed DEF deviceVars
<1>8. CASE Backend!Install(c)
  <2>1. /\ bPc[c] = "reacquire" /\ bTable[mKey[c]] = None
        /\ bSeenEpoch[c] = bEpochs[Device[mKey[c]]]
        /\ bTable' = [bTable EXCEPT ![mKey[c]] = bBuilt[c]]
        /\ bAnswer' = [bAnswer EXCEPT ![c] = [kind |-> "value", value |-> bBuilt[c]]]
        /\ bBuilt[c] \in Handles /\ bBuilt[c] # None
    BY <1>1, <1>8 DEF Backend!Install, Backend!Lost, Backend!Stale, Backend!EpochAtMiss,
       Backend!Returned, Backend!Answer
  <2>2. ~Condemned(context[c])
    BY <1>1, <2>1 DEF BackendOutdated
  <2>3. LoadedThere'
    <3>1. \A e \in Callers : bPc'[e] = "reacquire" => contextOf'[bBuilt'[e]] = context'[e]
      BY <1>1, <1>2, <1>3 DEF LoadedThere
    <3>2. contextOf[bBuilt[c]] = context[c] /\ context[c] # None /\ home[context[c]] = Device[mKey[c]]
      BY <1>1, <2>1 DEF LoadedThere, HoldsContext
    <3> QED BY <1>1, <1>5, <2>1, <2>2, <3>1, <3>2 DEF LoadedThere, deviceVars
  <2>4. \A k \in Keys : \A h : Launchable(k, h) => Launchable(k, h)'
    BY <1>7, <2>1 DEF Launchable
  <2>5. MemoEntriesLaunch'
    BY <1>1, <2>4 DEF MemoEntriesLaunch, Launchable, memoVars
  <2>6. MemoBuildsLaunch'
    <3>1. \A e \in Callers : mPc'[e] = "reacquire" =>
             Launchable(mKey[e], borrows[mBuilt[e]])' \/ MemoOutdated(e)'
      <4> SUFFICES ASSUME NEW e \in Callers, mPc'[e] = "reacquire"
                   PROVE  Launchable(mKey[e], borrows[mBuilt[e]])' \/ MemoOutdated(e)'
        OBVIOUS
      <4>1. mPc[e] = "reacquire" /\ mKey[e] \in Keys
        BY <1>1 DEF memoVars
      <4>2. Launchable(mKey[e], borrows[mBuilt[e]]) \/ MemoOutdated(e)
        BY <4>1 DEF MemoBuildsLaunch
      <4> QED BY <1>1, <2>4, <4>1, <4>2 DEF Launchable, MemoOutdated, memoVars
    <3>2. \A e \in Callers : step'[e] = "calling" /\ bAnswer'[e].kind = "value" =>
             Launchable(mKey[e], bAnswer[e].value)' \/ MemoOutdated(e)'
      <4> SUFFICES ASSUME NEW e \in Callers, step'[e] = "calling", bAnswer'[e].kind = "value"
                   PROVE  Launchable(mKey[e], bAnswer[e].value)' \/ MemoOutdated(e)'
        OBVIOUS
      <4>1. CASE e = c
        BY <1>1, <2>1, <4>1 DEF Launchable, memoVars
      <4>2. CASE e # c
        <5>1. step[e] = "calling" /\ bAnswer'[e] = bAnswer[e] /\ mKey[e] \in Keys
          BY <1>1, <1>2, <4>2 DEF StepsMatch, StepOf
        <5>2. Launchable(mKey[e], bAnswer[e].value) \/ MemoOutdated(e)
          BY <5>1 DEF MemoBuildsLaunch
        <5>3. MemoOutdated(e) => MemoOutdated(e)'
          BY <1>1 DEF MemoOutdated, memoVars
        <5>4. Launchable(mKey[e], bAnswer[e].value) => Launchable(mKey[e], bAnswer[e].value)'
          BY <1>1, <1>7, <2>1, <5>1 DEF Launchable, memoVars
        <5> QED BY <5>2, <5>3, <5>4
      <4> QED BY <4>1, <4>2
    <3> QED BY <3>1, <3>2 DEF MemoBuildsLaunch
  <2> QED BY <1>1, <1>4, <1>6, <2>3, <2>5, <2>6 DEF memoVars
<1>9. CASE Backend!GiveUp(c) \/ Backend!Discard(c)
  <2>1. bTable' = bTable
    BY <1>9 DEF Backend!GiveUp, Backend!Discard, Backend!cacheVars
  <2>2. bAnswer'[c].kind = "value" =>
           \/ bAnswer'[c] = bAnswer[c]
           \/ bTable[mKey[c]] # None /\ bAnswer'[c].value = bTable[mKey[c]]
    <3>1. CASE Backend!Discard(c)
      BY <3>1 DEF Backend!Discard
    <3>2. CASE Backend!GiveUp(c)
      BY <1>1, <3>2 DEF Backend!GiveUp, Backend!Lost, Backend!WinnerAnswer, Backend!Returned, Backend!Raised,
         Backend!Answer
    <3> QED BY <1>9, <3>1, <3>2
  <2>3. LoadedThere'
    BY <1>1, <1>2, <1>3, <1>5, <2>1 DEF LoadedThere, deviceVars
  <2>4. MemoEntriesLaunch'
    BY <1>1, <1>7, <2>1 DEF MemoEntriesLaunch, Launchable, memoVars
  <2>5. MemoBuildsLaunch'
    <3>1. \A e \in Callers : mPc'[e] = "reacquire" =>
             Launchable(mKey[e], borrows[mBuilt[e]])' \/ MemoOutdated(e)'
      BY <1>1, <1>7, <2>1 DEF MemoBuildsLaunch, Launchable, MemoOutdated, memoVars
    <3>2. \A e \in Callers : step'[e] = "calling" /\ bAnswer'[e].kind = "value" =>
             Launchable(mKey[e], bAnswer[e].value)' \/ MemoOutdated(e)'
      <4> SUFFICES ASSUME NEW e \in Callers, step'[e] = "calling", bAnswer'[e].kind = "value"
                   PROVE  Launchable(mKey[e], bAnswer[e].value)' \/ MemoOutdated(e)'
        OBVIOUS
      <4>1. step[e] = "calling" /\ mKey'[e] = mKey[e] /\ mKey[e] \in Keys
        BY <1>1 DEF StepsMatch, StepOf, memoVars
      <4>2. CASE bAnswer'[e] = bAnswer[e]
        BY <1>1, <1>7, <2>1, <4>1, <4>2 DEF MemoBuildsLaunch, Launchable, MemoOutdated, memoVars
      <4>3. CASE bAnswer'[e] # bAnswer[e]
        BY <1>1, <1>2, <2>1, <2>2, <4>1, <4>3 DEF Launchable
      <4> QED BY <4>2, <4>3
    <3> QED BY <3>1, <3>2 DEF MemoBuildsLaunch
  <2> QED BY <1>1, <1>4, <1>6, <2>3, <2>4, <2>5 DEF memoVars
<1> QED BY <1>8, <1>9 DEF BackendPlace

\* The memo's build hands on what the backend answered.
LEMMA MemoBuildKeeps ==
    ASSUME Known, LinkInv, NEW c \in Callers, MemoBuild(c) PROVE LinkInv'
<1> USE DEF LinkInv, Known
<1>1. /\ step[c] = "calling" /\ mPc[c] = "building" /\ bPc[c] = "idle" /\ mKey[c] \in Keys
      /\ step' = [step EXCEPT ![c] = "idle"] /\ context' = [context EXCEPT ![c] = None]
      /\ UNCHANGED <<backendVars, deviceVars, contextOf>>
      /\ UNCHANGED <<mTable, mEpochs, mGeneration, mInvalidatedByClear>>
      /\ mPc'[c] \in {"idle", "reacquire"}
      /\ \A e \in Callers \ {c} :
            /\ mPc'[e] = mPc[e] /\ mKey'[e] = mKey[e] /\ mBuilt'[e] = mBuilt[e]
            /\ mSeenEpoch'[e] = mSeenEpoch[e] /\ mSeenGeneration'[e] = mSeenGeneration[e]
  <2>1. /\ step[c] = "calling" /\ mPc[c] = "building" /\ bPc[c] = "idle" /\ mKey[c] \in Keys
    BY DEF MemoBuild, StepsMatch, StepOf
  <2>2. ASSUME NEW m \in Closures, Memo!BuildReturns(c, m)
        PROVE  /\ UNCHANGED <<mTable, mEpochs, mGeneration, mInvalidatedByClear, mKey, mSeenEpoch, mSeenGeneration>>
               /\ mPc' = [mPc EXCEPT ![c] = "reacquire"] /\ mBuilt' = [mBuilt EXCEPT ![c] = m]
    BY <2>2 DEF Memo!BuildReturns, Memo!cacheVars, Memo!windowVars
  <2>3. ASSUME Memo!BuildRaises(c)
        PROVE  Memo!Leave(c) /\ UNCHANGED <<mTable, mEpochs, mGeneration, mInvalidatedByClear, mBuilt>>
    BY <2>3 DEF Memo!BuildRaises, Memo!cacheVars
  <2>4. /\ step' = [step EXCEPT ![c] = "idle"] /\ context' = [context EXCEPT ![c] = None]
        /\ UNCHANGED <<backendVars, deviceVars, contextOf>>
        /\ Memo!BuildRaises(c) \/ \E m \in Closures : Memo!BuildReturns(c, m)
    BY DEF MemoBuild, Goto
  <2>5. CASE Memo!BuildRaises(c)
    BY <2>1, <2>3, <2>4, <2>5, MemoLeaves
  <2>6. CASE \E m \in Closures : Memo!BuildReturns(c, m)
    <3>1. PICK m \in Closures : Memo!BuildReturns(c, m)
      BY <2>6
    <3>2. /\ UNCHANGED <<mTable, mEpochs, mGeneration, mInvalidatedByClear, mKey, mSeenEpoch, mSeenGeneration>>
          /\ mPc' = [mPc EXCEPT ![c] = "reacquire"] /\ mBuilt' = [mBuilt EXCEPT ![c] = m]
      BY <2>2, <3>1
    <3> QED BY <2>1, <2>4, <3>2
  <2> QED BY <2>4, <2>5, <2>6
<1>2. /\ borrows' \in [Closures -> Handles \cup {None}]
      /\ \A m \in mBorn : borrows'[m] = borrows[m]
      /\ mPc'[c] = "reacquire" =>
            /\ mKey'[c] = mKey[c] /\ mSeenEpoch'[c] = mSeenEpoch[c]
            /\ mSeenGeneration'[c] = mSeenGeneration[c]
            /\ bAnswer[c].kind = "value" /\ borrows'[mBuilt'[c]] = bAnswer[c].value
  <2>1. CASE \E m \in Closures : /\ bAnswer[c].kind = "value" /\ Memo!BuildReturns(c, m)
                                 /\ borrows' = [borrows EXCEPT ![m] = bAnswer[c].value]
    <3>1. PICK m \in Closures : /\ bAnswer[c].kind = "value" /\ Memo!BuildReturns(c, m)
                                /\ borrows' = [borrows EXCEPT ![m] = bAnswer[c].value]
      BY <2>1
    <3>2. bAnswer[c].value \in Handles \cup {None}
      BY DEF Backend!Answers
    <3>3. /\ m \notin mBorn /\ mBuilt'[c] = m
          /\ UNCHANGED <<mKey, mSeenEpoch, mSeenGeneration>>
      BY <3>1 DEF Memo!BuildReturns, Memo!windowVars
    <3> QED BY <3>1, <3>2, <3>3 DEF LinkTyped
  <2>2. CASE Memo!BuildRaises(c) /\ UNCHANGED borrows
    BY <2>2 DEF LinkTyped, Memo!BuildRaises, Memo!Leave
  <2> QED BY <2>1, <2>2 DEF MemoBuild
<1>3. LinkTyped'
  BY <1>1, <1>2 DEF LinkTyped, Steps, deviceVars
<1>4. StepsMatch'
  BY <1>1 DEF LinkTyped, StepsMatch, StepOf, backendVars
<1>5. LiveDevices' /\ DestroyedHadAHome' /\ HoldsContext'
  BY <1>1 DEF LinkTyped, LiveDevices, DestroyedHadAHome, HoldsContext, DestroySteps, deviceVars
<1>6. BackendOutdated' /\ LoadedThere'
  <2>1. \A x : Condemned(x)' => Condemned(x)
    BY <1>1 DEF LinkTyped, Condemned, deviceVars
  <2>2. \A e \in Callers : step'[e] = "calling" => e # c
    BY <1>1 DEF LinkTyped
  <2>3. BackendOutdated'
    BY <1>1, <2>1, <2>2 DEF LinkTyped, BackendOutdated, backendVars
  <2>4. LoadedThere'
    BY <1>1, <2>1 DEF LinkTyped, LoadedThere, backendVars, deviceVars
  <2> QED BY <2>3, <2>4
<1>7. \A k \in Keys : Untold(k)' <=> Untold(k)
  BY <1>1, UntoldUndisturbed DEF LinkTyped, deviceVars
<1>8. MemoEntriesLaunch'
  BY <1>1, <1>2, <1>7 DEF MemoEntriesLaunch, Launchable, backendVars
<1>9. MemoBuildsLaunch'
  <2>1. \A e \in Callers : mPc'[e] = "reacquire" =>
           Launchable(mKey[e], borrows[mBuilt[e]])' \/ MemoOutdated(e)'
    <3> SUFFICES ASSUME NEW e \in Callers, mPc'[e] = "reacquire"
                 PROVE  Launchable(mKey[e], borrows[mBuilt[e]])' \/ MemoOutdated(e)'
      OBVIOUS
    <3>1. CASE e = c
      BY <1>1, <1>2, <1>7, <3>1 DEF MemoBuildsLaunch, Launchable, MemoOutdated, backendVars
    <3>2. CASE e # c
      <4>1. /\ mPc[e] = "reacquire" /\ mKey[e] \in Keys /\ mKey'[e] = mKey[e]
            /\ borrows'[mBuilt'[e]] = borrows[mBuilt[e]]
        BY <1>1, <1>2, <3>2
      <4>2. Launchable(mKey[e], borrows[mBuilt[e]]) \/ MemoOutdated(e)
        BY <4>1 DEF MemoBuildsLaunch
      <4> QED BY <1>1, <1>7, <3>2, <4>1, <4>2 DEF Launchable, MemoOutdated, backendVars
    <3> QED BY <3>1, <3>2
  <2>2. \A e \in Callers : step'[e] = "calling" /\ bAnswer'[e].kind = "value" =>
           Launchable(mKey[e], bAnswer[e].value)' \/ MemoOutdated(e)'
    <3> SUFFICES ASSUME NEW e \in Callers, step'[e] = "calling", bAnswer'[e].kind = "value"
                 PROVE  Launchable(mKey[e], bAnswer[e].value)' \/ MemoOutdated(e)'
      OBVIOUS
    <3>1. e # c /\ step[e] = "calling" /\ bAnswer'[e] = bAnswer[e]
      BY <1>1 DEF LinkTyped, backendVars
    <3>2. mKey[e] \in Keys
      BY <3>1 DEF StepsMatch, StepOf
    <3>3. Launchable(mKey[e], bAnswer[e].value) \/ MemoOutdated(e)
      BY <3>1 DEF MemoBuildsLaunch
    <3> QED BY <1>1, <1>7, <3>1, <3>2, <3>3 DEF Launchable, MemoOutdated, backendVars
  <2> QED BY <2>1, <2>2 DEF MemoBuildsLaunch
<1> QED BY <1>1, <1>3, <1>4, <1>5, <1>6, <1>8, <1>9

\* Placing what the memo built: an entry is added only if no teardown overtook its build.
LEMMA MemoPlaceKeeps ==
    ASSUME Known, LinkInv, NEW c \in Callers, MemoPlace(c) PROVE LinkInv'
<1> USE DEF LinkInv, Known
<1>1. /\ mPc[c] \in {"reacquire", "discard"} /\ step[c] = "idle" /\ mKey[c] \in Keys
      /\ UNCHANGED <<backendVars, deviceVars, borrows, step, context, contextOf>>
      /\ UNCHANGED <<mEpochs, mGeneration, mInvalidatedByClear>>
  BY DEF MemoPlace, LinkTyped, Steps, CompileSteps, ClearSteps, DestroySteps, StepsMatch, StepOf,
     Memo!Install, Memo!GiveUp, Memo!Discard, Memo!cacheVars
<1>2. /\ mPc'[c] \in {"idle", "discard"}
      /\ \A e \in Callers \ {c} :
            /\ mPc'[e] = mPc[e] /\ mKey'[e] = mKey[e] /\ mBuilt'[e] = mBuilt[e]
            /\ mSeenEpoch'[e] = mSeenEpoch[e] /\ mSeenGeneration'[e] = mSeenGeneration[e]
  <2>1. CASE Memo!Install(c) \/ Memo!Discard(c)
    <3>1. Memo!Leave(c) /\ mBuilt' = [mBuilt EXCEPT ![c] = None]
      BY <2>1 DEF Memo!Install, Memo!Discard
    <3> QED BY <3>1, MemoLeaves
  <2>2. CASE Memo!GiveUp(c)
    BY <2>2 DEF Memo!GiveUp, Memo!windowVars
  <2> QED BY <2>1, <2>2 DEF MemoPlace
<1>3. LinkTyped' /\ StepsMatch'
  BY <1>1, <1>2 DEF LinkTyped, StepsMatch, StepOf, backendVars, deviceVars
<1>4. LiveDevices' /\ DestroyedHadAHome' /\ HoldsContext'
  BY <1>1, <1>2, DevicesUndisturbed DEF StepsMatch, StepOf
<1>5. BackendOutdated' /\ LoadedThere'
  <2>1. \A x : Condemned(x)' <=> Condemned(x)
    BY <1>1 DEF Condemned, deviceVars
  <2> QED BY <1>1, <1>2, <2>1 DEF BackendOutdated, LoadedThere, StepsMatch, StepOf, backendVars, deviceVars
<1>6. \A k \in Keys : Untold(k)' <=> Untold(k)
  BY <1>1, UntoldUndisturbed DEF deviceVars
<1>7. MemoBuildsLaunch'
  <2>1. \A e \in Callers : mPc'[e] = "reacquire" \/ step'[e] = "calling" =>
           /\ e # c /\ mKey[e] \in Keys
           /\ MemoOutdated(e)' = MemoOutdated(e) /\ mKey'[e] = mKey[e]
           /\ mPc'[e] = mPc[e] /\ mBuilt'[e] = mBuilt[e]
    BY <1>1, <1>2 DEF MemoOutdated, StepsMatch, StepOf
  <2> QED BY <1>1, <1>6, <2>1 DEF MemoBuildsLaunch, Launchable, backendVars
<1>8. MemoEntriesLaunch'
  <2>1. CASE Memo!Install(c)
    <3>1. /\ mPc[c] = "reacquire" /\ mBuilt[c] \in Closures
          /\ mTable' = [mTable EXCEPT ![mKey[c]] = mBuilt[c]]
          /\ mSeenEpoch[c] = mEpochs[Device[mKey[c]]] /\ mSeenGeneration[c] = mGeneration
      <4>1. /\ mPc[c] = "reacquire" /\ ~Memo!Stale(c) /\ ~Memo!Cleared(c)
            /\ mTable' = [mTable EXCEPT ![mKey[c]] = mBuilt[c]]
        BY <2>1 DEF Memo!Install
      <4>2. Device[mKey[c]] # NoDevice
        BY <1>1, DevicesAssumption
      <4> QED BY <4>1, <4>2 DEF Memo!Stale, Memo!Cleared, Memo!EpochAtMiss
    <3>2. Launchable(mKey[c], borrows[mBuilt[c]])
      BY <1>1, <3>1, DevicesAssumption DEF MemoBuildsLaunch, MemoOutdated
    <3> QED BY <1>1, <1>6, <3>1, <3>2 DEF MemoEntriesLaunch, Launchable, backendVars
  <2>2. CASE Memo!GiveUp(c) \/ Memo!Discard(c)
    <3>1. mTable' = mTable
      BY <2>2 DEF Memo!GiveUp, Memo!Discard, Memo!cacheVars
    <3> QED BY <1>1, <1>6, <3>1 DEF MemoEntriesLaunch, Launchable, backendVars
  <2> QED BY <2>1, <2>2 DEF MemoPlace
<1> QED BY <1>1, <1>3, <1>4, <1>5, <1>7, <1>8

LEMMA MemoReleaseKeeps ==
    ASSUME Known, LinkInv, NEW c \in Callers, MemoRelease(c) PROVE LinkInv'
<1> USE DEF LinkInv, Known
<1>1. /\ mPc[c] = "destroying"
      /\ UNCHANGED <<backendVars, deviceVars, borrows, step, context, contextOf>>
      /\ UNCHANGED <<mTable, mEpochs, mGeneration, mInvalidatedByClear, mBuilt>>
      /\ mPc'[c] \in {"destroying", "idle"}
      /\ \A e \in Callers \ {c} :
            /\ mPc'[e] = mPc[e] /\ mKey'[e] = mKey[e]
            /\ mSeenEpoch'[e] = mSeenEpoch[e] /\ mSeenGeneration'[e] = mSeenGeneration[e]
  <2>1. ASSUME NEW m \in Closures, Memo!DestroyVictim(c, m)
        PROVE  /\ mPc[c] = "destroying"
               /\ UNCHANGED <<mPc, mKey, mSeenEpoch, mSeenGeneration, mTable, mEpochs, mGeneration,
                              mInvalidatedByClear, mBuilt>>
    BY <2>1 DEF Memo!DestroyVictim, Memo!cacheVars, Memo!windowVars
  <2>2. CASE Memo!DestroyDone(c)
    BY <2>2 DEF MemoRelease, Memo!DestroyDone, Memo!Leave, Memo!cacheVars
  <2> QED BY <2>1, <2>2 DEF MemoRelease
<1>2. LinkTyped' /\ StepsMatch'
  BY <1>1 DEF LinkTyped, StepsMatch, StepOf, backendVars, deviceVars
<1>3. LiveDevices' /\ DestroyedHadAHome' /\ HoldsContext'
  BY <1>1, DevicesUndisturbed DEF StepsMatch, StepOf
<1>4. BackendOutdated' /\ LoadedThere'
  <2>1. \A x : Condemned(x)' <=> Condemned(x)
    BY <1>1 DEF Condemned, deviceVars
  <2> QED BY <1>1, <2>1 DEF BackendOutdated, LoadedThere, StepsMatch, StepOf, backendVars, deviceVars
<1>5. MemoEntriesLaunch' /\ MemoBuildsLaunch'
  BY <1>1, LaunchesUndisturbed DEF StepsMatch, StepOf, backendVars, deviceVars
<1> QED BY <1>1, <1>2, <1>3, <1>4, <1>5

LEMMA BackendReleaseKeeps ==
    ASSUME Known, LinkInv, NEW c \in Callers, BackendRelease(c) PROVE LinkInv'
<1> USE DEF LinkInv, Known
<1>1. /\ bPc[c] = "destroying" /\ step[c] # "calling"
      /\ UNCHANGED <<memoVars, deviceVars, borrows, step, context, contextOf>>
      /\ UNCHANGED <<bTable, bEpochs, bBuilt>>
      /\ bPc'[c] \in {"destroying", "idle"}
      /\ \A e \in Callers \ {c} :
            /\ bPc'[e] = bPc[e] /\ bKey'[e] = bKey[e] /\ bSeenEpoch'[e] = bSeenEpoch[e]
            /\ bAnswer'[e] = bAnswer[e]
  <2>1. ASSUME NEW h \in Handles, Backend!DestroyVictim(c, h)
        PROVE  /\ bPc[c] = "destroying"
               /\ UNCHANGED <<bPc, bKey, bSeenEpoch, bTable, bEpochs, bBuilt>>
               /\ \A e \in Callers \ {c} : bAnswer'[e] = bAnswer[e]
    BY <2>1 DEF Backend!DestroyVictim, Backend!cacheVars, Backend!windowVars
  <2>2. CASE Backend!DestroyDone(c)
    BY <2>2 DEF BackendRelease, Backend!DestroyDone, Backend!Leave, Backend!cacheVars, StepsMatch, StepOf
  <2> QED BY <2>1, <2>2 DEF BackendRelease, StepsMatch, StepOf
<1>2. LinkTyped' /\ StepsMatch'
  BY <1>1 DEF LinkTyped, StepsMatch, StepOf, memoVars, deviceVars
<1>3. LiveDevices' /\ DestroyedHadAHome' /\ HoldsContext'
  BY <1>1, DevicesUndisturbed DEF memoVars
<1>4. BackendOutdated' /\ LoadedThere'
  <2>1. \A x : Condemned(x)' <=> Condemned(x)
    BY <1>1 DEF Condemned, deviceVars
  <2> QED BY <1>1, <2>1 DEF BackendOutdated, LoadedThere, memoVars, deviceVars
<1>5. MemoEntriesLaunch' /\ MemoBuildsLaunch'
  BY <1>1, LaunchesUndisturbed DEF StepsMatch, StepOf, memoVars, deviceVars
<1> QED BY <1>1, <1>2, <1>3, <1>4, <1>5 DEF memoVars

-----------------------------------------------------------------------------
(* Teardown *)

\* The memo is emptied: nothing of it can launch, and no build from before is placed.
LEMMA NotifyClearKeeps ==
    ASSUME Known, LinkInv, NEW c \in Callers, NEW from, NEW to, NotifyClear(c, from, to),
           <<from, to>> \in {<<"idle", "dropping">>, <<"releasing", "redropping">>}
    PROVE  LinkInv'
<1> USE DEF LinkInv, Known
<1>1. /\ step[c] = from /\ mPc[c] = "idle" /\ bPc[c] = "idle"
      /\ step' = [step EXCEPT ![c] = to]
      /\ UNCHANGED <<backendVars, deviceVars, borrows, context, contextOf>>
      /\ UNCHANGED <<mEpochs, mInvalidatedByClear, mKey, mSeenEpoch, mSeenGeneration, mBuilt>>
      /\ mGeneration' = mGeneration + 1
      /\ \A k \in Keys : mTable'[k] = None
      /\ mPc' = [mPc EXCEPT ![c] = "destroying"]
  BY DEF NotifyClear, Goto, Quiet, Memo!Clear, Memo!windowVars, Memo!Unlinked
<1>2. LinkTyped'
  BY <1>1 DEF LinkTyped, Steps, ClearSteps, deviceVars
<1>3. StepsMatch'
  BY <1>1 DEF LinkTyped, StepsMatch, StepOf, backendVars
<1>4. LiveDevices' /\ DestroyedHadAHome' /\ HoldsContext'
  BY <1>1, DevicesUndisturbed DEF LinkTyped, DestroySteps
<1>5. BackendOutdated' /\ LoadedThere'
  <2>1. \A x : Condemned(x)' <=> Condemned(x)
    BY <1>1 DEF LinkTyped, Condemned, deviceVars
  <2> QED BY <1>1, <2>1 DEF LinkTyped, BackendOutdated, LoadedThere, backendVars, deviceVars
<1>6. MemoEntriesLaunch'
  BY <1>1 DEF MemoEntriesLaunch
<1>7. MemoBuildsLaunch'
  <2>1. \A e \in Callers : mPc'[e] \in {"building", "reacquire"} => MemoOutdated(e)'
    BY <1>1 DEF MemoOutdated
  <2>2. \A e \in Callers : step'[e] = "calling" => mPc'[e] = "building"
    BY <1>3 DEF StepsMatch, StepOf
  <2> QED BY <2>1, <2>2 DEF MemoBuildsLaunch
<1> QED BY <1>1, <1>2, <1>3, <1>4, <1>5, <1>6, <1>7

\* The backend is emptied: the memo has yet to be told.
LEMMA ReleaseHandlesKeeps ==
    ASSUME Known, LinkInv, NEW c \in Callers, ReleaseHandles(c) PROVE LinkInv'
<1> USE DEF LinkInv, Known
<1>1. /\ step[c] = "dropping" /\ mPc[c] = "idle" /\ bPc[c] = "idle"
      /\ step' = [step EXCEPT ![c] = "releasing"]
      /\ UNCHANGED <<memoVars, deviceVars, borrows, context, contextOf>>
      /\ UNCHANGED <<bEpochs, bKey, bSeenEpoch, bBuilt>>
      /\ \A k \in Keys : bTable'[k] = None
      /\ bPc' = [bPc EXCEPT ![c] = "destroying"]
      /\ \A e \in Callers \ {c} : bAnswer'[e] = bAnswer[e]
  BY DEF ReleaseHandles, Goto, Quiet, Backend!Clear, Backend!windowVars, Backend!Unlinked
<1>2. LinkTyped'
  BY <1>1 DEF LinkTyped, Steps, ClearSteps, deviceVars
<1>3. StepsMatch'
  BY <1>1 DEF LinkTyped, StepsMatch, StepOf, memoVars
<1>4. LiveDevices' /\ DestroyedHadAHome' /\ HoldsContext'
  BY <1>1, DevicesUndisturbed DEF LinkTyped, DestroySteps, memoVars
<1>5. BackendOutdated' /\ LoadedThere'
  <2>1. \A x : Condemned(x)' <=> Condemned(x)
    BY <1>1 DEF LinkTyped, Condemned, deviceVars
  <2> QED BY <1>1, <2>1 DEF LinkTyped, BackendOutdated, LoadedThere, memoVars, deviceVars
<1>6. \A k \in Keys : Untold(k)'
  BY <1>1 DEF LinkTyped, Untold
<1>7. MemoEntriesLaunch'
  BY <1>1, <1>6 DEF MemoEntriesLaunch, Launchable, memoVars
<1>8. MemoBuildsLaunch'
  <2>1. \A e \in Callers : step'[e] = "calling" =>
           e # c /\ step[e] = "calling" /\ bAnswer'[e] = bAnswer[e] /\ mKey[e] \in Keys
    BY <1>1 DEF LinkTyped, StepsMatch, StepOf
  <2>2. \A e \in Callers : MemoOutdated(e)' = MemoOutdated(e)
    BY <1>1 DEF MemoOutdated, memoVars
  <2> QED BY <1>1, <1>6, <2>1, <2>2 DEF MemoBuildsLaunch, Launchable, memoVars
<1> QED BY <1>1, <1>2, <1>3, <1>4, <1>5, <1>7, <1>8 DEF memoVars

LEMMA ClearDoneKeeps ==
    ASSUME Known, LinkInv, NEW c \in Callers, ClearDone(c) PROVE LinkInv'
<1> USE DEF LinkInv, Known
<1>1. /\ step[c] = "redropping" /\ mPc[c] = "idle" /\ bPc[c] = "idle"
      /\ step' = [step EXCEPT ![c] = "idle"]
      /\ UNCHANGED <<memoVars, backendVars, deviceVars, borrows, context, contextOf>>
  BY DEF ClearDone, Goto, Quiet
<1>2. LinkTyped' /\ StepsMatch'
  BY <1>1 DEF LinkTyped, Steps, StepsMatch, StepOf, memoVars, backendVars, deviceVars
<1>3. LiveDevices' /\ DestroyedHadAHome' /\ HoldsContext'
  BY <1>1, DevicesUndisturbed DEF LinkTyped, DestroySteps, memoVars
<1>4. BackendOutdated' /\ LoadedThere'
  <2>1. \A x : Condemned(x)' <=> Condemned(x)
    BY <1>1 DEF LinkTyped, Condemned, deviceVars
  <2> QED BY <1>1, <2>1 DEF LinkTyped, BackendOutdated, LoadedThere, memoVars, backendVars, deviceVars
<1>5. MemoEntriesLaunch' /\ MemoBuildsLaunch'
  BY <1>1, LaunchesUndisturbed DEF LinkTyped, StepsMatch, StepOf, memoVars, backendVars, deviceVars
<1> QED BY <1>1, <1>2, <1>3, <1>4, <1>5 DEF memoVars

\* Nobody who has resolved the device is still to look its kernel up.
LEMMA RemoveDeviceKeeps ==
    ASSUME ResolversQuiesced, Known, LinkInv, NEW c \in Callers, NEW d \in Devices, RemoveDevice(c, d)
    PROVE  LinkInv'
<1> USE DEF LinkInv, Known
<1> DEFINE x == deviceCache[d]
<1>1. /\ step[c] = "idle" /\ mPc[c] = "idle" /\ bPc[c] = "idle" /\ x # None
      /\ \A e \in Callers : step[e] = "resolved" => context[e] # x
      /\ step' = [step EXCEPT ![c] = "removed"]
      /\ context' = [context EXCEPT ![c] = x]
      /\ deviceCache' = [deviceCache EXCEPT ![d] = None]
      /\ UNCHANGED <<memoVars, backendVars, home, destroyed, borrows, contextOf>>
  BY DEF RemoveDevice, Goto, Quiet, WithoutDevice
<1>2. home[x] = d /\ d # None
  BY <1>1, NothingAssumption DEF LiveDevices
<1>3. LinkTyped' /\ StepsMatch'
  BY <1>1 DEF LinkTyped, Steps, DestroySteps, StepsMatch, StepOf, memoVars, backendVars
<1>4. LiveDevices'
  BY <1>1, <1>2 DEF LinkTyped, LiveDevices, DestroySteps
<1>5. DestroyedHadAHome'
  BY <1>1 DEF DestroyedHadAHome
<1>6. HoldsContext'
  BY <1>1, <1>2 DEF LinkTyped, HoldsContext, LiveDevices, DestroySteps, memoVars
<1>7. BackendOutdated' /\ LoadedThere'
  <2>1. \A y : Condemned(y)' <=> Condemned(y)
    BY <1>1 DEF LinkTyped, Condemned
  <2>2. \A e \in Callers : step'[e] = "calling" \/ bPc'[e] = "reacquire" => context'[e] = context[e]
    BY <1>1 DEF LinkTyped, backendVars
  <2> QED BY <1>1, <2>1, <2>2 DEF LinkTyped, BackendOutdated, LoadedThere, memoVars, backendVars
<1>8. MemoEntriesLaunch' /\ MemoBuildsLaunch'
  BY <1>1, LaunchesUndisturbed DEF LinkTyped, StepsMatch, StepOf, memoVars, backendVars
<1> QED BY <1>1, <1>3, <1>4, <1>5, <1>6, <1>7, <1>8 DEF memoVars

\* The device's handles are unlinked: the memo has yet to be told, and builds in the
\* context that goes are outdated.
LEMMA EvictBackendKeeps ==
    ASSUME Known, LinkInv, NEW c \in Callers, EvictBackend(c) PROVE LinkInv'
<1> USE DEF LinkInv, Known
<1> DEFINE x == context[c]
           d == home[context[c]]
<1>1. /\ step[c] = "removed" /\ mPc[c] = "idle" /\ bPc[c] = "idle"
      /\ x # None /\ d # None /\ x \in Contexts /\ d \in Devices
      /\ step' = [step EXCEPT ![c] = "evicting"]
      /\ UNCHANGED <<memoVars, deviceVars, borrows, context, contextOf>>
      /\ UNCHANGED <<bKey, bSeenEpoch, bBuilt>>
      /\ bEpochs' = [bEpochs EXCEPT ![d] = bEpochs[d] + 1]
      /\ bTable' = [k \in Keys |-> IF k \in bKeysByDevice[d] THEN None ELSE bTable[k]]
      /\ bPc' = [bPc EXCEPT ![c] = "destroying"]
      /\ \A e \in Callers \ {c} : bAnswer'[e] = bAnswer[e]
  BY DEF EvictBackend, Goto, StepsMatch, StepOf, LinkTyped, HoldsContext, DestroySteps,
     Backend!EvictDevice, Backend!windowVars, Backend!Unlinked
<1>2. \A k \in Keys : bTable'[k] # None => bTable'[k] = bTable[k] /\ Device[k] # d
  BY <1>1
<1>3. LinkTyped'
  BY <1>1 DEF LinkTyped, Steps, DestroySteps, deviceVars
<1>4. StepsMatch'
  BY <1>1 DEF LinkTyped, StepsMatch, StepOf, memoVars
<1>5. LiveDevices' /\ DestroyedHadAHome' /\ HoldsContext'
  BY <1>1, DevicesUndisturbed DEF LinkTyped, DestroySteps, memoVars
<1>6. \A y : Condemned(y)' <=> (Condemned(y) \/ y = x)
  BY <1>1 DEF LinkTyped, Condemned, deviceVars
<1>7. BackendOutdated'
  <2> SUFFICES ASSUME NEW e \in Callers, step'[e] = "calling", bPc'[e] \in {"building", "reacquire"},
                      Condemned(context[e]) \/ context[e] = x
               PROVE  bSeenEpoch[e] < bEpochs'[Device[mKey[e]]]
    BY <1>1, <1>6 DEF BackendOutdated, memoVars
  <2>1. /\ e # c /\ step[e] = "calling" /\ bPc[e] \in {"building", "reacquire"}
        /\ bKey[e] = mKey[e] /\ mKey[e] \in Keys /\ Device[mKey[e]] \in Devices
        /\ home[context[e]] = Device[mKey[e]]
    BY <1>1, DevicesAssumption DEF LinkTyped, StepsMatch, StepOf, HoldsContext
  <2>2. bSeenEpoch[e] <= bEpochs[Device[mKey[e]]]
    BY <2>1
  <2>3. CASE Condemned(context[e])
    <3>1. bSeenEpoch[e] < bEpochs[Device[mKey[e]]]
      BY <2>1, <2>3 DEF BackendOutdated
    <3> QED BY <1>1, <2>1, <3>1
  <2>4. CASE context[e] = x
    BY <1>1, <2>1, <2>2, <2>4
  <2> QED BY <2>3, <2>4
<1>8. LoadedThere'
  <2>1. \A e \in Callers : bPc'[e] = "reacquire" => contextOf'[bBuilt'[e]] = context'[e]
    BY <1>1 DEF LoadedThere
  <2> QED BY <1>1, <1>2, <1>6, <2>1 DEF LoadedThere, deviceVars
<1>9. \A k \in Keys : /\ Untold(k) => Untold(k)'
                      /\ Device[k] = d => Untold(k)'
  BY <1>1 DEF LinkTyped, Untold, deviceVars
<1>10. \A k \in Keys : bTable'[k] = bTable[k] \/ Untold(k)'
  BY <1>1, <1>9
<1>11. MemoEntriesLaunch'
  BY <1>1, <1>9, <1>10 DEF MemoEntriesLaunch, Launchable, memoVars
<1>12. MemoBuildsLaunch'
  <2>1. \A e \in Callers : mPc[e] = "reacquire" \/ step'[e] = "calling" =>
           /\ mKey[e] \in Keys
           /\ step'[e] = "calling" => step[e] = "calling" /\ bAnswer'[e] = bAnswer[e]
    BY <1>1 DEF LinkTyped, StepsMatch, StepOf
  <2>2. \A e \in Callers : MemoOutdated(e)' = MemoOutdated(e)
    BY <1>1 DEF MemoOutdated, memoVars
  <2> QED BY <1>1, <1>9, <1>10, <2>1, <2>2 DEF MemoBuildsLaunch, Launchable, memoVars
<1> QED BY <1>1, <1>3, <1>4, <1>5, <1>7, <1>8, <1>11, <1>12 DEF memoVars

\* The memo is told of the device: its closures for it are dropped, and no build for it
\* from before is placed.
LEMMA EvictMemoKeeps ==
    ASSUME Known, LinkInv, NEW c \in Callers, EvictMemo(c) PROVE LinkInv'
<1> USE DEF LinkInv, Known
<1> DEFINE d == home[context[c]]
<1>1. /\ step[c] = "evicting" /\ mPc[c] = "idle" /\ bPc[c] = "idle" /\ d \in Devices
      /\ step' = [step EXCEPT ![c] = "notifying"]
      /\ UNCHANGED <<backendVars, deviceVars, borrows, context, contextOf>>
      /\ UNCHANGED <<mGeneration, mInvalidatedByClear, mKey, mSeenEpoch, mSeenGeneration, mBuilt>>
      /\ mEpochs' = [mEpochs EXCEPT ![d] = mEpochs[d] + 1]
      /\ mTable' = [k \in Keys |-> IF k \in mKeysByDevice[d] THEN None ELSE mTable[k]]
      /\ mPc' = [mPc EXCEPT ![c] = "destroying"]
  BY DEF EvictMemo, Goto, Quiet, LinkTyped, HoldsContext, DestroySteps,
     Memo!EvictDevice, Memo!windowVars, Memo!Unlinked
<1>2. \A k \in Keys : mTable'[k] # None => mTable'[k] = mTable[k] /\ Device[k] # d
  BY <1>1
<1>3. LinkTyped'
  BY <1>1 DEF LinkTyped, Steps, DestroySteps, deviceVars
<1>4. StepsMatch'
  BY <1>1 DEF LinkTyped, StepsMatch, StepOf, backendVars
<1>5. LiveDevices' /\ DestroyedHadAHome' /\ HoldsContext'
  BY <1>1, DevicesUndisturbed DEF LinkTyped, DestroySteps
<1>6. BackendOutdated' /\ LoadedThere'
  <2>1. \A x : Condemned(x)' <=> Condemned(x)
    BY <1>1 DEF LinkTyped, Condemned, deviceVars
  <2> QED BY <1>1, <2>1 DEF LinkTyped, BackendOutdated, LoadedThere, backendVars, deviceVars
<1>7. \A k \in Keys : Device[k] # d => (Untold(k)' <=> Untold(k))
  BY <1>1 DEF LinkTyped, Untold, deviceVars
<1>8. MemoEntriesLaunch'
  BY <1>1, <1>2, <1>7 DEF MemoEntriesLaunch, Launchable, backendVars
<1>9. MemoBuildsLaunch'
  <2>1. \A e \in Callers : mPc'[e] = "reacquire" \/ step'[e] = "calling" =>
           /\ mPc[e] \in {"building", "reacquire"} /\ mPc'[e] = mPc[e] /\ mKey[e] \in Keys
           /\ Device[mKey[e]] \in Devices
           /\ step'[e] = "calling" => step[e] = "calling"
    BY <1>1, DevicesAssumption DEF LinkTyped, StepsMatch, StepOf
  <2>2. ASSUME NEW e \in Callers, mPc'[e] = "reacquire" \/ step'[e] = "calling"
        PROVE  /\ Device[mKey[e]] = d => MemoOutdated(e)'
               /\ MemoOutdated(e) => MemoOutdated(e)'
    <3>1. /\ mSeenEpoch[e] <= mEpochs[Device[mKey[e]]] /\ mSeenEpoch[e] \in Nat
          /\ mEpochs[Device[mKey[e]]] \in Nat /\ Device[mKey[e]] \in Devices
      BY <2>1, <2>2
    <3> QED BY <1>1, <3>1 DEF MemoOutdated
  <2> QED BY <1>1, <1>7, <2>1, <2>2 DEF MemoBuildsLaunch, Launchable, backendVars
<1> QED BY <1>1, <1>3, <1>4, <1>5, <1>6, <1>8, <1>9

LEMMA DestroyContextKeeps ==
    ASSUME Known, LinkInv, NEW c \in Callers, DestroyContext(c) PROVE LinkInv'
<1> USE DEF LinkInv, Known
<1> DEFINE x == context[c]
<1>1. /\ step[c] = "notifying" /\ mPc[c] = "idle" /\ bPc[c] = "idle"
      /\ x # None /\ home[x] # None /\ x \in Contexts
      /\ step' = [step EXCEPT ![c] = "idle"]
      /\ context' = [context EXCEPT ![c] = None]
      /\ destroyed' = destroyed \cup {x}
      /\ UNCHANGED <<memoVars, backendVars, deviceCache, home, borrows, contextOf>>
  BY DEF DestroyContext, Goto, Quiet, LinkTyped, HoldsContext, DestroySteps
<1>2. LinkTyped' /\ StepsMatch'
  BY <1>1 DEF LinkTyped, Steps, StepsMatch, StepOf, memoVars, backendVars
<1>3. LiveDevices' /\ DestroyedHadAHome' /\ HoldsContext'
  BY <1>1 DEF LinkTyped, LiveDevices, DestroyedHadAHome, HoldsContext, DestroySteps, memoVars
<1>4. \A y : Condemned(y)' <=> Condemned(y)
  BY <1>1 DEF LinkTyped, Condemned
<1>5. BackendOutdated' /\ LoadedThere'
  <2>1. \A e \in Callers : step'[e] = "calling" \/ bPc'[e] = "reacquire" => context'[e] = context[e]
    BY <1>1 DEF LinkTyped, backendVars
  <2> QED BY <1>1, <1>4, <2>1 DEF LinkTyped, BackendOutdated, LoadedThere, memoVars, backendVars
<1>6. MemoEntriesLaunch' /\ MemoBuildsLaunch'
  BY <1>1, LaunchesUndisturbed DEF LinkTyped, StepsMatch, StepOf, memoVars, backendVars
<1> QED BY <1>1, <1>2, <1>3, <1>5, <1>6 DEF memoVars

-----------------------------------------------------------------------------
Linked == CachesInv /\ LinkInv

LEMMA LinkedInit == Init => Linked
<1> SUFFICES ASSUME Init PROVE Linked
  OBVIOUS
<1>1. CachesInv
  BY CachesInit DEF Init
<1>2. LinkInv
  BY NothingAssumption DEF Init, Memo!Init, Backend!Init, Backend!NoAnswer, Backend!Answer, LinkInv, LinkTyped, Steps, StepsMatch,
     StepOf, LiveDevices, DestroyedHadAHome, HoldsContext, CompileSteps, DestroySteps, BackendOutdated, LoadedThere,
     MemoEntriesLaunch, MemoBuildsLaunch
<1> QED BY <1>1, <1>2 DEF Linked

LEMMA LinkedInductive == ResolversQuiesced /\ Linked /\ [Next]_vars => Linked'
<1> SUFFICES ASSUME ResolversQuiesced, Linked, [Next]_vars PROVE Linked'
  OBVIOUS
<1>1. CachesInv /\ LinkInv /\ Known
  BY CachesKnown DEF Linked
<1>2. CachesInv'
  BY <1>1, CachesKept DEF LinkInv
<1>3. ASSUME NEW c \in Callers, NEW k \in Keys, MemoHit(c, k) \/ MemoMiss(c, k) PROVE LinkInv'
  BY <1>1, <1>3, MemoHitKeeps, MemoMissKeeps
<1>4. ASSUME NEW c \in Callers,
             ResolveDevice(c) \/ BackendLookup(c) \/ BackendBuild(c) \/ BackendPlace(c)
      PROVE  LinkInv'
  BY <1>1, <1>4, ResolveDeviceKeeps, BackendLookupKeeps, BackendBuildKeeps, BackendPlaceKeeps
<1>5. ASSUME NEW c \in Callers,
             MemoBuild(c) \/ MemoPlace(c) \/ MemoRelease(c) \/ BackendRelease(c)
      PROVE  LinkInv'
  BY <1>1, <1>5, MemoBuildKeeps, MemoPlaceKeeps, MemoReleaseKeeps, BackendReleaseKeeps
<1>6. ASSUME NEW c \in Callers, DropMemo(c) \/ DropMemoAgain(c) PROVE LinkInv'
  BY <1>1, <1>6, NotifyClearKeeps DEF DropMemo, DropMemoAgain
<1>7. ASSUME NEW c \in Callers, ReleaseHandles(c) \/ ClearDone(c) PROVE LinkInv'
  BY <1>1, <1>7, ReleaseHandlesKeeps, ClearDoneKeeps
<1>8. ASSUME NEW c \in Callers, NEW d \in Devices, RemoveDevice(c, d) PROVE LinkInv'
  BY <1>1, <1>8, RemoveDeviceKeeps
<1>9. ASSUME NEW c \in Callers, EvictBackend(c) \/ EvictMemo(c) \/ DestroyContext(c) PROVE LinkInv'
  BY <1>1, <1>9, EvictBackendKeeps, EvictMemoKeeps, DestroyContextKeeps
<1>10. ASSUME UNCHANGED vars PROVE LinkInv'
  BY <1>1, <1>10 DEF vars, LinkInv, LinkTyped, StepsMatch, StepOf, LiveDevices, DestroyedHadAHome, HoldsContext,
     BackendOutdated, Condemned, LoadedThere, MemoEntriesLaunch, MemoBuildsLaunch, Launchable,
     Untold, MemoOutdated, memoVars, backendVars, deviceVars
<1>11. LinkInv'
  BY <1>3, <1>4, <1>5, <1>6, <1>7, <1>8, <1>9, <1>10 DEF Next, Terminated
<1> QED BY <1>2, <1>11 DEF Linked

\* The two caches and their links are always well typed.
THEOREM LinksTyped == ResolversQuiesced => (Spec => []TypeOK)
<1>1. Linked => TypeOK
  BY DEF Linked, CachesInv, LinkInv, LinkTyped, TypeOK, MemoProofs!FreshInv, BackendProofs!FreshInv,
     MemoProofs!TypeInv, BackendProofs!TypeInv, MemoProofs!TypeOK, BackendProofs!TypeOK,
     Memo!TypeOK, Backend!TypeOK, Memo!PCs, MemoProofs!PCs, Backend!PCs, BackendProofs!PCs,
     Memo!Answers, MemoProofs!Answers, Backend!Answers, BackendProofs!Answers,
     Memo!Exceptions, MemoProofs!Exceptions, Backend!Exceptions, BackendProofs!Exceptions
<1> SUFFICES ASSUME ResolversQuiesced PROVE Spec => []TypeOK
  OBVIOUS
<1>2. Linked /\ [Next]_vars => Linked'
  BY LinkedInductive
<1> QED BY <1>1, <1>2, LinkedInit, PTL DEF Spec

LEMMA LinkedIsSafe == Linked => NothingDangles
<1> SUFFICES ASSUME Linked PROVE NothingDangles
  OBVIOUS
<1>1. LinkInv /\ Known
  BY CachesKnown DEF Linked
<1>2. ASSUME NEW k \in Keys, bTable[k] # None PROVE Live(bTable[k])
  BY <1>1, <1>2 DEF Known, LinkInv, LoadedThere, Condemned, Live
<1>3. ASSUME NEW k \in Keys, mTable[k] # None, ~Live(borrows[mTable[k]]) PROVE Untold(k)
  BY <1>1, <1>2, <1>3 DEF LinkInv, MemoEntriesLaunch, Launchable
<1> QED
  BY <1>2, <1>3 DEF NothingDangles, MemoNeverDangles, BackendNeverDangles, Untold

\* Once teardowns are through, no call is served a kernel whose module was unloaded or
\* whose context is gone, from either cache - provided a Device.destroy waits for the
\* callers that hold the device.
THEOREM NeverDangles == ResolversQuiesced => (Spec => []NothingDangles)
<1> SUFFICES ASSUME ResolversQuiesced PROVE Spec => []NothingDangles
  OBVIOUS
<1>1. Linked /\ [Next]_vars => Linked'
  BY LinkedInductive
<1> QED BY <1>1, LinkedIsSafe, LinkedInit, PTL DEF Spec
=============================================================================
