------------------------- MODULE GuardedCacheProofs -------------------------
(***************************************************************************)
(* The safety of the guarded cache, for any number of callers, keys,       *)
(* devices and values.                                                     *)
(***************************************************************************)
EXTENDS GuardedCache, TLAPS

-----------------------------------------------------------------------------
(* Typing *)

\* What unlinking a set of keys yields and leaves, and what recording a key leaves.
LEMMA UnlinkingType ==
    ASSUME TypeOK, NEW K \in SUBSET Keys
    PROVE  /\ Victims(K) \in SUBSET Values
           /\ Unlinked(K) \in [Keys -> Values \cup {None}]
  BY DEF TypeOK, Victims, Unlinked

LEMMA RecordingType ==
    ASSUME TypeOK, NEW d, NEW k \in Keys
    PROVE  RecordKeyForDevice(d, k) \in [Devices -> SUBSET Keys]
  BY DEF TypeOK, RecordKeyForDevice

LEMMA LeaveType ==
    ASSUME TypeOK, NEW c \in Callers, Leave(c)
    PROVE  /\ pc' \in [Callers -> PCs]
           /\ key' \in [Callers -> Keys \cup {None}]
           /\ seenEpoch' \in [Callers -> Nat]
           /\ seenGeneration' \in [Callers -> Nat]
           /\ missEra' \in [Callers -> Nat]
  BY DEF TypeOK, Leave, PCs

LEMMA AnswerType ==
    /\ NoAnswer \in Answers
    /\ Answer("unit", None) \in Answers
    /\ \A v \in Values \cup {None} : Returned(v) \in Answers
    /\ \A e \in Exceptions : Raised(e) \in Answers
  BY DEF NoAnswer, Answer, Returned, Raised, Answers

\* A caller that is building or back with a value works on a key.
KeyInWindow ==
    \A c \in Callers : pc[c] \in {"building", "reacquire", "discard"} => key[c] \in Keys

\* A caller has a value to place exactly when it is back from its build.
HoldsWhatItBuilt ==
    \A c \in Callers : built[c] # None <=> pc[c] \in {"reacquire", "discard"}

\* Only a teardown that is destroying holds victims.
HoldsWhatItUnlinked ==
    \A c \in Callers : victims[c] # {} => pc[c] = "destroying"

TypeInv == TypeOK /\ KeyInWindow /\ HoldsWhatItBuilt /\ HoldsWhatItUnlinked

\* The types and the shape of the calls in progress are inductive.
LEMMA TypeInductive == TypeInv /\ [Next]_vars => TypeInv'
<1> SUFFICES ASSUME TypeInv, [Next]_vars PROVE TypeInv'
  OBVIOUS
<1> USE DEF TypeInv
<1>1. ASSUME NEW c \in Callers, NEW k \in Keys, Hit(c, k) PROVE TypeInv'
  BY <1>1, AnswerType DEF Hit, TypeOK, KeyInWindow, HoldsWhatItBuilt, HoldsWhatItUnlinked,
     cacheVars, windowVars, valueVars
<1>2. ASSUME NEW c \in Callers, NEW k \in Keys, Miss(c, k) PROVE TypeInv'
  <2>1. EpochAtMiss(k) \in Nat
    BY DeviceAssumption DEF EpochAtMiss, TypeOK
  <2>2. TypeOK'
    BY <1>2, <2>1, AnswerType DEF Miss, TypeOK, PCs, cacheVars, valueVars
  <2>3. KeyInWindow' /\ HoldsWhatItBuilt' /\ HoldsWhatItUnlinked'
    BY <1>2 DEF Miss, TypeOK, KeyInWindow, HoldsWhatItBuilt, HoldsWhatItUnlinked
  <2> QED BY <2>2, <2>3
<1>3. ASSUME NEW c \in Callers, NEW v \in Values, BuildReturns(c, v) PROVE TypeInv'
  <2>1. TypeOK'
    BY <1>3 DEF BuildReturns, TypeOK, PCs, cacheVars, windowVars
  <2>2. KeyInWindow' /\ HoldsWhatItBuilt' /\ HoldsWhatItUnlinked'
    BY <1>3, NoneAssumption DEF BuildReturns, TypeOK, KeyInWindow, HoldsWhatItBuilt, HoldsWhatItUnlinked,
       windowVars
  <2> QED BY <2>1, <2>2
<1>4. ASSUME NEW c \in Callers, BuildRaises(c) PROVE TypeInv'
  <2>1. TypeOK'
    BY <1>4, LeaveType, AnswerType DEF BuildRaises, TypeOK, Exceptions, cacheVars, valueVars
  <2>2. KeyInWindow' /\ HoldsWhatItBuilt' /\ HoldsWhatItUnlinked'
    BY <1>4 DEF BuildRaises, Leave, TypeOK, KeyInWindow, HoldsWhatItBuilt, HoldsWhatItUnlinked
  <2> QED BY <2>1, <2>2
<1>5. ASSUME NEW c \in Callers, Install(c) PROVE TypeInv'
  <2>1. /\ pc[c] = "reacquire" /\ key[c] \in Keys /\ built[c] \in Values
    BY <1>5 DEF Install, KeyInWindow, HoldsWhatItBuilt, TypeOK
  <2>2. keysByDevice' \in [Devices -> SUBSET Keys]
    BY <1>5, <2>1, RecordingType DEF Install
  <2>3. table' \in [Keys -> Values \cup {None}]
    BY <1>5, <2>1 DEF Install, TypeOK
  <2>4. TypeOK'
    BY <1>5, <2>1, <2>2, <2>3, LeaveType, AnswerType DEF Install, TypeOK, valueVars
  <2>5. KeyInWindow' /\ HoldsWhatItBuilt' /\ HoldsWhatItUnlinked'
    BY <1>5 DEF Install, Leave, TypeOK, KeyInWindow, HoldsWhatItBuilt, HoldsWhatItUnlinked
  <2> QED BY <2>4, <2>5
<1>6. ASSUME NEW c \in Callers, GiveUp(c) PROVE TypeInv'
  <2>1. key[c] \in Keys
    BY <1>6 DEF GiveUp, KeyInWindow
  <2>2. answer' \in [Callers -> Answers]
    <3>1. WinnerAnswer(c) \in Answers
      BY <2>1, AnswerType DEF WinnerAnswer, TypeOK
    <3>2. /\ Raised("Device_destroyed_during_build") \in Answers
          /\ Raised("Cache_cleared_during_build") \in Answers
      BY AnswerType DEF Exceptions
    <3> QED BY <1>6, <3>1, <3>2 DEF GiveUp, TypeOK
  <2>3. TypeOK'
    BY <1>6, <2>2 DEF GiveUp, TypeOK, PCs, cacheVars, windowVars, valueVars
  <2>4. KeyInWindow' /\ HoldsWhatItBuilt' /\ HoldsWhatItUnlinked'
    BY <1>6 DEF GiveUp, TypeOK, KeyInWindow, HoldsWhatItBuilt, HoldsWhatItUnlinked,
       windowVars
  <2> QED BY <2>3, <2>4
<1>7. ASSUME NEW c \in Callers, Discard(c) PROVE TypeInv'
  <2>1. built[c] \in Values
    BY <1>7 DEF Discard, HoldsWhatItBuilt, TypeOK
  <2>2. TypeOK'
    BY <1>7, <2>1, LeaveType DEF Discard, TypeOK, cacheVars
  <2>3. KeyInWindow' /\ HoldsWhatItBuilt' /\ HoldsWhatItUnlinked'
    BY <1>7 DEF Discard, Leave, TypeOK, KeyInWindow, HoldsWhatItBuilt, HoldsWhatItUnlinked
  <2> QED BY <2>2, <2>3
<1>8. ASSUME NEW c \in Callers, NEW d \in Devices, EvictDevice(c, d) PROVE TypeInv'
  <2>1. keysByDevice[d] \in SUBSET Keys
    BY DEF TypeOK
  <2>2. /\ Victims(keysByDevice[d]) \in SUBSET Values
        /\ Unlinked(keysByDevice[d]) \in [Keys -> Values \cup {None}]
    BY <2>1, UnlinkingType
  <2>3. TypeOK'
    BY <1>8, <2>2, AnswerType DEF EvictDevice, TypeOK, PCs, windowVars, valueVars
  <2>4. KeyInWindow' /\ HoldsWhatItBuilt' /\ HoldsWhatItUnlinked'
    BY <1>8 DEF EvictDevice, TypeOK, KeyInWindow, HoldsWhatItBuilt, HoldsWhatItUnlinked,
       windowVars
  <2> QED BY <2>3, <2>4
<1>9. ASSUME NEW c \in Callers, Clear(c) PROVE TypeInv'
  <2>1. /\ Victims(Keys) \in SUBSET Values
        /\ Unlinked(Keys) \in [Keys -> Values \cup {None}]
    BY UnlinkingType
  <2>2. TypeOK'
    BY <1>9, <2>1, AnswerType DEF Clear, TypeOK, PCs, windowVars, valueVars
  <2>3. KeyInWindow' /\ HoldsWhatItBuilt' /\ HoldsWhatItUnlinked'
    BY <1>9 DEF Clear, TypeOK, KeyInWindow, HoldsWhatItBuilt, HoldsWhatItUnlinked,
       windowVars
  <2> QED BY <2>2, <2>3
<1>10. ASSUME NEW c \in Callers, NEW v \in Values, DestroyVictim(c, v) PROVE TypeInv'
  <2>1. answer' \in [Callers -> Answers]
    BY <1>10, AnswerType DEF DestroyVictim, TypeOK, Exceptions
  <2>2. TypeOK'
    <3>1. victims' \in [Callers -> SUBSET Values] /\ releases' \in [Values -> Nat]
      BY <1>10 DEF DestroyVictim, TypeOK
    <3>2. UNCHANGED <<cacheVars, pc, windowVars, built, born, birthEra, era>>
      BY <1>10 DEF DestroyVictim
    <3> QED BY <2>1, <3>1, <3>2 DEF TypeOK, cacheVars, windowVars
  <2>3. KeyInWindow' /\ HoldsWhatItBuilt' /\ HoldsWhatItUnlinked'
    BY <1>10 DEF DestroyVictim, KeyInWindow, HoldsWhatItBuilt, HoldsWhatItUnlinked,
       windowVars
  <2> QED BY <2>2, <2>3
<1>11. ASSUME NEW c \in Callers, DestroyDone(c) PROVE TypeInv'
  <2>1. TypeOK'
    BY <1>11, LeaveType, AnswerType DEF DestroyDone, TypeOK, cacheVars, valueVars
  <2>2. KeyInWindow' /\ HoldsWhatItBuilt' /\ HoldsWhatItUnlinked'
    BY <1>11 DEF DestroyDone, Leave, TypeOK, KeyInWindow, HoldsWhatItBuilt, HoldsWhatItUnlinked
  <2> QED BY <2>1, <2>2
<1>12. CASE UNCHANGED vars
  BY <1>12 DEF vars, cacheVars, windowVars, valueVars, TypeOK, KeyInWindow, HoldsWhatItBuilt, HoldsWhatItUnlinked
<1> QED
  BY <1>1, <1>2, <1>3, <1>4, <1>5, <1>6, <1>7, <1>8, <1>9, <1>10, <1>11, <1>12 DEF Next

LEMMA TypeInit == Init => TypeInv
  BY AnswerType DEF Init, TypeInv, TypeOK, KeyInWindow, HoldsWhatItBuilt,
     HoldsWhatItUnlinked, PCs

\* The cache record and the calls in progress are always well typed.
THEOREM TypeCorrect == Spec => []TypeOK
<1>1. TypeInv => TypeOK
  BY DEF TypeInv
<1> QED BY <1>1, TypeInit, TypeInductive, PTL DEF Spec

-----------------------------------------------------------------------------
(* Freshness: the epoch and generation snapshots find every teardown *)

\* Every teardown that outdates builds of a key bumps one of the two counters the
\* re-check compares.
EraIsCounted ==
    \A k \in Keys : era[k] = EpochAtMiss(k) + (IF invalidatedByClear THEN generation ELSE 0)

\* A call in its window holds the counters that stood at its miss.
SnapshotIsOfTheMiss ==
    \A c \in Callers :
        pc[c] \in {"building", "reacquire"} =>
            missEra[c] = seenEpoch[c] + (IF invalidatedByClear THEN seenGeneration[c] ELSE 0)

\* The value a call brings back was built from its own miss.
BuiltFromTheMiss ==
    \A c \in Callers : pc[c] = "reacquire" => birthEra[built[c]] = missEra[c]

HeldIsBorn ==
    /\ \A k \in Keys : table[k] # None => table[k] \in born
    /\ \A c \in Callers : built[c] # None => built[c] \in born

FreshInv ==
    /\ TypeInv
    /\ EraIsCounted
    /\ SnapshotIsOfTheMiss
    /\ BuiltFromTheMiss
    /\ HeldIsBorn
    /\ Evictable
    /\ FreshEntries

LEMMA FreshInit == Init => FreshInv
<1> SUFFICES ASSUME Init PROVE FreshInv
  OBVIOUS
<1>1. TypeInv
  BY TypeInit
<1>2. EraIsCounted
  BY DeviceAssumption DEF Init, EraIsCounted, EpochAtMiss
<1> QED
  BY <1>1, <1>2 DEF Init, FreshInv, SnapshotIsOfTheMiss, BuiltFromTheMiss, HeldIsBorn,
     Evictable, FreshEntries

LEMMA FreshInductive == FreshInv /\ [Next]_vars => FreshInv'
<1> SUFFICES ASSUME FreshInv, [Next]_vars PROVE FreshInv'
  OBVIOUS
<1> USE DEF FreshInv
<1>0. TypeInv' /\ TypeOK /\ TypeOK'
  BY TypeInductive DEF TypeInv
<1>1. ASSUME NEW c \in Callers, NEW k \in Keys, Hit(c, k) PROVE FreshInv'
  BY <1>0, <1>1 DEF Hit, cacheVars, windowVars, valueVars, EraIsCounted, EpochAtMiss,
     SnapshotIsOfTheMiss, BuiltFromTheMiss, HeldIsBorn, Evictable, FreshEntries
<1>2. ASSUME NEW c \in Callers, NEW k \in Keys, Miss(c, k) PROVE FreshInv'
  <2>1. SnapshotIsOfTheMiss'
    BY <1>0, <1>2 DEF Miss, TypeOK, SnapshotIsOfTheMiss, EraIsCounted, cacheVars
  <2>2. BuiltFromTheMiss' /\ HeldIsBorn'
    BY <1>0, <1>2 DEF Miss, TypeOK, BuiltFromTheMiss, HeldIsBorn, cacheVars, valueVars
  <2>3. EraIsCounted' /\ Evictable' /\ FreshEntries'
    BY <1>2 DEF Miss, EraIsCounted, EpochAtMiss, Evictable, FreshEntries, cacheVars, valueVars
  <2> QED BY <1>0, <2>1, <2>2, <2>3
<1>3. ASSUME NEW c \in Callers, NEW v \in Values, BuildReturns(c, v) PROVE FreshInv'
  <2>1. SnapshotIsOfTheMiss'
    BY <1>0, <1>3 DEF BuildReturns, TypeOK, SnapshotIsOfTheMiss, cacheVars, windowVars
  <2>2. BuiltFromTheMiss'
    BY <1>0, <1>3 DEF BuildReturns, TypeOK, TypeInv, HoldsWhatItBuilt, BuiltFromTheMiss,
       HeldIsBorn, windowVars
  <2>3. HeldIsBorn'
    BY <1>0, <1>3 DEF BuildReturns, TypeOK, HeldIsBorn, cacheVars
  <2>4. FreshEntries'
    BY <1>0, <1>3 DEF BuildReturns, TypeOK, HeldIsBorn, FreshEntries, cacheVars
  <2>5. EraIsCounted' /\ Evictable'
    BY <1>3 DEF BuildReturns, EraIsCounted, EpochAtMiss, Evictable, cacheVars
  <2> QED BY <1>0, <2>1, <2>2, <2>3, <2>4, <2>5
<1>4. ASSUME NEW c \in Callers, BuildRaises(c) PROVE FreshInv'
  <2>1. SnapshotIsOfTheMiss' /\ BuiltFromTheMiss'
    BY <1>0, <1>4 DEF BuildRaises, Leave, TypeOK, SnapshotIsOfTheMiss, BuiltFromTheMiss,
       cacheVars, valueVars
  <2>2. EraIsCounted' /\ HeldIsBorn' /\ Evictable' /\ FreshEntries'
    BY <1>4 DEF BuildRaises, EraIsCounted, EpochAtMiss, HeldIsBorn, Evictable, FreshEntries,
       cacheVars, valueVars
  <2> QED BY <1>0, <2>1, <2>2
<1>5. ASSUME NEW c \in Callers, Install(c) PROVE FreshInv'
  <2>1. /\ pc[c] = "reacquire" /\ key[c] \in Keys
        /\ built[c] \in Values /\ built[c] # None
    BY <1>5, <1>0 DEF Install, TypeInv, KeyInWindow, HoldsWhatItBuilt, TypeOK
  <2>2. birthEra[built[c]] = era[key[c]]
    <3>1. seenEpoch[c] = EpochAtMiss(key[c])
      BY <1>5 DEF Install, Stale
    <3>2. invalidatedByClear => generation = seenGeneration[c]
      BY <1>5 DEF Install, Cleared
    <3>3. missEra[c] = era[key[c]]
      BY <2>1, <3>1, <3>2 DEF SnapshotIsOfTheMiss, EraIsCounted
    <3> QED BY <2>1, <3>3 DEF BuiltFromTheMiss
  <2>3. FreshEntries'
    BY <1>0, <1>5, <2>1, <2>2 DEF Install, TypeOK, FreshEntries, valueVars
  <2>4. Evictable'
    BY <1>0, <1>5, <2>1, DeviceAssumption DEF Install, TypeOK, RecordKeyForDevice, Evictable
  <2>5. HeldIsBorn'
    BY <1>0, <1>5, <2>1 DEF Install, TypeOK, HeldIsBorn, valueVars
  <2>6. SnapshotIsOfTheMiss' /\ BuiltFromTheMiss'
    BY <1>0, <1>5 DEF Install, Leave, TypeOK, SnapshotIsOfTheMiss, BuiltFromTheMiss, valueVars
  <2>7. EraIsCounted'
    BY <1>5 DEF Install, EraIsCounted, EpochAtMiss
  <2> QED BY <1>0, <2>3, <2>4, <2>5, <2>6, <2>7
<1>6. ASSUME NEW c \in Callers, GiveUp(c) PROVE FreshInv'
  <2>1. SnapshotIsOfTheMiss' /\ BuiltFromTheMiss'
    BY <1>0, <1>6 DEF GiveUp, TypeOK, SnapshotIsOfTheMiss, BuiltFromTheMiss, cacheVars,
       windowVars, valueVars
  <2>2. EraIsCounted' /\ HeldIsBorn' /\ Evictable' /\ FreshEntries'
    BY <1>6 DEF GiveUp, EraIsCounted, EpochAtMiss, HeldIsBorn, Evictable, FreshEntries,
       cacheVars, valueVars
  <2> QED BY <1>0, <2>1, <2>2
<1>7. ASSUME NEW c \in Callers, Discard(c) PROVE FreshInv'
  <2>1. SnapshotIsOfTheMiss' /\ BuiltFromTheMiss' /\ HeldIsBorn'
    BY <1>0, <1>7 DEF Discard, Leave, TypeOK, SnapshotIsOfTheMiss, BuiltFromTheMiss,
       HeldIsBorn, cacheVars
  <2>2. EraIsCounted' /\ Evictable' /\ FreshEntries'
    BY <1>7 DEF Discard, EraIsCounted, EpochAtMiss, Evictable, FreshEntries, cacheVars
  <2> QED BY <1>0, <2>1, <2>2
<1>8. ASSUME NEW c \in Callers, NEW d \in Devices, EvictDevice(c, d) PROVE FreshInv'
  <2>1. \A k \in Keys : table'[k] # None => table'[k] = table[k] /\ k \notin keysByDevice[d]
    BY <1>8 DEF EvictDevice, Unlinked
  <2>2. \A k \in Keys : table'[k] # None => Device[k] # d
    BY <2>1, DeviceAssumption DEF Evictable
  <2>3. FreshEntries'
    BY <1>0, <1>8, <2>1, <2>2 DEF EvictDevice, FreshEntries, valueVars
  <2>4. Evictable'
    BY <1>0, <1>8, <2>1, <2>2, DeviceAssumption DEF EvictDevice, Evictable, TypeOK
  <2>5. HeldIsBorn'
    BY <1>8, <2>1 DEF EvictDevice, HeldIsBorn, valueVars
  <2>6. SnapshotIsOfTheMiss' /\ BuiltFromTheMiss'
    BY <1>0, <1>8 DEF EvictDevice, TypeOK, SnapshotIsOfTheMiss, BuiltFromTheMiss,
       windowVars, valueVars
  <2>7. EraIsCounted'
    <3>1. \A k \in Keys :
             /\ EpochAtMiss(k) \in Nat
             /\ EpochAtMiss(k)' = IF Device[k] = d THEN EpochAtMiss(k) + 1 ELSE EpochAtMiss(k)
      BY <1>0, <1>8, DeviceAssumption DEF EvictDevice, TypeOK, EpochAtMiss
    <3>2. \A k \in Keys : era'[k] = IF Device[k] = d THEN era[k] + 1 ELSE era[k]
      BY <1>8 DEF EvictDevice
    <3>3. /\ generation' = generation /\ generation \in Nat
          /\ invalidatedByClear' = invalidatedByClear
      BY <1>0, <1>8 DEF EvictDevice, TypeOK
    <3>4. era \in [Keys -> Nat]
      BY <1>0 DEF TypeOK
    <3> QED BY <1>0, <3>1, <3>2, <3>3, <3>4 DEF EraIsCounted
  <2> QED BY <1>0, <2>3, <2>4, <2>5, <2>6, <2>7
<1>9. ASSUME NEW c \in Callers, Clear(c) PROVE FreshInv'
  <2>1. \A k \in Keys : table'[k] = None
    BY <1>9 DEF Clear, Unlinked
  <2>2. FreshEntries' /\ Evictable'
    BY <2>1 DEF FreshEntries, Evictable
  <2>3. HeldIsBorn'
    BY <1>9, <2>1 DEF Clear, HeldIsBorn, valueVars
  <2>4. SnapshotIsOfTheMiss' /\ BuiltFromTheMiss'
    BY <1>0, <1>9 DEF Clear, TypeOK, SnapshotIsOfTheMiss, BuiltFromTheMiss, windowVars,
       valueVars
  <2>5. EraIsCounted'
    <3>1. \A k \in Keys : EpochAtMiss(k) \in Nat /\ EpochAtMiss(k)' = EpochAtMiss(k)
      BY <1>0, <1>9, DeviceAssumption DEF Clear, TypeOK, EpochAtMiss
    <3>2. CASE invalidatedByClear
      BY <1>0, <1>9, <3>1, <3>2 DEF Clear, TypeOK, EraIsCounted
    <3>3. CASE ~invalidatedByClear
      BY <1>0, <1>9, <3>1, <3>3 DEF Clear, TypeOK, EraIsCounted
    <3> QED BY <3>2, <3>3
  <2> QED BY <1>0, <2>2, <2>3, <2>4, <2>5
<1>10. ASSUME NEW c \in Callers, NEW v \in Values, DestroyVictim(c, v) PROVE FreshInv'
  BY <1>0, <1>10 DEF DestroyVictim, cacheVars, windowVars, EraIsCounted, EpochAtMiss,
     SnapshotIsOfTheMiss, BuiltFromTheMiss, HeldIsBorn, Evictable, FreshEntries
<1>11. ASSUME NEW c \in Callers, DestroyDone(c) PROVE FreshInv'
  <2>1. SnapshotIsOfTheMiss' /\ BuiltFromTheMiss'
    BY <1>0, <1>11 DEF DestroyDone, Leave, TypeOK, SnapshotIsOfTheMiss, BuiltFromTheMiss,
       cacheVars, valueVars
  <2>2. EraIsCounted' /\ HeldIsBorn' /\ Evictable' /\ FreshEntries'
    BY <1>11 DEF DestroyDone, EraIsCounted, EpochAtMiss, HeldIsBorn, Evictable, FreshEntries,
       cacheVars, valueVars
  <2> QED BY <1>0, <2>1, <2>2
<1>12. CASE UNCHANGED vars
  BY <1>0, <1>12 DEF vars, cacheVars, windowVars, valueVars, EraIsCounted, EpochAtMiss,
     SnapshotIsOfTheMiss, BuiltFromTheMiss, HeldIsBorn, Evictable, FreshEntries
<1> QED
  BY <1>1, <1>2, <1>3, <1>4, <1>5, <1>6, <1>7, <1>8, <1>9, <1>10, <1>11, <1>12 DEF Next

\* No entry outlives a teardown of what it was built for, however builds and teardowns
\* interleave: find_or_build's epoch and generation re-check closes its window.
THEOREM Freshness == Spec => []FreshEntries
<1>1. FreshInv => FreshEntries
  BY DEF FreshInv
<1> QED BY <1>1, FreshInit, FreshInductive, PTL DEF Spec

\* evict_device can reach every entry compiled for its device.
THEOREM Evictability == Spec => []Evictable
<1>1. FreshInv => Evictable
  BY DEF FreshInv
<1> QED BY <1>1, FreshInit, FreshInductive, PTL DEF Spec

-----------------------------------------------------------------------------
(* Ownership: every value that was built has one owner until it is released *)

EntriesAreDistinct ==
    \A k, l \in Keys : table[k] # None /\ table[k] = table[l] => k = l

\* What the table holds is unreleased, and in nobody's hands.
TableOwns ==
    \A k \in Keys : table[k] # None =>
        /\ releases[table[k]] = 0
        /\ \A c \in Callers : built[c] # table[k] /\ table[k] \notin victims[c]

\* So is what a call brought back and has still to place.
CallOwns ==
    \A c \in Callers : built[c] # None =>
        /\ releases[built[c]] = 0
        /\ \A e \in Callers : /\ built[c] \notin victims[e]
                              /\ built[e] = built[c] => e = c

\* So is what a teardown unlinked and has still to destroy.
TeardownOwns ==
    \A c \in Callers : \A v \in victims[c] :
        /\ v \in born
        /\ releases[v] = 0
        /\ \A e \in Callers : v \in victims[e] => e = c

ReleasedAtMostOnce ==
    \A v \in Values : releases[v] <= 1 /\ (v \notin born => releases[v] = 0)

OwnerInv ==
    /\ TypeInv
    /\ HeldIsBorn
    /\ EntriesAreDistinct
    /\ TableOwns
    /\ CallOwns
    /\ TeardownOwns
    /\ ReleasedAtMostOnce
    /\ NoLeak

LEMMA OwnerInit == Init => OwnerInv
<1> SUFFICES ASSUME Init PROVE OwnerInv
  OBVIOUS
<1>1. TypeInv
  BY TypeInit
<1> QED
  BY <1>1 DEF Init, OwnerInv, HeldIsBorn, EntriesAreDistinct, TableOwns, CallOwns,
     TeardownOwns, ReleasedAtMostOnce, NoLeak

\* The steps that leave every value where it is.
LEMMA OwnersUndisturbed ==
    ASSUME OwnerInv, TypeInv',
           UNCHANGED <<table, built, victims, born, releases>>
    PROVE  OwnerInv'
  BY DEF OwnerInv, HeldIsBorn, EntriesAreDistinct, TableOwns, CallOwns, TeardownOwns,
     ReleasedAtMostOnce, NoLeak, Cached

\* A build's new value is owned by the call that built it.
LEMMA BuildReturnsOwner ==
    ASSUME OwnerInv, TypeInv', NEW c \in Callers, NEW v \in Values, BuildReturns(c, v)
    PROVE  OwnerInv'
<1> USE DEF OwnerInv
<1>1. TypeOK /\ built[c] = None /\ v # None /\ v \notin born
  BY NoneAssumption DEF BuildReturns, TypeInv, HoldsWhatItBuilt
<1>2. /\ table' = table /\ victims' = victims /\ releases' = releases
      /\ born' = born \cup {v} /\ built' = [built EXCEPT ![c] = v]
  BY DEF BuildReturns, cacheVars
<1>3. HeldIsBorn' /\ EntriesAreDistinct' /\ TeardownOwns' /\ ReleasedAtMostOnce'
  BY <1>1, <1>2 DEF TypeOK, HeldIsBorn, EntriesAreDistinct, TeardownOwns, ReleasedAtMostOnce
<1>4. TableOwns'
  BY <1>1, <1>2 DEF TypeOK, HeldIsBorn, TableOwns
<1>5. CallOwns'
  BY <1>1, <1>2 DEF TypeOK, HeldIsBorn, CallOwns, TeardownOwns, ReleasedAtMostOnce
<1>6. NoLeak'
  <2> SUFFICES ASSUME NEW w \in born \cup {v}, w \notin Cached, ~(releases[w] > 0)
               PROVE  \E e \in Callers : built'[e] = w \/ w \in victims[e]
    BY <1>2 DEF NoLeak, Cached
  <2>1. CASE w = v
    BY <1>1, <1>2, <2>1 DEF TypeOK
  <2>2. CASE w \in born
    <3>1. PICK e \in Callers : built[e] = w \/ w \in victims[e]
      BY <2>2 DEF NoLeak
    <3>2. built[e] = w => e # c
      BY <1>1, <2>2, NoneAssumption DEF TypeOK
    <3> QED BY <1>1, <1>2, <3>1, <3>2 DEF TypeOK
  <2> QED BY <2>1, <2>2
<1> QED BY <1>3, <1>4, <1>5, <1>6

\* Installing moves the value from the call to the table.
LEMMA InstallOwner ==
    ASSUME OwnerInv, TypeInv', NEW c \in Callers, Install(c)
    PROVE  OwnerInv'
<1> USE DEF OwnerInv
<1>1. /\ TypeOK /\ key[c] \in Keys /\ built[c] \in Values /\ built[c] # None
      /\ table[key[c]] = None
  BY DEF Install, Lost, TypeInv, TypeOK, KeyInWindow, HoldsWhatItBuilt, HoldsWhatItUnlinked
<1>2. /\ table' = [table EXCEPT ![key[c]] = built[c]]
      /\ built' = [built EXCEPT ![c] = None]
      /\ victims' = victims /\ releases' = releases /\ born' = born
  BY DEF Install, valueVars
<1>3. HeldIsBorn' /\ TeardownOwns' /\ ReleasedAtMostOnce'
  BY <1>1, <1>2 DEF TypeOK, HeldIsBorn, TeardownOwns, ReleasedAtMostOnce
<1>4. EntriesAreDistinct'
  BY <1>1, <1>2 DEF TypeOK, EntriesAreDistinct, TableOwns
<1>5. TableOwns'
  BY <1>1, <1>2 DEF TypeOK, TableOwns, CallOwns
<1>6. CallOwns'
  BY <1>1, <1>2 DEF TypeOK, CallOwns
<1>7. NoLeak'
  <2>1. built[c] \in Cached'
    BY <1>1, <1>2 DEF TypeOK, Cached
  <2>2. Cached \subseteq Cached'
    BY <1>1, <1>2 DEF TypeOK, Cached
  <2> QED BY <1>1, <1>2, <2>1, <2>2 DEF TypeOK, NoLeak
<1> QED BY <1>3, <1>4, <1>5, <1>6, <1>7

\* Discarding releases a value only its call held.
LEMMA DiscardOwner ==
    ASSUME OwnerInv, TypeInv', NEW c \in Callers, Discard(c)
    PROVE  OwnerInv'
<1> USE DEF OwnerInv
<1>1. TypeOK /\ built[c] \in Values /\ built[c] # None /\ built[c] \in born
  BY DEF Discard, TypeInv, TypeOK, HoldsWhatItBuilt, HeldIsBorn
<1>2. /\ releases' = [releases EXCEPT ![built[c]] = @ + 1]
      /\ built' = [built EXCEPT ![c] = None]
      /\ table' = table /\ victims' = victims /\ born' = born
  BY DEF Discard, cacheVars
<1>3. HeldIsBorn' /\ EntriesAreDistinct'
  BY <1>1, <1>2 DEF TypeOK, HeldIsBorn, EntriesAreDistinct
<1>4. TableOwns'
  BY <1>1, <1>2 DEF TypeOK, TableOwns
<1>5. CallOwns'
  BY <1>1, <1>2 DEF TypeOK, CallOwns
<1>6. TeardownOwns'
  BY <1>1, <1>2 DEF TypeOK, TeardownOwns, CallOwns
<1>7. ReleasedAtMostOnce'
  BY <1>1, <1>2 DEF TypeOK, ReleasedAtMostOnce, CallOwns
<1>8. NoLeak'
  <2> SUFFICES ASSUME NEW v \in born
               PROVE  \/ v \in Cached
                      \/ releases'[v] > 0
                      \/ \E e \in Callers : built'[e] = v \/ v \in victims[e]
    BY <1>2 DEF NoLeak, Cached
  <2>1. CASE v = built[c]
    BY <1>1, <1>2, <2>1 DEF TypeOK
  <2>2. CASE v # built[c]
    BY <1>1, <1>2, <2>2 DEF TypeOK, NoLeak
  <2> QED BY <2>1, <2>2
<1> QED BY <1>3, <1>4, <1>5, <1>6, <1>7, <1>8

\* A teardown moves the entries it unlinks from the table to its victims.
LEMMA UnlinkOwner ==
    ASSUME OwnerInv, TypeInv', NEW c \in Callers, NEW K \in SUBSET Keys,
           pc[c] = "idle", victims[c] = {},
           victims' = [victims EXCEPT ![c] = Victims(K)],
           table' = Unlinked(K),
           UNCHANGED <<built, born, releases>>
    PROVE  OwnerInv'
<1> USE DEF OwnerInv
<1>1. TypeOK
  BY DEF TypeInv
<1>2. /\ \A k \in Keys : table'[k] = IF k \in K THEN None ELSE table[k]
      /\ \A e \in Callers : victims'[e] = IF e = c THEN Victims(K) ELSE victims[e]
      /\ \A v : v \in Victims(K) <=> \E k \in K : v = table[k] /\ v # None
  BY <1>1 DEF TypeOK, Unlinked, Victims
<1>3. HeldIsBorn' /\ EntriesAreDistinct' /\ ReleasedAtMostOnce'
  BY <1>2 DEF HeldIsBorn, EntriesAreDistinct, ReleasedAtMostOnce
<1>4. TableOwns'
  BY <1>2 DEF TableOwns, EntriesAreDistinct
<1>5. CallOwns'
  BY <1>2 DEF CallOwns, TableOwns
<1>6. TeardownOwns'
  BY <1>2 DEF TeardownOwns, TableOwns, HeldIsBorn
<1>7. NoLeak'
  <2> SUFFICES ASSUME NEW v \in born,
                      v \notin Cached', releases[v] = 0,
                      \A e \in Callers : built[e] # v
               PROVE  \E e \in Callers : v \in victims'[e]
    BY <1>1 DEF NoLeak, TypeOK
  <2>1. CASE v \in Cached
    BY <1>2, <2>1 DEF Cached
  <2>2. CASE v \notin Cached
    <3>1. PICK e \in Callers : v \in victims[e]
      BY <2>2 DEF NoLeak
    <3> QED BY <1>2, <3>1
  <2> QED BY <2>1, <2>2
<1> QED BY <1>3, <1>4, <1>5, <1>6, <1>7

\* Destroying a victim releases a value only its teardown held.
LEMMA DestroyVictimOwner ==
    ASSUME OwnerInv, TypeInv', NEW c \in Callers, NEW v \in Values, DestroyVictim(c, v)
    PROVE  OwnerInv'
<1> USE DEF OwnerInv
<1>1. TypeOK /\ v \in victims[c] /\ v \in born /\ releases[v] = 0
  BY DEF DestroyVictim, TypeInv, TeardownOwns
<1>2. /\ releases' = [releases EXCEPT ![v] = @ + 1]
      /\ victims' = [victims EXCEPT ![c] = @ \ {v}]
      /\ table' = table /\ built' = built /\ born' = born
  BY DEF DestroyVictim, cacheVars
<1>3. HeldIsBorn' /\ EntriesAreDistinct'
  BY <1>2 DEF HeldIsBorn, EntriesAreDistinct
<1>4. TableOwns'
  BY <1>1, <1>2 DEF TypeOK, TableOwns
<1>5. CallOwns'
  BY <1>1, <1>2 DEF TypeOK, CallOwns
<1>6. TeardownOwns'
  BY <1>1, <1>2 DEF TypeOK, TeardownOwns
<1>7. ReleasedAtMostOnce'
  BY <1>1, <1>2 DEF TypeOK, ReleasedAtMostOnce
<1>8. NoLeak'
  BY <1>1, <1>2 DEF TypeOK, NoLeak, Cached
<1> QED BY <1>3, <1>4, <1>5, <1>6, <1>7, <1>8

LEMMA OwnerInductive == OwnerInv /\ [Next]_vars => OwnerInv'
<1> SUFFICES ASSUME OwnerInv, [Next]_vars PROVE OwnerInv'
  OBVIOUS
<1>0. TypeInv /\ TypeInv' /\ TypeOK
  BY TypeInductive DEF OwnerInv, TypeInv
<1>1. ASSUME NEW c \in Callers, NEW k \in Keys, Hit(c, k) \/ Miss(c, k) PROVE OwnerInv'
  BY <1>0, <1>1, OwnersUndisturbed DEF Hit, Miss, cacheVars, valueVars
<1>2. ASSUME NEW c \in Callers, NEW v \in Values, BuildReturns(c, v) PROVE OwnerInv'
  BY <1>0, <1>2, BuildReturnsOwner
<1>3. ASSUME NEW c \in Callers, BuildRaises(c) \/ GiveUp(c) \/ DestroyDone(c) PROVE OwnerInv'
  BY <1>0, <1>3, OwnersUndisturbed DEF BuildRaises, GiveUp, DestroyDone, cacheVars, valueVars
<1>4. ASSUME NEW c \in Callers, Install(c) PROVE OwnerInv'
  BY <1>0, <1>4, InstallOwner
<1>5. ASSUME NEW c \in Callers, Discard(c) PROVE OwnerInv'
  BY <1>0, <1>5, DiscardOwner
<1>6. ASSUME NEW c \in Callers, NEW d \in Devices, EvictDevice(c, d) PROVE OwnerInv'
  <2>1. pc[c] = "idle" /\ victims[c] = {} /\ keysByDevice[d] \in SUBSET Keys
    BY <1>0, <1>6 DEF EvictDevice, TypeInv, TypeOK, HoldsWhatItUnlinked
  <2> QED BY <1>0, <1>6, <2>1, UnlinkOwner DEF EvictDevice, valueVars
<1>7. ASSUME NEW c \in Callers, Clear(c) PROVE OwnerInv'
  <2>1. pc[c] = "idle" /\ victims[c] = {}
    BY <1>0, <1>7 DEF Clear, TypeInv, HoldsWhatItUnlinked
  <2> QED BY <1>0, <1>7, <2>1, UnlinkOwner DEF Clear, valueVars
<1>8. ASSUME NEW c \in Callers, NEW v \in Values, DestroyVictim(c, v) PROVE OwnerInv'
  BY <1>0, <1>8, DestroyVictimOwner
<1>9. CASE UNCHANGED vars
  BY <1>0, <1>9, OwnersUndisturbed DEF vars, cacheVars, valueVars
<1> QED
  BY <1>1, <1>2, <1>3, <1>4, <1>5, <1>6, <1>7, <1>8, <1>9 DEF Next

\* No module is unloaded twice, and none that was unloaded can still be served.
THEOREM SingleRelease == Spec => []ReleasedOnce
<1>1. OwnerInv => ReleasedOnce
  <2> SUFFICES ASSUME OwnerInv, NEW v \in Values
               PROVE  /\ releases[v] <= 1
                      /\ releases[v] = 1 =>
                            /\ v \notin Cached
                            /\ \A c \in Callers : built[c] # v /\ v \notin victims[c]
    BY DEF ReleasedOnce
  <2>1. releases[v] <= 1
    BY DEF OwnerInv, ReleasedAtMostOnce
  <2>2. releases[v] = 1 => v # None /\ v \notin Cached
    BY NoneAssumption DEF OwnerInv, TableOwns, Cached
  <2>3. releases[v] = 1 => \A c \in Callers : built[c] # v /\ v \notin victims[c]
    <3> SUFFICES ASSUME releases[v] = 1, NEW c \in Callers
                 PROVE  built[c] # v /\ v \notin victims[c]
      OBVIOUS
    <3>1. built[c] # v
      BY NoneAssumption DEF OwnerInv, CallOwns
    <3>2. v \notin victims[c]
      BY DEF OwnerInv, TeardownOwns
    <3> QED BY <3>1, <3>2
  <2> QED BY <2>1, <2>2, <2>3
<1> QED BY <1>1, OwnerInit, OwnerInductive, PTL DEF Spec

\* No module leaks on any path: lost races, aborted builds, teardowns whose destroy raises.
THEOREM NothingLeaks == Spec => []NoLeak
<1>1. OwnerInv => NoLeak
  BY DEF OwnerInv
<1> QED BY <1>1, OwnerInit, OwnerInductive, PTL DEF Spec

-----------------------------------------------------------------------------
(* What a call still in its window may rely on *)

\* A call in its window has settled no answer yet.
Unsettled ==
    \A c \in Callers : pc[c] \in {"building", "reacquire"} => answer[c] = NoAnswer

\* Its snapshots are never ahead of the counters: a teardown since the miss leaves
\* them behind for good.
SnapshotsLag ==
    \A c \in Callers :
        pc[c] \in {"building", "reacquire"} =>
            /\ seenEpoch[c] <= EpochAtMiss(key[c])
            /\ seenGeneration[c] <= generation

\* A device's list names only keys compiled for it: its teardown unlinks no others.
OwnKeysOnly ==
    \A d \in Devices : \A k \in keysByDevice[d] : Device[k] = d

WindowInv == TypeInv /\ Unsettled /\ SnapshotsLag /\ OwnKeysOnly

LEMMA WindowInit == Init => WindowInv
  BY TypeInit DEF Init, WindowInv, Unsettled, SnapshotsLag, OwnKeysOnly

LEMMA WindowInductive == WindowInv /\ [Next]_vars => WindowInv'
<1> SUFFICES ASSUME WindowInv, [Next]_vars PROVE WindowInv'
  OBVIOUS
<1> USE DEF WindowInv
<1>0. TypeInv' /\ TypeOK /\ TypeOK' /\ KeyInWindow
  BY TypeInductive DEF TypeInv
<1>1. ASSUME NEW c \in Callers, NEW k \in Keys, Hit(c, k) PROVE WindowInv'
  BY <1>0, <1>1 DEF Hit, TypeOK, Unsettled, SnapshotsLag, EpochAtMiss, OwnKeysOnly, cacheVars,
     windowVars
<1>2. ASSUME NEW c \in Callers, NEW k \in Keys, Miss(c, k) PROVE WindowInv'
  <2>1. EpochAtMiss(k) \in Nat /\ \A l : EpochAtMiss(l)' = EpochAtMiss(l)
    BY <1>0, <1>2, DeviceAssumption DEF Miss, EpochAtMiss, TypeOK, cacheVars
  <2> QED BY <1>0, <1>2, <2>1 DEF Miss, TypeOK, Unsettled, SnapshotsLag, OwnKeysOnly, cacheVars
<1>3. ASSUME NEW c \in Callers, NEW v \in Values, BuildReturns(c, v) PROVE WindowInv'
  BY <1>0, <1>3 DEF BuildReturns, TypeOK, Unsettled, SnapshotsLag, EpochAtMiss, OwnKeysOnly,
     cacheVars, windowVars
<1>4. ASSUME NEW c \in Callers, BuildRaises(c) \/ Install(c) \/ Discard(c) \/ DestroyDone(c)
      PROVE  WindowInv'
  <2>1. /\ epochs' = epochs /\ generation' = generation /\ Leave(c)
        /\ \A e \in Callers \ {c} : answer'[e] = answer[e]
    BY <1>0, <1>4 DEF BuildRaises, Install, Discard, DestroyDone, TypeOK, cacheVars
  <2>2. Unsettled' /\ SnapshotsLag'
    BY <1>0, <2>1 DEF Leave, TypeOK, Unsettled, SnapshotsLag, EpochAtMiss
  <2>3. OwnKeysOnly'
    BY <1>4 DEF BuildRaises, Install, Discard, DestroyDone, RecordKeyForDevice, OwnKeysOnly, cacheVars
  <2> QED BY <1>0, <2>2, <2>3
<1>5. ASSUME NEW c \in Callers, GiveUp(c) PROVE WindowInv'
  BY <1>0, <1>5 DEF GiveUp, TypeOK, Unsettled, SnapshotsLag, EpochAtMiss, OwnKeysOnly, cacheVars,
     windowVars
<1>6. ASSUME NEW c \in Callers, NEW d \in Devices, EvictDevice(c, d) PROVE WindowInv'
  <2>1. \A e \in Devices : {epochs[e], epochs'[e]} \subseteq Nat /\ epochs[e] <= epochs'[e]
    BY <1>0, <1>6 DEF EvictDevice, TypeOK
  <2>2. SnapshotsLag'
    <3>1. /\ key' = key /\ seenEpoch' = seenEpoch /\ seenGeneration' = seenGeneration
          /\ generation' = generation /\ seenEpoch \in [Callers -> Nat]
      BY <1>0, <1>6 DEF EvictDevice, windowVars, TypeOK
    <3>2. \A e \in Callers : pc'[e] \in {"building", "reacquire"} =>
             pc[e] \in {"building", "reacquire"} /\ key[e] \in Keys
      BY <1>0, <1>6 DEF EvictDevice, TypeOK, KeyInWindow
    <3> QED BY <2>1, <3>1, <3>2, DeviceAssumption DEF SnapshotsLag, EpochAtMiss
  <2>3. Unsettled' /\ OwnKeysOnly'
    BY <1>0, <1>6 DEF EvictDevice, TypeOK, Unsettled, OwnKeysOnly
  <2> QED BY <1>0, <2>2, <2>3
<1>7. ASSUME NEW c \in Callers, Clear(c) PROVE WindowInv'
  BY <1>0, <1>7 DEF Clear, TypeOK, Unsettled, SnapshotsLag, EpochAtMiss, OwnKeysOnly, windowVars
<1>8. ASSUME NEW c \in Callers, NEW v \in Values, DestroyVictim(c, v) PROVE WindowInv'
  BY <1>0, <1>8 DEF DestroyVictim, TypeOK, Unsettled, SnapshotsLag, EpochAtMiss, OwnKeysOnly,
     cacheVars, windowVars
<1>9. CASE UNCHANGED vars
  BY <1>0, <1>9 DEF vars, cacheVars, windowVars, Unsettled, SnapshotsLag, EpochAtMiss, OwnKeysOnly
<1> QED
  BY <1>1, <1>2, <1>3, <1>4, <1>5, <1>6, <1>7, <1>8, <1>9 DEF Next

-----------------------------------------------------------------------------
(* Step properties *)

\* An entry is only ever unlinked, never overwritten.
THEOREM WinnerStays == Spec => EntryNeverReplaced
<1>1. TypeInv /\ [Next]_vars =>
        [\A k \in Keys : table[k] # None => table'[k] \in {table[k], None}]_vars
  <2> SUFFICES ASSUME TypeInv, [Next]_vars, NEW k \in Keys, table[k] # None
               PROVE  table'[k] \in {table[k], None}
    OBVIOUS
  <2>0. TypeOK
    BY DEF TypeInv
  <2>1. ASSUME NEW c \in Callers, Install(c) PROVE table'[k] = table[k]
    BY <2>0, <2>1 DEF Install, Lost, TypeOK
  <2>2. ASSUME NEW c \in Callers, NEW d \in Devices, EvictDevice(c, d) \/ Clear(c)
        PROVE  table'[k] \in {table[k], None}
    BY <2>2 DEF EvictDevice, Clear, Unlinked
  <2>3. ASSUME NEW c \in Callers, Clear(c) PROVE table'[k] \in {table[k], None}
    BY <2>3 DEF Clear, Unlinked
  <2>4. CASE UNCHANGED table
    BY <2>4
  <2> QED
    BY <2>1, <2>2, <2>3, <2>4 DEF Next, Hit, Miss, BuildReturns, DestroyVictim, BuildRaises,
       GiveUp, Discard, DestroyDone, cacheVars, vars
<1> QED BY <1>1, TypeInit, TypeInductive, PTL DEF Spec, EntryNeverReplaced

\* What a build's caller is handed is the entry of its key at that moment, never the
\* copy it is about to destroy.
THEOREM OneValueObserved == Spec => ServesTheEntry
<1>1. WindowInv /\ [Next]_vars =>
        [\A c \in Callers : pc[c] = "reacquire" /\ answer'[c].kind = "value"
                             => answer'[c].value = table'[key[c]]]_vars
  <2> SUFFICES ASSUME WindowInv, [Next]_vars, NEW c \in Callers,
                      pc[c] = "reacquire", answer'[c].kind = "value"
               PROVE  answer'[c].value = table'[key[c]]
    OBVIOUS
  <2>0. TypeOK /\ key[c] \in Keys
    BY DEF WindowInv, TypeInv, KeyInWindow
  <2>1. answer'[c] # answer[c]
    BY DEF WindowInv, Unsettled, NoAnswer, Answer
  <2>2. Install(c) \/ GiveUp(c)
    BY <2>0, <2>1 DEF Next, vars, TypeOK, Hit, Miss, BuildReturns, BuildRaises, Install, GiveUp,
       Discard, EvictDevice, Clear, DestroyVictim, DestroyDone
  <2>3. CASE Install(c)
    BY <2>0, <2>3 DEF Install, TypeOK, Returned, Answer
  <2>4. CASE GiveUp(c)
    BY <2>0, <2>4 DEF GiveUp, TypeOK, WinnerAnswer, Raised, Returned, Answer, cacheVars
  <2> QED BY <2>2, <2>3, <2>4
<1> QED BY <1>1, WindowInit, WindowInductive, PTL DEF Spec, ServesTheEntry
=============================================================================
