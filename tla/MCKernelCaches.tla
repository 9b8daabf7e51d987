--------------------------- MODULE MCKernelCaches ---------------------------
EXTENDS KernelCaches, TLC

CONSTANTS c1, c2, c3, k1, d1, h1, h2, m1, m2, x1, x2

MCCallers  == {c1, c2, c3}
MCKeys     == {k1}
MCDevices  == {d1}
MCDevice   == k1 :> d1
MCHandles  == {h1, h2}
MCClosures == {m1, m2}
MCContexts == {x1, x2}

MCSymmetry == Permutations(MCCallers) \cup Permutations(MCHandles)
                \cup Permutations(MCClosures) \cup Permutations(MCContexts)

\* What a call returned is read by no later step once its caller has moved on.
Settled(answer, busy) == [c \in Callers |-> IF busy[c] THEN answer[c] ELSE None]

MCView ==
    <<mTable, mKeysByDevice, mEpochs, mGeneration, mPc, mKey, mSeenEpoch, mSeenGeneration,
      mBuilt, mVictims, mBorn, mReleases, mEra, mMissEra, mBirthEra,
      Settled(mAnswer, [c \in Callers |-> mPc[c] # "idle"]),
      bTable, bKeysByDevice, bEpochs, bGeneration, bPc, bKey, bSeenEpoch, bSeenGeneration,
      bBuilt, bVictims, bBorn, bReleases, bEra, bMissEra, bBirthEra,
      Settled(bAnswer, [c \in Callers |-> step[c] # "idle"]),
      borrows, step, context, deviceCache, contextOf, home, destroyed>>
=============================================================================
