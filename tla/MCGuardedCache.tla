--------------------------- MODULE MCGuardedCache ---------------------------
EXTENDS GuardedCache, TLC

CONSTANTS c1, c2, c3, k1, k2, k3, d1, v1, v2, v3

MCCallers == {c1, c2, c3}
MCKeys    == {k1, k2, k3}
MCDevices == {d1}
MCValues  == {v1, v2, v3}

\* Two keys of one device, and one compiled without a device id, so that an eviction
\* has several entries to take and one to spare.
MCDevice  == (k1 :> d1) @@ (k2 :> d1) @@ (k3 :> NoDevice)

\* Callers, values and the keys of one device are interchangeable; no liveness is checked with it.
MCSymmetry == Permutations(MCCallers) \cup Permutations(MCValues) \cup Permutations({k1, k2})
=============================================================================
