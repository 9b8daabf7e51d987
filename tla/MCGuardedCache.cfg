SPECIFICATION Spec
CONSTANTS
    c1 = c1  c2 = c2  c3 = c3
    k1 = k1  k2 = k2  k3 = k3
    d1 = d1
    v1 = v1  v2 = v2  v3 = v3
    None = None
    NoDevice = NoDevice
    Callers <- MCCallers
    Keys <- MCKeys
    Devices <- MCDevices
    Device <- MCDevice
    Values <- MCValues
    MaxEpoch = 2
    MaxGeneration = 1
SYMMETRY MCSymmetry
INVARIANTS ReleasedOnce NoLeak FreshEntries
PROPERTIES EntryNeverReplaced ServesTheEntry
