SPECIFICATION Spec
CONSTANTS
    c1 = c1  c2 = c2  c3 = c3
    k1 = k1
    d1 = d1
    h1 = h1  h2 = h2
    m1 = m1  m2 = m2
    x1 = x1  x2 = x2
    None = None
    NoDevice = NoDevice
    Callers <- MCCallers
    Keys <- MCKeys
    Devices <- MCDevices
    Device <- MCDevice
    Handles <- MCHandles
    Closures <- MCClosures
    Contexts <- MCContexts
    MaxClears = 1
    ResolversQuiesced = TRUE
SYMMETRY MCSymmetry
VIEW MCView
INVARIANTS NothingDangles
