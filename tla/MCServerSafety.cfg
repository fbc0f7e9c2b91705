SPECIFICATION Spec
CONSTANTS
    c1 = c1
    c2 = c2
    c3 = c3
    b1 = b1
    b2 = b2
    b3 = b3
    x = x
    y = y
    None = None
    Conns = {c1, c2, c3}
    Bufs = {b1, b2, b3}
    Chunks = {x, y}
    Requests <- MCFew
    SelfTarget <- Health
    ValidJson <- MCValidJson
    OOM = TRUE
INVARIANTS
    Ownership
    BodyIntegrity
    NoTempLeak
    SelfFetchFails
    CleanExit
SYMMETRY Symmetry
