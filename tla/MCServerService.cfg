SPECIFICATION Spec
CONSTANTS
    c1 = c1
    c2 = c2
    c3 = c3
    b1 = b1
    b2 = b2
    b3 = b3
    x = x
    y = y
    None = None
    Conns = {c1, c2}
    Bufs = {b1, b2}
    Chunks = {x, y}
    Requests <- MCAll
    SelfTarget <- Health
    ValidJson <- MCValidJson
    OOM = TRUE
SYMMETRY Symmetry
PROPERTIES
    ImplementsService
