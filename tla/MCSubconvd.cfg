SPECIFICATION SubconvdSpec
CONSTANTS
    c1 = c1
    c2 = c2
    b1 = b1
    b2 = b2
    x = x
    None = None
    Conns = {c1, c2}
    Bufs = {b1, b2}
    Chunks = {x}
    Requests <- MCRequests
    SelfTarget <- Health
    ValidJson <- MCValidJson
    OOM = FALSE
    Options <- MCOptions
    Ephemeral <- MCEphemeral
    Retry = 1
PROPERTIES
    GracefulEnd
    SignalEnds
    Respawned
    Answered
    SettlesRequests
