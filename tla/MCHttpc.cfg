SPECIFICATION Spec
CONSTANTS
    Calls <- MCCalls
    BodyStart = 2
    HdrStart = 1
    MaxRedirs = 2
    MaxBody = 5
    MaxFields = 3
    OOM = TRUE
INVARIANTS
    InBounds
    WholeResponse
    OutUsable
    NoLeak
PROPERTIES
    Returns
