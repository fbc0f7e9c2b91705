SPECIFICATION Spec
CONSTANTS
    Docs <- MCDocs
    Texts <- MCTexts
    FirstCap = 1
    OOM = TRUE
    None = None
INVARIANTS
    InBounds
    NoLeak
    Faithful
    NoDangling
