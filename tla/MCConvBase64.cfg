SPECIFICATION Spec
CONSTANTS
    a = a
    b = b
    NL = NL
    NUL = NUL
    Blank = Blank
    None = None
    Links = {a, b}
    Texts <- MCTexts
    FirstCap = 1
    OOM = TRUE
INVARIANTS
    InBounds
    NoLeak
    Extracted
    Listed
