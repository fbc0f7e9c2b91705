SPECIFICATION Spec
CONSTANTS
    Bases <- MCBases
    Texts <- MCTexts
    MaxNodes = 5
    OOM = TRUE
INVARIANTS
    Distinct
    FirstFree
    SuffixBounded
PROPERTIES
    LoopEnds
CHECK_DEADLOCK FALSE
