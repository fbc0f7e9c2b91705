SPECIFICATION CodecsSpec
CONSTANTS
    Jobs <- MCJobs
    Bytes <- MCBytes
    Nul = Nul
    Junk = Junk
    FirstCap = 8
    SizeMax = 511
    None = None
    NULL = NULL
    Mark = Mark
    Binaries <- MCBinaries
    Texts <- MCTexts
    Urls <- MCUrls
    Utf8s <- MCUtf8s
    Strings <- MCStrings
    Scalars <- MCScalars
    Nodes <- MCNodes
    Headers <- MCHeaders
    Outbounds <- MCOutbounds
    IntBits = 20
    Malformed = Malformed
    Owners <- MCOwners
INVARIANTS
    AlwaysValidYaml
CHECK_DEADLOCK FALSE
