SPECIFICATION Spec
CONSTANTS
    Links <- MCLinks
    Toks <- MCToks
    Width <- MCWidth
    Ports <- MCPorts
    Decimal <- MCDecimal
    StdBlobs <- MCStd
    UrlBlobs <- MCUrl
    Json <- MCJson
    OOM = TRUE
    None = None
INVARIANTS
    Contract
    Grammar
    QueryMeaning
    DefinedWhenComplete
