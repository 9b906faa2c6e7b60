\* The four vectors in order, with every failure of a start at every listener.
CONSTANTS
    Host <- MCHost
    LoopHost = "b"
    LoopOther = "a"
    RandomHost = "edge-{random}"
    PassHost <- MCPassHost
    ChainPath <- MCChainPath
    Hops = 11
    Plan <- MCPlan
    Tables <- MCTables
SPECIFICATION FairSpec
INVARIANTS TypeOK ScriptServed OneDouble CaLifetime
PROPERTY VectorsEnd
