\* An adapter that writes what it likes, with descendants that keep its pipes.
CONSTANTS
    MaxLine = 1
    ReadChunk = 2
    MaxQueued = 1
    PipeCap = 2
    MaxRun = 3
    MaxCalls = 2
    Chatty = TRUE
    Orphans = TRUE
    KillMayLag = FALSE
SPECIFICATION Spec
INVARIANTS MemoryBound ByteStream EofIsLast LineLimitExact FailStop
