\* An adapter that writes one line per request, killed promptly.
CONSTANTS
    MaxLine = 1
    ReadChunk = 2
    MaxQueued = 1
    PipeCap = 2
    MaxRun = 3
    MaxCalls = 3
    Chatty = FALSE
    Orphans = FALSE
    KillMayLag = FALSE
SPECIFICATION Spec
INVARIANTS TypeOK OwnAnswer
PROPERTIES PromiseKept PumpEnds
