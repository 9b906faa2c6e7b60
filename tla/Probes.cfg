SPECIFICATION Spec
CONSTANTS
    Body <- MCBody
    Invariant <- MCInvariant
    MaxWrong = 2
    Unjudged <- MCUnjudged
    Blaming <- MCBlaming
    Misfiled <- MCMisfiled
INVARIANTS
    TypeOK NoSilentPass DeclineNotBlamed FaultIsFault FaultKept RightPasses
    PassMeansHeld
