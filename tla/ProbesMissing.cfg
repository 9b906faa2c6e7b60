SPECIFICATION Spec
CONSTANTS
    Body <- MCBody
    Invariant <- MCInvariant
    MaxWrong = 1
    Unjudged <- MCUnjudged
    Blaming <- MCBlaming
    Misfiled <- MCMisfiled
INVARIANTS MissingFieldFails
