SPECIFICATION Spec
CONSTANTS
    Scope <- MCScope
    L1 <- MCL1
    Prereq <- MCPrereq
    Render = "render"
    Vector <- MCVector
    ScopeMap <- MCScopeMap
    Catalog <- MCCatalog
    Cases <- MCCases
    Paired = "r"
    Conditional = "u"
    Triggers = {"m"}
    GivesUp = {"m"}
    MockVectors = {"t"}
    FixtureVectors = {"c", "m"}
    Requests <- MCRequests
    Claims <- MCClaims
    Onlys <- MCOnlys
INVARIANT PairedExercised
