\* Two adapters, three trials, every pair of answers.
CONSTANTS
    Scope <- MCScope
    L1 = {"hook"}
    Prereq <- MCPrereq
    Render = "render"
    Vector = {}
    ScopeMap <- MCScopeMap
    Family <- MCFamily
    FamilyScope <- MCFamilyScope
    Trials <- MCTrials
    FixtureFamilies = {"body"}
    DiagnosticFamilies = {"hook_mechanism"}
    KeepFixtures = FALSE
    Claims <- MCClaims
SPECIFICATION Spec
INVARIANTS TypeOK CleanIsEvidence NothingLeft
