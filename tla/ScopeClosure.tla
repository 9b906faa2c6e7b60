---------------------------- MODULE ScopeClosure ----------------------------
(***************************************************************************)
(* Conformance scopes (conformance/runner/scopes.py): which scopes a scope *)
(* brings with it, which vectors a set of scopes requires, and the summary *)
(* that turns the vectors' statuses into claims.                           *)
(***************************************************************************)
EXTENDS FiniteSets

CONSTANTS
    Scope,       \* SCOPE_ORDER, as a set
    L1,          \* L1_SCOPES
    Prereq,      \* PREREQUISITES, a set of scopes for every scope
    Render,      \* the scope "render"
    Vector,      \* the vector ids of the catalogs
    ScopeMap     \* scopes.yaml: a set of vector ids for every scope

ASSUME ScopesAssumption ==
    /\ L1 \subseteq Scope /\ Render \in Scope \ L1
    /\ Prereq \in [Scope -> SUBSET Scope]
    /\ ScopeMap \in [Scope -> SUBSET Vector]

\* totality_check, which the self-test runs on the shipped table.
ASSUME Totality == UNION {ScopeMap[s] : s \in Scope} = Vector

\* The least set that holds S and the prerequisites of all it holds, which is
\* what the loop over PREREQUISITES ends with.
PrereqClosure(S) ==
    {s \in Scope : \A C \in SUBSET Scope :
        (S \subseteq C /\ \A c \in C : Prereq[c] \subseteq C) => s \in C}

\* render requires the claimed L1 scopes, or, with none claimed, the given.
RenderL1(S, claimed) ==
    LET c == IF claimed = {} THEN S ELSE claimed
    IN  IF c \cap L1 # {} THEN c \cap L1 ELSE S \cap L1

Closure_NoL1(S, claimed) == PrereqClosure(S)
Closure(S, claimed) ==
    LET base == PrereqClosure(S)
        l1 == RenderL1(S, claimed)
    IN  IF Render \in base
        THEN base \cup l1 \cup UNION {Prereq[s] : s \in l1}
        ELSE base

RequiredVectors(S, claimed) ==
    UNION {ScopeMap[s] : s \in Closure(S, claimed)}

\* summarize_scopes: the status of one considered scope.
ScopeStatus(s, claimed, statusOf) ==
    IF s \notin claimed THEN "not-claimed"
    ELSE IF s = Render /\ claimed \cap L1 = {} THEN "not-passed"
    ELSE IF \A v \in RequiredVectors({s}, claimed) : statusOf[v] = "pass"
         THEN "pass"
    ELSE "not-passed"

Considered(requested, claimed) ==
    IF requested # {} THEN requested ELSE claimed

ScopeSummary(requested, claimed, statusOf) ==
    [s \in Considered(requested, claimed) |->
        ScopeStatus(s, claimed, statusOf)]
=============================================================================
