--------------------------- MODULE ConformanceRun ---------------------------
(***************************************************************************)
(* One conformance run (conformance/runner/run.py with report.py, scopes.  *)
(* py, fixtures.py and the send and assert helpers of the bindings): the   *)
(* handshake, the selection, one row per catalog vector, the checkers over *)
(* all responses, the summary and the exit status.                         *)
(*                                                                         *)
(* A binding is a series of cases; a case may materialise a file tree,     *)
(* sends one request and asserts on the response.  The session is the one  *)
(* of RequestReply: once broken, it answers harness-error for ever.  The   *)
(* vectors the code names are constants.                                   *)
(***************************************************************************)
EXTENDS ScopeClosure, VectorResult, Integers, Sequences

CONSTANTS
    Catalog,        \* the vectors in catalog order
    Cases,          \* the number of requests of each vector's binding
    Paired,         \* TV-RENDER-c
    Conditional,    \* TV-URI-u
    Triggers,       \* the vectors of TRIGGERS; their last request is tagged
    GivesUp,        \* the triggers whose binding stops at a first non-ok
    MockVectors,    \* the vectors that fetch from the mock authority
    FixtureVectors, \* the vectors whose cases materialise a file tree
    Requests,       \* the --scope selections of the model
    Claims,         \* the scope claims of the handshakes of the model
    Onlys           \* the --only selections of the model

ASSUME CatalogAssumption ==
    /\ Catalog \in Seq(Vector)
    /\ \A v \in Vector : \E i \in DOMAIN Catalog : Catalog[i] = v
    /\ \A i, j \in DOMAIN Catalog : Catalog[i] = Catalog[j] => i = j
    /\ Cases \in [Vector -> Nat]
ASSUME BindingsAssumption ==
    /\ Paired \in Vector /\ Conditional \in Vector /\ Paired # Conditional
    /\ Cases[Paired] = 0 /\ Cases[Conditional] = 0
    /\ Triggers \subseteq Vector /\ GivesUp \subseteq Triggers
    /\ Paired \notin Triggers /\ Conditional \notin Triggers
    /\ MockVectors \subseteq Vector
    /\ FixtureVectors \subseteq Vector \ {Paired, Conditional}
ASSUME OptionsAssumption ==
    Requests \subseteq SUBSET Scope /\ Claims \subseteq SUBSET Scope

VARIABLES
    pc,           \* "hello", "select", "mock", "rows", "binding", "cleanup",
                  \* "conditional", "report", "closing"; then "done", or
                  \* "usage error" or "traceback" when an exception escapes
    requested, only, keep,      \* RunOptions
    claimed, helloError,        \* what the handshake gave
    sortable,     \* sorted(claimed_scopes) works: the claims are all strings
    mockOk,       \* env["mock_http_tls"]["ok"]
    mockUp,       \* the mock authority exists
    rows,         \* the VectorResults; a vector without one counts as
                  \* out-of-scope, as vector_statuses.get(vid, ...) has it
    at, case,     \* the position in the catalog, and in the binding
    trees,        \* vectors with temporary trees on disk
    loaded,       \* bindings.load_all has registered the checkers
    exercised,    \* triggers whose tagged request was sent
    diagnostics,  \* on the ok answers to those: was the diagnostic there?
    statuses,     \* on the source_status fields seen: one of the four?
    broken,       \* the session's transport has failed
    sessionOpen,  \* an adapter process was started and not closed
    summary,      \* the scope summary of the report
    flawed,       \* history: vectors of which something did not pass
    failed,       \* history: vectors of which an assertion did not hold
    made          \* history: vectors for which a tree was made

options  == <<requested, only, keep>>
hello    == <<claimed, helloError, sortable>>
mock     == <<mockOk, mockUp>>
observed == <<exercised, diagnostics, statuses>>
session  == <<broken, sessionOpen>>
history  == <<flawed, failed, made>>
vars == <<pc, options, hello, mock, rows, at, case, trees, loaded, observed,
          session, summary, history>>

-----------------------------------------------------------------------------
Init ==
    /\ pc = "hello"
    /\ requested \in Requests /\ only \in Onlys /\ keep \in BOOLEAN
    /\ claimed = {} /\ helloError = FALSE /\ sortable = TRUE
    /\ mockOk \in BOOLEAN /\ mockUp = FALSE
    /\ rows = [v \in Vector |-> NewRow("out-of-scope")]
    /\ at = 1 /\ case = 1
    /\ trees = {} /\ loaded = FALSE
    /\ exercised = {} /\ diagnostics = {} /\ statuses = {}
    /\ broken = FALSE /\ sessionOpen = FALSE
    /\ summary = <<>>
    /\ flawed = {} /\ failed = {} /\ made = {}

(* The handshake.  A refused one (an unknown adapter_protocol, scopes that   *)
(* are no string array or unknown) still gives the claims of its result,     *)
(* unless set() cannot take them.                                            *)
HelloOk ==
    /\ pc = "hello" /\ pc' = "select"
    /\ claimed' \in Claims /\ sessionOpen' = TRUE
    /\ UNCHANGED <<options, helloError, sortable, mock, rows, at, case, trees,
                   loaded, observed, broken, summary, history>>

HelloRefused ==
    /\ pc = "hello" /\ pc' = "select"
    /\ claimed' \in Claims /\ helloError' = TRUE /\ sortable' \in BOOLEAN
    /\ sessionOpen' = TRUE
    /\ UNCHANGED <<options, mock, rows, at, case, trees, loaded, observed,
                   broken, summary, history>>

HelloFails ==
    /\ pc = "hello" /\ pc' = "select"
    /\ helloError' = TRUE /\ sessionOpen' \in BOOLEAN /\ broken' \in BOOLEAN
    /\ UNCHANGED <<options, claimed, sortable, mock, rows, at, case, trees,
                   loaded, observed, summary, history>>

HelloRaises ==
    /\ pc = "hello" /\ pc' = "traceback"
    /\ sessionOpen' = TRUE
    /\ UNCHANGED <<options, hello, mock, rows, at, case, trees, loaded,
                   observed, broken, summary, history>>

-----------------------------------------------------------------------------
(* The selection. *)

Selected == IF requested # {} THEN requested ELSE claimed
Runnable ==
    IF helloError /\ Selected \cap claimed = {} THEN Selected
    ELSE Selected \cap claimed
InScope == IF Runnable = {} THEN {} ELSE RequiredVectors(Runnable, claimed)
Runs(v) == v \in InScope /\ (only # {} => v \in only)

Select ==
    /\ pc = "select"
    /\ pc' = IF only \subseteq Vector THEN "mock" ELSE "usage error"
    /\ UNCHANGED <<options, hello, mock, rows, at, case, trees, loaded,
                   observed, session, summary, history>>

StartMock ==
    /\ pc = "mock" /\ pc' = "rows"
    /\ IF MockVectors \cap InScope # {} /\ mockOk
       THEN mockUp' \in BOOLEAN /\ mockOk' = mockUp'
       ELSE UNCHANGED mock
    /\ UNCHANGED <<options, hello, rows, at, case, trees, loaded, observed,
                   session, summary, history>>

-----------------------------------------------------------------------------
(* The rows. *)

Current == Catalog[at]
AtRow == pc = "rows" /\ at <= Len(Catalog)

LeaveOut ==
    /\ AtRow /\ ~Runs(Current)
    /\ at' = at + 1
    /\ UNCHANGED <<pc, options, hello, mock, rows, case, trees, loaded,
                   observed, session, summary, history>>

NoHandshake_OwnStatus ==
    /\ AtRow /\ Runs(Current) /\ helloError
    /\ rows' = [rows EXCEPT ![Current] = NewRow("hello-error")]
    /\ at' = at + 1
    /\ flawed' = flawed \cup {Current}
    /\ UNCHANGED <<pc, options, hello, mock, case, trees, loaded, observed,
                   session, summary, failed, made>>
NoHandshake ==
    /\ AtRow /\ Runs(Current) /\ helloError
    /\ rows' = [rows EXCEPT ![Current] = NewRow("harness-error")]
    /\ at' = at + 1
    /\ flawed' = flawed \cup {Current}
    /\ UNCHANGED <<pc, options, hello, mock, case, trees, loaded, observed,
                   session, summary, failed, made>>

Begin ==
    /\ AtRow /\ Runs(Current) /\ ~helloError
    /\ pc' = "binding" /\ case' = 1 /\ loaded' = TRUE
    /\ rows' = [rows EXCEPT ![Current] = NewRow("pass")]
    /\ UNCHANGED <<options, hello, mock, at, trees, observed, session,
                   summary, history>>

InCase == pc = "binding" /\ case <= Cases[Current]
NeedsMock == Current \in MockVectors /\ case = 1

\* EnvBlocked: a capability the tree needs, no mock authority, or a listener
\* that does not start.  The row so far is lost.
Blocked ==
    /\ InCase /\ (Current \in FixtureVectors \/ NeedsMock)
    /\ mockOk' = (mockOk /\ ~NeedsMock)
    /\ rows' = [rows EXCEPT ![Current] = NewRow("env-blocked")]
    /\ pc' = "cleanup"
    /\ flawed' = flawed \cup {Current}
    /\ UNCHANGED <<options, hello, mockUp, at, case, trees, loaded, observed,
                   session, summary, failed, made>>

\* FixtureError and every other exception; a tree may be there already.
Raises ==
    /\ InCase
    /\ rows' = [rows EXCEPT ![Current] = NewRow("harness-error")]
    /\ pc' = "cleanup"
    /\ flawed' = flawed \cup {Current}
    /\ \E new \in SUBSET ({Current} \cap FixtureVectors) :
          trees' = trees \cup new /\ made' = made \cup new
    /\ UNCHANGED <<options, hello, mock, at, case, loaded, observed, session,
                   summary, failed>>

Materialise ==
    /\ NeedsMock => mockUp
    /\ trees' = trees \cup ({Current} \cap FixtureVectors)
    /\ made' = made \cup ({Current} \cap FixtureVectors)

NextCase(ok) ==
    case' = IF ~ok /\ Current \in GivesUp THEN Cases[Current] + 1 ELSE case + 1
Tagged == Current \in Triggers /\ case = Cases[Current]
Observe == exercised' = IF Tagged THEN exercised \cup {Current} ELSE exercised

\* The adapter declines the case, gives no answer, or one nobody can classify.
\* A case is a request with its assertions: _send of hook.py does not mark a
\* declined request, the assertion behind it does (Probes has them apart).
SendFails_Quiet ==
    /\ InCase /\ Materialise
    /\ broken' \in {broken, TRUE}
    /\ NextCase(FALSE) /\ Observe
    /\ flawed' = flawed \cup {Current}
    /\ UNCHANGED <<pc, options, hello, mock, rows, at, loaded, diagnostics,
                   statuses, sessionOpen, summary, failed>>
SendFails ==
    /\ InCase /\ Materialise
    /\ \E s \in {"harness-error", "unsupported"} :
          /\ broken => s = "harness-error"
          /\ rows' = [rows EXCEPT ![Current] = SetStatus(@, s)]
          /\ broken' \in IF s = "harness-error" THEN {broken, TRUE} ELSE {broken}
    /\ NextCase(FALSE) /\ Observe
    /\ flawed' = flawed \cup {Current}
    /\ UNCHANGED <<pc, options, hello, mock, at, loaded, diagnostics, statuses,
                   sessionOpen, summary, failed>>

\* A spec error where one or the other is expected.
SendSpecError ==
    /\ InCase /\ Materialise /\ ~broken
    /\ \E holds \in BOOLEAN :
          /\ Tagged \/ Current \in GivesUp => ~holds
          /\ rows' = [rows EXCEPT ![Current] = AddCheck(@, holds)]
          /\ flawed' = IF holds THEN flawed ELSE flawed \cup {Current}
          /\ failed' = IF holds THEN failed ELSE failed \cup {Current}
    /\ NextCase(FALSE) /\ Observe
    /\ UNCHANGED <<pc, options, hello, mock, at, loaded, diagnostics, statuses,
                   session, summary>>

\* An ok answer.  The binding may have nothing to assert on it; a tagged one
\* is asserted to carry its diagnostic; any may carry a source_status.
SendOk ==
    /\ InCase /\ Materialise /\ ~broken
    /\ \E check \in {"none", "holds", "mismatch"}, paired \in BOOLEAN,
          emitted \in SUBSET BOOLEAN :
          /\ Tagged => check # "none" /\ (~paired => check = "mismatch")
          /\ Cardinality(emitted) <= 1
          /\ diagnostics' = diagnostics \cup (IF Tagged THEN {paired} ELSE {})
          /\ statuses' = statuses \cup emitted
          /\ rows' = IF check = "none" THEN rows
                     ELSE [rows EXCEPT ![Current] =
                              AddCheck(@, check = "holds")]
          /\ flawed' = IF check = "mismatch" THEN flawed \cup {Current}
                       ELSE flawed
          /\ failed' = IF check = "mismatch" THEN failed \cup {Current}
                       ELSE failed
    /\ NextCase(TRUE) /\ Observe
    /\ UNCHANGED <<pc, options, hello, mock, at, loaded, session, summary>>

\* The binding returns; one that asserted nothing shows nothing.
Finish ==
    /\ pc = "binding" /\ case > Cases[Current]
    /\ pc' = "cleanup"
    /\ LET r == rows[Current]
           idle == /\ r.status = "pass" /\ ~r.checked /\ ~r.vacuous
                   /\ Current \notin {Paired, Conditional}
       IN  /\ rows' = IF idle
                      THEN [rows EXCEPT ![Current] =
                               SetStatus(r, "harness-error")]
                      ELSE rows
           /\ flawed' = IF idle THEN flawed \cup {Current} ELSE flawed
    /\ UNCHANGED <<options, hello, mock, at, case, trees, loaded, observed,
                   session, summary, failed, made>>

Cleanup_PassedOnly ==
    /\ pc = "cleanup" /\ pc' = "rows"
    /\ at' = at + 1
    /\ trees' = IF keep \/ rows[Current].status # "pass"
                THEN trees ELSE trees \ {Current}
    /\ UNCHANGED <<options, hello, mock, rows, case, loaded, observed,
                   session, summary, history>>
Cleanup ==
    /\ pc = "cleanup" /\ pc' = "rows"
    /\ at' = at + 1
    /\ trees' = IF keep \/ rows[Current].status \in {"fail", "harness-error"}
                THEN trees ELSE trees \ {Current}
    /\ UNCHANGED <<options, hello, mock, rows, case, loaded, observed,
                   session, summary, history>>

-----------------------------------------------------------------------------
(* INVARIANT_CHECKERS, in the order render.py and registry.py register them. *)

Verdicts == {"fail", "unsupported", "harness-error"}
NotExercised ==
    {t \in Triggers \ exercised : rows[t].status \notin Verdicts \cup {"out-of-scope"}}

\* What the checker makes of the row of TV-RENDER-c.
PairedRow(r) ==
    LET checked == IF diagnostics = {} THEN r
                   ELSE AddCheck(r, FALSE \notin diagnostics)
    IN  IF NotExercised = {} THEN checked
        ELSE SetStatus(checked, "harness-error")

CheckPaired ==
    /\ pc = "rows" /\ at > Len(Catalog) /\ pc' = "conditional"
    /\ rows' = IF loaded /\ rows[Paired].status # "out-of-scope"
               THEN [rows EXCEPT ![Paired] = PairedRow(@)] ELSE rows
    /\ UNCHANGED <<options, hello, mock, at, case, trees, loaded, observed,
                   session, summary, history>>

CheckConditional ==
    /\ pc = "conditional" /\ pc' = "report"
    /\ rows' = IF loaded /\ rows[Conditional].status # "out-of-scope"
               THEN [rows EXCEPT ![Conditional] =
                        IF statuses = {} THEN [@ EXCEPT !.vacuous = TRUE]
                        ELSE AddCheck(@, FALSE \notin statuses)]
               ELSE rows
    /\ UNCHANGED <<options, hello, mock, at, case, trees, loaded, observed,
                   session, summary, history>>

\* A source_status that is a list or an object is in no set: the membership
\* test raises, and the rows checked so far reach no report.
ConditionalRaises ==
    /\ pc = "conditional" /\ pc' = "traceback"
    /\ loaded /\ rows[Conditional].status # "out-of-scope"
    /\ FALSE \in statuses
    /\ UNCHANGED <<options, hello, mock, rows, at, case, trees, loaded,
                   observed, session, summary, history>>

-----------------------------------------------------------------------------
(* The report. *)

Report ==
    /\ pc = "report"
    /\ IF sortable
       THEN /\ pc' = "closing"
            /\ summary' = ScopeSummary(requested, claimed,
                                       [v \in Vector |-> rows[v].status])
       ELSE pc' = "traceback" /\ UNCHANGED summary
    /\ UNCHANGED <<options, hello, mock, rows, at, case, trees, loaded,
                   observed, session, history>>

CloseRun_Forgets ==
    /\ pc = "closing" /\ pc' = "done"
    /\ mockUp' = FALSE
    /\ UNCHANGED <<options, hello, mockOk, rows, at, case, trees, loaded,
                   observed, session, summary, history>>
CloseRun ==
    /\ pc = "closing" /\ pc' = "done"
    /\ mockUp' = FALSE /\ sessionOpen' = FALSE
    /\ UNCHANGED <<options, hello, mockOk, rows, at, case, trees, loaded,
                   observed, broken, summary, history>>

exit_status ==
    IF helloError \/ \E v \in Vector : rows[v].status \in {"fail", "harness-error"}
    THEN 1 ELSE 0

Handshake == HelloOk \/ HelloRefused \/ HelloFails \/ HelloRaises
Binding == Blocked \/ Raises \/ SendFails \/ SendSpecError \/ SendOk \/ Finish
RowSteps == LeaveOut \/ NoHandshake \/ Begin \/ Binding \/ Cleanup
Ended == pc \in {"done", "usage error", "traceback"} /\ UNCHANGED vars

Steps ==
    Handshake \/ Select \/ StartMock \/ RowSteps \/ CheckPaired
        \/ CheckConditional \/ ConditionalRaises \/ Report \/ CloseRun
Next == Steps \/ Ended

\* Every call of the session returns (AdapterSession!PromiseKept).
Spec == Init /\ [][Next]_vars /\ WF_vars(Steps)
-----------------------------------------------------------------------------
(* Properties. *)

(* The type invariant. *)
TypeOK ==
    /\ pc \in {"hello", "select", "mock", "rows", "binding", "cleanup",
               "conditional", "report", "closing", "done", "usage error",
               "traceback"}
    /\ requested \in SUBSET Scope /\ only \in Onlys /\ keep \in BOOLEAN
    /\ claimed \in SUBSET Scope /\ helloError \in BOOLEAN
    /\ sortable \in BOOLEAN
    /\ mockOk \in BOOLEAN /\ mockUp \in BOOLEAN
    /\ rows \in [Vector -> Row]
    /\ at \in 1..(Len(Catalog) + 1) /\ case \in Nat
    /\ trees \subseteq Vector /\ loaded \in BOOLEAN
    /\ exercised \subseteq Triggers /\ diagnostics \subseteq BOOLEAN
    /\ statuses \subseteq BOOLEAN
    /\ broken \in BOOLEAN /\ sessionOpen \in BOOLEAN
    /\ flawed \subseteq Vector /\ failed \subseteq Vector
    /\ made \subseteq Vector
    /\ pc \in {"binding", "cleanup"} => at <= Len(Catalog)

(* DESIGN.md section 8, the claim: a scope whose summary says "pass" stands  *)
(* for its own vectors, those of its prerequisites and, for render, those of *)
(* every claimed L1 scope.  All of them were run by this run and nothing     *)
(* about them ever went wrong; if the two checkers' vectors are among them,  *)
(* no degraded render lacked its diagnostic, each of their triggers was      *)
(* sent, and no source_status was outside its four values.                   *)
Standing(s) ==
    UNION {ScopeMap[p] : p \in {s} \cup Prereq[s]
                                \cup (IF s = Render THEN claimed \cap L1 ELSE {})}
ClaimSound ==
    \A s \in DOMAIN summary : summary[s] = "pass" =>
        /\ s \in claimed
        /\ Standing(s) \cap flawed = {}
        /\ \A v \in Standing(s) : Runs(v)
        /\ Paired \in Standing(s) =>
              /\ FALSE \notin diagnostics
              /\ Triggers \cap Standing(s) \subseteq exercised
        /\ Conditional \in Standing(s) => FALSE \notin statuses

(* A broken session, which serves nobody, gives no vector a pass that it     *)
(* did not earn before: only a binding that sends nothing still passes.      *)
DeadAdapterNoPass ==
    [][\A v \in Vector :
          pc = "cleanup" /\ at' = at + 1 /\ Current = v /\ broken
              /\ rows[v].status = "pass" => Cases[v] = 0]_vars

(* DESIGN.md section 3: the trees of a vector stay on disk exactly when it   *)
(* failed, could not be judged, or --keep-fixtures asks for it; none of the  *)
(* ways a binding can end leaves a tree behind or removes one that is shown. *)
FixtureLifetime ==
    \A i \in 1..(at - 1) : LET v == Catalog[i] IN
        v \in trees <=>
            v \in made /\ (keep \/ rows[v].status \in {"fail", "harness-error"})

(* Whatever the adapter answers, the run ends, with its process closed when  *)
(* it ends with a report.  (It is taken that nobody holds a half-open        *)
(* connection to the mock authority: MockDouble.close waits for a listener   *)
(* that waits for the handshake.)                                            *)
RunEnds ==
    <>(pc \in {"usage error", "traceback"} \/ (pc = "done" /\ ~sessionOpen))

(* The epilog of __main__.py: "Exit status: 0 when no vector failed or       *)
(* harness-errored; 1 when any did".                                         *)
ExitHonest == pc = "done" /\ exit_status = 0 => failed = {}

(* DESIGN.md section 5: TV-RENDER-c "passes when the property held           *)
(* everywhere and every trigger path whose owning scope is claimed was       *)
(* exercised by its probe; an unexercised claimed trigger is a harness-error,*)
(* never a silent pass".                                                     *)
PairedExercised ==
    pc = "done" /\ rows[Paired].status = "pass" =>
        \A t \in Triggers :
            (\E s \in claimed : t \in ScopeMap[s]) => t \in exercised

(* PROTOCOL.md section 1: "The runner refuses to run (run-level harness      *)
(* error) on an adapter_protocol it does not implement."  A refusal is       *)
(* reported, and so is what an adapter answers later; neither is an          *)
(* exception of the runner.                                                  *)
AlwaysReported == pc # "traceback"
=============================================================================
