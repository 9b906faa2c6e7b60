--------------------------- MODULE DifferentialRun ---------------------------
(***************************************************************************)
(* The differential pass (conformance/runner/differential.py): two adapter *)
(* sessions answer the same generated trials one after the other, the      *)
(* answers are compared, counted, and the counts decide whether the run is *)
(* clean, which makes it graduation evidence.  The sessions are those of   *)
(* RequestReply: once broken, they answer harness-error for ever.          *)
(***************************************************************************)
EXTENDS ScopeClosure, Integers, Sequences

CONSTANTS
    Family,          \* the trial families
    FamilyScope,     \* FAMILY_SCOPES
    Trials,          \* the trials of a seed and a count: their families
    FixtureFamilies, \* the families whose trials materialise a body
    DiagnosticFamilies, \* the families that compare diagnostics_ids
    KeepFixtures,    \* keep_fixtures
    Claims           \* the scope claims of the handshakes of the model

ASSUME FamilyAssumption ==
    /\ FamilyScope \in [Family -> Scope] /\ FixtureFamilies \subseteq Family
    /\ DiagnosticFamilies \subseteq Family
    /\ Trials \in Seq(Family) /\ Claims \subseteq SUBSET Scope
    /\ KeepFixtures \in BOOLEAN

VARIABLES
    pc,           \* "start a", "start b", "build", "ask a", "ask b",
                  \* "close b", "close a", "clean up"; "report" and then
                  \* "done", or "traceback" when an exception escapes
    claimed,      \* the claims of the two adapters
    open,         \* the adapters whose process runs
    broken,       \* the adapters whose transport has failed
    at,           \* the current trial
    answer,       \* the observation of the first adapter, while it is needed
    counts, family_counts,
    trees,        \* ctx.roots, by trial
    raised,       \* an exception is on its way out
    refused,      \* history: the adapters that did not start
    seen          \* history: the answers to the trials that were asked

history == <<refused, seen>>
vars == <<pc, claimed, open, broken, at, answer, counts, family_counts,
          trees, raised, history>>

Adapters == {"a", "b"}
TrialStatuses == {"agree", "disagree", "incomplete", "uncomparable",
                  "unsupported", "harness-error", "env-skipped"}

\* What _observe makes of a response: the class and, for an error or a result,
\* its content; a result may lack a field that carries the family's answer.
\* The content of the first adapter is called 1, whatever it is.
Observation ==
    [class : {"harness-error", "unsupported"}, content : {1}, complete : {TRUE}]
        \cup [class : {"error"}, content : {1, 2}, complete : {TRUE}]
        \cup [class : {"ok"}, content : {1, 2}, complete : BOOLEAN]
HarnessError == [class |-> "harness-error", content |-> 1, complete |-> TRUE]

required ==
    {f \in Family : \A x \in Adapters : FamilyScope[f] \in Closure(claimed[x], {})}

-----------------------------------------------------------------------------
(* _trial_status and clean_problems. *)

TrialStatus_EqualFirst(a, b, family) ==
    IF "harness-error" \in {a.class, b.class} THEN "harness-error"
    ELSE IF a = b THEN "agree"
    ELSE IF "unsupported" \in {a.class, b.class} /\ family \notin required
         THEN "uncomparable"
    ELSE "disagree"
TrialStatus(a, b, family) ==
    IF "harness-error" \in {a.class, b.class} THEN "harness-error"
    ELSE IF "unsupported" \in {a.class, b.class}
         THEN IF family \notin required THEN "uncomparable"
              ELSE IF a.class # b.class THEN "disagree" ELSE "unsupported"
    ELSE IF a # b THEN "disagree"
    ELSE IF ~a.complete THEN "incomplete"
    ELSE "agree"

clean ==
    /\ \A s \in {"disagree", "harness-error", "unsupported", "incomplete"} :
          counts[s] = 0
    /\ counts["agree"] > 0
    /\ required # {}
    /\ \A f \in required : family_counts[f]["agree"] > 0

Count(s) ==
    /\ counts' = [counts EXCEPT ![s] = @ + 1]
    /\ family_counts' = [family_counts EXCEPT ![Trials[at]][s] = @ + 1]

-----------------------------------------------------------------------------
Init ==
    /\ pc = "start a"
    /\ claimed = [x \in Adapters |-> {}] /\ open = {} /\ broken = {}
    /\ at = 1 /\ answer = HarnessError
    /\ counts = [s \in TrialStatuses |-> 0]
    /\ family_counts = [f \in Family |-> counts]
    /\ trees = {} /\ raised = FALSE /\ refused = {} /\ seen = {}

(* __enter__: the first session, then the second.  One that does not start   *)
(* is never left by __exit__; the exception unwinds the other.               *)
Starts(x, here, next) ==
    /\ pc = here /\ pc' = next
    /\ \E c \in Claims : claimed' = [claimed EXCEPT ![x] = c]
    /\ open' = open \cup {x}
    /\ UNCHANGED <<broken, at, answer, counts, family_counts, trees,
                   raised, history>>
StartFails(x, here, next) ==
    /\ pc = here /\ pc' = next
    /\ open' \in {open, open \cup {x}}
    /\ raised' = TRUE /\ refused' = refused \cup {x}
    /\ UNCHANGED <<claimed, broken, at, answer, counts, family_counts,
                   trees, seen>>

StartA == Starts("a", "start a", "start b")
StartB == Starts("b", "start b", "build")
StartAFails == StartFails("a", "start a", "traceback")
StartBFails == StartFails("b", "start b", "close a")

-----------------------------------------------------------------------------
(* One trial. *)

More == pc = "build" /\ at <= Len(Trials)
Materialises == Trials[at] \in FixtureFamilies

Build ==
    /\ More /\ pc' = "ask a"
    /\ trees' = IF Materialises THEN trees \cup {at} ELSE trees
    /\ UNCHANGED <<claimed, open, broken, at, answer, counts,
                   family_counts, raised, history>>

\* EnvBlocked: the file system cannot hold the tree; the trial is skipped.
BuildBlocked_SkipsTwo ==
    /\ More /\ Materialises
    /\ Count("env-skipped") /\ at' = at + 2
    /\ UNCHANGED <<pc, claimed, open, broken, answer, trees, raised, history>>
BuildBlocked ==
    /\ More /\ Materialises
    /\ Count("env-skipped") /\ at' = at + 1
    /\ UNCHANGED <<pc, claimed, open, broken, answer, trees, raised, history>>

\* Any other exception ends the run; the tree may be there already.
BuildRaises ==
    /\ More /\ Materialises
    /\ pc' = "close b" /\ raised' = TRUE
    /\ trees' \in {trees, trees \cup {at}}
    /\ UNCHANGED <<claimed, open, broken, at, answer, counts,
                   family_counts, history>>

\* request() of one session, as RequestReply has it.
Answers(x, o) ==
    /\ x \in broken => o = HarnessError
    /\ IF o = HarnessError THEN broken' \in {broken, broken \cup {x}}
       ELSE UNCHANGED broken

AskA ==
    /\ pc = "ask a" /\ pc' = "ask b"
    /\ answer' \in Observation /\ answer'.content = 1 /\ Answers("a", answer')
    /\ UNCHANGED <<claimed, open, at, counts, family_counts, trees,
                   raised, history>>

AskB ==
    /\ pc = "ask b" /\ pc' = "build"
    /\ \E o \in Observation :
          /\ Answers("b", o)
          /\ Count(TrialStatus(answer, o, Trials[at]))
          /\ seen' = seen \cup {[family |-> Trials[at], a |-> answer, b |-> o]}
    /\ at' = at + 1 /\ answer' = HarnessError
    /\ UNCHANGED <<claimed, open, trees, raised, refused>>

\* A line that json.loads neither reads nor calls invalid leaves request() as
\* an exception; a session that is broken reads none.
RequestRaises(x, here) ==
    /\ pc = here /\ x \notin broken
    /\ pc' = "close b" /\ raised' = TRUE
    /\ UNCHANGED <<claimed, open, broken, at, answer, counts, family_counts,
                   trees, history>>
AskARaises == RequestRaises("a", "ask a")
AskBRaises == RequestRaises("b", "ask b")

\* Both have answered, and the diagnostics of one result cannot be iterated:
\* _observe raises, and the trial gets no row.
ObserveRaises ==
    /\ pc = "ask b" /\ Trials[at] \in DiagnosticFamilies
    /\ pc' = "close b" /\ raised' = TRUE
    /\ \E o \in Observation :
          Answers("b", o) /\ "ok" \in {answer.class, o.class}
    /\ UNCHANGED <<claimed, open, at, answer, counts, family_counts, trees,
                   history>>

-----------------------------------------------------------------------------
(* The end: __exit__ of the second session, then of the first, the trees and *)
(* the report.  An exception skips what stands behind the with statement.    *)

LoopEnds ==
    /\ pc = "build" /\ at > Len(Trials) /\ pc' = "close b"
    /\ UNCHANGED <<claimed, open, broken, at, answer, counts,
                   family_counts, trees, raised, history>>

CloseB ==
    /\ pc = "close b" /\ pc' = "close a"
    /\ open' = open \ {"b"}
    /\ UNCHANGED <<claimed, broken, at, answer, counts, family_counts,
                   trees, raised, history>>

CloseA_Skipped ==
    /\ pc = "close a" /\ pc' = IF raised THEN "traceback" ELSE "clean up"
    /\ open' = IF raised THEN open ELSE open \ {"a"}
    /\ UNCHANGED <<claimed, broken, at, answer, counts, family_counts,
                   trees, raised, history>>
CloseA ==
    /\ pc = "close a" /\ pc' = IF raised THEN "traceback" ELSE "clean up"
    /\ open' = open \ {"a"}
    /\ UNCHANGED <<claimed, broken, at, answer, counts, family_counts,
                   trees, raised, history>>

CleanUp ==
    /\ pc = "clean up" /\ pc' = "done"
    /\ trees' = IF KeepFixtures THEN trees ELSE {}
    /\ UNCHANGED <<claimed, open, broken, at, answer, counts,
                   family_counts, raised, history>>

Ended == pc \in {"done", "traceback"} /\ UNCHANGED vars

Starting == StartA \/ StartB \/ StartAFails \/ StartBFails
Raising == BuildRaises \/ AskARaises \/ AskBRaises \/ ObserveRaises
Trial == Build \/ BuildBlocked \/ AskA \/ AskB \/ Raising
Ending == LoopEnds \/ CloseB \/ CloseA \/ CleanUp
Next == Starting \/ Trial \/ Ending \/ Ended

Spec == Init /\ [][Next]_vars
-----------------------------------------------------------------------------
(* Properties. *)

(* The type invariant. *)
TypeOK ==
    /\ pc \in {"start a", "start b", "build", "ask a", "ask b", "close b",
               "close a", "clean up", "done", "traceback"}
    /\ raised \in BOOLEAN
    /\ claimed \in [Adapters -> SUBSET Scope]
    /\ open \subseteq Adapters /\ broken \subseteq Adapters
    /\ refused \subseteq Adapters
    /\ at \in 1..(Len(Trials) + 1) /\ answer \in Observation
    /\ counts \in [TrialStatuses -> Nat]
    /\ family_counts \in [Family -> [TrialStatuses -> Nat]]
    /\ trees \subseteq 1..Len(Trials)
    /\ seen \subseteq [family : Family, a : Observation, b : Observation]
    /\ pc \in {"ask a", "ask b"} => at <= Len(Trials)

(* The clean discipline of the module's docstring: "clean is graduation      *)
(* evidence, so it requires real observations, not just the absence of       *)
(* failures".  The run is clean exactly when the adapters share a required   *)
(* family, each required family has a trial both of them really answered     *)
(* alike, and no trial speaks against them: all were answered alike and      *)
(* completely, but for families outside the shared claims, in which          *)
(* "either side answering unsupported" is "never a disagreement".  An        *)
(* adapter whose transport failed at any trial has no part in a clean run.   *)
Alike(t) ==
    /\ t.a = t.b /\ t.a.complete
    /\ t.a.class \notin {"harness-error", "unsupported"}
NotComparable(t) ==
    /\ t.family \notin required
    /\ "unsupported" \in {t.a.class, t.b.class}
    /\ "harness-error" \notin {t.a.class, t.b.class}
Evidence ==
    /\ broken = {} /\ required # {}
    /\ \A f \in required : \E t \in seen : t.family = f /\ Alike(t)
    /\ \A t \in seen : Alike(t) \/ NotComparable(t)
CleanIsEvidence == pc = "done" => (clean <=> Evidence)

(* Whichever way the run ends, it leaves no adapter process behind but one   *)
(* that did not start, and, when it ends with a report, no tree but those    *)
(* that were to be kept.                                                     *)
NothingLeft ==
    /\ pc \in {"done", "traceback"} => open \subseteq refused
    /\ pc = "done" => open = {} /\ (KeepFixtures \/ trees = {})
=============================================================================
