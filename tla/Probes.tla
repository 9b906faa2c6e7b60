------------------------------- MODULE Probes -------------------------------
(***************************************************************************)
(* One vector under one adapter: its binding runs step by step, the        *)
(* adapter answers each request rightly or not, and run.py closes the row. *)
(* The question is what a verdict is worth: whether every wrong answer     *)
(* costs the vector its pass, and whether it is booked as what it was.     *)
(***************************************************************************)
EXTENDS BindingShape, VectorResult, FiniteSets

CONSTANTS
    Body,       \* the registry of the bindings: a sequence of steps each
    Invariant,  \* INVARIANT_VECTOR_IDS
    MaxWrong,   \* bound: the wrong answers an adapter gives to one vector
    Unjudged,   \* <<vector, leg>> pairs of which a wrong answer may go by
    Blaming,    \* vectors that book a declined request as a failure
    Misfiled    \* vectors that book a wrong answer as a harness error

Vector == DOMAIN Body

ASSUME BodyAssumption ==
    \A v \in Vector :
        /\ Body[v] \in Seq(StepType)
        /\ \A i \in DOMAIN Body[v] :
            Body[v][i].do \notin {"relation", "set relation"}
                => \E l \in Body[v][i].legs : Body[v][i].legs = {l}

\* A leg is sent once, and before anything looks at its answer.
ASSUME SendsFirst ==
    \A v \in Vector : \A i, j \in DOMAIN Body[v] :
        /\ Body[v][j].do \in Sends
        /\ Body[v][j].legs
            \cap (Body[v][i].legs \cup Body[v][i].when \cup Body[v][i].unless)
              # {}
        => j <= i
ASSUME MaxWrongAssumption == MaxWrong \in Nat

\* What the texts of the bindings promise, and the vectors whose do not.
ASSUME AskedAssumption == \A v \in Vector : WellAsked(Body[v])
ASSUME GradedAssumption ==
    \A v \in Vector \ Misfiled :
        NeverRaises(Body[v]) /\ (v \in Invariant \/ AlwaysGraded(Body[v]))
ASSUME RightAssumption ==
    \A v \in Vector \ Invariant : RightGraded(Body[v])
ASSUME TolerantAssumption ==
    \A v \in Vector \ Blaming : Tolerant(Body[v])
ASSUME JudgedAssumption ==
    \A v \in Vector :
        AllJudged(Body[v], {l \in LegsOf(Body[v]) : <<v, l>> \in Unjudged},
                  v \in Invariant)

VARIABLES
    vector,    \* whose binding runs
    protocol,  \* adapter_protocol of the handshake
    at,        \* the next step; past the last one, the binding has returned
    answer,    \* the answers so far, by leg
    row,       \* the VectorResult
    done       \* run.py has closed the row

vars == <<vector, protocol, at, answer, row, done>>

Steps == Body[vector]
Current == Steps[at]
Running == ~done /\ at \in DOMAIN Steps

IsOk(l) == l \in DOMAIN answer /\ answer[l].kind = "ok"
Enabled(s) ==
    /\ \A l \in s.when : IsOk(l)
    /\ s.unless # {} => \E l \in s.unless : ~IsOk(l)

\* A leg whose request carries the output of an answer that has none: the
\* binding sends the marker of an absent value, and any answer is right.
Junk(l) ==
    \E i \in DOMAIN Steps :
        /\ Steps[i].do \in Sends /\ l \in Steps[i].legs
        /\ \E k \in Steps[i].from : ~IsOk(k)

IsRight(l, a) == a.kind = RightKind(Steps, l) /\ a.flaw = "none"
Wrong == {l \in DOMAIN answer : ~IsRight(l, answer[l]) /\ ~Junk(l)}

-----------------------------------------------------------------------------
Init ==
    /\ vector \in Vector /\ protocol \in {1, 2}
    /\ at = 1 /\ answer = <<>> /\ row = NewRow("pass") /\ done = FALSE

\* What send does to the row.
Marked(r, do, kind) ==
    IF kind = "harness-error" THEN SetStatus(r, "harness-error")
    ELSE IF kind = "unsupported" /\ do = "send"
         THEN SetStatus(r, "unsupported")
    ELSE r

SendLeg ==
    /\ Running /\ Enabled(Current) /\ Current.do \in Sends
    /\ \E l \in Current.legs : \E a \in Answers(Steps, l) :
        /\ IsRight(l, a) \/ Junk(l) \/ Cardinality(Wrong) < MaxWrong
        /\ answer' = [k \in DOMAIN answer \cup {l} |->
                         IF k = l THEN a ELSE answer[k]]
        /\ row' = Marked(row, Current.do, a.kind)
    /\ at' = at + 1
    /\ UNCHANGED <<vector, protocol, done>>

Check ==
    /\ Running /\ Enabled(Current) /\ Current.do \in Asserts
    /\ \E o \in Outcomes(Steps, Current, answer, protocol) :
        /\ row' = CASE o = "holds"       -> AddCheck(row, TRUE)
                    [] o = "fails"       -> AddCheck(row, FALSE)
                    [] o = "unsupported" -> SetStatus(row, "unsupported")
                    [] o = "vacuous"     -> [row EXCEPT !.vacuous = TRUE]
                    [] o = "raises"      -> NewRow("harness-error")
                    [] o = "nothing"     -> row
        /\ at' = IF o \in {"vacuous", "raises"} THEN Len(Steps) + 1
                 ELSE at + 1
    /\ UNCHANGED <<vector, protocol, answer, done>>

\* Mutants: each is a plausible slip.
PassOver_SkipsTwo ==
    /\ Running /\ ~Enabled(Current)
    /\ at' = at + 2
    /\ UNCHANGED <<vector, protocol, answer, row, done>>
Finish_NoInvariant ==
    /\ ~done /\ at > Len(Steps)
    /\ done' = TRUE
    /\ row' = IF row.status = "pass" /\ ~row.checked /\ ~row.vacuous
              THEN SetStatus(row, "harness-error") ELSE row
    /\ UNCHANGED <<vector, protocol, at, answer>>
Finish_NoVacuous ==
    /\ ~done /\ at > Len(Steps)
    /\ done' = TRUE
    /\ row' = IF /\ row.status = "pass" /\ ~row.checked
                 /\ vector \notin Invariant
              THEN SetStatus(row, "harness-error") ELSE row
    /\ UNCHANGED <<vector, protocol, at, answer>>

PassOver ==
    /\ Running /\ ~Enabled(Current)
    /\ at' = at + 1
    /\ UNCHANGED <<vector, protocol, answer, row, done>>

\* A pass without a check is none, but for the invariant vectors, which the
\* checkers judge after all bindings, and for a vacuous one.
Finish ==
    /\ ~done /\ at > Len(Steps)
    /\ done' = TRUE
    /\ row' = IF /\ row.status = "pass" /\ ~row.checked /\ ~row.vacuous
                 /\ vector \notin Invariant
              THEN SetStatus(row, "harness-error") ELSE row
    /\ UNCHANGED <<vector, protocol, at, answer>>

Ended == done /\ UNCHANGED vars

Next == SendLeg \/ Check \/ PassOver \/ Finish \/ Ended

Spec == Init /\ [][Next]_vars

-----------------------------------------------------------------------------
TypeOK ==
    /\ vector \in Vector /\ protocol \in {1, 2} /\ done \in BOOLEAN
    /\ at \in 1 .. (Len(Steps) + 1)
    /\ DOMAIN answer \subseteq STRING /\ answer \in [DOMAIN answer -> AnswerType]
    /\ row \in Row

Passed == done /\ row.status = "pass"

\* The wrong answers that the vector owes a verdict: a protocol 1 adapter is
\* never asked for the reason of its verdict.
Owed == {l \in Wrong : ~(protocol = 1 /\ answer[l].flaw = "reason")}

\* No vector passes with a wrong answer in it, whichever step of its binding
\* it was given to: each leg is asserted, on every path, or ruled out by the
\* condition of a leg that was.  The exceptions are legs whose own wrong
\* answer makes the binding skip what it would assert.
NoSilentPass ==
    Passed /\ Owed # {} => \E l \in Owed : <<vector, l>> \in Unjudged

\* An asserted field that is absent from the result is a failure, also when
\* the binding folds the field into a truth value before it compares it.
MissingFieldFails ==
    Passed =>
        \A i \in DOMAIN Steps : \A l \in Steps[i].legs \cap DOMAIN answer :
            (/\ Steps[i].do \in Asserts /\ Enabled(Steps[i])
             /\ ~(Steps[i].do = "reason" /\ protocol = 1))
                => ~(answer[l].missing /\ Flawed(Steps[i], answer[l]))

\* An adapter that only declines what it does not implement, and is right
\* otherwise, fails no vector.
DeclineNotBlamed ==
    (done /\ \A l \in Wrong : answer[l].kind = "unsupported")
        => row.status \in {"pass", "unsupported"} \/ vector \in Blaming

\* A row says harness-error only of an adapter that broke: an answer that is
\* wrong, and well formed, is a failure.
FaultIsFault ==
    (done /\ row.status = "harness-error")
        => \/ \E l \in DOMAIN answer : answer[l].kind = "harness-error"
           \/ vector \in Misfiled

\* And one that broke is never graded: no later answer or assertion turns
\* the row into a failure or a declined vector.
FaultKept ==
    (\E l \in DOMAIN answer : answer[l].kind = "harness-error")
        => row.status = "harness-error"

\* An adapter that is right throughout passes, whatever its protocol.
RightPasses == done /\ Wrong = {} => row.status = "pass"

\* What the assertion s found true of the answers it looks at.
Satisfied(s) ==
    CASE s.do \in {"field", "never", "accept", "error"} ->
             \A l \in s.legs :
                 /\ answer[l].kind = RightKind(Steps, l)
                 /\ ~Flawed(s, answer[l])
      [] s.do = "demand" ->
             \A l \in s.legs : answer[l].kind = "ok" /\ ~Flawed(s, answer[l])
      [] s.do \in {"relation", "set relation"} ->
             \A l \in s.legs : ~Flawed(s, answer[l])
      [] OTHER -> TRUE

\* A pass is never bought back: while the row says pass, every assertion run
\* so far was true, the early ones too.
PassMeansHeld ==
    (row.status = "pass" /\ ~row.vacuous)
        => \A i \in DOMAIN Steps :
              (/\ i < at /\ Steps[i].do \in Asserts /\ Enabled(Steps[i])
               /\ Steps[i].legs \subseteq DOMAIN answer)
                  => Satisfied(Steps[i])
=============================================================================
