----------------------------- MODULE ProbeSteps -----------------------------
(***************************************************************************)
(* The vocabulary of the bindings (conformance/runner/bindings).  Each one *)
(* is a straight line of requests ("legs") and assertions, some of them    *)
(* under a condition on earlier answers; here it is a sequence of steps.   *)
(*                                                                         *)
(* What an assertion compares is data.  An aspect of a leg stands for the  *)
(* fields that one assertion looks at, and "value" for all fields asserted *)
(* on a leg without condition; a loop over cases stands with two rounds.   *)
(***************************************************************************)
EXTENDS Naturals, Sequences

Sends == {"send", "hook send"}
Asserts == {"field", "never", "truthy", "error", "diagnostic", "reason", "accept",
            "require", "impossible", "relation", "set relation", "demand",
            "absence", "mark", "waive"}

StepType ==
    [do : Sends \cup Asserts, legs : SUBSET STRING, aspect : STRING,
     when : SUBSET STRING, unless : SUBSET STRING, from : SUBSET STRING]

Step(do, L, a) ==
    [do |-> do, legs |-> L, aspect |-> a, when |-> {}, unless |-> {},
     from |-> {}]
Line(do, l, a) == <<Step(do, {l}, a)>>

\* send of common.py, and _send of hook.py, which leaves a declined request
\* to the assertions.  SendFrom: the request carries output of earlier legs.
Send(l)         == Line("send", l, "none")
HookSend(l)     == Line("hook send", l, "none")
SendFrom(l, F)  == <<[Step("send", {l}, "none") EXCEPT !.from = F]>>
HookSendFrom(l, F) == <<[Step("hook send", {l}, "none") EXCEPT !.from = F]>>

\* Assertions on one answer.
Field(l, a)   == Line("field", l, a)
Fields(l)     == Field(l, "value")
Never(l, a)   == Line("never", l, a)           \* hash_value(...) != ...
Truthy(l, a)  == Line("truthy", l, a)          \* bool(hash_value(...))
Error(l)      == Line("error", l, "error")
Diagnostic(l) == Line("diagnostic", l, "diagnostic")  \* present, or absent
Reason(l)     == Line("reason", l, "reason")
Accept(l)     == Line("accept", l, "none")
Require(l)    == Line("require", l, "none")    \* nothing to check if ok
Impossible(l) == Line("impossible", l, "none") \* fails if ok
Demand(l, a)  == Line("demand", l, a)          \* not ok means false
Absence(l, a) == Line("absence", l, a)         \* not ok means absent
Mark(l)       == Line("mark", l, "none")
Waive(l)      == Line("waive", l, "none")      \* nothing emitted: vacuous

\* Assertions on several answers; the second puts the values in a set().
Relation(L, a)    == <<Step("relation", L, a)>>
SetRelation(L, a) == <<Step("set relation", L, a)>>

\* Under a condition: all of the answers L are ok, or not all are.
If(L, s)     == [i \in DOMAIN s |-> [s[i] EXCEPT !.when = @ \cup L]]
Unless(L, s) == [i \in DOMAIN s |-> [s[i] EXCEPT !.unless = L]]

Ask(l)         == Send(l) \o Fields(l)
Reject(l)      == Send(l) \o Error(l)
Verdict(l)     == Send(l) \o Fields(l) \o Reason(l)
HookAsk(l)     == HookSend(l) \o Fields(l)
HookReject(l)  == HookSend(l) \o Error(l)
HookVerdict(l) == HookSend(l) \o Fields(l) \o Reason(l)

\* The cases of a loop.
Each(Case(_)) == Case("case_1") \o Case("case_2")

-----------------------------------------------------------------------------
(* What an answer can be: of the right kind and without flaw; with a flaw   *)
(* in one of the aspects asserted on its leg, which makes that assertion    *)
(* false and may be that the asserted field is missing; of the other kind;  *)
(* declined; or a failure of the adapter.                                   *)

RightKind(body, l) ==
    IF \E i \in DOMAIN body : body[i].do = "error" /\ l \in body[i].legs
    THEN "spec-error" ELSE "ok"

Flaws(body, l) ==
    {body[i].aspect : i \in {j \in DOMAIN body : l \in body[j].legs}} \ {"none"}

\* Aspects that are wrong only by saying what they must not.
Forbidden(body, l) ==
    {body[i].aspect : i \in {j \in DOMAIN body :
                                l \in body[j].legs /\ body[j].do = "never"}}

AnswerType ==
    [kind : {"ok", "spec-error", "unsupported", "harness-error"},
     flaw : {"none"} \cup STRING, missing : BOOLEAN]

Answers(body, l) ==
    [kind : {"ok", "spec-error", "unsupported", "harness-error"},
     flaw : {"none"}, missing : {FALSE}]
      \cup [kind : {RightKind(body, l)}, flaw : Flaws(body, l),
            missing : {FALSE}]
      \cup [kind : {RightKind(body, l)}, flaw : Flaws(body, l) \ Forbidden(body, l),
            missing : {TRUE}]

-----------------------------------------------------------------------------
(* The outcomes of an assertion.                                            *)

HoldsIf(b) == {IF b THEN "holds" ELSE "fails"}

\* The answer is wrong in what the assertion looks at.
Flawed(s, a) == s.aspect # "none" /\ a.flaw = s.aspect

\* Mutants: each is a plausible slip.
\* A spec error ends the assertion of a field without a check.
Judged_Skipped(body, s, a, protocol) ==
    {IF a.kind = "spec-error" THEN "nothing"
     ELSE IF Flawed(s, a) THEN "fails" ELSE "holds"}

\* On an answer that is ok or a spec error.
Judged(body, s, a, protocol) ==
    LET right == a.kind = RightKind(body, CHOOSE l \in s.legs : TRUE)
        unflawed == ~Flawed(s, a)
    IN  CASE s.do \in {"field", "never", "accept", "error"} ->
                 HoldsIf(right /\ unflawed)
          [] s.do = "truthy" ->
                 HoldsIf(right /\ (unflawed \/ a.missing))
          [] s.do = "diagnostic" ->
                 IF right THEN HoldsIf(unflawed) ELSE {"holds", "fails"}
          [] s.do = "reason" ->
                 IF protocol < 2 THEN {"nothing"}
                 ELSE HoldsIf(right /\ unflawed)
          [] s.do = "require" ->
                 {IF a.kind = "ok" THEN "nothing" ELSE "fails"}
          [] s.do = "impossible" -> {"fails"}
          [] s.do = "mark" -> {"nothing"}
          [] s.do = "waive" ->
                 {"nothing"} \cup
                 (IF a.kind = "ok" /\ a.flaw = "none" THEN {"vacuous"} ELSE {})

\* Mutant: a declined request fails the assertion.
OutcomesOf_Blames(body, s, a, protocol) ==
    IF a.kind = "harness-error" THEN {"nothing"}
    ELSE HoldsIf(a.kind = RightKind(body, CHOOSE l \in s.legs : TRUE)
                 /\ ~Flawed(s, a))

\* On a declined request or a failed adapter: what the helpers return early
\* with, unless the binding looks at the answer itself.
OutcomesOf(body, s, a, protocol) ==
    CASE s.do = "demand" -> HoldsIf(a.kind = "ok" /\ ~Flawed(s, a))
      [] s.do = "absence" -> HoldsIf(a.kind # "ok" \/ ~Flawed(s, a))
      [] s.do \notin {"demand", "absence"} /\ a.kind = "unsupported" ->
             {IF s.do = "waive" \/ (s.do = "reason" /\ protocol < 2)
              THEN "nothing" ELSE "unsupported"}
      [] s.do \notin {"demand", "absence"} /\ a.kind = "harness-error" ->
             {"nothing"}
      [] OTHER -> Judged(body, s, a, protocol)

Outcomes(body, s, answer, protocol) ==
    LET flawed == \E l \in s.legs : Flawed(s, answer[l])
    IN  CASE s.do = "relation" -> HoldsIf(~flawed)
          [] s.do = "set relation" ->
                 IF flawed THEN {"fails", "raises"} ELSE {"holds"}
          [] OTHER ->
                 OutcomesOf(body, s, answer[CHOOSE l \in s.legs : TRUE],
                            protocol)
=============================================================================
