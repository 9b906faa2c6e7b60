---------------------------- MODULE Probes_proofs ----------------------------
(***************************************************************************)
(* What a verdict is worth, for every registry of bindings whose texts     *)
(* meet the assumptions, and every adapter, however often it errs: types,  *)
(* an adapter that broke stays a harness error, a pass means that every    *)
(* assertion run held, only a broken adapter is a harness error, declining *)
(* is no failure, a right adapter passes, no wrong answer goes by.         *)
(* Ledger ties the row to the steps run so far; BindingShape says what the *)
(* steps of a binding are bound to find.                                   *)
(***************************************************************************)
EXTENDS Probes, TLAPS

OutcomeNames == {"holds", "fails", "unsupported", "vacuous", "raises",
                 "nothing"}

-----------------------------------------------------------------------------
(* The operations on a row.                                                 *)

\* add_check and set_status keep a row a row.
LEMMA RowOps ==
    ASSUME NEW r \in Row, NEW s \in Statuses, NEW b \in BOOLEAN
    PROVE  /\ SetStatus(r, s) \in Row
           /\ AddCheck(r, b) \in Row
           /\ NewRow(s) \in Row
           /\ [r EXCEPT !.vacuous = TRUE] \in Row
  <1>1. SetStatus(r, s) \in Row  BY DEF SetStatus, Row
  <1>2. NewRow(s) \in Row        BY DEF NewRow, Row
  <1>3. [r EXCEPT !.vacuous = TRUE] \in Row  BY DEF Row
  <1>4. AddCheck(r, b) \in Row
    <2> DEFINE c == [r EXCEPT !.checked = TRUE]
    <2>1. c \in Row  BY DEF Row
    <2>2. SetStatus(c, "fail") \in Row
      <3>1. "fail" \in Statuses  BY DEF Statuses
      <3> HIDE DEF c
      <3> QED  BY <2>1, <3>1 DEF SetStatus, Row
    <2> QED  BY <2>1, <2>2 DEF AddCheck
  <1> QED  BY <1>1, <1>2, <1>3, <1>4

\* set_status: a harness error is the worst status and stays.
LEMMA SetStatusWorst ==
    ASSUME NEW r \in Row, NEW s \in Statuses
    PROVE  /\ SetStatus(r, "harness-error").status = "harness-error"
           /\ r.status = "harness-error"
                => SetStatus(r, s).status = "harness-error"
           /\ s # "pass" => (SetStatus(r, s).status = "pass" => s = "out-of-scope")
           /\ SetStatus(r, s).vacuous = r.vacuous
  <1>1. r.status \in Statuses  BY DEF Row
  <1>2. \A t \in Statuses :
            /\ Priority["harness-error"] >= Priority[t]
            /\ t # "harness-error" => ~(Priority[t] >= Priority["harness-error"])
    BY DEF Priority, Statuses
  <1>3. s # "pass" /\ s # "out-of-scope"
            => (Priority[s] >= Priority["pass"])
    BY DEF Priority, Statuses
  <1>4. SetStatus(r, s) = IF Priority[s] >= Priority[r.status]
                          THEN [r EXCEPT !.status = s] ELSE r
    BY DEF SetStatus
  <1>5. SetStatus(r, "harness-error") = [r EXCEPT !.status = "harness-error"]
    BY <1>1, <1>2 DEF SetStatus
  <1> QED  BY <1>1, <1>2, <1>3, <1>4, <1>5 DEF Row

\* A failed check never leaves a pass; a true one keeps the status.
LEMMA AddCheckKeeps ==
    ASSUME NEW r \in Row
    PROVE  /\ AddCheck(r, TRUE).status = r.status
           /\ AddCheck(r, TRUE).vacuous = r.vacuous
           /\ AddCheck(r, FALSE).status # "pass"
           /\ r.status = "harness-error"
                => AddCheck(r, FALSE).status = "harness-error"
  <1> DEFINE c == [r EXCEPT !.checked = TRUE]
  <1>1. c \in Row /\ c.status = r.status /\ c.vacuous = r.vacuous  BY DEF Row
  <1>2. AddCheck(r, TRUE) = c /\ AddCheck(r, FALSE) = SetStatus(c, "fail")
    BY DEF AddCheck
  <1>3. "fail" \in Statuses  BY DEF Statuses
  <1> HIDE DEF c
  <1>4. /\ c.status = "harness-error"
              => SetStatus(c, "fail").status = "harness-error"
        /\ SetStatus(c, "fail").status # "pass"
    BY <1>1, <1>3, SetStatusWorst
  <1> QED  BY <1>1, <1>2, <1>4

-----------------------------------------------------------------------------
(* The steps of a binding and what they can find.                           *)

LEMMA StepsType ==
    ASSUME vector \in Vector
    PROVE  /\ Steps \in Seq(StepType) /\ Len(Steps) \in Nat
           /\ DOMAIN Steps = 1 .. Len(Steps)
           /\ \A i \in DOMAIN Steps : Steps[i] \in StepType
  <1>1. Steps \in Seq(StepType)  BY BodyAssumption DEF Steps
  <1> QED  BY <1>1

LEMMA SingleLeg ==
    ASSUME vector \in Vector, NEW i \in DOMAIN Steps,
           Steps[i].do \notin {"relation", "set relation"}
    PROVE  \E l \in Steps[i].legs : Steps[i].legs = {l}
  BY BodyAssumption DEF Steps

\* The answer to a leg that the environment picks is an answer.
LEMMA AnswersType ==
    ASSUME vector \in Vector, NEW l, NEW a \in Answers(Steps, l)
    PROVE  a \in AnswerType
  <1>1. \A i \in DOMAIN Steps : Steps[i].aspect \in STRING
    BY StepsType DEF StepType
  <1>2. Flaws(Steps, l) \subseteq STRING  BY <1>1 DEF Flaws
  <1>3. RightKind(Steps, l) \in {"ok", "spec-error"}  BY DEF RightKind
  <1> DEFINE K == {"ok", "spec-error", "unsupported", "harness-error"}
  <1>4. CASE a \in [kind : K, flaw : {"none"}, missing : {FALSE}]
    <2>1. {FALSE} \subseteq BOOLEAN  BY Zenon
    <2>2. [kind : K, flaw : {"none"}, missing : {FALSE}]
            \subseteq [kind : K, flaw : {"none"} \cup STRING, missing : BOOLEAN]
      BY <2>1, Zenon
    <2> QED  BY <1>4, <2>2 DEF AnswerType
  <1>5. CASE a \in [kind : {RightKind(Steps, l)}, flaw : Flaws(Steps, l),
                    missing : BOOLEAN]
    <2>1. [kind : {RightKind(Steps, l)}, flaw : Flaws(Steps, l),
           missing : BOOLEAN] \subseteq AnswerType
      BY <1>2, <1>3 DEF AnswerType
    <2> QED  BY <1>5, <2>1
  <1> QED  BY <1>4, <1>5 DEF Answers

\* An assertion has one of the six outcomes.
LEMMA OutcomeIsNamed ==
    ASSUME NEW s \in StepType, s.do \in Asserts,
           NEW f, NEW p, NEW o \in Outcomes(Steps, s, f, p)
    PROVE  o \in OutcomeNames
  <1>1. \A b \in BOOLEAN : HoldsIf(b) \subseteq OutcomeNames
    BY DEF HoldsIf, OutcomeNames
  <1>2. ASSUME NEW a, s.do \notin {"relation", "set relation", "demand", "absence"}
        PROVE  Judged(Steps, s, a, p) \subseteq OutcomeNames
    <2>1. s.do \in {"field", "never", "accept", "error", "truthy", "diagnostic",
                    "reason", "require", "impossible", "mark", "waive"}
      BY <1>2 DEF Asserts
    <2> QED  BY <2>1 DEF Judged, HoldsIf, OutcomeNames
  <1>3. ASSUME NEW a, s.do \notin {"relation", "set relation"}
        PROVE  OutcomesOf(Steps, s, a, p) \subseteq OutcomeNames
    BY <1>1, <1>2, <1>3 DEF OutcomesOf, OutcomeNames, HoldsIf
  <1>4. CASE s.do = "relation"
    BY <1>4 DEF Outcomes, HoldsIf, OutcomeNames
  <1>5. CASE s.do = "set relation"
    BY <1>5 DEF Outcomes, OutcomeNames
  <1>6. CASE s.do \notin {"relation", "set relation"}
    BY <1>3, <1>6 DEF Outcomes
  <1> QED  BY <1>4, <1>5, <1>6

-----------------------------------------------------------------------------
(* Types.                                                                   *)

THEOREM ProbesTypeInit == Init => TypeOK
  <1> SUFFICES ASSUME Init PROVE TypeOK
    OBVIOUS
  <1>1. /\ vector \in Vector /\ protocol \in {1, 2} /\ done \in BOOLEAN
        /\ at = 1 /\ answer = <<>> /\ row = NewRow("pass")
    BY DEF Init
  <1>2. at \in 1 .. (Len(Steps) + 1)  BY <1>1, StepsType
  <1>3. DOMAIN answer \subseteq STRING /\ answer \in [DOMAIN answer -> AnswerType]
    BY <1>1
  <1>4. row \in Row  BY <1>1 DEF NewRow, Row, Statuses
  <1> QED  BY <1>1, <1>2, <1>3, <1>4 DEF TypeOK

\* What an action does to the row: an assertion of one of the outcomes.
Booked(r, o) ==
    CASE o = "holds"       -> AddCheck(r, TRUE)
      [] o = "fails"       -> AddCheck(r, FALSE)
      [] o = "unsupported" -> SetStatus(r, "unsupported")
      [] o = "vacuous"     -> [r EXCEPT !.vacuous = TRUE]
      [] o = "raises"      -> NewRow("harness-error")
      [] o = "nothing"     -> r

LEMMA BookedType ==
    ASSUME NEW r \in Row, NEW o \in OutcomeNames
    PROVE  Booked(r, o) \in Row
  <1>1. "unsupported" \in Statuses /\ "harness-error" \in Statuses
    BY DEF Statuses
  <1>2. /\ AddCheck(r, TRUE) \in Row /\ AddCheck(r, FALSE) \in Row
        /\ SetStatus(r, "unsupported") \in Row /\ NewRow("harness-error") \in Row
        /\ [r EXCEPT !.vacuous = TRUE] \in Row
    BY <1>1, RowOps
  <1> QED  BY <1>2 DEF Booked, OutcomeNames

LEMMA MarkedType ==
    ASSUME NEW r \in Row, NEW d, NEW k
    PROVE  Marked(r, d, k) \in Row
  <1>1. "unsupported" \in Statuses /\ "harness-error" \in Statuses
    BY DEF Statuses
  <1>2. SetStatus(r, "unsupported") \in Row /\ SetStatus(r, "harness-error") \in Row
    BY <1>1, RowOps
  <1> QED  BY <1>2 DEF Marked

\* The step of a binding that is next is one of its steps.
LEMMA CurrentType ==
    ASSUME TypeOK, Running
    PROVE  /\ Current \in StepType /\ at \in DOMAIN Steps
           /\ at \in Nat /\ Len(Steps) \in Nat /\ at <= Len(Steps)
           /\ at + 1 \in 1 .. (Len(Steps) + 1)
           /\ Len(Steps) + 1 \in 1 .. (Len(Steps) + 1)
  <1>1. vector \in Vector  BY DEF TypeOK
  <1>2. at \in DOMAIN Steps  BY DEF Running
  <1>3. at \in 1 .. Len(Steps) /\ Len(Steps) \in Nat
    BY <1>1, <1>2, StepsType
  <1>4. Current \in StepType  BY <1>1, <1>2, StepsType DEF Current
  <1> QED  BY <1>2, <1>3, <1>4

LEMMA SendLegType == ASSUME TypeOK, SendLeg PROVE TypeOK'
  <1>1. /\ Running
        /\ UNCHANGED <<vector, protocol, done>> /\ at' = at + 1
    BY DEF SendLeg
  <1>2. PICK l \in Current.legs : \E a \in Answers(Steps, l) :
            /\ answer' = [k \in DOMAIN answer \cup {l} |->
                             IF k = l THEN a ELSE answer[k]]
            /\ row' = Marked(row, Current.do, a.kind)
    BY DEF SendLeg
  <1>3. PICK a \in Answers(Steps, l) :
            /\ answer' = [k \in DOMAIN answer \cup {l} |->
                             IF k = l THEN a ELSE answer[k]]
            /\ row' = Marked(row, Current.do, a.kind)
    BY <1>2
  <1>4. a \in AnswerType  BY <1>3, AnswersType DEF TypeOK
  <1>5. l \in STRING  BY <1>1, CurrentType DEF StepType
  <1>6. DOMAIN answer' \subseteq STRING /\ answer' \in [DOMAIN answer' -> AnswerType]
    BY <1>3, <1>4, <1>5 DEF TypeOK
  <1>7. row' \in Row  BY <1>3, MarkedType DEF TypeOK
  <1>8. Steps' = Steps  BY <1>1 DEF Steps
  <1>9. at' \in 1 .. (Len(Steps') + 1)  BY <1>1, <1>8, CurrentType
  <1> QED  BY <1>1, <1>6, <1>7, <1>8, <1>9 DEF TypeOK

LEMMA CheckStep ==
    ASSUME TypeOK, Check
    PROVE  \E o \in OutcomeNames :
               /\ o \in Outcomes(Steps, Current, answer, protocol)
               /\ row' = Booked(row, o)
               /\ at' = IF o \in {"vacuous", "raises"} THEN Len(Steps) + 1
                        ELSE at + 1
  <1>1. Running /\ Current.do \in Asserts  BY DEF Check
  <1>2. PICK o \in Outcomes(Steps, Current, answer, protocol) :
            /\ row' = Booked(row, o)
            /\ at' = IF o \in {"vacuous", "raises"} THEN Len(Steps) + 1
                     ELSE at + 1
    BY Zenon DEF Check, Booked
  <1>3. o \in OutcomeNames  BY <1>1, CurrentType, OutcomeIsNamed
  <1> QED  BY <1>2, <1>3

LEMMA CheckType == ASSUME TypeOK, Check PROVE TypeOK'
  <1>1. Running /\ UNCHANGED <<vector, protocol, answer, done>>
    BY DEF Check
  <1>2. PICK o \in OutcomeNames :
            /\ row' = Booked(row, o)
            /\ at' = IF o \in {"vacuous", "raises"} THEN Len(Steps) + 1
                     ELSE at + 1
    BY CheckStep
  <1>3. row' \in Row  BY <1>2, BookedType DEF TypeOK
  <1>4. Steps' = Steps  BY <1>1 DEF Steps
  <1>5. at' \in 1 .. (Len(Steps') + 1)  BY <1>1, <1>2, <1>4, CurrentType
  <1> QED  BY <1>1, <1>3, <1>4, <1>5 DEF TypeOK

\* Every reachable state of a binding's run has the declared types, for every
\* registry of bindings.
THEOREM ProbesTypeCorrect == Spec => []TypeOK
  <1>1. ASSUME TypeOK, [Next]_vars PROVE TypeOK'
    <2>1. CASE SendLeg  BY <1>1, <2>1, SendLegType
    <2>2. CASE Check    BY <1>1, <2>2, CheckType
    <2>3. CASE PassOver
      <3>1. Running /\ at' = at + 1
            /\ UNCHANGED <<vector, protocol, answer, row, done>>
        BY <2>3 DEF PassOver
      <3>2. Steps' = Steps  BY <3>1 DEF Steps
      <3>3. at' \in 1 .. (Len(Steps') + 1)  BY <1>1, <3>1, <3>2, CurrentType
      <3> QED  BY <1>1, <3>1, <3>2, <3>3 DEF TypeOK
    <2>4. CASE Finish
      <3>1. UNCHANGED <<vector, protocol, at, answer>> /\ done' = TRUE
        BY <2>4 DEF Finish
      <3>2. Steps' = Steps  BY <3>1 DEF Steps
      <3>3. "harness-error" \in Statuses  BY DEF Statuses
      <3>4. row' \in Row  BY <1>1, <2>4, <3>3, RowOps DEF Finish, TypeOK
      <3> QED  BY <1>1, <3>1, <3>2, <3>4 DEF TypeOK
    <2>5. CASE UNCHANGED vars
      <3>1. Steps' = Steps  BY <2>5 DEF vars, Steps
      <3> QED  BY <1>1, <2>5, <3>1 DEF vars, TypeOK
    <2> QED  BY <1>1, <2>1, <2>2, <2>3, <2>4, <2>5 DEF Next, Ended
  <1> QED  BY <1>1, ProbesTypeInit, PTL DEF Spec

-----------------------------------------------------------------------------
(* An adapter that broke stays a harness error.                             *)

Faulted(r) == r.status = "harness-error"

\* No action takes a harness error back, and a broken answer makes one.
LEMMA FaultSticks ==
    ASSUME NEW r \in Row
    PROVE  /\ Faulted(r) => \A o \in OutcomeNames : Faulted(Booked(r, o))
           /\ \A d, k : Faulted(r) => Faulted(Marked(r, d, k))
           /\ \A d : Faulted(Marked(r, d, "harness-error"))
  <1>1. "unsupported" \in Statuses /\ "harness-error" \in Statuses
    BY DEF Statuses
  <1>2. /\ SetStatus(r, "harness-error").status = "harness-error"
        /\ Faulted(r) => SetStatus(r, "unsupported").status = "harness-error"
    BY <1>1, SetStatusWorst DEF Faulted
  <1>3. /\ AddCheck(r, TRUE).status = r.status
        /\ Faulted(r) => AddCheck(r, FALSE).status = "harness-error"
    BY AddCheckKeeps DEF Faulted
  <1>4. NewRow("harness-error").status = "harness-error"  BY DEF NewRow
  <1>5. [r EXCEPT !.vacuous = TRUE].status = r.status  BY DEF Row
  <1>6. ASSUME Faulted(r), NEW o \in OutcomeNames PROVE Faulted(Booked(r, o))
    BY <1>2, <1>3, <1>4, <1>5, <1>6 DEF Booked, Faulted, OutcomeNames
  <1>7. \A d, k : Faulted(r) => Faulted(Marked(r, d, k))
    BY <1>2 DEF Marked, Faulted
  <1>8. \A d : Faulted(Marked(r, d, "harness-error"))
    BY <1>2 DEF Marked, Faulted
  <1> QED  BY <1>6, <1>7, <1>8

LEMMA FaultKeptStep == TypeOK /\ FaultKept /\ [Next]_vars => FaultKept'
  <1> SUFFICES ASSUME TypeOK, FaultKept, [Next]_vars,
                      \E l \in DOMAIN answer' : answer'[l].kind = "harness-error"
               PROVE  Faulted(row')
    BY DEF FaultKept, Faulted
  <1>0. row \in Row  BY DEF TypeOK
  <1>1. ASSUME answer' = answer PROVE Faulted(row)
    BY <1>1 DEF FaultKept, Faulted
  <1>2. CASE SendLeg
    <2>1. PICK l \in Current.legs : \E a \in Answers(Steps, l) :
              /\ answer' = [k \in DOMAIN answer \cup {l} |->
                               IF k = l THEN a ELSE answer[k]]
              /\ row' = Marked(row, Current.do, a.kind)
      BY <1>2 DEF SendLeg
    <2>2. PICK a \in Answers(Steps, l) :
              /\ answer' = [k \in DOMAIN answer \cup {l} |->
                               IF k = l THEN a ELSE answer[k]]
              /\ row' = Marked(row, Current.do, a.kind)
      BY <2>1
    <2>3. CASE a.kind = "harness-error"
      BY <1>0, <2>2, <2>3, FaultSticks
    <2>4. CASE a.kind # "harness-error"
      <3>1. \E k \in DOMAIN answer : answer[k].kind = "harness-error"
        BY <2>2, <2>4
      <3>2. Faulted(row)  BY <3>1 DEF FaultKept, Faulted
      <3> QED  BY <1>0, <2>2, <3>2, FaultSticks
    <2> QED  BY <2>3, <2>4
  <1>3. CASE Check
    <2>1. Faulted(row)  BY <1>1, <1>3 DEF Check
    <2>2. \E o \in OutcomeNames : row' = Booked(row, o)
      BY <1>3, CheckStep
    <2> QED  BY <1>0, <2>1, <2>2, FaultSticks
  <1>4. CASE PassOver
    BY <1>1, <1>4 DEF PassOver
  <1>5. CASE Finish
    <2>1. Faulted(row)  BY <1>1, <1>5 DEF Finish
    <2>2. row' = row  BY <1>5, <2>1 DEF Finish, Faulted
    <2> QED  BY <2>1, <2>2
  <1>6. CASE UNCHANGED vars
    BY <1>1, <1>6 DEF vars
  <1> QED  BY <1>2, <1>3, <1>4, <1>5, <1>6 DEF Next, Ended

\* A row under an adapter that broke says harness-error to the end, for every
\* registry of bindings: no later answer or assertion grades it.
THEOREM FaultIsKept == Spec => []FaultKept
  <1>1. Init => FaultKept  BY DEF Init, FaultKept
  <1> QED  BY <1>1, FaultKeptStep, ProbesTypeCorrect, PTL DEF Spec

-----------------------------------------------------------------------------
(* A pass means that every assertion run held.                              *)

\* An assertion that neither fails nor finds a request declined was true of
\* the answers it looks at.
LEMMA HeldIsSatisfied ==
    ASSUME TypeOK, FaultKept, NEW i \in DOMAIN Steps,
           Steps[i].do \in Asserts,
           row.status = "pass",
           Steps[i].legs \subseteq DOMAIN answer,
           NEW o \in Outcomes(Steps, Steps[i], answer, protocol),
           o \in {"holds", "nothing"}
    PROVE  Satisfied(Steps[i])
  <1> DEFINE s == Steps[i]
  <1>1. CASE s.do \in {"relation", "set relation"}
    <2>1. \A l \in s.legs : ~Flawed(s, answer[l])
      BY <1>1 DEF Outcomes, HoldsIf
    <2> QED  BY <1>1, <2>1 DEF Satisfied
  <1>2. CASE s.do \in {"field", "never", "accept", "error", "demand"}
    <2>1. vector \in Vector  BY DEF TypeOK
    <2>2. s.do \notin {"relation", "set relation"}  BY <1>2
    <2>3. PICK l \in s.legs : s.legs = {l}  BY <2>1, <2>2, SingleLeg
    <2>4. (CHOOSE k \in s.legs : TRUE) = l  BY <2>3
    <2>5. o \in OutcomesOf(Steps, s, answer[l], protocol)
      BY <2>2, <2>4 DEF Outcomes
    <2>6. answer[l].kind # "harness-error"  BY <2>3 DEF FaultKept
    <2>7. CASE s.do = "demand"
      <3>1. answer[l].kind = "ok" /\ ~Flawed(s, answer[l])
        BY <2>5, <2>7 DEF OutcomesOf, HoldsIf
      <3> QED  BY <2>3, <2>7, <3>1 DEF Satisfied
    <2>8. CASE s.do \in {"field", "never", "accept", "error"}
      <3>1. answer[l].kind # "unsupported"
        BY <2>5, <2>8 DEF OutcomesOf
      <3>2. o \in Judged(Steps, s, answer[l], protocol)
        BY <2>5, <2>6, <2>8, <3>1 DEF OutcomesOf
      <3>3. o \in HoldsIf(/\ answer[l].kind = RightKind(Steps, l)
                          /\ ~Flawed(s, answer[l]))
        BY <2>4, <2>8, <3>2 DEF Judged
      <3>4. answer[l].kind = RightKind(Steps, l) /\ ~Flawed(s, answer[l])
        BY <3>3 DEF HoldsIf
      <3> QED  BY <2>3, <2>8, <3>4 DEF Satisfied
    <2> QED  BY <1>2, <2>7, <2>8
  <1>3. CASE s.do \notin {"relation", "set relation", "field", "never",
                          "accept", "error", "demand"}
    BY <1>3 DEF Satisfied
  <1> QED  BY <1>1, <1>2, <1>3

\* A row that says pass, not vacuously, said so before the assertion, and the
\* assertion was not a failed one.
LEMMA BookedPass ==
    ASSUME NEW r \in Row, NEW o \in OutcomeNames,
           Booked(r, o).status = "pass", ~Booked(r, o).vacuous
    PROVE  o \in {"holds", "nothing"} /\ r.status = "pass" /\ ~r.vacuous
  <1>1. "unsupported" \in Statuses  BY DEF Statuses
  <1>2. SetStatus(r, "unsupported").status # "pass"
    BY <1>1, SetStatusWorst
  <1>3. /\ AddCheck(r, TRUE).status = r.status
        /\ AddCheck(r, TRUE).vacuous = r.vacuous
        /\ AddCheck(r, FALSE).status # "pass"
    BY AddCheckKeeps
  <1>4. NewRow("harness-error").status # "pass"  BY DEF NewRow
  <1>5. [r EXCEPT !.vacuous = TRUE].vacuous = TRUE  BY DEF Row
  <1>6. o \notin {"fails", "unsupported", "raises", "vacuous"}
    BY <1>2, <1>3, <1>4, <1>5 DEF Booked
  <1>7. o \in {"holds", "nothing"}  BY <1>6 DEF OutcomeNames
  <1> QED  BY <1>3, <1>7 DEF Booked

LEMMA MarkedPass ==
    ASSUME NEW r \in Row, NEW d, NEW k, Marked(r, d, k).status = "pass"
    PROVE  Marked(r, d, k) = r
  <1>1. "unsupported" \in Statuses /\ "harness-error" \in Statuses
    BY DEF Statuses
  <1>2. /\ SetStatus(r, "unsupported").status # "pass"
        /\ SetStatus(r, "harness-error").status # "pass"
    BY <1>1, SetStatusWorst
  <1> QED  BY <1>2 DEF Marked

\* The assertions PassMeansHeld is about.
Ran(i) ==
    /\ i < at /\ Steps[i].do \in Asserts /\ Enabled(Steps[i])
    /\ Steps[i].legs \subseteq DOMAIN answer

\* A leg is sent before all that looks at it, so that the answer to a request
\* sent now changes nothing of what an earlier step saw.
LEMMA SendLegPasses ==
    ASSUME TypeOK, PassMeansHeld, SendLeg, row'.status = "pass",
           ~row'.vacuous, NEW i \in DOMAIN Steps', Ran(i)'
    PROVE  Satisfied(Steps[i])'
  <1>1. /\ Running /\ Current.do \in Sends /\ at' = at + 1
        /\ vector' = vector
    BY DEF SendLeg
  <1>2. PICK l \in Current.legs : \E a \in Answers(Steps, l) :
            /\ answer' = [k \in DOMAIN answer \cup {l} |->
                             IF k = l THEN a ELSE answer[k]]
            /\ row' = Marked(row, Current.do, a.kind)
    BY DEF SendLeg
  <1>3. Steps' = Steps  BY <1>1 DEF Steps
  <1>4. i \in Nat /\ at \in Nat /\ at \in DOMAIN Steps
    BY <1>1, <1>3, CurrentType, StepsType DEF TypeOK
  <1>5. i < at
    <2>1. i < at + 1 /\ Steps[i].do \in Asserts  BY <1>1, <1>3 DEF Ran
    <2>2. i # at  BY <1>1, <2>1 DEF Current, Sends, Asserts
    <2> QED  BY <1>4, <2>1, <2>2
  <1>6. Current.legs \cap (Steps[i].legs \cup Steps[i].when \cup Steps[i].unless)
            = {}
    <2>1. vector \in Vector  BY DEF TypeOK
    <2>2. Current.legs \cap (Steps[i].legs \cup Steps[i].when
                                \cup Steps[i].unless) # {}
              => at <= i
      BY <1>1, <1>3, <1>4, <2>1, SendsFirst DEF Steps, Current
    <2> QED  BY <1>4, <1>5, <2>2
  <1>7. \A k \in Steps[i].legs \cup Steps[i].when \cup Steps[i].unless :
            /\ k # l
            /\ k \in DOMAIN answer' <=> k \in DOMAIN answer
            /\ k \in DOMAIN answer => answer'[k] = answer[k]
    BY <1>2, <1>6
  <1>8. Ran(i)
    <2>1. \A k \in Steps[i].when \cup Steps[i].unless : IsOk(k)' <=> IsOk(k)
      BY <1>7 DEF IsOk
    <2>2. Enabled(Steps[i])
      BY <1>3, <2>1 DEF Ran, Enabled
    <2>3. Steps[i].do \in Asserts /\ Steps[i].legs \subseteq DOMAIN answer
      BY <1>3, <1>7 DEF Ran
    <2> QED  BY <1>5, <2>2, <2>3 DEF Ran
  <1>9. row.status = "pass" /\ ~row.vacuous
    BY <1>2, MarkedPass DEF TypeOK
  <1>10. Satisfied(Steps[i])
    BY <1>3, <1>8, <1>9 DEF PassMeansHeld, Ran
  <1>11. \A k \in Steps[i].legs : answer'[k] = answer[k]
    BY <1>7, <1>8 DEF Ran
  <1> QED  BY <1>3, <1>10, <1>11 DEF Satisfied, Flawed

LEMMA PassMeansHeldStep ==
    TypeOK /\ FaultKept /\ PassMeansHeld /\ [Next]_vars => PassMeansHeld'
  <1> SUFFICES ASSUME TypeOK, FaultKept, PassMeansHeld, [Next]_vars,
                      row'.status = "pass", ~row'.vacuous,
                      NEW i \in DOMAIN Steps', Ran(i)'
               PROVE  Satisfied(Steps[i])'
    BY DEF PassMeansHeld, Ran
  <1>0. row \in Row /\ vector \in Vector  BY DEF TypeOK
  <1>1. ASSUME vector' = vector, answer' = answer, row.status = "pass",
               ~row.vacuous, i < at
        PROVE  Satisfied(Steps[i])'
    <2>1. Steps' = Steps  BY <1>1 DEF Steps
    <2>2. Ran(i)  BY <1>1, <2>1 DEF Ran, Enabled, IsOk
    <2>3. Satisfied(Steps[i])  BY <1>1, <2>1, <2>2 DEF PassMeansHeld, Ran
    <2> QED  BY <1>1, <2>1, <2>3 DEF Satisfied
  <1>2. CASE SendLeg
    BY <1>2, SendLegPasses
  <1>3. CASE Check
    <2>1. /\ Running /\ Current.do \in Asserts
          /\ vector' = vector /\ answer' = answer
      BY <1>3 DEF Check
    <2>2. PICK o \in OutcomeNames :
              /\ o \in Outcomes(Steps, Current, answer, protocol)
              /\ row' = Booked(row, o)
              /\ at' = IF o \in {"vacuous", "raises"} THEN Len(Steps) + 1
                       ELSE at + 1
      BY <1>3, CheckStep
    <2>3. /\ o \in {"holds", "nothing"}
          /\ row.status = "pass" /\ ~row.vacuous
      BY <1>0, <2>2, BookedPass
    <2>4. Steps' = Steps  BY <2>1 DEF Steps
    <2>5. i \in Nat /\ at \in Nat /\ i < at + 1
      BY <1>0, <2>1, <2>2, <2>3, <2>4, CurrentType, StepsType DEF Ran
    <2>6. CASE i < at  BY <1>1, <2>1, <2>3, <2>6
    <2>7. CASE i = at
      <3>1. /\ Steps[i] = Current /\ i \in DOMAIN Steps
            /\ Steps[i].legs \subseteq DOMAIN answer
        BY <2>1, <2>4, <2>7 DEF Current, Ran
      <3>2. Satisfied(Steps[i])
        BY <2>1, <2>2, <2>3, <3>1, HeldIsSatisfied
      <3> QED  BY <2>1, <2>4, <3>2 DEF Satisfied
    <2> QED  BY <2>5, <2>6, <2>7
  <1>4. CASE PassOver
    <2>1. /\ Running /\ ~Enabled(Current) /\ at' = at + 1
          /\ vector' = vector /\ answer' = answer /\ row' = row
      BY <1>4 DEF PassOver
    <2>2. Steps' = Steps  BY <2>1 DEF Steps
    <2>3. i \in Nat /\ at \in Nat /\ i < at + 1
      BY <1>0, <2>1, <2>2, CurrentType, StepsType DEF Ran
    <2>4. i # at  BY <2>1, <2>2 DEF Ran, Enabled, IsOk, Current
    <2> QED  BY <1>1, <2>1, <2>3, <2>4
  <1>5. CASE Finish
    <2>1. vector' = vector /\ answer' = answer /\ at' = at
      BY <1>5 DEF Finish
    <2>2. row' = row
      <3>1. "harness-error" \in Statuses  BY DEF Statuses
      <3>2. SetStatus(row, "harness-error").status # "pass"
        BY <1>0, <3>1, SetStatusWorst
      <3> QED  BY <1>5, <3>2 DEF Finish
    <2> QED  BY <1>1, <2>1, <2>2 DEF Ran
  <1>6. CASE UNCHANGED vars
    BY <1>1, <1>6 DEF vars, Ran
  <1> QED  BY <1>2, <1>3, <1>4, <1>5, <1>6 DEF Next, Ended

\* For every registry of bindings: while the row of a vector says pass, every
\* assertion that was run found its field right, whatever came later.
THEOREM PassIsHeld == Spec => []PassMeansHeld
  <1>1. Init => PassMeansHeld
    <2> SUFFICES ASSUME Init PROVE \A i \in DOMAIN Steps : ~(i < at)
      BY DEF PassMeansHeld
    <2>1. vector \in Vector /\ at = 1  BY DEF Init
    <2> QED  BY <2>1, StepsType
  <1> QED  BY <1>1, PassMeansHeldStep, FaultIsKept, ProbesTypeCorrect, PTL
           DEF Spec
-----------------------------------------------------------------------------
(* What a row remembers.                                                    *)

\* Only a failed check, a declined request or an error ends a pass, and what
\* was noted in a row stays noted, unless the binding raised.
LEMMA RowKeeps ==
    ASSUME NEW r \in Row, NEW s \in Statuses
    PROVE  /\ SetStatus(r, s).checked = r.checked
           /\ SetStatus(r, s).vacuous = r.vacuous
           /\ SetStatus(r, s).status \in {r.status, s}
           /\ AddCheck(r, TRUE).checked = TRUE /\ AddCheck(r, FALSE).checked = TRUE
           /\ AddCheck(r, TRUE).vacuous = r.vacuous
           /\ AddCheck(r, FALSE).vacuous = r.vacuous
           /\ AddCheck(r, FALSE).status \in {r.status, "fail"}
  <1>1. /\ SetStatus(r, s).checked = r.checked /\ SetStatus(r, s).vacuous = r.vacuous
        /\ SetStatus(r, s).status \in {r.status, s}
    BY DEF SetStatus, Row
  <1> DEFINE c == [r EXCEPT !.checked = TRUE]
  <1>2. /\ c \in Row /\ c.checked = TRUE /\ c.vacuous = r.vacuous /\ c.status = r.status
        /\ AddCheck(r, TRUE) = c /\ AddCheck(r, FALSE) = SetStatus(c, "fail")
    BY DEF Row, AddCheck
  <1> HIDE DEF c
  <1>3. /\ SetStatus(c, "fail").checked = c.checked
        /\ SetStatus(c, "fail").vacuous = c.vacuous
        /\ SetStatus(c, "fail").status \in {c.status, "fail"}
    BY <1>2 DEF SetStatus, Row
  <1> QED  BY <1>1, <1>2, <1>3

LEMMA BookedKeeps ==
    ASSUME NEW r \in Row, NEW o \in OutcomeNames
    PROVE  /\ Booked(r, o).status = "pass" =>
                r.status = "pass" /\ o \in {"holds", "nothing", "vacuous"}
           /\ o # "raises" => /\ r.checked => Booked(r, o).checked
                              /\ r.vacuous => Booked(r, o).vacuous
           /\ o \in {"holds", "fails"} => Booked(r, o).checked
           /\ Booked(r, o).checked => r.checked \/ o \in {"holds", "fails"}
           /\ Booked(r, o).vacuous => r.vacuous \/ o = "vacuous"
           /\ o = "vacuous" => Booked(r, o).vacuous
           /\ o = "raises" => Booked(r, o).status = "harness-error"
           /\ Booked(r, o).status = "harness-error" =>
                r.status = "harness-error" \/ o = "raises"
           /\ o \in {"holds", "nothing", "unsupported", "vacuous"} =>
                Booked(r, o).status \in {r.status, "unsupported"}
  <1>1. "unsupported" \in Statuses  BY DEF Statuses
  <1>2. /\ SetStatus(r, "unsupported").checked = r.checked
        /\ SetStatus(r, "unsupported").vacuous = r.vacuous
        /\ SetStatus(r, "unsupported").status \in {r.status, "unsupported"}
        /\ SetStatus(r, "unsupported").status # "pass"
    BY <1>1, RowKeeps, SetStatusWorst
  <1>3. /\ AddCheck(r, TRUE).checked = TRUE /\ AddCheck(r, FALSE).checked = TRUE
        /\ AddCheck(r, TRUE).vacuous = r.vacuous /\ AddCheck(r, FALSE).vacuous = r.vacuous
        /\ AddCheck(r, TRUE).status = r.status
        /\ AddCheck(r, FALSE).status \in {r.status, "fail"} \ {"pass"}
    BY <1>1, RowKeeps, AddCheckKeeps
  <1>4. /\ NewRow("harness-error").status = "harness-error"
        /\ NewRow("harness-error").checked = FALSE /\ NewRow("harness-error").vacuous = FALSE
    BY DEF NewRow
  <1>5. /\ [r EXCEPT !.vacuous = TRUE].status = r.status
        /\ [r EXCEPT !.vacuous = TRUE].checked = r.checked
        /\ [r EXCEPT !.vacuous = TRUE].vacuous = TRUE
    BY DEF Row
  <1>6. CASE o = "holds"
    <2>1. Booked(r, o) = AddCheck(r, TRUE)  BY <1>6 DEF Booked
    <2> QED  BY <1>3, <1>6, <2>1
  <1>7. CASE o = "fails"
    <2>1. Booked(r, o) = AddCheck(r, FALSE)  BY <1>7 DEF Booked
    <2> QED  BY <1>3, <1>7, <2>1
  <1>8. CASE o = "unsupported"
    <2>1. Booked(r, o) = SetStatus(r, "unsupported")  BY <1>8 DEF Booked
    <2> QED  BY <1>2, <1>8, <2>1
  <1>9. CASE o = "vacuous"
    <2>1. Booked(r, o) = [r EXCEPT !.vacuous = TRUE]  BY <1>9 DEF Booked
    <2> QED  BY <1>5, <1>9, <2>1
  <1>10. CASE o = "raises"
    <2>1. Booked(r, o) = NewRow("harness-error")  BY <1>10 DEF Booked
    <2> QED  BY <1>4, <1>10, <2>1
  <1>11. CASE o = "nothing"
    <2>1. Booked(r, o) = r  BY <1>11 DEF Booked
    <2> QED  BY <1>11, <2>1
  <1> QED  BY <1>6, <1>7, <1>8, <1>9, <1>10, <1>11 DEF OutcomeNames

LEMMA MarkedKeeps ==
    ASSUME NEW r \in Row, NEW d, NEW k
    PROVE  /\ Marked(r, d, k).checked = r.checked /\ Marked(r, d, k).vacuous = r.vacuous
           /\ Marked(r, d, k).status = "pass" =>
                /\ r.status = "pass" /\ k # "harness-error"
                /\ ~(d = "send" /\ k = "unsupported")
           /\ Marked(r, d, k).status = "harness-error" =>
                r.status = "harness-error" \/ k = "harness-error"
           /\ k # "harness-error" =>
                Marked(r, d, k).status \in {r.status, "unsupported"}
           /\ k \notin {"harness-error", "unsupported"} => Marked(r, d, k) = r
  <1>1. "unsupported" \in Statuses /\ "harness-error" \in Statuses
    BY DEF Statuses
  <1>2. /\ SetStatus(r, "unsupported").checked = r.checked
        /\ SetStatus(r, "unsupported").vacuous = r.vacuous
        /\ SetStatus(r, "unsupported").status \in {r.status, "unsupported"} \ {"pass"}
        /\ SetStatus(r, "harness-error").checked = r.checked
        /\ SetStatus(r, "harness-error").vacuous = r.vacuous
        /\ SetStatus(r, "harness-error").status = "harness-error"
    BY <1>1, RowKeeps, SetStatusWorst, ZenonT(60)
  <1> QED  BY <1>2 DEF Marked

-----------------------------------------------------------------------------
(* The answers a vector has had.  A leg is sent once, and before anything   *)
(* looks at it: what a step saw of the answers is what is there at the end. *)

OkLegs == {l \in DOMAIN answer : answer[l].kind = "ok"}

\* An answer is one to a request that was sent.
Sent ==
    \A l \in DOMAIN answer :
        /\ answer[l] \in Answers(Steps, l)
        /\ \E j \in DOMAIN Steps :
            /\ j < at /\ Steps[j].do \in Sends /\ l \in Steps[j].legs
            /\ Enabled(Steps[j])

LEMMA OpensIsEnabled ==
    ASSUME NEW s PROVE Opens(s, OkLegs) <=> Enabled(s)
  BY DEF Opens, Enabled, IsOk, OkLegs

\* SendLeg, with the leg and its answer named.
Reply(l, a) ==
    /\ l \in Current.legs /\ a \in Answers(Steps, l)
    /\ answer' = [k \in DOMAIN answer \cup {l} |-> IF k = l THEN a ELSE answer[k]]
    /\ row' = Marked(row, Current.do, a.kind)

LEMMA SendReplies ==
    ASSUME SendLeg
    PROVE  /\ Running /\ Enabled(Current) /\ Current.do \in Sends
           /\ at' = at + 1 /\ UNCHANGED <<vector, protocol, done>>
           /\ \E l, a : Reply(l, a)
  BY DEF SendLeg, Reply

\* Two steps that send a leg are one step.
LEMMA SentOnce ==
    ASSUME vector \in Vector, NEW i \in DOMAIN Steps, NEW j \in DOMAIN Steps,
           NEW l, l \in Steps[i].legs, l \in Steps[j].legs,
           Steps[i].do \in Sends, Steps[j].do \in Sends
    PROVE  i = j
  <1>1. i \in Nat /\ j \in Nat  BY StepsType
  <1>2. j <= i /\ i <= j  BY SendsFirst DEF Steps
  <1> QED  BY <1>1, <1>2

(* A request leaves all answers there are as they are, and no step before it *)
(* looks at its own.                                                         *)
LEMMA ReplyKeeps ==
    ASSUME TypeOK, Sent, SendLeg, NEW l, NEW a, Reply(l, a)
    PROVE  /\ l \notin DOMAIN answer /\ DOMAIN answer' = DOMAIN answer \cup {l}
           /\ answer'[l] = a /\ \A k \in DOMAIN answer : answer'[k] = answer[k]
           /\ \A k : IsOk(k) => IsOk(k)'
           /\ Steps' = Steps
           /\ \A i \in DOMAIN Steps : i = at => Enabled(Steps[i])'
           /\ \A i \in DOMAIN Steps : i < at =>
                /\ l \notin Steps[i].legs
                /\ Enabled(Steps[i])' <=> Enabled(Steps[i])
  <1>1. /\ Running /\ Enabled(Current) /\ Current.do \in Sends
        /\ vector' = vector /\ vector \in Vector
    BY SendReplies DEF TypeOK
  <1>2. at \in DOMAIN Steps /\ at \in Nat /\ Current = Steps[at] /\ Steps' = Steps
    BY <1>1, CurrentType DEF Current, Steps
  <1>3. l \in Steps[at].legs
    BY <1>2 DEF Reply
  <1>4. l \notin DOMAIN answer
    <2> SUFFICES ASSUME l \in DOMAIN answer PROVE FALSE
      OBVIOUS
    <2>1. PICK j \in DOMAIN Steps :
              j < at /\ Steps[j].do \in Sends /\ l \in Steps[j].legs
      BY DEF Sent
    <2>2. j = at  BY <1>1, <1>2, <1>3, <2>1, SentOnce
    <2> QED  BY <1>2, <2>1, <2>2
  <1>5. /\ DOMAIN answer' = DOMAIN answer \cup {l} /\ answer'[l] = a
        /\ \A k \in DOMAIN answer : answer'[k] = answer[k]
    BY <1>4 DEF Reply
  <1>6. \A k : k # l => (IsOk(k)' <=> IsOk(k))
    BY <1>5 DEF IsOk
  <1>7. ~IsOk(l)
    BY <1>4 DEF IsOk
  <1>8. \A i \in DOMAIN Steps : i < at =>
            l \notin Steps[i].legs \cup Steps[i].when \cup Steps[i].unless
    <2> SUFFICES ASSUME NEW i \in DOMAIN Steps, i < at,
                        l \in Steps[i].legs \cup Steps[i].when \cup Steps[i].unless
                 PROVE  FALSE
      OBVIOUS
    <2>1. at <= i  BY <1>1, <1>2, <1>3, SendsFirst DEF Steps
    <2>2. i \in Nat  BY <1>1, StepsType
    <2> QED  BY <1>2, <2>1, <2>2
  <1>9. \A i \in DOMAIN Steps : i < at => (Enabled(Steps[i])' <=> Enabled(Steps[i]))
    BY <1>2, <1>6, <1>8 DEF Enabled
  <1>10. \A i \in DOMAIN Steps : i = at => Enabled(Steps[i])'
    <2> SUFFICES ASSUME NEW i \in DOMAIN Steps, i = at PROVE Enabled(Steps[i])'
      OBVIOUS
    <2>1. Steps[i].unless = {} /\ Enabled(Steps[i]) /\ Steps[i]' = Steps[i]
      BY <1>1, <1>2, AskedAssumption DEF WellAsked, Steps
    <2> QED  BY <1>6, <1>7, <2>1 DEF Enabled
  <1> QED  BY <1>2, <1>4, <1>5, <1>6, <1>7, <1>8, <1>9, <1>10

\* Any other step leaves the answers, and what they enable, as they are.
LEMMA OtherStep ==
    ASSUME TypeOK, [Next]_vars, ~SendLeg
    PROVE  /\ UNCHANGED <<vector, protocol, answer>> /\ Steps' = Steps
           /\ at \in Nat /\ at' \in Nat /\ at <= at'
           /\ \A i \in DOMAIN Steps : Enabled(Steps[i])' <=> Enabled(Steps[i])
  <1>1. vector' = vector /\ answer' = answer /\ protocol' = protocol
    BY DEF Next, Check, PassOver, Finish, Ended, vars
  <1>2. Steps' = Steps  BY <1>1 DEF Steps
  <1>3. at \in Nat /\ Len(Steps) \in Nat /\ at <= Len(Steps) + 1
    BY StepsType DEF TypeOK
  <1>4. at' \in {at, at + 1, Len(Steps) + 1}
    BY DEF Next, Check, PassOver, Finish, Ended, vars
  <1>5. \A i \in DOMAIN Steps : Enabled(Steps[i])' <=> Enabled(Steps[i])
    BY <1>1, <1>2 DEF Enabled, IsOk
  <1> QED  BY <1>1, <1>2, <1>3, <1>4, <1>5

LEMMA SentStep == TypeOK /\ Sent /\ [Next]_vars => Sent'
  <1> SUFFICES ASSUME TypeOK, Sent, [Next]_vars PROVE Sent'
    OBVIOUS
  <1>1. CASE SendLeg
    <2>1. PICK l, a : Reply(l, a)  BY <1>1, SendReplies
    <2>2. /\ Running /\ Enabled(Current) /\ Current.do \in Sends /\ at' = at + 1
      BY <1>1, SendReplies
    <2>3. at \in DOMAIN Steps /\ at \in Nat /\ Current = Steps[at]
      BY <2>2, CurrentType DEF Current
    <2>4. a \in Answers(Steps, l) /\ l \in Steps[at].legs
      BY <2>1, <2>3 DEF Reply
    <2>5. /\ DOMAIN answer' = DOMAIN answer \cup {l} /\ Steps' = Steps
          /\ answer'[l] = a /\ \A k \in DOMAIN answer : answer'[k] = answer[k]
          /\ \A i \in DOMAIN Steps : i = at => Enabled(Steps[i])'
          /\ \A i \in DOMAIN Steps : i < at => (Enabled(Steps[i])' <=> Enabled(Steps[i]))
      BY <1>1, <2>1, ReplyKeeps
    <2> SUFFICES ASSUME NEW k \in DOMAIN answer'
                 PROVE  /\ answer'[k] \in Answers(Steps', k)
                        /\ \E j \in DOMAIN Steps' :
                              /\ j < at' /\ Steps'[j].do \in Sends /\ k \in Steps'[j].legs
                              /\ Enabled(Steps[j])'
      BY DEF Sent
    <2>6. CASE k = l
      <3>1. at < at' /\ Enabled(Steps[at]) /\ Steps[at].do \in Sends
        BY <2>2, <2>3
      <3>2. \E j \in DOMAIN Steps : j = at
        BY <2>3
      <3> QED  BY <2>4, <2>5, <2>6, <3>1, <3>2
    <2>7. CASE k \in DOMAIN answer
      <3>1. PICK j \in DOMAIN Steps :
               /\ j < at /\ Steps[j].do \in Sends /\ k \in Steps[j].legs
               /\ Enabled(Steps[j])
        BY <2>7 DEF Sent
      <3>2. j < at' /\ Enabled(Steps[j])'
        <4>1. j \in Nat  BY StepsType DEF TypeOK
        <4> QED  BY <2>2, <2>3, <2>5, <3>1, <4>1
      <3> QED  BY <2>5, <2>7, <3>1, <3>2 DEF Sent
    <2> QED  BY <2>5, <2>6, <2>7
  <1>2. CASE ~SendLeg
    <2>1. /\ answer' = answer /\ Steps' = Steps /\ at \in Nat /\ at' \in Nat /\ at <= at'
          /\ \A i \in DOMAIN Steps : Enabled(Steps[i])' <=> Enabled(Steps[i])
      BY <1>2, OtherStep
    <2>2. \A j \in DOMAIN Steps : j \in Nat  BY StepsType DEF TypeOK
    <2>3. \A j \in DOMAIN Steps : j < at => j < at'  BY <2>1, <2>2
    <2> QED  BY <2>1, <2>3 DEF Sent
  <1> QED  BY <1>1, <1>2

-----------------------------------------------------------------------------
(* What the row owes to the steps that ran: while the binding has neither   *)
(* raised nor given up its vector, each enabled request has been sent and   *)
(* each enabled assertion booked.                                           *)

SendTrail(i) ==
    \A l \in Steps[i].legs :
        /\ l \in DOMAIN answer
        /\ Steps[i].do = "send" /\ answer[l].kind = "unsupported"
             => row.status # "pass"
CheckTrail(i) ==
    \E o \in Outcomes(Steps, Steps[i], answer, protocol) :
        /\ o \in {"holds", "fails"} => row.checked
        /\ row.status = "pass" => o \in {"holds", "nothing"}
Trail ==
    row.status # "harness-error" /\ ~row.vacuous =>
        \A i \in DOMAIN Steps :
            i < at /\ Enabled(Steps[i]) =>
                /\ Steps[i].do \in Sends => SendTrail(i)
                /\ Steps[i].do \in Asserts /\ Steps[i].legs \subseteq DOMAIN answer
                     => CheckTrail(i)

\* A check that left a pass was an assertion that can hold; and a vector is
\* given up only on a right answer, as the last thing its binding does.
Earned ==
    row.checked /\ row.status = "pass" /\ ~row.vacuous =>
        \E i \in DOMAIN Steps :
            i < at /\ Enabled(Steps[i]) /\ Steps[i].do \in Scoring
Waived ==
    row.vacuous =>
        at = Len(Steps) + 1 /\ \A l \in DOMAIN answer : IsRight(l, answer[l])
Closed ==
    done => /\ at = Len(Steps) + 1
            /\ row.status = "pass" => row.checked \/ row.vacuous \/ vector \in Invariant

\* An assertion looks at nothing but the answers to its legs.
LEMMA OutcomesSame ==
    ASSUME vector \in Vector, NEW i \in DOMAIN Steps, NEW f, NEW g, NEW p,
           \A l \in Steps[i].legs : f[l] = g[l]
    PROVE  Outcomes(Steps, Steps[i], f, p) = Outcomes(Steps, Steps[i], g, p)
  <1> DEFINE s == Steps[i]
  <1>1. CASE s.do \in {"relation", "set relation"}
    <2>1. (\E l \in s.legs : Flawed(s, f[l])) <=> (\E l \in s.legs : Flawed(s, g[l]))
      OBVIOUS
    <2> QED  BY <1>1, <2>1 DEF Outcomes
  <1>2. CASE s.do \notin {"relation", "set relation"}
    <2>1. PICK l \in s.legs : s.legs = {l}  BY <1>2, SingleLeg
    <2>2. f[CHOOSE k \in s.legs : TRUE] = g[CHOOSE k \in s.legs : TRUE]
      BY <2>1
    <2> QED  BY <1>2, <2>2 DEF Outcomes
  <1> QED  BY <1>1, <1>2

\* A send is no assertion.
LEMMA SendsAssertNothing == \A d \in Sends : d \notin Asserts /\ d \notin Scoring
  BY DEF Sends, Asserts, Scoring, Grading

LEMMA TrailSend ==
    ASSUME TypeOK, Sent, Trail, SendLeg
    PROVE  Trail'
  <1>1. PICK l, a : Reply(l, a)  BY SendReplies
  <1>2. /\ Running /\ Current.do \in Sends /\ at' = at + 1 /\ protocol' = protocol
    BY SendReplies
  <1>3. /\ at \in DOMAIN Steps /\ at \in Nat /\ Current = Steps[at] /\ vector \in Vector
        /\ row \in Row
    BY <1>2, CurrentType DEF Current, TypeOK
  <1>4. /\ l \notin DOMAIN answer /\ DOMAIN answer' = DOMAIN answer \cup {l}
        /\ answer'[l] = a /\ \A k \in DOMAIN answer : answer'[k] = answer[k]
        /\ Steps' = Steps
        /\ \A i \in DOMAIN Steps : i < at =>
                /\ l \notin Steps[i].legs
                /\ Enabled(Steps[i])' <=> Enabled(Steps[i])
    BY <1>1, ReplyKeeps
  <1>5. Steps[at].legs = {l}
    <2>1. Steps[at].do \notin {"relation", "set relation"}
      BY <1>2, <1>3 DEF Sends
    <2> QED  BY <1>1, <1>3, <2>1, SingleLeg DEF Reply
  <1>6. row' = Marked(row, Steps[at].do, a.kind)
    BY <1>1, <1>3 DEF Reply
  <1>7. /\ row'.checked = row.checked /\ row'.vacuous = row.vacuous
        /\ row'.status = "pass" =>
              row.status = "pass" /\ ~(Steps[at].do = "send" /\ a.kind = "unsupported")
        /\ row'.status # "harness-error" => row.status # "harness-error"
    BY <1>3, <1>6, MarkedKeeps, FaultSticks DEF Faulted
  <1> SUFFICES ASSUME row'.status # "harness-error", ~row'.vacuous,
                      NEW i \in DOMAIN Steps, i < at', Enabled(Steps[i])'
               PROVE  /\ Steps[i].do \in Sends => SendTrail(i)'
                      /\ Steps[i].do \in Asserts /\ Steps[i].legs \subseteq DOMAIN answer'
                           => CheckTrail(i)'
    BY <1>4 DEF Trail
  <1>8. row.status # "harness-error" /\ ~row.vacuous
    BY <1>7
  <1>9. i \in Nat
    BY <1>3, StepsType
  <1>10. CASE i < at
    <2>1. Enabled(Steps[i]) /\ l \notin Steps[i].legs
      BY <1>4, <1>10
    <2>2. ASSUME Steps[i].do \in Sends PROVE SendTrail(i)'
      <3>1. SendTrail(i)  BY <1>8, <1>10, <2>1, <2>2 DEF Trail
      <3> QED  BY <1>4, <1>7, <2>1, <3>1 DEF SendTrail
    <2>3. ASSUME Steps[i].do \in Asserts, Steps[i].legs \subseteq DOMAIN answer'
          PROVE  CheckTrail(i)'
      <3>1. Steps[i].legs \subseteq DOMAIN answer
        BY <1>4, <2>1, <2>3
      <3>2. CheckTrail(i)
        BY <1>8, <1>10, <2>1, <2>3, <3>1 DEF Trail
      <3>3. Outcomes(Steps, Steps[i], answer', protocol)
              = Outcomes(Steps, Steps[i], answer, protocol)
        BY <1>3, <1>4, <3>1, OutcomesSame
      <3> QED  BY <1>2, <1>4, <1>7, <3>2, <3>3 DEF CheckTrail
    <2> QED  BY <2>2, <2>3
  <1>11. CASE i = at
    <2>1. Steps[i].do \in Sends /\ Steps[i].do \notin Asserts
      BY <1>2, <1>3, <1>11, SendsAssertNothing
    <2>2. SendTrail(i)'
      BY <1>4, <1>5, <1>7, <1>11 DEF SendTrail
    <2> QED  BY <2>1, <2>2
  <1> QED  BY <1>2, <1>3, <1>9, <1>10, <1>11

\* Check, with the outcome named.
LEMMA CheckBooks ==
    ASSUME TypeOK, Check
    PROVE  /\ Running /\ Enabled(Current) /\ Current.do \in Asserts
           /\ UNCHANGED <<vector, protocol, answer, done>> /\ Steps' = Steps
           /\ at \in DOMAIN Steps /\ at \in Nat /\ Current = Steps[at]
           /\ vector \in Vector /\ row \in Row
           /\ \E o \in OutcomeNames :
                /\ o \in Outcomes(Steps, Steps[at], answer, protocol)
                /\ row' = Booked(row, o)
                /\ at' = IF o \in {"vacuous", "raises"} THEN Len(Steps) + 1
                         ELSE at + 1
  <1>1. /\ Running /\ Enabled(Current) /\ Current.do \in Asserts
        /\ UNCHANGED <<vector, protocol, answer, done>>
    BY DEF Check
  <1>2. Steps' = Steps /\ Current = Steps[at]
    BY <1>1 DEF Steps, Current
  <1> QED  BY <1>1, <1>2, CheckStep, CurrentType DEF TypeOK

LEMMA TrailCheck ==
    ASSUME TypeOK, Trail, Check
    PROVE  Trail'
  <1>1. /\ protocol' = protocol /\ answer' = answer /\ Steps' = Steps
        /\ at \in Nat /\ row \in Row /\ vector \in Vector
    BY CheckBooks
  <1>2. PICK o \in OutcomeNames :
           /\ o \in Outcomes(Steps, Steps[at], answer, protocol)
           /\ row' = Booked(row, o)
           /\ at' = IF o \in {"vacuous", "raises"} THEN Len(Steps) + 1 ELSE at + 1
    BY CheckBooks
  <1>3. /\ row'.status = "pass" =>
                row.status = "pass" /\ o \in {"holds", "nothing", "vacuous"}
        /\ o # "raises" => (row.checked => row'.checked) /\ (row.vacuous => row'.vacuous)
        /\ o \in {"holds", "fails"} => row'.checked
        /\ o = "vacuous" => row'.vacuous
        /\ o = "raises" => row'.status = "harness-error"
        /\ row.status = "harness-error" => row'.status = "harness-error"
    BY <1>1, <1>2, BookedKeeps, FaultSticks DEF Faulted
  <1>4. \A i \in DOMAIN Steps : i \in Nat /\ (Enabled(Steps[i])' <=> Enabled(Steps[i]))
    BY <1>1, StepsType DEF Enabled, IsOk
  <1> SUFFICES ASSUME row'.status # "harness-error", ~row'.vacuous,
                      NEW i \in DOMAIN Steps, i < at', Enabled(Steps[i])
               PROVE  /\ Steps[i].do \in Sends => SendTrail(i)'
                      /\ Steps[i].do \in Asserts /\ Steps[i].legs \subseteq DOMAIN answer
                           => CheckTrail(i)'
    BY <1>1, <1>4 DEF Trail
  <1>5. o \notin {"vacuous", "raises"} /\ row.status # "harness-error" /\ ~row.vacuous
    BY <1>3
  <1>6. at' = at + 1
    BY <1>2, <1>5
  <1>7. CASE i < at
    <2>1. Steps[i].do \in Sends => SendTrail(i)
      BY <1>5, <1>7 DEF Trail
    <2>2. Steps[i].do \in Asserts /\ Steps[i].legs \subseteq DOMAIN answer => CheckTrail(i)
      BY <1>5, <1>7 DEF Trail
    <2>3. SendTrail(i) => SendTrail(i)'
      BY <1>1, <1>3 DEF SendTrail
    <2>4. CheckTrail(i) => CheckTrail(i)'
      BY <1>1, <1>3, <1>5 DEF CheckTrail
    <2> QED  BY <2>1, <2>2, <2>3, <2>4
  <1>8. CASE i = at
    <2>1. Steps[i].do \notin Sends
      BY <1>8, CheckBooks, SendsAssertNothing
    <2>2. CheckTrail(i)'
      BY <1>1, <1>2, <1>3, <1>5, <1>8 DEF CheckTrail
    <2> QED  BY <2>1, <2>2
  <1> QED  BY <1>1, <1>4, <1>6, <1>7, <1>8

LEMMA TrailStep == TypeOK /\ Sent /\ Trail /\ [Next]_vars => Trail'
  <1> SUFFICES ASSUME TypeOK, Sent, Trail, [Next]_vars PROVE Trail'
    OBVIOUS
  <1>0. row \in Row /\ "harness-error" \in Statuses
    BY DEF TypeOK, Statuses
  <1>1. CASE PassOver
    <2>1. /\ Running /\ ~Enabled(Current) /\ at' = at + 1 /\ row' = row
          /\ answer' = answer /\ protocol' = protocol /\ Steps' = Steps
      BY <1>1 DEF PassOver, Steps
    <2>2. at \in Nat /\ Current = Steps[at]
      BY <2>1, CurrentType DEF Current
    <2>3. \A i \in DOMAIN Steps : i \in Nat /\ (Enabled(Steps[i])' <=> Enabled(Steps[i]))
      BY <2>1, StepsType DEF TypeOK, Enabled, IsOk
    <2>4. \A i \in DOMAIN Steps : i < at' /\ Enabled(Steps[i]) => i < at
      BY <2>1, <2>2, <2>3
    <2>5. \A i : (SendTrail(i) => SendTrail(i)') /\ (CheckTrail(i) => CheckTrail(i)')
      BY <2>1 DEF SendTrail, CheckTrail
    <2> QED  BY <2>1, <2>3, <2>4, <2>5 DEF Trail
  <1>2. CASE Finish \/ UNCHANGED vars
    <2>1. /\ at' = at /\ answer' = answer /\ protocol' = protocol /\ Steps' = Steps
          /\ row' = row \/ row' = SetStatus(row, "harness-error")
      BY <1>2 DEF Finish, vars, Steps
    <2>2. SetStatus(row, "harness-error").status = "harness-error"
      BY <1>0, SetStatusWorst
    <2>3. CASE row' = row
      <3>1. \A i : (SendTrail(i) => SendTrail(i)') /\ (CheckTrail(i) => CheckTrail(i)')
        BY <2>1, <2>3 DEF SendTrail, CheckTrail
      <3>2. \A i \in DOMAIN Steps : Enabled(Steps[i])' <=> Enabled(Steps[i])
        BY <2>1 DEF Enabled, IsOk
      <3> QED  BY <2>1, <2>3, <3>1, <3>2 DEF Trail
    <2>4. CASE row'.status = "harness-error"
      BY <2>4 DEF Trail
    <2> QED  BY <2>1, <2>2, <2>3, <2>4
  <1> QED  BY <1>1, <1>2, TrailSend, TrailCheck DEF Next, Ended

-----------------------------------------------------------------------------
(* What an assertion finds of an answer.                                    *)

\* The answer that an assertion on one leg looks at.
LEMMA OneAnswer ==
    ASSUME vector \in Vector, NEW i \in DOMAIN Steps, NEW f, NEW p,
           Steps[i].do \notin {"relation", "set relation"}, NEW l \in Steps[i].legs
    PROVE  /\ Steps[i].legs = {l} /\ (CHOOSE k \in Steps[i].legs : TRUE) = l
           /\ Outcomes(Steps, Steps[i], f, p) = OutcomesOf(Steps, Steps[i], f[l], p)
  <1>1. Steps[i].legs = {l}  BY SingleLeg
  <1>2. (CHOOSE k \in Steps[i].legs : TRUE) = l  BY <1>1
  <1> QED  BY <1>1, <1>2 DEF Outcomes

\* Only some assertions hold of an answer, and only one gives a vector up:
\* on an answer that is ok and without flaw.
LEMMA HoldsScores ==
    ASSUME vector \in Vector, NEW i \in DOMAIN Steps, Steps[i].do \in Asserts,
           NEW f, NEW p, "holds" \in Outcomes(Steps, Steps[i], f, p)
    PROVE  Steps[i].do \in Scoring
  <1> SUFFICES ASSUME Steps[i].do \in {"require", "impossible", "mark", "waive"}
               PROVE  FALSE
    BY DEF Asserts, Scoring, Grading
  <1>1. PICK l \in Steps[i].legs : Steps[i].legs = {l}
    BY SingleLeg
  <1>2. "holds" \in OutcomesOf(Steps, Steps[i], f[l], p)
    BY <1>1, OneAnswer, ZenonT(60)
  <1>3. "holds" \notin Judged(Steps, Steps[i], f[l], p)
    BY DEF Judged
  <1> QED  BY <1>2, <1>3 DEF OutcomesOf

LEMMA VacuousWaives ==
    ASSUME vector \in Vector, NEW i \in DOMAIN Steps, Steps[i].do \in Asserts,
           NEW f, NEW p, "vacuous" \in Outcomes(Steps, Steps[i], f, p)
    PROVE  /\ Steps[i].do = "waive"
           /\ \A l \in Steps[i].legs : f[l].kind = "ok" /\ f[l].flaw = "none"
  <1>1. Steps[i].do \notin {"relation", "set relation"}
    BY DEF Outcomes, HoldsIf
  <1>2. PICK l \in Steps[i].legs : Steps[i].legs = {l}
    BY <1>1, SingleLeg
  <1>3. Outcomes(Steps, Steps[i], f, p) = OutcomesOf(Steps, Steps[i], f[l], p)
    BY <1>1, <1>2, OneAnswer
  <1>4. /\ "vacuous" \in Judged(Steps, Steps[i], f[l], p)
        /\ Steps[i].do \notin {"demand", "absence"}
    BY <1>3 DEF OutcomesOf, HoldsIf
  <1>5. Steps[i].do = "waive"
    <2>1. Steps[i].do \in {"field", "never", "truthy", "error", "diagnostic", "reason",
                           "accept", "require", "impossible", "mark", "waive"}
      BY <1>1, <1>4 DEF Asserts
    <2> QED  BY <1>4, <2>1 DEF Judged, HoldsIf
  <1>6. f[l].kind = "ok" /\ f[l].flaw = "none"
    BY <1>4, <1>5 DEF Judged
  <1> QED  BY <1>2, <1>5, <1>6

LEMMA EarnedStep == TypeOK /\ Sent /\ Earned /\ [Next]_vars => Earned'
  <1> SUFFICES ASSUME TypeOK, Sent, Earned, [Next]_vars,
                      row'.checked, row'.status = "pass", ~row'.vacuous
               PROVE  \E i \in DOMAIN Steps' :
                         i < at' /\ Enabled(Steps[i])' /\ Steps'[i].do \in Scoring
    BY DEF Earned
  <1>0. row \in Row /\ vector \in Vector /\ "harness-error" \in Statuses
    BY DEF TypeOK, Statuses
  <1>1. CASE SendLeg
    <2>1. PICK l, a : Reply(l, a)  BY <1>1, SendReplies
    <2>2. row' = Marked(row, Current.do, a.kind) /\ at' = at + 1 /\ Running
      BY <1>1, <2>1, SendReplies DEF Reply
    <2>3. row' = row
      BY <1>0, <2>2, MarkedPass
    <2>4. PICK i \in DOMAIN Steps :
             i < at /\ Enabled(Steps[i]) /\ Steps[i].do \in Scoring
      BY <2>3 DEF Earned
    <2>5. Steps' = Steps /\ Enabled(Steps[i])'
      BY <1>1, <2>1, <2>4, ReplyKeeps
    <2>6. i < at'
      BY <1>0, <2>2, <2>4, StepsType, CurrentType
    <2> QED  BY <2>4, <2>5, <2>6
  <1>2. CASE ~SendLeg
    <2>1. /\ Steps' = Steps /\ at \in Nat /\ at' \in Nat /\ at <= at'
          /\ \A i \in DOMAIN Steps : i \in Nat /\ (Enabled(Steps[i])' <=> Enabled(Steps[i]))
      BY <1>0, <1>2, OtherStep, StepsType
    <2>2. CASE row.checked /\ row.status = "pass" /\ ~row.vacuous
      <3>1. PICK i \in DOMAIN Steps :
               i < at /\ Enabled(Steps[i]) /\ Steps[i].do \in Scoring
        BY <2>2 DEF Earned
      <3> QED  BY <2>1, <3>1
    <2>3. CASE Check
      <3>1. PICK o \in OutcomeNames :
               /\ o \in Outcomes(Steps, Steps[at], answer, protocol)
               /\ row' = Booked(row, o)
               /\ at' = IF o \in {"vacuous", "raises"} THEN Len(Steps) + 1 ELSE at + 1
        BY <2>3, CheckBooks
      <3>2. /\ row.status = "pass" /\ o \in {"holds", "nothing", "vacuous"}
            /\ o = "vacuous" => row'.vacuous
            /\ row.checked \/ o \in {"holds", "fails"}
            /\ row.vacuous => row'.vacuous
        <4>1. o # "raises"
          BY <1>0, <3>1, BookedKeeps
        <4> QED  BY <1>0, <3>1, <4>1, BookedKeeps
      <3>3. CASE row.checked
        BY <2>2, <3>2, <3>3
      <3>4. CASE ~row.checked
        <4>1. o = "holds" /\ at' = at + 1
          BY <3>1, <3>2, <3>4
        <4>2. at \in DOMAIN Steps /\ Steps[at].do \in Asserts /\ Enabled(Steps[at])
          BY <2>3, CheckBooks
        <4>3. Steps[at].do \in Scoring
          BY <1>0, <3>1, <4>1, <4>2, HoldsScores
        <4>4. at < at' /\ Enabled(Steps[at]) /\ \E i \in DOMAIN Steps : i = at
          BY <2>1, <4>1, <4>2
        <4> QED  BY <2>1, <4>3, <4>4
      <3> QED  BY <3>3, <3>4
    <2>4. CASE ~Check
      <3>1. row' = row \/ row' = SetStatus(row, "harness-error")
        BY <1>2, <2>4 DEF Next, PassOver, Finish, Ended, vars
      <3>2. SetStatus(row, "harness-error").status = "harness-error"
        BY <1>0, SetStatusWorst
      <3>3. row' = row
        BY <3>1, <3>2
      <3> QED  BY <2>2, <3>3
    <2> QED  BY <2>3, <2>4
  <1> QED  BY <1>1, <1>2

LEMMA WaivedStep == TypeOK /\ Sent /\ Waived /\ [Next]_vars => Waived'
  <1> SUFFICES ASSUME TypeOK, Sent, Waived, [Next]_vars, row'.vacuous
               PROVE  /\ at' = Len(Steps') + 1
                      /\ \A l \in DOMAIN answer' : IsRight(l, answer[l])'
    BY DEF Waived
  <1>0. row \in Row /\ vector \in Vector /\ "harness-error" \in Statuses
    BY DEF TypeOK, Statuses
  <1>1. Running => ~row.vacuous
    <2> SUFFICES ASSUME Running, at = Len(Steps) + 1 PROVE FALSE
      BY DEF Waived
    <2> QED  BY CurrentType
  <1>2. CASE SendLeg
    <2>1. PICK l, a : Reply(l, a)  BY <1>2, SendReplies
    <2>2. row' = Marked(row, Current.do, a.kind) /\ Running
      BY <1>2, <2>1, SendReplies DEF Reply
    <2>3. row'.vacuous = row.vacuous
      BY <1>0, <2>2, MarkedKeeps, ZenonT(60)
    <2> QED  BY <1>1, <2>2, <2>3
  <1>3. CASE Check
    <2>1. PICK o \in OutcomeNames :
             /\ o \in Outcomes(Steps, Steps[at], answer, protocol)
             /\ row' = Booked(row, o)
             /\ at' = IF o \in {"vacuous", "raises"} THEN Len(Steps) + 1 ELSE at + 1
      BY <1>3, CheckBooks
    <2>2. /\ Running /\ at \in DOMAIN Steps /\ Steps[at].do \in Asserts
          /\ Steps' = Steps /\ answer' = answer
      BY <1>3, CheckBooks
    <2>3. o = "vacuous"
      BY <1>0, <1>1, <2>1, <2>2, BookedKeeps
    <2>4. /\ Steps[at].do = "waive"
          /\ \A l \in Steps[at].legs : answer[l].kind = "ok" /\ answer[l].flaw = "none"
      BY <1>0, <2>1, <2>2, <2>3, VacuousWaives
    <2>5. Steps[at].legs = LegsOf(Steps) /\ Steps[at].legs \subseteq RightLegs(Steps)
      BY <1>0, <2>2, <2>4, AskedAssumption DEF WellAsked, Steps
    <2>6. \A l \in DOMAIN answer : l \in LegsOf(Steps)
      BY DEF Sent, LegsOf
    <2>7. \A l \in DOMAIN answer : IsRight(l, answer[l])
      BY <2>4, <2>5, <2>6 DEF RightLegs, IsRight
    <2> QED  BY <2>1, <2>2, <2>3, <2>7 DEF IsRight
  <1>4. CASE ~SendLeg /\ ~Check
    <2>1. /\ row' = row \/ row' = SetStatus(row, "harness-error")
          /\ at' = at \/ Running
      BY <1>4 DEF Next, PassOver, Finish, Ended, vars
    <2>2. row'.vacuous = row.vacuous
      BY <1>0, <2>1, RowKeeps, ZenonT(60)
    <2>3. at' = at /\ Steps' = Steps /\ answer' = answer
      BY <1>1, <1>4, <2>1, <2>2, OtherStep
    <2> QED  BY <2>2, <2>3 DEF Waived, IsRight
  <1> QED  BY <1>2, <1>3, <1>4

LEMMA ClosedStep == TypeOK /\ Closed /\ [Next]_vars => Closed'
  <1> SUFFICES ASSUME TypeOK, Closed, [Next]_vars, done' PROVE Closed'
    BY DEF Closed
  <1>0. row \in Row /\ vector \in Vector /\ "harness-error" \in Statuses
    BY DEF TypeOK, Statuses
  <1>1. CASE Finish
    <2>1. /\ at' = at /\ Steps' = Steps /\ vector' = vector /\ at > Len(Steps)
          /\ row' = IF /\ row.status = "pass" /\ ~row.checked /\ ~row.vacuous
                       /\ vector \notin Invariant
                    THEN SetStatus(row, "harness-error") ELSE row
      BY <1>1 DEF Finish, Steps
    <2>2. at = Len(Steps) + 1
      <3>1. Len(Steps) \in Nat /\ at \in 1 .. (Len(Steps) + 1)
        BY <1>0, StepsType DEF TypeOK
      <3> QED  BY <2>1, <3>1
    <2>3. SetStatus(row, "harness-error").status = "harness-error"
      BY <1>0, SetStatusWorst
    <2>4. row'.status = "pass" => row'.checked \/ row'.vacuous \/ vector \in Invariant
      BY <2>1, <2>3
    <2> QED  BY <2>1, <2>2, <2>4 DEF Closed
  <1>2. CASE ~Finish
    <2>1. done /\ UNCHANGED vars
      BY <1>2 DEF Next, SendLeg, Check, PassOver, Ended, Running, vars
    <2> QED  BY <2>1 DEF Closed, vars, Steps
  <1> QED  BY <1>1, <1>2

Ledger == TypeOK /\ FaultKept /\ Sent /\ Trail /\ Earned /\ Waived /\ Closed

LEMMA LedgerInit == Init => Ledger
  <1> SUFFICES ASSUME Init PROVE Ledger
    OBVIOUS
  <1>1. TypeOK  BY ProbesTypeInit
  <1>2. /\ at = 1 /\ answer = <<>> /\ done = FALSE /\ row = NewRow("pass")
        /\ \A i \in DOMAIN Steps : ~(i < at)
    BY <1>1, StepsType DEF Init, TypeOK
  <1>3. row.vacuous = FALSE /\ row.checked = FALSE
    BY <1>2 DEF NewRow
  <1>4. DOMAIN answer = {}
    BY <1>2
  <1>5. FaultKept /\ Sent
    BY <1>4 DEF FaultKept, Sent
  <1>6. Trail /\ Earned /\ Waived /\ Closed
    BY <1>2, <1>3 DEF Trail, Earned, Waived, Closed
  <1> QED  BY <1>1, <1>5, <1>6 DEF Ledger

LEMMA LedgerKept == Spec => []Ledger
  <1>1. Ledger /\ [Next]_vars /\ TypeOK' /\ FaultKept' => Ledger'
    BY SentStep, TrailStep, EarnedStep, WaivedStep, ClosedStep DEF Ledger
  <1> QED  BY <1>1, LedgerInit, ProbesTypeCorrect, FaultIsKept, PTL DEF Spec

-----------------------------------------------------------------------------
(* What the text of a binding says of its run.                              *)

\* The promises of the text, for the binding that runs.
LEMMA TextFacts ==
    ASSUME vector \in Vector
    PROVE  /\ WellAsked(Steps)
           /\ vector \notin Misfiled =>
                NeverRaises(Steps) /\ (vector \in Invariant \/ AlwaysGraded(Steps))
           /\ vector \notin Invariant => RightGraded(Steps)
           /\ vector \notin Blaming => Tolerant(Steps)
           /\ AllJudged(Steps, {l \in LegsOf(Steps) : <<vector, l>> \in Unjudged},
                        vector \in Invariant)
  BY AskedAssumption, GradedAssumption, RightAssumption, TolerantAssumption,
     JudgedAssumption DEF Steps

\* An answer is to a leg of the binding, and so is an ok one.
LEMMA AnsweredLegs ==
    ASSUME Sent
    PROVE  DOMAIN answer \subseteq LegsOf(Steps) /\ OkLegs \subseteq LegsOf(Steps)
  BY DEF Sent, LegsOf, OkLegs

\* What a step that runs has asked before has been answered.
LEMMA AskedAnswered ==
    ASSUME Ledger, row.status # "harness-error", ~row.vacuous,
           NEW i \in DOMAIN Steps, i <= at, Enabled(Steps[i]),
           NEW l, Asked(Steps, i, l)
    PROVE  l \in DOMAIN answer
  <1>0. /\ vector \in Vector /\ at \in Nat /\ i \in Nat
        /\ DOMAIN Steps = 1 .. Len(Steps) /\ Len(Steps) \in Nat
    BY StepsType DEF Ledger, TypeOK
  <1>1. CASE l \in Steps[i].when
    BY <1>1 DEF Enabled, IsOk
  <1>2. CASE l \notin Steps[i].when
    <2>1. PICK j \in 1 .. (i - 1) :
             /\ Steps[j].do \in Sends /\ l \in Steps[j].legs
             /\ Steps[j].when \subseteq Steps[i].when
             /\ Steps[j].unless \in {{}, Steps[i].unless}
      BY <1>2 DEF Asked
    <2>2. j \in DOMAIN Steps /\ j < at
      BY <1>0
    <2>3. Enabled(Steps[j])
      BY <2>1 DEF Enabled
    <2>4. SendTrail(j)
      BY <2>1, <2>2, <2>3 DEF Ledger, Trail
    <2> QED  BY <2>1, <2>4 DEF SendTrail
  <1> QED  BY <1>1, <1>2

\* No adapter that passes has broken.
LEMMA NoneBroken ==
    ASSUME Ledger, row.status # "harness-error", NEW l \in DOMAIN answer
    PROVE  /\ answer[l].kind \in {"ok", "spec-error", "unsupported"}
           /\ answer[l].kind = RightKind(Steps, l) \/ answer[l].flaw = "none"
           /\ RightKind(Steps, l) \in {"ok", "spec-error"}
  <1>1. answer[l].kind # "harness-error"
    BY DEF Ledger, FaultKept
  <1>2. answer[l] \in AnswerType /\ answer[l] \in Answers(Steps, l)
    BY DEF Ledger, TypeOK, Sent
  <1>3. answer[l].kind \in {"ok", "spec-error", "unsupported", "harness-error"}
    BY <1>2 DEF AnswerType
  <1>4. answer[l].kind = RightKind(Steps, l) \/ answer[l].flaw = "none"
    BY <1>2 DEF Answers
  <1>5. RightKind(Steps, l) \in {"ok", "spec-error"}
    BY DEF RightKind
  <1> QED  BY <1>1, <1>3, <1>4, <1>5

\* An assertion that grades says something of every answer of an adapter
\* that is not broken.
LEMMA GradingSpeaks ==
    ASSUME vector \in Vector, NEW i \in DOMAIN Steps, Steps[i].do \in Grading,
           NEW f, NEW p, \A l \in Steps[i].legs : f[l].kind # "harness-error"
    PROVE  "nothing" \notin Outcomes(Steps, Steps[i], f, p)
  <1>1. CASE Steps[i].do \in {"relation", "set relation"}
    BY <1>1 DEF Outcomes, HoldsIf
  <1>2. CASE Steps[i].do \notin {"relation", "set relation"}
    <2>1. PICK l \in Steps[i].legs : Steps[i].legs = {l}
      BY <1>2, SingleLeg
    <2>2. Outcomes(Steps, Steps[i], f, p) = OutcomesOf(Steps, Steps[i], f[l], p)
      BY <1>2, <2>1, OneAnswer
    <2>3. "nothing" \notin OutcomesOf(Steps, Steps[i], f[l], p)
      <3>1. CASE Steps[i].do \in {"demand", "absence"}
        BY <3>1 DEF OutcomesOf, HoldsIf
      <3>2. CASE Steps[i].do \in {"field", "never", "truthy", "error", "diagnostic",
                                  "accept", "impossible"}
        <4>1. "nothing" \notin Judged(Steps, Steps[i], f[l], p)
          BY <3>2 DEF Judged, HoldsIf
        <4> QED  BY <2>1, <3>2, <4>1 DEF OutcomesOf
      <3> QED  BY <1>2, <3>1, <3>2 DEF Grading
    <2> QED  BY <2>2, <2>3
  <1> QED  BY <1>1, <1>2

\* An answer that is required and not ok fails the vector or is declined.
LEMMA RequireSpeaks ==
    ASSUME vector \in Vector, NEW i \in DOMAIN Steps, Steps[i].do = "require",
           NEW f, NEW p, NEW l \in Steps[i].legs,
           f[l].kind \notin {"ok", "harness-error"},
           NEW o \in Outcomes(Steps, Steps[i], f, p)
    PROVE  o \in {"fails", "unsupported"}
  <1>1. Outcomes(Steps, Steps[i], f, p) = OutcomesOf(Steps, Steps[i], f[l], p)
    BY OneAnswer
  <1>2. Judged(Steps, Steps[i], f[l], p) = {"fails"}
    BY DEF Judged
  <1> QED  BY <1>1, <1>2 DEF OutcomesOf

LEMMA GradesChecks ==
    ASSUME Ledger, at = Len(Steps) + 1, row.status = "pass", ~row.vacuous,
           NEW i \in DOMAIN Steps, Grades(Steps, OkLegs, i)
    PROVE  row.checked
  <1>0. vector \in Vector /\ i < at
    BY StepsType DEF Ledger, TypeOK
  <1>1. Enabled(Steps[i]) /\ Steps[i].do \in Asserts
    BY OpensIsEnabled DEF Grades
  <1>2. \A l \in Steps[i].legs : l \in DOMAIN answer /\ answer[l].kind # "harness-error"
    <2>1. \A l \in Steps[i].legs : l \in DOMAIN answer
      BY <1>0, <1>1, AskedAnswered, StepsType DEF Grades
    <2> QED  BY <2>1, NoneBroken
  <1>3. CheckTrail(i)
    BY <1>0, <1>1, <1>2 DEF Ledger, Trail
  <1>4. PICK o \in Outcomes(Steps, Steps[i], answer, protocol) :
           o \in {"holds", "nothing"} /\ (o = "holds" => row.checked)
    BY <1>3 DEF CheckTrail
  <1>5. CASE Steps[i].do \in Grading
    BY <1>0, <1>2, <1>4, <1>5, GradingSpeaks
  <1>6. CASE Steps[i].do = "require" /\ Steps[i].legs \cap OkLegs = {}
    <2>1. PICK l \in Steps[i].legs : Steps[i].legs = {l}
      BY <1>0, <1>6, SingleLeg
    <2>2. answer[l].kind \notin {"ok", "harness-error"}
      BY <1>2, <1>6, <2>1 DEF OkLegs
    <2> QED  BY <1>0, <1>4, <1>6, <2>2, RequireSpeaks
  <1> QED  BY <1>5, <1>6 DEF Grades

-----------------------------------------------------------------------------
(* A harness error is an adapter that broke.                                *)

Broken ==
    row.status = "harness-error" =>
        \/ \E l \in DOMAIN answer : answer[l].kind = "harness-error"
        \/ vector \in Misfiled

LEMMA RaisesIsSet ==
    ASSUME vector \in Vector, NEW i \in DOMAIN Steps, Steps[i].do \in Asserts,
           NEW f, NEW p, "raises" \in Outcomes(Steps, Steps[i], f, p)
    PROVE  Steps[i].do = "set relation"
  <1>1. Steps[i].do # "relation"
    BY DEF Outcomes, HoldsIf
  <1>2. CASE Steps[i].do # "set relation"
    <2>1. PICK l \in Steps[i].legs : Steps[i].legs = {l}
      BY <1>1, <1>2, SingleLeg
    <2>2. Outcomes(Steps, Steps[i], f, p) = OutcomesOf(Steps, Steps[i], f[l], p)
      BY <1>1, <1>2, <2>1, OneAnswer
    <2>3. /\ "raises" \in Judged(Steps, Steps[i], f[l], p)
          /\ Steps[i].do \notin {"demand", "absence"}
      BY <2>2 DEF OutcomesOf, HoldsIf
    <2>4. Steps[i].do \in {"field", "never", "truthy", "error", "diagnostic", "reason",
                           "accept", "require", "impossible", "mark", "waive"}
      BY <1>1, <1>2, <2>3 DEF Asserts
    <2> QED  BY <2>3, <2>4 DEF Judged, HoldsIf
  <1> QED  BY <1>2

LEMMA BrokenStep == Ledger /\ Broken /\ [Next]_vars => Broken'
  <1> SUFFICES ASSUME Ledger, Broken, [Next]_vars, row'.status = "harness-error"
               PROVE  \/ \E l \in DOMAIN answer' : answer'[l].kind = "harness-error"
                      \/ vector' \in Misfiled
    BY DEF Broken
  <1>0. TypeOK /\ Sent /\ row \in Row /\ vector \in Vector /\ vector' = vector
    BY DEF Ledger, TypeOK, Next, SendLeg, Check, PassOver, Finish, Ended, vars
  <1>1. CASE SendLeg
    <2>1. PICK l, a : Reply(l, a)  BY <1>1, SendReplies
    <2>2. /\ DOMAIN answer' = DOMAIN answer \cup {l} /\ answer'[l] = a
          /\ \A k \in DOMAIN answer : answer'[k] = answer[k]
      BY <1>0, <1>1, <2>1, ReplyKeeps
    <2>3. row.status = "harness-error" \/ a.kind = "harness-error"
      BY <1>0, <2>1, MarkedKeeps DEF Reply
    <2> QED  BY <1>0, <2>2, <2>3 DEF Broken
  <1>2. CASE ~SendLeg
    <2>1. answer' = answer
      BY <1>0, <1>2, OtherStep
    <2>2. CASE row.status = "harness-error"
      BY <1>0, <2>1, <2>2 DEF Broken
    <2>3. CASE Check /\ row.status # "harness-error"
      <3>1. PICK o \in OutcomeNames :
               o \in Outcomes(Steps, Steps[at], answer, protocol) /\ row' = Booked(row, o)
        BY <1>0, <2>3, CheckBooks
      <3>2. o = "raises"
        BY <1>0, <2>3, <3>1, BookedKeeps
      <3>3. at \in DOMAIN Steps /\ Steps[at].do \in Asserts
        BY <1>0, <2>3, CheckBooks
      <3>4. Steps[at].do = "set relation"
        BY <1>0, <3>1, <3>2, <3>3, RaisesIsSet
      <3> QED  BY <1>0, <3>3, <3>4, TextFacts DEF NeverRaises
    <2>4. CASE ~Check /\ row.status # "harness-error"
      <3>1. /\ Finish /\ row.status = "pass" /\ ~row.checked /\ ~row.vacuous
            /\ vector \notin Invariant
        BY <1>2, <2>4 DEF Next, PassOver, Finish, Ended, vars
      <3>2. at = Len(Steps) + 1
        <4>1. at > Len(Steps)  BY <3>1 DEF Finish
        <4>2. Len(Steps) \in Nat /\ at \in 1 .. (Len(Steps) + 1)
          BY <1>0, StepsType DEF TypeOK
        <4> QED  BY <4>1, <4>2
      <3>3. ASSUME vector \notin Misfiled PROVE FALSE
        <4>1. AlwaysGraded(Steps)
          BY <1>0, <3>1, <3>3, TextFacts
        <4>2. PICK i \in DOMAIN Steps : Grades(Steps, OkLegs, i)
          BY <1>0, <4>1, AnsweredLegs DEF AlwaysGraded
        <4> QED  BY <3>1, <3>2, <4>2, GradesChecks
      <3> QED  BY <1>0, <3>3
    <2> QED  BY <2>2, <2>3, <2>4
  <1> QED  BY <1>1, <1>2

(* For every registry whose bindings grade on every path, and every adapter: *)
(* a row says harness-error only of an adapter that broke - a wrong answer   *)
(* that is well formed is booked as a failure, however many there are.       *)
THEOREM FaultsAreFaults == Spec => []FaultIsFault
  <1>1. Init => Broken  BY DEF Init, Broken, NewRow
  <1>2. Ledger /\ Broken => FaultIsFault  BY DEF Broken, FaultIsFault
  <1> QED  BY <1>1, <1>2, BrokenStep, LedgerKept, PTL DEF Spec

-----------------------------------------------------------------------------
(* Adapters that answer rightly, or decline.                                *)

LEMMA WrongGrows ==
    ASSUME Ledger, [Next]_vars, NEW l \in Wrong
    PROVE  l \in Wrong' /\ answer'[l] = answer[l]
  <1>0. TypeOK /\ Sent
    BY DEF Ledger
  <1>1. /\ Steps' = Steps /\ \A k : IsOk(k) => IsOk(k)'
        /\ \A k \in DOMAIN answer : k \in DOMAIN answer' /\ answer'[k] = answer[k]
    <2>1. CASE SendLeg
      <3>1. PICK m, a : Reply(m, a)  BY <2>1, SendReplies
      <3> QED  BY <1>0, <2>1, <3>1, ReplyKeeps
    <2>2. CASE ~SendLeg
      BY <1>0, <2>2, OtherStep DEF IsOk
    <2> QED  BY <2>1, <2>2
  <1>2. l \in DOMAIN answer /\ ~IsRight(l, answer[l]) /\ ~Junk(l)
    BY DEF Wrong
  <1>3. ~Junk(l)'
    BY <1>1, <1>2 DEF Junk
  <1>4. ~IsRight(l, answer[l])'
    BY <1>1, <1>2 DEF IsRight
  <1> QED  BY <1>1, <1>2, <1>3, <1>4 DEF Wrong

\* The answer to a request that carries only what was answered ok is wrong, or
\* it is right.
LEMMA ReplyIsWrong ==
    ASSUME Ledger, SendLeg, NEW l, NEW a, Reply(l, a), ~IsRight(l, a),
           \A k \in Steps[at].from : IsOk(k)
    PROVE  l \in Wrong'
  <1>0. TypeOK /\ Sent /\ vector \in Vector
    BY DEF Ledger, TypeOK
  <1>1. /\ l \in DOMAIN answer' /\ answer'[l] = a /\ Steps' = Steps
        /\ \A k : IsOk(k) => IsOk(k)'
    BY <1>0, ReplyKeeps
  <1>2. at \in DOMAIN Steps /\ Steps[at].do \in Sends /\ l \in Steps[at].legs
    BY <1>0, SendReplies, CurrentType DEF Current, Reply
  <1>3. ~Junk(l)'
    <2> SUFFICES ASSUME NEW i \in DOMAIN Steps, Steps[i].do \in Sends,
                        l \in Steps[i].legs, NEW k \in Steps[i].from
                 PROVE  IsOk(k)'
      BY <1>1 DEF Junk
    <2>1. i = at
      BY <1>0, <1>2, SentOnce
    <2> QED  BY <1>1, <2>1
  <1>4. ~IsRight(l, answer[l])'
    BY <1>1 DEF IsRight
  <1> QED  BY <1>1, <1>3, <1>4 DEF Wrong

\* An answer that is right, or declines.
Fair(l, a) == IsRight(l, a) \/ (a.kind = "unsupported" /\ a.flaw = "none")

(* An assertion on right answers holds, and one on right and declined ones   *)
(* does not fail, if it demands nothing of those.                            *)
LEMMA RightHolds ==
    ASSUME vector \in Vector, NEW i \in DOMAIN Steps, Steps[i].do \in Asserts,
           Steps[i].do # "impossible", NEW f, NEW p,
           \A l \in Steps[i].legs : Fair(l, f[l]),
           Steps[i].do = "demand" => \A l \in Steps[i].legs : f[l].kind = "ok",
           NEW o \in Outcomes(Steps, Steps[i], f, p)
    PROVE  /\ o \in {"holds", "nothing", "vacuous", "unsupported"}
           /\ (\A l \in Steps[i].legs : IsRight(l, f[l])) => o # "unsupported"
  <1>0. WellAsked(Steps)
    BY TextFacts
  <1>1. \A l \in Steps[i].legs : f[l].flaw = "none" /\ ~Flawed(Steps[i], f[l])
    BY DEF Fair, IsRight, Flawed
  <1>2. CASE Steps[i].do \in {"relation", "set relation"}
    <2>1. o = "holds"
      BY <1>1, <1>2 DEF Outcomes, HoldsIf
    <2> QED  BY <2>1
  <1>3. CASE Steps[i].do \notin {"relation", "set relation"}
    <2>1. PICK l \in Steps[i].legs : Steps[i].legs = {l}
      BY <1>3, SingleLeg
    <2>0. (CHOOSE k \in Steps[i].legs : TRUE) = l
      BY <2>1
    <2>2. Outcomes(Steps, Steps[i], f, p) = OutcomesOf(Steps, Steps[i], f[l], p)
      BY <1>3, <2>1, OneAnswer, ZenonT(60)
    <2>3. CASE Steps[i].do \in {"demand", "absence"}
      <3>1. o = "holds"
        BY <1>1, <2>2, <2>3 DEF OutcomesOf, HoldsIf
      <3> QED  BY <3>1
    <2>4. CASE Steps[i].do \notin {"demand", "absence"} /\ f[l].kind = "unsupported"
      <3>1. o \in {"nothing", "unsupported"}
        BY <2>2, <2>4 DEF OutcomesOf
      <3>2. ~IsRight(l, f[l])
        BY <2>4 DEF IsRight, RightKind
      <3> QED  BY <3>1, <3>2
    <2>5. CASE Steps[i].do \notin {"demand", "absence"} /\ f[l].kind # "unsupported"
      <3>1. IsRight(l, f[l]) /\ f[l].kind = RightKind(Steps, l)
        BY <2>5 DEF Fair, IsRight
      <3>2. f[l].kind # "harness-error"
        BY <3>1 DEF RightKind
      <3>3. o \in Judged(Steps, Steps[i], f[l], p)
        BY <2>2, <2>5, <3>2 DEF OutcomesOf
      <3>4. Steps[i].do = "require" => f[l].kind = "ok"
        BY <1>0, <3>1 DEF WellAsked, RightLegs
      <3>5. Steps[i].do \in {"field", "never", "truthy", "error", "diagnostic", "reason",
                             "accept", "require", "mark", "waive"}
        BY <1>3, <2>5 DEF Asserts
      <3>6. o \in {"holds", "nothing", "vacuous"}
        BY <1>1, <2>0, <3>1, <3>3, <3>4, <3>5 DEF Judged, HoldsIf
      <3> QED  BY <3>6
    <2> QED  BY <2>3, <2>4, <2>5
  <1> QED  BY <1>2, <1>3

LEMMA RightGrades ==
    ASSUME Ledger, at = Len(Steps) + 1, row.status = "pass", ~row.vacuous,
           vector \notin Invariant,
           \A l \in DOMAIN answer : IsRight(l, answer[l]) \/ answer[l].kind = "unsupported"
    PROVE  row.checked
  <1>0. vector \in Vector /\ Sent
    BY DEF Ledger, TypeOK
  <1>1. OkLegs \in SUBSET RightLegs(Steps)
    BY <1>0, AnsweredLegs DEF OkLegs, RightLegs, IsRight
  <1>2. CASE \E i \in DOMAIN Steps : Grades(Steps, OkLegs, i)
    BY <1>2, GradesChecks
  <1>3. ASSUME NEW i \in DOMAIN Steps, Steps[i].do = "send", Opens(Steps[i], OkLegs),
               Steps[i].legs \subseteq RightLegs(Steps) \ OkLegs
        PROVE  FALSE
    <2>1. PICK l \in Steps[i].legs : Steps[i].legs = {l}
      BY <1>0, <1>3, SingleLeg
    <2>2. SendTrail(i)
      <3>1. i < at  BY <1>0, StepsType
      <3> QED  BY <1>3, <3>1, OpensIsEnabled DEF Ledger, Trail, Sends
    <2>3. l \in DOMAIN answer /\ answer[l].kind # "ok" /\ RightKind(Steps, l) = "ok"
      BY <1>3, <2>2 DEF SendTrail, OkLegs, RightLegs
    <2>4. answer[l].kind = "unsupported"
      BY <2>3 DEF IsRight
    <2> QED  BY <1>3, <2>2, <2>4 DEF SendTrail
  <1> QED  BY <1>0, <1>1, <1>2, <1>3, TextFacts DEF RightGraded

\* Finish comes at the end, and only an unchecked pass changes.
LEMMA FinishStep ==
    ASSUME TypeOK, Finish
    PROVE  /\ at = Len(Steps) + 1 /\ answer' = answer
           /\ \/ row' = row
              \/ row.status = "pass" /\ ~row.checked /\ ~row.vacuous /\ vector \notin Invariant
  <1>1. at > Len(Steps) /\ answer' = answer
    BY DEF Finish
  <1>2. Len(Steps) \in Nat /\ at \in 1 .. (Len(Steps) + 1)
    BY StepsType DEF TypeOK
  <1> QED  BY <1>1, <1>2 DEF Finish

\* While a binding runs, its vector has not been given up.
LEMMA RunningIsNotVacuous == ASSUME Ledger, Running PROVE ~row.vacuous
  <1> SUFFICES ASSUME at = Len(Steps) + 1 PROVE FALSE
    BY DEF Ledger, Waived
  <1> QED  BY CurrentType DEF Ledger

Declining ==
    (vector \notin Blaming /\ \A l \in Wrong : answer[l].kind = "unsupported")
        => /\ row.status \in {"pass", "unsupported"}
           /\ \A l \in DOMAIN answer :
                IsRight(l, answer[l]) \/ answer[l].kind = "unsupported"

LEMMA DecliningStep == Ledger /\ Declining /\ [Next]_vars => Declining'
  <1> SUFFICES ASSUME Ledger, Declining, [Next]_vars, vector' \notin Blaming,
                      \A l \in Wrong' : answer'[l].kind = "unsupported"
               PROVE  /\ row'.status \in {"pass", "unsupported"}
                      /\ \A l \in DOMAIN answer' :
                            IsRight(l, answer[l])' \/ answer'[l].kind = "unsupported"
    BY DEF Declining
  <1>0. TypeOK /\ Sent /\ row \in Row /\ vector \in Vector /\ vector' = vector
    BY DEF Ledger, TypeOK, Next, SendLeg, Check, PassOver, Finish, Ended, vars
  <1>1. /\ row.status \in {"pass", "unsupported"}
        /\ \A l \in DOMAIN answer :
              IsRight(l, answer[l]) \/ answer[l].kind = "unsupported"
    BY <1>0, WrongGrows DEF Declining
  <1>2. Tolerant(Steps)
    BY <1>0, TextFacts
  <1>3. CASE SendLeg
    <2>1. PICK l, a : Reply(l, a)  BY <1>3, SendReplies
    <2>2. /\ DOMAIN answer' = DOMAIN answer \cup {l} /\ answer'[l] = a /\ Steps' = Steps
          /\ \A k \in DOMAIN answer : answer'[k] = answer[k]
      BY <1>0, <1>3, <2>1, ReplyKeeps
    <2>3. /\ at \in DOMAIN Steps /\ Steps[at].do \in Sends /\ Enabled(Steps[at])
      BY <1>0, <1>3, SendReplies, CurrentType DEF Current
    <2>4. \A k \in Steps[at].from : IsOk(k)
      BY <1>2, <2>3 DEF Tolerant, Enabled
    <2>5. IsRight(l, a) \/ a.kind = "unsupported"
      BY <1>3, <2>1, <2>2, <2>4, ReplyIsWrong
    <2>6. a.kind # "harness-error"
      BY <2>5 DEF IsRight, RightKind
    <2>7. row'.status \in {row.status, "unsupported"}
      BY <1>0, <2>1, <2>6, MarkedKeeps DEF Reply
    <2>8. \A k \in DOMAIN answer' : IsRight(k, answer[k])' \/ answer'[k].kind = "unsupported"
      BY <1>1, <2>2, <2>5 DEF IsRight
    <2> QED  BY <1>1, <2>7, <2>8
  <1>4. CASE ~SendLeg
    <2>1. answer' = answer /\ Steps' = Steps
      BY <1>0, <1>4, OtherStep
    <2>2. \A l \in DOMAIN answer' : IsRight(l, answer[l])' \/ answer'[l].kind = "unsupported"
      BY <1>1, <2>1 DEF IsRight
    <2>3. CASE Check
      <3>1. PICK o \in OutcomeNames :
               o \in Outcomes(Steps, Steps[at], answer, protocol) /\ row' = Booked(row, o)
        BY <1>0, <2>3, CheckBooks
      <3>2. /\ at \in DOMAIN Steps /\ Steps[at].do \in Asserts /\ Enabled(Steps[at])
            /\ at \in Nat /\ ~row.vacuous
        BY <1>0, <2>3, CheckBooks, RunningIsNotVacuous
      <3>3. \A l \in Steps[at].legs : l \in DOMAIN answer
        BY <1>0, <1>1, <3>2, AskedAnswered, TextFacts DEF WellAsked
      <3>4. \A l \in Steps[at].legs : Fair(l, answer[l])
        BY <1>1, <3>3, NoneBroken DEF Fair
      <3>5. \A k \in Steps[at].when : answer[k].kind = "ok" /\ k \in RightLegs(Steps)
        <4>1. \A k \in Steps[at].when : k \in DOMAIN answer /\ answer[k].kind = "ok"
          BY <3>2 DEF Enabled, IsOk
        <4> QED  BY <1>0, <1>1, <4>1, AnsweredLegs DEF RightLegs, IsRight
      <3>6. Steps[at].do # "impossible"
        BY <1>2, <3>2, <3>5 DEF Tolerant
      <3>7. Steps[at].do = "demand" => \A l \in Steps[at].legs : answer[l].kind = "ok"
        BY <1>2, <3>2, <3>5 DEF Tolerant
      <3>8. o \in {"holds", "nothing", "vacuous", "unsupported"}
        BY <1>0, <3>1, <3>2, <3>4, <3>6, <3>7, RightHolds
      <3>9. row'.status \in {row.status, "unsupported"}
        BY <1>0, <3>1, <3>8, BookedKeeps
      <3> QED  BY <1>1, <2>2, <3>9
    <2>4. CASE Finish
      BY <1>0, <1>1, <2>2, <2>4, FinishStep, RightGrades
    <2>5. CASE ~Check /\ ~Finish
      <3>1. row' = row
        BY <1>4, <2>5 DEF Next, PassOver, Ended, vars
      <3> QED  BY <1>1, <2>2, <3>1
    <2> QED  BY <2>3, <2>4, <2>5
  <1> QED  BY <1>3, <1>4

(* For every registry: a binding that carries on and demands nothing of a    *)
(* request that was declined never fails an adapter for declining.           *)
THEOREM DecliningIsNoFailure == Spec => []DeclineNotBlamed
  <1>1. Init => Declining
    <2>1. Init => row.status = "pass"  BY DEF Init, NewRow
    <2>2. Init => DOMAIN answer = {}   BY DEF Init
    <2> QED  BY <2>1, <2>2 DEF Declining
  <1>2. Declining => DeclineNotBlamed  BY DEF Declining, DeclineNotBlamed
  <1> QED  BY <1>1, <1>2, DecliningStep, LedgerKept, PTL DEF Spec

Righting ==
    Wrong = {} => /\ row.status = "pass"
                  /\ \A l \in DOMAIN answer : IsRight(l, answer[l])

LEMMA RightingStep == Ledger /\ Righting /\ [Next]_vars => Righting'
  <1> SUFFICES ASSUME Ledger, Righting, [Next]_vars, Wrong' = {}
               PROVE  /\ row'.status = "pass"
                      /\ \A l \in DOMAIN answer' : IsRight(l, answer[l])'
    BY DEF Righting
  <1>0. TypeOK /\ Sent /\ row \in Row /\ vector \in Vector /\ WellAsked(Steps)
    BY TextFacts DEF Ledger, TypeOK
  <1>1. row.status = "pass" /\ \A l \in DOMAIN answer : IsRight(l, answer[l])
    BY WrongGrows DEF Righting
  <1>2. \A l \in DOMAIN answer : l \in RightLegs(Steps) <=> IsOk(l)
    BY <1>0, <1>1, AnsweredLegs DEF RightLegs, IsRight, IsOk
  <1>3. CASE SendLeg
    <2>1. PICK l, a : Reply(l, a)  BY <1>3, SendReplies
    <2>2. /\ DOMAIN answer' = DOMAIN answer \cup {l} /\ answer'[l] = a /\ Steps' = Steps
          /\ \A k \in DOMAIN answer : answer'[k] = answer[k]
      BY <1>0, <1>3, <2>1, ReplyKeeps
    <2>3. /\ at \in DOMAIN Steps /\ Enabled(Steps[at]) /\ at \in Nat /\ ~row.vacuous
      BY <1>0, <1>3, SendReplies, CurrentType, RunningIsNotVacuous DEF Current
    <2>4. \A k \in Steps[at].from : IsOk(k)
      <3>1. \A k \in Steps[at].from : k \in RightLegs(Steps) /\ Asked(Steps, at, k)
        BY <1>0, <2>3 DEF WellAsked
      <3>2. \A k \in Steps[at].from : k \in DOMAIN answer
        BY <1>1, <2>3, <3>1, AskedAnswered
      <3> QED  BY <1>2, <3>1, <3>2
    <2>5. IsRight(l, a)
      BY <1>3, <2>1, <2>4, ReplyIsWrong
    <2>6. a.kind \notin {"harness-error", "unsupported"}
      BY <2>5 DEF IsRight, RightKind
    <2>7. row' = row
      BY <1>0, <2>1, <2>6, MarkedKeeps DEF Reply
    <2>8. \A k \in DOMAIN answer' : IsRight(k, answer[k])'
      BY <1>1, <2>2, <2>5 DEF IsRight
    <2> QED  BY <1>1, <2>7, <2>8
  <1>4. CASE ~SendLeg
    <2>1. answer' = answer /\ Steps' = Steps
      BY <1>0, <1>4, OtherStep
    <2>2. \A l \in DOMAIN answer' : IsRight(l, answer[l])'
      BY <1>1, <2>1 DEF IsRight
    <2>3. CASE Check
      <3>1. PICK o \in OutcomeNames :
               o \in Outcomes(Steps, Steps[at], answer, protocol) /\ row' = Booked(row, o)
        BY <1>0, <2>3, CheckBooks
      <3>2. /\ at \in DOMAIN Steps /\ Steps[at].do \in Asserts /\ Enabled(Steps[at])
            /\ at \in Nat /\ ~row.vacuous
        BY <1>0, <2>3, CheckBooks, RunningIsNotVacuous
      <3>3. \A l : Asked(Steps, at, l) => l \in DOMAIN answer
        BY <1>1, <3>2, AskedAnswered
      <3>4. \A l \in Steps[at].legs : l \in DOMAIN answer /\ IsRight(l, answer[l])
        BY <1>0, <1>1, <3>2, <3>3 DEF WellAsked
      <3>5. Steps[at].do # "impossible"
        <4>1. Steps[at].when \subseteq RightLegs(Steps)
          BY <1>2, <3>2 DEF Enabled, IsOk
        <4>2. ASSUME Steps[at].unless # {}, Steps[at].unless \subseteq RightLegs(Steps),
                     \A l \in Steps[at].unless : Asked(Steps, at, l)
              PROVE  FALSE
          <5>1. \A l \in Steps[at].unless : IsOk(l)
            BY <1>2, <3>3, <4>2
          <5> QED  BY <3>2, <4>2, <5>1 DEF Enabled
        <4> QED  BY <1>0, <3>2, <4>1, <4>2 DEF WellAsked
      <3>6. Steps[at].do = "demand" => \A l \in Steps[at].legs : answer[l].kind = "ok"
        BY <1>0, <1>2, <3>2, <3>4 DEF WellAsked, IsOk
      <3>7. o \in {"holds", "nothing", "vacuous"}
        BY <1>0, <3>1, <3>2, <3>4, <3>5, <3>6, RightHolds DEF Fair
      <3>8. row'.status = "pass"
        <4>1. row'.status \in {row.status, "unsupported"}
          BY <1>0, <3>1, <3>7, BookedKeeps
        <4>2. o = "holds" => row' = AddCheck(row, TRUE)
          BY <3>1 DEF Booked
        <4>3. o = "nothing" => row' = row
          BY <3>1 DEF Booked
        <4>4. o = "vacuous" => row' = [row EXCEPT !.vacuous = TRUE]
          BY <3>1 DEF Booked
        <4>5. [row EXCEPT !.vacuous = TRUE].status = row.status
          BY <1>0 DEF Row
        <4> QED  BY <1>0, <1>1, <3>7, <4>2, <4>3, <4>4, <4>5, AddCheckKeeps
      <3> QED  BY <2>2, <3>8
    <2>4. CASE Finish
      BY <1>0, <1>1, <2>2, <2>4, FinishStep, RightGrades
    <2>5. CASE ~Check /\ ~Finish
      <3>1. row' = row
        BY <1>4, <2>5 DEF Next, PassOver, Ended, vars
      <3> QED  BY <1>1, <2>2, <3>1
    <2> QED  BY <2>3, <2>4, <2>5
  <1> QED  BY <1>3, <1>4

(* For every registry whose bindings look at what they asked for: an adapter *)
(* that is right throughout passes every vector, whatever its protocol.      *)
THEOREM RightIsPassed == Spec => []RightPasses
  <1>1. Init => Righting
    <2>1. Init => row.status = "pass"  BY DEF Init, NewRow
    <2>2. Init => DOMAIN answer = {}   BY DEF Init
    <2> QED  BY <2>1, <2>2 DEF Righting
  <1>2. Righting => RightPasses  BY DEF Righting, RightPasses
  <1> QED  BY <1>1, <1>2, RightingStep, LedgerKept, PTL DEF Spec

-----------------------------------------------------------------------------
(* Wrong answers are found out.                                             *)

\* An assertion that tells kinds does not hold of an answer off its kind.
LEMMA OffKindFails ==
    ASSUME vector \in Vector, NEW i \in DOMAIN Steps, Steps[i].do \in KindChecks,
           NEW l \in Steps[i].legs, NEW f, NEW p,
           f[l].kind \in {"ok", "spec-error", "unsupported"},
           f[l].kind # RightKind(Steps, l)
    PROVE  /\ "holds" \notin Outcomes(Steps, Steps[i], f, p)
           /\ "nothing" \notin Outcomes(Steps, Steps[i], f, p)
  <1>0. WellAsked(Steps) /\ Steps[i].do \notin {"relation", "set relation", "absence"}
    BY TextFacts DEF KindChecks
  <1>1. Outcomes(Steps, Steps[i], f, p) = OutcomesOf(Steps, Steps[i], f[l], p)
    BY <1>0, OneAnswer, ZenonT(60)
  <1>2. (CHOOSE k \in Steps[i].legs : TRUE) = l
    BY <1>0, OneAnswer
  <1>3. Steps[i].do \in {"require", "demand"} => f[l].kind # "ok"
    BY <1>0 DEF WellAsked, RightLegs
  <1>4. CASE Steps[i].do = "demand"
    <2>1. OutcomesOf(Steps, Steps[i], f[l], p) = {"fails"}
      BY <1>3, <1>4 DEF OutcomesOf, HoldsIf
    <2> QED  BY <1>1, <2>1
  <1>5. CASE Steps[i].do # "demand" /\ f[l].kind = "unsupported"
    <2>1. OutcomesOf(Steps, Steps[i], f[l], p) = {"unsupported"}
      BY <1>0, <1>5 DEF OutcomesOf, KindChecks
    <2> QED  BY <1>1, <2>1
  <1>6. CASE Steps[i].do # "demand" /\ f[l].kind # "unsupported"
    <2>1. Judged(Steps, Steps[i], f[l], p) = {"fails"}
      BY <1>2, <1>3, <1>6 DEF Judged, HoldsIf, KindChecks
    <2>2. OutcomesOf(Steps, Steps[i], f[l], p) = {"fails"}
      BY <1>0, <1>6, <2>1 DEF OutcomesOf
    <2> QED  BY <1>1, <2>2
  <1> QED  BY <1>4, <1>5, <1>6

\* A path that is called impossible fails, or finds a request declined.
LEMMA ImpossibleFails ==
    ASSUME vector \in Vector, NEW i \in DOMAIN Steps, Steps[i].do = "impossible",
           NEW f, NEW p, \A l \in Steps[i].legs : f[l].kind # "harness-error"
    PROVE  /\ "holds" \notin Outcomes(Steps, Steps[i], f, p)
           /\ "nothing" \notin Outcomes(Steps, Steps[i], f, p)
  <1>1. PICK l \in Steps[i].legs : Steps[i].legs = {l}
    BY SingleLeg
  <1>2. Outcomes(Steps, Steps[i], f, p) = OutcomesOf(Steps, Steps[i], f[l], p)
    BY <1>1, OneAnswer
  <1>3. Judged(Steps, Steps[i], f[l], p) = {"fails"}
    BY DEF Judged
  <1> QED  BY <1>1, <1>2, <1>3 DEF OutcomesOf

\* The assertion looks at its aspect of an answer of the right kind.
Minds(s, a, p) ==
    \/ s.do \in AspectChecks
    \/ s.do = "reason" /\ ~(p < 2)
    \/ s.do = "absence" /\ a.kind = "ok"

\* An assertion does not hold of an answer that is flawed in its aspect.
LEMMA FlawFails ==
    ASSUME vector \in Vector, NEW i \in DOMAIN Steps, NEW l \in Steps[i].legs,
           NEW f, NEW p, Flawed(Steps[i], f[l]),
           f[l].kind = RightKind(Steps, l), Minds(Steps[i], f[l], p)
    PROVE  /\ "holds" \notin Outcomes(Steps, Steps[i], f, p)
           /\ "nothing" \notin Outcomes(Steps, Steps[i], f, p)
  <1>1. CASE Steps[i].do \in {"relation", "set relation"}
    BY <1>1 DEF Outcomes, HoldsIf
  <1>2. CASE Steps[i].do \notin {"relation", "set relation"}
    <2>1. Outcomes(Steps, Steps[i], f, p) = OutcomesOf(Steps, Steps[i], f[l], p)
      BY <1>2, OneAnswer
    <2>2. (CHOOSE k \in Steps[i].legs : TRUE) = l
      BY <1>2, OneAnswer
    <2>3. f[l].kind \notin {"unsupported", "harness-error"}
      BY DEF RightKind
    <2>4. Steps[i].do \in {"demand", "absence", "field", "never", "error",
                          "diagnostic", "reason"}
      BY <1>2 DEF Minds, AspectChecks
    <2>5. Steps[i].do = "reason" => ~(p < 2)
      BY DEF Minds, AspectChecks
    <2>6. Steps[i].do = "absence" => f[l].kind = "ok"
      BY DEF Minds, AspectChecks
    <2>7. CASE Steps[i].do \in {"demand", "absence"}
      <3>1. OutcomesOf(Steps, Steps[i], f[l], p) = {"fails"}
        BY <2>6, <2>7 DEF OutcomesOf, HoldsIf
      <3> QED  BY <2>1, <3>1
    <2>8. CASE Steps[i].do \in {"field", "never", "error", "diagnostic", "reason"}
      <3>1. Judged(Steps, Steps[i], f[l], p) = {"fails"}
        BY <2>2, <2>5, <2>8 DEF Judged, HoldsIf
      <3>2. OutcomesOf(Steps, Steps[i], f[l], p) = {"fails"}
        BY <2>3, <2>8, <3>1 DEF OutcomesOf
      <3> QED  BY <2>1, <3>2
    <2> QED  BY <2>4, <2>7, <2>8
  <1> QED  BY <1>1, <1>2

\* At the end of a pass that was not given up, every step that the answers
\* enable has run, and every assertion among them has held.
LEMMA AllHeld ==
    ASSUME Ledger, at = Len(Steps) + 1, row.status = "pass", ~row.vacuous,
           NEW i \in DOMAIN Steps, Opens(Steps[i], OkLegs)
    PROVE  /\ Steps[i].do \in Sends => SendTrail(i)
           /\ Steps[i].do \in Asserts =>
                /\ Steps[i].legs \subseteq DOMAIN answer
                /\ \/ "holds" \in Outcomes(Steps, Steps[i], answer, protocol)
                   \/ "nothing" \in Outcomes(Steps, Steps[i], answer, protocol)
  <1>0. vector \in Vector /\ i < at /\ i <= at /\ Enabled(Steps[i])
    BY StepsType, OpensIsEnabled DEF Ledger, TypeOK
  <1>1. Steps[i].do \in Sends => SendTrail(i)
    BY <1>0 DEF Ledger, Trail
  <1>2. ASSUME Steps[i].do \in Asserts
        PROVE  /\ Steps[i].legs \subseteq DOMAIN answer
               /\ \/ "holds" \in Outcomes(Steps, Steps[i], answer, protocol)
                  \/ "nothing" \in Outcomes(Steps, Steps[i], answer, protocol)
    <2>1. \A l \in Steps[i].legs : Asked(Steps, i, l)
      BY <1>0, <1>2, TextFacts DEF WellAsked
    <2>2. Steps[i].legs \subseteq DOMAIN answer
      BY <1>0, <2>1, AskedAnswered
    <2>3. CheckTrail(i)
      BY <1>0, <1>2, <2>2 DEF Ledger, Trail
    <2> QED  BY <2>2, <2>3 DEF CheckTrail
  <1> QED  BY <1>1, <1>2

LEMMA AskedIsOwed ==
    ASSUME Ledger, at = Len(Steps) + 1, row.status = "pass", ~row.vacuous,
           NEW u, u \in LegsOf(Steps), Asks(Steps, OkLegs, u), Off(Steps, OkLegs, u)
    PROVE  u \in Owed
  <1>0. vector \in Vector
    BY DEF Ledger, TypeOK
  <1>1. PICK i \in DOMAIN Steps :
           /\ Steps[i].do \in Sends /\ u \in Steps[i].legs
           /\ Opens(Steps[i], OkLegs) /\ Steps[i].from \subseteq OkLegs
    BY DEF Asks
  <1>2. u \in DOMAIN answer
    BY <1>1, AllHeld DEF SendTrail
  <1>3. answer[u].kind # RightKind(Steps, u)
    BY <1>2 DEF Off, OkLegs, RightLegs
  <1>4. ~Junk(u)
    <2> SUFFICES ASSUME NEW j \in DOMAIN Steps, Steps[j].do \in Sends,
                        u \in Steps[j].legs, NEW k \in Steps[j].from
                 PROVE  IsOk(k)
      BY DEF Junk
    <2>1. j = i
      BY <1>0, <1>1, SentOnce
    <2> QED  BY <1>1, <2>1 DEF OkLegs, IsOk
  <1>5. answer[u].flaw = "none"
    BY <1>2, <1>3, NoneBroken
  <1> QED  BY <1>2, <1>3, <1>4, <1>5 DEF Owed, Wrong, IsRight

\* A leg whose wrong answer the vector owes a verdict has been judged, where
\* its text says so.
LEMMA JudgedIsFound ==
    ASSUME Ledger, at = Len(Steps) + 1, row.status = "pass", ~row.vacuous,
           NEW l \in Owed, Asks(Steps, OkLegs, l) => Judges(Steps, OkLegs, l)
    PROVE  FALSE
  <1>0. vector \in Vector /\ protocol \in {1, 2} /\ Sent
    BY DEF Ledger, TypeOK
  <1>1. /\ l \in DOMAIN answer /\ ~IsRight(l, answer[l]) /\ ~Junk(l)
        /\ ~(protocol = 1 /\ answer[l].flaw = "reason")
    BY DEF Owed, Wrong
  <1>2. PICK j \in DOMAIN Steps :
           /\ Steps[j].do \in Sends /\ l \in Steps[j].legs /\ Enabled(Steps[j])
    BY <1>0, <1>1 DEF Sent
  <1>3. Opens(Steps[j], OkLegs)
    BY <1>2, OpensIsEnabled
  <1>4. Steps[j].from \subseteq OkLegs
    BY <1>1, <1>2 DEF Junk, IsOk, OkLegs
  <1>5. Judges(Steps, OkLegs, l)
    BY <1>2, <1>3, <1>4 DEF Asks
  <1>6. /\ answer[l].kind \in {"ok", "spec-error", "unsupported"}
        /\ answer[l].kind = RightKind(Steps, l) \/ answer[l].flaw = "none"
        /\ RightKind(Steps, l) \in {"ok", "spec-error"}
    BY <1>1, NoneBroken
  <1>7. l \in LegsOf(Steps)
    BY <1>2 DEF LegsOf
  <1>8. CASE answer[l].kind = RightKind(Steps, l)
    <2>1. answer[l].flaw # "none" /\ answer[l].flaw \in Flaws(Steps, l)
      <3>1. answer[l].flaw # "none"
        BY <1>1, <1>8 DEF IsRight
      <3>2. answer[l] \in Answers(Steps, l)
        BY <1>0, <1>1 DEF Sent
      <3> QED  BY <3>1, <3>2 DEF Answers
    <2>2. PICK i \in DOMAIN Steps :
             /\ Opens(Steps[i], OkLegs) /\ l \in Steps[i].legs
             /\ Steps[i].aspect = answer[l].flaw
             /\ \/ Steps[i].do \in AspectChecks
                \/ Steps[i].do = "reason" /\ answer[l].flaw = "reason"
                \/ Steps[i].do = "absence" /\ l \in OkLegs
      BY <1>5, <2>1 DEF Judges, Looks
    <2>3. Flawed(Steps[i], answer[l]) /\ Steps[i].do \in Asserts
      BY <2>1, <2>2 DEF Flawed, Asserts, AspectChecks
    <2>4. Minds(Steps[i], answer[l], protocol)
      BY <1>0, <1>1, <2>2 DEF Minds, OkLegs
    <2>5. /\ "holds" \notin Outcomes(Steps, Steps[i], answer, protocol)
          /\ "nothing" \notin Outcomes(Steps, Steps[i], answer, protocol)
      BY <1>0, <1>8, <2>2, <2>3, <2>4, FlawFails
    <2> QED  BY <2>2, <2>3, <2>5, AllHeld
  <1>9. CASE answer[l].kind # RightKind(Steps, l)
    <2>1. RightKind(Steps, l) # "ok" /\ answer[l].kind = "unsupported" /\ l \notin OkLegs
      BY <1>1, <1>5, <1>6, <1>7, <1>9 DEF Judges, Off, OkLegs, RightLegs
    <2>2. CASE Steps[j].do = "send"
      <3>1. SendTrail(j)
        BY <1>2, <1>3, AllHeld
      <3> QED  BY <1>2, <2>1, <2>2, <3>1 DEF SendTrail
    <2>3. CASE Steps[j].do = "hook send"
      <3>1. PICK i \in DOMAIN Steps :
               Opens(Steps[i], OkLegs) /\ Steps[i].do \in KindChecks /\ l \in Steps[i].legs
        BY <1>2, <1>5, <2>1, <2>3 DEF Judges, Declinable
      <3>2. /\ "holds" \notin Outcomes(Steps, Steps[i], answer, protocol)
            /\ "nothing" \notin Outcomes(Steps, Steps[i], answer, protocol)
        BY <1>0, <1>6, <1>9, <3>1, OffKindFails
      <3>3. Steps[i].do \in Asserts
        BY <3>1 DEF KindChecks, Asserts
      <3> QED  BY <3>1, <3>2, <3>3, AllHeld
    <2> QED  BY <1>2, <2>2, <2>3 DEF Sends
  <1> QED  BY <1>8, <1>9

LEMMA WrongIsFound == Ledger => NoSilentPass
  <1> SUFFICES ASSUME Ledger, Passed, Owed # {},
                      \A l \in Owed : <<vector, l>> \notin Unjudged
               PROVE  FALSE
    BY DEF NoSilentPass
  <1> DEFINE O == OkLegs
             U == {l \in LegsOf(Steps) : <<vector, l>> \in Unjudged}
  <1>0. vector \in Vector /\ Sent /\ row.status = "pass" /\ at = Len(Steps) + 1
    BY DEF Ledger, TypeOK, Passed, Closed
  <1>1. ~row.vacuous
    <2> SUFFICES ASSUME row.vacuous PROVE FALSE
      OBVIOUS
    <2>1. \A l \in DOMAIN answer : IsRight(l, answer[l])
      BY DEF Ledger, Waived
    <2> QED  BY <2>1 DEF Owed, Wrong
  <1>2. O \in SUBSET LegsOf(Steps) /\ DOMAIN answer \subseteq LegsOf(Steps)
    BY <1>0, AnsweredLegs
  <1>3. CASE Refuted(Steps, O)
    <2>1. PICK i \in DOMAIN Steps :
             /\ Opens(Steps[i], O)
             /\ \/ Steps[i].do = "impossible"
                \/ /\ Steps[i].do \in KindChecks
                   /\ \E l \in Steps[i].legs : Off(Steps, O, l)
      BY <1>3 DEF Refuted
    <2>2. Steps[i].do \in Asserts
      BY <2>1 DEF KindChecks, Asserts
    <2>3. /\ Steps[i].legs \subseteq DOMAIN answer
          /\ \/ "holds" \in Outcomes(Steps, Steps[i], answer, protocol)
             \/ "nothing" \in Outcomes(Steps, Steps[i], answer, protocol)
      BY <1>0, <1>1, <2>1, <2>2, AllHeld
    <2>4. \A l \in Steps[i].legs :
             answer[l].kind \in {"ok", "spec-error", "unsupported"}
      BY <1>0, <2>3, NoneBroken
    <2>5. CASE Steps[i].do = "impossible"
      <3>1. \A l \in Steps[i].legs : answer[l].kind # "harness-error"
        BY <2>4
      <3> QED  BY <1>0, <2>3, <2>5, <3>1, ImpossibleFails
    <2>6. CASE Steps[i].do \in KindChecks /\ \E l \in Steps[i].legs : Off(Steps, O, l)
      <3>1. PICK l \in Steps[i].legs : Off(Steps, O, l)
        BY <2>6
      <3>2. answer[l].kind # RightKind(Steps, l)
        BY <1>2, <2>3, <3>1 DEF Off, OkLegs, RightLegs
      <3> QED  BY <1>0, <2>3, <2>4, <2>6, <3>2, OffKindFails
    <2> QED  BY <2>1, <2>5, <2>6
  <1>4. CASE /\ vector \notin Invariant
             /\ \A i \in DOMAIN Steps : Opens(Steps[i], O) => Steps[i].do \notin Scoring
    <2>1. row.checked
      BY <1>0, <1>1, <1>4 DEF Ledger, Closed, Passed
    <2>2. PICK i \in DOMAIN Steps : Enabled(Steps[i]) /\ Steps[i].do \in Scoring
      BY <1>0, <1>1, <2>1 DEF Ledger, Earned
    <2> QED  BY <1>4, <2>2, OpensIsEnabled
  <1>5. CASE \E l \in U : Asks(Steps, O, l) /\ Off(Steps, O, l)
    BY <1>0, <1>1, <1>5, AskedIsOwed
  <1>6. CASE \A l \in LegsOf(Steps) \ U : Asks(Steps, O, l) => Judges(Steps, O, l)
    <2>1. PICK l : l \in Owed
      OBVIOUS
    <2>2. l \in LegsOf(Steps) \ U
      BY <1>2, <2>1 DEF Owed, Wrong
    <2> QED  BY <1>0, <1>1, <1>6, <2>1, <2>2, JudgedIsFound
  <1>7. AllJudged(Steps, U, vector \in Invariant)
    BY <1>0, TextFacts
  <1> HIDE DEF U
  <1> QED  BY <1>2, <1>3, <1>4, <1>5, <1>6, <1>7 DEF AllJudged

(* For every registry whose texts judge their legs, and every adapter: no    *)
(* vector passes with a wrong answer in it, however many there are, but for  *)
(* an answer to one of the legs that are named.                              *)
THEOREM NoPassIsSilent == Spec => []NoSilentPass
  BY WrongIsFound, LedgerKept, PTL
=============================================================================
