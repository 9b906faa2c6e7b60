----------------------- MODULE ConformanceRun_proofs -----------------------
(***************************************************************************)
(* Theorems about ConformanceRun, for every catalog, every table of scopes *)
(* and every adapter: type correctness, that a claim is sound, that just   *)
(* the trees worth looking at stay on disk, and that a session that broke  *)
(* earns no pass.                                                          *)
(***************************************************************************)
EXTENDS ConformanceRun, TLAPS

(* A verdict other than "pass" is never taken back by set_status, and        *)
(* set_status never gives "pass" unless the row had it.                      *)
LEMMA VerdictStays ==
    ASSUME NEW r \in Row, NEW s \in Statuses
    PROVE  /\ SetStatus(r, s) \in Row
           /\ s \notin {"pass", "out-of-scope"} =>
                 SetStatus(r, s).status \notin {"pass", "out-of-scope"}
  BY DEF Row, SetStatus, Statuses, Priority

LEMMA CheckShows ==
    ASSUME NEW r \in Row, NEW holds \in BOOLEAN
    PROVE  /\ AddCheck(r, holds) \in Row
           /\ ~holds => AddCheck(r, holds).status \notin {"pass", "out-of-scope"}
           /\ holds => AddCheck(r, holds).status = r.status
  <1> DEFINE c == [r EXCEPT !.checked = TRUE]
  <1>1. c \in Row /\ c.status = r.status
    BY DEF Row
  <1>2. "fail" \in Statuses
    BY DEF Statuses
  <1>3. AddCheck(r, holds) = IF holds THEN c ELSE SetStatus(c, "fail")
    BY DEF AddCheck
  <1> HIDE DEF c
  <1> QED BY <1>1, <1>2, <1>3, VerdictStays

LEMMA NewRowType ==
    ASSUME NEW s \in Statuses
    PROVE  NewRow(s) \in Row /\ NewRow(s).status = s
  BY DEF NewRow, Row

LEMMA AtType ==
    ASSUME TypeOK
    PROVE  at \in Nat /\ at >= 1 /\ Len(Catalog) \in Nat
  <1>1. Len(Catalog) \in Nat
    BY CatalogAssumption
  <1>2. at \in 1..(Len(Catalog) + 1)
    BY DEF TypeOK
  <1> QED BY <1>1, <1>2

LEMMA CurrentType ==
    ASSUME TypeOK, at <= Len(Catalog)
    PROVE  Current \in Vector /\ at \in 1..Len(Catalog) /\ at + 1 \in 1..(Len(Catalog) + 1)
  <1>1. Len(Catalog) \in Nat /\ DOMAIN Catalog = 1..Len(Catalog)
    BY CatalogAssumption
  <1> at \in 1..(Len(Catalog) + 1)
    BY DEF TypeOK
  <1>2. at \in 1..Len(Catalog) /\ at + 1 \in 1..(Len(Catalog) + 1)
    BY <1>1
  <1>3. Catalog[at] \in Vector
    BY <1>1, <1>2, CatalogAssumption
  <1> QED BY <1>2, <1>3 DEF Current

(* Every action keeps the types.                                           *)
LEMMA TypeInit == Init => TypeOK
  <1> SUFFICES ASSUME Init PROVE TypeOK
    OBVIOUS
  <1>1. rows \in [Vector -> Row]
    BY NewRowType DEF Init, Statuses
  <1>2. 1 \in 1..(Len(Catalog) + 1)
    BY CatalogAssumption
  <1>3. /\ at = 1 /\ case = 1 /\ pc = "hello" /\ keep \in BOOLEAN
        /\ requested \in SUBSET Scope /\ only \in Onlys
    BY OptionsAssumption DEF Init
  <1>4. /\ mockOk \in BOOLEAN /\ mockUp = FALSE /\ loaded = FALSE
        /\ helloError = FALSE /\ sortable = TRUE /\ broken = FALSE
        /\ sessionOpen = FALSE /\ claimed = {} /\ trees = {}
        /\ exercised = {} /\ diagnostics = {} /\ statuses = {}
        /\ flawed = {} /\ failed = {} /\ made = {}
    BY DEF Init
  <1>5. 1 \in Nat
    OBVIOUS
  <1> QED BY <1>1, <1>2, <1>3, <1>4, <1>5, ZenonT(60) DEF TypeOK

LEMMA TypeStep == TypeOK /\ [Next]_vars => TypeOK'
  <1> SUFFICES ASSUME TypeOK, [Next]_vars PROVE TypeOK'
    OBVIOUS
  <1> USE DEF options, hello, mock, observed, session, history
  <1>1. CASE UNCHANGED vars
    <2>1. /\ pc' = pc /\ requested' = requested /\ only' = only /\ keep' = keep
          /\ claimed' = claimed /\ helloError' = helloError
          /\ sortable' = sortable /\ mockOk' = mockOk /\ mockUp' = mockUp
          /\ rows' = rows /\ at' = at /\ case' = case /\ trees' = trees
          /\ loaded' = loaded /\ exercised' = exercised
          /\ diagnostics' = diagnostics /\ statuses' = statuses
          /\ broken' = broken /\ sessionOpen' = sessionOpen
          /\ flawed' = flawed /\ failed' = failed /\ made' = made
      BY <1>1, Zenon DEF vars
    <2>2. /\ (requested \in SUBSET Scope /\ only \in Onlys /\ keep \in BOOLEAN
              /\ claimed \in SUBSET Scope /\ helloError \in BOOLEAN
              /\ sortable \in BOOLEAN /\ mockOk \in BOOLEAN
              /\ mockUp \in BOOLEAN)'
      BY <2>1, ZenonT(60) DEF TypeOK
    <2>3. /\ (rows \in [Vector -> Row] /\ at \in 1 .. (Len(Catalog) + 1)
              /\ case \in Nat /\ trees \subseteq Vector /\ loaded \in BOOLEAN
              /\ exercised \subseteq Triggers /\ diagnostics \subseteq BOOLEAN
              /\ statuses \subseteq BOOLEAN)'
      BY <2>1, ZenonT(60) DEF TypeOK
    <2>4. /\ (broken \in BOOLEAN /\ sessionOpen \in BOOLEAN
              /\ flawed \subseteq Vector /\ failed \subseteq Vector
              /\ made \subseteq Vector
              /\ (pc \in {"binding", "cleanup"} => at <= Len(Catalog))
              /\ pc \in {"hello", "select", "mock", "rows", "binding",
                         "cleanup", "conditional", "report", "closing",
                         "done", "usage error", "traceback"})'
      BY <2>1, ZenonT(60) DEF TypeOK
    <2> QED BY <2>2, <2>3, <2>4, ZenonT(60) DEF TypeOK
  <1>2. CASE HelloOk
    BY <1>2, OptionsAssumption DEF TypeOK, HelloOk
  <1>3. CASE HelloRefused
    BY <1>3, OptionsAssumption DEF TypeOK, HelloRefused
  <1>4. CASE HelloFails
    BY <1>4 DEF TypeOK, HelloFails
  <1>5. CASE HelloRaises
    BY <1>5 DEF TypeOK, HelloRaises
  <1>6. CASE Select
    BY <1>6 DEF TypeOK, Select
  <1>7. CASE StartMock
    BY <1>7 DEF TypeOK, StartMock
  <1>8. CASE LeaveOut
    BY <1>8, CurrentType DEF TypeOK, LeaveOut, AtRow
  <1>9. CASE NoHandshake
    <2>1. Current \in Vector /\ at + 1 \in 1..(Len(Catalog) + 1)
      BY <1>9, CurrentType DEF NoHandshake, AtRow
    <2>2. NewRow("harness-error") \in Row
      BY NewRowType DEF Statuses
    <2> QED BY <1>9, <2>1, <2>2 DEF TypeOK, NoHandshake, AtRow
  <1>10. CASE Begin
    <2>1. NewRow("pass") \in Row
      BY NewRowType DEF Statuses
    <2> QED BY <1>10, <2>1 DEF TypeOK, Begin, AtRow
  <1>11. CASE Blocked
    <2>1. Current \in Vector /\ NewRow("env-blocked") \in Row
      BY <1>11, CurrentType, NewRowType DEF Blocked, InCase, TypeOK, Statuses
    <2>2. mockOk' \in BOOLEAN
      <3>1. mockOk' = (mockOk /\ ~NeedsMock)
        BY <1>11 DEF Blocked
      <3> QED BY <3>1
    <2> QED BY <1>11, <2>1, <2>2 DEF TypeOK, Blocked, InCase
  <1>12. CASE Raises
    <2>1. Current \in Vector /\ NewRow("harness-error") \in Row
      BY <1>12, CurrentType, NewRowType DEF Raises, InCase, TypeOK, Statuses
    <2>2. trees' \subseteq Vector /\ made' \subseteq Vector
      BY <1>12, <2>1 DEF TypeOK, Raises
    <2> QED BY <1>12, <2>1, <2>2 DEF TypeOK, Raises, InCase
  <1>13. ASSUME InCase, Materialise, Observe, NEW ok \in BOOLEAN, NextCase(ok)
         PROVE  /\ Current \in Vector /\ rows[Current] \in Row
                /\ trees' \subseteq Vector /\ made' \subseteq Vector
                /\ exercised' \subseteq Triggers /\ case' \in Nat
    <2>1. Current \in Vector
      BY <1>13, CurrentType DEF InCase, TypeOK
    <2>2. Cases[Current] \in Nat
      BY <2>1, CatalogAssumption
    <2>3. rows[Current] \in Row
      BY <2>1 DEF TypeOK
    <2>4. trees' \subseteq Vector /\ made' \subseteq Vector
      BY <1>13, <2>1 DEF TypeOK, Materialise
    <2>5. exercised' \subseteq Triggers
      BY <1>13 DEF TypeOK, Observe, Tagged
    <2>6. case' \in Nat
      <3>1. case' = Cases[Current] + 1 \/ case' = case + 1
        BY <1>13 DEF NextCase
      <3>2. case \in Nat
        BY DEF TypeOK
      <3> QED BY <2>2, <3>1, <3>2
    <2> QED BY <2>1, <2>3, <2>4, <2>5, <2>6
  <1>14. CASE SendFails
    <2>1. Current \in Vector /\ rows[Current] \in Row
      BY <1>13, <1>14 DEF SendFails
    <2>2. rows' \in [Vector -> Row]
      BY <1>14, <2>1, VerdictStays, ZenonT(60) DEF SendFails, TypeOK, Statuses
    <2>3. broken' \in BOOLEAN
      BY <1>14 DEF SendFails, TypeOK
    <2>4. /\ trees' \subseteq Vector /\ made' \subseteq Vector
          /\ exercised' \subseteq Triggers /\ case' \in Nat
      BY <1>13, <1>14 DEF SendFails
    <2> QED BY <1>14, <2>1, <2>2, <2>3, <2>4 DEF TypeOK, SendFails, InCase
  <1>15. CASE SendSpecError
    <2>1. Current \in Vector /\ rows[Current] \in Row
      BY <1>13, <1>15 DEF SendSpecError
    <2>2. /\ rows' \in [Vector -> Row]
          /\ flawed' \subseteq Vector /\ failed' \subseteq Vector
      BY <1>15, <2>1, CheckShows, ZenonT(60) DEF SendSpecError, TypeOK
    <2>3. /\ trees' \subseteq Vector /\ made' \subseteq Vector
          /\ exercised' \subseteq Triggers /\ case' \in Nat
      BY <1>13, <1>15 DEF SendSpecError
    <2> QED BY <1>15, <2>1, <2>2, <2>3 DEF TypeOK, SendSpecError, InCase
  <1>16. CASE SendOk
    <2>1. Current \in Vector /\ rows[Current] \in Row
      BY <1>13, <1>16 DEF SendOk
    <2>2. PICK check \in {"none", "holds", "mismatch"}, paired \in BOOLEAN,
               emitted \in SUBSET BOOLEAN :
            /\ diagnostics' = diagnostics \cup (IF Tagged THEN {paired} ELSE {})
            /\ statuses' = statuses \cup emitted
            /\ rows' = IF check = "none" THEN rows
                       ELSE [rows EXCEPT ![Current] =
                                AddCheck(@, check = "holds")]
            /\ flawed' = IF check = "mismatch" THEN flawed \cup {Current}
                         ELSE flawed
            /\ failed' = IF check = "mismatch" THEN failed \cup {Current}
                         ELSE failed
      BY <1>16, Zenon DEF SendOk
    <2>3. AddCheck(rows[Current], check = "holds") \in Row
      BY <2>1, CheckShows
    <2>4. rows' \in [Vector -> Row]
      BY <2>1, <2>2, <2>3 DEF TypeOK
    <2>5. flawed' \subseteq Vector /\ failed' \subseteq Vector
      BY <2>1, <2>2 DEF TypeOK
    <2>6. diagnostics' \subseteq BOOLEAN /\ statuses' \subseteq BOOLEAN
      BY <2>2, ZenonT(60) DEF TypeOK
    <2>7. /\ trees' \subseteq Vector /\ made' \subseteq Vector
          /\ exercised' \subseteq Triggers /\ case' \in Nat
      BY <1>13, <1>16 DEF SendOk
    <2> QED BY <1>16, <2>4, <2>5, <2>6, <2>7 DEF TypeOK, SendOk, InCase
  <1>17. CASE Finish
    <2>1. Current \in Vector /\ rows[Current] \in Row
      BY <1>17, CurrentType DEF Finish, TypeOK
    <2>2. SetStatus(rows[Current], "harness-error") \in Row
      BY <2>1, VerdictStays DEF Statuses
    <2>3. rows' \in [Vector -> Row] /\ flawed' \subseteq Vector
      BY <1>17, <2>1, <2>2 DEF Finish, TypeOK
    <2> QED BY <1>17, <2>1, <2>3 DEF TypeOK, Finish
  <1>18. CASE Cleanup
    <2>1. at <= Len(Catalog)
      BY <1>18 DEF Cleanup, TypeOK
    <2> QED BY <1>18, <2>1, CurrentType DEF TypeOK, Cleanup
  <1>19. CASE CheckPaired
    <2>1. PairedRow(rows[Paired]) \in Row
      <3>1. rows[Paired] \in Row /\ (FALSE \notin diagnostics) \in BOOLEAN
        BY BindingsAssumption DEF TypeOK
      <3> QED BY <3>1, CheckShows, VerdictStays DEF PairedRow, Statuses
    <2> QED BY <1>19, <2>1 DEF TypeOK, CheckPaired
  <1>20. CASE CheckConditional
    <2>1. rows[Conditional] \in Row
      BY BindingsAssumption DEF TypeOK
    <2>2. AddCheck(rows[Conditional], FALSE \notin statuses) \in Row
      BY <2>1, CheckShows
    <2>3. [rows[Conditional] EXCEPT !.vacuous = TRUE] \in Row
      BY <2>1 DEF Row
    <2>4. rows' \in [Vector -> Row]
      BY <1>20, <2>2, <2>3 DEF TypeOK, CheckConditional
    <2> QED BY <1>20, <2>4 DEF TypeOK, CheckConditional
  <1>21. CASE Report
    BY <1>21 DEF TypeOK, Report
  <1>22. CASE CloseRun
    BY <1>22 DEF TypeOK, CloseRun
  <1>23. CASE ConditionalRaises
    BY <1>23 DEF TypeOK, ConditionalRaises
  <1> QED
    BY <1>1, <1>2, <1>3, <1>4, <1>5, <1>6, <1>7, <1>8, <1>9, <1>10, <1>11,
       <1>12, <1>14, <1>15, <1>16, <1>17, <1>18, <1>19, <1>20, <1>21, <1>22,
       <1>23
       DEF Next, Steps, Handshake, RowSteps, Binding, Ended

(* The rows of the report and all that the run keeps have their types.     *)
THEOREM RunTypeCorrect == Spec => []TypeOK
  <1> QED BY TypeInit, TypeStep, PTL DEF Spec

-----------------------------------------------------------------------------
(* The invariant behind ClaimSound.                                        *)

After == {"conditional", "report", "closing", "done"}
Status == [v \in Vector |-> rows[v].status]

\* Before the selection there is no row, afterwards only of selected vectors.
RowsSelected ==
    /\ \A v \in Vector : rows[v].status # "out-of-scope" => pc # "hello" /\ Runs(v)
    /\ pc \in {"binding", "cleanup"} => Runs(Current)

\* What went wrong shows in the row, and the row will not be begun again.
FlawShows ==
    \A v \in flawed :
        /\ rows[v].status # "pass"
        /\ \E i \in 1..at :
              Catalog[i] = v /\ (i = at => pc \in {"binding", "cleanup"})

\* A row that passes, and every observation, is of a binding that was loaded.
LoadedFirst ==
    /\ pc = "binding" => loaded
    /\ loaded \/ (/\ diagnostics = {} /\ statuses = {}
                  /\ \A v \in Vector : rows[v].status # "pass")

PairedHeld ==
    pc \in After /\ rows[Paired].status = "pass" =>
        /\ FALSE \notin diagnostics
        /\ \A t \in Triggers \ exercised : rows[t].status # "pass"

ConditionalHeld ==
    pc \in After \ {"conditional"} /\ rows[Conditional].status = "pass" =>
        FALSE \notin statuses

SummaryHeld ==
    IF pc \in {"closing", "done"}
    THEN summary = ScopeSummary(requested, claimed, Status)
    ELSE summary = <<>>

Inv ==
    /\ TypeOK /\ RowsSelected /\ FlawShows /\ LoadedFirst
    /\ PairedHeld /\ ConditionalHeld /\ SummaryHeld

-----------------------------------------------------------------------------
(* A scope that is summarised "pass" required all that it stands for.      *)
LEMMA StandingRequired ==
    ASSUME NEW C \in SUBSET Scope, NEW s \in C,
           s = Render => C \cap L1 # {}
    PROVE  UNION {ScopeMap[p] : p \in {s} \cup Prereq[s]
                                   \cup (IF s = Render THEN C \cap L1 ELSE {})}
               \subseteq RequiredVectors({s}, C)
  <1>1. s \in Scope /\ Prereq[s] \subseteq Scope
    BY ScopesAssumption
  <1>2. {s} \cup Prereq[s] \subseteq PrereqClosure({s})
    BY <1>1 DEF PrereqClosure
  <1>3. PrereqClosure({s}) \subseteq Closure({s}, C)
    BY DEF Closure
  <1>4. ASSUME s = Render
        PROVE  C \cap L1 \subseteq Closure({s}, C)
    <2>1. Render \in PrereqClosure({s})
      BY <1>2, <1>4
    <2>2. RenderL1({s}, C) = C \cap L1
      BY <1>4 DEF RenderL1
    <2> QED BY <2>1, <2>2 DEF Closure
  <1> QED BY <1>2, <1>3, <1>4 DEF RequiredVectors

(* The summary as summarize_scopes makes it is sound for its rows.         *)
LEMMA SummarySound ==
    ASSUME Inv, pc \in {"closing", "done"},
           NEW s \in DOMAIN summary, summary[s] = "pass"
    PROVE  s \in claimed /\ \A v \in Standing(s) : rows[v].status = "pass"
  <1>1. summary = ScopeSummary(requested, claimed, Status)
    BY DEF Inv, SummaryHeld
  <1>2. s \in Considered(requested, claimed)
    BY <1>1 DEF ScopeSummary
  <1>3. ScopeStatus(s, claimed, Status) = "pass"
    BY <1>1, <1>2 DEF ScopeSummary
  <1>4. /\ s \in claimed
        /\ s = Render => claimed \cap L1 # {}
        /\ \A v \in RequiredVectors({s}, claimed) : Status[v] = "pass"
    BY <1>3 DEF ScopeStatus
  <1>5. claimed \in SUBSET Scope
    BY DEF Inv, TypeOK
  <1>6. Standing(s) \subseteq RequiredVectors({s}, claimed)
    BY <1>4, <1>5, StandingRequired DEF Standing
  <1>7. Standing(s) \subseteq Vector
    <2>1. \A p \in {s} \cup Prereq[s] \cup L1 : p \in Scope
      BY <1>4, <1>5, ScopesAssumption
    <2> QED BY <2>1, ScopesAssumption DEF Standing
  <1> QED BY <1>4, <1>6, <1>7 DEF Status

LEMMA InvSound == Inv => ClaimSound
  <1> SUFFICES ASSUME Inv, NEW s \in DOMAIN summary, summary[s] = "pass"
               PROVE  /\ s \in claimed
                      /\ Standing(s) \cap flawed = {}
                      /\ \A v \in Standing(s) : Runs(v)
                      /\ Paired \in Standing(s) =>
                            /\ FALSE \notin diagnostics
                            /\ Triggers \cap Standing(s) \subseteq exercised
                      /\ Conditional \in Standing(s) => FALSE \notin statuses
    BY DEF ClaimSound
  <1>1. pc \in {"closing", "done"}
    <2>1. DOMAIN <<>> = {}
      OBVIOUS
    <2> QED BY <2>1 DEF Inv, SummaryHeld
  <1>2. s \in claimed /\ \A v \in Standing(s) : rows[v].status = "pass"
    BY <1>1, SummarySound
  <1>3. Standing(s) \subseteq Vector
    <2>1. \A p \in {s} \cup Prereq[s] \cup L1 : p \in Scope
      BY <1>2, ScopesAssumption DEF Inv, TypeOK
    <2> QED BY <2>1, ScopesAssumption DEF Standing
  <1>4. Standing(s) \cap flawed = {}
    BY <1>2 DEF Inv, FlawShows
  <1>5. \A v \in Standing(s) : Runs(v)
    BY <1>2, <1>3 DEF Inv, RowsSelected
  <1>6. ASSUME Paired \in Standing(s)
        PROVE  FALSE \notin diagnostics /\ Triggers \cap Standing(s) \subseteq exercised
    <2>1. rows[Paired].status = "pass" /\ pc \in After
      BY <1>1, <1>2, <1>6 DEF After
    <2>2. /\ FALSE \notin diagnostics
          /\ \A t \in Triggers \ exercised : rows[t].status # "pass"
      BY <2>1 DEF Inv, PairedHeld
    <2> QED BY <1>2, <2>2
  <1>7. Conditional \in Standing(s) => FALSE \notin statuses
    BY <1>1, <1>2 DEF Inv, ConditionalHeld, After
  <1> QED BY <1>2, <1>4, <1>5, <1>6, <1>7

-----------------------------------------------------------------------------
(* The invariant holds at first and is kept by every action.               *)

LEMMA InvInit == Init => Inv
  <1> SUFFICES ASSUME Init PROVE Inv
    OBVIOUS
  <1>1. TypeOK
    BY TypeInit
  <1>2. \A v \in Vector : rows[v].status = "out-of-scope"
    BY DEF Init, NewRow
  <1>3. pc = "hello" /\ flawed = {} /\ diagnostics = {} /\ statuses = {}
        /\ summary = <<>>
    BY DEF Init
  <1> QED
    BY <1>1, <1>2, <1>3, BindingsAssumption
       DEF Inv, RowsSelected, FlawShows, LoadedFirst, PairedHeld,
           ConditionalHeld, SummaryHeld, After

(* While the selection and the handshake stand, the selected vectors do.   *)
LEMMA RunsSame ==
    ASSUME UNCHANGED <<options, claimed, helloError>>, NEW v
    PROVE  Runs(v)' = Runs(v)
  BY DEF Runs, InScope, Runnable, Selected, options

(* A step that leaves the rows and all that was seen alone.                *)
LEMMA QuietStep ==
    ASSUME Inv, TypeOK',
           UNCHANGED <<rows, flawed, exercised, diagnostics, statuses, loaded>>,
           UNCHANGED <<options, claimed, helloError>> \/ pc = "hello",
           pc' # "hello",
           \/ at' = at /\ pc \notin {"binding", "cleanup"}
              /\ pc' \notin {"binding", "cleanup"}
           \/ at' = at + 1 /\ pc' = "rows",
           pc' \notin After \/ (pc \in After /\ (pc = "conditional" => pc' = pc))
    PROVE  RowsSelected' /\ FlawShows' /\ LoadedFirst'
           /\ PairedHeld' /\ ConditionalHeld'
  <1>1. RowsSelected'
    <2>1. ASSUME NEW v \in Vector, rows[v].status # "out-of-scope"
          PROVE  Runs(v)'
      BY <2>1, RunsSame DEF Inv, RowsSelected
    <2> QED BY <2>1 DEF RowsSelected
  <1>2. FlawShows'
    <2>1. at \in Nat
      BY AtType DEF Inv
    <2>2. ASSUME NEW v \in flawed
          PROVE  \E i \in 1..at' :
                    Catalog[i] = v /\ (i = at' => pc' \in {"binding", "cleanup"})
      <3>1. PICK i \in 1..at :
               Catalog[i] = v /\ (i = at => pc \in {"binding", "cleanup"})
        BY <2>2 DEF Inv, FlawShows
      <3> QED BY <2>1, <3>1
    <2> QED BY <2>2 DEF Inv, FlawShows
  <1>3. LoadedFirst'
    BY DEF Inv, LoadedFirst
  <1>4. PairedHeld' /\ ConditionalHeld'
    BY DEF Inv, PairedHeld, ConditionalHeld, After
  <1> QED BY <1>1, <1>2, <1>3, <1>4

(* A step that writes the row of the vector at hand, and what it may do.   *)
LEMMA RowStep ==
    ASSUME Inv, TypeOK', at <= Len(Catalog), Runs(Current),
           UNCHANGED <<options, claimed, helloError>>,
           pc \in {"rows", "binding"},
           \/ at' = at /\ pc' \in {"binding", "cleanup"}
           \/ at' = at + 1 /\ pc' = "rows",
           NEW r \in Row, rows' = [rows EXCEPT ![Current] = r],
           flawed' \in {flawed, flawed \cup {Current}},
           Current \in flawed' => r.status # "pass",
           loaded' \/ (UNCHANGED <<loaded, diagnostics, statuses>>
                         /\ r.status # "pass" /\ pc' # "binding")
    PROVE  RowsSelected' /\ FlawShows' /\ LoadedFirst'
           /\ PairedHeld' /\ ConditionalHeld'
  <1>1. Current \in Vector /\ rows'[Current] = r /\ at \in Nat
    <2>1. Current \in Vector /\ at \in 1..Len(Catalog)
      BY CurrentType DEF Inv
    <2>2. at \in Nat /\ rows \in [Vector -> Row]
      BY AtType DEF Inv, TypeOK
    <2> QED BY <2>1, <2>2
  <1>2. \A v \in Vector \ {Current} : rows'[v] = rows[v]
    BY DEF Inv, TypeOK
  <1>3. RowsSelected'
    <2>1. ASSUME NEW v \in Vector, rows'[v].status # "out-of-scope"
          PROVE  Runs(v)'
      <3>1. CASE v = Current
        BY <3>1, RunsSame
      <3>2. CASE v # Current
        BY <1>2, <2>1, <3>2, RunsSame DEF Inv, RowsSelected
      <3> QED BY <3>1, <3>2
    <2>2. at' = at => Current' = Current
      BY DEF Current
    <2>3. at' = at => Runs(Current)'
      BY <2>2, RunsSame
    <2> QED BY <2>1, <2>3 DEF RowsSelected
  <1>4. FlawShows'
    <2> SUFFICES ASSUME NEW v \in flawed'
                 PROVE  /\ rows'[v].status # "pass"
                        /\ \E i \in 1..at' : Catalog[i] = v
                              /\ (i = at' => pc' \in {"binding", "cleanup"})
      BY DEF FlawShows
    <2>1. CASE v = Current
      <3>1. at \in Nat /\ at >= 1 /\ (at' = at \/ at' = at + 1)
        BY AtType DEF Inv
      <3>2. Catalog[at] = Current /\ at \in 1..at'
        BY <3>1 DEF Current
      <3>3. at = at' => pc' \in {"binding", "cleanup"}
        <4>1. at # at + 1
          BY <3>1
        <4> QED BY <4>1, Zenon
      <3>4. rows'[v].status # "pass"
        BY <1>1, <2>1
      <3>5. Catalog[at] = v /\ (at = at' => pc' \in {"binding", "cleanup"})
        BY <2>1, <3>2, <3>3
      <3> HIDE DEF Current
      <3> QED BY <3>2, <3>4, <3>5
    <2>2. CASE v # Current
      <3>1. v \in flawed /\ v \in Vector
        BY <2>2 DEF Inv, TypeOK
      <3>2. PICK i \in 1..at : Catalog[i] = v
        BY <3>1 DEF Inv, FlawShows
      <3>3. i # at
        BY <2>2, <3>2 DEF Current
      <3> QED BY <1>1, <1>2, <2>2, <3>1, <3>2, <3>3 DEF Inv, FlawShows
    <2> QED BY <2>1, <2>2
  <1>5. LoadedFirst'
    BY <1>1, <1>2 DEF Inv, LoadedFirst
  <1>6. PairedHeld' /\ ConditionalHeld'
    BY DEF PairedHeld, ConditionalHeld, After
  <1> QED BY <1>3, <1>4, <1>5, <1>6

(* The steps that touch neither rows nor observations.                     *)
LEMMA QuietActions ==
    ASSUME Inv, TypeOK',
           HelloOk \/ HelloRefused \/ HelloFails \/ HelloRaises \/ Select
               \/ StartMock \/ LeaveOut \/ Cleanup \/ ConditionalRaises
               \/ Report \/ CloseRun
    PROVE  Inv'
  <1> USE DEF hello, observed, session, history
  <1>1. ASSUME pc = "hello", pc' \in {"select", "traceback"},
               UNCHANGED <<rows, at, loaded, observed, summary, history>>
        PROVE  Inv'
    <2>1. /\ RowsSelected' /\ FlawShows' /\ LoadedFirst'
          /\ PairedHeld' /\ ConditionalHeld'
      BY <1>1, QuietStep DEF After
    <2>2. SummaryHeld'
      BY <1>1 DEF Inv, SummaryHeld
    <2> QED BY <2>1, <2>2 DEF Inv
  <1>2. CASE HelloOk \/ HelloRefused \/ HelloFails \/ HelloRaises
    BY <1>1, <1>2 DEF HelloOk, HelloRefused, HelloFails, HelloRaises
  <1>3. ASSUME pc \in {"select", "mock", "rows", "cleanup"},
               pc' \in {"mock", "rows", "usage error"},
               \/ at' = at /\ pc # "cleanup"
               \/ at' = at + 1 /\ pc' = "rows",
               UNCHANGED <<options, claimed, helloError, rows, loaded, observed,
                           summary, flawed>>
        PROVE  Inv'
    <2>1. /\ RowsSelected' /\ FlawShows' /\ LoadedFirst'
          /\ PairedHeld' /\ ConditionalHeld'
      BY <1>3, QuietStep DEF After
    <2>2. SummaryHeld'
      BY <1>3 DEF Inv, SummaryHeld
    <2> QED BY <2>1, <2>2 DEF Inv
  <1>4. CASE Select
    BY <1>3, <1>4 DEF Select
  <1>5. CASE StartMock
    BY <1>3, <1>5 DEF StartMock
  <1>6. CASE LeaveOut
    BY <1>3, <1>6 DEF LeaveOut, AtRow
  <1>7. CASE Cleanup
    BY <1>3, <1>7 DEF Cleanup
  <1>8. ASSUME pc \in {"report", "closing"},
               pc' \in {"closing", "traceback", "done"},
               UNCHANGED <<options, claimed, helloError, rows, at, loaded,
                           observed, flawed>>
        PROVE  /\ RowsSelected' /\ FlawShows' /\ LoadedFirst'
               /\ PairedHeld' /\ ConditionalHeld'
    BY <1>8, QuietStep DEF After
  <1>9. CASE Report
    <2>1. /\ RowsSelected' /\ FlawShows' /\ LoadedFirst'
          /\ PairedHeld' /\ ConditionalHeld'
      BY <1>8, <1>9 DEF Report
    <2>2. SummaryHeld'
      <3>1. CASE sortable
        BY <1>9, <3>1 DEF Report, SummaryHeld, Status, options
      <3>2. CASE ~sortable
        BY <1>9, <3>2 DEF Report, SummaryHeld, Inv
      <3> QED BY <3>1, <3>2
    <2> QED BY <2>1, <2>2 DEF Inv
  <1>10. CASE CloseRun
    <2>1. /\ RowsSelected' /\ FlawShows' /\ LoadedFirst'
          /\ PairedHeld' /\ ConditionalHeld'
      BY <1>8, <1>10 DEF CloseRun
    <2>2. SummaryHeld'
      BY <1>10 DEF CloseRun, SummaryHeld, Status, options, Inv
    <2> QED BY <2>1, <2>2 DEF Inv
  <1>11. CASE ConditionalRaises
    <2>1. /\ RowsSelected' /\ FlawShows' /\ LoadedFirst'
          /\ PairedHeld' /\ ConditionalHeld'
      BY <1>11, QuietStep DEF ConditionalRaises, After
    <2>2. SummaryHeld'
      BY <1>11 DEF ConditionalRaises, Inv, SummaryHeld
    <2> QED BY <2>1, <2>2 DEF Inv
  <1> QED BY <1>2, <1>4, <1>5, <1>6, <1>7, <1>9, <1>10, <1>11

(* The steps that write the row at hand.                                   *)
LEMMA RowActions ==
    ASSUME Inv, TypeOK', NoHandshake \/ Begin \/ Binding
    PROVE  Inv'
  <1> DEFINE Others == RowsSelected' /\ FlawShows' /\ LoadedFirst'
                       /\ PairedHeld' /\ ConditionalHeld'
  <1> USE DEF hello, observed, session, history
  <1>1. SummaryHeld'
    BY DEF Inv, SummaryHeld, NoHandshake, Begin, Binding, AtRow, InCase, Blocked,
           Raises, SendFails, SendSpecError, SendOk, Finish
  <1>2. CASE NoHandshake
    <2>1. NewRow("harness-error") \in Row /\ NewRow("harness-error").status # "pass"
      BY NewRowType DEF Statuses
    <2>2. Others
      BY <1>2, <2>1, RowStep DEF NoHandshake, AtRow
    <2> QED BY <1>1, <2>2 DEF Inv
  <1>3. CASE Begin
    <2>1. NewRow("pass") \in Row
      BY NewRowType DEF Statuses
    <2>2. Current \notin flawed
      <3>1. SUFFICES ASSUME Current \in flawed PROVE FALSE
        OBVIOUS
      <3>2. PICK i \in 1..at :
               Catalog[i] = Current /\ (i = at => pc \in {"binding", "cleanup"})
        BY <3>1 DEF Inv, FlawShows
      <3>3. at \in 1..Len(Catalog) /\ Len(Catalog) \in Nat
        BY <1>3, CurrentType, AtType DEF Begin, AtRow, Inv
      <3>4. i \in DOMAIN Catalog /\ at \in DOMAIN Catalog
        BY <3>3, CatalogAssumption
      <3>5. i = at
        BY <3>2, <3>4, CatalogAssumption DEF Current
      <3> QED BY <1>3, <3>2, <3>5 DEF Begin, AtRow
    <2>3. Others
      BY <1>3, <2>1, <2>2, RowStep DEF Begin, AtRow
    <2> QED BY <1>1, <2>3 DEF Inv
  <1>4. ASSUME pc = "binding"
        PROVE  /\ at <= Len(Catalog) /\ Runs(Current) /\ loaded
               /\ Current \in Vector /\ rows[Current] \in Row
               /\ Current \in flawed => rows[Current].status # "pass"
    BY <1>4, CurrentType DEF Inv, TypeOK, RowsSelected, LoadedFirst, FlawShows
  <1>5. CASE Blocked
    <2>1. NewRow("env-blocked") \in Row /\ NewRow("env-blocked").status # "pass"
      BY NewRowType DEF Statuses
    <2>2. Others
      BY <1>4, <1>5, <2>1, RowStep DEF Blocked, InCase
    <2> QED BY <1>1, <2>2 DEF Inv
  <1>6. CASE Raises
    <2>1. NewRow("harness-error") \in Row /\ NewRow("harness-error").status # "pass"
      BY NewRowType DEF Statuses
    <2>2. Others
      BY <1>4, <1>6, <2>1, RowStep DEF Raises, InCase
    <2> QED BY <1>1, <2>2 DEF Inv
  <1>7. CASE SendFails
    <2>1. PICK s \in {"harness-error", "unsupported"} :
             rows' = [rows EXCEPT ![Current] = SetStatus(@, s)]
      BY <1>7 DEF SendFails
    <2>2. /\ SetStatus(rows[Current], s) \in Row
          /\ SetStatus(rows[Current], s).status # "pass"
      BY <1>4, <1>7, VerdictStays DEF SendFails, InCase, Statuses
    <2>3. rows' = [rows EXCEPT ![Current] = SetStatus(rows[Current], s)]
      BY <1>4, <1>7, <2>1 DEF SendFails, InCase, Inv, TypeOK
    <2>4. Others
      BY <1>4, <1>7, <2>2, <2>3, RowStep DEF SendFails, InCase
    <2> QED BY <1>1, <2>4 DEF Inv
  <1>8. CASE SendSpecError
    <2>1. PICK holds \in BOOLEAN :
             /\ rows' = [rows EXCEPT ![Current] = AddCheck(@, holds)]
             /\ flawed' = IF holds THEN flawed ELSE flawed \cup {Current}
      BY <1>8 DEF SendSpecError
    <2> DEFINE r == AddCheck(rows[Current], holds)
    <2>2. /\ r \in Row
          /\ ~holds => r.status # "pass"
          /\ holds => r.status = rows[Current].status
      BY <1>4, <1>8, CheckShows DEF SendSpecError, InCase
    <2>3. rows' = [rows EXCEPT ![Current] = r]
      BY <1>4, <1>8, <2>1 DEF SendSpecError, InCase, Inv, TypeOK
    <2>4. /\ flawed' \in {flawed, flawed \cup {Current}}
          /\ Current \in flawed' => r.status # "pass"
      <3>1. CASE holds
        BY <1>4, <1>8, <2>1, <2>2, <3>1 DEF SendSpecError, InCase
      <3>2. CASE ~holds
        BY <2>1, <2>2, <3>2
      <3> QED BY <3>1, <3>2
    <2> HIDE DEF r
    <2>5. Others
      BY <1>4, <1>8, <2>2, <2>3, <2>4, RowStep DEF SendSpecError, InCase
    <2> QED BY <1>1, <2>5 DEF Inv
  <1>9. CASE SendOk
    <2>1. PICK check \in {"none", "holds", "mismatch"} :
            /\ rows' = IF check = "none" THEN rows
                       ELSE [rows EXCEPT ![Current] =
                                AddCheck(@, check = "holds")]
            /\ flawed' = IF check = "mismatch" THEN flawed \cup {Current}
                         ELSE flawed
      BY <1>9, Zenon DEF SendOk
    <2> DEFINE r == IF check = "none" THEN rows[Current]
                    ELSE AddCheck(rows[Current], check = "holds")
    <2>2. /\ r \in Row
          /\ check = "mismatch" => r.status # "pass"
          /\ check # "mismatch" => r.status = rows[Current].status
      BY <1>4, <1>9, CheckShows DEF SendOk, InCase
    <2>3. rows' = [rows EXCEPT ![Current] = r]
      BY <1>4, <1>9, <2>1 DEF SendOk, InCase, Inv, TypeOK
    <2>4. /\ flawed' \in {flawed, flawed \cup {Current}}
          /\ Current \in flawed' => r.status # "pass"
      <3>1. CASE check # "mismatch"
        BY <1>4, <1>9, <2>1, <2>2, <3>1 DEF SendOk, InCase
      <3>2. CASE check = "mismatch"
        BY <2>1, <2>2, <3>2
      <3> QED BY <3>1, <3>2
    <2> HIDE DEF r
    <2>5. Others
      BY <1>4, <1>9, <2>2, <2>3, <2>4, RowStep DEF SendOk, InCase
    <2> QED BY <1>1, <2>5 DEF Inv
  <1>10. CASE Finish
    <2>1. /\ SetStatus(rows[Current], "harness-error") \in Row
          /\ SetStatus(rows[Current], "harness-error").status # "pass"
      BY <1>4, <1>10, VerdictStays DEF Finish, Statuses
    <2>2. \/ rows' = rows /\ flawed' = flawed
          \/ /\ rows' = [rows EXCEPT ![Current] =
                             SetStatus(rows[Current], "harness-error")]
             /\ flawed' = flawed \cup {Current}
      BY <1>10 DEF Finish
    <2>3. rows = [rows EXCEPT ![Current] = rows[Current]]
      BY DEF Inv, TypeOK
    <2>4. CASE rows' = rows /\ flawed' = flawed
      <3>1. rows' = [rows EXCEPT ![Current] = rows[Current]]
        BY <2>3, <2>4
      <3>2. pc = "binding"
        BY <1>10 DEF Finish
      <3>3. Others
        BY <1>4, <1>10, <2>4, <3>1, <3>2, RowStep DEF Finish
      <3> QED BY <1>1, <3>3 DEF Inv
    <2>5. CASE /\ rows' = [rows EXCEPT ![Current] =
                             SetStatus(rows[Current], "harness-error")]
               /\ flawed' = flawed \cup {Current}
      <3>1. pc = "binding"
        BY <1>10 DEF Finish
      <3>2. Others
        BY <1>4, <1>10, <2>1, <2>5, <3>1, RowStep DEF Finish
      <3> QED BY <1>1, <3>2 DEF Inv
    <2> QED BY <2>2, <2>4, <2>5
  <1> QED BY <1>2, <1>3, <1>5, <1>6, <1>7, <1>8, <1>9, <1>10 DEF Binding

(* The two checkers.                                                       *)
LEMMA CheckerActions ==
    ASSUME Inv, TypeOK', CheckPaired \/ CheckConditional
    PROVE  Inv'
  <1> USE DEF hello, observed, session, history
  <1>1. SummaryHeld'
    BY DEF Inv, SummaryHeld, CheckPaired, CheckConditional
  <1>2. /\ UNCHANGED <<options, claimed, helloError, at, loaded, flawed>>
        /\ UNCHANGED <<diagnostics, statuses, exercised>>
        /\ pc \in {"rows", "conditional"} /\ pc' \in {"conditional", "report"}
    BY DEF CheckPaired, CheckConditional
  <1>3. /\ \A v \in Vector : rows[v] \in Row
        /\ Paired \in Vector /\ Conditional \in Vector
    BY BindingsAssumption DEF Inv, TypeOK
  <1>4. \/ rows' = rows
        \/ \E c \in {Paired, Conditional}, r \in Row :
              /\ loaded /\ rows[c].status # "out-of-scope"
              /\ rows' = [rows EXCEPT ![c] = r]
              /\ rows[c].status # "pass" => r.status # "pass"
    <2>1. PairedRow(rows[Paired]) \in Row
          /\ (PairedRow(rows[Paired]).status = "pass" => rows[Paired].status = "pass")
      <3>1. AddCheck(rows[Paired], FALSE \notin diagnostics) \in Row
            /\ (AddCheck(rows[Paired], FALSE \notin diagnostics).status = "pass"
                   => rows[Paired].status = "pass")
        BY <1>3, CheckShows
      <3> QED BY <1>3, <3>1, VerdictStays DEF PairedRow, Statuses
    <2>2. CASE CheckPaired
      BY <1>3, <2>1, <2>2 DEF CheckPaired
    <2> DEFINE q == IF statuses = {} THEN [rows[Conditional] EXCEPT !.vacuous = TRUE]
                    ELSE AddCheck(rows[Conditional], FALSE \notin statuses)
    <2>3. q \in Row /\ (q.status = "pass" => rows[Conditional].status = "pass")
      <3>1. AddCheck(rows[Conditional], FALSE \notin statuses) \in Row
            /\ (AddCheck(rows[Conditional], FALSE \notin statuses).status = "pass"
                   => rows[Conditional].status = "pass")
        BY <1>3, CheckShows
      <3>2. [rows[Conditional] EXCEPT !.vacuous = TRUE] \in Row
            /\ [rows[Conditional] EXCEPT !.vacuous = TRUE].status
                  = rows[Conditional].status
        BY <1>3 DEF Row
      <3> QED BY <3>1, <3>2
    <2>4. CASE CheckConditional
      <3>1. rows' = rows \/ (/\ loaded /\ rows[Conditional].status # "out-of-scope"
                            /\ rows' = [rows EXCEPT ![Conditional] = q])
        BY <2>4 DEF CheckConditional
      <3> HIDE DEF q
      <3> QED BY <2>3, <3>1
    <2> QED BY <2>2, <2>4
  <1>5. ASSUME NEW v \in Vector
        PROVE  /\ rows'[v].status = "pass" => rows[v].status = "pass"
               /\ rows[v].status = "out-of-scope" => rows'[v].status = "out-of-scope"
    BY <1>3, <1>4 DEF Inv, TypeOK
  <1>6. RowsSelected'
    <2>1. ASSUME NEW v \in Vector, rows'[v].status # "out-of-scope"
          PROVE  Runs(v)'
      BY <1>2, <1>5, <2>1, RunsSame DEF Inv, RowsSelected
    <2> QED BY <1>2, <2>1 DEF RowsSelected
  <1>7. FlawShows'
    BY <1>2, <1>5, ZenonT(60) DEF Inv, TypeOK, FlawShows
  <1>8. LoadedFirst'
    BY <1>2, <1>5 DEF Inv, LoadedFirst
  <1>9. PairedHeld'
    <2>1. CASE CheckPaired
      <3> SUFFICES ASSUME rows'[Paired].status = "pass"
                   PROVE  /\ FALSE \notin diagnostics
                          /\ \A t \in Triggers \ exercised : rows'[t].status # "pass"
        BY <1>2 DEF PairedHeld
      <3>1. loaded /\ rows[Paired].status = "pass"
        BY <1>2, <1>3, <1>5 DEF Inv, LoadedFirst
      <3>2. rows' = [rows EXCEPT ![Paired] = PairedRow(rows[Paired])]
        BY <2>1, <3>1 DEF CheckPaired
      <3>3. PairedRow(rows[Paired]).status = "pass"
        BY <1>3, <3>2 DEF Inv, TypeOK
      <3>4. FALSE \in diagnostics =>
               /\ AddCheck(rows[Paired], FALSE \notin diagnostics) \in Row
               /\ AddCheck(rows[Paired], FALSE \notin diagnostics).status
                     \notin {"pass", "out-of-scope"}
        BY <1>3, CheckShows
      <3>5. /\ rows[Paired] \in Row
            /\ AddCheck(rows[Paired], FALSE \notin diagnostics) \in Row
        BY <1>3, CheckShows
      <3>6. NotExercised = {}
        BY <3>3, <3>5, VerdictStays DEF PairedRow, Statuses
      <3>7. FALSE \notin diagnostics
        BY <3>3, <3>4, <3>6 DEF PairedRow
      <3>8. ASSUME NEW t \in Triggers \ exercised
            PROVE  rows'[t].status # "pass"
        <4>1. t \in Vector /\ t # Paired
          BY BindingsAssumption
        <4>2. rows[t].status # "pass"
          BY <3>6 DEF NotExercised, Verdicts
        <4> QED BY <1>5, <4>1, <4>2
      <3> QED BY <3>7, <3>8
    <2>2. CASE CheckConditional
      <3>1. \A t \in Triggers : t \in Vector
        BY BindingsAssumption
      <3>2. pc = "conditional"
        BY <2>2 DEF CheckConditional
      <3> QED BY <1>2, <1>3, <1>5, <3>1, <3>2 DEF Inv, PairedHeld, After
    <2> QED BY <2>1, <2>2
  <1>10. ConditionalHeld'
    <2>1. CASE CheckPaired
      BY <2>1 DEF CheckPaired, ConditionalHeld, After
    <2>2. CASE CheckConditional
      <3> SUFFICES ASSUME rows'[Conditional].status = "pass"
                   PROVE  FALSE \notin statuses
        BY <1>2 DEF ConditionalHeld
      <3>1. loaded /\ rows[Conditional].status = "pass"
        BY <1>2, <1>3, <1>5 DEF Inv, LoadedFirst
      <3>2. CASE FALSE \in statuses
        <4>1. rows' = [rows EXCEPT ![Conditional] =
                         AddCheck(rows[Conditional], FALSE \notin statuses)]
          BY <2>2, <3>1, <3>2 DEF CheckConditional
        <4>2. AddCheck(rows[Conditional], FALSE \notin statuses).status # "pass"
          BY <1>3, <3>2, CheckShows
        <4> QED BY <1>3, <4>1, <4>2 DEF Inv, TypeOK
      <3> QED BY <3>2
    <2> QED BY <2>1, <2>2
  <1> QED BY <1>1, <1>6, <1>7, <1>8, <1>9, <1>10 DEF Inv

LEMMA InvStep == Inv /\ [Next]_vars => Inv'
  <1> SUFFICES ASSUME Inv, [Next]_vars PROVE Inv'
    OBVIOUS
  <1>1. TypeOK'
    BY TypeStep DEF Inv
  <1>2. CASE HelloOk \/ HelloRefused \/ HelloFails \/ HelloRaises \/ Select
                 \/ StartMock \/ LeaveOut \/ Cleanup \/ ConditionalRaises
                 \/ Report \/ CloseRun
    BY <1>1, <1>2, QuietActions
  <1>3. CASE NoHandshake \/ Begin \/ Binding
    BY <1>1, <1>3, RowActions
  <1>4. CASE CheckPaired \/ CheckConditional
    BY <1>1, <1>4, CheckerActions
  <1>5. CASE UNCHANGED vars
    <2>1. UNCHANGED <<options, claimed, helloError, pc, rows, at, loaded, flawed>>
          /\ UNCHANGED <<exercised, diagnostics, statuses, summary>>
      BY <1>5 DEF vars, hello, observed, history
    <2>2. RowsSelected'
      <3>1. \A v : Runs(v)' = Runs(v)
        BY <2>1, RunsSame
      <3>2. Current' = Current
        BY <2>1 DEF Current
      <3> QED BY <2>1, <3>1, <3>2 DEF Inv, RowsSelected
    <2>3. FlawShows' /\ LoadedFirst' /\ PairedHeld' /\ ConditionalHeld'
      BY <2>1 DEF Inv, FlawShows, LoadedFirst, PairedHeld, ConditionalHeld
    <2>4. SummaryHeld'
      BY <2>1 DEF Inv, SummaryHeld, Status, options
    <2> QED BY <1>1, <2>2, <2>3, <2>4 DEF Inv
  <1> QED
    BY <1>2, <1>3, <1>4, <1>5 DEF Next, Steps, Handshake, RowSteps, Ended

(* A scope that the report says is passed is passed: whatever the adapter    *)
(* answers, in whichever order things go wrong, no vector the scope stands   *)
(* for was left out or had anything go wrong (report.py, scopes.py, run.py). *)
THEOREM ClaimsAreSound == Spec => []ClaimSound
  <1>1. Spec => []Inv
    BY InvInit, InvStep, PTL DEF Spec
  <1> QED BY <1>1, InvSound, PTL

-----------------------------------------------------------------------------
(* The invariant behind FixtureLifetime.  The vectors before the position of *)
(* the run are settled; the one at hand is not among them, since no vector   *)
(* is listed twice.  Trees are made for the vector at hand alone, and they   *)
(* are all there until its binding is left.                                  *)

Settled == {Catalog[i] : i \in 1..(at - 1)}
AtHand == IF pc \in {"binding", "cleanup"} THEN {Current} ELSE {}
Shown(v) == keep \/ rows[v].status \in {"fail", "harness-error"}

Lifetimes ==
    /\ \A v \in Settled : v \in trees <=> v \in made /\ Shown(v)
    /\ trees \subseteq made
    /\ made \subseteq FixtureVectors \cap (Settled \cup AtHand)
    /\ AtHand \cap made \subseteq trees

LEMMA LifetimesMean == TypeOK /\ Lifetimes => FixtureLifetime
  BY DEF Lifetimes, FixtureLifetime, Settled, Shown

(* The vector at hand is not settled; leaving it settles it.                 *)
LEMMA SettledNext ==
    ASSUME TypeOK, at <= Len(Catalog)
    PROVE  /\ Current \notin Settled
           /\ at' = at + 1 => Settled' = Settled \cup {Current}
  <1>1. at \in Nat /\ at >= 1 /\ Len(Catalog) \in Nat
        /\ DOMAIN Catalog = 1..Len(Catalog)
    BY AtType, CatalogAssumption
  <1>2. ASSUME NEW i \in 1..(at - 1)
        PROVE  Catalog[i] # Catalog[at]
    <2>1. i \in DOMAIN Catalog /\ at \in DOMAIN Catalog /\ i # at
      BY <1>1
    <2> QED BY <2>1, CatalogAssumption
  <1>3. Current \notin Settled
    BY <1>2 DEF Settled, Current
  <1>4. ASSUME at' = at + 1
        PROVE  Settled' = Settled \cup {Current}
    <2>1. 1..(at' - 1) = 1..(at - 1) \cup {at}
      BY <1>1, <1>4
    <2> QED BY <2>1 DEF Settled, Current
  <1> QED BY <1>3, <1>4

LEMMA LifetimesInit == Init => Lifetimes
  <1> SUFFICES ASSUME Init PROVE Lifetimes
    OBVIOUS
  <1>1. trees = {} /\ made = {} /\ 1..(at - 1) = {}
    BY DEF Init
  <1> QED BY <1>1 DEF Lifetimes, Settled

(* A step at one position: it may write the rows of vectors that are not     *)
(* settled, or have no trees, and make trees for the vector at hand.         *)
LEMMA StayStep ==
    ASSUME TypeOK, TypeOK', Lifetimes, at' = at, keep' = keep,
           \A v \in Settled \cap FixtureVectors : rows'[v] = rows[v],
           NEW new \in SUBSET (AtHand \cap FixtureVectors),
           trees' = trees \cup new, made' = made \cup new,
           pc \in {"binding", "cleanup"} => pc' \in {"binding", "cleanup"}
    PROVE  Lifetimes'
  <1>1. Settled' = Settled /\ Current' = Current
    BY DEF Settled, Current
  <1>2. AtHand \subseteq AtHand'
    BY <1>1 DEF AtHand
  <1>3. AtHand' \cap Settled = {}
    <2>1. CASE pc' \in {"binding", "cleanup"}
      <3>1. at <= Len(Catalog)
        BY <2>1 DEF TypeOK
      <3> QED BY <1>1, <3>1, SettledNext DEF AtHand
    <2>2. CASE pc' \notin {"binding", "cleanup"}
      BY <2>2 DEF AtHand
    <2> QED BY <2>1, <2>2
  <1>4. ASSUME NEW v \in Settled
        PROVE  v \in trees' <=> v \in made' /\ Shown(v)'
    <2>1. v \notin new
      BY <1>2, <1>3
    <2>2. v \in made => Shown(v)' = Shown(v)
      BY DEF Lifetimes, Shown
    <2> QED BY <2>1, <2>2 DEF Lifetimes
  <1>5. AtHand' \cap made' \subseteq trees'
    BY <1>3 DEF Lifetimes
  <1>6. made' \subseteq FixtureVectors \cap (Settled' \cup AtHand')
    BY <1>1, <1>2 DEF Lifetimes
  <1> QED BY <1>1, <1>4, <1>5, <1>6 DEF Lifetimes

(* A step to the next position settles the vector at hand, which has no tree *)
(* unless its binding was run.                                               *)
LEMMA NextStep ==
    ASSUME TypeOK, Lifetimes, at <= Len(Catalog), at' = at + 1, keep' = keep,
           pc' = "rows", made' = made,
           \A v \in Settled : rows'[v] = rows[v] /\ (v \in trees' <=> v \in trees),
           trees' \subseteq trees,
           NEW c, c = Current, c \in trees' <=> c \in made /\ Shown(c)'
    PROVE  Lifetimes'
  <1>1. Settled' = Settled \cup {c} /\ c \notin Settled
    BY SettledNext
  <1>2. ASSUME NEW v \in Settled
        PROVE  v \in trees' <=> v \in made' /\ Shown(v)'
    BY DEF Lifetimes, Shown
  <1>3. AtHand' = {} /\ AtHand \subseteq {c}
    BY DEF AtHand
  <1> QED BY <1>1, <1>2, <1>3 DEF Lifetimes

LEMMA LifetimesStep ==
    TypeOK /\ TypeOK' /\ Lifetimes /\ [Next]_vars => Lifetimes'
  <1> SUFFICES ASSUME TypeOK, TypeOK', Lifetimes, [Next]_vars PROVE Lifetimes'
    OBVIOUS
  <1> USE DEF options, history
  \* Steps that write no row and touch no tree.
  <1>1. CASE Handshake \/ Select \/ StartMock \/ ConditionalRaises \/ Report
               \/ CloseRun \/ UNCHANGED vars
    <2>1. /\ UNCHANGED <<at, keep, rows, trees, made>>
          /\ pc \in {"binding", "cleanup"} => pc' \in {"binding", "cleanup"}
      BY <1>1 DEF Handshake, HelloOk, HelloRefused, HelloFails, HelloRaises,
                  Select, StartMock, ConditionalRaises, Report, CloseRun, vars
    <2>2. trees' = trees \cup {} /\ made' = made \cup {}
      BY <2>1
    <2> QED BY <2>1, <2>2, StayStep
  <1>2. CASE CheckPaired \/ CheckConditional
    <2>1. /\ UNCHANGED <<at, keep, trees, made>>
          /\ pc \notin {"binding", "cleanup"}
          /\ \A v \in Vector \ {Paired, Conditional} : rows'[v] = rows[v]
      BY <1>2 DEF CheckPaired, CheckConditional, TypeOK
    <2>2. FixtureVectors \subseteq Vector \ {Paired, Conditional}
      BY BindingsAssumption
    <2>3. trees' = trees \cup {} /\ made' = made \cup {}
      BY <2>1
    <2> QED BY <2>1, <2>2, <2>3, StayStep
  <1>3. ASSUME at <= Len(Catalog),
               rows' = rows \/ \E r : rows' = [rows EXCEPT ![Current] = r]
        PROVE  /\ Current \notin Settled
               /\ \A v \in Settled : rows'[v] = rows[v]
    <2>1. Current \notin Settled
      BY <1>3, SettledNext
    <2>2. Settled \subseteq Vector
      <3>1. \A i \in 1..(at - 1) : i \in DOMAIN Catalog
        BY <1>3, AtType, CatalogAssumption
      <3>2. \A i \in DOMAIN Catalog : Catalog[i] \in Vector
        BY CatalogAssumption
      <3> QED BY <3>1, <3>2 DEF Settled
    <2> QED BY <1>3, <2>1, <2>2 DEF TypeOK
  <1>4. CASE LeaveOut \/ NoHandshake
    <2>1. /\ at <= Len(Catalog) /\ at' = at + 1 /\ pc = "rows" /\ pc' = "rows"
          /\ UNCHANGED <<keep, trees, made>>
          /\ rows' = rows \/ rows' = [rows EXCEPT ![Current] = NewRow("harness-error")]
      BY <1>4 DEF LeaveOut, NoHandshake, AtRow
    <2>2. \A v \in Settled : rows'[v] = rows[v]
      BY <1>3, <2>1
    <2>3. PICK c : c = Current
      OBVIOUS
    <2>4. c \notin made
      BY <1>3, <2>1, <2>3 DEF Lifetimes, AtHand
    <2>5. c \notin trees
      BY <2>4 DEF Lifetimes
    <2> QED BY <2>1, <2>2, <2>3, <2>4, <2>5, NextStep
  <1>5. CASE Begin
    <2>1. /\ at <= Len(Catalog) /\ pc = "rows" /\ at' = at /\ keep' = keep
          /\ rows' = [rows EXCEPT ![Current] = NewRow("pass")]
          /\ trees' = trees \cup {} /\ made' = made \cup {}
      BY <1>5 DEF Begin, AtRow
    <2> QED BY <1>3, <2>1, StayStep
  <1>6. CASE Binding
    <2>1. /\ at <= Len(Catalog) /\ at' = at /\ keep' = keep /\ pc = "binding"
          /\ pc' \in {"binding", "cleanup"}
      BY <1>6 DEF Binding, Blocked, Raises, SendFails, SendSpecError, SendOk,
                  Finish, InCase, TypeOK
    <2>2. rows' = rows \/ \E r : rows' = [rows EXCEPT ![Current] = r]
      <3>1. CASE Blocked \/ Raises
        BY <3>1 DEF Blocked, Raises
      <3>2. CASE SendFails \/ SendSpecError
        BY <3>2 DEF SendFails, SendSpecError
      <3>3. CASE SendOk
        BY <3>3 DEF SendOk
      <3>4. CASE Finish
        BY <3>4 DEF Finish
      <3> QED BY <1>6, <3>1, <3>2, <3>3, <3>4 DEF Binding
    <2>3. \E new \in SUBSET ({Current} \cap FixtureVectors) :
             trees' = trees \cup new /\ made' = made \cup new
      <3>1. CASE Blocked \/ Finish
        <4>1. trees' = trees \cup {} /\ made' = made \cup {}
          BY <3>1 DEF Blocked, Finish
        <4> QED BY <4>1
      <3>2. CASE Raises
        BY <3>2 DEF Raises
      <3>3. CASE SendFails \/ SendSpecError \/ SendOk
        BY <3>3 DEF SendFails, SendSpecError, SendOk, Materialise
      <3> QED BY <1>6, <3>1, <3>2, <3>3 DEF Binding
    <2>4. AtHand = {Current}
      BY <2>1 DEF AtHand
    <2> HIDE DEF Current
    <2>5. PICK new \in SUBSET (AtHand \cap FixtureVectors) :
             trees' = trees \cup new /\ made' = made \cup new
      BY <2>3, <2>4
    <2> QED BY <1>3, <2>1, <2>2, <2>5, StayStep
  <1>7. CASE Cleanup
    <2>1. /\ pc = "cleanup" /\ pc' = "rows" /\ at' = at + 1 /\ rows' = rows
          /\ keep' = keep /\ made' = made /\ at <= Len(Catalog)
          /\ trees' = IF Shown(Current) THEN trees ELSE trees \ {Current}
      BY <1>7 DEF Cleanup, Shown, TypeOK
    <2>2. PICK c : c = Current
      OBVIOUS
    <2>3. c \notin Settled
      BY <1>3, <2>1, <2>2
    <2>4. c \in trees <=> c \in made
      BY <2>1, <2>2 DEF Lifetimes, AtHand
    <2>5. Shown(c)' <=> Shown(c)
      BY <2>1 DEF Shown
    <2>6. trees' = IF Shown(c) THEN trees ELSE trees \ {c}
      BY <2>1, <2>2
    <2>7. c \in trees' <=> c \in made /\ Shown(c)'
      BY <2>4, <2>5, <2>6
    <2>8. trees' \subseteq trees /\ \A v \in Settled : v \in trees' <=> v \in trees
      BY <2>3, <2>6
    <2> QED BY <2>1, <2>2, <2>7, <2>8, NextStep
  <1> QED
    BY <1>1, <1>2, <1>4, <1>5, <1>6, <1>7 DEF Next, Steps, RowSteps, Ended

(* Whichever way a binding ends, by its last case, an exception or a blocked *)
(* environment, the trees of a vector outlive it exactly when the report     *)
(* shows the vector as failed or not judged, or they were to be kept.        *)
THEOREM TreesShown == Spec => []FixtureLifetime
  <1>1. Init => TypeOK /\ Lifetimes
    BY TypeInit, LifetimesInit
  <1>2. TypeOK /\ Lifetimes /\ [Next]_vars => (TypeOK /\ Lifetimes)'
    BY TypeStep, LifetimesStep
  <1>3. TypeOK /\ Lifetimes => FixtureLifetime
    BY LifetimesMean
  <1> QED BY <1>1, <1>2, <1>3, PTL DEF Spec

-----------------------------------------------------------------------------
(* The invariant behind DeadAdapterNoPass: while the session is broken, a    *)
(* row at hand that still passes has had no case yet, so a binding that ends *)
(* with one has none.                                                        *)

Unearned ==
    broken /\ rows[Current].status = "pass" =>
        /\ pc = "binding" => case = 1
        /\ pc = "cleanup" => Cases[Current] = 0

LEMMA UnearnedInit == Init => Unearned
  BY DEF Init, Unearned

LEMMA UnearnedStep == TypeOK /\ Unearned /\ [Next]_vars => Unearned'
  <1> SUFFICES ASSUME TypeOK, Unearned, [Next]_vars PROVE Unearned'
    OBVIOUS
  <1> USE DEF session
  <1>1. ASSUME pc' \notin {"binding", "cleanup"} PROVE Unearned'
    BY <1>1 DEF Unearned
  <1>2. CASE Handshake \/ Select \/ StartMock \/ LeaveOut \/ NoHandshake
               \/ Cleanup \/ CheckPaired \/ CheckConditional
               \/ ConditionalRaises \/ Report \/ CloseRun \/ Ended
    <2>1. pc' \notin {"binding", "cleanup"}
      BY <1>2, Zenon DEF Handshake, HelloOk, HelloRefused, HelloFails, HelloRaises,
                  Select, StartMock, LeaveOut, NoHandshake, AtRow, Cleanup,
                  CheckPaired, CheckConditional, ConditionalRaises, Report,
                  CloseRun, Ended, vars
    <2> QED BY <1>1, <2>1
  <1>3. CASE Begin
    BY <1>3 DEF Begin, Unearned
  <1>4. ASSUME pc = "binding"
        PROVE  /\ at <= Len(Catalog) /\ Current \in Vector
               /\ rows[Current] \in Row /\ Cases[Current] \in Nat
    BY <1>4, CurrentType, CatalogAssumption DEF TypeOK
  <1>5. ASSUME pc = "binding", at' = at, NEW r, rows' = [rows EXCEPT ![Current] = r],
               r.status # "pass"
        PROVE  Unearned'
    <2>1. rows'[Current] = r /\ Current' = Current
      BY <1>4, <1>5 DEF TypeOK, Current
    <2> QED BY <1>5, <2>1 DEF Unearned
  <1>6. CASE Blocked \/ Raises
    <2>1. /\ NewRow("env-blocked").status # "pass"
          /\ NewRow("harness-error").status # "pass"
      BY DEF NewRow
    <2> QED BY <1>5, <1>6, <2>1 DEF Blocked, Raises, InCase
  <1>7. CASE SendFails
    <2>1. PICK s \in {"harness-error", "unsupported"} :
             rows' = [rows EXCEPT ![Current] = SetStatus(@, s)]
      BY <1>7 DEF SendFails
    <2>2. pc = "binding" /\ at' = at
      BY <1>7 DEF SendFails, InCase
    <2>3. SetStatus(rows[Current], s).status # "pass"
      BY <1>4, <2>2, VerdictStays DEF Statuses
    <2>4. rows' = [rows EXCEPT ![Current] = SetStatus(rows[Current], s)]
      BY <1>4, <2>1, <2>2 DEF TypeOK
    <2> QED BY <1>5, <2>2, <2>3, <2>4
  \* An answer is given by a session that works, and leaves it working.
  <1>8. CASE SendSpecError \/ SendOk
    <2>1. ~broken /\ broken' = broken
      BY <1>8 DEF SendSpecError, SendOk
    <2> QED BY <2>1, Zenon DEF Unearned
  <1>9. CASE Finish
    <2>1. /\ pc = "binding" /\ pc' = "cleanup" /\ at' = at /\ broken' = broken
          /\ case > Cases[Current]
      BY <1>9 DEF Finish
    <2>2. CASE rows' = rows
      <3>1. Current' = Current
        BY <2>1 DEF Current
      <3>2. case = 1 => Cases[Current] = 0
        BY <1>4, <2>1
      <3> QED BY <2>1, <2>2, <3>1, <3>2 DEF Unearned
    <2>3. CASE rows' = [rows EXCEPT ![Current] =
                            SetStatus(rows[Current], "harness-error")]
      <3>1. SetStatus(rows[Current], "harness-error").status # "pass"
        BY <1>4, <2>1, VerdictStays DEF Statuses
      <3> QED BY <1>5, <2>1, <2>3, <3>1
    <2> QED BY <1>9, <2>2, <2>3 DEF Finish
  <1>10. CASE UNCHANGED vars
    <2>1. UNCHANGED <<pc, broken, rows, at, case>>
      BY <1>10 DEF vars
    <2>2. Current' = Current
      BY <2>1 DEF Current
    <2> QED BY <2>1, <2>2 DEF Unearned
  <1> QED
    BY <1>2, <1>3, <1>6, <1>7, <1>8, <1>9, <1>10
       DEF Next, Steps, RowSteps, Binding

(* However a binding goes on after the adapter died, in it or long before,   *)
(* its vector passes only if the binding asks the adapter nothing.           *)
THEOREM DeadAdapterEarnsNothing == Spec => DeadAdapterNoPass
  <1>1. TypeOK /\ Unearned /\ [Next]_vars => (TypeOK /\ Unearned)'
    BY TypeStep, UnearnedStep
  <1>2. Init => TypeOK /\ Unearned
    BY TypeInit, UnearnedInit
  <1>3. Unearned =>
          [\A v \in Vector :
              pc = "cleanup" /\ at' = at + 1 /\ Current = v /\ broken
                  /\ rows[v].status = "pass" => Cases[v] = 0]_vars
    BY DEF Unearned
  <1> QED BY <1>1, <1>2, <1>3, PTL DEF Spec, DeadAdapterNoPass
=============================================================================
