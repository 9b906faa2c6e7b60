---------------------------- MODULE VectorResult ----------------------------
(***************************************************************************)
(* The row of one vector (VectorResult in conformance/runner/report.py):   *)
(* its status, and what add_check and set_status do to it.                 *)
(***************************************************************************)
EXTENDS Naturals

Statuses == {"pass", "fail", "unsupported", "out-of-scope", "env-blocked",
             "harness-error"}

Row == [status : Statuses, checked : BOOLEAN, vacuous : BOOLEAN]
NewRow(s) == [status |-> s, checked |-> FALSE, vacuous |-> FALSE]

\* Mutant: a failed check outweighs a broken adapter.
Priority_FailWorst ==
    [s \in Statuses |->
        CASE s = "unsupported"   -> 1
          [] s = "env-blocked"   -> 2
          [] s = "fail"          -> 4
          [] s = "harness-error" -> 3
          [] OTHER               -> 0]

Priority ==
    [s \in Statuses |->
        CASE s = "unsupported"   -> 1
          [] s = "env-blocked"   -> 2
          [] s = "fail"          -> 3
          [] s = "harness-error" -> 4
          [] OTHER               -> 0]

\* set_status: the worst verdict so far stays.
SetStatus(r, s) ==
    IF Priority[s] >= Priority[r.status] THEN [r EXCEPT !.status = s] ELSE r

\* Mutant: every check decides again.
AddCheck_LastWins(r, holds) ==
    [r EXCEPT !.checked = TRUE, !.status = IF holds THEN "pass" ELSE "fail"]

AddCheck(r, holds) ==
    LET c == [r EXCEPT !.checked = TRUE]
    IN  IF holds THEN c ELSE SetStatus(c, "fail")
=============================================================================
