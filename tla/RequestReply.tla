---------------------------- MODULE RequestReply ----------------------------
(***************************************************************************)
(* What AdapterSession.request (conformance/runner/protocol.py) promises   *)
(* its callers, run.py, differential.py and the bindings: a call always    *)
(* returns; it returns the answer to this very call or a failure; and a    *)
(* failure of the transport is for ever, so that a late or leftover line   *)
(* is never taken for the answer to a later call.                          *)
(***************************************************************************)
EXTENDS Naturals

VARIABLES
    phase,     \* "new", "idle", "busy" or "closed"
    calls,     \* calls made so far
    outcome,   \* how the last call ended: "none", "own" or "failure"
    broken     \* the transport has failed

vars == <<phase, calls, outcome, broken>>

Init == phase = "new" /\ calls = 0 /\ outcome = "none" /\ broken = FALSE

Open  == phase = "new" /\ phase' = "idle" /\ UNCHANGED <<calls, outcome, broken>>
Close ==
    /\ phase \in {"new", "idle"} /\ phase' = "closed"
    /\ UNCHANGED <<calls, outcome, broken>>

Call ==
    /\ phase = "idle"
    /\ phase' = "busy" /\ calls' = calls + 1
    /\ UNCHANGED <<outcome, broken>>

\* Refused before anything is sent: too large, or the process has exited.
Refuse ==
    /\ phase = "idle"
    /\ calls' = calls + 1 /\ outcome' = "failure"
    /\ broken' \in {broken, TRUE}
    /\ UNCHANGED phase

Answer ==
    /\ phase = "busy" /\ ~broken
    /\ phase' = "idle" /\ outcome' = "own"
    /\ UNCHANGED <<calls, broken>>

Fail ==
    /\ phase = "busy"
    /\ phase' = "idle" /\ outcome' = "failure" /\ broken' = TRUE
    /\ UNCHANGED calls

Next == Open \/ Close \/ Call \/ Refuse \/ Answer \/ Fail

Spec == Init /\ [][Next]_vars /\ WF_vars(Answer \/ Fail)
=============================================================================
