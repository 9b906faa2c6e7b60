------------------------- MODULE MCDifferentialRun -------------------------
(***************************************************************************)
(* Three trials: a body, a hook mechanism, whose diagnostics are compared, *)
(* and a body, over adapters that claim core, or hook with its             *)
(* prerequisite, or nothing at all.                                        *)
(***************************************************************************)
EXTENDS DifferentialRun

MCScope    == {"core", "hook", "render"}
MCPrereq   == [s \in MCScope |-> IF s = "core" THEN {} ELSE {"core"}]
MCScopeMap == [s \in MCScope |-> {}]
MCFamily   == {"body", "hook_mechanism"}
MCFamilyScope ==
    [f \in MCFamily |-> IF f = "body" THEN "core" ELSE "hook"]
MCTrials == <<"body", "hook_mechanism", "body">>
MCClaims == {{}, {"core"}, {"hook"}}
=============================================================================
