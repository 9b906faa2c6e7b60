-------------------------- MODULE MCConformanceRun --------------------------
(***************************************************************************)
(* A catalog of five vectors, one of each sort the runner treats apart:    *)
(*   c  core, two cases with file trees     (like TV-14)                   *)
(*   m  rule, a trigger that ingests a tree, then renders    (TV-RULE-m)   *)
(*   r  render, the paired invariant, sends nothing          (TV-RENDER-c) *)
(*   t  registry, one fetch from the mock authority          (TV-URI-l)    *)
(*   u  registry, the conditional invariant, sends nothing   (TV-URI-u)    *)
(* and the four scopes that own them.                                      *)
(***************************************************************************)
EXTENDS ConformanceRun

MCScope  == {"core", "rule", "render", "registry"}
MCL1     == {"rule"}
MCPrereq == [s \in MCScope |-> IF s = "core" THEN {} ELSE {"core"}]
MCVector == {"c", "m", "r", "t", "u"}
MCScopeMap ==
    [s \in MCScope |->
        CASE s = "core" -> {"c"} [] s = "rule" -> {"m"}
          [] s = "render" -> {"r"} [] s = "registry" -> {"t", "u"}]

MCCatalog == <<"c", "m", "r", "t", "u">>
MCCases ==
    [v \in MCVector |-> CASE v \in {"c", "m"} -> 2 [] v = "t" -> 1 [] OTHER -> 0]

MCRequests == {{}, {"render"}, {"registry"}}
MCClaims   == {{"core"}, {"render"}, {"rule", "render"}, {"core", "registry"},
               {"rule", "render", "registry"}}
MCOnlys    == {{}, {"r"}, {"t", "nobody"}}
=============================================================================
