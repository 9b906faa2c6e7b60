-------------------------- MODULE ReferenceAdapter --------------------------
(***************************************************************************)
(* The development adapter (conformance/adapters/reference.py): main takes *)
(* a request from stdin, handle passes it to the operation it names, and   *)
(* what the operation returns or raises becomes one line of stdout.  The   *)
(* operations on hooks and installations are done in one step; those that  *)
(* read a body go through the steps of BodyIngest, and fetch_uri, which    *)
(* waits for servers, through those of FetchRedirects.                     *)
(***************************************************************************)
EXTENDS HookInstall, BodyIngest, FetchRedirects

CONSTANTS
    HookSources,    \* inputs of the ingestion of a hook: [map, source, root],
                    \*    a hook or a map of one path for each system
    Selections,     \* inputs of the projections of a hook: [hook, targets]
    Renders,        \* inputs of render: [hook, target, dialect]
    Installs,       \* inputs of evaluate_install: [hook, unresolved, os,
                    \*    provider, row, override]
    Resolves        \* inputs of resolve_install_targets: [name, entry,
                    \*    provider, content_type, os, scope, dirs]

\* Hooks are hooks, and maps of paths have one for each system.  None of the scripts
\* that may be selected is what stands for there being none.
ASSUME InputsAssumption ==
    /\ \A i \in HookSources : i.source \in IF i.map THEN PathMap ELSE RawHook
    /\ \A i \in Installs :
          /\ i.unresolved \in BOOLEAN /\ i.hook.blocking \in BOOLEAN
          /\ i.hook.handlers \in Seq(ToSet(i.hook.handlers))
          /\ \A handler \in ToSet(i.hook.handlers) :
                /\ handler.scripts \in Seq(ToSet(handler.scripts))
                /\ NoScript \notin ToSet(handler.scripts)
    /\ \A i \in Resolves : i.entry \in Seq(InstallRow)

VARIABLES
    op,         \* the operation of the request in hand, or "none"
    inp,        \* its input, where it is neither a body nor a URL
    reply       \* what is written next: [kind, says, result]

vars == <<op, inp, reply, bodyVars, fetchVars>>

Nobody   == [none |-> TRUE]
NoReply  == [kind |-> "none", says |-> "none", result |-> Nobody]
Operations ==
    {"hello", "ingest hook", "ingest body", "fetch_uri", "script_selection", "os_coverage",
     "render", "evaluate_install", "resolve_install_targets", "none of these"}

Init ==
    /\ BodyInit /\ FetchInit
    /\ op = "none" /\ inp = Nobody /\ reply = NoReply

-----------------------------------------------------------------------------
(* The reply to what an operation raises ("none" where it returns).          *)

\* _ConformanceFalse: a verdict about the item is a result, not an error.
Verdict == {"acif.envelope.forbidden_field", "acif.envelope.kind_invalid",
            "acif.envelope.id_invalid", "acif.envelope.version_invalid"}

Reply(raised, result) ==
    CASE raised \in {"none", "ok"} ->
            [kind |-> "ok", says |-> "none", result |-> result]
      [] raised = "unsupported" ->
            [kind |-> "unsupported", says |-> "none", result |-> Nobody]
      [] raised \in Verdict ->
            [kind |-> "not conformant", says |-> raised, result |-> Nobody]
      [] raised \notin {"none", "ok", "unsupported"} \cup Verdict ->
            [kind |-> "error", says |-> raised, result |-> Nobody]

Do(operation, input, raised, result) ==
    /\ op = "none"
    /\ op' = operation /\ inp' = input /\ reply' = Reply(raised, result)
    /\ UNCHANGED <<bodyVars, fetchVars>>

Hello == Do("hello", Nobody, "none", Nobody)
NoSuchOperation == Do("none of these", Nobody, "unsupported", Nobody)

IngestHook(i) ==
    LET hook   == _hook_source(i)
        raised == HookError(hook, i.root)
    IN  Do("ingest hook", i, raised,
           IF raised # "none" THEN Nobody
           ELSE [canonical |-> canonical_hook(hook),
                 body_hash |-> sidecar_only_body_hash(hook, i.root)])

ScriptSelection(i) ==
    LET raised == IF NoFirstHandler(i.hook) THEN "unsupported" ELSE "none"
    IN  Do("script_selection", i, raised,
           IF raised # "none" THEN Nobody
           ELSE [selection |-> _script_selection(i.hook, i.targets)])

OsCoverage(i) ==
    LET raised == IF NoFirstHandler(i.hook) THEN "unsupported" ELSE "none"
    IN  Do("os_coverage", i, raised,
           IF raised # "none" THEN Nobody ELSE _os_coverage(i.hook))

Render(i) ==
    Do("render", i, RenderError(i),
       IF RenderError(i) # "none" THEN Nobody ELSE render(i))

EvaluateInstall(i) ==
    Do("evaluate_install", i, InstallError(i),
       IF InstallError(i) # "none" THEN Nobody ELSE evaluate_install(i))

ResolveInstallTargets(i) ==
    Do("resolve_install_targets", i, TargetsError(i),
       IF TargetsError(i) # "none" THEN Nobody ELSE resolve_install_targets(i))

IngestBody ==
    /\ op = "none" /\ op' = "ingest body"
    /\ BodyBegin /\ UNCHANGED <<inp, reply, fetchVars>>

Body ==
    /\ op = "ingest body" /\ reply = NoReply
    /\ BodyStep /\ UNCHANGED <<op, inp, reply, fetchVars>>

BodyDone ==
    /\ op = "ingest body" /\ reply = NoReply /\ stage = "done"
    /\ reply' = Reply(verdict, [section |-> section, body |-> body])
    /\ UNCHANGED <<op, inp, bodyVars, fetchVars>>

FetchUri ==
    /\ op = "none" /\ op' = "fetch_uri"
    /\ FetchBegin /\ UNCHANGED <<inp, reply, bodyVars>>

Fetch ==
    /\ op = "fetch_uri" /\ reply = NoReply
    /\ FetchStep /\ UNCHANGED <<op, inp, reply, bodyVars>>

FetchDone ==
    /\ op = "fetch_uri" /\ reply = NoReply /\ fetch = "done"
    /\ reply' = Reply(outcome, [source_uri |-> recorded])
    /\ UNCHANGED <<op, inp, bodyVars, fetchVars>>

\* emit; nothing is kept for the next request.
Emit ==
    /\ reply # NoReply
    /\ op' = "none" /\ inp' = Nobody /\ reply' = NoReply
    /\ IF op = "ingest body" THEN Collect ELSE UNCHANGED bodyVars
    /\ IF op = "fetch_uri" THEN FetchReturn ELSE UNCHANGED fetchVars

Next ==
    \/ Hello \/ NoSuchOperation
    \/ \E i \in HookSources : IngestHook(i)
    \/ \E i \in Selections : ScriptSelection(i) \/ OsCoverage(i)
    \/ \E i \in Renders : Render(i)
    \/ \E i \in Installs : EvaluateInstall(i)
    \/ \E i \in Resolves : ResolveInstallTargets(i)
    \/ IngestBody \/ Body \/ BodyDone
    \/ FetchUri \/ Fetch \/ FetchDone
    \/ Emit

Spec == Init /\ [][Next]_vars

-----------------------------------------------------------------------------
(* Properties.  What BodyIngest promises of a body and FetchRedirects of a   *)
(* URL holds here as well.                                                   *)

Answered(operation) == op = operation /\ reply.kind = "ok"

AdapterTypeOK ==
    /\ BodyTypeOK /\ FetchTypeOK
    /\ op \in Operations \cup {"none"}
    /\ reply.kind \in {"none", "ok", "unsupported", "not conformant", "error"}
    /\ (op # "ingest body") => stage = "idle"
    /\ (op # "fetch_uri") => fetch = "idle"
    /\ (op = "none") => inp = Nobody /\ reply = NoReply
    /\ (op \notin {"none", "ingest body", "fetch_uri"}) => reply # NoReply
    /\ reply.kind # "ok" => reply.result = Nobody

(* Hook specification 7.3 and 9.3: "`scripts` within a handler - order not    *)
(* significant" (spec.md:274).  What is ingested is the same for every order *)
(* in which the source lists its scripts, the body hash too unless two paths *)
(* have one normal form; and no handler runs another script on any system    *)
(* than the one the source meant, where it meant just one.  Of a map with    *)
(* one path for each system, a system runs its own path unless the base      *)
(* entry names it too, and where it has none, the base entry: the command    *)
(* with all that "opaque passthrough carried on the base entry" lays over it *)
(* (spec.md:206), if that leaves the entry open to the system.               *)
Turned(hook) ==
    LET Back(handler) == [handler EXCEPT !.scripts = Reverse(@)]
    IN  [hook EXCEPT !.handlers = [h \in DOMAIN @ |-> Back(@[h])]]
Collides(hook) ==
    \E p, q \in ToSet(RefPaths(hook)) : p # q /\ NFC(p) = NFC(q)
Candidates(scripts, os) ==
    LET own == {s \in DOMAIN scripts : os \in Tags(scripts[s])}
    IN  IF own # {} THEN own ELSE {s \in DOMAIN scripts : scripts[s].os.kind = "none"}

MapKept(source, kept) ==
    \A os \in ToSet(Systems) :
        LET own  == source.path[os]
            base == DefaultScript(source)
            Named == source.command # NoPath /\ os \in Tags(base)
            Open  == source.command # NoPath /\ base.os.kind = "none"
            selected == _select_script(kept, os)
        IN  /\ (own # NoPath /\ ~Named) => selected.type = "file" /\ selected.path = own
            /\ own = NoPath =>
                  selected = IF Named \/ Open THEN canonicalize_script(base) ELSE NoScript

ScriptsKept ==
    Answered("ingest hook") =>
        LET hook   == _hook_source(inp)
            turned == Turned(hook)
            kept   == reply.result.canonical.handlers
        IN  /\ canonical_hook(turned) = reply.result.canonical
            /\ ~Collides(hook) =>
                  sidecar_only_body_hash(turned, inp.root) = reply.result.body_hash
            /\ \A h \in DOMAIN kept, os \in ToSet(Systems) :
                  \A s \in Candidates(hook.handlers[h].scripts, os) :
                     Candidates(hook.handlers[h].scripts, os) = {s} =>
                        _select_script(kept[h].scripts, os) =
                            canonicalize_script(hook.handlers[h].scripts[s])
            /\ inp.map => MapKept(inp.source, kept[1].scripts)

(* Hook specification A.3 and A.4: a hook that is rendered without a         *)
(* diagnostic is ingested again as a hook on the same event, whatever names  *)
(* other providers have.  A native name that belongs to several events is    *)
(* read as the one A.3 gives it.                                             *)
RenderBack ==
    (Answered("render") /\ inp.target \in HOOK_PROVIDERS /\ ~reply.result.event.degraded) =>
        LET name == reply.result.event.name
        IN  EventOf(name) =
              IF name \in DOMAIN PinnedEvents THEN PinnedEvents[name]
              ELSE EventOf(inp.hook.event)

(* Hook specification 11: "a gate" must not be installed "where it silently  *)
(* never fires" (spec.md:348).  A hook that blocks is installed only if some *)
(* script of it runs on the system and its event fires at the provider, or   *)
(* the operator has answered for the event, which does not answer for the    *)
(* script; and every gap on either axis is disclosed, by what was done about *)
(* it, also when the other one decides.                                      *)
DisclosedInstall ==
    (Answered("evaluate_install") /\ ~inp.unresolved) =>
        LET answer == reply.result
            Gap    == /\ inp.os # "none"
                      /\ \A s \in DOMAIN inp.hook.handlers[1].scripts :
                            LET script == inp.hook.handlers[1].scripts[s]
                            IN  script.os.kind # "none" /\ inp.os \notin Tags(script)
            Silent == inp.provider # "none" /\ Unsure(inp)
        IN  /\ (inp.hook.blocking /\ answer.install = "proceed") =>
                   ~Gap /\ (Silent => inp.override)
            /\ answer.no_match <=> Gap
            /\ answer.event \in IF ~Silent THEN {"none"}
                                 ELSE IF answer.install = "proceed"
                                 THEN {"proceeded", "overridden"}
                                 ELSE {"refused", "overridden"}
            /\ answer.event = "proceeded" => ~inp.hook.blocking
            /\ answer.install # "proceed" =>
                   inp.hook.blocking /\ (Gap \/ answer.event = "refused" \/ Unmatched(inp))

(* Install specification 6 and 11: "the first current row for a scope is the *)
(* write target" (install-entry-points.yaml:30), of the rows of the system   *)
(* and the scope asked for and not of those before; a scope with superseded  *)
(* rows only is disclosed and gets none.                                     *)
Usable ==
    {i \in DOMAIN Given(inp) :
        /\ Given(inp)[i].os = {} \/ inp.os \in Given(inp)[i].os
        /\ inp.scope \in {"none", Given(inp)[i].scope}}
OneWriteTarget ==
    Answered("resolve_install_targets") =>
        LET targets == reply.result.targets
            Writes(i) == targets[i].write_target
            Current(scope) ==
                {i \in Usable : Given(inp)[i].scope = scope /\ Given(inp)[i].status = "current"}
        IN  /\ DOMAIN targets = Usable
            /\ \A i \in Usable : targets[i].row = Given(inp)[i]
            /\ \A scope \in Scope :
                  LET written == {i \in Usable : Writes(i) /\ targets[i].row.scope = scope}
                  IN  IF Current(scope) = {}
                      THEN /\ written = {}
                           /\ scope \in reply.result.superseded <=>
                                  \E i \in Usable : Given(inp)[i].scope = scope
                      ELSE /\ scope \notin reply.result.superseded
                           /\ \E i \in Current(scope) :
                                 written = {i} /\ \A j \in Current(scope) : i <= j
=============================================================================
