---------------------------- MODULE HookInstall ----------------------------
(***************************************************************************)
(* What an installation does with a hook (adapters/reference.py:           *)
(* handle_evaluate_install, _event_install_disposition) and the names it   *)
(* is written under (handle_render).                                       *)
(***************************************************************************)
EXTENDS HookWiring, InstallTargets

UNRESOLVED_INSTALL == "refuse-unless-operator-opt-in"

(* The row of the matrix that the request names by scope and template.       *)
HookRows(provider) ==
    IF <<provider, "hook">> \in DOMAIN install_entry_points
    THEN install_entry_points[<<provider, "hook">>] ELSE <<>>
RowsNamed(inp) ==
    {i \in DOMAIN HookRows(inp.provider) :
        /\ HookRows(inp.provider)[i].scope = inp.row.scope
        /\ HookRows(inp.provider)[i].template = inp.row.template}
HasRow(inp) == inp.row.scope # "none"
Row(inp) == HookRows(inp.provider)[CHOOSE i \in RowsNamed(inp) : TRUE]
DialectOf(inp) == IF HasRow(inp) THEN Row(inp).dialect ELSE "none"

NoLocation(inp) ==  \* no such row, several, or none on this system
    /\ HasRow(inp)
    /\ \/ Cardinality(RowsNamed(inp)) # 1
       \/ inp.os # "none" /\ Row(inp).os # {} /\ inp.os \notin Row(inp).os

\* Whether the hook may be written under a name that never fires.
Degraded(inp) ==
    render_hook_event(inp.hook.event, inp.provider,
                      hook_render_dialect(inp.provider, DialectOf(inp))).degraded
Unsure(inp) ==
    Degraded(inp) \/ (inp.hook.blocking /\ Unsurveyed(inp.hook.event, inp.provider))

_event_install_disposition(inp) ==
    IF ~Unsure(inp) THEN "none"
    ELSE IF ~inp.hook.blocking THEN "proceeded"
    ELSE IF inp.override THEN "overridden"
    ELSE "refused"

\* A selection that reads "none" is taken for there being none.
Unmatched(inp) ==
    inp.os # "none" /\ Shown(_script_selection(inp.hook, {inp.os})[inp.os]) = <<"none">>

InstallError(inp) ==
    IF inp.unresolved THEN "none"
    ELSE IF inp.os = "none" /\ inp.provider = "none" THEN "unsupported"
    ELSE IF inp.os # "none" /\ NoFirstHandler(inp.hook) THEN "unsupported"
    ELSE IF inp.provider = "none" THEN "none"
    ELSE IF NoLocation(inp) \/ Undefined(inp.provider, DialectOf(inp)) THEN "unsupported"
    ELSE "none"

\* The event's disposition takes the place of the script's only where it refuses.
Install_LastAxis(inp, event) ==
    IF \/ event = "refused"
       \/ inp.provider = "none" /\ Unmatched(inp) /\ inp.hook.blocking
    THEN UNRESOLVED_INSTALL ELSE "proceed"
Install(inp, event) ==
    IF event = "refused" \/ (Unmatched(inp) /\ inp.hook.blocking)
    THEN UNRESOLVED_INSTALL ELSE "proceed"

evaluate_install(inp) ==
    IF inp.unresolved
    THEN [install |-> UNRESOLVED_INSTALL, no_match |-> FALSE, event |-> "none"]
    ELSE LET event == IF inp.provider = "none" THEN "none"
                      ELSE _event_install_disposition(inp)
         IN  [install |-> Install(inp, event), 
              no_match |-> inp.os # "none"
                  /\ _script_selection(inp.hook, {inp.os})[inp.os] = NoScript,
              event |-> event]

-----------------------------------------------------------------------------
(* handle_render of a hook: the event's name, and the path of the last       *)
(* default script as its command.                                            *)

RenderError(inp) ==
    IF NoFirstHandler(inp.hook) \/ Undefined(inp.target, inp.dialect)
    THEN "unsupported" ELSE "none"

Commands(hook) ==
    SelectSeq(hook.handlers[1].scripts,
              LAMBDA script : script.os.kind = "none" /\ script.path # NoPath)
render(inp) ==
    [event |-> render_hook_event(inp.hook.event, inp.target,
                                 hook_render_dialect(inp.target, inp.dialect)),
     command |-> IF Commands(inp.hook) = <<>> THEN NoScript
                 ELSE Last(Commands(inp.hook))]
=============================================================================
