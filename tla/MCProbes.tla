------------------------------ MODULE MCProbes ------------------------------
(***************************************************************************)
(* Every binding of the suite, each vector with adapters that err up to    *)
(* twice in it, and the exceptions to what the bindings otherwise promise. *)
(***************************************************************************)
EXTENDS Probes, BindingsCore, BindingsHook, BindingsKinds, BindingsRegistry

Suite ==
    CoreBindings @@ HookBindings @@ PlatformBindings @@ SkillBindings
    @@ RuleBindings @@ CommandBindings @@ AgentBindings @@ McpBindings
    @@ RegistryBindings @@ RenderBindings @@ InstallBindings

MCBody == Suite
MCInvariant == {"TV-RENDER-c", "TV-URI-u"}

\* A spec error on one of these legs skips the relation the leg is for, or no
\* assertion looks at the leg; for TV-SKILL-j it is a missing field.
MCUnjudged ==
    {<<"TV-L2-b", "edit">>, <<"TV-HOOK-h", "explicit">>,
     <<"TV-PLATFORM-q", "passthrough">>, <<"TV-PLATFORM-r", "rendered">>,
     <<"TV-SKILL-h", "declared">>, <<"TV-SKILL-j", "skill">>,
     <<"TV-RULE-a", "declared">>, <<"TV-COMMAND-e", "files">>,
     <<"TV-COMMAND-m", "files">>, <<"TV-FRESH-c", "reachable">>,
     <<"TV-FRESH-j", "crawl_1">>}

\* These look at the answers themselves: they take a declined request for a
\* false value or an absent field, or go on with its missing output, and add
\* a failed check.
MCBlaming ==
    {"TV-PLATFORM-m", "TV-PLATFORM-r", "TV-SKILL-g", "TV-RULE-k",
     "TV-COMMAND-a", "TV-COMMAND-b", "TV-COMMAND-d", "TV-COMMAND-e",
     "TV-COMMAND-f", "TV-COMMAND-g", "TV-COMMAND-m", "TV-AGENT-h",
     "TV-AGENT-k", "TV-MCP-l", "TV-URI-r", "TV-URI-s", "TV-RENDER-b",
     "TV-RENDER-d"}

\* These record no check on some path, or raise on an unhashable value.
MCMisfiled ==
    {"TV-1", "TV-2", "TV-HOOK-g", "TV-SKILL-k", "TV-RULE-l", "TV-AGENT-h",
     "TV-AGENT-i", "TV-MCP-k", "TV-MCP-k2", "TV-MCP-l", "TV-URI-s",
     "TV-RENDER-a"}
=============================================================================
