------------------------- MODULE MCReferenceAdapter -------------------------
(***************************************************************************)
(* The development adapter on small inputs: bodies of the entry file and   *)
(* up to three others of every kind that the walk, the rejects and the     *)
(* hash tell apart; frontmatter of every kind; an excerpt of A.1 and A.4   *)
(* with each sort of row; hooks of up to three scripts; and a matrix with  *)
(* two dialects, two systems, superseded rows and a row that is listed     *)
(* twice.                                                                  *)
(***************************************************************************)
EXTENDS ReferenceAdapter, MCFetchRedirects

D == "---"
MCVcs == {".git", ".hg"}
MCSidecars == {"acif-sidecar.yaml"}
MCNotices == {"README.md", "README-1", "README-2"}
MCTextNames == {"SKILL.md", "README.md", "acif-sidecar.yaml", "e1", "e2", "run.sh"}
MCComposed == "e2" :> "e1" @@ "README-2" :> "README-1"
MCEntry == <<"SKILL.md">>

(* Bodies, from what may be at a path.                                       *)
At(rel, is, data) == [rel |-> rel, is |-> is, data |-> data]
Pieces == {
    At(<<"README.md">>, "file", <<"BOM", "x">>),
    At(<<"acif-sidecar.yaml">>, "file", <<"x">>),
    At(<<"a", "acif-sidecar.yaml">>, "file", <<"x", "CR", "LF", "CR">>),
    At(<<"a", "e1">>, "file", <<"CR", "x", "NUL">>),
    At(<<"a", "e2">>, "file", <<"CR", "NUL">>),
    At(<<"README-1">>, "file", <<"x">>), At(<<"README-2">>, "file", <<"x">>),
    At(<<"control">>, "file", <<"x">>), At(<<"bytes", "x">>, "file", <<"BOM", "x">>),
    At(<<".git">>, "file", <<"x">>), At(<<".git", "l">>, "link", <<>>),
    At(<<"a", ".hg">>, "link to a directory", <<>>), At(<<"a", "l">>, "link", <<>>),
    At(<<"l">>, "link to a directory", <<>>), At(<<"a", "k">>, "locked", <<"x">>),
    At(<<"shut", "x">>, "file", <<"x">>) }

Below(p, q) == Len(p) < Len(q) /\ p = SubSeq(q, 1, Len(p))
Together(Q) == \A p, q \in Q : p # q => p.rel # q.rel /\ ~Below(p.rel, q.rel)
Rels(Q, is) == {q.rel : q \in {p \in Q : p.is \in is}}
PieceAt(Q, rel) == CHOOSE q \in Q : q.rel = rel
TreeOf(Q) ==
    [dirs   |-> {<<>>} \cup {Front(q.rel) : q \in Q},
     closed |-> {<<"shut">>} \cap {Front(q.rel) : q \in Q},
     files  |-> [rel \in Rels(Q, {"file", "locked"}) |-> PieceAt(Q, rel).data],
     locked |-> Rels(Q, {"locked"}),
     links  |-> [rel \in Rels(Q, {"link", "link to a directory"}) |->
                    IF PieceAt(Q, rel).is = "link" THEN "file" ELSE "dir"]]

EntryOf(datas) == {At(MCEntry, "file", data) : data \in datas}
Usual == <<"BOM", D, "LF", "ok", "CR", "LF", D, "CR", "x">>
Shapes == {
    Usual, <<>>, <<"x">>, <<D>>, <<D, "LF">>, <<D, "LF", D>>,
    <<D, "CR", "LF", "ok", "LF", D>>, <<D, "LF", D, "LF", D, "LF", "x">>,
    <<D, "LF", "RAW", "LF", D, "LF">>, <<D, "LF", "ok", "LF", D, "LF", "RAW">>,
    <<D, "LF", "ok", "LF", "ok", "LF", D, "LF">>, <<D, "LF", "ok", "LF", D, "x">>,
    <<D, "x", "LF", "ok", "LF", D>> }

(* Frontmatter.                                                              *)
Map(keys) ==
    [clean |-> TRUE, events |-> <<"start", "scalar", "end">>, wellFormed |-> TRUE,
     value |-> [map |-> TRUE, keys |-> keys]]
Parsed(events) == [Map(<<>>) EXCEPT !.events = events]
YamlWords ==
    "ok" :> Map("name" :> "text" @@ "kind" :> "skill" @@ "license" :> "text")
    @@ "agent" :> Map("kind" :> "agent" @@ "tools" :> "a list of more than strings")
    @@ "hook" :> Map("kind" :> "hook")
    @@ "no kind" :> Map("kind" :> "text" @@ "id" :> "text")
    @@ "nulls" :> Map("kind" :> "null" @@ "id" :> "null" @@ "effective_version" :> "null")
    @@ "forbidden" :> Map("kind" :> "text" @@ "effective_version" :> "text")
    @@ "bad version" :> Map("id" :> "a UUID" @@ "version" :> "text" @@ "license" :> "map")
    @@ "bad id" :> Map("id" :> "text" @@ "version" :> "a version")
    @@ "good" :> Map("id" :> "a UUID" @@ "version" :> "a version" @@ "license" :> "map"
                     @@ "name" :> "text")
    @@ "surrogate" :> Map("name" :> "surrogate")
    @@ "control" :> [Map(<<>>) EXCEPT !.clean = FALSE]
    @@ "broken" :> [Map(<<>>) EXCEPT !.wellFormed = FALSE]
    @@ "scalar" :> [Parsed(<<"scalar">>) EXCEPT !.value.map = FALSE]
    @@ "alias" :> Parsed(<<"start", "alias", "end">>)
    @@ "too deep" :> Parsed(<<"start", "start", "end", "start", "start", "end", "end", "end">>)
    @@ "deep" :> Parsed(<<"start", "start", "end", "start", "end", "end">>)
MCYaml == YamlWords
Blocks == {<<D, "LF", word, "LF", D>> : word \in DOMAIN YamlWords}
Contents == {YamlWords[word].value : word \in {"agent", "good", "surrogate", "nulls"}}
MCContents == Contents

Names1 == UNION {ToSet(piece.rel) : piece \in Pieces} \cup {"SKILL.md"}
MCName == Names1
MCWord == {D, "LF", "CR", "BOM", "NUL", "RAW", "x"} \cup DOMAIN YamlWords

UpTo(n) == {Q \in UNION {kSubset(k, Pieces) : k \in 0..n} : Together(Q)}
Bodies ==
    {TreeOf(Q \cup {e}) : Q \in UpTo(3), e \in EntryOf({Usual})}
        \cup {TreeOf(Q) : Q \in UpTo(1)}
        \cup {TreeOf({e}) : e \in EntryOf(Shapes \cup Blocks)}
MCTrees == Bodies

(* Events.                                                                   *)
Natives1 ==
    "before_tool_execute" :> {<<"claude-code", "PreToolUse">>, <<"cursor", "preToolUse">>,
                              <<"copilot-cli", "preToolUse">>, <<"devin", "PreToolUse">>}
    @@ "session_start" :> {<<"claude-code", "SessionStart">>, <<"devin", "SessionStart">>,
                           <<"devin", "session_start">>, <<"cursor", "sessionStart">>}
    @@ "before_shell_execute" :> {<<"cursor", "beforeShellExecution">>,
                                  <<"devin", "pre_run_command">>}
    @@ "error_occurred" :> {<<"claude-code", "ErrorOccurred">>,
                            <<"copilot-cli", "errorOccurred">>}
    @@ "tool_use_failure" :> {<<"claude-code", "PostToolUseFailure">>,
                              <<"copilot-cli", "errorOccurred">>}
    @@ "after_model" :> {<<"cursor", "afterAgentResponse">>}
MCNatives == Natives1
MCSorted == <<"after_model", "before_shell_execute", "before_tool_execute",
              "error_occurred", "session_start", "tool_use_failure">>
MCPinnedEvents == "errorOccurred" :> "error_occurred"
MCDialects == "devin" :> [dialects |-> {"cli", "cascade"}, default |-> "cli"]
To(name, degraded) == [name |-> name, degraded |-> degraded]
Pins1 ==
    <<"before_tool_execute", "devin", "cli">> :> To("PreToolUse", FALSE)
    @@ <<"before_tool_execute", "devin", "cascade">> :> To("PreToolUse", TRUE)
    @@ <<"session_start", "devin", "cli">> :> To("SessionStart", FALSE)
    @@ <<"session_start", "devin", "cascade">> :> To("SessionStart", TRUE)
    @@ <<"before_shell_execute", "devin", "cli">> :> To("pre_run_command", TRUE)
    @@ <<"before_shell_execute", "devin", "cascade">> :> To("pre_run_command", FALSE)
    @@ <<"after_model", "cursor", "none">> :> To("afterAgentResponse", TRUE)
MCPins == Pins1

(* Hooks.                                                                    *)
File(path, os) == FileScript(path, IF os = <<>> THEN NoOs ELSE OsList(os))
Inline(content, os) ==
    [type |-> "inline", path |-> NoPath, content |-> content, os |-> OsList(os),
     more |-> "none"]
NoMember == [File(NoPath, <<>>) EXCEPT !.type = "none"]
Scripts == {
    File(<<"run.sh">>, <<>>), File(<<"run.sh">>, <<"darwin">>),
    [Inline(<<"CR", "LF", "x">>, <<"linux", "windows">>) EXCEPT !.path = <<"lost">>],
    File(<<"none">>, <<>>), File(<<"e1">>, <<>>), File(<<"e2">>, <<"linux">>),
    FileScript(<<"e1">>, OsList(<<>>)),
    [FileScript(<<"e2">>, [NoOs EXCEPT !.kind = "no list"]) EXCEPT !.content = <<"x">>],
    File(<<"..", "x">>, <<>>), File(<<"c:", "x">>, <<>>), File(<<"control">>, <<>>),
    File(<<"bytes">>, <<>>), File(<<"lost">>, <<>>), File(NoPath, <<>>),
    Inline(NoContent, <<>>), [NoMember EXCEPT !.type = "http"] }
Lists == UNION {[1..n -> Scripts] : n \in 0..2}
Threes == {s \in [1..3 -> Scripts] :
              /\ s[1] = File(<<"run.sh">>, <<"darwin">>)
              /\ \A i \in 2..3 : s[i].path \in {<<"run.sh">>, <<"e1">>, <<"e2">>}}
Handler(type, scripts) == [type |-> type, scripts |-> scripts, async |-> FALSE]
Hook(event, handlers, blocking) ==
    [event |-> event, handlers |-> handlers, blocking |-> blocking, matcher |-> "Bash",
     more |-> "name"]
One(scripts) == <<Handler("command", scripts)>>
Root1 == [named |-> TRUE,
          files |-> <<"run.sh">> :> <<"BOM", "x", "CR">> @@ <<"e1">> :> <<"x">>
                    @@ <<"e2">> :> <<"CR">> @@ <<"none">> :> <<"NUL">>]
NoRoot == [named |-> FALSE, files |-> <<>>]
SomeScripts == <<File(<<"run.sh">>, <<>>), Inline(<<"x">>, <<"linux">>)>>
AsHook(hook, root) == [map |-> FALSE, source |-> hook, root |-> root]
Extras == {
    NoMember, [NoMember EXCEPT !.more = "timeout"], [NoMember EXCEPT !.path = <<"e2">>],
    [NoMember EXCEPT !.type = "prompt"], [NoMember EXCEPT !.content = <<"CR">>],
    [NoMember EXCEPT !.type = "inline", !.content = <<"CR">>],
    Inline(<<"CR", "x">>, <<"linux">>), [NoMember EXCEPT !.os = OsList(<<>>)],
    [NoMember EXCEPT !.os = OsList(<<"darwin", "windows">>)],
    [NoMember EXCEPT !.os.kind = "no list"] }
PathMaps ==
    [command : {NoPath, <<"run.sh">>}, extra : Extras,
     path : [ToSet(Systems) -> {NoPath, <<"run.sh">>, <<"e1">>}]]
Sources ==
    {AsHook(Hook("PreToolUse", One(scripts), TRUE), Root1) : scripts \in Lists \cup Threes}
    \cup {AsHook(Hook("errorOccurred", <<first, Handler("command", SomeScripts)>>, FALSE), root) :
            first \in {Handler("not a map", <<>>), Handler("prompt", <<>>),
                       Handler("command", <<File(<<"lost">>, <<>>)>>)},
            root \in {Root1, NoRoot}}
    \cup {AsHook(Hook(event, handlers, FALSE), Root1) :
            event \in {"no event", "session_start"}, handlers \in {<<>>, One(SomeScripts)}}
    \cup {[map |-> TRUE, source |-> source, root |-> Root1] : source \in PathMaps}
MCSources == Sources

Targets == {"darwin", "linux", "windows"}
Projected ==
    {[hook |-> Hook("session_start", handlers, FALSE), targets |-> Targets] :
        handlers \in {<<>>, <<Handler("not a map", <<>>)>>, One(<<>>), One(SomeScripts),
                         One(<<NoMember>>), One(<<FileScript(<<"e1">>, OsList(<<>>))>>)}
                        \cup {One(scripts) : scripts \in Threes}}
MCSelections == Projected
RenderInputs ==
    {[hook |-> Hook(event, handlers, FALSE), target |-> target, dialect |-> dialect] :
        event \in DOMAIN Natives1 \cup {"PreToolUse"}, handlers \in {<<>>, One(SomeScripts)},
        target \in {"claude-code", "copilot-cli", "cursor", "devin", "zed"},
        dialect \in {"none", "cli", "cascade", "dial"}}
MCRenders == RenderInputs

(* Rows.                                                                     *)
Template(root, rest, tokens) == [root |-> root, rest |-> rest, tokens |-> tokens]
RowAt(scope, os, template, status, dialect) ==
    [scope |-> scope, os |-> os, template |-> template, layout |-> "merged_into_shared_file",
     status |-> status, dialect |-> dialect]
Home == Template("~/", "hooks.json", {})
AppData == Template("<appdata>/", "hooks.json", {"<appdata>"})
Project(name) == Template("plain", name, {})
Named == Template("<content-name>/", "SKILL.md", {"<content-name>"})
Matrix ==
    <<"devin", "hook">> :> <<
        RowAt("user", {"darwin", "linux"}, Home, "current", "cli"),
        RowAt("user", {"windows"}, AppData, "current", "cli"),
        RowAt("user", {}, Template("~/", "old", {}), "current", "cascade"),
        RowAt("project", {}, Project("cascade"), "superseded", "cascade"),
        RowAt("project", {}, Project("cascade"), "current", "cli"),
        RowAt("project", {}, Project("other"), "current", "cascade")>>
    @@ <<"cursor", "hook">> :> <<RowAt("user", {}, Home, "superseded", "none"),
                                 RowAt("managed", {}, Project("/etc"), "current", "none")>>
    @@ <<"kiro", "skill">> :> <<RowAt("user", {"windows"}, Named, "superseded", "none"),
                                RowAt("user", {}, Named, "superseded", "none"),
                                RowAt("user", {"linux"}, Named, "current", "none")>>
MCMatrix == Matrix

NamedRow(scope, template) == [scope |-> scope, template |-> template]
Written == {NamedRow("none", Named), NamedRow("user", Home), NamedRow("user", AppData),
            NamedRow("user", Template("~/", "old", {})),
            NamedRow("project", Project("cascade")), NamedRow("managed", Named)}
Judged ==
    {[hook |-> Hook(event, handlers, blocking), unresolved |-> FALSE, os |-> os,
      provider |-> provider, row |-> row, override |-> override] :
        event \in {"before_tool_execute", "before_shell_execute", "after_model"},
        handlers \in {<<>>, One(<<>>), One(<<File(<<"none">>, <<>>)>>),
                      One(<<File(<<"run.sh">>, <<"darwin">>)>>),
                      One(<<NoMember>>), One(<<FileScript(<<"e1">>, OsList(<<>>))>>),
                      One(SomeScripts)},
        blocking \in BOOLEAN, os \in {"none", "linux", "windows"},
        provider \in {"none", "claude-code", "cursor", "devin", "zed"},
        row \in Written, override \in BOOLEAN}
    \cup {[hook |-> Hook("after_model", One(<<>>), TRUE), unresolved |-> TRUE, os |-> "linux",
           provider |-> "none", row |-> NamedRow("none", Named), override |-> FALSE]}
MCInstalls == Judged

Entries == {<<>>, <<RowAt("managed", {}, Project("/etc"), "superseded", "none")>>,
            <<RowAt("user", {}, Template("~/", "x", {"<user>"}), "current", "none")>>}
Asked ==
    {[name |-> name, entry |-> entry, provider |-> key[1], content_type |-> key[2],
      os |-> os, scope |-> scope, dirs |-> dirs] :
        name \in {"none", "x", "~", "<appdata>"}, entry \in Entries,
        key \in DOMAIN Matrix \cup {<<"zed", "hook">>},
        os \in {"none"} \cup Targets, scope \in Scope \cup {"none"},
        dirs \in {{"home_dir", "appdata_dir", "project_root"}, {"home_dir"}}}
MCResolves == Asked
=============================================================================
