----------------------------- MODULE HookWiring -----------------------------
(***************************************************************************)
(* The ingestion of a hook by the development adapter (adapters/           *)
(* reference.py: _hook_source ... canonicalize_script), its body hash      *)
(* (reference/acif_hash.py: sidecar_only_body_hash), and the projections   *)
(* of its scripts on operating systems.                                    *)
(*                                                                         *)
(* A hook is [event, handlers, blocking, matcher, more], a handler [type,  *)
(* scripts, async], a script [type, path, content, os, more]; more is      *)
(* whatever else they say.  The path of a script may be missing, or its    *)
(* content; its os may be missing, a list, or something that is no list.   *)
(***************************************************************************)
EXTENDS HookEvents, BodyTree

CONSTANTS
    BadParts,   \* parts of a path that are empty, ".", ".." or have a backslash
    Drives      \* first parts that begin with a drive letter

NoPath == <<>>
NoContent == <<"no content">>
NoOs == [kind |-> "none", tags |-> <<>>]
OsList(tags) == [kind |-> "list", tags |-> tags]
Tags(script) == IF script.os.kind = "list" THEN ToSet(script.os.tags) ELSE {}

RawScript ==
    [type : STRING, path : Seq(STRING), content : Seq(STRING),
     os : [kind : {"none", "list", "no list"}, tags : Seq(STRING)], more : STRING]
RawHandler == [type : STRING, scripts : Seq(RawScript), async : BOOLEAN]
RawHook ==
    [event : STRING, handlers : Seq(RawHandler), blocking : BOOLEAN, matcher : STRING,
     more : STRING]

(* The scripts of a map with one path for each system: the default one, over *)
(* which every other key of the map is laid (extra has those a script has,   *)
(* and more the rest), then one for each path, with all the systems that     *)
(* have it.                                                                  *)
Systems == <<"darwin", "linux", "windows">>
PathMap ==
    [command : Seq(STRING), extra : RawScript, path : [ToSet(Systems) -> Seq(STRING)]]

\* The elements of a sequence at some of its places, in their order.
ElementsAt(s, places) ==
    FlattenSeq([i \in DOMAIN s |-> IF i \in places THEN <<s[i]>> ELSE <<>>])

\* Each path once, in the order of a dict.
Distinct(paths) ==
    ElementsAt(paths, {i \in DOMAIN paths : \A j \in 1..(i - 1) : paths[j] # paths[i]})

PathsOf(source) ==
    LET path == [i \in 1..3 |-> source.path[Systems[i]]]
    IN  ElementsAt(path, {i \in 1..3 : path[i] # NoPath})
OsOf(source, path) ==
    ElementsAt(Systems, {i \in 1..3 : source.path[Systems[i]] = path})
FileScript(path, os) ==
    [type |-> "file", path |-> path, content |-> NoContent, os |-> os, more |-> "none"]
DefaultScript(source) ==    \* update: a key replaces what the script has
    LET Laid(key, absent, own) == IF key = absent THEN own ELSE key
    IN  [type |-> Laid(source.extra.type, "none", "file"),
         path |-> Laid(source.extra.path, NoPath, source.command),
         content |-> source.extra.content, os |-> source.extra.os,
         more |-> source.extra.more]
_hook_from_per_os_map(source) ==
    LET default == IF source.command = NoPath THEN <<>> ELSE <<DefaultScript(source)>>
        merged == [i \in DOMAIN Distinct(PathsOf(source)) |->
                      LET path == Distinct(PathsOf(source))[i]
                      IN  FileScript(path, OsList(OsOf(source, path)))]
    IN  [event |-> "before_tool_execute", blocking |-> FALSE, matcher |-> "none",
         more |-> "none",
         handlers |-> <<[type |-> "command", async |-> FALSE,
                         scripts |-> default \o merged]>>]

_hook_source(i) == IF i.map THEN _hook_from_per_os_map(i.source) ELSE i.source

-----------------------------------------------------------------------------
(* canonical_hook.                                                           *)

ScriptsOf(hook) ==
    FlattenSeq([h \in DOMAIN hook.handlers |->
        IF hook.handlers[h].type = "not a map" THEN <<>> ELSE hook.handlers[h].scripts])
RefPaths(hook) ==
    LET scripts == ScriptsOf(hook)
    IN  ElementsAt([i \in DOMAIN scripts |-> scripts[i].path],
                   {i \in DOMAIN scripts :
                      scripts[i].type = "file" /\ scripts[i].path # NoPath})

Invalid(path) ==    \* _validate_relpath
    path[1] \in Drives \/ \E i \in DOMAIN path : path[i] \in BadParts

\* root has the files of the body, where the request names one.
ScriptError(script, root) ==
    IF script.type = "inline" /\ script.content # NoContent THEN "none"
    ELSE IF script.type # "file" \/ script.path = NoPath THEN "unsupported"
    ELSE IF Invalid(script.path) THEN "acif.hook.script_path_invalid"
    ELSE IF root.named /\ script.path \notin DOMAIN root.files
         THEN "acif.hook.script_file_missing"
    ELSE "none"
HandlerError(handler) ==
    CASE handler.type = "command"   -> "none"
      [] handler.type = "not a map" -> "unsupported"
      [] OTHER                      -> "acif.hook.handler_type_unrecognized"

\* Every check the ingestion makes, in its order; it ends at the first that fails.
Checks(hook, root) ==
    <<IF EventOf(hook.event) = "none" THEN "acif.hook.event_unrecognized" ELSE "none",
      IF hook.handlers = <<>> THEN "acif.hook.handlers_missing" ELSE "none",
      check_raw_paths(ToSet(RefPaths(hook)))>>
    \o FlattenSeq([h \in DOMAIN hook.handlers |->
          LET handler == hook.handlers[h]
          IN  <<HandlerError(handler)>>
                \o [s \in DOMAIN handler.scripts |-> ScriptError(handler.scripts[s], root)]])
HookError(hook, root) ==
    LET checks == Checks(hook, root)
        failed == {i \in DOMAIN checks : checks[i] # "none"}
    IN  IF failed = {} THEN "none" ELSE checks[Min(failed)]

canonicalize_script(script) ==
    IF script.type = "inline"
    THEN [script EXCEPT !.path = NoPath, !.content = canonical_text(@)]
    ELSE [script EXCEPT !.content = NoContent]

\* sort(key=jcs): one sequence for all with the same members.
SortedByJcs_Unsorted(scripts) == scripts
SortedByJcs(scripts) ==
    CHOOSE s \in {[i \in DOMAIN scripts |-> scripts[p[i]]] :
                       p \in Bijection(DOMAIN scripts, DOMAIN scripts)} : TRUE

canonical_handler(handler) ==
    [handler EXCEPT !.scripts =
        SortedByJcs([s \in DOMAIN @ |-> canonicalize_script(@[s])])]
canonical_hook(hook) ==
    [event    |-> EventOf(hook.event),
     handlers |-> [h \in DOMAIN hook.handlers |-> canonical_handler(hook.handlers[h])],
     blocking |-> hook.blocking,
     matcher  |-> hook.matcher]

-----------------------------------------------------------------------------
(* sidecar_only_body_hash: the manifest of the files it refers to, and the   *)
(* wiring.  The files come in the order of the scripts, and a path once.     *)

referenced_files(hook, root) == IF root.named THEN Distinct(RefPaths(hook)) ELSE <<>>
sidecar_only_body_hash(hook, root) ==
    LET files == referenced_files(hook, root)
    IN  <<Lines(files, [rel \in ToSet(files) |-> file_hash(Last(rel), root.files[rel])]),
          canonical_hook(hook)>>

-----------------------------------------------------------------------------
(* The script of an operating system, among those of the first handler.     *)

NoScript == [FileScript(NoPath, NoOs) EXCEPT !.type = "no script"]
_select_script(scripts, target) ==
    LET constrained == {s \in DOMAIN scripts : target \in Tags(scripts[s])}
        default     == {s \in DOMAIN scripts : scripts[s].os.kind = "none"}
    IN  IF constrained # {} THEN scripts[Min(constrained)]
        ELSE IF default # {} THEN scripts[Min(default)] ELSE NoScript

\* _first_handler_scripts raises Unsupported.
NoFirstHandler(hook) == hook.handlers = <<>> \/ hook.handlers[1].type = "not a map"
_script_selection(hook, targets) ==
    [target \in targets |-> _select_script(hook.handlers[1].scripts, target)]

\* What a selection shows of its script: its path, or else its content, or nothing.
Shown(script) ==
    IF script = NoScript THEN <<"none">>
    ELSE IF script.path # NoPath THEN script.path
    ELSE IF script.content # NoContent THEN script.content ELSE <<>>

_os_coverage(hook) ==
    LET scripts     == hook.handlers[1].scripts
        constrained == {s \in DOMAIN scripts : scripts[s].os.kind = "list"}
        os == UNION {Tags(scripts[s]) : s \in constrained}
    IN  [os |-> IF os = {} THEN ToSet(Systems) ELSE os,
         os_divergent |-> Cardinality(constrained) > 1]
=============================================================================
