--------------------------- MODULE InstallTargets ---------------------------
(***************************************************************************)
(* handle_resolve_install_targets of adapters/reference.py: the rows of    *)
(* the install matrix (install-entry-points.yaml) for a provider and a     *)
(* content type, narrowed to an operating system and a scope, with the row *)
(* of each scope that an installer writes to.                              *)
(*                                                                         *)
(* A row is [scope, os, template, layout, status, dialect]: os is {} where *)
(* the row has none, and a path template is [root, rest, tokens]: how it   *)
(* begins ("~/", "<appdata>/", "<content-name>/" or "plain"), what follows *)
(* and the placeholders in it.  Narrowed rows keep their place, so they    *)
(* are a function on some of the places of the list.                       *)
(***************************************************************************)
EXTENDS Integers, SequencesExt

CONSTANTS
    install_entry_points    \* <<provider, content type>> -> sequence of rows

Scope  == {"user", "project", "managed"}
Status == {"current", "superseded"}
Known  == {"<content-name>", "<appdata>"}

InstallRow ==
    [scope : Scope, os : SUBSET {"darwin", "linux", "windows"},
     template : [root : STRING, rest : STRING, tokens : SUBSET STRING],
     layout : STRING, status : Status, dialect : STRING]
ASSUME MatrixAssumption ==
    \A key \in DOMAIN install_entry_points : install_entry_points[key] \in Seq(InstallRow)

\* An entry in the request takes the place of the matrix.
Given(inp) ==
    IF inp.entry # <<>> THEN inp.entry
    ELSE IF <<inp.provider, inp.content_type>> \in DOMAIN install_entry_points
    THEN install_entry_points[<<inp.provider, inp.content_type>>]
    ELSE <<>>

OnOs(rows, os) ==
    Restrict(rows, {i \in DOMAIN rows : rows[i].os = {} \/ os \in rows[i].os})
InScope(rows, scope) ==
    Restrict(rows, {i \in DOMAIN rows : scope = "none" \/ rows[i].scope = scope})
Left(inp) == InScope(OnOs(Given(inp), inp.os), inp.scope)

\* How a path begins: the name has taken its place before this is looked at.
Root(row, name) ==
    CASE row.template.root # "<content-name>/" -> row.template.root
      [] row.template.root = "<content-name>/" /\ name = "~" -> "~/"
      [] row.template.root = "<content-name>/" /\ name = "<appdata>" -> "<appdata>/"
      [] OTHER -> "plain"

\* What a path is completed with.
Base(row, name) ==
    CASE Root(row, name) = "~/"         -> "home_dir"
      [] Root(row, name) = "<appdata>/" -> "appdata_dir"
      [] OTHER -> IF row.scope = "managed" THEN "nothing" ELSE "project_root"

Path(row, name) == <<Base(row, name), row.template, name>>

RowError(row, inp) ==
    IF row.template.tokens \ Known # {} THEN "acif.install.placeholder_unrecognized"
    ELSE IF Base(row, inp.name) \notin inp.dirs \cup {"nothing"} THEN "unsupported"
    ELSE "none"

TargetsError(inp) ==
    LET rows == Given(inp)
        bad  == {i \in DOMAIN Left(inp) : RowError(Left(inp)[i], inp) # "none"}
    IN  IF inp.name = "none" THEN "acif.install.content_name_invalid"
        ELSE IF inp.os = "none" /\ \E i \in DOMAIN rows : rows[i].os # {} THEN "unsupported"
        ELSE IF DOMAIN OnOs(rows, inp.os) = {} THEN "acif.install.no_entry_point"
        ELSE IF DOMAIN Left(inp) = {} THEN "acif.install.scope_unavailable"
        ELSE IF bad # {} THEN RowError(Left(inp)[Min(bad)], inp)
        ELSE "none"

\* The current row of its scope that comes first.
write_target_FirstRow(rows, i) ==
    rows[i].status = "current"
        /\ \A j \in DOMAIN rows : j < i => rows[j].scope # rows[i].scope
write_target(rows, i) ==
    rows[i].status = "current"
        /\ \A j \in DOMAIN rows :
              j < i => ~(rows[j].scope = rows[i].scope /\ rows[j].status = "current")

ScopesWith(rows, Test(_)) == {rows[i].scope : i \in {j \in DOMAIN rows : Test(j)}}

resolve_install_targets(inp) ==
    LET rows == Left(inp)
    IN  [targets |-> [i \in DOMAIN rows |->
            [row |-> rows[i], path |-> Path(rows[i], inp.name),
             write_target |-> write_target(rows, i)]],
         superseded |->
            ScopesWith(rows, LAMBDA i : rows[i].status = "superseded")
              \ ScopesWith(rows, LAMBDA i : write_target(rows, i))]
\* What the error names, where it is scope_unavailable.
AvailableScopes(inp) == ScopesWith(OnOs(Given(inp), inp.os), LAMBDA i : TRUE)
=============================================================================
