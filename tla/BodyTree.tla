------------------------------ MODULE BodyTree ------------------------------
(***************************************************************************)
(* Bodies and their hash: conformance/reference/acif_hash.py and the       *)
(* delimiters of acif_frontmatter.py.  A path is a sequence of names, the  *)
(* bytes of a file a sequence of words, among them "LF", "CR", "BOM",      *)
(* "NUL", "---" and "RAW" (bytes that are no UTF-8).  A digest is the      *)
(* value it is taken of.                                                   *)
(***************************************************************************)
EXTENDS Integers, FiniteSets, SequencesExt

CONSTANTS
    VCS_DIRS,       \* .git, .hg, ...
    SIDECAR_NAMES,  \* acif-sidecar.yaml
    Notices,        \* the names that begin with LICENSE or README
    TextNames,      \* the names with a suffix in TEXT_EXTENSIONS
    Control,        \* the names with a control character
    NotUtf8,        \* the names that are not UTF-8
    Composed,       \* the NFC form of a name that is not in it
    NUL_SCAN        \* how far a NUL makes a file binary

NFC(rel) ==
    [i \in DOMAIN rel |->
        IF rel[i] \in DOMAIN Composed THEN Composed[rel[i]] ELSE rel[i]]

InVcs(rel) == \E i \in DOMAIN rel : rel[i] \in VCS_DIRS
_has_control_char(rel) == \E i \in DOMAIN rel : rel[i] \in Control
_is_utf8(rel) == \A i \in DOMAIN rel : rel[i] \notin NotUtf8

\* The reject of a list of paths: each scan is over all of them.
check_raw_paths_EachPath(paths) ==
    IF \E rel \in paths : _has_control_char(rel) THEN "acif.body.path_control_char"
    ELSE IF \E rel \in paths : ~_is_utf8(rel) THEN "acif.body.path_not_utf8"
    ELSE "none"
check_raw_paths(paths) ==
    IF \E rel \in paths : ~_is_utf8(rel) THEN "acif.body.path_not_utf8"
    ELSE IF \E rel \in paths : _has_control_char(rel) THEN "acif.body.path_control_char"
    ELSE "none"

-----------------------------------------------------------------------------
(* Text.                                                                     *)

NoBom(data) == IF data # <<>> /\ Head(data) = "BOM" THEN Tail(data) ELSE data

\* A CR and the LF after it are one LF, and so is a CR by itself.
LfFrom(t, i, after) ==
    CASE i > Len(t) -> <<>>
      [] i <= Len(t) /\ t[i] # "CR" -> <<t[i]>> \o after[i + 1]
      [] i <= Len(t) /\ t[i] = "CR" ->
            <<"LF">> \o after[IF i < Len(t) /\ t[i + 1] = "LF" THEN i + 2 ELSE i + 1]
canonical_text(data) ==
    LET t == NoBom(data)
        out[i \in 1..(Len(t) + 2)] == LfFrom(t, i, out)
    IN  out[1]

is_text(name, data) ==
    name \in TextNames /\ \A i \in DOMAIN data : i <= NUL_SCAN => data[i] # "NUL"
file_hash(name, data) == IF is_text(name, data) THEN canonical_text(data) ELSE data

(* The frontmatter: from a first line of three dashes to the next such line. *)
Opens(t) == Len(t) > 1 /\ t[1] = "---" /\ t[2] = "LF"
Closings(t) ==
    {i \in 2..(Len(t) - 2) : t[i] = "LF" /\ t[i + 1] = "---" /\ t[i + 2] = "LF"}
ClosesAtEnd(t) == Len(t) > 2 /\ t[Len(t) - 1] = "LF" /\ t[Len(t)] = "---"

AfterFrontmatter(t) ==
    CASE ~Opens(t) -> t
      [] Opens(t) /\ Closings(t) # {} -> SubSeq(t, Min(Closings(t)) + 3, Len(t))
      [] Opens(t) /\ Closings(t) = {} -> IF ClosesAtEnd(t) THEN <<>> ELSE t
strip_frontmatter(data) == AfterFrontmatter(canonical_text(data))

\* frontmatter_block: whether there is one, and its text.
HasBlock_NotAtEnd(data) ==
    LET t == canonical_text(data) IN Opens(t) /\ Closings(t) # {}
HasBlock(data) ==
    LET t == canonical_text(data)
    IN  Opens(t) /\ (Closings(t) # {} \/ ClosesAtEnd(t))
frontmatter_block(data) ==
    LET t == canonical_text(data)
    IN  SubSeq(t, 3, IF Closings(t) # {} THEN Min(Closings(t)) ELSE Len(t) - 1)

-----------------------------------------------------------------------------
(* The body: paths in the order they were read, and what is at each.         *)

_excluded_at_root(name) == name \in Notices \cup SIDECAR_NAMES

Counts(rel, entry_file) ==
    /\ ~InVcs(rel)
    /\ ~(Len(rel) = 1 /\ (_excluded_at_root(rel[1]) \/ rel = entry_file))
classify(rels, entry_file) ==
    IF \E rel \in rels : Counts(rel, entry_file) THEN "multi-file" ELSE "single-file"

Hashed(rel, data, entry_file) ==
    IF rel = entry_file THEN strip_frontmatter(data) ELSE file_hash(Last(rel), data)

(* A manifest has the lines of each path together: the sort is stable, and   *)
(* of two names with one normal form the one that was read first comes first.*)
Enumerated_SidecarAnywhere(files) ==
    {rel \in ToSet(files) : ~InVcs(rel) /\ Last(rel) \notin SIDECAR_NAMES}
Enumerated(files) ==
    {rel \in ToSet(files) : ~InVcs(rel) /\ ~(Len(rel) = 1 /\ rel[1] \in SIDECAR_NAMES)}
ReadBefore(files, p, q) ==
    \E i \in DOMAIN files : files[i] = p /\ \A j \in 1..i : files[j] # q
Lines(files, hash) ==
    [n \in {NFC(rel) : rel \in DOMAIN hash} |->
        LET of == {rel \in DOMAIN hash : NFC(rel) = n}
        IN  [k \in 1..Cardinality(of) |->
                hash[CHOOSE rel \in of :
                        Cardinality({p \in of : ReadBefore(files, p, rel)}) = k - 1]]]
directory_manifest(files, data, entry_file) ==
    Lines(files, [rel \in Enumerated(files) |-> Hashed(rel, data[rel], entry_file)])

body_hash_frontmatter_type(files, data, entry_file) ==
    IF classify(ToSet(files), entry_file) = "single-file"
    THEN [single |-> strip_frontmatter(data[entry_file])]
    ELSE [manifest |-> directory_manifest(files, data, entry_file)]
=============================================================================
