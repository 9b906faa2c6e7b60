----------------------------- MODULE BodyIngest -----------------------------
(***************************************************************************)
(* The ingestion of a body by the development adapter: the walk over the   *)
(* directory (_read_body_files, adapters/reference.py), the rejects and    *)
(* the hash of core section 7.4, and the frontmatter of publisher section  *)
(* 5.6 (reference/acif_frontmatter.py).  One body after another.           *)
(***************************************************************************)
EXTENDS BodyTree

CONSTANTS
    Name,               \* the names a file or a directory may have
    Word,               \* the words of the files, see BodyTree
    Trees,              \* the bodies: [dirs, closed, files, locked, links]
    ItemKinds,          \* the kinds the ingestion context assigns
    ProviderContents,   \* the contents of provider configurations
    entry_file,         \* the path of the entry file
    KINDS, FRONTMATTER_KINDS, ENVELOPE_KEYS, FORBIDDEN_FIELDS,
    Yaml,               \* what each word stands for in a block, see Document
    MAX_DEPTH           \* how deep a block may nest

(* A path has every directory above it, what is there is one thing, and a    *)
(* link is in Dirnames or in Filenames as what it points to is a directory.  *)
ASSUME TreesAssumption ==
    \A t \in Trees :
        LET there == t.dirs \cup DOMAIN t.files \cup DOMAIN t.links
        IN  /\ <<>> \in t.dirs /\ there \subseteq Seq(Name)
            /\ \A p \in there : \A i \in 0..(Len(p) - 1) : SubSeq(p, 1, i) \in t.dirs
            /\ t.dirs \cap DOMAIN t.files = {} /\ t.locked \subseteq DOMAIN t.files
            /\ DOMAIN t.links \cap (t.dirs \cup DOMAIN t.files) = {}
            /\ \A p \in DOMAIN t.files : t.files[p] \in Seq(Word)
            /\ \A p \in DOMAIN t.links : t.links[p] \in {"dir", "file"}
ASSUME WordAssumption == "LF" \in Word
ASSUME ItemsAssumption == "agent" \in ItemKinds

VARIABLES
    stage,      \* where the ingestion is
    tree, kind, \* its body, and the kind of its item
    todo,       \* the directories still to be listed
    pending,    \* the files of the directory in hand still to be looked at
    files,      \* the paths read, in the order of the dict
    body,       \* the classification and the hash
    parsed,     \* the mapping of the frontmatter
    section,    \* the publisher section: [top, extension]
    verdict     \* "ok", an identifier, or "adapter: " for an exception

bodyVars == <<stage, tree, kind, todo, pending, files, body, parsed, section, verdict>>

NoTree    == [dirs |-> {}, closed |-> {}, files |-> <<>>, locked |-> {}, links |-> <<>>]
Nothing   == [map |-> TRUE, keys |-> <<>>]   \* null, or a map without keys
NoSection == [top |-> <<>>, extension |-> <<>>]
NoBody    == [classification |-> "none", body_hash |-> [none |-> <<>>]]

BodyInit ==
    /\ stage = "idle" /\ tree = NoTree /\ kind = "none"
    /\ todo = {} /\ pending = {} /\ files = <<>>
    /\ body = NoBody /\ parsed = Nothing /\ section = NoSection /\ verdict = "none"

Begin(t, k) ==
    /\ stage = "idle"
    /\ stage' = "walk" /\ tree' = t /\ kind' = k /\ todo' = {<<>>}
    /\ UNCHANGED <<pending, files, body, parsed, section, verdict>>

Reject(id) == stage' = "done" /\ verdict' = id

(* _frontmatter_provider_result: a mapping that no YAML was read for.        *)
Unusable == {"surrogate", "noncharacter", "not finite", "beyond 2^53"}
check_values(value) == \A key \in DOMAIN value.keys : value.keys[key] \notin Unusable

FromProvider(content) ==
    /\ stage = "idle"
    /\ kind' = "agent" /\ parsed' = content
    /\ IF check_values(content) THEN stage' = "section" /\ verdict' = verdict
       ELSE Reject("acif.frontmatter.malformed")
    /\ UNCHANGED <<tree, todo, pending, files, body, section>>

-----------------------------------------------------------------------------
(* The walk.  os.walk goes depth first; here the directories come in any     *)
(* order, of which that is one.  A directory it cannot list it passes over,  *)
(* a file that cannot be read raises OSError.                                *)

ChildrenIn(d, paths) == {p \in paths : p # <<>> /\ Front(p) = d}
LinksTo(what) == {p \in DOMAIN tree.links : tree.links[p] = what}

\* The name of a version-control directory is passed over before it is looked at.
Dirnames(d) ==
    {p \in ChildrenIn(d, tree.dirs \cup LinksTo("dir")) : Last(p) \notin VCS_DIRS}
Filenames(d) ==
    {p \in ChildrenIn(d, DOMAIN tree.files \cup LinksTo("file")) :
        Last(p) \notin VCS_DIRS}

Linked(d) == Dirnames(d) \cap LinksTo("dir") # {}

Visit(d) ==
    /\ stage = "walk" /\ pending = {} /\ d \in todo
    /\ CASE d \in tree.closed ->
              todo' = todo \ {d} /\ UNCHANGED <<stage, pending, verdict>>
         [] d \notin tree.closed /\ Linked(d) ->
              Reject("acif.body.symlink") /\ UNCHANGED <<todo, pending>>
         [] d \notin tree.closed /\ ~Linked(d) ->
              /\ todo' = (todo \ {d}) \cup Dirnames(d) /\ pending' = Filenames(d)
              /\ UNCHANGED <<stage, verdict>>
    /\ UNCHANGED <<tree, kind, files, body, parsed, section>>

ReadFile(p) ==
    /\ stage = "walk" /\ p \in pending
    /\ pending' = pending \ {p}
    /\ CASE p \in LinksTo("file") -> Reject("acif.body.symlink") /\ files' = files
         [] p \in tree.locked     -> Reject("adapter: ") /\ files' = files
         [] p \notin LinksTo("file") \cup tree.locked ->
              files' = Append(files, p) /\ UNCHANGED <<stage, verdict>>
    /\ UNCHANGED <<tree, kind, todo, body, parsed, section>>

Walked ==
    /\ stage = "walk" /\ pending = {} /\ todo = {}
    /\ stage' = "paths"
    /\ UNCHANGED <<tree, kind, todo, pending, files, body, parsed, section, verdict>>

-----------------------------------------------------------------------------
(* The rejects of section 7.4, each over the whole list.                     *)

GoOn(reject, next) ==
    /\ IF reject = "none" THEN stage' = next /\ verdict' = verdict ELSE Reject(reject)
    /\ UNCHANGED <<tree, kind, todo, pending, files, body, parsed, section>>

CheckPaths ==
    /\ stage = "paths"
    /\ GoOn(IF classify(ToSet(files), entry_file) = "multi-file"
            THEN check_raw_paths(ToSet(files)) ELSE "none", "collisions")

\* Of a single-file body too.
Collide == \E p, q \in ToSet(files) : p # q /\ NFC(p) = NFC(q)
CheckCollisions ==
    /\ stage = "collisions"
    /\ GoOn(IF Collide THEN "acif.body.path_collision" ELSE "none", "publishable")

_publishable_body_path(rel) ==
    ~InVcs(rel) /\ ~(Len(rel) = 1 /\ _excluded_at_root(rel[1]))
CheckPublishable ==
    /\ stage = "publishable"
    /\ GoOn(IF \E rel \in ToSet(files) : _publishable_body_path(rel)
            THEN "none" ELSE "acif.body.empty", "entry")

CheckEntry ==
    /\ stage = "entry"
    /\ GoOn(IF entry_file \in ToSet(files) THEN "none" ELSE "acif.body.empty", "hash")

TakeHash ==
    /\ stage = "hash" /\ stage' = "parse"
    /\ body' = [classification |-> classify(ToSet(files), entry_file),
                body_hash |-> body_hash_frontmatter_type(files, tree.files, entry_file)]
    /\ UNCHANGED <<tree, kind, todo, pending, files, parsed, section, verdict>>

-----------------------------------------------------------------------------
(* The frontmatter.  Yaml gives for a word its parse: [clean |-> BOOLEAN, no *)
(* raw character that is refused; events; wellFormed |-> BOOLEAN, the rest   *)
(* of what the scanner and the constructor refuse; value].                   *)

Depth(events, i) ==
    Cardinality({j \in 1..i : events[j] = "start"})
        - Cardinality({j \in 1..i : events[j] = "end"})

_check_events(events) ==
    \A i \in DOMAIN events : events[i] \notin {"alias", "anchor", "tag"}
                             /\ Depth(events, i) <= MAX_DEPTH

\* The parse of a block: its words are one document, or none.
Words(block) == SelectSeq(block, LAMBDA word : word # "LF")
Document(block) == Yaml[Words(block)[1]]
load_core(block) ==
    IF Words(block) = <<>> THEN Nothing ELSE Document(block).value
Malformed(block) ==
    \/ Len(Words(block)) > 1 \/ "RAW" \in ToSet(block)
    \/ /\ Len(Words(block)) = 1
       /\ LET yaml == Document(block)
          IN  \/ ~yaml.clean \/ ~yaml.wellFormed
              \/ ~_check_events(yaml.events) \/ ~check_values(yaml.value)

Parse ==
    /\ stage = "parse"
    /\ LET data  == tree.files[entry_file]
           block == IF HasBlock(data) THEN frontmatter_block(data) ELSE <<>>
       IN  IF Malformed(block) \/ ~load_core(block).map
           THEN Reject("acif.frontmatter.malformed") /\ parsed' = parsed
           ELSE stage' = "section" /\ parsed' = load_core(block) /\ verdict' = verdict
    /\ UNCHANGED <<tree, kind, todo, pending, files, body, section>>

\* publisher_section_from_mapping; a null value is no declaration.
Declared(keys) == {key \in DOMAIN keys : keys[key] # "null"}

InEnvelope(keys, key) ==
    key \in ENVELOPE_KEYS \/ (key = "license" /\ keys[key] = "map")

SectionReject(keys, k) ==
    LET declared == Declared(keys)
        Says(key, what) == key \in declared /\ keys[key] \notin what
    IN  IF FORBIDDEN_FIELDS \cap declared # {} THEN "acif.envelope.forbidden_field"
        ELSE IF Says("kind", KINDS) THEN "acif.envelope.kind_invalid"
        ELSE IF Says("kind", FRONTMATTER_KINDS \cap {k})
             THEN "acif.publisher.frontmatter_kind_mismatch"
        ELSE IF Says("id", {"a UUID"}) THEN "acif.envelope.id_invalid"
        ELSE IF Says("version", {"a version"}) THEN "acif.envelope.version_invalid"
        ELSE "none"

Only(keys, S) == [key \in S |-> keys[key]]
Placed(keys) ==
    LET envelope == {key \in Declared(keys) : InEnvelope(keys, key)}
    IN  [top |-> Only(keys, envelope),
         extension |-> Only(keys, Declared(keys) \ envelope)]

\* _canonical_frontmatter_block: a tool of an agent that is no string.
Uncanonical(keys, k) ==
    k = "agent" /\ "tools" \in DOMAIN keys /\ keys["tools"] = "a list of more than strings"

Place ==
    /\ stage = "section"
    /\ LET reject == SectionReject(parsed.keys, kind)
       IN  IF reject # "none" THEN Reject(reject) /\ section' = section
           ELSE IF Uncanonical(parsed.keys, kind)
                THEN Reject("unsupported") /\ section' = section
           ELSE Reject("ok") /\ section' = Placed(parsed.keys)
    /\ UNCHANGED <<tree, kind, todo, pending, files, body, parsed>>

-----------------------------------------------------------------------------
\* The answer is taken, and all of it forgotten.
Collect ==
    /\ stage = "done"
    /\ stage' = "idle" /\ tree' = NoTree /\ kind' = "none"
    /\ todo' = {} /\ pending' = {} /\ files' = <<>>
    /\ body' = NoBody /\ parsed' = Nothing /\ section' = NoSection /\ verdict' = "none"

BodyStep ==
    \/ \E d \in todo : Visit(d)
    \/ \E p \in pending : ReadFile(p)
    \/ Walked \/ CheckPaths \/ CheckCollisions \/ CheckPublishable \/ CheckEntry
    \/ TakeHash \/ Parse \/ Place

BodyBegin ==
    \/ \E t \in Trees, k \in ItemKinds : Begin(t, k)
    \/ \E content \in ProviderContents : FromProvider(content)

BodyNext == BodyBegin \/ BodyStep \/ Collect
BodySpec == BodyInit /\ [][BodyNext]_bodyVars

-----------------------------------------------------------------------------
(* Properties. *)

(* What of the body can be seen: not below a version-control directory, nor  *)
(* below one that cannot be listed, nor such a name itself.                  *)
Seen(p) ==
    /\ ~InVcs(p)
    /\ \A i \in 0..(Len(p) - 1) : SubSeq(p, 1, i) \notin tree.closed
Links  == {p \in DOMAIN tree.links : Seen(p)}
Locked == {p \in tree.locked : Seen(p)}
Whole  == {p \in DOMAIN tree.files : Seen(p)}
Aside(p) == Len(p) = 1 /\ p[1] \in Notices \cup SIDECAR_NAMES
MultiFile == \E p \in Whole : ~Aside(p) /\ ~(Len(p) = 1 /\ p = entry_file)

(* Core section 7.4: "step order is reject precedence" (reference.py:1160).  *)
(* What a body is rejected with depends on the body alone and not on the     *)
(* order in which the file system lists it: a link first, then a name that   *)
(* is not UTF-8, then one with a control character, then a collision, then   *)
(* nothing to publish; only then may the frontmatter be refused.  The        *)
(* exception is a file that cannot be read, which may come before a link.    *)
OfFrontmatter ==
    {"ok", "unsupported", "acif.frontmatter.malformed",
     "acif.publisher.frontmatter_kind_mismatch", "acif.envelope.forbidden_field",
     "acif.envelope.kind_invalid", "acif.envelope.id_invalid",
     "acif.envelope.version_invalid"}
Verdicts ==
    IF tree = NoTree THEN OfFrontmatter
    ELSE IF Links \cup Locked # {}
    THEN (IF Links # {} THEN {"acif.body.symlink"} ELSE {})
             \cup (IF Locked # {} THEN {"adapter: "} ELSE {})
    ELSE IF MultiFile /\ \E p \in Whole : ~_is_utf8(p) THEN {"acif.body.path_not_utf8"}
    ELSE IF MultiFile /\ \E p \in Whole : _has_control_char(p)
         THEN {"acif.body.path_control_char"}
    ELSE IF \E p, q \in Whole : p # q /\ NFC(p) = NFC(q) THEN {"acif.body.path_collision"}
    ELSE IF entry_file \notin Whole \/ \A p \in Whole : Aside(p) THEN {"acif.body.empty"}
    ELSE OfFrontmatter

BodyVerdict == stage = "done" => verdict \in Verdicts

(* Text as section 7.3 has it: without a byte order mark, each CR LF and     *)
(* each lone CR one LF.  The words of a text at some places, in their order. *)
Nth(places, k) ==
    CHOOSE i \in places : Cardinality({j \in places : j < i}) = k - 1
LineEnd(word) == IF word = "CR" THEN "LF" ELSE word
WordsAt(t, places) ==
    [k \in 1..Cardinality(places) |-> LineEnd(t[Nth(places, k)])]
Meant(t) == {i \in DOMAIN t : ~(t[i] = "LF" /\ i > 1 /\ t[i - 1] = "CR")}
PlainText(data) == WordsAt(NoBom(data), Meant(NoBom(data)))

(* Core sections 7.2 to 7.5: the hash stands for what the body publishes and *)
(* for nothing else.  Every file that can be seen is in it, once, under its  *)
(* normal name, text without regard to line ends; the sidecar at the root    *)
(* and the version-control files are not, nor the frontmatter of the entry;  *)
(* and the order of the listing is not.                                      *)
HashExact ==
    body # NoBody =>
        IF MultiFile
        THEN /\ body.classification = "multi-file"
             /\ body.body_hash.manifest =
                  LET In == {p \in Whole : ~(Len(p) = 1 /\ p[1] \in SIDECAR_NAMES)}
                  IN  [n \in {NFC(p) : p \in In} |->
                         LET p == CHOOSE q \in In : NFC(q) = n
                         IN  <<IF p = entry_file THEN AfterFrontmatter(PlainText(tree.files[p]))
                               ELSE IF is_text(Last(p), tree.files[p])
                                    THEN PlainText(tree.files[p]) ELSE tree.files[p]>>]
        ELSE /\ body.classification = "single-file"
             /\ body.body_hash.single = AfterFrontmatter(PlainText(tree.files[entry_file]))

(* Core section 7.8: what an entry file says is covered once.  Its text is   *)
(* the frontmatter, which goes to the publisher section, and the rest, which *)
(* goes to the hash, though two modules look for the delimiters; and each    *)
(* declaration has one place in the section, with a null being none.         *)
EntryCovered ==
    body # NoBody =>
        LET data == tree.files[entry_file]
            text == PlainText(data)
            rest == strip_frontmatter(data)
            head == <<"---", "LF">> \o frontmatter_block(data)
        IN  IF HasBlock(data)
            THEN text \in {head \o <<"---", "LF">> \o rest, head \o <<"---">> \o rest}
                 /\ (rest # <<>> => text # head \o <<"---">> \o rest)
            ELSE rest = text
SectionCovered ==
    verdict = "ok" =>
        /\ Declared(parsed.keys) = DOMAIN section.top \cup DOMAIN section.extension
        /\ DOMAIN section.top \cap DOMAIN section.extension = {}
        /\ FORBIDDEN_FIELDS \cap Declared(parsed.keys) = {}
        /\ "kind" \in DOMAIN section.top => section.top["kind"] = kind
        /\ DOMAIN section.top \subseteq ENVELOPE_KEYS \cup {"license"}
SingleCoverage == EntryCovered /\ SectionCovered

BodyTypeOK ==
    /\ stage \in {"idle", "walk", "paths", "collisions", "publishable", "entry", "hash",
                  "parse", "section", "done"}
    /\ tree \in Trees \cup {NoTree} /\ kind \in ItemKinds \cup {"none"}
    /\ todo \subseteq tree.dirs /\ pending \subseteq DOMAIN tree.files \cup DOMAIN tree.links
    /\ files \in Seq(DOMAIN tree.files)
    /\ stage = "idle" => bodyVars = <<"idle", NoTree, "none", {}, {}, <<>>, NoBody,
                                      Nothing, NoSection, "none">>
    /\ stage \notin {"idle", "walk", "done"} => todo = {} /\ pending = {}
    /\ (verdict = "none") = (stage # "done")
=============================================================================
