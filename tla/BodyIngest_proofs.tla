-------------------------- MODULE BodyIngest_proofs --------------------------
(***************************************************************************)
(* Proofs about BodyIngest, for any bodies, names and words of YAML.  That *)
(* the rejects do not depend on the order of the walk rests on what the    *)
(* walk has done at each moment: all it has read can be seen (Sound), and  *)
(* all that can be seen is read, at hand, or below a directory to be       *)
(* listed (Complete).  What is hashed then follows from what the rejects   *)
(* leave behind, and from what canonical_text computes of a text.          *)
(***************************************************************************)
EXTENDS BodyIngest, SequenceTheorems, FiniteSetTheorems, WellFoundedInduction, TLAPS

-----------------------------------------------------------------------------
(* Paths. *)

\* What is above the directory of a path is above the path.
LEMMA Above ==
  ASSUME NEW p \in Seq(Name), NEW j \in 0..Len(p)
  PROVE  /\ SubSeq(p, 1, j) \in Seq(Name)
         /\ Len(SubSeq(p, 1, j)) = j
         /\ \A i \in 1..j : SubSeq(p, 1, j)[i] = p[i]
         /\ \A i \in 0..j : SubSeq(SubSeq(p, 1, j), 1, i) = SubSeq(p, 1, i)
  <1> DEFINE q == SubSeq(p, 1, j)
  <1>1. q \in Seq(Name) /\ Len(q) = j /\ \A i \in 1..j : q[i] = p[i]
    BY SubSeqProperties
  <1>2. ASSUME NEW i \in 0..j PROVE SubSeq(q, 1, i) = SubSeq(p, 1, i)
    <2> DEFINE a == SubSeq(q, 1, i)
               b == SubSeq(p, 1, i)
    <2>1. a \in Seq(Name) /\ Len(a) = i /\ \A k \in 1..i : a[k] = q[k]
      BY <1>1, SubSeqProperties
    <2>2. b \in Seq(Name) /\ Len(b) = i /\ \A k \in 1..i : b[k] = p[k]
      BY SubSeqProperties
    <2>3. \A k \in 1..Len(a) : a[k] = b[k]
      BY <1>1, <2>1, <2>2
    <2> HIDE DEF a, b
    <2> QED
      BY <2>1, <2>2, <2>3, SeqEqual DEF a, b
  <1> QED
    BY <1>1, <1>2

\* The directory of a path, and its name there.
LEMMA Parts ==
  ASSUME NEW p \in Seq(Name), p # <<>>
  PROVE  /\ Len(p) \in Nat \ {0} /\ Len(p) - 1 \in 0..Len(p)
         /\ Front(p) = SubSeq(p, 1, Len(p) - 1) /\ Front(p) \in Seq(Name)
         /\ Len(Front(p)) = Len(p) - 1
         /\ Last(p) = p[Len(p)]
  <1>1. Len(p) \in Nat \ {0}
    BY EmptySeq, LenProperties
  <1>2. Len(p) - 1 \in 0..Len(p)
    BY <1>1
  <1>3. SubSeq(p, 1, Len(p) - 1) \in Seq(Name)
        /\ Len(SubSeq(p, 1, Len(p) - 1)) = Len(p) - 1
    BY <1>2, Above
  <1> QED
    BY <1>1, <1>2, <1>3, Zenon DEF Front, Last

\* A path can be seen when its directory can be seen and listed.
LEMMA SeenChild ==
  ASSUME NEW p \in Seq(Name), p # <<>>
  PROVE  Seen(p) <=> /\ Seen(Front(p)) /\ Front(p) \notin tree.closed
                     /\ Last(p) \notin VCS_DIRS
  <1> DEFINE f == Front(p)
             n == Len(p)
  <1>1. /\ n \in Nat \ {0} /\ n - 1 \in 0..n /\ f = SubSeq(p, 1, n - 1)
        /\ f \in Seq(Name) /\ Len(f) = n - 1 /\ Last(p) = p[n]
    BY Parts
  <1>2. DOMAIN p = 1..n /\ DOMAIN f = 1..(n - 1)
    BY <1>1, LenProperties
  <1>3. /\ \A i \in 1..(n - 1) : f[i] = p[i]
        /\ \A i \in 0..(n - 1) : SubSeq(f, 1, i) = SubSeq(p, 1, i)
    BY <1>1, Above
  <1> HIDE DEF f, n
  <1>4. InVcs(p) <=> InVcs(f) \/ p[n] \in VCS_DIRS
    <2>1. \A i \in 1..n : i = n \/ i \in 1..(n - 1)
      BY <1>1
    <2>2. n \in 1..n /\ \A i \in 1..(n - 1) : i \in 1..n
      BY <1>1
    <2> QED
      BY <1>2, <1>3, <2>1, <2>2 DEF InVcs
  <1>5. (\A i \in 0..(n - 1) : SubSeq(p, 1, i) \notin tree.closed)
          <=> f \notin tree.closed
              /\ \A i \in 0..(Len(f) - 1) : SubSeq(f, 1, i) \notin tree.closed
    <2>1. \A i \in 0..(n - 1) : i = n - 1 \/ i \in 0..(n - 2)
      BY <1>1
    <2>2. /\ n - 1 \in 0..(n - 1) /\ \A i \in 0..(n - 2) : i \in 0..(n - 1)
          /\ Len(f) - 1 = n - 2
      BY <1>1
    <2> QED
      BY <1>1, <1>3, <2>1, <2>2
  <1> QED
    BY <1>1, <1>4, <1>5 DEF Seen, f, n

\* Of a path below a directory, the next name down.
LEMMA NextDown ==
  ASSUME NEW p \in Seq(Name), NEW i \in 0..(Len(p) - 1)
  PROVE  LET q == SubSeq(p, 1, i + 1)
         IN  q \in Seq(Name) /\ q # <<>> /\ Front(q) = SubSeq(p, 1, i)
             /\ Last(q) = p[i + 1] /\ Len(q) = i + 1
  <1> DEFINE q == SubSeq(p, 1, i + 1)
  <1>1. Len(p) \in Nat /\ i + 1 \in 0..Len(p) /\ i \in 0..(i + 1) /\ i + 1 \in 1..(i + 1)
    BY LenProperties
  <1>2. /\ q \in Seq(Name) /\ Len(q) = i + 1 /\ q[i + 1] = p[i + 1]
        /\ SubSeq(q, 1, i) = SubSeq(p, 1, i)
    BY <1>1, Above
  <1>3. q # <<>>
    BY <1>1, <1>2, EmptySeq
  <1> HIDE DEF q
  <1>4. Front(q) = SubSeq(q, 1, i) /\ Last(q) = q[i + 1]
    BY <1>2 DEF Front, Last
  <1> QED
    BY <1>2, <1>3, <1>4 DEF q

-----------------------------------------------------------------------------
(* The invariant. *)

\* All of the walk is about what can be seen, and none of it is passed over.
Sound ==
    /\ tree \in Trees
    /\ todo \subseteq {d \in tree.dirs : Seen(d)}
    /\ pending \subseteq {p \in DOMAIN tree.files \cup LinksTo("file") : Seen(p)}
    /\ ToSet(files) \subseteq Whole \ Locked
Under(p) == \E i \in 0..(Len(p) - 1) : SubSeq(p, 1, i) \in todo
Complete == \A p \in Whole \cup Links : p \in ToSet(files) \cup pending \/ Under(p)

\* What each reject leaves behind it.
Read  == tree \in Trees /\ Links = {} /\ Locked = {} /\ ToSet(files) = Whole
Clean == MultiFile => \A p \in Whole : _is_utf8(p) /\ ~_has_control_char(p)
Apart == ~ \E p, q \in Whole : p # q /\ NFC(p) = NFC(q)
Some  == ~ \A p \in Whole : Aside(p)

Rejects == {"paths", "collisions", "publishable", "entry", "hash", "parse", "section"}
Behind ==
    /\ stage = "walk" => Sound /\ Complete
    /\ stage \in Rejects => tree = NoTree \/ Read
    /\ stage \in Rejects \ {"section"} => tree # NoTree
    /\ (stage \in Rejects \ {"paths"} /\ tree # NoTree) => Clean
    /\ (stage \in Rejects \ {"paths", "collisions"} /\ tree # NoTree) => Apart
    /\ (stage \in {"entry", "hash", "parse", "section"} /\ tree # NoTree) => Some
    /\ (stage \in {"hash", "parse", "section"} /\ tree # NoTree) => entry_file \in Whole
BodyInv == BodyTypeOK /\ Behind /\ BodyVerdict

\* A body is not the absence of one, and is made up as TreesAssumption says.
LEMMA Tree ==
  ASSUME tree \in Trees
  PROVE  /\ tree # NoTree /\ <<>> \in tree.dirs
         /\ tree.dirs \subseteq Seq(Name) /\ DOMAIN tree.files \subseteq Seq(Name)
         /\ DOMAIN tree.links \subseteq Seq(Name)
         /\ \A p \in tree.dirs \cup DOMAIN tree.files \cup DOMAIN tree.links :
               \A i \in 0..(Len(p) - 1) : SubSeq(p, 1, i) \in tree.dirs
         /\ tree.dirs \cap DOMAIN tree.files = {} /\ tree.locked \subseteq DOMAIN tree.files
         /\ DOMAIN tree.links \cap (tree.dirs \cup DOMAIN tree.files) = {}
         /\ LinksTo("dir") \cup LinksTo("file") = DOMAIN tree.links
         /\ Locked \subseteq Whole
  <1>1. /\ <<>> \in tree.dirs
        /\ tree.dirs \cup DOMAIN tree.files \cup DOMAIN tree.links \subseteq Seq(Name)
        /\ \A p \in tree.dirs \cup DOMAIN tree.files \cup DOMAIN tree.links :
              \A i \in 0..(Len(p) - 1) : SubSeq(p, 1, i) \in tree.dirs
        /\ tree.dirs \cap DOMAIN tree.files = {} /\ tree.locked \subseteq DOMAIN tree.files
        /\ DOMAIN tree.links \cap (tree.dirs \cup DOMAIN tree.files) = {}
        /\ \A p \in DOMAIN tree.links : tree.links[p] \in {"dir", "file"}
    BY TreesAssumption, Zenon
  <1>2. tree # NoTree
    BY <1>1 DEF NoTree
  <1> QED
    BY <1>1, <1>2 DEF LinksTo, Locked, Whole

\* What can be seen of a body depends on nothing else.
LEMMA Same ==
  ASSUME tree' = tree
  PROVE  /\ \A p : Seen(p)' = Seen(p)
         /\ Whole' = Whole /\ Links' = Links /\ Locked' = Locked
         /\ MultiFile' = MultiFile /\ Verdicts' = Verdicts
         /\ Clean' = Clean /\ Apart' = Apart /\ Some' = Some
         /\ \A what : LinksTo(what)' = LinksTo(what)
  <1>1. \A p : Seen(p)' = Seen(p)
    BY DEF Seen
  <1>2. Whole' = Whole /\ Links' = Links /\ Locked' = Locked
    BY <1>1, Zenon DEF Whole, Links, Locked
  <1>3. MultiFile' = MultiFile
    BY <1>2, Zenon DEF MultiFile
  <1>4. Verdicts' = Verdicts
    BY <1>2, <1>3, Zenon DEF Verdicts
  <1>5. Clean' = Clean /\ Apart' = Apart /\ Some' = Some
    BY <1>2, <1>3, Zenon DEF Clean, Apart, Some
  <1>6. \A what : LinksTo(what)' = LinksTo(what)
    BY DEF LinksTo
  <1> QED
    BY <1>1, <1>2, <1>3, <1>4, <1>5, <1>6

-----------------------------------------------------------------------------
(* Each step keeps it. *)

LEMMA BodyInitInv == BodyInit => BodyInv
  <1> SUFFICES ASSUME BodyInit PROVE BodyInv
    OBVIOUS
  <1>1. BodyTypeOK
    BY DEF BodyInit, BodyTypeOK, bodyVars, NoTree
  <1> QED
    BY <1>1 DEF BodyInit, BodyInv, Behind, BodyVerdict, Rejects

\* At the start all there is lies below the root.
LEMMA BeginInv ==
  ASSUME BodyInv, NEW t \in Trees, NEW k \in ItemKinds, Begin(t, k)
  PROVE  BodyInv'
  <1>1. /\ stage = "idle" /\ stage' = "walk" /\ tree' = t /\ kind' = k /\ todo' = {<<>>}
        /\ pending' = {} /\ files' = <<>> /\ verdict' = "none"
    BY DEF Begin, BodyInv, BodyTypeOK, bodyVars
  <1>2. /\ tree' \in Trees /\ <<>> \in tree'.dirs
        /\ DOMAIN tree'.files \subseteq Seq(Name) /\ DOMAIN tree'.links \subseteq Seq(Name)
        /\ tree'.dirs \cap DOMAIN tree'.files = {}
        /\ DOMAIN tree'.links \cap (tree'.dirs \cup DOMAIN tree'.files) = {}
    BY <1>1, TreesAssumption, Zenon
  <1>3. BodyTypeOK'
    BY <1>1, <1>2 DEF BodyTypeOK
  <1>4. Seen(<<>>)'
    BY DEF Seen, InVcs
  <1>5. Sound'
    <2>1. ToSet(<<>>) = {}
      BY DEF ToSet
    <2> QED
      BY <1>1, <1>2, <1>4, <2>1 DEF Sound
  <1>6. ASSUME NEW p \in (Whole \cup Links)' PROVE Under(p)'
    <2>1. p \in Seq(Name) /\ p # <<>>
      BY <1>2 DEF Whole, Links
    <2>2. 0 \in 0..(Len(p) - 1) /\ SubSeq(p, 1, 0) = <<>>
      BY <2>1, EmptySeq, SubSeqEmpty
    <2> QED
      BY <1>1, <2>2 DEF Under
  <1> QED
    BY <1>1, <1>3, <1>5, <1>6 DEF BodyInv, Behind, Complete, BodyVerdict, Rejects

LEMMA ProviderInv ==
  ASSUME BodyInv, NEW content \in ProviderContents, FromProvider(content)
  PROVE  BodyInv'
  <1>1. /\ stage = "idle" /\ kind' = "agent" /\ tree' = NoTree
        /\ todo' = {} /\ pending' = {} /\ files' = <<>>
        /\ \/ stage' = "section" /\ verdict' = "none"
           \/ stage' = "done" /\ verdict' = "acif.frontmatter.malformed"
    BY DEF FromProvider, Reject, BodyInv, BodyTypeOK, bodyVars
  <1>2. BodyTypeOK'
    BY <1>1, ItemsAssumption, EmptySeq DEF BodyTypeOK
  <1>3. Behind'
    BY <1>1 DEF Behind, Rejects
  <1>4. BodyVerdict'
    BY <1>1 DEF BodyVerdict, Verdicts, OfFrontmatter
  <1> QED
    BY <1>2, <1>3, <1>4 DEF BodyInv

\* What is in a directory that can be seen and listed can be seen, but for names
\* of version control.
LEMMA Listed ==
  ASSUME tree \in Trees, NEW d, d \in tree.dirs, Seen(d), d \notin tree.closed,
         NEW p \in Dirnames(d) \cup Filenames(d)
  PROVE  Seen(p) /\ p \in Seq(Name) /\ p # <<>> /\ Front(p) = d
  <1>1. /\ p \in tree.dirs \cup DOMAIN tree.files \cup DOMAIN tree.links
        /\ p # <<>> /\ Front(p) = d /\ Last(p) \notin VCS_DIRS
    BY DEF Dirnames, Filenames, ChildrenIn, LinksTo
  <1>2. p \in Seq(Name)
    BY <1>1, Tree
  <1> QED
    BY <1>1, <1>2, SeenChild

LEMMA VisitInv ==
  ASSUME BodyInv, NEW d \in todo, Visit(d)
  PROVE  BodyInv'
  <1>1. /\ stage = "walk" /\ pending = {} /\ Sound /\ Complete /\ BodyTypeOK
        /\ tree \in Trees /\ d \in tree.dirs /\ Seen(d)
        /\ UNCHANGED <<tree, kind, files, body, parsed, section>>
    BY DEF Visit, BodyInv, Behind, Sound
  <1>2. verdict = "none"
    BY <1>1 DEF BodyTypeOK
  <1>3. CASE d \in tree.closed
    <2>1. todo' = todo \ {d} /\ UNCHANGED <<stage, pending, verdict>>
      BY <1>3 DEF Visit
    <2>2. BodyTypeOK'
      BY <1>1, <2>1 DEF BodyTypeOK
    <2>3. Sound'
      BY <1>1, <2>1, Same DEF Sound
    <2>4. ASSUME NEW p \in Whole \cup Links, NEW i \in 0..(Len(p) - 1), SubSeq(p, 1, i) \in todo
          PROVE  SubSeq(p, 1, i) \in todo'
      BY <1>3, <2>1, <2>4 DEF Whole, Links, Seen
    <2>5. Complete'
      BY <1>1, <2>1, <2>4, Same DEF Complete, Under
    <2> QED
      BY <1>1, <2>1, <2>2, <2>3, <2>5 DEF BodyInv, Behind, BodyVerdict, Rejects
  <1>4. CASE d \notin tree.closed /\ Linked(d)
    <2>1. stage' = "done" /\ verdict' = "acif.body.symlink" /\ UNCHANGED <<todo, pending>>
      BY <1>4 DEF Visit, Reject
    <2>2. PICK p \in Dirnames(d) : p \in LinksTo("dir")
      BY <1>4 DEF Linked
    <2>3. Seen(p) /\ p \in DOMAIN tree.links
      BY <1>1, <1>4, <2>2, Listed DEF LinksTo
    <2>4. Links # {}
      BY <2>3 DEF Links
    <2>5. verdict' \in Verdicts'
      BY <1>1, <2>1, <2>4, Same, Tree DEF Verdicts
    <2>6. BodyTypeOK'
      BY <1>1, <2>1 DEF BodyTypeOK
    <2> QED
      BY <2>1, <2>5, <2>6 DEF BodyInv, Behind, BodyVerdict, Rejects
  <1>5. CASE d \notin tree.closed /\ ~Linked(d)
    <2>1. /\ todo' = (todo \ {d}) \cup Dirnames(d) /\ pending' = Filenames(d)
          /\ UNCHANGED <<stage, verdict>>
      BY <1>5 DEF Visit
    <2>2. /\ \A p \in Dirnames(d) : p \in tree.dirs /\ Seen(p)
          /\ \A p \in Filenames(d) : p \in DOMAIN tree.files \cup LinksTo("file") /\ Seen(p)
      BY <1>1, <1>5, Listed DEF Linked, Dirnames, Filenames, ChildrenIn
    <2>3. LinksTo("file") \subseteq DOMAIN tree.links
      BY DEF LinksTo
    <2>4. BodyTypeOK'
      BY <1>1, <2>1, <2>2, <2>3 DEF BodyTypeOK
    <2>5. Sound'
      BY <1>1, <2>1, <2>2, Same DEF Sound
    <2>6. ASSUME NEW p \in Whole \cup Links, NEW i \in 0..(Len(p) - 1),
                 SubSeq(p, 1, i) \in todo
          PROVE  p \in pending' \/ \E j \in 0..(Len(p) - 1) : SubSeq(p, 1, j) \in todo'
      <3>1. CASE SubSeq(p, 1, i) # d
        BY <2>1, <2>6, <3>1
      <3>2. CASE SubSeq(p, 1, i) = d
        <4>1. /\ p \in Seq(Name) /\ p \in DOMAIN tree.files \cup DOMAIN tree.links /\ Seen(p)
              /\ p \notin tree.dirs
          BY <1>1, Tree DEF Whole, Links
        <4> DEFINE q == SubSeq(p, 1, i + 1)
        <4>2. q \in Seq(Name) /\ q # <<>> /\ Front(q) = d /\ Last(q) = p[i + 1]
          BY <3>2, <4>1, NextDown
        <4>3. Len(p) \in Nat /\ DOMAIN p = 1..Len(p) /\ SubSeq(p, 1, Len(p)) = p
          BY <4>1, LenProperties, SubSeqFull
        <4>4. p[i + 1] \notin VCS_DIRS
          BY <4>1, <4>3 DEF Seen, InVcs
        <4>5. CASE i + 1 \in 0..(Len(p) - 1)
          <5>1. q \in tree.dirs
            BY <1>1, <4>1, <4>5, Tree
          <5>2. q \in Dirnames(d)
            BY <4>2, <4>4, <5>1 DEF Dirnames, ChildrenIn
          <5> QED
            BY <2>1, <4>5, <5>2
        <4>6. CASE i + 1 = Len(p)
          <5>1. q = p
            BY <4>3, <4>6
          <5>2. p \in Filenames(d) \/ p \in Dirnames(d) \cap LinksTo("dir")
            BY <1>1, <4>1, <4>2, <4>4, <5>1, Tree DEF Dirnames, Filenames, ChildrenIn
          <5> QED
            BY <1>5, <2>1, <5>2, SMTT(20) DEF Linked
        <4>7. i + 1 \in 0..(Len(p) - 1) \/ i + 1 = Len(p)
          <5> DEFINE n == Len(p)
          <5>1. n \in Nat /\ i \in 0..(n - 1)
            BY <4>3
          <5> HIDE DEF n
          <5>2. i + 1 \in 0..(n - 1) \/ i + 1 = n
            BY <5>1
          <5> QED
            BY <5>2 DEF n
        <4> QED
          BY <4>5, <4>6, <4>7, Zenon
      <3> QED
        BY <3>1, <3>2
    <2>7. Complete'
      <3>1. Whole' = Whole /\ Links' = Links /\ ToSet(files)' = ToSet(files)
        BY <1>1, Same
      <3>2. ASSUME NEW p \in Whole \cup Links
            PROVE  p \in ToSet(files) \cup pending' \/ Under(p)'
        <4>1. CASE p \in ToSet(files)
          BY <4>1
        <4>2. CASE p \notin ToSet(files)
          <5>1. PICK i \in 0..(Len(p) - 1) : SubSeq(p, 1, i) \in todo
            BY <1>1, <4>2 DEF Complete, Under
          <5> QED
            BY <2>6, <5>1 DEF Under
        <4> QED
          BY <4>1, <4>2
      <3> QED
        BY <3>1, <3>2 DEF Complete
    <2> QED
      BY <1>1, <2>1, <2>4, <2>5, <2>7 DEF BodyInv, Behind, BodyVerdict, Rejects
  <1> QED
    BY <1>3, <1>4, <1>5

\* A path that is appended is one more.
LEMMA ToSetAppend ==
  ASSUME NEW S, NEW seq \in Seq(S), NEW elt \in S
  PROVE  ToSet(Append(seq, elt)) = ToSet(seq) \cup {elt}
  <1> DEFINE more == Append(seq, elt)
  <1>1. /\ more \in Seq(S) /\ Len(more) = Len(seq) + 1 /\ Len(seq) \in Nat
        /\ \A i \in 1..Len(seq) : more[i] = seq[i]
        /\ more[Len(seq) + 1] = elt
    BY AppendProperties, LenProperties
  <1>2. DOMAIN more = 1..(Len(seq) + 1) /\ DOMAIN seq = 1..Len(seq)
    BY <1>1, LenProperties
  <1> HIDE DEF more
  <1>3. /\ 1..(Len(seq) + 1) = (1..Len(seq)) \cup {Len(seq) + 1}
    BY <1>1
  <1> QED
    BY <1>1, <1>2, <1>3 DEF ToSet, more

LEMMA ReadFileInv ==
  ASSUME BodyInv, NEW p \in pending, ReadFile(p)
  PROVE  BodyInv'
  <1>1. /\ stage = "walk" /\ Sound /\ Complete /\ BodyTypeOK /\ tree \in Trees
        /\ p \in DOMAIN tree.files \cup LinksTo("file") /\ Seen(p)
        /\ pending' = pending \ {p}
        /\ UNCHANGED <<tree, kind, todo, body, parsed, section>>
    BY DEF ReadFile, BodyInv, Behind, Sound
  <1>2. verdict = "none"
    BY <1>1 DEF BodyTypeOK
  <1>3. LinksTo("file") \subseteq DOMAIN tree.links
    BY DEF LinksTo
  <1>4. CASE p \in LinksTo("file") \/ p \in tree.locked
    <2>1. /\ stage' = "done" /\ files' = files
          /\ \/ p \in LinksTo("file") /\ verdict' = "acif.body.symlink"
             \/ p \in tree.locked /\ verdict' = "adapter: "
      BY <1>4 DEF ReadFile, Reject
    <2>2. (p \in LinksTo("file") => p \in Links) /\ (p \in tree.locked => p \in Locked)
      BY <1>1, <1>3 DEF Links, Locked
    <2>3. verdict' \in Verdicts
      BY <1>1, <2>1, <2>2, Tree DEF Verdicts
    <2>4. BodyTypeOK'
      BY <1>1, <2>1 DEF BodyTypeOK
    <2> QED
      BY <1>1, <2>1, <2>3, <2>4, Same DEF BodyInv, Behind, BodyVerdict, Rejects
  <1>5. CASE p \notin LinksTo("file") \cup tree.locked
    <2>1. files' = Append(files, p) /\ UNCHANGED <<stage, verdict>>
      BY <1>5 DEF ReadFile
    <2>2. p \in DOMAIN tree.files /\ files \in Seq(DOMAIN tree.files)
      BY <1>1, <1>5 DEF BodyTypeOK
    <2>3. files' \in Seq(DOMAIN tree.files) /\ ToSet(files') = ToSet(files) \cup {p}
      BY <2>1, <2>2, AppendProperties, ToSetAppend
    <2>4. p \in Whole \ Locked
      BY <1>1, <1>5, <2>2 DEF Whole, Locked
    <2>5. BodyTypeOK'
      BY <1>1, <2>1, <2>3 DEF BodyTypeOK
    <2>6. Sound'
      BY <1>1, <2>1, <2>3, <2>4, Same DEF Sound
    <2>7. Complete'
      BY <1>1, <2>3, Same DEF Complete, Under
    <2> QED
      BY <1>1, <2>1, <2>5, <2>6, <2>7 DEF BodyInv, Behind, BodyVerdict, Rejects
  <1> QED
    BY <1>4, <1>5

\* At the end of the walk what was read is all there is to see.
LEMMA WalkedInv ==
  ASSUME BodyInv, Walked
  PROVE  BodyInv'
  <1>1. /\ stage = "walk" /\ pending = {} /\ todo = {} /\ stage' = "paths"
        /\ Sound /\ Complete /\ BodyTypeOK /\ tree \in Trees
        /\ UNCHANGED <<tree, kind, todo, pending, files, body, parsed, section, verdict>>
    BY DEF Walked, BodyInv, Behind, Sound
  <1>2. Whole \cup Links \subseteq ToSet(files)
    BY <1>1 DEF Complete, Under
  <1>3. ToSet(files) \subseteq Whole \ Locked /\ Locked \subseteq Whole
    BY <1>1, Tree DEF Sound
  <1>4. Links \cap Whole = {}
    BY <1>1, Tree DEF Links, Whole
  <1>5. Read'
    BY <1>1, <1>2, <1>3, <1>4, Same DEF Read
  <1>6. BodyTypeOK'
    BY <1>1 DEF BodyTypeOK
  <1> QED
    BY <1>1, <1>5, <1>6, Tree DEF BodyInv, Behind, BodyVerdict, Rejects

-----------------------------------------------------------------------------
(* The rejects. *)

\* A step that goes on, from a stage after the walk.
LEMMA GoOnInv ==
  ASSUME BodyInv, stage \in Rejects \ {"parse", "section"}, NEW reject, NEW next, GoOn(reject, next),
         reject = "none" => next \in Rejects \ {"paths"},
         reject # "none" => reject \in Verdicts
  PROVE  /\ tree \in Trees /\ Read /\ Read'
         /\ BodyTypeOK' /\ BodyVerdict' /\ tree' = tree /\ tree' # NoTree
         /\ IF reject = "none" THEN stage' = next ELSE stage' = "done"
  <1>1. /\ tree \in Trees /\ Read /\ tree # NoTree /\ BodyTypeOK
        /\ todo = {} /\ pending = {} /\ verdict = "none"
        /\ UNCHANGED <<tree, kind, todo, pending, files, body, parsed, section>>
    BY DEF BodyInv, Behind, Read, GoOn, BodyTypeOK, Rejects
  <1>2. Read'
    BY <1>1, Same DEF Read
  <1>3. CASE reject = "none"
    <2>1. stage' = next /\ verdict' = "none"
      BY <1>1, <1>3 DEF GoOn
    <2>2. BodyTypeOK'
      BY <1>1, <1>3, <2>1 DEF BodyTypeOK, Rejects
    <2>3. BodyVerdict'
      BY <1>3, <2>1 DEF BodyVerdict, Rejects
    <2> QED
      BY <1>1, <1>2, <1>3, <2>1, <2>2, <2>3
  <1>4. CASE reject # "none"
    <2>1. stage' = "done" /\ verdict' = reject
      BY <1>4 DEF GoOn, Reject
    <2>2. BodyTypeOK'
      BY <1>1, <1>4, <2>1 DEF BodyTypeOK
    <2>3. BodyVerdict'
      BY <1>1, <1>4, <2>1, Same DEF BodyVerdict
    <2> QED
      BY <1>1, <1>2, <1>4, <2>1, <2>2, <2>3
  <1> QED
    BY <1>3, <1>4

\* The two ways to say that a body has several files.
LEMMA Several ==
  ASSUME Read
  PROVE  classify(ToSet(files), entry_file) = "multi-file" <=> MultiFile
  <1>1. \A p \in Whole : Counts(p, entry_file) <=>
           ~Aside(p) /\ ~(Len(p) = 1 /\ p = entry_file)
    BY DEF Whole, Seen, Counts, Aside, _excluded_at_root
  <1>2. ToSet(files) = Whole
    BY DEF Read
  <1> QED
    BY <1>1, <1>2 DEF classify, MultiFile

LEMMA CheckPathsInv ==
  ASSUME BodyInv, CheckPaths
  PROVE  BodyInv'
  <1> DEFINE reject == IF classify(ToSet(files), entry_file) = "multi-file"
                       THEN check_raw_paths(ToSet(files)) ELSE "none"
  <1>1. stage = "paths" /\ GoOn(reject, "collisions")
    BY DEF CheckPaths
  <1>2. Read /\ tree # NoTree
    BY <1>1 DEF BodyInv, Behind, Rejects
  <1>3. ToSet(files) = Whole /\ Links = {} /\ Locked = {}
    BY <1>2 DEF Read
  <1>4. /\ reject = "none" => Clean
        /\ reject # "none" => reject \in Verdicts
    BY <1>2, <1>3, Several, Tree DEF check_raw_paths, Clean, Verdicts
  <1> HIDE DEF reject
  <1>5. /\ Read' /\ BodyTypeOK' /\ BodyVerdict' /\ tree' = tree /\ tree' # NoTree
        /\ IF reject = "none" THEN stage' = "collisions" ELSE stage' = "done"
    BY <1>1, <1>4, GoOnInv DEF Rejects
  <1>6. Behind'
    BY <1>4, <1>5, Same DEF Behind, Rejects
  <1> QED
    BY <1>5, <1>6 DEF BodyInv

LEMMA CheckCollisionsInv ==
  ASSUME BodyInv, CheckCollisions
  PROVE  BodyInv'
  <1> DEFINE reject == IF Collide THEN "acif.body.path_collision" ELSE "none"
  <1>1. stage = "collisions" /\ GoOn(reject, "publishable")
    BY DEF CheckCollisions
  <1>2. Read /\ tree # NoTree /\ Clean
    BY <1>1 DEF BodyInv, Behind, Rejects
  <1>3. ToSet(files) = Whole /\ Links = {} /\ Locked = {}
    BY <1>2 DEF Read
  <1>4. Collide <=> ~Apart
    BY <1>3 DEF Collide, Apart
  <1>5. ~Apart => "acif.body.path_collision" \in Verdicts
    BY <1>2, <1>3 DEF Verdicts, Clean, Apart
  <1>6. /\ Read' /\ BodyTypeOK' /\ BodyVerdict' /\ tree' = tree /\ tree' # NoTree
        /\ IF reject = "none" THEN stage' = "publishable" ELSE stage' = "done"
    BY <1>1, <1>4, <1>5, GoOnInv DEF Rejects
  <1>7. Behind'
    BY <1>2, <1>4, <1>6, Same DEF Behind, Rejects
  <1> QED
    BY <1>6, <1>7 DEF BodyInv

LEMMA CheckPublishableInv ==
  ASSUME BodyInv, CheckPublishable
  PROVE  BodyInv'
  <1> DEFINE reject == IF \E rel \in ToSet(files) : _publishable_body_path(rel)
                       THEN "none" ELSE "acif.body.empty"
  <1>1. stage = "publishable" /\ GoOn(reject, "entry")
    BY DEF CheckPublishable
  <1>2. Read /\ tree # NoTree /\ Clean /\ Apart
    BY <1>1 DEF BodyInv, Behind, Rejects
  <1>3. ToSet(files) = Whole /\ Links = {} /\ Locked = {}
    BY <1>2 DEF Read
  <1>4. \A p \in Whole : _publishable_body_path(p) <=> ~Aside(p)
    BY DEF Whole, Seen, _publishable_body_path, _excluded_at_root, Aside
  <1>5. (\E rel \in ToSet(files) : _publishable_body_path(rel)) <=> Some
    BY <1>3, <1>4 DEF Some
  <1>6. ~Some => "acif.body.empty" \in Verdicts
    BY <1>2, <1>3 DEF Verdicts, Clean, Apart, Some
  <1>7. /\ Read' /\ BodyTypeOK' /\ BodyVerdict' /\ tree' = tree /\ tree' # NoTree
        /\ IF reject = "none" THEN stage' = "entry" ELSE stage' = "done"
    BY <1>1, <1>5, <1>6, GoOnInv DEF Rejects
  <1>8. Behind'
    BY <1>2, <1>5, <1>7, Same DEF Behind, Rejects
  <1> QED
    BY <1>7, <1>8 DEF BodyInv

LEMMA CheckEntryInv ==
  ASSUME BodyInv, CheckEntry
  PROVE  BodyInv'
  <1> DEFINE reject == IF entry_file \in ToSet(files) THEN "none" ELSE "acif.body.empty"
  <1>1. stage = "entry" /\ GoOn(reject, "hash")
    BY DEF CheckEntry
  <1>2. Read /\ tree # NoTree /\ Clean /\ Apart /\ Some
    BY <1>1 DEF BodyInv, Behind, Rejects
  <1>3. ToSet(files) = Whole /\ Links = {} /\ Locked = {}
    BY <1>2 DEF Read
  <1>4. entry_file \notin Whole => "acif.body.empty" \in Verdicts
    BY <1>2, <1>3 DEF Verdicts, Clean, Apart
  <1>5. /\ Read' /\ BodyTypeOK' /\ BodyVerdict' /\ tree' = tree /\ tree' # NoTree
        /\ IF reject = "none" THEN stage' = "hash" ELSE stage' = "done"
    BY <1>1, <1>3, <1>4, GoOnInv DEF Rejects
  <1>6. Behind'
    BY <1>2, <1>3, <1>5, Same DEF Behind, Rejects
  <1> QED
    BY <1>5, <1>6 DEF BodyInv

-----------------------------------------------------------------------------
(* The hash and the frontmatter. *)

LEMMA TakeHashInv ==
  ASSUME BodyInv, TakeHash
  PROVE  BodyInv'
  <1>1. /\ stage = "hash" /\ stage' = "parse" /\ BodyTypeOK /\ Behind
        /\ UNCHANGED <<tree, kind, todo, pending, files, parsed, section, verdict>>
    BY DEF TakeHash, BodyInv
  <1>2. BodyTypeOK'
    BY <1>1 DEF BodyTypeOK
  <1>3. Behind' /\ BodyVerdict'
    BY <1>1, Same DEF Behind, Rejects, Read, BodyVerdict
  <1> QED
    BY <1>2, <1>3 DEF BodyInv

\* Once a body has passed its rejects, every verdict on its frontmatter will do.
LEMMA Passed ==
  ASSUME Behind, \/ stage \in {"parse", "section"}
  PROVE  Verdicts = OfFrontmatter
  BY DEF Behind, Rejects, Read, Clean, Apart, Some, Verdicts

LEMMA LastInv ==
  ASSUME BodyInv, stage \in {"parse", "section"}, NEW id \in OfFrontmatter, Reject(id),
         UNCHANGED <<tree, kind, todo, pending, files, body>>
  PROVE  BodyInv'
  <1>1. stage' = "done" /\ verdict' = id /\ id # "none" /\ BodyTypeOK
    BY DEF Reject, OfFrontmatter, BodyInv
  <1>2. verdict' \in Verdicts'
    BY <1>1, Passed, Same DEF BodyInv, OfFrontmatter
  <1>3. BodyTypeOK'
    BY <1>1 DEF BodyTypeOK
  <1> QED
    BY <1>1, <1>2, <1>3 DEF BodyInv, Behind, BodyVerdict, Rejects

LEMMA ParseInv ==
  ASSUME BodyInv, Parse
  PROVE  BodyInv'
  <1>1. /\ stage = "parse" /\ BodyTypeOK /\ Behind
        /\ UNCHANGED <<tree, kind, todo, pending, files, body, section>>
    BY DEF Parse, BodyInv
  <1>2. \/ Reject("acif.frontmatter.malformed")
        \/ stage' = "section" /\ verdict' = verdict
    BY DEF Parse
  <1>3. CASE Reject("acif.frontmatter.malformed")
    BY <1>1, <1>3, LastInv DEF OfFrontmatter
  <1>4. CASE stage' = "section" /\ verdict' = verdict
    <2>1. BodyTypeOK'
      BY <1>1, <1>4 DEF BodyTypeOK
    <2>2. Behind' /\ BodyVerdict'
      BY <1>1, <1>4, Same DEF Behind, Rejects, Read, BodyVerdict
    <2> QED
      BY <2>1, <2>2 DEF BodyInv
  <1> QED
    BY <1>2, <1>3, <1>4

LEMMA PlaceInv ==
  ASSUME BodyInv, Place
  PROVE  BodyInv'
  <1>1. stage = "section" /\ UNCHANGED <<tree, kind, todo, pending, files, body>>
    BY DEF Place
  <1>2. SectionReject(parsed.keys, kind) \in OfFrontmatter \cup {"none"}
    BY DEF SectionReject, OfFrontmatter
  <1>3. \E id \in OfFrontmatter : Reject(id)
    BY <1>2 DEF Place, OfFrontmatter
  <1> QED
    BY <1>1, <1>3, LastInv

LEMMA CollectInv ==
  ASSUME BodyInv, Collect
  PROVE  BodyInv'
  <1>1. BodyTypeOK'
    BY DEF Collect, BodyTypeOK, bodyVars, NoTree
  <1> QED
    BY <1>1 DEF Collect, BodyInv, Behind, BodyVerdict, Rejects

LEMMA IdleInv ==
  ASSUME BodyInv, UNCHANGED bodyVars
  PROVE  BodyInv'
  <1>1. UNCHANGED <<stage, tree, kind, todo, pending, files, body, parsed, section, verdict>>
    BY DEF bodyVars
  <1>2. BodyTypeOK'
    BY <1>1 DEF BodyInv, BodyTypeOK, bodyVars
  <1>3. Behind' /\ BodyVerdict'
    BY <1>1, Same DEF BodyInv, Behind, Rejects, Read, Sound, Complete, Under, BodyVerdict
  <1> QED
    BY <1>2, <1>3 DEF BodyInv

LEMMA BodyStepInv == BodyInv /\ [BodyNext]_bodyVars => BodyInv'
  <1> SUFFICES ASSUME BodyInv, [BodyNext]_bodyVars PROVE BodyInv'
    OBVIOUS
  <1>1. CASE BodyBegin
    BY <1>1, BeginInv, ProviderInv DEF BodyBegin
  <1>2. CASE BodyStep
    BY <1>2, VisitInv, ReadFileInv, WalkedInv, CheckPathsInv, CheckCollisionsInv,
       CheckPublishableInv, CheckEntryInv, TakeHashInv, ParseInv, PlaceInv DEF BodyStep
  <1> QED
    BY <1>1, <1>2, CollectInv, IdleInv DEF BodyNext

-----------------------------------------------------------------------------
(* What holds of every body. *)

\* The type invariant.
THEOREM BodyTypeCorrect == BodySpec => []BodyTypeOK
  <1>1. BodyInv => BodyTypeOK
    BY DEF BodyInv
  <1> QED
    BY BodyInitInv, BodyStepInv, <1>1, PTL DEF BodySpec

\* What a body is rejected with depends on the body alone, not on the order of
\* the walk: core section 7.4's order of precedence.
THEOREM RejectPrecedence == BodySpec => []BodyVerdict
  <1>1. BodyInv => BodyVerdict
    BY DEF BodyInv
  <1> QED
    BY BodyInitInv, BodyStepInv, <1>1, PTL DEF BodySpec

-----------------------------------------------------------------------------
(* Of a text, each word is in the frontmatter or after it. *)

\* Of some places, one comes first.
LEMMA Least ==
  ASSUME NEW S \in SUBSET Nat, S # {}
  PROVE  Min(S) \in S /\ \A y \in S : Min(S) <= y
  <1> DEFINE R == OpToRel(<, Nat)
  <1>1. PICK x \in S : \A y \in S : <<y, x>> \notin R
    <2> HIDE DEF R
    <2>1. IsWellFoundedOn(R, Nat)
      BY NatLessThanWellFounded DEF R
    <2> QED
      BY <2>1, WFMin
  <1>3. ASSUME NEW a \in Nat, NEW b \in Nat, <<b, a>> \notin R
        PROVE  a <= b
    BY <1>3 DEF OpToRel
  <1>2. \A y \in S : x <= y
    BY <1>1, <1>3
  <1> QED
    BY <1>2 DEF Min

-----------------------------------------------------------------------------
(* canonical_text, for every text.  What a place of the text begins is told  *)
(* by the places after it: of the places where it were not so, the last one  *)
(* would be one after all.                                                   *)

\* The places of a set in their order, with one more before them.
LEMMA NthMore ==
  ASSUME NEW R \in SUBSET Nat, IsFiniteSet(R), NEW i \in Nat, \A j \in R : i < j
  PROVE  /\ Cardinality(R \cup {i}) = Cardinality(R) + 1 /\ Cardinality(R) \in Nat
         /\ Nth(R \cup {i}, 1) = i
         /\ \A k \in 2..(Cardinality(R) + 1) : Nth(R \cup {i}, k) = Nth(R, k - 1)
  <1> DEFINE K == R \cup {i}
             Below(S, j) == {l \in S : l < j}
             Rank(S, j) == Cardinality(Below(S, j))
  <1>1. i \notin R
    <2>1. ~(i < i)
      OBVIOUS
    <2> QED
      BY <2>1
  <1>2. Cardinality(K) = Cardinality(R) + 1 /\ Cardinality(R) \in Nat
    BY <1>1, FS_AddElement, FS_CardinalityType
  <1>3. Rank(K, i) = 0
    <2>1. Below(K, i) = {}
      <3>1. ASSUME NEW l \in R PROVE ~(l < i)
        BY <3>1
      <3>2. ~(i < i)
        OBVIOUS
      <3> QED
        BY <3>1, <3>2
    <2> QED
      BY <2>1, FS_EmptySet
  <1>4. ASSUME NEW j \in R PROVE Rank(K, j) = Rank(R, j) + 1 /\ Rank(R, j) \in Nat
    <2>1. Below(K, j) = Below(R, j) \cup {i}
      OBVIOUS
    <2>2. IsFiniteSet(Below(R, j)) /\ i \notin Below(R, j)
      BY <1>1, FS_Subset
    <2> HIDE DEF Below
    <2> QED
      BY <2>1, <2>2, FS_AddElement, FS_CardinalityType
  <1> HIDE DEF Rank
  <1>5. Nth(K, 1) = i
    <2>1. \A j \in K : Rank(K, j) = 1 - 1 => j = i
      <3>1. ASSUME NEW j \in R PROVE Rank(K, j) # 1 - 1
        BY <1>4
      <3> QED
        BY <3>1
    <2>2. Nth(K, 1) = CHOOSE j \in K : Rank(K, j) = 1 - 1
      BY DEF Nth, Rank
    <2>3. i \in K /\ Rank(K, i) = 1 - 1
      BY <1>3
    <2>4. Nth(K, 1) \in K /\ Rank(K, Nth(K, 1)) = 1 - 1
      BY <2>2, <2>3, Zenon
    <2> QED
      BY <2>1, <2>4
  <1>6. ASSUME NEW k \in 2..(Cardinality(R) + 1) PROVE Nth(K, k) = Nth(R, k - 1)
    <2>1. k \in Int /\ k >= 2
      BY <1>2
    <2>2. \A j : (j \in K /\ Rank(K, j) = k - 1) <=> (j \in R /\ Rank(R, j) = k - 1 - 1)
      <3>1. ASSUME NEW j \in R
            PROVE  Rank(K, j) = k - 1 <=> Rank(R, j) = k - 1 - 1
        BY <1>4, <2>1
      <3>2. Rank(K, i) # k - 1
        BY <1>3, <2>1
      <3> QED
        BY <1>1, <3>1, <3>2
    <2>3. (CHOOSE j : j \in K /\ Rank(K, j) = k - 1)
            = (CHOOSE j : j \in R /\ Rank(R, j) = k - 1 - 1)
      BY <2>2, Zenon
    <2>4. /\ Nth(K, k) = CHOOSE j : j \in K /\ Rank(K, j) = k - 1
          /\ Nth(R, k - 1) = CHOOSE j : j \in R /\ Rank(R, j) = k - 1 - 1
      BY DEF Nth, Rank
    <2> QED
      BY <2>3, <2>4
  <1> QED
    BY <1>2, <1>5, <1>6

\* The words there.
LEMMA WordsMore ==
  ASSUME NEW t, NEW R \in SUBSET Nat, IsFiniteSet(R), NEW i \in Nat, \A j \in R : i < j,
         WordsAt(t, R) \in Seq(Word), LineEnd(t[i]) \in Word
  PROVE  WordsAt(t, R \cup {i}) = <<LineEnd(t[i])>> \o WordsAt(t, R)
  <1> DEFINE K == R \cup {i}
             a == WordsAt(t, R)
             b == WordsAt(t, K)
             w == LineEnd(t[i])
             n == Cardinality(R)
             c == <<w>> \o a
  <1>1. /\ Cardinality(K) = n + 1 /\ n \in Nat /\ Nth(K, 1) = i
        /\ \A k \in 2..(n + 1) : Nth(K, k) = Nth(R, k - 1)
    BY NthMore
  <1>2. /\ a = [k \in 1..n |-> LineEnd(t[Nth(R, k)])]
        /\ b = [k \in 1..(n + 1) |-> LineEnd(t[Nth(K, k)])]
    BY <1>1 DEF WordsAt
  <1>3. DOMAIN a = 1..n /\ a \in Seq(Word)
    BY <1>2
  <1>4. Len(a) = n
    <2> HIDE DEF a, n
    <2>1. Len(a) \in Nat /\ DOMAIN a = 1..Len(a)
      BY <1>3, LenProperties
    <2> QED
      BY <1>1, <1>3, <2>1
  <1>5. /\ c \in Seq(Word) /\ Len(c) = n + 1
        /\ \A k \in 1..(n + 1) : c[k] = IF k <= 1 THEN w ELSE a[k - 1]
    <2> HIDE DEF a, w, n
    <2>1. <<w>> \in Seq(Word) /\ Len(<<w>>) = 1 /\ <<w>>[1] = w
      BY DEF w
    <2> DEFINE d == <<w>>
    <2> HIDE DEF d
    <2>2. /\ d \in Seq(Word) /\ Len(d) = 1 /\ d[1] = w
      BY <2>1 DEF d
    <2>6. /\ d \o a \in Seq(Word) /\ Len(d \o a) = Len(d) + Len(a)
          /\ \A k \in 1..(Len(d) + Len(a)) :
                (d \o a)[k] = IF k <= Len(d) THEN d[k] ELSE a[k - Len(d)]
      BY <1>3, <2>2, ConcatProperties
    <2>3. /\ d \o a \in Seq(Word) /\ Len(d \o a) = 1 + n
          /\ \A k \in 1..(1 + n) : (d \o a)[k] = IF k <= 1 THEN d[k] ELSE a[k - 1]
      BY <1>4, <2>2, <2>6
    <2>4. ASSUME NEW k \in 1..(n + 1) PROVE (d \o a)[k] = IF k <= 1 THEN w ELSE a[k - 1]
      <3>1. k \in 1..(1 + n) /\ (k <= 1 => k = 1)
        BY <1>1
      <3> QED
        BY <2>2, <2>3, <3>1
    <2>5. 1 + n = n + 1
      BY <1>1
    <2> QED
      BY <2>3, <2>4, <2>5 DEF d
  <1>6. ASSUME NEW k \in 1..(n + 1) PROVE b[k] = c[k]
    <2> HIDE DEF a, b, c, n
    <2>1. CASE k = 1
      <3>1. b[k] = LineEnd(t[i])
        BY <1>1, <1>2, <2>1
      <3>2. c[k] = LineEnd(t[i])
        BY <1>5, <2>1
      <3> QED
        BY <3>1, <3>2
    <2>2. CASE k # 1
      <3>1. k \in 2..(n + 1) /\ k - 1 \in 1..n /\ ~(k <= 1)
        BY <1>1, <2>2
      <3>2. b[k] = LineEnd(t[Nth(R, k - 1)])
        BY <1>1, <1>2, <3>1
      <3>3. a[k - 1] = LineEnd(t[Nth(R, k - 1)])
        BY <1>2, <3>1
      <3> QED
        BY <1>5, <3>1, <3>2, <3>3
    <2> QED
      BY <2>1, <2>2
  <1>7. c = [k \in 1..(n + 1) |-> c[k]]
    <2> HIDE DEF c
    <2>1. c \in [1..(n + 1) -> Word]
      BY <1>5, LenProperties
    <2> QED
      BY <2>1
  <1> HIDE DEF c, n
  <1>8. b = [k \in 1..(n + 1) |-> b[k]]
    BY <1>2
  <1> HIDE DEF a, b
  <1> QED
    BY <1>6, <1>7, <1>8 DEF a, b, c

\* The recursion of canonical_text.
Unfolded(t) == CHOOSE out : out = [i \in 1..(Len(t) + 2) |-> LfFrom(t, i, out)]

LEMMA IsUnfolded ==
  ASSUME NEW data
  PROVE  canonical_text(data) = Unfolded(NoBom(data))[1]
  BY DEF canonical_text, Unfolded

\* Only the places after it count.
LEMMA OnlyAfter ==
  ASSUME NEW t, Len(t) \in Nat, NEW i \in Nat, NEW f, NEW g,
         \A k \in (i + 1)..(Len(t) + 2) : f[k] = g[k]
  PROVE  LfFrom(t, i, f) = LfFrom(t, i, g)
  <1>1. CASE i > Len(t)
    BY <1>1 DEF LfFrom
  <1>2. CASE i <= Len(t)
    <2>1. i + 1 \in (i + 1)..(Len(t) + 2) /\ i + 2 \in (i + 1)..(Len(t) + 2)
      BY <1>2
    <2>2. f[i + 1] = g[i + 1] /\ f[i + 2] = g[i + 2]
      BY <2>1
    <2> QED
      BY <2>2, Zenon DEF LfFrom
  <1> QED
    BY <1>1, <1>2

\* So the recursion has a value, from the end of the text on.
LEMMA Unfolds ==
  ASSUME NEW t, Len(t) \in Nat
  PROVE  \A i \in 1..(Len(t) + 2) : Unfolded(t)[i] = LfFrom(t, i, Unfolded(t))
  <1> DEFINE n == Len(t) + 2
             From(j, f) == f = [i \in j..n |-> LfFrom(t, i, f)]
             Good(j) == \E f : From(j, f)
             Bad == {d \in Nat : d < n /\ ~Good(n - d)}
  <1>1. n \in Nat /\ n > 1
    OBVIOUS
  <1>2. ASSUME NEW j \in 1..n, j < n => Good(j + 1)
        PROVE  Good(j)
    <2>1. CASE j = n
      <3> DEFINE f == [i \in n..n |-> <<>>]
      <3>1. \A i \in n..n : LfFrom(t, i, f) = <<>>
        BY DEF LfFrom
      <3>2. From(n, f)
        BY <3>1
      <3> QED
        BY <2>1, <3>2
    <2>2. CASE j < n
      <3>1. PICK f : From(j + 1, f)
        BY <1>2, <2>2
      <3> DEFINE g == [i \in j..n |-> IF i = j THEN LfFrom(t, j, f) ELSE f[i]]
      <3>2. j \in Nat
        OBVIOUS
      <3>3. \A k \in (j + 1)..n : g[k] = f[k]
        BY <1>1, <3>2
      <3>4. g[j] = LfFrom(t, j, f)
        BY <1>1, <3>2, <2>2
      <3>5. ASSUME NEW i \in j..n PROVE g[i] = LfFrom(t, i, g)
        <4>1. LfFrom(t, i, f) = LfFrom(t, i, g)
          <5>1. \A k \in (i + 1)..n : k \in (j + 1)..n
            BY <1>1, <3>2
          <5>2. i \in Nat
            BY <3>2
          <5> HIDE DEF g
          <5> QED
            BY <3>3, <5>1, <5>2, OnlyAfter
        <4>2. g[i] = LfFrom(t, i, f)
          <5>1. CASE i = j
            BY <3>4, <5>1
          <5>2. CASE i # j
            <6>1. i \in (j + 1)..n
              BY <1>1, <3>2, <5>2
            <6>2. f[i] = LfFrom(t, i, f)
              BY <3>1, <6>1
            <6> QED
              BY <3>3, <6>1, <6>2
          <5> QED
            BY <5>1, <5>2
        <4> QED
          BY <4>1, <4>2
      <3>6. g = [i \in j..n |-> g[i]]
        OBVIOUS
      <3> HIDE DEF g, n
      <3>7. From(j, g)
        BY <3>5, <3>6
      <3> QED
        BY <3>7
    <2> HIDE DEF Good
    <2> QED
      BY <1>1, <2>1, <2>2
  <1> HIDE DEF Good, n
  <1>3. Bad = {}
    <2> SUFFICES ASSUME Bad # {} PROVE FALSE
      OBVIOUS
    <2>1. PICK d \in Bad : \A e \in Bad : d <= e
      BY Least
    <2>2. d \in Nat /\ d < n /\ ~Good(n - d)
      OBVIOUS
    <2>3. n - d \in 1..n
      BY <1>1, <2>2
    <2>4. n - d < n => Good(n - d + 1)
      <3> SUFFICES ASSUME n - d < n PROVE Good(n - d + 1)
        OBVIOUS
      <3>1. d - 1 \in Nat /\ d - 1 < n /\ ~(d <= d - 1) /\ n - (d - 1) = n - d + 1
        BY <1>1, <2>2
      <3>2. d - 1 \notin Bad
        BY <2>1, <3>1
      <3> QED
        BY <3>1, <3>2
    <2> QED
      BY <1>2, <2>2, <2>3, <2>4
  <1>4. Good(1)
    <2>1. n - 1 \in Nat /\ n - 1 < n /\ n - (n - 1) = 1
      BY <1>1
    <2>2. n - 1 \notin Bad
      BY <1>3
    <2> QED
      BY <2>1, <2>2
  <1>5. Unfolded(t) = [i \in 1..n |-> LfFrom(t, i, Unfolded(t))]
    BY <1>4 DEF Good, n, Unfolded
  <1> QED
    BY <1>5 DEF n

\* The places from i on that stand for a word of the text.
MeantFrom(t, i) == {j \in Meant(t) : i <= j}

LEMMA MeantNext ==
  ASSUME NEW t \in Seq(Word), NEW i \in 1..(Len(t) + 1)
  PROVE  /\ MeantFrom(t, i) \in SUBSET Nat /\ IsFiniteSet(MeantFrom(t, i))
         /\ i > Len(t) => MeantFrom(t, i) = {}
         /\ \A j \in MeantFrom(t, i + 1) : i < j
         /\ i \in Meant(t) => MeantFrom(t, i) = MeantFrom(t, i + 1) \cup {i}
         /\ i \notin Meant(t) => MeantFrom(t, i) = MeantFrom(t, i + 1)
  <1> DEFINE M == MeantFrom(t, i)
             R == MeantFrom(t, i + 1)
  <1>1. Len(t) \in Nat /\ DOMAIN t = 1..Len(t) /\ i \in Nat
    BY LenProperties
  <1>2. Meant(t) \subseteq 1..Len(t)
    BY <1>1 DEF Meant
  <1>3. \A j : (j \in M <=> j \in Meant(t) /\ i <= j) /\ (j \in R <=> j \in Meant(t) /\ i + 1 <= j)
    BY DEF MeantFrom
  <1> HIDE DEF M, R
  <1>4. \A j \in 1..Len(t) : j \in Nat /\ (i + 1 <= j <=> i <= j /\ j # i) /\ (i + 1 <= j => i < j)
    BY <1>1
  <1>5. M \in SUBSET (1..Len(t)) /\ M \in SUBSET Nat
    BY <1>2, <1>3, <1>4
  <1>6. IsFiniteSet(M)
    <2>1. IsFiniteSet(1..Len(t))
      BY <1>1, FS_Interval
    <2> QED
      BY <1>5, <2>1, FS_Subset
  <1>7. i > Len(t) => M = {}
    BY <1>1, <1>2, <1>3
  <1>8. \A j \in R : i < j
    BY <1>2, <1>3, <1>4
  <1>9. \A j : j \in R <=> j \in M /\ j # i
    BY <1>2, <1>3, <1>4
  <1>10. i \in M <=> i \in Meant(t)
    BY <1>1, <1>3
  <1> QED
    BY <1>5, <1>6, <1>7, <1>8, <1>9, <1>10 DEF M, R

\* What canonical_text makes of the text from a place on, given what it makes
\* of it from the places after.
Right(t, i) ==
    /\ Unfolded(t)[i] \in Seq(Word)
    /\ (i > Len(t) \/ i \in Meant(t)) => Unfolded(t)[i] = WordsAt(t, MeantFrom(t, i))

LEMMA EndIsWord ==
  ASSUME NEW word \in Word PROVE LineEnd(word) \in Word
  BY WordAssumption DEF LineEnd

LEMMA RightBefore ==
  ASSUME NEW t \in Seq(Word), NEW i \in 1..(Len(t) + 1),
         \A k \in (i + 1)..(Len(t) + 1) : Right(t, k)
  PROVE  Right(t, i)
  <1> DEFINE out == Unfolded(t)
             n == Len(t)
             R == MeantFrom(t, i + 1)
  <1>1. /\ n \in Nat /\ DOMAIN t = 1..n /\ i \in Nat
        /\ \A j \in 1..n : t[j] \in Word
    BY LenProperties, ElementOfSeq
  <1>2. out[i] = LfFrom(t, i, out)
    BY <1>1, Unfolds
  <1> HIDE DEF out
  <1>3. CASE i > n
    <2>1. out[i] = <<>>
      BY <1>1, <1>2, <1>3 DEF LfFrom
    <2>2. MeantFrom(t, i) = {}
      BY <1>3, MeantNext
    <2>3. WordsAt(t, {}) = <<>>
      <3>1. Cardinality({}) = 0 /\ 1..0 = {}
        BY FS_EmptySet
      <3>2. WordsAt(t, {}) = [k \in {} |-> LineEnd(t[Nth({}, k)])]
        BY <3>1 DEF WordsAt
      <3> QED
        BY <3>2
    <2> QED
      BY <2>1, <2>2, <2>3 DEF Right, out
  <1>4. CASE i <= n
    <2>1. i + 1 \in (i + 1)..(n + 1)
      BY <1>1, <1>4
    <2>2. out[i + 1] \in Seq(Word)
      BY <2>1 DEF Right, out
    <2>3. /\ R \in SUBSET Nat /\ IsFiniteSet(R) /\ \A j \in R : i < j
          /\ i \in Meant(t) => MeantFrom(t, i) = R \cup {i}
      <3>1. i + 1 \in 1..(n + 1)
        BY <1>1, <1>4
      <3>2. R \in SUBSET Nat /\ IsFiniteSet(R)
        BY <3>1, MeantNext
      <3> QED
        BY <3>2, MeantNext
    <2>4. ASSUME NEW rest \in Seq(Word), rest = WordsAt(t, R),
                 out[i] = <<LineEnd(t[i])>> \o rest
          PROVE  Right(t, i)
      <3>1. LineEnd(t[i]) \in Word
        <4>1. t[i] \in Word
          BY <1>1, <1>4
        <4> QED
          BY <4>1, EndIsWord
      <3>2. out[i] \in Seq(Word)
        <4> DEFINE w == <<LineEnd(t[i])>>
        <4>1. w \in Seq(Word)
          BY <3>1
        <4> HIDE DEF w
        <4>2. w \o rest \in Seq(Word)
          BY <4>1, ConcatProperties
        <4> QED
          BY <2>4, <4>2 DEF w
      <3>3. WordsAt(t, R) \in Seq(Word)
        BY <2>4
      <3> HIDE DEF R
      <3>4. WordsAt(t, R \cup {i}) = <<LineEnd(t[i])>> \o WordsAt(t, R)
        BY <1>1, <2>3, <3>1, <3>3, WordsMore
      <3>5. i \in Meant(t) => out[i] = WordsAt(t, MeantFrom(t, i))
        BY <2>3, <2>4, <3>4
      <3>6. ~(i > n)
        BY <1>1, <1>4
      <3> QED
        BY <3>2, <3>5, <3>6 DEF Right, out
    <2>5. i + 1 > n \/ t[i] # "CR" \/ t[i + 1] # "LF" => out[i + 1] = WordsAt(t, R)
      <3>1. i + 1 > n \/ i + 1 \in DOMAIN t
        BY <1>1, <1>4
      <3>2. i + 1 - 1 = i
        BY <1>1
      <3>3. (t[i] # "CR" \/ t[i + 1] # "LF") => i + 1 > n \/ i + 1 \in Meant(t)
        BY <3>1, <3>2 DEF Meant
      <3> QED
        BY <2>1, <3>3 DEF Right, out
    <2>6. CASE t[i] # "CR"
      <3>1. out[i] = <<t[i]>> \o out[i + 1]
        BY <1>2, <1>1, <1>4, <2>6 DEF LfFrom
      <3>2. LineEnd(t[i]) = t[i]
        BY <2>6 DEF LineEnd
      <3> QED
        BY <2>2, <2>4, <2>5, <2>6, <3>1, <3>2
    <2>7. CASE t[i] = "CR" /\ ~(i < n /\ t[i + 1] = "LF")
      <3>1. out[i] = <<"LF">> \o out[i + 1]
        BY <1>2, <1>1, <1>4, <2>7, SMTT(20) DEF LfFrom
      <3>2. LineEnd(t[i]) = "LF"
        BY <2>7 DEF LineEnd
      <3>3. i + 1 > n \/ t[i + 1] # "LF"
        BY <1>1, <1>4, <2>7
      <3> QED
        BY <2>2, <2>4, <2>5, <3>1, <3>2, <3>3
    <2>8. CASE t[i] = "CR" /\ i < n /\ t[i + 1] = "LF"
      <3>1. out[i] = <<"LF">> \o out[i + 2]
        BY <1>2, <1>1, <1>4, <2>8, SMTT(20) DEF LfFrom
      <3>2. LineEnd(t[i]) = "LF"
        BY <2>8 DEF LineEnd
      <3>3. i + 2 \in (i + 1)..(n + 1) /\ i + 1 \in DOMAIN t /\ i + 1 > 1 /\ i + 1 - 1 = i
            /\ i + 1 \in 1..(n + 1) /\ i + 1 + 1 = i + 2
        BY <1>1, <2>8
      <3>4. i + 1 \notin Meant(t)
        BY <2>8, <3>3 DEF Meant
      <3>5. R = MeantFrom(t, i + 2)
        BY <3>3, <3>4, MeantNext
      <3>6. i + 2 > n \/ i + 2 \in Meant(t)
        <4>1. i + 2 > n \/ i + 2 \in DOMAIN t
          BY <1>1, <2>8
        <4>2. i + 2 - 1 = i + 1
          BY <1>1
        <4> QED
          BY <2>8, <4>1, <4>2 DEF Meant
      <3>7. out[i + 2] \in Seq(Word) /\ out[i + 2] = WordsAt(t, R)
        BY <3>3, <3>5, <3>6 DEF Right, out
      <3> QED
        BY <2>4, <3>1, <3>2, <3>7
    <2> QED
      BY <2>6, <2>7, <2>8
  <1> QED
    BY <1>1, <1>3, <1>4

LEMMA AllRight ==
  ASSUME NEW t \in Seq(Word)
  PROVE  \A i \in 1..(Len(t) + 1) : Right(t, i)
  <1> DEFINE n == Len(t)
             Bad == {d \in Nat : d <= n /\ ~Right(t, n + 1 - d)}
  <1>1. n \in Nat
    BY LenProperties
  <1> HIDE DEF n
  <1>2. Bad = {}
    <2> SUFFICES ASSUME Bad # {} PROVE FALSE
      OBVIOUS
    <2>1. PICK d \in Bad : \A e \in Bad : d <= e
      BY Least
    <2>2. d \in Nat /\ d <= n /\ ~Right(t, n + 1 - d)
      OBVIOUS
    <2>3. n + 1 - d \in 1..(n + 1)
      BY <1>1, <2>2
    <2>4. ASSUME NEW k \in (n + 1 - d + 1)..(n + 1) PROVE Right(t, k)
      <3>1. /\ n + 1 - k \in Nat /\ n + 1 - k <= n /\ ~(d <= n + 1 - k)
            /\ n + 1 - (n + 1 - k) = k
        BY <1>1, <2>2
      <3>2. n + 1 - k \notin Bad
        BY <2>1, <3>1
      <3> QED
        BY <3>1, <3>2
    <2> QED
      BY <2>2, <2>3, <2>4, RightBefore DEF n
  <1>3. ASSUME NEW i \in 1..(n + 1) PROVE Right(t, i)
    <2>1. n + 1 - i \in Nat /\ n + 1 - i <= n /\ n + 1 - (n + 1 - i) = i
      BY <1>1
    <2>2. n + 1 - i \notin Bad
      BY <1>2
    <2> QED
      BY <2>1, <2>2
  <1> QED
    BY <1>3 DEF n

\* What canonical_text computes of any text is the text of section 7.3: without
\* a byte order mark, each CR LF and each CR by itself one LF, and no word else
\* changed or lost.
THEOREM CanonicalText ==
  ASSUME NEW data \in Seq(Word)
  PROVE  canonical_text(data) \in Seq(Word) /\ canonical_text(data) = PlainText(data)
  <1> DEFINE t == NoBom(data)
  <1>1. t \in Seq(Word)
    BY HeadTailProperties DEF NoBom
  <1> HIDE DEF t
  <1>2. Len(t) \in Nat /\ DOMAIN t = 1..Len(t)
    BY <1>1, LenProperties
  <1>3. 1 \in 1..(Len(t) + 1)
    BY <1>2
  <1>4. Right(t, 1)
    BY <1>1, <1>3, AllRight
  <1>5. 1 > Len(t) \/ 1 \in Meant(t)
    <2>1. 1 > Len(t) \/ 1 \in DOMAIN t
      BY <1>2
    <2> QED
      BY <2>1 DEF Meant
  <1>6. MeantFrom(t, 1) = Meant(t)
    <2>1. Meant(t) \subseteq 1..Len(t)
      BY <1>2 DEF Meant
    <2>2. \A j \in 1..Len(t) : 1 <= j
      BY <1>2
    <2> QED
      BY <2>1, <2>2 DEF MeantFrom
  <1>7. Unfolded(t)[1] \in Seq(Word) /\ Unfolded(t)[1] = WordsAt(t, Meant(t))
    BY <1>4, <1>5, <1>6 DEF Right
  <1>8. canonical_text(data) = Unfolded(t)[1]
    BY IsUnfolded DEF t
  <1>9. PlainText(data) = WordsAt(t, Meant(t))
    BY DEF PlainText, t
  <1> QED
    BY <1>7, <1>8, <1>9

-----------------------------------------------------------------------------
(* Of a text, each word is in the frontmatter or after it. *)

\* Cutting a text leaves texts, which together are the text.
LEMMA Cuts ==
  ASSUME NEW t \in Seq(Word), NEW i \in 0..Len(t), NEW j \in i..Len(t)
  PROVE  /\ SubSeq(t, i + 1, j) \in Seq(Word) /\ Len(SubSeq(t, i + 1, j)) = j - i
         /\ SubSeq(t, 1, i) \o SubSeq(t, i + 1, j) = SubSeq(t, 1, j)
         /\ SubSeq(t, 1, Len(t)) = t
  <1>1. Len(t) \in Nat /\ i \in Nat /\ j \in Nat /\ i <= j /\ j <= Len(t)
    BY LenProperties
  <1>2. \A k \in (i + 1)..j : t[k] \in Word
    BY <1>1, ElementOfSeq
  <1>3. i + 1 \in Int /\ j \in Int
    BY <1>1
  <1> DEFINE c == SubSeq(t, i + 1, j)
  <1>4. c \in Seq(Word) /\ Len(c) = IF i + 1 <= j THEN j - (i + 1) + 1 ELSE 0
    BY <1>2, <1>3, SubSeqProperties
  <1>5. Len(c) = j - i
    BY <1>1, <1>4
  <1>6. 1 \in 1..(Len(t) + 1) /\ i \in (1 - 1)..Len(t) /\ j \in i..Len(t)
    BY <1>1
  <1>7. SubSeq(t, 1, i) \o SubSeq(t, i + 1, j) = SubSeq(t, 1, j)
    BY <1>6, ConcatAdjacentSubSeq
  <1>8. SubSeq(t, 1, Len(t)) = t
    BY SubSeqFull
  <1> QED
    BY <1>4, <1>5, <1>7, <1>8

\* Two words of a text, or one.
LEMMA Words2 ==
  ASSUME NEW t \in Seq(Word), NEW i \in 1..Len(t)
  PROVE  /\ SubSeq(t, i, i) = <<t[i]>>
         /\ i < Len(t) => SubSeq(t, i, i + 1) = <<t[i], t[i + 1]>>
  <1>1. Len(t) \in Nat /\ i \in Nat /\ t[i] \in Word
    BY LenProperties, ElementOfSeq
  <1>2. SubSeq(t, i, i) = <<t[i]>>
    <2> DEFINE c == SubSeq(t, i, i)
    <2>1. \A k \in i..i : t[k] \in Word
      BY <1>1
    <2>2. /\ c \in Seq(Word) /\ Len(c) = IF i <= i THEN i - i + 1 ELSE 0
          /\ \A k \in 1..(i - i + 1) : c[k] = t[i + k - 1]
      BY <1>1, <2>1, SubSeqProperties
    <2>3. Len(c) = 1 /\ c[1] = t[i]
      BY <1>1, <2>2
    <2>4. <<t[i]>> \in Seq(Word) /\ Len(<<t[i]>>) = 1
      BY <1>1
    <2> HIDE DEF c
    <2>5. \A k \in 1..Len(c) : c[k] = <<t[i]>>[k]
      BY <2>3
    <2> QED
      BY <2>2, <2>3, <2>4, <2>5, SeqEqual DEF c
  <1>3. ASSUME i < Len(t) PROVE SubSeq(t, i, i + 1) = <<t[i], t[i + 1]>>
    <2> DEFINE c == SubSeq(t, i, i + 1)
               d == <<t[i], t[i + 1]>>
    <2>1. i + 1 \in 1..Len(t) /\ i + 1 \in Int
      BY <1>1, <1>3
    <2>2. t[i + 1] \in Word
      BY <2>1, ElementOfSeq
    <2>3. \A k \in i..(i + 1) : t[k] \in Word
      BY <1>1, <2>1, <2>2
    <2>4. /\ c \in Seq(Word) /\ Len(c) = IF i <= i + 1 THEN i + 1 - i + 1 ELSE 0
          /\ \A k \in 1..(i + 1 - i + 1) : c[k] = t[i + k - 1]
      BY <1>1, <2>1, <2>3, SubSeqProperties
    <2>5. Len(c) = 2 /\ c[1] = t[i] /\ c[2] = t[i + 1]
      BY <1>1, <2>4
    <2>6. d \in Seq(Word) /\ Len(d) = 2 /\ d[1] = t[i] /\ d[2] = t[i + 1]
      BY <1>1, <2>2
    <2> HIDE DEF c, d
    <2>7. \A k \in 1..Len(c) : c[k] = d[k]
      BY <2>5, <2>6
    <2> QED
      BY <2>4, <2>5, <2>6, <2>7, SeqEqual DEF c, d
  <1> QED
    BY <1>2, <1>3

\* The two forms of a delimiter.
Line   == <<"---", "LF">>
Dashes == <<"---">>

\* The parts of a text around a closing line at m.
Within(t, m) == SubSeq(t, 3, m)
Beyond(t, m) == SubSeq(t, m + 3, Len(t))

\* A frontmatter ends at a closing line, the first one, or at the end.
LEMMA Delimiters ==
  ASSUME NEW t \in Seq(Word), Opens(t), Closings(t) # {} \/ ClosesAtEnd(t)
  PROVE  /\ Closings(t) # {} =>
              /\ Min(Closings(t)) \in 2..(Len(t) - 2)
              /\ t[Min(Closings(t)) + 1] = "---" /\ t[Min(Closings(t)) + 2] = "LF"
         /\ Closings(t) = {} => Len(t) > 2 /\ t[Len(t)] = "---"
         /\ SubSeq(t, 1, 2) = Line
  <1>1. Len(t) \in Nat /\ Len(t) > 1 /\ t[1] = "---" /\ t[2] = "LF"
    BY LenProperties DEF Opens
  <1>2. Closings(t) \in SUBSET Nat
    BY <1>1 DEF Closings
  <1>3. ASSUME Closings(t) # {}
        PROVE  /\ Min(Closings(t)) \in 2..(Len(t) - 2)
               /\ t[Min(Closings(t)) + 1] = "---" /\ t[Min(Closings(t)) + 2] = "LF"
    <2>1. Min(Closings(t)) \in Closings(t)
      BY <1>2, <1>3, Least
    <2> QED
      BY <2>1 DEF Closings
  <1>4. 1 \in 1..Len(t) /\ 1 < Len(t) /\ 1 + 1 = 2
    BY <1>1
  <1>5. SubSeq(t, 1, 2) = Line
    BY <1>1, <1>4, Words2 DEF Line
  <1> QED
    BY <1>3, <1>5 DEF ClosesAtEnd

\* The piece of a text from place k on.
LEMMA Piece ==
  ASSUME NEW t \in Seq(Word), NEW i \in 0..Len(t), NEW j \in i..Len(t),
         NEW k, k = i + 1, NEW c, c = SubSeq(t, k, j)
  PROVE  /\ c \in Seq(Word) /\ Len(c) = j - i
         /\ SubSeq(t, 1, i) \o c = SubSeq(t, 1, j)
  BY Cuts

\* Two parts of a text around its second delimiter.
LEMMA AroundLine ==
  ASSUME NEW t \in Seq(Word), NEW m \in 2..(Len(t) - 2),
         SubSeq(t, 1, 2) = Line, t[m + 1] = "---", t[m + 2] = "LF"
  PROVE  /\ Line \o Within(t, m) \o Line \o Beyond(t, m) = t
         /\ Line \o Within(t, m) \o Dashes \o Beyond(t, m) # t
  <1> DEFINE n == Len(t)
             block == Within(t, m)
             rest == Beyond(t, m)
             a == Line \o block
             b == a \o Dashes
  <1>0. /\ n \in Nat /\ m \in Nat /\ 2 <= m /\ m + 2 <= n
    BY LenProperties
  <1>1. block \in Seq(Word) /\ Len(block) = m - 2 /\ a = SubSeq(t, 1, m)
    <2>1. 2 \in 0..n /\ m \in 2..n /\ 3 = 2 + 1
      BY <1>0
    <2>2. block \in Seq(Word) /\ Len(block) = m - 2 /\ SubSeq(t, 1, 2) \o block = SubSeq(t, 1, m)
      BY <2>1, Piece DEF Within
    <2> QED
      BY <2>2
  <1>2. a \o Line = SubSeq(t, 1, m + 2)
    <2>1. m + 1 \in 1..n /\ m + 1 < n /\ m + 1 + 1 = m + 2
      BY <1>0
    <2>2. SubSeq(t, m + 1, m + 1 + 1) = <<t[m + 1], t[m + 1 + 1]>>
      BY <2>1, Words2
    <2>3. SubSeq(t, m + 1, m + 2) = Line
      BY <2>1, <2>2 DEF Line
    <2>4. m \in 0..n /\ m + 2 \in m..n
      BY <1>0
    <2> HIDE DEF n
    <2>5. SubSeq(t, 1, m) \o SubSeq(t, m + 1, m + 2) = SubSeq(t, 1, m + 2)
      BY <2>4, Cuts DEF n
    <2> QED
      BY <1>1, <2>3, <2>5
  <1>3. rest \in Seq(Word) /\ Len(rest) = n - (m + 2) /\ SubSeq(t, 1, m + 2) \o rest = t
    <2>1. m + 2 \in 0..n /\ n \in (m + 2)..n /\ m + 3 = m + 2 + 1
      BY <1>0
    <2>2. rest = SubSeq(t, m + 2 + 1, n)
      BY <2>1 DEF Beyond
    <2> HIDE DEF rest
    <2> HIDE DEF n
    <2>3. /\ rest \in Seq(Word) /\ Len(rest) = n - (m + 2)
          /\ SubSeq(t, 1, m + 2) \o rest = SubSeq(t, 1, n)
      BY <2>1, <2>2, Cuts DEF n
    <2> QED
      BY <2>3, SubSeqFull DEF n
  <1>4. b \o rest # t
    <2>1. a \in Seq(Word) /\ Len(a) = m
      <3>1. m \in 0..n /\ 0 \in 0..n /\ m \in 0..n /\ 1 = 0 + 1
        BY <1>0
      <3>2. SubSeq(t, 1, m) \in Seq(Word) /\ Len(SubSeq(t, 1, m)) = m - 0
        BY <3>1, Piece
      <3> HIDE DEF a
      <3> QED
        BY <1>0, <1>1, <3>2
    <2>2. Dashes \in Seq(Word) /\ Len(Dashes) = 1
      BY DEF Dashes
    <2> HIDE DEF a
    <2>3. b \in Seq(Word) /\ Len(b) = m + 1
      <3>1. b \in Seq(Word) /\ Len(b) = Len(a) + Len(Dashes)
        BY <2>1, <2>2, ConcatProperties
      <3> HIDE DEF b
      <3> QED
        BY <1>0, <2>1, <2>2, <3>1
    <2> HIDE DEF b, rest
    <2>4. Len(b \o rest) = Len(b) + Len(rest)
      <3>1. rest \in Seq(Word)
        BY <1>3
      <3> QED
        BY <2>3, <3>1, ConcatProperties
    <2>5. Len(b \o rest) # n
      BY <1>0, <1>3, <2>3, <2>4, SMTT(20)
    <2> QED
      BY <2>5
  <1> QED
    BY <1>2, <1>3, <1>4

\* And before one at the end of the text.
LEMMA BeforeEnd ==
  ASSUME NEW t \in Seq(Word), Len(t) > 2,
         SubSeq(t, 1, 2) = Line, t[Len(t)] = "---",
         NEW block, block = SubSeq(t, 3, Len(t) - 1)
  PROVE  Line \o block \o Dashes \o <<>> = t
  <1> DEFINE n == Len(t)
  <1>1. /\ n \in Nat /\ n - 1 + 1 = n /\ 2 \in 0..n /\ n - 1 \in 2..n /\ n - 1 \in 0..n
        /\ n \in (n - 1)..n /\ n \in 1..n /\ 3 = 2 + 1
    BY LenProperties
  <1>2. SubSeq(t, 1, 2) \o block = SubSeq(t, 1, n - 1)
    BY <1>1, Piece
  <1>3. SubSeq(t, n, n) = Dashes
    BY <1>1, Words2 DEF Dashes
  <1>4. SubSeq(t, 1, n - 1) \o SubSeq(t, n, n) = SubSeq(t, 1, n)
    BY <1>1, Piece
  <1>5. SubSeq(t, 1, n) = t
    BY SubSeqFull
  <1> QED
    BY <1>2, <1>3, <1>4, <1>5, ConcatEmptySeq

LEMMA CoversBlock ==
  ASSUME NEW data, canonical_text(data) \in Seq(Word), HasBlock(data)
  PROVE  LET text == canonical_text(data)
             rest == strip_frontmatter(data)
             head == <<"---", "LF">> \o frontmatter_block(data)
         IN  /\ text \in {head \o <<"---", "LF">> \o rest, head \o <<"---">> \o rest}
             /\ (rest # <<>> => text # head \o <<"---">> \o rest)
  <1> DEFINE rest == strip_frontmatter(data)
             block == frontmatter_block(data)
  <1>1. PICK t : t = canonical_text(data)
    OBVIOUS
  <1>2. t \in Seq(Word) /\ Opens(t) /\ (Closings(t) # {} \/ ClosesAtEnd(t))
    BY <1>1 DEF HasBlock
  <1>3. /\ Closings(t) # {} =>
             rest = SubSeq(t, Min(Closings(t)) + 3, Len(t)) /\ block = SubSeq(t, 3, Min(Closings(t)))
        /\ Closings(t) = {} => rest = <<>> /\ block = SubSeq(t, 3, Len(t) - 1)
    BY <1>1, <1>2 DEF strip_frontmatter, AfterFrontmatter, frontmatter_block
  <1> HIDE DEF rest, block
  <1>4. CASE Closings(t) # {}
    <2>1. PICK m : m = Min(Closings(t))
      OBVIOUS
    <2>2. /\ m \in 2..(Len(t) - 2) /\ t[m + 1] = "---" /\ t[m + 2] = "LF"
          /\ SubSeq(t, 1, 2) = Line
      BY <1>2, <1>4, <2>1, Delimiters
    <2>3. rest = Beyond(t, m) /\ block = Within(t, m)
      BY <1>3, <1>4, <2>1 DEF Beyond, Within
    <2>4. /\ Line \o Within(t, m) \o Line \o Beyond(t, m) = t
          /\ Line \o Within(t, m) \o Dashes \o Beyond(t, m) # t
      BY <1>2, <2>2, AroundLine
    <2> QED
      BY <1>1, <2>3, <2>4 DEF rest, block, Line, Dashes
  <1>5. CASE Closings(t) = {}
    <2>1. rest = <<>> /\ block = SubSeq(t, 3, Len(t) - 1)
      BY <1>3, <1>5
    <2>2. Len(t) > 2 /\ SubSeq(t, 1, 2) = Line /\ t[Len(t)] = "---"
      BY <1>2, <1>5, Delimiters
    <2>3. Line \o block \o Dashes \o <<>> = t
      BY <1>2, <2>1, <2>2, BeforeEnd
    <2> QED
      BY <1>1, <2>1, <2>3 DEF rest, block, Line, Dashes
  <1> QED
    BY <1>4, <1>5

LEMMA CoversAll ==
  ASSUME NEW data, ~HasBlock(data)
  PROVE  strip_frontmatter(data) = canonical_text(data)
  BY DEF HasBlock, strip_frontmatter, AfterFrontmatter

-----------------------------------------------------------------------------
(* What is published.  The hash and the section are made in one step each of *)
(* what the rejects have left; nothing touches them until they are taken.    *)

\* A declaration that is not refused has one place.
LEMMA Placement ==
  ASSUME NEW keys, NEW k, SectionReject(keys, k) = "none"
  PROVE  LET s == Placed(keys)
         IN  /\ Declared(keys) = DOMAIN s.top \cup DOMAIN s.extension
             /\ DOMAIN s.top \cap DOMAIN s.extension = {}
             /\ FORBIDDEN_FIELDS \cap Declared(keys) = {}
             /\ "kind" \in DOMAIN s.top => s.top["kind"] = k
             /\ DOMAIN s.top \subseteq ENVELOPE_KEYS \cup {"license"}
  <1> DEFINE top == {key \in Declared(keys) : InEnvelope(keys, key)}
             s == Placed(keys)
  <1>1. /\ FORBIDDEN_FIELDS \cap Declared(keys) = {}
        /\ "kind" \in Declared(keys) => keys["kind"] = k
    BY DEF SectionReject
  <1>2. /\ s.top = Only(keys, top) /\ s.extension = Only(keys, Declared(keys) \ top)
    BY DEF Placed
  <1>3. /\ DOMAIN s.top = top /\ DOMAIN s.extension = Declared(keys) \ top
        /\ \A key \in top : s.top[key] = keys[key]
    BY <1>2 DEF Only
  <1>4. top \subseteq Declared(keys) /\ top \subseteq ENVELOPE_KEYS \cup {"license"}
    BY DEF InEnvelope
  <1> HIDE DEF s, top
  <1> QED
    BY <1>1, <1>3, <1>4 DEF s

\* One value in a line of its own.
LEMMA OneLine ==
  ASSUME NEW x, NEW f, f = [k \in 1..1 |-> x]
  PROVE  f = <<x>>
  <1>1. f \in Seq({x}) /\ Len(f) = 1 /\ f[1] = x
    OBVIOUS
  <1>2. <<x>> \in Seq({x}) /\ Len(<<x>>) = 1 /\ <<x>>[1] = x
    OBVIOUS
  <1>3. \A i \in 1..Len(f) : f[i] = <<x>>[i]
    BY <1>1, <1>2
  <1> QED
    BY <1>1, <1>2, <1>3, SeqEqual

\* Where no two names have one normal form, each line of a manifest is alone.
LEMMA AloneOnItsLine ==
  ASSUME NEW S, NEW seq \in Seq(S), NEW hash, NEW rel \in DOMAIN hash,
         \A q \in DOMAIN hash : NFC(q) = NFC(rel) => q = rel
  PROVE  Lines(seq, hash)[NFC(rel)] = <<hash[rel]>>
  <1> DEFINE of == {q \in DOMAIN hash : NFC(q) = NFC(rel)}
             Before(q) == {p \in of : ReadBefore(seq, p, q)}
             First(k) == CHOOSE q \in of : Cardinality(Before(q)) = k - 1
  <1>1. Lines(seq, hash)[NFC(rel)] = [k \in 1..Cardinality(of) |-> hash[First(k)]]
    BY DEF Lines
  <1>2. of = {rel}
    OBVIOUS
  <1>3. ~ReadBefore(seq, rel, rel)
    <2> SUFFICES ASSUME NEW i \in DOMAIN seq, seq[i] = rel, \A j \in 1..i : seq[j] # rel
                 PROVE  FALSE
      BY DEF ReadBefore
    <2>1. i \in Nat /\ 1 <= i
      BY LenProperties
    <2>2. i \in 1..i
      BY <2>1
    <2> QED
      BY <2>2
  <1> HIDE DEF of
  <1>4. Before(rel) = {}
    BY <1>2, <1>3
  <1> HIDE DEF Before
  <1>5. Cardinality(of) = 1 /\ Cardinality(Before(rel)) = 0
    BY <1>2, <1>4, FS_Singleton, FS_EmptySet
  <1>6. First(1) = rel
    <2>1. rel \in of /\ Cardinality(Before(rel)) = 1 - 1
      BY <1>2, <1>5
    <2>2. First(1) \in of
      BY <2>1
    <2> QED
      BY <1>2, <2>2
  <1> HIDE DEF First
  <1>7. [k \in 1..Cardinality(of) |-> hash[First(k)]] = [k \in 1..1 |-> hash[rel]]
    <2>1. \A k \in 1..1 : First(k) = rel
      <3>1. \A k \in 1..1 : k = 1
        OBVIOUS
      <3> QED
        BY <1>6, <3>1
    <2> QED
      BY <1>5, <2>1
  <1> QED
    BY <1>1, <1>7, OneLine

\* The text of a file, and what of it is not frontmatter.
LEMMA Texts ==
  ASSUME tree \in Trees, NEW p \in DOMAIN tree.files
  PROVE  /\ canonical_text(tree.files[p]) \in Seq(Word)
         /\ canonical_text(tree.files[p]) = PlainText(tree.files[p])
         /\ strip_frontmatter(tree.files[p]) = AfterFrontmatter(PlainText(tree.files[p]))
  <1>1. /\ canonical_text(tree.files[p]) \in Seq(Word)
        /\ canonical_text(tree.files[p]) = PlainText(tree.files[p])
    <2>1. tree.files[p] \in Seq(Word)
      BY TreesAssumption, Zenon
    <2> QED
      BY <2>1, CanonicalText
  <1>2. strip_frontmatter(tree.files[p]) = AfterFrontmatter(canonical_text(tree.files[p]))
    BY Zenon DEF strip_frontmatter
  <1> QED
    BY <1>1, <1>2, Zenon

\* What is hashed of a body that has passed the rejects.
Entries == {p \in Whole : ~(Len(p) = 1 /\ p[1] \in SIDECAR_NAMES)}
Plain(p) ==
    IF p = entry_file THEN AfterFrontmatter(PlainText(tree.files[p]))
    ELSE IF is_text(Last(p), tree.files[p])
         THEN PlainText(tree.files[p]) ELSE tree.files[p]

LEMMA Manifest ==
  ASSUME BodyTypeOK, Read, Apart
  PROVE  directory_manifest(files, tree.files, entry_file) =
             [n \in {NFC(p) : p \in Entries} |->
                 LET p == CHOOSE q \in Entries : NFC(q) = n IN <<Plain(p)>>]
  <1> DEFINE hash == [rel \in Enumerated(files) |->
                         Hashed(rel, tree.files[rel], entry_file)]
             lines == Lines(files, hash)
             The(n) == CHOOSE q \in Entries : NFC(q) = n
  <1>1. files \in Seq(DOMAIN tree.files) /\ ToSet(files) = Whole /\ tree \in Trees
        /\ Whole \subseteq DOMAIN tree.files /\ \A p \in Whole : ~InVcs(p)
    BY DEF BodyTypeOK, Read, Whole, Seen
  <1>2. Enumerated(files) = Entries
    BY <1>1 DEF Enumerated, Entries
  <1>3. DOMAIN hash = Entries
    BY <1>2
  <1>4. ASSUME NEW p \in Entries PROVE hash[p] = Plain(p)
    <2>1. p \in DOMAIN tree.files
      BY <1>1 DEF Entries
    <2>2. hash[p] = Hashed(p, tree.files[p], entry_file)
      BY <1>2
    <2>3. CASE p = entry_file
      <3>1. Hashed(p, tree.files[p], entry_file) = strip_frontmatter(tree.files[p])
        BY <2>3, Zenon DEF Hashed
      <3>2. Plain(p) = AfterFrontmatter(PlainText(tree.files[p]))
        BY <2>3, Zenon DEF Plain
      <3> QED
        BY <1>1, <2>1, <2>2, <3>1, <3>2, Texts, Zenon
    <2>4. CASE p # entry_file
      <3>1. Hashed(p, tree.files[p], entry_file) = file_hash(Last(p), tree.files[p])
        BY <2>4, Zenon DEF Hashed
      <3>2. file_hash(Last(p), tree.files[p]) =
              IF is_text(Last(p), tree.files[p])
              THEN canonical_text(tree.files[p]) ELSE tree.files[p]
        BY Zenon DEF file_hash
      <3>3. canonical_text(tree.files[p]) = PlainText(tree.files[p])
        BY <1>1, <2>1, Texts, Zenon
      <3>4. Plain(p) = IF is_text(Last(p), tree.files[p])
                       THEN PlainText(tree.files[p]) ELSE tree.files[p]
        BY <2>4, Zenon DEF Plain
      <3> QED
        BY <2>2, <3>1, <3>2, <3>3, <3>4, Zenon
    <2> QED
      BY <2>3, <2>4
  <1> HIDE DEF hash
  <1>5. DOMAIN lines = {NFC(p) : p \in Entries}
    BY <1>3 DEF Lines
  <1>6. ASSUME NEW n \in {NFC(p) : p \in Entries} PROVE lines[n] = <<Plain(The(n))>>
    <2>1. \E q \in Entries : NFC(q) = n
      BY <1>6
    <2>2. The(n) \in Entries /\ NFC(The(n)) = n
      BY <2>1, Zenon
    <2> HIDE DEF The
    <2>3. \A q \in Entries : NFC(q) = NFC(The(n)) => q = The(n)
      BY <2>2 DEF Apart, Entries
    <2>4. lines[NFC(The(n))] = <<hash[The(n)]>>
      BY <1>1, <1>3, <2>2, <2>3, AloneOnItsLine
    <2> HIDE DEF lines
    <2> QED
      BY <1>4, <2>2, <2>4
  <1>7. lines = [n \in DOMAIN lines |-> lines[n]]
    BY DEF Lines
  <1> HIDE DEF lines, The
  <1>8. lines = [n \in {NFC(p) : p \in Entries} |-> <<Plain(The(n))>>]
    BY <1>5, <1>6, <1>7
  <1>9. directory_manifest(files, tree.files, entry_file) = lines
    BY DEF directory_manifest, lines, hash
  <1> QED
    BY <1>8, <1>9 DEF The

LEMMA TakeHashExact ==
  ASSUME BodyInv, TakeHash
  PROVE  HashExact' /\ EntryCovered'
  <1>1. /\ BodyTypeOK /\ Read /\ Apart /\ entry_file \in Whole /\ tree \in Trees
        /\ UNCHANGED <<tree, files>>
        /\ body' = [classification |-> classify(ToSet(files), entry_file),
                    body_hash |-> body_hash_frontmatter_type(files, tree.files, entry_file)]
    BY DEF TakeHash, BodyInv, Behind, Rejects, Read
  <1>2. entry_file \in DOMAIN tree.files
    BY <1>1 DEF Whole
  <1>3. /\ canonical_text(tree.files[entry_file]) \in Seq(Word)
        /\ canonical_text(tree.files[entry_file]) = PlainText(tree.files[entry_file])
        /\ strip_frontmatter(tree.files[entry_file])
             = AfterFrontmatter(PlainText(tree.files[entry_file]))
    BY <1>1, <1>2, Texts
  <1>4. classify(ToSet(files), entry_file) = IF MultiFile THEN "multi-file" ELSE "single-file"
    BY <1>1, Several DEF classify
  <1>5. body'.classification = IF MultiFile THEN "multi-file" ELSE "single-file"
    BY <1>1, <1>4
  <1>6. body'.body_hash =
          IF MultiFile
          THEN [manifest |-> directory_manifest(files, tree.files, entry_file)]
          ELSE [single |-> strip_frontmatter(tree.files[entry_file])]
    BY <1>1, <1>4 DEF body_hash_frontmatter_type
  <1>7. /\ MultiFile => body'.body_hash.manifest =
                          directory_manifest(files, tree.files, entry_file)
        /\ ~MultiFile => body'.body_hash.single = strip_frontmatter(tree.files[entry_file])
    BY <1>6
  <1>8. HashExact'
    <2>1. MultiFile' = MultiFile /\ Whole' = Whole
      BY <1>1, Same
    <2>2. CASE MultiFile
      <3>1. body'.body_hash.manifest =
              [n \in {NFC(p) : p \in Entries} |->
                  LET p == CHOOSE q \in Entries : NFC(q) = n IN <<Plain(p)>>]
        BY <1>1, <1>7, <2>2, Manifest
      <3> QED
        BY <1>1, <1>5, <2>1, <2>2, <3>1 DEF HashExact, Entries, Plain
    <2>3. CASE ~MultiFile
      BY <1>1, <1>3, <1>5, <1>7, <2>1, <2>3, Zenon DEF HashExact
    <2> QED
      BY <2>2, <2>3
  <1>9. EntryCovered'
    <2>1. CASE HasBlock(tree.files[entry_file])
      BY <1>1, <1>3, <2>1, CoversBlock, Zenon DEF EntryCovered
    <2>2. CASE ~HasBlock(tree.files[entry_file])
      BY <1>1, <1>3, <2>2, CoversAll, Zenon DEF EntryCovered
    <2> QED
      BY <2>1, <2>2
  <1> QED
    BY <1>8, <1>9

\* What is published of a body stays while the body does.
LEMMA Kept ==
  ASSUME UNCHANGED <<tree, body>>
  PROVE  (HashExact => HashExact') /\ (EntryCovered => EntryCovered')
  <1>1. MultiFile' = MultiFile /\ Whole' = Whole
    BY Same
  <1> QED
    BY <1>1, SMTT(20) DEF HashExact, EntryCovered

Published == HashExact /\ EntryCovered /\ SectionCovered

LEMMA BodyInitPublished == BodyInit => Published
  BY DEF BodyInit, Published, HashExact, EntryCovered, SectionCovered

\* The section is made in the last step before the answer.
LEMMA PlacePublished ==
  ASSUME BodyInv, Place
  PROVE  SectionCovered'
  <1>1. UNCHANGED <<parsed, kind>>
    BY DEF Place
  <1>2. CASE SectionReject(parsed.keys, kind) = "none" /\ verdict' = "ok"
    <2>1. section' = Placed(parsed.keys)
      BY <1>2 DEF Place, Reject
    <2> QED
      BY <1>1, <1>2, <2>1, Placement, Zenon DEF SectionCovered
  <1>3. CASE ~(SectionReject(parsed.keys, kind) = "none" /\ verdict' = "ok")
    <2>1. verdict' # "ok"
      BY <1>3 DEF Place, Reject, SectionReject
    <2> QED
      BY <2>1 DEF SectionCovered
  <1> QED
    BY <1>2, <1>3

LEMMA BodyStepPublished ==
  ASSUME BodyInv, Published, [BodyNext]_bodyVars
  PROVE  Published'
  <1>1. BodyTypeOK
    BY DEF BodyInv
  <1>2. CASE BodyBegin
    <2>1. body' = NoBody /\ verdict' # "ok"
      BY <1>1, <1>2 DEF BodyBegin, Begin, FromProvider, Reject, BodyTypeOK, bodyVars
    <2> QED
      BY <2>1 DEF Published, HashExact, EntryCovered, SectionCovered
  <1>3. CASE Collect
    <2>1. body' = NoBody /\ verdict' # "ok"
      BY <1>3 DEF Collect
    <2> QED
      BY <2>1 DEF Published, HashExact, EntryCovered, SectionCovered
  <1>4. CASE TakeHash
    <2>1. verdict' # "ok"
      BY <1>1, <1>4 DEF TakeHash, BodyTypeOK
    <2> QED
      BY <1>4, <2>1, TakeHashExact DEF Published, SectionCovered
  <1>5. CASE Place
    <2>1. UNCHANGED <<tree, body>>
      BY <1>5 DEF Place
    <2> QED
      BY <1>5, <2>1, Kept, PlacePublished DEF Published
  <1>6. CASE \/ \E d \in todo : Visit(d)
             \/ \E p \in pending : ReadFile(p)
             \/ Walked \/ CheckPaths \/ CheckCollisions \/ CheckPublishable \/ CheckEntry
             \/ Parse
    <2>1. stage # "done" /\ UNCHANGED <<tree, body>>
      BY <1>6 DEF Visit, ReadFile, Walked, CheckPaths, CheckCollisions, CheckPublishable,
         CheckEntry, Parse, GoOn
    <2>2. verdict' # "ok"
      <3>1. verdict = "none"
        BY <1>1, <2>1 DEF BodyTypeOK
      <3> QED
        BY <1>6, <3>1 DEF Visit, ReadFile, Walked, CheckPaths, CheckCollisions,
           CheckPublishable, CheckEntry, Parse, GoOn, Reject, check_raw_paths
    <2> QED
      BY <2>1, <2>2, Kept DEF Published, SectionCovered
  <1>7. CASE UNCHANGED bodyVars
    <2>1. UNCHANGED <<tree, body>> /\ UNCHANGED <<kind, parsed, section, verdict>>
      BY <1>7 DEF bodyVars
    <2> QED
      BY <2>1, Kept DEF Published, SectionCovered
  <1> QED
    BY <1>2, <1>3, <1>4, <1>5, <1>6, <1>7 DEF BodyNext, BodyStep

\* A hash is taken of all that a body publishes and of nothing else, in an
\* order of the listing that it does not tell: core sections 7.2 to 7.5.
THEOREM HashIsExact == BodySpec => []HashExact
  <1>1. Published => HashExact
    BY DEF Published
  <1> QED
    BY BodyInitInv, BodyStepInv, BodyInitPublished, BodyStepPublished, <1>1, PTL DEF BodySpec

\* What an entry file says is hashed or declared, never both and never neither:
\* core section 7.8.
THEOREM CoveredOnce == BodySpec => []SingleCoverage
  <1>1. Published => SingleCoverage
    BY DEF Published, SingleCoverage
  <1> QED
    BY BodyInitInv, BodyStepInv, BodyInitPublished, BodyStepPublished, <1>1, PTL DEF BodySpec
=============================================================================
