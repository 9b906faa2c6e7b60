----------------------------- MODULE BindingShape -----------------------------
(***************************************************************************)
(* What can be told of a binding from its text alone, for all adapters at  *)
(* once.  An adapter enters only as the set O of the legs it answers ok:   *)
(* that decides which steps of the binding run.                            *)
(***************************************************************************)
EXTENDS ProbeSteps

LegsOf(b) == UNION {b[i].legs : i \in DOMAIN b}

\* The legs a right adapter answers ok; to the others it answers an error.
RightLegs(b) == {l \in LegsOf(b) : RightKind(b, l) = "ok"}

\* The step runs, if exactly the legs O are answered ok.
Opens(s, O) ==
    s.when \subseteq O /\ (s.unless # {} => ~(s.unless \subseteq O))

\* The leg has been sent whenever step i runs.
Asked(b, i, l) ==
    \/ l \in b[i].when
    \/ \E j \in 1 .. (i - 1) :
        /\ b[j].do \in Sends /\ l \in b[j].legs
        /\ b[j].when \subseteq b[i].when /\ b[j].unless \in {{}, b[i].unless}

(* A binding looks at no answer before it has one: an assertion is on legs   *)
(* that were sent, and so is the output that a request carries.  Only legs   *)
(* that are to be answered ok are required, demanded or carried on; only a   *)
(* path that a right adapter never takes is called impossible; and a binding *)
(* that may waive its vector has one leg, the one it waives.                 *)
WellAsked(b) ==
    \A i \in DOMAIN b :
        /\ b[i].do \in Sends => b[i].unless = {}
        /\ b[i].do \in Asserts => \A l \in b[i].legs : Asked(b, i, l)
        /\ \A l \in b[i].from : l \in RightLegs(b) /\ Asked(b, i, l)
        /\ b[i].do \in {"require", "demand"} => b[i].legs \subseteq RightLegs(b)
        /\ b[i].do = "impossible" =>
            \/ ~(b[i].when \subseteq RightLegs(b))
            \/ /\ b[i].unless # {} /\ b[i].unless \subseteq RightLegs(b)
               /\ \A l \in b[i].unless : Asked(b, i, l)
        /\ b[i].do = "waive" =>
            b[i].legs = LegsOf(b) /\ b[i].legs \subseteq RightLegs(b)

-----------------------------------------------------------------------------
(* Assertions that leave a verdict, whatever the adapter answers, and those  *)
(* that can find something true of an answer.                                *)
Grading == {"field", "never", "truthy", "error", "diagnostic", "accept",
            "impossible", "relation", "set relation", "demand", "absence"}
Scoring == (Grading \ {"impossible"}) \cup {"reason"}

Grades(b, O, i) ==
    /\ Opens(b[i], O)
    /\ b[i].do \in Asserts /\ \A l \in b[i].legs : Asked(b, i, l)
    /\ b[i].do \in Grading \/ (b[i].do = "require" /\ b[i].legs \cap O = {})

\* Some assertion grades on every path, and none compares in a set().
AlwaysGraded(b) == \A O \in SUBSET LegsOf(b) : \E i \in DOMAIN b : Grades(b, O, i)
NeverRaises(b) == \A i \in DOMAIN b : b[i].do # "set relation"

(* Some assertion grades on every path of an adapter that answers rightly or *)
(* declines, unless a declined request of the path marks the row by itself.  *)
RightGraded(b) ==
    \A O \in SUBSET RightLegs(b) :
        \/ \E i \in DOMAIN b : Grades(b, O, i)
        \/ \E i \in DOMAIN b :
            /\ b[i].do = "send" /\ Opens(b[i], O)
            /\ b[i].legs \subseteq RightLegs(b) \ O

\* Nothing is carried on from, or demanded of, a leg that was declined.
Tolerant(b) ==
    \A i \in DOMAIN b :
        /\ b[i].do \in Sends => b[i].from \subseteq b[i].when
        /\ b[i].do = "demand" => b[i].legs \subseteq b[i].when
        /\ b[i].do = "impossible" => ~(b[i].when \subseteq RightLegs(b))

-----------------------------------------------------------------------------
(* Whether a wrong answer is found out.  KindChecks tell an answer of the    *)
(* wrong kind; an aspect is told by the assertions that look at it.          *)

KindChecks == {"field", "never", "truthy", "error", "accept", "require", "demand"}
AspectChecks == {"field", "never", "error", "diagnostic", "relation", "set relation", "demand"}

\* A request that is sent, with output it was given; an answer off its kind.
Asks(b, O, l) ==
    \E i \in DOMAIN b :
        /\ b[i].do \in Sends /\ l \in b[i].legs
        /\ Opens(b[i], O) /\ b[i].from \subseteq O
Off(b, O, l) == (l \in O) # (l \in RightLegs(b))

\* Some assertion fails, or finds a request declined, whatever else is said.
Refuted(b, O) ==
    \E i \in DOMAIN b :
        /\ Opens(b[i], O)
        /\ \/ b[i].do = "impossible"
           \/ b[i].do \in KindChecks /\ \E l \in b[i].legs : Off(b, O, l)

Looks(b, O, l, a) ==
    \E i \in DOMAIN b :
        /\ Opens(b[i], O) /\ l \in b[i].legs /\ b[i].aspect = a
        /\ \/ b[i].do \in AspectChecks
           \/ b[i].do = "reason" /\ a = "reason"
           \/ b[i].do = "absence" /\ l \in O

Declinable(b, l) == \E i \in DOMAIN b : b[i].do = "hook send" /\ l \in b[i].legs

\* Every way the answer to the leg can be wrong meets an assertion.
Judges(b, O, l) ==
    /\ ~Off(b, O, l)
    /\ \A a \in Flaws(b, l) : Looks(b, O, l, a)
    /\ Declinable(b, l) /\ l \notin O =>
        \E i \in DOMAIN b :
            Opens(b[i], O) /\ b[i].do \in KindChecks /\ l \in b[i].legs

(* On every path, the vector cannot pass, or a leg of U is off its kind, or  *)
(* each leg that is sent, but for those of U, is judged.                     *)
AllJudged(b, U, invariant) ==
    \A O \in SUBSET LegsOf(b) :
        \/ Refuted(b, O)
        \/ ~invariant /\ \A i \in DOMAIN b : Opens(b[i], O) => b[i].do \notin Scoring
        \/ \E l \in U : Asks(b, O, l) /\ Off(b, O, l)
        \/ \A l \in LegsOf(b) \ U : Asks(b, O, l) => Judges(b, O, l)
=============================================================================
