----------------------- MODULE DifferentialRun_proofs -----------------------
(***************************************************************************)
(* Proofs about DifferentialRun, for every list of trials, table of scopes *)
(* and pair of adapters: its type invariant; that the counts of a finished *)
(* run call it clean exactly when its answers are evidence; and that it    *)
(* leaves neither an adapter process nor a tree behind.                    *)
(***************************************************************************)
EXTENDS DifferentialRun, TLAPS

LEMMA Statuses7 ==
    ASSUME NEW a \in Observation, NEW b \in Observation, NEW f \in Family
    PROVE  TrialStatus(a, b, f) \in TrialStatuses
  BY DEF TrialStatus, TrialStatuses

LEMMA HarnessErrorType == HarnessError \in Observation
  BY DEF HarnessError, Observation

(* The trial at hand is one of the list.                                     *)
LEMMA AtTrial ==
    ASSUME TypeOK, at <= Len(Trials)
    PROVE  /\ at \in 1..Len(Trials) /\ at + 1 \in 1..(Len(Trials) + 1)
           /\ Trials[at] \in Family
<1>1. at \in 1..(Len(Trials) + 1)
  BY DEF TypeOK
<1>2. Len(Trials) \in Nat /\ Trials \in Seq(Family)
  BY FamilyAssumption
<1>3. at \in 1..Len(Trials) /\ at + 1 \in 1..(Len(Trials) + 1)
  BY <1>1, <1>2
<1>4. QED
  BY <1>2, <1>3

(* Counting keeps the tables' types and raises one entry of each.            *)
LEMMA CountEffect ==
    ASSUME TypeOK, NEW s \in TrialStatuses, at <= Len(Trials), Count(s)
    PROVE  /\ counts' \in [TrialStatuses -> Nat]
           /\ family_counts' \in [Family -> [TrialStatuses -> Nat]]
           /\ counts'[s] > 0
           /\ \A r \in TrialStatuses \ {s} : counts'[r] = counts[r]
           /\ family_counts'[Trials[at]][s] > 0
           /\ \A f \in Family, r \in TrialStatuses :
                 f # Trials[at] \/ r # s =>
                    family_counts'[f][r] = family_counts[f][r]
<1>1. /\ counts \in [TrialStatuses -> Nat]
      /\ family_counts \in [Family -> [TrialStatuses -> Nat]]
      /\ counts' = [counts EXCEPT ![s] = @ + 1]
      /\ family_counts' = [family_counts EXCEPT ![Trials[at]][s] = @ + 1]
  BY DEF TypeOK, Count
<1>2. Trials[at] \in Family
  BY AtTrial
<1>3. /\ counts' \in [TrialStatuses -> Nat]
      /\ counts'[s] = counts[s] + 1 /\ counts[s] \in Nat
      /\ \A r \in TrialStatuses \ {s} : counts'[r] = counts[r]
  BY <1>1
<1>4. /\ family_counts[Trials[at]] \in [TrialStatuses -> Nat]
      /\ family_counts' \in [Family -> [TrialStatuses -> Nat]]
      /\ family_counts'[Trials[at]][s] = family_counts[Trials[at]][s] + 1
      /\ family_counts[Trials[at]][s] \in Nat
      /\ \A f \in Family, r \in TrialStatuses :
            f # Trials[at] \/ r # s => family_counts'[f][r] = family_counts[f][r]
  BY <1>1, <1>2
<1>5. QED
  BY <1>3, <1>4

LEMMA DiffTypeInit == Init => TypeOK
<1> SUFFICES ASSUME Init PROVE TypeOK
  OBVIOUS
<1>1. 1 \in 1..(Len(Trials) + 1)
  BY FamilyAssumption
<1>2. counts \in [TrialStatuses -> Nat]
      /\ family_counts \in [Family -> [TrialStatuses -> Nat]]
  BY DEF Init
<1>3. claimed \in [Adapters -> SUBSET Scope]
  BY DEF Init
<1>4. answer \in Observation
  BY HarnessErrorType DEF Init
<1>5. QED
  BY <1>1, <1>2, <1>3, <1>4, Zenon DEF Init, TypeOK

LEMMA DiffTypeStep == TypeOK /\ [Next]_vars => TypeOK'
<1> SUFFICES ASSUME TypeOK, [Next]_vars PROVE TypeOK'
  OBVIOUS
<1>1. CASE StartA \/ StartB
  <2>1. PICK x \in Adapters, c \in SUBSET Scope : claimed' = [claimed EXCEPT ![x] = c]
    BY <1>1, FamilyAssumption DEF StartA, StartB, Starts, Adapters
  <2>2. claimed' \in [Adapters -> SUBSET Scope]
    BY <2>1 DEF TypeOK
  <2>3. pc' \in {"start b", "build"} /\ open' \subseteq Adapters
    BY <1>1 DEF StartA, StartB, Starts, Adapters, TypeOK
  <2>4. QED
    BY <1>1, <2>2, <2>3 DEF StartA, StartB, Starts, TypeOK, history
<1>2. CASE StartAFails \/ StartBFails
  BY <1>2 DEF StartAFails, StartBFails, StartFails, TypeOK, Adapters
<1>3. CASE Build
  <2>1. at \in 1..Len(Trials)
    BY <1>3, AtTrial DEF Build, More
  <2>2. QED
    BY <1>3, <2>1 DEF Build, More, TypeOK, history
<1>4. CASE BuildBlocked
  <2>1. /\ at \in 1..Len(Trials) /\ at + 1 \in 1..(Len(Trials) + 1)
        /\ at <= Len(Trials)
    BY <1>4, AtTrial DEF BuildBlocked, More
  <2>2. /\ counts' \in [TrialStatuses -> Nat]
        /\ family_counts' \in [Family -> [TrialStatuses -> Nat]]
    BY <1>4, <2>1, CountEffect DEF BuildBlocked, TrialStatuses
  <2>3. QED
    BY <1>4, <2>1, <2>2 DEF BuildBlocked, More, TypeOK, history
<1>5. CASE Raising
  <2>1. CASE BuildRaises
    <3>1. at \in 1..Len(Trials)
      BY <2>1, AtTrial DEF BuildRaises, More
    <3>2. QED
      BY <2>1, <3>1 DEF BuildRaises, TypeOK, history
  <2>2. CASE AskARaises \/ AskBRaises
    BY <2>2 DEF AskARaises, AskBRaises, RequestRaises, TypeOK, history
  <2>3. CASE ObserveRaises
    BY <2>3 DEF ObserveRaises, Answers, TypeOK, Adapters, history
  <2>4. QED
    BY <1>5, <2>1, <2>2, <2>3 DEF Raising
<1>6. CASE AskA
  BY <1>6 DEF AskA, Answers, TypeOK, Adapters, history
<1>7. CASE AskB
  <2>1. /\ at \in 1..Len(Trials) /\ at + 1 \in 1..(Len(Trials) + 1)
        /\ at <= Len(Trials) /\ Trials[at] \in Family
    BY <1>7, AtTrial DEF AskB, TypeOK
  <2>2. PICK o \in Observation :
            /\ Answers("b", o)
            /\ Count(TrialStatus(answer, o, Trials[at]))
            /\ seen' = seen \cup {[family |-> Trials[at], a |-> answer, b |-> o]}
    BY <1>7 DEF AskB
  <2>3. answer \in Observation
    BY DEF TypeOK
  <2>4. /\ counts' \in [TrialStatuses -> Nat]
        /\ family_counts' \in [Family -> [TrialStatuses -> Nat]]
    BY <2>1, <2>2, <2>3, Statuses7, CountEffect
  <2>5. seen' \subseteq [family : Family, a : Observation, b : Observation]
    <3>1. [family |-> Trials[at], a |-> answer, b |-> o]
            \in [family : Family, a : Observation, b : Observation]
      BY <2>1, <2>2, <2>3
    <3>2. QED
      BY <2>2, <3>1 DEF TypeOK
  <2>6. broken' \subseteq Adapters
    BY <2>2 DEF Answers, TypeOK, Adapters
  <2>7. /\ pc' = "build" /\ claimed' = claimed /\ open' = open /\ at' = at + 1
        /\ trees' = trees /\ raised' = raised /\ refused' = refused
        /\ answer' \in Observation
    BY <1>7, HarnessErrorType DEF AskB
  <2>8. QED
    BY <2>1, <2>4, <2>5, <2>6, <2>7 DEF TypeOK
<1>8. CASE LoopEnds \/ CloseB \/ CloseA
  BY <1>8 DEF LoopEnds, CloseB, CloseA, TypeOK, history
<1>9. CASE CleanUp
  BY <1>9 DEF CleanUp, TypeOK, history
<1>10. CASE Ended \/ UNCHANGED vars
  BY <1>10 DEF Ended, vars, TypeOK, history
<1>11. QED
  BY <1>1, <1>2, <1>3, <1>4, <1>5, <1>6, <1>7, <1>8, <1>9, <1>10
  DEF Next, Starting, Trial, Ending

(* Every reachable state of a differential run has the declared types.       *)
THEOREM DiffTypeCorrect == Spec => []TypeOK
  BY DiffTypeInit, DiffTypeStep, PTL DEF Spec

-----------------------------------------------------------------------------
(* The invariant behind CleanIsEvidence: each count is positive exactly when *)
(* an answered trial has that status, and a broken session has left its mark *)
(* on a trial or is about to, unless an exception came first, after which    *)
(* there is no report.                                                       *)

StatusOf(t) == TrialStatus(t.a, t.b, t.family)
Answered == [family : Family, a : Observation, b : Observation]
Telling == {"agree", "disagree", "harness-error", "unsupported", "incomplete"}

Tally ==
    /\ \A s \in Telling : counts[s] > 0 <=> \E t \in seen : StatusOf(t) = s
    /\ \A f \in Family :
          family_counts[f]["agree"] > 0
             <=> \E t \in seen : t.family = f /\ StatusOf(t) = "agree"

Marked(x) ==
    \/ \E t \in seen : StatusOf(t) = "harness-error"
    \/ x = "a" /\ pc = "ask b" /\ answer = HarnessError

DiffInv ==
    /\ pc \in {"start a", "start b"} => seen = {} /\ broken = {}
    /\ Tally
    /\ raised \/ \A x \in broken : Marked(x)
    /\ pc \in {"clean up", "done"} => ~raised

(* The comparison depends on the state through the claims alone.             *)
LEMMA StatusStable ==
    ASSUME claimed' = claimed
    PROVE  \A t : StatusOf(t)' = StatusOf(t)
<1>1. required' = required
  BY DEF required
<1>2. QED
  BY <1>1 DEF StatusOf, TrialStatus

(* What the statuses say of the answers.                                     *)
LEMMA StatusMeaning ==
    ASSUME NEW t \in Answered
    PROVE  /\ StatusOf(t) \in Telling \cup {"uncomparable"}
           /\ StatusOf(t) = "agree" <=> Alike(t)
           /\ StatusOf(t) = "uncomparable" <=> NotComparable(t)
           /\ t.a = HarnessError \/ t.b = HarnessError
                 => StatusOf(t) = "harness-error"
<1>1. t.a \in Observation /\ t.b \in Observation
  BY DEF Answered
<1>2. StatusOf(t) \in Telling \cup {"uncomparable"}
  BY DEF StatusOf, TrialStatus, Telling
<1>3. StatusOf(t) = "agree" <=> Alike(t)
  BY <1>1 DEF StatusOf, TrialStatus, Alike, Observation
<1>4. StatusOf(t) = "uncomparable" <=> NotComparable(t)
  BY DEF StatusOf, TrialStatus, NotComparable
<1>5. HarnessError.class = "harness-error"
  BY DEF HarnessError
<1>6. t.a = HarnessError \/ t.b = HarnessError => StatusOf(t) = "harness-error"
  BY <1>5 DEF StatusOf, TrialStatus
<1>7. QED
  BY <1>2, <1>3, <1>4, <1>6

LEMMA DiffInvInit == Init => DiffInv
<1> SUFFICES ASSUME Init PROVE DiffInv
  OBVIOUS
<1>1. seen = {} /\ broken = {}
  BY DEF Init
<1>2. \A s \in Telling : counts[s] = 0
  BY DEF Init, Telling, TrialStatuses
<1>3. \A f \in Family : family_counts[f]["agree"] = 0
  BY DEF Init, TrialStatuses
<1>4. pc = "start a" /\ Telling \subseteq TrialStatuses
  BY DEF Init, Telling, TrialStatuses
<1>5. Tally
  BY <1>1, <1>2, <1>3 DEF Tally
<1>6. QED
  BY <1>1, <1>4, <1>5 DEF DiffInv

\* A step that counts nothing; it may be one that an exception cuts short.
LEMMA QuietTally ==
    ASSUME Tally, claimed' = claimed \/ seen = {},
           UNCHANGED <<counts, family_counts, seen>>
    PROVE  Tally'
<1>1. CASE seen = {}
  BY <1>1 DEF Tally
<1>2. CASE claimed' = claimed
  <2>1. \A t : StatusOf(t)' = StatusOf(t)
    BY <1>2, StatusStable
  <2>2. counts' = counts /\ family_counts' = family_counts /\ seen' = seen
    OBVIOUS
  <2>3. \A s \in Telling : counts'[s] > 0 <=> \E t \in seen' : StatusOf(t)' = s
    BY <2>1, <2>2 DEF Tally
  <2>4. \A f \in Family :
           family_counts'[f]["agree"] > 0
              <=> \E t \in seen' : t.family = f /\ StatusOf(t)' = "agree"
    BY <2>1, <2>2 DEF Tally
  <2>5. QED
    BY <2>3, <2>4 DEF Tally
<1>3. QED
  BY <1>1, <1>2

\* A step that breaks no session either.
LEMMA QuietStep ==
    ASSUME DiffInv, claimed' = claimed \/ seen = {},
           UNCHANGED <<counts, family_counts, seen, broken>>,
           raised => raised',
           pc = "ask b" => UNCHANGED <<pc, answer>>,
           pc' \in {"start a", "start b"} => seen = {} /\ broken = {},
           pc' \in {"clean up", "done"} => ~raised'
    PROVE  DiffInv'
<1>1. Tally'
  BY QuietTally DEF DiffInv
<1>2. ASSUME ~raised PROVE \A x \in broken' : Marked(x)'
  <2>1. \A x \in broken : Marked(x)
    BY <1>2 DEF DiffInv
  <2>2. CASE seen = {}
    BY <2>1, <2>2 DEF Marked
  <2>3. CASE claimed' = claimed
    BY <2>1, <2>3, StatusStable DEF Marked
  <2>4. QED
    BY <2>2, <2>3
<1>3. QED
  BY <1>1, <1>2 DEF DiffInv

LEMMA DiffInvStep == TypeOK /\ DiffInv /\ [Next]_vars => DiffInv'
<1> SUFFICES ASSUME TypeOK, DiffInv, [Next]_vars PROVE DiffInv'
  OBVIOUS
<1>1. CASE Starting
  <2>1. /\ pc \in {"start a", "start b"} /\ seen = {}
        /\ UNCHANGED <<counts, family_counts, seen, broken>>
        /\ pc' \notin {"clean up", "done"}
    BY <1>1 DEF Starting, StartA, StartB, StartAFails, StartBFails, Starts,
                StartFails, DiffInv, history
  <2>2. broken = {}
    BY <2>1 DEF DiffInv
  <2>3. raised => raised'
    BY <1>1, Zenon DEF Starting, StartA, StartB, StartAFails, StartBFails,
                       Starts, StartFails
  <2>4. QED
    BY <2>1, <2>2, <2>3, QuietStep
<1>2. CASE Build \/ Ending
  <2>1. /\ claimed' = claimed /\ pc # "ask b"
        /\ UNCHANGED <<counts, family_counts, seen, broken>>
        /\ pc' \notin {"start a", "start b"}
    BY <1>2 DEF Build, More, Ending, LoopEnds, CloseB, CloseA, CleanUp, history
  <2>2. raised' = raised
    BY <1>2 DEF Build, Ending, LoopEnds, CloseB, CloseA, CleanUp
  <2>3. pc' \in {"clean up", "done"} => ~raised
    BY <1>2 DEF Build, Ending, LoopEnds, CloseB, CloseA, CleanUp, DiffInv
  <2>4. QED
    BY <2>1, <2>2, <2>3, QuietStep
<1>3. CASE Ended \/ UNCHANGED vars
  <2>1. UNCHANGED <<claimed, counts, family_counts, seen, broken, pc, answer,
                    raised>>
    BY <1>3 DEF Ended, vars, history
  <2>2. /\ pc' \in {"start a", "start b"} => seen = {} /\ broken = {}
        /\ pc' \in {"clean up", "done"} => ~raised'
    BY <2>1 DEF DiffInv
  <2>3. QED
    BY <2>1, <2>2, QuietStep
<1>4. CASE BuildBlocked
  <2>1. /\ claimed' = claimed /\ pc' = pc /\ pc = "build" /\ broken' = broken
        /\ seen' = seen /\ Count("env-skipped") /\ at <= Len(Trials)
    BY <1>4 DEF BuildBlocked, More, history
  <2>2. /\ \A s \in Telling : counts'[s] = counts[s]
        /\ \A f \in Family : family_counts'[f]["agree"] = family_counts[f]["agree"]
    <3>1. "env-skipped" \in TrialStatuses /\ Telling \subseteq TrialStatuses \ {"env-skipped"}
          /\ "agree" \in TrialStatuses
      BY DEF TrialStatuses, Telling
    <3>2. QED
      BY <2>1, <3>1, CountEffect
  <2>3. Tally'
    BY <2>1, <2>2, StatusStable DEF Tally, DiffInv
  <2>4. raised \/ \A x \in broken' : Marked(x)'
    BY <2>1, StatusStable DEF Marked, DiffInv
  <2>5. raised' = raised
    BY <1>4 DEF BuildBlocked
  <2>6. QED
    BY <2>1, <2>3, <2>4, <2>5 DEF DiffInv
<1>5. CASE AskA
  <2>1. /\ claimed' = claimed /\ pc = "ask a" /\ pc' = "ask b"
        /\ UNCHANGED <<counts, family_counts, seen>> /\ Answers("a", answer')
    BY <1>5 DEF AskA, history
  <2>2. Tally'
    <3>1. \A t : StatusOf(t)' = StatusOf(t)
      BY <2>1, StatusStable
    <3>2. \A s \in Telling : counts'[s] > 0 <=> \E t \in seen' : StatusOf(t)' = s
      BY <2>1, <3>1 DEF DiffInv, Tally
    <3>3. \A f \in Family :
             family_counts'[f]["agree"] > 0
                <=> \E t \in seen' : t.family = f /\ StatusOf(t)' = "agree"
      BY <2>1, <3>1 DEF DiffInv, Tally
    <3>4. QED
      BY <3>2, <3>3 DEF Tally
  <2>3. ASSUME ~raised, NEW x \in broken' PROVE Marked(x)'
    <3>1. CASE x \in broken
      BY <2>1, <2>3, <3>1, StatusStable DEF Marked, DiffInv
    <3>2. CASE x \notin broken
      BY <2>1, <2>3, <3>2 DEF Marked, Answers
    <3>3. QED
      BY <3>1, <3>2
  <2>4. raised' = raised
    BY <1>5 DEF AskA
  <2>5. QED
    BY <2>1, <2>2, <2>3, <2>4 DEF DiffInv
<1>6. CASE AskB
  <2>1. PICK o \in Observation :
            /\ Answers("b", o)
            /\ Count(TrialStatus(answer, o, Trials[at]))
            /\ seen' = seen \cup {[family |-> Trials[at], a |-> answer, b |-> o]}
    BY <1>6 DEF AskB
  <2> DEFINE t0 == [family |-> Trials[at], a |-> answer, b |-> o]
  <2>2. /\ claimed' = claimed /\ pc = "ask b" /\ pc' = "build"
        /\ at <= Len(Trials)
    BY <1>6 DEF AskB, TypeOK
  <2>3. /\ t0 \in Answered /\ t0.family = Trials[at] /\ t0.a = answer /\ t0.b = o
        /\ seen' = seen \cup {t0} /\ Count(StatusOf(t0))
    BY <2>1, <2>2, AtTrial DEF Answered, StatusOf, TypeOK
  <2> HIDE DEF t0
  <2>4. /\ StatusOf(t0) \in TrialStatuses /\ Telling \subseteq TrialStatuses
        /\ "agree" \in TrialStatuses
    BY <2>3, StatusMeaning DEF Telling, TrialStatuses
  <2>5. /\ counts'[StatusOf(t0)] > 0
        /\ \A r \in TrialStatuses \ {StatusOf(t0)} : counts'[r] = counts[r]
        /\ family_counts'[t0.family][StatusOf(t0)] > 0
        /\ \A f \in Family, r \in TrialStatuses :
              f # t0.family \/ r # StatusOf(t0) =>
                 family_counts'[f][r] = family_counts[f][r]
    BY <2>2, <2>3, <2>4, CountEffect
  <2>6. \A t : StatusOf(t)' = StatusOf(t)
    BY <2>2, StatusStable
  <2>7. ASSUME NEW s \in Telling
        PROVE  counts'[s] > 0 <=> \E t \in seen' : StatusOf(t)' = s
    <3>1. CASE s = StatusOf(t0)
      BY <2>3, <2>5, <2>6, <3>1
    <3>2. CASE s # StatusOf(t0)
      <4>1. counts'[s] = counts[s]
        BY <2>4, <2>5, <3>2
      <4>2. QED
        BY <2>3, <2>6, <3>2, <4>1 DEF DiffInv, Tally
    <3>3. QED
      BY <3>1, <3>2
  <2>8. ASSUME NEW f \in Family
        PROVE  family_counts'[f]["agree"] > 0
                  <=> \E t \in seen' : t.family = f /\ StatusOf(t)' = "agree"
    <3>1. CASE f = t0.family /\ StatusOf(t0) = "agree"
      BY <2>3, <2>5, <2>6, <3>1
    <3>2. CASE f # t0.family \/ StatusOf(t0) # "agree"
      <4>1. family_counts'[f]["agree"] = family_counts[f]["agree"]
        BY <2>4, <2>5, <3>2
      <4>2. QED
        BY <2>3, <2>6, <3>2, <4>1 DEF DiffInv, Tally
    <3>3. QED
      BY <3>1, <3>2
  <2>9. ASSUME ~raised, NEW x \in broken'
        PROVE  \E t \in seen' : StatusOf(t)' = "harness-error"
    <3>1. CASE x \in broken /\ \E t \in seen : StatusOf(t) = "harness-error"
      BY <2>3, <2>6, <3>1
    <3>2. CASE answer = HarnessError \/ o = HarnessError
      BY <2>3, <2>6, <3>2, StatusMeaning
    <3>3. CASE x \notin broken
      BY <2>1, <2>9, <3>2, <3>3 DEF Answers
    <3>4. QED
      BY <2>9, <3>1, <3>2, <3>3 DEF DiffInv, Marked
  <2>10. raised' = raised
    BY <1>6 DEF AskB
  <2>11. QED
    BY <2>2, <2>7, <2>8, <2>9, <2>10 DEF DiffInv, Tally, Marked
\* What an exception interrupts has no verdict.
<1>7. CASE Raising
  <2>1. /\ claimed' = claimed /\ raised' /\ pc' = "close b"
        /\ UNCHANGED <<counts, family_counts, seen>>
    BY <1>7 DEF Raising, BuildRaises, AskARaises, AskBRaises, RequestRaises,
                ObserveRaises, history
  <2>2. Tally'
    BY <2>1, QuietTally DEF DiffInv
  <2>3. QED
    BY <2>1, <2>2 DEF DiffInv
<1>8. QED
  BY <1>1, <1>2, <1>3, <1>4, <1>5, <1>6, <1>7 DEF Next, Trial

(* The counts of a finished run call it clean exactly when its answers are   *)
(* evidence: this is what the invariant says once nothing is pending.        *)
LEMMA TallyDecides == TypeOK /\ DiffInv => CleanIsEvidence
<1> SUFFICES ASSUME TypeOK, DiffInv, pc = "done" PROVE clean <=> Evidence
  BY DEF CleanIsEvidence
<1>1. \A t \in seen : t \in Answered
  BY DEF TypeOK, Answered
<1>2. \A s \in Telling : counts[s] \in Nat
  BY DEF TypeOK, Telling, TrialStatuses
<1>3. required \subseteq Family
  BY DEF required
<1>4. ASSUME clean PROVE Evidence
  <2>1. \A t \in seen : StatusOf(t) \in {"agree", "uncomparable"}
    <3> SUFFICES ASSUME NEW t \in seen
                 PROVE  StatusOf(t) \in {"agree", "uncomparable"}
      OBVIOUS
    <3>1. StatusOf(t) \in Telling \cup {"uncomparable"}
      BY <1>1, StatusMeaning
    <3>2. StatusOf(t) \in Telling => counts[StatusOf(t)] > 0
      BY DEF DiffInv, Tally
    <3>3. QED
      BY <1>4, <3>1, <3>2 DEF clean, Telling
  <2>2. broken = {}
    BY <2>1 DEF DiffInv, Marked
  <2>3. \A f \in required : \E t \in seen : t.family = f /\ StatusOf(t) = "agree"
    BY <1>3, <1>4 DEF clean, DiffInv, Tally
  <2>4. QED
    BY <1>1, <1>4, <2>1, <2>2, <2>3, StatusMeaning DEF Evidence, clean
<1>5. ASSUME Evidence PROVE clean
  <2>1. \A t \in seen : StatusOf(t) \in {"agree", "uncomparable"}
    BY <1>1, <1>5, StatusMeaning DEF Evidence
  <2>2. \A s \in {"disagree", "harness-error", "unsupported", "incomplete"} :
           counts[s] = 0
    BY <1>2, <2>1 DEF DiffInv, Tally, Telling
  <2>3. \A f \in required : \E t \in seen : t.family = f /\ StatusOf(t) = "agree"
    BY <1>1, <1>5, StatusMeaning DEF Evidence
  <2>4. \A f \in required : family_counts[f]["agree"] > 0
    BY <1>3, <2>3 DEF DiffInv, Tally
  <2>5. counts["agree"] > 0
    BY <1>5, <2>3 DEF Evidence, DiffInv, Tally, Telling
  <2>6. QED
    BY <1>5, <2>2, <2>4, <2>5 DEF clean, Evidence
<1>6. QED
  BY <1>4, <1>5

(* Whatever the two adapters answer, however their sessions break and        *)
(* whatever trials are skipped, a clean run is one whose answers support it. *)
THEOREM CleanMeansEvidence == Spec => []CleanIsEvidence
<1>1. Init => TypeOK /\ DiffInv
  BY DiffTypeInit, DiffInvInit
<1>2. TypeOK /\ DiffInv /\ [Next]_vars => (TypeOK /\ DiffInv)'
  BY DiffTypeStep, DiffInvStep
<1>3. TypeOK /\ DiffInv => CleanIsEvidence
  BY TallyDecides
<1>4. QED
  BY <1>1, <1>2, <1>3, PTL DEF Spec

-----------------------------------------------------------------------------
(* The invariant behind NothingLeft follows the nesting of the two with      *)
(* statements: until the first __exit__ every session that was entered runs  *)
(* and none was refused; between the two the first may run still, and with   *)
(* it a second whose start failed, but then an exception is on its way.      *)

Within == {"start a", "start b", "build", "ask a", "ask b"}

Entered ==
    /\ pc \in Within => refused = {} /\ ~raised
    /\ pc = "start a" => open = {}
    /\ pc = "start b" => open \subseteq {"a"}
    /\ pc = "close b" => refused = {}
    /\ pc = "close a" => /\ open \subseteq {"a"} \cup refused
                         /\ raised \/ refused = {}
    /\ pc = "clean up" => open = {}
    /\ NothingLeft

LEMMA EnteredInit == Init => Entered
  BY DEF Init, Entered, NothingLeft

LEMMA EnteredStep == TypeOK /\ Entered /\ [Next]_vars => Entered'
<1> SUFFICES ASSUME TypeOK, Entered, [Next]_vars PROVE Entered'
  OBVIOUS
<1>1. CASE StartA \/ StartB
  <2>1. /\ refused' = refused /\ raised' = raised
        /\ pc \in {"start a", "start b"} /\ pc' \in {"start b", "build"}
        /\ pc' = "start b" => pc = "start a" /\ open' = open \cup {"a"}
    BY <1>1 DEF StartA, StartB, Starts, history
  <2>2. pc' = "start b" => open' \subseteq {"a"}
    BY <2>1 DEF Entered
  <2>3. refused' = {} /\ ~raised'
    BY <2>1, Zenon DEF Entered, Within
  <2>4. QED
    BY <2>1, <2>2, <2>3 DEF Entered, Within, NothingLeft
<1>2. CASE StartAFails \/ StartBFails
  \* What a failed start leaves open has been refused, or is the other one.
  <2>1. /\ pc' \in {"close a", "traceback"} /\ raised'
        /\ pc' = "close a" => open' \subseteq {"a"} \cup refused'
        /\ pc' = "traceback" => open' \subseteq refused'
    BY <1>2 DEF StartAFails, StartBFails, StartFails, Entered, Within
  <2>2. QED
    BY <2>1 DEF Entered, Within, NothingLeft
<1>3. CASE Build \/ BuildBlocked \/ AskA \/ AskB
  <2>1. /\ refused' = refused /\ raised' = raised
        /\ pc \in Within /\ pc' \in {"build", "ask a", "ask b"}
    BY <1>3 DEF Build, BuildBlocked, More, AskA, AskB, history, Within
  <2>2. refused' = {} /\ ~raised'
    BY <2>1, Zenon DEF Entered
  <2>3. QED
    BY <2>1, <2>2 DEF Entered, Within, NothingLeft
<1>4. CASE Raising
  <2>1. pc' = "close b" /\ refused' = {}
    BY <1>4 DEF Raising, BuildRaises, More, AskARaises, AskBRaises, RequestRaises,
                ObserveRaises, history, Entered, Within
  <2>2. QED
    BY <2>1 DEF Entered, Within, NothingLeft
<1>5. CASE LoopEnds
  BY <1>5 DEF LoopEnds, history, Entered, Within, NothingLeft
<1>6. CASE CloseB
  <2>1. pc' = "close a" /\ refused' = {} /\ open' \subseteq {"a"}
    BY <1>6 DEF CloseB, history, Entered, TypeOK, Adapters
  <2>2. QED
    BY <2>1 DEF Entered, Within, NothingLeft
<1>7. CASE CloseA
  <2>1. /\ open' \subseteq refused' /\ refused' = refused /\ raised' = raised
        /\ pc' = IF raised THEN "traceback" ELSE "clean up"
    BY <1>7 DEF CloseA, history, Entered
  <2>2. ~raised => refused = {}
    BY <1>7 DEF CloseA, Entered
  <2>3. QED
    BY <2>1, <2>2 DEF Entered, Within, NothingLeft
<1>8. CASE CleanUp
  <2>1. /\ pc' = "done" /\ open' = {}
        /\ KeepFixtures \/ trees' = {}
    BY <1>8 DEF CleanUp, Entered
  <2>2. QED
    BY <2>1 DEF Entered, Within, NothingLeft
<1>9. CASE Ended \/ UNCHANGED vars
  <2>1. UNCHANGED <<pc, open, refused, raised, trees>>
    BY <1>9 DEF Ended, vars, history
  <2>2. QED
    BY <2>1, Zenon DEF Entered, Within, NothingLeft
<1>10. QED
  BY <1>1, <1>2, <1>3, <1>4, <1>5, <1>6, <1>7, <1>8, <1>9
  DEF Next, Starting, Trial, Ending

(* Whatever fails, in a start, a trial or a materialised tree, the run ends  *)
(* with no adapter process but one that never completed its handshake, and a *)
(* run that reports has kept only the trees it was told to keep.             *)
THEOREM NothingIsLeft == Spec => []NothingLeft
<1>1. Init => TypeOK /\ Entered
  BY DiffTypeInit, EnteredInit
<1>2. TypeOK /\ Entered /\ [Next]_vars => (TypeOK /\ Entered)'
  BY DiffTypeStep, EnteredStep
<1>3. Entered => NothingLeft
  BY DEF Entered
<1>4. QED
  BY <1>1, <1>2, <1>3, PTL DEF Spec
=============================================================================
