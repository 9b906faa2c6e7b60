------------------------ MODULE FetchRedirects_proofs ------------------------
(***************************************************************************)
(* Proofs about FetchRedirects: its type invariant, the composition rule   *)
(* and the exactness of its verdicts, for every set of URLs, every         *)
(* normalisation and every bound on the redirects.                         *)
(***************************************************************************)
EXTENDS FetchRedirects, TLAPS

LEMMA FetchTypeInit == FetchInit => FetchTypeOK
<1>1. 0 \in 0..MaxRedirects
  BY LimitAssumption
<1>2. FetchInit => hops \in Seq(Hop)
  BY DEF FetchInit
<1>3. QED
  BY <1>1, <1>2, Zenon DEF FetchInit, FetchTypeOK, Outcomes

LEMMA FetchTypeStep == FetchTypeOK /\ [FetchNext]_fetchVars => FetchTypeOK'
<1> SUFFICES ASSUME FetchTypeOK, [FetchNext]_fetchVars PROVE FetchTypeOK'
  OBVIOUS
<1> USE DEF FetchTypeOK, Raise, chain, Outcomes
<1>1. CASE RefuseSource
  BY <1>1 DEF RefuseSource
<1>2. CASE OpenFirst
  BY <1>2, UrlAssumption DEF OpenFirst
<1>3. CASE Fails
  BY <1>3 DEF Fails
<1>4. CASE NoTarget
  BY <1>4 DEF NoTarget
<1>5. CASE FinalAnswer
  BY <1>5, UrlAssumption DEF FinalAnswer, Hop, Kinds
<1>6. ASSUME NEW kind \in Kinds, NEW next \in Url, Redirected(kind, next)
      PROVE  hops' \in Seq(Hop)
  BY <1>6, UrlAssumption DEF Redirected, Hop
<1>7. ASSUME NEW kind \in Kinds, NEW next \in Url, Downgraded(kind, next)
      PROVE  FetchTypeOK'
  BY <1>6, <1>7 DEF Downgraded
<1>8. ASSUME NEW kind \in Kinds, NEW next \in Url, LimitReached(kind, next)
      PROVE  FetchTypeOK'
  BY <1>6, <1>8 DEF LimitReached
<1>9. ASSUME NEW kind \in Kinds, NEW next \in Url, Unrecordable(kind, next)
       PROVE  FetchTypeOK'
  BY <1>6, <1>9 DEF Unrecordable
<1>10. ASSUME NEW kind \in Kinds, NEW next \in Url, FollowHop(kind, next)
       PROVE  FetchTypeOK'
  <2>1. Redirected(kind, next) /\ ~TooFar(next) /\ next \in Secure
    BY <1>10 DEF FollowHop
  <2>2. hops' \in Seq(Hop)
    BY <1>6, <2>1
  <2>3. redirects' \in 0..MaxRedirects
    BY <1>10, <2>1, LimitAssumption DEF FollowHop, TooFar
  <2>4. recorded' \in Url \cup {NoForm} /\ current' \in Url \cup {NoForm}
        /\ seen' \subseteq Secure
    BY <1>10, <2>1, UrlAssumption DEF FollowHop
  <2>5. temporary_seen' \in BOOLEAN
    BY <1>10 DEF FollowHop
  <2>6. QED
    BY <1>10, <2>2, <2>3, <2>4, <2>5 DEF FollowHop
<1>11. CASE FetchReturn
  <2>1. FetchInit'
    BY <1>11 DEF FetchReturn, FetchInit
  <2>2. 0 \in 0..MaxRedirects
    BY LimitAssumption
  <2>3. hops' \in Seq(Hop)
    BY <2>1 DEF FetchInit
  <2>4. QED
    BY <2>1, <2>2, <2>3, Zenon DEF FetchInit
<1>12. CASE UNCHANGED fetchVars
  BY <1>12 DEF fetchVars
<1>13. QED
  BY <1>1, <1>2, <1>3, <1>4, <1>5, <1>7, <1>8, <1>9, <1>10, <1>11, <1>12
  DEF FetchNext, FetchBegin, FetchStep

(* The type invariant holds of every reachable state: in particular no more  *)
(* than MaxRedirects redirects are followed.                                 *)
THEOREM FetchTypeCorrect == FetchSpec => []FetchTypeOK
  BY FetchTypeInit, FetchTypeStep, PTL DEF FetchSpec

-----------------------------------------------------------------------------
(* The invariant behind the two properties.  While the chain is followed,    *)
(* every answer was a redirect, its URLs are the ones seen, each once, and   *)
(* the record is the normal form of the current URL until the first          *)
(* temporary redirect, and of that hop's URL from then on.                   *)

Frozen ==
    \E n \in 1..Len(hops) :
        /\ Permanent(n - 1) /\ hops[n].kind # "permanent"
        /\ recorded = Normal[hops[n].url]

OpenedOnce ==
    \A i, j \in 1..Len(hops) : hops[i].url = hops[j].url => i = j

Chain ==
    /\ Len(hops) = redirects
    /\ seen = Opened \cup {current} /\ current \notin Opened
    /\ OpenedOnce
    /\ ~temporary_seen =>
          Permanent(Len(hops)) /\ recorded = Normal[current]
    /\ temporary_seen => Frozen

FetchInv ==
    /\ fetch = "idle" => hops = <<>> /\ redirects = 0 /\ temporary_seen = FALSE
    /\ fetch # "done" => outcome = "none"
    /\ fetch = "fetching" => Chain
    /\ RecordRule /\ VerdictExact

(* What an answer h of the current URL, appended to the chain, does to it. *)
LEMMA AppendHop ==
    ASSUME FetchTypeOK, Chain, NEW h \in Hop, h.url = current,
           hops' = Append(hops, h)
    PROVE  /\ Len(hops') = redirects + 1 /\ Len(hops') \in Nat
           /\ hops'[Len(hops')] = h
           /\ \A i \in 1..(Len(hops') - 1) : i \in 1..Len(hops) /\ hops'[i] = hops[i]
           /\ Opened' = seen
           /\ OpenedOnce'
<1>1. hops \in Seq(Hop) /\ Len(hops) \in Nat /\ redirects \in Nat
  BY LimitAssumption DEF FetchTypeOK
<1>2. /\ Len(hops') = Len(hops) + 1
      /\ hops'[Len(hops')] = h
      /\ \A i \in 1..Len(hops) : hops'[i] = hops[i]
  BY <1>1
<1>3. \A i \in 1..Len(hops') : i \in 1..Len(hops) \/ i = Len(hops')
  BY <1>1, <1>2
<1>4. Opened' = Opened \cup {current}
  <2>1. 1..Len(hops') = 1..Len(hops) \cup {Len(hops')}
    BY <1>1, <1>2
  <2>2. QED
    BY <1>2, <2>1 DEF Opened
<1>5. OpenedOnce'
  <2> SUFFICES ASSUME NEW i \in 1..Len(hops'), NEW j \in 1..Len(hops'),
                      hops'[i].url = hops'[j].url
               PROVE  i = j
    BY DEF OpenedOnce
  <2>1. \A k \in 1..Len(hops) : hops'[k].url \in Opened
    BY <1>2 DEF Opened
  <2>2. hops'[Len(hops')].url \notin Opened
    BY <1>2 DEF Chain
  <2>3. CASE i \in 1..Len(hops) /\ j \in 1..Len(hops)
    BY <1>2, <2>3 DEF Chain, OpenedOnce
  <2>4. QED
    BY <1>3, <2>1, <2>2, <2>3
<1>6. QED
  BY <1>1, <1>2, <1>4, <1>5 DEF Chain

(* The record after that answer: frozen before, it stays frozen; frozen now, *)
(* it is of the URL that answered; else every answer so far was permanent.   *)
LEMMA AppendRecord ==
    ASSUME FetchTypeOK, Chain, NEW h \in Hop, h.url = current,
           hops' = Append(hops, h)
    PROVE  /\ temporary_seen /\ recorded' = recorded => Frozen'
           /\ ~temporary_seen /\ h.kind # "permanent" /\ recorded' = recorded
                  => Frozen'
           /\ ~temporary_seen /\ h.kind = "permanent"
                  => \A i \in 1..Len(hops') : hops'[i].kind = "permanent"
<1>1. /\ Len(hops') \in Nat /\ Len(hops') = Len(hops) + 1 /\ Len(hops) \in Nat
      /\ hops'[Len(hops')] = h
      /\ \A i \in 1..(Len(hops') - 1) : i \in 1..Len(hops) /\ hops'[i] = hops[i]
  <2>1. Len(hops) = redirects
    BY DEF Chain
  <2>2. redirects \in Nat
    BY LimitAssumption DEF FetchTypeOK
  <2>3. QED
    BY AppendHop, <2>1, <2>2
<1>2. ASSUME temporary_seen, recorded' = recorded PROVE Frozen'
  <2>1. PICK n \in 1..Len(hops) :
            /\ \A i \in 1..(n - 1) : hops[i].kind = "permanent"
            /\ hops[n].kind # "permanent"
            /\ recorded = Normal[hops[n].url]
    BY <1>2 DEF Chain, Frozen, Permanent
  <2>2. n \in 1..Len(hops') /\ n \in 1..(Len(hops') - 1)
    BY <1>1
  <2>3. \A i \in 1..(n - 1) : i \in 1..(Len(hops') - 1)
    BY <1>1, <2>2
  <2>4. QED
    BY <1>1, <1>2, <2>1, <2>2, <2>3 DEF Frozen, Permanent
<1>3. ASSUME ~temporary_seen
      PROVE  \A i \in 1..(Len(hops') - 1) : hops'[i].kind = "permanent"
  BY <1>1, <1>3 DEF Chain, Permanent
<1>4. ASSUME ~temporary_seen, h.kind # "permanent", recorded' = recorded
      PROVE  Frozen'
  <2>1. recorded' = Normal[hops'[Len(hops')].url]
    BY <1>1, <1>4 DEF Chain
  <2>2. Len(hops') \in 1..Len(hops')
    BY <1>1
  <2>3. QED
    BY <1>1, <1>3, <1>4, <2>1, <2>2 DEF Frozen, Permanent
<1>5. ASSUME ~temporary_seen, h.kind = "permanent"
      PROVE  \A i \in 1..Len(hops') : hops'[i].kind = "permanent"
  <2>1. \A i \in 1..Len(hops') : i \in 1..(Len(hops') - 1) \/ i = Len(hops')
    BY <1>1
  <2>2. QED
    BY <1>1, <1>3, <1>5, <2>1
<1>6. QED
  BY <1>2, <1>4, <1>5

LEMMA FetchInvInit == FetchInit => FetchInv
  BY DEF FetchInit, FetchInv, RecordRule, VerdictExact

LEMMA FetchInvStep == FetchTypeOK /\ FetchTypeOK' /\ FetchInv /\ [FetchNext]_fetchVars => FetchInv'
<1> SUFFICES ASSUME FetchTypeOK, FetchTypeOK', FetchInv, [FetchNext]_fetchVars PROVE FetchInv'
  OBVIOUS
<1>1. CASE RefuseSource
  BY <1>1 DEF RefuseSource, Raise, FetchInv, RecordRule, VerdictExact, Permanent
<1>2. CASE OpenFirst
  <2>1. /\ hops' = <<>> /\ redirects' = 0 /\ ~temporary_seen' /\ outcome' = "none"
        /\ fetch' = "fetching" /\ seen' = {current'} /\ recorded' = Normal[current']
    BY <1>2 DEF OpenFirst, FetchInv
  <2>2. Chain'
    BY <2>1 DEF Chain, OpenedOnce, Opened, Permanent
  <2>3. QED
    BY <2>1, <2>2 DEF FetchInv, RecordRule, VerdictExact
<1>3. CASE Fails \/ NoTarget
  BY <1>3 DEF Fails, NoTarget, Raise, FetchInv, RecordRule, VerdictExact
<1>4. CASE FinalAnswer
  <2> DEFINE h == [url |-> current, kind |-> "final", next |-> NoForm]
  <2>1. h \in Hop /\ h.url = current /\ h.kind = "final" /\ hops' = Append(hops, h)
    BY <1>4, UrlAssumption DEF FinalAnswer, Hop, Kinds, FetchTypeOK
  <2>2. /\ Chain /\ fetch' = "done" /\ outcome' = "ok" /\ recorded' = recorded
    BY <1>4 DEF FinalAnswer, Raise, chain, FetchInv
  <2> HIDE DEF h
  <2>3. Frozen'
    BY <2>1, <2>2, AppendRecord DEF Chain
  <2>4. /\ Len(hops') = redirects + 1 /\ Opened' = seen /\ OpenedOnce'
    BY <2>1, <2>2, AppendHop
  <2>5. Len(hops') <= MaxRedirects + 1
    BY <2>4, LimitAssumption DEF FetchTypeOK
  <2>6. VerdictExact'
    BY <2>2, <2>4, <2>5 DEF VerdictExact, OpenedOnce, FetchTypeOK
  <2>7. QED
    BY <2>2, <2>3, <2>6 DEF FetchInv, RecordRule, Frozen
<1>5. ASSUME NEW kind \in Kinds, NEW next \in Url,
             \/ Downgraded(kind, next) \/ LimitReached(kind, next)
             \/ Unrecordable(kind, next) \/ FollowHop(kind, next)
      PROVE  FetchInv'
  <2> DEFINE h == [url |-> current, kind |-> kind, next |-> next]
  <2>1. Redirected(kind, next)
    BY <1>5 DEF Downgraded, LimitReached, Unrecordable, FollowHop
  <2>2. /\ h \in Hop /\ h.url = current /\ h.kind = kind /\ h.next = next
        /\ hops' = Append(hops, h) /\ fetch = "fetching" /\ kind # "final"
        /\ Chain /\ outcome = "none"
    BY <2>1, UrlAssumption DEF Redirected, Hop, FetchTypeOK, FetchInv
  <2> HIDE DEF h
  <2>3. /\ Len(hops') = redirects + 1 /\ Opened' = seen /\ OpenedOnce'
        /\ Target' = next
    BY <2>2, AppendHop DEF Target
  <2>4. CASE Downgraded(kind, next)
    BY <2>3, <2>4
    DEF Downgraded, Raise, FetchInv, RecordRule, VerdictExact
  <2>5. CASE LimitReached(kind, next)
    <3>1. Len(hops') > MaxRedirects \/ next \in Opened'
      BY <2>3, <2>5, LimitAssumption DEF LimitReached, TooFar, FetchTypeOK
    <3>2. QED
      BY <2>3, <2>5, <3>1
      DEF LimitReached, Raise, FetchInv, RecordRule, VerdictExact
  <2>6. CASE Unrecordable(kind, next)
    <3>1. kind = "permanent" /\ ~temporary_seen
      BY <2>6 DEF Unrecordable, Moves
    <3>2. \A i \in 1..Len(hops') : hops'[i].kind = "permanent"
      BY <2>2, <3>1, AppendRecord
    <3>3. QED
      BY <2>6, <3>2
      DEF Unrecordable, Raise, FetchInv, RecordRule, VerdictExact, Permanent
  <2>7. CASE FollowHop(kind, next)
    <3>1. /\ fetch' = "fetching" /\ outcome' = "none" /\ current' = next
          /\ redirects' = redirects + 1 /\ seen' = seen \cup {next}
          /\ temporary_seen' = (temporary_seen \/ kind = "temporary")
          /\ recorded' = IF Moves(kind) THEN Normal[next] ELSE recorded
      BY <2>2, <2>7 DEF FollowHop
    <3>2. next \notin Opened'
      BY <2>3, <2>7 DEF FollowHop, TooFar
    <3>3. ASSUME ~temporary_seen'
          PROVE  Permanent(Len(hops))' /\ recorded' = Normal[current']
      <4>1. ~temporary_seen /\ kind = "permanent"
        BY <2>2, <3>1, <3>3 DEF Kinds
      <4>2. \A i \in 1..Len(hops') : hops'[i].kind = "permanent"
        BY <2>2, <4>1, AppendRecord
      <4>3. QED
        BY <3>1, <4>1, <4>2 DEF Permanent, Moves
    <3>4. ASSUME temporary_seen' PROVE Frozen'
      <4>1. temporary_seen \/ kind = "temporary"
        BY <3>1, <3>4
      <4>2. recorded' = recorded
        BY <3>1, <4>1 DEF Moves
      <4>3. QED
        BY <2>2, <4>1, <4>2, AppendRecord
    <3>5. Chain'
      BY <2>3, <3>1, <3>2, <3>3, <3>4 DEF Chain
    <3>6. QED
      BY <3>1, <3>5 DEF FetchInv, RecordRule, VerdictExact
  <2>8. QED
    BY <1>5, <2>4, <2>5, <2>6, <2>7
<1>6. CASE FetchReturn
  BY <1>6 DEF FetchReturn, FetchInv, RecordRule, VerdictExact
<1>7. CASE UNCHANGED fetchVars
  BY <1>7 DEF fetchVars, chain, FetchInv, Chain, Frozen, OpenedOnce, Opened,
              Permanent, RecordRule, VerdictExact, Target
<1>8. QED
  BY <1>1, <1>2, <1>3, <1>4, <1>5, <1>6, <1>7 DEF FetchNext, FetchBegin, FetchStep

LEMMA FetchInvariant == FetchSpec => []FetchInv
<1>1. FetchInit => FetchTypeOK /\ FetchInv
  BY FetchTypeInit, FetchInvInit
<1>2. FetchTypeOK /\ FetchInv /\ [FetchNext]_fetchVars => (FetchTypeOK /\ FetchInv)'
  BY FetchTypeStep, FetchInvStep
<1>3. QED
  BY <1>1, <1>2, PTL DEF FetchSpec

(* Whatever the servers answer, the value recorded is that of the first hop  *)
(* that did not answer with a permanent redirect.                            *)
THEOREM RecordRuleHolds == FetchSpec => []RecordRule
<1>1. FetchInv => RecordRule
  BY DEF FetchInv
<1>2. QED
  BY <1>1, FetchInvariant, PTL

(* Whatever the servers answer, an accepted chain has no fault and a chain   *)
(* refused for one has it.                                                   *)
THEOREM VerdictIsExact == FetchSpec => []VerdictExact
<1>1. FetchInv => VerdictExact
  BY DEF FetchInv
<1>2. QED
  BY <1>1, FetchInvariant, PTL
=============================================================================
