--------------------------- MODULE FetchRedirects ---------------------------
(***************************************************************************)
(* fetch_uri of the adapter (conformance/adapters/reference.py, handle_    *)
(* fetch_uri): follow the redirects of a URL to the first answer that is   *)
(* none, refuse a chain that leaves https, is too long or loops, and       *)
(* record the URL that the unbroken prefix of permanent redirects leads    *)
(* to.  The servers are the environment: each request gets any answer.     *)
(***************************************************************************)
EXTENDS Integers, Sequences

CONSTANTS
    Url,           \* URLs as they are spelled in requests and Locations
    Secure,        \* those whose scheme is https
    Normal,        \* normalize_source_uri: the normal form of each URL ...
    NoForm,        \* ... or this, where it raises a SpecError
    MaxRedirects   \* MAX_REDIRECTS

ASSUME UrlAssumption ==
    /\ Secure \subseteq Url /\ NoForm \notin Url
    /\ Normal \in [Url -> Url \cup {NoForm}]
    /\ \A u \in Url \ Secure : Normal[u] = NoForm
ASSUME LimitAssumption == MaxRedirects \in Nat

VARIABLES
    fetch,           \* "idle", "fetching" or "done"
    outcome,         \* what the request was answered with, at "done"
    current,         \* the URL to open next
    recorded,        \* the source_uri so far
    seen,            \* the URLs of the chain
    redirects,       \* redirects followed
    temporary_seen,  \* one of them was temporary
    hops             \* history: the answers, [url, kind, next]

chain == <<current, recorded, seen, redirects, temporary_seen>>
fetchVars == <<fetch, outcome, chain, hops>>

Outcomes ==
    {"none", "ok", "failed", "unsupported", "rejected",
     "redirect_downgrade", "redirect_limit"}

\* 301 and 308; 302, 303 and 307; every other status.
Kinds == {"permanent", "temporary", "final"}
Hop == [url : Url, kind : Kinds, next : Url \cup {NoForm}]

-----------------------------------------------------------------------------
FetchInit ==
    /\ fetch = "idle" /\ outcome = "none"
    /\ current = NoForm /\ recorded = NoForm /\ seen = {}
    /\ redirects = 0 /\ temporary_seen = FALSE /\ hops = <<>>

Raise(r) == fetch' = "done" /\ outcome' = r /\ UNCHANGED chain

(* The URL of the request must itself have a normal form. *)
RefuseSource ==
    /\ fetch = "idle" /\ \E u \in Url : Normal[u] = NoForm
    /\ Raise("rejected") /\ UNCHANGED hops

OpenFirst ==
    /\ fetch = "idle" /\ fetch' = "fetching"
    /\ \E u \in Url :
          /\ Normal[u] # NoForm
          /\ current' = u /\ recorded' = Normal[u] /\ seen' = {u}
    /\ UNCHANGED <<outcome, redirects, temporary_seen, hops>>

\* No connection, a bad certificate, a timeout: an error of the adapter's own.
Fails ==
    /\ fetch = "fetching"
    /\ Raise("failed") /\ UNCHANGED hops

NoTarget ==
    /\ fetch = "fetching"
    /\ Raise("unsupported") /\ UNCHANGED hops

FinalAnswer ==
    /\ fetch = "fetching"
    /\ Raise("ok")
    /\ hops' = Append(hops, [url |-> current, kind |-> "final", next |-> NoForm])

-----------------------------------------------------------------------------
(* A redirect: the checks in the code's order, then the hop. *)

Redirected(kind, next) ==
    /\ fetch = "fetching"
    /\ kind # "final"
    /\ hops' = Append(hops, [url |-> current, kind |-> kind, next |-> next])

TooFar_LoopsBounded(next) == redirects >= MaxRedirects
TooFar_OffByOne(next) == redirects > MaxRedirects \/ next \in seen
TooFar(next) == redirects >= MaxRedirects \/ next \in seen

\* A permanent redirect moves the record, until a temporary one was seen.
Moves_Unfrozen(kind) == kind = "permanent"
Moves(kind) == kind = "permanent" /\ ~temporary_seen

Downgraded(kind, next) ==
    /\ Redirected(kind, next)
    /\ next \notin Secure
    /\ Raise("redirect_downgrade")

LimitReached(kind, next) ==
    /\ Redirected(kind, next)
    /\ next \in Secure /\ TooFar(next)
    /\ Raise("redirect_limit")

Unrecordable(kind, next) ==
    /\ Redirected(kind, next)
    /\ next \in Secure /\ ~TooFar(next)
    /\ Moves(kind) /\ Normal[next] = NoForm
    /\ Raise("rejected")

FollowHop(kind, next) ==
    /\ Redirected(kind, next)
    /\ next \in Secure /\ ~TooFar(next)
    /\ Moves(kind) => Normal[next] # NoForm
    /\ recorded' = IF Moves(kind) THEN Normal[next] ELSE recorded
    /\ temporary_seen' = (temporary_seen \/ kind = "temporary")
    /\ redirects' = redirects + 1
    /\ seen' = seen \cup {next} /\ current' = next
    /\ UNCHANGED <<fetch, outcome>>

FetchBegin == RefuseSource \/ OpenFirst
FetchStep ==
    \/ Fails \/ NoTarget \/ FinalAnswer
    \/ \E kind \in Kinds, next \in Url :
          \/ Downgraded(kind, next) \/ LimitReached(kind, next)
          \/ Unrecordable(kind, next) \/ FollowHop(kind, next)

\* The locals go with the call.
FetchReturn ==
    /\ fetch = "done"
    /\ fetch' = "idle" /\ outcome' = "none"
    /\ current' = NoForm /\ recorded' = NoForm /\ seen' = {}
    /\ redirects' = 0 /\ temporary_seen' = FALSE /\ hops' = <<>>

FetchNext == FetchBegin \/ FetchStep \/ FetchReturn

FetchSpec == FetchInit /\ [][FetchNext]_fetchVars
-----------------------------------------------------------------------------
(* Properties. *)

(* The type invariant; redirects stays within the bound of the chain. *)
FetchTypeOK ==
    /\ fetch \in {"idle", "fetching", "done"} /\ outcome \in Outcomes
    /\ current \in Url \cup {NoForm} /\ recorded \in Url \cup {NoForm}
    /\ seen \subseteq Secure
    /\ redirects \in 0..MaxRedirects /\ temporary_seen \in BOOLEAN
    /\ hops \in Seq(Hop)
    /\ fetch = "fetching" => current \in Secure

Permanent(n) == \A i \in 1..n : hops[i].kind = "permanent"

(* The composition rule of the registry specification, section 10.4: the     *)
(* value given back is the URL of the first hop that did not answer with a   *)
(* permanent redirect, whatever the hops after it answered.  So two crawls   *)
(* with the same leading permanent redirects record the same value, and      *)
(* nothing a temporary redirect leads to is ever recorded.                   *)
RecordRule ==
    outcome = "ok" =>
        \E n \in 1..Len(hops) :
            /\ Permanent(n - 1) /\ hops[n].kind # "permanent"
            /\ recorded = Normal[hops[n].url]

(* Section 10.4: "every hop - before and after the freeze point - MUST be    *)
(* https, counts against the bound and participates in loop detection".  No  *)
(* chain with such a fault is accepted, none without it gets that verdict,   *)
(* and a target nobody would record is no fault behind a temporary redirect. *)
Opened == {hops[i].url : i \in 1..Len(hops)}
Target == hops[Len(hops)].next
VerdictExact ==
    /\ outcome = "ok" =>
          /\ Opened \subseteq Secure
          /\ Len(hops) <= MaxRedirects + 1
          /\ \A i, j \in 1..Len(hops) : hops[i].url = hops[j].url => i = j
    /\ outcome = "redirect_downgrade" => Target \notin Secure
    /\ outcome = "redirect_limit" =>
          Target \in Secure /\ (Len(hops) > MaxRedirects \/ Target \in Opened)
    /\ outcome = "rejected" => Permanent(Len(hops))

(* Section 10.4: "The recorded value MUST NOT be a URL that answered with a  *)
(* permanent redirect during the crawl."                                     *)
RecordedNotMoved ==
    outcome = "ok" =>
        \A i \in 1..Len(hops) :
            hops[i].kind = "permanent" => hops[i].url # recorded
=============================================================================
