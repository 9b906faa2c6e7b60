----------------------------- MODULE MockRoutes -----------------------------
(***************************************************************************)
(* The routes of the mock HTTP authority (conformance/runner/mock_http.py):*)
(* how a vector's transport script becomes the table its listeners serve.  *)
(* A URL is [scheme, host, path, query]; a table is keyed by all of it but *)
(* the query, and a later route takes the place of an earlier one.         *)
(***************************************************************************)
EXTENDS Integers, FiniteSets, SequencesExt

CONSTANTS
    Host,           \* the host names of the scripts
    LoopHost,       \* "b.example.com", the second node of a loop ...
    LoopOther,      \* ... and "a.example.com", when the first is that
    RandomHost,     \* the host with {random} in its name ...
    PassHost,       \* ... and what each crawl pass makes of it
    ChainPath,      \* the paths "/0" to "/11" of the eleven-hop chain
    Hops            \* their redirects: range(11)

NoUrl == [scheme |-> "none", host |-> "none", path |-> "none", query |-> "none"]

\* A step of a transport script, and a route: a status and a Location.
Reply(status, location) == [status |-> status, location |-> location]
Key(url) == <<url.scheme, url.host, url.path>>
RouteTo(url, reply) == [key |-> Key(url), reply |-> reply]

Secured(host, path) ==
    [scheme |-> "https", host |-> host, path |-> path, query |-> "none"]

(* The URL each step of a script answers for: the first is the request, the  *)
(* next the Location of the one before.  The script stops after the first    *)
(* step that has none.                                                       *)
Current(request, steps, i) == IF i = 1 THEN request ELSE steps[i - 1].location
Reached(steps) ==
    {i \in DOMAIN steps : \A j \in 1..(i - 1) : steps[j].location # NoUrl}

(* A redirect to http in a script that never answers 200 gets a page of its  *)
(* own to be fetched, so that the insecure hop can be followed.              *)
InsecurePage_Never(steps, location) == FALSE
InsecurePage(steps, location) ==
    location.scheme = "http" /\ \A i \in DOMAIN steps : steps[i].status # 200

StepRoutes(request, steps, i) ==
    LET location == steps[i].location
    IN  <<RouteTo(Current(request, steps, i), steps[i])>>
        \o IF InsecurePage(steps, location)
           THEN <<RouteTo(location, Reply(200, NoUrl))>> ELSE <<>>

ScriptRoutes(request, steps) ==
    FlattenSeq([i \in 1..Cardinality(Reached(steps)) |->
                    StepRoutes(request, steps, i)])

_eleven_hop_chain(request) ==
    [i \in 1..Hops |->
        RouteTo(Secured(request.host, ChainPath[i - 1]),
                Reply(301, Secured(request.host, ChainPath[i])))]
    \o <<RouteTo(Secured(request.host, ChainPath[Hops]), Reply(200, NoUrl))>>

LoopPartner(request) ==
    Secured(IF request.host # LoopHost THEN LoopHost ELSE LoopOther, request.path)

_two_node_loop(request) ==
    <<RouteTo(Secured(request.host, request.path), Reply(301, LoopPartner(request))),
      RouteTo(LoopPartner(request), Reply(301, request))>>

(* A case is a request and its transport: a script, or the name of one.      *)
_routes_for_transport(case) ==
    CASE case.named = "eleven-hop-chain"  -> _eleven_hop_chain(case.request)
      [] case.named = "two-node-301-loop" -> _two_node_loop(case.request)
      [] case.named = "none"              -> ScriptRoutes(case.request, case.steps)

\* {random} is replaced by the number of the pass; here no page is added.
Materialized(url, pass) ==
    IF url.host = RandomHost THEN [url EXCEPT !.host = PassHost[pass]] ELSE url

CrawlSteps(case, pass) ==
    [i \in DOMAIN case.steps |->
        [case.steps[i] EXCEPT !.location = Materialized(@, pass)]]

_routes_for_crawl(case, pass) ==
    LET steps == CrawlSteps(case, pass)
    IN  [i \in 1..Cardinality(Reached(steps)) |->
            RouteTo(Current(case.request, steps, i), steps[i])]

-----------------------------------------------------------------------------
(* The table of a list of routes, and what it has for a key: a page, or 404. *)

LastOf(routes, k) ==
    CHOOSE i \in DOMAIN routes :
        routes[i].key = k /\ \A j \in (i + 1)..Len(routes) : routes[j].key # k
Table(routes) ==
    [k \in {routes[i].key : i \in DOMAIN routes} |-> routes[LastOf(routes, k)].reply]

NotFound == Reply(404, NoUrl)
Lookup(table, key) == IF key \in DOMAIN table THEN table[key] ELSE NotFound

\* The listeners a table needs: one for each scheme and host.
Needed(table) == {<<k[1], k[2]>> : k \in DOMAIN table}

-----------------------------------------------------------------------------
(* What a vector's author wrote: the answer to the n-th request of a client  *)
(* that begins at the request and follows every Location it is given.        *)

Scripted(case, steps, n) ==
    CASE case.named = "eleven-hop-chain" ->
            IF n <= Hops
            THEN Reply(301, Secured(case.request.host, ChainPath[n]))
            ELSE Reply(200, NoUrl)
      [] case.named = "two-node-301-loop" ->
            Reply(301, IF n % 2 = 1 THEN LoopPartner(case.request) ELSE case.request)
      [] case.named = "none" ->
            IF n <= Len(steps) THEN steps[n] ELSE Reply(200, NoUrl)
=============================================================================
