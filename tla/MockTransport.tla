--------------------------- MODULE MockTransport ---------------------------
(***************************************************************************)
(* The mock HTTP authority and the doubles it starts for one vector at a   *)
(* time (conformance/runner/mock_http.py), driven by the run (run.py) and  *)
(* the bindings of the mock-transport and mock-crawl vectors (registry.py).*)
(* The adapter is the environment: it follows the redirects as far as it   *)
(* likes, may leave a TLS handshake unfinished, and may not answer at all. *)
(***************************************************************************)
EXTENDS MockRoutes, FiniteSets

CONSTANTS
    Plan,   \* the vectors: [crawl |-> BOOLEAN, cases |-> <<case, ...>>]
    Tables  \* the table of each vector, in each pass over it

(* The routes of a vector: start_vector, start_cases and start_crawl.        *)
RoutesOf(vector, pass) ==
    IF vector.crawl
    THEN _routes_for_crawl(vector.cases[1], pass)
    ELSE FlattenSeq([i \in DOMAIN vector.cases |->
                        _routes_for_transport(vector.cases[i])])

TablesOf(plan) ==
    [w \in DOMAIN plan |-> [pass \in 1..2 |-> Table(RoutesOf(plan[w], pass))]]
At == {"http", "https"} \X Host   \* what a listener serves

ASSUME TablesAssumption == Tables = TablesOf(Plan)
ASSUME PlanAssumption ==
    /\ Plan \in Seq(Range(Plan))
    /\ \A w \in DOMAIN Plan, pass \in 1..2 : Needed(Tables[w][pass]) \subseteq At

VARIABLES
    pc,         \* where the runner is
    env,        \* env["mock_http_tls"]["ok"]
    authority,  \* mock_http: there is one
    root,       \* its temporary directory: "absent", "made" or "removed"
    v,          \* the vector whose turn it is
    status,     \* the outcomes so far: "ran", "env-blocked", "harness-error"
    double,     \* [table, servers, resolve] of the vector; its kind and fetches
    todo,       \* the listeners set_routes has yet to start
    raised,     \* what goes on being raised behind the finally clause
    sockets,    \* listeners open in the process: [vector, at]
    stuck,      \* those whose accept thread waits in a TLS handshake
    n,          \* the case (or pass) whose fetch is next or under way
    fetch,      \* [resolve, at, served]: the request and the answers it got
    dead        \* the adapter has been killed

run  == <<env, authority, root, v, status>>
mock == <<double, todo, raised, sockets>>
call == <<n, fetch, dead>>
vars == <<pc, run, mock, stuck, call>>

Idle     == [table |-> <<>>, servers |-> <<>>, resolve |-> <<>>,
             crawl |-> FALSE, fetches |-> 0]
NoFetch  == [resolve |-> <<>>, at |-> NoUrl, served |-> <<>>]
Vector   == Plan[v]
Listener(at) == [vector |-> v, at |-> at]

Init ==
    /\ pc = "probed" /\ env \in BOOLEAN
    /\ authority = FALSE /\ root = "absent" /\ v = 1 /\ status = <<>>
    /\ double = Idle /\ todo = {} /\ raised = "none"
    /\ sockets = {} /\ stuck = {}
    /\ n = 1 /\ fetch = NoFetch /\ dead = FALSE

-----------------------------------------------------------------------------
(* MockHttpAuthority.__init__, only where the probe found openssl.           *)

NoAuthority ==
    /\ pc = "probed" /\ ~env
    /\ pc' = "between" /\ UNCHANGED <<run, mock, stuck, call>>

Authority ==
    /\ pc = "probed" /\ env
    /\ authority' = TRUE /\ root' = "made" /\ pc' = "between"
    /\ UNCHANGED <<env, v, status, mock, stuck, call>>

\* openssl is gone, or it makes no CA: then the directory stays.
AuthorityFails ==
    /\ pc = "probed" /\ env
    /\ env' = FALSE /\ root' \in {"absent", "made"} /\ pc' = "between"
    /\ UNCHANGED <<authority, v, status, mock, stuck, call>>

-----------------------------------------------------------------------------
(* The vector's binding: start_vector, start_cases or start_crawl.           *)

VectorOver_Retried(outcome) ==
    /\ pc' = "between" /\ env' = (env /\ outcome # "env-blocked")
    /\ IF outcome = "env-blocked" THEN UNCHANGED <<v, status>>
       ELSE v' = v + 1 /\ status' = Append(status, outcome)
VectorOver(outcome) ==
    /\ pc' = "between" /\ status' = Append(status, outcome) /\ v' = v + 1
    /\ env' = (env /\ outcome # "env-blocked")

NoDouble ==
    /\ pc = "between" /\ v <= Len(Plan) /\ ~authority
    /\ VectorOver("env-blocked")
    /\ UNCHANGED <<authority, root, mock, stuck, call>>

\* One fetch for each case, two for a crawl.
Fetches(vector) == IF vector.crawl THEN 2 ELSE Len(vector.cases)

\* The new table takes the place of the old one; running listeners are kept.
Retabled_Kept(old, new) ==
    [k \in DOMAIN old \cup DOMAIN new |-> IF k \in DOMAIN old THEN old[k] ELSE new[k]]
Retabled(old, new) == new

set_routes(pass) ==
    LET table == Retabled(double.table, Tables[v][pass])
    IN  /\ double' = [double EXCEPT !.table = table,
                          !.crawl = Vector.crawl, !.fetches = Fetches(Vector)]
        /\ todo' = Needed(table) \ ToSet(double.servers)

StartDouble ==
    /\ pc = "between" /\ v <= Len(Plan) /\ authority
    /\ set_routes(1) /\ n' = 1 /\ pc' = "starting"
    /\ UNCHANGED <<run, raised, sockets, stuck, fetch, dead>>

\* sorted(needed): http before https; hosts in an order nothing depends on.
Turn(at) == at \in todo /\ (at[1] = "https" => \A other \in todo : other[1] = "https")

_start_server(at) ==
    /\ pc = "starting" /\ Turn(at)
    /\ todo' = todo \ {at}
    /\ sockets' = sockets \cup {Listener(at)}
    /\ double' = [double EXCEPT
                    !.servers = Append(@, at),
                    !.resolve = [h \in DOMAIN @ \cup {at[2]} |->
                                    IF h = at[2] THEN at ELSE @[h]]]
    /\ UNCHANGED <<pc, run, raised, stuck, call>>

(* A listener that does not start: no port, no certificate, no TLS           *)
(* (EnvBlocked), or a certificate that does not load (SSLError).  In the     *)
(* first pass start_routes raises before the binding has the double, and     *)
(* nothing closes the listeners started before this one; in a later pass the *)
(* finally clause of the binding closes them.                                *)
Abandoned_Pending(at) == todo \ {at}
Abandoned(at) == {}

StartFails(at) ==
    /\ pc = "starting" /\ Turn(at)
    /\ todo' = Abandoned(at)
    /\ \E outcome \in {"env-blocked"} \cup IF at[1] = "https"
                                           THEN {"harness-error"} ELSE {} :
          IF n = 1
          THEN /\ VectorOver(outcome) /\ double' = Idle
               /\ UNCHANGED <<authority, root, raised>>
          ELSE /\ pc' = "closing" /\ raised' = outcome
               /\ UNCHANGED <<run, double>>
    /\ UNCHANGED <<sockets, stuck, call>>

-----------------------------------------------------------------------------
(* A fetch_uri request, with a copy of the double's resolve map.             *)

Request == IF Vector.crawl THEN Vector.cases[1].request ELSE Vector.cases[n].request

Send ==
    /\ pc = "starting" /\ todo = {}
    /\ fetch' = [resolve |-> double.resolve, at |-> Request, served |-> <<>>]
    /\ pc' = "fetching"
    /\ UNCHANGED <<run, mock, stuck, n, dead>>

(* The adapter asks for the URL it is at, over the port its host resolves    *)
(* to: the listener behind it answers from the table its double has now, or  *)
(* the two do not even speak the same protocol.                              *)
Refused == Reply(0, NoUrl)

Served(url) ==
    LET at == fetch.resolve[url.host]
    IN  IF url.host \notin DOMAIN fetch.resolve \/ at[1] # url.scheme
        THEN Refused ELSE Lookup(double.table, Key(url))

do_GET ==
    /\ pc = "fetching" /\ ~dead /\ fetch.at # NoUrl
    /\ Len(fetch.served) <= Hops
    /\ \A l \in stuck : l.at[2] # fetch.at.host
    /\ fetch' = [fetch EXCEPT !.served = Append(@, Served(fetch.at)),
                              !.at = Served(fetch.at).location]
    /\ UNCHANGED <<pc, run, mock, stuck, n, dead>>

HalfOpen ==
    /\ pc = "fetching" /\ ~dead
    /\ \E l \in sockets :
          /\ l.vector = v /\ l.at[1] = "https" /\ stuck' = stuck \cup {l}
    /\ UNCHANGED <<pc, run, mock, call>>

\* The client goes on, closes the connection or ends.
LetGo ==
    /\ \E l \in stuck : stuck' = stuck \ {l}
    /\ UNCHANGED <<pc, run, mock, call>>

\* The next case of the vector, its next pass, or its end.
Fetched ==
    IF n < double.fetches
    THEN n' = n + 1 /\ pc' = IF double.crawl THEN "recrawling" ELSE "starting"
    ELSE n' = n /\ pc' = "closing"

Answered ==
    /\ pc = "fetching" /\ Fetched
    /\ UNCHANGED <<run, mock, stuck, fetch, dead>>

\* No answer in time: the session kills the adapter, and the binding goes on.
TimedOut ==
    /\ pc = "fetching" /\ dead' = TRUE /\ Fetched
    /\ UNCHANGED <<run, mock, stuck, fetch>>

set_crawl ==
    /\ pc = "recrawling" /\ pc' = "starting"
    /\ set_routes(2)
    /\ UNCHANGED <<run, raised, sockets, stuck, call>>

-----------------------------------------------------------------------------
(* MockDouble.close: each listener in turn; shutdown waits for its accept    *)
(* thread, which may be in a handshake.                                      *)

Closes_Plain(at) == IF at[1] = "http" THEN {Listener(at)} ELSE {}
Closes(at) == {Listener(at)}

CloseServer ==
    /\ pc = "closing" /\ double.servers # <<>>
    /\ LET at == Head(double.servers)
       IN  /\ Listener(at) \notin stuck
           /\ sockets' = sockets \ Closes(at)
    /\ double' = [double EXCEPT !.servers = Tail(@)]
    /\ UNCHANGED <<pc, run, todo, raised, stuck, call>>

Closed ==
    /\ pc = "closing" /\ double.servers = <<>>
    /\ double' = Idle /\ raised' = "none" /\ fetch' = NoFetch
    /\ VectorOver(IF raised = "none" THEN "ran" ELSE raised)
    /\ UNCHANGED <<authority, root, todo, sockets, stuck, n, dead>>

\* The end of the run: cleanup() of an authority there is.
Left_Uncleaned == root
Left == IF authority THEN "removed" ELSE root

Cleanup ==
    /\ pc = "between" /\ v > Len(Plan)
    /\ root' = Left
    /\ pc' = "end"
    /\ UNCHANGED <<env, authority, v, status, mock, stuck, call>>

Ended == pc = "end" /\ UNCHANGED vars

Runner ==
    \/ NoAuthority \/ Authority \/ AuthorityFails
    \/ NoDouble \/ StartDouble
    \/ \E at \in At : _start_server(at) \/ StartFails(at)
    \/ set_crawl \/ Send \/ TimedOut \/ CloseServer \/ Closed \/ Cleanup

Next == Runner \/ do_GET \/ HalfOpen \/ LetGo \/ Answered \/ Ended

Spec == Init /\ [][Next]_vars

(* The runner's thread runs, its timer included.  Nothing in the code bounds *)
(* the wait for a client in a handshake; that it lets go in the end is       *)
(* assumed of the adapter.                                                   *)
FairSpec == Spec /\ WF_vars(Runner) /\ WF_vars(LetGo)

-----------------------------------------------------------------------------
(* Properties. *)

Outcomes == {"ran", "env-blocked", "harness-error"}
Running  == {"starting", "recrawling", "fetching", "closing"}
Sockets  == [vector : 1..Len(Plan), at : At]

(* The type invariant; between two vectors nothing of a double is left in    *)
(* the runner's hands, and every vector that is over has its outcome.        *)
TypeOK ==
    /\ pc \in {"probed", "between", "end"} \cup Running
    /\ env \in BOOLEAN /\ authority \in BOOLEAN /\ dead \in BOOLEAN
    /\ root \in {"absent", "made", "removed"}
    /\ v \in 1..(Len(Plan) + 1) /\ n \in Nat
    /\ status \in Seq(Outcomes) /\ Len(status) = v - 1
    /\ todo \subseteq At /\ raised \in {"none"} \cup Outcomes
    /\ double.servers \in Seq(At)
    /\ pc \in Running => v <= Len(Plan)
    /\ sockets \subseteq Sockets /\ stuck \subseteq Sockets
    /\ pc \notin Running => double = Idle
    /\ pc # "starting" => todo = {}
    /\ pc # "closing" => raised = "none"

(* What the vectors mean to present is what a client is shown: its k-th      *)
(* request in a fetch is answered with the k-th step of the script - over a  *)
(* listener that speaks the scheme of the URL, from the table of this case   *)
(* and this pass, and never from the pass before or another case; a redirect *)
(* to http leads to a page that can be fetched (DESIGN.md, section 6: "so    *)
(* downgrade vectors can present an actual insecure hop to refuse").         *)
CaseOf(vector, c) == IF vector.crawl THEN vector.cases[1] ELSE vector.cases[c]
StepsOf(vector, c) ==
    IF vector.crawl THEN CrawlSteps(CaseOf(vector, c), c) ELSE CaseOf(vector, c).steps
Case == CaseOf(Vector, n)
Steps == StepsOf(Vector, n)

ScriptServed ==
    pc = "fetching" =>
        \A k \in DOMAIN fetch.served : fetch.served[k] = Scripted(Case, Steps, k)

(* What the scripts of a plan owe the authority: each vector fetches, its    *)
(* table answers every URL a script leads to with the step the script has    *)
(* there, and a host speaks one scheme throughout a vector, as the resolve   *)
(* map has one port for it.  All of it is data, fixed before the run begins. *)
ScriptOf(vector, c, k) == Scripted(CaseOf(vector, c), StepsOf(vector, c), k)
Place(vector, c, k) ==
    IF k = 1 THEN CaseOf(vector, c).request ELSE ScriptOf(vector, c, k - 1).location
Pass(vector, c) == IF vector.crawl THEN c ELSE 1

ASSUME ScriptAssumption ==
    /\ Hops \in Nat
    /\ \A w \in DOMAIN Plan :
        /\ Fetches(Plan[w]) \in Nat \ {0}
        /\ \A c \in 1..Fetches(Plan[w]), k \in 1..(Hops + 1) :
            LET url   == Place(Plan[w], c, k)
                table == Tables[w][Pass(Plan[w], c)]
            IN  url # NoUrl => /\ Key(url) \in DOMAIN table
                               /\ table[Key(url)] = ScriptOf(Plan[w], c, k)
        /\ \A p, q \in 1..2 :
            \A a \in Needed(Tables[w][p]), b \in Needed(Tables[w][q]) :
                a[2] = b[2] => a = b

(* Section 6 of DESIGN.md: "one vector's double at a time, torn down after   *)
(* each".  A listener that is open belongs to the vector under way, or to    *)
(* one whose first start failed half way - which its outcome tells.          *)
OneDouble ==
    \A s \in sockets :
        \/ s.vector = v /\ pc \in Running
        \/ s.vector < v /\ status[s.vector] # "ran"

(* The CA that a fetch_uri request names is there as long as a double is, so *)
(* that a refused certificate is never the run's own doing; and the end of   *)
(* the run leaves a directory behind only where the CA could not be made.    *)
CaLifetime ==
    /\ pc \in Running => root = "made"
    /\ pc = "end" /\ root = "made" => ~authority

(* Whatever the adapter does in a fetch - no answer, no end of a handshake   *)
(* as long as it holds the connection - the run comes to its end.            *)
VectorsEnd == <>(pc = "end")
=============================================================================
