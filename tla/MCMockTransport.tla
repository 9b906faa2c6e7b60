-------------------------- MODULE MCMockTransport --------------------------
(***************************************************************************)
(* Four vectors of the uri catalog: a temporary redirect to a signed URL   *)
(* (TV-URI-l2), a redirect to http after a temporary one (TV-URI-m2), the  *)
(* chain and the loop in one double (TV-URI-n), and the two passes of the  *)
(* crawl (TV-URI-t).                                                       *)
(***************************************************************************)
EXTENDS MockTransport

Url(scheme, host, path, query) ==
    [scheme |-> scheme, host |-> host, path |-> path, query |-> query]
Page(host) == Url("https", host, "/skill.md", "none")
Script(request, steps) == [request |-> request, named |-> "none", steps |-> steps]
Named(request, name) == [request |-> request, named |-> name, steps |-> <<>>]
One(case) == [crawl |-> FALSE, cases |-> <<case>>]
Final == Reply(200, NoUrl)

l2 == One(Script(Page("cdn"),
        <<Reply(302, Url("https", "edge", "/skill.md", "X-Sig")), Final>>))
m2 == One(Script(Page("a"),
        <<Reply(302, Page("b")), Reply(301, Url("http", "c", "/skill.md", "none"))>>))
nn == [crawl |-> FALSE,
       cases |-> <<Named(Url("https", "a", "/0", "none"), "eleven-hop-chain"),
                   Named(Url("https", "a", "/loop", "none"), "two-node-301-loop")>>]
t  == [crawl |-> TRUE,
       cases |-> <<Script(Page("cdn"),
        <<Reply(307, Url("https", "edge-{random}", "/skill.md", "sig")), Final>>)>>]

UriVectors == <<t, nn, l2, m2>>
MCPlan == UriVectors
UriTables == TablesOf(UriVectors)
MCTables == UriTables
MCHost == {"a", "b", "c", "cdn", "edge", "edge-1", "edge-2"}
MCPassHost == <<"edge-1", "edge-2">>
MCChainPath == [i \in 0..11 |-> <<"/0", "/1", "/2", "/3", "/4", "/5", "/6", "/7",
                                  "/8", "/9", "/10", "/11">>[i + 1]]
=============================================================================
