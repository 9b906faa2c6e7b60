-------------------------- MODULE MCFetchRedirects --------------------------
(***************************************************************************)
(* Six URLs: three of them plain, of which one is another spelling of the  *)
(* second; one with a query, that cannot be recorded; one over http.       *)
(***************************************************************************)
EXTENDS FetchRedirects

MCUrl    == {"a", "b", "b:443", "c", "c?token", "http:c"}
MCSecure == MCUrl \ {"http:c"}
MCNormal ==
    [u \in MCUrl |->
        CASE u = "b:443" -> "b"
          [] u \in {"c?token", "http:c"} -> "no form"
          [] OTHER -> u]
=============================================================================
