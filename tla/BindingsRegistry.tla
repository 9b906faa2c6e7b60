--------------------------- MODULE BindingsRegistry ---------------------------
(* The bindings of registry.py, render.py and install.py, one each by name. *)
(* The two that only hand a row to a checker of the whole run, tv_uri_u and *)
(* tv_render_c, have no steps.                                              *)
EXTENDS ProbeSteps, TLC

tv_uri_a == Ask("uri")
tv_uri_b == Ask("uri")
tv_uri_c == Ask("uri")
tv_uri_d == Ask("uri")
tv_uri_e == Ask("uri")
tv_uri_f == Each(Ask)
tv_uri_g == Ask("uri")
tv_uri_h == Ask("uri")
tv_uri_i == Reject("case_1") \o Ask("case_2")
tv_uri_j == Each(Reject)
tv_uri_k == Reject("uri")
tv_uri_l == Ask("transport")
tv_uri_l2 == Ask("transport")
tv_uri_l3 == Ask("transport")
tv_uri_m == Reject("transport")
tv_uri_m2 == Reject("transport")
tv_uri_n == Each(Reject)
tv_uri_o == Ask("uri")
tv_uri_o2 == Ask("uri") \o Diagnostic("uri")
tv_uri_p == Reject("uri")
tv_uri_q == Ask("uri")
tv_uri_r ==
    LET Twice(first, second) ==
            Send(first) \o SendFrom(second, {first})
                \o If({first, second}, Relation({first, second}, "value"))
                \o Unless({first, second}, Impossible(first))
    IN  Twice("first_1", "second_1") \o Twice("first_2", "second_2")
tv_uri_s ==
    LET both == {"record_1", "record_2"}
    IN  Send("record_1") \o Send("record_2")
            \o If(both, SetRelation(both, "body_hash")
                            \o SetRelation(both, "metadata_hash"))
            \o Unless(both, Impossible("record_1") \o Impossible("record_2"))
tv_uri_t ==
    LET both == {"crawl_1", "crawl_2"}
    IN  Send("crawl_1") \o Send("crawl_2")
            \o If(both, Relation(both, "value"))
            \o Unless(both, Require("crawl_1") \o Require("crawl_2"))
tv_uri_u == <<>>
tv_uri_v == Reject("record")
tv_uri_w == Ask("transport")
tv_uri_x == Ask("transport")
tv_uri_y == Ask("transport")
tv_uri_z == Ask("transport")

\* The policy warns of a stale record and does not refuse it: the first is of
\* the fields, and of what is said of an installation only that one is told.
tv_fresh_a == Ask("record") \o Never("record", "install")
tv_fresh_b == Ask("record")
tv_fresh_c ==
    LET both == {"reachable", "unreachable"}
    IN  Send("reachable") \o Send("unreachable")
            \o If(both, Relation(both, "response_hash")
                            \o Relation(both, "staleness"))
            \o Fields("unreachable")
tv_fresh_d == Each(Ask)
tv_fresh_e == Reject("malformed") \o Ask("past")
tv_fresh_f == Verdict("record")
tv_fresh_g == Ask("record")
tv_fresh_h == Each(Ask)
tv_fresh_i == Ask("record")
tv_fresh_j == Send("crawl_1") \o Ask("crawl_2")
tv_fresh_k == Ask("record")

tv_render_a ==
    LET both == {"first", "second"}
    IN  Send("first") \o Send("second") \o If(both, SetRelation(both, "value"))
tv_render_b ==
    LET Target(l) == Send(l) \o Demand(l, "value") IN Each(Target)
tv_render_c == <<>>
\* A leg of the round trip that errs fails it, or declines it; the first one
\* that does is the last one looked at.
tv_render_d ==
    LET RoundTrip(in, out, back, Judge) ==
            Send(in) \o Send(out) \o SendFrom(back, {out})
                \o Require(in) \o If({in}, Require(out))
                \o If({in, out}, Require(back))
                \o If({in, out, back}, Judge)
    IN  RoundTrip("before_1", "rendered_1", "roundtrip_1",
                  Relation({"before_1", "roundtrip_1"}, "value"))
        \o RoundTrip("before_2", "rendered_2", "roundtrip_2",
                     Field("rendered_2", "lossy")
                        \o Relation({"before_2", "roundtrip_2"}, "value"))

tv_install_a == Ask("matrix")
tv_install_b == Each(Ask)
tv_install_c == Each(Reject)
tv_install_d == Reject("row")
tv_install_e ==
    Reject("case_1") \o Diagnostic("case_1")
        \o Ask("case_2") \o Diagnostic("case_2")
tv_install_f == Each(Ask)
tv_install_g == Ask("case_1") \o Reject("case_2")

RegistryBindings ==
    "TV-URI-a" :> tv_uri_a @@ "TV-URI-b" :> tv_uri_b @@ "TV-URI-c" :> tv_uri_c
    @@ "TV-URI-d" :> tv_uri_d @@ "TV-URI-e" :> tv_uri_e
    @@ "TV-URI-f" :> tv_uri_f @@ "TV-URI-g" :> tv_uri_g
    @@ "TV-URI-h" :> tv_uri_h @@ "TV-URI-i" :> tv_uri_i
    @@ "TV-URI-j" :> tv_uri_j @@ "TV-URI-k" :> tv_uri_k
    @@ "TV-URI-l" :> tv_uri_l @@ "TV-URI-l2" :> tv_uri_l2
    @@ "TV-URI-l3" :> tv_uri_l3 @@ "TV-URI-m" :> tv_uri_m
    @@ "TV-URI-m2" :> tv_uri_m2 @@ "TV-URI-n" :> tv_uri_n
    @@ "TV-URI-o" :> tv_uri_o @@ "TV-URI-o2" :> tv_uri_o2
    @@ "TV-URI-p" :> tv_uri_p @@ "TV-URI-q" :> tv_uri_q
    @@ "TV-URI-r" :> tv_uri_r @@ "TV-URI-s" :> tv_uri_s
    @@ "TV-URI-t" :> tv_uri_t @@ "TV-URI-u" :> tv_uri_u
    @@ "TV-URI-v" :> tv_uri_v @@ "TV-URI-w" :> tv_uri_w
    @@ "TV-URI-x" :> tv_uri_x @@ "TV-URI-y" :> tv_uri_y
    @@ "TV-URI-z" :> tv_uri_z @@ "TV-FRESH-a" :> tv_fresh_a
    @@ "TV-FRESH-b" :> tv_fresh_b @@ "TV-FRESH-l" :> tv_fresh_b
    @@ "TV-FRESH-c" :> tv_fresh_c @@ "TV-FRESH-d" :> tv_fresh_d
    @@ "TV-FRESH-e" :> tv_fresh_e @@ "TV-FRESH-f" :> tv_fresh_f
    @@ "TV-FRESH-g" :> tv_fresh_g @@ "TV-FRESH-h" :> tv_fresh_h
    @@ "TV-FRESH-i" :> tv_fresh_i @@ "TV-FRESH-j" :> tv_fresh_j
    @@ "TV-FRESH-k" :> tv_fresh_k

RenderBindings ==
    "TV-RENDER-a" :> tv_render_a @@ "TV-RENDER-b" :> tv_render_b
    @@ "TV-RENDER-c" :> tv_render_c @@ "TV-RENDER-d" :> tv_render_d

InstallBindings ==
    "TV-INSTALL-a" :> tv_install_a @@ "TV-INSTALL-b" :> tv_install_b
    @@ "TV-INSTALL-c" :> tv_install_c @@ "TV-INSTALL-d" :> tv_install_d
    @@ "TV-INSTALL-e" :> tv_install_e @@ "TV-INSTALL-f" :> tv_install_f
    @@ "TV-INSTALL-g" :> tv_install_g
=============================================================================
