---------------------------- MODULE BindingsHook ----------------------------
(* The bindings of hook.py and platform.py, one each by name.               *)
EXTENDS ProbeSteps, TLC

HookAskDiagnostic(l) == HookAsk(l) \o Diagnostic(l)
AskDiagnostic(l)     == Ask(l) \o Diagnostic(l)

\* Two spellings of one hook, compared by body hash.
HookPair ==
    HookAsk("left") \o HookAsk("right")
        \o If({"left", "right"}, Relation({"left", "right"}, "body_hash"))

tv_hook_a == Each(HookAsk)
tv_hook_b == HookVerdict("hook")
tv_hook_c == HookAsk("requires")
tv_hook_d ==
    HookSend("conforming") \o Require("conforming")
        \o If({"conforming"},
              HookSendFrom("projected", {"conforming"}) \o Fields("projected"))
        \o HookReject("empty_handlers")
tv_hook_e == HookAsk("with_matcher") \o HookAsk("without_matcher")
tv_hook_f == HookAsk("async_true") \o HookAsk("async_absent")
tv_hook_g ==
    LET all == {"variant_1", "variant_2", "canonical"}
    IN  HookAsk("variant_1") \o HookAsk("variant_2") \o HookAsk("canonical")
            \o If(all, SetRelation(all, "value"))
            \o HookReject("unrecognized")
tv_hook_h ==
    HookAsk("absent_type") \o HookSend("explicit")
        \o If({"absent_type", "explicit"},
              Relation({"absent_type", "explicit"}, "body_hash"))
        \o Unless({"absent_type", "explicit"}, Mark("explicit"))
        \o HookReject("unrecognized_type")
tv_hook_i == HookReject("hook")
tv_hook_j == Each(HookReject)
tv_hook_k == Each(HookAskDiagnostic)
tv_hook_l == HookPair
tv_hook_m == Each(AskDiagnostic)
tv_hook_n == HookPair \o Each(HookReject)
tv_hook_o == Each(HookAskDiagnostic)
tv_hook_p == HookPair
tv_hook_q == Each(AskDiagnostic)
tv_hook_r == HookPair
tv_hook_s == Each(AskDiagnostic)
tv_hook_t == Each(AskDiagnostic)
tv_hook_u == Each(HookAskDiagnostic)

tv_platform_a == Ask("scripts")
tv_platform_b == Ask("scripts")
tv_platform_c == Each(Reject)
tv_platform_d == Each(Reject)
tv_platform_e == Reject("scripts")
tv_platform_f == Reject("scripts") \o Diagnostic("scripts")
tv_platform_g == Send("scripts") \o Accept("scripts")
tv_platform_g2 == Send("scripts") \o Accept("scripts") \o Ask("projection")
tv_platform_h == Ask("scripts") \o Diagnostic("scripts")
tv_platform_i == Ask("source")
tv_platform_j == Ask("source") \o Absence("source", "never")
tv_platform_k == Ask("source") \o Diagnostic("source")
tv_platform_l == Ask("case_1") \o AskDiagnostic("case_2")
tv_platform_m ==
    Ask("source")
        \o If({"source"},
              Field("source", "passthrough")
                \o SendFrom("render", {"source"}) \o Demand("render", "value"))
tv_platform_n == Reject("source")
tv_platform_o == AskDiagnostic("render")
tv_platform_p == Ask("case_1") \o Reject("case_2")
tv_platform_q ==
    LET all == {"base", "os_flipped", "passthrough"}
    IN  Ask("base") \o Ask("os_flipped") \o Send("passthrough")
            \o If(all, Relation(all, "value"))
tv_platform_q2 ==
    LET both == {"case_1", "case_2"}
    IN  Each(Ask)
            \o If(both, Relation(both, "canonical_bytes")
                            \o Relation(both, "value"))
tv_platform_r ==
    LET both == {"rendered", "roundtrip"}
    IN  Send("rendered") \o SendFrom("roundtrip", {"rendered"})
            \o If(both, Fields("roundtrip"))
            \o Unless(both, Fields("roundtrip"))
tv_platform_s == Ask("portable") \o Ask("divergent")
tv_platform_t == Ask("case_1") \o AskDiagnostic("case_2")
tv_platform_u == Each(Reject)
tv_platform_v == Ask("source")
tv_platform_w == Each(AskDiagnostic)

HookBindings ==
    "TV-HOOK-a" :> tv_hook_a @@ "TV-HOOK-b" :> tv_hook_b
    @@ "TV-HOOK-c" :> tv_hook_c @@ "TV-HOOK-d" :> tv_hook_d
    @@ "TV-HOOK-e" :> tv_hook_e @@ "TV-HOOK-f" :> tv_hook_f
    @@ "TV-HOOK-g" :> tv_hook_g @@ "TV-HOOK-h" :> tv_hook_h
    @@ "TV-HOOK-i" :> tv_hook_i @@ "TV-HOOK-j" :> tv_hook_j
    @@ "TV-HOOK-k" :> tv_hook_k @@ "TV-HOOK-l" :> tv_hook_l
    @@ "TV-HOOK-m" :> tv_hook_m @@ "TV-HOOK-n" :> tv_hook_n
    @@ "TV-HOOK-o" :> tv_hook_o @@ "TV-HOOK-p" :> tv_hook_p
    @@ "TV-HOOK-q" :> tv_hook_q @@ "TV-HOOK-r" :> tv_hook_r
    @@ "TV-HOOK-s" :> tv_hook_s @@ "TV-HOOK-t" :> tv_hook_t
    @@ "TV-HOOK-u" :> tv_hook_u

PlatformBindings ==
    "TV-PLATFORM-a" :> tv_platform_a @@ "TV-PLATFORM-b" :> tv_platform_b
    @@ "TV-PLATFORM-c" :> tv_platform_c @@ "TV-PLATFORM-d" :> tv_platform_d
    @@ "TV-PLATFORM-e" :> tv_platform_e @@ "TV-PLATFORM-f" :> tv_platform_f
    @@ "TV-PLATFORM-g" :> tv_platform_g @@ "TV-PLATFORM-g2" :> tv_platform_g2
    @@ "TV-PLATFORM-h" :> tv_platform_h @@ "TV-PLATFORM-i" :> tv_platform_i
    @@ "TV-PLATFORM-i2" :> tv_platform_i @@ "TV-PLATFORM-j" :> tv_platform_j
    @@ "TV-PLATFORM-k" :> tv_platform_k @@ "TV-PLATFORM-l" :> tv_platform_l
    @@ "TV-PLATFORM-m" :> tv_platform_m @@ "TV-PLATFORM-n" :> tv_platform_n
    @@ "TV-PLATFORM-o" :> tv_platform_o @@ "TV-PLATFORM-p" :> tv_platform_p
    @@ "TV-PLATFORM-q" :> tv_platform_q @@ "TV-PLATFORM-q2" :> tv_platform_q2
    @@ "TV-PLATFORM-r" :> tv_platform_r @@ "TV-PLATFORM-s" :> tv_platform_s
    @@ "TV-PLATFORM-t" :> tv_platform_t @@ "TV-PLATFORM-u" :> tv_platform_u
    @@ "TV-PLATFORM-v" :> tv_platform_v @@ "TV-PLATFORM-w" :> tv_platform_w
=============================================================================
