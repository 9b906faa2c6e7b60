---------------------------- MODULE BindingsCore ----------------------------
(* The bindings of conformance/runner/bindings/core.py, one each by name.   *)
EXTENDS ProbeSteps, TLC

\* One hash for the item in every context.
tv_1 ==
    Ask("first") \o Ask("second")
        \o If({"first", "second"}, SetRelation({"first", "second"}, "value"))
tv_2 ==
    Ask("first") \o Ask("second")
        \o If({"first", "second"}, SetRelation({"first", "second"}, "value"))
tv_3 == Ask("pack")
tv_4 == Ask("pack")
tv_5 == Ask("pack") \o Ask("uppercase_pack_id")
tv_6 == Verdict("item_record") \o Verdict("kind_block_member")
tv_7 == Ask("item") \o If({"item"}, Field("item", "elsewhere"))
tv_8 == Ask("item")
tv_9 == Ask("publisher_section")
tv_10 == Ask("referencing_item")
tv_11 == Each(Verdict)
tv_12 ==
    Ask("base") \o Send("with_root_sidecar")
        \o If({"base", "with_root_sidecar"},
              Relation({"base", "with_root_sidecar"}, "value"))
        \o Unless({"base", "with_root_sidecar"}, Fields("with_root_sidecar"))
        \o Ask("edited")
        \o If({"base", "edited"}, Relation({"base", "edited"}, "value"))
tv_13 == Ask("well_formed") \o Reject("ill_formed")
tv_14 == Ask("well_formed") \o Reject("ill_formed")

tv_l2_a == Each(Ask)
tv_l2_b ==
    Ask("authored_sidecar") \o Send("edit")
        \o If({"authored_sidecar", "edit"},
              Relation({"authored_sidecar", "edit"}, "metadata_hash")
                \o Relation({"authored_sidecar", "edit"}, "body_hash"))
tv_l2_c == Ask("declared_frontmatter")
tv_l2_d == Ask("case_1") \o Ask("case_2") \o Diagnostic("case_2")
tv_l2_e == Ask("declared_pack") \o Ask("inferred_pack")
tv_l2_f == Ask("manifests") \o Diagnostic("manifests")
tv_l2_g ==
    Reject("refused") \o Verdict("judged") \o Ask("absent") \o Ask("section")
tv_l3_a == Ask("tuple_endpoint")
tv_l3_b == Verdict("projection")
tv_l3_c == Verdict("advisory")
tv_l3_d == Ask("item")
tv_l3_e == Ask("accepted") \o Reject("refused")

CoreBindings ==
    "TV-1" :> tv_1 @@ "TV-2" :> tv_2 @@ "TV-3" :> tv_3 @@ "TV-4" :> tv_4
    @@ "TV-5" :> tv_5 @@ "TV-6" :> tv_6 @@ "TV-7" :> tv_7 @@ "TV-8" :> tv_8
    @@ "TV-9" :> tv_9 @@ "TV-10" :> tv_10 @@ "TV-11" :> tv_11
    @@ "TV-12" :> tv_12 @@ "TV-13" :> tv_13 @@ "TV-14" :> tv_14
    @@ "TV-L2-a" :> tv_l2_a @@ "TV-L2-b" :> tv_l2_b @@ "TV-L2-c" :> tv_l2_c
    @@ "TV-L2-d" :> tv_l2_d @@ "TV-L2-e" :> tv_l2_e @@ "TV-L2-f" :> tv_l2_f
    @@ "TV-L2-g" :> tv_l2_g @@ "TV-L3-a" :> tv_l3_a @@ "TV-L3-b" :> tv_l3_b
    @@ "TV-L3-c" :> tv_l3_c @@ "TV-L3-d" :> tv_l3_d @@ "TV-L3-e" :> tv_l3_e
=============================================================================
