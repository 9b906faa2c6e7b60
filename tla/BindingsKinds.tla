---------------------------- MODULE BindingsKinds ----------------------------
(* The bindings of skill.py, rule.py, command.py, agent.py and mcp.py, one  *)
(* each by name.                                                            *)
EXTENDS ProbeSteps, TLC

\* An item and two edits of it: which of its hashes moves with which edit.
Edits ==
    LET all == {"base", "edit_1", "edit_2"}
    IN  Send("base") \o Send("edit_1") \o Send("edit_2")
            \o If(all, Relation({"base", "edit_1"}, "metadata_hash")
                        \o Relation({"base", "edit_1"}, "body_hash")
                        \o Relation({"base", "edit_2"}, "metadata_hash")
                        \o Relation({"base", "edit_2"}, "body_hash"))

tv_skill_a == Each(Ask)
tv_skill_b == Verdict("foreign") \o Verdict("latent_match")
tv_skill_c == Ask("requires")
tv_skill_d == Each(Ask)
tv_skill_e == Each(Ask)
tv_skill_f == Each(Ask)
tv_skill_g ==
    Ask("case_1")
        \o SendFrom("projection_1", {"case_1"}) \o Fields("projection_1")
        \o Ask("case_2")
        \o If({"case_1", "case_2"}, Relation({"case_2"}, "body_hash"))
        \o SendFrom("projection_2", {"case_2"}) \o Fields("projection_2")
tv_skill_h ==
    Ask("source") \o Send("declared")
        \o If({"source", "declared"},
              Relation({"source", "declared"}, "body_hash"))
        \o If({"source"}, Field("source", "metadata_hash"))
tv_skill_i == Each(Ask)
tv_skill_j ==
    Ask("skill") \o If({"skill"}, Truthy("skill", "reciprocal_entries"))
tv_skill_k == Edits
tv_skill_l == Each(Reject)
tv_skill_m == Send("skill") \o Accept("skill")
tv_skill_n ==
    LET both == {"case_1", "case_2"}
    IN  Each(Ask) \o If(both, Relation(both, "value"))

tv_rule_a ==
    Ask("source") \o Send("declared")
        \o If({"source", "declared"}, Relation({"source", "declared"}, "value"))
        \o If({"source"}, Field("source", "metadata_hash"))
tv_rule_b == Reject("rule")
tv_rule_c == Each(Reject)
tv_rule_d == Ask("case_1") \o Reject("case_2")
tv_rule_e == Each(Reject)
tv_rule_f == Each(Ask)
tv_rule_g == Ask("rule")
tv_rule_h == Each(Ask)
tv_rule_i == Each(Verdict)
tv_rule_j == Ask("requires")
tv_rule_k ==
    Ask("files")
        \o If({"files"},
              Field("files", "canonical")
                \o SendFrom("rendered", {"files"})
                \o Demand("rendered", "value"))
tv_rule_l == Edits
tv_rule_m ==
    Send("ingest") \o Require("ingest")
        \o If({"ingest"}, SendFrom("render", {"ingest"})
                            \o Fields("render") \o Diagnostic("render"))
tv_rule_n == Each(Ask)
tv_rule_o == Each(Reject)

\* What the body of a command gives in the advisory projection.
Advisory == SendFrom("advisory", {"files"})

tv_command_a ==
    LET both == {"source_gemini", "source_canonical"}
    IN  Send("source_gemini") \o Send("source_canonical")
            \o Fields("source_gemini") \o Fields("source_canonical")
            \o If(both, Relation(both, "value"))
            \o SendFrom("render_gemini", {"source_canonical"})
            \o Fields("render_gemini")
            \o SendFrom("render_no_row", {"source_canonical"})
            \o Fields("render_no_row") \o Diagnostic("render_no_row")
tv_command_b ==
    LET Variant(v) == Ask(v) \o Diagnostic(v)
        both == {"case_1", "case_2"}
    IN  Each(Variant)
            \o If(both, Relation(both, "value")
                            \o SendFrom("rendered", {"case_1"})
                            \o Demand("rendered", "value"))
tv_command_c == Each(Ask)
tv_command_d == Ask("files") \o Advisory \o Demand("advisory", "value")
tv_command_e == Send("files") \o Advisory \o Demand("advisory", "value")
tv_command_f ==
    Send("files") \o Demand("files", "value")
        \o Advisory \o Fields("advisory")
tv_command_g ==
    Send("files") \o Demand("files", "value")
        \o Advisory \o Demand("advisory", "value")
tv_command_h ==
    LET both == {"case_1", "case_2"}
    IN  Each(Ask)
            \o If(both, Relation(both, "value")
                            \o Relation(both, "metadata_hash"))
tv_command_i == Each(Ask)
tv_command_j == Each(Verdict)
tv_command_k == Ask("requires")
tv_command_l == Send("if_emitted") \o Waive("if_emitted") \o Fields("if_emitted")
tv_command_m ==
    Send("files") \o Advisory \o Fields("advisory")
        \o If({"advisory"}, Field("advisory", "forbidden"))

tv_agent_a == Each(Ask)
tv_agent_b == Ask("requires")
tv_agent_c == Verdict("on_agent") \o Verdict("on_rule")
tv_agent_d == Each(Ask)
tv_agent_e == Each(Ask)
tv_agent_f == Each(Ask)
tv_agent_g == Each(Ask)
tv_agent_h ==
    LET both == {"case_1", "case_2"}
        RoundTrip(out, back) ==
            Send(out) \o Demand(out, "value")
                \o SendFrom(back, {out}) \o Fields(back)
    IN  Each(Ask)
            \o If(both, SetRelation(both, "body_hash")
                            \o SetRelation(both, "metadata_hash")
                            \o RoundTrip("rendered_1", "roundtrip_1")
                            \o RoundTrip("rendered_2", "roundtrip_2"))
tv_agent_i == Edits
tv_agent_j == Ask("state_1") \o Ask("state_2") \o Diagnostic("state_2")
tv_agent_k ==
    Send("rendered") \o SendFrom("roundtrip", {"rendered"})
        \o Fields("roundtrip") \o Fields("rendered")

tv_mcp_a == Ask("source_stdio") \o Ask("source_http")
tv_mcp_b == Reject("mcp")
tv_mcp_c == Reject("mcp")
tv_mcp_d ==
    LET both == {"case_1", "case_2"}
    IN  Each(Ask)
            \o If(both, Relation(both, "canonical_bytes")
                            \o Relation(both, "value"))
tv_mcp_e == Each(Ask)
tv_mcp_f == Ask("requires")
tv_mcp_g == Verdict("on_mcp_item") \o Verdict("on_skill_item")
tv_mcp_h == Each(Reject)
tv_mcp_i == Each(Reject)
tv_mcp_j == Ask("rich") \o Ask("bare")
tv_mcp_k ==
    LET all == {"base", "edit_1", "edit_2"}
    IN  Send("base") \o Send("edit_1") \o Send("edit_2")
            \o If(all, Relation(all, "value"))
tv_mcp_k2 ==
    LET both == {"variant_a", "variant_b"}
    IN  Send("variant_a") \o Send("variant_b")
            \o If(both, Relation(both, "canonical_bytes")
                            \o Relation(both, "body_hash"))
tv_mcp_l ==
    LET ends == {"before", "roundtrip"}
    IN  Send("before") \o Send("rendered")
            \o SendFrom("roundtrip", {"rendered"})
            \o If(ends \cup {"rendered"},
                  Relation(ends, "canonical_bytes")
                    \o Relation(ends, "body_hash"))
tv_mcp_m == Send("mcp") \o Accept("mcp") \o Diagnostic("mcp")

SkillBindings ==
    "TV-SKILL-a" :> tv_skill_a @@ "TV-SKILL-b" :> tv_skill_b
    @@ "TV-SKILL-c" :> tv_skill_c @@ "TV-SKILL-d" :> tv_skill_d
    @@ "TV-SKILL-e" :> tv_skill_e @@ "TV-SKILL-f" :> tv_skill_f
    @@ "TV-SKILL-g" :> tv_skill_g @@ "TV-SKILL-h" :> tv_skill_h
    @@ "TV-SKILL-i" :> tv_skill_i @@ "TV-SKILL-j" :> tv_skill_j
    @@ "TV-SKILL-k" :> tv_skill_k @@ "TV-SKILL-l" :> tv_skill_l
    @@ "TV-SKILL-m" :> tv_skill_m @@ "TV-SKILL-n" :> tv_skill_n

RuleBindings ==
    "TV-RULE-a" :> tv_rule_a @@ "TV-RULE-b" :> tv_rule_b
    @@ "TV-RULE-c" :> tv_rule_c @@ "TV-RULE-d" :> tv_rule_d
    @@ "TV-RULE-e" :> tv_rule_e @@ "TV-RULE-f" :> tv_rule_f
    @@ "TV-RULE-g" :> tv_rule_g @@ "TV-RULE-h" :> tv_rule_h
    @@ "TV-RULE-i" :> tv_rule_i @@ "TV-RULE-j" :> tv_rule_j
    @@ "TV-RULE-k" :> tv_rule_k @@ "TV-RULE-l" :> tv_rule_l
    @@ "TV-RULE-m" :> tv_rule_m @@ "TV-RULE-n" :> tv_rule_n
    @@ "TV-RULE-o" :> tv_rule_o

CommandBindings ==
    "TV-COMMAND-a" :> tv_command_a @@ "TV-COMMAND-b" :> tv_command_b
    @@ "TV-COMMAND-c" :> tv_command_c @@ "TV-COMMAND-d" :> tv_command_d
    @@ "TV-COMMAND-e" :> tv_command_e @@ "TV-COMMAND-f" :> tv_command_f
    @@ "TV-COMMAND-g" :> tv_command_g @@ "TV-COMMAND-h" :> tv_command_h
    @@ "TV-COMMAND-i" :> tv_command_i @@ "TV-COMMAND-j" :> tv_command_j
    @@ "TV-COMMAND-k" :> tv_command_k @@ "TV-COMMAND-l" :> tv_command_l
    @@ "TV-COMMAND-m" :> tv_command_m

AgentBindings ==
    "TV-AGENT-a" :> tv_agent_a @@ "TV-AGENT-b" :> tv_agent_b
    @@ "TV-AGENT-c" :> tv_agent_c @@ "TV-AGENT-d" :> tv_agent_d
    @@ "TV-AGENT-e" :> tv_agent_e @@ "TV-AGENT-f" :> tv_agent_f
    @@ "TV-AGENT-g" :> tv_agent_g @@ "TV-AGENT-h" :> tv_agent_h
    @@ "TV-AGENT-i" :> tv_agent_i @@ "TV-AGENT-j" :> tv_agent_j
    @@ "TV-AGENT-k" :> tv_agent_k

McpBindings ==
    "TV-MCP-a" :> tv_mcp_a @@ "TV-MCP-b" :> tv_mcp_b @@ "TV-MCP-c" :> tv_mcp_c
    @@ "TV-MCP-d" :> tv_mcp_d @@ "TV-MCP-e" :> tv_mcp_e
    @@ "TV-MCP-f" :> tv_mcp_f @@ "TV-MCP-g" :> tv_mcp_g
    @@ "TV-MCP-h" :> tv_mcp_h @@ "TV-MCP-i" :> tv_mcp_i
    @@ "TV-MCP-j" :> tv_mcp_j @@ "TV-MCP-k" :> tv_mcp_k
    @@ "TV-MCP-k2" :> tv_mcp_k2 @@ "TV-MCP-l" :> tv_mcp_l
    @@ "TV-MCP-m" :> tv_mcp_m
=============================================================================
