----------------------- MODULE ReferenceAdapter_proofs -----------------------
(***************************************************************************)
(* Proofs about ReferenceAdapter, for any requests, tables and bodies: an  *)
(* adapter that serves one request after another ingests bodies as         *)
(* BodyIngest does and follows redirects as FetchRedirects does, so what   *)
(* is proved of a body or a URL there holds here; and what it answers      *)
(* about the scripts of a hook, the names of events and installations is   *)
(* right.                                                                  *)
(***************************************************************************)
EXTENDS ReferenceAdapter, BodyIngest_proofs, FetchRedirects_proofs, FunctionTheorems

-----------------------------------------------------------------------------
(* Replies. *)

LEMMA Replies ==
  ASSUME NEW raised, NEW result
  PROVE  /\ Reply(raised, result).kind \in {"ok", "unsupported", "not conformant", "error"}
         /\ Reply(raised, result) # NoReply
         /\ Reply(raised, result).kind = "ok" =>
               raised \in {"none", "ok"} /\ Reply(raised, result).result = result
         /\ Reply(raised, result).kind # "ok" => Reply(raised, result).result = Nobody
  BY DEF Reply, NoReply, Verdict

HookResult(i) ==
    IF HookError(_hook_source(i), i.root) # "none" THEN Nobody
    ELSE [canonical |-> canonical_hook(_hook_source(i)),
          body_hash |-> sidecar_only_body_hash(_hook_source(i), i.root)]

\* Of a hook, and of what was rendered, judged or resolved, the reply is the answer.
Answers ==
    /\ op = "ingest hook" =>
          /\ inp \in HookSources
          /\ reply = Reply(HookError(_hook_source(inp), inp.root), HookResult(inp))
    /\ op = "render" =>
          reply = Reply(RenderError(inp), IF RenderError(inp) # "none" THEN Nobody ELSE render(inp))
    /\ op = "evaluate_install" =>
          /\ inp \in Installs
          /\ reply = Reply(InstallError(inp),
                           IF InstallError(inp) # "none" THEN Nobody ELSE evaluate_install(inp))
    /\ op = "resolve_install_targets" =>
          /\ inp \in Resolves
          /\ reply = Reply(TargetsError(inp),
                           IF TargetsError(inp) # "none" THEN Nobody
                           ELSE resolve_install_targets(inp))
Served ==
    /\ op \in Operations \cup {"none"}
    /\ reply.kind \in {"none", "ok", "unsupported", "not conformant", "error"}
    /\ (op # "ingest body") => stage = "idle"
    /\ (op # "fetch_uri") => fetch = "idle"
    /\ (op = "none") => inp = Nobody /\ reply = NoReply
    /\ (op \notin {"none", "ingest body", "fetch_uri"}) => reply # NoReply
    /\ reply.kind # "ok" => reply.result = Nobody
IInv == BodyInv /\ Served /\ Answers

LEMMA InitInv == Init => IInv
  BY BodyInitInv DEF Init, BodyInit, FetchInit, IInv, Served, Answers, NoReply, Operations

LEMMA DoServed ==
  ASSUME IInv, NEW operation \in Operations \ {"ingest body", "fetch_uri"}, NEW input,
         NEW raised, NEW result, Do(operation, input, raised, result)
  PROVE  BodyInv' /\ Served'
  <1>1. /\ op = "none" /\ op' = operation /\ inp' = input
        /\ reply' = Reply(raised, result) /\ UNCHANGED bodyVars
        /\ UNCHANGED fetchVars
    BY DEF Do
  <1>2. stage' = "idle" /\ fetch' = "idle"
    BY <1>1 DEF IInv, Served, bodyVars, fetchVars
  <1>3. BodyInv'
    BY <1>1, BodyStepInv DEF IInv
  <1>4. /\ reply'.kind \in {"ok", "unsupported", "not conformant", "error"}
        /\ reply' # NoReply /\ (reply'.kind # "ok" => reply'.result = Nobody)
    <2> DEFINE r == Reply(raised, result)
    <2>1. /\ r.kind \in {"ok", "unsupported", "not conformant", "error"}
          /\ r # NoReply /\ (r.kind # "ok" => r.result = Nobody)
      BY Replies
    <2>2. reply' = r
      BY <1>1
    <2> HIDE DEF r
    <2> QED
      BY <2>1, <2>2
  <1> QED
    BY <1>1, <1>2, <1>3, <1>4 DEF Served, Operations

\* A step of the adapter is one of the body in hand, or none of its.
LEMMA StepBody == [Next]_vars => [BodyNext]_bodyVars
  <1> SUFFICES ASSUME [Next]_vars PROVE [BodyNext]_bodyVars
    OBVIOUS
  <1>1. CASE \/ IngestBody \/ Body \/ BodyDone
             \/ FetchUri \/ Fetch \/ FetchDone \/ Emit
    BY <1>1 DEF IngestBody, Body, BodyDone, FetchUri, Fetch, FetchDone, Emit, BodyNext
  <1>2. CASE UNCHANGED vars
    BY <1>2 DEF vars
  <1>3. ASSUME \/ Hello \/ NoSuchOperation
               \/ \E i \in HookSources : IngestHook(i)
               \/ \E i \in Selections : ScriptSelection(i) \/ OsCoverage(i)
               \/ \E i \in Renders : Render(i)
               \/ \E i \in Installs : EvaluateInstall(i)
               \/ \E i \in Resolves : ResolveInstallTargets(i)
        PROVE  UNCHANGED bodyVars
    BY <1>3 DEF Hello, NoSuchOperation, IngestHook, ScriptSelection, OsCoverage, Render,
                EvaluateInstall, ResolveInstallTargets, Do
  <1> QED
    BY <1>1, <1>2, <1>3, Zenon DEF Next

\* And one of the chain of redirects that is followed, or none of its.
LEMMA StepFetch == [Next]_vars => [FetchNext]_fetchVars
  <1> SUFFICES ASSUME [Next]_vars PROVE [FetchNext]_fetchVars
    OBVIOUS
  <1>1. CASE \/ IngestBody \/ Body \/ BodyDone
             \/ FetchUri \/ Fetch \/ FetchDone \/ Emit
    BY <1>1 DEF IngestBody, Body, BodyDone, FetchUri, Fetch, FetchDone, Emit, FetchNext
  <1>2. CASE UNCHANGED vars
    BY <1>2 DEF vars
  <1>3. ASSUME \/ Hello \/ NoSuchOperation
               \/ \E i \in HookSources : IngestHook(i)
               \/ \E i \in Selections : ScriptSelection(i) \/ OsCoverage(i)
               \/ \E i \in Renders : Render(i)
               \/ \E i \in Installs : EvaluateInstall(i)
               \/ \E i \in Resolves : ResolveInstallTargets(i)
        PROVE  UNCHANGED fetchVars
    BY <1>3 DEF Hello, NoSuchOperation, IngestHook, ScriptSelection, OsCoverage, Render,
                EvaluateInstall, ResolveInstallTargets, Do
  <1> QED
    BY <1>1, <1>2, <1>3, Zenon DEF Next

LEMMA StepInv == IInv /\ [Next]_vars => IInv'
  <1> SUFFICES ASSUME IInv, [Next]_vars PROVE IInv'
    OBVIOUS
  <1>0. BodyInv'
    BY StepBody, BodyStepInv DEF IInv
  <1>1. CASE \/ Hello \/ NoSuchOperation
             \/ \E i \in Selections : ScriptSelection(i) \/ OsCoverage(i)
    <2>1. \E operation \in Operations \ {"ingest hook", "ingest body", "fetch_uri", "render",
                                         "evaluate_install", "resolve_install_targets"} :
             \E input, raised, result : Do(operation, input, raised, result)
      BY <1>1, Zenon DEF Hello, NoSuchOperation, ScriptSelection, OsCoverage, Operations
    <2>2. Served'
      BY <2>1, DoServed
    <2>3. Answers'
      BY <2>1 DEF Do, Answers
    <2> QED
      BY <1>0, <2>2, <2>3 DEF IInv
  <1>2. CASE \E i \in Installs : EvaluateInstall(i)
    <2>1. PICK i \in Installs : EvaluateInstall(i)
      BY <1>2
    <2> DEFINE result == IF InstallError(i) # "none" THEN Nobody ELSE evaluate_install(i)
    <2>2. Do("evaluate_install", i, InstallError(i), result)
      BY <2>1 DEF EvaluateInstall
    <2>3. Served'
      BY <2>2, DoServed DEF Operations
    <2>4. Answers'
      BY <2>2 DEF Do, Answers
    <2> QED
      BY <1>0, <2>3, <2>4 DEF IInv
  <1>3. CASE \E i \in Resolves : ResolveInstallTargets(i)
    <2>1. PICK i \in Resolves : ResolveInstallTargets(i)
      BY <1>3
    <2> DEFINE result == IF TargetsError(i) # "none" THEN Nobody
                         ELSE resolve_install_targets(i)
    <2>2. Do("resolve_install_targets", i, TargetsError(i), result)
      BY <2>1 DEF ResolveInstallTargets
    <2>3. Served'
      BY <2>2, DoServed DEF Operations
    <2>4. Answers'
      BY <2>2 DEF Do, Answers
    <2> QED
      BY <1>0, <2>3, <2>4 DEF IInv
  <1>4. CASE IngestBody \/ Body
    <2>1. /\ op' = "ingest body" /\ UNCHANGED <<inp, reply>> /\ fetch' = "idle"
          /\ reply.kind \in {"none", "ok", "unsupported", "not conformant", "error"}
          /\ (reply.kind # "ok" => reply.result = Nobody)
      BY <1>4 DEF IngestBody, Body, IInv, Served, fetchVars
    <2>2. Served' /\ Answers'
      BY <2>1 DEF Served, Answers, Operations
    <2> QED
      BY <1>0, <2>2 DEF IInv
  <1>5. CASE BodyDone
    <2>1. /\ op' = "ingest body" /\ fetch' = "idle"
          /\ reply' = Reply(verdict, [section |-> section, body |-> body])
      BY <1>5 DEF BodyDone, IInv, Served, fetchVars
    <2> DEFINE r == Reply(verdict, [section |-> section, body |-> body])
    <2>3. /\ r.kind \in {"ok", "unsupported", "not conformant", "error"}
          /\ (r.kind # "ok" => r.result = Nobody)
      BY Replies
    <2>4. reply' = r
      BY <2>1
    <2> HIDE DEF r
    <2>2. Served' /\ Answers'
      BY <2>1, <2>3, <2>4 DEF Served, Answers, Operations
    <2> QED
      BY <1>0, <2>2 DEF IInv
  <1>6. CASE Emit
    <2>1. /\ op' = "none" /\ inp' = Nobody /\ reply' = NoReply
          /\ stage' = "idle" /\ fetch' = "idle"
      BY <1>6 DEF Emit, Collect, FetchReturn, IInv, Served, bodyVars, fetchVars
    <2>2. Served' /\ Answers'
      BY <2>1 DEF Served, Answers, NoReply, Operations
    <2> QED
      BY <1>0, <2>2 DEF IInv
  <1>7. CASE FetchUri \/ Fetch
    <2>1. /\ op' = "fetch_uri" /\ UNCHANGED <<inp, reply>> /\ stage' = "idle"
          /\ reply.kind \in {"none", "ok", "unsupported", "not conformant", "error"}
          /\ (reply.kind # "ok" => reply.result = Nobody)
      BY <1>7 DEF FetchUri, Fetch, IInv, Served, bodyVars
    <2>2. Served' /\ Answers'
      BY <2>1 DEF Served, Answers, Operations
    <2> QED
      BY <1>0, <2>2 DEF IInv
  <1>8. CASE FetchDone
    <2> DEFINE r == Reply(outcome, [source_uri |-> recorded])
    <2>1. op' = "fetch_uri" /\ stage' = "idle" /\ reply' = r
      BY <1>8 DEF FetchDone, IInv, Served, bodyVars
    <2>2. /\ r.kind \in {"ok", "unsupported", "not conformant", "error"}
          /\ (r.kind # "ok" => r.result = Nobody)
      BY Replies
    <2> HIDE DEF r
    <2>3. Served' /\ Answers'
      BY <2>1, <2>2 DEF Served, Answers, Operations
    <2> QED
      BY <1>0, <2>3 DEF IInv
  <1>9. CASE \E i \in HookSources : IngestHook(i)
    <2>1. PICK i \in HookSources : IngestHook(i)
      BY <1>9
    <2>2. Do("ingest hook", i, HookError(_hook_source(i), i.root), HookResult(i))
      BY <2>1 DEF IngestHook, HookResult
    <2>3. Served'
      BY <2>2, DoServed DEF Operations
    <2>4. Answers'
      BY <2>2 DEF Do, Answers
    <2> QED
      BY <1>0, <2>3, <2>4 DEF IInv
  <1>10. CASE \E i \in Renders : Render(i)
    <2>1. PICK i \in Renders : Render(i)
      BY <1>10
    <2> DEFINE result == IF RenderError(i) # "none" THEN Nobody ELSE render(i)
    <2>2. Do("render", i, RenderError(i), result)
      BY <2>1 DEF Render
    <2>3. Served'
      BY <2>2, DoServed DEF Operations
    <2>4. Answers'
      BY <2>2 DEF Do, Answers
    <2> QED
      BY <1>0, <2>3, <2>4 DEF IInv
  <1>11. CASE UNCHANGED vars
    <2>1. UNCHANGED <<op, inp, reply, stage, fetch>>
      BY <1>11 DEF vars, bodyVars, fetchVars
    <2>2. Served' /\ Answers'
      BY <2>1 DEF IInv, Served, Answers
    <2> QED
      BY <1>0, <2>2 DEF IInv
  <1> QED
    BY <1>1, <1>2, <1>3, <1>4, <1>5, <1>6, <1>7, <1>8, <1>9, <1>10,
       <1>11 DEF Next

-----------------------------------------------------------------------------
(* What the answers say. *)

\* The rows of a request are in a sequence.
LEMMA GivenRows ==
  ASSUME NEW i \in Resolves
  PROVE  Given(i) \in Seq(InstallRow)
  <1>1. <<>> \in Seq(InstallRow)
    BY EmptySeq
  <1> QED
    BY <1>1, InputsAssumption, MatrixAssumption DEF Given

\* The places of a scope's current rows, and whether a place is written.
CurrentOf(U, G, scope) == {i \in U : G[i].scope = scope /\ G[i].status = "current"}
IsWritten(U, G, i) ==
    G[i].status = "current"
      /\ \A j \in U : j < i => ~(G[j].scope = G[i].scope /\ G[j].status = "current")

LEMMA FirstCurrent ==
  ASSUME NEW U \in SUBSET Nat, NEW G, NEW scope, CurrentOf(U, G, scope) # {}
  PROVE  \E m \in CurrentOf(U, G, scope) :
            /\ \A i \in U : (IsWritten(U, G, i) /\ G[i].scope = scope) <=> i = m
            /\ \A j \in CurrentOf(U, G, scope) : m <= j
  <1> DEFINE C == CurrentOf(U, G, scope)
             m == Min(C)
  <1>1. C \in SUBSET Nat
    BY DEF CurrentOf
  <1>2. m \in C /\ \A j \in C : m <= j
    BY <1>1, Least
  <1> HIDE DEF m
  <1>3. m \in U /\ m \in Nat /\ G[m].scope = scope /\ G[m].status = "current"
    BY <1>2 DEF CurrentOf
  <1>4. \A j \in U : (G[j].scope = scope /\ G[j].status = "current") =>
                        j \in Nat /\ ~(j < m) /\ (j = m \/ m < j)
    BY <1>1, <1>2, <1>3 DEF CurrentOf
  <1>5. IsWritten(U, G, m)
    BY <1>3, <1>4 DEF IsWritten
  <1>6. ASSUME NEW i \in U, IsWritten(U, G, i), G[i].scope = scope PROVE i = m
    BY <1>3, <1>4, <1>6 DEF IsWritten
  <1> QED
    BY <1>2, <1>3, <1>5, <1>6

LEMMA WriteTarget ==
  ASSUME inp \in Resolves, reply.result = resolve_install_targets(inp)
  PROVE  OneWriteTarget
  <1> DEFINE G == Given(inp)
             U == Usable
             rows == Left(inp)
             targets == reply.result.targets
             superseded == reply.result.superseded
  <1>1. U \in SUBSET Nat /\ \A i \in U : G[i].status \in Status
    <2>1. G \in Seq(InstallRow)
      BY GivenRows
    <2>2. DOMAIN G = 1..Len(G) /\ Len(G) \in Nat /\ \A i \in DOMAIN G : G[i] \in InstallRow
      BY <2>1, LenProperties, ElementOfSeq
    <2>3. \A i \in DOMAIN G : G[i].status \in Status
      BY <2>2 DEF InstallRow
    <2> QED
      BY <2>2, <2>3 DEF Usable
  <1>2. DOMAIN rows = U /\ \A i \in U : rows[i] = G[i]
    <2> DEFINE O == {i \in DOMAIN G : G[i].os = {} \/ inp.os \in G[i].os}
    <2>1. OnOs(G, inp.os) = [i \in O |-> G[i]]
      BY DEF OnOs, Restrict
    <2>2. rows = [i \in {i \in O : inp.scope = "none" \/ G[i].scope = inp.scope} |-> G[i]]
      BY <2>1 DEF Left, InScope, Restrict
    <2>3. {i \in O : inp.scope = "none" \/ G[i].scope = inp.scope} = U
      BY DEF Usable
    <2> QED
      BY <2>2, <2>3
  <1>3. \A i \in U : write_target(rows, i) <=> IsWritten(U, G, i)
    BY <1>2 DEF write_target, IsWritten
  <1>4. /\ DOMAIN targets = U
        /\ \A i \in U : targets[i].row = G[i] /\ (targets[i].write_target <=> IsWritten(U, G, i))
    <2>1. targets = [i \in DOMAIN rows |->
                        [row |-> rows[i], path |-> Path(rows[i], inp.name),
                         write_target |-> write_target(rows, i)]]
      BY DEF resolve_install_targets
    <2> HIDE DEF targets, rows, U, G
    <2>2. /\ DOMAIN targets = U
          /\ \A i \in U : targets[i].row = G[i]
                          /\ targets[i].write_target = write_target(rows, i)
      BY <1>2, <2>1
    <2> QED
      BY <1>3, <2>2, Zenon
  <1>5. \A scope : scope \in superseded <=>
           /\ \E i \in U : G[i].status = "superseded" /\ G[i].scope = scope
           /\ ~ \E i \in U : IsWritten(U, G, i) /\ G[i].scope = scope
    <2>1. superseded = {rows[i].scope : i \in {j \in DOMAIN rows : rows[j].status = "superseded"}}
                         \ {rows[i].scope : i \in {j \in DOMAIN rows : write_target(rows, j)}}
      BY DEF resolve_install_targets, ScopesWith
    <2> HIDE DEF superseded, rows, U, G
    <2> QED
      BY <1>2, <1>3, <2>1
  <1> HIDE DEF targets, superseded, rows, U, G
  <1>6. ASSUME NEW scope, CurrentOf(U, G, scope) = {}
        PROVE  /\ {i \in U : targets[i].write_target /\ targets[i].row.scope = scope} = {}
               /\ scope \in superseded <=> \E i \in U : G[i].scope = scope
    <2>1. \A i \in U : G[i].scope = scope =>
             G[i].status = "superseded" /\ ~IsWritten(U, G, i)
      BY <1>1, <1>6 DEF Status, IsWritten, CurrentOf
    <2> QED
      BY <1>4, <1>5, <2>1
  <1>7. ASSUME NEW scope, CurrentOf(U, G, scope) # {}
        PROVE  /\ scope \notin superseded
               /\ \E i \in CurrentOf(U, G, scope) :
                     /\ {j \in U : targets[j].write_target /\ targets[j].row.scope = scope} = {i}
                     /\ \A j \in CurrentOf(U, G, scope) : i <= j
    <2>1. PICK m \in CurrentOf(U, G, scope) :
             /\ \A i \in U : (IsWritten(U, G, i) /\ G[i].scope = scope) <=> i = m
             /\ \A j \in CurrentOf(U, G, scope) : m <= j
      BY <1>1, <1>7, FirstCurrent
    <2>2. m \in U
      BY DEF CurrentOf
    <2>3. {j \in U : targets[j].write_target /\ targets[j].row.scope = scope} = {m}
      BY <1>4, <2>1, <2>2
    <2> QED
      BY <1>5, <2>1, <2>2, <2>3
  <1> QED
    BY <1>4, <1>6, <1>7 DEF OneWriteTarget, CurrentOf, targets, superseded, U, G

-----------------------------------------------------------------------------
(* Both axes of an installation. *)

\* There is no script for a system when each is for others.
LEMMA NoneSelected ==
  ASSUME NEW scripts, NEW target, scripts \in Seq(ToSet(scripts)),
         NoScript \notin ToSet(scripts)
  PROVE  _select_script(scripts, target) = NoScript <=>
            \A s \in DOMAIN scripts :
               scripts[s].os.kind # "none" /\ target \notin Tags(scripts[s])
  <1> DEFINE A == {s \in DOMAIN scripts : target \in Tags(scripts[s])}
             B == {s \in DOMAIN scripts : scripts[s].os.kind = "none"}
  <1>1. DOMAIN scripts \subseteq Nat
    BY LenProperties
  <1>2. \A s \in DOMAIN scripts : scripts[s] \in ToSet(scripts)
    BY DEF ToSet
  <1>4. _select_script(scripts, target) =
          IF A # {} THEN scripts[Min(A)] ELSE IF B # {} THEN scripts[Min(B)] ELSE NoScript
    BY DEF _select_script
  <1>5. /\ A # {} => Min(A) \in DOMAIN scripts
        /\ B # {} => Min(B) \in DOMAIN scripts
    BY <1>1, Least
  <1>6. /\ A # {} => scripts[Min(A)] # NoScript
        /\ B # {} => scripts[Min(B)] # NoScript
    BY <1>2, <1>5
  <1>7. _select_script(scripts, target) = NoScript <=> A = {} /\ B = {}
    BY <1>4, <1>6, Zenon
  <1> QED
    BY <1>7

LEMMA Judgement ==
  ASSUME inp \in Installs, ~inp.unresolved, InstallError(inp) = "none",
         reply.result = evaluate_install(inp)
  PROVE  DisclosedInstall
  <1> DEFINE scripts == inp.hook.handlers[1].scripts
             selected == _script_selection(inp.hook, {inp.os})[inp.os]
             Gap == /\ inp.os # "none"
                    /\ \A s \in DOMAIN scripts :
                          scripts[s].os.kind # "none" /\ inp.os \notin Tags(scripts[s])
             Silent == inp.provider # "none" /\ Unsure(inp)
             event == IF inp.provider = "none" THEN "none"
                      ELSE _event_install_disposition(inp)
             answer == reply.result
  <1>1. ASSUME inp.os # "none"
        PROVE  selected = NoScript <=> Gap
    <2>1. inp.hook.handlers # <<>>
      BY <1>1 DEF InstallError, NoFirstHandler
    <2>2. /\ inp.hook.handlers \in Seq(ToSet(inp.hook.handlers))
          /\ \A handler \in ToSet(inp.hook.handlers) :
                /\ handler.scripts \in Seq(ToSet(handler.scripts))
                /\ NoScript \notin ToSet(handler.scripts)
      BY InputsAssumption
    <2>3. inp.hook.handlers[1] \in ToSet(inp.hook.handlers)
      <3>1. 1 \in DOMAIN inp.hook.handlers
        BY <2>1, <2>2, EmptySeq, LenProperties
      <3> QED
        BY <3>1 DEF ToSet
    <2>4. /\ scripts \in Seq(ToSet(scripts))
          /\ NoScript \notin ToSet(scripts)
      BY <2>2, <2>3
    <2>5. selected = _select_script(scripts, inp.os)
      BY DEF _script_selection
    <2> QED
      BY <1>1, <2>4, <2>5, NoneSelected
  <1>2. Gap => Unmatched(inp)
    BY <1>1 DEF Unmatched, Shown
  <1>3. /\ answer.install = Install(inp, event)
        /\ answer.no_match <=> Gap
        /\ answer.event = event
    <2>1. answer = [install |-> Install(inp, event),
                    no_match |-> inp.os # "none" /\ selected = NoScript,
                    event |-> event]
      BY DEF evaluate_install
    <2>2. (inp.os # "none" /\ selected = NoScript) <=> Gap
      BY <1>1
    <2> HIDE DEF answer, selected, event, Gap
    <2>3. /\ answer.install = Install(inp, event) /\ answer.event = event
          /\ answer.no_match = (inp.os # "none" /\ selected = NoScript)
      BY <2>1
    <2> QED
      BY <2>2, <2>3, Zenon
  <1>4. inp.hook.blocking \in BOOLEAN
    BY InputsAssumption
  <1>5. /\ ~Silent => event = "none"
        /\ (Silent /\ ~inp.hook.blocking) => event = "proceeded"
        /\ (Silent /\ inp.hook.blocking /\ inp.override) => event = "overridden"
        /\ (Silent /\ inp.hook.blocking /\ ~inp.override) => event = "refused"
    BY DEF _event_install_disposition
  <1>6. /\ Install(inp, event) = "proceed" <=>
              ~(event = "refused" \/ (Unmatched(inp) /\ inp.hook.blocking))
    BY DEF Install, UNRESOLVED_INSTALL
  <1> HIDE DEF event, answer, Gap, Silent
  <1>7. /\ (inp.hook.blocking /\ answer.install = "proceed") =>
              ~Gap /\ (Silent => inp.override)
        /\ answer.event \in IF ~Silent THEN {"none"}
                             ELSE IF answer.install = "proceed"
                             THEN {"proceeded", "overridden"}
                             ELSE {"refused", "overridden"}
        /\ answer.event = "proceeded" => ~inp.hook.blocking
        /\ answer.install # "proceed" =>
               inp.hook.blocking /\ (Gap \/ answer.event = "refused" \/ Unmatched(inp))
    BY <1>2, <1>3, <1>4, <1>5, <1>6
  <1> QED
    BY <1>3, <1>7 DEF DisclosedInstall, Gap, Silent, answer

-----------------------------------------------------------------------------
(* The scripts of a hook, and the order they are listed in. *)

\* What is joined has the elements of both.
LEMMA ToSetConcat ==
  ASSUME NEW S, NEW s \in Seq(S), NEW t \in Seq(S)
  PROVE  s \o t \in Seq(S) /\ ToSet(s \o t) = ToSet(s) \cup ToSet(t)
  <1> DEFINE c == s \o t
  <1>1. /\ c \in Seq(S) /\ Len(c) = Len(s) + Len(t)
        /\ Len(s) \in Nat /\ Len(t) \in Nat
        /\ \A i \in 1..Len(s) : c[i] = s[i]
        /\ \A i \in 1..Len(t) : c[Len(s) + i] = t[i]
    OBVIOUS
  <1>2. DOMAIN c = 1..Len(c) /\ DOMAIN s = 1..Len(s) /\ DOMAIN t = 1..Len(t)
    BY <1>1
  <1> HIDE DEF c
  <1>3. ASSUME NEW i \in DOMAIN c PROVE c[i] \in ToSet(s) \cup ToSet(t)
    <2>1. CASE i \in 1..Len(s)
      BY <1>1, <1>2, <2>1 DEF ToSet
    <2>2. CASE i \notin 1..Len(s)
      <3> DEFINE j == i - Len(s)
      <3>1. j \in 1..Len(t) /\ i = Len(s) + j
        BY <1>1, <1>2, <2>2
      <3> HIDE DEF j
      <3> QED
        BY <1>1, <1>2, <3>1 DEF ToSet
    <2> QED
      BY <2>1, <2>2
  <1>4. \A i \in DOMAIN s : s[i] \in ToSet(c)
    <2>1. \A i \in DOMAIN s : i \in DOMAIN c /\ c[i] = s[i]
      BY <1>1, <1>2
    <2> QED
      BY <2>1 DEF ToSet
  <1>5. \A i \in DOMAIN t : t[i] \in ToSet(c)
    <2>1. \A i \in DOMAIN t : Len(s) + i \in DOMAIN c /\ c[Len(s) + i] = t[i]
      BY <1>1, <1>2
    <2> QED
      BY <2>1 DEF ToSet
  <1>6. ToSet(c) = ToSet(s) \cup ToSet(t)
    BY <1>3, <1>4, <1>5 DEF ToSet
  <1> QED
    BY <1>1, <1>6 DEF c

\* FlattenSeq step by step: what it makes of the first j sequences.
FlatStep(seqs, f, i) == IF i = 1 THEN seqs[i] ELSE f[i - 1] \o seqs[i]
Flat(seqs, j, f) == f = [i \in 1..j |-> FlatStep(seqs, f, i)]

\* One step further.
LEMMA FlatLonger ==
  ASSUME NEW seqs, NEW j \in Nat, NEW f, Flat(seqs, j, f)
  PROVE  \E h : Flat(seqs, j + 1, h)
  <1> DEFINE h == [i \in 1..(j + 1) |->
                     IF i = j + 1 THEN FlatStep(seqs, f, i) ELSE f[i]]
  <1>1. \A i \in 1..j : f[i] = FlatStep(seqs, f, i)
    BY DEF Flat
  <1>2. /\ \A i \in 1..j : h[i] = f[i]
        /\ h[j + 1] = FlatStep(seqs, f, j + 1)
        /\ h = [i \in 1..(j + 1) |-> h[i]]
    OBVIOUS
  <1> HIDE DEF h
  <1>3. ASSUME NEW i \in 1..(j + 1) PROVE h[i] = FlatStep(seqs, h, i)
    <2>1. FlatStep(seqs, h, i) = FlatStep(seqs, f, i)
      <3>1. CASE i = 1
        BY <3>1 DEF FlatStep
      <3>2. CASE i # 1
        <4>1. i - 1 \in 1..j
          BY <3>2
        <4> QED
          BY <1>2, <4>1 DEF FlatStep
      <3> QED
        BY <3>1, <3>2
    <2>2. i \in 1..j \/ i = j + 1
      OBVIOUS
    <2> QED
      BY <1>1, <1>2, <2>1, <2>2
  <1>4. Flat(seqs, j + 1, h)
    BY <1>2, <1>3 DEF Flat
  <1> QED
    BY <1>4

\* So there is such a function for any number of pieces, ...
LEMMA FlatExists ==
  ASSUME NEW seqs, NEW k \in Nat
  PROVE  \E f : Flat(seqs, k, f)
  <1> DEFINE T == {j \in Nat : ~ \E f : Flat(seqs, j, f)}
  <1> SUFFICES ASSUME T # {} PROVE FALSE
    OBVIOUS
  <1> DEFINE j == Min(T)
  <1>1. j \in T /\ \A i \in T : j <= i
    BY Least
  <1> HIDE DEF j
  <1>2. j \in Nat /\ ~ \E f : Flat(seqs, j, f)
    BY <1>1
  <1>3. CASE j = 0
    <2>1. Flat(seqs, 0, [i \in 1..0 |-> 0])
      BY DEF Flat
    <2> QED
      BY <1>2, <1>3, <2>1
  <1>4. CASE j # 0
    <2>1. j - 1 \in Nat /\ j - 1 \notin T /\ (j - 1) + 1 = j
      BY <1>1, <1>2, <1>4
    <2>2. \E f : Flat(seqs, j - 1, f)
      BY <2>1
    <2> QED
      BY <1>2, <2>1, <2>2, FlatLonger
  <1> QED
    BY <1>3, <1>4

\* ... and it is what FlattenSeq computes.
LEMMA FlattenIsFlat ==
  ASSUME NEW seqs, Len(seqs) \in Nat \ {0}
  PROVE  \E f : Flat(seqs, Len(seqs), f) /\ FlattenSeq(seqs) = f[Len(seqs)]
  <1> DEFINE f == CHOOSE f : f = [i \in 1..Len(seqs) |->
                                    IF i = 1 THEN seqs[i] ELSE f[i - 1] \o seqs[i]]
  <1>1. \E h : h = [i \in 1..Len(seqs) |->
                      IF i = 1 THEN seqs[i] ELSE h[i - 1] \o seqs[i]]
    BY FlatExists DEF Flat, FlatStep
  <1>2. f = [i \in 1..Len(seqs) |-> IF i = 1 THEN seqs[i] ELSE f[i - 1] \o seqs[i]]
    BY <1>1, Zenon
  <1>3. FlattenSeq(seqs) = f[Len(seqs)]
    BY Zenon DEF FlattenSeq
  <1> HIDE DEF f
  <1>4. Flat(seqs, Len(seqs), f)
    BY <1>2 DEF Flat, FlatStep
  <1> QED
    BY <1>3, <1>4

\* What is in the sequence that FlattenSeq makes of k sequences.
LEMMA FlattenElements ==
  ASSUME NEW S, NEW k \in Nat, NEW seqs \in [1..k -> Seq(S)]
  PROVE  /\ FlattenSeq(seqs) \in Seq(S)
         /\ ToSet(FlattenSeq(seqs)) = UNION {ToSet(seqs[i]) : i \in 1..k}
  <1>1. seqs \in Seq(Seq(S)) /\ Len(seqs) = k
    OBVIOUS
  <1>2. CASE k = 0
    <2>1. FlattenSeq(seqs) = <<>>
      BY <1>1, <1>2 DEF FlattenSeq
    <2>2. <<>> \in Seq(S) /\ ToSet(<<>>) = {}
      BY DEF ToSet
    <2> QED
      BY <1>2, <2>1, <2>2
  <1>3. CASE k # 0
    <2>1. PICK f : Flat(seqs, k, f) /\ FlattenSeq(seqs) = f[k]
      BY <1>1, <1>3, FlattenIsFlat
    <2> DEFINE Of(i) == UNION {ToSet(seqs[j]) : j \in 1..i}
               Fits(i) == f[i] \in Seq(S) /\ ToSet(f[i]) = Of(i)
               T == {i \in 1..k : ~Fits(i)}
    <2>2. T = {}
      <3> SUFFICES ASSUME T # {} PROVE FALSE
        OBVIOUS
      <3> DEFINE i == Min(T)
      <3>1. i \in T /\ \A j \in T : i <= j
        <4>1. T \subseteq Nat
          OBVIOUS
        <4> HIDE DEF T
        <4> QED
          BY <4>1, Least
      <3> HIDE DEF i
      <3>2. i \in 1..k /\ ~Fits(i)
        BY <3>1
      <3>3. f[i] = FlatStep(seqs, f, i)
        BY <2>1, <3>2 DEF Flat
      <3>4. seqs[i] \in Seq(S)
        BY <3>2
      <3>5. CASE i = 1
        <4>1. f[i] = seqs[i]
          BY <3>3, <3>5 DEF FlatStep
        <4>2. Of(i) = ToSet(seqs[i])
          BY <3>5
        <4> QED
          BY <3>2, <3>4, <4>1, <4>2
      <3>6. CASE i # 1
        <4>1. i - 1 \in 1..k /\ i - 1 < i /\ 1..i = 1..(i - 1) \cup {i}
          <5>1. i \in Nat /\ 1 <= i
            BY <3>2
          <5> QED
            BY <3>2, <3>6, <5>1
        <4>2. Fits(i - 1)
          <5> HIDE DEF Fits
          <5> QED
            BY <3>1, <4>1
        <4>3. f[i] = f[i - 1] \o seqs[i]
          BY <3>3, <3>6 DEF FlatStep
        <4>4. Of(i) = Of(i - 1) \cup ToSet(seqs[i])
          <5> HIDE DEF T
          <5>1. \A x : x \in Of(i) <=> \E j \in 1..i : x \in ToSet(seqs[j])
            OBVIOUS
          <5>2. \A x : x \in Of(i - 1) <=> \E j \in 1..(i - 1) : x \in ToSet(seqs[j])
            OBVIOUS
          <5> HIDE DEF Of
          <5> QED
            BY <4>1, <5>1, <5>2
        <4> HIDE DEF Of
        <4>5. /\ f[i - 1] \o seqs[i] \in Seq(S)
              /\ ToSet(f[i - 1] \o seqs[i]) = ToSet(f[i - 1]) \cup ToSet(seqs[i])
          BY <3>4, <4>2, ToSetConcat
        <4> QED
          BY <3>2, <4>2, <4>3, <4>4, <4>5
      <3> QED
        BY <3>5, <3>6
    <2>3. k \in 1..k
      BY <1>3
    <2>4. Fits(k)
      BY <2>2, <2>3
    <2> QED
      BY <2>1, <2>4
  <1> QED
    BY <1>2, <1>3

\* The elements at some places.
LEMMA ElementsAtPlaces ==
  ASSUME NEW S, NEW s \in Seq(S), NEW places \in SUBSET DOMAIN s
  PROVE  /\ ElementsAt(s, places) \in Seq(S)
         /\ ToSet(ElementsAt(s, places)) = {s[i] : i \in places}
  <1> DEFINE k == Len(s)
             seqs == [i \in DOMAIN s |-> IF i \in places THEN <<s[i]>> ELSE <<>>]
  <1>1. k \in Nat /\ DOMAIN s = 1..k /\ \A i \in 1..k : s[i] \in S
    OBVIOUS
  <1>2. \A x \in S : <<x>> \in Seq(S) /\ ToSet(<<x>>) = {x}
    BY DEF ToSet
  <1>3. <<>> \in Seq(S) /\ ToSet(<<>>) = {}
    BY DEF ToSet
  <1> HIDE DEF k
  <1>4. /\ seqs \in [1..k -> Seq(S)]
        /\ \A i \in 1..k : ToSet(seqs[i]) = IF i \in places THEN {s[i]} ELSE {}
    BY <1>1, <1>2, <1>3
  <1>5. ElementsAt(s, places) = FlattenSeq(seqs)
    BY DEF ElementsAt
  <1> HIDE DEF seqs
  <1>6. /\ FlattenSeq(seqs) \in Seq(S)
        /\ ToSet(FlattenSeq(seqs)) = UNION {ToSet(seqs[i]) : i \in 1..k}
    BY <1>1, <1>4, FlattenElements
  <1>7. UNION {ToSet(seqs[i]) : i \in 1..k} = {s[i] : i \in places}
    BY <1>1, <1>4
  <1> QED
    BY <1>5, <1>6, <1>7

\* Each path is there, once or not.
LEMMA DistinctElements ==
  ASSUME NEW S, NEW s \in Seq(S)
  PROVE  Distinct(s) \in Seq(S) /\ ToSet(Distinct(s)) = ToSet(s)
  <1> DEFINE F == {i \in DOMAIN s : \A j \in 1..(i - 1) : s[j] # s[i]}
  <1>1. DOMAIN s = 1..Len(s) /\ Len(s) \in Nat
    OBVIOUS
  <1>2. Distinct(s) = ElementsAt(s, F)
    BY DEF Distinct
  <1>3. Distinct(s) \in Seq(S) /\ ToSet(Distinct(s)) = {s[i] : i \in F}
    BY <1>2, ElementsAtPlaces
  <1>4. ASSUME NEW i \in DOMAIN s PROVE \E m \in F : s[m] = s[i]
    <2> DEFINE E == {j \in DOMAIN s : s[j] = s[i]}
               m == Min(E)
    <2>1. E \in SUBSET Nat /\ E # {}
      BY <1>1
    <2>2. m \in E /\ \A j \in E : m <= j
      BY <2>1, Least
    <2> HIDE DEF m
    <2>3. \A j \in 1..(m - 1) : s[j] # s[m]
      BY <1>1, <2>2
    <2> QED
      BY <2>2, <2>3
  <1>5. {s[i] : i \in F} = ToSet(s)
    BY <1>4 DEF ToSet
  <1> QED
    BY <1>3, <1>5

\* All that have the same elements are sorted to one: what sorts a sequence sorts
\* it when its elements are in the opposite order.
LEMMA SortedReversed ==
  ASSUME NEW n \in Nat, NEW c, NEW d, DOMAIN c = 1..n, DOMAIN d = 1..n,
         \A i \in 1..n : d[i] = c[n - i + 1]
  PROVE  SortedByJcs(d) = SortedByJcs(c)
  <1> DEFINE D == 1..n
             B == Bijection(D, D)
             r == [i \in D |-> n - i + 1]
             Of(s) == {[i \in D |-> s[p[i]]] : p \in B}
  <1>1. r \in [D -> D] /\ \A i \in D : r[i] = n - i + 1 /\ r[r[i]] = i
    OBVIOUS
  <1> HIDE DEF r
  <1>2. r \in B
    <2>1. /\ \A a, b \in D : r[a] = r[b] => a = b
          /\ \A i \in D : \E j \in D : r[j] = i
      <3>1. \A i \in D : r[i] \in D /\ r[r[i]] = i
        BY <1>1
      <3> HIDE DEF D
      <3> QED
        BY <3>1
    <2> HIDE DEF D
    <2> QED
      BY <1>1, <2>1, Fun_IsBij
  <1>3. \A p \in B : p \in [D -> D] /\ [i \in D |-> r[p[i]]] \in B
    <2>1. \A p \in B : [i \in D |-> r[p[i]]] \in B
      <3> HIDE DEF D
      <3> QED
        BY <1>2, Fun_BijTransitive
    <2> QED
      BY <2>1 DEF Bijection, Surjection
  <1> HIDE DEF B
  <1>4. ASSUME NEW s, NEW t, \A i \in D : s[i] = t[r[i]]
        PROVE  Of(s) \subseteq Of(t)
    <2> SUFFICES ASSUME NEW p \in B PROVE [i \in D |-> s[p[i]]] \in Of(t)
      OBVIOUS
    <2> DEFINE q == [i \in D |-> r[p[i]]]
    <2>1. q \in B /\ \A i \in D : q[i] = r[p[i]] /\ p[i] \in D
      BY <1>3
    <2> HIDE DEF q
    <2>2. [i \in D |-> s[p[i]]] = [i \in D |-> t[q[i]]]
      BY <1>4, <2>1
    <2> QED
      BY <2>1, <2>2
  <1>5. (\A i \in D : d[i] = c[r[i]]) /\ (\A i \in D : c[i] = d[r[i]])
    BY <1>1
  <1>6. Of(d) = Of(c)
    <2> HIDE DEF Of
    <2>1. Of(d) \subseteq Of(c)
      BY <1>4, <1>5
    <2>2. Of(c) \subseteq Of(d)
      BY <1>4, <1>5
    <2> QED
      BY <2>1, <2>2
  <1>7. /\ SortedByJcs(c) = CHOOSE s \in Of(c) : TRUE
        /\ SortedByJcs(d) = CHOOSE s \in Of(d) : TRUE
    BY DEF SortedByJcs, B
  <1> HIDE DEF Of
  <1> QED
    BY <1>6, <1>7

\* s has each of the n elements of c, and no other.
Rearranged(n, c, s) ==
    \E p \in [1..n -> 1..n] :
       /\ \A i \in 1..n : \E j \in 1..n : p[j] = i
       /\ DOMAIN s = 1..n
       /\ \A i \in 1..n : s[i] = c[p[i]]

\* What is sorted has each of the elements.
LEMMA SortedElements ==
  ASSUME NEW n \in Nat, NEW c, DOMAIN c = 1..n
  PROVE  Rearranged(n, c, SortedByJcs(c))
  <1> DEFINE D == 1..n
             B == Bijection(D, D)
             Of == {[i \in D |-> c[p[i]]] : p \in B}
             e == [i \in D |-> i]
  <1>1. e \in B
    <2> HIDE DEF D
    <2>1. e \in [D -> D] /\ \A i \in D : e[i] = i
      OBVIOUS
    <2> HIDE DEF e
    <2> QED
      BY <2>1, Fun_IsBij
  <1>2. \A p \in B : p \in [D -> D] /\ \A i \in D : \E j \in D : p[j] = i
    BY DEF Bijection, Surjection
  <1> HIDE DEF B, e
  <1>3. SortedByJcs(c) = CHOOSE s \in Of : TRUE
    BY DEF SortedByJcs, B
  <1>4. SortedByJcs(c) \in Of
    BY <1>1, <1>3
  <1>5. PICK p \in B : SortedByJcs(c) = [i \in D |-> c[p[i]]]
    BY <1>4
  <1>6. p \in [D -> D] /\ \A i \in D : \E j \in D : p[j] = i
    BY <1>2, <1>5
  <1> DEFINE sorted == SortedByJcs(c)
  <1>7. DOMAIN sorted = D /\ \A i \in D : sorted[i] = c[p[i]]
    BY <1>5
  <1> HIDE DEF sorted, Of
  <1>8. Rearranged(n, c, sorted)
    BY <1>6, <1>7, Zenon DEF Rearranged
  <1> QED
    BY <1>8 DEF sorted

\* The types of hooks, for those made from a map of paths as well.
Say ==
    STRING \cup {"command", "before_tool_execute", "none", "file", "no content"}
        \cup ToSet(Systems)
AnOs == [kind : {"none", "list", "no list"}, tags : Seq(Say)]
AScript ==
    [type : Say, path : Seq(STRING), content : Seq(Say), os : AnOs, more : Say]
AHandler == [type : Say, scripts : Seq(AScript), async : BOOLEAN]
AHook ==
    [event : Say, handlers : Seq(AHandler), blocking : BOOLEAN, matcher : Say, more : Say]

\* The three systems.
LEMMA SystemsSeq ==
  /\ Systems \in Seq(ToSet(Systems)) /\ DOMAIN Systems = 1..3
  /\ \A i \in 1..3 : Systems[i] \in ToSet(Systems)
  /\ \A os \in ToSet(Systems) : \E i \in 1..3 : Systems[i] = os
  <1>1. Systems \in Seq({"darwin", "linux", "windows"}) /\ Len(Systems) = 3
    BY DEF Systems
  <1>2. DOMAIN Systems = 1..3
    BY <1>1
  <1>3. ToSet(Systems) = {Systems[i] : i \in 1..3}
    BY <1>2 DEF ToSet
  <1>4. Systems \in Seq(ToSet(Systems))
    <2>1. ToSet(Systems) = {"darwin", "linux", "windows"}
      BY <1>3 DEF Systems
    <2> QED
      BY <1>1, <2>1
  <1> QED
    BY <1>2, <1>3, <1>4

\* A script as it is given is one of these, ...
LEMMA RawIsScript == RawScript \subseteq AScript
  <1>1. STRING \subseteq Say
    BY DEF Say
  <1> HIDE DEF Say
  <1> SUFFICES ASSUME NEW s \in RawScript PROVE s \in AScript
    OBVIOUS
  <1>2. s.os \in AnOs
    <2>1. s.os \in [kind : {"none", "list", "no list"}, tags : Seq(STRING)]
      BY DEF RawScript
    <2>2. s.os.tags \in Seq(Say)
      BY <1>1, <2>1, SeqMonotonic
    <2> QED
      BY <2>1, <2>2 DEF AnOs
  <1>3. s.content \in Seq(Say)
    BY <1>1, SeqMonotonic DEF RawScript
  <1> QED
    BY <1>1, <1>2, <1>3 DEF RawScript, AScript

\* ... and so is a hook.
LEMMA RawIsHook == RawHook \subseteq AHook
  <1>1. STRING \subseteq Say
    BY DEF Say
  <1> HIDE DEF Say
  <1>2. \A s \in RawScript : s \in AScript
    BY RawIsScript
  <1>3. ASSUME NEW h \in RawHandler PROVE h \in AHandler
    <2>1. h.scripts \in Seq(AScript)
      <3>1. h.scripts \in Seq(RawScript)
        BY DEF RawHandler
      <3> QED
        BY <1>2, <3>1, SeqMonotonic
    <2> QED
      BY <1>1, <2>1 DEF RawHandler, AHandler
  <1>4. ASSUME NEW k \in RawHook PROVE k \in AHook
    <2>1. k.handlers \in Seq(AHandler)
      <3>1. k.handlers \in Seq(RawHandler)
        BY DEF RawHook
      <3> QED
        BY <1>3, <3>1, SeqMonotonic
    <2> QED
      BY <1>1, <2>1 DEF RawHook, AHook
  <1> QED
    BY <1>4

\* The scripts that _hook_from_per_os_map makes.
Default(source) ==
    IF source.command = NoPath THEN <<>> ELSE <<DefaultScript(source)>>
Owned(source, path) == FileScript(path, OsList(OsOf(source, path)))
Merged(source) ==
    [i \in DOMAIN Distinct(PathsOf(source)) |->
        Owned(source, Distinct(PathsOf(source))[i])]

\* The paths of a map.
LEMMA MapPaths ==
  ASSUME NEW source \in PathMap
  PROVE  /\ Distinct(PathsOf(source)) \in Seq(Seq(STRING))
         /\ ToSet(Distinct(PathsOf(source))) =
               {source.path[os] : os \in ToSet(Systems)} \ {NoPath}
  <1> DEFINE path == [i \in 1..3 |-> source.path[Systems[i]]]
             P == {i \in 1..3 : path[i] # NoPath}
  <1>1. \A os \in ToSet(Systems) : source.path[os] \in Seq(STRING)
    BY DEF PathMap
  <1>2. path \in [1..3 -> Seq(STRING)]
    BY <1>1, SystemsSeq
  <1>3. path \in Seq(Seq(STRING)) /\ DOMAIN path = 1..3
    BY <1>2
  <1>4. PathsOf(source) = ElementsAt(path, P)
    BY DEF PathsOf
  <1>5. PathsOf(source) \in Seq(Seq(STRING)) /\ ToSet(PathsOf(source)) = {path[i] : i \in P}
    <2> HIDE DEF path
    <2>1. P \in SUBSET DOMAIN path
      BY <1>3
    <2> HIDE DEF P
    <2> QED
      BY <1>3, <1>4, <2>1, ElementsAtPlaces
  <1>6. {path[i] : i \in P} = {source.path[os] : os \in ToSet(Systems)} \ {NoPath}
    <2>1. \A i \in 1..3 : path[i] = source.path[Systems[i]]
      OBVIOUS
    <2> HIDE DEF path
    <2> QED
      BY <2>1, SystemsSeq
  <1> QED
    BY <1>5, <1>6, DistinctElements

\* The systems that have a path.
LEMMA MapOs ==
  ASSUME NEW source \in PathMap, NEW path
  PROVE  /\ OsOf(source, path) \in Seq(ToSet(Systems))
         /\ ToSet(OsOf(source, path)) = {os \in ToSet(Systems) : source.path[os] = path}
  <1> DEFINE P == {i \in 1..3 : source.path[Systems[i]] = path}
  <1>1. OsOf(source, path) = ElementsAt(Systems, P)
    BY DEF OsOf
  <1>2. /\ OsOf(source, path) \in Seq(ToSet(Systems))
        /\ ToSet(OsOf(source, path)) = {Systems[i] : i \in P}
    BY <1>1, SystemsSeq, ElementsAtPlaces, SMTT(20)
  <1>3. {Systems[i] : i \in P} = {os \in ToSet(Systems) : source.path[os] = path}
    BY SystemsSeq
  <1> QED
    BY <1>2, <1>3

\* The scripts a map of paths is turned into.
LEMMA MapScripts ==
  ASSUME NEW source \in PathMap
  PROVE  /\ _hook_from_per_os_map(source) =
              [event |-> "before_tool_execute", blocking |-> FALSE, matcher |-> "none",
               more |-> "none",
               handlers |-> <<[type |-> "command", async |-> FALSE,
                               scripts |-> Default(source) \o Merged(source)]>>]
         /\ Default(source) \o Merged(source) \in Seq(AScript)
         /\ \A script : script \in ToSet(Default(source) \o Merged(source)) <=>
              \/ source.command # NoPath /\ script = DefaultScript(source)
              \/ \E path \in {source.path[os] : os \in ToSet(Systems)} \ {NoPath} :
                    script = Owned(source, path)
  <1> DEFINE D == Distinct(PathsOf(source))
             E == {source.path[os] : os \in ToSet(Systems)} \ {NoPath}
             Made(path) == Owned(source, path)
             first == DefaultScript(source)
  <1>1. _hook_from_per_os_map(source) =
              [event |-> "before_tool_execute", blocking |-> FALSE, matcher |-> "none",
               more |-> "none",
               handlers |-> <<[type |-> "command", async |-> FALSE,
                               scripts |-> Default(source) \o Merged(source)]>>]
    BY DEF _hook_from_per_os_map, Default, Merged, Owned
  <1>2. D \in Seq(Seq(STRING)) /\ ToSet(D) = E
    BY MapPaths
  <1>3. Merged(source) = [i \in DOMAIN D |-> Made(D[i])]
    BY DEF Merged
  <1> HIDE DEF D
  <1>4. \A path \in Seq(STRING) : Made(path) \in AScript
    <2>1. ASSUME NEW path \in Seq(STRING) PROVE Made(path) \in AScript
      <3>1. OsOf(source, path) \in Seq(Say)
        <4>1. OsOf(source, path) \in Seq(ToSet(Systems))
          BY MapOs
        <4>2. ToSet(Systems) \subseteq Say
          BY DEF Say
        <4> QED
          BY <4>1, <4>2, SeqMonotonic
      <3>2. "file" \in Say /\ "none" \in Say
        BY DEF Say
      <3>3. NoContent \in Seq(Say)
        <4>1. "no content" \in Say
          BY DEF Say
        <4>2. \A x \in Say : <<x>> \in Seq(Say)
          OBVIOUS
        <4> HIDE DEF Say
        <4>3. <<"no content">> \in Seq(Say)
          BY <4>1, <4>2
        <4> QED
          BY <4>3, Zenon DEF NoContent
      <3> HIDE DEF Say
      <3>4. OsList(OsOf(source, path)) \in AnOs
        BY <3>1 DEF OsList, AnOs
      <3> QED
        BY <3>2, <3>3, <3>4 DEF Owned, FileScript, AScript
    <2> QED
      BY <2>1
  <1>5. first \in AScript
    <2>1. source.extra \in AScript /\ source.command \in Seq(STRING)
      BY RawIsScript DEF PathMap
    <2>2. "file" \in Say
      BY DEF Say
    <2> HIDE DEF Say
    <2> QED
      BY <2>1, <2>2 DEF DefaultScript, AScript
  <1> HIDE DEF Made, first
  <1>6. /\ Merged(source) \in Seq(AScript)
        /\ ToSet(Merged(source)) = {Made(path) : path \in E}
    <2>1. DOMAIN D = 1..Len(D) /\ Len(D) \in Nat /\ \A i \in DOMAIN D : D[i] \in Seq(STRING)
      BY <1>2
    <2>2. Merged(source) \in [1..Len(D) -> AScript]
      BY <1>3, <1>4, <2>1
    <2>3. Merged(source) \in Seq(AScript)
      BY <2>1, <2>2
    <2>4. ToSet(Merged(source)) = {Made(D[i]) : i \in DOMAIN D}
      BY <1>3 DEF ToSet
    <2>5. E = {D[i] : i \in DOMAIN D}
      BY <1>2 DEF ToSet
    <2> QED
      BY <2>3, <2>4, <2>5
  <1>7. /\ Default(source) \in Seq(AScript)
        /\ ToSet(Default(source)) = IF source.command = NoPath THEN {} ELSE {first}
    <2>1. Default(source) = IF source.command = NoPath THEN <<>> ELSE <<first>>
      BY DEF Default, first
    <2>2. <<>> \in Seq(AScript) /\ ToSet(<<>>) = {}
      BY DEF ToSet
    <2>3. <<first>> \in Seq(AScript) /\ ToSet(<<first>>) = {first}
      BY <1>5 DEF ToSet
    <2> QED
      BY <2>1, <2>2, <2>3
  <1>8. /\ Default(source) \o Merged(source) \in Seq(AScript)
        /\ ToSet(Default(source) \o Merged(source))
              = ToSet(Default(source)) \cup ToSet(Merged(source))
    BY <1>6, <1>7, ToSetConcat
  <1> QED
    BY <1>1, <1>6, <1>7, <1>8 DEF Made, first

\* Whatever is ingested is a hook.
LEMMA SourceIsHook ==
  ASSUME NEW i \in HookSources
  PROVE  _hook_source(i) \in AHook
  <1>1. CASE ~i.map
    BY <1>1, RawIsHook, InputsAssumption DEF _hook_source
  <1>2. CASE i.map
    <2> DEFINE scripts == Default(i.source) \o Merged(i.source)
               handler == [type |-> "command", async |-> FALSE, scripts |-> scripts]
    <2>1. i.source \in PathMap
      BY <1>2, InputsAssumption
    <2>2. /\ _hook_source(i) = [event |-> "before_tool_execute", blocking |-> FALSE,
                                matcher |-> "none", more |-> "none",
                                handlers |-> <<handler>>]
          /\ scripts \in Seq(AScript)
      BY <1>2, <2>1, MapScripts DEF _hook_source
    <2> HIDE DEF scripts
    <2>3. "command" \in Say /\ "before_tool_execute" \in Say /\ "none" \in Say
      BY DEF Say
    <2> HIDE DEF Say
    <2>4. handler \in AHandler
      BY <2>2, <2>3 DEF AHandler
    <2> HIDE DEF handler
    <2>5. <<handler>> \in Seq(AHandler)
      BY <2>4
    <2> QED
      BY <2>2, <2>3, <2>5 DEF AHook
  <1> QED
    BY <1>1, <1>2

\* A sequence from its end.
LEMMA ReverseElements ==
  ASSUME NEW S, NEW s \in Seq(S)
  PROVE  /\ Reverse(s) \in Seq(S) /\ DOMAIN Reverse(s) = 1..Len(s)
         /\ Len(s) \in Nat /\ DOMAIN s = 1..Len(s)
         /\ \A i \in 1..Len(s) : Reverse(s)[i] = s[Len(s) - i + 1]
         /\ ToSet(Reverse(s)) = ToSet(s)
  <1> DEFINE n == Len(s)
             r == Reverse(s)
  <1>1. n \in Nat /\ DOMAIN s = 1..n /\ \A i \in 1..n : s[i] \in S
    BY LenProperties, ElementOfSeq
  <1>2. r = [i \in 1..n |-> s[(n - i) + 1]]
    BY DEF Reverse
  <1> HIDE DEF n, r
  <1>3. \A i \in 1..n : n - i + 1 \in 1..n /\ n - (n - i + 1) + 1 = i
    BY <1>1
  <1>4. r \in [1..n -> S] /\ \A i \in 1..n : r[i] = s[n - i + 1]
    BY <1>1, <1>2, <1>3
  <1>5. r \in Seq(S) /\ DOMAIN r = 1..n
    BY <1>1, <1>4
  <1>6. ToSet(r) = ToSet(s)
    <2>1. \A i \in 1..n : \E j \in 1..n : r[i] = s[j]
      BY <1>3, <1>4
    <2>2. \A i \in 1..n : \E j \in 1..n : s[i] = r[j]
      <3>1. \A i \in 1..n : s[i] = r[n - i + 1]
        BY <1>3, <1>4
      <3> QED
        BY <1>3, <3>1
    <2>3. ToSet(r) = {r[i] : i \in 1..n} /\ ToSet(s) = {s[i] : i \in 1..n}
      BY <1>1, <1>5 DEF ToSet
    <2>4. {r[i] : i \in 1..n} \subseteq {s[i] : i \in 1..n}
      BY <2>1
    <2>5. {s[i] : i \in 1..n} \subseteq {r[i] : i \in 1..n}
      BY <2>2
    <2> QED
      BY <2>3, <2>4, <2>5
  <1> QED
    BY <1>1, <1>4, <1>5, <1>6 DEF n, r

\* The scripts of a handler in canonical form.
Canon(scripts) == [s \in DOMAIN scripts |-> canonicalize_script(scripts[s])]

\* The systems of a script stay, and the path of a file.
LEMMA CanonKeeps ==
  ASSUME NEW script \in AScript
  PROVE  /\ canonicalize_script(script).os = script.os
         /\ Tags(canonicalize_script(script)) = Tags(script)
         /\ script.type = "file" =>
               /\ canonicalize_script(script).type = "file"
               /\ canonicalize_script(script).path = script.path
  <1>1. /\ canonicalize_script(script).os = script.os
        /\ script.type = "file" =>
               /\ canonicalize_script(script).type = "file"
               /\ canonicalize_script(script).path = script.path
    BY DEF canonicalize_script, AScript
  <1> QED
    BY <1>1 DEF Tags

\* The order of scripts does not matter to their canonical form.
LEMMA CanonReversed ==
  ASSUME NEW scripts \in Seq(AScript)
  PROVE  SortedByJcs(Canon(Reverse(scripts))) = SortedByJcs(Canon(scripts))
  <1> DEFINE n == Len(scripts)
             c == Canon(scripts)
             d == Canon(Reverse(scripts))
  <1>1. /\ n \in Nat /\ DOMAIN scripts = 1..n /\ DOMAIN Reverse(scripts) = 1..n
        /\ \A i \in 1..n : Reverse(scripts)[i] = scripts[n - i + 1] /\ n - i + 1 \in 1..n
    BY ReverseElements
  <1> HIDE DEF n
  <1>2. /\ DOMAIN c = 1..n /\ DOMAIN d = 1..n
        /\ \A i \in 1..n : c[i] = canonicalize_script(scripts[i])
        /\ \A i \in 1..n : d[i] = canonicalize_script(Reverse(scripts)[i])
    BY <1>1 DEF Canon
  <1> HIDE DEF c, d
  <1>3. \A i \in 1..n : d[i] = c[n - i + 1]
    BY <1>1, <1>2
  <1> QED
    BY <1>1, <1>2, <1>3, SortedReversed, SMTT(20) DEF c, d

\* A hook, its handlers, and those of the one that is turned.
LEMMA HandlersOf ==
  ASSUME NEW hook \in AHook
  PROVE  /\ DOMAIN hook.handlers = 1..Len(hook.handlers) /\ Len(hook.handlers) \in Nat
         /\ \A h \in DOMAIN hook.handlers :
               hook.handlers[h] \in AHandler /\ hook.handlers[h].scripts \in Seq(AScript)
  <1>1. hook.handlers \in Seq(AHandler)
    BY DEF AHook
  <1>2. \A h \in 1..Len(hook.handlers) : hook.handlers[h] \in AHandler
    BY <1>1, ElementOfSeq
  <1> QED
    BY <1>1, <1>2, LenProperties DEF AHandler

\* A hook with its scripts turned round is one.
LEMMA TurnedHook ==
  ASSUME NEW hook \in AHook
  PROVE  /\ Turned(hook) \in AHook
         /\ DOMAIN Turned(hook).handlers = DOMAIN hook.handlers
         /\ \A h \in DOMAIN hook.handlers :
               Turned(hook).handlers[h] =
                  [hook.handlers[h] EXCEPT !.scripts = Reverse(hook.handlers[h].scripts)]
  <1> DEFINE k == Len(hook.handlers)
             H == [h \in DOMAIN hook.handlers |->
                     [hook.handlers[h] EXCEPT !.scripts = Reverse(hook.handlers[h].scripts)]]
  <1>1. Turned(hook) = [hook EXCEPT !.handlers = H]
    BY DEF Turned
  <1>2. \A h \in DOMAIN hook.handlers : Reverse(hook.handlers[h].scripts) \in Seq(AScript)
    BY HandlersOf, ReverseElements
  <1>3. \A h \in DOMAIN hook.handlers :
           [hook.handlers[h] EXCEPT !.scripts = Reverse(hook.handlers[h].scripts)] \in AHandler
    BY <1>2, HandlersOf DEF AHandler
  <1>4. H \in [1..k -> AHandler] /\ k \in Nat
    BY <1>3, HandlersOf
  <1>6. /\ DOMAIN H = DOMAIN hook.handlers
        /\ \A h \in DOMAIN hook.handlers :
             H[h] = [hook.handlers[h] EXCEPT !.scripts = Reverse(hook.handlers[h].scripts)]
    OBVIOUS
  <1> HIDE DEF H
  <1>5. H \in Seq(AHandler)
    BY <1>4
  <1>7. Turned(hook) \in AHook /\ Turned(hook).handlers = H
    BY <1>1, <1>5 DEF AHook
  <1> QED
    BY <1>6, <1>7

\* What the canonical form makes of the scripts.
LEMMA CanonHook ==
  ASSUME NEW hook \in AHook
  PROVE  /\ DOMAIN canonical_hook(hook).handlers = DOMAIN hook.handlers
         /\ \A h \in DOMAIN hook.handlers :
               canonical_hook(hook).handlers[h].scripts =
                  SortedByJcs(Canon(hook.handlers[h].scripts))
  <1> DEFINE H == [h \in DOMAIN hook.handlers |->
                     [hook.handlers[h] EXCEPT
                         !.scripts = SortedByJcs(Canon(hook.handlers[h].scripts))]]
  <1>1. canonical_hook(hook) = [event |-> EventOf(hook.event), handlers |-> H,
                                blocking |-> hook.blocking, matcher |-> hook.matcher]
    BY DEF canonical_hook, canonical_handler, Canon
  <1>2. /\ DOMAIN H = DOMAIN hook.handlers
        /\ \A h \in DOMAIN hook.handlers :
              H[h].scripts = SortedByJcs(Canon(hook.handlers[h].scripts))
    BY HandlersOf DEF AHandler
  <1> HIDE DEF H
  <1>3. canonical_hook(hook).handlers = H
    BY <1>1
  <1> QED
    BY <1>2, <1>3

\* The canonical form is that of the turned hook.
LEMMA CanonTurned ==
  ASSUME NEW hook \in AHook
  PROVE  canonical_hook(Turned(hook)) = canonical_hook(hook)
  <1> DEFINE H(k) == [h \in DOMAIN k.handlers |->
                     [k.handlers[h] EXCEPT
                         !.scripts = SortedByJcs(Canon(k.handlers[h].scripts))]]
             t == Turned(hook)
  <1>1. \A k : canonical_hook(k) =
                 [event |-> EventOf(k.event), handlers |-> H(k),
                  blocking |-> k.blocking, matcher |-> k.matcher]
    BY DEF canonical_hook, canonical_handler, Canon
  <1>2. /\ DOMAIN t.handlers = DOMAIN hook.handlers
        /\ \A h \in DOMAIN hook.handlers :
               t.handlers[h] =
                  [hook.handlers[h] EXCEPT !.scripts = Reverse(hook.handlers[h].scripts)]
    BY TurnedHook
  <1>3. /\ t.event = hook.event /\ t.blocking = hook.blocking
        /\ t.matcher = hook.matcher
    BY TurnedHook DEF Turned, AHook
  <1> HIDE DEF t
  <1>4. ASSUME NEW h \in DOMAIN hook.handlers
        PROVE  [t.handlers[h] EXCEPT !.scripts = SortedByJcs(Canon(t.handlers[h].scripts))]
               = [hook.handlers[h] EXCEPT
                    !.scripts = SortedByJcs(Canon(hook.handlers[h].scripts))]
    <2>1. hook.handlers[h] \in AHandler /\ hook.handlers[h].scripts \in Seq(AScript)
      BY HandlersOf
    <2>2. t.handlers[h].scripts = Reverse(hook.handlers[h].scripts)
      BY <1>2, <2>1 DEF AHandler
    <2>3. SortedByJcs(Canon(t.handlers[h].scripts))
            = SortedByJcs(Canon(hook.handlers[h].scripts))
      BY <2>1, <2>2, CanonReversed
    <2> QED
      BY <1>2, <2>1, <2>3 DEF AHandler
  <1>5. H(t) = H(hook)
    BY <1>2, <1>4
  <1> HIDE DEF H
  <1> QED
    BY <1>1, <1>3, <1>5 DEF t

\* The scripts of a hook, and the paths that it refers to.
LEMMA ScriptsIn ==
  ASSUME NEW hook \in AHook
  PROVE  /\ ScriptsOf(hook) \in Seq(AScript)
         /\ ToSet(ScriptsOf(hook)) =
              UNION {ToSet(hook.handlers[h].scripts) :
                        h \in {g \in DOMAIN hook.handlers :
                                  hook.handlers[g].type # "not a map"}}
  <1> DEFINE k == Len(hook.handlers)
             seqs == [h \in DOMAIN hook.handlers |->
                        IF hook.handlers[h].type = "not a map" THEN <<>>
                        ELSE hook.handlers[h].scripts]
  <1>1. DOMAIN hook.handlers = 1..k /\ k \in Nat
    BY HandlersOf
  <1>2. <<>> \in Seq(AScript) /\ ToSet(<<>>) = {}
    BY DEF ToSet
  <1>3. /\ seqs \in [1..k -> Seq(AScript)]
        /\ \A h \in 1..k : ToSet(seqs[h]) =
              IF hook.handlers[h].type = "not a map" THEN {}
              ELSE ToSet(hook.handlers[h].scripts)
    BY <1>1, <1>2, HandlersOf
  <1>4. ScriptsOf(hook) = FlattenSeq(seqs)
    BY DEF ScriptsOf
  <1> HIDE DEF seqs, k
  <1>5. /\ FlattenSeq(seqs) \in Seq(AScript)
        /\ ToSet(FlattenSeq(seqs)) = UNION {ToSet(seqs[h]) : h \in 1..k}
    BY <1>1, <1>3, FlattenElements
  <1>6. UNION {ToSet(seqs[h]) : h \in 1..k} =
              UNION {ToSet(hook.handlers[h].scripts) :
                        h \in {g \in DOMAIN hook.handlers :
                                  hook.handlers[g].type # "not a map"}}
    BY <1>1, <1>3
  <1> QED
    BY <1>4, <1>5, <1>6

\* The paths a hook refers to ...
LEMMA PathsIn ==
  ASSUME NEW hook \in AHook
  PROVE  /\ RefPaths(hook) \in Seq(Seq(STRING))
         /\ ToSet(RefPaths(hook)) =
               {s.path : s \in {x \in ToSet(ScriptsOf(hook)) : x.type = "file" /\ x.path # NoPath}}
  <1> DEFINE scripts == ScriptsOf(hook)
             paths == [i \in DOMAIN scripts |-> scripts[i].path]
             P == {i \in DOMAIN scripts : scripts[i].type = "file" /\ scripts[i].path # NoPath}
  <1>1. RefPaths(hook) = ElementsAt(paths, P)
    BY DEF RefPaths
  <1>2. scripts \in Seq(AScript)
    BY ScriptsIn
  <1> HIDE DEF scripts
  <1>3. DOMAIN scripts = 1..Len(scripts) /\ Len(scripts) \in Nat
        /\ \A i \in DOMAIN scripts : scripts[i] \in AScript
    BY <1>2, LenProperties, ElementOfSeq
  <1>4. paths \in [1..Len(scripts) -> Seq(STRING)]
    BY <1>3 DEF AScript
  <1>5. paths \in Seq(Seq(STRING)) /\ DOMAIN paths = DOMAIN scripts
        /\ \A i \in DOMAIN scripts : paths[i] = scripts[i].path
    BY <1>3, <1>4
  <1>6. P \in SUBSET DOMAIN paths
    BY <1>5
  <1> HIDE DEF paths
  <1>7. /\ RefPaths(hook) \in Seq(Seq(STRING))
        /\ ToSet(RefPaths(hook)) = {paths[i] : i \in P}
    <2> HIDE DEF P
    <2> QED
      BY <1>1, <1>5, <1>6, ElementsAtPlaces
  <1>8. {paths[i] : i \in P}
          = {s.path : s \in {x \in ToSet(scripts) : x.type = "file" /\ x.path # NoPath}}
    BY <1>5 DEF ToSet
  <1> QED
    BY <1>7, <1>8 DEF scripts

\* ... are those of the turned one.
LEMMA PathsTurned ==
  ASSUME NEW hook \in AHook
  PROVE  ToSet(RefPaths(Turned(hook))) = ToSet(RefPaths(hook))
  <1> DEFINE t == Turned(hook)
  <1>1. /\ t \in AHook /\ DOMAIN t.handlers = DOMAIN hook.handlers
        /\ \A h \in DOMAIN hook.handlers :
               t.handlers[h] =
                  [hook.handlers[h] EXCEPT !.scripts = Reverse(hook.handlers[h].scripts)]
    BY TurnedHook
  <1> HIDE DEF t
  <1>2. ASSUME NEW h \in DOMAIN hook.handlers
        PROVE  /\ t.handlers[h].type = hook.handlers[h].type
               /\ ToSet(t.handlers[h].scripts) = ToSet(hook.handlers[h].scripts)
    <2>1. hook.handlers[h] \in AHandler /\ hook.handlers[h].scripts \in Seq(AScript)
      BY HandlersOf
    <2>2. /\ t.handlers[h].type = hook.handlers[h].type
          /\ t.handlers[h].scripts = Reverse(hook.handlers[h].scripts)
      BY <1>1, <2>1 DEF AHandler
    <2> QED
      BY <2>1, <2>2, ReverseElements
  <1>3. {g \in DOMAIN t.handlers : t.handlers[g].type # "not a map"}
           = {g \in DOMAIN hook.handlers : hook.handlers[g].type # "not a map"}
    BY <1>1, <1>2
  <1>4. ToSet(ScriptsOf(t)) = ToSet(ScriptsOf(hook))
    <2> DEFINE M == {g \in DOMAIN hook.handlers : hook.handlers[g].type # "not a map"}
    <2>1. ToSet(ScriptsOf(t)) = UNION {ToSet(t.handlers[h].scripts) : h \in M}
      BY <1>1, <1>3, ScriptsIn
    <2>2. ToSet(ScriptsOf(hook)) = UNION {ToSet(hook.handlers[h].scripts) : h \in M}
      BY ScriptsIn
    <2>3. \A h \in M : ToSet(t.handlers[h].scripts) = ToSet(hook.handlers[h].scripts)
      BY <1>2
    <2> HIDE DEF M
    <2> QED
      BY <2>1, <2>2, <2>3
  <1> QED
    BY <1>1, <1>4, PathsIn DEF t

\* What is kept of scripts, in some order, is the canonical form of each.
LEMMA SelectKept ==
  ASSUME NEW scripts \in Seq(AScript), NEW target
  PROVE  LET kept == SortedByJcs(Canon(scripts))
             own  == {s \in DOMAIN scripts : target \in Tags(scripts[s])}
             rest == {s \in DOMAIN scripts : scripts[s].os.kind = "none"}
             selected == _select_script(kept, target)
         IN  /\ own # {} => \E s \in own : selected = canonicalize_script(scripts[s])
             /\ (own = {} /\ rest # {}) =>
                   \E s \in rest : selected = canonicalize_script(scripts[s])
             /\ (own = {} /\ rest = {}) => selected = NoScript
  <1> DEFINE n == Len(scripts)
             c == Canon(scripts)
             kept == SortedByJcs(c)
             own  == {s \in DOMAIN scripts : target \in Tags(scripts[s])}
             rest == {s \in DOMAIN scripts : scripts[s].os.kind = "none"}
             Own  == {s \in DOMAIN kept : target \in Tags(kept[s])}
             Rest == {s \in DOMAIN kept : kept[s].os.kind = "none"}
             selected == _select_script(kept, target)
  <1>1. /\ n \in Nat /\ DOMAIN scripts = 1..n
        /\ \A i \in 1..n : scripts[i] \in AScript
    BY LenProperties, ElementOfSeq
  <1> HIDE DEF n
  <1>2. DOMAIN c = 1..n /\ \A i \in 1..n : c[i] = canonicalize_script(scripts[i])
    BY <1>1 DEF Canon
  <1> HIDE DEF c
  <1>3. PICK p \in [1..n -> 1..n] :
            /\ \A i \in 1..n : \E j \in 1..n : p[j] = i
            /\ DOMAIN kept = 1..n /\ \A i \in 1..n : kept[i] = c[p[i]]
    <2>1. n \in Nat /\ DOMAIN c = 1..n
      BY <1>1, <1>2
    <2> HIDE DEF own, rest, Own, Rest, selected, kept
    <2>2. Rearranged(n, c, SortedByJcs(c))
      BY <2>1, SortedElements
    <2>3. Rearranged(n, c, kept)
      BY <2>2 DEF kept
    <2> QED
      BY <2>3 DEF Rearranged
  <1>4. selected = IF Own # {} THEN kept[Min(Own)]
                   ELSE IF Rest # {} THEN kept[Min(Rest)] ELSE NoScript
    BY DEF _select_script
  <1>5. DOMAIN kept = 1..n /\ \A i \in 1..n : kept[i] = canonicalize_script(scripts[p[i]])
    BY <1>2, <1>3
  <1> HIDE DEF kept
  <1>6. \A i \in 1..n : /\ kept[i].os = scripts[p[i]].os
                        /\ Tags(kept[i]) = Tags(scripts[p[i]])
    <2>1. \A i \in 1..n : p[i] \in 1..n
      BY <1>3
    <2> QED
      BY <1>1, <1>5, <2>1, CanonKeeps
  <1>7. /\ Own = {i \in 1..n : p[i] \in own} /\ Rest = {i \in 1..n : p[i] \in rest}
    <2>1. \A i \in 1..n : p[i] \in 1..n
      BY <1>3
    <2> QED
      BY <1>1, <1>5, <1>6, <2>1
  <1>8. own \subseteq 1..n /\ rest \subseteq 1..n
    BY <1>1
  <1> HIDE DEF own, rest, Own, Rest, selected
  <1>9. (Own = {} <=> own = {}) /\ (Rest = {} <=> rest = {})
    BY <1>3, <1>7, <1>8
  <1>10. /\ Own # {} => Min(Own) \in Own
         /\ Rest # {} => Min(Rest) \in Rest
    <2>1. Own \in SUBSET Nat /\ Rest \in SUBSET Nat
      BY <1>7
    <2> QED
      BY <2>1, Least
  <1>11. own # {} => \E s \in own : selected = canonicalize_script(scripts[s])
    <2> SUFFICES ASSUME own # {} PROVE \E s \in own : selected = canonicalize_script(scripts[s])
      OBVIOUS
    <2>1. Min(Own) \in Own /\ selected = kept[Min(Own)]
      BY <1>4, <1>9, <1>10
    <2> QED
      BY <1>5, <1>7, <2>1
  <1>12. (own = {} /\ rest # {}) => \E s \in rest : selected = canonicalize_script(scripts[s])
    <2> SUFFICES ASSUME own = {}, rest # {}
                 PROVE  \E s \in rest : selected = canonicalize_script(scripts[s])
      OBVIOUS
    <2>1. Min(Rest) \in Rest /\ selected = kept[Min(Rest)]
      BY <1>4, <1>9, <1>10
    <2> QED
      BY <1>5, <1>7, <2>1
  <1>13. (own = {} /\ rest = {}) => selected = NoScript
    BY <1>4, <1>9
  <1> QED
    BY <1>11, <1>12, <1>13 DEF own, rest, selected, kept, c

\* Where one script was meant, it is the one that is selected.
LEMMA OneCandidate ==
  ASSUME NEW scripts \in Seq(AScript), NEW os, NEW s \in Candidates(scripts, os),
         Candidates(scripts, os) = {s}
  PROVE  _select_script(SortedByJcs(Canon(scripts)), os) = canonicalize_script(scripts[s])
  <1> DEFINE own  == {x \in DOMAIN scripts : os \in Tags(scripts[x])}
             rest == {x \in DOMAIN scripts : scripts[x].os.kind = "none"}
             selected == _select_script(SortedByJcs(Canon(scripts)), os)
  <1>1. Candidates(scripts, os) = IF own # {} THEN own ELSE rest
    BY DEF Candidates
  <1>2. /\ own # {} => \E x \in own : selected = canonicalize_script(scripts[x])
        /\ (own = {} /\ rest # {}) =>
              \E x \in rest : selected = canonicalize_script(scripts[x])
    BY SelectKept
  <1> HIDE DEF own, rest, selected
  <1> QED
    BY <1>1, <1>2 DEF selected

\* Of a map of paths, each system has the script of its path, or the base entry.
LEMMA MapIsKept ==
  ASSUME NEW source \in PathMap
  PROVE  MapKept(source, SortedByJcs(Canon(Default(source) \o Merged(source))))
  <1> DEFINE scripts == Default(source) \o Merged(source)
             E == {source.path[x] : x \in ToSet(Systems)} \ {NoPath}
             Made(path) == Owned(source, path)
             base == DefaultScript(source)
             kept == SortedByJcs(Canon(scripts))
  <1>1. /\ scripts \in Seq(AScript)
        /\ \A script : script \in ToSet(scripts) <=>
              \/ source.command # NoPath /\ script = base
              \/ \E path \in E : script = Made(path)
    BY MapScripts
  <1>2. ASSUME NEW os
        PROVE  LET own  == {s \in DOMAIN scripts : os \in Tags(scripts[s])}
                   rest == {s \in DOMAIN scripts : scripts[s].os.kind = "none"}
                   selected == _select_script(kept, os)
               IN  /\ own # {} => \E s \in own : selected = canonicalize_script(scripts[s])
                   /\ (own = {} /\ rest # {}) =>
                         \E s \in rest : selected = canonicalize_script(scripts[s])
                   /\ (own = {} /\ rest = {}) => selected = NoScript
    BY <1>1, SelectKept
  <1> HIDE DEF scripts, kept
  <1>3. ToSet(scripts) = {scripts[s] : s \in DOMAIN scripts}
        /\ \A s \in DOMAIN scripts : scripts[s] \in AScript
    BY <1>1, LenProperties, ElementOfSeq DEF ToSet
  <1>4. \A path : /\ Made(path).type = "file" /\ Made(path).path = path
                  /\ Made(path).os.kind = "list"
                  /\ Tags(Made(path)) = {x \in ToSet(Systems) : source.path[x] = path}
    <2> TAKE path
    <2>1. /\ Made(path).type = "file" /\ Made(path).path = path
          /\ Made(path).os = OsList(OsOf(source, path))
      BY DEF Owned, FileScript
    <2>2. ToSet(OsOf(source, path)) = {x \in ToSet(Systems) : source.path[x] = path}
      BY MapOs
    <2> HIDE DEF Made
    <2>3. Made(path).os.kind = "list" /\ Made(path).os.tags = OsOf(source, path)
      BY <2>1 DEF OsList
    <2> QED
      BY <2>1, <2>2, <2>3 DEF Tags
  <1> HIDE DEF Made, base
  <1>5. \A s \in DOMAIN scripts :
           \/ source.command # NoPath /\ scripts[s] = base
           \/ \E path \in E : scripts[s] = Made(path)
    BY <1>1, <1>3
  <1>6. source.command # NoPath => \E s \in DOMAIN scripts : scripts[s] = base
    BY <1>1, <1>3
  <1>7. \A path \in E : \E s \in DOMAIN scripts : scripts[s] = Made(path)
    BY <1>1, <1>3
  <1>8. ASSUME NEW os \in ToSet(Systems)
        PROVE  LET own   == source.path[os]
                   Named == source.command # NoPath /\ os \in Tags(base)
                   Open  == source.command # NoPath /\ base.os.kind = "none"
                   selected == _select_script(kept, os)
               IN  /\ (own # NoPath /\ ~Named) =>
                         selected.type = "file" /\ selected.path = own
                   /\ own = NoPath =>
                         selected = IF Named \/ Open THEN canonicalize_script(base)
                                    ELSE NoScript
    <2> DEFINE path == source.path[os]
               Named == source.command # NoPath /\ os \in Tags(base)
               Open  == source.command # NoPath /\ base.os.kind = "none"
               selected == _select_script(kept, os)
               own  == {s \in DOMAIN scripts : os \in Tags(scripts[s])}
               rest == {s \in DOMAIN scripts : scripts[s].os.kind = "none"}
    <2>1. /\ own # {} => \E s \in own : selected = canonicalize_script(scripts[s])
          /\ (own = {} /\ rest # {}) =>
                \E s \in rest : selected = canonicalize_script(scripts[s])
          /\ (own = {} /\ rest = {}) => selected = NoScript
      BY <1>2
    <2>2. path # NoPath => path \in E
      OBVIOUS
    <2>3. \A p \in E : os \in Tags(Made(p)) <=> p = path
      BY <1>4
    <2>4. \A p \in E : p # NoPath
      OBVIOUS
    <2>5. \A s \in own : (Named /\ scripts[s] = base) \/ (path # NoPath /\ scripts[s] = Made(path))
      <3> SUFFICES ASSUME NEW s \in DOMAIN scripts, os \in Tags(scripts[s])
                   PROVE  \/ Named /\ scripts[s] = base
                          \/ path # NoPath /\ scripts[s] = Made(path)
        OBVIOUS
      <3> HIDE DEF path, E
      <3> QED
        BY <1>5, <2>3, <2>4
    <2>6. \A s \in rest : Open /\ scripts[s] = base
      <3> SUFFICES ASSUME NEW s \in DOMAIN scripts, scripts[s].os.kind = "none"
                   PROVE  Open /\ scripts[s] = base
        OBVIOUS
      <3> HIDE DEF path, E
      <3> QED
        BY <1>4, <1>5
    <2>7. /\ path # NoPath => own # {}
          /\ Named => own # {}
          /\ Open => rest # {}
      <3> HIDE DEF path, E
      <3> QED
        BY <1>6, <1>7, <2>2, <2>3
    <2>8. \A s \in own \cup rest : s \in DOMAIN scripts
      OBVIOUS
    <2> HIDE DEF own, rest, selected, path, Named, Open, E
    <2>9. (path # NoPath /\ ~Named) => selected.type = "file" /\ selected.path = path
      <3> SUFFICES ASSUME path # NoPath, ~Named
                   PROVE  selected.type = "file" /\ selected.path = path
        OBVIOUS
      <3>1. PICK s \in own : selected = canonicalize_script(scripts[s])
        BY <2>1, <2>7
      <3>2. scripts[s] = Made(path) /\ scripts[s] \in AScript
        BY <1>3, <2>5, <2>8
      <3> QED
        BY <1>4, <3>1, <3>2, CanonKeeps
    <2>10. ASSUME path = NoPath
           PROVE  selected = IF Named \/ Open THEN canonicalize_script(base) ELSE NoScript
      <3>1. CASE own # {}
        BY <2>1, <2>5, <2>10, <3>1
      <3>2. CASE own = {} /\ rest # {}
        BY <2>1, <2>6, <3>2
      <3>3. CASE own = {} /\ rest = {}
        BY <2>1, <2>7, <3>3
      <3> QED
        BY <3>1, <3>2, <3>3
    <2> QED
      BY <2>9, <2>10 DEF path, Named, Open, selected
  <1> QED
    BY <1>8 DEF MapKept, base, kept, scripts

\* The manifest of the files that a hook refers to, where no two collide.
LEMMA LinesTurned ==
  ASSUME NEW hook \in AHook, NEW root, ~Collides(hook)
  PROVE  sidecar_only_body_hash(Turned(hook), root) = sidecar_only_body_hash(hook, root)
  <1> DEFINE P == Seq(STRING)
             Digests(ps) == [rel \in ToSet(ps) |-> file_hash(Last(rel), root.files[rel])]
             f == referenced_files(hook, root)
             g == referenced_files(Turned(hook), root)
  <1>1. Turned(hook) \in AHook
    BY TurnedHook
  <1>2. /\ f \in Seq(P) /\ g \in Seq(P) /\ ToSet(g) = ToSet(f)
        /\ \A p, q \in ToSet(f) : NFC(p) = NFC(q) => p = q
    <2>1. CASE root.named
      <3>1. f = Distinct(RefPaths(hook)) /\ g = Distinct(RefPaths(Turned(hook)))
        BY <2>1 DEF referenced_files
      <3>2. RefPaths(hook) \in Seq(P) /\ RefPaths(Turned(hook)) \in Seq(P)
        BY <1>1, PathsIn
      <3>3. /\ f \in Seq(P) /\ g \in Seq(P)
            /\ ToSet(f) = ToSet(RefPaths(hook)) /\ ToSet(g) = ToSet(RefPaths(hook))
        BY <3>1, <3>2, DistinctElements, PathsTurned
      <3> QED
        BY <3>3 DEF Collides
    <2>2. CASE ~root.named
      <3>1. f = <<>> /\ g = <<>>
        BY <2>2 DEF referenced_files
      <3>2. <<>> \in Seq(P) /\ ToSet(<<>>) = {}
        BY DEF ToSet
      <3> QED
        BY <3>1, <3>2
    <2> QED
      BY <2>1, <2>2
  <1> HIDE DEF f, g, P
  <1> DEFINE d == Digests(f)
  <1>3. Digests(g) = d /\ DOMAIN d = ToSet(f)
    BY <1>2
  <1> HIDE DEF d, Digests
  <1>4. ASSUME NEW rel \in DOMAIN d
        PROVE  Lines(f, d)[NFC(rel)] = <<d[rel]>> /\ Lines(g, d)[NFC(rel)] = <<d[rel]>>
    <2>1. \A q \in DOMAIN d : NFC(q) = NFC(rel) => q = rel
      BY <1>2, <1>3
    <2> QED
      BY <1>2, <2>1, AloneOnItsLine
  <1> DEFINE N == {NFC(rel) : rel \in DOMAIN d}
  <1>5. /\ Lines(f, d) = [n \in N |-> Lines(f, d)[n]]
        /\ Lines(g, d) = [n \in N |-> Lines(g, d)[n]]
    BY DEF Lines
  <1>6. \A n \in N : Lines(f, d)[n] = Lines(g, d)[n]
    BY <1>4
  <1> HIDE DEF N
  <1>7. Lines(g, d) = Lines(f, d)
    BY <1>5, <1>6
  <1>8. /\ sidecar_only_body_hash(hook, root) = <<Lines(f, Digests(f)), canonical_hook(hook)>>
        /\ sidecar_only_body_hash(Turned(hook), root) =
              <<Lines(g, Digests(g)), canonical_hook(Turned(hook))>>
    BY DEF sidecar_only_body_hash, f, g, Digests
  <1> QED
    BY <1>3, <1>7, <1>8, CanonTurned DEF d

\* What an ingestion is refused with, of which "ok" is none.
HookErrors ==
    {"none", "unsupported", "acif.hook.event_unrecognized", "acif.hook.handlers_missing",
     "acif.body.path_not_utf8", "acif.body.path_control_char",
     "acif.hook.handler_type_unrecognized", "acif.hook.script_path_invalid",
     "acif.hook.script_file_missing"}

\* It is refused with one of these.
LEMMA Refusals ==
  ASSUME NEW hook \in AHook, NEW root
  PROVE  HookError(hook, root) \in HookErrors
  <1> DEFINE E == HookErrors
             Judged(h) == <<HandlerError(hook.handlers[h])>>
                           \o [s \in DOMAIN hook.handlers[h].scripts |->
                                 ScriptError(hook.handlers[h].scripts[s], root)]
             parts == [h \in DOMAIN hook.handlers |-> Judged(h)]
             first == <<IF EventOf(hook.event) = "none"
                        THEN "acif.hook.event_unrecognized" ELSE "none",
                        IF hook.handlers = <<>> THEN "acif.hook.handlers_missing" ELSE "none",
                        check_raw_paths(ToSet(RefPaths(hook)))>>
             checks == Checks(hook, root)
             failed == {i \in DOMAIN checks : checks[i] # "none"}
  <1>1. checks = first \o FlattenSeq(parts)
    BY DEF Checks
  <1>2. /\ \A handler : HandlerError(handler) \in E
        /\ \A script : ScriptError(script, root) \in E
        /\ \A paths : check_raw_paths(paths) \in E
        /\ "none" \in E /\ "acif.hook.event_unrecognized" \in E
        /\ "acif.hook.handlers_missing" \in E
    BY DEF HookErrors, HandlerError, ScriptError, check_raw_paths
  <1> HIDE DEF E
  <1>3. first \in Seq(E)
    BY <1>2
  <1>4. ASSUME NEW h \in DOMAIN hook.handlers PROVE Judged(h) \in Seq(E)
    <2>1. hook.handlers[h].scripts \in Seq(AScript)
      BY HandlersOf
    <2>2. /\ DOMAIN hook.handlers[h].scripts = 1..Len(hook.handlers[h].scripts)
          /\ Len(hook.handlers[h].scripts) \in Nat
      BY <2>1, LenProperties
    <2>3. [s \in DOMAIN hook.handlers[h].scripts |->
             ScriptError(hook.handlers[h].scripts[s], root)] \in Seq(E)
      BY <1>2, <2>2
    <2>4. <<HandlerError(hook.handlers[h])>> \in Seq(E)
      BY <1>2
    <2> QED
      BY <2>3, <2>4
  <1> HIDE DEF Judged, first, checks
  <1>5. FlattenSeq(parts) \in Seq(E)
    <2>1. parts \in [1..Len(hook.handlers) -> Seq(E)] /\ Len(hook.handlers) \in Nat
      BY <1>4, HandlersOf
    <2> HIDE DEF parts
    <2> QED
      BY <2>1, FlattenElements
  <1> HIDE DEF parts
  <1>6. checks \in Seq(E)
    BY <1>1, <1>3, <1>5
  <1>7. failed \in SUBSET Nat /\ \A i \in DOMAIN checks : checks[i] \in E
    BY <1>6, LenProperties, ElementOfSeq
  <1>8. failed # {} => Min(failed) \in failed
    BY <1>7, Least
  <1>9. HookError(hook, root) = IF failed = {} THEN "none" ELSE checks[Min(failed)]
    BY DEF HookError, checks
  <1> QED
    BY <1>2, <1>7, <1>8, <1>9 DEF E

\* All parts of ScriptsKept, of what is answered.
LEMMA HookAnswer ==
  ASSUME inp \in HookSources,
         reply.result = [canonical |-> canonical_hook(_hook_source(inp)),
                         body_hash |-> sidecar_only_body_hash(_hook_source(inp), inp.root)]
  PROVE  ScriptsKept
  <1> DEFINE hook == _hook_source(inp)
             kept == reply.result.canonical.handlers
  <1>1. hook \in AHook
    BY SourceIsHook
  <1>2. /\ reply.result.canonical = canonical_hook(hook)
        /\ reply.result.body_hash = sidecar_only_body_hash(hook, inp.root)
    OBVIOUS
  <1>3. canonical_hook(Turned(hook)) = reply.result.canonical
    <2> HIDE DEF hook
    <2> QED
      BY <1>1, <1>2, CanonTurned
  <1>4. ~Collides(hook) =>
           sidecar_only_body_hash(Turned(hook), inp.root) = reply.result.body_hash
    <2> HIDE DEF hook
    <2> QED
      BY <1>1, <1>2, LinesTurned
  <1>5. /\ DOMAIN kept = DOMAIN hook.handlers
        /\ \A h \in DOMAIN hook.handlers :
              kept[h].scripts = SortedByJcs(Canon(hook.handlers[h].scripts))
    <2> HIDE DEF hook
    <2> QED
      BY <1>1, <1>2, CanonHook
  <1>6. ASSUME NEW h \in DOMAIN kept, NEW os,
               NEW s \in Candidates(hook.handlers[h].scripts, os),
               Candidates(hook.handlers[h].scripts, os) = {s}
        PROVE  _select_script(kept[h].scripts, os)
                  = canonicalize_script(hook.handlers[h].scripts[s])
    <2> HIDE DEF hook, kept
    <2>1. hook.handlers[h].scripts \in Seq(AScript)
      BY <1>1, <1>5, HandlersOf
    <2>2. kept[h].scripts = SortedByJcs(Canon(hook.handlers[h].scripts))
      BY <1>5
    <2> QED
      BY <1>6, <2>1, <2>2, OneCandidate
  <1>7. ASSUME inp.map
        PROVE  MapKept(inp.source, kept[1].scripts)
    <2>1. inp.source \in PathMap
      BY <1>7, InputsAssumption
    <2> DEFINE scripts == Default(inp.source) \o Merged(inp.source)
    <2>2. hook = [event |-> "before_tool_execute", blocking |-> FALSE, matcher |-> "none",
                  more |-> "none",
                  handlers |-> <<[type |-> "command", async |-> FALSE,
                                  scripts |-> scripts]>>]
      BY <1>7, <2>1, MapScripts DEF _hook_source
    <2>3. DOMAIN hook.handlers = {1} /\ hook.handlers[1].scripts = scripts
      <3> HIDE DEF hook, scripts
      <3> QED
        BY <2>2
    <2> HIDE DEF hook, kept, scripts
    <2>4. kept[1].scripts = SortedByJcs(Canon(scripts))
      BY <1>5, <2>3
    <2> QED
      BY <2>1, <2>4, MapIsKept DEF scripts
  <1> HIDE DEF hook, kept
  <1>8. /\ \A h \in DOMAIN kept, os \in ToSet(Systems) :
              \A s \in Candidates(hook.handlers[h].scripts, os) :
                 Candidates(hook.handlers[h].scripts, os) = {s} =>
                    _select_script(kept[h].scripts, os) =
                        canonicalize_script(hook.handlers[h].scripts[s])
        /\ inp.map => MapKept(inp.source, kept[1].scripts)
    BY <1>6, <1>7
  <1> QED
    BY <1>3, <1>4, <1>8 DEF ScriptsKept, hook, kept

-----------------------------------------------------------------------------
(* The names of events. *)

\* A name that is not pinned is read as the one event it belongs to.
LEMMA OneEvent ==
  ASSUME NEW native \in Natives \ DOMAIN PinnedEvents, NEW event \in CANONICAL_EVENTS,
         NamesEvent(native, event)
  PROVE  EVENT_MAP(native) = event
  <1> DEFINE P == {i \in DOMAIN SortedEvents : NamesEvent(native, SortedEvents[i])}
  <1>1. /\ \A a, b \in CANONICAL_EVENTS : NamesEvent(native, a) /\ NamesEvent(native, b) => a = b
        /\ SortedEvents \in Seq(CANONICAL_EVENTS) /\ event \in ToSet(SortedEvents)
    BY EventsAssumption
  <1>2. /\ DOMAIN SortedEvents \subseteq Nat
        /\ \A i \in DOMAIN SortedEvents : SortedEvents[i] \in CANONICAL_EVENTS
    BY <1>1, LenProperties, ElementOfSeq
  <1>3. PICK i \in DOMAIN SortedEvents : SortedEvents[i] = event
    BY <1>1 DEF ToSet
  <1>4. Min(P) \in P
    <2>1. P \in SUBSET Nat /\ i \in P
      BY <1>2, <1>3
    <2> QED
      BY <2>1, Least
  <1>5. SortedEvents[Min(P)] = event
    BY <1>1, <1>2, <1>4
  <1> QED
    BY <1>5 DEF EVENT_MAP

\* The event of a name that one of A.1 has, and of one that is an event itself.
LEMMA EventBack ==
  ASSUME NEW event \in CANONICAL_EVENTS, NEW native, NamesEvent(native, event)
  PROVE  /\ native \in DOMAIN PinnedEvents => EventOf(native) = PinnedEvents[native]
         /\ native \notin DOMAIN PinnedEvents => EventOf(native) = event
         /\ EventOf(event) = event
  <1>1. native \in Natives
    BY DEF Natives, NamesEvent
  <1>2. EventOf(native) = EVENT_MAP(native)
    BY <1>1 DEF EventOf
  <1>3. native \in DOMAIN PinnedEvents => EventOf(native) = PinnedEvents[native]
    BY <1>2 DEF EVENT_MAP
  <1>4. native \notin DOMAIN PinnedEvents => EventOf(native) = event
    BY <1>1, <1>2, OneEvent
  <1>5. EventOf(event) = event
    <2>1. CASE event \in Natives
      <3>1. event \notin DOMAIN PinnedEvents /\ NamesEvent(event, event)
        BY <2>1, EventsAssumption
      <3> QED
        BY <2>1, <3>1, OneEvent DEF EventOf
    <2>2. CASE event \notin Natives
      BY <2>2 DEF EventOf
    <2> QED
      BY <2>1, <2>2
  <1> QED
    BY <1>3, <1>4, <1>5

\* What an event is rendered by, without a diagnostic, is a name that A.1 has for it.
LEMMA RenderedName ==
  ASSUME NEW event, NEW target \in HOOK_PROVIDERS, NEW dialect,
         ~render_hook_event(event, target, dialect).degraded
  PROVE  /\ event \in CANONICAL_EVENTS
         /\ NamesEvent(render_hook_event(event, target, dialect).name, event)
  <1> DEFINE names == NativesAt(event, target)
             answer == render_hook_event(event, target, dialect)
             pin == <<event, target, dialect>>
             only == CHOOSE pair \in names : TRUE
  <1>1. CASE pin \in DOMAIN HOOK_RENDER_PINS
    <2>1. answer = HOOK_RENDER_PINS[pin] /\ pin[1] = event
      BY <1>1 DEF render_hook_event
    <2> HIDE DEF answer, pin
    <2> QED
      BY <1>1, <2>1, EventsAssumption DEF answer
  <1>2. CASE pin \notin DOMAIN HOOK_RENDER_PINS
    <2>1. /\ answer = IF Cardinality(names) = 1 /\ target \notin DOMAIN HOOK_DIALECTS
                      THEN [name |-> only[2], degraded |-> FALSE]
                      ELSE [name |-> event, degraded |-> TRUE]
      BY <1>2 DEF render_hook_event
    <2>2. Cardinality(names) = 1 /\ answer.name = only[2]
      <3> HIDE DEF names, only
      <3> QED
        BY <2>1
    <2>3. names # {}
      BY <2>2, FS_EmptySet
    <2>4. only \in names
      BY <2>3
    <2> HIDE DEF only, answer
    <2>5. event \in CANONICAL_EVENTS /\ only \in HOOK_NATIVES[event]
      BY <2>4 DEF NativesAt
    <2> QED
      BY <2>2, <2>5 DEF NamesEvent, answer
  <1> QED
    BY <1>1, <1>2

-----------------------------------------------------------------------------
(* Theorems. *)

\* The adapter ingests each body as BodyIngest has it.
THEOREM Ingests == Spec => BodySpec
  <1>1. Init => BodyInit
    BY DEF Init
  <1> QED
    BY <1>1, StepBody, PTL DEF Spec, BodySpec

\* And it follows each chain of redirects as FetchRedirects has it.
THEOREM Follows == Spec => FetchSpec
  <1>1. Init => FetchInit
    BY DEF Init
  <1> QED
    BY <1>1, StepFetch, PTL DEF Spec, FetchSpec

\* The type invariant.
THEOREM AdapterTypeCorrect == Spec => []AdapterTypeOK
  <1>1. IInv /\ FetchTypeOK => AdapterTypeOK
    BY DEF IInv, Served, AdapterTypeOK, BodyInv
  <1> QED
    BY InitInv, StepInv, Follows, FetchTypeCorrect, <1>1, PTL DEF Spec

\* What a body is rejected with depends on the body alone.
THEOREM AdapterRejects == Spec => []BodyVerdict
  BY Ingests, RejectPrecedence, PTL

\* Nor do they touch what is hashed of a body ...
THEOREM AdapterHashes == Spec => []HashExact
  BY Ingests, HashIsExact, PTL

\* ... and where what its entry file says is covered.
THEOREM AdapterCovers == Spec => []SingleCoverage
  BY Ingests, CoveredOnce, PTL

\* What is recorded of a URL depends on the leading permanent redirects.
THEOREM AdapterRecords == Spec => []RecordRule
  BY Follows, RecordRuleHolds, PTL

\* What a chain of redirects is refused for depends on the chain alone.
THEOREM AdapterRefuses == Spec => []VerdictExact
  BY Follows, VerdictIsExact, PTL

\* Each scope has one row that is written, its first current one.
THEOREM WritesOnce == Spec => []OneWriteTarget
  <1>1. IInv => OneWriteTarget
    <2> SUFFICES ASSUME IInv, Answered("resolve_install_targets") PROVE OneWriteTarget
      BY DEF OneWriteTarget
    <2>1. /\ inp \in Resolves
          /\ reply = Reply(TargetsError(inp),
                           IF TargetsError(inp) # "none" THEN Nobody
                           ELSE resolve_install_targets(inp))
      BY SMTT(20) DEF IInv, Answers, Answered
    <2>2. TargetsError(inp) # "ok"
      BY DEF TargetsError, RowError
    <2>3. reply.result = resolve_install_targets(inp)
      <3> DEFINE raised == TargetsError(inp)
                 result == IF raised # "none" THEN Nobody ELSE resolve_install_targets(inp)
      <3>1. raised = "none" /\ reply.result = result
        <4>1. reply = Reply(raised, result) /\ raised # "ok"
          BY <2>1, <2>2
        <4> HIDE DEF raised, result
        <4> QED
          BY <4>1, Replies DEF Answered
      <3> QED
        BY <3>1
    <2> QED
      BY <2>1, <2>3, WriteTarget
  <1> QED
    BY InitInv, StepInv, <1>1, PTL DEF Spec

\* No gate is installed where it never fires, and every gap is disclosed.
THEOREM InstallsDisclosed == Spec => []DisclosedInstall
  <1>1. IInv => DisclosedInstall
    <2> SUFFICES ASSUME IInv, Answered("evaluate_install"), ~inp.unresolved
                 PROVE  DisclosedInstall
      BY DEF DisclosedInstall
    <2>1. /\ inp \in Installs
          /\ reply = Reply(InstallError(inp),
                           IF InstallError(inp) # "none" THEN Nobody ELSE evaluate_install(inp))
      BY DEF IInv, Answers, Answered
    <2>2. InstallError(inp) \in {"none", "unsupported"}
      BY DEF InstallError
    <2>3. InstallError(inp) = "none" /\ reply.result = evaluate_install(inp)
      BY <2>1, <2>2, Replies DEF Answered
    <2> QED
      BY <2>1, <2>3, Judgement, SMTT(20)
  <1> QED
    BY InitInv, StepInv, <1>1, PTL DEF Spec

\* What is ingested of a hook does not depend on the order of its scripts, and no
\* handler runs another script on a system than the one that was meant.
THEOREM ScriptsAreKept == Spec => []ScriptsKept
  <1>1. IInv => ScriptsKept
    <2> SUFFICES ASSUME IInv, Answered("ingest hook") PROVE ScriptsKept
      BY DEF ScriptsKept
    <2> DEFINE raised == HookError(_hook_source(inp), inp.root)
    <2>1. inp \in HookSources /\ reply = Reply(raised, HookResult(inp))
      BY DEF IInv, Answers, Answered
    <2>2. raised # "ok"
      <3>1. raised \in HookErrors
        BY <2>1, SourceIsHook, Refusals
      <3> QED
        BY <3>1 DEF HookErrors
    <2>3. raised = "none" /\ reply.result = HookResult(inp)
      <3> HIDE DEF raised
      <3> QED
        BY <2>1, <2>2, Replies DEF Answered
    <2>4. reply.result = [canonical |-> canonical_hook(_hook_source(inp)),
                          body_hash |-> sidecar_only_body_hash(_hook_source(inp), inp.root)]
      BY <2>3 DEF HookResult
    <2> QED
      BY <2>1, <2>4, HookAnswer
  <1> QED
    BY InitInv, StepInv, <1>1, PTL DEF Spec

\* What is rendered without a diagnostic is read back as the event it was.
THEOREM RendersBack == Spec => []RenderBack
  <1>1. IInv => RenderBack
    <2> SUFFICES ASSUME IInv, Answered("render"), inp.target \in HOOK_PROVIDERS,
                        ~reply.result.event.degraded
                 PROVE  RenderBack
      BY DEF RenderBack
    <2> DEFINE dialect == hook_render_dialect(inp.target, inp.dialect)
               answer == render_hook_event(inp.hook.event, inp.target, dialect)
    <2>1. RenderError(inp) \in {"none", "unsupported"}
      BY DEF RenderError
    <2>2. reply.result = render(inp)
      <3> DEFINE result == IF RenderError(inp) # "none" THEN Nobody ELSE render(inp)
      <3>1. reply = Reply(RenderError(inp), result)
        BY DEF IInv, Answers, Answered
      <3>2. RenderError(inp) = "none" /\ reply.result = result
        <4> HIDE DEF result
        <4> QED
          BY <2>1, <3>1, Replies DEF Answered
      <3> QED
        BY <3>2
    <2>3. reply.result.event = answer
      BY <2>2 DEF render
    <2> HIDE DEF dialect
    <2>4. inp.hook.event \in CANONICAL_EVENTS /\ NamesEvent(answer.name, inp.hook.event)
      BY <2>3, RenderedName
    <2> HIDE DEF answer
    <2> QED
      BY <2>3, <2>4, EventBack DEF RenderBack
  <1> QED
    BY InitInv, StepInv, <1>1, PTL DEF Spec
=============================================================================
