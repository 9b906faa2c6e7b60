# TLA+ models and proofs of the ACIF conformance runner

The repository defines the Agent Content Interchange Format: eleven
specifications, twelve files of test vectors, and one program, the conformance
runner (`conformance/`). The runner starts an *adapter* (an implementation of
ACIF, any language) as a child process, speaks a line protocol with it, runs one
*binding* per test vector, and reports which conformance *scopes* the adapter
passes. This directory holds TLA+ models of that program, TLC configurations
that check them on small instances, and theorems that the TLAPS proof system
checks for every value of the constants.

Run `tlc -config SessionLockstep.cfg MCAdapterSession.tla` (and so on, table in
section 4) to check a model, `tlapm AdapterSession_proofs.tla` to check proofs.

## 1. Inventory

Paths are below `src/conformance/` unless they start elsewhere.

| component | code | state it keeps | operations | interacts with |
|---|---|---|---|---|
| adapter protocol session | `runner/protocol.py` | process, line buffer, end-of-file flag, chunk queue, stop flag, request counter | `start`, `request`, `_write_all`, `_read_line`, `_pump`, `_kill`, `close` | two daemon threads, two OS pipes, the adapter; called by run, differential and bindings |
| scope closure | `runner/scopes.py`, `scopes.yaml` | none (tables) | `scope_closure`, `required_vectors`, `summarize_scopes`, `totality_check` | run, differential |
| run and report | `runner/run.py`, `report.py`, `__main__.py` | options, claims, rows, fixture roots, environment | `run_conformance`, `VectorResult.set_status`/`add_check`, `exit_status` | session, bindings, fixtures, mock authority |
| fixtures | `runner/fixtures.py` | temporary trees | `materialize`, capability probes, `cleanup` | bindings, run, differential |
| bindings | `runner/bindings/*.py` | what `Context` has seen (tagged requests, responses) | 193 bindings, two invariant checkers | session, fixtures, mock authority |
| catalog | `runner/vectors.py` | the vectors | `load_catalogs` | run |
| differential pass | `runner/differential.py` | two sessions, counts, trees | trial generators, `run_differential` | session, scopes, fixtures |
| mock HTTPS authority | `runner/mock_http.py`, the `uri` bindings of `bindings/registry.py` | CA directory; of each double the route table, the listeners with a thread each, the resolve map | the CA of `__init__`, `start_routes`, `set_routes`, `_start_server`, the request handler, `close` of a double, `cleanup` | bindings of registry vectors, which start a double and send its resolve map to the adapter; the adapter, its client |
| development adapter | `adapters/reference.py` | none between requests; within one, the files of a body read so far, or the chain of URLs | `main`, `handle`, one handler per protocol operation | session (the other end), mock authority, reference algorithms, file system |
| reference algorithms | `reference/acif_hash.py`, `acif_frontmatter.py` | none | rejects, classification, manifest, the two searches for delimiters, parse and validation of frontmatter | development adapter, vectors |
| self-test | `runner/selftest/` | none | tests and toy adapters | everything |

What makes each of them right, and what makes that hard:

- **Session.** Every call returns, with its own answer or a failure, whatever
  the adapter does; a late line of a call that timed out is never taken for the
  next answer; memory is bounded; no byte is lost. Hard because three threads,
  the kernel and a free process interleave, lines are cut anywhere into chunks,
  there are two deadlines and one limit checked in two places, and a descendant
  of a killed adapter can keep the pipes.
- **Run and report.** A scope reported as passed was really run and passed, with
  its prerequisites and with the invariants over all responses; the exit status
  agrees; file trees are kept exactly for the rows a reader has to look at; the
  run ends. Hard because a binding can end in five ways in the middle of its
  cases, the session may break at any of them, two checkers change rows after
  the fact, and the handshake may be refused in several ways.
- **Bindings.** A verdict is worth what its binding asserts: every wrong answer
  should cost the vector its pass, a declined request is no failure, a broken
  adapter is no grade. Hard because there are 193 bindings with conditions of
  their own (a relation is asserted only if all its legs are ok, output of one
  answer is the input of the next request), and a test of a binding tries the
  right answer and one wrong one, not a wrong answer at each step or two of them.
- **Scope closure.** Least fixed point of a prerequisite table, with `render`
  drawing in the other claimed scopes.
- **Differential pass.** "Clean" is evidence: it must stand for real, equal
  answers in every shared family. Hard because it is computed from counters,
  because one of two sessions may break alone, and because there are exceptions
  between the start of one and the start of the other.
- **Redirects** (`fetch_uri`). The recorded value follows exactly the leading
  permanent redirects; bound, https and loop checks hold at every hop.
- **Mock authority.** What a vector scripts is what its client is shown, hop by hop
  and pass by pass; nothing of one vector's double outlives it; the CA that a
  request names is there. Hard because routes are keyed by scheme, host and path,
  and a second case or pass writes into the same table; because a start may fail
  after other listeners are up; and because a thread that waits for a client's
  handshake holds up the close.
- **Bodies and frontmatter.** What a body is rejected with, and its hash, depend on
  the body and not on the order in which the file system lists it; each byte of
  an entry file is covered once, by the section or by the hash. Hard because the
  rejects have an order and are spread over a walk and four scans, and because
  two modules look for the same delimiters.
- **Hooks and installations.** The script that runs on a system, the name of an
  event at a provider, the row that is written: each is chosen by the first that
  fits out of a list. Hard because the lists are sorted, filtered and merged
  before, and two axes (script and event) may each refuse an installation, of
  which the operator can answer for one.
- **Fixtures, probes, catalog.** Sequential; see sections 3 and 8.

`PROJECT.json` lists 40 hazards, each at its line, with the property that would
catch it going wrong.

## 2. Modules

| module | models | uses |
|---|---|---|
| `RequestReply` | the abstract promise of a session to its callers | |
| `AdapterSession` | `protocol.py`: caller, writer thread, pump thread, pipes, adapter | `RequestReply` (refinement) |
| `MCAdapterSession` | instance; the property that needs `SequencesExt` | `AdapterSession` |
| `AdapterSession_proofs` | proofs | `AdapterSession`, and `ByteStream` of its instance |
| `VectorResult` | the row of a vector: statuses, `set_status`, `add_check` | |
| `ScopeClosure` | `scopes.py` as operators | `VectorResult` |
| `ConformanceRun` | `run.py`, `report.py`, the frame of the bindings | `ScopeClosure`, `VectorResult` |
| `MCConformanceRun` | a catalog of five vectors in four scopes | `ConformanceRun` |
| `ConformanceRun_proofs` | proofs | `ConformanceRun` |
| `ProbeSteps` | what a binding is made of, and the outcome of each assertion on each answer | |
| `BindingShape` | no code: what the text of a binding is bound to find, as operators on its steps | `ProbeSteps` |
| `Probes` | one binding under one adapter, and the closing of its row | `BindingShape`, `VectorResult` |
| `BindingsCore`, `BindingsHook`, `BindingsKinds`, `BindingsRegistry` | the 193 bindings, one definition for each function of the source, by its name | `ProbeSteps` |
| `MCProbes`, `Probes_proofs` | instance with all bindings; proofs | `Probes` |
| `FetchRedirects` | `handle_fetch_uri` of the development adapter | |
| `MCFetchRedirects`, `FetchRedirects_proofs` | instance, proofs | `FetchRedirects` |
| `BodyTree` | paths, text and the functions of `acif_hash.py` on them | |
| `BodyIngest` | `_read_body_files`, the hash of a body, the frontmatter of its entry | `BodyTree` |
| `BodyIngest_proofs` | proofs | `BodyIngest` |
| `HookEvents` | names of events, at each provider and in each dialect | |
| `HookWiring` | scripts of a hook: ingestion, canonical form, hash, selection, coverage | `HookEvents`, `BodyTree` |
| `InstallTargets` | the install matrix, `resolve_install_targets` | |
| `HookInstall` | `evaluate_install`, `render` of hooks | `HookWiring`, `InstallTargets` |
| `ReferenceAdapter` | `main` and `handle`: one request after another | `HookInstall`, `BodyIngest`, `FetchRedirects` |
| `MCReferenceAdapter`, `ReferenceAdapter_proofs` | instance, proofs | `ReferenceAdapter` |
| `MockRoutes` | scripts of the `uri` vectors and the route tables made of them | |
| `MockTransport` | the authority, its doubles, the bindings that drive them | `MockRoutes` |
| `MCMockTransport`, `MockTransport_proofs` | instance, proofs | `MockTransport` |
| `DifferentialRun` | `run_differential` | `ScopeClosure` |
| `MCDifferentialRun`, `DifferentialRun_proofs` | instance, proofs | `DifferentialRun` |

How they compose. `AdapterSession` is shown to implement `RequestReply`; the two
modules that call a session, `ConformanceRun` and `DifferentialRun`, take from it
just what `RequestReply` promises: a call returns, and once the transport has
failed every further answer is a harness error. Both extend `ScopeClosure`.
The adapter, the other end of the session, is `ReferenceAdapter`: it composes three
components of one process, `BodyIngest`, `FetchRedirects` and the operations of
`HookInstall`, and is shown to implement the first two: what is promised of one body
or one URL holds whatever was asked before. `MockTransport` has the adapter as its
environment, and `ConformanceRun` keeps of the authority that it may be absent or
fail.

### AdapterSession

State and code: `buffer`, `eof`, `chunks`, `stopPump`, `process` are the
attributes of `AdapterSession`; `rpc` is the place of the calling thread in
`request`/`close`, `ppc` and `held` that of `_pump`; `big`, `werr`, `sent` are the
writer thread of the request in flight; `taken`, `inOpen`, `outOpen`, `outPipe`,
`nextLine`, `nextPos` belong to the adapter and the kernel; `broken` is history.
A byte of output is a *unit* that knows the line it is of and its place in it, so
that a lost, repeated or misattributed byte is visible. The handler of a call is
cut only where another thread can act: at the join of the writer, at each pass of
the loop of `_read_line`, at `queue.get`, and at the `wait` in `_kill`.

What a line turns out to be is decided by its newline: a response with a known
class (`answer`), one that cannot be classified (a harness error that leaves the
session in step), one at which `json.loads` raises what `request` does not catch (a
`RecursionError`, or the `ValueError` of a number too long; `raises`: the call ends
with an exception, and the session stays in step), or junk (no JSON or no object:
the adapter is killed).

The adapter is the environment. It may read or not, write any line at any time
(`Chatty`), close either pipe, exit, and leave descendants that hold the pipes
(`Orphans`). `KillMayLag` lets a killed process outlive the two seconds of
`_kill`.

### ConformanceRun

`pc` is the place in `run_conformance`; `rows`, `claimed`, `mockUp`, `trees` are
its variables; `exercised`, `diagnostics`, `statuses` are what the two invariant
checkers read from the context; `flawed`, `failed`, `made` are history. A binding
is a series of cases; a case may materialise a tree, send a request and assert.
Which assertion is made on which field is data: a case may hold or not, at the
environment's choice. The ways a binding ends are all there: return, an
exception, `EnvBlocked`, a trigger that gives up at its first answer that is not
ok, a binding that asserted nothing.

### Probes

A binding is a sequence of steps: a request, or an assertion, with the legs it
looks at, the aspect of them it compares and the condition under which the code
reaches it. `at` is the place in it, `answer` the responses so far by leg, `row`
the `VectorResult`, `done` says that `run.py` has closed the row. The adapter's
answer to a leg is right, of the wrong kind, declined, a failure of the adapter,
or flawed in one aspect that the binding asserts of that leg (and the field may be
missing). `OutcomesOf` and `Judged` say what the helpers of `common.py` and `hook.py`
do with each: early returns first, as in the code. `hook.py` has a `_send` of its own
that does not mark a declined request. Where a binding bypasses the helpers and
looks at a response itself there is a step of another name (`Demand`, `Absence`,
`Truthy`, `Require`, `Impossible`, `Mark`, `Waive`). An aspect that an answer gets wrong
only by saying what it must not (TV-FRESH-a: `install` other than "refuse") is marked
`Never`: no missing field and no other value makes it false.

`ConformanceRun` models the run of any binding whatever. Its case is a request with
its assertions, so that a declined request (`SendFails`) marks the row there, whether
`send` of `common.py` does it or, after `_send` of `hook.py`, the assertion behind it.
`Probes` models these bindings, with the two apart, and leaves to
`ConformanceRun` what happens around them (fixtures,
`EnvBlocked`, the checkers that judge the two invariant vectors).

`MCProbes` names the exceptions to the properties one by one. TLC computed them;
they are what a maintainer of the suite would look at:

- `MCUnjudged`: eleven legs on which a spec error, given where `ok` is due, costs
  nothing. It makes the binding skip the relation the leg is for (TV-L2-b skips
  both assertions on the edited record), or the leg is never asserted. The comment
  at `render.py:127-128` calls for the opposite.
- `MCBlaming`: eighteen vectors that book a declined request as a failure.
- `MCMisfiled`: twelve vectors that book some wrong answer as a harness error,
  because no check is recorded or a `set()` raises.

`BindingShape` says of a text, for all sets of legs that an adapter may answer ok,
which of its steps run and what they tell: that some assertion grades on every
path (`AlwaysGraded`), that nothing is demanded of a leg that was declined
(`Tolerant`), that each way an answer can be wrong meets an assertion
(`AllJudged`). `Probes` assumes these of every binding but the named ones, TLC
evaluates them on the 193 texts, and the theorems of section 6 rest on them. The
lists are exact: a vector of `MCMisfiled` or of `MCBlaming` is one whose text does
not meet its assumption, and none of the legs of `MCUnjudged` can be left out.

### FetchRedirects

`current`, `recorded`, `seen`, `redirects`, `temporary_seen` are the locals of
`handle_fetch_uri`, `fetch` its place and `outcome` what it raises or returns; `hops`
is the history of answers. The servers answer every request freely.
`normalize_source_uri` is a function constant, any function with no normal form
outside https. `FetchReturn` is the end of the handler, with which its locals go.

### BodyTree and BodyIngest

A path is a sequence of names and the bytes of a file a sequence of words: line
ends, the byte order mark, NUL, the line of three dashes, bytes that are no
UTF-8, and text. A digest is the value it is taken of, so that two hashes are
equal exactly where the hashed data are. `stage` is the place in the handler: the
walk, then `paths`, `collisions`, `publishable`, `entry`, `hash`, `parse`, `section`.
`os.walk` lists directories and files in an order the file system chooses; in the
model they come in any order (`Visit`, `ReadFile`), and `files` has the order in which
they were read, as the dict of the code has. Links, unlistable directories and
unreadable files are part of a body. What YAML makes of a block is a constant,
`Yaml`: its events, whether it is well formed, and the kind of value of each key;
the checks of `acif_frontmatter.py` on these are in the model.

### HookEvents, HookWiring, InstallTargets, HookInstall

Operators named after the functions of `reference.py`: `EVENT_MAP`,
`render_hook_event`, `canonical_hook`, `canonicalize_script`, `sidecar_only_body_hash`,
`_select_script`, `_os_coverage`, `evaluate_install`, `resolve_install_targets`, `render`, and
for each the error it raises before (`HookError`, `InstallError`, ...). The tables of
the specifications (A.1, A.3, A.4, the install matrix) are constants.

### ReferenceAdapter

`op` and `inp` are the request in hand, `reply` the line to be written. The operations
on hooks and installations look at their request only and are one step each; the
ingestion of a body takes the steps of `BodyIngest`, a fetch those of
`FetchRedirects`. `Emit` writes the reply; the handlers' locals go with it, which is
what the code does and what `AdapterTypeOK` asserts.

### MockRoutes, MockTransport

`MockRoutes` makes a table of a script, as `_routes_for_transport` and
`_routes_for_crawl` do, and says independently what the script means to present
(`Scripted`). In `MockTransport`, `pc` is the place of the runner; `authority`, `root` belong to
`MockHttpAuthority`; `double` is the `MockDouble` of the vector in hand: table,
listeners in the order they were started, resolve map; `todo` the listeners that
`set_routes` has still to start, `raised` the exception behind a `finally`; `sockets` the
listeners open in the process, whoever still has them; `stuck` those whose thread
waits in a handshake; `fetch` the request under way with a copy of the resolve map.
Every start may fail, with `EnvBlocked` or, over TLS, with an `SSLError`. The adapter is
the environment: it follows the redirects as far as it likes, may leave a
handshake half open, may not answer and be killed.

### DifferentialRun

`counts`, `family_counts`, `trees`, `answer` are the locals of `run_differential`;
`open`, `broken` belong to the two sessions; `refused`, `seen` are history. An
observation is a class, a content and whether the result is complete. What the
first adapter says is called content 1: the comparison sees only whether the two
are equal. A trial may end with an exception at each of its steps: its
fixtures cannot be built, `request` raises (class `raises` of the session, with either
adapter), or `_observe` does on diagnostics that cannot be iterated, which it looks
at in the families of `DiagnosticFamilies`; all of them leave the loop (`Raising`).

## 3. Plan

Done, in this order: (1) session and its promise, (2) scopes and the run,
(3) redirects, (4) the differential pass, (5) the bindings, all of them, (6) the mock
authority, (7) hashing and frontmatter, (8) the hook and install operations of the
development adapter, (9) the adapter as a whole; each with an instance, proofs,
and at least one property per hazard but the one with a note.

To do, most important first:

1. **Two crawls**: registry section 10.4 about re-crawls, on `FetchRedirects` with
   the tables of `MockRoutes`.
2. **Freshness** (`reference.py:1024-1060`) and **URI normalisation** (936-997), as
   operators compared with reference definitions over bounded inputs.
3. **Packs and attestation** of the development adapter, each a function of its
   request.
4. **Catalog and fixtures**: `vectors.py`, the path checks and the probes.
5. The trial generators of the differential pass, as sets of trials.

Theorems still worth proving: none of the properties the passing runs check but
liveness (section 6) is without one; each module above brings its own.

## 4. Runs

| run | module, configuration | checks | shows |
|---|---|---|---|
| lockstep | `MCAdapterSession`, `SessionLockstep.cfg` | `TypeOK`, `OwnAnswer`, `PromiseKept`, `PumpEnds` | with an adapter that writes one line per request but may stall, crash or close pipes, each call ends, and with its own answer or a failure; the session implements `RequestReply`; the pump of a closed session ends |
| flood | `MCAdapterSession`, `SessionFlood.cfg` | `MemoryBound`, `ByteStream`, `EofIsLast`, `LineLimitExact`, `FailStop` | with an adapter that writes what it likes and descendants that keep its pipes, memory is bounded, bytes keep their order, the end of file comes last, the limit is exact, a transport failure is for ever |
| report | `MCConformanceRun`, `RunReport.cfg` | `TypeOK`, `ClaimSound`, `FixtureLifetime`, `DeadAdapterNoPass`, `RunEnds` | over every mixture of answers and exceptions, a reported pass is earned, trees are kept exactly where they should be, the run ends |
| adapter | `MCReferenceAdapter`, `ReferenceAdapter.cfg` | `AdapterTypeOK`, `BodyVerdict`, `HashExact`, `SingleCoverage`, `ScriptsKept`, `RenderBack`, `DisclosedInstall`, `OneWriteTarget`, `RecordRule`, `VerdictExact` | one request after another: whatever the order in which a body is listed, its verdict follows the order of core section 7.4 and its hash stands for what it publishes; an entry file is covered once; the order of scripts changes neither hash nor selection; a rendered event reads back as itself; no blocking hook is installed where it cannot run without somebody having answered for it; a scope has one write target; over every chain of up to three followed redirects the recorded value and the verdict are those of registry section 10.4 |
| mock | `MCMockTransport`, `MockDoubles.cfg` | `TypeOK`, `ScriptServed`, `OneDouble`, `CaLifetime`, `VectorsEnd` | with any start failing, a client that hangs in a handshake and an adapter that does not answer: each request is shown the step of the script that is due; no listener outlives its vector but behind a failed start; the CA is there as long as a double; the run ends |
| differential | `MCDifferentialRun`, `DifferentialClean.cfg` | `TypeOK`, `CleanIsEvidence`, `NothingLeft` | over every pair of answers to three trials, clean means evidence, and no process or tree is left but by the failed start of a session |
| probes | `MCProbes`, `Probes.cfg` | `TypeOK`, `NoSilentPass`, `DeclineNotBlamed`, `FaultIsFault`, `FaultKept`, `RightPasses`, `PassMeansHeld` | every binding with every adapter that errs up to twice in it: what a pass can hide, what is booked as a failure or as a harness error, with the exceptions by name |
| exit_status | `MCConformanceRun`, `RunExitStatus.cfg` | `ExitHonest` | **violated**, finding 1 |
| paired | `MCConformanceRun`, `RunPaired.cfg` | `PairedExercised` | **violated**, finding 2 |
| handshake | `MCConformanceRun`, `RunHandshake.cfg` | `AlwaysReported` | **violated**, finding 3 |
| recorded_moved | `MCFetchRedirects`, `RedirectMoved.cfg` | `RecordedNotMoved` | **violated**, finding 4 |
| missing_field | `MCProbes`, `ProbesMissing.cfg` | `MissingFieldFails` | **violated**, finding 5 |

Every property of a passing run has a mutant in `PROJECT.json`: a small change to a
definition, of the kind a slip in the code would be, under which TLC finds the
property violated.

### Bounds, and why they are enough

- *Session.* `MaxLine` 1, `MaxRun` 3: a line may be within, exactly at, and one or
  two past the limit. `ReadChunk` 2 and `PipeCap` 2: a chunk may hold part of a
  line, a line, two lines, or the end of one and the start of the next.
  `MaxQueued` 1: the queue is full after one chunk. `MaxCalls` 3 (lockstep): a
  handshake, a call that fails, and a call after it, which is the shortest history
  in which an answer could reach the wrong call; 2 where the adapter is chatty.
  `MaxLine`, `ReadChunk`, `MaxQueued` are the code's own constants scaled down;
  `MaxRun` and `MaxCalls` bound the model.
- *Run.* One vector of each sort the runner treats apart: fixtures with two cases,
  a trigger that gives up, the paired invariant, a fetch from the mock authority,
  the conditional invariant; scopes with a prerequisite, with an L1 scope, and
  `render`. Requests, claims and `--only` lists cover: none, one, several, an
  unknown id, a claim without its L1 scope.
- *Mock authority.* Four vectors of the `uri` catalog in one plan: a temporary redirect to
  a signed URL, a redirect to http, two cases in one double, two passes in one
  double; so that a table is extended, replaced and shared. Eleven redirects, the
  catalog's own. A half-open client at any listener, any number of them.
- *Bodies.* The entry file and up to three others out of sixteen things a directory
  may hold: text, binary, names that collide, names that are no UTF-8, links to
  files and directories, version-control files, locked files, a closed directory;
  two levels. Three is what it takes for two rejects and the file that would
  order them. Thirteen shapes of an entry file, sixteen kinds of block.
- *Hooks.* Lists of up to two scripts out of twelve, and those of three where sorting and
  selection can disagree; an `os` member that is absent, an empty list, a list, or no
  list. Maps of one path for each system, with and without a command, and with one
  of several passthroughs: none, or members that replace `type`, `path` or `content` of
  the base entry or give it an `os`. Six events with the tables' special cases: a name of two
  events, a pinned name, two dialects, degraded pins, one provider with none.
- *Installations.* Two dialects, two systems, superseded rows before and after a
  current one, a template that is listed twice, content named like a token of the
  root; every combination of blocking, override, provider, row and system.
- *Redirects.* Three redirects (the code's ten): room for permanent, temporary and
  permanent in a row and for the one that is too many. Six URLs: plain ones,
  another spelling of one, one that cannot be recorded, one over http.
- *Differential.* Three trials, two of the family `body` and one of `hook_mechanism`,
  which compares diagnostics; claims none, `core`, `hook`.
- *Probes.* All bindings. `MaxWrong` 2 (1 in missing_field): one wrong answer that
  hides itself, and one that hides another, by switching off an assertion both
  are in. A loop over cases has two rounds: rounds do not look at each other's
  answers unless a later step says so.

### Fairness

`AdapterSession`: weak fairness of what the runner's threads do once they can
(`CallReturns`, `Writer`, the pump), of time (`Expire`: a deadline passes), and of the
kernel that delivers a signal. Threads of a Python process are scheduled, a
monotonic clock advances, `SIGKILL` is delivered. Nothing is assumed of the
adapter, and the caller need not call. `ConformanceRun`: weak fairness of its single
thread; that each call of the session returns is `PromiseKept`. `RunEnds` also takes
it that nobody holds a half-open TLS connection to the mock authority, for which
`MockDouble.close` would wait (hazard at `mock_http.py:182`). `MockTransport` states that
assumption: weak fairness of `LetGo` (a client in a handshake goes on, closes or ends
at last; no timer in the code sees to it), besides that of the runner's single thread,
which includes the session's timeout. Nothing else is assumed of the adapter: it
need not answer. `FetchRedirects`, `ReferenceAdapter`, `DifferentialRun` and `Probes` have safety
properties only and no fairness.

## 5. Findings

1. *Exit status* (`__main__.py:24-25`). `EnvBlocked` in a later case replaces the row
   (`run.py:111`) and with it a check that had failed; the exit status is then 0.
2. *Paired invariant* (`DESIGN.md`, section 5). TV-RENDER-c can pass although a
   claimed trigger was never exercised, when its row is out of scope or already has
   a verdict (`render.py:215-219`).
3. *Refused handshake* (`PROTOCOL.md:36-37`). `set()` of a strange `scopes` field, in
   the handler of the refusal (`run.py:46`), or `sorted()` at the report, raises past
   the report and leaves the adapter.
4. *Recorded URL* (registry specification, 10.4). Loop detection compares URLs as
   spelled, the record holds the normal form; a permanent redirect to another
   spelling of the same URL leaves that URL, which answered with a permanent
   redirect, as the recorded value.
5. *Missing field* (`DESIGN.md:137-141`). TV-SKILL-j compares
   `bool(hash_value(response, "reciprocal_entries"))` (`skill.py:247`); the marker of a
   missing field is a non-empty string, so that a result without the field passes.

Findings 1, 2 and 4 are between the code and a document; 3 and 5 are defects of
the code.

Other divergences, met while translating and part of the models, not in a run of
their own:

- `PROTOCOL.md:22-25` promises one request in flight. After the end of the adapter's
  stdout, `_read_line` fails without killing the adapter (`protocol.py:235`); if it lives
  on, the next call writes a request although the last was never answered.
- The docstring of `_write_all` (`protocol.py:202-203`) says that killing the adapter
  ends the writer thread; a descendant that inherited stdin keeps the pipe whole,
  and a blocked writer stays.
- Hook specification 7.3: the order of scripts is not significant. Two referenced
  paths with one normal form are not rejected by `sidecar_only_body_hash`, and the
  stable sort of `acif_hash.py:285` leaves their lines in the order of the source.
  `ScriptsKept` excepts these.
- Section 9.2 of the same: a referenced script that is a symbolic link is read.
- Section 11 speaks of each command handler; selection, coverage and
  `evaluate_install` look at the first handler (`_first_handler_scripts`). `DisclosedInstall`
  is about that one. It also gives the operator an override of the refusal for
  want of a script; the code has none (`reference.py:796-798`).
- `os_divergent` of `_os_coverage` counts constrained scripts, and does not compare what
  they run; the checks of section 7.2 (disjoint systems, the enumeration of systems)
  are not made, and `os` tags are not sorted.
- `render` takes the last default script for its command, `_select_script` the first.
- A script whose path is `none` reads as no script (`reference.py:796`).
- In a map of one path for each system, every other key is laid over the base entry
  (`reference.py:511-513`), where section 7.4 of the hook specification
  (`spec.md:206`) speaks of opaque passthrough: a key `path`, `type` or `content` replaces that of the
  base entry, so that `{command: a, path: b}` runs `b`, and a key `os` closes the entry to
  other systems. `MapKept`, the last conjunct of `ScriptsKept`, says what is left: a
  system's own path is kept unless the base entry names the system too (then the order
  after sorting decides, of which it says nothing), and any other system runs the
  base entry as it is after that, or nothing.
- A script with `os: []` is never selected and counts as constrained
  (`reference.py:677-690`); the model has it apart from a script without `os`.
- A body whose entry file is missing is rejected as `acif.body.empty`.
- The scan for colliding names runs for single-file bodies as well
  (`reference.py:1181-1186`), where the comment above it gives them no manifest.
- `os.walk` passes over a directory it cannot list in silence, where an unreadable
  file raises: the hash then stands for part of the body. `HashExact` is about what
  can be seen.

## 6. Proofs

All theorems hold for every value of the constants that meets the assumptions:
`BoundsAssumption` and `SwitchesAssumption` (the limits are positive naturals),
`ScopesAssumption` and `Totality` (the scope table covers the catalog, which the
self-test verifies on the shipped table), `CatalogAssumption` (no vector twice),
`BindingsAssumption` (the two checked vectors send nothing and are no triggers),
`OptionsAssumption`, `UrlAssumption` (what is not https has no normal form),
`LimitAssumption`, `FamilyAssumption`, `BodyAssumption` and `SendsFirst` (a step looks at
one leg unless it is a relation; a leg is sent before anything looks at it),
`MaxWrongAssumption`; of the texts of bindings `AskedAssumption` (a binding looks at no
answer before it has one, and requires, demands or carries on only what is to be
answered ok), `GradedAssumption`, `RightAssumption`, `TolerantAssumption` and
`JudgedAssumption` (`BindingShape`, section 2; each but for the named vectors or
legs); `TablesAssumption` and `PlanAssumption` (a vector's tables are those its
scripts make, and need listeners for http or https), `ScriptAssumption` (the table
of a pass answers each URL its script leads to with the step due there, and a host
speaks one scheme in a vector: steps that met on a key would break it), `TreesAssumption` (a path has
every directory above it, one thing is at a path, and a file is words),
`WordAssumption` (LF is a word), `ItemsAssumption`,
`MatrixAssumption` and `InputsAssumption` (the tables and requests have the shape the
code reads: a hook is a `RawHook`, a map of paths has one path or none for each
system, and the value that stands for no script is not listed as one), and
`EventsAssumption`, which says three things of the shipped tables
(`reference.py:63-161`) that the code does not enforce: a native name that belongs to
several events is pinned (`errorOccurred` is the only such name), an event whose name
is a native name has that name to itself (`session_start` and seven others), and a row
of A.4 without a diagnostic gives a name that A.1 has for the event. A new row that
broke the first would make `RenderBack` false, for then the first event in sorted
order has the name (`reference.py:115-120`). TLC evaluates each on every run whose
module has it; the tables of `MCReferenceAdapter` are rows modelled on the shipped
ones, the shared name among them, and that the whole shipped tables meet
`EventsAssumption` was read off the source.

Three theorems have one hypothesis more, `~KillMayLag`: a killed process ends within
the two seconds that `_kill` waits for it. Without it `OwnAnswer` and `FailStop` are
false (TLC shows it on lockstep with `KillMayLag` TRUE: the next call writes to the
process that is still there), which is the hazard at `protocol.py:273`; both runs of
the session have `KillMayLag` FALSE.

| theorem | says | argument |
|---|---|---|
| `TypeCorrect` | `Spec => []TypeOK` of `AdapterSession` | inductive as it stands; one step per action |
| `MemoryBounded` | `Spec => []MemoryBound` | the buffer may be extended only after it was found within the limit, which is known at another place than where it is extended: `MemoryInv` adds that it is at most `MaxLine` while the caller waits for a chunk |
| `EofComesLast` | `Spec => []EofIsLast` | `EofInv`: the end-of-file mark is nowhere, or in the pump's hand, or the last chunk of the queue, or believed; in the last three the pump no longer reads, the pipe is empty and nobody holds its write end |
| `FailuresLast` | `~KillMayLag => (Spec => []FailStop)` | `Outage`: once a failure was reported, the process is dead, or the end of file is believed and the buffer holds no line, or its stdin is broken; each of the three stays, and the next call fails again whichever it is |
| `BytesStayInStep` | `Spec => []InStep`: no byte is lost, doubled or moved between adapter and caller | `Tidy` (only chunks of data hold units, and the pump only one it has read) and `Stream(n)`: buffer, queue, hand and pipe, in this order, are one run of units from the first of line `n` to the next the adapter will write |
| `BytesAreKept` | `Spec => []ByteStream` | from `InStep`: the pieces on the way follow each other (`RunFollows`) and `FlattenSeq` joins such pieces to one run. `FlattenSeq` is a recursive function within a LET, of which nothing is known before it is shown to exist: `Flat(seqs, j, f)` says that f is what it computes up to j, and a least j without such an f would be a contradiction (`FlatExists`, `FlattenIsFlat`) |
| `LimitIsExact` | `Spec => []LineLimitExact` | `LimitInv`: with `InStep` a unit's place in its line is its place in the buffer, and a reply, given or pending, is `Lawful` when it is made |
| `AnswersAreOwn` | `~KillMayLag => (Spec => []OwnAnswer)` | `TurnInv`: as long as the transport has not failed, the line the buffer starts is that of the request in flight, or of the next one where none is (`Turn`, `Stream`); a failure ends the count and leaves `Outage`, after which no answer follows |
| `SessionKeepsPromise` | `~KillMayLag => (Spec => Promise!Init /\ [][Promise!Next]_(Promise!vars))`: `AdapterSession` implements the safety half of `RequestReply` | mapping `Phase`, `Outcome`: what the caller sees of `rpc` and `reply`; one step for each action, with `Outage` and `OwnAnswer` for the actions that return. The liveness half of `PromiseKept` stays with TLC |
| `RunTypeCorrect` | `Spec => []TypeOK` of `ConformanceRun` | inductive |
| `ClaimsAreSound` | `Spec => []ClaimSound` | `Inv`: a row that ran is of a selected vector; what went wrong with a vector shows in its row, and `SetStatus` never takes it back; the checkers are registered before any row runs; their verdicts stay; the summary is that of the rows. `StandingRequired` and `SummarySound` lead from there to the claim |
| `TreesShown` | `Spec => []FixtureLifetime` | `Lifetimes`: of the vectors behind the run (`Settled`), a tree is on disk exactly where it was made and the status or the option calls for it; trees are made for these and the one in hand (`AtHand`) only, whose are all there until its binding is left |
| `DeadAdapterEarnsNothing` | `Spec => DeadAdapterNoPass` | `Unearned`: while the session is broken, a row in hand that still says pass is in front of its first case, and at its cleanup only if it has no cases |
| `FetchTypeCorrect` | `Spec => []TypeOK` of `FetchRedirects`: the bound on redirects and only https is opened | inductive |
| `RecordRuleHolds` | `Spec => []RecordRule` | `Frozen`: either only permanent redirects so far and the record is the current URL's normal form, or the record is that of the first hop that was not permanent |
| `VerdictIsExact` | `Spec => []VerdictExact` | `Chain`, `Distinct`: `seen` is what was opened and what is next, and no URL was opened twice |
| `BodyTypeCorrect` | `BodySpec => []BodyTypeOK` | part of `BodyInv` |
| `RejectPrecedence` | `BodySpec => []BodyVerdict`: the reject does not depend on the order of the listing | `BodyInv`. During the walk: what was read can be seen, is a file and can be read (`Sound`), and whatever can be seen, links included, was read, is among the files in hand, or is below a directory still to be listed (`Complete`; `NextDown`: on the way down to it there is a next directory). After the walk this says that there are no links and that all was read. Then one conjunct of `Behind` per stage: what the stages before it reject is not there |
| `CanonicalText` | `canonical_text(data) = PlainText(data)` for every text | induction without an operator for its hypothesis: of the places where the claim fails the last one has only good places after it, and fails no more (`Least`, `AllRight`). The same argument shows that the recursion has a value at all (`Unfolds`); `RightBefore` is its step, with the three cases of the code's loop |
| `HashIsExact` | `BodySpec => []HashExact` | at the stage before the hash `Behind` says that what was read is all there is to see and that no two names have one normal form (`Apart`): so the two ways to say that a body has several files agree (`Several`), and each line of the manifest holds one file, wherever the walk found it (`AloneOnItsLine`, `Manifest`); `CanonicalText` for what is in it |
| `CoveredOnce` | `BodySpec => []SingleCoverage` | the cuts `strip_frontmatter` and `frontmatter_block` make are at the same place, so that their pieces join to the text (`AroundLine`, `BeforeEnd`, `CoversBlock`); `Placement` for the section |
| `Ingests`, `Follows` | `Spec => BodySpec`, `Spec => FetchSpec` of `ReferenceAdapter`: one request after another, in any mixture | the identity is the refinement mapping; every step is one of the component or leaves its variables alone (`StepBody`, `StepFetch`) |
| `AdapterTypeCorrect` | `Spec => []AdapterTypeOK` | `BodyInv` and `FetchTypeCorrect` through the refinements; `Served`: the reply is that to the request in hand |
| `AdapterRejects`, `AdapterHashes`, `AdapterCovers`, `AdapterRecords`, `AdapterRefuses` | `Spec => []BodyVerdict`, `[]HashExact`, `[]SingleCoverage`, `[]RecordRule`, `[]VerdictExact` | by the refinements |
| `WritesOnce` | `Spec => []OneWriteTarget` | invariant: the reply is what the operators make of `inp`; then `Least`: a set of indices that is not empty has a least member, and `write_target` holds of that one alone (`FirstCurrent`, `WriteTarget`) |
| `InstallsDisclosed` | `Spec => []DisclosedInstall` | the same invariant; `NoneSelected`: there is no script exactly where each is tagged with other systems; `Judgement`: the two axes by cases |
| `ScriptsAreKept` | `Spec => []ScriptsKept` | the same invariant. Sorting is a choice among the rearrangements of a sequence, and a sequence and its reverse have the same ones (`SortedReversed`), each of which has all elements (`SortedElements`): so the canonical hook is that of the turned one (`CanonTurned`), the lines of its manifest too where no two paths collide (`LinesTurned`), and what was meant alone for a system is the only script that can be selected (`SelectKept`, `OneCandidate`). For a map of paths, `MapScripts` says which scripts it is turned into and `MapIsKept` which one each system finds: its own, or the base entry with all that was laid over it, as far as that leaves it open to the system. `Refusals`: nothing it is refused with reads as an answer |
| `RendersBack` | `Spec => []RenderBack` | the same invariant, and `EventsAssumption`: `RenderedName` (the name is one of the event's, pinned or not) and `EventBack` (reading it finds the pin or that event) |
| `TypeCorrect` of `MockTransport` | `Spec => []TypeOK` | inductive with the rest of `IInv` |
| `OneDoubleAtATime` | `Spec => []OneDouble` | `Known`: an open listener of the vector in hand is one its double still has, so that none is left open when `Closed` finds the double without any |
| `CaLives` | `Spec => []CaLifetime` | `Based`: a double needs an authority, and the directory is there as long as there is an authority and the run has not ended |
| `ScriptIsServed` | `Spec => []ScriptServed` | `Tracked`: the fetch in hand is one of the vector's (`Following`) and the table that of its case and pass; the resolve map knows each listener by its host and one scheme a host (`Resolving`), every listener the table needs is up before a request is sent (`Presenting`), and a fetch is at the URL its script has reached, what was served being the script so far (`Answering`) |
| `DiffTypeCorrect` | `Spec => []TypeOK` of `DifferentialRun` | inductive |
| `CleanMeansEvidence` | `Spec => []CleanIsEvidence` | `Tally`: a counter is positive exactly when a trial that was asked has that status; a broken session has shown a harness error, or an exception is on its way past the report (`QuietTally`: no exception touches the counts) |
| `NothingIsLeft` | `Spec => []NothingLeft` | `Entered`, the nesting of the two `with` statements: until the first `__exit__` no session was refused; between the two the first may run still, and with it a second whose start failed, but then an exception is on its way |
| `ProbesTypeCorrect` | `Spec => []TypeOK` of `Probes` | inductive; `OutcomeIsNamed`: an assertion has one of six outcomes |
| `FaultIsKept` | `Spec => []FaultKept` | inductive; `FaultSticks`: no outcome and no answer takes a harness error back |
| `PassIsHeld` | `Spec => []PassMeansHeld` | inductive with `FaultKept`: `HeldIsSatisfied` and `BookedPass` for the assertion just run, and `SendsFirst` for those before, whose legs a new answer cannot touch (`SendLegPasses`) |
| `FaultsAreFaults` | `Spec => []FaultIsFault` | `Ledger` ties the row to the steps run: every answer is to a leg that was sent and is one it can have (`Sent`); of each enabled step behind `at`, what it did to the row still shows (`Trail`, in the words of `SendTrail` and `CheckTrail`); a check has an assertion behind it (`Earned`); a vector is given up only on right answers (`Waived`); a closed row is judged (`Closed`). `Broken` adds that before the close a harness error is the adapter's; at the close the text grades on the path taken (`AlwaysGraded`), so the row was checked |
| `DecliningIsNoFailure` | `Spec => []DeclineNotBlamed` | `Ledger` and `Declining`: as long as every answer is right or declined, the row says pass or unsupported, for no assertion of a tolerant text fails of a declined request |
| `RightIsPassed` | `Spec => []RightPasses` | `Ledger` and `Righting`; `RightHolds`: of right answers no assertion fails |
| `NoPassIsSilent` | `Spec => []NoSilentPass` | from `Ledger` alone. A pass means that each step the answers enable has run and has held (`AllHeld`). `AllJudged` splits the paths: some step cannot have held (`OffKindFails`, `ImpossibleFails`); or nothing that ran can score; or a named leg is off its kind, and owed (`AskedIsOwed`); or the wrong leg meets an assertion that tells it (`JudgedIsFound`, by `FlawFails` for a flaw, `OffKindFails` for a wrong kind) |

The theorems about `Probes` hold however many answers are wrong: TLC needs the bound
`MaxWrong`, the texts do not. Their assumptions quantify over the sets of legs
answered ok, and not over runs; that is what makes them small enough to evaluate and
the theorems more than a restatement.

Only model-checked:

- all liveness (`PromiseKept`, `PumpEnds`, `RunEnds`, `VectorsEnd`): the prover has no
  rule for fairness;
- the five runs that find a violation, which refute.

## 7. What the models leave out of the code they cover

- `protocol.py`: the JSON of a request and the fields of a response, beyond the five
  sorts of line (`LineEnds`); the text of error messages. `request` is called by one thread, as
  all callers do.
- `run.py`, `report.py`: the layout of both reports, the list of excluded checks.
- `bindings/`: the contents of requests and what each assertion compares: an answer
  is flawed in an aspect when it makes the assertion of that aspect false. An answer
  at which `json.loads` raises is not among those of `Probes`: `run.py` books the
  exception as a harness error wherever in a binding it comes, which is `Raises` of
  `ConformanceRun`.
- `reference.py`: in `handle_fetch_uri`, TLS verification and socket timeouts are one
  failure. Of a hook or a script, members the code does not name are one value; of an installation, the
  text of templates beyond root and tokens.
- `acif_hash.py`, `acif_frontmatter.py`: the YAML scanner (a constant function from a
  block's words), canonical JSON and its numbers, SHA-256 (a digest is what it is
  taken of), the bytes within a word.
- `mock_http.py`: certificates and ports, which are a listener that starts or does
  not; TLS, which is a handshake that ends or does not.
- `differential.py`: which trials a seed generates; `Trials` is any list.

## 8. What is not modelled, and why

- Of the development adapter: packs, attestation, `reconcile_frontmatter`,
  `resolve_reference`, URI normalisation, names of URLs and freshness, a sidecar
  passed through, `render` of agents. Each is a function of its request without
  state or order; the first ones in the plan are those with arithmetic or a
  normal form.
- `vectors.py` and the probes of `fixtures.py`: sequential checks of files, with no
  state. In the plan.
- `generate_vectors.py` writes files once.
- The self-test and the toy adapters: tests of the runner.
- The trial generators of `differential.py`: data; `Trials` is any list.
- `specs/`, `research/`, `examples/`, `evidence/`, `vectors/`: prose and data. The
  properties quote the specifications where they say something of this code.
- One hazard has no property: a process that outlives its kill (`protocol.py:273`).
  `KillMayLag` models it; nothing in the repository promises an answer about it.
