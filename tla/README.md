# GripProbe-CLI: a TLA+ development

GripProbe runs CLI coding agents against local models, case by case, and decides from
files on disk and from captured protocol traffic what each agent really did. Its value
is the verdict, so this development models the parts in which concurrency, failure,
ordering and re-execution decide whether a verdict can be trusted. Paths below are
relative to `src/gripprobe/`.

## 1. The system

One command (`run`, `run-suite`) works through a matrix of agent, model, backend, format
and test. For each *case* the runner makes two workspaces, starts (for an Ollama backend)
one telemetry proxy for the warmup prompt and one for the measured prompt, calls the
adapter of the agent, which runs the agent's command once for each prompt and then asks the
validators, extracts telemetry from the captured output and the artifacts of the
proxies, lets the event evaluator decide the status, and writes `case.json`. Other
commands work later on the results directory: `--resume-suite`, `rebuild-reports` and
`aggregate-reports`.

| component | source | state it keeps | operations |
|---|---|---|---|
| telemetry proxy | `telemetry_proxy.py` 555-930 | listening socket, `_stopping`, `_active_connections`, `_active_upstreams`, the `.http.jsonl` artifact | `start`, `stop`; `_handle`, one call per request on a daemon thread per connection |
| request mutation, tool filter | `telemetry_proxy.py` 60-540 | none | rewrites the JSON of a request |
| stream evidence | `telemetry_proxy.py` 960-1370 | partial tool calls of one response | SSE, NDJSON and JSON bodies to tool calls and their details |
| run of a case | `runner.py` 1075-1301, 1404-1600, `adapters/base.py` | two proxies, the wrapped `run_command`, capture status, the result | start proxies, two commands, stop, classify, extract, evaluate |
| adapters | `adapters/*.py` | files of the agent | command lines, configuration files, classification |
| telemetry extraction | `telemetry.py` | events of each phase | read, drop, deduplicate, summarise, tool verdict |
| event evaluator | `event_evaluator.py` | none | status, validators, trajectory |
| suite runner, run store | `suite_runner.py`, `runner.py`, `results.py` | `results/runs/<run>/`, `completed_case_keys` | run a suite, resume it |
| rebuild | `rebuild.py` | the same files | rebuild, recompute |
| aggregation | `aggregate.py` | an output directory | gate, copy, score, publish |
| web challenges | `runner.py` 467-810, `validators/web_*.py` | the HTTP server of a case, its list of hits, `request_log.json` | start, serve and register a hit, rewrite the log, validate, stop |
| trace analysis | `trace_analysis.py` | none | trajectory of a trace |
| validators, backfill, reports, CLI, models | the rest | none | comparisons, a one-off migration, formatting, parsing |

How they interact. The runner calls the adapter on its own thread; the adapter calls back
into the runner through the wrapped `run_command`. The agent process, and anything it
leaves running, talks to the proxy of its phase; the handler threads of the proxy append
to the artifact, which the runner reads after the adapter returned, without waiting for
those threads. Everything later commands know comes from files, and nothing locks the
results directory.

What is hard here: handler threads against `stop()`; an upstream or a client that fails
at any point of a relay; an event that is written after the verdict; the order in which
the adapter's status, the exit code, the capture, the tool verdict, the validators and the
policy override each other; the same tool call told by several sources of different worth;
fragments of calls interleaved in a stream that is cut; a log that its writers rewrite in
place while a validator reads it; a request that is changed in place by a chain of functions
that report apart from each other whether they changed it; crashes between and inside the
writes of the run store, followed by resume, rebuild and aggregation in any sequence.
`PROJECT.json` lists these as hazards, each at its line.

What makes each part correct: the proxy leaves exactly one truthful event per request and
never leaves a client inside an answer, and `stop()` returns; a case passes only on
evidence of the measured phase, and optional capture never takes a verdict away; the
extraction keeps the best evidence of each thing seen; the evidence of a response names
each call once, with its own arguments; the store never executes a case twice on resume,
skips none that was not recorded, loses no result, and publishes only complete runs, with
scores that say no more than the cells; a web case passes only if its page was fetched, and
what was fetched counts; what the proxy changes in a request is what was asked for, and
reaches the backend.

## 2. The modules

| module | models | extends |
|---|---|---|
| `RequestLog` | abstract specification of an artifact: each request received is logged once, after it was received, in the end | |
| `TelemetryProxy` | one proxy, its handler threads, clients, upstream and `stop()` | implements `RequestLog` |
| `EventEvaluator` | the status and the tool verdict, as operators | |
| `CaseRun` | one case from the start of its proxies to its status | `EventEvaluator` |
| `TelemetryEvents` | reading, dropping and deduplicating events | `EventEvaluator` |
| `StreamEvidence` | a response body to tool calls | |
| `ResultStore` | suites, crashes, resume, rebuild, aggregation over the results directory | |
| `AggregateReport` | the cells and scores of the report, as operators over the store | `ResultStore` |
| `WebChallenge` | the server of a web case, its log, its validator and its end | |
| `RequestMutation` | what the proxy does to the JSON of a request | |
| `MCTelemetryProxy`, `MCTelemetryEvents`, `MCResultStore`, `MCRequestMutation` | the instances checked | |
| `TelemetryProxyProofs`, `CaseRunProofs`, `TelemetryEventsProofs`, `ResultStoreProofs`, `StreamEvidenceProofs`, `WebChallengeProofs`, `RequestMutationProofs`, `AggregateReportProofs` | theorems | the module in their name |

`CaseRun` uses what `TelemetryProxy` is shown to do, as two facts: a handler may write
its event after `stop()` (its `request` goes from `pending` to `plain`, `tool` or `late`),
and a request has at most one event. Definitions marked *Variant* in a comment are
plausible mistakes in the code; they occur in no next-state relation and are there to show
that each property notices one.

### TelemetryProxy

`pc[c]` is the line at which the handler of connection `c` is, `h[c]` the locals of its
`_handle` call that the properties need. Each step ends where another thread can see or
change something: a critical section of `self._lock`, a blocking call, a write to the
client. `stop()` is the chain `StopBegin`, `StopSnapshot`, `StopCloseConnection`,
`StopUpstreams`, `StopCloseUpstream`, `StopReturn`.

Three facts of the Python library are modelled as the code meets them:
`HTTPResponse.close()` waits for the lock of the buffered reader, so `stop()` waits for a
handler inside `read()`; `HTTPConnection.close()` does not wake a blocked `getresponse()`;
a closed response reads as ended. So does one that breaks off, unless it is chunked:
`HTTPResponse.read(amt)` raises for a chunk that is cut and returns `b""` for a body with a
length, or one that ends with its connection. `told` says of a response whether it is of
the first kind, and `ReadEof` whether the end it read was that of the whole body.
Abstracted: headers, bodies, the capture buffer. `stop()` is modelled as not raising.

### EventEvaluator, CaseRun

`EvaluateStatus` and `ToolVerdict` translate the chains of early returns line by line.
`CaseRun.setup` holds what does not change in a case: proxy mode, backend, whether the test
disables capture, whether the agent's output is parsed, and whether its adapter tells
process errors. The stages `start ... done` are the calls of
`_run_case_with_phase_proxy` and of `run`; `raised` is an exception that leaves
`run_case`, whose only catcher is the `finally` that stops the proxies. Workspaces,
prompts and metadata are left out; the server of a web case is in `WebChallenge`. An agent
that itself exits with the code the runner gives a timeout (124) is not told from one. A missing or partial capture of the
output cannot occur here: `run_command` opens both output files before it starts the
process.

### TelemetryEvents

A line of output is a record of the features the parsers test: the kind of JSON object,
the marks that match the text patterns, and what they capture. Excerpts are values of a set,
names of tools are in lower case, and the two lists a proxy line keeps for names and for
ids are one list of pairs. The dropping of inferred results is fused with the loop of
`_deduplicate_events`: it depends on what was read only. Left out: redaction, counts,
the numbering of events, files that do not exist.

### StreamEvidence

A body is its tool call items in the order in which the recursion over its values meets them; a
backend produces them in one of eight `Styles` (which fields come when) and three `Forms`
(a stream, one JSON value on one line, one over several lines). The text of an argument
fragment is the place of its item, so that a mixture of two calls can be seen. A cut body is a
prefix: what is cut in the middle is no JSON any more and is skipped. Left out: tool
results, calls marked in text, usage, and the removal of equal details (the arguments of
different calls differ here).

### ResultStore

Run directories are numbered; a case directory is absent, begun or executed to its end;
a `case.json` is absent, torn (truncated, or cut by a crash), the error payload that
rebuild writes, or a result: its status, and the status its scores were computed from,
which a recomputation keeps with the rest of the metadata. `Crash`, `RebuildKilled` and
`RebuildStopped` may come between any two writes, and inside a write of `case.json`.
`"FAIL"` stands for every status that is none of the others. `Web` are the keys of the tests
with a web challenge: a recomputation takes the test from `specs/`, without the nonce, the
path and the request log the runner had filled in, so their artifacts never validate again.
`marked` says that the output holds `timeout=true`, which the runner writes there, and which
a recomputation takes for a timeout whoever wrote it. One process at a time works
on the directory, as the documentation has it; the code does not enforce it.

### AggregateReport

`Items(k)` are the run directories with a readable result of a test, `Representative`
the one whose result its cell links to, `Label` and `CellClass` what the cell shows, `StrictSum` and
`OverallSum` the numerators of the two scores of a row, in tenths. The report is a function
of the files, so the operators are stated over the state of `ResultStore` and checked in
its run. All results of a key are taken to be of one row. Left out: times and outliers, the
severity of a failed cell, copying and sanitizing.

### WebChallenge

One case with a nonce or search challenge. A request is a handler thread that is accepted,
appends its page to `paths` under the lock, truncates the log and writes it, then answers
(`Send`, `AppendHit`, `TruncateLog`, `WriteLog`, `Answer`); the reader of the log can meet it
between the last two writes. The runner starts the server, prepares the workspace, runs the
two commands, reads the artifact and then the log, and on every path through the `finally`
closes the server and writes the log once more, without the lock (`CloseServer`, `DumpLog`,
`RetruncateLog`, `RewriteLog`). The three `Kinds` differ in the pages they serve and
in what their validator asks for. Left out: the texts; that several phases of a suite
use several servers.

### RequestMutation

`at` runs through the stages of `_mutate_request_body` for one request: what an agent may
offer (`AllowedNames`, from the tools of the test, the extra names of the model and the
tool dialects of `specs/cli_agents`), the filter, which also rewrites the description of
Bash, the context blocks, the overrides, and last the choice between the changed payload
and the original bytes, which hangs on a flag of its own.
A text is a sequence of pieces: the opening and closing marks of the blocks, and text;
`Strip` removes what the code's non-greedy patterns match, and `KeepAt` is the sequence of
the places that are left, which keep their order.

## 3. What is checked

Forty properties are checked on passing runs; each has a mutant of the model, a
plausible mistake of the code, that breaks it. Bounds are named in the configurations.

| run | bounds | what it shows |
|---|---|---|
| `proxy_safety` | two connections, one request each, timing option on | every interleaving of two handlers and `stop()`, with each failure of the upstream and the client |
| `proxy_liveness` | one connection, two requests, option off | `stop()` returns; handlers finish, unless their client stays and does not read; `LogSpec` (refinement of `RequestLog` with its fairness) |
| `proxy_timing_option` | one request, option on | finding 1 |
| `store_safety` | two cases, one of them of a web test, the other selected twice, two run directories, one outcome of the first and two of the second | re-execution, skipping, what a manifest stands for, loss, publication, undeserved PASS and the scores of the report over all sequences of suites, crashes, rebuilds and aggregations |
| `store_resume`, `store_recompute` | one case, two run directories, four outcomes | findings 2 and 3 |
| `case_safety` | two requests per phase, every setup | what a verdict rests on, the matrix, no proxy left, the case ends |
| `case_force` | one request per phase | finding 4 |
| `events_safety` | four lines, at most one transcript, thirteen kinds of lines, three of proxies, two ids | the best evidence is kept, in order, from every mixture of sources and with each failing; one call told by several sources with its id is no retry loop, and three calls are one |
| `stream_safety` | three calls, six items, all styles and forms | calls are reassembled, counted once, and none goes unseen |
| `web_safety` | a challenge of each kind, two requests at any time | the verdict and the log against handlers that come late, the server closed on every path |
| `mutation_safety` | texts of up to three pieces; every agent, offer of up to four tools, tools of a test (any one, any with the shell, the usual four) and at most one extra name; every endpoint and option | the filter, the blocks, and that what was changed is sent, be it the description of a tool |

Why these bounds are enough. Handlers share nothing but the two sets, the artifact and
`stop()`, so two of them show every interaction of a pair; a second request on a connection
matters only for what is kept alive past `stop()` and for the sets, which the run with
`MaxRequests = 2` has, and the theorems hold for any number. Two run directories are the
fewest in which a resumed suite can rely on an earlier run; the key that two entries
select makes it rely on a run of its own. Four lines are the fewest with a structured
result, an inferred one and two events of one key; six items give each of two calls three
fragments, or three calls two. Two requests to a challenge are a fetch and one that disturbs
it, before or after; the theorems hold for any number. Three pieces of text hold a
block and what is next to it, or two marks that are wrongly paired. The outcomes of
`store_safety` are one whose recomputed status differs from the evaluator's, in one
direction for the web test and in the other for the other test, and, of the latter, one
whose status no recomputation may raise. That a timeout is read from the output of a case that had none
happens in no run; `ReportFollowsLabels` has it. Deadlock is not checked, as each of these systems may stop:
a proxy at rest, a bound reached, a case that is over.

**Fairness.** `TelemetryProxy.FairSpec`: weak fairness of the steps of a handler that depend
neither on what the upstream sends nor on the client (`Goes`). Calls to the upstream have
timeouts; the socket of the client has none (`BaseHTTPRequestHandler.timeout` is not set),
so a write to a client that stays and does not read may block for ever, and a step at which
the handler writes (`AtClient`) is fair only once the client has left. `HandlersFinish`
and the fairness of `RequestLog` are stated with that exception; `StopReturns` needs none,
as `stop()` neither joins the handlers nor waits for a lock they hold while they write.
Strong fairness of the end of a body (`BodyEnds`): a relay
alternates reads and writes, so the end is not continuously enabled; that no upstream
streams for ever is assumed. Weak fairness of `stop()` once it began; that it is called is
not assumed, nor that a client reads or leaves. `CaseRun.FairSpec`: weak fairness of the
runner's thread; a command ends at the latest when its time is over. Nothing is assumed of
the agent or the handlers. `WebChallenge.FairSpec`: weak fairness of the runner, for the same
reason, and of a handler that was accepted, which only waits for a lock that the others
give back; no agent has to send anything.

### Findings

Each is a run that finds a statement of the repository violated; `PROJECT.json` quotes it.

1. `proxy_timing_option`: with `capture_stream_timing`, a request whose upstream was
   never opened leaves no event (`stream_metrics` is not assigned).
2. `store_resume`: crash, `rebuild-reports`, `--resume-suite`: the interrupted case is
   skipped and never executed.
3. `store_recompute`: recomputation bypasses the event evaluator and turns
   `PASS_WITH_POLICY_VIOLATION` and capture failures into `PASS`. It also turns the `PASS`
   of a web test into `FAIL` (see below), which no statement of the repository denies.
4. `case_force`: a proxy that failed to start has already created its artifact, so a
   case in mode `force` passes without its capture.

Seen while modelling, and not run:

- `aggregate.py` 203-204 recommends `--recompute-case-json` "If case.json is corrupted"; one
  such rebuild loads the file first and replaces a cut `case.json` by an error payload
  that no reader accepts (`RebuiltFiles`; only a second one repairs it).
- Retry loops are looked for in the calls of both phases joined (`RetryLoop`), so two calls
  in the warmup and one in the measured phase are one, though the proxy specification
  (`docs/specs/feature-request-proxy-wrapper-telemetry.md` 361) wants no contamination between
  phases.
- A call that is told with its id, without it and as text has three keys, so it is kept
  three times and is a retry loop of its own; `RetryLoopMeansRetries` is stated of
  calls that every source tells with their id.
- A recomputation evaluates the test as it is in `specs/` (`rebuild.py` 103), so a web test
  that passed is recomputed to `FAIL`; and it takes `timeout=true` in the agent's own output
  for a timeout (108).
- A case whose status is recomputed keeps its scores: the cell of a recomputed policy
  violation says PASS and adds nothing to the strict score of its row, and that of a
  recomputed web test says FAIL and adds a full one. `ScoresFollowLabels` says for which
  rows the scores claim no more than the cells, and for which they are exact.
- A response of an upstream that breaks off is ended for the client as if it were whole
  (`Terminate`: the last chunk is sent after every relay), and where it is not chunked its
  event has no error either. `WellFramed` says only that the client is not left inside it,
  `CleanMeansComplete` excepts what reading cannot tell.
- The extra name `patch` of a model stands for `MultiEdit`, which the dialects of codex and
  pi do not know: their `apply_patch` and `edit` stay filtered out.
- The advice of Bash to use Edit or MultiEdit stays where Write is the only editor offered,
  and in tools that are not in the form of functions.
- `docs/usage.md` says the representative result is the PASS case "otherwise the first
  available case"; the code prefers a policy violation to the first.
- A context block that is not closed takes the text up to the next closing mark of another block
  with it; the tests have closed blocks only, and `StripsAreExact` is stated of these.
- A challenge server whose workspace cannot be prepared is never closed
  (`Prepare` to `aborted`).

Of streams, without a statement of the repository to hold it against: a JSON body on one line is read twice, and the second reading appends the arguments to the
same call once more (the count is right, the details are not); typed streams of
`response.output_item.done` and `response.completed` do the same; a backend that numbers
all calls 0 has their details merged; one that repeats the id with each fragment, or sends a null name,
adds a call of the tool `unknown`; calls in Ollama's own form have no
details. `CallsReassembled` is stated of the other styles.

## 4. What is proved

All theorems hold for every value of the constants under the assumptions named in the
modules (`ConstantsAssumption`, `RequestsAssumption`, `EventsAssumption`,
`StreamAssumption`, `CasesAssumption`, `KeysAssumption`), which say no more than the type of
each constant and that a row has finitely many cells.

- **TelemetryProxy.** `TypeCorrect`. `AnswerInvariant` says for each step of a handler what was
  sent and which errors are noted (`Shape`); `OneAnswer`, `EventAgreesWithAnswer`,
  `WellFramed` and `CleanMeansComplete` speak of the last step only and follow from
  it. `StopClosesWhatItSees` needs `NoLeakedRegistration`, that the two sets are exact: what
  `stop()` copies is then every relay registered by then. `LogInvariant` strengthens
  `LostOnlyByTiming` by what a lost event does to its connection: it ends it, so no later
  request hides the loss. From it `EverythingRecorded` (without the option nothing is
  lost) and `ProxyImplementsLog`: every step of the proxy is a step of `RequestLog` or a
  stutter.
- **CaseRun.** `Invariant` says what each stage may rely on: who is routed, what the
  teardown has done, when the exit code is known, that what was extracted agrees with
  output and artifacts, though handlers go on writing. `PassesAreEvidenced`,
  `EvidenceAlwaysWins`, `MatrixIsFollowed`, `NoProxyIsLeft` follow from it in the last step.
- **TelemetryEvents.** `EventsInvariant` is the loop invariant of deduplication: after each
  round the places kept are the best evidence of the events looked at, in the order of
  first sight. `BestEvidence`, `OrderOfSight`, `ToolUseIsKept` and `TierIsKept` are its
  value at the end of the loop. `LoopsAreRetries` follows from the order: of two
  kept events of a phase the first sight of the earlier one is not a sight of the later,
  so their keys differ, and with ids they are different calls; and each call
  that was told has a kept event, so three calls leave three.
- **ResultStore.** `StoreInvariant`: the suite and a rebuild exclude each other, a
  directory not yet made is empty, `case.json` files of the current run are of executed
  cases, a rebuild looks at cases that were begun. Without the third a result could be
  older than the case it is of, and `PassesAreDeserved` would not be inductive.
  `ResultsStand` is the action property `ResultsAreKept`. Two lemmas say all that a step
  may do to the directory (`CaseChanges`, `FileChanges`); the rest follows from three
  more invariants. `Filed`: an executed case has a `case.json`, which makes an aggregation
  stop at it or read it (`ReportsAreComplete`). `Accounted`: a resumed suite has counted
  every readable key but those of its current run, which are of its target, and what it
  has to do is not counted (`NothingRunsTwice`). `Honest` and `Ledger`, one induction: a
  manifest and a score stand for executed cases, and what is counted, or of an entry
  behind, was executed and is on record or was rebuilt (`OnlyRecordedAreSkipped`); what a
  resumption trusts a manifest for is part of it (`ManifestsAreComplete`).
- **StreamEvidence.** `Sent` says what a backend may send: the first item of a call has its
  name, an id or an index is the call's own. With `Counted` (what is counted is what the
  items read say) it gives `NoToolIsMissed` and `NoCallCountsTwice`. `Reassembly` is the
  invariant of the dictionary of partial calls: each tells what was read of its owner, and
  its key is the id once an id was read and the index before, so the keys of two calls
  never meet. Its step has three cases, as `_merge_tool_call_item` has: a new entry at the end,
  an entry changed in its place, and an entry that gets a new key and moves to the end;
  `FragmentsAreReassembled` follows.
- **WebChallenge.** `ChallengeInvariant` has seven parts. `LockInv`: whoever is between
  appending and writing holds the lock; without it the length a handler writes could be
  anyone's. `Backed`: each entry of the list is a registered request; `Listed`: each
  registered request has its entry; `FileInv`: a valid log lists a prefix of the list.
  `Undecided` and `VerdictInv` carry what the validator read to the verdict, and `CloseInv`
  says which writes of `stop()` are still to come. `PassesFetched` and `FetchesCount` are
  its consequences at the step that reads the log, `LogIsKept` at the end.
- **RequestMutation.** The invariant has three parts besides the types. `FlagTellsChange`: the
  payload differs from the original if and only if the flag is set, through every stage,
  so the backend gets the mutated request (`MutationsReachBackendHolds`). `ToolsFiltered`: behind
  the filter the offered tools are those of the request that it allows, and no later step
  touches them. What it allows is computed with names, canonical names and roles at once;
  that this is the selection by role for the tools of a test and by name for the extra ones
  (`MatchesByRole`, `MatchesByName`) gives `OfferedAsRequestedHolds`. `BlocksTaken` says for each
  stage which blocks are gone and that nothing else is (`StripsAreExactHolds`). It rests on
  the lemmas about `KeepAt`: it lists the places kept in their order (`Enumeration`), and
  keeping twice keeps the places that pass both times (`Composition`). From these: in a text
  whose blocks are all closed, a non-greedy pattern takes exactly the blocks of its kind
  (`WithoutTakesBlocks`), and the blocks of the other kinds stay whole (`BlocksOfKept`), so
  that the next pattern meets a text of closed blocks again.
- **AggregateReport.** `ResultsAreEarned` is an invariant of the store: the scores of
  a readable result are those of the evaluator's verdict on the case that was executed there,
  and its status is that verdict or a recomputation. A recomputation of a success is a
  `PASS` unless the test is a web test or the output says `timeout=true` (`Overstatable`), so
  apart from these the scores of a result are worth no more than its status (`ItemScores`).
  The result a cell links to has the status its label tells (`RepresentativeOfLabel`), and
  sums over a row are monotone (`SumMonotone`): `ReportFollowsLabels`.

Four theorems say where a finding ends. `EverythingRecorded`: without the timing option
no request is lost (1). `OnlyRecordedAreSkipped` and `ResultsAreEarned`: only what a rebuild
computed is skipped though it was not executed, or differs from the evaluator's verdict, in
either direction (2, 3). `ForceLeavesOneGap`: a
forced `PASS` without its capture needs a proxy that failed after it created its artifact
(4); it rests on `CommandsRan`, that each command was run and routed exactly if its proxy had
started, which holds as no proxy is stopped before its own command.

**Only model-checked:** everything that needs fairness (`StopReturns`, `HandlersFinish`,
the fairness part of `LogSpec`, `CaseEnds`, `ServerIsClosed`). Every invariant and
action property of the passing runs is stated by a theorem. Functions that are defined by
themselves on a finite set, such as the sums of the report, are reasoned about by a
smallest subset on which a claim fails (`MinimalSubset`): it takes no induction rule.
Some theorems state what no passing run checks on its own: `NothingRecordedTwice` (implied by
`LogSpec`), `EverythingRecorded`, `NothingLeaks`, `TierIsKept`, `ResultsAreEarned`,
`ForceLeavesOneGap`, and `NoServerIsLeft`, the safety part of `ServerIsClosed`. The prover
does not do liveness under fairness or `ENABLED`.

## 5. What is not modelled, and the plan

Not modelled: the validators that compare the files of a workspace (their answer is an
input of `CaseRun`), what differs between adapters (command lines and configuration files),
reports, CLI, models and the loading of specs (formatting and parsing), backfill (a one-off
migration that can be started again), trace analysis (substring counts that decide no
status once telemetry is evaluated).

Left out of modelled parts: tool results, marks in text and usage in the stream evidence;
the capture buffer and headers of the proxy; the expansion of named suites and of labels;
two suites at a time; times and outliers of the report.

What could come next, most important first:

1. `CaseRun` composed with `TelemetryProxy` through `RequestLog`, in place of the two
   facts it uses now; `StreamEvidence` as the source of the proxy lines of
   `TelemetryEvents`, tool results included.
2. The trajectory of `event_evaluator.py` and the matrix expansion of the suite runner.
