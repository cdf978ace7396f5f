------------------------------ MODULE CaseRun ------------------------------
(* One case, from the start of its telemetry proxies to the verdict in case.json
   (run and _run_case_with_phase_proxy of gripprobe/runner.py, the frame common
   to the run_case of every adapter, and extract_and_persist_case_telemetry).

   The runner's thread is sequential.  What runs beside it: the agent and what
   it leaves running, which send requests to the proxy of their phase, and the
   handler threads of the two proxies, which write their events when they are
   done with a request, also after stop() (TelemetryProxy, RequestLog). *)
EXTENDS Naturals, EventEvaluator

CONSTANT MaxRequests   \* bound: requests of a phase to its proxy

ASSUME RequestsAssumption == MaxRequests \in Nat

Phases == {"warmup", "measured"}
Other(p) == IF p = "warmup" THEN "measured" ELSE "warmup"

VARIABLES
    setup,      \* what the command line and the specs settle
    at,         \* where the runner is
    phase,      \* the phase it is at
    raised,     \* an exception is on its way out of adapter.run_case
    proxy,      \* the proxy of each phase
    file,       \* its artifact exists
    routed,     \* the command of the phase was pointed to the proxy
    request,    \* the requests of each phase to its proxy
    output,     \* what the extraction will find in the output of each phase
    exit,       \* measured_exit_code
    match,      \* the validators accept the workspace
    status,     \* result.status
    found       \* the telemetry metadata, once extracted

vars == <<setup, at, phase, raised, proxy, file, routed, request, output, exit,
          match, status, found>>

\* capable: the agent is one whose output is parsed for tool events;
\* reports: the adapter tells a process error itself (pi).
Setups == [mode : {"off", "auto", "force"}, ollama : BOOLEAN,
           disabled : BOOLEAN, capable : BOOLEAN, reports : BOOLEAN]
Proxied == setup.mode # "off" /\ setup.ollama /\ ~setup.disabled

Stages == {"start", "before", "command", "after", "classify", "teardown",
           "extract", "evaluate", "done", "aborted"}
Outputs == {"none", "plain", "tool", "broken"}
\* A request: not sent, in its handler, or in the artifact, with a tool call or
\* without; "late" is one whose event came after the extraction.
RequestStates == {"unsent", "pending", "plain", "tool", "late"}
NotExtracted == [capture |-> "missing", verdict |-> "tool_event_inconclusive",
                 proxy |-> "skipped"]

Init ==
    /\ setup \in Setups
    /\ at = IF Proxied THEN "start" ELSE "before"
    /\ phase = "warmup"
    /\ raised = FALSE
    /\ proxy = [p \in Phases |-> "none"]
    /\ file = [p \in Phases |-> FALSE]
    /\ routed = [p \in Phases |-> FALSE]
    /\ request = [p \in Phases |-> [i \in 1 .. MaxRequests |-> "unsent"]]
    /\ output = [p \in Phases |-> "none"]
    /\ exit = "none"
    /\ match = FALSE
    /\ status = "none"
    /\ found = NotExtracted

-----------------------------------------------------------------------------
(* _run_case_with_phase_proxy *)

\* start() writes the empty artifact before it binds its socket, so an artifact
\* may be there though the proxy is not.  The other phase is started anyway.
StartProxy ==
    /\ at = "start"
    /\ \/ /\ proxy' = [proxy EXCEPT ![phase] = "up"]
          /\ file' = [file EXCEPT ![phase] = TRUE]
       \/ /\ \E b \in BOOLEAN : file' = [file EXCEPT ![phase] = b]
          /\ UNCHANGED proxy
    /\ phase' = Other(phase)
    /\ at' = IF phase = "warmup" THEN "start" ELSE "before"
    /\ UNCHANGED <<setup, raised, routed, request, output, exit, match, status,
                   found>>

\* The wrapped run_command, called for the warmup and then for the measured
\* prompt; it opens the files of the output first.
RunCommand ==
    /\ at = "before"
    /\ routed' = [routed EXCEPT ![phase] = proxy[phase] = "up"]
    /\ output' = [output EXCEPT ![phase] = "plain"]
    /\ at' = "command"
    /\ UNCHANGED <<setup, phase, raised, proxy, file, request, exit, match,
                   status, found>>

\* The process ends, or is killed when its time is over; "broken" output makes
\* the extraction raise.  Only the exit of the measured command is used.
CommandEnds ==
    /\ at = "command"
    /\ \E o \in {"plain", "tool", "broken"} :
           output' = [output EXCEPT ![phase] = o]
    /\ IF phase = "measured" THEN exit' \in {"ok", "nonzero", "timeout"}
                             ELSE UNCHANGED exit
    /\ at' = "after"
    /\ UNCHANGED <<setup, phase, raised, proxy, file, routed, request, match,
                   status, found>>

\* Starting the process raises: no AdapterError, so it will end the whole run.
CommandRaises ==
    /\ at = "command"
    /\ raised' = TRUE
    /\ at' = "after"
    /\ UNCHANGED <<setup, phase, proxy, file, routed, request, output, exit,
                   match, status, found>>

\* Variant: stop() joins the handler threads.
StopAfterCommandJoins ==
    /\ at = "after"
    /\ \A i \in 1 .. MaxRequests : request[phase][i] # "pending"
    /\ proxy' = [proxy EXCEPT ![phase] = IF @ = "up" THEN "stopped" ELSE @]
    /\ phase' = "measured"
    /\ at' = IF raised THEN "teardown"
             ELSE IF phase = "warmup" THEN "before" ELSE "classify"
    /\ UNCHANGED <<setup, raised, file, routed, request, output, exit, match,
                   status, found>>

\* The finally of the wrapped run_command.  stop() does not join the handlers.
StopAfterCommand ==
    /\ at = "after"
    /\ proxy' = [proxy EXCEPT ![phase] = IF @ = "up" THEN "stopped" ELSE @]
    /\ phase' = "measured"
    /\ at' = IF raised THEN "teardown"
             ELSE IF phase = "warmup" THEN "before" ELSE "classify"
    /\ UNCHANGED <<setup, raised, file, routed, request, output, exit, match,
                   status, found>>

\* The status the adapter gives: TIMEOUT first; a process error if it looks for
\* one; a backend without tools; else what the validators say.
AdapterStatus(ok) ==
    IF exit = "timeout" THEN {"TIMEOUT"}
    ELSE IF exit = "nonzero" /\ setup.reports THEN {"SHELL_ERROR"}
    ELSE {"TOOL_UNSUPPORTED", IF ok THEN "PASS" ELSE "FAIL"}

Classify ==
    /\ at = "classify"
    /\ \E ok \in BOOLEAN :
           /\ status' \in AdapterStatus(ok)
           /\ match' = (ok /\ status' \in {"PASS", "TIMEOUT"})
    /\ at' = "teardown"
    /\ UNCHANGED <<setup, phase, raised, proxy, file, routed, request, output,
                   exit, found>>

\* AdapterError, from the validators only: run() makes a result of it that knows
\* nothing of the process.
AdapterFails ==
    /\ at = "classify"
    /\ status' = "HARNESS_ERROR"
    /\ exit' = "none"
    /\ at' = "teardown"
    /\ UNCHANGED <<setup, phase, raised, proxy, file, routed, request, output,
                   match, found>>

\* Any other exception between the commands, and before or after them.
RunCaseRaises ==
    /\ at \in {"before", "classify"}
    /\ raised' = TRUE
    /\ at' = "teardown"
    /\ UNCHANGED <<setup, phase, proxy, file, routed, request, output, exit,
                   match, status, found>>

\* Variant: what is still up is stopped when run_case returned.
TeardownOnReturn ==
    /\ at = "teardown"
    /\ proxy' = [p \in Phases |-> IF proxy[p] = "up" /\ ~raised
                                    THEN "stopped" ELSE proxy[p]]
    /\ at' = IF raised THEN "aborted" ELSE "extract"
    /\ UNCHANGED <<setup, phase, raised, file, routed, request, output, exit,
                   match, status, found>>

\* The finally around adapter.run_case: a proxy whose command never ran is up.
Teardown ==
    /\ at = "teardown"
    /\ proxy' = [p \in Phases |-> IF proxy[p] = "up" THEN "stopped"
                                                     ELSE proxy[p]]
    /\ at' = IF raised THEN "aborted" ELSE "extract"
    /\ UNCHANGED <<setup, phase, raised, file, routed, request, output, exit,
                   match, status, found>>

-----------------------------------------------------------------------------
(* run(), after the adapter *)

\* proxy_capture_status, decided anew by the existence of the two artifacts, and
\* once more by the extraction, which needs to read both.
ProxyStatus(readable) ==
    IF Proxied
      THEN IF readable /\ \A p \in Phases : file[p] THEN "collected" ELSE "error"
      ELSE IF setup.mode = "force" /\ ~setup.disabled /\ ~setup.ollama
        THEN "error" ELSE "skipped"

\* One unreadable output makes the extraction drop the events of all.
Capture == IF \E p \in Phases : output[p] = "broken" THEN "wrapper_parse_error"
                                                     ELSE "collected"
Logged(p) == \E i \in 1 .. MaxRequests : request[p][i] = "tool"

\* Variant: the events of the warmup count as well.
ToolEventsOfBoth(proxyStatus) ==
    \E p \in Phases : \/ Capture = "collected" /\ output[p] = "tool"
                      \/ proxyStatus = "collected" /\ Logged(p)

\* A tool call or result among the measured events.
ToolEvents(proxyStatus) == \/ Capture = "collected" /\ output["measured"] = "tool"
                           \/ proxyStatus = "collected" /\ Logged("measured")

Extract ==
    /\ at = "extract"
    /\ \E readable \in BOOLEAN :
           LET proxyStatus == ProxyStatus(readable)
           IN  found' = [capture |-> Capture, proxy |-> proxyStatus,
                         verdict |-> ToolVerdict(Capture, ToolEvents(proxyStatus),
                                                 setup.capable, setup.mode, proxyStatus)]
    /\ at' = "evaluate"
    /\ UNCHANGED <<setup, phase, raised, proxy, file, routed, request, output,
                   exit, match, status>>

\* --telemetry-proxy force: the result is made a HARNESS_ERROR first.
ForceFails == setup.mode = "force" /\ found.proxy # "collected"

Evaluate ==
    /\ at = "evaluate"
    /\ status' = EvaluateStatus(
           [status |-> IF ForceFails THEN "HARNESS_ERROR" ELSE status,
            match |-> match /\ ~ForceFails, exit |-> exit,
            capture |-> found.capture, verdict |-> found.verdict])
    /\ at' = "done"
    /\ UNCHANGED <<setup, phase, raised, proxy, file, routed, request, output,
                   exit, match, found>>

-----------------------------------------------------------------------------
(* The agent, and the handler threads of the proxies. *)

\* A connection is made while the proxy listens; one that is kept alive goes on
\* when the proxy is stopped.
SendRequest(p, i) ==
    /\ request[p][i] = "unsent"
    /\ \A j \in 1 .. (i - 1) : request[p][j] # "unsent"
    /\ routed[p]
    /\ proxy[p] = "up" \/ i > 1
    /\ request' = [request EXCEPT ![p][i] = "pending"]
    /\ UNCHANGED <<setup, at, phase, raised, proxy, file, routed, output, exit,
                   match, status, found>>

\* _append_event of the handler of the request.
LogRequest(p, i) ==
    /\ request[p][i] = "pending"
    /\ \E s \in IF at \in {"evaluate", "done"} THEN {"late"}
                                               ELSE {"plain", "tool"} :
           request' = [request EXCEPT ![p][i] = s]
    /\ UNCHANGED <<setup, at, phase, raised, proxy, file, routed, output, exit,
                   match, status, found>>

-----------------------------------------------------------------------------
Runner ==
    \/ Classify \/ AdapterFails \/ RunCaseRaises \/ Teardown \/ Extract
    \/ Evaluate \/ StartProxy \/ RunCommand \/ CommandEnds \/ CommandRaises
    \/ StopAfterCommand
Beside == \E p \in Phases, i \in 1 .. MaxRequests :
              SendRequest(p, i) \/ LogRequest(p, i)

Next == Runner \/ Beside

Spec == Init /\ [][Next]_vars

\* The runner goes on: a command ends at the latest when its time is over.
FairSpec == Spec /\ WF_vars(Runner)
-----------------------------------------------------------------------------
(* What the run of a case promises. *)

\* Type correctness of a case and of its two proxies.
TypeOK ==
    /\ setup \in Setups
    /\ at \in Stages
    /\ phase \in Phases
    /\ raised \in BOOLEAN
    /\ proxy \in [Phases -> {"none", "up", "stopped"}]
    /\ file \in [Phases -> BOOLEAN]
    /\ routed \in [Phases -> BOOLEAN]
    /\ request \in [Phases -> [1 .. MaxRequests -> RequestStates]]
    /\ output \in [Phases -> Outputs]
    /\ exit \in Exits
    /\ match \in BOOLEAN
    /\ status \in Statuses \cup {"none"}
    /\ found \in [capture : Captures, verdict : Verdicts, proxy : ProxyStatuses]

\* Observed tool use in the measured phase, in time and readable.
Evidence ==
    /\ \A p \in Phases : output[p] # "broken"
    /\ output["measured"] = "tool" \/ Logged("measured")

\* A PASS has the right artifact, a process that ended well and tool use that
\* was observed in the measured phase: what the warmup did is no evidence.
PassIsEvidenced ==
    at = "done" /\ status = "PASS" => match /\ exit = "ok" /\ Evidence

\* Nothing optional takes a PASS away: an agent that ended well, with the right
\* artifact and tool use in its output, passes in mode auto, whatever became of
\* the proxies; so it does with tool use that only a proxy logged in time, if
\* both artifacts are there and could be read.
EvidenceWins ==
    /\ at = "done" /\ setup.mode # "force"
    /\ match /\ exit = "ok" /\ Evidence
    /\ \/ output["measured"] = "tool"
       \/ found.proxy # "error" /\ \A p \in Phases : file[p]
    => status = "PASS"

\* The documented matrix of statuses.  Rows: the process comes first (timeout,
\* failed capture, nonzero exit), then validators and tool verdict.  It has no
\* row for a backend without tools.
PassRows == [v \in Verdicts |-> IF v = "confirmed_tool_use"
                                  THEN "PASS" ELSE "PASS_WITH_POLICY_VIOLATION"]
FailRows == [v \in Verdicts |-> IF v = "no_tool_event_observed"
                                  THEN "NO_TOOL_CALL" ELSE "FAIL"]
MatrixStatus ==
    CASE exit = "timeout" -> "TIMEOUT"
      [] exit # "timeout" /\ CaptureFailed(found.capture) -> "HARNESS_ERROR"
      [] exit = "nonzero" /\ ~CaptureFailed(found.capture) -> "SHELL_ERROR"
      [] exit = "ok" /\ ~CaptureFailed(found.capture) ->
            IF match THEN PassRows[found.verdict] ELSE FailRows[found.verdict]

\* The verdict of a case is the one of the matrix, whatever the adapter said,
\* unless the case never got one (AdapterError, a forced proxy that failed).
VerdictFollowsMatrix ==
    at = "done" /\ exit # "none" /\ ~ForceFails /\ status # "TOOL_UNSUPPORTED"
        => status = MatrixStatus

\* When the case is over, also by an exception anywhere in it, no proxy listens.
ProxiesStopped ==
    at \in {"done", "aborted"} => \A p \in Phases : proxy[p] # "up"

\* In mode force a PASS is a case whose two commands went through their proxies.
ForceIsStrict ==
    at = "done" /\ status = "PASS" /\ setup.mode = "force"
        => \A p \in Phases : routed[p]

\* The case comes to an end: no request that is still in a handler, and no
\* exception, keeps the runner from the next case or from leaving.
CaseEnds == <>(at \in {"done", "aborted"})
=============================================================================
