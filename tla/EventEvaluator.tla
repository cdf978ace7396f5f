--------------------------- MODULE EventEvaluator ---------------------------
(* apply_event_evaluation of gripprobe/event_evaluator.py, and the derivation of
   the tool verdict it reads (gripprobe/telemetry.py): what the run of a case
   and its telemetry make of the status of the case.  No state. *)

\* What a case may leave: the status the adapter gave it ("FAIL" stands for
\* NO_TOOL_CALL too), how its measured command ended, whether match_percent is
\* 100, what the extraction says of the captured output, and the tool verdict.
Statuses == {"PASS", "PASS_WITH_POLICY_VIOLATION", "FAIL", "NO_TOOL_CALL",
             "TIMEOUT", "TOOL_UNSUPPORTED", "SHELL_ERROR", "HARNESS_ERROR"}
Exits == {"none", "ok", "nonzero", "timeout"}
Captures == {"collected", "partial", "missing", "wrapper_parse_error"}
Verdicts == {"confirmed_tool_use", "no_tool_event_observed",
             "tool_event_not_observable", "tool_event_inconclusive"}
ProxyStatuses == {"collected", "skipped", "error"}

CaptureFailed(capture) == capture \in {"missing", "wrapper_parse_error"}

-----------------------------------------------------------------------------
(* _derive_tool_event_verdict *)

\* Variant: a failed proxy hides what the output of the agent shows.
ToolVerdictProxyFirst(capture, toolEvents, capable, mode, proxyStatus) ==
    CASE CaptureFailed(capture) -> "tool_event_inconclusive"
      [] ~CaptureFailed(capture) /\ proxyStatus = "error" ->
            "tool_event_inconclusive"
      [] ~CaptureFailed(capture) /\ proxyStatus # "error" ->
            IF toolEvents THEN "confirmed_tool_use" ELSE "no_tool_event_observed"

\* Variant: a verdict of its own for what the proxy failed to see.
ToolVerdictOfItsOwn(capture, toolEvents, capable, mode, proxyStatus) ==
    IF mode = "force" /\ proxyStatus = "error" THEN "proxy_error"
    ELSE IF toolEvents THEN "confirmed_tool_use" ELSE "no_tool_event_observed"

\* The verdict, without its reason; toolEvents: there is a tool call or a tool
\* result among the measured events.
ToolVerdict(capture, toolEvents, capable, mode, proxyStatus) ==
    IF CaptureFailed(capture) THEN "tool_event_inconclusive"
    ELSE IF toolEvents THEN "confirmed_tool_use"
    ELSE IF mode = "force" /\ proxyStatus = "error"
      THEN "tool_event_inconclusive"
    ELSE IF ~capable THEN "tool_event_not_observable"
    ELSE "no_tool_event_observed"

-----------------------------------------------------------------------------
(* _evaluate_status *)

ValidatorsPass(r) ==
    r.status \in {"PASS", "PASS_WITH_POLICY_VIOLATION"} \/ r.match

\* The part of the chain that is reached with readable telemetry and a process
\* that ended well.
ArtifactStatus(r) ==
    LET confirmed == r.verdict = "confirmed_tool_use"
    IN  IF ValidatorsPass(r)
          THEN IF confirmed THEN "PASS" ELSE "PASS_WITH_POLICY_VIOLATION"
          ELSE IF r.verdict = "no_tool_event_observed" THEN "NO_TOOL_CALL"
                                                       ELSE "FAIL"

\* Variant: the exit code of the agent is not looked at.
EvaluateStatusAnyExit(r) ==
    IF r.status = "TIMEOUT" \/ r.exit = "timeout" THEN "TIMEOUT"
    ELSE IF r.status = "HARNESS_ERROR" \/ CaptureFailed(r.capture)
      THEN "HARNESS_ERROR"
    ELSE IF r.status \in {"SHELL_ERROR", "TOOL_UNSUPPORTED"} THEN r.status
    ELSE ArtifactStatus(r)

EvaluateStatus(r) ==
    IF r.status = "TIMEOUT" \/ r.exit = "timeout" THEN "TIMEOUT"
    ELSE IF r.status = "HARNESS_ERROR" \/ CaptureFailed(r.capture)
      THEN "HARNESS_ERROR"
    ELSE IF r.status = "SHELL_ERROR" \/ r.exit = "nonzero" THEN "SHELL_ERROR"
    ELSE IF r.status = "TOOL_UNSUPPORTED" THEN "TOOL_UNSUPPORTED"
    ELSE ArtifactStatus(r)
=============================================================================
