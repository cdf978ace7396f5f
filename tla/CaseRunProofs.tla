--------------------------- MODULE CaseRunProofs ---------------------------
(* The safety of CaseRun for any number of requests: its verdicts rest on what
   the measured phase did, and no proxy survives it.

   What a case ends with is decided in its last step (Evaluate) from variables
   that were set long before, some of them while handler threads went on
   writing.  The inductive invariant says what each stage may rely on. *)
EXTENDS CaseRun, TLAPS

\* A case without proxies has no artifact and no request.
NotProxied ==
    ~Proxied => /\ at # "start"
                /\ \A p \in Phases : proxy[p] = "none" /\ ~routed[p]
                /\ \A p \in Phases, i \in 1 .. MaxRequests :
                       request[p][i] = "unsent"

\* Only a command that was routed to a proxy has sent requests, and none is
\* routed before it starts.
RequestsAreRouted ==
    /\ at = "start" => \A p \in Phases : ~routed[p]
    /\ at = "before" => ~routed[phase]
    /\ at \in {"before", "command", "after"} /\ phase = "warmup"
           => ~routed["measured"]
    /\ \A p \in Phases, i \in 1 .. MaxRequests :
           request[p][i] # "unsent" => routed[p]

\* The runner does not get past the teardown with an exception or a proxy.
Over == {"extract", "evaluate", "done"}
TornDown ==
    /\ at \in Over => ~raised
    /\ at \in Over \cup {"aborted"} => \A p \in Phases : proxy[p] # "up"

\* The measured command is over when the adapter classifies, and stays so for
\* every result but the one made of an AdapterError.
MeasuredExit ==
    /\ at \in {"start", "before", "command"} => exit = "none" /\ ~raised
    /\ at = "after" /\ ~raised => (exit = "none" <=> phase = "warmup")
    /\ at = "classify" => exit # "none" /\ ~raised
    /\ at \in {"teardown", "extract", "evaluate"} /\ ~raised =>
           (exit = "none" <=> status = "HARNESS_ERROR")

\* What the adapter says of a case agrees with the process and the validators.
AdapterAgrees ==
    /\ at \in {"start", "before", "command", "after", "classify"} => ~match
    /\ at \in {"teardown", "extract", "evaluate"} /\ ~raised =>
          /\ status \in {"PASS", "FAIL", "TIMEOUT", "SHELL_ERROR",
                         "TOOL_UNSUPPORTED", "HARNESS_ERROR"}
          /\ status = "TIMEOUT" <=> exit = "timeout"
          /\ status = "SHELL_ERROR" => exit = "nonzero"
          /\ status = "PASS" => match
          /\ match => status \in {"PASS", "TIMEOUT"}

\* What was extracted stays true of the case: a late event is not a tool event.
FoundHolds ==
    at \in {"evaluate", "done"} =>
        /\ found.capture = Capture
        /\ found.proxy \in {ProxyStatus(TRUE), ProxyStatus(FALSE)}
        /\ found.verdict = ToolVerdict(Capture, ToolEvents(found.proxy), setup.capable,
                                       setup.mode, found.proxy)

\* The verdict of a case that is over.
Verdict == PassIsEvidenced /\ EvidenceWins /\ VerdictFollowsMatrix

IInv == /\ TypeOK /\ NotProxied /\ RequestsAreRouted /\ TornDown
        /\ MeasuredExit /\ AdapterAgrees /\ FoundHolds /\ Verdict

-----------------------------------------------------------------------------
(* Initial states and types *)

LEMMA InitInv == Init => IInv
<1> SUFFICES ASSUME Init PROVE IInv
  OBVIOUS
<1>1. TypeOK
  BY RequestsAssumption DEF Init, TypeOK, NotExtracted, Stages, Phases, Outputs,
     Exits, Captures, Verdicts, ProxyStatuses, RequestStates
<1>2. NotProxied /\ RequestsAreRouted
  BY DEF Init, NotProxied, RequestsAreRouted, Phases
<1>3. TornDown /\ MeasuredExit /\ AdapterAgrees /\ FoundHolds
  BY DEF Init, TornDown, MeasuredExit, AdapterAgrees, FoundHolds, Over
<1>4. Verdict
  BY DEF Init, Verdict, PassIsEvidenced, EvidenceWins, VerdictFollowsMatrix
<1>. QED
  BY <1>1, <1>2, <1>3, <1>4 DEF IInv

LEMMA TypeStep == TypeOK /\ [Next]_vars => TypeOK'
<1>1. ASSUME TypeOK, StartProxy PROVE TypeOK'
  BY <1>1, ZenonT(60) DEF TypeOK, StartProxy, Phases, Other, Stages
<1>2. ASSUME TypeOK, RunCommand PROVE TypeOK'
  BY <1>2 DEF TypeOK, RunCommand, Phases, Stages, Outputs
<1>3. ASSUME TypeOK, CommandEnds PROVE TypeOK'
  BY <1>3 DEF TypeOK, CommandEnds, Phases, Stages, Outputs, Exits
<1>4. ASSUME TypeOK, CommandRaises PROVE TypeOK'
  BY <1>4 DEF TypeOK, CommandRaises, Stages
<1>5. ASSUME TypeOK, StopAfterCommand PROVE TypeOK'
  BY <1>5 DEF TypeOK, StopAfterCommand, Phases, Stages
<1>6. ASSUME TypeOK, Classify PROVE TypeOK'
  BY <1>6 DEF TypeOK, Classify, AdapterStatus, Stages, Statuses
<1>7. ASSUME TypeOK, AdapterFails PROVE TypeOK'
  BY <1>7 DEF TypeOK, AdapterFails, Stages, Statuses, Exits
<1>8. ASSUME TypeOK, RunCaseRaises PROVE TypeOK'
  BY <1>8 DEF TypeOK, RunCaseRaises, Stages
<1>9. ASSUME TypeOK, Teardown PROVE TypeOK'
  BY <1>9 DEF TypeOK, Teardown, Stages, Phases
<1>10. ASSUME TypeOK, Extract PROVE TypeOK'
  <2>1. PICK s \in ProxyStatuses :
           found' = [capture |-> Capture, proxy |-> s,
                     verdict |-> ToolVerdict(Capture, ToolEvents(s), setup.capable,
                                             setup.mode, s)]
    BY <1>10 DEF Extract, ProxyStatus, ProxyStatuses
  <2>2. ToolVerdict(Capture, ToolEvents(s), setup.capable, setup.mode, s) \in Verdicts
    BY DEF ToolVerdict, Verdicts
  <2>. QED
    BY <1>10, <2>1, <2>2 DEF TypeOK, Extract, Stages, Captures, Capture
<1>11. ASSUME TypeOK, Evaluate PROVE TypeOK'
  BY <1>11 DEF TypeOK, Evaluate, Stages, Statuses, EvaluateStatus, ArtifactStatus
<1>12. ASSUME TypeOK, NEW p \in Phases, NEW i \in 1 .. MaxRequests,
              SendRequest(p, i) PROVE TypeOK'
  BY <1>12 DEF TypeOK, SendRequest, RequestStates
<1>13. ASSUME TypeOK, NEW p \in Phases, NEW i \in 1 .. MaxRequests,
              LogRequest(p, i) PROVE TypeOK'
  BY <1>13 DEF TypeOK, LogRequest, RequestStates
<1>14. ASSUME TypeOK, UNCHANGED vars PROVE TypeOK'
  BY <1>14 DEF TypeOK, vars
<1>. QED
  BY <1>1, <1>2, <1>3, <1>4, <1>5, <1>6, <1>7, <1>8, <1>9, <1>10, <1>11, <1>12,
     <1>13, <1>14 DEF Next, Runner, Beside

-----------------------------------------------------------------------------
(* The proxies *)

\* What the runner and what runs beside it never change.
LEMMA SetupStays == [Next]_vars => setup' = setup
  BY DEF Next, Runner, Beside, vars, StartProxy, RunCommand, CommandEnds,
     CommandRaises, StopAfterCommand, Classify, AdapterFails, RunCaseRaises,
     Teardown, Extract, Evaluate, SendRequest, LogRequest

\* A case without proxies stays without.
LEMMA NotProxiedStep == TypeOK /\ NotProxied /\ [Next]_vars => NotProxied'
<1> SUFFICES ASSUME TypeOK, NotProxied, [Next]_vars, ~Proxied' PROVE NotProxied'
  BY DEF NotProxied
<1>1. ~Proxied
  BY SetupStays DEF Proxied
<1>2. CASE StartProxy
  BY <1>1, <1>2 DEF StartProxy, NotProxied
<1>3. CASE RunCommand
  BY <1>1, <1>3 DEF RunCommand, NotProxied, TypeOK, Phases
<1>4. CASE StopAfterCommand \/ Teardown
  BY <1>1, <1>4 DEF StopAfterCommand, Teardown, NotProxied, TypeOK, Phases
<1>5. CASE CommandEnds \/ CommandRaises \/ Classify \/ AdapterFails
           \/ RunCaseRaises \/ Extract \/ Evaluate \/ UNCHANGED vars
  BY <1>1, <1>5 DEF CommandEnds, CommandRaises, Classify, AdapterFails,
     RunCaseRaises, Extract, Evaluate, vars, NotProxied
<1>6. ASSUME NEW p \in Phases, NEW i \in 1 .. MaxRequests,
             SendRequest(p, i) \/ LogRequest(p, i)
      PROVE  NotProxied'
  BY <1>1, <1>6 DEF SendRequest, LogRequest, NotProxied
<1>. QED
  BY <1>2, <1>3, <1>4, <1>5, <1>6 DEF Next, Runner, Beside

\* A request is sent by a command that was pointed to its proxy, and no command
\* is pointed away from one: routed is set once, before the command starts.
LEMMA RoutedStep ==
    TypeOK /\ RequestsAreRouted /\ [Next]_vars => RequestsAreRouted'
<1> SUFFICES ASSUME TypeOK, RequestsAreRouted, [Next]_vars
             PROVE  RequestsAreRouted'
  OBVIOUS
<1>1. CASE RunCommand
  BY <1>1 DEF RunCommand, RequestsAreRouted, TypeOK, Phases
<1>2. CASE StartProxy \/ StopAfterCommand
  BY <1>2 DEF StartProxy, StopAfterCommand, Other, RequestsAreRouted, TypeOK,
     Phases
<1>3. CASE CommandEnds \/ CommandRaises \/ Classify \/ AdapterFails
           \/ RunCaseRaises \/ Teardown \/ Extract \/ Evaluate \/ UNCHANGED vars
  BY <1>3 DEF CommandEnds, CommandRaises, Classify, AdapterFails, RunCaseRaises,
     Teardown, Extract, Evaluate, vars, RequestsAreRouted
<1>4. ASSUME NEW p \in Phases, NEW i \in 1 .. MaxRequests, SendRequest(p, i)
      PROVE  RequestsAreRouted'
  BY <1>4 DEF SendRequest, RequestsAreRouted, TypeOK, Phases
<1>5. ASSUME NEW p \in Phases, NEW i \in 1 .. MaxRequests, LogRequest(p, i)
      PROVE  RequestsAreRouted'
  BY <1>5 DEF LogRequest, RequestsAreRouted, TypeOK, Phases
<1>. QED
  BY <1>1, <1>2, <1>3, <1>4, <1>5 DEF Next, Runner, Beside

\* Only the teardown leads past itself, and it stops what is up.
LEMMA TornDownStep == TypeOK /\ TornDown /\ [Next]_vars => TornDown'
<1> SUFFICES ASSUME TypeOK, TornDown, [Next]_vars PROVE TornDown'
  OBVIOUS
<1>1. CASE Teardown
  BY <1>1 DEF Teardown, TornDown, TypeOK, Over
<1>2. CASE StartProxy \/ RunCommand \/ CommandEnds \/ CommandRaises
           \/ StopAfterCommand \/ Classify \/ AdapterFails \/ RunCaseRaises
  BY <1>2 DEF StartProxy, RunCommand, CommandEnds, CommandRaises,
     StopAfterCommand, Classify, AdapterFails, RunCaseRaises, TornDown, Over
<1>3. CASE Extract \/ Evaluate \/ Beside \/ UNCHANGED vars
  BY <1>3 DEF Extract, Evaluate, Beside, SendRequest, LogRequest, vars,
     TornDown, Over
<1>. QED
  BY <1>1, <1>2, <1>3 DEF Next, Runner

-----------------------------------------------------------------------------
(* The process and the adapter *)

\* The exit of the measured command, from its end to the verdict.
LEMMA ExitStep == TypeOK /\ MeasuredExit /\ [Next]_vars => MeasuredExit'
<1> SUFFICES ASSUME TypeOK, MeasuredExit, [Next]_vars PROVE MeasuredExit'
  OBVIOUS
<1>1. CASE StartProxy \/ RunCommand \/ CommandRaises \/ RunCaseRaises
  BY <1>1 DEF StartProxy, RunCommand, CommandRaises, RunCaseRaises, MeasuredExit
<1>2. CASE CommandEnds
  BY <1>2 DEF CommandEnds, MeasuredExit, TypeOK, Phases
<1>3. CASE StopAfterCommand
  BY <1>3 DEF StopAfterCommand, MeasuredExit, TypeOK, Phases
<1>4. CASE Classify
  BY <1>4 DEF Classify, AdapterStatus, MeasuredExit
<1>5. CASE AdapterFails
  BY <1>5 DEF AdapterFails, MeasuredExit
<1>6. CASE Teardown \/ Extract \/ Evaluate \/ Beside \/ UNCHANGED vars
  BY <1>6 DEF Teardown, Extract, Evaluate, Beside, SendRequest, LogRequest, vars,
     MeasuredExit
<1>. QED
  BY <1>1, <1>2, <1>3, <1>4, <1>5, <1>6 DEF Next, Runner

\* The status the adapter gives, and what it says of exit and validators.
LEMMA AgreesStep ==
    TypeOK /\ MeasuredExit /\ AdapterAgrees /\ [Next]_vars => AdapterAgrees'
<1> SUFFICES ASSUME TypeOK, MeasuredExit, AdapterAgrees, [Next]_vars
             PROVE  AdapterAgrees'
  OBVIOUS
<1>1. CASE StartProxy \/ RunCommand \/ CommandRaises \/ RunCaseRaises
  BY <1>1 DEF StartProxy, RunCommand, CommandRaises, RunCaseRaises, AdapterAgrees
<1>2. CASE CommandEnds
  BY <1>2 DEF CommandEnds, AdapterAgrees
<1>3. CASE StopAfterCommand
  BY <1>3 DEF StopAfterCommand, MeasuredExit, AdapterAgrees
<1>4. CASE Classify
  BY <1>4 DEF Classify, AdapterStatus, MeasuredExit, AdapterAgrees
<1>5. CASE AdapterFails
  BY <1>5 DEF AdapterFails, AdapterAgrees
<1>6. CASE Teardown \/ Extract \/ Evaluate \/ Beside \/ UNCHANGED vars
  BY <1>6 DEF Teardown, Extract, Evaluate, Beside, SendRequest, LogRequest, vars,
     AdapterAgrees
<1>. QED
  BY <1>1, <1>2, <1>3, <1>4, <1>5, <1>6 DEF Next, Runner

-----------------------------------------------------------------------------
(* The extraction *)

\* No request becomes a tool event once the extraction is over.
LEMMA LoggedStays ==
    ASSUME TypeOK, at \in {"evaluate", "done"}, Beside
    PROVE  \A p \in Phases : Logged(p)' <=> Logged(p)
<1>1. PICK q \in Phases, j \in 1 .. MaxRequests :
          SendRequest(q, j) \/ LogRequest(q, j)
  BY DEF Beside
<1>2. request[q][j] \in {"unsent", "pending"}
  BY <1>1 DEF SendRequest, LogRequest
<1>3. \E s \in {"pending", "late"} : request' = [request EXCEPT ![q][j] = s]
  BY <1>1 DEF SendRequest, LogRequest
<1>. QED
  BY <1>2, <1>3 DEF Logged, TypeOK

\* What was extracted stays true to the end of the case.
LEMMA FoundStep == TypeOK /\ FoundHolds /\ [Next]_vars => FoundHolds'
<1> SUFFICES ASSUME TypeOK, FoundHolds, [Next]_vars PROVE FoundHolds'
  OBVIOUS
<1>1. CASE Extract
  <2>1. PICK readable \in BOOLEAN :
           LET s == ProxyStatus(readable)
           IN  found' = [capture |-> Capture, proxy |-> s,
                         verdict |-> ToolVerdict(Capture, ToolEvents(s), setup.capable,
                                                 setup.mode, s)]
    BY <1>1 DEF Extract
  <2>2. UNCHANGED <<setup, file, output, request>>
    BY <1>1 DEF Extract
  <2>3. /\ Capture' = Capture /\ \A r : ProxyStatus(r)' = ProxyStatus(r)
        /\ \A s : ToolEvents(s)' <=> ToolEvents(s)
    BY <2>2 DEF Capture, ProxyStatus, Proxied, ToolEvents, Logged
  <2>4. /\ found'.capture = Capture
        /\ found'.proxy \in {ProxyStatus(TRUE), ProxyStatus(FALSE)}
        /\ found'.verdict = ToolVerdict(Capture, ToolEvents(found'.proxy), setup.capable,
                                        setup.mode, found'.proxy)
    BY <2>1
  <2>. QED
    BY <2>2, <2>3, <2>4 DEF FoundHolds, ToolVerdict
<1>2. CASE Evaluate \/ UNCHANGED vars
  BY <1>2 DEF Evaluate, vars, FoundHolds, Capture, ProxyStatus, Proxied,
     ToolEvents, Logged
<1>3. CASE Beside
  <2> SUFFICES ASSUME at \in {"evaluate", "done"} PROVE FoundHolds'
    BY <1>3 DEF Beside, SendRequest, LogRequest, FoundHolds
  <2>1. UNCHANGED <<setup, at, file, output, found>>
    BY <1>3 DEF Beside, SendRequest, LogRequest
  <2>2. Capture' = Capture /\ \A r : ProxyStatus(r)' = ProxyStatus(r)
    BY <2>1 DEF Capture, ProxyStatus, Proxied
  <2>3. \A s : ToolEvents(s)' <=> ToolEvents(s)
    BY <1>3, <2>1, <2>2, LoggedStays DEF ToolEvents, Phases
  <2>. QED
    BY <2>1, <2>2, <2>3 DEF FoundHolds, ToolVerdict
<1>4. CASE Runner /\ ~Extract /\ ~Evaluate
  BY <1>4 DEF Runner, StartProxy, RunCommand, CommandEnds, CommandRaises,
     StopAfterCommand, Classify, AdapterFails, RunCaseRaises, Teardown, FoundHolds
<1>. QED
  BY <1>1, <1>2, <1>3, <1>4 DEF Next

-----------------------------------------------------------------------------
(* The verdict *)

\* Tool use is confirmed by readable evidence of the measured phase, and by
\* nothing else.
LEMMA ConfirmedByEvidence ==
    ASSUME NEW verdict, NEW s,
           verdict = ToolVerdict(Capture, ToolEvents(s), setup.capable, setup.mode, s)
    PROVE  /\ verdict = "confirmed_tool_use" =>
                  Capture = "collected" /\ Evidence
           /\ Evidence /\ (output["measured"] = "tool" \/ s = "collected")
                  => verdict = "confirmed_tool_use"
  BY DEF ToolVerdict, CaptureFailed, Capture, ToolEvents, Evidence

\* Requests that were logged have artifacts that are looked at, once both exist
\* and can be read.
LEMMA LoggedIsCollected ==
    ASSUME NotProxied, NEW q \in Phases, Logged(q), \A p \in Phases : file[p],
           NEW readable, ProxyStatus(readable) # "error"
    PROVE  ProxyStatus(readable) = "collected"
  BY DEF NotProxied, Logged, ProxyStatus

\* The step that decides.
LEMMA EvaluateStep ==
    ASSUME TypeOK, NotProxied, TornDown, MeasuredExit, AdapterAgrees, FoundHolds,
           Evaluate
    PROVE  Verdict'
<1> DEFINE r == [status |-> IF ForceFails THEN "HARNESS_ERROR" ELSE status,
                 match |-> match /\ ~ForceFails, exit |-> exit,
                 capture |-> found.capture, verdict |-> found.verdict]
<1>1. /\ at = "evaluate" /\ at' = "done" /\ status' = EvaluateStatus(r)
      /\ UNCHANGED <<setup, file, request, output, exit, match, found>>
  BY DEF Evaluate
<1>2. /\ found.verdict = "confirmed_tool_use" =>
             found.capture = "collected" /\ Evidence
      /\ Evidence /\ (output["measured"] = "tool" \/ found.proxy = "collected")
             => found.verdict = "confirmed_tool_use"
      /\ found.capture = Capture
  BY <1>1, ConfirmedByEvidence DEF FoundHolds
<1>3. (Evidence' <=> Evidence) /\ (ForceFails' <=> ForceFails)
      /\ MatrixStatus' = MatrixStatus
  BY <1>1 DEF Evidence, Logged, ForceFails, MatrixStatus, PassRows, FailRows
<1>4. /\ ~raised
      /\ exit = "none" <=> status = "HARNESS_ERROR"
      /\ status \in {"PASS", "FAIL", "TIMEOUT", "SHELL_ERROR",
                     "TOOL_UNSUPPORTED", "HARNESS_ERROR"}
      /\ status = "TIMEOUT" <=> exit = "timeout"
      /\ status = "SHELL_ERROR" => exit = "nonzero"
      /\ status = "PASS" => match
      /\ match => status \in {"PASS", "TIMEOUT"}
  BY <1>1 DEF TornDown, MeasuredExit, AdapterAgrees, Over
<1>5. exit \in Exits /\ match \in BOOLEAN /\ found.verdict \in Verdicts
  BY DEF TypeOK
<1>6. PassIsEvidenced'
  <2> SUFFICES ASSUME status' = "PASS" PROVE match /\ exit = "ok" /\ Evidence
    BY <1>1, <1>3 DEF PassIsEvidenced
  <2>1. ~ForceFails /\ match /\ exit = "ok"
    BY <1>1, <1>4, <1>5 DEF EvaluateStatus, ArtifactStatus, ValidatorsPass,
       CaptureFailed, Exits
  <2>2. found.verdict = "confirmed_tool_use"
    BY <1>1, <1>4 DEF EvaluateStatus, ArtifactStatus
  <2>. QED
    BY <1>2, <2>1, <2>2
<1>7. EvidenceWins'
  <2> SUFFICES ASSUME setup.mode # "force", match, exit = "ok", Evidence,
                      \/ output["measured"] = "tool"
                      \/ found.proxy # "error" /\ \A p \in Phases : file[p]
               PROVE  status' = "PASS"
    BY <1>1, <1>3 DEF EvidenceWins
  <2>1. output["measured"] = "tool" \/ found.proxy = "collected"
    BY <1>1, LoggedIsCollected DEF Evidence, Phases, FoundHolds
  <2>2. found.verdict = "confirmed_tool_use" /\ found.capture = "collected"
    BY <1>2, <2>1
  <2>3. ~ForceFails /\ status = "PASS"
    BY <1>4 DEF ForceFails
  <2>. QED
    BY <1>1, <2>2, <2>3 DEF EvaluateStatus, ArtifactStatus, ValidatorsPass,
       CaptureFailed
<1>8. VerdictFollowsMatrix'
  <2> SUFFICES ASSUME exit # "none", ~ForceFails, status' # "TOOL_UNSUPPORTED"
               PROVE  status' = MatrixStatus
    BY <1>1, <1>3 DEF VerdictFollowsMatrix
  <2>1. CASE exit # "ok" \/ CaptureFailed(found.capture)
    <3>1. CASE exit = "timeout"
      BY <1>1, <3>1 DEF MatrixStatus, EvaluateStatus
    <3>2. CASE exit # "timeout" /\ CaptureFailed(found.capture)
      BY <1>1, <1>4, <3>2 DEF MatrixStatus, EvaluateStatus
    <3>3. CASE exit = "nonzero" /\ ~CaptureFailed(found.capture)
      BY <1>1, <1>4, <3>3 DEF MatrixStatus, EvaluateStatus
    <3>. QED
      BY <1>5, <2>1, <3>1, <3>2, <3>3 DEF Exits
  <2>2. CASE exit = "ok" /\ ~CaptureFailed(found.capture)
    <3>1. status' = ArtifactStatus(r)
      BY <1>1, <1>4, <2>2 DEF EvaluateStatus
    <3>2. ValidatorsPass(r) <=> match
      BY <1>4, <2>2 DEF ValidatorsPass
    <3>. QED
      BY <1>5, <2>2, <3>1, <3>2 DEF MatrixStatus, ArtifactStatus, PassRows, FailRows
  <2>. QED
    BY <1>5, <2>1, <2>2 DEF Exits
<1>. QED
  BY <1>6, <1>7, <1>8 DEF Verdict

\* Once given, a verdict stands: requests that are logged late change nothing.
LEMMA VerdictStep ==
    ASSUME TypeOK, NotProxied, TornDown, MeasuredExit, AdapterAgrees, FoundHolds,
           Verdict, [Next]_vars
    PROVE  Verdict'
<1>1. CASE Evaluate
  BY <1>1, EvaluateStep
<1>2. CASE Beside \/ UNCHANGED vars
  <2> SUFFICES ASSUME at = "done" PROVE Verdict'
    BY <1>2 DEF Beside, SendRequest, LogRequest, vars, Verdict, PassIsEvidenced,
       EvidenceWins, VerdictFollowsMatrix
  <2>1. UNCHANGED <<setup, at, file, output, exit, match, status, found>>
    BY <1>2 DEF Beside, SendRequest, LogRequest, vars
  <2>2. Logged("measured")' <=> Logged("measured")
    BY <1>2, LoggedStays DEF vars, Logged, Phases
  <2>3. (Evidence' <=> Evidence) /\ (ForceFails' <=> ForceFails)
        /\ MatrixStatus' = MatrixStatus
    BY <2>1, <2>2 DEF Evidence, ForceFails, MatrixStatus, PassRows, FailRows
  <2>. QED
    BY <2>1, <2>3 DEF Verdict, PassIsEvidenced, EvidenceWins, VerdictFollowsMatrix
<1>3. CASE Runner /\ ~Evaluate
  BY <1>3 DEF Runner, StartProxy, RunCommand, CommandEnds, CommandRaises,
     StopAfterCommand, Classify, AdapterFails, RunCaseRaises, Teardown, Extract,
     Verdict, PassIsEvidenced, EvidenceWins, VerdictFollowsMatrix
<1>. QED
  BY <1>1, <1>2, <1>3 DEF Next

-----------------------------------------------------------------------------
(* The theorems *)

\* The invariant is inductive.
LEMMA InvStep == IInv /\ [Next]_vars => IInv'
  BY TypeStep, NotProxiedStep, RoutedStep, TornDownStep, ExitStep, AgreesStep,
     FoundStep, VerdictStep DEF IInv

\* And so it holds at every step of a case.
THEOREM Invariant == Spec => []IInv
  BY InitInv, InvStep, PTL DEF Spec

\* A PASS rests on the artifact, a process that ended well and tool use observed
\* in the measured phase.
THEOREM PassesAreEvidenced == Spec => []PassIsEvidenced
<1>1. IInv => PassIsEvidenced
  BY DEF IInv, Verdict
<1>. QED
  BY <1>1, Invariant, PTL

\* No proxy that failed takes a PASS away in mode auto.
THEOREM EvidenceAlwaysWins == Spec => []EvidenceWins
<1>1. IInv => EvidenceWins
  BY DEF IInv, Verdict
<1>. QED
  BY <1>1, Invariant, PTL

\* The status of a case is the one of the documented matrix.
THEOREM MatrixIsFollowed == Spec => []VerdictFollowsMatrix
<1>1. IInv => VerdictFollowsMatrix
  BY DEF IInv, Verdict
<1>. QED
  BY <1>1, Invariant, PTL

\* No proxy listens when a case is over, however it came to its end.
THEOREM NoProxyIsLeft == Spec => []ProxiesStopped
<1>1. IInv => ProxiesStopped
  BY DEF IInv, TornDown, ProxiesStopped, Over
<1>. QED
  BY <1>1, Invariant, PTL

\* Every reachable state of a case is well typed.
THEOREM CaseTypeCorrect == Spec => []TypeOK
<1>1. IInv => TypeOK
  BY DEF IInv
<1>. QED
  BY <1>1, Invariant, PTL
-----------------------------------------------------------------------------
(* Mode force *)

\* Both commands were run when the adapter classifies, and a command that was run
\* was routed exactly if its proxy had started: a proxy is stopped after its own
\* command, never before.
CommandsRan ==
    /\ at = "start" => \A p \in Phases : output[p] = "none" /\ proxy[p] # "stopped"
    /\ at \in {"before", "command", "after"} =>
           /\ proxy["measured"] # "stopped"
           /\ phase = "warmup" => proxy["warmup"] # "stopped"
    /\ at \in {"before", "command", "after"} /\ phase = "measured"
           => output["warmup"] # "none"
    /\ at \in {"command", "after"} => output[phase] # "none"
    /\ at \in {"classify", "teardown", "extract", "evaluate", "done"} /\ ~raised
           => \A p \in Phases : output[p] # "none"
    /\ \A p \in Phases : output[p] # "none" => (routed[p] <=> proxy[p] # "none")

\* A forced proxy that failed is never followed by a PASS.
ForcedIsKept == at = "done" /\ status = "PASS" => ~ForceFails

\* What mode force does promise: a PASS has both artifacts, and each command went
\* through its proxy unless that proxy had failed to start.
ForceUpToStart ==
    at = "done" /\ status = "PASS" /\ setup.mode = "force"
        => \A p \in Phases : file[p] /\ (routed[p] \/ proxy[p] = "none")

LEMMA CommandsRanStep == TypeOK /\ CommandsRan /\ [Next]_vars => CommandsRan'
<1> SUFFICES ASSUME TypeOK, CommandsRan, [Next]_vars PROVE CommandsRan'
  OBVIOUS
<1>1. CASE StartProxy
  <2>1. /\ at = "start" /\ at' \in {"start", "before"} /\ output' = output
        /\ at' = "before" => phase' = "warmup"
    BY <1>1 DEF StartProxy, Other
  <2>2. \A p \in Phases : proxy'[p] \in {proxy[p], "up"}
    BY <1>1 DEF StartProxy, TypeOK
  <2>. QED
    BY <2>1, <2>2 DEF CommandsRan, Phases
<1>2. CASE RunCommand
  BY <1>2 DEF RunCommand, CommandsRan, TypeOK, Phases
<1>3. CASE CommandEnds \/ CommandRaises
  BY <1>3 DEF CommandEnds, CommandRaises, CommandsRan, TypeOK, Phases
<1>4. CASE StopAfterCommand
  <2>1. /\ output' = output /\ routed' = routed /\ phase' = "measured"
        /\ raised' = raised
        /\ at' = IF raised THEN "teardown"
                 ELSE IF phase = "warmup" THEN "before" ELSE "classify"
        /\ \A p \in Phases : /\ proxy'[p] # "none" <=> proxy[p] # "none"
                             /\ p # phase => proxy'[p] = proxy[p]
    BY <1>4 DEF StopAfterCommand, TypeOK
  <2>2. /\ output[phase] # "none" /\ (phase = "measured" => output["warmup"] # "none")
        /\ proxy["measured"] # "stopped"
    BY <1>4 DEF StopAfterCommand, CommandsRan
  <2>. QED
    BY <2>1, <2>2 DEF CommandsRan, TypeOK, Phases
<1>5. CASE Teardown
  <2>1. /\ UNCHANGED <<phase, raised, output, routed>> /\ at = "teardown"
        /\ at' = IF raised THEN "aborted" ELSE "extract"
        /\ \A p \in Phases : proxy'[p] # "none" <=> proxy[p] # "none"
    BY <1>5 DEF Teardown, TypeOK
  <2>. QED
    BY <2>1 DEF CommandsRan
<1>6. CASE Classify \/ AdapterFails \/ RunCaseRaises \/ Extract \/ Evaluate
           \/ UNCHANGED vars
  BY <1>6 DEF Classify, AdapterFails, RunCaseRaises, Extract, Evaluate, vars,
     CommandsRan
<1>7. CASE Beside
  BY <1>7 DEF Beside, SendRequest, LogRequest, CommandsRan
<1>. QED
  BY <1>1, <1>2, <1>3, <1>4, <1>5, <1>6, <1>7 DEF Next, Runner

LEMMA ForcedStep == IInv /\ ForcedIsKept /\ [Next]_vars => ForcedIsKept'
<1> SUFFICES ASSUME IInv, ForcedIsKept, [Next]_vars, at' = "done", status' = "PASS"
             PROVE  ~ForceFails'
  BY DEF ForcedIsKept
<1>1. CASE Evaluate
  <2>1. exit = "none" <=> status = "HARNESS_ERROR"
    BY <1>1 DEF IInv, TornDown, MeasuredExit, Over, Evaluate
  <2>2. ~ForceFails
    BY <1>1, <2>1 DEF Evaluate, EvaluateStatus, ArtifactStatus, ValidatorsPass
  <2>. QED
    BY <1>1, <2>2 DEF Evaluate, ForceFails
<1>2. CASE ~Evaluate
  <2>1. UNCHANGED <<setup, at, status, found>>
    BY <1>2 DEF Next, Runner, Beside, vars, StartProxy, RunCommand, CommandEnds,
       CommandRaises, StopAfterCommand, Classify, AdapterFails, RunCaseRaises,
       Teardown, Extract, SendRequest, LogRequest
  <2>. QED
    BY <2>1 DEF ForcedIsKept, ForceFails
<1>. QED
  BY <1>1, <1>2

\* Force is strict but for a proxy that failed after it had created its artifact
\* (start() of telemetry_proxy.py writes the file before it binds its socket).
THEOREM ForceLeavesOneGap == Spec => []ForceUpToStart
<1>1. Init => CommandsRan /\ ForcedIsKept
  BY DEF Init, CommandsRan, ForcedIsKept, Phases
<1>2. IInv /\ CommandsRan /\ ForcedIsKept /\ [Next]_vars
          => CommandsRan' /\ ForcedIsKept'
  BY CommandsRanStep, ForcedStep DEF IInv
<1>3. IInv /\ CommandsRan /\ ForcedIsKept => ForceUpToStart
  <2> SUFFICES ASSUME IInv, CommandsRan, ForcedIsKept, at = "done",
                      status = "PASS", setup.mode = "force", NEW p \in Phases
               PROVE  file[p] /\ (routed[p] \/ proxy[p] = "none")
    BY DEF ForceUpToStart
  <2>1. \E readable \in BOOLEAN : ProxyStatus(readable) = "collected"
    BY DEF IInv, FoundHolds, ForcedIsKept, ForceFails
  <2>2. file[p]
    BY <2>1 DEF ProxyStatus
  <2>3. ~raised /\ output[p] # "none"
    BY DEF IInv, TornDown, Over, CommandsRan
  <2>. QED
    BY <2>2, <2>3 DEF CommandsRan
<1>. QED
  BY <1>1, <1>2, <1>3, Invariant, PTL DEF Spec
=============================================================================
