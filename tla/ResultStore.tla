---------------------------- MODULE ResultStore ----------------------------
(* The results directory as a suite run, its resumption, rebuild-reports and
   aggregate-reports see it: results/runs/<run>/cases/<case>/case.json, the
   summary and the manifest of each run.  Nothing but these files survives a
   crash, and write_json truncates a file before it fills it.

   One suite process at a time, and the tools are used while none runs: nothing
   locks the directory.  A suite is a list of entries, each for one agent,
   model, backend and format; a key stands for the test of a case and these. *)
EXTENDS Naturals, Sequences, FiniteSets

CONSTANTS
    Keys,       \* case keys
    Web,        \* those of the tests with a web challenge
    Suite,      \* the entries of the suite: the keys each one selects
    Evidence,   \* what an executed case of each key may leave behind
    MaxRuns     \* bound: run directories

\* What a case leaves in its directory: the artifact the validators compare
\* (equal, equal but for surrounding blanks, different), the end of the
\* process, whether required tool use was observed, and whether the captured
\* output says timeout=true: the runner writes it there when it ends the agent,
\* and the agent may print it too.
Evidences ==
    {e \in [artifact : {"exact", "blank", "wrong"},
            process : {"ok", "timeout", "capture_missing"},
            tool : BOOLEAN, marked : BOOLEAN] :
         e.process = "timeout" => e.marked}

ASSUME ConstantsAssumption ==
    /\ Web \subseteq Keys
    /\ Suite \in Seq(SUBSET Keys)
    /\ Evidence \in [Keys -> SUBSET Evidences]
    /\ MaxRuns \in Nat

VARIABLES
    runs,       \* the number of run directories
    case,       \* how far each case directory of each run got
    json,       \* its case.json
    target,     \* the keys of the (format, test) pairs a run was started for
    manifest,   \* manifest.json was written
    summary,    \* its summary.html was written
    suite,      \* the suite process: where it is
    todo,       \* the keys its current run has still to execute
    completed,  \* completed_case_keys
    tool,       \* the rebuild process
    published   \* the output directory of aggregate-reports holds a report

runVars == <<runs, case, target, manifest>>
vars == <<runVars, json, summary, suite, todo, completed, tool, published>>

Runs == 1 .. MaxRuns
\* "FAIL" stands for every status that is none of the others.
Statuses == {"PASS", "PASS_WITH_POLICY_VIOLATION", "FAIL", "TIMEOUT"}

\* A case.json: not there, cut short, the payload rebuild writes for a case it
\* cannot read, or a result.
NoFile == [kind |-> "none"]
Torn == [kind |-> "torn"]
ErrorPayload == [kind |-> "error"]
Result(status, scored) ==
    [kind |-> "result", status |-> status, scored |-> scored]
\* The status the scores in the metadata were computed from; "none": no scores.
Scores == Statuses \cup {"none"}
Files == {NoFile, Torn, ErrorPayload}
            \cup {Result(s, o) : s \in Statuses, o \in Scores}

\* A case directory: not there, begun (workspaces, warmup, an agent that was
\* interrupted), or executed to the end with what it left.
Absent == [at |-> "absent"]
Begun == [at |-> "begun"]
Executed(e) == [at |-> "executed", left |-> e]
Cases == {Absent, Begun} \cup {Executed(e) : e \in Evidences}

\* Variant: a timed out process keeps a status of its own.
EvaluatedRaw(e) ==
    CASE e.process = "timeout" -> "SHELL_ERROR"
      [] e.process # "timeout" -> IF e.artifact = "exact" THEN "PASS" ELSE "FAIL"

\* Variant: observed tool use is looked at first.
EvaluatedToolFirst(e) ==
    CASE e.tool -> "PASS"
      [] ~e.tool /\ e.process = "timeout" -> "TIMEOUT"
      [] ~e.tool /\ e.process # "timeout" ->
            IF e.artifact = "exact" THEN "PASS_WITH_POLICY_VIOLATION" ELSE "FAIL"

\* The verdict run() writes: apply_event_evaluation over status and telemetry.
Evaluated(e) ==
    CASE e.process = "timeout" -> "TIMEOUT"
      [] e.process = "capture_missing" -> "FAIL"
      [] e.process = "ok" /\ e.artifact # "exact" -> "FAIL"
      [] e.process = "ok" /\ e.artifact = "exact" ->
            IF e.tool THEN "PASS" ELSE "PASS_WITH_POLICY_VIOLATION"

\* The verdicts rebuild-reports may compute for a case directory: a timeout is
\* read from the captured output, then the validators decide, then expected.txt
\* and observed.txt, compared without surrounding blanks.  It reads the test from
\* specs/: there a web test has none of the nonce, path and request log that the
\* runner filled in, so it never validates, nor do its two files ever agree.  An
\* interrupted case may look like anything but a policy violation.
Recomputed(k, c) ==
    CASE c.at = "begun" ->
            {"PASS", "FAIL", "TIMEOUT"} \ (IF k \in Web THEN {"PASS"} ELSE {})
      [] c.at = "executed" /\ c.left.marked -> {"TIMEOUT"}
      [] c.at = "executed" /\ ~c.left.marked ->
            IF c.left.artifact # "wrong" /\ k \notin Web THEN {"PASS"}
                                                         ELSE {"FAIL"}

Readable(r, k) == json[r][k].kind = "result"
Status(f) == IF f.kind = "result" THEN f.status ELSE "-"

Off == [at |-> "off"]
NoTool == [at |-> "off"]

Init ==
    /\ runs = 0
    /\ case = [r \in Runs |-> [k \in Keys |-> Absent]]
    /\ json = [r \in Runs |-> [k \in Keys |-> NoFile]]
    /\ target = [r \in Runs |-> {}]
    /\ manifest = [r \in Runs |-> FALSE]
    /\ summary = [r \in Runs |-> FALSE]
    /\ suite = Off
    /\ todo = {}
    /\ completed = {}
    /\ tool = NoTool
    /\ published = FALSE

-----------------------------------------------------------------------------
(* The suite process: run_suite and the run() it calls for each entry. *)

\* Variant: every case directory counts as a completed case.
CompletedInByDirectory(r) == {k \in Keys : case[r][k] # Absent}

\* The keys a run directory counts for: its readable case.json, and if it has
\* none of these the pairs of its manifest.
CompletedIn(r) ==
    LET read == {k \in Keys : Readable(r, k)}
    IN  IF read = {} /\ manifest[r] THEN target[r] ELSE read

StartSuite ==
    /\ suite.at = "off"
    /\ tool.at = "off"
    /\ \E resume \in BOOLEAN :
        /\ suite' = [at |-> "entry", i |-> 1, resume |-> resume]
        /\ completed' = IF resume THEN UNION {CompletedIn(r) : r \in 1 .. runs}
                                  ELSE {}
    /\ UNCHANGED <<runVars, json, summary, todo, tool, published>>

\* The tests of an entry that are not completed; all of them without --resume.
Missing(i) == IF suite.resume THEN Suite[i] \ completed ELSE Suite[i]

SkipEntry ==
    /\ suite.at = "entry"
    /\ suite.i <= Len(Suite)
    /\ suite.resume /\ Missing(suite.i) = {}
    /\ suite' = [suite EXCEPT !.i = @ + 1]
    /\ UNCHANGED <<runVars, json, summary, todo, completed, tool, published>>

\* _unique_run_id and create_run_paths.
StartRun ==
    /\ suite.at = "entry"
    /\ suite.i <= Len(Suite)
    /\ ~suite.resume \/ Missing(suite.i) # {}
    /\ runs < MaxRuns
    /\ runs' = runs + 1
    /\ todo' = Missing(suite.i)
    /\ target' = [target EXCEPT ![runs + 1] = Missing(suite.i)]
    /\ suite' = [suite EXCEPT !.at = "case"]
    /\ UNCHANGED <<case, manifest, json, summary, completed, tool, published>>

BeginCase(k) ==
    /\ suite.at = "case"
    /\ k \in todo
    /\ case[runs][k] = Absent
    /\ case' = [case EXCEPT ![runs][k] = Begun]
    /\ suite' = [suite EXCEPT !.at = "execute"]
    /\ UNCHANGED <<runs, target, manifest, json, summary, todo, completed, tool,
                   published>>

\* The agent has run and its telemetry is extracted; write_json truncates.
ExecuteCase(k) ==
    /\ suite.at = "execute"
    /\ case[runs][k] = Begun
    /\ \E e \in Evidence[k] : case' = [case EXCEPT ![runs][k] = Executed(e)]
    /\ json' = [json EXCEPT ![runs][k] = Torn]
    /\ suite' = [suite EXCEPT !.at = "write"]
    /\ UNCHANGED <<runs, target, manifest, summary, todo, completed, tool,
                   published>>

WriteCase(k) ==
    /\ suite.at = "write"
    /\ k \in todo
    /\ json[runs][k] = Torn
    /\ json' = [json EXCEPT ![runs][k] =
                    Result(Evaluated(case[runs][k].left),
                           Evaluated(case[runs][k].left))]
    /\ todo' = todo \ {k}
    /\ suite' = [suite EXCEPT !.at = "case"]
    /\ UNCHANGED <<runVars, summary, completed, tool, published>>

\* Variant: the run is closed though a case of it is missing.
WriteSummaryAnyhow ==
    /\ suite.at = "case"
    /\ summary' = [summary EXCEPT ![runs] = TRUE]
    /\ suite' = [suite EXCEPT !.at = "manifest"]
    /\ UNCHANGED <<runVars, json, todo, completed, tool, published>>

WriteSummary ==
    /\ suite.at = "case"
    /\ todo = {}
    /\ summary' = [summary EXCEPT ![runs] = TRUE]
    /\ suite' = [suite EXCEPT !.at = "manifest"]
    /\ UNCHANGED <<runVars, json, todo, completed, tool, published>>

\* Variant: completed_case_keys is loaded once and never extended.
WriteManifestOnly ==
    /\ suite.at = "manifest"
    /\ manifest' = [manifest EXCEPT ![runs] = TRUE]
    /\ suite' = [suite EXCEPT !.at = "entry", !.i = @ + 1]
    /\ UNCHANGED <<runs, case, target, json, summary, todo, completed, tool,
                   published>>

\* The manifest, the return of run(), and completed_case_keys.add.
WriteManifest ==
    /\ suite.at = "manifest"
    /\ manifest' = [manifest EXCEPT ![runs] = TRUE]
    /\ completed' = IF suite.resume THEN completed \cup target[runs]
                                    ELSE completed
    /\ suite' = [suite EXCEPT !.at = "entry", !.i = @ + 1]
    /\ UNCHANGED <<runs, case, target, json, summary, todo, tool, published>>

SuiteDone ==
    /\ suite.at = "entry"
    /\ suite.i > Len(Suite)
    /\ suite' = Off
    /\ completed' = {}
    /\ UNCHANGED <<runVars, json, summary, todo, tool, published>>

\* The process dies, or an exception that is no AdapterError leaves run().
Crash ==
    /\ suite.at # "off"
    /\ suite' = Off
    /\ todo' = {}
    /\ completed' = {}
    /\ UNCHANGED <<runVars, json, summary, tool, published>>

-----------------------------------------------------------------------------
(* rebuild-reports, with and without --recompute-case-json *)

StartRebuild ==
    /\ suite.at = "off"
    /\ tool.at = "off"
    /\ \E r \in 1 .. runs, recompute \in BOOLEAN :
           tool' = [at |-> "cases", run |-> r, recompute |-> recompute,
                    left |-> {k \in Keys : case[r][k] # Absent}]
    /\ UNCHANGED <<runVars, json, summary, suite, todo, completed, published>>

\* Variant: case.json is always computed anew.
RebuiltFilesAnew(r, k) ==
    {Result(s, "none") : s \in Recomputed(k, case[r][k])}

\* What the loop writes for a case: nothing, a computed result or, when the
\* file there cannot be parsed or is no result, the error payload.  A computed
\* result keeps the metadata of the old one, its scores among them.
RebuiltFiles(r, k) ==
    LET f == json[r][k]
        kept == IF f.kind = "result" THEN f.scored ELSE "none"
        rebuilt == {Result(s, kept) : s \in Recomputed(k, case[r][k])}
    IN  CASE f.kind = "none" -> rebuilt
          [] f.kind = "torn" -> {ErrorPayload}
          [] f.kind = "error" -> IF tool.recompute THEN rebuilt
                                                   ELSE {ErrorPayload}
          [] f.kind = "result" -> IF tool.recompute THEN rebuilt
                                                    ELSE {f}

RebuildCase(k) ==
    /\ tool.at = "cases"
    /\ k \in tool.left
    /\ \E f \in RebuiltFiles(tool.run, k) :
           json' = [json EXCEPT ![tool.run][k] = f]
    /\ tool' = [tool EXCEPT !.left = @ \ {k}]
    /\ UNCHANGED <<runVars, summary, suite, todo, completed, published>>

\* Every case.json is written anew, if with the same text, but one that is
\* readable and not to be recomputed.
Rewrites(k) == tool.recompute \/ ~Readable(tool.run, k)

\* Killed between the truncation of a case.json it rewrites and its new text.
RebuildKilled(k) ==
    /\ tool.at = "cases"
    /\ k \in tool.left
    /\ Rewrites(k)
    /\ json' = [json EXCEPT ![tool.run][k] = Torn]
    /\ tool' = NoTool
    /\ UNCHANGED <<runVars, summary, suite, todo, completed, published>>

\* Killed between two cases, or before the summary.
RebuildStopped ==
    /\ tool.at = "cases"
    /\ tool' = NoTool
    /\ UNCHANGED <<runVars, json, summary, suite, todo, completed, published>>

RebuildSummary ==
    /\ tool.at = "cases"
    /\ tool.left = {}
    /\ summary' = [summary EXCEPT ![tool.run] = TRUE]
    /\ tool' = NoTool
    /\ UNCHANGED <<runVars, json, suite, todo, completed, published>>

-----------------------------------------------------------------------------
(* aggregate-reports over all runs *)

\* Variant: only a complete run directory is asked for its summary.
SummaryMissingIfComplete(r) ==
    manifest[r] /\ ~summary[r] /\ \E k \in Keys : json[r][k] # NoFile

\* _validate_run_summaries_or_raise
SummaryMissing(r) ==
    ~summary[r] /\ \E k \in Keys : json[r][k] # NoFile

\* The old output directory is removed, then every case.json has to be valid.
Aggregate ==
    /\ suite.at = "off"
    /\ tool.at = "off"
    /\ \A r \in 1 .. runs : ~SummaryMissing(r)
    /\ published' = \A r \in 1 .. runs, k \in Keys :
                        json[r][k] = NoFile \/ Readable(r, k)
    /\ UNCHANGED <<runVars, json, summary, suite, todo, completed, tool>>

-----------------------------------------------------------------------------
SuiteStep == \/ SkipEntry \/ StartRun \/ WriteSummary \/ WriteManifest
             \/ SuiteDone
             \/ \E k \in Keys : BeginCase(k) \/ ExecuteCase(k) \/ WriteCase(k)
RebuildStep == RebuildSummary \/ \E k \in Keys : RebuildCase(k)
Interruption == \/ Crash \/ RebuildStopped
                \/ \E k \in Keys : RebuildKilled(k)

Next == \/ StartSuite \/ SuiteStep \/ StartRebuild \/ RebuildStep
        \/ Interruption \/ Aggregate

Spec == Init /\ [][Next]_vars
-----------------------------------------------------------------------------
(* What the tools promise about the directory. *)

\* Type correctness of the directory and of the two processes.
TypeOK ==
    /\ runs \in 0 .. MaxRuns
    /\ case \in [Runs -> [Keys -> Cases]]
    /\ json \in [Runs -> [Keys -> Files]]
    /\ target \in [Runs -> SUBSET Keys]
    /\ manifest \in [Runs -> BOOLEAN]
    /\ summary \in [Runs -> BOOLEAN]
    /\ suite = Off \/ suite \in
           [at : {"entry", "case", "execute", "write", "manifest"},
            i : 1 .. (Len(Suite) + 1), resume : BOOLEAN]
    /\ todo \subseteq Keys
    /\ completed \subseteq Keys
    /\ tool = NoTool \/ tool \in [at : {"cases"}, run : 1 .. runs,
                                  recompute : BOOLEAN, left : SUBSET Keys]
    /\ published \in BOOLEAN

\* A resumed suite does not begin a case that has a readable case.json, be it
\* of an earlier suite or of an earlier entry of its own.
NoReexecution ==
    [][\A k \in Keys :
           /\ suite.at = "case" /\ suite.resume
           /\ case[runs][k] # case'[runs][k]
           => \A r \in 1 .. (runs - 1) : ~Readable(r, k)]_vars

SuiteEnds == suite.at = "entry" /\ suite.i > Len(Suite) /\ suite'.at = "off"
Selected == UNION {Suite[i] : i \in 1 .. Len(Suite)}
ExecutedOnce(k) == \E r \in 1 .. runs : case[r][k].at = "executed"
Fabricated(k) ==
    \E r \in 1 .. runs : Readable(r, k) /\ json[r][k].scored = "none"

\* The directory shows that k was executed: by a readable case.json, or by the
\* manifest of its run.
OnRecord(k) ==
    \E r \in 1 .. runs : /\ case[r][k].at = "executed"
                         /\ \/ Readable(r, k)
                            \/ manifest[r] /\ k \in target[r]

\* When a suite ends, resumed or not, each case it selects was executed to its
\* end in some run and is on record there, or rebuild-reports had computed a
\* result for it: no case that was cut short or whose case.json is torn is skipped.
SkippedOnlyIfRecorded ==
    [][SuiteEnds => \A k \in Selected : OnRecord(k) \/ Fabricated(k)]_vars

\* What a resumption takes a manifest for when no case.json of the run can be
\* read: all its cases were executed, each has its case.json, if torn or rebuilt
\* since, and the summary was written before.
ManifestMeansComplete ==
    \A r \in Runs : manifest[r] =>
        /\ summary[r]
        /\ \A k \in target[r] :
               case[r][k].at = "executed" /\ json[r][k] # NoFile

\* "Only missing cases are executed", and all of them: when a suite ends each
\* case it selects was executed to its end in some run.
MissingCasesAreExecuted ==
    [][SuiteEnds => \A k \in Selected : ExecutedOnce(k)]_vars

\* A result on disk is lost or changed only by a rebuild that was asked to
\* recompute: not by crashes, resumption, aggregation or a plain rebuild.
ResultsAreKept ==
    [][\A r \in Runs, k \in Keys :
           Readable(r, k) /\ json'[r][k] # json[r][k]
               => tool.at = "cases" /\ tool.run = r /\ tool.recompute]_vars

\* However often it was rebuilt, a case that was executed is a PASS only when
\* its artifact is the expected one up to blanks and it did not time out.
PassNeedsArtifact ==
    \A r \in Runs, k \in Keys :
        case[r][k].at = "executed" /\ Status(json[r][k]) = "PASS" =>
            /\ case[r][k].left.artifact # "wrong"
            /\ case[r][k].left.process # "timeout"

\* The verdict of an executed case is the one of the event evaluator, whose
\* verdict_source every result carries, also after a recomputation.
VerdictIsEvaluators ==
    \A r \in Runs, k \in Keys :
        case[r][k].at = "executed" /\ Readable(r, k) =>
            json[r][k].status = Evaluated(case[r][k].left)

\* An aggregate report leaves no case out that was executed: its run has a
\* summary, and its case.json was readable when the report was made.
PublishedIsComplete ==
    [][(Aggregate /\ published') =>
           \A r \in 1 .. runs, k \in Keys :
               case[r][k].at = "executed" =>
                   Readable(r, k) /\ summary[r]]_vars
=============================================================================
