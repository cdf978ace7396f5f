-------------------------- MODULE TelemetryEvents --------------------------
(* extract_and_persist_case_telemetry of gripprobe/telemetry.py: from the output
   of the agent, its transcripts and the artifacts of the two proxies to the
   events of each phase, and what they say of the case.  The extraction is
   sequential; it is written as steps so that what holds in the middle of its
   loops can be stated.

   A line of output is a record of the features the parsers look at.  Names of
   tools are in lower case; phase is the list an event is in. *)
EXTENDS Naturals, Sequences, EventEvaluator

CONSTANTS
    Tools,       \* names of tools
    Ids,         \* ids of tool calls
    Excerpts,    \* excerpts of text
    Lines,       \* the lines the agent may write
    ProxyLines,  \* the lines of the artifact of a proxy
    MaxTranscripts, MaxLines   \* bounds: transcripts; lines of both kinds

Phases == {"warmup", "measured"}
NoId == "none"
NoTool == ""
Unknown == "unknown"

\* json: what kind of JSON object the line is, "other" if of a kind that is not
\* known and "none" if it is none at all; marks: what the patterns for text find
\* in it, in whichever kind of line; tool, id and text: the values they capture.
Marks == {"system", "header", "ran_command", "recipient", "echo", "call",
          "continue", "edit", "done"}
LineType == [json : {"none", "other", "recipient", "call", "result", "response"},
             marks : SUBSET Marks, tool : Tools \cup {NoTool},
             id : Ids \cup {NoId}, text : Excerpts \cup {"none"}]
Seen == [tool : Tools \cup {Unknown}, id : Ids \cup {NoId}]
ProxyLineType == [calls : Seq(Seen), results : Seq(Seen),
                  marked : Seq([tool : Tools, id : Ids])]

ASSUME EventsAssumption ==
    /\ Lines \subseteq LineType /\ ProxyLines \subseteq ProxyLineType
    /\ NoId \notin Ids /\ NoTool \notin Tools /\ "none" \notin Excerpts
    /\ MaxTranscripts \in Nat /\ MaxLines \in Nat

\* ran: the evidence mode is "system_ran_command"; token: what identifies an
\* event that has no id.
Types == {"tool_call_start", "tool_call_result", "model_response"}
Tokens == {"tool", "line", "content", "recipient"} \X (Excerpts \cup {"none"})
Event ==
    {e \in [type : Types, tool : Tools \cup {NoTool, Unknown, "shell", "edit"},
            id : Ids \cup {NoId}, token : Tokens, tier : {"A", "B", "C"},
            source : {"proxy", "agent_output", "wrapper"}, ran : BOOLEAN] :
        e.ran => e.tier = "C"}

VARIABLES
    step,     \* where the extraction is
    files,    \* the files still to be read: the phase of each, in their order
    header,   \* the line before was "System:"
    broken,   \* reading the output raised
    proxy,    \* telemetry_proxy_status
    raw,      \* the events of each phase as they were read
    phase,    \* the phase the later steps are at
    next,     \* the event deduplication looks at
    kept,     \* the deduplicated events of each phase, as places in raw
    lines     \* bound: how many lines were read

vars == <<step, files, header, broken, proxy, raw, phase, next, kept,
          lines>>

Steps == {"output", "open", "artifact", "deduplicate", "done"}
NoEvents == [p \in Phases |-> <<>>]

\* stdout and stderr of each phase, then the transcripts in the order of their
\* paths, which is any.
OutputFiles == <<"warmup", "warmup", "measured", "measured">>
Transcripts == UNION {[1 .. n -> Phases] : n \in 0 .. MaxTranscripts}

Init ==
    /\ step = "output"
    /\ \E t \in Transcripts : files = OutputFiles \o t
    /\ header = FALSE
    /\ broken = FALSE
    /\ proxy \in ProxyStatuses
    /\ raw = NoEvents
    /\ phase = "warmup"
    /\ next = 1
    /\ kept = NoEvents
    /\ lines = 0

-----------------------------------------------------------------------------
(* The events of a line, in a sequence. *)

TextEvent(type, line, tool, id) ==
    <<[type |-> type, tool |-> tool, id |-> id, token |-> <<"line", line.text>>,
       tier |-> "C", source |-> "wrapper", ran |-> FALSE]>>

RanCommand(line) ==
    <<[type |-> "tool_call_result", tool |-> "shell", id |-> NoId,
       token |-> <<"line", line.text>>, tier |-> "C", source |-> "wrapper",
       ran |-> TRUE]>>

\* _event_from_text_line: the first pattern that matches decides.
TextEvents(line) ==
    LET has(m) == m \in line.marks
    IN  IF has("ran_command") /\ (has("system") \/ header) THEN RanCommand(line)
        ELSE IF has("recipient")
          THEN TextEvent("tool_call_start", line, line.tool, NoId)
        ELSE IF has("echo") THEN <<>>
        ELSE IF has("call")
          THEN TextEvent("tool_call_start", line, line.tool, line.id)
        ELSE IF has("continue")
          THEN TextEvent("tool_call_start", line, line.tool, NoId)
        ELSE IF has("edit")
          THEN TextEvent("tool_call_result", line, "edit", NoId)
        ELSE IF has("done")
          THEN TextEvent("model_response", line, NoTool, NoId)
        ELSE <<>>

JsonType == [recipient |-> "tool_call_start", call |-> "tool_call_start",
             result |-> "tool_call_result", response |-> "model_response"]

\* A JSON object that makes no event is tried as text.
LineEvents(line) ==
    IF line.json \in {"none", "other"} THEN TextEvents(line)
    ELSE <<[type |-> JsonType[line.json], tool |-> line.tool, id |-> line.id,
            token |-> <<IF line.text # "none" THEN "content"
                        ELSE IF line.json = "recipient" THEN "recipient"
                        ELSE "tool", line.text>>,
            tier |-> "B", source |-> "agent_output", ran |-> FALSE]>>

\* The lines of a proxy name every call and result, "unknown" if need be; marks
\* in the text of a response that look like calls are of the lowest tier.
Observed(type, tier, seen) ==
    [i \in 1 .. Len(seen) |->
        [type |-> type, tool |-> seen[i].tool, id |-> seen[i].id,
         token |-> <<"tool", "none">>, tier |-> tier, source |-> "proxy",
         ran |-> FALSE]]

ProxyEvents(line) ==
    Observed("tool_call_start", "A", line.calls)
      \o Observed("tool_call_result", "A", line.results)
      \o Observed("tool_call_start", "C", line.marked)

-----------------------------------------------------------------------------
(* Reading *)

ReadLine ==
    /\ step = "output" /\ files # <<>> /\ lines < MaxLines
    /\ \E line \in Lines :
           /\ raw' = [raw EXCEPT ![Head(files)] = @ \o LineEvents(line)]
           /\ header' = ("header" \in line.marks)
    /\ lines' = lines + 1
    /\ UNCHANGED <<step, files, broken, proxy, phase, next, kept>>

NextFile ==
    /\ step = "output" /\ files # <<>>
    /\ files' = Tail(files)
    /\ header' = FALSE
    /\ UNCHANGED <<step, broken, proxy, raw, phase, next, kept, lines>>

\* The artifacts are read if the runner found both of them.
AfterOutput == IF proxy = "collected" THEN "open" ELSE "deduplicate"

OutputRead ==
    /\ step = "output" /\ files = <<>>
    /\ step' = AfterOutput
    /\ UNCHANGED <<files, header, broken, proxy, raw, phase, next, kept,
                   lines>>

\* Any exception: what was read of all files is gone, the proxies are not.
OutputUnreadable ==
    /\ step = "output"
    /\ raw' = NoEvents
    /\ broken' = TRUE
    /\ step' = AfterOutput
    /\ UNCHANGED <<files, header, proxy, phase, next, kept, lines>>

\* The whole artifact is read at once, so it fails before its first event.
OpenArtifact ==
    /\ step = "open"
    /\ step' = "artifact"
    /\ UNCHANGED <<files, header, broken, proxy, raw, phase, next, kept,
                   lines>>

\* The status of the capture is corrected; what the proxy of the warmup saw, and
\* all the output, stays.
ArtifactUnreadable ==
    /\ step = "open"
    /\ proxy' = "error"
    /\ phase' = "warmup"
    /\ step' = "deduplicate"
    /\ UNCHANGED <<files, header, broken, raw, next, kept, lines>>

ReadProxyLine ==
    /\ step = "artifact" /\ lines < MaxLines
    /\ \E line \in ProxyLines :
           raw' = [raw EXCEPT ![phase] = @ \o ProxyEvents(line)]
    /\ lines' = lines + 1
    /\ UNCHANGED <<step, files, header, broken, proxy, phase, next, kept>>

ArtifactRead ==
    /\ step = "artifact"
    /\ IF phase = "warmup" THEN phase' = "measured" /\ step' = "open"
                           ELSE phase' = "warmup" /\ step' = "deduplicate"
    /\ UNCHANGED <<files, header, broken, proxy, raw, next, kept, lines>>

-----------------------------------------------------------------------------
(* _drop_result_fallbacks_when_structured_result_present, _deduplicate_events.
   An event is named by its phase and its place in raw[phase]. *)

Structured(p) == \E k \in 1 .. Len(raw[p]) :
                    /\ raw[p][k].type = "tool_call_result"
                    /\ raw[p][k].tier \in {"A", "B"}

\* Variant: a structured result of either phase drops the fallbacks.
DroppedAcross(p, i) == /\ \E q \in Phases : Structured(q)
                       /\ raw[p][i].type = "tool_call_result" /\ raw[p][i].ran

\* A result that is only inferred from a line of text gives way.
Dropped(p, i) == /\ Structured(p)
                 /\ raw[p][i].type = "tool_call_result" /\ raw[p][i].ran

\* Variant: an event of another source is another event.
KeyOfSource(p, i) ==
    LET e == raw[p][i]
    IN  <<IF e.tool = NoTool THEN Unknown ELSE e.tool,
          IF e.id # NoId THEN <<"id", e.id>> ELSE e.token, e.type, e.source>>

\* _event_dedup_key, without the phase.
Key(p, i) ==
    LET e == raw[p][i]
    IN  <<IF e.tool = NoTool THEN Unknown ELSE e.tool,
          IF e.id # NoId THEN <<"id", e.id>> ELSE e.token, e.type>>

TierRank == [A |-> 4, B |-> 3, C |-> 2]
SourceRank == [proxy |-> 3, agent_output |-> 2, wrapper |-> 1]

\* _event_precedence: the tier decides, then the source.
Rank(p, i) == 4 * TierRank[raw[p][i].tier] + SourceRank[raw[p][i].source]

\* Variant: the later of two equal events is kept.
AbsorbLater(p, i) ==
    LET s == kept[p]
    IN  IF \E j \in 1 .. Len(s) : Key(p, s[j]) = Key(p, i)
          THEN [j \in 1 .. Len(s) |->
                   IF Key(p, s[j]) = Key(p, i) /\ Rank(p, i) >= Rank(p, s[j])
                     THEN i ELSE s[j]]
          ELSE Append(s, i)

\* Variant: a better event is appended and the other one removed.
AbsorbAtEnd(p, i) ==
    LET s == kept[p]
        worse(k) == Key(p, k) = Key(p, i) /\ Rank(p, i) > Rank(p, k)
    IN  IF \E j \in 1 .. Len(s) : Key(p, s[j]) = Key(p, i) /\ ~worse(s[j])
          THEN s
          ELSE Append(SelectSeq(s, LAMBDA k : ~worse(k)), i)

\* Variant: places are counted from zero.
AbsorbFromZero(p, i) == Append(kept[p], i - 1)

\* The i-th event is new, or takes the place of a worse one with its key.
Absorb(p, i) ==
    LET s == kept[p]
    IN  IF \E j \in 1 .. Len(s) : Key(p, s[j]) = Key(p, i)
          THEN [j \in 1 .. Len(s) |->
                   IF Key(p, s[j]) = Key(p, i) /\ Rank(p, i) > Rank(p, s[j])
                     THEN i ELSE s[j]]
          ELSE Append(s, i)

\* One round of the loop of _deduplicate_events, on what was not dropped.
Deduplicate ==
    /\ step = "deduplicate" /\ next <= Len(raw[phase])
    /\ kept' = IF Dropped(phase, next) THEN kept
               ELSE [kept EXCEPT ![phase] = Absorb(phase, next)]
    /\ next' = next + 1
    /\ UNCHANGED <<step, files, header, broken, proxy, raw, phase, lines>>

PhaseDone ==
    /\ step = "deduplicate" /\ next > Len(raw[phase])
    /\ phase' = "measured"
    /\ next' = 1
    /\ step' = IF phase = "warmup" THEN "deduplicate" ELSE "done"
    /\ UNCHANGED <<files, header, broken, proxy, raw, kept, lines>>

-----------------------------------------------------------------------------
Next ==
    \/ ReadLine \/ NextFile \/ OutputRead \/ OutputUnreadable
    \/ OpenArtifact \/ ArtifactUnreadable \/ ReadProxyLine \/ ArtifactRead
    \/ Deduplicate \/ PhaseDone

Spec == Init /\ [][Next]_vars

-----------------------------------------------------------------------------
(* events.summary.json, from the events that were kept *)

Events(p) == [j \in 1 .. Len(kept[p]) |-> raw[p][kept[p][j]]]

\* ToolUse is what EventEvaluator's ToolVerdict is given as toolEvents.
IsToolEvent(e) == e.type \in {"tool_call_start", "tool_call_result"}
ToolUse == \E j \in 1 .. Len(kept["measured"]) :
               IsToolEvent(raw["measured"][kept["measured"][j]])

\* _highest_source_tier, as what it is not below.
ReachesTier(n) == \E p \in Phases : \E j \in 1 .. Len(kept[p]) :
                      TierRank[raw[p][kept[p][j]].tier] >= n

\* total_events, the events of both phases one after the other.
TotalEvents == Events("warmup") \o Events("measured")
IsNamedCall(e) == e.type = "tool_call_start" /\ e.tool # NoTool

\* _detect_retry_loop, which asks whether there is such a tool: three calls of
\* it in a row, with other events but no other call between them.
RetryLoop(tool) ==
    \E i, j, k \in 1 .. Len(TotalEvents) :
        /\ i < j /\ j < k
        /\ \A m \in i .. k : IsNamedCall(TotalEvents[m]) <=> m \in {i, j, k}
        /\ \A m \in {i, j, k} : TotalEvents[m].tool = tool

-----------------------------------------------------------------------------
(* What the events of a case promise. *)

\* Type correctness of the extraction.
TypeOK ==
    /\ step \in Steps
    /\ files \in Seq(Phases)
    /\ header \in BOOLEAN /\ broken \in BOOLEAN
    /\ proxy \in ProxyStatuses
    /\ raw \in [Phases -> Seq(Event)]
    /\ phase \in Phases
    /\ next \in Nat \ {0}
    /\ kept \in [Phases -> Seq(Nat \ {0})]
    /\ lines \in Nat
    /\ \A p \in Phases : \A j \in 1 .. Len(kept[p]) : kept[p][j] <= Len(raw[p])

\* Of all the events of a phase with the same key that were not dropped, the
\* i-th is the one with the highest precedence, the first if there are several.
Best(p, i) ==
    /\ ~Dropped(p, i)
    /\ \A k \in 1 .. Len(raw[p]) :
          ~Dropped(p, k) /\ Key(p, k) = Key(p, i)
            => Rank(p, k) < Rank(p, i) \/ (Rank(p, k) = Rank(p, i) /\ i <= k)

\* Each thing that was seen, in whatever sources, is one event of its phase:
\* the best evidence there is of it, no matter in which order it was read.
BestEvidenceIsKept ==
    step = "done" => \A p \in Phases : \A i \in 1 .. Len(raw[p]) :
        Best(p, i) <=> \E j \in 1 .. Len(kept[p]) : kept[p][j] = i

\* The i-th event is the first sight of what it stands for.
FirstSight(p, i) == \A k \in 1 .. (i - 1) : Dropped(p, k) \/ Key(p, k) # Key(p, i)

\* The events of a phase are in the order in which what they stand for was
\* first seen, also where better evidence of it came later.
InOrderOfSight ==
    step = "done" => \A p \in Phases : \A j, k \in 1 .. Len(kept[p]) :
        j < k => \E f \in 1 .. Len(raw[p]) :
            /\ ~Dropped(p, f) /\ FirstSight(p, f)
            /\ Key(p, f) = Key(p, kept[p][j])
            /\ \A g \in 1 .. f :
                  Dropped(p, g) \/ Key(p, g) # Key(p, kept[p][k])

\* Neither dropping nor deduplication makes a tool use vanish, nor one up: the
\* measured phase has a tool event exactly if one was read.
ToolUseIsNotLost ==
    step = "done" => (ToolUse <=> \E i \in 1 .. Len(raw["measured"]) :
                                      IsToolEvent(raw["measured"][i]))

\* The tier the case is reported with is the one of the best evidence read.
TierIsNotLowered ==
    step = "done" => \A n \in 1 .. 4 :
        ReachesTier(n) <=> \E p \in Phases : \E i \in 1 .. Len(raw[p]) :
                               TierRank[raw[p][i].tier] >= n

\* A call is told wherever one of the sources has an event that starts it; what
\* makes two of them one call is the phase and the id that the model gave it.
Told(p, tool) == {i \in 1 .. Len(raw[p]) : /\ raw[p][i].type = "tool_call_start"
                                          /\ raw[p][i].tool = tool}
Calls(tool) == UNION {{<<p, raw[p][i].id>> : i \in Told(p, tool)} : p \in Phases}
ToldWithId(tool) == <<"warmup", NoId>> \notin Calls(tool)
                        /\ <<"measured", NoId>> \notin Calls(tool)
Thrice(tool) == \E a, b, c \in Calls(tool) : a # b /\ b # c /\ a # c
NoOtherCall(tool) == \A p \in Phases : \A i \in 1 .. Len(raw[p]) :
    raw[p][i].type = "tool_call_start" => i \in Told(p, tool)

\* However many sources tell of one call, with its id, it is no retry: a loop is
\* one of three calls.  And deduplication hides no retry: three calls of the only
\* tool that is called are reported, in whatever order they were told.
RetryLoopMeansRetries ==
    step = "done" => \A tool \in Tools \cup {Unknown} :
        /\ RetryLoop(tool) /\ ToldWithId(tool) => Thrice(tool)
        /\ Thrice(tool) /\ ToldWithId(tool) /\ NoOtherCall(tool) => RetryLoop(tool)
=============================================================================
