-------------------------- MODULE RequestMutation --------------------------
(* What the telemetry proxy does to the JSON of a request before it forwards it:
   the tool filter with the names resolved for the agent, the context blocks
   taken out of the prompts, and the overrides (_mutate_request_body and its
   helpers in gripprobe/telemetry_proxy.py; _resolve_proxy_allowed_tool_names in
   gripprobe/runner.py; the tool dialects of specs/cli_agents).

   One request with one message and a set of tools; the stages follow the code.
   The payload is changed in place, and a flag of its own tells whether the
   changed payload or the bytes of the request are forwarded. *)
EXTENDS Naturals, Sequences, FiniteSets

CONSTANT Cases   \* the requests, each with the settings of the proxy it meets

-----------------------------------------------------------------------------
(* The names of the tools an agent may offer. *)

Entry(id, raw, canonical, role) ==
    [id |-> id, raw |-> raw, canonical |-> canonical, role |-> role]

\* The agents without a dialect share the fallback.
Dialect(agent) ==
    CASE agent = "codex" ->
           {Entry("shell", "exec_command", "Bash", "command"),
            Entry("shell_session", "write_stdin", "Bash", "command"),
            Entry("read", "exec_command", "Read", "read"),
            Entry("read_session", "write_stdin", "Read", "read"),
            Entry("patch", "apply_patch", "apply_patch", "patch"),
            Entry("save", "exec_command", "Write", "write")}
      [] agent = "gptme" ->
           {Entry("shell", "shell", "Bash", "command"),
            Entry("complete", "complete", "Exit", "terminate")}
      [] agent = "continue-cli" ->
           {Entry("shell", "Bash", "Bash", "command"),
            Entry("read", "Read", "Read", "read"),
            Entry("patch", "MultiEdit", "MultiEdit", "patch"),
            Entry("save", "Write", "Write", "write"),
            Entry("exit", "Exit", "Exit", "terminate")}
      [] agent = "pi" ->
           {Entry("shell", "bash", "Bash", "command"),
            Entry("read", "read", "Read", "read"),
            Entry("patch", "edit", "apply_patch", "patch"),
            Entry("save", "write", "Write", "write")}
      [] OTHER -> {}

\* _PROXY_TOOL_NAME_MAP and _PROXY_TOOL_ROLE_MAP: other names stand for
\* themselves and play no role.
Requestable == {"shell", "read", "save", "write", "patch", "fetch", "list"}
Canonical(tool) ==
    CASE tool = "shell" -> "Bash" [] tool = "read" -> "Read"
      [] tool \in {"save", "write"} -> "Write" [] tool = "patch" -> "MultiEdit"
      [] tool = "fetch" -> "Fetch" [] tool = "list" -> "List"
      [] OTHER -> tool
Role(tool) ==
    CASE tool = "shell" -> "command" [] tool \in {"save", "write"} -> "write"
      [] tool \in Requestable \ {"shell", "save", "write"} -> tool
      [] OTHER -> "none"

\* Variant: the canonical name alone.
MatchesCanonical(e, tool) == e.canonical = Canonical(tool)

Matches(e, tool) ==
    \/ tool \in {e.id, e.raw, e.canonical}
    \/ e.role = Role(tool)
    \/ e.canonical = Canonical(tool)

\* The tools of the test, and by canonical name those the model's
\* proxy_include_tool_names adds to them.
Requested(policy) == policy.requested \cup {Canonical(x) : x \in policy.extra}

\* A tool the dialect does not know is allowed under the name it was asked by;
\* the tool that ends a session comes along with commands.
DialectNames(entries, requested, exit) ==
    LET selected == {e \in entries : \E q \in requested : Matches(e, q)}
    IN  {e.raw : e \in selected}
        \cup {q \in requested : \A e \in entries : ~Matches(e, q)}
        \cup (IF exit /\ \E e \in selected : e.role = "command"
              THEN {e.raw : e \in {d \in entries : d.role = "terminate"}} ELSE {})

FallbackNames(requested, exit) ==
    LET names == {Canonical(q) : q \in requested}
    IN  names \cup (IF exit /\ "Bash" \in names THEN {"Exit"} ELSE {})

AllowedNames(policy) ==
    IF Dialect(policy.agent) # {}
    THEN DialectNames(Dialect(policy.agent), Requested(policy), policy.exit)
    ELSE FallbackNames(Requested(policy), policy.exit)

-----------------------------------------------------------------------------
(* Texts: sequences of tokens.  A block begins and ends with a token of its own;
   the two <context> blocks share the token that ends them. *)

Blocks == {"git", "commit", "permissions", "skills"}
Ends(block) ==
    CASE block \in {"git", "commit"} -> "context/" [] block = "permissions" -> "permissions/"
      [] block = "skills" -> "skills/"
Tokens == Blocks \cup {Ends(b) : b \in Blocks} \cup {"repo", "nl", "text"}

\* What is left of t at the places, in their order: the n-th token is the one at
\* the place up to which there are n of them.
KeepAt(t, places) ==
    [n \in 1 .. Cardinality(places) |->
        t[CHOOSE p \in places : Cardinality({q \in places : q <= p}) = n]]

\* The places a block takes: from its first token to the next token that ends
\* one, and the newlines behind it.
BlockAt(t, block, i) ==
    {j \in i .. Len(t) : \A k \in i + 1 .. j :
        (\E end \in i + 1 .. k - 1 : t[end] = Ends(block)) => t[k] = "nl"}
IsBlock(t, block, i) == t[i] = block /\ \E k \in i + 1 .. Len(t) : t[k] = Ends(block)

\* Variant: from the first block to the last token that ends one.
WithoutGreedy(t, block) ==
    KeepAt(t, {j \in DOMAIN t : \/ \A i \in 1 .. j : ~IsBlock(t, block, i)
                                \/ \A k \in j .. Len(t) : t[k] # Ends(block)})

\* re.sub of a block: what begins within a block takes nothing that the block
\* does not.
Without(t, block) ==
    KeepAt(t, {j \in DOMAIN t : \A i \in DOMAIN t :
                  IsBlock(t, block, i) => j \notin BlockAt(t, block, i)})

\* ^Is directory a git repo:.*\n? at the beginning of a line
WithoutRepoLines(t) ==
    LET InLine(i, j) == i <= j /\ \A k \in i .. j - 1 : t[k] # "nl"
        lines == {i \in DOMAIN t : t[i] = "repo" /\ (i = 1 \/ t[i - 1] = "nl")}
    IN  KeepAt(t, {j \in DOMAIN t : \A i \in lines : ~InLine(i, j)})

\* \n{3,} becomes two.
Collapsed(t) ==
    KeepAt(t, {i \in DOMAIN t : ~(i > 2 /\ t[i] = "nl" /\ t[i - 1] = "nl" /\ t[i - 2] = "nl")})

Stripped(t, block) ==
    IF block = "git" THEN Collapsed(WithoutRepoLines(Without(t, block)))
    ELSE Collapsed(Without(t, block))

-----------------------------------------------------------------------------
(* A request, the settings, and the stages. *)

Settings == {"absent", "other", "wanted"}   \* of an option the proxy overrides
Body(path, object, tools, form, hint, role, shape, text, effort, temperature) ==
    [path |-> path,            \* openai, chat and generate of Ollama, or another
     object |-> object,        \* the body is a JSON object
     tools |-> tools,          \* names of tools, "nondict" for what is no object
     form |-> form,            \* name within "function", or at the top
     hint |-> hint,            \* Bash says that Edit and MultiEdit are to be used
     role |-> role, text |-> text,
     shape |-> shape,          \* string of a message, input_text, or a list
     effort |-> effort, temperature |-> temperature]
\* "on", "off" or "unset" of each switch, for the agent and for the model.
Switches == Blocks \cup {"filter"}
Policy(agent, requested, extra, exit, own, model, effort, temperature) ==
    [agent |-> agent, requested |-> requested, extra |-> extra, exit |-> exit,
     own |-> own, model |-> model, effort |-> effort, temperature |-> temperature]

Requests ==
    {r \in [path : {"openai", "chat", "generate", "other"}, object : BOOLEAN,
            tools : SUBSET STRING, form : {"function", "plain"}, hint : BOOLEAN,
            role : STRING, text : Seq(Tokens), shape : {"string", "input_text", "list"},
            effort : Settings, temperature : Settings] :
        r.hint => "Bash" \in r.tools}
Policies ==
    [agent : STRING, requested : SUBSET Requestable, extra : SUBSET STRING, exit : BOOLEAN,
     own : [Switches -> {"on", "off", "unset"}],
     model : [Switches -> {"on", "off", "unset"}],
     effort : BOOLEAN, temperature : BOOLEAN]

ASSUME CasesAssumption ==
    \A c \in Cases : c.policy \in Policies /\ c.body \in Requests

VARIABLES
    policy,
    original,   \* the request as it came
    body,       \* payload
    changed,    \* the flag
    at,         \* the stage
    sent        \* what is forwarded: the bytes of the request or the payload

vars == <<policy, original, body, changed, at, sent>>

Order == <<"git", "permissions", "commit", "skills">>
Init ==
    /\ \E c \in Cases : policy = c.policy /\ original = c.body
    /\ body = original
    /\ changed = FALSE
    /\ at = "receive"
    /\ sent = "none"

\* _cli_agent_policy_bool_option: what the agent's options say goes before the
\* model's, which some of the switches do not have.  The filter has two options
\* of the agent; either of them on is on.
Enabled(switch) ==
    \/ policy.own[switch] = "on"
    \/ /\ policy.own[switch] = "unset" /\ policy.model[switch] = "on"
       /\ switch \notin {"permissions", "skills"}

HasMessages == original.path \in {"openai", "chat"}

\* Other endpoints and other bodies are forwarded as they are.
Receive ==
    /\ at = "receive"
    /\ at' = IF original.path = "other" \/ ~original.object THEN "forward" ELSE "tools"
    /\ UNCHANGED <<policy, original, body, changed, sent>>

\* _rewrite_bash_tool_descriptions: Bash alone is told not to look for an editor.
HintRewritten(tools) ==
    [body EXCEPT !.tools = tools,
                 !.hint = /\ body.hint /\ "Bash" \in tools
                          /\ \/ body.form = "plain"
                             \/ tools \cap {"Edit", "MultiEdit", "Write"} # {}]

FilterTools ==
    /\ at = "tools"
    /\ body' = IF Enabled("filter") /\ HasMessages
               THEN HintRewritten(body.tools \cap (AllowedNames(policy) \cup {"nondict"}))
               ELSE body
    /\ changed' = (changed \/ body' # body)
    /\ at' = Order[1]
    /\ UNCHANGED <<policy, original, sent>>

\* _mutate_text_blocks: which texts a block is taken out of
Reaches(block) ==
    /\ Enabled(block) /\ HasMessages
    /\ original.shape # "list"
    /\ original.role \in (IF block \in {"git", "commit"} THEN {"system"}
                           ELSE {"system", "developer"})

\* Variant: the flag is that of the last block looked for.
StripAssigning(n) ==
    /\ at = Order[n]
    /\ body' = IF Reaches(at) THEN [body EXCEPT !.text = Stripped(@, at)] ELSE body
    /\ changed' = (body' # body)
    /\ at' = IF n < Len(Order) THEN Order[n + 1] ELSE "effort"
    /\ UNCHANGED <<policy, original, sent>>

Strip(n) ==
    /\ at = Order[n]
    /\ body' = IF Reaches(at) THEN [body EXCEPT !.text = Stripped(@, at)] ELSE body
    /\ changed' = (changed \/ body' # body)
    /\ at' = IF n < Len(Order) THEN Order[n + 1] ELSE "effort"
    /\ UNCHANGED <<policy, original, sent>>

\* The overrides: the effort is known to the OpenAI endpoints only.
OverrideEffort ==
    /\ at = "effort"
    /\ body' = IF policy.effort /\ original.path = "openai"
               THEN [body EXCEPT !.effort = "wanted"] ELSE body
    /\ changed' = (changed \/ body' # body)
    /\ at' = "temperature"
    /\ UNCHANGED <<policy, original, sent>>

OverrideTemperature ==
    /\ at = "temperature"
    /\ body' = IF policy.temperature THEN [body EXCEPT !.temperature = "wanted"] ELSE body
    /\ changed' = (changed \/ body' # body)
    /\ at' = "forward"
    /\ UNCHANGED <<policy, original, sent>>

Forward ==
    /\ at = "forward"
    /\ sent' = IF changed THEN "payload" ELSE "bytes"
    /\ at' = "done"
    /\ UNCHANGED <<policy, original, body, changed>>

Next == \/ Receive \/ FilterTools \/ \E n \in DOMAIN Order : Strip(n)
        \/ OverrideEffort \/ OverrideTemperature \/ Forward

Spec == Init /\ [][Next]_vars

-----------------------------------------------------------------------------
(* The properties, all of the request the backend gets. *)

Arrived == IF sent = "bytes" THEN original ELSE body

\* No stage forgets what an earlier one changed: the backend gets the request
\* with all mutations, and exactly the bytes of the agent if there were none.
MutationsReachBackend ==
    at = "done" => Arrived = body /\ (sent = "payload" => body # original)

Mutable == original.object /\ HasMessages

\* What an agent with a dialect may offer: the tools that play the role of a tool
\* of the test, those the model's extra names mean by any of the names a tool has,
\* what was asked for and the dialect does not have, and the tools that end the
\* session if and only if there is one for commands.
OfferedAsRequested ==
    LET entries == Dialect(policy.agent)
        roles == {Role(q) : q \in policy.requested}
        named == {Canonical(x) : x \in policy.extra}
        wanted == {e \in entries : \/ e.role \in roles
                                   \/ {e.id, e.raw, e.canonical} \cap named # {}}
        ends == {e \in entries : /\ policy.exit /\ e.role = "terminate"
                                 /\ \E w \in wanted : w.role = "command"}
        unknown == {q \in policy.requested : \A e \in entries : e.role # Role(q)}
                   \cup {x \in named : \A e \in entries : x \notin {e.id, e.raw, e.canonical}}
    IN  at = "done" /\ Mutable /\ Enabled("filter") /\ entries # {} =>
          Arrived.tools = {t \in original.tools :
              t = "nondict" \/ t \in unknown \/ \E e \in wanted \cup ends : e.raw = t}

Words(t) == KeepAt(t, {i \in DOMAIN t : t[i] \notin {"nl", "repo"}})

\* Blocks one after another, each ended, and a line of its own about the repository.
WellFormed(t) ==
    /\ \A i \in DOMAIN t :
          t[i] \in Blocks =>
              \E j \in i + 1 .. Len(t) :
                  t[j] = Ends(t[i]) /\ \A k \in i + 1 .. j - 1 : t[k] \in {"nl", "text"}
    /\ \A i \in DOMAIN t : t[i] = "repo" => i = Len(t) \/ t[i + 1] = "nl"

\* Whatever blocks are taken out before or after it, a text loses the blocks
\* that were asked for and that its role allows, and no word besides.
StripsAreExact ==
    LET t == original.text
        gone == {i \in DOMAIN t : \E b \in {c \in Blocks : Reaches(c)} :
                    \E j \in 1 .. i : /\ IsBlock(t, b, j)
                                       /\ \A k \in j .. i - 1 : t[k] # Ends(b)}
    IN  at = "done" /\ Mutable /\ WellFormed(t) =>
          Words(Arrived.text) = Words(KeepAt(t, DOMAIN t \ gone))

=============================================================================
