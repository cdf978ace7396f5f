------------------------- MODULE MCRequestMutation -------------------------
(* The requests and settings TLC takes RequestMutation through. *)
EXTENDS RequestMutation, SequencesExt

CONSTANT MaxPieces   \* bound: pieces of a text

\* Texts are put together of blocks, a block that is not ended, the line about
\* the repository, words and newlines.
Pieces ==
    {<<"git", "text", "context/">>, <<"commit", "context/">>,
     <<"permissions", "nl", "permissions/">>, <<"git">>, <<"repo">>, <<"nl">>,
     <<"nl", "nl">>, <<"text">>}
MCTexts == {FlattenSeq(p) : p \in UNION {[1 .. n -> Pieces] : n \in 0 .. MaxPieces}}

On(switches) == [s \in Switches |-> IF s \in switches THEN "on" ELSE "unset"]

\* Texts to strip, with every set of blocks.
TextCases ==
    {[policy |-> Policy("gptme", {"shell"}, {}, TRUE, On(strips), On({}), FALSE, FALSE),
      body |-> Body("chat", TRUE, {}, "function", FALSE, role, "string", t,
                    "absent", "absent")] :
        strips \in SUBSET {"git", "commit", "permissions"},
        role \in {"system", "developer", "user"}, t \in MCTexts}

\* Tools to filter: any offer of an agent, any tool a test asks for, alone or with
\* the shell, or the four of most tests, and no or one more name for the model: a
\* requestable tool, an agent's own, or one that no dialect has.
Offer(agent) ==
    CASE agent = "codex" -> <<"exec_command", "write_stdin", "apply_patch", "list">>
      [] agent = "gptme" -> <<"shell", "complete", "patch", "List">>
      [] agent = "pi" -> <<"bash", "edit", "write", "MultiEdit">>
      [] OTHER -> <<"Bash", "MultiEdit", "List", "Exit">>
Requestings ==
    {{}, {"shell", "patch", "read", "save"}}
    \cup {{q} : q \in Requestable} \cup {{q, "shell"} : q \in Requestable}
Extras == {{}} \cup {{x} : x \in {"shell", "read", "patch", "list", "Exit", "exec_command"}}
ToolCases ==
    {LET tools == {Offer(agent)[i] : i \in places}
     IN  [policy |-> Policy(agent, requested, extra, exit, On({"filter"}), On({}), FALSE, FALSE),
          body |-> Body("openai", TRUE, tools \cup {"nondict"}, "function", "Bash" \in tools,
                        "system", "string", <<"text">>, "absent", "absent")] :
        agent \in {"codex", "gptme", "continue-cli", "pi", "opencode"},
        requested \in Requestings, extra \in Extras, exit \in BOOLEAN,
        places \in SUBSET (1 .. 4)}

\* Every endpoint, shape of a message and setting of the overridden options.
OtherCases ==
    {[policy |-> Policy("continue-cli", {"shell"}, {}, TRUE,
                        [On({}) EXCEPT !["permissions"] = own, !["git"] = own,
                                       !["filter"] = own],
                        On(model), effort, temperature),
      body |-> Body(path, object, {"Bash"}, "plain", TRUE, role, shape,
                    <<"git", "context/", "permissions", "permissions/">>,
                    old, old)] :
        own \in {"on", "off", "unset"}, model \in {{}, Switches},
        effort \in BOOLEAN, temperature \in BOOLEAN,
        path \in {"openai", "chat", "generate", "other"}, object \in BOOLEAN,
        shape \in {"string", "input_text", "list"},
        role \in {"system", "developer"}, old \in Settings}

MCCases == TextCases \cup ToolCases \cup OtherCases
=============================================================================
