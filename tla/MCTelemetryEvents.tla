------------------------- MODULE MCTelemetryEvents -------------------------
(* The lines of output and of the artifacts that TLC reads.  "run" is a tool
   the output and the proxy both know, "unknown" what a proxy could not name. *)
EXTENDS TelemetryEvents

Line(json, marks, id, text) ==
    [json |-> json, marks |-> marks, tool |-> "run", id |-> id, text |-> text]

\* The same call told as JSON with its id and without, as a mark in text and by
\* the proxy; another call; a result as JSON, and told by the line after
\* "System:"; marks in an echo, and in a JSON object that is no event.
MCLines ==
    {Line("call", {}, "c1", "none"), Line("call", {}, "c2", "none"),
     Line("call", {}, "none", "none"),
     Line("recipient", {}, "none", "none"),
     Line("result", {}, "c1", "none"), Line("none", {"header"}, "none", "t1"),
     Line("none", {"ran_command"}, "none", "t1"),
     Line("none", {"ran_command", "system"}, "none", "t2"),
     Line("none", {"call"}, "c1", "t1"),
     Line("other", {"echo", "call"}, "c1", "t1"),
     Line("other", {"recipient"}, "c1", "t1"),
     Line("none", {"edit", "done"}, "none", "t1"),
     Line("none", {"done"}, "none", "t1")}

Call(id) == [tool |-> "run", id |-> id]
MCProxyLines ==
    {[calls |-> <<Call("c1")>>, results |-> <<>>, marked |-> <<>>],
     [calls |-> <<Call("none")>>, results |-> <<Call("c1")>>, marked |-> <<>>],
     [calls |-> <<>>, results |-> <<[tool |-> "unknown", id |-> "none"]>>,
      marked |-> <<Call("c1")>>]}
=============================================================================
