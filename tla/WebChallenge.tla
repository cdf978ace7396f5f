---------------------------- MODULE WebChallenge ----------------------------
(* The web challenge of a case: a local server that gives the agent a page it
   cannot guess, the log of the pages it was asked for, and the validator that
   wants both the right artifact and the measured page in the log
   (_WebNonceChallenge, _WebSearchChallenge and run of gripprobe/runner.py,
   gripprobe/validators/web_nonce_proof.py and web_search_result.py).

   The runner is sequential.  Every request has a handler thread of its own;
   handlers are daemons, so server_close() waits for none of them.  They take
   _lock around a hit; the validator reads the log and stop() rewrites it
   without the lock, and the log is rewritten in place. *)
EXTENDS Integers, Sequences

\* bound: requests that reach a page of the challenge (others get a 404)
CONSTANT MaxRequests

ASSUME RequestsAssumption == MaxRequests \in Nat

\* The requests, numbered as the server accepts them; 0 is no handler.
Requests == 1 .. MaxRequests
NoHandler == 0

VARIABLES
    kind,      \* the challenge: two validators, one of them with two payloads
    at,        \* where the runner is
    server,    \* its ThreadingHTTPServer
    paths,     \* _request_paths
    file,      \* the request log
    lock,      \* the handler that holds _lock
    req,       \* the requests with their handlers
    text,      \* entries in the text stop() is about to write
    inFlight,  \* history: requests not yet in the log when the server closed
    artifact,  \* what the agent left in the measured workspace
    observed,  \* what the validator read of the artifact
    hit,       \* what the validator read of the log
    verdict

vars == <<kind, at, server, paths, file, lock, req, text, inFlight, artifact,
          observed, hit, verdict>>

Kinds == {"nonce", "search", "raw"}
Pages == {"warmup", "measured"}
Stages == {"start", "prepare", "warmup", "measured", "readArtifact", "readLog",
           "close", "dump", "truncate", "write", "done", "aborted"}
HandlerStates == {"unsent", "accepted", "appended", "truncated", "registered",
                  "answered", "broken"}

-----------------------------------------------------------------------------
(* The log on the disk.  A text is a prefix of _request_paths, told by the
   number of its entries; even the one of no entries has a size. *)

Size(entries) == entries + 1
Truncated == [size |-> 0, valid |-> FALSE]

\* write_text of a text over whatever is there by now: a longer rest remains
\* behind it and makes the file no JSON.
Written(f, entries) ==
    IF Size(entries) >= f.size THEN [size |-> Size(entries), valid |-> TRUE]
                               ELSE [size |-> f.size, valid |-> FALSE]

\* _read_request_paths: what is not a JSON list counts as no request at all
LoggedPages ==
    IF file.valid THEN {paths[i] : i \in 1 .. (file.size - 1)} ELSE {}

-----------------------------------------------------------------------------
Init ==
    /\ kind \in Kinds
    /\ at = "start"
    /\ server = "none"
    /\ paths = <<>>
    /\ file = Truncated
    /\ lock = NoHandler
    /\ req = [r \in Requests |->
                [pc |-> "unsent", page |-> "warmup", query |-> TRUE, text |-> 0]]
    /\ text = 0
    /\ inFlight = {}
    /\ artifact = "none"
    /\ observed = "none"
    /\ hit = FALSE
    /\ verdict = "none"

(* The handlers. *)

\* The agent, or what it left running, asks for a page while the server accepts.
\* It knows both urls once the workspaces, which lie side by side, are prepared.
Send(r) ==
    /\ server = "up" /\ at \notin {"prepare", "aborted"}
    /\ req[r].pc = "unsent"
    /\ \A s \in 1 .. (r - 1) : req[s].pc # "unsent"
    /\ \E p \in Pages, q \in (IF kind = "search" THEN BOOLEAN ELSE {TRUE}) :
          req' = [req EXCEPT ![r] = [pc |-> "accepted", page |-> p,
                                     query |-> q, text |-> 0]]
    /\ UNCHANGED <<kind, at, server, paths, file, lock, text, inFlight, artifact,
                   observed, hit, verdict>>

\* Variant: without _lock, whoever comes first.
AppendUnlocked(r) ==
    /\ req[r].pc = "accepted"
    /\ paths' = Append(paths, req[r].page)
    /\ req' = [req EXCEPT ![r] = [@ EXCEPT !.pc = "appended",
                                           !.text = Len(paths) + 1]]
    /\ UNCHANGED <<kind, at, server, file, lock, text, inFlight, artifact,
                   observed, hit, verdict>>

\* _register_hit: take the lock, append, dump the list; a wrong query counts too.
AppendHit(r) ==
    /\ req[r].pc = "accepted"
    /\ lock = NoHandler
    /\ lock' = r
    /\ paths' = Append(paths, req[r].page)
    /\ req' = [req EXCEPT ![r] = [@ EXCEPT !.pc = "appended",
                                           !.text = Len(paths) + 1]]
    /\ UNCHANGED <<kind, at, server, file, text, inFlight, artifact, observed,
                   hit, verdict>>

\* write_text opens the file for writing ...
TruncateLog(r) ==
    /\ req[r].pc = "appended"
    /\ file' = Truncated
    /\ req' = [req EXCEPT ![r] = [@ EXCEPT !.pc = "truncated"]]
    /\ UNCHANGED <<kind, at, server, paths, lock, text, inFlight, artifact,
                   observed, hit, verdict>>

\* ... and writes; then the lock is released.
WriteLog(r) ==
    /\ req[r].pc = "truncated"
    /\ file' = Written(file, req[r].text)
    /\ lock' = NoHandler
    /\ req' = [req EXCEPT ![r] = [@ EXCEPT !.pc = "registered", !.text = 0]]
    /\ UNCHANGED <<kind, at, server, paths, text, inFlight, artifact, observed,
                   hit, verdict>>

\* The response is sent, or its client is gone by now.
Answer(r) ==
    /\ req[r].pc = "registered"
    /\ \E s \in {"answered", "broken"} :
          req' = [req EXCEPT ![r] = [@ EXCEPT !.pc = s]]
    /\ UNCHANGED <<kind, at, server, paths, file, lock, text, inFlight, artifact,
                   observed, hit, verdict>>

\* _payload_for_request: a search page has results for its own query only.
HasResults(r) == req[r].query

GotResults(r) == req[r].pc = "answered" /\ req[r].page = "measured" /\ HasResults(r)

-----------------------------------------------------------------------------
(* The runner. *)

\* start(): an empty log, then the socket, which may be refused.
Start ==
    /\ at = "start"
    /\ file' = Written(Truncated, 0)
    /\ \/ at' = "prepare" /\ server' = "up"
       \/ at' = "aborted" /\ UNCHANGED server
    /\ UNCHANGED <<kind, paths, lock, req, text, inFlight, artifact, observed,
                   hit, verdict>>

\* The files with url and query are written to both workspaces and the
\* validators patched, before the try: an error here ends the run.
Prepare ==
    /\ at = "prepare"
    /\ at' \in {"warmup", "aborted"}
    /\ UNCHANGED <<kind, server, paths, file, lock, req, text, inFlight,
                   artifact, observed, hit, verdict>>

\* adapter.run_case: the commands of the two phases, each with a timeout ...
EndPhase ==
    /\ \/ at = "warmup" /\ at' = "measured"
       \/ at = "measured" /\ at' = "readArtifact"
    /\ UNCHANGED <<kind, server, paths, file, lock, req, text, inFlight,
                   artifact, observed, hit, verdict>>

\* The nonces and the results are random; the counts of the raw test and the
\* query are not.
Derivable == kind = "raw" \/ \E r \in Requests : GotResults(r)

AgentWrites ==
    /\ at = "measured"
    /\ \/ artifact' = "wrong"
       \/ Derivable /\ artifact' = "right"
    /\ UNCHANGED <<kind, at, server, paths, file, lock, req, text, inFlight,
                   observed, hit, verdict>>

\* ... then evaluate_validators: the artifact, then the log, without the lock.
ReadArtifact ==
    /\ at = "readArtifact"
    /\ observed' = artifact
    /\ at' = "readLog"
    /\ UNCHANGED <<kind, server, paths, file, lock, req, text, inFlight,
                   artifact, hit, verdict>>

\* Variant: the artifact is enough.
ArtifactIsEnough == observed = "right"

Accepted == observed = "right" /\ hit'

ReadLog ==
    /\ at = "readLog"
    /\ hit' = ("measured" \in LoggedPages)
    /\ verdict' = IF Accepted THEN "PASS" ELSE "FAIL"
    /\ at' = "close"
    /\ UNCHANGED <<kind, server, paths, file, lock, req, text, inFlight,
                   artifact, observed>>

\* Variant: the exception leaves the function without the finally.
RunCaseRaisesOut ==
    /\ at \in {"warmup", "measured", "readArtifact", "readLog"}
    /\ verdict' \in {"HARNESS", "raised"}
    /\ at' = IF verdict' = "HARNESS" THEN "close" ELSE "aborted"
    /\ UNCHANGED <<kind, server, paths, file, lock, req, text, inFlight,
                   artifact, observed, hit>>

\* An AdapterError makes a harness result, anything else leaves run; the finally
\* is on both ways.
RunCaseRaises ==
    /\ at \in {"warmup", "measured", "readArtifact", "readLog"}
    /\ verdict' \in {"HARNESS", "raised"}
    /\ at' = "close"
    /\ UNCHANGED <<kind, server, paths, file, lock, req, text, inFlight,
                   artifact, observed, hit>>

\* stop(): shutdown and server_close ...
NotRegistered == {r \in Requests : req[r].pc \in {"accepted", "appended", "truncated"}}

\* Variant: the log is written again, but the server stays.
CloseNothing ==
    /\ at = "close"
    /\ inFlight' = NotRegistered
    /\ at' = "dump"
    /\ UNCHANGED <<kind, server, paths, file, lock, req, text, artifact,
                   observed, hit, verdict>>

CloseServer ==
    /\ at = "close"
    /\ server' = "closed"
    /\ inFlight' = NotRegistered
    /\ at' = "dump"
    /\ UNCHANGED <<kind, paths, file, lock, req, text, artifact, observed, hit,
                   verdict>>

\* Variant: the place of the last entry for the number of entries.
DumpToLast ==
    /\ at = "dump"
    /\ text' = Len(paths) - 1
    /\ at' = "truncate"
    /\ UNCHANGED <<kind, server, paths, file, lock, req, inFlight, artifact,
                   observed, hit, verdict>>

\* ... and _write_request_log once more, this time without the lock.
DumpLog ==
    /\ at = "dump"
    /\ text' = Len(paths)
    /\ at' = "truncate"
    /\ UNCHANGED <<kind, server, paths, file, lock, req, inFlight, artifact,
                   observed, hit, verdict>>

RetruncateLog ==
    /\ at = "truncate"
    /\ file' = Truncated
    /\ at' = "write"
    /\ UNCHANGED <<kind, server, paths, lock, req, text, inFlight, artifact,
                   observed, hit, verdict>>

RewriteLog ==
    /\ at = "write"
    /\ file' = Written(file, text)
    /\ text' = 0
    /\ at' = IF verdict = "raised" THEN "aborted" ELSE "done"
    /\ UNCHANGED <<kind, server, paths, lock, req, inFlight, artifact, observed,
                   hit, verdict>>

Handler(r) == AppendHit(r) \/ TruncateLog(r) \/ WriteLog(r) \/ Answer(r)
Runner == \/ Start \/ Prepare \/ EndPhase \/ ReadArtifact \/ ReadLog
          \/ RunCaseRaises \/ CloseServer \/ DumpLog \/ RetruncateLog \/ RewriteLog

Next == (\E r \in Requests : Send(r) \/ Handler(r)) \/ Runner \/ AgentWrites

Spec == Init /\ [][Next]_vars

\* The runner goes on, since every command has a timeout, and so do handlers.
FairSpec == Spec /\ WF_vars(Runner) /\ \A r \in Requests : WF_vars(Handler(r))

-----------------------------------------------------------------------------
(* What a web challenge promises. *)

\* Type correctness of the challenge, of its log and of its handlers.
TypeOK ==
    /\ kind \in Kinds
    /\ at \in Stages
    /\ server \in {"none", "up", "closed"}
    /\ paths \in Seq(Pages)
    /\ file \in [size : Nat, valid : BOOLEAN]
    /\ lock \in Requests \cup {NoHandler}
    /\ req \in [Requests -> [pc : HandlerStates, page : Pages, query : BOOLEAN,
                             text : Nat]]
    /\ text \in Nat
    /\ inFlight \in SUBSET Requests
    /\ artifact \in {"none", "wrong", "right"}
    /\ observed \in {"none", "wrong", "right"}
    /\ hit \in BOOLEAN
    /\ verdict \in {"none", "PASS", "FAIL", "HARNESS", "raised"}

\* A case that passes did fetch its measured page and, where the page has
\* something to tell, was sent it: guesses and the warm-up page are not enough,
\* and no state of the log between two writes is taken for a hit.
PassMeansFetched ==
    verdict = "PASS" =>
        /\ \E r \in Requests : req[r].page = "measured"
                               /\ req[r].pc \notin {"unsent", "accepted"}
        /\ kind # "raw" => \E r \in Requests : GotResults(r)

\* The other way round, an answered measured page is not overlooked, but for one
\* reason: the validator reads while another request has the log truncated.
FetchCounts ==
    [][ReadLog /\ (\E r \in Requests : req[r].page = "measured"
                                       /\ req[r].pc \in {"registered", "answered", "broken"})
       => hit' \/ \E r \in Requests : req[r].pc = "truncated"]_vars

Quiet == \A r \in Requests : req[r].pc \notin {"accepted", "appended", "truncated"}

\* The log a case is left with lists every request, once all handlers are done,
\* unless one of them was overtaken by the server being closed.
LogKeepsEveryHit ==
    at = "done" /\ Quiet /\ inFlight = {} => file = [size |-> Size(Len(paths)), valid |-> TRUE]

\* Once a phase has begun, the server is closed on every way out of the case.
ServerIsClosed == (at = "warmup") ~> (server = "closed")

=============================================================================
