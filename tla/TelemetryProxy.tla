--------------------------- MODULE TelemetryProxy ---------------------------
(* OllamaTelemetryProxy of gripprobe/telemetry_proxy.py: one proxy from
   start() to the return of stop().

   A connection of the client is served by a daemon thread of its own
   (ThreadingHTTPServer, HTTP/1.1 keep-alive), which handles the requests of
   that connection one after another.  stop() runs in the runner's thread, it
   is the only other actor of the proxy, and server_close() does not join the
   handler threads.

   What the Python library does is modelled as the code meets it: closing an
   HTTPResponse waits for the lock of its buffered reader, so it waits while
   the handler is inside read(); reading a closed response returns the empty
   string; so does read(amt) of a body that is not chunked and ends too early,
   and read() of one that has no Content-Length either; closing an
   HTTPConnection does not wake a blocked getresponse(), and closes the response
   too when the upstream connection is kept alive.  The socket of the client has
   no timeout: a write to a client that stays and does not read may block for ever. *)
EXTENDS Naturals, Sequences

CONSTANTS
    Conns,                \* the connections clients open to the proxy
    MaxRequests,          \* bound: requests on one connection
    CaptureStreamTiming   \* the option capture_stream_timing

ASSUME ConstantsAssumption ==
    /\ MaxRequests \in Nat
    /\ CaptureStreamTiming \in BOOLEAN

VARIABLES
    stage,                \* where start() and stop() are
    stopping,             \* self._stopping
    activeConnections,    \* self._active_connections
    activeUpstreams,      \* self._active_upstreams
    snapshot,             \* the upstreams stop() copied under the lock
    toClose,              \* what stop() has still to close in this stage
    pc,                   \* where the handler thread of a connection is
    h,                    \* the locals of its _handle call
    gone,                 \* the client has closed its end
    artifact              \* the lines of the .http.jsonl file

stopVars    == <<stage, stopping, snapshot, toClose>>
registered  == <<activeConnections, activeUpstreams>>
handlerVars == <<pc, h>>
vars == <<stopVars, registered, handlerVars, gone, artifact>>

Stages == {"new", "failed", "up", "snapshot", "connections", "upstreams",
           "returned"}
Requests == Conns \X (1 .. MaxRequests)

\* The locals of _handle and of the calls it makes.  `bound`: stream_metrics is
\* assigned.  `up`: the upstream response.  `heads`, `got`, `ended`: what the
\* client was sent.  No locals of the code: `told`, the framing of the upstream
\* body makes its read raise when it ends too early, and `whole`, the upstream
\* reached the end of its body.
Locals ==
    [n : 0 .. MaxRequests, bound : BOOLEAN,
     up : {"none", "open", "closed"}, told : BOOLEAN, whole : BOOLEAN,
     status : {"upstream", "502"}, error : {"none", "stopped", "upstream"},
     disc : {"none", "client", "stopped"}, upErr : BOOLEAN,
     heads : Nat, got : {"none", "upstream", "502"}, ended : BOOLEAN]

Events ==
    [req : Requests, status : {"upstream", "502"},
     error : {"none", "stopped", "upstream"},
     disc : {"none", "client", "stopped"}, upErr : BOOLEAN]

Fresh(n) ==
    [n |-> n, bound |-> FALSE, up |-> "none", told |-> FALSE, whole |-> FALSE,
     status |-> "502", error |-> "none", disc |-> "none", upErr |-> FALSE,
     heads |-> 0, got |-> "none", ended |-> FALSE]

\* The request the handler of connection c is at.
Req(c) == <<c, h[c].n>>

PCs == {"none", "idle", "connect", "send", "wait", "register", "head", "read",
        "write", "body", "answer", "terminate", "unregister", "close", "fail",
        "append", "closed"}
\* A request was received and its event is not written yet.
Handling == PCs \ {"none", "idle", "closed"}
\* Inside upstream_response.read(), holding the lock of the buffered reader.
Reading == {"read", "body"}
\* From _register_active_upstream to _unregister_active_upstream.
Relaying == {"head", "read", "write", "body", "answer", "terminate",
             "unregister"}
\* From the return of getresponse() to the close of the response.
HasUpstream == Relaying \cup {"register", "close"}

Init ==
    /\ stage = "new"
    /\ stopping = FALSE
    /\ activeConnections = {}
    /\ activeUpstreams = {}
    /\ snapshot = {}
    /\ toClose = {}
    /\ pc = [c \in Conns |-> "none"]
    /\ h = [c \in Conns |-> Fresh(0)]
    /\ gone = [c \in Conns |-> FALSE]
    /\ artifact = << >>

Goto(c, to) == pc' = [pc EXCEPT ![c] = to]

\* Binding the socket comes after the artifact was truncated, and may fail.
Start ==
    /\ stage = "new"
    /\ stage' \in {"up", "failed"}
    /\ stopping' = FALSE
    /\ artifact' = << >>
    /\ UNCHANGED <<snapshot, toClose, registered, handlerVars, gone>>

-----------------------------------------------------------------------------
(* The client and the upstream. *)

\* The serve thread accepts until server.shutdown() returns.
Accept(c) ==
    /\ pc[c] = "none"
    /\ stage \in {"up", "snapshot", "connections", "upstreams"}
    /\ Goto(c, "idle")
    /\ UNCHANGED <<stopVars, registered, h, gone, artifact>>

ClientLeaves(c) ==
    /\ pc[c] \notin {"none", "closed"}
    /\ ~gone[c]
    /\ gone' = [gone EXCEPT ![c] = TRUE]
    /\ UNCHANGED <<stopVars, registered, handlerVars, artifact>>

\* handle() ends at the end of the input, or at a request whose body or length
\* cannot be read: nothing was forwarded and no event is written.
EndConnection(c) ==
    /\ pc[c] = "idle"
    /\ Goto(c, "closed")
    /\ gone' = [gone EXCEPT ![c] = TRUE]
    /\ UNCHANGED <<stopVars, registered, h, artifact>>

\* do_GET ... do_DELETE: also after stop() returned, on a connection kept alive.
Request(c) ==
    /\ pc[c] = "idle"
    /\ ~gone[c]
    /\ h[c].n < MaxRequests
    /\ h' = [h EXCEPT ![c] = Fresh(h[c].n + 1)]
    /\ Goto(c, "connect")
    /\ UNCHANGED <<stopVars, registered, gone, artifact>>

-----------------------------------------------------------------------------
(* _open_upstream_response *)

RegisterConnection(c) ==
    /\ pc[c] = "connect"
    /\ activeConnections' = activeConnections \cup {Req(c)}
    /\ Goto(c, "send")
    /\ UNCHANGED <<stopVars, activeUpstreams, h, gone, artifact>>

\* connection.request() opens the socket, again if stop() has closed it before.
SendRequest(c) ==
    /\ pc[c] = "send"
    /\ Goto(c, "wait")
    /\ UNCHANGED <<stopVars, registered, h, gone, artifact>>

\* Variant: the exception leaves _handle without an answer to the client.
OpenFailsUnanswered(c) ==
    /\ pc[c] \in {"send", "wait"}
    /\ activeConnections' = activeConnections \ {Req(c)}
    /\ h' = [h EXCEPT ![c].error = "upstream"]
    /\ Goto(c, "append")
    /\ UNCHANGED <<stopVars, activeUpstreams, gone, artifact>>

\* Variant: getresponse() is polled without a deadline.
OpenFailsNoDeadline(c) ==
    /\ pc[c] = "send"
    /\ activeConnections' = activeConnections \ {Req(c)}
    /\ h' = [h EXCEPT ![c].error = "upstream"]
    /\ Goto(c, "fail")
    /\ UNCHANGED <<stopVars, activeUpstreams, gone, artifact>>

\* Any exception: the connection is closed and unregistered, then _handle
\* takes its `except Exception` branch.
OpenFails(c) ==
    /\ pc[c] \in {"send", "wait"}
    /\ activeConnections' = activeConnections \ {Req(c)}
    /\ h' = [h EXCEPT ![c].error = "upstream"]
    /\ Goto(c, "fail")
    /\ UNCHANGED <<stopVars, activeUpstreams, gone, artifact>>

\* The poll of getresponse() timed out and finds _stopping set: _handle writes
\* its event and answers nothing.
OpenStopped(c) ==
    /\ pc[c] = "wait"
    /\ stopping
    /\ activeConnections' = activeConnections \ {Req(c)}
    /\ h' = [h EXCEPT ![c].error = "stopped", ![c].disc = "stopped"]
    /\ Goto(c, "append")
    /\ UNCHANGED <<stopVars, activeUpstreams, gone, artifact>>

\* A blocked getresponse() may succeed though stop() closed the connection.
\* From here to RegisterUpstream the handler is in neither set.
GetResponse(c) ==
    /\ pc[c] = "wait"
    /\ activeConnections' = activeConnections \ {Req(c)}
    /\ h' = [h EXCEPT ![c].up = "open"]
    /\ Goto(c, "register")
    /\ UNCHANGED <<stopVars, activeUpstreams, gone, artifact>>

-----------------------------------------------------------------------------
(* _handle, from _register_active_upstream to _append_event *)

\* The response is relayed chunk by chunk or buffered, by its content type.  A
\* read tells an early end of a chunked body, a buffered one also of a body with
\* a Content-Length, and neither of one that ends with its connection.
RegisterUpstream(c) ==
    /\ pc[c] = "register"
    /\ activeUpstreams' = activeUpstreams \cup {Req(c)}
    /\ \E told \in BOOLEAN :
           h' = [h EXCEPT ![c].bound = TRUE, ![c].status = "upstream",
                          ![c].told = told]
    /\ \/ Goto(c, "head")
       \/ Goto(c, "body")
    /\ UNCHANGED <<stopVars, activeConnections, gone, artifact>>

\* What a write to the client does: it fails only for a client that is gone,
\* and need not fail then.
WriteFails(c) == gone[c]

SendHead(c) ==
    /\ pc[c] = "head"
    /\ h' = [h EXCEPT ![c].heads = 1, ![c].got = "upstream"]
    /\ Goto(c, "read")
    /\ UNCHANGED <<stopVars, registered, gone, artifact>>

SendHeadFails(c) ==
    /\ pc[c] = "head"
    /\ WriteFails(c)
    /\ h' = [h EXCEPT ![c].disc = "client"]
    /\ Goto(c, "unregister")
    /\ UNCHANGED <<stopVars, registered, gone, artifact>>

ReadChunk(c) ==
    /\ pc[c] = "read"
    /\ h[c].up = "open"
    /\ Goto(c, "write")
    /\ UNCHANGED <<stopVars, registered, h, gone, artifact>>

WriteChunk(c) ==
    /\ pc[c] = "write"
    /\ Goto(c, "read")
    /\ UNCHANGED <<stopVars, registered, h, gone, artifact>>

\* Variant: the write error of a relay is not caught inside the relay.
WriteChunkFailsOutside(c) ==
    /\ pc[c] = "write"
    /\ WriteFails(c)
    /\ h' = [h EXCEPT ![c].disc = "client", ![c].error = "upstream"]
    /\ Goto(c, "unregister")
    /\ UNCHANGED <<stopVars, registered, gone, artifact>>

WriteChunkFails(c) ==
    /\ pc[c] = "write"
    /\ WriteFails(c)
    /\ h' = [h EXCEPT ![c].disc = "client"]
    /\ Goto(c, "unregister")
    /\ UNCHANGED <<stopVars, registered, gone, artifact>>

\* What the empty read that ends a body stands for: the whole of it, an early
\* end that reading does not tell, or a response that stop() has closed.
EndsWhole(c) ==
    {whole \in BOOLEAN : /\ whole => h[c].up = "open"
                         /\ h[c].up = "open" /\ h[c].told => whole}

ReadEof(c) ==
    /\ pc[c] = "read"
    /\ \E whole \in EndsWhole(c) : h' = [h EXCEPT ![c].whole = whole]
    /\ Goto(c, "terminate")
    /\ UNCHANGED <<stopVars, registered, gone, artifact>>

\* Variant: the relay just ends, and the error is not noted.
ReadFailsSilently(c) ==
    /\ pc[c] = "read"
    /\ h[c].up = "open"
    /\ Goto(c, "terminate")
    /\ UNCHANGED <<stopVars, registered, h, gone, artifact>>

\* Variant: a read that timed out is repeated, being stopped or not.
ReadFailsOnlyBeforeStop(c) ==
    /\ pc[c] = "read"
    /\ h[c].up = "open"
    /\ ~stopping
    /\ h' = [h EXCEPT ![c].upErr = TRUE]
    /\ Goto(c, "terminate")
    /\ UNCHANGED <<stopVars, registered, gone, artifact>>

\* An incomplete or reset read, or one that timed out.  A read that timed out
\* ends the relay when the proxy is being stopped; otherwise the next read of
\* the same response raises, and the relay ends with that error.
ReadFails(c) ==
    /\ pc[c] = "read"
    /\ h[c].up = "open"
    /\ \/ h' = [h EXCEPT ![c].upErr = TRUE]
       \/ (stopping /\ h' = [h EXCEPT ![c].disc = "stopped"])
    /\ Goto(c, "terminate")
    /\ UNCHANGED <<stopVars, registered, gone, artifact>>

\* Variant: a relay whose upstream failed is left without its last chunk.
TerminateIfWhole(c) ==
    /\ pc[c] = "terminate"
    /\ IF h[c].upErr \/ WriteFails(c)
         THEN UNCHANGED h
         ELSE h' = [h EXCEPT ![c].ended = TRUE]
    /\ Goto(c, "unregister")
    /\ UNCHANGED <<stopVars, registered, gone, artifact>>

\* The last chunk "0": sent however the relay ended, unless a write failed.
Terminate(c) ==
    /\ pc[c] = "terminate"
    /\ \/ h' = [h EXCEPT ![c].ended = TRUE]
       \/ (WriteFails(c) /\ UNCHANGED h)
    /\ Goto(c, "unregister")
    /\ UNCHANGED <<stopVars, registered, gone, artifact>>

\* upstream_response.read()
ReadBody(c) ==
    /\ pc[c] = "body"
    /\ \E whole \in EndsWhole(c) : h' = [h EXCEPT ![c].whole = whole]
    /\ Goto(c, "answer")
    /\ UNCHANGED <<stopVars, registered, gone, artifact>>

\* _send_buffered_response, which hides that a write failed.
SendBody(c) ==
    /\ pc[c] = "answer"
    /\ \/ h' = [h EXCEPT ![c].heads = 1, ![c].got = "upstream",
                         ![c].ended = TRUE]
       \/ (WriteFails(c) /\ UNCHANGED h)
    /\ Goto(c, "unregister")
    /\ UNCHANGED <<stopVars, registered, gone, artifact>>

\* The body is told to be too short, or it is silent for longer than the poll.
BodyFails(c) ==
    /\ pc[c] = "body"
    /\ h[c].up = "open"
    /\ h' = [h EXCEPT ![c].error = "upstream"]
    /\ Goto(c, "unregister")
    /\ UNCHANGED <<stopVars, registered, gone, artifact>>

UnregisterUpstream(c) ==
    /\ pc[c] = "unregister"
    /\ activeUpstreams' = activeUpstreams \ {Req(c)}
    /\ Goto(c, "close")
    /\ UNCHANGED <<stopVars, activeConnections, h, gone, artifact>>

\* stop() may be closing the response of c at this moment.
BeingClosed(c) == Req(c) \in toClose

\* The two contextlib.closing().  When both threads are in HTTPResponse.close()
\* the one that finds fp gone raises, and _handle answers a second time.
CloseUpstream(c) ==
    /\ pc[c] = "close"
    /\ \/ /\ h' = [h EXCEPT ![c].up = "closed"]
          /\ Goto(c, IF h[c].error = "none" THEN "append" ELSE "fail")
       \/ /\ BeingClosed(c)
          /\ h' = [h EXCEPT ![c].up = "closed", ![c].error = "upstream"]
          /\ Goto(c, "fail")
    /\ UNCHANGED <<stopVars, registered, gone, artifact>>

\* Variant: the two error fields are swapped.
EventSwapped(c) == [req |-> Req(c), status |-> h[c].status, error |-> h[c].disc,
                    disc |-> h[c].error, upErr |-> h[c].upErr]

\* The event of the request, as the locals are now.
Event(c) == [req |-> Req(c), status |-> h[c].status, error |-> h[c].error,
             disc |-> h[c].disc, upErr |-> h[c].upErr]

\* Variant: the `except` branch writes an event of its own.
SendProxyErrorRecorded(c) ==
    /\ pc[c] = "fail"
    /\ h' = [h EXCEPT ![c].status = "502", ![c].heads = @ + 1,
                      ![c].got = IF h[c].heads = 0 THEN "502" ELSE @,
                      ![c].ended = TRUE]
    /\ artifact' = Append(artifact, Event(c))
    /\ Goto(c, "append")
    /\ UNCHANGED <<stopVars, registered, gone>>

\* `except Exception`: the event will say 502, and so does the answer.
SendProxyError(c) ==
    /\ pc[c] = "fail"
    /\ \/ h' = [h EXCEPT ![c].status = "502", ![c].heads = @ + 1,
                         ![c].got = IF h[c].heads = 0 THEN "502" ELSE @,
                         ![c].ended = TRUE]
       \/ (WriteFails(c) /\ h' = [h EXCEPT ![c].status = "502"])
    /\ Goto(c, "append")
    /\ UNCHANGED <<stopVars, registered, gone, artifact>>

\* Variant: a failed write to the client ends the handler.
CanBuildEventUnlessGone(c) ==
    (CaptureStreamTiming => h[c].bound) /\ h[c].disc # "client"

\* Building the event reads stream_metrics when capture_stream_timing is on: it
\* raises when no upstream response was opened, and the thread ends.
CanBuildEvent(c) == CaptureStreamTiming => h[c].bound

AppendEvent(c) ==
    /\ pc[c] = "append"
    /\ IF CanBuildEvent(c)
         THEN /\ artifact' = Append(artifact, Event(c))
              /\ h' = [h EXCEPT ![c] = Fresh(h[c].n)]
              /\ Goto(c, "idle")
         ELSE /\ Goto(c, "closed")
              /\ UNCHANGED <<h, artifact>>
    /\ UNCHANGED <<stopVars, registered, gone>>

-----------------------------------------------------------------------------
(* stop() *)

StopBegin ==
    /\ stage = "up"
    /\ stopping' = TRUE
    /\ stage' = "snapshot"
    /\ UNCHANGED <<snapshot, toClose, registered, handlerVars, gone, artifact>>

\* Both sets are copied in one critical section.
StopSnapshot ==
    /\ stage = "snapshot"
    /\ toClose' = activeConnections
    /\ snapshot' = activeUpstreams
    /\ stage' = "connections"
    /\ UNCHANGED <<stopping, registered, handlerVars, gone, artifact>>

\* A response that is handed out and not closed yet is closed; the handler is
\* not inside its read().
CloseResponse(c) ==
    IF pc[c] \in HasUpstream
      THEN /\ pc[c] \notin Reading
           /\ h' = [h EXCEPT ![c].up = "closed"]
      ELSE UNCHANGED h

\* connection.close() also closes the response the connection has handed out,
\* if the upstream keeps the connection alive.
StopCloseConnection(c) ==
    /\ stage = "connections"
    /\ Req(c) \in toClose
    /\ toClose' = toClose \ {Req(c)}
    /\ CloseResponse(c) \/ UNCHANGED h
    /\ UNCHANGED <<stage, stopping, snapshot, registered, pc, gone, artifact>>

\* Variant: only the connections are closed.
StopUpstreamsSkipped ==
    /\ stage = "connections"
    /\ \A c \in Conns : Req(c) \notin toClose
    /\ toClose' = {}
    /\ stage' = "upstreams"
    /\ UNCHANGED <<stopping, snapshot, registered, handlerVars, gone, artifact>>

StopUpstreams ==
    /\ stage = "connections"
    /\ \A c \in Conns : Req(c) \notin toClose
    /\ toClose' = snapshot
    /\ stage' = "upstreams"
    /\ UNCHANGED <<stopping, snapshot, registered, handlerVars, gone, artifact>>

\* upstream.close() waits for the reader.
StopCloseUpstream(c) ==
    /\ stage = "upstreams"
    /\ Req(c) \in toClose
    /\ toClose' = toClose \ {Req(c)}
    /\ CloseResponse(c)
    /\ UNCHANGED <<stage, stopping, snapshot, registered, pc, gone, artifact>>

\* shutdown(), server_close() and the join of the serve thread.
StopReturn ==
    /\ stage = "upstreams"
    /\ \A c \in Conns : Req(c) \notin toClose
    /\ stage' = "returned"
    /\ UNCHANGED <<stopping, snapshot, toClose, registered, handlerVars, gone,
                   artifact>>

-----------------------------------------------------------------------------
Open(c)  == \/ RegisterConnection(c) \/ SendRequest(c) \/ OpenFails(c)
            \/ OpenStopped(c) \/ GetResponse(c)
Relay(c) == \/ SendHead(c) \/ SendHeadFails(c) \/ ReadChunk(c) \/ WriteChunk(c)
            \/ WriteChunkFails(c) \/ ReadEof(c) \/ ReadFails(c)
            \/ Terminate(c)
Buffer(c) == ReadBody(c) \/ SendBody(c) \/ BodyFails(c)
Handle(c) == \/ Open(c) \/ RegisterUpstream(c) \/ Relay(c) \/ Buffer(c)
             \/ UnregisterUpstream(c) \/ CloseUpstream(c)
             \/ SendProxyError(c) \/ AppendEvent(c)
Client(c) == Accept(c) \/ ClientLeaves(c) \/ EndConnection(c) \/ Request(c)
Stop == \/ StopBegin \/ StopSnapshot \/ StopUpstreams \/ StopReturn
        \/ \E c \in Conns : StopCloseConnection(c) \/ StopCloseUpstream(c)

Next == Start \/ Stop \/ \E c \in Conns : Client(c) \/ Handle(c)

Spec == Init /\ [][Next]_vars

\* A thread goes on when it can without its peers.  To open a response, and each
\* read, take at most their timeouts; that an upstream does not stream for ever is
\* assumed (strong fairness: the relay alternates reads and writes).  A write has
\* no timeout: it ends for certain only when the client has left.  Once stop() has
\* begun it goes on too; that it is called is not assumed.
UpstreamGoes(c) == \/ GetResponse(c) \/ ReadChunk(c)
                   \/ (ReadEof(c) /\ h[c].up = "open")
\* The handler is in a write that only the client can let end.
AtClient(c) == /\ pc[c] \in {"head", "write", "answer", "terminate", "fail"}
               /\ ~gone[c]
Goes(c) == Handle(c) /\ ~UpstreamGoes(c) /\ ~AtClient(c)
BodyEnds(c) == ReadFails(c) \/ (ReadEof(c) /\ h[c].up = "closed")
StopStep == Stop /\ stage # "up"
Fairness == /\ \A c \in Conns : WF_vars(Goes(c)) /\ SF_vars(BodyEnds(c))
            /\ WF_vars(StopStep)
FairSpec == Spec /\ Fairness
-----------------------------------------------------------------------------
(* What the proxy promises. *)

Recorded(r) == \E i \in DOMAIN artifact : artifact[i].req = r

\* The handler of request k of connection c is done with it.
Done(c, k) == k < h[c].n \/ pc[c] \notin Handling

\* Type correctness of the proxy's state and of every handler's locals.
TypeOK ==
    /\ stage \in Stages
    /\ stopping \in BOOLEAN
    /\ activeConnections \subseteq Requests
    /\ activeUpstreams \subseteq Requests
    /\ snapshot \subseteq Requests
    /\ toClose \subseteq Requests
    /\ pc \in [Conns -> PCs]
    /\ h \in [Conns -> Locals]
    /\ \A c \in Conns : pc[c] \in Handling => h[c].n > 0
    /\ gone \in [Conns -> BOOLEAN]
    /\ artifact \in Seq(Events)

\* No request is recorded twice in the artifact, whatever stop(), the client
\* and the upstream do meanwhile, and none before its handler is done with it.
RecordedAtMostOnce ==
    /\ \A i, j \in DOMAIN artifact :
           artifact[i].req = artifact[j].req => i = j
    /\ \A i \in DOMAIN artifact :
           LET r == artifact[i].req IN r[2] <= h[r[1]].n /\ Done(r[1], r[2])

\* A request the handler is done with has its event, with one exception: the
\* last request of a connection, when the option capture_stream_timing is on
\* and no upstream response was ever opened for it.
LostOnlyByTiming ==
    \A c \in Conns : \A k \in 1 .. h[c].n :
        Done(c, k) => \/ Recorded(<<c, k>>)
                      \/ k = h[c].n /\ CaptureStreamTiming /\ ~h[c].bound

\* Every request the handler is done with has its event: no failure of the
\* proxy, and no stop(), leaves a request out of the record.
EveryRequestRecorded ==
    \A c \in Conns : \A k \in 1 .. h[c].n : Done(c, k) => Recorded(<<c, k>>)

\* The status an event is about to record is the one the client was answered,
\* unless nothing could be answered (it left, or the proxy was stopped) or
\* stop() raced the handler in closing the response.
EventAgreesWithAnswer ==
    \A c \in Conns :
        pc[c] = "append" =>
            /\ h[c].got = "none" => gone[c] \/ h[c].error = "stopped"
            /\ h[c].heads > 0 => \/ h[c].got = h[c].status
                                 \/ stopping /\ h[c].error = "upstream"

\* While the proxy is not being stopped a request gets at most one response:
\* the 502 of `except Exception` never follows a response already begun.
OneAnswer == \A c \in Conns : h[c].heads > 1 => stopping

\* A client that stays, and was sent the head of a response, is also sent its
\* end before the event is written, also when the upstream failed midway or the
\* proxy is stopped: it is never left waiting inside a response.
WellFramed ==
    \A c \in Conns :
        pc[c] = "append" /\ h[c].heads > 0 /\ ~gone[c] => h[c].ended

\* An event that reports no error is about a response the upstream completed,
\* unless the framing of that response leaves an early end untold: every broken
\* read, silence and timeout that Python reports reaches the event.  Once stop()
\* has begun this is not so: a response it closed reads as ended.
CleanMeansComplete ==
    \A c \in Conns :
        /\ pc[c] = "append" /\ ~stopping
        /\ h[c].error = "none" /\ h[c].disc = "none" /\ ~h[c].upErr
        => h[c].whole \/ (h[c].bound /\ ~h[c].told)

\* Every path through a handler, the failing ones too, takes back what it
\* registered: the two sets hold exactly what is being opened and relayed.
NoLeakedRegistration ==
    /\ activeConnections =
           {r \in Requests : r = Req(r[1]) /\ pc[r[1]] \in {"send", "wait"}}
    /\ activeUpstreams =
           {r \in Requests : r = Req(r[1]) /\ pc[r[1]] \in Relaying}

\* When stop() returns, a relay that still has its upstream open is one that
\* was not registered when stop() copied the set: it opened its response
\* between the two critical sections of the handler, or later.
OnlyUnseenRelaysOutliveStop ==
    stage = "returned" =>
        \A c \in Conns :
            pc[c] \in HasUpstream /\ h[c].up = "open" => Req(c) \notin snapshot

\* stop() returns: no handler keeps it waiting for ever for a reader's lock.
StopReturns == stopping ~> stage = "returned"

\* Every handler comes to the end of its request, before and after stop(), unless
\* from some time on it is in one write to a client that stays and does not read.
HandlersFinish ==
    \A c \in Conns :
        <>[]AtClient(c) \/ (pc[c] \in Handling ~> pc[c] \notin Handling)

\* The artifact is a log of the requests received: each is logged at most once,
\* after it was received, and logged in the end if its client does not stall the
\* handler (RequestLog with its fairness).
Log == INSTANCE RequestLog WITH
           received <- {r \in Requests : r[2] <= h[r[1]].n},
           logged <- [i \in DOMAIN artifact |-> artifact[i].req],
           stalled <- {Req(c) : c \in {d \in Conns : AtClient(d)}}
LogSpec == Log!FairSpec
=============================================================================
