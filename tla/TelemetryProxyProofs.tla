------------------------ MODULE TelemetryProxyProofs ------------------------
(* Proofs about TelemetryProxy, for any set of connections and any bounds, in
   three parts.

   Types, and what stop() sees of the handlers: the two sets of active connections
   and upstreams are exact at every moment, and so the copy that stop() takes
   covers every relay that is registered by then.

   What a client is told, and what the event of its request says of it: the locals
   of a handler, step by step.  The argument is local to one handler.  The only
   facts about the others are that the client of a connection never comes back
   (gone), that stopping is never reset once a connection exists, and that stop()
   touches nothing of a handler but the upstream response it has open.

   The artifact as a log of requests: no request is logged twice or too early, only
   the option capture_stream_timing loses one, and the proxy implements RequestLog. *)
EXTENDS TelemetryProxy, TLAPS

\* The request a handler is at is one the bound allows.
LEMMA ReqIsRequest ==
    ASSUME TypeOK, NEW c \in Conns, pc[c] \in Handling
    PROVE  Req(c) \in Requests
BY ConstantsAssumption DEF TypeOK, Req, Requests, Locals

\* The locals a request starts with are well formed.
LEMMA FreshIsLocals ==
    ASSUME NEW n \in 0 .. MaxRequests
    PROVE  Fresh(n) \in Locals /\ Fresh(n).n = n
BY DEF Fresh, Locals

\* The event of a request that was received is well formed.
LEMMA EventIsEvent ==
    ASSUME TypeOK, NEW c \in Conns, pc[c] \in Handling
    PROVE  Event(c) \in Events
<1>1. h[c] \in Locals
  BY DEF TypeOK
<1> QED
  BY <1>1, ReqIsRequest DEF Event, Events, Locals

\* The part of TypeOK that every handler step has to keep.
HandlersOK ==
    /\ pc \in [Conns -> PCs]
    /\ h \in [Conns -> Locals]
    /\ \A c \in Conns : pc[c] \in Handling => h[c].n > 0

\* A step that writes the locals of one handler, and keeps the number of its
\* request, keeps HandlersOK.
LEMMA HandlerStep ==
    ASSUME HandlersOK, NEW c \in Conns, pc[c] \in Handling,
           h' = [h EXCEPT ![c] = h'[c]], h'[c] \in Locals, h'[c].n = h[c].n,
           pc' = [pc EXCEPT ![c] = pc'[c]], pc'[c] \in PCs
    PROVE  HandlersOK'
BY DEF HandlersOK

\* No step of a handler thread breaks the type invariant.
LEMMA TypeHandle ==
    ASSUME TypeOK, NEW c \in Conns, Handle(c)
    PROVE  TypeOK'
<1> USE DEF handlerVars, registered, stopVars
<1>0. /\ h[c] \in Locals /\ h \in [Conns -> Locals] /\ pc \in [Conns -> PCs]
      /\ HandlersOK
  BY DEF TypeOK, HandlersOK
<1>1. CASE RegisterConnection(c)
  <2>1. h' = [h EXCEPT ![c] = h'[c]] /\ h'[c] \in Locals /\ h'[c].n = h[c].n
    BY <1>0, <1>1 DEF RegisterConnection, Locals
  <2>2. pc[c] \in Handling /\ pc' = [pc EXCEPT ![c] = pc'[c]] /\ pc'[c] \in PCs
    BY <1>0, <1>1 DEF RegisterConnection, Goto, PCs, Handling
  <2> QED
    BY <1>0, <1>1, <2>1, <2>2, HandlerStep, ReqIsRequest DEF RegisterConnection, TypeOK, HandlersOK
<1>2. CASE SendRequest(c)
  <2>1. h' = [h EXCEPT ![c] = h'[c]] /\ h'[c] \in Locals /\ h'[c].n = h[c].n
    BY <1>0, <1>2 DEF SendRequest, Locals
  <2>2. pc[c] \in Handling /\ pc' = [pc EXCEPT ![c] = pc'[c]] /\ pc'[c] \in PCs
    BY <1>0, <1>2 DEF SendRequest, Goto, PCs, Handling
  <2> QED
    BY <1>0, <1>2, <2>1, <2>2, HandlerStep DEF SendRequest, TypeOK, HandlersOK
<1>3. CASE OpenFails(c)
  <2>1. h' = [h EXCEPT ![c] = h'[c]] /\ h'[c] \in Locals /\ h'[c].n = h[c].n
    BY <1>0, <1>3 DEF OpenFails, Locals
  <2>2. pc[c] \in Handling /\ pc' = [pc EXCEPT ![c] = pc'[c]] /\ pc'[c] \in PCs
    BY <1>0, <1>3 DEF OpenFails, Goto, PCs, Handling
  <2> QED
    BY <1>0, <1>3, <2>1, <2>2, HandlerStep DEF OpenFails, TypeOK, HandlersOK
<1>4. CASE OpenStopped(c)
  <2>1. h' = [h EXCEPT ![c] = h'[c]] /\ h'[c] \in Locals /\ h'[c].n = h[c].n
    BY <1>0, <1>4 DEF OpenStopped, Locals
  <2>2. pc[c] \in Handling /\ pc' = [pc EXCEPT ![c] = pc'[c]] /\ pc'[c] \in PCs
    BY <1>0, <1>4 DEF OpenStopped, Goto, PCs, Handling
  <2> QED
    BY <1>0, <1>4, <2>1, <2>2, HandlerStep DEF OpenStopped, TypeOK, HandlersOK
<1>5. CASE GetResponse(c)
  <2>1. h' = [h EXCEPT ![c] = h'[c]] /\ h'[c] \in Locals /\ h'[c].n = h[c].n
    BY <1>0, <1>5 DEF GetResponse, Locals
  <2>2. pc[c] \in Handling /\ pc' = [pc EXCEPT ![c] = pc'[c]] /\ pc'[c] \in PCs
    BY <1>0, <1>5 DEF GetResponse, Goto, PCs, Handling
  <2> QED
    BY <1>0, <1>5, <2>1, <2>2, HandlerStep DEF GetResponse, TypeOK, HandlersOK
<1>6. CASE RegisterUpstream(c)
  <2>1. h' = [h EXCEPT ![c] = h'[c]] /\ h'[c] \in Locals /\ h'[c].n = h[c].n
    <3>1. PICK told \in BOOLEAN :
              h' = [h EXCEPT ![c].bound = TRUE, ![c].status = "upstream",
                             ![c].told = told]
      BY <1>6 DEF RegisterUpstream
    <3>. QED
      BY <1>0, <3>1, ZenonT(60) DEF Locals
  <2>2. pc[c] \in Handling /\ pc' = [pc EXCEPT ![c] = pc'[c]] /\ pc'[c] \in PCs
    BY <1>0, <1>6 DEF RegisterUpstream, Goto, PCs, Handling
  <2> QED
    BY <1>0, <1>6, <2>1, <2>2, HandlerStep, ReqIsRequest DEF RegisterUpstream, TypeOK, HandlersOK
<1>7. CASE SendHead(c)
  <2>1. h' = [h EXCEPT ![c] = h'[c]] /\ h'[c] \in Locals /\ h'[c].n = h[c].n
    BY <1>0, <1>7 DEF SendHead, Locals
  <2>2. pc[c] \in Handling /\ pc' = [pc EXCEPT ![c] = pc'[c]] /\ pc'[c] \in PCs
    BY <1>0, <1>7 DEF SendHead, Goto, PCs, Handling
  <2> QED
    BY <1>0, <1>7, <2>1, <2>2, HandlerStep DEF SendHead, TypeOK, HandlersOK
<1>8. CASE SendHeadFails(c)
  <2>1. h' = [h EXCEPT ![c] = h'[c]] /\ h'[c] \in Locals /\ h'[c].n = h[c].n
    BY <1>0, <1>8 DEF SendHeadFails, Locals
  <2>2. pc[c] \in Handling /\ pc' = [pc EXCEPT ![c] = pc'[c]] /\ pc'[c] \in PCs
    BY <1>0, <1>8 DEF SendHeadFails, Goto, PCs, Handling
  <2> QED
    BY <1>0, <1>8, <2>1, <2>2, HandlerStep DEF SendHeadFails, TypeOK, HandlersOK
<1>9. CASE ReadChunk(c)
  <2>1. h' = [h EXCEPT ![c] = h'[c]] /\ h'[c] \in Locals /\ h'[c].n = h[c].n
    BY <1>0, <1>9 DEF ReadChunk, Locals
  <2>2. pc[c] \in Handling /\ pc' = [pc EXCEPT ![c] = pc'[c]] /\ pc'[c] \in PCs
    BY <1>0, <1>9 DEF ReadChunk, Goto, PCs, Handling
  <2> QED
    BY <1>0, <1>9, <2>1, <2>2, HandlerStep DEF ReadChunk, TypeOK, HandlersOK
<1>10. CASE WriteChunk(c)
  <2>1. h' = [h EXCEPT ![c] = h'[c]] /\ h'[c] \in Locals /\ h'[c].n = h[c].n
    BY <1>0, <1>10 DEF WriteChunk, Locals
  <2>2. pc[c] \in Handling /\ pc' = [pc EXCEPT ![c] = pc'[c]] /\ pc'[c] \in PCs
    BY <1>0, <1>10 DEF WriteChunk, Goto, PCs, Handling
  <2> QED
    BY <1>0, <1>10, <2>1, <2>2, HandlerStep DEF WriteChunk, TypeOK, HandlersOK
<1>11. CASE WriteChunkFails(c)
  <2>1. h' = [h EXCEPT ![c] = h'[c]] /\ h'[c] \in Locals /\ h'[c].n = h[c].n
    BY <1>0, <1>11 DEF WriteChunkFails, Locals
  <2>2. pc[c] \in Handling /\ pc' = [pc EXCEPT ![c] = pc'[c]] /\ pc'[c] \in PCs
    BY <1>0, <1>11 DEF WriteChunkFails, Goto, PCs, Handling
  <2> QED
    BY <1>0, <1>11, <2>1, <2>2, HandlerStep DEF WriteChunkFails, TypeOK, HandlersOK
<1>12. CASE ReadEof(c)
  <2>1. h' = [h EXCEPT ![c] = h'[c]] /\ h'[c] \in Locals /\ h'[c].n = h[c].n
    BY <1>0, <1>12 DEF ReadEof, EndsWhole, Locals
  <2>2. pc[c] \in Handling /\ pc' = [pc EXCEPT ![c] = pc'[c]] /\ pc'[c] \in PCs
    BY <1>0, <1>12 DEF ReadEof, Goto, PCs, Handling
  <2> QED
    BY <1>0, <1>12, <2>1, <2>2, HandlerStep DEF ReadEof, TypeOK, HandlersOK
<1>13. CASE ReadFails(c)
  <2>1. h' = [h EXCEPT ![c] = h'[c]] /\ h'[c] \in Locals /\ h'[c].n = h[c].n
    <3>1. CASE h' = [h EXCEPT ![c].upErr = TRUE]
      BY <1>0, <3>1, FreshIsLocals DEF Locals
    <3>2. CASE h' = [h EXCEPT ![c].disc = "stopped"]
      BY <1>0, <3>2, FreshIsLocals DEF Locals
    <3> QED
      BY <1>0, <1>13, <3>1, <3>2 DEF ReadFails
  <2>2. pc[c] \in Handling /\ pc' = [pc EXCEPT ![c] = pc'[c]] /\ pc'[c] \in PCs
    BY <1>0, <1>13 DEF ReadFails, Goto, PCs, Handling
  <2> QED
    BY <1>0, <1>13, <2>1, <2>2, HandlerStep DEF ReadFails, TypeOK, HandlersOK
<1>14. CASE Terminate(c)
  <2>1. h' = [h EXCEPT ![c] = h'[c]] /\ h'[c] \in Locals /\ h'[c].n = h[c].n
    <3>1. CASE h' = [h EXCEPT ![c].ended = TRUE]
      BY <1>0, <3>1, FreshIsLocals DEF Locals
    <3>2. CASE UNCHANGED h
      BY <1>0, <3>2, FreshIsLocals DEF Locals
    <3> QED
      BY <1>0, <1>14, <3>1, <3>2 DEF Terminate
  <2>2. pc[c] \in Handling /\ pc' = [pc EXCEPT ![c] = pc'[c]] /\ pc'[c] \in PCs
    BY <1>0, <1>14 DEF Terminate, Goto, PCs, Handling
  <2> QED
    BY <1>0, <1>14, <2>1, <2>2, HandlerStep DEF Terminate, TypeOK, HandlersOK
<1>15. CASE ReadBody(c)
  <2>1. h' = [h EXCEPT ![c] = h'[c]] /\ h'[c] \in Locals /\ h'[c].n = h[c].n
    BY <1>0, <1>15 DEF ReadBody, EndsWhole, Locals
  <2>2. pc[c] \in Handling /\ pc' = [pc EXCEPT ![c] = pc'[c]] /\ pc'[c] \in PCs
    BY <1>0, <1>15 DEF ReadBody, Goto, PCs, Handling
  <2> QED
    BY <1>0, <1>15, <2>1, <2>2, HandlerStep DEF ReadBody, TypeOK, HandlersOK
<1>16. CASE BodyFails(c)
  <2>1. h' = [h EXCEPT ![c] = h'[c]] /\ h'[c] \in Locals /\ h'[c].n = h[c].n
    BY <1>0, <1>16 DEF BodyFails, Locals
  <2>2. pc[c] \in Handling /\ pc' = [pc EXCEPT ![c] = pc'[c]] /\ pc'[c] \in PCs
    BY <1>0, <1>16 DEF BodyFails, Goto, PCs, Handling
  <2> QED
    BY <1>0, <1>16, <2>1, <2>2, HandlerStep DEF BodyFails, TypeOK, HandlersOK
<1>17. CASE UnregisterUpstream(c)
  <2>1. h' = [h EXCEPT ![c] = h'[c]] /\ h'[c] \in Locals /\ h'[c].n = h[c].n
    BY <1>0, <1>17 DEF UnregisterUpstream, Locals
  <2>2. pc[c] \in Handling /\ pc' = [pc EXCEPT ![c] = pc'[c]] /\ pc'[c] \in PCs
    BY <1>0, <1>17 DEF UnregisterUpstream, Goto, PCs, Handling
  <2> QED
    BY <1>0, <1>17, <2>1, <2>2, HandlerStep DEF UnregisterUpstream, TypeOK, HandlersOK
<1>18. CASE CloseUpstream(c)
  <2>1. h' = [h EXCEPT ![c] = h'[c]] /\ h'[c] \in Locals /\ h'[c].n = h[c].n
    BY <1>0, <1>18 DEF CloseUpstream, Locals
  <2>2. pc[c] \in Handling /\ pc' = [pc EXCEPT ![c] = pc'[c]] /\ pc'[c] \in PCs
    BY <1>0, <1>18 DEF CloseUpstream, Goto, PCs, Handling
  <2> QED
    BY <1>0, <1>18, <2>1, <2>2, HandlerStep DEF CloseUpstream, TypeOK, HandlersOK
<1>19. CASE SendProxyError(c)
  <2>1. h' = [h EXCEPT ![c] = h'[c]] /\ h'[c] \in Locals /\ h'[c].n = h[c].n
    BY <1>0, <1>19 DEF SendProxyError, Locals
  <2>2. pc[c] \in Handling /\ pc' = [pc EXCEPT ![c] = pc'[c]] /\ pc'[c] \in PCs
    BY <1>0, <1>19 DEF SendProxyError, Goto, PCs, Handling
  <2> QED
    BY <1>0, <1>19, <2>1, <2>2, HandlerStep DEF SendProxyError, TypeOK, HandlersOK
<1>20. CASE AppendEvent(c)
  <2>1. h' = [h EXCEPT ![c] = h'[c]] /\ h'[c] \in Locals /\ h'[c].n = h[c].n
    <3>1. CASE h' = [h EXCEPT ![c] = Fresh(h[c].n)]
      BY <1>0, <3>1, FreshIsLocals DEF Locals
    <3>2. CASE UNCHANGED h
      BY <1>0, <3>2, FreshIsLocals DEF Locals
    <3> QED
      BY <1>0, <1>20, <3>1, <3>2 DEF AppendEvent
  <2>2. pc[c] \in Handling /\ pc' = [pc EXCEPT ![c] = pc'[c]] /\ pc'[c] \in PCs
    BY <1>0, <1>20 DEF AppendEvent, Goto, PCs, Handling
  <2>3. artifact' \in Seq(Events)
    BY <1>20, <2>2, EventIsEvent, SMTT(40) DEF AppendEvent, TypeOK
  <2> QED
    BY <1>0, <1>20, <2>1, <2>2, <2>3, HandlerStep DEF AppendEvent, TypeOK, HandlersOK
<1>21. CASE SendBody(c)
  <2>1. h' = [h EXCEPT ![c] = h'[c]] /\ h'[c] \in Locals /\ h'[c].n = h[c].n
    <3>1. CASE h' = [h EXCEPT ![c].heads = 1, ![c].got = "upstream",
                               ![c].ended = TRUE]
      BY <1>0, <3>1, FreshIsLocals DEF Locals
    <3>2. CASE UNCHANGED h
      BY <1>0, <3>2, FreshIsLocals DEF Locals
    <3> QED
      BY <1>0, <1>21, <3>1, <3>2 DEF SendBody
  <2>2. pc[c] \in Handling /\ pc' = [pc EXCEPT ![c] = pc'[c]] /\ pc'[c] \in PCs
    BY <1>0, <1>21 DEF SendBody, Goto, PCs, Handling
  <2> QED
    BY <1>0, <1>21, <2>1, <2>2, HandlerStep DEF SendBody, TypeOK, HandlersOK
<1> QED
  BY <1>1, <1>2, <1>3, <1>4, <1>5, <1>6, <1>7, <1>8, <1>9, <1>10, <1>11, <1>12, <1>13, <1>14, <1>15, <1>16, <1>17, <1>18, <1>19, <1>20, <1>21
  DEF Handle, Open, Relay, Buffer

\* No step of a client breaks the type invariant.
LEMMA TypeClient ==
    ASSUME TypeOK, NEW c \in Conns, Client(c)
    PROVE  TypeOK'
<1> USE DEF TypeOK, PCs, Handling, Goto, handlerVars, registered, stopVars
<1>1. CASE Accept(c)
  BY <1>1 DEF Accept
<1>2. CASE ClientLeaves(c)
  BY <1>2 DEF ClientLeaves
<1>3. CASE EndConnection(c)
  BY <1>3 DEF EndConnection
<1>4. CASE Request(c)
  <2>1. h[c].n \in 0 .. MaxRequests /\ h[c].n + 1 \in 1 .. MaxRequests
    BY <1>4, ConstantsAssumption DEF Request, Locals
  <2>2. h'[c] = Fresh(h[c].n + 1) /\ h'[c] \in Locals /\ h'[c].n > 0
    BY <1>4, <2>1, FreshIsLocals DEF Request
  <2> QED
    BY <1>4, <2>2 DEF Request
<1> QED
  BY <1>1, <1>2, <1>3, <1>4 DEF Client

\* No step of stop() breaks the type invariant.
LEMMA TypeStop ==
    ASSUME TypeOK, Stop
    PROVE  TypeOK'
<1> USE DEF TypeOK, Stages, handlerVars, registered, stopVars
<1>1. CASE StopBegin
  BY <1>1 DEF StopBegin
<1>2. CASE StopSnapshot
  BY <1>2 DEF StopSnapshot
<1>3. CASE StopUpstreams
  BY <1>3 DEF StopUpstreams
<1>4. CASE StopReturn
  BY <1>4 DEF StopReturn
<1>5. ASSUME NEW c \in Conns, CloseResponse(c), pc' = pc
      PROVE  h' \in [Conns -> Locals] /\ \A d \in Conns : h'[d].n = h[d].n
  <2>1. CASE h' = [h EXCEPT ![c].up = "closed"]
    <3>1. h[c] \in Locals
      OBVIOUS
    <3>2. h'[c] \in Locals /\ h'[c].n = h[c].n
      BY <2>1, <3>1 DEF Locals
    <3> QED
      BY <2>1, <3>2
  <2>2. CASE UNCHANGED h
    BY <2>2
  <2> QED
    BY <1>5, <2>1, <2>2 DEF CloseResponse
<1>6. ASSUME NEW c \in Conns, StopCloseConnection(c)
      PROVE  TypeOK'
  BY <1>5, <1>6 DEF StopCloseConnection
<1>7. ASSUME NEW c \in Conns, StopCloseUpstream(c)
      PROVE  TypeOK'
  BY <1>5, <1>7 DEF StopCloseUpstream
<1> QED
  BY <1>1, <1>2, <1>3, <1>4, <1>6, <1>7 DEF Stop

\* Type correctness of the proxy: the sets hold requests, every event in the
\* artifact is well formed and names a request that was received.
THEOREM TypeCorrect == Spec => []TypeOK
<1>0. << >> \in Seq(Events)
  OBVIOUS
<1>1. Init => TypeOK
  <2> SUFFICES ASSUME Init PROVE TypeOK
    OBVIOUS
  <2>1. Fresh(0) \in Locals
    BY ConstantsAssumption, FreshIsLocals
  <2>2. h \in [Conns -> Locals] /\ pc \in [Conns -> PCs] /\ gone \in [Conns -> BOOLEAN]
    BY <2>1 DEF Init, PCs
  <2>3. \A c \in Conns : pc[c] \notin Handling
    BY DEF Init, Handling
  <2> QED
    BY <1>0, <2>2, <2>3 DEF Init, TypeOK, Stages
<1>2. TypeOK /\ [Next]_vars => TypeOK'
  <2> SUFFICES ASSUME TypeOK, [Next]_vars PROVE TypeOK'
    OBVIOUS
  <2>1. CASE Start
    BY <1>0, <2>1 DEF Start, TypeOK, Stages, handlerVars, registered
  <2>2. CASE UNCHANGED vars
    BY <2>2 DEF vars, TypeOK, handlerVars, registered, stopVars
  <2> QED
    BY <2>1, <2>2, TypeHandle, TypeClient, TypeStop DEF Next
<1> QED
  BY <1>1, <1>2, PTL DEF Spec

-----------------------------------------------------------------------------
(* The two sets, by connection *)

\* What the two sets say of one connection.
Reg(d) == \A k \in 1 .. MaxRequests :
    /\ <<d, k>> \in activeConnections
           <=> k = h[d].n /\ pc[d] \in {"send", "wait"}
    /\ <<d, k>> \in activeUpstreams <=> k = h[d].n /\ pc[d] \in Relaying

\* Both ways to say that nothing is leaked are the same.
LEMMA RegIsExact ==
    ASSUME TypeOK
    PROVE  NoLeakedRegistration <=> \A d \in Conns : Reg(d)
  BY DEF TypeOK, NoLeakedRegistration, Reg, Req, Requests

\* What does not touch a connection keeps what the sets say of it.
LEMMA RegFrame ==
    ASSUME NEW d, Reg(d), h'[d].n = h[d].n, pc'[d] = pc[d],
           \A k : <<d, k>> \in activeConnections' <=> <<d, k>> \in activeConnections,
           \A k : <<d, k>> \in activeUpstreams' <=> <<d, k>> \in activeUpstreams
    PROVE  Reg(d)'
  BY DEF Reg

\* A handler keeps the number of its request, and touches the entries of its own
\* request only.
LEMMA HandleIsOwn ==
    ASSUME TypeOK, NEW c \in Conns, Handle(c)
    PROVE  /\ \A d \in Conns : h'[d].n = h[d].n
           /\ \A d \in Conns \ {c} : h'[d] = h[d] /\ pc'[d] = pc[d]
           /\ activeConnections' \in {activeConnections,
                  activeConnections \cup {Req(c)}, activeConnections \ {Req(c)}}
           /\ activeUpstreams' \in {activeUpstreams,
                  activeUpstreams \cup {Req(c)}, activeUpstreams \ {Req(c)}}
           /\ UNCHANGED <<stopVars, gone>>
<1> USE DEF Goto, handlerVars, registered, stopVars
<1>0. h \in [Conns -> Locals] /\ pc \in [Conns -> PCs]
  BY DEF TypeOK
<1>1. CASE Open(c)
  BY <1>0, <1>1 DEF Open, RegisterConnection, SendRequest, OpenFails, OpenStopped,
     GetResponse, Locals
<1>2. CASE RegisterUpstream(c)
  BY <1>0, <1>2 DEF RegisterUpstream, Locals
<1>3. CASE Relay(c)
  BY <1>0, <1>3 DEF Relay, SendHead, SendHeadFails, ReadChunk, WriteChunk,
     WriteChunkFails, ReadEof, ReadFails, Terminate, Locals
<1>4. CASE Buffer(c)
  BY <1>0, <1>4 DEF Buffer, ReadBody, SendBody, BodyFails, Locals
<1>5. CASE UnregisterUpstream(c) \/ CloseUpstream(c) \/ SendProxyError(c)
  BY <1>0, <1>5 DEF UnregisterUpstream, CloseUpstream, SendProxyError, Locals
<1>6. CASE AppendEvent(c)
  BY <1>0, <1>6 DEF AppendEvent, Fresh
<1>. QED
  BY <1>1, <1>2, <1>3, <1>4, <1>5, <1>6 DEF Handle

\* Registration follows the steps of the handler.
LEMMA RegHandle ==
    ASSUME TypeOK, NEW c \in Conns, Reg(c), Handle(c)
    PROVE  Reg(c)'
<1> USE DEF Goto, Relaying, registered, Reg, Req
<1>0. h[c].n \in Nat /\ h'[c].n = h[c].n /\ pc \in [Conns -> PCs]
  BY HandleIsOwn DEF TypeOK, Locals
<1>1. CASE RegisterConnection(c)
  BY <1>0, <1>1 DEF RegisterConnection
<1>2. CASE SendRequest(c)
  BY <1>0, <1>2 DEF SendRequest
<1>3. CASE OpenFails(c) \/ OpenStopped(c) \/ GetResponse(c)
  BY <1>0, <1>3 DEF OpenFails, OpenStopped, GetResponse
<1>4. CASE RegisterUpstream(c)
  BY <1>0, <1>4 DEF RegisterUpstream
<1>5. CASE SendHead(c) \/ SendHeadFails(c) \/ ReadChunk(c) \/ WriteChunk(c)
  BY <1>0, <1>5 DEF SendHead, SendHeadFails, ReadChunk, WriteChunk
<1>6. CASE WriteChunkFails(c) \/ ReadEof(c) \/ ReadFails(c) \/ Terminate(c)
  BY <1>0, <1>6 DEF WriteChunkFails, ReadEof, ReadFails, Terminate
<1>7. CASE Buffer(c)
  BY <1>0, <1>7 DEF Buffer, ReadBody, SendBody, BodyFails
<1>8. CASE UnregisterUpstream(c)
  BY <1>0, <1>8 DEF UnregisterUpstream
<1>9. CASE CloseUpstream(c) \/ SendProxyError(c) \/ AppendEvent(c)
  BY <1>0, <1>9 DEF CloseUpstream, SendProxyError, AppendEvent
<1>. QED
  BY <1>1, <1>2, <1>3, <1>4, <1>5, <1>6, <1>7, <1>8, <1>9 DEF Handle, Open, Relay

\* A new request of a connection starts with nothing registered.
LEMMA RegClient ==
    ASSUME TypeOK, NEW c \in Conns, NEW d \in Conns, Reg(d), Client(c)
    PROVE  Reg(d)'
<1> USE DEF Goto, stopVars, registered, handlerVars
<1>1. CASE Accept(c) \/ EndConnection(c) \/ ClientLeaves(c)
  BY <1>1 DEF Accept, EndConnection, ClientLeaves, Reg, Relaying, TypeOK
<1>2. CASE Request(c)
  BY <1>2 DEF Request, Fresh, Reg, Relaying, TypeOK
<1>. QED
  BY <1>1, <1>2 DEF Client

\* stop() only reads the sets, and no response it closes changes what they mean.
LEMMA StopIsOutside ==
    ASSUME TypeOK, Stop
    PROVE  /\ UNCHANGED <<registered, pc, gone, artifact>>
           /\ \A d \in Conns : /\ h'[d].n = h[d].n
                               /\ h'[d].up \in {h[d].up, "closed"}
  BY DEF TypeOK, Locals, Stop, StopBegin, StopSnapshot, StopUpstreams, StopReturn,
     StopCloseConnection, StopCloseUpstream, CloseResponse, handlerVars, registered

\* The sets stay exact.
LEMMA RegStep ==
    ASSUME TypeOK, \A d \in Conns : Reg(d), [Next]_vars
    PROVE  \A d \in Conns : Reg(d)'
<1> SUFFICES ASSUME NEW d \in Conns PROVE Reg(d)'
  OBVIOUS
<1>1. CASE Start
  BY <1>1, RegFrame DEF Start, handlerVars, registered
<1>2. CASE Stop
  BY <1>2, RegFrame, StopIsOutside DEF registered
<1>3. ASSUME NEW c \in Conns, Client(c) PROVE Reg(d)'
  BY <1>3, RegClient
<1>4. ASSUME NEW c \in Conns, Handle(c) PROVE Reg(d)'
  <2>1. CASE d = c
    BY <1>4, <2>1, RegHandle
  <2>2. CASE d # c
    <3>1. \A k : <<d, k>> # Req(c)
      BY <2>2 DEF Req
    <3>. QED
      BY <1>4, <2>2, <3>1, HandleIsOwn, RegFrame
  <2>. QED
    BY <2>1, <2>2
<1>5. CASE UNCHANGED vars
  BY <1>5, RegFrame DEF vars, handlerVars, registered
<1>. QED
  BY <1>1, <1>2, <1>3, <1>4, <1>5 DEF Next

\* Nothing that a handler registered stays behind, whatever path it takes.
THEOREM NothingLeaks == Spec => []NoLeakedRegistration
<1>1. Init => NoLeakedRegistration
  BY DEF Init, NoLeakedRegistration, Relaying, Requests
<1>2. TypeOK /\ TypeOK' /\ NoLeakedRegistration /\ [Next]_vars
          => NoLeakedRegistration'
  <2> SUFFICES ASSUME TypeOK, TypeOK', NoLeakedRegistration, [Next]_vars
               PROVE  NoLeakedRegistration'
    OBVIOUS
  <2>1. \A d \in Conns : Reg(d)'
    BY RegIsExact, RegStep
  <2>. QED
    BY <2>1 DEF TypeOK, NoLeakedRegistration, Reg, Req, Requests
<1>. QED
  BY <1>1, <1>2, TypeCorrect, PTL DEF Spec

-----------------------------------------------------------------------------
(* What outlives stop() *)

\* The requests stop() has copied are past the registration of their upstream
\* or over; and those it has still to close, or has closed, when they are not.
Seen(d) ==
    /\ stage \in {"connections", "upstreams", "returned"} =>
           \A k \in 1 .. MaxRequests : <<d, k>> \in snapshot =>
               \/ k < h[d].n
               \/ k = h[d].n /\ pc[d] \notin {"connect", "send", "wait"}
    /\ stage \in {"upstreams", "returned"} =>
           (pc[d] \in HasUpstream /\ h[d].up = "open" /\ Req(d) \in snapshot
                => stage = "upstreams" /\ Req(d) \in toClose)

\* What does not touch a connection, nor opens its upstream, keeps what stop()
\* has seen of it.
LEMMA SeenFrame ==
    ASSUME NEW d, Seen(d), UNCHANGED <<stage, snapshot, toClose>>,
           h'[d].n = h[d].n,
           pc'[d] \in {"connect", "send", "wait"}
               => pc[d] \in {"connect", "send", "wait"},
           pc'[d] \in HasUpstream /\ h'[d].up = "open"
               => pc[d] \in HasUpstream /\ h[d].up = "open"
    PROVE  Seen(d)'
  BY DEF Seen, Req

\* A handler opens its upstream before it is registered, so stop() has not
\* copied a request that gets its upstream now.
LEMMA SeenHandle ==
    ASSUME TypeOK, NEW c \in Conns, Seen(c), Handle(c)
    PROVE  Seen(c)'
<1> USE DEF Goto, HasUpstream, Relaying, stopVars
<1>0. /\ h \in [Conns -> Locals] /\ pc \in [Conns -> PCs]
      /\ h'[c].n = h[c].n /\ UNCHANGED <<stage, snapshot, toClose>>
  BY HandleIsOwn DEF TypeOK
<1>1. CASE GetResponse(c)
  <2>1. pc[c] = "wait" /\ pc'[c] = "register" /\ Req(c) \in Requests
    BY <1>0, <1>1, ReqIsRequest DEF GetResponse, Handling, PCs
  <2>2. stage \in {"connections", "upstreams", "returned"}
            => Req(c) \notin snapshot
    BY <1>0, <2>1 DEF Seen, Req, Requests, Locals
  <2>. QED
    BY <1>0, <2>1, <2>2 DEF Seen, Req
<1>2. CASE RegisterConnection(c) \/ SendRequest(c) \/ OpenFails(c)
           \/ OpenStopped(c)
  BY <1>0, <1>2, SeenFrame DEF RegisterConnection, SendRequest, OpenFails,
     OpenStopped
<1>3. CASE RegisterUpstream(c) \/ Buffer(c) \/ UnregisterUpstream(c)
  BY <1>0, <1>3, SeenFrame DEF RegisterUpstream, Buffer, ReadBody, SendBody,
     BodyFails, UnregisterUpstream, Locals
<1>4. CASE Relay(c)
  BY <1>0, <1>4, SeenFrame DEF Relay, SendHead, SendHeadFails, ReadChunk,
     WriteChunk, WriteChunkFails, ReadEof, ReadFails, Terminate, Locals
<1>5. CASE CloseUpstream(c) \/ SendProxyError(c) \/ AppendEvent(c)
  BY <1>0, <1>5, SeenFrame DEF CloseUpstream, SendProxyError, AppendEvent
<1>. QED
  BY <1>1, <1>2, <1>3, <1>4, <1>5 DEF Handle, Open

\* A new request is none that stop() has copied.
LEMMA SeenClient ==
    ASSUME TypeOK, NEW c \in Conns, NEW d \in Conns, Seen(d), Client(c)
    PROVE  Seen(d)'
<1> USE DEF Goto, HasUpstream, Relaying, stopVars, registered, handlerVars
<1>1. CASE Accept(c) \/ EndConnection(c) \/ ClientLeaves(c)
  BY <1>1, SeenFrame DEF Accept, EndConnection, ClientLeaves, TypeOK
<1>2. CASE Request(c) /\ d # c
  BY <1>2, SeenFrame DEF Request, TypeOK
<1>3. CASE Request(c) /\ d = c
  <2>1. /\ h[c].n \in Nat /\ h'[c].n = h[c].n + 1 /\ pc'[c] = "connect"
        /\ UNCHANGED stopVars
    BY <1>3 DEF Request, Fresh, TypeOK, Locals
  <2>. QED
    BY <1>3, <2>1 DEF Seen
<1>. QED
  BY <1>1, <1>2, <1>3 DEF Client

\* stop() copies what is registered, and closes all of it before it returns.
LEMMA SeenStop ==
    ASSUME TypeOK, NEW d \in Conns, Reg(d), Seen(d), Stop
    PROVE  Seen(d)'
<1> USE DEF HasUpstream, Relaying
<1>0. /\ pc' = pc /\ h'[d].n = h[d].n /\ h'[d].up \in {h[d].up, "closed"}
  BY StopIsOutside
<1>1. CASE StopBegin
  BY <1>0, <1>1 DEF StopBegin, Seen
<1>2. CASE StopSnapshot
  BY <1>0, <1>2 DEF StopSnapshot, Seen, Reg
<1>3. CASE StopUpstreams
  BY <1>0, <1>3 DEF StopUpstreams, Seen, Req
<1>4. CASE StopReturn
  BY <1>0, <1>4 DEF StopReturn, Seen, Req, handlerVars
<1>5. ASSUME NEW c \in Conns, StopCloseConnection(c) PROVE Seen(d)'
  BY <1>0, <1>5 DEF StopCloseConnection, Seen, Req
<1>6. ASSUME NEW c \in Conns, StopCloseUpstream(c) PROVE Seen(d)'
  <2>1. CASE d = c
    BY <1>0, <1>6, <2>1 DEF StopCloseUpstream, CloseResponse, Seen, Req, TypeOK,
       Locals
  <2>2. CASE d # c
    <3>1. Req(d)' = Req(d) /\ Req(d) # Req(c)
      BY <1>0, <2>2 DEF Req
    <3>2. Req(d) \in toClose => Req(d) \in toClose'
      BY <1>6, <3>1 DEF StopCloseUpstream
    <3>. QED
      BY <1>0, <1>6, <3>1, <3>2 DEF StopCloseUpstream, Seen
  <2>. QED
    BY <2>1, <2>2
<1>. QED
  BY <1>1, <1>2, <1>3, <1>4, <1>5, <1>6 DEF Stop

\* What stop() has seen stays so in every step.
LEMMA SeenStep ==
    ASSUME TypeOK, \A d \in Conns : Reg(d) /\ Seen(d), [Next]_vars
    PROVE  \A d \in Conns : Seen(d)'
<1> SUFFICES ASSUME NEW d \in Conns PROVE Seen(d)'
  OBVIOUS
<1>1. CASE Start
  BY <1>1 DEF Start, Seen, handlerVars
<1>2. CASE Stop
  BY <1>2, SeenStop
<1>3. ASSUME NEW c \in Conns, Client(c) PROVE Seen(d)'
  BY <1>3, SeenClient
<1>4. ASSUME NEW c \in Conns, Handle(c) PROVE Seen(d)'
  <2>1. CASE d = c
    BY <1>4, <2>1, SeenHandle
  <2>2. CASE d # c
    BY <1>4, <2>2, HandleIsOwn, SeenFrame DEF stopVars
  <2>. QED
    BY <2>1, <2>2
<1>5. CASE UNCHANGED vars
  BY <1>5, SeenFrame DEF vars, stopVars, handlerVars
<1>. QED
  BY <1>1, <1>2, <1>3, <1>4, <1>5 DEF Next

\* The relays that outlive stop() are those it could not see.
THEOREM StopClosesWhatItSees == Spec => []OnlyUnseenRelaysOutliveStop
<1> DEFINE AllSeen == \A d \in Conns : Seen(d)
<1>1. Init => AllSeen
  BY DEF Init, Seen
<1>2. TypeOK /\ NoLeakedRegistration /\ AllSeen /\ [Next]_vars => AllSeen'
  BY RegIsExact, SeenStep
<1>3. AllSeen => OnlyUnseenRelaysOutliveStop
  BY DEF Seen, OnlyUnseenRelaysOutliveStop
<1>. QED
  BY <1>1, <1>2, <1>3, TypeCorrect, NothingLeaks, PTL DEF Spec

-----------------------------------------------------------------------------
(* What clients and events are told *)

\* Before start() has returned nothing has happened; stop() begins by setting
\* _stopping, and only then has something to close.
StopOrder ==
    /\ stage \in {"new", "failed"} => \A c \in Conns : pc[c] = "none"
    /\ stage = "new" => ~stopping
    /\ stage \in {"snapshot", "connections", "upstreams", "returned"}
           => stopping
    /\ toClose # {} => stopping

\* Nothing was sent to the client and no error has happened.
Untouched(c) ==
    /\ h[c].error = "none" /\ h[c].disc = "none" /\ ~h[c].upErr
    /\ h[c].heads = 0 /\ h[c].got = "none" /\ ~h[c].ended

\* The head was sent, and nothing has failed.
HeadSent(c) ==
    /\ h[c].error = "none" /\ h[c].heads = 1 /\ h[c].got = "upstream"
    /\ ~h[c].ended

\* The client has the whole of what it was begun to be sent, or left.
Ended(c) == h[c].heads > 0 /\ ~gone[c] => h[c].ended

\* A request without any error, while the proxy is up, had all of its body, or a
\* body whose framing does not tell.
CleanIsWhole(c) ==
    /\ ~stopping
    /\ h[c].error = "none" /\ h[c].disc = "none" /\ ~h[c].upErr
    => h[c].whole \/ (h[c].bound /\ ~h[c].told)

\* The answer is the one of the upstream, or none.
FromUpstream(c) ==
    \/ h[c].heads = 0 /\ h[c].got = "none"
    \/ h[c].heads = 1 /\ h[c].got = "upstream"

\* The locals of a handler at each of its steps.
Opening(c) == pc[c] \in {"connect", "send", "wait"} =>
    Untouched(c) /\ h[c].up = "none"
Opened(c) == pc[c] \in {"register", "head", "body", "answer"} => Untouched(c)
Bound(c) == pc[c] \in Relaying \cup {"close"} =>
    h[c].status = "upstream" /\ h[c].bound
Buffered(c) == pc[c] = "answer" => CleanIsWhole(c)
Streaming(c) == pc[c] \in {"read", "write"} =>
    HeadSent(c) /\ h[c].disc = "none" /\ ~h[c].upErr
Streamed(c) == pc[c] = "terminate" => HeadSent(c) /\ CleanIsWhole(c)
Relayed(c) == pc[c] \in {"unregister", "close"} =>
    /\ h[c].error # "stopped"
    /\ h[c].error = "upstream" => h[c].heads = 0
    /\ FromUpstream(c) /\ Ended(c) /\ CleanIsWhole(c)
    /\ h[c].got = "none" => gone[c] \/ h[c].error = "upstream"
Failing(c) == pc[c] = "fail" =>
    /\ h[c].error = "upstream"
    /\ FromUpstream(c) /\ Ended(c)
    /\ h[c].heads > 0 => stopping
Appending(c) == pc[c] = "append" =>
    /\ h[c].got = "none" => gone[c] \/ h[c].error = "stopped"
    /\ h[c].heads > 0 => \/ h[c].got = h[c].status
                         \/ stopping /\ h[c].error = "upstream"
    /\ Ended(c) /\ CleanIsWhole(c)

\* A response that was handed out is open until stop() closes it.
OpenUntilStop(c) ==
    pc[c] \in HasUpstream /\ ~stopping => h[c].up = "open"

Shape(c) ==
    /\ Opening(c) /\ Opened(c) /\ Bound(c) /\ Buffered(c) /\ Streaming(c) /\ Streamed(c)
    /\ Relayed(c) /\ Failing(c) /\ Appending(c) /\ OpenUntilStop(c)
    /\ h[c].heads > 1 => stopping

AnswerInv == TypeOK /\ StopOrder /\ \A c \in Conns : Shape(c)

-----------------------------------------------------------------------------
(* stop() *)

\* stop() and start() keep their order, and handlers cannot disturb it.
LEMMA StopOrderStep == StopOrder /\ [Next]_vars => StopOrder'
<1> SUFFICES ASSUME StopOrder, [Next]_vars PROVE StopOrder'
  OBVIOUS
<1>1. CASE Start
  BY <1>1 DEF Start, StopOrder, handlerVars
<1>2. CASE Stop
  BY <1>2 DEF Stop, StopBegin, StopSnapshot, StopUpstreams, StopReturn,
     StopCloseConnection, StopCloseUpstream, StopOrder, handlerVars
<1>3. ASSUME NEW c \in Conns, Client(c) PROVE StopOrder'
  BY <1>3 DEF Client, Accept, ClientLeaves, EndConnection, Request, Goto, StopOrder,
     stopVars, handlerVars
<1>4. ASSUME NEW c \in Conns, Handle(c) PROVE StopOrder'
  <2>1. pc[c] \in Handling /\ UNCHANGED stopVars
    BY <1>4 DEF Handle, Open, Relay, RegisterConnection, SendRequest, OpenFails,
     OpenStopped, GetResponse, RegisterUpstream, SendHead, SendHeadFails,
     ReadChunk, WriteChunk, WriteChunkFails, ReadEof, ReadFails, Terminate,
     Buffer, ReadBody, SendBody, BodyFails, UnregisterUpstream, CloseUpstream, SendProxyError,
     AppendEvent, Handling, PCs
  <2>2. stage \notin {"new", "failed"}
    BY <2>1 DEF StopOrder, Handling
  <2>. QED
    BY <2>1, <2>2 DEF StopOrder, stopVars
<1>5. CASE UNCHANGED vars
  BY <1>5 DEF vars, stopVars, handlerVars, StopOrder
<1>. QED
  BY <1>1, <1>2, <1>3, <1>4, <1>5 DEF Next

-----------------------------------------------------------------------------
(* One handler *)

\* What does not touch a handler keeps its shape.
LEMMA ShapeFrame ==
    ASSUME NEW d, Shape(d), h'[d] = h[d], pc'[d] = pc[d], gone'[d] = gone[d],
           stopping' = stopping
    PROVE  Shape(d)'
  BY DEF Shape, Opening, Opened, Bound, Buffered, Streaming, Streamed, Relayed, Failing,
     Appending, OpenUntilStop, Untouched, HeadSent, Ended, CleanIsWhole, FromUpstream,
     Relaying, HasUpstream

\* A handler writes its own locals only.
LEMMA OwnLocals ==
    ASSUME TypeOK, NEW c \in Conns, Handle(c)
    PROVE  /\ \A d \in Conns \ {c} : h'[d] = h[d] /\ pc'[d] = pc[d]
           /\ UNCHANGED <<stopVars, gone>>
  BY SMTT(40) DEF TypeOK, Handle, Open, Relay, RegisterConnection, SendRequest, OpenFails,
     OpenStopped, GetResponse, RegisterUpstream, SendHead, SendHeadFails,
     ReadChunk, WriteChunk, WriteChunkFails, ReadEof, ReadFails, Terminate,
     Buffer, ReadBody, SendBody, BodyFails, UnregisterUpstream, CloseUpstream, SendProxyError,
     AppendEvent, Goto, handlerVars, registered, stopVars

\* Each step of a handler leads to the locals that the next step expects.
LEMMA ShapeHandle ==
    ASSUME TypeOK, StopOrder, NEW c \in Conns, Shape(c), Handle(c)
    PROVE  Shape(c)'
<1> USE DEF Shape, Opening, Opened, Bound, Buffered, Streaming, Streamed, Relayed, Failing,
    Appending, OpenUntilStop, Untouched, HeadSent, Ended, CleanIsWhole,
    FromUpstream, Locals, Goto, Relaying, HasUpstream, stopVars, registered
<1>0. h[c] \in Locals /\ h \in [Conns -> Locals] /\ pc \in [Conns -> PCs]
  BY DEF TypeOK
<1>1. CASE RegisterConnection(c)
  BY <1>0, <1>1 DEF RegisterConnection
<1>2. CASE SendRequest(c)
  BY <1>0, <1>2 DEF SendRequest
<1>3. CASE OpenFails(c)
  BY <1>0, <1>3 DEF OpenFails
<1>4. CASE OpenStopped(c)
  BY <1>0, <1>4 DEF OpenStopped
<1>5. CASE GetResponse(c)
  BY <1>0, <1>5 DEF GetResponse
<1>6. CASE RegisterUpstream(c)
  BY <1>0, <1>6 DEF RegisterUpstream
<1>7. CASE SendHead(c)
  BY <1>0, <1>7 DEF SendHead
<1>8. CASE SendHeadFails(c)
  BY <1>0, <1>8 DEF SendHeadFails, WriteFails
<1>9. CASE ReadChunk(c)
  BY <1>0, <1>9 DEF ReadChunk
<1>10. CASE WriteChunk(c)
  BY <1>0, <1>10 DEF WriteChunk
<1>11. CASE WriteChunkFails(c)
  BY <1>0, <1>11 DEF WriteChunkFails, WriteFails
<1>12. CASE ReadEof(c)
  BY <1>0, <1>12 DEF ReadEof, EndsWhole
<1>13. CASE ReadFails(c)
  BY <1>0, <1>13 DEF ReadFails
<1>14. CASE Terminate(c)
  BY <1>0, <1>14 DEF Terminate, WriteFails
<1>15. CASE ReadBody(c)
  BY <1>0, <1>15 DEF ReadBody, EndsWhole
<1>21. CASE SendBody(c)
  BY <1>0, <1>21 DEF SendBody, WriteFails
<1>16. CASE BodyFails(c)
  BY <1>0, <1>16 DEF BodyFails
<1>17. CASE UnregisterUpstream(c)
  BY <1>0, <1>17 DEF UnregisterUpstream
<1>18. CASE CloseUpstream(c)
  BY <1>0, <1>18 DEF CloseUpstream, BeingClosed, StopOrder
<1>19. CASE SendProxyError(c)
  BY <1>0, <1>19 DEF SendProxyError, WriteFails
<1>20. CASE AppendEvent(c)
  BY <1>0, <1>20 DEF AppendEvent, Fresh
<1>. QED
  BY <1>1, <1>2, <1>3, <1>4, <1>5, <1>6, <1>7, <1>8, <1>9, <1>10, 
     <1>11, <1>12, <1>13, <1>14, <1>15, <1>16, <1>17, <1>18, <1>19, <1>20, <1>21
  DEF Handle, Open, Relay, Buffer

\* The client opens and closes its connection, and starts requests.
LEMMA ShapeClient ==
    ASSUME TypeOK, NEW c \in Conns, Shape(c), Client(c)
    PROVE  Shape(c)' /\ \A d \in Conns \ {c} : Shape(d) => Shape(d)'
<1> USE DEF Goto, stopVars, registered, handlerVars
<1>1. /\ h \in [Conns -> Locals] /\ pc \in [Conns -> PCs]
      /\ gone \in [Conns -> BOOLEAN]
  BY DEF TypeOK
<1>2. ASSUME NEW d \in Conns \ {c}, Shape(d) PROVE Shape(d)'
  <2>1. h'[d] = h[d] /\ pc'[d] = pc[d] /\ gone'[d] = gone[d] /\ stopping' = stopping
    BY <1>1 DEF Client, Accept, ClientLeaves, EndConnection, Request
  <2>. QED
    BY <1>2, <2>1, ShapeFrame
<1> USE DEF Shape, Opening, Opened, Bound, Buffered, Streaming, Streamed, Relayed, Failing,
    Appending, OpenUntilStop, Untouched, HeadSent, Ended, CleanIsWhole,
    FromUpstream, Relaying, HasUpstream
<1>3. CASE Accept(c) \/ EndConnection(c)
  BY <1>1, <1>2, <1>3 DEF Accept, EndConnection
<1>4. CASE ClientLeaves(c)
  BY <1>1, <1>2, <1>4 DEF ClientLeaves
<1>5. CASE Request(c)
  BY <1>1, <1>2, <1>5 DEF Request, Fresh
<1>. QED
  BY <1>3, <1>4, <1>5 DEF Client

\* stop() closes a response that a handler is not reading, and sets stopping:
\* the handler finds nothing that its own steps do not allow for.
LEMMA ShapeStop ==
    ASSUME TypeOK, StopOrder, NEW d \in Conns, Shape(d), Stop
    PROVE  Shape(d)'
<1> USE DEF stopVars, registered, handlerVars
<1>1. h \in [Conns -> Locals]
  BY DEF TypeOK
<1>2. CASE StopSnapshot \/ StopUpstreams \/ StopReturn
  BY <1>2, ShapeFrame DEF StopSnapshot, StopUpstreams, StopReturn
<1>3. CASE StopBegin
  BY <1>3 DEF StopBegin, Shape, Opening, Opened, Bound, Buffered, Streaming, Streamed,
     Relayed, Failing, Appending, OpenUntilStop, Untouched, HeadSent, Ended,
     CleanIsWhole, FromUpstream, Relaying, HasUpstream
<1>4. ASSUME NEW c \in Conns, StopCloseConnection(c) \/ StopCloseUpstream(c)
      PROVE  Shape(d)'
  <2>1. stopping /\ stopping' /\ UNCHANGED <<pc, gone>>
    BY <1>4 DEF StopCloseConnection, StopCloseUpstream, StopOrder
  <2>2. CASE h'[d] = h[d]
    BY <2>1, <2>2, ShapeFrame
  <2>3. CASE h'[d] # h[d]
    <3>1. pc[d] \in HasUpstream /\ h' = [h EXCEPT ![d].up = "closed"]
      BY <1>1, <1>4, <2>3 DEF StopCloseConnection, StopCloseUpstream, CloseResponse
    <3>2. pc[d] \notin {"connect", "send", "wait"}
      BY <3>1 DEF HasUpstream, Relaying
    <3>. QED
      BY <1>1, <2>1, <3>1, <3>2 DEF Locals, Shape, Opening, Opened, Bound,
         Buffered, Streaming, Streamed, Relayed, Failing, Appending, OpenUntilStop,
         Untouched, HeadSent, Ended, CleanIsWhole, FromUpstream
  <2>. QED
    BY <2>2, <2>3
<1>. QED
  BY <1>2, <1>3, <1>4 DEF Stop

-----------------------------------------------------------------------------
(* The theorems *)

\* The shapes of all handlers are kept together.
LEMMA ShapesStep ==
    ASSUME TypeOK, StopOrder, \A c \in Conns : Shape(c), [Next]_vars
    PROVE  \A c \in Conns : Shape(c)'
<1>1. CASE Start
  <2>1. UNCHANGED <<pc, h, gone, stopping>>
    BY <1>1 DEF Start, StopOrder, TypeOK, handlerVars
  <2>. QED
    BY <2>1, ShapeFrame
<1>2. CASE Stop
  BY <1>2, ShapeStop
<1>3. ASSUME NEW c \in Conns, Client(c) PROVE \A d \in Conns : Shape(d)'
  BY <1>3, ShapeClient
<1>4. ASSUME NEW c \in Conns, Handle(c) PROVE \A d \in Conns : Shape(d)'
  <2>1. Shape(c)'
    BY <1>4, ShapeHandle
  <2>2. ASSUME NEW d \in Conns \ {c} PROVE Shape(d)'
    <3>1. h'[d] = h[d] /\ pc'[d] = pc[d] /\ gone' = gone /\ stopping' = stopping
      BY <1>4, OwnLocals DEF stopVars
    <3>. QED
      BY <3>1, ShapeFrame
  <2>. QED
    BY <2>1, <2>2
<1>5. CASE UNCHANGED vars
  BY <1>5, ShapeFrame DEF vars, stopVars, handlerVars
<1>. QED
  BY <1>1, <1>2, <1>3, <1>4, <1>5 DEF Next

\* Every handler of every reachable state has the locals its step expects.
THEOREM AnswerInvariant == Spec => [](StopOrder /\ \A c \in Conns : Shape(c))
<1> DEFINE Inv == StopOrder /\ \A c \in Conns : Shape(c)
<1>1. Init => Inv
  BY DEF Init, Fresh, StopOrder, Shape, Opening, Opened, Bound, Buffered, Streaming, Streamed,
     Relayed, Failing, Appending, OpenUntilStop, Relaying, HasUpstream
<1>2. TypeOK /\ Inv /\ [Next]_vars => Inv'
  BY StopOrderStep, ShapesStep
<1>. QED
  BY <1>1, <1>2, TypeCorrect, PTL DEF Spec

\* A request gets at most one response while the proxy is not being stopped.
THEOREM OneAnswerOnly == Spec => []OneAnswer
<1>1. (StopOrder /\ \A c \in Conns : Shape(c)) => OneAnswer
  BY DEF Shape, OneAnswer
<1>. QED
  BY <1>1, AnswerInvariant, PTL

\* The event records the status the client was answered.
THEOREM EventsAgree == Spec => []EventAgreesWithAnswer
<1>1. (StopOrder /\ \A c \in Conns : Shape(c)) => EventAgreesWithAnswer
  BY DEF Shape, Appending, EventAgreesWithAnswer
<1>. QED
  BY <1>1, AnswerInvariant, PTL

\* A response that was begun is ended for every client that stays.
THEOREM AnswersAreFramed == Spec => []WellFramed
<1>1. (StopOrder /\ \A c \in Conns : Shape(c)) => WellFramed
  BY DEF Shape, Appending, Ended, WellFramed
<1>. QED
  BY <1>1, AnswerInvariant, PTL

\* An event without errors is about a body that was relayed to its end, or about
\* one whose early end reading does not tell.
THEOREM CleanIsComplete == Spec => []CleanMeansComplete
<1>1. (StopOrder /\ \A c \in Conns : Shape(c)) => CleanMeansComplete
  BY DEF Shape, Appending, CleanIsWhole, CleanMeansComplete
<1>. QED
  BY <1>1, AnswerInvariant, PTL

-----------------------------------------------------------------------------
(* The artifact as a log *)

\* Before start() has returned there are no requests and no events.
NothingYet ==
    stage \in {"new", "failed"} =>
        artifact = << >> /\ \A c \in Conns : pc[c] = "none" /\ h[c].n = 0

\* A lost event has ended its connection, so it is the last one of it.
LostLast ==
    \A c \in Conns : \A k \in 1 .. h[c].n :
        Done(c, k) => \/ Recorded(<<c, k>>)
                      \/ /\ k = h[c].n /\ pc[c] = "closed"
                         /\ CaptureStreamTiming /\ ~h[c].bound

\* An event is written when its handler is done with the request.
LoggedDone(i) ==
    LET r == artifact[i].req IN r[2] <= h[r[1]].n /\ Done(r[1], r[2])
LoggedWhenDone == \A i \in DOMAIN artifact : LoggedDone(i)

LogInv == NothingYet /\ RecordedAtMostOnce /\ LostLast

-----------------------------------------------------------------------------
(* The steps *)

\* All but four steps keep the artifact, the numbers of the requests, and who
\* is handling one.
Quiet ==
    /\ artifact' = artifact
    /\ \A c \in Conns : /\ h'[c].n = h[c].n
                        /\ pc'[c] \in Handling <=> pc[c] \in Handling
                        /\ pc[c] = "closed" => pc'[c] = "closed"
                                               /\ h'[c].bound = h[c].bound

\* An event in the artifact names a request.
LEMMA LoggedAreRequests ==
    ASSUME artifact \in Seq(Events)
    PROVE  \A i \in DOMAIN artifact :
               /\ artifact[i].req \in Requests
               /\ artifact[i].req[1] \in Conns /\ artifact[i].req[2] \in Nat
<1> SUFFICES ASSUME NEW i \in DOMAIN artifact
             PROVE  /\ artifact[i].req \in Requests
                    /\ artifact[i].req[1] \in Conns
                    /\ artifact[i].req[2] \in Nat
  OBVIOUS
<1>1. artifact[i] \in Events
  OBVIOUS
<1>2. artifact[i].req \in Conns \X (1 .. MaxRequests)
  BY <1>1 DEF Events, Requests
<1>. QED
  BY <1>2, ConstantsAssumption DEF Requests

\* Quiet steps keep the log.
LEMMA QuietStep ==
    ASSUME Quiet, RecordedAtMostOnce, LostLast, artifact \in Seq(Events)
    PROVE  RecordedAtMostOnce' /\ LostLast'
<1>1. \A c \in Conns : \A k : Done(c, k)' <=> Done(c, k)
  BY DEF Quiet, Done
<1>2. \A r : Recorded(r)' <=> Recorded(r)
  BY DEF Quiet, Recorded
<1>3. \A i \in DOMAIN artifact : artifact[i].req[1] \in Conns
  BY LoggedAreRequests
<1>4. RecordedAtMostOnce'
  BY <1>1, <1>3 DEF Quiet, RecordedAtMostOnce
<1>5. LostLast'
  BY <1>1, <1>2 DEF Quiet, LostLast
<1>. QED
  BY <1>4, <1>5

\* Every step of a handler but its last is quiet.
LEMMA HandleIsQuiet ==
    ASSUME TypeOK, NEW c \in Conns, Handle(c), ~AppendEvent(c)
    PROVE  Quiet
<1> USE DEF Goto, handlerVars, registered, stopVars, Quiet, Handling, PCs
<1>0. h \in [Conns -> Locals] /\ pc \in [Conns -> PCs]
  BY DEF TypeOK
<1>1. CASE RegisterConnection(c) \/ SendRequest(c) \/ OpenFails(c)
  BY <1>0, <1>1 DEF RegisterConnection, SendRequest, OpenFails, Locals
<1>2. CASE OpenStopped(c) \/ GetResponse(c) \/ RegisterUpstream(c)
  BY <1>0, <1>2 DEF OpenStopped, GetResponse, RegisterUpstream, Locals
<1>3. CASE SendHead(c) \/ SendHeadFails(c) \/ ReadChunk(c) \/ WriteChunk(c)
  BY <1>0, <1>3 DEF SendHead, SendHeadFails, ReadChunk, WriteChunk, Locals
<1>4. CASE WriteChunkFails(c) \/ ReadEof(c) \/ ReadFails(c) \/ Terminate(c)
  BY <1>0, <1>4 DEF WriteChunkFails, ReadEof, ReadFails, Terminate, Locals
<1>5. CASE Buffer(c) \/ UnregisterUpstream(c)
  BY <1>0, <1>5 DEF Buffer, ReadBody, SendBody, BodyFails, UnregisterUpstream,
     Locals
<1>6. CASE CloseUpstream(c) \/ SendProxyError(c)
  BY <1>0, <1>6 DEF CloseUpstream, SendProxyError, Locals
<1>. QED
  BY <1>1, <1>2, <1>3, <1>4, <1>5, <1>6 DEF Handle, Open, Relay

\* So is every step of stop().
LEMMA StopIsQuiet ==
    ASSUME TypeOK, Stop
    PROVE  Quiet
<1> USE DEF handlerVars, registered, Quiet
<1>0. h \in [Conns -> Locals]
  BY DEF TypeOK
<1>1. CASE StopBegin \/ StopSnapshot \/ StopUpstreams \/ StopReturn
  BY <1>1 DEF StopBegin, StopSnapshot, StopUpstreams, StopReturn
<1>2. ASSUME NEW c \in Conns, StopCloseConnection(c) \/ StopCloseUpstream(c)
      PROVE  Quiet
  BY <1>0, <1>2 DEF StopCloseConnection, StopCloseUpstream, CloseResponse, Locals,
     HasUpstream, Relaying
<1>. QED
  BY <1>1, <1>2 DEF Stop

\* And every step of a client but a new request and, for the connection it
\* ends, the end of a connection.
LEMMA ClientIsQuiet ==
    ASSUME TypeOK, NEW c \in Conns, Client(c), ~Request(c)
    PROVE  Quiet
  BY DEF TypeOK, Client, Accept, ClientLeaves, EndConnection, Goto, Quiet, Handling,
     PCs, handlerVars

\* A new request is being handled, and all before it are recorded.
LEMMA RequestStep ==
    ASSUME TypeOK, RecordedAtMostOnce, LostLast, NEW c \in Conns, Request(c)
    PROVE  RecordedAtMostOnce' /\ LostLast'
<1>1. /\ h[c].n \in Nat /\ h'[c].n = h[c].n + 1
      /\ pc[c] = "idle" /\ pc'[c] \in Handling /\ artifact' = artifact
      /\ \A d \in Conns \ {c} : h'[d] = h[d] /\ pc'[d] = pc[d]
  BY DEF TypeOK, Request, Goto, Fresh, Locals, Handling, PCs
<1>2. \A d \in Conns, k \in Nat : k <= h[d].n => (Done(d, k)' <=> Done(d, k))
  <2>1. \A k \in Nat : k <= h[c].n => Done(c, k) /\ Done(c, k)'
    BY <1>1 DEF Done, Handling
  <2>. QED
    BY <1>1, <2>1 DEF Done
<1>3. \A i \in DOMAIN artifact :
          artifact[i].req[1] \in Conns /\ artifact[i].req[2] \in Nat
  BY LoggedAreRequests DEF TypeOK
<1>4. \A d \in Conns : h[d].n \in Nat /\ h[d].n <= h'[d].n
  BY <1>1 DEF TypeOK, Locals
<1>5. RecordedAtMostOnce'
  BY <1>1, <1>2, <1>3, <1>4 DEF RecordedAtMostOnce
<1>6. \A r : Recorded(r)' <=> Recorded(r)
  BY <1>1 DEF Recorded
<1>7. ASSUME NEW d \in Conns, NEW k \in 1 .. h'[d].n, Done(d, k)'
      PROVE  \/ Recorded(<<d, k>>)'
             \/ /\ k = h'[d].n /\ pc'[d] = "closed"
                /\ CaptureStreamTiming /\ ~h'[d].bound
  <2>1. CASE d # c
    BY <1>1, <1>2, <1>4, <1>6, <1>7, <2>1 DEF LostLast
  <2>2. CASE d = c
    <3>1. k <= h[c].n
      BY <1>1, <1>7, <2>2 DEF Done
    <3>. QED
      BY <1>1, <1>2, <1>6, <1>7, <2>2, <3>1 DEF LostLast
  <2>. QED
    BY <2>1, <2>2
<1>. QED
  BY <1>5, <1>7 DEF LostLast

-----------------------------------------------------------------------------
(* The event *)

\* The request of a handler that is about to write its event is not recorded.
LEMMA NotYetRecorded ==
    ASSUME TypeOK, RecordedAtMostOnce, NEW c \in Conns, pc[c] \in Handling
    PROVE  ~Recorded(Req(c))
  BY DEF TypeOK, Locals, RecordedAtMostOnce, Recorded, Done, Req

\* The last step of a handler adds its event, or ends the connection.
LEMMA AppendStep ==
    ASSUME TypeOK, RecordedAtMostOnce, LostLast, NEW c \in Conns, AppendEvent(c)
    PROVE  RecordedAtMostOnce' /\ LostLast'
<1>1. /\ pc[c] \in Handling /\ pc'[c] \notin Handling
      /\ \A d \in Conns : h'[d].n = h[d].n /\ h[d].n \in Nat
      /\ \A d \in Conns \ {c} : h'[d] = h[d] /\ pc'[d] = pc[d]
  BY DEF TypeOK, AppendEvent, Goto, Fresh, Locals, Handling, PCs
<1>2. \A d \in Conns, k \in Nat : Done(d, k) => Done(d, k)'
  BY <1>1 DEF Done
<1>3. \A i \in DOMAIN artifact :
          artifact[i].req[1] \in Conns /\ artifact[i].req[2] \in Nat
  BY LoggedAreRequests DEF TypeOK
<1>4. CASE CanBuildEvent(c)
  <2>1. /\ artifact' = Append(artifact, Event(c)) /\ Event(c).req = Req(c)
        /\ artifact \in Seq(Events)
    BY <1>4 DEF AppendEvent, Event, TypeOK
  <2>2. /\ DOMAIN artifact' = 1 .. (Len(artifact) + 1)
        /\ DOMAIN artifact = 1 .. Len(artifact)
        /\ Len(artifact) \in Nat
        /\ \A i \in 1 .. Len(artifact) : artifact'[i] = artifact[i]
        /\ artifact'[Len(artifact) + 1] = Event(c)
    BY <1>1, <2>1, EventIsEvent
  <2>3. \A i \in DOMAIN artifact : artifact[i].req # Req(c)
    BY <1>1, NotYetRecorded DEF Recorded
  <2>4. \A r : Recorded(r)' <=> Recorded(r) \/ r = Req(c)
    BY <2>1, <2>2 DEF Recorded
  <2>5. \A i, j \in DOMAIN artifact' :
            artifact'[i].req = artifact'[j].req => i = j
    BY <2>1, <2>2, <2>3 DEF RecordedAtMostOnce
  <2>6. LoggedWhenDone'
    <3> SUFFICES ASSUME NEW i \in DOMAIN artifact'
                 PROVE  LoggedDone(i)'
      BY DEF LoggedWhenDone
    <3>1. CASE i \in DOMAIN artifact
      <4>1. artifact'[i] = artifact[i] /\ LoggedDone(i)
        BY <2>2, <3>1 DEF RecordedAtMostOnce, LoggedDone
      <4>. QED
        BY <1>1, <1>3, <3>1, <4>1 DEF LoggedDone, Done
    <3>2. CASE i = Len(artifact) + 1
      <4>1. artifact'[i].req = <<c, h[c].n>>
        BY <2>1, <2>2, <3>2 DEF Req
      <4>. QED
        BY <1>1, <4>1 DEF LoggedDone, Done
    <3>. QED
      BY <2>2, <3>1, <3>2
  <2>7. LostLast'
    <3> SUFFICES ASSUME NEW d \in Conns, NEW k \in 1 .. h'[d].n, Done(d, k)'
                 PROVE  \/ Recorded(<<d, k>>)'
                        \/ /\ k = h'[d].n /\ pc'[d] = "closed"
                           /\ CaptureStreamTiming /\ ~h'[d].bound
      BY DEF LostLast
    <3>1. CASE d # c
      BY <1>1, <2>4, <3>1 DEF LostLast, Done
    <3>2. CASE d = c /\ k = h[c].n
      BY <2>4, <3>2 DEF Req
    <3>3. CASE d = c /\ k # h[c].n
      <4>1. k < h[c].n /\ Done(c, k)
        BY <1>1, <3>3 DEF Done
      <4>. QED
        BY <1>1, <2>4, <3>3, <4>1 DEF LostLast
    <3>. QED
      BY <3>1, <3>2, <3>3
  <2>. QED
    BY <2>5, <2>6, <2>7 DEF RecordedAtMostOnce, LoggedWhenDone, LoggedDone
<1>5. CASE ~CanBuildEvent(c)
  <2>1. /\ UNCHANGED <<h, artifact>> /\ pc'[c] = "closed"
        /\ CaptureStreamTiming /\ ~h[c].bound
    BY <1>1, <1>5, ConstantsAssumption
    DEF AppendEvent, CanBuildEvent, Goto, TypeOK
  <2>2. RecordedAtMostOnce'
    BY <1>2, <1>3, <2>1 DEF RecordedAtMostOnce
  <2>3. ASSUME NEW d \in Conns, NEW k \in 1 .. h[d].n, Done(d, k)'
        PROVE  \/ Recorded(<<d, k>>)'
               \/ /\ k = h[d].n /\ pc'[d] = "closed"
                  /\ CaptureStreamTiming /\ ~h[d].bound
    <3>1. CASE d = c /\ k = h[c].n
      BY <2>1, <3>1
    <3>2. CASE d # c \/ k # h[c].n
      <4>1. Done(d, k)
        BY <1>1, <2>1, <2>3, <3>2 DEF Done
      <4>2. \/ Recorded(<<d, k>>)
            \/ /\ k = h[d].n /\ pc[d] = "closed"
               /\ CaptureStreamTiming /\ ~h[d].bound
        BY <4>1 DEF LostLast
      <4>3. pc[d] = "closed" => d # c
        BY <1>1 DEF Handling
      <4>. QED
        BY <1>1, <2>1, <4>2, <4>3 DEF Recorded
    <3>. QED
      BY <3>1, <3>2
  <2>. QED
    BY <2>1, <2>2, <2>3 DEF LostLast
<1>. QED
  BY <1>4, <1>5

-----------------------------------------------------------------------------
(* The theorems *)

\* start() and the first connection.
LEMMA NothingYetStep ==
    ASSUME TypeOK, NothingYet, [Next]_vars
    PROVE  NothingYet'
<1> USE DEF NothingYet, stopVars, handlerVars, registered
<1>1. CASE Start
  BY <1>1 DEF Start
<1>2. CASE Stop
  BY <1>2 DEF Stop, StopBegin, StopSnapshot, StopUpstreams, StopReturn,
     StopCloseConnection, StopCloseUpstream
<1>3. ASSUME NEW c \in Conns, Client(c) PROVE NothingYet'
  BY <1>3 DEF Client, Accept, ClientLeaves, EndConnection, Request
<1>4. ASSUME NEW c \in Conns, Handle(c) PROVE NothingYet'
  <2>1. pc[c] # "none" /\ stage' = stage
    BY <1>4 DEF Handle, Open, Relay, RegisterConnection, SendRequest, OpenFails,
       OpenStopped, GetResponse, RegisterUpstream, SendHead, SendHeadFails,
       ReadChunk, WriteChunk, WriteChunkFails, ReadEof, ReadFails, Terminate,
       Buffer, ReadBody, SendBody, BodyFails, UnregisterUpstream, CloseUpstream, SendProxyError,
       AppendEvent
  <2>. QED
    BY <2>1
<1>5. CASE UNCHANGED vars
  BY <1>5 DEF vars
<1>. QED
  BY <1>1, <1>2, <1>3, <1>4, <1>5 DEF Next

\* The log is kept in every step.
LEMMA LogStep == TypeOK /\ LogInv /\ [Next]_vars => LogInv'
<1> SUFFICES ASSUME TypeOK, LogInv, [Next]_vars PROVE LogInv'
  OBVIOUS
<1>1. /\ NothingYet /\ RecordedAtMostOnce /\ LostLast /\ artifact \in Seq(Events)
      /\ NothingYet'
  BY NothingYetStep DEF LogInv, TypeOK
<1>2. CASE Start
  <2>1. Quiet
    BY <1>1, <1>2 DEF Start, NothingYet, Quiet, handlerVars
  <2>. QED
    BY <1>1, <2>1, QuietStep DEF LogInv
<1>3. CASE Stop
  BY <1>1, <1>3, StopIsQuiet, QuietStep DEF LogInv
<1>4. ASSUME NEW c \in Conns, Client(c) PROVE LogInv'
  BY <1>1, <1>4, ClientIsQuiet, QuietStep, RequestStep DEF LogInv
<1>5. ASSUME NEW c \in Conns, Handle(c) PROVE LogInv'
  BY <1>1, <1>5, HandleIsQuiet, QuietStep, AppendStep DEF LogInv
<1>6. CASE UNCHANGED vars
  <2>1. Quiet
    BY <1>6 DEF vars, handlerVars, Quiet
  <2>. QED
    BY <1>1, <2>1, QuietStep DEF LogInv
<1>. QED
  BY <1>2, <1>3, <1>4, <1>5, <1>6 DEF Next

\* The invariant of the log.
THEOREM LogInvariant == Spec => []LogInv
<1>1. Init => LogInv
  BY DEF Init, Fresh, LogInv, NothingYet, RecordedAtMostOnce, LostLast
<1>. QED
  BY <1>1, LogStep, TypeCorrect, PTL DEF Spec

\* No request is recorded twice, and none before its handler is done with it.
THEOREM NothingRecordedTwice == Spec => []RecordedAtMostOnce
<1>1. LogInv => RecordedAtMostOnce
  BY DEF LogInv
<1>. QED
  BY <1>1, LogInvariant, PTL

\* Only the option capture_stream_timing loses an event.
THEOREM OnlyTimingLoses == Spec => []LostOnlyByTiming
<1>1. LogInv => LostOnlyByTiming
  BY DEF LogInv, LostLast, LostOnlyByTiming
<1>. QED
  BY <1>1, LogInvariant, PTL

\* Without that option every request a handler is done with has its event.
THEOREM EverythingRecorded ==
    ~CaptureStreamTiming => (Spec => []EveryRequestRecorded)
<1> SUFFICES ASSUME ~CaptureStreamTiming PROVE Spec => []EveryRequestRecorded
  OBVIOUS
<1>1. LogInv => EveryRequestRecorded
  BY DEF LogInv, LostLast, EveryRequestRecorded
<1>. QED
  BY <1>1, LogInvariant, PTL

-----------------------------------------------------------------------------
(* The refinement *)

\* What the log of the abstract specification is in the proxy.
Received == {r \in Requests : r[2] <= h[r[1]].n}
Logged == [i \in DOMAIN artifact |-> artifact[i].req]

\* A quiet step is a stutter of the log.
LEMMA QuietStutters ==
    ASSUME Quiet
    PROVE  UNCHANGED <<Received, Logged>>
  BY DEF Quiet, Received, Logged, Requests

\* A request that comes in is received.
LEMMA RequestReceives ==
    ASSUME TypeOK, NEW c \in Conns, Request(c)
    PROVE  \E r \in Requests : Log!Receive(r)
<1> DEFINE r == <<c, h[c].n + 1>>
<1>1. /\ h[c].n \in Nat /\ h'[c].n = h[c].n + 1 /\ artifact' = artifact
      /\ \A d \in Conns \ {c} : h'[d] = h[d]
  BY DEF TypeOK, Request, Fresh, Locals
<1>2. r \in Requests
  BY <1>1, ConstantsAssumption DEF Request, Requests
<1>3. \A q \in Requests : q[2] <= h'[q[1]].n <=> q[2] <= h[q[1]].n \/ q = r
  <2> SUFFICES ASSUME NEW d \in Conns, NEW k \in 1 .. MaxRequests
               PROVE  k <= h'[d].n <=> k <= h[d].n \/ <<d, k>> = r
    BY DEF Requests
  <2>. QED
    BY <1>1
<1>4. Received' = Received \cup {r} /\ r \notin Received
  BY <1>1, <1>2, <1>3 DEF Received
<1>. QED
  BY <1>1, <1>2, <1>4 DEF Log!Receive, Received, Logged

\* The last step of a handler records its request, or is a stutter.
LEMMA AppendRecords ==
    ASSUME TypeOK, RecordedAtMostOnce, NEW c \in Conns, AppendEvent(c)
    PROVE  \/ \E r \in Requests : Log!Record(r)
           \/ UNCHANGED <<Received, Logged>>
<1>1. /\ pc[c] \in Handling
      /\ \A d \in Conns : h'[d].n = h[d].n
      /\ h[c].n \in Nat
  <2>1. h[c] \in Locals /\ h \in [Conns -> Locals]
    BY DEF TypeOK
  <2>2. pc[c] \in Handling /\ h' \in {h, [h EXCEPT ![c] = Fresh(h[c].n)]}
    BY DEF AppendEvent, Handling, PCs
  <2>. QED
    BY <2>1, <2>2 DEF Fresh, Locals
<1>2. Received' = Received
  BY <1>1 DEF Received, Requests
<1>3. CASE ~CanBuildEvent(c)
  BY <1>2, <1>3 DEF AppendEvent, Logged
<1>4. CASE CanBuildEvent(c)
  <2>1. /\ artifact' = Append(artifact, Event(c)) /\ Event(c).req = Req(c)
        /\ artifact \in Seq(Events) /\ Event(c) \in Events
    BY <1>1, <1>4, EventIsEvent DEF AppendEvent, Event, TypeOK
  <2>2. Logged \in Seq(Requests) /\ Len(Logged) = Len(artifact)
    BY <2>1, LoggedAreRequests DEF Logged
  <2>3. Logged' = Append(Logged, Req(c))
    BY <2>1, <2>2 DEF Logged
  <2>4. \A i \in DOMAIN Logged : Logged[i] # Req(c)
    BY <1>1, NotYetRecorded DEF Recorded, Logged
  <2>5. Req(c) \in Requests /\ Req(c) \in Received
    BY <1>1, ReqIsRequest DEF Received, Req
  <2>. QED
    BY <1>2, <2>3, <2>4, <2>5 DEF Log!Record, Received, Logged
<1>. QED
  BY <1>3, <1>4

\* The proxy implements the safety of the request log: every step receives one
\* request, records one that was received and is not recorded, or is a stutter.
THEOREM ProxyImplementsLog == Spec => Log!Spec
<1>1. Init => Log!Init
  <2> SUFFICES ASSUME Init PROVE Log!Init
    OBVIOUS
  <2>1. Received = {}
    BY DEF Init, Fresh, Received, Requests
  <2>2. Logged = << >>
    BY DEF Init, Logged
  <2>. QED
    BY <2>1, <2>2 DEF Log!Init, Received, Logged
<1>2. TypeOK /\ LogInv /\ [Next]_vars => [Log!Next]_<<Received, Logged>>
  <2> SUFFICES ASSUME TypeOK, LogInv, [Next]_vars
               PROVE  Log!Next \/ UNCHANGED <<Received, Logged>>
    OBVIOUS
  <2>1. CASE Start
    <3>1. Quiet
      BY <2>1 DEF LogInv, Start, NothingYet, Quiet, handlerVars
    <3>. QED
      BY <3>1, QuietStutters
  <2>2. CASE Stop
    BY <2>2, StopIsQuiet, QuietStutters
  <2>3. ASSUME NEW c \in Conns, Client(c)
        PROVE  Log!Next \/ UNCHANGED <<Received, Logged>>
    BY <2>3, ClientIsQuiet, QuietStutters, RequestReceives DEF Log!Next
  <2>4. ASSUME NEW c \in Conns, Handle(c)
        PROVE  Log!Next \/ UNCHANGED <<Received, Logged>>
    BY <2>4, HandleIsQuiet, QuietStutters, AppendRecords DEF Log!Next, LogInv
  <2>5. CASE UNCHANGED vars
    BY <2>5 DEF vars, handlerVars, Received, Logged
  <2>. QED
    BY <2>1, <2>2, <2>3, <2>4, <2>5 DEF Next
<1>. QED
  BY <1>1, <1>2, TypeCorrect, LogInvariant, PTL
  DEF Spec, Log!Spec, Received, Logged
=============================================================================
