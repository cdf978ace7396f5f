------------------------- MODULE WebChallengeProofs -------------------------
(* Proofs about WebChallenge, for any number of requests: what a PASS of a web
   case is worth, that the validator overlooks a fetched page only while another
   request has the log truncated, and that the log the case is left with is
   complete unless the server was closed over a request.

   The inductive invariant says what the lock says of the handlers, that every
   entry of the log has its request and every registered request its entry, how
   much of the list the file holds, and what the verdict was made of. *)
EXTENDS WebChallenge, TLAPS

Writing == {"appended", "truncated"}
Registered == {"registered", "answered", "broken"}

\* The lock is held by the one handler that is between its entry and its file.
LockInv ==
    /\ \A r \in Requests : req[r].pc \in Writing <=> lock = r
    /\ lock # NoHandler =>
          /\ Len(paths) > 0
          /\ req[lock].text = Len(paths)
          /\ req[lock].page = paths[Len(paths)]

\* Every entry is the page of a request ...
Backed ==
    \A i \in 1 .. Len(paths) : \E r \in Requests :
        req[r].page = paths[i] /\ req[r].pc \in Writing \cup Registered

\* ... and the requests that are through have their entry.
Settled == IF lock = NoHandler THEN Len(paths) ELSE Len(paths) - 1

Listed ==
    \A r \in Requests : req[r].pc \in Registered =>
        \E i \in 1 .. Settled : paths[i] = req[r].page

\* The file is behind the list by no more than the handler with the lock.
Whole == [size |-> Size(Len(paths)), valid |-> TRUE]
Open == {"prepare", "warmup", "measured", "readArtifact", "readLog", "close",
         "dump", "truncate"}

FileInv ==
    /\ at = "start" => /\ paths = <<>> /\ lock = NoHandler /\ server # "up"
                       /\ \A r \in Requests : req[r].pc = "unsent"
    /\ text <= Len(paths)
    /\ file.size <= Size(Len(paths))
    /\ at \in Open /\ lock = NoHandler => file = Whole
    /\ at \in Open /\ lock # NoHandler =>
          file = IF req[lock].pc = "appended"
                 THEN [size |-> Len(paths), valid |-> TRUE] ELSE Truncated

\* Closed over nobody, the list is final.
CloseInv ==
    at \in {"dump", "truncate", "write", "done"} =>
        /\ server = "closed"
        /\ inFlight = {} =>
              /\ Quiet
              /\ at \in {"truncate", "write"} => text = Len(paths)
              /\ at = "write" => file = Truncated
              /\ at = "done" => file = Whole

Undecided ==
    at \notin {"close", "dump", "truncate", "write", "done", "aborted"} => verdict = "none"

VerdictInv ==
    /\ artifact = "right" => Derivable
    /\ observed = "right" => Derivable
    /\ hit => \E r \in Requests : req[r].page = "measured"
                                  /\ req[r].pc \in Writing \cup Registered
    /\ verdict = "PASS" => observed = "right" /\ hit

IInv == /\ TypeOK /\ LockInv /\ Backed /\ Listed /\ FileInv /\ CloseInv
        /\ Undecided /\ VerdictInv

-----------------------------------------------------------------------------
LEMMA WrittenType ==
    ASSUME NEW f \in [size : Nat, valid : BOOLEAN], NEW n \in Nat
    PROVE  /\ Written(f, n) \in [size : Nat, valid : BOOLEAN]
           /\ Size(n) >= f.size => Written(f, n) = [size |-> Size(n), valid |-> TRUE]
           /\ f.size <= Size(n) => Written(f, n).size = Size(n)
BY DEF Written, Size

LEMMA AppendFacts ==
    ASSUME NEW s \in Seq(Pages), NEW p \in Pages
    PROVE  /\ Append(s, p) \in Seq(Pages)
           /\ Len(Append(s, p)) = Len(s) + 1
           /\ \A i \in 1 .. Len(s) : Append(s, p)[i] = s[i]
           /\ Append(s, p)[Len(s) + 1] = p
OBVIOUS

\* What an action of the runner leaves alone is enough for these three.
LEMMA RunnerFrame ==
    ASSUME LockInv, Backed, Listed, UNCHANGED <<paths, lock, req>>
    PROVE  LockInv' /\ Backed' /\ Listed'
<1>1. LockInv'
  BY DEF LockInv
<1>2. Backed'
  BY DEF Backed
<1>3. Settled' = Settled
  BY DEF Settled
<1>4. Listed'
  BY <1>3 DEF Listed
<1> QED  BY <1>1, <1>2, <1>4

LEMMA InitInv == Init => IInv
<1> SUFFICES ASSUME Init PROVE IInv
  OBVIOUS
<1> USE DEF Init
<1>1. TypeOK
  <2>1. req \in [Requests -> [pc : HandlerStates, page : Pages, query : BOOLEAN,
                              text : Nat]]
    BY DEF HandlerStates, Pages
  <2>2. paths \in Seq(Pages) /\ file \in [size : Nat, valid : BOOLEAN]
    BY DEF Truncated
  <2> QED  BY <2>1, <2>2 DEF TypeOK, Kinds, Stages
<1>2. LockInv
  BY DEF LockInv, Writing, NoHandler, Requests
<1>3. Backed /\ Listed
  BY DEF Backed, Listed, Registered
<1>4. FileInv
  BY DEF FileInv, Truncated, Size, Open
<1>5. CloseInv /\ Undecided /\ VerdictInv
  BY DEF CloseInv, Undecided, VerdictInv
<1> QED  BY <1>1, <1>2, <1>3, <1>4, <1>5 DEF IInv

-----------------------------------------------------------------------------
(* The handlers. *)

LEMMA HandlerType ==
    ASSUME TypeOK, NEW r \in Requests, Send(r) \/ Handler(r)
    PROVE  TypeOK'
<1> USE DEF TypeOK
<1>1. CASE Send(r)
  <2> PICK p \in Pages, q \in BOOLEAN :
           req' = [req EXCEPT ![r] = [pc |-> "accepted", page |-> p,
                                      query |-> q, text |-> 0]]
    BY <1>1 DEF Send
  <2>1. req' \in [Requests -> [pc : HandlerStates, page : Pages, query : BOOLEAN,
                               text : Nat]]
    BY DEF HandlerStates
  <2> QED  BY <1>1, <2>1 DEF Send
<1>2. CASE AppendHit(r)
  <2>1. req[r].page \in Pages
    OBVIOUS
  <2>2. Append(paths, req[r].page) \in Seq(Pages) /\ Len(paths) + 1 \in Nat
    BY <2>1, AppendFacts
  <2>3. req' \in [Requests -> [pc : HandlerStates, page : Pages, query : BOOLEAN,
                               text : Nat]]
    BY <1>2, <2>2 DEF AppendHit, HandlerStates
  <2> QED  BY <1>2, <2>2, <2>3 DEF AppendHit
<1>3. CASE TruncateLog(r)
  BY <1>3 DEF TruncateLog, HandlerStates, Truncated
<1>4. CASE WriteLog(r)
  <2>1. req[r].text \in Nat
    OBVIOUS
  <2>2. req' \in [Requests -> [pc : HandlerStates, page : Pages, query : BOOLEAN,
                               text : Nat]]
    BY <1>4 DEF WriteLog, HandlerStates
  <2> QED  BY <1>4, <2>1, <2>2, WrittenType DEF WriteLog
<1>5. CASE Answer(r)
  <2> PICK s \in {"answered", "broken"} :
           req' = [req EXCEPT ![r] = [@ EXCEPT !.pc = s]]
    BY <1>5 DEF Answer
  <2>1. req' \in [Requests -> [pc : HandlerStates, page : Pages, query : BOOLEAN,
                               text : Nat]]
    BY DEF HandlerStates
  <2> QED  BY <1>5, <2>1 DEF Answer
<1> QED  BY <1>1, <1>2, <1>3, <1>4, <1>5 DEF Handler

\* What a step of a handler does to its own request, and to no other.
LEMMA HandlerOwn ==
    ASSUME TypeOK, NEW r \in Requests, Send(r) \/ Handler(r)
    PROVE  /\ \A s \in Requests : s # r => req'[s] = req[s]
           /\ Send(r) => req[r].pc = "unsent" /\ req'[r].pc = "accepted"
           /\ AppendHit(r) => /\ req[r].pc = "accepted" /\ req'[r].pc = "appended"
                              /\ req'[r].text = Len(paths) + 1
           /\ TruncateLog(r) => /\ req[r].pc = "appended" /\ req'[r].pc = "truncated"
                                /\ req'[r].text = req[r].text
           /\ WriteLog(r) => req[r].pc = "truncated" /\ req'[r].pc = "registered"
           /\ Answer(r) => req[r].pc = "registered" /\ req'[r].pc \in {"answered", "broken"}
           /\ Handler(r) => req'[r].page = req[r].page /\ req'[r].query = req[r].query
<1> USE DEF TypeOK, Handler
<1>1. CASE Send(r)
  BY <1>1 DEF Send, AppendHit, TruncateLog, WriteLog, Answer
<1>2. CASE AppendHit(r)
  BY <1>2 DEF Send, AppendHit, TruncateLog, WriteLog, Answer
<1>3. CASE TruncateLog(r)
  BY <1>3 DEF Send, AppendHit, TruncateLog, WriteLog, Answer
<1>4. CASE WriteLog(r)
  BY <1>4 DEF Send, AppendHit, TruncateLog, WriteLog, Answer
<1>5. CASE Answer(r)
  BY <1>5 DEF Send, AppendHit, TruncateLog, WriteLog, Answer
<1> QED  BY <1>1, <1>2, <1>3, <1>4, <1>5

LEMMA HandlerNotNone == \A r \in Requests : r # NoHandler
BY RequestsAssumption DEF Requests, NoHandler

LEMMA HandlerLock ==
    ASSUME TypeOK, LockInv, NEW r \in Requests, Send(r) \/ Handler(r)
    PROVE  LockInv'
<1>0. /\ \A s \in Requests : s # r => req'[s] = req[s]
      /\ lock = NoHandler \/ lock \in Requests
      /\ r # NoHandler
  BY HandlerOwn, HandlerNotNone DEF TypeOK
<1>1. CASE Send(r)
  <2>1. /\ lock' = lock /\ paths' = paths
        /\ req[r].pc = "unsent" /\ req'[r].pc = "accepted" /\ lock # r
    BY <1>1, HandlerOwn DEF Send, LockInv, Writing
  <2> QED  BY <1>0, <2>1 DEF LockInv, Writing
<1>2. CASE AppendHit(r)
  <2>1. req[r].page \in Pages /\ paths \in Seq(Pages)
    BY DEF TypeOK
  <2>2. /\ Len(paths') = Len(paths) + 1 /\ Len(paths) \in Nat
        /\ paths'[Len(paths) + 1] = req[r].page
    BY <1>2, <2>1, AppendFacts DEF AppendHit
  <2>3. /\ lock = NoHandler /\ lock' = r /\ req'[r].pc = "appended"
        /\ req'[r].text = Len(paths) + 1 /\ req'[r].page = req[r].page
    BY <1>2, HandlerOwn DEF AppendHit, Handler
  <2>4. ASSUME NEW s \in Requests
        PROVE  req'[s].pc \in Writing <=> lock' = s
    BY <1>0, <2>3, HandlerNotNone DEF LockInv, Writing
  <2> QED  BY <1>0, <2>2, <2>3, <2>4 DEF LockInv
<1>3. CASE TruncateLog(r)
  <2>1. /\ lock' = lock /\ paths' = paths /\ lock = r
        /\ req'[r].pc = "truncated" /\ req'[r].text = req[r].text
        /\ req'[r].page = req[r].page
    BY <1>3, HandlerOwn DEF TruncateLog, LockInv, Writing, Handler
  <2> QED  BY <1>0, <2>1 DEF LockInv, Writing
<1>4. CASE WriteLog(r)
  <2>1. /\ lock' = NoHandler /\ lock = r /\ req'[r].pc = "registered"
    BY <1>4, HandlerOwn DEF WriteLog, LockInv, Writing
  <2> QED  BY <1>0, <2>1, HandlerNotNone DEF LockInv, Writing
<1>5. CASE Answer(r)
  <2>1. /\ lock' = lock /\ paths' = paths /\ lock # r
        /\ req'[r].pc \in {"answered", "broken"}
    BY <1>5, HandlerOwn DEF Answer, LockInv, Writing
  <2> QED  BY <1>0, <2>1 DEF LockInv, Writing
<1> QED  BY <1>1, <1>2, <1>3, <1>4, <1>5 DEF Handler

\* A request that backs an entry, or waits in the log, goes on doing so.
LEMMA StillBacks ==
    ASSUME TypeOK, NEW r \in Requests, Send(r) \/ Handler(r), NEW s \in Requests,
           req[s].pc \in Writing \cup Registered
    PROVE  /\ req'[s].pc \in Writing \cup Registered
           /\ req'[s].page = req[s].page
<1> USE HandlerOwn DEF Writing, Registered
<1>1. CASE s # r
  BY <1>1
<1>2. CASE s = r
  BY <1>2 DEF Handler
<1> QED  BY <1>1, <1>2

LEMMA HandlerBacked ==
    ASSUME TypeOK, Backed, NEW r \in Requests, Send(r) \/ Handler(r)
    PROVE  Backed'
<1> SUFFICES ASSUME NEW i \in 1 .. Len(paths')
             PROVE  \E s \in Requests : /\ req'[s].page = paths'[i]
                                         /\ req'[s].pc \in Writing \cup Registered
  BY DEF Backed
<1>1. ASSUME i \in 1 .. Len(paths), paths'[i] = paths[i]
      PROVE  \E s \in Requests : /\ req'[s].page = paths'[i]
                                  /\ req'[s].pc \in Writing \cup Registered
  <2>1. PICK s \in Requests : /\ req[s].page = paths[i]
                              /\ req[s].pc \in Writing \cup Registered
    BY <1>1 DEF Backed
  <2>2. req'[s].pc \in Writing \cup Registered /\ req'[s].page = req[s].page
    BY <2>1, StillBacks
  <2> QED  BY <1>1, <2>1, <2>2
<1>2. CASE AppendHit(r)
  <2>1. req[r].page \in Pages /\ paths \in Seq(Pages)
    BY DEF TypeOK
  <2>2. /\ Len(paths') = Len(paths) + 1 /\ Len(paths) \in Nat
        /\ paths'[Len(paths) + 1] = req[r].page
        /\ \A j \in 1 .. Len(paths) : paths'[j] = paths[j]
    BY <1>2, <2>1, AppendFacts DEF AppendHit
  <2>3. req'[r].pc = "appended" /\ req'[r].page = req[r].page
    BY <1>2, HandlerOwn DEF Handler
  <2>4. CASE i \in 1 .. Len(paths)
    BY <1>1, <2>2, <2>4
  <2>5. CASE i = Len(paths) + 1
    BY <2>2, <2>3, <2>5 DEF Writing
  <2> QED  BY <2>2, <2>4, <2>5
<1>3. CASE ~AppendHit(r)
  <2>1. paths' = paths
    BY <1>3 DEF Send, Handler, TruncateLog, WriteLog, Answer
  <2> QED  BY <1>1, <2>1
<1> QED  BY <1>2, <1>3

LEMMA HandlerListed ==
    ASSUME TypeOK, LockInv, Listed, NEW r \in Requests, Send(r) \/ Handler(r)
    PROVE  Listed'
<1> SUFFICES ASSUME NEW s \in Requests, req'[s].pc \in Registered
             PROVE  \E i \in 1 .. Settled' : paths'[i] = req'[s].page
  BY DEF Listed
<1>0. /\ Len(paths) \in Nat /\ req[r].page \in Pages /\ paths \in Seq(Pages)
      /\ \A t \in Requests : t # r => req'[t] = req[t]
  BY HandlerOwn DEF TypeOK
<1>1. CASE Send(r)
  <2>1. s # r /\ paths' = paths /\ lock' = lock
    BY <1>1, HandlerOwn DEF Send, Registered
  <2> QED  BY <1>0, <2>1 DEF Listed, Settled
<1>2. CASE AppendHit(r)
  <2>1. s # r /\ lock = NoHandler /\ lock' # NoHandler
    BY <1>2, HandlerOwn, HandlerNotNone DEF AppendHit, Registered
  <2>2. /\ Len(paths') = Len(paths) + 1
        /\ \A j \in 1 .. Len(paths) : paths'[j] = paths[j]
    BY <1>0, <1>2, AppendFacts DEF AppendHit
  <2>3. Settled' = Settled /\ Settled = Len(paths)
    BY <1>0, <2>1, <2>2 DEF Settled
  <2>4. PICK i \in 1 .. Settled : paths[i] = req[s].page
    BY <1>0, <2>1 DEF Listed
  <2> QED  BY <1>0, <2>1, <2>2, <2>3, <2>4
<1>3. CASE TruncateLog(r)
  <2>1. s # r /\ paths' = paths /\ lock' = lock
    BY <1>3, HandlerOwn DEF TruncateLog, Registered
  <2> QED  BY <1>0, <2>1 DEF Listed, Settled
<1>4. CASE WriteLog(r)
  <2>1. /\ lock = r /\ lock # NoHandler /\ lock' = NoHandler /\ paths' = paths
        /\ req'[r].page = req[r].page
    BY <1>4, HandlerOwn, HandlerNotNone DEF WriteLog, LockInv, Writing, Handler
  <2>2. /\ Len(paths) > 0 /\ req[r].page = paths[Len(paths)]
        /\ Settled = Len(paths) - 1 /\ Settled' = Len(paths)
    BY <2>1 DEF LockInv, Settled
  <2>3. CASE s = r
    <3>1. Len(paths) \in 1 .. Settled'
      BY <1>0, <2>2
    <3> QED  BY <2>1, <2>2, <2>3, <3>1
  <2>4. CASE s # r
    <3>1. PICK i \in 1 .. Settled : paths[i] = req[s].page
      BY <1>0, <2>4 DEF Listed
    <3>2. i \in 1 .. Settled'
      BY <1>0, <2>2
    <3> QED  BY <1>0, <2>1, <2>4, <3>1, <3>2
  <2> QED  BY <2>3, <2>4
<1>5. CASE Answer(r)
  <2>1. /\ paths' = paths /\ lock' = lock /\ req[r].pc \in Registered
        /\ req'[r].page = req[r].page
    BY <1>5, HandlerOwn DEF Answer, Registered, Handler
  <2>2. req[s].pc \in Registered /\ req'[s].page = req[s].page
    BY <1>0, <2>1
  <2> QED  BY <2>1, <2>2 DEF Listed, Settled
<1> QED  BY <1>1, <1>2, <1>3, <1>4, <1>5 DEF Handler

LEMMA HandlerFile ==
    ASSUME TypeOK, LockInv, FileInv, CloseInv, NEW r \in Requests,
           Send(r) \/ Handler(r)
    PROVE  FileInv'
<1>a. /\ Len(paths) \in Nat /\ req[r].page \in Pages /\ paths \in Seq(Pages)
      /\ text \in Nat /\ file \in [size : Nat, valid : BOOLEAN]
      /\ lock \in Requests \cup {NoHandler} /\ r # NoHandler
  BY HandlerNotNone DEF TypeOK
<1>b. at' = at /\ text' = text /\ server' = server
  BY DEF Send, Handler, AppendHit, TruncateLog, WriteLog, Answer
<1>c. \A t \in Requests : t # r => req'[t] = req[t]
  BY HandlerOwn
<1>0. /\ Len(paths) \in Nat /\ req[r].page \in Pages /\ paths \in Seq(Pages)
      /\ text \in Nat /\ file \in [size : Nat, valid : BOOLEAN]
      /\ lock \in Requests \cup {NoHandler} /\ r # NoHandler
      /\ at' = at /\ text' = text /\ server' = server
      /\ \A t \in Requests : t # r => req'[t] = req[t]
  BY <1>a, <1>b, <1>c
<1>00. at \in Open => file = IF lock = NoHandler THEN Whole
                             ELSE IF req[lock].pc = "appended"
                             THEN [size |-> Len(paths), valid |-> TRUE] ELSE Truncated
  BY DEF FileInv
<1>1. CASE Send(r)
  <2>1. /\ paths' = paths /\ lock' = lock /\ file' = file /\ server = "up"
        /\ lock # r
    BY <1>1, HandlerOwn DEF Send, LockInv, Writing
  <2>2. lock # NoHandler => req'[lock] = req[lock]
    BY <1>0, <2>1
  <2> QED  BY <1>0, <2>1, <2>2 DEF FileInv, Whole, Size
<1>2. CASE AppendHit(r)
  <2>1. /\ Len(paths') = Len(paths) + 1 /\ lock = NoHandler /\ lock' = r
        /\ file' = file /\ req'[r].pc = "appended" /\ req[r].pc = "accepted"
    BY <1>0, <1>2, AppendFacts, HandlerOwn DEF AppendHit
  <2>2. at # "start"
    BY <2>1 DEF FileInv
  <2>3. text' <= Len(paths') /\ file'.size <= Size(Len(paths'))
    BY <1>0, <2>1 DEF FileInv, Size
  <2>4. at \in Open => file' = [size |-> Len(paths'), valid |-> TRUE]
    BY <1>00, <2>1 DEF Whole, Size
  <2> QED  BY <1>0, <2>1, <2>2, <2>3, <2>4 DEF FileInv
<1>3. CASE TruncateLog(r)
  <2>1. /\ paths' = paths /\ lock' = lock /\ lock = r /\ file' = Truncated
        /\ req'[r].pc = "truncated"
    BY <1>3, HandlerOwn DEF TruncateLog, LockInv, Writing
  <2>3. at # "start"
    BY <1>3 DEF FileInv, TruncateLog
  <2>2. file'.size <= Size(Len(paths'))
    BY <1>0, <2>1 DEF Truncated, Size
  <2> QED  BY <1>0, <2>1, <2>2, <2>3 DEF FileInv, Open
<1>4. CASE WriteLog(r)
  <2>1. /\ paths' = paths /\ lock' = NoHandler /\ lock = r
        /\ file' = Written(file, Len(paths)) /\ req[r].pc = "truncated"
    BY <1>4, HandlerOwn, HandlerNotNone DEF WriteLog, LockInv, Writing
  <2>2. file.size <= Size(Len(paths))
    BY DEF FileInv
  <2>3. file' = Whole
    BY <1>0, <2>1, <2>2, WrittenType DEF Whole, Size
  <2>4. at # "start"
    BY <1>4 DEF FileInv, WriteLog
  <2> QED  BY <1>0, <2>1, <2>3, <2>4 DEF FileInv, Whole, Size
<1>5. CASE Answer(r)
  <2>1. /\ paths' = paths /\ lock' = lock /\ file' = file /\ lock # r
    BY <1>5, HandlerOwn DEF Answer, LockInv, Writing
  <2>2. lock # NoHandler => req'[lock] = req[lock]
    BY <1>0, <2>1
  <2>3. at # "start"
    BY <1>5 DEF FileInv, Answer
  <2> QED  BY <1>0, <2>1, <2>2, <2>3 DEF FileInv, Whole, Size
<1> QED  BY <1>1, <1>2, <1>3, <1>4, <1>5 DEF Handler

\* Closed over nobody, there is no handler left that could take another step.
LEMMA HandlerClose ==
    ASSUME TypeOK, LockInv, CloseInv, NEW r \in Requests, Send(r) \/ Handler(r)
    PROVE  CloseInv'
<1>0. /\ at' = at /\ text' = text /\ server' = server /\ inFlight' = inFlight
      /\ \A t \in Requests : t # r => req'[t] = req[t]
  BY HandlerOwn DEF Send, Handler, AppendHit, TruncateLog, WriteLog, Answer
<1>1. CASE at \in {"dump", "truncate", "write", "done"} /\ inFlight = {}
  <2>1. Quiet /\ server = "closed"
    BY <1>1 DEF CloseInv
  <2>2. Answer(r)
    BY <2>1 DEF Quiet, Send, Handler, AppendHit, TruncateLog, WriteLog
  <2>3. paths' = paths /\ file' = file /\ req'[r].pc \in {"answered", "broken"}
    BY <2>2, HandlerOwn DEF Answer
  <2>4. Quiet'
    BY <1>0, <2>1, <2>3 DEF Quiet
  <2> QED  BY <1>0, <1>1, <2>1, <2>3, <2>4 DEF CloseInv, Whole
<1>2. CASE ~(at \in {"dump", "truncate", "write", "done"} /\ inFlight = {})
  BY <1>0, <1>2 DEF CloseInv
<1> QED  BY <1>1, <1>2

LEMMA HandlerVerdict ==
    ASSUME TypeOK, VerdictInv, NEW r \in Requests, Send(r) \/ Handler(r)
    PROVE  VerdictInv'
<1>0. /\ artifact' = artifact /\ observed' = observed /\ hit' = hit
      /\ verdict' = verdict /\ kind' = kind
      /\ \A t \in Requests : t # r => req'[t] = req[t]
  BY HandlerOwn DEF Send, Handler, AppendHit, TruncateLog, WriteLog, Answer
<1>1. ASSUME NEW s \in Requests, GotResults(s)
      PROVE  GotResults(s)'
  <2>1. req[s].pc = "answered"
    BY <1>1 DEF GotResults
  <2>2. s # r
    BY <2>1, HandlerOwn DEF Handler
  <2> QED  BY <1>0, <1>1, <2>2 DEF GotResults, HasResults
<1>2. Derivable => Derivable'
  BY <1>0, <1>1 DEF Derivable
<1>3. ASSUME hit
      PROVE  \E s \in Requests : req'[s].page = "measured"
                                  /\ req'[s].pc \in Writing \cup Registered
  <2>1. PICK s \in Requests : /\ req[s].page = "measured"
                              /\ req[s].pc \in Writing \cup Registered
    BY <1>3 DEF VerdictInv
  <2> QED  BY <2>1, StillBacks
<1> QED  BY <1>0, <1>2, <1>3 DEF VerdictInv

-----------------------------------------------------------------------------
(* The runner and the agent. *)

LEMMA RunnerLeaves ==
    ASSUME Runner \/ AgentWrites
    PROVE  UNCHANGED <<kind, paths, lock, req>>
BY DEF Runner, AgentWrites, Start, Prepare, EndPhase, ReadArtifact, ReadLog,
       RunCaseRaises, CloseServer, DumpLog, RetruncateLog, RewriteLog

LEMMA RunnerType ==
    ASSUME TypeOK, Runner \/ AgentWrites
    PROVE  TypeOK'
<1> USE DEF TypeOK
<1>1. CASE Start
  BY <1>1, WrittenType DEF Start, Stages, Truncated
<1>2. CASE Prepare
  BY <1>2 DEF Prepare, Stages
<1>3. CASE EndPhase
  BY <1>3 DEF EndPhase, Stages
<1>4. CASE AgentWrites
  BY <1>4 DEF AgentWrites
<1>5. CASE ReadArtifact
  BY <1>5 DEF ReadArtifact, Stages
<1>6. CASE ReadLog
  BY <1>6 DEF ReadLog, Stages
<1>7. CASE RunCaseRaises
  BY <1>7 DEF RunCaseRaises, Stages
<1>8. CASE CloseServer
  BY <1>8 DEF CloseServer, NotRegistered, Stages
<1>9. CASE DumpLog
  BY <1>9 DEF DumpLog, Stages
<1>10. CASE RetruncateLog
  BY <1>10 DEF RetruncateLog, Stages, Truncated
<1>11. CASE RewriteLog
  BY <1>11, WrittenType DEF RewriteLog, Stages
<1> QED  BY <1>1, <1>2, <1>3, <1>4, <1>5, <1>6, <1>7, <1>8, <1>9, <1>10, <1>11
         DEF Runner

LEMMA RunnerFile ==
    ASSUME TypeOK, LockInv, FileInv, Runner \/ AgentWrites
    PROVE  FileInv'
<1>0. /\ UNCHANGED <<paths, lock, req>> /\ Len(paths) \in Nat /\ text \in Nat
      /\ file \in [size : Nat, valid : BOOLEAN]
  BY RunnerLeaves DEF TypeOK
<1>1. CASE Start
  <2>1. /\ file' = [size |-> 1, valid |-> TRUE] /\ at' \in {"prepare", "aborted"}
        /\ Len(paths) = 0 /\ lock = NoHandler /\ text' = text
    BY <1>1 DEF Start, Written, Truncated, Size, FileInv
  <2> QED  BY <1>0, <2>1 DEF FileInv, Open, Whole, Size
<1>2. CASE Prepare \/ EndPhase \/ ReadArtifact \/ ReadLog \/ RunCaseRaises
           \/ CloseServer \/ AgentWrites
  <2>1. /\ file' = file /\ text' = text /\ at' # "start"
        /\ at' \in Open => at \in Open
    BY <1>2 DEF Prepare, EndPhase, ReadArtifact, ReadLog, RunCaseRaises,
                CloseServer, AgentWrites, Open
  <2> QED  BY <1>0, <2>1 DEF FileInv, Whole
<1>3. CASE DumpLog
  <2>1. /\ file' = file /\ text' = Len(paths) /\ at = "dump" /\ at' = "truncate"
    BY <1>3 DEF DumpLog
  <2> QED  BY <1>0, <2>1 DEF FileInv, Whole, Open
<1>4. CASE RetruncateLog
  <2>1. /\ file' = Truncated /\ text' = text /\ at' = "write"
    BY <1>4 DEF RetruncateLog
  <2> QED  BY <1>0, <2>1 DEF FileInv, Open, Truncated, Size
<1>5. CASE RewriteLog
  <2>1. /\ file' = Written(file, text) /\ text' = 0 /\ at' \in {"done", "aborted"}
    BY <1>5 DEF RewriteLog
  <2>2. file.size <= Size(Len(paths)) /\ text <= Len(paths)
    BY DEF FileInv
  <2>3. file'.size <= Size(Len(paths))
    BY <1>0, <2>1, <2>2 DEF Written, Size
  <2> QED  BY <1>0, <2>1, <2>3 DEF FileInv, Open
<1> QED  BY <1>1, <1>2, <1>3, <1>4, <1>5 DEF Runner

\* Nobody in flight means nobody holds the lock, so the file is whole.
LEMMA QuietIsUnlocked ==
    ASSUME TypeOK, LockInv, Quiet
    PROVE  lock = NoHandler
BY DEF TypeOK, LockInv, Quiet, Writing

LEMMA RunnerClose ==
    ASSUME TypeOK, LockInv, FileInv, CloseInv, Runner \/ AgentWrites
    PROVE  CloseInv'
<1>0. /\ UNCHANGED <<paths, lock, req>> /\ Len(paths) \in Nat /\ text \in Nat
      /\ file \in [size : Nat, valid : BOOLEAN]
  BY RunnerLeaves DEF TypeOK
<1>q. Quiet' <=> Quiet
  BY <1>0 DEF Quiet
<1>1. CASE Start \/ Prepare \/ EndPhase \/ ReadArtifact \/ ReadLog \/ RunCaseRaises
           \/ AgentWrites
  <2>1. at' \notin {"dump", "truncate", "write", "done"}
    BY <1>1 DEF Start, Prepare, EndPhase, ReadArtifact, ReadLog, RunCaseRaises,
                AgentWrites
  <2> QED  BY <2>1 DEF CloseInv
<1>2. CASE CloseServer
  <2>1. /\ server' = "closed" /\ at' = "dump" /\ inFlight' = NotRegistered
    BY <1>2 DEF CloseServer
  <2>2. NotRegistered = {} => Quiet
    BY DEF NotRegistered, Quiet
  <2> QED  BY <1>q, <2>1, <2>2 DEF CloseInv
<1>3. CASE DumpLog
  <2>1. /\ at = "dump" /\ at' = "truncate" /\ text' = Len(paths)
        /\ UNCHANGED <<server, inFlight>>
    BY <1>3 DEF DumpLog
  <2> QED  BY <1>0, <1>q, <2>1 DEF CloseInv
<1>4. CASE RetruncateLog
  <2>1. /\ at = "truncate" /\ at' = "write" /\ text' = text /\ file' = Truncated
        /\ UNCHANGED <<server, inFlight>>
    BY <1>4 DEF RetruncateLog
  <2>2. Truncated' = Truncated
    BY DEF Truncated
  <2> QED  BY <1>0, <1>q, <2>1, <2>2 DEF CloseInv
<1>5. CASE RewriteLog
  <2>1. /\ at = "write" /\ at' \in {"done", "aborted"} /\ file' = Written(file, text)
        /\ UNCHANGED <<server, inFlight>>
    BY <1>5 DEF RewriteLog
  <2>2. inFlight = {} => file' = Whole
    <3> SUFFICES ASSUME inFlight = {} PROVE file' = Whole
      OBVIOUS
    <3>1. file = Truncated /\ text = Len(paths)
      BY <2>1 DEF CloseInv
    <3> QED  BY <1>0, <2>1, <3>1 DEF Written, Truncated, Size, Whole
  <2>3. Whole' = Whole
    BY <1>0 DEF Whole
  <2> QED  BY <1>0, <1>q, <2>1, <2>2, <2>3 DEF CloseInv
<1> QED  BY <1>1, <1>2, <1>3, <1>4, <1>5 DEF Runner

LEMMA StepUndecided ==
    ASSUME Undecided, Next
    PROVE  Undecided'
<1>1. CASE \E r \in Requests : Send(r) \/ Handler(r)
  <2>1. at' = at /\ verdict' = verdict
    BY <1>1 DEF Send, Handler, AppendHit, TruncateLog, WriteLog, Answer
  <2> QED  BY <2>1 DEF Undecided
<1>2. CASE Runner \/ AgentWrites
  BY <1>2 DEF Undecided, Runner, AgentWrites, Start, Prepare, EndPhase, ReadArtifact,
     ReadLog, RunCaseRaises, CloseServer, DumpLog, RetruncateLog, RewriteLog
<1> QED  BY <1>1, <1>2 DEF Next

LEMMA RunnerVerdict ==
    ASSUME TypeOK, Backed, FileInv, Undecided, VerdictInv, Runner \/ AgentWrites
    PROVE  VerdictInv'
<1>0. UNCHANGED <<kind, paths, lock, req>>
  BY RunnerLeaves
<1>1. Derivable' <=> Derivable
  BY <1>0 DEF Derivable, GotResults, HasResults
<1>2. CASE AgentWrites
  <2>1. artifact' = "right" => Derivable
    BY <1>2 DEF AgentWrites
  <2>2. observed' = observed /\ hit' = hit /\ verdict' = verdict
    BY <1>2 DEF AgentWrites
  <2> QED  BY <1>0, <1>1, <2>1, <2>2 DEF VerdictInv
<1>3. CASE ReadArtifact
  <2>1. /\ artifact' = artifact /\ observed' = artifact /\ hit' = hit
        /\ verdict' = verdict
    BY <1>3 DEF ReadArtifact
  <2>2. verdict # "PASS"
    BY <1>3 DEF ReadArtifact, Undecided
  <2> QED  BY <1>0, <1>1, <2>1, <2>2 DEF VerdictInv
<1>4. CASE ReadLog
  <2>1. ASSUME hit'
        PROVE  \E r \in Requests : req[r].page = "measured"
                                    /\ req[r].pc \in Writing \cup Registered
    <3>1. "measured" \in LoggedPages
      BY <1>4, <2>1 DEF ReadLog
    <3>2. PICK i \in 1 .. (file.size - 1) : paths[i] = "measured"
      BY <3>1 DEF LoggedPages
    <3>3. i \in 1 .. Len(paths)
      BY DEF TypeOK, FileInv, Size
    <3> QED  BY <3>2, <3>3 DEF Backed
  <2>2. verdict' = "PASS" => observed = "right" /\ hit'
    BY <1>4 DEF ReadLog, Accepted
  <2>3. UNCHANGED <<artifact, observed>>
    BY <1>4 DEF ReadLog
  <2> QED  BY <1>0, <1>1, <2>1, <2>2, <2>3 DEF VerdictInv
<1>5. CASE RunCaseRaises
  <2>1. UNCHANGED <<artifact, observed, hit>> /\ verdict' # "PASS"
    BY <1>5 DEF RunCaseRaises
  <2> QED  BY <1>0, <1>1, <2>1 DEF VerdictInv
<1>6. CASE Start \/ Prepare \/ EndPhase \/ CloseServer \/ DumpLog \/ RetruncateLog
           \/ RewriteLog
  <2>1. UNCHANGED <<artifact, observed, hit, verdict>>
    BY <1>6 DEF Start, Prepare, EndPhase, CloseServer, DumpLog, RetruncateLog, RewriteLog
  <2> QED  BY <1>0, <1>1, <2>1 DEF VerdictInv
<1> QED  BY <1>2, <1>3, <1>4, <1>5, <1>6 DEF Runner

-----------------------------------------------------------------------------
LEMMA NextInv ==
    ASSUME IInv, [Next]_vars
    PROVE  IInv'
<1> USE DEF IInv
<1>1. ASSUME NEW r \in Requests, Send(r) \/ Handler(r)
      PROVE  IInv'
  BY <1>1, HandlerType, HandlerLock, HandlerBacked, HandlerListed, HandlerFile,
     HandlerClose, HandlerVerdict, StepUndecided DEF Next
<1>2. CASE Runner \/ AgentWrites
  <2>1. LockInv' /\ Backed' /\ Listed'
    BY <1>2, RunnerLeaves, RunnerFrame
  <2> QED  BY <1>2, <2>1, RunnerType, RunnerFile, RunnerClose, RunnerVerdict,
     StepUndecided DEF Next
<1>3. CASE UNCHANGED vars
  <2>1. TypeOK' /\ LockInv' /\ Backed'
    BY <1>3 DEF vars, TypeOK, LockInv, Backed
  <2>2. Settled' = Settled /\ Whole' = Whole
    BY <1>3 DEF vars, Settled, Whole
  <2>3. Listed' /\ FileInv'
    BY <1>3, <2>2 DEF vars, Listed, FileInv
  <2>4. CloseInv'
    BY <1>3, <2>2 DEF vars, CloseInv, Quiet
  <2>5. Derivable' <=> Derivable
    BY <1>3 DEF vars, Derivable, GotResults, HasResults
  <2>6. Undecided' /\ VerdictInv'
    BY <1>3, <2>5 DEF vars, Undecided, VerdictInv
  <2> QED  BY <2>1, <2>3, <2>4, <2>6
<1> QED  BY <1>1, <1>2, <1>3 DEF Next

\* The inductive invariant of a web challenge: what the lock, the list and the
\* file say of each other, wherever handlers, validator and stop() are.
THEOREM ChallengeInvariant == Spec => []IInv
BY InitInv, NextInv, PTL DEF Spec

\* Every reachable state of a challenge is well typed.
THEOREM TypeCorrect == Spec => []TypeOK
<1>1. IInv => TypeOK
  BY DEF IInv
<1> QED  BY <1>1, ChallengeInvariant, PTL

\* A case that passes fetched its measured page, and was told what it wrote.
THEOREM PassesFetched == Spec => []PassMeansFetched
<1>1. IInv => PassMeansFetched
  <2> SUFFICES ASSUME IInv, verdict = "PASS"
               PROVE  /\ \E r \in Requests : req[r].page = "measured"
                                   /\ req[r].pc \notin {"unsent", "accepted"}
                      /\ kind # "raw" => \E r \in Requests : GotResults(r)
    BY DEF PassMeansFetched
  <2>1. hit /\ Derivable
    BY DEF IInv, VerdictInv
  <2>2. PICK r \in Requests : /\ req[r].page = "measured"
                              /\ req[r].pc \in Writing \cup Registered
    BY <2>1 DEF IInv, VerdictInv
  <2>3. req[r].pc \notin {"unsent", "accepted"}
    BY <2>2 DEF Writing, Registered
  <2> QED  BY <2>1, <2>2, <2>3 DEF Derivable
<1> QED  BY <1>1, ChallengeInvariant, PTL

\* A page that was answered is overlooked only while a request rewrites the log.
THEOREM FetchesCount == Spec => FetchCounts
<1>1. ASSUME IInv, [Next]_vars
      PROVE  [ReadLog /\ (\E r \in Requests : req[r].page = "measured"
                               /\ req[r].pc \in {"registered", "answered", "broken"})
               => hit' \/ \E r \in Requests : req[r].pc = "truncated"]_vars
  <2> SUFFICES ASSUME ReadLog, \A r \in Requests : req[r].pc # "truncated",
                      NEW r \in Requests, req[r].page = "measured",
                      req[r].pc \in {"registered", "answered", "broken"}
               PROVE  hit'
    OBVIOUS
  <2>0. /\ Len(paths) \in Nat /\ lock \in Requests \cup {NoHandler} /\ at \in Open
        /\ IF lock = NoHandler THEN file = Whole
           ELSE file = [size |-> Len(paths), valid |-> TRUE] /\ Len(paths) > 0
    <3>0. /\ Len(paths) \in Nat /\ lock \in Requests \cup {NoHandler}
          /\ at = "readLog" /\ at \in Open
      BY <1>1 DEF IInv, TypeOK, ReadLog, Open
    <3>1. lock # NoHandler => lock \in Requests /\ req[lock].pc \in Writing
      BY <1>1, <3>0 DEF IInv, LockInv
    <3>2. lock # NoHandler => req[lock].pc = "appended"
      BY <3>1 DEF Writing
    <3> QED  BY <1>1, <3>0, <3>2 DEF IInv, FileInv, LockInv
  <2>1. PICK i \in 1 .. Settled : paths[i] = "measured"
    BY <1>1 DEF IInv, Listed, Registered
  <2>2. file.valid /\ Settled = file.size - 1
    <3>1. CASE lock = NoHandler
      BY <2>0, <3>1 DEF Settled, Whole, Size
    <3>2. CASE lock # NoHandler
      BY <2>0, <3>2 DEF Settled
    <3> QED  BY <3>1, <3>2
  <2>3. "measured" \in LoggedPages
    BY <2>1, <2>2 DEF LoggedPages
  <2> QED  BY <2>3 DEF ReadLog
<1> QED  BY <1>1, ChallengeInvariant, PTL DEF FetchCounts, Spec

\* The log that is left is whole, unless the server was closed over a request.
THEOREM LogIsKept == Spec => []LogKeepsEveryHit
<1>1. IInv => LogKeepsEveryHit
  BY DEF IInv, CloseInv, Whole, LogKeepsEveryHit
<1> QED  BY <1>1, ChallengeInvariant, PTL

-----------------------------------------------------------------------------
(* The end of a case *)

\* A case that reached its phases, which is one with a verdict, ends closed.
EndsClosed == verdict # "none" /\ at \in {"done", "aborted"} => server = "closed"

LEMMA StepEndsClosed ==
    ASSUME Undecided, CloseInv, EndsClosed, [Next]_vars
    PROVE  EndsClosed'
<1>1. CASE at' = at /\ verdict' = verdict /\ server' = server
  BY <1>1 DEF EndsClosed
<1>2. CASE Start \/ Prepare
  <2>1. verdict' = "none"
    BY <1>2 DEF Start, Prepare, Undecided
  <2> QED  BY <2>1 DEF EndsClosed
<1>3. CASE EndPhase \/ ReadArtifact \/ ReadLog \/ RunCaseRaises \/ CloseServer
           \/ DumpLog \/ RetruncateLog
  <2>1. at' \notin {"done", "aborted"}
    BY <1>3 DEF EndPhase, ReadArtifact, ReadLog, RunCaseRaises, CloseServer,
                DumpLog, RetruncateLog
  <2> QED  BY <2>1 DEF EndsClosed
<1>4. CASE RewriteLog
  <2>1. at = "write" /\ server' = server
    BY <1>4 DEF RewriteLog
  <2>2. server = "closed"
    BY <2>1 DEF CloseInv
  <2> QED  BY <2>1, <2>2 DEF EndsClosed
<1>5. ASSUME NEW r \in Requests, Send(r) \/ Handler(r)
      PROVE  at' = at /\ verdict' = verdict /\ server' = server
  BY <1>5 DEF Send, Handler, AppendHit, TruncateLog, WriteLog, Answer
<1>6. AgentWrites \/ UNCHANGED vars =>
          at' = at /\ verdict' = verdict /\ server' = server
  BY DEF AgentWrites, vars
<1> QED  BY <1>1, <1>2, <1>3, <1>4, <1>5, <1>6 DEF Next, Runner

\* No case that ran a phase ends with its server still listening: not when the
\* adapter fails, nor when another exception leaves the function.
THEOREM NoServerIsLeft == Spec => []EndsClosed
<1>1. Init => EndsClosed
  BY DEF Init, EndsClosed
<1>2. IInv /\ EndsClosed /\ [Next]_vars => EndsClosed'
  BY StepEndsClosed DEF IInv
<1> QED  BY <1>1, <1>2, ChallengeInvariant, PTL DEF Spec

=============================================================================
