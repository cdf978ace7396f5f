----------------------------- MODULE RequestLog -----------------------------
(* What a telemetry proxy promises the runner, without threads, sockets or
   stop(): a log of the requests it received.  A request is recorded in the end,
   unless its client stalls the proxy for ever from some time on. *)
EXTENDS Naturals, Sequences

CONSTANT Requests

VARIABLES
    received,   \* the requests that came in
    logged,     \* the requests recorded, in their order
    stalled     \* those whose client keeps the proxy waiting: an input

Init == received = {} /\ logged = << >>

Receive(r) ==
    /\ r \notin received
    /\ received' = received \cup {r}
    /\ UNCHANGED logged

Record(r) ==
    /\ r \in received
    /\ \A i \in DOMAIN logged : logged[i] # r
    /\ logged' = Append(logged, r)
    /\ UNCHANGED received

Next == \E r \in Requests : Receive(r) \/ Record(r)

Spec == Init /\ [][Next]_<<received, logged>>
RecordUnlessStalled(r) == Record(r) /\ r \notin stalled
FairSpec ==
    Spec /\ \A r \in Requests : SF_<<received, logged>>(RecordUnlessStalled(r))
=============================================================================
