----------------------- MODULE TelemetryEventsProofs -----------------------
(* Proofs about TelemetryEvents: what deduplication keeps, for any lines of
   output and of artifacts, any tools, ids and excerpts. *)
EXTENDS TelemetryEvents, FiniteSetTheorems, TLAPS

-----------------------------------------------------------------------------
(* The events of a line *)

LEMMA TextEventTyped ==
    ASSUME NEW type \in Types, NEW line \in LineType,
           NEW tool \in Tools \cup {NoTool, Unknown, "shell", "edit"},
           NEW id \in Ids \cup {NoId}
    PROVE  /\ TextEvent(type, line, tool, id) \in Seq(Event)
           /\ RanCommand(line) \in Seq(Event)
  BY DEF TextEvent, RanCommand, Event, LineType, Tokens, Types

LEMMA TextEventsTyped ==
    ASSUME NEW line \in LineType
    PROVE  TextEvents(line) \in Seq(Event)
<1>1. /\ line.tool \in Tools \cup {NoTool, Unknown, "shell", "edit"}
      /\ line.id \in Ids \cup {NoId}
      /\ "edit" \in Tools \cup {NoTool, Unknown, "shell", "edit"}
      /\ NoTool \in Tools \cup {NoTool, Unknown, "shell", "edit"}
      /\ NoId \in Ids \cup {NoId}
  BY DEF LineType
<1>2. \A t \in Types : t = t
  OBVIOUS
<1>3. /\ TextEvent("tool_call_start", line, line.tool, NoId) \in Seq(Event)
      /\ TextEvent("tool_call_start", line, line.tool, line.id) \in Seq(Event)
  BY <1>1, TextEventTyped DEF Types
<1>4. /\ TextEvent("tool_call_result", line, "edit", NoId) \in Seq(Event)
      /\ TextEvent("model_response", line, NoTool, NoId) \in Seq(Event)
      /\ RanCommand(line) \in Seq(Event)
  BY <1>1, TextEventTyped DEF Types
<1>. QED
  BY <1>3, <1>4 DEF TextEvents

LEMMA LineEventsTyped ==
    ASSUME NEW line \in LineType
    PROVE  LineEvents(line) \in Seq(Event)
<1>1. CASE line.json \in {"none", "other"}
  BY <1>1, TextEventsTyped DEF LineEvents
<1>2. CASE line.json \notin {"none", "other"}
  <2>1. line.json \in {"recipient", "call", "result", "response"}
    BY <1>2 DEF LineType
  <2>2. JsonType[line.json] \in Types
    BY <2>1 DEF JsonType, Types
  <2>3. /\ line.tool \in Tools \cup {NoTool, Unknown, "shell", "edit"}
        /\ line.id \in Ids \cup {NoId}
        /\ line.text \in Excerpts \cup {"none"}
    BY DEF LineType
  <2>. QED
    BY <1>2, <2>2, <2>3 DEF LineEvents, Event, Tokens
<1>. QED
  BY <1>1, <1>2

LEMMA IsASeq ==
    ASSUME NEW S, NEW n \in Nat, NEW f \in [1 .. n -> S]
    PROVE  f \in Seq(S)
  OBVIOUS

LEMMA ProxyEventsTyped ==
    ASSUME NEW line \in ProxyLineType
    PROVE  ProxyEvents(line) \in Seq(Event)
<1>1. ASSUME NEW type \in Types, NEW tier \in {"A", "B", "C"},
             NEW seen \in Seq(Seen)
      PROVE  Observed(type, tier, seen) \in Seq(Event)
  <2>1. Len(seen) \in Nat
    BY <1>1
  <2>2. ASSUME NEW i \in 1 .. Len(seen)
        PROVE  Observed(type, tier, seen)[i] \in Event
    <3>1. seen[i] \in Seen
      BY <1>1, <2>2
    <3>. QED
      BY <1>1, <2>2, <3>1 DEF Observed, Seen, Event, Tokens
  <2>3. /\ Observed(type, tier, seen) \in [1 .. Len(seen) -> Event]
    BY <2>2 DEF Observed
  <2>. QED
    BY <2>1, <2>3, IsASeq
<1>2. line.calls \in Seq(Seen) /\ line.results \in Seq(Seen)
  BY DEF ProxyLineType
<1>3. line.marked \in Seq(Seen)
  <2>1. line.marked \in Seq([tool : Tools, id : Ids])
    BY DEF ProxyLineType
  <2>2. [tool : Tools, id : Ids] \subseteq Seen
    BY DEF Seen
  <2>3. ASSUME NEW R, line.marked \in Seq(R)
        PROVE  \A i \in 1 .. Len(line.marked) : line.marked[i] \in R
    BY <2>3
  <2>4. \A i \in 1 .. Len(line.marked) : line.marked[i] \in Seen
    BY <2>1, <2>2, <2>3
  <2>. QED
    BY <2>1, <2>4, IsASeq
<1>4. /\ Observed("tool_call_start", "A", line.calls) \in Seq(Event)
      /\ Observed("tool_call_result", "A", line.results) \in Seq(Event)
      /\ Observed("tool_call_start", "C", line.marked) \in Seq(Event)
  BY <1>1, <1>2, <1>3 DEF Types
<1>. QED
  BY <1>4 DEF ProxyEvents

-----------------------------------------------------------------------------
(* Type correctness *)

\* Nothing is kept before all was read; the loop stays within the events.
Stages ==
    /\ step \in {"output", "open", "artifact"} => kept = NoEvents /\ next = 1
    /\ step = "output" => phase = "warmup"
    /\ next <= Len(raw[phase]) + 1

LEMMA InitTyped == Init => TypeOK /\ Stages
<1>. SUFFICES ASSUME Init PROVE TypeOK /\ Stages
  OBVIOUS
<1>1. OutputFiles \in Seq(Phases)
  BY DEF OutputFiles, Phases
<1>2. PICK t \in Transcripts : files = OutputFiles \o t
  BY DEF Init
<1>3. t \in Seq(Phases)
  <2>1. PICK n \in 0 .. MaxTranscripts : t \in [1 .. n -> Phases]
    BY <1>2 DEF Transcripts
  <2>2. n \in Nat
    BY <2>1, EventsAssumption
  <2>. QED
    BY <2>1, <2>2, IsASeq
<1>4. files \in Seq(Phases)
  BY <1>1, <1>2, <1>3
<1>5. NoEvents \in [Phases -> Seq(Event)] /\ NoEvents \in [Phases -> Seq(Nat \ {0})]
  BY DEF NoEvents
<1>6. \A p \in Phases : Len(kept[p]) = 0 /\ Len(raw[p]) = 0
  BY DEF Init, NoEvents
<1>7. phase \in Phases /\ next = 1
  BY DEF Init, Phases
<1>8. Stages
  BY <1>6, <1>7 DEF Init, Stages
<1>9. TypeOK
  <2>1. /\ step \in Steps /\ header \in BOOLEAN /\ broken \in BOOLEAN
        /\ proxy \in ProxyStatuses /\ lines \in Nat
    BY DEF Init, Steps
  <2>2. raw = NoEvents /\ kept = NoEvents
    BY DEF Init
  <2>3. \A p \in Phases : \A j \in 1 .. Len(kept[p]) : kept[p][j] <= Len(raw[p])
    BY <1>6
  <2>. QED
    BY <1>4, <1>5, <1>7, <2>1, <2>2, <2>3 DEF TypeOK
<1>. QED
  BY <1>8, <1>9

\* Reading appends to the events of one phase.
LEMMA GrowStep ==
    ASSUME TypeOK, Stages, NEW p \in Phases, NEW s \in Seq(Event),
           raw' = [raw EXCEPT ![p] = @ \o s], kept = NoEvents,
           UNCHANGED <<phase, next, kept>>
    PROVE  /\ raw' \in [Phases -> Seq(Event)]
           /\ next <= Len(raw[phase])' + 1
           /\ \A q \in Phases : \A j \in 1 .. Len(kept[q]) : kept[q][j] <= Len(raw[q])'
<1>1. raw' \in [Phases -> Seq(Event)]
  BY DEF TypeOK
<1>2. \A q \in Phases : Len(raw[q])' >= Len(raw[q])
  BY DEF TypeOK
<1>3. \A q \in Phases : Len(kept[q]) = 0
  BY DEF NoEvents
<1>4. phase \in Phases /\ next \in Nat
  BY DEF TypeOK
<1>5. Len(raw[phase]) \in Nat /\ Len(raw[phase])' \in Nat
  BY <1>1, <1>4 DEF TypeOK
<1>. QED
  BY <1>1, <1>2, <1>3, <1>4, <1>5 DEF Stages

LEMMA TypeReadLine == TypeOK /\ Stages /\ ReadLine => TypeOK' /\ Stages'
<1>. SUFFICES ASSUME TypeOK, Stages, ReadLine PROVE TypeOK' /\ Stages'
  OBVIOUS
<1>1. PICK line \in Lines :
          /\ raw' = [raw EXCEPT ![Head(files)] = @ \o LineEvents(line)]
          /\ header' = ("header" \in line.marks)
  BY DEF ReadLine
<1>2. LineEvents(line) \in Seq(Event)
  BY <1>1, LineEventsTyped, EventsAssumption
<1>3. Head(files) \in Phases
  BY DEF TypeOK, ReadLine
<1>4. kept = NoEvents /\ next = 1 /\ UNCHANGED <<phase, next, kept>>
  BY DEF ReadLine, Stages
<1>5. /\ raw' \in [Phases -> Seq(Event)]
      /\ next <= Len(raw[phase])' + 1
      /\ \A q \in Phases : \A j \in 1 .. Len(kept[q]) : kept[q][j] <= Len(raw[q])'
  BY <1>1, <1>2, <1>3, <1>4, GrowStep
<1>. QED
  BY <1>1, <1>4, <1>5 DEF TypeOK, Stages, ReadLine

LEMMA TypeReadProxyLine == TypeOK /\ Stages /\ ReadProxyLine => TypeOK' /\ Stages'
<1>. SUFFICES ASSUME TypeOK, Stages, ReadProxyLine PROVE TypeOK' /\ Stages'
  OBVIOUS
<1>1. PICK line \in ProxyLines :
          raw' = [raw EXCEPT ![phase] = @ \o ProxyEvents(line)]
  BY DEF ReadProxyLine
<1>2. ProxyEvents(line) \in Seq(Event)
  BY <1>1, ProxyEventsTyped, EventsAssumption
<1>3. phase \in Phases
  BY DEF TypeOK
<1>4. kept = NoEvents /\ next = 1 /\ UNCHANGED <<phase, next, kept>>
  BY DEF ReadProxyLine, Stages
<1>5. /\ raw' \in [Phases -> Seq(Event)]
      /\ next <= Len(raw[phase])' + 1
      /\ \A q \in Phases : \A j \in 1 .. Len(kept[q]) : kept[q][j] <= Len(raw[q])'
  BY <1>1, <1>2, <1>3, <1>4, GrowStep
<1>. QED
  BY <1>1, <1>4, <1>5 DEF TypeOK, Stages, ReadProxyLine

LEMMA AbsorbTyped ==
    ASSUME TypeOK, NEW p \in Phases, NEW i \in 1 .. Len(raw[p])
    PROVE  /\ Absorb(p, i) \in Seq(Nat \ {0})
           /\ \A j \in 1 .. Len(Absorb(p, i)) : Absorb(p, i)[j] <= Len(raw[p])
<1>1. /\ Len(raw[p]) \in Nat /\ i \in Nat \ {0} /\ i <= Len(raw[p])
      /\ kept[p] \in Seq(Nat \ {0})
      /\ \A j \in 1 .. Len(kept[p]) : kept[p][j] <= Len(raw[p])
  BY DEF TypeOK
<1>2. CASE \E j \in 1 .. Len(kept[p]) : Key(p, kept[p][j]) = Key(p, i)
  <2>1. Absorb(p, i) = [j \in 1 .. Len(kept[p]) |->
            IF Key(p, kept[p][j]) = Key(p, i) /\ Rank(p, i) > Rank(p, kept[p][j])
              THEN i ELSE kept[p][j]]
    BY <1>2 DEF Absorb
  <2>2. Len(kept[p]) \in Nat
    BY <1>1
  <2>3. Absorb(p, i) \in [1 .. Len(kept[p]) -> Nat \ {0}]
    BY <1>1, <2>1
  <2>4. Absorb(p, i) \in Seq(Nat \ {0}) /\ Len(Absorb(p, i)) = Len(kept[p])
    BY <2>2, <2>3, <2>1, IsASeq
  <2>. QED
    BY <1>1, <2>1, <2>4
<1>3. CASE ~\E j \in 1 .. Len(kept[p]) : Key(p, kept[p][j]) = Key(p, i)
  <2>1. Absorb(p, i) = Append(kept[p], i)
    BY <1>3 DEF Absorb
  <2>. QED
    BY <1>1, <2>1
<1>. QED
  BY <1>2, <1>3

LEMMA TypeDeduplicate == TypeOK /\ Stages /\ Deduplicate => TypeOK' /\ Stages'
<1>. SUFFICES ASSUME TypeOK, Stages, Deduplicate PROVE TypeOK' /\ Stages'
  OBVIOUS
<1>1. /\ phase \in Phases /\ next \in Nat \ {0}
      /\ kept \in [Phases -> Seq(Nat \ {0})] /\ Len(raw[phase]) \in Nat
      /\ raw' = raw /\ phase' = phase /\ step' = step /\ step = "deduplicate"
      /\ next' = next + 1 /\ next <= Len(raw[phase])
  BY DEF TypeOK, Deduplicate
<1>2. /\ Absorb(phase, next) \in Seq(Nat \ {0})
      /\ \A j \in 1 .. Len(Absorb(phase, next)) :
            Absorb(phase, next)[j] <= Len(raw[phase])
  BY <1>1, AbsorbTyped
<1>3. /\ kept' \in [Phases -> Seq(Nat \ {0})]
      /\ \A p \in Phases : \A j \in 1 .. Len(kept'[p]) : kept'[p][j] <= Len(raw[p])
  <2>1. CASE Dropped(phase, next)
    BY <2>1, <1>1 DEF Deduplicate, TypeOK
  <2>2. CASE ~Dropped(phase, next)
    <3>1. kept' = [kept EXCEPT ![phase] = Absorb(phase, next)]
      BY <2>2 DEF Deduplicate
    <3>. QED
      BY <3>1, <1>1, <1>2 DEF TypeOK
  <2>. QED
    BY <2>1, <2>2
<1>. QED
  BY <1>1, <1>3 DEF TypeOK, Stages, Deduplicate

\* The steps that neither read nor deduplicate.
LEMMA TypeQuiet ==
    ASSUME TypeOK, Stages,
           \/ NextFile \/ OutputRead \/ OutputUnreadable \/ OpenArtifact
           \/ ArtifactUnreadable \/ ArtifactRead \/ PhaseDone \/ UNCHANGED vars
    PROVE  TypeOK' /\ Stages'
<1>1. \A p \in Phases : Len(raw[p]) \in Nat
  BY DEF TypeOK
<1>2. ASSUME NextFile PROVE TypeOK' /\ Stages'
  <2>1. files' \in Seq(Phases)
    BY <1>2 DEF NextFile, TypeOK
  <2>. QED
    BY <1>2, <2>1 DEF NextFile, TypeOK, Stages
<1>3. ASSUME OutputRead PROVE TypeOK' /\ Stages'
  BY <1>3 DEF OutputRead, AfterOutput, TypeOK, Stages, Steps
<1>4. ASSUME OutputUnreadable PROVE TypeOK' /\ Stages'
  <2>1. /\ NoEvents \in [Phases -> Seq(Event)] /\ kept = NoEvents /\ next = 1
        /\ \A p \in Phases : Len(NoEvents[p]) = 0
    BY <1>4 DEF NoEvents, OutputUnreadable, Stages
  <2>. QED
    BY <1>4, <2>1 DEF OutputUnreadable, AfterOutput, TypeOK, Stages, Steps
<1>5. ASSUME OpenArtifact PROVE TypeOK' /\ Stages'
  BY <1>5 DEF OpenArtifact, TypeOK, Stages, Steps
<1>6. ASSUME ArtifactUnreadable PROVE TypeOK' /\ Stages'
  BY <1>1, <1>6 DEF ArtifactUnreadable, TypeOK, Stages, Steps, Phases,
     ProxyStatuses
<1>7. ASSUME ArtifactRead PROVE TypeOK' /\ Stages'
  BY <1>1, <1>7 DEF ArtifactRead, TypeOK, Stages, Steps, Phases
<1>8. ASSUME PhaseDone PROVE TypeOK' /\ Stages'
  BY <1>1, <1>8 DEF PhaseDone, TypeOK, Stages, Steps, Phases
<1>9. ASSUME UNCHANGED vars PROVE TypeOK' /\ Stages'
  BY <1>9 DEF vars, TypeOK, Stages
<1>. QED
  BY <1>2, <1>3, <1>4, <1>5, <1>6, <1>7, <1>8, <1>9

\* Every reachable state of the extraction is well typed.
THEOREM TypeCorrect == Spec => []TypeOK
<1>1. TypeOK /\ Stages /\ [Next]_vars => TypeOK' /\ Stages'
  BY TypeReadLine, TypeReadProxyLine, TypeDeduplicate, TypeQuiet DEF Next
<1>. QED
  BY InitTyped, <1>1, PTL DEF Spec

-----------------------------------------------------------------------------
(* What the loop of the deduplication keeps *)

\* How many events of a phase it has looked at.
Looked(p) ==
    IF step = "done" \/ (step = "deduplicate" /\ phase = "measured" /\ p = "warmup")
      THEN Len(raw[p])
    ELSE IF step = "deduplicate" /\ phase = p THEN next - 1
    ELSE 0

\* The m-th event is as good as the k-th, and not a later one that is no better.
AsGood(p, m, k) == Rank(p, k) < Rank(p, m) \/ (Rank(p, k) = Rank(p, m) /\ m <= k)
Same(p, k, m) == Key(p, k) = Key(p, m)

\* The list s stands for the first n events of a phase.  What is in it was
\* looked at and is the best of its key so far ...
AreBest(p, s, n) ==
    \A j \in 1 .. Len(s) :
        /\ s[j] \in 1 .. n
        /\ ~Dropped(p, s[j])
        /\ \A k \in 1 .. n :
              ~Dropped(p, k) /\ Same(p, k, s[j]) => AsGood(p, s[j], k)

\* ... and stands for everything that was looked at and not dropped ...
Covers(p, s, n) ==
    \A k \in 1 .. n : ~Dropped(p, k) =>
        \E j \in 1 .. Len(s) : Same(p, k, s[j]) /\ AsGood(p, s[j], k)

\* ... and was first seen, by the f-th event, in the order of the list.
InOrder(p, s, n) ==
    \A j \in 1 .. Len(s) : \E f \in 1 .. n :
        /\ ~Dropped(p, f) /\ FirstSight(p, f) /\ Same(p, f, s[j])
        /\ \A k \in (j + 1) .. Len(s) : \A g \in 1 .. f :
              Dropped(p, g) \/ ~Same(p, g, s[k])

StandsFor(p, s, n) == AreBest(p, s, n) /\ Covers(p, s, n) /\ InOrder(p, s, n)

KeptInv == \A p \in Phases : StandsFor(p, kept[p], Looked(p))

LEMMA RankIsNat ==
    ASSUME TypeOK, NEW p \in Phases, NEW k \in 1 .. Len(raw[p])
    PROVE  /\ Rank(p, k) \in Nat
           /\ TierRank[raw[p][k].tier] \in {2, 3, 4}
           /\ Rank(p, k) > 4 * TierRank[raw[p][k].tier]
           /\ Rank(p, k) < 4 * (TierRank[raw[p][k].tier] + 1)
<1>1. raw[p][k] \in Event
  BY DEF TypeOK
<1>2. /\ raw[p][k].tier \in {"A", "B", "C"}
      /\ raw[p][k].source \in {"proxy", "agent_output", "wrapper"}
  BY <1>1 DEF Event
<1>3. TierRank[raw[p][k].tier] \in {2, 3, 4}
  BY <1>2 DEF TierRank
<1>4. SourceRank[raw[p][k].source] \in {1, 2, 3}
  BY <1>2 DEF SourceRank
<1>5. ASSUME NEW a \in {2, 3, 4}, NEW b \in {1, 2, 3}
      PROVE  4 * a + b \in Nat /\ 4 * a + b > 4 * a /\ 4 * a + b < 4 * (a + 1)
  OBVIOUS
<1>6. Rank(p, k) = 4 * TierRank[raw[p][k].tier] + SourceRank[raw[p][k].source]
  BY DEF Rank
<1>. QED
  BY <1>3, <1>4, <1>5, <1>6

\* An event that was dropped leaves the list as it is.
LEMMA DropStands ==
    ASSUME NEW p \in Phases, NEW n \in Nat, NEW s \in Seq(Nat \ {0}),
           StandsFor(p, s, n), Dropped(p, n + 1)
    PROVE  StandsFor(p, s, n + 1)
<1>1. Len(s) \in Nat
  OBVIOUS
<1>2. AreBest(p, s, n + 1)
  BY <1>1 DEF StandsFor, AreBest
<1>3. Covers(p, s, n + 1)
  BY <1>1 DEF StandsFor, Covers
<1>4. InOrder(p, s, n + 1)
  BY <1>1 DEF StandsFor, InOrder
<1>. QED
  BY <1>2, <1>3, <1>4 DEF StandsFor

\* An event of a new key is appended: nothing before it has its key.
LEMMA AppendStands ==
    ASSUME TypeOK, NEW p \in Phases, NEW n \in Nat, n + 1 <= Len(raw[p]),
           NEW s \in Seq(Nat \ {0}), StandsFor(p, s, n), ~Dropped(p, n + 1),
           \A j \in 1 .. Len(s) : ~Same(p, s[j], n + 1)
    PROVE  StandsFor(p, Append(s, n + 1), n + 1)
<1>. DEFINE i == n + 1
            t == Append(s, i)
<1>1. /\ Len(s) \in Nat /\ Len(t) = Len(s) + 1 /\ t[Len(t)] = i
      /\ \A j \in 1 .. Len(s) : t[j] = s[j]
  OBVIOUS
<1>2. i \in 1 .. Len(raw[p]) /\ Rank(p, i) \in Nat
  <2>1. Len(raw[p]) \in Nat
    BY DEF TypeOK
  <2>2. i \in 1 .. Len(raw[p])
    BY <2>1
  <2>. QED
    BY <2>2, RankIsNat
<1>3. \A k \in 1 .. n : Dropped(p, k) \/ ~Same(p, k, i)
  BY <1>1 DEF StandsFor, Covers, Same
<1>4. AreBest(p, t, i)
  <2>. SUFFICES ASSUME NEW j \in 1 .. Len(t)
                PROVE  /\ t[j] \in 1 .. i
                       /\ ~Dropped(p, t[j])
                       /\ \A k \in 1 .. i : ~Dropped(p, k) /\ Same(p, k, t[j])
                            => AsGood(p, t[j], k)
    BY DEF AreBest
  <2>1. CASE j = Len(t)
    BY <1>1, <1>2, <1>3, <2>1 DEF AsGood
  <2>2. CASE j \in 1 .. Len(s)
    BY <1>1, <2>2 DEF StandsFor, AreBest, Same
  <2>. QED
    BY <1>1, <2>1, <2>2
<1>5. Covers(p, t, i)
  <2>. SUFFICES ASSUME NEW k \in 1 .. i, ~Dropped(p, k)
                PROVE  \E j \in 1 .. Len(t) : Same(p, k, t[j]) /\ AsGood(p, t[j], k)
    BY DEF Covers
  <2>1. CASE k = i
    BY <1>1, <1>2, <2>1 DEF AsGood, Same
  <2>2. CASE k \in 1 .. n
    <3>1. PICK j \in 1 .. Len(s) : Same(p, k, s[j]) /\ AsGood(p, s[j], k)
      BY <2>2 DEF StandsFor, Covers
    <3>. QED
      BY <1>1, <3>1
  <2>. QED
    BY <2>1, <2>2, SMTT(40)
<1>6. InOrder(p, t, i)
  <2>. SUFFICES ASSUME NEW j \in 1 .. Len(t)
                PROVE  \E f \in 1 .. i :
                          /\ ~Dropped(p, f) /\ FirstSight(p, f) /\ Same(p, f, t[j])
                          /\ \A k \in (j + 1) .. Len(t) : \A g \in 1 .. f :
                                Dropped(p, g) \/ ~Same(p, g, t[k])
    BY DEF InOrder
  <2>1. CASE j = Len(t)
    <3>1. FirstSight(p, i)
      BY <1>3 DEF FirstSight, Same
    <3>. QED
      BY <1>1, <2>1, <3>1 DEF Same
  <2>2. CASE j \in 1 .. Len(s)
    <3>1. PICK f \in 1 .. n :
              /\ ~Dropped(p, f) /\ FirstSight(p, f) /\ Same(p, f, s[j])
              /\ \A k \in (j + 1) .. Len(s) : \A g \in 1 .. f :
                    Dropped(p, g) \/ ~Same(p, g, s[k])
      BY <2>2 DEF StandsFor, InOrder
    <3>2. \A k \in (j + 1) .. Len(t) : \A g \in 1 .. f :
              Dropped(p, g) \/ ~Same(p, g, t[k])
      <4>. TAKE k \in (j + 1) .. Len(t)
      <4>. TAKE g \in 1 .. f
      <4>1. CASE k = Len(t)
        BY <1>1, <1>3, <4>1
      <4>2. CASE k \in (j + 1) .. Len(s)
        BY <1>1, <2>2, <3>1, <4>2
      <4>. QED
        BY <1>1, <2>2, <4>1, <4>2, SMTT(40)
    <3>3. f \in 1 .. i /\ t[j] = s[j]
      BY <1>1, <2>2
    <3>. QED
      BY <3>1, <3>2, <3>3
  <2>. QED
    BY <1>1, <2>1, <2>2, SMTT(40)
<1>. QED
  BY <1>4, <1>5, <1>6 DEF StandsFor

\* An event whose key is there takes the place of the worse ones.
LEMMA ReplaceStands ==
    ASSUME TypeOK, NEW p \in Phases, NEW n \in Nat, n + 1 <= Len(raw[p]),
           NEW s \in Seq(Nat \ {0}), StandsFor(p, s, n), ~Dropped(p, n + 1),
           \E j \in 1 .. Len(s) : Same(p, s[j], n + 1),
           NEW t \in Seq(Nat \ {0}), Len(t) = Len(s),
           \A j \in 1 .. Len(s) :
               t[j] = IF Same(p, s[j], n + 1) /\ Rank(p, n + 1) > Rank(p, s[j])
                        THEN n + 1 ELSE s[j]
    PROVE  StandsFor(p, t, n + 1)
<1>. DEFINE i == n + 1
<1>1. i \in Nat /\ Len(s) \in Nat /\ \A k \in 1 .. i : Rank(p, k) \in Nat
  <2>1. Len(raw[p]) \in Nat
    BY DEF TypeOK
  <2>2. \A k \in 1 .. i : k \in 1 .. Len(raw[p])
    BY <2>1
  <2>. QED
    BY <2>2, RankIsNat
<1>2. \A j \in 1 .. Len(s) : s[j] \in 1 .. n /\ ~Dropped(p, s[j])
  BY DEF StandsFor, AreBest
<1>3. \A j \in 1 .. Len(s) : Same(p, t[j], s[j])
  BY DEF Same
<1>4. AreBest(p, t, i)
  <2>. SUFFICES ASSUME NEW j \in 1 .. Len(s)
                PROVE  /\ t[j] \in 1 .. i
                       /\ ~Dropped(p, t[j])
                       /\ \A k \in 1 .. i : ~Dropped(p, k) /\ Same(p, k, t[j])
                            => AsGood(p, t[j], k)
    BY DEF AreBest
  <2>1. \A k \in 1 .. n : ~Dropped(p, k) /\ Same(p, k, s[j]) => AsGood(p, s[j], k)
    BY DEF StandsFor, AreBest
  <2>2. s[j] \in 1 .. n /\ ~Dropped(p, s[j]) /\ Rank(p, s[j]) \in Nat
    BY <1>1, <1>2
  <2>3. CASE Same(p, s[j], i) /\ Rank(p, i) > Rank(p, s[j])
    <3>1. t[j] = i
      BY <2>3
    <3>2. ASSUME NEW k \in 1 .. n, ~Dropped(p, k), Same(p, k, i)
          PROVE  AsGood(p, i, k)
      <4>1. AsGood(p, s[j], k)
        BY <2>1, <2>3, <3>2 DEF Same
      <4>2. Rank(p, k) \in Nat /\ Rank(p, i) \in Nat
        BY <1>1
      <4>. QED
        BY <2>2, <2>3, <4>1, <4>2 DEF AsGood
    <3>3. AsGood(p, i, i)
      BY <1>1 DEF AsGood
    <3>. QED
      BY <1>1, <3>1, <3>2, <3>3
  <2>4. CASE ~(Same(p, s[j], i) /\ Rank(p, i) > Rank(p, s[j]))
    <3>1. t[j] = s[j]
      BY <2>4
    <3>2. Same(p, i, s[j]) => AsGood(p, s[j], i)
      BY <1>1, <2>2, <2>4 DEF AsGood, Same
    <3>. QED
      BY <2>1, <2>2, <3>1, <3>2
  <2>. QED
    BY <2>3, <2>4
<1>5. Covers(p, t, i)
  <2>. SUFFICES ASSUME NEW k \in 1 .. i, ~Dropped(p, k)
                PROVE  \E j \in 1 .. Len(s) : Same(p, k, t[j]) /\ AsGood(p, t[j], k)
    BY DEF Covers
  <2>1. CASE k = i
    <3>1. PICK j \in 1 .. Len(s) : Same(p, s[j], i)
      OBVIOUS
    <3>2. Same(p, i, t[j])
      BY <1>3, <3>1 DEF Same
    <3>. QED
      BY <1>4, <2>1, <3>2 DEF AreBest
  <2>2. CASE k \in 1 .. n
    <3>1. PICK j \in 1 .. Len(s) : Same(p, k, s[j]) /\ AsGood(p, s[j], k)
      BY <2>2 DEF StandsFor, Covers
    <3>2. Same(p, k, t[j])
      BY <1>3, <3>1 DEF Same
    <3>. QED
      BY <1>4, <3>2 DEF AreBest
  <2>. QED
    BY <2>1, <2>2
<1>6. InOrder(p, t, i)
  <2>. SUFFICES ASSUME NEW j \in 1 .. Len(s)
                PROVE  \E f \in 1 .. i :
                          /\ ~Dropped(p, f) /\ FirstSight(p, f) /\ Same(p, f, t[j])
                          /\ \A k \in (j + 1) .. Len(s) : \A g \in 1 .. f :
                                Dropped(p, g) \/ ~Same(p, g, t[k])
    BY DEF InOrder
  <2>1. PICK f \in 1 .. n :
            /\ ~Dropped(p, f) /\ FirstSight(p, f) /\ Same(p, f, s[j])
            /\ \A k \in (j + 1) .. Len(s) : \A g \in 1 .. f :
                  Dropped(p, g) \/ ~Same(p, g, s[k])
    BY DEF StandsFor, InOrder
  <2>2. \A k \in (j + 1) .. Len(s) : \A g : Same(p, g, t[k]) => Same(p, g, s[k])
    BY <1>3 DEF Same
  <2>3. f \in 1 .. i /\ Same(p, f, t[j])
    BY <1>3, <2>1 DEF Same
  <2>. QED
    BY <2>1, <2>2, <2>3
<1>. QED
  BY <1>4, <1>5, <1>6 DEF StandsFor

LEMMA AbsorbStands ==
    ASSUME TypeOK, NEW p \in Phases, NEW n \in Nat, n + 1 <= Len(raw[p]),
           StandsFor(p, kept[p], n), ~Dropped(p, n + 1)
    PROVE  StandsFor(p, Absorb(p, n + 1), n + 1)
<1>1. kept[p] \in Seq(Nat \ {0}) /\ Len(raw[p]) \in Nat
  BY DEF TypeOK
<1>2. n + 1 \in 1 .. Len(raw[p])
  BY <1>1
<1>3. CASE \E j \in 1 .. Len(kept[p]) : Same(p, kept[p][j], n + 1)
  <2>1. Absorb(p, n + 1) = [j \in 1 .. Len(kept[p]) |->
            IF Same(p, kept[p][j], n + 1) /\ Rank(p, n + 1) > Rank(p, kept[p][j])
              THEN n + 1 ELSE kept[p][j]]
    BY <1>3 DEF Absorb, Same
  <2>2. Absorb(p, n + 1) \in Seq(Nat \ {0})
    BY <1>2, AbsorbTyped
  <2>3. Len(Absorb(p, n + 1)) = Len(kept[p])
    BY <1>1, <2>1
  <2>4. \A j \in 1 .. Len(kept[p]) : Absorb(p, n + 1)[j] =
            IF Same(p, kept[p][j], n + 1) /\ Rank(p, n + 1) > Rank(p, kept[p][j])
              THEN n + 1 ELSE kept[p][j]
    BY <2>1
  <2>. QED
    BY <1>1, <1>3, <2>2, <2>3, <2>4, ReplaceStands
<1>4. CASE ~\E j \in 1 .. Len(kept[p]) : Same(p, kept[p][j], n + 1)
  <2>1. Absorb(p, n + 1) = Append(kept[p], n + 1)
    BY <1>4 DEF Absorb, Same
  <2>. QED
    BY <1>1, <1>4, <2>1, AppendStands
<1>. QED
  BY <1>3, <1>4

-----------------------------------------------------------------------------
(* The invariant of the loop *)

Nothing == kept = NoEvents /\ \A p \in Phases : Looked(p) = 0

LEMMA NothingStands == Nothing => KeptInv
<1>. SUFFICES ASSUME Nothing PROVE KeptInv
  OBVIOUS
<1>1. \A p \in Phases : Len(kept[p]) = 0
  BY DEF Nothing, NoEvents
<1>. QED
  BY <1>1 DEF Nothing, KeptInv, StandsFor, AreBest, Covers, InOrder

\* What a list stands for is a matter of the events that were read.
LEMMA Transfer ==
    ASSUME raw' = raw, \A p \in Phases : StandsFor(p, kept'[p], Looked(p)')
    PROVE  KeptInv'
<1>1. ASSUME NEW p \in Phases
      PROVE  AreBest(p, kept[p], Looked(p))'
  <2>1. AreBest(p, kept'[p], Looked(p)')
    BY DEF StandsFor
  <2>. QED
    BY <2>1, SMTT(40) DEF AreBest, Dropped, Structured, Same, AsGood, Key, Rank
<1>2. ASSUME NEW p \in Phases
      PROVE  Covers(p, kept[p], Looked(p))'
  <2>1. Covers(p, kept'[p], Looked(p)')
    BY DEF StandsFor
  <2>. QED
    BY <2>1, SMTT(40) DEF Covers, Dropped, Structured, Same, AsGood, Key, Rank
<1>3. ASSUME NEW p \in Phases
      PROVE  InOrder(p, kept[p], Looked(p))'
  <2>1. InOrder(p, kept'[p], Looked(p)')
    BY DEF StandsFor
  <2>2. \A f : Dropped(p, f)' <=> Dropped(p, f)
    BY DEF Dropped, Structured
  <2>3. \A f, m : Same(p, f, m)' <=> Same(p, f, m)
    BY DEF Same, Key
  <2>4. \A f : FirstSight(p, f)' <=> FirstSight(p, f)
    BY DEF FirstSight, Dropped, Structured, Key
  <2>. QED
    BY <2>1, <2>2, <2>3, <2>4 DEF InOrder
<1>. QED
  BY <1>1, <1>2, <1>3 DEF KeptInv, StandsFor

LEMMA StandsDeduplicate == TypeOK /\ Stages /\ KeptInv /\ Deduplicate => KeptInv'
<1>. SUFFICES ASSUME TypeOK, Stages, KeptInv, Deduplicate PROVE KeptInv'
  OBVIOUS
<1>. DEFINE n == next - 1
<1>1. /\ phase \in Phases /\ n \in Nat /\ next = n + 1 /\ n + 1 <= Len(raw[phase])
      /\ raw' = raw /\ step = "deduplicate" /\ Looked(phase) = n
      /\ kept[phase] \in Seq(Nat \ {0})
  BY DEF TypeOK, Deduplicate, Looked, Phases
<1>2. \A p \in Phases : p = phase => Looked(p)' = n + 1
  BY <1>1 DEF Deduplicate, Looked, Phases
<1>3. \A p \in Phases : p # phase => Looked(p)' = Looked(p)
  BY <1>1 DEF Deduplicate, Looked, Phases
<1>4. StandsFor(phase, kept[phase], n)
  BY <1>1 DEF KeptInv
<1>5. CASE Dropped(phase, next)
  <2>1. kept' = kept
    BY <1>5 DEF Deduplicate
  <2>2. StandsFor(phase, kept[phase], n + 1)
    BY <1>1, <1>4, <1>5, DropStands
  <2>3. \A p \in Phases : StandsFor(p, kept'[p], Looked(p)')
    BY <1>2, <1>3, <2>1, <2>2 DEF KeptInv
  <2>. QED
    BY <1>1, <2>3, Transfer
<1>6. CASE ~Dropped(phase, next)
  <2>1. kept' = [kept EXCEPT ![phase] = Absorb(phase, n + 1)]
    BY <1>1, <1>6 DEF Deduplicate
  <2>2. StandsFor(phase, Absorb(phase, n + 1), n + 1)
    BY <1>1, <1>4, <1>6, AbsorbStands
  <2>3. \A p \in Phases : StandsFor(p, kept'[p], Looked(p)')
    <3>1. kept'[phase] = Absorb(phase, n + 1)
      BY <1>1, <2>1 DEF TypeOK
    <3>2. \A p \in Phases : p # phase => kept'[p] = kept[p]
      BY <2>1 DEF TypeOK
    <3>. QED
      BY <1>2, <1>3, <2>2, <3>1, <3>2 DEF KeptInv
  <2>. QED
    BY <1>1, <2>3, Transfer
<1>. QED
  BY <1>5, <1>6

LEMMA KeptStep == TypeOK /\ Stages /\ KeptInv /\ [Next]_vars => KeptInv'
<1>. SUFFICES ASSUME TypeOK, Stages, KeptInv, [Next]_vars PROVE KeptInv'
  OBVIOUS
<1>1. ASSUME ReadLine \/ NextFile \/ OpenArtifact \/ ReadProxyLine
      PROVE  kept' = NoEvents /\ \A p \in Phases : Looked(p)' = 0
  BY <1>1 DEF Stages, ReadLine, NextFile, OpenArtifact, ReadProxyLine, Looked
<1>2. ASSUME OutputRead \/ OutputUnreadable
      PROVE  kept' = NoEvents /\ \A p \in Phases : Looked(p)' = 0
  BY <1>2 DEF Stages, OutputRead, OutputUnreadable, AfterOutput, Looked
<1>3. ASSUME ArtifactUnreadable \/ ArtifactRead
      PROVE  kept' = NoEvents /\ \A p \in Phases : Looked(p)' = 0
  BY <1>3 DEF Stages, ArtifactUnreadable, ArtifactRead, Looked
<1>4. ASSUME PhaseDone
      PROVE  raw' = raw /\ kept' = kept /\ \A p \in Phases : Looked(p)' = Looked(p)
  <2>1. next - 1 = Len(raw[phase]) /\ phase \in Phases /\ step = "deduplicate"
    BY <1>4 DEF PhaseDone, Stages, TypeOK
  <2>. QED
    BY <1>4, <2>1 DEF PhaseDone, Looked, Phases
<1>5. ASSUME UNCHANGED vars
      PROVE  raw' = raw /\ kept' = kept /\ \A p \in Phases : Looked(p)' = Looked(p)
  BY <1>5 DEF vars, Looked
<1>6. ASSUME kept' = NoEvents, \A p \in Phases : Looked(p)' = 0
      PROVE  KeptInv'
  <2>1. Nothing'
    BY <1>6 DEF Nothing
  <2>2. Nothing' => KeptInv'
    BY NothingStands, PTL
  <2>. QED
    BY <2>1, <2>2
<1>7. ASSUME raw' = raw, kept' = kept, \A p \in Phases : Looked(p)' = Looked(p)
      PROVE  KeptInv'
  BY <1>7, Transfer DEF KeptInv
<1>. QED
  BY <1>1, <1>2, <1>3, <1>4, <1>5, <1>6, <1>7, StandsDeduplicate DEF Next

-----------------------------------------------------------------------------
(* What follows for the events of a case *)

EventsInv == TypeOK /\ Stages /\ KeptInv

\* At every round of the deduplication of either phase, what is kept stands for
\* what the loop has looked at.
THEOREM EventsInvariant == Spec => []EventsInv
<1>1. Init => EventsInv
  <2>. SUFFICES ASSUME Init PROVE EventsInv
    OBVIOUS
  <2>1. Nothing
    BY DEF Init, Nothing, Looked
  <2>. QED
    BY <2>1, InitTyped, NothingStands DEF EventsInv
<1>2. EventsInv /\ [Next]_vars => EventsInv'
  BY TypeReadLine, TypeReadProxyLine, TypeDeduplicate, TypeQuiet, KeptStep
  DEF Next, EventsInv
<1>. QED
  BY <1>1, <1>2, PTL DEF Spec

LEMMA DoneStands ==
    ASSUME EventsInv, step = "done", NEW p \in Phases
    PROVE  StandsFor(p, kept[p], Len(raw[p]))
  BY DEF EventsInv, KeptInv, Looked

LEMMA BestAreKept == EventsInv => BestEvidenceIsKept
<1>. SUFFICES ASSUME EventsInv, step = "done", NEW p \in Phases,
                     NEW i \in 1 .. Len(raw[p])
              PROVE  Best(p, i) <=> \E j \in 1 .. Len(kept[p]) : kept[p][j] = i
  BY DEF BestEvidenceIsKept
<1>1. AreBest(p, kept[p], Len(raw[p])) /\ Covers(p, kept[p], Len(raw[p]))
  BY DoneStands DEF StandsFor
<1>2. ASSUME Best(p, i) PROVE \E j \in 1 .. Len(kept[p]) : kept[p][j] = i
  <2>1. PICK j \in 1 .. Len(kept[p]) :
            Same(p, i, kept[p][j]) /\ AsGood(p, kept[p][j], i)
    BY <1>1, <1>2 DEF Covers, Best
  <2>. DEFINE k == kept[p][j]
  <2>2. k \in 1 .. Len(raw[p]) /\ ~Dropped(p, k)
    BY <1>1, <2>1 DEF AreBest
  <2>3. Rank(p, k) < Rank(p, i) \/ (Rank(p, k) = Rank(p, i) /\ i <= k)
    BY <1>2, <2>1, <2>2 DEF Best, Same
  <2>4. Rank(p, i) \in Nat /\ Rank(p, k) \in Nat
    BY <2>2, RankIsNat DEF EventsInv
  <2>5. Len(raw[p]) \in Nat
    BY DEF EventsInv, TypeOK
  <2>6. k = i
    BY <2>1, <2>2, <2>3, <2>4, <2>5 DEF AsGood
  <2>. QED
    BY <2>6
<1>3. ASSUME NEW j \in 1 .. Len(kept[p]), kept[p][j] = i PROVE Best(p, i)
  BY <1>1, <1>3 DEF AreBest, Best, AsGood, Same
<1>. QED
  BY <1>2, <1>3

\* Whatever the sources tell and in whatever order, what is kept are exactly the
\* first and best events of each key (_deduplicate_events).
THEOREM BestEvidence == Spec => []BestEvidenceIsKept
  BY EventsInvariant, BestAreKept, PTL

LEMMA DoneInOrder == EventsInv => InOrderOfSight
<1>. SUFFICES ASSUME EventsInv, step = "done", NEW p \in Phases,
                     NEW j \in 1 .. Len(kept[p]), NEW k \in 1 .. Len(kept[p]), j < k
              PROVE  \E f \in 1 .. Len(raw[p]) :
                        /\ ~Dropped(p, f) /\ FirstSight(p, f)
                        /\ Key(p, f) = Key(p, kept[p][j])
                        /\ \A g \in 1 .. f :
                              Dropped(p, g) \/ Key(p, g) # Key(p, kept[p][k])
  BY DEF InOrderOfSight
<1>1. InOrder(p, kept[p], Len(raw[p]))
  BY DoneStands DEF StandsFor
<1>2. k \in (j + 1) .. Len(kept[p])
  BY DEF EventsInv, TypeOK
<1>. QED
  BY <1>1, <1>2 DEF InOrder, Same

\* The events of a phase are in the order of first sight, also where better
\* evidence replaced what was seen first.
THEOREM OrderOfSight == Spec => []InOrderOfSight
  BY EventsInvariant, DoneInOrder, PTL

\* What is dropped gives way to an event that is not: a structured result.
LEMMA DroppedForBetter ==
    ASSUME TypeOK, NEW p \in Phases, NEW i \in 1 .. Len(raw[p]), Dropped(p, i)
    PROVE  /\ TierRank[raw[p][i].tier] = 2
           /\ \E k \in 1 .. Len(raw[p]) :
                 /\ ~Dropped(p, k)
                 /\ raw[p][k].type = "tool_call_result"
                 /\ TierRank[raw[p][k].tier] >= 3
<1>1. \A k \in 1 .. Len(raw[p]) : raw[p][k] \in Event
  BY DEF TypeOK
<1>2. raw[p][i].tier = "C"
  BY <1>1 DEF Dropped, Event
<1>3. PICK k \in 1 .. Len(raw[p]) : /\ raw[p][k].type = "tool_call_result"
                                    /\ raw[p][k].tier \in {"A", "B"}
  BY DEF Dropped, Structured
<1>4. ~Dropped(p, k)
  BY <1>1, <1>3 DEF Dropped, Event
<1>5. TierRank[raw[p][k].tier] >= 3
  BY <1>3 DEF TierRank
<1>. QED
  BY <1>2, <1>3, <1>4, <1>5 DEF TierRank

LEMMA DoneToolUse == EventsInv => ToolUseIsNotLost
<1>. SUFFICES ASSUME EventsInv, step = "done"
              PROVE  ToolUse <=> \E i \in 1 .. Len(raw["measured"]) :
                                    IsToolEvent(raw["measured"][i])
  BY DEF ToolUseIsNotLost
<1>. DEFINE p == "measured"
<1>1. p \in Phases /\ TypeOK
  BY DEF Phases, EventsInv
<1>2. AreBest(p, kept[p], Len(raw[p])) /\ Covers(p, kept[p], Len(raw[p]))
  BY <1>1, DoneStands DEF StandsFor
<1>3. ASSUME ToolUse PROVE \E i \in 1 .. Len(raw[p]) : IsToolEvent(raw[p][i])
  BY <1>2, <1>3 DEF ToolUse, AreBest
<1>4. ASSUME NEW k \in 1 .. Len(raw[p]), ~Dropped(p, k), IsToolEvent(raw[p][k])
      PROVE  ToolUse
  <2>1. PICK j \in 1 .. Len(kept[p]) : Same(p, k, kept[p][j])
    BY <1>2, <1>4 DEF Covers
  <2>2. raw[p][k].type = raw[p][kept[p][j]].type
    BY <2>1 DEF Same, Key
  <2>. QED
    BY <1>4, <2>2 DEF ToolUse, IsToolEvent
<1>5. ASSUME NEW i \in 1 .. Len(raw[p]), IsToolEvent(raw[p][i]) PROVE ToolUse
  <2>1. CASE ~Dropped(p, i)
    BY <1>4, <1>5, <2>1
  <2>2. CASE Dropped(p, i)
    <3>1. PICK k \in 1 .. Len(raw[p]) :
              ~Dropped(p, k) /\ raw[p][k].type = "tool_call_result"
      BY <1>1, <2>2, DroppedForBetter
    <3>. QED
      BY <1>4, <3>1 DEF IsToolEvent
  <2>. QED
    BY <2>1, <2>2
<1>. QED
  BY <1>3, <1>5

\* The tool use that the verdict of a case is derived from is the tool use that
\* was read, for any output: no rule of dropping or precedence hides it.
THEOREM ToolUseIsKept == Spec => []ToolUseIsNotLost
  BY EventsInvariant, DoneToolUse, PTL

LEMMA DoneTier == EventsInv => TierIsNotLowered
<1>. SUFFICES ASSUME EventsInv, step = "done", NEW n \in 1 .. 4
              PROVE  ReachesTier(n) <=>
                        \E p \in Phases : \E i \in 1 .. Len(raw[p]) :
                            TierRank[raw[p][i].tier] >= n
  BY DEF TierIsNotLowered
<1>1. \A p \in Phases : AreBest(p, kept[p], Len(raw[p]))
                          /\ Covers(p, kept[p], Len(raw[p]))
  BY DoneStands DEF StandsFor
<1>2. ASSUME ReachesTier(n)
      PROVE  \E p \in Phases : \E i \in 1 .. Len(raw[p]) :
                 TierRank[raw[p][i].tier] >= n
  BY <1>1, <1>2 DEF ReachesTier, AreBest
<1>3. ASSUME NEW p \in Phases, NEW k \in 1 .. Len(raw[p]), ~Dropped(p, k),
             TierRank[raw[p][k].tier] >= n
      PROVE  ReachesTier(n)
  <2>1. PICK j \in 1 .. Len(kept[p]) : AsGood(p, kept[p][j], k)
    BY <1>1, <1>3 DEF Covers
  <2>. DEFINE m == kept[p][j]
  <2>2. m \in 1 .. Len(raw[p])
    BY <1>1 DEF AreBest
  <2>3. /\ Rank(p, k) \in Nat /\ Rank(p, m) \in Nat
        /\ TierRank[raw[p][k].tier] \in {2, 3, 4}
        /\ TierRank[raw[p][m].tier] \in {2, 3, 4}
        /\ Rank(p, k) > 4 * TierRank[raw[p][k].tier]
        /\ Rank(p, m) < 4 * (TierRank[raw[p][m].tier] + 1)
    BY <2>2, RankIsNat DEF EventsInv
  <2>4. Rank(p, k) <= Rank(p, m)
    BY <2>1, <2>3 DEF AsGood
  <2>5. ASSUME NEW a \in {2, 3, 4}, NEW b \in {2, 3, 4}, NEW r \in Nat, NEW s \in Nat,
               r > 4 * a, s < 4 * (b + 1), r <= s, a >= n
        PROVE  b >= n
    BY <2>5
  <2>6. TierRank[raw[p][m].tier] >= n
    BY <1>3, <2>3, <2>4, <2>5
  <2>. QED
    BY <2>6 DEF ReachesTier
<1>4. ASSUME NEW p \in Phases, NEW i \in 1 .. Len(raw[p]),
             TierRank[raw[p][i].tier] >= n
      PROVE  ReachesTier(n)
  <2>1. CASE ~Dropped(p, i)
    BY <1>3, <1>4, <2>1
  <2>2. CASE Dropped(p, i)
    <3>1. /\ TierRank[raw[p][i].tier] = 2
          /\ \E k \in 1 .. Len(raw[p]) :
                ~Dropped(p, k) /\ TierRank[raw[p][k].tier] >= 3
      BY <2>2, DroppedForBetter DEF EventsInv
    <3>2. PICK k \in 1 .. Len(raw[p]) :
              ~Dropped(p, k) /\ TierRank[raw[p][k].tier] >= 3
      BY <3>1
    <3>3. TierRank[raw[p][k].tier] \in {2, 3, 4}
      BY RankIsNat DEF EventsInv
    <3>4. TierRank[raw[p][k].tier] >= n
      BY <1>4, <3>1, <3>2, <3>3
    <3>. QED
      BY <1>3, <3>2, <3>4
  <2>. QED
    BY <2>1, <2>2
<1>. QED
  BY <1>2, <1>4

\* telemetry_source_tier is the tier of the best evidence that was read.
THEOREM TierIsKept == Spec => []TierIsNotLowered
  BY EventsInvariant, DoneTier, PTL

-----------------------------------------------------------------------------
(* A loop is reported of three calls, and three calls are reported *)

\* Where the x-th of all events was kept, and what it is told apart by.
At(x) == IF x <= Len(kept["warmup"]) THEN "warmup" ELSE "measured"
Pos(x) == IF x <= Len(kept["warmup"]) THEN x ELSE x - Len(kept["warmup"])
IdentityOf(x) == <<At(x), IF TotalEvents[x].id # NoId
                            THEN <<"id", TotalEvents[x].id>> ELSE TotalEvents[x].token>>

\* The events of one phase followed by those of the other.
LEMMA Joined ==
    ASSUME NEW S, NEW w \in Seq(S), NEW v \in Seq(S)
    PROVE  /\ Len(w \o v) = Len(w) + Len(v) /\ Len(w) \in Nat /\ Len(v) \in Nat
           /\ \A j \in 1 .. (Len(w) + Len(v)) :
                  (w \o v)[j] = IF j <= Len(w) THEN w[j] ELSE v[j - Len(w)]
  OBVIOUS

\* A place behind the first m of m + n is one of the last n.
LEMMA Beyond ==
    ASSUME NEW m \in Nat, NEW n \in Nat, NEW x \in 1 .. (m + n), ~(x <= m)
    PROVE  x - m \in 1 .. n
  OBVIOUS

\* Each of all events is one that was kept, of its phase, and is well typed.
LEMMA Placed ==
    ASSUME EventsInv, step = "done", NEW x \in 1 .. Len(TotalEvents)
    PROVE  /\ At(x) \in Phases
           /\ Pos(x) \in 1 .. Len(kept[At(x)])
           /\ kept[At(x)][Pos(x)] \in 1 .. Len(raw[At(x)])
           /\ TotalEvents[x] = raw[At(x)][kept[At(x)][Pos(x)]]
           /\ TotalEvents[x] \in Event
<1>. DEFINE w == Events("warmup")
            v == Events("measured")
<1>1. \A p \in Phases : Len(kept[p]) \in Nat
  BY DEF EventsInv, TypeOK
<1>2. "warmup" \in Phases /\ "measured" \in Phases
  BY DEF Phases
<1>3. \A p \in Phases : \A j \in 1 .. Len(kept[p]) :
          kept[p][j] \in 1 .. Len(raw[p]) /\ raw[p][kept[p][j]] \in Event
  <2>. TAKE p \in Phases
  <2>1. AreBest(p, kept[p], Len(raw[p]))
    BY DoneStands DEF StandsFor
  <2>. QED
    BY <2>1 DEF AreBest, EventsInv, TypeOK
<1>4. \A p \in Phases :
          /\ Events(p) \in Seq(Event) /\ Len(Events(p)) = Len(kept[p])
          /\ \A j \in 1 .. Len(kept[p]) : Events(p)[j] = raw[p][kept[p][j]]
  <2>. TAKE p \in Phases
  <2>. QED
    BY <1>1, <1>3 DEF Events
<1>5. /\ w \in Seq(Event) /\ Len(w) = Len(kept["warmup"])
      /\ v \in Seq(Event) /\ Len(v) = Len(kept["measured"])
  BY <1>2, <1>4
<1>. HIDE DEF w, v
<1>6. /\ Len(w \o v) = Len(w) + Len(v) /\ Len(w) \in Nat /\ Len(v) \in Nat
      /\ \A j \in 1 .. (Len(w) + Len(v)) :
             (w \o v)[j] = IF j <= Len(w) THEN w[j] ELSE v[j - Len(w)]
  BY <1>5, Joined
<1>7. TotalEvents = w \o v
  BY DEF TotalEvents, w, v
<1>8. x \in 1 .. (Len(w) + Len(v))
      /\ TotalEvents[x] = IF x <= Len(w) THEN w[x] ELSE v[x - Len(w)]
  BY <1>6, <1>7
<1>9. CASE x <= Len(kept["warmup"])
  <2>1. At(x) = "warmup" /\ Pos(x) = x /\ x \in 1 .. Len(kept["warmup"])
    BY <1>5, <1>6, <1>8, <1>9 DEF At, Pos
  <2>2. TotalEvents[x] = raw["warmup"][kept["warmup"][x]]
    BY <1>2, <1>4, <1>5, <1>8, <1>9, <2>1 DEF w
  <2>. QED
    BY <1>2, <1>3, <2>1, <2>2
<1>10. CASE ~(x <= Len(kept["warmup"]))
  <2>. DEFINE y == x - Len(kept["warmup"])
  <2>1. At(x) = "measured" /\ Pos(x) = y /\ y \in 1 .. Len(kept["measured"])
    <3>1. At(x) = "measured" /\ Pos(x) = y
      BY <1>10 DEF At, Pos
    <3>2. Len(kept["warmup"]) \in Nat /\ Len(kept["measured"]) \in Nat
          /\ x \in 1 .. (Len(kept["warmup"]) + Len(kept["measured"]))
      BY <1>1, <1>2, <1>5, <1>8
    <3>3. y \in 1 .. Len(kept["measured"])
      BY <1>10, <3>2, Beyond
    <3>. QED
      BY <3>1, <3>3
  <2>2. TotalEvents[x] = raw["measured"][kept["measured"][y]]
    BY <1>2, <1>4, <1>5, <1>8, <1>10, <2>1 DEF v
  <2>. QED
    BY <1>2, <1>3, <2>1, <2>2
<1>. QED
  BY <1>9, <1>10

\* Two calls of one tool that were both kept are told apart: in one phase by
\* what deduplication tells them apart by.
LEMMA Apart ==
    ASSUME EventsInv, step = "done",
           NEW x \in 1 .. Len(TotalEvents), NEW y \in 1 .. Len(TotalEvents), x < y,
           IsNamedCall(TotalEvents[x]), IsNamedCall(TotalEvents[y]),
           TotalEvents[x].tool = TotalEvents[y].tool
    PROVE  IdentityOf(x) # IdentityOf(y)
<1>1. CASE At(x) # At(y)
  BY <1>1 DEF IdentityOf
<1>2. CASE At(x) = At(y)
  <2>. DEFINE p == At(x)
              i == Pos(x)
              j == Pos(y)
  <2>1. /\ p \in Phases /\ i \in 1 .. Len(kept[p]) /\ j \in 1 .. Len(kept[p])
        /\ TotalEvents[x] = raw[p][kept[p][i]]
        /\ TotalEvents[y] = raw[p][kept[p][j]]
    BY <1>2, Placed
  <2>2. i < j
    <3>1. Len(kept["warmup"]) \in Nat
      BY DEF EventsInv, TypeOK, Phases
    <3>. QED
      BY <1>2, <3>1 DEF At, Pos
  <2>. HIDE DEF p, i, j
  <2>3. Key(p, kept[p][i]) # Key(p, kept[p][j])
    <3>1. PICK f \in 1 .. Len(raw[p]) :
              /\ ~Dropped(p, f) /\ Key(p, f) = Key(p, kept[p][i])
              /\ \A g \in 1 .. f : Dropped(p, g) \/ Key(p, g) # Key(p, kept[p][j])
      BY <2>1, <2>2, DoneInOrder DEF InOrderOfSight
    <3>2. f \in 1 .. f
      OBVIOUS
    <3>. QED
      BY <3>1, <3>2
  <2>4. /\ raw[p][kept[p][i]].tool = raw[p][kept[p][j]].tool
        /\ raw[p][kept[p][i]].type = raw[p][kept[p][j]].type
    BY <2>1 DEF IsNamedCall
  <2>. QED
    BY <2>1, <2>3, <2>4 DEF IdentityOf, Key
<1>. QED
  BY <1>1, <1>2

\* A call that was kept is one that was told, by the same id.
LEMMA Listed ==
    ASSUME EventsInv, step = "done", NEW x \in 1 .. Len(TotalEvents),
           IsNamedCall(TotalEvents[x])
    PROVE  <<At(x), TotalEvents[x].id>> \in Calls(TotalEvents[x].tool)
<1>1. PICK p \in Phases : \E i \in 1 .. Len(raw[p]) :
          At(x) = p /\ TotalEvents[x] = raw[p][i]
  BY Placed
<1>2. PICK i \in 1 .. Len(raw[p]) : At(x) = p /\ TotalEvents[x] = raw[p][i]
  BY <1>1
<1>3. i \in Told(p, TotalEvents[x].tool)
  BY <1>2 DEF Told, IsNamedCall
<1>. DEFINE Of(q) == {<<q, raw[q][j].id>> : j \in Told(q, TotalEvents[x].tool)}
<1>4. <<p, TotalEvents[x].id>> \in Of(p)
  BY <1>2, <1>3
<1>5. Calls(TotalEvents[x].tool) = UNION {Of(q) : q \in Phases}
  BY DEF Calls
<1>. HIDE DEF Of
<1>. QED
  BY <1>2, <1>4, <1>5

\* A loop of a tool whose calls were all told with their ids is of three calls.
LEMMA LoopIsOfThree ==
    ASSUME EventsInv, step = "done", NEW tool, RetryLoop(tool), ToldWithId(tool)
    PROVE  Thrice(tool)
<1>1. PICK i, j, k \in 1 .. Len(TotalEvents) :
          /\ i < j /\ j < k
          /\ \A m \in i .. k : IsNamedCall(TotalEvents[m]) <=> m \in {i, j, k}
          /\ \A m \in {i, j, k} : TotalEvents[m].tool = tool
  BY DEF RetryLoop
<1>2. i \in i .. k /\ j \in i .. k /\ k \in i .. k /\ i < k
  BY <1>1
<1>. DEFINE call(m) == <<At(m), TotalEvents[m].id>>
<1>3. ASSUME NEW m \in {i, j, k}
      PROVE  /\ IsNamedCall(TotalEvents[m]) /\ TotalEvents[m].tool = tool
             /\ call(m) \in Calls(tool) /\ TotalEvents[m].id # NoId
  <2>1. IsNamedCall(TotalEvents[m]) /\ TotalEvents[m].tool = tool
    BY <1>1, <1>2
  <2>2. call(m) \in Calls(tool) /\ At(m) \in {"warmup", "measured"}
    BY <2>1, Listed DEF At
  <2>. QED
    BY <2>1, <2>2 DEF ToldWithId
<1>4. /\ IdentityOf(i) # IdentityOf(j) /\ IdentityOf(j) # IdentityOf(k)
      /\ IdentityOf(i) # IdentityOf(k)
  BY <1>1, <1>2, <1>3, Apart
<1>5. call(i) # call(j) /\ call(j) # call(k) /\ call(i) # call(k)
  BY <1>3, <1>4 DEF IdentityOf
<1>. QED
  BY <1>3, <1>5 DEF Thrice

\* All events are those of the two phases.
LEMMA AllKept ==
    ASSUME EventsInv, step = "done"
    PROVE  /\ Len(TotalEvents) \in Nat
           /\ Len(TotalEvents) = Len(kept["warmup"]) + Len(kept["measured"])
<1>1. ASSUME NEW q \in Phases
      PROVE  Events(q) \in Seq(Event) /\ Len(Events(q)) = Len(kept[q])
  <2>1. Len(kept[q]) \in Nat /\ raw[q] \in Seq(Event)
    BY DEF EventsInv, TypeOK
  <2>2. AreBest(q, kept[q], Len(raw[q]))
    BY DoneStands DEF StandsFor
  <2>3. \A l \in 1 .. Len(kept[q]) : raw[q][kept[q][l]] \in Event
    BY <2>1, <2>2 DEF AreBest
  <2>. QED
    BY <2>1, <2>3 DEF Events
<1>. DEFINE w == Events("warmup")
            v == Events("measured")
<1>2. /\ w \in Seq(Event) /\ Len(w) = Len(kept["warmup"])
      /\ v \in Seq(Event) /\ Len(v) = Len(kept["measured"])
  BY <1>1 DEF Phases
<1>3. TotalEvents = w \o v
  BY DEF TotalEvents
<1>. HIDE DEF w, v
<1>4. Len(w \o v) = Len(w) + Len(v) /\ Len(w) \in Nat /\ Len(v) \in Nat
  BY <1>2, Joined
<1>5. Len(w \o v) \in Nat
  BY <1>4
<1>. QED
  BY <1>2, <1>3, <1>4, <1>5

\* A call that was told with its id was kept, by some event with that id.
LEMMA ToldIsKept ==
    ASSUME EventsInv, step = "done", NEW p \in Phases, NEW i \in 1 .. Len(raw[p]),
           raw[p][i].type = "tool_call_start", raw[p][i].id # NoId
    PROVE  \E x \in 1 .. Len(TotalEvents) :
              /\ At(x) = p /\ TotalEvents[x].id = raw[p][i].id
              /\ TotalEvents[x].type = "tool_call_start"
<1>1. \A q \in Phases : Len(kept[q]) \in Nat /\ raw[q] \in Seq(Event)
  BY DEF EventsInv, TypeOK
<1>2. ~Dropped(p, i)
  BY DEF Dropped
<1>3. AreBest(p, kept[p], Len(raw[p])) /\ Covers(p, kept[p], Len(raw[p]))
  BY DoneStands DEF StandsFor
<1>4. PICK j \in 1 .. Len(kept[p]) : Key(p, i) = Key(p, kept[p][j])
  BY <1>2, <1>3 DEF Covers, Same
<1>. DEFINE e == raw[p][kept[p][j]]
<1>5. e \in Event
  BY <1>1, <1>3, <1>4 DEF AreBest
<1>6. e.id = raw[p][i].id /\ e.type = "tool_call_start"
  <2>1. e.token \in Tokens
    BY <1>5 DEF Event
  <2>2. \A t \in Tokens : \A d : t # <<"id", d>>
    BY DEF Tokens
  <2>. QED
    BY <1>4, <2>1, <2>2 DEF Key
<1>7. "warmup" \in Phases /\ "measured" \in Phases /\ p \in {"warmup", "measured"}
  BY DEF Phases
<1>8. Len(TotalEvents) = Len(kept["warmup"]) + Len(kept["measured"])
  BY AllKept
<1>9. \E x \in 1 .. Len(TotalEvents) : At(x) = p /\ Pos(x) = j
  <2>1. CASE p = "warmup"
    <3>. DEFINE w == Len(kept["warmup"])
                v == Len(kept["measured"])
    <3>0. w \in Nat /\ v \in Nat /\ j \in 1 .. w /\ Len(TotalEvents) = w + v
      BY <1>1, <1>7, <1>8, <2>1
    <3>1. j \in 1 .. Len(TotalEvents) /\ j <= w
      <4>. HIDE DEF w, v
      <4>. QED
        BY <3>0
    <3>. QED
      BY <2>1, <3>1 DEF At, Pos
  <2>2. CASE p = "measured"
    <3>. DEFINE w == Len(kept["warmup"])
                v == Len(kept["measured"])
                x == w + j
    <3>1. w \in Nat /\ v \in Nat /\ j \in 1 .. v /\ Len(TotalEvents) = w + v
      BY <1>1, <1>7, <1>8, <2>2
    <3>2. x \in 1 .. Len(TotalEvents) /\ ~(x <= w) /\ x - w = j
      <4>. HIDE DEF w, v
      <4>. QED
        BY <3>1
    <3>3. At(x) = p /\ Pos(x) = j
      BY <2>2, <3>2 DEF At, Pos
    <3>. QED
      BY <3>2, <3>3
  <2>. QED
    BY <1>7, <2>1, <2>2
<1>10. PICK x \in 1 .. Len(TotalEvents) : At(x) = p /\ Pos(x) = j
  BY <1>9
<1>11. TotalEvents[x] = e
  BY <1>10, Placed
<1>. QED
  BY <1>6, <1>10, <1>11

LEMMA LeastPlace ==
    ASSUME NEW n \in Nat, NEW B \in SUBSET (1 .. n), B # {}
    PROVE  \E m \in B : \A y \in B : m <= y
<1>. DEFINE N == 1 .. n
            C == {1 .. m : m \in B}
<1>1. IsWellFoundedOn(StrictSubsetOrdering(N), SUBSET N)
  <2>1. IsFiniteSet(N)
    BY FS_Interval
  <2>. HIDE DEF N
  <2>. QED
    BY <2>1, FS_StrictSubsetOrderingWellFounded, FS_FiniteSubsetsOfFinite
<1>2. C \subseteq SUBSET N /\ C # {}
  <2>1. \A m \in B : 1 .. m \subseteq 1 .. n
    OBVIOUS
  <2>. QED
    BY <2>1
<1>3. PICK T \in C : \A U \in C : <<U, T>> \notin StrictSubsetOrdering(N)
  <2>. HIDE DEF C, N
  <2>. QED
    BY <1>1, <1>2, WFMin
<1>4. PICK m \in B : T = 1 .. m
  BY <1>3
<1>5. ASSUME NEW y \in B PROVE m <= y
  <2>. SUFFICES ASSUME ~(m <= y) PROVE FALSE
    OBVIOUS
  <2>1. y \in Nat /\ m \in Nat /\ y < m
    OBVIOUS
  <2>2. 1 .. y \subseteq 1 .. m /\ m \in 1 .. m /\ m \notin 1 .. y
    BY <2>1
  <2>3. 1 .. y \in C
    OBVIOUS
  <2>4. 1 .. y \in SUBSET N /\ 1 .. m \in SUBSET N
    OBVIOUS
  <2>. HIDE DEF N, C
  <2>5. <<1 .. y, T>> \in StrictSubsetOrdering(N)
    BY <1>4, <2>2, <2>4 DEF StrictSubsetOrdering
  <2>. QED
    BY <1>3, <2>3, <2>5
<1>. QED
  BY <1>5

\* Of three places or more, the first three have no other between them.
LEMMA FirstThree ==
    ASSUME NEW n \in Nat, NEW B \in SUBSET (1 .. n),
           \E x, y, z \in B : x # y /\ y # z /\ x # z
    PROVE  \E i, j, k \in B : /\ i < j /\ j < k
                              /\ \A m \in i .. k : m \in B <=> m \in {i, j, k}
<1>1. PICK i \in B : \A l \in B : i <= l
  BY LeastPlace
<1>2. B \ {i} \in SUBSET (1 .. n) /\ B \ {i} # {}
  OBVIOUS
<1>3. PICK j \in B \ {i} : \A l \in B \ {i} : j <= l
  BY <1>2, LeastPlace
<1>4. B \ {i, j} \in SUBSET (1 .. n) /\ B \ {i, j} # {}
  OBVIOUS
<1>5. PICK k \in B \ {i, j} : \A l \in B \ {i, j} : k <= l
  BY <1>4, LeastPlace
<1>6. i \in Nat /\ j \in Nat /\ k \in Nat /\ B \subseteq Nat
  OBVIOUS
<1>7. i < j /\ j < k
  BY <1>1, <1>3, <1>5, <1>6
<1>8. ASSUME NEW m \in i .. k, m \in B, m \notin {i, j, k} PROVE FALSE
  <2>1. k <= m /\ m <= k /\ m \in Nat
    BY <1>5, <1>6, <1>8
  <2>. QED
    BY <1>6, <1>8, <2>1
<1>9. \A m \in i .. k : m \in B <=> m \in {i, j, k}
  BY <1>8
<1>. QED
  BY <1>7, <1>9

\* Three calls of the only tool that is called, told with their ids, are a loop.
LEMMA ThreeAreALoop ==
    ASSUME EventsInv, step = "done", NEW tool \in Tools \cup {Unknown},
           Thrice(tool), ToldWithId(tool), NoOtherCall(tool)
    PROVE  RetryLoop(tool)
<1>. DEFINE N == {x \in 1 .. Len(TotalEvents) : IsNamedCall(TotalEvents[x])}
            call(x) == <<At(x), TotalEvents[x].id>>
<1>1. tool # NoTool
  BY EventsAssumption DEF Unknown, NoTool
<1>2. ASSUME NEW x \in 1 .. Len(TotalEvents),
             TotalEvents[x].type = "tool_call_start"
      PROVE  TotalEvents[x].tool = tool
  <2>1. PICK p \in Phases : \E i \in 1 .. Len(raw[p]) : TotalEvents[x] = raw[p][i]
    BY Placed
  <2>. QED
    BY <1>2, <2>1 DEF NoOtherCall, Told
<1>3. ASSUME NEW c \in Calls(tool)
      PROVE  \E x \in N : call(x) = c
  <2>1. PICK p \in Phases : c \in {<<p, raw[p][l].id>> : l \in Told(p, tool)}
    BY <1>3 DEF Calls
  <2>2. PICK i \in Told(p, tool) : c = <<p, raw[p][i].id>>
    BY <2>1
  <2>3. i \in 1 .. Len(raw[p]) /\ raw[p][i].type = "tool_call_start"
    BY <2>2 DEF Told
  <2>4. raw[p][i].id # NoId
    BY <1>3, <2>2 DEF ToldWithId, Phases
  <2>5. PICK x \in 1 .. Len(TotalEvents) :
            /\ At(x) = p /\ TotalEvents[x].id = raw[p][i].id
            /\ TotalEvents[x].type = "tool_call_start"
    BY <2>3, <2>4, ToldIsKept
  <2>6. IsNamedCall(TotalEvents[x])
    BY <1>1, <1>2, <2>5 DEF IsNamedCall
  <2>. QED
    BY <2>2, <2>5, <2>6
<1>4. PICK a \in Calls(tool), b \in Calls(tool), c \in Calls(tool) :
          a # b /\ b # c /\ a # c
  BY DEF Thrice
<1>5. PICK x \in N : call(x) = a
  BY <1>3
<1>6. PICK y \in N : call(y) = b
  BY <1>3
<1>7. PICK z \in N : call(z) = c
  BY <1>3
<1>8. x # y /\ y # z /\ x # z
  BY <1>4, <1>5, <1>6, <1>7
<1>9. Len(TotalEvents) \in Nat /\ N \in SUBSET (1 .. Len(TotalEvents))
  <2>1. Len(TotalEvents) \in Nat
    BY AllKept
  <2>. QED
    BY <2>1
<1>10. PICK i \in N, j \in N, k \in N :
          /\ i < j /\ j < k
          /\ \A m \in i .. k : m \in N <=> m \in {i, j, k}
  <2>. DEFINE n == Len(TotalEvents)
  <2>1. n \in Nat /\ N \in SUBSET (1 .. n)
    BY <1>9
  <2>2. \E p, q, r \in N : p # q /\ q # r /\ p # r
    BY <1>8
  <2>. HIDE DEF N, n
  <2>. QED
    BY <2>1, <2>2, FirstThree
<1>11. \A m \in i .. k : m \in 1 .. Len(TotalEvents)
  BY <1>9
<1>12. \A m \in i .. k : IsNamedCall(TotalEvents[m]) <=> m \in {i, j, k}
  BY <1>10, <1>11
<1>13. \A m \in {i, j, k} : TotalEvents[m].tool = tool
  BY <1>2 DEF IsNamedCall
<1>. QED
  BY <1>10, <1>12, <1>13 DEF RetryLoop

\* For any number of events, lines and calls: a loop of calls that were told with
\* their ids is one of three calls, however many sources told of each, and three
\* calls of the only tool are reported as one (_deduplicate_events,
\* _detect_retry_loop).
THEOREM LoopsAreRetries == Spec => []RetryLoopMeansRetries
<1>1. EventsInv => RetryLoopMeansRetries
  BY LoopIsOfThree, ThreeAreALoop DEF RetryLoopMeansRetries
<1>. QED
  BY <1>1, EventsInvariant, PTL
=============================================================================
