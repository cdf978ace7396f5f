------------------------ MODULE StreamEvidenceProofs ------------------------
(* What the evidence of a response tells, for any number of calls, items and
   interleavings of their fragments.  The argument has three invariants: what a
   backend sends (Sent), what has been counted of it (Counted), and that each
   partial call is the one of its owner (Reassembly). *)
EXTENDS StreamEvidence, FiniteSetTheorems, SequenceTheorems, TLAPS

\* The styles whose partial calls are put together, and those whose calls carry
\* a name and an id together.
Reassembled == {"openai", "repeat", "late", "whole"}
CountedOnce == {"openai", "whole", "same_index", "responses"}

Typed ==
    /\ style \in Styles /\ form \in Forms
    /\ name \in [Calls -> Names]
    /\ body \in Seq(Item)
    /\ at \in {"relay", "extract", "done"}
    /\ next \in 1 .. (Len(body) + 1)
    /\ again \in BOOLEAN
    /\ at = "relay" => /\ next = 1 /\ partials = <<>> /\ calls = {}
                       /\ sequence = 0 /\ ~again
    /\ at = "done" => next > Len(body)

\* Item i is the first of its call.
Opens(i) == \A j \in 1 .. (i - 1) : body[j].call # body[i].call

\* What a backend sends: the first item of a call has its name, an id is the one
\* of the call, an index is the call's own or there is none.
WellMade(i) ==
    /\ \E j \in 1 .. i : Opens(j) /\ body[j].call = body[i].call
    /\ body[i].id \in {body[i].call, NoId}
    /\ Opens(i) => body[i].named
    /\ body[i].named => Opens(i) \/ style = "responses"
    /\ style \in CountedOnce =>
           IF body[i].named THEN body[i].id = body[i].call
                            ELSE body[i].id = NoId /\ ~body[i].typed
    /\ style \in Reassembled =>
           /\ body[i].part > 0
           /\ IF style = "whole"
                THEN /\ body[i].index = NoIndex /\ body[i].id = body[i].call
                     /\ Opens(i)
                ELSE body[i].index = body[i].call
Sent == \A i \in 1 .. Len(body) : WellMade(i)

-----------------------------------------------------------------------------
(* The items of a body *)

LEMMA ItemsAreCounted ==
    ASSUME Typed, NEW c \in Calls
    PROVE  Items(c) \in Nat
<1>. DEFINE S == {i \in DOMAIN body : body[i].call = c}
<1>1. Len(body) \in Nat /\ DOMAIN body = 1 .. Len(body)
  BY DEF Typed
<1>2. IsFiniteSet(1 .. Len(body))
  BY <1>1, FS_Interval
<1>3. IsFiniteSet(S)
  BY <1>1, <1>2, FS_Subset
<1>. QED
  BY <1>3, FS_CardinalityType DEF Items

\* An item, field by field.
LEMMA ItemFields ==
    ASSUME Typed, NEW c \in Calls
    PROVE  /\ ItemOf(c).call = c
           /\ ItemOf(c).typed = (style \in {"responses", "typed"})
           /\ ItemOf(c).id = IF HasId(c) THEN c ELSE NoId
           /\ style \in {"openai", "repeat", "late"} => ItemOf(c).index = c
           /\ style = "same_index" => ItemOf(c).index = 0
           /\ style \in {"whole", "responses", "typed", "native"} =>
                  ItemOf(c).index = NoIndex
           /\ ItemOf(c).named = (~Begun(c) \/ style = "responses")
           /\ ItemOf(c).part = IF style = "responses" /\ ~OneItem
                                 THEN IF Begun(c) THEN 1 ELSE 0
                                 ELSE Items(c) + 1
<1>1. CASE style \in {"openai", "repeat", "late"}
  BY <1>1 DEF ItemOf
<1>2. CASE style = "same_index"
  BY <1>2 DEF ItemOf
<1>3. CASE style \in {"whole", "responses", "typed", "native"}
  BY <1>3 DEF ItemOf
<1>4. style \in AllStyles
  BY StreamAssumption DEF Typed
<1>. QED
  BY <1>1, <1>2, <1>3, <1>4 DEF AllStyles

LEMMA ItemIsTyped ==
    ASSUME Typed, NEW c \in Calls
    PROVE  ItemOf(c) \in Item
<1>. DEFINE t == style \in {"responses", "typed"}
            d == IF HasId(c) THEN c ELSE NoId
            x == CASE style \in {"openai", "repeat", "late"} -> c
                   [] style = "same_index" -> 0
                   [] style \in {"whole", "responses", "typed", "native"} -> NoIndex
            n == ~Begun(c) \/ style = "responses"
            p == IF style = "responses" /\ ~OneItem
                   THEN IF Begun(c) THEN 1 ELSE 0
                   ELSE Items(c) + 1
            it == [call |-> c, typed |-> t, id |-> d, index |-> x, named |-> n,
                   part |-> p]
<1>1. c \in Nat /\ Items(c) \in Nat /\ style \in AllStyles
  BY ItemsAreCounted, StreamAssumption DEF Typed
<1>2. t \in BOOLEAN /\ n \in BOOLEAN
  OBVIOUS
<1>3. d \in Calls \cup {NoId} /\ p \in Nat
  BY <1>1
<1>4. x \in Nat \cup {NoIndex}
  <2>1. CASE style \in {"openai", "repeat", "late"}
    BY <1>1, <2>1
  <2>2. CASE style = "same_index"
    BY <2>2
  <2>3. CASE style \in {"whole", "responses", "typed", "native"}
    BY <2>3
  <2>. QED
    BY <1>1, <2>1, <2>2, <2>3 DEF AllStyles
<1>5. ItemOf(c) = it
  BY DEF ItemOf
<1>. HIDE DEF t, d, x, n, p
<1>6. it \in Item
  BY <1>2, <1>3, <1>4 DEF Item
<1>. QED
  BY <1>5, <1>6

LEMMA ItemsOfBody ==
    ASSUME Typed
    PROVE  /\ Len(body) \in Nat /\ DOMAIN body = 1 .. Len(body)
           /\ \A i \in 1 .. Len(body) : body[i] \in Item /\ body[i].call \in Calls
<1>1. \A i \in 1 .. Len(body) : body[i] \in Item
  BY DEF Typed
<1>2. \A it \in Item : it.call \in Calls
  BY DEF Item
<1>. QED
  BY <1>1, <1>2 DEF Typed

LEMMA InitTyped == Init => Typed
<1>. SUFFICES ASSUME Init PROVE Typed
  OBVIOUS
<1>1. body \in Seq(Item) /\ Len(body) = 0
  BY DEF Init
<1>2. next \in 1 .. (Len(body) + 1)
  BY <1>1 DEF Init
<1>. QED
  BY <1>1, <1>2 DEF Init, Typed

LEMMA NextTyped == Typed /\ [Next]_vars => Typed'
<1>. SUFFICES ASSUME Typed, [Next]_vars PROVE Typed'
  OBVIOUS
<1>0. Len(body) \in Nat
  BY DEF Typed
<1>1. ASSUME NEW c \in Calls, Relay(c)
      PROVE  Typed'
  <2>1. body' \in Seq(Item) /\ Len(body') = Len(body) + 1
    BY <1>1, ItemIsTyped DEF Typed, Relay
  <2>. QED
    BY <1>0, <1>1, <2>1 DEF Typed, Relay
<1>2. CASE Captured
  BY <1>2 DEF Typed, Captured
<1>3. CASE ReadItem
  BY <1>0, <1>3 DEF Typed, ReadItem
<1>4. CASE BodyRead
  <2>1. CASE form = "line" /\ ~again
    BY <1>0, <1>4, <2>1 DEF Typed, BodyRead
  <2>2. CASE ~(form = "line" /\ ~again)
    BY <1>0, <1>4, <2>2 DEF Typed, BodyRead
  <2>. QED
    BY <2>1, <2>2
<1>5. CASE UNCHANGED vars
  BY <1>5 DEF Typed, vars
<1>. QED
  BY <1>1, <1>2, <1>3, <1>4, <1>5 DEF Next

-----------------------------------------------------------------------------
(* What a backend sends *)

LEMMA RelaySent ==
    ASSUME Typed, Sent, NEW c \in Calls, Relay(c)
    PROVE  Sent'
<1>. DEFINE it == ItemOf(c)
<1>n. PICK n \in Nat : n = Len(body) + 1
  BY DEF Typed
<1>0. /\ Len(body) \in Nat /\ n = Len(body) + 1 /\ c \in Nat /\ c # NoId /\ style \in AllStyles
      /\ Len(body') = n /\ style' = style /\ form' = form
      /\ body' = Append(body, it) /\ body \in Seq(Item) /\ it \in Item
      /\ it.call = c /\ Items(c) \in Nat
  BY <1>n, StreamAssumption, ItemIsTyped, ItemFields, ItemsAreCounted DEF Typed, Relay
<1>1. body'[n] = it /\ \A i \in 1 .. Len(body) : body'[i] = body[i]
  BY <1>0
<1>2. ASSUME NEW i \in 1 .. Len(body)
      PROVE  WellMade(i)'
  <2>1. \A j \in 1 .. i : j \in 1 .. Len(body) /\ body'[j] = body[j]
    BY <1>0, <1>1
  <2>2. \A j \in 1 .. i : Opens(j)' <=> Opens(j)
    BY <1>0, <2>1 DEF Opens
  <2>3. WellMade(i)
    BY DEF Sent
  <2>4. i \in 1 .. i
    BY <1>0
  <2>. QED
    BY <1>0, <2>1, <2>2, <2>3, <2>4 DEF WellMade
<1>3. Begun(c) <=> ~Opens(n)'
  <2>1. Begun(c) <=> \E i \in 1 .. Len(body) : body[i].call = c
    BY <1>0 DEF Begun
  <2>2. Opens(n)' <=> \A j \in 1 .. Len(body) : body'[j].call # body'[n].call
    BY <1>0 DEF Opens
  <2>. QED
    BY <1>0, <1>1, <2>1, <2>2
<1>4. OneItem => ~Begun(c)
  BY DEF Relay
<1>5. WellMade(n)'
  <2>1. \E j \in 1 .. n : Opens(j)' /\ body'[j].call = body'[n].call
    <3>1. CASE Opens(n)'
      BY <1>0, <3>1
    <3>2. CASE ~Opens(n)'
      <4>1. PICK i \in 1 .. Len(body) : body[i].call = c
        BY <1>0, <1>3, <3>2 DEF Begun
      <4>2. PICK j \in 1 .. i : Opens(j) /\ body[j].call = c
        BY <4>1 DEF Sent, WellMade
      <4>3. j \in 1 .. Len(body) /\ \A k \in 1 .. (j - 1) : k \in 1 .. Len(body)
        BY <1>0
      <4>4. Opens(j)'
        BY <1>1, <4>2, <4>3 DEF Opens
      <4>. QED
        BY <1>0, <1>1, <4>2, <4>3, <4>4
    <3>. QED
      BY <3>1, <3>2
  <2>2. it.id \in {c, NoId} /\ (it.named <=> ~Begun(c) \/ style = "responses")
    BY ItemFields
  <2>3. style \in CountedOnce =>
           IF it.named THEN it.id = c ELSE it.id = NoId /\ ~it.typed
    BY <1>0, <1>4, ItemFields DEF HasId, OneItem, CountedOnce, AllStyles
  <2>4. style \in Reassembled =>
           /\ it.part > 0
           /\ IF style = "whole"
                THEN it.index = NoIndex /\ it.id = c /\ ~Begun(c)
                ELSE it.index = c
    <3>1. CASE style = "whole"
      <4>1. HasId(c) /\ OneItem
        BY <3>1 DEF HasId, OneItem
      <4>2. it.part = Items(c) + 1
        BY <3>1, ItemFields
      <4>. QED
        BY <1>0, <1>4, <3>1, <4>1, <4>2, ItemFields
    <3>2. CASE style \in {"openai", "repeat", "late"}
      <4>1. it.part = Items(c) + 1 /\ it.index = c /\ style # "whole"
        BY <3>2, ItemFields
      <4>. QED
        BY <1>0, <4>1
    <3>. QED
      BY <3>1, <3>2 DEF Reassembled
  <2>. QED
    BY <1>0, <1>1, <1>3, <2>1, <2>2, <2>3, <2>4 DEF WellMade
<1>. QED
  BY <1>0, <1>2, <1>5 DEF Sent

LEMMA NextSent == Typed /\ Sent /\ [Next]_vars => Sent'
<1>. SUFFICES ASSUME Typed, Sent, [Next]_vars PROVE Sent'
  OBVIOUS
<1>1. ASSUME NEW c \in Calls, Relay(c)
      PROVE  Sent'
  BY <1>1, RelaySent
<1>2. CASE UNCHANGED <<style, form, body>>
  BY <1>2 DEF Sent, WellMade, Opens
<1>. QED
  BY <1>1, <1>2 DEF Next, Captured, ReadItem, BodyRead, vars

-----------------------------------------------------------------------------
(* What is counted *)

\* The items that were read once at least.
Seen(i) == i \in 1 .. Len(body) /\ (again \/ i < next)

\* Nothing is counted but what the items say, and all that was read is.
Counted ==
    /\ \A x \in calls : \E i \in 1 .. Len(body) : x \in Structured(body[i])
    /\ \A i \in 1 .. Len(body) : Seen(i) => Structured(body[i]) \subseteq calls

LEMMA NextCounted == Typed /\ Counted /\ [Next]_vars => Counted'
<1>. SUFFICES ASSUME Typed, Counted, [Next]_vars PROVE Counted'
  OBVIOUS
<1>0. Len(body) \in Nat /\ next \in 1 .. (Len(body) + 1) /\ again \in BOOLEAN
  BY DEF Typed
<1>1. ASSUME NEW c \in Calls, Relay(c)
      PROVE  Counted'
  <2>1. calls = {} /\ calls' = {} /\ next' = 1 /\ ~again /\ again' = again
    BY <1>1 DEF Relay, Typed
  <2>2. Len(body') \in Nat
    BY <1>0, <1>1 DEF Relay, Typed
  <2>. QED
    BY <2>1, <2>2 DEF Counted, Seen
<1>2. CASE ReadItem
  <2>1. /\ body' = body /\ name' = name /\ again' = again /\ next' = next + 1
        /\ next \in 1 .. Len(body)
        /\ calls' = calls \cup Structured(body[next])
    BY <1>0, <1>2 DEF ReadItem
  <2>2. \A i \in 1 .. Len(body) : Structured(body[i])' = Structured(body[i])
    BY <2>1 DEF Structured
  <2>3. \A x \in calls' : \E i \in 1 .. Len(body) : x \in Structured(body[i])
    BY <2>1 DEF Counted
  <2>4. \A i \in 1 .. Len(body) : Seen(i)' => Seen(i) \/ i = next
    BY <1>0, <2>1 DEF Seen
  <2>5. \A i \in 1 .. Len(body) : Seen(i)' => Structured(body[i]) \subseteq calls'
    BY <2>1, <2>4 DEF Counted
  <2>. QED
    BY <2>1, <2>2, <2>3, <2>5 DEF Counted
<1>3. CASE Captured \/ BodyRead \/ UNCHANGED vars
  <2>1. UNCHANGED <<body, name, calls>>
    BY <1>3 DEF Captured, BodyRead, vars
  <2>2. \A i \in 1 .. Len(body) : Structured(body[i])' = Structured(body[i])
    BY <2>1 DEF Structured
  <2>3. \A i \in 1 .. Len(body) : Seen(i)' => Seen(i)
    <3>1. CASE Captured \/ UNCHANGED vars
      BY <3>1 DEF Captured, vars, Seen
    <3>2. CASE BodyRead
      BY <1>0, <3>2 DEF BodyRead, Seen
    <3>. QED
      BY <1>3, <3>1, <3>2
  <2>. QED
    BY <2>1, <2>2, <2>3 DEF Counted
<1>. QED
  BY <1>1, <1>2, <1>3 DEF Next

\* The inductive invariant of what is sent and what is counted of it.
Counting == Typed /\ Sent /\ Counted

LEMMA CountingAlways == Spec => []Counting
<1>1. Init => Counting
  <2>. SUFFICES ASSUME Init PROVE Counting
    OBVIOUS
  <2>1. Len(body) = 0 /\ calls = {}
    BY DEF Init
  <2>. QED
    BY <2>1, InitTyped DEF Counting, Sent, Counted
<1>2. Counting /\ [Next]_vars => Counting'
  BY NextTyped, NextSent, NextCounted DEF Counting
<1>. QED
  BY <1>1, <1>2, PTL DEF Spec

\* A call that was begun has a first item, and it is counted once all is read.
LEMMA FirstIsCounted ==
    ASSUME Counting, at = "done", NEW c \in Calls, Begun(c)
    PROVE  \E j \in 1 .. Len(body) :
               /\ body[j].call = c /\ Opens(j) /\ body[j].named
               /\ Structured(body[j]) \subseteq calls
<1>0. Len(body) \in Nat /\ DOMAIN body = 1 .. Len(body) /\ next > Len(body)
        /\ next \in Nat
  BY DEF Counting, Typed
<1>1. PICK i \in 1 .. Len(body) : body[i].call = c
  BY <1>0 DEF Begun
<1>2. PICK j \in 1 .. i : Opens(j) /\ body[j].call = c
  BY <1>1 DEF Counting, Sent, WellMade
<1>3. j \in 1 .. Len(body) /\ j < next
  BY <1>0, <1>2
<1>4. body[j].named
  BY <1>2, <1>3 DEF Counting, Sent, WellMade
<1>. QED
  BY <1>2, <1>3, <1>4 DEF Counting, Counted, Seen

\* For any number of calls, of backends of every kind and in any interleaving: a
\* tool that the model called is among the calls that are counted.
THEOREM NoToolIsMissed == Spec => []EveryToolIsSeen
<1>1. Counting => EveryToolIsSeen
  <2>. SUFFICES ASSUME Counting, at = "done", NEW c \in Calls, Begun(c)
                PROVE  \E id \in Calls \cup {NoId} : <<name[c], id>> \in calls
    BY DEF EveryToolIsSeen
  <2>1. PICK j \in 1 .. Len(body) :
               /\ body[j].call = c /\ Opens(j) /\ body[j].named
               /\ Structured(body[j]) \subseteq calls
    BY FirstIsCounted
  <2>2. <<name[c], body[j].id>> \in calls
    BY <2>1 DEF Structured
  <2>3. body[j].id \in {c, NoId}
    BY <2>1 DEF Counting, Sent, WellMade
  <2>. QED
    BY <2>2, <2>3
<1>. QED
  BY <1>1, CountingAlways, PTL

\* For any number of calls: of a backend that gives a call its name and its id
\* together exactly the calls of the model are counted, each of them once,
\* however its items are repeated, numbered or read.
THEOREM NoCallCountsTwice == Spec => []CallsCountedOnce
<1>1. Counting => CallsCountedOnce
  <2>. SUFFICES ASSUME Counting, at = "done", style \in CountedOnce
                PROVE  calls = {<<name[c], c>> : c \in {d \in Calls : Begun(d)}}
    BY DEF CallsCountedOnce, CountedOnce
  <2>0. /\ Len(body) \in Nat /\ DOMAIN body = 1 .. Len(body)
        /\ \A i \in 1 .. Len(body) : body[i].call \in Calls
    BY ItemsOfBody DEF Counting
  <2>1. ASSUME NEW x \in calls
        PROVE  \E c \in Calls : Begun(c) /\ x = <<name[c], c>>
    <3>1. PICK i \in 1 .. Len(body) : x \in Structured(body[i])
      BY DEF Counting, Counted
    <3>2. IF body[i].named THEN body[i].id = body[i].call
                           ELSE body[i].id = NoId /\ ~body[i].typed
      BY DEF Counting, Sent, WellMade
    <3>3. body[i].named /\ body[i].id = body[i].call
      BY <3>1, <3>2 DEF Structured
    <3>4. x = <<name[body[i].call], body[i].call>>
      BY <3>1, <3>3 DEF Structured
    <3>. QED
      BY <2>0, <3>4 DEF Begun
  <2>2. ASSUME NEW c \in Calls, Begun(c)
        PROVE  <<name[c], c>> \in calls
    <3>1. PICK j \in 1 .. Len(body) :
               /\ body[j].call = c /\ Opens(j) /\ body[j].named
               /\ Structured(body[j]) \subseteq calls
      BY <2>2, FirstIsCounted
    <3>2. body[j].id = c
      BY <3>1 DEF Counting, Sent, WellMade
    <3>. QED
      BY <3>1, <3>2 DEF Structured
  <2>. QED
    BY <2>1, <2>2
<1>. QED
  BY <1>1, CountingAlways, PTL

-----------------------------------------------------------------------------
(* Partial calls *)

\* The call a partial call is of: the one whose item made it.
Owner(p) == body[p.order].call

\* It tells what was read of its owner, and is found by its id once that was
\* read, before by its index.
Told(p) == p.order \in 1 .. (next - 1) /\ Tells(p, Owner(p))
Keyed(p) ==
    /\ p.key = IF p.id = NoId THEN <<"index", Owner(p)>> ELSE <<"call_id", Owner(p)>>
    /\ p.index = IF style = "whole" THEN NoIndex ELSE Owner(p)
    /\ style = "whole" => p.id # NoId

\* Each call of which something was read has one partial call, and no other.
Reassembly ==
    style \in Reassembled /\ ~again =>
        /\ sequence = next - 1
        /\ partials \in Seq(Partial)
        /\ \A i \in 1 .. Len(partials) : Told(partials[i]) /\ Keyed(partials[i])
        /\ \A i, j \in 1 .. Len(partials) :
               i # j => Owner(partials[i]) # Owner(partials[j])
        /\ \A c \in Calls : Of(c) # {} =>
               \E i \in 1 .. Len(partials) : Owner(partials[i]) = c

\* What reading the next item of a body assumes, and what it leaves alone.
Reading ==
    /\ Counting /\ Reassembly /\ style \in Reassembled /\ ~again
    /\ next \in 1 .. Len(body)
    /\ next' = next + 1
    /\ UNCHANGED <<style, name, body>>

LEMMA ReadingFacts ==
    ASSUME Reading
    PROVE  /\ Len(body) \in Nat /\ next \in Nat /\ next' \in Nat
           /\ body[next] \in Item /\ body[next].call \in Calls
           /\ body[next].call \in Nat /\ body[next].call # NoId
           /\ body[next].id \in {body[next].call, NoId}
           /\ body[next].part > 0
           /\ IF style = "whole"
                THEN /\ body[next].index = NoIndex
                     /\ body[next].id = body[next].call /\ Opens(next)
                ELSE body[next].index = body[next].call
           /\ body[next].named <=> Opens(next)
           /\ body[next].named \in BOOLEAN
           /\ name[body[next].call] \in Names
           /\ sequence + 1 = next
           /\ \A i \in 1 .. next : i \in 1 .. Len(body)
<1>1. /\ Len(body) \in Nat /\ next \in 1 .. Len(body)
      /\ body[next] \in Item /\ body[next].call \in Calls
  BY ItemsOfBody DEF Reading, Counting
<1>2. WellMade(next) /\ style \in Reassembled /\ style # "responses"
  BY <1>1 DEF Reading, Counting, Sent, Reassembled
<1>3. /\ body[next].call \in Nat /\ body[next].call # NoId
      /\ name[body[next].call] \in Names
  BY <1>1, StreamAssumption DEF Reading, Counting, Typed
<1>4. body[next].named \in BOOLEAN
  BY <1>1 DEF Item
<1>5. sequence + 1 = next /\ next' \in Nat
  BY <1>1 DEF Reading, Reassembly
<1>6. body[next].named <=> Opens(next)
  BY <1>2 DEF WellMade
<1>. QED
  BY <1>1, <1>2, <1>3, <1>4, <1>5, <1>6 DEF WellMade

\* What is read next adds its place to the items of its call, and of no other.
LEMMA OfNext ==
    ASSUME Reading, NEW c \in Calls
    PROVE  Of(c)' = IF c = body[next].call THEN Of(c) \cup {next} ELSE Of(c)
<1>1. 1 .. (next' - 1) = (1 .. (next - 1)) \cup {next}
  BY ReadingFacts DEF Reading
<1>. QED
  BY <1>1 DEF Of, Reading

LEMMA OwnerIsCall ==
    ASSUME Reading, NEW p, p.order \in 1 .. (next - 1)
    PROVE  Owner(p) \in Calls /\ Owner(p)' = Owner(p) /\ p.order \in Nat
<1>1. p.order \in 1 .. Len(body)
  BY ReadingFacts
<1>. QED
  BY <1>1, ItemsOfBody DEF Owner, Reading, Counting

\* The partial call of another call stays right.
LEMMA OthersStay ==
    ASSUME Reading, NEW p, Told(p), Keyed(p), Owner(p) # body[next].call
    PROVE  (Told(p) /\ Keyed(p))'
<1>1. Owner(p) \in Calls /\ Owner(p)' = Owner(p)
  BY OwnerIsCall DEF Told
<1>2. Of(Owner(p))' = Of(Owner(p))
  BY <1>1, OfNext
<1>3. p.order \in 1 .. (next' - 1)
  BY ReadingFacts DEF Told, Reading
<1>4. Tells(p, Owner(p))'
  BY <1>1, <1>2 DEF Told, Tells, Reading
<1>5. Keyed(p)'
  BY <1>1 DEF Keyed, Reading
<1>. QED
  BY <1>1, <1>3, <1>4, <1>5 DEF Told

LEMMA AppendedParts ==
    ASSUME NEW s \in Seq(Nat), NEW n \in Nat
    PROVE  /\ Append(s, n) \in Seq(Nat)
           /\ {Append(s, n)[j] : j \in DOMAIN Append(s, n)}
                  = {s[j] : j \in DOMAIN s} \cup {n}
           /\ (\A j \in DOMAIN s : s[j] < n)
                /\ (\A j, k \in DOMAIN s : j < k => s[j] < s[k])
              => \A j, k \in DOMAIN Append(s, n) :
                     j < k => Append(s, n)[j] < Append(s, n)[k]
<1>. DEFINE t == Append(s, n)
<1>1. /\ Len(s) \in Nat /\ DOMAIN s = 1 .. Len(s)
      /\ t \in Seq(Nat) /\ Len(t) = Len(s) + 1 /\ DOMAIN t = 1 .. (Len(s) + 1)
      /\ \A j \in 1 .. Len(s) : t[j] = s[j]
      /\ t[Len(s) + 1] = n
  OBVIOUS
<1>. HIDE DEF t
<1>2. {t[j] : j \in DOMAIN t} = {s[j] : j \in DOMAIN s} \cup {n}
  BY <1>1
<1>3. ASSUME \A j \in DOMAIN s : s[j] < n,
             \A j, k \in DOMAIN s : j < k => s[j] < s[k]
      PROVE  \A j, k \in DOMAIN t : j < k => t[j] < t[k]
  BY <1>1, <1>3, SMTT(40)
<1>. QED
  BY <1>1, <1>2, <1>3 DEF t

\* A fragment merged into the partial call of its call.
LEMMA MergedTells ==
    ASSUME Reading, NEW p \in Partial, Told(p), Owner(p) = body[next].call,
           NEW q, q = Merged(p, body[next], next), style # "whole"
    PROVE  /\ q \in Partial
           /\ q.order = p.order /\ q.key = p.key /\ q.index = body[next].index
           /\ q.id = IF body[next].id # NoId THEN body[next].id ELSE p.id
           /\ Told(q)'
<1>. DEFINE it == body[next]
<1>c. PICK c \in Calls : c = it.call
  BY ReadingFacts
<1>0. p = [key |-> p.key, order |-> p.order, index |-> p.index, id |-> p.id,
           name |-> p.name, parts |-> p.parts]
  BY DEF Partial
<1>1. /\ it.index = c
      /\ q = [key |-> p.key, order |-> p.order, index |-> c,
              id |-> IF it.id # NoId THEN it.id ELSE p.id,
              name |-> IF it.named THEN name[c] ELSE p.name,
              parts |-> Append(p.parts, next)]
  <2>1. it.index = c /\ c # NoIndex /\ it.part > 0
    BY <1>c, ReadingFacts DEF NoIndex
  <2>. QED
    BY <1>0, <1>c, <2>1 DEF Merged
<1>2. p.parts \in Seq(Nat) /\ p.order \in Nat /\ p.key \in Keys
      /\ p.id \in Calls \cup {NoId} /\ p.name \in Names \cup {Unknown}
  BY DEF Partial
<1>3. /\ c \in Nat /\ it.id \in {c, NoId} /\ name[c] \in Names /\ next \in Nat
  BY <1>c, ReadingFacts
<1>4. q \in Partial
  BY <1>1, <1>2, <1>3, AppendedParts DEF Partial
<1>5. Owner(p) \in Calls /\ Owner(q)' = c /\ p.order \in Nat
  BY <1>1, <1>c, OwnerIsCall DEF Told, Owner, Reading
<1>6. Of(c)' = Of(c) \cup {next} /\ \A i \in Of(c) : i \in Nat /\ i < next
  BY <1>3, <1>c, OfNext DEF Of
<1>7. Tells(p, c)
  BY <1>c DEF Told
<1>10. /\ {p.parts[j] : j \in DOMAIN p.parts} = Of(c)
       /\ p.order \in Of(c) /\ \A i \in Of(c) : p.order <= i
  BY <1>7 DEF Tells
<1>8. Tells(q, c)'
  <2>1. {q.parts[j] : j \in DOMAIN q.parts} = Of(c)'
    <3>1. {Append(p.parts, next)[j] : j \in DOMAIN Append(p.parts, next)}
            = {p.parts[j] : j \in DOMAIN p.parts} \cup {next}
      BY <1>2, <1>3, AppendedParts
    <3>2. q.parts = Append(p.parts, next)
      BY <1>1
    <3>. QED
      BY <1>6, <1>10, <3>1, <3>2
  <2>2. \A j \in DOMAIN p.parts : p.parts[j] < next
    BY <1>6, <1>7 DEF Tells
  <2>3. \A j, k \in DOMAIN q.parts : j < k => q.parts[j] < q.parts[k]
    <3>1. \A j, k \in DOMAIN p.parts : j < k => p.parts[j] < p.parts[k]
      BY <1>7 DEF Tells
    <3>2. \A j, k \in DOMAIN Append(p.parts, next) :
             j < k => Append(p.parts, next)[j] < Append(p.parts, next)[k]
      BY <1>2, <1>3, <2>2, <3>1, AppendedParts, Zenon
    <3>3. q.parts = Append(p.parts, next)
      BY <1>1
    <3>. QED
      BY <3>2, <3>3, Zenon
  <2>4. q.order \in Of(c)' /\ \A i \in Of(c)' : q.order <= i
    <3>1. q.order = p.order
      BY <1>1
    <3>2. p.order < next
      BY <1>6, <1>10
    <3>. QED
      BY <1>3, <1>5, <1>6, <1>10, <3>1, <3>2
  <2>5. q.name = name[c]
    BY <1>1, <1>7 DEF Tells
  <2>6. q.id = IF \E i \in Of(c)' : body[i].id # NoId THEN c ELSE NoId
    BY <1>1, <1>3, <1>6, <1>7 DEF Tells
  <2>. QED
    BY <2>1, <2>3, <2>4, <2>5, <2>6 DEF Tells, Reading
<1>9. q.order \in 1 .. (next' - 1)
  BY <1>1, <1>3 DEF Told, Reading
<1>. QED
  BY <1>1, <1>4, <1>5, <1>8, <1>9 DEF Told

\* The partial call that the first item of a call makes.
LEMMA NewTells ==
    ASSUME Reading, Opens(next),
           NEW q, q = Merged(NewPartial(body[next]), body[next], next)
    PROVE  /\ q \in Partial
           /\ (Told(q) /\ Keyed(q))'
           /\ Owner(q)' = body[next].call
<1>. DEFINE it == body[next]
<1>c. PICK c \in Calls : c = it.call
  BY ReadingFacts
<1>0. /\ c \in Nat /\ it.id \in {c, NoId} /\ name[c] \in Names /\ next \in Nat
      /\ c # NoIndex /\ c # NoId /\ it.part > 0 /\ it.named /\ sequence + 1 = next
      /\ IF style = "whole" THEN it.index = NoIndex /\ it.id = c ELSE it.index = c
  BY <1>c, ReadingFacts DEF NoIndex
<1>1. Key(it) = IF it.id = NoId THEN <<"index", c>> ELSE <<"call_id", c>>
  BY <1>0 DEF Key
<1>2. q = [key |-> Key(it), order |-> next, index |-> it.index, id |-> it.id,
           name |-> name[c], parts |-> Append(<<>>, next)]
  BY <1>0, <1>c DEF Merged, NewPartial
<1>3. Key(it) \in Keys
  BY <1>0, <1>1 DEF Keys
<1>4. /\ Append(<<>>, next) \in Seq(Nat)
      /\ Append(<<>>, next) = <<next>>
  BY <1>0
<1>5. q \in Partial
  <2>1. it.index \in Nat \cup {NoIndex} /\ it.id \in Calls \cup {NoId}
          /\ name[c] \in Names \cup {Unknown}
    BY <1>0
  <2>. QED
    BY <1>0, <1>2, <1>3, <1>4, <2>1 DEF Partial
<1>6. q.order = next /\ q.key = Key(it) /\ q.index = it.index /\ q.id = it.id
        /\ q.name = name[c] /\ q.parts = <<next>>
  BY <1>2, <1>4
<1>7. Owner(q)' = c
  BY <1>6, <1>c DEF Owner, Reading
<1>8. Of(c)' = {next}
  <2>1. Of(c) = {}
    BY <1>c DEF Of, Opens
  <2>. QED
    BY <1>c, <2>1, OfNext
<1>9. Tells(q, c)'
  <2>1. {q.parts[j] : j \in DOMAIN q.parts} = Of(c)'
    BY <1>6, <1>8
  <2>2. \A j, k \in DOMAIN q.parts : j < k => q.parts[j] < q.parts[k]
    BY <1>6
  <2>3. q.order \in Of(c)' /\ \A i \in Of(c)' : q.order <= i
    BY <1>0, <1>6, <1>8
  <2>4. q.id = IF \E i \in Of(c)' : body[i].id # NoId THEN c ELSE NoId
    BY <1>0, <1>6, <1>8
  <2>. QED
    BY <1>6, <2>1, <2>2, <2>3, <2>4 DEF Tells, Reading
<1>10. q.order \in 1 .. (next' - 1)
  BY <1>0, <1>6 DEF Reading
<1>11. Keyed(q)'
  BY <1>0, <1>1, <1>6, <1>7 DEF Keyed, Reading
<1>. QED
  BY <1>c, <1>5, <1>7, <1>9, <1>10, <1>11 DEF Told

-----------------------------------------------------------------------------
(* The dictionary of partial calls *)

LEMMA PartialsFacts ==
    ASSUME Reading
    PROVE  /\ partials \in Seq(Partial) /\ Len(partials) \in Nat
           /\ DOMAIN partials = 1 .. Len(partials)
           /\ \A i \in 1 .. Len(partials) :
                  /\ partials[i] \in Partial
                  /\ Told(partials[i]) /\ Keyed(partials[i])
                  /\ Owner(partials[i]) \in Calls /\ Owner(partials[i]) \in Nat
                  /\ partials[i].id \in {Owner(partials[i]), NoId}
           /\ \A i, j \in 1 .. Len(partials) :
                  i # j => Owner(partials[i]) # Owner(partials[j])
<1>1. /\ partials \in Seq(Partial)
      /\ \A i \in 1 .. Len(partials) : Told(partials[i]) /\ Keyed(partials[i])
      /\ \A i, j \in 1 .. Len(partials) :
             i # j => Owner(partials[i]) # Owner(partials[j])
  BY DEF Reading, Reassembly
<1>2. \A i \in 1 .. Len(partials) : Owner(partials[i]) \in Calls
  BY <1>1, OwnerIsCall DEF Told
<1>3. \A i \in 1 .. Len(partials) : partials[i].id \in {Owner(partials[i]), NoId}
  BY <1>1 DEF Told, Tells
<1>4. Len(partials) \in Nat /\ DOMAIN partials = 1 .. Len(partials)
        /\ \A i \in 1 .. Len(partials) : partials[i] \in Partial
  BY <1>1
<1>5. Calls \subseteq Nat
  BY StreamAssumption
<1>. QED
  BY <1>1, <1>2, <1>3, <1>4, <1>5

\* A dictionary in which the partial call of the item's call is new or replaced,
\* and every other one is there.
LEMMA ReassemblyStep ==
    ASSUME Reading, sequence' = sequence + 1, again' = again,
           NEW s \in Seq(Partial), partials' = s,
           NEW k \in 1 .. Len(s),
           (Told(s[k]) /\ Keyed(s[k]))', Owner(s[k])' = body[next].call,
           \A j \in 1 .. Len(s) : j # k =>
               \E m \in 1 .. Len(partials) :
                   s[j] = partials[m] /\ Owner(partials[m]) # body[next].call,
           \A i, j \in 1 .. Len(s) : i # k /\ j # k /\ i # j =>
               Owner(s[i]) # Owner(s[j]),
           \A m \in 1 .. Len(partials) : Owner(partials[m]) # body[next].call =>
               \E j \in 1 .. Len(s) : j # k /\ s[j] = partials[m]
    PROVE  Reassembly'
<1>1. ASSUME NEW j \in 1 .. Len(s), j # k
      PROVE  /\ (Told(s[j]) /\ Keyed(s[j]))'
             /\ Owner(s[j])' = Owner(s[j]) /\ Owner(s[j]) # body[next].call
  <2>1. PICK m \in 1 .. Len(partials) :
               s[j] = partials[m] /\ Owner(partials[m]) # body[next].call
    BY <1>1
  <2>2. Told(s[j]) /\ Keyed(s[j])
    BY <2>1, PartialsFacts
  <2>. QED
    BY <2>1, <2>2, OthersStay, OwnerIsCall DEF Told
<1>2. \A j \in 1 .. Len(s) : (Told(s[j]) /\ Keyed(s[j]))'
  BY <1>1
<1>3. \A i, j \in 1 .. Len(s) : i # j => Owner(s[i])' # Owner(s[j])'
  BY <1>1
<1>4. ASSUME NEW c \in Calls, Of(c)' # {}
      PROVE  \E j \in 1 .. Len(s) : Owner(s[j])' = c
  <2>1. CASE c = body[next].call
    BY <2>1
  <2>2. CASE c # body[next].call
    <3>1. Of(c) # {}
      BY <1>4, <2>2, OfNext
    <3>2. PICK m \in 1 .. Len(partials) : Owner(partials[m]) = c
      BY <3>1 DEF Reading, Reassembly
    <3>3. PICK j \in 1 .. Len(s) : j # k /\ s[j] = partials[m]
      BY <2>2, <3>2
    <3>. QED
      BY <1>1, <3>2, <3>3
  <2>. QED
    BY <2>1, <2>2
<1>5. sequence' = next' - 1
  BY ReadingFacts DEF Reading
<1>. QED
  BY <1>2, <1>3, <1>4, <1>5 DEF Reassembly

\* The entry at the end of a sequence, replaced.
LEMMA LastReplaced ==
    ASSUME NEW S, NEW w \in Seq(S), NEW x, NEW y
    PROVE  [Append(w, x) EXCEPT ![Len(w) + 1] = y] = Append(w, y)
<1>. DEFINE T == S \cup {x, y}
<1>1. w \in Seq(T) /\ x \in T /\ y \in T /\ Len(w) \in Nat
  OBVIOUS
<1>. HIDE DEF T
<1>2. /\ Append(w, x) \in Seq(T) /\ DOMAIN Append(w, x) = 1 .. (Len(w) + 1)
      /\ Append(w, y) \in Seq(T) /\ DOMAIN Append(w, y) = 1 .. (Len(w) + 1)
      /\ \A j \in 1 .. Len(w) : Append(w, x)[j] = w[j] /\ Append(w, y)[j] = w[j]
      /\ Append(w, y)[Len(w) + 1] = y
  BY <1>1
<1>. DEFINE u == Append(w, x)
            v == [u EXCEPT ![Len(w) + 1] = y]
<1>3. /\ u \in Seq(T) /\ Len(u) = Len(w) + 1 /\ Len(w) + 1 \in 1 .. Len(u)
      /\ Append(w, y) \in Seq(T) /\ Len(Append(w, y)) = Len(w) + 1
  BY <1>1
<1>7. \A j \in 1 .. Len(w) : u[j] = w[j]
  BY <1>2
<1>. HIDE DEF u
<1>4. /\ v \in Seq(T) /\ Len(v) = Len(u)
      /\ \A j \in 1 .. Len(u) : v[j] = IF j = Len(w) + 1 THEN y ELSE u[j]
  BY <1>1, <1>3, ExceptSeq
<1>5. \A j \in 1 .. Len(u) : v[j] = Append(w, y)[j]
  <2>1. \A j \in 1 .. Len(u) : j # Len(w) + 1 => j \in 1 .. Len(w)
    BY <1>1, <1>3
  <2>. QED
    BY <1>2, <1>4, <1>7, <2>1
<1>. HIDE DEF v
<1>6. v = Append(w, y)
  BY <1>3, <1>4, <1>5, SeqEqual
<1>. QED
  BY <1>6 DEF u, v

\* A key tells of which call it is.
LEMMA KeysOfPartials ==
    ASSUME Reading, NEW j \in 1 .. Len(partials), NEW c, Owner(partials[j]) # c
    PROVE  /\ partials[j].key # <<"index", c>>
           /\ partials[j].key # <<"call_id", c>>
           /\ partials[j].index = NoIndex \/ partials[j].index # c
<1>. DEFINE d == Owner(partials[j])
<1>1. /\ partials[j].key = <<"index", d>> \/ partials[j].key = <<"call_id", d>>
      /\ partials[j].index = NoIndex \/ partials[j].index = d
  BY PartialsFacts DEF Keyed
<1>2. <<"index", d>> # <<"index", c>> /\ <<"call_id", d>> # <<"call_id", c>>
        /\ <<"index", d>> # <<"call_id", c>> /\ <<"call_id", d>> # <<"index", c>>
  OBVIOUS
<1>. QED
  BY <1>1, <1>2

LEMMA WithoutOne ==
    ASSUME NEW S, NEW s \in Seq(S), NEW i \in 1 .. Len(s)
    PROVE  /\ Without(s, i) \in Seq(S) /\ Len(Without(s, i)) = Len(s) - 1
           /\ \A j \in 1 .. (Len(s) - 1) :
                  Without(s, i)[j] = IF j < i THEN s[j] ELSE s[j + 1]
<1>. DEFINE a == SubSeq(s, 1, i - 1)
            b == SubSeq(s, i + 1, Len(s))
<1>1. Len(s) \in Nat /\ i \in Nat /\ 1 <= i /\ i <= Len(s)
  OBVIOUS
<1>2. a \in Seq(S) /\ Len(a) = i - 1 /\ \A j \in 1 .. (i - 1) : a[j] = s[j]
  BY <1>1
<1>3. /\ b \in Seq(S) /\ Len(b) = Len(s) - i
      /\ \A j \in 1 .. (Len(s) - i) : b[j] = s[j + i]
  BY <1>1
<1>. HIDE DEF a, b
<1>4. /\ a \o b \in Seq(S) /\ Len(a \o b) = Len(s) - 1
      /\ \A j \in 1 .. (Len(s) - 1) :
             (a \o b)[j] = IF j < i THEN s[j] ELSE s[j + 1]
  <2>1. a \o b \in Seq(S) /\ Len(a \o b) = Len(s) - 1
    <3>1. a \o b \in Seq(S) /\ Len(a \o b) = Len(a) + Len(b)
      BY <1>2, <1>3, ConcatProperties
    <3>. QED
      BY <1>1, <1>2, <1>3, <3>1
  <2>2. ASSUME NEW j \in 1 .. (Len(s) - 1)
        PROVE  (a \o b)[j] = IF j < i THEN s[j] ELSE s[j + 1]
    <3>1. CASE j < i
      <4>1. (a \o b)[j] = a[j] /\ j \in 1 .. (i - 1)
        BY <1>1, <1>2, <1>3, <3>1
      <4>. QED
        BY <1>2, <3>1, <4>1
    <3>2. CASE ~(j < i)
      <4>1. (a \o b)[j] = b[j - (i - 1)] /\ j - (i - 1) \in 1 .. (Len(s) - i)
        BY <1>1, <1>2, <1>3, <3>2
      <4>2. (j - (i - 1)) + i = j + 1
        BY <1>1
      <4>. QED
        BY <1>3, <3>2, <4>1, <4>2
    <3>. QED
      BY <3>1, <3>2
  <2>. QED
    BY <2>1, <2>2
<1>. QED
  BY <1>4 DEF Without, a, b

\* The first item of a call adds its partial call at the end.
LEMMA FirstIsAppended ==
    ASSUME Reading, Opens(next)
    PROVE  Merge(body[next], next)
               = Append(partials, Merged(NewPartial(body[next]), body[next], next))
<1>. DEFINE it == body[next]
            c == it.call
<1>1. \A i \in 1 .. Len(partials) : Owner(partials[i]) # c
  <2>1. \A i \in 1 .. Len(partials) : partials[i].order \in 1 .. (next - 1)
    BY PartialsFacts DEF Told
  <2>. QED
    BY <2>1 DEF Opens, Owner
<1>2. /\ c \in Nat /\ it.id \in {c, NoId} /\ c # NoId /\ c # NoIndex
      /\ IF style = "whole" THEN it.index = NoIndex /\ it.id = c ELSE it.index = c
  BY ReadingFacts DEF NoIndex
<1>3. ~Has(partials, <<"index", c>>) /\ ~Has(partials, <<"call_id", c>>)
  BY <1>1, PartialsFacts, KeysOfPartials DEF Has
<1>4. Key(it) \in {<<"index", c>>, <<"call_id", c>>}
  BY <1>2 DEF Key
<1>5. Rekeyed(it) = partials
  <2>1. it.index # NoIndex => <<"index", it.index>> = <<"index", c>>
    BY <1>2
  <2>. QED
    BY <1>3, <2>1 DEF Rekeyed
<1>6. WithIndex(partials, it) = {}
  BY <1>1, <1>2, PartialsFacts, KeysOfPartials DEF WithIndex
<1>. QED
  BY <1>3, <1>4, <1>5, <1>6 DEF Merge

\* A later item of a call is merged where its partial call is, or goes to the end
\* with it when it brings the id.
LEMMA LaterIsMerged ==
    ASSUME Reading, ~Opens(next)
    PROVE  \E i \in 1 .. Len(partials) :
               LET it == body[next]
                   p == partials[i]
               IN  /\ Owner(p) = it.call
                   /\ \/ /\ Merge(it, next)
                                = [partials EXCEPT ![i] = Merged(p, it, next)]
                         /\ it.id # NoId => p.id # NoId
                      \/ /\ Merge(it, next)
                                = Append(Without(partials, i),
                                         Merged([p EXCEPT !.key = <<"call_id", it.call>>],
                                                it, next))
                         /\ it.id # NoId
<1>. DEFINE it == body[next]
            c == it.call
<1>1. /\ c \in Nat /\ c \in Calls /\ it.id \in {c, NoId} /\ c # NoId
      /\ c # NoIndex /\ style # "whole" /\ it.index = c
  BY ReadingFacts DEF NoIndex
<1>2. Of(c) # {}
  BY ReadingFacts DEF Opens, Of
<1>3. PICK i \in 1 .. Len(partials) : Owner(partials[i]) = c
  BY <1>1, <1>2 DEF Reading, Reassembly
<1>. DEFINE p == partials[i]
            byId == <<"call_id", c>>
            byIndex == <<"index", c>>
<1>4. /\ p.key = IF p.id = NoId THEN byIndex ELSE byId
      /\ p.index = c /\ p.id \in {c, NoId}
  BY <1>1, <1>3, PartialsFacts DEF Keyed
<1>5. \A j \in 1 .. Len(partials) : j # i =>
          partials[j].key \notin {byId, byIndex} /\ partials[j].index # c
  <2>1. \A j \in 1 .. Len(partials) : j # i => Owner(partials[j]) # c
    BY <1>3, PartialsFacts
  <2>. QED
    BY <1>1, <2>1, KeysOfPartials
<1>6. DOMAIN partials = 1 .. Len(partials)
  BY PartialsFacts
<1>7. /\ Has(partials, byId) <=> p.key = byId
      /\ Has(partials, byIndex) <=> p.key = byIndex
      /\ PlaceOf(partials, p.key) = i
  BY <1>3, <1>4, <1>5, <1>6 DEF Has, PlaceOf
<1>8. WithIndex(partials, it) = {i} /\ FirstWithIndex(partials, it) = i
  <2>1. WithIndex(partials, it) = {i}
    BY <1>1, <1>3, <1>4, <1>5, <1>6 DEF WithIndex
  <2>2. i <= i
    BY <1>3, PartialsFacts
  <2>. QED
    BY <2>1, <2>2 DEF FirstWithIndex
<1>9. Key(it) = IF it.id = NoId THEN byIndex ELSE byId
  BY <1>1 DEF Key
<1>10. byId # byIndex
  OBVIOUS
<1>11. CASE it.id = NoId
  <2>1. Rekeyed(it) = partials /\ Key(it) = byIndex
    BY <1>9, <1>11 DEF Rekeyed
  <2>2. Merge(it, next) = [partials EXCEPT ![i] = Merged(p, it, next)]
    <3>1. CASE p.key = byIndex
      BY <1>7, <2>1, <3>1 DEF Merge
    <3>2. CASE p.key # byIndex
      BY <1>3, <1>7, <1>8, <2>1, <3>2 DEF Merge
    <3>. QED
      BY <3>1, <3>2
  <2>. QED
    BY <1>3, <1>11, <2>2
<1>12. CASE it.id # NoId /\ p.id # NoId
  <2>1. Key(it) = byId /\ p.key = byId
    BY <1>4, <1>9, <1>12
  <2>2. Rekeyed(it) = partials
    BY <1>7, <2>1 DEF Rekeyed
  <2>3. Merge(it, next) = [partials EXCEPT ![i] = Merged(p, it, next)]
    BY <1>7, <2>1, <2>2 DEF Merge
  <2>. QED
    BY <1>3, <1>12, <2>3
<1>13. CASE it.id # NoId /\ p.id = NoId
  <2>. DEFINE new == [p EXCEPT !.key = byId]
              w == Without(partials, i)
              s == Append(w, new)
  <2>1. Key(it) = byId /\ p.key = byIndex /\ ~Has(partials, byId)
          /\ Has(partials, byIndex) /\ PlaceOf(partials, byIndex) = i
    BY <1>4, <1>7, <1>9, <1>10, <1>13
  <2>2. Rekeyed(it) = s
    <3>1. it.index # NoIndex /\ <<"index", it.index>> = byIndex
      BY <1>1
    <3>. QED
      BY <1>13, <2>1, <3>1 DEF Rekeyed
  <2>3. /\ p \in Partial /\ new.key = byId
        /\ w \in Seq(Partial) /\ Len(w) = Len(partials) - 1
        /\ \A j \in 1 .. Len(w) : w[j].key # byId
    <3>1. /\ w \in Seq(Partial) /\ Len(w) = Len(partials) - 1
          /\ \A j \in 1 .. Len(w) : \E m \in 1 .. Len(partials) : w[j] = partials[m]
      <4>1. /\ w \in Seq(Partial) /\ Len(w) = Len(partials) - 1
            /\ \A j \in 1 .. (Len(partials) - 1) :
                   w[j] = IF j < i THEN partials[j] ELSE partials[j + 1]
        BY <1>3, WithoutOne, PartialsFacts
      <4>2. \A j \in 1 .. (Len(partials) - 1) :
                j \in 1 .. Len(partials) /\ j + 1 \in 1 .. Len(partials)
        BY PartialsFacts
      <4>. HIDE DEF w
      <4>. QED
        BY <4>1, <4>2
    <3>2. p \in Partial
      BY <1>3, PartialsFacts
    <3>3. new.key = byId
      BY <3>2 DEF Partial
    <3>4. \A m \in 1 .. Len(partials) : partials[m].key # byId
      BY <1>6, <2>1 DEF Has
    <3>. QED
      BY <3>1, <3>2, <3>3, <3>4, SMTT(40)
  <2>. HIDE DEF new, w
  <2>4. /\ Len(s) = Len(w) + 1 /\ DOMAIN s = 1 .. (Len(w) + 1) /\ Len(w) \in Nat
        /\ s[Len(w) + 1] = new /\ \A j \in 1 .. Len(w) : s[j] = w[j]
    BY <2>3
  <2>5. Has(s, byId) /\ PlaceOf(s, byId) = Len(w) + 1
    BY <2>3, <2>4 DEF Has, PlaceOf
  <2>6. Merge(it, next) = [s EXCEPT ![Len(w) + 1] = Merged(new, it, next)]
    BY <2>1, <2>2, <2>4, <2>5 DEF Merge
  <2>7. [s EXCEPT ![Len(w) + 1] = Merged(new, it, next)]
            = Append(w, Merged(new, it, next))
    BY <2>3, LastReplaced
  <2>. QED
    BY <1>3, <1>13, <2>6, <2>7 DEF new, w
<1>. QED
  BY <1>11, <1>12, <1>13

-----------------------------------------------------------------------------
(* Every item that is read keeps the dictionary right. *)

LEMMA AfterFirst ==
    ASSUME Reading, Opens(next), sequence' = sequence + 1, again' = again,
           partials' = Merge(body[next], next)
    PROVE  Reassembly'
<1>1. PICK q : q = Merged(NewPartial(body[next]), body[next], next)
  OBVIOUS
<1>2. q \in Partial /\ (Told(q) /\ Keyed(q))' /\ Owner(q)' = body[next].call
  BY <1>1, NewTells
<1>3. PICK s : s = Append(partials, q)
  OBVIOUS
<1>4. partials' = s
  BY <1>1, <1>3, FirstIsAppended
<1>5. PICK k \in Nat : k = Len(partials) + 1
  BY PartialsFacts
<1>6. /\ s \in Seq(Partial) /\ Len(s) = k /\ k \in 1 .. Len(s) /\ s[k] = q
      /\ \A j \in 1 .. Len(partials) : s[j] = partials[j] /\ j \in 1 .. Len(s)
      /\ \A j \in 1 .. Len(s) : j # k => j \in 1 .. Len(partials)
      /\ \A j \in 1 .. Len(partials) : j # k
  BY <1>2, <1>3, <1>5, PartialsFacts
<1>7. \A m \in 1 .. Len(partials) : Owner(partials[m]) # body[next].call
  <2>1. \A m \in 1 .. Len(partials) : partials[m].order \in 1 .. (next - 1)
    BY PartialsFacts DEF Told
  <2>. QED
    BY <2>1 DEF Opens, Owner
<1>8. \A i, j \in 1 .. Len(s) : i # k /\ j # k /\ i # j =>
          Owner(s[i]) # Owner(s[j])
  BY <1>6, PartialsFacts
<1>. QED
  BY <1>2, <1>4, <1>6, <1>7, <1>8, ReassemblyStep

\* The same partial call, with the item merged in, where it was.
LEMMA AfterMergeInPlace ==
    ASSUME Reading, ~Opens(next), sequence' = sequence + 1, again' = again,
           NEW i \in 1 .. Len(partials), Owner(partials[i]) = body[next].call,
           body[next].id # NoId => partials[i].id # NoId,
           partials' = [partials EXCEPT ![i] =
                            Merged(partials[i], body[next], next)]
    PROVE  Reassembly'
<1>c. PICK c \in Calls : c = body[next].call /\ c # NoId
  BY ReadingFacts
<1>0. PICK p : p = partials[i]
  OBVIOUS
<1>1. PICK q : q = Merged(p, body[next], next)
  OBVIOUS
<1>2. /\ style # "whole" /\ body[next].index = c /\ body[next].id \in {c, NoId}
      /\ p \in Partial /\ Told(p) /\ Keyed(p) /\ Owner(p) = c
      /\ p.id \in {c, NoId}
  BY <1>c, <1>0, ReadingFacts, PartialsFacts
<1>3. /\ q \in Partial /\ q.order = p.order /\ q.key = p.key /\ q.index = c
      /\ q.id = IF body[next].id # NoId THEN body[next].id ELSE p.id
      /\ Told(q)'
  BY <1>c, <1>1, <1>2, MergedTells
<1>4. Owner(q)' = c
  <2>1. Owner(p)' = c
    BY <1>2, OwnerIsCall DEF Told
  <2>. QED
    BY <1>3, <2>1 DEF Owner
<1>5. Keyed(q)'
  <2>1. q.key = IF q.id = NoId THEN <<"index", c>> ELSE <<"call_id", c>>
    BY <1>c, <1>0, <1>2, <1>3 DEF Keyed
  <2>. QED
    BY <1>2, <1>3, <1>4, <2>1 DEF Keyed, Reading
<1>6. PICK s : s = [partials EXCEPT ![i] = q]
  OBVIOUS
<1>7. /\ s \in Seq(Partial) /\ Len(s) = Len(partials) /\ s[i] = q
      /\ \A j \in 1 .. Len(partials) : j # i => s[j] = partials[j]
  BY <1>3, <1>6, PartialsFacts, ExceptSeq
<1>8. \A m \in 1 .. Len(partials) : m # i => Owner(partials[m]) # c
  BY <1>0, <1>2, PartialsFacts
<1>9. \A j, m \in 1 .. Len(s) : j # i /\ m # i /\ j # m =>
          Owner(s[j]) # Owner(s[m])
  BY <1>7, PartialsFacts
<1>10. \A m \in 1 .. Len(partials) : Owner(partials[m]) # c =>
           \E j \in 1 .. Len(s) : j # i /\ s[j] = partials[m]
  BY <1>0, <1>2, <1>7
<1>11. partials' = s
  BY <1>0, <1>1, <1>6
<1>. QED
  BY <1>c, <1>3, <1>4, <1>5, <1>7, <1>8, <1>9, <1>10, <1>11, ReassemblyStep

\* The partial call gets the id of its call for a key and goes to the end.
LEMMA AfterRekeying ==
    ASSUME Reading, ~Opens(next), sequence' = sequence + 1, again' = again,
           NEW i \in 1 .. Len(partials), Owner(partials[i]) = body[next].call,
           body[next].id # NoId,
           partials' = Append(Without(partials, i),
                              Merged([partials[i] EXCEPT !.key =
                                          <<"call_id", body[next].call>>],
                                     body[next], next))
    PROVE  Reassembly'
<1>c. PICK c \in Calls : c = body[next].call /\ c # NoId
  BY ReadingFacts
<1>0. PICK p : p = [partials[i] EXCEPT !.key = <<"call_id", c>>]
  OBVIOUS
<1>1. PICK q : q = Merged(p, body[next], next)
  OBVIOUS
<1>2. /\ style # "whole" /\ body[next].index = c /\ body[next].id = c
      /\ partials[i] \in Partial /\ Told(partials[i]) /\ Owner(partials[i]) = c
  BY <1>c, ReadingFacts, PartialsFacts
<1>3. /\ p \in Partial /\ p.key = <<"call_id", c>> /\ p.order = partials[i].order
      /\ p.name = partials[i].name /\ p.id = partials[i].id
      /\ p.parts = partials[i].parts
  <2>1. <<"call_id", c>> \in Keys
    BY DEF Keys
  <2>. QED
    BY <1>0, <1>2, <2>1 DEF Partial
<1>4. Told(p) /\ Owner(p) = c
  BY <1>2, <1>3 DEF Told, Tells, Owner
<1>5. /\ q \in Partial /\ q.order = p.order /\ q.key = <<"call_id", c>>
      /\ q.index = c /\ q.id = c /\ Told(q)'
  BY <1>c, <1>1, <1>2, <1>3, <1>4, MergedTells
<1>6. Owner(q)' = c
  <2>1. Owner(p)' = c
    BY <1>4, OwnerIsCall DEF Told
  <2>. QED
    BY <1>5, <2>1 DEF Owner
<1>7. Keyed(q)'
  BY <1>c, <1>2, <1>5, <1>6 DEF Keyed, Reading
<1>8. PICK w : w = Without(partials, i)
  BY SMTT(40)
<1>9. /\ w \in Seq(Partial) /\ Len(w) = Len(partials) - 1
      /\ \A j \in 1 .. (Len(partials) - 1) :
             w[j] = IF j < i THEN partials[j] ELSE partials[j + 1]
  BY <1>8, WithoutOne, PartialsFacts
<1>10. PICK k \in Nat : k = Len(partials)
  BY PartialsFacts
<1>11. PICK s : s = Append(w, q)
  OBVIOUS
<1>12. /\ s \in Seq(Partial) /\ Len(s) = k /\ k \in 1 .. Len(s) /\ s[k] = q
       /\ i \in Nat /\ 1 <= i /\ i <= k
       /\ \A j \in 1 .. (k - 1) : s[j] = w[j]
  <2>1. Len(w) = k - 1 /\ k \in Nat /\ i \in 1 .. k
    BY <1>9, <1>10
  <2>. QED
    BY <1>5, <1>9, <1>11, <2>1
<1>13. \A j \in 1 .. Len(s) : j # k =>
           s[j] = IF j < i THEN partials[j] ELSE partials[j + 1]
  <2>1. \A j \in 1 .. Len(s) : j # k => j \in 1 .. (k - 1)
    BY <1>12
  <2>2. \A j \in 1 .. (k - 1) :
            w[j] = IF j < i THEN partials[j] ELSE partials[j + 1]
    BY <1>9, <1>10
  <2>. QED
    BY <1>12, <2>1, <2>2
<1>14. \A m \in 1 .. Len(partials) : m # i => Owner(partials[m]) # c
  BY <1>2, PartialsFacts
<1>15. \A j \in 1 .. Len(s) : j # k =>
           \E m \in 1 .. Len(partials) :
               s[j] = partials[m] /\ Owner(partials[m]) # c
  <2>1. ASSUME NEW j \in 1 .. Len(s), j # k
        PROVE  \E m \in 1 .. Len(partials) : m # i /\ s[j] = partials[m]
    <3>1. CASE j < i
      BY <1>10, <1>12, <1>13, <2>1, <3>1
    <3>2. CASE ~(j < i)
      <4>1. j + 1 \in 1 .. Len(partials) /\ j + 1 # i /\ s[j] = partials[j + 1]
        BY <1>10, <1>12, <1>13, <2>1, <3>2
      <4>. QED
        BY <4>1
    <3>. QED
      BY <3>1, <3>2
  <2>. QED
    BY <1>14, <2>1
<1>16. \A j, m \in 1 .. Len(s) : j # k /\ m # k /\ j # m =>
           Owner(s[j]) # Owner(s[m])
  <2>. DEFINE g(j) == IF j < i THEN j ELSE j + 1
  <2>1. ASSUME NEW j \in 1 .. Len(s), NEW m \in 1 .. Len(s),
               j # k, m # k, j # m
        PROVE  /\ g(j) \in 1 .. Len(partials) /\ g(m) \in 1 .. Len(partials)
               /\ g(j) # g(m)
    BY <1>10, <1>12, <2>1
  <2>2. \A j \in 1 .. Len(s) : j # k => s[j] = partials[g(j)]
    BY <1>13
  <2>. HIDE DEF g
  <2>. QED
    BY <2>1, <2>2, PartialsFacts
<1>17. \A m \in 1 .. Len(partials) : Owner(partials[m]) # c =>
           \E j \in 1 .. Len(s) : j # k /\ s[j] = partials[m]
  <2>. SUFFICES ASSUME NEW m \in 1 .. Len(partials), Owner(partials[m]) # c
                PROVE  \E j \in 1 .. Len(s) : j # k /\ s[j] = partials[m]
    OBVIOUS
  <2>1. m # i
    BY <1>2
  <2>2. CASE m < i
    <3>1. m \in 1 .. Len(s) /\ m # k /\ s[m] = partials[m]
      BY <1>10, <1>12, <1>13, <2>2
    <3>. QED
      BY <3>1
  <2>3. CASE m > i
    <3>1. m - 1 \in 1 .. Len(s) /\ m - 1 # k /\ ~(m - 1 < i) /\ (m - 1) + 1 = m
      BY <1>10, <1>12, <2>3
    <3>2. s[m - 1] = partials[m]
      BY <1>13, <3>1
    <3>. QED
      BY <3>1, <3>2
  <2>. QED
    BY <1>12, <2>1, <2>2, <2>3
<1>18. partials' = s
  BY <1>c, <1>0, <1>1, <1>8, <1>11
<1>. QED
  <2>1. /\ s \in Seq(Partial) /\ k \in 1 .. Len(s)
        /\ (Told(s[k]) /\ Keyed(s[k]))' /\ Owner(s[k])' = body[next].call
    BY <1>c, <1>5, <1>6, <1>7, <1>12
  <2>. QED
    BY <1>c, <1>15, <1>16, <1>17, <1>18, <2>1, ReassemblyStep

LEMMA NextReassembly == Counting /\ Reassembly /\ [Next]_vars => Reassembly'
<1>. SUFFICES ASSUME Counting, Reassembly, [Next]_vars PROVE Reassembly'
  OBVIOUS
<1>1. ASSUME NEW c \in Calls, Relay(c)
      PROVE  Reassembly'
  <2>1. /\ partials' = <<>> /\ next' = 1 /\ sequence' = 0
    BY <1>1 DEF Relay, Counting, Typed
  <2>2. Len(partials') = 0 /\ partials' \in Seq(Partial) /\ 1 .. (next' - 1) = {}
    BY <2>1
  <2>3. \A d \in Calls : Of(d)' = {}
    BY <2>2 DEF Of
  <2>. QED
    BY <2>1, <2>2, <2>3 DEF Reassembly
<1>2. CASE ReadItem
  <2>. SUFFICES ASSUME style \in Reassembled, ~again PROVE Reassembly'
    BY <1>2 DEF ReadItem, Reassembly
  <2>1. next \in 1 .. Len(body)
    BY <1>2, ItemsOfBody DEF ReadItem, Counting, Typed
  <2>2. Reading
    BY <1>2, <2>1 DEF Reading, ReadItem
  <2>3. LooksLikeCall(body[next])
    BY <2>2, ReadingFacts DEF LooksLikeCall, NoIndex
  <2>4. /\ partials' = Merge(body[next], next)
        /\ sequence' = sequence + 1 /\ again' = again
    BY <1>2, <2>3 DEF ReadItem
  <2>5. CASE Opens(next)
    BY <2>2, <2>4, <2>5, AfterFirst
  <2>6. CASE ~Opens(next)
    BY <2>2, <2>4, <2>6, LaterIsMerged, AfterMergeInPlace, AfterRekeying
  <2>. QED
    BY <2>5, <2>6
<1>3. CASE BodyRead
  <2>1. CASE form = "line" /\ ~again
    BY <1>3, <2>1 DEF BodyRead, Reassembly
  <2>2. CASE ~(form = "line" /\ ~again)
    <3>1. UNCHANGED <<style, name, body, next, again, sequence, partials>>
      BY <1>3, <2>2 DEF BodyRead
    <3>. QED
      BY <3>1 DEF Reassembly, Told, Keyed, Tells, Owner, Of
  <2>. QED
    BY <2>1, <2>2
<1>4. CASE Captured \/ UNCHANGED vars
  <2>1. UNCHANGED <<style, name, body, next, again, sequence, partials>>
    BY <1>4 DEF Captured, vars
  <2>. QED
    BY <2>1 DEF Reassembly, Told, Keyed, Tells, Owner, Of
<1>. QED
  BY <1>1, <1>2, <1>3, <1>4 DEF Next

LEMMA ReassemblyAlways == Spec => []Reassembly
<1>1. Init => Reassembly
  <2>. SUFFICES ASSUME Init PROVE Reassembly
    OBVIOUS
  <2>1. /\ partials \in Seq(Partial) /\ Len(partials) = 0
        /\ sequence = 0 /\ next = 1
    BY DEF Init
  <2>2. \A c \in Calls : Of(c) = {}
    BY <2>1 DEF Of
  <2>. QED
    BY <2>1, <2>2 DEF Reassembly
<1>. QED
  BY <1>1, NextReassembly, CountingAlways, PTL DEF Spec

\* For any number of calls and items, in any interleaving of their fragments: of
\* a body that is read once the partial calls are the calls read so far, each
\* with its name, its id and all its arguments in order.
THEOREM FragmentsAreReassembled == Spec => []CallsReassembled
<1>1. Counting /\ Reassembly => CallsReassembled
  <2>. SUFFICES ASSUME Counting, Reassembly, style \in Reassembled, ~again
                PROVE  /\ \A c \in Calls : Of(c) # {} =>
                              \E i \in DOMAIN partials : Tells(partials[i], c)
                       /\ \A i \in DOMAIN partials : \E c \in Calls :
                              Of(c) # {} /\ Tells(partials[i], c)
                       /\ \A i, j \in DOMAIN partials :
                              i # j => partials[i].order # partials[j].order
    BY DEF CallsReassembled, Reassembled
  <2>1. /\ DOMAIN partials = 1 .. Len(partials)
        /\ \A i \in 1 .. Len(partials) : Tells(partials[i], Owner(partials[i]))
    BY DEF Reassembly, Told
  <2>2. \A i \in 1 .. Len(partials) :
            partials[i].order \in 1 .. (next - 1)
    BY DEF Reassembly, Told
  <2>3. ASSUME NEW i \in 1 .. Len(partials)
        PROVE  /\ Owner(partials[i]) \in Calls
               /\ partials[i].order \in Of(Owner(partials[i]))
    <3>1. partials[i].order \in 1 .. Len(body)
      BY <2>2, ItemsOfBody DEF Counting, Typed
    <3>. QED
      BY <2>2, <3>1, ItemsOfBody DEF Owner, Of, Counting
  <2>4. \A i, j \in 1 .. Len(partials) :
            i # j => partials[i].order # partials[j].order
    BY DEF Reassembly, Owner
  <2>5. \A c \in Calls : Of(c) # {} =>
            \E i \in 1 .. Len(partials) : Owner(partials[i]) = c
    BY DEF Reassembly
  <2>. QED
    BY <2>1, <2>3, <2>4, <2>5
<1>. QED
  BY <1>1, CountingAlways, ReassemblyAlways, PTL
=============================================================================
