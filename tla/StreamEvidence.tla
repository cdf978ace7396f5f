--------------------------- MODULE StreamEvidence ---------------------------
(* _extract_tool_evidence_details of gripprobe/telemetry_proxy.py: from the body
   of a response, as far as it was captured, to the tool calls the event of a
   request tells of.  A backend sends the calls of the model in items, whole or
   in fragments and those of several calls interleaved; the proxy reads the items
   one after another.

   A payload is its tool call items, in the order the recursion over its values
   meets them; the text of arguments is the place of the item that carried it. *)
EXTENDS Integers, Sequences, FiniteSets

CONSTANTS
    Calls,       \* the calls the model makes in a response; each is its own id
    Names,       \* names of tools
    Styles,      \* how backends write calls
    Forms,       \* the bodies they come in
    MaxItems     \* bound: items of a body

AllStyles == {"openai", "repeat", "late", "whole", "same_index", "responses",
              "typed", "native"}
AllForms == {"stream", "line", "pretty"}
Unknown == "unknown"
NoId == 0
NoIndex == -1

ASSUME StreamAssumption ==
    /\ Calls \subseteq Nat \ {NoId}
    /\ Unknown \notin Names
    /\ Styles \subseteq AllStyles /\ Forms \subseteq AllForms
    /\ MaxItems \in Nat

\* typed: its type is function_call or tool_call, if not it has an object
\* "function"; named: the name is in it; part: which part of the arguments it
\* carries, 0 for none.
Item == [call : Calls, typed : BOOLEAN, id : Calls \cup {NoId},
         index : Nat \cup {NoIndex}, named : BOOLEAN, part : Nat]

Keys == ({"call_id"} \X Calls) \cup ({"index"} \X Nat) \cup ({"anonymous"} \X Nat)
Partial == [key : Keys, order : Nat, index : Nat \cup {NoIndex},
            id : Calls \cup {NoId}, name : Names \cup {Unknown},
            parts : Seq(Nat)]

VARIABLES
    style, form,   \* of the backend
    name,          \* the tool each call is for
    body,          \* the items that were captured
    at,            \* what the proxy is doing
    next,          \* the item it reads
    again,         \* the body is read for the second time
    sequence,
    partials,      \* in the order of insertion; by `order` they are the details
    calls          \* structured_calls without duplicates: names and ids

vars == <<style, form, name, body, at, next, again, sequence, partials, calls>>

Init ==
    /\ style \in Styles
    /\ form \in Forms
    /\ name \in [Calls -> Names]
    /\ body = <<>>
    /\ at = "relay"
    /\ next = 1
    /\ again = FALSE
    /\ sequence = 0
    /\ partials = <<>>
    /\ calls = {}

-----------------------------------------------------------------------------
(* The backend *)

Begun(c) == \E i \in DOMAIN body : body[i].call = c
Items(c) == Cardinality({i \in DOMAIN body : body[i].call = c})

\* openai: id and name come with the first fragment, the others have the index
\* only; repeat: each has the id; late: it comes with the second.  whole: one item
\* with an id for each call; same_index: with index 0 besides.  responses: typed
\* items, in a stream first without arguments and then with all of them, twice;
\* typed: one, without id; native: one of which nothing but the name is known.
OneItem == form # "stream" \/ style \in {"whole", "same_index", "typed", "native"}

HasId(c) == CASE style \in {"whole", "same_index", "repeat", "responses"} -> TRUE
              [] style \in {"typed", "native"} -> FALSE
              [] style = "openai" -> ~Begun(c)
              [] style = "late" -> Begun(c) \/ OneItem

ItemOf(c) ==
    [call |-> c,
     typed |-> style \in {"responses", "typed"},
     id |-> IF HasId(c) THEN c ELSE NoId,
     index |-> CASE style \in {"openai", "repeat", "late"} -> c
                 [] style = "same_index" -> 0
                 [] style \in {"whole", "responses", "typed", "native"} -> NoIndex,
     named |-> ~Begun(c) \/ style = "responses",
     part |-> IF style = "responses" /\ ~OneItem
                THEN IF Begun(c) THEN 1 ELSE 0
                ELSE Items(c) + 1]

\* The response goes on by an item of a call, old or new.
Relay(c) ==
    /\ at = "relay" /\ Len(body) < MaxItems
    /\ Begun(c) => ~OneItem
    /\ body' = Append(body, ItemOf(c))
    /\ UNCHANGED <<style, form, name, at, next, again, sequence, partials,
                   calls>>

\* The body ends, breaks off or is cut at _STREAM_CAPTURE_LIMIT: what is cut is
\* no JSON any more and is skipped.
Captured ==
    /\ at = "relay"
    /\ at' = "extract"
    /\ UNCHANGED <<style, form, name, body, next, again, sequence, partials,
                   calls>>

-----------------------------------------------------------------------------
(* _merge_tool_call_item *)

Key(item) == IF item.id # NoId THEN <<"call_id", item.id>>
             ELSE IF item.index # NoIndex THEN <<"index", item.index>>
             ELSE <<"anonymous", sequence + 1>>

Has(s, key) == \E i \in DOMAIN s : s[i].key = key
PlaceOf(s, key) == CHOOSE i \in DOMAIN s : s[i].key = key
Without(s, i) == SubSeq(s, 1, i - 1) \o SubSeq(s, i + 1, Len(s))

\* A call that was known by its index only gets its id for a key, and goes to
\* the end of the dictionary.
Rekeyed(item) ==
    LET old == <<"index", item.index>>
        i == PlaceOf(partials, old)
    IN  IF /\ item.id # NoId /\ item.index # NoIndex
           /\ ~Has(partials, Key(item)) /\ Has(partials, old)
          THEN Append(Without(partials, i), [partials[i] EXCEPT !.key = Key(item)])
          ELSE partials

\* The first partial with the index of the item.
WithIndex(s, item) == {i \in DOMAIN s : item.index # NoIndex /\ s[i].index = item.index}
FirstWithIndex(s, item) == CHOOSE i \in WithIndex(s, item) :
                               \A j \in WithIndex(s, item) : i <= j

Merged(partial, item, place) ==
    [partial EXCEPT
        !.id = IF item.id # NoId THEN item.id ELSE @,
        !.index = IF item.index # NoIndex THEN item.index ELSE @,
        !.name = IF item.named THEN name[item.call] ELSE @,
        !.parts = IF item.part > 0 THEN Append(@, place) ELSE @]

NewPartial(item) ==
    [key |-> Key(item), order |-> sequence + 1, index |-> item.index,
     id |-> NoId, name |-> Unknown, parts |-> <<>>]

\* Variant: a fragment that has only its index is not found by it.
MergeByKey(item, place) ==
    LET s == Rekeyed(item)
    IN  IF Has(s, Key(item))
          THEN [s EXCEPT ![PlaceOf(s, Key(item))] = Merged(@, item, place)]
        ELSE Append(s, Merged(NewPartial(item), item, place))

Merge(item, place) ==
    LET s == Rekeyed(item)
    IN  IF Has(s, Key(item))
          THEN [s EXCEPT ![PlaceOf(s, Key(item))] = Merged(@, item, place)]
        ELSE IF WithIndex(s, item) # {}
          THEN [s EXCEPT ![FirstWithIndex(s, item)] = Merged(@, item, place)]
        ELSE Append(s, Merged(NewPartial(item), item, place))

\* _looks_like_tool_call_item
LooksLikeCall(item) == item.typed \/ item.id # NoId \/ item.index # NoIndex

\* Variant: a call without id is not counted.
StructuredById(item) ==
    IF item.id # NoId
      THEN {<<IF item.named THEN name[item.call] ELSE Unknown, item.id>>}
      ELSE {}

\* Variant: every fragment of a call counts.
StructuredAny(item) ==
    {<<IF item.named THEN name[item.call] ELSE Unknown, item.id>>}

\* _extract_structured_tool_calls_from_obj
Structured(item) ==
    IF item.typed \/ item.named \/ item.id # NoId
      THEN {<<IF item.named THEN name[item.call] ELSE Unknown, item.id>>}
      ELSE {}

ReadItem ==
    /\ at = "extract" /\ next <= Len(body)
    /\ calls' = calls \cup Structured(body[next])
    /\ IF LooksLikeCall(body[next])
         THEN /\ partials' = Merge(body[next], next)
              /\ sequence' = sequence + 1
         ELSE UNCHANGED <<partials, sequence>>
    /\ next' = next + 1
    /\ UNCHANGED <<style, form, name, body, at, again>>

\* A body that is one JSON value on one line is response_payload, and it looks
\* like NDJSON too.
BodyRead ==
    /\ at = "extract" /\ next > Len(body)
    /\ IF form = "line" /\ ~again
         THEN next' = 1 /\ again' = TRUE /\ UNCHANGED at
         ELSE at' = "done" /\ UNCHANGED <<next, again>>
    /\ UNCHANGED <<style, form, name, body, sequence, partials, calls>>

Next == (\E c \in Calls : Relay(c)) \/ Captured \/ ReadItem \/ BodyRead

Spec == Init /\ [][Next]_vars

-----------------------------------------------------------------------------
(* What the evidence of a response promises. *)

\* The items of call c that were read.
Of(c) == {i \in 1 .. next - 1 : body[i].call = c}

\* A partial call is what was read of call c: its arguments are all its parts,
\* in their order, and nothing else; it stands where the call began.
Tells(p, c) ==
    /\ {p.parts[j] : j \in DOMAIN p.parts} = Of(c)
    /\ \A j, k \in DOMAIN p.parts : j < k => p.parts[j] < p.parts[k]
    /\ p.order \in Of(c) /\ \A i \in Of(c) : p.order <= i
    /\ p.name = name[c]
    /\ p.id = IF \E i \in Of(c) : body[i].id # NoId THEN c ELSE NoId

\* At every point of a body that is read once the partial calls are the calls
\* read so far, however their fragments interleave, and whether their ids come
\* first, late or with every fragment, or there are no indices.
CallsReassembled ==
    style \in {"openai", "repeat", "late", "whole"} /\ ~again
        => /\ \A c \in Calls : Of(c) # {} => \E i \in DOMAIN partials :
                                                Tells(partials[i], c)
           /\ \A i \in DOMAIN partials : \E c \in Calls :
                  Of(c) # {} /\ Tells(partials[i], c)
           /\ \A i, j \in DOMAIN partials :
                  i # j => partials[i].order # partials[j].order

\* Of backends that give a call its name and id together, the calls that are
\* counted are those of the model, also where a body is read twice, repeats its
\* items or numbers them all alike.
CallsCountedOnce ==
    at = "done" /\ style \in {"openai", "whole", "same_index", "responses"}
        => calls = {<<name[c], c>> : c \in {d \in Calls : Begun(d)}}

\* Whatever the backend leaves out, no tool that was called goes unseen.
EveryToolIsSeen ==
    at = "done" => \A c \in Calls : Begun(c) => \E id \in Calls \cup {NoId} :
                                                    <<name[c], id>> \in calls
=============================================================================
