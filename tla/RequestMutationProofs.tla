----------------------- MODULE RequestMutationProofs -----------------------
(* Proofs about RequestMutation, for any set of requests and settings.

   What is left of a text is followed by the places of the original text it
   stands at: KeepAt of KeepAt is KeepAt, so after any number of blocks were taken
   out the text is what the original has at some set of places, and a word is
   among them exactly if it is in none of these blocks. *)
EXTENDS RequestMutation, FiniteSetTheorems, TLAPS

-----------------------------------------------------------------------------
(* KeepAt *)

\* The place of p among the places.
Rank(places, p) == Cardinality({q \in places : q <= p})

\* The enumeration of places in increasing order that KeepAt reads t by.
PlaceAt(places) ==
    [n \in 1 .. Cardinality(places) |-> CHOOSE p \in places : Rank(places, p) = n]

LEMMA PlacesFinite ==
    ASSUME NEW n \in Nat, NEW places \in SUBSET (1 .. n)
    PROVE  /\ IsFiniteSet(places) /\ Cardinality(places) \in Nat
           /\ Cardinality(places) <= n
           /\ Cardinality(places) = n => places = 1 .. n
<1>1. IsFiniteSet(1 .. n) /\ Cardinality(1 .. n) = n
  BY FS_Interval
<1>2. /\ IsFiniteSet(places) /\ Cardinality(places) <= Cardinality(1 .. n)
      /\ Cardinality(1 .. n) = Cardinality(places) => 1 .. n = places
  BY <1>1, FS_Subset
<1>. QED
  BY <1>1, <1>2, FS_CardinalityType

\* The rank grows from place to place, so each number is the rank of one place.
LEMMA RankGrows ==
    ASSUME NEW n \in Nat, NEW places \in SUBSET (1 .. n),
           NEW p \in places, NEW q \in places, p < q
    PROVE  Rank(places, p) < Rank(places, q)
<1>. DEFINE A == {x \in places : x <= p}
            B == {x \in places : x <= q}
<1>0. \A x \in places : x \in Nat
  OBVIOUS
<1>1. /\ A \in SUBSET (1 .. n) /\ B \in SUBSET (1 .. n)
      /\ A \subseteq B /\ q \in B /\ q \notin A
  <2>1. A \in SUBSET (1 .. n) /\ B \in SUBSET (1 .. n)
    OBVIOUS
  <2>2. \A x \in places : x <= p => x <= q
    BY <1>0
  <2>3. q <= q /\ ~(q <= p)
    BY <1>0
  <2>. QED
    BY <2>1, <2>2, <2>3
<1>. HIDE DEF A, B
<1>2. IsFiniteSet(B) /\ Cardinality(A) \in Nat /\ Cardinality(B) \in Nat
  BY <1>1, PlacesFinite
<1>3. Cardinality(A) <= Cardinality(B) /\ (Cardinality(B) = Cardinality(A) => B = A)
  BY <1>1, <1>2, FS_Subset
<1>4. Cardinality(A) < Cardinality(B)
  BY <1>1, <1>2, <1>3
<1>. QED
  BY <1>4 DEF Rank, A, B

LEMMA RankInRange ==
    ASSUME NEW n \in Nat, NEW places \in SUBSET (1 .. n), NEW p \in places
    PROVE  Rank(places, p) \in 1 .. Cardinality(places)
<1>. DEFINE A == {x \in places : x <= p}
<1>0. p \in Nat
  OBVIOUS
<1>1. A \in SUBSET (1 .. n) /\ A \in SUBSET places /\ p \in A
  <2>1. A \in SUBSET (1 .. n) /\ A \in SUBSET places
    OBVIOUS
  <2>2. p <= p
    BY <1>0
  <2>. QED
    BY <2>1, <2>2
<1>. HIDE DEF A
<1>2. /\ IsFiniteSet(places) /\ IsFiniteSet(A)
      /\ Cardinality(A) \in Nat /\ Cardinality(places) \in Nat
  BY <1>1, PlacesFinite
<1>3. Cardinality(A) <= Cardinality(places)
  BY <1>1, <1>2, FS_Subset
<1>4. Cardinality(A) # 0
  BY <1>1, <1>2, FS_EmptySet
<1>5. Cardinality(A) \in 1 .. Cardinality(places)
  BY <1>2, <1>3, <1>4
<1>. QED
  BY <1>5 DEF Rank, A

LEMMA RankOnto ==
    ASSUME NEW n \in Nat, NEW places \in SUBSET (1 .. n),
           NEW m \in 1 .. Cardinality(places)
    PROVE  \E p \in places : Rank(places, p) = m
<1>. DEFINE c == Cardinality(places)
            r == [p \in places |-> Rank(places, p)]
<1>1. IsFiniteSet(places) /\ c \in Nat
  BY PlacesFinite
<1>2. IsFiniteSet(1 .. c) /\ Cardinality(1 .. c) = c
  BY <1>1, FS_Interval
<1>3. r \in [places -> 1 .. c]
  BY RankInRange
<1>4. \A p, q \in places : r[p] = r[q] => p = q
  <2>. SUFFICES ASSUME NEW p \in places, NEW q \in places, p # q PROVE r[p] # r[q]
    OBVIOUS
  <2>1. p < q \/ q < p
    OBVIOUS
  <2>2. p < q => Rank(places, p) < Rank(places, q)
    BY RankGrows
  <2>3. q < p => Rank(places, q) < Rank(places, p)
    BY RankGrows
  <2>4. Rank(places, p) \in 1 .. c /\ Rank(places, q) \in 1 .. c
    BY RankInRange
  <2>. HIDE DEF c
  <2>5. Rank(places, p) \in Nat /\ Rank(places, q) \in Nat
    BY <1>1, <2>4
  <2>6. Rank(places, p) # Rank(places, q)
    BY <2>1, <2>2, <2>3, <2>5
  <2>. QED
    BY <2>6
<1>. HIDE DEF r
<1>5. r \in Injection(places, 1 .. c)
  BY <1>3, <1>4 DEF Injection, IsInjective
<1>. HIDE DEF c
<1>6. Cardinality(places) = Cardinality(1 .. c)
  BY <1>2 DEF c
<1>7. r \in Surjection(places, 1 .. c)
  BY <1>2, <1>5, <1>6, FS_Injection
<1>8. \E p \in places : r[p] = m
  BY <1>7 DEF Surjection, c
<1>. QED
  BY <1>8 DEF r

\* The enumeration is one to one, onto, and in order.
LEMMA Enumeration ==
    ASSUME NEW n \in Nat, NEW places \in SUBSET (1 .. n)
    PROVE  /\ Cardinality(places) \in Nat /\ Cardinality(places) <= n
           /\ PlaceAt(places) \in [1 .. Cardinality(places) -> places]
           /\ \A m \in 1 .. Cardinality(places) : Rank(places, PlaceAt(places)[m]) = m
           /\ \A p \in places : /\ Rank(places, p) \in 1 .. Cardinality(places)
                                /\ PlaceAt(places)[Rank(places, p)] = p
           /\ \A i, j \in 1 .. Cardinality(places) :
                 i < j <=> PlaceAt(places)[i] < PlaceAt(places)[j]
<1>. DEFINE f == PlaceAt(places)
            c == Cardinality(places)
<1>1. c \in Nat /\ c <= n
  BY PlacesFinite
<1>2. \A m \in 1 .. c : f[m] \in places /\ Rank(places, f[m]) = m
  BY RankOnto DEF PlaceAt
<1>3. f \in [1 .. c -> places]
  BY <1>2 DEF PlaceAt
<1>4. ASSUME NEW p \in places, NEW q \in places, Rank(places, p) = Rank(places, q)
      PROVE  p = q
  <2>1. p < q \/ q < p \/ p = q
    OBVIOUS
  <2>2. p < q => Rank(places, p) < Rank(places, q)
    BY RankGrows
  <2>3. q < p => Rank(places, q) < Rank(places, p)
    BY RankGrows
  <2>4. Rank(places, p) \in 1 .. c
    BY RankInRange
  <2>. QED
    BY <1>1, <1>4, <2>1, <2>2, <2>3, <2>4
<1>5. \A p \in places : Rank(places, p) \in 1 .. c /\ f[Rank(places, p)] = p
  BY <1>2, <1>4, RankInRange
<1>6. ASSUME NEW i \in 1 .. c, NEW j \in 1 .. c PROVE i < j <=> f[i] < f[j]
  <2>1. f[i] \in 1 .. n /\ f[j] \in 1 .. n
    BY <1>2
  <2>2. f[i] < f[j] => i < j
    BY <1>2, RankGrows
  <2>3. f[j] < f[i] => j < i
    BY <1>2, RankGrows
  <2>4. f[i] = f[j] => i = j
    BY <1>2
  <2>. HIDE DEF f, c
  <2>. QED
    BY <1>1, <2>1, <2>2, <2>3, <2>4
<1>. QED
  BY <1>1, <1>2, <1>3, <1>5, <1>6

LEMMA KeptText ==
    ASSUME NEW S, NEW t \in Seq(S), NEW places \in SUBSET (DOMAIN t)
    PROVE  /\ DOMAIN t = 1 .. Len(t) /\ Len(t) \in Nat
           /\ KeepAt(t, places) \in Seq(S)
           /\ Len(KeepAt(t, places)) = Cardinality(places)
           /\ DOMAIN KeepAt(t, places) = 1 .. Cardinality(places)
           /\ \A m \in 1 .. Cardinality(places) :
                 KeepAt(t, places)[m] = t[PlaceAt(places)[m]]
<1>1. DOMAIN t = 1 .. Len(t) /\ Len(t) \in Nat /\ \A i \in 1 .. Len(t) : t[i] \in S
  OBVIOUS
<1>2. /\ Cardinality(places) \in Nat
      /\ PlaceAt(places) \in [1 .. Cardinality(places) -> places]
  BY <1>1, Enumeration
<1>3. KeepAt(t, places) = [m \in 1 .. Cardinality(places) |-> t[PlaceAt(places)[m]]]
  BY DEF KeepAt, PlaceAt, Rank
<1>. DEFINE k == KeepAt(t, places)
            f == PlaceAt(places)
            c == Cardinality(places)
<1>4. \A m \in 1 .. c : f[m] \in 1 .. Len(t) /\ k[m] = t[f[m]]
  BY <1>1, <1>2, <1>3
<1>5. DOMAIN k = 1 .. c /\ k = [m \in 1 .. c |-> k[m]]
  BY <1>3
<1>. HIDE DEF k, f, c
<1>6. k \in [1 .. c -> S]
  BY <1>1, <1>4, <1>5
<1>7. c \in Nat
  BY <1>2 DEF c
<1>8. k \in Seq(S) /\ Len(k) = c
  BY <1>5, <1>6, <1>7
<1>. QED
  BY <1>1, <1>4, <1>5, <1>8 DEF k, f, c

\* An increasing function takes a set of numbers to one of as many.
LEMMA IncreasingImage ==
    ASSUME NEW n \in Nat, NEW c \in Nat, NEW f \in [1 .. c -> 1 .. n],
           \A i, j \in 1 .. c : i < j => f[i] < f[j],
           NEW A \in SUBSET (1 .. c)
    PROVE  Cardinality({f[i] : i \in A}) = Cardinality(A)
<1>. DEFINE g == [i \in A |-> f[i]]
            B == {f[i] : i \in A}
<1>1. g \in [A -> B] /\ \A y \in B : \E i \in A : g[i] = y
  OBVIOUS
<1>2. ASSUME NEW i \in A, NEW j \in A, i # j PROVE g[i] # g[j]
  <2>1. i \in 1 .. c /\ j \in 1 .. c /\ (i < j \/ j < i)
    BY <1>2
  <2>2. f[i] \in 1 .. n /\ f[j] \in 1 .. n
    BY <2>1
  <2>3. f[i] < f[j] \/ f[j] < f[i]
    BY <2>1
  <2>4. f[i] # f[j]
    BY <2>2, <2>3
  <2>. QED
    BY <2>4
<1>3. IsFiniteSet(A)
  BY PlacesFinite
<1>4. g \in Injection(A, B)
  <2>. HIDE DEF g, B
  <2>. QED
    BY <1>1, <1>2 DEF Injection, IsInjective
<1>5. g \in Surjection(A, B)
  <2>. HIDE DEF g, B
  <2>. QED
    BY <1>1 DEF Surjection
<1>. HIDE DEF g, B
<1>6. g \in Bijection(A, B)
  BY <1>4, <1>5 DEF Bijection
<1>7. Cardinality(A) = Cardinality(B)
  BY <1>3, <1>6, FS_Bijection DEF ExistsBijection
<1>. QED
  BY <1>7 DEF B

\* The places of the text that the places Q of what is left at P stand for.
Through(P, Q) == {PlaceAt(P)[q] : q \in Q}

\* What is left of what is left.
LEMMA Composition ==
    ASSUME NEW S, NEW t \in Seq(S), NEW P \in SUBSET (DOMAIN t),
           NEW Q \in SUBSET (DOMAIN KeepAt(t, P))
    PROVE  /\ Through(P, Q) \in SUBSET P
           /\ \A p \in P : p \in Through(P, Q) <=> Rank(P, p) \in Q
           /\ KeepAt(KeepAt(t, P), Q) = KeepAt(t, Through(P, Q))
<1>. DEFINE n == Len(t)
            c == Cardinality(P)
            f == PlaceAt(P)
            R == Through(P, Q)
            s == KeepAt(t, P)
<1>1. n \in Nat /\ DOMAIN t = 1 .. n /\ P \in SUBSET (1 .. n)
  BY KeptText
<1>2. s \in Seq(S) /\ DOMAIN s = 1 .. c /\ \A m \in 1 .. c : s[m] = t[f[m]]
  BY KeptText
<1>3. Q \in SUBSET (1 .. c)
  BY <1>2
<1>4. /\ c \in Nat /\ f \in [1 .. c -> P]
      /\ \A m \in 1 .. c : Rank(P, f[m]) = m
      /\ \A p \in P : Rank(P, p) \in 1 .. c /\ f[Rank(P, p)] = p
      /\ \A i, j \in 1 .. c : i < j <=> f[i] < f[j]
  BY <1>1, Enumeration
<1>5. R = {f[q] : q \in Q}
  BY DEF Through
<1>. HIDE DEF n, c, f, R, s
<1>6. R \in SUBSET P /\ R \in SUBSET (1 .. n)
  BY <1>1, <1>3, <1>4, <1>5
<1>7. \A p \in P : p \in R <=> Rank(P, p) \in Q
  BY <1>3, <1>4, <1>5
<1>8. f \in [1 .. c -> 1 .. n] /\ \A i, j \in 1 .. c : i < j => f[i] < f[j]
  BY <1>1, <1>4
<1>9. \A A \in SUBSET (1 .. c) : Cardinality({f[i] : i \in A}) = Cardinality(A)
  BY <1>1, <1>4, <1>8, IncreasingImage
<1>10. Cardinality(R) = Cardinality(Q)
  BY <1>3, <1>5, <1>9
<1>11. ASSUME NEW q \in Q PROVE f[q] \in R /\ Rank(R, f[q]) = Rank(Q, q)
  <2>. DEFINE A == {y \in Q : y <= q}
  <2>1. \A y \in Q : y <= q <=> f[y] <= f[q]
    <3>. SUFFICES ASSUME NEW y \in Q PROVE y <= q <=> f[y] <= f[q]
      OBVIOUS
    <3>1. /\ y \in 1 .. c /\ q \in 1 .. c
          /\ f[y] \in 1 .. n /\ f[q] \in 1 .. n
      BY <1>3, <1>8
    <3>2. q < y <=> f[q] < f[y]
      BY <1>4, <3>1
    <3>. QED
      BY <1>1, <1>4, <3>1, <3>2
  <2>2. {x \in R : x <= f[q]} = {f[i] : i \in A}
    BY <1>5, <2>1
  <2>3. A \in SUBSET (1 .. c)
    BY <1>3
  <2>4. Cardinality({f[i] : i \in A}) = Cardinality(A)
    BY <1>9, <2>3
  <2>. QED
    BY <1>5, <2>2, <2>4 DEF Rank
<1>. DEFINE d == Cardinality(Q)
<1>12. /\ d \in Nat /\ PlaceAt(Q) \in [1 .. d -> Q]
       /\ \A m \in 1 .. d : Rank(Q, PlaceAt(Q)[m]) = m
  BY <1>3, <1>4, Enumeration
<1>13. \A p \in R : PlaceAt(R)[Rank(R, p)] = p
  BY <1>1, <1>6, Enumeration
<1>. HIDE DEF d
<1>14. \A m \in 1 .. d : PlaceAt(R)[m] = f[PlaceAt(Q)[m]] /\ PlaceAt(Q)[m] \in 1 .. c
  BY <1>3, <1>11, <1>12, <1>13
<1>15. /\ KeepAt(s, Q) = [m \in 1 .. d |-> s[PlaceAt(Q)[m]]]
       /\ KeepAt(t, R) = [m \in 1 .. d |-> t[PlaceAt(R)[m]]]
  BY <1>10 DEF KeepAt, PlaceAt, Rank, d
<1>16. KeepAt(s, Q) = KeepAt(t, R)
  BY <1>2, <1>14, <1>15
<1>. QED
  BY <1>6, <1>7, <1>16 DEF R, s

\* All places leave the text as it is.
LEMMA KeepAll ==
    ASSUME NEW S, NEW t \in Seq(S)
    PROVE  KeepAt(t, DOMAIN t) = t
<1>. DEFINE n == Len(t)
<1>1. n \in Nat /\ DOMAIN t = 1 .. n /\ t = [m \in 1 .. n |-> t[m]]
  OBVIOUS
<1>. HIDE DEF n
<1>2. \A p \in 1 .. n : {q \in 1 .. n : q <= p} = 1 .. p /\ p \in Nat
  BY <1>1
<1>3. ASSUME NEW m \in Nat PROVE Cardinality(1 .. m) = m
  <2>1. Cardinality(1 .. m) = IF 1 > m THEN 0 ELSE m - 1 + 1
    BY FS_Interval
  <2>. QED
    BY <2>1
<1>4. Cardinality(1 .. n) = n /\ \A p \in 1 .. n : Rank(1 .. n, p) = p
  BY <1>1, <1>2, <1>3 DEF Rank
<1>5. KeepAt(t, 1 .. n) = [m \in 1 .. n |-> t[CHOOSE p \in 1 .. n : Rank(1 .. n, p) = m]]
  BY <1>4 DEF KeepAt, Rank
<1>6. \A m \in 1 .. n : (CHOOSE p \in 1 .. n : Rank(1 .. n, p) = m) = m
  BY <1>4
<1>. QED
  BY <1>1, <1>5, <1>6

\* A text that is shorter than t, or t itself.
ShorterOrSame(u, t) == Len(u) <= Len(t) /\ (Len(u) = Len(t) => u = t)

LEMMA KeptIsShorterOrSame ==
    ASSUME NEW S, NEW t \in Seq(S), NEW P \in SUBSET (DOMAIN t)
    PROVE  KeepAt(t, P) \in Seq(S) /\ ShorterOrSame(KeepAt(t, P), t)
<1>1. DOMAIN t = 1 .. Len(t) /\ Len(t) \in Nat
  BY KeptText
<1>2. Cardinality(P) <= Len(t) /\ (Cardinality(P) = Len(t) => P = DOMAIN t)
  BY <1>1, PlacesFinite
<1>3. KeepAt(t, P) \in Seq(S) /\ Len(KeepAt(t, P)) = Cardinality(P)
  BY KeptText
<1>. QED
  BY <1>2, <1>3, KeepAll DEF ShorterOrSame

-----------------------------------------------------------------------------
(* Blocks of a text. *)

Loose == {"nl", "repo"}   \* tokens that are no words
WordPlaces(t) == {i \in DOMAIN t : t[i] \notin Loose}

\* The places of t within a block, the token that ends it among them.
BlockPlaces(t, b) ==
    {i \in DOMAIN t : \E j \in 1 .. i : /\ IsBlock(t, b, j)
                                        /\ \A k \in j .. i - 1 : t[k] # Ends(b)}

LEMMA BlockTokens ==
    ASSUME NEW b \in Blocks
    PROVE  b \notin {"nl", "repo", "text"} /\ Ends(b) \notin Blocks \cup {"nl", "repo", "text"}
BY DEF Blocks, Ends

\* Of the words, re.sub takes exactly those within a block.
LEMMA WithoutTakesBlocks ==
    ASSUME NEW t \in Seq(Tokens), NEW b \in Blocks
    PROVE  \E P \in SUBSET (DOMAIN t) :
              /\ Without(t, b) = KeepAt(t, P)
              /\ P = {j \in DOMAIN t : \A i \in DOMAIN t :
                         IsBlock(t, b, i) => j \notin BlockAt(t, b, i)}
              /\ \A p \in WordPlaces(t) : p \in P <=> p \notin BlockPlaces(t, b)
<1>. DEFINE P == {j \in DOMAIN t : \A i \in DOMAIN t :
                     IsBlock(t, b, i) => j \notin BlockAt(t, b, i)}
<1>1. Len(t) \in Nat /\ DOMAIN t = 1 .. Len(t)
  OBVIOUS
<1>2. ASSUME NEW p \in WordPlaces(t), NEW i \in DOMAIN t, IsBlock(t, b, i)
      PROVE  p \in BlockAt(t, b, i) <=> i <= p /\ \A k \in i .. p - 1 : t[k] # Ends(b)
  <2>1. /\ p \in 1 .. Len(t) /\ i \in 1 .. Len(t)
        /\ t[p] # "nl" /\ t[i] = b /\ t[i] # Ends(b)
    BY <1>1, <1>2, BlockTokens DEF WordPlaces, Loose, IsBlock
  <2>2. ASSUME p \in BlockAt(t, b, i), NEW k \in i .. p - 1 PROVE t[k] # Ends(b)
    <3>1. i <= p /\ ((\E end \in i + 1 .. p - 1 : t[end] = Ends(b)) => t[p] = "nl")
      <4>1. p \in i .. Len(t)
        BY <2>2 DEF BlockAt
      <4>2. CASE p = i
        BY <1>1, <2>1, <4>2
      <4>3. CASE p # i
        <5>1. p \in i + 1 .. p
          BY <1>1, <2>1, <4>1, <4>3
        <5>. QED
          BY <2>2, <4>1, <5>1 DEF BlockAt
      <4>. QED
        BY <1>1, <2>1, <4>1, <4>2, <4>3
    <3>2. CASE k = i
      BY <2>1, <3>2
    <3>3. CASE k # i
      <4>1. k \in i + 1 .. p - 1
        BY <1>1, <2>1, <3>3
      <4>. QED
        BY <2>1, <3>1, <4>1
    <3>. QED
      BY <3>2, <3>3
  <2>3. ASSUME i <= p, \A k \in i .. p - 1 : t[k] # Ends(b) PROVE p \in BlockAt(t, b, i)
    <3>1. p \in i .. Len(t)
      BY <1>1, <2>1, <2>3
    <3>2. ASSUME NEW k \in i + 1 .. p, NEW end \in i + 1 .. k - 1 PROVE t[end] # Ends(b)
      <4>1. end \in i .. p - 1
        BY <1>1, <2>1
      <4>. QED
        BY <2>3, <4>1
    <3>. QED
      BY <3>1, <3>2 DEF BlockAt
  <2>4. p \in BlockAt(t, b, i) => i <= p
    BY <1>1, <2>1 DEF BlockAt
  <2>. QED
    BY <2>2, <2>3, <2>4
<1>3. ASSUME NEW p \in WordPlaces(t) PROVE p \in P <=> p \notin BlockPlaces(t, b)
  <2>1. p \in DOMAIN t /\ p \in 1 .. Len(t)
    BY <1>1 DEF WordPlaces
  <2>2. \A i : i \in DOMAIN t /\ i <= p <=> i \in 1 .. p
    BY <1>1, <2>1
  <2>3. p \in P <=> \A i \in DOMAIN t : IsBlock(t, b, i) =>
                       ~(i <= p /\ \A k \in i .. p - 1 : t[k] # Ends(b))
    BY <1>2, <2>1
  <2>. HIDE DEF P
  <2>4. p \in BlockPlaces(t, b) <=>
          \E j \in 1 .. p : IsBlock(t, b, j) /\ \A k \in j .. p - 1 : t[k] # Ends(b)
    BY <2>1 DEF BlockPlaces
  <2>. QED
    BY <2>2, <2>3, <2>4
<1>. WITNESS P \in SUBSET (DOMAIN t)
<1>. QED
  BY <1>3 DEF Without

\* In a well-formed text neither end of a block is within a block of another kind.
LEMMA WholeBlocks ==
    ASSUME NEW t \in Seq(Tokens), WellFormed(t),
           NEW b \in Blocks, NEW other \in Blocks, other # b,
           NEW i \in DOMAIN t, t[i] = b,
           NEW e \in i + 1 .. Len(t), t[e] = Ends(b),
           \A k \in i + 1 .. e - 1 : t[k] \in {"nl", "text"}
    PROVE  i \notin BlockPlaces(t, other) /\ e \notin BlockPlaces(t, other)
<1>1. /\ Len(t) \in Nat /\ DOMAIN t = 1 .. Len(t)
      /\ i \in 1 .. Len(t) /\ e \in 1 .. Len(t) /\ i < e
  OBVIOUS
<1>2. ASSUME NEW p \in {i, e}, NEW j \in 1 .. p, IsBlock(t, other, j),
             \A k \in j .. p - 1 : t[k] # Ends(other)
      PROVE  FALSE
  <2>1. t[j] = other /\ j \in DOMAIN t /\ j <= p
    BY <1>1, <1>2 DEF IsBlock
  <2>2. other \notin {"nl", "text"} /\ other # Ends(b) /\ b \notin {"nl", "text"}
        /\ b # Ends(other)
    BY BlockTokens
  <2>3. j # i /\ j # e
    BY <2>1, <2>2
  <2>4. ~(j \in i + 1 .. e - 1)
    BY <2>1, <2>2
  <2>5. j < i
    BY <1>1, <2>1, <2>3, <2>4
  <2>6. PICK f \in j + 1 .. Len(t) :
           t[f] = Ends(other) /\ \A k \in j + 1 .. f - 1 : t[k] \in {"nl", "text"}
    BY <2>1 DEF WellFormed
  <2>7. ~(f \in j .. p - 1)
    BY <1>2, <2>6
  <2>8. i <= f /\ f # i
    BY <1>1, <2>1, <2>2, <2>5, <2>6, <2>7
  <2>9. i \in j + 1 .. f - 1
    BY <1>1, <2>1, <2>5, <2>6, <2>8
  <2>. QED
    BY <2>2, <2>6, <2>9
<1>. QED
  BY <1>2 DEF BlockPlaces

\* t at the places K, which of the words lack those within blocks of the kinds in D.
LeftAt(K, t, D) ==
    \A p \in WordPlaces(t) : p \in K <=> \A b \in D : p \notin BlockPlaces(t, b)
Left(u, t, D) == \E K \in SUBSET (DOMAIN t) : u = KeepAt(t, K) /\ LeftAt(K, t, D)

\* With the blocks of other kinds taken out, a block is what it was in the text.
LEMMA BlocksOfKept ==
    ASSUME NEW t \in Seq(Tokens), WellFormed(t), NEW b \in Blocks,
           NEW D \in SUBSET Blocks, b \notin D,
           NEW K \in SUBSET (DOMAIN t), LeftAt(K, t, D),
           NEW p \in K, p \in WordPlaces(t)
    PROVE  Rank(K, p) \in BlockPlaces(KeepAt(t, K), b) <=> p \in BlockPlaces(t, b)
<1>. DEFINE n == Len(t)
            c == Cardinality(K)
            f == PlaceAt(K)
            s == KeepAt(t, K)
            r == Rank(K, p)
<1>1. /\ n \in Nat /\ DOMAIN t = 1 .. n /\ K \in SUBSET (1 .. n)
      /\ DOMAIN s = 1 .. c /\ Len(s) = c /\ \A m \in 1 .. c : s[m] = t[f[m]]
  BY KeptText
<1>2. /\ c \in Nat /\ f \in [1 .. c -> K]
      /\ \A x \in K : Rank(K, x) \in 1 .. c /\ f[Rank(K, x)] = x
      /\ \A x, y \in 1 .. c : x < y <=> f[x] < f[y]
  BY <1>1, Enumeration
<1>3. r \in 1 .. c /\ f[r] = p /\ p \in 1 .. n
  BY <1>1, <1>2
<1>. HIDE DEF n, c, f, s, r
<1>4. \A x \in 1 .. c : f[x] \in K /\ f[x] \in 1 .. n
  BY <1>1, <1>2
<1>5. \A x, y \in 1 .. c : f[x] <= f[y] <=> x <= y
  BY <1>1, <1>2, <1>4
<1>6. ASSUME NEW i \in DOMAIN t, t[i] = b
      PROVE  \E e \in i + 1 .. n :
                /\ t[e] = Ends(b) /\ i \in K /\ e \in K
                /\ \A k \in i + 1 .. e - 1 : t[k] \in {"nl", "text"}
  <2>1. PICK e \in i + 1 .. Len(t) :
           t[e] = Ends(b) /\ \A k \in i + 1 .. e - 1 : t[k] \in {"nl", "text"}
    BY <1>6 DEF WellFormed
  <2>2. \A other \in D : i \notin BlockPlaces(t, other) /\ e \notin BlockPlaces(t, other)
    BY <1>6, <2>1, WholeBlocks
  <2>3. i \in WordPlaces(t) /\ e \in WordPlaces(t)
    BY <1>1, <1>6, <2>1, BlockTokens DEF WordPlaces, Loose, n
  <2>4. i \in K /\ e \in K
    BY <2>2, <2>3 DEF LeftAt
  <2>. QED
    BY <2>1, <2>4 DEF n
<1>7. ASSUME NEW j \in 1 .. r, IsBlock(s, b, j), \A k \in j .. r - 1 : s[k] # Ends(b)
      PROVE  p \in BlockPlaces(t, b)
  <2>1. j \in 1 .. c /\ j <= r /\ s[j] = b
    BY <1>2, <1>3, <1>7 DEF IsBlock
  <2>2. t[f[j]] = b /\ f[j] \in DOMAIN t /\ f[j] <= p
    BY <1>1, <1>3, <1>4, <1>5, <2>1
  <2>3. PICK e \in f[j] + 1 .. n :
           /\ t[e] = Ends(b) /\ e \in K
           /\ \A k \in f[j] + 1 .. e - 1 : t[k] \in {"nl", "text"}
    BY <1>6, <2>2
  <2>4. Rank(K, e) \in 1 .. c /\ s[Rank(K, e)] = Ends(b) /\ f[Rank(K, e)] = e
    BY <1>1, <1>2, <2>3
  <2>5. j <= Rank(K, e)
    BY <1>1, <1>4, <1>5, <2>1, <2>3, <2>4
  <2>6. r <= Rank(K, e)
    BY <1>2, <1>3, <1>7, <2>4, <2>5
  <2>7. p <= e
    BY <1>3, <1>5, <2>4, <2>6
  <2>8. \A k \in f[j] .. p - 1 : t[k] # Ends(b)
    <3>. SUFFICES ASSUME NEW k \in f[j] .. p - 1 PROVE t[k] # Ends(b)
      OBVIOUS
    <3>1. CASE k = f[j]
      BY <2>2, <3>1, BlockTokens
    <3>2. CASE k # f[j]
      <4>1. k \in f[j] + 1 .. e - 1
        BY <1>1, <1>3, <1>4, <2>1, <2>3, <2>7, <3>2
      <4>. QED
        BY <2>3, <4>1, BlockTokens
    <3>. QED
      BY <3>1, <3>2
  <2>9. IsBlock(t, b, f[j])
    BY <2>2, <2>3 DEF IsBlock, n
  <2>10. f[j] \in 1 .. p /\ p \in DOMAIN t
    BY <1>1, <1>3, <1>4, <2>1, <2>2
  <2>. QED
    BY <2>8, <2>9, <2>10 DEF BlockPlaces
<1>8. ASSUME NEW j \in 1 .. p, IsBlock(t, b, j), \A k \in j .. p - 1 : t[k] # Ends(b)
      PROVE  r \in BlockPlaces(s, b)
  <2>1. j \in DOMAIN t /\ t[j] = b /\ j <= p
    BY <1>1, <1>3, <1>8 DEF IsBlock
  <2>2. PICK e \in j + 1 .. n : t[e] = Ends(b) /\ j \in K /\ e \in K
    BY <1>6, <2>1
  <2>. DEFINE i == Rank(K, j)
              d == Rank(K, e)
  <2>3. /\ i \in 1 .. c /\ f[i] = j /\ s[i] = b
        /\ d \in 1 .. c /\ f[d] = e /\ s[d] = Ends(b)
    BY <1>1, <1>2, <2>1, <2>2
  <2>. HIDE DEF i, d
  <2>4. i <= r /\ i < d
    BY <1>1, <1>2, <1>3, <1>5, <2>1, <2>2, <2>3
  <2>5. IsBlock(s, b, i)
    BY <1>1, <1>2, <2>3, <2>4 DEF IsBlock
  <2>6. ASSUME NEW k \in i .. r - 1 PROVE s[k] # Ends(b)
    <3>1. k \in 1 .. c /\ i <= k /\ k < r
      BY <1>2, <1>3, <2>3
    <3>2. f[k] \in 1 .. n /\ j <= f[k] /\ f[k] < p
      BY <1>2, <1>3, <1>4, <1>5, <2>3, <3>1
    <3>3. f[k] \in j .. p - 1
      BY <1>1, <1>3, <3>2
    <3>. QED
      BY <1>1, <1>8, <3>1, <3>3
  <2>7. i \in 1 .. r /\ r \in DOMAIN s
    BY <1>1, <1>2, <1>3, <2>3, <2>4
  <2>. QED
    BY <2>5, <2>6, <2>7 DEF BlockPlaces
<1>9. r \in BlockPlaces(s, b) => p \in BlockPlaces(t, b)
  BY <1>7 DEF BlockPlaces
<1>10. p \in BlockPlaces(t, b) => r \in BlockPlaces(s, b)
  BY <1>8 DEF BlockPlaces
<1>. QED
  BY <1>9, <1>10 DEF r, s

\* Nothing taken out.
LEMMA AllLeft ==
    ASSUME NEW t \in Seq(Tokens)
    PROVE  Left(t, t, {})
<1>1. t = KeepAt(t, DOMAIN t) /\ LeftAt(DOMAIN t, t, {})
  BY KeepAll DEF LeftAt, WordPlaces
<1>. QED
  BY <1>1 DEF Left

\* A word of what is left, and its place in the text.
LEMMA WordOfKept ==
    ASSUME NEW t \in Seq(Tokens), NEW K \in SUBSET (DOMAIN t), NEW p \in K
    PROVE  /\ Rank(K, p) \in DOMAIN KeepAt(t, K)
           /\ KeepAt(t, K)[Rank(K, p)] = t[p]
           /\ Rank(K, p) \in WordPlaces(KeepAt(t, K)) <=> p \in WordPlaces(t)
<1>1. /\ Len(t) \in Nat /\ DOMAIN t = 1 .. Len(t)
      /\ DOMAIN KeepAt(t, K) = 1 .. Cardinality(K)
      /\ \A m \in 1 .. Cardinality(K) : KeepAt(t, K)[m] = t[PlaceAt(K)[m]]
  BY KeptText
<1>2. Rank(K, p) \in 1 .. Cardinality(K) /\ PlaceAt(K)[Rank(K, p)] = p
  BY <1>1, Enumeration
<1>. QED
  BY <1>1, <1>2 DEF WordPlaces

\* Taking out one kind of blocks more.
LEMMA WithoutLeft ==
    ASSUME NEW t \in Seq(Tokens), WellFormed(t), NEW b \in Blocks,
           NEW D \in SUBSET Blocks, b \notin D, NEW u, Left(u, t, D)
    PROVE  Left(Without(u, b), t, D \cup {b})
<1>1. PICK K \in SUBSET (DOMAIN t) : u = KeepAt(t, K) /\ LeftAt(K, t, D)
  BY DEF Left
<1>2. u \in Seq(Tokens)
  BY <1>1, KeptText
<1>3. PICK Q \in SUBSET (DOMAIN u) :
         /\ Without(u, b) = KeepAt(u, Q)
         /\ \A q \in WordPlaces(u) : q \in Q <=> q \notin BlockPlaces(u, b)
  BY <1>2, WithoutTakesBlocks
<1>. DEFINE R == Through(K, Q)
<1>4. /\ R \in SUBSET K /\ \A p \in K : p \in R <=> Rank(K, p) \in Q
      /\ Without(u, b) = KeepAt(t, R)
  BY <1>1, <1>3, Composition
<1>. HIDE DEF R
<1>5. ASSUME NEW p \in WordPlaces(t), p \in K
      PROVE  p \in R <=> p \notin BlockPlaces(t, b)
  <2>1. Rank(K, p) \in WordPlaces(u)
    BY <1>1, <1>5, WordOfKept
  <2>2. Rank(K, p) \in BlockPlaces(u, b) <=> p \in BlockPlaces(t, b)
    BY <1>1, <1>5, BlocksOfKept
  <2>. QED
    BY <1>3, <1>4, <1>5, <2>1, <2>2
<1>6. LeftAt(R, t, D \cup {b})
  BY <1>1, <1>4, <1>5 DEF LeftAt
<1>. QED
  BY <1>1, <1>4, <1>6 DEF Left

\* Losing tokens that are no words.
LEMMA LooseLeft ==
    ASSUME NEW t \in Seq(Tokens), NEW D \in SUBSET Blocks, NEW u, Left(u, t, D),
           NEW Q \in SUBSET (DOMAIN u), WordPlaces(u) \subseteq Q
    PROVE  Left(KeepAt(u, Q), t, D)
<1>1. PICK K \in SUBSET (DOMAIN t) : u = KeepAt(t, K) /\ LeftAt(K, t, D)
  BY DEF Left
<1>. DEFINE R == Through(K, Q)
<1>2. /\ R \in SUBSET K /\ \A p \in K : p \in R <=> Rank(K, p) \in Q
      /\ KeepAt(u, Q) = KeepAt(t, R)
  BY <1>1, Composition
<1>. HIDE DEF R
<1>3. \A p \in WordPlaces(t) : p \in K => p \in R
  BY <1>1, <1>2, WordOfKept
<1>4. LeftAt(R, t, D)
  BY <1>1, <1>2, <1>3 DEF LeftAt
<1>. QED
  BY <1>1, <1>2, <1>4 DEF Left

LEMMA CollapsedLeft ==
    ASSUME NEW t \in Seq(Tokens), NEW D \in SUBSET Blocks, NEW u, Left(u, t, D)
    PROVE  Left(Collapsed(u), t, D)
<1>. DEFINE Q == {i \in DOMAIN u :
                     ~(i > 2 /\ u[i] = "nl" /\ u[i - 1] = "nl" /\ u[i - 2] = "nl")}
<1>1. Q \in SUBSET (DOMAIN u) /\ WordPlaces(u) \subseteq Q
  BY DEF WordPlaces, Loose
<1>2. Collapsed(u) = KeepAt(u, Q)
  BY DEF Collapsed
<1>. HIDE DEF Q
<1>. QED
  BY <1>1, <1>2, LooseLeft

\* Every line about the repository is a line of its own.
RepoLinesEnd(u) == \A i \in DOMAIN u : u[i] = "repo" => i = Len(u) \/ u[i + 1] = "nl"

LEMMA RepoLinesLeft ==
    ASSUME NEW t \in Seq(Tokens), NEW D \in SUBSET Blocks, NEW u, Left(u, t, D),
           u \in Seq(Tokens), RepoLinesEnd(u)
    PROVE  Left(WithoutRepoLines(u), t, D)
<1>. DEFINE InLine(i, j) == i <= j /\ \A k \in i .. j - 1 : u[k] # "nl"
            lines == {i \in DOMAIN u : u[i] = "repo" /\ (i = 1 \/ u[i - 1] = "nl")}
            Q == {j \in DOMAIN u : \A i \in lines : ~InLine(i, j)}
<1>1. Len(u) \in Nat /\ DOMAIN u = 1 .. Len(u)
  OBVIOUS
<1>2. ASSUME NEW j \in DOMAIN u, NEW i \in lines, InLine(i, j)
      PROVE  u[j] \in Loose
  <2>1. CASE i = j
    BY <2>1 DEF Loose
  <2>2. CASE i # j
    <3>1. i < j /\ u[i] = "repo" /\ i \in DOMAIN u
      BY <1>1, <1>2, <2>2
    <3>2. u[i + 1] = "nl"
      BY <1>1, <3>1 DEF RepoLinesEnd
    <3>3. ~(i + 1 \in i .. j - 1)
      BY <1>2, <3>2
    <3>4. j = i + 1
      BY <1>1, <3>1, <3>3
    <3>. QED
      BY <3>2, <3>4 DEF Loose
  <2>. QED
    BY <2>1, <2>2
<1>3. Q \in SUBSET (DOMAIN u) /\ WordPlaces(u) \subseteq Q
  BY <1>2 DEF WordPlaces
<1>4. WithoutRepoLines(u) = KeepAt(u, Q)
  BY DEF WithoutRepoLines
<1>. HIDE DEF Q
<1>. QED
  BY <1>3, <1>4, LooseLeft

\* A block ends with a token of its own and its newlines, so the line about the
\* repository that it leaves keeps its newline.
LEMMA RepoLinesStay ==
    ASSUME NEW t \in Seq(Tokens), NEW b \in Blocks, RepoLinesEnd(t)
    PROVE  RepoLinesEnd(Without(t, b))
<1>. DEFINE P == {j \in DOMAIN t : \A i \in DOMAIN t :
                     IsBlock(t, b, i) => j \notin BlockAt(t, b, i)}
            c == Cardinality(P)
            f == PlaceAt(P)
            n == Len(t)
            s == KeepAt(t, P)
<1>0. P \in SUBSET (DOMAIN t)
  OBVIOUS
<1>1. /\ n \in Nat /\ DOMAIN t = 1 .. n /\ P \in SUBSET (1 .. n)
      /\ DOMAIN s = 1 .. c /\ Len(s) = c /\ \A m \in 1 .. c : s[m] = t[f[m]]
  BY <1>0, KeptText
<1>2. /\ c \in Nat /\ f \in [1 .. c -> P]
      /\ \A x \in P : Rank(P, x) \in 1 .. c /\ f[Rank(P, x)] = x
      /\ \A x, y \in 1 .. c : x < y <=> f[x] < f[y]
  BY <1>1, Enumeration
<1>3. ASSUME NEW p \in P, p + 1 \in DOMAIN t, t[p] = "repo" PROVE p + 1 \in P
  <2>1. ASSUME NEW i \in DOMAIN t, IsBlock(t, b, i), p + 1 \in BlockAt(t, b, i)
        PROVE  p \in BlockAt(t, b, i)
    <3>1. /\ p \in 1 .. n /\ i \in 1 .. n /\ i <= p + 1
          /\ \A k \in i + 1 .. p + 1 :
                (\E end \in i + 1 .. k - 1 : t[end] = Ends(b)) => t[k] = "nl"
      BY <1>1, <2>1 DEF BlockAt
    <3>2. i <= p
      <4>1. CASE i = p + 1
        <5>1. t[p + 1] = "nl"
          BY <1>1, <1>3, <3>1 DEF RepoLinesEnd
        <5>. QED
          BY <2>1, <4>1, <5>1, BlockTokens DEF IsBlock
      <4>. QED
        BY <1>1, <3>1, <4>1
    <3>3. \A k \in i + 1 .. p : k \in i + 1 .. p + 1
      BY <1>1, <3>1
    <3>4. p \in i .. Len(t)
      BY <1>1, <3>1, <3>2
    <3>. QED
      BY <3>1, <3>3, <3>4 DEF BlockAt
  <2>. QED
    BY <1>3, <2>1
<1>4. Without(t, b) = s
  BY DEF Without
<1>. HIDE DEF P, c, f, n, s
<1>5. ASSUME NEW x \in 1 .. c, s[x] = "repo", x # c PROVE s[x + 1] = "nl"
  <2>1. x \in 1 .. c /\ x + 1 \in 1 .. c
    BY <1>2, <1>5
  <2>2. f[x] \in P /\ f[x] \in 1 .. n /\ f[x + 1] \in P /\ f[x + 1] \in 1 .. n
    BY <1>1, <1>2, <2>1
  <2>3. f[x] < f[x + 1]
    BY <1>2, <2>1
  <2>4. f[x] # n /\ f[x] + 1 \in 1 .. n
    BY <1>1, <2>2, <2>3
  <2>5. t[f[x]] = "repo" /\ t[f[x] + 1] = "nl"
    BY <1>1, <1>5, <2>2, <2>4 DEF RepoLinesEnd, n
  <2>6. f[x] + 1 \in P
    BY <1>1, <1>3, <2>2, <2>4, <2>5
  <2>. DEFINE r == Rank(P, f[x] + 1)
  <2>7. r \in 1 .. c /\ f[r] = f[x] + 1
    BY <1>2, <2>6
  <2>. HIDE DEF r
  <2>8. x < r /\ ~(x + 1 < r)
    <3>1. f[x] < f[r] /\ ~(f[x + 1] < f[r])
      BY <1>1, <2>2, <2>3, <2>7
    <3>. QED
      BY <1>2, <2>1, <2>7, <3>1
  <2>9. r = x + 1
    BY <1>2, <2>1, <2>7, <2>8
  <2>. QED
    BY <1>1, <2>1, <2>5, <2>7, <2>9
<1>. QED
  BY <1>1, <1>4, <1>5 DEF RepoLinesEnd

\* What the property compares.
LEMMA WordsOfKept ==
    ASSUME NEW t \in Seq(Tokens), NEW K \in SUBSET (DOMAIN t)
    PROVE  Words(KeepAt(t, K)) = KeepAt(t, K \cap WordPlaces(t))
<1>. DEFINE Q == WordPlaces(KeepAt(t, K))
            R == Through(K, Q)
<1>1. Q \in SUBSET (DOMAIN KeepAt(t, K)) /\ Words(KeepAt(t, K)) = KeepAt(KeepAt(t, K), Q)
  BY DEF Words, WordPlaces, Loose
<1>. HIDE DEF Q
<1>2. /\ R \in SUBSET K /\ \A p \in K : p \in R <=> Rank(K, p) \in Q
      /\ KeepAt(KeepAt(t, K), Q) = KeepAt(t, R)
  BY <1>1, Composition
<1>. HIDE DEF R
<1>3. \A p \in K : p \in R <=> p \in WordPlaces(t)
  BY <1>2, WordOfKept DEF Q
<1>4. R = K \cap WordPlaces(t)
  BY <1>2, <1>3
<1>. QED
  BY <1>1, <1>2, <1>4

LEMMA WordsLeft ==
    ASSUME NEW t \in Seq(Tokens), NEW D \in SUBSET Blocks, NEW u, Left(u, t, D)
    PROVE  Words(u) =
              Words(KeepAt(t, {p \in DOMAIN t : \A b \in D : p \notin BlockPlaces(t, b)}))
<1>. DEFINE M == {p \in DOMAIN t : \A b \in D : p \notin BlockPlaces(t, b)}
<1>1. PICK K \in SUBSET (DOMAIN t) : u = KeepAt(t, K) /\ LeftAt(K, t, D)
  BY DEF Left
<1>2. M \in SUBSET (DOMAIN t)
  OBVIOUS
<1>3. K \cap WordPlaces(t) = M \cap WordPlaces(t)
  BY <1>1 DEF LeftAt, WordPlaces
<1>. HIDE DEF M
<1>4. Words(KeepAt(t, K)) = KeepAt(t, K \cap WordPlaces(t))
  BY WordsOfKept
<1>5. Words(KeepAt(t, M)) = KeepAt(t, M \cap WordPlaces(t))
  BY <1>2, WordsOfKept
<1>6. Words(u) = Words(KeepAt(t, M))
  BY <1>1, <1>3, <1>4, <1>5
<1>. QED
  BY <1>6 DEF M

\* Each step of _strip shortens the text or leaves it.
LEMMA StepsShorten ==
    ASSUME NEW t \in Seq(Tokens), NEW b \in Blocks
    PROVE  /\ Without(t, b) \in Seq(Tokens) /\ ShorterOrSame(Without(t, b), t)
           /\ WithoutRepoLines(t) \in Seq(Tokens) /\ ShorterOrSame(WithoutRepoLines(t), t)
           /\ Collapsed(t) \in Seq(Tokens) /\ ShorterOrSame(Collapsed(t), t)
<1>1. Without(t, b) \in Seq(Tokens) /\ ShorterOrSame(Without(t, b), t)
  BY KeptIsShorterOrSame, WithoutTakesBlocks
<1>2. WithoutRepoLines(t) \in Seq(Tokens) /\ ShorterOrSame(WithoutRepoLines(t), t)
  <2>. DEFINE lines == {i \in DOMAIN t : t[i] = "repo" /\ (i = 1 \/ t[i - 1] = "nl")}
              Q == {j \in DOMAIN t : \A i \in lines :
                       ~(i <= j /\ \A k \in i .. j - 1 : t[k] # "nl")}
  <2>1. WithoutRepoLines(t) = KeepAt(t, Q) /\ Q \in SUBSET (DOMAIN t)
    BY DEF WithoutRepoLines
  <2>. HIDE DEF Q
  <2>. QED
    BY <2>1, KeptIsShorterOrSame
<1>3. Collapsed(t) \in Seq(Tokens) /\ ShorterOrSame(Collapsed(t), t)
  <2>. DEFINE Q == {i \in DOMAIN t :
                     ~(i > 2 /\ t[i] = "nl" /\ t[i - 1] = "nl" /\ t[i - 2] = "nl")}
  <2>1. Collapsed(t) = KeepAt(t, Q) /\ Q \in SUBSET (DOMAIN t)
    BY DEF Collapsed
  <2>. HIDE DEF Q
  <2>. QED
    BY <2>1, KeptIsShorterOrSame
<1>. QED
  BY <1>1, <1>2, <1>3

LEMMA ShorterTransitive ==
    ASSUME NEW t \in Seq(Tokens), NEW u \in Seq(Tokens), NEW v \in Seq(Tokens),
           ShorterOrSame(v, u), ShorterOrSame(u, t)
    PROVE  ShorterOrSame(v, t)
<1>1. Len(t) \in Nat /\ Len(u) \in Nat /\ Len(v) \in Nat
  OBVIOUS
<1>. QED
  BY <1>1 DEF ShorterOrSame

LEMMA StrippedShortens ==
    ASSUME NEW t \in Seq(Tokens), NEW b \in Blocks
    PROVE  Stripped(t, b) \in Seq(Tokens) /\ ShorterOrSame(Stripped(t, b), t)
<1>. DEFINE u == Without(t, b)
            v == WithoutRepoLines(u)
<1>1. u \in Seq(Tokens) /\ ShorterOrSame(u, t)
  BY StepsShorten
<1>. HIDE DEF u
<1>2. v \in Seq(Tokens) /\ ShorterOrSame(v, u)
  BY <1>1, StepsShorten
<1>. HIDE DEF v
<1>3. /\ Collapsed(u) \in Seq(Tokens) /\ ShorterOrSame(Collapsed(u), u)
      /\ Collapsed(v) \in Seq(Tokens) /\ ShorterOrSame(Collapsed(v), v)
  BY <1>1, <1>2, StepsShorten
<1>4. ShorterOrSame(Collapsed(u), t) /\ ShorterOrSame(Collapsed(v), t)
  BY <1>1, <1>2, <1>3, ShorterTransitive
<1>. QED
  BY <1>3, <1>4 DEF Stripped, u, v

\* One more kind of blocks, with the line about the repository where it belongs
\* to the kind.
LEMMA StrippedLeft ==
    ASSUME NEW t \in Seq(Tokens), WellFormed(t), NEW b \in Blocks,
           NEW D \in SUBSET Blocks, b \notin D, NEW u \in Seq(Tokens), Left(u, t, D),
           b = "git" => u = t
    PROVE  Left(Stripped(u, b), t, D \cup {b})
<1>. DEFINE v == Without(u, b)
<1>1. Left(v, t, D \cup {b}) /\ v \in Seq(Tokens)
  BY WithoutLeft, StepsShorten
<1>2. b = "git" => RepoLinesEnd(v)
  <2>. SUFFICES ASSUME b = "git" PROVE RepoLinesEnd(v)
    OBVIOUS
  <2>1. u = t /\ RepoLinesEnd(t)
    BY DEF WellFormed, RepoLinesEnd
  <2>. QED
    BY <2>1, RepoLinesStay
<1>. HIDE DEF v
<1>3. D \cup {b} \in SUBSET Blocks
  OBVIOUS
<1>4. b = "git" => Left(WithoutRepoLines(v), t, D \cup {b})
  BY <1>1, <1>2, <1>3, RepoLinesLeft
<1>5. /\ Left(Collapsed(v), t, D \cup {b})
      /\ b = "git" => Left(Collapsed(WithoutRepoLines(v)), t, D \cup {b})
  BY <1>1, <1>3, <1>4, CollapsedLeft
<1>. QED
  BY <1>5 DEF Stripped, v

-----------------------------------------------------------------------------
(* The names of the tools. *)

\* In every dialect a tool matches what was asked for exactly if it plays its role.
LEMMA MatchesByRole ==
    ASSUME NEW agent \in STRING, NEW e \in Dialect(agent), NEW q \in Requestable
    PROVE  Matches(e, q) <=> e.role = Role(q)
<1>1. q \in {"shell", "read", "save", "write", "patch", "fetch", "list"}
  BY DEF Requestable
<1>2. agent \in {"codex", "gptme", "continue-cli", "pi"}
  BY DEF Dialect
<1>3. CASE agent = "codex"
  BY <1>1, <1>3 DEF Dialect, Entry, Matches, Canonical, Role, Requestable
<1>4. CASE agent = "gptme"
  BY <1>1, <1>4 DEF Dialect, Entry, Matches, Canonical, Role, Requestable
<1>5. CASE agent = "continue-cli"
  BY <1>1, <1>5 DEF Dialect, Entry, Matches, Canonical, Role, Requestable
<1>6. CASE agent = "pi"
  BY <1>1, <1>6 DEF Dialect, Entry, Matches, Canonical, Role, Requestable
<1>. QED
  BY <1>2, <1>3, <1>4, <1>5, <1>6

\* A canonical name is that of no role, and its own.
LEMMA CanonicalNames ==
    ASSUME NEW tool
    PROVE  /\ Role(Canonical(tool)) = "none"
           /\ Canonical(Canonical(tool)) = Canonical(tool)
<1>1. CASE tool \in Requestable
  <2>1. Canonical(tool) \in {"Bash", "Read", "Write", "MultiEdit", "Fetch", "List"}
    BY <1>1 DEF Requestable, Canonical
  <2>. QED
    BY <2>1 DEF Canonical, Role, Requestable
<1>2. CASE tool \notin Requestable
  BY <1>2 DEF Canonical, Role, Requestable
<1>. QED
  BY <1>1, <1>2

\* An extra name is matched by the tools that have it.
LEMMA MatchesByName ==
    ASSUME NEW agent \in STRING, NEW e \in Dialect(agent), NEW tool
    PROVE  Matches(e, Canonical(tool)) <=> Canonical(tool) \in {e.id, e.raw, e.canonical}
<1>1. e.role # "none"
  <2>1. agent \in {"codex", "gptme", "continue-cli", "pi"}
    BY DEF Dialect
  <2>2. CASE agent = "codex"
    BY <2>2 DEF Dialect, Entry
  <2>3. CASE agent = "gptme"
    BY <2>3 DEF Dialect, Entry
  <2>4. CASE agent = "continue-cli"
    BY <2>4 DEF Dialect, Entry
  <2>5. CASE agent = "pi"
    BY <2>5 DEF Dialect, Entry
  <2>. QED
    BY <2>1, <2>2, <2>3, <2>4, <2>5
<1>. QED
  BY <1>1, CanonicalNames DEF Matches

LEMMA AllowedAsWanted ==
    ASSUME NEW p \in Policies, Dialect(p.agent) # {}, NEW x
    PROVE  LET entries == Dialect(p.agent)
               roles == {Role(q) : q \in p.requested}
               named == {Canonical(y) : y \in p.extra}
               wanted == {e \in entries : \/ e.role \in roles
                                          \/ {e.id, e.raw, e.canonical} \cap named # {}}
               ends == {e \in entries : /\ p.exit /\ e.role = "terminate"
                                        /\ \E w \in wanted : w.role = "command"}
               unknown == {q \in p.requested : \A e \in entries : e.role # Role(q)}
                          \cup {y \in named : \A e \in entries :
                                   y \notin {e.id, e.raw, e.canonical}}
           IN  x \in AllowedNames(p) <=>
                  x \in unknown \/ \E e \in wanted \cup ends : e.raw = x
<1>. DEFINE entries == Dialect(p.agent)
            requested == p.requested
            named == {Canonical(y) : y \in p.extra}
            roles == {Role(q) : q \in requested}
            wanted == {e \in entries : \/ e.role \in roles
                                       \/ {e.id, e.raw, e.canonical} \cap named # {}}
            ends == {e \in entries : /\ p.exit /\ e.role = "terminate"
                                     /\ \E w \in wanted : w.role = "command"}
            unknown == {q \in requested : \A e \in entries : e.role # Role(q)}
                       \cup {y \in named : \A e \in entries :
                                y \notin {e.id, e.raw, e.canonical}}
            selected == {e \in entries : \E q \in requested \cup named : Matches(e, q)}
            unmatched == {q \in requested \cup named : \A e \in entries : ~Matches(e, q)}
<1>1. p.agent \in STRING /\ requested \in SUBSET Requestable
  BY DEF Policies
<1>2. \A e \in entries, q \in requested : Matches(e, q) <=> e.role = Role(q)
  BY <1>1, MatchesByRole
<1>3. \A e \in entries, y \in named : Matches(e, y) <=> y \in {e.id, e.raw, e.canonical}
  BY <1>1, MatchesByName
<1>4. x \in AllowedNames(p) <=>
         \/ \E e \in selected : e.raw = x
         \/ x \in unmatched
         \/ /\ p.exit /\ \E e \in selected : e.role = "command"
            /\ \E e \in entries : e.role = "terminate" /\ e.raw = x
  BY DEF AllowedNames, DialectNames, Requested
<1>. HIDE DEF entries, requested, named
<1>5. selected = wanted
  <2>1. \A e \in entries : (\E q \in requested : Matches(e, q)) <=> e.role \in roles
    BY <1>2
  <2>2. \A e \in entries : (\E y \in named : Matches(e, y))
                              <=> {e.id, e.raw, e.canonical} \cap named # {}
    BY <1>3
  <2>. QED
    BY <2>1, <2>2
<1>6. unmatched = unknown
  BY <1>2, <1>3
<1>. HIDE DEF selected, unmatched, wanted, unknown
<1>7. x \in AllowedNames(p) <=> x \in unknown \/ \E e \in wanted \cup ends : e.raw = x
  BY <1>4, <1>5, <1>6
<1>. QED
  BY <1>7 DEF entries, requested, named, roles, wanted, ends, unknown

-----------------------------------------------------------------------------
(* The invariant. *)

Stages == {"receive", "tools", "git", "permissions", "commit", "skills",
           "effort", "temperature", "forward", "done"}

TypeOK ==
    /\ policy \in Policies /\ original \in Requests /\ body \in Requests
    /\ changed \in BOOLEAN /\ at \in Stages /\ sent \in {"none", "bytes", "payload"}

\* The flag is up exactly if the payload differs: tools are only lost and texts
\* only shortened, and an option is not touched before its override.
FlagTellsChange ==
    /\ changed <=> body # original
    /\ at \in {"receive", "tools"} => body = original
    /\ ShorterOrSame(body.text, original.text)
    /\ at \notin {"temperature", "forward", "done"} => body.effort = original.effort
    /\ at \notin {"forward", "done"} => body.temperature = original.temperature
    /\ at = "done" => sent = IF changed THEN "payload" ELSE "bytes"

\* Nothing behind the filter touches the tools.
ToolsFiltered ==
    Mutable /\ Enabled("filter") /\ at \notin {"receive", "tools"} =>
        body.tools = original.tools \cap (AllowedNames(policy) \cup {"nondict"})

\* The kinds of blocks looked for before a stage.
LookedFor(stage) ==
    CASE stage \in {"receive", "tools", "git"} -> {}
      [] stage = "permissions" -> {"git"}
      [] stage = "commit" -> {"git", "permissions"}
      [] stage = "skills" -> {"git", "permissions", "commit"}
      [] OTHER -> Blocks

BlocksTaken ==
    /\ at \in {"receive", "tools", "git"} => body.text = original.text
    /\ Mutable /\ WellFormed(original.text) =>
          Left(body.text, original.text, {b \in LookedFor(at) : Reaches(b)})

IInv == TypeOK /\ FlagTellsChange /\ ToolsFiltered /\ BlocksTaken

LEMMA InitIInv == Init => IInv
<1>. SUFFICES ASSUME Init PROVE IInv
  OBVIOUS
<1>1. PICK c \in Cases : policy = c.policy /\ original = c.body
  BY DEF Init
<1>2. policy \in Policies /\ original \in Requests
  BY <1>1, CasesAssumption
<1>3. /\ body = original /\ changed = FALSE /\ at = "receive" /\ sent = "none"
      /\ original.text \in Seq(Tokens)
  BY <1>2 DEF Init, Requests
<1>4. TypeOK
  BY <1>2, <1>3 DEF TypeOK, Stages
<1>5. FlagTellsChange
  BY <1>3 DEF FlagTellsChange, ShorterOrSame
<1>6. ToolsFiltered
  BY <1>3 DEF ToolsFiltered
<1>7. BlocksTaken
  <2>1. {b \in LookedFor(at) : Reaches(b)} = {}
    BY <1>3 DEF LookedFor
  <2>. QED
    BY <1>3, <2>1, AllLeft DEF BlocksTaken
<1>. QED
  BY <1>4, <1>5, <1>6, <1>7 DEF IInv

\* Every step but Init's leaves the settings and the request alone.
LEMMA SettingsStay ==
    ASSUME UNCHANGED <<policy, original>>
    PROVE  /\ Mutable' = Mutable /\ Enabled("filter")' = Enabled("filter")
           /\ AllowedNames(policy)' = AllowedNames(policy)
           /\ WellFormed(original.text)' = WellFormed(original.text)
           /\ \A D : {b \in D : Reaches(b)'} = {b \in D : Reaches(b)}
<1>1. policy' = policy /\ original' = original
  OBVIOUS
<1>2. Mutable' = Mutable
  BY <1>1 DEF Mutable, HasMessages
<1>3. \A switch : Enabled(switch)' = Enabled(switch)
  BY <1>1 DEF Enabled
<1>4. AllowedNames(policy)' = AllowedNames(policy)
  BY <1>1
<1>5. WellFormed(original.text)' = WellFormed(original.text)
  BY <1>1
<1>6. \A b : Reaches(b)' = Reaches(b)
  BY <1>1, <1>3 DEF Reaches, HasMessages
<1>. QED
  BY <1>2, <1>3, <1>4, <1>5, <1>6

LEMMA StripStep ==
    ASSUME NEW n \in DOMAIN Order, Strip(n)
    PROVE  /\ at \in Blocks /\ at \notin LookedFor(at) /\ LookedFor(at) \in SUBSET Blocks
           /\ at' \in {"permissions", "commit", "skills", "effort"}
           /\ LookedFor(at') = LookedFor(at) \cup {at}
           /\ at' = "permissions" => at = "git"
<1>1. n \in {1, 2, 3, 4}
  BY DEF Order
<1>2. CASE n = 1
  BY <1>2 DEF Strip, Order, LookedFor, Blocks
<1>3. CASE n = 2
  BY <1>3 DEF Strip, Order, LookedFor, Blocks
<1>4. CASE n = 3
  BY <1>4 DEF Strip, Order, LookedFor, Blocks
<1>5. CASE n = 4
  BY <1>5 DEF Strip, Order, LookedFor, Blocks
<1>. QED
  BY <1>1, <1>2, <1>3, <1>4, <1>5

LEMMA ReceiveKeeps == IInv /\ Receive => IInv'
<1>. SUFFICES ASSUME IInv, Receive PROVE IInv'
  OBVIOUS
<1>1. /\ TypeOK /\ FlagTellsChange /\ ToolsFiltered /\ BlocksTaken
      /\ at = "receive" /\ at' \in {"tools", "forward"}
      /\ at' = "forward" => ~Mutable
      /\ UNCHANGED <<policy, original, body, changed, sent>>
  BY DEF IInv, Receive, Mutable, HasMessages
<1>2. TypeOK'
  BY <1>1 DEF TypeOK, Stages
<1>3. FlagTellsChange'
  BY <1>1 DEF FlagTellsChange
<1>4. Mutable' = Mutable
  BY <1>1 DEF Mutable, HasMessages
<1>5. ToolsFiltered'
  BY <1>1, <1>4 DEF ToolsFiltered
<1>6. BlocksTaken'
  <2>1. body'.text = original'.text
    BY <1>1 DEF BlocksTaken
  <2>2. ASSUME Mutable' PROVE Left(body'.text, original'.text, {b \in LookedFor(at') : Reaches(b)'})
    <3>1. LookedFor(at') = {}
      BY <1>1, <1>4, <2>2 DEF LookedFor
    <3>2. original.text \in Seq(Tokens) /\ body'.text = original.text /\ original' = original
      BY <1>1, <2>1 DEF TypeOK, Requests
    <3>3. Left(original.text, original.text, {})
      BY <3>2, AllLeft
    <3>. QED
      BY <3>1, <3>2, <3>3
  <2>. QED
    BY <2>1, <2>2 DEF BlocksTaken
<1>. QED
  BY <1>2, <1>3, <1>5, <1>6 DEF IInv

LEMMA FilterToolsKeeps == IInv /\ FilterTools => IInv'
<1>. SUFFICES ASSUME IInv, FilterTools PROVE IInv'
  OBVIOUS
<1>. DEFINE left == body.tools \cap (AllowedNames(policy) \cup {"nondict"})
<1>1. /\ TypeOK /\ FlagTellsChange /\ ToolsFiltered /\ BlocksTaken
      /\ at = "tools" /\ at' = "git"
      /\ changed' = (changed \/ body' # body)
      /\ UNCHANGED <<policy, original, sent>>
      /\ body' = IF Enabled("filter") /\ HasMessages THEN HintRewritten(left) ELSE body
  BY DEF IInv, FilterTools, Order
<1>2. body = original /\ body \in Requests
  BY <1>1 DEF FlagTellsChange, TypeOK
<1>3. left \in SUBSET STRING
  BY <1>2 DEF Requests
<1>4. /\ HintRewritten(left) \in Requests
      /\ HintRewritten(left).tools = left
      /\ HintRewritten(left).text = body.text
      /\ HintRewritten(left).effort = body.effort
      /\ HintRewritten(left).temperature = body.temperature
  <2>. HIDE DEF left
  <2>. QED
    BY <1>2, <1>3 DEF HintRewritten, Requests
<1>5. /\ body' \in Requests /\ body'.text = body.text
      /\ body'.effort = body.effort /\ body'.temperature = body.temperature
  BY <1>1, <1>2, <1>4
<1>6. TypeOK'
  BY <1>1, <1>5 DEF TypeOK, Stages
<1>7. FlagTellsChange'
  BY <1>1, <1>2, <1>5 DEF FlagTellsChange
<1>8. ToolsFiltered'
  <2>1. ASSUME Mutable, Enabled("filter")
        PROVE  body'.tools = original.tools \cap (AllowedNames(policy) \cup {"nondict"})
    BY <1>1, <1>2, <1>4, <2>1 DEF Mutable
  <2>2. /\ Mutable' = Mutable /\ Enabled("filter")' = Enabled("filter")
        /\ AllowedNames(policy)' = AllowedNames(policy)
    BY <1>1, SettingsStay
  <2>. QED
    BY <1>1, <2>1, <2>2 DEF ToolsFiltered
<1>9. BlocksTaken'
  <2>1. LookedFor(at') = LookedFor(at)
    BY <1>1 DEF LookedFor
  <2>2. /\ Mutable' = Mutable /\ WellFormed(original.text)' = WellFormed(original.text)
        /\ \A D : {b \in D : Reaches(b)'} = {b \in D : Reaches(b)}
    BY <1>1, SettingsStay
  <2>. QED
    BY <1>1, <1>5, <2>1, <2>2 DEF BlocksTaken
<1>. QED
  BY <1>6, <1>7, <1>8, <1>9 DEF IInv

LEMMA StripKeeps ==
    ASSUME IInv, NEW n \in DOMAIN Order, Strip(n)
    PROVE  IInv'
<1>. DEFINE t == original.text
            shorter == Stripped(body.text, at)
            D == {b \in LookedFor(at) : Reaches(b)}
<1>1. /\ TypeOK /\ FlagTellsChange /\ ToolsFiltered /\ BlocksTaken
      /\ changed' = (changed \/ body' # body)
      /\ UNCHANGED <<policy, original, sent>>
      /\ body' = IF Reaches(at) THEN [body EXCEPT !.text = shorter] ELSE body
  BY DEF IInv, Strip
<1>2. /\ at \in Blocks /\ at \notin LookedFor(at) /\ LookedFor(at) \in SUBSET Blocks
      /\ at' \in {"permissions", "commit", "skills", "effort"}
      /\ LookedFor(at') = LookedFor(at) \cup {at}
  BY StripStep
<1>3. /\ body \in Requests /\ original \in Requests
      /\ body.text \in Seq(Tokens) /\ t \in Seq(Tokens)
  BY <1>1 DEF TypeOK, Requests
<1>4. /\ shorter \in Seq(Tokens) /\ ShorterOrSame(shorter, body.text)
      /\ ShorterOrSame(shorter, t)
  <2>1. shorter \in Seq(Tokens) /\ ShorterOrSame(shorter, body.text)
    BY <1>2, <1>3, StrippedShortens
  <2>. QED
    BY <1>1, <1>3, <2>1, ShorterTransitive DEF FlagTellsChange
<1>. HIDE DEF t, shorter, D
<1>5. /\ body' \in Requests /\ body'.tools = body.tools /\ body'.hint = body.hint
      /\ body'.effort = body.effort /\ body'.temperature = body.temperature
      /\ body'.text = IF Reaches(at) THEN shorter ELSE body.text
      /\ body'.text = body.text => body' = body
  BY <1>1, <1>3, <1>4 DEF Requests
<1>6. TypeOK'
  BY <1>1, <1>2, <1>5 DEF TypeOK, Stages
<1>7. FlagTellsChange'
  <2>1. ShorterOrSame(body'.text, t)
    BY <1>1, <1>4, <1>5 DEF FlagTellsChange, t
  <2>2. ASSUME body' # body PROVE body' # original
    <3>1. body'.text = shorter /\ shorter # body.text
      BY <1>5, <2>2
    <3>2. Len(shorter) \in Nat /\ Len(body.text) \in Nat /\ Len(t) \in Nat
      BY <1>3, <1>4
    <3>3. Len(shorter) < Len(t)
      BY <1>1, <1>4, <3>1, <3>2 DEF ShorterOrSame, FlagTellsChange, t
    <3>4. shorter # t
      BY <3>2, <3>3
    <3>. QED
      BY <3>1, <3>4 DEF t
  <2>. QED
    BY <1>1, <1>2, <1>5, <2>1, <2>2 DEF FlagTellsChange, Blocks, t
<1>8. ToolsFiltered'
  <2>1. /\ Mutable' = Mutable /\ Enabled("filter")' = Enabled("filter")
        /\ AllowedNames(policy)' = AllowedNames(policy)
    BY <1>1, SettingsStay
  <2>2. at \notin {"receive", "tools"}
    BY <1>2 DEF Blocks
  <2>. QED
    BY <1>1, <1>5, <2>1, <2>2 DEF ToolsFiltered
<1>9. BlocksTaken'
  <2>1. /\ Mutable' = Mutable /\ WellFormed(original.text)' = WellFormed(t)
        /\ \A X : {b \in X : Reaches(b)'} = {b \in X : Reaches(b)}
    BY <1>1, SettingsStay DEF t
  <2>2. ASSUME Mutable, WellFormed(t)
        PROVE  Left(body'.text, t, {b \in LookedFor(at) \cup {at} : Reaches(b)})
    <3>1. Left(body.text, t, D) /\ (at = "git" => body.text = t)
      BY <1>1, <2>2 DEF BlocksTaken, D, t
    <3>2. CASE Reaches(at)
      <4>1. D \in SUBSET Blocks /\ at \notin D
        BY <1>2 DEF D
      <4>2. Left(shorter, t, D \cup {at})
        BY <1>2, <1>3, <2>2, <3>1, <4>1, StrippedLeft DEF shorter
      <4>3. {b \in LookedFor(at) \cup {at} : Reaches(b)} = D \cup {at}
        BY <3>2 DEF D
      <4>. QED
        BY <1>5, <3>2, <4>2, <4>3
    <3>3. CASE ~Reaches(at)
      <4>1. {b \in LookedFor(at) \cup {at} : Reaches(b)} = D
        BY <3>3 DEF D
      <4>. QED
        BY <1>5, <3>1, <3>3, <4>1
    <3>. QED
      BY <3>2, <3>3
  <2>3. at' \notin {"receive", "tools", "git"} /\ original' = original
    BY <1>1, <1>2
  <2>. QED
    BY <1>2, <2>1, <2>2, <2>3 DEF BlocksTaken, t
<1>. QED
  BY <1>6, <1>7, <1>8, <1>9 DEF IInv

LEMMA OverrideEffortKeeps == IInv /\ OverrideEffort => IInv'
<1>. SUFFICES ASSUME IInv, OverrideEffort PROVE IInv'
  OBVIOUS
<1>1. /\ TypeOK /\ FlagTellsChange /\ ToolsFiltered /\ BlocksTaken
      /\ at = "effort" /\ at' = "temperature"
      /\ changed' = (changed \/ body' # body)
      /\ UNCHANGED <<policy, original, sent>>
      /\ body' = body \/ body' = [body EXCEPT !.effort = "wanted"]
  BY DEF IInv, OverrideEffort
<1>2. /\ body' \in Requests /\ body'.tools = body.tools /\ body'.hint = body.hint
      /\ body'.text = body.text /\ body'.temperature = body.temperature
      /\ body' # body => body'.effort # body.effort
  <2>1. body \in Requests
    BY <1>1 DEF TypeOK
  <2>2. CASE body' = body
    BY <2>1, <2>2
  <2>3. CASE body' = [body EXCEPT !.effort = "wanted"]
    BY <2>1, <2>3 DEF Requests, Settings
  <2>. QED
    BY <1>1, <2>2, <2>3
<1>3. TypeOK'
  BY <1>1, <1>2 DEF TypeOK, Stages
<1>4. FlagTellsChange'
  <2>1. body' # body => body' # original
    BY <1>1, <1>2 DEF FlagTellsChange
  <2>. QED
    BY <1>1, <1>2, <2>1 DEF FlagTellsChange
<1>5. ToolsFiltered' /\ BlocksTaken'
  <2>1. /\ Mutable' = Mutable /\ Enabled("filter")' = Enabled("filter")
        /\ AllowedNames(policy)' = AllowedNames(policy)
        /\ WellFormed(original.text)' = WellFormed(original.text)
        /\ \A D : {b \in D : Reaches(b)'} = {b \in D : Reaches(b)}
    BY <1>1, SettingsStay
  <2>2. LookedFor(at') = LookedFor(at)
    BY <1>1 DEF LookedFor
  <2>3. ToolsFiltered'
    BY <1>1, <1>2, <2>1 DEF ToolsFiltered
  <2>4. BlocksTaken'
    BY <1>1, <1>2, <2>1, <2>2 DEF BlocksTaken
  <2>. QED
    BY <2>3, <2>4
<1>. QED
  BY <1>3, <1>4, <1>5 DEF IInv

LEMMA OverrideTemperatureKeeps == IInv /\ OverrideTemperature => IInv'
<1>. SUFFICES ASSUME IInv, OverrideTemperature PROVE IInv'
  OBVIOUS
<1>1. /\ TypeOK /\ FlagTellsChange /\ ToolsFiltered /\ BlocksTaken
      /\ at = "temperature" /\ at' = "forward"
      /\ changed' = (changed \/ body' # body)
      /\ UNCHANGED <<policy, original, sent>>
      /\ body' = body \/ body' = [body EXCEPT !.temperature = "wanted"]
  BY DEF IInv, OverrideTemperature
<1>2. /\ body' \in Requests /\ body'.tools = body.tools /\ body'.hint = body.hint
      /\ body'.text = body.text /\ body'.effort = body.effort
      /\ body' # body => body'.temperature # body.temperature
  <2>1. body \in Requests
    BY <1>1 DEF TypeOK
  <2>2. CASE body' = body
    BY <2>1, <2>2
  <2>3. CASE body' = [body EXCEPT !.temperature = "wanted"]
    BY <2>1, <2>3 DEF Requests, Settings
  <2>. QED
    BY <1>1, <2>2, <2>3
<1>3. TypeOK'
  BY <1>1, <1>2 DEF TypeOK, Stages
<1>4. FlagTellsChange'
  <2>1. body' # body => body' # original
    BY <1>1, <1>2 DEF FlagTellsChange
  <2>. QED
    BY <1>1, <1>2, <2>1 DEF FlagTellsChange
<1>5. ToolsFiltered' /\ BlocksTaken'
  <2>1. /\ Mutable' = Mutable /\ Enabled("filter")' = Enabled("filter")
        /\ AllowedNames(policy)' = AllowedNames(policy)
        /\ WellFormed(original.text)' = WellFormed(original.text)
        /\ \A D : {b \in D : Reaches(b)'} = {b \in D : Reaches(b)}
    BY <1>1, SettingsStay
  <2>2. LookedFor(at') = LookedFor(at)
    BY <1>1 DEF LookedFor
  <2>3. ToolsFiltered'
    BY <1>1, <1>2, <2>1 DEF ToolsFiltered
  <2>4. BlocksTaken'
    BY <1>1, <1>2, <2>1, <2>2 DEF BlocksTaken
  <2>. QED
    BY <2>3, <2>4
<1>. QED
  BY <1>3, <1>4, <1>5 DEF IInv

LEMMA ForwardKeeps == IInv /\ Forward => IInv'
<1>. SUFFICES ASSUME IInv, Forward PROVE IInv'
  OBVIOUS
<1>1. /\ TypeOK /\ FlagTellsChange /\ ToolsFiltered /\ BlocksTaken
      /\ at = "forward" /\ at' = "done"
      /\ sent' = IF changed THEN "payload" ELSE "bytes"
      /\ UNCHANGED <<policy, original, body, changed>>
  BY DEF IInv, Forward
<1>2. TypeOK'
  BY <1>1 DEF TypeOK, Stages
<1>3. FlagTellsChange'
  BY <1>1 DEF FlagTellsChange
<1>4. /\ Mutable' = Mutable /\ Enabled("filter")' = Enabled("filter")
      /\ AllowedNames(policy)' = AllowedNames(policy)
      /\ WellFormed(original.text)' = WellFormed(original.text)
      /\ \A D : {b \in D : Reaches(b)'} = {b \in D : Reaches(b)}
  BY <1>1, SettingsStay
<1>5. ToolsFiltered'
  BY <1>1, <1>4 DEF ToolsFiltered
<1>6. LookedFor(at') = LookedFor(at)
  BY <1>1 DEF LookedFor
<1>7. BlocksTaken'
  BY <1>1, <1>4, <1>6 DEF BlocksTaken
<1>. QED
  BY <1>2, <1>3, <1>5, <1>7 DEF IInv

\* The invariant holds of every request and any settings: the flag tells whether
\* anything was changed, the tools are those the filter left, and each prompt is
\* the original without the blocks looked for so far (_mutate_request_body).
THEOREM Invariant == Spec => []IInv
<1>1. Init => IInv
  BY InitIInv
<1>2. IInv /\ [Next]_vars => IInv'
  <2>. SUFFICES ASSUME IInv, [Next]_vars PROVE IInv'
    OBVIOUS
  <2>1. CASE Receive
    BY <2>1, ReceiveKeeps
  <2>2. CASE FilterTools
    BY <2>2, FilterToolsKeeps
  <2>3. ASSUME NEW n \in DOMAIN Order, Strip(n) PROVE IInv'
    BY <2>3, StripKeeps
  <2>4. CASE OverrideEffort
    BY <2>4, OverrideEffortKeeps
  <2>5. CASE OverrideTemperature
    BY <2>5, OverrideTemperatureKeeps
  <2>6. CASE Forward
    BY <2>6, ForwardKeeps
  <2>7. CASE UNCHANGED vars
    <3>1. /\ UNCHANGED <<policy, original, body, changed, at, sent>>
          /\ TypeOK /\ FlagTellsChange /\ ToolsFiltered /\ BlocksTaken
      BY <2>7 DEF vars, IInv
    <3>2. /\ Mutable' = Mutable /\ Enabled("filter")' = Enabled("filter")
          /\ AllowedNames(policy)' = AllowedNames(policy)
          /\ WellFormed(original.text)' = WellFormed(original.text)
          /\ \A D : {b \in D : Reaches(b)'} = {b \in D : Reaches(b)}
      BY <3>1, SettingsStay
    <3>3. LookedFor(at') = LookedFor(at)
      BY <3>1
    <3>4. TypeOK' /\ FlagTellsChange'
      BY <3>1 DEF TypeOK, FlagTellsChange
    <3>5. ToolsFiltered'
      BY <3>1, <3>2 DEF ToolsFiltered
    <3>6. BlocksTaken'
      BY <3>1, <3>2, <3>3 DEF BlocksTaken
    <3>. QED
      BY <3>4, <3>5, <3>6 DEF IInv
  <2>. QED
    BY <2>1, <2>2, <2>3, <2>4, <2>5, <2>6, <2>7 DEF Next
<1>. QED
  BY <1>1, <1>2, PTL DEF Spec

-----------------------------------------------------------------------------
(* What the run checks. *)

LEMMA ArrivedIsBody == IInv /\ at = "done" => Arrived = body
BY DEF IInv, FlagTellsChange, Arrived

\* The backend gets the request with the changes of all stages, and the bytes of
\* the agent if no stage changed anything (_mutate_request_body, do_POST).
THEOREM MutationsReachBackendHolds == Spec => []MutationsReachBackend
<1>1. IInv => MutationsReachBackend
  BY ArrivedIsBody DEF IInv, FlagTellsChange, MutationsReachBackend
<1>. QED
  BY <1>1, Invariant, PTL

\* Under any request for tools and any extra names of the model, what an agent with
\* a dialect may offer is what plays a requested role or has an extra name, under the
\* agent's own name for it, what was asked for and is unknown to the dialect, and the
\* tools that end the session if one for commands is among them
\* (_resolve_proxy_allowed_tool_names, _mutate_request_body).
THEOREM OfferedAsRequestedHolds == Spec => []OfferedAsRequested
<1>1. IInv => OfferedAsRequested
  <2>. SUFFICES ASSUME IInv, at = "done", Mutable, Enabled("filter"), Dialect(policy.agent) # {}
                PROVE  OfferedAsRequested
    BY DEF OfferedAsRequested
  <2>1. Arrived.tools = original.tools \cap (AllowedNames(policy) \cup {"nondict"})
    BY ArrivedIsBody DEF IInv, ToolsFiltered
  <2>2. policy \in Policies
    BY DEF IInv, TypeOK
  <2>. DEFINE entries == Dialect(policy.agent)
              roles == {Role(q) : q \in policy.requested}
              named == {Canonical(x) : x \in policy.extra}
              wanted == {e \in entries : \/ e.role \in roles
                                         \/ {e.id, e.raw, e.canonical} \cap named # {}}
              ends == {e \in entries : /\ policy.exit /\ e.role = "terminate"
                                       /\ \E w \in wanted : w.role = "command"}
              unknown == {q \in policy.requested : \A e \in entries : e.role # Role(q)}
                         \cup {x \in named : \A e \in entries :
                                  x \notin {e.id, e.raw, e.canonical}}
  <2>3. \A t : t \in AllowedNames(policy) <=>
                 t \in unknown \/ \E e \in wanted \cup ends : e.raw = t
    BY <2>2, AllowedAsWanted
  <2>. HIDE DEF entries, roles, named, wanted, ends, unknown
  <2>4. Arrived.tools = {t \in original.tools :
           t = "nondict" \/ t \in unknown \/ \E e \in wanted \cup ends : e.raw = t}
    BY <2>1, <2>3
  <2>. QED
    BY <2>4 DEF OfferedAsRequested, entries, roles, named, wanted, ends, unknown
<1>. QED
  BY <1>1, Invariant, PTL

\* Of a prompt of any length with blocks in any order, exactly the words within the
\* blocks that were asked for are lost (_mutate_text_blocks and the patterns it is given).
THEOREM StripsAreExactHolds == Spec => []StripsAreExact
<1>1. ASSUME IInv, at = "done", Mutable, WellFormed(original.text)
      PROVE  LET t == original.text
                 gone == {i \in DOMAIN t : \E b \in {c \in Blocks : Reaches(c)} :
                             \E j \in 1 .. i : /\ IsBlock(t, b, j)
                                                /\ \A k \in j .. i - 1 : t[k] # Ends(b)}
             IN  Words(Arrived.text) = Words(KeepAt(t, DOMAIN t \ gone))
  <2>. DEFINE t == original.text
              D == {c \in Blocks : Reaches(c)}
              gone == {i \in DOMAIN t : \E b \in D :
                          \E j \in 1 .. i : /\ IsBlock(t, b, j)
                                             /\ \A k \in j .. i - 1 : t[k] # Ends(b)}
  <2>1. t \in Seq(Tokens)
    BY <1>1 DEF IInv, TypeOK, Requests
  <2>2. LookedFor(at) = Blocks
    BY <1>1 DEF LookedFor
  <2>3. Left(body.text, t, D)
    BY <1>1, <2>2 DEF IInv, BlocksTaken
  <2>4. DOMAIN t \ gone = {p \in DOMAIN t : \A b \in D : p \notin BlockPlaces(t, b)}
    <3>. HIDE DEF t, D
    <3>. QED
      BY DEF BlockPlaces
  <2>5. D \in SUBSET Blocks
    OBVIOUS
  <2>. HIDE DEF t, D
  <2>6. Words(body.text) =
           Words(KeepAt(t, {p \in DOMAIN t : \A b \in D : p \notin BlockPlaces(t, b)}))
    BY <2>1, <2>3, <2>5, WordsLeft
  <2>7. Arrived = body
    BY <1>1, ArrivedIsBody
  <2>8. Words(Arrived.text) = Words(KeepAt(t, DOMAIN t \ gone))
    BY <2>4, <2>6, <2>7
  <2>. QED
    BY <2>8 DEF t, D
<1>2. IInv => StripsAreExact
  BY <1>1 DEF StripsAreExact
<1>. QED
  BY <1>2, Invariant, PTL

=============================================================================
