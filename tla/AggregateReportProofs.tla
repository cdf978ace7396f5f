----------------------- MODULE AggregateReportProofs -----------------------
(* Proofs about the report: the scores of a row follow its cells, for any number
   of runs, tests and outcomes. *)
EXTENDS AggregateReport, ResultStoreProofs, FiniteSetTheorems

-----------------------------------------------------------------------------
(* Sums over finite sets.  SumFunctionOnSet adds the values of f over S by a
   function that is defined by itself on the subsets of S; that there is one is
   shown by a smallest subset that has none. *)

Pick(T) == CHOOSE x \in T : TRUE
IsSum(g, f, S) ==
    g = [T \in SUBSET S |-> IF T = {} THEN 0 ELSE f[Pick(T)] + g[T \ {Pick(T)}]]

LEMMA MinimalSubset ==
    ASSUME NEW S, IsFiniteSet(S), NEW B, B \subseteq SUBSET S, B # {}
    PROVE  \E T \in B : \A U \in B : U \subseteq T => U = T
<1>1. IsWellFoundedOn(StrictSubsetOrdering(S), SUBSET S)
  BY FS_StrictSubsetOrderingWellFounded, FS_FiniteSubsetsOfFinite
<1>2. PICK T \in B : \A U \in B : <<U, T>> \notin StrictSubsetOrdering(S)
  BY <1>1, WFMin
<1>. QED
  BY <1>2 DEF StrictSubsetOrdering

LEMMA PickOf ==
    ASSUME NEW T, T # {}
    PROVE  Pick(T) \in T
BY DEF Pick

\* Two such functions agree where both are defined.
LEMMA SumUnique ==
    ASSUME NEW V, IsFiniteSet(V), NEW f,
           NEW S, NEW g, IsSum(g, f, S), V \subseteq S,
           NEW U, NEW h, IsSum(h, f, U), V \subseteq U
    PROVE  g[V] = h[V]
<1>. DEFINE B == {T \in SUBSET V : g[T] # h[T]}
<1>. SUFFICES ASSUME B # {} PROVE FALSE
  OBVIOUS
<1>1. PICK T \in B : \A W \in B : W \subseteq T => W = T
  <2>1. B \subseteq SUBSET V
    OBVIOUS
  <2>. HIDE DEF B
  <2>. QED
    BY <2>1, MinimalSubset
<1>2. T \in SUBSET S /\ T \in SUBSET U
  OBVIOUS
<1>3. /\ g[T] = IF T = {} THEN 0 ELSE f[Pick(T)] + g[T \ {Pick(T)}]
      /\ h[T] = IF T = {} THEN 0 ELSE f[Pick(T)] + h[T \ {Pick(T)}]
  <2>1. \A X \in SUBSET S : g[X] = IF X = {} THEN 0 ELSE f[Pick(X)] + g[X \ {Pick(X)}]
    BY DEF IsSum
  <2>2. \A X \in SUBSET U : h[X] = IF X = {} THEN 0 ELSE f[Pick(X)] + h[X \ {Pick(X)}]
    BY DEF IsSum
  <2>. QED
    BY <1>2, <2>1, <2>2
<1>4. T # {} /\ g[T] # h[T]
  BY <1>3
<1>5. T \ {Pick(T)} \in SUBSET V /\ T \ {Pick(T)} \subseteq T /\ T \ {Pick(T)} # T
  BY <1>4, PickOf
<1>6. g[T \ {Pick(T)}] = h[T \ {Pick(T)}]
  BY <1>1, <1>5
<1>. QED
  BY <1>3, <1>4, <1>6

LEMMA SumExists ==
    ASSUME NEW S, IsFiniteSet(S), NEW f
    PROVE  \E g : IsSum(g, f, S)
<1>. DEFINE B == {T \in SUBSET S : ~\E g : IsSum(g, f, T)}
<1>. SUFFICES ASSUME B # {} PROVE FALSE
  OBVIOUS
<1>1. PICK T \in B : \A W \in B : W \subseteq T => W = T
  <2>1. B \subseteq SUBSET S
    OBVIOUS
  <2>. HIDE DEF B
  <2>. QED
    BY <2>1, MinimalSubset
<1>2. T \in SUBSET S /\ ~\E g : IsSum(g, f, T)
  OBVIOUS
<1>. DEFINE sum(W) == CHOOSE g : IsSum(g, f, W)
            rest(W) == W \ {Pick(W)}
            G == [W \in SUBSET T |-> IF W = {} THEN 0 ELSE f[Pick(W)] + sum(rest(W))[rest(W)]]
<1>3. ASSUME NEW W \in SUBSET T, W # {}
      PROVE  /\ rest(W) \in SUBSET T /\ IsFiniteSet(rest(W))
             /\ rest(W) \in SUBSET W /\ IsSum(sum(rest(W)), f, rest(W))
  <2>1. rest(W) \in SUBSET W /\ rest(W) # W
    BY <1>3, PickOf
  <2>2. rest(W) \in SUBSET S /\ rest(W) \subseteq T /\ rest(W) # T
    BY <1>2, <2>1
  <2>3. rest(W) \notin B
    BY <1>1, <2>2
  <2>4. \E g : IsSum(g, f, rest(W))
    BY <2>2, <2>3
  <2>5. IsFiniteSet(rest(W))
    BY <2>2, FS_Subset
  <2>. QED
    BY <2>1, <2>2, <2>4, <2>5
<1>4. ASSUME NEW U \in SUBSET T, IsSum(sum(U), f, U), IsFiniteSet(U)
      PROVE  sum(U)[U] = G[U]
  <2>1. sum(U)[U] = IF U = {} THEN 0 ELSE f[Pick(U)] + sum(U)[rest(U)]
    <3>1. \A X \in SUBSET U : sum(U)[X] = IF X = {} THEN 0 ELSE f[Pick(X)] + sum(U)[rest(X)]
      <4>. DEFINE h == sum(U)
      <4>1. IsSum(h, f, U)
        BY <1>4
      <4>. HIDE DEF h
      <4>2. \A X \in SUBSET U : h[X] = IF X = {} THEN 0 ELSE f[Pick(X)] + h[X \ {Pick(X)}]
        BY <4>1 DEF IsSum
      <4>. QED
        BY <4>2 DEF h
    <3>. QED
      BY <3>1
  <2>2. CASE U = {}
    BY <2>1, <2>2
  <2>3. CASE U # {}
    <3>1. /\ IsFiniteSet(rest(U)) /\ rest(U) \in SUBSET U
          /\ IsSum(sum(rest(U)), f, rest(U))
      BY <1>3, <2>3
    <3>2. sum(U)[rest(U)] = sum(rest(U))[rest(U)]
      <4>. DEFINE V == rest(U)
                  g == sum(U)
                  h == sum(V)
      <4>1. IsFiniteSet(V) /\ V \subseteq U /\ IsSum(g, f, U) /\ IsSum(h, f, V)
        BY <1>4, <3>1
      <4>. HIDE DEF V, g, h
      <4>2. g[V] = h[V]
        BY <4>1, SumUnique
      <4>. QED
        BY <4>2 DEF V, g, h
    <3>3. G[U] = f[Pick(U)] + sum(rest(U))[rest(U)]
      BY <2>3
    <3>. QED
      BY <2>1, <2>3, <3>2, <3>3
  <2>. QED
    BY <2>2, <2>3
<1>5. ASSUME NEW W \in SUBSET T, W # {}
      PROVE  G[W] = f[Pick(W)] + G[rest(W)]
  <2>1. G[W] = f[Pick(W)] + sum(rest(W))[rest(W)]
    BY <1>5
  <2>2. sum(rest(W))[rest(W)] = G[rest(W)]
    BY <1>3, <1>4, <1>5
  <2>. QED
    BY <2>1, <2>2
<1>6. G[{}] = 0 /\ {} \in SUBSET T
  OBVIOUS
<1>7. G = [W \in SUBSET T |-> G[W]]
  OBVIOUS
<1>. HIDE DEF G
<1>8. IsSum(G, f, T)
  BY <1>5, <1>6, <1>7 DEF IsSum
<1>. QED
  BY <1>2, <1>8

\* What SumFunctionOnSet reads at S is such a function.
LEMMA SumIsSum ==
    ASSUME NEW S, IsFiniteSet(S), NEW f
    PROVE  \E g : IsSum(g, f, S) /\ SumFunctionOnSet(f, S) = g[S]
<1>. DEFINE sum == CHOOSE g : IsSum(g, f, S)
<1>1. IsSum(sum, f, S)
  BY SumExists
<1>2. SumFunctionOnSet(f, S) = sum[S]
  BY DEF SumFunctionOnSet, FoldFunctionOnSet, MapThenFoldSet, IsSum, Pick
<1>. QED
  BY <1>1, <1>2

\* Sums follow their terms; c is what one sum is scaled by.
LEMMA SumMonotone ==
    ASSUME NEW S, IsFiniteSet(S), NEW f, NEW g, NEW c \in {1, 10},
           \A x \in S : f[x] \in Nat /\ g[x] \in Nat /\ f[x] <= c * g[x]
    PROVE  /\ SumFunctionOnSet(f, S) \in Nat /\ SumFunctionOnSet(g, S) \in Nat
           /\ SumFunctionOnSet(f, S) <= c * SumFunctionOnSet(g, S)
<1>1. PICK F : IsSum(F, f, S) /\ SumFunctionOnSet(f, S) = F[S]
  BY SumIsSum
<1>2. PICK G : IsSum(G, g, S) /\ SumFunctionOnSet(g, S) = G[S]
  BY SumIsSum
<1>. DEFINE Fine(T) == F[T] \in Nat /\ G[T] \in Nat /\ F[T] <= c * G[T]
            B == {T \in SUBSET S : ~Fine(T)}
<1>3. ASSUME B # {} PROVE FALSE
  <2>1. PICK T \in B : \A W \in B : W \subseteq T => W = T
    <3>1. B \subseteq SUBSET S
      OBVIOUS
    <3>. HIDE DEF B
    <3>. QED
      BY <1>3, <3>1, MinimalSubset
  <2>2. T \in SUBSET S /\ ~Fine(T)
    OBVIOUS
  <2>. DEFINE p == Pick(T)
              R == T \ {p}
  <2>3. F[T] = IF T = {} THEN 0 ELSE f[p] + F[R]
    BY <1>1, <2>2 DEF IsSum
  <2>4. G[T] = IF T = {} THEN 0 ELSE g[p] + G[R]
    BY <1>2, <2>2 DEF IsSum
  <2>5. T # {}
    BY <2>2, <2>3, <2>4
  <2>6. p \in S /\ R \in SUBSET S /\ R \subseteq T /\ R # T
    BY <2>2, <2>5, PickOf
  <2>7. R \notin B
    BY <2>1, <2>6
  <2>8. Fine(R)
    BY <2>6, <2>7
  <2>9. f[p] \in Nat /\ g[p] \in Nat /\ f[p] <= c * g[p]
    BY <2>6
  <2>. HIDE DEF p, R
  <2>10. CASE c = 1
    BY <2>2, <2>3, <2>4, <2>5, <2>8, <2>9, <2>10
  <2>11. CASE c = 10
    BY <2>2, <2>3, <2>4, <2>5, <2>8, <2>9, <2>11
  <2>. QED
    BY <2>10, <2>11
<1>4. Fine(S)
  BY <1>3
<1>. QED
  BY <1>1, <1>2, <1>4

\* A set of numbers that is not empty has a least one.
LEMMA LeastOfSome ==
    ASSUME NEW n \in Nat, NEW B \in SUBSET (1 .. n), B # {}
    PROVE  Min(B) \in B /\ \A y \in B : Min(B) <= y
<1>. DEFINE C == {1 .. m : m \in B}
            N == 1 .. n
<1>1. IsFiniteSet(N)
  BY FS_Interval
<1>2. C \subseteq SUBSET N /\ C # {}
  <2>1. \A m \in B : 1 .. m \subseteq 1 .. n
    OBVIOUS
  <2>. QED
    BY <2>1
<1>3. PICK T \in C : \A U \in C : U \subseteq T => U = T
  <2>. HIDE DEF C, N
  <2>. QED
    BY <1>1, <1>2, MinimalSubset
<1>4. PICK m \in B : T = 1 .. m
  BY <1>3
<1>5. ASSUME NEW y \in B PROVE m <= y
  <2>. SUFFICES ASSUME ~(m <= y) PROVE FALSE
    OBVIOUS
  <2>1. y \in Nat /\ m \in Nat /\ y < m
    OBVIOUS
  <2>2. 1 .. y \subseteq 1 .. m /\ m \in 1 .. m /\ m \notin 1 .. y
    BY <2>1
  <2>3. 1 .. y \in C
    OBVIOUS
  <2>. QED
    BY <1>3, <1>4, <2>2, <2>3
<1>. HIDE DEF C
<1>. QED
  BY <1>4, <1>5 DEF Min

-----------------------------------------------------------------------------
(* What the scores in a case.json were earned by *)

Passing == {"PASS", "PASS_WITH_POLICY_VIOLATION"}

\* Where a result comes from: its scores, if it has any, are those of the verdict
\* on a case that was executed; its status is that verdict or a recomputation.
Earned(r, k) ==
    Readable(r, k) =>
        /\ json[r][k].scored # "none" =>
              /\ case[r][k].at = "executed"
              /\ json[r][k].scored = Evaluated(case[r][k].left)
        /\ json[r][k].status \in {json[r][k].scored} \cup Recomputed(k, case[r][k])
ScoresEarned == \A r \in Runs, k \in Keys : Earned(r, k)

\* A case is not begun or ended under a result that stays.
LEMMA CaseStands ==
    ASSUME StoreInv, [Next]_vars, NEW r \in Runs, NEW k \in Keys,
           Readable(r, k), json'[r][k] = json[r][k]
    PROVE  case'[r][k] = case[r][k]
<1>. SUFFICES ASSUME case'[r][k] # case[r][k] PROVE FALSE
  OBVIOUS
<1>1. json[r][k] # NoFile /\ json[r][k] # Torn
  BY DEF Readable, NoFile, Torn
<1>2. r = runs /\ suite.at = "case"
  BY <1>1, CaseChanges
<1>3. case[r][k].at = "executed"
  BY <1>1, <1>2 DEF StoreInv, Running
<1>. QED
  BY <1>3, ExecutedStays

LEMMA InitEarned == Init => ScoresEarned
<1>. SUFFICES ASSUME Init, NEW r \in Runs, NEW k \in Keys PROVE Earned(r, k)
  BY DEF ScoresEarned
<1>1. json[r][k] = NoFile
  BY DEF Init
<1>. QED
  BY <1>1 DEF Earned, Readable, NoFile

LEMMA NextEarned == StoreInv /\ ScoresEarned /\ [Next]_vars => ScoresEarned'
<1>. SUFFICES ASSUME StoreInv, ScoresEarned, [Next]_vars, NEW r \in Runs, NEW k \in Keys
              PROVE  Earned(r, k)'
  BY DEF ScoresEarned
<1>0. /\ json \in [Runs -> [Keys -> Files]] /\ case \in [Runs -> [Keys -> Cases]]
      /\ Earned(r, k)
  BY DEF StoreInv, TypeOK, ScoresEarned
<1>1. CASE json'[r][k] = json[r][k]
  <2>1. Readable(r, k) => case'[r][k] = case[r][k]
    BY <1>1, CaseStands
  <2>. QED
    BY <1>0, <1>1, <2>1 DEF Earned, Readable
<1>2. ASSUME json'[r][k] = Torn PROVE Earned(r, k)'
  BY <1>2 DEF Earned, Readable, Torn
<1>3. ASSUME NEW q \in Runs, NEW j \in Keys, NEW f, json'[r][k] # json[r][k],
             json' = [json EXCEPT ![q][j] = f]
      PROVE  q = r /\ j = k /\ json'[r][k] = f
  BY <1>0, <1>3
<1>4. ASSUME NEW j \in Keys, ExecuteCase(j), json'[r][k] # json[r][k]
      PROVE  Earned(r, k)'
  <2>1. runs \in Runs /\ json' = [json EXCEPT ![runs][j] = Torn]
    BY <1>4 DEF ExecuteCase, StoreInv, Running
  <2>. QED
    BY <1>2, <1>3, <1>4, <2>1
<1>5. ASSUME NEW j \in Keys, WriteCase(j), json'[r][k] # json[r][k]
      PROVE  Earned(r, k)'
  <2>. DEFINE e == case[runs][j].left
  <2>1. /\ runs \in Runs /\ case' = case /\ e \in Evidences
        /\ case[runs][j].at = "executed"
        /\ json' = [json EXCEPT ![runs][j] = Result(Evaluated(e), Evaluated(e))]
    BY <1>5, LeftTyped DEF WriteCase, StoreInv, Running, runVars
  <2>2. r = runs /\ j = k /\ json'[r][k] = Result(Evaluated(e), Evaluated(e))
    BY <1>3, <1>5, <2>1
  <2>. QED
    BY <2>1, <2>2 DEF Earned, Result
<1>6. ASSUME NEW j \in Keys, RebuildCase(j), json'[r][k] # json[r][k]
      PROVE  Earned(r, k)'
  <2>1. PICK f \in RebuiltFiles(tool.run, j) : json' = [json EXCEPT ![tool.run][j] = f]
    BY <1>6 DEF RebuildCase
  <2>2. /\ tool.at = "cases" /\ j \in tool.left /\ case' = case /\ tool.run \in Runs
    BY <1>6, ToolTyped DEF RebuildCase, StoreInv, runVars
  <2>3. tool.run = r /\ j = k /\ json'[r][k] = f
    BY <1>3, <1>6, <2>1, <2>2
  <2>4. /\ f.kind = "result" => f.status \in Recomputed(k, case[r][k])
        /\ f.kind = "result" => \/ f.scored = "none"
                                \/ Readable(r, k) /\ f.scored = json[r][k].scored
    BY <1>6, <2>1, <2>2, <2>3, RebuiltTyped, RebuiltKeepsScores DEF Readable
  <2>. QED
    BY <1>0, <2>2, <2>3, <2>4 DEF Earned, Readable
<1>7. ASSUME NEW j \in Keys, RebuildKilled(j), json'[r][k] # json[r][k]
      PROVE  Earned(r, k)'
  <2>1. tool.run \in Runs /\ json' = [json EXCEPT ![tool.run][j] = Torn]
    BY <1>7, ToolTyped DEF RebuildKilled, StoreInv
  <2>. QED
    BY <1>2, <1>3, <1>7, <2>1
<1>8. json'[r][k] # json[r][k] =>
          \E j \in Keys : \/ ExecuteCase(j) \/ WriteCase(j)
                          \/ RebuildCase(j) \/ RebuildKilled(j)
  BY DEF Next, SuiteStep, RebuildStep, Interruption, StartSuite, SkipEntry,
     StartRun, BeginCase, WriteSummary, WriteManifest, SuiteDone, Crash,
     StartRebuild, RebuildStopped, RebuildSummary, Aggregate, vars
<1>. QED
  BY <1>1, <1>4, <1>5, <1>6, <1>7, <1>8

\* A recomputation of a success turns its status only into PASS, unless it is
\* one of a web test or of an output that says timeout=true.
LEMMA SuccessStands ==
    ASSUME StoreInv, NEW r \in Runs, NEW k \in Keys, Earned(r, k), Readable(r, k),
           json[r][k].scored \in Passing, r <= runs, ~Overstatable(k)
    PROVE  json[r][k].status \in {"PASS", json[r][k].scored}
<1>1. /\ case[r][k].at = "executed" /\ Evaluated(case[r][k].left) \in Passing
      /\ json[r][k].status \in {json[r][k].scored} \cup Recomputed(k, case[r][k])
  BY DEF Earned, Passing
<1>2. case[r][k].left \in Evidences
  BY <1>1 DEF StoreInv, TypeOK, Cases, Absent, Begun, Executed
<1>3. case[r][k].left.process = "ok" /\ case[r][k].left.artifact = "exact"
  BY <1>1, <1>2 DEF Evaluated, Evidences, Passing
<1>4. k \notin Web /\ ~case[r][k].left.marked
  <2>1. r \in Items(k)
    BY ConstantsAssumption DEF Items, Runs, StoreInv, TypeOK
  <2>2. case[r][k].left.marked \in BOOLEAN
    BY <1>2 DEF Evidences
  <2>. QED
    BY <1>1, <1>3, <2>1, <2>2 DEF Overstatable
<1>5. Recomputed(k, case[r][k]) = {"PASS"}
  BY <1>1, <1>3, <1>4 DEF Recomputed
<1>. QED
  BY <1>1, <1>5

\* The result of a key, and what its scores are worth beside its status.
LEMMA ItemScores ==
    ASSUME StoreInv, ScoresEarned, NEW k \in Keys, NEW r \in Items(k)
    PROVE  LET f == json[r][k]
           IN  /\ f.status \in Statuses
               /\ Strict(f.status) \in {0, 10} /\ Overall(f.status) \in {0, 8, 10}
               /\ StrictValue(f) \in {0, 10} /\ OverallValue(f) \in {0, 8, 10}
               /\ StrictValue(f) <= OverallValue(f)
               /\ ~Overstatable(k) => /\ StrictValue(f) <= Strict(f.status)
                                      /\ OverallValue(f) <= Overall(f.status)
               /\ ~Stale(k) => /\ StrictValue(f) = Strict(f.status)
                               /\ OverallValue(f) = Overall(f.status)
<1>. DEFINE f == json[r][k]
            o == Scored(f)
<1>1. r \in Runs /\ r <= runs /\ f \in Files /\ f.kind = "result"
  BY ConstantsAssumption DEF StoreInv, TypeOK, Runs, Items, Readable
<1>2. f \notin {NoFile, Torn, ErrorPayload}
  BY <1>1 DEF NoFile, Torn, ErrorPayload
<1>3. f.status \in Statuses /\ f.scored \in Scores
  BY <1>1, <1>2 DEF Files, Result
<1>4. ~Overstatable(k) /\ f.scored \in Passing => f.status \in {"PASS", f.scored}
  BY <1>1, SuccessStands DEF ScoresEarned, Readable
<1>5. ~Stale(k) => o = f.status
  BY DEF Stale
<1>6. o \in Statuses /\ (o = f.status \/ o = f.scored)
  BY <1>3 DEF Scored, Scores
<1>. HIDE DEF f
<1>7. ~Overstatable(k) =>
          /\ o = "PASS" => f.status = "PASS"
          /\ o = "PASS_WITH_POLICY_VIOLATION" => f.status \in Passing
  BY <1>4, <1>6 DEF Passing
<1>8. StrictValue(f) = Strict(o) /\ OverallValue(f) = Overall(o)
  BY DEF StrictValue, OverallValue
<1>. HIDE DEF o
<1>9. /\ Strict(f.status) \in {0, 10} /\ Overall(f.status) \in {0, 8, 10}
      /\ Strict(o) \in {0, 10} /\ Overall(o) \in {0, 8, 10}
      /\ Strict(o) <= Overall(o)
      /\ ~Overstatable(k) => /\ Strict(o) <= Strict(f.status)
                             /\ Overall(o) <= Overall(f.status)
  BY <1>3, <1>6, <1>7 DEF Strict, Overall, Passing
<1>. QED
  BY <1>3, <1>5, <1>8, <1>9 DEF f

\* A cell links to a result of the status its label tells.
LEMMA RepresentativeOfLabel ==
    ASSUME StoreInv, NEW k \in Shown
    PROVE  \E r \in Items(k) :
              /\ Representative(k) = json[r][k]
              /\ StrictCredit[Label(k)] = Strict(json[r][k].status)
              /\ OverallCredit[Label(k)] = Overall(json[r][k].status)
<1>. DEFINE policy == "PASS_WITH_POLICY_VIOLATION"
<1>1. runs \in Nat /\ Items(k) \in SUBSET (1 .. runs) /\ Items(k) # {}
  BY ConstantsAssumption DEF StoreInv, TypeOK, Items, Shown
<1>2. \A B \in SUBSET (1 .. runs) : B # {} => Min(B) \in B
  BY <1>1, LeastOfSome
<1>3. CASE HasStatus(k, "PASS")
  <2>. DEFINE B == OfStatus(k, "PASS")
  <2>1. B # {} /\ B \in SUBSET (1 .. runs) /\ Representative(k) = json[Min(B)][k]
    BY <1>1, <1>3 DEF HasStatus, OfStatus, Representative
  <2>2. Min(B) \in Items(k) /\ json[Min(B)][k].status = "PASS"
    <3>1. Min(B) \in B
      BY <1>2, <2>1
    <3>. QED
      BY <3>1 DEF OfStatus
  <2>3. Label(k) = "PASS"
    BY <1>3 DEF Label
  <2>. QED
    BY <2>1, <2>2, <2>3 DEF StrictCredit, OverallCredit, Strict, Overall
<1>4. CASE ~HasStatus(k, "PASS") /\ HasStatus(k, policy)
  <2>. DEFINE B == OfStatus(k, policy)
  <2>1. B # {} /\ B \in SUBSET (1 .. runs) /\ Representative(k) = json[Min(B)][k]
    BY <1>1, <1>4 DEF HasStatus, OfStatus, Representative
  <2>2. Min(B) \in Items(k) /\ json[Min(B)][k].status = policy
    <3>1. Min(B) \in B
      BY <1>2, <2>1
    <3>. QED
      BY <3>1 DEF OfStatus
  <2>3. Label(k) = "POLICY"
    BY <1>4 DEF Label
  <2>. QED
    BY <2>1, <2>2, <2>3 DEF StrictCredit, OverallCredit, Strict, Overall
<1>5. CASE ~HasStatus(k, "PASS") /\ ~HasStatus(k, policy)
  <2>. DEFINE r == Min(Items(k))
  <2>1. r \in Items(k) /\ Representative(k) = json[r][k]
    BY <1>1, <1>2, <1>5 DEF Representative
  <2>2. json[r][k].status \notin {"PASS", policy}
    BY <1>5, <2>1 DEF HasStatus, OfStatus
  <2>3. Label(k) = "FAIL"
    BY <1>5 DEF Label
  <2>. HIDE DEF r
  <2>. QED
    BY <2>1, <2>2, <2>3 DEF StrictCredit, OverallCredit, Strict, Overall
<1>. QED
  BY <1>3, <1>4, <1>5

LEMMA ColoursFit ==
    ASSUME NEW k
    PROVE  ColourFits(k)
<1>. DEFINE statuses == {json[r][k].status : r \in Items(k)}
<1>1. \A s : s \in statuses <=> HasStatus(k, s)
  BY DEF HasStatus, OfStatus
<1>2. CellClass(k) = IF statuses = {"PASS"} THEN "agg-all-pass"
                     ELSE IF "PASS" \in statuses THEN "agg-mixed"
                     ELSE IF "PASS_WITH_POLICY_VIOLATION" \in statuses THEN "agg-policy"
                     ELSE "agg-fail"
  BY DEF CellClass
<1>3. statuses = {"PASS"} => "PASS" \in statuses
  OBVIOUS
<1>. HIDE DEF statuses
<1>. QED
  BY <1>1, <1>2, <1>3 DEF ColourFits, Label

\* What a test adds to each of the sums.
LEMMA Terms ==
    ASSUME StoreInv, ScoresEarned, NEW k \in Shown
    PROVE  LET strict == Weight(k) * StrictValue(Representative(k))
               overall == Weight(k) * OverallValue(Representative(k))
               strictLabel == Weight(k) * StrictCredit[Label(k)]
               overallLabel == Weight(k) * OverallCredit[Label(k)]
           IN  /\ Weight(k) \in Nat /\ strict \in Nat /\ overall \in Nat
               /\ strictLabel \in Nat /\ overallLabel \in Nat
               /\ overall <= 10 * Weight(k)
               /\ strict <= 1 * overall
               /\ ~Overstatable(k) =>
                      strict <= 1 * strictLabel /\ overall <= 1 * overallLabel
               /\ ~Stale(k) => strict = strictLabel /\ overall = overallLabel
<1>. DEFINE w == Weight(k)
            a == StrictValue(Representative(k))
            b == OverallValue(Representative(k))
            c == StrictCredit[Label(k)]
            d == OverallCredit[Label(k)]
<1>1. w \in {8, 10}
  BY DEF Weight
<1>2. PICK r \in Items(k) :
         /\ Representative(k) = json[r][k]
         /\ StrictCredit[Label(k)] = Strict(json[r][k].status)
         /\ OverallCredit[Label(k)] = Overall(json[r][k].status)
  BY RepresentativeOfLabel
<1>3. k \in Keys
  BY DEF Shown
<1>4. /\ a \in {0, 10} /\ b \in {0, 8, 10} /\ c \in {0, 10} /\ d \in {0, 8, 10}
      /\ a <= b
      /\ ~Overstatable(k) => a <= c /\ b <= d
      /\ ~Stale(k) => a = c /\ b = d
  BY <1>2, <1>3, ItemScores
<1>. HIDE DEF w, a, b, c, d
<1>5. /\ w \in Nat /\ w * a \in Nat /\ w * b \in Nat /\ w * c \in Nat /\ w * d \in Nat
      /\ w * b <= 10 * w /\ w * a <= 1 * (w * b)
      /\ ~Overstatable(k) => w * a <= 1 * (w * c) /\ w * b <= 1 * (w * d)
  <2>1. CASE w = 8
    BY <1>4, <2>1
  <2>2. CASE w = 10
    BY <1>4, <2>2
  <2>. QED
    BY <1>1, <2>1, <2>2
<1>. QED
  BY <1>4, <1>5 DEF w, a, b, c, d

LEMMA ScoresFollow == StoreInv /\ ScoresEarned => ScoresFollowLabels
<1>. SUFFICES ASSUME StoreInv, ScoresEarned, NEW row \in SUBSET Shown
              PROVE  /\ \A k \in row : ColourFits(k)
                     /\ OverallSum(row) <= 10 * WeightSum(row)
                     /\ StrictSum(row) <= OverallSum(row)
                     /\ (\A k \in row : ~Overstatable(k)) =>
                            /\ StrictSum(row) <= Sum(row, StrictCredit)
                            /\ OverallSum(row) <= Sum(row, OverallCredit)
                     /\ (\A k \in row : ~Stale(k)) =>
                            /\ StrictSum(row) = Sum(row, StrictCredit)
                            /\ OverallSum(row) = Sum(row, OverallCredit)
  BY DEF ScoresFollowLabels
<1>. DEFINE weight == [k \in row |-> Weight(k)]
            strict == [k \in row |-> Weight(k) * StrictValue(Representative(k))]
            overall == [k \in row |-> Weight(k) * OverallValue(Representative(k))]
            strictLabel == [k \in row |-> Weight(k) * StrictCredit[Label(k)]]
            overallLabel == [k \in row |-> Weight(k) * OverallCredit[Label(k)]]
<1>1. IsFiniteSet(row)
  BY KeysAssumption, FS_Subset DEF Shown
<1>2. ASSUME NEW k \in row
      PROVE  /\ weight[k] \in Nat /\ strict[k] \in Nat /\ overall[k] \in Nat
             /\ strictLabel[k] \in Nat /\ overallLabel[k] \in Nat
             /\ overall[k] <= 10 * weight[k]
             /\ strict[k] <= 1 * overall[k]
             /\ ~Overstatable(k) => /\ strict[k] <= 1 * strictLabel[k]
                                    /\ overall[k] <= 1 * overallLabel[k]
             /\ ~Stale(k) => strict[k] = strictLabel[k] /\ overall[k] = overallLabel[k]
  BY Terms
<1>3. /\ WeightSum(row) = SumFunctionOnSet(weight, row)
      /\ StrictSum(row) = SumFunctionOnSet(strict, row)
      /\ OverallSum(row) = SumFunctionOnSet(overall, row)
      /\ Sum(row, StrictCredit) = SumFunctionOnSet(strictLabel, row)
      /\ Sum(row, OverallCredit) = SumFunctionOnSet(overallLabel, row)
  BY DEF WeightSum, StrictSum, OverallSum, Sum
<1>4. (\A k \in row : ~Stale(k)) => strict = strictLabel /\ overall = overallLabel
  <2>1. (\A k \in row : ~Stale(k)) =>
            \A k \in row : strict[k] = strictLabel[k] /\ overall[k] = overallLabel[k]
    BY <1>2
  <2>. QED
    BY <2>1
<1>. HIDE DEF weight, strict, overall, strictLabel, overallLabel
<1>5. /\ SumFunctionOnSet(overall, row) <= 10 * SumFunctionOnSet(weight, row)
  BY <1>1, <1>2, SumMonotone
<1>6. /\ SumFunctionOnSet(strict, row) \in Nat /\ SumFunctionOnSet(overall, row) \in Nat
      /\ SumFunctionOnSet(strict, row) <= 1 * SumFunctionOnSet(overall, row)
  BY <1>1, <1>2, SumMonotone
<1>7. ASSUME \A k \in row : ~Overstatable(k)
      PROVE  /\ SumFunctionOnSet(strict, row) <= SumFunctionOnSet(strictLabel, row)
             /\ SumFunctionOnSet(overall, row) <= SumFunctionOnSet(overallLabel, row)
  <2>1. /\ SumFunctionOnSet(strict, row) \in Nat /\ SumFunctionOnSet(strictLabel, row) \in Nat
        /\ SumFunctionOnSet(strict, row) <= 1 * SumFunctionOnSet(strictLabel, row)
    BY <1>1, <1>2, <1>7, SumMonotone
  <2>2. /\ SumFunctionOnSet(overall, row) \in Nat /\ SumFunctionOnSet(overallLabel, row) \in Nat
        /\ SumFunctionOnSet(overall, row) <= 1 * SumFunctionOnSet(overallLabel, row)
    BY <1>1, <1>2, <1>7, SumMonotone
  <2>. QED
    BY <2>1, <2>2
<1>8. SumFunctionOnSet(strict, row) <= SumFunctionOnSet(overall, row)
  BY <1>6
<1>. QED
  BY <1>3, <1>4, <1>5, <1>7, <1>8, ColoursFit

\* Every readable case.json has an origin: its scores, if any, are those of the
\* evaluator's verdict on the case that was executed there, and its status is that
\* verdict or what the test of specs/ makes of the same directory, which for a web
\* test is never a PASS (WriteCase, RebuiltFiles).
THEOREM ResultsAreEarned == Spec => []ScoresEarned
<1>1. Init => ScoresEarned
  BY InitEarned
<1>2. StoreInv /\ ScoresEarned /\ [Next]_vars => ScoresEarned'
  BY NextEarned
<1>. QED
  BY <1>1, <1>2, StoreInvariant, PTL DEF Spec

\* For any tests, evidence and number of runs, whatever was executed again, died,
\* was rebuilt or recomputed: the strict score of a row is at most the overall one
\* and both are within the weights (_group_score, _group_overall_score); they say
\* no more than the labels of the cells where the row has no web test and no
\* output that says timeout=true without one, and exactly that where no case was
\* recomputed to another status.
THEOREM ReportFollowsLabels == Spec => []ScoresFollowLabels
<1>1. StoreInv /\ ScoresEarned => ScoresFollowLabels
  BY ScoresFollow
<1>. QED
  BY <1>1, StoreInvariant, ResultsAreEarned, PTL

=============================================================================
